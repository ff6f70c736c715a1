----------------------------- MODULE TrackProofs -----------------------------
(* Theorems about a Track run, for any scenarios, delays, leases and bounds. *)
EXTENDS ToolLoop, MailboxProofs, EvaluatorProofs

-----------------------------------------------------------------------------
(* What a run's state looks like.                                          *)

Ids == MessageIds \cup {Nothing}
Replies == {QuoteResponse} \cup (IF fault = "crash_amnesia_fresh_ids" THEN FreshIds ELSE {})
ModelPlaces == {"thinking", "hinting", "claiming", "reoffering", "sending", "suppressing",
                "acking", "dropping", "exited"}
Places == ModelPlaces \cup {"idle", "handling", "stalled", "accepted"}
Answers == {Nothing, "work", "no work", "accepted", "recorded", "stale", "listed", "error"}
Codes == {0, 1, 2, 3, 5, 6, 8, 9}

Process == [pc : Places, since : Nat, message : Ids, fence : Nat, duplicate : BOOLEAN,
            note : SUBSET Flags, status : {"processed", "retryable"}, reply : Ids,
            dying : BOOLEAN, outcome : BOOLEAN, code : Codes, answer : Answers]
JournalEntry == [message : Ids, reply : Ids, unreported : BOOLEAN]

\* The tool calls a brain makes, besides its last.
BrainCalls(p) ==
  IF p = Buyer
  THEN {Call("list_participants"), Call("claim_work"), Sending(QuoteRequest), Acking({"right"})}
  ELSE {Call("claim_work"), Sending(QuoteResponse), Acking({"duplicate"}), Acking({"applied"})}
LastCalls == {Call("begin"), Finishing(0), Finishing(5)}

Loop(p) == [history : Seq([call : BrainCalls(p), result : Answers, known : BOOLEAN]),
            call : BrainCalls(p) \cup LastCalls, stashed : BOOLEAN,
            tool_errors : BOOLEAN, truncations : BOOLEAN, turns : Nat]

\* A request whose client is gone.
Stray == [by : Participants, pc : Places, since : Nat, id : Ids]

\* Type correctness of what Track and ToolLoop add to the tables.
TownTypeOK ==
  /\ cast \in [Participants -> Programs]
  /\ adrift \subseteq Stray
  /\ doneTarget \in Ids /\ marker \in BOOLEAN /\ applications \in Nat
  /\ procs \in [Participants -> Process]
  /\ journal \in [Participants -> SUBSET JournalEntry]
  /\ \A p \in Participants : loops[p] \in Loop(p)
  /\ DOMAIN loops = Participants

\* Only the buyer's request is addressed to the seller.
Letters == \A i \in DOMAIN messages : messages[i].to = Seller <=> i = QuoteRequest

\* A model is where models are, and the others are not.
Stands(p, proc) ==
  IF cast[p] = "model" THEN proc.pc \in ModelPlaces ELSE proc.pc \notin {"thinking", "hinting"}

\* What a brain last did is the call its process is at.
Agrees(proc, l) ==
  /\ l.call \in LastCalls => proc.pc \in {"thinking", "exited"}
  /\ proc.pc \in {"hinting", "claiming", "reoffering"} => l.call = Call("claim_work")
  /\ proc.pc \in {"sending", "suppressing"} => l.call.tool = "send_work"
  /\ proc.pc \in {"acking", "dropping"} => l.call.tool = "ack_work" /\ l.call.note \subseteq proc.note
  /\ proc.pc = "thinking" =>
       /\ l.call = Call("begin") => proc.answer = Nothing
       /\ l.call \notin LastCalls \ {Call("begin")}
       /\ proc.answer = "work" => l.call = Call("claim_work")
       /\ proc.answer = "recorded" => l.call.tool = "ack_work"

\* The buyer asks for one thing, reports no application, and ends well only by its
\* assertion, which is all it acknowledges with.
BuyerGood(proc, l, asserted) ==
  /\ Stands(Buyer, proc)
  /\ proc.pc \in {"sending", "suppressing"} => proc.reply = QuoteRequest
  /\ "applied" \notin proc.note
  /\ cast[Buyer] = "model" =>
       /\ Agrees(proc, l)
       /\ proc.pc = "thinking" /\ proc.answer = "recorded" => asserted
       /\ \A n \in DOMAIN l.history : l.history[n].result = "recorded" => asserted
       /\ proc.pc = "exited" /\ proc.code = 0 => asserted
BuyerInv == BuyerGood(procs[Buyer], loops[Buyer], Reporting("right") # {})

CrashFault == Scripted("crash_after_claim") \/ Amnesiac

\* Where the seller is, and what it knows there.
SellerStands(proc, entries, mark) ==
  /\ Stands(Seller, proc)
  /\ proc.pc = "accepted" => KeepsMark(Seller)
  /\ proc.pc = "stalled" => Scripted("crash_after_claim") /\ mark
  /\ proc.pc = "exited" /\ proc.code = 3 => CrashFault /\ mark
  /\ proc.pc # "suppressing"
  /\ proc.pc = "sending" => proc.reply \in Replies
  /\ proc.pc = "handling" => proc.message = QuoteRequest
  /\ \A e \in entries :
       e.message = QuoteRequest /\ (cast[Seller] # "model" => e.reply \in Replies)
  /\ cast[Seller] # "model" /\ proc.pc \in {"idle", "claiming", "reoffering", "handling"} =>
       proc.note = {} /\ ~proc.dying

\* The two ends a seller may be sent to: a scripted crash, and a refusal of the bridge.
SellerDoomed(proc, entries, mark, applied, reports) ==
  /\ proc.status = "retryable" =>
       cast[Seller] = "bridge" /\ proc.pc = "acking" /\ proc.note = {} /\ entries = {}
  /\ proc.dying =>
       /\ "applied" \in proc.note /\ mark /\ cast[Seller] = "stock"
       /\ \/ proc.pc = "sending" /\ Amnesiac
          \/ proc.pc = "acking" /\ Scripted("crash_after_claim")
  /\ CrashFault /\ ~mark =>
       applied = 0 /\ entries = {} /\ reports = {} /\ "applied" \notin proc.note

\* The journal knows of every application it was not made to forget.
JournalKnows(proc, entries, applied) ==
  IF Amnesiac THEN applied <= 2 /\ (applied = 2 => entries # {} /\ ~proc.dying)
  ELSE applied <= 1 /\ (applied = 1 => entries # {})

\* The seller is about to report an application.
Carrying(proc) ==
  /\ "applied" \in proc.note
  /\ proc.pc \in {"acking", "dropping"} \/ (proc.pc = "sending" /\ cast[Seller] # "model")

\* At most one report, and none that is still to come.
ReportedOnce(proc, entries, reports, settled) ==
  /\ \A a, b \in reports : a = b
  /\ reports # {} => settled
  /\ Carrying(proc) => reports = {} /\ (cast[Seller] # "model" /\ ~proc.dying => entries # {})
  /\ proc.pc = "handling" /\ ~proc.duplicate => reports = {}
  /\ proc.pc = "stalled" => reports = {}
  /\ reports # {} =>
       \/ entries # {}
       \/ proc.pc = "exited" /\ cast[Seller] # "outside" /\ proc.code # 3
       \/ proc.pc = "thinking" /\ proc.answer = "recorded"

\* A model seller knows the work it has reported, from its journal or from its conversation.
RecordedAfter(h, n) ==
  \E m \in DOMAIN h : m > n /\ h[m].call.tool = "ack_work" /\ h[m].result = "recorded"
Settles(h) == \A n \in Delivery(h) : h[n].known \/ RecordedAfter(h, n)
ErrsInnocently(h) ==
  h # <<>> /\ h[Len(h)].result = "error" => "applied" \notin h[Len(h)].call.note
KnowsReported(l) ==
  "applied" \notin l.call.note /\ ErrsInnocently(l.history) /\ Settles(l.history)
SellerLoop(proc, l, reports) ==
  cast[Seller] = "model" /\ proc.pc # "exited" =>
    /\ Agrees(proc, l)
    /\ proc.pc = "thinking" /\ proc.answer \in {"work", "recorded"} => proc.message = QuoteRequest
    /\ l.stashed => proc.pc = "thinking" /\ proc.answer = "work"
    /\ reports # {} => (proc.pc = "thinking" /\ proc.answer = "recorded") \/ KnowsReported(l)

SellerGood(proc, l, entries, mark, applied, reports, settled) ==
  /\ SellerStands(proc, entries, mark)
  /\ SellerDoomed(proc, entries, mark, applied, reports)
  /\ JournalKnows(proc, entries, applied)
  /\ ReportedOnce(proc, entries, reports, settled)
  /\ SellerLoop(proc, l, reports)
Settled == QuoteRequest \in DOMAIN messages /\ messages[QuoteRequest].status = "done"
SellerInv ==
  SellerGood(procs[Seller], loops[Seller], journal[Seller], marker, applications,
             Reporting("applied"), Settled)
TownInv == TownTypeOK /\ FencingInv /\ Letters /\ BuyerInv /\ SellerInv

-----------------------------------------------------------------------------
(* Every step of the town is a step of its mailbox, or none.               *)

\* The participants, and what they send.
LEMMA Names == /\ Participants = {Buyer, Seller} /\ Buyer # Seller
               /\ Buyer \in Participants /\ Seller \in Participants
               /\ other(Buyer) = Seller /\ other(Seller) = Buyer
               /\ QuoteRequest \in MessageIds /\ Replies \subseteq MessageIds
               /\ QuoteRequest \notin Replies /\ Nothing \notin MessageIds
               /\ \A id : kindOf(id) \in Contents
BY TrackAssumption DEF Buyer, Seller, other, Replies, kindOf

\* A send is of an identity of the sender's.
LEMMA SendIds ==
  ASSUME BuyerInv, SellerInv, NEW p \in Participants, At(p, "sending")
  PROVE  /\ procs[p].reply \in MessageIds
         /\ p = Buyer => procs[p].reply = QuoteRequest
         /\ p = Seller => procs[p].reply \in Replies
BY Names DEF BuyerInv, BuyerGood, SellerInv, SellerGood, SellerStands, At

\* A request may have sampled the clock just now.
LEMMA SamplesNow == TypeOK => clock \in Sampled
BY BoundsAssumption DEF TypeOK, Sampled

\* What a participant does to the tables, TownDB's operations do.  A duplicate is offered
\* with the sample its request started with, which may be older than the others get.
LEMMA ParticipantMailbox ==
  ASSUME TownInv, NEW p \in Participants, Participant(p)
  PROVE  \/ \E now \in Sampled : Request(p, now)
         \/ \E i \in DOMAIN messages, now \in Nat : Reoffer(p, i, now)
         \/ UNCHANGED vars
<1> USE DEF vars, mailbox
<1>0. TypeOK /\ RowsRefer /\ clock \in Sampled /\ BuyerInv /\ SellerInv /\ TownTypeOK
  BY SamplesNow DEF TownInv, FencingInv
<1>1. CASE WaitForHint(p)
  BY <1>0, <1>1 DEF WaitForHint, Notify, Request
<1>2. CASE ClaimWork(p)
  BY <1>2 DEF ClaimWork, Request
<1>3. CASE ClaimFoundNothing(p)
  BY <1>3 DEF ClaimFoundNothing, Request
<1>4. CASE OfferDuplicate(p)
  <2>1. Reoffer(p, doneTarget, procs[p].since) /\ doneTarget \in DOMAIN messages
    BY <1>4 DEF OfferDuplicate, Reoffer
  <2>2. procs[p].since \in Nat
    BY <1>0 DEF TownTypeOK, Process
  <2> QED BY <2>1, <2>2
<1>5. CASE OfferRefused(p)
  BY <1>5 DEF OfferRefused
<1>6. CASE SellerHandles \/ SellerStalls \/ SellerWakes \/ MarkReported \/ BridgeHandles
  BY <1>6 DEF SellerHandles, SellerStalls, SellerWakes, MarkReported, BridgeHandles
<1>7. CASE BuyerHandles
  BY <1>7 DEF BuyerHandles
<1>8. CASE SendNew(p)
  <2>1. procs[p].reply \in MessageIds /\ other(p) \in Participants /\ kindOf(procs[p].reply) \in Contents
    BY <1>0, <1>8, SendIds, Names DEF SendNew
  <2>2. Suppresses(procs[p].reply) \in BOOLEAN
    BY DEF Suppresses
  <2>3. PICK now \in Sampled : AcceptMessage(p, procs[p].reply, other(p), kindOf(procs[p].reply),
                                             Suppresses(procs[p].reply), now)
    BY <1>8 DEF SendNew
  <2> QED BY <2>1, <2>2, <2>3 DEF Request
<1>9. CASE SendAgain(p) \/ NoteSuppressed(p) \/ AckLooksAtFault(p) \/ DropAck(p) \/ Leave(p)
  BY <1>9 DEF SendAgain, NoteSuppressed, AckLooksAtFault, DropAck, Leave
<1>10. CASE AckAccepted(p)
  <2>1. PICK now \in Sampled : Ack(p, procs[p].message, procs[p].fence, procs[p].status, procs[p].note, now)
    BY <1>10 DEF AckAccepted
  <2>2. procs[p].status \in AckStatuses /\ procs[p].note \in Notes
    BY <1>0, TrackAssumption DEF TownTypeOK, Process
  <2>3. procs[p].message \in DOMAIN messages /\ procs[p].fence \in Fences
    BY <1>0, <2>1 DEF Ack, IsClaim, RowsRefer
  <2> QED BY <2>1, <2>2, <2>3 DEF Request
<1>11. CASE AckRefused(p)
  <2>1. CASE \E now \in Sampled : AckLapsed(p, procs[p].message, procs[p].fence, now)
    <3>1. PICK now \in Sampled : AckLapsed(p, procs[p].message, procs[p].fence, now)
      BY <2>1
    <3>2. procs[p].message \in DOMAIN messages /\ procs[p].fence \in Fences
      BY <1>0, <3>1 DEF AckLapsed, IsClaim, RowsRefer
    <3> QED BY <3>1, <3>2 DEF Request
  <2> QED BY <1>11, <2>1 DEF AckRefused
<1> QED
  BY <1>1, <1>2, <1>3, <1>4, <1>5, <1>6, <1>7, <1>8, <1>9, <1>10, <1>11 DEF Participant

\* So does a handler whose client is gone.
LEMMA HandlerMailbox ==
  ASSUME TownInv, HandlerEnds
  PROVE  \/ UNCHANGED vars
         \/ \E p \in Participants, i \in DOMAIN messages, now \in Nat : Reoffer(p, i, now)
<1> USE DEF vars, mailbox
<1>1. PICK r \in adrift : NotesLate(r) \/ DropsLate(r) \/ OffersLate(r) \/ FindsNoOffer(r)
  BY DEF HandlerEnds
<1>2. r.by \in Participants /\ r.since \in Nat
  BY DEF TownInv, TownTypeOK, Stray
<1>3. CASE OffersLate(r)
  <2>1. Reoffer(r.by, doneTarget, r.since) /\ doneTarget \in DOMAIN messages
    BY <1>3 DEF OffersLate, Reoffer
  <2> QED BY <1>2, <2>1
<1> QED BY <1>1, <1>3 DEF NotesLate, DropsLate, FindsNoOffer

\* So do the other steps of the town: the tables stay fenced through all of them.
LEMMA TownFencing ==
  ASSUME TownInv, [TownNext]_trackVars
  PROVE  FencingInv'
<1> USE DEF vars, mailbox
<1>1. FencingInv /\ clock \in Sampled
  BY SamplesNow DEF TownInv, FencingInv
<1>2. ASSUME [Next]_vars PROVE FencingInv'
  BY <1>1, <1>2, FencingStep
<1>3. ASSUME NEW p \in Participants, Participant(p)
      PROVE  FencingInv'
  <2>1. CASE \E now \in Sampled : Request(p, now)
    BY <1>2, <2>1 DEF Next
  <2>2. CASE \E i \in DOMAIN messages, now \in Nat : Reoffer(p, i, now)
    BY <1>1, <2>2, TypeReoffer, FencingReoffer DEF FencingInv
  <2> QED BY <1>2, <1>3, <2>1, <2>2, ParticipantMailbox
<1>4. ASSUME NEW p \in Participants, Think(p) \/ AwaitHint(p) \/ Accident(p)
      PROVE  FencingInv'
  <2>1. Request(p, clock) \/ UNCHANGED vars
    BY <1>4 DEF Think, AwaitHint, Notify, Request, Accident, Crash, Restart, AgentFails
  <2> QED BY <1>1, <1>2, <2>1 DEF Next
<1>5. CASE Runner
  BY <1>2, <1>5 DEF Runner, EndWatch, SellerIsDone, RestartSeller, EndSettling, Next
<1>6. CASE TimePasses
  BY <1>2, <1>6 DEF TimePasses, Next
<1>7. CASE UNCHANGED trackVars
  BY <1>2, <1>7 DEF trackVars
<1>8. CASE HandlerEnds
  BY <1>1, <1>2, <1>8, HandlerMailbox, TypeReoffer, FencingReoffer DEF FencingInv
<1> QED BY <1>3, <1>4, <1>5, <1>6, <1>7, <1>8 DEF TownNext

-----------------------------------------------------------------------------
(* Type correctness.                                                       *)

\* A participant that rests, or left, is well-formed.
LEMMA RestTypes ==
  ASSUME TownTypeOK, NEW p \in Participants
  PROVE  /\ Idle \in Process /\ Resting(p) \in Process /\ Starting(p) \in Process
         /\ \A code \in Codes : Exited(p, code) \in Process
         /\ [Idle EXCEPT !.pc = "exited", !.code = 1] \in Process
<1>1. Idle \in Process
  BY DEF Idle, Process, Places, ModelPlaces, Ids, Codes, Answers, Nothing
<1>2. procs[p].outcome \in BOOLEAN
  BY DEF TownTypeOK, Process
<1>3. Resting(p) \in Process
  BY <1>1, <1>2 DEF Resting, Process
<1>4. Starting(p) \in Process
  BY <1>1, Names DEF Starting, Process, Places, ModelPlaces, Ids
<1>5. \A code \in Codes : Exited(p, code) \in Process
  BY <1>3 DEF Exited, Process, Places, ModelPlaces
<1> QED BY <1>1, <1>3, <1>4, <1>5, ZenonT(40) DEF Process, Places, ModelPlaces, Codes

\* So is one that goes on.
LEMMA GoTypes ==
  ASSUME TownTypeOK, NEW p \in Participants
  PROVE  /\ \A pc \in Places : Entering(p, pc) \in Process
         /\ \A a \in Answers : Told(p, a) \in Process
         /\ AfterSend(p) \in Process
         /\ Exited(p, 2) \in Process
<1>1. procs[p] \in Process
  BY DEF TownTypeOK
<1>2. \A pc \in Places : Entering(p, pc) \in Process
  BY <1>1 DEF Entering, Process
<1>3. \A a \in Answers : Told(p, a) \in Process
  BY <1>1, RestTypes, ZenonT(40) DEF Told, Process, Places, ModelPlaces
<1>4. \A code \in Codes : Exited(p, code) \in Process
  BY RestTypes
<1>5. AfterSend(p) \in Process
  BY <1>2, <1>3, <1>4 DEF AfterSend, Codes, Answers, Places, ModelPlaces
<1>6. Exited(p, 2) \in Process
  BY <1>4 DEF Codes
<1> QED BY <1>2, <1>3, <1>5, <1>6

\* What a participant leaves behind in the town is well-formed.
LEMMA StrayTypes ==
  ASSUME TownTypeOK, NEW p \in Participants, LeavesAdrift(p)
  PROVE  adrift' \subseteq Stray
<1>1. procs[p] \in Process
  BY DEF TownTypeOK
<1>2. Underway(p) \in Stray
  BY <1>1 DEF Underway, Process, Stray
<1> QED BY <1>2 DEF LeavesAdrift, TownTypeOK

\* A participant takes its new place, and nobody else moves.
LEMMA Moved ==
  ASSUME TownTypeOK, NEW p \in Participants, NEW to, Move(p, to)
  PROVE  /\ procs'[p] = to
         /\ \A q \in Participants \ {p} : procs'[q] = procs[q]
         /\ to \in Process => procs' \in [Participants -> Process]
BY DEF TownTypeOK, Move

\* The delivery of the last claim is well-formed.
LEMMA DeliveryType ==
  ASSUME TownTypeOK, NEW p \in Participants, NEW duplicate \in BOOLEAN,
         TypeOK', claims' # <<>>
  PROVE  /\ Delivered(p, duplicate) \in Process
         /\ claims'[Len(claims')] \in Claim
<1>1. claims' \in Seq(Claim) /\ Len(claims') \in Nat /\ claims'[Len(claims')] \in Claim
  <2>1. claims' \in Seq(Claim)
    BY DEF TypeOK
  <2> QED BY <2>1
<1>2. claims'[Len(claims')].message \in Ids
  BY <1>1 DEF Claim, Ids
<1>3. Entering(p, "thinking") \in Process /\ Entering(p, "handling") \in Process
  BY GoTypes DEF Places, ModelPlaces
<1> QED BY <1>1, <1>2, <1>3 DEF Delivered, Process, Answers

\* Every step of a participant, but for the brain's, keeps the types.
LEMMA ParticipantTypes ==
  ASSUME TownInv, TypeOK', NEW p \in Participants, Participant(p)
  PROVE  TownTypeOK'
<1> USE DEF mailbox, memory, disk, control, kept, given
<1>1. TownTypeOK /\ TypeOK /\ SellerInv
  BY DEF TownInv, FencingInv
<1>2. /\ Idle \in Process /\ Resting(p) \in Process /\ procs[p] \in Process
      /\ \A code \in Codes : Exited(p, code) \in Process
      /\ \A pc \in Places : Entering(p, pc) \in Process
      /\ \A a \in Answers : Told(p, a) \in Process
      /\ AfterSend(p) \in Process
  BY <1>1, RestTypes, GoTypes DEF TownTypeOK
<1>3. journal \in [Participants -> SUBSET JournalEntry] /\ Seller \in Participants /\ Buyer \in Participants
  BY <1>1, Names DEF TownTypeOK
<1>4. ASSUME NEW d \in Process, Move(p, d),
             doneTarget' \in Ids, marker' \in BOOLEAN, applications' \in Nat,
             journal' \in [Participants -> SUBSET JournalEntry], UNCHANGED <<cast, loops, adrift>>
      PROVE  TownTypeOK'
  <2>1. procs' \in [Participants -> Process]
    BY <1>1, <1>4, Moved
  <2> QED BY <1>1, <1>4, <2>1 DEF TownTypeOK
<1>5. doneTarget \in Ids /\ marker \in BOOLEAN /\ applications \in Nat
  BY <1>1 DEF TownTypeOK
<1>6. CASE WaitForHint(p)
  BY <1>2, <1>3, <1>4, <1>5, <1>6 DEF WaitForHint, Places, ModelPlaces
<1>7. CASE ClaimWork(p)
  <2>1. claims' # <<>>
    BY <1>1, <1>7, ExpiryTypes DEF ClaimWork, ClaimNext, Sampled
  <2>2. Delivered(p, FALSE) \in Process
    BY <1>1, <2>1, DeliveryType
  <2> QED BY <1>3, <1>4, <1>5, <1>7, <2>2 DEF ClaimWork
<1>8. CASE ClaimFoundNothing(p)
  <2>1. PICK now \in Sampled :
          Move(p, IF MayOffer THEN [procs[p] EXCEPT !.pc = "reoffering", !.since = now] ELSE Told(p, "no work"))
    BY <1>8 DEF ClaimFoundNothing
  <2>2. [procs[p] EXCEPT !.pc = "reoffering", !.since = now] \in Process
    <3>1. now \in Nat /\ "reoffering" \in Places
      BY DEF Places, ModelPlaces, Sampled
    <3> QED BY <1>2, <3>1 DEF Process
  <2>3. Told(p, "no work") \in Process
    BY <1>2 DEF Answers
  <2> QED BY <1>3, <1>4, <1>5, <1>8, <2>1, <2>2, <2>3 DEF ClaimFoundNothing
<1>9. CASE OfferDuplicate(p)
  <2>1. claims' # <<>>
    BY <1>1, <1>9 DEF OfferDuplicate, Reoffer, TypeOK
  <2>2. Delivered(p, TRUE) \in Process
    BY <1>1, <2>1, DeliveryType
  <2> QED BY <1>3, <1>4, <1>5, <1>9, <2>2 DEF OfferDuplicate
<1>10. CASE OfferRefused(p)
  BY <1>2, <1>3, <1>4, <1>5, <1>10 DEF OfferRefused, Answers
<1>11. CASE p = Seller /\ SellerHandles
  <2>1. Entering(Seller, "sending") \in Process
    BY <1>2, <1>11 DEF Places, ModelPlaces
  <2>2. procs[Seller].message = QuoteRequest /\ QuoteRequest \in Ids
    BY <1>1, <1>11, Names DEF SellerHandles, SellerInv, SellerGood, SellerStands, Ids, At
  <2> DEFINE dying == Amnesiac /\ ~marker
  <2>3. CASE SellerRecalls(dying)
    <3>1. PICK e \in Remembered(Seller) :
            /\ Move(Seller, [Entering(Seller, "sending") EXCEPT
                         !.reply = e.reply, !.dying = dying,
                         !.note = {"duplicate"} \cup
                                  (IF Reports(e, procs[Seller].duplicate) THEN {"applied"} ELSE {})])
            /\ journal' = [journal EXCEPT ![Seller] =
                             (@ \ {e}) \cup {[e EXCEPT !.unreported = @ /\ ~procs[Seller].duplicate]}]
            /\ applications' = applications
      BY <2>3 DEF SellerRecalls
    <3>2. e \in JournalEntry
      BY <1>3 DEF Remembered
    <3>3. [e EXCEPT !.unreported = @ /\ ~procs[Seller].duplicate] \in JournalEntry
      BY <1>2, <1>11, <3>2 DEF JournalEntry, Process
    <3> DEFINE d == [Entering(Seller, "sending") EXCEPT
                         !.reply = e.reply, !.dying = dying,
                         !.note = {"duplicate"} \cup
                                  (IF Reports(e, procs[Seller].duplicate) THEN {"applied"} ELSE {})]
    <3>4. d \in Process
      BY <2>1, <3>2 DEF Process, JournalEntry, Flags, Reports
    <3>5. journal' \in [Participants -> SUBSET JournalEntry]
      BY <1>3, <3>1, <3>3
    <3> HIDE DEF d, dying
    <3>6. marker' \in BOOLEAN /\ UNCHANGED <<doneTarget, cast, loops, adrift>>
      BY <1>11 DEF SellerHandles
    <3> QED BY <1>4, <1>5, <1>11, <3>1, <3>4, <3>5, <3>6 DEF d
  <2>4. CASE SellerApplies(dying)
    <3>1. PICK id \in ResponseIds :
            /\ Move(Seller, [Entering(Seller, "sending") EXCEPT
                               !.reply = id, !.note = {"applied"}, !.dying = dying])
            /\ journal' = [journal EXCEPT ![Seller] =
                 @ \cup {[message |-> procs[Seller].message, reply |-> id, unreported |-> TRUE]}]
      BY <2>4 DEF SellerApplies
    <3>2. id \in Ids
      BY Names DEF ResponseIds, Replies, Ids, Scripted
    <3> DEFINE d == [Entering(Seller, "sending") EXCEPT !.reply = id, !.note = {"applied"}, !.dying = dying]
    <3>3. d \in Process
      BY <2>1, <3>2 DEF Process, Flags
    <3>4. [message |-> procs[Seller].message, reply |-> id, unreported |-> TRUE] \in JournalEntry
      BY <2>2, <3>2 DEF JournalEntry
    <3>5. journal' \in [Participants -> SUBSET JournalEntry]
      BY <1>3, <3>1, <3>4
    <3> HIDE DEF d, dying
    <3>6. marker' \in BOOLEAN /\ UNCHANGED <<doneTarget, cast, loops, adrift>>
      BY <1>11 DEF SellerHandles
    <3>7. applications' \in Nat
      BY <1>5, <2>4 DEF SellerApplies
    <3> QED BY <1>4, <1>5, <1>11, <3>1, <3>3, <3>5, <3>6, <3>7 DEF d
  <2> QED BY <1>11, <2>3, <2>4 DEF SellerHandles
<1>12. CASE p = Seller /\ SellerStalls
  <2>1. [Entering(Seller, "stalled") EXCEPT !.since = clock] \in Process
    <3>1. clock \in Nat /\ Entering(Seller, "stalled") \in Process
      BY <1>1, <1>2, <1>12 DEF TypeOK, Places
    <3> QED BY <3>1 DEF Process
  <2> QED BY <1>3, <1>4, <1>5, <1>12, <2>1 DEF SellerStalls
<1>13. CASE p = Seller /\ SellerWakes
  <2>1. [Entering(Seller, "acking") EXCEPT !.note = {"applied"}, !.dying = TRUE] \in Process
    <3>1. Entering(Seller, "acking") \in Process
      BY <1>2, <1>13 DEF Places, ModelPlaces
    <3> QED BY <3>1 DEF Process, Flags
  <2> QED BY <1>3, <1>4, <1>5, <1>13, <2>1 DEF SellerWakes
<1>14. CASE p = Seller /\ MarkReported
  <2>1. \A e \in JournalEntry :
          [e EXCEPT !.unreported = @ /\ e.message # procs[Seller].message] \in JournalEntry
    BY DEF JournalEntry
  <2>2. journal' \in [Participants -> SUBSET JournalEntry]
    BY <1>3, <1>14, <2>1 DEF MarkReported
  <2> QED BY <1>2, <1>4, <1>5, <1>14, <2>2 DEF MarkReported
<1>15. CASE p = Seller /\ BridgeHandles
  <2>1. Entering(Seller, "sending") \in Process
    BY <1>2, <1>15 DEF Places, ModelPlaces
  <2>2. procs[Seller].message = QuoteRequest /\ QuoteRequest \in Ids /\ QuoteResponse \in Ids
    BY <1>1, <1>15, Names DEF BridgeHandles, SellerInv, SellerGood, SellerStands, Ids, Replies, At
  <2>3. CASE BridgeRecalls
    <3>1. PICK e \in Remembered(Seller) :
            Move(Seller, [Entering(Seller, "sending") EXCEPT !.reply = e.reply, !.note = {"duplicate"}])
      BY <2>3 DEF BridgeRecalls
    <3>2. e \in JournalEntry
      BY <1>3 DEF Remembered
    <3>3. [Entering(Seller, "sending") EXCEPT !.reply = e.reply, !.note = {"duplicate"}] \in Process
      BY <2>1, <3>2 DEF Process, JournalEntry, Flags
    <3> QED BY <1>3, <1>4, <1>5, <1>15, <2>3, <3>1, <3>3 DEF BridgeHandles, BridgeRecalls
  <2>4. CASE BridgeCompletes
    <3> DEFINE d == [Entering(Seller, "sending") EXCEPT !.reply = QuoteResponse, !.note = {"applied"}]
    <3>1. d \in Process
      BY <2>1, <2>2 DEF Process, Flags
    <3>2. [message |-> procs[Seller].message, reply |-> QuoteResponse, unreported |-> FALSE] \in JournalEntry
      BY <2>2 DEF JournalEntry
    <3>3. journal' \in [Participants -> SUBSET JournalEntry]
      BY <1>3, <2>4, <3>2 DEF BridgeCompletes
    <3>4. applications' \in Nat
      BY <1>5, <2>4 DEF BridgeCompletes
    <3> QED BY <1>3, <1>4, <1>5, <1>15, <2>4, <3>1, <3>3, <3>4 DEF BridgeHandles, BridgeCompletes
  <2> QED BY <1>15, <2>3, <2>4 DEF BridgeHandles
<1>16. CASE p = Buyer /\ BuyerHandles
  <2> DEFINE known == Remembered(Buyer) # {}
             entry == [message |-> procs[Buyer].message, reply |-> Nothing, unreported |-> FALSE]
             d == [Entering(Buyer, "acking") EXCEPT
                          !.outcome = @ \/ ~known,
                          !.note = IF known THEN {"duplicate"} ELSE {"right"}]
  <2>1. Entering(Buyer, "acking") \in Process
    BY <1>2, <1>16 DEF Places, ModelPlaces
  <2>2. d \in Process
    BY <2>1 DEF Process, Flags
  <2>3. entry \in JournalEntry
    BY <1>2, <1>16 DEF JournalEntry, Process, Ids
  <2>4. journal' \in [Participants -> SUBSET JournalEntry]
    BY <1>3, <1>16, <2>3 DEF BuyerHandles
  <2> QED BY <1>3, <1>4, <1>5, <1>16, <2>2, <2>4 DEF BuyerHandles
<1>17. JournalAfterSend(p) \in [Participants -> SUBSET JournalEntry]
  BY <1>3 DEF JournalAfterSend
<1>18. CASE SendNew(p)
  <2>1. Entering(p, "suppressing") \in Process
    BY <1>2 DEF Places, ModelPlaces
  <2> QED BY <1>2, <1>4, <1>5, <1>17, <1>18, <2>1 DEF SendNew
<1>19. CASE SendAgain(p) \/ NoteSuppressed(p)
  BY <1>2, <1>3, <1>4, <1>5, <1>17, <1>19 DEF SendAgain, NoteSuppressed
<1>20. CASE AckLooksAtFault(p) \/ DropAck(p)
  BY <1>2, <1>3, <1>4, <1>5, <1>20 DEF AckLooksAtFault, DropAck, Places, ModelPlaces
<1>21. CASE AckAccepted(p)
  <2>1. procs[p].message \in Ids
    BY <1>2 DEF Process
  <2>2. doneTarget' \in Ids
    BY <1>5, <1>21, <2>1 DEF AckAccepted
  <2>3. Exited(p, 9) \in Process /\ Entering(p, "accepted") \in Process /\ Told(p, "recorded") \in Process
    BY <1>2 DEF Places, Codes, Answers
  <2> QED BY <1>3, <1>4, <1>5, <1>21, <2>2, <2>3 DEF AckAccepted
<1>22. CASE AckRefused(p)
  BY <1>2, <1>3, <1>4, <1>5, <1>22 DEF AckRefused, Codes, Answers
<1>23. CASE Leave(p)
  BY <1>2, <1>3, <1>4, <1>5, <1>23 DEF Leave, Codes
<1> QED
  BY <1>6, <1>7, <1>8, <1>9, <1>10, <1>11, <1>12, <1>13, <1>14, <1>15, <1>16, <1>18, <1>19, <1>20,
     <1>21, <1>22, <1>23 DEF Participant

Entries(p) == [call : BrainCalls(p), result : Answers, known : BOOLEAN]

\* What is in a tool call.
LEMMA CallFields ==
  ASSUME NEW p \in Participants, NEW c \in BrainCalls(p) \cup LastCalls
  PROVE  /\ c.reply \in Ids /\ c.note \in SUBSET Flags /\ c.code \in Codes
         /\ c \in LastCalls <=> c.tool \in {"begin", "finish"}
         /\ c.tool = "begin" <=> c = Call("begin")
         /\ c.tool = "claim_work" <=> c = Call("claim_work")
         /\ c.tool = "send_work" =>
              IF p = Buyer THEN c.reply = QuoteRequest ELSE c.reply = QuoteResponse
         /\ c.tool = "ack_work" /\ p = Buyer => c.note = {"right"}
         /\ c.tool = "finish" => c = Finishing(0) \/ c = Finishing(5)
         /\ c.note # {} => c.tool = "ack_work"
         /\ c.tool \in {"begin", "finish", "list_participants", "claim_work", "send_work", "ack_work"}
BY Names DEF BrainCalls, LastCalls, Call, Sending, Acking, Finishing, Ids, Flags, Codes, Replies

\* The brain's two last words are different, and it may say one of them for good only.
LEMMA LastWords ==
  /\ Finishing(0).tool = "finish" /\ Finishing(5).tool = "finish" /\ Call("begin").tool = "begin"
  /\ Finishing(0).code = 0 /\ Finishing(5).code = 5
  /\ Finishing(0).note = {} /\ Finishing(5).note = {} /\ Call("begin").note = {}
BY DEF Finishing, Call

\* A brain's other calls are none of these.
LEMMA BrainTools ==
  ASSUME NEW p \in Participants, NEW c \in BrainCalls(p)
  PROVE  c.tool \in {"list_participants", "claim_work", "send_work", "ack_work"}
BY DEF BrainCalls, Call, Sending, Acking

\* The conversation is the end of what was heard.
LEMMA Hears ==
  ASSUME TownTypeOK, NEW p \in Participants, At(p, "thinking"), Agrees(procs[p], loops[p])
  PROVE  /\ Heard(p) \in Seq(Entries(p)) /\ Conversation(p) \in Seq(Entries(p))
         /\ Heard(p) = IF loops[p].call = Call("begin") THEN <<>>
                       ELSE Append(loops[p].history, Entry(p))
         /\ Entry(p) \in Entries(p) \/ loops[p].call = Call("begin")
         /\ \E k \in Nat : /\ Len(Conversation(p)) = Len(Heard(p)) - k
                           /\ Heard(p) # <<>> => Conversation(p) # <<>>
                           /\ \A n \in 1..Len(Conversation(p)) : Conversation(p)[n] = Heard(p)[n + k]
<1>1. procs[p] \in Process /\ loops[p] \in Loop(p)
  BY DEF TownTypeOK
<1>2. loops[p].history \in Seq(Entries(p)) /\ loops[p].call \in BrainCalls(p) \cup LastCalls
  BY <1>1 DEF Loop, Entries
<1>3. loops[p].call \in BrainCalls(p) \/ loops[p].call = Call("begin")
  BY <1>2 DEF Agrees, At
<1>4. Result(p) \in Answers
  BY <1>1 DEF Result, Reported, Process, Answers
<1>5. Entry(p) \in Entries(p) \/ loops[p].call = Call("begin")
  <2>1. (Result(p) = "work" /\ Remembered(p) # {}) \in BOOLEAN
    OBVIOUS
  <2> QED BY <1>3, <1>4, <2>1 DEF Entry, Entries
<1>6. loops[p].call.tool = "begin" <=> loops[p].call = Call("begin")
  BY <1>2, CallFields
<1>7. Heard(p) = IF loops[p].call = Call("begin") THEN <<>> ELSE Append(loops[p].history, Entry(p))
  BY <1>6 DEF Heard
<1>8. Heard(p) \in Seq(Entries(p))
  <2>1. <<>> \in Seq(Entries(p))
    OBVIOUS
  <2> QED BY <1>2, <1>5, <1>7, <2>1
<1> DEFINE H == Heard(p)
<1>9. CASE Truncates(p)
  <2>1. Len(H) \in Nat /\ Len(H) > 2
    BY <1>8, <1>9 DEF Truncates
  <2>2. Conversation(p) = SubSeq(H, Len(H) - 1, Len(H))
    BY <1>9 DEF Conversation
  <2> HIDE DEF H
  <2>3. /\ SubSeq(H, Len(H) - 1, Len(H)) \in Seq(Entries(p))
        /\ Len(SubSeq(H, Len(H) - 1, Len(H))) = 2
        /\ \A n \in 1..2 : SubSeq(H, Len(H) - 1, Len(H))[n] = H[n + (Len(H) - 2)]
    <3>1. H \in Seq(Entries(p))
      BY <1>8 DEF H
    <3>2. \A n \in (Len(H) - 1)..Len(H) : H[n] \in Entries(p)
      BY <2>1, <3>1
    <3>3. /\ SubSeq(H, Len(H) - 1, Len(H)) \in Seq(Entries(p))
          /\ Len(SubSeq(H, Len(H) - 1, Len(H))) = 2
          /\ \A n \in 1..(Len(H) - (Len(H) - 1) + 1) :
               SubSeq(H, Len(H) - 1, Len(H))[n] = H[(Len(H) - 1) + n - 1]
      BY <2>1, <3>2, SubSeqProperties
    <3>4. Len(H) - (Len(H) - 1) + 1 = 2
      BY <2>1
    <3>5. ASSUME NEW n \in 1..2
          PROVE  SubSeq(H, Len(H) - 1, Len(H))[n] = H[n + (Len(H) - 2)]
      <4>1. (Len(H) - 1) + n - 1 = n + (Len(H) - 2)
        BY <2>1
      <4> QED BY <3>3, <3>4, <4>1
    <3> QED BY <3>3, <3>4, <3>5
  <2>4. Conversation(p) # <<>>
    <3> DEFINE C == Conversation(p)
    <3>1. Len(C) = 2
      BY <2>2, <2>3
    <3> HIDE DEF C
    <3>2. Len(<<>>) = 0
      OBVIOUS
    <3>3. Len(C) # 0
      BY <3>1
    <3>4. C # <<>>
      BY <3>2, <3>3, Zenon
    <3> QED BY <3>4 DEF C
  <2>5. Len(H) - 2 \in Nat /\ 2 = Len(H) - (Len(H) - 2)
    BY <2>1
  <2> QED BY <1>5, <1>7, <1>8, <2>2, <2>3, <2>4, <2>5 DEF H
<1>10. CASE ~Truncates(p)
  <2>1. Conversation(p) = H
    BY <1>10 DEF Conversation
  <2> HIDE DEF H
  <2>2. Len(H) \in Nat /\ Len(H) = Len(H) - 0 /\ \A n \in 1..Len(H) : H[n] = H[n + 0]
    BY <1>8 DEF H
  <2> QED BY <1>5, <1>7, <1>8, <2>1, <2>2 DEF H
<1> QED BY <1>9, <1>10

\* The brain says one of its calls, or its last.
LEMMA Chooses ==
  ASSUME NEW p \in Participants, NEW h \in Seq(Entries(p))
  PROVE  Choice(p, h) \in BrainCalls(p) \cup {Finishing(0), Finishing(5)}
<1>1. CASE h # <<>> /\ h[Len(h)].result = "error"
  <2>1. h[Len(h)] \in Entries(p)
    BY <1>1
  <2> QED BY <1>1, <2>1 DEF Choice, Entries
<1>2. CASE ~(h # <<>> /\ h[Len(h)].result = "error") /\ p = Buyer
  BY <1>2 DEF Choice, BuyerBrain, BrainCalls
<1>3. CASE ~(h # <<>> /\ h[Len(h)].result = "error") /\ p = Seller
  BY <1>3, Names DEF Choice, SellerBrain, BrainCalls
<1> QED BY <1>1, <1>2, <1>3, Names

\* The parts of a pass of run: what is heard, said, and kept of the conversation.
Said(p) == Choice(p, Conversation(p))
LoopAfter(p) ==
  [loops[p] EXCEPT !.history = Conversation(p), !.call = Said(p), !.turns = @ + 1,
                   !.stashed = LosesResult(p) \/ (@ /\ loops[p].call.tool # "claim_work"),
                   !.tool_errors = @ \/ LosesResult(p),
                   !.truncations = @ \/ Truncates(p)]
Freed(p) == IF procs[p].answer \in {"recorded", "stale"} THEN Released(procs[p]) ELSE procs[p]

\* What Think does, in these terms.
LEMMA ThinkParts ==
  ASSUME NEW p, Think(p)
  PROVE  /\ p \in Participants /\ cast[p] = "model" /\ At(p, "thinking")
         /\ journal' = IF procs[p].answer = "recorded"
                       THEN [journal EXCEPT ![p] =
                              @ \cup {[message |-> procs[p].message, reply |-> Nothing, unreported |-> FALSE]}]
                       ELSE journal
         /\ \/ \E code \in {6, 8} : Give(p, code)
            \/ /\ Move(p, Executing(LoopAfter(p), Said(p), Freed(p)))
               /\ loops' = [loops EXCEPT ![p] = LoopAfter(p)]
         /\ UNCHANGED <<mailbox, memory, marker, applications, given, runner, mortal, log>>
BY DEF Think, Models, Said, LoopAfter, Freed

\* The conversation goes on with its parts well-formed.
LEMMA LoopAfterTypes ==
  ASSUME TownTypeOK, NEW p \in Participants, At(p, "thinking"), Agrees(procs[p], loops[p])
  PROVE  /\ Said(p) \in BrainCalls(p) \cup {Finishing(0), Finishing(5)}
         /\ LoopAfter(p) \in Loop(p)
         /\ LoopAfter(p).call = Said(p) /\ LoopAfter(p).history = Conversation(p)
         /\ LoopAfter(p).stashed <=> LosesResult(p) \/ (loops[p].stashed /\ loops[p].call.tool # "claim_work")
<1>1. loops[p] \in Loop(p) /\ Conversation(p) \in Seq(Entries(p))
  BY Hears DEF TownTypeOK
<1>2. Said(p) \in BrainCalls(p) \cup {Finishing(0), Finishing(5)}
  BY <1>1, Chooses DEF Said
<1>3. Said(p) \in BrainCalls(p) \cup LastCalls
  BY <1>2 DEF LastCalls
<1>4. LosesResult(p) \in BOOLEAN /\ Truncates(p) \in BOOLEAN
  BY DEF LosesResult, Truncates
<1>5. /\ (LosesResult(p) \/ (loops[p].stashed /\ loops[p].call.tool # "claim_work")) \in BOOLEAN
      /\ (loops[p].tool_errors \/ LosesResult(p)) \in BOOLEAN
      /\ (loops[p].truncations \/ Truncates(p)) \in BOOLEAN
      /\ loops[p].turns + 1 \in Nat
  BY <1>1, <1>4 DEF Loop
<1> HIDE DEF LosesResult, Truncates
<1>6. LoopAfter(p) \in Loop(p)
  BY <1>1, <1>3, <1>5 DEF LoopAfter, Loop, Entries
<1>7. /\ LoopAfter(p).call = Said(p) /\ LoopAfter(p).history = Conversation(p)
      /\ LoopAfter(p).stashed = (LosesResult(p) \/ (loops[p].stashed /\ loops[p].call.tool # "claim_work"))
  BY <1>1 DEF LoopAfter, Loop
<1> QED BY <1>2, <1>6, <1>7

\* So does the process.
LEMMA ExecutingTypes ==
  ASSUME TownTypeOK, TypeOK, NEW p \in Participants, At(p, "thinking"), Agrees(procs[p], loops[p])
  PROVE  /\ Freed(p) \in Process
         /\ Executing(LoopAfter(p), Said(p), Freed(p)) \in Process
<1>1. procs[p] \in Process /\ LoopAfter(p) \in Loop(p) /\ Nothing \in Ids /\ clock \in Nat
  BY LoopAfterTypes DEF TownTypeOK, Ids, TypeOK
<1>2. Freed(p) \in Process
  BY <1>1 DEF Freed, Released, Process
<1>3. /\ Said(p) \in BrainCalls(p) \cup LastCalls
      /\ Said(p).tool \in {"list_participants", "claim_work", "send_work", "ack_work", "finish"}
  <2>1. Said(p) \in BrainCalls(p) \cup {Finishing(0), Finishing(5)}
    BY LoopAfterTypes
  <2>2. Said(p) \in BrainCalls(p) =>
          Said(p).tool \in {"list_participants", "claim_work", "send_work", "ack_work"}
    BY BrainTools
  <2> QED BY <2>1, <2>2, LastWords DEF LastCalls
<1>4. Said(p).reply \in Ids /\ Said(p).note \in SUBSET Flags /\ Said(p).code \in Codes
  BY <1>3, CallFields
<1>5. Counted(LoopAfter(p), Said(p).note) \in SUBSET Flags
  BY <1>4 DEF Counted, Flags
<1> DEFINE proc == Freed(p)
           l == LoopAfter(p)
           call == Said(p)
<1>6. /\ \A a \in Answers : [proc EXCEPT !.answer = a] \in Process
      /\ [proc EXCEPT !.pc = "hinting", !.since = clock] \in Process
      /\ [proc EXCEPT !.pc = "sending", !.reply = call.reply] \in Process
      /\ [proc EXCEPT !.pc = "acking", !.note = Counted(l, call.note)] \in Process
  BY <1>1, <1>2, <1>4, <1>5 DEF Process, Places, ModelPlaces
<1>7. [Idle EXCEPT !.pc = "exited", !.code = call.code] \in Process
  BY <1>4, RestTypes DEF Process, Places, ModelPlaces
<1> HIDE DEF proc, l, call
<1>8. "listed" \in Answers /\ "work" \in Answers /\ "error" \in Answers
  BY DEF Answers
<1>9. call.tool \in {"list_participants", "claim_work", "send_work", "ack_work", "finish"}
  BY <1>3 DEF call
<1>10. Executing(l, call, proc) \in Process
  <2>1. CASE call.tool = "list_participants"
    BY <1>6, <1>8, <2>1 DEF Executing
  <2>2. CASE call.tool = "claim_work"
    BY <1>6, <1>8, <2>2 DEF Executing
  <2>3. CASE call.tool = "send_work"
    BY <1>6, <2>3 DEF Executing
  <2>4. CASE call.tool = "ack_work"
    BY <1>6, <1>8, <2>4 DEF Executing
  <2>5. CASE call.tool = "finish"
    BY <1>7, <2>5 DEF Executing
  <2> QED BY <1>9, <2>1, <2>2, <2>3, <2>4, <2>5
<1> QED BY <1>2, <1>10 DEF proc, l, call

\* A pass of run keeps the types.
LEMMA ThinkTypes ==
  ASSUME TownTypeOK, TypeOK, NEW p \in Participants, Think(p), Agrees(procs[p], loops[p])
  PROVE  TownTypeOK'
<1>1. At(p, "thinking") /\ procs[p] \in Process /\ journal \in [Participants -> SUBSET JournalEntry]
  BY ThinkParts DEF TownTypeOK
<1>2. [message |-> procs[p].message, reply |-> Nothing, unreported |-> FALSE] \in JournalEntry
  BY <1>1 DEF Process, JournalEntry, Ids
<1>3. journal' \in [Participants -> SUBSET JournalEntry]
  <2> DEFINE entry == [message |-> procs[p].message, reply |-> Nothing, unreported |-> FALSE]
  <2>1. journal' = [journal EXCEPT ![p] = @ \cup {entry}] \/ journal' = journal
    BY ThinkParts
  <2>2. entry \in JournalEntry
    BY <1>2
  <2> HIDE DEF entry
  <2> QED BY <1>1, <2>1, <2>2
<1>4. UNCHANGED <<cast, doneTarget, adrift, marker, applications>>
  BY ThinkParts DEF memory, given
<1>5. NoLoop \in Loop(p)
  <2>1. <<>> \in Seq([call : BrainCalls(p), result : Answers, known : BOOLEAN])
    OBVIOUS
  <2> QED BY <2>1 DEF NoLoop, Loop, LastCalls
<1>6. ASSUME NEW d \in Process, Move(p, d), NEW l \in Loop(p), loops' = [loops EXCEPT ![p] = l]
      PROVE  TownTypeOK'
  <2>1. procs' \in [Participants -> Process]
    BY <1>6, Moved
  <2>2. DOMAIN loops' = Participants /\ \A q \in Participants : loops'[q] \in Loop(q)
    BY <1>6 DEF TownTypeOK
  <2> QED BY <1>3, <1>4, <2>1, <2>2 DEF TownTypeOK
<1>7. CASE \E code \in {6, 8} : Give(p, code)
  BY <1>5, <1>6, <1>7, RestTypes DEF Give, Codes
<1>8. CASE Move(p, Executing(LoopAfter(p), Said(p), Freed(p))) /\ loops' = [loops EXCEPT ![p] = LoopAfter(p)]
  BY <1>1, <1>6, <1>8, LoopAfterTypes, ExecutingTypes
<1> QED BY <1>7, <1>8, ThinkParts

\* Every step of the town keeps the types.
LEMMA TownTypes ==
  ASSUME TownInv, TypeOK', [TownNext]_trackVars
  PROVE  TownTypeOK'
<1>1. TownTypeOK /\ TypeOK
  BY DEF TownInv, FencingInv
<1>2. ASSUME NEW p \in Participants, NEW d \in Process, Move(p, d),
             adrift' \subseteq Stray,
             UNCHANGED <<cast, doneTarget, marker, applications, journal, loops>>
      PROVE  TownTypeOK'
  BY <1>1, <1>2, Moved DEF TownTypeOK
<1>8. adrift \subseteq Stray
  BY <1>1 DEF TownTypeOK
<1>3. ASSUME NEW p \in Participants, Think(p)
      PROVE  TownTypeOK'
  <2>1. cast[p] = "model" /\ At(p, "thinking")
    BY <1>3, ThinkParts
  <2>2. Agrees(procs[p], loops[p])
    BY <2>1, Names DEF TownInv, BuyerInv, BuyerGood, SellerInv, SellerGood, SellerLoop, At
  <2> QED BY <1>1, <1>3, <2>2, ThinkTypes
<1>4. ASSUME NEW p \in Participants, AwaitHint(p)
      PROVE  TownTypeOK'
  <2>1. [procs[p] EXCEPT !.pc = "claiming"] \in Process
    BY <1>1 DEF TownTypeOK, Process, Places, ModelPlaces
  <2> QED BY <1>2, <1>4, <1>8, <2>1 DEF AwaitHint, memory, disk, control, kept, given
<1>5. ASSUME NEW p \in Participants, Accident(p)
      PROVE  TownTypeOK'
  <2>1. CASE Crash(p) \/ Restart(p)
    BY <1>1, <1>2, <1>8, <2>1, RestTypes, StrayTypes
    DEF Crash, Restart, memory, disk, control, kept, given
  <2>2. CASE AgentFails
    <3>1. Entering(Seller, "acking") \in Process /\ Exited(Seller, 1) \in Process
      BY <1>1, RestTypes, GoTypes, Names DEF Places, ModelPlaces, Codes
    <3>2. [Entering(Seller, "acking") EXCEPT !.status = "retryable"] \in Process
      BY <3>1 DEF Process
    <3> QED BY <1>2, <1>8, <2>2, <3>1, <3>2, Names DEF AgentFails, memory, disk, control, kept, given
  <2> QED BY <1>5, <2>1, <2>2 DEF Accident
<1>6. CASE Runner
  <2>1. ASSUME NEW p \in Participants, Stops(p), UNCHANGED <<disk, kept>>
        PROVE  TownTypeOK'
    <3>1. adrift' \subseteq Stray
      BY <1>1, <1>8, <2>1, StrayTypes DEF Stops
    <3>2. procs[p] \in Process /\ Exited(p, 2) \in Process
      BY <1>1, GoTypes DEF TownTypeOK
    <3> QED BY <1>2, <2>1, <3>1, <3>2 DEF Stops, disk, kept, given
  <2>2. CASE EndWatch \/ EndSettling
    BY <2>1, <2>2, Names DEF EndWatch, EndSettling
  <2>3. CASE SellerIsDone \/ RestartSeller
    BY <1>1, <1>2, <1>8, <2>3, RestTypes, Names
    DEF SellerIsDone, RestartSeller, memory, disk, kept, given, TownTypeOK
  <2> QED BY <1>6, <2>2, <2>3 DEF Runner
<1>7. CASE TimePasses \/ UNCHANGED trackVars
  BY <1>1, <1>7 DEF TimePasses, trackVars, memory, disk, control, kept, given, TownTypeOK
<1>9. CASE HandlerEnds
  BY <1>1, <1>8, <1>9 DEF HandlerEnds, disk, control, kept, given, TownTypeOK
<1> QED BY <1>1, <1>3, <1>4, <1>5, <1>6, <1>7, <1>9, ParticipantTypes DEF TownNext

-----------------------------------------------------------------------------
(* What the steps of the town do to the messages and the acknowledgements. *)

\* No message is added or redirected, and what is done stays so.
RowsKept ==
  /\ DOMAIN messages' = DOMAIN messages
  /\ \A i \in DOMAIN messages : /\ messages'[i].to = messages[i].to
                                /\ messages[i].status = "done" => messages'[i].status = "done"

\* Claiming, offering and refusing keep the rows.
LEMMA ClaimsKeepRows ==
  ASSUME TypeOK, NEW p, NEW now \in Nat,
         ClaimNext(p, now) \/ ClaimNothing(p, now) \/ PopNotify(p)
           \/ (\E i : Reoffer(p, i, now)) \/ (\E i, f : AckLapsed(p, i, f, now))
  PROVE  RowsKept /\ acks' = acks
<1>1. \A i \in DOMAIN messages : messages[i] \in Message
  BY DEF TypeOK
<1>2. CASE ClaimNext(p, now)
  <2>1. PICK i \in Oldest(Waiting(p, now)) :
          messages' = [MessagesAfterExpiry(now) EXCEPT ![i].status = "claimed", ![i].attempts = @ + 1]
    BY <1>2 DEF ClaimNext
  <2>2. i \in DOMAIN messages /\ MessagesAfterExpiry(now)[i].status = "accepted"
    BY DEF Oldest, Waiting
  <2>3. MessagesAfterExpiry(now) \in [DOMAIN messages -> Message]
    BY ExpiryTypes
  <2>4. \A j \in DOMAIN messages :
          /\ MessagesAfterExpiry(now)[j].to = messages[j].to
          /\ messages[j].status = "done" => MessagesAfterExpiry(now)[j].status = "done"
    BY ExpiryFields
  <2>5. DOMAIN messages' = DOMAIN messages
    BY <2>1, <2>3
  <2>6. \A j \in DOMAIN messages :
          /\ messages'[j].to = MessagesAfterExpiry(now)[j].to
          /\ j # i => messages'[j].status = MessagesAfterExpiry(now)[j].status
    BY <2>1, <2>2, <2>3 DEF Message
  <2>7. messages[i].status # "done"
    BY <2>2, <2>4
  <2> QED BY <1>2, <2>4, <2>5, <2>6, <2>7 DEF RowsKept, ClaimNext
<1>3. CASE ClaimNothing(p, now)
  <2>1. DOMAIN MessagesAfterExpiry(now) = DOMAIN messages
    BY DEF MessagesAfterExpiry
  <2>2. \A j \in DOMAIN messages :
          /\ MessagesAfterExpiry(now)[j].to = messages[j].to
          /\ messages[j].status = "done" => MessagesAfterExpiry(now)[j].status = "done"
    BY ExpiryFields
  <2> QED BY <1>3, <2>1, <2>2 DEF RowsKept, ClaimNothing
<1>4. CASE PopNotify(p)
  BY <1>4 DEF RowsKept, PopNotify
<1>5. CASE \E i : Reoffer(p, i, now)
  BY <1>1, <1>5 DEF RowsKept, Reoffer, Message
<1>6. CASE \E i, f : AckLapsed(p, i, f, now)
  BY <1>1, <1>6 DEF RowsKept, AckLapsed, Message
<1> QED BY <1>2, <1>3, <1>4, <1>5, <1>6

\* So does a handler whose client is gone, which moves nobody.
LEMMA HandlerKeepsRows ==
  ASSUME TownInv, HandlerEnds
  PROVE  /\ RowsKept /\ acks' = acks
         /\ UNCHANGED <<cast, fault, procs, loops, journal, marker, applications>>
<1>1. TypeOK
  BY DEF TownInv, FencingInv
<1>2. ASSUME UNCHANGED vars PROVE RowsKept /\ acks' = acks
  BY <1>2 DEF vars, RowsKept
<1>3. RowsKept /\ acks' = acks
  BY <1>1, <1>2, HandlerMailbox, ClaimsKeepRows
<1> QED BY <1>3 DEF HandlerEnds, disk, control, kept, given

\* A claim names a message to its claimant.
LEMMA ClaimedTo ==
  ASSUME TownInv, NEW p \in Participants, NEW i, NEW f, IsClaim(p, i, f)
  PROVE  i \in DOMAIN messages /\ messages[i].to = p /\ (p = Seller <=> i = QuoteRequest)
<1>1. i \in DOMAIN messages /\ messages[i].to = p
  BY DEF IsClaim, TownInv, FencingInv, RowsRefer
<1> QED BY <1>1 DEF TownInv, Letters

\* An acknowledgement settles its message, unless it gives it back, and is added.
LEMMA AckAdds ==
  ASSUME TownInv, NEW p \in Participants, AckAccepted(p)
  PROVE  /\ procs[p].message \in DOMAIN messages
         /\ p = Seller <=> procs[p].message = QuoteRequest
         /\ DOMAIN messages' = DOMAIN messages
         /\ \A i \in DOMAIN messages : /\ messages'[i].to = messages[i].to
                                       /\ i # procs[p].message => messages'[i] = messages[i]
         /\ procs[p].status # "retryable" => messages'[procs[p].message].status = "done"
         /\ \A flag : Reporting(flag)' =
              IF flag \in procs[p].note THEN Reporting(flag) \cup {Len(acks) + 1} ELSE Reporting(flag)
         /\ Len(acks) + 1 \notin DOMAIN acks
<1> DEFINE i == procs[p].message
           f == procs[p].fence
<1>1. PICK now \in Sampled : Ack(p, i, f, procs[p].status, procs[p].note, now)
  BY DEF AckAccepted
<1>2. i \in DOMAIN messages /\ (p = Seller <=> i = QuoteRequest)
  BY <1>1, ClaimedTo DEF Ack
<1>3. messages[i] \in Message /\ messages[i].status # "accepted"
  <2>1. f \in ActiveOn(i)
    BY <1>1 DEF Ack, IsClaim, Current, ActiveOn
  <2> QED BY <1>2, <2>1 DEF TownInv, FencingInv, TypeOK, HolderMatchesStatus
<1>4. messages' = [messages EXCEPT ![i].status = StatusAfterAck(procs[p].status),
                                   ![i].done = IF procs[p].status = "retryable" THEN "null" ELSE procs[p].status]
  BY <1>1, <1>3 DEF Ack, Message
<1>5. /\ DOMAIN messages' = DOMAIN messages
      /\ \A j \in DOMAIN messages : /\ messages'[j].to = messages[j].to
                                    /\ j # i => messages'[j] = messages[j]
      /\ messages'[i].status = StatusAfterAck(procs[p].status)
  BY <1>2, <1>3, <1>4 DEF Message
<1>6. /\ acks \in Seq(AckRow)
      /\ acks' = Append(acks, [message |-> i, fence |-> f, status |-> procs[p].status, note |-> procs[p].note])
  BY <1>1 DEF Ack, TownInv, FencingInv, TypeOK
<1>7. /\ DOMAIN acks' = DOMAIN acks \cup {Len(acks) + 1} /\ Len(acks) + 1 \notin DOMAIN acks
      /\ acks'[Len(acks) + 1].note = procs[p].note
      /\ \A a \in DOMAIN acks : acks'[a] = acks[a]
  BY <1>6
<1>8. ASSUME NEW flag
      PROVE  Reporting(flag)' =
              IF flag \in procs[p].note THEN Reporting(flag) \cup {Len(acks) + 1} ELSE Reporting(flag)
  BY <1>7 DEF Reporting
<1> QED BY <1>2, <1>5, <1>7, <1>8 DEF StatusAfterAck

\* A first send adds one message; nothing else does.
LEMMA SendAdds ==
  ASSUME TownInv, NEW p \in Participants, SendNew(p)
  PROVE  /\ DOMAIN messages' = DOMAIN messages \cup {procs[p].reply}
         /\ \A i \in DOMAIN messages : messages'[i] = messages[i]
         /\ messages'[procs[p].reply].to = other(p)
         /\ procs[p].reply \notin DOMAIN messages
         /\ acks' = acks
BY DEF SendNew, AcceptMessage, IsNew, NewMessage

\* Every step but an acknowledgement keeps the acknowledgements, and done work stays done.
Kept == /\ acks' = acks
        /\ Settled => Settled'

\* The letters are addressed as they should be, and what is not acknowledged is kept.
LEMMA TablesStep ==
  ASSUME TownInv, [TownNext]_trackVars
  PROVE  Letters' /\ (Kept \/ \E p \in Participants : AckAccepted(p))
<1> USE DEF mailbox
<1>1. TypeOK /\ Letters /\ BuyerInv /\ SellerInv /\ TownTypeOK /\ Sampled \subseteq Nat
  BY DEF TownInv, FencingInv, Sampled
<1>2. ASSUME RowsKept /\ acks' = acks PROVE Letters' /\ Kept
  BY <1>1, <1>2 DEF RowsKept, Letters, Kept, Settled
<1>3. ASSUME messages' = messages PROVE Letters' /\ (acks' = acks => Kept)
  BY <1>1, <1>3 DEF Letters, Kept, Settled
<1>4. ASSUME NEW p \in Participants, Participant(p)
      PROVE  Letters' /\ (Kept \/ AckAccepted(p))
  <2>1. CASE WaitForHint(p)
    BY <1>2, <1>3, <2>1, ClaimsKeepRows DEF WaitForHint, Notify, PopNotify
  <2>2. CASE ClaimWork(p)
    BY <1>1, <1>2, <2>2, ClaimsKeepRows DEF ClaimWork
  <2>3. CASE ClaimFoundNothing(p)
    BY <1>1, <1>2, <2>3, ClaimsKeepRows DEF ClaimFoundNothing
  <2>4. CASE OfferDuplicate(p)
    <3>1. procs[p].since \in Nat
      BY <1>1 DEF TownTypeOK, Process
    <3> QED BY <1>1, <1>2, <2>4, <3>1, ClaimsKeepRows DEF OfferDuplicate
  <2>5. CASE SendNew(p)
    <3>1. /\ p = Buyer => procs[p].reply = QuoteRequest /\ other(p) = Seller
          /\ p = Seller => procs[p].reply # QuoteRequest /\ other(p) # Seller
      BY <1>1, <2>5, SendIds, Names DEF SendNew
    <3>2. Letters'
      BY <1>1, <2>5, <3>1, SendAdds, Names DEF Letters
    <3> QED BY <2>5, <3>2, SendAdds DEF Kept, Settled
  <2>6. CASE AckAccepted(p)
    BY <1>1, <2>6, AckAdds DEF Letters
  <2>7. CASE AckRefused(p)
    BY <1>1, <1>2, <1>3, <2>7, ClaimsKeepRows DEF AckRefused
  <2>8. CASE UNCHANGED mailbox
    BY <1>3, <2>8
  <2> QED BY <1>4, <2>1, <2>2, <2>3, <2>4, <2>5, <2>6, <2>7, <2>8
    DEF Participant, OfferRefused, SellerHandles, SellerStalls, SellerWakes, MarkReported,
        BridgeHandles, BuyerHandles, SendAgain, NoteSuppressed, AckLooksAtFault, DropAck, Leave
<1>5. ASSUME NEW p \in Participants, Think(p) \/ AwaitHint(p) \/ Accident(p)
      PROVE  Letters' /\ Kept
  BY <1>2, <1>3, <1>5 DEF Think, AwaitHint, Notify, PopNotify, Accident, Crash, Restart, AgentFails
<1>6. CASE Runner \/ TimePasses \/ UNCHANGED trackVars
  BY <1>3, <1>6 DEF Runner, EndWatch, SellerIsDone, RestartSeller, EndSettling, FinishRun, TimePasses,
                    Tick, tables, trackVars
<1>7. CASE HandlerEnds
  BY <1>2, <1>7, HandlerKeepsRows
<1> QED BY <1>4, <1>5, <1>6, <1>7 DEF TownNext

-----------------------------------------------------------------------------
(* The buyer.                                                              *)

\* What the moves of a participant keep and what they set.
LEMMA Fields ==
  ASSUME TownTypeOK, NEW p \in Participants
  PROVE  /\ \A pc \in Places :
                    /\ Entering(p, pc).pc = pc /\ Entering(p, pc).note = procs[p].note
                    /\ Entering(p, pc).reply = procs[p].reply /\ Entering(p, pc).status = procs[p].status
                    /\ Entering(p, pc).dying = procs[p].dying /\ Entering(p, pc).code = procs[p].code
                    /\ Entering(p, pc).message = procs[p].message
                    /\ Entering(p, pc).duplicate = procs[p].duplicate
                    /\ Entering(p, pc).answer = procs[p].answer
         /\ Resting(p).pc = "idle" /\ Resting(p).note = {} /\ Resting(p).status = "processed"
         /\ Resting(p).dying = FALSE /\ Resting(p).message = Nothing /\ Resting(p).code = 0
         /\ \A code \in Codes :
                      /\ Exited(p, code).pc = "exited" /\ Exited(p, code).code = code
                      /\ Exited(p, code).note = {} /\ Exited(p, code).dying = FALSE
                      /\ Exited(p, code).status = "processed"
         /\ cast[p] # "model" => \A a \in Answers : Told(p, a) = Resting(p)
         /\ cast[p] = "model" =>
              \A a \in Answers :
                     /\ Told(p, a).pc = "thinking" /\ Told(p, a).answer = a
                     /\ Told(p, a).note = procs[p].note /\ Told(p, a).message = procs[p].message
                     /\ Told(p, a).status = procs[p].status /\ Told(p, a).dying = procs[p].dying
<1>1. procs[p] \in Process
  BY DEF TownTypeOK
<1>2. DOMAIN procs[p] = {"pc", "since", "message", "fence", "duplicate", "note", "status", "reply",
                         "dying", "outcome", "code", "answer"}
  BY <1>1 DEF Process
<1> QED BY <1>1, <1>2 DEF Entering, Resting, Exited, Told, Idle, Process

\* A buyer that moves well is well.
LEMMA BuyerMoves ==
  ASSUME TownTypeOK, NEW d, Move(Buyer, d), cast' = cast,
         BuyerGood(d, loops'[Buyer], (Reporting("right") # {})')
  PROVE  BuyerInv'
<1>1. procs'[Buyer] = d
  BY Moved, Names
<1> QED BY <1>1 DEF BuyerInv, BuyerGood, Stands, Agrees

\* No acknowledgement is ever withdrawn.
LEMMA ReportsGrow ==
  ASSUME TownInv, [TownNext]_trackVars
  PROVE  \A flag : Reporting(flag) \subseteq Reporting(flag)'
<1>1. CASE acks' = acks
  BY <1>1 DEF Reporting
<1>2. CASE \E p \in Participants : AckAccepted(p)
  BY <1>2, AckAdds
<1> QED BY <1>1, <1>2, TablesStep DEF Kept

\* What the others do is nothing to the buyer.
LEMMA BuyerUntouched ==
  ASSUME TownInv, [TownNext]_trackVars, cast' = cast,
         procs'[Buyer] = procs[Buyer], loops'[Buyer] = loops[Buyer]
  PROVE  BuyerInv'
<1>1. BuyerInv /\ (Reporting("right") # {} => (Reporting("right") # {})')
  BY ReportsGrow DEF TownInv
<1> QED BY <1>1 DEF BuyerInv, BuyerGood, Stands, Agrees

\* What a delivery sets.
LEMMA DeliveredFields ==
  ASSUME TownTypeOK, NEW p \in Participants, NEW duplicate \in BOOLEAN
  PROVE  /\ Delivered(p, duplicate).pc = IF cast[p] = "model" THEN "thinking" ELSE "handling"
         /\ Delivered(p, duplicate).answer = "work"
         /\ Delivered(p, duplicate).duplicate = duplicate
         /\ Delivered(p, duplicate).message = claims'[Len(claims')].message
         /\ Delivered(p, duplicate).note = procs[p].note
         /\ Delivered(p, duplicate).status = procs[p].status
         /\ Delivered(p, duplicate).dying = procs[p].dying
         /\ Delivered(p, duplicate).code = procs[p].code
<1>1. procs[p] \in Process
  BY DEF TownTypeOK
<1>2. DOMAIN procs[p] = {"pc", "since", "message", "fence", "duplicate", "note", "status", "reply",
                         "dying", "outcome", "code", "answer"}
  BY <1>1 DEF Process
<1> QED BY <1>1, <1>2 DEF Delivered, Entering

\* A requesting buyer stays one, whatever the town answers.
LEMMA BuyerActs ==
  ASSUME TownInv, [TownNext]_trackVars, Participant(Buyer)
  PROVE  BuyerInv'
<1> USE DEF mailbox, memory, disk, control, kept, given
<1> DEFINE said == (Reporting("right") # {})'
           l == loops[Buyer]
           old == procs[Buyer]
<1>1. /\ TownTypeOK /\ BuyerInv /\ Buyer \in Participants /\ Buyer # Seller
      /\ Reporting("right") # {} => said
  BY Names, ReportsGrow DEF TownInv
<1>2. BuyerGood(old, l, said)
  BY <1>1 DEF BuyerInv, BuyerGood
<1>3. old \in Process /\ l \in Loop(Buyer)
  BY <1>1 DEF TownTypeOK
<1> HIDE DEF said, l, old
<1>4. ASSUME NEW d, Move(Buyer, d), cast' = cast, loops' = loops, BuyerGood(d, l, said)
      PROVE  BuyerInv'
  BY <1>1, <1>4, BuyerMoves DEF said, l
<1>5. ASSUME NEW pc \in Places \ {"sending", "suppressing", "thinking", "hinting"}, cast[Buyer] # "model"
      PROVE  BuyerGood(Entering(Buyer, pc), l, said)
  <2>1. Entering(Buyer, pc).pc = pc /\ Entering(Buyer, pc).note = old.note
    BY <1>1, Fields DEF old
  <2>2. pc \notin {"sending", "suppressing", "thinking", "hinting"}
    BY <1>5
  <2> QED BY <1>2, <1>5, <2>1, <2>2 DEF BuyerGood, Stands
<1>6. cast[Buyer] # "model" => BuyerGood(Resting(Buyer), l, said)
  BY <1>1, Fields DEF BuyerGood, Stands
<1>7. \A code \in Codes : code # 0 \/ cast[Buyer] # "model" => BuyerGood(Exited(Buyer, code), l, said)
  BY <1>1, <1>2, Fields, ZenonT(40) DEF BuyerGood, Stands, Agrees, ModelPlaces
<1>8. ASSUME NEW a \in Answers,
             cast[Buyer] = "model" =>
               /\ l.call \notin LastCalls
               /\ a = "work" => l.call = Call("claim_work")
               /\ a = "recorded" => l.call.tool = "ack_work" /\ said
      PROVE  BuyerGood(Told(Buyer, a), l, said)
  <2>1. CASE cast[Buyer] # "model"
    BY <1>1, <1>6, <1>8, <2>1, Fields
  <2>2. CASE cast[Buyer] = "model"
    <3>1. Told(Buyer, a).pc = "thinking" /\ Told(Buyer, a).answer = a /\ Told(Buyer, a).note = old.note
      BY <1>1, <2>2, Fields DEF old
    <3>2. Call("begin") \in LastCalls
      BY DEF LastCalls
    <3> QED BY <1>2, <1>8, <2>2, <3>1, <3>2 DEF BuyerGood, Stands, Agrees, ModelPlaces
  <2> QED BY <2>1, <2>2
<1>9. /\ \A a \in {"no work", "accepted", "recorded", "stale", "work"} : a \in Answers
      /\ \A pc \in {"claiming", "reoffering", "acking", "dropping", "handling", "suppressing"} : pc \in Places
  BY DEF Answers, Places, ModelPlaces
<1>10. /\ BuyerGood(Exited(Buyer, 3), l, said) /\ BuyerGood(Exited(Buyer, 5), l, said)
       /\ BuyerGood(Exited(Buyer, 9), l, said)
       /\ cast[Buyer] # "model" => BuyerGood(Exited(Buyer, 0), l, said)
  <2>1. 0 \in Codes /\ 3 \in Codes /\ 5 \in Codes /\ 9 \in Codes /\ 3 # 0 /\ 5 # 0 /\ 9 # 0
    BY DEF Codes
  <2> QED BY <1>7, <2>1
<1>11. \A pc \in Places : /\ Entering(Buyer, pc).pc = pc /\ Entering(Buyer, pc).note = old.note
                          /\ Entering(Buyer, pc).reply = old.reply
  BY <1>1, Fields DEF old
<1>12. cast[Buyer] = "model" /\ old.pc \in ModelPlaces \ {"thinking", "exited"} => l.call \notin LastCalls
  BY <1>2 DEF BuyerGood, Agrees
<1>13. ASSUME NEW duplicate \in BOOLEAN, old.pc \in {"claiming", "reoffering"}
       PROVE  BuyerGood(Delivered(Buyer, duplicate), l, said)
  <2>1. /\ Delivered(Buyer, duplicate).pc = IF cast[Buyer] = "model" THEN "thinking" ELSE "handling"
        /\ Delivered(Buyer, duplicate).answer = "work"
        /\ Delivered(Buyer, duplicate).note = old.note
    BY <1>1, DeliveredFields DEF old
  <2>2. Call("claim_work") \notin LastCalls /\ Call("begin") \in LastCalls
    BY DEF LastCalls, Call, Finishing
  <2> QED BY <1>2, <1>13, <2>1, <2>2 DEF BuyerGood, Stands, Agrees, ModelPlaces
<1>14. CASE WaitForHint(Buyer)
  <2>1. cast[Buyer] # "model"
    BY <1>2, <1>14 DEF WaitForHint, At, BuyerGood, Stands, ModelPlaces, old
  <2> QED BY <1>4, <1>5, <1>9, <1>14, <2>1 DEF WaitForHint
<1>15. CASE ClaimWork(Buyer)
  <2>1. old.pc = "claiming" /\ Move(Buyer, Delivered(Buyer, FALSE)) /\ UNCHANGED <<cast, loops>>
    BY <1>15 DEF ClaimWork, At, old
  <2>2. BuyerGood(Delivered(Buyer, FALSE), l, said)
    BY <1>13, <2>1
  <2> QED BY <1>4, <2>1, <2>2
<1>16. CASE OfferDuplicate(Buyer)
  <2>1. old.pc = "reoffering" /\ Move(Buyer, Delivered(Buyer, TRUE)) /\ UNCHANGED <<cast, loops>>
    BY <1>16 DEF OfferDuplicate, At, old
  <2>2. BuyerGood(Delivered(Buyer, TRUE), l, said)
    BY <1>13, <2>1
  <2> QED BY <1>4, <2>1, <2>2
<1>17. old.pc \in {"claiming", "reoffering"} => BuyerGood(Told(Buyer, "no work"), l, said)
  BY <1>8, <1>9, <1>12 DEF ModelPlaces
<1>18. CASE ClaimFoundNothing(Buyer)
  <2>1. PICK now \in Sampled :
          Move(Buyer, IF MayOffer THEN [old EXCEPT !.pc = "reoffering", !.since = now]
                      ELSE Told(Buyer, "no work"))
    BY <1>18 DEF ClaimFoundNothing, old
  <2>2. old.pc = "claiming"
    BY <1>18 DEF ClaimFoundNothing, At, old
  <2>3. BuyerGood([old EXCEPT !.pc = "reoffering", !.since = now], l, said)
    <3> DEFINE d == [old EXCEPT !.pc = "reoffering", !.since = now]
    <3>1. d.pc = "reoffering" /\ d.note = old.note
      BY <1>3 DEF Process
    <3> HIDE DEF d
    <3>2. BuyerGood(d, l, said)
      BY <1>2, <2>2, <3>1 DEF BuyerGood, Stands, Agrees, ModelPlaces
    <3> QED BY <3>2 DEF d
  <2>4. PICK d : /\ d = IF MayOffer THEN [old EXCEPT !.pc = "reoffering", !.since = now]
                        ELSE Told(Buyer, "no work")
                 /\ Move(Buyer, d)
    BY <2>1
  <2>5. BuyerGood(d, l, said)
    BY <1>17, <2>2, <2>3, <2>4
  <2>6. UNCHANGED <<cast, loops>>
    BY <1>18 DEF ClaimFoundNothing
  <2> QED BY <1>4, <2>4, <2>5, <2>6
<1>19. CASE OfferRefused(Buyer)
  <2>1. old.pc = "reoffering" /\ Move(Buyer, Told(Buyer, "no work")) /\ UNCHANGED <<cast, loops>>
    BY <1>19 DEF OfferRefused, At, old
  <2>2. BuyerGood(Told(Buyer, "no work"), l, said)
    BY <1>17, <2>1
  <2> QED BY <1>4, <2>1, <2>2
<1>20. CASE BuyerHandles
  <2> DEFINE d == [Entering(Buyer, "acking") EXCEPT
                          !.outcome = @ \/ ~(Remembered(Buyer) # {}),
                          !.note = IF Remembered(Buyer) # {} THEN {"duplicate"} ELSE {"right"}]
  <2>1. Move(Buyer, d) /\ UNCHANGED <<cast, loops>>
    BY <1>20 DEF BuyerHandles
  <2>2. Entering(Buyer, "acking") \in Process
    BY <1>1, <1>9, GoTypes
  <2>3. d.pc = "acking" /\ "applied" \notin d.note
    <3>1. d.note = IF Remembered(Buyer) # {} THEN {"duplicate"} ELSE {"right"}
      BY <2>2 DEF Process
    <3>2. d.pc = Entering(Buyer, "acking").pc
      BY <2>2 DEF Process
    <3>3. Entering(Buyer, "acking").pc = "acking"
      BY <1>9, <1>11
    <3> QED BY <3>1, <3>2, <3>3
  <2>4. cast[Buyer] # "model"
    BY <1>2, <1>20 DEF BuyerHandles, At, BuyerGood, Stands, ModelPlaces, old
  <2> HIDE DEF d
  <2>5. BuyerGood(d, l, said)
    BY <2>3, <2>4 DEF BuyerGood, Stands
  <2> QED BY <1>4, <2>1, <2>5
<1>21. old.pc \in {"sending", "suppressing"} => BuyerGood(AfterSend(Buyer), l, said)
  <2> HAVE old.pc \in {"sending", "suppressing"}
  <2>1. BuyerGood(Told(Buyer, "accepted"), l, said)
    BY <1>8, <1>9, <1>12 DEF ModelPlaces
  <2>2. cast[Buyer] # "model" => BuyerGood(Entering(Buyer, "acking"), l, said)
    BY <1>5, <1>9
  <2> QED BY <1>10, <2>1, <2>2 DEF AfterSend
<1>22. CASE SendNew(Buyer)
  <2>1. old.pc = "sending" /\ UNCHANGED <<cast, loops>>
    BY <1>22 DEF SendNew, At, old
  <2>2. BuyerGood(Entering(Buyer, "suppressing"), l, said)
    <3>1. /\ Entering(Buyer, "suppressing").pc = "suppressing" /\ Entering(Buyer, "suppressing").note = old.note
          /\ Entering(Buyer, "suppressing").reply = old.reply
      BY <1>9, <1>11
    <3> QED BY <1>2, <2>1, <3>1 DEF BuyerGood, Stands, Agrees, ModelPlaces
  <2>3. PICK d : /\ d = Entering(Buyer, "suppressing") \/ d = AfterSend(Buyer)
                 /\ Move(Buyer, d)
    BY <1>22 DEF SendNew
  <2>4. BuyerGood(d, l, said)
    BY <1>21, <2>1, <2>2, <2>3
  <2> QED BY <1>4, <2>1, <2>3, <2>4
<1>23. CASE SendAgain(Buyer) \/ NoteSuppressed(Buyer)
  <2>1. /\ old.pc \in {"sending", "suppressing"} /\ Move(Buyer, AfterSend(Buyer))
        /\ UNCHANGED <<cast, loops>>
    BY <1>23 DEF SendAgain, NoteSuppressed, At, old
  <2>2. BuyerGood(AfterSend(Buyer), l, said)
    BY <1>21, <2>1
  <2> QED BY <1>4, <2>1, <2>2
<1>24. CASE AckLooksAtFault(Buyer) \/ DropAck(Buyer)
  <2>1. old.pc \in {"acking", "dropping"}
    BY <1>24 DEF AckLooksAtFault, DropAck, At, old
  <2>2. PICK pc \in {"acking", "dropping"} : Move(Buyer, Entering(Buyer, pc))
    BY <1>24 DEF AckLooksAtFault, DropAck
  <2>3. Entering(Buyer, pc).pc = pc /\ Entering(Buyer, pc).note = old.note
    BY <1>9, <1>11
  <2>4. BuyerGood(Entering(Buyer, pc), l, said)
    BY <1>2, <2>1, <2>3 DEF BuyerGood, Stands, Agrees, ModelPlaces
  <2>5. UNCHANGED <<cast, loops>>
    BY <1>24 DEF AckLooksAtFault, DropAck
  <2> QED BY <1>4, <2>2, <2>4, <2>5
<1>25. CASE AckAccepted(Buyer)
  <2>1. old.pc = "acking"
    BY <1>25 DEF AckAccepted, At, old
  <2>2. cast[Buyer] = "model" => said
    <3>1. cast[Buyer] = "model" => l.call.tool = "ack_work" /\ l.call.note \subseteq old.note
      BY <1>2, <2>1 DEF BuyerGood, Agrees
    <3>2. cast[Buyer] = "model" => "right" \in old.note
      BY <1>1, <1>3, <3>1, CallFields DEF Loop
    <3> QED BY <1>1, <1>25, <3>2, AckAdds DEF said, old
  <2>3. cast[Buyer] = "model" => l.call \notin LastCalls /\ l.call.tool = "ack_work"
    BY <1>2, <2>1 DEF BuyerGood, Agrees
  <2>4. BuyerGood(Told(Buyer, "recorded"), l, said)
    BY <1>8, <1>9, <2>2, <2>3
  <2>5. PICK d : /\ d = Exited(Buyer, 9) \/ d = Told(Buyer, "recorded")
                 /\ Move(Buyer, d)
    BY <1>1, <1>25 DEF AckAccepted, KeepsMark
  <2>6. BuyerGood(d, l, said) /\ UNCHANGED <<cast, loops>>
    BY <1>25, <1>10, <2>4, <2>5 DEF AckAccepted
  <2> QED BY <1>4, <2>5, <2>6
<1>26. CASE AckRefused(Buyer)
  <2>1. old.pc = "acking"
    BY <1>26 DEF AckRefused, At, old
  <2>2. BuyerGood(Told(Buyer, "stale"), l, said)
    BY <1>8, <1>9, <1>12, <2>1 DEF ModelPlaces
  <2>3. PICK d : /\ d = Exited(Buyer, 3) \/ d = Told(Buyer, "stale")
                 /\ Move(Buyer, d)
    BY <1>26 DEF AckRefused
  <2>4. BuyerGood(d, l, said) /\ UNCHANGED <<cast, loops>>
    BY <1>26, <1>10, <2>2, <2>3 DEF AckRefused
  <2> QED BY <1>4, <2>3, <2>4
<1>27. CASE Leave(Buyer)
  <2>1. cast[Buyer] # "model"
    BY <1>2, <1>27 DEF Leave, At, BuyerGood, Stands, ModelPlaces, old
  <2> QED BY <1>4, <1>27, <1>10, <2>1 DEF Leave
<1> QED
  BY <1>1, <1>14, <1>15, <1>16, <1>18, <1>19, <1>20, <1>22, <1>23, <1>24, <1>25, <1>26, <1>27 DEF Participant

\* What a brain reads is the call it just made, or one it remembered.
LEMMA ConversationOf ==
  ASSUME TownTypeOK, NEW p \in Participants, At(p, "thinking"), Agrees(procs[p], loops[p]),
         NEW n \in DOMAIN Conversation(p)
  PROVE  \/ Conversation(p)[n] = Entry(p)
         \/ \E m \in DOMAIN loops[p].history : Conversation(p)[n] = loops[p].history[m]
<1>1. PICK k \in Nat : /\ Len(Conversation(p)) = Len(Heard(p)) - k
                       /\ \A j \in 1..Len(Conversation(p)) : Conversation(p)[j] = Heard(p)[j + k]
  BY Hears
<1>2. Conversation(p) \in Seq(Entries(p)) /\ Heard(p) \in Seq(Entries(p))
  BY Hears
<1>3. n \in 1..Len(Conversation(p)) /\ Len(Conversation(p)) \in Nat /\ Len(Heard(p)) \in Nat
  BY <1>2
<1>4. n + k \in 1..Len(Heard(p)) /\ Conversation(p)[n] = Heard(p)[n + k]
  BY <1>1, <1>3
<1>5. loops[p].history \in Seq(Entries(p))
  BY DEF TownTypeOK, Loop, Entries
<1>6. CASE loops[p].call = Call("begin")
  <2>1. Heard(p) = <<>>
    BY <1>6, Hears
  <2> QED BY <1>4, <2>1
<1>7. CASE loops[p].call # Call("begin")
  <2>1. Heard(p) = Append(loops[p].history, Entry(p)) /\ Entry(p) \in Entries(p)
    BY <1>7, Hears
  <2>2. \/ n + k \in DOMAIN loops[p].history /\ Heard(p)[n + k] = loops[p].history[n + k]
        \/ Heard(p)[n + k] = Entry(p)
    BY <1>4, <1>5, <2>1
  <2> QED BY <1>4, <2>2
<1> QED BY <1>6, <1>7

\* Where a tool call takes the process.
LEMMA ExecutingFields ==
  ASSUME TownTypeOK, TypeOK, NEW p \in Participants, At(p, "thinking"), Agrees(procs[p], loops[p]),
         NEW d, d = Executing(LoopAfter(p), Said(p), Freed(p))
  PROVE  /\ Said(p).tool = "list_participants" => d.pc = "thinking" /\ d.answer = "listed"
         /\ Said(p).tool = "claim_work" =>
              IF LoopAfter(p).stashed THEN d.pc = "thinking" /\ d.answer = "work" ELSE d.pc = "hinting"
         /\ Said(p).tool = "send_work" => d.pc = "sending" /\ d.reply = Said(p).reply
         /\ Said(p).tool = "ack_work" =>
              IF LoopAfter(p).stashed \/ Freed(p).fence = 0 THEN d.pc = "thinking" /\ d.answer = "error"
              ELSE d.pc = "acking" /\ d.note = Counted(LoopAfter(p), Said(p).note)
         /\ Said(p).tool = "finish" => /\ d.pc = "exited" /\ d.code = Said(p).code /\ d.note = {}
                                       /\ ~d.dying /\ d.status = "processed"
         /\ Said(p).tool # "finish" => /\ d.dying = procs[p].dying /\ d.status = procs[p].status
                                       /\ d.pc # "acking" => d.note = procs[p].note
                                       /\ d.message = Freed(p).message
         /\ Said(p).tool \in {"list_participants", "claim_work", "send_work", "ack_work", "finish"}
<1> DEFINE proc == Freed(p)
           l == LoopAfter(p)
           call == Said(p)
<1>1. procs[p] \in Process /\ proc \in Process /\ At(p, "thinking")
  BY ExecutingTypes DEF TownTypeOK
<1>2. proc.pc = "thinking" /\ proc.dying = procs[p].dying /\ proc.status = procs[p].status
      /\ proc.note = procs[p].note
  BY <1>1 DEF Freed, Released, Process, At
<1>3. call.tool \in {"list_participants", "claim_work", "send_work", "ack_work", "finish"}
  <2>1. call \in BrainCalls(p) \cup {Finishing(0), Finishing(5)}
    BY LoopAfterTypes
  <2>2. call \in BrainCalls(p) =>
          call.tool \in {"list_participants", "claim_work", "send_work", "ack_work"}
    BY BrainTools
  <2> QED BY <2>1, <2>2, LastWords
<1> HIDE DEF proc, l, call
<1>4. d = Executing(l, call, proc)
  BY DEF l, call, proc
<1>5. CASE call.tool = "list_participants"
  BY <1>1, <1>2, <1>4, <1>5 DEF Executing, Process, l, call, proc
<1>6. CASE call.tool = "claim_work"
  BY <1>1, <1>2, <1>4, <1>6 DEF Executing, Process, l, call, proc
<1>7. CASE call.tool = "send_work"
  BY <1>1, <1>2, <1>4, <1>7 DEF Executing, Process, l, call, proc
<1>8. CASE call.tool = "ack_work"
  BY <1>1, <1>2, <1>4, <1>8 DEF Executing, Process, l, call, proc
<1>9. CASE call.tool = "finish"
  BY <1>4, <1>9 DEF Executing, Idle, l, call, proc
<1> QED BY <1>3, <1>5, <1>6, <1>7, <1>8, <1>9 DEF call

\* The brain's last call and the process agree once it has thought.
LEMMA ThoughtAgrees ==
  ASSUME TownTypeOK, TypeOK, NEW p \in Participants, At(p, "thinking"), Agrees(procs[p], loops[p])
  PROVE  /\ Agrees(Executing(LoopAfter(p), Said(p), Freed(p)), LoopAfter(p))
         /\ Executing(LoopAfter(p), Said(p), Freed(p)).pc \in {"thinking", "hinting", "sending", "acking", "exited"}
<1> DEFINE d == Executing(LoopAfter(p), Said(p), Freed(p))
<1>1. /\ Said(p) \in BrainCalls(p) \cup {Finishing(0), Finishing(5)} /\ LoopAfter(p).call = Said(p)
      /\ Said(p) \in BrainCalls(p) \cup LastCalls
  BY LoopAfterTypes DEF LastCalls
<1>2. /\ Said(p) \in LastCalls <=> Said(p).tool \in {"begin", "finish"}
      /\ Said(p).tool = "claim_work" <=> Said(p) = Call("claim_work")
      /\ Said(p).note \in SUBSET Flags
  BY <1>1, CallFields
<1>3. Said(p).note \subseteq Counted(LoopAfter(p), Said(p).note) /\ Call("begin") \in LastCalls
  BY DEF Counted, LastCalls
<1> HIDE DEF d
<1>4. d.pc \in {"thinking", "hinting", "sending", "acking", "exited"}
  BY ExecutingFields DEF d
<1>5. ASSUME Said(p).tool = "list_participants" PROVE Agrees(d, LoopAfter(p))
  <2>1. d.pc = "thinking" /\ d.answer = "listed" /\ Said(p) \notin LastCalls
    BY <1>2, <1>5, ExecutingFields DEF d
  <2> QED BY <1>1, <1>3, <1>4, <2>1 DEF Agrees
<1>6. ASSUME Said(p).tool = "claim_work" PROVE Agrees(d, LoopAfter(p))
  <2>1. /\ d.pc = "hinting" \/ (d.pc = "thinking" /\ d.answer = "work")
        /\ Said(p) \notin LastCalls /\ Said(p) = Call("claim_work")
    BY <1>2, <1>6, ExecutingFields DEF d
  <2> QED BY <1>1, <1>3, <1>4, <2>1 DEF Agrees
<1>7. ASSUME Said(p).tool = "send_work" PROVE Agrees(d, LoopAfter(p))
  <2>1. d.pc = "sending" /\ Said(p) \notin LastCalls
    BY <1>2, <1>7, ExecutingFields DEF d
  <2> QED BY <1>1, <1>3, <1>4, <1>7, <2>1 DEF Agrees
<1>8. ASSUME Said(p).tool = "ack_work" PROVE Agrees(d, LoopAfter(p))
  <2>1. /\ \/ d.pc = "thinking" /\ d.answer = "error"
           \/ d.pc = "acking" /\ d.note = Counted(LoopAfter(p), Said(p).note)
        /\ Said(p) \notin LastCalls
    BY <1>2, <1>8, ExecutingFields DEF d
  <2> QED BY <1>1, <1>3, <1>4, <1>8, <2>1 DEF Agrees
<1>9. ASSUME Said(p).tool = "finish" PROVE Agrees(d, LoopAfter(p))
  <2>1. d.pc = "exited"
    BY <1>9, ExecutingFields DEF d
  <2> QED BY <1>1, <1>4, <1>9, <2>1 DEF Agrees
<1> QED BY <1>4, <1>5, <1>6, <1>7, <1>8, <1>9, ExecutingFields DEF d

\* The buyer's brain ends well only on a recorded acknowledgement.
LEMMA EndsOnRecord ==
  ASSUME NEW h \in Seq(Entries(Buyer)), Choice(Buyer, h) = Finishing(0)
  PROVE  \E n \in DOMAIN h : h[n].result = "recorded"
<1>1. /\ Finishing(0) \notin BrainCalls(Buyer)
      /\ Finishing(0) # Finishing(5) /\ Finishing(0) # Acking({"right"})
      /\ Finishing(0) # Call("list_participants") /\ Finishing(0) # Sending(QuoteRequest)
      /\ Finishing(0) # Call("claim_work")
  <2>1. Acking({"right"}) \in BrainCalls(Buyer) /\ Call("list_participants") \in BrainCalls(Buyer)
        /\ Sending(QuoteRequest) \in BrainCalls(Buyer) /\ Call("claim_work") \in BrainCalls(Buyer)
    BY DEF BrainCalls
  <2> QED BY <2>1, BrainTools, LastWords, Names
<1>2. CASE h # <<>> /\ h[Len(h)].result = "error"
  <2>1. h[Len(h)] \in Entries(Buyer)
    BY <1>2
  <2> QED BY <1>1, <1>2, <2>1 DEF Choice, Entries
<1>3. CASE ~(h # <<>> /\ h[Len(h)].result = "error")
  <2>1. BuyerBrain(h) = Finishing(0)
    BY <1>3 DEF Choice
  <2>2. SinceDelivery(h, "ack_work", "recorded")
    BY <1>1, <2>1 DEF BuyerBrain
  <2> QED BY <2>2 DEF SinceDelivery, Results
<1> QED BY <1>2, <1>3

\* A buyer that thinks is well afterwards.
LEMMA BuyerThinks ==
  ASSUME TownInv, [TownNext]_trackVars, Think(Buyer)
  PROVE  BuyerInv'
<1> DEFINE said == (Reporting("right") # {})'
           d == Executing(LoopAfter(Buyer), Said(Buyer), Freed(Buyer))
           l == LoopAfter(Buyer)
<1>1. /\ TownTypeOK /\ TypeOK /\ BuyerInv /\ Buyer \in Participants
      /\ Reporting("right") # {} => said
  BY Names, ReportsGrow DEF TownInv, FencingInv
<1>2. cast[Buyer] = "model" /\ cast' = cast /\ At(Buyer, "thinking")
  BY ThinkParts DEF given
<1>3. /\ Agrees(procs[Buyer], loops[Buyer]) /\ "applied" \notin procs[Buyer].note
      /\ procs[Buyer].answer = "recorded" => said
      /\ \A n \in DOMAIN loops[Buyer].history : loops[Buyer].history[n].result = "recorded" => said
  BY <1>1, <1>2 DEF BuyerInv, BuyerGood, At
<1> HIDE DEF said, d, l
<1>4. /\ DOMAIN loops = Participants /\ l \in Loop(Buyer)
      /\ l.call = Said(Buyer) /\ l.history = Conversation(Buyer)
  BY <1>1, <1>2, <1>3, LoopAfterTypes DEF TownTypeOK, l
<1>5. CASE \E code \in {6, 8} : Give(Buyer, code)
  <2>1. PICK code \in {6, 8} : Give(Buyer, code)
    BY <1>5
  <2>2. /\ Exited(Buyer, code).pc = "exited" /\ Exited(Buyer, code).code = code
        /\ Exited(Buyer, code).note = {}
    <3>1. code \in Codes
      BY DEF Codes
    <3> QED BY <1>1, <3>1, Fields, ZenonT(40)
  <2>3. loops'[Buyer] = NoLoop
    BY <1>1, <1>4, <2>1 DEF Give
  <2>4. DOMAIN NoLoop.history = {} /\ NoLoop.call = Call("begin") /\ Call("begin") \in LastCalls
    BY DEF NoLoop, LastCalls
  <2>5. BuyerGood(Exited(Buyer, code), NoLoop, said)
    BY <2>2, <2>4 DEF BuyerGood, Stands, Agrees, ModelPlaces
  <2> QED BY <1>1, <1>2, <2>1, <2>3, <2>5, BuyerMoves DEF Give, said
<1>6. CASE Move(Buyer, d) /\ loops' = [loops EXCEPT ![Buyer] = l]
  <2>1. ASSUME NEW n \in DOMAIN l.history, l.history[n].result = "recorded"
        PROVE  said
    <3>1. CASE l.history[n] = Entry(Buyer)
      <4>1. Entry(Buyer).result = Result(Buyer)
        BY DEF Entry
      <4>2. procs[Buyer].answer = "recorded"
        BY <2>1, <3>1, <4>1 DEF Result, Reported
      <4> QED BY <1>3, <4>2
    <3>2. CASE \E m \in DOMAIN loops[Buyer].history : l.history[n] = loops[Buyer].history[m]
      BY <1>3, <2>1, <3>2
    <3> QED BY <1>1, <1>2, <1>3, <1>4, <3>1, <3>2, ConversationOf
  <2>2. Conversation(Buyer) \in Seq(Entries(Buyer))
    BY <1>1, <1>2, <1>3, Hears
  <2>3. Said(Buyer) = Finishing(0) => said
    BY <1>4, <2>1, <2>2, EndsOnRecord DEF Said
  <2>4. Said(Buyer) \in BrainCalls(Buyer) \cup LastCalls
    BY <1>1, <1>2, <1>3, LoopAfterTypes DEF LastCalls
  <2>5. /\ Agrees(d, l) /\ d.pc \in {"thinking", "hinting", "sending", "acking", "exited"}
    BY <1>1, <1>2, <1>3, ThoughtAgrees DEF d, l
  <2>6. d.pc = "sending" => d.reply = QuoteRequest
    <3> HAVE d.pc = "sending"
    <3>1. Said(Buyer).tool = "send_work"
      BY <1>4, <2>5 DEF Agrees
    <3> QED BY <1>1, <1>2, <1>3, <2>4, <3>1, CallFields, ExecutingFields DEF d
  <2>7. "applied" \notin d.note
    <3>1. CASE Said(Buyer).tool = "finish"
      BY <1>1, <1>2, <1>3, <3>1, ExecutingFields DEF d
    <3>2. CASE Said(Buyer).tool # "finish" /\ d.pc # "acking"
      BY <1>1, <1>2, <1>3, <3>2, ExecutingFields DEF d
    <3>3. CASE d.pc = "acking"
      <4>1. Said(Buyer).tool = "ack_work"
        BY <1>4, <2>5, <3>3 DEF Agrees
      <4>2. d.note = Counted(l, Said(Buyer).note)
        BY <1>1, <1>2, <1>3, <3>3, <4>1, ExecutingFields DEF d, l
      <4>3. Said(Buyer).note = {"right"}
        BY <1>1, <2>4, <4>1, CallFields
      <4> QED BY <4>2, <4>3 DEF Counted
    <3> QED BY <3>1, <3>2, <3>3
  <2>8. d.pc = "thinking" => d.answer # "recorded"
    BY <1>1, <1>2, <1>3, ExecutingFields DEF d
  <2>9. d.pc = "exited" /\ d.code = 0 => said
    <3> HAVE d.pc = "exited" /\ d.code = 0
    <3>1. Said(Buyer).tool = "finish" /\ Said(Buyer).code = 0
      BY <1>1, <1>2, <1>3, ExecutingFields DEF d
    <3>2. Said(Buyer) = Finishing(0)
      BY <1>1, <2>4, <3>1, CallFields, LastWords
    <3> QED BY <2>3, <3>2
  <2>10. BuyerGood(d, l, said)
    BY <1>2, <2>1, <2>5, <2>6, <2>7, <2>8, <2>9 DEF BuyerGood, Stands, ModelPlaces
  <2>11. loops'[Buyer] = l
    BY <1>1, <1>4, <1>6
  <2> QED BY <1>1, <1>2, <1>6, <2>10, <2>11, BuyerMoves DEF said
<1> QED BY <1>5, <1>6, ThinkParts DEF d, l

\* Every step of the town keeps the buyer well.
LEMMA BuyerStep ==
  ASSUME TownInv, [TownNext]_trackVars
  PROVE  BuyerInv'
<1> USE DEF mailbox, memory, disk, control, kept, given
<1>1. /\ TownTypeOK /\ TypeOK /\ BuyerInv /\ Buyer \in Participants /\ Seller \in Participants
      /\ Buyer # Seller /\ Participants = {Buyer, Seller}
  BY Names DEF TownInv, FencingInv
<1>2. ASSUME NEW d, Move(Seller, d), cast' = cast, loops'[Buyer] = loops[Buyer]
      PROVE  BuyerInv'
  <2>1. procs'[Buyer] = procs[Buyer]
    BY <1>1, <1>2, Moved
  <2> QED BY <1>2, <2>1, BuyerUntouched
<1>3. ASSUME NEW d, Move(Buyer, d), cast' = cast, loops' = loops,
             BuyerGood(d, loops[Buyer], Reporting("right") # {})
      PROVE  BuyerInv'
  <2>1. Reporting("right") # {} => (Reporting("right") # {})'
    BY ReportsGrow
  <2>2. BuyerGood(d, loops'[Buyer], (Reporting("right") # {})')
    BY <1>3, <2>1 DEF BuyerGood
  <2> QED BY <1>1, <1>3, <2>2, BuyerMoves
<1>4. CASE Think(Buyer)
  BY <1>4, BuyerThinks
<1>5. CASE Think(Seller)
  <2>1. PICK d, l : Move(Seller, d) /\ loops' = [loops EXCEPT ![Seller] = l] /\ cast' = cast
    BY <1>5, ThinkParts DEF Give
  <2> QED BY <1>1, <1>2, <2>1 DEF TownTypeOK
<1>6. CASE AwaitHint(Buyer)
  <2>1. procs[Buyer] \in Process
    BY <1>1 DEF TownTypeOK
  <2> DEFINE d == [procs[Buyer] EXCEPT !.pc = "claiming"]
  <2>2. d.pc = "claiming" /\ d.note = procs[Buyer].note
    BY <2>1 DEF Process
  <2>3. Move(Buyer, d) /\ cast' = cast /\ loops' = loops /\ At(Buyer, "hinting")
    BY <1>6 DEF AwaitHint
  <2> HIDE DEF d
  <2>4. BuyerGood(d, loops[Buyer], Reporting("right") # {})
    BY <1>1, <2>2, <2>3 DEF BuyerInv, BuyerGood, Stands, Agrees, ModelPlaces, At
  <2> QED BY <1>3, <2>3, <2>4
<1>7. CASE AwaitHint(Seller)
  BY <1>2, <1>7 DEF AwaitHint
<1>8. CASE Participant(Buyer)
  BY <1>8, BuyerActs
<1>9. CASE Participant(Seller)
  <2>1. \E d : Move(Seller, d)
    BY <1>1, <1>9 DEF Participant, WaitForHint, ClaimWork, ClaimFoundNothing, OfferDuplicate, OfferRefused,
      SellerHandles, SellerRecalls, SellerApplies, SellerStalls, SellerWakes, MarkReported, BridgeHandles,
      BridgeRecalls, BridgeCompletes, SendNew, SendAgain, NoteSuppressed, AckLooksAtFault, DropAck,
      AckAccepted, AckRefused, Leave
  <2>2. UNCHANGED <<cast, loops>>
    BY <1>1, <1>9 DEF Participant, WaitForHint, ClaimWork, ClaimFoundNothing, OfferDuplicate, OfferRefused,
      SellerHandles, SellerStalls, SellerWakes, MarkReported, BridgeHandles, SendNew, SendAgain,
      NoteSuppressed, AckLooksAtFault, DropAck, AckAccepted, AckRefused, Leave
  <2> QED BY <1>2, <2>1, <2>2
<1>10. BuyerGood([Idle EXCEPT !.pc = "exited", !.code = 1], loops[Buyer], Reporting("right") # {})
  <2> DEFINE d == [Idle EXCEPT !.pc = "exited", !.code = 1]
  <2>1. d.pc = "exited" /\ d.code = 1 /\ d.note = {}
    BY DEF Idle
  <2> HIDE DEF d
  <2>2. BuyerGood(d, loops[Buyer], Reporting("right") # {})
    BY <1>1, <2>1 DEF BuyerInv, BuyerGood, Stands, Agrees, ModelPlaces
  <2> QED BY <2>2 DEF d
<1>11. cast[Buyer] # "model" => BuyerGood(Starting(Buyer), loops[Buyer], Reporting("right") # {})
  BY DEF Starting, Idle, BuyerGood, Stands
<1>12. BuyerGood(IF Remains(Buyer) THEN procs[Buyer] ELSE Exited(Buyer, 2),
                 loops[Buyer], Reporting("right") # {})
  <2>1. Exited(Buyer, 2).pc = "exited" /\ Exited(Buyer, 2).code = 2 /\ Exited(Buyer, 2).note = {}
    <3>1. 2 \in Codes
      BY DEF Codes
    <3> QED BY <1>1, <3>1, Fields, ZenonT(40)
  <2>2. BuyerGood(Exited(Buyer, 2), loops[Buyer], Reporting("right") # {})
    BY <1>1, <2>1 DEF BuyerInv, BuyerGood, Stands, Agrees, ModelPlaces
  <2> QED BY <1>1, <2>2 DEF BuyerInv
<1>13. CASE \E p \in Participants : Accident(p)
  <2>1. CASE Crash(Buyer)
    BY <1>3, <1>10, <2>1 DEF Crash
  <2>2. CASE Restart(Buyer)
    BY <1>3, <1>11, <2>2 DEF Restart, External
  <2>3. CASE Accident(Seller)
    BY <1>2, <2>3 DEF Accident, Crash, Restart, AgentFails
  <2> QED BY <1>1, <1>13, <2>1, <2>2, <2>3 DEF Accident
<1>14. CASE Runner
  <2>1. CASE EndWatch
    BY <1>3, <1>12, <2>1 DEF EndWatch, Stops
  <2>2. CASE SellerIsDone
    BY <2>2, BuyerUntouched DEF SellerIsDone
  <2>3. CASE RestartSeller \/ EndSettling
    BY <1>2, <2>3 DEF RestartSeller, EndSettling, Stops
  <2> QED BY <1>14, <2>1, <2>2, <2>3 DEF Runner
<1>15. CASE TimePasses \/ UNCHANGED trackVars
  BY <1>15, BuyerUntouched DEF TimePasses, trackVars
<1>16. CASE HandlerEnds
  BY <1>16, HandlerKeepsRows, BuyerUntouched
<1> QED
  BY <1>1, <1>4, <1>5, <1>6, <1>7, <1>8, <1>9, <1>13, <1>14, <1>15, <1>16 DEF TownNext

-----------------------------------------------------------------------------
(* The seller's brain.                                                     *)

\* A bounded set of positions has a last one.
LEMMA LastOf ==
  ASSUME NEW N \in Nat, NEW D \in SUBSET (1..N), D # {}
  PROVE  \E n \in D : \A m \in D : m <= n
<1> DEFINE T == {k \in Nat : N - k \in D}
<1>1. T \subseteq Nat /\ T # {}
  <2>1. PICK n \in D : TRUE
    OBVIOUS
  <2>2. N - n \in T
    BY <2>1
  <2> QED BY <2>2
<1>2. PICK k \in T : \A j \in T : ~(<<j, k>> \in OpToRel(<, Nat))
  BY <1>1, NatLessThanWellFounded, WFMin
<1>3. \A j \in T : ~(j < k)
  <2>1. \A j \in T : j < k => <<j, k>> \in OpToRel(<, Nat)
    BY <1>1 DEF OpToRel
  <2> QED BY <1>2, <2>1
<1>4. N - k \in D /\ \A m \in D : m <= N - k
  <2>1. ASSUME NEW m \in D PROVE m <= N - k
    <3>1. m \in Nat /\ N - m \in Nat /\ N - (N - m) = m
      BY <2>1
    <3>2. N - m \in T
      BY <3>1, <2>1
    <3>3. ~(N - m < k)
      BY <1>3, <3>2
    <3> QED BY <1>1, <3>1, <3>3
  <2> QED BY <2>1
<1> QED BY <1>4

\* A brain that knows what it reported reports nothing more.
LEMMA ReportsNoMore ==
  ASSUME NEW h \in Seq(Entries(Seller)), ErrsInnocently(h), Settles(h)
  PROVE  "applied" \notin Choice(Seller, h).note
<1>1. CASE h # <<>> /\ h[Len(h)].result = "error"
  BY <1>1 DEF Choice, ErrsInnocently
<1>2. CASE ~(h # <<>> /\ h[Len(h)].result = "error")
  <2>1. Choice(Seller, h) = SellerBrain(h)
    BY <1>2, Names DEF Choice
  <2>2. /\ Acking({"duplicate"}).note = {"duplicate"} /\ Sending(QuoteResponse).note = {}
        /\ Finishing(0).note = {} /\ Call("claim_work").note = {}
    BY DEF Acking, Sending, Finishing, Call
  <2>3. ASSUME Delivery(h) # {}, ~SinceDelivery(h, "ack_work", "recorded")
        PROVE  h[LastDelivery(h)].known
    <3>1. Len(h) \in Nat /\ Delivery(h) \in SUBSET (1..Len(h))
      BY DEF Delivery, Results
    <3>2. LastDelivery(h) \in Delivery(h)
      BY <2>3, <3>1, LastOf DEF LastDelivery
    <3>3. ~RecordedAfter(h, LastDelivery(h))
      BY <2>3 DEF SinceDelivery, RecordedAfter, Results
    <3> QED BY <3>2, <3>3 DEF Settles
  <2> QED BY <2>1, <2>2, <2>3 DEF SellerBrain
<1> QED BY <1>1, <1>2

-----------------------------------------------------------------------------
(* The seller.                                                             *)

\* A step that acknowledges nothing keeps what is settled.
LEMMA KeptWhen ==
  ASSUME TownInv, [TownNext]_trackVars, acks' = acks
  PROVE  Settled => Settled'
<1>1. ASSUME NEW p \in Participants, AckAccepted(p) PROVE FALSE
  <2>1. PICK r : acks' = Append(acks, r)
    BY <1>1 DEF AckAccepted, Ack
  <2>2. acks \in Seq(AckRow)
    BY DEF TownInv, FencingInv, TypeOK
  <2>3. Len(Append(acks, r)) = Len(acks) + 1 /\ Len(acks) \in Nat
    BY <2>2
  <2> QED BY <2>1, <2>3
<1> QED BY <1>1, TablesStep DEF Kept

\* A seller that moves well is well.
LEMMA SellerMoves ==
  ASSUME TownTypeOK, NEW d, Move(Seller, d), cast' = cast, fault' = fault,
         SellerGood(d, loops'[Seller], journal'[Seller], marker', applications',
                    Reporting("applied")', Settled')
  PROVE  SellerInv'
<1>1. procs'[Seller] = d
  BY Moved, Names
<1> QED BY <1>1 DEF SellerInv, SellerGood, SellerStands, SellerDoomed, JournalKnows, ReportedOnce,
  SellerLoop, Carrying, Stands, KeepsMark, CrashFault, Amnesiac, Scripted, Replies

\* What the others do is nothing to the seller.
LEMMA SellerUntouched ==
  ASSUME TownInv, [TownNext]_trackVars, cast' = cast, fault' = fault,
         procs'[Seller] = procs[Seller], loops'[Seller] = loops[Seller],
         journal'[Seller] = journal[Seller], marker' = marker, applications' = applications,
         Reporting("applied")' = Reporting("applied"), Settled => Settled'
  PROVE  SellerInv'
<1>1. SellerInv
  BY DEF TownInv
<1> QED BY <1>1 DEF SellerInv, SellerGood, SellerStands, SellerDoomed, JournalKnows, ReportedOnce,
  SellerLoop, Carrying, Stands, KeepsMark, CrashFault, Amnesiac, Scripted, Replies

\* Nor does a step that acknowledges nothing change what the seller reported.
LEMMA SellerActs ==
  ASSUME TownInv, [TownNext]_trackVars, acks' = acks, NEW d, Move(Seller, d),
         cast' = cast, fault' = fault, loops' = loops,
         SellerGood(d, loops[Seller], journal'[Seller], marker', applications',
                    Reporting("applied"), Settled)
  PROVE  SellerInv'
<1>1. Reporting("applied")' = Reporting("applied")
  BY DEF Reporting
<1>2. Settled => Settled'
  BY KeptWhen
<1>3. SellerGood(d, loops'[Seller], journal'[Seller], marker', applications', Reporting("applied")', Settled')
  BY <1>1, <1>2 DEF SellerGood, ReportedOnce
<1> QED BY <1>3, SellerMoves DEF TownInv

\* The stock seller on its work: what its journal knows it does not apply again.
LEMMA SellerWorks ==
  ASSUME TownInv, [TownNext]_trackVars, SellerHandles
  PROVE  SellerInv'
<1> USE DEF mailbox, memory, disk, control, kept, given
<1> DEFINE old == procs[Seller]
           l == loops[Seller]
           j == journal[Seller]
           R == Reporting("applied")
           dying == Amnesiac /\ ~marker
<1>1. /\ TownTypeOK /\ Seller \in Participants /\ old \in Process
      /\ SellerGood(old, l, j, marker, applications, R, Settled)
      /\ j \in SUBSET JournalEntry /\ applications \in Nat /\ marker \in BOOLEAN
  BY Names DEF TownInv, TownTypeOK, SellerInv
<1>2. /\ acks' = acks /\ cast' = cast /\ fault' = fault /\ loops' = loops
      /\ old.pc = "handling" /\ cast[Seller] \in {"stock", "outside"}
      /\ marker \/ ~Scripted("crash_after_claim")
      /\ marker' = (marker \/ dying)
      /\ SellerRecalls(dying) \/ SellerApplies(dying)
  BY DEF SellerHandles, At, KeepsMark
<1>3. Entering(Seller, "sending") \in Process /\ Entering(Seller, "sending").status = old.status
  <2>1. "sending" \in Places
    BY DEF Places, ModelPlaces
  <2> QED BY <1>1, <2>1, GoTypes, Fields
<1> HIDE DEF old, l, j, R, dying
<1>4. old.message = QuoteRequest /\ old.status # "retryable"
  BY <1>1, <1>2 DEF SellerGood, SellerStands, SellerDoomed
<1>5. CASE SellerRecalls(dying)
  <2>1. PICK e \in Remembered(Seller) :
          /\ Move(Seller, [Entering(Seller, "sending") EXCEPT
                       !.reply = e.reply, !.dying = dying,
                       !.note = {"duplicate"} \cup
                                (IF Reports(e, procs[Seller].duplicate) THEN {"applied"} ELSE {})])
          /\ journal' = [journal EXCEPT ![Seller] =
                           (@ \ {e}) \cup {[e EXCEPT !.unreported = @ /\ ~procs[Seller].duplicate]}]
          /\ applications' = applications
    BY <1>5 DEF SellerRecalls
  <2> DEFINE d == [Entering(Seller, "sending") EXCEPT
                     !.reply = e.reply, !.dying = dying,
                     !.note = {"duplicate"} \cup
                              (IF Reports(e, procs[Seller].duplicate) THEN {"applied"} ELSE {})]
             e2 == [e EXCEPT !.unreported = @ /\ ~procs[Seller].duplicate]
  <2>2. e \in j /\ e \in JournalEntry
    BY <1>1 DEF Remembered, j
  <2>3. e2.message = e.message /\ e2.reply = e.reply
    BY <2>2 DEF JournalEntry
  <2>4. /\ d.pc = "sending" /\ d.reply = e.reply /\ d.dying = dying /\ d.status = old.status
        /\ "applied" \in d.note => ~old.duplicate
    BY <1>1, <1>3 DEF Process, Reports, old, Entering
  <2> HIDE DEF d, e2
  <2>5. journal'[Seller] = (j \ {e}) \cup {e2}
    BY <1>1, <2>1 DEF TownTypeOK, j, e2
  <2>6. ~dying /\ marker' = marker
    BY <1>1, <1>2, <2>2 DEF dying, SellerGood, SellerDoomed, CrashFault
  <2>7. SellerStands(d, journal'[Seller], marker')
    BY <1>1, <1>2, <2>2, <2>3, <2>4, <2>5 DEF SellerGood, SellerStands, Stands, ModelPlaces
  <2>8. SellerDoomed(d, journal'[Seller], marker', applications', R)
    BY <1>1, <1>2, <1>4, <2>1, <2>2, <2>4, <2>6 DEF SellerGood, SellerDoomed
  <2>9. JournalKnows(d, journal'[Seller], applications')
    BY <1>1, <2>1, <2>4, <2>5, <2>6 DEF SellerGood, JournalKnows
  <2>10. ReportedOnce(d, journal'[Seller], R, Settled)
    BY <1>1, <1>2, <2>4, <2>5 DEF SellerGood, ReportedOnce, Carrying
  <2>11. SellerLoop(d, l, R)
    BY <1>2 DEF SellerLoop
  <2>12. Move(Seller, d)
    BY <2>1 DEF d
  <2> QED BY <1>2, <2>7, <2>8, <2>9, <2>10, <2>11, <2>12, SellerActs DEF SellerGood, l, R
<1>6. CASE SellerApplies(dying)
  <2>1. PICK id \in ResponseIds :
          /\ Move(Seller, [Entering(Seller, "sending") EXCEPT
                             !.reply = id, !.note = {"applied"}, !.dying = dying])
          /\ journal' = [journal EXCEPT ![Seller] =
               @ \cup {[message |-> procs[Seller].message, reply |-> id, unreported |-> TRUE]}]
    BY <1>6 DEF SellerApplies
  <2> DEFINE d == [Entering(Seller, "sending") EXCEPT !.reply = id, !.note = {"applied"}, !.dying = dying]
             e == [message |-> procs[Seller].message, reply |-> id, unreported |-> TRUE]
  <2>2. /\ d.pc = "sending" /\ d.reply = id /\ d.dying = dying /\ d.status = old.status
        /\ d.note = {"applied"}
    BY <1>1, <1>3 DEF Process, old, Entering
  <2>3. e.message = QuoteRequest /\ e.reply = id /\ id \in Replies
    BY <1>4, <2>1 DEF old, ResponseIds, Replies, Scripted
  <2>4. applications' = applications + 1
    BY <1>6 DEF SellerApplies
  <2>5. j = {}
    <3>1. Remembered(Seller) = {}
      BY <1>6 DEF SellerApplies
    <3>2. \A e1 \in j : e1.message = QuoteRequest
      BY <1>1 DEF SellerGood, SellerStands
    <3> QED BY <1>4, <3>1, <3>2 DEF Remembered, j, old
  <2> HIDE DEF d, e
  <2>6. journal'[Seller] = {e}
    BY <1>1, <2>1, <2>5 DEF TownTypeOK, j, e
  <2>7. R = {}
    BY <1>1, <1>2, <2>5 DEF SellerGood, ReportedOnce
  <2>8. /\ dying => applications = 0 /\ Amnesiac /\ cast[Seller] = "stock" /\ marker'
        /\ CrashFault => marker'
        /\ Amnesiac => applications <= 1
        /\ ~Amnesiac => applications = 0
    <3>1. dying => applications = 0
      BY <1>1 DEF dying, SellerGood, SellerDoomed, CrashFault
    <3>2. dying => Amnesiac /\ cast[Seller] = "stock" /\ marker'
      BY <1>2 DEF dying, Amnesiac, Scripted
    <3>3. CrashFault => marker'
      BY <1>2 DEF dying, CrashFault
    <3>4. /\ Amnesiac => applications <= 2 /\ applications # 2
          /\ ~Amnesiac => applications <= 1 /\ applications # 1
      BY <1>1, <2>5 DEF SellerGood, JournalKnows
    <3> QED BY <1>1, <3>1, <3>2, <3>3, <3>4
  <2>9. SellerStands(d, journal'[Seller], marker')
    BY <1>1, <1>2, <2>2, <2>3, <2>6 DEF SellerGood, SellerStands, Stands, ModelPlaces
  <2>10. SellerDoomed(d, journal'[Seller], marker', applications', R)
    BY <1>4, <2>2, <2>8 DEF SellerDoomed
  <2>11. JournalKnows(d, journal'[Seller], applications')
    BY <1>1, <2>2, <2>4, <2>6, <2>8 DEF JournalKnows
  <2>12. ReportedOnce(d, journal'[Seller], R, Settled)
    BY <2>2, <2>6, <2>7 DEF ReportedOnce
  <2>13. SellerLoop(d, l, R)
    BY <1>2 DEF SellerLoop
  <2>14. Move(Seller, d)
    BY <2>1 DEF d
  <2> QED BY <1>2, <2>9, <2>10, <2>11, <2>12, <2>13, <2>14, SellerActs DEF SellerGood, l, R
<1> QED BY <1>2, <1>5, <1>6

\* The stock seller that a scripted crash meets, and one that marks its report.
LEMMA SellerCrashesAndMarks ==
  ASSUME TownInv, [TownNext]_trackVars, SellerStalls \/ SellerWakes \/ MarkReported
  PROVE  SellerInv'
<1> USE DEF mailbox, memory, disk, control, kept, given
<1> DEFINE old == procs[Seller]
           l == loops[Seller]
           j == journal[Seller]
           R == Reporting("applied")
<1>1. /\ TownTypeOK /\ Seller \in Participants /\ old \in Process
      /\ SellerGood(old, l, j, marker, applications, R, Settled)
      /\ j \in SUBSET JournalEntry
  BY Names DEF TownInv, TownTypeOK, SellerInv
<1>2. acks' = acks /\ cast' = cast /\ fault' = fault /\ loops' = loops /\ applications' = applications
  BY DEF SellerStalls, SellerWakes, MarkReported
<1> HIDE DEF old, l, j, R
<1>3. CASE SellerStalls
  <2> DEFINE d == [Entering(Seller, "stalled") EXCEPT !.since = clock]
  <2>1. /\ Move(Seller, d) /\ journal' = journal /\ marker' = TRUE /\ ~marker
        /\ Scripted("crash_after_claim") /\ old.pc = "handling" /\ cast[Seller] = "stock"
    BY <1>3 DEF SellerStalls, At, old, Scripted
  <2>2. d.pc = "stalled" /\ d.note = old.note /\ d.status = old.status /\ d.dying = old.dying
    BY <1>1 DEF Process, Entering, old
  <2> HIDE DEF d
  <2>3. R = {} /\ j = {} /\ old.note = {} /\ ~old.dying /\ old.status # "retryable"
    BY <1>1, <2>1 DEF SellerGood, SellerDoomed, SellerStands, CrashFault
  <2>4. SellerStands(d, j, TRUE)
    BY <1>1, <2>1, <2>2 DEF SellerGood, SellerStands, Stands, ModelPlaces
  <2>5. SellerDoomed(d, j, TRUE, applications, R)
    BY <2>2, <2>3 DEF SellerDoomed
  <2>6. JournalKnows(d, j, applications)
    BY <1>1, <2>2, <2>3 DEF SellerGood, JournalKnows
  <2>7. ReportedOnce(d, j, R, Settled) /\ SellerLoop(d, l, R)
    BY <2>1, <2>2, <2>3 DEF ReportedOnce, Carrying, SellerLoop
  <2> QED BY <1>2, <2>1, <2>4, <2>5, <2>6, <2>7, SellerActs DEF SellerGood, l, R, j
<1>4. CASE SellerWakes
  <2> DEFINE d == [Entering(Seller, "acking") EXCEPT !.note = {"applied"}, !.dying = TRUE]
  <2>1. /\ Move(Seller, d) /\ journal' = journal /\ marker' = marker /\ old.pc = "stalled"
    BY <1>4 DEF SellerWakes, At, old
  <2>2. d.pc = "acking" /\ d.note = {"applied"} /\ d.status = old.status /\ d.dying
    BY <1>1 DEF Process, Entering, old
  <2> HIDE DEF d
  <2>3. R = {} /\ old.status # "retryable" /\ Scripted("crash_after_claim") /\ marker
    BY <1>1, <2>1 DEF SellerGood, SellerDoomed, SellerStands, ReportedOnce
  <2>4. cast[Seller] = "stock" /\ ~Amnesiac
    BY <2>3 DEF Scripted, Amnesiac
  <2>5. SellerStands(d, j, marker)
    BY <1>1, <2>2, <2>4 DEF SellerGood, SellerStands, Stands, ModelPlaces
  <2>6. SellerDoomed(d, j, marker, applications, R)
    BY <2>2, <2>3, <2>4 DEF SellerDoomed
  <2>7. JournalKnows(d, j, applications)
    BY <1>1, <2>4 DEF SellerGood, JournalKnows
  <2>8. ReportedOnce(d, j, R, Settled) /\ SellerLoop(d, l, R)
    BY <2>2, <2>3, <2>4 DEF ReportedOnce, Carrying, SellerLoop
  <2> QED BY <1>2, <2>1, <2>5, <2>6, <2>7, <2>8, SellerActs DEF SellerGood, l, R, j
<1>5. CASE MarkReported
  <2> DEFINE j2 == {[e EXCEPT !.unreported = @ /\ e.message # procs[Seller].message] : e \in j}
  <2>1. /\ Move(Seller, Resting(Seller)) /\ marker' = marker /\ old.pc = "accepted"
        /\ journal'[Seller] = j2
    BY <1>1, <1>5 DEF MarkReported, At, old, j, TownTypeOK
  <2>2. /\ \A e \in j2 : \E e1 \in j : e.message = e1.message /\ e.reply = e1.reply
        /\ j2 = {} <=> j = {}
    BY <1>1 DEF JournalEntry
  <2> HIDE DEF j2
  <2> DEFINE d == Resting(Seller)
  <2>3. d.pc = "idle" /\ d.note = {} /\ d.status = "processed" /\ d.dying = FALSE
    BY <1>1, Fields
  <2> HIDE DEF d
  <2>4. KeepsMark(Seller)
    BY <1>1, <2>1 DEF SellerGood, SellerStands
  <2>5. SellerStands(d, j2, marker)
    BY <1>1, <2>2, <2>3, <2>4 DEF SellerGood, SellerStands, Stands, ModelPlaces, KeepsMark
  <2>6. SellerDoomed(d, j2, marker, applications, R)
    BY <1>1, <2>2, <2>3 DEF SellerGood, SellerDoomed
  <2>7. JournalKnows(d, j2, applications)
    BY <1>1, <2>2, <2>3 DEF SellerGood, JournalKnows
  <2>8. ReportedOnce(d, j2, R, Settled) /\ SellerLoop(d, l, R)
    BY <1>1, <2>1, <2>2, <2>3, <2>4 DEF SellerGood, ReportedOnce, Carrying, SellerLoop, KeepsMark
  <2>9. Move(Seller, d)
    BY <2>1 DEF d
  <2> QED BY <1>2, <2>1, <2>5, <2>6, <2>7, <2>8, <2>9, SellerActs DEF SellerGood, l, R
<1> QED BY <1>3, <1>4, <1>5

\* The bridge and the agent behind it.
LEMMA BridgeWorks ==
  ASSUME TownInv, [TownNext]_trackVars, BridgeHandles \/ AgentFails
  PROVE  SellerInv'
<1> USE DEF mailbox, memory, disk, control, kept, given
<1> DEFINE old == procs[Seller]
           l == loops[Seller]
           j == journal[Seller]
           R == Reporting("applied")
<1>1. /\ TownTypeOK /\ Seller \in Participants /\ old \in Process
      /\ SellerGood(old, l, j, marker, applications, R, Settled)
      /\ applications \in Nat
  BY Names DEF TownInv, TownTypeOK, SellerInv
<1>2. /\ acks' = acks /\ cast' = cast /\ fault' = fault /\ loops' = loops /\ marker' = marker
      /\ old.pc = "handling" /\ cast[Seller] = "bridge"
  BY DEF BridgeHandles, AgentFails, At
<1> HIDE DEF old, l, j, R
<1>3. /\ old.message = QuoteRequest /\ old.status # "retryable" /\ old.note = {} /\ ~old.dying
      /\ ~CrashFault /\ ~Amnesiac
      /\ \A e \in j : e.message = QuoteRequest
  BY <1>1, <1>2 DEF SellerGood, SellerStands, SellerDoomed, CrashFault, Amnesiac, Scripted
<1>4. Remembered(Seller) = {} => j = {} /\ R = {}
  <2>1. Remembered(Seller) = {} => j = {}
    BY <1>3 DEF Remembered, j, old
  <2> QED BY <1>1, <1>2, <2>1 DEF SellerGood, ReportedOnce
<1>5. \A d : SellerLoop(d, l, R)
  BY <1>2 DEF SellerLoop
<1>6. CASE BridgeRecalls
  <2>1. PICK e \in Remembered(Seller) :
          Move(Seller, [Entering(Seller, "sending") EXCEPT !.reply = e.reply, !.note = {"duplicate"}])
    BY <1>6 DEF BridgeRecalls
  <2> DEFINE d == [Entering(Seller, "sending") EXCEPT !.reply = e.reply, !.note = {"duplicate"}]
  <2>2. /\ d.pc = "sending" /\ d.reply = e.reply /\ d.note = {"duplicate"} /\ d.status = old.status
        /\ d.dying = old.dying
    BY <1>1 DEF Process, Entering, old
  <2>3. e \in j /\ journal' = journal /\ applications' = applications
    BY <1>6 DEF Remembered, j, BridgeRecalls
  <2> HIDE DEF d
  <2>4. SellerStands(d, j, marker)
    BY <1>1, <1>2, <2>2, <2>3 DEF SellerGood, SellerStands, Stands, ModelPlaces
  <2>5. SellerDoomed(d, j, marker, applications, R)
    BY <1>3, <2>2 DEF SellerDoomed
  <2>6. JournalKnows(d, j, applications)
    BY <1>1, <1>3 DEF SellerGood, JournalKnows
  <2>7. ReportedOnce(d, j, R, Settled)
    BY <1>1, <1>2, <2>2, <2>3 DEF SellerGood, ReportedOnce, Carrying
  <2>8. Move(Seller, d)
    BY <2>1 DEF d
  <2> QED BY <1>2, <1>5, <2>3, <2>4, <2>5, <2>6, <2>7, <2>8, SellerActs DEF SellerGood, l, R, j
<1>7. CASE BridgeCompletes
  <2> DEFINE d == [Entering(Seller, "sending") EXCEPT !.reply = QuoteResponse, !.note = {"applied"}]
             e == [message |-> procs[Seller].message, reply |-> QuoteResponse, unreported |-> FALSE]
  <2>1. /\ d.pc = "sending" /\ d.reply = QuoteResponse /\ d.note = {"applied"} /\ d.status = old.status
        /\ d.dying = old.dying
    BY <1>1 DEF Process, Entering, old
  <2>2. e.message = QuoteRequest /\ e.reply = QuoteResponse /\ QuoteResponse \in Replies
    BY <1>3 DEF old, Replies
  <2>3. Move(Seller, d) /\ applications' = applications + 1 /\ Remembered(Seller) = {}
    BY <1>7 DEF BridgeCompletes
  <2>4. journal'[Seller] = {e}
    BY <1>1, <1>4, <1>7, <2>3 DEF BridgeCompletes, TownTypeOK, j
  <2> HIDE DEF d, e
  <2>5. SellerStands(d, {e}, marker)
    BY <1>1, <1>2, <2>1, <2>2 DEF SellerGood, SellerStands, Stands, ModelPlaces
  <2>6. SellerDoomed(d, {e}, marker, applications + 1, R)
    BY <1>3, <2>1 DEF SellerDoomed
  <2>7. JournalKnows(d, {e}, applications + 1)
    <3>1. applications = 0
      BY <1>1, <1>3, <1>4, <2>3 DEF SellerGood, JournalKnows
    <3> QED BY <1>3, <3>1 DEF JournalKnows
  <2>8. ReportedOnce(d, {e}, R, Settled)
    BY <1>4, <2>1, <2>3 DEF ReportedOnce
  <2> QED BY <1>2, <1>5, <2>3, <2>4, <2>5, <2>6, <2>7, <2>8, SellerActs DEF SellerGood, l, R
<1>8. CASE AgentFails
  <2>1. /\ journal' = journal /\ applications' = applications /\ j = {} /\ R = {}
    BY <1>4, <1>8 DEF AgentFails
  <2>2. CASE Move(Seller, Exited(Seller, 1))
    <3> DEFINE d == Exited(Seller, 1)
    <3>1. d.pc = "exited" /\ d.code = 1 /\ d.note = {} /\ d.dying = FALSE /\ d.status = "processed"
      <4>1. 1 \in Codes
        BY DEF Codes
      <4> QED BY <1>1, <4>1, Fields, ZenonT(40)
    <3> HIDE DEF d
    <3>2. SellerStands(d, j, marker)
      BY <1>1, <1>2, <3>1 DEF SellerGood, SellerStands, Stands, ModelPlaces
    <3>3. SellerDoomed(d, j, marker, applications, R) /\ JournalKnows(d, j, applications)
      BY <1>1, <1>3, <3>1 DEF SellerGood, SellerDoomed, JournalKnows
    <3>4. ReportedOnce(d, j, R, Settled)
      BY <2>1, <3>1 DEF ReportedOnce, Carrying
    <3>5. Move(Seller, d)
      BY <2>2 DEF d
    <3> QED BY <1>2, <1>5, <2>1, <3>2, <3>3, <3>4, <3>5, SellerActs DEF SellerGood, l, R, j
  <2>3. CASE Move(Seller, [Entering(Seller, "acking") EXCEPT !.status = "retryable"])
    <3> DEFINE d == [Entering(Seller, "acking") EXCEPT !.status = "retryable"]
    <3>1. d.pc = "acking" /\ d.note = old.note /\ d.dying = old.dying
      BY <1>1 DEF Process, Entering, old
    <3> HIDE DEF d
    <3>2. SellerStands(d, j, marker)
      BY <1>1, <1>2, <3>1 DEF SellerGood, SellerStands, Stands, ModelPlaces
    <3>3. SellerDoomed(d, j, marker, applications, R) /\ JournalKnows(d, j, applications)
      BY <1>1, <1>2, <1>3, <2>1, <3>1 DEF SellerGood, SellerDoomed, JournalKnows
    <3>4. ReportedOnce(d, j, R, Settled)
      BY <1>3, <2>1, <3>1 DEF ReportedOnce, Carrying
    <3>5. Move(Seller, d)
      BY <2>3 DEF d
    <3> QED BY <1>2, <1>5, <2>1, <3>2, <3>3, <3>4, <3>5, SellerActs DEF SellerGood, l, R, j
  <2> QED BY <1>8, <2>2, <2>3 DEF AgentFails
<1> QED BY <1>6, <1>7, <1>8 DEF BridgeHandles

\* What a claim delivers to the seller is the buyer's request, and it is not settled.
LEMMA SellerReceives ==
  ASSUME TownInv, NEW now \in Nat, ClaimNext(Seller, now)
  PROVE  claims'[Len(claims')].message = QuoteRequest /\ ~Settled
<1>1. PICK i \in Oldest(Waiting(Seller, now)) :
        claims' = Append(ClaimsAfterExpiry(now), NewClaim(Seller, i, now))
  BY DEF ClaimNext
<1>2. i \in DOMAIN messages /\ messages[i].to = Seller /\ MessagesAfterExpiry(now)[i].status = "accepted"
  BY DEF Oldest, Waiting
<1>3. i = QuoteRequest
  BY <1>2 DEF TownInv, Letters
<1>4. messages[i].status # "done"
  BY <1>2, ExpiryFields DEF TownInv, FencingInv
<1>5. TypeOK
  BY DEF TownInv, FencingInv
<1>6. ClaimsAfterExpiry(now) \in Seq(Claim)
  BY <1>5, ExpiryTypes
<1>7. claims'[Len(claims')] = NewClaim(Seller, i, now)
  BY <1>1, <1>6
<1> QED BY <1>3, <1>4, <1>7 DEF NewClaim, Settled

\* A duplicate offer delivers it again.
LEMMA SellerIsOffered ==
  ASSUME TownInv, NEW i, NEW now, Reoffer(Seller, i, now)
  PROVE  claims'[Len(claims')].message = QuoteRequest
<1>1. i \in DOMAIN messages /\ messages[i].to = Seller
      /\ claims' = Append(claims, NewClaim(Seller, i, now))
  BY DEF Reoffer, Reofferable
<1>2. claims \in Seq(Claim)
  BY DEF TownInv, FencingInv, TypeOK
<1>3. claims'[Len(claims')] = NewClaim(Seller, i, now)
  BY <1>1, <1>2
<1> QED BY <1>1, <1>3 DEF NewClaim, TownInv, Letters

\* The seller waits for work, and gets some or none.
LEMMA SellerClaims ==
  ASSUME TownInv, [TownNext]_trackVars,
         \/ WaitForHint(Seller) \/ AwaitHint(Seller) \/ ClaimWork(Seller) \/ ClaimFoundNothing(Seller)
         \/ OfferDuplicate(Seller) \/ OfferRefused(Seller) \/ Leave(Seller)
  PROVE  SellerInv'
<1> USE DEF mailbox, memory, disk, control, kept, given
<1> DEFINE old == procs[Seller]
           l == loops[Seller]
           j == journal[Seller]
           R == Reporting("applied")
<1>1. /\ TownTypeOK /\ Seller \in Participants /\ old \in Process
      /\ SellerGood(old, l, j, marker, applications, R, Settled)
      /\ Sampled \subseteq Nat
  BY Names DEF TownInv, TownTypeOK, SellerInv, Sampled
<1>2. /\ acks' = acks /\ cast' = cast /\ fault' = fault /\ loops' = loops /\ marker' = marker
      /\ journal' = journal /\ applications' = applications
      /\ old.pc \in {"idle", "hinting", "claiming", "reoffering"}
      /\ cast[Seller] = "model" \/ old.pc # "hinting"
  BY DEF WaitForHint, AwaitHint, ClaimWork, ClaimFoundNothing, OfferDuplicate, OfferRefused, Leave, At,
    Notify, PopNotify, ClaimNext, ClaimNothing, Reoffer, Models
<1> HIDE DEF old, l, j, R
<1>3. /\ old.status # "retryable" /\ ~old.dying /\ Stands(Seller, old)
      /\ cast[Seller] # "model" => old.note = {}
      /\ R # {} => j # {} /\ Settled
  BY <1>1, <1>2 DEF SellerGood, SellerStands, SellerDoomed, ReportedOnce
<1>4. cast[Seller] = "model" =>
        /\ l.call = Call("claim_work") /\ ~l.stashed
        /\ R # {} => KnowsReported(l)
        /\ old.pc # "idle"
  BY <1>1, <1>2, <1>3 DEF SellerGood, SellerLoop, Agrees, Stands, ModelPlaces
<1>5. Call("claim_work") \notin LastCalls /\ Call("begin") \in LastCalls
  BY DEF LastCalls, Call, Finishing
<1>6. ASSUME NEW d, Move(Seller, d), d.status # "retryable", ~d.dying, d.note \in {old.note, {}},
             IF cast[Seller] = "model"
             THEN \/ d.pc \in {"claiming", "reoffering"}
                  \/ /\ d.pc = "thinking" /\ d.answer \in {"work", "no work"}
                     /\ d.answer = "work" => d.message = QuoteRequest
             ELSE \/ d.pc \in {"idle", "claiming", "reoffering"}
                  \/ d.pc = "handling" /\ d.message = QuoteRequest /\ (~d.duplicate => R = {})
                  \/ d.pc = "exited" /\ d.code = 0
      PROVE  SellerInv'
  <2>1. SellerStands(d, j, marker)
    <3>1. CASE cast[Seller] = "model"
      <4>1. d.pc \in {"claiming", "reoffering", "thinking"}
        BY <1>6, <3>1
      <4> QED BY <1>1, <3>1, <4>1 DEF SellerGood, SellerStands, Stands, ModelPlaces
    <3>2. CASE cast[Seller] # "model"
      <4>1. /\ d.pc \in {"idle", "claiming", "reoffering", "handling", "exited"} /\ d.note = {}
            /\ d.pc = "handling" => d.message = QuoteRequest
            /\ d.pc = "exited" => d.code = 0
        BY <1>3, <1>6, <3>2
      <4> QED BY <1>1, <1>6, <3>2, <4>1 DEF SellerGood, SellerStands, Stands
    <3> QED BY <3>1, <3>2
  <2>2. SellerDoomed(d, j, marker, applications, R)
    BY <1>1, <1>6 DEF SellerGood, SellerDoomed
  <2>3. JournalKnows(d, j, applications)
    BY <1>1, <1>6 DEF SellerGood, JournalKnows
  <2>4. ReportedOnce(d, j, R, Settled)
    BY <1>1, <1>3, <1>6 DEF SellerGood, ReportedOnce, Carrying
  <2>5. SellerLoop(d, l, R)
    BY <1>4, <1>5, <1>6 DEF SellerLoop, Agrees
  <2> QED BY <1>2, <1>6, <2>1, <2>2, <2>3, <2>4, <2>5, SellerActs DEF SellerGood, l, R, j
<1>7. \A pc \in Places :
        /\ Entering(Seller, pc).pc = pc /\ Entering(Seller, pc).note = old.note
        /\ Entering(Seller, pc).status = old.status /\ Entering(Seller, pc).dying = old.dying
  BY <1>1, Fields, ZenonT(40) DEF old
<1>8. "claiming" \in Places /\ "no work" \in Answers
  BY DEF Places, ModelPlaces, Answers
<1>9. CASE WaitForHint(Seller)
  <2> DEFINE d == Entering(Seller, "claiming")
  <2>1. d.pc = "claiming" /\ d.note = old.note /\ d.status = old.status /\ d.dying = old.dying
    BY <1>7, <1>8
  <2>2. Move(Seller, d)
    BY <1>9 DEF WaitForHint
  <2> HIDE DEF d
  <2> QED BY <1>3, <1>6, <2>1, <2>2
<1>10. CASE AwaitHint(Seller)
  <2> DEFINE d == [procs[Seller] EXCEPT !.pc = "claiming"]
  <2>1. d.pc = "claiming" /\ d.note = old.note /\ d.status = old.status /\ d.dying = old.dying
    BY <1>1 DEF Process, old
  <2>2. Move(Seller, d)
    BY <1>10 DEF AwaitHint
  <2> HIDE DEF d
  <2> QED BY <1>3, <1>6, <2>1, <2>2
<1>11. ASSUME NEW duplicate \in BOOLEAN, Move(Seller, Delivered(Seller, duplicate)),
              claims'[Len(claims')].message = QuoteRequest, ~duplicate => ~Settled
       PROVE  SellerInv'
  <2> DEFINE d == Delivered(Seller, duplicate)
  <2>1. /\ d.pc = IF cast[Seller] = "model" THEN "thinking" ELSE "handling"
        /\ d.answer = "work" /\ d.duplicate = duplicate /\ d.message = QuoteRequest
        /\ d.note = old.note /\ d.status = old.status /\ d.dying = old.dying
    BY <1>1, <1>11, DeliveredFields DEF old
  <2>2. Move(Seller, d)
    BY <1>11
  <2> HIDE DEF d
  <2> QED BY <1>3, <1>6, <1>11, <2>1, <2>2
<1>12. CASE ClaimWork(Seller)
  <2>1. PICK now \in Sampled : ClaimNext(Seller, now)
    BY <1>12 DEF ClaimWork
  <2>2. claims'[Len(claims')].message = QuoteRequest /\ ~Settled
    BY <1>1, <2>1, SellerReceives
  <2>3. Move(Seller, Delivered(Seller, FALSE))
    BY <1>12 DEF ClaimWork
  <2> QED BY <1>11, <2>2, <2>3
<1>13. CASE OfferDuplicate(Seller)
  <2>1. claims'[Len(claims')].message = QuoteRequest
    BY <1>13, SellerIsOffered DEF OfferDuplicate
  <2>2. Move(Seller, Delivered(Seller, TRUE))
    BY <1>13 DEF OfferDuplicate
  <2> QED BY <1>11, <2>1, <2>2
<1>14. ASSUME Move(Seller, Told(Seller, "no work"))
       PROVE  SellerInv'
  <2> DEFINE d == Told(Seller, "no work")
  <2>1. CASE cast[Seller] = "model"
    <3>1. /\ d.pc = "thinking" /\ d.answer = "no work" /\ d.note = old.note /\ d.status = old.status
          /\ d.dying = old.dying
      BY <1>1, <1>8, <2>1, Fields, ZenonT(40) DEF old
    <3>2. Move(Seller, d)
      BY <1>14
    <3> HIDE DEF d
    <3> QED BY <1>3, <1>6, <2>1, <3>1, <3>2
  <2>2. CASE cast[Seller] # "model"
    <3>1. d.pc = "idle" /\ d.note = {} /\ d.status = "processed" /\ d.dying = FALSE
      <4>1. d = Resting(Seller)
        BY <1>1, <1>8, <2>2, Fields
      <4>2. /\ Resting(Seller).pc = "idle" /\ Resting(Seller).note = {}
            /\ Resting(Seller).status = "processed" /\ Resting(Seller).dying = FALSE
        BY <1>1, Fields
      <4> QED BY <4>1, <4>2
    <3>2. Move(Seller, d)
      BY <1>14
    <3> HIDE DEF d
    <3> QED BY <1>3, <1>6, <2>2, <3>1, <3>2
  <2> QED BY <2>1, <2>2
<1>15. CASE ClaimFoundNothing(Seller)
  <2>1. PICK now \in Sampled :
          Move(Seller, IF MayOffer THEN [procs[Seller] EXCEPT !.pc = "reoffering", !.since = now]
                       ELSE Told(Seller, "no work"))
    BY <1>15 DEF ClaimFoundNothing
  <2>2. CASE MayOffer
    <3> DEFINE d == [procs[Seller] EXCEPT !.pc = "reoffering", !.since = now]
    <3>1. d.pc = "reoffering" /\ d.note = old.note /\ d.status = old.status /\ d.dying = old.dying
      BY <1>1 DEF Process, old
    <3>2. Move(Seller, d)
      BY <2>1, <2>2
    <3> HIDE DEF d
    <3> QED BY <1>3, <1>6, <3>1, <3>2
  <2>3. CASE ~MayOffer
    BY <1>14, <2>1, <2>3
  <2> QED BY <2>2, <2>3
<1>16. CASE OfferRefused(Seller)
  BY <1>14, <1>16 DEF OfferRefused
<1>17. CASE Leave(Seller)
  <2> DEFINE d == Exited(Seller, 0)
  <2>1. d.pc = "exited" /\ d.code = 0 /\ d.note = {} /\ d.status = "processed" /\ d.dying = FALSE
    <3>1. 0 \in Codes
      BY DEF Codes
    <3> QED BY <1>1, <3>1, Fields, ZenonT(40)
  <2>2. Move(Seller, d) /\ old.pc = "idle"
    BY <1>17, Names DEF Leave, At, old
  <2> HIDE DEF d
  <2> QED BY <1>4, <1>6, <2>1, <2>2
<1> QED BY <1>9, <1>10, <1>12, <1>13, <1>15, <1>16, <1>17

\* The seller sends: one that is about to lose its memory has reported nothing yet.
LEMMA SellerSends ==
  ASSUME TownInv, [TownNext]_trackVars, SendNew(Seller) \/ SendAgain(Seller) \/ NoteSuppressed(Seller)
  PROVE  SellerInv'
<1> USE DEF mailbox, memory, disk, control, kept, given
<1> DEFINE old == procs[Seller]
           l == loops[Seller]
           j == journal[Seller]
           R == Reporting("applied")
           d == AfterSend(Seller)
           j2 == IF old.dying THEN {} ELSE j
<1>1. /\ TownTypeOK /\ Seller \in Participants /\ old \in Process
      /\ SellerGood(old, l, j, marker, applications, R, Settled)
      /\ journal \in [Participants -> SUBSET JournalEntry] /\ applications \in Nat
  BY Names DEF TownInv, TownTypeOK, SellerInv
<1>2. old.pc = "sending" /\ old.reply \in Replies
  BY <1>1 DEF SendNew, SendAgain, NoteSuppressed, SellerGood, SellerStands, At
<1>3. ~Suppresses(old.reply)
  <2>1. old.reply # QuoteRequest
    BY <1>2, Names
  <2> QED BY <2>1 DEF Suppresses, kindOf
<1>4. /\ acks' = acks /\ cast' = cast /\ fault' = fault /\ loops' = loops /\ marker' = marker
      /\ applications' = applications /\ Move(Seller, d) /\ journal' = JournalAfterSend(Seller)
  BY <1>2, <1>3 DEF SendNew, SendAgain, NoteSuppressed, AcceptMessage, At
<1>5. journal'[Seller] = j2
  BY <1>1, <1>4 DEF JournalAfterSend
<1>6. \A pc \in Places :
        /\ Entering(Seller, pc).pc = pc /\ Entering(Seller, pc).note = old.note
        /\ Entering(Seller, pc).status = old.status /\ Entering(Seller, pc).dying = old.dying
  BY <1>1, Fields, ZenonT(40) DEF old
<1>7. \/ /\ old.dying /\ d.pc = "exited" /\ d.code = 3 /\ d.note = {} /\ ~d.dying /\ d.status = "processed"
      \/ /\ ~old.dying /\ cast[Seller] = "model" /\ d.pc = "thinking" /\ d.answer = "accepted"
         /\ d.note = old.note /\ d.status = old.status /\ ~d.dying
      \/ /\ ~old.dying /\ cast[Seller] # "model" /\ d.pc = "idle" /\ d.note = {} /\ ~d.dying
         /\ d.status = "processed"
      \/ /\ ~old.dying /\ cast[Seller] # "model" /\ d.pc = "acking" /\ d.note = old.note /\ ~d.dying
         /\ d.status = old.status
  <2>1. CASE old.dying
    <3>1. 3 \in Codes
      BY DEF Codes
    <3>2. d = Exited(Seller, 3)
      BY <2>1 DEF AfterSend
    <3> HIDE DEF d
    <3> QED BY <1>1, <2>1, <3>1, <3>2, Fields, ZenonT(40)
  <2>2. CASE ~old.dying /\ cast[Seller] = "model"
    <3>1. "accepted" \in Answers
      BY DEF Answers
    <3>2. d = Told(Seller, "accepted")
      BY <2>2 DEF AfterSend
    <3> HIDE DEF d
    <3> QED BY <1>1, <2>2, <3>1, <3>2, Fields, ZenonT(40) DEF old
  <2>3. CASE ~old.dying /\ cast[Seller] # "model"
    <3>1. "accepted" \in Answers /\ "acking" \in Places
      BY DEF Answers, Places, ModelPlaces
    <3>2. d = Told(Seller, "accepted") \/ d = Entering(Seller, "acking")
      BY <2>3 DEF AfterSend
    <3>3. Told(Seller, "accepted") = Resting(Seller)
      BY <1>1, <2>3, <3>1, Fields, ZenonT(40)
    <3>4. /\ Resting(Seller).pc = "idle" /\ Resting(Seller).note = {}
          /\ Resting(Seller).status = "processed" /\ Resting(Seller).dying = FALSE
      BY <1>1, Fields
    <3> HIDE DEF d, old
    <3> QED BY <1>6, <2>3, <3>1, <3>2, <3>3, <3>4
  <2> QED BY <2>1, <2>2, <2>3
<1> HIDE DEF old, l, j, R, d, j2
<1>8. old.status # "retryable" /\ Stands(Seller, old)
  BY <1>1, <1>2 DEF SellerGood, SellerStands, SellerDoomed
<1>9. old.dying => cast[Seller] = "stock" /\ Amnesiac /\ marker /\ R = {}
  BY <1>1, <1>2 DEF SellerGood, SellerDoomed, ReportedOnce, Carrying
<1>10. SellerStands(d, j2, marker)
  BY <1>1, <1>7, <1>9 DEF SellerGood, SellerStands, Stands, ModelPlaces, CrashFault, j2
<1>11. SellerDoomed(d, j2, marker, applications, R)
  BY <1>1, <1>7, <1>8 DEF SellerGood, SellerDoomed, j2
<1>12. JournalKnows(d, j2, applications)
  BY <1>1, <1>7, <1>9 DEF SellerGood, JournalKnows, j2
<1>13. ReportedOnce(d, j2, R, Settled)
  BY <1>1, <1>2, <1>7, <1>9 DEF SellerGood, ReportedOnce, Carrying, j2
<1>14. SellerLoop(d, l, R)
  <2>1. Call("begin") \in LastCalls
    BY DEF LastCalls
  <2> QED BY <1>1, <1>2, <1>7, <1>9, <2>1 DEF SellerGood, SellerLoop, Agrees
<1> QED BY <1>4, <1>5, <1>10, <1>11, <1>12, <1>13, <1>14, SellerActs DEF SellerGood, l, R

\* The seller acknowledges: the first report it carries is the only one.
LEMMA SellerAcknowledges ==
  ASSUME TownInv, [TownNext]_trackVars, AckAccepted(Seller)
  PROVE  SellerInv'
<1> USE DEF mailbox, memory, disk, control, kept, given
<1> DEFINE old == procs[Seller]
           l == loops[Seller]
           j == journal[Seller]
           R == Reporting("applied")
           R2 == Reporting("applied")'
           d == IF old.dying THEN Exited(Seller, 9)
                ELSE IF KeepsMark(Seller) /\ "applied" \in old.note THEN Entering(Seller, "accepted")
                ELSE Told(Seller, "recorded")
<1>1. /\ TownTypeOK /\ Seller \in Participants /\ old \in Process
      /\ SellerGood(old, l, j, marker, applications, R, Settled)
      /\ applications \in Nat
  BY Names DEF TownInv, TownTypeOK, SellerInv
<1>2. /\ cast' = cast /\ fault' = fault /\ loops' = loops /\ marker' = marker
      /\ applications' = applications /\ journal' = journal /\ Move(Seller, d) /\ old.pc = "acking"
  BY DEF AckAccepted, At
<1>3. /\ old.message = QuoteRequest
      /\ R2 = IF "applied" \in old.note THEN R \cup {Len(acks) + 1} ELSE R
      /\ old.status # "retryable" => Settled'
  BY <1>1, AckAdds DEF Settled
<1>4. /\ old.status = "retryable" => "applied" \notin old.note /\ R = {}
      /\ "applied" \in old.note => R = {}
      /\ old.dying => cast[Seller] = "stock" /\ ~Amnesiac
  <2>1. old.dying => cast[Seller] = "stock" /\ ~Amnesiac
    BY <1>1, <1>2 DEF SellerGood, SellerDoomed, Scripted, Amnesiac
  <2> QED BY <1>1, <1>2, <2>1 DEF SellerGood, SellerDoomed, ReportedOnce, Carrying
<1>5. /\ \A a, b \in R2 : a = b
      /\ R2 # {} => Settled'
  BY <1>1, <1>3, <1>4 DEF SellerGood, ReportedOnce
<1>6. \/ /\ old.dying /\ d.pc = "exited" /\ d.code = 9 /\ d.note = {} /\ ~d.dying /\ d.status = "processed"
      \/ /\ ~old.dying /\ cast[Seller] = "model" /\ d.pc = "thinking" /\ d.answer = "recorded"
         /\ d.note = old.note /\ d.status = old.status /\ ~d.dying /\ d.message = old.message
      \/ /\ ~old.dying /\ cast[Seller] # "model" /\ d.pc = "idle" /\ d.note = {} /\ ~d.dying
         /\ d.status = "processed"
      \/ /\ ~old.dying /\ KeepsMark(Seller) /\ d.pc = "accepted" /\ d.note = old.note /\ ~d.dying
         /\ d.status = old.status /\ "applied" \in old.note
  <2>1. CASE old.dying
    <3>1. 9 \in Codes
      BY DEF Codes
    <3>2. d = Exited(Seller, 9)
      BY <2>1
    <3> HIDE DEF d
    <3> QED BY <1>1, <2>1, <3>1, <3>2, Fields, ZenonT(40)
  <2>2. CASE ~old.dying /\ cast[Seller] = "model"
    <3>1. "recorded" \in Answers
      BY DEF Answers
    <3>2. d = Told(Seller, "recorded")
      BY <2>2 DEF KeepsMark
    <3> HIDE DEF d
    <3> QED BY <1>1, <2>2, <3>1, <3>2, Fields, ZenonT(40) DEF old
  <2>3. CASE ~old.dying /\ cast[Seller] # "model" /\ ~(KeepsMark(Seller) /\ "applied" \in old.note)
    <3>1. "recorded" \in Answers
      BY DEF Answers
    <3>2. d = Told(Seller, "recorded")
      BY <2>3
    <3>3. Told(Seller, "recorded") = Resting(Seller)
      BY <1>1, <2>3, <3>1, Fields
    <3>4. /\ Resting(Seller).pc = "idle" /\ Resting(Seller).note = {}
          /\ Resting(Seller).status = "processed" /\ Resting(Seller).dying = FALSE
      BY <1>1, Fields
    <3> HIDE DEF d, old
    <3> QED BY <2>3, <3>2, <3>3, <3>4
  <2>4. CASE ~old.dying /\ KeepsMark(Seller) /\ "applied" \in old.note
    <3>1. "accepted" \in Places
      BY DEF Places
    <3>2. d = Entering(Seller, "accepted")
      BY <2>4
    <3> HIDE DEF d
    <3> QED BY <1>1, <2>4, <3>1, <3>2, Fields, ZenonT(40) DEF old
  <2> QED BY <2>1, <2>2, <2>3, <2>4
<1> HIDE DEF old, l, j, R, R2, d
<1>7. KeepsMark(Seller) => cast[Seller] # "model"
  BY DEF KeepsMark
<1>8. SellerStands(d, j, marker)
  BY <1>1, <1>4, <1>6, <1>7 DEF SellerGood, SellerStands, Stands, ModelPlaces
<1>9. SellerDoomed(d, j, marker, applications, R2)
  BY <1>1, <1>2, <1>3, <1>4, <1>6 DEF SellerGood, SellerDoomed
<1>10. JournalKnows(d, j, applications)
  BY <1>1, <1>6 DEF SellerGood, JournalKnows
<1>11. ReportedOnce(d, j, R2, Settled')
  <2>1. ~Carrying(d) /\ d.pc \notin {"handling", "stalled"}
    BY <1>6 DEF Carrying
  <2>2. R # {} => j # {}
    BY <1>1, <1>2 DEF SellerGood, ReportedOnce
  <2>3. "applied" \in old.note /\ ~old.dying /\ cast[Seller] # "model" => j # {}
    BY <1>1, <1>2 DEF SellerGood, ReportedOnce, Carrying
  <2>4. R2 # {} =>
          \/ j # {}
          \/ d.pc = "exited" /\ cast[Seller] # "outside" /\ d.code # 3
          \/ d.pc = "thinking" /\ d.answer = "recorded"
    <3>1. CASE "applied" \in old.note
      <4>1. CASE old.dying
        <5>1. cast[Seller] # "outside"
          BY <1>4, <4>1
        <5>2. d.pc = "exited" /\ d.code = 9
          BY <1>6, <4>1
        <5>3. d.code # 3
          BY <5>2
        <5> QED BY <5>1, <5>2, <5>3
      <4>2. CASE ~old.dying /\ cast[Seller] = "model"
        BY <1>6, <1>7, <4>2
      <4>3. CASE ~old.dying /\ cast[Seller] # "model"
        BY <2>3, <3>1, <4>3
      <4> QED BY <4>1, <4>2, <4>3
    <3>2. CASE "applied" \notin old.note
      BY <1>3, <2>2, <3>2
    <3> QED BY <3>1, <3>2
  <2> QED BY <1>5, <2>1, <2>4 DEF ReportedOnce
<1>12. SellerLoop(d, l, R2)
  <2>1. Call("begin") \in LastCalls
    BY DEF LastCalls
  <2> QED BY <1>1, <1>2, <1>3, <1>4, <1>6, <1>7, <2>1 DEF SellerGood, SellerLoop, Agrees
<1>13. SellerGood(d, l, j, marker, applications, R2, Settled')
  BY <1>8, <1>9, <1>10, <1>11, <1>12 DEF SellerGood
<1>14. SellerGood(d, loops'[Seller], journal'[Seller], marker', applications', Reporting("applied")', Settled')
  BY <1>2, <1>13 DEF l, R2, j
<1> QED BY <1>1, <1>2, <1>14, SellerMoves

\* A dropped or refused acknowledgement reports nothing, now or later.
LEMMA SellerIsRefused ==
  ASSUME TownInv, [TownNext]_trackVars, AckLooksAtFault(Seller) \/ DropAck(Seller) \/ AckRefused(Seller)
  PROVE  SellerInv'
<1> USE DEF mailbox, memory, disk, control, kept, given
<1> DEFINE old == procs[Seller]
           l == loops[Seller]
           j == journal[Seller]
           R == Reporting("applied")
<1>1. /\ TownTypeOK /\ Seller \in Participants /\ old \in Process
      /\ SellerGood(old, l, j, marker, applications, R, Settled)
  BY Names DEF TownInv, TownTypeOK, SellerInv
<1>2. /\ acks' = acks /\ cast' = cast /\ fault' = fault /\ loops' = loops /\ marker' = marker
      /\ journal' = journal /\ applications' = applications /\ old.pc \in {"acking", "dropping"}
  BY DEF AckLooksAtFault, DropAck, AckRefused, At, AckLapsed
<1>3. Call("begin") \in LastCalls
  BY DEF LastCalls
<1>4. CASE AckLooksAtFault(Seller) \/ DropAck(Seller)
  <2>1. /\ ~old.dying
        /\ old.pc = "dropping" \/ old.status = "processed"
    BY <1>1, <1>4 DEF AckLooksAtFault, DropAck, DroppedFor, At, SellerGood, SellerDoomed, Scripted
  <2>2. PICK pc \in {"acking", "dropping"} : Move(Seller, Entering(Seller, pc))
    BY <1>4 DEF AckLooksAtFault, DropAck
  <2> DEFINE d == Entering(Seller, pc)
  <2>3. d.pc = pc /\ d.note = old.note /\ d.status = old.status /\ d.dying = old.dying
    <3>1. pc \in Places
      BY DEF Places, ModelPlaces
    <3> QED BY <1>1, <3>1, Fields DEF old
  <2>4. Move(Seller, d)
    BY <2>2
  <2> HIDE DEF old, l, j, R, d
  <2>5. old.status # "retryable"
    BY <1>1, <1>2, <2>1 DEF SellerGood, SellerDoomed
  <2>6. SellerStands(d, j, marker)
    BY <1>1, <1>2, <2>2, <2>3 DEF SellerGood, SellerStands, Stands, ModelPlaces
  <2>7. SellerDoomed(d, j, marker, applications, R)
    BY <1>1, <2>1, <2>3, <2>5 DEF SellerGood, SellerDoomed
  <2>8. JournalKnows(d, j, applications)
    BY <1>1, <2>3 DEF SellerGood, JournalKnows
  <2>9. ReportedOnce(d, j, R, Settled)
    BY <1>1, <1>2, <2>2, <2>3 DEF SellerGood, ReportedOnce, Carrying
  <2>10. SellerLoop(d, l, R)
    BY <1>1, <1>2, <1>3, <2>2, <2>3 DEF SellerGood, SellerLoop, Agrees
  <2> QED BY <1>2, <2>4, <2>6, <2>7, <2>8, <2>9, <2>10, SellerActs DEF SellerGood, l, R, j
<1>5. CASE AckRefused(Seller)
  <2> DEFINE d == IF old.dying THEN Exited(Seller, 3) ELSE Told(Seller, "stale")
  <2>1. Move(Seller, d) /\ old.pc = "acking"
    BY <1>5 DEF AckRefused, At
  <2>2. \/ /\ old.dying /\ d.pc = "exited" /\ d.code = 3 /\ d.note = {} /\ ~d.dying /\ d.status = "processed"
        \/ /\ ~old.dying /\ cast[Seller] = "model" /\ d.pc = "thinking" /\ d.answer = "stale"
           /\ d.note = old.note /\ d.status = old.status /\ ~d.dying
        \/ /\ ~old.dying /\ cast[Seller] # "model" /\ d.pc = "idle" /\ d.note = {} /\ ~d.dying
           /\ d.status = "processed"
    <3>1. CASE old.dying
      <4>1. 3 \in Codes
        BY DEF Codes
      <4>2. d = Exited(Seller, 3)
        BY <3>1
      <4> HIDE DEF d
      <4> QED BY <1>1, <3>1, <4>1, <4>2, Fields, ZenonT(40)
    <3>2. CASE ~old.dying /\ cast[Seller] = "model"
      <4>1. "stale" \in Answers
        BY DEF Answers
      <4>2. d = Told(Seller, "stale")
        BY <3>2
      <4> HIDE DEF d
      <4> QED BY <1>1, <3>2, <4>1, <4>2, Fields DEF old
    <3>3. CASE ~old.dying /\ cast[Seller] # "model"
      <4>1. "stale" \in Answers
        BY DEF Answers
      <4>2. d = Told(Seller, "stale")
        BY <3>3
      <4>3. Told(Seller, "stale") = Resting(Seller)
        BY <1>1, <3>3, <4>1, Fields
      <4>4. /\ Resting(Seller).pc = "idle" /\ Resting(Seller).note = {}
            /\ Resting(Seller).status = "processed" /\ Resting(Seller).dying = FALSE
        BY <1>1, Fields
      <4> HIDE DEF d, old
      <4> QED BY <3>3, <4>2, <4>3, <4>4
    <3> QED BY <3>1, <3>2, <3>3
  <2> HIDE DEF old, l, j, R, d
  <2>3. old.status = "retryable" => cast[Seller] = "bridge"
    BY <1>1 DEF SellerGood, SellerDoomed
  <2>4. old.dying => cast[Seller] = "stock" /\ R = {} /\ ~Amnesiac /\ CrashFault /\ marker
    BY <1>1, <2>1 DEF SellerGood, SellerDoomed, ReportedOnce, Carrying, Scripted, Amnesiac, CrashFault
  <2>5. SellerStands(d, j, marker)
    BY <1>1, <2>2, <2>4 DEF SellerGood, SellerStands, Stands, ModelPlaces
  <2>6. SellerDoomed(d, j, marker, applications, R)
    BY <1>1, <2>2, <2>3 DEF SellerGood, SellerDoomed
  <2>7. JournalKnows(d, j, applications)
    BY <1>1, <2>2 DEF SellerGood, JournalKnows
  <2>8. ReportedOnce(d, j, R, Settled)
    <3>1. ~Carrying(d) /\ d.pc \notin {"handling", "stalled"}
      BY <2>2 DEF Carrying
    <3>2. R # {} => j # {} /\ Settled
      BY <1>1, <2>1 DEF SellerGood, ReportedOnce
    <3> QED BY <1>1, <3>1, <3>2 DEF SellerGood, ReportedOnce
  <2>9. SellerLoop(d, l, R)
    BY <1>1, <1>3, <2>1, <2>2, <2>4 DEF SellerGood, SellerLoop, Agrees
  <2> QED BY <1>2, <2>1, <2>5, <2>6, <2>7, <2>8, <2>9, SellerActs DEF SellerGood, l, R, j
<1> QED BY <1>4, <1>5

\* After the report the seller's conversation tells, or its journal does.
LEMMA KnowsAfter ==
  ASSUME TownTypeOK, SellerInv, cast[Seller] = "model", At(Seller, "thinking"),
         Reporting("applied") # {}
  PROVE  KnowsReported(LoopAfter(Seller))
<1> DEFINE old == procs[Seller]
           l == loops[Seller]
           h == Conversation(Seller)
           H == Heard(Seller)
<1>1. /\ Agrees(old, l) /\ Seller \in Participants
      /\ old.answer \in {"work", "recorded"} => old.message = QuoteRequest
      /\ old.answer = "recorded" \/ KnowsReported(l)
      /\ old.answer # "recorded" => journal[Seller] # {}
      /\ \A e \in journal[Seller] : e.message = QuoteRequest
  BY Names DEF SellerInv, SellerGood, SellerLoop, ReportedOnce, SellerStands, At
<1>2. /\ H \in Seq(Entries(Seller)) /\ h \in Seq(Entries(Seller))
      /\ H = IF l.call = Call("begin") THEN <<>> ELSE Append(l.history, Entry(Seller))
  BY <1>1, Hears
<1>3. PICK k \in Nat : /\ Len(h) = Len(H) - k
                       /\ H # <<>> => h # <<>>
                       /\ \A n \in 1..Len(h) : h[n] = H[n + k]
  BY <1>1, Hears
<1>4. l.history \in Seq(Entries(Seller)) /\ Len(l.history) \in Nat
  BY <1>1 DEF TownTypeOK, Loop, Entries
<1>5. LoopAfter(Seller).call = Choice(Seller, h) /\ LoopAfter(Seller).history = h
  BY <1>1, LoopAfterTypes DEF Said
<1>6. /\ Entry(Seller).call = l.call /\ Entry(Seller).result = Result(Seller)
      /\ Entry(Seller).known = (Result(Seller) = "work" /\ Remembered(Seller) # {})
  BY DEF Entry
<1>7. /\ Result(Seller) = "work" => old.answer = "work"
      /\ old.answer = "recorded" => Result(Seller) = "recorded"
  BY DEF Result, Reported, LosesResult
<1> HIDE DEF old, l, h, H
<1>8. Len(h) \in Nat /\ Len(H) \in Nat /\ DOMAIN h = 1..Len(h) /\ DOMAIN l.history = 1..Len(l.history)
  BY <1>2, <1>4
<1>9. CASE l.call = Call("begin")
  <2>1. Len(H) = 0
    BY <1>2, <1>9
  <2>2. Len(h) = 0
    BY <1>3, <1>8, <2>1
  <2>3. h = <<>>
    BY <1>2, <2>2
  <2>4. ErrsInnocently(h) /\ Settles(h)
    BY <1>8, <2>2, <2>3 DEF ErrsInnocently, Settles, Delivery, Results
  <2> QED BY <1>2, <1>5, <2>4, ReportsNoMore DEF KnowsReported
<1>10. CASE l.call # Call("begin")
  <2>1. /\ Len(H) = Len(l.history) + 1 /\ H[Len(H)] = Entry(Seller)
        /\ \A m \in 1..Len(l.history) : H[m] = l.history[m]
    BY <1>2, <1>4, <1>8, <1>10
  <2>2. H # <<>>
    <3>1. Len(H) # 0 /\ Len(<<>>) = 0
      BY <1>4, <2>1
    <3> QED BY <3>1
  <2>3. Len(h) # 0
    BY <1>2, <1>3, <2>2
  <2>4. Len(h) \in 1..Len(h) /\ Len(h) + k = Len(H) /\ h[Len(h)] = Entry(Seller)
    BY <1>3, <1>8, <2>1, <2>3
  <2>5. ErrsInnocently(h)
    <3> SUFFICES ASSUME h[Len(h)].result = "error" PROVE "applied" \notin h[Len(h)].call.note
      BY DEF ErrsInnocently
    <3>1. Result(Seller) = "error"
      BY <1>6, <2>4
    <3>2. KnowsReported(l)
      BY <1>1, <1>7, <3>1
    <3> QED BY <1>6, <2>4, <3>2 DEF KnowsReported
  <2>6. Settles(h)
    <3> SUFFICES ASSUME NEW n \in Delivery(h)
                 PROVE  h[n].known \/ RecordedAfter(h, n)
      BY DEF Settles
    <3>1. /\ n \in 1..Len(h) /\ n \in Nat /\ h[n].call.tool = "claim_work" /\ h[n].result = "work"
          /\ n + k \in 1..Len(H) /\ h[n] = H[n + k]
      BY <1>3, <1>8 DEF Delivery, Results
    <3>2. CASE old.answer = "recorded"
      <4>1. h[Len(h)].result = "recorded" /\ h[Len(h)].call.tool = "ack_work"
        BY <1>1, <1>6, <1>7, <1>10, <2>4, <3>2 DEF Agrees, old, At
      <4>2. n # Len(h)
        BY <3>1, <4>1
      <4>3. Len(h) > n
        <5>1. n \in 1..Len(h) /\ Len(h) \in Nat
          BY <1>8, <3>1
        <5> QED BY <4>2, <5>1
      <4> QED BY <1>8, <2>4, <4>1, <4>3 DEF RecordedAfter
    <3>3. CASE old.answer # "recorded" /\ n + k = Len(H)
      <4>1. Result(Seller) = "work"
        BY <1>6, <2>1, <3>1, <3>3
      <4>2. old.message = QuoteRequest /\ journal[Seller] # {}
        BY <1>1, <1>7, <3>3, <4>1
      <4>3. Remembered(Seller) # {}
        BY <1>1, <4>2 DEF Remembered, old
      <4> QED BY <1>6, <2>1, <3>1, <3>3, <4>1, <4>3
    <3>4. CASE old.answer # "recorded" /\ n + k # Len(H)
      <4>1. n + k \in 1..Len(l.history) /\ h[n] = l.history[n + k]
        BY <1>4, <1>8, <2>1, <3>1, <3>4
      <4>2. n + k \in Delivery(l.history)
        BY <1>8, <3>1, <4>1 DEF Delivery, Results
      <4>3. l.history[n + k].known \/ RecordedAfter(l.history, n + k)
        BY <1>1, <3>4, <4>2 DEF KnowsReported, Settles
      <4>4. ASSUME RecordedAfter(l.history, n + k)
            PROVE  RecordedAfter(h, n)
        <5>1. PICK m \in 1..Len(l.history) :
                m > n + k /\ l.history[m].call.tool = "ack_work" /\ l.history[m].result = "recorded"
          BY <1>8, <4>4 DEF RecordedAfter
        <5>2. m - k \in 1..Len(h) /\ m - k > n /\ (m - k) + k = m
          BY <1>3, <1>4, <1>8, <2>1, <3>1, <5>1
        <5>3. h[m - k] = l.history[m]
          BY <1>3, <2>1, <5>1, <5>2
        <5> QED BY <1>8, <5>1, <5>2, <5>3 DEF RecordedAfter
      <4> QED BY <4>1, <4>3, <4>4
    <3> QED BY <3>2, <3>3, <3>4
  <2> QED BY <1>2, <1>5, <2>5, <2>6, ReportsNoMore DEF KnowsReported
<1> QED BY <1>9, <1>10

\* A lost result is asked for again: what is stashed is claimed next.
LEMMA StashIsClaimed ==
  ASSUME TownTypeOK, SellerInv, cast[Seller] = "model", At(Seller, "thinking"),
         LoopAfter(Seller).stashed
  PROVE  Said(Seller) = Call("claim_work") /\ procs[Seller].answer = "work"
<1>1. /\ Agrees(procs[Seller], loops[Seller]) /\ Seller \in Participants
      /\ loops[Seller].stashed => procs[Seller].answer = "work"
  BY Names DEF SellerInv, SellerGood, SellerLoop, At
<1>2. /\ procs[Seller].answer = "work" => loops[Seller].call = Call("claim_work")
      /\ Call("claim_work").tool = "claim_work"
  BY <1>1 DEF Agrees, At, Call
<1>3. LosesResult(Seller)
  BY <1>1, <1>2, LoopAfterTypes
<1>4. procs[Seller].answer = "work" /\ Result(Seller) = "error"
  BY <1>3 DEF LosesResult, Result
<1>5. /\ Heard(Seller) \in Seq(Entries(Seller)) /\ Conversation(Seller) \in Seq(Entries(Seller))
      /\ Heard(Seller) = Append(loops[Seller].history, Entry(Seller))
  <2>1. loops[Seller].call # Call("begin")
    BY <1>2, <1>4 DEF Call
  <2> QED BY <1>1, <2>1, Hears
<1>6. loops[Seller].history \in Seq(Entries(Seller))
  BY <1>1 DEF TownTypeOK, Loop, Entries
<1> DEFINE h == Conversation(Seller)
           H == Heard(Seller)
<1>7. PICK k \in Nat : /\ Len(h) = Len(H) - k
                       /\ H # <<>> => h # <<>>
                       /\ \A n \in 1..Len(h) : h[n] = H[n + k]
  BY <1>1, Hears
<1> HIDE DEF h, H
<1>8. Len(H) = Len(loops[Seller].history) + 1 /\ H[Len(H)] = Entry(Seller)
  BY <1>5, <1>6 DEF H
<1>9. h # <<>> /\ Len(h) # 0 /\ Len(h) \in Nat
  <2>1. Len(H) # 0 /\ Len(<<>>) = 0
    BY <1>6, <1>8
  <2> QED BY <1>5, <1>7, <2>1 DEF h
<1>10. h[Len(h)] = Entry(Seller)
  <2>1. Len(h) \in 1..Len(h) /\ Len(h) + k = Len(H)
    BY <1>5, <1>7, <1>9 DEF H
  <2> QED BY <1>7, <1>8, <2>1
<1>11. Entry(Seller).result = "error" /\ Entry(Seller).call = Call("claim_work")
  BY <1>2, <1>4 DEF Entry
<1> QED BY <1>4, <1>9, <1>10, <1>11 DEF Said, Choice, h

\* A seller that thinks is well afterwards.
LEMMA SellerThinks ==
  ASSUME TownInv, [TownNext]_trackVars, Think(Seller)
  PROVE  SellerInv'
<1> DEFINE old == procs[Seller]
           j == journal[Seller]
           j2 == journal'[Seller]
           R == Reporting("applied")
           l == LoopAfter(Seller)
           d == Executing(LoopAfter(Seller), Said(Seller), Freed(Seller))
           said == Said(Seller)
<1>1. /\ TownTypeOK /\ TypeOK /\ Seller \in Participants /\ old \in Process /\ SellerInv
      /\ SellerGood(old, loops[Seller], j, marker, applications, R, Settled)
  BY Names DEF TownInv, FencingInv, TownTypeOK, SellerInv
<1>2. /\ cast[Seller] = "model" /\ At(Seller, "thinking") /\ old.pc = "thinking"
      /\ cast' = cast /\ fault' = fault /\ acks' = acks /\ marker' = marker
      /\ applications' = applications
  BY ThinkParts DEF given, mailbox, At
<1>3. Reporting("applied")' = R /\ (Settled => Settled')
  BY <1>2, KeptWhen DEF Reporting
<1>4. /\ j \subseteq j2 /\ (old.answer = "recorded" => j2 # {})
      /\ \A e \in j2 : e \in j \/ (old.answer = "recorded" /\ e.message = old.message)
  <2> DEFINE entry == [message |-> old.message, reply |-> Nothing, unreported |-> FALSE]
  <2>1. entry.message = old.message
    OBVIOUS
  <2>2. j2 = IF old.answer = "recorded" THEN j \cup {entry} ELSE j
    BY <1>1, ThinkParts DEF TownTypeOK
  <2> HIDE DEF entry, j, j2, old
  <2> QED BY <2>1, <2>2
<1>5. /\ Agrees(old, loops[Seller])
      /\ old.answer \in {"work", "recorded"} => old.message = QuoteRequest
      /\ ~old.dying /\ old.status # "retryable" /\ ~CrashFault /\ ~Amnesiac
      /\ "stock" # "model" /\ "bridge" # "model"
  BY <1>1, <1>2 DEF SellerGood, SellerLoop, SellerDoomed, CrashFault, Amnesiac, Scripted
<1>6. \A e \in j2 : e.message = QuoteRequest
  BY <1>1, <1>4, <1>5 DEF SellerGood, SellerStands
<1>7. /\ \A a, b \in R : a = b
      /\ R # {} => Settled' /\ j2 # {}
  BY <1>1, <1>2, <1>3, <1>4 DEF SellerGood, ReportedOnce
<1>8. JournalKnows(old, j2, applications)
  BY <1>1, <1>4, <1>5 DEF SellerGood, JournalKnows
<1> HIDE DEF old, j, j2, R, l, d, said
<1>9. CASE \E code \in {6, 8} : Give(Seller, code)
  <2>1. PICK code \in {6, 8} : Give(Seller, code)
    BY <1>9
  <2> DEFINE g == Exited(Seller, code)
  <2>2. g.pc = "exited" /\ g.code = code /\ g.note = {} /\ ~g.dying /\ g.status = "processed"
    <3>1. code \in Codes
      BY DEF Codes
    <3> QED BY <1>1, <3>1, Fields, ZenonT(40)
  <2>3. Move(Seller, g)
    BY <2>1 DEF Give
  <2> HIDE DEF g
  <2>4. SellerStands(g, j2, marker)
    BY <1>2, <1>6, <2>2 DEF SellerStands, Stands, ModelPlaces
  <2>5. SellerDoomed(g, j2, marker, applications, R)
    BY <1>5, <2>2 DEF SellerDoomed
  <2>6. JournalKnows(g, j2, applications)
    BY <1>5, <1>8 DEF JournalKnows
  <2>7. ReportedOnce(g, j2, R, Settled')
    BY <1>7, <2>2 DEF ReportedOnce, Carrying
  <2>8. SellerLoop(g, loops'[Seller], R)
    BY <2>2 DEF SellerLoop
  <2>9. SellerGood(g, loops'[Seller], j2, marker', applications', Reporting("applied")', Settled')
    BY <1>2, <1>3, <2>4, <2>5, <2>6, <2>7, <2>8 DEF SellerGood
  <2> QED BY <1>1, <1>2, <2>3, <2>9, SellerMoves DEF j2
<1>10. CASE Move(Seller, d) /\ loops' = [loops EXCEPT ![Seller] = l]
  <2>1. /\ said \in BrainCalls(Seller) \cup LastCalls /\ l.call = said
    BY <1>1, <1>2, <1>5, LoopAfterTypes DEF LastCalls, l, said, old
  <2>2. Agrees(d, l) /\ d.pc \in {"thinking", "hinting", "sending", "acking", "exited"}
    BY <1>1, <1>2, <1>5, ThoughtAgrees DEF d, l, old
  <2>3. /\ d.pc = "exited" => said.tool = "finish"
        /\ d.pc = "sending" => said.tool = "send_work"
        /\ d.pc = "acking" => said.tool = "ack_work"
    BY <1>1, <1>2, <1>5, <2>2, ExecutingFields DEF d, said, old
  <2>4. ~d.dying /\ d.status # "retryable"
    BY <1>1, <1>2, <1>5, ExecutingFields DEF d, said, old
  <2>5. R # {} => KnowsReported(l)
    BY <1>1, <1>2, KnowsAfter DEF R, l
  <2>6. l.stashed => said.tool = "claim_work" /\ old.answer = "work"
    <3>1. Call("claim_work").tool = "claim_work"
      BY DEF Call
    <3> QED BY <1>1, <1>2, <3>1, StashIsClaimed DEF l, said, old
  <2>7. d.pc = "exited" => d.code # 3
    <3> HAVE d.pc = "exited"
    <3>1. said.tool = "finish" /\ d.code = said.code
      BY <1>1, <1>2, <1>5, <2>3, ExecutingFields DEF d, said, old
    <3>2. said = Finishing(0) \/ said = Finishing(5)
      BY <1>1, <2>1, <3>1, CallFields
    <3> QED BY <3>1, <3>2, LastWords
  <2>8. d.pc = "sending" => d.reply \in Replies
    <3> HAVE d.pc = "sending"
    <3>1. said.tool = "send_work" /\ d.reply = said.reply
      BY <1>1, <1>2, <1>5, <2>3, ExecutingFields DEF d, said, old
    <3>2. said.reply = QuoteResponse
      BY <1>1, <2>1, <3>1, CallFields, Names
    <3> QED BY <3>1, <3>2 DEF Replies
  <2>9. SellerStands(d, j2, marker)
    BY <1>2, <1>6, <2>2, <2>7, <2>8 DEF SellerStands, Stands, ModelPlaces
  <2>10. SellerDoomed(d, j2, marker, applications, R)
    BY <1>5, <2>4 DEF SellerDoomed
  <2>11. JournalKnows(d, j2, applications)
    BY <1>5, <1>8 DEF JournalKnows
  <2>12. ReportedOnce(d, j2, R, Settled')
    <3>1. ASSUME Carrying(d) PROVE R = {}
      <4>1. d.pc = "acking" /\ "applied" \in d.note
        BY <1>2, <2>2, <3>1 DEF Carrying
      <4>2. d.note = Counted(l, said.note)
        BY <1>1, <1>2, <1>5, <2>3, <4>1, ExecutingFields DEF d, l, said, old
      <4>3. "applied" \in said.note
        BY <4>1, <4>2 DEF Counted
      <4> QED BY <2>1, <2>5, <4>3 DEF KnowsReported
    <3> QED BY <1>2, <1>7, <2>2, <3>1 DEF ReportedOnce
  <2>13. d.pc = "thinking" /\ d.answer \in {"work", "recorded"} => d.message = QuoteRequest
    <3> HAVE d.pc = "thinking" /\ d.answer \in {"work", "recorded"}
    <3>1. said.tool = "claim_work" /\ l.stashed
      BY <1>1, <1>2, <1>5, ExecutingFields DEF d, l, said, old
    <3>2. d.message = Freed(Seller).message
      BY <1>1, <1>2, <1>5, <3>1, ExecutingFields DEF d, l, said, old
    <3>3. Freed(Seller) = old
      BY <2>6, <3>1 DEF Freed, old
    <3> QED BY <1>5, <2>6, <3>1, <3>2, <3>3
  <2>14. l.stashed => d.pc = "thinking" /\ d.answer = "work"
    BY <1>1, <1>2, <1>5, <2>6, ExecutingFields DEF d, l, said, old
  <2>15. SellerLoop(d, l, R)
    BY <2>2, <2>5, <2>13, <2>14 DEF SellerLoop
  <2>16. loops'[Seller] = l
    BY <1>1, <1>10 DEF TownTypeOK
  <2>17. SellerGood(d, loops'[Seller], j2, marker', applications', Reporting("applied")', Settled')
    BY <1>2, <1>3, <2>9, <2>10, <2>11, <2>12, <2>15, <2>16 DEF SellerGood
  <2> QED BY <1>1, <1>2, <1>10, <2>17, SellerMoves DEF j2
<1> QED BY <1>9, <1>10, ThinkParts DEF d, l

\* Every step of the town keeps the seller well.
LEMMA SellerStep ==
  ASSUME TownInv, [TownNext]_trackVars
  PROVE  SellerInv'
<1> USE DEF mailbox, memory, disk, control, kept, given
<1> DEFINE old == procs[Seller]
           l == loops[Seller]
           j == journal[Seller]
           R == Reporting("applied")
<1>1. /\ TownTypeOK /\ TypeOK /\ Buyer \in Participants /\ Seller \in Participants
      /\ Buyer # Seller /\ Participants = {Buyer, Seller} /\ old \in Process
      /\ SellerGood(old, l, j, marker, applications, R, Settled)
  BY Names DEF TownInv, FencingInv, TownTypeOK, SellerInv
<1>2. ASSUME acks' = acks, cast' = cast, fault' = fault, procs'[Seller] = procs[Seller],
             loops'[Seller] = loops[Seller], journal'[Seller] = journal[Seller],
             marker' = marker, applications' = applications
      PROVE  SellerInv'
  BY <1>2, KeptWhen, SellerUntouched DEF Reporting
<1>3. ASSUME NEW d, Move(Buyer, d)
      PROVE  procs'[Seller] = procs[Seller]
  BY <1>1, <1>3, Moved
<1>4. CASE Think(Seller)
  BY <1>4, SellerThinks
<1>5. CASE Think(Buyer)
  <2>1. PICK d, m : Move(Buyer, d) /\ loops' = [loops EXCEPT ![Buyer] = m]
    BY <1>5, ThinkParts DEF Give
  <2>2. UNCHANGED <<acks, cast, fault, marker, applications>>
    BY <1>5, ThinkParts
  <2>3. loops'[Seller] = loops[Seller]
    BY <1>1, <2>1 DEF TownTypeOK
  <2>4. journal'[Seller] = journal[Seller]
    BY <1>1, <1>5, ThinkParts DEF TownTypeOK
  <2> QED BY <1>2, <1>3, <2>1, <2>2, <2>3, <2>4
<1>6. CASE AwaitHint(Seller)
  BY <1>6, SellerClaims
<1>7. CASE AwaitHint(Buyer)
  <2>1. \E d : Move(Buyer, d)
    BY <1>7 DEF AwaitHint
  <2>2. acks' = acks
    BY <1>7 DEF AwaitHint, Notify, PopNotify
  <2> QED BY <1>2, <1>3, <1>7, <2>1, <2>2 DEF AwaitHint
<1>8. CASE Participant(Seller)
  BY <1>1, <1>8, SellerClaims, SellerWorks, SellerCrashesAndMarks, BridgeWorks, SellerSends,
    SellerAcknowledges, SellerIsRefused DEF Participant
<1>9. CASE Participant(Buyer)
  <2>1. \E d : Move(Buyer, d)
    BY <1>1, <1>9 DEF Participant, WaitForHint, ClaimWork, ClaimFoundNothing, OfferDuplicate, OfferRefused,
      BuyerHandles, SendNew, SendAgain, NoteSuppressed, AckLooksAtFault, DropAck, AckAccepted, AckRefused, Leave
  <2>2. /\ UNCHANGED <<cast, fault, loops, marker, applications>>
        /\ journal'[Seller] = journal[Seller]
    BY <1>1, <1>9 DEF Participant, WaitForHint, ClaimWork, ClaimFoundNothing, OfferDuplicate, OfferRefused,
      BuyerHandles, SendNew, SendAgain, JournalAfterSend, NoteSuppressed, AckLooksAtFault, DropAck,
      AckAccepted, AckRefused, Leave, TownTypeOK
  <2>3. CASE AckAccepted(Buyer)
    <3>1. "applied" \notin procs[Buyer].note
      BY DEF TownInv, BuyerInv, BuyerGood
    <3>2. Reporting("applied")' = Reporting("applied")
      BY <1>1, <2>3, <3>1, AckAdds
    <3>3. Settled => Settled'
      BY <1>1, <2>3, AckAdds DEF Settled
    <3> QED BY <1>3, <2>1, <2>2, <3>2, <3>3, SellerUntouched
  <2>4. CASE ~AckAccepted(Buyer)
    <3>1. acks' = acks
      BY <1>1, <1>9, <2>4 DEF Participant, WaitForHint, Notify, PopNotify, ClaimWork, ClaimNext,
        ClaimFoundNothing, ClaimNothing, OfferDuplicate, Reoffer, OfferRefused, BuyerHandles, SendNew,
        AcceptMessage, SendAgain, NoteSuppressed, AckLooksAtFault, DropAck, AckRefused, AckLapsed, Leave
    <3> QED BY <1>2, <1>3, <2>1, <2>2, <3>1
  <2> QED BY <2>3, <2>4
<1>10. CASE AgentFails
  BY <1>10, BridgeWorks
<1>11. ASSUME NEW d, Move(Seller, d), acks' = acks, UNCHANGED <<cast, fault, loops, journal, marker, applications>>,
              d.pc = "exited", d.note = {}, ~d.dying, d.status = "processed",
              d.code \in {1, 2}
       PROVE  SellerInv'
  <2>1. SellerStands(d, j, marker)
    BY <1>1, <1>11 DEF SellerGood, SellerStands, Stands, ModelPlaces
  <2>2. SellerDoomed(d, j, marker, applications, R)
    BY <1>1, <1>11 DEF SellerGood, SellerDoomed
  <2>3. JournalKnows(d, j, applications)
    BY <1>1, <1>11 DEF SellerGood, JournalKnows
  <2>4. ReportedOnce(d, j, R, Settled)
    <3>1. R # {} => j # {} \/ cast[Seller] # "outside"
      BY <1>1 DEF SellerGood, ReportedOnce, SellerStands, Stands
    <3>2. ~Carrying(d) /\ d.code # 3
      BY <1>11 DEF Carrying
    <3> QED BY <1>1, <1>11, <3>1, <3>2 DEF SellerGood, ReportedOnce
  <2>5. SellerLoop(d, l, R)
    BY <1>11 DEF SellerLoop
  <2> QED BY <1>11, <2>1, <2>2, <2>3, <2>4, <2>5, SellerActs DEF SellerGood
<1>12. ASSUME Move(Seller, Starting(Seller)), acks' = acks,
              UNCHANGED <<cast, fault, loops, journal, marker, applications>>,
              old.pc = "exited", cast[Seller] = "outside" \/ (cast[Seller] = "stock" /\ old.code = 3)
       PROVE  SellerInv'
  <2> DEFINE d == Starting(Seller)
  <2>1. /\ d.pc = "idle" /\ d.note = {} /\ ~d.dying /\ d.status = "processed"
    BY <1>1, <1>12 DEF Starting, Idle
  <2> HIDE DEF d
  <2>2. SellerStands(d, j, marker)
    BY <1>1, <1>12, <2>1 DEF SellerGood, SellerStands, Stands
  <2>3. SellerDoomed(d, j, marker, applications, R)
    BY <1>1, <2>1 DEF SellerGood, SellerDoomed
  <2>4. JournalKnows(d, j, applications)
    BY <1>1, <2>1 DEF SellerGood, JournalKnows
  <2>5. ReportedOnce(d, j, R, Settled)
    BY <1>1, <1>12, <2>1 DEF SellerGood, ReportedOnce, Carrying
  <2>6. SellerLoop(d, l, R)
    BY <1>12 DEF SellerLoop
  <2> QED BY <1>12, <2>2, <2>3, <2>4, <2>5, <2>6, SellerActs DEF SellerGood, d
<1>13. CASE \E p \in Participants : Accident(p)
  <2>1. CASE Crash(Seller)
    <3> DEFINE d == [Idle EXCEPT !.pc = "exited", !.code = 1]
    <3>1. d.pc = "exited" /\ d.code = 1 /\ d.note = {} /\ d.dying = FALSE /\ d.status = "processed"
      BY DEF Idle
    <3>2. Move(Seller, d) /\ acks' = acks /\ UNCHANGED <<cast, fault, loops, journal, marker, applications>>
      BY <2>1 DEF Crash
    <3> HIDE DEF d
    <3> QED BY <1>11, <3>1, <3>2
  <2>2. CASE Restart(Seller)
    BY <1>12, <2>2 DEF Restart, External, At
  <2>3. CASE Crash(Buyer) \/ Restart(Buyer)
    <3>1. \E d : Move(Buyer, d)
      BY <2>3 DEF Crash, Restart
    <3>2. UNCHANGED <<acks, cast, fault, loops, journal, marker, applications>>
      BY <2>3 DEF Crash, Restart
    <3> QED BY <1>2, <1>3, <3>1, <3>2
  <2> QED BY <1>1, <1>10, <1>13, <2>1, <2>2, <2>3 DEF Accident
<1>14. CASE Runner
  <2>1. CASE EndWatch
    BY <1>2, <1>3, <2>1 DEF EndWatch, Stops
  <2>2. CASE SellerIsDone
    BY <1>2, <2>2 DEF SellerIsDone
  <2>3. CASE RestartSeller
    <3>1. old.pc = "exited" /\ old.code = 3 /\ cast[Seller] = "stock"
      BY <1>1, <2>3 DEF RestartSeller, RestartDue, SellerCrashed, Spawned, External, At, SellerGood, SellerStands,
             CrashFault, Scripted, Amnesiac
    <3> QED BY <1>12, <2>3, <3>1 DEF RestartSeller
  <2>4. CASE EndSettling
        <3>1. /\ Move(Seller, IF Remains(Seller) THEN procs[Seller] ELSE Exited(Seller, 2))
          /\ UNCHANGED <<acks, cast, fault, loops, journal, marker, applications>>
      BY <2>4 DEF EndSettling, FinishRun, Stops
    <3>2. CASE Remains(Seller)
      <4>1. procs'[Seller] = procs[Seller]
        BY <1>1, <3>1, <3>2, Moved
      <4> QED BY <1>2, <3>1, <4>1
    <3>3. CASE ~Remains(Seller)
      <4>1. 2 \in Codes
        BY DEF Codes
      <4> DEFINE d == Exited(Seller, 2)
      <4>2. d.pc = "exited" /\ d.code = 2 /\ d.note = {} /\ d.dying = FALSE /\ d.status = "processed"
        BY <1>1, <4>1, Fields
      <4>3. Move(Seller, d)
        BY <3>1, <3>3
      <4> HIDE DEF d
      <4> QED BY <1>11, <3>1, <4>2, <4>3
    <3> QED BY <3>2, <3>3
  <2> QED BY <1>14, <2>1, <2>2, <2>3, <2>4 DEF Runner
<1>15. CASE TimePasses \/ UNCHANGED trackVars
  <2>1. UNCHANGED <<acks, cast, fault, procs, loops, journal, marker, applications>>
    BY <1>15 DEF TimePasses, Tick, tables, trackVars
  <2> QED BY <1>2, <2>1
<1>16. CASE HandlerEnds
  BY <1>2, <1>16, HandlerKeepsRows
<1> QED
  BY <1>1, <1>4, <1>5, <1>6, <1>7, <1>8, <1>9, <1>13, <1>14, <1>15, <1>16 DEF TownNext

-----------------------------------------------------------------------------
(* The town, whatever it is given.                                         *)

\* A run starts well.
LEMMA TownStarts == TownInit => TownInv
<1> SUFFICES ASSUME TownInit PROVE TownInv
  OBVIOUS
<1>1. /\ FencingInv /\ messages = [i \in {} |-> 0] /\ acks = <<>>
      /\ procs = [p \in Participants |-> Starting(p)]
      /\ journal = [p \in Participants |-> {}] /\ loops = [p \in Participants |-> NoLoop]
      /\ marker = FALSE /\ applications = 0 /\ doneTarget = Nothing /\ adrift = {}
  BY FencingInit DEF TownInit, TrackInit, Init
<1>2. cast \in [Participants -> Programs]
  <2>1. PICK s \in Scenarios : cast = s.cast
    BY DEF TownInit, TrackInit
  <2> QED BY <2>1, TrackAssumption
<1>3. \A p \in Participants : Starting(p) \in Process
  <2>1. Idle \in Process
    BY DEF Idle, Process, Places, ModelPlaces, Ids, Codes, Answers, Nothing
  <2>2. ASSUME NEW p \in Participants
        PROVE  Starting(p) \in Process
    BY <2>1, Names DEF Starting, Process, Places, ModelPlaces, Ids
  <2> QED BY <2>2
<1>4. \A p \in Participants : NoLoop \in Loop(p)
  <2> TAKE p \in Participants
  <2>1. <<>> \in Seq([call : BrainCalls(p), result : Answers, known : BOOLEAN])
    OBVIOUS
  <2>2. Call("begin") \in BrainCalls(p) \cup LastCalls
    BY DEF LastCalls
  <2> QED BY <2>1, <2>2 DEF NoLoop, Loop
<1>5. TownTypeOK
  BY <1>1, <1>2, <1>3, <1>4 DEF TownTypeOK, Ids
<1>6. /\ DOMAIN messages = {} /\ Reporting("applied") = {} /\ ~Settled
      /\ NoLoop.call = Call("begin") /\ NoLoop.history = <<>> /\ NoLoop.stashed = FALSE
      /\ DOMAIN NoLoop.history = {} /\ Call("begin") \in LastCalls
  BY <1>1 DEF Reporting, Settled, NoLoop, LastCalls
<1>7. /\ Starting(Buyer).pc \in {"thinking", "sending"} /\ Starting(Seller).pc \in {"thinking", "idle"}
      /\ Starting(Buyer).pc = "thinking" <=> cast[Buyer] = "model"
      /\ Starting(Seller).pc = "thinking" <=> cast[Seller] = "model"
      /\ Starting(Buyer).pc = "sending" => Starting(Buyer).reply = QuoteRequest
      /\ \A p \in Participants :
           /\ Starting(p).note = {} /\ Starting(p).dying = FALSE /\ Starting(p).answer = Nothing
           /\ Starting(p).status = "processed"
  BY Names DEF Starting, Idle
<1>8. \A p \in Participants : cast[p] = "model" => Agrees(Starting(p), NoLoop)
  BY <1>6, <1>7, Names DEF Agrees, Nothing
<1>9. BuyerInv
  <2>1. BuyerGood(Starting(Buyer), NoLoop, Reporting("right") # {})
    BY <1>6, <1>7, <1>8, Names DEF BuyerGood, Stands, ModelPlaces, Nothing
  <2> QED BY <1>1, <2>1, Names DEF BuyerInv
<1>10. SellerInv
  <2> DEFINE d == Starting(Seller)
  <2>1. SellerStands(d, {}, FALSE)
    BY <1>7, Names DEF SellerStands, Stands, ModelPlaces
  <2>2. SellerDoomed(d, {}, FALSE, 0, {}) /\ JournalKnows(d, {}, 0)
    BY <1>7, Names DEF SellerDoomed, JournalKnows
  <2>3. ReportedOnce(d, {}, {}, Settled)
    BY <1>7, Names DEF ReportedOnce, Carrying
  <2>4. SellerLoop(d, NoLoop, {})
    BY <1>6, <1>7, <1>8, Names DEF SellerLoop, Nothing
  <2> QED BY <1>1, <1>6, <2>1, <2>2, <2>3, <2>4, Names DEF SellerInv, SellerGood
<1>11. Letters
  BY <1>6 DEF Letters
<1> QED BY <1>1, <1>5, <1>9, <1>10, <1>11 DEF TownInv

\* And stays well.
LEMMA TownStep == TownInv /\ [TownNext]_trackVars => TownInv'
<1> SUFFICES ASSUME TownInv, [TownNext]_trackVars PROVE TownInv'
  OBVIOUS
<1>1. FencingInv' /\ TypeOK'
  BY TownFencing DEF FencingInv
<1> QED BY <1>1, TownTypes, TablesStep, BuyerStep, SellerStep DEF TownInv

\* The inductive invariant of a Track run: the types, the mailbox's fencing, the
\* addresses, and what the buyer and the seller know.
THEOREM TownStaysGood == TownSpec => []TownInv
BY TownStarts, TownStep, PTL DEF TownSpec

\* The work is performed once, twice only if the fault erased the journal, and it is
\* reported at most once (participants/base.py, Journal).
THEOREM WorkAppliedOnce == TownSpec => []AppliedOnce
<1>1. TownInv => AppliedOnce
  <2> SUFFICES ASSUME TownInv PROVE AppliedOnce
    OBVIOUS
  <2>1. /\ \A a, b \in Reporting("applied") : a = b
        /\ JournalKnows(procs[Seller], journal[Seller], applications)
    BY DEF TownInv, SellerInv, SellerGood, ReportedOnce
  <2>2. applications <= IF Amnesiac THEN 2 ELSE 1
    BY <2>1 DEF JournalKnows
  <2>3. CASE Reporting("applied") = {}
    <3>1. Cardinality(Reporting("applied")) = 0
      BY <2>3, FS_EmptySet
    <3> QED BY <2>2, <3>1 DEF AppliedOnce
  <2>4. CASE Reporting("applied") # {}
    <3>1. PICK a : Reporting("applied") = {a}
      BY <2>1, <2>4
    <3>2. Cardinality({a}) = 1
      BY FS_Singleton
    <3> QED BY <2>2, <3>1, <3>2 DEF AppliedOnce
  <2> QED BY <2>3, <2>4
<1> QED BY <1>1, TownStaysGood, PTL

\* A model-driven buyer ends well only with its assertion on the record (participants/llm.py).
THEOREM AssertionOfModels == TownSpec => []ModelAssertionTravels
<1>1. TownInv => ModelAssertionTravels
  BY DEF TownInv, BuyerInv, BuyerGood, ModelAssertionTravels, At
<1> QED BY <1>1, TownStaysGood, PTL

\* What fences the mailbox fences it in a run of the town: claims, settlements and
\* acknowledgements agree, through the participants' crashes and the runner's steps.
THEOREM TownSettlesOnce == TownSpec => [](OneHolder /\ HolderMatchesStatus /\ SettlesOnce)
<1>1. TownInv => OneHolder /\ HolderMatchesStatus /\ SettlesOnce
  BY DEF TownInv, FencingInv
<1> QED BY <1>1, TownStaysGood, PTL

-----------------------------------------------------------------------------
(* What a verdict rests on: every event of the record is true of the town. *)

\* What the town has come to, as far as events tell of it.  What a replayed send
\* of the seller's shows is how often the work was performed.
Standing ==
  [messages |-> messages, hints |-> notifications, acks |-> acks, offered |-> offered,
   fired |-> fired, restarted |-> runner.restarted, applied |-> applications,
   replays |-> IF Amnesiac THEN 2 ELSE 0, known |-> journal[Buyer], buyer |-> cast[Buyer]]

\* It only ever grows.
GrewTo(s, t) ==
  /\ \A i \in DOMAIN s.messages :
       /\ i \in DOMAIN t.messages
       /\ t.messages[i].content = s.messages[i].content
       /\ t.messages[i].attempts >= s.messages[i].attempts
       /\ s.messages[i].attempts \in Nat /\ t.messages[i].attempts \in Nat
  /\ \A i \in DOMAIN s.hints :
       i \in DOMAIN t.hints /\ (s.hints[i] = "suppressed" => t.hints[i] = "suppressed")
  /\ \A a \in DOMAIN s.acks : a \in DOMAIN t.acks /\ t.acks[a] = s.acks[a]
  /\ \A i \in DOMAIN s.offered : i \in DOMAIN t.offered /\ t.offered[i] = s.offered[i]
  /\ s.fired => t.fired
  /\ s.restarted => t.restarted
  /\ s.applied \in Nat /\ t.applied \in Nat /\ s.applied <= t.applied
  /\ t.replays = s.replays /\ s.replays \in Nat
  /\ s.known \subseteq t.known
  /\ t.buyer = s.buyer

AcceptedTrue(e, s) ==
  /\ e.subject \in DOMAIN s.messages /\ e.content = kindOf(e.subject)
  /\ e.subject # QuoteRequest => e.names \in {Nothing, QuoteRequest}
AckedTrue(e, s) ==
  /\ \E a \in DOMAIN s.acks : /\ s.acks[a].message = e.subject /\ s.acks[a].fence = e.fence
                              /\ s.acks[a].status = e.status /\ s.acks[a].note = e.note
  /\ e.note \subseteq Flags
  /\ e.who = Buyer /\ "right" \in e.note /\ s.buyer # "model" =>
       \E j \in s.known : j.message = e.subject
Attested(e, s) ==
  /\ e.kind = "message_accepted" => AcceptedTrue(e, s)
  /\ e.kind = "ack_recorded" => AckedTrue(e, s)
  /\ e.kind = "message_claimed" =>
       e.subject \in DOMAIN s.messages /\ e.attempt \in Nat /\ e.attempt <= s.messages[e.subject].attempts
  /\ e.kind = "duplicate_offered" => e.subject \in DOMAIN s.offered /\ s.offered[e.subject] = e.fence
  /\ e.kind = "ack_dropped" => s.fired
  /\ e.kind = "notify_suppressed" => QuoteRequest \in DOMAIN s.hints /\ s.hints[QuoteRequest] = "suppressed"
  /\ e.kind = "participant_restarted" => s.restarted
  /\ e.kind = "replay_returned" /\ e.who = Seller => s.replays <= s.applied

IsAccepted(e) == e.kind = "message_accepted"
IsAck(e) == e.kind = "ack_recorded"

\* The record tells of every acceptance, of no acceptance and no acknowledgement twice,
\* and of nothing that did not happen.
RecordTrue ==
  /\ IsSequence(log)
  /\ \A n \in DOMAIN log : Attested(log[n], Standing)
  /\ \A n, m \in DOMAIN log :
       IsAccepted(log[n]) /\ IsAccepted(log[m]) /\ log[n].subject = log[m].subject => n = m
  /\ \A n, m \in DOMAIN log :
       IsAck(log[n]) /\ IsAck(log[m]) /\ log[n].fence = log[m].fence => n = m
  /\ \A i \in DOMAIN messages : \E n \in DOMAIN log : IsAccepted(log[n]) /\ log[n].subject = i

-----------------------------------------------------------------------------
(* What the participants are about to put on record.                       *)

\* The identities in use, and the one message that may be offered twice.
Named == \A i \in DOMAIN messages : i \in {QuoteRequest} \cup Replies /\ messages[i].content = kindOf(i)
RequestOffered == doneTarget \in {Nothing, QuoteRequest} /\ DOMAIN offered \subseteq {QuoteRequest}

Judgements == {Nothing, "error", "failed", "incomplete", "passed"}
RunnerTypeOK ==
  runner \in [phase : {"watching", "settling", "done"}, restarted : BOOLEAN, sellerDone : BOOLEAN,
             until : Nat, verdict : Judgements]

\* A run is judged once it is finished, by the record it ended with.
JudgedOnRecord == Judged => ~Open /\ verdict = Verdict(log, fault)

\* The buyer's program journals a response before it asserts it right.
BuyerTells(proc, entries, ns) ==
  /\ ~proc.dying
  /\ proc.pc = "suppressing" => QuoteRequest \in DOMAIN ns /\ ns[QuoteRequest] = "suppressed"
  /\ cast[Buyer] # "model" /\ "right" \in proc.note =>
       proc.pc \in {"acking", "dropping"} /\ \E j \in entries : j.message = proc.message

\* Until its crash the seller got the request at most once.
BeforeRestart(proc, mark, ms) ==
  /\ proc.pc \in {"idle", "claiming", "handling", "stalled", "acking", "exited"}
  /\ QuoteRequest \in DOMAIN ms =>
       /\ ms[QuoteRequest].attempts <= 1
       /\ proc.pc \in {"idle", "claiming"} => ms[QuoteRequest].attempts = 0
  /\ proc.pc \in {"idle", "claiming", "handling"} => ~mark
  /\ proc.pc = "acking" => proc.dying

\* A seller that loses its journal sends its reply before, and applies again after.
Forgetting(proc, entries, mark, applied, ms) ==
  /\ applied = 0 => DOMAIN ms \cap Replies = {}
  /\ proc.dying => DOMAIN ms \cap Replies = {}
  /\ proc.pc = "sending" => proc.dying \/ applied = 2
  /\ applied = 1 => proc.dying \/ entries = {} \/ (proc.pc = "exited" /\ proc.code # 3)
  /\ mark => applied >= 1

SellerTells(proc, entries, mark, applied, ms, restarted) ==
  /\ proc.message \in {Nothing, QuoteRequest}
  /\ restarted => mark /\ CrashFault
  /\ Scripted("crash_after_claim") /\ ~restarted => BeforeRestart(proc, mark, ms)
  /\ Amnesiac => Forgetting(proc, entries, mark, applied, ms)

\* A request left adrift while suppressing a hint has suppressed it, and none of them offers
\* the request again to a seller that is still to be restarted.
StraysTell(rs, ns, restarted) ==
  \A r \in rs :
    /\ r.pc = "suppressing" => QuoteRequest \in DOMAIN ns /\ ns[QuoteRequest] = "suppressed"
    /\ r.pc = "reoffering" /\ r.by = Seller => ~Scripted("crash_after_claim") \/ restarted

TalkInv ==
  /\ Named /\ RequestOffered /\ RunnerTypeOK
  /\ StraysTell(adrift, notifications, runner.restarted)
  /\ BuyerTells(procs[Buyer], journal[Buyer], notifications)
  /\ SellerTells(procs[Seller], journal[Seller], marker, applications, messages, runner.restarted)

VerdictInv == TownInv /\ TalkInv /\ RecordTrue /\ JudgedOnRecord

-----------------------------------------------------------------------------
(* What has come about stays so.                                           *)

\* A step of the town is one of its mailbox's, or none, or the offer of a duplicate.
LEMMA TownTables ==
  ASSUME TownInv, [TownNext]_trackVars
  PROVE  \/ [Next]_vars
         \/ \E p \in Participants, i \in DOMAIN messages, now \in Nat : Reoffer(p, i, now)
<1> USE DEF vars, mailbox
<1>1. clock \in Sampled
  BY SamplesNow DEF TownInv, FencingInv
<1>2. ASSUME NEW p \in Participants, Participant(p)
      PROVE  [Next]_vars \/ \E i \in DOMAIN messages, now \in Nat : Reoffer(p, i, now)
  <2>1. CASE \E now \in Sampled : Request(p, now)
    BY <2>1 DEF Next
  <2> QED BY <1>2, <2>1, ParticipantMailbox
<1>3. ASSUME NEW p \in Participants, Think(p) \/ AwaitHint(p) \/ Accident(p)
      PROVE  [Next]_vars
  <2>1. Request(p, clock) \/ UNCHANGED vars
    BY <1>3 DEF Think, AwaitHint, Notify, Request, Accident, Crash, Restart, AgentFails
  <2> QED BY <1>1, <2>1 DEF Next
<1>4. CASE Runner
  BY <1>4 DEF Runner, EndWatch, SellerIsDone, RestartSeller, EndSettling, Next
<1>5. CASE TimePasses
  BY <1>5 DEF TimePasses, Next
<1>6. CASE UNCHANGED trackVars
  BY <1>6 DEF trackVars
<1>7. CASE HandlerEnds
  BY <1>7, HandlerMailbox
<1> QED BY <1>2, <1>3, <1>4, <1>5, <1>6, <1>7 DEF TownNext

\* Hints, acknowledgements and offers on the tables stay there.
RowsStay ==
  /\ \A i \in DOMAIN notifications :
       i \in DOMAIN notifications' /\ (notifications[i] = "suppressed" => notifications'[i] = "suppressed")
  /\ \A a \in DOMAIN acks : a \in DOMAIN acks' /\ acks'[a] = acks[a]
  /\ \A i \in DOMAIN offered : i \in DOMAIN offered' /\ offered'[i] = offered[i]

\* Nothing on the tables is taken back.
LEMMA TablesGrow ==
  ASSUME TypeOK,
         \/ [Next]_vars
         \/ \E p \in Participants, i \in DOMAIN messages, now \in Nat : Reoffer(p, i, now)
  PROVE  EnvelopesKept /\ RowsStay
<1>1. /\ notifications \in [DOMAIN messages -> {"pending", "suppressed", "consumed"}]
      /\ \A i \in DOMAIN messages : messages[i] \in Message
      /\ acks \in Seq(AckRow)
  BY DEF TypeOK
<1>2. ASSUME UNCHANGED <<notifications, acks, offered>>
      PROVE  RowsStay
  BY <1>2 DEF RowsStay
<1>3. ASSUME NEW p, NEW i \in DOMAIN messages, NEW now, Reoffer(p, i, now)
      PROVE  EnvelopesKept /\ RowsStay
  <2>1. EnvelopesKept
    BY <1>1, <1>3 DEF Reoffer, EnvelopesKept, Message
  <2>2. RowsStay
    BY <1>3 DEF Reoffer, Reofferable, RowsStay
  <2> QED BY <2>1, <2>2
<1>4. ASSUME NEW p \in Participants, NEW now \in Sampled, Request(p, now)
      PROVE  RowsStay
  <2>1. CASE \E id \in MessageIds, to \in Participants, c \in Contents, s \in BOOLEAN :
               AcceptMessage(p, id, to, c, s, now)
    BY <1>1, <2>1 DEF AcceptMessage, IsNew, RowsStay
  <2>2. CASE PopNotify(p)
    BY <1>1, <2>2 DEF PopNotify, RowsStay
  <2>3. CASE ClaimNext(p, now) \/ ClaimNothing(p, now)
    BY <1>2, <2>3 DEF ClaimNext, ClaimNothing
  <2>4. CASE \E i \in DOMAIN messages, f \in Fences : AckLapsed(p, i, f, now)
    BY <1>2, <2>4 DEF AckLapsed
  <2>5. CASE \E i \in DOMAIN messages, f \in Fences, st \in AckStatuses, note \in Notes :
               Ack(p, i, f, st, note, now)
    <3>1. PICK row : acks' = Append(acks, row) /\ UNCHANGED <<notifications, offered>>
      BY <2>5 DEF Ack
    <3>2. \A a \in DOMAIN acks : a \in DOMAIN acks' /\ acks'[a] = acks[a]
      BY <1>1, <3>1
    <3> QED BY <3>1, <3>2 DEF RowsStay
  <2> QED BY <1>3, <1>4, <2>1, <2>2, <2>3, <2>4, <2>5 DEF Request
<1>5. ASSUME [Next]_vars
      PROVE  EnvelopesKept /\ RowsStay
  <2>1. EnvelopesKept
    BY <1>5, EnvelopesStep
  <2>2. RowsStay
    BY <1>2, <1>4, <1>5 DEF Next, FinishRun, Tick, tables, vars
  <2> QED BY <2>1, <2>2
<1> QED BY <1>3, <1>5

\* What participants remember, they keep, but for a seller made to forget.
LEMMA MemoriesStay ==
  ASSUME TownTypeOK, TownTypeOK', ~procs[Buyer].dying, RunnerTypeOK, [TownNext]_trackVars
  PROVE  /\ cast' = cast /\ fault' = fault
         /\ fired => fired'
         /\ marker => marker'
         /\ applications \in Nat /\ applications' \in Nat /\ applications <= applications'
         /\ runner.restarted => runner'.restarted
         /\ journal[Buyer] \subseteq journal'[Buyer]
<1> USE DEF memory, disk, control, kept, given
<1>1. Buyer # Seller /\ Buyer \in Participants /\ Participants = {Buyer, Seller}
  BY Names
<1>2. applications \in Nat /\ applications' \in Nat /\ DOMAIN journal = Participants
  BY DEF TownTypeOK
<1>3. ASSUME UNCHANGED <<memory, disk, control>>
      PROVE  /\ UNCHANGED <<cast, fault, runner, marker, journal, applications, fired>>
  BY <1>3
<1>4. ASSUME NEW p \in Participants, Participant(p)
      PROVE  /\ UNCHANGED <<cast, fault, runner>>
             /\ fired => fired'
             /\ marker => marker'
             /\ applications' \in {applications, applications + 1}
             /\ journal[Buyer] \subseteq journal'[Buyer]
  <2>1. CASE WaitForHint(p) \/ ClaimWork(p) \/ ClaimFoundNothing(p) \/ OfferRefused(p) \/ NoteSuppressed(p)
               \/ AckLooksAtFault(p) \/ AckRefused(p) \/ Leave(p)
    <3>1. UNCHANGED <<memory, disk, control>>
      BY <2>1 DEF WaitForHint, ClaimWork, ClaimFoundNothing, OfferRefused, NoteSuppressed, AckLooksAtFault,
        AckRefused, Leave
    <3> QED BY <1>2, <3>1
  <2>2. CASE OfferDuplicate(p) \/ DropAck(p) \/ AckAccepted(p)
    <3>1. UNCHANGED <<disk, control>>
      BY <2>2 DEF OfferDuplicate, DropAck, AckAccepted
    <3>2. fired => fired'
      BY <2>2 DEF OfferDuplicate, DropAck, AckAccepted
    <3> QED BY <1>2, <3>1, <3>2
  <2>3. CASE SendNew(p) \/ SendAgain(p)
    <3>1. journal[Buyer] \subseteq JournalAfterSend(p)[Buyer]
      BY <1>1, <1>2 DEF JournalAfterSend
    <3>2. UNCHANGED <<marker, applications, control>> /\ (fired => fired') /\ journal' = JournalAfterSend(p)
      BY <2>3 DEF SendNew, SendAgain
    <3> QED BY <1>2, <3>1, <3>2
  <2>4. CASE SellerHandles
    <3>1. journal'[Buyer] = journal[Buyer]
      BY <1>1, <1>2, <2>4 DEF SellerHandles, SellerRecalls, SellerApplies
    <3> QED BY <2>4, <3>1 DEF SellerHandles, SellerRecalls, SellerApplies
  <2>5. CASE SellerStalls \/ SellerWakes
    BY <2>5 DEF SellerStalls, SellerWakes
  <2>6. CASE MarkReported
    BY <1>1, <1>2, <2>6 DEF MarkReported
  <2>7. CASE BridgeHandles
    <3>1. journal'[Buyer] = journal[Buyer]
      BY <1>1, <1>2, <2>7 DEF BridgeHandles, BridgeRecalls, BridgeCompletes
    <3> QED BY <2>7, <3>1 DEF BridgeHandles, BridgeRecalls, BridgeCompletes
  <2>8. CASE BuyerHandles
    <3>1. journal[Buyer] \subseteq journal'[Buyer]
      BY <1>1, <1>2, <2>8 DEF BuyerHandles
    <3> QED BY <2>8, <3>1 DEF BuyerHandles
  <2> QED BY <1>4, <2>1, <2>2, <2>3, <2>4, <2>5, <2>6, <2>7, <2>8 DEF Participant
<1>5. ASSUME NEW p \in Participants, Think(p)
      PROVE  /\ UNCHANGED <<cast, fault, runner, marker, applications, fired>>
             /\ journal[Buyer] \subseteq journal'[Buyer]
  <2>1. journal[Buyer] \subseteq journal'[Buyer]
    BY <1>1, <1>2, <1>5, ThinkParts
  <2> QED BY <1>5, <2>1, ThinkParts
<1>6. ASSUME NEW p \in Participants, AwaitHint(p) \/ Accident(p)
      PROVE  UNCHANGED <<cast, fault, runner, marker, journal, applications, fired>>
  BY <1>6 DEF AwaitHint, Accident, Crash, Restart, AgentFails
<1>7. CASE Runner
  <2>1. runner.restarted => runner'.restarted
    BY <1>7 DEF Runner, EndWatch, SellerIsDone, RestartSeller, EndSettling, RunnerTypeOK
  <2> QED BY <1>2, <1>7, <2>1 DEF Runner, EndWatch, SellerIsDone, RestartSeller, EndSettling, Stops
<1>8. CASE TimePasses \/ UNCHANGED trackVars
  BY <1>2, <1>8 DEF TimePasses, trackVars
<1>9. CASE HandlerEnds
  <2>1. fired => fired'
    BY <1>9 DEF HandlerEnds, NotesLate, DropsLate, OffersLate, FindsNoOffer
  <2> QED BY <1>2, <1>9, <2>1 DEF HandlerEnds
<1> QED
  BY <1>2, <1>4, <1>5, <1>6, <1>7, <1>8, <1>9 DEF TownNext

\* What a standing consists of.
LEMMA StandingIs ==
  /\ Standing.messages = messages /\ Standing.hints = notifications /\ Standing.acks = acks
  /\ Standing.offered = offered /\ Standing.fired = fired /\ Standing.restarted = runner.restarted
  /\ Standing.applied = applications /\ Standing.replays = (IF Amnesiac THEN 2 ELSE 0)
  /\ Standing.known = journal[Buyer] /\ Standing.buyer = cast[Buyer]
BY DEF Standing

\* And after a step.
LEMMA NextStandingIs ==
  ASSUME cast' = cast, fault' = fault
  PROVE  /\ Standing'.messages = messages' /\ Standing'.hints = notifications' /\ Standing'.acks = acks'
         /\ Standing'.offered = offered' /\ Standing'.fired = fired'
         /\ Standing'.restarted = runner'.restarted
         /\ Standing'.applied = applications' /\ Standing'.replays = (IF Amnesiac THEN 2 ELSE 0)
         /\ Standing'.known = journal'[Buyer] /\ Standing'.buyer = cast[Buyer]
BY DEF Standing, Amnesiac, Scripted

\* The town's standing grows with every step.
LEMMA StandingGrows ==
  ASSUME TownInv, TalkInv, [TownNext]_trackVars
  PROVE  GrewTo(Standing, Standing')
<1>1. TownInv' /\ TypeOK /\ TypeOK' /\ TownTypeOK /\ TownTypeOK' /\ RunnerTypeOK /\ ~procs[Buyer].dying
  BY TownStep DEF TownInv, FencingInv, TalkInv, BuyerTells
<1>2. EnvelopesKept /\ RowsStay
  BY <1>1, TownTables, TablesGrow
<1>3. /\ applications \in Nat /\ applications' \in Nat /\ applications <= applications'
      /\ journal[Buyer] \subseteq journal'[Buyer]
  BY <1>1, MemoriesStay
<1>4. cast' = cast /\ fault' = fault
  BY <1>1, MemoriesStay
<1>5. fired => fired'
  BY <1>1, MemoriesStay
<1>6. runner.restarted => runner'.restarted
  BY <1>1, MemoriesStay
<1>7. \A i \in DOMAIN messages :
        /\ i \in DOMAIN messages' /\ messages'[i].content = messages[i].content
        /\ messages'[i].attempts >= messages[i].attempts
        /\ messages[i].attempts \in Nat /\ messages'[i].attempts \in Nat
  BY <1>1, <1>2 DEF EnvelopesKept, TypeOK, Message
<1> DEFINE s == Standing
           t == Standing'
<1>8. /\ s.messages = messages /\ s.hints = notifications /\ s.acks = acks
      /\ s.offered = offered /\ s.fired = fired /\ s.restarted = runner.restarted
      /\ s.applied = applications /\ s.replays = (IF Amnesiac THEN 2 ELSE 0)
      /\ s.known = journal[Buyer] /\ s.buyer = cast[Buyer]
  BY StandingIs
<1>9. /\ t.messages = messages' /\ t.hints = notifications' /\ t.acks = acks'
      /\ t.offered = offered' /\ t.fired = fired' /\ t.restarted = runner'.restarted
      /\ t.applied = applications' /\ t.replays = (IF Amnesiac THEN 2 ELSE 0)
      /\ t.known = journal'[Buyer] /\ t.buyer = cast[Buyer]
  <2> HIDE DEF t
  <2>2. /\ t.messages = messages' /\ t.hints = notifications' /\ t.acks = acks'
        /\ t.offered = offered' /\ t.fired = fired' /\ t.restarted = runner'.restarted
    BY <1>4, NextStandingIs DEF t
  <2>3. t.applied = applications' /\ t.replays = (IF Amnesiac THEN 2 ELSE 0)
    BY <1>4, NextStandingIs DEF t
  <2>4. t.known = journal'[Buyer] /\ t.buyer = cast[Buyer]
    BY <1>4, NextStandingIs DEF t
  <2> QED BY <2>2, <2>3, <2>4
<1> HIDE DEF s, t
<1>10. \A i \in DOMAIN s.messages :
         /\ i \in DOMAIN t.messages
         /\ t.messages[i].content = s.messages[i].content
         /\ t.messages[i].attempts >= s.messages[i].attempts
         /\ s.messages[i].attempts \in Nat /\ t.messages[i].attempts \in Nat
  BY <1>7, <1>8, <1>9
<1>11. /\ \A i \in DOMAIN s.hints :
            i \in DOMAIN t.hints /\ (s.hints[i] = "suppressed" => t.hints[i] = "suppressed")
       /\ \A a \in DOMAIN s.acks : a \in DOMAIN t.acks /\ t.acks[a] = s.acks[a]
       /\ \A i \in DOMAIN s.offered : i \in DOMAIN t.offered /\ t.offered[i] = s.offered[i]
  BY <1>2, <1>8, <1>9 DEF RowsStay
<1>12. /\ s.fired => t.fired
       /\ s.restarted => t.restarted
       /\ s.known \subseteq t.known
       /\ t.buyer = s.buyer
  <2>1. s.fired => t.fired
    BY <1>8, <1>9, <1>5
  <2>2. s.restarted => t.restarted
    BY <1>8, <1>9, <1>6
  <2>3. s.known \subseteq t.known /\ t.buyer = s.buyer
    BY <1>3, <1>8, <1>9
  <2> QED BY <2>1, <2>2, <2>3
<1>13. s.applied \in Nat /\ t.applied \in Nat /\ s.applied <= t.applied
  BY <1>3, <1>8, <1>9
<1>14. t.replays = s.replays /\ s.replays \in Nat
  BY <1>8, <1>9
<1>15. GrewTo(s, t)
  BY <1>10, <1>11, <1>12, <1>13, <1>14 DEF GrewTo
<1> QED BY <1>15 DEF s, t

\* What was true of an event stays true of it.
LEMMA AttestedGrows ==
  ASSUME NEW e, NEW s, NEW t, Attested(e, s), GrewTo(s, t)
  PROVE  Attested(e, t)
<1>1. e.kind = "message_accepted" => AcceptedTrue(e, t)
  BY DEF Attested, AcceptedTrue, GrewTo
<1>2. e.kind = "ack_recorded" => AckedTrue(e, t)
  BY DEF Attested, AckedTrue, GrewTo
<1>3. e.kind = "message_claimed" =>
        e.subject \in DOMAIN t.messages /\ e.attempt \in Nat /\ e.attempt <= t.messages[e.subject].attempts
  BY DEF Attested, GrewTo
<1>4. /\ e.kind = "duplicate_offered" => e.subject \in DOMAIN t.offered /\ t.offered[e.subject] = e.fence
      /\ e.kind = "ack_dropped" => t.fired
      /\ e.kind = "notify_suppressed" => QuoteRequest \in DOMAIN t.hints /\ t.hints[QuoteRequest] = "suppressed"
      /\ e.kind = "participant_restarted" => t.restarted
  BY DEF Attested, GrewTo
<1>5. e.kind = "replay_returned" /\ e.who = Seller => t.replays <= t.applied
  BY DEF Attested, GrewTo
<1> QED BY <1>1, <1>2, <1>3, <1>4, <1>5 DEF Attested

-----------------------------------------------------------------------------
(* The record stays true.                                                  *)

\* A record to which nothing is added.
LEMMA RecordStays ==
  ASSUME RecordTrue, GrewTo(Standing, Standing'), log' = log, DOMAIN messages' = DOMAIN messages
  PROVE  RecordTrue'
<1> DEFINE s == Standing
           t == Standing'
<1>1. \A n \in DOMAIN log : Attested(log[n], s)
  BY DEF RecordTrue
<1>2. GrewTo(s, t)
  OBVIOUS
<1> HIDE DEF s, t
<1>3. \A n \in DOMAIN log : Attested(log[n], t)
  BY <1>1, <1>2, AttestedGrows
<1>4. \A n \in DOMAIN log' : Attested(log'[n], Standing')
  BY <1>3 DEF t
<1>5. /\ IsSequence(log)
      /\ \A n, m \in DOMAIN log :
           IsAccepted(log[n]) /\ IsAccepted(log[m]) /\ log[n].subject = log[m].subject => n = m
      /\ \A n, m \in DOMAIN log :
           IsAck(log[n]) /\ IsAck(log[m]) /\ log[n].fence = log[m].fence => n = m
      /\ \A i \in DOMAIN messages : \E n \in DOMAIN log : IsAccepted(log[n]) /\ log[n].subject = i
  BY DEF RecordTrue
<1>6. IsSequence(log)'
  BY <1>5 DEF IsSequence
<1> QED BY <1>4, <1>5, <1>6 DEF RecordTrue

\* A record to which events are added that are true and new.
LEMMA RecordGrows ==
  ASSUME RecordTrue, GrewTo(Standing, Standing'),
         NEW events, IsSequence(events), log' = log \o events,
         \A k \in DOMAIN events : Attested(events[k], Standing'),
         \A k, m \in DOMAIN events :
           \/ IsAccepted(events[k]) /\ IsAccepted(events[m])
           \/ IsAck(events[k]) /\ IsAck(events[m])
           => k = m,
         \A k \in DOMAIN events : IsAccepted(events[k]) => events[k].subject \notin DOMAIN messages,
         \A k \in DOMAIN events, a \in DOMAIN acks : IsAck(events[k]) => events[k].fence # acks[a].fence,
         \A i \in DOMAIN messages' :
           i \in DOMAIN messages \/ \E k \in DOMAIN events : IsAccepted(events[k]) /\ events[k].subject = i
  PROVE  RecordTrue'
<1> DEFINE s == Standing
           t == Standing'
           E == log
           F == log \o events
<1>1. IsSequence(E) /\ IsSequence(events)
  BY DEF RecordTrue
<1>2. /\ \A n \in DOMAIN E : Attested(E[n], s)
      /\ \A n, m \in DOMAIN E :
           IsAccepted(E[n]) /\ IsAccepted(E[m]) /\ E[n].subject = E[m].subject => n = m
      /\ \A n, m \in DOMAIN E : IsAck(E[n]) /\ IsAck(E[m]) /\ E[n].fence = E[m].fence => n = m
      /\ \A i \in DOMAIN messages : \E n \in DOMAIN E : IsAccepted(E[n]) /\ E[n].subject = i
  BY DEF RecordTrue
<1>3. /\ \A n \in DOMAIN E : IsAccepted(E[n]) => E[n].subject \in DOMAIN messages
      /\ \A n \in DOMAIN E : IsAck(E[n]) => \E a \in DOMAIN acks : acks[a].fence = E[n].fence
  BY <1>2, StandingIs DEF Attested, AcceptedTrue, AckedTrue, IsAccepted, IsAck
<1>4. GrewTo(s, t) /\ \A k \in DOMAIN events : Attested(events[k], t)
  OBVIOUS
<1> HIDE DEF s, t, E
<1>5. \A n \in DOMAIN E : Attested(E[n], t)
  BY <1>2, <1>4, AttestedGrows
<1>6. /\ IsSequence(F)
      /\ \A n \in DOMAIN E : n \in DOMAIN F /\ F[n] = E[n]
  BY <1>1, Appending DEF E
<1>7. \A k \in DOMAIN events : Len(E) + k \in DOMAIN F /\ F[Len(E) + k] = events[k]
  BY <1>1, Appending DEF E
<1>8. \A n \in DOMAIN F :
        n \in DOMAIN E \/ (n > Len(E) /\ n - Len(E) \in DOMAIN events /\ F[n] = events[n - Len(E)])
  BY <1>1, Appending DEF E
<1>9. DOMAIN F \subseteq Nat /\ Len(E) \in Nat
  BY <1>1, <1>6, Lengths
<1> HIDE DEF F
<1>10. \A n \in DOMAIN F : Attested(F[n], t)
  BY <1>4, <1>5, <1>6, <1>8
<1>11. ASSUME NEW n \in DOMAIN F, NEW m \in DOMAIN F,
              IsAccepted(F[n]), IsAccepted(F[m]), F[n].subject = F[m].subject
       PROVE  n = m
  <2>1. CASE n \in DOMAIN E /\ m \in DOMAIN E
    BY <1>2, <1>6, <1>11, <2>1
  <2>2. CASE n \in DOMAIN E /\ m \notin DOMAIN E
    BY <1>3, <1>6, <1>8, <1>11, <2>2
  <2>3. CASE n \notin DOMAIN E /\ m \in DOMAIN E
    BY <1>3, <1>6, <1>8, <1>11, <2>3
  <2>4. CASE n \notin DOMAIN E /\ m \notin DOMAIN E
    <3>1. n - Len(E) = m - Len(E)
      BY <1>8, <1>11, <2>4
    <3> QED BY <1>9, <3>1
  <2> QED BY <2>1, <2>2, <2>3, <2>4
<1>12. ASSUME NEW n \in DOMAIN F, NEW m \in DOMAIN F,
              IsAck(F[n]), IsAck(F[m]), F[n].fence = F[m].fence
       PROVE  n = m
  <2>1. CASE n \in DOMAIN E /\ m \in DOMAIN E
    BY <1>2, <1>6, <1>12, <2>1
  <2>2. CASE n \in DOMAIN E /\ m \notin DOMAIN E
    BY <1>3, <1>6, <1>8, <1>12, <2>2
  <2>3. CASE n \notin DOMAIN E /\ m \in DOMAIN E
    BY <1>3, <1>6, <1>8, <1>12, <2>3
  <2>4. CASE n \notin DOMAIN E /\ m \notin DOMAIN E
    <3>1. n - Len(E) = m - Len(E)
      BY <1>8, <1>12, <2>4
    <3> QED BY <1>9, <3>1
  <2> QED BY <2>1, <2>2, <2>3, <2>4
<1>13. \A i \in DOMAIN messages' : \E n \in DOMAIN F : IsAccepted(F[n]) /\ F[n].subject = i
  BY <1>2, <1>6, <1>7
<1>14. log' = F
  BY DEF F, E
<1>15. \A n \in DOMAIN log' : Attested(log'[n], Standing')
  BY <1>10, <1>14 DEF t
<1>16. IsSequence(log)'
  BY <1>6, <1>14 DEF IsSequence
<1> QED BY <1>11, <1>12, <1>13, <1>14, <1>15, <1>16 DEF RecordTrue

\* A record to which one event is added.
LEMMA RecordOneMore ==
  ASSUME RecordTrue, GrewTo(Standing, Standing'),
         NEW e, log' = log \o <<e>>, Attested(e, Standing'),
         IsAccepted(e) => e.subject \notin DOMAIN messages,
         \A a \in DOMAIN acks : IsAck(e) => e.fence # acks[a].fence,
         \A i \in DOMAIN messages' : i \in DOMAIN messages \/ (IsAccepted(e) /\ e.subject = i)
  PROVE  RecordTrue'
<1> DEFINE events == <<e>>
<1>1. IsSequence(events)
  <2>1. <<e>> \in Seq({e})
    OBVIOUS
  <2> QED BY <2>1 DEF IsSequence
<1>2. DOMAIN events = {1} /\ events[1] = e
  OBVIOUS
<1>3. log' = log \o events
  OBVIOUS
<1> HIDE DEF events
<1>4. \A k \in DOMAIN events : k = 1 /\ events[k] = e
  BY <1>2
<1>5. 1 \in DOMAIN events
  BY <1>2
<1>6. \A k \in DOMAIN events : Attested(events[k], Standing')
  BY <1>4
<1>7. \A k, m \in DOMAIN events : k = m
  BY <1>4
<1>8. \A k \in DOMAIN events : IsAccepted(events[k]) => events[k].subject \notin DOMAIN messages
  BY <1>4
<1>9. \A k \in DOMAIN events, a \in DOMAIN acks : IsAck(events[k]) => events[k].fence # acks[a].fence
  BY <1>4
<1>10. \A i \in DOMAIN messages' :
         i \in DOMAIN messages \/ \E k \in DOMAIN events : IsAccepted(events[k]) /\ events[k].subject = i
  BY <1>4, <1>5
<1> QED BY <1>1, <1>3, <1>6, <1>7, <1>8, <1>9, <1>10, RecordGrows

\* A record to which events are added that are no acceptances and no acknowledgements.
LEMMA RecordQuietly ==
  ASSUME RecordTrue, GrewTo(Standing, Standing'), DOMAIN messages' = DOMAIN messages,
         NEW events, IsSequence(events), log' = log \o events,
         \A k \in DOMAIN events : /\ Attested(events[k], Standing')
                                  /\ ~IsAccepted(events[k]) /\ ~IsAck(events[k])
  PROVE  RecordTrue'
BY RecordGrows

\* The sweep's events.
LEMMA ExpiryEventsAre ==
  ASSUME TypeOK, NEW now
  PROVE  /\ IsSequence(ExpiryEvents(now))
         /\ \A k \in DOMAIN ExpiryEvents(now) : ExpiryEvents(now)[k].kind = "claim_expired"
<1> DEFINE n == Cardinality(Lapsing(now))
           ev(k) == Event("claim_expired", claims[Nth(Lapsing(now), k)].message)
           S == {ev(k) : k \in 1..n}
<1>1. n \in Nat
  <2>1. IsSequence(claims)
    BY DEF TypeOK, IsSequence
  <2>2. Lapsing(now) \in SUBSET DOMAIN claims
    BY DEF Lapsing, Fences
  <2> QED BY <2>1, <2>2, Lengths
<1>2. ExpiryEvents(now) = [k \in 1..n |-> ev(k)]
  BY DEF ExpiryEvents
<1>3. \A k : ev(k).kind = "claim_expired"
  BY DEF Event
<1> HIDE DEF n, ev
<1>4. ExpiryEvents(now) \in [1..n -> S]
  BY <1>2
<1>5. ExpiryEvents(now) \in Seq(S)
  BY <1>1, <1>4, SeqDef
<1>6. IsSequence(ExpiryEvents(now))
  BY <1>5 DEF IsSequence
<1> QED BY <1>2, <1>3, <1>6

\* Messages come from first sends only.
LEMMA MessagesFrom ==
  ASSUME TownInv, [TownNext]_trackVars
  PROVE  DOMAIN messages' = DOMAIN messages \/ \E p \in Participants : SendNew(p)
<1> USE DEF mailbox
<1>1. TypeOK /\ TownTypeOK /\ Sampled \subseteq Nat
  BY DEF TownInv, FencingInv, Sampled
<1>2. ASSUME NEW p \in Participants, Participant(p), ~SendNew(p)
      PROVE  DOMAIN messages' = DOMAIN messages
  <2>1. CASE WaitForHint(p)
    BY <2>1 DEF WaitForHint, Notify, PopNotify
  <2>2. CASE ClaimWork(p)
    BY <1>1, <2>2, ClaimsKeepRows DEF ClaimWork, RowsKept
  <2>3. CASE ClaimFoundNothing(p)
    BY <1>1, <2>3, ClaimsKeepRows DEF ClaimFoundNothing, RowsKept
  <2>4. CASE OfferDuplicate(p)
    BY <2>4 DEF OfferDuplicate, Reoffer
  <2>5. CASE AckAccepted(p)
    BY <2>5, AckAdds
  <2>6. CASE AckRefused(p)
    BY <2>6 DEF AckRefused, AckLapsed
  <2>7. CASE UNCHANGED mailbox
    BY <2>7
  <2> QED BY <1>2, <2>1, <2>2, <2>3, <2>4, <2>5, <2>6, <2>7
    DEF Participant, OfferRefused, SellerHandles, SellerStalls, SellerWakes, MarkReported,
        BridgeHandles, BuyerHandles, SendAgain, NoteSuppressed, AckLooksAtFault, DropAck, Leave
<1>3. ASSUME NEW p \in Participants, Think(p) \/ AwaitHint(p) \/ Accident(p)
      PROVE  DOMAIN messages' = DOMAIN messages
  BY <1>3 DEF Think, AwaitHint, Notify, PopNotify, Accident, Crash, Restart, AgentFails
<1>4. CASE Runner \/ TimePasses \/ UNCHANGED trackVars
  BY <1>4 DEF Runner, EndWatch, SellerIsDone, RestartSeller, EndSettling, FinishRun, TimePasses,
              Tick, tables, trackVars
<1>5. CASE HandlerEnds
  BY <1>5, HandlerKeepsRows DEF RowsKept
<1> QED BY <1>2, <1>3, <1>4, <1>5 DEF TownNext

\* Claimed work is on record with its delivery.
LEMMA RecordsClaim ==
  ASSUME TownInv, RecordTrue, GrewTo(Standing, Standing'), cast' = cast, fault' = fault,
         NEW p \in Participants, ClaimWork(p)
  PROVE  RecordTrue'
<1>1. PICK now \in Sampled :
        /\ ClaimNext(p, now)
        /\ log' = log \o (ExpiryEvents(now) \o <<DeliveryEvent(p, "message_claimed")>>)
  BY DEF ClaimWork, Record
<1>2. PICK i \in Oldest(Waiting(p, now)) :
        /\ messages' = [MessagesAfterExpiry(now) EXCEPT ![i].status = "claimed", ![i].attempts = @ + 1]
        /\ claims' = Append(ClaimsAfterExpiry(now), NewClaim(p, i, now))
  BY <1>1 DEF ClaimNext
<1>3. TypeOK /\ i \in DOMAIN messages /\ now \in Nat /\ messages[i].attempts \in Nat
  BY DEF TownInv, FencingInv, TypeOK, Oldest, Waiting, Sampled, Message
<1>4. /\ ClaimsAfterExpiry(now) \in Seq(Claim)
      /\ MessagesAfterExpiry(now) \in [DOMAIN messages -> Message]
  BY <1>3, ExpiryTypes
<1>5. claims'[Len(claims')] = NewClaim(p, i, now)
  BY <1>2, <1>4
<1>6. MessagesAfterExpiry(now)[i].attempts = messages[i].attempts
  BY <1>3 DEF MessagesAfterExpiry, TypeOK, Message
<1>7. /\ DOMAIN messages' = DOMAIN messages
      /\ messages'[i].attempts = messages[i].attempts + 1
  BY <1>2, <1>3, <1>4, <1>6 DEF Message
<1> DEFINE e == DeliveryEvent(p, "message_claimed")
           X == ExpiryEvents(now)
           Y == <<e>>
           t == Standing'
<1>8. e.kind = "message_claimed" /\ e.subject = i /\ e.attempt = messages[i].attempts + 1
  BY <1>5 DEF DeliveryEvent, Event, NewClaim
<1>9. t.messages = messages'
  BY NextStandingIs
<1>10. IsSequence(X) /\ \A k \in DOMAIN X : X[k].kind = "claim_expired"
  BY <1>3, ExpiryEventsAre
<1>11. IsSequence(Y) /\ DOMAIN Y = {1} /\ Y[1] = e
  <2>1. Y \in Seq({e})
    OBVIOUS
  <2>2. DOMAIN Y = {1} /\ Y[1] = e
    OBVIOUS
  <2> QED BY <2>1, <2>2 DEF IsSequence
<1>12. log' = log \o (X \o Y)
  BY <1>1
<1> HIDE DEF e, X, Y, t
<1>13. IsSequence(X \o Y)
  BY <1>10, <1>11, Appending
<1>14. \A n \in DOMAIN (X \o Y) :
         n \in DOMAIN X \/ (n > Len(X) /\ n - Len(X) \in DOMAIN Y /\ (X \o Y)[n] = Y[n - Len(X)])
  BY <1>10, <1>11, Appending
<1>15. \A n \in DOMAIN X : (X \o Y)[n] = X[n]
  BY <1>10, <1>11, Appending
<1>16. \A n \in DOMAIN (X \o Y) : (X \o Y)[n].kind = "claim_expired" \/ (X \o Y)[n] = e
  BY <1>10, <1>11, <1>14, <1>15
<1>17. Attested(e, t)
  BY <1>3, <1>7, <1>8, <1>9 DEF Attested
<1>18. \A n \in DOMAIN (X \o Y) :
         /\ Attested((X \o Y)[n], t)
         /\ ~IsAccepted((X \o Y)[n]) /\ ~IsAck((X \o Y)[n])
  BY <1>8, <1>16, <1>17 DEF Attested, IsAccepted, IsAck
<1> QED BY <1>7, <1>12, <1>13, <1>18, RecordQuietly DEF t

\* An acknowledgement is on record once, with what it said.
LEMMA RecordsAck ==
  ASSUME TownInv, TalkInv, RecordTrue, GrewTo(Standing, Standing'), cast' = cast, fault' = fault,
         NEW p \in Participants, AckAccepted(p)
  PROVE  RecordTrue'
<1> DEFINE i == procs[p].message
           f == procs[p].fence
           e == [Event("ack_recorded", i) EXCEPT !.who = p, !.fence = f, !.attempt = claims[f].attempt,
                   !.status = procs[p].status, !.note = procs[p].note]
           t == Standing'
<1>1. PICK now \in Sampled : Ack(p, i, f, procs[p].status, procs[p].note, now)
  BY DEF AckAccepted
<1>2. log' = log \o <<e>>
  BY DEF AckAccepted, Record
<1>3. /\ acks \in Seq(AckRow)
      /\ acks' = Append(acks, [message |-> i, fence |-> f, status |-> procs[p].status, note |-> procs[p].note])
  BY <1>1 DEF Ack, TownInv, FencingInv, TypeOK
<1>4. \A a \in DOMAIN acks : acks[a].fence # f
  BY <1>1 DEF Ack, Current, TownInv, FencingInv, RowsRefer, IsAnswered
<1>5. DOMAIN messages' = DOMAIN messages
  BY AckAdds
<1>6. procs[p].note \subseteq Flags /\ (p = Buyer => procs[p] = procs[Buyer])
  BY DEF TownInv, TownTypeOK, Process
<1>7. t.acks = acks' /\ t.known = journal'[Buyer] /\ t.buyer = cast[Buyer] /\ journal' = journal
  BY NextStandingIs DEF AckAccepted, disk
<1>8. /\ e.kind = "ack_recorded" /\ e.subject = i /\ e.fence = f /\ e.who = p
      /\ e.status = procs[p].status /\ e.note = procs[p].note
  BY DEF Event
<1>9. \E a \in DOMAIN acks' : /\ acks'[a].message = i /\ acks'[a].fence = f
                              /\ acks'[a].status = procs[p].status /\ acks'[a].note = procs[p].note
  <2>1. Len(acks) + 1 \in DOMAIN acks'
    BY <1>3
  <2>2. acks'[Len(acks) + 1] = [message |-> i, fence |-> f, status |-> procs[p].status, note |-> procs[p].note]
    BY <1>3
  <2> QED BY <2>1, <2>2
<1>10. p = Buyer /\ "right" \in procs[p].note /\ cast[Buyer] # "model" => \E j \in journal[Buyer] : j.message = i
  BY <1>6 DEF TalkInv, BuyerTells
<1> HIDE DEF e, i, f, t
<1>11. Attested(e, t)
  BY <1>6, <1>7, <1>8, <1>9, <1>10 DEF Attested, AckedTrue
<1>12. ~IsAccepted(e)
  BY <1>8 DEF IsAccepted
<1> QED BY <1>2, <1>4, <1>5, <1>8, <1>11, <1>12, RecordOneMore DEF t

\* An acceptance is on record once, and a seller's reply names the request or nothing.
LEMMA RecordsAcceptance ==
  ASSUME TownInv, TalkInv, RecordTrue, GrewTo(Standing, Standing'), cast' = cast, fault' = fault,
         NEW p \in Participants, SendNew(p)
  PROVE  RecordTrue'
<1> DEFINE id == procs[p].reply
           e == [Event("message_accepted", id) EXCEPT
                   !.who = p, !.content = kindOf(id), !.to = other(p), !.names = procs[p].message]
           t == Standing'
<1>1. log' = log \o <<e>> /\ At(p, "sending")
  BY DEF SendNew, Record
<1>2. DOMAIN messages' = DOMAIN messages \cup {id} /\ id \notin DOMAIN messages
  BY SendAdds
<1>3. id # QuoteRequest => procs[p].message \in {Nothing, QuoteRequest}
  BY <1>1, SendIds, Names DEF TownInv, TalkInv, SellerTells
<1>4. t.messages = messages'
  BY NextStandingIs
<1>5. /\ e.kind = "message_accepted" /\ e.subject = id /\ e.content = kindOf(id)
      /\ e.names = procs[p].message
  BY DEF Event
<1> HIDE DEF e, id, t
<1>6. Attested(e, t)
  BY <1>2, <1>3, <1>4, <1>5 DEF Attested, AcceptedTrue
<1>7. ~IsAck(e) /\ IsAccepted(e)
  BY <1>5 DEF IsAck, IsAccepted
<1> QED BY <1>1, <1>2, <1>5, <1>6, <1>7, RecordOneMore DEF t

\* A send of a reply that is already accepted: after the crash, by a seller that applied again.
LEMMA RepliesTwice ==
  ASSUME TownInv, TalkInv, SendAgain(Seller), Amnesiac
  PROVE  applications >= 2
<1>1. procs[Seller].pc = "sending" /\ procs[Seller].reply \in DOMAIN messages
  BY DEF SendAgain, At
<1>2. procs[Seller].reply \in Replies
  BY <1>1, SendIds, Names DEF TownInv, At
<1>3. Forgetting(procs[Seller], journal[Seller], marker, applications, messages)
  BY DEF TalkInv, SellerTells
<1>4. applications = 2
  BY <1>1, <1>2, <1>3 DEF Forgetting
<1> QED BY <1>4

\* A duplicate is on record with its offer.
LEMMA RecordsOffer ==
  ASSUME TownInv, RecordTrue, GrewTo(Standing, Standing'), cast' = cast, fault' = fault,
         NEW p, NEW i, NEW since, Reoffer(p, i, since),
         Record(<<DeliveryEvent(p, "duplicate_offered")>>)
  PROVE  RecordTrue'
<1> DEFINE e == DeliveryEvent(p, "duplicate_offered")
           t == Standing'
<1>1. log' = log \o <<e>>
  BY DEF Record
<1>2. claims' = Append(claims, NewClaim(p, i, since)) /\ claims \in Seq(Claim)
  BY DEF Reoffer, TownInv, FencingInv, TypeOK
<1>3. claims'[Len(claims')] = NewClaim(p, i, since) /\ Len(claims') = Len(claims) + 1
  BY <1>2
<1>4. e.kind = "duplicate_offered" /\ e.subject = i /\ e.fence = Len(claims) + 1
  BY <1>3 DEF DeliveryEvent, Event, NewClaim
<1>5. i \in DOMAIN offered' /\ offered'[i] = Len(claims) + 1 /\ DOMAIN messages' = DOMAIN messages
  BY DEF Reoffer
<1>6. t.offered = offered'
  BY NextStandingIs
<1> HIDE DEF e, t
<1>7. Attested(e, t) /\ ~IsAccepted(e) /\ ~IsAck(e)
  BY <1>4, <1>5, <1>6 DEF Attested, IsAccepted, IsAck
<1> QED BY <1>1, <1>5, <1>7, RecordOneMore DEF t

\* Every step of the town keeps the record true.
LEMMA RecordStep ==
  ASSUME TownInv, TalkInv, RecordTrue, [TownNext]_trackVars
  PROVE  RecordTrue'
<1> USE DEF mailbox
<1> DEFINE t == Standing'
<1>1. GrewTo(Standing, Standing')
  BY StandingGrows
<1>2. cast' = cast /\ fault' = fault /\ applications <= applications' /\ applications \in Nat
      /\ applications' \in Nat /\ TypeOK /\ TownTypeOK
  <2>1. TownTypeOK /\ TownTypeOK' /\ ~procs[Buyer].dying /\ RunnerTypeOK /\ TypeOK
    BY TownStep DEF TownInv, FencingInv, TalkInv, BuyerTells
  <2> QED BY <2>1, MemoriesStay
<1>3. /\ t.offered = offered' /\ t.fired = fired' /\ t.restarted = runner'.restarted /\ t.hints = notifications'
      /\ t.applied = applications' /\ t.replays = (IF Amnesiac THEN 2 ELSE 0)
  BY <1>2, NextStandingIs
<1> HIDE DEF t
<1>4. ASSUME log' = log, DOMAIN messages' = DOMAIN messages
      PROVE  RecordTrue'
  BY <1>1, <1>4, RecordStays
<1>5. ASSUME NEW e, log' = log \o <<e>>, Attested(e, t), ~IsAccepted(e), ~IsAck(e),
             DOMAIN messages' = DOMAIN messages
      PROVE  RecordTrue'
  BY <1>1, <1>5, RecordOneMore DEF t
<1>6. ASSUME NEW p \in Participants, Participant(p)
      PROVE  RecordTrue'
  <2>1. CASE SendNew(p)
    BY <1>1, <1>2, <2>1, RecordsAcceptance
  <2>2. CASE ~SendNew(p)
    <3>1. CASE ClaimWork(p)
      BY <1>1, <1>2, <3>1, RecordsClaim
    <3>2. CASE AckAccepted(p)
      BY <1>1, <1>2, <3>2, RecordsAck
    <3>3. CASE ClaimFoundNothing(p)
      <4>1. PICK now \in Sampled : ClaimNothing(p, now) /\ log' = log \o ExpiryEvents(now)
        BY <3>3 DEF ClaimFoundNothing, Record
      <4>2. DOMAIN messages' = DOMAIN messages
        BY <4>1 DEF ClaimNothing, MessagesAfterExpiry
      <4>3. IsSequence(ExpiryEvents(now)) /\ \A k \in DOMAIN ExpiryEvents(now) :
              ExpiryEvents(now)[k].kind = "claim_expired"
        BY <1>2, ExpiryEventsAre
      <4>4. \A k \in DOMAIN ExpiryEvents(now) :
              /\ Attested(ExpiryEvents(now)[k], Standing')
              /\ ~IsAccepted(ExpiryEvents(now)[k]) /\ ~IsAck(ExpiryEvents(now)[k])
        BY <4>3 DEF Attested, IsAccepted, IsAck
      <4> QED BY <1>1, <4>1, <4>2, <4>3, <4>4, RecordQuietly
    <3>4. CASE OfferDuplicate(p)
      BY <1>1, <1>2, <3>4, RecordsOffer DEF OfferDuplicate
    <3>5. CASE NoteSuppressed(p)
      <4> DEFINE e == Event("notify_suppressed", procs[p].reply)
      <4>1. log' = log \o <<e>> /\ UNCHANGED mailbox /\ procs[p].pc = "suppressing"
        BY <3>5 DEF NoteSuppressed, Record, At
      <4>2. p = Buyer
        BY <4>1, Names DEF TownInv, SellerInv, SellerGood, SellerStands
      <4>3. QuoteRequest \in DOMAIN notifications' /\ notifications'[QuoteRequest] = "suppressed"
        BY <4>1, <4>2 DEF TalkInv, BuyerTells
      <4>4. e.kind = "notify_suppressed"
        BY DEF Event
      <4> HIDE DEF e
      <4>5. Attested(e, t) /\ ~IsAccepted(e) /\ ~IsAck(e)
        BY <1>3, <4>3, <4>4 DEF Attested, IsAccepted, IsAck
      <4> QED BY <1>5, <4>1, <4>5
    <3>6. CASE SendAgain(p)
      <4> DEFINE e == [Event("replay_returned", procs[p].reply) EXCEPT !.who = p]
      <4>1. log' = log \o <<e>> /\ UNCHANGED mailbox
        BY <3>6 DEF SendAgain, Record
      <4>2. e.kind = "replay_returned" /\ e.who = p
        BY DEF Event
      <4>3. p = Seller => t.replays <= t.applied
        BY <1>2, <1>3, <3>6, RepliesTwice
      <4> HIDE DEF e
      <4>4. Attested(e, t) /\ ~IsAccepted(e) /\ ~IsAck(e)
        BY <4>2, <4>3 DEF Attested, IsAccepted, IsAck
      <4> QED BY <1>5, <4>1, <4>4
    <3>7. CASE DropAck(p)
      <4> DEFINE e == [Event("ack_dropped", procs[p].message) EXCEPT !.who = p]
      <4>1. log' = log \o <<e>> /\ UNCHANGED mailbox /\ fired'
        BY <3>7 DEF DropAck, Record
      <4>2. e.kind = "ack_dropped"
        BY DEF Event
      <4> HIDE DEF e
      <4>3. Attested(e, t) /\ ~IsAccepted(e) /\ ~IsAck(e)
        BY <1>3, <4>1, <4>2 DEF Attested, IsAccepted, IsAck
      <4> QED BY <1>5, <4>1, <4>3
    <3>8. CASE AckRefused(p)
      <4> DEFINE e == Event("stale_fence_rejected", procs[p].message)
      <4>1. log' = log \o <<e>>
        BY <3>8 DEF AckRefused, Record
      <4>2. DOMAIN messages' = DOMAIN messages
        BY <3>8 DEF AckRefused, AckLapsed
      <4>3. e.kind = "stale_fence_rejected"
        BY DEF Event
      <4> HIDE DEF e
      <4>4. Attested(e, t) /\ ~IsAccepted(e) /\ ~IsAck(e)
        BY <4>3 DEF Attested, IsAccepted, IsAck
      <4> QED BY <1>5, <4>1, <4>2, <4>4
    <3>9. CASE WaitForHint(p)
      BY <1>4, <3>9 DEF WaitForHint, Notify, PopNotify
    <3>10. CASE UNCHANGED <<messages, log>>
      BY <1>4, <3>10
    <3> QED BY <1>6, <2>2, <3>1, <3>2, <3>3, <3>4, <3>5, <3>6, <3>7, <3>8, <3>9, <3>10
      DEF Participant, OfferRefused, SellerHandles, SellerStalls, SellerWakes, MarkReported,
          BridgeHandles, BuyerHandles, AckLooksAtFault, Leave
  <2> QED BY <2>1, <2>2
<1>7. ASSUME NEW p \in Participants, Think(p) \/ AwaitHint(p) \/ Accident(p)
      PROVE  RecordTrue'
  <2>1. DOMAIN messages' = DOMAIN messages /\ log' = log
    BY <1>7 DEF Think, AwaitHint, Notify, PopNotify, Accident, Crash, Restart, AgentFails
  <2> QED BY <1>4, <2>1
<1>8. CASE RestartSeller
  <2> DEFINE a == Event("participant_crashed", Seller)
             b == Event("participant_restarted", Seller)
             events == <<a, b>>
  <2>1. log' = log \o events /\ DOMAIN messages' = DOMAIN messages
    BY <1>8 DEF RestartSeller, Record
  <2>2. runner'.restarted
    BY <1>8 DEF RestartSeller, TalkInv, RunnerTypeOK
  <2>3. a.kind = "participant_crashed" /\ b.kind = "participant_restarted"
    BY DEF Event
  <2> HIDE DEF a, b
  <2>4. IsSequence(events)
    <3>1. <<a, b>> \in Seq({a, b})
      OBVIOUS
    <3> QED BY <3>1 DEF IsSequence
  <2>5. \A k \in DOMAIN events : events[k] \in {a, b}
    OBVIOUS
  <2>6. Attested(a, t) /\ Attested(b, t) /\ ~IsAccepted(a) /\ ~IsAck(a) /\ ~IsAccepted(b) /\ ~IsAck(b)
    BY <1>3, <2>2, <2>3 DEF Attested, IsAccepted, IsAck
  <2> HIDE DEF events
  <2>7. \A k \in DOMAIN events :
          Attested(events[k], Standing') /\ ~IsAccepted(events[k]) /\ ~IsAck(events[k])
    BY <2>5, <2>6 DEF t
  <2> QED BY <1>1, <2>1, <2>4, <2>7, RecordQuietly
<1>9. CASE EndWatch \/ SellerIsDone \/ EndSettling \/ TimePasses \/ UNCHANGED trackVars
  <2>1. DOMAIN messages' = DOMAIN messages /\ log' = log
    BY <1>9 DEF EndWatch, SellerIsDone, EndSettling, FinishRun, TimePasses, Tick, tables, trackVars
  <2> QED BY <1>4, <2>1
<1>10. ASSUME NEW r \in adrift, NotesLate(r) \/ DropsLate(r) \/ OffersLate(r) \/ FindsNoOffer(r)
       PROVE  RecordTrue'
  <2>1. CASE NotesLate(r)
    <3> DEFINE e == Event("notify_suppressed", r.id)
    <3>1. log' = log \o <<e>> /\ UNCHANGED mailbox /\ r.pc = "suppressing"
      BY <2>1 DEF NotesLate, Record
    <3>2. QuoteRequest \in DOMAIN notifications' /\ notifications'[QuoteRequest] = "suppressed"
      BY <1>10, <3>1 DEF TalkInv, StraysTell
    <3>3. e.kind = "notify_suppressed"
      BY DEF Event
    <3> HIDE DEF e
    <3>4. Attested(e, t) /\ ~IsAccepted(e) /\ ~IsAck(e)
      BY <1>3, <3>2, <3>3 DEF Attested, IsAccepted, IsAck
    <3> QED BY <1>5, <3>1, <3>4
  <2>2. CASE DropsLate(r)
    <3> DEFINE e == [Event("ack_dropped", r.id) EXCEPT !.who = r.by]
    <3>1. log' = log \o <<e>> /\ UNCHANGED mailbox /\ fired'
      BY <2>2 DEF DropsLate, Record
    <3>2. e.kind = "ack_dropped"
      BY DEF Event
    <3> HIDE DEF e
    <3>3. Attested(e, t) /\ ~IsAccepted(e) /\ ~IsAck(e)
      BY <1>3, <3>1, <3>2 DEF Attested, IsAccepted, IsAck
    <3> QED BY <1>5, <3>1, <3>3
  <2>3. CASE OffersLate(r)
    BY <1>1, <1>2, <2>3, RecordsOffer DEF OffersLate
  <2>4. CASE FindsNoOffer(r)
    BY <1>4, <2>4 DEF FindsNoOffer
  <2> QED BY <1>10, <2>1, <2>2, <2>3, <2>4
<1> QED BY <1>6, <1>7, <1>8, <1>9, <1>10 DEF TownNext, Runner, HandlerEnds

-----------------------------------------------------------------------------
(* Whose step it is.                                                       *)

\* Whatever a participant does is one move of its own.
LEMMA MovesOne ==
  ASSUME NEW p \in Participants, Participant(p) \/ Think(p) \/ AwaitHint(p) \/ Accident(p)
  PROVE  \E d : Move(p, d)
<1>1. CASE Participant(p)
  BY <1>1 DEF Participant, WaitForHint, ClaimWork, ClaimFoundNothing, OfferDuplicate, OfferRefused,
    SellerHandles, SellerRecalls, SellerApplies, SellerStalls, SellerWakes, MarkReported, BridgeHandles,
    BridgeRecalls, BridgeCompletes, BuyerHandles, SendNew, SendAgain, NoteSuppressed, AckLooksAtFault,
    DropAck, AckAccepted, AckRefused, Leave
<1>2. CASE Think(p)
  BY <1>2, ThinkParts DEF Give
<1>3. CASE AwaitHint(p) \/ Accident(p)
  BY <1>3 DEF AwaitHint, Accident, Crash, Restart, AgentFails
<1> QED BY <1>1, <1>2, <1>3

\* The seller's steps, the runner's among them.
SellersStep ==
  \/ Think(Seller) \/ AwaitHint(Seller) \/ Participant(Seller) \/ Accident(Seller)
  \/ RestartSeller \/ EndSettling
\* The buyer's.
BuyersStep ==
  Think(Buyer) \/ AwaitHint(Buyer) \/ Participant(Buyer) \/ Crash(Buyer) \/ Restart(Buyer) \/ EndWatch

\* What is only the seller's.
SellersKept ==
  marker' = marker /\ applications' = applications /\ journal'[Seller] = journal[Seller]

\* Nobody else moves the seller, or writes to its disk.
LEMMA SellerAlone ==
  ASSUME TownTypeOK, [TownNext]_trackVars, ~SellersStep
  PROVE  procs'[Seller] = procs[Seller] /\ SellersKept
<1> USE DEF memory, disk, control, kept, given
<1>1. /\ Buyer # Seller /\ Buyer \in Participants /\ Seller \in Participants /\ Participants = {Buyer, Seller}
      /\ DOMAIN journal = Participants
  BY Names DEF TownTypeOK
<1>2. ASSUME UNCHANGED <<procs, marker, applications, journal>>
      PROVE  procs'[Seller] = procs[Seller] /\ SellersKept
  BY <1>2 DEF SellersKept
<1>3. CASE \E p \in Participants : Participant(p) \/ Think(p) \/ AwaitHint(p) \/ Accident(p)
  <2>1. Participant(Buyer) \/ Think(Buyer) \/ AwaitHint(Buyer) \/ Accident(Buyer)
    BY <1>1, <1>3 DEF SellersStep
  <2>2. procs'[Seller] = procs[Seller]
    BY <1>1, <2>1, MovesOne, Moved
  <2>3. CASE Participant(Buyer)
    <3>1. SellersKept
      BY <1>1, <2>3 DEF Participant, WaitForHint, ClaimWork, ClaimFoundNothing, OfferDuplicate, OfferRefused,
        BuyerHandles, SendNew, SendAgain, JournalAfterSend, NoteSuppressed, AckLooksAtFault, DropAck,
        AckAccepted, AckRefused, Leave, SellersKept
    <3> QED BY <2>2, <3>1
  <2>4. CASE Think(Buyer)
    BY <1>1, <2>2, <2>4, ThinkParts DEF SellersKept
  <2>5. CASE AwaitHint(Buyer) \/ Accident(Buyer)
    <3>1. SellersKept
      BY <1>1, <2>5 DEF AwaitHint, Accident, Crash, Restart, SellersKept
    <3> QED BY <2>2, <3>1
  <2> QED BY <2>1, <2>3, <2>4, <2>5
<1>4. CASE EndWatch
  <2>1. \E d : Move(Buyer, d)
    BY <1>4 DEF EndWatch, Stops
  <2>2. procs'[Seller] = procs[Seller]
    BY <1>1, <2>1, Moved
  <2> QED BY <1>4, <2>2 DEF EndWatch, SellersKept
<1>5. CASE SellerIsDone
  BY <1>2, <1>5 DEF SellerIsDone
<1>6. CASE HandlerEnds \/ TimePasses \/ UNCHANGED trackVars
  BY <1>2, <1>6 DEF HandlerEnds, TimePasses, trackVars
<1> QED BY <1>3, <1>4, <1>5, <1>6 DEF TownNext, Runner, SellersStep

\* Nobody else moves the buyer, or writes to its disk.
LEMMA BuyerAlone ==
  ASSUME TownTypeOK, [TownNext]_trackVars, ~BuyersStep
  PROVE  procs'[Buyer] = procs[Buyer] /\ journal'[Buyer] = journal[Buyer]
<1> USE DEF memory, disk, control, kept, given
<1>1. /\ Buyer # Seller /\ Buyer \in Participants /\ Seller \in Participants /\ Participants = {Buyer, Seller}
      /\ DOMAIN journal = Participants
  BY Names DEF TownTypeOK
<1>2. CASE \E p \in Participants : Participant(p) \/ Think(p) \/ AwaitHint(p) \/ Accident(p)
  <2>1. Participant(Seller) \/ Think(Seller) \/ AwaitHint(Seller) \/ Accident(Seller)
    BY <1>1, <1>2 DEF BuyersStep, Accident
  <2>2. procs'[Buyer] = procs[Buyer]
    BY <1>1, <2>1, MovesOne, Moved
  <2>3. CASE Participant(Seller)
    <3>1. journal'[Buyer] = journal[Buyer]
      BY <1>1, <2>3 DEF Participant, WaitForHint, ClaimWork, ClaimFoundNothing, OfferDuplicate, OfferRefused,
        SellerHandles, SellerRecalls, SellerApplies, SellerStalls, SellerWakes, MarkReported, BridgeHandles,
        BridgeRecalls, BridgeCompletes, SendNew, SendAgain, JournalAfterSend, NoteSuppressed,
        AckLooksAtFault, DropAck, AckAccepted, AckRefused, Leave
    <3> QED BY <2>2, <3>1
  <2>4. CASE Think(Seller)
    BY <1>1, <2>2, <2>4, ThinkParts
  <2>5. CASE AwaitHint(Seller) \/ Accident(Seller)
    BY <2>2, <2>5 DEF AwaitHint, Accident, Crash, Restart, AgentFails
  <2> QED BY <2>1, <2>3, <2>4, <2>5
<1>3. CASE RestartSeller \/ EndSettling
  <2>1. \E d : Move(Seller, d)
    BY <1>3 DEF RestartSeller, EndSettling, Stops
  <2>2. procs'[Buyer] = procs[Buyer]
    BY <1>1, <2>1, Moved
  <2> QED BY <1>3, <2>2 DEF RestartSeller, EndSettling
<1>4. CASE SellerIsDone \/ HandlerEnds \/ TimePasses \/ UNCHANGED trackVars
  BY <1>4 DEF SellerIsDone, HandlerEnds, TimePasses, trackVars
<1> QED BY <1>2, <1>3, <1>4 DEF TownNext, Runner, BuyersStep

-----------------------------------------------------------------------------
(* The messages, the offer and the runner.                                 *)

\* Messages keep to the identities in use.
LEMMA NamedStep ==
  ASSUME TownInv, Named, [TownNext]_trackVars, fault' = fault
  PROVE  Named'
<1>1. Replies' = Replies
  BY DEF Replies
<1>2. EnvelopesKept
  BY TownTables, TablesGrow DEF TownInv, FencingInv
<1>3. ASSUME NEW i \in DOMAIN messages', i \in DOMAIN messages
      PROVE  i \in {QuoteRequest} \cup Replies /\ messages'[i].content = kindOf(i)
  BY <1>2, <1>3 DEF Named, EnvelopesKept
<1>4. ASSUME NEW p \in Participants, SendNew(p)
      PROVE  /\ procs[p].reply \in {QuoteRequest} \cup Replies
             /\ messages'[procs[p].reply].content = kindOf(procs[p].reply)
  <2>1. procs[p].reply \in {QuoteRequest} \cup Replies
    BY <1>4, SendIds, Names DEF SendNew, TownInv
  <2> QED BY <1>4, <2>1 DEF SendNew, AcceptMessage, NewMessage
<1>5. \A i \in DOMAIN messages' : i \in {QuoteRequest} \cup Replies /\ messages'[i].content = kindOf(i)
  BY <1>3, <1>4, MessagesFrom, SendAdds
<1> QED BY <1>1, <1>5 DEF Named

\* Only the request is offered a second time.
LEMMA OfferStep ==
  ASSUME TownInv, RequestOffered, [TownNext]_trackVars
  PROVE  RequestOffered'
<1> USE DEF memory, mailbox
<1>1. ASSUME offered' = offered, doneTarget' = doneTarget
      PROVE  RequestOffered'
  BY <1>1 DEF RequestOffered
<1>2. ASSUME NEW p \in Participants, Participant(p)
      PROVE  RequestOffered'
  <2>1. CASE OfferDuplicate(p)
    BY <2>1 DEF OfferDuplicate, Reoffer, RequestOffered
  <2>2. CASE AckAccepted(p)
    BY <2>2 DEF AckAccepted, Ack, RequestOffered, kindOf
  <2>3. CASE SendNew(p) \/ SendAgain(p)
    BY <1>1, <2>3 DEF SendNew, AcceptMessage, SendAgain
  <2>4. CASE WaitForHint(p) \/ ClaimWork(p) \/ ClaimFoundNothing(p) \/ DropAck(p) \/ AckRefused(p)
    BY <1>1, <2>4 DEF WaitForHint, Notify, PopNotify, ClaimWork, ClaimNext, ClaimFoundNothing, ClaimNothing,
      DropAck, AckRefused, AckLapsed
  <2>5. CASE UNCHANGED <<mailbox, memory>>
    BY <1>1, <2>5
  <2> QED BY <1>2, <2>1, <2>2, <2>3, <2>4, <2>5
    DEF Participant, OfferRefused, SellerHandles, SellerStalls, SellerWakes, MarkReported,
        BridgeHandles, BuyerHandles, NoteSuppressed, AckLooksAtFault, Leave
<1>3. ASSUME NEW p \in Participants, Think(p) \/ AwaitHint(p) \/ Accident(p)
      PROVE  RequestOffered'
  BY <1>1, <1>3 DEF Think, AwaitHint, Notify, PopNotify, Accident, Crash, Restart, AgentFails
<1>4. CASE Runner \/ TimePasses \/ UNCHANGED trackVars
  BY <1>1, <1>4 DEF Runner, EndWatch, SellerIsDone, RestartSeller, EndSettling, Stops, FinishRun,
              TimePasses, Tick, tables, trackVars
<1>5. CASE HandlerEnds
  BY <1>1, <1>5 DEF HandlerEnds, NotesLate, DropsLate, OffersLate, FindsNoOffer, Reoffer, RequestOffered
<1> QED BY <1>2, <1>3, <1>4, <1>5 DEF TownNext

\* The runner keeps its types.
LEMMA RunnerStep ==
  ASSUME TypeOK, RunnerTypeOK, [TownNext]_trackVars
  PROVE  RunnerTypeOK'
<1> USE DEF control
<1>1. ASSUME runner' = runner
      PROVE  RunnerTypeOK'
  BY <1>1 DEF RunnerTypeOK
<1>2. ASSUME NEW p \in Participants, Participant(p)
      PROVE  runner' = runner
  BY <1>2 DEF Participant, WaitForHint, ClaimWork, ClaimFoundNothing, OfferDuplicate, OfferRefused,
    SellerHandles, SellerStalls, SellerWakes, MarkReported, BridgeHandles, BuyerHandles, SendNew, SendAgain,
    NoteSuppressed, AckLooksAtFault, DropAck, AckAccepted, AckRefused, Leave
<1>3. ASSUME NEW p \in Participants, Think(p) \/ AwaitHint(p) \/ Accident(p)
      PROVE  runner' = runner
  BY <1>3 DEF Think, AwaitHint, Accident, Crash, Restart, AgentFails
<1>4. CASE Runner
  <2>1. Settle \in Nat /\ clock \in Nat /\ clock + Settle \in Nat
    BY TrackAssumption DEF TypeOK
  <2>2. Verdict(log, fault) \in Judgements
    BY DEF Verdict, StageVerdict, Judgements
  <2> QED BY <1>4, <2>1, <2>2 DEF Runner, EndWatch, SellerIsDone, RestartSeller, EndSettling, RunnerTypeOK
<1>5. CASE HandlerEnds \/ TimePasses \/ UNCHANGED trackVars
  BY <1>1, <1>5 DEF HandlerEnds, TimePasses, trackVars
<1> QED BY <1>1, <1>2, <1>3, <1>4, <1>5 DEF TownNext

\* Nothing is recorded after the run is finished, and the runner has left its loop.
LEMMA JudgedStep ==
  ASSUME RunnerTypeOK, JudgedOnRecord, cast' = cast, fault' = fault, [TownNext]_trackVars
  PROVE  JudgedOnRecord'
<1> USE DEF mailbox, memory, disk, control, kept, given
<1> SUFFICES ASSUME runner'.phase = "done"
             PROVE  runStatus' = "finished" /\ runner'.verdict = Verdict(log', fault')
  BY DEF JudgedOnRecord, Judged, Open, verdict
<1>1. CASE EndSettling
  BY <1>1 DEF EndSettling, FinishRun, RunnerTypeOK
<1>2. CASE ~EndSettling
  <2>1. ASSUME runner' = runner, log' = log, runStatus' = runStatus
        PROVE  runStatus' = "finished" /\ runner'.verdict = Verdict(log', fault')
    BY <2>1 DEF JudgedOnRecord, Judged, Open, verdict
  <2>2. ASSUME runner' = runner
        PROVE  ~Open
    BY <2>2 DEF JudgedOnRecord, Judged
  <2>3. ASSUME NEW p \in Participants, Participant(p)
        PROVE  runner' = runner
    BY <2>3 DEF Participant, WaitForHint, ClaimWork, ClaimFoundNothing, OfferDuplicate, OfferRefused,
      SellerHandles, SellerStalls, SellerWakes, MarkReported, BridgeHandles, BuyerHandles, SendNew, SendAgain,
      NoteSuppressed, AckLooksAtFault, DropAck, AckAccepted, AckRefused, Leave
  <2>4. ASSUME NEW p \in Participants, Participant(p)
        PROVE  log' = log /\ runStatus' = runStatus
    <3>1. ~Open
      BY <2>2, <2>3, <2>4
    <3>2. /\ ~WaitForHint(p) /\ ~ClaimWork(p) /\ ~ClaimFoundNothing(p)
          /\ ~OfferDuplicate(p) /\ ~OfferRefused(p)
      BY <3>1 DEF WaitForHint, Notify, ClaimWork, ClaimNext, ClaimFoundNothing, ClaimNothing,
        OfferDuplicate, Reoffer, OfferRefused
    <3>3. ~SendNew(p) /\ ~SendAgain(p) /\ ~NoteSuppressed(p)
      BY <3>1 DEF SendNew, AcceptMessage, SendAgain, NoteSuppressed
    <3>4. ~AckLooksAtFault(p) /\ ~DropAck(p) /\ ~AckAccepted(p) /\ ~AckRefused(p)
      BY <3>1 DEF AckLooksAtFault, DropAck, AckAccepted, Ack, AckRefused
    <3>5. ASSUME \/ SellerHandles \/ SellerStalls \/ SellerWakes \/ MarkReported \/ BridgeHandles
                 \/ BuyerHandles \/ Leave(p)
          PROVE  log' = log /\ runStatus' = runStatus
      BY <3>5 DEF SellerHandles, SellerStalls, SellerWakes, MarkReported, BridgeHandles, BuyerHandles, Leave
    <3> QED BY <2>4, <3>2, <3>3, <3>4, <3>5 DEF Participant
  <2>5. ASSUME NEW p \in Participants, Think(p) \/ AwaitHint(p) \/ Accident(p)
        PROVE  runner' = runner /\ log' = log /\ runStatus' = runStatus
    <3>1. ASSUME AwaitHint(p)
          PROVE  FALSE
      BY <2>2, <3>1 DEF AwaitHint, Notify
    <3> QED BY <2>5, <3>1 DEF Think, Accident, Crash, Restart, AgentFails
  <2>6. CASE HandlerEnds
    BY <2>2, <2>6 DEF HandlerEnds
  <2>7. CASE Runner
    BY <1>2, <2>7 DEF Runner, EndWatch, SellerIsDone, RestartSeller, RestartDue, RunnerTypeOK
  <2>8. CASE TimePasses \/ UNCHANGED trackVars
    BY <2>1, <2>8 DEF TimePasses, Tick, tables, trackVars
  <2> QED BY <2>1, <2>3, <2>4, <2>5, <2>6, <2>7, <2>8 DEF TownNext
<1> QED BY <1>1, <1>2

-----------------------------------------------------------------------------
(* What the buyer is about to tell.                                        *)

\* The buyer's program asserts nothing that is not in its journal, and stands at a
\* suppressed hint only when there is one.
LEMMA BuyerTellsStep ==
  ASSUME TownInv, BuyerTells(procs[Buyer], journal[Buyer], notifications), RowsStay,
         cast' = cast, journal[Buyer] \subseteq journal'[Buyer], [TownNext]_trackVars
  PROVE  BuyerTells(procs'[Buyer], journal'[Buyer], notifications')
<1> USE DEF mailbox, memory, disk, control, kept, given
<1> DEFINE Goal == BuyerTells(procs'[Buyer], journal'[Buyer], notifications')
           old == procs[Buyer]
<1>1. TownTypeOK /\ TypeOK /\ Buyer \in Participants /\ Buyer # Seller /\ Participants = {Buyer, Seller}
  BY Names DEF TownInv, FencingInv
<1>2. /\ old \in Process /\ ~old.dying
      /\ cast[Buyer] # "model" /\ "right" \in old.note =>
           old.pc \in {"acking", "dropping"} /\ \E j \in journal[Buyer] : j.message = old.message
  BY <1>1 DEF BuyerTells, TownTypeOK
<1> HIDE DEF old
<1>3. ASSUME NEW d, Move(Buyer, d), d.note = {}, ~d.dying, d.pc # "suppressing"
      PROVE  Goal
  <2>1. procs'[Buyer] = d
    BY <1>1, <1>3, Moved
  <2> QED BY <1>3, <2>1 DEF BuyerTells
<1>4. ASSUME NEW d, Move(Buyer, d), d.note = old.note, ~d.dying, d.pc # "suppressing",
             old.pc \in {"acking", "dropping"} => d.pc \in {"acking", "dropping"} /\ d.message = old.message
      PROVE  Goal
  <2>1. procs'[Buyer] = d
    BY <1>1, <1>4, Moved
  <2>2. cast[Buyer] # "model" /\ "right" \in d.note =>
          d.pc \in {"acking", "dropping"} /\ \E j \in journal'[Buyer] : j.message = d.message
    BY <1>2, <1>4
  <2> QED BY <1>4, <2>1, <2>2 DEF BuyerTells
<1>5. ASSUME NEW d, Move(Buyer, d), cast[Buyer] = "model", ~d.dying, d.pc # "suppressing"
      PROVE  Goal
  <2>1. procs'[Buyer] = d
    BY <1>1, <1>5, Moved
  <2> QED BY <1>5, <2>1 DEF BuyerTells
<1>6. ASSUME NEW a \in Answers, Move(Buyer, Told(Buyer, a))
      PROVE  Goal
  <2>1. CASE cast[Buyer] = "model"
    <3>1. Told(Buyer, a).pc = "thinking" /\ Told(Buyer, a).dying = old.dying
      BY <1>1, <1>6, <2>1, Fields DEF old
    <3> QED BY <1>2, <1>5, <1>6, <2>1, <3>1
  <2>2. CASE cast[Buyer] # "model"
    <3>1. Told(Buyer, a) = Resting(Buyer)
      BY <1>1, <1>6, <2>2, Fields
    <3>2. Resting(Buyer).pc = "idle" /\ Resting(Buyer).note = {} /\ Resting(Buyer).dying = FALSE
      BY <1>1, Fields
    <3> QED BY <1>3, <1>6, <3>1, <3>2
  <2> QED BY <2>1, <2>2
<1>7. ASSUME NEW code \in Codes, Move(Buyer, Exited(Buyer, code))
      PROVE  Goal
  <2>1. /\ Exited(Buyer, code).pc = "exited" /\ Exited(Buyer, code).note = {}
        /\ Exited(Buyer, code).dying = FALSE
    BY <1>1, <1>7, Fields, ZenonT(40)
  <2> QED BY <1>3, <1>7, <2>1
<1>8. ASSUME NEW pc \in Places \ {"suppressing"}, Move(Buyer, Entering(Buyer, pc)),
             old.pc \in {"acking", "dropping"} => pc \in {"acking", "dropping"}
      PROVE  Goal
  <2>1. /\ Entering(Buyer, pc).pc = pc /\ Entering(Buyer, pc).note = old.note
        /\ Entering(Buyer, pc).dying = old.dying /\ Entering(Buyer, pc).message = old.message
    BY <1>1, <1>8, Fields DEF old
  <2> QED BY <1>2, <1>4, <1>8, <2>1
<1>9. /\ \A a \in {"no work", "accepted", "recorded", "stale", "work"} : a \in Answers
      /\ \A pc \in {"claiming", "reoffering", "acking", "dropping", "handling"} : pc \in Places \ {"suppressing"}
      /\ \A code \in {0, 2, 5, 6, 8} : code \in Codes
  BY DEF Answers, Places, ModelPlaces, Codes
<1>10. ASSUME Move(Buyer, AfterSend(Buyer)), old.pc \in {"sending", "suppressing"}
       PROVE  Goal
  <2>1. AfterSend(Buyer) = Told(Buyer, "accepted") \/ AfterSend(Buyer) = Entering(Buyer, "acking")
    BY <1>2 DEF AfterSend, old
  <2>2. CASE AfterSend(Buyer) = Told(Buyer, "accepted")
    BY <1>6, <1>9, <1>10, <2>2
  <2>3. CASE AfterSend(Buyer) = Entering(Buyer, "acking")
    BY <1>8, <1>9, <1>10, <2>3
  <2> QED BY <2>1, <2>2, <2>3
<1>11. ASSUME NEW duplicate \in BOOLEAN, Move(Buyer, Delivered(Buyer, duplicate)),
              old.pc \in {"claiming", "reoffering"}
       PROVE  Goal
  <2>1. /\ Delivered(Buyer, duplicate).pc = IF cast[Buyer] = "model" THEN "thinking" ELSE "handling"
        /\ Delivered(Buyer, duplicate).note = old.note /\ Delivered(Buyer, duplicate).dying = old.dying
    BY <1>1, <1>11, DeliveredFields DEF old
  <2> QED BY <1>2, <1>4, <1>11, <2>1
<1>12. CASE Participant(Buyer)
  <2>1. CASE WaitForHint(Buyer)
    BY <1>8, <1>9, <2>1 DEF WaitForHint, At, old
  <2>2. CASE ClaimWork(Buyer)
    BY <1>11, <2>2 DEF ClaimWork, At, old
  <2>3. CASE OfferDuplicate(Buyer)
    BY <1>11, <2>3 DEF OfferDuplicate, At, old
  <2>4. CASE ClaimFoundNothing(Buyer)
    <3>1. PICK now : Move(Buyer, IF MayOffer THEN [old EXCEPT !.pc = "reoffering", !.since = now]
                                 ELSE Told(Buyer, "no work"))
      BY <2>4 DEF ClaimFoundNothing, old
    <3>2. old.pc = "claiming"
      BY <2>4 DEF ClaimFoundNothing, At, old
    <3> DEFINE d == [old EXCEPT !.pc = "reoffering", !.since = now]
    <3>3. d.pc = "reoffering" /\ d.note = old.note /\ d.dying = old.dying
      BY <1>2 DEF Process
    <3>4. Move(Buyer, d) \/ Move(Buyer, Told(Buyer, "no work"))
      BY <3>1
    <3> HIDE DEF d
    <3> QED BY <1>2, <1>4, <1>6, <1>9, <3>2, <3>3, <3>4
  <2>5. CASE OfferRefused(Buyer)
    BY <1>6, <1>9, <2>5 DEF OfferRefused
  <2>6. CASE BuyerHandles
    <3> DEFINE known == Remembered(Buyer) # {}
               entry == [message |-> old.message, reply |-> Nothing, unreported |-> FALSE]
               d == [Entering(Buyer, "acking") EXCEPT
                       !.outcome = @ \/ ~known, !.note = IF known THEN {"duplicate"} ELSE {"right"}]
    <3>1. /\ Move(Buyer, d)
          /\ journal' = [journal EXCEPT ![Buyer] = IF known THEN @ ELSE @ \cup {entry}]
      BY <2>6 DEF BuyerHandles, old
    <3>2. Entering(Buyer, "acking") \in Process
      BY <1>1, <1>9, GoTypes
    <3>3. /\ Entering(Buyer, "acking").pc = "acking" /\ Entering(Buyer, "acking").dying = old.dying
          /\ Entering(Buyer, "acking").message = old.message
      <4>1. "acking" \in Places
        BY <1>9
      <4> QED BY <1>1, <4>1, Fields DEF old
    <3>4. /\ d.pc = "acking" /\ d.dying = old.dying /\ d.message = old.message
          /\ d.note = IF known THEN {"duplicate"} ELSE {"right"}
      BY <3>2, <3>3 DEF Process
    <3>5. ~known => entry \in journal'[Buyer]
      BY <1>1, <3>1 DEF TownTypeOK
    <3>6. entry.message = old.message
      OBVIOUS
    <3> HIDE DEF d, entry, known
    <3>7. "right" \in d.note => \E j \in journal'[Buyer] : j.message = d.message
      BY <3>4, <3>5, <3>6
    <3>8. procs'[Buyer] = d
      BY <1>1, <3>1, Moved
    <3> QED BY <1>2, <3>4, <3>7, <3>8 DEF BuyerTells
  <2>7. CASE SendNew(Buyer)
    <3>1. At(Buyer, "sending") /\ old.pc = "sending"
      BY <2>7 DEF SendNew, At, old
    <3>2. procs[Buyer].reply = QuoteRequest
      BY <1>1, <3>1, SendIds DEF TownInv
    <3>3. CASE ~Suppresses(QuoteRequest)
      BY <1>10, <2>7, <3>1, <3>2, <3>3 DEF SendNew
    <3>4. CASE Suppresses(QuoteRequest)
      <4>1. Move(Buyer, Entering(Buyer, "suppressing"))
        BY <2>7, <3>2, <3>4 DEF SendNew
      <4>2. "suppressing" \in Places
        BY DEF Places, ModelPlaces
      <4>3. /\ Entering(Buyer, "suppressing").pc = "suppressing" /\ Entering(Buyer, "suppressing").note = old.note
            /\ Entering(Buyer, "suppressing").dying = old.dying
        BY <1>1, <4>2, Fields DEF old
      <4>4. QuoteRequest \in DOMAIN notifications' /\ notifications'[QuoteRequest] = "suppressed"
        BY <2>7, <3>2, <3>4 DEF SendNew, AcceptMessage
      <4>5. procs'[Buyer] = Entering(Buyer, "suppressing")
        BY <1>1, <4>1, Moved
      <4> QED BY <1>2, <3>1, <4>3, <4>4, <4>5 DEF BuyerTells
    <3> QED BY <3>3, <3>4
  <2>8. CASE SendAgain(Buyer) \/ NoteSuppressed(Buyer)
    <3>1. Move(Buyer, AfterSend(Buyer)) /\ old.pc \in {"sending", "suppressing"}
      BY <2>8 DEF SendAgain, NoteSuppressed, At, old
    <3> QED BY <1>10, <3>1
  <2>9. CASE AckLooksAtFault(Buyer) \/ DropAck(Buyer)
    BY <1>8, <1>9, <2>9 DEF AckLooksAtFault, DropAck
  <2>10. CASE AckAccepted(Buyer)
    BY <1>1, <1>2, <1>6, <1>9, <2>10 DEF AckAccepted, KeepsMark, old
  <2>11. CASE AckRefused(Buyer)
    BY <1>2, <1>6, <1>9, <2>11 DEF AckRefused, old
  <2>12. CASE Leave(Buyer)
    BY <1>7, <1>9, <2>12 DEF Leave
  <2> QED
    BY <1>1, <1>12, <2>1, <2>2, <2>3, <2>4, <2>5, <2>6, <2>7, <2>8, <2>9, <2>10, <2>11, <2>12 DEF Participant
<1>13. CASE Think(Buyer)
  <2> DEFINE d == Executing(LoopAfter(Buyer), Said(Buyer), Freed(Buyer))
  <2>1. cast[Buyer] = "model" /\ At(Buyer, "thinking") /\ Agrees(procs[Buyer], loops[Buyer])
    BY <1>13, ThinkParts DEF TownInv, BuyerInv, BuyerGood
  <2>2. ~d.dying /\ d.pc \in {"thinking", "hinting", "sending", "acking", "exited"}
    BY <1>1, <1>2, <2>1, ExecutingFields, ThoughtAgrees DEF old
  <2>3. (\E code \in {6, 8} : Give(Buyer, code)) \/ Move(Buyer, d)
    BY <1>13, ThinkParts
  <2> HIDE DEF d
  <2>4. CASE \E code \in {6, 8} : Give(Buyer, code)
    BY <1>7, <1>9, <2>4 DEF Give
  <2> QED BY <1>5, <2>1, <2>2, <2>3, <2>4
<1>14. CASE AwaitHint(Buyer)
  <2> DEFINE d == [procs[Buyer] EXCEPT !.pc = "claiming"]
  <2>1. d.pc = "claiming" /\ d.note = old.note /\ d.dying = old.dying
    BY <1>2 DEF Process, old
  <2>2. Move(Buyer, d) /\ old.pc = "hinting"
    BY <1>14 DEF AwaitHint, At, old
  <2> HIDE DEF d
  <2> QED BY <1>2, <1>4, <2>1, <2>2
<1>15. CASE Crash(Buyer)
  <2> DEFINE d == [Idle EXCEPT !.pc = "exited", !.code = 1]
  <2>1. d.pc = "exited" /\ d.note = {} /\ d.dying = FALSE
    BY DEF Idle
  <2>2. Move(Buyer, d)
    BY <1>15 DEF Crash
  <2> HIDE DEF d
  <2> QED BY <1>3, <2>1, <2>2
<1>16. CASE Restart(Buyer)
  <2>1. Starting(Buyer).pc # "suppressing" /\ Starting(Buyer).note = {} /\ Starting(Buyer).dying = FALSE
    BY DEF Starting, Idle
  <2> QED BY <1>3, <1>16, <2>1 DEF Restart
<1>17. CASE EndWatch
  <2>1. Move(Buyer, Exited(Buyer, 2)) \/ Move(Buyer, procs[Buyer])
    BY <1>17 DEF EndWatch, Stops
  <2>2. CASE Move(Buyer, Exited(Buyer, 2))
    <3>1. 2 \in Codes
      BY DEF Codes
    <3> QED BY <1>7, <2>2, <3>1
  <2>3. CASE Move(Buyer, procs[Buyer])
    <3>1. procs'[Buyer] = procs[Buyer]
      BY <1>1, <2>3, Moved
    <3>2. journal' = journal
      BY <1>17 DEF EndWatch
    <3> QED BY <3>1, <3>2 DEF BuyerTells, RowsStay
  <2> QED BY <2>1, <2>2, <2>3
<1>18. CASE ~BuyersStep
  <2>1. procs'[Buyer] = procs[Buyer] /\ journal'[Buyer] = journal[Buyer]
    BY <1>1, <1>18, BuyerAlone
  <2>2. QuoteRequest \in DOMAIN notifications /\ notifications[QuoteRequest] = "suppressed" =>
          QuoteRequest \in DOMAIN notifications' /\ notifications'[QuoteRequest] = "suppressed"
    BY DEF RowsStay
  <2> QED BY <2>1, <2>2 DEF BuyerTells
<1> QED BY <1>12, <1>13, <1>14, <1>15, <1>16, <1>17, <1>18 DEF BuyersStep

-----------------------------------------------------------------------------
(* What the seller is about to tell.                                       *)

\* The seller answers the request, or nothing in particular.
LEMMA SellerNames ==
  ASSUME TownInv, [TownNext]_trackVars, procs[Seller].message \in {Nothing, QuoteRequest}
  PROVE  procs'[Seller].message \in {Nothing, QuoteRequest}
<1> USE DEF mailbox, memory, disk, control, kept, given
<1> DEFINE old == procs[Seller]
           Goal == procs'[Seller].message \in {Nothing, QuoteRequest}
<1>1. /\ TownTypeOK /\ TypeOK /\ Seller \in Participants /\ old \in Process
      /\ old.message \in {Nothing, QuoteRequest} /\ Sampled \subseteq Nat
  BY Names DEF TownInv, FencingInv, TownTypeOK, Sampled
<1> HIDE DEF old
<1>2. ASSUME NEW d, Move(Seller, d), d.message \in {old.message, Nothing, QuoteRequest}
      PROVE  Goal
  <2>1. procs'[Seller] = d
    BY <1>1, <1>2, Moved
  <2> QED BY <1>1, <1>2, <2>1
<1>3. ASSUME NEW pc \in Places, Move(Seller, Entering(Seller, pc)) PROVE Goal
  <2>1. Entering(Seller, pc).message = old.message
    BY <1>1, <1>3, Fields DEF old
  <2> QED BY <1>2, <1>3, <2>1
<1>4. ASSUME NEW a \in Answers, Move(Seller, Told(Seller, a)) PROVE Goal
  <2>1. CASE cast[Seller] = "model"
    <3>1. Told(Seller, a).message = old.message
      BY <1>1, <1>4, <2>1, Fields DEF old
    <3> QED BY <1>2, <1>4, <3>1
  <2>2. CASE cast[Seller] # "model"
    <3>1. Told(Seller, a) = Resting(Seller)
      BY <1>1, <1>4, <2>2, Fields
    <3>2. Resting(Seller).message = Nothing
      BY <1>1, Fields
    <3> QED BY <1>2, <1>4, <3>1, <3>2
  <2> QED BY <2>1, <2>2
<1>5. ASSUME NEW code \in Codes, Move(Seller, Exited(Seller, code)) PROVE Goal
  <2>1. Exited(Seller, code).message = Nothing
    BY DEF Exited, Resting, Idle
  <2> QED BY <1>2, <1>5, <2>1
<1>6. /\ \A a \in {"no work", "accepted", "recorded", "stale", "work"} : a \in Answers
      /\ \A pc \in {"claiming", "acking", "dropping", "sending", "stalled", "accepted", "suppressing"} :
           pc \in Places
      /\ \A code \in {0, 1, 2, 3, 5, 6, 8, 9} : code \in Codes
  BY DEF Answers, Places, ModelPlaces, Codes
<1>7. ASSUME Move(Seller, AfterSend(Seller)) PROVE Goal
  <2>1. CASE AfterSend(Seller) = Exited(Seller, 3)
    BY <1>5, <1>6, <1>7, <2>1
  <2>2. CASE AfterSend(Seller) = Told(Seller, "accepted")
    BY <1>4, <1>6, <1>7, <2>2
  <2>3. CASE AfterSend(Seller) = Entering(Seller, "acking")
    BY <1>3, <1>6, <1>7, <2>3
  <2> QED BY <2>1, <2>2, <2>3 DEF AfterSend
<1>8. ASSUME NEW duplicate \in BOOLEAN, Move(Seller, Delivered(Seller, duplicate)),
             claims'[Len(claims')].message = QuoteRequest
      PROVE  Goal
  <2>1. Delivered(Seller, duplicate).message = QuoteRequest
    BY <1>1, <1>8, DeliveredFields
  <2> QED BY <1>2, <1>8, <2>1
<1>9. ASSUME NEW pc \in Places, NEW d, Move(Seller, d), d.message = Entering(Seller, pc).message
      PROVE  Goal
  <2>1. Entering(Seller, pc).message = old.message
    BY <1>1, <1>9, Fields DEF old
  <2> QED BY <1>2, <1>9, <2>1
<1>10. \A pc \in Places : Entering(Seller, pc) \in Process
  BY <1>1, GoTypes
<1>11. CASE Participant(Seller)
  <2>1. CASE WaitForHint(Seller)
    BY <1>3, <1>6, <2>1 DEF WaitForHint
  <2>2. CASE ClaimWork(Seller)
    BY <1>1, <1>8, <2>2, SellerReceives DEF ClaimWork
  <2>3. CASE OfferDuplicate(Seller)
    BY <1>8, <2>3, SellerIsOffered DEF OfferDuplicate
  <2>4. CASE ClaimFoundNothing(Seller)
    <3>1. PICK now : Move(Seller, IF MayOffer THEN [old EXCEPT !.pc = "reoffering", !.since = now]
                                  ELSE Told(Seller, "no work"))
      BY <2>4 DEF ClaimFoundNothing, old
    <3> DEFINE d == [old EXCEPT !.pc = "reoffering", !.since = now]
    <3>2. d.message = old.message
      BY <1>1 DEF Process
    <3>3. Move(Seller, d) \/ Move(Seller, Told(Seller, "no work"))
      BY <3>1
    <3> HIDE DEF d
    <3> QED BY <1>2, <1>4, <1>6, <3>2, <3>3
  <2>5. CASE OfferRefused(Seller)
    BY <1>4, <1>6, <2>5 DEF OfferRefused
  <2>6. CASE SellerHandles \/ BridgeHandles
    <3>1. PICK d : Move(Seller, d) /\ d.message = Entering(Seller, "sending").message
      <4>1. Entering(Seller, "sending") \in Process
        BY <1>6, <1>10
      <4>2. ASSUME NEW id, NEW note, NEW dying
            PROVE  [Entering(Seller, "sending") EXCEPT !.reply = id, !.note = note, !.dying = dying].message
                     = Entering(Seller, "sending").message
        BY <4>1 DEF Process
      <4>3. ASSUME NEW id, NEW note
            PROVE  [Entering(Seller, "sending") EXCEPT !.reply = id, !.note = note].message
                     = Entering(Seller, "sending").message
        BY <4>1 DEF Process
      <4>4. ASSUME NEW id, NEW note, NEW dying
            PROVE  [Entering(Seller, "sending") EXCEPT !.reply = id, !.dying = dying, !.note = note].message
                     = Entering(Seller, "sending").message
        BY <4>1 DEF Process
      <4>5. CASE SellerHandles
        <5>1. PICK dying : SellerRecalls(dying) \/ SellerApplies(dying)
          BY <4>5 DEF SellerHandles
        <5>2. CASE SellerRecalls(dying)
          <6>1. PICK id, note :
                  Move(Seller, [Entering(Seller, "sending") EXCEPT !.reply = id, !.dying = dying, !.note = note])
            BY <5>2 DEF SellerRecalls
          <6> DEFINE d == [Entering(Seller, "sending") EXCEPT !.reply = id, !.dying = dying, !.note = note]
          <6>2. Move(Seller, d) /\ d.message = Entering(Seller, "sending").message
            BY <4>4, <6>1
          <6> HIDE DEF d
          <6> QED BY <6>2
        <5>3. CASE SellerApplies(dying)
          <6>1. PICK id, note :
                  Move(Seller, [Entering(Seller, "sending") EXCEPT !.reply = id, !.note = note, !.dying = dying])
            BY <5>3 DEF SellerApplies
          <6> DEFINE d == [Entering(Seller, "sending") EXCEPT !.reply = id, !.note = note, !.dying = dying]
          <6>2. Move(Seller, d) /\ d.message = Entering(Seller, "sending").message
            BY <4>2, <6>1
          <6> HIDE DEF d
          <6> QED BY <6>2
        <5> QED BY <5>1, <5>2, <5>3
      <4>6. CASE BridgeHandles
        <5>1. PICK id, note : Move(Seller, [Entering(Seller, "sending") EXCEPT !.reply = id, !.note = note])
          BY <4>6 DEF BridgeHandles, BridgeRecalls, BridgeCompletes
        <5> QED BY <4>3, <5>1
      <4> QED BY <2>6, <4>5, <4>6
    <3> QED BY <1>6, <1>9, <3>1
  <2>7. CASE SellerStalls
    <3> DEFINE d == [Entering(Seller, "stalled") EXCEPT !.since = clock]
    <3>1. Entering(Seller, "stalled") \in Process
      BY <1>6, <1>10
    <3>2. d.message = Entering(Seller, "stalled").message
      BY <3>1 DEF Process
    <3>3. Move(Seller, d)
      BY <2>7 DEF SellerStalls
    <3> HIDE DEF d
    <3> QED BY <1>6, <1>9, <3>2, <3>3
  <2>8. CASE SellerWakes
    <3> DEFINE d == [Entering(Seller, "acking") EXCEPT !.note = {"applied"}, !.dying = TRUE]
    <3>1. Entering(Seller, "acking") \in Process
      BY <1>6, <1>10
    <3>2. d.message = Entering(Seller, "acking").message
      BY <3>1 DEF Process
    <3>3. Move(Seller, d)
      BY <2>8 DEF SellerWakes
    <3> HIDE DEF d
    <3> QED BY <1>6, <1>9, <3>2, <3>3
  <2>9. CASE MarkReported
    <3>1. Resting(Seller).message = Nothing /\ Move(Seller, Resting(Seller))
      BY <1>1, <2>9, Fields DEF MarkReported
    <3> QED BY <1>2, <3>1
  <2>10. CASE SendNew(Seller)
    <3>1. Move(Seller, Entering(Seller, "suppressing")) \/ Move(Seller, AfterSend(Seller))
      BY <2>10 DEF SendNew
    <3> QED BY <1>3, <1>6, <1>7, <3>1
  <2>11. CASE SendAgain(Seller) \/ NoteSuppressed(Seller)
    BY <1>7, <2>11 DEF SendAgain, NoteSuppressed
  <2>12. CASE AckLooksAtFault(Seller) \/ DropAck(Seller)
    BY <1>3, <1>6, <2>12 DEF AckLooksAtFault, DropAck
  <2>13. CASE AckAccepted(Seller)
    <3>1. \/ Move(Seller, Exited(Seller, 9)) \/ Move(Seller, Entering(Seller, "accepted"))
          \/ Move(Seller, Told(Seller, "recorded"))
      BY <2>13 DEF AckAccepted
    <3> QED BY <1>3, <1>4, <1>5, <1>6, <3>1
  <2>14. CASE AckRefused(Seller)
    <3>1. Move(Seller, Exited(Seller, 3)) \/ Move(Seller, Told(Seller, "stale"))
      BY <2>14 DEF AckRefused
    <3> QED BY <1>4, <1>5, <1>6, <3>1
  <2>15. CASE Leave(Seller)
    <3>1. Move(Seller, Exited(Seller, 0)) \/ Move(Seller, Exited(Seller, 5))
      BY <2>15 DEF Leave
    <3> QED BY <1>5, <1>6, <3>1
  <2> QED
    BY <1>11, <2>1, <2>2, <2>3, <2>4, <2>5, <2>6, <2>7, <2>8, <2>9, <2>10, <2>11, <2>12, <2>13, <2>14, <2>15,
       Names DEF Participant
<1>12. CASE Think(Seller)
  <2> DEFINE d == Executing(LoopAfter(Seller), Said(Seller), Freed(Seller))
  <2>1. cast[Seller] = "model" /\ At(Seller, "thinking") /\ Agrees(procs[Seller], loops[Seller])
    BY <1>12, ThinkParts DEF TownInv, SellerInv, SellerGood, SellerLoop, At
  <2>2. Said(Seller).tool # "finish" => d.message = Freed(Seller).message
    BY <1>1, <2>1, ExecutingFields
  <2>3. Said(Seller).tool = "finish" => d.message = Nothing
    BY DEF Executing, Idle
  <2>4. Freed(Seller).message \in {old.message, Nothing}
    BY <1>1 DEF Freed, Released, Process, old
  <2>5. (\E code \in {6, 8} : Give(Seller, code)) \/ Move(Seller, d)
    BY <1>12, ThinkParts
  <2> HIDE DEF d
  <2>6. CASE \E code \in {6, 8} : Give(Seller, code)
    BY <1>5, <1>6, <2>6 DEF Give
  <2>7. CASE Move(Seller, d)
    <3>1. d.message \in {old.message, Nothing}
      BY <2>2, <2>3, <2>4
    <3> QED BY <1>2, <2>7, <3>1
  <2> QED BY <2>5, <2>6, <2>7
<1>13. CASE AwaitHint(Seller)
  <2> DEFINE d == [procs[Seller] EXCEPT !.pc = "claiming"]
  <2>1. d.message = old.message
    BY <1>1 DEF Process, old
  <2>2. Move(Seller, d)
    BY <1>13 DEF AwaitHint
  <2> HIDE DEF d
  <2> QED BY <1>2, <2>1, <2>2
<1>14. CASE Crash(Seller)
  <2> DEFINE d == [Idle EXCEPT !.pc = "exited", !.code = 1]
  <2>1. d.message = Nothing
    BY DEF Idle
  <2>2. Move(Seller, d)
    BY <1>14 DEF Crash
  <2> HIDE DEF d
  <2> QED BY <1>2, <2>1, <2>2
<1>15. CASE Restart(Seller) \/ RestartSeller
  <2>1. Starting(Seller).message = Nothing
    BY Names DEF Starting, Idle
  <2>2. Move(Seller, Starting(Seller))
    BY <1>15 DEF Restart, RestartSeller
  <2> QED BY <1>2, <2>1, <2>2
<1>16. CASE AgentFails
  <2> DEFINE d == [Entering(Seller, "acking") EXCEPT !.status = "retryable"]
  <2>1. Entering(Seller, "acking") \in Process
    BY <1>6, <1>10
  <2>2. d.message = Entering(Seller, "acking").message
    BY <2>1 DEF Process
  <2>3. Move(Seller, Exited(Seller, 1)) \/ Move(Seller, d)
    BY <1>16 DEF AgentFails
  <2> HIDE DEF d
  <2> QED BY <1>5, <1>6, <1>9, <2>2, <2>3
<1>17. CASE EndSettling
  <2>1. Move(Seller, Exited(Seller, 2)) \/ Move(Seller, procs[Seller])
    BY <1>17 DEF EndSettling, Stops
  <2> QED BY <1>2, <1>5, <1>6, <2>1 DEF old
<1>18. CASE ~SellersStep
  BY <1>1, <1>18, SellerAlone DEF old
<1> QED BY <1>11, <1>12, <1>13, <1>14, <1>15, <1>16, <1>17, <1>18 DEF SellersStep, Accident

\* The moves of the town's own seller that end no application and start none.
Turns(from, to) ==
  \/ from = "idle" /\ to = "claiming"
  \/ from \in {"claiming", "reoffering"} /\ to \in {"idle", "handling"}
  \/ from = "sending" /\ to \in {"idle", "acking"}
  \/ from \in {"acking", "dropping"} /\ to \in {"idle", "accepted", "acking"}

\* What such a seller may do under a scripted crash.
QuietMove(old, new) ==
  /\ SellersKept
  /\ \/ new = old
     \/ ~old.dying /\ ~new.dying /\ Turns(old.pc, new.pc)
     \/ ~new.dying /\ new.pc = "exited" /\ (new.code = 3 => old.dying /\ old.pc = "acking")
     \/ old.pc = "stalled" /\ new.pc = "acking" /\ new.dying /\ Scripted("crash_after_claim")
     \/ old.pc = "exited" /\ old.code = 3 /\ new.pc = "idle" /\ ~new.dying /\ runner'.restarted
StallMove(old, new) ==
  /\ old.pc = "handling" /\ new.pc = "stalled" /\ Scripted("crash_after_claim")
  /\ ~marker /\ applications' = applications /\ journal'[Seller] = journal[Seller]
WorkMove(old, new) ==
  /\ old.pc = "handling" /\ new.pc = "sending"
  /\ marker \/ ~Scripted("crash_after_claim")
  /\ new.dying <=> Amnesiac /\ ~marker
  /\ marker' <=> marker \/ new.dying
  /\ \/ applications' = applications /\ journal[Seller] # {}
     \/ applications' = applications + 1
ForgetMove(old, new) ==
  /\ old.pc = "sending" /\ old.dying /\ new.pc = "exited" /\ ~new.dying
  /\ marker' = marker /\ applications' = applications /\ journal'[Seller] = {}
MarkMove(old, new) ==
  /\ old.pc = "accepted" /\ new.pc = "idle" /\ ~new.dying
  /\ marker' = marker /\ applications' = applications
  /\ journal[Seller] = {} => journal'[Seller] = {}
StockMove(old, new) ==
  QuietMove(old, new) \/ StallMove(old, new) \/ WorkMove(old, new) \/ ForgetMove(old, new) \/ MarkMove(old, new)

\* It does nothing else.
LEMMA StockMoves ==
  ASSUME TownInv, CrashFault, [TownNext]_trackVars, RunnerTypeOK
  PROVE  StockMove(procs[Seller], procs'[Seller])
<1> USE DEF mailbox, memory, disk, control, kept, given
<1> DEFINE old == procs[Seller]
           Goal == StockMove(procs[Seller], procs'[Seller])
<1>1. /\ TownTypeOK /\ TypeOK /\ Seller \in Participants /\ Buyer # Seller /\ old \in Process
      /\ journal \in [Participants -> SUBSET JournalEntry] /\ marker \in BOOLEAN
      /\ SellerStands(old, journal[Seller], marker)
      /\ SellerDoomed(old, journal[Seller], marker, applications, Reporting("applied"))
  BY Names DEF TownInv, FencingInv, TownTypeOK, SellerInv, SellerGood
<1>2. /\ cast[Seller] = "stock" /\ cast[Seller] # "model" /\ cast[Seller] # "bridge"
      /\ ~External(Seller) /\ fault # "lost_ack" /\ fault # "duplicate_delivery" /\ fault # "drop_wakeup"
      /\ KeepsMark(Seller)
  BY DEF CrashFault, Scripted, Amnesiac, External, KeepsMark
<1>3. /\ Stands(Seller, old)
      /\ old.pc \in {"idle", "claiming", "reoffering", "handling", "dropping", "accepted", "exited", "stalled"} =>
           ~old.dying
      /\ old.pc = "stalled" => Scripted("crash_after_claim")
      /\ old.pc # "suppressing" /\ old.pc \notin {"thinking", "hinting"}
      /\ old.dying => old.pc \in {"sending", "acking"}
      /\ old.pc = "sending" /\ old.dying => Amnesiac
  BY <1>1, <1>2 DEF SellerStands, SellerDoomed, Stands
<1> HIDE DEF old
<1>4. ASSUME NEW d, Move(Seller, d), StockMove(old, d)
      PROVE  Goal
  <2>1. procs'[Seller] = d
    BY <1>1, <1>4, Moved
  <2> QED BY <1>4, <2>1 DEF old
<1>5. ASSUME NEW d, Move(Seller, d), UNCHANGED <<journal, marker, applications>>,
             ~old.dying, ~d.dying, Turns(old.pc, d.pc)
      PROVE  Goal
  <2>1. QuietMove(old, d)
    BY <1>5 DEF QuietMove, SellersKept
  <2> QED BY <1>4, <1>5, <2>1 DEF StockMove
<1>6. ASSUME NEW d, Move(Seller, d), UNCHANGED <<journal, marker, applications>>,
             d.pc = "exited", ~d.dying, d.code # 3 \/ (old.dying /\ old.pc = "acking")
      PROVE  Goal
  <2>1. QuietMove(old, d)
    BY <1>6 DEF QuietMove, SellersKept
  <2> QED BY <1>4, <1>6, <2>1 DEF StockMove
<1>7. ASSUME procs'[Seller] = procs[Seller], SellersKept
      PROVE  Goal
  <2>1. QuietMove(procs[Seller], procs'[Seller])
    BY <1>7 DEF QuietMove
  <2> QED BY <2>1 DEF StockMove
<1>8. ASSUME NEW a \in Answers, Move(Seller, Told(Seller, a)), UNCHANGED <<journal, marker, applications>>,
             ~old.dying, old.pc \in {"claiming", "reoffering", "sending", "acking"}
      PROVE  Goal
  <2>1. Told(Seller, a) = Resting(Seller)
    BY <1>1, <1>2, <1>8, Fields
  <2>2. Resting(Seller).pc = "idle" /\ Resting(Seller).dying = FALSE
    BY <1>1, Fields
  <2>3. Turns(old.pc, Resting(Seller).pc)
    BY <1>8, <2>2 DEF Turns
  <2> QED BY <1>5, <1>8, <2>1, <2>2, <2>3
<1>9. ASSUME NEW code \in Codes, Move(Seller, Exited(Seller, code)), UNCHANGED <<journal, marker, applications>>,
             code # 3 \/ (old.dying /\ old.pc = "acking")
      PROVE  Goal
  <2>1. /\ Exited(Seller, code).pc = "exited" /\ Exited(Seller, code).code = code
        /\ Exited(Seller, code).dying = FALSE
    BY <1>1, <1>9, Fields, ZenonT(40)
  <2> QED BY <1>6, <1>9, <2>1
<1>10. ASSUME NEW pc \in Places, Move(Seller, Entering(Seller, pc)), UNCHANGED <<journal, marker, applications>>,
              ~old.dying, Turns(old.pc, pc)
       PROVE  Goal
  <2>1. Entering(Seller, pc).pc = pc /\ Entering(Seller, pc).dying = old.dying
    BY <1>1, <1>10, Fields DEF old
  <2> QED BY <1>5, <1>10, <2>1
<1>11. /\ \A a \in {"no work", "accepted", "recorded", "stale", "work"} : a \in Answers
       /\ \A pc \in {"claiming", "acking", "dropping", "sending", "stalled", "accepted", "suppressing"} :
            pc \in Places
       /\ \A code \in {0, 1, 2, 3, 5, 6, 8, 9} : code \in Codes
  BY DEF Answers, Places, ModelPlaces, Codes
<1>12. ASSUME Move(Seller, AfterSend(Seller)), old.pc = "sending", journal' = JournalAfterSend(Seller),
              UNCHANGED <<marker, applications>>
       PROVE  Goal
  <2>1. CASE old.dying
    <3>1. AfterSend(Seller) = Exited(Seller, 3) /\ journal' = [journal EXCEPT ![Seller] = {}]
      BY <1>12, <2>1 DEF AfterSend, JournalAfterSend, old
    <3>2. 3 \in Codes
      BY <1>11
    <3>3. Exited(Seller, 3).pc = "exited" /\ Exited(Seller, 3).dying = FALSE
      BY <1>1, <3>2, Fields, ZenonT(40)
    <3>4. journal'[Seller] = {}
      BY <1>1, <3>1
    <3>5. ForgetMove(old, Exited(Seller, 3))
      BY <1>12, <2>1, <3>3, <3>4 DEF ForgetMove
    <3> QED BY <1>4, <1>12, <3>1, <3>5 DEF StockMove
  <2>2. CASE ~old.dying
    <3>1. journal' = journal
      BY <1>12, <2>2 DEF JournalAfterSend, old
    <3>2. AfterSend(Seller) = Told(Seller, "accepted") \/ AfterSend(Seller) = Entering(Seller, "acking")
      BY <2>2 DEF AfterSend, old
    <3>3. Turns(old.pc, "acking")
      BY <1>12 DEF Turns
    <3> QED BY <1>8, <1>10, <1>11, <1>12, <2>2, <3>1, <3>2, <3>3
  <2> QED BY <2>1, <2>2
<1>13. ASSUME NEW duplicate \in BOOLEAN, Move(Seller, Delivered(Seller, duplicate)),
              UNCHANGED <<journal, marker, applications>>, old.pc \in {"claiming", "reoffering"}
       PROVE  Goal
  <2>1. Delivered(Seller, duplicate).pc = "handling" /\ Delivered(Seller, duplicate).dying = old.dying
    BY <1>1, <1>2, <1>13, DeliveredFields DEF old
  <2>2. Turns(old.pc, Delivered(Seller, duplicate).pc)
    BY <1>13, <2>1 DEF Turns
  <2> QED BY <1>3, <1>5, <1>13, <2>1, <2>2
<1>14. \A pc \in Places : Entering(Seller, pc) \in Process
  BY <1>1, GoTypes
<1>15. CASE Participant(Seller)
  <2>1. CASE WaitForHint(Seller)
    <3>1. Move(Seller, Entering(Seller, "claiming")) /\ UNCHANGED <<journal, marker, applications>>
          /\ old.pc = "idle"
      BY <2>1 DEF WaitForHint, At, old
    <3>2. Turns(old.pc, "claiming")
      BY <3>1 DEF Turns
    <3> QED BY <1>3, <1>10, <1>11, <3>1, <3>2
  <2>2. CASE ClaimWork(Seller)
    BY <1>13, <2>2 DEF ClaimWork, At, old
  <2>3. CASE OfferDuplicate(Seller)
    BY <1>13, <2>3 DEF OfferDuplicate, At, old
  <2>4. CASE ClaimFoundNothing(Seller)
    <3>1. Move(Seller, Told(Seller, "no work")) /\ UNCHANGED <<journal, marker, applications>>
          /\ old.pc = "claiming"
      BY <1>2, <2>4 DEF ClaimFoundNothing, MayOffer, At, old
    <3> QED BY <1>3, <1>8, <1>11, <3>1
  <2>5. CASE OfferRefused(Seller)
    <3>1. Move(Seller, Told(Seller, "no work")) /\ UNCHANGED <<journal, marker, applications>>
          /\ old.pc = "reoffering"
      BY <2>5 DEF OfferRefused, At, old
    <3> QED BY <1>3, <1>8, <1>11, <3>1
  <2>6. CASE SellerHandles
    <3> DEFINE dying == Amnesiac /\ ~marker
    <3>1. /\ old.pc = "handling" /\ (marker \/ ~Scripted("crash_after_claim"))
          /\ marker' = (marker \/ dying)
          /\ SellerRecalls(dying) \/ SellerApplies(dying)
      BY <2>6 DEF SellerHandles, At, old
    <3>2. "sending" \in Places /\ Entering(Seller, "sending") \in Process
      BY <1>11, <1>14
    <3>3. Entering(Seller, "sending").pc = "sending"
      BY <1>1, <3>2, Fields
    <3> HIDE DEF dying
    <3>4. CASE SellerRecalls(dying)
      <4>1. PICK e, note :
              /\ e \in Remembered(Seller)
              /\ Move(Seller, [Entering(Seller, "sending") EXCEPT !.reply = e.reply, !.dying = dying, !.note = note])
              /\ applications' = applications
        BY <3>4 DEF SellerRecalls
      <4> DEFINE d == [Entering(Seller, "sending") EXCEPT !.reply = e.reply, !.dying = dying, !.note = note]
      <4>2. d.pc = "sending" /\ d.dying = dying
        BY <3>2, <3>3 DEF Process
      <4>3. Move(Seller, d) /\ applications' = applications /\ journal[Seller] # {}
        BY <4>1 DEF Remembered
      <4> HIDE DEF d
      <4>4. WorkMove(old, d)
        BY <3>1, <4>2, <4>3 DEF WorkMove, dying
      <4> QED BY <1>4, <4>3, <4>4 DEF StockMove
    <3>5. CASE SellerApplies(dying)
      <4>1. PICK id, note :
              Move(Seller, [Entering(Seller, "sending") EXCEPT !.reply = id, !.note = note, !.dying = dying])
        BY <3>5 DEF SellerApplies
      <4> DEFINE d == [Entering(Seller, "sending") EXCEPT !.reply = id, !.note = note, !.dying = dying]
      <4>2. d.pc = "sending" /\ d.dying = dying
        BY <3>2, <3>3 DEF Process
      <4>3. Move(Seller, d) /\ applications' = applications + 1
        BY <3>5, <4>1 DEF SellerApplies
      <4> HIDE DEF d
      <4>4. WorkMove(old, d)
        BY <3>1, <4>2, <4>3 DEF WorkMove, dying
      <4> QED BY <1>4, <4>3, <4>4 DEF StockMove
    <3> QED BY <3>1, <3>4, <3>5
  <2>7. CASE SellerStalls
    <3> DEFINE d == [Entering(Seller, "stalled") EXCEPT !.since = clock]
    <3>1. /\ Move(Seller, d) /\ journal' = journal /\ applications' = applications /\ ~marker
          /\ Scripted("crash_after_claim") /\ old.pc = "handling"
      BY <2>7 DEF SellerStalls, At, old
    <3>2. "stalled" \in Places /\ Entering(Seller, "stalled") \in Process
      BY <1>11, <1>14
    <3>3. Entering(Seller, "stalled").pc = "stalled"
      BY <1>1, <3>2, Fields
    <3>4. d.pc = "stalled"
      BY <3>2, <3>3 DEF Process
    <3> HIDE DEF d
    <3>5. StallMove(old, d)
      BY <3>1, <3>4 DEF StallMove
    <3> QED BY <1>4, <3>1, <3>5 DEF StockMove
  <2>8. CASE SellerWakes
    <3> DEFINE d == [Entering(Seller, "acking") EXCEPT !.note = {"applied"}, !.dying = TRUE]
    <3>1. /\ Move(Seller, d) /\ UNCHANGED <<journal, marker, applications>> /\ old.pc = "stalled"
      BY <2>8 DEF SellerWakes, At, old
    <3>2. "acking" \in Places /\ Entering(Seller, "acking") \in Process
      BY <1>11, <1>14
    <3>3. Entering(Seller, "acking").pc = "acking"
      BY <1>1, <3>2, Fields
    <3>4. d.pc = "acking" /\ d.dying
      BY <3>2, <3>3 DEF Process
    <3> HIDE DEF d
    <3>5. QuietMove(old, d)
      BY <1>3, <3>1, <3>4 DEF QuietMove, SellersKept
    <3> QED BY <1>4, <3>1, <3>5 DEF StockMove
  <2>9. CASE MarkReported
    <3>1. /\ Move(Seller, Resting(Seller)) /\ UNCHANGED <<marker, applications>> /\ old.pc = "accepted"
          /\ journal'[Seller] = {[e EXCEPT !.unreported = @ /\ e.message # procs[Seller].message] :
                                   e \in journal[Seller]}
      BY <1>1, <2>9 DEF MarkReported, At, old
    <3>2. Resting(Seller).pc = "idle" /\ Resting(Seller).dying = FALSE
      BY <1>1, Fields
    <3>3. journal[Seller] = {} => journal'[Seller] = {}
      BY <3>1
    <3>4. MarkMove(old, Resting(Seller))
      BY <3>1, <3>2, <3>3 DEF MarkMove
    <3> QED BY <1>4, <3>1, <3>4 DEF StockMove
  <2>10. CASE SendNew(Seller)
    <3>1. ~Suppresses(procs[Seller].reply)
      BY <1>2 DEF Suppresses
    <3> QED BY <1>12, <2>10, <3>1 DEF SendNew, At, old
  <2>11. CASE SendAgain(Seller)
    BY <1>12, <2>11 DEF SendAgain, At, old
  <2>12. CASE NoteSuppressed(Seller) \/ AckLooksAtFault(Seller) \/ BridgeHandles
    BY <1>2, <1>3, <2>12 DEF NoteSuppressed, AckLooksAtFault, BridgeHandles, DroppedFor, At, old
  <2>13. CASE DropAck(Seller)
    <3>1. /\ Move(Seller, Entering(Seller, "acking")) /\ UNCHANGED <<journal, marker, applications>>
          /\ old.pc = "dropping"
      BY <2>13 DEF DropAck, At, old
    <3>2. Turns(old.pc, "acking")
      BY <3>1 DEF Turns
    <3> QED BY <1>3, <1>10, <1>11, <3>1, <3>2
  <2>14. CASE AckAccepted(Seller)
    <3>1. old.pc = "acking" /\ UNCHANGED <<journal, marker, applications>>
      BY <2>14 DEF AckAccepted, At, old
    <3>2. \/ Move(Seller, Exited(Seller, 9))
          \/ ~old.dying /\ Move(Seller, Entering(Seller, "accepted"))
          \/ ~old.dying /\ Move(Seller, Told(Seller, "recorded"))
      BY <2>14 DEF AckAccepted, old
    <3>3. Turns(old.pc, "accepted")
      BY <3>1 DEF Turns
    <3>4. CASE Move(Seller, Exited(Seller, 9))
      <4>1. 9 \in Codes /\ 9 # 3
        BY DEF Codes
      <4> QED BY <1>9, <3>1, <3>4, <4>1
    <3>5. CASE ~old.dying /\ Move(Seller, Entering(Seller, "accepted"))
      BY <1>10, <1>11, <3>1, <3>3, <3>5
    <3>6. CASE ~old.dying /\ Move(Seller, Told(Seller, "recorded"))
      BY <1>8, <1>11, <3>1, <3>6
    <3> QED BY <3>2, <3>4, <3>5, <3>6
  <2>15. CASE AckRefused(Seller)
    <3>1. old.pc = "acking" /\ UNCHANGED <<journal, marker, applications>>
      BY <2>15 DEF AckRefused, At, old
    <3>2. \/ old.dying /\ Move(Seller, Exited(Seller, 3))
          \/ ~old.dying /\ Move(Seller, Told(Seller, "stale"))
      BY <2>15 DEF AckRefused, old
    <3>3. CASE old.dying /\ Move(Seller, Exited(Seller, 3))
      <4>1. 3 \in Codes
        BY DEF Codes
      <4> QED BY <1>9, <3>1, <3>3, <4>1
    <3>4. CASE ~old.dying /\ Move(Seller, Told(Seller, "stale"))
      BY <1>8, <1>11, <3>1, <3>4
    <3> QED BY <3>2, <3>3, <3>4
  <2>16. CASE Leave(Seller)
    <3>1. Move(Seller, Exited(Seller, 0)) /\ UNCHANGED <<journal, marker, applications>>
      BY <1>1, <2>16 DEF Leave
    <3>2. 0 \in Codes /\ 0 # 3
      BY DEF Codes
    <3> QED BY <1>9, <3>1, <3>2
  <2> QED
    BY <1>1, <1>15, <2>1, <2>2, <2>3, <2>4, <2>5, <2>6, <2>7, <2>8, <2>9, <2>10, <2>11, <2>12, <2>13, <2>14,
       <2>15, <2>16 DEF Participant
<1>16. CASE Think(Seller) \/ AwaitHint(Seller) \/ Restart(Seller) \/ AgentFails
  BY <1>2, <1>16, ThinkParts DEF AwaitHint, Models, Restart, External, AgentFails
<1>17. CASE Crash(Seller)
  <2> DEFINE d == [Idle EXCEPT !.pc = "exited", !.code = 1]
  <2>1. d.pc = "exited" /\ d.code = 1 /\ d.dying = FALSE
    BY DEF Idle
  <2>2. Move(Seller, d) /\ UNCHANGED <<journal, marker, applications>>
    BY <1>17 DEF Crash
  <2> HIDE DEF d
  <2> QED BY <1>6, <2>1, <2>2
<1>18. CASE RestartSeller
  <2> DEFINE d == Starting(Seller)
  <2>1. d.pc = "idle" /\ d.dying = FALSE
    BY <1>1, <1>2 DEF Starting, Idle
  <2>2. /\ Move(Seller, d) /\ UNCHANGED <<journal, marker, applications>>
        /\ old.pc = "exited" /\ old.code = 3
    BY <1>18 DEF RestartSeller, RestartDue, SellerCrashed, Spawned, At, old
  <2>3. runner'.restarted
    BY <1>18 DEF RestartSeller, RunnerTypeOK
  <2> HIDE DEF d
  <2>4. QuietMove(old, d)
    BY <2>1, <2>2, <2>3 DEF QuietMove, SellersKept
  <2> QED BY <1>4, <2>2, <2>4 DEF StockMove
<1>19. CASE EndSettling
  <2>1. UNCHANGED <<journal, marker, applications>>
    BY <1>19 DEF EndSettling
  <2>2. Move(Seller, Exited(Seller, 2)) \/ Move(Seller, procs[Seller])
    BY <1>19 DEF EndSettling, Stops
  <2>3. CASE Move(Seller, Exited(Seller, 2))
    <3>1. 2 \in Codes /\ 2 # 3
      BY DEF Codes
    <3> QED BY <1>9, <2>1, <2>3, <3>1
  <2>4. CASE Move(Seller, procs[Seller])
    <3>1. procs'[Seller] = procs[Seller]
      BY <1>1, <2>4, Moved
    <3> QED BY <1>7, <2>1, <3>1 DEF SellersKept
  <2> QED BY <2>2, <2>3, <2>4
<1>20. CASE ~SellersStep
  BY <1>1, <1>7, <1>20, SellerAlone
<1> QED BY <1>15, <1>16, <1>17, <1>18, <1>19, <1>20 DEF SellersStep, Accident

\* How often the request was delivered: a claim of the seller's adds one.
RequestCounted ==
  QuoteRequest \in DOMAIN messages' =>
    \/ QuoteRequest \notin DOMAIN messages /\ messages'[QuoteRequest].attempts = 0
    \/ /\ QuoteRequest \in DOMAIN messages
       /\ messages'[QuoteRequest].attempts = messages[QuoteRequest].attempts
    \/ /\ QuoteRequest \in DOMAIN messages
       /\ messages'[QuoteRequest].attempts = messages[QuoteRequest].attempts + 1
       /\ procs[Seller].pc = "claiming" /\ procs'[Seller].pc = "handling"

\* Nothing else delivers it to a seller about to crash.
LEMMA RequestDelivered ==
  ASSUME TownInv, Scripted("crash_after_claim"), procs[Seller].pc # "reoffering",
         \A r \in adrift : r.pc = "reoffering" => r.by # Seller, [TownNext]_trackVars
  PROVE  RequestCounted
<1> USE DEF mailbox
<1>1. /\ TypeOK /\ TownTypeOK /\ Letters /\ Sampled \subseteq Nat /\ Participants = {Buyer, Seller}
      /\ Buyer # Seller /\ cast[Seller] = "stock"
      /\ \A i \in DOMAIN messages : messages[i] \in Message
  BY Names DEF TownInv, FencingInv, TypeOK, Sampled, Scripted
<1>2. ASSUME DOMAIN messages' = DOMAIN messages,
             \A i \in DOMAIN messages : messages'[i].attempts = messages[i].attempts
      PROVE  RequestCounted
  BY <1>2 DEF RequestCounted
<1>3. ASSUME NEW now
      PROVE  /\ DOMAIN MessagesAfterExpiry(now) = DOMAIN messages
             /\ \A i \in DOMAIN messages : /\ MessagesAfterExpiry(now)[i].attempts = messages[i].attempts
                                           /\ MessagesAfterExpiry(now)[i].to = messages[i].to
  BY <1>1 DEF MessagesAfterExpiry, Message
<1>7. ASSUME NEW p, p # Seller, NEW now, Reoffer(p, doneTarget, now)
      PROVE  RequestCounted
  <2>1. /\ doneTarget \in DOMAIN messages /\ messages[doneTarget].to = p
        /\ messages' = [messages EXCEPT ![doneTarget].attempts = @ + 1]
    BY <1>7 DEF Reoffer, Reofferable
  <2>2. doneTarget # QuoteRequest
    BY <1>1, <1>7, <2>1 DEF Letters
  <2> QED BY <2>1, <2>2 DEF RequestCounted
<1>4. ASSUME NEW p \in Participants, Participant(p)
      PROVE  RequestCounted
  <2>1. CASE WaitForHint(p)
    BY <1>2, <2>1 DEF WaitForHint, Notify, PopNotify
  <2>2. CASE ClaimWork(p)
    <3>1. PICK now \in Sampled : ClaimNext(p, now)
      BY <2>2 DEF ClaimWork
    <3>2. PICK i \in Oldest(Waiting(p, now)) :
            messages' = [MessagesAfterExpiry(now) EXCEPT ![i].status = "claimed", ![i].attempts = @ + 1]
      BY <3>1 DEF ClaimNext
    <3>3. i \in DOMAIN messages /\ messages[i].to = p
      BY DEF Oldest, Waiting
    <3>4. MessagesAfterExpiry(now) \in [DOMAIN messages -> Message]
      BY <1>1, ExpiryTypes
    <3>5. /\ DOMAIN messages' = DOMAIN messages
          /\ \A j \in DOMAIN messages :
               messages'[j].attempts = IF j = i THEN messages[j].attempts + 1 ELSE messages[j].attempts
      BY <1>3, <3>2, <3>3, <3>4 DEF Message
    <3>6. CASE p = Seller
      <4>1. i = QuoteRequest
        BY <1>1, <3>3, <3>6 DEF Letters
      <4>2. Move(Seller, Delivered(Seller, FALSE)) /\ procs[Seller].pc = "claiming"
        BY <2>2, <3>6 DEF ClaimWork, At
      <4>3. procs'[Seller] = Delivered(Seller, FALSE)
        BY <1>1, <4>2, Moved
      <4>4. Delivered(Seller, FALSE).pc = "handling"
        BY <1>1, DeliveredFields
      <4> QED BY <3>3, <3>5, <4>1, <4>2, <4>3, <4>4 DEF RequestCounted
    <3>7. CASE p # Seller
      <4>1. i # QuoteRequest
        BY <1>1, <3>3, <3>7 DEF Letters
      <4> QED BY <3>5, <4>1 DEF RequestCounted
    <3> QED BY <3>6, <3>7
  <2>3. CASE ClaimFoundNothing(p)
    <3>1. PICK now : messages' = MessagesAfterExpiry(now)
      BY <2>3 DEF ClaimFoundNothing, ClaimNothing
    <3> QED BY <1>2, <1>3, <3>1
  <2>4. CASE OfferDuplicate(p)
    <3>1. p # Seller
      BY <2>4 DEF OfferDuplicate, At
    <3> QED BY <1>7, <2>4, <3>1 DEF OfferDuplicate
  <2>5. CASE SendNew(p)
    <3>1. /\ messages'[procs[p].reply].attempts = 0
      BY <2>5 DEF SendNew, AcceptMessage, NewMessage
    <3> QED BY <2>5, <3>1, SendAdds DEF RequestCounted
  <2>6. CASE AckAccepted(p)
    <3>1. \A i, f, st, note, now : Ack(p, i, f, st, note, now) =>
            /\ DOMAIN messages' = DOMAIN messages
            /\ \A j \in DOMAIN messages : messages'[j].attempts = messages[j].attempts
      BY <1>1 DEF Ack, Message
    <3> QED BY <1>2, <2>6, <3>1 DEF AckAccepted
  <2>7. CASE AckRefused(p)
    <3>1. \A i, f, now : AckLapsed(p, i, f, now) =>
            /\ DOMAIN messages' = DOMAIN messages
            /\ \A j \in DOMAIN messages : messages'[j].attempts = messages[j].attempts
      BY <1>1 DEF AckLapsed, Message
    <3> QED BY <1>2, <2>7, <3>1 DEF AckRefused
  <2>8. CASE UNCHANGED mailbox
    BY <1>2, <2>8
  <2> QED BY <1>4, <2>1, <2>2, <2>3, <2>4, <2>5, <2>6, <2>7, <2>8
    DEF Participant, OfferRefused, SellerHandles, SellerStalls, SellerWakes, MarkReported,
        BridgeHandles, BuyerHandles, SendAgain, NoteSuppressed, AckLooksAtFault, DropAck, Leave
<1>5. ASSUME NEW p \in Participants, Think(p) \/ AwaitHint(p) \/ Accident(p)
      PROVE  RequestCounted
  BY <1>2, <1>5 DEF Think, AwaitHint, Notify, PopNotify, Accident, Crash, Restart, AgentFails
<1>6. CASE Runner \/ TimePasses \/ UNCHANGED trackVars
  BY <1>2, <1>6 DEF Runner, EndWatch, SellerIsDone, RestartSeller, EndSettling, FinishRun, TimePasses,
                    Tick, tables, trackVars
<1>8. CASE HandlerEnds
  <2>1. PICK r \in adrift : NotesLate(r) \/ DropsLate(r) \/ OffersLate(r) \/ FindsNoOffer(r)
    BY <1>8 DEF HandlerEnds
  <2>2. CASE OffersLate(r)
    BY <1>7, <2>2 DEF OffersLate
  <2>3. CASE UNCHANGED mailbox
    BY <1>2, <2>3
  <2> QED BY <2>1, <2>2, <2>3 DEF NotesLate, DropsLate, FindsNoOffer
<1> QED BY <1>4, <1>5, <1>6, <1>8 DEF TownNext

\* Until its restart a seller that is to crash is delivered the request once.
LEMMA BeforeRestartStep ==
  ASSUME TownInv, Scripted("crash_after_claim"), fault' = fault, RunnerTypeOK, ~runner'.restarted,
         BeforeRestart(procs[Seller], marker, messages),
         \A r \in adrift : r.pc = "reoffering" => r.by # Seller, [TownNext]_trackVars
  PROVE  BeforeRestart(procs'[Seller], marker', messages')
<1> DEFINE old == procs[Seller]
           new == procs'[Seller]
           once == QuoteRequest \in DOMAIN messages =>
                     /\ messages[QuoteRequest].attempts <= 1
                     /\ old.pc \in {"idle", "claiming"} => messages[QuoteRequest].attempts = 0
<1>1. /\ StockMove(old, new) /\ RequestCounted
      /\ \A i \in DOMAIN messages : messages[i].attempts \in Nat
  BY StockMoves, RequestDelivered DEF CrashFault, BeforeRestart, TownInv, FencingInv, TypeOK, Message
<1>2. old.pc \in {"idle", "claiming", "handling", "stalled", "acking", "exited"}
  BY DEF BeforeRestart
<1>3. old.pc \in {"idle", "claiming", "handling"} => ~marker
  BY DEF BeforeRestart
<1>4. old.pc = "acking" => old.dying
  BY DEF BeforeRestart
<1>5. once
  BY DEF BeforeRestart
<1> HIDE DEF old, new, once
<1>6. /\ new.pc \in {"idle", "claiming", "handling", "stalled", "acking", "exited"}
      /\ new.pc \in {"idle", "claiming"} => old.pc \in {"idle", "claiming"}
      /\ new.pc = "handling" => old.pc \in {"idle", "claiming", "handling"}
      /\ new.pc \in {"idle", "claiming", "handling"} => marker' = marker
      /\ new.pc = "acking" => new.dying
  <2>1. CASE QuietMove(old, new)
    BY <1>2, <1>4, <2>1 DEF QuietMove, SellersKept, Turns
  <2>2. CASE StallMove(old, new)
    BY <2>2 DEF StallMove
  <2>3. CASE WorkMove(old, new) \/ ForgetMove(old, new) \/ MarkMove(old, new)
    BY <1>2, <1>3, <2>3 DEF WorkMove, ForgetMove, MarkMove
  <2> QED BY <1>1, <2>1, <2>2, <2>3 DEF StockMove
<1>7. QuoteRequest \in DOMAIN messages' => messages'[QuoteRequest].attempts <= 1
  BY <1>1, <1>5 DEF RequestCounted, old, once
<1>8. QuoteRequest \in DOMAIN messages' /\ new.pc \in {"idle", "claiming"} => messages'[QuoteRequest].attempts = 0
  BY <1>1, <1>5, <1>6 DEF RequestCounted, once, new, old
<1> QED BY <1>3, <1>6, <1>7, <1>8 DEF BeforeRestart, new

\* A new reply is the seller's, which goes on from sending it.
LEMMA RepliesFrom ==
  ASSUME TownInv, CrashFault, fault' = fault, [TownNext]_trackVars
  PROVE  \/ \A i \in DOMAIN messages' : i \in Replies => i \in DOMAIN messages
         \/ procs[Seller].pc = "sending" /\ procs'[Seller].pc # "sending"
<1>1. /\ TownTypeOK /\ BuyerInv /\ SellerInv /\ Seller \in Participants /\ Participants = {Buyer, Seller}
      /\ Buyer # Seller /\ QuoteRequest \notin Replies
  BY Names DEF TownInv
<1>2. CASE DOMAIN messages' = DOMAIN messages
  BY <1>2
<1>3. ASSUME NEW p \in Participants, SendNew(p), p # Seller
      PROVE  \A i \in DOMAIN messages' : i \in Replies => i \in DOMAIN messages
  <2>1. procs[p].reply = QuoteRequest
    BY <1>1, <1>3, SendIds DEF SendNew
  <2> QED BY <1>1, <1>3, <2>1, SendAdds
<1>4. CASE SendNew(Seller)
  <2>1. ~Suppresses(procs[Seller].reply) /\ cast[Seller] # "model"
    BY DEF Suppresses, CrashFault, Scripted, Amnesiac
  <2>2. Move(Seller, AfterSend(Seller)) /\ procs[Seller].pc = "sending"
    BY <1>4, <2>1 DEF SendNew, At
  <2>3. AfterSend(Seller).pc # "sending"
    <3>1. "acking" \in Places /\ "accepted" \in Answers
      BY DEF Places, ModelPlaces, Answers
    <3>2. Exited(Seller, 3).pc = "exited"
      <4>1. 3 \in Codes
        BY DEF Codes
      <4> QED BY <1>1, <4>1, Fields, ZenonT(40)
    <3>3. Told(Seller, "accepted").pc = "idle"
      BY <1>1, <2>1, <3>1, Fields
    <3>4. Entering(Seller, "acking").pc = "acking"
      BY <1>1, <3>1, Fields
    <3> QED BY <3>2, <3>3, <3>4 DEF AfterSend
  <2>4. procs'[Seller] = AfterSend(Seller)
    BY <1>1, <2>2, Moved
  <2> QED BY <2>2, <2>3, <2>4
<1> QED BY <1>2, <1>3, <1>4, MessagesFrom

\* A seller that loses its journal replies before it does, and not until it has applied again.
LEMMA ForgettingStep ==
  ASSUME TownInv, Amnesiac, fault' = fault, cast' = cast, RunnerTypeOK,
         Forgetting(procs[Seller], journal[Seller], marker, applications, messages), [TownNext]_trackVars
  PROVE  Forgetting(procs'[Seller], journal'[Seller], marker', applications', messages')
<1> DEFINE old == procs[Seller]
           new == procs'[Seller]
           known == journal[Seller]
           knownAfter == journal'[Seller]
           silent == DOMAIN messages \cap Replies = {}
           silentAfter == DOMAIN messages' \cap Replies = {}
<1>1. CrashFault /\ ~Scripted("crash_after_claim")
  BY DEF CrashFault, Amnesiac, Scripted
<1>2. StockMove(old, new)
  BY <1>1, StockMoves
<1>3. applications \in Nat /\ applications' \in Nat /\ marker \in BOOLEAN
  BY TownStep DEF TownInv, TownTypeOK
<1>4. /\ SellerDoomed(old, known, marker, applications, Reporting("applied"))
      /\ JournalKnows(old, known, applications)
  BY DEF TownInv, SellerInv, SellerGood
<1>5. /\ old.dying => marker /\ old.pc = "sending"
      /\ ~marker => applications = 0 /\ known = {}
  BY <1>1, <1>4 DEF SellerDoomed
<1>6. TownInv' /\ Amnesiac'
  BY TownStep DEF Amnesiac, Scripted
<1>7. applications' <= 2
  BY <1>6 DEF TownInv, SellerInv, SellerGood, JournalKnows
<1>8. new.dying => new.pc = "sending"
  <2>1. ~Scripted("crash_after_claim")'
    BY <1>6 DEF Amnesiac, Scripted
  <2> QED BY <1>6, <2>1 DEF TownInv, SellerInv, SellerGood, SellerDoomed
<1>9. silentAfter \/ ~silent \/ (old.pc = "sending" /\ new.pc # "sending")
  BY <1>1, RepliesFrom
<1>10. applications = 0 => silent
  BY DEF Forgetting
<1>11. old.dying => silent
  BY DEF Forgetting
<1>12. old.pc = "sending" => old.dying \/ applications = 2
  BY DEF Forgetting
<1>13. applications = 1 => old.dying \/ known = {} \/ (old.pc = "exited" /\ old.code # 3)
  BY DEF Forgetting
<1>14. marker => applications >= 1
  BY DEF Forgetting
<1> HIDE DEF old, new, known, knownAfter, silent, silentAfter
<1>15. QuietMove(old, new) \/ WorkMove(old, new) \/ ForgetMove(old, new) \/ MarkMove(old, new)
  BY <1>1, <1>2 DEF StockMove, StallMove
<1>16. QuietMove(old, new) => marker' = marker /\ applications' = applications /\ knownAfter = known
  BY DEF QuietMove, SellersKept, knownAfter, known
<1>17. WorkMove(old, new) =>
         /\ old.pc = "handling" /\ new.pc = "sending" /\ (new.dying <=> ~marker) /\ (marker' <=> marker \/ new.dying)
         /\ (applications' = applications /\ known # {}) \/ applications' = applications + 1
  BY DEF WorkMove, known
<1>18. applications' >= applications
  BY <1>3, <1>15, <1>16, <1>17 DEF ForgetMove, MarkMove
<1>19. applications' = 0 => silentAfter
  <2>1. old.pc = "sending" => applications >= 1
    BY <1>5, <1>12, <1>14
  <2> QED BY <1>3, <1>9, <1>10, <1>18, <2>1
<1>20. new.dying => silentAfter
  <2>1. CASE QuietMove(old, new)
    BY <1>1, <1>8, <1>9, <1>11, <2>1 DEF QuietMove
  <2>2. CASE WorkMove(old, new)
    BY <1>5, <1>9, <1>10, <1>17, <2>2
  <2>3. CASE ForgetMove(old, new) \/ MarkMove(old, new)
    BY <2>3 DEF ForgetMove, MarkMove
  <2> QED BY <1>15, <2>1, <2>2, <2>3
<1>21. new.pc = "sending" => new.dying \/ applications' = 2
  <2>1. CASE QuietMove(old, new)
    BY <1>12, <1>16, <2>1 DEF QuietMove, Turns
  <2>2. CASE WorkMove(old, new)
    BY <1>3, <1>5, <1>7, <1>13, <1>14, <1>17, <2>2
  <2>3. CASE ForgetMove(old, new) \/ MarkMove(old, new)
    BY <2>3 DEF ForgetMove, MarkMove
  <2> QED BY <1>15, <2>1, <2>2, <2>3
<1>22. applications' = 1 => new.dying \/ knownAfter = {} \/ (new.pc = "exited" /\ new.code # 3)
  <2>1. CASE QuietMove(old, new)
    BY <1>1, <1>5, <1>13, <1>16, <2>1 DEF QuietMove, Turns
  <2>2. CASE WorkMove(old, new)
    BY <1>3, <1>5, <1>13, <1>14, <1>17, <2>2
  <2>3. CASE ForgetMove(old, new)
    BY <2>3 DEF ForgetMove, knownAfter
  <2>4. CASE MarkMove(old, new)
    BY <1>5, <1>13, <2>4 DEF MarkMove, knownAfter, known
  <2> QED BY <1>15, <2>1, <2>2, <2>3, <2>4
<1>23. marker' => applications' >= 1
  <2>1. CASE WorkMove(old, new)
    BY <1>3, <1>5, <1>14, <1>17, <1>18, <2>1
  <2>2. CASE ~WorkMove(old, new)
    <3>1. marker' = marker
      BY <1>15, <1>16, <2>2 DEF ForgetMove, MarkMove
    <3> QED BY <1>3, <1>14, <1>18, <3>1
  <2> QED BY <2>1, <2>2
<1>24. Replies' = Replies
  BY DEF Replies
<1> QED BY <1>19, <1>20, <1>21, <1>22, <1>23, <1>24 DEF Forgetting, new, knownAfter, silentAfter

\* The runner restarts a seller only after its scripted crash.
LEMMA RestartsAre ==
  ASSUME TownInv, RunnerTypeOK, [TownNext]_trackVars
  PROVE  runner'.restarted => runner.restarted \/ (marker /\ CrashFault)
<1> USE DEF control
<1>1. CASE RestartSeller
  <2>1. procs[Seller].pc = "exited" /\ procs[Seller].code = 3
    BY <1>1 DEF RestartSeller, RestartDue, SellerCrashed, Spawned, At
  <2>2. SellerStands(procs[Seller], journal[Seller], marker)
    BY DEF TownInv, SellerInv, SellerGood
  <2> QED BY <2>1, <2>2 DEF SellerStands
<1>2. CASE EndWatch \/ SellerIsDone \/ EndSettling
  BY <1>2 DEF EndWatch, SellerIsDone, EndSettling, RunnerTypeOK
<1>3. ASSUME NEW p \in Participants, Participant(p)
      PROVE  runner' = runner
  BY <1>3 DEF Participant, WaitForHint, ClaimWork, ClaimFoundNothing, OfferDuplicate, OfferRefused,
    SellerHandles, SellerStalls, SellerWakes, MarkReported, BridgeHandles, BuyerHandles, SendNew, SendAgain,
    NoteSuppressed, AckLooksAtFault, DropAck, AckAccepted, AckRefused, Leave
<1>4. ASSUME NEW p \in Participants, Think(p) \/ AwaitHint(p) \/ Accident(p)
      PROVE  runner' = runner
  BY <1>4 DEF Think, AwaitHint, Accident, Crash, Restart, AgentFails
<1>5. CASE HandlerEnds \/ TimePasses \/ UNCHANGED trackVars
  BY <1>5 DEF HandlerEnds, TimePasses, trackVars
<1> QED BY <1>1, <1>2, <1>3, <1>4, <1>5 DEF TownNext, Runner

\* What is adrift was left so by its client's end, or was adrift before.
LEMMA AdriftFrom ==
  ASSUME [TownNext]_trackVars, NEW r \in adrift'
  PROVE  r \in adrift \/ \E p \in Participants : r = Underway(p)
<1> USE DEF memory
<1>1. ASSUME NEW p \in Participants, Participant(p)
      PROVE  adrift' = adrift
  BY <1>1 DEF Participant, WaitForHint, ClaimWork, ClaimFoundNothing, OfferDuplicate, OfferRefused,
    SellerHandles, SellerStalls, SellerWakes, MarkReported, BridgeHandles, BuyerHandles, SendNew, SendAgain,
    NoteSuppressed, AckLooksAtFault, DropAck, AckAccepted, AckRefused, Leave
<1>2. ASSUME NEW p \in Participants, Think(p) \/ AwaitHint(p) \/ Restart(p) \/ AgentFails
      PROVE  adrift' = adrift
  BY <1>2 DEF Think, AwaitHint, Restart, AgentFails
<1>3. ASSUME NEW p \in Participants, Crash(p) \/ Stops(p)
      PROVE  adrift' \subseteq adrift \cup {Underway(p)}
  BY <1>3 DEF Crash, Stops, LeavesAdrift
<1>4. CASE EndWatch \/ EndSettling
  BY <1>3, <1>4, Names DEF EndWatch, EndSettling
<1>5. CASE SellerIsDone \/ RestartSeller \/ TimePasses \/ UNCHANGED trackVars
  BY <1>5 DEF SellerIsDone, RestartSeller, TimePasses, trackVars
<1>6. CASE HandlerEnds
  BY <1>6 DEF HandlerEnds
<1> QED BY <1>1, <1>2, <1>3, <1>4, <1>5, <1>6 DEF TownNext, Accident, Runner

\* A suppressed hint stays so, and a seller that is to crash leaves no offer behind.
LEMMA StraysStep ==
  ASSUME TownInv, TalkInv, RowsStay, cast' = cast, fault' = fault,
         runner.restarted => runner'.restarted, [TownNext]_trackVars
  PROVE  StraysTell(adrift, notifications, runner.restarted)'
<1>1. /\ StraysTell(adrift, notifications, runner.restarted)
      /\ BuyerTells(procs[Buyer], journal[Buyer], notifications)
      /\ SellerTells(procs[Seller], journal[Seller], marker, applications, messages, runner.restarted)
      /\ procs[Seller].pc # "suppressing"
  BY DEF TalkInv, TownInv, SellerInv, SellerGood, SellerStands
<1>2. QuoteRequest \in DOMAIN notifications /\ notifications[QuoteRequest] = "suppressed" =>
        QuoteRequest \in DOMAIN notifications' /\ notifications'[QuoteRequest] = "suppressed"
  BY DEF RowsStay
<1>3. Scripted("crash_after_claim")' <=> Scripted("crash_after_claim")
  BY DEF Scripted
<1>4. Underway(Buyer).by = Buyer /\ Underway(Buyer).pc = procs[Buyer].pc
      /\ Underway(Seller).by = Seller /\ Underway(Seller).pc = procs[Seller].pc
  BY DEF Underway
<1>5. \A r \in adrift' : r \in adrift \/ r = Underway(Buyer) \/ r = Underway(Seller)
  BY AdriftFrom, Names
<1>6. procs[Buyer].pc = "suppressing" =>
        QuoteRequest \in DOMAIN notifications /\ notifications[QuoteRequest] = "suppressed"
  BY <1>1 DEF BuyerTells
<1>7. Scripted("crash_after_claim") /\ ~runner.restarted => procs[Seller].pc # "reoffering"
  BY <1>1 DEF SellerTells, BeforeRestart
<1>8. ASSUME NEW r \in adrift'
      PROVE  /\ r.pc = "suppressing" =>
                  QuoteRequest \in DOMAIN notifications' /\ notifications'[QuoteRequest] = "suppressed"
             /\ r.pc = "reoffering" /\ r.by = Seller => ~Scripted("crash_after_claim") \/ runner'.restarted
  <2>1. CASE r \in adrift
    BY <1>1, <1>2, <2>1 DEF StraysTell
  <2>2. CASE r = Underway(Buyer)
    BY <1>2, <1>4, <1>6, <2>2, Names
  <2>3. CASE r = Underway(Seller)
    BY <1>1, <1>4, <1>7, <2>3
  <2> QED BY <1>5, <2>1, <2>2, <2>3
<1> QED BY <1>3, <1>8 DEF StraysTell

\* The seller puts on record nothing that did not happen.
LEMMA SellerTellsStep ==
  ASSUME TownInv, TalkInv, [TownNext]_trackVars
  PROVE  SellerTells(procs[Seller], journal[Seller], marker, applications, messages, runner.restarted)'
<1>1. /\ TownTypeOK /\ TownTypeOK' /\ ~procs[Buyer].dying /\ RunnerTypeOK
      /\ SellerTells(procs[Seller], journal[Seller], marker, applications, messages, runner.restarted)
  BY TownStep DEF TownInv, TalkInv, BuyerTells
<1>2. cast' = cast /\ fault' = fault
  BY <1>1, MemoriesStay
<1>3. marker => marker'
  BY <1>1, MemoriesStay
<1>4. runner.restarted => runner'.restarted
  BY <1>1, MemoriesStay
<1>5. /\ Scripted("crash_after_claim")' <=> Scripted("crash_after_claim")
      /\ Amnesiac' <=> Amnesiac
      /\ CrashFault' <=> CrashFault
  BY <1>2 DEF CrashFault, Amnesiac, Scripted
<1>6. procs'[Seller].message \in {Nothing, QuoteRequest}
  BY <1>1, SellerNames DEF SellerTells
<1>7. runner'.restarted => marker' /\ CrashFault
  BY <1>1, <1>3, RestartsAre DEF SellerTells
<1>8. ASSUME Scripted("crash_after_claim"), ~runner'.restarted
      PROVE  BeforeRestart(procs'[Seller], marker', messages')
  <2>1. BeforeRestart(procs[Seller], marker, messages)
    BY <1>1, <1>4, <1>8 DEF SellerTells
  <2>2. \A r \in adrift : r.pc = "reoffering" => r.by # Seller
    BY <1>4, <1>8 DEF TalkInv, StraysTell
  <2> QED BY <1>1, <1>2, <1>8, <2>1, <2>2, BeforeRestartStep
<1>9. ASSUME Amnesiac
      PROVE  Forgetting(procs'[Seller], journal'[Seller], marker', applications', messages')
  <2>1. Forgetting(procs[Seller], journal[Seller], marker, applications, messages)
    BY <1>1, <1>9 DEF SellerTells
  <2> QED BY <1>1, <1>2, <1>9, <2>1, ForgettingStep
<1>10. Amnesiac =>
         Forgetting(procs[Seller], journal[Seller], marker, applications, messages)'
  BY <1>2, <1>9 DEF Forgetting, Replies
<1> QED BY <1>5, <1>6, <1>7, <1>8, <1>10 DEF SellerTells, BeforeRestart

\* A run starts with nothing said and nothing on record.
LEMMA VerdictStarts == TownInit => VerdictInv
<1> SUFFICES ASSUME TownInit PROVE VerdictInv
  OBVIOUS
<1>1. /\ messages = [i \in {} |-> 0] /\ acks = <<>> /\ offered = [i \in {} |-> 0]
      /\ procs = [p \in Participants |-> Starting(p)] /\ marker = FALSE /\ applications = 0
      /\ journal = [p \in Participants |-> {}] /\ doneTarget = Nothing /\ log = <<>>
      /\ runner = [phase |-> "watching", restarted |-> FALSE, sellerDone |-> FALSE, until |-> Deadline,
                   verdict |-> Nothing]
  BY DEF TownInit, TrackInit, Init
<1>2. /\ DOMAIN messages = {} /\ DOMAIN offered = {} /\ DOMAIN log = {}
      /\ journal[Seller] = {} /\ procs[Buyer] = Starting(Buyer) /\ procs[Seller] = Starting(Seller)
  BY <1>1, Names
<1>3. \A p \in Participants : /\ Starting(p).note = {} /\ Starting(p).message = Nothing
                              /\ Starting(p).dying = FALSE
                              /\ Starting(p).pc \in {"thinking", "sending", "idle"}
  BY Names DEF Starting, Idle
<1>4. cast[Seller] = "stock" => Starting(Seller).pc = "idle"
  BY Names DEF Starting, Idle
<1>5. RunnerTypeOK
  BY <1>1, TrackAssumption DEF RunnerTypeOK, Judgements
<1>6. Named /\ RequestOffered
  BY <1>1, <1>2 DEF Named, RequestOffered
<1>7. BuyerTells(procs[Buyer], journal[Buyer], notifications)
  BY <1>2, <1>3, Names DEF BuyerTells
<1>8. SellerTells(procs[Seller], journal[Seller], marker, applications, messages, runner.restarted)
  <2>1. ~runner.restarted /\ ~marker /\ applications = 0
    BY <1>1
  <2>2. Scripted("crash_after_claim") => BeforeRestart(procs[Seller], marker, messages)
    BY <1>2, <1>4, <2>1 DEF BeforeRestart, Scripted
  <2>3. Amnesiac => Forgetting(procs[Seller], journal[Seller], marker, applications, messages)
    BY <1>2, <1>3, <1>4, <2>1, Names DEF Forgetting, Amnesiac, Scripted
  <2> QED BY <1>2, <1>3, <2>1, <2>2, <2>3, Names DEF SellerTells
<1>9. RecordTrue
  <2>1. log \in Seq({})
    BY <1>1
  <2> QED BY <1>2, <2>1 DEF RecordTrue, IsSequence
<1>10. StraysTell(adrift, notifications, runner.restarted)
  BY DEF StraysTell, TownInit, TrackInit
<1>11. JudgedOnRecord
  BY <1>1 DEF JudgedOnRecord, Judged
<1> QED BY <1>5, <1>6, <1>7, <1>8, <1>9, <1>10, <1>11, TownStarts DEF VerdictInv, TalkInv

\* And goes on truthfully.
LEMMA VerdictStep == VerdictInv /\ [TownNext]_trackVars => VerdictInv'
<1> SUFFICES ASSUME VerdictInv, [TownNext]_trackVars PROVE VerdictInv'
  OBVIOUS
<1>1. /\ TownInv /\ TalkInv /\ RecordTrue /\ TownInv' /\ TypeOK /\ TownTypeOK /\ TownTypeOK'
      /\ ~procs[Buyer].dying /\ RunnerTypeOK /\ Named /\ RequestOffered
      /\ BuyerTells(procs[Buyer], journal[Buyer], notifications)
  BY TownStep DEF VerdictInv, TownInv, FencingInv, TalkInv, BuyerTells
<1>2. cast' = cast /\ fault' = fault /\ journal[Buyer] \subseteq journal'[Buyer]
      /\ (runner.restarted => runner'.restarted)
  BY <1>1, MemoriesStay
<1>3. RowsStay
  BY <1>1, TownTables, TablesGrow
<1>4. Named' /\ RequestOffered' /\ RunnerTypeOK'
  BY <1>1, <1>2, NamedStep, OfferStep, RunnerStep
<1>5. BuyerTells(procs[Buyer], journal[Buyer], notifications)'
  <2>1. BuyerTells(procs'[Buyer], journal'[Buyer], notifications')
    BY <1>1, <1>2, <1>3, BuyerTellsStep
  <2> QED BY <1>2, <2>1 DEF BuyerTells
<1>6. SellerTells(procs[Seller], journal[Seller], marker, applications, messages, runner.restarted)'
  BY <1>1, SellerTellsStep
<1>7. RecordTrue'
  BY <1>1, RecordStep
<1>8. StraysTell(adrift, notifications, runner.restarted)'
  BY <1>1, <1>2, <1>3, StraysStep
<1>9. JudgedOnRecord'
  BY <1>1, <1>2, JudgedStep DEF VerdictInv
<1> QED BY <1>1, <1>4, <1>5, <1>6, <1>7, <1>8, <1>9 DEF VerdictInv, TalkInv

\* The inductive invariant behind the verdicts: whatever the town has on record happened,
\* and nobody is about to put there what did not.
THEOREM RecordStaysTrue == TownSpec => []VerdictInv
BY VerdictStarts, VerdictStep, PTL DEF TownSpec

-----------------------------------------------------------------------------
(* What a verdict says of the run.                                         *)

\* What the messages and acknowledgements on record are, and that they are all there.
LEMMA Reading ==
  ASSUME VerdictInv
  PROVE  /\ \A n \in Requests(log) : log[n].subject = QuoteRequest
         /\ Requests(log) # {} => RequestId(log) = QuoteRequest
         /\ \A n \in Responses(log) :
              /\ log[n].subject \in AcceptedResponses /\ log[n].subject \in Replies
              /\ log[n].names \in {Nothing, QuoteRequest}
         /\ \A i \in AcceptedResponses : \E n \in Responses(log) : log[n].subject = i
         /\ \A n, m \in Responses(log) : log[n].subject = log[m].subject => n = m
         /\ \A n \in DOMAIN log : log[n].kind = "ack_recorded" =>
              /\ \E a \in DOMAIN acks : /\ acks[a].message = log[n].subject /\ acks[a].fence = log[n].fence
                                        /\ acks[a].status = log[n].status /\ acks[a].note = log[n].note
              /\ log[n].note \subseteq Flags
         /\ \A i \in DOMAIN messages : i = QuoteRequest \/ i \in AcceptedResponses
<1>1. /\ IsSequence(log) /\ Named
      /\ \A n \in DOMAIN log : Attested(log[n], Standing)
      /\ \A n, m \in DOMAIN log :
           IsAccepted(log[n]) /\ IsAccepted(log[m]) /\ log[n].subject = log[m].subject => n = m
      /\ \A i \in DOMAIN messages : \E n \in DOMAIN log : IsAccepted(log[n]) /\ log[n].subject = i
  BY DEF VerdictInv, RecordTrue, TalkInv
<1>2. /\ Requests(log) = {n \in DOMAIN log : log[n].kind = "message_accepted" /\ log[n].content = "quote_request"}
      /\ Responses(log) = {n \in DOMAIN log : log[n].kind = "message_accepted" /\ log[n].content = "quote_response"}
  BY Looking DEF Requests, Responses
<1>3. \A n \in DOMAIN log : log[n].kind = "message_accepted" =>
        /\ log[n].subject \in DOMAIN messages /\ log[n].content = kindOf(log[n].subject)
        /\ log[n].subject # QuoteRequest => log[n].names \in {Nothing, QuoteRequest}
  BY <1>1, StandingIs DEF Attested, AcceptedTrue
<1>4. /\ \A i \in DOMAIN messages : i \in {QuoteRequest} \cup Replies /\ messages[i].content = kindOf(i)
      /\ kindOf(QuoteRequest) = "quote_request"
      /\ \A i : i # QuoteRequest => kindOf(i) = "quote_response"
  BY <1>1 DEF Named, kindOf
<1>5. \A n \in Requests(log) : log[n].subject = QuoteRequest
  BY <1>2, <1>3, <1>4
<1>6. Requests(log) # {} => RequestId(log) = QuoteRequest
  <2>1. Requests(log) # {} => Earliest(Requests(log)) \in Requests(log)
    BY <1>1, EarliestOf, Positions
  <2> QED BY <1>5, <2>1 DEF RequestId, FirstSubject
<1>7. ASSUME NEW n \in Responses(log)
      PROVE  /\ log[n].subject \in AcceptedResponses /\ log[n].subject \in Replies
             /\ log[n].names \in {Nothing, QuoteRequest}
  <2>1. log[n].subject # QuoteRequest /\ log[n].subject \in DOMAIN messages
    BY <1>2, <1>3, <1>4
  <2>2. messages[log[n].subject].content = "quote_response"
    BY <1>4, <2>1
  <2> QED BY <1>2, <1>3, <1>4, <2>1, <2>2 DEF AcceptedResponses
<1>8. ASSUME NEW i \in AcceptedResponses
      PROVE  \E n \in Responses(log) : log[n].subject = i
  <2>1. i \in DOMAIN messages /\ i # QuoteRequest
    BY <1>4 DEF AcceptedResponses
  <2>2. PICK n \in DOMAIN log : IsAccepted(log[n]) /\ log[n].subject = i
    BY <1>1, <2>1
  <2> QED BY <1>2, <1>3, <1>4, <2>1, <2>2 DEF IsAccepted
<1>9. \A n, m \in Responses(log) : log[n].subject = log[m].subject => n = m
  BY <1>1, <1>2 DEF IsAccepted
<1>10. ASSUME NEW n \in DOMAIN log, log[n].kind = "ack_recorded"
       PROVE  /\ \E a \in DOMAIN acks : /\ acks[a].message = log[n].subject /\ acks[a].fence = log[n].fence
                                        /\ acks[a].status = log[n].status /\ acks[a].note = log[n].note
              /\ log[n].note \subseteq Flags
  BY <1>1, <1>10, StandingIs DEF Attested, AckedTrue
<1>11. \A i \in DOMAIN messages : i = QuoteRequest \/ i \in AcceptedResponses
  BY <1>4 DEF AcceptedResponses
<1> QED BY <1>5, <1>6, <1>7, <1>8, <1>9, <1>10, <1>11

\* What the reports and the assertions the evaluator looks at are.
LEMMA ReportsRead ==
  /\ \A n \in Applied(log) : /\ n \in DOMAIN log /\ log[n].kind = "ack_recorded"
                             /\ "applied" \in log[n].note
  /\ \A n \in Verdicts(log) : /\ n \in DOMAIN log /\ log[n].kind = "ack_recorded" /\ log[n].who = Buyer
                              /\ log[n].status # "retryable"
                              /\ ResponseMismatch(log) = Nothing => log[n].subject = ResponseId(log)
<1>1. \A who, id : \A n \in AcksBy(log, who, id) :
        n \in DOMAIN log /\ log[n].kind = "ack_recorded" /\ log[n].who = who /\ log[n].subject = id
  BY Looking
<1>2. \A n \in Applied(log) : n \in AcksBy(log, "seller", RequestId(log)) /\ "applied" \in log[n].note
  BY DEF Applied, Processed, SellerAcks, Asserting, WithStatus
<1>3. \A n \in BuyerAcks(log) :
        /\ \E id : n \in AcksBy(log, "buyer", id)
        /\ ResponseMismatch(log) = Nothing => n \in AcksBy(log, "buyer", ResponseId(log))
  BY DEF BuyerAcks
<1>4. \A n \in Verdicts(log) : n \in BuyerAcks(log) /\ log[n].status # "retryable"
  BY DEF Verdicts
<1> QED BY <1>1, <1>2, <1>3, <1>4 DEF Buyer

\* The runs that fail are those of the negative control.
LEMMA FailuresTrue ==
  ASSUME VerdictInv, Verdict(log, fault) = "failed"
  PROVE  fault = "crash_amnesia_fresh_ids"
<1> SUFFICES ASSUME fault # "crash_amnesia_fresh_ids" PROVE FALSE
  OBVIOUS
<1>1. IsSequence(log) /\ Failing(log)
  BY FailMeans DEF VerdictInv, RecordTrue
<1>2. Replies = {QuoteResponse}
  BY DEF Replies
<1>3. \A n, m \in Responses(log) : n = m
  BY <1>2, Reading
<1>4. ~(Cardinality(Responses(log)) > 1)
  BY <1>1, <1>3, Several, Positions
<1>5. \A n, m \in Applied(log) : n = m
  <2> TAKE n, m \in Applied(log)
  <2>1. PICK a \in DOMAIN acks : acks[a].fence = log[n].fence /\ acks[a].note = log[n].note
    BY Reading, ReportsRead
  <2>2. PICK b \in DOMAIN acks : acks[b].fence = log[m].fence /\ acks[b].note = log[m].note
    BY Reading, ReportsRead
  <2>3. a \in Reporting("applied") /\ b \in Reporting("applied")
    BY <2>1, <2>2, ReportsRead DEF Reporting
  <2>4. a = b
    BY <2>3 DEF VerdictInv, TownInv, SellerInv, SellerGood, ReportedOnce
  <2> QED BY <2>1, <2>2, <2>4, ReportsRead DEF VerdictInv, RecordTrue, IsAck
<1>6. ~(Cardinality(Applied(log)) > 1)
  BY <1>1, <1>5, Several, Positions
<1>7. ResponseMismatch(log) # "failed"
  <2>1. ASSUME Responses(log) # {}, Requests(log) # {}
        PROVE  LET named == log[Earliest(Responses(log))].names
               IN named = log[Earliest(Requests(log))].subject \/ named = Nothing
    <3>1. Earliest(Responses(log)) \in Responses(log) /\ Earliest(Requests(log)) \in Requests(log)
      BY <1>1, <2>1, EarliestOf, Positions
    <3> QED BY <3>1, Reading
  <2> QED BY <1>4, <2>1, MismatchIs
<1>8. Asserting(log, Verdicts(log), "wrong") = {}
  <2>1. \A n \in Verdicts(log) : log[n].note \subseteq Flags
    BY Reading, ReportsRead
  <2>2. "wrong" \notin Flags
    BY DEF Flags
  <2> QED BY <2>1, <2>2 DEF Asserting
<1> QED BY <1>1, <1>4, <1>6, <1>7, <1>8 DEF Failing

\* What follows is found after a position, or not at all.
LEMMA NextFound ==
  ASSUME NEW E, IsSequence(E), NEW S \in SUBSET DOMAIN E, NEW after, NextOf(E, S, after) <= Len(E)
  PROVE  \E n \in S : n > after
<1> DEFINE later == {n \in S : n > after}
<1>1. CASE later = {}
  <2>1. NextOf(E, S, after) = Len(E) + 1
    BY <1>1 DEF NextOf
  <2>2. Len(E) \in Nat
    BY Lengths
  <2> QED BY <2>1, <2>2
<1>2. CASE later # {}
  BY <1>2
<1> QED BY <1>1, <1>2

\* A chain that reaches the replay has the restart and the seller's replay in it.
LEMMA ChainRead ==
  ASSUME NEW E, IsSequence(E), AmnesiaChain(E).redelivered, AmnesiaChain(E).replayed
  PROVE  /\ \E n \in DOMAIN E : E[n].kind = "participant_restarted"
         /\ \E n \in DOMAIN E : E[n].kind = "replay_returned" /\ E[n].who = "seller"
<1> DEFINE OfSeller(e) == e.subject = "seller"
           FromSeller(e) == e.who = "seller"
           accepted == NextOf(E, {r \in Responses(E) : /\ E[r].who = "seller"
                                                       /\ Mismatch(E, {r}, Requests(E)) = Nothing}, 0)
           crashed == NextOf(E, Find(E, "participant_crashed", OfSeller), accepted)
           Restarts == Find(E, "participant_restarted", OfSeller)
           restarted == NextOf(E, Restarts, crashed)
           Again == {n \in Redelivered(E) : E[n].who = "seller"}
           redelivered == NextOf(E, Again, restarted)
           Replays == {n \in Find(E, "replay_returned", FromSeller) :
                         \E r \in Responses(E) : E[r].subject = E[n].subject}
           replayed == NextOf(E, Replays, redelivered)
<1>1. redelivered <= Len(E) /\ replayed <= Len(E)
  BY DEF AmnesiaChain
<1>2. /\ Restarts \in SUBSET DOMAIN E /\ Replays \in SUBSET DOMAIN E
      /\ \A n \in Restarts : E[n].kind = "participant_restarted"
      /\ \A n \in Replays : E[n].kind = "replay_returned" /\ E[n].who = "seller"
  BY DEF Find
<1>3. Again \in SUBSET DOMAIN E
  BY Looking DEF Redelivered
<1>4. /\ Len(E) \in Nat /\ DOMAIN E = 1..Len(E)
      /\ \A S \in SUBSET DOMAIN E : S # {} => Earliest(S) \in S
  BY Lengths, EarliestOf
<1> HIDE DEF crashed, Restarts, Again, Replays, redelivered, replayed
<1>5. \E n \in Replays : n > redelivered
  BY <1>1, <1>2, NextFound DEF replayed
<1>6. PICK n \in Again : n > restarted
  BY <1>1, <1>3, NextFound DEF redelivered
<1>7. Restarts # {}
  <2> SUFFICES ASSUME Restarts = {} PROVE FALSE
    OBVIOUS
  <2>1. restarted = Len(E) + 1
    BY DEF NextOf
  <2>2. n \in 1..Len(E)
    BY <1>3, <1>4
  <2> HIDE DEF restarted
  <2> QED BY <1>4, <1>6, <2>1, <2>2
<1> QED BY <1>2, <1>5, <1>7

\* A passed run met its fault.
LEMMA FaultTrue ==
  ASSUME VerdictInv, Requests(log) # {},
         \A k \in DOMAIN FaultStages(log, fault) : FaultStages(log, fault)[k] = "passed"
  PROVE  FaultHappened
<1>1. /\ IsSequence(log) /\ TownInv /\ TalkInv /\ RequestId(log) = QuoteRequest
      /\ \A n \in DOMAIN log : Attested(log[n], Standing)
  BY Reading DEF VerdictInv, RecordTrue
<1>2. /\ SellerTells(procs[Seller], journal[Seller], marker, applications, messages, runner.restarted)
      /\ JournalKnows(procs[Seller], journal[Seller], applications)
      /\ applications \in Nat
      /\ \A i \in DOMAIN messages : messages[i].attempts \in Nat
  BY <1>1 DEF TalkInv, TownInv, SellerInv, SellerGood, TownTypeOK, FencingInv, TypeOK, Message
<1>3. \A P : When(P) = "passed" => P
  BY DEF When
<1>4. CASE fault = "crash_after_claim"
  <2>1. FaultStages(log, fault) = <<RecoveredStage(log), StaleFenceStage(log)>>
    BY <1>4 DEF FaultStages
  <2>2. RecoveredStage(log) = "passed"
    <3>1. 1 \in DOMAIN <<RecoveredStage(log), StaleFenceStage(log)>>
      OBVIOUS
    <3> QED BY <2>1, <3>1
  <2>3. Redelivered(log) # {}
    BY <2>2, <1>3 DEF RecoveredStage
  <2>4. PICK n \in Claims(log, QuoteRequest) : log[n].attempt >= 2
    BY <1>1, <2>3 DEF Redelivered
  <2>5. n \in DOMAIN log /\ log[n].kind = "message_claimed" /\ log[n].subject = QuoteRequest
    BY Looking
  <2>6. /\ QuoteRequest \in DOMAIN messages /\ log[n].attempt \in Nat
        /\ log[n].attempt <= messages[QuoteRequest].attempts
    BY <1>1, <2>5, StandingIs DEF Attested
  <2>7. messages[QuoteRequest].attempts >= 2
    BY <1>2, <2>4, <2>6
  <2>8. cast[Seller] = "stock" => runner.restarted
    <3> SUFFICES ASSUME Scripted("crash_after_claim"), ~runner.restarted PROVE FALSE
      BY <1>4 DEF Scripted
    <3>1. messages[QuoteRequest].attempts <= 1
      BY <1>2, <2>6 DEF SellerTells, BeforeRestart
    <3> QED BY <1>2, <2>6, <2>7, <3>1
  <2> QED BY <1>2, <1>4, <2>7, <2>8 DEF FaultHappened, SellerTells
<1>5. CASE fault \in {"crash_amnesia", "crash_amnesia_fresh_ids"}
  <2>1. FaultStages(log, fault) = <<AmnesiaStage(log)>>
    BY <1>5 DEF FaultStages
  <2>2. AmnesiaStage(log) = "passed"
    <3>1. 1 \in DOMAIN <<AmnesiaStage(log)>>
      OBVIOUS
    <3> QED BY <2>1, <3>1
  <2>3. AmnesiaChain(log).redelivered /\ AmnesiaChain(log).replayed
    <3>1. AmnesiaChain(log).redelivered
      BY <2>2, Zenon DEF AmnesiaStage
    <3>2. When(AmnesiaChain(log).replayed) = "passed"
      BY <2>2, Zenon DEF AmnesiaStage
    <3> QED BY <3>1, <3>2, Zenon DEF When
  <2>4. PICK n \in DOMAIN log : log[n].kind = "participant_restarted"
    BY <1>1, <2>3, ChainRead
  <2>5. runner.restarted
    BY <1>1, <2>4, StandingIs DEF Attested
  <2>6. Amnesiac
    BY <1>2, <1>5, <2>5 DEF SellerTells, CrashFault, Scripted
  <2>7. PICK m \in DOMAIN log : log[m].kind = "replay_returned" /\ log[m].who = Seller
    BY <1>1, <2>3, ChainRead DEF Seller
  <2>8. 2 <= applications
    BY <1>1, <2>6, <2>7, StandingIs DEF Attested
  <2>9. applications = 2
    BY <1>2, <2>6, <2>8 DEF JournalKnows
  <2> QED BY <1>5, <2>5, <2>9 DEF FaultHappened
<1>6. CASE fault = "drop_wakeup"
  <2>1. FaultStages(log, fault) = <<WakeupStage(log)>>
    BY <1>6 DEF FaultStages
  <2>2. WakeupStage(log) = "passed"
    <3>1. 1 \in DOMAIN <<WakeupStage(log)>>
      OBVIOUS
    <3> QED BY <2>1, <3>1
  <2>3. PICK n \in DOMAIN log : log[n].kind = "notify_suppressed"
    <3>1. When(Find(log, "notify_suppressed", AnyEvent) # {} /\ ClaimedStage(log) = "passed") = "passed"
      BY <2>2 DEF WakeupStage
    <3>2. Find(log, "notify_suppressed", AnyEvent) # {}
      BY <3>1, Zenon DEF When
    <3>3. Find(log, "notify_suppressed", AnyEvent) = {n \in DOMAIN log : log[n].kind = "notify_suppressed"}
      BY Looking
    <3> QED BY <3>2, <3>3
  <2>4. notifications[QuoteRequest] = "suppressed"
    BY <1>1, <2>3, StandingIs DEF Attested
  <2> QED BY <1>6, <2>4 DEF FaultHappened
<1>7. CASE fault = "duplicate_delivery"
  <2>1. FaultStages(log, fault) = <<DuplicateStage(log)>>
    BY <1>7 DEF FaultStages
  <2>2. DuplicateStage(log) = "passed"
    <3>1. 1 \in DOMAIN <<DuplicateStage(log)>>
      OBVIOUS
    <3> QED BY <2>1, <3>1
  <2>3. PICK n \in Recognized(log) : TRUE
    BY <1>3, <2>2 DEF DuplicateStage
  <2>4. PICK o \in OfRequest(log, "duplicate_offered") : log[o].fence = log[n].fence
    BY DEF Recognized
  <2>5. n \in AcksBy(log, "seller", RequestId(log)) /\ "duplicate" \in log[n].note
    BY DEF Recognized, Asserting, Processed, WithStatus, SellerAcks
  <2>6. n \in DOMAIN log /\ log[n].kind = "ack_recorded"
    BY <2>5, Looking
  <2>7. o \in DOMAIN log /\ log[o].kind = "duplicate_offered" /\ log[o].subject = QuoteRequest
    BY <1>1, <2>4, Looking
  <2>8. QuoteRequest \in DOMAIN offered /\ offered[QuoteRequest] = log[o].fence
    BY <1>1, <2>7, StandingIs DEF Attested
  <2>9. PICK a \in DOMAIN acks : acks[a].fence = log[n].fence /\ acks[a].note = log[n].note
    BY <2>6, Reading
  <2>10. a \in Reporting("duplicate") /\ acks[a].fence = offered[QuoteRequest]
    BY <2>4, <2>5, <2>8, <2>9 DEF Reporting
  <2> QED BY <1>7, <2>8, <2>10 DEF FaultHappened
<1>8. CASE fault = "lost_ack"
  <2>1. FaultStages(log, fault) = <<LostAckStage(log)>>
    BY <1>8 DEF FaultStages
  <2>2. LostAckStage(log) = "passed"
    <3>1. 1 \in DOMAIN <<LostAckStage(log)>>
      OBVIOUS
    <3> QED BY <2>1, <3>1
  <2>3. PICK n \in DOMAIN log : log[n].kind = "ack_dropped"
    <3>1. When(Find(log, "ack_dropped", AnyEvent) # {} /\ Processed(log) # {}) = "passed"
      BY <2>2 DEF LostAckStage
    <3>2. Find(log, "ack_dropped", AnyEvent) # {}
      BY <3>1, Zenon DEF When
    <3>3. Find(log, "ack_dropped", AnyEvent) = {n \in DOMAIN log : log[n].kind = "ack_dropped"}
      BY Looking
    <3> QED BY <3>2, <3>3
  <2>4. fired
    BY <1>1, <2>3, StandingIs DEF Attested
  <2> QED BY <1>8, <2>4 DEF FaultHappened
<1>9. CASE fault \notin {"crash_after_claim", "crash_amnesia", "crash_amnesia_fresh_ids", "drop_wakeup",
                         "duplicate_delivery", "lost_ack"}
  BY <1>9 DEF FaultHappened
<1> QED BY <1>4, <1>5, <1>6, <1>7, <1>8, <1>9

\* A passed run earned it.
LEMMA PassesTrue ==
  ASSUME VerdictInv, Verdict(log, fault) = "passed"
  PROVE  /\ Cardinality(AcceptedResponses) = 1
         /\ Cardinality(Reporting("applied")) = 1
         /\ Reporting("right") # {}
         /\ \A i \in DOMAIN messages : messages[i].status = "done"
         /\ cast[Buyer] # "model" => \A r \in AcceptedResponses : \E e \in journal[Buyer] : e.message = r
         /\ FaultHappened
<1>1. /\ IsSequence(log) /\ Complete(log)
      /\ \A k \in DOMAIN FaultStages(log, fault) : FaultStages(log, fault)[k] = "passed"
  BY PassMeans DEF VerdictInv, RecordTrue
<1>2. PICK m : Responses(log) = {m}
  <2>1. IsFiniteSet(Responses(log)) /\ Cardinality(Responses(log)) = 1
    BY <1>1, Lengths, Positions DEF Complete
  <2> QED BY <2>1, FS_Singleton
<1> DEFINE r == log[m].subject
<1>3. AcceptedResponses = {r}
  BY <1>2, Reading
<1>4. ResponseId(log) = r
  <2>1. Earliest(Responses(log)) \in Responses(log)
    BY <1>1, <1>2, EarliestOf, Positions
  <2> QED BY <1>2, <2>1 DEF ResponseId, FirstSubject
<1>5. Reporting("applied") # {}
  <2>1. Applied(log) # {}
    BY <1>1, Several, Positions DEF Complete
  <2>2. PICK n \in Applied(log) : TRUE
    BY <2>1
  <2>3. PICK a \in DOMAIN acks : acks[a].note = log[n].note
    BY Reading, ReportsRead
  <2> QED BY <2>3, ReportsRead DEF Reporting
<1>6. \A a, b \in Reporting("applied") : a = b
  BY DEF VerdictInv, TownInv, SellerInv, SellerGood, ReportedOnce
<1>7. PICK v \in Verdicts(log) : "right" \in log[v].note
  BY <1>1 DEF Complete, Asserting
<1>8. /\ v \in DOMAIN log /\ log[v].kind = "ack_recorded" /\ log[v].who = Buyer
      /\ log[v].status # "retryable" /\ log[v].subject = r
  BY <1>1, <1>4, ReportsRead DEF Complete
<1>9. PICK a \in DOMAIN acks : /\ acks[a].message = r /\ acks[a].status # "retryable"
                               /\ acks[a].note = log[v].note
  BY <1>8, Reading
<1>10. a \in Reporting("right")
  BY <1>7, <1>9 DEF Reporting
<1>11. messages[r].status = "done"
  <2>1. r \in DOMAIN messages /\ r # QuoteRequest
    BY <1>2, <1>3, Reading, Names DEF AcceptedResponses
  <2>2. r \notin DOMAIN offered
    BY <2>1 DEF VerdictInv, TalkInv, RequestOffered
  <2>3. SettledForGood(a)
    BY <1>9, <2>2 DEF SettledForGood, Settling
  <2> QED BY <1>9, <2>1, <2>3 DEF VerdictInv, TownInv, FencingInv, SettledIsDone
<1>12. messages[QuoteRequest].status = "done"
  BY <1>5 DEF VerdictInv, TownInv, SellerInv, SellerGood, ReportedOnce, Settled
<1>13. \A i \in DOMAIN messages : messages[i].status = "done"
  BY <1>3, <1>11, <1>12, Reading
<1>14. cast[Buyer] # "model" => \E e \in journal[Buyer] : e.message = r
  <2>1. Attested(log[v], Standing)
    BY <1>8 DEF VerdictInv, RecordTrue
  <2> QED BY <1>7, <1>8, <2>1, StandingIs DEF Attested, AckedTrue
<1>15. FaultHappened
  BY <1>1, FaultTrue DEF Complete
<1>16. Cardinality(AcceptedResponses) = 1
  BY <1>3, FS_Singleton
<1>17. Cardinality(Reporting("applied")) = 1
  <2>1. PICK b : Reporting("applied") = {b}
    BY <1>5, <1>6
  <2> QED BY <2>1, FS_Singleton
<1> QED BY <1>3, <1>10, <1>13, <1>14, <1>15, <1>16, <1>17

\* A pass is never awarded for a run that did not earn it (evaluator.py against the town's
\* tables, the journals and the runner): one response, one report, a buyer that holds the
\* response and settled it, and the fault really met.
THEOREM PassesAreTrue == TownSpec => []PassedIsTrue
<1>1. VerdictInv => PassedIsTrue
  BY PassesTrue DEF PassedIsTrue, VerdictInv, JudgedOnRecord
<1> QED BY <1>1, RecordStaysTrue, PTL

\* Only the negative control, whose seller answers twice, is judged failed: nothing that
\* lapses, is re-offered, dropped or killed fails a run (evaluator.py).
THEOREM FailuresAreTrue == TownSpec => []NoFalseFailure
<1>1. VerdictInv => NoFalseFailure
  BY FailuresTrue DEF NoFalseFailure, VerdictInv, JudgedOnRecord
<1> QED BY <1>1, RecordStaysTrue, PTL
=============================================================================
