------------------------------- MODULE Track -------------------------------
(***************************************************************************)
(* One Track run: a buyer and a seller (participants/) talking to the      *)
(* coordinator (coordinator.py) over the mailbox (Mailbox), with the       *)
(* profile's scripted fault, crashes, and the runner that watches, restarts*)
(* and finishes the run (runner.py).                                       *)
(*                                                                         *)
(* A participant runs one request at a time.  A handler of the coordinator *)
(* samples the clock, then runs one transaction after another: a step ends *)
(* where another process may come between.  Two handlers, one for each     *)
(* participant, run concurrently and share the coordinator's memory.       *)
(*                                                                         *)
(* Left out: the events nobody judges (participant_exited, run_created),   *)
(* the intents table, joining, grants, and requests of other kinds, which  *)
(* the stock participants never send.                                      *)
(***************************************************************************)
EXTENDS Mailbox, Evaluator

CONSTANTS
  QuoteRequest, QuoteResponse,  \* the identities "q-1" and "r-1"
  FreshIds,           \* what uuid4 yields under crash_amnesia_fresh_ids
  Scenarios,          \* a profile's fault, who takes part (the stock program, one that
                      \* joins from outside, a model or a bridge), who may crash where, once
  Settle,             \* ticks the runner grants a seller to settle
  Deadline            \* bound: the tick from which every wait may time out

Programs == {"stock", "outside", "model", "bridge"}
Flags == {"applied", "duplicate", "right", "tool_errors", "context_truncations"}

ASSUME TrackAssumption ==
  /\ Participants = {"buyer", "seller"}
  /\ {QuoteRequest, QuoteResponse} \cup FreshIds \subseteq MessageIds
  /\ QuoteRequest \notin {QuoteResponse} \cup FreshIds /\ Nothing \notin MessageIds
  /\ {"quote_request", "quote_response"} \subseteq Contents
  /\ {"processed", "retryable"} \subseteq AckStatuses
  /\ SUBSET Flags \subseteq Notes
  /\ Scenarios \subseteq [fault : STRING, cast : [Participants -> Programs],
                           mortal : SUBSET (Participants \X STRING)]
  /\ Settle \in Nat /\ Deadline \in Nat

VARIABLES
  fault,         \* the profile's fault
  cast,          \* who takes part
  fired,         \* fault_state(run)["fired"], in the coordinator's memory
  doneTarget,    \* fault_state(run)["done_target"], likewise
  adrift,        \* the requests in a handler of the coordinator whose client is gone
  procs,         \* the participants: where each is in run_loop
  loops,         \* the models among them: see ToolLoop
  journal,       \* each participant's journal.db
  marker,        \* the seller's crashed-once / amnesia-once file
  runner,        \* the runner's loop
  applications,  \* history: how often the seller performed the work
  mortal,        \* bound: who may still crash unscripted, and at which place
  log            \* the events table

mailbox == <<runStatus, messages, notifications, claims, acks, offered, clock>>
memory == <<fired, doneTarget, adrift>>
disk == <<journal, marker, applications>>
given == <<fault, cast>>
kept == <<given, loops>>     \* what only ToolLoop's steps change, if any
control == <<kept, runner, mortal>>
trackVars == <<mailbox, memory, disk, control, procs, log>>

Seller == "seller"
Buyer == "buyer"

\* A participant between two deliveries.  since is when it began to wait, or what its
\* claim sampled; outcome is the buyer's dictionary of that name; dying marks the
\* scripted last act of a seller about to crash.
Idle == [pc |-> "idle", since |-> 0, message |-> Nothing, fence |-> 0, duplicate |-> FALSE,
         note |-> {}, status |-> "processed", reply |-> Nothing, dying |-> FALSE,
         outcome |-> FALSE, code |-> 0, answer |-> Nothing]

\* The buyer's program starts by sending its request, a model by thinking.
Starting(p) ==
  IF cast[p] = "model" THEN [Idle EXCEPT !.pc = "thinking"]
  ELSE IF p = Buyer THEN [Idle EXCEPT !.pc = "sending", !.reply = QuoteRequest]
  ELSE Idle

TrackInit ==
  /\ Init
  /\ \E s \in Scenarios : fault = s.fault /\ cast = s.cast /\ mortal = s.mortal
  /\ fired = FALSE
  /\ doneTarget = Nothing
  /\ adrift = {}
  /\ procs = [p \in Participants |-> Starting(p)]
  /\ journal = [p \in Participants |-> {}]
  /\ marker = FALSE
  /\ runner = [phase |-> "watching", restarted |-> FALSE, sellerDone |-> FALSE, until |-> Deadline,
             verdict |-> Nothing]
  /\ applications = 0
  /\ log = <<>>

External(p) == cast[p] = "outside"
At(p, pc) == procs[p].pc = pc
Move(p, to) == procs' = [procs EXCEPT ![p] = to]
Resting(p) == [Idle EXCEPT !.outcome = procs[p].outcome]
Exited(p, code) == [Resting(p) EXCEPT !.pc = "exited", !.code = code]
\* After an answer of the town: run_loop goes on, a model thinks about it.
Told(p, answer) ==
  IF cast[p] = "model" THEN [procs[p] EXCEPT !.pc = "thinking", !.since = 0, !.answer = answer]
  ELSE Resting(p)
Entering(p, pc) == [procs[p] EXCEPT !.pc = pc, !.since = 0]
Record(events) == log' = log \o events

other(p) == IF p = Buyer THEN Seller ELSE Buyer
kindOf(id) == IF id = QuoteRequest THEN "quote_request" ELSE "quote_response"

\* FAULT is handed to the town's own seller only: an outside agent is the
\* subject of the test and is never told to misbehave.
Scripted(f) == fault = f /\ cast[Seller] = "stock"

\* Only the stock seller's program marks its applications reported.
KeepsMark(p) == p = Seller /\ cast[p] \in {"stock", "outside"}

-----------------------------------------------------------------------------
(* run_loop: waiting for a hint, then claiming whatever the hint said.     *)

Until(p) == procs[p].outcome \/ clock >= Deadline

NoHint(p) == \A i \in DOMAIN messages : messages[i].to = p => notifications[i] # "pending"
Notify(p) == Open /\ (PopNotify(p) \/ (NoHint(p) /\ UNCHANGED mailbox))

WaitForHint(p) ==
  /\ At(p, "idle") /\ ~Until(p) /\ Notify(p)
  /\ Move(p, Entering(p, "claiming"))
  /\ UNCHANGED <<memory, disk, control, log>>

\* The sweep's events, in the order of the claims.
Lapsing(now) == {f \in Fences : Lapsed(f, now)}
Nth(S, k) == CHOOSE f \in S : Cardinality({g \in S : g < f}) = k - 1
ExpiryEvents(now) ==
  [k \in 1..Cardinality(Lapsing(now)) |->
     Event("claim_expired", claims[Nth(Lapsing(now), k)].message)]

\* The participant receives the claim of the table's last row.
Delivered(p, duplicate) ==
  [Entering(p, IF cast[p] = "model" THEN "thinking" ELSE "handling") EXCEPT
     !.message = claims'[Len(claims')].message, !.fence = Len(claims'),
     !.duplicate = duplicate, !.answer = "work"]
DeliveryEvent(p, kind) ==
  LET claim == claims'[Len(claims')]
  IN [Event(kind, claim.message) EXCEPT !.who = IF kind = "message_claimed" THEN p ELSE @,
                                        !.attempt = claim.attempt, !.fence = Len(claims')]

ClaimWork(p) ==
  /\ At(p, "claiming")
  /\ \E now \in Sampled :
       /\ ClaimNext(p, now)
       /\ Record(ExpiryEvents(now) \o <<DeliveryEvent(p, "message_claimed")>>)
  /\ Move(p, Delivered(p, FALSE))
  /\ UNCHANGED <<memory, disk, control>>

\* The coordinator goes on to see whether it has a duplicate to offer; meanwhile the
\* work it would offer may be done.
MayOffer == fault = "duplicate_delivery" /\ ~fired

ClaimFoundNothing(p) ==
  /\ At(p, "claiming")
  /\ \E now \in Sampled :
       /\ ClaimNothing(p, now)
       /\ Record(ExpiryEvents(now))
       /\ Move(p, IF MayOffer THEN [procs[p] EXCEPT !.pc = "reoffering", !.since = now]
                  ELSE Told(p, "no work"))
  /\ UNCHANGED <<memory, disk, control>>

HasOffer(p) == doneTarget # Nothing /\ Reofferable(p, doneTarget)

\* Still the same request, with the sample it started with.
OfferDuplicate(p) ==
  /\ At(p, "reoffering") /\ doneTarget # Nothing
  /\ Reoffer(p, doneTarget, procs[p].since)
  /\ fired' = TRUE
  /\ Record(<<DeliveryEvent(p, "duplicate_offered")>>)
  /\ Move(p, Delivered(p, TRUE))
  /\ UNCHANGED <<doneTarget, adrift, disk, control>>

OfferRefused(p) ==
  /\ At(p, "reoffering") /\ Open
  /\ ~HasOffer(p)
  /\ Move(p, Told(p, "no work"))
  /\ UNCHANGED <<mailbox, memory, disk, control, log>>

-----------------------------------------------------------------------------
(* The handlers of the stock participants.                                 *)

Remembered(p) == {e \in journal[p] : e.message = procs[p].message}

ResponseIds ==
  IF Scripted("crash_amnesia_fresh_ids") THEN {id \in FreshIds : id \notin DOMAIN messages}
  ELSE {QuoteResponse}

\* Faulty variants: a re-offer does not settle the mark; every duplicate reports.
ReportsUnsettled(e, duplicate) == e.unreported
ReportsAlways(e, duplicate) == TRUE
Reports(e, duplicate) == e.unreported /\ ~duplicate

\* build_handler on work the journal knows: resend the reply, apply nothing.
SellerRecalls(dying) ==
  \E e \in Remembered(Seller) :
    /\ Move(Seller, [Entering(Seller, "sending") EXCEPT
                       !.reply = e.reply, !.dying = dying,
                       !.note = {"duplicate"} \cup
                                (IF Reports(e, procs[Seller].duplicate) THEN {"applied"} ELSE {})])
    /\ journal' = [journal EXCEPT ![Seller] =
                     (@ \ {e}) \cup {[e EXCEPT !.unreported = @ /\ ~procs[Seller].duplicate]}]
    /\ UNCHANGED applications

\* build_handler on new work: the application and its mark are one statement.
SellerApplies(dying) ==
  /\ Remembered(Seller) = {}
  /\ \E id \in ResponseIds :
       /\ Move(Seller, [Entering(Seller, "sending") EXCEPT
                          !.reply = id, !.note = {"applied"}, !.dying = dying])
       /\ journal' = [journal EXCEPT ![Seller] =
            @ \cup {[message |-> procs[Seller].message, reply |-> id, unreported |-> TRUE]}]
  /\ applications' = applications + 1

Amnesiac == Scripted("crash_amnesia") \/ Scripted("crash_amnesia_fresh_ids")

SellerHandles ==
  /\ At(Seller, "handling") /\ KeepsMark(Seller)
  /\ marker \/ ~Scripted("crash_after_claim")
  /\ LET dying == Amnesiac /\ ~marker
     IN /\ SellerRecalls(dying) \/ SellerApplies(dying)
        /\ marker' = (marker \/ dying)
  /\ UNCHANGED <<mailbox, memory, control, log>>

\* crash_wrapper: note the crash, sleep past the lease, acknowledge too late.
SellerStalls ==
  /\ At(Seller, "handling")
  /\ Scripted("crash_after_claim") /\ ~marker
  /\ marker' = TRUE
  /\ Move(Seller, [Entering(Seller, "stalled") EXCEPT !.since = clock])
  /\ UNCHANGED <<mailbox, memory, journal, applications, control, log>>

SleptEnough == clock > procs[Seller].since + Lease

SellerWakes ==
  /\ At(Seller, "stalled")
  /\ SleptEnough
  /\ Move(Seller, [Entering(Seller, "acking") EXCEPT !.note = {"applied"}, !.dying = TRUE])
  /\ UNCHANGED <<mailbox, memory, disk, control, log>>

BuyerHandles ==
  /\ At(Buyer, "handling")
  /\ LET known == Remembered(Buyer) # {}
         entry == [message |-> procs[Buyer].message, reply |-> Nothing, unreported |-> FALSE]
     IN /\ Move(Buyer, [Entering(Buyer, "acking") EXCEPT
                          !.outcome = @ \/ ~known,
                          !.note = IF known THEN {"duplicate"} ELSE {"right"}])
        /\ journal' = [journal EXCEPT ![Buyer] = IF known THEN @ ELSE @ \cup {entry}]
  /\ UNCHANGED <<mailbox, memory, marker, applications, control, log>>

\* a2a_bridge: what the bridge knows it sends again; otherwise the agent behind it
\* completes the request, does not, or cannot be reached, which ends the bridge.
BridgeRecalls ==
  /\ \E e \in Remembered(Seller) :
       Move(Seller, [Entering(Seller, "sending") EXCEPT !.reply = e.reply, !.note = {"duplicate"}])
  /\ UNCHANGED <<journal, applications>>
BridgeCompletes ==
  /\ Remembered(Seller) = {}
  /\ Move(Seller, [Entering(Seller, "sending") EXCEPT !.reply = QuoteResponse, !.note = {"applied"}])
  /\ journal' = [journal EXCEPT ![Seller] =
       @ \cup {[message |-> procs[Seller].message, reply |-> QuoteResponse, unreported |-> FALSE]}]
  /\ applications' = applications + 1
BridgeHandles ==
  /\ At(Seller, "handling") /\ cast[Seller] = "bridge"
  /\ BridgeRecalls \/ BridgeCompletes
  /\ UNCHANGED <<mailbox, memory, marker, control, log>>
AgentFails ==
  /\ At(Seller, "handling") /\ cast[Seller] = "bridge" /\ Remembered(Seller) = {}
  /\ Move(Seller, Exited(Seller, 1)) \/ Move(Seller, [Entering(Seller, "acking") EXCEPT !.status = "retryable"])
  /\ UNCHANGED <<mailbox, memory, disk, control, log>>

-----------------------------------------------------------------------------
(* The coordinator's send and ack.                                         *)

\* What p does once its send is answered: a buyer's opening request has no
\* claim to acknowledge, a seller with amnesia crashes.
AfterSend(p) ==
  IF procs[p].dying THEN Exited(p, 3)
  ELSE IF procs[p].fence = 0 \/ cast[p] = "model" THEN Told(p, "accepted")
  ELSE Entering(p, "acking")

\* amnesia_wrapper empties the journal before it exits.
JournalAfterSend(p) ==
  IF procs[p].dying THEN [journal EXCEPT ![p] = {}] ELSE journal

Suppresses(id) == fault = "drop_wakeup" /\ ~fired /\ kindOf(id) = "quote_request"

SendNew(p) ==
  LET id == procs[p].reply IN
  /\ At(p, "sending")
  /\ \E now \in Sampled :
       AcceptMessage(p, id, other(p), kindOf(id), Suppresses(id), now)
  /\ fired' = (fired \/ Suppresses(id))
  /\ Record(<<[Event("message_accepted", id) EXCEPT
                 !.who = p, !.content = kindOf(id), !.to = other(p),
                 !.names = procs[p].message]>>)
  /\ Move(p, IF Suppresses(id) THEN Entering(p, "suppressing") ELSE AfterSend(p))
  /\ journal' = JournalAfterSend(p)
  /\ UNCHANGED <<doneTarget, adrift, marker, applications, control>>

\* The event of the suppressed hint is a transaction of its own.
NoteSuppressed(p) ==
  /\ At(p, "suppressing") /\ Open
  /\ Record(<<Event("notify_suppressed", procs[p].reply)>>)
  /\ Move(p, AfterSend(p))
  /\ UNCHANGED <<mailbox, memory, disk, control>>

\* A known identity with its own envelope: the acceptance is returned again.
SendAgain(p) ==
  LET id == procs[p].reply IN
  /\ At(p, "sending") /\ Open
  /\ id \in DOMAIN messages
  /\ fired' = (fired \/ Suppresses(id))
  /\ Record(<<[Event("replay_returned", id) EXCEPT !.who = p]>>)
  /\ Move(p, AfterSend(p))
  /\ journal' = JournalAfterSend(p)
  /\ UNCHANGED <<mailbox, doneTarget, adrift, marker, applications, control>>

DroppedFor(p) == fault = "lost_ack" /\ procs[p].status = "processed"

\* The coordinator looks at fired here and sets it in the next step: another
\* handler may look in between.
AckLooksAtFault(p) ==
  /\ At(p, "acking") /\ Open
  /\ DroppedFor(p) /\ ~fired
  /\ Move(p, Entering(p, "dropping"))
  /\ UNCHANGED <<mailbox, memory, disk, control, log>>

\* The 503 of a dropped acknowledgement; the client retries it.
DropAck(p) ==
  /\ At(p, "dropping") /\ Open
  /\ fired' = TRUE
  /\ Record(<<[Event("ack_dropped", procs[p].message) EXCEPT !.who = p]>>)
  /\ Move(p, Entering(p, "acking"))
  /\ UNCHANGED <<mailbox, doneTarget, adrift, disk, control>>

\* Recorded.  A stalled seller whose late acknowledgement went through exits 9;
\* an application that is now on the record is still to be marked so.
AckAccepted(p) ==
  LET i == procs[p].message
      f == procs[p].fence
  IN
  /\ At(p, "acking") /\ (DroppedFor(p) => fired)
  /\ \E now \in Sampled : Ack(p, i, f, procs[p].status, procs[p].note, now)
  /\ Record(<<[Event("ack_recorded", i) EXCEPT !.who = p, !.fence = f, !.attempt = claims[f].attempt,
                 !.status = procs[p].status, !.note = procs[p].note]>>)
  /\ doneTarget' = IF /\ fault = "duplicate_delivery" /\ doneTarget = Nothing
                      /\ procs[p].status = "processed" /\ kindOf(i) = "quote_request"
                   THEN i ELSE doneTarget
  /\ Move(p, IF procs[p].dying THEN Exited(p, 9)
             ELSE IF KeepsMark(p) /\ "applied" \in procs[p].note THEN Entering(p, "accepted")
             ELSE Told(p, "recorded"))
  /\ UNCHANGED <<fired, adrift, disk, control>>

\* Refused: the loop goes on and leaves it to redelivery.
AckRefused(p) ==
  LET i == procs[p].message
      f == procs[p].fence
  IN
  /\ At(p, "acking") /\ Open /\ (DroppedFor(p) => fired)
  /\ \/ \E now \in Sampled : AckLapsed(p, i, f, now)
     \/ ~claims[f].active /\ UNCHANGED mailbox
  /\ Record(<<Event("stale_fence_rejected", i)>>)
  /\ Move(p, IF procs[p].dying THEN Exited(p, 3) ELSE Told(p, "stale"))
  /\ UNCHANGED <<memory, disk, control>>

\* on_ack_accepted: the record carries the application, the mark goes.
MarkReported ==
  /\ At(Seller, "accepted")
  /\ journal' = [journal EXCEPT ![Seller] =
       {[e EXCEPT !.unreported = @ /\ e.message # procs[Seller].message] : e \in @}]
  /\ Move(Seller, Resting(Seller))
  /\ UNCHANGED <<mailbox, memory, marker, applications, control, log>>

-----------------------------------------------------------------------------
(* Leaving, crashing, coming back.                                         *)

\* The exit codes: EXIT_CORRECT and the seller's 0, EXIT_NO_RESPONSE.
Leave(p) ==
  /\ At(p, "idle") /\ Until(p)
  /\ Move(p, Exited(p, IF p = Buyer /\ ~procs[p].outcome THEN 5 ELSE 0))
  /\ UNCHANGED <<mailbox, memory, disk, control, log>>

\* At these places p waits for a handler of the coordinator that has a step to go.
InTown(p) == procs[p].pc \in {"suppressing", "dropping", "reoffering"}
Underway(p) ==
  [by |-> p, pc |-> procs[p].pc, since |-> procs[p].since,
   id |-> IF At(p, "suppressing") THEN procs[p].reply ELSE procs[p].message]

\* The handler runs on when its client dies.
LeavesAdrift(p) == adrift' = adrift \cup (IF InTown(p) THEN {Underway(p)} ELSE {})

\* An unscripted crash.  What is on disk stays.
Crash(p) ==
  /\ <<p, procs[p].pc>> \in mortal
  /\ mortal' = {}
  /\ LeavesAdrift(p)
  /\ Move(p, [Idle EXCEPT !.pc = "exited", !.code = 1])
  /\ UNCHANGED <<mailbox, fired, doneTarget, disk, kept, runner, log>>

\* Whoever runs an outside participant may start it again on the same disk.
Restart(p) ==
  /\ External(p)
  /\ At(p, "exited") /\ procs[p].code = 1
  /\ Move(p, Starting(p))
  /\ UNCHANGED <<mailbox, memory, disk, control, log>>

\* The last step of a handler whose client is gone: as NoteSuppressed, DropAck,
\* OfferDuplicate and OfferRefused, but nobody has the answer.
NotesLate(r) ==
  /\ r.pc = "suppressing"
  /\ Record(<<Event("notify_suppressed", r.id)>>)
  /\ UNCHANGED <<mailbox, fired>>
DropsLate(r) ==
  /\ r.pc = "dropping"
  /\ fired' = TRUE
  /\ Record(<<[Event("ack_dropped", r.id) EXCEPT !.who = r.by]>>)
  /\ UNCHANGED mailbox
OffersLate(r) ==
  /\ r.pc = "reoffering" /\ doneTarget # Nothing
  /\ Reoffer(r.by, doneTarget, r.since)
  /\ fired' = TRUE
  /\ Record(<<DeliveryEvent(r.by, "duplicate_offered")>>)
FindsNoOffer(r) == r.pc = "reoffering" /\ ~HasOffer(r.by) /\ UNCHANGED <<mailbox, fired, log>>

HandlerEnds ==
  /\ Open
  /\ \E r \in adrift :
       /\ NotesLate(r) \/ DropsLate(r) \/ OffersLate(r) \/ FindsNoOffer(r)
       /\ adrift' = adrift \ {r}
  /\ UNCHANGED <<doneTarget, disk, control, procs>>

Participant(p) ==
  \/ WaitForHint(p) \/ ClaimWork(p) \/ ClaimFoundNothing(p)
  \/ OfferDuplicate(p) \/ OfferRefused(p)
  \/ p = Seller /\ (SellerHandles \/ SellerStalls \/ SellerWakes \/ MarkReported \/ BridgeHandles)
  \/ p = Buyer /\ BuyerHandles
  \/ SendNew(p) \/ SendAgain(p) \/ NoteSuppressed(p)
  \/ AckLooksAtFault(p) \/ DropAck(p) \/ AckAccepted(p) \/ AckRefused(p)
  \/ Leave(p)

-----------------------------------------------------------------------------
(* The runner.                                                             *)

SellerProcessed == {n \in AcksBy(log, Seller, QuoteRequest) : log[n].status = "processed"}

QuiescentOnAnyDuplicate ==   \* faulty variant: the offer's fence is not asked for
  /\ Asserting(log, SellerProcessed, "applied") # {}
  /\ fault = "duplicate_delivery" => Asserting(log, SellerProcessed, "duplicate") # {}

\* _quiescent: the seller did what the profile expects of it.
Quiescent ==
  /\ Asserting(log, SellerProcessed, "applied") # {}
  /\ fault = "duplicate_delivery" =>
       \E n \in Asserting(log, SellerProcessed, "duplicate"), o \in Find(log, "duplicate_offered", AnyEvent) :
         log[n].fence = log[o].fence

\* _buyer_settled_response and _response_accepted.
BuyerSettled ==
  \E r \in Responses(log), n \in Find(log, "ack_recorded", AnyEvent) :
    log[n].who = Buyer /\ log[n].subject = log[r].subject /\ log[n].status # "retryable"
ResponseAccepted == \E r \in Responses(log) : log[r].to = Buyer

\* _stop_process, for a participant the runner spawned.
Remains(p) == External(p) \/ At(p, "exited")
Stops(p) ==
  /\ Move(p, IF Remains(p) THEN procs[p] ELSE Exited(p, 2))
  /\ IF Remains(p) THEN UNCHANGED adrift ELSE LeavesAdrift(p)
  /\ UNCHANGED <<fired, doneTarget>>

Spawned(p, code) == ~External(p) /\ At(p, "exited") /\ procs[p].code = code
SellerCrashed == Spawned(Seller, 3) /\ ~runner.restarted
SellerLeft ==
  /\ ~External(Seller) /\ At(Seller, "exited")
  /\ ~SellerCrashed /\ ~runner.sellerDone

\* The seller's turn is over, or the town waited long enough.
SellerFinished == runner.sellerDone \/ Quiescent
WatchIsOver ==
  \/ ~External(Buyer) /\ At(Buyer, "exited")
  \/ External(Buyer) /\ SellerFinished /\ BuyerSettled
  \/ SellerLeft /\ ~ResponseAccepted
  \/ clock >= runner.until

EndWatch ==
  /\ runner.phase = "watching" /\ WatchIsOver
  /\ Stops(Buyer)
  /\ runner' = [runner EXCEPT !.phase = "settling", !.until = clock + Settle]
  /\ UNCHANGED <<mailbox, disk, kept, mortal, log>>

SellerIsDone ==
  /\ runner.phase = "watching" /\ SellerLeft /\ ResponseAccepted
  /\ runner' = [runner EXCEPT !.sellerDone = TRUE]
  /\ UNCHANGED <<mailbox, memory, disk, kept, mortal, procs, log>>

RestartDueWatching == runner.phase = "watching" /\ SellerCrashed   \* faulty variant
RestartDue ==
  /\ SellerCrashed
  /\ \/ runner.phase = "watching"
     \/ runner.phase = "settling" /\ ~SellerFinished

\* restart_seller: both events are recorded before the new process exists.
RestartSeller ==
  /\ RestartDue
  /\ Record(<<Event("participant_crashed", Seller), Event("participant_restarted", Seller)>>)
  /\ Move(Seller, Starting(Seller))
  /\ runner' = [runner EXCEPT !.restarted = TRUE]
  /\ UNCHANGED <<mailbox, memory, disk, kept, mortal>>

SettlingIsOver == SellerFinished \/ clock >= runner.until

\* The seller is stopped and the run finished; the evaluator then judges the events.
EndSettling ==
  /\ runner.phase = "settling" /\ SettlingIsOver
  /\ Stops(Seller)
  /\ FinishRun
  /\ runner' = [runner EXCEPT !.phase = "done", !.verdict = Verdict(log, fault)]
  /\ UNCHANGED <<disk, kept, mortal, log>>

Runner == EndWatch \/ SellerIsDone \/ RestartSeller \/ EndSettling

TimePasses == Tick /\ UNCHANGED <<memory, disk, control, procs, log>>

\* What a prompt town does not do.
Accident(p) == Crash(p) \/ Restart(p) \/ (p = Seller /\ AgentFails)

-----------------------------------------------------------------------------
(* A prompt town: time passes only while everybody waits for it.           *)

NothingToClaim(p) ==
  /\ Waiting(p, clock) = {}
  /\ MayOffer => ~HasOffer(p)

Waits(p) ==
  \/ At(p, "exited")
  \/ At(p, "stalled") /\ ~SleptEnough
  \/ At(p, "idle") /\ ~Until(p) /\ NothingToClaim(p)
  \/ At(p, "claiming") /\ NothingToClaim(p)
  \/ At(p, "reoffering") /\ ~HasOffer(p)

RunnerWaits ==
  /\ ~RestartDue
  /\ runner.phase = "watching" => ~WatchIsOver /\ ~SellerLeft
  /\ runner.phase = "settling" => ~SettlingIsOver

-----------------------------------------------------------------------------
(* Properties.                                                             *)

verdict == runner.verdict
Judged == runner.phase = "done"
Reporting(flag) == {a \in DOMAIN acks : flag \in acks[a].note}
AcceptedResponses == {i \in DOMAIN messages : messages[i].content = "quote_response"}

\* The journal's promise (base.py, "apply an effect exactly once on its own
\* side"), across lapsed leases, re-offers and crashes: the work is performed
\* once, twice only when the fault erased the journal; and the record carries at
\* most one report of it, whoever died between applying, acknowledging and
\* marking the application reported.
AppliedOnce ==
  /\ Cardinality(Reporting("applied")) <= 1
  /\ applications <= IF Amnesiac THEN 2 ELSE 1

FaultHappened ==
  CASE fault = "crash_after_claim" ->
         /\ messages[QuoteRequest].attempts >= 2
         /\ cast[Seller] = "stock" => marker /\ runner.restarted
    [] fault \in {"crash_amnesia", "crash_amnesia_fresh_ids"} ->
         applications = 2 /\ runner.restarted
    [] fault = "drop_wakeup" -> notifications[QuoteRequest] = "suppressed"
    [] fault = "duplicate_delivery" ->
         /\ QuoteRequest \in DOMAIN offered
         /\ \E a \in Reporting("duplicate") : acks[a].fence = offered[QuoteRequest]
    [] OTHER -> fault = "lost_ack" => fired

\* A pass is never awarded for a run that did not earn it: judged from the
\* events alone, "passed" implies what the tables, the journals and the
\* processes say: one response, one report of one application, a buyer that
\* holds the response, asserted it right and settled it, the fault really met.
PassedIsTrue ==
  Judged /\ verdict = "passed" =>
    /\ Cardinality(AcceptedResponses) = 1
    /\ Cardinality(Reporting("applied")) = 1
    /\ Reporting("right") # {}
    /\ \A i \in DOMAIN messages : messages[i].status = "done"
    /\ cast[Buyer] # "model" =>
         \A r \in AcceptedResponses : \E e \in journal[Buyer] : e.message = r
    /\ FaultHappened

\* The stock participants are never blamed for the town's faults: whatever
\* lapses, is re-offered, dropped or killed, a run is judged "failed" only under
\* the negative control, whose seller does answer twice.
NoFalseFailure == Judged /\ verdict = "failed" => fault = "crash_amnesia_fresh_ids"

\* The runner stops a run only when there is nothing left to judge: once the
\* seller's work is quiescent and the buyer's assertion is on the record, the
\* evaluator has all it needs to pass the run.  (runner.py and evaluator.py
\* read the same events by separate rules.)  Only a run that was finished between
\* the suppressed hint and its event is one event short: it is left open, and
\* neither passed without its fault nor failed for the town's gap.
Unrecorded == {r \in adrift : r.pc = "suppressing"}
QuiescentRunsPass ==
  /\ Judged /\ Quiescent
  /\ Reporting("right") # {} /\ fault # "crash_amnesia_fresh_ids"
  => verdict = IF Unrecorded = {} THEN "passed" ELSE "incomplete"

\* A prompt town judges every scripted fault as its profile intends: the run
\* recovers and passes, and the negative control fails.
PromptVerdict ==
  Judged => verdict = IF fault = "crash_amnesia_fresh_ids" THEN "failed" ELSE "passed"

\* Every run is finished and judged, with no help from a timeout (in the bounds
\* of the run that checks this no wait times out but the settling one).
RunEnds == <>Judged

\* "The buyer's correctness assertion [...] travels as the note on the buyer's
\* processed acknowledgement of the quote response" (buyer.py): a buyer that
\* exits EXIT_CORRECT has its assertion on the record.
AssertionTravels ==
  At(Buyer, "exited") /\ procs[Buyer].code = 0 => Reporting("right") # {}
=============================================================================
