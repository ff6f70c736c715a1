------------------------------ MODULE Mailbox ------------------------------
(***************************************************************************)
(* The durable mailbox of one Track run: the tables of db.py (TownDB) that *)
(* carry work from a sender to a recipient.  Every operation of TownDB is  *)
(* one BEGIN IMMEDIATE transaction, hence one action.                      *)
(*                                                                         *)
(* A caller samples `now' when its request arrives and its transaction     *)
(* commits later, possibly after transactions whose sample is younger; so  *)
(* an action takes its `now' from Sampled, not from clock itself.          *)
(*                                                                         *)
(* A fence is a uuid in the code: here it is the position of the claim's   *)
(* row in the claims table (claim_seq), as unique and as unguessable.      *)
(***************************************************************************)
EXTENDS Integers, Sequences, FiniteSets

CONSTANTS
  Participants,   \* names registered for the run
  MessageIds,     \* identities a sender may give its messages
  Contents,       \* kind and body of a message, as its fingerprint sees them
  AckStatuses,    \* the coordinator's ACK_STATUSES
  Notes,          \* what a participant may attach to an acknowledgement
  Lease,          \* lease_seconds, in ticks
  MaxDelay,       \* bound: ticks between sampling `now' and the commit
  MaxTime,        \* bound: last tick of the clock
  MaxClaims       \* bound: rows of the claims table

ASSUME LeaseAssumption == Lease \in Nat
ASSUME BoundsAssumption == MaxDelay \in Nat /\ MaxTime \in Nat /\ MaxClaims \in Nat

VARIABLES
  runStatus,      \* runs.status
  messages,       \* messages table: a function from the accepted identities
  notifications,  \* notifications.status, by message
  claims,         \* claims table, in claim_seq order
  acks,           \* acks table, in commit order
  offered,        \* duplicate_offered events: message |-> fence of the offer
  clock           \* wall clock

tables == <<runStatus, messages, notifications, claims, acks, offered>>
vars == <<runStatus, messages, notifications, claims, acks, offered, clock>>

Message == [sender: Participants, to: Participants, content: Contents,
            status: {"accepted", "claimed", "done"}, acceptedAt: Nat,
            attempts: Nat, done: AckStatuses \cup {"null"}]
Claim == [message: MessageIds, claimant: Participants, expiresAt: Nat,
          attempt: Nat, active: BOOLEAN]
AckRow == [message: MessageIds, fence: Nat, status: AckStatuses, note: Notes]

Fences == DOMAIN claims
Sampled == {t \in 0..clock : clock - t <= MaxDelay}

\* _require_open
Open == runStatus # "finished"

Init ==
  /\ runStatus = "created"
  /\ messages = [i \in {} |-> 0]
  /\ notifications = [i \in {} |-> "pending"]
  /\ claims = <<>>
  /\ acks = <<>>
  /\ offered = [i \in {} |-> 0]
  /\ clock = 0

-----------------------------------------------------------------------------
(* Accepting and hinting.                                                  *)

\* The row a first acceptance inserts.
NewMessage(p, to, c, now) ==
  [sender |-> p, to |-> to, content |-> c, status |-> "accepted",
   acceptedAt |-> now, attempts |-> 0, done |-> "null"]

IsNew(id) == id \notin DOMAIN messages

\* accept_message on a new identity: the work and the intent to notify its
\* recipient commit together.  On a known identity the call only leaves an
\* event (replay_returned or identity_reuse_rejected), so it is no step here.
AcceptMessage(p, id, to, c, suppress, now) ==
  /\ Open
  /\ IsNew(id)
  /\ messages' = [i \in DOMAIN messages \cup {id} |->
                    IF i = id THEN NewMessage(p, to, c, now) ELSE messages[i]]
  /\ notifications' = [i \in DOMAIN messages \cup {id} |->
                         IF i # id THEN notifications[i]
                         ELSE IF suppress THEN "suppressed" ELSE "pending"]
  /\ UNCHANGED <<runStatus, claims, acks, offered, clock>>

\* pop_notify consumes one pending hint; which one of several is up to SQLite.
PopNotify(p) ==
  /\ Open
  /\ \E i \in DOMAIN messages :
       /\ messages[i].to = p
       /\ notifications[i] = "pending"
       /\ notifications' = [notifications EXCEPT ![i] = "consumed"]
  /\ UNCHANGED <<runStatus, messages, claims, acks, offered, clock>>

-----------------------------------------------------------------------------
(* Claiming.                                                               *)

\* Faulty variant: off by one at the end of the lease.
LapsedAtExpiry(f, now) == claims[f].active /\ claims[f].expiresAt <= now
Lapsed(f, now) == claims[f].active /\ claims[f].expiresAt < now

\* Faulty variant: the UPDATE of messages is left out.
LapsedUnnoticed(i, now) == FALSE
LapsedOn(i, now) == \E f \in Fences : Lapsed(f, now) /\ claims[f].message = i

\* Faulty variant: the UPDATE of claims is left out.
ClaimsUnswept(now) == claims

\* _expire_stale_claims: what it leaves in the claims and messages tables.  It
\* sweeps the whole run, not only the caller's claims.
ClaimsAfterExpiry(now) ==
  [f \in Fences |-> [claims[f] EXCEPT !.active = @ /\ ~Lapsed(f, now)]]

MessagesAfterExpiry(now) ==
  [i \in DOMAIN messages |->
     [messages[i] EXCEPT !.status =
        IF @ = "claimed" /\ LapsedOn(i, now) THEN "accepted" ELSE @]]

\* What claim_next selects from once the lapsed claims are released.
Waiting(p, now) ==
  {i \in DOMAIN messages : /\ messages[i].to = p
                           /\ MessagesAfterExpiry(now)[i].status = "accepted"}

Oldest(S) ==
  {i \in S : \A j \in S : messages[i].acceptedAt <= messages[j].acceptedAt}

NewClaim(p, i, now) ==
  [message |-> i, claimant |-> p, expiresAt |-> now + Lease,
   attempt |-> messages[i].attempts + 1, active |-> TRUE]

\* claim_next finding work: the oldest accepted message gets a new fence.
ClaimNext(p, now) ==
  /\ Open
  /\ Len(claims) < MaxClaims
  /\ \E i \in Oldest(Waiting(p, now)) :
       /\ messages' = [MessagesAfterExpiry(now) EXCEPT
                         ![i].status = "claimed", ![i].attempts = @ + 1]
       /\ claims' = Append(ClaimsAfterExpiry(now), NewClaim(p, i, now))
  /\ UNCHANGED <<runStatus, notifications, acks, offered, clock>>

\* Faulty variant: the early return rolls the sweep back.
ClaimNothingRolledBack(p, now) == Open /\ Waiting(p, now) = {} /\ UNCHANGED vars

\* claim_next finding nothing for its caller: the expiry still commits.
ClaimNothing(p, now) ==
  /\ Open
  /\ Waiting(p, now) = {}
  /\ messages' = MessagesAfterExpiry(now)
  /\ claims' = ClaimsAfterExpiry(now)
  /\ UNCHANGED <<runStatus, notifications, acks, offered, clock>>

ActiveOn(i) == {f \in Fences : claims[f].message = i /\ claims[f].active}

\* Faulty variant: nothing remembers that the duplicate was offered.
ReofferableAgain(p, i) ==
  messages[i].to = p /\ messages[i].status = "done" /\ ActiveOn(i) = {}

Reofferable(p, i) ==
  /\ messages[i].to = p
  /\ messages[i].status = "done"
  /\ ActiveOn(i) = {}
  /\ i \notin DOMAIN offered

\* reoffer: completed work is delivered one more time, under a new fence.  The
\* duplicate_offered event in the same transaction is its one-shot marker.
Reoffer(p, i, now) ==
  /\ Open
  /\ Len(claims) < MaxClaims
  /\ i \in DOMAIN messages
  /\ Reofferable(p, i)
  /\ messages' = [messages EXCEPT ![i].attempts = @ + 1]
  /\ claims' = Append(claims, NewClaim(p, i, now))
  /\ offered' = [j \in DOMAIN offered \cup {i} |->
                   IF j = i THEN Len(claims) + 1 ELSE offered[j]]
  /\ UNCHANGED <<runStatus, notifications, acks, clock>>

-----------------------------------------------------------------------------
(* Acknowledging.                                                          *)

\* The SELECT of ack: the caller's claim of this message under this fence.
IsClaim(p, i, f) ==
  f \in Fences /\ claims[f].message = i /\ claims[f].claimant = p

\* Faulty variants: only one of the active flag and the lease is looked at.
CurrentByLease(f, now) == claims[f].expiresAt >= now
CurrentByFlag(f, now) == claims[f].active
Current(f, now) == claims[f].active /\ claims[f].expiresAt >= now

StatusAfterAck(st) == IF st = "retryable" THEN "accepted" ELSE "done"

\* ack under a current fence.  Only a retryable acknowledgement gives the work
\* back.  A claim's message is never "accepted" here, but the UPDATE says so.
Ack(p, i, f, st, note, now) ==
  /\ Open
  /\ IsClaim(p, i, f)
  /\ Current(f, now)
  /\ claims' = [claims EXCEPT ![f].active = FALSE]
  /\ messages' =
       IF messages[i].status \in {"claimed", "done"}
       THEN [messages EXCEPT
               ![i].status = StatusAfterAck(st),
               ![i].done = IF st = "retryable" THEN "null" ELSE st]
       ELSE messages
  /\ acks' = Append(acks, [message |-> i, fence |-> f, status |-> st, note |-> note])
  /\ UNCHANGED <<runStatus, notifications, offered, clock>>

\* ack after the lease ran out and before anybody swept it: refused, and the
\* claim is released on the spot.  Any other stale ack changes no table.
AckLapsed(p, i, f, now) ==
  /\ Open
  /\ IsClaim(p, i, f)
  /\ Lapsed(f, now)
  /\ claims' = [claims EXCEPT ![f].active = FALSE]
  /\ messages' = [messages EXCEPT ![i].status =
                    IF @ = "claimed" THEN "accepted" ELSE @]
  /\ UNCHANGED <<runStatus, notifications, acks, offered, clock>>

-----------------------------------------------------------------------------
(* Ending, time, and the whole.                                            *)

\* finish_run: a second call returns False and changes nothing.
FinishRun ==
  /\ Open
  /\ runStatus' = "finished"
  /\ UNCHANGED <<messages, notifications, claims, acks, offered, clock>>

Tick ==
  /\ clock < MaxTime
  /\ clock' = clock + 1
  /\ UNCHANGED tables

\* A request of participant p whose handler sampled the clock at now.
Request(p, now) ==
  \/ \E id \in MessageIds, to \in Participants, c \in Contents, s \in BOOLEAN :
       AcceptMessage(p, id, to, c, s, now)
  \/ PopNotify(p)
  \/ ClaimNext(p, now)
  \/ ClaimNothing(p, now)
  \/ \E i \in DOMAIN messages : Reoffer(p, i, now)
  \/ \E i \in DOMAIN messages, f \in Fences :
       \/ AckLapsed(p, i, f, now)
       \/ \E st \in AckStatuses, note \in Notes : Ack(p, i, f, st, note, now)

Next ==
  \/ \E p \in Participants, now \in Sampled : Request(p, now)
  \/ FinishRun
  \/ Tick

Spec == Init /\ [][Next]_vars

\* One participant that keeps polling its inbox is all the fairness there is;
\* time passes by itself.  Now and then a poll commits in the tick it sampled.
Polls(p) == ClaimNext(p, clock) \/ ClaimNothing(p, clock)
-----------------------------------------------------------------------------
(* Properties.                                                             *)

\* Type correctness of the tables.
TypeOK ==
  /\ runStatus \in {"created", "finished"}
  /\ DOMAIN messages \subseteq MessageIds
  /\ messages \in [DOMAIN messages -> Message]
  /\ notifications \in [DOMAIN messages -> {"pending", "suppressed", "consumed"}]
  /\ claims \in Seq(Claim)
  /\ acks \in Seq(AckRow)
  /\ DOMAIN offered \subseteq DOMAIN messages
  /\ offered \in [DOMAIN offered -> Nat]
  /\ clock \in Nat

\* At most one participant holds a piece of work, and the holder is the
\* message's recipient under the newest fence issued for it: no schedule of
\* claims, expiries, re-offers and late acknowledgements (each with its own
\* sample of the clock) lets two claims of a message be active together.
OneHolder ==
  \A f, g \in Fences :
    claims[f].message = claims[g].message /\ claims[f].active =>
      /\ claims[f].claimant = messages[claims[f].message].to
      /\ g # f => ~claims[g].active /\ g < f

\* The two tables agree on who may take the work: "claimed" says that somebody
\* holds it, "accepted" that nobody does.  claim_next reads only the status and
\* the sweep only the claims, so a row of either kind alone would strand work.
HolderMatchesStatus ==
  \A i \in DOMAIN messages :
    /\ messages[i].status = "claimed" => ActiveOn(i) # {}
    /\ messages[i].status = "accepted" => ActiveOn(i) = {}

Settling(a) == acks[a].status # "retryable"

\* A message is settled once.  Only the town's own duplicate offer can settle
\* it a second time: of two settling acknowledgements of one message the
\* earlier is for a fence older than the offer, the later is not.  (The
\* evaluator relies on it: "the coordinator settles a response at its first
\* terminal acknowledgement".)
SettlesOnce ==
  \A a, b \in DOMAIN acks :
    a < b /\ acks[a].message = acks[b].message /\ Settling(a) /\ Settling(b) =>
      /\ acks[b].message \in DOMAIN offered
      /\ acks[a].fence < offered[acks[b].message]
      /\ offered[acks[b].message] <= acks[b].fence

IsAnswered(i, f) == f \in Fences /\ claims[f].message = i /\ ~claims[f].active

\* The strengthening under which OneHolder, HolderMatchesStatus and SettlesOnce
\* are inductive.  Claims and acknowledgements are rows of accepted messages; an
\* answered fence is not active; and work that a delivery other than the offered
\* one settled for good (see SettlesOnce) is done and nobody's.
RowsRefer ==
  /\ \A f \in Fences : /\ claims[f].message \in DOMAIN messages
                       /\ claims[f].claimant = messages[claims[f].message].to
  /\ \A a \in DOMAIN acks : IsAnswered(acks[a].message, acks[a].fence)
  /\ \A i \in DOMAIN offered :
       offered[i] \in Fences /\ claims[offered[i]].message = i

SettledForGood(a) ==
  LET i == acks[a].message IN
  Settling(a) /\ (i \in DOMAIN offered => offered[i] <= acks[a].fence)

SettledIsDone ==
  \A a \in DOMAIN acks, i \in DOMAIN messages :
    SettledForGood(a) /\ acks[a].message = i =>
      messages[i].status = "done" /\ ActiveOn(i) = {}

FencingInv ==
  TypeOK /\ RowsRefer /\ OneHolder /\ HolderMatchesStatus /\ SettledIsDone /\ SettlesOnce

\* "A stale fence can never acknowledge work" (db.py, module docstring): the
\* acknowledgement that is recorded is for the newest delivery of its message.
AckedByNewest ==
  \A a \in DOMAIN acks' \ DOMAIN acks :
    \A g \in Fences : claims[g].message = acks'[a].message => g <= acks'[a].fence

\* Only the newest claim of a message acknowledges it (ack_message, the fence test).
NewestFenceAcks == [][AckedByNewest]_vars

\* A claim is the holder's until its lease has run out on the wall clock: it
\* ends earlier only with the holder's own acknowledgement, whatever stale
\* samples of the clock the sweeping requests carry.
LeaseKept ==
  \A f \in Fences :
    claims[f].active /\ ~claims'[f].active =>
      \/ claims[f].expiresAt < clock
      \/ \E a \in DOMAIN acks' \ DOMAIN acks : acks'[a].fence = f

\* No sweep of claim_next ends a claim before its lease has run out.
LeaseRespected == [][LeaseKept]_vars

\* Completed work becomes claimable again only when the holder of a duplicate
\* offer returns it as retryable; a lapsed offer never revives it.
UndoneByOffer ==
  \A i \in DOMAIN messages :
    messages[i].status = "done" /\ messages'[i].status # "done" =>
      \E a \in DOMAIN acks' \ DOMAIN acks :
        /\ i \in DOMAIN offered
        /\ acks'[a].fence = offered[i]
        /\ acks'[a].status = "retryable"

\* Work that is done is undone only by a retryable answer to a duplicate offer.
DoneIsUndoneOnlyByOffer == [][UndoneByOffer]_vars

\* An acceptance is final: a later send under the same identity changes neither
\* the envelope nor the acceptance time, and deliveries are only ever added.
EnvelopesKept ==
  \A i \in DOMAIN messages :
    /\ i \in DOMAIN messages'
    /\ \A field \in {"sender", "to", "content", "acceptedAt"} :
         messages'[i][field] = messages[i][field]
    /\ messages'[i].attempts >= messages[i].attempts

\* accept_message never rewrites an accepted envelope (idempotent replay).
AcceptanceIsFinal == [][EnvelopesKept]_vars

\* Seen from outside, the mailbox is the work queue WorkQueue specifies: the
\* rows of the claims table that are no longer active are history.
Holder(i) == IF ActiveOn(i) = {} THEN 0 ELSE CHOOSE f \in ActiveOn(i) : TRUE

Stage(i) ==
  IF i \notin DOMAIN messages THEN "absent"
  ELSE CASE messages[i].status = "accepted" -> "waiting"
         [] messages[i].status = "claimed" -> "held"
         [] messages[i].status = "done" -> "settled"

Queue == INSTANCE WorkQueue WITH
  Work <- MessageIds,
  stage <- [i \in MessageIds |-> Stage(i)],
  holder <- [i \in MessageIds |-> Holder(i)],
  issued <- Len(claims),
  redelivered <- DOMAIN offered,
  open <- Open

ImplementsWorkQueue == Queue!Spec

Held(f) == f \in Fences /\ claims[f].active

\* Work whose holder never answers returns: while one participant polls, any
\* participant's abandoned claim lapses and its message can be claimed again.
\* (The bounds: a lease that outlasts the clock never lapses, and once MaxClaims
\* fences are issued a poll that finds work cannot be answered.)
AbandonedWorkReturns ==
  \A f \in 1..MaxClaims :
    Held(f) /\ claims[f].expiresAt < MaxTime ~>
      ~Held(f) \/ ~Open \/ Len(claims) = MaxClaims
=============================================================================
