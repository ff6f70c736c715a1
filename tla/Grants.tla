-------------------------------- MODULE Grants --------------------------------
(***************************************************************************)
(* Joining a run, and acting within a run grant: coordinator.py 175-221,   *)
(* 258-352, db.py 235-331 and verify_grant.  Requests are concurrent: each *)
(* database transaction of a handler is a step, and the controller may     *)
(* issue a narrower or wider grant, and anyone join again with an older    *)
(* one, between any two; and the coordinator may be restarted.  What an    *)
(* action does is Mailbox's; here it only counts.  Signatures are          *)
(* abstracted to whether a presented grant is genuine: signed by the       *)
(* pinned controller, for this run, and held.                              *)
(***************************************************************************)
EXTENDS Integers, FiniteSets

CONSTANTS
  Roles,
  Pinned,        \* SUBSET Roles: the roles pinned to a portable identity
  Permissions,   \* the names a grant may hold, "join" among them
  Issuable,      \* SUBSET (SUBSET Permissions): what controllers grant
  Token,         \* a join without a grant
  Clients,       \* who sends requests, each one at a time
  TTL,           \* how long a grant may be presented
  MaxTime,       \* bound on the clock
  MaxGrants,     \* bound on the grants issued
  MaxRequests    \* bound on the requests

ASSUME GrantsAssumption ==
  /\ Pinned \subseteq Roles
  /\ "join" \in Permissions
  /\ Issuable \subseteq SUBSET Permissions
  /\ TTL \in Nat /\ MaxTime \in Nat /\ MaxGrants \in Nat /\ MaxRequests \in Nat
  /\ Token \notin [role : Roles, permissions : Issuable, issuedAt : 0..MaxTime]

VARIABLES
  runStatus,
  participants,  \* the rows: session, whether a grant restricts it, and which
  issued,        \* the grants controllers have signed
  request,       \* what each client's request does next
  requests,      \* how many there have been
  joined,        \* the joins answered with a session
  acts,          \* [Roles -> [Permissions -> Nat]], the actions committed
  events,        \* what the record says of joins and refusals
  clock

rows == <<runStatus, participants>>
record == <<joined, acts, events>>
grantVars == <<rows, issued, request, requests, record, clock>>

Actions == Permissions \ {"join"}
Grant == [role : Roles, permissions : Issuable, issuedAt : 0..MaxTime]

Unjoined == [session |-> 0, granted |-> FALSE, permissions |-> {}, issuedAt |-> 0]
Idle == [step |-> "idle"]

GrantsInit ==
  /\ runStatus = "created"
  /\ participants = [r \in Roles |-> Unjoined]
  /\ issued = {}
  /\ request = [c \in Clients |-> Idle]
  /\ requests = 0
  /\ joined = {}
  /\ acts = [r \in Roles |-> [a \in Actions |-> 0]]
  /\ events = {}
  /\ clock = 0

Open == runStatus # "finished"
Step(c, step) == request[c].step = step
Goto(c, step) == request' = [request EXCEPT ![c].step = step]
Answered(c) == request' = [request EXCEPT ![c] = Idle]

\* The event each kind of refusal leaves.
Refusal == [rejecting |-> "grant_rejected", requiring |-> "grant_required",
            denying |-> "grant_permission_denied"]

\* A transaction of a handler: on a finished run it is refused, and the request
\* ends with run_finished.
Refused(c) ==
  /\ request[c].step \in {"rejecting", "denying", "requiring", "authenticating",
                          "verified", "joined", "intent", "acting"}
  /\ ~Open
  /\ Answered(c)
  /\ UNCHANGED <<rows, issued, requests, record, clock>>

\* record_event, the last thing some handlers do before they answer.
Record(c, kind, detail) ==
  /\ Open
  /\ events' = events \cup {[kind |-> kind, role |-> request[c].role, detail |-> detail]}
  /\ UNCHANGED <<rows, issued, requests, acts, clock>>

-----------------------------------------------------------------------------
(* Joining.                                                                *)

\* make_grant, by the controller: two grants may carry the same time.
Issue ==
  /\ Cardinality(issued) < MaxGrants
  /\ \E g \in Grant : g.issuedAt = clock /\ issued' = issued \cup {g}
  /\ UNCHANGED <<rows, request, requests, record, clock>>

MayTokenJoin(r) == r \notin Pinned

\* A join request arrives, with a join token.  A wrong token leaves no mark.
JoinWithToken(c) ==
  /\ Step(c, "idle") /\ requests < MaxRequests
  /\ requests' = requests + 1
  /\ \E r \in Roles :
       request' = [request EXCEPT ![c] =
         [step |-> IF MayTokenJoin(r) THEN "authenticating" ELSE "requiring",
          role |-> r, id |-> requests + 1, grant |-> Token]]
  /\ UNCHANGED <<rows, issued, record, clock>>

Expired(g, at) == at > g.issuedAt + TTL

\* A join request arrives with a grant: a pinned identity, verify_grant against
\* the time sampled now, and the join permission.
JoinWithGrant(c) ==
  /\ Step(c, "idle") /\ requests < MaxRequests
  /\ requests' = requests + 1
  /\ \E g \in issued, genuine \in BOOLEAN :
       /\ g.role \in Pinned
       /\ request' = [request EXCEPT ![c] =
            [step |-> IF ~genuine \/ Expired(g, clock) THEN "rejecting"
                      ELSE IF "join" \notin g.permissions THEN "denying"
                      ELSE "authenticating",
             role |-> g.role, id |-> requests + 1, grant |-> g, action |-> "join"]]
  /\ UNCHANGED <<rows, issued, record, clock>>

\* The refusals: each is evidence, and changes nothing else.
Reject(c) ==
  /\ request[c].step \in DOMAIN Refusal
  /\ Record(c, Refusal[request[c].step],
            IF Step(c, "denying") THEN {request[c].action} ELSE {})
  /\ Answered(c)
  /\ UNCHANGED joined

\* Faulty variant: any verified grant replaces the recorded one.
AlwaysReplaces(g, row) == TRUE
\* _not_older; a row without a grant has no time of issue.
NotOlder(g, row) == row.granted => g.issuedAt >= row.issuedAt

\* Faulty variant: a join always mints a session.
MintedAnew(c, row) == request[c].id
SessionOf(c, row) == IF row.session = 0 THEN request[c].id ELSE row.session

\* What authenticate writes: a first join takes the grant or NULL; a later one
\* replaces the permissions only with a grant that is not older.
RowAfter(c, row) ==
  LET g == request[c].grant
  IN IF g = Token
     THEN [row EXCEPT !.session = SessionOf(c, row)]
     ELSE IF row.session = 0 \/ NotOlder(g, row)
     THEN [session |-> SessionOf(c, row), granted |-> TRUE,
           permissions |-> g.permissions, issuedAt |-> g.issuedAt]
     ELSE row

\* Faulty variant: only a first join is put on record as verified.
VerifiedOnce(c) ==
  IF request[c].grant = Token \/ participants[request[c].role].session # 0
  THEN "joined" ELSE "verified"
AfterJoin(c) == IF request[c].grant = Token THEN "joined" ELSE "verified"

Authenticate(c) ==
  /\ Step(c, "authenticating") /\ Open
  /\ LET r == request[c].role
     IN participants' = [participants EXCEPT ![r] = RowAfter(c, participants[r])]
  /\ request' = [request EXCEPT ![c] =
       [step |-> AfterJoin(c),
        role |-> request[c].role, id |-> request[c].id, grant |-> request[c].grant,
        session |-> participants'[request[c].role].session]]
  /\ UNCHANGED <<runStatus, issued, requests, record, clock>>

RecordVerified(c) ==
  /\ Step(c, "verified")
  /\ Record(c, "portable_identity_verified", request[c].grant.permissions)
  /\ Goto(c, "joined")
  /\ UNCHANGED joined

RecordJoined(c) ==
  /\ Step(c, "joined")
  /\ Record(c, "participant_joined", {})
  /\ joined' = joined \cup {[role |-> request[c].role, session |-> request[c].session,
                              grant |-> request[c].grant]}
  /\ Answered(c)

-----------------------------------------------------------------------------
(* Acting: send, claim and ack.                                            *)

\* An action arrives with the session a join was answered with; session_owner
\* finds whose it is.  (before is history: the joins answered by then.)
Request(c) ==
  /\ Step(c, "idle") /\ requests < MaxRequests
  /\ requests' = requests + 1
  /\ \E j \in joined, a \in Actions :
       /\ participants[j.role].session = j.session
       /\ request' = [request EXCEPT ![c] =
            [step |-> "intent", role |-> j.role, action |-> a,
             before |-> {k \in joined : k.role = j.role}]]
  /\ UNCHANGED <<rows, issued, record, clock>>

\* record_intent, a transaction of its own.
RecordIntent(c) ==
  /\ Step(c, "intent") /\ Open
  /\ Goto(c, "permitting")
  /\ UNCHANGED <<rows, issued, requests, record, clock>>

\* Faulty variant: being let in is taken for being let do anything.
PermittedOnceIn(row, a) == row.granted => "join" \in row.permissions
Permitted(row, a) == row.granted => a \in row.permissions

\* require_permission, which only reads.
RequirePermission(c) ==
  /\ Step(c, "permitting")
  /\ Goto(c, IF Permitted(participants[request[c].role], request[c].action)
             THEN "acting" ELSE "denying")
  /\ UNCHANGED <<rows, issued, requests, record, clock>>

\* The action's own transaction.
Commit(c) ==
  /\ Step(c, "acting") /\ Open
  /\ acts' = [acts EXCEPT ![request[c].role][request[c].action] = @ + 1]
  /\ Answered(c)
  /\ UNCHANGED <<rows, issued, requests, joined, events, clock>>

-----------------------------------------------------------------------------
FinishRun ==
  /\ Open
  /\ runStatus' = "finished"
  /\ UNCHANGED <<participants, issued, request, requests, record, clock>>

Tick ==
  /\ clock < MaxTime
  /\ clock' = clock + 1
  /\ UNCHANGED <<rows, issued, request, requests, record>>

\* Faulty variant: the permissions of a session are kept in memory, and lost with it.
ForgetsLimits ==
  /\ \E c \in Clients : ~Step(c, "idle")
  /\ request' = [c \in Clients |-> Idle]
  /\ participants' = [r \in Roles |-> [participants[r] EXCEPT !.granted = FALSE]]
  /\ UNCHANGED <<runStatus, issued, requests, record, clock>>

\* The coordinator is stopped and started again on its database: the handlers
\* that were under way end where they are, unanswered.
TownRestarts ==
  /\ \E c \in Clients : ~Step(c, "idle")
  /\ request' = [c \in Clients |-> Idle]
  /\ UNCHANGED <<rows, issued, requests, record, clock>>

Handle(c) ==
  \/ Refused(c) \/ Reject(c) \/ Authenticate(c) \/ RecordVerified(c) \/ RecordJoined(c)
  \/ RecordIntent(c) \/ RequirePermission(c) \/ Commit(c)

GrantsNext ==
  \/ \E c \in Clients : JoinWithToken(c) \/ JoinWithGrant(c) \/ Request(c) \/ Handle(c)
  \/ Issue \/ FinishRun \/ Tick \/ TownRestarts

GrantsSpec == GrantsInit /\ [][GrantsNext]_grantVars

-----------------------------------------------------------------------------
(* Properties.                                                             *)

\* Every answered join of a role, however they race, got the same session, and
\* it is still the role's.
OneSession == \A j \in joined : participants[j.role].session = j.session

\* Once the join of a grant has been answered, no older grant is in force: a
\* wider grant that was superseded cannot be replayed to re-widen the session,
\* even by a join that was verified before (docstring of TownDB.authenticate).
NotRewidened ==
  \A j \in joined : j.grant # Token =>
    participants[j.role].granted /\ participants[j.role].issuedAt >= j.grant.issuedAt

\* A pinned role is never without limits, and its limits are exactly those of a
\* grant its controller signed for it.
PinnedIsLimited ==
  \A r \in Pinned : participants[r].session # 0 =>
    /\ participants[r].granted
    /\ \E g \in issued : /\ g.role = r
                         /\ g.permissions = participants[r].permissions
                         /\ g.issuedAt = participants[r].issuedAt

\* The limits a role acts under are on the record of an open run as soon as no
\* join of the role is between its two transactions: a later reader of the
\* events knows every limit that was ever in force.
LimitsAreOnRecord ==
  \A r \in Roles :
    /\ Open /\ participants[r].granted
    /\ \A c \in Clients : Step(c, "verified") => request[c].role # r
    => [kind |-> "portable_identity_verified", role |-> r,
        detail |-> participants[r].permissions] \in events

\* Permission is read in one transaction and the action committed in another, so
\* a session narrowed in between still commits; but only what was already under
\* way.  A request sent after the join of a grant was answered acts by a grant
\* no older than that ("a grant-joined session acts only within its grant").
ActsByTheNewest ==
  \A c \in Clients :
    Step(c, "acting") /\ request[c].role \in Pinned =>
      \E g \in issued :
        /\ g.role = request[c].role /\ request[c].action \in g.permissions
        /\ \A j \in request[c].before : g.issuedAt >= j.grant.issuedAt
=============================================================================
