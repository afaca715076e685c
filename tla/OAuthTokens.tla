------------------------------ MODULE OAuthTokens ------------------------------
(***************************************************************************)
(* The connection of one assistant to one account (oauth/store.ts,           *)
(* oauth/provider.ts, routes/oauth.ts, models/oauth-token.ts): the consents  *)
(* the user gives, the codes they are exchanged with, and the pairs of       *)
(* access and refresh token that succeed each other.                        *)
(*                                                                         *)
(* The assistant retries, refreshes from several places at once and loses    *)
(* answers; every database call is a step.  A pair is a number; the access   *)
(* and the refresh row of a pair are written independently.  Scopes, PKCE,   *)
(* redirect URIs, the browser's nonce and the expiry of unused tokens after  *)
(* months are left out.                                                    *)
(***************************************************************************)
EXTENDS Integers

CONSTANTS
    Requests,   \* requests the server can be handling at once
    Grants,     \* consents the assistant asks for
    Grace,      \* REFRESH_GRACE_SECONDS, in ticks
    MaxPairs,   \* bound: pairs issued
    MaxTime,    \* bound: ticks of the clock
    MaxEnds,    \* bound: disconnections and teardowns
    MaxFailures \* bound: requests that fail or whose answer is lost

ASSUME OAuthAssumption ==
    /\ Grace \in Nat \ {0}
    /\ {MaxPairs, MaxTime, MaxEnds, MaxFailures} \subseteq Nat

Pair == 1..MaxPairs
None == 0
Forever == MaxTime + Grace + 1   \* a refresh token that nothing superseded

VARIABLES
    grant,      \* [Grants -> ...] the authorization rows
    access,     \* pairs whose access row exists
    refresh,    \* pairs whose refresh row exists
    superseded, \* pairs whose refresh row carries supersededAt
    until,      \* [Pair -> time] usableUntil of the refresh row
    issued,     \* pairs generated so far
    client,     \* the pair the assistant holds, or None
    now,        \* the clock
    work,       \* [Requests -> ...] where each request is
    stamped,    \* history: [Pair -> time] when a row was first superseded
    origin,     \* history: [Pair -> Grants \union {None}] the code it was bought with
    gen,        \* history: [Pair -> connections ended before its consent was redeemed]
    ends,       \* history: connections ended
    late,       \* history: pairs written across a deletion, and their successors
    disturbed,  \* history: a stale copy was presented, or tokens were revoked
    failures    \* failed requests so far

rows == <<access, refresh, superseded, until>>
pairs == <<issued, origin, gen>>
flags == <<disturbed, failures>>
vars == <<grant, rows, pairs, client, now, work, stamped, ends, late, flags>>

Rest == [at |-> "rest"]
Work ==
    UNION {[at : {"rest", "teardown"}],
           [at : {"approve", "deny"}, grant : Grants],
           [at : {"sent"}, pair : 1..issued, client : BOOLEAN],
           [at : {"save"}, pair : 1..issued, client : BOOLEAN, now : 0..now],
           [at : {"issuing"}, pair : 1..issued, client : BOOLEAN,
            left : SUBSET {"access", "refresh"}]}

TypeOK ==
    /\ grant \in [Grants -> {"none", "pending", "approved", "redeemed", "gone"}]
    /\ issued \in 0..MaxPairs
    /\ access \subseteq 1..issued /\ refresh \subseteq 1..issued
    /\ superseded \subseteq 1..issued /\ late \subseteq 1..issued
    /\ until \in [Pair -> 0..Forever] /\ stamped \in [Pair -> 0..MaxTime]
    /\ client \in 0..issued
    /\ now \in 0..MaxTime /\ ends \in 0..MaxEnds
    /\ gen \in [Pair -> 0..ends] /\ origin \in [Pair -> Grants \union {None}]
    /\ disturbed \in BOOLEAN /\ failures \in 0..MaxFailures
    /\ work \in [Requests -> Work]

Init ==
    /\ grant = [g \in Grants |-> "none"]
    /\ access = {} /\ refresh = {} /\ superseded = {} /\ late = {}
    /\ until = [p \in Pair |-> Forever]
    /\ stamped = [p \in Pair |-> 0]
    /\ origin = [p \in Pair |-> None]
    /\ gen = [p \in Pair |-> 0]
    /\ issued = 0 /\ client = None /\ now = 0 /\ ends = 0
    /\ work = [r \in Requests |-> Rest]
    /\ disturbed = FALSE /\ failures = 0

Goes(r, w) == work' = [work EXCEPT ![r] = w]
Begins(r, w) == work[r] = Rest /\ Goes(r, w)

-----------------------------------------------------------------------------
(* Consent: authorize, approve, deny.                                      *)

ConsentUnchanged ==
    UNCHANGED <<rows, pairs, client, now, stamped, ends, late, flags>>

Authorize(g) ==
    /\ grant[g] = "none"
    /\ grant' = [grant EXCEPT ![g] = "pending"]
    /\ ConsentUnchanged /\ UNCHANGED work

\* pendingRequest, before approve or deny.
Answering(r, g, answer) ==
    /\ grant[g] = "pending"
    /\ Begins(r, [at |-> answer, grant |-> g])
    /\ ConsentUnchanged /\ UNCHANGED grant

\* One update, guarded on the row still being pending.
Approve(r) ==
    /\ work[r].at = "approve"
    /\ grant' = IF grant[work[r].grant] = "pending"
                  THEN [grant EXCEPT ![work[r].grant] = "approved"] ELSE grant
    /\ Goes(r, Rest)
    /\ ConsentUnchanged

\* deleteOne by id, whatever the row has become.
Deny(r) ==
    /\ work[r].at = "deny"
    /\ grant' = [grant EXCEPT ![work[r].grant] = "gone"]
    /\ Goes(r, Rest)
    /\ ConsentUnchanged

GrantExpires(g) ==
    /\ grant[g] \in {"pending", "approved"}
    /\ grant' = [grant EXCEPT ![g] = "gone"]
    /\ ConsentUnchanged /\ UNCHANGED work

-----------------------------------------------------------------------------
(* issueTokens: a pair is generated, its two rows are stored in any order.  *)

Generate(r, g, generation, isLate, forClient) ==
    /\ issued < MaxPairs
    /\ issued' = issued + 1
    /\ origin' = [origin EXCEPT ![issued'] = g]
    /\ gen' = [gen EXCEPT ![issued'] = generation]
    /\ late' = IF isLate THEN late \union {issued'} ELSE late
    /\ Goes(r, [at |-> "issuing", pair |-> issued', left |-> {"access", "refresh"},
                client |-> forClient])

Store(r, kind) ==
    /\ work[r].at = "issuing" /\ kind \in work[r].left
    /\ access' = IF kind = "access" THEN access \union {work[r].pair} ELSE access
    /\ refresh' = IF kind = "refresh" THEN refresh \union {work[r].pair} ELSE refresh
    /\ Goes(r, [work[r] EXCEPT !.left = @ \ {kind}])
    /\ UNCHANGED <<grant, superseded, until, pairs, client, now, stamped, ends,
                   late, flags>>

\* The response reaches the assistant, or whoever else asked.
Answer(r) ==
    /\ work[r].at = "issuing" /\ work[r].left = {}
    /\ client' = IF work[r].client THEN work[r].pair ELSE client
    /\ Goes(r, Rest)
    /\ UNCHANGED <<grant, rows, pairs, now, stamped, ends, late, flags>>

\* Mutant: whether the code was redeemed is read before, and not asked again.
RedeemableEver(g) == grant[g] \in {"approved", "redeemed"}

Redeemable(g) == grant[g] = "approved"

\* exchangeAuthorizationCode stamps redeemedAt in the operation that finds the row.
Redeem(r, g) ==
    /\ work[r] = Rest /\ Redeemable(g)
    /\ grant' = [grant EXCEPT ![g] = "redeemed"]
    /\ Generate(r, g, ends, FALSE, TRUE)
    /\ UNCHANGED <<rows, client, now, stamped, ends, flags>>

-----------------------------------------------------------------------------
(* rotateTokens.                                                           *)

RotateUnchanged == UNCHANGED <<grant, access, refresh, client, now, ends, flags>>

\* A refresh with the token the assistant holds; several may be on their way.
Refresh(r) ==
    /\ client # None
    /\ Begins(r, [at |-> "sent", pair |-> client, client |-> TRUE])
    /\ UNCHANGED <<grant, rows, pairs, client, now, stamped, ends, late, flags>>

\* A copy of an earlier token is presented.
Replay(r) ==
    /\ \E p \in refresh \ {client} :
          Begins(r, [at |-> "sent", pair |-> p, client |-> FALSE])
    /\ disturbed' = TRUE
    /\ UNCHANGED <<grant, rows, pairs, client, now, stamped, ends, late, failures>>

\* Mutant: every presentation within the window moves it.
RotatedNever(p) == FALSE

Rotated(p) == p \in superseded

\* findOne, without a filter on the expiry.
Find(r) ==
    /\ work[r].at = "sent"
    /\ LET p == work[r].pair
           closed == until[p] <= now
       IN  \/ /\ p \notin refresh \/ (closed /\ p \notin superseded)
              /\ Goes(r, Rest)
              /\ UNCHANGED <<pairs, late>>
           \/ /\ p \in refresh /\ closed /\ p \in superseded
              /\ Goes(r, [at |-> "teardown"])
              /\ UNCHANGED <<pairs, late>>
           \/ /\ p \in refresh /\ ~closed /\ ~Rotated(p)
              /\ Goes(r, [at |-> "save", pair |-> p, client |-> work[r].client,
                          now |-> now])
              /\ UNCHANGED <<pairs, late>>
           \/ /\ p \in refresh /\ ~closed /\ Rotated(p)
              /\ Generate(r, None, gen[p], p \in late, work[r].client)
    /\ UNCHANGED <<superseded, until, stamped>> /\ RotateUnchanged

\* Mutant: no grace, the window closes with the rotation.
WindowAtOnce(r) == work[r].now

Window(r) == work[r].now + Grace

\* save(): a row deleted meanwhile makes it throw, and the answer is a refusal.
Save(r) ==
    /\ work[r].at = "save"
    /\ LET p == work[r].pair
       IN  IF p \in refresh
             THEN /\ superseded' = superseded \union {p}
                  /\ until' = [until EXCEPT ![p] = Window(r)]
                  /\ stamped' = IF p \in superseded THEN stamped
                                ELSE [stamped EXCEPT ![p] = now]
                  /\ Generate(r, None, gen[p], p \in late, work[r].client)
             ELSE Goes(r, Rest) /\ UNCHANGED <<superseded, until, stamped, pairs, late>>
    /\ RotateUnchanged

-----------------------------------------------------------------------------
(* The end of a connection.                                                *)

\* Mutant: only what can be refreshed is deleted.
AccessKept == access

AccessAfterDisconnect == {}

\* The refresh rows of ps go, with all they carry.
RefreshGone(ps) ==
    /\ refresh' = refresh \ ps
    /\ superseded' = superseded \ ps
    /\ until' = [p \in Pair |-> IF p \in ps THEN Forever ELSE until[p]]
    /\ stamped' = [p \in Pair |-> IF p \in ps THEN 0 ELSE stamped[p]]

\* disconnect: deleteMany.  A pair being stored is not there to be deleted yet.
DeleteConnection ==
    /\ ends < MaxEnds
    /\ ends' = ends + 1
    /\ access' = AccessAfterDisconnect
    /\ RefreshGone(refresh)
    /\ late' = late \union
         {work[r].pair : r \in {q \in Requests : work[q].at = "issuing"}}
    /\ UNCHANGED <<grant, pairs, client, now, failures>>

\* revokeConnection, on reuse.  If it fails that is logged and forgotten (Fail).
Teardown(r) ==
    /\ work[r].at = "teardown"
    /\ DeleteConnection
    /\ Goes(r, Rest)
    /\ UNCHANGED disturbed

\* mcp.disconnect.
Disconnect ==
    /\ DeleteConnection
    /\ disturbed' = TRUE
    /\ UNCHANGED work

\* RFC 7009 revocation of one token.
RevokeToken(p) ==
    /\ \/ p \in access /\ access' = access \ {p}
          /\ UNCHANGED <<refresh, superseded, until, stamped>>
       \/ p \in refresh /\ RefreshGone({p}) /\ access' = access
    /\ disturbed' = TRUE
    /\ UNCHANGED <<grant, pairs, client, now, work, ends, late, failures>>

\* A call is rejected, the process restarts, or the answer is lost.  Failing
\* earlier leaves no trace.
Fail(r) ==
    /\ work[r].at \in {"issuing", "teardown"}
    /\ failures < MaxFailures
    /\ failures' = failures + 1
    /\ Goes(r, Rest)
    /\ UNCHANGED <<grant, rows, pairs, client, now, stamped, ends, late, disturbed>>

\* An assistant retries within the grace window, which outlasts a request.
Tick ==
    /\ now < MaxTime
    /\ \A p \in {client} \union
                {work[r].pair : r \in {q \in Requests :
                    work[q].at = "sent" /\ work[q].client}} :
          p \in superseded => until[p] > now + 1
    /\ \A r \in Requests :
          work[r].at = "save" /\ work[r].client => work[r].now + Grace > now + 1
    /\ now' = now + 1
    /\ UNCHANGED <<grant, rows, pairs, client, work, stamped, ends, late, flags>>

-----------------------------------------------------------------------------

Next ==
    \/ \E g \in Grants : Authorize(g) \/ GrantExpires(g)
    \/ \E r \in Requests, g \in Grants :
          \/ Answering(r, g, "approve") \/ Answering(r, g, "deny")
          \/ Redeem(r, g)
    \/ \E r \in Requests :
          \/ Approve(r) \/ Deny(r) \/ Answer(r)
          \/ Refresh(r) \/ Replay(r) \/ Find(r) \/ Save(r) \/ Teardown(r) \/ Fail(r)
    \/ \E r \in Requests, kind \in {"access", "refresh"} : Store(r, kind)
    \/ Disconnect \/ Tick
    \/ \E p \in Pair : RevokeToken(p)

Spec == Init /\ [][Next]_vars

-----------------------------------------------------------------------------
(* Properties.                                                             *)

\* However often it retries and whatever answers are lost, the assistant holds a
\* refresh token that works until the user or a stale copy ends the connection
\* ("a lost response's retry presents the same token the client has always had").
ClientStaysConnected ==
    ~disturbed /\ client # None => client \in refresh /\ until[client] > now

\* A superseded token is good for one grace window from its first rotation:
\* presenting it again, even at the same time, does not renew its life
\* ("rather than sliding the window forward", rotateTokens).
WindowIsBounded == \A p \in superseded : until[p] <= stamped[p] + Grace

\* A connection that was ended holds no token, neither by the user's disconnect
\* nor by the teardown on reuse, but for pairs that were being written across
\* the deletion and their successors.  A new consent starts a new one.
EndedIsDead == TypeOK /\ \A p \in (access \union refresh) \ late : gen[p] = ends

\* A consent buys one pair, whatever clicks and exchanges race ("two clicks on a
\* slow connection cannot produce two codes for one consent"; "single use,
\* enforced by the update itself").
OneConsentOnePair ==
    \A p, q \in 1..issued : origin[p] # None /\ origin[p] = origin[q] => p = q

=============================================================================
