----------------------------- MODULE AuthSessions -----------------------------
(***************************************************************************)
(* The sessions of one account (auth/refresh-store.ts, auth/service.ts), its *)
(* password-reset links (auth/one-time-tokens.ts), and what ends sessions:   *)
(* logout, a reset, and an administrator's new password, ban and unban       *)
(* (routes/admin.ts).  Every database call of a request is a step.           *)
(*                                                                         *)
(* A login proves the password of the time: what matters is which changes    *)
(* of the account it came after, so changes are numbered (`epoch`).  A       *)
(* session's own expiry after days, Google sign-in and the verification of   *)
(* the address are left out.                                               *)
(***************************************************************************)
EXTENDS Integers, FiniteSets

CONSTANTS
    Requests,    \* requests the server can be handling at once
    Browsers,    \* cookie jars; the tabs of one browser share its cookie
    MaxSessions, \* bound: sessions issued
    MaxLinks,    \* bound: reset links issued
    MaxChanges,  \* bound: new passwords and bans
    MaxFailures  \* bound: requests that fail or whose answer is lost

ASSUME AuthAssumption == {MaxSessions, MaxLinks, MaxChanges, MaxFailures} \subseteq Nat

Session == 1..MaxSessions
Link == 1..MaxLinks
None == 0   \* no cookie, not banned, nothing rotated

VARIABLES
    session,   \* [Session -> ...] the refresh-token documents
    auth,      \* [Session -> epoch] the change its login came after
    link,      \* [Link -> ...] the password-reset documents
    epoch,     \* changes of the account so far: new passwords and bans
    banned,    \* the epoch of the ban in force, or None
    cookie,    \* [Browsers -> Session \union {None}] sm_refresh
    work,      \* [Requests -> ...] where each request is
    held,      \* history: sessions whose raw token reached a client
    revoked,   \* history: sessions that logout or a revocation deleted
    late,      \* history: sessions issued over the head of a revocation
    recovered, \* history: the change the last complete revocation sealed
    since,     \* history: [Link -> links created before its request's delete]
    failures   \* failed requests so far

store == <<session, auth, late>>
account == <<epoch, banned, recovered>>
links == <<link, since>>
vars == <<store, account, links, cookie, work, held, revoked, failures>>

Rest == [at |-> "rest"]
Valid(s) == session[s] \in {"live", "grace"}
Issued == {s \in Session : session[s] # "none"}
Mailed == {l \in Link : link[l] # "none"}

TypeOK ==
    /\ session \in [Session -> {"none", "live", "grace", "gone"}]
    /\ auth \in [Session -> 0..MaxChanges]
    /\ link \in [Link -> {"none", "live", "gone"}]
    /\ since \in [Link -> 0..MaxLinks]
    /\ epoch \in 0..MaxChanges
    /\ banned \in 0..epoch /\ recovered \in 0..epoch
    /\ cookie \in [Browsers -> Issued \union {None}]
    /\ held \subseteq Issued /\ revoked \subseteq Issued /\ late \subseteq Issued
    /\ failures \in 0..MaxFailures

Init ==
    /\ session = [s \in Session |-> "none"]
    /\ auth = [s \in Session |-> 0]
    /\ link = [l \in Link |-> "none"]
    /\ since = [l \in Link |-> 0]
    /\ epoch = 0 /\ banned = None /\ recovered = 0
    /\ cookie = [b \in Browsers |-> None]
    /\ work = [r \in Requests |-> Rest]
    /\ held = {} /\ revoked = {} /\ late = {}
    /\ failures = 0

\* Request r goes on to w.
Goes(r, w) == work' = [work EXCEPT ![r] = w]
Begins(r, w) == work[r] = Rest /\ Goes(r, w)

-----------------------------------------------------------------------------
(* login, refresh, logout.                                                 *)

\* findOne and verifyPassword.
LoginFind(r, b) ==
    /\ Begins(r, [at |-> "banCheck", by |-> b, auth |-> epoch, from |-> None,
                  late |-> FALSE])
    /\ UNCHANGED <<store, account, links, cookie, held, revoked, failures>>

LoginBanCheck(r) ==
    /\ work[r].at = "banCheck"
    /\ Goes(r, IF banned # None THEN Rest ELSE [work[r] EXCEPT !.at = "issue"])
    /\ UNCHANGED <<store, account, links, cookie, held, revoked, failures>>

\* The cookie leaves with the request and is looked up later.
RefreshSend(r, b) ==
    /\ cookie[b] # None
    /\ Begins(r, [at |-> "sent", by |-> b, from |-> cookie[b]])
    /\ UNCHANGED <<store, account, links, cookie, held, revoked, failures>>

\* rotateRefreshToken's findOne, which remembers how long the token had left.
RefreshFind(r) ==
    /\ work[r].at = "sent"
    /\ LET s == work[r].from
       IN  Goes(r, IF Valid(s)
                     THEN [at |-> "issue", by |-> work[r].by, auth |-> auth[s],
                           from |-> s, late |-> s \in late,
                           shorten |-> session[s] = "live"]
                     ELSE Rest)
    /\ UNCHANGED <<store, account, links, cookie, held, revoked, failures>>

\* issueRefreshToken, for a login or a rotation.
Issue(r) ==
    /\ work[r].at = "issue"
    /\ LET w == work[r]
           s == Cardinality(Issued) + 1
       IN  /\ s \in Session
           /\ session' = [session EXCEPT ![s] = "live"]
           /\ auth' = [auth EXCEPT ![s] = w.auth]
           /\ late' = IF w.late THEN late \union {s} ELSE late
           /\ Goes(r, [at |-> IF w.from # None /\ w.shorten
                                THEN "shorten" ELSE "answer",
                       by |-> w.by, from |-> w.from, new |-> s])
    /\ UNCHANGED <<account, links, cookie, held, revoked, failures>>

\* Mutant: the outgoing token ends with its rotation.
ShortenToNothing(r) ==
    /\ work[r].at = "shorten"
    /\ session' = [session EXCEPT ![work[r].from] = "gone"]
    /\ Goes(r, [work[r] EXCEPT !.at = "answer"])
    /\ UNCHANGED <<auth, late, account, links, cookie, held, revoked, failures>>

\* save(): a document deleted meanwhile makes it throw, and nobody is told the
\* token that was just issued.
Shorten(r) ==
    /\ work[r].at = "shorten"
    /\ IF Valid(work[r].from)
         THEN /\ session' = [session EXCEPT ![work[r].from] = "grace"]
              /\ Goes(r, [work[r] EXCEPT !.at = "answer"])
         ELSE session' = session /\ Goes(r, Rest)
    /\ UNCHANGED <<auth, late, account, links, cookie, held, revoked, failures>>

\* Set-Cookie arrives.
Answer(r) ==
    /\ work[r].at = "answer"
    /\ cookie' = [cookie EXCEPT ![work[r].by] = work[r].new]
    /\ held' = held \union {work[r].new}
    /\ Goes(r, Rest)
    /\ UNCHANGED <<store, account, links, revoked, failures>>

LogoutSend(r, b) ==
    /\ Begins(r, [at |-> "logout", by |-> b, from |-> cookie[b]])
    /\ UNCHANGED <<store, account, links, cookie, held, revoked, failures>>

\* revokeRefreshToken, for the token presented only.
Logout(r) ==
    /\ work[r].at = "logout"
    /\ LET s == work[r].from
       IN  IF s = None THEN UNCHANGED <<session, revoked>>
           ELSE /\ session' = [session EXCEPT ![s] = "gone"]
                /\ revoked' = revoked \union {s}
    /\ Goes(r, [at |-> "clear", by |-> work[r].by])
    /\ UNCHANGED <<auth, late, account, links, cookie, held, failures>>

\* clearRefreshCookie arrives.
ClearCookie(r) ==
    /\ work[r].at = "clear"
    /\ cookie' = [cookie EXCEPT ![work[r].by] = None]
    /\ Goes(r, Rest)
    /\ UNCHANGED <<store, account, links, held, revoked, failures>>

\* A grace window passes.  It is longer than any request takes.
GraceEnds(s) ==
    /\ session[s] = "grace"
    /\ \A r \in Requests :
          ~(work[r].at \in {"sent", "issue", "shorten", "answer"} /\ work[r].from = s)
    /\ session' = [session EXCEPT ![s] = "gone"]
    /\ UNCHANGED <<auth, late, account, links, cookie, work, held, revoked, failures>>

-----------------------------------------------------------------------------
(* Reset links: requestPasswordReset, issueAuthToken, resetPassword.        *)

RequestReset(r) ==
    /\ banned = None
    /\ Begins(r, [at |-> "dropLinks"])
    /\ UNCHANGED <<store, account, links, cookie, held, revoked, failures>>

\* Mutant: the earlier links are left alone.
DropLinksNot(r) ==
    /\ work[r].at = "dropLinks"
    /\ Goes(r, [at |-> "createLink", since |-> Cardinality(Mailed)])
    /\ UNCHANGED <<store, account, links, cookie, held, revoked, failures>>

DropLinks(r) ==
    /\ work[r].at = "dropLinks"
    /\ link' = [l \in Link |-> IF link[l] = "live" THEN "gone" ELSE link[l]]
    /\ Goes(r, [at |-> "createLink", since |-> Cardinality(Mailed)])
    /\ UNCHANGED <<store, account, since, cookie, held, revoked, failures>>

CreateLink(r) ==
    /\ work[r].at = "createLink"
    /\ LET l == Cardinality(Mailed) + 1
       IN  /\ l \in Link
           /\ link' = [link EXCEPT ![l] = "live"]
           /\ since' = [since EXCEPT ![l] = work[r].since]
    /\ Goes(r, Rest)
    /\ UNCHANGED <<store, account, cookie, held, revoked, failures>>

LinkExpires(l) ==
    /\ link[l] = "live"
    /\ link' = [link EXCEPT ![l] = "gone"]
    /\ UNCHANGED <<store, account, since, cookie, work, held, revoked, failures>>

\* consumeAuthToken finds and deletes in one operation.
Consume(r, b) ==
    \E l \in Link :
      /\ link[l] = "live"
      /\ link' = [link EXCEPT ![l] = "gone"]
      /\ Begins(r, [at |-> "resetBanCheck", by |-> b])
      /\ UNCHANGED <<store, account, since, cookie, held, revoked, failures>>

ResetBanCheck(r) ==
    /\ work[r].at = "resetBanCheck"
    /\ Goes(r, IF banned # None THEN Rest ELSE [work[r] EXCEPT !.at = "save"])
    /\ UNCHANGED <<store, account, links, cookie, held, revoked, failures>>

\* The administrator's password form comes in here.
AdminPassword(r) ==
    /\ Begins(r, [at |-> "save", by |-> None])
    /\ UNCHANGED <<store, account, links, cookie, held, revoked, failures>>

SavePassword(r) ==
    /\ work[r].at = "save"
    /\ epoch < MaxChanges
    /\ epoch' = epoch + 1
    /\ Goes(r, [at |-> "revoke", by |-> work[r].by, change |-> epoch'])
    /\ UNCHANGED <<store, banned, recovered, links, cookie, held, revoked, failures>>

\* An upsert: the first ban's row stays.
Ban(r) ==
    /\ banned # None \/ epoch < MaxChanges
    /\ epoch' = IF banned # None THEN epoch ELSE epoch + 1
    /\ banned' = IF banned # None THEN banned ELSE epoch'
    /\ Begins(r, [at |-> "revoke", by |-> None, change |-> banned'])
    /\ UNCHANGED <<store, recovered, links, cookie, held, revoked, failures>>

Unban ==
    /\ banned # None
    /\ banned' = None
    /\ UNCHANGED <<store, epoch, recovered, links, cookie, work, held, revoked,
                   failures>>

\* Mutant: tokens in their grace window are left to expire.
SessionsOfUserButGrace == {s \in Session : session[s] = "live"}

SessionsOfUser == {s \in Session : Valid(s)}

\* revokeAllSessions.  Whoever is about to issue will do so all the same.
RevokeAll(r) ==
    /\ work[r].at = "revoke"
    /\ session' = [s \in Session |->
                     IF s \in SessionsOfUser THEN "gone" ELSE session[s]]
    /\ revoked' = revoked \union SessionsOfUser
    /\ recovered' = IF work[r].change > recovered THEN work[r].change ELSE recovered
    /\ work' = [q \in Requests |->
                  CASE q = r /\ work[r].by # None -> [at |-> "clear", by |-> work[r].by]
                    [] q = r /\ work[r].by = None -> Rest
                    [] work[q].at \in {"banCheck", "issue"} ->
                         [work[q] EXCEPT !.late = TRUE]
                    [] OTHER -> work[q]]
    /\ UNCHANGED <<auth, late, epoch, banned, links, cookie, held, failures>>

\* A database error, a restart, or a client that went away.  A request that has
\* changed nothing yet leaves no trace.
Fail(r) ==
    /\ work[r].at \notin {"rest", "banCheck", "sent", "issue", "logout", "dropLinks"}
    /\ failures < MaxFailures
    /\ failures' = failures + 1
    /\ Goes(r, Rest)
    /\ UNCHANGED <<store, account, links, cookie, held, revoked>>

-----------------------------------------------------------------------------

Next ==
    \/ \E r \in Requests, b \in Browsers :
          LoginFind(r, b) \/ RefreshSend(r, b) \/ LogoutSend(r, b) \/ Consume(r, b)
    \/ \E r \in Requests :
          \/ LoginBanCheck(r) \/ RefreshFind(r) \/ Issue(r) \/ Shorten(r)
          \/ Answer(r) \/ Logout(r) \/ ClearCookie(r)
          \/ RequestReset(r) \/ DropLinks(r) \/ CreateLink(r)
          \/ ResetBanCheck(r) \/ AdminPassword(r) \/ SavePassword(r)
          \/ Ban(r) \/ RevokeAll(r) \/ Fail(r)
    \/ \E s \in Session : GraceEnds(s)
    \/ \E l \in Link : LinkExpires(l)
    \/ Unban

Spec == Init /\ [][Next]_vars

-----------------------------------------------------------------------------
(* Properties.                                                             *)

Usable == {s \in held : Valid(s)}

\* Once a reset, an administrator's new password or a ban has deleted the
\* sessions, no session works that was begun before the change, and under a ban
\* none at all; the exception is what a login or rotation that had already been
\* let through issues after the deletion, and what is rotated from it.
RevocationIsComplete ==
    /\ TypeOK
    /\ \A s \in Usable \ late : auth[s] >= recovered
    /\ banned # None /\ recovered >= banned => Usable \subseteq late

\* Tabs refreshing at the same time do not sign each other out: a token that a
\* browser keeps, or that a refresh on its way presents, works unless it was
\* revoked ("so two tabs refreshing simultaneously don't log each other out").
TabsStaySignedIn ==
    failures = 0 =>
      \A s \in {cookie[b] : b \in Browsers}
               \union {work[r].from : r \in {q \in Requests : work[q].at = "sent"}} :
        s # None /\ s \notin revoked => Valid(s)

\* Asking for a new link makes the old one stop working (issueAuthToken): two
\* links work together only if the older was created between the two calls of
\* the request for the newer one.
OlderLinksStop ==
    \A l, m \in Link :
      l < m /\ link[l] = "live" /\ link[m] = "live" => l > since[m]

=============================================================================
