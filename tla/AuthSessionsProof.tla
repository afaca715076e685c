-------------------------- MODULE AuthSessionsProof --------------------------
(***************************************************************************)
(* Proofs about AuthSessions: a new reset link ends the older ones, a       *)
(* revocation ends every session that was begun before the change it seals, *)
(* and tabs that refresh together do not sign each other out.               *)
(***************************************************************************)
EXTENDS AuthSessions, FiniteSetTheorems, TLAPS

-----------------------------------------------------------------------------
(* The inductive invariant.                                                *)

\* Where a request can be, and what it carries there.
Resting == [at : {"rest"}]
LoggingIn == [at : {"banCheck", "issue"}, by : Browsers, auth : 0..MaxChanges,
              from : {None}, late : BOOLEAN]
Sent == [at : {"sent"}, by : Browsers, from : Session]
Rotating == [at : {"issue"}, by : Browsers, auth : 0..MaxChanges, from : Session,
             late : BOOLEAN, shorten : BOOLEAN]
Answering == [at : {"shorten", "answer"}, by : Browsers, from : Session \union {None},
              new : Session]
LoggingOut == [at : {"logout"}, by : Browsers, from : Session \union {None}]
Clearing == [at : {"clear"}, by : Browsers]
Dropping == [at : {"dropLinks"}]
Creating == [at : {"createLink"}, since : 0..MaxLinks]
Saving == [at : {"resetBanCheck", "save"}, by : Browsers \union {None}]
Revoking == [at : {"revoke"}, by : Browsers \union {None}, change : 0..MaxChanges]

Work == Resting \union LoggingIn \union Sent \union Rotating \union Answering
            \union LoggingOut \union Clearing \union Dropping \union Creating
            \union Saving \union Revoking
WorkOK == work \in [Requests -> Work]

At(r, places) == work[r].at \in places

\* Sessions and links are numbered without gaps.
Numbered == /\ \E n \in 0..MaxSessions : Issued = 1..n
            /\ \E n \in 0..MaxLinks : Mailed = 1..n

\* A request that has dropped the links has only later ones beside its own.
CreateInv ==
    \A r \in Requests : At(r, {"createLink"}) =>
        /\ work[r].since <= Cardinality(Mailed)
        /\ \A l \in Link : link[l] = "live" => l > work[r].since

\* The ban in force has deleted the sessions.
Barred == banned # None /\ recovered >= banned

\* A session that works, and a login or rotation about to issue one, came after
\* what the last revocation sealed.
RevokedInv ==
    /\ \A r \in Requests : At(r, {"revoke"}) => work[r].change <= epoch
    /\ \A r \in Requests : At(r, {"banCheck", "issue"}) /\ ~work[r].late =>
          /\ work[r].auth >= recovered
          /\ At(r, {"issue"}) => ~Barred
    /\ \A s \in Session : Valid(s) /\ s \notin late => auth[s] >= recovered /\ ~Barred

\* A client presents what it was given; what is about to be handed out is new, and
\* one request hands it out.
HeldInv ==
    /\ \A b \in Browsers : cookie[b] \in held \union {None}
    /\ \A r \in Requests : At(r, {"sent", "issue", "shorten", "answer", "logout"}) =>
          work[r].from \in held \union {None}
    /\ \A r \in Requests : At(r, {"shorten"}) => work[r].from # None
    /\ \A r \in Requests : At(r, {"shorten", "answer"}) => work[r].new \in Issued \ held
    /\ \A r, q \in Requests :
          At(r, {"shorten", "answer"}) /\ At(q, {"shorten", "answer"})
              /\ work[r].new = work[q].new => r = q

\* A browser keeps a token, presents it or is about to be given it.
Has(b, s) ==
    \/ cookie[b] = s
    \/ \E r \in Requests : /\ At(r, {"sent", "issue", "shorten", "answer"})
                           /\ work[r].by = b /\ work[r].from = s
    \/ \E r \in Requests : /\ At(r, {"shorten", "answer"})
                           /\ work[r].by = b /\ work[r].new = s

\* No two browsers share a token.
OwnerInv == \A s \in Session, b, c \in Browsers : Has(b, s) /\ Has(c, s) => b = c

\* A token in its grace window that is still a browser's cookie has its successor
\* on the way to that browser; one on its way works, unless it was revoked.
GraceInv ==
    /\ \A r \in Requests : At(r, {"shorten", "answer"}) =>
          \/ session[work[r].new] = "live"
          \/ session[work[r].new] = "gone" /\ work[r].new \in revoked
    /\ failures = 0 =>
          \A b \in Browsers : cookie[b] # None /\ session[cookie[b]] = "grace" =>
             \E r \in Requests : /\ At(r, {"answer"})
                                 /\ work[r].by = b /\ work[r].from = cookie[b]

IInv ==
    /\ TypeOK /\ WorkOK /\ Numbered
    /\ CreateInv /\ OlderLinksStop
    /\ RevokedInv
    /\ HeldInv /\ OwnerInv /\ GraceInv /\ TabsStaySignedIn

-----------------------------------------------------------------------------
(* Where requests are.                                                     *)

LEMMA WorkShape ==
    ASSUME WorkOK, NEW r \in Requests
    PROVE  /\ work[r].at = "banCheck" => work[r] \in LoggingIn
           /\ work[r].at = "sent" => work[r] \in Sent
           /\ work[r].at = "issue" => work[r] \in LoggingIn \union Rotating
           /\ work[r].at \in {"shorten", "answer"} => work[r] \in Answering
           /\ work[r].at = "logout" => work[r] \in LoggingOut
           /\ work[r].at = "clear" => work[r] \in Clearing
           /\ work[r].at = "createLink" => work[r] \in Creating
           /\ work[r].at \in {"resetBanCheck", "save"} => work[r] \in Saving
           /\ work[r].at = "revoke" => work[r] \in Revoking
<1>1. work[r] \in Work
    BY DEF WorkOK
<1>2. /\ work[r] \in Resting => work[r].at = "rest"
      /\ work[r] \in LoggingIn => work[r].at \in {"banCheck", "issue"}
      /\ work[r] \in Sent => work[r].at = "sent"
      /\ work[r] \in Rotating => work[r].at = "issue"
      /\ work[r] \in Answering => work[r].at \in {"shorten", "answer"}
      /\ work[r] \in LoggingOut => work[r].at = "logout"
      /\ work[r] \in Clearing => work[r].at = "clear"
      /\ work[r] \in Dropping => work[r].at = "dropLinks"
      /\ work[r] \in Creating => work[r].at = "createLink"
      /\ work[r] \in Saving => work[r].at \in {"resetBanCheck", "save"}
      /\ work[r] \in Revoking => work[r].at = "revoke"
    BY DEF Resting, LoggingIn, Sent, Rotating, Answering, LoggingOut, Clearing, Dropping,
           Creating, Saving, Revoking
<1> QED
    BY <1>1, <1>2 DEF Work

LEMMA GoesOn ==
    ASSUME WorkOK, NEW r \in Requests, NEW w \in Work, Goes(r, w)
    PROVE  WorkOK' /\ work'[r] = w /\ \A q \in Requests \ {r} : work'[q] = work[q]
BY DEF WorkOK, Goes

LEMMA NextNumber ==
    ASSUME Numbered
    PROVE  /\ Cardinality(Issued) \in 0..MaxSessions /\ Issued = 1..Cardinality(Issued)
           /\ Cardinality(Mailed) \in 0..MaxLinks /\ Mailed = 1..Cardinality(Mailed)
<1>1. \A n \in Nat : Cardinality(1..n) = n
    BY FS_Interval
<1>2. PICK n \in 0..MaxSessions : Issued = 1..n
    BY DEF Numbered
<1>3. PICK m \in 0..MaxLinks : Mailed = 1..m
    BY DEF Numbered
<1> QED
    BY <1>1, <1>2, <1>3, AuthAssumption

-----------------------------------------------------------------------------
(* The proof that each step keeps each part; the steps are treated alike.  *)

LEMMA InitIInv == Init => IInv
<1> SUFFICES ASSUME Init PROVE IInv
    OBVIOUS
<1> USE AuthAssumption DEF Init, None
<1>1. Issued = {} /\ Mailed = {}
    BY DEF Issued, Mailed
<1>2. TypeOK
    BY <1>1 DEF TypeOK
<1>3. \A r \in Requests : work[r].at = "rest"
    BY DEF Rest
<1>4. WorkOK
    BY DEF WorkOK, Work, Resting, Rest
<1>5. Numbered
    <2>1. 1..0 = {} /\ 0 \in 0..MaxSessions /\ 0 \in 0..MaxLinks
        OBVIOUS
    <2> QED
        BY <1>1, <2>1 DEF Numbered
<1>6. CreateInv /\ OlderLinksStop
    BY <1>3 DEF CreateInv, OlderLinksStop, At
<1>7. RevokedInv
    BY <1>3 DEF RevokedInv, At, Valid
<1>8. HeldInv /\ OwnerInv
    BY <1>3 DEF HeldInv, OwnerInv, Has, At, Session
<1>9. GraceInv /\ TabsStaySignedIn
    BY <1>3 DEF GraceInv, TabsStaySignedIn, At
<1> QED
    BY <1>2, <1>4, <1>5, <1>6, <1>7, <1>8, <1>9 DEF IInv

LEMMA WorkStep ==
    TypeOK /\ WorkOK /\ Numbered /\ HeldInv /\ RevokedInv /\ [Next]_vars => WorkOK'
<1> SUFFICES ASSUME TypeOK, WorkOK, Numbered, HeldInv, RevokedInv, [Next]_vars PROVE WorkOK'
    OBVIOUS
<1>0. Rest \in Work
    BY DEF Work, Rest, Resting
<1>1. ASSUME NEW r \in Requests, NEW b \in Browsers, LoginFind(r, b) PROVE WorkOK'
    <2>1. [at |-> "banCheck", by |-> b, auth |-> epoch, from |-> None, late |-> FALSE]
              \in LoggingIn
        BY DEF LoggingIn, TypeOK
    <2> QED
        BY <1>1, <2>1, GoesOn DEF LoginFind, Begins, Work
<1>2. ASSUME NEW r \in Requests, NEW b \in Browsers, RefreshSend(r, b) PROVE WorkOK'
    <2>1. [at |-> "sent", by |-> b, from |-> cookie[b]] \in Sent
        BY <1>2 DEF RefreshSend, Sent, TypeOK, Issued
    <2> QED
        BY <1>2, <2>1, GoesOn DEF RefreshSend, Begins, Work
<1>3. ASSUME NEW r \in Requests, NEW b \in Browsers, LogoutSend(r, b) PROVE WorkOK'
    <2>1. [at |-> "logout", by |-> b, from |-> cookie[b]] \in LoggingOut
        BY DEF LoggingOut, TypeOK, Issued
    <2> QED
        BY <1>3, <2>1, GoesOn DEF LogoutSend, Begins, Work
<1>4. ASSUME NEW r \in Requests, NEW b \in Browsers, Consume(r, b) PROVE WorkOK'
    <2>1. [at |-> "resetBanCheck", by |-> b] \in Saving
        BY DEF Saving
    <2> QED
        BY <1>4, <2>1, GoesOn DEF Consume, Begins, Work
<1>5. ASSUME NEW r \in Requests, LoginBanCheck(r) PROVE WorkOK'
    <2>1. [work[r] EXCEPT !.at = "issue"] \in LoggingIn
        BY <1>5, WorkShape DEF LoginBanCheck, LoggingIn
    <2> QED
        BY <1>0, <1>5, <2>1, GoesOn DEF LoginBanCheck, Work
<1>6. ASSUME NEW r \in Requests, RefreshFind(r) PROVE WorkOK'
    <2> DEFINE s == work[r].from
               w == [at |-> "issue", by |-> work[r].by, auth |-> auth[s], from |-> s,
                     late |-> s \in late, shorten |-> session[s] = "live"]
    <2>1. work[r] \in Sent
        BY <1>6, WorkShape DEF RefreshFind
    <2>2. work[r].by \in Browsers /\ s \in Session /\ auth[s] \in 0..MaxChanges
        BY <2>1 DEF Sent, TypeOK
    <2>3. (s \in late) \in BOOLEAN /\ (session[s] = "live") \in BOOLEAN
        OBVIOUS
    <2>4. w \in Rotating
        BY <2>2, <2>3 DEF Rotating
    <2>5. Goes(r, IF Valid(s) THEN w ELSE Rest)
        BY <1>6, Zenon DEF RefreshFind
    <2>6. (IF Valid(s) THEN w ELSE Rest) \in Work
        BY <1>0, <2>4 DEF Work
    <2> HIDE DEF w
    <2> QED
        BY <2>5, <2>6, GoesOn
<1>7. ASSUME NEW r \in Requests, Issue(r) PROVE WorkOK'
    <2> DEFINE s == Cardinality(Issued) + 1
               at == IF work[r].from # None /\ work[r].shorten THEN "shorten" ELSE "answer"
               w == [at |-> at, by |-> work[r].by, from |-> work[r].from, new |-> s]
    <2>1. work[r].by \in Browsers /\ work[r].from \in Session \union {None}
        BY <1>7, WorkShape DEF Issue, LoggingIn, Rotating
    <2>2. w \in Answering
        BY <1>7, <2>1 DEF Issue, Answering
    <2>3. Goes(r, w)
        BY <1>7 DEF Issue
    <2> QED
        BY <2>2, <2>3, GoesOn DEF Work
<1>8. ASSUME NEW r \in Requests, Shorten(r) PROVE WorkOK'
    <2>1. [work[r] EXCEPT !.at = "answer"] \in Answering
        BY <1>8, WorkShape DEF Shorten, Answering
    <2> QED
        BY <1>0, <1>8, <2>1, GoesOn DEF Shorten, Work
<1>9. ASSUME NEW r \in Requests, Answer(r) \/ ClearCookie(r) \/ CreateLink(r) \/ Fail(r)
      PROVE  WorkOK'
    BY <1>0, <1>9, GoesOn DEF Answer, ClearCookie, CreateLink, Fail
<1>10. ASSUME NEW r \in Requests, Logout(r) PROVE WorkOK'
    <2>1. [at |-> "clear", by |-> work[r].by] \in Clearing
        BY <1>10, WorkShape DEF Logout, LoggingOut, Clearing
    <2> QED
        BY <1>10, <2>1, GoesOn DEF Logout, Work
<1>11. ASSUME NEW r \in Requests, RequestReset(r) PROVE WorkOK'
    <2>1. [at |-> "dropLinks"] \in Dropping
        BY DEF Dropping
    <2> QED
        BY <1>11, <2>1, GoesOn DEF RequestReset, Begins, Work
<1>12. ASSUME NEW r \in Requests, DropLinks(r) PROVE WorkOK'
    <2>1. [at |-> "createLink", since |-> Cardinality(Mailed)] \in Creating
        BY NextNumber DEF Creating
    <2> QED
        BY <1>12, <2>1, GoesOn DEF DropLinks, Work
<1>13. ASSUME NEW r \in Requests, ResetBanCheck(r) PROVE WorkOK'
    <2>1. [work[r] EXCEPT !.at = "save"] \in Saving
        BY <1>13, WorkShape DEF ResetBanCheck, Saving
    <2> QED
        BY <1>0, <1>13, <2>1, GoesOn DEF ResetBanCheck, Work
<1>14. ASSUME NEW r \in Requests, AdminPassword(r) PROVE WorkOK'
    <2>1. [at |-> "save", by |-> None] \in Saving
        BY DEF Saving
    <2> QED
        BY <1>14, <2>1, GoesOn DEF AdminPassword, Begins, Work
<1>15. ASSUME NEW r \in Requests, SavePassword(r) PROVE WorkOK'
    <2>1. [at |-> "revoke", by |-> work[r].by, change |-> epoch'] \in Revoking
        BY <1>15, WorkShape, AuthAssumption DEF SavePassword, Saving, Revoking, TypeOK
    <2> QED
        BY <1>15, <2>1, GoesOn DEF SavePassword, Work
<1>16. ASSUME NEW r \in Requests, Ban(r) PROVE WorkOK'
    <2>1. banned' \in 0..MaxChanges
        BY <1>16, AuthAssumption DEF Ban, TypeOK
    <2>2. [at |-> "revoke", by |-> None, change |-> banned'] \in Revoking
        BY <2>1 DEF Revoking
    <2> QED
        BY <1>16, <2>2, GoesOn DEF Ban, Begins, Work
<1>17. ASSUME NEW r \in Requests, RevokeAll(r) PROVE WorkOK'
    <2>1. ASSUME NEW q \in Requests PROVE work'[q] \in Work
        <3>1. CASE q = r /\ work[r].by # None
            <4>1. [at |-> "clear", by |-> work[r].by] \in Clearing
                BY <1>17, <3>1, WorkShape DEF RevokeAll, Revoking, Clearing
            <4> QED
                BY <1>17, <3>1, <4>1 DEF RevokeAll, Work
        <3>2. CASE q = r /\ work[r].by = None
            BY <1>0, <1>17, <3>2 DEF RevokeAll
        <3>3. CASE q # r /\ work[q].at \in {"banCheck", "issue"}
            <4>1. [work[q] EXCEPT !.late = TRUE] \in LoggingIn \union Rotating
                BY <3>3, WorkShape DEF LoggingIn, Rotating
            <4> QED
                BY <1>17, <3>3, <4>1 DEF RevokeAll, Work
        <3>4. CASE q # r /\ work[q].at \notin {"banCheck", "issue"}
            BY <1>17, <3>4 DEF RevokeAll, WorkOK
        <3> QED
            BY <3>1, <3>2, <3>3, <3>4
    <2> QED
        BY <1>17, <2>1 DEF RevokeAll, WorkOK
<1>18. ASSUME UNCHANGED work PROVE WorkOK'
    BY <1>18 DEF WorkOK
<1> QED
    BY <1>1, <1>2, <1>3, <1>4, <1>5, <1>6, <1>7, <1>8, <1>9, <1>10, <1>11, <1>12, <1>13,
       <1>14, <1>15, <1>16, <1>17, <1>18 DEF Next, vars, GraceEnds, LinkExpires, Unban

-----------------------------------------------------------------------------
(* Sessions and links.                                                     *)

\* Only Issue makes a session, and it takes the next number.
LEMMA IssuedStep ==
    ASSUME TypeOK, WorkOK, Numbered, HeldInv, [Next]_vars
    PROVE  /\ Issued \subseteq Issued'
           /\ Issued' \subseteq Issued \union {Cardinality(Issued) + 1}
           /\ Cardinality(Issued) + 1 \notin Issued
           /\ (\A r \in Requests : ~Issue(r)) => Issued' = Issued
<1>1. Cardinality(Issued) + 1 \notin Issued
    BY NextNumber, AuthAssumption
<1>2. ASSUME NEW r \in Requests, Issue(r)
      PROVE  Issued' = Issued \union {Cardinality(Issued) + 1}
    BY <1>2 DEF Issue, Issued, TypeOK
<1>3. ASSUME \A s \in Session : session'[s] = "none" <=> session[s] = "none"
      PROVE  Issued' = Issued
    BY <1>3 DEF Issued
<1>4. ASSUME NEW r \in Requests, Shorten(r) PROVE Issued' = Issued
    BY <1>3, <1>4 DEF Shorten, Valid, TypeOK
<1>5. ASSUME NEW r \in Requests, Logout(r) PROVE Issued' = Issued
    <2>1. work[r].from # None => session[work[r].from] # "none"
        BY <1>5 DEF Logout, HeldInv, At, TypeOK, Issued
    <2> QED
        BY <1>3, <1>5, <2>1 DEF Logout, TypeOK
<1>6. ASSUME NEW r \in Requests, RevokeAll(r) PROVE Issued' = Issued
    BY <1>3, <1>6 DEF RevokeAll, SessionsOfUser, Valid
<1>7. ASSUME NEW s \in Session, GraceEnds(s) PROVE Issued' = Issued
    BY <1>3, <1>7 DEF GraceEnds, TypeOK
<1>8. UNCHANGED session => Issued' = Issued
    BY DEF Issued
<1>9. (\A r \in Requests : ~Issue(r)) => Issued' = Issued
    BY <1>4, <1>5, <1>6, <1>7, <1>8 DEF Next, vars, store, LoginFind, RefreshSend, LogoutSend,
       Consume, LoginBanCheck, RefreshFind, Answer, ClearCookie, RequestReset, DropLinks,
       CreateLink, ResetBanCheck, AdminPassword, SavePassword, Ban, Fail, LinkExpires, Unban
<1> QED
    BY <1>1, <1>2, <1>9

LEMMA NumberedStep ==
    TypeOK /\ WorkOK /\ Numbered /\ HeldInv /\ [Next]_vars => Numbered'
<1> SUFFICES ASSUME TypeOK, WorkOK, Numbered, HeldInv, [Next]_vars PROVE Numbered'
    OBVIOUS
<1>1. \E n \in 0..MaxSessions : Issued' = 1..n
    <2>1. CASE Issued' = Issued
        BY <2>1 DEF Numbered
    <2>2. CASE Issued' # Issued
        <3> DEFINE n == Cardinality(Issued)
        <3>1. Issued' = Issued \union {n + 1}
            BY <2>2, IssuedStep
        <3>2. Issued = 1..n /\ n \in 0..MaxSessions
            BY NextNumber
        <3>3. n + 1 \in 1..MaxSessions
            BY <3>1 DEF Issued, Session
        <3>4. Issued' = 1..(n + 1)
            BY <3>1, <3>2
        <3> QED
            BY <3>3, <3>4
    <2> QED
        BY <2>1, <2>2
<1>2. \E n \in 0..MaxLinks : Mailed' = 1..n
    <2>1. ASSUME NEW r \in Requests, CreateLink(r) PROVE \E n \in 0..MaxLinks : Mailed' = 1..n
        <3> DEFINE n == Cardinality(Mailed)
        <3>1. Mailed = 1..n /\ n \in 0..MaxLinks
            BY NextNumber
        <3>2. Mailed' = Mailed \union {n + 1} /\ n + 1 \in 1..MaxLinks
            BY <2>1 DEF CreateLink, Mailed, TypeOK, Link
        <3>3. Mailed' = 1..(n + 1)
            BY <3>1, <3>2
        <3> QED
            BY <3>2, <3>3
    <2>2. ASSUME \A l \in Link : link'[l] = "none" <=> link[l] = "none"
          PROVE  \E n \in 0..MaxLinks : Mailed' = 1..n
        <3>1. Mailed' = Mailed
            BY <2>2 DEF Mailed
        <3> QED
            BY <3>1 DEF Numbered
    <2>3. ASSUME NEW r \in Requests, DropLinks(r) PROVE \E n \in 0..MaxLinks : Mailed' = 1..n
        BY <2>2, <2>3 DEF DropLinks
    <2>4. ASSUME NEW r \in Requests, NEW b \in Browsers, Consume(r, b)
          PROVE  \E n \in 0..MaxLinks : Mailed' = 1..n
        BY <2>2, <2>4 DEF Consume, TypeOK
    <2>5. ASSUME NEW l \in Link, LinkExpires(l) PROVE \E n \in 0..MaxLinks : Mailed' = 1..n
        BY <2>2, <2>5 DEF LinkExpires, TypeOK
    <2>6. UNCHANGED link => \E n \in 0..MaxLinks : Mailed' = 1..n
        BY <2>2
    <2> QED
        BY <2>1, <2>3, <2>4, <2>5, <2>6 DEF Next, vars, links, LoginFind, RefreshSend,
           LogoutSend, LoginBanCheck, RefreshFind, Issue, Shorten, Answer, Logout, ClearCookie,
           RequestReset, ResetBanCheck, AdminPassword, SavePassword, Ban, RevokeAll, Fail,
           GraceEnds, Unban
<1> QED
    BY <1>1, <1>2 DEF Numbered, Issued, Mailed

LEMMA TypeStep ==
    TypeOK /\ WorkOK /\ Numbered /\ HeldInv /\ RevokedInv /\ [Next]_vars => TypeOK'
<1> SUFFICES ASSUME TypeOK, WorkOK, Numbered, HeldInv, RevokedInv, [Next]_vars PROVE TypeOK'
    OBVIOUS
<1>0. Issued \subseteq Issued'
    BY IssuedStep
<1>k. ASSUME UNCHANGED <<session, auth, late, link, since, epoch, banned, recovered, cookie,
                         held, revoked, failures>> PROVE TypeOK'
    BY <1>k DEF TypeOK, Issued
<1>1. ASSUME NEW r \in Requests, Issue(r) PROVE TypeOK'
    <2> DEFINE s == Cardinality(Issued) + 1
    <2>1. s \in Session /\ s \in Issued'
        BY <1>1 DEF Issue, Issued, TypeOK
    <2>2. work[r].auth \in 0..MaxChanges
        BY <1>1, WorkShape DEF Issue, LoggingIn, Rotating
    <2>3. /\ session' \in [Session -> {"none", "live", "grace", "gone"}]
          /\ auth' \in [Session -> 0..MaxChanges]
        BY <1>1, <2>1, <2>2 DEF Issue, TypeOK
    <2>4. late' \subseteq Issued'
        BY <1>0, <1>1, <2>1 DEF Issue, TypeOK
    <2>5. UNCHANGED <<link, since, epoch, banned, recovered, cookie, held, revoked, failures>>
        BY <1>1 DEF Issue, account, links
    <2> QED
        BY <1>0, <2>3, <2>4, <2>5 DEF TypeOK
<1>2. ASSUME NEW r \in Requests, Shorten(r) PROVE TypeOK'
    BY <1>0, <1>2 DEF Shorten, account, links, TypeOK
<1>3. ASSUME NEW r \in Requests, Answer(r) PROVE TypeOK'
    <2>1. work[r].new \in Issued
        BY <1>3 DEF Answer, HeldInv, At
    <2>2. UNCHANGED <<session, auth, late, link, since, epoch, banned, recovered, revoked, failures>>
        BY <1>3 DEF Answer, store, account, links
    <2>3. Issued' = Issued
        BY <2>2 DEF Issued
    <2> QED
        BY <1>3, <2>1, <2>2, <2>3 DEF Answer, TypeOK
<1>4. ASSUME NEW r \in Requests, Logout(r) PROVE TypeOK'
    <2>1. work[r].from \in Issued \union {None}
        BY <1>4 DEF Logout, HeldInv, At, TypeOK
    <2>2. UNCHANGED <<auth, late, link, since, epoch, banned, recovered, cookie, held, failures>>
        BY <1>4 DEF Logout, account, links
    <2>3. /\ session' \in [Session -> {"none", "live", "grace", "gone"}]
          /\ revoked' \subseteq Issued
        BY <1>4, <2>1 DEF Logout, TypeOK
    <2> QED
        BY <1>0, <2>2, <2>3 DEF TypeOK
<1>5. ASSUME NEW r \in Requests, ClearCookie(r) PROVE TypeOK'
    <2>1. UNCHANGED <<session, auth, late, link, since, epoch, banned, recovered, held, revoked,
                      failures>>
        BY <1>5 DEF ClearCookie, store, account, links
    <2>2. Issued' = Issued
        BY <2>1 DEF Issued
    <2> QED
        BY <1>5, <2>1, <2>2 DEF ClearCookie, TypeOK
<1>6. ASSUME NEW s \in Session, GraceEnds(s) PROVE TypeOK'
    BY <1>0, <1>6 DEF GraceEnds, account, links, TypeOK
<1>7. ASSUME UNCHANGED <<session, auth, late, epoch, banned, recovered, cookie, held, revoked,
                         failures>>,
             link' \in [Link -> {"none", "live", "gone"}], since' \in [Link -> 0..MaxLinks]
      PROVE  TypeOK'
    BY <1>0, <1>7 DEF TypeOK
<1>8. ASSUME NEW r \in Requests, DropLinks(r) PROVE TypeOK'
    BY <1>7, <1>8 DEF DropLinks, store, account, TypeOK
<1>9. ASSUME NEW r \in Requests, CreateLink(r) PROVE TypeOK'
    <2>1. work[r].since \in 0..MaxLinks
        BY <1>9, WorkShape DEF CreateLink, Creating
    <2> QED
        BY <1>7, <1>9, <2>1 DEF CreateLink, store, account, TypeOK
<1>10. ASSUME NEW l \in Link, LinkExpires(l) PROVE TypeOK'
    BY <1>7, <1>10 DEF LinkExpires, store, account, TypeOK
<1>11. ASSUME NEW r \in Requests, NEW b \in Browsers, Consume(r, b) PROVE TypeOK'
    BY <1>7, <1>11 DEF Consume, store, account, TypeOK
<1>12. ASSUME UNCHANGED <<session, auth, late, link, since, cookie, held, revoked, failures>>,
              epoch' \in 0..MaxChanges, banned' \in 0..epoch', recovered' \in 0..epoch'
       PROVE  TypeOK'
    BY <1>0, <1>12 DEF TypeOK
<1>13. ASSUME NEW r \in Requests, SavePassword(r) PROVE TypeOK'
    <2>1. epoch' \in 0..MaxChanges /\ banned' \in 0..epoch' /\ recovered' \in 0..epoch'
        BY <1>13, AuthAssumption DEF SavePassword, TypeOK
    <2> QED
        BY <1>12, <1>13, <2>1 DEF SavePassword, store, links
<1>14. ASSUME NEW r \in Requests, Ban(r) PROVE TypeOK'
    <2>1. epoch' \in 0..MaxChanges /\ banned' \in 0..epoch' /\ recovered' \in 0..epoch'
        BY <1>14, AuthAssumption DEF Ban, TypeOK
    <2> QED
        BY <1>12, <1>14, <2>1 DEF Ban, store, links
<1>15. ASSUME Unban PROVE TypeOK'
    BY <1>12, <1>15, AuthAssumption DEF Unban, store, links, None, TypeOK
<1>16. ASSUME NEW r \in Requests, RevokeAll(r) PROVE TypeOK'
    <2>1. work[r].change \in 0..epoch
        BY <1>16, WorkShape, AuthAssumption DEF RevokeAll, Revoking, RevokedInv, At, TypeOK
    <2>2. recovered' \in 0..epoch
        BY <1>16, <2>1 DEF RevokeAll, TypeOK
    <2>3. session' \in [Session -> {"none", "live", "grace", "gone"}]
        BY <1>16 DEF RevokeAll, TypeOK
    <2>4. revoked' \subseteq Issued
        BY <1>16 DEF RevokeAll, SessionsOfUser, Valid, Issued, TypeOK
    <2>5. UNCHANGED <<auth, late, epoch, banned, link, since, cookie, held, failures>>
        BY <1>16 DEF RevokeAll, links
    <2> QED
        BY <1>0, <2>2, <2>3, <2>4, <2>5 DEF TypeOK
<1>17. ASSUME NEW r \in Requests, Fail(r) PROVE TypeOK'
    <2>1. failures' \in 0..MaxFailures
        BY <1>17, AuthAssumption DEF Fail, TypeOK
    <2> QED
        BY <1>0, <1>17, <2>1 DEF Fail, store, account, links, TypeOK
<1> QED
    BY <1>k, <1>1, <1>2, <1>3, <1>4, <1>5, <1>6, <1>8, <1>9, <1>10, <1>11, <1>13, <1>14, <1>15,
       <1>16, <1>17 DEF Next, vars, store, account, links, LoginFind, RefreshSend, LogoutSend,
       LoginBanCheck, RefreshFind, RequestReset, ResetBanCheck, AdminPassword

-----------------------------------------------------------------------------
(* Reset links.                                                            *)

LEMMA RevokeAllMoves ==
    ASSUME WorkOK, NEW r \in Requests, RevokeAll(r), NEW q \in Requests
    PROVE  \/ q = r /\ work'[q].at \in {"clear", "rest"}
           \/ work'[q] = work[q] /\ work[q].at \notin {"banCheck", "issue"}
           \/ /\ work[q].at \in {"banCheck", "issue"} /\ work'[q].at = work[q].at
              /\ work'[q].by = work[q].by /\ work'[q].from = work[q].from /\ work'[q].late
<1>1. CASE q = r
    BY <1>1 DEF RevokeAll, Rest
<1>2. CASE q # r /\ work[q].at \in {"banCheck", "issue"}
    <2>1. work'[q] = [work[q] EXCEPT !.late = TRUE]
        BY <1>2 DEF RevokeAll
    <2> QED
        BY <1>2, <2>1, WorkShape DEF LoggingIn, Rotating
<1>3. CASE q # r /\ work[q].at \notin {"banCheck", "issue"}
    BY <1>3 DEF RevokeAll
<1> QED
    BY <1>1, <1>2, <1>3

LEMMA LinksStep ==
    TypeOK /\ WorkOK /\ Numbered /\ CreateInv /\ OlderLinksStop /\ [Next]_vars
        => CreateInv' /\ OlderLinksStop'
<1> SUFFICES ASSUME TypeOK, WorkOK, Numbered, CreateInv, OlderLinksStop, [Next]_vars
             PROVE  CreateInv' /\ OlderLinksStop'
    OBVIOUS
<1> USE DEF At
<1>0. Cardinality(Mailed) \in Nat /\ \A l \in Link : link[l] = "live" => l <= Cardinality(Mailed)
    BY NextNumber, AuthAssumption DEF Mailed
<1>1. ASSUME UNCHANGED since, Mailed' = Mailed, \A l \in Link : link'[l] = "live" => link[l] = "live",
             \A q \in Requests : work'[q].at = "createLink" => work'[q] = work[q]
      PROVE  CreateInv' /\ OlderLinksStop'
    BY <1>1 DEF CreateInv, OlderLinksStop
<1>2. ASSUME UNCHANGED <<link, since>>,
             \A q \in Requests : work'[q].at = "createLink" => work'[q] = work[q]
      PROVE  CreateInv' /\ OlderLinksStop'
    <2>1. Mailed' = Mailed
        BY <1>2 DEF Mailed
    <2> QED
        BY <1>1, <1>2, <2>1
<1>3. ASSUME NEW r \in Requests, NEW b \in Browsers,
             LoginFind(r, b) \/ RefreshSend(r, b) \/ LogoutSend(r, b)
      PROVE  CreateInv' /\ OlderLinksStop'
    BY <1>2, <1>3 DEF LoginFind, RefreshSend, LogoutSend, links, Begins, Goes, WorkOK
<1>4. ASSUME NEW r \in Requests, LoginBanCheck(r) PROVE CreateInv' /\ OlderLinksStop'
    BY <1>2, <1>4, WorkShape DEF LoginBanCheck, LoggingIn, links, Goes, Rest, WorkOK
<1>5. ASSUME NEW r \in Requests, RefreshFind(r) PROVE CreateInv' /\ OlderLinksStop'
    BY <1>2, <1>5 DEF RefreshFind, links, Goes, Rest, WorkOK
<1>6. ASSUME NEW r \in Requests, Issue(r) PROVE CreateInv' /\ OlderLinksStop'
    BY <1>2, <1>6 DEF Issue, links, Goes, WorkOK
<1>7. ASSUME NEW r \in Requests, Shorten(r) PROVE CreateInv' /\ OlderLinksStop'
    BY <1>2, <1>7, WorkShape DEF Shorten, Answering, links, Goes, Rest, WorkOK
<1>8. ASSUME NEW r \in Requests, Answer(r) \/ Logout(r) \/ ClearCookie(r) \/ RequestReset(r)
                                     \/ AdminPassword(r) \/ SavePassword(r) \/ Ban(r) \/ Fail(r)
      PROVE  CreateInv' /\ OlderLinksStop'
    BY <1>2, <1>8 DEF Answer, Logout, ClearCookie, RequestReset, AdminPassword, SavePassword, Ban,
       Fail, links, Begins, Goes, Rest, WorkOK
<1>9. ASSUME NEW r \in Requests, ResetBanCheck(r) PROVE CreateInv' /\ OlderLinksStop'
    BY <1>2, <1>9, WorkShape DEF ResetBanCheck, Saving, links, Goes, Rest, WorkOK
<1>10. ASSUME NEW r \in Requests, RevokeAll(r) PROVE CreateInv' /\ OlderLinksStop'
    BY <1>2, <1>10, RevokeAllMoves DEF RevokeAll, links
<1>11. ASSUME NEW r \in Requests, DropLinks(r) PROVE CreateInv' /\ OlderLinksStop'
    <2>1. Mailed' = Mailed /\ \A l \in Link : link'[l] # "live"
        BY <1>11 DEF DropLinks, Mailed
    <2>2. work'[r].since = Cardinality(Mailed) /\ \A q \in Requests \ {r} : work'[q] = work[q]
        BY <1>11 DEF DropLinks, Goes, WorkOK
    <2> QED
        BY <1>0, <2>1, <2>2 DEF CreateInv, OlderLinksStop
<1>12. ASSUME NEW r \in Requests, CreateLink(r) PROVE CreateInv' /\ OlderLinksStop'
    <2> DEFINE n == Cardinality(Mailed)
    <2>1. /\ n + 1 \in Link /\ link' = [link EXCEPT ![n + 1] = "live"]
          /\ since' = [since EXCEPT ![n + 1] = work[r].since]
          /\ work[r].at = "createLink"
        BY <1>12 DEF CreateLink
    <2>2. work'[r].at = "rest" /\ \A q \in Requests \ {r} : work'[q] = work[q]
        BY <1>12 DEF CreateLink, Goes, Rest, WorkOK
    <2>3. \A q \in Requests : work[q].at = "createLink" => work[q].since \in Nat
        BY WorkShape, AuthAssumption DEF Creating
    <2>4. Cardinality(Mailed') = n + 1
        <3>1. Mailed' = Mailed \union {n + 1}
            BY <2>1 DEF Mailed, TypeOK
        <3>2. Mailed = 1..n
            BY NextNumber
        <3> HIDE DEF n
        <3>3. Mailed' = 1..(n + 1) /\ n + 1 \in Nat
            BY <1>0, <3>1, <3>2 DEF n
        <3> QED
            BY <3>3, FS_Interval
    <2>5. \A l \in Link : link'[l] = "live" => link[l] = "live" \/ l = n + 1
        BY <2>1 DEF TypeOK
    <2>6. CreateInv'
        BY <1>0, <2>2, <2>3, <2>4, <2>5 DEF CreateInv
    <2>7. \A l \in Link : link[l] = "live" => l > work[r].since
        BY <2>1 DEF CreateInv
    <2>8. /\ since'[n + 1] = work[r].since
          /\ \A m \in Link \ {n + 1} : since'[m] = since[m]
        BY <2>1 DEF TypeOK
    <2>9. \A l, m \in Link : l < m /\ link'[l] = "live" /\ link'[m] = "live" => l > since'[m]
        <3> SUFFICES ASSUME NEW l \in Link, NEW m \in Link, l < m,
                            link'[l] = "live", link'[m] = "live"
                     PROVE  l > since'[m]
            OBVIOUS
        <3>1. l \in Nat /\ m \in Nat
            BY AuthAssumption DEF Link
        <3>2. m <= n + 1
            BY <1>0, <2>5, <3>1
        <3>3. link[l] = "live"
            BY <1>0, <2>5, <3>1, <3>2
        <3>4. CASE m = n + 1
            BY <2>7, <2>8, <3>3, <3>4
        <3>5. CASE m # n + 1
            BY <2>5, <2>8, <3>3, <3>5 DEF OlderLinksStop
        <3> QED
            BY <3>4, <3>5
    <2> QED
        BY <2>6, <2>9 DEF OlderLinksStop
<1>13. ASSUME NEW l \in Link, LinkExpires(l) PROVE CreateInv' /\ OlderLinksStop'
    <2>1. Mailed' = Mailed
        BY <1>13 DEF LinkExpires, Mailed, TypeOK
    <2> QED
        BY <1>1, <1>13, <2>1 DEF LinkExpires, TypeOK
<1>14. ASSUME NEW r \in Requests, NEW b \in Browsers, Consume(r, b)
       PROVE  CreateInv' /\ OlderLinksStop'
    <2>1. PICK l \in Link : /\ link[l] = "live" /\ link' = [link EXCEPT ![l] = "gone"]
                            /\ Begins(r, [at |-> "resetBanCheck", by |-> b]) /\ UNCHANGED since
        BY <1>14 DEF Consume
    <2>2. Mailed' = Mailed
        BY <2>1 DEF Mailed, TypeOK
    <2>3. \A q \in Requests : work'[q].at = "createLink" => work'[q] = work[q]
        BY <2>1 DEF Begins, Goes, WorkOK
    <2> QED
        BY <1>1, <2>1, <2>2, <2>3 DEF TypeOK
<1>15. ASSUME UNCHANGED <<link, since, work>> PROVE CreateInv' /\ OlderLinksStop'
    BY <1>2, <1>15
<1> QED
    BY <1>3, <1>4, <1>5, <1>6, <1>7, <1>8, <1>9, <1>10, <1>11, <1>12, <1>13, <1>14, <1>15
    DEF Next, vars, links, GraceEnds, Unban

-----------------------------------------------------------------------------
(* Revocations.                                                            *)

LEMMA RevokedStep ==
    TypeOK /\ WorkOK /\ Numbered /\ HeldInv /\ RevokedInv /\ [Next]_vars => RevokedInv'
<1> SUFFICES ASSUME TypeOK, WorkOK, Numbered, HeldInv, RevokedInv, [Next]_vars
             PROVE  RevokedInv'
    OBVIOUS
<1> USE DEF At, None
<1>0. epoch \in Nat /\ banned \in 0..epoch /\ recovered \in 0..epoch
    BY AuthAssumption DEF TypeOK
<1>1. ASSUME UNCHANGED <<auth, late, epoch, banned, recovered>>,
             \A s \in Session : session'[s] \in {"live", "grace"} => Valid(s),
             \A q \in Requests : work'[q].at \in {"revoke", "banCheck", "issue"}
                                     => work'[q] = work[q]
      PROVE  RevokedInv'
    BY <1>1 DEF RevokedInv, Barred, Valid
<1>2. ASSUME UNCHANGED <<store, account>>,
             \A q \in Requests : work'[q].at \in {"revoke", "banCheck", "issue"}
                                     => work'[q] = work[q]
      PROVE  RevokedInv'
    BY <1>1, <1>2 DEF store, account, Valid
<1>3. ASSUME UNCHANGED <<store, account>>, NEW r \in Requests,
             \A q \in Requests \ {r} : work'[q] = work[q],
             work'[r].at \in {"banCheck", "issue"},
             ~work'[r].late => /\ work'[r].auth >= recovered
                               /\ work'[r].at = "issue" => ~Barred
      PROVE  RevokedInv'
    BY <1>3 DEF RevokedInv, Barred, Valid, store, account
<1>4. ASSUME NEW r \in Requests, NEW b \in Browsers, LoginFind(r, b) PROVE RevokedInv'
    <2>1. /\ work'[r].at = "banCheck" /\ work'[r].auth = epoch
          /\ \A q \in Requests \ {r} : work'[q] = work[q]
          /\ UNCHANGED <<store, account>>
        BY <1>4 DEF LoginFind, Begins, Goes, WorkOK
    <2> QED
        BY <1>0, <1>3, <2>1
<1>5. ASSUME NEW r \in Requests, LoginBanCheck(r) PROVE RevokedInv'
    <2>1. work[r] \in LoggingIn /\ UNCHANGED <<store, account>>
        BY <1>5, WorkShape DEF LoginBanCheck
    <2>2. \A q \in Requests \ {r} : work'[q] = work[q]
        BY <1>5 DEF LoginBanCheck, Goes, WorkOK
    <2>3. CASE banned = None
        <3>1. /\ work'[r].at = "issue" /\ work'[r].auth = work[r].auth
              /\ work'[r].late = work[r].late
            BY <1>5, <2>1, <2>3 DEF LoginBanCheck, Goes, WorkOK, LoggingIn
        <3>2. ~work[r].late => work[r].auth >= recovered
            BY <1>5 DEF LoginBanCheck, RevokedInv
        <3> QED
            BY <1>3, <2>1, <2>2, <2>3, <3>1, <3>2 DEF Barred
    <2>4. CASE banned # None
        <3>1. work'[r].at = "rest"
            BY <1>5, <2>4 DEF LoginBanCheck, Goes, WorkOK, Rest
        <3> QED
            BY <1>2, <2>1, <2>2, <3>1
    <2> QED
        BY <2>3, <2>4
<1>6. ASSUME NEW r \in Requests, RefreshFind(r) PROVE RevokedInv'
    <2> DEFINE s == work[r].from
    <2>1. s \in Session /\ UNCHANGED <<store, account>>
        BY <1>6, WorkShape DEF RefreshFind, Sent
    <2>2. \A q \in Requests \ {r} : work'[q] = work[q]
        BY <1>6 DEF RefreshFind, Goes, WorkOK
    <2>3. CASE Valid(s)
        <3>1. /\ work'[r].at = "issue" /\ work'[r].auth = auth[s]
              /\ work'[r].late = (s \in late)
            BY <1>6, <2>3 DEF RefreshFind, Goes, WorkOK
        <3> QED
            BY <1>3, <2>1, <2>2, <2>3, <3>1 DEF RevokedInv
    <2>4. CASE ~Valid(s)
        <3>1. work'[r].at = "rest"
            BY <1>6, <2>4 DEF RefreshFind, Goes, WorkOK, Rest
        <3> QED
            BY <1>2, <2>1, <2>2, <3>1
    <2> QED
        BY <2>3, <2>4
<1>7. ASSUME NEW r \in Requests, Issue(r) PROVE RevokedInv'
    <2> DEFINE s == Cardinality(Issued) + 1
    <2>1. /\ work[r].at = "issue" /\ s \in Session
          /\ session' = [session EXCEPT ![s] = "live"]
          /\ auth' = [auth EXCEPT ![s] = work[r].auth]
          /\ late' = IF work[r].late THEN late \union {s} ELSE late
          /\ UNCHANGED <<epoch, banned, recovered>>
        BY <1>7 DEF Issue, account
    <2>2. /\ \A q \in Requests \ {r} : work'[q] = work[q]
          /\ work'[r].at \in {"shorten", "answer"}
        BY <1>7 DEF Issue, Goes, WorkOK
    <2>3. s \notin late' => auth'[s] >= recovered /\ ~Barred
        BY <2>1 DEF TypeOK, RevokedInv
    <2>4. \A x \in Session \ {s} : /\ session'[x] = session[x] /\ auth'[x] = auth[x]
                                   /\ x \in late' <=> x \in late
        BY <2>1 DEF TypeOK
    <2>5. \A x \in Session : Valid(x)' /\ x \notin late' => auth'[x] >= recovered /\ ~Barred
        BY <2>3, <2>4 DEF RevokedInv, Valid
    <2> QED
        BY <2>1, <2>2, <2>5 DEF RevokedInv, Barred
<1>8. ASSUME NEW r \in Requests, Shorten(r) PROVE RevokedInv'
    <2>1. UNCHANGED <<auth, late, epoch, banned, recovered>>
        BY <1>8 DEF Shorten, account
    <2>2. \A s \in Session : session'[s] \in {"live", "grace"} => Valid(s)
        BY <1>8 DEF Shorten, Valid, TypeOK
    <2>3. \A q \in Requests : work'[q].at \in {"revoke", "banCheck", "issue"} => work'[q] = work[q]
        BY <1>8, WorkShape DEF Shorten, Answering, Goes, Rest, WorkOK
    <2> QED
        BY <1>1, <2>1, <2>2, <2>3
<1>9. ASSUME NEW r \in Requests, Logout(r) PROVE RevokedInv'
    <2>1. UNCHANGED <<auth, late, epoch, banned, recovered>>
        BY <1>9 DEF Logout, account
    <2>2. \A s \in Session : session'[s] \in {"live", "grace"} => Valid(s)
        BY <1>9 DEF Logout, Valid, TypeOK
    <2>3. \A q \in Requests : work'[q].at \in {"revoke", "banCheck", "issue"} => work'[q] = work[q]
        BY <1>9 DEF Logout, Goes, WorkOK
    <2> QED
        BY <1>1, <2>1, <2>2, <2>3
<1>10. ASSUME NEW s \in Session, GraceEnds(s) PROVE RevokedInv'
    BY <1>1, <1>10 DEF GraceEnds, Valid, TypeOK, account
<1>11. ASSUME NEW r \in Requests, NEW b \in Browsers,
              RefreshSend(r, b) \/ LogoutSend(r, b) \/ Consume(r, b)
       PROVE  RevokedInv'
    BY <1>2, <1>11 DEF RefreshSend, LogoutSend, Consume, Begins, Goes, WorkOK
<1>12. ASSUME NEW r \in Requests, Answer(r) \/ ClearCookie(r) \/ RequestReset(r) \/ DropLinks(r)
                                     \/ CreateLink(r) \/ AdminPassword(r) \/ Fail(r)
       PROVE  RevokedInv'
    BY <1>2, <1>12 DEF Answer, ClearCookie, RequestReset, DropLinks, CreateLink, AdminPassword,
       Fail, Begins, Goes, Rest, WorkOK
<1>13. ASSUME NEW r \in Requests, ResetBanCheck(r) PROVE RevokedInv'
    BY <1>2, <1>13, WorkShape DEF ResetBanCheck, Saving, Goes, Rest, WorkOK
<1>14. ASSUME NEW r \in Requests, SavePassword(r) PROVE RevokedInv'
    <2>1. /\ epoch' = epoch + 1 /\ UNCHANGED <<session, auth, late, banned, recovered>>
          /\ work'[r].at = "revoke" /\ work'[r].change = epoch'
          /\ \A q \in Requests \ {r} : work'[q] = work[q]
        BY <1>14 DEF SavePassword, Goes, WorkOK, store
    <2>2. \A q \in Requests : work'[q].at = "revoke" => work'[q].change <= epoch'
        <3>1. \A q \in Requests : work[q].at = "revoke" => work[q].change \in Nat
            BY WorkShape, AuthAssumption DEF Revoking
        <3> QED
            BY <1>0, <2>1, <3>1 DEF RevokedInv
    <2> QED
        BY <2>1, <2>2 DEF RevokedInv, Barred, Valid
<1>15. ASSUME NEW r \in Requests, Ban(r) PROVE RevokedInv'
    <2>1. /\ UNCHANGED <<session, auth, late, recovered>>
          /\ work'[r].at = "revoke" /\ work'[r].change = banned'
          /\ \A q \in Requests \ {r} : work'[q] = work[q]
        BY <1>15 DEF Ban, Begins, Goes, WorkOK, store
    <2>2. epoch' \in Nat /\ epoch' >= epoch /\ banned' <= epoch' /\ (Barred' => Barred)
        BY <1>0, <1>15 DEF Ban, Barred
    <2>3. \A q \in Requests : work'[q].at = "revoke" => work'[q].change <= epoch'
        <3>1. \A q \in Requests : work[q].at = "revoke" => work[q].change \in Nat
            BY WorkShape, AuthAssumption DEF Revoking
        <3> QED
            BY <1>0, <2>1, <2>2, <3>1 DEF RevokedInv
    <2> QED
        BY <2>1, <2>2, <2>3 DEF RevokedInv, Valid
<1>16. ASSUME Unban PROVE RevokedInv'
    BY <1>16 DEF Unban, store, RevokedInv, Barred, Valid
<1>17. ASSUME NEW r \in Requests, RevokeAll(r) PROVE RevokedInv'
    <2>1. \A s \in Session : ~Valid(s)'
        BY <1>17 DEF RevokeAll, SessionsOfUser, Valid
    <2>2. UNCHANGED epoch
        BY <1>17 DEF RevokeAll
    <2>3. \A q \in Requests : work'[q].at \in {"banCheck", "issue"} => work'[q].late
        BY <1>17, RevokeAllMoves
    <2>4. \A q \in Requests : work'[q].at = "revoke" => work'[q] = work[q]
        BY <1>17, RevokeAllMoves
    <2> QED
        BY <2>1, <2>2, <2>3, <2>4 DEF RevokedInv
<1>18. ASSUME UNCHANGED <<store, account, work>> PROVE RevokedInv'
    BY <1>2, <1>18
<1> QED
    BY <1>4, <1>5, <1>6, <1>7, <1>8, <1>9, <1>10, <1>11, <1>12, <1>13, <1>14, <1>15, <1>16,
       <1>17, <1>18 DEF Next, vars, LinkExpires

-----------------------------------------------------------------------------
(* What clients hold.                                                      *)

\* A step of one request that hands nothing out.
LEMMA HeldByMove ==
    ASSUME HeldInv, UNCHANGED <<cookie, held>>, Issued \subseteq Issued',
           NEW r \in Requests, \A q \in Requests \ {r} : work'[q] = work[q],
           work'[r].at \in {"sent", "issue", "shorten", "answer", "logout"}
               => work'[r].from \in held \union {None},
           work'[r].at = "shorten" => work'[r].from # None,
           work'[r].at \in {"shorten", "answer"} =>
               /\ work'[r].new \in Issued' \ held
               /\ \/ work[r].at \in {"shorten", "answer"} /\ work'[r].new = work[r].new
                  \/ work'[r].new \notin Issued
    PROVE  HeldInv'
<1> USE DEF At, HeldInv
<1>1. \A b \in Browsers : cookie'[b] \in held' \union {None}
    OBVIOUS
<1>2. \A q \in Requests : /\ work'[q].at \in {"sent", "issue", "shorten", "answer", "logout"}
                              => work'[q].from \in held' \union {None}
                          /\ work'[q].at = "shorten" => work'[q].from # None
    OBVIOUS
<1>3. \A q \in Requests : work'[q].at \in {"shorten", "answer"} => work'[q].new \in Issued' \ held'
    OBVIOUS
<1>4. \A q, x \in Requests : work'[q].at \in {"shorten", "answer"}
                             /\ work'[x].at \in {"shorten", "answer"}
                             /\ work'[q].new = work'[x].new => q = x
    OBVIOUS
<1> QED
    BY <1>1, <1>2, <1>3, <1>4

LEMMA HeldStep == TypeOK /\ WorkOK /\ Numbered /\ HeldInv /\ [Next]_vars => HeldInv'
<1> SUFFICES ASSUME TypeOK, WorkOK, Numbered, HeldInv, [Next]_vars PROVE HeldInv'
    OBVIOUS
<1> USE DEF At
<1>0. Issued \subseteq Issued'
    BY IssuedStep
<1>1. ASSUME NEW r \in Requests, NEW b \in Browsers,
             LoginFind(r, b) \/ RefreshSend(r, b) \/ LogoutSend(r, b) \/ Consume(r, b)
      PROVE  HeldInv'
    <2>1. /\ UNCHANGED <<cookie, held>> /\ \A q \in Requests \ {r} : work'[q] = work[q]
          /\ work'[r].at \in {"banCheck", "sent", "logout", "resetBanCheck"}
          /\ work'[r].at \in {"sent", "logout"} => work'[r].from = cookie[b]
        BY <1>1 DEF LoginFind, RefreshSend, LogoutSend, Consume, Begins, Goes, WorkOK
    <2>2. cookie[b] \in held \union {None}
        BY DEF HeldInv
    <2> QED
        BY <1>0, <2>1, <2>2, HeldByMove
<1>2. ASSUME NEW r \in Requests, LoginBanCheck(r) PROVE HeldInv'
    <2>1. /\ UNCHANGED <<cookie, held>> /\ \A q \in Requests \ {r} : work'[q] = work[q]
          /\ work'[r].at \in {"issue", "rest"}
          /\ work'[r].at = "issue" => work'[r].from = None
        BY <1>2, WorkShape DEF LoginBanCheck, LoggingIn, Goes, Rest, WorkOK
    <2> QED
        BY <1>0, <2>1, HeldByMove
<1>3. ASSUME NEW r \in Requests, RefreshFind(r) PROVE HeldInv'
    <2>1. /\ UNCHANGED <<cookie, held>> /\ \A q \in Requests \ {r} : work'[q] = work[q]
          /\ work'[r].at \in {"issue", "rest"}
          /\ work'[r].at = "issue" => work'[r].from = work[r].from
        BY <1>3 DEF RefreshFind, Goes, Rest, WorkOK
    <2>2. work[r].from \in held \union {None}
        BY <1>3 DEF RefreshFind, HeldInv
    <2> QED
        BY <1>0, <2>1, <2>2, HeldByMove
<1>4. ASSUME NEW r \in Requests, Issue(r) PROVE HeldInv'
    <2> DEFINE s == Cardinality(Issued) + 1
    <2>1. /\ UNCHANGED <<cookie, held>> /\ \A q \in Requests \ {r} : work'[q] = work[q]
          /\ work'[r].at \in {"shorten", "answer"}
          /\ work'[r].at = "shorten" => work[r].from # None
          /\ work'[r].from = work[r].from /\ work'[r].new = s
        BY <1>4 DEF Issue, Goes, WorkOK
    <2>2. work[r].from \in held \union {None}
        BY <1>4 DEF Issue, HeldInv
    <2>3. s \in Issued' /\ s \notin Issued
        BY <1>4, IssuedStep DEF Issue, Issued, TypeOK
    <2>4. s \notin held
        BY <2>3 DEF TypeOK
    <2> HIDE DEF s
    <2> QED
        BY <1>0, <2>1, <2>2, <2>3, <2>4, HeldByMove
<1>5. ASSUME NEW r \in Requests, Shorten(r) PROVE HeldInv'
    <2>1. /\ UNCHANGED <<cookie, held>> /\ \A q \in Requests \ {r} : work'[q] = work[q]
          /\ work'[r].at \in {"answer", "rest"} /\ work[r].at = "shorten"
          /\ work'[r].at = "answer" => work'[r].from = work[r].from /\ work'[r].new = work[r].new
        BY <1>5, WorkShape DEF Shorten, Answering, Goes, Rest, WorkOK
    <2>2. work[r].from \in held \union {None} /\ work[r].new \in Issued \ held
        BY <2>1 DEF HeldInv
    <2> QED
        BY <1>0, <2>1, <2>2, HeldByMove
<1>6. ASSUME NEW r \in Requests, Answer(r) PROVE HeldInv'
    <2>1. /\ work[r].at = "answer" /\ held' = held \union {work[r].new}
          /\ cookie' = [cookie EXCEPT ![work[r].by] = work[r].new]
          /\ work'[r].at = "rest" /\ \A q \in Requests \ {r} : work'[q] = work[q]
        BY <1>6 DEF Answer, Goes, Rest, WorkOK
    <2>2. \A b \in Browsers : cookie'[b] \in held' \union {None}
        BY <2>1 DEF HeldInv, TypeOK
    <2>3. \A q \in Requests \ {r} : work[q].at \in {"shorten", "answer"} => work[q].new \notin held'
        BY <2>1 DEF HeldInv
    <2> QED
        BY <1>0, <2>1, <2>2, <2>3 DEF HeldInv
<1>7. ASSUME NEW r \in Requests, ClearCookie(r) PROVE HeldInv'
    <2>1. /\ UNCHANGED held /\ cookie' = [cookie EXCEPT ![work[r].by] = None]
          /\ work'[r].at = "rest" /\ \A q \in Requests \ {r} : work'[q] = work[q]
        BY <1>7 DEF ClearCookie, Goes, Rest, WorkOK
    <2>2. \A b \in Browsers : cookie'[b] \in held' \union {None}
        BY <2>1 DEF HeldInv, TypeOK
    <2> QED
        BY <1>0, <2>1, <2>2 DEF HeldInv
<1>8. ASSUME NEW r \in Requests,
             \/ Logout(r) \/ RequestReset(r) \/ DropLinks(r) \/ CreateLink(r)
             \/ AdminPassword(r) \/ SavePassword(r) \/ Ban(r) \/ Fail(r)
      PROVE  HeldInv'
    <2>1. /\ UNCHANGED <<cookie, held>> /\ \A q \in Requests \ {r} : work'[q] = work[q]
          /\ work'[r].at \in {"clear", "dropLinks", "createLink", "save", "revoke", "rest"}
        BY <1>8 DEF Logout, RequestReset, DropLinks, CreateLink, AdminPassword, SavePassword, Ban,
           Fail, Begins, Goes, Rest, WorkOK
    <2> QED
        BY <1>0, <2>1, HeldByMove
<1>9. ASSUME NEW r \in Requests, ResetBanCheck(r) PROVE HeldInv'
    <2>1. /\ UNCHANGED <<cookie, held>> /\ \A q \in Requests \ {r} : work'[q] = work[q]
          /\ work'[r].at \in {"save", "rest"}
        BY <1>9, WorkShape DEF ResetBanCheck, Saving, Goes, Rest, WorkOK
    <2> QED
        BY <1>0, <2>1, HeldByMove
<1>10. ASSUME NEW r \in Requests, RevokeAll(r) PROVE HeldInv'
    <2>1. UNCHANGED <<cookie, held>>
        BY <1>10 DEF RevokeAll
    <2>2. \A q \in Requests : work'[q].at \in {"sent", "shorten", "answer", "logout"}
                                  => work'[q] = work[q]
        BY <1>10, RevokeAllMoves
    <2>3. \A q \in Requests : work'[q].at = "issue"
                                  => work[q].at = "issue" /\ work'[q].from = work[q].from
        BY <1>10, RevokeAllMoves
    <2> QED
        BY <1>0, <2>1, <2>2, <2>3 DEF HeldInv
<1>11. ASSUME UNCHANGED <<cookie, held, work>> PROVE HeldInv'
    BY <1>0, <1>11 DEF HeldInv
<1> QED
    BY <1>1, <1>2, <1>3, <1>4, <1>5, <1>6, <1>7, <1>8, <1>9, <1>10, <1>11
    DEF Next, vars, GraceEnds, LinkExpires, Unban

-----------------------------------------------------------------------------
(* Whose a token is.                                                       *)

LEMMA OwnersKept ==
    ASSUME OwnerInv, \A b \in Browsers, s \in Session : Has(b, s)' => Has(b, s)
    PROVE  OwnerInv'
BY DEF OwnerInv

\* A step of one request that goes on with a token its browser has.
LEMMA OwnerByMove ==
    ASSUME OwnerInv, UNCHANGED cookie,
           NEW r \in Requests, \A q \in Requests \ {r} : work'[q] = work[q],
           work'[r].at \in {"sent", "issue", "shorten", "answer"} /\ work'[r].from \in Session
               => Has(work'[r].by, work'[r].from),
           work'[r].at \in {"shorten", "answer"} => Has(work'[r].by, work'[r].new)
    PROVE  OwnerInv'
<1>1. ASSUME NEW b \in Browsers, NEW s \in Session, Has(b, s)' PROVE Has(b, s)
    BY <1>1 DEF Has, At
<1> QED
    BY <1>1, OwnersKept

LEMMA OwnerStep ==
    TypeOK /\ WorkOK /\ Numbered /\ HeldInv /\ OwnerInv /\ [Next]_vars => OwnerInv'
<1> SUFFICES ASSUME TypeOK, WorkOK, Numbered, HeldInv, OwnerInv, [Next]_vars PROVE OwnerInv'
    OBVIOUS
<1> USE DEF At
<1>1. ASSUME NEW r \in Requests, NEW b \in Browsers,
             LoginFind(r, b) \/ RefreshSend(r, b) \/ LogoutSend(r, b) \/ Consume(r, b)
      PROVE  OwnerInv'
    <2>1. /\ UNCHANGED cookie /\ \A q \in Requests \ {r} : work'[q] = work[q]
          /\ work'[r].at \in {"banCheck", "sent", "logout", "resetBanCheck"}
          /\ work'[r].at = "sent" => work'[r].from = cookie[b] /\ work'[r].by = b
        BY <1>1 DEF LoginFind, RefreshSend, LogoutSend, Consume, Begins, Goes, WorkOK
    <2> QED
        BY <2>1, OwnerByMove DEF Has
<1>2. ASSUME NEW r \in Requests, LoginBanCheck(r) PROVE OwnerInv'
    <2>1. /\ UNCHANGED cookie /\ \A q \in Requests \ {r} : work'[q] = work[q]
          /\ work'[r].at \in {"issue", "rest"}
          /\ work'[r].at = "issue" => work'[r].from = None
        BY <1>2, WorkShape DEF LoginBanCheck, LoggingIn, Goes, Rest, WorkOK
    <2> QED
        BY <2>1, OwnerByMove DEF None, Session
<1>3. ASSUME NEW r \in Requests, RefreshFind(r) PROVE OwnerInv'
    <2>1. /\ UNCHANGED cookie /\ \A q \in Requests \ {r} : work'[q] = work[q]
          /\ work[r].at = "sent" /\ work'[r].at \in {"issue", "rest"}
          /\ work'[r].at = "issue" => work'[r].from = work[r].from /\ work'[r].by = work[r].by
        BY <1>3 DEF RefreshFind, Goes, Rest, WorkOK
    <2>2. Has(work[r].by, work[r].from)
        BY <2>1 DEF Has
    <2> QED
        BY <2>1, <2>2, OwnerByMove
<1>4. ASSUME NEW r \in Requests, Issue(r) PROVE OwnerInv'
    <2> DEFINE n == Cardinality(Issued) + 1
    <2>1. /\ UNCHANGED cookie /\ \A q \in Requests \ {r} : work'[q] = work[q]
          /\ work[r].at = "issue" /\ work'[r].at \in {"shorten", "answer"}
          /\ work'[r].by = work[r].by /\ work'[r].from = work[r].from /\ work'[r].new = n
        BY <1>4 DEF Issue, Goes, WorkOK
    <2>2. n \notin Issued
        BY <1>4, IssuedStep
    <2> HIDE DEF n
    <2>3. ASSUME NEW b \in Browsers, NEW s \in Session, Has(b, s) PROVE s \in Issued
        BY <2>3 DEF Has, HeldInv, TypeOK, None, Session
    <2>4. ASSUME NEW b \in Browsers, NEW s \in Session, Has(b, s)'
          PROVE  Has(b, s) \/ (s = n /\ b = work[r].by)
        BY <2>1, <2>4 DEF Has
    <2> QED
        BY <2>2, <2>3, <2>4 DEF OwnerInv
<1>5. ASSUME NEW r \in Requests, Shorten(r) PROVE OwnerInv'
    <2>1. /\ UNCHANGED cookie /\ \A q \in Requests \ {r} : work'[q] = work[q]
          /\ work'[r].at \in {"answer", "rest"} /\ work[r].at = "shorten"
          /\ work'[r].at = "answer" => /\ work'[r].from = work[r].from /\ work'[r].by = work[r].by
                                       /\ work'[r].new = work[r].new
        BY <1>5, WorkShape DEF Shorten, Answering, Goes, Rest, WorkOK
    <2>2. Has(work[r].by, work[r].from) /\ Has(work[r].by, work[r].new)
        BY <2>1 DEF Has
    <2> QED
        BY <2>1, <2>2, OwnerByMove
<1>6. ASSUME NEW r \in Requests, Answer(r) \/ ClearCookie(r) PROVE OwnerInv'
    <2>1. /\ \A b \in Browsers : \/ cookie'[b] \in {cookie[b], None}
                                 \/ /\ cookie'[b] = work[r].new /\ b = work[r].by
                                    /\ work[r].at = "answer"
          /\ work'[r].at = "rest" /\ \A q \in Requests \ {r} : work'[q] = work[q]
        BY <1>6 DEF Answer, ClearCookie, Goes, Rest, WorkOK, TypeOK
    <2>2. ASSUME NEW b \in Browsers, NEW s \in Session, Has(b, s)' PROVE Has(b, s)
        BY <2>1, <2>2 DEF Has, None, Session
    <2> QED
        BY <2>2, OwnersKept
<1>7. ASSUME NEW r \in Requests,
             \/ Logout(r) \/ RequestReset(r) \/ DropLinks(r) \/ CreateLink(r)
             \/ AdminPassword(r) \/ SavePassword(r) \/ Ban(r) \/ Fail(r)
      PROVE  OwnerInv'
    <2>1. /\ UNCHANGED cookie /\ \A q \in Requests \ {r} : work'[q] = work[q]
          /\ work'[r].at \in {"clear", "dropLinks", "createLink", "save", "revoke", "rest"}
        BY <1>7 DEF Logout, RequestReset, DropLinks, CreateLink, AdminPassword, SavePassword, Ban,
           Fail, Begins, Goes, Rest, WorkOK
    <2> QED
        BY <2>1, OwnerByMove
<1>8. ASSUME NEW r \in Requests, ResetBanCheck(r) PROVE OwnerInv'
    <2>1. /\ UNCHANGED cookie /\ \A q \in Requests \ {r} : work'[q] = work[q]
          /\ work'[r].at \in {"save", "rest"}
        BY <1>8, WorkShape DEF ResetBanCheck, Saving, Goes, Rest, WorkOK
    <2> QED
        BY <2>1, OwnerByMove
<1>9. ASSUME NEW r \in Requests, RevokeAll(r) PROVE OwnerInv'
    <2>1. UNCHANGED cookie
        BY <1>9 DEF RevokeAll
    <2>2. \A q \in Requests : work'[q].at \in {"sent", "shorten", "answer"} => work'[q] = work[q]
        BY <1>9, RevokeAllMoves
    <2>3. \A q \in Requests : work'[q].at = "issue" =>
              work[q].at = "issue" /\ work'[q].by = work[q].by /\ work'[q].from = work[q].from
        BY <1>9, RevokeAllMoves
    <2>4. ASSUME NEW b \in Browsers, NEW s \in Session, Has(b, s)' PROVE Has(b, s)
        BY <2>1, <2>2, <2>3, <2>4 DEF Has
    <2> QED
        BY <2>4, OwnersKept
<1>10. ASSUME UNCHANGED <<cookie, work>> PROVE OwnerInv'
    BY <1>10, OwnersKept DEF Has
<1> QED
    BY <1>1, <1>2, <1>3, <1>4, <1>5, <1>6, <1>7, <1>8, <1>9, <1>10
    DEF Next, vars, GraceEnds, LinkExpires, Unban

-----------------------------------------------------------------------------
(* Grace windows.                                                          *)

\* TabsStaySignedIn, one kind of token at a time.
Works(s) == s # None /\ s \notin revoked => Valid(s)
TokensWork == failures = 0 =>
    /\ \A b \in Browsers : Works(cookie[b])
    /\ \A r \in Requests : work[r].at = "sent" => Works(work[r].from)
LEMMA TabsAre == TabsStaySignedIn <=> TokensWork
<1> DEFINE tokens == {cookie[b] : b \in Browsers}
                         \union {work[r].from : r \in {q \in Requests : work[q].at = "sent"}}
<1>1. (\A s \in tokens : Works(s)) <=>
          /\ \A b \in Browsers : Works(cookie[b])
          /\ \A r \in Requests : work[r].at = "sent" => Works(work[r].from)
    OBVIOUS
<1>2. TabsStaySignedIn <=> (failures = 0 => \A s \in tokens : Works(s))
    BY DEF TabsStaySignedIn, Works
<1> QED
    BY <1>1, <1>2 DEF TokensWork

\* A step of one request that leaves the tokens and the cookies alone.
LEMMA GraceByMove ==
    ASSUME GraceInv, TokensWork, failures' = 0 => failures = 0,
           UNCHANGED <<session, cookie, revoked>>,
           NEW r \in Requests, work[r].at # "answer",
           \A q \in Requests \ {r} : work'[q] = work[q],
           work'[r].at = "sent" /\ failures' = 0 => Works(work'[r].from),
           work'[r].at \notin {"shorten", "answer"}
    PROVE  GraceInv' /\ TokensWork'
<1>1. GraceInv'
    BY DEF GraceInv, At
<1>2. TokensWork'
    BY DEF TokensWork, Works, Valid
<1> QED
    BY <1>1, <1>2

LEMMA GraceStep ==
    TypeOK /\ WorkOK /\ Numbered /\ HeldInv /\ OwnerInv /\ GraceInv /\ TokensWork /\ [Next]_vars
        => GraceInv' /\ TokensWork'
<1> SUFFICES ASSUME TypeOK, WorkOK, Numbered, HeldInv, OwnerInv, GraceInv, TokensWork, [Next]_vars
             PROVE  GraceInv' /\ TokensWork'
    OBVIOUS
<1> USE DEF At
<1>1. ASSUME NEW r \in Requests, NEW b \in Browsers,
             LoginFind(r, b) \/ RefreshSend(r, b) \/ LogoutSend(r, b) \/ Consume(r, b)
      PROVE  GraceInv' /\ TokensWork'
    <2>1. /\ UNCHANGED <<session, cookie, revoked, failures>>
          /\ \A q \in Requests \ {r} : work'[q] = work[q]
          /\ work[r].at = "rest" /\ work'[r].at \in {"banCheck", "sent", "logout", "resetBanCheck"}
          /\ work'[r].at = "sent" => work'[r].from = cookie[b]
        BY <1>1 DEF LoginFind, RefreshSend, LogoutSend, Consume, Begins, Goes, WorkOK, Rest, store
    <2> QED
        BY <2>1, GraceByMove DEF TokensWork
<1>2. ASSUME NEW r \in Requests,
             \/ RequestReset(r) \/ DropLinks(r) \/ CreateLink(r)
             \/ AdminPassword(r) \/ SavePassword(r) \/ Ban(r)
      PROVE  GraceInv' /\ TokensWork'
    <2>1. /\ UNCHANGED <<session, cookie, revoked, failures>>
          /\ \A q \in Requests \ {r} : work'[q] = work[q]
          /\ work[r].at # "answer"
          /\ work'[r].at \in {"dropLinks", "createLink", "save", "revoke", "rest"}
        BY <1>2 DEF RequestReset, DropLinks, CreateLink, AdminPassword, SavePassword, Ban, Begins,
           Goes, WorkOK, Rest, store
    <2> QED
        BY <2>1, GraceByMove
<1>3. ASSUME NEW r \in Requests, LoginBanCheck(r) \/ RefreshFind(r) \/ ResetBanCheck(r)
      PROVE  GraceInv' /\ TokensWork'
    <2>1. /\ UNCHANGED <<session, cookie, revoked, failures>>
          /\ \A q \in Requests \ {r} : work'[q] = work[q]
          /\ work[r].at # "answer" /\ work'[r].at \in {"issue", "save", "rest"}
        BY <1>3, WorkShape DEF LoginBanCheck, RefreshFind, ResetBanCheck, LoggingIn, Saving, Goes,
           WorkOK, Rest, store
    <2> QED
        BY <2>1, GraceByMove
<1>4. ASSUME NEW r \in Requests, Issue(r) PROVE GraceInv' /\ TokensWork'
    <2> DEFINE n == Cardinality(Issued) + 1
    <2>1. /\ UNCHANGED <<cookie, revoked, failures>>
          /\ \A q \in Requests \ {r} : work'[q] = work[q]
          /\ work[r].at = "issue" /\ work'[r].at \in {"shorten", "answer"} /\ work'[r].new = n
        BY <1>4 DEF Issue, Goes, WorkOK
    <2>2. n \in Session /\ session' = [session EXCEPT ![n] = "live"]
        BY <1>4 DEF Issue
    <2>3. n \notin Issued
        BY <1>4, IssuedStep
    <2> HIDE DEF n
    <2>4. session'[n] = "live" /\ \A s \in Session \ {n} : session'[s] = session[s]
        BY <2>2 DEF TypeOK
    <2>5. \A s \in Issued \union {None} : s # n /\ session'[s] = session[s]
        BY <2>2, <2>3 DEF TypeOK, None, Session, Issued
    <2>6. \A q \in Requests : work[q].at \in {"shorten", "answer"} => work[q].new \in Issued
        BY DEF HeldInv
    <2>7. /\ \A b \in Browsers : cookie[b] \in Issued \union {None}
          /\ \A q \in Requests : work[q].at = "sent" => work[q].from \in Issued \union {None}
        BY DEF HeldInv, TypeOK
    <2>8. GraceInv'
        BY <2>1, <2>4, <2>5, <2>6, <2>7 DEF GraceInv
    <2>9. TokensWork'
        BY <2>1, <2>5, <2>7 DEF TokensWork, Works, Valid
    <2> QED
        BY <2>8, <2>9
<1>5. ASSUME NEW r \in Requests, Shorten(r) PROVE GraceInv' /\ TokensWork'
    <2> DEFINE f == work[r].from
    <2>1. /\ UNCHANGED <<cookie, revoked, failures>>
          /\ \A q \in Requests \ {r} : work'[q] = work[q]
          /\ work[r].at = "shorten"
        BY <1>5 DEF Shorten, Goes, WorkOK
    <2>2. f \in Issued /\ f \in held /\ f \in Session /\ work[r].by \in Browsers
        BY <2>1, WorkShape DEF HeldInv, TypeOK, Issued, Answering
    <2>3. CASE Valid(f)
        <3>1. /\ session' = [session EXCEPT ![f] = "grace"]
              /\ work'[r].at = "answer" /\ work'[r].from = f /\ work'[r].by = work[r].by
              /\ work'[r].new = work[r].new
            BY <1>5, <2>1, <2>3, WorkShape DEF Shorten, Answering, Goes, WorkOK
        <3>2. session'[f] = "grace" /\ \A s \in Session \ {f} : session'[s] = session[s]
            BY <2>2, <3>1 DEF TypeOK
        <3>3. \A q \in Requests : work[q].at \in {"shorten", "answer"} =>
                                      work[q].new # f /\ work[q].new \in Session
            BY <2>2 DEF HeldInv, Issued
        <3>4. \A b \in Browsers : cookie[b] = f => b = work[r].by
            BY <2>1, <2>2 DEF OwnerInv, Has
        <3>5. \A b \in Browsers : cookie[b] # None => cookie[b] \in Session
            BY DEF TypeOK, Issued
        <3>6. \A q \in Requests : work[q].at = "sent" => work[q].from \in Session
            BY WorkShape DEF Sent
        <3>7. \A q \in Requests : work'[q].at \in {"shorten", "answer"} =>
                  \/ session'[work'[q].new] = "live"
                  \/ session'[work'[q].new] = "gone" /\ work'[q].new \in revoked
            BY <2>1, <3>1, <3>2, <3>3 DEF GraceInv
        <3>8. ASSUME failures = 0, NEW b \in Browsers, cookie[b] # None,
                     session'[cookie[b]] = "grace"
              PROVE  \E q \in Requests : /\ work'[q].at = "answer"
                                         /\ work'[q].by = b /\ work'[q].from = cookie[b]
            <4>1. CASE cookie[b] = f
                BY <3>1, <3>4, <4>1
            <4>2. CASE cookie[b] # f
                <5>1. session[cookie[b]] = "grace"
                    BY <3>2, <3>5, <3>8, <4>2
                <5>2. PICK q \in Requests : /\ work[q].at = "answer"
                                            /\ work[q].by = b /\ work[q].from = cookie[b]
                    BY <3>8, <5>1 DEF GraceInv
                <5> QED
                    BY <2>1, <5>2
            <4> QED
                BY <4>1, <4>2
        <3>9. TokensWork'
            BY <2>1, <3>1, <3>2, <3>5, <3>6 DEF TokensWork, Works, Valid
        <3> QED
            BY <2>1, <3>7, <3>8, <3>9 DEF GraceInv
    <2>4. CASE ~Valid(f)
        <3>1. UNCHANGED session /\ work'[r].at = "rest"
            BY <1>5, <2>4 DEF Shorten, Goes, Rest, WorkOK
        <3> QED
            BY <2>1, <3>1, GraceByMove
    <2> QED
        BY <2>3, <2>4
<1>6. ASSUME NEW r \in Requests, Answer(r) PROVE GraceInv' /\ TokensWork'
    <2>1. /\ UNCHANGED <<session, revoked, failures>>
          /\ \A q \in Requests \ {r} : work'[q] = work[q]
          /\ work[r].at = "answer" /\ work'[r].at = "rest"
          /\ cookie' = [cookie EXCEPT ![work[r].by] = work[r].new]
        BY <1>6 DEF Answer, Goes, Rest, WorkOK, store
    <2>2. \A b \in Browsers : \/ b = work[r].by /\ cookie'[b] = work[r].new
                              \/ b # work[r].by /\ cookie'[b] = cookie[b]
        BY <2>1 DEF TypeOK
    <2>3. /\ session[work[r].new] # "grace"
          /\ session[work[r].new] = "live" \/ work[r].new \in revoked
        BY <2>1 DEF GraceInv
    <2>4. GraceInv'
        BY <2>1, <2>2, <2>3 DEF GraceInv
    <2>5. TokensWork'
        BY <2>1, <2>2, <2>3 DEF TokensWork, Works, Valid
    <2> QED
        BY <2>4, <2>5
<1>7. ASSUME NEW r \in Requests, ClearCookie(r) PROVE GraceInv' /\ TokensWork'
    <2>1. /\ UNCHANGED <<session, revoked, failures>>
          /\ \A q \in Requests \ {r} : work'[q] = work[q]
          /\ work[r].at = "clear" /\ work'[r].at = "rest"
          /\ \A b \in Browsers : cookie'[b] \in {cookie[b], None}
        BY <1>7 DEF ClearCookie, Goes, Rest, WorkOK, TypeOK, store
    <2>2. GraceInv'
        BY <2>1 DEF GraceInv
    <2>3. TokensWork'
        BY <2>1 DEF TokensWork, Works, Valid
    <2> QED
        BY <2>2, <2>3
<1>8. ASSUME NEW r \in Requests, Logout(r) PROVE GraceInv' /\ TokensWork'
    <2> DEFINE f == work[r].from
    <2>1. /\ UNCHANGED <<cookie, failures>> /\ \A q \in Requests \ {r} : work'[q] = work[q]
          /\ work[r].at = "logout" /\ work'[r].at = "clear"
        BY <1>8 DEF Logout, Goes, WorkOK
    <2>2. CASE f = None
        <3>1. UNCHANGED <<session, revoked>>
            BY <1>8, <2>2 DEF Logout
        <3> QED
            BY <2>1, <3>1, GraceByMove
    <2>3. CASE f # None
        <3>1. session' = [session EXCEPT ![f] = "gone"] /\ revoked' = revoked \union {f}
            BY <1>8, <2>3 DEF Logout
        <3>2. f \in Session
            BY <2>1, <2>3, WorkShape DEF LoggingOut
        <3>3. session'[f] = "gone" /\ \A s : s # f => session'[s] = session[s]
            BY <3>1, <3>2 DEF TypeOK
        <3>4. GraceInv'
            BY <2>1, <3>1, <3>3 DEF GraceInv
        <3>5. TokensWork'
            BY <2>1, <3>1, <3>3 DEF TokensWork, Works, Valid
        <3> QED
            BY <3>4, <3>5
    <2> QED
        BY <2>2, <2>3
<1>9. ASSUME NEW s \in Session, GraceEnds(s) PROVE GraceInv' /\ TokensWork'
    <2>1. /\ UNCHANGED <<cookie, work, revoked, failures>>
          /\ session[s] = "grace"
          /\ \A r \in Requests : ~(work[r].at \in {"sent", "issue", "shorten", "answer"}
                                     /\ work[r].from = s)
        BY <1>9 DEF GraceEnds
    <2>2. session'[s] = "gone" /\ \A x : x # s => session'[x] = session[x]
        BY <1>9 DEF GraceEnds, TypeOK
    <2>3. failures = 0 => \A b \in Browsers : cookie[b] # s
        BY <2>1 DEF GraceInv, None, Session
    <2>4. GraceInv'
        BY <2>1, <2>2 DEF GraceInv
    <2>5. TokensWork'
        BY <2>1, <2>2, <2>3 DEF TokensWork, Works, Valid
    <2> QED
        BY <2>4, <2>5
<1>10. ASSUME NEW r \in Requests, RevokeAll(r) PROVE GraceInv' /\ TokensWork'
    <2>1. UNCHANGED <<cookie, failures>>
        BY <1>10 DEF RevokeAll
    <2>2. /\ \A s \in Session : IF Valid(s) THEN session'[s] = "gone" /\ s \in revoked'
                                            ELSE session'[s] = session[s]
          /\ revoked \subseteq revoked'
        BY <1>10 DEF RevokeAll, SessionsOfUser
    <2>3. \A q \in Requests : work'[q].at \in {"sent", "shorten", "answer"} => work'[q] = work[q]
        BY <1>10, RevokeAllMoves
    <2>4. \A q \in Requests : work[q].at \in {"shorten", "answer"} => work[q].new \in Session
        BY DEF HeldInv, Issued
    <2>5. \A b \in Browsers : cookie[b] # None => cookie[b] \in Session
        BY DEF TypeOK, Issued
    <2>6. \A q \in Requests : work[q].at = "sent" => work[q].from \in Session
        BY WorkShape DEF Sent
    <2>7. \A s \in Session : session'[s] # "grace"
        BY <2>2 DEF Valid
    <2>8. GraceInv'
        BY <2>1, <2>2, <2>3, <2>4, <2>5, <2>7 DEF GraceInv, Valid
    <2>9. TokensWork'
        BY <2>1, <2>2, <2>3, <2>5, <2>6 DEF TokensWork, Works
    <2> QED
        BY <2>8, <2>9
<1>11. ASSUME NEW r \in Requests, Fail(r) PROVE GraceInv' /\ TokensWork'
    <2>1. /\ UNCHANGED <<session, cookie, revoked>> /\ failures' # 0
          /\ work'[r].at = "rest" /\ \A q \in Requests \ {r} : work'[q] = work[q]
        BY <1>11, AuthAssumption DEF Fail, Goes, Rest, WorkOK, TypeOK, store
    <2> QED
        BY <2>1 DEF GraceInv, TokensWork
<1>12. ASSUME UNCHANGED <<session, cookie, work, revoked, failures>>
       PROVE  GraceInv' /\ TokensWork'
    BY <1>12 DEF GraceInv, TokensWork, Works, Valid
<1> QED
    BY <1>1, <1>2, <1>3, <1>4, <1>5, <1>6, <1>7, <1>8, <1>9, <1>10, <1>11, <1>12
    DEF Next, vars, store, LinkExpires, Unban

-----------------------------------------------------------------------------
(* The theorems.                                                           *)

\* Every state satisfies the inductive invariant.
THEOREM Invariance == Spec => []IInv
<1>1. IInv /\ [Next]_vars => IInv'
    <2> SUFFICES ASSUME IInv, [Next]_vars PROVE IInv'
        OBVIOUS
    <2>1. /\ TypeOK /\ WorkOK /\ Numbered /\ CreateInv /\ OlderLinksStop /\ RevokedInv
          /\ HeldInv /\ OwnerInv /\ GraceInv /\ TabsStaySignedIn
        BY DEF IInv
    <2>2. TypeOK' /\ WorkOK' /\ Numbered'
        BY <2>1, TypeStep, WorkStep, NumberedStep
    <2>3. CreateInv' /\ OlderLinksStop' /\ RevokedInv' /\ HeldInv' /\ OwnerInv'
        BY <2>1, LinksStep, RevokedStep, HeldStep, OwnerStep
    <2>4. GraceInv' /\ TokensWork'
        BY <2>1, TabsAre, GraceStep
    <2>5. TabsStaySignedIn'
        BY <2>4, TabsAre, PTL
    <2> QED
        BY <2>2, <2>3, <2>4, <2>5 DEF IInv
<1> QED
    BY InitIInv, <1>1, PTL DEF Spec

\* Once the sessions are deleted for a new password or a ban, none that was begun
\* before works, the exception being what a request already let through issues
\* (revokeAllSessions).
THEOREM RevocationCompletes == Spec => []RevocationIsComplete
<1>1. IInv => RevocationIsComplete
    <2> SUFFICES ASSUME IInv PROVE RevocationIsComplete
        OBVIOUS
    <2>1. \A s \in Usable : s \in Session /\ Valid(s)
        BY DEF IInv, TypeOK, Usable, Issued
    <2>2. \A s \in Usable \ late : auth[s] >= recovered /\ ~Barred
        BY <2>1 DEF IInv, RevokedInv
    <2> QED
        BY <2>2 DEF IInv, RevocationIsComplete, Barred
<1> QED
    BY <1>1, Invariance, PTL

\* A refresh in one tab does not end another's session: without failures, a token
\* a browser keeps or presents works unless it was revoked (rotateRefreshToken).
THEOREM TabsStay == Spec => []TabsStaySignedIn
<1>1. IInv => TabsStaySignedIn
    BY DEF IInv
<1> QED
    BY <1>1, Invariance, PTL

\* Two links work together only if the older was made between the two calls of the
\* request for the newer (issueAuthToken).
THEOREM OlderLinksEnd == Spec => []OlderLinksStop
<1>1. IInv => OlderLinksStop
    BY DEF IInv
<1> QED
    BY <1>1, Invariance, PTL
=============================================================================
