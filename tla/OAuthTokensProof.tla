-------------------------- MODULE OAuthTokensProof --------------------------
(***************************************************************************)
(* Theorems about OAuthTokens, for any number of requests, consents, pairs   *)
(* and ticks.                                                              *)
(***************************************************************************)
EXTENDS OAuthTokens, TLAPS

-----------------------------------------------------------------------------
(* The inductive invariant, in parts.                                       *)

\* A consent that bought a pair cannot be redeemed again.
ConsentInv ==
    /\ \A p \in 1..issued : origin[p] # None => grant[origin[p]] \in {"redeemed", "gone"}
    /\ OneConsentOnePair

\* A rotation about to be recorded began before any that was recorded.
WindowInv ==
    /\ WindowIsBounded
    /\ \A r \in Requests : work[r].at = "save" =>
          (work[r].pair \in superseded => work[r].now <= stamped[work[r].pair])

\* What is about to be written belongs to the connection of now, or is late.
EndInv ==
    /\ \A p \in (access \union refresh) \ late : gen[p] = ends
    /\ \A r \in Requests : work[r].at = "issuing" =>
          (work[r].pair \notin late => gen[work[r].pair] = ends)

\* Without a disturbance, every request is the assistant's own and in time, and
\* a pair being written is presented by nobody yet.
Steady(r) ==
    /\ work[r].at # "teardown"
    /\ work[r].at = "sent" => work[r].client = TRUE /\ until[work[r].pair] > now
    /\ work[r].at = "save" => work[r].client = TRUE /\ work[r].now + Grace > now
    /\ work[r].at = "issuing" =>
          /\ work[r].pair # client /\ work[r].pair \notin superseded
          /\ "refresh" \notin work[r].left => work[r].pair \in refresh

Apart(r, q) ==
    r # q /\ work[r].at = "issuing" /\ work[q].at \in {"sent", "save", "issuing"} =>
      work[q].pair # work[r].pair

Unspent == \A p \in Pair : p \notin superseded => until[p] = Forever

Connected ==
    /\ client # None => client \in refresh /\ until[client] > now
    /\ \A r \in Requests : Steady(r)
    /\ \A r, q \in Requests : Apart(r, q)

ClientInv == disturbed = FALSE => Connected

IInv == TypeOK /\ ConsentInv /\ WindowInv /\ EndInv /\ Unspent /\ ClientInv

-----------------------------------------------------------------------------

\* What a request may have found or written stays possible as pairs are issued
\* and time passes.
LEMMA WorkGrows ==
    ASSUME issued \in Nat, issued' \in Nat, issued <= issued',
           now \in Nat, now' \in Nat, now <= now'
    PROVE  Work \subseteq Work'
BY DEF Work

\* A request that goes on to w leaves the others where they are.
LEMMA GoesType ==
    ASSUME work \in [Requests -> Work], NEW r \in Requests, NEW w \in Work',
           Work \subseteq Work', Goes(r, w)
    PROVE  work' \in [Requests -> Work']
BY DEF Goes

LEMMA Bounds ==
    /\ MaxPairs \in Nat /\ MaxTime \in Nat /\ MaxEnds \in Nat /\ MaxFailures \in Nat
    /\ Grace \in Nat /\ Grace > 0
    /\ Forever \in Nat /\ Forever = MaxTime + Grace + 1
    /\ Pair = 1..MaxPairs
BY OAuthAssumption DEF Forever, Pair

LEMMA TypeInit == Init => TypeOK
<1> SUFFICES ASSUME Init PROVE TypeOK
    OBVIOUS
<1>1. work \in [Requests -> Work]
    BY DEF Init, Work, Rest
<1>2. until \in [Pair -> 0..Forever] /\ stamped \in [Pair -> 0..MaxTime]
    BY Bounds DEF Init
<1>3. gen \in [Pair -> 0..ends] /\ origin \in [Pair -> Grants \union {None}]
    BY DEF Init
<1>4. disturbed \in BOOLEAN
    BY DEF Init
<1>5. /\ issued \in 0..MaxPairs /\ client \in 0..issued
      /\ now \in 0..MaxTime /\ ends \in 0..MaxEnds /\ failures \in 0..MaxFailures
    BY Bounds DEF Init, None
<1>6. /\ access \subseteq 1..issued /\ refresh \subseteq 1..issued
      /\ superseded \subseteq 1..issued /\ late \subseteq 1..issued
    BY DEF Init
<1>7. grant \in [Grants -> {"none", "pending", "approved", "redeemed", "gone"}]
    BY DEF Init
<1> QED
    BY <1>1, <1>2, <1>3, <1>4, <1>5, <1>6, <1>7 DEF TypeOK

\* The consent page and the browser: nothing but a consent and a request.
LEMMA TypeConsent ==
    ASSUME TypeOK, ConsentUnchanged, work' \in [Requests -> Work],
           grant' \in [Grants -> {"none", "pending", "approved", "redeemed", "gone"}]
    PROVE  TypeOK'
<1>1. UNCHANGED <<access, refresh, superseded, until, issued, origin, gen, client, now,
                  stamped, ends, late, disturbed, failures>>
    BY DEF ConsentUnchanged, rows, pairs, flags
<1>2. Work' = Work
    BY <1>1 DEF Work
<1> QED
    BY <1>1, <1>2 DEF TypeOK, Pair

\* A pair is generated: numbers and histories grow by one.
LEMMA TypeGenerate ==
    ASSUME TypeOK, NEW r \in Requests, NEW g \in Grants \union {None},
           NEW generation \in 0..ends, NEW isLate \in BOOLEAN,
           NEW forClient \in BOOLEAN,
           Generate(r, g, generation, isLate, forClient),
           UNCHANGED <<now, ends>>
    PROVE  /\ issued' = issued + 1 /\ issued' \in 0..MaxPairs /\ issued' \in Pair
           /\ origin' \in [Pair -> Grants \union {None}]
           /\ gen' \in [Pair -> 0..ends]
           /\ late' \subseteq 1..issued'
           /\ 1..issued \subseteq 1..issued'
           /\ work' \in [Requests -> Work']
<1>1. issued' = issued + 1 /\ issued' \in 0..MaxPairs /\ issued' \in Pair
    BY Bounds DEF TypeOK, Generate
<1>2. origin' \in [Pair -> Grants \union {None}] /\ gen' \in [Pair -> 0..ends]
    BY <1>1 DEF TypeOK, Generate
<1>3. 1..issued \subseteq 1..issued'
    BY <1>1 DEF TypeOK
<1>4. late' \subseteq 1..issued'
    BY <1>1, <1>3 DEF TypeOK, Generate
<1>5. [at |-> "issuing", pair |-> issued', left |-> {"access", "refresh"},
       client |-> forClient] \in Work'
    BY <1>1 DEF Work, Pair
<1>6. Work \subseteq Work'
    BY <1>1, WorkGrows, Bounds DEF TypeOK
<1>7. work' \in [Requests -> Work']
    BY <1>5, <1>6, GoesType DEF TypeOK, Generate
<1> QED
    BY <1>1, <1>2, <1>3, <1>4, <1>7

\* The two ways a refresh row changes: it is superseded, or it goes.
LEMMA TypeRefreshGone ==
    ASSUME TypeOK, NEW ps, RefreshGone(ps)
    PROVE  /\ refresh' \subseteq 1..issued /\ superseded' \subseteq 1..issued
           /\ until' \in [Pair -> 0..Forever] /\ stamped' \in [Pair -> 0..MaxTime]
<1>1. refresh' \subseteq 1..issued /\ superseded' \subseteq 1..issued
    BY DEF TypeOK, RefreshGone
<1>2. Forever \in 0..Forever /\ 0 \in 0..MaxTime
    BY Bounds
<1>3. until' \in [Pair -> 0..Forever]
    BY <1>2 DEF TypeOK, RefreshGone
<1>4. stamped' \in [Pair -> 0..MaxTime]
    BY <1>2 DEF TypeOK, RefreshGone
<1> QED
    BY <1>1, <1>3, <1>4

LEMMA TypeDeleteConnection ==
    ASSUME TypeOK, DeleteConnection, work' \in [Requests -> Work], disturbed' \in BOOLEAN
    PROVE  TypeOK'
<1>1. /\ refresh' \subseteq 1..issued /\ superseded' \subseteq 1..issued
      /\ until' \in [Pair -> 0..Forever] /\ stamped' \in [Pair -> 0..MaxTime]
    BY TypeRefreshGone DEF DeleteConnection
<1>2. UNCHANGED <<grant, issued, origin, gen, client, now, failures>>
    BY DEF DeleteConnection, pairs
<1>3. late' \subseteq 1..issued
    <2>1. \A r \in Requests : work[r].at = "issuing" => work[r].pair \in 1..issued
        BY DEF TypeOK, Work
    <2> QED
        BY <2>1 DEF TypeOK, DeleteConnection
<1>4. access' \subseteq 1..issued
    BY DEF DeleteConnection, AccessAfterDisconnect
<1>5. ends' \in 0..MaxEnds /\ ends <= ends'
    BY Bounds DEF TypeOK, DeleteConnection
<1>6. gen' \in [Pair -> 0..ends']
    BY <1>2, <1>5, Bounds DEF TypeOK
<1>7. work' \in [Requests -> Work']
    BY <1>2 DEF Work
<1> QED
    BY <1>1, <1>2, <1>3, <1>4, <1>5, <1>6, <1>7 DEF TypeOK, Pair

LEMMA TypeStep == TypeOK /\ [Next]_vars => TypeOK'
<1> SUFFICES ASSUME TypeOK, [Next]_vars PROVE TypeOK'
    OBVIOUS
<1>1. ASSUME NEW g \in Grants, Authorize(g) \/ GrantExpires(g) PROVE TypeOK'
    BY <1>1, TypeConsent DEF TypeOK, Authorize, GrantExpires
<1>2. ASSUME NEW r \in Requests, NEW g \in Grants, NEW answer \in {"approve", "deny"},
             Answering(r, g, answer)
      PROVE  TypeOK'
    <2>1. [at |-> answer, grant |-> g] \in Work
        BY DEF Work
    <2> QED
        BY <1>2, <2>1, TypeConsent DEF TypeOK, Answering, Begins, Goes
<1>3. ASSUME NEW r \in Requests, Approve(r) \/ Deny(r) PROVE TypeOK'
    <2>1. Rest \in Work
        BY DEF Work, Rest
    <2>2. work' \in [Requests -> Work]
        BY <1>3, <2>1 DEF TypeOK, Approve, Deny, Goes
    <2>3. grant' \in [Grants -> {"none", "pending", "approved", "redeemed", "gone"}]
        BY <1>3 DEF TypeOK, Approve, Deny
    <2> QED
        BY <1>3, <2>2, <2>3, TypeConsent DEF Approve, Deny
<1>4. ASSUME NEW r \in Requests, NEW kind \in {"access", "refresh"}, Store(r, kind)
      PROVE  TypeOK'
    <2>1. /\ work[r].pair \in 1..issued
          /\ [work[r] EXCEPT !.left = @ \ {kind}] \in Work
        BY <1>4 DEF TypeOK, Work, Store
    <2>2. UNCHANGED <<grant, superseded, until, issued, origin, gen, client, now,
                      stamped, ends, late, disturbed, failures>>
        BY <1>4 DEF Store, pairs, flags
    <2>3. work' \in [Requests -> Work']
        BY <1>4, <2>1, <2>2 DEF TypeOK, Store, Goes, Work
    <2>4. access' \subseteq 1..issued /\ refresh' \subseteq 1..issued
        BY <1>4, <2>1 DEF TypeOK, Store
    <2> QED
        BY <2>2, <2>3, <2>4 DEF TypeOK, Pair
<1>5. ASSUME NEW r \in Requests, Answer(r) PROVE TypeOK'
    <2>1. Rest \in Work
        BY DEF Work, Rest
    <2>2. UNCHANGED <<grant, access, refresh, superseded, until, issued, origin, gen,
                      now, stamped, ends, late, disturbed, failures>>
        BY <1>5 DEF Answer, rows, pairs, flags
    <2>3. work' \in [Requests -> Work']
        BY <1>5, <2>1, <2>2 DEF TypeOK, Answer, Goes, Work
    <2>4. client' \in 0..issued
        BY <1>5 DEF TypeOK, Answer, Work
    <2> QED
        BY <2>2, <2>3, <2>4 DEF TypeOK, Pair
<1>6. ASSUME NEW r \in Requests, NEW g \in Grants, Redeem(r, g) PROVE TypeOK'
    <2>1. UNCHANGED <<access, refresh, superseded, until, client, now, stamped, ends,
                      disturbed, failures>>
        BY <1>6 DEF Redeem, rows, flags
    <2>2. ends \in 0..ends
        BY Bounds DEF TypeOK
    <2>3. /\ issued' \in 0..MaxPairs /\ issued' \in Pair /\ issued' = issued + 1
          /\ origin' \in [Pair -> Grants \union {None}] /\ gen' \in [Pair -> 0..ends]
          /\ late' \subseteq 1..issued' /\ 1..issued \subseteq 1..issued'
          /\ work' \in [Requests -> Work']
        BY <1>6, <2>1, <2>2, TypeGenerate DEF Redeem
    <2>4. grant' \in [Grants -> {"none", "pending", "approved", "redeemed", "gone"}]
        BY <1>6 DEF TypeOK, Redeem
    <2>5. client' \in 0..issued'
        BY <2>1, <2>3 DEF TypeOK
    <2> QED
        BY <2>1, <2>3, <2>4, <2>5 DEF TypeOK, Pair
<1>7. ASSUME NEW r \in Requests, Refresh(r) PROVE TypeOK'
    <2>1. client \in 1..issued
        BY <1>7 DEF TypeOK, Refresh, None
    <2>2. [at |-> "sent", pair |-> client, client |-> TRUE] \in Work
        BY <2>1 DEF Work
    <2>3. UNCHANGED <<grant, access, refresh, superseded, until, issued, origin, gen,
                      client, now, stamped, ends, late, disturbed, failures>>
        BY <1>7 DEF Refresh, rows, pairs, flags
    <2>4. work' \in [Requests -> Work']
        BY <1>7, <2>2, <2>3 DEF TypeOK, Refresh, Begins, Goes, Work
    <2> QED
        BY <2>3, <2>4 DEF TypeOK, Pair
<1>8. ASSUME NEW r \in Requests, Replay(r) PROVE TypeOK'
    <2>1. PICK p \in refresh : Begins(r, [at |-> "sent", pair |-> p, client |-> FALSE])
        BY <1>8 DEF Replay
    <2>2. [at |-> "sent", pair |-> p, client |-> FALSE] \in Work
        BY DEF Work, TypeOK
    <2>3. UNCHANGED <<grant, access, refresh, superseded, until, issued, origin, gen,
                      client, now, stamped, ends, late, failures>>
        BY <1>8 DEF Replay, rows, pairs
    <2>4. work' \in [Requests -> Work']
        BY <2>1, <2>2, <2>3 DEF TypeOK, Begins, Goes, Work
    <2>5. disturbed' \in BOOLEAN
        BY <1>8 DEF Replay
    <2> QED
        BY <2>3, <2>4, <2>5 DEF TypeOK, Pair
<1>9. ASSUME NEW r \in Requests, Find(r) PROVE TypeOK'
    <2> DEFINE p == work[r].pair
    <2>1. UNCHANGED <<grant, access, refresh, superseded, until, client, now, stamped,
                      ends, disturbed, failures>>
        BY <1>9 DEF Find, RotateUnchanged, flags
    <2>2. p \in 1..issued /\ work[r].client \in BOOLEAN
        BY <1>9 DEF TypeOK, Work, Find
    <2>3. CASE Generate(r, None, gen[p], p \in late, work[r].client)
        <3>1. gen[p] \in 0..ends /\ (p \in late) \in BOOLEAN
            BY <2>2, Bounds DEF TypeOK
        <3>2. /\ issued' \in 0..MaxPairs /\ issued' \in Pair /\ issued' = issued + 1
              /\ origin' \in [Pair -> Grants \union {None}] /\ gen' \in [Pair -> 0..ends]
              /\ late' \subseteq 1..issued' /\ 1..issued \subseteq 1..issued'
              /\ work' \in [Requests -> Work']
            BY <2>1, <2>2, <2>3, <3>1, TypeGenerate
        <3>3. client' \in 0..issued'
            BY <2>1, <3>2 DEF TypeOK
        <3> QED
            BY <2>1, <3>2, <3>3 DEF TypeOK, Pair
    <2>4. CASE ~Generate(r, None, gen[p], p \in late, work[r].client)
        <3> DEFINE saving == [at |-> "save", pair |-> p, client |-> work[r].client,
                              now |-> now]
        <3>1. /\ Rest \in Work /\ [at |-> "teardown"] \in Work
              /\ saving \in Work
            BY <2>2, Bounds DEF TypeOK, Work, Rest
        <3>2. UNCHANGED <<issued, origin, gen, late>>
            BY <1>9, <2>4 DEF Find, pairs
        <3>3. Goes(r, Rest) \/ Goes(r, [at |-> "teardown"]) \/ Goes(r, saving)
            BY <1>9, <2>4 DEF Find
        <3>4. Work' = Work
            BY <2>1, <3>2 DEF Work
        <3>5. work' \in [Requests -> Work']
            BY <3>1, <3>3, <3>4, GoesType DEF TypeOK
        <3> QED
            BY <2>1, <3>2, <3>5 DEF TypeOK, Pair
    <2> QED
        BY <2>3, <2>4
<1>10. ASSUME NEW r \in Requests, Save(r) PROVE TypeOK'
    <2> DEFINE p == work[r].pair
    <2>1. UNCHANGED <<grant, access, refresh, client, now, ends, disturbed, failures>>
        BY <1>10 DEF Save, RotateUnchanged, flags
    <2>2. p \in 1..issued /\ work[r].client \in BOOLEAN /\ work[r].now \in 0..now
        BY <1>10 DEF TypeOK, Work, Save
    <2>3. CASE p \in refresh
        <3>1. gen[p] \in 0..ends /\ (p \in late) \in BOOLEAN
            BY <2>2, Bounds DEF TypeOK
        <3>2. /\ issued' \in 0..MaxPairs /\ issued' \in Pair /\ issued' = issued + 1
              /\ origin' \in [Pair -> Grants \union {None}] /\ gen' \in [Pair -> 0..ends]
              /\ late' \subseteq 1..issued' /\ 1..issued \subseteq 1..issued'
              /\ work' \in [Requests -> Work']
            <4>1. Generate(r, None, gen[p], p \in late, work[r].client)
                BY <1>10, <2>3 DEF Save
            <4> QED
                BY <2>1, <2>2, <3>1, <4>1, TypeGenerate
        <3>3. client' \in 0..issued'
            BY <2>1, <3>2 DEF TypeOK
        <3>4. superseded' \subseteq 1..issued'
            BY <1>10, <2>2, <2>3, <3>2, ZenonT(60) DEF TypeOK, Save
        <3>5. until' \in [Pair -> 0..Forever]
            <4>1. now \in 0..MaxTime
                BY DEF TypeOK
            <4>2. Window(r) \in 0..Forever
                BY <2>2, <4>1, Bounds DEF Window
            <4> QED
                BY <1>10, <2>3, <4>2 DEF TypeOK, Save
        <3>6. stamped' \in [Pair -> 0..MaxTime]
            BY <1>10, <2>3 DEF TypeOK, Save
        <3> QED
            BY <2>1, <3>2, <3>3, <3>4, <3>5, <3>6 DEF TypeOK, Pair
    <2>4. CASE p \notin refresh
        <3>1. UNCHANGED <<superseded, until, stamped, issued, origin, gen, late>>
            BY <1>10, <2>4 DEF Save, pairs
        <3>2. Rest \in Work /\ Work' = Work
            BY <2>1, <3>1 DEF Work, Rest
        <3>3. work' \in [Requests -> Work']
            BY <1>10, <2>4, <3>2, GoesType DEF TypeOK, Save
        <3> QED
            BY <2>1, <3>1, <3>3 DEF TypeOK, Pair
    <2> QED
        BY <2>3, <2>4
<1>11. ASSUME NEW r \in Requests, Teardown(r) PROVE TypeOK'
    <2>1. work' \in [Requests -> Work]
        BY <1>11 DEF TypeOK, Teardown, Goes, Work, Rest
    <2> QED
        BY <1>11, <2>1, TypeDeleteConnection DEF TypeOK, Teardown
<1>12. ASSUME Disconnect PROVE TypeOK'
    BY <1>12, TypeDeleteConnection DEF TypeOK, Disconnect
<1>13. ASSUME NEW p \in Pair, RevokeToken(p) PROVE TypeOK'
    <2>1. UNCHANGED <<grant, issued, origin, gen, client, now, work, ends, late, failures>>
        BY <1>13 DEF RevokeToken, pairs
    <2>2. /\ access' \subseteq 1..issued
          /\ refresh' \subseteq 1..issued /\ superseded' \subseteq 1..issued
          /\ until' \in [Pair -> 0..Forever] /\ stamped' \in [Pair -> 0..MaxTime]
        BY <1>13, TypeRefreshGone DEF TypeOK, RevokeToken
    <2>3. disturbed' \in BOOLEAN
        BY <1>13 DEF RevokeToken
    <2>4. Work' = Work
        BY <2>1 DEF Work
    <2> QED
        BY <2>1, <2>2, <2>3, <2>4 DEF TypeOK, Pair
<1>14. ASSUME NEW r \in Requests, Fail(r) PROVE TypeOK'
    <2>1. UNCHANGED <<grant, access, refresh, superseded, until, issued, origin, gen,
                      client, now, stamped, ends, late, disturbed>>
        BY <1>14 DEF Fail, rows, pairs
    <2>2. Rest \in Work /\ Work' = Work
        BY <2>1 DEF Work, Rest
    <2>3. work' \in [Requests -> Work']
        BY <1>14, <2>2, GoesType DEF TypeOK, Fail
    <2>4. failures' \in 0..MaxFailures
        BY <1>14, Bounds DEF TypeOK, Fail
    <2> QED
        BY <2>1, <2>3, <2>4 DEF TypeOK, Pair
<1>15. ASSUME Tick PROVE TypeOK'
    <2>1. UNCHANGED <<grant, access, refresh, superseded, until, issued, origin, gen,
                      client, work, stamped, ends, late, disturbed, failures>>
        BY <1>15 DEF Tick, rows, pairs, flags
    <2>2. now' = now + 1 /\ now' \in 0..MaxTime
        BY <1>15, Bounds DEF TypeOK, Tick
    <2>3. Work \subseteq Work'
        BY <2>1, <2>2, WorkGrows, Bounds DEF TypeOK
    <2> QED
        BY <2>1, <2>2, <2>3 DEF TypeOK, Pair
<1>16. ASSUME UNCHANGED vars PROVE TypeOK'
    <2>1. Work' = Work
        BY <1>16 DEF vars, Work, pairs
    <2> QED
        BY <1>16, <2>1 DEF vars, rows, pairs, flags, TypeOK, Pair
<1> QED
    BY <1>1, <1>2, <1>3, <1>4, <1>5, <1>6, <1>7, <1>8, <1>9, <1>10, <1>11, <1>12,
       <1>13, <1>14, <1>15, <1>16 DEF Next

-----------------------------------------------------------------------------
(* What the steps do to the pairs.                                         *)

\* A generated pair is new, and the earlier ones keep what is known of them.
LEMMA GenerateFacts ==
    ASSUME TypeOK, NEW r \in Requests, NEW g, NEW generation, NEW isLate \in BOOLEAN,
           NEW forClient, Generate(r, g, generation, isLate, forClient)
    PROVE  /\ issued' = issued + 1 /\ issued' \in Pair /\ issued \in Nat
           /\ \A p \in 1..issued : origin'[p] = origin[p] /\ gen'[p] = gen[p]
           /\ origin'[issued'] = g /\ gen'[issued'] = generation
           /\ late' = IF isLate THEN late \union {issued'} ELSE late
           /\ work'[r] = [at |-> "issuing", pair |-> issued',
                          left |-> {"access", "refresh"}, client |-> forClient]
           /\ \A q \in Requests : q # r => work'[q] = work[q]
<1>1. issued' = issued + 1 /\ issued' \in Pair /\ issued \in Nat
    BY Bounds DEF TypeOK, Generate
<1>2. /\ \A p \in 1..issued : origin'[p] = origin[p] /\ gen'[p] = gen[p]
      /\ origin'[issued'] = g /\ gen'[issued'] = generation
    BY <1>1, Bounds DEF TypeOK, Generate
<1>3. /\ work'[r] = [at |-> "issuing", pair |-> issued',
                     left |-> {"access", "refresh"}, client |-> forClient]
      /\ \A q \in Requests : q # r => work'[q] = work[q]
    BY DEF TypeOK, Generate, Goes
<1> QED
    BY <1>1, <1>2, <1>3 DEF Generate

\* Only an exchange, and the two ends of a rotation, generate a pair.
LEMMA PairsGrow ==
    ASSUME TypeOK, [Next]_vars
    PROVE  \/ UNCHANGED <<issued, origin, gen>>
           \/ \E r \in Requests, g \in Grants : Redeem(r, g)
           \/ \E r \in Requests : \E p \in refresh :
                 /\ p = work[r].pair
                 /\ Generate(r, None, gen[p], p \in late, work[r].client)
                 /\ UNCHANGED <<grant, access, refresh, client, now, ends, disturbed>>
<1>1. CASE UNCHANGED vars
    BY <1>1 DEF vars, pairs
<1>2. ASSUME NEW g \in Grants, Authorize(g) \/ GrantExpires(g)
      PROVE  UNCHANGED <<issued, origin, gen>>
    BY <1>2 DEF Authorize, GrantExpires, ConsentUnchanged, pairs
<1>3. ASSUME NEW r \in Requests, NEW g \in Grants, NEW answer \in {"approve", "deny"},
             Answering(r, g, answer)
      PROVE  UNCHANGED <<issued, origin, gen>>
    BY <1>3 DEF Answering, ConsentUnchanged, pairs
<1>4. ASSUME NEW r \in Requests, Approve(r) \/ Deny(r) \/ Answer(r) \/ Refresh(r) \/ Replay(r)
                                 \/ Teardown(r) \/ Fail(r)
      PROVE  UNCHANGED <<issued, origin, gen>>
    BY <1>4 DEF Approve, Deny, Answer, Refresh, Replay, Teardown, DeleteConnection, Fail,
                ConsentUnchanged, pairs
<1>5. ASSUME NEW r \in Requests, NEW kind \in {"access", "refresh"}, Store(r, kind)
      PROVE  UNCHANGED <<issued, origin, gen>>
    BY <1>5 DEF Store, pairs
<1>6. ASSUME Disconnect \/ Tick PROVE UNCHANGED <<issued, origin, gen>>
    BY <1>6 DEF Disconnect, DeleteConnection, Tick, pairs
<1>7. ASSUME NEW p \in Pair, RevokeToken(p) PROVE UNCHANGED <<issued, origin, gen>>
    BY <1>7 DEF RevokeToken, pairs
<1>8. ASSUME NEW r \in Requests, Find(r) \/ Save(r)
      PROVE  \/ UNCHANGED <<issued, origin, gen>>
             \/ \E p \in refresh :
                   /\ p = work[r].pair
                   /\ Generate(r, None, gen[p], p \in late, work[r].client)
                   /\ UNCHANGED <<grant, access, refresh, client, now, ends, disturbed>>
    BY <1>8 DEF Find, Save, RotateUnchanged, pairs, flags
<1> QED
    BY <1>1, <1>2, <1>3, <1>4, <1>5, <1>6, <1>7, <1>8 DEF Next

\* A consent is never open again once it was redeemed or is gone.
LEMMA GrantsClose ==
    ASSUME TypeOK, [Next]_vars, NEW g \in Grants, grant[g] \in {"redeemed", "gone"}
    PROVE  grant'[g] \in {"redeemed", "gone"}
<1>1. CASE UNCHANGED vars
    BY <1>1 DEF vars
<1>2. ASSUME NEW h \in Grants, Authorize(h) \/ GrantExpires(h)
      PROVE  grant'[g] \in {"redeemed", "gone"}
    BY <1>2 DEF TypeOK, Authorize, GrantExpires
<1>3. ASSUME NEW r \in Requests, Approve(r) \/ Deny(r)
      PROVE  grant'[g] \in {"redeemed", "gone"}
    BY <1>3 DEF TypeOK, Approve, Deny
<1>4. ASSUME NEW r \in Requests, NEW h \in Grants, Redeem(r, h)
      PROVE  grant'[g] \in {"redeemed", "gone"}
    BY <1>4 DEF TypeOK, Redeem
<1>5. ASSUME NEW r \in Requests, NEW h \in Grants, NEW answer \in {"approve", "deny"},
             Answering(r, h, answer)
      PROVE  UNCHANGED grant
    BY <1>5 DEF Answering
<1>6. ASSUME NEW r \in Requests, Answer(r) \/ Refresh(r) \/ Replay(r) \/ Find(r) \/ Save(r)
                                 \/ Teardown(r) \/ Fail(r)
      PROVE  UNCHANGED grant
    BY <1>6 DEF Answer, Refresh, Replay, Find, Save, RotateUnchanged, Teardown,
                DeleteConnection, Fail
<1>7. ASSUME NEW r \in Requests, NEW kind \in {"access", "refresh"}, Store(r, kind)
      PROVE  UNCHANGED grant
    BY <1>7 DEF Store
<1>8. ASSUME Disconnect \/ Tick PROVE UNCHANGED grant
    BY <1>8 DEF Disconnect, DeleteConnection, Tick
<1>9. ASSUME NEW p \in Pair, RevokeToken(p) PROVE UNCHANGED grant
    BY <1>9 DEF RevokeToken
<1> QED
    BY <1>1, <1>2, <1>3, <1>4, <1>5, <1>6, <1>7, <1>8, <1>9 DEF Next

LEMMA ConsentStep == TypeOK /\ ConsentInv /\ [Next]_vars => ConsentInv'
<1> SUFFICES ASSUME TypeOK, ConsentInv, [Next]_vars PROVE ConsentInv'
    OBVIOUS
<1>1. \A p \in 1..issued : origin[p] \in Grants \union {None}
    BY Bounds DEF TypeOK
<1>2. ASSUME UNCHANGED <<issued, origin>> PROVE ConsentInv'
    BY <1>1, <1>2, GrantsClose DEF ConsentInv, OneConsentOnePair
<1>3. ASSUME NEW r \in Requests, NEW g \in Grants, Redeem(r, g) PROVE ConsentInv'
    <2>1. /\ issued' = issued + 1 /\ issued \in Nat
          /\ \A p \in 1..issued : origin'[p] = origin[p]
          /\ origin'[issued'] = g
        <3>1. Generate(r, g, ends, FALSE, TRUE)
            BY <1>3 DEF Redeem
        <3> QED
            BY <3>1, GenerateFacts
    <2>2. grant[g] = "approved" /\ grant'[g] = "redeemed"
        BY <1>3 DEF TypeOK, Redeem, Redeemable
    <2>3. \A p \in 1..issued : origin[p] # None => origin[p] # g
        BY <2>2 DEF ConsentInv
    <2>4. \A p \in 1..issued' : p \in 1..issued \/ p = issued'
        BY <2>1
    <2>5. \A p \in 1..issued' : origin'[p] # None => grant'[origin'[p]] \in {"redeemed", "gone"}
        BY <1>1, <2>1, <2>2, <2>4, GrantsClose DEF ConsentInv
    <2>6. OneConsentOnePair'
        BY <2>1, <2>3, <2>4 DEF ConsentInv, OneConsentOnePair
    <2> QED
        BY <2>5, <2>6 DEF ConsentInv
<1>4. ASSUME NEW r \in Requests, NEW p \in refresh,
             Generate(r, None, gen[p], p \in late, work[r].client)
      PROVE  ConsentInv'
    <2>1. /\ issued' = issued + 1 /\ issued \in Nat
          /\ \A q \in 1..issued : origin'[q] = origin[q]
          /\ origin'[issued'] = None
        BY <1>4, Bounds DEF TypeOK, Generate
    <2>2. \A q \in 1..issued' : q \in 1..issued \/ q = issued'
        BY <2>1
    <2>3. \A q \in 1..issued' : origin'[q] # None => grant'[origin'[q]] \in {"redeemed", "gone"}
        BY <1>1, <2>1, <2>2, GrantsClose DEF ConsentInv
    <2>4. OneConsentOnePair'
        BY <2>1, <2>2 DEF ConsentInv, OneConsentOnePair
    <2> QED
        BY <2>3, <2>4 DEF ConsentInv
<1> QED
    BY <1>2, <1>3, <1>4, PairsGrow

-----------------------------------------------------------------------------
(* The grace window.                                                       *)

\* A request comes to save() from its lookup alone, with a row that nobody had
\* superseded by then.
LEMMA SaveIsFound ==
    ASSUME TypeOK, [Next]_vars, NEW q \in Requests, work'[q].at = "save"
    PROVE  \/ work'[q] = work[q]
           \/ /\ UNCHANGED <<superseded, until, stamped, now, disturbed>>
              /\ work[q].at = "sent" /\ work'[q].pair = work[q].pair
              /\ work'[q].client = work[q].client /\ work'[q].now = now
              /\ work[q].pair \notin superseded
<1> DEFINE Stays == work'[q] = work[q]
<1>0. ASSUME NEW r \in Requests, NEW w, Goes(r, w), w.at # "save" PROVE Stays
    BY <1>0 DEF TypeOK, Goes
<1>1. CASE UNCHANGED vars
    BY <1>1 DEF vars
<1>2. ASSUME NEW g \in Grants, Authorize(g) \/ GrantExpires(g) PROVE Stays
    BY <1>2 DEF Authorize, GrantExpires
<1>3. ASSUME NEW r \in Requests, NEW g \in Grants, NEW answer \in {"approve", "deny"},
             Answering(r, g, answer)
      PROVE  Stays
    BY <1>3 DEF TypeOK, Answering, Begins, Goes
<1>4. ASSUME NEW r \in Requests, Approve(r) \/ Deny(r) \/ Answer(r) \/ Refresh(r)
                                 \/ Teardown(r) \/ Fail(r)
      PROVE  Stays
    BY <1>4 DEF TypeOK, Approve, Deny, Answer, Refresh, Begins, Teardown, Fail, Goes, Rest
<1>5. ASSUME NEW r \in Requests, Replay(r) PROVE Stays
    BY <1>5 DEF TypeOK, Replay, Begins, Goes
<1>6. ASSUME NEW r \in Requests, NEW kind \in {"access", "refresh"}, Store(r, kind)
      PROVE  Stays
    BY <1>6 DEF TypeOK, Store, Goes, Work
<1>7. ASSUME NEW r \in Requests, NEW g \in Grants, Redeem(r, g) PROVE Stays
    BY <1>7 DEF TypeOK, Redeem, Generate, Goes
<1>8. ASSUME Disconnect \/ Tick PROVE Stays
    BY <1>8 DEF Disconnect, Tick
<1>9. ASSUME NEW p \in Pair, RevokeToken(p) PROVE Stays
    BY <1>9 DEF RevokeToken
<1>10. ASSUME NEW r \in Requests, Save(r) PROVE Stays
    BY <1>10 DEF TypeOK, Save, Generate, Goes, Rest
<1>11. ASSUME NEW r \in Requests, Find(r)
       PROVE  \/ Stays
              \/ /\ UNCHANGED <<superseded, until, stamped, now, disturbed>>
                 /\ work[q].at = "sent" /\ work'[q].pair = work[q].pair
                 /\ work'[q].client = work[q].client /\ work'[q].now = now
                 /\ work[q].pair \notin superseded
    BY <1>11 DEF TypeOK, Find, RotateUnchanged, Rotated, Generate, Goes, Rest, flags
<1> QED
    BY <1>1, <1>2, <1>3, <1>4, <1>5, <1>6, <1>7, <1>8, <1>9, <1>10, <1>11 DEF Next

\* A row is written by save(), and otherwise kept or deleted with all it carries.
LEMMA RowsChange ==
    ASSUME TypeOK, [Next]_vars
    PROVE  \/ UNCHANGED <<superseded, until, stamped>>
           \/ \E ps : RefreshGone(ps)
           \/ \E r \in Requests : Save(r) /\ work[r].pair \in refresh
<1>1. CASE UNCHANGED vars
    BY <1>1 DEF vars, rows
<1>2. ASSUME NEW g \in Grants, Authorize(g) \/ GrantExpires(g)
      PROVE  UNCHANGED <<superseded, until, stamped>>
    BY <1>2 DEF Authorize, GrantExpires, ConsentUnchanged, rows
<1>3. ASSUME NEW r \in Requests, NEW g \in Grants, NEW answer \in {"approve", "deny"},
             Answering(r, g, answer)
      PROVE  UNCHANGED <<superseded, until, stamped>>
    BY <1>3 DEF Answering, ConsentUnchanged, rows
<1>4. ASSUME NEW r \in Requests, Approve(r) \/ Deny(r) \/ Answer(r) \/ Refresh(r) \/ Replay(r)
                                 \/ Find(r) \/ Fail(r)
      PROVE  UNCHANGED <<superseded, until, stamped>>
    BY <1>4 DEF Approve, Deny, Answer, Refresh, Replay, Find, Fail, ConsentUnchanged, rows
<1>5. ASSUME NEW r \in Requests, NEW kind \in {"access", "refresh"}, Store(r, kind)
      PROVE  UNCHANGED <<superseded, until, stamped>>
    BY <1>5 DEF Store
<1>6. ASSUME NEW r \in Requests, NEW g \in Grants, Redeem(r, g)
      PROVE  UNCHANGED <<superseded, until, stamped>>
    BY <1>6 DEF Redeem, rows
<1>7. CASE Tick
    BY <1>7 DEF Tick, rows
<1>8. ASSUME Disconnect \/ \E r \in Requests : Teardown(r) PROVE \E ps : RefreshGone(ps)
    BY <1>8 DEF Disconnect, Teardown, DeleteConnection
<1>9. ASSUME NEW p \in Pair, RevokeToken(p)
      PROVE  UNCHANGED <<superseded, until, stamped>> \/ \E ps : RefreshGone(ps)
    BY <1>9 DEF RevokeToken
<1>10. ASSUME NEW r \in Requests, Save(r)
       PROVE  UNCHANGED <<superseded, until, stamped>> \/ work[r].pair \in refresh
    BY <1>10 DEF Save
<1> QED
    BY <1>1, <1>2, <1>3, <1>4, <1>5, <1>6, <1>7, <1>8, <1>9, <1>10 DEF Next

LEMMA WindowStep == TypeOK /\ WindowInv /\ [Next]_vars => WindowInv'
<1> SUFFICES ASSUME TypeOK, WindowInv, [Next]_vars PROVE WindowInv'
    OBVIOUS
<1>1. /\ superseded \subseteq Pair /\ refresh \subseteq Pair
      /\ until \in [Pair -> Nat] /\ stamped \in [Pair -> Nat] /\ now \in Nat
    BY Bounds DEF TypeOK
<1>2. ASSUME NEW r \in Requests, work[r].at = "save"
      PROVE  work[r].now \in 0..now /\ work[r].pair \in Pair
    <2>1. work[r].now \in 0..now /\ work[r].pair \in 1..issued
        BY <1>2 DEF TypeOK, Work
    <2> QED
        BY <2>1, Bounds DEF TypeOK
<1>3. ASSUME \A p \in superseded' : p \in superseded /\ until'[p] = until[p] /\ stamped'[p] = stamped[p]
      PROVE  WindowInv'
    <2>1. WindowIsBounded'
        BY <1>3 DEF WindowInv, WindowIsBounded
    <2>2. ASSUME NEW q \in Requests, work'[q].at = "save", work'[q].pair \in superseded'
          PROVE  work'[q].now <= stamped'[work'[q].pair]
        BY <1>3, <2>2, SaveIsFound DEF WindowInv
    <2> QED
        BY <2>1, <2>2 DEF WindowInv
<1>4. CASE UNCHANGED <<superseded, until, stamped>>
    BY <1>3, <1>4
<1>5. CASE \E ps : RefreshGone(ps)
    <2>1. \A p \in superseded' : p \in superseded /\ until'[p] = until[p] /\ stamped'[p] = stamped[p]
        BY <1>1, <1>5 DEF RefreshGone
    <2> QED
        BY <1>3, <2>1
<1>6. ASSUME NEW r \in Requests, Save(r), work[r].pair \in refresh PROVE WindowInv'
    <2> DEFINE p == work[r].pair
    <2>1. /\ work[r].at = "save" /\ superseded' = superseded \union {p}
          /\ until' = [until EXCEPT ![p] = work[r].now + Grace]
          /\ stamped' = IF p \in superseded THEN stamped ELSE [stamped EXCEPT ![p] = now]
        BY <1>6 DEF Save, Window
    <2>2. p \in Pair /\ work[r].now \in 0..now
        BY <1>2, <2>1
    <2>3. \A x \in superseded : stamped'[x] = stamped[x]
        BY <1>1, <2>1
    <2>4. work[r].now <= stamped'[p]
        BY <1>1, <2>1, <2>2 DEF WindowInv
    <2>5. until'[p] = work[r].now + Grace /\ \A x \in superseded : x # p => until'[x] = until[x]
        BY <1>1, <2>1, <2>2
    <2>6. stamped'[p] \in Nat
        BY <1>1, <2>1, <2>2
    <2>7. WindowIsBounded'
        <3>1. until'[p] <= stamped'[p] + Grace
            BY <2>2, <2>4, <2>5, <2>6, <1>1, Bounds, SMTT(30)
        <3> QED
            BY <2>1, <2>3, <2>5, <3>1 DEF WindowInv, WindowIsBounded
    <2>8. ASSUME NEW q \in Requests, work'[q].at = "save", work'[q].pair \in superseded'
          PROVE  work'[q].now <= stamped'[work'[q].pair]
        <3>1. work'[q] = work[q]
            <4>1. p \in superseded' /\ (UNCHANGED superseded => p \in superseded)
                BY <2>1
            <4>2. q # r
                BY <1>6, <2>8 DEF TypeOK, Save, Generate, Goes
            <4> QED
                BY <1>6, <2>1, <4>2 DEF TypeOK, Save, Generate, Goes
        <3>2. CASE work[q].pair \in superseded
            BY <2>3, <2>8, <3>1, <3>2 DEF WindowInv
        <3>3. CASE work[q].pair \notin superseded
            <4>1. work[q].pair = p /\ stamped'[p] = now
                BY <1>1, <2>1, <2>2, <2>8, <3>1, <3>3
            <4> QED
                BY <1>1, <1>2, <2>8, <3>1, <4>1
        <3> QED
            BY <3>2, <3>3
    <2> QED
        BY <2>7, <2>8 DEF WindowInv
<1> QED
    BY <1>4, <1>5, <1>6, RowsChange

-----------------------------------------------------------------------------
(* The end of a connection.                                                *)

\* A pair that is being written was being written before, or is the new one.
LEMMA IssuingIs ==
    ASSUME TypeOK, [Next]_vars, UNCHANGED <<issued, origin, gen>>,
           NEW q \in Requests, work'[q].at = "issuing"
    PROVE  work[q].at = "issuing" /\ work'[q].pair = work[q].pair
<1> DEFINE Goal == work[q].at = "issuing" /\ work'[q].pair = work[q].pair
<1>1. CASE UNCHANGED vars
    BY <1>1 DEF vars
<1>2. ASSUME NEW g \in Grants, Authorize(g) \/ GrantExpires(g) PROVE Goal
    BY <1>2 DEF Authorize, GrantExpires
<1>3. ASSUME NEW r \in Requests, NEW g \in Grants, NEW answer \in {"approve", "deny"},
             Answering(r, g, answer)
      PROVE  Goal
    BY <1>3 DEF TypeOK, Answering, Begins, Goes
<1>4. ASSUME NEW r \in Requests, Approve(r) \/ Deny(r) \/ Answer(r) \/ Refresh(r)
                                 \/ Teardown(r) \/ Fail(r)
      PROVE  Goal
    BY <1>4 DEF TypeOK, Approve, Deny, Answer, Refresh, Begins, Teardown, Fail, Goes, Rest
<1>5. ASSUME NEW r \in Requests, Replay(r) PROVE Goal
    BY <1>5 DEF TypeOK, Replay, Begins, Goes
<1>6. ASSUME NEW r \in Requests, NEW kind \in {"access", "refresh"}, Store(r, kind)
      PROVE  Goal
    BY <1>6 DEF TypeOK, Store, Goes, Work
<1>7. ASSUME NEW r \in Requests, NEW g \in Grants, Redeem(r, g) PROVE FALSE
    BY <1>7, Bounds DEF TypeOK, Redeem, Generate
<1>8. ASSUME Disconnect \/ Tick PROVE Goal
    BY <1>8 DEF Disconnect, Tick
<1>9. ASSUME NEW p \in Pair, RevokeToken(p) PROVE Goal
    BY <1>9 DEF RevokeToken
<1>10. ASSUME NEW r \in Requests, Find(r) \/ Save(r) PROVE Goal
    <2>1. issued \in Nat
        BY Bounds DEF TypeOK
    <2> QED
        BY <1>10, <2>1 DEF TypeOK, Find, Save, Generate, Goes, Rest
<1> QED
    BY <1>1, <1>2, <1>3, <1>4, <1>5, <1>6, <1>7, <1>8, <1>9, <1>10 DEF Next

\* What a step does to the rows of a connection when it generates nothing.
LEMMA ConnectionChange ==
    ASSUME TypeOK, [Next]_vars, UNCHANGED <<issued, origin, gen>>
    PROVE  \/ /\ UNCHANGED <<late, ends>>
              /\ access' \subseteq access /\ refresh' \subseteq refresh
           \/ \E r \in Requests, kind \in {"access", "refresh"} : Store(r, kind)
           \/ DeleteConnection
<1> DEFINE Shrinks == /\ UNCHANGED <<late, ends>>
                      /\ access' \subseteq access /\ refresh' \subseteq refresh
<1>1. CASE UNCHANGED vars
    BY <1>1 DEF vars, rows
<1>2. ASSUME NEW g \in Grants, Authorize(g) \/ GrantExpires(g) PROVE Shrinks
    BY <1>2 DEF Authorize, GrantExpires, ConsentUnchanged, rows
<1>3. ASSUME NEW r \in Requests, NEW g \in Grants, NEW answer \in {"approve", "deny"},
             Answering(r, g, answer)
      PROVE  Shrinks
    BY <1>3 DEF Answering, ConsentUnchanged, rows
<1>4. ASSUME NEW r \in Requests, Approve(r) \/ Deny(r) \/ Answer(r) \/ Refresh(r) \/ Replay(r)
                                 \/ Fail(r)
      PROVE  Shrinks
    BY <1>4 DEF Approve, Deny, Answer, Refresh, Replay, Fail, ConsentUnchanged, rows
<1>5. ASSUME NEW r \in Requests, Find(r) \/ Save(r) PROVE Shrinks
    <2>1. issued \in Nat
        BY Bounds DEF TypeOK
    <2> QED
        BY <1>5, <2>1 DEF Find, Save, Generate, RotateUnchanged
<1>6. ASSUME NEW r \in Requests, NEW g \in Grants, Redeem(r, g) PROVE FALSE
    BY <1>6, Bounds DEF TypeOK, Redeem, Generate
<1>7. CASE Tick
    BY <1>7 DEF Tick, rows
<1>8. ASSUME Disconnect \/ \E r \in Requests : Teardown(r) PROVE DeleteConnection
    BY <1>8 DEF Disconnect, Teardown
<1>9. ASSUME NEW p \in Pair, RevokeToken(p) PROVE Shrinks
    BY <1>9 DEF RevokeToken, RefreshGone
<1> QED
    BY <1>1, <1>2, <1>3, <1>4, <1>5, <1>6, <1>7, <1>8, <1>9 DEF Next

LEMMA EndStep == TypeOK /\ EndInv /\ [Next]_vars => EndInv'
<1> SUFFICES ASSUME TypeOK, EndInv, [Next]_vars PROVE EndInv'
    OBVIOUS
<1>1. /\ access \subseteq 1..issued /\ refresh \subseteq 1..issued /\ issued \in Nat
      /\ \A q \in Requests : work[q].at = "issuing" => work[q].pair \in 1..issued
    <2>1. \A q \in Requests : work[q].at = "issuing" => work[q].pair \in 1..issued
        BY DEF TypeOK, Work
    <2> QED
        BY <2>1, Bounds DEF TypeOK
<1>2. ASSUME NEW r \in Requests, NEW g, NEW generation,
             issued' = issued + 1, access' = access, refresh' = refresh, ends' = ends,
             late \subseteq late',
             \A p \in 1..issued : gen'[p] = gen[p],
             issued' \notin late' => gen'[issued'] = ends,
             work'[r].pair = issued',
             \A q \in Requests : q # r => work'[q] = work[q]
      PROVE  EndInv'
    <2>1. \A p \in (access' \union refresh') \ late' : gen'[p] = ends'
        BY <1>1, <1>2 DEF EndInv
    <2>2. ASSUME NEW q \in Requests, work'[q].at = "issuing", work'[q].pair \notin late'
          PROVE  gen'[work'[q].pair] = ends'
        <3>1. CASE q = r
            BY <1>2, <2>2, <3>1
        <3>2. CASE q # r
            BY <1>1, <1>2, <2>2, <3>2 DEF EndInv
        <3> QED
            BY <3>1, <3>2
    <2> QED
        BY <2>1, <2>2 DEF EndInv
<1>3. ASSUME NEW r \in Requests, NEW g \in Grants, Redeem(r, g) PROVE EndInv'
    <2>1. Generate(r, g, ends, FALSE, TRUE) /\ UNCHANGED <<access, refresh, ends>>
        BY <1>3 DEF Redeem, rows
    <2>2. /\ issued' = issued + 1 /\ gen' = [gen EXCEPT ![issued'] = ends] /\ late' = late
        BY <2>1 DEF Generate
    <2>3. /\ \A p \in 1..issued : gen'[p] = gen[p]
          /\ gen'[issued'] = ends
        BY <1>1, <2>1, <2>2, Bounds DEF TypeOK, Generate
    <2>4. work'[r].pair = issued' /\ \A q \in Requests : q # r => work'[q] = work[q]
        BY <2>1 DEF TypeOK, Generate, Goes
    <2> QED
        BY <1>2, <2>1, <2>2, <2>3, <2>4
<1>4. ASSUME NEW r \in Requests, NEW p \in refresh,
             Generate(r, None, gen[p], p \in late, work[r].client),
             UNCHANGED <<access, refresh, ends>>
      PROVE  EndInv'
    <2>1. /\ issued' = issued + 1 /\ gen' = [gen EXCEPT ![issued'] = gen[p]]
          /\ late \subseteq late' /\ (p \in late => issued' \in late')
        BY <1>4 DEF Generate
    <2>2. /\ \A x \in 1..issued : gen'[x] = gen[x]
          /\ gen'[issued'] = gen[p]
        BY <1>1, <1>4, <2>1, Bounds DEF TypeOK, Generate
    <2>3. work'[r].pair = issued' /\ \A q \in Requests : q # r => work'[q] = work[q]
        BY <1>4 DEF TypeOK, Generate, Goes
    <2>4. issued' \notin late' => gen'[issued'] = ends
        BY <2>1, <2>2 DEF EndInv
    <2> QED
        BY <1>2, <1>4, <2>1, <2>2, <2>3, <2>4
<1>5. ASSUME UNCHANGED <<issued, origin, gen>> PROVE EndInv'
    <2>1. ASSUME UNCHANGED <<late, ends>>,
                 \A p \in (access' \union refresh') \ late : gen[p] = ends
          PROVE  EndInv'
        <3>1. ASSUME NEW q \in Requests, work'[q].at = "issuing", work'[q].pair \notin late'
              PROVE  gen'[work'[q].pair] = ends'
            BY <1>5, <2>1, <3>1, IssuingIs DEF EndInv
        <3> QED
            BY <1>5, <2>1, <3>1 DEF EndInv
    <2>2. CASE /\ UNCHANGED <<late, ends>>
               /\ access' \subseteq access /\ refresh' \subseteq refresh
        BY <2>1, <2>2 DEF EndInv
    <2>3. ASSUME NEW r \in Requests, NEW kind \in {"access", "refresh"}, Store(r, kind)
          PROVE  EndInv'
        BY <2>1, <2>3 DEF Store, EndInv
    <2>4. CASE DeleteConnection
        <3>1. /\ access' = {} /\ refresh' = {}
              /\ \A q \in Requests : work[q].at = "issuing" => work[q].pair \in late'
            <4>1. access' = {} /\ refresh' = {}
                BY <2>4 DEF DeleteConnection, AccessAfterDisconnect, RefreshGone
            <4> QED
                BY <2>4, <4>1 DEF DeleteConnection
        <3>2. ASSUME NEW q \in Requests, work'[q].at = "issuing" PROVE work'[q].pair \in late'
            BY <1>5, <3>1, <3>2, IssuingIs
        <3> QED
            BY <3>1, <3>2 DEF EndInv
    <2> QED
        BY <1>5, <2>2, <2>3, <2>4, ConnectionChange
<1> QED
    BY <1>3, <1>4, <1>5, PairsGrow

-----------------------------------------------------------------------------
(* The client that behaves.                                                *)

LEMMA UnspentStep == TypeOK /\ Unspent /\ [Next]_vars => Unspent'
<1> SUFFICES ASSUME TypeOK, Unspent, [Next]_vars PROVE Unspent'
    OBVIOUS
<1>1. Pair' = Pair /\ Forever' = Forever /\ until \in [Pair -> 0..Forever]
    BY DEF Pair, Forever, TypeOK
<1>2. CASE UNCHANGED <<superseded, until, stamped>>
    BY <1>1, <1>2 DEF Unspent
<1>3. ASSUME NEW ps, RefreshGone(ps) PROVE Unspent'
    BY <1>1, <1>3 DEF Unspent, RefreshGone
<1>4. ASSUME NEW r \in Requests, Save(r), work[r].pair \in refresh PROVE Unspent'
    BY <1>1, <1>4 DEF Unspent, Save
<1> QED
    BY <1>2, <1>3, <1>4, RowsChange

\* Requests that end, or that only wait for a consent, disturb nobody.
LEMMA ConnectedStays ==
    ASSUME Connected, UNCHANGED <<superseded, until, client, now>>, refresh \subseteq refresh',
           \A q \in Requests : work'[q] = work[q] \/ work'[q].at \in {"rest", "approve", "deny"}
    PROVE  Connected'
<1>1. client' # None => client' \in refresh' /\ until'[client'] > now'
    BY DEF Connected
<1>2. ASSUME NEW r \in Requests PROVE Steady(r)'
    BY DEF Connected, Steady
<1>3. ASSUME NEW r \in Requests, NEW q \in Requests PROVE Apart(r, q)'
    BY DEF Connected, Apart
<1> QED
    BY <1>1, <1>2, <1>3 DEF Connected

\* A new pair is nobody's yet.
LEMMA ConnectedGenerates ==
    ASSUME TypeOK, Connected, NEW r \in Requests,
           issued' = issued + 1, UNCHANGED <<refresh, client, now>>,
           work'[r].at = "issuing", work'[r].pair = issued', "refresh" \in work'[r].left,
           \A q \in Requests : q # r => work'[q] = work[q],
           superseded' \subseteq 1..issued,
           \A q \in Requests : q # r /\ work[q].at = "issuing" =>
              work[q].pair \notin superseded',
           \A p \in Pair : until[p] > now => until'[p] > now
    PROVE  Connected'
<1>1. /\ issued \in Nat /\ client \in 0..issued /\ Pair = 1..MaxPairs /\ MaxPairs \in Nat
      /\ issued <= MaxPairs /\ None = 0
    BY Bounds DEF TypeOK, None
<1>2. \A q \in Requests : work[q].at \in {"sent", "save", "issuing"} =>
                              work[q].pair \in 1..issued
    BY DEF TypeOK, Work
<1>3. client' # None => client' \in refresh' /\ until'[client'] > now'
    BY <1>1 DEF Connected
<1>4. ASSUME NEW q \in Requests PROVE Steady(q)'
    <2>1. CASE q = r
        BY <1>1, <2>1 DEF Steady
    <2>2. CASE q # r
        BY <1>1, <1>2, <2>2 DEF Connected, Steady
    <2> QED
        BY <2>1, <2>2
<1>5. ASSUME NEW q \in Requests, NEW x \in Requests PROVE Apart(q, x)'
    <2>1. CASE q = r \/ x = r
        BY <1>1, <1>2, <2>1 DEF Apart
    <2>2. CASE q # r /\ x # r
        BY <2>2 DEF Connected, Apart
    <2> QED
        BY <2>1, <2>2
<1> QED
    BY <1>3, <1>4, <1>5 DEF Connected

LEMMA ClientStep == TypeOK /\ Unspent /\ ClientInv /\ [Next]_vars => ClientInv'
<1> SUFFICES ASSUME TypeOK, Unspent, ClientInv, [Next]_vars, disturbed' = FALSE
             PROVE  Connected'
    BY DEF ClientInv
<1>1. disturbed = FALSE => Connected
    BY DEF ClientInv
<1>2. /\ issued \in Nat /\ client \in 0..issued /\ now \in Nat /\ now <= MaxTime
      /\ superseded \subseteq 1..issued /\ issued <= MaxPairs
      /\ until \in [Pair -> Nat]
    BY Bounds DEF TypeOK
<1>3. \A q \in Requests : work[q].at \in {"sent", "save", "issuing"} =>
                              work[q].pair \in 1..issued
    BY DEF TypeOK, Work
<1>4. \A p \in 1..issued : p \in Pair /\ (p \notin superseded => until[p] = Forever)
    BY <1>2, Bounds DEF Unspent
<1>5. CASE UNCHANGED vars
    BY <1>1, <1>5, ConnectedStays DEF vars, rows, flags
<1>6. ASSUME NEW g \in Grants, Authorize(g) \/ GrantExpires(g) PROVE Connected'
    BY <1>1, <1>6, ConnectedStays DEF Authorize, GrantExpires, ConsentUnchanged, rows, flags
<1>7. ASSUME NEW r \in Requests, NEW g \in Grants, NEW answer \in {"approve", "deny"},
             Answering(r, g, answer)
      PROVE  Connected'
    <2>1. \A q \in Requests : work'[q] = work[q] \/ work'[q].at \in {"rest", "approve", "deny"}
        BY <1>7 DEF TypeOK, Answering, Begins, Goes
    <2> QED
        BY <1>1, <1>7, <2>1, ConnectedStays DEF Answering, ConsentUnchanged, rows, flags
<1>8. ASSUME NEW r \in Requests, Approve(r) \/ Deny(r) \/ Fail(r) PROVE Connected'
    <2>1. \A q \in Requests : work'[q] = work[q] \/ work'[q].at \in {"rest", "approve", "deny"}
        BY <1>8 DEF TypeOK, Approve, Deny, Fail, Goes, Rest
    <2> QED
        BY <1>1, <1>8, <2>1, ConnectedStays
        DEF Approve, Deny, Fail, ConsentUnchanged, rows, flags
<1>9. ASSUME NEW r \in Requests, Teardown(r) PROVE FALSE
    BY <1>1, <1>9 DEF Connected, Steady, Teardown
<1>10. ASSUME Disconnect \/ (\E r \in Requests : Replay(r)) \/ (\E p \in Pair : RevokeToken(p))
       PROVE  FALSE
    BY <1>10 DEF Disconnect, Replay, RevokeToken
<1>11. ASSUME NEW r \in Requests, Refresh(r) PROVE Connected'
    <2>1. /\ client # None /\ work[r] = Rest
          /\ work'[r] = [at |-> "sent", pair |-> client, client |-> TRUE]
          /\ \A q \in Requests : q # r => work'[q] = work[q]
          /\ UNCHANGED <<superseded, until, client, now, refresh, disturbed>>
        BY <1>11 DEF TypeOK, Refresh, Begins, Goes, rows, flags
    <2>2. ASSUME NEW q \in Requests PROVE Steady(q)'
        BY <1>1, <2>1 DEF Connected, Steady
    <2>3. ASSUME NEW q \in Requests, NEW x \in Requests PROVE Apart(q, x)'
        BY <1>1, <2>1 DEF Connected, Steady, Apart
    <2> QED
        BY <1>1, <2>1, <2>2, <2>3 DEF Connected
<1>12. ASSUME NEW r \in Requests, NEW kind \in {"access", "refresh"}, Store(r, kind)
       PROVE  Connected'
    <2>1. /\ work[r].at = "issuing" /\ work'[r].at = "issuing"
          /\ work'[r].pair = work[r].pair
          /\ work'[r].left = work[r].left \ {kind}
          /\ \A q \in Requests : q # r => work'[q] = work[q]
          /\ UNCHANGED <<superseded, until, client, now, disturbed>>
          /\ refresh \subseteq refresh'
          /\ kind = "refresh" => work[r].pair \in refresh'
        BY <1>12 DEF TypeOK, Store, Goes, flags, Work
    <2>2. ASSUME NEW q \in Requests PROVE Steady(q)'
        BY <1>1, <2>1 DEF Connected, Steady
    <2>3. ASSUME NEW q \in Requests, NEW x \in Requests PROVE Apart(q, x)'
        BY <1>1, <2>1 DEF Connected, Apart
    <2> QED
        BY <1>1, <2>1, <2>2, <2>3 DEF Connected
<1>13. ASSUME NEW r \in Requests, Answer(r) PROVE Connected'
    <2>1. /\ work[r].at = "issuing" /\ work[r].left = {}
          /\ client' = client \/ client' = work[r].pair
          /\ work'[r] = Rest
          /\ \A q \in Requests : q # r => work'[q] = work[q]
          /\ UNCHANGED <<superseded, until, now, refresh, disturbed>>
        BY <1>13 DEF TypeOK, Answer, Goes, rows, flags
    <2>2. work[r].pair \in refresh /\ until[work[r].pair] > now
        <3>1. work[r].pair \in refresh /\ work[r].pair \notin superseded
            BY <1>1, <2>1 DEF Connected, Steady
        <3> QED
            BY <1>2, <1>3, <1>4, <2>1, <3>1, OAuthAssumption DEF Forever
    <2>3. ASSUME NEW q \in Requests PROVE Steady(q)'
        <3>1. CASE q = r
            BY <2>1, <3>1 DEF Steady, Rest
        <3>2. CASE q # r
            BY <1>1, <2>1, <3>2 DEF Connected, Steady, Apart
        <3> QED
            BY <3>1, <3>2
    <2>4. ASSUME NEW q \in Requests, NEW x \in Requests PROVE Apart(q, x)'
        BY <1>1, <2>1 DEF Connected, Apart, Rest
    <2> QED
        BY <1>1, <2>1, <2>2, <2>3, <2>4 DEF Connected
<1>14. ASSUME NEW r \in Requests, NEW g \in Grants, Redeem(r, g) PROVE Connected'
    <2>1. /\ issued' = issued + 1
          /\ UNCHANGED <<superseded, until, client, now, refresh, disturbed>>
          /\ work'[r].at = "issuing" /\ work'[r].pair = issued'
          /\ "refresh" \in work'[r].left
          /\ \A q \in Requests : q # r => work'[q] = work[q]
        BY <1>14 DEF TypeOK, Redeem, Generate, Goes, rows, flags
    <2>2. \A q \in Requests : work[q].at = "issuing" => work[q].pair \notin superseded'
        BY <1>1, <2>1 DEF Connected, Steady
    <2> QED
        BY <1>1, <1>2, <2>1, <2>2, ConnectedGenerates
<1>15. ASSUME NEW r \in Requests, Find(r) PROVE Connected'
    <2>1. /\ work[r].at = "sent"
          /\ UNCHANGED <<superseded, until, client, now, refresh, disturbed>>
        BY <1>15 DEF Find, RotateUnchanged, flags
    <2>2. work[r].client = TRUE /\ until[work[r].pair] > now /\ until[work[r].pair] \in Nat
        BY <1>1, <1>2, <1>3, <1>4, <2>1 DEF Connected, Steady
    <2>3. \/ Goes(r, Rest)
          \/ Goes(r, [at |-> "save", pair |-> work[r].pair, client |-> work[r].client,
                      now |-> now])
          \/ Generate(r, None, gen[work[r].pair], work[r].pair \in late, work[r].client)
        BY <1>2, <1>15, <2>2 DEF Find
    <2>4. CASE Goes(r, Rest)
        <3>1. \A q \in Requests : work'[q] = work[q] \/ work'[q].at = "rest"
            BY <2>4 DEF TypeOK, Goes, Rest
        <3> QED
            BY <1>1, <2>1, <3>1, ConnectedStays
    <2>5. CASE Goes(r, [at |-> "save", pair |-> work[r].pair, client |-> work[r].client,
                        now |-> now])
        <3>1. /\ work'[r] = [at |-> "save", pair |-> work[r].pair,
                             client |-> work[r].client, now |-> now]
              /\ \A q \in Requests : q # r => work'[q] = work[q]
            BY <2>5 DEF TypeOK, Goes
        <3>2. now + Grace > now
            BY <1>2, OAuthAssumption
        <3>3. ASSUME NEW q \in Requests PROVE Steady(q)'
            BY <1>1, <2>1, <2>2, <3>1, <3>2 DEF Connected, Steady
        <3>4. ASSUME NEW q \in Requests, NEW x \in Requests PROVE Apart(q, x)'
            BY <1>1, <2>1, <3>1 DEF Connected, Apart
        <3> QED
            BY <1>1, <2>1, <3>3, <3>4 DEF Connected
    <2>6. CASE Generate(r, None, gen[work[r].pair], work[r].pair \in late, work[r].client)
        <3>1. /\ issued' = issued + 1
              /\ work'[r].at = "issuing" /\ work'[r].pair = issued'
              /\ "refresh" \in work'[r].left
              /\ \A q \in Requests : q # r => work'[q] = work[q]
            BY <2>6 DEF TypeOK, Generate, Goes
        <3>2. \A q \in Requests : work[q].at = "issuing" => work[q].pair \notin superseded'
            BY <1>1, <2>1 DEF Connected, Steady
        <3> QED
            BY <1>1, <1>2, <2>1, <3>1, <3>2, ConnectedGenerates
    <2> QED
        BY <2>3, <2>4, <2>5, <2>6
<1>16. ASSUME NEW r \in Requests, Save(r) PROVE Connected'
    <2>1. work[r].at = "save" /\ UNCHANGED <<client, now, refresh, disturbed>>
        BY <1>16 DEF Save, RotateUnchanged, flags
    <2>2. CASE work[r].pair \notin refresh
        <3>1. Goes(r, Rest) /\ UNCHANGED <<superseded, until>>
            BY <1>16, <2>2 DEF Save
        <3>2. \A q \in Requests : work'[q] = work[q] \/ work'[q].at = "rest"
            BY <3>1 DEF TypeOK, Goes, Rest
        <3> QED
            BY <1>1, <2>1, <3>1, <3>2, ConnectedStays
    <2>3. CASE work[r].pair \in refresh
        <3>1. /\ superseded' = superseded \union {work[r].pair}
              /\ until' = [until EXCEPT ![work[r].pair] = work[r].now + Grace]
              /\ Generate(r, None, gen[work[r].pair], work[r].pair \in late, work[r].client)
            BY <1>16, <2>3 DEF Save, Window
        <3>2. /\ issued' = issued + 1
              /\ work'[r].at = "issuing" /\ work'[r].pair = issued'
              /\ "refresh" \in work'[r].left
              /\ \A q \in Requests : q # r => work'[q] = work[q]
            BY <3>1 DEF TypeOK, Generate, Goes
        <3>3. \A q \in Requests : q # r /\ work[q].at = "issuing" =>
                                      work[q].pair \notin superseded'
            BY <1>1, <2>1, <3>1 DEF Connected, Steady, Apart
        <3>4. work[r].now + Grace > now
            BY <1>1, <2>1 DEF Connected, Steady
        <3>5. \A p \in Pair : until[p] > now => until'[p] > now
            BY <1>2, <3>1, <3>4
        <3>6. superseded' \subseteq 1..issued
            BY <1>2, <1>3, <2>1, <3>1
        <3> QED
            BY <1>1, <2>1, <3>2, <3>3, <3>5, <3>6, ConnectedGenerates
    <2> QED
        BY <2>2, <2>3
<1>17. CASE Tick
    <2>1. /\ now' = now + 1 /\ now < MaxTime
          /\ UNCHANGED <<superseded, until, client, refresh, work, disturbed>>
        BY <1>17 DEF Tick, rows, flags
    <2>2. \A p \in 1..issued : p \notin superseded => until[p] > now + 1
        BY <1>2, <1>4, <2>1, OAuthAssumption DEF Forever
    <2>3. client # None => client \in refresh' /\ until'[client] > now'
        BY <1>1, <1>2, <1>17, <2>1, <2>2 DEF Connected, Tick, None
    <2>4. ASSUME NEW q \in Requests PROVE Steady(q)'
        <3>1. CASE work[q].at = "sent"
            BY <1>1, <1>3, <1>17, <2>1, <2>2, <3>1 DEF Connected, Steady, Tick
        <3>2. CASE work[q].at = "save"
            BY <1>1, <1>17, <2>1, <3>2 DEF Connected, Steady, Tick
        <3>3. CASE work[q].at \notin {"sent", "save"}
            BY <1>1, <2>1, <3>3 DEF Connected, Steady
        <3> QED
            BY <3>1, <3>2, <3>3
    <2>5. ASSUME NEW q \in Requests, NEW x \in Requests PROVE Apart(q, x)'
        BY <1>1, <2>1 DEF Connected, Apart
    <2> QED
        BY <1>1, <2>1, <2>3, <2>4, <2>5 DEF Connected
<1> QED
    BY <1>5, <1>6, <1>7, <1>8, <1>9, <1>10, <1>11, <1>12, <1>13, <1>14, <1>15, <1>16, <1>17
    DEF Next

-----------------------------------------------------------------------------
(* The theorems.                                                           *)

LEMMA InitIInv == Init => IInv
<1> SUFFICES ASSUME Init PROVE IInv
    OBVIOUS
<1>1. TypeOK
    BY TypeInit
<1>2. issued = 0 /\ access = {} /\ refresh = {} /\ superseded = {} /\ client = None
    BY DEF Init
<1>3. \A r \in Requests : work[r] = Rest
    BY DEF Init
<1>4. 1..0 = {}
    OBVIOUS
<1>5. ConsentInv
    BY <1>2, <1>4 DEF ConsentInv, OneConsentOnePair
<1>6. WindowInv /\ EndInv
    BY <1>2, <1>3 DEF WindowInv, WindowIsBounded, EndInv, Rest
<1>7. Unspent
    BY DEF Init, Unspent
<1>8. Connected
    BY <1>2, <1>3 DEF Connected, Steady, Apart, Rest
<1> QED
    BY <1>1, <1>5, <1>6, <1>7, <1>8 DEF IInv, ClientInv

LEMMA StepIInv == IInv /\ [Next]_vars => IInv'
BY TypeStep, ConsentStep, WindowStep, EndStep, UnspentStep, ClientStep DEF IInv

\* Every reachable state of the rows and requests satisfies the inductive invariant.
THEOREM Invariance == Spec => []IInv
<1>1. Init => IInv
    BY InitIInv
<1>2. IInv /\ [Next]_vars => IInv'
    BY StepIInv
<1> QED
    BY <1>1, <1>2, PTL DEF Spec

\* However often it retries and whatever answers are lost, the assistant's refresh
\* token works until the user or a stale copy ends the connection.
THEOREM ClientKeepsItsConnection == Spec => []ClientStaysConnected
<1>1. IInv => ClientStaysConnected
    BY DEF IInv, ClientInv, Connected, ClientStaysConnected, TypeOK
<1> QED
    BY <1>1, Invariance, PTL

\* A superseded refresh token lives one grace window, however it is presented.
THEOREM GraceIsNotRenewed == Spec => []WindowIsBounded
<1>1. IInv => WindowIsBounded
    BY DEF IInv, WindowInv
<1> QED
    BY <1>1, Invariance, PTL

\* A connection that was ended holds no token but the ones that were being written.
THEOREM EndedConnectionIsDead == Spec => []EndedIsDead
<1>1. IInv => EndedIsDead
    BY DEF IInv, EndInv, EndedIsDead
<1> QED
    BY <1>1, Invariance, PTL

\* One consent buys one pair of tokens, whatever clicks and exchanges race.
THEOREM ConsentBuysOnePair == Spec => []OneConsentOnePair
<1>1. IInv => OneConsentOnePair
    BY DEF IInv, ConsentInv
<1> QED
    BY <1>1, Invariance, PTL

=============================================================================
