------------------------------ MODULE AuthSession ------------------------------
(***************************************************************************)
(* Login sessions of one staff user: apps/api/src/modules/auth             *)
(* (auth-session.service, session.controller, the refresh and logout of    *)
(* staff-auth.controller, auth-principal.service) and the browser's side   *)
(* of a refresh (packages/contracts/src/refresh-attempt, AuthProvider).    *)
(*                                                                         *)
(* A login is a family of session rows: each refresh retires one row and   *)
(* creates the next.  The browser keeps the newest token in a cookie and,  *)
(* while the answer of a refresh is missing, the identity of its attempt.  *)
(* Requests are delayed or lost, answers are lost, pages are reloaded with *)
(* a request under way, and device commands end or rotate logins between.  *)
(* Each transaction is serializable and so one step.                       *)
(*                                                                         *)
(* A token is the row it was issued for; a row past one of its deadlines   *)
(* is stale, at a time of its own choosing (touchActivity only moves that  *)
(* time).  Left out: realms (a wrong one changes nothing), audit rows, and *)
(* a principal that is refused right after its refresh, which the next     *)
(* refresh finds out as well.                                              *)
(***************************************************************************)
EXTENDS Integers, FiniteSets

CONSTANTS
    Browsers,
    MaxSessions,   \* bound: rows of the Session table
    MaxAttempts,   \* bound: refresh-attempt identities
    MaxRequests,   \* bound: requests under way
    NoSession,     \* a row that does not exist
    None           \* no cookie, no successor, no record

Sessions == 1..MaxSessions

Attempts == 1..MaxAttempts

\* revokeReason; the code tells ROTATED from the others and nothing else, so
\* LOGOUT, LOGOUT_ALL, REVOKED, REPLAY_DETECTED, EXPIRED... are one: ENDED.
Reasons == {"ROTATED", "CREDENTIAL_CHANGED", "ENDED"}

VARIABLES
    session,    \* [Sessions -> the Session row or NoSession], by createdAt
    recovery,   \* [Sessions -> the attempt of its RefreshRecovery row or None]
    browser,    \* [Browsers -> cookie and pending attempt]
    requests,   \* refreshes and logouts under way
    removing,   \* the DELETE of a session that is under way (bound: one), or None
    attempts    \* identities given out

vars == <<session, recovery, browser, requests, removing, attempts>>

-----------------------------------------------------------------------------
(* Types                                                                   *)

\* status is LIVE while revokedAt is null, then the revokeReason; by is the
\* attempt that rotated the row (a history variable).
Row ==
    [family : Sessions, status : Reasons \cup {"LIVE"}, stale : BOOLEAN,
     next : Sessions \cup {None}, by : Attempts \cup {None}]

ASSUME AuthSessionAssumption ==
    /\ None \notin Browsers
    /\ MaxSessions \in Nat /\ MaxAttempts \in Nat /\ MaxRequests \in Nat
    /\ None \notin 1..MaxSessions /\ None \notin 1..MaxAttempts
    /\ NoSession \notin Row

\* fresh: younger than the client's window.
Browser ==
    [cookie : Sessions \cup {None}, attempt : Attempts \cup {None}, fresh : BOOLEAN]

\* waiting: the page still listens, and holds the cross-tab lock.
Request ==
    [kind : {"refresh", "logout"}, from : Browsers, token : Sessions,
     attempt : Attempts \cup {None}, waiting : BOOLEAN]

\* clears: the browser whose own login the row is.
Removal == [target : Sessions, clears : Browsers \cup {None}]

TypeOK ==
    /\ session \in [Sessions -> Row \cup {NoSession}]
    /\ recovery \in [Sessions -> Attempts \cup {None}]
    /\ browser \in [Browsers -> Browser]
    /\ requests \in SUBSET Request
    /\ Cardinality(requests) <= MaxRequests
    /\ removing \in Removal \cup {None}
    /\ attempts \in 0..MaxAttempts
    \* replacedBySessionId names the next row of a rotation, and nothing else.
    /\ \A s \in Sessions : session[s] # NoSession =>
          /\ session[s].status = "ROTATED" => session[s].next > s
          /\ session[s].status \in {"LIVE", "ENDED"} => session[s].next = None

-----------------------------------------------------------------------------
(* Helpers                                                                 *)

Existing == {s \in Sessions : session[s] # NoSession}

Is(s, status) == s \in Existing /\ session[s].status = status

Heads(f) == {s \in Existing : session[s].family = f /\ session[s].status = "LIVE"}

NewId == Cardinality(Existing) + 1

HasRoom == NewId \in Sessions

NewRow(family) ==
    [family |-> family, status |-> "LIVE", stale |-> FALSE, next |-> None, by |-> None]

\* Mutant: rows that are already revoked are written over.
EndOverwrites(rows, reason) ==
    [s \in Sessions |-> IF s \in rows
                          THEN [session[s] EXCEPT !.status = reason]
                          ELSE session[s]]

\* updateMany ... where revokedAt is null; the deadlines of a revoked row are
\* never read again.
End(rows, reason) ==
    [s \in Sessions |-> IF s \in rows /\ Is(s, "LIVE")
                          THEN [session[s] EXCEPT !.status = reason, !.stale = FALSE]
                          ELSE session[s]]

Family(s) == session[s].family

FamilyRows(s) == {t \in Existing : Family(t) = Family(s)}

\* The rows a bearer token of row s is accepted for: s itself, or the live
\* row of its family once a refresh has rotated it.
Principals(s) ==
    {t \in IF Is(s, "ROTATED") THEN Heads(Family(s)) ELSE {s} :
        Is(t, "LIVE") /\ ~session[t].stale}

SignedOut == [cookie |-> None, attempt |-> None, fresh |-> FALSE]

SignedIn(s) == [cookie |-> s, attempt |-> None, fresh |-> FALSE]

Init ==
    /\ session = [s \in Sessions |-> NoSession]
    /\ recovery = [s \in Sessions |-> None]
    /\ browser = [b \in Browsers |-> SignedOut]
    /\ requests = {}
    /\ removing = None
    /\ attempts = 0

-----------------------------------------------------------------------------
(* Signing in                                                              *)

\* createSession after both factors; the answer may be lost.
CreateSession(b) ==
    /\ HasRoom
    /\ session' = [session EXCEPT ![NewId] = NewRow(NewId)]
    /\ \/ browser' = [browser EXCEPT ![b] = SignedIn(NewId)]
       \/ UNCHANGED browser
    /\ UNCHANGED <<recovery, requests, removing, attempts>>

-----------------------------------------------------------------------------
(* The browser's requests                                                  *)

\* serializeCookieMutation: one listening request per browser.
Unlocked(b) == \A r \in requests : r.from = b => ~r.waiting

Put(r) ==
    /\ Cardinality(requests) < MaxRequests
    /\ requests' = requests \cup {r}
    /\ r \notin requests

\* A refresh that repeats the pending attempt, or starts one of its own.
SendRefresh(b) ==
    LET me == browser[b]
        Message(a) == [kind |-> "refresh", from |-> b, token |-> me.cookie,
                       attempt |-> a, waiting |-> TRUE]
    IN /\ Unlocked(b)
       /\ me.cookie # None
       /\ \/ /\ me.attempt # None /\ me.fresh
             /\ Put(Message(me.attempt))
             /\ UNCHANGED <<browser, attempts>>
          \/ /\ ~(me.attempt # None /\ me.fresh)
             /\ attempts < MaxAttempts
             /\ attempts' = attempts + 1
             /\ browser' = [browser EXCEPT ![b].attempt = attempts + 1,
                                           ![b].fresh = TRUE]
             /\ Put(Message(attempts + 1))
    /\ UNCHANGED <<session, recovery, removing>>

SendLogout(b) ==
    /\ Unlocked(b)
    /\ browser[b].cookie # None
    /\ Put([kind |-> "logout", from |-> b, token |-> browser[b].cookie,
            attempt |-> None, waiting |-> TRUE])
    /\ UNCHANGED <<session, recovery, browser, removing, attempts>>

\* Twelve seconds pass for the pending attempt.
AttemptAges(b) ==
    /\ browser[b].fresh
    /\ browser' = [browser EXCEPT ![b].fresh = FALSE]
    /\ UNCHANGED <<session, recovery, requests, removing, attempts>>

\* A reload or a cancellation: the request goes on without its page.
Reload(r) ==
    /\ r.waiting
    /\ requests' = (requests \ {r}) \cup {[r EXCEPT !.waiting = FALSE]}
    /\ UNCHANGED <<session, recovery, browser, removing, attempts>>

\* The request never reaches the server, or fails there with nothing done: by
\* an error of the server, or, a logout, by a refusal as well.
LoseRequest(r) ==
    /\ requests' = requests \ {r}
    /\ UNCHANGED <<session, recovery, browser, removing, attempts>>

\* The rate limit or the CSRF proof refuses a refresh with nothing done: an
\* answer is definitive, and the page that gets it gives its attempt up.
RefuseRefresh(r) ==
    /\ r.kind = "refresh" /\ r.waiting
    /\ requests' = requests \ {r}
    /\ browser' = [browser EXCEPT ![r.from].attempt = None, ![r.from].fresh = FALSE]
    /\ UNCHANGED <<session, recovery, removing, attempts>>

\* The cookies of an answer: it may be lost, and an abandoned page has no use
\* for it.  When the server fails after it has set new cookies, while it looks
\* up the principal, the browser has them and still repeats its attempt.
Answer(r, then) ==
    /\ requests' = requests \ {r}
    /\ \/ r.waiting /\ browser' = [browser EXCEPT ![r.from] = then]
       \/ /\ r.waiting /\ then.cookie # None
          /\ browser' = [browser EXCEPT ![r.from].cookie = then.cookie]
       \/ UNCHANGED browser

-----------------------------------------------------------------------------
(* rotateSession                                                           *)

\* recoverAttempt: the same attempt, in its window, and its successor is the
\* live head.
Recoverable(r) ==
    /\ r.attempt # None
    /\ recovery[r.token] = r.attempt
    /\ Is(session[r.token].next, "LIVE")
    /\ ~session[session[r.token].next].stale

\* Mutant: a row that is not live may be rotated.
RotatesUnfenced(r) == ~session[r.token].stale

Rotates(r) == Is(r.token, "LIVE") /\ ~session[r.token].stale

Record(r) == [recovery EXCEPT ![r.token] = r.attempt]

RotateSession(r) ==
    /\ r.kind = "refresh"
    /\ \/ /\ Rotates(r) /\ HasRoom
          /\ session' = [session EXCEPT
                            ![NewId] = NewRow(Family(r.token)),
                            ![r.token].status = "ROTATED",
                            ![r.token].next = NewId,
                            ![r.token].by = r.attempt]
          /\ recovery' = Record(r)
          /\ Answer(r, SignedIn(NewId))
       \/ /\ Is(r.token, "ROTATED") /\ Recoverable(r)
          /\ Answer(r, SignedIn(session[r.token].next))
          /\ UNCHANGED <<session, recovery>>
       \/ /\ Is(r.token, "ROTATED") /\ ~Recoverable(r)
          /\ session' = End(FamilyRows(r.token), "ENDED")
          /\ Answer(r, SignedOut)
          /\ UNCHANGED recovery
       \/ /\ Is(r.token, "LIVE") /\ session[r.token].stale
          /\ session' = End(FamilyRows(r.token), "ENDED")
          /\ Answer(r, SignedOut)
          /\ UNCHANGED recovery
       \/ /\ ~Is(r.token, "LIVE") /\ ~Is(r.token, "ROTATED")
          /\ Answer(r, SignedOut)
          /\ UNCHANGED <<session, recovery>>
    /\ UNCHANGED <<removing, attempts>>

-----------------------------------------------------------------------------
(* revokeByRefreshToken                                                    *)

\* Mutant: a rotated token is refused like any other revoked one.
LogoutRowsOfRow(s) == {s}

\* The rows a logout with the token of s ends, if they are live.
LogoutRows(s) == IF Is(s, "ROTATED") THEN FamilyRows(s) ELSE {s}

RevokeByRefreshToken(r) ==
    /\ r.kind = "logout"
    /\ session' = End(LogoutRows(r.token), "ENDED")
    /\ Answer(r, SignedOut)
    /\ UNCHANGED <<recovery, removing, attempts>>

-----------------------------------------------------------------------------
(* Commands that carry a bearer token: of any row, since other tabs and     *)
(* other devices keep theirs.  The caller's cookies may be those of a       *)
(* browser of the model.                                                    *)

Caller(b, s) == browser[b].cookie # None /\ Family(browser[b].cookie) = Family(s)

\* remove, first half: resolveLiveSessionId reads outside a transaction.
ResolveLiveSessionId(bearer, s) ==
    /\ removing = None
    /\ Principals(bearer) # {}
    /\ \E target \in IF Is(s, "ROTATED") /\ Heads(Family(s)) # {}
                       THEN Heads(Family(s)) ELSE {s},
          clears \in {b \in Browsers : Caller(b, bearer)} \cup {None} :
         /\ clears # None => target \in Principals(bearer)
         /\ removing' = [target |-> target, clears |-> clears]
    /\ UNCHANGED <<session, recovery, browser, requests, attempts>>

\* remove, second half: revokeUserSession; the cookies go with the own row.
RevokeUserSession ==
    /\ removing # None
    /\ session' = End({removing.target}, "ENDED")
    /\ browser' = [b \in Browsers |-> IF b = removing.clears
                                        THEN [browser[b] EXCEPT !.cookie = None]
                                        ELSE browser[b]]
    /\ removing' = None
    /\ UNCHANGED <<recovery, requests, attempts>>

RevokeAllSessions(bearer) ==
    /\ Principals(bearer) # {}
    /\ session' = End(Existing, "ENDED")
    /\ \/ \E b \in Browsers : /\ Caller(b, bearer)
                              /\ browser' = [browser EXCEPT ![b].cookie = None]
       \/ UNCHANGED browser
    /\ UNCHANGED <<recovery, requests, removing, attempts>>

\* regenerateRecoveryCodes
RevokeOtherSessionFamilies(bearer) ==
    /\ \E p \in Principals(bearer) :
         session' = End(Existing \ FamilyRows(p), "CREDENTIAL_CHANGED")
    /\ UNCHANGED <<recovery, browser, requests, removing, attempts>>

\* A password change takes no cross-tab lock and no attempt identity.
RotateSessionAfterCredentialChange(bearer) ==
    /\ HasRoom
    /\ \E p \in Principals(bearer) :
         session' = [End((Existing \ FamilyRows(p)) \cup {p}, "CREDENTIAL_CHANGED")
                        EXCEPT ![p].next = NewId, ![NewId] = NewRow(Family(p))]
    /\ \/ \E b \in Browsers : /\ Caller(b, bearer)
                              /\ browser' = [browser EXCEPT ![b].cookie = NewId]
       \/ UNCHANGED browser
    /\ UNCHANGED <<recovery, requests, removing, attempts>>

-----------------------------------------------------------------------------
(* Time                                                                    *)

\* A live row passes its inactivity deadline or its family's expiry.
GoStale(s) ==
    /\ Is(s, "LIVE") /\ ~session[s].stale
    /\ session' = [session EXCEPT ![s].stale = TRUE]
    /\ UNCHANGED <<recovery, browser, requests, removing, attempts>>

\* Mutant: the server's window is not longer than the client's.
WindowMayEndEarly(s) == recovery[s] # None

\* The server keeps a record three seconds longer than the browser, which made
\* up the identity before the record was written, repeats the attempt.
WindowMayEnd(s) ==
    /\ recovery[s] # None
    /\ \A b \in Browsers : ~(browser[b].attempt = recovery[s] /\ browser[b].fresh)

\* The record expires, and is purged.
PurgeExpiredRecoveries(s) ==
    /\ WindowMayEnd(s)
    /\ recovery' = [recovery EXCEPT ![s] = None]
    /\ UNCHANGED <<session, browser, requests, removing, attempts>>

Next ==
    \/ \E b \in Browsers :
         CreateSession(b) \/ SendRefresh(b) \/ SendLogout(b) \/ AttemptAges(b)
    \/ \E r \in requests :
         \/ Reload(r) \/ LoseRequest(r) \/ RefuseRefresh(r)
         \/ RotateSession(r) \/ RevokeByRefreshToken(r)
    \/ \E s \in Existing :
         \/ \E t \in Existing : ResolveLiveSessionId(s, t)
         \/ RevokeAllSessions(s) \/ RevokeOtherSessionFamilies(s)
         \/ RotateSessionAfterCredentialChange(s)
         \/ GoStale(s) \/ PurgeExpiredRecoveries(s)
    \/ RevokeUserSession

Spec == Init /\ [][Next]_vars

-----------------------------------------------------------------------------
(* Properties                                                              *)

\* Retries, delayed duplicates and device commands never branch a login: a
\* family has at most one live row.  (rotateSession, its recovery, and the
\* rotation of a password change.)
OneHead == \A f \in Sessions : Cardinality(Heads(f)) <= 1

\* A login that has ended stays ended: no command, and no late or repeated
\* request, gives a family without a live row a live row again.
EndedStaysEnded ==
    [][\A f \in Existing : Heads(f) = {} => Heads(f)' = {}]_vars

\* A lost answer costs nobody the login: while the browser still repeats the
\* attempt that rotated its cookie, and unless the login has ended or a password
\* change has come between, the repetition is answered with the live head.
LostAnswerRecoverable ==
    \A b \in Browsers :
        LET c == browser[b].cookie
        IN (/\ c # None /\ Is(c, "ROTATED")
            /\ browser[b].fresh /\ session[c].by = browser[b].attempt
            /\ Heads(Family(c)) # {}
            /\ \A s \in FamilyRows(c) : ~Is(s, "CREDENTIAL_CHANGED"))
           => /\ recovery[c] = browser[b].attempt
              /\ Heads(Family(c)) = {session[c].next}

\* A logout ends the login even when the browser never saw the newest token: a
\* token that a refresh has rotated stands for its whole family.
\* (revokeByRefreshToken)
LogoutEndsLogin ==
    [][\A r \in requests :
          (RevokeByRefreshToken(r) /\ (Is(r.token, "LIVE") \/ Is(r.token, "ROTATED")))
              => Heads(Family(r.token))' = {}]_vars

\* docs/AUTH_CONTRACT.md 4.2: "Logout, replay detection, inactivity/expiry and
\* credential change leave no live row, so those tokens stop working
\* immediately".  So once a credential change has retired a row, no access token
\* of that row, or of an earlier row of its login, is accepted any more.
CredentialChangeEndsTokens ==
    \A s, t \in Existing :
        s <= t /\ Family(s) = Family(t) /\ Is(t, "CREDENTIAL_CHANGED")
            => Principals(s) = {}

=============================================================================
