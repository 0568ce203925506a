--------------------------- MODULE AuthSessionProofs ---------------------------
(***************************************************************************)
(* What AuthSession's runs check on a small instance, proved for every     *)
(* number of browsers, rows, attempts and requests.                        *)
(***************************************************************************)
EXTENDS AuthSession, FiniteSetTheorems, TLAPS

-----------------------------------------------------------------------------
(* The inductive invariant                                                 *)

\* Rows are numbered without gaps; the rows of a family are no older than the
\* row that started it; a rotation leads to a younger row of its family; and a
\* live row is the youngest of its family.
Rows ==
    /\ Existing = 1..Cardinality(Existing)
    /\ \A s \in Existing :
         /\ Family(s) <= s
         /\ Is(s, "ROTATED") =>
              /\ session[s].by \in 1..attempts
              /\ session[s].next \in Existing /\ Family(session[s].next) = Family(s)
    /\ \A s, t \in Existing : Family(s) = Family(t) /\ Is(t, "LIVE") => s <= t

\* Cookies and tokens are those of rows, and attempts were given out.
Known ==
    /\ IsFiniteSet(requests)
    /\ \A b \in Browsers :
         /\ browser[b].cookie # None => browser[b].cookie \in Existing
         /\ browser[b].attempt # None => browser[b].attempt <= attempts
    /\ \A r \in requests :
         /\ r.token \in Existing
         /\ r.kind = "refresh" => r.attempt \in 1..attempts

\* The record of a rotation is kept while a browser repeats its attempt.
Recorded ==
    \A b \in Browsers, c \in Existing :
        Is(c, "ROTATED") /\ browser[b].fresh /\ session[c].by = browser[b].attempt
            => recovery[c] = browser[b].attempt

\* Browser b has the login f in its cookie or in a request under way.
Mine(b, f) ==
    \/ browser[b].cookie # None /\ Family(browser[b].cookie) = f
    \/ \E r \in requests : r.from = b /\ Family(r.token) = f

\* A login belongs to one browser.
Owned == \A a, b \in Browsers, f \in Sessions : Mine(a, f) /\ Mine(b, f) => a = b

\* What a browser has under way for its login is not younger than its cookie.
Behind ==
    \A b \in Browsers, r \in requests :
        browser[b].cookie # None /\ Family(browser[b].cookie) = Family(r.token)
            => r.token <= browser[b].cookie

\* The successor of a cookie whose answer is missing is live, unless the login
\* has ended or a password change has come between.
Successor ==
    \A b \in Browsers :
        LET c == browser[b].cookie
        IN (/\ c # None /\ Is(c, "ROTATED")
            /\ browser[b].fresh /\ session[c].by = browser[b].attempt)
           => \/ Is(session[c].next, "LIVE")
              \/ Heads(Family(c)) = {}
              \/ \E s \in FamilyRows(c) : Is(s, "CREDENTIAL_CHANGED")

IInv == TypeOK /\ Rows /\ Known /\ Recorded /\ Owned /\ Behind /\ Successor

-----------------------------------------------------------------------------
(* What steps do to the rows                                               *)

\* No row is added; live rows may end.
Ends ==
    \A s \in Sessions :
        \/ session'[s] = session[s]
        \/ /\ Is(s, "LIVE")
           /\ session'[s] \in Row
           /\ session'[s].family = session[s].family /\ session'[s].next = session[s].next
           /\ session'[s].status # "ROTATED"

\* The next row is added to login f, whose other rows are not live any more.
Adds(f) ==
    /\ HasRoom
    /\ f \in Sessions /\ f <= NewId
    /\ session'[NewId] = NewRow(f)
    /\ \A s \in Sessions :
         \/ s = NewId
         \/ session'[s] = session[s]
         \/ /\ Is(s, "LIVE")
            /\ session'[s] \in Row
            /\ session'[s].family = session[s].family
            /\ session'[s].status \notin {"LIVE", "ENDED"}
            /\ session'[s].status = "ROTATED" =>
                 /\ session'[s].next = NewId /\ Family(s) = f
                 /\ session'[s].by \in 1..attempts
    /\ \A s \in Existing : Family(s) = f => session'[s].status # "LIVE"
    /\ f \notin Existing \/ Heads(f) # {}

\* Is, of the state after the step.
IsNext(s, status) == s \in Existing' /\ session'[s].status = status

\* A login that has ended stays so, and the end of its live row is its end.
HeadsStep ==
    /\ \A g \in Sessions : Heads(g) = {} => Heads(g)' = {} \/ g \notin Existing
    /\ \A s \in Existing, g \in Sessions :
         Is(s, "LIVE") /\ g = Family(s) /\ IsNext(s, "ENDED") => Heads(g)' = {}

\* What every step leaves of the rows that exist.
Kept ==
    /\ Existing \subseteq Existing'
    /\ \A s \in Existing :
         /\ session'[s].family = session[s].family
         /\ session[s].status # "LIVE" => session'[s] = session[s]

RowsTyped ==
    /\ session \in [Sessions -> Row \cup {NoSession}]
    /\ \A s \in Sessions : session[s] # NoSession =>
          /\ session[s].status = "ROTATED" => session[s].next > s
          /\ session[s].status \in {"LIVE", "ENDED"} => session[s].next = None

LEMMA SessionsFinite ==
    ASSUME NEW S \in SUBSET Sessions
    PROVE  IsFiniteSet(S) /\ Cardinality(S) \in Nat
<1>1. IsFiniteSet(Sessions)
  BY AuthSessionAssumption, FS_Interval DEF Sessions
<1>2. IsFiniteSet(S)
  BY <1>1, FS_Subset
<1> QED
  BY <1>2, FS_CardinalityType

\* The number of a new row is larger than all others.
LEMMA NewIdIsNew ==
    ASSUME Rows
    PROVE  /\ NewId \in Nat \ {0}
           /\ \A s \in Existing : s < NewId
           /\ NewId \notin Existing
<1>1. Existing \in SUBSET Sessions
  BY DEF Existing
<1>2. Cardinality(Existing) \in Nat
  BY <1>1, SessionsFinite
<1>3. Existing = 1..Cardinality(Existing)
  BY DEF Rows
<1> QED
  BY <1>2, <1>3 DEF NewId

LEMMA OneLiveRow ==
    ASSUME Rows, NEW s \in Existing, NEW t \in Existing,
           Is(s, "LIVE"), Is(t, "LIVE"), Family(s) = Family(t)
    PROVE  s = t
  BY DEF Rows, Existing, Sessions

LEMMA EndsRows ==
    ASSUME TypeOK, Rows, Ends, attempts' \in Nat, attempts <= attempts',
           session' \in [Sessions -> Row \cup {NoSession}]
    PROVE  /\ RowsTyped' /\ Rows' /\ Kept /\ HeadsStep
           /\ Existing' = Existing
           /\ \A s : IsNext(s, "ROTATED") => Is(s, "ROTATED") /\ session'[s] = session[s]
<1> USE AuthSessionAssumption
<1>1. Existing' = Existing
  <2>1. \A s \in Sessions : session'[s] = NoSession <=> session[s] = NoSession
    BY DEF Ends, Is, Existing
  <2> QED
    BY <2>1 DEF Existing
<1>2. \A s \in Existing : session[s] \in Row /\ session'[s] \in Row
  BY <1>1 DEF TypeOK, Existing
<1>3. Kept
  <2>1. Existing \subseteq Sessions
    BY DEF Existing
  <2> QED
    BY <1>1, <2>1 DEF Kept, Ends, Is
<1>4. \A s \in Existing : session'[s].status = "LIVE" => session[s].status = "LIVE"
  BY DEF Ends, Is, Existing
<1>5. \A s \in Existing : session'[s].status = "ROTATED" =>
         session[s].status = "ROTATED" /\ session'[s] = session[s]
  BY <1>2 DEF Ends, Is, Existing
<1>6. attempts \in Nat
  BY DEF TypeOK
<1>7. Rows'
  <2>1. (Existing = 1..Cardinality(Existing))'
    BY <1>1 DEF Rows
  <2>2. ASSUME NEW s \in Existing
        PROVE  /\ session'[s].family <= s
               /\ session'[s].status = "ROTATED" =>
                    /\ session'[s].by \in 1..attempts'
                    /\ session'[s].next \in Existing
                    /\ session'[session'[s].next].family = session'[s].family
    <3>1. session'[s].family <= s
      BY <1>3 DEF Kept, Rows, Family
    <3>2. ASSUME session'[s].status = "ROTATED"
          PROVE  /\ session'[s].by \in 1..attempts'
                 /\ session'[s].next \in Existing
                 /\ session'[session'[s].next].family = session'[s].family
      <4>1. session[s].status = "ROTATED" /\ session'[s] = session[s]
        BY <1>5, <3>2
      <4>2. /\ session[s].by \in 1..attempts
            /\ session[s].next \in Existing
            /\ session[session[s].next].family = session[s].family
        BY <4>1 DEF Rows, Is, Family
      <4> QED
        BY <4>1, <4>2, <1>3, <1>6 DEF Kept
    <3> QED
      BY <3>1, <3>2
  <2>3. ASSUME NEW s \in Existing, NEW t \in Existing,
               session'[s].family = session'[t].family, session'[t].status = "LIVE"
        PROVE  s <= t
    BY <2>3, <1>3, <1>4 DEF Kept, Rows, Is, Family
  <2> QED
    BY <2>1, <2>2, <2>3, <1>1 DEF Rows, Family, Is
<1>8. HeadsStep
  <2>1. \A g \in Sessions : Heads(g)' \subseteq Heads(g)
    BY <1>1, <1>3, <1>4 DEF Heads, Kept
  <2>2. ASSUME NEW s \in Existing, NEW g \in Sessions,
               Is(s, "LIVE"), g = Family(s), IsNext(s, "ENDED")
        PROVE  Heads(g)' = {}
    <3>1. ASSUME NEW t \in Heads(g) PROVE t = s
      <4>1. t \in Existing /\ Is(t, "LIVE") /\ Family(t) = Family(s)
        BY <2>2, <3>1 DEF Heads, Is, Family
      <4> QED
        BY <2>2, <4>1, OneLiveRow
    <3>2. s \notin Heads(g)'
      BY <2>2 DEF Heads, IsNext
    <3> QED
      BY <3>1, <3>2, <2>1
  <2> QED
    BY <2>1, <2>2 DEF HeadsStep
<1>9. RowsTyped'
  <2>1. ASSUME NEW s \in Existing
        PROVE  /\ session'[s].status = "ROTATED" => session'[s].next > s
               /\ session'[s].status \in {"LIVE", "ENDED"} => session'[s].next = None
    BY <1>5 DEF Ends, TypeOK, Existing, Is
  <2> QED
    BY <2>1, <1>1 DEF RowsTyped, Existing
<1> QED
  BY <1>1, <1>3, <1>5, <1>7, <1>8, <1>9 DEF Is, IsNext

LEMMA AddsRows ==
    ASSUME TypeOK, Rows, NEW f, Adds(f), attempts' = attempts,
           session' \in [Sessions -> Row \cup {NoSession}]
    PROVE  /\ RowsTyped' /\ Rows' /\ Kept /\ HeadsStep
           /\ Existing' = Existing \cup {NewId}
           /\ \A s \in Existing' : s <= NewId
           /\ IsNext(NewId, "LIVE") /\ session'[NewId].family = f
           /\ \A s : IsNext(s, "ROTATED") => s \in Existing
<1> USE AuthSessionAssumption
<1> DEFINE n == NewId
<1>0. n \in Nat \ {0} /\ n \notin Existing /\ \A s \in Existing : s < n
  BY NewIdIsNew
<1>1. n \in Sessions /\ NewRow(f) \in Row /\ NewRow(f) # NoSession
  <2>1. n \in Sessions /\ f \in Sessions
    BY DEF Adds, HasRoom
  <2>2. NewRow(f) \in Row
    BY <2>1 DEF NewRow, Row
  <2> QED
    BY <2>1, <2>2
<1>2. Existing' = Existing \cup {n}
  <2>1. \A s \in Sessions \ {n} : session'[s] = NoSession <=> session[s] = NoSession
    BY DEF Adds, Is, Existing
  <2>2. session'[n] # NoSession
    BY <1>1 DEF Adds
  <2> QED
    BY <2>1, <2>2, <1>1 DEF Existing
<1>3. \A s \in Existing : session[s] \in Row /\ session'[s] \in Row
  BY <1>2 DEF TypeOK, Existing
<1>4. /\ \A s \in Existing : session'[s].family = session[s].family
      /\ \A s \in Existing : session[s].status # "LIVE" => session'[s] = session[s]
  BY <1>0 DEF Adds, Is, Existing
<1>5. Kept
  BY <1>2, <1>4 DEF Kept
<1>6. /\ session'[n].family = f /\ session'[n].status = "LIVE" /\ session'[n].next = None
  BY DEF Adds, NewRow
<1>7. \A s \in Existing : session'[s].status = "LIVE" =>
         session[s].status = "LIVE" /\ session[s].family # f /\ session'[s] = session[s]
  BY <1>0 DEF Adds, Is, Existing, Family
<1>8. \A s \in Existing : session'[s].status = "ROTATED" =>
         \/ session'[s] = session[s]
         \/ session'[s].next = n /\ session[s].family = f /\ session'[s].by \in 1..attempts
  BY <1>0 DEF Adds, Is, Existing, Family
<1>9. Rows'
  <2>1. (Existing = 1..Cardinality(Existing))'
    <3>1. Existing \in SUBSET Sessions
      BY DEF Existing
    <3>2. Cardinality(Existing) \in Nat /\ n = Cardinality(Existing) + 1
      BY <3>1, SessionsFinite DEF NewId
    <3>3. Existing' = 1..n
      BY <3>2, <1>2 DEF Rows
    <3>4. Cardinality(1..n) = n
      BY <1>0, FS_Interval
    <3> QED
      BY <3>3, <3>4
  <2>2. ASSUME NEW s \in Existing'
        PROVE  /\ session'[s].family <= s
               /\ session'[s].status = "ROTATED" =>
                    /\ session'[s].by \in 1..attempts'
                    /\ session'[s].next \in Existing'
                    /\ session'[session'[s].next].family = session'[s].family
    <3>1. CASE s = n
      BY <3>1, <1>6 DEF Adds
    <3>2. CASE s \in Existing
      <4>1. session'[s].family <= s
        BY <3>2, <1>4 DEF Rows, Family
      <4>2. ASSUME session'[s].status = "ROTATED", session'[s] = session[s]
            PROVE  /\ session'[s].by \in 1..attempts'
                   /\ session'[s].next \in Existing'
                   /\ session'[session'[s].next].family = session'[s].family
        <5>1. /\ session[s].by \in 1..attempts
              /\ session[s].next \in Existing
              /\ session[session[s].next].family = session[s].family
          BY <4>2, <3>2 DEF Rows, Is, Family
        <5> QED
          BY <4>2, <5>1, <1>2, <1>4
      <4>3. ASSUME session'[s].next = n, session[s].family = f, session'[s].by \in 1..attempts
            PROVE  /\ session'[s].by \in 1..attempts'
                   /\ session'[s].next \in Existing'
                   /\ session'[session'[s].next].family = session'[s].family
        BY <4>3, <3>2, <1>2, <1>4, <1>6
      <4> QED
        BY <4>1, <4>2, <4>3, <3>2, <1>8
    <3> QED
      BY <3>1, <3>2, <1>2
  <2>3. ASSUME NEW s \in Existing', NEW t \in Existing',
               session'[s].family = session'[t].family, session'[t].status = "LIVE"
        PROVE  s <= t
    <3>1. CASE t = n
      BY <3>1, <1>0, <1>2 DEF Existing, Sessions
    <3>2. CASE t \in Existing
      <4>1. session[t].status = "LIVE" /\ session[t].family # f
        BY <2>3, <3>2, <1>7
      <4>2. s \in Existing
        BY <2>3, <3>2, <4>1, <1>2, <1>4, <1>6
      <4> QED
        BY <2>3, <3>2, <4>1, <4>2, <1>4 DEF Rows, Is, Family
    <3> QED
      BY <3>1, <3>2, <1>2
  <2> QED
    BY <2>1, <2>2, <2>3 DEF Rows, Family, Is
<1>10. RowsTyped'
  <2>1. ASSUME NEW s \in Existing
        PROVE  /\ session'[s].status = "ROTATED" => session'[s].next > s
               /\ session'[s].status \in {"LIVE", "ENDED"} => session'[s].next = None
    BY <1>0, <1>7, <1>8 DEF Adds, TypeOK, Existing, Sessions, Is
  <2> QED
    BY <2>1, <1>2, <1>6 DEF RowsTyped, Existing
<1>11. HeadsStep
  <2>1. \A g \in Sessions \ {f} : Heads(g)' \subseteq Heads(g)
    BY <1>2, <1>4, <1>6, <1>7 DEF Heads
  <2>2. ASSUME NEW s \in Existing, NEW g \in Sessions,
               Is(s, "LIVE"), g = Family(s), IsNext(s, "ENDED")
        PROVE  FALSE
    BY <2>2, <1>0 DEF Adds, Is, IsNext, Existing
  <2> QED
    BY <2>1, <2>2 DEF HeadsStep, Adds
<1>12. \A s \in Existing' : s <= n
  BY <1>0, <1>2 DEF Existing, Sessions
<1> QED
  BY <1>2, <1>5, <1>6, <1>9, <1>10, <1>11, <1>12 DEF IsNext

-----------------------------------------------------------------------------
(* What steps leave of the other parts                                     *)

\* No browser goes back to an attempt.
Repeats ==
    \A b \in Browsers : browser'[b].fresh =>
        \/ browser[b].fresh /\ browser'[b].attempt = browser[b].attempt
        \/ browser'[b].attempt = attempts + 1

LEMMA RecordedStep ==
    ASSUME TypeOK, Rows, Recorded, Repeats,
           \A c \in Existing' : Is(c, "ROTATED")' =>
              \/ /\ Is(c, "ROTATED") /\ session'[c] = session[c]
                 /\ \/ recovery'[c] = recovery[c]
                    \/ WindowMayEnd(c) /\ browser' = browser
              \/ recovery'[c] = session'[c].by
    PROVE  Recorded'
<1> SUFFICES ASSUME NEW b \in Browsers, NEW c \in Existing',
                    Is(c, "ROTATED")', browser'[b].fresh,
                    session'[c].by = browser'[b].attempt
             PROVE  recovery'[c] = browser'[b].attempt
  BY DEF Recorded
<1>1. CASE recovery'[c] = session'[c].by
  BY <1>1
<1>2. CASE Is(c, "ROTATED") /\ session'[c] = session[c]
  <2>1. session[c].by \in 1..attempts /\ attempts \in Nat /\ c \in Existing
    BY <1>2 DEF Rows, Is, TypeOK
  <2>2. browser[b].fresh /\ browser'[b].attempt = browser[b].attempt
    BY <1>2, <2>1 DEF Repeats
  <2>3. recovery[c] = browser[b].attempt
    BY <1>2, <2>1, <2>2 DEF Recorded
  <2>4. ~WindowMayEnd(c)
    BY <2>2, <2>3 DEF WindowMayEnd
  <2> QED
    BY <2>2, <2>3, <2>4, <1>1
<1> QED
  BY <1>1, <1>2

LEMMA OwnedStep ==
    ASSUME Owned, \A b \in Browsers, f \in Sessions : Mine(b, f)' => Mine(b, f)
    PROVE  Owned'
  BY DEF Owned

\* A cookie stays, goes, or becomes the youngest row of its login.
LEMMA BehindStep ==
    ASSUME TypeOK, Known, Behind, Kept,
           requests' \subseteq requests,
           \A b \in Browsers :
              \/ browser'[b].cookie \in {browser[b].cookie, None}
              \/ \A s \in Existing' :
                   session'[s].family = session'[browser'[b].cookie].family
                      => s <= browser'[b].cookie
    PROVE  Behind'
<1> SUFFICES ASSUME NEW b \in Browsers, NEW r \in requests', browser'[b].cookie # None,
                    session'[browser'[b].cookie].family = session'[r.token].family
             PROVE  r.token <= browser'[b].cookie
  BY DEF Behind, Family
<1>1. r \in requests /\ r.token \in Existing /\ r.token \in Existing'
  BY DEF Known, Kept
<1>2. CASE browser'[b].cookie = browser[b].cookie
  <2>1. browser[b].cookie \in Existing
    BY <1>2 DEF Known
  <2> QED
    BY <1>1, <1>2, <2>1 DEF Behind, Kept, Family
<1> QED
  BY <1>1, <1>2

\* The rows that were rotated before a step, and those that the step rotates.
LEMMA SuccessorStep ==
    ASSUME IInv, Repeats, Kept, Rows', RowsTyped', HeadsStep,
           \A b \in Browsers : browser'[b].fresh =>
              \/ browser'[b].cookie \in {browser[b].cookie, None}
              \/ IsNext(browser'[b].cookie, "LIVE"),
           \A s \in Existing : Is(s, "LIVE") /\ IsNext(s, "ROTATED") =>
              /\ IsNext(session'[s].next, "LIVE")
              /\ \E r \in requests : r.token = s
    PROVE  Successor'
<1> SUFFICES ASSUME NEW b \in Browsers, NEW c, c = browser'[b].cookie, c # None,
                    IsNext(c, "ROTATED"), browser'[b].fresh,
                    session'[c].by = browser'[b].attempt
             PROVE  \/ IsNext(session'[c].next, "LIVE")
                    \/ {s \in Existing' : /\ session'[s].family = session'[c].family
                                          /\ session'[s].status = "LIVE"} = {}
                    \/ \E s \in Existing' : /\ session'[s].family = session'[c].family
                                             /\ IsNext(s, "CREDENTIAL_CHANGED")
  BY DEF Successor, Family, FamilyRows, Heads, Is, IsNext
<1> USE DEF IInv
<1>1. c = browser[b].cookie /\ c \in Existing
  BY DEF IsNext, Known
<1>2. CASE session[c].status = "LIVE"
  BY <1>1, <1>2 DEF Is
<1>3. CASE session[c].status # "LIVE"
  <2>1. session'[c] = session[c] /\ Is(c, "ROTATED") /\ c \in Existing'
    BY <1>1, <1>3 DEF Kept, Is, IsNext
  <2>2. browser[b].fresh /\ session[c].by = browser[b].attempt
    <3>1. session[c].by \in 1..attempts /\ attempts \in Nat
      BY <2>1, <1>1 DEF Rows, TypeOK
    <3> QED
      BY <3>1, <2>1 DEF Repeats
  <2> DEFINE n == session[c].next
  <2>3. /\ n \in Existing /\ Family(n) = Family(c) /\ n > c /\ Family(c) \in Sessions
        /\ Family(c) \in Existing
    <3>1. c \in Sessions /\ session[c] \in Row
      BY <1>1 DEF TypeOK, Existing
    <3>2. n > c
      BY <2>1, <3>1 DEF TypeOK, Is, Existing
    <3>3. Family(c) <= c /\ Family(c) \in Sessions
      BY <1>1, <3>1 DEF Rows, Family, Row
    <3>4. Family(c) \in Existing
      <4>1. Cardinality(Existing) \in Nat
        BY SessionsFinite DEF Existing
      <4> QED
        BY <1>1, <3>3, <4>1 DEF Rows, Sessions
    <3> QED
      BY <2>1, <1>1, <3>2, <3>3, <3>4 DEF Rows
  <2>4. CASE Heads(Family(c)) = {}
    <3>1. PICK f \in Sessions : f = Family(c)
      BY <2>3
    <3>2. Heads(f)' = {}
      BY <3>1, <2>4, <2>3 DEF HeadsStep
    <3> QED
      BY <3>1, <3>2, <2>1 DEF Family, Heads
  <2>5. CASE \E s \in FamilyRows(c) : Is(s, "CREDENTIAL_CHANGED")
    <3>1. PICK s \in FamilyRows(c) : Is(s, "CREDENTIAL_CHANGED")
      BY <2>5
    <3>2. s \in Existing /\ Family(s) = Family(c) /\ session[s].status = "CREDENTIAL_CHANGED"
      BY <3>1 DEF FamilyRows, Is
    <3>3. s \in Existing' /\ session'[s] = session[s]
      BY <3>2 DEF Kept
    <3> QED
      BY <3>2, <3>3, <2>1 DEF IsNext, Family
  <2>6. CASE Is(n, "LIVE")
    <3>1. n \in Existing' /\ session'[n].family = session[c].family
      BY <2>3 DEF Kept, Family
    <3>2. session'[n].status \in {"LIVE", "ROTATED", "CREDENTIAL_CHANGED", "ENDED"}
      BY <3>1 DEF RowsTyped, Existing, Row, Reasons
    <3>3. session'[n].status # "ROTATED"
      <4>1. ASSUME session'[n].status = "ROTATED" PROVE FALSE
        <5>1. PICK r \in requests : r.token = n
          BY <4>1, <2>6, <3>1, <2>3 DEF IsNext
        <5>2. n <= c
          BY <5>1, <1>1, <2>3 DEF Behind
        <5> QED
          BY <5>2, <2>3, <1>1 DEF Existing, Sessions
      <4> QED
        BY <4>1
    <3>4. CASE session'[n].status = "LIVE"
      BY <3>4, <3>1, <2>1 DEF IsNext
    <3>5. CASE session'[n].status = "ENDED"
      <4>1. PICK f \in Sessions : f = Family(c)
        BY <2>3
      <4>2. Heads(f)' = {}
        BY <4>1, <3>5, <3>1, <2>3, <2>6 DEF IsNext, HeadsStep
      <4> QED
        BY <4>1, <4>2, <2>1 DEF Family, Heads
    <3>6. CASE session'[n].status = "CREDENTIAL_CHANGED"
      BY <3>6, <3>1, <2>1 DEF IsNext
    <3> QED
      BY <3>2, <3>3, <3>4, <3>5, <3>6
  <2> QED
    BY <1>1, <2>1, <2>2, <2>4, <2>5, <2>6 DEF Successor
<1> QED
  BY <1>2, <1>3

-----------------------------------------------------------------------------
(* The invariant is inductive                                              *)

RestTyped ==
    /\ recovery \in [Sessions -> Attempts \cup {None}]
    /\ browser \in [Browsers -> Browser]
    /\ requests \in SUBSET Request
    /\ Cardinality(requests) <= MaxRequests
    /\ removing \in Removal \cup {None}
    /\ attempts \in 0..MaxAttempts

LEMMA Types == TypeOK <=> RowsTyped /\ RestTyped
  BY DEF TypeOK, RowsTyped, RestTyped

\* No request is sent.
SameRequests ==
    \A r \in requests' : \E q \in requests :
        q.from = r.from /\ q.token = r.token /\ q.kind = r.kind /\ q.attempt = r.attempt

\* A cookie stays, goes, or becomes the live row
\* of a login that was the browser's before; attempts are only forgotten; a row
\* is rotated by a request with its token, which leaves a record.
BrowserStep ==
    /\ SameRequests
    /\ \A b \in Browsers :
         /\ \/ browser'[b].cookie \in {browser[b].cookie, None}
            \/ /\ IsNext(browser'[b].cookie, "LIVE")
               /\ Mine(b, session'[browser'[b].cookie].family)
         /\ browser'[b].attempt \in {browser[b].attempt, None}
         /\ browser'[b].fresh => browser[b].fresh /\ browser'[b].attempt = browser[b].attempt
    /\ \A s : IsNext(s, "ROTATED") =>
         \/ /\ Is(s, "ROTATED") /\ session'[s] = session[s]
            /\ recovery'[s] = recovery[s] \/ (WindowMayEnd(s) /\ browser' = browser)
         \/ /\ recovery'[s] = session'[s].by
            /\ IsNext(session'[s].next, "LIVE")
            /\ \E r \in requests : r.token = s

LEMMA StepPreserves ==
    ASSUME IInv, RowsTyped', Rows', Kept, HeadsStep, RestTyped', IsFiniteSet(requests'),
           attempts' = attempts, BrowserStep
    PROVE  IInv' /\ HeadsStep
<1> USE DEF IInv
<1>1. TypeOK'
  BY Types DEF TypeOK, RowsTyped, RestTyped
<1>2. Known'
  <2>1. ASSUME NEW b \in Browsers
        PROVE  /\ browser'[b].cookie # None => browser'[b].cookie \in Existing'
               /\ browser'[b].attempt # None => browser'[b].attempt <= attempts'
    BY <2>1 DEF BrowserStep, Known, IsNext, Kept
  <2>2. ASSUME NEW r \in requests'
        PROVE  /\ r.token \in Existing'
               /\ r.kind = "refresh" => r.attempt \in 1..attempts'
    BY <2>2 DEF BrowserStep, SameRequests, Known, Kept
  <2> QED
    BY <2>1, <2>2 DEF Known
<1>3. Repeats
  BY DEF BrowserStep, Repeats
<1>4. Recorded'
  <2>1. \A c \in Existing' : Is(c, "ROTATED")' =>
              \/ /\ Is(c, "ROTATED") /\ session'[c] = session[c]
                 /\ \/ recovery'[c] = recovery[c]
                    \/ WindowMayEnd(c) /\ browser' = browser
              \/ recovery'[c] = session'[c].by
    BY DEF BrowserStep, IsNext, Is
  <2> QED
    BY <1>3, <2>1, RecordedStep
<1>5. Owned'
  <2>1. ASSUME NEW b \in Browsers, NEW f \in Sessions, Mine(b, f)'
        PROVE  Mine(b, f)
    <3>1. CASE browser'[b].cookie # None /\ session'[browser'[b].cookie].family = f
      <4>1. CASE browser'[b].cookie = browser[b].cookie
        BY <3>1, <4>1 DEF Known, Kept, Mine, Family
      <4>2. CASE Mine(b, session'[browser'[b].cookie].family)
        BY <3>1, <4>2
      <4> QED
        BY <3>1, <4>1, <4>2 DEF BrowserStep
    <3>2. CASE \E r \in requests' : r.from = b /\ session'[r.token].family = f
      <4>1. PICK r \in requests' : r.from = b /\ session'[r.token].family = f
        BY <3>2
      <4>2. PICK q \in requests : q.from = r.from /\ q.token = r.token
        BY DEF BrowserStep, SameRequests
      <4> QED
        BY <4>1, <4>2 DEF Known, Kept, Mine, Family
    <3> QED
      BY <2>1, <3>1, <3>2 DEF Mine, Family
  <2> QED
    BY <2>1, OwnedStep
<1>6. Behind'
  <2> SUFFICES ASSUME NEW b \in Browsers, NEW r \in requests', browser'[b].cookie # None,
                      session'[browser'[b].cookie].family = session'[r.token].family
               PROVE  r.token <= browser'[b].cookie
    BY DEF Behind, Family
  <2>1. PICK q \in requests : q.token = r.token
    BY DEF BrowserStep, SameRequests
  <2>2. r.token \in Existing /\ r.token \in Existing'
    BY <2>1 DEF Known, Kept
  <2>3. CASE browser'[b].cookie = browser[b].cookie
    BY <2>1, <2>2, <2>3 DEF Known, Kept, Behind, Family
  <2>4. CASE IsNext(browser'[b].cookie, "LIVE")
    BY <2>2, <2>4 DEF Rows, IsNext, Is, Family
  <2> QED
    BY <2>3, <2>4 DEF BrowserStep
<1>7. Successor'
  <2>1. \A b \in Browsers : browser'[b].fresh =>
              \/ browser'[b].cookie \in {browser[b].cookie, None}
              \/ IsNext(browser'[b].cookie, "LIVE")
    BY DEF BrowserStep
  <2>2. \A s \in Existing : Is(s, "LIVE") /\ IsNext(s, "ROTATED") =>
              /\ IsNext(session'[s].next, "LIVE")
              /\ \E r \in requests : r.token = s
    BY DEF BrowserStep, Is
  <2> QED
    BY <1>3, <2>1, <2>2, SuccessorStep
<1> QED
  BY <1>1, <1>2, <1>4, <1>5, <1>6, <1>7

\* updateMany ends live rows and nothing else.
LEMMA EndEnds ==
    ASSUME TypeOK, NEW rows, NEW reason \in {"ENDED", "CREDENTIAL_CHANGED"},
           session' = End(rows, reason)
    PROVE  Ends /\ session' \in [Sessions -> Row \cup {NoSession}]
<1>1. ASSUME NEW s \in Sessions, s \in rows, Is(s, "LIVE")
      PROVE  /\ session'[s] \in Row
             /\ session'[s].family = session[s].family /\ session'[s].next = session[s].next
             /\ session'[s].status = reason
  <2>1. session[s] \in Row
    BY <1>1 DEF TypeOK, Is, Existing
  <2>2. session'[s] = [session[s] EXCEPT !.status = reason, !.stale = FALSE]
    BY <1>1 DEF End
  <2> QED
    BY <2>1, <2>2 DEF Row, Reasons
<1>2. \A s \in Sessions : ~(s \in rows /\ Is(s, "LIVE")) => session'[s] = session[s]
  BY DEF End
<1>3. Ends
  BY <1>1, <1>2 DEF Ends
<1>4. \A s \in Sessions : session'[s] \in Row \cup {NoSession}
  BY <1>1, <1>2 DEF TypeOK
<1>5. session' \in [Sessions -> Row \cup {NoSession}]
  BY <1>4 DEF End
<1> QED
  BY <1>3, <1>5

\* A step that adds no row and starts no request.
LEMMA EndsPreserves ==
    ASSUME IInv, Ends, session' \in [Sessions -> Row \cup {NoSession}],
           RestTyped', IsFiniteSet(requests'), attempts' = attempts,
           SameRequests,
           \A b \in Browsers :
              /\ browser'[b].cookie \in {browser[b].cookie, None}
              /\ browser'[b].attempt \in {browser[b].attempt, None}
              /\ browser'[b].fresh => browser[b].fresh /\ browser'[b].attempt = browser[b].attempt,
           \A s \in Existing :
              recovery'[s] = recovery[s] \/ (WindowMayEnd(s) /\ browser' = browser)
    PROVE  IInv' /\ HeadsStep
<1>1. /\ RowsTyped' /\ Rows' /\ Kept /\ HeadsStep
      /\ \A s : IsNext(s, "ROTATED") => Is(s, "ROTATED") /\ session'[s] = session[s]
  BY EndsRows DEF IInv, TypeOK
<1>2. BrowserStep
  BY <1>1 DEF BrowserStep, Is
<1> QED
  BY <1>1, <1>2, StepPreserves

\* What an answer leaves of the browsers.
Answered(r, then) ==
    \A b \in Browsers :
        \/ browser'[b] = browser[b]
        \/ /\ b = r.from /\ browser'[b].cookie = then.cookie
           /\ \/ browser'[b].attempt = then.attempt /\ browser'[b].fresh = then.fresh
              \/ /\ then.cookie # None
                 /\ browser'[b].attempt = browser[b].attempt
                 /\ browser'[b].fresh = browser[b].fresh

LEMMA AnswerTakesRequest ==
    ASSUME IInv, NEW r \in requests, NEW then \in Browser, Answer(r, then)
    PROVE  /\ SameRequests /\ IsFiniteSet(requests')
           /\ requests' \in SUBSET Request /\ Cardinality(requests') <= MaxRequests
           /\ browser' \in [Browsers -> Browser]
           /\ r \in Request
           /\ Answered(r, then)
<1>1. IsFiniteSet(requests) /\ Cardinality(requests) \in Nat /\ requests' = requests \ {r}
  BY FS_CardinalityType DEF IInv, Known, Answer
<1>2. IsFiniteSet(requests') /\ Cardinality(requests') = Cardinality(requests) - 1
  BY <1>1, FS_RemoveElement
<1>3. Cardinality(requests') <= MaxRequests
  BY <1>1, <1>2, AuthSessionAssumption DEF IInv, TypeOK
<1>4. r \in Request /\ r.from \in Browsers
  BY DEF IInv, TypeOK, Request
<1>5. browser' \in [Browsers -> Browser] /\ Answered(r, then)
  <2>1. browser \in [Browsers -> Browser] /\ browser[r.from] \in Browser
    BY <1>4 DEF IInv, TypeOK
  <2>2. CASE browser' = browser
    BY <2>1, <2>2 DEF Answered
  <2>3. CASE browser' = [browser EXCEPT ![r.from] = then]
    BY <2>1, <2>3, <1>4 DEF Answered
  <2>4. CASE then.cookie # None /\ browser' = [browser EXCEPT ![r.from].cookie = then.cookie]
    <3> DEFINE x == [browser[r.from] EXCEPT !.cookie = then.cookie]
    <3>1. then.cookie \in Sessions \cup {None}
      BY DEF Browser
    <3>2. /\ x \in Browser /\ x.cookie = then.cookie /\ x.attempt = browser[r.from].attempt
          /\ x.fresh = browser[r.from].fresh
      BY <2>1, <3>1 DEF Browser
    <3>3. browser' = [browser EXCEPT ![r.from] = x]
      BY <2>1, <2>4, <1>4
    <3> HIDE DEF x
    <3>4. /\ browser' \in [Browsers -> Browser] /\ browser'[r.from] = x
          /\ \A b \in Browsers : b # r.from => browser'[b] = browser[b]
      BY <2>1, <3>2, <3>3, <1>4
    <3> QED
      BY <2>4, <3>2, <3>4 DEF Answered
  <2> QED
    BY <2>2, <2>3, <2>4 DEF Answer
<1>6. SameRequests
  BY <1>1 DEF SameRequests
<1> QED
  BY <1>1, <1>2, <1>3, <1>4, <1>5, <1>6 DEF IInv, TypeOK

LEMMA SameRows ==
    ASSUME TypeOK, session' = session
    PROVE  Ends /\ session' \in [Sessions -> Row \cup {NoSession}]
  BY DEF Ends, TypeOK

LEMMA SignedOutTyped == SignedOut \in Browser /\ \A s \in Sessions : SignedIn(s) \in Browser
  BY DEF SignedOut, SignedIn, Browser

\* An answer that signs the browser out and ends rows, or nothing.
LEMMA RefusalPreserves ==
    ASSUME IInv, NEW r \in requests, Answer(r, SignedOut),
           Ends, session' \in [Sessions -> Row \cup {NoSession}],
           UNCHANGED <<recovery, removing, attempts>>
    PROVE  IInv' /\ HeadsStep
<1>1. /\ SameRequests /\ IsFiniteSet(requests')
      /\ requests' \in SUBSET Request /\ Cardinality(requests') <= MaxRequests
      /\ browser' \in [Browsers -> Browser]
      /\ Answered(r, SignedOut)
  BY SignedOutTyped, AnswerTakesRequest
<1>2. RestTyped'
  BY <1>1 DEF RestTyped, IInv, TypeOK
<1>3. \A b \in Browsers :
         /\ browser'[b].cookie \in {browser[b].cookie, None}
         /\ browser'[b].attempt \in {browser[b].attempt, None}
         /\ browser'[b].fresh => browser[b].fresh /\ browser'[b].attempt = browser[b].attempt
  BY <1>1 DEF Answered, SignedOut
<1> QED
  BY <1>1, <1>2, <1>3, EndsPreserves

RotatedTo(row, n, a) == [row EXCEPT !.status = "ROTATED", !.next = n, !.by = a]

LEMMA RotatedRow ==
    ASSUME NEW row \in Row, NEW n \in Sessions, NEW a \in Attempts
    PROVE  LET new == RotatedTo(row, n, a)
           IN  /\ new \in Row /\ new.family = row.family /\ new.status = "ROTATED"
               /\ new.next = n /\ new.by = a
  BY DEF Row, Reasons, RotatedTo

\* The rotation of a live row by a refresh.
LEMMA RotationPreserves ==
    ASSUME IInv, NEW r \in requests, r.kind = "refresh", Rotates(r), HasRoom,
           session' = [session EXCEPT ![NewId] = NewRow(Family(r.token)),
                                      ![r.token].status = "ROTATED",
                                      ![r.token].next = NewId,
                                      ![r.token].by = r.attempt],
           recovery' = Record(r), Answer(r, SignedIn(NewId)),
           UNCHANGED <<removing, attempts>>
    PROVE  IInv' /\ HeadsStep
<1> USE AuthSessionAssumption DEF IInv
<1> DEFINE n == NewId
           t == r.token
<1>0. PICK f \in Sessions : f = Family(t)
  BY DEF TypeOK, Rotates, Is, Existing, Family, Row
<1>1. /\ n \in Sessions /\ n \notin Existing /\ \A s \in Existing : s < n
      /\ t \in Existing /\ session[t] \in Row /\ session[t].status = "LIVE"
      /\ t \in Sessions /\ t # n
      /\ r.attempt \in 1..attempts /\ r.attempt \in Attempts
  BY NewIdIsNew DEF HasRoom, Rotates, Is, TypeOK, Existing, Known, Attempts
<1>2. /\ session'[n] = NewRow(f)
      /\ session'[t] = RotatedTo(session[t], n, r.attempt)
      /\ \A s \in Sessions : s \notin {n, t} => session'[s] = session[s]
  BY <1>0, <1>1 DEF TypeOK, RotatedTo
<1>3. /\ session'[t] \in Row /\ session'[t].family = f /\ session'[t].status = "ROTATED"
      /\ session'[t].next = n /\ session'[t].by = r.attempt
  BY <1>0, <1>1, <1>2, RotatedRow DEF Family
<1>4. session' \in [Sessions -> Row \cup {NoSession}]
  <2>1. NewRow(f) \in Row
    BY DEF NewRow, Row
  <2>2. DOMAIN session' = Sessions
    BY DEF TypeOK
  <2>3. ASSUME NEW s \in Sessions PROVE session'[s] \in Row \cup {NoSession}
    BY <2>1, <1>2, <1>3 DEF TypeOK
  <2>4. session' = [s \in Sessions |-> session'[s]]
    BY <2>2
  <2> QED
    BY <2>3, <2>4
<1>5. Adds(f)
  <2>1. f <= n
    BY <1>0, <1>1 DEF Rows, Sessions
  <2>2. \A s \in Existing : Family(s) = f => session'[s].status # "LIVE"
    <3>1. ASSUME NEW s \in Existing, Family(s) = f, s # t PROVE session'[s].status # "LIVE"
      <4>1. ~Is(s, "LIVE")
        BY <1>0, <1>1, <3>1, OneLiveRow DEF Is
      <4> QED
        BY <4>1, <3>1, <1>1, <1>2 DEF Is, Existing
    <3> QED
      BY <3>1, <1>3
  <2>3. Heads(f) # {}
    BY <1>0, <1>1 DEF Heads, Family
  <2>4. ASSUME NEW s \in Sessions, s # n, s # t PROVE session'[s] = session[s]
    BY <2>4, <1>2
  <2>5. Is(t, "LIVE") /\ Family(t) = f /\ session'[t].family = session[t].family
    BY <1>0, <1>1, <1>3 DEF Is, Family
  <2> QED
    BY <1>1, <1>2, <1>3, <2>1, <2>2, <2>3, <2>4, <2>5 DEF Adds
<1>6. /\ RowsTyped' /\ Rows' /\ Kept /\ HeadsStep
      /\ IsNext(n, "LIVE") /\ session'[n].family = f
      /\ \A s : IsNext(s, "ROTATED") => s \in Existing
  BY <1>4, <1>5, AddsRows
<1>7. /\ SameRequests /\ IsFiniteSet(requests')
      /\ requests' \in SUBSET Request /\ Cardinality(requests') <= MaxRequests
      /\ browser' \in [Browsers -> Browser]
      /\ Answered(r, SignedIn(n))
  BY <1>1, SignedOutTyped, AnswerTakesRequest
<1>8. RestTyped'
  BY <1>1, <1>7 DEF RestTyped, TypeOK, Record
<1>9. BrowserStep
  <2>1. \A b \in Browsers :
         /\ \/ browser'[b].cookie \in {browser[b].cookie, None}
            \/ /\ IsNext(browser'[b].cookie, "LIVE")
               /\ Mine(b, session'[browser'[b].cookie].family)
         /\ browser'[b].attempt \in {browser[b].attempt, None}
         /\ browser'[b].fresh => browser[b].fresh /\ browser'[b].attempt = browser[b].attempt
    <3>1. Mine(r.from, f)
      BY <1>0 DEF Mine
    <3> QED
      BY <3>1, <1>6, <1>7 DEF Answered, SignedIn
  <2>2. ASSUME NEW s, IsNext(s, "ROTATED")
        PROVE  \/ /\ Is(s, "ROTATED") /\ session'[s] = session[s]
                  /\ recovery'[s] = recovery[s]
               \/ /\ recovery'[s] = session'[s].by
                  /\ IsNext(session'[s].next, "LIVE")
                  /\ \E q \in requests : q.token = s
    <3>1. s \in Existing /\ s \in Sessions /\ s # n
      BY <2>2, <1>1, <1>6 DEF Existing
    <3>2. CASE s = t
      BY <3>2, <1>1, <1>3, <1>6 DEF Record, TypeOK
    <3>3. CASE s # t
      BY <3>1, <3>3, <2>2, <1>2 DEF Record, TypeOK, Is, IsNext
    <3> QED
      BY <3>2, <3>3
  <2> QED
    BY <2>1, <2>2, <1>7 DEF BrowserStep
<1> QED
  BY <1>6, <1>7, <1>8, <1>9, StepPreserves

\* A repeated refresh is answered with the successor.
LEMMA RecoveryPreserves ==
    ASSUME IInv, NEW r \in requests, Is(r.token, "ROTATED"), Recoverable(r),
           Answer(r, SignedIn(session[r.token].next)),
           UNCHANGED <<session, recovery, removing, attempts>>
    PROVE  IInv' /\ HeadsStep
<1> USE DEF IInv
<1> DEFINE n == session[r.token].next
<1>1. /\ n \in Existing /\ session[n].status = "LIVE" /\ Family(n) = Family(r.token)
      /\ n \in Sessions
  BY DEF Recoverable, Is, Rows, Existing
<1>2. /\ RowsTyped' /\ Rows' /\ Kept /\ HeadsStep /\ Existing' = Existing
      /\ \A s : IsNext(s, "ROTATED") => Is(s, "ROTATED") /\ session'[s] = session[s]
  <2>1. attempts' \in Nat /\ attempts <= attempts'
    BY DEF TypeOK
  <2> QED
    BY <2>1, SameRows, EndsRows
<1>3. /\ SameRequests /\ IsFiniteSet(requests')
      /\ requests' \in SUBSET Request /\ Cardinality(requests') <= MaxRequests
      /\ browser' \in [Browsers -> Browser]
      /\ Answered(r, SignedIn(n))
  BY <1>1, SignedOutTyped, AnswerTakesRequest
<1>4. RestTyped'
  BY <1>3 DEF RestTyped, TypeOK
<1>5. BrowserStep
  <2>1. Mine(r.from, session[n].family)
    BY <1>1 DEF Mine, Family
  <2>2. IsNext(n, "LIVE")
    BY <1>1, <1>2 DEF IsNext
  <2> QED
    BY <2>1, <2>2, <1>2, <1>3 DEF BrowserStep, Answered, SignedIn
<1> QED
  BY <1>2, <1>3, <1>4, <1>5, StepPreserves

\* A browser sends its cookie.
LEMMA SendPreserves ==
    ASSUME IInv, NEW b \in Browsers, NEW m \in Request, Put(m),
           m.from = b, m.token = browser[b].cookie, browser[b].cookie # None,
           m.kind = "refresh" => m.attempt \in 1..attempts',
           UNCHANGED <<session, recovery, removing>>,
           attempts' \in 0..MaxAttempts, attempts <= attempts',
           browser' \in [Browsers -> Browser],
           \A a \in Browsers :
              /\ browser'[a].cookie = browser[a].cookie
              /\ browser'[a].attempt # None => browser'[a].attempt <= attempts',
           Repeats
    PROVE  IInv' /\ HeadsStep
<1> USE AuthSessionAssumption DEF IInv
<1>1. /\ RowsTyped' /\ Rows' /\ Kept /\ HeadsStep /\ Existing' = Existing
      /\ \A s : IsNext(s, "ROTATED") => Is(s, "ROTATED") /\ session'[s] = session[s]
  BY SameRows, EndsRows
<1>2. /\ requests' = requests \cup {m} /\ IsFiniteSet(requests')
      /\ requests' \in SUBSET Request /\ Cardinality(requests') <= MaxRequests
  <2>1. IsFiniteSet(requests) /\ Cardinality(requests) \in Nat
    BY FS_CardinalityType DEF Known
  <2>2. /\ requests' = requests \cup {m} /\ m \notin requests
        /\ Cardinality(requests) < MaxRequests
    BY DEF Put
  <2>3. IsFiniteSet(requests') /\ Cardinality(requests') = Cardinality(requests) + 1
    BY <2>1, <2>2, FS_AddElement
  <2> QED
    BY <2>1, <2>2, <2>3 DEF TypeOK
<1>3. RestTyped' /\ TypeOK'
  BY <1>1, <1>2 DEF RestTyped, TypeOK, RowsTyped
<1>4. browser[b].cookie \in Existing
  BY DEF Known
<1>5. Known'
  <2>1. \A r \in requests : r.kind = "refresh" => r.attempt \in 1..attempts'
    BY DEF Known, TypeOK
  <2> QED
    BY <2>1, <1>1, <1>2, <1>4 DEF Known
<1>6. Recorded'
  BY <1>1, RecordedStep DEF IsNext, Is
<1>7. \A a \in Browsers, f \in Sessions : Mine(a, f)' => Mine(a, f)
  BY <1>2 DEF Mine, Family
<1>8. Owned'
  BY <1>7, OwnedStep
<1>9. Behind'
  <2> SUFFICES ASSUME NEW a \in Browsers, NEW r \in requests', browser[a].cookie # None,
                      session[browser[a].cookie].family = session[r.token].family
               PROVE  r.token <= browser[a].cookie
    BY DEF Behind, Family
  <2>1. CASE r \in requests
    BY <2>1 DEF Behind, Family
  <2>2. CASE r = m
    <3>1. PICK f \in Sessions : f = session[browser[b].cookie].family
      BY <1>4 DEF TypeOK, Existing, Row
    <3>2. Mine(a, f) /\ Mine(b, f)
      BY <2>2, <3>1 DEF Mine, Family
    <3>3. a = b
      BY <3>2 DEF Owned
    <3> QED
      BY <2>2, <3>3, <1>4 DEF Existing, Sessions
  <2> QED
    BY <1>2, <2>1, <2>2
<1>10. Successor'
  BY <1>1, SuccessorStep DEF Is, IsNext
<1> QED
  BY <1>1, <1>3, <1>5, <1>6, <1>8, <1>9, <1>10

\* A new login.
LEMMA CreatePreserves ==
    ASSUME IInv, NEW b \in Browsers, CreateSession(b)
    PROVE  IInv' /\ HeadsStep
<1> USE AuthSessionAssumption DEF IInv
<1>1. PICK n \in Sessions : n = NewId
  BY DEF CreateSession, HasRoom
<1>2. n \notin Existing /\ \A s \in Existing : s < n
  BY <1>1, NewIdIsNew
<1>3. /\ session'[n] = NewRow(n) /\ NewRow(n) \in Row
      /\ \A s \in Sessions : s # n => session'[s] = session[s]
      /\ session' \in [Sessions -> Row \cup {NoSession}]
  <2>1. NewRow(n) \in Row
    BY DEF NewRow, Row
  <2> QED
    BY <2>1, <1>1 DEF CreateSession, TypeOK
<1>4. ASSUME NEW s \in Existing PROVE Family(s) # n
  BY <1>2, <1>4 DEF Rows, Existing, Sessions
<1>5. Adds(n)
  BY <1>1, <1>2, <1>3, <1>4 DEF Adds, CreateSession, Sessions
<1>6. UNCHANGED <<recovery, requests, removing, attempts>>
  BY DEF CreateSession
<1>7. /\ RowsTyped' /\ Rows' /\ Kept /\ HeadsStep
      /\ Existing' = Existing \cup {n} /\ \A s \in Existing' : s <= n
      /\ IsNext(n, "LIVE") /\ session'[n].family = n
      /\ \A s : IsNext(s, "ROTATED") => s \in Existing
  BY <1>1, <1>3, <1>5, <1>6, AddsRows
<1>8. /\ browser' \in [Browsers -> Browser]
      /\ \A a \in Browsers : browser'[a] = browser[a] \/ (a = b /\ browser'[a] = SignedIn(n))
  <2>1. browser' = browser \/ browser' = [browser EXCEPT ![b] = SignedIn(n)]
    BY <1>1 DEF CreateSession
  <2> QED
    BY <2>1, SignedOutTyped DEF TypeOK
<1>9. TypeOK'
  BY <1>6, <1>7, <1>8 DEF TypeOK, RowsTyped
<1>10. Known'
  BY <1>6, <1>7, <1>8 DEF Known, SignedIn
<1>11. Repeats
  BY <1>8 DEF Repeats, SignedIn
<1>12. \A s : IsNext(s, "ROTATED") => Is(s, "ROTATED") /\ session'[s] = session[s]
  BY <1>2, <1>3, <1>7 DEF IsNext, Is, Existing
<1>13. Recorded'
  BY <1>6, <1>11, <1>12, RecordedStep DEF IsNext, Is
<1>14. ASSUME NEW a \in Browsers, NEW f \in Sessions, Mine(a, f)'
       PROVE  Mine(a, f) \/ (a = b /\ f = n)
  <2>1. CASE browser'[a].cookie # None /\ session'[browser'[a].cookie].family = f
    <3>1. CASE browser'[a] = browser[a]
      BY <2>1, <3>1, <1>7 DEF Known, Kept, Mine, Family
    <3>2. CASE a = b /\ browser'[a] = SignedIn(n)
      BY <2>1, <3>2, <1>7 DEF SignedIn
    <3> QED
      BY <3>1, <3>2, <1>8
  <2>2. CASE \E r \in requests : r.from = a /\ session'[r.token].family = f
    BY <2>2, <1>7 DEF Known, Kept, Mine, Family
  <2> QED
    BY <1>14, <1>6, <2>1, <2>2 DEF Mine, Family
<1>15. \A a \in Browsers : ~Mine(a, n)
  BY <1>4 DEF Mine, Known
<1>16. Owned'
  BY <1>14, <1>15 DEF Owned
<1>17. Behind'
  <2>1. \A a \in Browsers :
              \/ browser'[a].cookie \in {browser[a].cookie, None}
              \/ \A s \in Existing' :
                   session'[s].family = session'[browser'[a].cookie].family
                      => s <= browser'[a].cookie
    BY <1>7, <1>8 DEF SignedIn
  <2> QED
    BY <1>6, <1>7, <2>1, BehindStep
<1>18. Successor'
  <2>1. \A a \in Browsers : browser'[a].fresh =>
              \/ browser'[a].cookie \in {browser[a].cookie, None}
              \/ IsNext(browser'[a].cookie, "LIVE")
    BY <1>8 DEF SignedIn
  <2>2. \A s \in Existing : ~(Is(s, "LIVE") /\ IsNext(s, "ROTATED"))
    BY <1>12 DEF Is
  <2> QED
    BY <2>1, <2>2, <1>7, <1>11, SuccessorStep
<1> QED
  BY <1>7, <1>9, <1>10, <1>13, <1>16, <1>17, <1>18

ReplacedBy(row, n) == [row EXCEPT !.status = "CREDENTIAL_CHANGED", !.stale = FALSE, !.next = n]

LEMMA ReplacedRow ==
    ASSUME NEW row \in Row, NEW n \in Sessions
    PROVE  LET new == ReplacedBy(row, n)
           IN  /\ new \in Row /\ new.family = row.family /\ new.status = "CREDENTIAL_CHANGED"
  BY DEF Row, Reasons, ReplacedBy

ChangedRow(row) == [row EXCEPT !.status = "CREDENTIAL_CHANGED", !.stale = FALSE]

LEMMA ChangedRowTyped ==
    ASSUME NEW row \in Row
    PROVE  LET new == ChangedRow(row)
           IN  /\ new \in Row /\ new.family = row.family /\ new.status = "CREDENTIAL_CHANGED"
  BY DEF Row, Reasons, ChangedRow

\* The rotation of a password change, which ends the other logins.
LEMMA CredentialChangePreserves ==
    ASSUME IInv, NEW bearer \in Existing, RotateSessionAfterCredentialChange(bearer)
    PROVE  IInv' /\ HeadsStep
<1> USE AuthSessionAssumption DEF IInv
<1>1. PICK p \in Principals(bearer) :
        session' = [End((Existing \ FamilyRows(p)) \cup {p}, "CREDENTIAL_CHANGED")
                        EXCEPT ![p].next = NewId, ![NewId] = NewRow(Family(p))]
  BY DEF RotateSessionAfterCredentialChange
<1>2. /\ p \in Existing /\ p \in Sessions /\ Is(p, "LIVE") /\ session[p] \in Row
      /\ Family(p) = Family(bearer)
  BY DEF Principals, Heads, Is, TypeOK, Existing, Family
<1>3. PICK f \in Sessions : f = Family(p)
  BY <1>2 DEF Row, Family
<1>4. PICK n \in Sessions : n = NewId
  BY DEF RotateSessionAfterCredentialChange, HasRoom
<1>5. n \notin Existing /\ n # p /\ \A s \in Existing : s < n
  BY <1>2, <1>4, NewIdIsNew
<1> DEFINE others == Existing \ FamilyRows(p)
           ended == End(others \cup {p}, "CREDENTIAL_CHANGED")
<1>6. /\ ended[p] = ChangedRow(session[p])
      /\ DOMAIN ended = Sessions
      /\ \A s \in Sessions : s # p =>
           ended[s] = session[s] \/ (s \in others /\ Is(s, "LIVE") /\ ended[s] = ChangedRow(session[s]))
  BY <1>2 DEF End, ChangedRow
<1>7. /\ session'[n] = NewRow(f)
      /\ session'[p] = ReplacedBy(session[p], n)
      /\ \A s \in Sessions : s \notin {n, p} => session'[s] = ended[s]
      /\ DOMAIN session' = Sessions
  <2>1. session' = [ended EXCEPT ![p].next = n, ![n] = NewRow(f)]
    BY <1>1, <1>3, <1>4
  <2>2. [ChangedRow(session[p]) EXCEPT !.next = n] = ReplacedBy(session[p], n)
    BY <1>2 DEF ChangedRow, ReplacedBy, Row
  <2> HIDE DEF ended
  <2>3. session'[p] = [ended[p] EXCEPT !.next = n]
    BY <2>1, <1>2, <1>5, <1>6
  <2> QED
    BY <2>1, <2>2, <2>3, <1>2, <1>5, <1>6
<1> HIDE DEF ended
<1>8. NewRow(f) \in Row
  BY DEF NewRow, Row
<1>9. ASSUME NEW s \in Sessions, s # n
      PROVE  \/ session'[s] = session[s] /\ s # p
             \/ /\ Is(s, "LIVE") /\ session'[s] \in Row
                /\ session'[s].family = session[s].family
                /\ session'[s].status = "CREDENTIAL_CHANGED"
  <2>1. CASE s = p
    <3>1. LET new == ReplacedBy(session[p], n)
          IN  new \in Row /\ new.family = session[p].family /\ new.status = "CREDENTIAL_CHANGED"
      BY <1>2, ReplacedRow
    <3> QED
      BY <2>1, <3>1, <1>2, <1>7
  <2>2. CASE s # p /\ ended[s] # session[s]
    <3>1. /\ Is(s, "LIVE") /\ session'[s] = ChangedRow(session[s])
      BY <2>2, <1>6, <1>7, <1>9
    <3>2. session[s] \in Row
      BY <3>1 DEF Is, TypeOK, Existing
    <3> QED
      BY <3>1, <3>2, ChangedRowTyped
  <2> QED
    BY <2>1, <2>2, <1>7, <1>9
<1>10. session' \in [Sessions -> Row \cup {NoSession}]
  <2>1. \A s \in Sessions : session'[s] \in Row \cup {NoSession}
    BY <1>7, <1>8, <1>9 DEF TypeOK
  <2>2. session' = [s \in Sessions |-> session'[s]]
    <3>1. session' = [ended EXCEPT ![p].next = n, ![n] = NewRow(f)]
      BY <1>1, <1>3, <1>4 DEF ended
    <3>2. ended = [s \in Sessions |-> ended[s]]
      BY DEF ended, End
    <3> QED
      BY <3>1, <3>2
  <2> QED
    BY <2>1, <2>2
<1>11. Adds(f)
  <2>1. f <= n
    BY <1>2, <1>3, <1>5 DEF Rows, Existing, Sessions
  <2>2. ASSUME NEW s \in Existing, Family(s) = f PROVE session'[s].status # "LIVE"
    <3>1. s \in Sessions /\ s # n
      BY <1>5 DEF Existing
    <3>2. CASE session'[s] = session[s] /\ s # p
      BY <2>2, <3>2, <1>2, <1>3, OneLiveRow DEF Is
    <3> QED
      BY <3>1, <3>2, <1>9
  <2>3. Heads(f) # {}
    BY <1>2, <1>3 DEF Heads, Is, Family
  <2>4. HasRoom
    BY DEF RotateSessionAfterCredentialChange
  <2> QED
    BY <1>4, <1>7, <1>9, <2>1, <2>2, <2>3, <2>4 DEF Adds
<1>12. UNCHANGED <<recovery, requests, removing, attempts>>
  BY DEF RotateSessionAfterCredentialChange
<1>13. /\ RowsTyped' /\ Rows' /\ Kept /\ HeadsStep
       /\ IsNext(n, "LIVE") /\ session'[n].family = f
       /\ \A s : IsNext(s, "ROTATED") => s \in Existing
  BY <1>4, <1>10, <1>11, <1>12, AddsRows
<1>14. \/ browser' = browser
       \/ \E b \in Browsers : /\ browser[b].cookie # None /\ Family(browser[b].cookie) = f
                              /\ browser' = [browser EXCEPT ![b].cookie = n]
  BY <1>2, <1>3, <1>4 DEF RotateSessionAfterCredentialChange, Caller
<1>15. /\ browser' \in [Browsers -> Browser]
       /\ \A b \in Browsers :
            /\ \/ browser'[b].cookie = browser[b].cookie
               \/ browser'[b].cookie = n /\ Mine(b, f)
            /\ browser'[b].attempt = browser[b].attempt
            /\ browser'[b].fresh = browser[b].fresh
  <2>1. browser \in [Browsers -> Browser]
    BY DEF TypeOK
  <2>2. CASE browser' = browser
    BY <2>1, <2>2
  <2>3. ASSUME NEW b \in Browsers, browser[b].cookie # None, Family(browser[b].cookie) = f,
               browser' = [browser EXCEPT ![b].cookie = n]
        PROVE  /\ browser' \in [Browsers -> Browser]
               /\ Mine(b, f) /\ browser'[b].cookie = n
               /\ browser'[b].attempt = browser[b].attempt
               /\ browser'[b].fresh = browser[b].fresh
               /\ \A a \in Browsers : a # b => browser'[a] = browser[a]
    BY <2>1, <2>3 DEF Browser, Mine
  <2> QED
    BY <2>2, <2>3, <1>14
<1>16. RestTyped'
  BY <1>12, <1>15 DEF RestTyped, TypeOK
<1>17. IsFiniteSet(requests') /\ SameRequests
  BY <1>12 DEF Known, SameRequests
<1>18. BrowserStep
  <2>1. ASSUME NEW s, IsNext(s, "ROTATED")
        PROVE  Is(s, "ROTATED") /\ session'[s] = session[s] /\ recovery'[s] = recovery[s]
    <3>1. s \in Existing /\ s \in Sessions /\ s # n
      BY <2>1, <1>5, <1>13 DEF Existing
    <3> QED
      BY <2>1, <3>1, <1>9, <1>12 DEF Is, IsNext
  <2> QED
    BY <2>1, <1>13, <1>15, <1>17 DEF BrowserStep
<1> QED
  BY <1>12, <1>13, <1>16, <1>17, <1>18, StepPreserves

\* The initial states satisfy the invariant.
THEOREM InitIInv == Init => IInv
<1> SUFFICES ASSUME Init PROVE IInv
  OBVIOUS
<1> USE AuthSessionAssumption DEF Init
<1>1. Existing = {}
  BY DEF Existing
<1>2. Cardinality({}) = 0 /\ IsFiniteSet({})
  BY FS_EmptySet
<1>3. TypeOK
  BY <1>2, SignedOutTyped DEF TypeOK, Sessions
<1>4. Rows /\ Recorded
  BY <1>1, <1>2 DEF Rows, Recorded
<1>5. \A b \in Browsers : browser[b].cookie = None /\ browser[b].attempt = None
  BY DEF SignedOut
<1>6. Known /\ Owned /\ Behind /\ Successor
  BY <1>2, <1>5 DEF Known, Owned, Mine, Behind, Successor
<1> QED
  BY <1>3, <1>4, <1>6 DEF IInv

\* Every step, of every actor, preserves the invariant and ends logins for good.
LEMMA NextPreserves == IInv /\ [Next]_vars => IInv' /\ HeadsStep
<1> SUFFICES ASSUME IInv, [Next]_vars PROVE IInv' /\ HeadsStep
  OBVIOUS
<1> USE AuthSessionAssumption
<1>0. /\ TypeOK /\ RestTyped
      /\ IsFiniteSet(requests) /\ Cardinality(requests) \in Nat
      /\ (requests' = requests => SameRequests)
  BY FS_CardinalityType DEF IInv, Known, TypeOK, RestTyped, SameRequests
<1>1. ASSUME NEW b \in Browsers, SendRefresh(b) PROVE IInv' /\ HeadsStep
  <2> DEFINE me == browser[b]
             Message(a) == [kind |-> "refresh", from |-> b, token |-> me.cookie,
                            attempt |-> a, waiting |-> TRUE]
  <2>1. /\ me \in Browser /\ me.cookie # None /\ me.cookie \in Sessions
        /\ UNCHANGED <<session, recovery, removing>>
        /\ attempts \in 0..MaxAttempts
        /\ \A a \in Attempts : Message(a) \in Request
    BY <1>0, <1>1 DEF SendRefresh, TypeOK, Browser, Request
  <2>2. \A a \in Browsers : browser[a].attempt # None => browser[a].attempt <= attempts
    BY DEF IInv, Known
  <2>3. CASE me.attempt # None /\ me.fresh /\ Put(Message(me.attempt)) /\ UNCHANGED <<browser, attempts>>
    <3>1. me.attempt \in Attempts /\ me.attempt \in 1..attempts
      BY <2>1, <2>2, <2>3 DEF Browser, Attempts
    <3>2. Repeats
      BY <2>3 DEF Repeats
    <3>3. Message(me.attempt) \in Request
      BY <3>1, <2>1
    <3> QED
      BY <1>0, <2>1, <2>2, <2>3, <3>1, <3>2, <3>3, SendPreserves DEF TypeOK
  <2>4. CASE /\ attempts < MaxAttempts /\ attempts' = attempts + 1
             /\ browser' = [browser EXCEPT ![b].attempt = attempts + 1, ![b].fresh = TRUE]
             /\ Put(Message(attempts + 1))
    <3>1. attempts + 1 \in Attempts /\ attempts + 1 \in 1..attempts'
          /\ attempts' \in 0..MaxAttempts /\ attempts <= attempts' /\ attempts + 1 <= attempts'
      BY <2>1, <2>4 DEF Attempts
    <3>2. /\ browser'[b] = [me EXCEPT !.attempt = attempts + 1, !.fresh = TRUE]
          /\ \A a \in Browsers : a # b => browser'[a] = browser[a]
      BY <1>0, <2>4 DEF TypeOK
    <3>3. /\ browser'[b] \in Browser /\ browser'[b].cookie = me.cookie
          /\ browser'[b].attempt = attempts + 1
      BY <3>1, <3>2, <2>1 DEF Browser
    <3>4. browser' \in [Browsers -> Browser]
      BY <3>2, <3>3, <2>4, <1>0 DEF TypeOK
    <3>5. Repeats
      BY <3>2, <3>3 DEF Repeats
    <3>6. \A a \in Browsers :
              /\ browser'[a].cookie = browser[a].cookie
              /\ browser'[a].attempt # None => browser'[a].attempt <= attempts'
      <4>1. ASSUME NEW a \in Browsers, a # b PROVE browser'[a].attempt # None => browser'[a].attempt <= attempts'
        <5>1. browser'[a] = browser[a] /\ browser[a] \in Browser
          BY <4>1, <3>2, <1>0 DEF TypeOK
        <5> QED
          BY <5>1, <2>1, <2>2, <2>4 DEF Browser, Attempts
      <4> QED
        BY <4>1, <3>1, <3>2, <3>3
    <3>7. Message(attempts + 1) \in Request
      BY <3>1, <2>1
    <3> QED
      BY <2>1, <2>4, <3>1, <3>4, <3>5, <3>6, <3>7, SendPreserves
  <2> QED
    BY <1>1, <2>3, <2>4 DEF SendRefresh
<1>2. ASSUME NEW b \in Browsers, SendLogout(b) PROVE IInv' /\ HeadsStep
  <2> DEFINE m == [kind |-> "logout", from |-> b, token |-> browser[b].cookie,
                   attempt |-> None, waiting |-> TRUE]
  <2>1. /\ Put(m) /\ browser[b].cookie # None
        /\ UNCHANGED <<session, recovery, browser, removing, attempts>>
    BY <1>2 DEF SendLogout
  <2>2. m \in Request
    BY <1>0, <2>1 DEF TypeOK, Browser, Request
  <2>3. Repeats
    BY <2>1 DEF Repeats
  <2>4. \A a \in Browsers : browser[a].attempt # None => browser[a].attempt <= attempts
    BY DEF IInv, Known
  <2> QED
    BY <1>0, <2>1, <2>2, <2>3, <2>4, SendPreserves DEF TypeOK
<1>3. ASSUME NEW b \in Browsers, AttemptAges(b) PROVE IInv' /\ HeadsStep
  <2>1. /\ browser' \in [Browsers -> Browser]
        /\ \A a \in Browsers :
             /\ browser'[a].cookie = browser[a].cookie /\ browser'[a].attempt = browser[a].attempt
             /\ browser'[a].fresh => browser[a].fresh
    <3>1. browser' = [browser EXCEPT ![b].fresh = FALSE] /\ browser \in [Browsers -> Browser]
      BY <1>0, <1>3 DEF AttemptAges, TypeOK
    <3>2. browser[b].fresh
      BY <1>3 DEF AttemptAges
    <3>3. /\ browser'[b] \in Browser /\ browser'[b].cookie = browser[b].cookie
          /\ browser'[b].attempt = browser[b].attempt
      BY <3>1 DEF Browser
    <3>4. \A a \in Browsers : a # b => browser'[a] = browser[a]
      BY <3>1
    <3>5. browser' \in [Browsers -> Browser]
      BY <3>1, <3>3, <3>4
    <3> QED
      BY <3>2, <3>3, <3>4, <3>5
  <2>2. UNCHANGED <<session, recovery, requests, removing, attempts>>
    BY <1>3 DEF AttemptAges
  <2>3. RestTyped'
    BY <1>0, <2>1, <2>2 DEF RestTyped
  <2> QED
    BY <1>0, <2>1, <2>2, <2>3, SameRows, EndsPreserves
<1>4. ASSUME NEW r \in requests, Reload(r) PROVE IInv' /\ HeadsStep
  <2> DEFINE q == [r EXCEPT !.waiting = FALSE]
  <2>1. /\ q \in Request /\ q.from = r.from /\ q.token = r.token /\ q.kind = r.kind
        /\ q.attempt = r.attempt
    BY <1>0 DEF TypeOK, Request
  <2>2. /\ requests' = (requests \ {r}) \cup {q}
        /\ UNCHANGED <<session, recovery, browser, removing, attempts>>
    BY <1>4 DEF Reload
  <2> HIDE DEF q
  <2>3. IsFiniteSet(requests \ {r}) /\ Cardinality(requests \ {r}) = Cardinality(requests) - 1
    BY <1>0, FS_RemoveElement
  <2>4. /\ IsFiniteSet(requests')
        /\ Cardinality(requests') <= Cardinality(requests)
    <3>1. /\ IsFiniteSet((requests \ {r}) \cup {q})
          /\ \/ Cardinality((requests \ {r}) \cup {q}) = Cardinality(requests \ {r})
             \/ Cardinality((requests \ {r}) \cup {q}) = Cardinality(requests \ {r}) + 1
      BY <2>3, FS_AddElement
    <3> QED
      BY <3>1, <2>2, <2>3, <1>0
  <2>5. RestTyped'
    <3>1. Cardinality(requests') \in Nat
      BY <2>4, FS_CardinalityType
    <3> QED
      BY <3>1, <1>0, <2>1, <2>2, <2>4 DEF RestTyped
  <2>6. SameRequests
    BY <2>1, <2>2 DEF SameRequests
  <2> QED
    BY <1>0, <2>2, <2>4, <2>5, <2>6, SameRows, EndsPreserves
<1>5. ASSUME NEW r \in requests, LoseRequest(r) PROVE IInv' /\ HeadsStep
  <2>1. /\ requests' = requests \ {r}
        /\ UNCHANGED <<session, recovery, browser, removing, attempts>>
    BY <1>5 DEF LoseRequest
  <2>2. IsFiniteSet(requests') /\ Cardinality(requests') = Cardinality(requests) - 1
    BY <1>0, <2>1, FS_RemoveElement
  <2>3. RestTyped' /\ SameRequests
    BY <1>0, <2>1, <2>2 DEF RestTyped, SameRequests
  <2> QED
    BY <1>0, <2>1, <2>2, <2>3, SameRows, EndsPreserves
<1>6. ASSUME NEW r \in requests, RotateSession(r) PROVE IInv' /\ HeadsStep
  <2>1. CASE /\ Rotates(r) /\ HasRoom
             /\ session' = [session EXCEPT
                               ![NewId] = NewRow(Family(r.token)),
                               ![r.token].status = "ROTATED",
                               ![r.token].next = NewId,
                               ![r.token].by = r.attempt]
             /\ recovery' = Record(r)
             /\ Answer(r, SignedIn(NewId))
    BY <1>6, <2>1, RotationPreserves DEF RotateSession
  <2>2. CASE /\ Is(r.token, "ROTATED") /\ Recoverable(r)
             /\ Answer(r, SignedIn(session[r.token].next))
             /\ UNCHANGED <<session, recovery>>
    BY <1>6, <2>2, RecoveryPreserves DEF RotateSession
  <2>3. CASE /\ session' = End(FamilyRows(r.token), "ENDED")
             /\ Answer(r, SignedOut) /\ UNCHANGED recovery
    BY <1>0, <1>6, <2>3, EndEnds, RefusalPreserves DEF RotateSession
  <2>4. CASE Answer(r, SignedOut) /\ UNCHANGED <<session, recovery>>
    BY <1>0, <1>6, <2>4, SameRows, RefusalPreserves DEF RotateSession
  <2> QED
    BY <1>6, <2>1, <2>2, <2>3, <2>4 DEF RotateSession
<1>7. ASSUME NEW r \in requests, RevokeByRefreshToken(r) PROVE IInv' /\ HeadsStep
  BY <1>0, <1>7, EndEnds, RefusalPreserves DEF RevokeByRefreshToken
<1>8. ASSUME NEW s \in Existing, NEW t \in Existing, ResolveLiveSessionId(s, t) PROVE IInv' /\ HeadsStep
  <2>1. UNCHANGED <<session, recovery, browser, requests, attempts>>
    BY <1>8 DEF ResolveLiveSessionId
  <2>2. removing' \in Removal
    BY <1>8 DEF ResolveLiveSessionId, Removal, Heads, Existing
  <2>3. RestTyped'
    BY <1>0, <2>1, <2>2 DEF RestTyped
  <2> QED
    BY <1>0, <2>1, <2>3, SameRows, EndsPreserves
<1>9. ASSUME RevokeUserSession PROVE IInv' /\ HeadsStep
  <2>1. /\ Ends /\ session' \in [Sessions -> Row \cup {NoSession}]
        /\ removing' = None /\ UNCHANGED <<recovery, requests, attempts>>
    BY <1>0, <1>9, EndEnds DEF RevokeUserSession
  <2>2. ASSUME NEW b \in Browsers
        PROVE  /\ browser'[b] \in Browser
               /\ browser'[b].cookie \in {browser[b].cookie, None}
               /\ browser'[b].attempt = browser[b].attempt
               /\ browser'[b].fresh = browser[b].fresh
    <3>1. browser'[b] = browser[b] \/ browser'[b] = [browser[b] EXCEPT !.cookie = None]
      BY <1>9 DEF RevokeUserSession
    <3>2. browser[b] \in Browser
      BY <1>0 DEF TypeOK
    <3> QED
      BY <3>1, <3>2 DEF Browser
  <2>3. browser' \in [Browsers -> Browser]
    BY <1>9, <2>2 DEF RevokeUserSession
  <2>4. RestTyped'
    BY <1>0, <2>1, <2>3 DEF RestTyped
  <2> QED
    BY <1>0, <2>1, <2>2, <2>4, EndsPreserves
<1>10. ASSUME NEW s \in Existing, RevokeAllSessions(s) PROVE IInv' /\ HeadsStep
  <2>1. /\ Ends /\ session' \in [Sessions -> Row \cup {NoSession}]
        /\ UNCHANGED <<recovery, requests, removing, attempts>>
    BY <1>0, <1>10, EndEnds DEF RevokeAllSessions
  <2>2. browser' = browser \/ \E b \in Browsers : browser' = [browser EXCEPT ![b].cookie = None]
    BY <1>10 DEF RevokeAllSessions
  <2>3. /\ browser' \in [Browsers -> Browser]
        /\ \A b \in Browsers :
               /\ browser'[b].cookie \in {browser[b].cookie, None}
               /\ browser'[b].attempt = browser[b].attempt
               /\ browser'[b].fresh = browser[b].fresh
    BY <1>0, <2>2 DEF TypeOK, Browser
  <2>4. RestTyped'
    BY <1>0, <2>1, <2>3 DEF RestTyped
  <2> QED
    BY <1>0, <2>1, <2>3, <2>4, EndsPreserves
<1>11. ASSUME NEW s \in Existing, RevokeOtherSessionFamilies(s) PROVE IInv' /\ HeadsStep
  <2>1. /\ Ends /\ session' \in [Sessions -> Row \cup {NoSession}]
        /\ UNCHANGED <<recovery, browser, requests, removing, attempts>>
    BY <1>0, <1>11, EndEnds DEF RevokeOtherSessionFamilies
  <2>2. RestTyped'
    BY <1>0, <2>1 DEF RestTyped
  <2> QED
    BY <1>0, <2>1, <2>2, EndsPreserves
<1>12. ASSUME NEW s \in Existing, GoStale(s) PROVE IInv' /\ HeadsStep
  <2>1. UNCHANGED <<recovery, browser, requests, removing, attempts>>
    BY <1>12 DEF GoStale
  <2>2. /\ s \in Sessions /\ Is(s, "LIVE") /\ session[s] \in Row
        /\ session'[s] = [session[s] EXCEPT !.stale = TRUE]
        /\ \A t \in Sessions : t # s => session'[t] = session[t]
    BY <1>0, <1>12 DEF GoStale, TypeOK, Existing
  <2>3. /\ session'[s] \in Row /\ session'[s].status = "LIVE"
        /\ session'[s].family = session[s].family /\ session'[s].next = session[s].next
    BY <2>2 DEF Row, Is
  <2>4. session' \in [Sessions -> Row \cup {NoSession}]
    BY <1>0, <1>12, <2>2, <2>3 DEF GoStale, TypeOK
  <2>5. Ends
    BY <2>2, <2>3 DEF Ends
  <2>6. RestTyped'
    BY <1>0, <2>1 DEF RestTyped
  <2> QED
    BY <1>0, <2>1, <2>4, <2>5, <2>6, EndsPreserves
<1>13. ASSUME NEW s \in Existing, PurgeExpiredRecoveries(s) PROVE IInv' /\ HeadsStep
  <2>1. /\ UNCHANGED <<session, browser, requests, removing, attempts>>
        /\ WindowMayEnd(s)
    BY <1>13 DEF PurgeExpiredRecoveries
  <2>2. \A t \in Existing : recovery'[t] = recovery[t] \/ (WindowMayEnd(t) /\ browser' = browser)
    BY <1>0, <1>13, <2>1 DEF PurgeExpiredRecoveries, TypeOK, Existing
  <2>3. RestTyped'
    BY <1>0, <1>13, <2>1 DEF PurgeExpiredRecoveries, RestTyped, Existing
  <2> QED
    BY <1>0, <2>1, <2>2, <2>3, SameRows, EndsPreserves
<1>14. ASSUME NEW r \in requests, RefuseRefresh(r) PROVE IInv' /\ HeadsStep
  <2>1. /\ requests' = requests \ {r} /\ UNCHANGED <<session, recovery, removing, attempts>>
        /\ browser' = [browser EXCEPT ![r.from].attempt = None, ![r.from].fresh = FALSE]
    BY <1>14 DEF RefuseRefresh
  <2>2. IsFiniteSet(requests') /\ Cardinality(requests') = Cardinality(requests) - 1
    BY <1>0, <2>1, FS_RemoveElement
  <2> DEFINE x == [browser[r.from] EXCEPT !.attempt = None, !.fresh = FALSE]
  <2>3. r.from \in Browsers /\ browser \in [Browsers -> Browser] /\ browser[r.from] \in Browser
    BY <1>0 DEF TypeOK, Request
  <2>4. /\ x \in Browser /\ x.cookie = browser[r.from].cookie /\ x.attempt = None
        /\ x.fresh = FALSE
    BY <2>3 DEF Browser
  <2>5. browser' = [browser EXCEPT ![r.from] = x]
    BY <2>1, <2>3
  <2> HIDE DEF x
  <2>6. /\ browser' \in [Browsers -> Browser] /\ browser'[r.from] = x
        /\ \A b \in Browsers : b # r.from => browser'[b] = browser[b]
    BY <2>3, <2>4, <2>5
  <2>7. RestTyped' /\ SameRequests
    BY <1>0, <2>1, <2>2, <2>6 DEF RestTyped, SameRequests
  <2>8. \A b \in Browsers :
          /\ browser'[b].cookie \in {browser[b].cookie, None}
          /\ browser'[b].attempt \in {browser[b].attempt, None}
          /\ browser'[b].fresh => browser[b].fresh /\ browser'[b].attempt = browser[b].attempt
    BY <2>4, <2>6
  <2> QED
    BY <1>0, <2>1, <2>2, <2>7, <2>8, SameRows, EndsPreserves
<1>15. ASSUME UNCHANGED vars PROVE IInv' /\ HeadsStep
  <2>1. UNCHANGED <<session, recovery, browser, requests, removing, attempts>>
    BY <1>15 DEF vars
  <2>2. RestTyped'
    BY <1>0, <2>1 DEF RestTyped
  <2> QED
    BY <1>0, <2>1, <2>2, SameRows, EndsPreserves
<1> QED
  BY <1>1, <1>2, <1>3, <1>4, <1>5, <1>6, <1>7, <1>8, <1>9, <1>10, <1>11, <1>12, <1>13, <1>14,
     <1>15, CreatePreserves, CredentialChangePreserves DEF Next

\* Every step preserves the invariant.
THEOREM NextIInv == IInv /\ [Next]_vars => IInv'
  BY NextPreserves

LEMMA InvariantHolds == Spec => []IInv
  BY InitIInv, NextIInv, PTL DEF Spec

-----------------------------------------------------------------------------
(* What follows for every login                                            *)

\* For every instance: rows, recovery records, cookies and requests keep their
\* shape, and a row names its successor exactly when a rotation replaced it.
THEOREM SessionsTyped == Spec => []TypeOK
<1>1. IInv => TypeOK
  BY DEF IInv
<1> QED
  BY <1>1, InvariantHolds, PTL

\* For every instance: no retry, duplicate, recovery or password change gives
\* a login two live rows.
THEOREM LoginNeverBranches == Spec => []OneHead
<1>1. IInv => OneHead
  <2> SUFFICES ASSUME IInv, NEW f \in Sessions PROVE Cardinality(Heads(f)) <= 1
    BY DEF OneHead
  <2>1. CASE Heads(f) = {}
    BY <2>1, FS_EmptySet
  <2>2. CASE Heads(f) # {}
    <3>1. PICK s \in Heads(f) : TRUE
      BY <2>2
    <3>2. ASSUME NEW t \in Heads(f) PROVE t = s
      <4>1. /\ s \in Existing /\ Is(s, "LIVE") /\ t \in Existing /\ Is(t, "LIVE")
            /\ Family(s) = Family(t)
        BY <3>1, <3>2 DEF Heads, Is, Family
      <4> QED
        BY <4>1, OneLiveRow DEF IInv
    <3>3. Heads(f) = {s}
      BY <3>1, <3>2
    <3> QED
      BY <3>3, FS_Singleton
  <2> QED
    BY <2>1, <2>2
<1> QED
  BY <1>1, InvariantHolds, PTL

\* For every instance: however requests and answers are delayed, lost and
\* repeated, a browser that repeats its attempt in time finds the record of the
\* rotation, and its successor is the live row of the login.
THEOREM LostAnswersRecover == Spec => []LostAnswerRecoverable
<1>1. IInv => LostAnswerRecoverable
  <2> SUFFICES ASSUME IInv, NEW b \in Browsers, NEW c, c = browser[b].cookie,
                      c # None, Is(c, "ROTATED"), browser[b].fresh,
                      session[c].by = browser[b].attempt, Heads(Family(c)) # {},
                      \A s \in FamilyRows(c) : ~Is(s, "CREDENTIAL_CHANGED")
               PROVE  recovery[c] = browser[b].attempt /\ Heads(Family(c)) = {session[c].next}
    BY DEF LostAnswerRecoverable
  <2>1. recovery[c] = browser[b].attempt
    BY DEF IInv, Recorded, Is
  <2> DEFINE n == session[c].next
  <2>2. /\ c \in Existing /\ Is(n, "LIVE") /\ n \in Existing /\ Family(n) = Family(c)
    BY DEF IInv, Successor, Rows, Is
  <2>3. ASSUME NEW t \in Heads(Family(c)) PROVE t = n
    <3>1. t \in Existing /\ Is(t, "LIVE") /\ Family(t) = Family(n)
      BY <2>2, <2>3 DEF Heads, Is, Family
    <3> QED
      BY <3>1, <2>2, OneLiveRow DEF IInv
  <2>4. n \in Heads(Family(c))
    BY <2>2 DEF Heads, Is, Family
  <2> QED
    BY <2>1, <2>3, <2>4
<1> QED
  BY <1>1, InvariantHolds, PTL

\* For every instance: no late or repeated request and no command revives a
\* login that has ended.
THEOREM LoginsEndForGood == Spec => EndedStaysEnded
<1>1. IInv /\ [Next]_vars => [\A f \in Existing : Heads(f) = {} => Heads(f)' = {}]_vars
  BY NextPreserves DEF HeadsStep, Existing
<1> QED
  BY <1>1, InvariantHolds, PTL DEF Spec, EndedStaysEnded

\* For every instance: a logout with the token of a live row, or of one that a
\* refresh has rotated unseen, leaves its login without a live row.
THEOREM LogoutsEndLogins == Spec => LogoutEndsLogin
<1> DEFINE Step == \A r \in requests :
          (RevokeByRefreshToken(r) /\ (Is(r.token, "LIVE") \/ Is(r.token, "ROTATED")))
              => Heads(Family(r.token))' = {}
<1>1. IInv /\ [Next]_vars => [Step]_vars
  <2> SUFFICES ASSUME IInv, NEW r \in requests, RevokeByRefreshToken(r),
                      Is(r.token, "LIVE") \/ Is(r.token, "ROTATED"),
                      NEW s, s \in Heads(Family(r.token))'
               PROVE  FALSE
    OBVIOUS
  <2>1. TypeOK /\ Rows /\ attempts \in Nat /\ attempts' = attempts
    BY DEF IInv, TypeOK, RevokeByRefreshToken
  <2>2. session' = End(LogoutRows(r.token), "ENDED")
    BY DEF RevokeByRefreshToken
  <2>3. Existing' = Existing /\ Kept
    BY <2>1, <2>2, EndEnds, EndsRows
  <2>4. /\ s \in Existing /\ session'[s].status = "LIVE" /\ r.token \in Existing
        /\ session[s].family = session[r.token].family
    BY <2>3 DEF Heads, Family, Kept, Is
  <2>5. s \in Sessions /\ s \notin LogoutRows(r.token) /\ Is(s, "LIVE")
    <3>1. s \in Sessions
      BY <2>4 DEF Existing
    <3>2. Is(s, "LIVE")
      BY <2>4, <2>3 DEF Kept, Is
    <3>3. CASE s \in LogoutRows(r.token)
      <4>1. session'[s] = [session[s] EXCEPT !.status = "ENDED", !.stale = FALSE]
        BY <2>2, <3>1, <3>2, <3>3 DEF End
      <4>2. session[s] \in Row
        BY <2>1, <3>2 DEF TypeOK, Is, Existing
      <4> QED
        BY <4>1, <4>2, <2>4 DEF Row
    <3> QED
      BY <3>1, <3>2, <3>3
  <2>6. CASE Is(r.token, "ROTATED")
    BY <2>4, <2>5, <2>6 DEF LogoutRows, FamilyRows, Family
  <2>7. CASE Is(r.token, "LIVE")
    BY <2>1, <2>4, <2>5, <2>7, OneLiveRow DEF LogoutRows, Family, Is
  <2> QED
    BY <2>6, <2>7
<1> QED
  BY <1>1, InvariantHolds, PTL DEF Spec, LogoutEndsLogin

=============================================================================
