--------------------------- MODULE CustomDoorProofs ---------------------------
(***************************************************************************)
(* What CustomDoor's run checks on a small instance, proved for all        *)
(* prices, deposits and parts and any number of quotations, attempts and   *)
(* drafts.                                                                 *)
(***************************************************************************)
EXTENDS CustomDoor, FiniteSetTheorems, TLAPS

-----------------------------------------------------------------------------
(* The inductive invariant                                                 *)

\* The current quotation is the newest one; an accepted quotation is the
\* current one, is approved, and belongs to an order that was submitted; a
\* technical approval is of what was accepted; a screen that is up to date
\* shows the current quotation; and a sale is only cancelled with its door.
Quotations ==
    /\ door.quote = Len(quotes)
    /\ door.status = "NONE" <=> door.quote = 0
    /\ door.status \in {"NONE", "DRAFT", "PENDING_QUOTE_APPROVAL"} => door.accepted = NoQuote
    /\ door.accepted # NoQuote => Agreed
    /\ door.technical => door.accepted # NoQuote
    /\ seen.fresh => seen.quote = door.quote
    /\ sale.status = "CANCELLED" => door.status = "CANCELLED"

\* The units of money that were received and have not gone back.
Units ==
    UNION {{p} \X (payment[p].refunded + 1 .. payment[p].amount) : p \in AttemptsIn(Received)}

\* One attempt is open at a time, and nothing of it was refunded.
Attempted ==
    /\ IsFiniteSet(Units)
    /\ \A p, q \in Pending : p = q
    /\ \A p \in Pending : payment[p].refunded = 0

IInv ==
    /\ DoorTypeOK /\ Quotations /\ Attempted
    /\ MoneyFitsQuote /\ MaterialsFollowOrder /\ InvoiceNamesQuote

-----------------------------------------------------------------------------
(* The money of the order                                                  *)

LEMMA PaidIsUnits == doorPaid = Cardinality(Units) /\ doorPaid' = Cardinality(Units')
  BY DEF doorPaid, Units

LEMMA PaidNat ==
    ASSUME IInv
    PROVE  doorPaid \in Nat
  BY PaidIsUnits, FS_CardinalityType DEF IInv, Attempted

\* What is in Units, one at a time.
LEMMA UnitsMembers ==
    /\ \A u : u \in Units <=> \E p \in AttemptsIn(Received) :
                                 u \in {p} \X (payment[p].refunded + 1 .. payment[p].amount)
    /\ \A u : u \in Units' <=> \E p \in AttemptsIn(Received)' :
                                 u \in {p} \X (payment'[p].refunded + 1 .. payment'[p].amount)
  BY DEF Units

LEMMA PaidStable ==
    ASSUME payment' = payment
    PROVE  /\ Units' = Units /\ doorPaid' = doorPaid /\ Pending' = Pending
           /\ AttemptsIn(Received)' = AttemptsIn(Received)
  BY DEF Units, doorPaid, Pending, AttemptsIn

\* A row that is not received, before and after, leaves the money alone.
LEMMA PaidUntouched ==
    ASSUME DoorTypeOK, NEW p \in Attempts, NEW row \in Payment,
           payment' = [payment EXCEPT ![p] = row],
           p \notin AttemptsIn(Received), row.status \notin Received
    PROVE  /\ AttemptsIn(Received)' = AttemptsIn(Received)
           /\ Units' = Units /\ doorPaid' = doorPaid
<1>1. /\ payment'[p] = row
      /\ \A q \in Attempts : q # p => payment'[q] = payment[q]
  BY DEF DoorTypeOK
<1>2. AttemptsIn(Received)' = AttemptsIn(Received)
  BY <1>1 DEF AttemptsIn
<1>3. \A q \in AttemptsIn(Received) : payment'[q] = payment[q]
  BY <1>1 DEF AttemptsIn
<1>4. Units' = Units
  BY <1>2, <1>3, UnitsMembers
<1> QED
  BY <1>2, <1>4, PaidIsUnits

\* A confirmed attempt adds its amount.
LEMMA PaidGrows ==
    ASSUME IInv, NEW p \in Pending, NEW row \in Payment,
           payment' = [payment EXCEPT ![p] = row],
           row.status = "PAID", row.amount = payment[p].amount, row.refunded = payment[p].refunded
    PROVE  /\ AttemptsIn(Received)' = AttemptsIn(Received) \cup {p}
           /\ IsFiniteSet(Units') /\ doorPaid' = doorPaid + payment[p].amount
<1> DEFINE a == payment[p].amount
           new == {p} \X (1 .. a)
<1>1. /\ p \in Attempts /\ payment[p] \in Payment /\ payment[p].status = "PENDING"
      /\ row.refunded = 0 /\ a \in Nat \ {0} /\ row # NoPayment
  BY DoorAssumption DEF IInv, DoorTypeOK, Pending, AttemptsIn, Attempted, Payment
<1>2. /\ payment'[p] = row
      /\ \A q \in Attempts : q # p => payment'[q] = payment[q]
  BY <1>1 DEF IInv, DoorTypeOK
<1>3. p \notin AttemptsIn(Received)
  BY <1>1 DEF AttemptsIn, Received
<1>4. AttemptsIn(Received)' = AttemptsIn(Received) \cup {p}
  BY <1>1, <1>2 DEF AttemptsIn, Received
<1>5. \A q \in AttemptsIn(Received) : q # p /\ payment'[q] = payment[q]
  BY <1>2, <1>3 DEF AttemptsIn
<1>6. row.refunded + 1 .. row.amount = 1 .. a
  BY <1>1
<1>7. Units' = Units \cup new
  BY <1>2, <1>4, <1>5, <1>6, UnitsMembers
<1>8. Units \cap new = {}
  <2>1. ASSUME NEW u \in Units, u \in new PROVE FALSE
    <3>1. PICK q \in AttemptsIn(Received) :
             u \in {q} \X (payment[q].refunded + 1 .. payment[q].amount)
      BY <2>1, UnitsMembers
    <3>2. u[1] = q /\ u[1] = p
      BY <2>1, <3>1
    <3> QED
      BY <3>1, <3>2, <1>3
  <2> QED
    BY <2>1
<1>9. IsFiniteSet(new) /\ Cardinality(new) = a
  <2>1. IsFiniteSet({p}) /\ Cardinality({p}) = 1
    BY FS_Singleton
  <2>2. IsFiniteSet(1 .. a) /\ Cardinality(1 .. a) = a
    <3> HIDE DEF a
    <3>1. /\ IsFiniteSet(1 .. a)
          /\ Cardinality(1 .. a) = IF 1 > a THEN 0 ELSE a - 1 + 1
      BY <1>1, FS_Interval
    <3> QED
      BY <1>1, <3>1
  <2>3. IsFiniteSet(new) /\ Cardinality(new) = Cardinality({p}) * Cardinality(1 .. a)
    BY <2>1, <2>2, FS_Product
  <2> HIDE DEF new
  <2>4. Cardinality(new) = 1 * a
    BY <2>1, <2>2, <2>3
  <2> QED
    BY <2>3, <2>4, <1>1
<1>10. IsFiniteSet(Units') /\ Cardinality(Units') = Cardinality(Units) + a
  <2> HIDE DEF new
  <2>1. IsFiniteSet(Units)
    BY DEF IInv, Attempted
  <2>2. /\ IsFiniteSet(Units \cup new)
        /\ Cardinality(Units \cup new) =
             Cardinality(Units) + Cardinality(new) - Cardinality(Units \cap new)
    BY <2>1, <1>9, FS_Union
  <2>3. Cardinality(Units \cap new) = 0 /\ Cardinality(Units) \in Nat
    BY <2>1, <1>8, FS_EmptySet, FS_CardinalityType
  <2> QED
    BY <2>2, <2>3, <1>1, <1>7, <1>9
<1> QED
  BY <1>4, <1>10, PaidIsUnits

\* A refund takes units away.
LEMMA PaidShrinks ==
    ASSUME IInv, NEW p \in AttemptsIn(Received), NEW row \in Payment,
           payment' = [payment EXCEPT ![p] = row],
           row.status \in Received, row.amount = payment[p].amount,
           row.refunded >= payment[p].refunded
    PROVE  /\ AttemptsIn(Received)' = AttemptsIn(Received)
           /\ IsFiniteSet(Units') /\ doorPaid' <= doorPaid /\ doorPaid' \in Nat
<1>1. /\ p \in Attempts /\ payment[p] \in Payment /\ row # NoPayment
  BY DoorAssumption DEF IInv, DoorTypeOK, AttemptsIn
<1>2. /\ payment'[p] = row
      /\ \A q \in Attempts : q # p => payment'[q] = payment[q]
  BY <1>1 DEF IInv, DoorTypeOK
<1>3. AttemptsIn(Received)' = AttemptsIn(Received)
  BY <1>1, <1>2 DEF AttemptsIn
<1>4. row.refunded + 1 .. row.amount \subseteq payment[p].refunded + 1 .. payment[p].amount
  BY <1>1 DEF Payment
<1>5. ASSUME NEW u \in Units' PROVE u \in Units
  <2>1. PICK q \in AttemptsIn(Received) :
           u \in {q} \X (payment'[q].refunded + 1 .. payment'[q].amount)
    BY <1>3, <1>5, UnitsMembers
  <2>2. CASE q = p
    <3>1. u \in {p} \X (row.refunded + 1 .. row.amount)
      BY <2>1, <2>2, <1>2
    <3>2. u \in {p} \X (payment[p].refunded + 1 .. payment[p].amount)
      BY <3>1, <1>4
    <3> QED
      BY <3>2, UnitsMembers
  <2>3. CASE q # p
    BY <2>1, <2>3, <1>2, UnitsMembers DEF AttemptsIn
  <2> QED
    BY <2>2, <2>3
<1>6. Units' \in SUBSET Units
  BY <1>5
<1>7. IsFiniteSet(Units') /\ Cardinality(Units') <= Cardinality(Units)
  BY <1>6, FS_Subset DEF IInv, Attempted
<1> QED
  BY <1>3, <1>7, PaidIsUnits, FS_CardinalityType

-----------------------------------------------------------------------------
(* What the invariant says about an order, case by case                    *)

QuoteRow == [approved : BOOLEAN, total : Totals \cup {Manual}]

Sale == [status : {"DRAFT", "PENDING_PAYMENT", "PAID", "CANCELLED"}, address : BOOLEAN]

\* An order that exists has a current quotation.
LEMMA Current ==
    ASSUME IInv, door.status # "NONE"
    PROVE  /\ door.quote \in 1 .. MaxQuotes /\ door.quote \in 1 .. Len(quotes)
           /\ Quote \in QuoteRow /\ Quote.total \in Nat
<1>1. door.quote \in 0 .. MaxQuotes /\ door.quote # 0 /\ door.quote = Len(quotes)
  BY DEF IInv, DoorTypeOK, Quotations, Door
<1>2. quotes \in Seq(QuoteRow) /\ Len(quotes) \in Nat
  BY DEF IInv, DoorTypeOK, QuoteRow
<1>3. door.quote \in 1 .. MaxQuotes /\ door.quote \in 1 .. Len(quotes)
  BY <1>1, <1>2, DoorAssumption
<1>4. Quote \in QuoteRow
  BY <1>2, <1>3 DEF Quote
<1>5. Quote.total \in Totals \cup {Manual}
  BY <1>4 DEF QuoteRow
<1>6. Totals \cup {Manual} \subseteq Nat
  BY DoorAssumption DEF Manual
<1> QED
  BY <1>3, <1>4, <1>5, <1>6

\* While nothing is accepted nothing is built on the quotation.
LEMMA NothingBuilt ==
    ASSUME IInv, door.accepted = NoQuote
    PROVE  /\ Pending = {} /\ Invoiced = {} /\ ~door.technical
           /\ \A v \in 1 .. MaxQuotes, r \in Parts : part[v][r] \notin Held \cup {"CONSUMED"}
<1>1. ASSUME NEW p \in Pending PROVE FALSE
  <2>1. payment[p] \in Payment /\ payment[p].quote = 0
    BY <1>1 DEF IInv, DoorTypeOK, MoneyFitsQuote, Pending, AttemptsIn, NoQuote
  <2> QED
    BY <2>1, DoorAssumption DEF Payment
<1>2. ASSUME NEW d \in Invoiced PROVE FALSE
  <2>1. d \in Drafts /\ draft[d] \in Draft /\ draft[d].quote = 0
    BY <1>2 DEF IInv, DoorTypeOK, InvoiceNamesQuote, Invoiced, Agreed, NoQuote
  <2> QED
    BY <2>1, DoorAssumption DEF Draft
<1>3. ASSUME NEW v \in 1 .. MaxQuotes, NEW r \in Parts, part[v][r] \in Held \cup {"CONSUMED"}
      PROVE  FALSE
  <2>1. v = 0
    BY <1>3 DEF IInv, MaterialsFollowOrder, Agreed, NoQuote
  <2> QED
    BY <2>1, DoorAssumption
<1> QED
  BY <1>1, <1>2, <1>3 DEF IInv, Quotations

\* A new quotation is added while nothing is built on the one before it.
LEMMA NewQuote ==
    ASSUME IInv, Pending = {}, Invoiced' = {},
           \A v \in 1 .. MaxQuotes, r \in Parts : part[v][r] \notin Held \cup {"CONSUMED"},
           NEW q \in QuoteRow, Len(quotes) < MaxQuotes, quotes' = Append(quotes, q),
           door' \in Door, door'.quote = door.quote + 1,
           door'.accepted = NoQuote, door'.technical = FALSE,
           door'.status \in {"DRAFT", "PENDING_QUOTE_APPROVAL", "AWAITING_DEPOSIT"},
           seen' = [seen EXCEPT !.fresh = FALSE],
           sale' \in Sale, sale'.status # "CANCELLED",
           draft' \in [Drafts -> Draft \cup {NoDraft}],
           payment' = payment, part' = part
    PROVE  IInv'
<1>1. quotes' \in Seq(QuoteRow) /\ Len(quotes') = Len(quotes) + 1 /\ Len(quotes) \in Nat
  BY DEF IInv, DoorTypeOK, QuoteRow
<1>2. DoorTypeOK'
  BY <1>1 DEF IInv, DoorTypeOK, QuoteRow, Sale
<1>3. seen'.fresh = FALSE
  BY DEF IInv, DoorTypeOK
<1>4. Quotations'
  BY <1>1, <1>3 DEF IInv, Quotations
<1>5. Attempted' /\ MoneyFitsQuote'
  BY PaidStable DEF IInv, Attempted, MoneyFitsQuote
<1>6. MaterialsFollowOrder'
  BY DEF MaterialsFollowOrder, Held
<1>7. InvoiceNamesQuote'
  BY DEF InvoiceNamesQuote, Invoiced
<1> QED
  BY <1>2, <1>4, <1>5, <1>6, <1>7 DEF IInv

\* The quotation and what was agreed about it stay.
AgreementKept ==
    /\ quotes' = quotes /\ door'.quote = door.quote
    /\ door.accepted = door.quote => door'.accepted = door.quote

\* The row moves on within the order's life.
DoorKept ==
    /\ door' \in Door /\ AgreementKept
    /\ seen' \in [quote : 0 .. MaxQuotes, fresh : BOOLEAN]
    /\ seen'.fresh => seen'.quote = door.quote
    /\ door'.status # "NONE" /\ door.status # "NONE"
    /\ door'.status \in {"DRAFT", "PENDING_QUOTE_APPROVAL"} => door'.accepted = NoQuote
    /\ door'.accepted # NoQuote => Agreed'
    /\ door'.technical => door'.accepted # NoQuote
    /\ sale' \in Sale
    /\ sale'.status = "CANCELLED" => door'.status = "CANCELLED"

LEMMA AgreedKept ==
    ASSUME AgreementKept
    PROVE  /\ Quote' = Quote
           /\ Agreed => Agreed'
  BY DEF AgreementKept, Agreed, Quote

LEMMA QuotationsKept ==
    ASSUME IInv, DoorKept
    PROVE  Quotations'
  BY DEF IInv, DoorKept, AgreementKept, Quotations

LEMMA MoneyKept ==
    ASSUME IInv, AgreementKept, payment' = payment,
           Pending # {} => door'.status \notin {"CANCELLED", "COMPLETED"},
           door'.status = "CANCELLED" => doorPaid = 0
    PROVE  MoneyFitsQuote' /\ Attempted'
  BY PaidStable, AgreedKept DEF IInv, AgreementKept, MoneyFitsQuote, Attempted

LEMMA MaterialsKept ==
    ASSUME IInv, AgreementKept, part' = part,
           \A r \in Parts : part[door.quote][r] \in Held => door'.status \in Open \cup {"IN_PRODUCTION"},
           \A r \in Parts : part[door.quote][r] = "CONSUMED" => door'.status \in Building \cup {"COMPLETED"}
    PROVE  MaterialsFollowOrder'
  BY AgreedKept DEF IInv, AgreementKept, MaterialsFollowOrder

\* A draft keeps its state and its quotation.
DraftsKept ==
    \A d \in Drafts :
        /\ draft'[d] = NoDraft <=> draft[d] = NoDraft
        /\ draft[d] # NoDraft => /\ draft'[d].state = draft[d].state
                                 /\ draft'[d].quote = draft[d].quote

LEMMA InvoicesKept ==
    ASSUME IInv, AgreementKept, DraftsKept
    PROVE  InvoiceNamesQuote'
  BY AgreedKept DEF IInv, AgreementKept, InvoiceNamesQuote, DraftsKept

LEMMA DraftsUntouched ==
    ASSUME draft' = draft
    PROVE  DraftsKept
  BY DEF DraftsKept

\* The sale's new version makes drafts old and changes nothing else of them.
LEMMA SaleMoves ==
    ASSUME IInv, NEW s, SaleBecomes(s)
    PROVE  /\ sale' = s /\ DraftsKept /\ draft' \in [Drafts -> Draft \cup {NoDraft}]
           /\ Invoiced' = Invoiced
<1>1. ASSUME NEW d \in Drafts, draft[d] # NoDraft
      PROVE  /\ draft'[d] \in Draft /\ draft'[d] # NoDraft
             /\ draft'[d].state = draft[d].state /\ draft'[d].quote = draft[d].quote
  <2>1. draft[d] \in Draft
    BY <1>1 DEF IInv, DoorTypeOK
  <2>2. draft'[d] = [draft[d] EXCEPT !.current = FALSE]
    BY <1>1 DEF SaleBecomes
  <2>3. /\ draft'[d] \in Draft
        /\ draft'[d].state = draft[d].state /\ draft'[d].quote = draft[d].quote
    BY <2>1, <2>2 DEF Draft
  <2> QED
    BY <2>3, DoorAssumption
<1>2. ASSUME NEW d \in Drafts, draft[d] = NoDraft PROVE draft'[d] = NoDraft
  BY <1>2 DEF SaleBecomes
<1>3. DraftsKept
  BY <1>1, <1>2 DEF DraftsKept
<1>4. draft' \in [Drafts -> Draft \cup {NoDraft}]
  <2>1. \A d \in Drafts : draft'[d] \in Draft \cup {NoDraft}
    BY <1>1, <1>2
  <2>2. draft' = [d \in Drafts |-> draft'[d]]
    BY DEF SaleBecomes
  <2> QED
    BY <2>1, <2>2
<1>5. Invoiced' = Invoiced
  BY <1>1, <1>2 DEF Invoiced
<1> QED
  BY <1>3, <1>4, <1>5 DEF SaleBecomes

-----------------------------------------------------------------------------
(* The commands about quotations                                           *)

LEMMA CreateKeeps ==
    ASSUME IInv, NEW asDraft \in BOOLEAN, NEW total \in Totals \cup {Manual}, Create(asDraft, total)
    PROVE  IInv'
<1> DEFINE approved == ~asDraft /\ total # Manual
           q == [approved |-> approved, total |-> IF approved THEN total ELSE Manual]
<1>1. door.status = "NONE" /\ door.quote = 0 /\ door.accepted = NoQuote
  BY DEF Create, IInv, Quotations
<1>2. /\ Pending = {} /\ Invoiced = {} /\ ~door.technical
      /\ \A v \in 1 .. MaxQuotes, r \in Parts : part[v][r] \notin Held \cup {"CONSUMED"}
  BY <1>1, NothingBuilt
<1>3. q \in QuoteRow
  BY DEF QuoteRow
<1>4. /\ Len(quotes) < MaxQuotes /\ quotes' = Append(quotes, q)
      /\ seen' = [seen EXCEPT !.fresh = FALSE]
      /\ payment' = payment /\ part' = part /\ draft' = draft
  BY DEF Create, Quoted, DoorBecomes
<1>5. /\ door' \in Door /\ door'.quote = door.quote + 1
      /\ door'.accepted = NoQuote /\ door'.technical = FALSE
      /\ door'.status \in {"DRAFT", "PENDING_QUOTE_APPROVAL", "AWAITING_DEPOSIT"}
  <2>1. door \in Door /\ MaxQuotes \in Nat \ {0}
    BY DoorAssumption DEF IInv, DoorTypeOK
  <2>2. PICK st \in {"DRAFT", "PENDING_QUOTE_APPROVAL", "AWAITING_DEPOSIT"} :
           door' = [door EXCEPT !.status = st, !.quote = 1]
    BY DEF Create, DoorBecomes
  <2>3. 1 \in 0 .. MaxQuotes /\ st \in Statuses
    BY <2>1 DEF Statuses, Open
  <2>4. door' \in Door /\ door'.quote = 1 /\ door'.accepted = door.accepted
        /\ door'.technical = door.technical /\ door'.status = st
    BY <2>1, <2>2, <2>3 DEF Door
  <2> QED
    BY <2>4, <1>1, <1>2
<1>6. sale' \in Sale /\ sale'.status # "CANCELLED"
  BY DEF Create, IInv, DoorTypeOK, Sale
<1>7. Invoiced' = {} /\ draft' \in [Drafts -> Draft \cup {NoDraft}]
  BY <1>2, <1>4 DEF Invoiced, IInv, DoorTypeOK
<1> HIDE DEF q
<1> QED
  BY <1>2, <1>3, <1>4, <1>5, <1>6, <1>7, NewQuote

LEMMA replaceDraftKeeps ==
    ASSUME IInv, replaceDraft
    PROVE  IInv'
<1> DEFINE q == [approved |-> FALSE, total |-> Manual]
<1>1. door.status = "DRAFT" /\ door.accepted = NoQuote
  BY DEF replaceDraft, IInv, Quotations
<1>2. /\ Pending = {} /\ Invoiced = {} /\ ~door.technical
      /\ \A v \in 1 .. MaxQuotes, r \in Parts : part[v][r] \notin Held \cup {"CONSUMED"}
  BY <1>1, NothingBuilt
<1>3. q \in QuoteRow
  BY DEF QuoteRow
<1>4. /\ Len(quotes) < MaxQuotes /\ quotes' = Append(quotes, q)
      /\ seen' = [seen EXCEPT !.fresh = FALSE]
      /\ payment' = payment /\ part' = part /\ draft' = draft
  BY DEF replaceDraft, Quoted, DoorBecomes
<1>5. /\ door' \in Door /\ door'.quote = door.quote + 1
      /\ door'.accepted = NoQuote /\ door'.technical = FALSE
      /\ door'.status \in {"DRAFT", "PENDING_QUOTE_APPROVAL", "AWAITING_DEPOSIT"}
  <2>1. door \in Door /\ MaxQuotes \in Nat \ {0} /\ door.quote < MaxQuotes
    BY <1>4, DoorAssumption DEF IInv, DoorTypeOK, Quotations
  <2>2. door' = [door EXCEPT !.quote = door.quote + 1]
    BY DEF replaceDraft, DoorBecomes
  <2> QED
    BY <2>1, <2>2, <1>1, <1>2 DEF Door
<1>6. sale' \in Sale /\ sale'.status # "CANCELLED"
  BY <1>1 DEF replaceDraft, IInv, DoorTypeOK, Sale, Quotations
<1>7. Invoiced' = {} /\ draft' \in [Drafts -> Draft \cup {NoDraft}]
  BY <1>2, <1>4 DEF Invoiced, IInv, DoorTypeOK
<1> HIDE DEF q
<1> QED
  BY <1>2, <1>3, <1>4, <1>5, <1>6, <1>7, NewQuote

LEMMA submitDraftKeeps ==
    ASSUME IInv, NEW total \in Totals \cup {Manual}, submitDraft(total)
    PROVE  IInv'
<1> DEFINE q == [approved |-> total # Manual, total |-> IF total # Manual THEN total ELSE Manual]
<1>1. door.status = "DRAFT" /\ door.accepted = NoQuote
  BY DEF submitDraft, IInv, Quotations
<1>2. /\ Pending = {} /\ Invoiced = {} /\ ~door.technical
      /\ \A v \in 1 .. MaxQuotes, r \in Parts : part[v][r] \notin Held \cup {"CONSUMED"}
  BY <1>1, NothingBuilt
<1>3. q \in QuoteRow
  BY DEF QuoteRow
<1>4. /\ Len(quotes) < MaxQuotes /\ quotes' = Append(quotes, q)
      /\ seen' = [seen EXCEPT !.fresh = FALSE]
      /\ payment' = payment /\ part' = part /\ draft' = draft
  BY DEF submitDraft, Quoted, DoorBecomes
<1>5. /\ door' \in Door /\ door'.quote = door.quote + 1
      /\ door'.accepted = NoQuote /\ door'.technical = FALSE
      /\ door'.status \in {"DRAFT", "PENDING_QUOTE_APPROVAL", "AWAITING_DEPOSIT"}
  <2>1. door \in Door /\ MaxQuotes \in Nat \ {0} /\ door.quote < MaxQuotes
    BY <1>4, DoorAssumption DEF IInv, DoorTypeOK, Quotations
  <2>2. PICK st \in {"PENDING_QUOTE_APPROVAL", "AWAITING_DEPOSIT"} :
           door' = [door EXCEPT !.quote = door.quote + 1, !.status = st]
    BY DEF submitDraft, DoorBecomes
  <2>3. door.quote + 1 \in 0 .. MaxQuotes /\ st \in Statuses
    BY <2>1 DEF Door, Statuses, Open
  <2>4. door' \in Door /\ door'.quote = door.quote + 1 /\ door'.accepted = door.accepted
        /\ door'.technical = door.technical /\ door'.status = st
    BY <2>1, <2>2, <2>3 DEF Door
  <2> QED
    BY <2>4, <1>1, <1>2
<1>6. sale' \in Sale /\ sale'.status # "CANCELLED"
  BY <1>1 DEF submitDraft, IInv, DoorTypeOK, Sale, Quotations
<1>7. Invoiced' = {} /\ draft' \in [Drafts -> Draft \cup {NoDraft}]
  BY <1>2, <1>4 DEF Invoiced, IInv, DoorTypeOK
<1> HIDE DEF q
<1> QED
  BY <1>2, <1>3, <1>4, <1>5, <1>6, <1>7, NewQuote

LEMMA approveQuoteKeeps ==
    ASSUME IInv, NEW total \in Totals, approveQuote(total)
    PROVE  IInv'
<1> DEFINE q == [approved |-> TRUE, total |-> total]
           s == [sale EXCEPT !.status = IF @ = "DRAFT" THEN "PENDING_PAYMENT" ELSE @]
<1>1. /\ door.status \in {"PENDING_QUOTE_APPROVAL", "AWAITING_DEPOSIT", "DEPOSIT_PAID",
                          "AWAITING_TECHNICAL_APPROVAL"}
      /\ Pending = {} /\ Invoiced = {}
      /\ \A v \in 1 .. MaxQuotes, r \in Parts : part[v][r] \notin Held \cup {"CONSUMED"}
  BY DEF approveQuote, MayRequote
<1>2. SaleBecomes(s)
  BY DEF approveQuote
<1>3. q \in QuoteRow
  BY DEF QuoteRow
<1>4. /\ Len(quotes) < MaxQuotes /\ quotes' = Append(quotes, q)
      /\ seen' = [seen EXCEPT !.fresh = FALSE]
      /\ payment' = payment /\ part' = part
  BY DEF approveQuote, Quoted, DoorBecomes
<1>5. /\ door' \in Door /\ door'.quote = door.quote + 1
      /\ door'.accepted = NoQuote /\ door'.technical = FALSE
      /\ door'.status \in {"DRAFT", "PENDING_QUOTE_APPROVAL", "AWAITING_DEPOSIT"}
  <2>1. door \in Door /\ MaxQuotes \in Nat \ {0} /\ door.quote < MaxQuotes
    BY <1>4, DoorAssumption DEF IInv, DoorTypeOK, Quotations
  <2>2. door' = [door EXCEPT !.status = "AWAITING_DEPOSIT", !.quote = door.quote + 1,
                             !.technical = FALSE, !.accepted = NoQuote]
    BY DEF approveQuote, DoorBecomes
  <2>3. door.quote + 1 \in 0 .. MaxQuotes /\ NoQuote \in 0 .. MaxQuotes
    BY <2>1 DEF Door, NoQuote
  <2>4. "AWAITING_DEPOSIT" \in Statuses
    BY DEF Statuses, Open
  <2> QED
    BY <2>1, <2>2, <2>3, <2>4 DEF Door
<1>6. s \in Sale /\ s.status # "CANCELLED"
  BY <1>1 DEF IInv, DoorTypeOK, Sale, Quotations
<1> HIDE DEF s
<1>7. sale' = s /\ Invoiced' = {} /\ draft' \in [Drafts -> Draft \cup {NoDraft}]
  BY <1>1, <1>2, SaleMoves
<1>8. sale' \in Sale /\ sale'.status # "CANCELLED"
  BY <1>6, <1>7
<1> HIDE DEF q
<1> QED
  BY <1>1, <1>3, <1>4, <1>5, <1>7, <1>8, NewQuote

LEMMA ViewKeeps ==
    ASSUME IInv, View
    PROVE  IInv'
<1>1. door.status # "NONE" /\ seen' = [quote |-> door.quote, fresh |-> TRUE]
  BY DEF View
<1>2. UNCHANGED <<door, sale, quotes, payment, part, draft>>
  BY DEF View
<1>3. seen' \in [quote : 0 .. MaxQuotes, fresh : BOOLEAN]
  BY <1>1 DEF IInv, DoorTypeOK, Door
<1>4. DoorTypeOK'
  BY <1>2, <1>3 DEF IInv, DoorTypeOK
<1>5. AgreementKept
  BY <1>2 DEF AgreementKept
<1>6. Quotations'
  BY <1>1, <1>2 DEF IInv, Quotations, Agreed, Quote
<1>7. MoneyFitsQuote' /\ Attempted'
  BY <1>2, <1>5, MoneyKept DEF IInv, MoneyFitsQuote
<1>8. MaterialsFollowOrder'
  BY <1>2 DEF IInv, MaterialsFollowOrder, Agreed, Quote
<1>9. InvoiceNamesQuote'
  BY <1>2, <1>5, DraftsUntouched, InvoicesKept
<1> QED
  BY <1>4, <1>6, <1>7, <1>8, <1>9 DEF IInv

-----------------------------------------------------------------------------
(* The commands that move the order on                                     *)

\* What a move of the row has to respect.
LEMMA MoveKeeps ==
    ASSUME IInv, DoorKept, payment' = payment, part' = part,
           DraftsKept, draft' \in [Drafts -> Draft \cup {NoDraft}],
           door'.status # "CANCELLED" \/ door'.status = door.status,
           door'.status = "COMPLETED" => Pending = {},
           \A r \in Parts : part[door.quote][r] \in Held => door'.status \in Open \cup {"IN_PRODUCTION"},
           \A r \in Parts : part[door.quote][r] = "CONSUMED" => door'.status \in Building \cup {"COMPLETED"}
    PROVE  IInv'
<1>1. AgreementKept
  BY DEF DoorKept
<1>2. DoorTypeOK'
  BY DEF IInv, DoorTypeOK, DoorKept, AgreementKept, Sale
<1>3. Quotations'
  BY QuotationsKept
<1>4. door'.status = "CANCELLED" => doorPaid = 0 /\ Pending = {}
  BY DEF IInv, MoneyFitsQuote
<1>5. MoneyFitsQuote' /\ Attempted'
  BY <1>1, <1>4, MoneyKept
<1>6. MaterialsFollowOrder'
  BY <1>1, MaterialsKept
<1>7. InvoiceNamesQuote'
  BY <1>1, InvoicesKept
<1> QED
  BY <1>2, <1>3, <1>5, <1>6, <1>7 DEF IInv

LEMMA ScreenStale ==
    ASSUME IInv, NEW d, DoorBecomes(d)
    PROVE  /\ door' = d /\ seen' \in [quote : 0 .. MaxQuotes, fresh : BOOLEAN]
           /\ ~seen'.fresh
  BY DEF IInv, DoorTypeOK, DoorBecomes

LEMMA Untouched ==
    ASSUME IInv, UNCHANGED <<sale, quotes, payment, part, draft>>
    PROVE  /\ DraftsKept /\ draft' \in [Drafts -> Draft \cup {NoDraft}]
           /\ sale' \in Sale /\ sale'.status = sale.status
           /\ payment' = payment /\ part' = part /\ quotes' = quotes
  BY DEF IInv, DoorTypeOK, DraftsKept, Sale

\* Before production starts nothing is consumed.
LEMMA NotConsumedYet ==
    ASSUME IInv, door.status \in Open
    PROVE  \A v \in 1 .. MaxQuotes, r \in Parts : part[v][r] # "CONSUMED"
  BY DEF IInv, MaterialsFollowOrder, Building, Open

LEMMA acceptKeeps ==
    ASSUME IInv, accept
    PROVE  IInv' /\ door'.accepted = seen.quote
<1>1. /\ door.status \in {"AWAITING_DEPOSIT", "DEPOSIT_PAID", "AWAITING_TECHNICAL_APPROVAL"}
      /\ Quote.approved /\ seen.fresh
  BY DEF accept
<1>2. UNCHANGED <<sale, quotes, payment, part, draft>>
  BY DEF accept
<1>3. PICK st \in {"DEPOSIT_PAID", "AWAITING_DEPOSIT"} :
         DoorBecomes([door EXCEPT !.accepted = door.quote, !.status = st])
  BY DEF accept
<1>4. /\ door' \in Door /\ door'.accepted = door.quote /\ door'.quote = door.quote
      /\ door'.status = st /\ door'.technical = door.technical
  <2>1. st \in Statuses /\ door \in Door
    BY DEF Statuses, Open, IInv, DoorTypeOK
  <2>2. door' = [door EXCEPT !.accepted = door.quote, !.status = st]
    BY <1>3, ScreenStale
  <2> QED
    BY <2>1, <2>2 DEF Door
<1>5. door.quote \in 1 .. MaxQuotes
  BY <1>1, Current
<1>6. AgreementKept /\ Agreed'
  BY <1>1, <1>2, <1>4 DEF AgreementKept, Agreed, Quote
<1>7. door'.accepted # NoQuote
  BY <1>4, <1>5, DoorAssumption DEF NoQuote
<1>8. DoorKept
  BY <1>1, <1>2, <1>3, <1>4, <1>6, <1>7, ScreenStale, Untouched DEF DoorKept, IInv, Quotations
<1>9. /\ st \in Open
      /\ \A r \in Parts : part[door.quote][r] # "CONSUMED"
  BY <1>1, <1>5, NotConsumedYet DEF Open
<1>10. IInv'
  BY <1>2, <1>4, <1>8, <1>9, Untouched, MoveKeeps
<1> QED
  BY <1>1, <1>4, <1>10 DEF IInv, Quotations

LEMMA technicalKeeps ==
    ASSUME IInv, technical
    PROVE  IInv'
<1>1. /\ door.status \in {"DEPOSIT_PAID", "AWAITING_TECHNICAL_APPROVAL"}
      /\ Agreed
      /\ DoorBecomes([door EXCEPT !.technical = TRUE, !.status = "AWAITING_TECHNICAL_APPROVAL"])
  BY DEF technical
<1>2. UNCHANGED <<sale, quotes, payment, part, draft>>
  BY DEF technical
<1>4. /\ door' \in Door /\ door'.accepted = door.accepted /\ door'.quote = door.quote
      /\ door'.status = "AWAITING_TECHNICAL_APPROVAL"
  <2>1. "AWAITING_TECHNICAL_APPROVAL" \in Statuses /\ door \in Door
    BY DEF Statuses, Open, IInv, DoorTypeOK
  <2>2. door' = [door EXCEPT !.technical = TRUE, !.status = "AWAITING_TECHNICAL_APPROVAL"]
    BY <1>1, ScreenStale
  <2> QED
    BY <2>1, <2>2 DEF Door
<1>5. door.quote \in 1 .. MaxQuotes
  BY <1>1, Current
<1>6. AgreementKept /\ Agreed'
  BY <1>1, <1>2, <1>4 DEF AgreementKept, Agreed, Quote
<1>7. door'.accepted # NoQuote
  BY <1>1, <1>4, <1>5, DoorAssumption DEF NoQuote, Agreed
<1>8. DoorKept
  BY <1>1, <1>2, <1>4, <1>6, <1>7, ScreenStale, Untouched DEF DoorKept, IInv, Quotations
<1>9. /\ door'.status \in Open
      /\ \A r \in Parts : part[door.quote][r] # "CONSUMED"
  BY <1>1, <1>4, <1>5, NotConsumedYet DEF Open
<1> QED
  BY <1>2, <1>4, <1>8, <1>9, Untouched, MoveKeeps

\* A door is completed when it is paid in full: nothing is open at the gateway.
LEMMA PaidNothingPending ==
    ASSUME IInv, doorPaid = Quote.total
    PROVE  Pending = {}
<1>1. ASSUME NEW p \in Pending PROVE FALSE
  <2>1. payment[p].amount \in Nat \ {0} /\ doorPaid + payment[p].amount <= doorPaid
    BY <1>1 DEF IInv, DoorTypeOK, MoneyFitsQuote, Pending, AttemptsIn, Payment
  <2> QED
    BY <2>1, PaidNat
<1> QED
  BY <1>1

LEMMA transitionKeeps ==
    ASSUME IInv, NEW to \in Statuses, NEW delivery \in BOOLEAN, transition(to, delivery)
    PROVE  IInv'
<1>1. /\ to # "CANCELLED" /\ <<door.status, to>> \in DOOR_TRANSITIONS /\ Agreed
      /\ to = "COMPLETED" => doorPaid = Quote.total
      /\ DoorBecomes([door EXCEPT !.status = to, !.delivery = @ \/ delivery])
  BY DEF transition
<1>2. UNCHANGED <<sale, quotes, payment, part, draft>>
  BY DEF transition
<1>3. /\ to \in {"QUALITY_CONTROL", "READY_FOR_DELIVERY", "COMPLETED"} =>
           \A r \in Parts : part[door.quote][r] = "CONSUMED"
      /\ door.status \in {"READY_FOR_DELIVERY", "AWAITING_SETTLEMENT", "QUALITY_CONTROL"} \cup Open
           \cup {"IN_PRODUCTION"}
  BY <1>1 DEF transition, DOOR_TRANSITIONS, Open
<1>4. /\ door' \in Door /\ door'.accepted = door.accepted /\ door'.quote = door.quote
      /\ door'.status = to /\ door'.technical = door.technical
  <2>1. door \in Door /\ (door.delivery \/ delivery) \in BOOLEAN
    BY DEF IInv, DoorTypeOK
  <2>2. door' = [door EXCEPT !.status = to, !.delivery = door.delivery \/ delivery]
    BY <1>1, ScreenStale
  <2> QED
    BY <2>1, <2>2 DEF Door
<1>5. door.quote \in 1 .. MaxQuotes /\ door.status # "NONE" /\ door.status # "CANCELLED"
  BY <1>3, Current DEF Open
<1>6. AgreementKept /\ Agreed'
  BY <1>1, <1>2, <1>4 DEF AgreementKept, Agreed, Quote
<1>7. door'.accepted # NoQuote
  BY <1>1, <1>4, <1>5, DoorAssumption DEF NoQuote, Agreed
<1>8. to \notin {"NONE", "DRAFT", "PENDING_QUOTE_APPROVAL"}
  BY <1>1 DEF DOOR_TRANSITIONS
<1>9. DoorKept
  BY <1>1, <1>2, <1>4, <1>5, <1>6, <1>7, <1>8, ScreenStale, Untouched DEF DoorKept, IInv, Quotations
<1>10. \A r \in Parts : part[door.quote][r] \in Held => door'.status \in Open \cup {"IN_PRODUCTION"}
  <2>1. CASE to \in {"QUALITY_CONTROL", "READY_FOR_DELIVERY", "COMPLETED"}
    BY <2>1, <1>3 DEF Held
  <2>2. CASE to = "AWAITING_SETTLEMENT"
    <3>1. door.status = "READY_FOR_DELIVERY"
      BY <2>2, <1>1 DEF DOOR_TRANSITIONS
    <3> QED
      BY <3>1, <1>5 DEF IInv, MaterialsFollowOrder, Open
  <2> QED
    BY <2>1, <2>2, <1>1, <1>4 DEF Statuses, Building
<1>11. \A r \in Parts : part[door.quote][r] = "CONSUMED" => door'.status \in Building \cup {"COMPLETED"}
  <2>1. CASE door.status \in Open
    BY <2>1, <1>5, NotConsumedYet
  <2>2. CASE door.status \notin Open
    BY <2>2, <1>1, <1>4 DEF DOOR_TRANSITIONS, Building, Open
  <2> QED
    BY <2>1, <2>2
<1>12. door'.status = "COMPLETED" => Pending = {}
  BY <1>1, <1>4, PaidNothingPending
<1> QED
  BY <1>1, <1>2, <1>4, <1>9, <1>10, <1>11, <1>12, Untouched, MoveKeeps

LEMMA prepareInvoiceSourceKeeps ==
    ASSUME IInv, prepareInvoiceSource
    PROVE  IInv'
<1> DEFINE s == [sale EXCEPT !.address = TRUE]
<1>1. door.status \notin {"NONE", "CANCELLED", "DRAFT"} /\ SaleBecomes(s) /\ DoorBecomes(door)
  BY DEF prepareInvoiceSource
<1>2. quotes' = quotes /\ payment' = payment /\ part' = part
  BY DEF prepareInvoiceSource
<1>3. s \in Sale /\ s.status = sale.status
  BY DEF IInv, DoorTypeOK, Sale
<1> HIDE DEF s
<1>4. sale' = s /\ DraftsKept /\ draft' \in [Drafts -> Draft \cup {NoDraft}]
  BY <1>1, SaleMoves
<1>5. door' = door /\ door \in Door
  BY <1>1, ScreenStale DEF IInv, DoorTypeOK
<1>6. AgreementKept /\ (Agreed => Agreed')
  BY <1>2, <1>5 DEF AgreementKept, Agreed, Quote
<1>7. DoorKept
  BY <1>1, <1>3, <1>4, <1>5, <1>6, ScreenStale DEF DoorKept, IInv, Quotations
<1>8. door.quote \in 1 .. MaxQuotes
  BY <1>1, Current
<1> QED
  BY <1>1, <1>2, <1>4, <1>5, <1>7, <1>8, MoveKeeps DEF IInv, MoneyFitsQuote, MaterialsFollowOrder

LEMMA cancelKeeps ==
    ASSUME IInv, cancel
    PROVE  IInv'
<1>1. /\ door.status \in Open /\ Pending = {} /\ doorPaid = 0 /\ part' = ReleaseAll
      /\ sale' = [sale EXCEPT !.status = IF @ = "PAID" THEN @ ELSE "CANCELLED"]
      /\ DoorBecomes([door EXCEPT !.status = "CANCELLED"])
      /\ quotes' = quotes /\ payment' = payment /\ draft' = draft
  BY DEF cancel, DOOR_TRANSITIONS
<1>2. /\ door' \in Door /\ door'.accepted = door.accepted /\ door'.quote = door.quote
      /\ door'.status = "CANCELLED" /\ door'.technical = door.technical
  <2>1. door \in Door /\ "CANCELLED" \in Statuses
    BY DEF IInv, DoorTypeOK, Statuses
  <2>2. door' = [door EXCEPT !.status = "CANCELLED"]
    BY <1>1, ScreenStale
  <2> QED
    BY <2>1, <2>2 DEF Door
<1>3. sale' \in Sale
  BY <1>1 DEF IInv, DoorTypeOK, Sale
<1>4. AgreementKept /\ (Agreed => Agreed')
  BY <1>1, <1>2 DEF AgreementKept, Agreed, Quote
<1>5. DoorKept
  <2>1. door.status # "NONE"
    BY <1>1 DEF Open
  <2> QED
    BY <1>1, <1>2, <1>3, <1>4, <2>1, ScreenStale DEF DoorKept, IInv, Quotations
<1>6. /\ part' \in [1 .. MaxQuotes -> [Parts -> Reservation]]
      /\ \A v \in 1 .. MaxQuotes, r \in Parts : part'[v][r] \notin Held \cup {"CONSUMED"}
  BY <1>1, NotConsumedYet DEF ReleaseAll, IInv, DoorTypeOK, Reservation, Held
<1>7. DoorTypeOK'
  BY <1>1, <1>2, <1>3, <1>5, <1>6 DEF IInv, DoorTypeOK, DoorKept, Sale
<1>8. Quotations'
  BY <1>5, QuotationsKept
<1>9. MoneyFitsQuote' /\ Attempted'
  BY <1>1, <1>4, MoneyKept
<1>10. MaterialsFollowOrder'
  BY <1>6 DEF MaterialsFollowOrder, Held
<1>11. InvoiceNamesQuote'
  BY <1>1, <1>4, DraftsUntouched, InvoicesKept
<1> QED
  BY <1>7, <1>8, <1>9, <1>10, <1>11 DEF IInv

-----------------------------------------------------------------------------
(* The commands about parts                                                *)

\* The row stays as it is, and the screen with it or not.
RowStays ==
    /\ door' = door /\ sale' = sale /\ quotes' = quotes
    /\ seen' \in [quote : 0 .. MaxQuotes, fresh : BOOLEAN]
    /\ seen'.fresh => seen' = seen

LEMMA RowStaysKeeps ==
    ASSUME IInv, RowStays
    PROVE  Quotations' /\ AgreementKept
<1>1. AgreementKept
  BY DEF RowStays, AgreementKept
<1>2. Agreed => Agreed'
  BY <1>1, AgreedKept
<1> QED
  BY <1>1, <1>2 DEF IInv, RowStays, Quotations

LEMMA PartKeeps ==
    ASSUME IInv, RowStays, payment' = payment, draft' = draft, door.status # "NONE",
           NEW r \in Parts, NEW state \in Reservation,
           part' = [part EXCEPT ![door.quote][r] = state],
           state \in Held => Agreed /\ door.status \in Open \cup {"IN_PRODUCTION"},
           state = "CONSUMED" => Agreed /\ door.status \in Building \cup {"COMPLETED"}
    PROVE  IInv'
<1>1. AgreementKept /\ Quotations'
  BY RowStaysKeeps
<1>2. door.quote \in 1 .. MaxQuotes
  BY Current
<1>3. /\ part' \in [1 .. MaxQuotes -> [Parts -> Reservation]]
      /\ part'[door.quote][r] = state
      /\ \A v \in 1 .. MaxQuotes, o \in Parts :
           v # door.quote \/ o # r => part'[v][o] = part[v][o]
  BY <1>2 DEF IInv, DoorTypeOK
<1>4. DoorTypeOK'
  BY <1>3 DEF IInv, DoorTypeOK, RowStays
<1>5. MoneyFitsQuote' /\ Attempted'
  BY <1>1, MoneyKept DEF RowStays, IInv, MoneyFitsQuote
<1>6. MaterialsFollowOrder'
  <2> SUFFICES ASSUME NEW v \in 1 .. MaxQuotes, NEW o \in Parts
               PROVE  /\ part'[v][o] \in Held =>
                           v = door.quote /\ Agreed' /\ door.status \in Open \cup {"IN_PRODUCTION"}
                      /\ part'[v][o] = "CONSUMED" =>
                           v = door.quote /\ Agreed' /\ door.status \in Building \cup {"COMPLETED"}
    BY DEF MaterialsFollowOrder, RowStays, Held
  <2>1. Agreed => Agreed'
    BY <1>1, AgreedKept
  <2>2. CASE v = door.quote /\ o = r
    BY <2>1, <2>2, <1>3
  <2>3. CASE v # door.quote \/ o # r
    BY <2>1, <2>3, <1>3 DEF IInv, MaterialsFollowOrder
  <2> QED
    BY <2>2, <2>3
<1>7. InvoiceNamesQuote'
  BY <1>1, DraftsUntouched, InvoicesKept
<1> QED
  BY <1>1, <1>4, <1>5, <1>6, <1>7 DEF IInv

LEMMA PartCommand ==
    ASSUME IInv, NEW r, NEW state, PartBecomes(r, state)
    PROVE  /\ RowStays /\ payment' = payment /\ draft' = draft
           /\ part' = [part EXCEPT ![door.quote][r] = state]
  BY ScreenStale DEF PartBecomes, RowStays

LEMMA reserveKeeps ==
    ASSUME IInv, NEW r \in Parts, reserve(r)
    PROVE  IInv'
<1>1. /\ door.technical /\ PartBecomes(r, "ACTIVE")
      /\ door.status \in {"AWAITING_TECHNICAL_APPROVAL", "APPROVED_FOR_PRODUCTION", "IN_PRODUCTION"}
  BY DEF reserve
<1>2. Agreed
  BY <1>1 DEF IInv, Quotations
<1>3. door.status \in Open \cup {"IN_PRODUCTION"} /\ door.status # "NONE" /\ "ACTIVE" \in Reservation
  BY <1>1 DEF Open, Reservation
<1>4. /\ RowStays /\ payment' = payment /\ draft' = draft
      /\ part' = [part EXCEPT ![door.quote][r] = "ACTIVE"]
  BY <1>1, PartCommand
<1> QED
  BY <1>2, <1>3, <1>4, PartKeeps

LEMMA consumeKeeps ==
    ASSUME IInv, NEW r \in Parts, consume(r)
    PROVE  IInv'
<1>1. door.status = "IN_PRODUCTION" /\ part[door.quote][r] = "ACTIVE" /\ PartBecomes(r, "CONSUMED")
  BY DEF consume
<1>2. door.quote \in 1 .. MaxQuotes
  BY <1>1, Current
<1>3. Agreed
  BY <1>1, <1>2 DEF IInv, MaterialsFollowOrder, Held
<1>4. door.status \in Building /\ "CONSUMED" \in Reservation /\ "CONSUMED" \notin Held
  BY <1>1 DEF Building, Reservation, Held
<1> QED
  BY <1>1, <1>3, <1>4, PartCommand, PartKeeps

LEMMA releaseKeeps ==
    ASSUME IInv, NEW r \in Parts, release(r)
    PROVE  IInv'
<1>1. door.status # "NONE" /\ PartBecomes(r, "RELEASED")
  BY DEF release
<1>2. "RELEASED" \in Reservation /\ "RELEASED" \notin Held
  BY DEF Reservation, Held
<1> QED
  BY <1>1, <1>2, PartCommand, PartKeeps

LEMMA OverdueKeeps ==
    ASSUME IInv, NEW r \in Parts, Overdue(r)
    PROVE  IInv'
<1>1. /\ door.status # "NONE" /\ part[door.quote][r] = "ACTIVE"
      /\ part' = [part EXCEPT ![door.quote][r] = "OVERDUE"]
      /\ payment' = payment /\ draft' = draft
  BY DEF Overdue
<1>2. RowStays
  BY DEF Overdue, RowStays, IInv, DoorTypeOK
<1>3. door.quote \in 1 .. MaxQuotes
  BY <1>1, Current
<1>4. Agreed /\ door.status \in Open \cup {"IN_PRODUCTION"}
  BY <1>1, <1>3 DEF IInv, MaterialsFollowOrder, Held
<1>5. "OVERDUE" \in Reservation
  BY DEF Reservation
<1> QED
  BY <1>1, <1>2, <1>4, <1>5, PartKeeps

-----------------------------------------------------------------------------
(* The commands about payments                                             *)

PaymentRow == {p \in Payment : p.refunded <= p.amount}

\* One attempt's row is replaced.
LEMMA RowReplaced ==
    ASSUME IInv, NEW p \in Attempts, NEW row \in PaymentRow, payment' = [payment EXCEPT ![p] = row]
    PROVE  /\ payment' \in [Attempts -> {q \in Payment : q.refunded <= q.amount} \cup {NoPayment}]
           /\ payment'[p] = row /\ row \in Payment /\ row # NoPayment
           /\ \A q \in Attempts : q # p => payment'[q] = payment[q]
  BY DoorAssumption DEF IInv, DoorTypeOK, PaymentRow

\* Everything that is not money stays.
LEMMA PaymentKeeps ==
    ASSUME IInv, DoorKept \/ RowStays, part' = part, draft' = draft,
           NEW p \in Attempts, NEW row \in PaymentRow, payment' = [payment EXCEPT ![p] = row],
           door'.status = door.status \/ (door.status \in Open /\ door'.status \in Open),
           MoneyFitsQuote', Attempted'
    PROVE  IInv'
<1>1. AgreementKept /\ Quotations'
  BY RowStaysKeeps, QuotationsKept DEF DoorKept
<1>2. DoorTypeOK'
  BY RowReplaced DEF IInv, DoorTypeOK, DoorKept, RowStays, AgreementKept, Sale
<1>3. MaterialsFollowOrder'
  <2>1. CASE door'.status = door.status
    BY <2>1, <1>1, AgreedKept DEF IInv, MaterialsFollowOrder, AgreementKept
  <2>2. CASE door.status \in Open /\ door'.status \in Open
    BY <2>2, <1>1, AgreedKept, NotConsumedYet DEF IInv, MaterialsFollowOrder, AgreementKept
  <2> QED
    BY <2>1, <2>2
<1>4. InvoiceNamesQuote'
  BY <1>1, DraftsUntouched, InvoicesKept
<1> QED
  BY <1>1, <1>2, <1>3, <1>4 DEF IInv

LEMMA PendingRow ==
    ASSUME IInv, NEW p \in Pending
    PROVE  /\ p \in Attempts /\ payment[p] \in Payment /\ payment[p].status = "PENDING"
           /\ payment[p].refunded = 0 /\ payment[p].refunded <= payment[p].amount
           /\ p \notin AttemptsIn(Received) /\ \A q \in Pending : q = p
  BY DEF IInv, DoorTypeOK, Attempted, Pending, AttemptsIn, Received

LEMMA registerKeeps ==
    ASSUME IInv, NEW p \in Attempts, register(p)
    PROVE  IInv'
<1> DEFINE amount == Quote.total - doorPaid
           row == [status |-> "PENDING", amount |-> amount, refunded |-> 0,
                   quote |-> door.quote, authority |-> FALSE, review |-> FALSE]
<1>1. /\ door.status \notin {"NONE", "CANCELLED", "COMPLETED"} /\ door.accepted = door.quote
      /\ Pending = {} /\ payment[p] = NoPayment
  BY DEF register
<1>2. amount > 0 /\ payment' = [payment EXCEPT ![p] = row]
  BY DEF register, PaymentBecomes, Quote
<1>3. UNCHANGED <<door, sale, seen, quotes, part, draft>>
  BY DEF register, PaymentBecomes
<1>4. doorPaid \in Nat /\ door.quote \in 1 .. MaxQuotes /\ Quote.total \in Nat
  BY <1>1, PaidNat, Current
<1>5. amount \in Nat \ {0} /\ doorPaid + amount = Quote.total
  BY <1>2, <1>4
<1>6. /\ row \in PaymentRow /\ row.status = "PENDING" /\ row.refunded = 0
      /\ row.quote = door.quote /\ row.amount = amount
  <2> HIDE DEF amount
  <2>1. amount \in Nat \ {0} /\ 0 <= amount
    BY <1>5
  <2> QED
    BY <2>1, <1>4 DEF PaymentRow, Payment
<1> HIDE DEF row, amount
<1>7. /\ payment'[p] = row /\ row \in Payment /\ row # NoPayment
      /\ \A q \in Attempts : q # p => payment'[q] = payment[q]
  BY <1>2, <1>6, RowReplaced
<1>8. p \notin AttemptsIn(Received) /\ row.status \notin Received
  BY <1>1, <1>6 DEF AttemptsIn, Received
<1>9. AttemptsIn(Received)' = AttemptsIn(Received) /\ Units' = Units /\ doorPaid' = doorPaid
  BY <1>2, <1>7, <1>8, PaidUntouched DEF IInv
<1>10. Pending' = {p}
  BY <1>1, <1>6, <1>7 DEF Pending, AttemptsIn
<1>11. \A q \in AttemptsIn(Received) : payment'[q] = payment[q]
  BY <1>7, <1>8 DEF AttemptsIn
<1>12. RowStays /\ Quote' = Quote
  BY <1>3 DEF RowStays, Quote, IInv, DoorTypeOK
<1>13. Attempted'
  BY <1>6, <1>7, <1>9, <1>10 DEF IInv, Attempted
<1>14. MoneyFitsQuote'
  <2>1. doorPaid' + payment'[p].amount <= Quote'.total
    BY <1>4, <1>5, <1>6, <1>7, <1>9, <1>12
  <2> QED
    BY <2>1, <1>1, <1>3, <1>6, <1>7, <1>9, <1>10, <1>11 DEF IInv, MoneyFitsQuote
<1> QED
  BY <1>2, <1>3, <1>6, <1>12, <1>13, <1>14, PaymentKeeps

\* An open attempt's row changes and no money moves.
LEMMA AttemptMoves ==
    ASSUME IInv, NEW p \in Pending, NEW row \in PaymentRow, payment' = [payment EXCEPT ![p] = row],
           row.status \in {"PENDING", "FAILED"}, row.amount = payment[p].amount,
           row.refunded = payment[p].refunded, row.quote = payment[p].quote,
           UNCHANGED <<door, sale, seen, quotes, part, draft>>
    PROVE  IInv'
<1>1. /\ p \in Attempts /\ payment[p].refunded = 0
      /\ p \notin AttemptsIn(Received) /\ \A q \in Pending : q = p
  BY PendingRow
<1>2. /\ payment'[p] = row /\ row \in Payment
      /\ \A q \in Attempts : q # p => payment'[q] = payment[q]
  BY <1>1, RowReplaced
<1>3. row.status \notin Received
  BY DEF Received
<1>4. AttemptsIn(Received)' = AttemptsIn(Received) /\ Units' = Units /\ doorPaid' = doorPaid
  BY <1>1, <1>2, <1>3, PaidUntouched DEF IInv
<1>5. Pending' \subseteq {p}
  BY <1>1, <1>2 DEF Pending, AttemptsIn
<1>6. \A q \in AttemptsIn(Received) : payment'[q] = payment[q]
  BY <1>1, <1>2 DEF AttemptsIn
<1>7. RowStays /\ Quote' = Quote
  BY DEF RowStays, Quote, IInv, DoorTypeOK
<1>8. Attempted'
  BY <1>1, <1>2, <1>4, <1>5 DEF IInv, Attempted
<1>9. MoneyFitsQuote'
  BY <1>2, <1>4, <1>5, <1>6, <1>7 DEF IInv, MoneyFitsQuote
<1> QED
  BY <1>1, <1>7, <1>8, <1>9, PaymentKeeps

LEMMA persistAuthorizationKeeps ==
    ASSUME IInv, NEW p \in Attempts, persistAuthorization(p)
    PROVE  IInv'
<1> DEFINE row == [payment[p] EXCEPT !.authority = TRUE]
<1>1. p \in Pending /\ payment' = [payment EXCEPT ![p] = row]
  BY DEF persistAuthorization, PaymentBecomes
<1>2. UNCHANGED <<door, sale, seen, quotes, part, draft>>
  BY DEF persistAuthorization, PaymentBecomes
<1>3. /\ row \in PaymentRow /\ row.status = "PENDING" /\ row.amount = payment[p].amount
      /\ row.refunded = payment[p].refunded /\ row.quote = payment[p].quote
  BY <1>1, PendingRow DEF PaymentRow, Payment
<1> HIDE DEF row
<1> QED
  BY <1>1, <1>2, <1>3, AttemptMoves

LEMMA markFailedKeeps ==
    ASSUME IInv, NEW p \in Attempts, markFailed(p)
    PROVE  IInv'
<1> DEFINE row == [payment[p] EXCEPT !.status = "FAILED"]
<1>1. p \in Pending /\ payment' = [payment EXCEPT ![p] = row]
  BY DEF markFailed, PaymentBecomes
<1>2. UNCHANGED <<door, sale, seen, quotes, part, draft>>
  BY DEF markFailed, PaymentBecomes
<1>3. /\ row \in PaymentRow /\ row.status = "FAILED" /\ row.amount = payment[p].amount
      /\ row.refunded = payment[p].refunded /\ row.quote = payment[p].quote
  BY <1>1, PendingRow DEF PaymentRow, Payment
<1> HIDE DEF row
<1> QED
  BY <1>1, <1>2, <1>3, AttemptMoves

LEMMA settleKeeps ==
    ASSUME IInv, NEW p \in Attempts, settleDoorPaymentIn(p)
    PROVE  IInv'
<1> DEFINE row == [payment[p] EXCEPT !.status = "PAID", !.review = FALSE]
<1>1. p \in Pending
  BY DEF settleDoorPaymentIn
<1>2. /\ payment[p].quote = door.quote /\ door.accepted = door.quote
      /\ door.status \notin {"CANCELLED", "COMPLETED"} /\ sale.status # "CANCELLED"
      /\ doorPaid + payment[p].amount <= Quote.total
  BY <1>1 DEF IInv, MoneyFitsQuote, Quotations
<1>3. /\ payment[p] \in Payment /\ payment[p].status = "PENDING" /\ payment[p].refunded = 0
      /\ payment[p].refunded <= payment[p].amount
      /\ p \notin AttemptsIn(Received) /\ \A q \in Pending : q = p
  BY <1>1, PendingRow
<1>4. door.status # "NONE"
  <2>1. door.quote \in 1 .. MaxQuotes
    BY <1>2, <1>3 DEF Payment
  <2> QED
    BY <2>1, DoorAssumption DEF IInv, Quotations
<1>5. payment' = [payment EXCEPT ![p] = row]
  <2>1. doorPaid \in Nat /\ payment[p].amount \in Nat /\ Quote.total \in Nat
    BY <1>3, <1>4, PaidNat, Current DEF Payment
  <2>2. ~(\/ door.status = "CANCELLED" \/ sale.status = "CANCELLED"
          \/ doorPaid + payment[p].amount > Quote.total \/ payment[p].quote # door.quote)
    BY <1>2, <2>1
  <2> QED
    BY <2>2 DEF settleDoorPaymentIn, PaymentBecomes
<1>6. quotes' = quotes /\ part' = part /\ draft' = draft
  BY DEF settleDoorPaymentIn, PaymentBecomes
<1>7. /\ row \in PaymentRow /\ row.status = "PAID" /\ row.amount = payment[p].amount
      /\ row.refunded = payment[p].refunded /\ ~row.review
  BY <1>3 DEF PaymentRow, Payment
<1> HIDE DEF row
<1>8. /\ payment'[p] = row /\ row \in Payment
      /\ \A q \in Attempts : q # p => payment'[q] = payment[q]
  BY <1>5, <1>7, RowReplaced
<1>9. AttemptsIn(Received)' = AttemptsIn(Received) \cup {p} /\ IsFiniteSet(Units')
  BY <1>1, <1>5, <1>7, <1>8, PaidGrows
<1>10. Pending' = {}
  BY <1>3, <1>7, <1>8 DEF Pending, AttemptsIn
<1>11. \A q \in AttemptsIn(Received)' : ~payment'[q].review
  BY <1>3, <1>7, <1>8, <1>9 DEF IInv, MoneyFitsQuote, AttemptsIn
<1>12. sale' \in Sale /\ sale'.status # "CANCELLED"
  BY <1>2 DEF settleDoorPaymentIn, IInv, DoorTypeOK, Sale
<1>13. CASE door' = door /\ seen' = seen
  <2>1. Agreed'
    BY <1>2, <1>4, <1>6, <1>13, DoorAssumption DEF Agreed, Quote, settleDoorPaymentIn
  <2>2. DoorKept
    BY <2>1, <1>4, <1>6, <1>12, <1>13 DEF DoorKept, AgreementKept, IInv, DoorTypeOK, Quotations
  <2>3. MoneyFitsQuote' /\ Attempted'
    BY <1>2, <1>9, <1>10, <1>11, <1>13 DEF MoneyFitsQuote, Attempted
  <2> QED
    BY <1>5, <1>6, <1>7, <1>13, <2>2, <2>3, PaymentKeeps
<1>14. CASE door.status = "AWAITING_DEPOSIT" /\ DoorBecomes([door EXCEPT !.status = "DEPOSIT_PAID"])
  <2>1. /\ door' \in Door /\ door'.accepted = door.accepted /\ door'.quote = door.quote
        /\ door'.status = "DEPOSIT_PAID" /\ door'.technical = door.technical
    <3>1. door \in Door /\ "DEPOSIT_PAID" \in Statuses
      BY DEF IInv, DoorTypeOK, Statuses, Open
    <3>2. door' = [door EXCEPT !.status = "DEPOSIT_PAID"]
      BY <1>14, ScreenStale
    <3> QED
      BY <3>1, <3>2 DEF Door
  <2>2. Agreed'
    BY <1>2, <1>6, <2>1 DEF Agreed, Quote, settleDoorPaymentIn
  <2>3. DoorKept
    BY <1>4, <1>6, <1>12, <1>14, <2>1, <2>2, ScreenStale DEF DoorKept, AgreementKept, IInv, Quotations
  <2>4. MoneyFitsQuote' /\ Attempted'
    BY <1>9, <1>10, <1>11, <2>1 DEF MoneyFitsQuote, Attempted
  <2>5. door.status \in Open /\ door'.status \in Open
    BY <1>14, <2>1 DEF Open
  <2> QED
    BY <1>5, <1>6, <1>7, <2>3, <2>4, <2>5, PaymentKeeps
<1> QED
  BY <1>13, <1>14 DEF settleDoorPaymentIn

LEMMA RefundKeeps ==
    ASSUME IInv, NEW p \in Attempts, NEW amount \in Totals, Refund(p, amount)
    PROVE  IInv'
<1> DEFINE refunded == payment[p].refunded + amount
           st == IF refunded = payment[p].amount THEN "REFUNDED" ELSE "PARTIALLY_REFUNDED"
           row == [payment[p] EXCEPT !.refunded = refunded, !.status = st]
<1>1. p \in AttemptsIn(Received) /\ amount <= Refundable(p) /\ payment' = [payment EXCEPT ![p] = row]
  BY DEF Refund, PaymentBecomes
<1>2. UNCHANGED <<door, sale, seen, quotes, part, draft>>
  BY DEF Refund, PaymentBecomes
<1>3. /\ payment[p] \in Payment /\ payment[p] # NoPayment
      /\ payment[p].refunded \in Nat /\ payment[p].amount \in Nat /\ amount \in Nat
      /\ payment[p].status \in Received
  BY <1>1, DoorAssumption DEF IInv, DoorTypeOK, AttemptsIn, Payment
<1>4. refunded \in Nat /\ refunded >= payment[p].refunded /\ refunded <= payment[p].amount
  BY <1>1, <1>3 DEF Refundable
<1>5. st \in {"REFUNDED", "PARTIALLY_REFUNDED"}
  OBVIOUS
<1> HIDE DEF st, refunded
<1>6. /\ row \in PaymentRow /\ row.status = st /\ row.amount = payment[p].amount
      /\ row.refunded = refunded /\ row.review = payment[p].review
  BY <1>3, <1>4, <1>5 DEF PaymentRow, Payment
<1> HIDE DEF row
<1>7. /\ payment'[p] = row /\ row \in Payment
      /\ \A q \in Attempts : q # p => payment'[q] = payment[q]
  BY <1>1, <1>6, RowReplaced
<1>8. /\ AttemptsIn(Received)' = AttemptsIn(Received)
      /\ IsFiniteSet(Units') /\ doorPaid' <= doorPaid /\ doorPaid' \in Nat
  BY <1>1, <1>4, <1>5, <1>6, <1>7, PaidShrinks DEF Received
<1>9. Pending' = Pending /\ \A q \in Pending : payment'[q] = payment[q]
  <2>1. p \notin Pending
    BY <1>3 DEF Pending, AttemptsIn, Received
  <2>2. row.status # "PENDING"
    BY <1>5, <1>6
  <2> QED
    BY <2>1, <2>2, <1>7 DEF Pending, AttemptsIn
<1>10. RowStays /\ Quote' = Quote
  BY <1>2 DEF RowStays, Quote, IInv, DoorTypeOK
<1>11. Attempted'
  BY <1>8, <1>9 DEF IInv, Attempted
<1>12. MoneyFitsQuote'
  <2>1. ASSUME NEW q \in Pending
        PROVE  /\ payment'[q].quote = door.quote /\ door.accepted = door.quote
               /\ door.status \notin {"CANCELLED", "COMPLETED"}
               /\ doorPaid' + payment'[q].amount <= Quote.total
    <3>1. /\ payment[q].quote = door.quote /\ door.accepted = door.quote
          /\ door.status \notin {"CANCELLED", "COMPLETED"}
          /\ doorPaid + payment[q].amount <= Quote.total
      BY DEF IInv, MoneyFitsQuote
    <3>2. payment[q].amount \in Nat /\ payment[q] \in Payment
      BY PendingRow DEF Payment
    <3>3. Quote.total \in Nat
      <4>1. door.status # "NONE"
        BY <3>1, <3>2, DoorAssumption DEF IInv, Quotations, Payment
      <4> QED
        BY <4>1, Current
    <3> QED
      BY <3>1, <3>2, <3>3, <1>8, <1>9, PaidNat
  <2>2. \A q \in AttemptsIn(Received) : ~payment'[q].review
    BY <1>1, <1>6, <1>7 DEF IInv, MoneyFitsQuote, AttemptsIn
  <2>3. door.status = "CANCELLED" => doorPaid' = 0
    BY <1>8 DEF IInv, MoneyFitsQuote
  <2> QED
    BY <2>1, <2>2, <2>3, <1>2, <1>8, <1>9, <1>10 DEF MoneyFitsQuote
<1> QED
  BY <1>1, <1>2, <1>6, <1>10, <1>11, <1>12, PaymentKeeps

-----------------------------------------------------------------------------
(* The commands about invoice drafts                                       *)

\* Only drafts change.
LEMMA DraftKeeps ==
    ASSUME IInv, UNCHANGED <<door, sale, quotes, payment, part, seen>>,
           draft' \in [Drafts -> Draft \cup {NoDraft}], InvoiceNamesQuote'
    PROVE  IInv'
<1>1. RowStays
  BY DEF RowStays, IInv, DoorTypeOK
<1>2. AgreementKept /\ Quotations'
  BY <1>1, RowStaysKeeps
<1>3. DoorTypeOK'
  BY DEF IInv, DoorTypeOK
<1>4. MoneyFitsQuote' /\ Attempted'
  BY <1>2, MoneyKept DEF IInv, MoneyFitsQuote
<1>5. MaterialsFollowOrder'
  BY <1>2, AgreedKept DEF IInv, MaterialsFollowOrder
<1> QED
  BY <1>2, <1>3, <1>4, <1>5 DEF IInv

LEMMA fromOrderKeeps ==
    ASSUME IInv, NEW d \in Drafts, fromOrder(d)
    PROVE  IInv'
<1> DEFINE row == [state |-> "DRAFT", quote |-> door.quote, current |-> TRUE]
<1>1. door.status # "NONE" /\ Agreed /\ draft' = [draft EXCEPT ![d] = row]
  BY DEF fromOrder
<1>2. UNCHANGED <<door, sale, quotes, payment, part, seen>>
  BY DEF fromOrder
<1>3. row \in Draft
  BY <1>1, Current DEF Draft
<1>4. row.state = "DRAFT" /\ row.quote = door.quote
  OBVIOUS
<1> HIDE DEF row
<1>5. /\ draft' \in [Drafts -> Draft \cup {NoDraft}] /\ draft'[d] = row
      /\ \A e \in Drafts : e # d => draft'[e] = draft[e]
  BY <1>1, <1>3 DEF IInv, DoorTypeOK
<1>6. Agreed'
  BY <1>1, <1>2 DEF Agreed, Quote
<1>7. InvoiceNamesQuote'
  BY <1>1, <1>2, <1>4, <1>5, <1>6 DEF IInv, InvoiceNamesQuote
<1> QED
  BY <1>2, <1>5, <1>7, DraftKeeps

\* A draft that is still open changes its state.
LEMMA DraftMoved ==
    ASSUME IInv, NEW d \in Drafts, NEW state \in {"ISSUED", "CANCELLED"}, DraftBecomes(d, state)
    PROVE  /\ UNCHANGED <<door, sale, quotes, payment, part, seen>>
           /\ draft[d] # NoDraft /\ draft[d].state = "DRAFT"
           /\ draft' \in [Drafts -> Draft \cup {NoDraft}]
           /\ draft'[d].state = state /\ draft'[d].quote = draft[d].quote
           /\ \A e \in Drafts : e # d => draft'[e] = draft[e]
<1> DEFINE row == [draft[d] EXCEPT !.state = state]
<1>1. draft[d] # NoDraft /\ draft[d].state = "DRAFT" /\ draft' = [draft EXCEPT ![d] = row]
  BY DEF DraftBecomes
<1>2. row \in Draft /\ row.state = state /\ row.quote = draft[d].quote
  BY <1>1 DEF IInv, DoorTypeOK, Draft
<1> HIDE DEF row
<1>3. /\ draft' \in [Drafts -> Draft \cup {NoDraft}] /\ draft'[d] = row
      /\ \A e \in Drafts : e # d => draft'[e] = draft[e]
  BY <1>1, <1>2 DEF IInv, DoorTypeOK
<1> QED
  BY <1>1, <1>2, <1>3 DEF DraftBecomes

LEMMA cancelDraftKeeps ==
    ASSUME IInv, NEW d \in Drafts, cancelDraft(d)
    PROVE  IInv'
<1>1. /\ UNCHANGED <<door, sale, quotes, payment, part, seen>>
      /\ draft' \in [Drafts -> Draft \cup {NoDraft}]
      /\ draft'[d].state = "CANCELLED"
      /\ \A e \in Drafts : e # d => draft'[e] = draft[e]
  BY DraftMoved DEF cancelDraft
<1>2. Agreed => Agreed'
  BY <1>1 DEF Agreed, Quote
<1>3. InvoiceNamesQuote'
  BY <1>1, <1>2 DEF IInv, InvoiceNamesQuote
<1> QED
  BY <1>1, <1>3, DraftKeeps

LEMMA issueKeeps ==
    ASSUME IInv, NEW d \in Drafts, issue(d)
    PROVE  IInv'
<1>1. /\ UNCHANGED <<door, sale, quotes, payment, part, seen>>
      /\ draft[d] # NoDraft /\ draft[d].state = "DRAFT"
      /\ draft' \in [Drafts -> Draft \cup {NoDraft}]
      /\ draft'[d].state = "ISSUED" /\ draft'[d].quote = draft[d].quote
      /\ \A e \in Drafts : e # d => draft'[e] = draft[e]
  BY DraftMoved DEF issue
<1>2. Agreed => Agreed'
  BY <1>1 DEF Agreed, Quote
<1>3. \A e \in Drafts : draft[e] # NoDraft => draft[e].state # "ISSUED"
  BY DEF issue, Invoiced
<1>4. InvoiceNamesQuote'
  BY <1>1, <1>2, <1>3 DEF IInv, InvoiceNamesQuote
<1> QED
  BY <1>1, <1>4, DraftKeeps

-----------------------------------------------------------------------------
(* The theorems                                                            *)

\* Both initial states, no order yet and an order with an open deposit of the
\* earlier release, satisfy the invariant.
THEOREM InitIInv == Init => IInv
<1> SUFFICES ASSUME Init PROVE IInv
  OBVIOUS
<1>1. /\ part \in [1 .. MaxQuotes -> [Parts -> Reservation]]
      /\ draft \in [Drafts -> Draft \cup {NoDraft}]
      /\ seen \in [quote : 0 .. MaxQuotes, fresh : BOOLEAN] /\ ~seen.fresh
  BY DoorAssumption DEF Init, Reservation, NoQuote
<1>2. MaterialsFollowOrder
  BY DEF Init, MaterialsFollowOrder, Held
<1>3. InvoiceNamesQuote
  BY DEF Init, InvoiceNamesQuote
<1>4. ASSUME AttemptsIn(Received) = {}
      PROVE  IsFiniteSet(Units) /\ doorPaid = 0
  <2>1. Units = {}
    BY <1>4, UnitsMembers
  <2> QED
    BY <2>1, FS_EmptySet, PaidIsUnits
<1>5. CASE /\ door = Blank /\ sale = [status |-> "DRAFT", address |-> FALSE]
           /\ quotes = <<>> /\ payment = [p \in Attempts |-> NoPayment]
  <2>1. \A statuses : AttemptsIn(statuses) = {}
    BY <1>5 DEF AttemptsIn
  <2>2. DoorTypeOK
    BY <1>1, <1>5, DoorAssumption DEF DoorTypeOK, Door, Blank, NoQuote
  <2>3. Quotations
    BY <1>1, <1>5 DEF Quotations, Blank, NoQuote
  <2>4. Attempted /\ MoneyFitsQuote
    BY <2>1, <1>4 DEF Attempted, MoneyFitsQuote, Pending
  <2> QED
    BY <2>2, <2>3, <2>4, <1>2, <1>3 DEF IInv
<1>6. ASSUME NEW total \in Totals, NEW deposit \in Deposits,
             deposit < total,
             door = [Blank EXCEPT !.status = "AWAITING_DEPOSIT", !.quote = 1, !.accepted = 1],
             sale = [status |-> "PENDING_PAYMENT", address |-> FALSE],
             quotes = <<[approved |-> TRUE, total |-> total]>>,
             payment = [p \in Attempts |->
                 IF p = 1 THEN [status |-> "PENDING", amount |-> deposit, refunded |-> 0,
                                quote |-> 1, authority |-> TRUE, review |-> FALSE]
                 ELSE NoPayment]
      PROVE  IInv
  <2> DEFINE row == [status |-> "PENDING", amount |-> deposit, refunded |-> 0,
                     quote |-> 1, authority |-> TRUE, review |-> FALSE]
  <2>1. /\ total \in Nat \ {0} /\ deposit \in Nat \ {0} /\ 1 \in Attempts
        /\ 1 \in 1 .. MaxQuotes /\ 1 \in 0 .. MaxQuotes
    BY DoorAssumption DEF Attempts
  <2>2. row \in Payment /\ row.refunded <= row.amount /\ row # NoPayment
    <3>1. row \in Payment /\ row.refunded <= row.amount
      BY <2>1 DEF Payment
    <3> QED
      BY <3>1, DoorAssumption
  <2>3. /\ row.status = "PENDING" /\ row.amount = deposit /\ row.refunded = 0 /\ row.quote = 1
    OBVIOUS
  <2>4. payment = [p \in Attempts |-> IF p = 1 THEN row ELSE NoPayment]
    BY <1>6
  <2> HIDE DEF row
  <2>5. Pending = {1} /\ AttemptsIn(Received) = {} /\ payment[1] = row
    BY <2>1, <2>2, <2>3, <2>4 DEF Pending, AttemptsIn, Received
  <2>6. /\ door = [status |-> "AWAITING_DEPOSIT", quote |-> 1, accepted |-> 1,
                   technical |-> FALSE, delivery |-> FALSE]
        /\ door \in Door
    BY <1>6, <2>1 DEF Blank, Door, Statuses, Open
  <2>7. Len(quotes) = 1 /\ Quote.approved /\ Quote.total = total
    BY <1>6, <2>6 DEF Quote
  <2>8. DoorTypeOK
    <3>1. quotes \in Seq([approved : BOOLEAN, total : Totals \cup {Manual}])
      BY <1>6
    <3>2. payment \in [Attempts -> {p \in Payment : p.refunded <= p.amount} \cup {NoPayment}]
      BY <2>2, <2>4
    <3>3. sale \in [status : {"DRAFT", "PENDING_PAYMENT", "PAID", "CANCELLED"}, address : BOOLEAN]
      BY <1>6
    <3> QED
      BY <1>1, <2>6, <3>1, <3>2, <3>3 DEF DoorTypeOK
  <2>9. Quotations
    BY <1>1, <1>6, <2>6, <2>7 DEF Quotations, NoQuote, Agreed
  <2>10. Attempted
    BY <2>3, <2>5, <1>4 DEF Attempted
  <2>11. MoneyFitsQuote
    BY <2>1, <2>3, <2>5, <2>6, <2>7, <1>4, <1>6 DEF MoneyFitsQuote
  <2> QED
    BY <2>8, <2>9, <2>10, <2>11, <1>2, <1>3 DEF IInv
<1> QED
  BY <1>5, <1>6 DEF Init

\* What a step may never do: bind the customer to a price the screen did not
\* show.
AsSeenStep ==
    door'.accepted # door.accepted /\ door'.accepted # NoQuote => door'.accepted = seen.quote

LEMMA NextPreserves ==
    ASSUME IInv, [Next]_vars
    PROVE  IInv' /\ AsSeenStep
<1>1. IInv'
  <2>1. CASE UNCHANGED vars
    BY <2>1, DraftKeeps DEF vars, IInv, DoorTypeOK, InvoiceNamesQuote, Agreed, Quote
  <2>2. CASE Next
    BY <2>2, CreateKeeps, replaceDraftKeeps, submitDraftKeeps, approveQuoteKeeps, ViewKeeps,
       acceptKeeps, technicalKeeps, transitionKeeps, cancelKeeps, reserveKeeps, consumeKeeps,
       releaseKeeps, OverdueKeeps, registerKeeps, persistAuthorizationKeeps, markFailedKeeps,
       settleKeeps, RefundKeeps, prepareInvoiceSourceKeeps, fromOrderKeeps, cancelDraftKeeps,
       issueKeeps DEF Next
  <2> QED
    BY <2>1, <2>2
<1>2. AsSeenStep
  <2>1. door \in Door
    BY DEF IInv, DoorTypeOK
  <2>2. CASE accept
    BY <2>2, acceptKeeps DEF AsSeenStep
  <2>3. CASE \E total \in Totals : approveQuote(total)
    BY <2>3, <2>1 DEF approveQuote, DoorBecomes, Door, AsSeenStep
  <2>4. CASE \E p \in Attempts : settleDoorPaymentIn(p)
    BY <2>4, <2>1 DEF settleDoorPaymentIn, DoorBecomes, Door, AsSeenStep
  <2>5. CASE \/ \E asDraft \in BOOLEAN, total \in Totals \cup {Manual} : Create(asDraft, total)
             \/ replaceDraft
             \/ \E total \in Totals \cup {Manual} : submitDraft(total)
             \/ technical
             \/ \E to \in Statuses, delivery \in BOOLEAN : transition(to, delivery)
             \/ cancel
    BY <2>5, <2>1 DEF Create, replaceDraft, submitDraft, technical, transition, cancel,
       DoorBecomes, Door, AsSeenStep
  <2>6. CASE \/ View \/ prepareInvoiceSource
             \/ \E r \in Parts : reserve(r) \/ consume(r) \/ release(r) \/ Overdue(r)
             \/ \E p \in Attempts :
                  \/ register(p) \/ persistAuthorization(p) \/ markFailed(p)
                  \/ \E amount \in Totals : Refund(p, amount)
             \/ \E d \in Drafts : fromOrder(d) \/ cancelDraft(d) \/ issue(d)
             \/ UNCHANGED vars
    <3>1. door' = door
      BY <2>6 DEF View, prepareInvoiceSource, reserve, consume, release, Overdue, PartBecomes,
         register, persistAuthorization, markFailed, Refund, fromOrder, cancelDraft, issue,
         DraftBecomes, DoorBecomes, vars
    <3> QED
      BY <3>1 DEF AsSeenStep
  <2> QED
    BY <2>2, <2>3, <2>4, <2>5, <2>6 DEF Next
<1> QED
  BY <1>1, <1>2

\* Every command, answer of the gateway and passing deadline keeps the
\* invariant.
THEOREM NextIInv == IInv /\ [Next]_vars => IInv'
  BY NextPreserves

\* The rows of a door order have their types in every reachable state.
THEOREM DoorsTyped == Spec => []DoorTypeOK
<1>1. IInv => DoorTypeOK
  BY DEF IInv
<1> QED
  BY InitIInv, NextIInv, <1>1, PTL DEF Spec

\* An attempt at the gateway keeps the quotation it pays for: no received
\* payment exceeds the price or needs a reviewer, and a cancelled order keeps
\* no money.
THEOREM DoorMoneyFits == Spec => []MoneyFitsQuote
<1>1. IInv => MoneyFitsQuote
  BY DEF IInv
<1> QED
  BY InitIInv, NextIInv, <1>1, PTL DEF Spec

\* Parts are held only for the agreed price of a door still to be built, and
\* consumed only into a door in production.
THEOREM DoorMaterialsFollow == Spec => []MaterialsFollowOrder
<1>1. IInv => MaterialsFollowOrder
  BY DEF IInv
<1> QED
  BY InitIInv, NextIInv, <1>1, PTL DEF Spec

\* A live invoice draft names what the customer accepted, and one document at
\* most is issued.
THEOREM DoorInvoicesAgree == Spec => []InvoiceNamesQuote
<1>1. IInv => InvoiceNamesQuote
  BY DEF IInv
<1> QED
  BY InitIInv, NextIInv, <1>1, PTL DEF Spec

\* No step binds the customer to a quotation that the screen did not show.
THEOREM DoorConsent == Spec => AcceptedAsSeen
<1>1. IInv /\ [Next]_vars => [AsSeenStep]_vars
  BY NextPreserves
<1> QED
  BY InitIInv, NextIInv, <1>1, PTL DEF Spec, AcceptedAsSeen, AsSeenStep

=============================================================================
