-------------------------- MODULE OrderPipeline_proofs --------------------------
(****************************************************************************)
(* What holds of OrderPipeline for any catalogue, prices, quantities and    *)
(* bounds: what is ordered has a contact, was judged after the last change, *)
(* is small unless a human saw it, is not what a human rejected, and is     *)
(* what was shown.                                                          *)
(****************************************************************************)
EXTENDS OrderPipeline, SequenceTheorems, WellFoundedInduction, TLAPS

(****************************************************************************)
(* Sums over the lines of an order.  The provers have no induction; a least *)
(* counterexample does as well.                                             *)
(****************************************************************************)
Less == {ss \in Nat \X Nat : ss[1] < ss[2]}

LEMMA LeastNat ==
  ASSUME NEW T \in SUBSET Nat, T # {}
  PROVE  \E n \in T : \A m \in T : n <= m
<1>1. IsWellFoundedOn(Less, Nat)
  BY NatLessThanWellFounded, Zenon DEF Less, OpToRel
<1>2. PICK n \in T : \A m \in T : <<m, n>> \notin Less
  BY <1>1, WFMin
<1>3. ASSUME NEW m \in T  PROVE n <= m
  <2>1. <<m, n>> \notin Less
    BY <1>2
  <2> QED  BY <2>1 DEF Less
<1> QED  BY <1>2, <1>3

\* The greatest element of a set of numbers up to a bound.
LEMMA GreatestNat ==
  ASSUME NEW bound \in Nat, NEW P \in SUBSET (1 .. bound), P # {}
  PROVE  \E n \in P : \A m \in P : m <= n
<1> DEFINE T == {k \in Nat : \E p \in P : k = bound - p}
<1>1. T \in SUBSET Nat /\ T # {}
  <2>1. PICK p \in P : TRUE
    OBVIOUS
  <2>2. bound - p \in T
    BY <2>1
  <2> QED  BY <2>2
<1>2. PICK k \in T : \A j \in T : k <= j
  <2> HIDE DEF T
  <2> QED  BY <1>1, LeastNat
<1>3. PICK n \in P : k = bound - n
  BY <1>2
<1>4. ASSUME NEW m \in P  PROVE m <= n
  <2>1. bound - m \in T
    OBVIOUS
  <2> QED  BY <1>2, <1>3, <2>1
<1> QED  BY <1>3, <1>4

\* The running sums of amounts.
Sums(g, amounts, n) == g = [i \in 0 .. n |-> IF i = 0 THEN 0 ELSE g[i - 1] + amounts[i]]

LEMMA SumsAreNat ==
  ASSUME NEW amounts \in Seq(Nat), NEW n \in 0 .. Len(amounts), NEW g, Sums(g, amounts, n)
  PROVE  \A i \in 0 .. n : g[i] \in Nat
<1> DEFINE T == {i \in 0 .. n : g[i] \notin Nat}
<1> SUFFICES ASSUME T # {}  PROVE FALSE
  OBVIOUS
<1>1. T \in SUBSET Nat
  OBVIOUS
<1>2. PICK i \in T : \A j \in T : i <= j
  <2> HIDE DEF T
  <2> QED  BY <1>1, LeastNat
<1>3. i \in 0 .. n /\ g[i] \notin Nat
  BY <1>2
<1>4. i # 0
  BY <1>3 DEF Sums
<1>5. i - 1 \in 0 .. n /\ g[i - 1] \in Nat
  <2>1. i - 1 \in 0 .. n /\ ~(i <= i - 1)
    BY <1>3, <1>4
  <2> QED  BY <1>2, <2>1
<1>6. amounts[i] \in Nat
  BY <1>3, <1>4
<1>7. g[i] = g[i - 1] + amounts[i]
  BY <1>3, <1>4 DEF Sums
<1> QED  BY <1>3, <1>5, <1>6, <1>7

LEMMA SumsExist ==
  ASSUME NEW amounts \in Seq(Nat), NEW n \in 0 .. Len(amounts)
  PROVE  \E g : Sums(g, amounts, n)
<1> DEFINE T == {m \in 0 .. Len(amounts) : ~\E g : Sums(g, amounts, m)}
<1> SUFFICES ASSUME T # {}  PROVE FALSE
  OBVIOUS
<1>1. T \in SUBSET Nat
  OBVIOUS
<1>2. PICK m \in T : \A j \in T : m <= j
  <2> HIDE DEF T
  <2> QED  BY <1>1, LeastNat
<1>3. m \in 0 .. Len(amounts) /\ ~\E g : Sums(g, amounts, m)
  BY <1>2
<1>4. m # 0
  <2>1. Sums([i \in 0 .. 0 |-> 0], amounts, 0)
    BY DEF Sums
  <2> QED  BY <1>3, <2>1
<1>5. PICK g : Sums(g, amounts, m - 1)
  <2>1. m - 1 \in 0 .. Len(amounts) /\ ~(m <= m - 1)
    BY <1>3, <1>4
  <2> QED  BY <1>2, <2>1
<1> DEFINE h == [i \in 0 .. m |-> IF i = m THEN g[m - 1] + amounts[m] ELSE g[i]]
<1>6. Sums(h, amounts, m)
  <2>1. ASSUME NEW i \in 0 .. m
        PROVE  h[i] = IF i = 0 THEN 0 ELSE h[i - 1] + amounts[i]
    <3>1. CASE i = m
      BY <1>3, <1>4, <3>1
    <3>2. CASE i # m
      <4>1. i \in 0 .. (m - 1) /\ h[i] = g[i]
        BY <1>3, <1>4, <3>2
      <4>2. g[i] = IF i = 0 THEN 0 ELSE g[i - 1] + amounts[i]
        BY <1>5, <4>1 DEF Sums
      <4>3. i # 0 => h[i - 1] = g[i - 1]
        BY <1>3, <3>2
      <4> QED  BY <4>1, <4>2, <4>3
    <3> QED  BY <3>1, <3>2
  <2> QED  BY <2>1 DEF Sums
<1> QED  BY <1>3, <1>6

LEMMA TotalIsNat ==
  ASSUME NEW amounts \in Seq(Nat)
  PROVE  Total(amounts) \in Nat
<1> DEFINE total == CHOOSE g : Sums(g, amounts, Len(amounts))
<1>1. Len(amounts) \in 0 .. Len(amounts)
  OBVIOUS
<1>2. Sums(total, amounts, Len(amounts))
  <2>1. \E g : Sums(g, amounts, Len(amounts))
    BY <1>1, SumsExist
  <2> QED  BY <2>1
<1>3. Total(amounts) = total[Len(amounts)]
  BY DEF Total, Sums
<1> HIDE DEF total
<1> QED  BY <1>1, <1>2, <1>3, SumsAreNat

LEMMA UnitsAreNat ==
  ASSUME NEW lines \in Seq(Line)
  PROVE  Units(lines) \in Nat /\ \A p : UnitsOf(lines, p) \in Nat
<1>0. /\ DOMAIN lines = 1 .. Len(lines) /\ Len(lines) \in Nat
      /\ \A i \in 1 .. Len(lines) : lines[i].qty \in Nat
  <2>1. \A i \in 1 .. Len(lines) : lines[i] \in Line
    BY ElementOfSeq
  <2>2. \A l \in Line : l.qty \in Nat
    BY DEF Line
  <2>3. DOMAIN lines = 1 .. Len(lines) /\ Len(lines) \in Nat
    OBVIOUS
  <2> QED  BY <2>1, <2>2, <2>3
<1>1. [i \in DOMAIN lines |-> lines[i].qty] \in Seq(Nat)
  <2>1. [i \in DOMAIN lines |-> lines[i].qty] \in [1 .. Len(lines) -> Nat]
    BY <1>0
  <2> QED  BY <1>0, <2>1, SeqDef
<1>2. ASSUME NEW p
      PROVE  [i \in DOMAIN lines |-> IF lines[i].product = p THEN lines[i].qty ELSE 0]
               \in Seq(Nat)
  <2>1. [i \in DOMAIN lines |-> IF lines[i].product = p THEN lines[i].qty ELSE 0]
          \in [1 .. Len(lines) -> Nat]
    BY <1>0
  <2> QED  BY <1>0, <2>1, SeqDef
<1>3. \A p : UnitsOf(lines, p) \in Nat
  BY <1>2, TotalIsNat DEF UnitsOf
<1> QED  BY <1>1, <1>3, TotalIsNat DEF Units

--------------------------------------------------------------------------------
(****************************************************************************)
(* The invariant.                                                           *)
(****************************************************************************)
\* The statuses of a draft order.
Statuses == {"pending", "confirmed", "cancelled", "superseded"}

\* Where an order is that the guard has let pass or shown to an administrator.
Judged == {"paused", "queue", "fresh", "execute"}

\* There is room for the rows this turn may still insert: one for every pause left,
\* and the one of an order that is placed without a draft.
RoomLeft ==
  /\ node = "idle" => count = 0
  /\ node = "guard" /\ ~approved => count <= MaxCount /\ Len(draft) + MaxCount < MaxDrafts + count
  /\ node = "paused" =>
       /\ count < MaxCount /\ Len(draft) + MaxCount <= MaxDrafts + count
       /\ \E d \in DOMAIN draft : draft[d] = "pending"
  /\ node = "queue" /\ queue # {} =>
       count < MaxCount /\ Len(draft) + MaxCount <= MaxDrafts + count
  /\ node \in {"queue", "fresh", "execute"} =>
       approved /\ (Len(draft) < MaxDrafts \/ order.draft # None)

\* Messages are queued during a review and read by the run it ends in.
Queued ==
  /\ queue \subseteq world.kinds
  /\ queue # {} =>
       \/ node \in {"paused", "closed"}
       \/ node \in {"queue", "support"} /\ verdict \in {"approve", "reject"}

Typed == TypeOK /\ draft \in Seq(Statuses) /\ world \in Worlds /\ RoomLeft /\ Queued

\* A judged order has its customer's contact, and is as it was judged.
Contacted == node \in Judged => Missing(order) = {}
Unchanged == node \in Judged => ~changed

\* What passed without a human is small.
Small ==
  verdict = "auto" /\ node \in {"queue", "fresh", "execute"} => OrderValue(order) < Tier1Max

\* While nobody's risk changes, a review ends as the administrator decides: stock
\* can only fall, and less stock makes no order tier 1 or 3.
Final ==
  "risk" \notin world.env =>
    /\ node = "paused" => TierOf(order) = 2
    /\ verdict = "reject" => node \in {"support", "closed"}

Products(lines) == [i \in DOMAIN lines |-> lines[i].product]

\* What was shown is ordered, until the customer adds to it.
AsShown ==
  /\ node = "paused" \/ (node = "queue" /\ verdict = "approve") =>
       shown.lines = Lines(order) /\ shown.qty = order.qty
  /\ node \in {"fresh", "execute"} /\ verdict = "approve" =>
       /\ IsPrefix(Products(shown.lines), Products(Lines(order)))
       /\ world.kinds \cap {"qty", "addon"} = {} =>
            Lines(order) = shown.lines /\ order.qty = shown.qty

--------------------------------------------------------------------------------
(****************************************************************************)
(* Orders.                                                                  *)
(****************************************************************************)
LEMMA Numbers ==
  /\ Price \subseteq Nat /\ Quantity \subseteq Nat
  /\ Tier1Max \in Nat /\ MaxCount \in Nat /\ MaxDrafts \in Nat
  /\ \A w \in Worlds : w.kinds \subseteq AllKinds /\ w.env \subseteq Features
BY PriceAssumption, QuantityAssumption, BoundsAssumption, WorldsAssumption

LEMMA LinesTyped ==
  ASSUME NEW o \in Order
  PROVE  Lines(o) \in Seq(Line) /\ Normalized(o) \in Order
<1>1. Lines(o) \in Seq(Line)
  <2>1. [product |-> o.product, qty |-> o.qty] \in Line /\ o.lines \in Seq(Line)
    BY DEF Order, Line
  <2> QED  BY <2>1 DEF Lines
<1> QED  BY <1>1 DEF Normalized, Order

\* An order is a record of more than a product.
LEMMA OrderIsNot ==
  ASSUME NEW o \in Order
  PROVE  o # NoOrder
BY DEF Order, NoOrder

LEMMA FillFromTyped ==
  ASSUME NEW o \in Order, NEW found \in SUBSET Slots
  PROVE  FillFrom(o, found) \in Order
BY DEF FillFrom, Order

LEMMA NewProductTyped ==
  ASSUME TypeOK, NEW o \in Order, NEW p \in Product
  PROVE  NewProduct(o, p) \in Order
BY Numbers DEF NewProduct, Order, TypeOK, None, Line

LEMMA ModifiedTyped ==
  ASSUME TypeOK, NEW o \in Order, NEW r, NEW m \in Modified(o, r)
  PROVE  m \in Order
<1>1. \A n \in Quantity : [o EXCEPT !.qty = n] \in Order
  BY Numbers DEF Order
<1>2. \A p \in Product : NewProduct(o, p) \in Order
  BY NewProductTyped
<1> QED  BY <1>1, <1>2 DEF Modified, Requantified

\* A message that changes the order, makes an offer or asks to cancel is not taken for
\* a mere addition or consent: patterns see it, or it is not there to be seen.
LEMMA ReadingsSee ==
  ASSUME NEW r \in Readings(queue), ~r.nego, ~r.cancel, ~r.modify
  PROVE  queue \cap {"nego", "product", "qty"} = {}
<1>1. CASE Strong(queue)
  <2>1. r = Keywords(queue)
    BY <1>1 DEF Readings
  <2>2. "nego" \notin queue /\ "product" \notin queue /\ "qty" \notin queue
    BY <2>1 DEF Keywords
  <2> QED  BY <2>2
<1>2. CASE ~Strong(queue)
  BY <1>2 DEF Strong
<1> QED  BY <1>1, <1>2

\* The draft a resumed guard reattaches.
LEMMA ReattachedTyped ==
  ASSUME Typed, order \in Order
  PROVE  /\ Reattached \in 0 .. MaxDrafts
         /\ (\E d \in DOMAIN draft : draft[d] = "pending") => Reattached # None
<1> DEFINE P == {d \in DOMAIN draft : draft[d] = "pending"}
<1>1. CASE order.draft # None
  BY <1>1 DEF Reattached, Order
<1>2. CASE order.draft = None /\ P = {}
  BY <1>2, Numbers DEF Reattached, None
<1>3. CASE order.draft = None /\ P # {}
  <2>1. P \in SUBSET (1 .. Len(draft)) /\ Len(draft) \in Nat /\ Len(draft) <= MaxDrafts
    BY DEF Typed, TypeOK
  <2>2. \E d \in P : \A e \in P : e <= d
    <3> HIDE DEF P
    <3> QED  BY <1>3, <2>1, GreatestNat
  <2>3. Reattached = CHOOSE d \in P : \A e \in P : e <= d
    BY <1>3 DEF Reattached
  <2>4. Reattached \in P
    <3> HIDE DEF P
    <3> QED  BY <2>2, <2>3
  <2> QED  BY <2>1, <2>4, Numbers DEF None
<1> QED  BY <1>1, <1>2, <1>3

--------------------------------------------------------------------------------
(****************************************************************************)
(* The shape of the state, and room for the rows of a turn.                 *)
(****************************************************************************)
LEMMA TypedInit == Init => Typed
<1> SUFFICES ASSUME Init  PROVE Typed
  OBVIOUS
<1>1. <<>> \in Seq(Statuses) /\ Len(<<>>) = 0 /\ DOMAIN <<>> = {}
  OBVIOUS
<1>2. TypeOK
  <2>1. price \in [Product -> Price] /\ stock \in [Product -> Nat] /\ tier \in 1 .. 3
    BY PriceAssumption, StockAssumption DEF Init
  <2>2. (\A d \in DOMAIN draft : draft[d] \in {"pending", "confirmed", "cancelled", "superseded"})
          /\ Len(draft) <= MaxDrafts
    BY <1>1, Numbers DEF Init
  <2> QED  BY <2>1, <2>2 DEF Init, TypeOK
<1> QED  BY <1>1, <1>2 DEF Init, Typed, RoomLeft, Queued

LEMMA StartTyped ==
  ASSUME Typed, NEW o \in Order, StartTurn(o), parked' \in Order \union {NoOrder}
  PROVE  Typed'
<1>1. TypeOK'
  BY OrderIsNot DEF StartTurn, Goto, Typed, TypeOK, catalog, history
<1>2. RoomLeft' /\ Queued'
  BY Numbers DEF StartTurn, Goto, Typed, TypeOK, RoomLeft, Queued, catalog, history
<1> QED  BY <1>1, <1>2 DEF Typed, StartTurn, catalog

LEMMA NewOrderTyped ==
  ASSUME Typed, NEW p \in Product, NEW n \in Quantity, NEW found \in SUBSET Slots,
         NewOrder(p, n, found)
  PROVE  Typed'
<1> DEFINE o == [product |-> p, qty |-> n, lines |-> <<[product |-> p, qty |-> n]>>,
                 price |-> price[p], approved |-> price[p], draft |-> None,
                 contact |-> found]
<1>1. o \in Order
  <2>1. [product |-> p, qty |-> n] \in Line /\ n \in Nat
    BY Numbers DEF Line
  <2>2. price[p] \in Price /\ None \in 0 .. MaxDrafts
    BY Numbers DEF Typed, TypeOK, None
  <2> QED  BY <2>1, <2>2 DEF Order
<1>2. StartTurn(CarryContact(o, parked)) /\ UNCHANGED parked
  BY DEF NewOrder
<1>3. CarryContact(o, parked) \in Order
  <2> HIDE DEF o
  <2>1. CASE parked = NoOrder
    BY <1>1, <2>1 DEF CarryContact
  <2>2. CASE parked # NoOrder
    <3>1. parked.contact \in SUBSET Slots
      BY <2>2 DEF Typed, TypeOK, Order
    <3> QED  BY <1>1, <2>2, <3>1, FillFromTyped DEF CarryContact
  <2> QED  BY <2>1, <2>2
<1> HIDE DEF o
<1> QED  BY <1>2, <1>3, StartTyped DEF Typed, TypeOK

LEMMA UnparkTyped ==
  ASSUME Typed, NEW found \in SUBSET Slots, Unpark(found)
  PROVE  Typed'
<1>1. parked \in Order
  BY DEF Unpark, Typed, TypeOK
<1>2. FillFrom(parked, found) \in Order
  BY <1>1, FillFromTyped
<1>3. parked' \in Order
  BY <1>2 DEF Unpark, StartTurn
<1> QED  BY <1>2, <1>3, StartTyped DEF Unpark

LEMMA RowSet ==
  ASSUME Typed, NEW d, NEW st \in Statuses
  PROVE  [draft EXCEPT ![d] = st] \in Seq(Statuses)
         /\ Len([draft EXCEPT ![d] = st]) = Len(draft)
<1>1. draft \in Seq(Statuses)
  BY DEF Typed
<1>2. [draft EXCEPT ![d] = st] \in Seq(Statuses) /\ Len([draft EXCEPT ![d] = st]) = Len(draft)
  <2>1. CASE d \in 1 .. Len(draft)
    BY <1>1, <2>1, ExceptSeq
  <2>2. CASE d \notin 1 .. Len(draft)
    <3>1. [draft EXCEPT ![d] = st] = draft
      BY <1>1, <2>2
    <3> QED  BY <1>1, <3>1
  <2> QED  BY <2>1, <2>2
<1> QED  BY <1>2

LEMMA WithdrawTyped ==
  ASSUME Typed, NEW d, NEW st \in Statuses
  PROVE  Withdraw(d, st) \in Seq(Statuses) /\ Len(Withdraw(d, st)) = Len(draft)
BY RowSet DEF Withdraw, Typed

LEMMA GuardTyped ==
  ASSUME Typed, SkipGuard \/ AskContact \/ TooRisky \/ AutoApprove \/ MaxReached
  PROVE  Typed'
<1> USE Numbers DEF Typed, TypeOK, RoomLeft, Queued, At, Goto, Fresh, catalog, history
<1>1. CASE SkipGuard
  BY <1>1 DEF SkipGuard
<1>2. CASE AskContact
  BY <1>2 DEF AskContact
<1>3. CASE TooRisky
  BY <1>3 DEF TooRisky
<1>4. CASE AutoApprove
  BY <1>4 DEF AutoApprove, LetPass
<1>5. CASE MaxReached
  BY <1>5 DEF MaxReached
<1> QED  BY <1>1, <1>2, <1>3, <1>4, <1>5

LEMMA PauseTyped == ASSUME Typed, PauseOrder PROVE Typed'
<1> DEFINE rows == Withdraw(order.draft, "superseded")
<1>1. rows \in Seq(Statuses) /\ Len(rows) = Len(draft)
  BY WithdrawTyped DEF Statuses
<1>2. /\ draft' = Append(rows, "pending") /\ draft' \in Seq(Statuses)
      /\ Len(draft') = Len(draft) + 1 /\ draft'[Len(draft) + 1] = "pending"
      /\ Len(draft) + 1 \in DOMAIN draft'
  <2> HIDE DEF rows
  <2>1. draft' = Append(rows, "pending") /\ "pending" \in Statuses
    BY DEF PauseOrder, rows, Statuses
  <2> QED  BY <1>1, <2>1, AppendProperties
<1> HIDE DEF rows
<1>3. /\ count < MaxCount /\ Len(draft) + MaxCount < MaxDrafts + count
      /\ Len(draft) \in Nat /\ count \in Nat
  BY Numbers DEF PauseOrder, Fresh, At, Maxed, Typed, TypeOK, RoomLeft
<1>4. TypeOK'
  <2>1. \A d \in DOMAIN draft' : draft'[d] \in Statuses
    BY <1>2
  <2>2. Len(draft') <= MaxDrafts
    BY <1>2, <1>3, Numbers
  <2> QED
    BY <2>1, <2>2 DEF PauseOrder, Fresh, At, Goto, Typed, TypeOK, catalog, Statuses
<1>5. RoomLeft'
  BY <1>2, <1>3, Numbers DEF PauseOrder, Goto, RoomLeft
<1>6. Queued'
  BY DEF PauseOrder, Goto, Typed, Queued, catalog
<1> QED  BY <1>2, <1>4, <1>5, <1>6 DEF Typed, PauseOrder, catalog

LEMMA DecideTyped ==
  ASSUME Typed, (\E a \in Price : Approve(a)) \/ Reject
                  \/ \E v \in {"approve", "reject"} : DecideInVain(v)
  PROVE  Typed'
<1>1. /\ node = "paused" /\ order \in Order /\ count \in Nat /\ Len(draft) \in Nat
      /\ count < MaxCount /\ Len(draft) + MaxCount <= MaxDrafts + count
      /\ \E d \in DOMAIN draft : draft[d] = "pending"
  <2>1. node = "paused"
    BY DEF Approve, Reject, DecideInVain, At
  <2>2. Len(draft) \in Nat
    BY DEF Typed
  <2> QED  BY <2>1, <2>2 DEF Typed, TypeOK, RoomLeft
<1>2. Reattached \in 0 .. MaxDrafts /\ Reattached # None
  BY <1>1, ReattachedTyped
<1>3. ASSUME NEW a \in Price, Approve(a)  PROVE Typed'
  <2>1. order' \in Order /\ order'.draft = Reattached
    BY <1>1, <1>2, <1>3 DEF Approve, Order
  <2>2. TypeOK'
    BY <1>3, <2>1, OrderIsNot DEF Approve, Goto, Typed, TypeOK, catalog
  <2>3. RoomLeft'
    BY <1>1, <1>2, <1>3, <2>1 DEF Approve, Goto, RoomLeft
  <2>4. Queued'
    BY <1>3 DEF Approve, Goto, Typed, Queued, catalog
  <2> QED  BY <1>3, <2>2, <2>3, <2>4 DEF Typed, Approve, catalog
<1>4. CASE Reject
  <2>1. draft' = [draft EXCEPT ![Reattached] = "cancelled"]
    BY <1>2, <1>4 DEF Reject
  <2>2. draft' \in Seq(Statuses) /\ Len(draft') = Len(draft)
    BY <2>1, RowSet DEF Statuses
  <2>3. TypeOK'
    <3>1. \A d \in DOMAIN draft' : draft'[d] \in Statuses
      BY <2>2
    <3> QED
      BY <1>1, <1>4, <2>2, <3>1 DEF Reject, Goto, Typed, TypeOK, catalog, Statuses
  <2>4. RoomLeft' /\ Queued'
    BY <1>1, <1>4 DEF Reject, Goto, Typed, RoomLeft, Queued, catalog
  <2> QED  BY <1>4, <2>2, <2>3, <2>4 DEF Typed, Reject, catalog
<1>5. ASSUME NEW v \in {"approve", "reject"}, DecideInVain(v)  PROVE Typed'
  <2>1. TypeOK'
    BY <1>1, <1>5 DEF DecideInVain, LetPass, Goto, Typed, TypeOK, catalog
  <2>2. RoomLeft'
    BY <1>1, <1>5, Numbers DEF DecideInVain, LetPass, Goto, RoomLeft, catalog
  <2>3. Queued'
    BY <1>1, <1>5 DEF DecideInVain, LetPass, Goto, Typed, Queued, catalog
  <2> QED  BY <1>5, <2>1, <2>2, <2>3 DEF Typed, DecideInVain, LetPass, catalog
<1> QED  BY <1>3, <1>4, <1>5

LEMMA ReviewAgainTyped ==
  ASSUME Typed, queue # {}, NEW o \in Order, ReviewAgain(o)
  PROVE  Typed'
<1>1. TypeOK'
  <2>1. /\ order' = o /\ node' = "guard" /\ approved' = FALSE /\ queue' = {}
        /\ count' = count + 1
        /\ UNCHANGED <<price, stock, tier, world, parked, draft>>
    BY DEF ReviewAgain, Drain, Goto, catalog
  <2>2. count' \in Nat
    BY <2>1 DEF Typed, TypeOK
  <2> QED  BY <2>1, <2>2, OrderIsNot DEF Typed, TypeOK
<1>2. RoomLeft' /\ Queued'
  BY Numbers DEF ReviewAgain, Drain, At, Goto, Typed, TypeOK, RoomLeft, Queued, catalog
<1> QED  BY <1>1, <1>2 DEF Typed, ReviewAgain, catalog

LEMMA OfferedTyped ==
  ASSUME NEW o \in Order, NEW a \in Price
  PROVE  [o EXCEPT !.approved = a] \in Order
BY DEF Order

LEMMA ConsumeTyped == ASSUME Typed, Consume PROVE Typed'
<1>0. node = "queue" /\ order \in Order
  BY DEF Consume, NothingQueued, Negotiate, CancelAsked, Modify, Unclear, Proceed,
     ReviewAgain, Drain, At, Typed, TypeOK
<1>1. CASE NothingQueued
  BY <1>0, <1>1
     DEF NothingQueued, Drain, Goto, Typed, TypeOK, RoomLeft, Queued, catalog, history
<1>2. ASSUME Drain("cancel"),
             UNCHANGED <<catalog, order, parked, approved, count, draft, history>>
      PROVE  Typed'
  BY <1>0, <1>2 DEF Drain, Goto, Typed, TypeOK, RoomLeft, Queued, catalog, history
<1>3. ASSUME queue # {}, NEW r \in Readings(queue), Negotiate(r)  PROVE Typed'
  BY <1>0, <1>2, <1>3, ReviewAgainTyped, OfferedTyped DEF Negotiate, Offered
<1>4. ASSUME queue # {}, NEW r \in Readings(queue), CancelAsked(r)  PROVE Typed'
  BY <1>2, <1>4 DEF CancelAsked
<1>5. ASSUME queue # {}, NEW r \in Readings(queue), Modify(r)  PROVE Typed'
  BY <1>0, <1>5, ReviewAgainTyped, ModifiedTyped DEF Modify, Typed
<1>6. ASSUME queue # {}, NEW r \in Readings(queue), Unclear(r)  PROVE Typed'
  BY <1>0, <1>6, ReviewAgainTyped DEF Unclear
<1>7. ASSUME queue # {}, NEW r \in Readings(queue), Proceed(r)  PROVE Typed'
  <2>1. order' \in Order /\ order'.draft = order.draft
    <3>1. CASE order' = order
      BY <1>0, <3>1
    <3>2. CASE order' # order
      <4>1. PICK p \in Product, n \in Quantity :
              LET lines == Append(Lines(order), [product |-> p, qty |-> n])
              IN  order' = [order EXCEPT !.lines = lines, !.qty = Units(lines)]
        BY <1>7, <3>2 DEF Proceed
      <4> DEFINE lines == Append(Lines(order), [product |-> p, qty |-> n])
      <4>2. lines \in Seq(Line) /\ Units(lines) \in Nat
        <5>1. [product |-> p, qty |-> n] \in Line
          BY Numbers DEF Line
        <5>2. lines \in Seq(Line)
          BY <1>0, <5>1, LinesTyped
        <5> QED  BY <5>2, UnitsAreNat
      <4>3. order' = [order EXCEPT !.lines = lines, !.qty = Units(lines)]
        BY <4>1
      <4> HIDE DEF lines
      <4> QED  BY <1>0, <4>2, <4>3 DEF Order
    <3> QED  BY <3>1, <3>2
  <2>2. /\ queue' = {} /\ node' = "fresh" /\ changed' \in BOOLEAN
        /\ UNCHANGED <<catalog, parked, approved, count, draft, shown, verdict, placed>>
    BY <1>7 DEF Proceed, Drain, Goto, ChangeAsked
  <2> QED
    BY <1>0, <2>1, <2>2, OrderIsNot DEF Typed, TypeOK, RoomLeft, Queued, catalog
<1> QED  BY <1>1, <1>3, <1>4, <1>5, <1>6, <1>7 DEF Consume

LEMMA PlaceTyped == ASSUME Typed, PlaceOrder PROVE Typed'
<1>1. node = "execute" /\ order \in Order /\ draft \in Seq(Statuses)
  BY DEF PlaceOrder, At, Typed, TypeOK
<1>2. Len(draft) < MaxDrafts \/ order.draft # None
  BY <1>1 DEF Typed, RoomLeft
<1>3. stock' \in [Product -> Nat]
  <2>1. \A p \in Product : UnitsOf(Lines(order), p) \in Nat
    BY <1>1, LinesTyped, UnitsAreNat
  <2>2. \A p \in Product : stock[p] \in Nat /\ UnitsOf(Lines(order), p) <= stock[p]
    BY DEF PlaceOrder, Sellable, Typed, TypeOK
  <2>3. \A p \in Product : stock[p] - UnitsOf(Lines(order), p) \in Nat
    BY <2>1, <2>2
  <2> QED  BY <2>3 DEF PlaceOrder
<1>4. draft' \in Seq(Statuses) /\ Len(draft') <= MaxDrafts
  <2>1. CASE order.draft = None
    <3>1. draft' = Append(draft, "confirmed") /\ "confirmed" \in Statuses
      BY <2>1 DEF PlaceOrder, Statuses
    <3>2. Len(draft) \in Nat /\ Len(draft) < MaxDrafts
      BY <1>1, <1>2, <2>1
    <3> QED  BY <1>1, <3>1, <3>2, Numbers, AppendProperties
  <2>2. CASE order.draft # None
    <3>1. draft' = [draft EXCEPT ![order.draft] = "confirmed"] /\ "confirmed" \in Statuses
      BY <2>2 DEF PlaceOrder, Statuses
    <3> QED  BY <3>1, RowSet DEF Typed, TypeOK
  <2> QED  BY <2>1, <2>2
<1>5. order' \in Order /\ node' = "answer"
  BY <1>1, LinesTyped DEF PlaceOrder, Goto
<1>6. UNCHANGED <<price, tier, world, parked, approved, count, queue>>
  BY DEF PlaceOrder
<1>7. \A d \in DOMAIN draft' : draft'[d] \in Statuses
  BY <1>4
<1>8. TypeOK'
  BY <1>3, <1>4, <1>5, <1>6, <1>7, OrderIsNot DEF Typed, TypeOK, Statuses
<1>9. RoomLeft' /\ Queued'
  BY <1>1, <1>5, <1>6 DEF Typed, RoomLeft, Queued
<1> QED  BY <1>4, <1>6, <1>8, <1>9 DEF Typed

LEMMA CancelTyped == ASSUME Typed, Cancel PROVE Typed'
<1>1. node = "cancel" /\ draft \in Seq(Statuses)
  BY DEF Cancel, At, Typed
<1>2. draft' \in Seq(Statuses) /\ Len(draft') = Len(draft)
  <2>1. CASE UNCHANGED draft
    BY <1>1, <2>1
  <2>2. CASE draft' = [d \in DOMAIN draft |->
                         IF draft[d] = "pending" THEN "cancelled" ELSE draft[d]]
    <3>1. DOMAIN draft = 1 .. Len(draft) /\ Len(draft) \in Nat
      BY <1>1
    <3>2. draft' \in [1 .. Len(draft) -> Statuses]
      BY <1>1, <2>2, <3>1 DEF Statuses
    <3> QED  BY <3>1, <3>2, SeqDef
  <2> QED  BY <2>1, <2>2 DEF Cancel
<1>3. /\ node' \in {"support", "answer"} /\ parked' = NoOrder
      /\ UNCHANGED <<price, stock, tier, world, order, approved, count, queue>>
  BY DEF Cancel, Goto, catalog
<1>4. \A d \in DOMAIN draft' : draft'[d] \in Statuses
  BY <1>2
<1>5. TypeOK'
  BY <1>1, <1>2, <1>3, <1>4 DEF Typed, TypeOK, Statuses
<1>6. RoomLeft' /\ Queued'
  BY <1>1, <1>3 DEF Typed, RoomLeft, Queued
<1> QED  BY <1>2, <1>3, <1>5, <1>6 DEF Typed

LEMMA OtherTyped ==
  ASSUME Typed, OutOfStock \/ StalePrice \/ FreshEnough \/ SoldOut \/ Requote
                  \/ Support \/ Answer \/ Market \/ \E k \in world.kinds : Message(k)
  PROVE  Typed'
<1> USE Numbers DEF Typed, TypeOK, RoomLeft, Queued, At, Goto, catalog, history
<1>1. CASE OutOfStock
  BY <1>1 DEF OutOfStock
<1>2. CASE StalePrice
  <2>1. order \in Order /\ node = "fresh" /\ queue = {}
    BY <1>2 DEF StalePrice
  <2>2. price[order.product] \in Price
    BY <2>1 DEF Order
  <2>3. order' \in Order
    BY <1>2, <2>1, <2>2, OfferedTyped DEF StalePrice
  <2>4. TypeOK'
    BY <1>2, <2>3, OrderIsNot DEF StalePrice
  <2>5. approved
    BY <2>1
  <2> QED  BY <1>2, <2>1, <2>4, <2>5 DEF StalePrice
<1>3. CASE FreshEnough
  BY <1>3 DEF FreshEnough
<1>4. CASE SoldOut
  BY <1>4 DEF SoldOut
<1>5. CASE Requote
  BY <1>5 DEF Requote
<1>6. CASE Support
  BY <1>6 DEF Support
<1>7. CASE Answer
  BY <1>7, OrderIsNot DEF Answer
<1>8. CASE Market
  <2>1. price' \in [Product -> Price] /\ stock' \in [Product -> Nat] /\ tier' \in 1 .. 3
    <3>0. price \in [Product -> Price] /\ stock \in [Product -> Nat] /\ tier \in 1 .. 3
      OBVIOUS
    <3>1. CASE UNCHANGED <<stock, tier>>
      BY <1>8, <3>0, <3>1 DEF Market
    <3>2. CASE UNCHANGED <<price, tier>>
      BY <1>8, <3>0, <3>2 DEF Market
    <3>3. CASE tier' \in 1 .. 3 /\ UNCHANGED <<price, stock>>
      BY <3>0, <3>3
    <3> QED  BY <1>8, <3>1, <3>2, <3>3 DEF Market
  <2>2. UNCHANGED <<world, node, order, parked, approved, count, queue, draft, history>>
    BY <1>8 DEF Market
  <2> QED  BY <2>1, <2>2
<1>9. ASSUME NEW k \in world.kinds, Message(k)  PROVE Typed'
  BY <1>9 DEF Message
<1> QED  BY <1>1, <1>2, <1>3, <1>4, <1>5, <1>6, <1>7, <1>8, <1>9

LEMMA TypedStep == Typed /\ [Next]_vars => Typed'
<1> SUFFICES ASSUME Typed, [Next]_vars  PROVE Typed'
  OBVIOUS
<1>1. CASE Turn
  BY <1>1, GuardTyped, PauseTyped, ConsumeTyped, PlaceTyped, CancelTyped, OtherTyped DEF Turn
<1>2. CASE Customer
  BY <1>2, NewOrderTyped, UnparkTyped, OtherTyped DEF Customer
<1>3. CASE Admin
  BY <1>3, DecideTyped DEF Admin
<1>4. CASE Market
  BY <1>4, OtherTyped
<1>5. CASE UNCHANGED vars
  BY <1>5 DEF vars, catalog, history, Typed, TypeOK, RoomLeft, Queued
<1> QED  BY <1>1, <1>2, <1>3, <1>4, <1>5 DEF Next

\* Also: there is room for every row a turn inserts, and messages are queued only while
\* a human decides (hitl_guard_node, queue_consumer_node).
THEOREM TypedAlways == Spec => []Typed
BY TypedInit, TypedStep, PTL DEF Spec

\* The checkpoint and the tables keep their shape.
THEOREM TypeCorrect == Spec => []TypeOK
<1>1. Typed => TypeOK
  BY DEF Typed
<1> QED  BY <1>1, TypedAlways, PTL

--------------------------------------------------------------------------------
(****************************************************************************)
(* What a judged order keeps.  The steps that lead to or stay in a place    *)
(* where an order is judged are few; all others lead away from it.          *)
(****************************************************************************)
\* The steps that leave the order and its verdict alone.
Onward ==
  \/ NothingQueued \/ FreshEnough \/ (\E k \in world.kinds : Message(k))
  \/ Market \/ UNCHANGED vars

LEMMA Steps ==
  ASSUME Typed, [Next]_vars, node' \in Judged
  PROVE  \/ PauseOrder \/ AutoApprove
         \/ (\E a \in Price : Approve(a))
         \/ \E v \in {"approve", "reject"} : DecideInVain(v) /\ TierOf(order) = 1 /\ LetPass
         \/ queue # {} /\ \E r \in Readings(queue) : Proceed(r)
         \/ Onward
<1>1. CASE Turn
  <2>1. CASE \/ SkipGuard \/ AskContact \/ TooRisky \/ MaxReached \/ OutOfStock \/ StalePrice
             \/ PlaceOrder \/ SoldOut \/ Requote \/ Cancel \/ Support \/ Answer
    BY <2>1 DEF SkipGuard, AskContact, TooRisky, MaxReached, OutOfStock, StalePrice,
          PlaceOrder, SoldOut, Requote, Cancel, Support, Answer, Goto, Judged
  <2>2. CASE Consume
    BY <2>2 DEF Consume, Negotiate, CancelAsked, Modify, Unclear, ReviewAgain, Drain, Goto,
          Judged, Onward
  <2> QED  BY <1>1, <2>1, <2>2 DEF Turn, Onward
<1>2. CASE Customer
  BY <1>2 DEF Customer, NewOrder, Unpark, StartTurn, Goto, Judged, Onward
<1>3. CASE Admin
  BY <1>3 DEF Admin, Reject, DecideInVain, Goto, Judged
<1> QED  BY <1>1, <1>2, <1>3 DEF Next, Onward

LEMMA OnwardKeeps ==
  ASSUME Onward
  PROVE  /\ UNCHANGED <<order, changed, verdict, shown, world>>
         /\ \/ node' = node
            \/ node = "queue" /\ node' = "fresh"
            \/ node = "fresh" /\ node' = "execute"
BY DEF Onward, NothingQueued, FreshEnough, Message, Market, vars, catalog, history, Drain, At,
   Goto

\* The order joined by what the customer adds keeps its contact and its lines.
LEMMA ProceedMoves ==
  ASSUME Typed, NEW r \in Readings(queue), Proceed(r)
  PROVE  /\ node = "queue" /\ node' = "fresh" /\ order \in Order
         /\ order'.contact = order.contact /\ (changed' <=> changed)
         /\ UNCHANGED <<verdict, shown, world>>
         /\ \/ order' = order
            \/ /\ "addon" \in queue
               /\ \E l \in Line : order'.lines = Append(Lines(order), l)
<1>1. node = "queue" /\ node' = "fresh" /\ order \in Order
  BY DEF Proceed, Drain, At, Goto, Typed, TypeOK
<1>2. (changed' <=> changed) /\ UNCHANGED <<verdict, shown, world>>
  BY ReadingsSee DEF Proceed, ChangeAsked, catalog
<1>3. CASE order' = order
  BY <1>1, <1>2, <1>3
<1>4. CASE order' # order
  <2>1. PICK p \in Product, n \in Quantity :
          LET lines == Append(Lines(order), [product |-> p, qty |-> n])
          IN  order' = [order EXCEPT !.lines = lines, !.qty = Units(lines)]
    BY <1>4 DEF Proceed
  <2>2. [product |-> p, qty |-> n] \in Line
    BY Numbers DEF Line
  <2> DEFINE lines == Append(Lines(order), [product |-> p, qty |-> n])
             units == Units(lines)
  <2>3. order' = [order EXCEPT !.lines = lines, !.qty = units]
    BY <2>1
  <2>4. order'.contact = order.contact /\ order'.lines = lines
    <3> HIDE DEF lines, units
    <3> QED  BY <1>1, <2>3 DEF Order
  <2>5. "addon" \in queue
    BY <1>4 DEF Proceed
  <2> QED  BY <1>1, <1>2, <2>2, <2>4, <2>5
<1> QED  BY <1>3, <1>4

LEMMA ContactedStep == Typed /\ Contacted /\ [Next]_vars => Contacted'
<1> SUFFICES ASSUME Typed, Contacted, [Next]_vars, node' \in Judged
             PROVE  Missing(order)' = {}
  BY DEF Contacted
<1>1. CASE PauseOrder \/ AutoApprove
  BY <1>1 DEF PauseOrder, AutoApprove, LetPass, Missing
<1>2. ASSUME NEW a \in Price, Approve(a)  PROVE Missing(order)' = {}
  <2>1. node = "paused" /\ order \in Order
    BY <1>2 DEF Approve, At, Typed, TypeOK
  <2>2. order'.contact = order.contact
    BY <1>2, <2>1 DEF Approve, Order
  <2> QED  BY <2>1, <2>2 DEF Contacted, Judged, Missing
<1>3. ASSUME NEW v \in {"approve", "reject"}, DecideInVain(v), LetPass
      PROVE  Missing(order)' = {}
  BY <1>3 DEF DecideInVain, At, LetPass, Contacted, Judged, Missing
<1>4. ASSUME NEW r \in Readings(queue), Proceed(r)  PROVE Missing(order)' = {}
  BY <1>4, ProceedMoves DEF Contacted, Judged, Missing
<1>5. CASE Onward
  BY <1>5, OnwardKeeps DEF Contacted, Judged, Missing
<1> QED  BY <1>1, <1>2, <1>3, <1>4, <1>5, Steps

LEMMA UnchangedStep == Typed /\ Unchanged /\ [Next]_vars => Unchanged'
<1> SUFFICES ASSUME Typed, Unchanged, [Next]_vars, node' \in Judged
             PROVE  ~changed'
  BY DEF Unchanged
<1>1. CASE PauseOrder \/ AutoApprove
  BY <1>1 DEF PauseOrder, AutoApprove, LetPass
<1>2. ASSUME NEW a \in Price, Approve(a)  PROVE ~changed'
  BY <1>2 DEF Approve, At, Unchanged, Judged
<1>3. ASSUME LetPass  PROVE ~changed'
  BY <1>3 DEF LetPass
<1>4. ASSUME NEW r \in Readings(queue), Proceed(r)  PROVE ~changed'
  BY <1>4, ProceedMoves DEF Unchanged, Judged
<1>5. CASE Onward
  BY <1>5, OnwardKeeps DEF Unchanged, Judged
<1> QED  BY <1>1, <1>2, <1>3, <1>4, <1>5, Steps

LEMMA SmallStep == Typed /\ Small /\ [Next]_vars => Small'
<1> SUFFICES ASSUME Typed, Small, [Next]_vars, node' \in {"queue", "fresh", "execute"},
                    verdict' = "auto"
             PROVE  OrderValue(order)' < Tier1Max
  BY DEF Small
<1>1. CASE PauseOrder
  BY <1>1 DEF PauseOrder, Goto
<1>2. CASE AutoApprove
  <2>1. order \in Order /\ order' = order
    BY <1>2 DEF AutoApprove, LetPass, Fresh, At, Typed, TypeOK
  <2>2. ~(OrderValue(order) >= Tier1Max)
    BY <1>2 DEF AutoApprove, TierOf
  <2>3. OrderValue(order) \in Nat
    <3>1. order.price \in Nat /\ order.qty \in Nat
      BY <2>1, Numbers DEF Order
    <3>2. \A a, b \in Nat : a * b \in Nat
      OBVIOUS
    <3> QED  BY <3>1, <3>2 DEF OrderValue
  <2> QED  BY <2>1, <2>2, <2>3, Numbers DEF OrderValue
<1>3. ASSUME (\E a \in Price : Approve(a)) \/ \E v \in {"approve", "reject"} : DecideInVain(v)
      PROVE  FALSE
  BY <1>3 DEF Approve, DecideInVain
<1>4. ASSUME queue # {}, NEW r \in Readings(queue), Proceed(r)  PROVE FALSE
  BY <1>4, ProceedMoves DEF Typed, Queued
<1>5. CASE Onward
  BY <1>5, OnwardKeeps DEF Small, OrderValue
<1> QED  BY <1>1, <1>2, <1>3, <1>4, <1>5, Steps DEF Judged

LEMMA FinalStep == Typed /\ Final /\ [Next]_vars => Final'
<1> SUFFICES ASSUME Typed, Final, [Next]_vars, "risk" \notin world'.env
             PROVE  /\ node' = "paused" => TierOf(order)' = 2
                    /\ verdict' = "reject" => node' \in {"support", "closed"}
  BY DEF Final
<1>0. world' = world /\ "risk" \notin world.env
  <2>1. world' = world
    <3>1. CASE Turn
      BY <3>1 DEF Turn, SkipGuard, AskContact, TooRisky, AutoApprove, LetPass, MaxReached,
            PauseOrder, Consume, NothingQueued, Negotiate, CancelAsked, Modify, Unclear,
            ReviewAgain, Proceed, OutOfStock, StalePrice, FreshEnough, PlaceOrder, SoldOut,
            Requote, Cancel, Support, Answer, catalog
    <3>2. CASE Customer
      BY <3>2 DEF Customer, NewOrder, Unpark, StartTurn, Message, catalog
    <3>3. CASE Admin
      BY <3>3 DEF Admin, Approve, Reject, DecideInVain, LetPass, catalog
    <3> QED  BY <3>1, <3>2, <3>3 DEF Next, Market, vars, catalog
  <2> QED  BY <2>1
\* An order that is reviewed stays one.
<1>1. ASSUME node' = "paused"  PROVE TierOf(order)' = 2
  <2>1. CASE PauseOrder
    BY <2>1 DEF PauseOrder, TierOf, OrderValue, Missing, catalog
  <2>2. CASE \E k \in world.kinds : Message(k)
    BY <1>0, <2>2 DEF Message, At, Final, TierOf, OrderValue, Missing, catalog
  <2>3. CASE Market
    <3>1. node = "paused" /\ order \in Order /\ order' = order /\ tier' = tier
      BY <1>0, <1>1, <2>3 DEF Market, Typed, TypeOK
    <3>2. TierOf(order) = 2
      BY <1>0, <3>1 DEF Final
    <3>3. stock'[order.product] <= stock[order.product]
      BY <2>3, <3>1 DEF Market, Typed, TypeOK, Order
    <3>4. stock[order.product] < order.qty => stock'[order.product] < order.qty
      <4>1. /\ stock[order.product] \in Nat /\ order.qty \in Nat
            /\ stock'[order.product] \in Nat
        BY <2>3, <3>1 DEF Market, Typed, TypeOK, Order
      <4> QED  BY <3>3, <4>1
    <3> QED  BY <1>0, <3>1, <3>2, <3>4 DEF TierOf, OrderValue, Missing
  <2>4. CASE UNCHANGED vars
    BY <1>0, <1>1, <2>4 DEF vars, catalog, Final, TierOf, OrderValue, Missing
  <2>5. \/ PauseOrder \/ (\E k \in world.kinds : Message(k)) \/ Market \/ UNCHANGED vars
    BY <1>1, Steps DEF Judged, Onward, AutoApprove, LetPass, Approve, Proceed, NothingQueued,
       FreshEnough, Drain, Goto
  <2> QED  BY <2>1, <2>2, <2>3, <2>4, <2>5
\* A rejection is carried out.
<1>2. ASSUME verdict' = "reject"  PROVE node' \in {"support", "closed"}
  <2>1. CASE Turn
    <3>1. CASE AutoApprove \/ PauseOrder \/ Answer
      BY <1>2, <3>1 DEF AutoApprove, PauseOrder, Answer
    <3>2. CASE Support
      BY <1>2, <3>2 DEF Support, Goto, history
    <3>3. CASE \/ SkipGuard \/ AskContact \/ TooRisky \/ MaxReached \/ Consume
               \/ OutOfStock \/ StalePrice \/ FreshEnough \/ PlaceOrder \/ SoldOut
               \/ Requote \/ Cancel
      <4>1. verdict' = verdict /\ node \notin {"support", "closed"}
        BY <3>3 DEF SkipGuard, AskContact, TooRisky, MaxReached, Consume, NothingQueued,
           Negotiate, CancelAsked, Modify, Unclear, ReviewAgain, Proceed, OutOfStock,
           StalePrice, FreshEnough, PlaceOrder, SoldOut, Requote, Cancel, Drain, Fresh, At,
           history
      <4> QED  BY <1>0, <1>2, <4>1 DEF Final
    <3> QED  BY <2>1, <3>1, <3>2, <3>3 DEF Turn
  <2>2. CASE Customer
    <3>1. verdict' = verdict /\ node \notin {"support", "closed"}
      BY <2>2 DEF Customer, NewOrder, Unpark, StartTurn, Message, At, history
    <3> QED  BY <1>0, <1>2, <3>1 DEF Final
  <2>3. CASE Admin
    <3>1. CASE Reject \/ \E a \in Price : Approve(a)
      BY <1>2, <3>1 DEF Reject, Approve, Goto
    <3>2. CASE \E v \in {"approve", "reject"} : DecideInVain(v)
      BY <1>0, <3>2 DEF DecideInVain, At, Final
    <3> QED  BY <2>3, <3>1, <3>2 DEF Admin
  <2>4. CASE Market \/ UNCHANGED vars
    BY <1>0, <1>2, <2>4 DEF Market, vars, history, Final
  <2> QED  BY <2>1, <2>2, <2>3, <2>4 DEF Next
<1> QED  BY <1>1, <1>2

--------------------------------------------------------------------------------
(****************************************************************************)
(* What was shown and what is ordered.                                      *)
(****************************************************************************)
LEMMA PrefixOfItself ==
  ASSUME NEW S, NEW s \in Seq(S)
  PROVE  IsPrefix(s, s)
BY DEF IsPrefix

LEMMA ProductsTyped ==
  ASSUME NEW lines \in Seq(Line)
  PROVE  /\ Products(lines) \in Seq(Product) /\ Len(Products(lines)) = Len(lines)
         /\ \A i \in 1 .. Len(lines) : Products(lines)[i] = lines[i].product
<1>1. DOMAIN lines = 1 .. Len(lines) /\ Len(lines) \in Nat
  OBVIOUS
<1>2. \A i \in 1 .. Len(lines) : lines[i] \in Line
  BY ElementOfSeq
<1>3. \A l \in Line : l.product \in Product
  BY DEF Line
<1>4. Products(lines) \in [1 .. Len(lines) -> Product]
  BY <1>1, <1>2, <1>3 DEF Products
<1>5. Products(lines) \in Seq(Product)
  BY <1>1, <1>4, SeqDef
<1> QED  BY <1>1, <1>4, <1>5 DEF Products

LEMMA PrefixOfMore ==
  ASSUME NEW lines \in Seq(Line), NEW l \in Line
  PROVE  IsPrefix(Products(lines), Products(Append(lines, l)))
<1> DEFINE more == Append(lines, l)
<1>1. /\ more \in Seq(Line) /\ Len(more) = Len(lines) + 1 /\ Len(lines) \in Nat
      /\ \A i \in 1 .. Len(lines) : more[i] = lines[i]
  BY AppendProperties
<1> HIDE DEF more
<1> DEFINE s == Products(lines)
           t == Products(more)
           n == Len(lines)
<1>2. /\ s \in Seq(Product) /\ t \in Seq(Product) /\ Len(s) = n /\ Len(t) = n + 1
      /\ \A i \in 1 .. n : s[i] = t[i] /\ s[i] \in Product
  <2>1. \A i \in 1 .. n : i \in 1 .. Len(more)
    BY <1>1
  <2>2. /\ s \in Seq(Product) /\ t \in Seq(Product) /\ Len(s) = n /\ Len(t) = n + 1
        /\ \A i \in 1 .. n : s[i] = t[i]
    BY <1>1, <2>1, ProductsTyped
  <2> QED  BY <2>2, ElementOfSeq
<1> HIDE DEF s, t
<1>3. /\ SubSeq(s, 1, n) \in Seq(Product) /\ SubSeq(t, 1, n) \in Seq(Product)
      /\ Len(SubSeq(s, 1, n)) = n /\ Len(SubSeq(t, 1, n)) = n
      /\ \A i \in 1 .. n : SubSeq(s, 1, n)[i] = s[i] /\ SubSeq(t, 1, n)[i] = t[i]
  <2>1. 1 \in Int /\ n \in Int /\ (\A i \in 1 .. n : s[i] \in Product /\ t[i] \in Product)
    BY <1>1, <1>2
  <2> HIDE DEF n
  <2>2. /\ SubSeq(s, 1, n) \in Seq(Product)
        /\ Len(SubSeq(s, 1, n)) = IF 1 <= n THEN n - 1 + 1 ELSE 0
        /\ \A i \in 1 .. n - 1 + 1 : SubSeq(s, 1, n)[i] = s[1 + i - 1]
    BY <2>1, SubSeqProperties
  <2>3. /\ SubSeq(t, 1, n) \in Seq(Product)
        /\ Len(SubSeq(t, 1, n)) = IF 1 <= n THEN n - 1 + 1 ELSE 0
        /\ \A i \in 1 .. n - 1 + 1 : SubSeq(t, 1, n)[i] = t[1 + i - 1]
    BY <2>1, SubSeqProperties
  <2>4. n \in Nat
    BY <1>1 DEF n
  <2> QED  BY <2>2, <2>3, <2>4
<1>4. SubSeq(s, 1, n) = SubSeq(t, 1, n)
  BY <1>2, <1>3, SeqEqual
<1> QED  BY <1>1, <1>2, <1>4 DEF IsPrefix, s, t, more

LEMMA AsShownStep == Typed /\ AsShown /\ [Next]_vars => AsShown'
<1> SUFFICES ASSUME Typed, AsShown, [Next]_vars  PROVE AsShown'
  OBVIOUS
<1>0. ASSUME node' \notin Judged  PROVE AsShown'
  BY <1>0 DEF AsShown, Judged
<1>a. ASSUME node' = "paused" \/ node' = "queue",
             shown'.lines = Lines(order') /\ shown'.qty = order'.qty
      PROVE  AsShown'
  BY <1>a DEF AsShown, Lines
<1>b. ASSUME node' \notin {"paused", "queue"}, verdict' # "approve"  PROVE AsShown'
  BY <1>b DEF AsShown
<1>1. CASE PauseOrder
  <2>1. order \in Order
    BY <1>1 DEF PauseOrder, Fresh, At, Typed, TypeOK
  <2>2. Normalized(order).lines = Lines(order) /\ Normalized(order).qty = order.qty
    BY <2>1 DEF Normalized, Order
  <2>3. shown' = Content(Normalized(order)) /\ order' = order /\ node' = "paused"
    BY <1>1 DEF PauseOrder, Goto
  <2>4. shown'.lines = Lines(order) /\ shown'.qty = order.qty
    BY <2>2, <2>3 DEF Content
  <2> QED  BY <1>a, <2>3, <2>4
<1>2. CASE AutoApprove
  BY <1>2 DEF AutoApprove, LetPass, Goto, AsShown
<1>3. ASSUME NEW a \in Price, Approve(a)  PROVE AsShown'
  <2>1. node = "paused" /\ order \in Order /\ node' = "queue" /\ shown' = shown
    BY <1>3 DEF Approve, At, Goto, Typed, TypeOK
  <2>2. order' = [order EXCEPT !.draft = Reattached, !.approved = a]
    BY <1>3 DEF Approve
  <2>3. order'.lines = order.lines /\ order'.product = order.product /\ order'.qty = order.qty
    BY <2>1, <2>2 DEF Order
  <2>4. shown.lines = Lines(order) /\ shown.qty = order.qty
    BY <2>1 DEF AsShown
  <2>5. Lines(order') = Lines(order)
    BY <2>3 DEF Lines
  <2> QED  BY <1>a, <2>1, <2>3, <2>4, <2>5
<1>4. ASSUME NEW v \in {"approve", "reject"}, DecideInVain(v), LetPass  PROVE AsShown'
  <2>1. node = "paused" /\ node' = "queue" /\ UNCHANGED <<order, shown>>
    BY <1>4 DEF DecideInVain, LetPass, At, Goto
  <2>2. shown.lines = Lines(order) /\ shown.qty = order.qty
    BY <2>1 DEF AsShown
  <2> QED  BY <1>a, <2>1, <2>2 DEF Lines
<1>5. ASSUME NEW r \in Readings(queue), Proceed(r)  PROVE AsShown'
  <2>0. CASE verdict # "approve"
    BY <1>5, <1>b, <2>0, ProceedMoves
  <2>1. CASE verdict = "approve"
    <3>1. /\ node = "queue" /\ node' = "fresh" /\ order \in Order
          /\ UNCHANGED <<verdict, shown, world>>
      BY <1>5, ProceedMoves
    <3>2. shown.lines = Lines(order) /\ shown.qty = order.qty /\ Lines(order) \in Seq(Line)
      BY <2>1, <3>1, LinesTyped DEF AsShown
    <3>3. CASE order' = order
      <4>1. IsPrefix(Products(Lines(order)), Products(Lines(order)))
        BY <3>2, ProductsTyped, PrefixOfItself
      <4> QED  BY <3>1, <3>2, <3>3, <4>1 DEF AsShown, Lines
    <3>4. ASSUME NEW l \in Line, "addon" \in queue, order'.lines = Append(Lines(order), l)
          PROVE  AsShown'
      <4>1. order'.lines # <<>>
        BY <3>2, <3>4, AppendProperties
      <4>2. Lines(order') = Append(Lines(order), l)
        BY <3>4, <4>1 DEF Lines
      <4>3. IsPrefix(Products(shown.lines), Products(Lines(order')))
        BY <3>2, <4>2, PrefixOfMore
      <4>4. "addon" \in world.kinds
        BY <3>4 DEF Typed, Queued
      <4> QED  BY <3>1, <4>3, <4>4 DEF AsShown, Lines
    <3> QED  BY <1>5, <3>3, <3>4, ProceedMoves
  <2> QED  BY <2>0, <2>1
<1>6. CASE Onward
  <2>1. /\ UNCHANGED <<order, verdict, shown, world>>
        /\ \/ node' = node
           \/ node = "queue" /\ node' = "fresh"
           \/ node = "fresh" /\ node' = "execute"
    BY <1>6, OnwardKeeps
  <2>2. CASE node' = node \/ node = "fresh"
    BY <2>1, <2>2 DEF AsShown, Lines
  <2>3. CASE node = "queue" /\ node' = "fresh" /\ verdict = "approve"
    <3>1. shown.lines = Lines(order) /\ shown.qty = order.qty /\ order \in Order
      BY <2>3 DEF AsShown, Typed, TypeOK
    <3>2. IsPrefix(Products(Lines(order)), Products(Lines(order)))
      BY <3>1, LinesTyped, ProductsTyped, PrefixOfItself
    <3> QED  BY <2>1, <2>3, <3>1, <3>2 DEF AsShown, Lines
  <2> QED  BY <1>b, <2>1, <2>2, <2>3
<1> QED  BY <1>0, <1>1, <1>2, <1>3, <1>4, <1>5, <1>6, Steps

--------------------------------------------------------------------------------
(****************************************************************************)
(* What is ordered.                                                         *)
(****************************************************************************)
\* Only the execution places an order, which keeps the shape it had.
LEMMA PlacingIs ==
  ASSUME Typed, [Next]_vars, Placing
  PROVE  PlaceOrder /\ node = "execute" /\ node \in Judged /\ order \in Order
<1>1. PlaceOrder
  <2>1. placed' # placed
    BY DEF Placing
  <2>2. CASE Turn
    BY <2>1, <2>2 DEF Placing, Turn, SkipGuard, AskContact, TooRisky, AutoApprove, LetPass,
          MaxReached, PauseOrder, Consume, NothingQueued, Negotiate, CancelAsked, Modify,
          Unclear, ReviewAgain, Proceed, OutOfStock, StalePrice, FreshEnough, SoldOut,
          Requote, Cancel, Support, Answer, history
  <2>3. CASE Customer
    BY <2>1, <2>3 DEF Customer, NewOrder, Unpark, StartTurn, Message, history
  <2>4. CASE Admin
    BY <2>1, <2>4 DEF Admin, Approve, Reject, DecideInVain, LetPass
  <2> QED  BY <2>1, <2>2, <2>3, <2>4 DEF Next, Market, vars, history
<1> QED  BY <1>1 DEF PlaceOrder, At, Judged, Typed, TypeOK

\* Every order that is placed has a phone and an address (order_slots.py,
\* hitl_guard_node), also when the customer changed its product during a review.
THEOREM PlacedIsReachable == Spec => PlacedHasContact
<1>1. Init => Contacted
  BY DEF Init, Contacted, Judged
<1>2. Typed /\ Contacted /\ [Next]_vars => [Placing => Missing(order) = {}]_vars
  BY PlacingIs DEF Contacted
<1> QED  BY <1>1, <1>2, TypedAlways, ContactedStep, PTL DEF Spec, PlacedHasContact

\* What the customer changed is judged again before it is ordered
\* (queue_consumer_node, whose answers go back to the guard).
THEOREM ChangesAreJudged == Spec => ChangeIsJudged
<1>1. Init => Unchanged
  BY DEF Init, Unchanged
<1>2. Typed /\ Unchanged /\ [Next]_vars => [Placing => ~changed]_vars
  BY PlacingIs DEF Unchanged
<1> QED  BY <1>1, <1>2, TypedAlways, UnchangedStep, PTL DEF Spec, ChangeIsJudged

\* Without a human only orders below the cap are placed (_resolve_risk_tier).
THEOREM NobodyPlacesBig == Spec => AutoPlacedSmall
<1>1. Init => Small
  BY DEF Init, Small
<1>2. Typed /\ Small /\ [Next]_vars
        => [Placing /\ verdict = "auto" => OrderValue(order) < Tier1Max]_vars
  BY PlacingIs DEF Small
<1> QED  BY <1>1, <1>2, TypedAlways, SmallStep, PTL DEF Spec, AutoPlacedSmall

\* What an administrator rejected is not ordered while the customer's risk stays what it
\* was (hitl_guard_node, run again from its start).
THEOREM RejectionsHold == Spec => RejectedNotPlaced
<1>1. Init => Final
  BY DEF Init, Final
<1>2. Typed /\ Final /\ [Next]_vars
        => [Placing /\ "risk" \notin world.env => verdict # "reject"]_vars
  BY PlacingIs DEF Final
<1> QED  BY <1>1, <1>2, TypedAlways, FinalStep, PTL DEF Spec, RejectedNotPlaced

\* What an administrator approved is placed as shown, but for what the customer adds
\* (hitl_guard_node, queue_consumer_node, order_execution_node).
THEOREM ShownIsPlaced == Spec => PlacedAsShown
<1>1. Init => AsShown
  BY DEF Init, AsShown
<1>2. Typed /\ AsShown /\ [Next]_vars
        => [Placing /\ verdict = "approve" =>
              /\ IsPrefix([i \in DOMAIN shown.lines |-> shown.lines[i].product],
                          [i \in DOMAIN Lines(order) |-> Lines(order)[i].product])
              /\ world.kinds \cap {"qty", "addon"} = {} =>
                   Lines(order) = shown.lines /\ order.qty = shown.qty]_vars
  BY PlacingIs DEF AsShown, Products
<1> QED  BY <1>1, <1>2, TypedAlways, AsShownStep, PTL DEF Spec, PlacedAsShown
================================================================================
