---------------------------- MODULE OrderPipeline ---------------------------
(***************************************************************************)
(* What happens to the content of one session's order: the guard that      *)
(* pauses it, sends it to support or lets it pass; the administrator's     *)
(* decision, which re-runs the guard from its start; the queue of what the *)
(* customer wrote meanwhile; the freshness check; and the execution.       *)
(* The nodes of the graph are the control state, one action each.          *)
(***************************************************************************)
EXTENDS Naturals, Sequences, SequencesExt, FiniteSets

CONSTANTS
  Product, Price,   \* catalog; prices in a small unit
  Quantity,         \* quantities customers ask for
  InitPrice, InitStock,
  Tier1Max,         \* HITL_TIER1_MAX_ORDER_VALUE
  MaxCount,         \* HITL_MAX_ESCALATION_COUNT
  MaxDrafts,        \* bound: a turn starts if there is room for all its rows
  Worlds            \* what a behaviour may be about: [kinds, env] records, what
                    \* customers write during a review, what the environment does

Features ==
  { "price",   \* catalog prices change
    "sell",    \* other sessions take stock
    "cost",    \* the conversation is over HITL_COST_THRESHOLD_TOKENS
    "risk" }   \* the risk score of the customer changes

\* A conditional offer ("X or I cancel"), a cancellation, another product, a
\* quantity, an extra product, a question, a consent, anything else.
AllKinds == {"nego", "cancel", "product", "qty", "addon", "info", "confirm", "other"}

ASSUME PriceAssumption == Price \subseteq Nat \ {0} /\ InitPrice \in [Product -> Price]
ASSUME StockAssumption == InitStock \in [Product -> Nat]
ASSUME QuantityAssumption == Quantity \subseteq Nat \ {0}
ASSUME BoundsAssumption == {Tier1Max, MaxCount, MaxDrafts} \subseteq Nat
ASSUME WorldsAssumption ==
  \A w \in Worlds : w.kinds \subseteq AllKinds /\ w.env \subseteq Features

None == 0
DeltaPercent == 5       \* HITL_PRICE_DELTA_THRESHOLD

VARIABLES
  price, stock,   \* the products table
  tier,           \* the tier of confidence and history, before the overrides
  world,          \* the one of Worlds this behaviour is about
  node,           \* where the graph is
  order,          \* order_info in the checkpoint
  parked,         \* pending_order
  approved,       \* hitl_approved
  count,          \* hitl_escalation_count
  queue,          \* kinds of unprocessed messages
  draft,          \* statuses of the session's orders, oldest first
  shown,          \* history: the order the last pause showed
  verdict,        \* history: who let the order pass in this turn
  changed,        \* history: the customer changed it since it was let pass
  placed          \* history: the order placed in this turn

catalog == <<price, stock, tier, world>>
history == <<shown, verdict, changed, placed>>
vars == <<catalog, node, order, parked, approved, count, queue, draft, history>>

Slots == {"phone", "address"}
Line == [product : Product, qty : Nat]
Order == [product : Product, qty : Nat, lines : Seq(Line),
          price : Price, approved : Price, draft : 0..MaxDrafts,
          contact : SUBSET Slots]
NoOrder == [product |-> None]

Content(o) == [lines |-> o.lines, qty |-> o.qty, approved |-> o.approved]
-----------------------------------------------------------------------------
(* services/draft_orders.py, core/agent/hitl_risk.py, queue_intents.py.      *)

\* normalize_items: items[], or one line made of the flat fields.
Lines(o) == IF o.lines # <<>> THEN o.lines
            ELSE <<[product |-> o.product, qty |-> o.qty]>>
Total(amounts) ==
  LET total[i \in 0..Len(amounts)] == IF i = 0 THEN 0 ELSE total[i - 1] + amounts[i]
  IN total[Len(amounts)]
Units(lines) == Total([i \in DOMAIN lines |-> lines[i].qty])
UnitsOf(lines, p) ==
  Total([i \in DOMAIN lines |-> IF lines[i].product = p THEN lines[i].qty ELSE 0])
Normalized(o) == [o EXCEPT !.lines = Lines(o)]

\* order_slots.py: what is still to be asked for; a parked order is completed by
\* a reply, whose regexes and model may find either; a new order takes over what
\* the parked one knows.
Missing(o) == Slots \ o.contact
FillFrom(o, found) == [o EXCEPT !.contact = @ \cup found]
CarryContact(o, from) == IF from = NoOrder THEN o ELSE FillFrom(o, from.contact)

OrderValue(o) == o.price * o.qty
\* Mutant: the value does not count.
TierOfUncapped(o) == IF tier = 1 /\ stock[o.product] < o.qty THEN 2 ELSE tier
\* _resolve_risk_tier and _tier1_eligibility; an order of tier 1 pauses like one
\* of tier 2 if the conversation is too long (COST_LIMIT).
TierOf(o) ==
  IF /\ tier = 1
     /\ \/ OrderValue(o) >= Tier1Max \/ Missing(o) # {} \/ stock[o.product] < o.qty
        \/ "cost" \in world.env
  THEN 2 ELSE tier

Abs(a, b) == IF a > b THEN a - b ELSE b - a
Stale(o) == Abs(price[o.product], o.approved) * 100 >= DeltaPercent * o.approved

Reading == [nego : BOOLEAN, cancel : BOOLEAN, modify : BOOLEAN,
            product : BOOLEAN, review : BOOLEAN]
\* Mutant: a quantity is no keyword of a change.
KeywordsNoQty(Q) ==
  [nego |-> "nego" \in Q, cancel |-> Q \cap {"nego", "cancel"} # {},
   modify |-> "product" \in Q, product |-> "product" \in Q, review |-> FALSE]
\* _keyword_classify_batch: patterns decide if one of them is a strong signal.
Keywords(Q) ==
  [nego |-> "nego" \in Q, cancel |-> Q \cap {"nego", "cancel"} # {},
   modify |-> Q \cap {"product", "qty"} # {}, product |-> "product" \in Q,
   review |-> FALSE]
Strong(Q) == \/ Q \cap {"nego", "cancel", "product"} # {}
             \/ "qty" \in Q
             \/ Q \subseteq {"confirm", "addon"} \/ Q = {"info"}
\* ... or else a language model, whose labels _postvalidate_llm_batch repairs:
\* a modification is then one of the product.
Readings(Q) == IF Strong(Q) THEN {Keywords(Q)}
               ELSE {r \in Reading : r.product = r.modify}

\* _resolve_new_product_from_modify and _extract_quantity, which may find
\* nothing: another product without items, contact or draft; another quantity
\* in the flat field; or the order as it is.
NewProduct(o, p) == [product |-> p, qty |-> o.qty, lines |-> <<>>, price |-> price[p],
                     approved |-> price[p], draft |-> None, contact |-> {}]
Requantified(o) == {o} \cup {[o EXCEPT !.qty = n] : n \in Quantity}
Modified(o, r) ==
  Requantified(o)
      \cup (IF r.product THEN {NewProduct(o, p) : p \in Product \ {o.product}} ELSE {})
-----------------------------------------------------------------------------
Init ==
  /\ price = InitPrice /\ stock = InitStock /\ tier \in 1..3 /\ world \in Worlds
  /\ node = "idle" /\ order = NoOrder /\ parked = NoOrder
  /\ approved = FALSE /\ count = 0 /\ queue = {} /\ draft = <<>>
  /\ shown = NoOrder /\ verdict = "none" /\ changed = FALSE
  /\ placed = NoOrder

Goto(n) == node' = n

\* A turn with an order: confidence_node builds order_info, or the router takes
\* the parked one up when the customer sends a phone or an address.  It stays
\* parked until the guard lets it go.
StartTurn(o) ==
  /\ node = "idle"
  /\ Len(draft) + MaxCount < MaxDrafts
  /\ order' = o /\ Goto("guard")
  /\ UNCHANGED <<catalog, approved, count, queue, draft, history>>
NewOrder(p, n, found) ==
  /\ StartTurn(CarryContact(
       [product |-> p, qty |-> n, lines |-> <<[product |-> p, qty |-> n]>>,
        price |-> price[p], approved |-> price[p], draft |-> None, contact |-> found],
       parked))
  /\ UNCHANGED parked
Unpark(found) ==
  /\ parked # NoOrder /\ found # {}
  /\ StartTurn(FillFrom(parked, found))
  /\ parked' = order'
-----------------------------------------------------------------------------
(* hitl_guard_node.                                                          *)

At(n) == node = n
Fresh == At("guard") /\ ~approved     \* the guard has not let this order pass

\* An approved state passes the guard.
SkipGuard ==
  /\ At("guard") /\ approved /\ Goto("answer")
  /\ UNCHANGED <<catalog, order, parked, approved, count, queue, draft, history>>

AskContact ==
  /\ Fresh /\ Missing(order) # {}
  /\ parked' = order /\ Goto("answer")
  /\ UNCHANGED <<catalog, order, approved, count, queue, draft, history>>

TooRisky ==
  /\ Fresh /\ Missing(order) = {} /\ TierOf(order) = 3
  /\ parked' = NoOrder /\ Goto("support")
  /\ UNCHANGED <<catalog, order, approved, count, queue, draft, history>>

\* Tier 1: on, as if approved.  It is also what a resumed guard does when the
\* score has fallen meanwhile, whatever was decided.
LetPass ==
  /\ approved' = TRUE /\ parked' = NoOrder /\ Goto("queue")
  /\ changed' = FALSE
  /\ UNCHANGED <<catalog, order, count, queue, draft, shown, placed>>
AutoApprove ==
  /\ Fresh /\ Missing(order) = {} /\ TierOf(order) = 1
  /\ LetPass /\ verdict' = "auto"

Maxed == count >= MaxCount
MaxReached ==
  /\ Fresh /\ Missing(order) = {} /\ TierOf(order) = 2 /\ Maxed
  /\ Goto("support")
  /\ UNCHANGED <<catalog, order, parked, approved, count, queue, draft, history>>

Withdraw(d, st) ==
  IF d # None /\ draft[d] = "pending" THEN [draft EXCEPT ![d] = st] ELSE draft

\* interrupt() fires before any update of the state: the id of the new draft is
\* not in the checkpoint.
PauseOrder ==
  /\ Fresh /\ Missing(order) = {} /\ TierOf(order) = 2 /\ ~Maxed
  /\ draft' = Append(Withdraw(order.draft, "superseded"), "pending")
  /\ shown' = Content(Normalized(order))
  /\ changed' = FALSE /\ verdict' = "none"
  /\ Goto("paused")
  /\ UNCHANGED <<catalog, order, parked, approved, count, queue, placed>>

\* The draft id a resumed guard reattaches, if the checkpoint has none.
Reattached ==
  IF order.draft # None THEN order.draft
  ELSE LET P == {d \in DOMAIN draft : draft[d] = "pending"}
       IN IF P = {} THEN None ELSE CHOOSE d \in P : \A e \in P : e <= d

\* Approval, with the price the administrator grants.
Approve(a) ==
  /\ At("paused") /\ TierOf(order) = 2
  /\ order' = [order EXCEPT !.draft = Reattached, !.approved = a]
  /\ approved' = TRUE /\ parked' = NoOrder
  /\ verdict' = "approve" /\ Goto("queue")
  /\ UNCHANGED <<catalog, count, queue, draft, shown, changed, placed>>

\* Mutant: the resumed run goes on as after an approval.
RejectToQueue ==
  /\ At("paused") /\ TierOf(order) = 2
  /\ count' = count + 1 /\ parked' = NoOrder
  /\ verdict' = "reject" /\ Goto("queue")
  /\ UNCHANGED <<catalog, order, approved, queue, draft, shown, changed, placed>>
Reject ==
  /\ At("paused") /\ TierOf(order) = 2
  /\ draft' = IF Reattached = None THEN draft
              ELSE [draft EXCEPT ![Reattached] = "cancelled"]
  /\ count' = count + 1 /\ parked' = NoOrder
  /\ verdict' = "reject" /\ Goto("support")
  /\ UNCHANGED <<catalog, order, approved, queue, shown, changed, placed>>

\* The decision is discarded: the guard, run again, takes another way.
DecideInVain(v) ==
  /\ At("paused") /\ TierOf(order) # 2
  /\ verdict' = v
  /\ IF TierOf(order) = 1 THEN LetPass
     ELSE /\ parked' = NoOrder /\ Goto("support")
          /\ UNCHANGED <<catalog, order, approved, count, queue, draft,
                         shown, changed, placed>>
-----------------------------------------------------------------------------
(* queue_consumer_node.                                                      *)

Drain(n) == At("queue") /\ queue' = {} /\ Goto(n)
ChangeAsked == changed' = (changed \/ queue \cap {"nego", "product", "qty"} # {})

NothingQueued ==
  /\ queue = {} /\ Drain("fresh")
  /\ UNCHANGED <<catalog, order, parked, approved, count, draft, history>>

\* Back to the guard with the order o, the approval taken back.
ReviewAgain(o) ==
  /\ Drain("guard")
  /\ order' = o /\ approved' = FALSE /\ count' = count + 1
  /\ ChangeAsked
  /\ UNCHANGED <<catalog, parked, draft, shown, verdict, placed>>

\* An offer: the price the customer names, if one can be read.
Offered(o) == {[o EXCEPT !.approved = a] : a \in Price}
Negotiate(r) ==
  /\ r.nego
  /\ \/ \E o \in Offered(order) : ReviewAgain(o)
     \/ /\ Drain("cancel")
        /\ UNCHANGED <<catalog, order, parked, approved, count, draft, history>>

CancelAsked(r) ==
  /\ ~r.nego /\ r.cancel /\ Drain("cancel")
  /\ UNCHANGED <<catalog, order, parked, approved, count, draft, history>>

\* Mutant: the approval holds for the changed order too.
ModifyKeepApproval(r) ==
  /\ ~r.nego /\ ~r.cancel /\ r.modify
  /\ Drain("fresh")
  /\ \E o \in Modified(order, r) : order' = o
  /\ ChangeAsked
  /\ UNCHANGED <<catalog, parked, approved, count, draft, shown, verdict, placed>>
Modify(r) ==
  /\ ~r.nego /\ ~r.cancel /\ r.modify
  /\ \E o \in Modified(order, r) : ReviewAgain(o)

Unclear(r) == ~r.nego /\ ~r.cancel /\ ~r.modify /\ r.review /\ ReviewAgain(order)

\* A consent, a question, or an extra product that joins the approved order.
Proceed(r) ==
  /\ ~r.nego /\ ~r.cancel /\ ~r.modify /\ ~r.review
  /\ Drain("fresh")
  /\ ChangeAsked
  /\ \/ order' = order
     \/ /\ "addon" \in queue
        /\ \E p \in Product, n \in Quantity :
             LET lines == Append(Lines(order), [product |-> p, qty |-> n])
             IN order' = [order EXCEPT !.lines = lines, !.qty = Units(lines)]
  /\ UNCHANGED <<catalog, parked, approved, count, draft, shown, verdict, placed>>

Consume ==
  \/ NothingQueued
  \/ queue # {} /\ \E r \in Readings(queue) :
       Negotiate(r) \/ CancelAsked(r) \/ Modify(r) \/ Unclear(r) \/ Proceed(r)
-----------------------------------------------------------------------------
(* state_freshness_validator_node, order_execution_node, cancellation_node,  *)
(* customer_support_node and the end of the turn.                            *)

OutOfStock ==
  /\ At("fresh") /\ stock[order.product] < UnitsOf(Lines(order), order.product)
  /\ Goto("support")
  /\ UNCHANGED <<catalog, order, parked, approved, count, queue, draft, history>>

InStock == stock[order.product] >= UnitsOf(Lines(order), order.product)

\* Mutant: the approval is taken back, the price left as it is.
StalePriceUnmarked ==
  /\ At("fresh") /\ InStock /\ Stale(order)
  /\ approved' = FALSE /\ Goto("guard")
  /\ UNCHANGED <<catalog, order, parked, count, queue, draft, history>>
StalePrice ==
  /\ At("fresh") /\ InStock /\ Stale(order)
  /\ order' = [order EXCEPT !.approved = price[order.product]]
  /\ Goto("guard")
  /\ UNCHANGED <<catalog, parked, approved, count, queue, draft, history>>

FreshEnough ==
  /\ At("fresh") /\ InStock /\ ~Stale(order)
  /\ Goto("execute")
  /\ UNCHANGED <<catalog, order, parked, approved, count, queue, draft, history>>

\* Mutant: only the product of the freshness check is looked at.
SellableMain == UnitsOf(Lines(order), order.product) <= stock[order.product]
Sellable == \A p \in Product : UnitsOf(Lines(order), p) <= stock[p]
Active == order.draft # None => draft[order.draft] = "pending"

PlaceOrder ==
  /\ At("execute") /\ Sellable /\ Active
  /\ stock' = [p \in Product |-> stock[p] - UnitsOf(Lines(order), p)]
  /\ draft' = IF order.draft = None THEN Append(draft, "confirmed")
              ELSE [draft EXCEPT ![order.draft] = "confirmed"]
  /\ placed' = Content(Normalized(order))
  /\ order' = Normalized(order)
  /\ Goto("answer")
  /\ UNCHANGED <<price, tier, world, parked, approved, count, queue, shown, verdict,
                 changed>>

SoldOut ==
  /\ At("execute") /\ ~Sellable /\ Goto("support")
  /\ UNCHANGED <<catalog, order, parked, approved, count, queue, draft, history>>

\* confirm_draft returns False; the customer is asked to confirm again.
Requote ==
  /\ At("execute") /\ Sellable /\ ~Active /\ Goto("answer")
  /\ UNCHANGED <<catalog, order, parked, approved, count, queue, draft, history>>

Cancel ==
  /\ At("cancel")
  /\ IF \E d \in DOMAIN draft : draft[d] = "confirmed"
     THEN Goto("support") /\ UNCHANGED draft
     ELSE /\ Goto("answer")
          /\ draft' = [d \in DOMAIN draft |->
                         IF draft[d] = "pending" THEN "cancelled" ELSE draft[d]]
  /\ parked' = NoOrder
  /\ UNCHANGED <<catalog, order, approved, count, queue, history>>

\* With a pause to escalate, the gateway keeps the session out for ever.
Support ==
  /\ At("support")
  /\ Goto(IF verdict \in {"approve", "reject"} THEN "closed" ELSE "answer")
  /\ UNCHANGED <<catalog, order, parked, approved, count, queue, draft, history>>

\* The end of the turn, with what make_initial_state resets before the next.
Answer ==
  /\ At("answer") /\ Goto("idle")
  /\ order' = NoOrder /\ approved' = FALSE /\ count' = 0
  /\ shown' = NoOrder /\ verdict' = "none" /\ changed' = FALSE
  /\ placed' = NoOrder
  /\ UNCHANGED <<catalog, parked, queue, draft>>
-----------------------------------------------------------------------------
Message(k) ==
  /\ At("paused") /\ queue' = queue \cup {k}
  /\ UNCHANGED <<catalog, node, order, parked, approved, count, draft, history>>

Market ==
  /\ \/ /\ "price" \in world.env
        /\ \E p \in Product, v \in Price : price' = [price EXCEPT ![p] = v]
        /\ UNCHANGED <<stock, tier>>
     \/ /\ "sell" \in world.env
        /\ \E p \in Product : stock[p] > 0 /\ stock' = [stock EXCEPT ![p] = @ - 1]
        /\ UNCHANGED <<price, tier>>
     \/ "risk" \in world.env /\ tier' \in 1..3 /\ UNCHANGED <<price, stock>>
  /\ UNCHANGED <<world, node, order, parked, approved, count, queue, draft, history>>

Turn ==
  \/ SkipGuard \/ AskContact \/ TooRisky \/ AutoApprove \/ MaxReached \/ PauseOrder
  \/ Consume \/ OutOfStock \/ StalePrice \/ FreshEnough
  \/ PlaceOrder \/ SoldOut \/ Requote \/ Cancel \/ Support \/ Answer
Customer == \/ \E p \in Product, n \in Quantity, found \in SUBSET Slots :
                 NewOrder(p, n, found)
            \/ \E found \in SUBSET Slots : Unpark(found)
            \/ \E k \in world.kinds : Message(k)
Admin == \/ \E a \in Price : Approve(a)
         \/ Reject
         \/ \E v \in {"approve", "reject"} : DecideInVain(v)

Next == Turn \/ Customer \/ Admin \/ Market
Spec == Init /\ [][Next]_vars
\* The graph runs on until it ends or interrupts.
LiveSpec == Spec /\ WF_vars(Turn)
-----------------------------------------------------------------------------
(* Properties.                                                               *)

Placing == placed = NoOrder /\ placed' # NoOrder

\* The checkpoint and the tables keep their shape; an order the graph works on
\* names a product.
TypeOK ==
  /\ price \in [Product -> Price] /\ stock \in [Product -> Nat] /\ tier \in 1..3
  /\ node \in {"idle", "guard", "paused", "queue", "fresh", "execute", "cancel",
               "support", "answer", "closed"}
  /\ order \in Order \cup {NoOrder} /\ (order = NoOrder <=> node = "idle")
  /\ parked \in Order \cup {NoOrder}
  /\ approved \in BOOLEAN /\ count \in Nat /\ queue \subseteq AllKinds
  /\ \A d \in DOMAIN draft :
       draft[d] \in {"pending", "confirmed", "cancelled", "superseded"}
  /\ Len(draft) <= MaxDrafts

\* Every order that is placed has a phone and an address, also one whose product
\* the customer changed during a review, which drops what was known.
PlacedHasContact == [][Placing => Missing(order) = {}]_vars

\* A customer who changed the order during the review has it reviewed, or judged
\* by the guard, again before anything is ordered.
ChangeIsJudged == [][Placing => ~changed]_vars

\* Nobody's approval is needed only below the cap: the safety invariant of
\* _resolve_risk_tier, through every change the customer makes.
AutoPlacedSmall ==
  [][Placing /\ verdict = "auto" => OrderValue(order) < Tier1Max]_vars

\* An order an administrator approved is placed as it was shown, but for the
\* price the approval grants and corrections of the price, and for the products
\* and quantities the customer adds meanwhile.
PlacedAsShown ==
  [][Placing /\ verdict = "approve" =>
       /\ IsPrefix([i \in DOMAIN shown.lines |-> shown.lines[i].product],
                   [i \in DOMAIN Lines(order) |-> Lines(order)[i].product])
       /\ world.kinds \cap {"qty", "addon"} = {} =>
            Lines(order) = shown.lines /\ order.qty = shown.qty]_vars

\* What an administrator rejected is not ordered, as long as the risk of the
\* customer stays what it was.
RejectedNotPlaced == [][Placing /\ "risk" \notin world.env => verdict # "reject"]_vars

\* The units taken from stock are the quantity the order states.
UnitsAsOrdered == placed # NoOrder => Units(placed.lines) = placed.qty

\* An approved order that reaches its execution has the draft the approval was
\* about, not one that this draft replaced.
ApprovedDraftActive ==
  At("execute") /\ verdict = "approve" => Active

\* An order that comes back to the guard, with a price that moved too far or a
\* change, is judged: paused, sent to support or let pass.  Only an order without
\* contact is answered at once.
BackIsJudged ==
  [][At("guard") /\ Missing(order) = {} => node' # "answer"]_vars

\* Every turn ends, waits for an administrator or is with support.
TurnEnds == node # "idle" ~> node \in {"idle", "paused", "closed"}
-----------------------------------------------------------------------------
(* What the source says of approvals and rejections, and additions and a      *)
(* risk that changes do not keep.                                             *)

\* queue_consumer.py: what is placed was shown.
PlacedWasShown ==
  [][Placing /\ verdict = "approve" =>
       Lines(order) = shown.lines /\ order.qty = shown.qty]_vars

\* hitl_guard.py: what was rejected is not ordered.
RejectedNeverPlaced == [][Placing => verdict # "reject"]_vars
=============================================================================
