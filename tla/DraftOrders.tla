----------------------------- MODULE DraftOrders ----------------------------
(***************************************************************************)
(* Draft orders and the stock they sell: graph runs of several sessions    *)
(* create a draft (superseding the one it replaces, and the oldest beyond  *)
(* a customer's cap), place an order, cancel, or reject, each in one       *)
(* PostgreSQL transaction under READ COMMITTED.                            *)
(*                                                                         *)
(* An action is one SQL statement.  An UPDATE waits while another          *)
(* transaction holds a row it matches, and looks at the row again when it  *)
(* gets it; a SELECT waits for nobody.  What a transaction has written and *)
(* not committed is in run[t].                                             *)
(***************************************************************************)
EXTENDS Naturals, Sequences, FiniteSets

CONSTANTS
  Session, Customer,
  CustomerOf,   \* the customer_id of a session
  Product,
  ItemsOf,      \* the lines of a session's orders: one unit of a product each
  Stock,        \* units of each product at the start
  Cap,          \* DRAFT_ORDER_CAP_PER_CUSTOMER
  Run,          \* graph runs, each with a database session of its own
  MaxDrafts,    \* bound: rows ever inserted in orders
  Env           \* what the environment may do, a subset of Features

Features ==
  { "overlap",  \* two runs of one session at a time
    "expire",   \* drafts grow older than DRAFT_ORDER_TTL_HOURS
    "fail" }    \* a statement may raise or time out

ASSUME CustomerOfAssumption == CustomerOf \in [Session -> Customer]
\* normalize_items makes a line of the flat fields when there are no items.
ASSUME ItemsOfAssumption == ItemsOf \in [Session -> Seq(Product) \ {<<>>}]
ASSUME StockAssumption == Stock \in [Product -> Nat]
ASSUME CapAssumption == Cap \in Nat \ {0}
ASSUME RunAssumption == IsFiniteSet(Run)
ASSUME MaxDraftsAssumption == MaxDrafts \in Nat
ASSUME EnvAssumption == Env \subseteq Features

Draft == 1..MaxDrafts
None == 0                              \* order_info names no draft

\* Mutant: an order that is confirmed counts as a draft.
ActiveAndConfirmed == {"pending", "confirmed"}
\* services/draft_orders.py:32; "pending" stands for draft and pending_review.
ActiveStatuses == {"pending"}
RowStatus == {"none", "pending", "confirmed", "cancelled", "superseded"}

VARIABLES
  stock,     \* products.stock_quantity, committed
  row,       \* orders.status, committed; "none" before the insert
  owner,     \* the sessions of the rows, in the order of created_at
  expired,   \* drafts up to this one are past their time to live
  run,       \* the runs' transactions
  sold,      \* history: units of each product in placed orders
  placed,    \* history: how often each row was placed
  met        \* history: customers two of whose runs were under way at once

vars == <<stock, row, owner, expired, run, sold, placed, met>>
history == <<sold, placed, met>>

\* held: order_info.draft_order_id.  todo: rows a started UPDATE has still to
\* visit.  line: the next item to take.  units, set: uncommitted writes to
\* products and orders.  touched: products whose rows are locked.
Transaction == [pc : {"supersede", "active", "flip", "lines", "confirm", "place",
                      "release", "look", "select", "cancel", "reject"},
                session : Session, held : 0..MaxDrafts, todo : SUBSET Draft,
                line : Nat \ {0}, units : [Product -> Nat],
                touched : SUBSET Product,
                set : [Draft -> RowStatus \cup {"unset"}]]
NoRun == [pc |-> "idle", touched |-> {}, set |-> [d \in Draft |-> "unset"]]
-----------------------------------------------------------------------------
(* What a statement sees, and whom it waits for.                            *)

Active(t) == run[t].pc # "idle"
ItemsIn(t) == ItemsOf[run[t].session]
Rows == {d \in Draft : d <= Len(owner)}
RowsOf(s) == {d \in Rows : owner[d] = s}
CustomersRows(s) == {d \in Rows : CustomerOf[owner[d]] = CustomerOf[s]}

\* A run sees what is committed, and its own writes.
View(t, d) == IF run[t].set[d] = "unset" THEN row[d] ELSE run[t].set[d]
Left(t, p) == stock[p] - run[t].units[p]

RowFree(t, d) == \A u \in Run \ {t} : run[u].set[d] = "unset"
ProductFree(t, p) == \A u \in Run \ {t} : p \notin run[u].touched

\* The rows the next statement of t may have to lock, and the runs that hold
\* all it could go on with.
Wanted(t) ==
  CASE run[t].pc \in {"supersede", "confirm", "reject"} -> {run[t].held}
    [] run[t].pc \in {"flip", "cancel"} -> run[t].todo
    [] OTHER -> {}
WaitsFor(t, u) ==
  \/ /\ Wanted(t) # {} /\ \A d \in Wanted(t) : ~RowFree(t, d)
     /\ \E d \in Wanted(t) : run[u].set[d] # "unset"
  \/ /\ run[t].pc = "lines" /\ run[t].line <= Len(ItemsIn(t))
     /\ ItemsIn(t)[run[t].line] \in run[u].touched
\* PostgreSQL aborts a transaction of a cycle of waiting ones.
Deadlocked(t) ==
  \E S \in SUBSET Run :
    /\ t \in S /\ Cardinality(S) > 1
    /\ \A u \in S : /\ \E v \in S \ {u} : WaitsFor(u, v)
                    /\ \E v \in S \ {u} : WaitsFor(v, u)

Goto(t, pc) == run' = [run EXCEPT ![t].pc = pc]
End(t) == run' = [run EXCEPT ![t] = NoRun]
Write(t, d, st, pc) == run' = [run EXCEPT ![t].set[d] = st, ![t].pc = pc]

\* The rows of orders once run t has committed.
Committed(t) == [d \in Draft |-> View(t, d)]
-----------------------------------------------------------------------------
Init ==
  /\ stock = Stock
  /\ row = [d \in Draft |-> "none"]
  /\ owner = <<>>
  /\ expired = 0
  /\ run = [t \in Run |-> NoRun]
  /\ sold = [p \in Product |-> 0]
  /\ placed = [d \in Draft |-> 0]
  /\ met = {}

\* A run of session s starts on an order_info that names row d of that session
\* or none; sessions are serial unless the environment lets runs overlap.
Begin(t, pc, s, d) ==
  /\ run[t].pc = "idle"
  /\ "overlap" \in Env \/ \A u \in Run : Active(u) => run[u].session # s
  /\ met' = IF \E u \in Run : Active(u) /\ CustomerOf[run[u].session] = CustomerOf[s]
            THEN met \cup {CustomerOf[s]} ELSE met
  /\ d = None \/ d \in RowsOf(s)
  /\ run' = [run EXCEPT ![t] =
       [pc |-> pc, session |-> s, held |-> d, todo |-> {}, line |-> 1,
        units |-> [p \in Product |-> 0], touched |-> {},
        set |-> [e \in Draft |-> "unset"]]]
  /\ UNCHANGED <<stock, row, owner, expired, sold, placed>>

\* The bound on rows: every run in flight may insert one.
Room == Len(owner) + Cardinality({u \in Run : Active(u)}) < MaxDrafts

BeginCreate(t, s, d) == Room /\ Begin(t, IF d = None THEN "active" ELSE "supersede", s, d)
BeginOrder(t, s, d) == (d = None => Room) /\ Begin(t, "lines", s, d)
BeginCancel(t, s) == Begin(t, "look", s, None)
\* The customer's runs never overlapped.
Serial(s) == CustomerOf[s] \notin met
\* The rejection of the pause that shows row d.  Nothing looks at the row; only
\* while runs do not overlap is the order of a pause under review not placed yet.
BeginReject(t, s, d) ==
  d # None /\ (row[d] = "confirmed" => ~Serial(s)) /\ Begin(t, "reject", s, d)
-----------------------------------------------------------------------------
(* create_draft.                                                            *)

\* UPDATE ... WHERE id = supersedes_id AND status IN active.
SupersedeHeld(t) ==
  LET d == run[t].held IN
  /\ run[t].pc = "supersede"
  /\ RowFree(t, d)
  /\ IF row[d] \in ActiveStatuses THEN Write(t, d, "superseded", "active") ELSE Goto(t, "active")
  /\ UNCHANGED <<stock, row, owner, expired, history>>

\* Mutant: the cap is compared with > where it needs >=.
OverflowLate(A) == {d \in A : Cardinality({e \in A : e < d}) + Cap < Cardinality(A)}
\* The oldest of A, as many as leave room for one more under the cap.
Overflow(A) == {d \in A : Cardinality({e \in A : e < d}) + Cap <= Cardinality(A)}

\* get_active_drafts: fresh pending rows of the customer.
ReadActive(t) ==
  LET A == {d \in CustomersRows(run[t].session) :
              View(t, d) \in ActiveStatuses /\ d > expired} \ {run[t].held}
  IN
  /\ run[t].pc = "active"
  /\ run' = [run EXCEPT ![t].pc = "flip", ![t].todo = Overflow(A)]
  /\ UNCHANGED <<stock, row, owner, expired, history>>

\* UPDATE ... WHERE id IN oldest_ids: whatever the rows are by now.
FlipOldest(t) ==
  /\ run[t].pc = "flip"
  /\ \E d \in run[t].todo :
       /\ RowFree(t, d)
       /\ run' = [run EXCEPT ![t].set[d] = "superseded", ![t].todo = @ \ {d}]
  /\ UNCHANGED <<stock, row, owner, expired, history>>

\* The insert, and the commit of _persist_pause.
InsertDraft(t) ==
  LET d == Len(owner) + 1 IN
  /\ run[t].pc = "flip" /\ run[t].todo = {}
  /\ row' = [Committed(t) EXCEPT ![d] = "pending"]
  /\ owner' = Append(owner, run[t].session)
  /\ End(t)
  /\ UNCHANGED <<stock, expired, history>>
-----------------------------------------------------------------------------
(* order_execution_node.                                                    *)

\* Mutant: UPDATE without the stock in its WHERE.
TakeLineUnchecked(t) ==
  LET p == ItemsIn(t)[run[t].line] IN
  /\ run[t].pc = "lines" /\ run[t].line <= Len(ItemsIn(t))
  /\ ProductFree(t, p)
  /\ run' = [run EXCEPT ![t].units[p] = @ + 1, ![t].touched = @ \cup {p},
                        ![t].line = @ + 1]
  /\ UNCHANGED <<stock, row, owner, expired, history>>

\* UPDATE products ... WHERE stock_quantity >= 1.
TakeLine(t) ==
  LET p == ItemsIn(t)[run[t].line] IN
  /\ run[t].pc = "lines" /\ run[t].line <= Len(ItemsIn(t))
  /\ ProductFree(t, p) /\ Left(t, p) >= 1
  /\ run' = [run EXCEPT ![t].units[p] = @ + 1, ![t].touched = @ \cup {p},
                        ![t].line = @ + 1]
  /\ UNCHANGED <<stock, row, owner, expired, history>>

\* Mutant: what was taken is not given back.
CompensateNothing(t) == Goto(t, "release")
\* Every unit taken is added back, in the same transaction.
Compensate(t) ==
  run' = [run EXCEPT ![t].pc = "release", ![t].units = [p \in Product |-> 0]]

SoldOut(t) ==
  LET p == ItemsIn(t)[run[t].line] IN
  /\ run[t].pc = "lines" /\ run[t].line <= Len(ItemsIn(t))
  /\ ProductFree(t, p) /\ Left(t, p) < 1
  /\ Compensate(t)
  /\ UNCHANGED <<stock, row, owner, expired, history>>

\* Mutant: confirm_draft does not look at the row.
CheckDraftAnyway(t) ==
  /\ run[t].pc = "lines" /\ run[t].line > Len(ItemsIn(t))
  /\ Goto(t, IF run[t].held = None THEN "place" ELSE "confirm")
  /\ UNCHANGED <<stock, row, owner, expired, history>>

\* confirm_draft reads the row: only an active, fresh one is confirmed.
CheckDraft(t) ==
  LET d == run[t].held IN
  /\ run[t].pc = "lines" /\ run[t].line > Len(ItemsIn(t))
  /\ IF d = None THEN Goto(t, "place")
     ELSE IF row[d] \in ActiveStatuses /\ d > expired THEN Goto(t, "confirm")
     ELSE Compensate(t)
  /\ UNCHANGED <<stock, row, owner, expired, history>>

\* ... and then writes it by its id alone.
ConfirmRow(t) ==
  /\ run[t].pc = "confirm"
  /\ RowFree(t, run[t].held)
  /\ Write(t, run[t].held, "confirmed", "place")
  /\ UNCHANGED <<stock, row, owner, expired, history>>

\* The commit; an order without a draft inserts its row before it.
Place(t) ==
  LET d == IF run[t].held = None THEN Len(owner) + 1 ELSE run[t].held IN
  /\ run[t].pc = "place"
  /\ stock' = [p \in Product |-> Left(t, p)]
  /\ row' = [Committed(t) EXCEPT ![d] = "confirmed"]
  /\ owner' = IF run[t].held = None THEN Append(owner, run[t].session) ELSE owner
  /\ sold' = [p \in Product |->
                sold[p] + Cardinality({i \in DOMAIN ItemsIn(t) : ItemsIn(t)[i] = p})]
  /\ placed' = [placed EXCEPT ![d] = @ + 1]
  /\ End(t)
  /\ UNCHANGED <<expired, met>>

\* A later node of the run commits what is left of the transaction.
Release(t) ==
  /\ run[t].pc = "release"
  /\ stock' = [p \in Product |-> Left(t, p)]
  /\ row' = Committed(t)
  /\ End(t)
  /\ UNCHANGED <<owner, expired, history>>
-----------------------------------------------------------------------------
(* cancellation_node, and the reject branch of hitl_guard_node.             *)

\* A confirmed order of the session is for support to cancel.
LookConfirmed(t) ==
  /\ run[t].pc = "look"
  /\ IF \E d \in RowsOf(run[t].session) : row[d] = "confirmed"
     THEN End(t) ELSE Goto(t, "select")
  /\ UNCHANGED <<stock, row, owner, expired, history>>

\* UPDATE ... WHERE session_id AND status IN active: the rows it finds ...
SelectDrafts(t) ==
  /\ run[t].pc = "select"
  /\ run' = [run EXCEPT ![t].pc = "cancel",
               ![t].todo = {d \in RowsOf(run[t].session) : row[d] \in ActiveStatuses}]
  /\ UNCHANGED <<stock, row, owner, expired, history>>

\* ... are cancelled one by one, if they still match.
CancelOne(t) ==
  /\ run[t].pc = "cancel"
  /\ \E d \in run[t].todo :
       /\ RowFree(t, d)
       /\ run' = [run EXCEPT ![t].todo = @ \ {d},
                    ![t].set[d] = IF row[d] \in ActiveStatuses THEN "cancelled" ELSE @]
  /\ UNCHANGED <<stock, row, owner, expired, history>>

CommitCancel(t) ==
  /\ run[t].pc = "cancel" /\ run[t].todo = {}
  /\ row' = Committed(t)
  /\ End(t)
  /\ UNCHANGED <<stock, owner, expired, history>>

\* UPDATE ... WHERE id = draft_order_id, whatever its status.
RejectRow(t) ==
  /\ run[t].pc = "reject"
  /\ RowFree(t, run[t].held)
  /\ Write(t, run[t].held, "cancelled", "release")
  /\ UNCHANGED <<stock, row, owner, expired, history>>
-----------------------------------------------------------------------------
\* A statement raises or times out: _fail and the handlers around the runs roll
\* back.
Fail(t) ==
  /\ "fail" \in Env /\ Active(t)
  /\ End(t)
  /\ UNCHANGED <<stock, row, owner, expired, history>>

\* Mutant: an order that lost a deadlock starts over.
VictimRetries(t) ==
  /\ Active(t) /\ Deadlocked(t)
  /\ IF run[t].pc = "lines"
     THEN run' = [run EXCEPT ![t].line = 1, ![t].touched = {},
                             ![t].units = [p \in Product |-> 0]]
     ELSE End(t)
  /\ UNCHANGED <<stock, row, owner, expired, history>>

\* PostgreSQL ends one of a cycle of waiting transactions; its run gives up.
Victim(t) ==
  /\ Active(t) /\ Deadlocked(t)
  /\ End(t)
  /\ UNCHANGED <<stock, row, owner, expired, history>>

\* The oldest row passes its time to live; the row itself is not written.
Expire ==
  /\ "expire" \in Env
  /\ expired < Len(owner)
  /\ expired' = expired + 1
  /\ UNCHANGED <<stock, row, owner, run, history>>

Start(t) ==
  \E s \in Session :
    \/ BeginCancel(t, s)
    \/ \E d \in 0..MaxDrafts :
         BeginCreate(t, s, d) \/ BeginOrder(t, s, d) \/ BeginReject(t, s, d)

Step(t) ==
  \/ SupersedeHeld(t) \/ ReadActive(t) \/ FlipOldest(t) \/ InsertDraft(t)
  \/ TakeLine(t) \/ SoldOut(t) \/ CheckDraft(t) \/ ConfirmRow(t) \/ Place(t)
  \/ Release(t)
  \/ LookConfirmed(t) \/ SelectDrafts(t) \/ CancelOne(t) \/ CommitCancel(t)
  \/ RejectRow(t)
  \/ Victim(t)

Next == Expire \/ \E t \in Run : Start(t) \/ Step(t) \/ Fail(t)

Spec == Init /\ [][Next]_vars

\* The event loop goes on with every run, and PostgreSQL hands a row to those
\* who wait for it in turn and breaks a deadlock after deadlock_timeout.  Nothing
\* has to fail.
LiveSpec == Spec /\ \A t \in Run : SF_vars(Step(t))
-----------------------------------------------------------------------------
(* Properties.                                                               *)

\* Committed tables and open transactions keep the shape of the schema; a
\* transaction that is not open has written nothing.
TypeOK ==
  /\ stock \in [Product -> Nat]
  /\ row \in [Draft -> RowStatus]
  /\ owner \in Seq(Session) /\ Len(owner) <= MaxDrafts
  /\ expired \in 0..MaxDrafts
  /\ run \in [Run -> Transaction \cup {NoRun}]
  /\ sold \in [Product -> Nat]
  /\ placed \in [Draft -> Nat]

\* Nothing is sold that was not in stock, and no unit gets lost: whatever fails
\* half-way through the lines of an order, the units taken are those of the
\* orders placed.
StockConserved == \A p \in Product : stock[p] >= 0 /\ stock[p] + sold[p] = Stock[p]

\* No row is placed twice, however runs are repeated.
PlacedOnce == \A d \in Draft : placed[d] <= 1

\* An order that was placed stays confirmed: no cancellation, rejection or
\* supersession by a later run takes it away.
PlacedStays ==
  \A d \in Rows : Serial(owner[d]) /\ placed[d] > 0 => row[d] = "confirmed"

\* Terms that were withdrawn, by the customer, by an administrator or by a newer
\* draft, are never ordered.
WithdrawnNotPlaced ==
  [][\A d \in Rows : Serial(owner[d]) /\ row[d] \in {"cancelled", "superseded"} =>
       placed'[d] = placed[d]]_vars

\* The drafts of a session's customer that can still be confirmed.
OpenDrafts(s) == {d \in CustomersRows(s) : row[d] = "pending" /\ d > expired}

\* A customer has at most Cap drafts that can still be confirmed.
CapHolds == \A s \in Session : Serial(s) => Cardinality(OpenDrafts(s)) <= Cap

\* Every run ends: runs that lock several rows in different orders do not wait
\* for each other for ever.
RunsEnd == \A t \in Run : run[t].pc # "idle" ~> run[t].pc = "idle"
-----------------------------------------------------------------------------
(* What the source says of every customer and overlapping runs do not keep.  *)

\* cancellation.py, draft_orders.py: only active drafts are withdrawn.
PlacedStaysAlways == \A d \in Draft : placed[d] > 0 => row[d] = "confirmed"

\* order_execution.py: a draft that is not active is not ordered.
WithdrawnNeverPlaced ==
  [][\A d \in Draft : row[d] \in {"cancelled", "superseded"} =>
       placed'[d] = placed[d]]_vars

\* draft_orders.py: the cap on a customer's drafts.
CapAlwaysHolds == \A s \in Session : Cardinality(OpenDrafts(s)) <= Cap
=============================================================================
