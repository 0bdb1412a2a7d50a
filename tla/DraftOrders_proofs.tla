------------------------- MODULE DraftOrders_proofs -------------------------
(***************************************************************************)
(* Theorems about DraftOrders, for every value of its constants.           *)
(***************************************************************************)
EXTENDS DraftOrders, FiniteSetTheorems, TLAPS

USE CustomerOfAssumption, ItemsOfAssumption, StockAssumption, CapAssumption,
    RunAssumption, MaxDraftsAssumption
-----------------------------------------------------------------------------
(* Transactions, and what a statement does to one.                           *)

Runs == [Run -> Transaction \cup {NoRun}]

LEMMA OpenTransaction ==
  ASSUME TypeOK, NEW t \in Run, Active(t)
  PROVE  run[t] \in Transaction
BY DEF TypeOK, Active, NoRun

\* A statement that leaves the writes of its transaction alone.
LEMMA GotoType ==
  ASSUME TypeOK, NEW t \in Run, Active(t),
         NEW pc \in {"active", "flip", "confirm", "place", "release", "select", "cancel"},
         Goto(t, pc)
  PROVE  /\ run' \in Runs
         /\ run'[t] = [run[t] EXCEPT !.pc = pc]
         /\ \A u \in Run \ {t} : run'[u] = run[u]
PROOF
<1>1. run[t] \in Transaction
  BY OpenTransaction
<1>2. [run[t] EXCEPT !.pc = pc] \in Transaction
  BY <1>1 DEF Transaction
<1> QED  BY <1>2 DEF TypeOK, Goto, Runs

LEMMA EndType ==
  ASSUME TypeOK, NEW t \in Run, End(t)
  PROVE  /\ run' \in Runs
         /\ run'[t] = NoRun
         /\ \A u \in Run \ {t} : run'[u] = run[u]
BY DEF TypeOK, End, Runs

LEMMA WriteType ==
  ASSUME TypeOK, NEW t \in Run, Active(t), NEW d \in Draft, NEW st \in RowStatus,
         NEW pc \in {"active", "place", "release"}, Write(t, d, st, pc)
  PROVE  /\ run' \in Runs
         /\ run'[t] = [run[t] EXCEPT !.set[d] = st, !.pc = pc]
         /\ \A u \in Run \ {t} : run'[u] = run[u]
PROOF
<1>1. run[t] \in Transaction
  BY OpenTransaction
<1>2. [run[t] EXCEPT !.set[d] = st, !.pc = pc] \in Transaction
  BY <1>1 DEF Transaction
<1> QED  BY <1>2 DEF TypeOK, Write, Runs
-----------------------------------------------------------------------------
(* The inductive invariant, part by part.                                    *)

\* A transaction touches rows of its customer only, and the row order_info
\* names is one of its session.
Owned(t) ==
  Active(t) =>
    /\ run[t].held = None \/ run[t].held \in RowsOf(run[t].session)
    /\ run[t].pc \in {"supersede", "confirm", "reject"} => run[t].held # None
    /\ run[t].todo \subseteq CustomersRows(run[t].session)
    /\ \A d \in Draft :
         run[t].set[d] # "unset" => d \in CustomersRows(run[t].session)

\* It withdraws rows, or confirms the one it is about to place.
Writes(t) ==
  \A d \in Draft :
    /\ run[t].set[d] \in {"unset", "superseded", "cancelled", "confirmed"}
    /\ run[t].set[d] = "confirmed" => run[t].pc = "place" /\ d = run[t].held

Ordering(t) == run[t].pc \in {"lines", "confirm", "place"}
LinesUpTo(items, n, p) == {i \in 1..n : items[i] = p}
LinesTaken(t, p) == LinesUpTo(ItemsIn(t), run[t].line - 1, p)

\* While it orders, it has taken a unit for each line so far, from rows it has
\* locked; otherwise it has taken none.
Taken(t) ==
  Active(t) =>
    /\ \A p \in Product : /\ run[t].units[p] <= stock[p]
                          /\ run[t].units[p] > 0 => p \in run[t].touched
                          /\ ~Ordering(t) => run[t].units[p] = 0
    /\ run[t].pc \in {"confirm", "place"} => run[t].line > Len(ItemsIn(t))
    /\ Ordering(t) =>
         /\ run[t].line <= Len(ItemsIn(t)) + 1
         /\ \A p \in Product : run[t].units[p] = Cardinality(LinesTaken(t, p))
         /\ \A i \in 1..(run[t].line - 1) : ItemsIn(t)[i] \in run[t].touched

\* Row locks are exclusive.
Exclusive == \A t, u \in Run : t # u => run[t].touched \cap run[u].touched = {}

\* The bound on rows: there is room for what the runs in flight may insert.
Inserts(t) == \/ run[t].pc \in {"supersede", "active", "flip"}
              \/ Ordering(t) /\ run[t].held = None
Inserting == {t \in Run : Inserts(t)}
RoomLeft == Len(owner) + Cardinality(Inserting) <= MaxDrafts

Typed == /\ TypeOK /\ RoomLeft /\ Exclusive
         /\ \A t \in Run : Owned(t) /\ Writes(t) /\ Taken(t)

\* A row that was placed is not pending again, and is not about to be placed.
PlacedRow(d) == placed[d] > 0 => d \in Rows /\ row[d] # "pending" /\ placed[d] = 1
ToPlace(t) ==
  run[t].pc \in {"confirm", "place"} /\ run[t].held # None => placed[run[t].held] = 0
Once == (\A d \in Draft : PlacedRow(d)) /\ (\A t \in Run : ToPlace(t))

\* Of a customer whose runs never overlapped, one run at most is under way.
SameCustomer(t, u) == CustomerOf[run[t].session] = CustomerOf[run[u].session]
Alone ==
  \A t, u \in Run :
    t # u /\ Active(t) /\ Active(u) /\ SameCustomer(t, u) => ~Serial(run[t].session)

\* Such a run withdraws only what was not placed, and places what is pending.
Careful(t) ==
  Active(t) /\ Serial(run[t].session) =>
    /\ \A d \in Draft : run[t].set[d] \in {"superseded", "cancelled"} => placed[d] = 0
    /\ \A d \in run[t].todo : row[d] = "pending"
    /\ run[t].pc = "reject" => placed[run[t].held] = 0
    /\ run[t].pc \in {"confirm", "place"} /\ run[t].held # None =>
         row[run[t].held] = "pending"
SerialInv == Alone /\ PlacedStays /\ \A t \in Run : Careful(t)

\* It has made room for its draft under the cap before it inserts it.
Kept(t) == {d \in CustomersRows(run[t].session) :
              /\ row[d] = "pending" /\ d > expired
              /\ run[t].set[d] = "unset" /\ d \notin run[t].todo}
MadeRoom(t) ==
  Active(t) /\ Serial(run[t].session) =>
    /\ run[t].pc = "active" /\ run[t].held # None => View(t, run[t].held) # "pending"
    /\ run[t].pc = "flip" => Cardinality(Kept(t)) < Cap
CapInv == CapHolds /\ \A t \in Run : MadeRoom(t)
-----------------------------------------------------------------------------
(* Typed is kept: what a step of one run leaves as it was for the others.    *)

Tables == <<stock, row, owner, expired, sold, placed>>

LEMMA RowsGrow ==
  ASSUME TypeOK, owner' = owner \/ \E s \in Session : owner' = Append(owner, s)
  PROVE  /\ Rows \subseteq Rows'
         /\ \A s \in Session : /\ RowsOf(s) \subseteq RowsOf(s)'
                               /\ CustomersRows(s) \subseteq CustomersRows(s)'
PROOF
<1>1. ASSUME NEW d \in Rows  PROVE d \in Rows' /\ owner'[d] = owner[d]
  <2>1. CASE owner' = owner
    BY <2>1 DEF Rows
  <2>2. ASSUME NEW s \in Session, owner' = Append(owner, s)
        PROVE  d \in Rows' /\ owner'[d] = owner[d]
    BY <2>2 DEF TypeOK, Rows, Draft
  <2> QED  BY <2>1, <2>2
<1> QED  BY <1>1 DEF RowsOf, CustomersRows

LEMMA OthersKeep ==
  ASSUME Typed, NEW t \in Run, NEW u \in Run \ {t}, run'[u] = run[u],
         owner' = owner \/ \E s \in Session : owner' = Append(owner, s),
         Active(u) => \A p \in Product : run[u].units[p] <= stock'[p]
  PROVE  Owned(u)' /\ Writes(u)' /\ Taken(u)'
PROOF
<1>1. Owned(u) /\ Writes(u) /\ Taken(u) /\ TypeOK
  BY DEF Typed
<1>2. Writes(u)'
  BY <1>1 DEF Writes
<1>3. Active(u)' <=> Active(u)
  BY DEF Active
<1>4. CASE ~Active(u)
  BY <1>2, <1>3, <1>4 DEF Owned, Taken
<1>5. CASE Active(u)
  <2>1. run[u].session \in Session
    BY <1>1, <1>5, OpenTransaction DEF Transaction
  <2>2. Owned(u)'
    BY <1>1, <1>3, <1>5, <2>1, RowsGrow DEF Owned
  <2>3. Taken(u)'
    BY <1>1, <1>3, <1>5 DEF Taken, Ordering, LinesTaken, ItemsIn
  <2> QED  BY <1>2, <2>2, <2>3
<1> QED  BY <1>4, <1>5

LEMMA InsertingFinite == IsFiniteSet(Inserting) /\ Cardinality(Inserting) \in Nat
BY FS_Subset, FS_CardinalityType DEF Inserting

\* A statement that writes nothing but its own transaction.
LEMMA TypedStatement ==
  ASSUME Typed, NEW t \in Run, run' \in Runs, \A u \in Run \ {t} : run'[u] = run[u],
         UNCHANGED Tables, (Inserts(t)' => Inserts(t)) \/ RoomLeft',
         \A u \in Run \ {t} : run'[t].touched \cap run[u].touched = {},
         Owned(t)', Writes(t)', Taken(t)'
  PROVE  Typed'
PROOF
<1>1. TypeOK'
  BY DEF Typed, TypeOK, Tables, Runs
<1>2. Exclusive'
  BY DEF Typed, Exclusive
<1>4. ASSUME Inserts(t)' => Inserts(t)
      PROVE  RoomLeft'
  <2>3. Inserting' \subseteq Inserting
    BY <1>4 DEF Inserting, Inserts, Ordering
  <2>1. Cardinality(Inserting') <= Cardinality(Inserting) /\ Cardinality(Inserting') \in Nat
    BY <2>3, InsertingFinite, FS_Subset, FS_CardinalityType
  <2> QED  BY <2>1, InsertingFinite DEF Typed, RoomLeft, Tables, TypeOK
<1>5. ASSUME NEW u \in Run \ {t}
      PROVE  Owned(u)' /\ Writes(u)' /\ Taken(u)'
  <2>1. Active(u) => \A p \in Product : run[u].units[p] <= stock'[p]
    BY DEF Typed, Taken, Tables
  <2> QED  BY <2>1, OthersKeep DEF Tables
<1>6. RoomLeft'
  BY <1>4
<1> QED  BY <1>1, <1>2, <1>5, <1>6 DEF Typed

\* A step that ends its transaction, with or without a new row.
LEMMA TypedEnd ==
  ASSUME Typed, NEW t \in Run, End(t),
         stock' \in [Product -> Nat], row' \in [Draft -> RowStatus],
         sold' \in [Product -> Nat], placed' \in [Draft -> Nat], expired' = expired,
         \A u \in Run \ {t} :
           Active(u) => \A p \in Product : run[u].units[p] <= stock'[p],
         \/ owner' = owner
         \/ Inserts(t) /\ \E s \in Session : owner' = Append(owner, s)
  PROVE  Typed'
PROOF
<1>1. TypeOK
  BY DEF Typed
<1>2. /\ run' \in Runs /\ run'[t] = NoRun
      /\ \A u \in Run \ {t} : run'[u] = run[u]
  BY <1>1, EndType
<1>3. ~Active(t)' /\ ~Inserts(t)'
  BY <1>2 DEF Active, NoRun, Inserts, Ordering
<1>4. Exclusive'
  <2> SUFFICES ASSUME NEW u \in Run, NEW v \in Run, u # v
               PROVE  run'[u].touched \cap run'[v].touched = {}
    BY DEF Exclusive
  <2>1. run'[t].touched = {}
    BY <1>2 DEF NoRun
  <2>2. run[u].touched \cap run[v].touched = {}
    BY DEF Typed, Exclusive
  <2> QED  BY <1>2, <2>1, <2>2
<1>5. Inserting' \subseteq Inserting \ {t}
  BY <1>2, <1>3 DEF Inserting, Inserts, Ordering
<1>6. /\ Cardinality(Inserting') \in Nat
      /\ Cardinality(Inserting') <= Cardinality(Inserting)
      /\ Inserts(t) => Cardinality(Inserting') <= Cardinality(Inserting) - 1
  <2>1. IsFiniteSet(Inserting \ {t})
    BY InsertingFinite, FS_Subset
  <2>2. /\ Cardinality(Inserting') \in Nat
        /\ Cardinality(Inserting') <= Cardinality(Inserting \ {t})
    BY <1>5, <2>1, FS_Subset, FS_CardinalityType
  <2>3. Cardinality(Inserting \ {t}) =
          IF t \in Inserting THEN Cardinality(Inserting) - 1 ELSE Cardinality(Inserting)
    BY InsertingFinite, FS_RemoveElement
  <2> QED  BY <2>2, <2>3, InsertingFinite DEF Inserting
<1>7. owner' \in Seq(Session) /\ Len(owner') \in Nat
      /\ (owner' = owner \/ (Len(owner') = Len(owner) + 1 /\ Inserts(t)))
  <2>1. owner \in Seq(Session)
    BY <1>1 DEF TypeOK
  <2>2. CASE owner' = owner
    BY <2>1, <2>2
  <2>3. ASSUME Inserts(t), NEW s \in Session, owner' = Append(owner, s)
        PROVE  owner' \in Seq(Session) /\ Len(owner') = Len(owner) + 1
    BY <2>1, <2>3
  <2> QED  BY <2>1, <2>2, <2>3
<1>8. RoomLeft'
  <2>1. Len(owner) \in Nat /\ Len(owner) + Cardinality(Inserting) <= MaxDrafts
    BY <1>1 DEF Typed, RoomLeft, TypeOK
  <2>2. CASE owner' = owner
    BY <1>6, <2>1, <2>2, InsertingFinite DEF RoomLeft
  <2>3. CASE Len(owner') = Len(owner) + 1 /\ Inserts(t)
    BY <1>6, <2>1, <2>3, InsertingFinite DEF RoomLeft
  <2> QED  BY <1>7, <2>2, <2>3
<1>9. TypeOK'
  BY <1>1, <1>2, <1>6, <1>7, <1>8 DEF TypeOK, RoomLeft, Runs
<1>10. Owned(t)' /\ Writes(t)' /\ Taken(t)'
  BY <1>2, <1>3 DEF Owned, Writes, Taken, NoRun
<1>11. ASSUME NEW u \in Run \ {t}
       PROVE  Owned(u)' /\ Writes(u)' /\ Taken(u)'
  BY <1>2, OthersKeep
<1> QED  BY <1>4, <1>8, <1>9, <1>10, <1>11 DEF Typed
-----------------------------------------------------------------------------
(* Typed is kept: statement by statement.                                    *)

LEMMA SupersedeHeldTyped ==
  ASSUME Typed, NEW t \in Run, SupersedeHeld(t)
  PROVE  Typed'
PROOF
<1> DEFINE d == run[t].held
<1>1. /\ Active(t) /\ run[t] \in Transaction /\ run[t].pc = "supersede" /\ UNCHANGED Tables
      /\ Write(t, d, "superseded", "active") \/ Goto(t, "active")
  BY OpenTransaction DEF Typed, SupersedeHeld, Active, Tables, history
<1>2. Owned(t) /\ Writes(t) /\ Taken(t) /\ TypeOK
  BY DEF Typed
<1>3. d \in RowsOf(run[t].session) /\ d \in Draft /\ d \in CustomersRows(run[t].session)
  BY <1>1, <1>2 DEF Owned, RowsOf, Rows, CustomersRows
<1>4. CASE Write(t, d, "superseded", "active")
  <2>1. /\ run' \in Runs
        /\ run'[t] = [run[t] EXCEPT !.set[d] = "superseded", !.pc = "active"]
        /\ \A u \in Run \ {t} : run'[u] = run[u]
    BY <1>1, <1>2, <1>3, <1>4, WriteType DEF RowStatus
  <2>2. /\ Inserts(t) /\ \A u \in Run \ {t} : run'[t].touched \cap run[u].touched = {}
    BY <1>1, <2>1 DEF Inserts, Typed, Exclusive, Transaction
  <2>3. Owned(t)' /\ Writes(t)' /\ Taken(t)'
    BY <1>1, <1>2, <1>3, <2>1 DEF Owned, Writes, Taken, Tables, Transaction, Active,
       Rows, RowsOf, CustomersRows, Ordering
  <2> QED  BY <1>1, <2>1, <2>2, <2>3, TypedStatement
<1>5. CASE Goto(t, "active")
  <2>1. /\ run' \in Runs
        /\ run'[t] = [run[t] EXCEPT !.pc = "active"]
        /\ \A u \in Run \ {t} : run'[u] = run[u]
    BY <1>1, <1>2, <1>5, GotoType
  <2>2. /\ Inserts(t) /\ \A u \in Run \ {t} : run'[t].touched \cap run[u].touched = {}
    BY <1>1, <2>1 DEF Inserts, Typed, Exclusive, Transaction
  <2>3. Owned(t)' /\ Writes(t)' /\ Taken(t)'
    BY <1>1, <1>2, <1>3, <2>1 DEF Owned, Writes, Taken, Tables, Transaction, Active,
       Rows, RowsOf, CustomersRows, Ordering
  <2> QED  BY <1>1, <2>1, <2>2, <2>3, TypedStatement
<1> QED  BY <1>1, <1>4, <1>5

LEMMA ReadActiveTyped ==
  ASSUME Typed, NEW t \in Run, ReadActive(t)
  PROVE  Typed'
PROOF
<1>1. /\ Active(t) /\ run[t] \in Transaction /\ run[t].pc = "active" /\ UNCHANGED Tables
      /\ \E D \in SUBSET CustomersRows(run[t].session) :
           run' = [run EXCEPT ![t].pc = "flip", ![t].todo = D]
  <2>1. Active(t) /\ run[t] \in Transaction /\ run[t].pc = "active" /\ UNCHANGED Tables
    BY OpenTransaction DEF Typed, ReadActive, Active, Tables, history
  <2>2. \A A : A \subseteq CustomersRows(run[t].session) =>
               Overflow(A) \subseteq CustomersRows(run[t].session)
    BY DEF Overflow
  <2> QED  BY <2>1, <2>2 DEF ReadActive
<1>2. Owned(t) /\ Writes(t) /\ Taken(t) /\ TypeOK
  BY DEF Typed
<1>3. PICK D \in SUBSET CustomersRows(run[t].session) :
        run' = [run EXCEPT ![t].pc = "flip", ![t].todo = D]
  BY <1>1
<1>4. D \subseteq Draft
  BY DEF CustomersRows, Rows
<1>5. [run[t] EXCEPT !.pc = "flip", !.todo = D] \in Transaction
  BY <1>1, <1>4 DEF Transaction
<1>6. /\ run' \in Runs
      /\ run'[t] = [run[t] EXCEPT !.pc = "flip", !.todo = D]
      /\ \A u \in Run \ {t} : run'[u] = run[u]
  BY <1>2, <1>3, <1>5 DEF Runs, TypeOK
<1>7. Inserts(t) /\ \A u \in Run \ {t} : run'[t].touched \cap run[u].touched = {}
  BY <1>1, <1>6 DEF Inserts, Typed, Exclusive, Transaction
<1>8. Owned(t)'
  <2>1. /\ run'[t].todo = D /\ run'[t].pc = "flip" /\ run'[t].held = run[t].held
        /\ run'[t].set = run[t].set /\ run'[t].session = run[t].session
    BY <1>1, <1>6 DEF Transaction
  <2>2. /\ RowsOf(run[t].session)' = RowsOf(run[t].session)
        /\ CustomersRows(run[t].session)' = CustomersRows(run[t].session)
    BY <1>1, <2>1 DEF Tables, Rows, RowsOf, CustomersRows
  <2> QED  BY <1>1, <1>2, <1>3, <2>1, <2>2 DEF Owned, Active
<1>9. Writes(t)' /\ Taken(t)'
  BY <1>1, <1>2, <1>6 DEF Writes, Taken, Tables, Transaction, Active, Ordering
<1> QED  BY <1>1, <1>6, <1>7, <1>8, <1>9, TypedStatement

LEMMA FlipOldestTyped ==
  ASSUME Typed, NEW t \in Run, FlipOldest(t)
  PROVE  Typed'
PROOF
<1>1. /\ Active(t) /\ run[t] \in Transaction /\ run[t].pc = "flip" /\ UNCHANGED Tables
  BY OpenTransaction DEF Typed, FlipOldest, Active, Tables, history
<1>2. Owned(t) /\ Writes(t) /\ Taken(t) /\ TypeOK
  BY DEF Typed
<1>3. PICK d \in run[t].todo :
        run' = [run EXCEPT ![t].set[d] = "superseded", ![t].todo = @ \ {d}]
  BY DEF FlipOldest
<1>4. d \in CustomersRows(run[t].session) /\ d \in Draft
  BY <1>1, <1>2, <1>3 DEF Owned, Transaction
<1>5. [run[t] EXCEPT !.set[d] = "superseded", !.todo = @ \ {d}] \in Transaction
  BY <1>1, <1>4 DEF Transaction, RowStatus
<1>6. /\ run' \in Runs
      /\ run'[t] = [run[t] EXCEPT !.set[d] = "superseded", !.todo = @ \ {d}]
      /\ \A u \in Run \ {t} : run'[u] = run[u]
  BY <1>2, <1>3, <1>5 DEF Runs, TypeOK
<1>7. Inserts(t) /\ \A u \in Run \ {t} : run'[t].touched \cap run[u].touched = {}
  BY <1>1, <1>6 DEF Inserts, Typed, Exclusive, Transaction
<1>8. Owned(t)' /\ Writes(t)' /\ Taken(t)'
  BY <1>1, <1>2, <1>4, <1>6 DEF Owned, Writes, Taken, Tables, Transaction, Active,
     Rows, RowsOf, CustomersRows, Ordering
<1> QED  BY <1>1, <1>6, <1>7, <1>8, TypedStatement

\* The lines taken so far, one by one.
LEMMA NoLines ==
  ASSUME NEW items, NEW p
  PROVE  Cardinality(LinesUpTo(items, 0, p)) = 0
PROOF
<1>1. LinesUpTo(items, 0, p) = {}
  BY DEF LinesUpTo
<1> QED  BY <1>1, FS_EmptySet

LEMMA NextLine ==
  ASSUME NEW items, NEW p, NEW n \in Nat \ {0}
  PROVE  /\ Cardinality(LinesUpTo(items, n - 1, p)) \in Nat
         /\ Cardinality(LinesUpTo(items, n, p)) =
              Cardinality(LinesUpTo(items, n - 1, p)) + (IF items[n] = p THEN 1 ELSE 0)
PROOF
<1> DEFINE L(k) == LinesUpTo(items, k, p)
<1>1. IsFiniteSet(1..(n - 1))
  BY FS_Interval
<1>2. IsFiniteSet(L(n - 1)) /\ Cardinality(L(n - 1)) \in Nat
  BY <1>1, FS_Subset, FS_CardinalityType DEF LinesUpTo
<1>3. CASE items[n] = p
  <2>1. L(n) = L(n - 1) \cup {n} /\ n \notin L(n - 1)
    BY <1>3 DEF LinesUpTo
  <2> QED  BY <1>2, <1>3, <2>1, FS_AddElement
<1>4. CASE items[n] # p
  <2>1. L(n) = L(n - 1)
    BY <1>4 DEF LinesUpTo
  <2> QED  BY <1>2, <1>4, <2>1
<1> QED  BY <1>3, <1>4

\* What TakeLine does: the n-th line takes a unit of p.
LineTaken(t, n, p) ==
  /\ run[t].pc = "lines" /\ n = run[t].line /\ n <= Len(ItemsIn(t)) /\ p = ItemsIn(t)[n]
  /\ ProductFree(t, p) /\ stock[p] - run[t].units[p] >= 1
  /\ run' = [run EXCEPT ![t].units[p] = @ + 1, ![t].touched = @ \cup {p}, ![t].line = @ + 1]

LEMMA TakeLineTyped ==
  ASSUME Typed, NEW t \in Run, TakeLine(t)
  PROVE  Typed'
PROOF
<1>1. /\ Active(t) /\ run[t] \in Transaction /\ run[t].pc = "lines" /\ UNCHANGED Tables
  BY OpenTransaction DEF Typed, TakeLine, Active, Tables, history
<1>2. Owned(t) /\ Writes(t) /\ Taken(t) /\ TypeOK
  BY DEF Typed
<1>3. /\ run[t].session \in Session /\ run[t].line \in Nat \ {0}
      /\ run[t].units \in [Product -> Nat] /\ run[t].touched \subseteq Product
  BY <1>1 DEF Transaction
<1>4. PICK n \in Nat \ {0}, p \in Product : LineTaken(t, n, p)
  <2>1. ItemsIn(t) \in Seq(Product)
    BY <1>3 DEF ItemsIn
  <2>2. run[t].line <= Len(ItemsIn(t))
    BY DEF TakeLine
  <2>3. ItemsIn(t)[run[t].line] \in Product
    BY <1>3, <2>1, <2>2
  <2> QED  BY <1>3, <2>3 DEF TakeLine, LineTaken, Left
<1>5. [run[t] EXCEPT !.units[p] = @ + 1, !.touched = @ \cup {p}, !.line = @ + 1]
         \in Transaction
  <2> DEFINE U == [run[t].units EXCEPT ![p] = @ + 1]
  <2>1. U \in [Product -> Nat]
    BY <1>3
  <2>2. PICK r \in Transaction : r = [run[t] EXCEPT !.units = U]
    BY <1>1, <2>1 DEF Transaction
  <2>3. PICK v \in Transaction : v = [r EXCEPT !.touched = run[t].touched \cup {p}]
    BY <1>3, <2>2 DEF Transaction
  <2>4. [v EXCEPT !.line = run[t].line + 1] \in Transaction
    <3>1. run[t].line + 1 \in Nat \ {0} /\ v \in Transaction
      BY <1>3, <2>3
    <3> QED  BY <3>1 DEF Transaction
  <2>5. [run[t] EXCEPT !.units[p] = @ + 1, !.touched = @ \cup {p}, !.line = @ + 1] =
          [v EXCEPT !.line = run[t].line + 1]
    BY <1>1, <2>2, <2>3 DEF Transaction
  <2> QED  BY <2>4, <2>5
<1>6. /\ run' \in Runs
      /\ run'[t] = [run[t] EXCEPT !.units[p] = @ + 1, !.touched = @ \cup {p},
                                  !.line = @ + 1]
      /\ \A u \in Run \ {t} : run'[u] = run[u]
  BY <1>2, <1>4, <1>5 DEF Runs, TypeOK, LineTaken
<1>7. /\ run'[t].touched = run[t].touched \cup {p} /\ run'[t].pc = "lines"
      /\ run'[t].held = run[t].held /\ run'[t].set = run[t].set
      /\ run'[t].todo = run[t].todo /\ run'[t].session = run[t].session
      /\ run'[t].line = n + 1
      /\ run'[t].units = [run[t].units EXCEPT ![p] = @ + 1]
  <2>1. run[t].line = n
    BY <1>4 DEF LineTaken
  <2> QED  BY <1>1, <1>6, <2>1 DEF Transaction
<1>8. /\ Inserts(t)' => Inserts(t)
      /\ \A u \in Run \ {t} : run'[t].touched \cap run[u].touched = {}
  BY <1>1, <1>4, <1>7 DEF Inserts, Ordering, Typed, Exclusive, ProductFree, LineTaken
<1>9. Owned(t)' /\ Writes(t)'
  BY <1>1, <1>2, <1>7 DEF Owned, Writes, Tables, Active,
     Rows, RowsOf, CustomersRows
<1>10. Taken(t)'
  <2>1. ItemsIn(t)' = ItemsIn(t) /\ run'[t].line - 1 = n
    BY <1>7 DEF ItemsIn
  <2>2. ASSUME NEW q \in Product
        PROVE  /\ run'[t].units[q] = run[t].units[q] + (IF q = p THEN 1 ELSE 0)
               /\ run[t].units[q] \in Nat
    BY <1>3, <1>7
  <2>3. ASSUME NEW q \in Product
        PROVE  run'[t].units[q] = Cardinality(LinesTaken(t, q)')
    <3>1. run[t].units[q] = Cardinality(LinesUpTo(ItemsIn(t), n - 1, q))
      BY <1>1, <1>2, <1>4 DEF Taken, Ordering, LinesTaken, LineTaken
    <3>2. Cardinality(LinesUpTo(ItemsIn(t), n, q)) =
            Cardinality(LinesUpTo(ItemsIn(t), n - 1, q))
              + (IF ItemsIn(t)[n] = q THEN 1 ELSE 0)
      BY <1>4, NextLine
    <3>3. LinesTaken(t, q)' = LinesUpTo(ItemsIn(t), n, q)
      BY <2>1 DEF LinesTaken, LinesUpTo
    <3>4. ItemsIn(t)[n] = q <=> q = p
      BY <1>4 DEF LineTaken
    <3> QED  BY <2>2, <3>1, <3>2, <3>3, <3>4
  <2>4. \A i \in 1..n : ItemsIn(t)[i] \in run'[t].touched
    <3>1. \A i \in 1..(n - 1) : ItemsIn(t)[i] \in run[t].touched
      BY <1>1, <1>2, <1>4 DEF Taken, Ordering, LineTaken
    <3>2. \A i \in 1..n : i \in 1..(n - 1) \/ i = n
      OBVIOUS
    <3> QED  BY <1>4, <1>7, <3>1, <3>2 DEF LineTaken
  <2>5. ASSUME NEW q \in Product
        PROVE  /\ run'[t].units[q] <= stock'[q]
               /\ run'[t].units[q] > 0 => q \in run'[t].touched
    <3>1. /\ run[t].units[q] <= stock[q] /\ stock'[q] = stock[q] /\ stock[q] \in Nat
          /\ run[t].units[q] > 0 => q \in run[t].touched
          /\ q = p => stock[q] - run[t].units[q] >= 1
      BY <1>1, <1>2, <1>4 DEF Taken, Tables, TypeOK, LineTaken
    <3> QED  BY <1>7, <2>2, <3>1
  <2>6. run'[t].line <= Len(ItemsIn(t)') + 1
    <3>1. n <= Len(ItemsIn(t)) /\ Len(ItemsIn(t)) \in Nat
      <4>1. ItemsIn(t) \in Seq(Product)
        BY <1>3 DEF ItemsIn
      <4> QED  BY <1>4, <4>1 DEF LineTaken
    <3> QED  BY <1>7, <2>1, <3>1
  <2> QED  BY <1>7, <2>1, <2>3, <2>4, <2>5, <2>6 DEF Taken, Ordering
<1> QED  BY <1>1, <1>6, <1>8, <1>9, <1>10, TypedStatement

LEMMA CompensateTyped ==
  ASSUME Typed, NEW t \in Run, run[t].pc = "lines", Compensate(t), UNCHANGED Tables
  PROVE  Typed'
PROOF
<1> DEFINE Z == [p \in Product |-> 0]
<1>1. Active(t) /\ run[t] \in Transaction
  BY OpenTransaction DEF Typed, Active
<1>2. Owned(t) /\ Writes(t) /\ Taken(t) /\ TypeOK
  BY DEF Typed
<1>3. [run[t] EXCEPT !.pc = "release", !.units = Z] \in Transaction
  BY <1>1 DEF Transaction
<1>4. /\ run' \in Runs
      /\ run'[t] = [run[t] EXCEPT !.pc = "release", !.units = Z]
      /\ \A u \in Run \ {t} : run'[u] = run[u]
  BY <1>2, <1>3 DEF Runs, TypeOK, Compensate
<1>5. ~Inserts(t)' /\ \A u \in Run \ {t} : run'[t].touched \cap run[u].touched = {}
  BY <1>1, <1>4 DEF Inserts, Ordering, Typed, Exclusive, Transaction
<1>6. Owned(t)'
  BY <1>1, <1>2, <1>4 DEF Owned, Tables, Transaction, Active, Rows, RowsOf, CustomersRows
<1>7. Writes(t)' /\ Taken(t)'
  BY <1>1, <1>2, <1>4 DEF Writes, Taken, TypeOK, Tables, Transaction, Ordering
<1> QED  BY <1>4, <1>5, <1>6, <1>7, TypedStatement

LEMMA SoldOutTyped ==
  ASSUME Typed, NEW t \in Run, SoldOut(t)
  PROVE  Typed'
BY CompensateTyped DEF SoldOut, Tables, history

LEMMA CheckDraftTyped ==
  ASSUME Typed, NEW t \in Run, CheckDraft(t)
  PROVE  Typed'
PROOF
<1>1. /\ run[t].pc = "lines" /\ run[t].line > Len(ItemsIn(t)) /\ UNCHANGED Tables
      /\ \/ Goto(t, "place") /\ run[t].held = None
         \/ Goto(t, "confirm") /\ run[t].held # None
         \/ Compensate(t)
  BY DEF CheckDraft, Tables, history
<1>2. Active(t) /\ run[t] \in Transaction
  BY <1>1, OpenTransaction DEF Typed, Active
<1>3. Owned(t) /\ Writes(t) /\ Taken(t) /\ TypeOK
  BY DEF Typed
<1>4. CASE Compensate(t)
  BY <1>1, <1>4, CompensateTyped
<1>5. ASSUME NEW pc \in {"place", "confirm"}, Goto(t, pc),
             pc = "confirm" => run[t].held # None
      PROVE  Typed'
  <2>1. /\ run' \in Runs
        /\ run'[t] = [run[t] EXCEPT !.pc = pc]
        /\ \A u \in Run \ {t} : run'[u] = run[u]
    BY <1>2, <1>3, <1>5, GotoType
  <2>2. /\ run'[t].pc = pc /\ run'[t].held = run[t].held /\ run'[t].set = run[t].set
        /\ run'[t].todo = run[t].todo /\ run'[t].session = run[t].session
        /\ run'[t].line = run[t].line /\ run'[t].units = run[t].units
        /\ run'[t].touched = run[t].touched
    BY <1>2, <2>1 DEF Transaction
  <2>3. /\ Inserts(t)' => Inserts(t)
        /\ \A u \in Run \ {t} : run'[t].touched \cap run[u].touched = {}
    BY <1>1, <2>2 DEF Inserts, Ordering, Typed, Exclusive
  <2>4. Owned(t)' /\ Writes(t)'
    BY <1>1, <1>2, <1>3, <1>5, <2>2 DEF Owned, Writes, Tables, Active,
       Rows, RowsOf, CustomersRows
  <2>5. Taken(t)'
    BY <1>1, <1>2, <1>3, <2>2 DEF Taken, Tables, Ordering, LinesTaken, ItemsIn
  <2> QED  BY <1>1, <2>1, <2>3, <2>4, <2>5, TypedStatement
<1> QED  BY <1>1, <1>4, <1>5

LEMMA ConfirmRowTyped ==
  ASSUME Typed, NEW t \in Run, ConfirmRow(t)
  PROVE  Typed'
PROOF
<1> DEFINE d == run[t].held
<1>1. /\ Active(t) /\ run[t] \in Transaction /\ run[t].pc = "confirm" /\ UNCHANGED Tables
      /\ Write(t, d, "confirmed", "place")
  BY OpenTransaction DEF Typed, ConfirmRow, Active, Tables, history
<1>2. Owned(t) /\ Writes(t) /\ Taken(t) /\ TypeOK
  BY DEF Typed
<1>3. d \in RowsOf(run[t].session) /\ d \in Draft /\ d \in CustomersRows(run[t].session)
  BY <1>1, <1>2 DEF Owned, RowsOf, Rows, CustomersRows
<1>4. /\ run' \in Runs
      /\ run'[t] = [run[t] EXCEPT !.set[d] = "confirmed", !.pc = "place"]
      /\ \A u \in Run \ {t} : run'[u] = run[u]
  <2>1. Write(t, d, "confirmed", "place") /\ Active(t) /\ "confirmed" \in RowStatus
    BY <1>1 DEF RowStatus
  <2> HIDE DEF d
  <2> QED  BY <1>2, <1>3, <2>1, WriteType
<1>5. /\ run'[t].pc = "place" /\ run'[t].held = d /\ run'[t].todo = run[t].todo
      /\ run'[t].set = [run[t].set EXCEPT ![d] = "confirmed"]
      /\ run'[t].session = run[t].session /\ run'[t].line = run[t].line
      /\ run'[t].units = run[t].units /\ run'[t].touched = run[t].touched
  BY <1>1, <1>4 DEF Transaction
<1>6. /\ Inserts(t)' => Inserts(t)
      /\ \A u \in Run \ {t} : run'[t].touched \cap run[u].touched = {}
  BY <1>1, <1>5 DEF Inserts, Ordering, Typed, Exclusive
<1>7. Owned(t)' /\ Writes(t)'
  BY <1>1, <1>2, <1>3, <1>5 DEF Owned, Writes, Tables, Active, Transaction,
     Rows, RowsOf, CustomersRows
<1>8. Taken(t)'
  BY <1>1, <1>2, <1>5 DEF Taken, Tables, Ordering, LinesTaken, ItemsIn
<1> QED  BY <1>1, <1>4, <1>6, <1>7, <1>8, TypedStatement

LEMMA RejectRowTyped ==
  ASSUME Typed, NEW t \in Run, RejectRow(t)
  PROVE  Typed'
PROOF
<1> DEFINE d == run[t].held
<1>1. /\ Active(t) /\ run[t] \in Transaction /\ run[t].pc = "reject" /\ UNCHANGED Tables
      /\ Write(t, d, "cancelled", "release")
  BY OpenTransaction DEF Typed, RejectRow, Active, Tables, history
<1>2. Owned(t) /\ Writes(t) /\ Taken(t) /\ TypeOK
  BY DEF Typed
<1>3. d \in RowsOf(run[t].session) /\ d \in Draft /\ d \in CustomersRows(run[t].session)
  BY <1>1, <1>2 DEF Owned, RowsOf, Rows, CustomersRows
<1>4. /\ run' \in Runs
      /\ run'[t] = [run[t] EXCEPT !.set[d] = "cancelled", !.pc = "release"]
      /\ \A u \in Run \ {t} : run'[u] = run[u]
  <2>1. Write(t, d, "cancelled", "release") /\ Active(t) /\ "cancelled" \in RowStatus
    BY <1>1 DEF RowStatus
  <2> HIDE DEF d
  <2> QED  BY <1>2, <1>3, <2>1, WriteType
<1>5. /\ run'[t].pc = "release" /\ run'[t].held = d /\ run'[t].todo = run[t].todo
      /\ run'[t].set = [run[t].set EXCEPT ![d] = "cancelled"]
      /\ run'[t].session = run[t].session /\ run'[t].line = run[t].line
      /\ run'[t].units = run[t].units /\ run'[t].touched = run[t].touched
  BY <1>1, <1>4 DEF Transaction
<1>6. ~Inserts(t)' /\ \A u \in Run \ {t} : run'[t].touched \cap run[u].touched = {}
  BY <1>1, <1>5 DEF Inserts, Ordering, Typed, Exclusive
<1>7. Owned(t)' /\ Writes(t)'
  BY <1>1, <1>2, <1>3, <1>5 DEF Owned, Writes, Tables, Active, Transaction,
     Rows, RowsOf, CustomersRows
<1>8. Taken(t)'
  BY <1>1, <1>2, <1>5 DEF Taken, Tables, Ordering
<1> QED  BY <1>1, <1>4, <1>6, <1>7, <1>8, TypedStatement

LEMMA LookConfirmedTyped ==
  ASSUME Typed, NEW t \in Run, LookConfirmed(t)
  PROVE  Typed'
PROOF
<1>1. /\ Active(t) /\ run[t] \in Transaction /\ run[t].pc = "look" /\ UNCHANGED Tables
      /\ End(t) \/ Goto(t, "select")
  BY OpenTransaction DEF Typed, LookConfirmed, Active, Tables, history
<1>2. Owned(t) /\ Writes(t) /\ Taken(t) /\ TypeOK
  BY DEF Typed
<1>3. CASE End(t)
  <2>1. \A u \in Run : Active(u) => \A p \in Product : run[u].units[p] <= stock'[p]
    BY <1>1 DEF Typed, Taken, Tables
  <2> QED  BY <1>1, <1>2, <1>3, <2>1, TypedEnd DEF Tables, TypeOK
<1>4. CASE Goto(t, "select")
  <2>1. /\ run' \in Runs
        /\ run'[t] = [run[t] EXCEPT !.pc = "select"]
        /\ \A u \in Run \ {t} : run'[u] = run[u]
    BY <1>1, <1>2, <1>4, GotoType
  <2>2. ~Inserts(t)' /\ \A u \in Run \ {t} : run'[t].touched \cap run[u].touched = {}
    BY <1>1, <2>1 DEF Inserts, Ordering, Typed, Exclusive, Transaction
  <2>3. Owned(t)' /\ Writes(t)' /\ Taken(t)'
    BY <1>1, <1>2, <2>1 DEF Owned, Writes, Taken, Tables, Transaction, Active,
       Rows, RowsOf, CustomersRows, Ordering
  <2> QED  BY <1>1, <2>1, <2>2, <2>3, TypedStatement
<1> QED  BY <1>1, <1>3, <1>4

LEMMA SelectDraftsTyped ==
  ASSUME Typed, NEW t \in Run, SelectDrafts(t)
  PROVE  Typed'
PROOF
<1>1. PICK D \in SUBSET RowsOf(run[t].session) :
        /\ Active(t) /\ run[t] \in Transaction /\ run[t].pc = "select" /\ UNCHANGED Tables
        /\ run' = [run EXCEPT ![t].pc = "cancel", ![t].todo = D]
  BY OpenTransaction DEF Typed, SelectDrafts, Active, Tables, history
<1>2. Owned(t) /\ Writes(t) /\ Taken(t) /\ TypeOK
  BY DEF Typed
<1>3. D \subseteq Draft /\ D \subseteq CustomersRows(run[t].session)
  BY <1>1 DEF RowsOf, CustomersRows, Rows
<1>4. [run[t] EXCEPT !.pc = "cancel", !.todo = D] \in Transaction
  BY <1>1, <1>3 DEF Transaction
<1>5. /\ run' \in Runs
      /\ run'[t] = [run[t] EXCEPT !.pc = "cancel", !.todo = D]
      /\ \A u \in Run \ {t} : run'[u] = run[u]
  BY <1>1, <1>2, <1>4 DEF Runs, TypeOK
<1>6. /\ run'[t].todo = D /\ run'[t].pc = "cancel" /\ run'[t].held = run[t].held
      /\ run'[t].set = run[t].set /\ run'[t].session = run[t].session
      /\ run'[t].units = run[t].units /\ run'[t].touched = run[t].touched
  <2>1. /\ run[t] \in Transaction
        /\ run'[t] = [run[t] EXCEPT !.pc = "cancel", !.todo = D]
    BY <1>1, <1>5
  <2> QED  BY <2>1 DEF Transaction
<1>7. ~Inserts(t)' /\ \A u \in Run \ {t} : run'[t].touched \cap run[u].touched = {}
  BY <1>1, <1>6 DEF Inserts, Ordering, Typed, Exclusive
<1>8. Owned(t)'
  <2>1. /\ RowsOf(run[t].session)' = RowsOf(run[t].session)
        /\ CustomersRows(run[t].session)' = CustomersRows(run[t].session)
    BY <1>1, <1>6 DEF Tables, Rows, RowsOf, CustomersRows
  <2> QED  BY <1>1, <1>2, <1>3, <1>6, <2>1 DEF Owned, Active
<1>9. Writes(t)' /\ Taken(t)'
  BY <1>1, <1>2, <1>6 DEF Writes, Taken, Tables, Active, Ordering
<1> QED  BY <1>1, <1>5, <1>7, <1>8, <1>9, TypedStatement

LEMMA CancelOneTyped ==
  ASSUME Typed, NEW t \in Run, CancelOne(t)
  PROVE  Typed'
PROOF
<1>1. /\ Active(t) /\ run[t] \in Transaction /\ run[t].pc = "cancel" /\ UNCHANGED Tables
  BY OpenTransaction DEF Typed, CancelOne, Active, Tables, history
<1>2. Owned(t) /\ Writes(t) /\ Taken(t) /\ TypeOK
  BY DEF Typed
<1>3. PICK d \in run[t].todo :
        \E st \in {"cancelled", run[t].set[d]} :
          run' = [run EXCEPT ![t].todo = @ \ {d}, ![t].set[d] = st]
  BY DEF CancelOne
<1>4. d \in CustomersRows(run[t].session) /\ d \in Draft
  BY <1>1, <1>2, <1>3 DEF Owned, Transaction
<1>5. PICK st \in {"cancelled", run[t].set[d]} :
        run' = [run EXCEPT ![t].todo = @ \ {d}, ![t].set[d] = st]
  BY <1>3
<1>6. [run[t] EXCEPT !.todo = @ \ {d}, !.set[d] = st] \in Transaction
  BY <1>1, <1>4, <1>5 DEF Transaction, RowStatus
<1>7. /\ run' \in Runs
      /\ run'[t] = [run[t] EXCEPT !.todo = @ \ {d}, !.set[d] = st]
      /\ \A u \in Run \ {t} : run'[u] = run[u]
  BY <1>2, <1>5, <1>6 DEF Runs, TypeOK
<1>8. /\ run'[t].todo = run[t].todo \ {d} /\ run'[t].pc = "cancel"
      /\ run'[t].held = run[t].held
      /\ run'[t].set = [run[t].set EXCEPT ![d] = st] /\ run'[t].session = run[t].session
      /\ run'[t].units = run[t].units /\ run'[t].touched = run[t].touched
  BY <1>1, <1>7 DEF Transaction
<1>9. ~Inserts(t)' /\ \A u \in Run \ {t} : run'[t].touched \cap run[u].touched = {}
  BY <1>1, <1>8 DEF Inserts, Ordering, Typed, Exclusive
<1>10. Owned(t)'
  <2>1. /\ RowsOf(run[t].session)' = RowsOf(run[t].session)
        /\ CustomersRows(run[t].session)' = CustomersRows(run[t].session)
    BY <1>1, <1>8 DEF Tables, Rows, RowsOf, CustomersRows
  <2> QED  BY <1>1, <1>2, <1>4, <1>8, <2>1 DEF Owned, Active, Transaction
<1>11. Writes(t)'
  <2>1. \A e \in Draft : run'[t].set[e] \in {"cancelled", run[t].set[e]}
    BY <1>1, <1>4, <1>5, <1>8 DEF Transaction
  <2> QED  BY <1>1, <1>2, <1>8, <2>1 DEF Writes
<1>12. Taken(t)'
  BY <1>1, <1>2, <1>8 DEF Taken, Tables, Active, Ordering
<1> QED  BY <1>1, <1>7, <1>9, <1>10, <1>11, <1>12, TypedStatement

\* A transaction that has taken no unit leaves the stock as it is.
LEMMA NothingTaken ==
  ASSUME Typed, NEW t \in Run, Active(t), ~Ordering(t)
  PROVE  [p \in Product |-> Left(t, p)] = stock
PROOF
<1>1. run[t] \in Transaction /\ stock \in [Product -> Nat]
  BY OpenTransaction DEF Typed, TypeOK
<1>2. \A p \in Product : run[t].units[p] = 0
  BY DEF Typed, Taken
<1>3. \A p \in Product : Left(t, p) = stock[p]
  BY <1>1, <1>2 DEF Left
<1> QED  BY <1>1, <1>3

LEMMA CommittedType ==
  ASSUME Typed, NEW t \in Run, Active(t)
  PROVE  Committed(t) \in [Draft -> RowStatus]
PROOF
<1>1. run[t] \in Transaction /\ row \in [Draft -> RowStatus]
  BY OpenTransaction DEF Typed, TypeOK
<1>2. \A d \in Draft : View(t, d) \in RowStatus
  BY <1>1 DEF View, Transaction
<1> QED  BY <1>2 DEF Committed

\* A step that ends a transaction and leaves the stock as it is.
LEMMA TypedEndIdle ==
  ASSUME Typed, NEW t \in Run, End(t), row' \in [Draft -> RowStatus], stock' = stock,
         UNCHANGED <<sold, placed, expired>>,
         \/ owner' = owner
         \/ Inserts(t) /\ \E s \in Session : owner' = Append(owner, s)
  PROVE  Typed'
PROOF
<1>1. \A u \in Run : Active(u) => \A p \in Product : run[u].units[p] <= stock'[p]
  BY DEF Typed, Taken
<1>2. /\ stock' \in [Product -> Nat] /\ sold' \in [Product -> Nat]
      /\ placed' \in [Draft -> Nat] /\ expired' = expired
  BY DEF Typed, TypeOK
<1> QED  BY <1>1, <1>2, TypedEnd

LEMMA InsertDraftTyped ==
  ASSUME Typed, NEW t \in Run, InsertDraft(t)
  PROVE  Typed'
PROOF
<1>1. Active(t) /\ Inserts(t) /\ run[t].pc = "flip"
  BY DEF InsertDraft, Active, Inserts
<1>2. run[t].session \in Session /\ Committed(t) \in [Draft -> RowStatus]
  BY <1>1, CommittedType, OpenTransaction DEF Typed, Transaction
<1>3. row' \in [Draft -> RowStatus]
  BY <1>2 DEF InsertDraft, RowStatus
<1> QED  BY <1>1, <1>2, <1>3, TypedEndIdle DEF InsertDraft, history

LEMMA ReleaseTyped ==
  ASSUME Typed, NEW t \in Run, Release(t)
  PROVE  Typed' /\ stock' = stock
PROOF
<1>1. Active(t) /\ ~Ordering(t)
  BY DEF Release, Active, Ordering
<1>2. stock' = stock /\ row' \in [Draft -> RowStatus]
  BY <1>1, NothingTaken, CommittedType DEF Release
<1> QED  BY <1>2, TypedEndIdle DEF Release, history

LEMMA CommitCancelTyped ==
  ASSUME Typed, NEW t \in Run, CommitCancel(t)
  PROVE  Typed'
PROOF
<1>1. row' \in [Draft -> RowStatus]
  BY CommittedType DEF CommitCancel, Active
<1> QED  BY <1>1, TypedEndIdle DEF CommitCancel, history

\* A run is rolled back, and a statement of it or its roll-back.
Rollback(t) == Victim(t) \/ Fail(t)
AnyStep(t) == Step(t) \/ Fail(t)

LEMMA RollbackTyped ==
  ASSUME Typed, NEW t \in Run, Rollback(t)
  PROVE  Typed'
PROOF
<1>1. row' \in [Draft -> RowStatus]
  BY DEF Rollback, Victim, Fail, Typed, TypeOK
<1> QED  BY <1>1, TypedEndIdle DEF Rollback, Victim, Fail, history

\* An order is placed with all its lines taken.
LEMMA PlacedLines ==
  ASSUME Typed, NEW t \in Run, run[t].pc = "place", NEW p \in Product
  PROVE  Cardinality({i \in DOMAIN ItemsIn(t) : ItemsIn(t)[i] = p}) = run[t].units[p]
PROOF
<1>1. Active(t) /\ run[t] \in Transaction /\ Taken(t)
  BY OpenTransaction DEF Typed, Active
<1>2. run[t].session \in Session /\ run[t].line \in Nat \ {0}
  BY <1>1 DEF Transaction
<1>3. ItemsIn(t) \in Seq(Product)
  BY <1>2 DEF ItemsIn
<1>4. /\ run[t].line > Len(ItemsIn(t)) /\ run[t].line <= Len(ItemsIn(t)) + 1
      /\ run[t].units[p] = Cardinality(LinesUpTo(ItemsIn(t), run[t].line - 1, p))
  BY <1>1 DEF Taken, Ordering, LinesTaken
<1>5. run[t].line - 1 = Len(ItemsIn(t)) /\ DOMAIN ItemsIn(t) = 1..Len(ItemsIn(t))
  BY <1>2, <1>3, <1>4
<1>6. {i \in DOMAIN ItemsIn(t) : ItemsIn(t)[i] = p} =
        LinesUpTo(ItemsIn(t), run[t].line - 1, p)
  BY <1>5 DEF LinesUpTo
<1> QED  BY <1>4, <1>6

\* There is a row for a draft that is about to be inserted.
LEMMA RoomForOne ==
  ASSUME Typed, NEW t \in Run, Inserts(t)
  PROVE  Len(owner) + 1 \in Draft /\ owner \in Seq(Session)
PROOF
<1>1. t \in Inserting /\ Cardinality(Inserting) # 0
  BY InsertingFinite, FS_EmptySet DEF Inserting
<1>2. owner \in Seq(Session) /\ Len(owner) + Cardinality(Inserting) <= MaxDrafts
  BY DEF Typed, TypeOK, RoomLeft
<1> QED  BY <1>1, <1>2, InsertingFinite DEF Draft

PlacedId(t) == IF run[t].held = None THEN Len(owner) + 1 ELSE run[t].held

LEMMA PlaceEffect ==
  ASSUME Typed, NEW t \in Run, Place(t)
  PROVE  /\ run[t] \in Transaction /\ PlacedId(t) \in Draft
         /\ \A p \in Product : /\ stock'[p] = stock[p] - run[t].units[p]
                               /\ sold'[p] = sold[p] + run[t].units[p]
                               /\ stock'[p] \in Nat /\ run[t].units[p] \in Nat
         /\ stock' \in [Product -> Nat] /\ sold' \in [Product -> Nat]
         /\ row' = [Committed(t) EXCEPT ![PlacedId(t)] = "confirmed"]
         /\ row' \in [Draft -> RowStatus]
         /\ placed' = [placed EXCEPT ![PlacedId(t)] = @ + 1]
         /\ placed' \in [Draft -> Nat]
PROOF
<1>1. /\ Active(t) /\ run[t] \in Transaction /\ Taken(t) /\ Owned(t) /\ TypeOK
      /\ run[t].pc = "place"
  BY OpenTransaction DEF Typed, Active, Place
<1>2. ASSUME NEW p \in Product
      PROVE  /\ run[t].units[p] \in Nat /\ run[t].units[p] <= stock[p] /\ stock[p] \in Nat
             /\ sold[p] \in Nat
             /\ stock'[p] = stock[p] - run[t].units[p]
             /\ sold'[p] = sold[p] + run[t].units[p]
  <2>1. run[t].units[p] \in Nat /\ run[t].units[p] <= stock[p] /\ stock[p] \in Nat
        /\ sold[p] \in Nat
    BY <1>1 DEF Taken, Transaction, TypeOK
  <2>2. stock'[p] = stock[p] - run[t].units[p]
    BY DEF Place, Left
  <2>3. sold'[p] = sold[p] + Cardinality({i \in DOMAIN ItemsIn(t) : ItemsIn(t)[i] = p})
    BY DEF Place
  <2> QED  BY <1>1, <2>1, <2>2, <2>3, PlacedLines
<1>3. ASSUME NEW p \in Product
      PROVE  stock'[p] \in Nat /\ sold'[p] \in Nat
  <2>1. /\ run[t].units[p] \in Nat /\ run[t].units[p] <= stock[p] /\ stock[p] \in Nat
        /\ sold[p] \in Nat /\ stock'[p] = stock[p] - run[t].units[p]
        /\ sold'[p] = sold[p] + run[t].units[p]
    BY <1>2
  <2> QED  BY <2>1
<1>4. stock' \in [Product -> Nat] /\ sold' \in [Product -> Nat]
  BY <1>3 DEF Place
<1>5. PlacedId(t) \in Draft
  <2>1. CASE run[t].held = None
    BY <1>1, <2>1, RoomForOne DEF PlacedId, Inserts, Ordering
  <2>2. CASE run[t].held # None
    BY <1>1, <2>2 DEF PlacedId, Owned, RowsOf, Rows
  <2> QED  BY <2>1, <2>2
<1>6. /\ row' = [Committed(t) EXCEPT ![PlacedId(t)] = "confirmed"]
      /\ placed' = [placed EXCEPT ![PlacedId(t)] = @ + 1]
  BY DEF Place, PlacedId
<1>7. row' \in [Draft -> RowStatus]
  <2>1. Committed(t) \in [Draft -> RowStatus]
    BY <1>1, CommittedType
  <2> QED  BY <1>6, <2>1 DEF RowStatus
<1>8. placed' \in [Draft -> Nat]
  BY <1>1, <1>5, <1>6 DEF TypeOK
<1> QED  BY <1>1, <1>2, <1>3, <1>4, <1>5, <1>6, <1>7, <1>8

LEMMA PlaceTyped ==
  ASSUME Typed, NEW t \in Run, Place(t)
  PROVE  Typed'
PROOF
<1>1. /\ Active(t) /\ run[t] \in Transaction /\ Taken(t) /\ run[t].pc = "place" /\ End(t)
      /\ expired' = expired
  BY OpenTransaction DEF Typed, Active, Place
<1>2. ASSUME NEW u \in Run \ {t}, Active(u), NEW p \in Product
      PROVE  run[u].units[p] <= stock'[p]
  <2>1. /\ run[u] \in Transaction /\ run[u].units[p] \in Nat /\ run[u].units[p] <= stock[p]
        /\ run[u].units[p] > 0 => p \in run[u].touched
    BY <1>2, OpenTransaction DEF Typed, Taken, Transaction
  <2>2. run[t].units[p] \in Nat /\ run[t].units[p] > 0 => p \in run[t].touched
    BY <1>1 DEF Taken, Transaction
  <2>3. p \notin run[u].touched \/ p \notin run[t].touched
    BY DEF Typed, Exclusive
  <2>4. stock'[p] = stock[p] - run[t].units[p] /\ stock'[p] \in Nat /\ run[t].units[p] \in Nat
        /\ stock[p] \in Nat
    BY PlaceEffect DEF Typed, TypeOK
  <2> QED  BY <2>1, <2>2, <2>3, <2>4
<1>3. \/ owner' = owner
      \/ Inserts(t) /\ \E s \in Session : owner' = Append(owner, s)
  BY <1>1 DEF Place, Inserts, Ordering, Transaction
<1> QED  BY <1>1, <1>2, <1>3, PlaceEffect, TypedEnd
-----------------------------------------------------------------------------
(* Typed is kept: a run that starts, and time.                               *)

LEMMA RoomForAll ==
  ASSUME Typed, NEW t \in Run, Room, Inserting' \subseteq Inserting \cup {t},
         owner' = owner
  PROVE  RoomLeft'
PROOF
<1> DEFINE A == {u \in Run : Active(u)}
<1>1. IsFiniteSet(A) /\ Cardinality(A) \in Nat
  BY FS_Subset, FS_CardinalityType
<1>2. Inserting \subseteq A
  BY DEF Inserting, Inserts, Ordering, Active
<1>3. IsFiniteSet(A \cup {t}) /\ Cardinality(A \cup {t}) <= Cardinality(A) + 1
      /\ Cardinality(A \cup {t}) \in Nat
  <2>1. /\ IsFiniteSet(A \cup {t})
        /\ Cardinality(A \cup {t}) \in {Cardinality(A), Cardinality(A) + 1}
    BY <1>1, FS_AddElement
  <2> QED  BY <1>1, <2>1
<1>4. Cardinality(Inserting') <= Cardinality(A \cup {t}) /\ Cardinality(Inserting') \in Nat
  <2>1. Inserting' \subseteq A \cup {t}
    BY <1>2
  <2> QED  BY <1>3, <2>1, FS_Subset, FS_CardinalityType
<1>5. Len(owner) + Cardinality(A) < MaxDrafts /\ Len(owner) \in Nat
  BY DEF Room, Typed, TypeOK
<1> QED  BY <1>1, <1>3, <1>4, <1>5 DEF RoomLeft

LEMMA BeginTyped ==
  ASSUME Typed, NEW t \in Run, NEW s \in Session, NEW d \in 0..MaxDrafts,
         NEW pc \in {"supersede", "active", "lines", "look", "reject"},
         Begin(t, pc, s, d), pc \in {"supersede", "reject"} => d # None,
         pc \in {"supersede", "active"} \/ (pc = "lines" /\ d = None) => Room
  PROVE  Typed'
PROOF
<1> DEFINE r == [pc |-> pc, session |-> s, held |-> d, todo |-> {}, line |-> 1,
                 units |-> [p \in Product |-> 0], touched |-> {},
                 set |-> [e \in Draft |-> "unset"]]
<1>1. r \in Transaction
  BY DEF Transaction
<1>2. /\ run' \in Runs /\ run'[t] = r
      /\ \A u \in Run \ {t} : run'[u] = run[u]
  BY <1>1 DEF Begin, Runs, Typed, TypeOK
<1>3. UNCHANGED Tables /\ (d = None \/ d \in RowsOf(s)) /\ ~Active(t) /\ TypeOK
  BY DEF Begin, Tables, Active, Typed
<1>4. /\ run'[t].pc = pc /\ run'[t].session = s /\ run'[t].held = d /\ run'[t].todo = {}
      /\ run'[t].line = 1 /\ run'[t].touched = {}
      /\ \A p \in Product : run'[t].units[p] = 0
      /\ \A e \in Draft : run'[t].set[e] = "unset"
  BY <1>2
<1> HIDE DEF r
<1>5. (Inserts(t)' => Inserts(t)) \/ RoomLeft'
  <2>1. CASE ~Inserts(t)'
    BY <2>1
  <2>2. CASE Inserts(t)'
    <3>1. Room
      BY <1>4, <2>2 DEF Inserts, Ordering
    <3>2. Inserting' \subseteq Inserting \cup {t}
      BY <1>2 DEF Inserting, Inserts, Ordering
    <3> QED  BY <1>3, <3>1, <3>2, RoomForAll DEF Tables
  <2> QED  BY <2>1, <2>2
<1>6. Owned(t)' /\ Writes(t)'
  BY <1>3, <1>4 DEF Owned, Writes, Tables, RowsOf, Rows
<1>7. Taken(t)'
  <2>1. \A p \in Product : run'[t].units[p] <= stock'[p]
    BY <1>3, <1>4 DEF TypeOK, Tables
  <2>2. ItemsIn(t)' \in Seq(Product)
    BY <1>4 DEF ItemsIn
  <2>3. \A p \in Product : Cardinality(LinesTaken(t, p)') = 0
    BY <1>4, NoLines DEF LinesTaken
  <2> QED  BY <1>4, <2>1, <2>2, <2>3 DEF Taken, Ordering
<1>8. \A u \in Run \ {t} : run'[t].touched \cap run[u].touched = {}
  BY <1>4
<1> QED  BY <1>2, <1>3, <1>5, <1>6, <1>7, <1>8, TypedStatement

LEMMA StartTyped ==
  ASSUME Typed, NEW t \in Run, Start(t)
  PROVE  Typed'
PROOF
<1>1. ASSUME NEW s \in Session, NEW d \in 0..MaxDrafts,
             BeginCreate(t, s, d) \/ BeginOrder(t, s, d) \/ BeginReject(t, s, d)
      PROVE  Typed'
  BY <1>1, BeginTyped DEF BeginCreate, BeginOrder, BeginReject
<1>2. ASSUME NEW s \in Session, BeginCancel(t, s)
      PROVE  Typed'
  BY <1>2, BeginTyped DEF BeginCancel, None
<1> QED  BY <1>1, <1>2 DEF Start

LEMMA ExpireTyped ==
  ASSUME Typed, Expire
  PROVE  Typed'
PROOF
<1>1. UNCHANGED <<stock, row, owner, run, sold, placed>> /\ TypeOK' /\ TypeOK
  <2>1. UNCHANGED <<stock, row, owner, run, sold, placed>> /\ TypeOK
    BY DEF Expire, history, Typed
  <2>2. expired' \in 0..MaxDrafts
    BY <2>1 DEF Expire, TypeOK
  <2> QED  BY <2>1, <2>2 DEF TypeOK
<1>2. RoomLeft' /\ Exclusive'
  BY <1>1 DEF Typed, RoomLeft, Inserting, Inserts, Ordering, Exclusive
<1>3. ASSUME NEW u \in Run
      PROVE  Owned(u)' /\ Writes(u)' /\ Taken(u)'
  BY <1>1 DEF Typed, Owned, Writes, Taken, Active, Ordering, LinesTaken, ItemsIn,
     RowsOf, CustomersRows, Rows
<1> QED  BY <1>1, <1>2, <1>3 DEF Typed

LEMMA TypedInit ==
  ASSUME Init
  PROVE  Typed
PROOF
<1>1. TypeOK
  BY DEF Init, TypeOK, RowStatus
<1>2. /\ \A t \in Run : ~Active(t) /\ ~Inserts(t) /\ run[t] = NoRun
      /\ owner = <<>>
  BY DEF Init, Active, NoRun, Inserts, Ordering
<1>3. RoomLeft
  <2>1. Inserting = {}
    BY <1>2 DEF Inserting
  <2> QED  BY <1>2, <2>1, FS_EmptySet DEF RoomLeft
<1>4. Exclusive /\ \A t \in Run : Owned(t) /\ Writes(t) /\ Taken(t)
  BY <1>2 DEF Exclusive, Owned, Writes, Taken, NoRun
<1> QED  BY <1>1, <1>3, <1>4 DEF Typed

LEMMA TypedStep ==
  ASSUME Typed, [Next]_vars
  PROVE  Typed'
PROOF
<1>1. CASE UNCHANGED vars
  BY <1>1 DEF vars, Typed, TypeOK, RoomLeft, Inserting, Inserts, Ordering, Exclusive,
     Owned, Writes, Taken, Active, LinesTaken, ItemsIn, RowsOf, CustomersRows, Rows
<1>2. CASE Expire
  BY <1>2, ExpireTyped
<1>3. ASSUME NEW t \in Run, Start(t)  PROVE Typed'
  BY <1>3, StartTyped
<1>4. ASSUME NEW t \in Run, AnyStep(t)  PROVE Typed'
  BY <1>4, SupersedeHeldTyped, ReadActiveTyped, FlipOldestTyped, InsertDraftTyped,
     TakeLineTyped, SoldOutTyped, CheckDraftTyped, ConfirmRowTyped, PlaceTyped,
     ReleaseTyped, LookConfirmedTyped, SelectDraftsTyped, CancelOneTyped,
     CommitCancelTyped, RejectRowTyped, RollbackTyped DEF AnyStep, Step, Rollback
<1> QED  BY <1>1, <1>2, <1>3, <1>4 DEF Next, AnyStep

\* The tables and the open transactions keep their shape, a transaction touches
\* rows of its own customer only, has taken a unit for each line so far from
\* rows it has locked, and there is room for what the runs in flight insert.
THEOREM TypedAlways == Spec => []Typed
PROOF
<1> QED  BY TypedInit, TypedStep, PTL DEF Spec

\* Committed tables and open transactions keep the shape of the schema.
THEOREM TypeCorrect == Spec => []TypeOK
PROOF
<1>1. Typed => TypeOK
  BY DEF Typed
<1> QED  BY <1>1, TypedAlways, PTL
-----------------------------------------------------------------------------
(* The stock.                                                                *)

LEMMA StockStep ==
  ASSUME Typed, StockConserved, [Next]_vars
  PROVE  StockConserved'
PROOF
<1>1. CASE stock' = stock /\ sold' = sold
  BY <1>1 DEF StockConserved
<1>2. ASSUME NEW t \in Run, Place(t)
      PROVE  StockConserved'
  <2>1. \A p \in Product : /\ stock'[p] = stock[p] - run[t].units[p]
                           /\ sold'[p] = sold[p] + run[t].units[p]
                           /\ stock'[p] \in Nat /\ run[t].units[p] \in Nat
    BY <1>2, PlaceEffect
  <2>2. ASSUME NEW p \in Product
        PROVE  stock'[p] >= 0 /\ stock'[p] + sold'[p] = Stock[p]
    <3>1. stock[p] \in Nat /\ sold[p] \in Nat /\ stock[p] + sold[p] = Stock[p]
      BY DEF Typed, TypeOK, StockConserved
    <3> QED  BY <2>1, <3>1
  <2> QED  BY <2>2 DEF StockConserved
<1>3. ASSUME NEW t \in Run, Release(t)
      PROVE  stock' = stock /\ sold' = sold
  BY <1>3, ReleaseTyped DEF Release, history
<1>4. ASSUME NEW t \in Run, Start(t)
      PROVE  stock' = stock /\ sold' = sold
  BY <1>4 DEF Start, BeginCreate, BeginOrder, BeginReject, BeginCancel, Begin
<1>5. ASSUME NEW t \in Run, AnyStep(t)
      PROVE  (stock' = stock /\ sold' = sold) \/ Place(t) \/ Release(t)
  BY <1>5 DEF AnyStep, Step, SupersedeHeld, ReadActive, FlipOldest, InsertDraft, TakeLine, SoldOut,
     CheckDraft, ConfirmRow, LookConfirmed, SelectDrafts, CancelOne, CommitCancel,
     RejectRow, Victim, Fail, history
<1> QED  BY <1>1, <1>2, <1>3, <1>4, <1>5 DEF Next, AnyStep, Expire, history, vars

\* Nothing is sold that was not in stock, and no unit gets lost, whatever fails
\* half-way through the lines of an order (order_execution.py).
THEOREM StockIsConserved == Spec => []StockConserved
PROOF
<1>1. Init => StockConserved
  BY DEF Init, StockConserved
<1> QED  BY <1>1, StockStep, TypedAlways, PTL DEF Spec
-----------------------------------------------------------------------------
(* What each step does to its transaction.                                   *)

\* A statement of an open transaction, and one that ends it.
Statement(t, pc, todo, set) ==
  /\ Active(t) /\ Active(t)'
  /\ run'[t].session = run[t].session /\ run'[t].held = run[t].held
  /\ run'[t].pc = pc /\ run'[t].todo = todo /\ run'[t].set = set
  /\ \A u \in Run \ {t} : run'[u] = run[u]
  /\ UNCHANGED <<Tables, met>>
Ended(t) ==
  /\ Active(t) /\ run'[t] = NoRun /\ \A u \in Run \ {t} : run'[u] = run[u]
  /\ UNCHANGED <<expired, met>>

LEMMA GotoEffect ==
  ASSUME Typed, NEW t \in Run, Active(t),
         NEW pc \in {"active", "confirm", "place", "select"}, Goto(t, pc), UNCHANGED <<Tables, met>>
  PROVE  Statement(t, pc, run[t].todo, run[t].set)
PROOF
<1>1. run[t] \in Transaction /\ run \in Runs
  BY OpenTransaction DEF Typed, TypeOK, Runs
<1> QED  BY <1>1 DEF Goto, Statement, Active, Transaction, Runs

LEMMA SupersedeHeldEffect ==
  ASSUME Typed, NEW t \in Run, SupersedeHeld(t)
  PROVE  /\ run[t].pc = "supersede" /\ run[t].held \in Draft
         /\ row[run[t].held] # "pending" =>
              Statement(t, "active", run[t].todo, run[t].set)
         /\ row[run[t].held] = "pending" =>
              Statement(t, "active", run[t].todo,
                        [run[t].set EXCEPT ![run[t].held] = "superseded"])
PROOF
<1>1. /\ Active(t) /\ run[t] \in Transaction /\ run \in Runs /\ Owned(t)
      /\ run[t].pc = "supersede"
  BY OpenTransaction DEF Typed, TypeOK, SupersedeHeld, Active, Runs
<1>2. run[t].held \in Draft
  BY <1>1 DEF Owned, RowsOf, Rows
<1>3. CASE row[run[t].held] # "pending"
  <2>1. Goto(t, "active") /\ UNCHANGED <<Tables, met>>
    BY <1>3 DEF SupersedeHeld, ActiveStatuses, Tables, history
  <2> QED  BY <1>1, <1>2, <1>3, <2>1, GotoEffect
<1>4. CASE row[run[t].held] = "pending"
  BY <1>1, <1>4 DEF SupersedeHeld, ActiveStatuses, Write, Statement, Active, Tables, history,
     Transaction, Runs
<1> QED  BY <1>1, <1>2, <1>3, <1>4

\* The rows get_active_drafts returns, without the one that is replaced.
Found(t) == {d \in CustomersRows(run[t].session) :
               View(t, d) \in ActiveStatuses /\ d > expired} \ {run[t].held}

LEMMA ReadActiveEffect ==
  ASSUME Typed, NEW t \in Run, ReadActive(t)
  PROVE  run[t].pc = "active" /\ Statement(t, "flip", Overflow(Found(t)), run[t].set)
PROOF
<1>1. /\ Active(t) /\ run[t] \in Transaction /\ run \in Runs /\ run[t].pc = "active"
  BY OpenTransaction DEF Typed, TypeOK, ReadActive, Active, Runs
<1>2. PICK D : D = Overflow(Found(t))
  OBVIOUS
<1>3. run' = [run EXCEPT ![t].pc = "flip", ![t].todo = D] /\ UNCHANGED <<Tables, met>>
  BY <1>2 DEF ReadActive, Found, Tables, history
<1>4. Statement(t, "flip", D, run[t].set)
  BY <1>1, <1>3 DEF Statement, Active, Transaction, Runs
<1> QED  BY <1>1, <1>2, <1>4

LEMMA FlipOldestEffect ==
  ASSUME Typed, NEW t \in Run, FlipOldest(t)
  PROVE  /\ run[t].pc = "flip"
         /\ \E d \in run[t].todo :
              d \in Draft /\ Statement(t, "flip", run[t].todo \ {d},
                                       [run[t].set EXCEPT ![d] = "superseded"])
PROOF
<1>1. /\ Active(t) /\ run[t] \in Transaction /\ run \in Runs /\ run[t].pc = "flip"
  BY OpenTransaction DEF Typed, TypeOK, FlipOldest, Active, Runs
<1>2. PICK d \in run[t].todo :
        run' = [run EXCEPT ![t].set[d] = "superseded", ![t].todo = @ \ {d}]
  BY DEF FlipOldest
<1>3. d \in Draft /\ UNCHANGED <<Tables, met>>
  BY <1>1, <1>2 DEF Transaction, FlipOldest, Tables, history
<1>4. Statement(t, "flip", run[t].todo \ {d}, [run[t].set EXCEPT ![d] = "superseded"])
  BY <1>1, <1>2, <1>3 DEF Statement, Active, Transaction, Runs
<1> QED  BY <1>1, <1>2, <1>3, <1>4

LEMMA InsertDraftEffect ==
  ASSUME Typed, NEW t \in Run, InsertDraft(t)
  PROVE  /\ Ended(t) /\ run[t].pc = "flip" /\ run[t].todo = {}
         /\ Len(owner) + 1 \in Draft /\ run[t].session \in Session
         /\ row' = [Committed(t) EXCEPT ![Len(owner) + 1] = "pending"]
         /\ owner' = Append(owner, run[t].session) /\ placed' = placed
PROOF
<1>1. Active(t) /\ Inserts(t) /\ run[t] \in Transaction
  BY OpenTransaction DEF Typed, InsertDraft, Active, Inserts
<1> QED  BY <1>1, RoomForOne, EndType DEF Typed, InsertDraft, Ended, history, Transaction

LEMMA TakeLineEffect ==
  ASSUME Typed, NEW t \in Run, TakeLine(t)
  PROVE  run[t].pc = "lines" /\ Statement(t, "lines", run[t].todo, run[t].set)
PROOF
<1>1. /\ Active(t) /\ run[t] \in Transaction /\ run \in Runs /\ run[t].pc = "lines"
  BY OpenTransaction DEF Typed, TypeOK, TakeLine, Active, Runs
<1>2. PICK p : run' = [run EXCEPT ![t].units[p] = @ + 1, ![t].touched = @ \cup {p},
                                  ![t].line = @ + 1]
  BY DEF TakeLine
<1>3. UNCHANGED <<Tables, met>>
  BY DEF TakeLine, Tables, history
<1> QED  BY <1>1, <1>2, <1>3 DEF Statement, Active, Transaction, Runs

LEMMA CompensateEffect ==
  ASSUME Typed, NEW t \in Run, run[t].pc = "lines", Compensate(t),
         UNCHANGED <<Tables, met>>
  PROVE  Statement(t, "release", run[t].todo, run[t].set)
PROOF
<1>1. Active(t) /\ run[t] \in Transaction /\ run \in Runs
  BY OpenTransaction DEF Typed, TypeOK, Active, Runs
<1> QED  BY <1>1 DEF Compensate, Statement, Active, Transaction, Runs

LEMMA SoldOutEffect ==
  ASSUME Typed, NEW t \in Run, SoldOut(t)
  PROVE  run[t].pc = "lines" /\ Statement(t, "release", run[t].todo, run[t].set)
BY CompensateEffect DEF SoldOut, Tables, history

LEMMA CheckDraftEffect ==
  ASSUME Typed, NEW t \in Run, CheckDraft(t)
  PROVE  /\ run[t].pc = "lines"
         /\ \/ run[t].held = None /\ Statement(t, "place", run[t].todo, run[t].set)
            \/ /\ run[t].held # None /\ row[run[t].held] = "pending"
               /\ Statement(t, "confirm", run[t].todo, run[t].set)
            \/ Statement(t, "release", run[t].todo, run[t].set)
PROOF
<1>1. run[t].pc = "lines" /\ Active(t) /\ UNCHANGED <<Tables, met>>
  BY DEF CheckDraft, Active, Tables, history
<1>2. \/ run[t].held = None /\ Goto(t, "place")
      \/ run[t].held # None /\ row[run[t].held] = "pending" /\ Goto(t, "confirm")
      \/ Compensate(t)
  BY DEF CheckDraft, ActiveStatuses
<1> QED  BY <1>1, <1>2, GotoEffect, CompensateEffect

LEMMA WriteEffect ==
  ASSUME Typed, NEW t \in Run, Active(t), NEW d \in Draft, NEW st,
         NEW pc \in {"place", "release"}, Write(t, d, st, pc), UNCHANGED <<Tables, met>>
  PROVE  Statement(t, pc, run[t].todo, [run[t].set EXCEPT ![d] = st])
PROOF
<1>1. run[t] \in Transaction /\ run \in Runs
  BY OpenTransaction DEF Typed, TypeOK, Runs
<1> QED  BY <1>1 DEF Write, Statement, Active, Transaction, Runs

LEMMA ConfirmRowEffect ==
  ASSUME Typed, NEW t \in Run, ConfirmRow(t)
  PROVE  /\ run[t].pc = "confirm" /\ run[t].held \in Draft /\ run[t].held # None
         /\ Statement(t, "place", run[t].todo,
                      [run[t].set EXCEPT ![run[t].held] = "confirmed"])
PROOF
<1>1. /\ run[t].pc = "confirm" /\ Active(t) /\ Owned(t) /\ UNCHANGED <<Tables, met>>
      /\ Write(t, run[t].held, "confirmed", "place")
  BY DEF ConfirmRow, Active, Tables, history, Typed
<1>2. run[t].held \in Draft /\ run[t].held # None
  BY <1>1 DEF Owned, RowsOf, Rows
<1> QED  BY <1>1, <1>2, WriteEffect

LEMMA RejectRowEffect ==
  ASSUME Typed, NEW t \in Run, RejectRow(t)
  PROVE  /\ run[t].pc = "reject" /\ run[t].held \in Draft
         /\ Statement(t, "release", run[t].todo,
                      [run[t].set EXCEPT ![run[t].held] = "cancelled"])
PROOF
<1>1. /\ run[t].pc = "reject" /\ Active(t) /\ Owned(t) /\ UNCHANGED <<Tables, met>>
      /\ Write(t, run[t].held, "cancelled", "release")
  BY DEF RejectRow, Active, Tables, history, Typed
<1>2. run[t].held \in Draft
  BY <1>1 DEF Owned, RowsOf, Rows
<1> QED  BY <1>1, <1>2, WriteEffect

LEMMA EndEffect ==
  ASSUME Typed, NEW t \in Run, End(t), Active(t), UNCHANGED <<expired, met>>
  PROVE  Ended(t)
BY EndType DEF Typed, Ended

LEMMA PlaceEnds ==
  ASSUME Typed, NEW t \in Run, Place(t)
  PROVE  /\ Ended(t) /\ run[t].pc = "place" /\ run[t].session \in Session
         /\ owner' = IF run[t].held = None THEN Append(owner, run[t].session) ELSE owner
PROOF
<1>1. Active(t) /\ run[t] \in Transaction
  BY OpenTransaction DEF Typed, Place, Active
<1> QED  BY <1>1, EndEffect DEF Place, Transaction

LEMMA ReleaseEffect ==
  ASSUME Typed, NEW t \in Run, Release(t)
  PROVE  /\ Ended(t) /\ run[t].pc = "release" /\ row' = Committed(t)
         /\ UNCHANGED <<owner, placed>>
BY EndEffect DEF Release, Active, history

LEMMA LookConfirmedEffect ==
  ASSUME Typed, NEW t \in Run, LookConfirmed(t)
  PROVE  /\ run[t].pc = "look"
         /\ \/ Ended(t) /\ UNCHANGED <<row, owner, placed>>
            \/ Statement(t, "select", run[t].todo, run[t].set)
PROOF
<1>1. run[t].pc = "look" /\ Active(t) /\ UNCHANGED <<Tables, met>>
  BY DEF LookConfirmed, Active, Tables, history
<1>2. End(t) \/ Goto(t, "select")
  BY DEF LookConfirmed
<1> QED  BY <1>1, <1>2, EndEffect, GotoEffect DEF Tables

LEMMA SelectDraftsEffect ==
  ASSUME Typed, NEW t \in Run, SelectDrafts(t)
  PROVE  /\ run[t].pc = "select"
         /\ \E D \in SUBSET RowsOf(run[t].session) :
              /\ \A d \in D : row[d] = "pending"
              /\ Statement(t, "cancel", D, run[t].set)
PROOF
<1>1. PICK D \in SUBSET RowsOf(run[t].session) :
        /\ \A d \in D : row[d] = "pending"
        /\ run' = [run EXCEPT ![t].pc = "cancel", ![t].todo = D]
  BY DEF SelectDrafts, ActiveStatuses
<1>2. /\ Active(t) /\ run[t] \in Transaction /\ run \in Runs /\ run[t].pc = "select"
      /\ UNCHANGED <<Tables, met>>
  BY OpenTransaction DEF Typed, TypeOK, SelectDrafts, Active, Runs, Tables, history
<1>3. run' = [run EXCEPT ![t].pc = "cancel", ![t].todo = D]
  BY <1>1
<1>4. Statement(t, "cancel", D, run[t].set)
  BY <1>2, <1>3 DEF Statement, Active, Transaction, Runs
<1> QED  BY <1>1, <1>2, <1>4

LEMMA CancelOneEffect ==
  ASSUME Typed, NEW t \in Run, CancelOne(t)
  PROVE  /\ run[t].pc = "cancel"
         /\ \E d \in run[t].todo :
              /\ d \in Draft
              /\ row[d] = "pending" =>
                   Statement(t, "cancel", run[t].todo \ {d},
                             [run[t].set EXCEPT ![d] = "cancelled"])
              /\ row[d] # "pending" => Statement(t, "cancel", run[t].todo \ {d}, run[t].set)
PROOF
<1>1. /\ Active(t) /\ run[t] \in Transaction /\ run \in Runs /\ run[t].pc = "cancel"
      /\ UNCHANGED <<Tables, met>>
  BY OpenTransaction DEF Typed, TypeOK, CancelOne, Active, Runs, Tables, history
<1>2. PICK d \in run[t].todo :
        run' = [run EXCEPT ![t].todo = @ \ {d},
                  ![t].set[d] = IF row[d] \in ActiveStatuses THEN "cancelled" ELSE @]
  BY DEF CancelOne
<1>3. d \in Draft
  BY <1>1, <1>2 DEF Transaction
<1>4. CASE row[d] = "pending"
  <2>1. run' = [run EXCEPT ![t].todo = @ \ {d}, ![t].set[d] = "cancelled"]
    BY <1>2, <1>4 DEF ActiveStatuses
  <2>2. Statement(t, "cancel", run[t].todo \ {d}, [run[t].set EXCEPT ![d] = "cancelled"])
    BY <1>1, <1>3, <2>1 DEF Statement, Active, Transaction, Runs
  <2> QED  BY <1>1, <1>2, <1>3, <1>4, <2>2
<1>5. CASE row[d] # "pending"
  <2>1. run' = [run EXCEPT ![t].todo = @ \ {d}, ![t].set[d] = @]
    BY <1>2, <1>5 DEF ActiveStatuses
  <2>2. Statement(t, "cancel", run[t].todo \ {d}, run[t].set)
    BY <1>1, <1>3, <2>1 DEF Statement, Active, Transaction, Runs
  <2> QED  BY <1>1, <1>2, <1>3, <1>5, <2>2
<1> QED  BY <1>1, <1>2, <1>3, <1>4, <1>5

LEMMA CommitCancelEffect ==
  ASSUME Typed, NEW t \in Run, CommitCancel(t)
  PROVE  /\ Ended(t) /\ run[t].pc = "cancel" /\ row' = Committed(t)
         /\ UNCHANGED <<owner, placed>>
BY EndEffect DEF CommitCancel, Active, history

LEMMA RollbackEffect ==
  ASSUME Typed, NEW t \in Run, Rollback(t)
  PROVE  Ended(t) /\ UNCHANGED <<row, owner, placed>>
BY EndEffect DEF Rollback, Victim, Fail, history

\* A run of session s is under way on row d, the others go on.
Started(t, pc, s, d) ==
  /\ ~Active(t) /\ Active(t)'
  /\ d = None \/ d \in RowsOf(s)
  /\ run'[t].pc = pc /\ run'[t].session = s /\ run'[t].held = d /\ run'[t].todo = {}
  /\ run'[t].set = [e \in Draft |-> "unset"]
  /\ \A u \in Run \ {t} : run'[u] = run[u]
  /\ UNCHANGED Tables
  /\ met' = IF \E u \in Run : Active(u) /\ CustomerOf[run[u].session] = CustomerOf[s]
            THEN met \cup {CustomerOf[s]} ELSE met

LEMMA StartEffect ==
  ASSUME Typed, NEW t \in Run, Start(t)
  PROVE  \E s \in Session, d \in 0..MaxDrafts,
            pc \in {"supersede", "active", "lines", "look", "reject"} :
           /\ Started(t, pc, s, d)
           /\ pc \in {"supersede", "reject"} => d # None
           /\ pc = "active" => d = None
           /\ pc = "reject" => (row[d] = "confirmed" => ~Serial(s))
PROOF
<1>1. ASSUME NEW s \in Session, NEW d \in 0..MaxDrafts,
             NEW pc \in {"supersede", "active", "lines", "look", "reject"}, Begin(t, pc, s, d)
      PROVE  Started(t, pc, s, d)
  BY <1>1 DEF Begin, Started, Active, Tables, Typed, TypeOK
<1>2. ASSUME NEW s \in Session, NEW d \in 0..MaxDrafts, BeginCreate(t, s, d)
      PROVE  \/ Begin(t, "active", s, d) /\ d = None
             \/ Begin(t, "supersede", s, d) /\ d # None
  BY <1>2 DEF BeginCreate
<1>3. ASSUME NEW s \in Session, NEW d \in 0..MaxDrafts, BeginOrder(t, s, d)
      PROVE  Begin(t, "lines", s, d)
  BY <1>3 DEF BeginOrder
<1>4. ASSUME NEW s \in Session, NEW d \in 0..MaxDrafts, BeginReject(t, s, d)
      PROVE  Begin(t, "reject", s, d) /\ d # None /\ (row[d] = "confirmed" => ~Serial(s))
  BY <1>4 DEF BeginReject
<1>5. ASSUME NEW s \in Session, BeginCancel(t, s)
      PROVE  Begin(t, "look", s, None) /\ None \in 0..MaxDrafts
  BY <1>5 DEF BeginCancel, None
<1> QED  BY <1>1, <1>2, <1>3, <1>4, <1>5 DEF Start
-----------------------------------------------------------------------------
(* No row is placed twice.                                                   *)

\* A step is a statement, an insert, an order, or ends a transaction that
\* changes no row but those it has written.
LEMMA StepKinds ==
  ASSUME Typed, NEW t \in Run, AnyStep(t)
  PROVE  \/ /\ \E pc, todo, set : Statement(t, pc, todo, set)
            /\ \/ run'[t].pc \notin {"confirm", "place"}
               \/ run[t].held = None
               \/ run[t].held # None /\ row[run[t].held] = "pending"
               \/ run[t].pc = "confirm"
         \/ InsertDraft(t)
         \/ Place(t)
         \/ Ended(t) /\ UNCHANGED <<owner, placed>> /\ row' \in {row, Committed(t)}
PROOF
<1>1. CASE SupersedeHeld(t)
  BY <1>1, SupersedeHeldEffect DEF Statement
<1>2. CASE ReadActive(t)
  BY <1>2, ReadActiveEffect DEF Statement
<1>3. CASE FlipOldest(t)
  BY <1>3, FlipOldestEffect DEF Statement
<1>4. CASE TakeLine(t)
  BY <1>4, TakeLineEffect DEF Statement
<1>5. CASE SoldOut(t)
  BY <1>5, SoldOutEffect DEF Statement
<1>6. CASE CheckDraft(t)
  BY <1>6, CheckDraftEffect DEF Statement
<1>7. CASE ConfirmRow(t)
  BY <1>7, ConfirmRowEffect
<1>8. CASE Release(t)
  BY <1>8, ReleaseEffect
<1>9. CASE LookConfirmed(t)
  BY <1>9, LookConfirmedEffect DEF Statement
<1>10. CASE SelectDrafts(t)
  BY <1>10, SelectDraftsEffect DEF Statement
<1>11. CASE CancelOne(t)
  BY <1>11, CancelOneEffect DEF Statement
<1>12. CASE CommitCancel(t)
  BY <1>12, CommitCancelEffect
<1>13. CASE RejectRow(t)
  BY <1>13, RejectRowEffect DEF Statement
<1>14. CASE Rollback(t)
  BY <1>14, RollbackEffect
<1> QED  BY <1>1, <1>2, <1>3, <1>4, <1>5, <1>6, <1>7, <1>8, <1>9, <1>10, <1>11, <1>12,
         <1>13, <1>14 DEF AnyStep, Step, Rollback

\* A commit makes no row pending.
LEMMA CommittedRow ==
  ASSUME Typed, NEW t \in Run, NEW d \in Draft
  PROVE  /\ Committed(t)[d] = View(t, d)
         /\ Committed(t)[d] = "pending" => row[d] = "pending"
BY DEF Committed, View, Typed, Writes

\* Two runs never have all lines of one session's order at the same time.
LEMMA OneOrders ==
  ASSUME Typed, NEW t \in Run, NEW u \in Run \ {t},
         run[t].pc \in {"confirm", "place"}, run[u].pc \in {"confirm", "place"}
  PROVE  run[t].session # run[u].session
PROOF
<1>1. Active(t) /\ Active(u) /\ Ordering(t) /\ Ordering(u)
  BY DEF Active, Ordering
<1>2. Taken(t) /\ Taken(u) /\ run[t] \in Transaction /\ run[u] \in Transaction
  BY <1>1, OpenTransaction DEF Typed
<1>3. ItemsIn(t) \in Seq(Product) /\ Len(ItemsIn(t)) \in Nat \ {0}
  <2>1. ItemsIn(t) \in Seq(Product) \ {<<>>}
    BY <1>2 DEF ItemsIn, Transaction
  <2> QED  BY <2>1
<1>4. CASE run[t].session = run[u].session
  <2>1. ItemsIn(u) = ItemsIn(t)
    BY <1>4 DEF ItemsIn
  <2>2. run[t].line > Len(ItemsIn(t)) /\ run[u].line > Len(ItemsIn(t))
        /\ run[t].line \in Nat /\ run[u].line \in Nat
    BY <1>1, <1>2, <2>1 DEF Taken, Transaction
  <2>3. 1 \in 1..(run[t].line - 1) /\ 1 \in 1..(run[u].line - 1)
    BY <1>3, <2>2
  <2>4. ItemsIn(t)[1] \in run[t].touched /\ ItemsIn(t)[1] \in run[u].touched
    BY <1>1, <1>2, <2>1, <2>3 DEF Taken
  <2> QED  BY <2>4 DEF Typed, Exclusive
<1> QED  BY <1>4

LEMMA NewRow ==
  ASSUME TypeOK, NEW s \in Session, owner' = Append(owner, s)
  PROVE  /\ Len(owner) + 1 \notin Rows
         /\ Len(owner) + 1 \in Draft => Rows' = Rows \cup {Len(owner) + 1}
         /\ owner'[Len(owner) + 1] = s
         /\ \A d \in Rows : owner'[d] = owner[d]
PROOF
<1>1. /\ owner \in Seq(Session) /\ Len(owner) \in Nat /\ Len(owner') = Len(owner) + 1
      /\ owner'[Len(owner) + 1] = s
      /\ \A d \in 1..Len(owner) : owner'[d] = owner[d]
  BY DEF TypeOK
<1>2. /\ Rows = {d \in Draft : d <= Len(owner)} /\ Rows' = {d \in Draft : d <= Len(owner) + 1}
      /\ Draft \subseteq Nat \ {0}
  BY <1>1 DEF Rows, Draft
<1>3. ASSUME NEW d \in Draft
      PROVE  d <= Len(owner) + 1 <=> d <= Len(owner) \/ d = Len(owner) + 1
  <2>1. d \in Nat
    BY <1>2
  <2> QED  BY <1>1, <2>1
<1>4. Len(owner) + 1 \notin Rows /\ \A d \in Rows : d \in 1..Len(owner)
  <2>1. ~(Len(owner) + 1 <= Len(owner))
    BY <1>1
  <2>2. ASSUME NEW d \in Rows  PROVE d \in 1..Len(owner)
    <3>1. d \in Nat \ {0} /\ d <= Len(owner)
      BY <1>2
    <3> QED  BY <1>1, <3>1
  <2> QED  BY <1>2, <2>1, <2>2
<1>5. Len(owner) + 1 \in Draft => Rows' = Rows \cup {Len(owner) + 1}
  BY <1>2, <1>3
<1> QED  BY <1>1, <1>4, <1>5

LEMMA OnceStatement ==
  ASSUME Typed, Once, NEW t \in Run, \A u \in Run \ {t} : run'[u] = run[u],
         UNCHANGED <<row, owner, placed>>, ToPlace(t)'
  PROVE  Once'
BY DEF Once, PlacedRow, ToPlace, Rows

LEMMA OncePlace ==
  ASSUME Typed, Once, NEW t \in Run, Place(t)
  PROVE  Once'
PROOF
<1> DEFINE k == PlacedId(t)
<1>1. /\ Ended(t) /\ run[t].pc = "place" /\ run[t].session \in Session
      /\ owner' = IF run[t].held = None THEN Append(owner, run[t].session) ELSE owner
      /\ k \in Draft /\ row' = [Committed(t) EXCEPT ![k] = "confirmed"]
      /\ placed' = [placed EXCEPT ![k] = @ + 1] /\ TypeOK
  BY PlaceEnds, PlaceEffect DEF Typed
<1>2. placed[k] = 0
  <2>1. CASE run[t].held = None
    BY <1>1, <2>1, NewRow DEF Once, PlacedRow, PlacedId, TypeOK
  <2>2. CASE run[t].held # None
    BY <1>1, <2>2 DEF Once, ToPlace, PlacedId
  <2> QED  BY <2>1, <2>2
<1>3. Rows \subseteq Rows' /\ k \in Rows'
  <2>1. CASE run[t].held = None
    BY <1>1, <2>1, NewRow DEF PlacedId
  <2>2. CASE run[t].held # None
    BY <1>1, <2>2 DEF Typed, Owned, RowsOf, Rows, Active, PlacedId
  <2> QED  BY <2>1, <2>2
<1>4. ASSUME NEW d \in Draft  PROVE PlacedRow(d)'
  <2>1. CASE d = k
    BY <1>1, <1>2, <1>3, <2>1, CommittedType DEF PlacedRow, Ended, TypeOK
  <2>2. CASE d # k
    <3>1. row'[d] = Committed(t)[d] /\ placed'[d] = placed[d]
      BY <1>1, <2>2, CommittedType DEF TypeOK, Ended
    <3> QED  BY <1>3, <3>1, CommittedRow DEF Once, PlacedRow
  <2> QED  BY <2>1, <2>2
<1>5. ToPlace(t)'
  BY <1>1 DEF ToPlace, Ended, NoRun
<1>6. ASSUME NEW u \in Run \ {t}  PROVE ToPlace(u)'
  <2>1. run'[u] = run[u] /\ ToPlace(u)
    BY <1>1 DEF Ended, Once
  <2>2. ASSUME run[u].pc \in {"confirm", "place"}, run[u].held # None
        PROVE  run[u].held # k
    <3>1. run[u].held \in RowsOf(run[u].session)
      BY <2>2 DEF Typed, Owned, Active
    <3>2. CASE run[t].held = None
      BY <1>1, <3>1, <3>2, NewRow DEF PlacedId, RowsOf
    <3>3. CASE run[t].held # None
      <4>1. run[t].held \in RowsOf(run[t].session)
        BY <1>1, <3>3 DEF Typed, Owned, Ended
      <4>2. run[t].session # run[u].session
        BY <1>1, <2>2, OneOrders
      <4> QED  BY <3>1, <3>3, <4>1, <4>2 DEF PlacedId, RowsOf
    <3> QED  BY <3>2, <3>3
  <2>3. \A d : d # k => placed'[d] = placed[d]
    BY <1>1 DEF TypeOK
  <2> QED  BY <2>1, <2>2, <2>3 DEF ToPlace
<1> QED  BY <1>4, <1>5, <1>6 DEF Once

LEMMA OnceStep ==
  ASSUME Typed, Once, [Next]_vars
  PROVE  Once'
PROOF
<1>1. CASE UNCHANGED <<row, owner, placed, run>>
  BY <1>1 DEF Once, PlacedRow, ToPlace, Rows
<1>2. ASSUME NEW t \in Run, Start(t)  PROVE Once'
  BY <1>2, StartEffect, OnceStatement DEF Started, ToPlace, Tables
<1>3. ASSUME NEW t \in Run, NEW pc, NEW todo, NEW set, Statement(t, pc, todo, set),
             \/ run'[t].pc \notin {"confirm", "place"}
             \/ run[t].held = None
             \/ run[t].held # None /\ row[run[t].held] = "pending"
             \/ run[t].pc = "confirm"
      PROVE  Once'
  <2>1. /\ run'[t].held = run[t].held /\ UNCHANGED <<row, owner, placed>>
        /\ \A u \in Run \ {t} : run'[u] = run[u]
    BY <1>3 DEF Statement, Tables
  <2>2. ASSUME run[t].held # None, row[run[t].held] = "pending"
        PROVE  placed[run[t].held] = 0
    <3>1. run[t].held \in Draft
      BY <1>3, <2>2 DEF Typed, Owned, RowsOf, Rows, Statement
    <3> QED  BY <2>2, <3>1 DEF Once, PlacedRow, Typed, TypeOK
  <2>3. ToPlace(t)'
    BY <1>3, <2>1, <2>2 DEF ToPlace, Once
  <2> QED  BY <2>1, <2>3, OnceStatement
<1>4. ASSUME NEW t \in Run, InsertDraft(t)  PROVE Once'
  <2> DEFINE k == Len(owner) + 1
  <2>1. /\ Ended(t) /\ k \in Draft /\ run[t].session \in Session
        /\ row' = [Committed(t) EXCEPT ![k] = "pending"]
        /\ owner' = Append(owner, run[t].session) /\ placed' = placed /\ TypeOK
    BY <1>4, InsertDraftEffect DEF Typed
  <2>2. k \notin Rows /\ Rows' = Rows \cup {k}
    BY <2>1, NewRow
  <2>3. ASSUME NEW d \in Draft  PROVE PlacedRow(d)'
    <3>1. CASE d = k
      BY <2>1, <2>2, <3>1 DEF Once, PlacedRow, TypeOK
    <3>2. CASE d # k
      <4>1. row'[d] = Committed(t)[d] /\ Active(t)
        BY <2>1, <3>2, CommittedType DEF Ended
      <4> QED  BY <2>1, <2>2, <4>1, CommittedRow DEF Once, PlacedRow
    <3> QED  BY <3>1, <3>2
  <2>4. ASSUME NEW u \in Run  PROVE ToPlace(u)'
    <3>1. CASE u = t
      BY <2>1, <3>1 DEF ToPlace, Ended, NoRun
    <3>2. CASE u # t
      BY <2>1, <3>2 DEF Once, ToPlace, Ended
    <3> QED  BY <3>1, <3>2
  <2> QED  BY <2>3, <2>4 DEF Once
<1>5. ASSUME NEW t \in Run, Ended(t), UNCHANGED <<owner, placed>>, row' \in {row, Committed(t)}
      PROVE  Once'
  <2>1. ASSUME NEW d \in Draft  PROVE PlacedRow(d)'
    BY <1>5, CommittedRow DEF Once, PlacedRow, Rows
  <2>2. ASSUME NEW u \in Run  PROVE ToPlace(u)'
    <3>1. CASE u = t
      BY <1>5, <3>1 DEF ToPlace, Ended, NoRun
    <3>2. CASE u # t
      BY <1>5, <3>2 DEF Once, ToPlace, Ended
    <3> QED  BY <3>1, <3>2
  <2> QED  BY <2>1, <2>2 DEF Once
<1>6. ASSUME NEW t \in Run, AnyStep(t)  PROVE Once'
  BY <1>3, <1>4, <1>5, <1>6, StepKinds, OncePlace
<1> QED  BY <1>1, <1>2, <1>6 DEF Next, AnyStep, Expire, history, vars

LEMMA OnceInit ==
  ASSUME Init
  PROVE  Once
BY DEF Init, Once, PlacedRow, ToPlace, NoRun

LEMMA OnceAlways == Spec => []Once
BY TypedAlways, OnceInit, OnceStep, PTL DEF Spec

\* No row is placed twice, however runs are repeated, resumed or overlap: a run
\* that has all its lines has the products locked, reads its row after that,
\* and a row that was placed is not active again (confirm_draft).
THEOREM PlacedAtMostOnce == Spec => []PlacedOnce
PROOF
<1>1. Typed /\ Once => PlacedOnce
  <2> SUFFICES ASSUME Typed, Once, NEW d \in Draft  PROVE placed[d] <= 1
    BY DEF PlacedOnce
  <2>1. placed[d] \in Nat /\ (placed[d] > 0 => placed[d] = 1)
    BY DEF Typed, TypeOK, Once, PlacedRow
  <2> QED  BY <2>1
<1> QED  BY <1>1, TypedAlways, OnceAlways, PTL
-----------------------------------------------------------------------------
(* A customer whose runs never overlapped.                                   *)

\* What another run may write is not of this customer.
LEMMA OtherCustomer ==
  ASSUME Typed, Alone, NEW t \in Run, Active(t), NEW u \in Run \ {t}, Active(u),
         Serial(run[u].session)
  PROVE  /\ run[t].session \in Session /\ run[u].session \in Session
         /\ CustomerOf[run[t].session] # CustomerOf[run[u].session]
         /\ \A d \in CustomersRows(run[u].session) :
              d \in Rows /\ run[t].set[d] = "unset" /\ d # run[t].held
PROOF
<1>1. /\ run[t] \in Transaction /\ run[u] \in Transaction /\ Owned(t)
  BY OpenTransaction DEF Typed
<1>2. run[t].session \in Session /\ run[u].session \in Session
  BY <1>1 DEF Transaction
<1>3. CustomerOf[run[t].session] # CustomerOf[run[u].session]
  BY DEF Alone, SameCustomer, Serial
<1>4. ASSUME NEW d \in CustomersRows(run[u].session)
      PROVE  d \in Rows /\ run[t].set[d] = "unset" /\ d # run[t].held
  <2>1. d \in Draft /\ d \in Rows /\ d \notin CustomersRows(run[t].session)
        /\ d \notin RowsOf(run[t].session) /\ d # None
    BY <1>3 DEF CustomersRows, RowsOf, Rows, Draft, None
  <2> QED  BY <1>1, <2>1 DEF Owned
<1> QED  BY <1>2, <1>3, <1>4

LEMMA SerialStatement ==
  ASSUME Typed, SerialInv, NEW t \in Run, NEW pc, NEW todo, NEW set,
         Statement(t, pc, todo, set),
         Serial(run[t].session) =>
           /\ \A d \in Draft : set[d] \in {"superseded", "cancelled"} => placed[d] = 0
           /\ \A d \in todo : row[d] = "pending"
           /\ pc # "reject"
           /\ pc \in {"confirm", "place"} /\ run[t].held # None =>
                row[run[t].held] = "pending"
  PROVE  SerialInv'
PROOF
<1>1. /\ UNCHANGED <<row, owner, placed, met>>
      /\ \A u \in Run : /\ run'[u].session = run[u].session \/ u # t
                        /\ u # t => run'[u] = run[u]
                        /\ Active(u)' <=> Active(u)
  BY DEF Statement, Tables, Active
<1>2. PlacedStays'
  BY <1>1 DEF SerialInv, PlacedStays, Serial, Rows
<1>3. Alone'
  BY <1>1 DEF SerialInv, Alone, SameCustomer, Serial
<1>4. Careful(t)'
  BY <1>1 DEF Careful, Statement, Serial
<1>5. ASSUME NEW u \in Run \ {t}  PROVE Careful(u)'
  BY <1>1 DEF SerialInv, Careful, Serial
<1> QED  BY <1>2, <1>3, <1>4, <1>5 DEF SerialInv

\* A pending row was not placed.
LEMMA PendingNotPlaced ==
  ASSUME Typed, Once, NEW d \in Draft, row[d] = "pending"
  PROVE  placed[d] = 0
BY DEF Typed, TypeOK, Once, PlacedRow

LEMMA SerialStatements ==
  ASSUME Typed, Once, SerialInv, NEW t \in Run,
         \/ SupersedeHeld(t) \/ ReadActive(t) \/ FlipOldest(t) \/ TakeLine(t) \/ SoldOut(t)
         \/ CheckDraft(t) \/ ConfirmRow(t) \/ SelectDrafts(t) \/ CancelOne(t) \/ RejectRow(t)
  PROVE  SerialInv'
PROOF
<1>1. Careful(t)
  BY DEF SerialInv
<1>2. CASE SupersedeHeld(t)
  <2>1. Active(t) /\ run[t] \in Transaction /\ run[t].held \in Draft
    BY <1>2, SupersedeHeldEffect, OpenTransaction DEF Typed, Active
  <2>2. CASE row[run[t].held] = "pending"
    <3>1. placed[run[t].held] = 0
      BY <2>1, <2>2, PendingNotPlaced
    <3> DEFINE set == [run[t].set EXCEPT ![run[t].held] = "superseded"]
    <3>2. Serial(run[t].session) =>
            \A d \in Draft : set[d] \in {"superseded", "cancelled"} => placed[d] = 0
      BY <1>1, <2>1, <3>1 DEF Careful, Transaction
    <3>3. Statement(t, "active", run[t].todo, set)
      BY <1>2, <2>2, SupersedeHeldEffect
    <3> HIDE DEF set
    <3> QED  BY <1>1, <2>1, <3>2, <3>3, SerialStatement DEF Careful
  <2>3. CASE row[run[t].held] # "pending"
    <3>1. Statement(t, "active", run[t].todo, run[t].set)
      BY <1>2, <2>3, SupersedeHeldEffect
    <3> QED  BY <1>1, <2>1, <3>1, SerialStatement DEF Careful
  <2> QED  BY <2>2, <2>3
<1>3. CASE ReadActive(t)
  <2>1. Active(t) /\ Statement(t, "flip", Overflow(Found(t)), run[t].set)
    BY <1>3, ReadActiveEffect DEF Statement
  <2>2. \A d \in Overflow(Found(t)) : row[d] = "pending"
    <3>1. ASSUME NEW d \in Found(t)  PROVE row[d] = "pending"
      <4>1. d \in Draft /\ View(t, d) = "pending"
        BY DEF Found, ActiveStatuses, CustomersRows, Rows
      <4> QED  BY <4>1, CommittedRow DEF Committed
    <3> QED  BY <3>1 DEF Overflow
  <2> QED  BY <1>1, <2>1, <2>2, SerialStatement DEF Careful
<1>4. CASE FlipOldest(t)
  <2>1. PICK d \in run[t].todo :
          d \in Draft /\ Statement(t, "flip", run[t].todo \ {d},
                                   [run[t].set EXCEPT ![d] = "superseded"])
    BY <1>4, FlipOldestEffect
  <2>2. Active(t) /\ run[t] \in Transaction
    BY <2>1, OpenTransaction DEF Statement, Typed
  <2> DEFINE set == [run[t].set EXCEPT ![d] = "superseded"]
  <2>3. Serial(run[t].session) =>
          \A e \in Draft : set[e] \in {"superseded", "cancelled"} => placed[e] = 0
    <3>1. Serial(run[t].session) => placed[d] = 0
      BY <1>1, <2>1, <2>2, PendingNotPlaced DEF Careful
    <3> QED  BY <1>1, <2>1, <2>2, <3>1 DEF Careful, Transaction
  <2>4. Statement(t, "flip", run[t].todo \ {d}, set)
    BY <2>1
  <2> HIDE DEF set
  <2> QED  BY <1>1, <2>2, <2>3, <2>4, SerialStatement DEF Careful
<1>5. CASE TakeLine(t)
  <2>1. Active(t) /\ Statement(t, "lines", run[t].todo, run[t].set)
    BY <1>5, TakeLineEffect DEF Statement
  <2> QED  BY <1>1, <2>1, SerialStatement DEF Careful
<1>6. CASE SoldOut(t)
  <2>1. Active(t) /\ Statement(t, "release", run[t].todo, run[t].set)
    BY <1>6, SoldOutEffect DEF Statement
  <2> QED  BY <1>1, <2>1, SerialStatement DEF Careful
<1>7. CASE CheckDraft(t)
  <2>1. PICK pc \in {"place", "confirm", "release"} :
          /\ Statement(t, pc, run[t].todo, run[t].set)
          /\ pc = "place" => run[t].held = None
          /\ pc = "confirm" => row[run[t].held] = "pending"
    BY <1>7, CheckDraftEffect
  <2>2. Active(t)
    BY <2>1 DEF Statement
  <2> QED  BY <1>1, <2>1, <2>2, SerialStatement DEF Careful
<1>8. CASE ConfirmRow(t)
  <2> DEFINE set == [run[t].set EXCEPT ![run[t].held] = "confirmed"]
  <2>1. /\ run[t].pc = "confirm" /\ run[t].held \in Draft /\ run[t].held # None
        /\ Statement(t, "place", run[t].todo, set)
    BY <1>8, ConfirmRowEffect
  <2>2. Active(t) /\ run[t] \in Transaction
    BY <2>1, OpenTransaction DEF Statement, Typed
  <2>3. Serial(run[t].session) =>
          \A d \in Draft : set[d] \in {"superseded", "cancelled"} => placed[d] = 0
    BY <1>1, <2>1, <2>2 DEF Careful, Transaction
  <2> HIDE DEF set
  <2> QED  BY <1>1, <2>1, <2>2, <2>3, SerialStatement DEF Careful
<1>9. CASE SelectDrafts(t)
  <2>1. PICK D \in SUBSET RowsOf(run[t].session) :
          (\A d \in D : row[d] = "pending") /\ Statement(t, "cancel", D, run[t].set)
    BY <1>9, SelectDraftsEffect
  <2>2. Active(t)
    BY <2>1 DEF Statement
  <2> QED  BY <1>1, <2>1, <2>2, SerialStatement DEF Careful
<1>10. CASE CancelOne(t)
  <2>1. PICK d \in run[t].todo :
          /\ d \in Draft
          /\ row[d] = "pending" =>
               Statement(t, "cancel", run[t].todo \ {d}, [run[t].set EXCEPT ![d] = "cancelled"])
          /\ row[d] # "pending" => Statement(t, "cancel", run[t].todo \ {d}, run[t].set)
    BY <1>10, CancelOneEffect
  <2>2. Active(t) /\ run[t] \in Transaction
    BY <1>10, OpenTransaction DEF CancelOne, Active, Typed
  <2>3. CASE row[d] = "pending"
    <3> DEFINE set == [run[t].set EXCEPT ![d] = "cancelled"]
    <3>1. placed[d] = 0
      BY <2>1, <2>3, PendingNotPlaced
    <3>2. Serial(run[t].session) =>
            \A e \in Draft : set[e] \in {"superseded", "cancelled"} => placed[e] = 0
      BY <1>1, <2>1, <2>2, <3>1 DEF Careful, Transaction
    <3>3. Statement(t, "cancel", run[t].todo \ {d}, set)
      BY <2>1, <2>3
    <3> HIDE DEF set
    <3> QED  BY <1>1, <2>2, <3>2, <3>3, SerialStatement DEF Careful
  <2>4. CASE row[d] # "pending"
    BY <1>1, <2>1, <2>2, <2>4, SerialStatement DEF Careful
  <2> QED  BY <2>3, <2>4
<1>11. CASE RejectRow(t)
  <2> DEFINE set == [run[t].set EXCEPT ![run[t].held] = "cancelled"]
  <2>1. /\ run[t].pc = "reject" /\ run[t].held \in Draft
        /\ Statement(t, "release", run[t].todo, set)
    BY <1>11, RejectRowEffect
  <2>2. Active(t) /\ run[t] \in Transaction
    BY <2>1, OpenTransaction DEF Statement, Typed
  <2>3. Serial(run[t].session) =>
          \A d \in Draft : set[d] \in {"superseded", "cancelled"} => placed[d] = 0
    BY <1>1, <2>1, <2>2 DEF Careful, Transaction
  <2> HIDE DEF set
  <2> QED  BY <1>1, <2>1, <2>2, <2>3, SerialStatement DEF Careful
<1> QED  BY <1>2, <1>3, <1>4, <1>5, <1>6, <1>7, <1>8, <1>9, <1>10, <1>11

\* A run that ends: what it did to the rows of its customer is no concern of
\* other customers.
LEMMA SerialEnd ==
  ASSUME Typed, SerialInv, NEW t \in Run, Ended(t),
         owner' = owner \/ \E s \in Session : owner' = Append(owner, s),
         \A d \in Rows : run[t].set[d] = "unset" /\ d # run[t].held =>
                           row'[d] = row[d] /\ placed'[d] = placed[d],
         \A d \in Rows' : \/ row'[d] = "confirmed"
                          \/ placed'[d] = 0
                          \/ /\ d \in Rows /\ placed'[d] = placed[d]
                             /\ row'[d] \in {row[d], View(t, d)}
  PROVE  SerialInv'
PROOF
<1>1. /\ Active(t) /\ ~Active(t)' /\ met' = met
      /\ \A u \in Run : /\ u # t => run'[u] = run[u] /\ (Active(u)' <=> Active(u))
                        /\ Active(u)' => u # t
      /\ TypeOK /\ run[t] \in Transaction /\ Careful(t) /\ Writes(t)
  BY OpenTransaction DEF Typed, SerialInv, Ended, Active, NoRun
<1>2. /\ Rows \subseteq Rows' /\ \A d \in Rows : owner'[d] = owner[d] /\ owner[d] \in Session
  <2>1. \A d \in Rows : d \in 1..Len(owner) /\ owner[d] \in Session
    BY <1>1 DEF TypeOK, Rows, Draft
  <2>2. CASE owner' = owner
    BY <2>1, <2>2 DEF Rows
  <2>3. ASSUME NEW s \in Session, owner' = Append(owner, s)
        PROVE  Rows \subseteq Rows' /\ \A d \in Rows : owner'[d] = owner[d]
    BY <1>1, <2>3, NewRow, RowsGrow
  <2> QED  BY <2>1, <2>2, <2>3
<1>3. PlacedStays'
  <2> SUFFICES ASSUME NEW d \in Rows', Serial(owner[d])', placed'[d] > 0
               PROVE  row'[d] = "confirmed"
    BY DEF PlacedStays
  <2>1. CASE d \in Rows /\ placed'[d] = placed[d] /\ row'[d] \in {row[d], View(t, d)}
    <3>1. Serial(owner[d]) /\ d \in Draft
      BY <1>1, <1>2, <2>1 DEF Serial, Rows
    <3>2. row[d] = "confirmed"
      BY <2>1, <3>1 DEF SerialInv, PlacedStays
    <3>3. CASE run[t].set[d] = "unset"
      BY <2>1, <3>2, <3>3 DEF View
    <3>4. CASE run[t].set[d] # "unset"
      <4>1. Serial(run[t].session)
        BY <1>1, <3>1, <3>4 DEF Typed, Owned, CustomersRows, Serial
      <4>2. run[t].set[d] \notin {"superseded", "cancelled"}
        BY <1>1, <2>1, <3>1, <4>1 DEF Careful
      <4>3. run[t].set[d] = "confirmed"
        BY <1>1, <3>1, <3>4, <4>2 DEF Writes
      <4> QED  BY <2>1, <3>2, <3>4, <4>3 DEF View
    <3> QED  BY <3>3, <3>4
  <2>2. placed'[d] # 0
    OBVIOUS
  <2> QED  BY <2>1, <2>2
<1>4. Alone'
  BY <1>1 DEF SerialInv, Alone, SameCustomer, Serial
<1>5. Careful(t)'
  BY <1>1 DEF Careful
<1>6. ASSUME NEW u \in Run \ {t}  PROVE Careful(u)'
  <2>1. CASE ~Active(u) \/ ~Serial(run[u].session)
    BY <1>1, <2>1 DEF Careful, Serial
  <2>2. CASE Active(u) /\ Serial(run[u].session)
    <3>1. \A d \in CustomersRows(run[u].session) :
            row'[d] = row[d] /\ placed'[d] = placed[d]
      BY <1>1, <2>2, OtherCustomer DEF SerialInv
    <3>2. /\ Owned(u) /\ Careful(u) /\ run'[u] = run[u] /\ run[u] \in Transaction
      BY <1>1, <2>2, OpenTransaction DEF Typed, SerialInv
    <3>3. RowsOf(run[u].session) \subseteq CustomersRows(run[u].session)
      BY DEF RowsOf, CustomersRows
    <3>4. run[u].held # None => run[u].held \in CustomersRows(run[u].session)
      BY <2>2, <3>2, <3>3 DEF Owned
    <3>5. ASSUME NEW d \in Draft, run[u].set[d] \in {"superseded", "cancelled"}
          PROVE  placed'[d] = 0
      BY <2>2, <3>1, <3>2, <3>5 DEF Owned, Careful
    <3>6. ASSUME NEW d \in run[u].todo  PROVE row'[d] = "pending"
      BY <2>2, <3>1, <3>2, <3>6 DEF Owned, Careful
    <3>7. run[u].pc = "reject" => placed'[run[u].held] = 0
      BY <2>2, <3>1, <3>2, <3>4 DEF Owned, Careful
    <3>8. run[u].pc \in {"confirm", "place"} /\ run[u].held # None =>
            row'[run[u].held] = "pending"
      BY <2>2, <3>1, <3>2, <3>4 DEF Careful
    <3> QED  BY <3>2, <3>5, <3>6, <3>7, <3>8 DEF Careful
  <2> QED  BY <2>1, <2>2
<1> QED  BY <1>3, <1>4, <1>5, <1>6 DEF SerialInv

LEMMA SerialStart ==
  ASSUME Typed, SerialInv, NEW t \in Run, Start(t)
  PROVE  SerialInv'
PROOF
<1>1. PICK s \in Session, d \in 0..MaxDrafts,
           pc \in {"supersede", "active", "lines", "look", "reject"} :
        /\ Started(t, pc, s, d)
        /\ pc \in {"supersede", "reject"} => d # None
        /\ pc = "reject" => (row[d] = "confirmed" => ~Serial(s))
  BY StartEffect
<1>2. /\ UNCHANGED <<row, owner, placed>> /\ met \subseteq met'
      /\ \A u \in Run \ {t} : run'[u] = run[u] /\ (Active(u)' <=> Active(u))
      /\ run'[t].pc = pc /\ run'[t].session = s /\ run'[t].held = d /\ run'[t].todo = {}
      /\ run'[t].set = [e \in Draft |-> "unset"]
  BY <1>1 DEF Started, Tables, Active
<1>3. PlacedStays'
  BY <1>2 DEF SerialInv, PlacedStays, Serial, Rows
<1>4. Alone'
  <2>1. ASSUME NEW u \in Run \ {t}, Active(u), CustomerOf[run[u].session] = CustomerOf[s]
        PROVE  CustomerOf[s] \in met'
    BY <1>1, <2>1 DEF Started
  <2> SUFFICES ASSUME NEW u \in Run, NEW v \in Run, u # v, Active(u)', Active(v)',
                      SameCustomer(u, v)'
               PROVE  CustomerOf[run'[u].session] \in met'
    BY DEF Alone, Serial
  <2>2. CASE u = t
    BY <1>2, <2>1, <2>2 DEF SameCustomer
  <2>3. CASE v = t
    BY <1>2, <2>1, <2>3 DEF SameCustomer
  <2>4. CASE u # t /\ v # t
    <3>1. Active(u) /\ Active(v) /\ SameCustomer(u, v) /\ run'[u] = run[u]
      BY <1>2, <2>4 DEF SameCustomer
    <3>2. CustomerOf[run[u].session] \in met
      BY <3>1 DEF SerialInv, Alone, Serial
    <3> QED  BY <1>2, <3>1, <3>2
  <2> QED  BY <2>2, <2>3, <2>4
<1>5. Careful(t)'
  <2>1. ASSUME Serial(s), pc = "reject"
        PROVE  placed[d] = 0
    <3>1. d \in RowsOf(s) /\ row[d] # "confirmed"
      BY <1>1, <2>1 DEF Started
    <3>2. d \in Rows /\ d \in Draft /\ Serial(owner[d])
      BY <2>1, <3>1 DEF RowsOf, Rows
    <3>3. placed[d] \in Nat /\ ~(placed[d] > 0)
      BY <3>1, <3>2 DEF Typed, TypeOK, SerialInv, PlacedStays
    <3> QED  BY <3>3
  <2>2. Serial(s)' => Serial(s)
    BY <1>2 DEF Serial
  <2> QED  BY <1>2, <2>1, <2>2 DEF Careful
<1>6. ASSUME NEW u \in Run \ {t}  PROVE Careful(u)'
  BY <1>2 DEF SerialInv, Careful, Serial
<1> QED  BY <1>3, <1>4, <1>5, <1>6 DEF SerialInv

LEMMA SerialEnds ==
  ASSUME Typed, Once, SerialInv, NEW t \in Run,
         \/ Ended(t) /\ UNCHANGED <<owner, placed>> /\ row' \in {row, Committed(t)}
         \/ InsertDraft(t) \/ Place(t)
  PROVE  SerialInv'
PROOF
<1>1. \A d \in Draft : /\ Committed(t)[d] = View(t, d)
                       /\ run[t].set[d] = "unset" => View(t, d) = row[d]
  BY DEF Committed, View
<1>2. Rows \subseteq Draft /\ Rows' \subseteq Draft
  BY DEF Rows
<1>3. CASE Ended(t) /\ UNCHANGED <<owner, placed>> /\ row' \in {row, Committed(t)}
  <2>1. \A d \in Rows : row'[d] \in {row[d], View(t, d)}
    BY <1>1, <1>2, <1>3
  <2>2. Rows' = Rows
    BY <1>3 DEF Rows
  <2> QED  BY <1>1, <1>2, <1>3, <2>1, <2>2, SerialEnd
<1>4. CASE InsertDraft(t)
  <2> DEFINE k == Len(owner) + 1
  <2>1. /\ Ended(t) /\ k \in Draft /\ run[t].session \in Session
        /\ row' = [Committed(t) EXCEPT ![k] = "pending"]
        /\ owner' = Append(owner, run[t].session) /\ placed' = placed /\ TypeOK
    BY <1>4, InsertDraftEffect DEF Typed
  <2>2. k \notin Rows /\ Rows' = Rows \cup {k}
    BY <2>1, NewRow
  <2>3. placed[k] = 0
    BY <2>1, <2>2 DEF Once, PlacedRow, TypeOK
  <2> HIDE DEF k
  <2>4. \A d \in Rows : row'[d] = View(t, d)
    BY <1>1, <1>2, <2>1, <2>2
  <2> QED  BY <1>1, <1>2, <2>1, <2>2, <2>3, <2>4, SerialEnd
<1>5. CASE Place(t)
  <2> DEFINE k == PlacedId(t)
  <2>1. /\ Ended(t) /\ k \in Draft /\ run[t].session \in Session
        /\ row' = [Committed(t) EXCEPT ![k] = "confirmed"]
        /\ owner' = IF run[t].held = None THEN Append(owner, run[t].session) ELSE owner
        /\ placed' = [placed EXCEPT ![k] = @ + 1] /\ TypeOK
        /\ Committed(t) \in [Draft -> RowStatus]
    BY <1>5, PlaceEffect, PlaceEnds, CommittedType DEF Typed, Ended
  <2>2. /\ run[t].held # None => k = run[t].held /\ Rows' = Rows
        /\ run[t].held = None => k \notin Rows /\ Rows' = Rows \cup {k}
    BY <2>1, NewRow DEF PlacedId, Rows
  <2> HIDE DEF k
  <2>3. row'[k] = "confirmed" /\ \A d \in Draft : d # k =>
                                   row'[d] = View(t, d) /\ placed'[d] = placed[d]
    BY <1>1, <2>1 DEF TypeOK
  <2>4. \A d \in Rows : run[t].set[d] = "unset" /\ d # run[t].held =>
                           row'[d] = row[d] /\ placed'[d] = placed[d]
    BY <1>1, <1>2, <2>2, <2>3
  <2>5. \A d \in Rows' : d # k => d \in Rows
    BY <2>2
  <2>6. owner' = owner \/ \E s \in Session : owner' = Append(owner, s)
    BY <2>1
  <2> QED  BY <1>2, <2>1, <2>3, <2>4, <2>5, <2>6, SerialEnd
<1> QED  BY <1>3, <1>4, <1>5

LEMMA SerialStep ==
  ASSUME Typed, Once, SerialInv, [Next]_vars
  PROVE  SerialInv'
PROOF
<1>1. CASE UNCHANGED <<row, owner, run, placed, met>>
  BY <1>1 DEF SerialInv, Alone, SameCustomer, Serial, PlacedStays, Careful, Active, Rows
<1>2. ASSUME NEW t \in Run, Start(t)  PROVE SerialInv'
  BY <1>2, SerialStart
<1>3. ASSUME NEW t \in Run, AnyStep(t)  PROVE SerialInv'
  <2>1. CASE LookConfirmed(t)
    <3>1. CASE Statement(t, "select", run[t].todo, run[t].set)
      <4>1. Active(t) /\ Careful(t)
        BY <3>1 DEF SerialInv, Statement
      <4> QED  BY <3>1, <4>1, SerialStatement DEF Careful
    <3> QED  BY <2>1, <3>1, LookConfirmedEffect, SerialEnds
  <2>2. CASE CommitCancel(t)
    BY <2>2, CommitCancelEffect, SerialEnds
  <2>3. CASE Release(t)
    BY <2>3, ReleaseEffect, SerialEnds
  <2>4. CASE Rollback(t)
    BY <2>4, RollbackEffect, SerialEnds
  <2> QED  BY <1>3, <2>1, <2>2, <2>3, <2>4, SerialStatements, SerialEnds
           DEF AnyStep, Step, Rollback
<1> QED  BY <1>1, <1>2, <1>3 DEF Next, AnyStep, Expire, history, vars

LEMMA SerialInit ==
  ASSUME Init
  PROVE  SerialInv
BY DEF Init, SerialInv, Alone, PlacedStays, Careful, Active, NoRun, Rows, Draft

LEMMA SerialAlways == Spec => []SerialInv
BY TypedAlways, OnceAlways, SerialInit, SerialStep, PTL DEF Spec

\* Of a customer whose runs never overlapped, an order that was placed stays
\* confirmed: no later cancellation, rejection or supersession takes it away.
THEOREM PlacedStaysConfirmed == Spec => []PlacedStays
PROOF
<1>1. SerialInv => PlacedStays
  BY DEF SerialInv
<1> QED  BY <1>1, SerialAlways, PTL

LEMMA WithdrawnStep ==
  ASSUME Typed, SerialInv, [Next]_vars, NEW d \in Rows, Serial(owner[d]),
         row[d] \in {"cancelled", "superseded"}
  PROVE  placed'[d] = placed[d]
PROOF
<1>1. CASE placed' = placed
  BY <1>1
<1>2. ASSUME NEW t \in Run, Place(t)  PROVE placed'[d] = placed[d]
  <2>1. /\ run[t].pc = "place" /\ Active(t) /\ run[t].session \in Session /\ TypeOK
        /\ placed' = [placed EXCEPT ![PlacedId(t)] = @ + 1]
        /\ run[t].held = None => owner' = Append(owner, run[t].session)
    <3>1. /\ Ended(t) /\ run[t].pc = "place" /\ run[t].session \in Session
          /\ owner' = IF run[t].held = None THEN Append(owner, run[t].session) ELSE owner
      BY <1>2, PlaceEnds
    <3>2. placed' = [placed EXCEPT ![PlacedId(t)] = @ + 1]
      BY <1>2, PlaceEffect
    <3> QED  BY <3>1, <3>2 DEF Ended, Typed
  <2>2. CASE d = PlacedId(t)
    <3>1. run[t].held # None
      BY <2>1, <2>2, NewRow DEF PlacedId
    <3>2. d = run[t].held /\ d \in RowsOf(run[t].session)
      BY <2>1, <2>2, <3>1 DEF PlacedId, Typed, Owned
    <3>3. Serial(run[t].session) /\ Careful(t)
      BY <3>2 DEF RowsOf, SerialInv
    <3> QED  BY <2>1, <3>1, <3>2, <3>3 DEF Careful
  <2>3. CASE d # PlacedId(t)
    BY <2>1, <2>3 DEF TypeOK
  <2> QED  BY <2>2, <2>3
<1>3. ASSUME NEW t \in Run, Start(t)  PROVE placed' = placed
  BY <1>3 DEF Start, BeginCreate, BeginOrder, BeginReject, BeginCancel, Begin
<1>4. ASSUME NEW t \in Run, AnyStep(t)  PROVE placed' = placed \/ Place(t)
  <2>1. ASSUME NEW pc, NEW todo, NEW set, Statement(t, pc, todo, set)
        PROVE  placed' = placed
    BY <2>1 DEF Statement, Tables
  <2>2. InsertDraft(t) => placed' = placed
    BY InsertDraftEffect
  <2> QED  BY <1>4, <2>1, <2>2, StepKinds
<1> QED  BY <1>1, <1>2, <1>3, <1>4 DEF Next, AnyStep, Expire, history, vars

\* Of such a customer, terms that were withdrawn by the customer, by an
\* administrator or by a newer draft are never ordered.
THEOREM WithdrawnStaysWithdrawn == Spec => WithdrawnNotPlaced
PROOF
<1>1. Typed /\ SerialInv /\ [Next]_vars =>
        [\A d \in Rows : Serial(owner[d]) /\ row[d] \in {"cancelled", "superseded"} =>
           placed'[d] = placed[d]]_vars
  BY WithdrawnStep
<1> QED  BY <1>1, TypedAlways, SerialAlways, PTL DEF Spec, WithdrawnNotPlaced
-----------------------------------------------------------------------------
(* The cap on a customer's drafts.                                           *)

\* What Overflow leaves of a set of rows is less than Cap of them: each has a
\* number of older rows of its own, and of those numbers there are not more.
LEMMA OverflowLeavesRoom ==
  ASSUME NEW A \in SUBSET Draft
  PROVE  Cardinality(A \ Overflow(A)) < Cap
PROOF
<1> DEFINE Older(d) == {e \in A : e < d}
           n == Cardinality(A)
           low == IF n < Cap THEN 0 ELSE n - Cap + 1
           K == A \ Overflow(A)
           f == [d \in K |-> Cardinality(Older(d))]
<1>1. IsFiniteSet(A) /\ n \in Nat /\ A \subseteq Nat
  <2>1. IsFiniteSet(Draft) /\ Draft \subseteq Nat
    BY FS_Interval DEF Draft
  <2> QED  BY <2>1, FS_Subset, FS_CardinalityType
<1>2. ASSUME NEW d \in A
      PROVE  /\ IsFiniteSet(Older(d)) /\ Cardinality(Older(d)) \in Nat
             /\ Cardinality(Older(d)) <= n - 1
  <2>1. Older(d) \subseteq A \ {d}
    BY <1>1
  <2>2. IsFiniteSet(A \ {d}) /\ Cardinality(A \ {d}) = n - 1
    BY <1>1, FS_RemoveElement
  <2> QED  BY <2>1, <2>2, FS_Subset, FS_CardinalityType
<1>3. ASSUME NEW d \in A, NEW e \in A, d < e
      PROVE  Cardinality(Older(d)) < Cardinality(Older(e))
  <2>1. d \notin Older(d) /\ Older(d) \cup {d} \subseteq Older(e)
    <3>1. d \in Nat /\ e \in Nat
      BY <1>1
    <3>2. d \notin Older(d) /\ d \in Older(e)
      BY <1>3, <3>1
    <3>3. ASSUME NEW x \in Older(d)  PROVE x \in Older(e)
      <4>1. x \in A /\ x < d /\ x \in Nat
        BY <1>1
      <4> QED  BY <1>3, <3>1, <4>1
    <3> QED  BY <3>2, <3>3
  <2>2. Cardinality(Older(d) \cup {d}) = Cardinality(Older(d)) + 1
    BY <1>2, <2>1, FS_AddElement
  <2>3. Cardinality(Older(d) \cup {d}) <= Cardinality(Older(e))
    BY <1>2, <2>1, FS_Subset
  <2>4. Cardinality(Older(d)) \in Nat /\ Cardinality(Older(e)) \in Nat
    BY <1>2
  <2> HIDE DEF Older
  <2> QED  BY <2>2, <2>3, <2>4
<1>4. \A d \in K : d \in A /\ ~(Cardinality(Older(d)) + Cap <= n)
  BY DEF Overflow
<1> HIDE DEF Older, K
<1>5. ASSUME NEW d \in K  PROVE f[d] \in low..(n - 1)
  <2>1. /\ Cardinality(Older(d)) \in Nat /\ Cardinality(Older(d)) <= n - 1
        /\ Cardinality(Older(d)) + Cap > n
    <3>1. d \in A /\ ~(Cardinality(Older(d)) + Cap <= n)
      BY <1>4
    <3>2. Cardinality(Older(d)) \in Nat /\ Cardinality(Older(d)) <= n - 1
      BY <1>2, <3>1
    <3> HIDE DEF n
    <3> QED  BY <1>1, <3>1, <3>2
  <2> QED  BY <1>1, <2>1
<1>6. ASSUME NEW d \in K, NEW e \in K, f[d] = f[e]  PROVE d = e
  <2>1. d \in A /\ e \in A /\ d \in Nat /\ e \in Nat
    BY <1>1, <1>4
  <2>2. Cardinality(Older(d)) = Cardinality(Older(e)) /\ Cardinality(Older(d)) \in Nat
    BY <1>2, <1>6, <2>1
  <2>3. ~(d < e) /\ ~(e < d)
    BY <1>3, <2>1, <2>2
  <2> QED  BY <2>1, <2>3
<1>7. f \in Injection(K, low..(n - 1))
  BY <1>5, <1>6 DEF Injection, IsInjective
<1>8. low \in Int /\ n - 1 \in Int /\ low \in Nat
  BY <1>1
<1>9. IsFiniteSet(low..(n - 1)) /\ Cardinality(low..(n - 1)) < Cap
  <2>1. /\ IsFiniteSet(low..(n - 1))
        /\ Cardinality(low..(n - 1)) = IF low > n - 1 THEN 0 ELSE (n - 1) - low + 1
    BY <1>8, FS_Interval
  <2> QED  BY <1>1, <2>1
<1> HIDE DEF f, low
<1>10. Cardinality(K) <= Cardinality(low..(n - 1)) /\ IsFiniteSet(K)
  BY <1>7, <1>9, FS_Injection
<1>11. Cardinality(K) \in Nat /\ Cardinality(low..(n - 1)) \in Nat
  BY <1>9, <1>10, FS_CardinalityType
<1>12. Cardinality(K) < Cap
  BY <1>9, <1>10, <1>11
<1> QED  BY <1>12 DEF K

LEMMA CountedRows ==
  ASSUME NEW S \in SUBSET Draft, NEW T \in SUBSET S
  PROVE  /\ IsFiniteSet(S) /\ Cardinality(S) \in Nat
         /\ Cardinality(T) \in Nat /\ Cardinality(T) <= Cardinality(S)
PROOF
<1>1. IsFiniteSet(Draft)
  BY FS_Interval DEF Draft
<1> QED  BY <1>1, FS_Subset, FS_CardinalityType

LEMMA KeptRows == \A t \in Run : Kept(t) \in SUBSET Draft
BY DEF Kept, CustomersRows, Rows

LEMMA CapStatement ==
  ASSUME Typed, CapInv, NEW t \in Run, NEW pc, NEW todo, NEW set,
         Statement(t, pc, todo, set), MadeRoom(t)'
  PROVE  CapInv'
PROOF
<1>1. UNCHANGED <<row, owner, expired, met>> /\ \A u \in Run \ {t} : run'[u] = run[u]
  BY DEF Statement, Tables
<1>2. \A s : CustomersRows(s)' = CustomersRows(s) /\ OpenDrafts(s)' = OpenDrafts(s)
  BY <1>1 DEF CustomersRows, Rows, OpenDrafts
<1>3. CapHolds'
  BY <1>1, <1>2 DEF CapInv, CapHolds, Serial
<1>4. ASSUME NEW u \in Run \ {t}  PROVE MadeRoom(u)'
  <2>1. Kept(u)' = Kept(u) /\ run'[u] = run[u]
    BY <1>1 DEF Kept, CustomersRows, Rows
  <2> QED  BY <1>1, <2>1 DEF CapInv, MadeRoom, View, Serial, Active
<1> QED  BY <1>3, <1>4 DEF CapInv

\* A run that ends: other customers' drafts are as they were.
LEMMA CapEnd ==
  ASSUME Typed, SerialInv, CapInv, NEW t \in Run, Ended(t), CapHolds',
         owner' = owner \/ owner' = Append(owner, run[t].session),
         \A d \in Rows : run[t].set[d] = "unset" /\ d # run[t].held => row'[d] = row[d]
  PROVE  CapInv'
PROOF
<1>1. /\ Active(t) /\ ~Active(t)' /\ met' = met /\ expired' = expired
      /\ \A u \in Run \ {t} : run'[u] = run[u] /\ (Active(u)' <=> Active(u))
      /\ TypeOK /\ run[t] \in Transaction
  BY OpenTransaction DEF Typed, Ended, Active, NoRun
<1>2. MadeRoom(t)'
  BY <1>1 DEF MadeRoom
<1>3. ASSUME NEW u \in Run \ {t}  PROVE MadeRoom(u)'
  <2>1. CASE ~Active(u) \/ ~Serial(run[u].session)
    BY <1>1, <2>1 DEF MadeRoom, Serial
  <2>2. CASE Active(u) /\ Serial(run[u].session)
    <3> DEFINE mine == CustomersRows(run[u].session)
    <3>1. /\ run[t].session \in Session
          /\ CustomerOf[run[t].session] # CustomerOf[run[u].session]
          /\ \A d \in mine : d \in Rows /\ row'[d] = row[d]
      BY <1>1, <2>2, OtherCustomer DEF SerialInv
    <3>2. mine' = mine
      <4>1. CASE owner' = owner
        BY <1>1, <4>1 DEF CustomersRows, Rows
      <4>2. CASE owner' = Append(owner, run[t].session)
        <5>1. /\ Len(owner) + 1 \notin Rows /\ owner'[Len(owner) + 1] = run[t].session
              /\ Rows' \subseteq Rows \cup {Len(owner) + 1} /\ Rows \subseteq Rows'
              /\ \A d \in Rows : owner'[d] = owner[d]
          <6>1. CASE Len(owner) + 1 \in Draft
            BY <1>1, <3>1, <4>2, <6>1, NewRow
          <6>2. CASE Len(owner) + 1 \notin Draft
            <7>1. Len(owner') = Len(owner) + 1 /\ Len(owner) \in Nat
              BY <1>1, <4>2 DEF TypeOK
            <7>2. ASSUME NEW d \in Draft
                  PROVE  d <= Len(owner) + 1 <=> d <= Len(owner)
              <8>1. d \in Nat /\ d # Len(owner) + 1
                BY <6>2 DEF Draft
              <8> QED  BY <7>1, <8>1
            <7>3. Rows' = Rows
              BY <7>1, <7>2 DEF Rows
            <7> QED  BY <1>1, <3>1, <4>2, <7>3, NewRow
          <6> QED  BY <6>1, <6>2
        <5> QED  BY <1>1, <3>1, <5>1 DEF CustomersRows
      <4> QED  BY <4>1, <4>2
    <3>3. Kept(u)' = Kept(u)
      BY <1>1, <3>1, <3>2 DEF Kept
    <3>4. run[u].held # None => row'[run[u].held] = row[run[u].held]
      <4>1. run[u].held # None => run[u].held \in RowsOf(run[u].session)
        BY <2>2 DEF Typed, Owned
      <4> QED  BY <3>1, <4>1 DEF RowsOf, CustomersRows
    <3>5. MadeRoom(u) /\ run'[u] = run[u]
      BY <1>1 DEF CapInv
    <3> QED  BY <2>2, <3>3, <3>4, <3>5 DEF MadeRoom, View
  <2> QED  BY <2>1, <2>2
<1> QED  BY <1>2, <1>3 DEF CapInv

LEMMA FewerOpen ==
  ASSUME Typed, CapInv, met \subseteq met', expired' \in Nat, expired' >= expired,
         \A d \in Rows' : row'[d] = "pending" =>
                            d \in Rows /\ row[d] = "pending" /\ owner'[d] = owner[d]
  PROVE  CapHolds'
PROOF
<1> SUFFICES ASSUME NEW s \in Session, Serial(s)'
             PROVE  Cardinality(OpenDrafts(s)') <= Cap
  BY DEF CapHolds
<1>1. ASSUME NEW d \in OpenDrafts(s)'  PROVE d \in OpenDrafts(s)
  <2>1. d \in Rows' /\ d \in Draft /\ row'[d] = "pending" /\ d > expired'
        /\ CustomerOf[owner'[d]] = CustomerOf[s]
    BY DEF OpenDrafts, CustomersRows, Rows
  <2>2. d \in Nat /\ expired \in Nat
    BY <2>1 DEF Draft, Typed, TypeOK
  <2> QED  BY <2>1, <2>2 DEF OpenDrafts, CustomersRows
<1>2. OpenDrafts(s)' \in SUBSET OpenDrafts(s) /\ OpenDrafts(s) \in SUBSET Draft
  BY <1>1 DEF OpenDrafts, CustomersRows, Rows
<1>3. Serial(s)
  BY DEF Serial
<1>4. Cardinality(OpenDrafts(s)) <= Cap
  BY <1>3 DEF CapInv, CapHolds
<1>5. /\ Cardinality(OpenDrafts(s)') <= Cardinality(OpenDrafts(s))
      /\ Cardinality(OpenDrafts(s)') \in Nat /\ Cardinality(OpenDrafts(s)) \in Nat
  BY <1>2, CountedRows
<1> QED  BY <1>4, <1>5

LEMMA CapInsert ==
  ASSUME Typed, SerialInv, CapInv, NEW t \in Run, InsertDraft(t)
  PROVE  CapInv'
PROOF
<1> DEFINE k == Len(owner) + 1
<1>1. /\ Ended(t) /\ k \in Draft /\ run[t].session \in Session
      /\ run[t].pc = "flip" /\ run[t].todo = {}
      /\ row' = [Committed(t) EXCEPT ![k] = "pending"]
      /\ owner' = Append(owner, run[t].session) /\ TypeOK
      /\ Active(t) /\ expired' = expired /\ met' = met
  BY InsertDraftEffect DEF Typed, Ended
<1>2. /\ k \notin Rows /\ Rows' = Rows \cup {k} /\ owner'[k] = run[t].session
      /\ \A d \in Rows : owner'[d] = owner[d]
  BY <1>1, NewRow
<1>3. /\ row'[k] = "pending"
      /\ \A d \in Rows : d \in Draft /\ row'[d] = View(t, d)
  BY <1>1, <1>2, CommittedType DEF Committed, Rows
<1> HIDE DEF k
<1>4. ASSUME NEW d \in Rows, row'[d] = "pending"
      PROVE  row[d] = "pending" /\ run[t].set[d] = "unset"
  BY <1>3, <1>4 DEF View, Typed, Writes
<1>5. CapHolds'
  <2> SUFFICES ASSUME NEW s \in Session, Serial(s)'
               PROVE  Cardinality(OpenDrafts(s)') <= Cap
    BY DEF CapHolds
  <2>1. Serial(s)
    BY <1>1 DEF Serial
  <2>2. CASE CustomerOf[s] # CustomerOf[run[t].session]
    <3>1. OpenDrafts(s)' \in SUBSET OpenDrafts(s) /\ OpenDrafts(s) \in SUBSET Draft
      BY <1>1, <1>2, <1>4, <2>2 DEF OpenDrafts, CustomersRows, Rows
    <3>2. Cardinality(OpenDrafts(s)) <= Cap
      BY <2>1 DEF CapInv, CapHolds
    <3>3. /\ Cardinality(OpenDrafts(s)') <= Cardinality(OpenDrafts(s))
          /\ Cardinality(OpenDrafts(s)') \in Nat /\ Cardinality(OpenDrafts(s)) \in Nat
      BY <3>1, CountedRows
    <3> QED  BY <3>2, <3>3
  <2>3. CASE CustomerOf[s] = CustomerOf[run[t].session]
    <3>1. Serial(run[t].session) /\ MadeRoom(t)
      BY <2>1, <2>3 DEF Serial, CapInv
    <3>2. Cardinality(Kept(t)) < Cap /\ Kept(t) \in SUBSET Draft
      BY <1>1, <3>1, KeptRows DEF MadeRoom
    <3>3. ASSUME NEW d \in OpenDrafts(s)'  PROVE d \in Kept(t) \cup {k}
      <4>1. d \in Rows' /\ row'[d] = "pending" /\ d > expired
            /\ CustomerOf[owner'[d]] = CustomerOf[run[t].session]
        BY <1>1, <2>3 DEF OpenDrafts, CustomersRows
      <4> QED  BY <1>1, <1>2, <1>4, <4>1 DEF Kept, CustomersRows
    <3>4. /\ IsFiniteSet(Kept(t)) /\ Cardinality(Kept(t)) \in Nat
      BY <3>2, CountedRows
    <3>5. Cardinality(Kept(t) \cup {k}) <= Cardinality(Kept(t)) + 1
      <4>1. Cardinality(Kept(t) \cup {k}) \in {Cardinality(Kept(t)), Cardinality(Kept(t)) + 1}
        BY <3>4, FS_AddElement
      <4> QED  BY <3>4, <4>1
    <3>6. /\ Cardinality(OpenDrafts(s)') <= Cardinality(Kept(t) \cup {k})
          /\ Cardinality(OpenDrafts(s)') \in Nat /\ Cardinality(Kept(t) \cup {k}) \in Nat
      <4>1. Kept(t) \cup {k} \in SUBSET Draft /\ OpenDrafts(s)' \in SUBSET (Kept(t) \cup {k})
        BY <1>1, <3>2, <3>3
      <4> QED  BY <4>1, CountedRows
    <3> QED  BY <3>2, <3>4, <3>5, <3>6
  <2> QED  BY <2>2, <2>3
<1>6. \A d \in Rows : run[t].set[d] = "unset" /\ d # run[t].held => row'[d] = row[d]
  BY <1>3 DEF View
<1> QED  BY <1>1, <1>5, <1>6, CapEnd

LEMMA CapEnds ==
  ASSUME Typed, SerialInv, CapInv, NEW t \in Run,
         \/ Ended(t) /\ UNCHANGED <<owner, placed>> /\ row' \in {row, Committed(t)}
         \/ Place(t)
  PROVE  CapInv'
PROOF
<1>1. \A d \in Draft : /\ Committed(t)[d] = View(t, d)
                       /\ Committed(t)[d] = "pending" => row[d] = "pending"
                       /\ run[t].set[d] = "unset" => View(t, d) = row[d]
  BY CommittedRow DEF View
<1>2. Rows \subseteq Draft /\ Rows' \subseteq Draft /\ expired \in Nat
  BY DEF Rows, Typed, TypeOK
<1>3. CASE Ended(t) /\ UNCHANGED <<owner, placed>> /\ row' \in {row, Committed(t)}
  <2>1. Rows' = Rows /\ met' = met /\ expired' = expired
    BY <1>3 DEF Rows, Ended
  <2>2. CapHolds'
    BY <1>1, <1>2, <1>3, <2>1, FewerOpen
  <2> QED  BY <1>1, <1>2, <1>3, <2>2, CapEnd
<1>4. CASE Place(t)
  <2> DEFINE k == PlacedId(t)
  <2>1. /\ Ended(t) /\ k \in Draft /\ run[t].session \in Session
        /\ row' = [Committed(t) EXCEPT ![k] = "confirmed"]
        /\ owner' = IF run[t].held = None THEN Append(owner, run[t].session) ELSE owner
        /\ TypeOK /\ Committed(t) \in [Draft -> RowStatus]
        /\ met' = met /\ expired' = expired
    BY <1>4, PlaceEffect, PlaceEnds, CommittedType DEF Typed, Ended
  <2>2. /\ run[t].held # None => k = run[t].held /\ Rows' = Rows /\ owner' = owner
        /\ run[t].held = None => /\ k \notin Rows /\ Rows' = Rows \cup {k}
                                 /\ \A d \in Rows : owner'[d] = owner[d]
    BY <2>1, NewRow DEF PlacedId, Rows
  <2> HIDE DEF k
  <2>3. row'[k] = "confirmed" /\ \A d \in Draft : d # k => row'[d] = Committed(t)[d]
    BY <2>1
  <2>4. \A d \in Rows' : row'[d] = "pending" =>
                           d \in Rows /\ row[d] = "pending" /\ owner'[d] = owner[d]
    BY <1>1, <1>2, <2>2, <2>3
  <2>5. CapHolds'
    <3>1. met \subseteq met' /\ expired' \in Nat /\ expired' >= expired
      BY <1>2, <2>1
    <3> QED  BY <2>4, <3>1, FewerOpen
  <2>6. \A d \in Rows : run[t].set[d] = "unset" /\ d # run[t].held => row'[d] = row[d]
    BY <1>1, <1>2, <2>2, <2>3
  <2> QED  BY <2>1, <2>5, <2>6, CapEnd
<1> QED  BY <1>3, <1>4

LEMMA CapSupersede ==
  ASSUME Typed, CapInv, NEW t \in Run, SupersedeHeld(t)
  PROVE  CapInv'
PROOF
<1>1. /\ run[t].held \in Draft /\ Active(t) /\ run[t] \in Transaction /\ Writes(t)
  BY SupersedeHeldEffect, OpenTransaction DEF Typed, SupersedeHeld, Active
<1>2. CASE row[run[t].held] = "pending"
  <2> DEFINE set == [run[t].set EXCEPT ![run[t].held] = "superseded"]
  <2>1. Statement(t, "active", run[t].todo, set) /\ set[run[t].held] = "superseded"
    BY <1>1, <1>2, SupersedeHeldEffect DEF Transaction
  <2> HIDE DEF set
  <2>2. MadeRoom(t)'
    BY <2>1 DEF MadeRoom, Statement, View
  <2> QED  BY <2>1, <2>2, CapStatement
<1>3. CASE row[run[t].held] # "pending"
  <2>1. Statement(t, "active", run[t].todo, run[t].set)
    BY <1>3, SupersedeHeldEffect
  <2>2. MadeRoom(t)'
    <3>1. View(t, run[t].held) # "pending"
      BY <1>1, <1>3 DEF View, Writes
    <3>2. /\ run'[t].pc = "active" /\ run'[t].held = run[t].held /\ run'[t].set = run[t].set
          /\ row' = row
      BY <2>1 DEF Statement, Tables
    <3> QED  BY <3>1, <3>2 DEF MadeRoom, View
  <2> QED  BY <2>1, <2>2, CapStatement
<1> QED  BY <1>2, <1>3

LEMMA CapReadActive ==
  ASSUME Typed, CapInv, NEW t \in Run, ReadActive(t)
  PROVE  CapInv'
PROOF
<1>1. /\ run[t].pc = "active" /\ Statement(t, "flip", Overflow(Found(t)), run[t].set)
      /\ Active(t)
  BY ReadActiveEffect DEF Statement
<1>2. MadeRoom(t)'
  <2> SUFFICES ASSUME Serial(run[t].session)
               PROVE  Cardinality(Kept(t)') < Cap
    BY <1>1 DEF MadeRoom, Statement, Serial
  <2>1. run[t].held # None => View(t, run[t].held) # "pending"
    BY <1>1 DEF CapInv, MadeRoom
  <2>2. /\ run'[t].session = run[t].session /\ run'[t].set = run[t].set
        /\ run'[t].todo = Overflow(Found(t)) /\ UNCHANGED <<row, owner, expired>>
    BY <1>1 DEF Statement, Tables
  <2>3. ASSUME NEW d \in Kept(t)'  PROVE d \in Found(t) \ Overflow(Found(t))
    <3>1. /\ d \in CustomersRows(run[t].session) /\ row[d] = "pending" /\ d > expired
          /\ run[t].set[d] = "unset" /\ d \notin Overflow(Found(t))
      BY <2>2 DEF Kept, CustomersRows, Rows
    <3>2. View(t, d) = "pending" /\ d # None
      BY <3>1 DEF View, CustomersRows, Rows, Draft, None
    <3> QED  BY <2>1, <3>1, <3>2 DEF Found, ActiveStatuses
  <2>4. Found(t) \in SUBSET Draft
    BY DEF Found, CustomersRows, Rows
  <2>5. Cardinality(Found(t) \ Overflow(Found(t))) < Cap
    BY <2>4, OverflowLeavesRoom
  <2>6. /\ Cardinality(Kept(t)') <= Cardinality(Found(t) \ Overflow(Found(t)))
        /\ Cardinality(Kept(t)') \in Nat
        /\ Cardinality(Found(t) \ Overflow(Found(t))) \in Nat
    BY <2>3, <2>4, CountedRows
  <2> QED  BY <2>5, <2>6
<1> QED  BY <1>1, <1>2, CapStatement

LEMMA CapFlipOldest ==
  ASSUME Typed, CapInv, NEW t \in Run, FlipOldest(t)
  PROVE  CapInv'
PROOF
<1>1. run[t].pc = "flip" /\ Active(t) /\ run[t] \in Transaction
  BY OpenTransaction DEF FlipOldest, Active, Typed
<1>2. PICK d \in run[t].todo :
        d \in Draft /\ Statement(t, "flip", run[t].todo \ {d},
                                 [run[t].set EXCEPT ![d] = "superseded"])
  BY FlipOldestEffect
<1>3. MadeRoom(t)'
  <2> SUFFICES ASSUME Serial(run[t].session)
               PROVE  Cardinality(Kept(t)') < Cap
    BY <1>2 DEF MadeRoom, Statement, Serial
  <2>1. Cardinality(Kept(t)) < Cap
    BY <1>1 DEF CapInv, MadeRoom
  <2>2. /\ run'[t].session = run[t].session /\ run'[t].todo = run[t].todo \ {d}
        /\ \A e \in Draft : e # d => run'[t].set[e] = run[t].set[e]
        /\ run'[t].set[d] = "superseded" /\ UNCHANGED <<row, owner, expired>>
    BY <1>1, <1>2 DEF Statement, Tables, Transaction
  <2>3. Kept(t)' \in SUBSET Kept(t) /\ Kept(t) \in SUBSET Draft
    BY <2>2 DEF Kept, CustomersRows, Rows
  <2>4. /\ Cardinality(Kept(t)') <= Cardinality(Kept(t))
        /\ Cardinality(Kept(t)') \in Nat /\ Cardinality(Kept(t)) \in Nat
    BY <2>3, CountedRows
  <2> QED  BY <2>1, <2>4
<1> QED  BY <1>2, <1>3, CapStatement

LEMMA CapElsewhere ==
  ASSUME Typed, CapInv, NEW t \in Run, NEW pc, NEW todo, NEW set,
         Statement(t, pc, todo, set), pc \notin {"active", "flip"}
  PROVE  CapInv'
BY CapStatement DEF MadeRoom, Statement

LEMMA CapStart ==
  ASSUME Typed, CapInv, NEW t \in Run, Start(t)
  PROVE  CapInv'
PROOF
<1>1. PICK s \in Session, d \in 0..MaxDrafts,
           pc \in {"supersede", "active", "lines", "look", "reject"} :
        Started(t, pc, s, d) /\ (pc = "active" => d = None)
  BY StartEffect
<1>2. /\ UNCHANGED <<row, owner, expired>> /\ met \subseteq met'
      /\ \A u \in Run \ {t} : run'[u] = run[u] /\ (Active(u)' <=> Active(u))
      /\ run'[t].pc = pc /\ run'[t].held = d
  BY <1>1 DEF Started, Tables, Active
<1>3. CapHolds'
  BY <1>2, FewerOpen DEF Typed, TypeOK, Rows
<1>4. MadeRoom(t)'
  BY <1>1, <1>2 DEF MadeRoom
<1>5. ASSUME NEW u \in Run \ {t}  PROVE MadeRoom(u)'
  <2>1. Kept(u)' = Kept(u) /\ run'[u] = run[u]
    BY <1>2 DEF Kept, CustomersRows, Rows
  <2> QED  BY <1>2, <2>1 DEF CapInv, MadeRoom, View, Serial
<1> QED  BY <1>3, <1>4, <1>5 DEF CapInv

LEMMA CapExpire ==
  ASSUME Typed, CapInv, Expire
  PROVE  CapInv'
PROOF
<1>1. /\ UNCHANGED <<row, owner, run, met>> /\ expired' = expired + 1 /\ expired \in Nat
  BY DEF Expire, history, Typed, TypeOK
<1>2. CapHolds'
  BY <1>1, FewerOpen DEF Rows
<1>3. ASSUME NEW t \in Run  PROVE MadeRoom(t)'
  <2>1. Kept(t)' \in SUBSET Kept(t) /\ Kept(t) \in SUBSET Draft
    <3>1. \A d \in Draft : d > expired' => d > expired
      BY <1>1 DEF Draft
    <3> QED  BY <1>1, <3>1 DEF Kept, CustomersRows, Rows
  <2>2. /\ Cardinality(Kept(t)') <= Cardinality(Kept(t))
        /\ Cardinality(Kept(t)') \in Nat /\ Cardinality(Kept(t)) \in Nat
    BY <2>1, CountedRows
  <2>3. Cardinality(Kept(t)) < Cap => Cardinality(Kept(t)') < Cap
    BY <2>2
  <2> QED  BY <1>1, <2>3 DEF CapInv, MadeRoom, View, Serial, Active
<1> QED  BY <1>2, <1>3 DEF CapInv

LEMMA CapStep ==
  ASSUME Typed, Once, SerialInv, CapInv, [Next]_vars
  PROVE  CapInv'
PROOF
<1>1. CASE UNCHANGED vars
  BY <1>1 DEF vars, CapInv, CapHolds, MadeRoom, Kept, View, OpenDrafts, CustomersRows, Rows,
     Serial, Active
<1>2. CASE Expire
  BY <1>2, CapExpire
<1>3. ASSUME NEW t \in Run, Start(t)  PROVE CapInv'
  BY <1>3, CapStart
<1>4. ASSUME NEW t \in Run, AnyStep(t)  PROVE CapInv'
  <2>1. CASE TakeLine(t)
    BY <2>1, TakeLineEffect, CapElsewhere
  <2>2. CASE SoldOut(t)
    BY <2>2, SoldOutEffect, CapElsewhere
  <2>3. CASE CheckDraft(t)
    BY <2>3, CheckDraftEffect, CapElsewhere
  <2>4. CASE ConfirmRow(t)
    <3> DEFINE set == [run[t].set EXCEPT ![run[t].held] = "confirmed"]
    <3>1. Statement(t, "place", run[t].todo, set)
      BY <2>4, ConfirmRowEffect
    <3> HIDE DEF set
    <3> QED  BY <3>1, CapElsewhere
  <2>5. CASE SelectDrafts(t)
    BY <2>5, SelectDraftsEffect, CapElsewhere
  <2>6. CASE CancelOne(t)
    BY <2>6, CancelOneEffect, CapElsewhere
  <2>7. CASE RejectRow(t)
    BY <2>7, RejectRowEffect, CapElsewhere
  <2>8. CASE LookConfirmed(t)
    <3>1. CASE Statement(t, "select", run[t].todo, run[t].set)
      BY <3>1, CapElsewhere
    <3>2. CASE Ended(t) /\ UNCHANGED <<row, owner, placed>>
      BY <3>2, CapEnds
    <3> QED  BY <2>8, <3>1, <3>2, LookConfirmedEffect
  <2>9. CASE Release(t)
    BY <2>9, ReleaseEffect, CapEnds
  <2>10. CASE CommitCancel(t)
    BY <2>10, CommitCancelEffect, CapEnds
  <2>11. CASE Rollback(t)
    BY <2>11, RollbackEffect, CapEnds
  <2> QED  BY <1>4, <2>1, <2>2, <2>3, <2>4, <2>5, <2>6, <2>7, <2>8, <2>9, <2>10, <2>11,
           CapSupersede, CapReadActive, CapFlipOldest, CapInsert, CapEnds
           DEF AnyStep, Step, Rollback
<1> QED  BY <1>1, <1>2, <1>3, <1>4 DEF Next, AnyStep

LEMMA CapInit ==
  ASSUME Init
  PROVE  CapInv
PROOF
<1>1. /\ \A t \in Run : ~Active(t)
      /\ \A s \in Session : OpenDrafts(s) = {}
  BY DEF Init, Active, NoRun, OpenDrafts, CustomersRows, Rows, Draft
<1>2. \A s \in Session : Cardinality(OpenDrafts(s)) = 0
  BY <1>1, FS_EmptySet
<1>3. CapHolds
  BY <1>2 DEF CapHolds
<1> QED  BY <1>1, <1>3 DEF CapInv, MadeRoom

\* A customer whose runs never overlapped has at most Cap drafts that can still
\* be confirmed: create_draft makes room before it inserts, in one transaction.
THEOREM CapIsKept == Spec => []CapHolds
PROOF
<1>1. Spec => []CapInv
  BY TypedAlways, OnceAlways, SerialAlways, CapInit, CapStep, PTL DEF Spec
<1>2. CapInv => CapHolds
  BY DEF CapInv
<1> QED  BY <1>1, <1>2, PTL
=============================================================================
