------------------------------- MODULE Stock -------------------------------
(***************************************************************************)
(* The stock of a shop's products under orders.  createOrderFromAI and     *)
(* CreateOrder each take their lines one statement at a time inside a      *)
(* PostgreSQL transaction (READ COMMITTED, rows locked from their first    *)
(* update to the end): the agents' orders with a conditional decrement,    *)
(* the seller's by writing the value read before minus the quantity.       *)
(* UpdateProduct changes the same rows outside any transaction.            *)
(***************************************************************************)
EXTENDS Integers, Sequences, FiniteSets

CONSTANTS
    Product, Variant,   \* ids of products, and of variants ever given out
    ParentOf,           \* the product of a variant
    FirstVariants,      \* the variants there are at first
    AIOrder, SellerOrder,
    Cart,               \* order lines customers and sellers ask for
    Amount,             \* stocks a seller may enter
    NoRow,
    MaxEdits, MaxFaults \* bounds: the seller's edits; gateway crashes

Row == Product \cup Variant
Order == AIOrder \cup SellerOrder

ASSUME StockAssumption ==
    /\ Product \cap Variant = {} /\ NoRow \notin Row
    /\ ParentOf \in [Variant -> Product]
    /\ FirstVariants \subseteq Variant /\ IsFiniteSet(FirstVariants)
    /\ AIOrder \cap SellerOrder = {}
    /\ Cart \subseteq Seq([row : Row, qty : Nat \ {0}]) /\ <<>> \notin Cart
    /\ Amount \subseteq Nat /\ MaxEdits \in Nat /\ MaxFaults \in Nat

VARIABLES
    table,      \* products and product_variants as committed: the stock, of
                \* products also total_sold and is_out_of_stock
    live,       \* the variants that have a row
    used,       \* the variants that had one, ids are not given out again
    at,         \* where each order's handler stands
    cart, line, \* the order's lines, and the one it is at
    target,     \* the row that line was resolved to
    found,      \* the stock read for it
    held,       \* the rows the order's transaction has locked
    dirty,      \* what it has written to them
    taken,      \* taken[o][r]: what its updates took from r
    asks,       \* asks[o][p]: quantity of p in the order's items
    missed,     \* missed[o][p]: of it, what no update counted
    stale,      \* rows o wrote from a value that had changed since it was read
    ordered,    \* ordered[p]: quantity of p in the items of all orders
    uncounted,  \* of it, what no update counted
    due,        \* due[r]: what the seller entered less what was taken since
    raced,      \* rows written by a transaction that was stale there
    short,      \* rows that a seller's order took below zero
    editing,    \* the product whose variants are being replaced
    total,      \* the stock of the variants inserted for it so far
    edits, faults

rowVars  == <<table, live, used>>
lineVars == <<cart, line, target, found>>
txVars   == <<held, dirty, taken, asks, missed, stale>>
sumVars  == <<ordered, uncounted, due, raced, short>>
editVars == <<editing, total, edits>>
vars == <<rowVars, at, lineVars, txVars, sumVars, editVars, faults>>

Place == {"new", "read", "write", "sold", "create", "aborted", "placed", "failed"}
Open == {"read", "write", "sold", "create", "aborted"}
Values == [stock : Int, sold : Nat, out : BOOLEAN]

TypeOK ==
    /\ table \in [Row -> Values] /\ live \subseteq used /\ used \subseteq Variant
    /\ at \in [Order -> Place] /\ cart \in [Order -> Cart \cup {<<>>}]
    /\ line \in [Order -> Nat]
    /\ \A o \in Order : at[o] \in {"read", "write", "sold"} => line[o] \in 1..Len(cart[o])
    /\ target \in [Order -> Row \cup {NoRow}] /\ found \in [Order -> Int]
    /\ \A o \in Order : at[o] = "write" => target[o] \in Row
    /\ \A o \in Order : at[o] = "sold" => target[o] \in Variant
    /\ held \in [Order -> SUBSET Row] /\ dirty \in [Order -> [Row -> Values]]
    /\ taken \in [Order -> [Row -> Nat]]
    /\ asks \in [Order -> [Product -> Nat]] /\ missed \in [Order -> [Product -> Nat]]
    /\ stale \in [Order -> SUBSET Row]
    /\ ordered \in [Product -> Nat] /\ uncounted \in [Product -> Nat]
    /\ due \in [Row -> Int] /\ raced \subseteq Row /\ short \subseteq Row
    /\ editing \in Product \cup {NoRow} /\ total \in Nat
    /\ edits \in 0..MaxEdits /\ faults \in 0..MaxFaults

NoneOf == [p \in Product |-> 0]
NoTakes == [r \in Row |-> 0]
Empty == [stock |-> 0, sold |-> 0, out |-> FALSE]
Clean == [r \in Row |-> Empty]

\* The products as CreateProduct left them, a product's stock the sum of its
\* variants' (all of one amount here).
Init ==
    /\ \E n \in Amount : LET of(p) == {v \in FirstVariants : ParentOf[v] = p} IN
         table = [r \in Row |->
             IF r \in Variant THEN [stock |-> IF r \in FirstVariants THEN n ELSE 0, sold |-> 0, out |-> FALSE]
             ELSE LET s == IF of(r) = {} THEN n ELSE n * Cardinality(of(r)) IN
                  [stock |-> s, sold |-> 0, out |-> s = 0]]
    /\ live = FirstVariants /\ used = FirstVariants
    /\ at = [o \in Order |-> "new"] /\ cart = [o \in Order |-> <<>>]
    /\ line = [o \in Order |-> 1] /\ target = [o \in Order |-> NoRow]
    /\ found = [o \in Order |-> 0]
    /\ held = [o \in Order |-> {}] /\ dirty = [o \in Order |-> Clean]
    /\ taken = [o \in Order |-> NoTakes]
    /\ asks = [o \in Order |-> NoneOf] /\ missed = [o \in Order |-> NoneOf]
    /\ stale = [o \in Order |-> {}]
    /\ ordered = NoneOf /\ uncounted = NoneOf
    /\ due = [r \in Row |-> table[r].stock] /\ raced = {} /\ short = {}
    /\ editing = NoRow /\ total = 0 /\ edits = 0 /\ faults = 0

---------------------------------------------------------------------------
(* PostgreSQL *)

\* A transaction sees its own writes, and what is committed.
Seen(o, r) == IF r \in held[o] THEN dirty[o][r] ELSE table[r]

Exists(r) == r \in Product \/ r \in live
Locked(r) == \E o \in Order : r \in held[o]
Blocks(u, o, r) == u # o /\ r \in held[u]
MayUpdate(o, r) == \A u \in Order : ~Blocks(u, o, r)

\* An update locks the row until the transaction ends.
Put(o, r, values) ==
    /\ dirty' = [dirty EXCEPT ![o][r] = values]
    /\ held' = [held EXCEPT ![o] = @ \cup {r}]

\* The row an order is about to update.
Wanted(o) == CASE at[o] = "write" -> target[o]
               [] at[o] = "sold" -> ParentOf[target[o]]
               [] OTHER -> NoRow

\* PostgreSQL breaks a circle of transactions that wait for each other by
\* failing the statement of one of them.
InCircle(o) ==
    \E waiting \in SUBSET Order :
        /\ o \in waiting
        /\ \A u \in waiting : \E w \in waiting : Blocks(w, u, Wanted(u))

\* The locks, what the transaction wrote and the handler's variables are gone.
End(ending) ==
    /\ held' = [o \in Order |-> IF o \in ending THEN {} ELSE held[o]]
    /\ dirty' = [o \in Order |-> IF o \in ending THEN Clean ELSE dirty[o]]
    /\ taken' = [o \in Order |-> IF o \in ending THEN NoTakes ELSE taken[o]]
    /\ asks' = [o \in Order |-> IF o \in ending THEN NoneOf ELSE asks[o]]
    /\ missed' = [o \in Order |-> IF o \in ending THEN NoneOf ELSE missed[o]]
    /\ stale' = [o \in Order |-> IF o \in ending THEN {} ELSE stale[o]]
    /\ cart' = [o \in Order |-> IF o \in ending THEN <<>> ELSE cart[o]]
    /\ line' = [o \in Order |-> IF o \in ending THEN 1 ELSE line[o]]
    /\ target' = [o \in Order |-> IF o \in ending THEN NoRow ELSE target[o]]
    /\ found' = [o \in Order |-> IF o \in ending THEN 0 ELSE found[o]]

---------------------------------------------------------------------------
(* One line after the other *)

Line(o) == cart[o][line[o]]
Ask(o) == Line(o).qty
Owner(r) == IF r \in Variant THEN ParentOf[r] ELSE r
VariantsOf(p) == {v \in live : ParentOf[v] = p}

\* The line is among the order's items.
Include(o) == asks' = [asks EXCEPT ![o][Owner(Line(o).row)] = @ + Ask(o)]
Miss(o) == missed' = [missed EXCEPT ![o][Owner(Line(o).row)] = @ + Ask(o)]

\* Bug: the loop runs one line too far.
NextLineToo(o) ==
    IF line[o] > Len(cart[o])
    THEN at' = [at EXCEPT ![o] = "create"] /\ UNCHANGED line
    ELSE at' = [at EXCEPT ![o] = "read"] /\ line' = [line EXCEPT ![o] = @ + 1]

NextLine(o) ==
    IF line[o] = Len(cart[o])
    THEN at' = [at EXCEPT ![o] = "create"] /\ UNCHANGED line
    ELSE at' = [at EXCEPT ![o] = "read"] /\ line' = [line EXCEPT ![o] = @ + 1]

Begin(o) ==
    /\ at[o] = "new" /\ at' = [at EXCEPT ![o] = "read"]
    /\ \E c \in Cart : cart' = [cart EXCEPT ![o] = c]
    /\ line' = [line EXCEPT ![o] = 1]
    /\ UNCHANGED <<rowVars, target, found, txVars, sumVars, editVars, faults>>

GoOnWith(o, r) ==
    /\ at' = [at EXCEPT ![o] = "write"]
    /\ target' = [target EXCEPT ![o] = r]
    /\ found' = [found EXCEPT ![o] = Seen(o, r).stock]
    /\ UNCHANGED line

\* What the agent asked for, or a variant of it with enough stock.
Candidates(o) == LET r == Line(o).row IN
    IF r \in Product /\ VariantsOf(r) # {} THEN VariantsOf(r) ELSE {r}
Offered(o) == {r \in Candidates(o) : Exists(r) /\ Seen(o, r).stock >= Ask(o)}

\* A line without stock is left out of the order.
ReadAILine(o) ==
    /\ o \in AIOrder /\ at[o] = "read"
    /\ \/ \E r \in Offered(o) : GoOnWith(o, r)
       \/ Offered(o) = {} /\ NextLine(o) /\ UNCHANGED <<target, found>>
    /\ UNCHANGED <<rowVars, cart, txVars, sumVars, editVars, faults>>

\* A line of a row that is not there stays in the order.
ReadSellerLine(o) ==
    /\ o \in SellerOrder /\ at[o] = "read" /\ Include(o)
    /\ IF Exists(Line(o).row)
       THEN GoOnWith(o, Line(o).row) /\ UNCHANGED missed
       ELSE NextLine(o) /\ Miss(o) /\ UNCHANGED <<target, found>>
    /\ UNCHANGED <<rowVars, cart, held, dirty, taken, stale, sumVars, editVars, faults>>

\* total_sold of a product is counted with its stock, of a variant's product
\* in a statement of its own.
AfterUpdate(o) ==
    IF target[o] \in Variant
    THEN at' = [at EXCEPT ![o] = "sold"] /\ UNCHANGED line
    ELSE NextLine(o)
Sold(o, values) == IF target[o] \in Product THEN values.sold + Ask(o) ELSE values.sold

Take(o) == taken' = [taken EXCEPT ![o][target[o]] = @ + Ask(o)]

\* Bug: the decrement is computed from the stock read before.
WriteAILineAsRead(o) ==
    /\ o \in AIOrder /\ at[o] = "write" /\ MayUpdate(o, target[o])
    /\ LET r == target[o]
           now == Seen(o, r)
       IN Put(o, r, [now EXCEPT !.stock = found[o] - Ask(o), !.sold = Sold(o, now)])
    /\ Take(o) /\ Include(o) /\ AfterUpdate(o)
    /\ UNCHANGED <<rowVars, cart, target, found, missed, stale, sumVars, editVars, faults>>

\* Bug: the update has no condition on the stock.
WriteAILineAlways(o) ==
    /\ o \in AIOrder /\ at[o] = "write" /\ MayUpdate(o, target[o])
    /\ LET r == target[o]
           now == Seen(o, r)
       IN Put(o, r, [now EXCEPT !.stock = @ - Ask(o), !.sold = Sold(o, now)])
    /\ Take(o) /\ Include(o) /\ AfterUpdate(o)
    /\ UNCHANGED <<rowVars, cart, target, found, missed, stale, sumVars, editVars, faults>>

\* The condition is tested on the row as it is once it can be locked.  The
\* handler does not look at the number of rows: the line stays in the order.
WriteAILine(o) ==
    /\ o \in AIOrder /\ at[o] = "write" /\ MayUpdate(o, target[o])
    /\ LET r == target[o]
           now == Seen(o, r)
       IN IF Exists(r) /\ now.stock >= Ask(o)
          THEN /\ Put(o, r, [now EXCEPT !.stock = @ - Ask(o), !.sold = Sold(o, now)])
               /\ Take(o) /\ UNCHANGED missed
          ELSE /\ UNCHANGED <<held, dirty, taken>>
               /\ IF r \in Product THEN Miss(o) ELSE UNCHANGED missed
    /\ Include(o) /\ AfterUpdate(o)
    /\ UNCHANGED <<rowVars, cart, target, found, stale, sumVars, editVars, faults>>

\* Whatever the row holds now, the new value comes from the one read before.
WriteSellerLine(o) ==
    /\ o \in SellerOrder /\ at[o] = "write" /\ MayUpdate(o, target[o])
    /\ LET r == target[o]
           now == Seen(o, r)
           left == found[o] - Ask(o)
       IN IF Exists(r)
          THEN /\ Put(o, r, [stock |-> left, sold |-> Sold(o, now), out |-> r \in Product /\ left <= 0])
               /\ Take(o)
               /\ stale' = IF now.stock = found[o] THEN stale ELSE [stale EXCEPT ![o] = @ \cup {r}]
          ELSE UNCHANGED <<held, dirty, taken, stale>>
    /\ AfterUpdate(o)
    /\ UNCHANGED <<rowVars, cart, target, found, asks, missed, sumVars, editVars, faults>>

\* Bug: total_sold is updated outside the order's transaction.
CountSoldAtOnce(o) ==
    /\ at[o] = "sold" /\ MayUpdate(o, ParentOf[target[o]])
    /\ table' = [table EXCEPT ![ParentOf[target[o]]].sold = @ + Ask(o)]
    /\ NextLine(o)
    /\ UNCHANGED <<live, used, cart, target, found, txVars, sumVars, editVars, faults>>

\* The seller's order then logs the movement; the log of a variant that was
\* deleted in between is refused, which fails the transaction.
CountSold(o) ==
    /\ at[o] = "sold" /\ MayUpdate(o, ParentOf[target[o]])
    /\ LET p == ParentOf[target[o]] IN
         Put(o, p, [Seen(o, p) EXCEPT !.sold = @ + Ask(o)])
    /\ IF o \in SellerOrder /\ target[o] \notin live
       THEN at' = [at EXCEPT ![o] = "aborted"] /\ UNCHANGED line
       ELSE NextLine(o)
    /\ UNCHANGED <<rowVars, cart, target, found, taken, asks, missed, stale,
                   sumVars, editVars, faults>>

Deadlock(o) ==
    /\ at[o] \in {"write", "sold"} /\ InCircle(o)
    /\ at' = [at EXCEPT ![o] = "aborted"]
    /\ UNCHANGED <<rowVars, lineVars, txVars, sumVars, editVars, faults>>

Commit(o) ==
    /\ at[o] = "create" /\ (o \in AIOrder => asks[o] # NoneOf)
    /\ at' = [at EXCEPT ![o] = "placed"] /\ End({o})
    /\ table' = [r \in Row |-> Seen(o, r)]
    /\ ordered' = [p \in Product |-> ordered[p] + asks[o][p]]
    /\ uncounted' = [p \in Product |-> uncounted[p] + missed[o][p]]
    /\ due' = [r \in Row |-> due[r] - taken[o][r]]
    /\ raced' = raced \cup stale[o]
    /\ short' = short \cup {r \in held[o] : o \in SellerOrder /\ dirty[o][r].stock < 0}
    /\ UNCHANGED <<live, used, editVars, faults>>

\* Bug: a failed transaction is left open.
RollbackForgotten(o) ==
    /\ \/ at[o] = "aborted"
       \/ at[o] = "create" /\ o \in AIOrder /\ asks[o] = NoneOf
    /\ at' = [at EXCEPT ![o] = "failed"]
    /\ UNCHANGED <<rowVars, lineVars, txVars, sumVars, editVars, faults>>

\* An order without items, or one whose transaction failed; the agents' are
\* dropped, the seller sees an error.
Rollback(o) ==
    /\ \/ at[o] = "aborted"
       \/ at[o] = "create" /\ o \in AIOrder /\ asks[o] = NoneOf
    /\ at' = [at EXCEPT ![o] = "failed"] /\ End({o})
    /\ UNCHANGED <<rowVars, sumVars, editVars, faults>>

Crash ==
    /\ faults < MaxFaults /\ faults' = faults + 1
    /\ \E o \in Order : at[o] \in Open
    /\ at' = [o \in Order |-> IF at[o] \in Open THEN "failed" ELSE at[o]]
    /\ End({o \in Order : at[o] \in Open})
    /\ editing' = NoRow /\ total' = 0
    /\ UNCHANGED <<rowVars, sumVars, edits>>

---------------------------------------------------------------------------
(* UpdateProduct *)

\* Bug: the stock is entered without its flag.
EnterStockOnly(r, n) ==
    /\ table' = [table EXCEPT ![r].stock = n]
    /\ due' = [due EXCEPT ![r] = n]
    /\ raced' = raced \ {r} /\ short' = short \ {r}

Enter(r, n) ==
    /\ table' = [table EXCEPT ![r] = [@ EXCEPT !.stock = n, !.out = (r \in Product /\ n = 0)]]
    /\ due' = [due EXCEPT ![r] = n]
    /\ raced' = raced \ {r} /\ short' = short \ {r}

EnterStock(p, n) ==
    /\ editing = NoRow /\ edits < MaxEdits /\ edits' = edits + 1
    /\ ~Locked(p) /\ Enter(p, n)
    /\ UNCHANGED <<live, used, at, lineVars, txVars, ordered, uncounted, editing, total, faults>>

\* To have them replaced, or because the product has none any more.
DeleteVariants(p) ==
    /\ editing = NoRow /\ edits < MaxEdits /\ edits' = edits + 1
    /\ \A v \in VariantsOf(p) : ~Locked(v)
    /\ live' = live \ VariantsOf(p)
    /\ editing' \in {p, NoRow}
    /\ UNCHANGED <<table, used, at, lineVars, txVars, sumVars, total, faults>>

InsertVariant(v, n) ==
    /\ editing = ParentOf[v] /\ v \notin used
    /\ live' = live \cup {v} /\ used' = used \cup {v}
    /\ Enter(v, n) /\ total' = total + n
    /\ UNCHANGED <<at, lineVars, txVars, ordered, uncounted, editing, edits, faults>>

EnterTotal ==
    /\ editing \in Product /\ ~Locked(editing)
    /\ Enter(editing, total) /\ editing' = NoRow /\ total' = 0
    /\ UNCHANGED <<live, used, at, lineVars, txVars, ordered, uncounted, edits, faults>>

---------------------------------------------------------------------------

CreateOrderFromAI(o) == ReadAILine(o) \/ WriteAILine(o)
CreateOrder(o) == ReadSellerLine(o) \/ WriteSellerLine(o)
HandleOrder(o) == \/ CreateOrderFromAI(o) \/ CreateOrder(o) \/ CountSold(o)
             \/ Deadlock(o) \/ Commit(o) \/ Rollback(o)
UpdateProduct ==
    \/ \E p \in Product : DeleteVariants(p) \/ \E n \in Amount : EnterStock(p, n)
    \/ \E v \in Variant, n \in Amount : InsertVariant(v, n)
    \/ EnterTotal

Next == (\E o \in Order : Begin(o) \/ HandleOrder(o)) \/ UpdateProduct \/ Crash

\* The handlers that have begun go on; PostgreSQL ends every circle.
Fairness == WF_vars(\E o \in Order : HandleOrder(o))

Spec == Init /\ [][Next]_vars /\ Fairness

---------------------------------------------------------------------------
(* Properties *)

\* The books add up.  total_sold counts exactly what the orders' items say,
\* but for lines whose row was gone or no longer had the stock
\* (orders/handler.go:175 and 196, agents/handler.go:495 and 526 add in SQL and
\* in the order's transaction).  Stock is what the seller entered less what the
\* orders took, wherever no seller's order wrote over a value that had changed
\* since it read it (orders/handler.go:170-172, 192-195; the agents' decrements
\* never do).
TakesAddUp ==
    /\ \A p \in Product : table[p].sold + uncounted[p] = ordered[p]
    /\ \A r \in Row : Exists(r) /\ r \notin raced => table[r].stock = due[r]

\* No agent's order brings a stock below zero, whatever it raced with
\* ("stock >= ?", agents/handler.go:491, 503 and 524): only sellers do.
AgentsNeverOversell ==
    \A r \in Row : Exists(r) /\ table[r].stock < 0 => r \in short

\* A product shown as out of stock has none: every update of the flag goes
\* with the stock it is about (orders/handler.go:194, products/handler.go:298, 347).
OutMeansEmpty == \A p \in Product : table[p].out => table[p].stock <= 0

\* Every order that was begun is placed or refused: no transaction waits for
\* ever, and none keeps its locks (agents/handler.go:543, 562).
OrdersEnd == <>[](\A o \in Order : at[o] \notin Open)
=============================================================================
