---------------------------- MODULE StockProofs ----------------------------
(***************************************************************************)
(* Proofs about Stock, for any products, variants, orders and carts.  The  *)
(* invariants say of an open transaction what each property says of the    *)
(* committed rows, and that no two transactions hold the same row.         *)
(***************************************************************************)
EXTENDS Stock, FiniteSetTheorems, TLAPS

USE DEF rowVars, lineVars, txVars, sumVars, editVars

LineSet == [row : Row, qty : Nat \ {0}]

---------------------------------------------------------------------------
(* Type correctness *)

\* The line an order is at.
LEMMA LineType ==
    ASSUME TypeOK, NEW o \in Order, at[o] \in {"read", "write", "sold"}
    PROVE  Line(o) \in LineSet /\ Ask(o) \in Nat \ {0} /\ cart[o] \in Cart
<1>1. line[o] \in 1..Len(cart[o])
  BY DEF TypeOK
<1>2. cart[o] \in Seq(LineSet) /\ cart[o] \in Cart
  <2>1. cart[o] \in Cart \cup {<<>>} /\ Len(<<>>) = 0 /\ 1..0 = {}
    BY DEF TypeOK
  <2>2. cart[o] # <<>>
    BY <1>1, <2>1
  <2> QED BY <2>1, <2>2, StockAssumption DEF LineSet
<1>3. Line(o) \in LineSet
  BY <1>1, <1>2 DEF Line
<1> QED
  BY <1>2, <1>3 DEF Ask, LineSet

\* What a transaction sees of a row.
LEMMA SeenType ==
    ASSUME TypeOK, NEW o \in Order, NEW r \in Row
    PROVE  Seen(o, r) \in Values
  BY DEF TypeOK, Seen

\* The product an order's items count a row for.
LEMMA OwnerType ==
    ASSUME NEW r \in Row
    PROVE  Owner(r) \in Product
  BY StockAssumption DEF Owner, Row

\* A step to the next line, or to the end of the cart.
LEMMA NextLineType ==
    ASSUME TypeOK, NEW o \in Order, at[o] \in {"read", "write", "sold"}, NextLine(o)
    PROVE  /\ at' \in [Order -> Place] /\ line' \in [Order -> Nat]
           /\ \A u \in Order : u # o => at'[u] = at[u] /\ line'[u] = line[u]
           /\ at'[o] \in {"read", "create"}
           /\ at'[o] = "read" => line'[o] \in 1..Len(cart[o])
<1>1. line[o] \in 1..Len(cart[o]) /\ Len(cart[o]) \in Nat
  <2>1. cart[o] \in Seq(LineSet)
    BY LineType, StockAssumption DEF LineSet
  <2> QED BY <2>1 DEF TypeOK
<1> DEFINE n == Len(cart[o])
<1>2. line[o] \in 1..n /\ n \in Nat
  BY <1>1
<1>3. CASE line[o] = n
  BY <1>3 DEF NextLine, TypeOK, Place
<1>4. CASE line[o] # n
  <2>1. line[o] + 1 \in 1..n
    BY <1>2, <1>4
  <2> HIDE DEF n
  <2>2. at' = [at EXCEPT ![o] = "read"] /\ line' = [line EXCEPT ![o] = @ + 1]
    BY <1>4 DEF NextLine, n
  <2> QED BY <1>2, <2>1, <2>2 DEF n, TypeOK, Place
<1> QED BY <1>3, <1>4

\* The parts of TypeOK that the order lines are about.
LinesOK ==
    /\ at \in [Order -> Place] /\ cart \in [Order -> Cart \cup {<<>>}]
    /\ line \in [Order -> Nat]
    /\ \A o \in Order : at[o] \in {"read", "write", "sold"} => line[o] \in 1..Len(cart[o])
    /\ target \in [Order -> Row \cup {NoRow}] /\ found \in [Order -> Int]
    /\ \A o \in Order : at[o] = "write" => target[o] \in Row
    /\ \A o \in Order : at[o] = "sold" => target[o] \in Variant

\* The parts that transactions write.
TxOK ==
    /\ held \in [Order -> SUBSET Row] /\ dirty \in [Order -> [Row -> Values]]
    /\ taken \in [Order -> [Row -> Nat]]
    /\ asks \in [Order -> [Product -> Nat]] /\ missed \in [Order -> [Product -> Nat]]
    /\ stale \in [Order -> SUBSET Row]

\* The committed rows, the sums over orders, and the seller's edit.
RowsOK ==
    /\ table \in [Row -> Values] /\ live \subseteq used /\ used \subseteq Variant
    /\ ordered \in [Product -> Nat] /\ uncounted \in [Product -> Nat]
    /\ due \in [Row -> Int] /\ raced \subseteq Row /\ short \subseteq Row
    /\ editing \in Product \cup {NoRow} /\ total \in Nat
    /\ edits \in 0..MaxEdits /\ faults \in 0..MaxFaults

LEMMA TypeParts == TypeOK <=> LinesOK /\ TxOK /\ RowsOK
  BY DEF TypeOK, LinesOK, TxOK, RowsOK

\* Going on to the next line keeps the lines in order.
LEMMA LinesNext ==
    ASSUME TypeOK, NEW o \in Order, at[o] \in {"read", "write", "sold"}, NextLine(o),
           UNCHANGED <<cart, target, found>>
    PROVE  LinesOK'
  BY NextLineType DEF TypeOK, LinesOK

\* Ending some orders empties what was theirs.
LEMMA EndType ==
    ASSUME TypeOK, NEW ending \in SUBSET Order, End(ending),
           at' \in [Order -> Place], \A o \in ending : at'[o] \in {"placed", "failed"},
           \A o \in Order \ ending : at'[o] = at[o]
    PROVE  LinesOK' /\ TxOK'
<1>1. NoneOf \in [Product -> Nat] /\ NoTakes \in [Row -> Nat] /\ Clean \in [Row -> Values]
  BY DEF NoneOf, NoTakes, Clean, Empty, Values
<1>2. LinesOK'
  <2>1. /\ cart' \in [Order -> Cart \cup {<<>>}] /\ line' \in [Order -> Nat]
        /\ target' \in [Order -> Row \cup {NoRow}] /\ found' \in [Order -> Int]
    BY DEF End, TypeOK
  <2>2. ASSUME NEW o \in Order, at'[o] \in {"read", "write", "sold"}
        PROVE  /\ at'[o] = at[o] /\ line'[o] = line[o] /\ cart'[o] = cart[o]
               /\ target'[o] = target[o]
    <3>1. o \notin ending
      BY <2>2
    <3> QED BY <3>1 DEF End
  <2> QED BY <2>1, <2>2 DEF TypeOK, LinesOK
<1>3. TxOK'
  BY <1>1 DEF End, TypeOK, TxOK
<1> QED BY <1>2, <1>3

\* A row written within a transaction.
LEMMA PutType ==
    ASSUME TypeOK, NEW o \in Order, NEW r \in Row, NEW values \in Values, Put(o, r, values)
    PROVE  held' \in [Order -> SUBSET Row] /\ dirty' \in [Order -> [Row -> Values]]
  BY DEF Put, TypeOK

\* A counted quantity.
LEMMA AddType ==
    ASSUME NEW D, NEW f \in [Order -> [D -> Nat]], NEW o \in Order, NEW d \in D, NEW n \in Nat
    PROVE  [f EXCEPT ![o][d] = @ + n] \in [Order -> [D -> Nat]]
  OBVIOUS

\* What the order's items ask for, and what of it was missed.
LEMMA AsksType ==
    ASSUME TypeOK, NEW o \in Order, at[o] \in {"read", "write", "sold"}
    PROVE  /\ Include(o) => asks' \in [Order -> [Product -> Nat]]
           /\ Miss(o) => missed' \in [Order -> [Product -> Nat]]
<1>1. Owner(Line(o).row) \in Product /\ Ask(o) \in Nat
  BY LineType, OwnerType DEF LineSet
<1> DEFINE p == Owner(Line(o).row)
<1> HIDE DEF p
<1>2. p \in Product /\ Ask(o) \in Nat
  BY <1>1 DEF p
<1>3. Include(o) => asks' = [asks EXCEPT ![o][p] = @ + Ask(o)]
  BY DEF Include, p
<1>4. Miss(o) => missed' = [missed EXCEPT ![o][p] = @ + Ask(o)]
  BY DEF Miss, p
<1> QED
  <2>1. asks \in [Order -> [Product -> Nat]] /\ missed \in [Order -> [Product -> Nat]]
    BY DEF TypeOK
  <2> DEFINE n == Ask(o)
  <2> HIDE DEF n
  <2>2. n \in Nat
    BY <1>2 DEF n
  <2>3. ASSUME Include(o) PROVE asks' \in [Order -> [Product -> Nat]]
    <3>1. asks' = [asks EXCEPT ![o][p] = @ + n]
      BY <1>3, <2>3 DEF n
    <3> QED BY <1>2, <2>1, <2>2, <3>1
  <2>4. ASSUME Miss(o) PROVE missed' \in [Order -> [Product -> Nat]]
    <3>1. missed' = [missed EXCEPT ![o][p] = @ + n]
      BY <1>4, <2>4 DEF n
    <3> QED BY <1>2, <2>1, <2>2, <3>1
  <2> QED BY <2>3, <2>4

\* What an update takes.
LEMMA TakeType ==
    ASSUME TypeOK, NEW o \in Order, at[o] = "write", Take(o)
    PROVE  taken' \in [Order -> [Row -> Nat]]
<1>1. target[o] \in Row /\ Ask(o) \in Nat
  BY LineType DEF TypeOK
<1> QED
  BY <1>1, AddType DEF Take, TypeOK

\* A line whose row was updated.
LEMMA AfterType ==
    ASSUME TypeOK, NEW o \in Order, at[o] = "write", AfterUpdate(o),
           UNCHANGED <<cart, target, found>>
    PROVE  LinesOK'
<1>1. CASE target[o] \in Variant
  BY <1>1 DEF AfterUpdate, TypeOK, LinesOK, Place
<1>2. CASE target[o] \notin Variant
  BY <1>2, LinesNext DEF AfterUpdate
<1> QED BY <1>1, <1>2

\* A line that was resolved to a row.
LEMMA GoOnType ==
    ASSUME TypeOK, NEW o \in Order, at[o] = "read", NEW r \in Row, GoOnWith(o, r),
           UNCHANGED cart
    PROVE  LinesOK'
<1>1. Seen(o, r).stock \in Int
  BY SeenType DEF Values
<1> QED
  BY <1>1 DEF GoOnWith, TypeOK, LinesOK, Place

\* The rows stay as they are, but for the seller's edit.
LEMMA RowsKept ==
    ASSUME TypeOK, UNCHANGED <<rowVars, sumVars, editVars, faults>>
    PROVE  RowsOK'
  BY DEF TypeOK, RowsOK

\* A row with the stock the seller entered.
LEMMA EnterType ==
    ASSUME TypeOK, NEW r \in Row, NEW n \in Nat, Enter(r, n)
    PROVE  /\ table' \in [Row -> Values] /\ due' \in [Row -> Int]
           /\ raced' \subseteq Row /\ short' \subseteq Row
<1>1. [table[r] EXCEPT !.stock = n, !.out = (r \in Product /\ n = 0)] \in Values
  <2> DEFINE none == r \in Product /\ n = 0
  <2>1. table[r] \in Values /\ none \in BOOLEAN /\ n \in Int
    BY DEF TypeOK
  <2> HIDE DEF none
  <2>2. [table[r] EXCEPT !.stock = n, !.out = none] \in Values
    BY <2>1 DEF Values
  <2> QED BY <2>2 DEF none
<1>2. table' = [table EXCEPT ![r] = [table[r] EXCEPT !.stock = n, !.out = (r \in Product /\ n = 0)]]
  BY DEF Enter
<1>3. table' \in [Row -> Values]
  BY <1>1, <1>2 DEF TypeOK
<1> QED BY <1>3 DEF Enter, TypeOK

\* A counter within its bound.
LEMMA CountUp ==
    ASSUME NEW max \in Nat, NEW n \in 0..max, n < max
    PROVE  n + 1 \in 0..max
  OBVIOUS

\* Every variable keeps its type.
LEMMA TypeInductive == TypeOK /\ [Next]_vars => TypeOK'
<1> SUFFICES ASSUME TypeOK PROVE [Next]_vars => LinesOK' /\ TxOK' /\ RowsOK'
  BY DEF TypeOK, LinesOK, TxOK, RowsOK
<1>a. UNCHANGED txVars => TxOK'
  BY DEF TypeOK, TxOK
<1>b. UNCHANGED <<at, lineVars>> => LinesOK'
  BY DEF TypeOK, LinesOK
<1>1. ASSUME NEW o \in Order, Begin(o) PROVE LinesOK' /\ TxOK' /\ RowsOK'
  <2>1. PICK c \in Cart : cart' = [cart EXCEPT ![o] = c]
    BY <1>1 DEF Begin
  <2>2. 1 \in 1..Len(c)
    BY StockAssumption
  <2> QED BY <1>1, <2>1, <2>2, <1>a, RowsKept DEF Begin, TypeOK, LinesOK, Place
<1>2. ASSUME NEW o \in Order, ReadAILine(o) PROVE LinesOK' /\ TxOK' /\ RowsOK'
  <2>1. CASE Offered(o) = {}
    BY <1>2, <2>1, <1>a, RowsKept, LinesNext DEF ReadAILine
  <2>2. ASSUME NEW r \in Offered(o), GoOnWith(o, r) PROVE LinesOK'
    <3>1. r \in Row
      BY <1>2, LineType DEF ReadAILine, Offered, Candidates, VariantsOf, LineSet, Row, TypeOK
    <3> QED BY <1>2, <2>2, <3>1, GoOnType DEF ReadAILine
  <2>3. LinesOK'
    BY <1>2, <2>2, LinesNext DEF ReadAILine
  <2> QED BY <1>2, <2>3, <1>a, RowsKept DEF ReadAILine
<1>3. ASSUME NEW o \in Order, ReadSellerLine(o) PROVE LinesOK' /\ TxOK' /\ RowsOK'
  <2>1. at[o] = "read" /\ Line(o).row \in Row
    BY <1>3, LineType DEF ReadSellerLine, LineSet
  <2>2. asks' \in [Order -> [Product -> Nat]] /\ missed' \in [Order -> [Product -> Nat]]
    BY <1>3, <2>1, AsksType DEF ReadSellerLine, TypeOK
  <2>3. LinesOK'
    BY <1>3, <2>1, GoOnType, LinesNext DEF ReadSellerLine
  <2> QED BY <1>3, <2>2, <2>3, RowsKept DEF ReadSellerLine, TxOK, TypeOK
<1>4. ASSUME NEW o \in Order, WriteAILine(o) PROVE LinesOK' /\ TxOK' /\ RowsOK'
  <2> DEFINE r == target[o]
             now == Seen(o, r)
             values == [now EXCEPT !.stock = @ - Ask(o), !.sold = Sold(o, now)]
  <2>1. at[o] = "write" /\ r \in Row /\ Ask(o) \in Nat /\ now \in Values
    BY <1>4, LineType, SeenType DEF WriteAILine, TypeOK
  <2>2. values \in Values
    <3>1. Sold(o, now) \in Nat /\ now.stock - Ask(o) \in Int
      BY <2>1 DEF Values, Sold
    <3> HIDE DEF now
    <3> QED BY <2>1, <3>1 DEF Values
  <2>3. LinesOK'
    BY <1>4, <2>1, AfterType DEF WriteAILine
  <2>4. /\ held' \in [Order -> SUBSET Row] /\ dirty' \in [Order -> [Row -> Values]]
        /\ taken' \in [Order -> [Row -> Nat]] /\ missed' \in [Order -> [Product -> Nat]]
    <3>1. CASE Exists(r) /\ now.stock >= Ask(o)
      BY <1>4, <3>1, <2>1, <2>2, PutType, TakeType DEF WriteAILine, TypeOK
    <3>2. CASE ~(Exists(r) /\ now.stock >= Ask(o))
      BY <1>4, <3>2, <2>1, AsksType DEF WriteAILine, TypeOK
    <3> QED BY <3>1, <3>2
  <2>5. asks' \in [Order -> [Product -> Nat]]
    BY <1>4, <2>1, AsksType DEF WriteAILine
  <2> QED BY <1>4, <2>3, <2>4, <2>5, RowsKept DEF WriteAILine, TxOK, TypeOK
<1>5. ASSUME NEW o \in Order, WriteSellerLine(o) PROVE LinesOK' /\ TxOK' /\ RowsOK'
  <2> DEFINE r == target[o]
             now == Seen(o, r)
             left == found[o] - Ask(o)
             values == [stock |-> left, sold |-> Sold(o, now), out |-> r \in Product /\ left <= 0]
  <2>1. at[o] = "write" /\ r \in Row /\ Ask(o) \in Nat /\ now \in Values /\ found[o] \in Int
    BY <1>5, LineType, SeenType DEF WriteSellerLine, TypeOK
  <2>2. values \in Values
    BY <2>1 DEF Values, Sold
  <2>3. LinesOK'
    BY <1>5, <2>1, AfterType DEF WriteSellerLine
  <2>4. /\ held' \in [Order -> SUBSET Row] /\ dirty' \in [Order -> [Row -> Values]]
        /\ taken' \in [Order -> [Row -> Nat]]
    BY <1>5, <2>1, <2>2, PutType, TakeType DEF WriteSellerLine, TypeOK
  <2>5. stale' \in [Order -> SUBSET Row]
    <3>1. stale' = stale \/ stale' = [stale EXCEPT ![o] = @ \cup {r}]
      BY <1>5 DEF WriteSellerLine
    <3>2. stale \in [Order -> SUBSET Row]
      BY DEF TypeOK
    <3> QED BY <2>1, <3>1, <3>2
  <2> QED BY <1>5, <2>3, <2>4, <2>5, RowsKept DEF WriteSellerLine, TxOK, TypeOK
<1>6. ASSUME NEW o \in Order, CountSold(o) PROVE LinesOK' /\ TxOK' /\ RowsOK'
  <2> DEFINE p == ParentOf[target[o]]
             values == [Seen(o, p) EXCEPT !.sold = @ + Ask(o)]
  <2>1. at[o] = "sold" /\ p \in Row /\ Ask(o) \in Nat /\ Seen(o, p) \in Values
    BY <1>6, LineType, SeenType, StockAssumption DEF CountSold, TypeOK, Row
  <2>2. values \in Values
    BY <2>1 DEF Values
  <2>3. held' \in [Order -> SUBSET Row] /\ dirty' \in [Order -> [Row -> Values]]
    BY <1>6, <2>1, <2>2, PutType DEF CountSold
  <2>4. LinesOK'
    <3>1. CASE o \in SellerOrder /\ target[o] \notin live
      BY <1>6, <3>1 DEF CountSold, TypeOK, LinesOK, Place
    <3>2. CASE ~(o \in SellerOrder /\ target[o] \notin live)
      BY <1>6, <3>2, LinesNext DEF CountSold
    <3> QED BY <3>1, <3>2
  <2> QED BY <1>6, <2>3, <2>4, RowsKept DEF CountSold, TxOK, TypeOK
<1>7. ASSUME NEW o \in Order, Deadlock(o) PROVE LinesOK' /\ TxOK' /\ RowsOK'
  BY <1>7, <1>a, RowsKept DEF Deadlock, LinesOK, TypeOK, Place
<1>8. ASSUME NEW o \in Order, Commit(o) PROVE LinesOK' /\ TxOK' /\ RowsOK'
  <2>1. LinesOK' /\ TxOK'
    <3>1. End({o}) /\ {o} \in SUBSET Order /\ at' \in [Order -> Place]
      BY <1>8 DEF Commit, TypeOK, Place
    <3>2. at'[o] \in {"placed", "failed"} /\ \A u \in Order \ {o} : at'[u] = at[u]
      BY <1>8 DEF Commit, TypeOK
    <3> QED BY <3>1, <3>2, EndType
  <2>2. table' \in [Row -> Values]
    BY <1>8, SeenType DEF Commit
  <2>3. ordered' \in [Product -> Nat] /\ uncounted' \in [Product -> Nat] /\ due' \in [Row -> Int]
    BY <1>8, SMTT(30) DEF Commit, TypeOK
  <2>4. raced' \subseteq Row /\ short' \subseteq Row
    BY <1>8 DEF Commit, TypeOK
  <2> QED BY <1>8, <2>1, <2>2, <2>3, <2>4 DEF Commit, RowsOK, TypeOK
<1>9. ASSUME NEW o \in Order, Rollback(o) PROVE LinesOK' /\ TxOK' /\ RowsOK'
  <2>1. LinesOK' /\ TxOK'
    <3>1. End({o}) /\ {o} \in SUBSET Order /\ at' \in [Order -> Place]
      BY <1>9 DEF Rollback, TypeOK, Place
    <3>2. at'[o] \in {"placed", "failed"} /\ \A u \in Order \ {o} : at'[u] = at[u]
      BY <1>9 DEF Rollback, TypeOK
    <3> QED BY <3>1, <3>2, EndType
  <2> QED BY <1>9, <2>1, RowsKept DEF Rollback
<1>10. ASSUME NEW p \in Product, DeleteVariants(p) PROVE LinesOK' /\ TxOK' /\ RowsOK'
  <2>1. edits' \in 0..MaxEdits
    BY <1>10, CountUp, StockAssumption DEF DeleteVariants, TypeOK
  <2> QED BY <1>10, <2>1, <1>a, <1>b DEF DeleteVariants, RowsOK, TypeOK
<1>11. ASSUME NEW p \in Product, NEW n \in Amount, EnterStock(p, n) PROVE LinesOK' /\ TxOK' /\ RowsOK'
  <2>1. edits' \in 0..MaxEdits
    BY <1>11, CountUp, StockAssumption DEF EnterStock, TypeOK
  <2>2. p \in Row /\ n \in Nat
    BY StockAssumption DEF Row
  <2> QED BY <1>11, <2>1, <2>2, <1>a, <1>b, EnterType DEF EnterStock, RowsOK, TypeOK
<1>12. ASSUME NEW v \in Variant, NEW n \in Amount, InsertVariant(v, n) PROVE LinesOK' /\ TxOK' /\ RowsOK'
  <2>1. v \in Row /\ n \in Nat
    BY StockAssumption DEF Row
  <2> QED BY <1>12, <2>1, <1>a, <1>b, EnterType DEF InsertVariant, RowsOK, TypeOK
<1>13. ASSUME EnterTotal PROVE LinesOK' /\ TxOK' /\ RowsOK'
  <2>1. editing \in Row /\ total \in Nat
    BY <1>13 DEF EnterTotal, Row, TypeOK
  <2> QED BY <1>13, <2>1, <1>a, <1>b, EnterType DEF EnterTotal, RowsOK, TypeOK
<1>14. ASSUME Crash PROVE LinesOK' /\ TxOK' /\ RowsOK'
  <2>1. faults' \in 0..MaxFaults
    BY <1>14, CountUp, StockAssumption DEF Crash, TypeOK
  <2>2. LinesOK' /\ TxOK'
    BY <1>14, EndType DEF Crash, TypeOK, Place
  <2> QED BY <1>14, <2>1, <2>2 DEF Crash, RowsOK, TypeOK
<1>15. ASSUME UNCHANGED vars PROVE LinesOK' /\ TxOK' /\ RowsOK'
  BY <1>15, <1>a, <1>b, RowsKept DEF vars
<1> QED
  BY <1>1, <1>2, <1>3, <1>4, <1>5, <1>6, <1>7, <1>8, <1>9, <1>10, <1>11, <1>12, <1>13,
     <1>14, <1>15 DEF Next, HandleOrder, CreateOrderFromAI, CreateOrder, UpdateProduct

\* The first state is typed.
LEMMA TypeInit == Init => TypeOK
<1> SUFFICES ASSUME Init PROVE TypeOK
  OBVIOUS
<1> DEFINE of(p) == {v \in FirstVariants : ParentOf[v] = p}
<1>1. PICK n \in Amount : table = [r \in Row |->
             IF r \in Variant THEN [stock |-> IF r \in FirstVariants THEN n ELSE 0, sold |-> 0, out |-> FALSE]
             ELSE LET s == IF of(r) = {} THEN n ELSE n * Cardinality(of(r)) IN
                  [stock |-> s, sold |-> 0, out |-> s = 0]]
  BY DEF Init
<1>2. \A p : Cardinality(of(p)) \in Nat
  <2>1. \A p : of(p) \subseteq FirstVariants
    OBVIOUS
  <2> HIDE DEF of
  <2> QED BY <2>1, FS_Subset, FS_CardinalityType, StockAssumption
<1>3. n \in Nat /\ \A p : n * Cardinality(of(p)) \in Nat
  <2>1. \A a, b \in Nat : a * b \in Nat
    OBVIOUS
  <2> HIDE DEF of
  <2> QED BY <1>2, <2>1, StockAssumption
<1>4. table \in [Row -> Values]
  <2> DEFINE sum(p) == IF of(p) = {} THEN n ELSE n * Cardinality(of(p))
             variant(r) == [stock |-> IF r \in FirstVariants THEN n ELSE 0, sold |-> 0, out |-> FALSE]
             product(r) == [stock |-> sum(r), sold |-> 0, out |-> sum(r) = 0]
  <2>1. table = [r \in Row |-> IF r \in Variant THEN variant(r) ELSE product(r)]
    BY <1>1
  <2>2. \A r : variant(r) \in Values
    BY <1>3 DEF Values, Empty
  <2>3. \A r : product(r) \in Values
    <3>1. \A p : sum(p) \in Nat
      BY <1>3
    <3> HIDE DEF sum
    <3> QED BY <3>1 DEF Values
  <2> HIDE DEF variant, product
  <2> QED BY <2>1, <2>2, <2>3
<1>5. NoneOf \in [Product -> Nat] /\ NoTakes \in [Row -> Nat] /\ Clean \in [Row -> Values]
  BY DEF NoneOf, NoTakes, Clean, Empty, Values
<1>6. due \in [Row -> Int]
  BY <1>4 DEF Init, Values
<1>7. LinesOK
  BY StockAssumption DEF Init, LinesOK, Place
<1>8. TxOK
  BY <1>5 DEF Init, TxOK
<1>9. RowsOK
  <2>1. edits \in 0..MaxEdits /\ faults \in 0..MaxFaults
    BY StockAssumption DEF Init
  <2>2. live \subseteq used /\ used \subseteq Variant /\ editing \in Product \cup {NoRow}
    BY StockAssumption DEF Init
  <2> QED BY <1>4, <1>5, <1>6, <2>1, <2>2 DEF Init, RowsOK
<1> QED BY <1>7, <1>8, <1>9, TypeParts

\* For any products, carts, orders and edits every variable of the stock keeps
\* its type: an open order stands at a line of its cart that was resolved to a
\* row before it writes (agents/handler.go:444-539, orders/handler.go:163-212).
THEOREM TypeCorrect == Spec => []TypeOK
  BY TypeInit, TypeInductive, PTL DEF Spec
---------------------------------------------------------------------------
(* What a step does to the rows *)

\* An order's update: the agents' conditional one, the seller's, or the count
\* of sales that follows it.
Writes(o, r, values) ==
    /\ Put(o, r, values) /\ r \in Row /\ (r \in Variant => r \in used)
    /\ \/ o \in AIOrder /\ Seen(o, r).stock > 0 /\ values.stock >= 0 /\ values.out = Seen(o, r).out
       \/ o \in SellerOrder /\ (values.out => values.stock <= 0)
       \/ values.stock = Seen(o, r).stock /\ values.out = Seen(o, r).out
    /\ UNCHANGED <<table, used, short>>

\* The seller enters the stock of a row no order has locked.
Enters(r, n) ==
    /\ Enter(r, n) /\ r \in Row /\ n \in Nat /\ (Locked(r) => r \in Variant \ used)
    /\ used \subseteq used' /\ UNCHANGED <<held, dirty>>

\* No other step touches a row.
Rests == UNCHANGED <<table, held, dirty, short>> /\ used \subseteq used'

LEMMA StepEffect ==
    ASSUME TypeOK, [Next]_vars
    PROVE  \/ Rests
           \/ \E o \in Order, r \in Row, values \in Values : Writes(o, r, values)
           \/ \E o \in Order : Commit(o)
           \/ \E ending \in SUBSET Order : End(ending) /\ UNCHANGED <<table, used, short>>
           \/ \E r \in Row, n \in Nat : Enters(r, n)
<1>1. ASSUME NEW o \in Order, Begin(o) \/ ReadAILine(o) \/ ReadSellerLine(o) \/ Deadlock(o)
      PROVE  Rests
  BY <1>1 DEF Rests, Begin, ReadAILine, ReadSellerLine, Deadlock
<1>2. ASSUME NEW o \in Order, WriteAILine(o)
      PROVE  Rests \/ \E r \in Row, values \in Values : Writes(o, r, values)
  <2> DEFINE r == target[o]
             now == Seen(o, r)
             values == [now EXCEPT !.stock = @ - Ask(o), !.sold = Sold(o, now)]
  <2>1. r \in Row /\ Ask(o) \in Nat \ {0} /\ now \in Values
    BY <1>2, LineType, SeenType DEF WriteAILine, TypeOK
  <2>2. /\ values \in Values /\ values.out = now.out
        /\ now.stock >= Ask(o) => now.stock > 0 /\ values.stock >= 0
    <3> DEFINE n == Ask(o)
               sold == Sold(o, now)
               after == [now EXCEPT !.stock = @ - n, !.sold = sold]
    <3>1. n \in Nat \ {0} /\ sold \in Nat /\ now \in Values
      BY <2>1 DEF Values, Sold
    <3> HIDE DEF now, n, sold
    <3>2. /\ after \in Values /\ after.out = now.out
          /\ now.stock >= n => now.stock > 0 /\ after.stock >= 0
      <4>1. now.stock \in Int /\ now.stock - n \in Int
        BY <3>1 DEF Values
      <4>2. after.stock = now.stock - n /\ after.out = now.out
        BY <3>1 DEF Values
      <4>3. after \in Values
        BY <3>1, <4>1 DEF Values
      <4>4. now.stock >= n => now.stock > 0 /\ now.stock - n >= 0
        BY <3>1, <4>1
      <4> QED BY <4>2, <4>3, <4>4
    <3> QED BY <3>2 DEF n, sold
  <2>3. CASE Exists(r) /\ now.stock >= Ask(o)
    <3>1. Put(o, r, values) /\ UNCHANGED <<table, used, short>>
      BY <1>2, <2>3 DEF WriteAILine
    <3>2. r \in Variant => r \in used
      BY <2>3, StockAssumption DEF Exists, TypeOK
    <3>3. o \in AIOrder
      BY <1>2 DEF WriteAILine
    <3> HIDE DEF values, now
    <3>4. Writes(o, r, values)
      BY <2>1, <2>2, <2>3, <3>1, <3>2, <3>3 DEF Writes, now
    <3> QED BY <2>1, <2>2, <3>4
  <2>4. CASE ~(Exists(r) /\ now.stock >= Ask(o))
    BY <1>2, <2>4 DEF WriteAILine, Rests
  <2> QED BY <2>3, <2>4
<1>3. ASSUME NEW o \in Order, WriteSellerLine(o)
      PROVE  Rests \/ \E r \in Row, values \in Values : Writes(o, r, values)
  <2> DEFINE r == target[o]
             now == Seen(o, r)
             left == found[o] - Ask(o)
             values == [stock |-> left, sold |-> Sold(o, now), out |-> r \in Product /\ left <= 0]
  <2>1. r \in Row /\ Ask(o) \in Nat /\ now \in Values /\ found[o] \in Int
    BY <1>3, LineType, SeenType DEF WriteSellerLine, TypeOK
  <2>2. values \in Values /\ (values.out => values.stock <= 0)
    <3>1. values \in Values
      BY <2>1 DEF Values, Sold
    <3>2. values.out = (r \in Product /\ left <= 0) /\ values.stock = left
      OBVIOUS
    <3> QED BY <3>1, <3>2
  <2>3. CASE Exists(r)
    <3>1. Put(o, r, values) /\ o \in SellerOrder /\ UNCHANGED <<table, used, short>>
      BY <1>3, <2>3 DEF WriteSellerLine
    <3>2. r \in Variant => r \in used
      BY <2>3, StockAssumption DEF Exists, TypeOK
    <3> HIDE DEF values
    <3>3. Writes(o, r, values)
      BY <2>1, <2>2, <3>1, <3>2 DEF Writes
    <3> QED BY <2>1, <2>2, <3>3
  <2>4. CASE ~Exists(r)
    BY <1>3, <2>4 DEF WriteSellerLine, Rests
  <2> QED BY <2>3, <2>4
<1>4. ASSUME NEW o \in Order, CountSold(o)
      PROVE  \E r \in Row, values \in Values : Writes(o, r, values)
  <2> DEFINE p == ParentOf[target[o]]
             values == [Seen(o, p) EXCEPT !.sold = @ + Ask(o)]
  <2>1. p \in Row /\ p \notin Variant /\ Ask(o) \in Nat /\ Seen(o, p) \in Values
    BY <1>4, LineType, SeenType, StockAssumption DEF CountSold, TypeOK, Row
  <2>2. values \in Values /\ values.stock = Seen(o, p).stock /\ values.out = Seen(o, p).out
    BY <2>1 DEF Values
  <2>3. Put(o, p, values) /\ UNCHANGED <<table, used, short>>
    BY <1>4 DEF CountSold
  <2> HIDE DEF values
  <2>4. Writes(o, p, values)
    BY <2>1, <2>2, <2>3 DEF Writes
  <2> QED BY <2>1, <2>2, <2>4
<1>5. ASSUME (\E o \in Order : Rollback(o)) \/ Crash
      PROVE  \E ending \in SUBSET Order : End(ending) /\ UNCHANGED <<table, used, short>>
  BY <1>5 DEF Rollback, Crash
<1>6. ASSUME NEW p \in Product, NEW n \in Amount, EnterStock(p, n)
      PROVE  \E r \in Row, k \in Nat : Enters(r, k)
  <2>1. p \in Row /\ n \in Nat
    BY StockAssumption DEF Row
  <2> QED BY <1>6, <2>1 DEF EnterStock, Enters
<1>7. ASSUME NEW v \in Variant, NEW n \in Amount, InsertVariant(v, n)
      PROVE  \E r \in Row, k \in Nat : Enters(r, k)
  <2>1. v \in Row /\ n \in Nat
    BY StockAssumption DEF Row
  <2> QED BY <1>7, <2>1 DEF InsertVariant, Enters
<1>8. ASSUME EnterTotal
      PROVE  \E r \in Row, k \in Nat : Enters(r, k)
  <2>1. editing \in Row /\ total \in Nat
    BY <1>8 DEF EnterTotal, Row, TypeOK
  <2> QED BY <1>8, <2>1 DEF EnterTotal, Enters
<1>9. ASSUME (\E p \in Product : DeleteVariants(p)) \/ UNCHANGED vars PROVE Rests
  BY <1>9 DEF DeleteVariants, vars, Rests
<1> QED
  BY <1>1, <1>2, <1>3, <1>4, <1>5, <1>6, <1>7, <1>8, <1>9
     DEF Next, HandleOrder, CreateOrderFromAI, CreateOrder, UpdateProduct
---------------------------------------------------------------------------
(* The flag *)

\* Written rows, committed or not, are only flagged when they are empty.
FlagInv ==
    /\ OutMeansEmpty
    /\ \A o \in Order, p \in Product : dirty[o][p].out => dirty[o][p].stock <= 0

LEMMA FlagInit == Init => FlagInv
<1> SUFFICES ASSUME Init PROVE FlagInv
  OBVIOUS
<1>1. \A p \in Product : table[p].out => table[p].stock <= 0
  <2> DEFINE of(p) == {v \in FirstVariants : ParentOf[v] = p}
             sum(n, p) == IF of(p) = {} THEN n ELSE n * Cardinality(of(p))
  <2>1. PICK n \in Amount : table = [r \in Row |->
            IF r \in Variant THEN [stock |-> IF r \in FirstVariants THEN n ELSE 0, sold |-> 0, out |-> FALSE]
            ELSE LET s == sum(n, r) IN [stock |-> s, sold |-> 0, out |-> s = 0]]
    BY DEF Init
  <2> HIDE DEF sum
  <2>2. \A p \in Product : table[p] = [stock |-> sum(n, p), sold |-> 0, out |-> sum(n, p) = 0]
    BY <2>1, StockAssumption DEF Row
  <2>3. ASSUME NEW p \in Product, table[p].out PROVE table[p].stock <= 0
    <3> DEFINE none == sum(n, p) = 0
    <3>1. table[p] = [stock |-> sum(n, p), sold |-> 0, out |-> none]
      BY <2>2
    <3> HIDE DEF none
    <3>2. table[p].stock = sum(n, p) /\ table[p].out = none
      BY <3>1
    <3>3. none
      BY <2>3, <3>2
    <3>4. sum(n, p) = 0
      BY <3>3 DEF none
    <3> QED BY <3>2, <3>4
  <2> QED BY <2>3
<1>2. \A o \in Order, p \in Product : ~dirty[o][p].out
  BY DEF Init, Clean, Empty, Row
<1> QED BY <1>1, <1>2 DEF FlagInv, OutMeansEmpty

LEMMA FlagInductive == TypeOK /\ FlagInv /\ [Next]_vars => FlagInv'
<1> SUFFICES ASSUME TypeOK, FlagInv, [Next]_vars PROVE FlagInv'
  OBVIOUS
<1>a. \A o \in Order, p \in Product : p \in Row /\ (Seen(o, p).out => Seen(o, p).stock <= 0)
  BY DEF FlagInv, OutMeansEmpty, Seen, Row
<1>1. CASE Rests
  BY <1>1 DEF Rests, FlagInv, OutMeansEmpty
<1>2. ASSUME NEW o \in Order, NEW r \in Row, NEW values \in Values, Writes(o, r, values)
      PROVE  FlagInv'
  <2>1. r \in Product => (values.out => values.stock <= 0)
    <3>1. Seen(o, r).stock \in Int
      BY SeenType DEF Values
    <3>2. r \in Product /\ Seen(o, r).out => Seen(o, r).stock <= 0
      BY <1>a
    <3>3. CASE Seen(o, r).stock > 0 /\ values.out = Seen(o, r).out
      BY <3>1, <3>2, <3>3
    <3>4. CASE values.stock = Seen(o, r).stock /\ values.out = Seen(o, r).out
      BY <3>2, <3>4
    <3>5. CASE values.out => values.stock <= 0
      BY <3>5
    <3> QED BY <1>2, <3>3, <3>4, <3>5 DEF Writes
  <2>2. dirty' = [dirty EXCEPT ![o][r] = values] /\ table' = table
    BY <1>2 DEF Writes, Put
  <2>3. \A u \in Order, p \in Product :
            dirty'[u][p] = IF u = o /\ p = r THEN values ELSE dirty[u][p]
    BY <2>2 DEF TypeOK, Row
  <2> QED BY <2>1, <2>2, <2>3 DEF FlagInv, OutMeansEmpty
<1>3. ASSUME NEW o \in Order, Commit(o) PROVE FlagInv'
  <2>1. table' = [r \in Row |-> Seen(o, r)]
    BY <1>3 DEF Commit
  <2>2. \A u \in Order : dirty'[u] = dirty[u] \/ dirty'[u] = Clean
    BY <1>3 DEF Commit, End
  <2> QED BY <1>a, <2>1, <2>2 DEF FlagInv, OutMeansEmpty, Clean, Empty, Row
<1>4. ASSUME NEW ending \in SUBSET Order, End(ending), UNCHANGED <<table, used, short>>
      PROVE  FlagInv'
  <2>1. \A u \in Order : dirty'[u] = dirty[u] \/ dirty'[u] = Clean
    BY <1>4 DEF End
  <2> QED BY <1>4, <2>1 DEF FlagInv, OutMeansEmpty, Clean, Empty, Row
<1>5. ASSUME NEW r \in Row, NEW n \in Nat, Enters(r, n) PROVE FlagInv'
  <2>1. \A p \in Product :
            /\ p # r => table'[p] = table[p]
            /\ p = r => table'[p].stock = n /\ (table'[p].out => n = 0)
    <3> DEFINE none == r \in Product /\ n = 0
    <3>1. table' = [table EXCEPT ![r] = [table[r] EXCEPT !.stock = n, !.out = none]]
      BY <1>5 DEF Enters, Enter
    <3>2. table \in [Row -> Values]
      BY DEF TypeOK
    <3> HIDE DEF none
    <3>3. /\ table'[r].stock = n /\ table'[r].out = none
          /\ \A p \in Row : p # r => table'[p] = table[p]
      BY <3>1, <3>2 DEF Values
    <3> QED BY <3>3 DEF none, Row
  <2>2. dirty' = dirty
    BY <1>5 DEF Enters
  <2> QED BY <2>1, <2>2 DEF FlagInv, OutMeansEmpty
<1> QED BY <1>1, <1>2, <1>3, <1>4, <1>5, StepEffect

\* A product shown as out of stock has none, whatever orders and edits race:
\* the agents' update leaves the flag but needs stock, the seller's and the
\* edit set it with the stock (orders/handler.go:194, products/handler.go:298, 347).
THEOREM OutMeansEmptyHolds == Spec => []OutMeansEmpty
<1>1. FlagInv => OutMeansEmpty
  BY DEF FlagInv
<1> QED
  BY <1>1, TypeInit, TypeInductive, FlagInit, FlagInductive, PTL DEF Spec

---------------------------------------------------------------------------
(* Overselling *)

\* A negative stock is a seller's; an agent's transaction may only hold one
\* that was there before.  No id of a locked variant is given out again.
ShortInv ==
    /\ \A r \in Row : table[r].stock < 0 => r \in short
    /\ \A o \in AIOrder : \A r \in held[o] : dirty[o][r].stock < 0 => r \in short
    /\ \A o \in Order : held[o] \cap Variant \subseteq used

LEMMA ShortInit == Init => ShortInv
<1> SUFFICES ASSUME Init PROVE ShortInv
  OBVIOUS
<1>1. TypeOK
  BY TypeInit
<1> DEFINE of(p) == {v \in FirstVariants : ParentOf[v] = p}
<1>2. PICK n \in Amount : table = [r \in Row |->
             IF r \in Variant THEN [stock |-> IF r \in FirstVariants THEN n ELSE 0, sold |-> 0, out |-> FALSE]
             ELSE LET s == IF of(r) = {} THEN n ELSE n * Cardinality(of(r)) IN
                  [stock |-> s, sold |-> 0, out |-> s = 0]]
  BY DEF Init
<1>3. \A p : Cardinality(of(p)) \in Nat
  <2>1. \A p : of(p) \subseteq FirstVariants
    OBVIOUS
  <2> HIDE DEF of
  <2> QED BY <2>1, FS_Subset, FS_CardinalityType, StockAssumption
<1>4. \A p : n * Cardinality(of(p)) \in Nat
  <2>1. \A a, b \in Nat : a * b \in Nat
    OBVIOUS
  <2> HIDE DEF of
  <2> QED BY <1>3, <2>1, StockAssumption
<1>5. \A r \in Row : table[r].stock \in Nat
  <2> DEFINE times(p) == n * Cardinality(of(p))
  <2>1. n \in Nat /\ \A p : times(p) \in Nat
    BY <1>4, StockAssumption
  <2>2. \A r \in Row : table[r].stock \in {n, 0, times(r)}
    BY <1>2
  <2> HIDE DEF times, of
  <2> QED BY <2>1, <2>2
<1>6. \A r \in Row : ~(table[r].stock < 0)
  BY <1>5
<1>7. \A o \in Order : held[o] = {}
  BY DEF Init
<1> QED BY <1>6, <1>7 DEF ShortInv, Order

LEMMA ShortInductive == TypeOK /\ ShortInv /\ [Next]_vars => ShortInv'
<1> SUFFICES ASSUME TypeOK, ShortInv, [Next]_vars PROVE ShortInv'
  OBVIOUS
<1>1. CASE Rests
  BY <1>1 DEF Rests, ShortInv
<1>2. ASSUME NEW o \in Order, NEW r \in Row, NEW values \in Values, Writes(o, r, values)
      PROVE  ShortInv'
  <2>1. /\ dirty' = [dirty EXCEPT ![o][r] = values] /\ held' = [held EXCEPT ![o] = @ \cup {r}]
        /\ UNCHANGED <<table, used, short>> /\ (r \in Variant => r \in used)
    BY <1>2 DEF Writes, Put
  <2>2. ASSUME o \in AIOrder, values.stock < 0 PROVE r \in short
    <3>1. values.stock = Seen(o, r).stock
      BY <1>2, <2>2, StockAssumption DEF Writes, Values
    <3> QED BY <2>2, <3>1 DEF Seen, ShortInv
  <2>3. \A u \in Order :
            /\ held'[u] = IF u = o THEN held[u] \cup {r} ELSE held[u]
            /\ \A q \in Row : dirty'[u][q] = IF u = o /\ q = r THEN values ELSE dirty[u][q]
    BY <2>1 DEF TypeOK
  <2>4. \A u \in Order : held[u] \subseteq Row
    BY DEF TypeOK
  <2>5. \A u \in AIOrder : \A q \in held'[u] : dirty'[u][q].stock < 0 => q \in short
    <3> SUFFICES ASSUME NEW u \in AIOrder, NEW q \in held'[u], dirty'[u][q].stock < 0
                 PROVE  q \in short
      OBVIOUS
    <3>1. u \in Order /\ q \in Row
      BY <2>3, <2>4, ZenonT(60) DEF Order
    <3>2. CASE u = o /\ q = r
      BY <2>2, <2>3, <3>1, <3>2
    <3>3. CASE ~(u = o /\ q = r)
      <4>1. q \in held[u] /\ dirty'[u][q] = dirty[u][q]
        BY <2>3, <3>1, <3>3
      <4> QED BY <4>1 DEF ShortInv
    <3> QED BY <3>2, <3>3
  <2> QED BY <2>1, <2>3, <2>5 DEF ShortInv
<1>3. ASSUME NEW o \in Order, Commit(o) PROVE ShortInv'
  <2>1. /\ table' = [r \in Row |-> Seen(o, r)] /\ used' = used
        /\ short' = short \cup {r \in held[o] : o \in SellerOrder /\ dirty[o][r].stock < 0}
    BY <1>3 DEF Commit
  <2>2. \A u \in Order : held'[u] = {} \/ (held'[u] = held[u] /\ dirty'[u] = dirty[u])
    BY <1>3 DEF Commit, End
  <2>3. \A r \in Row : table'[r].stock < 0 => r \in short'
    BY <2>1 DEF Seen, ShortInv, Order
  <2> QED BY <2>1, <2>2, <2>3 DEF ShortInv, Order
<1>4. ASSUME NEW ending \in SUBSET Order, End(ending), UNCHANGED <<table, used, short>>
      PROVE  ShortInv'
  <2>1. \A u \in Order : held'[u] = {} \/ (held'[u] = held[u] /\ dirty'[u] = dirty[u])
    BY <1>4 DEF End
  <2> QED BY <1>4, <2>1 DEF ShortInv, Order
<1>5. ASSUME NEW r \in Row, NEW n \in Nat, Enters(r, n) PROVE ShortInv'
  <2>1. /\ table'[r].stock = n
        /\ \A q \in Row : q # r => table'[q] = table[q]
    <3> DEFINE none == r \in Product /\ n = 0
    <3>1. table' = [table EXCEPT ![r] = [table[r] EXCEPT !.stock = n, !.out = none]]
      BY <1>5 DEF Enters, Enter
    <3>2. table \in [Row -> Values]
      BY DEF TypeOK
    <3> HIDE DEF none
    <3> QED BY <3>1, <3>2 DEF Values
  <2>2. short' = short \ {r} /\ used \subseteq used' /\ held' = held /\ dirty' = dirty
    BY <1>5 DEF Enters, Enter
  <2>3. \A o \in Order : r \notin held[o]
    BY <1>5 DEF Enters, Locked, ShortInv
  <2>4. ~(n < 0)
    OBVIOUS
  <2> QED BY <2>1, <2>2, <2>3, <2>4 DEF ShortInv, Order
<1> QED BY <1>1, <1>2, <1>3, <1>4, <1>5, StepEffect

\* No agent's order brings a stock below zero, whatever it raced with: its
\* decrement tests the stock under the row's lock ("stock >= ?",
\* agents/handler.go:491, 503 and 524).
THEOREM AgentsNeverOversellHolds == Spec => []AgentsNeverOversell
<1>1. ShortInv => AgentsNeverOversell
  BY DEF ShortInv, AgentsNeverOversell
<1> QED
  BY <1>1, TypeInit, TypeInductive, ShortInit, ShortInductive, PTL DEF Spec


---------------------------------------------------------------------------
(* The books *)

\* What of a product is among an order's items and not yet among its sales.
Pending(o, p) ==
    IF /\ at[o] = "sold" \/ (at[o] = "write" /\ o \in SellerOrder)
       /\ p = Owner(Line(o).row)
    THEN Ask(o) ELSE 0

\* The line an order is at sells the product it asks for; what its items ask
\* for it has counted, missed, or is about to count.
SalesOK(o) ==
    /\ at[o] \in {"write", "sold"} => Owner(target[o]) = Owner(Line(o).row)
    /\ at[o] # "aborted" => \A p \in Product :
          asks[o][p] + table[p].sold = missed[o][p] + Pending(o, p) + Seen(o, p).sold

\* What an order has written is what there was less what it took, unless it
\* wrote from a value that had changed; it took nothing from other rows.
StockOK(o) ==
    \A r \in Row :
        /\ r \in held[o] /\ r \notin stale[o] =>
             dirty[o][r].stock = table[r].stock - taken[o][r]
        /\ r \notin held[o] => taken[o][r] = 0

\* A row has one lock, and no id of a locked variant is given out again.
LocksOK ==
    /\ \A o, u \in Order : \A r \in held[o] : r \in held[u] => o = u
    /\ \A o \in Order : held[o] \cap Variant \subseteq used

\* The committed rows add up whether or not they still exist.
RowsAddUp ==
    /\ \A p \in Product : table[p].sold + uncounted[p] = ordered[p]
    /\ \A r \in Row : r \notin raced => table[r].stock = due[r]

LedgerInv ==
    /\ RowsAddUp /\ LocksOK
    /\ \A o \in Order : SalesOK(o) /\ StockOK(o)

\* A quantity counted for one order and one row or product.
LEMMA AddPoint ==
    ASSUME NEW D, NEW f \in [Order -> [D -> Nat]], NEW o \in Order, NEW d \in D, NEW n \in Nat,
           NEW g, g = [f EXCEPT ![o][d] = @ + n]
    PROVE  /\ \A u \in Order : u # o => g[u] = f[u]
           /\ \A e \in D : g[o][e] = IF e = d THEN f[o][e] + n ELSE f[o][e]
  OBVIOUS

\* What the items of the other orders ask for stays; this order's line counts.
LEMMA Included ==
    ASSUME TypeOK, NEW o \in Order, at[o] \in {"read", "write", "sold"}, Include(o)
    PROVE  /\ \A u \in Order : u # o => asks'[u] = asks[u]
           /\ \A p \in Product : asks'[o][p] =
                asks[o][p] + (IF p = Owner(Line(o).row) THEN Ask(o) ELSE 0)
<1> DEFINE q == Owner(Line(o).row)
           n == Ask(o)
<1>1. q \in Product /\ n \in Nat
  BY LineType, OwnerType DEF LineSet
<1>2. asks' = [asks EXCEPT ![o][q] = @ + n]
  BY DEF Include
<1>3. asks \in [Order -> [Product -> Nat]]
  BY DEF TypeOK
<1> HIDE DEF q, n
<1>4. /\ \A u \in Order : u # o => asks'[u] = asks[u]
      /\ \A p \in Product : asks'[o][p] = IF p = q THEN asks[o][p] + n ELSE asks[o][p]
  BY <1>1, <1>2, <1>3, AddPoint
<1>5. \A p \in Product : asks[o][p] \in Nat
  BY <1>3
<1>6. \A p \in Product : asks'[o][p] = asks[o][p] + (IF p = q THEN n ELSE 0)
  BY <1>1, <1>4, <1>5
<1> QED BY <1>4, <1>6 DEF q, n

\* The same of what was missed.
LEMMA Missed ==
    ASSUME TypeOK, NEW o \in Order, at[o] \in {"read", "write", "sold"}, Miss(o)
    PROVE  /\ \A u \in Order : u # o => missed'[u] = missed[u]
           /\ \A p \in Product : missed'[o][p] =
                missed[o][p] + (IF p = Owner(Line(o).row) THEN Ask(o) ELSE 0)
<1> DEFINE q == Owner(Line(o).row)
           n == Ask(o)
<1>1. q \in Product /\ n \in Nat
  BY LineType, OwnerType DEF LineSet
<1>2. missed' = [missed EXCEPT ![o][q] = @ + n]
  BY DEF Miss
<1>3. missed \in [Order -> [Product -> Nat]]
  BY DEF TypeOK
<1> HIDE DEF q, n
<1>4. /\ \A u \in Order : u # o => missed'[u] = missed[u]
      /\ \A p \in Product : missed'[o][p] = IF p = q THEN missed[o][p] + n ELSE missed[o][p]
  BY <1>1, <1>2, <1>3, AddPoint
<1>5. \A p \in Product : missed[o][p] \in Nat
  BY <1>3
<1>6. \A p \in Product : missed'[o][p] = missed[o][p] + (IF p = q THEN n ELSE 0)
  BY <1>1, <1>4, <1>5
<1> QED BY <1>4, <1>6 DEF q, n

\* What an update took from its row.
LEMMA Taken ==
    ASSUME TypeOK, NEW o \in Order, at[o] = "write", Take(o)
    PROVE  /\ \A u \in Order : u # o => taken'[u] = taken[u]
           /\ \A r \in Row : taken'[o][r] =
                IF r = target[o] THEN taken[o][r] + Ask(o) ELSE taken[o][r]
<1>1. target[o] \in Row /\ Ask(o) \in Nat /\ taken \in [Order -> [Row -> Nat]]
  BY LineType DEF TypeOK
<1>2. taken' = [taken EXCEPT ![o][target[o]] = @ + Ask(o)]
  BY DEF Take
<1> QED BY <1>1, <1>2, AddPoint

\* What a transaction sees after it has written a row.
LEMMA PutPoint ==
    ASSUME TypeOK, NEW o \in Order, NEW r \in Row, NEW values \in Values, Put(o, r, values),
           table' = table
    PROVE  /\ \A u \in Order : u # o => dirty'[u] = dirty[u] /\ held'[u] = held[u]
           /\ held'[o] = held[o] \cup {r} /\ dirty'[o][r] = values
           /\ \A q \in Row : q # r => dirty'[o][q] = dirty[o][q] /\ Seen(o, q)' = Seen(o, q)
           /\ Seen(o, r)' = values
<1>1. dirty' = [dirty EXCEPT ![o][r] = values] /\ held' = [held EXCEPT ![o] = @ \cup {r}]
  BY DEF Put
<1>2. dirty \in [Order -> [Row -> Values]] /\ held \in [Order -> SUBSET Row]
  BY DEF TypeOK
<1>3. /\ \A u \in Order : u # o => dirty'[u] = dirty[u] /\ held'[u] = held[u]
      /\ held'[o] = held[o] \cup {r} /\ dirty'[o][r] = values
      /\ \A q \in Row : q # r => dirty'[o][q] = dirty[o][q]
  BY <1>1, <1>2
<1>4. Seen(o, r)' = values
  BY <1>3 DEF Seen
<1>5. \A q \in Row : q # r => Seen(o, q)' = Seen(o, q)
  BY <1>3 DEF Seen
<1> QED BY <1>3, <1>4, <1>5

\* A step of order o within its transaction leaves the committed rows and the
\* other orders alone.
Moves(o) ==
    /\ UNCHANGED <<table, used, ordered, uncounted, due, raced>>
    /\ \A u \in Order : u # o =>
         /\ at'[u] = at[u] /\ cart'[u] = cart[u] /\ line'[u] = line[u]
         /\ target'[u] = target[u] /\ held'[u] = held[u] /\ dirty'[u] = dirty[u]
         /\ taken'[u] = taken[u] /\ asks'[u] = asks[u] /\ missed'[u] = missed[u]
         /\ stale'[u] = stale[u]

\* Then it is enough to look at order o.
LEMMA LedgerMoves ==
    ASSUME LedgerInv, NEW o \in Order, Moves(o), LocksOK', SalesOK(o)', StockOK(o)'
    PROVE  LedgerInv'
<1>1. ASSUME NEW u \in Order, u # o PROVE SalesOK(u)' /\ StockOK(u)'
  BY <1>1 DEF LedgerInv, Moves, SalesOK, StockOK, Pending, Seen, Line, Ask
<1>2. RowsAddUp'
  BY DEF LedgerInv, RowsAddUp, Moves
<1> QED BY <1>1, <1>2 DEF LedgerInv

\* An update takes its lock only when nobody else has it.
LEMMA LocksPut ==
    ASSUME TypeOK, LocksOK, NEW o \in Order, NEW r \in Row, MayUpdate(o, r),
           r \in Variant => r \in used, used' = used,
           held' = [held EXCEPT ![o] = @ \cup {r}]
    PROVE  LocksOK'
<1>1. \A u \in Order : held'[u] = IF u = o THEN held[u] \cup {r} ELSE held[u]
  BY DEF TypeOK
<1>2. \A u \in Order : u # o => r \notin held[u]
  BY DEF MayUpdate, Blocks
<1> QED BY <1>1, <1>2 DEF LocksOK


\* Nothing of product p is added to what f counts, but n of product q.
Adds(f, g, q, n) == \A p \in Product : g[p] = f[p] + (IF p = q THEN n ELSE 0)

\* A step of order o on a line of product q: of what was pending, b, and what
\* the items ask for now, a, it misses m and sells s, and c is pending.
Counts(o, q, a, m, s, b, c) ==
    /\ a \in Int /\ m \in Int /\ s \in Int /\ b \in Int /\ c \in Int /\ a + b = m + c + s
    /\ Adds(asks[o], asks'[o], q, a) /\ Adds(missed[o], missed'[o], q, m)
    /\ \A p \in Product : Seen(o, p)'.sold = Seen(o, p).sold + (IF p = q THEN s ELSE 0)
    /\ \A p \in Product : Pending(o, p) = IF p = q THEN b ELSE 0
    /\ \A p \in Product : Pending(o, p)' = IF p = q THEN c ELSE 0

\* The sums of an order that goes on stay right by such a step.
LEMMA SalesMove ==
    ASSUME TypeOK, NEW o \in Order, SalesOK(o), at[o] # "aborted", table' = table,
           NEW q, NEW a, NEW m, NEW s, NEW b, NEW c, Counts(o, q, a, m, s, b, c),
           at'[o] \in {"write", "sold"} => Owner(target'[o]) = Owner(Line(o)'.row)
    PROVE  SalesOK(o)'
<1>1. ASSUME NEW p \in Product
      PROVE  asks'[o][p] + table'[p].sold = missed'[o][p] + Pending(o, p)' + Seen(o, p)'.sold
  <2>1. p \in Row /\ Seen(o, p).sold \in Nat /\ table[p].sold \in Nat
    BY SeenType DEF Row, Values, TypeOK
  <2>2. asks[o][p] \in Nat /\ missed[o][p] \in Nat
    BY DEF TypeOK
  <2>3. asks[o][p] + table[p].sold = missed[o][p] + Pending(o, p) + Seen(o, p).sold
    BY DEF SalesOK
  <2>4. /\ asks'[o][p] = asks[o][p] + (IF p = q THEN a ELSE 0)
        /\ missed'[o][p] = missed[o][p] + (IF p = q THEN m ELSE 0)
        /\ Seen(o, p)'.sold = Seen(o, p).sold + (IF p = q THEN s ELSE 0)
        /\ Pending(o, p) = IF p = q THEN b ELSE 0
        /\ Pending(o, p)' = IF p = q THEN c ELSE 0
    BY DEF Adds, Counts
  <2>5. a \in Int /\ m \in Int /\ s \in Int /\ b \in Int /\ c \in Int /\ a + b = m + c + s
    BY DEF Counts
  <2>6. CASE p = q
    BY <2>1, <2>2, <2>3, <2>4, <2>5, <2>6
  <2>7. CASE p # q
    BY <2>1, <2>2, <2>3, <2>4, <2>7
  <2> QED BY <2>6, <2>7
<1> QED BY <1>1 DEF SalesOK

\* What an order is about to count.
LEMMA PendingIs ==
    ASSUME NEW o \in Order
    PROVE  \A p : Pending(o, p) =
             IF p = Owner(Line(o).row)
             THEN IF at[o] = "sold" \/ (at[o] = "write" /\ o \in SellerOrder) THEN Ask(o) ELSE 0
             ELSE 0
  BY DEF Pending

\* The next line counts nothing yet.
LEMMA NothingPending ==
    ASSUME NEW o \in Order, at[o] \notin {"write", "sold"}
    PROVE  \A p : Pending(o, p) = 0
  BY DEF Pending

\* A row an order leaves alone keeps its stock.
LEMMA StockKept ==
    ASSUME NEW o \in Order, StockOK(o), table' = table, held'[o] = held[o],
           dirty'[o] = dirty[o], taken'[o] = taken[o], stale'[o] = stale[o]
    PROVE  StockOK(o)'
  BY DEF StockOK

\* An order takes n from row r.
LEMMA StockPut ==
    ASSUME TypeOK, NEW o \in Order, StockOK(o), NEW r \in Row, NEW values \in Values,
           Put(o, r, values), table' = table, NEW n \in Int,
           \A q \in Row : taken'[o][q] = IF q = r THEN taken[o][q] + n ELSE taken[o][q],
           stale[o] \subseteq stale'[o],
           r \notin stale'[o] => values.stock = Seen(o, r).stock - n
    PROVE  StockOK(o)'
<1>1. /\ held'[o] = held[o] \cup {r} /\ dirty'[o][r] = values
      /\ \A q \in Row : q # r => dirty'[o][q] = dirty[o][q]
  BY PutPoint
<1>2. ASSUME r \notin stale'[o] PROVE values.stock = table[r].stock - taken'[o][r]
  <2>1. r \notin stale[o] /\ values.stock = Seen(o, r).stock - n
    BY <1>2
  <2>2. taken'[o][r] = taken[o][r] + n /\ taken[o][r] \in Int /\ table[r].stock \in Int
    BY DEF TypeOK, Values
  <2>3. Seen(o, r).stock = table[r].stock - taken[o][r]
    <3>1. CASE r \in held[o]
      BY <2>1, <3>1 DEF StockOK, Seen
    <3>2. CASE r \notin held[o]
      BY <2>2, <3>2 DEF StockOK, Seen
    <3> QED BY <3>1, <3>2
  <2>4. Seen(o, r).stock \in Int
    BY SeenType DEF Values
  <2> QED BY <2>1, <2>2, <2>3, <2>4
<1>3. ASSUME NEW q \in Row, q # r
      PROVE  /\ q \in held'[o] /\ q \notin stale'[o] => dirty'[o][q].stock = table[q].stock - taken'[o][q]
             /\ q \notin held'[o] => taken'[o][q] = 0
  BY <1>1, <1>3 DEF StockOK
<1> QED BY <1>1, <1>2, <1>3 DEF StockOK


\* Beginning, and reading the row of a line.
LEMMA LedgerReads ==
    ASSUME TypeOK, LedgerInv, NEW o \in Order,
           Begin(o) \/ ReadAILine(o) \/ ReadSellerLine(o)
    PROVE  LedgerInv'
<1>1. Moves(o) /\ LocksOK' /\ StockOK(o)'
  <2>1. UNCHANGED <<table, used, held, dirty, taken, stale, ordered, uncounted, due, raced>>
    BY DEF Begin, ReadAILine, ReadSellerLine
  <2>2. \A u \in Order : u # o =>
            /\ at'[u] = at[u] /\ cart'[u] = cart[u] /\ line'[u] = line[u]
            /\ target'[u] = target[u] /\ asks'[u] = asks[u] /\ missed'[u] = missed[u]
    BY DEF Begin, ReadAILine, ReadSellerLine, GoOnWith, NextLine, Include, Miss, TypeOK
  <2> QED BY <2>1, <2>2, StockKept DEF Moves, LedgerInv, LocksOK
<1>s. /\ SalesOK(o) /\ table' = table
      /\ \A p \in Product : Seen(o, p)' = Seen(o, p)
  BY DEF LedgerInv, Begin, ReadAILine, ReadSellerLine, Seen
<1> DEFINE q == Owner(Line(o).row)
<1>2. ASSUME Begin(o) PROVE SalesOK(o)'
  <2>1. at[o] = "new" /\ at'[o] = "read" /\ asks' = asks /\ missed' = missed
    BY <1>2 DEF Begin, TypeOK
  <2>2. \A p : Pending(o, p) = 0 /\ Pending(o, p)' = 0
    BY <2>1 DEF Pending
  <2> QED BY <1>s, <2>1, <2>2 DEF SalesOK
<1>3. ASSUME ReadAILine(o), NEW r \in Offered(o), GoOnWith(o, r) PROVE SalesOK(o)'
  <2>1. /\ at[o] = "read" /\ at'[o] = "write" /\ o \notin SellerOrder
        /\ target'[o] = r /\ UNCHANGED <<cart, line, asks, missed>>
    BY <1>3, StockAssumption DEF ReadAILine, GoOnWith, TypeOK
  <2>2. Owner(r) = q
    <3>1. Line(o).row \in Row /\ r \in Candidates(o)
      BY <1>3, <2>1, LineType DEF LineSet, Offered
    <3>2. CASE r = Line(o).row
      BY <3>2
    <3>3. CASE r # Line(o).row
      <4>1. r \in VariantsOf(Line(o).row) /\ Line(o).row \in Product
        BY <3>1, <3>3 DEF Candidates
      <4>2. r \in Variant /\ ParentOf[r] = Line(o).row /\ Line(o).row \notin Variant
        BY <4>1, StockAssumption DEF VariantsOf, TypeOK
      <4> QED BY <4>2 DEF Owner
    <3> QED BY <3>2, <3>3
  <2>3. \A p : Pending(o, p) = 0 /\ Pending(o, p)' = 0
    BY <2>1 DEF Pending
  <2>4. Line(o)' = Line(o)
    BY <2>1 DEF Line
  <2> QED BY <1>s, <2>1, <2>2, <2>3, <2>4 DEF SalesOK
<1>4. ASSUME ReadAILine(o), NextLine(o) PROVE SalesOK(o)'
  <2>1. at[o] = "read" /\ at'[o] \in {"read", "create"} /\ UNCHANGED <<asks, missed>>
    BY <1>4, NextLineType DEF ReadAILine
  <2>2. \A p : Pending(o, p) = 0 /\ Pending(o, p)' = 0
    BY <2>1 DEF Pending
  <2> QED BY <1>s, <2>1, <2>2 DEF SalesOK
<1>5. ASSUME ReadSellerLine(o) PROVE SalesOK(o)'
  <2> DEFINE n == Ask(o)
  <2>1. at[o] = "read" /\ Include(o) /\ n \in Int
    BY <1>5, LineType DEF ReadSellerLine
  <2>2. Adds(asks[o], asks'[o], q, n)
    BY <2>1, Included DEF Adds
  <2>3. \A p : Pending(o, p) = 0
    BY <2>1 DEF Pending
  <2>4. \A p \in Product : Seen(o, p)'.sold = Seen(o, p).sold + (IF p = q THEN 0 ELSE 0)
    <3>1. \A p \in Product : Seen(o, p).sold \in Nat
      BY SeenType DEF Values, Row
    <3> QED BY <1>s, <3>1
  <2>5. CASE Exists(Line(o).row)
    <3>1. /\ at'[o] = "write" /\ target'[o] = Line(o).row /\ o \in SellerOrder
          /\ UNCHANGED <<cart, line, missed>>
      BY <1>5, <2>5 DEF ReadSellerLine, GoOnWith, TypeOK
    <3>2. Line(o)' = Line(o) /\ Ask(o)' = n
      BY <3>1 DEF Line, Ask
    <3>3. \A p \in Product : Pending(o, p)' = IF p = q THEN n ELSE 0
      BY <3>1, <3>2 DEF Pending
    <3>4. Adds(missed[o], missed'[o], q, 0)
      BY <3>1 DEF Adds, TypeOK
    <3> HIDE DEF n, q
    <3>5. \A p \in Product : Pending(o, p) = IF p = q THEN 0 ELSE 0
      BY <2>3
    <3>6. Owner(target'[o]) = Owner(Line(o)'.row)
      BY <3>1, <3>2
    <3>7. 0 \in Int /\ n \in Int /\ n + 0 = 0 + n + 0
      BY <2>1
    <3>8. Counts(o, q, n, 0, 0, 0, n)
      BY <2>2, <2>4, <3>3, <3>4, <3>5, <3>7 DEF Counts
    <3> QED BY <1>s, <2>1, <3>6, <3>8, SalesMove
  <2>6. CASE ~Exists(Line(o).row)
    <3>1. at'[o] \in {"read", "create"}
      BY <1>5, <2>6, <2>1, NextLineType DEF ReadSellerLine
    <3>2. Adds(missed[o], missed'[o], q, n)
      BY <1>5, <2>6, <2>1, Missed DEF ReadSellerLine, Adds
    <3>3. \A p \in Product : Pending(o, p)' = 0
      BY <3>1 DEF Pending
    <3> HIDE DEF n, q
    <3>4. \A p \in Product : Pending(o, p) = (IF p = q THEN 0 ELSE 0)
                             /\ Pending(o, p)' = (IF p = q THEN 0 ELSE 0)
      BY <2>3, <3>3
    <3>5. 0 \in Int /\ n \in Int /\ n + 0 = n + 0 + 0
      BY <2>1
    <3>6. Counts(o, q, n, n, 0, 0, 0)
      BY <2>2, <2>4, <3>2, <3>4, <3>5 DEF Counts
    <3> QED BY <1>s, <2>1, <3>1, <3>6, SalesMove
  <2> QED BY <2>5, <2>6
<1>6. SalesOK(o)'
  BY <1>2, <1>3, <1>4, <1>5 DEF ReadAILine
<1> QED BY <1>1, <1>6, LedgerMoves

\* The agents' conditional update.
LEMMA LedgerWritesAI ==
    ASSUME TypeOK, LedgerInv, NEW o \in Order, WriteAILine(o)
    PROVE  LedgerInv'
<1> DEFINE r == target[o]
           now == Seen(o, r)
           values == [now EXCEPT !.stock = @ - Ask(o), !.sold = Sold(o, now)]
           q == Owner(Line(o).row)
           n == Ask(o)
<1>1. /\ at[o] = "write" /\ r \in Row /\ n \in Nat /\ now \in Values /\ q \in Product
      /\ o \in AIOrder /\ o \notin SellerOrder
  BY LineType, SeenType, OwnerType, StockAssumption DEF WriteAILine, TypeOK, LineSet
<1>2. Adds(asks[o], asks'[o], q, n) /\ \A u \in Order : u # o => asks'[u] = asks[u]
  BY <1>1, Included DEF Adds, WriteAILine
<1>3. SalesOK(o) /\ StockOK(o) /\ LocksOK /\ table' = table /\ Owner(r) = q
  BY <1>1 DEF LedgerInv, SalesOK, WriteAILine
<1>4. /\ r \in Variant => at'[o] = "sold" /\ UNCHANGED line
      /\ r \in Product => q = r /\ at'[o] \in {"read", "create"} /\ r \notin Variant
      /\ \A u \in Order : u # o => at'[u] = at[u] /\ line'[u] = line[u]
  <2>1. CASE r \in Variant
    BY <1>1, <2>1, StockAssumption DEF WriteAILine, AfterUpdate, TypeOK
  <2>2. CASE r \notin Variant
    BY <1>1, <1>3, <2>2, NextLineType DEF WriteAILine, AfterUpdate, Owner
  <2> QED BY <2>1, <2>2, StockAssumption
<1>5. UNCHANGED <<table, live, used, cart, target, stale, ordered, uncounted, due, raced>>
  BY DEF WriteAILine
<1> DEFINE c == IF r \in Variant THEN n ELSE 0
<1>6. \A p \in Product : Pending(o, p)' = IF p = q THEN c ELSE 0
  <2>1. CASE r \in Variant
    <3>1. Line(o)' = Line(o) /\ Ask(o)' = n /\ at'[o] = "sold"
      BY <1>4, <1>5, <2>1 DEF Line, Ask
    <3> QED BY <2>1, <3>1 DEF Pending
  <2>2. CASE r \notin Variant
    BY <1>1, <1>4, <2>2 DEF Pending, Row
  <2> QED BY <2>1, <2>2
<1>7. \A p \in Product : Pending(o, p) = IF p = q THEN 0 ELSE 0
  BY <1>1 DEF Pending
<1>8. at'[o] \in {"write", "sold"} => Owner(target'[o]) = Owner(Line(o)'.row)
  <2>1. CASE r \in Variant
    BY <1>3, <1>4, <1>5, <2>1 DEF Line
  <2>2. CASE r \notin Variant
    BY <1>1, <1>4, <2>2 DEF Row
  <2> QED BY <2>1, <2>2
<1>9. CASE Exists(r) /\ now.stock >= n
  <2>1. Put(o, r, values) /\ Take(o) /\ missed' = missed /\ MayUpdate(o, r)
    BY <1>9 DEF WriteAILine
  <2> DEFINE s == IF r \in Product THEN n ELSE 0
  <2>2. values \in Values /\ values.stock = now.stock - n /\ values.sold = now.sold + s
    <3> DEFINE sold == Sold(o, now)
               after == [now EXCEPT !.stock = @ - n, !.sold = sold]
    <3>1. sold = now.sold + s /\ sold \in Nat
      BY <1>1 DEF Values, Sold
    <3> HIDE DEF now, n, sold, s
    <3>2. after \in Values /\ after.stock = now.stock - n /\ after.sold = sold
      <4>1. now.stock \in Int /\ now.stock - n \in Int /\ now \in Values
        BY <1>1 DEF Values
      <4>2. after.stock = now.stock - n /\ after.sold = sold
        BY <4>1 DEF Values
      <4>3. after \in Values
        BY <3>1, <4>1 DEF Values
      <4> QED BY <4>2, <4>3
    <3> QED BY <3>1, <3>2 DEF sold, n
  <2> HIDE DEF values
  <2>3. /\ \A u \in Order : u # o => dirty'[u] = dirty[u] /\ held'[u] = held[u]
        /\ \A p \in Row : Seen(o, p)' = IF p = r THEN values ELSE Seen(o, p)
    <3> SUFFICES ASSUME NEW row \in Row, row = r
                 PROVE  /\ \A u \in Order : u # o => dirty'[u] = dirty[u] /\ held'[u] = held[u]
                        /\ \A p \in Row : Seen(o, p)' = IF p = row THEN values ELSE Seen(o, p)
      BY <1>1
    <3>1. Put(o, row, values)
      BY <2>1
    <3> QED BY <1>5, <2>2, <3>1, PutPoint
  <2>4. /\ \A u \in Order : u # o => taken'[u] = taken[u]
        /\ \A p \in Row : taken'[o][p] = IF p = r THEN taken[o][p] + n ELSE taken[o][p]
    BY <1>1, <2>1, Taken
  <2>5. Moves(o)
    BY <1>2, <1>4, <1>5, <2>1, <2>3, <2>4 DEF Moves
  <2>6. LocksOK'
    <3>1. r \in Variant => r \in used
      BY <1>9, StockAssumption DEF Exists, TypeOK
    <3>2. held' = [held EXCEPT ![o] = @ \cup {r}]
      BY <2>1 DEF Put
    <3> QED BY <1>1, <1>3, <1>5, <2>1, <3>1, <3>2, LocksPut
  <2>7. StockOK(o)'
    <3>1. n \in Int /\ stale[o] \subseteq stale'[o]
      BY <1>1, <1>5
    <3> HIDE DEF n
    <3> QED BY <1>1, <1>3, <2>1, <2>2, <2>4, <3>1, StockPut
  <2>8. \A p \in Product : Seen(o, p)'.sold = Seen(o, p).sold + (IF p = q THEN s ELSE 0)
    <3> SUFFICES ASSUME NEW p \in Product
                 PROVE  Seen(o, p)'.sold = Seen(o, p).sold + (IF p = q THEN s ELSE 0)
      OBVIOUS
    <3>1. p \in Row /\ Seen(o, p).sold \in Nat
      BY SeenType DEF Values, Row
    <3>2. CASE p = r
      <4>1. s = n /\ p = q
        BY <1>4, <3>2
      <4>2. Seen(o, p)' = values /\ now = Seen(o, p)
        BY <2>3, <3>1, <3>2
      <4> HIDE DEF s, now, r
      <4> QED BY <2>2, <4>1, <4>2
    <3>3. CASE p # r
      <4>1. Seen(o, p)' = Seen(o, p)
        BY <2>3, <3>1, <3>3
      <4>2. p = q => s = 0
        BY <1>4, <3>3
      <4> QED BY <3>1, <4>1, <4>2
    <3> QED BY <3>2, <3>3
  <2>9. Adds(missed[o], missed'[o], q, 0)
    BY <2>1 DEF Adds, TypeOK
  <2>10. 0 \in Int /\ n \in Int /\ s \in Int /\ c \in Int /\ n + 0 = 0 + c + s
    BY <1>1, StockAssumption DEF Row
  <2> HIDE DEF n, q, c, s
  <2>11. Counts(o, q, n, 0, s, 0, c)
    BY <1>2, <1>6, <1>7, <2>8, <2>9, <2>10 DEF Counts
  <2>12. SalesOK(o)'
    BY <1>1, <1>3, <1>8, <2>11, SalesMove
  <2> QED BY <2>5, <2>6, <2>7, <2>12, LedgerMoves
<1>10. CASE ~(Exists(r) /\ now.stock >= n)
  <2>1. UNCHANGED <<held, dirty, taken>>
    BY <1>10 DEF WriteAILine
  <2> DEFINE m == IF r \in Product THEN n ELSE 0
  <2>2. Adds(missed[o], missed'[o], q, m) /\ \A u \in Order : u # o => missed'[u] = missed[u]
    <3>1. CASE r \in Product
      BY <1>1, <1>10, <3>1, Missed DEF WriteAILine, Adds
    <3>2. CASE r \notin Product
      <4>1. missed' = missed
        BY <1>10, <3>2 DEF WriteAILine
      <4> QED BY <3>2, <4>1 DEF Adds, TypeOK
    <3> QED BY <3>1, <3>2
  <2>3. Moves(o)
    BY <1>2, <1>4, <1>5, <2>1, <2>2 DEF Moves
  <2>4. LocksOK' /\ StockOK(o)'
    BY <1>3, <1>5, <2>1, StockKept DEF LocksOK
  <2>5. \A p \in Product : Seen(o, p)'.sold = Seen(o, p).sold + (IF p = q THEN 0 ELSE 0)
    <3>1. \A p \in Product : Seen(o, p).sold \in Nat /\ Seen(o, p)' = Seen(o, p)
      BY <1>5, <2>1, SeenType DEF Values, Row, Seen
    <3> QED BY <3>1
  <2>6. 0 \in Int /\ n \in Int /\ m \in Int /\ c \in Int /\ n + 0 = m + c + 0
    BY <1>1, StockAssumption DEF Row
  <2> HIDE DEF n, q, c, m
  <2>7. Counts(o, q, n, m, 0, 0, c)
    BY <1>2, <1>6, <1>7, <2>2, <2>5, <2>6 DEF Counts
  <2>8. SalesOK(o)'
    BY <1>1, <1>3, <1>8, <2>7, SalesMove
  <2> QED BY <2>3, <2>4, <2>8, LedgerMoves
<1> QED BY <1>9, <1>10


\* The seller's update: what it takes from a row it read an old value of is
\* not in the books, and the row is stale.
LEMMA LedgerWritesSeller ==
    ASSUME TypeOK, LedgerInv, NEW o \in Order, WriteSellerLine(o)
    PROVE  LedgerInv'
<1> DEFINE r == target[o]
           now == Seen(o, r)
           left == found[o] - Ask(o)
           values == [stock |-> left, sold |-> Sold(o, now), out |-> r \in Product /\ left <= 0]
           q == Owner(Line(o).row)
           n == Ask(o)
<1>1. /\ at[o] = "write" /\ r \in Row /\ n \in Nat /\ now \in Values /\ q \in Product
      /\ found[o] \in Int /\ o \in SellerOrder
  BY LineType, SeenType, OwnerType DEF WriteSellerLine, TypeOK, LineSet
<1>2. /\ UNCHANGED <<table, live, used, cart, target, asks, missed, ordered, uncounted, due, raced>>
      /\ AfterUpdate(o)
  BY DEF WriteSellerLine
<1>3. SalesOK(o) /\ StockOK(o) /\ LocksOK /\ Owner(r) = q
  BY <1>1 DEF LedgerInv, SalesOK
<1>4. /\ r \in Variant => at'[o] = "sold" /\ UNCHANGED line
      /\ r \in Product => q = r /\ at'[o] \in {"read", "create"} /\ r \notin Variant
      /\ \A u \in Order : u # o => at'[u] = at[u] /\ line'[u] = line[u]
  <2>1. CASE r \in Variant
    BY <1>1, <1>2, <2>1, StockAssumption DEF AfterUpdate, TypeOK
  <2>2. CASE r \notin Variant
    BY <1>1, <1>2, <1>3, <2>2, NextLineType DEF AfterUpdate, Owner
  <2> QED BY <2>1, <2>2, StockAssumption
<1> DEFINE c == IF r \in Variant THEN n ELSE 0
<1>6. \A p \in Product : Pending(o, p)' = IF p = q THEN c ELSE 0
  <2>1. CASE r \in Variant
    <3>1. Line(o)' = Line(o) /\ Ask(o)' = n /\ at'[o] = "sold"
      BY <1>4, <1>2, <2>1 DEF Line, Ask
    <3> QED BY <2>1, <3>1 DEF Pending
  <2>2. CASE r \notin Variant
    BY <1>1, <1>4, <2>2 DEF Pending, Row
  <2> QED BY <2>1, <2>2
<1>7. \A p \in Product : Pending(o, p) = IF p = q THEN n ELSE 0
  BY <1>1 DEF Pending
<1>8. at'[o] \in {"write", "sold"} => Owner(target'[o]) = Owner(Line(o)'.row)
  <2>1. CASE r \in Variant
    BY <1>3, <1>4, <1>2, <2>1 DEF Line
  <2>2. CASE r \notin Variant
    BY <1>1, <1>4, <2>2 DEF Row
  <2> QED BY <2>1, <2>2
<1>9. Adds(asks[o], asks'[o], q, 0) /\ Adds(missed[o], missed'[o], q, 0)
  BY <1>2 DEF Adds, TypeOK
<1>10. CASE Exists(r)
  <2>1. /\ Put(o, r, values) /\ Take(o) /\ MayUpdate(o, r)
        /\ stale' = IF now.stock = found[o] THEN stale ELSE [stale EXCEPT ![o] = @ \cup {r}]
    BY <1>10 DEF WriteSellerLine
  <2> DEFINE s == IF r \in Product THEN n ELSE 0
  <2>2. values \in Values /\ values.stock = found[o] - n /\ values.sold = now.sold + s
    <3>1. Sold(o, now) = now.sold + s /\ Sold(o, now) \in Nat
      BY <1>1 DEF Values, Sold
    <3> HIDE DEF now, s
    <3> QED BY <1>1, <3>1 DEF Values
  <2> HIDE DEF values
  <2>3. /\ \A u \in Order : u # o => dirty'[u] = dirty[u] /\ held'[u] = held[u]
        /\ \A p \in Row : Seen(o, p)' = IF p = r THEN values ELSE Seen(o, p)
    <3> SUFFICES ASSUME NEW row \in Row, row = r
                 PROVE  /\ \A u \in Order : u # o => dirty'[u] = dirty[u] /\ held'[u] = held[u]
                        /\ \A p \in Row : Seen(o, p)' = IF p = row THEN values ELSE Seen(o, p)
      BY <1>1
    <3>1. Put(o, row, values)
      BY <2>1
    <3> QED BY <1>2, <2>2, <3>1, PutPoint
  <2>4. /\ \A u \in Order : u # o => taken'[u] = taken[u]
        /\ \A p \in Row : taken'[o][p] = IF p = r THEN taken[o][p] + n ELSE taken[o][p]
    BY <1>1, <2>1, Taken
  <2>5. /\ \A u \in Order : u # o => stale'[u] = stale[u]
        /\ stale[o] \subseteq stale'[o] /\ (r \notin stale'[o] => now.stock = found[o])
    <3>1. stale \in [Order -> SUBSET Row]
      BY DEF TypeOK
    <3> HIDE DEF r, now
    <3>2. CASE now.stock = found[o]
      BY <2>1, <3>2
    <3>3. CASE now.stock # found[o]
      BY <2>1, <3>1, <3>3
    <3> QED BY <3>2, <3>3
  <2>6. Moves(o)
    BY <1>2, <1>4, <2>3, <2>4, <2>5 DEF Moves
  <2>7. LocksOK'
    <3>1. r \in Variant => r \in used
      BY <1>10, StockAssumption DEF Exists, TypeOK
    <3>2. held' = [held EXCEPT ![o] = @ \cup {r}]
      BY <2>1 DEF Put
    <3> QED BY <1>1, <1>3, <1>2, <2>1, <3>1, <3>2, LocksPut
  <2>8. StockOK(o)'
    <3>1. n \in Int /\ (r \notin stale'[o] => values.stock = Seen(o, r).stock - n)
      BY <1>1, <2>2, <2>5
    <3> HIDE DEF n
    <3> QED BY <1>1, <1>2, <1>3, <2>1, <2>2, <2>4, <2>5, <3>1, StockPut
  <2>9. \A p \in Product : Seen(o, p)'.sold = Seen(o, p).sold + (IF p = q THEN s ELSE 0)
    <3> SUFFICES ASSUME NEW p \in Product
                 PROVE  Seen(o, p)'.sold = Seen(o, p).sold + (IF p = q THEN s ELSE 0)
      OBVIOUS
    <3>1. p \in Row /\ Seen(o, p).sold \in Nat
      BY SeenType DEF Values, Row
    <3>2. CASE p = r
      <4>1. s = n /\ p = q
        BY <1>4, <3>2
      <4>2. Seen(o, p)' = values /\ now = Seen(o, p)
        BY <2>3, <3>1, <3>2
      <4> HIDE DEF s, now, r
      <4> QED BY <2>2, <4>1, <4>2
    <3>3. CASE p # r
      <4>1. Seen(o, p)' = Seen(o, p)
        BY <2>3, <3>1, <3>3
      <4>2. p = q => s = 0
        BY <1>4, <3>3
      <4> QED BY <3>1, <4>1, <4>2
    <3> QED BY <3>2, <3>3
  <2>10. 0 \in Int /\ n \in Int /\ s \in Int /\ c \in Int /\ 0 + n = 0 + c + s
    BY <1>1, StockAssumption DEF Row
  <2> HIDE DEF n, q, c, s
  <2>11. Counts(o, q, 0, 0, s, n, c)
    BY <1>6, <1>7, <1>9, <2>9, <2>10 DEF Counts
  <2>12. SalesOK(o)'
    BY <1>1, <1>2, <1>3, <1>8, <2>11, SalesMove
  <2> QED BY <2>6, <2>7, <2>8, <2>12, LedgerMoves
<1>11. CASE ~Exists(r)
  <2>1. UNCHANGED <<held, dirty, taken, stale>> /\ r \in Variant
    BY <1>1, <1>11 DEF WriteSellerLine, Exists, Row
  <2>2. Moves(o)
    BY <1>2, <1>4, <2>1 DEF Moves
  <2>3. LocksOK' /\ StockOK(o)'
    BY <1>3, <1>2, <2>1, StockKept DEF LocksOK
  <2>4. \A p \in Product : Seen(o, p)'.sold = Seen(o, p).sold + (IF p = q THEN 0 ELSE 0)
    <3>1. \A p \in Product : Seen(o, p).sold \in Nat /\ Seen(o, p)' = Seen(o, p)
      BY <1>2, <2>1, SeenType DEF Values, Row, Seen
    <3> QED BY <3>1
  <2>5. 0 \in Int /\ n \in Int /\ c \in Int /\ 0 + n = 0 + c + 0
    BY <1>1, <2>1
  <2> HIDE DEF n, q, c
  <2>6. Counts(o, q, 0, 0, 0, n, c)
    BY <1>6, <1>7, <1>9, <2>4, <2>5 DEF Counts
  <2>7. SalesOK(o)'
    BY <1>1, <1>2, <1>3, <1>8, <2>6, SalesMove
  <2> QED BY <2>2, <2>3, <2>7, LedgerMoves
<1> QED BY <1>10, <1>11

\* The count of a variant's sale on its product.
LEMMA LedgerCounts ==
    ASSUME TypeOK, LedgerInv, NEW o \in Order, CountSold(o)
    PROVE  LedgerInv'
<1> DEFINE r == ParentOf[target[o]]
           now == Seen(o, r)
           values == [now EXCEPT !.sold = @ + Ask(o)]
           q == Owner(Line(o).row)
           n == Ask(o)
<1>1. /\ at[o] = "sold" /\ target[o] \in Variant /\ r \in Row /\ r \in Product
      /\ n \in Nat /\ now \in Values
  BY LineType, SeenType, StockAssumption DEF CountSold, TypeOK, Row
<1>2. /\ UNCHANGED <<table, live, used, cart, target, found, taken, asks, missed, stale>>
      /\ UNCHANGED <<ordered, uncounted, due, raced>>
      /\ Put(o, r, values) /\ MayUpdate(o, r)
  BY DEF CountSold
<1>3. SalesOK(o) /\ StockOK(o) /\ LocksOK /\ r = q
  BY <1>1 DEF LedgerInv, SalesOK, Owner
<1>4. /\ at'[o] \in {"read", "create", "aborted"}
      /\ \A u \in Order : u # o => at'[u] = at[u] /\ line'[u] = line[u]
  <2>1. CASE o \in SellerOrder /\ target[o] \notin live
    BY <2>1 DEF CountSold, TypeOK
  <2>2. CASE ~(o \in SellerOrder /\ target[o] \notin live)
    BY <1>1, <2>2, NextLineType DEF CountSold
  <2> QED BY <2>1, <2>2
<1>5. values \in Values /\ values.stock = now.stock /\ values.sold = now.sold + n
  <2> HIDE DEF now
  <2>1. now.sold \in Nat /\ now.sold + n \in Nat
    BY <1>1 DEF Values
  <2>2. values.stock = now.stock /\ values.sold = now.sold + n
    BY <1>1 DEF Values
  <2>3. values \in Values
    BY <1>1, <2>1 DEF Values
  <2> QED BY <2>2, <2>3
<1> HIDE DEF values
<1>6. /\ \A u \in Order : u # o => dirty'[u] = dirty[u] /\ held'[u] = held[u]
      /\ \A p \in Row : Seen(o, p)' = IF p = r THEN values ELSE Seen(o, p)
  <2> SUFFICES ASSUME NEW row \in Row, row = r
               PROVE  /\ \A u \in Order : u # o => dirty'[u] = dirty[u] /\ held'[u] = held[u]
                      /\ \A p \in Row : Seen(o, p)' = IF p = row THEN values ELSE Seen(o, p)
    BY <1>1
  <2>1. Put(o, row, values)
    BY <1>2
  <2> QED BY <1>2, <1>5, <2>1, PutPoint
<1>7. Moves(o)
  BY <1>2, <1>4, <1>6 DEF Moves
<1>8. LocksOK'
  <2>1. held' = [held EXCEPT ![o] = @ \cup {r}] /\ r \notin Variant
    BY <1>1, <1>2, StockAssumption DEF Put
  <2> QED BY <1>1, <1>2, <1>3, <2>1, LocksPut
<1>9. StockOK(o)'
  <2>1. /\ \A p \in Row : taken'[o][p] = IF p = r THEN taken[o][p] + 0 ELSE taken[o][p]
        /\ stale[o] \subseteq stale'[o]
    BY <1>2 DEF TypeOK
  <2>2. 0 \in Int /\ values.stock = Seen(o, r).stock - 0
    BY <1>1, <1>5 DEF Values
  <2> QED BY <1>1, <1>2, <1>3, <1>5, <2>1, <2>2, StockPut
<1>10. SalesOK(o)'
  <2>1. Adds(asks[o], asks'[o], q, 0) /\ Adds(missed[o], missed'[o], q, 0)
    BY <1>2 DEF Adds, TypeOK
  <2>2. \A p \in Product : Seen(o, p)'.sold = Seen(o, p).sold + (IF p = q THEN n ELSE 0)
    <3> SUFFICES ASSUME NEW p \in Product
                 PROVE  Seen(o, p)'.sold = Seen(o, p).sold + (IF p = q THEN n ELSE 0)
      OBVIOUS
    <3>1. p \in Row /\ Seen(o, p).sold \in Nat
      BY SeenType DEF Values, Row
    <3>2. CASE p = r
      <4>1. Seen(o, p)' = values /\ now = Seen(o, p)
        BY <1>6, <3>1, <3>2
      <4> HIDE DEF now, r
      <4> QED BY <1>3, <1>5, <3>2, <4>1
    <3>3. CASE p # r
      <4>1. Seen(o, p)' = Seen(o, p)
        BY <1>6, <3>1, <3>3
      <4> QED BY <1>3, <3>1, <3>3, <4>1
    <3> QED BY <3>2, <3>3
  <2>3. \A p \in Product : Pending(o, p) = IF p = q THEN n ELSE 0
    BY <1>1 DEF Pending
  <2>4. \A p \in Product : Pending(o, p)' = IF p = q THEN 0 ELSE 0
    BY <1>4 DEF Pending
  <2>5. 0 \in Int /\ n \in Int /\ 0 + n = 0 + 0 + n
    BY <1>1
  <2> HIDE DEF n, q
  <2>6. Counts(o, q, 0, 0, n, n, 0)
    BY <2>1, <2>2, <2>3, <2>4, <2>5 DEF Counts
  <2> QED BY <1>1, <1>2, <1>3, <1>4, <2>6, SalesMove
<1> QED BY <1>7, <1>8, <1>9, <1>10, LedgerMoves


\* A failed statement: the items of an aborted order no longer count.
LEMMA LedgerFails ==
    ASSUME TypeOK, LedgerInv, NEW o \in Order, Deadlock(o)
    PROVE  LedgerInv'
<1>1. /\ UNCHANGED <<table, used, cart, line, target, held, dirty, taken, asks, missed, stale>>
      /\ UNCHANGED <<ordered, uncounted, due, raced>>
      /\ at'[o] = "aborted" /\ \A u \in Order : u # o => at'[u] = at[u]
  BY DEF Deadlock, TypeOK
<1>2. Moves(o)
  BY <1>1 DEF Moves
<1>3. LocksOK' /\ StockOK(o)' /\ SalesOK(o)'
  BY <1>1, StockKept DEF LedgerInv, LocksOK, SalesOK
<1> QED BY <1>2, <1>3, LedgerMoves

\* An order that has ended has nothing in the books that is not committed.
LEMMA EndedOK ==
    ASSUME NEW o \in Order, table' \in [Row -> Values], at'[o] \in {"placed", "failed"},
           held'[o] = {}, taken'[o] = NoTakes, asks'[o] = NoneOf, missed'[o] = NoneOf
    PROVE  SalesOK(o)' /\ StockOK(o)'
<1>1. StockOK(o)'
  BY DEF StockOK, NoTakes
<1>2. ASSUME NEW p \in Product
      PROVE  asks'[o][p] + table'[p].sold = missed'[o][p] + Pending(o, p)' + Seen(o, p)'.sold
  <2>1. asks'[o][p] = 0 /\ missed'[o][p] = 0
    BY DEF NoneOf
  <2>2. Pending(o, p)' = 0
    BY DEF Pending
  <2>3. Seen(o, p)' = table'[p] /\ table'[p].sold \in Nat
    BY DEF Seen, Row, Values
  <2> QED BY <2>1, <2>2, <2>3
<1> QED BY <1>1, <1>2 DEF SalesOK

\* What ending orders leave of the others.
LEMMA OthersGoOn ==
    ASSUME NEW ending \in SUBSET Order, End(ending), NEW u \in Order \ ending
    PROVE  /\ held'[u] = held[u] /\ dirty'[u] = dirty[u] /\ taken'[u] = taken[u]
           /\ asks'[u] = asks[u] /\ missed'[u] = missed[u] /\ stale'[u] = stale[u]
           /\ cart'[u] = cart[u] /\ line'[u] = line[u] /\ target'[u] = target[u]
  BY DEF End

\* No lock is added at an end.
LEMMA LocksEnd ==
    ASSUME LocksOK, NEW ending \in SUBSET Order, End(ending), used' = used
    PROVE  LocksOK'
  BY DEF LocksOK, End

\* Orders that fail leave the committed rows as they were.
LEMMA LedgerEnds ==
    ASSUME TypeOK, LedgerInv, (\E o \in Order : Rollback(o)) \/ Crash
    PROVE  LedgerInv'
<1>1. PICK ending \in SUBSET Order :
         /\ End(ending) /\ \A o \in ending : at'[o] = "failed"
         /\ \A o \in Order \ ending : at'[o] = at[o]
  <2>1. ASSUME NEW o \in Order, Rollback(o)
        PROVE  /\ End({o}) /\ at'[o] = "failed" /\ {o} \in SUBSET Order
               /\ \A u \in Order \ {o} : at'[u] = at[u]
    BY <2>1 DEF Rollback, TypeOK
  <2>2. ASSUME Crash
        PROVE  \E ending \in SUBSET Order :
                 /\ End(ending) /\ \A o \in ending : at'[o] = "failed"
                 /\ \A o \in Order \ ending : at'[o] = at[o]
    <3> DEFINE ending == {o \in Order : at[o] \in Open}
    <3>1. /\ End(ending) /\ \A o \in ending : at'[o] = "failed"
          /\ \A o \in Order \ ending : at'[o] = at[o]
      BY <2>2 DEF Crash
    <3> QED BY <3>1
  <2> QED BY <2>1, <2>2
<1>2. UNCHANGED <<table, used, ordered, uncounted, due, raced>>
  BY DEF Rollback, Crash
<1>3. RowsAddUp' /\ LocksOK'
  BY <1>1, <1>2, LocksEnd DEF LedgerInv, RowsAddUp
<1>4. ASSUME NEW o \in ending PROVE SalesOK(o)' /\ StockOK(o)'
  <2>1. /\ o \in Order /\ at'[o] = "failed" /\ held'[o] = {} /\ taken'[o] = NoTakes
        /\ asks'[o] = NoneOf /\ missed'[o] = NoneOf
    BY <1>1 DEF End
  <2>2. table' \in [Row -> Values]
    BY <1>2 DEF TypeOK
  <2> QED BY <2>1, <2>2, EndedOK
<1>5. ASSUME NEW o \in Order \ ending PROVE SalesOK(o)' /\ StockOK(o)'
  <2>1. /\ held'[o] = held[o] /\ dirty'[o] = dirty[o] /\ taken'[o] = taken[o]
        /\ asks'[o] = asks[o] /\ missed'[o] = missed[o] /\ stale'[o] = stale[o]
        /\ cart'[o] = cart[o] /\ line'[o] = line[o] /\ target'[o] = target[o]
        /\ at'[o] = at[o]
    BY <1>1, OthersGoOn
  <2>2. StockOK(o)'
    BY <1>2, <2>1, StockKept DEF LedgerInv
  <2>3. SalesOK(o)'
    BY <1>2, <2>1 DEF LedgerInv, SalesOK, Pending, Seen, Line, Ask
  <2> QED BY <2>2, <2>3
<1> QED BY <1>3, <1>4, <1>5 DEF LedgerInv

\* A committed order: what its items say is what it added to the sales and what
\* it missed, and its stock is down by what it took.
LEMMA LedgerCommits ==
    ASSUME TypeOK, LedgerInv, NEW o \in Order, Commit(o)
    PROVE  LedgerInv'
<1>1. /\ at[o] = "create" /\ at'[o] = "placed" /\ End({o}) /\ {o} \in SUBSET Order
      /\ \A u \in Order : u # o => at'[u] = at[u]
  BY DEF Commit, TypeOK
<1>2. /\ table' = [r \in Row |-> Seen(o, r)] /\ used' = used
      /\ ordered' = [p \in Product |-> ordered[p] + asks[o][p]]
      /\ uncounted' = [p \in Product |-> uncounted[p] + missed[o][p]]
      /\ due' = [r \in Row |-> due[r] - taken[o][r]]
      /\ raced' = raced \cup stale[o]
  BY DEF Commit
<1>3. RowsAddUp /\ LocksOK /\ SalesOK(o) /\ StockOK(o)
  BY DEF LedgerInv
<1>4. ASSUME NEW p \in Product PROVE table'[p].sold + uncounted'[p] = ordered'[p]
  <2>1. /\ table'[p] = Seen(o, p) /\ ordered'[p] = ordered[p] + asks[o][p]
        /\ uncounted'[p] = uncounted[p] + missed[o][p]
    BY <1>2 DEF Row
  <2>2. asks[o][p] + table[p].sold = missed[o][p] + Pending(o, p) + Seen(o, p).sold
        /\ Pending(o, p) = 0
    BY <1>1, <1>3 DEF SalesOK, Pending
  <2>3. table[p].sold + uncounted[p] = ordered[p]
    BY <1>3 DEF RowsAddUp
  <2>4. /\ Seen(o, p).sold \in Nat /\ table[p].sold \in Nat /\ asks[o][p] \in Nat
        /\ missed[o][p] \in Nat /\ ordered[p] \in Nat /\ uncounted[p] \in Nat
    BY SeenType DEF TypeOK, Values, Row
  <2> QED BY <2>1, <2>2, <2>3, <2>4
<1>5. ASSUME NEW r \in Row, r \notin raced' PROVE table'[r].stock = due'[r]
  <2>1. table'[r] = Seen(o, r) /\ due'[r] = due[r] - taken[o][r] /\ r \notin raced /\ r \notin stale[o]
    BY <1>2, <1>5
  <2>2. table[r].stock = due[r]
    BY <1>3, <2>1 DEF RowsAddUp
  <2>3. due[r] \in Int /\ taken[o][r] \in Nat
    BY DEF TypeOK
  <2>4. CASE r \in held[o]
    BY <1>3, <2>1, <2>2, <2>4 DEF StockOK, Seen
  <2>5. CASE r \notin held[o]
    BY <1>3, <2>1, <2>2, <2>3, <2>5 DEF StockOK, Seen
  <2> QED BY <2>4, <2>5
<1>6. LocksOK'
  BY <1>1, <1>2, <1>3, LocksEnd
<1>7. table' \in [Row -> Values]
  BY <1>2, SeenType
<1>8. SalesOK(o)' /\ StockOK(o)'
  <2>1. held'[o] = {} /\ taken'[o] = NoTakes /\ asks'[o] = NoneOf /\ missed'[o] = NoneOf
    BY <1>1 DEF End
  <2> QED BY <1>1, <1>7, <2>1, EndedOK
<1>9. ASSUME NEW u \in Order, u # o PROVE SalesOK(u)' /\ StockOK(u)'
  <2>1. /\ held'[u] = held[u] /\ dirty'[u] = dirty[u] /\ taken'[u] = taken[u]
        /\ asks'[u] = asks[u] /\ missed'[u] = missed[u] /\ stale'[u] = stale[u]
        /\ cart'[u] = cart[u] /\ line'[u] = line[u] /\ target'[u] = target[u]
        /\ at'[u] = at[u]
    BY <1>1, <1>9, OthersGoOn
  <2>2. SalesOK(u) /\ StockOK(u)
    BY DEF LedgerInv
  <2>3. \A r \in Row : r \in held[u] => table'[r] = table[r]
    BY <1>2, <1>3, <1>9 DEF LocksOK, Seen
  <2>4. StockOK(u)'
    BY <2>1, <2>2, <2>3 DEF StockOK
  <2>5. ASSUME NEW p \in Product, at'[u] # "aborted"
        PROVE  asks'[u][p] + table'[p].sold = missed'[u][p] + Pending(u, p)' + Seen(u, p)'.sold
    <3>1. /\ asks[u][p] + table[p].sold = missed[u][p] + Pending(u, p) + Seen(u, p).sold
          /\ Pending(u, p)' = Pending(u, p)
      BY <2>1, <2>2, <2>5 DEF SalesOK, Pending, Line, Ask
    <3>2. CASE p \in held[u]
      <4>1. Seen(u, p)' = Seen(u, p) /\ table'[p] = table[p]
        BY <2>1, <2>3, <3>2 DEF Seen, Row
      <4> QED BY <2>1, <3>1, <4>1
    <3>3. CASE p \notin held[u]
      <4>1. Seen(u, p)' = table'[p] /\ Seen(u, p) = table[p]
        BY <2>1, <3>3 DEF Seen
      <4>2. table'[p].sold \in Nat /\ table[p].sold \in Nat /\ asks[u][p] \in Nat /\ missed[u][p] \in Nat
        BY <1>7 DEF TypeOK, Values, Row
      <4>3. asks[u][p] = missed[u][p] + Pending(u, p)
        <5>1. Pending(u, p) \in Nat
          <6>1. CASE at[u] \in {"write", "sold"}
            BY <6>1, LineType DEF Pending
          <6>2. CASE at[u] \notin {"write", "sold"}
            BY <6>2 DEF Pending
          <6> QED BY <6>1, <6>2
        <5> QED BY <3>1, <4>1, <4>2, <5>1
      <4>4. Pending(u, p) = asks[u][p] - missed[u][p]
        <5>1. Pending(u, p) \in Nat
          <6>1. CASE at[u] \in {"write", "sold"}
            BY <6>1, LineType DEF Pending
          <6>2. CASE at[u] \notin {"write", "sold"}
            BY <6>2 DEF Pending
          <6> QED BY <6>1, <6>2
        <5> QED BY <4>2, <4>3, <5>1
      <4> QED BY <2>1, <3>1, <4>1, <4>2, <4>4
    <3> QED BY <3>2, <3>3
  <2>6. SalesOK(u)'
    <3>1. Line(u)' = Line(u)
      BY <2>1 DEF Line
    <3>2. at'[u] \in {"write", "sold"} => Owner(target'[u]) = Owner(Line(u)'.row)
      BY <2>1, <2>2, <3>1 DEF SalesOK
    <3> QED BY <2>5, <3>2 DEF SalesOK
  <2> QED BY <2>4, <2>6
<1> QED BY <1>4, <1>5, <1>6, <1>8, <1>9 DEF LedgerInv, RowsAddUp

\* The seller enters the stock of a row that no order holds.
LEMMA LedgerEnters ==
    ASSUME TypeOK, LedgerInv, NEW r \in Row, NEW n \in Nat, Enters(r, n),
           UNCHANGED <<at, lineVars, txVars, ordered, uncounted>>
    PROVE  LedgerInv'
<1>1. \A o \in Order : r \notin held[o]
  BY DEF Enters, Locked, LedgerInv, LocksOK
<1>2. /\ table'[r].stock = n /\ table'[r].sold = table[r].sold
      /\ \A q \in Row : q # r => table'[q] = table[q]
  <2> DEFINE none == r \in Product /\ n = 0
  <2>1. table' = [table EXCEPT ![r] = [table[r] EXCEPT !.stock = n, !.out = none]]
    BY DEF Enters, Enter
  <2>2. table \in [Row -> Values]
    BY DEF TypeOK
  <2> HIDE DEF none
  <2> QED BY <2>1, <2>2 DEF Values
<1>3. due' = [due EXCEPT ![r] = n] /\ raced' = raced \ {r} /\ used \subseteq used'
  BY DEF Enters, Enter
<1>4. RowsAddUp'
  <2>1. \A p \in Product : table'[p].sold = table[p].sold
    BY <1>2 DEF Row
  <2>2. ASSUME NEW q \in Row, q \notin raced' PROVE table'[q].stock = due'[q]
    BY <1>2, <1>3, <2>2 DEF LedgerInv, RowsAddUp, TypeOK
  <2> QED BY <2>1, <2>2 DEF LedgerInv, RowsAddUp
<1>5. LocksOK'
  BY <1>3 DEF LedgerInv, LocksOK
<1>6. ASSUME NEW o \in Order PROVE SalesOK(o)' /\ StockOK(o)'
  <2>1. StockOK(o)'
    BY <1>1, <1>2 DEF LedgerInv, StockOK
  <2>2. \A p \in Product : table'[p].sold = table[p].sold /\ Seen(o, p)'.sold = Seen(o, p).sold
    BY <1>1, <1>2 DEF Seen, Row
  <2>3. \A p \in Product : Pending(o, p)' = Pending(o, p)
    BY DEF Pending, Line, Ask
  <2>4. at'[o] \in {"write", "sold"} => Owner(target'[o]) = Owner(Line(o)'.row)
    BY DEF LedgerInv, SalesOK, Line
  <2> QED BY <2>1, <2>2, <2>3, <2>4 DEF LedgerInv, SalesOK
<1> QED BY <1>4, <1>5, <1>6 DEF LedgerInv

LEMMA LedgerInductive == TypeOK /\ LedgerInv /\ [Next]_vars => LedgerInv'
<1> SUFFICES ASSUME TypeOK, LedgerInv, [Next]_vars PROVE LedgerInv'
  OBVIOUS
<1>1. ASSUME NEW p \in Product, NEW n \in Amount, EnterStock(p, n) PROVE LedgerInv'
  <2>1. p \in Row /\ n \in Nat
    BY StockAssumption DEF Row
  <2>2. Enters(p, n) /\ UNCHANGED <<at, lineVars, txVars, ordered, uncounted>>
    BY <1>1, <2>1 DEF EnterStock, Enters
  <2> QED BY <2>1, <2>2, LedgerEnters
<1>2. ASSUME NEW v \in Variant, NEW n \in Amount, InsertVariant(v, n) PROVE LedgerInv'
  <2>1. v \in Row /\ n \in Nat
    BY StockAssumption DEF Row
  <2>2. Enters(v, n) /\ UNCHANGED <<at, lineVars, txVars, ordered, uncounted>>
    BY <1>2, <2>1 DEF InsertVariant, Enters
  <2> QED BY <2>1, <2>2, LedgerEnters
<1>3. ASSUME EnterTotal PROVE LedgerInv'
  <2>1. editing \in Row /\ total \in Nat
    BY <1>3 DEF EnterTotal, Row, TypeOK
  <2>2. Enters(editing, total) /\ UNCHANGED <<at, lineVars, txVars, ordered, uncounted>>
    BY <1>3, <2>1 DEF EnterTotal, Enters
  <2> QED BY <2>1, <2>2, LedgerEnters
<1>4. ASSUME (\E p \in Product : DeleteVariants(p)) \/ UNCHANGED vars PROVE LedgerInv'
  <2>1. UNCHANGED <<table, used, at, lineVars, txVars, sumVars>>
    BY <1>4 DEF DeleteVariants, vars
  <2> QED BY <2>1 DEF LedgerInv, RowsAddUp, LocksOK, SalesOK, StockOK, Pending, Seen, Line, Ask
<1> QED
  BY <1>1, <1>2, <1>3, <1>4, LedgerReads, LedgerWritesAI, LedgerWritesSeller, LedgerCounts,
     LedgerFails, LedgerEnds, LedgerCommits
     DEF Next, HandleOrder, CreateOrderFromAI, CreateOrder, UpdateProduct

LEMMA LedgerInit == Init => LedgerInv
<1> SUFFICES ASSUME Init PROVE LedgerInv
  OBVIOUS
<1>1. TypeOK
  BY TypeInit
<1> DEFINE of(p) == {v \in FirstVariants : ParentOf[v] = p}
<1>2. PICK n \in Amount : table = [r \in Row |->
             IF r \in Variant THEN [stock |-> IF r \in FirstVariants THEN n ELSE 0, sold |-> 0, out |-> FALSE]
             ELSE LET s == IF of(r) = {} THEN n ELSE n * Cardinality(of(r)) IN
                  [stock |-> s, sold |-> 0, out |-> s = 0]]
  BY DEF Init
<1>3. \A r \in Row : table[r].sold = 0
  <2> DEFINE sum(r) == IF of(r) = {} THEN n ELSE n * Cardinality(of(r))
             first(r) == IF r \in FirstVariants THEN n ELSE 0
  <2>1. table = [r \in Row |-> IF r \in Variant THEN [stock |-> first(r), sold |-> 0, out |-> FALSE]
                               ELSE [stock |-> sum(r), sold |-> 0, out |-> sum(r) = 0]]
    BY <1>2
  <2> HIDE DEF sum, first
  <2> QED BY <2>1
<1>4. RowsAddUp
  BY <1>3 DEF Init, RowsAddUp, NoneOf, Row
<1>5. LocksOK
  BY DEF Init, LocksOK
<1>6. ASSUME NEW o \in Order PROVE SalesOK(o) /\ StockOK(o)
  <2>1. at[o] = "new" /\ held[o] = {} /\ taken[o] = NoTakes /\ asks[o] = NoneOf /\ missed[o] = NoneOf
    BY DEF Init
  <2>2. StockOK(o)
    BY <2>1 DEF StockOK, NoTakes
  <2>3. \A p \in Product : /\ asks[o][p] = 0 /\ missed[o][p] = 0 /\ Pending(o, p) = 0
                           /\ Seen(o, p) = table[p] /\ table[p].sold = 0
    BY <1>3, <2>1 DEF NoneOf, Pending, Seen, Row
  <2> QED BY <2>1, <2>2, <2>3 DEF SalesOK
<1> QED BY <1>4, <1>5, <1>6 DEF LedgerInv

\* The books add up for any carts, any number of orders and any interleaving of
\* their statements, crashes and edits: a product's total_sold is what the
\* items of the orders say but for lines whose row was gone or short, and the
\* stock is what the seller entered less what was taken, wherever no seller's
\* order wrote over a value that had changed (agents/handler.go:491-526,
\* orders/handler.go:170-196).
THEOREM TakesAddUpHolds == Spec => []TakesAddUp
<1>1. LedgerInv => TakesAddUp
  BY DEF LedgerInv, RowsAddUp, TakesAddUp
<1> QED
  BY <1>1, TypeInit, TypeInductive, LedgerInit, LedgerInductive, PTL DEF Spec

==============================================================================
