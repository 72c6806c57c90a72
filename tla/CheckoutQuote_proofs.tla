------------------------ MODULE CheckoutQuote_proofs ------------------------
(***************************************************************************)
(* Proofs about Inventory and CheckoutQuote, for any SKUs, carts, seeds    *)
(* and levels of the oversell scenario.                                    *)
(***************************************************************************)
EXTENDS CheckoutQuote, FiniteSetTheorems, TLAPS

-----------------------------------------------------------------------------
(* Sums.  The library's induction theorems have an operator for a          *)
(* parameter; the finite subsets of Nat being well founded under inclusion *)
(* is a fact without one, and gives every set of naturals a least element. *)

LEMMA LeastNumber ==
  ASSUME NEW T, T \subseteq Nat, T # {}
  PROVE  \E x \in T : \A y \in T : x <= y
<1> DEFINE Upto == { 1 .. n : n \in T }
<1>1. Upto \subseteq FiniteSubsetsOf(Nat) /\ Upto # {}
  <2>1. ASSUME NEW n \in T PROVE 1 .. n \in FiniteSubsetsOf(Nat)
    <3>1. IsFiniteSet(1 .. n)
      BY FS_Interval
    <3> QED
      BY <3>1 DEF FiniteSubsetsOf
  <2> QED
    BY <2>1
<1>2. \E X \in Upto : \A Y \in Upto : << Y, X >> \notin StrictSubsetOrdering(Nat)
  <2> HIDE DEF Upto
  <2> QED
    BY <1>1, FS_StrictSubsetOrderingWellFounded, WFMin
<1>3. PICK x \in T : \A y \in T : << 1 .. y, 1 .. x >> \notin StrictSubsetOrdering(Nat)
  BY <1>2
<1>4. ASSUME NEW y \in T, y < x PROVE << 1 .. y, 1 .. x >> \in StrictSubsetOrdering(Nat)
  <2>1. 1 .. y \subseteq 1 .. x /\ x \in 1 .. x /\ x \notin 1 .. y /\ 1 .. x \subseteq Nat
    BY <1>4
  <2> QED
    BY <2>1 DEF StrictSubsetOrdering
<1>5. ASSUME NEW y \in T PROVE x <= y
  <2>1. x \in Nat /\ y \in Nat /\ ~(y < x)
    <3> HIDE DEF Upto
    <3> QED
      BY <1>3, <1>4
  <2> QED
    BY <2>1
<1> QED
  BY <1>5

\* A set that has 0, and with each number below n the next one, has them all.
LEMMA Induction ==
  ASSUME NEW n \in Nat, NEW T, 0 \in T,
         \A j \in 1 .. n : j - 1 \in T => j \in T
  PROVE  \A j \in 0 .. n : j \in T
<1> DEFINE Bad == { j \in 0 .. n : j \notin T }
<1>1. SUFFICES ASSUME Bad # {} PROVE FALSE
  OBVIOUS
<1>2. PICK k \in Bad : \A j \in Bad : k <= j
  <2>1. Bad \subseteq Nat
    OBVIOUS
  <2> HIDE DEF Bad
  <2> QED
    BY <1>1, <2>1, LeastNumber
<1>3. k \in 1 .. n /\ k - 1 \in 0 .. n /\ k - 1 \notin Bad
  BY <1>2
<1> QED
  BY <1>2, <1>3

\* s is what LET binds in SumTo.
IsSum(s, f, n) == s = [i \in 0 .. n |-> IF i = 0 THEN 0 ELSE s[i - 1] + f[i]]

LEMMA SumExists ==
  ASSUME NEW f, NEW n \in Nat
  PROVE  \E s : IsSum(s, f, n)
<1> DEFINE T == { j \in Nat : \E s : IsSum(s, f, j) }
<1>1. 0 \in T
  <2>1. IsSum([i \in 0 .. 0 |-> 0], f, 0)
    BY DEF IsSum
  <2> QED
    BY <2>1
<1>2. ASSUME NEW j \in 1 .. n, j - 1 \in T PROVE j \in T
  <2>1. PICK s : IsSum(s, f, j - 1)
    BY <1>2
  <2> DEFINE t == [i \in 0 .. j |-> IF i = j THEN s[j - 1] + f[j] ELSE s[i]]
  <2>2. \A i \in 0 .. j : t[i] = IF i = 0 THEN 0 ELSE t[i - 1] + f[i]
    BY <2>1 DEF IsSum
  <2>3. IsSum(t, f, j)
    BY <2>2, Zenon DEF IsSum
  <2> QED
    BY <2>3
<1>3. n \in T
  <2> HIDE DEF T
  <2> QED
    BY <1>1, <1>2, Induction
<1> QED
  BY <1>3

\* The equation of the recursive function of SumTo.
LEMMA SumToDef ==
  ASSUME NEW f, NEW n \in Nat
  PROVE  \E s : /\ SumTo(f, n) = s[n]
                /\ s[0] = 0
                /\ \A i \in 1 .. n : s[i] = s[i - 1] + f[i]
<1> DEFINE sum == CHOOSE s : IsSum(s, f, n)
<1>1. IsSum(sum, f, n)
  BY SumExists
<1>2. SumTo(f, n) = sum[n]
  BY DEF SumTo, IsSum
<1> HIDE DEF sum
<1>3. sum[0] = 0 /\ \A i \in 1 .. n : sum[i] = sum[i - 1] + f[i]
  BY <1>1 DEF IsSum
<1> QED
  BY <1>2, <1>3

\* Sums of naturals are naturals.
LEMMA SumToType ==
  ASSUME NEW n \in Nat, NEW f, \A i \in 1 .. n : f[i] \in Nat
  PROVE  SumTo(f, n) \in Nat
<1>1. PICK s : /\ SumTo(f, n) = s[n]
               /\ s[0] = 0
               /\ \A i \in 1 .. n : s[i] = s[i - 1] + f[i]
  BY SumToDef
<1> DEFINE T == { j \in 0 .. n : s[j] \in Nat }
<1>2. 0 \in T /\ \A j \in 1 .. n : j - 1 \in T => j \in T
  BY <1>1
<1>3. n \in T
  <2> HIDE DEF T
  <2> QED
    BY <1>2, Induction
<1> QED
  BY <1>1, <1>3

\* A sum changes by as much as one of its terms does.
LEMMA SumToChange ==
  ASSUME NEW n \in Nat, NEW f, NEW g, NEW k \in 1 .. n, NEW d \in Int,
         \A i \in 1 .. n : f[i] \in Nat,
         \A i \in 1 .. n : g[i] = IF i = k THEN f[i] + d ELSE f[i]
  PROVE  SumTo(g, n) = SumTo(f, n) + d
<1>1. PICK s : /\ SumTo(f, n) = s[n]
               /\ s[0] = 0
               /\ \A i \in 1 .. n : s[i] = s[i - 1] + f[i]
  BY SumToDef
<1>2. PICK t : /\ SumTo(g, n) = t[n]
               /\ t[0] = 0
               /\ \A i \in 1 .. n : t[i] = t[i - 1] + g[i]
  BY SumToDef
<1> DEFINE T == { j \in 0 .. n : s[j] \in Int /\ t[j] = IF j < k THEN s[j] ELSE s[j] + d }
<1>3. 0 \in T
  BY <1>1, <1>2
<1>4. ASSUME NEW j \in 1 .. n, j - 1 \in T PROVE j \in T
  BY <1>1, <1>2, <1>4
<1>5. n \in T
  <2> HIDE DEF T
  <2> QED
    BY <1>3, <1>4, Induction
<1> QED
  BY <1>1, <1>2, <1>5

LEMMA SumToZero ==
  ASSUME NEW n \in Nat, NEW f, \A i \in 1 .. n : f[i] = 0
  PROVE  SumTo(f, n) = 0
<1>1. PICK s : /\ SumTo(f, n) = s[n]
               /\ s[0] = 0
               /\ \A i \in 1 .. n : s[i] = s[i - 1] + f[i]
  BY SumToDef
<1> DEFINE T == { j \in 0 .. n : s[j] = 0 }
<1>2. 0 \in T /\ \A j \in 1 .. n : j - 1 \in T => j \in T
  BY <1>1
<1>3. n \in T
  <2> HIDE DEF T
  <2> QED
    BY <1>2, Induction
<1> QED
  BY <1>1, <1>3

-----------------------------------------------------------------------------
(* Carts.                                                                  *)

USE StockAssumption, CartsAssumption, QuoteAssumption

LEMMA UnitsType ==
  ASSUME NEW cart \in Seq(Line), NEW s
  PROVE  /\ Len(cart) \in Nat
         /\ \A i \in 1 .. Len(cart) : cart[i] \in Line
         /\ \A i \in 1 .. Len(cart) :
              UnitsByLine(cart, s)[i] = IF cart[i].sku = s THEN cart[i].quantity ELSE 0
         /\ \A i \in 1 .. Len(cart) : UnitsByLine(cart, s)[i] \in Nat
         /\ Requested(cart, s) \in Nat
<1>1. Len(cart) \in Nat /\ \A i \in 1 .. Len(cart) : cart[i] \in Line
  OBVIOUS
<1>2. \A i \in 1 .. Len(cart) :
        UnitsByLine(cart, s)[i] = IF cart[i].sku = s THEN cart[i].quantity ELSE 0
  BY DEF UnitsByLine
<1>3. \A i \in 1 .. Len(cart) : UnitsByLine(cart, s)[i] \in Nat
  BY <1>1, <1>2 DEF Line
<1>4. Requested(cart, s) \in Nat
  BY <1>1, <1>3, SumToType DEF Requested
<1> QED
  BY <1>1, <1>2, <1>3, <1>4

LEMMA LinesType ==
  ASSUME NEW o \in Orders, NEW l \in ToSet(CartOf[o])
  PROVE  l.sku \in Skus /\ l.quantity \in Nat
<1>1. CartOf[o] \in Seq(Line)
  OBVIOUS
<1>2. PICK i \in 1 .. Len(CartOf[o]) : l = CartOf[o][i]
  BY <1>1 DEF ToSet
<1>3. l \in Line
  BY <1>1, <1>2
<1> QED
  BY <1>3 DEF Line

LEMMA RequestedByLine ==
  ASSUME NEW cart \in Seq(Line), NEW s, Requested(cart, s) # 0
  PROVE  \E k \in 1 .. Len(cart) : cart[k].sku = s
<1>1. PICK k \in 1 .. Len(cart) : UnitsByLine(cart, s)[k] # 0
  BY UnitsType, SumToZero DEF Requested
<1> QED
  BY <1>1, UnitsType

\* Without a second line for its SKU, a line's units are all that is requested.
LEMMA RequestedOnce ==
  ASSUME NEW cart \in Seq(Line), NEW s, ~HasRepeatedSku(cart), Requested(cart, s) # 0
  PROVE  \E k \in 1 .. Len(cart) : cart[k].sku = s /\ Requested(cart, s) = cart[k].quantity
<1> DEFINE u == UnitsByLine(cart, s)
           n == Len(cart)
<1>1. PICK k \in 1 .. n : u[k] # 0
  BY UnitsType, SumToZero DEF Requested
<1>2. cart[k].sku = s /\ u[k] = cart[k].quantity /\ u[k] \in Int /\ n \in Nat
  BY <1>1, UnitsType
<1>3. \A i \in 1 .. n : u[i] = IF i = k THEN u[k] ELSE 0
  BY <1>2, UnitsType DEF HasRepeatedSku
<1> HIDE DEF u, n
<1> DEFINE zero == [i \in 1 .. n |-> 0]
<1>4. \A i \in 1 .. n : zero[i] = 0
  OBVIOUS
<1> HIDE DEF zero
<1>5. SumTo(u, n) = SumTo(zero, n) + u[k]
  <2>1. /\ \A i \in 1 .. n : zero[i] \in Nat
        /\ \A i \in 1 .. n : u[i] = IF i = k THEN zero[i] + u[k] ELSE zero[i]
    BY <1>2, <1>3, <1>4
  <2> QED
    BY <1>2, <2>1, SumToChange
<1>6. SumTo(zero, n) = 0
  BY <1>2, <1>4, SumToZero
<1> QED
  BY <1>2, <1>5, <1>6 DEF Requested, u, n

-----------------------------------------------------------------------------
(* The deductions.                                                         *)

\* Taking the lines of a cart one after the other, each what there is of it,
\* leaves of a SKU and reports as missing what Deducted and Shortfall say.
THEOREM DeductionsCorrect ==
  ASSUME NEW cart \in Seq(Line), NEW s, ledger[s] \in Nat,
         NEW left, NEW missing, left[0] = ledger[s], missing[0] = 0,
         DeductedByLine(cart, s, left, missing)
  PROVE  left[Len(cart)] = Deducted(cart, s) /\ missing[Len(cart)] = Shortfall(cart, s)
<1> DEFINE n == Len(cart)
           u == UnitsByLine(cart, s)
<1>1. n \in Nat /\ \A i \in 1 .. n : u[i] \in Nat
  BY UnitsType
<1>2. PICK sum : /\ Requested(cart, s) = sum[n]
                 /\ sum[0] = 0
                 /\ \A i \in 1 .. n : sum[i] = sum[i - 1] + u[i]
  BY <1>1, SumToDef DEF Requested
<1>3. \A i \in 1 .. n :
        IF left[i - 1] - u[i] < 0
        THEN left[i] = 0 /\ missing[i] = missing[i - 1] + u[i] - left[i - 1]
        ELSE left[i] = left[i - 1] - u[i] /\ missing[i] = missing[i - 1]
  BY DEF DeductedByLine
<1> DEFINE T == { i \in 0 .. n :
                    /\ sum[i] \in Nat
                    /\ left[i] = IF sum[i] > ledger[s] THEN 0 ELSE ledger[s] - sum[i]
                    /\ missing[i] = IF sum[i] > ledger[s] THEN sum[i] - ledger[s] ELSE 0 }
<1> HIDE DEF n, u
<1>4. 0 \in T
  BY <1>1, <1>2
<1>5. ASSUME NEW i \in 1 .. n, i - 1 \in T PROVE i \in T
  <2>1. sum[i] = sum[i - 1] + u[i] /\ u[i] \in Nat /\ sum[i - 1] \in Nat
    BY <1>1, <1>2, <1>5
  <2>2. CASE sum[i - 1] > ledger[s]
    BY <1>1, <1>3, <1>5, <2>1, <2>2
  <2>3. CASE ~(sum[i - 1] > ledger[s])
    BY <1>1, <1>3, <1>5, <2>1, <2>3
  <2> QED
    BY <2>2, <2>3
<1>6. n \in T
  <2> HIDE DEF T
  <2>1. n \in Nat /\ \A i \in 1 .. n : i - 1 \in T => i \in T
    BY <1>1, <1>5
  <2>2. \A i \in 0 .. n : i \in T
    BY <1>4, <2>1, Induction
  <2> QED
    BY <2>1, <2>2
<1> QED
  BY <1>2, <1>6 DEF Deducted, Shortfall, n

-----------------------------------------------------------------------------
(* What has been sold.                                                     *)

LEMMA OrdersInSequence ==
  /\ Cardinality(Orders) \in Nat
  /\ SetToSeq(Orders) \in [1 .. Cardinality(Orders) -> Orders]
  /\ \A i, j \in 1 .. Cardinality(Orders) :
       SetToSeq(Orders)[i] = SetToSeq(Orders)[j] => i = j
  /\ \A o \in Orders : \E i \in 1 .. Cardinality(Orders) : SetToSeq(Orders)[i] = o
<1> DEFINE n == Cardinality(Orders)
<1>1. n \in Nat /\ ExistsBijection(1 .. n, Orders)
  BY FS_CardinalityType
<1>2. \E f \in [1 .. n -> Orders] : IsInjective(f)
  BY <1>1 DEF ExistsBijection, Bijection, Injection
<1>3. SetToSeq(Orders) \in [1 .. n -> Orders] /\ IsInjective(SetToSeq(Orders))
  BY <1>2 DEF SetToSeq
<1>4. SetToSeq(Orders) \in Surjection(1 .. n, Orders)
  <2>1. IsFiniteSet(1 .. n) /\ Cardinality(1 .. n) = n
    BY <1>1, FS_Interval
  <2>2. SetToSeq(Orders) \in Injection(1 .. n, Orders)
    BY <1>3 DEF Injection
  <2> QED
    BY <2>1, <2>2, FS_Injection
<1> QED
  BY <1>1, <1>3, <1>4 DEF IsInjective, Surjection

LEMMA RequestedType ==
  ASSUME NEW o \in Orders, NEW s
  PROVE  Requested(CartOf[o], s) \in Nat /\ CartOf[o] \in Seq(Line)
BY UnitsType

\* An allocation adds the units of its cart to what was sold.
LEMMA SoldChange ==
  ASSUME NEW s, NEW o \in Orders, answer \in [Orders -> { "none", "refused", "allocated" }],
         answer[o] # "allocated", answer' = [answer EXCEPT ![o] = "allocated"]
  PROVE  Sold(s)' = Sold(s) + Requested(CartOf[o], s)
<1> DEFINE n == Cardinality(Orders)
           orders == SetToSeq(Orders)
           f == [i \in 1 .. n |-> SoldTo(orders[i], s)]
           g == [i \in 1 .. n |-> SoldTo(orders[i], s)']
           d == Requested(CartOf[o], s)
<1>1. Sold(s) = SumTo(f, n) /\ Sold(s)' = SumTo(g, n)
  BY DEF Sold
<1>2. PICK k \in 1 .. n : orders[k] = o
  BY OrdersInSequence
<1>3. d \in Nat
  BY RequestedType
<1>4. \A i \in 1 .. n : f[i] \in Nat
  BY OrdersInSequence, RequestedType DEF SoldTo
<1>5. ASSUME NEW i \in 1 .. n PROVE g[i] = IF i = k THEN f[i] + d ELSE f[i]
  <2>1. orders[i] \in Orders /\ (orders[i] = o <=> i = k)
    BY <1>2, OrdersInSequence
  <2>2. CASE i = k
    BY <1>2, <1>3, <2>2 DEF SoldTo
  <2>3. CASE i # k
    BY <2>1, <2>3 DEF SoldTo
  <2> QED
    BY <2>2, <2>3
<1>6. n \in Nat
  BY OrdersInSequence
<1>7. PICK F, G : F = f /\ G = g
  OBVIOUS
<1>8. /\ \A i \in 1 .. n : F[i] \in Nat
      /\ \A i \in 1 .. n : G[i] = IF i = k THEN F[i] + d ELSE F[i]
  BY <1>4, <1>5, <1>7
<1> HIDE DEF n, d, f, g, orders
<1>9. SumTo(G, n) = SumTo(F, n) + d
  <2>1. d \in Int
    BY <1>3
  <2> QED
    BY <1>6, <1>8, <2>1, SumToChange
<1> QED
  BY <1>1, <1>7, <1>9 DEF d

\* A refusal adds nothing.
LEMMA SoldSame ==
  ASSUME NEW s, \A o \in Orders : answer'[o] = "allocated" <=> answer[o] = "allocated"
  PROVE  Sold(s)' = Sold(s)
<1> DEFINE n == Cardinality(Orders)
           orders == SetToSeq(Orders)
<1>1. \A i \in 1 .. n : SoldTo(orders[i], s)' = SoldTo(orders[i], s)
  BY OrdersInSequence DEF SoldTo
<1>2. [i \in 1 .. n |-> SoldTo(orders[i], s)'] = [i \in 1 .. n |-> SoldTo(orders[i], s)]
  BY <1>1
<1> QED
  BY <1>2 DEF Sold

LEMMA NothingSold ==
  ASSUME NEW s, \A o \in Orders : answer[o] # "allocated"
  PROVE  Sold(s) = 0
<1> DEFINE n == Cardinality(Orders)
           f == [i \in 1 .. n |-> SoldTo(SetToSeq(Orders)[i], s)]
<1>1. n \in Nat /\ \A i \in 1 .. n : f[i] = 0
  BY OrdersInSequence DEF SoldTo
<1>2. Sold(s) = SumTo(f, n)
  BY DEF Sold
<1> HIDE DEF n, f
<1> QED
  BY <1>1, <1>2, SumToZero

LEMMA SoldType ==
  ASSUME NEW s, answer \in [Orders -> { "none", "refused", "allocated" }]
  PROVE  Sold(s) \in Nat
<1> DEFINE n == Cardinality(Orders)
           f == [i \in 1 .. n |-> SoldTo(SetToSeq(Orders)[i], s)]
<1>1. n \in Nat /\ \A i \in 1 .. n : f[i] \in Nat
  BY OrdersInSequence, RequestedType DEF SoldTo
<1>2. Sold(s) = SumTo(f, n)
  BY DEF Sold
<1> HIDE DEF n, f
<1> QED
  BY <1>1, <1>2, SumToType

-----------------------------------------------------------------------------
(* The inductive invariant.                                                *)

\* What is cached of a SKU was read from the ledger this second, and has only been
\* sold from since, or is the inflated figure of the scenario; or it is that of a
\* SKU whose stock has been restored since.
CacheFits ==
  \A s \in Skus : cache[s] # Miss => cache[s] >= ledger[s] \/ BehindRestore(s)

Stages == { "none", "refused", "awaited", "late", "answered", "timed out" }

\* A check that is waited for is never overdue, so that one whose timer ends is one
\* that sleeps longer than the timer.
QuoteFits ==
  /\ spike \in { 0 } \cup Factors
  /\ quote \in [Quotes -> [stage : Stages, factor : { 0, 1, 2, HIGH }, seconds : Nat]]
  /\ \A q \in Quotes :
       quote[q].stage = "awaited" => quote[q].seconds <= Longest(quote[q].factor)
  /\ TimesOutOnlyAtHigh

IInv == TypeOK /\ StockAccounted /\ CacheFits /\ QuoteFits

StockInv == TypeOK /\ StockAccounted /\ CacheFits

LEMMA InitStock == Init => StockInv
<1> SUFFICES ASSUME Init PROVE StockInv
  OBVIOUS
<1>1. TypeOK /\ CacheFits
  BY DEF Init, TypeOK, CacheFits, Miss
<1>2. ASSUME NEW s \in Skus PROVE ledger[s] + Sold(s) = Seed[s] + shortfall[s]
  <2>1. Sold(s) = 0
    BY NothingSold DEF Init
  <2> QED
    BY <2>1 DEF Init
<1> QED
  BY <1>1, <1>2 DEF StockInv, StockAccounted

\* What an allocation takes from the ledger it adds to what was sold, up to the
\* shortfall it reports.
LEMMA AllocateKeeps ==
  ASSUME StockInv, NEW o \in Orders, Allocate(o)
  PROVE  StockInv'
<1> DEFINE cart == CartOf[o]
<1>1. \A s : Requested(cart, s) \in Nat
  BY RequestedType
<1>2. /\ ledger' = [s \in Skus |-> Deducted(cart, s)]
      /\ shortfall' = [s \in Skus |-> shortfall[s] + Shortfall(cart, s)]
      /\ answer' = [answer EXCEPT ![o] = "allocated"] /\ answer[o] # "allocated"
      /\ UNCHANGED << cache, scenario, oversellActive >>
  BY DEF Allocate
<1>3. /\ ledger \in [Skus -> Nat] /\ shortfall \in [Skus -> Nat]
      /\ answer \in [Orders -> { "none", "refused", "allocated" }]
  BY DEF StockInv, TypeOK
<1> HIDE DEF cart
<1>4. ASSUME NEW s \in Skus
      PROVE  /\ Deducted(cart, s) \in Nat /\ Shortfall(cart, s) \in Nat
             /\ Deducted(cart, s) <= ledger[s]
             /\ Deducted(cart, s) + Requested(cart, s) = ledger[s] + Shortfall(cart, s)
  BY <1>1, <1>3 DEF Deducted, Shortfall
<1>5. TypeOK'
  BY <1>2, <1>3, <1>4 DEF StockInv, TypeOK
<1>6. CacheFits'
  <2>1. ASSUME NEW s \in Skus, cache[s] # Miss
        PROVE  cache[s] >= ledger'[s] \/ BehindRestore(s)'
    <3>1. /\ cache[s] \in Nat /\ ledger[s] \in Nat
          /\ cache[s] >= ledger[s] \/ BehindRestore(s)
      BY <1>3, <2>1 DEF StockInv, TypeOK, CacheFits
    <3>2. ledger'[s] \in Nat /\ ledger'[s] <= ledger[s]
      BY <1>2, <1>4
    <3> QED
      BY <1>2, <2>1, <3>1, <3>2, StockAssumption DEF BehindRestore
  <2> QED
    BY <1>2, <2>1 DEF CacheFits
<1>7. ASSUME NEW s \in Skus \ HotSkus
      PROVE  ledger'[s] + Sold(s)' = Seed[s] + shortfall'[s]
  <2>1. ledger[s] + Sold(s) = Seed[s] + shortfall[s]
    BY DEF StockInv, StockAccounted
  <2>2. Sold(s)' = Sold(s) + Requested(cart, s)
    BY <1>2, <1>3, SoldChange DEF cart
  <2>3. Sold(s) \in Nat /\ Seed[s] \in Nat /\ ledger[s] \in Nat /\ shortfall[s] \in Nat
    BY <1>3, SoldType
  <2>4. ledger'[s] = Deducted(cart, s) /\ shortfall'[s] = shortfall[s] + Shortfall(cart, s)
    BY <1>2
  <2>5. /\ Deducted(cart, s) \in Nat /\ Shortfall(cart, s) \in Nat
        /\ Requested(cart, s) \in Nat
        /\ Deducted(cart, s) + Requested(cart, s) = ledger[s] + Shortfall(cart, s)
    BY <1>1, <1>4
  <2>6. /\ ledger'[s] \in Nat /\ shortfall'[s] \in Nat
        /\ ledger'[s] + Requested(cart, s) + shortfall[s] = ledger[s] + shortfall'[s]
    <3> DEFINE left == Deducted(cart, s)
               missed == Shortfall(cart, s)
               asked == Requested(cart, s)
    <3>1. left \in Nat /\ missed \in Nat /\ asked \in Nat /\ left + asked = ledger[s] + missed
      BY <2>5
    <3>2. ledger'[s] = left /\ shortfall'[s] = shortfall[s] + missed
      BY <2>4
    <3> HIDE DEF left, missed, asked
    <3>3. left + asked + shortfall[s] = ledger[s] + (shortfall[s] + missed)
      BY <2>3, <3>1
    <3>4. shortfall[s] + missed \in Nat
      BY <2>3, <3>1
    <3> QED
      BY <3>1, <3>2, <3>3, <3>4 DEF asked
  <2>7. Sold(s)' \in Nat
    BY <2>2, <2>3, <2>5
  <2>8. PICK n, a, k, f, r, m, b, g \in Nat :
          /\ n = ledger[s] /\ a = Sold(s) /\ k = Seed[s] /\ f = shortfall[s]
          /\ m = ledger'[s] /\ b = Sold(s)' /\ g = shortfall'[s] /\ r = Requested(cart, s)
    BY <2>3, <2>5, <2>6, <2>7
  <2>9. n + a = k + f
    BY <2>1, <2>8
  <2>10. b = a + r
    BY <2>2, <2>8
  <2>11. m + r + f = n + g
    BY <2>6, <2>8
  <2>12. m + b = k + g
    BY <2>9, <2>10, <2>11
  <2> QED
    BY <2>8, <2>12
<1> QED
  BY <1>5, <1>6, <1>7 DEF StockInv, StockAccounted

LEMMA NextStock == StockInv /\ [Next]_vars => StockInv'
<1> SUFFICES ASSUME StockInv, [Next]_vars PROVE StockInv'
  OBVIOUS
<1>0. TypeOK /\ StockAccounted /\ CacheFits
  BY DEF StockInv
\* Whoever sells nothing keeps the books of the SKUs whose ledger it leaves alone.
<1>1. ASSUME \A o \in Orders : answer'[o] = "allocated" <=> answer[o] = "allocated",
             \A s \in Skus \ HotSkus : ledger'[s] = ledger[s],
             shortfall' = shortfall
      PROVE  StockAccounted'
  <2>1. \A s \in Skus \ HotSkus : Sold(s)' = Sold(s)
    BY <1>1, SoldSame
  <2> QED
    BY <1>0, <1>1, <2>1 DEF StockAccounted
<1>2. ASSUME NEW o \in Orders, Allocate(o) PROVE StockInv'
  BY <1>2, AllocateKeeps
<1>3. ASSUME NEW o \in Orders, Refuse(o) PROVE StockInv'
  <2>1. TypeOK' /\ CacheFits'
    BY <1>0, <1>3 DEF Refuse, TypeOK, CacheFits, BehindRestore
  <2>2. StockAccounted'
    BY <1>0, <1>1, <1>3 DEF Refuse, TypeOK
  <2> QED
    BY <2>1, <2>2 DEF StockInv
<1>4. ASSUME NEW o \in Orders, CheckAvailability(o) PROVE StockInv'
  <2>1. TypeOK' /\ CacheFits'
    BY <1>0, <1>4 DEF CheckAvailability, TypeOK, CacheFits, BehindRestore, Miss
  <2>2. StockAccounted'
    BY <1>1, <1>4 DEF CheckAvailability
  <2> QED
    BY <2>1, <2>2 DEF StockInv
<1>5. CASE NewSecond
  <2>1. TypeOK' /\ CacheFits'
    BY <1>0, <1>5 DEF NewSecond, TypeOK, CacheFits, Miss
  <2>2. StockAccounted'
    BY <1>1, <1>5 DEF NewSecond
  <2> QED
    BY <2>1, <2>2 DEF StockInv
<1>6. CASE SyncOversellState
  <2>1. /\ \A s \in Skus \ HotSkus : ledger'[s] = ledger[s] /\ cache'[s] = cache[s]
        /\ ledger' \in [Skus -> Nat] /\ cache' \in [Skus -> Nat \cup { Miss }]
    BY <1>0, <1>6 DEF SyncOversellState, TypeOK
  <2>2. TypeOK'
    BY <1>0, <1>6, <2>1 DEF SyncOversellState, TypeOK
  <2>4. ASSUME NEW s \in Skus, cache'[s] # Miss
        PROVE  cache'[s] >= ledger'[s] \/ BehindRestore(s)'
    <3>1. CASE scenario /\ s \in HotSkus
      <4>1. cache'[s] = OVERSELL_CACHE_ONHAND /\ ledger'[s] \in OversellFloors
        BY <1>0, <1>6, <3>1 DEF SyncOversellState, TypeOK
      <4> QED
        BY <4>1, StockAssumption
    <3>2. CASE ~scenario /\ oversellActive /\ s \in HotSkus
      <4>1. /\ cache' = cache /\ ledger'[s] = OVERSELL_RESTORE_ONHAND /\ ~oversellActive'
            /\ cache[s] \in Nat
        BY <1>0, <1>6, <2>4, <3>2 DEF SyncOversellState, TypeOK
      <4> QED
        BY <2>4, <3>2, <4>1, StockAssumption DEF BehindRestore
    <3>3. CASE ~scenario /\ ~oversellActive
      <4>1. cache' = cache /\ ledger'[s] = ledger[s] /\ ~oversellActive'
        BY <1>0, <1>6, <3>3 DEF SyncOversellState, TypeOK
      <4> QED
        BY <1>0, <2>4, <4>1 DEF CacheFits, BehindRestore
    <3>4. CASE s \notin HotSkus
      BY <1>0, <2>1, <2>4, <3>4 DEF CacheFits, BehindRestore
    <3> QED
      BY <1>0, <3>1, <3>2, <3>3, <3>4 DEF TypeOK
  <2>5. CacheFits'
    BY <2>4 DEF CacheFits
  <2>3. StockAccounted'
    BY <1>1, <1>6, <2>1 DEF SyncOversellState
  <2> QED
    BY <2>2, <2>3, <2>5 DEF StockInv
<1>7. CASE ToggleScenario
  <2>1. TypeOK' /\ CacheFits'
    BY <1>0, <1>7 DEF ToggleScenario, TypeOK, CacheFits, BehindRestore
  <2>2. StockAccounted'
    BY <1>1, <1>7 DEF ToggleScenario
  <2> QED
    BY <2>1, <2>2 DEF StockInv
<1>8. CASE UNCHANGED vars
  <2>1. TypeOK' /\ CacheFits'
    BY <1>0, <1>8 DEF vars, TypeOK, CacheFits, BehindRestore
  <2>2. StockAccounted'
    BY <1>1, <1>8 DEF vars
  <2> QED
    BY <2>1, <2>2 DEF StockInv
<1> QED
  BY <1>2, <1>3, <1>4, <1>5, <1>6, <1>7, <1>8 DEF Next

-----------------------------------------------------------------------------
(* The quotes.                                                             *)

\* For the stock, a quote is a check of its availability, made when it ends.
LEMMA QuoteStepsOfStock == [QuoteNext]_quoteVars => [Next]_vars
<1> SUFFICES ASSUME [QuoteNext]_quoteVars PROVE [Next]_vars
  OBVIOUS
<1>1. ASSUME NEW q \in Quotes, BeginCheck(q) \/ RefuseQuote(q) \/ TimeOut(q) PROVE UNCHANGED vars
  BY <1>1 DEF BeginCheck, RefuseQuote, TimeOut
<1>2. ASSUME NEW q \in Quotes, EndCheck(q) PROVE Next
  BY <1>2 DEF EndCheck, Next
<1>3. CASE QuoteSecond
  BY <1>3 DEF QuoteSecond, Next
<1>4. CASE ToggleSpike
  BY <1>4 DEF ToggleSpike
<1>5. CASE StockStep
  BY <1>5 DEF StockStep, Next
<1>6. CASE UNCHANGED quoteVars
  BY <1>6 DEF quoteVars
<1> QED
  BY <1>1, <1>2, <1>3, <1>4, <1>5, <1>6 DEF QuoteNext

LEMMA NextQuotes == QuoteFits /\ [QuoteNext]_quoteVars => QuoteFits'
<1> SUFFICES ASSUME QuoteFits, [QuoteNext]_quoteVars PROVE QuoteFits'
  OBVIOUS
<1> DEFINE Fits(x) == /\ x \in [stage : Stages, factor : { 0, 1, 2, HIGH }, seconds : Nat]
                      /\ x.stage = "awaited" => x.seconds <= Longest(x.factor)
                      /\ x.stage \in { "late", "timed out" } => x.factor = HIGH
<1>1. /\ quote \in [Quotes -> [stage : Stages, factor : { 0, 1, 2, HIGH }, seconds : Nat]]
      /\ \A q \in Quotes : Fits(quote[q])
  BY DEF QuoteFits, TimesOutOnlyAtHigh
<1>2. spike \in { 0 } \cup Factors /\ spike \in { 0, 1, 2, HIGH }
  BY DEF QuoteFits
<1>0. ASSUME NEW q \in Quotes
      PROVE  /\ quote[q].factor \in { 0, 1, 2, 4 } /\ quote[q].seconds \in Nat
             /\ Longest(quote[q].factor) \in Nat
  <2>1. quote[q].factor \in { 0, 1, 2, HIGH } /\ quote[q].seconds \in Nat
    BY <1>1
  <2> QED
    BY <2>1 DEF HIGH, Longest
<1>3. ASSUME spike' \in { 0 } \cup Factors, NEW q \in Quotes, NEW x, Fits(x),
             quote' = [quote EXCEPT ![q] = x]
      PROVE  QuoteFits'
  BY <1>1, <1>3 DEF QuoteFits, TimesOutOnlyAtHigh
<1>4. ASSUME NEW q \in Quotes, BeginCheck(q) PROVE QuoteFits'
  <2>1. Fits([stage |-> "awaited", factor |-> spike, seconds |-> 0])
    BY <1>2 DEF Stages, Longest, HIGH
  <2> QED
    BY <1>2, <1>3, <1>4, <2>1 DEF BeginCheck
<1>5. ASSUME NEW q \in Quotes, RefuseQuote(q) PROVE QuoteFits'
  <2>1. Fits([NoQuote EXCEPT !.stage = "refused"])
    BY DEF NoQuote, Stages, HIGH
  <2> QED
    BY <1>2, <1>3, <1>5, <2>1 DEF RefuseQuote
<1>6. ASSUME NEW q \in Quotes, EndCheck(q) PROVE QuoteFits'
  <2> DEFINE x == [quote[q] EXCEPT !.stage = IF @ = "late" THEN "timed out" ELSE "answered"]
  <2>1. Fits(x)
    BY <1>1 DEF Stages
  <2>2. quote' = [quote EXCEPT ![q] = x] /\ spike' = spike
    BY <1>1, <1>6 DEF EndCheck
  <2> QED
    BY <1>2, <1>3, <2>1, <2>2
<1>7. ASSUME NEW q \in Quotes, TimeOut(q) PROVE QuoteFits'
  <2> DEFINE x == [quote[q] EXCEPT !.stage = "late"]
  \* No sleep of a lower factor outlasts the timer.
  <2>1. quote[q].factor = HIGH
    <3>1. quote[q].seconds = 5 /\ quote[q].seconds <= Longest(quote[q].factor)
      BY <1>1, <1>7 DEF TimeOut, QUOTE_TIMEOUT
    <3> QED
      BY <1>0, <3>1 DEF Longest, HIGH
  <2>2. Fits(x)
    BY <1>1, <2>1 DEF Stages
  <2>3. quote' = [quote EXCEPT ![q] = x] /\ spike' = spike
    BY <1>1, <1>7 DEF TimeOut
  <2> QED
    BY <1>2, <1>3, <2>2, <2>3
<1>8. CASE QuoteSecond
  <2>1. /\ quote' = [q \in Quotes |-> IF Checking(q) THEN [quote[q] EXCEPT !.seconds = @ + 1]
                                       ELSE quote[q]]
        /\ \A q \in Quotes : Checking(q) => quote[q].seconds < Longest(quote[q].factor)
        /\ spike' = spike
    BY <1>8 DEF QuoteSecond
  <2>2. ASSUME NEW q \in Quotes PROVE Fits(quote'[q])
    <3>1. CASE Checking(q)
      <4>1. quote'[q] = [quote[q] EXCEPT !.seconds = @ + 1]
        BY <2>1, <3>1
      <4>2. quote[q].seconds + 1 <= Longest(quote[q].factor)
        BY <1>0, <2>1, <3>1
      <4>3. quote[q].stage \notin { "late", "timed out" } \/ quote[q].factor = HIGH
        BY <1>1
      <4>4. /\ quote'[q] \in [stage : Stages, factor : { 0, 1, 2, HIGH }, seconds : Nat]
            /\ quote'[q].stage = quote[q].stage /\ quote'[q].factor = quote[q].factor
            /\ quote'[q].seconds = quote[q].seconds + 1
        <5>1. quote[q] \in [stage : Stages, factor : { 0, 1, 2, HIGH }, seconds : Nat]
          BY <1>1
        <5>2. quote[q].seconds + 1 \in Nat
          BY <1>0
        <5> QED
          BY <4>1, <5>1, <5>2
      <4> QED
        BY <4>2, <4>3, <4>4
    <3>2. CASE ~Checking(q)
      BY <1>1, <2>1, <3>2
    <3> QED
      BY <3>1, <3>2
  <2> QED
    BY <1>2, <2>1, <2>2 DEF QuoteFits, TimesOutOnlyAtHigh
<1>9. CASE ToggleSpike
  <2>1. spike' \in { 0 } \cup Factors /\ quote' = quote
    BY <1>9 DEF ToggleSpike
  <2> QED
    BY <1>1, <2>1 DEF QuoteFits, TimesOutOnlyAtHigh
<1>10. CASE StockStep \/ UNCHANGED quoteVars
  BY <1>10 DEF StockStep, quoteVars, QuoteFits, TimesOutOnlyAtHigh
<1> QED
  BY <1>4, <1>5, <1>6, <1>7, <1>8, <1>9, <1>10 DEF QuoteNext

LEMMA InitQuotes == QuoteInit => QuoteFits
<1> SUFFICES ASSUME QuoteInit PROVE QuoteFits
  OBVIOUS
<1>1. /\ NoQuote \in [stage : Stages, factor : { 0, 1, 2, HIGH }, seconds : Nat]
      /\ NoQuote.stage = "none"
  BY DEF NoQuote, Stages
<1>2. spike = 0 /\ quote = [q \in Quotes |-> NoQuote]
  BY DEF QuoteInit
<1> QED
  BY <1>1, <1>2 DEF QuoteFits, TimesOutOnlyAtHigh

\* The inductive invariant holds in every state of every behaviour.
THEOREM Invariant == QuoteSpec => []IInv
<1>1. QuoteInit => IInv
  BY InitStock, InitQuotes DEF QuoteInit, StockInv, IInv
<1>2. IInv /\ [QuoteNext]_quoteVars => IInv'
  BY NextStock, NextQuotes, QuoteStepsOfStock DEF StockInv, IInv
<1> QED
  BY <1>1, <1>2, PTL DEF QuoteSpec

-----------------------------------------------------------------------------
(* What follows.                                                           *)

\* The variables of the stock have their types; no stock is ever negative.
THEOREM TypesCorrect == QuoteSpec => []TypeOK
<1>1. IInv => TypeOK
  BY DEF IInv
<1> QED
  BY <1>1, Invariant, PTL

\* No unit of a SKU that the scenario leaves alone is lost: it is in the ledger,
\* or sold, or was reported as a shortfall.
THEOREM StockCorrect == QuoteSpec => []StockAccounted
<1>1. IInv => StockAccounted
  BY DEF IInv
<1> QED
  BY <1>1, Invariant, PTL

\* Only at intensity high does the latency scenario make a quote time out.
THEOREM TimeoutsCorrect == QuoteSpec => []TimesOutOnlyAtHigh
<1>1. IInv => TimesOutOnlyAtHigh
  BY DEF IInv, QuoteFits
<1> QED
  BY <1>1, Invariant, PTL

\* A stale view of the stock refuses no order that the ledger would not refuse, but
\* for that of a hot SKU whose stock was restored after the view was cached.
THEOREM RefusalsCorrect == QuoteSpec => RefusedOnlyWhenShort
<1> DEFINE Short == \A o \in Orders :
                      answer'[o] = "refused" /\ answer[o] # "refused" =>
                        \E l \in ToSet(CartOf[o]) : l.quantity > ledger[l.sku] \/ BehindRestore(l.sku)
<1>1. ASSUME IInv, NEW o \in Orders, Refuse(o)
      PROVE  \E l \in ToSet(CartOf[o]) : l.quantity > ledger[l.sku] \/ BehindRestore(l.sku)
  <2>1. PICK l \in ToSet(CartOf[o]) : ~(Visible(l.sku) >= l.quantity)
    BY <1>1 DEF Refuse, GateClears
  <2>2. l.sku \in Skus /\ l.quantity \in Nat
    BY <2>1, LinesType
  <2>3. ledger[l.sku] \in Nat /\ (cache[l.sku] # Miss => cache[l.sku] \in Nat)
    BY <1>1, <2>2 DEF IInv, TypeOK
  <2>4. cache[l.sku] # Miss => cache[l.sku] >= ledger[l.sku] \/ BehindRestore(l.sku)
    BY <1>1, <2>2 DEF IInv, CacheFits
  <2> QED
    BY <2>1, <2>2, <2>3, <2>4 DEF Visible
<1>2. ASSUME IInv, [Next]_vars PROVE Short
  <2>1. SUFFICES ASSUME NEW o \in Orders, answer'[o] = "refused", answer[o] # "refused"
                 PROVE  Refuse(o)
    BY <1>1, <1>2
  <2>2. answer \in [Orders -> { "none", "refused", "allocated" }]
    BY <1>2 DEF IInv, TypeOK
  <2>3. ASSUME NEW p \in Orders, Allocate(p) PROVE FALSE
    BY <2>1, <2>2, <2>3 DEF Allocate
  <2>4. ASSUME NEW p \in Orders, Refuse(p) PROVE p = o
    BY <2>1, <2>2, <2>4 DEF Refuse
  <2>5. answer' # answer
    BY <2>1
  <2> QED
    BY <1>2, <2>3, <2>4, <2>5
       DEF Next, CheckAvailability, NewSecond, SyncOversellState, ToggleScenario, vars
<1>3. IInv /\ [QuoteNext]_quoteVars => [Short]_vars
  BY <1>2, QuoteStepsOfStock
<1> QED
  BY <1>3, Invariant, PTL DEF QuoteSpec, RefusedOnlyWhenShort

\* An allocation falls short only through a stale view or through two lines for
\* one SKU, of which the gate compares each alone with the stock.
THEOREM ShortfallsCorrect == QuoteSpec => ShortOnlyWhenStale
<1> DEFINE Excused(s) ==
             \/ cache[s] # Miss /\ cache[s] > ledger[s]
             \/ \E o \in Orders : /\ answer[o] # "allocated" /\ answer'[o] = "allocated"
                                  /\ s \in SkusOf(CartOf[o])
                                  /\ HasRepeatedSku(CartOf[o])
           Stale == \A s \in Skus : shortfall'[s] > shortfall[s] => Excused(s)
<1>1. ASSUME IInv, NEW o \in Orders, Allocate(o),
             NEW s \in Skus, shortfall'[s] > shortfall[s]
      PROVE  Excused(s)
  <2> DEFINE cart == CartOf[o]
  <2>1. cart \in Seq(Line) /\ Requested(cart, s) \in Nat
    BY RequestedType
  <2>2. ledger[s] \in Nat /\ cache[s] \in Nat \cup { Miss } /\ shortfall[s] \in Nat
    BY <1>1 DEF IInv, TypeOK
  <2>3. Requested(cart, s) > ledger[s]
    <3>1. shortfall'[s] = shortfall[s] + Shortfall(cart, s)
      BY <1>1 DEF Allocate
    <3> HIDE DEF cart
    <3>2. CASE ~(Requested(cart, s) > ledger[s])
      BY <1>1, <2>2, <3>1, <3>2 DEF Shortfall
    <3> QED
      BY <3>2
  <2>4. answer[o] # "allocated" /\ answer'[o] = "allocated"
    BY <1>1 DEF Allocate, IInv, TypeOK
  <2>5. Requested(cart, s) # 0
    <3> HIDE DEF cart
    <3> QED
      BY <2>1, <2>2, <2>3
  <2>6. PICK k \in 1 .. Len(cart) : cart[k].sku = s
    <3> HIDE DEF cart
    <3> QED
      BY <2>1, <2>5, RequestedByLine
  <2>7. cart[k].sku = s /\ cart[k] \in ToSet(cart)
    BY <2>1, <2>6 DEF ToSet
  <2>8. CASE HasRepeatedSku(cart)
    BY <2>4, <2>7, <2>8 DEF SkusOf
  <2>9. CASE ~HasRepeatedSku(cart)
    <3>1. PICK j \in 1 .. Len(cart) : cart[j].sku = s /\ Requested(cart, s) = cart[j].quantity
      <4> HIDE DEF cart
      <4> QED
        BY <2>1, <2>5, <2>9, RequestedOnce
    <3>2. cart[j] \in ToSet(cart)
      BY <2>1 DEF ToSet
    <3>3. Visible(s) >= Requested(cart, s)
      BY <1>1, <3>1, <3>2 DEF Allocate, GateClears
    <3> QED
      BY <2>1, <2>2, <2>3, <3>3 DEF Visible
  <2> QED
    BY <2>8, <2>9
<1>2. ASSUME IInv, [Next]_vars PROVE Stale
  <2>1. SUFFICES ASSUME NEW s \in Skus, shortfall'[s] > shortfall[s] PROVE Excused(s)
    OBVIOUS
  <2>2. shortfall' # shortfall
    <3>1. shortfall[s] \in Nat
      BY <1>2 DEF IInv, TypeOK
    <3> QED
      BY <2>1, <3>1
  <2>3. \E o \in Orders : Allocate(o)
    BY <1>2, <2>2
       DEF Next, Refuse, CheckAvailability, NewSecond, SyncOversellState, ToggleScenario, vars
  <2> QED
    BY <1>1, <1>2, <2>1, <2>3
<1>3. IInv /\ [QuoteNext]_quoteVars => [Stale]_vars
  BY <1>2, QuoteStepsOfStock
<1> QED
  BY <1>3, Invariant, PTL DEF QuoteSpec, ShortOnlyWhenStale
=============================================================================
