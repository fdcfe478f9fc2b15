----------------------- MODULE CommissionLedger_proofs -----------------------
(***************************************************************************)
(* What calculateCommission guarantees for every amount and every rate it  *)
(* accepts; sums of functions, by induction over their domains; and, from  *)
(* both, that for any receipts, wallets and batches a closure balances and *)
(* the ledger agrees with the summaries.  The last part is about the       *)
(* transfers that pay what the ledger owes, those of PayoutTransfers:      *)
(* folds over sequences, in the same way as sums, and from them that what  *)
(* is verified has been paid and what is signed is verified.               *)
(***************************************************************************)
EXTENDS CommissionLedger, PayoutTransfers, FiniteSetTheorems, WellFoundedInduction, TLAPS

-----------------------------------------------------------------------------
(* A commission and its shares                                             *)

\* A share in basis points: between nothing and the whole, and off by less
\* than one unit.
LEMMA ShareBounds ==
  ASSUME NEW amount \in Nat, NEW bps \in Bps
  PROVE  LET share == (amount * bps) \div 10000
         IN  /\ share \in Nat /\ share <= amount
             /\ share * 10000 <= amount * bps
             /\ amount * bps < (share + 1) * 10000
<1> DEFINE product == amount * bps
<1>1. product \in Nat
  BY SMT DEF Bps
<1>2. product <= amount * 10000
  <2>1. bps \in Nat /\ 10000 - bps \in Nat
    BY DEF Bps
  <2>2. amount * (10000 - bps) \in Nat
    <3> DEFINE rest == 10000 - bps
    <3>1. rest \in Nat
      BY <2>1
    <3> HIDE DEF rest
    <3>2. amount * rest \in Nat
      BY <3>1, SMT
    <3> QED
      BY <3>2 DEF rest
  <2>3. amount * (10000 - bps) = amount * 10000 - product
    BY <2>1, SMT
  <2> QED
    BY <1>1, <2>2, <2>3
<1> HIDE DEF product
<1>3. LET share == product \div 10000
      IN  /\ share \in Nat /\ share <= amount
          /\ share * 10000 <= product
          /\ product < (share + 1) * 10000
  BY <1>1, <1>2, SMT
<1> QED
  BY <1>3 DEF product

\* The commission is never more than the payment; it is split into the fee and
\* the referrer's credit without a rest, and neither is negative.
THEOREM CommissionIsSplit ==
  ASSUME NEW amount \in Nat, NEW commissionBps \in Bps, NEW feeBps \in Bps
  PROVE  LET due == CalculateCommission(amount, commissionBps, feeBps)
         IN  /\ due.commission \in 0 .. amount
             /\ due.protocolFee \in 0 .. due.commission
             /\ due.referrerCredit \in 0 .. due.commission
             /\ due.protocolFee + due.referrerCredit = due.commission
<1> DEFINE commission == (amount * commissionBps) \div 10000
           fee        == ProtocolFee(commission, feeBps)
<1>1. commission \in Nat /\ commission <= amount
  BY ShareBounds
<1> HIDE DEF commission
<1>2. fee \in Nat /\ fee <= commission
  BY <1>1, ShareBounds DEF ProtocolFee
<1> HIDE DEF fee
<1>3. CalculateCommission(amount, commissionBps, feeBps)
        = [commission |-> commission, protocolFee |-> fee,
           referrerCredit |-> commission - fee]
  BY DEF CalculateCommission, commission, fee
<1> QED
  BY <1>1, <1>2, <1>3

\* Rounding favours whoever pays: a payment in two parts earns no more
\* commission than the whole, and at most one unit less.
THEOREM PartsEarnNoMore ==
  ASSUME NEW first \in Nat, NEW second \in Nat,
         NEW commissionBps \in Bps, NEW feeBps \in Bps
  PROVE  LET Earned(amount) ==
               CalculateCommission(amount, commissionBps, feeBps).commission
             whole == Earned(first + second)
             parts == Earned(first) + Earned(second)
         IN  parts <= whole /\ whole <= parts + 1
<1> DEFINE share(amount) == (amount * commissionBps) \div 10000
<1>1. \A amount : CalculateCommission(amount, commissionBps, feeBps).commission
                    = share(amount)
  BY DEF CalculateCommission
<1> DEFINE p == first * commissionBps
           q == second * commissionBps
<1>2. p \in Nat /\ q \in Nat
  BY SMT DEF Bps
<1>3. (first + second) * commissionBps = p + q
  BY SMT DEF Bps
<1> HIDE DEF p, q
<1>4. /\ p \div 10000 + q \div 10000 <= (p + q) \div 10000
      /\ (p + q) \div 10000 <= p \div 10000 + q \div 10000 + 1
  BY <1>2, SMT
<1>5. /\ share(first) = p \div 10000 /\ share(second) = q \div 10000
      /\ share(first + second) = (p + q) \div 10000
  BY <1>3 DEF p, q
<1> QED
  BY <1>1, <1>4, <1>5

-----------------------------------------------------------------------------
(* Induction                                                               *)

\* A non-empty set of naturals has a least element.
LEMMA LeastNat ==
  ASSUME NEW T \in SUBSET Nat, T # {}
  PROVE  \E n \in T : \A m \in T : n <= m
<1>1. PICK n \in T : \A m \in T : ~ (<<m, n>> \in OpToRel(<, Nat))
  BY NatLessThanWellFounded, WFMin
<1>2. ASSUME NEW m \in T PROVE ~ (m < n)
  <2>1. m \in Nat /\ n \in Nat /\ ~ (<<m, n>> \in OpToRel(<, Nat))
    BY <1>1
  <2> QED BY <2>1, Zenon DEF OpToRel
<1>3. \A m \in T : n <= m
  BY <1>2
<1> QED
  BY <1>3

\* Induction over the naturals and over the parts of a finite set, each for the
\* set of those that have the property.
LEMMA NatSetInduction ==
  ASSUME NEW T \in SUBSET Nat, 0 \in T, \A n \in T : n + 1 \in T
  PROVE  \A n \in Nat : n \in T
<1> SUFFICES ASSUME Nat \ T # {} PROVE FALSE
  OBVIOUS
<1>1. PICK n \in Nat \ T : \A m \in Nat \ T : n <= m
  BY LeastNat
<1>2. n # 0 /\ n - 1 \in Nat
  BY <1>1
<1>3. n - 1 \in T
  BY <1>1, <1>2
<1> QED
  BY <1>1, <1>2, <1>3

LEMMA FiniteSetInduction ==
  ASSUME NEW S, IsFiniteSet(S), NEW T \in SUBSET SUBSET S, {} \in T,
         \A s \in SUBSET S : s # {} /\ (\A x \in s : s \ {x} \in T) => s \in T
  PROVE  \A s \in SUBSET S : s \in T
<1> DEFINE N == {n \in Nat : \A s \in SUBSET S : Cardinality(s) = n => s \in T}
<1>1. \A s \in SUBSET S : IsFiniteSet(s) /\ Cardinality(s) \in Nat
  BY FS_Subset, FS_CardinalityType
<1>2. 0 \in N
  BY <1>1, FS_EmptySet
<1>3. ASSUME NEW n \in N PROVE n + 1 \in N
  <2> SUFFICES ASSUME NEW s \in SUBSET S, Cardinality(s) = n + 1 PROVE s \in T
    OBVIOUS
  <2>1. s # {}
    BY FS_EmptySet
  <2>2. ASSUME NEW x \in s PROVE s \ {x} \in T
    <3>1. Cardinality(s \ {x}) = n
      BY <1>1, FS_RemoveElement
    <3> QED BY <3>1
  <2> QED BY <2>1, <2>2
<1> HIDE DEF N
<1>4. \A n \in Nat : n \in N
  <2>1. N \in SUBSET Nat
    BY DEF N
  <2> QED BY <1>2, <1>3, <2>1, NatSetInduction
<1> QED
  BY <1>1, <1>4 DEF N

-----------------------------------------------------------------------------
(* The sum of a function                                                   *)

Pick(s) == CHOOSE x \in s : TRUE
Added(f, h, s) == IF s = {} THEN 0 ELSE f[Pick(s)] + h[s \ {Pick(s)}]
Adds(f, h, S) == h = [s \in SUBSET S |-> Added(f, h, s)]

LEMMA SumIsAdded ==
  ASSUME NEW S, NEW f, NEW h, Adds(f, h, S)
  PROVE  \E g : Adds(f, g, S) /\ SumFunctionOnSet(f, S) = g[S]
<1> DEFINE g == CHOOSE i : i = [s \in SUBSET S |-> Added(f, i, s)]
<1>1. g = [s \in SUBSET S |-> Added(f, g, s)]
  BY DEF Adds
<1>2. SumFunctionOnSet(f, S) = g[S]
  BY DEF SumFunctionOnSet, FoldFunctionOnSet, MapThenFoldSet, Added, Pick
<1> QED BY <1>1, <1>2 DEF Adds

LEMMA AddsExists ==
  ASSUME NEW S, IsFiniteSet(S), NEW f \in [S -> Int]
  PROVE  \E h : Adds(f, h, S)
<1> DEFINE D(n) == {s \in SUBSET S : Cardinality(s) <= n}
           H(n) == \E h \in [D(n) -> Int] : \A s \in D(n) : h[s] = Added(f, h, s)
           N == {n \in Nat : H(n)}
<1>1. \A s \in SUBSET S : IsFiniteSet(s) /\ Cardinality(s) \in Nat
  BY FS_Subset, FS_CardinalityType
<1>2. \A s \in SUBSET S : s # {} =>
        /\ Pick(s) \in s /\ f[Pick(s)] \in Int /\ s \ {Pick(s)} \in SUBSET S
        /\ Cardinality(s \ {Pick(s)}) = Cardinality(s) - 1
  <2> TAKE s \in SUBSET S
  <2> HAVE s # {}
  <2>1. Pick(s) \in s
    BY DEF Pick
  <2> QED BY <1>1, <2>1, FS_RemoveElement
<1>3. H(0)
  <2>1. \A s \in D(0) : s = {}
    BY <1>1, FS_EmptySet
  <2> QED BY <2>1, [s \in D(0) |-> 0] \in [D(0) -> Int] DEF Added
<1>4. ASSUME NEW n \in Nat, H(n) PROVE H(n + 1)
  <2>1. PICK h \in [D(n) -> Int] : \A s \in D(n) : h[s] = Added(f, h, s)
    BY <1>4
  <2> DEFINE i == [s \in D(n + 1) |-> Added(f, h, s)]
  <2>2. \A s \in D(n + 1) : s # {} => s \ {Pick(s)} \in D(n)
    BY <1>1, <1>2
  <2>3. \A s \in D(n + 1) : Added(f, h, s) \in Int
    BY <1>2, <2>1, <2>2 DEF Added
  <2>4. \A s \in D(n) : s \in D(n + 1) /\ i[s] = h[s]
    BY <1>1, <2>1
  <2>5. \A s \in D(n + 1) : i[s] = Added(f, i, s)
    BY <2>2, <2>4 DEF Added
  <2> QED BY <2>3, <2>5
<1>5. \A n \in Nat : n \in N
  <2> HIDE DEF H
  <2>1. N \in SUBSET Nat /\ 0 \in N /\ \A n \in N : n + 1 \in N
    BY <1>3, <1>4
  <2> HIDE DEF N
  <2> QED BY <2>1, NatSetInduction
<1>6. D(Cardinality(S)) = SUBSET S
  BY <1>1, FS_Subset
<1>7. H(Cardinality(S))
  BY <1>1, <1>5
<1>8. PICK h \in [SUBSET S -> Int] : \A s \in SUBSET S : h[s] = Added(f, h, s)
  BY <1>6, <1>7
<1> QED
  BY <1>8 DEF Adds

\* The values of two such functions agree where what they add up does.
LEMMA AddsAgree ==
  ASSUME NEW S, NEW R, IsFiniteSet(R), R \subseteq S, NEW f, NEW g, NEW h, NEW i,
         Adds(f, h, S), Adds(g, i, R), \A x \in R : f[x] = g[x]
  PROVE  \A s \in SUBSET R : h[s] = i[s]
<1> DEFINE T == {s \in SUBSET R : h[s] = i[s]}
<1>1. \A s \in SUBSET R : h[s] = Added(f, h, s) /\ i[s] = Added(g, i, s)
  BY DEF Adds
<1>2. {} \in T
  BY <1>1 DEF Added
<1>3. ASSUME NEW s \in SUBSET R, s # {}, \A x \in s : s \ {x} \in T PROVE s \in T
  <2>1. Pick(s) \in s
    BY <1>3 DEF Pick
  <2> QED BY <1>1, <1>3, <2>1 DEF Added
<1> HIDE DEF T
<1>4. \A s \in SUBSET R : s \in T
  <2>1. T \in SUBSET SUBSET R
    BY DEF T
  <2> QED BY <1>2, <1>3, <2>1, FiniteSetInduction
<1> QED
  BY <1>4 DEF T

LEMMA AddsIntegers ==
  ASSUME NEW S, IsFiniteSet(S), NEW f \in [S -> Int], NEW h, Adds(f, h, S)
  PROVE  \A s \in SUBSET S : h[s] \in Int
<1> DEFINE T == {s \in SUBSET S : h[s] \in Int}
<1>1. \A s \in SUBSET S : h[s] = Added(f, h, s)
  BY DEF Adds
<1>2. {} \in T
  <2>1. Added(f, h, {}) = 0
    BY DEF Added
  <2> QED BY <1>1, <2>1
<1>3. ASSUME NEW s \in SUBSET S, s # {}, \A x \in s : s \ {x} \in T PROVE s \in T
  <2>1. Pick(s) \in s
    BY <1>3 DEF Pick
  <2>2. f[Pick(s)] \in Int /\ h[s \ {Pick(s)}] \in Int
    BY <1>3, <2>1
  <2>3. Added(f, h, s) = f[Pick(s)] + h[s \ {Pick(s)}]
    BY <1>3 DEF Added
  <2>4. h[s] \in Int
    BY <1>1, <2>2, <2>3
  <2> QED BY <2>4
<1> HIDE DEF T
<1>4. \A s \in SUBSET S : s \in T
  <2>1. T \in SUBSET SUBSET S
    BY DEF T
  <2> QED BY <1>2, <1>3, <2>1, FiniteSetInduction
<1> QED
  BY <1>4 DEF T

\* The order of the additions does not matter.
LEMMA AddsInAnyOrder ==
  ASSUME NEW S, IsFiniteSet(S), NEW f \in [S -> Int], NEW h, Adds(f, h, S)
  PROVE  \A s \in SUBSET S : \A x \in s : h[s] = f[x] + h[s \ {x}]
<1> DEFINE T == {s \in SUBSET S : \A x \in s : h[s] = f[x] + h[s \ {x}]}
<1>1. \A s \in SUBSET S : h[s] = Added(f, h, s)
  BY DEF Adds
<1>2. {} \in T
  OBVIOUS
<1>3. ASSUME NEW s \in SUBSET S, s # {}, \A x \in s : s \ {x} \in T PROVE s \in T
  <2> DEFINE p == Pick(s)
  <2>1. p \in s /\ h[s] = f[p] + h[s \ {p}]
    BY <1>1, <1>3 DEF Added, Pick
  <2> HIDE DEF p
  <2>2. ASSUME NEW x \in s, x # p PROVE h[s] = f[x] + h[s \ {x}]
    <3> DEFINE rest == (s \ {x}) \ {p}
    <3>1. (s \ {p}) \ {x} = rest
      OBVIOUS
    <3>2. h[s \ {p}] = f[x] + h[(s \ {p}) \ {x}]
      BY <1>3, <2>1, <2>2
    <3>3. h[s \ {x}] = f[p] + h[rest]
      BY <1>3, <2>1, <2>2
    <3>4. h[rest] \in Int /\ f[x] \in Int /\ f[p] \in Int
      BY AddsIntegers, <2>1
    <3> HIDE DEF rest
    <3>5. h[s] = f[p] + (f[x] + h[rest])
      BY <2>1, <3>1, <3>2
    <3> QED BY <3>3, <3>4, <3>5
  <2> QED BY <2>1, <2>2
<1> HIDE DEF T
<1>4. \A s \in SUBSET S : s \in T
  <2>1. T \in SUBSET SUBSET S
    BY DEF T
  <2> QED BY <1>2, <1>3, <2>1, FiniteSetInduction
<1> QED
  BY <1>4 DEF T

\* What the ledger needs to know of sums: they are integers, and an element can
\* be taken out.
LEMMA SumIsInteger ==
  ASSUME NEW S, IsFiniteSet(S), NEW f \in [S -> Int]
  PROVE  SumFunction(f) \in Int
<1>1. PICK h : Adds(f, h, S)
  BY AddsExists
<1>2. PICK g : Adds(f, g, S) /\ SumFunctionOnSet(f, S) = g[S]
  BY <1>1, SumIsAdded
<1>3. g[S] \in Int
  BY <1>2, AddsIntegers
<1> QED
  BY <1>2, <1>3 DEF SumFunction

LEMMA SumOfNothing ==
  ASSUME NEW f, DOMAIN f = {}
  PROVE  SumFunction(f) = 0
<1>1. IsFiniteSet({}) /\ SUBSET {} = {{}}
  BY FS_EmptySet
<1>2. Adds(f, [s \in SUBSET {} |-> 0], {})
  BY <1>1 DEF Adds, Added
<1>3. PICK g : Adds(f, g, {}) /\ SumFunctionOnSet(f, {}) = g[{}]
  BY <1>2, SumIsAdded
<1>4. g[{}] = 0
  BY <1>3 DEF Adds, Added
<1> QED
  BY <1>3, <1>4 DEF SumFunction

LEMMA SumRemove ==
  ASSUME NEW S, IsFiniteSet(S), NEW f \in [S -> Int], NEW x \in S
  PROVE  SumFunction(f) = f[x] + SumFunction(Restrict(f, S \ {x}))
<1> DEFINE R == S \ {x}
           r == Restrict(f, R)
<1>1. IsFiniteSet(R) /\ R \subseteq S /\ r \in [R -> Int] /\ DOMAIN r = R
  BY FS_Subset DEF Restrict
<1>2. PICK h : Adds(f, h, S) /\ SumFunctionOnSet(f, S) = h[S]
  BY AddsExists, SumIsAdded
<1>3. PICK i : Adds(r, i, R) /\ SumFunctionOnSet(r, R) = i[R]
  BY <1>1, AddsExists, SumIsAdded
<1>4. \A y \in R : f[y] = r[y]
  BY DEF Restrict
<1>5. h[R] = i[R]
  BY <1>1, <1>2, <1>3, <1>4, AddsAgree
<1>6. h[S] = f[x] + h[R]
  BY <1>2, AddsInAnyOrder
<1> QED
  BY <1>1, <1>2, <1>3, <1>5, <1>6 DEF SumFunction

\* A sum is that of a part and that of the rest.
LEMMA SumOfPart ==
  ASSUME NEW S, IsFiniteSet(S), NEW f \in [S -> Int], NEW A \in SUBSET S
  PROVE  SumFunction(f) = SumFunction(Restrict(f, A)) + SumFunction(Restrict(f, S \ A))
<1> DEFINE Sum(s) == SumFunction(Restrict(f, s))
           T == {s \in SUBSET S : SumFunction(f) = Sum(s) + Sum(S \ s)}
<1>1. \A s \in SUBSET S : IsFiniteSet(s) /\ Restrict(f, s) \in [s -> Int] /\ Sum(s) \in Int
  BY FS_Subset, SumIsInteger DEF Restrict
<1>2. ASSUME NEW s \in SUBSET S, NEW x \in s PROVE Sum(s) = f[x] + Sum(s \ {x})
  <2>1. Restrict(Restrict(f, s), s \ {x}) = Restrict(f, s \ {x}) /\ Restrict(f, s)[x] = f[x]
    BY DEF Restrict
  <2> QED BY <1>1, <2>1, SumRemove
<1>3. Sum({}) = 0 /\ Sum(S) = SumFunction(f) /\ Sum(S) \in Int
  BY <1>1, SumOfNothing DEF Restrict
<1> HIDE DEF Sum
<1>4. {} \in T
  <2>1. S \ {} = S
    OBVIOUS
  <2> QED BY <1>3, <2>1
<1>5. ASSUME NEW s \in SUBSET S, s # {}, \A x \in s : s \ {x} \in T PROVE s \in T
  <2>1. PICK x \in s : SumFunction(f) = Sum(s \ {x}) + Sum(S \ (s \ {x}))
    BY <1>5
  <2>2. (S \ (s \ {x})) \ {x} = S \ s /\ x \in S \ (s \ {x})
    OBVIOUS
  <2>3. Sum(S \ (s \ {x})) = f[x] + Sum(S \ s)
    BY <1>2, <2>2
  <2>4. Sum(s) = f[x] + Sum(s \ {x})
    BY <1>2
  <2>5. Sum(s) \in Int /\ Sum(s \ {x}) \in Int /\ Sum(S \ s) \in Int /\ f[x] \in Int
    BY <1>1
  <2> QED BY <2>1, <2>3, <2>4, <2>5
<1> HIDE DEF T
<1>6. \A s \in SUBSET S : s \in T
  <2>1. T \in SUBSET SUBSET S
    BY DEF T
  <2> QED BY <1>4, <1>5, <2>1, FiniteSetInduction
<1> QED
  BY <1>6 DEF T, Sum

LEMMA SumOfZeros ==
  ASSUME NEW S, IsFiniteSet(S), NEW f \in [S -> {0}]
  PROVE  SumFunction(f) = 0
<1> DEFINE T == {s \in SUBSET S : SumFunction(Restrict(f, s)) = 0}
<1>1. {} \in T
  BY SumOfNothing DEF Restrict
<1>2. ASSUME NEW s \in SUBSET S, s # {}, \A x \in s : s \ {x} \in T PROVE s \in T
  <2>1. PICK x \in s : SumFunction(Restrict(f, s \ {x})) = 0
    BY <1>2
  <2>2. /\ Restrict(f, s) \in [s -> Int] /\ IsFiniteSet(s) /\ Restrict(f, s)[x] = 0
        /\ Restrict(Restrict(f, s), s \ {x}) = Restrict(f, s \ {x})
    BY FS_Subset DEF Restrict
  <2>3. SumFunction(Restrict(f, s)) = 0 + 0
    BY <2>1, <2>2, SumRemove
  <2> QED BY <2>3
<1> HIDE DEF T
<1>3. \A s \in SUBSET S : s \in T
  <2>1. T \in SUBSET SUBSET S
    BY DEF T
  <2> QED BY <1>1, <1>2, <2>1, FiniteSetInduction
<1>4. Restrict(f, S) = f
  BY DEF Restrict
<1> QED
  BY <1>3, <1>4 DEF T

LEMMA SumOfSumOfTwo ==
  ASSUME NEW S, IsFiniteSet(S), NEW f \in [S -> Int], NEW g \in [S -> Int]
  PROVE  SumFunction([x \in S |-> f[x] + g[x]]) = SumFunction(f) + SumFunction(g)
<1> DEFINE both == [x \in S |-> f[x] + g[x]]
           T == {s \in SUBSET S : SumFunction(Restrict(both, s))
                                    = SumFunction(Restrict(f, s)) + SumFunction(Restrict(g, s))}
<1>1. both \in [S -> Int] /\ \A x \in S : both[x] = f[x] + g[x]
  OBVIOUS
<1> HIDE DEF both
<1>2. \A s \in SUBSET S : \A e \in {f, g, both} :
        /\ IsFiniteSet(s) /\ Restrict(e, s) \in [s -> Int]
        /\ SumFunction(Restrict(e, s)) \in Int
        /\ \A x \in s : SumFunction(Restrict(e, s)) = e[x] + SumFunction(Restrict(e, s \ {x}))
  <2> TAKE s \in SUBSET S
  <2> TAKE e \in {f, g, both}
  <2>1. IsFiniteSet(s) /\ Restrict(e, s) \in [s -> Int]
    BY <1>1, FS_Subset DEF Restrict
  <2>2. \A x \in s : /\ Restrict(Restrict(e, s), s \ {x}) = Restrict(e, s \ {x})
                      /\ Restrict(e, s)[x] = e[x]
    BY DEF Restrict
  <2>3. SumFunction(Restrict(e, s)) \in Int
    BY <2>1, SumIsInteger
  <2>4. \A x \in s : SumFunction(Restrict(e, s)) = e[x] + SumFunction(Restrict(e, s \ {x}))
    BY <2>1, <2>2, SumRemove
  <2> QED BY <2>1, <2>3, <2>4
<1>3. {} \in T
  BY SumOfNothing DEF Restrict
<1>4. ASSUME NEW s \in SUBSET S, s # {}, \A x \in s : s \ {x} \in T PROVE s \in T
  <2>1. PICK x \in s : SumFunction(Restrict(both, s \ {x}))
                         = SumFunction(Restrict(f, s \ {x})) + SumFunction(Restrict(g, s \ {x}))
    BY <1>4
  <2>2. \A e \in {f, g, both} :
          /\ SumFunction(Restrict(e, s)) = e[x] + SumFunction(Restrict(e, s \ {x}))
          /\ SumFunction(Restrict(e, s \ {x})) \in Int
    BY <1>2
  <2>3. both[x] = f[x] + g[x] /\ f[x] \in Int /\ g[x] \in Int
    BY <1>1
  <2> QED BY <2>1, <2>2, <2>3
<1> HIDE DEF T
<1>5. \A s \in SUBSET S : s \in T
  <2>1. T \in SUBSET SUBSET S
    BY DEF T
  <2> QED BY <1>3, <1>4, <2>1, FiniteSetInduction
<1>6. Restrict(both, S) = both /\ Restrict(f, S) = f /\ Restrict(g, S) = g
  BY <1>1 DEF Restrict
<1> QED
  BY <1>5, <1>6 DEF T, both

LEMMA SumOfNegatives ==
  ASSUME NEW S, IsFiniteSet(S), NEW f \in [S -> Int]
  PROVE  SumFunction([x \in S |-> - f[x]]) = - SumFunction(f)
<1> DEFINE minus == [x \in S |-> - f[x]]
<1>1. minus \in [S -> Int] /\ [x \in S |-> f[x] + minus[x]] \in [S -> {0}]
  OBVIOUS
<1> HIDE DEF minus
<1>2. SumFunction([x \in S |-> f[x] + minus[x]]) = 0
  BY <1>1, SumOfZeros
<1>3. SumFunction([x \in S |-> f[x] + minus[x]]) = SumFunction(f) + SumFunction(minus)
  BY <1>1, SumOfSumOfTwo
<1>4. SumFunction(f) \in Int /\ SumFunction(minus) \in Int
  BY <1>1, SumIsInteger
<1>5. SumFunction(minus) = - SumFunction(f)
  BY <1>2, <1>3, <1>4
<1> QED
  BY <1>5 DEF minus

LEMMA SumOfPositives ==
  ASSUME NEW S, IsFiniteSet(S), S # {}, NEW f \in [S -> Nat \ {0}]
  PROVE  SumFunction(f) \in Nat \ {0}
<1> DEFINE T == {s \in SUBSET S : s # {} => SumFunction(Restrict(f, s)) \in Nat \ {0}}
<1>1. {} \in T
  OBVIOUS
<1>2. ASSUME NEW s \in SUBSET S, s # {}, \A x \in s : s \ {x} \in T PROVE s \in T
  <2>1. PICK x \in s : s \ {x} # {} => SumFunction(Restrict(f, s \ {x})) \in Nat \ {0}
    BY <1>2
  <2>2. /\ Restrict(f, s) \in [s -> Int] /\ IsFiniteSet(s) /\ Restrict(f, s)[x] \in Nat \ {0}
        /\ Restrict(Restrict(f, s), s \ {x}) = Restrict(f, s \ {x})
    BY FS_Subset DEF Restrict
  <2>3. SumFunction(Restrict(f, s)) = Restrict(f, s)[x] + SumFunction(Restrict(f, s \ {x}))
    BY <2>2, SumRemove
  <2>4. SumFunction(Restrict(f, s \ {x})) \in Nat
    <3>1. CASE s \ {x} = {}
      <4>1. SumFunction(Restrict(f, s \ {x})) = 0
        BY <3>1, SumOfNothing DEF Restrict
      <4> QED BY <4>1
    <3> QED BY <2>1, <3>1
  <2> QED BY <2>2, <2>3, <2>4
<1> HIDE DEF T
<1>3. \A s \in SUBSET S : s \in T
  <2>1. T \in SUBSET SUBSET S
    BY DEF T
  <2> QED BY <1>1, <1>2, <2>1, FiniteSetInduction
<1>4. Restrict(f, S) = f
  BY DEF Restrict
<1> QED
  BY <1>3, <1>4 DEF T

\* Summing over more elements, with nothing added for them.
LEMMA SumExtended ==
  ASSUME NEW S, IsFiniteSet(S), NEW A \in SUBSET S, NEW f \in [A -> Int]
  PROVE  SumFunction([x \in S |-> IF x \in A THEN f[x] ELSE 0]) = SumFunction(f)
<1> DEFINE more == [x \in S |-> IF x \in A THEN f[x] ELSE 0]
<1>1. /\ more \in [S -> Int] /\ Restrict(more, A) = f
      /\ Restrict(more, S \ A) \in [S \ A -> {0}]
  BY DEF Restrict
<1>2. IsFiniteSet(A) /\ IsFiniteSet(S \ A)
  BY FS_Subset
<1>3. SumFunction(Restrict(more, S \ A)) = 0 /\ SumFunction(f) \in Int
  BY <1>1, <1>2, SumOfZeros, SumIsInteger
<1>4. SumFunction(more) = SumFunction(f) + SumFunction(Restrict(more, S \ A))
  BY <1>1, SumOfPart
<1>5. SumFunction(more) = SumFunction(f)
  BY <1>3, <1>4
<1> QED
  BY <1>5

\* The sum of the sums of disjoint parts is that of their union.
LEMMA SumOfParts ==
  ASSUME NEW S, IsFiniteSet(S), NEW f \in [S -> Int],
         NEW B, IsFiniteSet(B), NEW part \in [B -> SUBSET S],
         \A b, d \in B : b # d => part[b] \cap part[d] = {},
         NEW sums \in [B -> Int], \A b \in B : sums[b] = SumFunction(Restrict(f, part[b])),
         NEW all, all = UNION {part[b] : b \in B}
  PROVE  SumFunction(sums) = SumFunction(Restrict(f, all))
<1> DEFINE Sum(s) == SumFunction(Restrict(f, s))
           All(C) == UNION {part[b] : b \in C}
           T == {C \in SUBSET B : SumFunction(Restrict(sums, C)) = Sum(All(C))}
<1>1. \A s \in SUBSET S : IsFiniteSet(s) /\ Restrict(f, s) \in [s -> Int] /\ Sum(s) \in Int
  BY FS_Subset, SumIsInteger DEF Restrict
<1>2. sums \in [B -> Int] /\ \A b \in B : sums[b] = Sum(part[b])
  OBVIOUS
<1>3. ASSUME NEW s \in SUBSET S, NEW a \in SUBSET s PROVE Sum(s) = Sum(a) + Sum(s \ a)
  <2>1. Restrict(Restrict(f, s), a) = Restrict(f, a) /\ Restrict(Restrict(f, s), s \ a) = Restrict(f, s \ a)
    BY DEF Restrict
  <2> QED BY <1>1, <2>1, SumOfPart
<1>4. Sum({}) = 0
  BY SumOfNothing DEF Restrict
<1> HIDE DEF Sum
<1>5. {} \in T
  <2>1. SumFunction(Restrict(sums, {})) = 0
    BY SumOfNothing DEF Restrict
  <2>2. All({}) = {}
    OBVIOUS
  <2> QED BY <1>4, <2>1, <2>2
<1>6. ASSUME NEW C \in SUBSET B, C # {}, \A b \in C : C \ {b} \in T PROVE C \in T
  <2>1. PICK b \in C : SumFunction(Restrict(sums, C \ {b})) = Sum(All(C \ {b}))
    BY <1>6
  <2>2. /\ Restrict(sums, C) \in [C -> Int] /\ IsFiniteSet(C) /\ Restrict(sums, C)[b] = sums[b]
        /\ Restrict(Restrict(sums, C), C \ {b}) = Restrict(sums, C \ {b})
    BY <1>2, FS_Subset DEF Restrict
  <2>3. SumFunction(Restrict(sums, C)) = Sum(part[b]) + SumFunction(Restrict(sums, C \ {b}))
    BY <1>2, <2>2, SumRemove
  <2>4. All(C) \in SUBSET S /\ part[b] \in SUBSET All(C) /\ All(C) \ part[b] = All(C \ {b})
    OBVIOUS
  <2>5. Sum(All(C)) = Sum(part[b]) + Sum(All(C \ {b}))
    BY <1>3, <2>4
  <2> QED BY <2>1, <2>3, <2>5
<1> HIDE DEF T
<1>7. \A C \in SUBSET B : C \in T
  <2>1. T \in SUBSET SUBSET B
    BY DEF T
  <2> QED BY <1>5, <1>6, <2>1, FiniteSetInduction
<1>8. Restrict(sums, B) = sums
  BY <1>2 DEF Restrict
<1> QED
  BY <1>7, <1>8 DEF T, Sum

\* A table has the same sum by rows and by columns.
LEMMA SumOfTable ==
  ASSUME NEW S, IsFiniteSet(S), NEW R, IsFiniteSet(R), NEW F \in [S -> [R -> Int]]
  PROVE  SumFunction([x \in S |-> SumFunction(F[x])])
           = SumFunction([y \in R |-> SumFunction([x \in S |-> F[x][y]])])
<1> DEFINE row == [x \in S |-> SumFunction(F[x])]
           col(s) == [y \in R |-> SumFunction([x \in s |-> F[x][y]])]
           T == {s \in SUBSET S : SumFunction(Restrict(row, s)) = SumFunction(col(s))}
<1>1. row \in [S -> Int]
  BY SumIsInteger
<1>2. \A s \in SUBSET S : IsFiniteSet(s) /\ col(s) \in [R -> Int]
  <2> TAKE s \in SUBSET S
  <2>1. IsFiniteSet(s)
    BY FS_Subset
  <2>2. \A y \in R : [x \in s |-> F[x][y]] \in [s -> Int]
    OBVIOUS
  <2> QED BY <2>1, <2>2, SumIsInteger
<1>3. {} \in T
  <2>1. SumFunction(Restrict(row, {})) = 0
    BY SumOfNothing DEF Restrict
  <2>2. \A y \in R : SumFunction([x \in {} |-> F[x][y]]) = 0
    BY SumOfNothing
  <2>3. col({}) \in [R -> {0}]
    BY <2>2
  <2>4. SumFunction(col({})) = 0
    BY <2>3, SumOfZeros
  <2> QED BY <2>1, <2>4
<1>4. ASSUME NEW s \in SUBSET S, s # {}, \A x \in s : s \ {x} \in T PROVE s \in T
  <2>1. PICK x \in s : SumFunction(Restrict(row, s \ {x})) = SumFunction(col(s \ {x}))
    BY <1>4
  <2>2. SumFunction(Restrict(row, s)) = SumFunction(F[x]) + SumFunction(Restrict(row, s \ {x}))
    <3>1. /\ Restrict(row, s) \in [s -> Int] /\ IsFiniteSet(s)
          /\ Restrict(row, s)[x] = SumFunction(F[x])
          /\ Restrict(Restrict(row, s), s \ {x}) = Restrict(row, s \ {x})
      BY <1>1, <1>2 DEF Restrict
    <3> QED BY <3>1, SumRemove
  <2>3. \A y \in R : col(s)[y] = F[x][y] + col(s \ {x})[y]
    <3> TAKE y \in R
    <3> DEFINE c == [z \in s |-> F[z][y]]
    <3>1. c \in [s -> Int] /\ c[x] = F[x][y] /\ Restrict(c, s \ {x}) = [z \in s \ {x} |-> F[z][y]]
      BY DEF Restrict
    <3>2. SumFunction(c) = c[x] + SumFunction(Restrict(c, s \ {x}))
      BY <1>2, <3>1, SumRemove
    <3> QED BY <3>1, <3>2
  <2> DEFINE f == F[x]
             g == col(s \ {x})
  <2>4. /\ f \in [R -> Int] /\ g \in [R -> Int]
        /\ col(s) = [y \in R |-> f[y] + g[y]]
    BY <1>2, <2>3
  <2> HIDE DEF col, f, g
  <2>5. SumFunction([y \in R |-> f[y] + g[y]]) = SumFunction(f) + SumFunction(g)
    BY <2>4, SumOfSumOfTwo
  <2>6. SumFunction(col(s)) = SumFunction(F[x]) + SumFunction(col(s \ {x}))
    BY <2>4, <2>5 DEF f, g
  <2> QED BY <2>1, <2>2, <2>6
<1> HIDE DEF T
<1>5. \A s \in SUBSET S : s \in T
  <2>1. T \in SUBSET SUBSET S
    BY DEF T
  <2> QED BY <1>3, <1>4, <2>1, FiniteSetInduction
<1>6. Restrict(row, S) = row
  BY <1>1 DEF Restrict
<1> QED
  BY <1>5, <1>6 DEF T

-----------------------------------------------------------------------------
(* The invariant of the ledger                                             *)

BatchTyped(r) == \E W \in SUBSET Wallets : r \in BatchRows(W)

\* What is accrued for a receipt is what is booked for it.
AccruedIsBooked ==
  \A a \in Accruals :
    /\ IF accrual[a].status \in {"none", "uncredited"}
       THEN accrual[a].amount = 0 ELSE accrual[a].amount > 0
    /\ booked[a].payable = accrual[a].amount
    /\ booked[a].liability + booked[a].payable + booked[a].fee = 0

Live(b)   == batch[b].status \in {"planned", "submitted", "finalized"}
Row(b, w) == batch[b].items[w]

\* An item of a batch that is not released is made of accruals of its wallet,
\* which are allocated until the batch is closed.
RowHolds(b, w) ==
  /\ Row(b, w).allocations # {}
  /\ Row(b, w).allocations \subseteq CreditedTo(Accruals, w)
  /\ Row(b, w).amount = Credits(Row(b, w).allocations)
  /\ Row(b, w).status \in {"allocated", "finalized"}
  /\ batch[b].status = "planned" => Row(b, w).status = "allocated"
  /\ batch[b].status = "finalized" => Row(b, w).status = "finalized"
  /\ \A a \in Row(b, w).allocations :
       accrual[a].status = IF Unclosed(b) THEN "allocated" ELSE "paid"

BatchHolds(b) ==
  /\ IF Live(b)
     THEN /\ ItemsOf(b) # {} /\ Balances(b)
          /\ \A w \in ItemsOf(b) : RowHolds(b, w)
     ELSE /\ batch[b].status = "none" => batch[b] = NoBatch
          /\ \A w \in ItemsOf(b) : Row(b, w).allocations = {} /\ Row(b, w).status = "released"
  /\ IF Unclosed(b)
     THEN closed[b].payable = [w \in Wallets |-> 0]
     ELSE batch[b].status = "finalized" /\ closed[b] = ClosureEntries(b)

\* No accrual is in two batches, and what is allocated or paid is in one.
HeldOnce ==
  /\ \A b, d \in Batches : b # d =>
       \A w \in ItemsOf(b), v \in ItemsOf(d) : Row(b, w).allocations \cap Row(d, v).allocations = {}
  /\ \A a \in Accruals : accrual[a].status \in {"allocated", "paid"} =>
       \E b \in Batches : \E w \in ItemsOf(b) : a \in Row(b, w).allocations

LInv == TypeOK /\ AccruedIsBooked /\ HeldOnce /\ \A b \in Batches : BatchHolds(b)

-----------------------------------------------------------------------------
(* What the invariant says of a batch                                      *)

LEMMA RowsTyped ==
  ASSUME TypeOK, NEW b \in Batches
  PROVE  /\ ItemsOf(b) \subseteq Wallets
         /\ batch[b].items \in [ItemsOf(b) -> Rows]
         /\ \A w \in ItemsOf(b) : Row(b, w) \in Rows
<1>1. PICK W \in SUBSET Wallets : batch[b] \in BatchRows(W)
  BY DEF TypeOK
<1> QED
  BY <1>1 DEF BatchRows, ItemsOf, Row

\* The total of the items of a batch, which are positive.
LEMMA ItemTotalPositive ==
  ASSUME TypeOK, AccruedIsBooked, NEW b \in Batches, BatchHolds(b), Live(b)
  PROVE  /\ ItemTotal(b) \in Nat \ {0}
         /\ \A w \in ItemsOf(b) : Row(b, w).amount \in Nat \ {0}
<1>1. \A w \in ItemsOf(b) : RowHolds(b, w)
  BY DEF BatchHolds
<1>2. \A w \in ItemsOf(b) : Row(b, w).amount \in Nat \ {0}
  <2> TAKE w \in ItemsOf(b)
  <2> DEFINE S == Row(b, w).allocations
             f == [a \in S |-> accrual[a].amount]
  <2>1. S # {} /\ S \subseteq Accruals /\ Row(b, w).amount = SumFunction(f)
    BY <1>1 DEF RowHolds, CreditedTo, Credits
  <2>2. IsFiniteSet(S)
    BY <2>1, LedgerAssumption, FS_Subset
  <2>3. \A a \in S : accrual[a].amount \in Nat \ {0}
    <3> TAKE a \in S
    <3>1. accrual[a].status \in {"allocated", "paid"}
      BY <1>1 DEF RowHolds
    <3>2. accrual[a] \in AccrualRows
      BY <2>1 DEF TypeOK
    <3>3. accrual[a].amount > 0 /\ accrual[a].amount \in Nat
      BY <2>1, <3>1, <3>2 DEF AccruedIsBooked, AccrualRows
    <3> QED BY <3>3
  <2>4. f \in [S -> Nat \ {0}]
    BY <2>3
  <2> HIDE DEF S, f
  <2> QED BY <2>1, <2>2, <2>4, SumOfPositives
<1>3. IsFiniteSet(ItemsOf(b)) /\ ItemsOf(b) # {}
  BY RowsTyped, LedgerAssumption, FS_Subset DEF BatchHolds
<1> DEFINE g == [w \in ItemsOf(b) |-> batch[b].items[w].amount]
<1>4. g \in [ItemsOf(b) -> Nat \ {0}]
  BY <1>2 DEF Row
<1> HIDE DEF g
<1>5. SumFunction(g) \in Nat \ {0}
  BY <1>3, <1>4, SumOfPositives
<1> QED
  BY <1>2, <1>5 DEF ItemTotal, g

\* The accruals of an item are taken.
LEMMA HeldIsTaken ==
  ASSUME LInv, NEW b \in Batches, NEW w \in ItemsOf(b), NEW a \in Row(b, w).allocations
  PROVE  /\ Live(b) /\ w \in Wallets /\ a \in Accruals /\ PayoutWallet[a] = w
         /\ accrual[a].status = IF Unclosed(b) THEN "allocated" ELSE "paid"
<1>1. BatchHolds(b) /\ TypeOK
  BY DEF LInv
<1>2. Live(b) /\ RowHolds(b, w)
  BY <1>1 DEF BatchHolds
<1> QED
  BY <1>1, <1>2, RowsTyped DEF RowHolds, CreditedTo

-----------------------------------------------------------------------------
(* What a step leaves as it was                                            *)

LEMMA CreditsAgree ==
  ASSUME NEW S, \A a \in S : accrual'[a].amount = accrual[a].amount
  PROVE  SumFunction([a \in S |-> accrual'[a].amount]) = SumFunction([a \in S |-> accrual[a].amount])
<1>1. [a \in S |-> accrual'[a].amount] = [a \in S |-> accrual[a].amount]
  OBVIOUS
<1> QED
  BY <1>1

\* A batch none of whose accruals changes.
LEMMA BatchFrame ==
  ASSUME NEW b \in Batches, BatchHolds(b), batch'[b] = batch[b], closed'[b] = closed[b],
         \A w \in ItemsOf(b) : \A a \in Row(b, w).allocations :
           accrual'[a].status = accrual[a].status /\ accrual'[a].amount = accrual[a].amount
  PROVE  BatchHolds(b)'
<1>1. /\ ItemsOf(b)' = ItemsOf(b) /\ Live(b)' = Live(b) /\ Unclosed(b)' = Unclosed(b)
      /\ \A w : Row(b, w)' = Row(b, w)
  BY DEF ItemsOf, Live, Unclosed, Row
<1>2. ItemTotal(b)' = ItemTotal(b)
  BY DEF ItemTotal, ItemsOf
<1>3. Balances(b)' = Balances(b) /\ ClosureEntries(b)' = ClosureEntries(b)
  BY <1>1, <1>2 DEF Balances, ClosureEntries
<1>4. ASSUME NEW w \in ItemsOf(b), RowHolds(b, w) PROVE RowHolds(b, w)'
  <2>1. Credits(Row(b, w).allocations)' = Credits(Row(b, w).allocations)
    <3> DEFINE S == Row(b, w).allocations
    <3>1. S' = S
      BY <1>1
    <3>2. SumFunction([a \in S |-> accrual'[a].amount])
            = SumFunction([a \in S |-> accrual[a].amount])
      BY CreditsAgree
    <3> QED BY <3>1, <3>2 DEF Credits
  <2>2. /\ CreditedTo(Accruals, w)' = CreditedTo(Accruals, w)
        /\ Row(b, w)' = Row(b, w) /\ Unclosed(b)' = Unclosed(b)
    BY <1>1 DEF CreditedTo
  <2> QED BY <1>4, <2>1, <2>2 DEF RowHolds
<1>5. (ItemsOf(b) # {} /\ Balances(b) /\ \A w \in ItemsOf(b) : RowHolds(b, w))
        => (ItemsOf(b) # {} /\ Balances(b) /\ \A w \in ItemsOf(b) : RowHolds(b, w))'
  BY <1>1, <1>3, <1>4
<1>6. (\A w \in ItemsOf(b) : Row(b, w).allocations = {} /\ Row(b, w).status = "released")
        => (\A w \in ItemsOf(b) : Row(b, w).allocations = {} /\ Row(b, w).status = "released")'
  BY <1>1
<1> QED
  BY <1>1, <1>3, <1>5, <1>6 DEF BatchHolds, NoBatch

\* A receipt that is not in a batch before or after.
LEMMA ReceiptFrame ==
  ASSUME LInv, NEW a \in Accruals, UNCHANGED <<batch, closed>>,
         accrual[a].status \notin {"allocated", "paid"},
         accrual'[a].status \notin {"allocated", "paid"},
         \A c \in Accruals \ {a} : accrual'[c] = accrual[c]
  PROVE  HeldOnce' /\ \A b \in Batches : BatchHolds(b)'
<1>1. ASSUME NEW b \in Batches PROVE BatchHolds(b)'
  <2>1. \A w \in ItemsOf(b) : \A c \in Row(b, w).allocations : c \in Accruals \ {a}
    BY HeldIsTaken
  <2>2. BatchHolds(b) /\ batch'[b] = batch[b] /\ closed'[b] = closed[b]
    BY DEF LInv
  <2> QED BY <2>1, <2>2, BatchFrame
<1>2. HeldOnce'
  BY DEF LInv, HeldOnce, Row, ItemsOf
<1> QED
  BY <1>1, <1>2

-----------------------------------------------------------------------------
(* Receipts                                                                *)

LEMMA IngestStep ==
  ASSUME LInv, NEW a \in Accruals, NEW price \in Prices, Ingest(a, price)
  PROVE  LInv'
<1> DEFINE due == CalculateCommission(price, CommissionBps, FeeBps)
<1>1. /\ TypeOK /\ AccruedIsBooked
      /\ accrual[a] \in AccrualRows /\ accrual[a].status = "none" /\ booked[a] \in Bookings
      /\ accrual[a].amount = 0 /\ booked[a].payable = 0
  BY DEF LInv, TypeOK, Ingest, AccruedIsBooked
<1>2. /\ due.commission \in Nat /\ due.protocolFee \in Nat /\ due.referrerCredit \in Nat
      /\ due.protocolFee + due.referrerCredit = due.commission
  <2>1. price \in Nat /\ CommissionBps \in Bps /\ FeeBps \in Bps
    BY LedgerAssumption
  <2>2. /\ due.commission \in 0 .. price
        /\ due.protocolFee \in 0 .. due.commission
        /\ due.referrerCredit \in 0 .. due.commission
        /\ due.protocolFee + due.referrerCredit = due.commission
    BY <2>1, CommissionIsSplit
  <2> HIDE DEF due
  <2> QED BY <2>1, <2>2
<1>3. UNCHANGED <<batch, closed, latest>>
  BY DEF Ingest
<1>4. \/ /\ due.referrerCredit > 0
         /\ accrual' = [accrual EXCEPT ![a] = [accrual[a] EXCEPT !.status = "pending",
                                                                 !.amount = due.referrerCredit]]
         /\ booked' = [booked EXCEPT ![a] = [liability |-> - due.commission,
                                             payable |-> due.referrerCredit,
                                             fee |-> due.protocolFee]]
      \/ /\ accrual' = [accrual EXCEPT ![a] = [accrual[a] EXCEPT !.status = "uncredited"]]
         /\ booked' = booked
  BY DEF Ingest
<1> HIDE DEF due
<1>5. accrual'[a] \in AccrualRows /\ booked'[a] \in Bookings
  <2>1. CASE accrual' = [accrual EXCEPT ![a] = [accrual[a] EXCEPT !.status = "uncredited"]]
               /\ booked' = booked
    <3>1. accrual'[a] = [accrual[a] EXCEPT !.status = "uncredited"]
      BY <1>1, <2>1 DEF TypeOK
    <3> QED BY <1>1, <2>1, <3>1 DEF AccrualRows
  <2>2. CASE /\ due.referrerCredit > 0
             /\ accrual' = [accrual EXCEPT ![a] = [accrual[a] EXCEPT !.status = "pending",
                                                                 !.amount = due.referrerCredit]]
             /\ booked' = [booked EXCEPT ![a] = [liability |-> - due.commission,
                                             payable |-> due.referrerCredit,
                                             fee |-> due.protocolFee]]
    <3>1. /\ accrual'[a] = [accrual[a] EXCEPT !.status = "pending", !.amount = due.referrerCredit]
          /\ booked'[a] = [liability |-> - due.commission, payable |-> due.referrerCredit,
                           fee |-> due.protocolFee]
      BY <1>1, <2>2 DEF TypeOK
    <3>2. /\ - due.commission \in Int /\ due.referrerCredit \in Int
          /\ due.protocolFee \in Int /\ due.referrerCredit \in Nat
      BY <1>2
    <3>3. accrual'[a] \in AccrualRows
      BY <1>1, <3>1, <3>2 DEF AccrualRows
    <3>4. booked'[a] \in Bookings
      BY <3>1, <3>2 DEF Bookings
    <3> QED BY <3>3, <3>4
  <2> QED BY <1>4, <2>1, <2>2
<1>6. /\ \A c \in Accruals \ {a} : accrual'[c] = accrual[c] /\ booked'[c] = booked[c]
      /\ DOMAIN accrual' = Accruals /\ DOMAIN booked' = Accruals
      /\ accrual' \in [Accruals -> AccrualRows] /\ booked' \in [Accruals -> Bookings]
  BY <1>1, <1>4, <1>5 DEF TypeOK
<1>7. TypeOK'
  BY <1>1, <1>3, <1>6 DEF TypeOK
<1>8. /\ accrual'[a].status \in {"uncredited", "pending"}
      /\ IF accrual'[a].status \in {"none", "uncredited"}
         THEN accrual'[a].amount = 0 ELSE accrual'[a].amount > 0
      /\ booked'[a].payable = accrual'[a].amount
      /\ booked'[a].liability + booked'[a].payable + booked'[a].fee = 0
  <2>1. CASE accrual' = [accrual EXCEPT ![a] = [accrual[a] EXCEPT !.status = "uncredited"]]
               /\ booked' = booked
    <3>1. accrual'[a].status = "uncredited" /\ accrual'[a].amount = accrual[a].amount
      BY <1>1, <2>1 DEF TypeOK, AccrualRows
    <3> QED BY <1>1, <2>1, <3>1 DEF AccruedIsBooked
  <2>2. CASE /\ due.referrerCredit > 0
             /\ accrual' = [accrual EXCEPT ![a] = [accrual[a] EXCEPT !.status = "pending",
                                                                 !.amount = due.referrerCredit]]
             /\ booked' = [booked EXCEPT ![a] = [liability |-> - due.commission,
                                             payable |-> due.referrerCredit,
                                             fee |-> due.protocolFee]]
    <3>1. /\ accrual'[a].status = "pending" /\ accrual'[a].amount = due.referrerCredit
          /\ booked'[a] = [liability |-> - due.commission, payable |-> due.referrerCredit,
                           fee |-> due.protocolFee]
      BY <1>1, <2>2 DEF TypeOK, AccrualRows
    <3> QED BY <1>2, <2>2, <3>1
  <2> QED BY <1>4, <2>1, <2>2
<1>9. AccruedIsBooked'
  BY <1>1, <1>6, <1>8 DEF AccruedIsBooked
<1>10. HeldOnce' /\ \A b \in Batches : BatchHolds(b)'
  BY <1>1, <1>3, <1>6, <1>8, ReceiptFrame
<1> QED
  BY <1>7, <1>9, <1>10 DEF LInv

\* A verdict on a receipt: only its status and its time change.
LEMMA VerdictStep ==
  ASSUME LInv, NEW a \in Accruals, Verify(a) \/ Reject(a)
  PROVE  LInv'
<1>1. TypeOK /\ AccruedIsBooked /\ accrual[a] \in AccrualRows /\ accrual[a].status = "pending"
  BY DEF LInv, TypeOK, Verify, Reject
<1>2. /\ UNCHANGED <<batch, closed, booked>>
      /\ latest' \in Nat
      /\ accrual' \in [Accruals -> AccrualRows]
      /\ accrual'[a].status \in {"available", "rejected"}
      /\ accrual'[a].amount = accrual[a].amount
      /\ \A c \in Accruals \ {a} : accrual'[c] = accrual[c]
  <2>1. CASE Verify(a)
    <3>1. latest' \in Nat
      BY <1>1, <2>1 DEF Verify, TypeOK
    <3>2. accrual' = [accrual EXCEPT ![a] = [accrual[a] EXCEPT !.status = "available",
                                                               !.since = latest']]
      BY <2>1 DEF Verify
    <3>3. [accrual[a] EXCEPT !.status = "available", !.since = latest'] \in AccrualRows
      BY <1>1, <3>1 DEF AccrualRows
    <3>4. /\ accrual' \in [Accruals -> AccrualRows]
          /\ accrual'[a] = [accrual[a] EXCEPT !.status = "available", !.since = latest']
          /\ \A c \in Accruals \ {a} : accrual'[c] = accrual[c]
      BY <1>1, <3>2, <3>3 DEF TypeOK
    <3>5. accrual'[a].status = "available" /\ accrual'[a].amount = accrual[a].amount
      BY <1>1, <3>4 DEF AccrualRows
    <3> QED BY <2>1, <3>1, <3>4, <3>5 DEF Verify
  <2>2. CASE Reject(a)
    <3>1. accrual' = [accrual EXCEPT ![a] = [accrual[a] EXCEPT !.status = "rejected"]]
      BY <2>2 DEF Reject
    <3>2. [accrual[a] EXCEPT !.status = "rejected"] \in AccrualRows
      BY <1>1 DEF AccrualRows
    <3>3. /\ accrual' \in [Accruals -> AccrualRows]
          /\ accrual'[a] = [accrual[a] EXCEPT !.status = "rejected"]
          /\ \A c \in Accruals \ {a} : accrual'[c] = accrual[c]
      BY <1>1, <3>1, <3>2 DEF TypeOK
    <3>4. accrual'[a].status = "rejected" /\ accrual'[a].amount = accrual[a].amount
      BY <1>1, <3>3 DEF AccrualRows
    <3> QED BY <1>1, <2>2, <3>3, <3>4 DEF Reject, TypeOK
  <2> QED BY <2>1, <2>2
<1>3. TypeOK'
  BY <1>1, <1>2 DEF TypeOK
<1>4. AccruedIsBooked'
  BY <1>1, <1>2 DEF AccruedIsBooked
<1>5. HeldOnce' /\ \A b \in Batches : BatchHolds(b)'
  BY <1>1, <1>2, ReceiptFrame
<1> QED
  BY <1>3, <1>4, <1>5 DEF LInv

-----------------------------------------------------------------------------
(* Planning                                                                *)

\* The batch that is planned is an unused one, of accruals that are available.
LEMMA NextIsUnused ==
  ASSUME NEW b \in Batches, b = NextBatch
  PROVE  batch[b] = NoBatch
<1>1. b \in Nat \ {0} /\ Unplanned \in SUBSET Nat
  BY LedgerAssumption DEF Unplanned
<1>2. Unplanned # {} /\ b = Min(Unplanned)
  BY <1>1 DEF NextBatch
<1>3. \E n \in Unplanned : \A m \in Unplanned : n <= m
  BY <1>1, <1>2, LeastNat
<1>4. b \in Unplanned
  BY <1>2, <1>3 DEF Min
<1> QED
  BY <1>4 DEF Unplanned

LEMMA DueIsInteger ==
  ASSUME TypeOK, NEW S \in SUBSET Accruals, NEW w
  PROVE  Due(S, w) \in Int
<1> DEFINE R == CreditedTo(S, w)
           f == [a \in R |-> accrual[a].amount]
<1>1. R \subseteq Accruals /\ IsFiniteSet(R)
  BY LedgerAssumption, FS_Subset DEF CreditedTo
<1>2. \A a \in R : accrual[a].amount \in Int
  BY <1>1 DEF TypeOK, AccrualRows
<1>3. f \in [R -> Int]
  BY <1>2
<1>4. Due(S, w) = SumFunction(f)
  BY DEF Due, Credits
<1> HIDE DEF R, f
<1> QED
  BY <1>1, <1>3, <1>4, SumIsInteger

LEMMA PlanStep ==
  ASSUME LInv, NEW b \in Batches, Plan(b)
  PROVE  LInv'
<1>1. PICK free \in SUBSET Available : PlanFrom(b, free)
  BY DEF Plan
<1> DEFINE S == EligibleAccruals(free)
           chosen == SelectedItems(S)
           item(w) == [amount |-> Due(S, w), status |-> "allocated", allocations |-> CreditedTo(S, w)]
           items == [w \in chosen |-> item(w)]
           made == [status |-> "planned", total |-> BatchTotal(S), items |-> items]
<1>2. /\ b = NextBatch /\ chosen # {}
      /\ batch' = [batch EXCEPT ![b] = made]
      /\ accrual' = [a \in Accruals |->
           IF a \in S /\ PayoutWallet[a] \in chosen
           THEN [accrual[a] EXCEPT !.status = "allocated"] ELSE accrual[a]]
      /\ UNCHANGED <<booked, closed, latest>>
  BY <1>1 DEF PlanFrom
<1>3. TypeOK /\ AccruedIsBooked /\ HeldOnce /\ \A d \in Batches : BatchHolds(d)
  BY DEF LInv
<1>4. S \subseteq Accruals /\ \A a \in S : accrual[a].status = "available"
  BY DEF EligibleAccruals, Available
<1>5. /\ chosen \subseteq Wallets /\ IsFiniteSet(chosen)
      /\ \A w \in chosen : CreditedTo(S, w) # {} /\ CreditedTo(S, w) \subseteq CreditedTo(Accruals, w)
  <2>1. chosen \subseteq WalletsOf(S)
    BY DEF SelectedItems, FirstOf, Thresholded
  <2>2. WalletsOf(S) \subseteq Wallets
    BY <1>4, LedgerAssumption DEF WalletsOf
  <2>3. \A w \in WalletsOf(S) : CreditedTo(S, w) # {}
    BY DEF WalletsOf, CreditedTo
  <2>4. \A w : CreditedTo(S, w) \subseteq CreditedTo(Accruals, w)
    BY <1>4 DEF CreditedTo
  <2> HIDE DEF chosen, S
  <2> QED BY <2>1, <2>2, <2>3, <2>4, LedgerAssumption, FS_Subset
<1>6. \A w : Due(S, w) \in Int
  BY <1>3, <1>4, DueIsInteger
<1>7. BatchTotal(S) = SumFunction([w \in chosen |-> Due(S, w)])
  BY DEF BatchTotal
<1>8. BatchTotal(S) \in Int
  <2> DEFINE f == [w \in chosen |-> Due(S, w)]
  <2>1. f \in [chosen -> Int]
    BY <1>6
  <2>2. BatchTotal(S) = SumFunction(f)
    BY <1>7
  <2> HIDE DEF f, chosen, S
  <2> QED BY <1>5, <2>1, <2>2, SumIsInteger
<1>9. batch[b] = NoBatch /\ ItemsOf(b) = {} /\ Unclosed(b)
  <2>1. batch[b] = NoBatch
    BY <1>2, NextIsUnused
  <2> QED BY <1>3, <2>1 DEF NoBatch, ItemsOf, BatchHolds
<1>10. /\ \A a \in Accruals : accrual'[a] = IF a \in S /\ PayoutWallet[a] \in chosen
                                            THEN [accrual[a] EXCEPT !.status = "allocated"]
                                            ELSE accrual[a]
       /\ accrual' \in [Accruals -> AccrualRows]
       /\ \A a \in Accruals : accrual'[a].amount = accrual[a].amount
       /\ \A a \in Accruals : accrual'[a].status = IF a \in S /\ PayoutWallet[a] \in chosen
                                                   THEN "allocated" ELSE accrual[a].status
  <2> HIDE DEF S, chosen
  <2>1. \A a \in Accruals : accrual[a] \in AccrualRows
    BY <1>3 DEF TypeOK
  <2> QED BY <1>2, <2>1 DEF AccrualRows
<1> HIDE DEF S, chosen, made, items
<1>11. batch'[b] = made /\ \A d \in Batches \ {b} : batch'[d] = batch[d]
  BY <1>2, <1>3 DEF TypeOK
<1>12. /\ made.status = "planned" /\ made.total = BatchTotal(S) /\ made.items = items
       /\ DOMAIN items = chosen /\ \A w \in chosen : items[w] = item(w)
  BY DEF made, items
<1>13. BatchTyped(made)
  <2>1. \A w \in chosen : item(w) \in Rows
    <3> TAKE w \in chosen
    <3>1. Due(S, w) \in Int /\ CreditedTo(S, w) \in SUBSET Accruals
      BY <1>4, <1>6 DEF CreditedTo
    <3> QED BY <3>1 DEF Rows
  <2>2. items \in [chosen -> Rows]
    BY <2>1 DEF items
  <2>3. made \in BatchRows(chosen)
    BY <1>8, <2>2 DEF made, BatchRows
  <2> QED BY <1>5, <2>3 DEF BatchTyped
<1>14. TypeOK'
  <2>1. DOMAIN batch' = Batches /\ \A d \in Batches : BatchTyped(batch'[d])
    BY <1>2, <1>3, <1>13 DEF TypeOK, BatchTyped
  <2> QED BY <1>2, <1>3, <1>10, <2>1 DEF TypeOK, BatchTyped
<1>15. AccruedIsBooked'
  <2>1. \A a \in Accruals : accrual'[a].status # accrual[a].status => accrual[a].status = "available"
    BY <1>4, <1>10
  <2> QED BY <1>2, <1>3, <1>4, <1>10 DEF AccruedIsBooked
<1>16. /\ ItemsOf(b)' = chosen /\ Unclosed(b)' /\ Live(b)'
       /\ \A w \in chosen : /\ Row(b, w)'.allocations = CreditedTo(S, w)
                            /\ Row(b, w)'.amount = Due(S, w)
                            /\ Row(b, w)'.status = "allocated"
  BY <1>2, <1>9, <1>11, <1>12 DEF ItemsOf, Unclosed, Live, Row
<1>17. ASSUME NEW d \in Batches, d # b PROVE BatchHolds(d)'
  <2>1. \A w \in ItemsOf(d) : \A a \in Row(d, w).allocations : a \in Accruals /\ a \notin S
    BY <1>4, HeldIsTaken
  <2>2. batch'[d] = batch[d] /\ closed'[d] = closed[d]
    BY <1>2, <1>11, <1>17
  <2>3. \A w \in ItemsOf(d) : \A a \in Row(d, w).allocations :
           accrual'[a].status = accrual[a].status /\ accrual'[a].amount = accrual[a].amount
    BY <1>10, <2>1
  <2> QED BY <1>3, <2>2, <2>3, BatchFrame
<1>18. BatchHolds(b)'
  <2>1. Balances(b)'
    <3> DEFINE f == [w \in chosen |-> Due(S, w)]
               g == [w \in DOMAIN batch'[b].items |-> batch'[b].items[w].amount]
    <3>1. f = g
      <4>1. DOMAIN batch'[b].items = chosen
        BY <1>11, <1>12
      <4>2. \A w \in chosen : batch'[b].items[w].amount = Due(S, w)
        BY <1>11, <1>12
      <4> QED BY <4>1, <4>2
    <3>2. ItemTotal(b)' = SumFunction(g)
      BY DEF ItemTotal, ItemsOf
    <3>3. batch'[b].total = SumFunction(f)
      BY <1>7, <1>11, <1>12
    <3> HIDE DEF f, g
    <3> QED BY <3>1, <3>2, <3>3 DEF Balances
  <2>2. ASSUME NEW w \in chosen PROVE RowHolds(b, w)'
    <3> DEFINE R == CreditedTo(S, w)
    <3>1. R # {} /\ R \subseteq CreditedTo(Accruals, w) /\ R \subseteq Accruals
      BY <1>5 DEF CreditedTo
    <3>2. Due(S, w) = SumFunction([a \in R |-> accrual[a].amount])
      BY DEF Due, Credits
    <3>3. Row(b, w)'.allocations = R
      BY <1>16
    <3>4. Credits(Row(b, w).allocations)' = SumFunction([a \in R |-> accrual'[a].amount])
      BY <3>3 DEF Credits
    <3>5. SumFunction([a \in R |-> accrual'[a].amount]) = SumFunction([a \in R |-> accrual[a].amount])
      BY <1>10, <3>1, CreditsAgree
    <3>6. Row(b, w)'.amount = Credits(Row(b, w).allocations)'
      BY <1>16, <3>2, <3>4, <3>5
    <3>7. \A a \in R : accrual'[a].status = "allocated"
      <4>1. \A a \in R : a \in S /\ PayoutWallet[a] = w
        BY DEF CreditedTo
      <4> QED BY <1>10, <3>1, <4>1
    <3>8. CreditedTo(Accruals, w)' = CreditedTo(Accruals, w)
      BY DEF CreditedTo
    <3>9. batch'[b].status = "planned"
      BY <1>11, <1>12
    <3> HIDE DEF R
    <3> QED BY <1>16, <3>1, <3>3, <3>6, <3>7, <3>8, <3>9 DEF RowHolds
  <2>3. closed'[b].payable = [w \in Wallets |-> 0]
    BY <1>2, <1>3, <1>9 DEF BatchHolds
  <2>4. ItemsOf(b)' # {}
    BY <1>2, <1>16
  <2> QED BY <1>16, <2>1, <2>2, <2>3, <2>4 DEF BatchHolds
<1>19. HeldOnce'
  <2>1. \A d \in Batches \ {b} : ItemsOf(d)' = ItemsOf(d) /\ \A w : Row(d, w)' = Row(d, w)
    BY <1>11 DEF ItemsOf, Row
  <2>2. ASSUME NEW d \in Batches \ {b}, NEW w \in chosen, NEW v \in ItemsOf(d)
        PROVE  Row(b, w)'.allocations \cap Row(d, v).allocations = {}
    <3>1. \A a \in Row(d, v).allocations : a \notin S
      BY <1>4, HeldIsTaken
    <3>2. Row(b, w)'.allocations \subseteq S
      BY <1>16 DEF CreditedTo
    <3> QED BY <3>1, <3>2
  <2>3. ASSUME NEW c \in Batches, NEW d \in Batches, c # d,
               NEW w \in ItemsOf(c)', NEW v \in ItemsOf(d)'
        PROVE  Row(c, w)'.allocations \cap Row(d, v)'.allocations = {}
    <3>1. CASE c = b
      BY <1>16, <2>1, <2>2, <2>3, <3>1
    <3>2. CASE d = b
      BY <1>16, <2>1, <2>2, <2>3, <3>2
    <3>3. CASE c # b /\ d # b
      BY <1>3, <2>1, <2>3, <3>3 DEF HeldOnce
    <3> QED BY <3>1, <3>2, <3>3
  <2>4. ASSUME NEW a \in Accruals, accrual'[a].status \in {"allocated", "paid"}
        PROVE  \E d \in Batches : \E w \in ItemsOf(d)' : a \in Row(d, w)'.allocations
    <3>1. CASE a \in S /\ PayoutWallet[a] \in chosen
      <4>1. a \in Row(b, PayoutWallet[a])'.allocations /\ PayoutWallet[a] \in ItemsOf(b)'
        BY <1>16, <3>1 DEF CreditedTo
      <4> QED BY <4>1
    <3>2. CASE ~ (a \in S /\ PayoutWallet[a] \in chosen)
      <4>1. accrual[a].status \in {"allocated", "paid"}
        BY <1>10, <2>4, <3>2
      <4>2. PICK d \in Batches : \E w \in ItemsOf(d) : a \in Row(d, w).allocations
        BY <1>3, <4>1 DEF HeldOnce
      <4>3. d # b
        BY <1>9, <4>2
      <4> QED BY <2>1, <4>2, <4>3
    <3> QED BY <3>1, <3>2
  <2> QED BY <2>3, <2>4 DEF HeldOnce
<1> QED
  BY <1>14, <1>15, <1>17, <1>18, <1>19 DEF LInv

-----------------------------------------------------------------------------
(* Payment                                                                 *)

LEMMA FinalizeItemStep ==
  ASSUME LInv, NEW b \in Batches, NEW w \in Wallets, FinalizeItem(b, w)
  PROVE  LInv'
<1> DEFINE last == \A v \in ItemsOf(b) \ {w} : batch[b].items[v].status = "finalized"
           items == [batch[b].items EXCEPT ![w] = [batch[b].items[w] EXCEPT !.status = "finalized"]]
           status == IF last THEN "finalized" ELSE "submitted"
           after == [batch[b] EXCEPT !.items = items, !.status = status]
<1>1. /\ batch[b].status \in {"planned", "submitted"} /\ Live(b)
      /\ w \in ItemsOf(b) /\ batch[b].items[w].status = "allocated"
      /\ batch' = [batch EXCEPT ![b] = after]
      /\ UNCHANGED <<accrual, booked, closed, latest>>
  BY DEF FinalizeItem, Live
<1>2. TypeOK /\ AccruedIsBooked /\ HeldOnce /\ \A d \in Batches : BatchHolds(d)
  BY DEF LInv
<1>3. /\ BatchTyped(batch[b]) /\ ItemsOf(b) \subseteq Wallets
      /\ batch[b].items \in [ItemsOf(b) -> Rows] /\ \A v \in ItemsOf(b) : Row(b, v) \in Rows
  BY <1>2, RowsTyped DEF TypeOK, BatchTyped
<1>4. /\ items \in [ItemsOf(b) -> Rows]
      /\ \A v \in ItemsOf(b) : /\ items[v].amount = Row(b, v).amount
                             /\ items[v].allocations = Row(b, v).allocations
                             /\ items[v].status = IF v = w THEN "finalized" ELSE Row(b, v).status
  BY <1>1, <1>3 DEF Rows, Row
<1>5. status \in {"finalized", "submitted"} /\ (status = "finalized" <=> last)
  OBVIOUS
<1> HIDE DEF items, status
<1>6. /\ after.items = items /\ after.status = status /\ after.total = batch[b].total
      /\ BatchTyped(after)
  <2>1. PICK W \in SUBSET Wallets : batch[b] \in BatchRows(W)
    BY <1>3 DEF BatchTyped
  <2>2. after \in BatchRows(ItemsOf(b))
    BY <1>4, <1>5, <2>1 DEF BatchRows
  <2>3. BatchTyped(after)
    BY <1>3, <2>2 DEF BatchTyped
  <2> QED BY <2>1, <2>3 DEF BatchRows
<1> HIDE DEF after
<1>7. batch'[b] = after /\ \A d \in Batches \ {b} : batch'[d] = batch[d]
  BY <1>1, <1>2 DEF TypeOK
<1>8. TypeOK'
  <2>1. DOMAIN batch' = Batches /\ \A d \in Batches : BatchTyped(batch'[d])
    BY <1>1, <1>2, <1>6 DEF TypeOK, BatchTyped
  <2> QED BY <1>1, <1>2, <2>1 DEF TypeOK, BatchTyped
<1>9. AccruedIsBooked'
  BY <1>1, <1>2 DEF AccruedIsBooked
<1>10. /\ ItemsOf(b)' = ItemsOf(b) /\ Live(b)' /\ Unclosed(b) /\ Unclosed(b)'
       /\ \A v \in ItemsOf(b) : /\ Row(b, v)'.amount = Row(b, v).amount
                              /\ Row(b, v)'.allocations = Row(b, v).allocations
                              /\ Row(b, v)'.status = IF v = w THEN "finalized" ELSE Row(b, v).status
  <2>1. ItemsOf(b)' = ItemsOf(b) /\ Live(b)'
    BY <1>4, <1>5, <1>6, <1>7 DEF ItemsOf, Live
  <2>2. Unclosed(b)
    BY <1>1, <1>2 DEF BatchHolds
  <2>3. Unclosed(b)'
    BY <1>1, <2>2 DEF Unclosed
  <2> QED BY <1>4, <1>6, <1>7, <2>1, <2>2, <2>3 DEF Row
<1>11. ASSUME NEW d \in Batches, d # b PROVE BatchHolds(d)'
  <2>1. batch'[d] = batch[d] /\ closed'[d] = closed[d] /\ BatchHolds(d)
    BY <1>1, <1>2, <1>7, <1>11
  <2> QED BY <1>1, <2>1, BatchFrame
<1>12. BatchHolds(b)'
  <2>1. ItemsOf(b) # {} /\ Balances(b) /\ \A v \in ItemsOf(b) : RowHolds(b, v)
    BY <1>1, <1>2 DEF BatchHolds
  <2>2. Balances(b)'
    <3> DEFINE f == [v \in ItemsOf(b) |-> batch[b].items[v].amount]
               g == [v \in DOMAIN batch'[b].items |-> batch'[b].items[v].amount]
    <3>1. f = g
      <4>1. DOMAIN batch'[b].items = ItemsOf(b)
        BY <1>10 DEF ItemsOf
      <4>2. \A v \in ItemsOf(b) : batch'[b].items[v].amount = batch[b].items[v].amount
        BY <1>10 DEF Row
      <4> QED BY <4>1, <4>2
    <3>2. ItemTotal(b)' = SumFunction(g) /\ ItemTotal(b) = SumFunction(f)
      BY DEF ItemTotal, ItemsOf
    <3>3. batch'[b].total = batch[b].total
      BY <1>6, <1>7
    <3> HIDE DEF f, g
    <3> QED BY <2>1, <3>1, <3>2, <3>3 DEF Balances
  <2>3. batch'[b].status = status
    BY <1>6, <1>7
  <2>4. ASSUME NEW v \in ItemsOf(b) PROVE RowHolds(b, v)'
    <3> DEFINE R == Row(b, v).allocations
    <3>1. /\ RowHolds(b, v) /\ Row(b, v)'.allocations = R
          /\ CreditedTo(Accruals, v)' = CreditedTo(Accruals, v)
      BY <1>10, <2>1, <2>4 DEF CreditedTo
    <3>2. Row(b, v)'.amount = Credits(Row(b, v).allocations)'
      <4>1. Row(b, v).amount = Credits(R)
        BY <3>1 DEF RowHolds
      <4>2. Credits(Row(b, v).allocations)' = SumFunction([a \in R |-> accrual'[a].amount])
        BY <3>1 DEF Credits
      <4>3. Credits(R) = SumFunction([a \in R |-> accrual'[a].amount])
        BY <1>1 DEF Credits
      <4> QED BY <1>10, <4>1, <4>2, <4>3
    <3>3. Row(b, v)'.status \in {"allocated", "finalized"}
      BY <1>10, <3>1 DEF RowHolds
    <3>4. status = "finalized" => Row(b, v)'.status = "finalized"
      BY <1>5, <1>10 DEF Row
    <3>5. \A a \in R : accrual'[a].status = "allocated"
      BY <1>1, <1>10, <3>1 DEF RowHolds
    <3>6. R # {} /\ R \subseteq CreditedTo(Accruals, v)
      BY <3>1 DEF RowHolds
    <3> HIDE DEF R
    <3> QED BY <1>5, <1>10, <2>3, <3>1, <3>2, <3>3, <3>4, <3>5, <3>6 DEF RowHolds
  <2>5. closed'[b].payable = [v \in Wallets |-> 0]
    BY <1>1, <1>2, <1>10 DEF BatchHolds
  <2> QED BY <1>10, <2>1, <2>2, <2>4, <2>5 DEF BatchHolds
<1>13. HeldOnce'
  <2>1. \A d \in Batches : /\ ItemsOf(d)' = ItemsOf(d)
                           /\ \A v \in ItemsOf(d) : Row(d, v)'.allocations = Row(d, v).allocations
    BY <1>7, <1>10 DEF ItemsOf, Row
  <2> QED BY <1>1, <1>2, <2>1 DEF HeldOnce
<1> QED
  BY <1>8, <1>9, <1>11, <1>12, <1>13 DEF LInv

\* What a batch holds is held by no other.
LEMMA OthersAreApart ==
  ASSUME LInv, NEW b \in Batches, NEW d \in Batches, d # b,
         NEW w \in ItemsOf(d), NEW a \in Row(d, w).allocations
  PROVE  a \in Accruals /\ a \notin Held(b)
<1>1. \A v \in ItemsOf(b) : a \notin Row(b, v).allocations
  BY DEF LInv, HeldOnce
<1> QED
  BY <1>1, HeldIsTaken DEF Held, Row

LEMMA ReleaseStep ==
  ASSUME LInv, NEW b \in Batches, Release(b)
  PROVE  LInv'
<1> DEFINE items == [w \in ItemsOf(b) |-> [batch[b].items[w] EXCEPT !.status = "released",
                                                                  !.allocations = {}]]
           after == [batch[b] EXCEPT !.status = "cancelled", !.items = items]
<1>1. /\ batch[b].status = "planned" /\ Live(b)
      /\ accrual' = [a \in Accruals |->
           IF a \in Held(b) THEN [accrual[a] EXCEPT !.status = "available"] ELSE accrual[a]]
      /\ batch' = [batch EXCEPT ![b] = after]
      /\ UNCHANGED <<booked, closed, latest>>
  BY DEF Release, Live
<1>2. TypeOK /\ AccruedIsBooked /\ HeldOnce /\ \A d \in Batches : BatchHolds(d)
  BY DEF LInv
<1>3. /\ BatchTyped(batch[b]) /\ ItemsOf(b) \subseteq Wallets
      /\ \A v \in ItemsOf(b) : Row(b, v) \in Rows
  BY <1>2, RowsTyped DEF TypeOK, BatchTyped
<1>4. /\ items \in [ItemsOf(b) -> Rows]
      /\ \A v \in ItemsOf(b) : items[v].allocations = {} /\ items[v].status = "released"
  BY <1>3 DEF Rows, Row
<1> HIDE DEF items
<1>5. /\ after.items = items /\ after.status = "cancelled"
      /\ BatchTyped(after)
  <2>1. PICK W \in SUBSET Wallets : batch[b] \in BatchRows(W)
    BY <1>3 DEF BatchTyped
  <2>2. after \in BatchRows(ItemsOf(b))
    BY <1>4, <2>1 DEF BatchRows
  <2>3. BatchTyped(after)
    BY <1>3, <2>2 DEF BatchTyped
  <2> QED BY <2>1, <2>3 DEF BatchRows
<1> HIDE DEF after
<1>6. batch'[b] = after /\ \A d \in Batches \ {b} : batch'[d] = batch[d]
  BY <1>1, <1>2 DEF TypeOK
<1>7. \A a \in Held(b) : accrual[a].status \in {"allocated", "paid"}
  BY HeldIsTaken DEF Held, Row
<1>8. /\ accrual' \in [Accruals -> AccrualRows]
      /\ \A a \in Accruals : accrual'[a].amount = accrual[a].amount
      /\ \A a \in Accruals : accrual'[a].status = IF a \in Held(b) THEN "available"
                                                  ELSE accrual[a].status
  <2>1. \A a \in Accruals : accrual[a] \in AccrualRows
    BY <1>2 DEF TypeOK
  <2> QED BY <1>1, <2>1 DEF AccrualRows
<1>9. TypeOK'
  <2>1. DOMAIN batch' = Batches /\ \A d \in Batches : BatchTyped(batch'[d])
    BY <1>1, <1>2, <1>5 DEF TypeOK, BatchTyped
  <2> QED BY <1>1, <1>2, <1>8, <2>1 DEF TypeOK, BatchTyped
<1>10. AccruedIsBooked'
  <2>1. \A a \in Accruals : accrual'[a].status # accrual[a].status =>
          accrual[a].status \in {"allocated", "paid"} /\ accrual'[a].status = "available"
    BY <1>7, <1>8
  <2> QED BY <1>1, <1>2, <1>8, <2>1 DEF AccruedIsBooked
<1>11. ASSUME NEW d \in Batches, d # b PROVE BatchHolds(d)'
  <2>1. batch'[d] = batch[d] /\ closed'[d] = closed[d] /\ BatchHolds(d)
    BY <1>1, <1>2, <1>6, <1>11
  <2>2. \A w \in ItemsOf(d) : \A a \in Row(d, w).allocations :
           accrual'[a].status = accrual[a].status /\ accrual'[a].amount = accrual[a].amount
    BY <1>8, <1>11, OthersAreApart
  <2> QED BY <2>1, <2>2, BatchFrame
<1>12. BatchHolds(b)'
  <2>1. /\ batch'[b].status = "cancelled" /\ ItemsOf(b)' = ItemsOf(b)
        /\ \A v \in ItemsOf(b) : Row(b, v)'.allocations = {} /\ Row(b, v)'.status = "released"
    BY <1>4, <1>5, <1>6 DEF ItemsOf, Row
  <2>2. Unclosed(b)
    BY <1>1, <1>2 DEF BatchHolds
  <2>3. Unclosed(b)' /\ closed'[b].payable = [w \in Wallets |-> 0]
    BY <1>1, <1>2, <2>2 DEF BatchHolds, Unclosed
  <2>4. ~ Live(b)'
    BY <2>1 DEF Live
  <2> QED BY <2>1, <2>3, <2>4 DEF BatchHolds
<1>13. HeldOnce'
  <2>1. \A d \in Batches \ {b} : ItemsOf(d)' = ItemsOf(d) /\ \A v : Row(d, v)' = Row(d, v)
    BY <1>6 DEF ItemsOf, Row
  <2>2. ItemsOf(b)' = ItemsOf(b) /\ \A v \in ItemsOf(b) : Row(b, v)'.allocations = {}
    BY <1>4, <1>5, <1>6 DEF ItemsOf, Row
  <2>3. ASSUME NEW c \in Batches, NEW d \in Batches, c # d,
               NEW w \in ItemsOf(c)', NEW v \in ItemsOf(d)'
        PROVE  Row(c, w)'.allocations \cap Row(d, v)'.allocations = {}
    <3>1. CASE c = b \/ d = b
      BY <2>2, <2>3, <3>1
    <3>2. CASE c # b /\ d # b
      BY <1>2, <2>1, <2>3, <3>2 DEF HeldOnce
    <3> QED BY <3>1, <3>2
  <2>4. ASSUME NEW a \in Accruals, accrual'[a].status \in {"allocated", "paid"}
        PROVE  \E d \in Batches : \E w \in ItemsOf(d)' : a \in Row(d, w)'.allocations
    <3>1. a \notin Held(b) /\ accrual[a].status \in {"allocated", "paid"}
      BY <1>8, <2>4
    <3>2. PICK d \in Batches : \E w \in ItemsOf(d) : a \in Row(d, w).allocations
      BY <1>2, <3>1 DEF HeldOnce
    <3>3. d # b
      BY <3>1, <3>2 DEF Held, Row
    <3> QED BY <2>1, <3>2, <3>3
  <2> QED BY <2>3, <2>4 DEF HeldOnce
<1> QED
  BY <1>9, <1>10, <1>11, <1>12, <1>13 DEF LInv

LEMMA CloseLedgerStep ==
  ASSUME LInv, NEW b \in Batches, CloseLedger(b)
  PROVE  LInv'
<1>1. /\ batch[b].status = "finalized" /\ Live(b) /\ Unclosed(b) /\ Balances(b)
      /\ closed' = [closed EXCEPT ![b] = ClosureEntries(b)]
      /\ accrual' = [a \in Accruals |->
           IF a \in Held(b) /\ accrual[a].status = "allocated"
           THEN [accrual[a] EXCEPT !.status = "paid"] ELSE accrual[a]]
      /\ UNCHANGED <<booked, batch, latest>>
  BY DEF CloseLedger, Live
<1>2. TypeOK /\ AccruedIsBooked /\ HeldOnce /\ \A d \in Batches : BatchHolds(d)
  BY DEF LInv
<1>3. \A a \in Held(b) : accrual[a].status = "allocated"
  BY <1>1, HeldIsTaken DEF Held, Row
<1>4. /\ accrual' \in [Accruals -> AccrualRows]
      /\ \A a \in Accruals : accrual'[a].amount = accrual[a].amount
      /\ \A a \in Accruals : accrual'[a].status = IF a \in Held(b) THEN "paid"
                                                  ELSE accrual[a].status
  <2>1. \A a \in Accruals : accrual[a] \in AccrualRows
    BY <1>2 DEF TypeOK
  <2> QED BY <1>1, <1>3, <2>1 DEF AccrualRows
<1>5. ItemTotal(b) \in Nat \ {0} /\ \A w \in ItemsOf(b) : Row(b, w).amount \in Nat \ {0}
  BY <1>1, <1>2, ItemTotalPositive
<1>6. /\ ClosureEntries(b).liability = ItemTotal(b)
      /\ ClosureEntries(b) \in Closures
  <2>1. \A w \in ItemsOf(b) : - batch[b].items[w].amount \in Int
    BY <1>5 DEF Row
  <2>2. [w \in Wallets |-> IF w \in ItemsOf(b) THEN - batch[b].items[w].amount ELSE 0]
          \in [Wallets -> Int]
    BY <2>1
  <2>3. ItemTotal(b) \in Int
    BY <1>5
  <2> QED BY <2>2, <2>3 DEF ClosureEntries, Closures
<1>7. closed'[b] = ClosureEntries(b) /\ \A d \in Batches \ {b} : closed'[d] = closed[d]
  BY <1>1, <1>2 DEF TypeOK
<1>8. TypeOK'
  <2>1. closed' \in [Batches -> Closures]
    BY <1>1, <1>2, <1>6 DEF TypeOK
  <2> QED BY <1>1, <1>2, <1>4, <2>1 DEF TypeOK
<1>9. AccruedIsBooked'
  <2>1. \A a \in Accruals : accrual'[a].status # accrual[a].status =>
          accrual[a].status = "allocated" /\ accrual'[a].status = "paid"
    BY <1>3, <1>4
  <2> QED BY <1>1, <1>2, <1>4, <2>1 DEF AccruedIsBooked
<1>10. ASSUME NEW d \in Batches, d # b PROVE BatchHolds(d)'
  <2>1. batch'[d] = batch[d] /\ closed'[d] = closed[d] /\ BatchHolds(d)
    BY <1>1, <1>2, <1>7, <1>10
  <2>2. \A w \in ItemsOf(d) : \A a \in Row(d, w).allocations :
           accrual'[a].status = accrual[a].status /\ accrual'[a].amount = accrual[a].amount
    BY <1>4, <1>10, OthersAreApart
  <2> QED BY <2>1, <2>2, BatchFrame
<1>11. BatchHolds(b)'
  <2>1. ItemsOf(b) # {} /\ \A v \in ItemsOf(b) : RowHolds(b, v)
    BY <1>1, <1>2 DEF BatchHolds
  <2>2. /\ Live(b)' = Live(b) /\ ItemsOf(b)' = ItemsOf(b) /\ Balances(b)' = Balances(b)
        /\ ClosureEntries(b)' = ClosureEntries(b) /\ \A v : Row(b, v)' = Row(b, v)
    BY <1>1 DEF Live, ItemsOf, Balances, ItemTotal, ClosureEntries, Row
  <2>3. ~ Unclosed(b)'
    BY <1>5, <1>6, <1>7 DEF Unclosed
  <2>4. ASSUME NEW v \in ItemsOf(b) PROVE RowHolds(b, v)'
    <3> DEFINE R == Row(b, v).allocations
    <3>1. RowHolds(b, v) /\ R # {} /\ R \subseteq CreditedTo(Accruals, v) /\ R \subseteq Accruals
      BY <2>1 DEF RowHolds, CreditedTo
    <3>2. Row(b, v)'.amount = Credits(Row(b, v).allocations)'
      <4>1. Row(b, v).amount = SumFunction([a \in R |-> accrual[a].amount])
        BY <3>1 DEF RowHolds, Credits
      <4>2. Credits(Row(b, v).allocations)' = SumFunction([a \in R |-> accrual'[a].amount])
        BY <2>2 DEF Credits
      <4>3. SumFunction([a \in R |-> accrual'[a].amount])
              = SumFunction([a \in R |-> accrual[a].amount])
        BY <1>4, <3>1, CreditsAgree
      <4> QED BY <2>2, <4>1, <4>2, <4>3
    <3>3. \A a \in R : accrual'[a].status = "paid"
      BY <1>4, <3>1 DEF Held, Row
    <3>4. CreditedTo(Accruals, v)' = CreditedTo(Accruals, v) /\ batch'[b].status = "finalized"
      BY <1>1 DEF CreditedTo
    <3>5. Row(b, v).status = "finalized" /\ Row(b, v)'.allocations = R
      BY <1>1, <2>2, <3>1 DEF RowHolds
    <3> HIDE DEF R
    <3> QED BY <2>2, <2>3, <3>1, <3>2, <3>3, <3>4, <3>5 DEF RowHolds
  <2> QED BY <1>1, <1>7, <2>1, <2>2, <2>3, <2>4 DEF BatchHolds
<1>12. HeldOnce'
  <2>1. \A d \in Batches : ItemsOf(d)' = ItemsOf(d) /\ \A v : Row(d, v)' = Row(d, v)
    BY <1>1 DEF ItemsOf, Row
  <2>2. \A a \in Accruals : accrual'[a].status \in {"allocated", "paid"} =>
          accrual[a].status \in {"allocated", "paid"}
    BY <1>3, <1>4
  <2> QED BY <1>2, <2>1, <2>2 DEF HeldOnce
<1> QED
  BY <1>8, <1>9, <1>10, <1>11, <1>12 DEF LInv

-----------------------------------------------------------------------------
(* The invariant holds                                                     *)

LEMMA InitLInv ==
  Init => LInv
<1> SUFFICES ASSUME Init PROVE LInv
  OBVIOUS
<1>1. BatchTyped(NoBatch) /\ DOMAIN NoBatch.items = {}
  <2>1. [w \in {} |-> 0] \in [{} -> Rows] /\ {} \in SUBSET Wallets
    OBVIOUS
  <2>2. NoBatch \in BatchRows({})
    BY <2>1 DEF NoBatch, BatchRows
  <2> QED BY <2>1, <2>2 DEF NoBatch, BatchTyped
<1>2. /\ \A b \in Batches : batch[b] = NoBatch
      /\ \A b \in Batches : closed[b] = [liability |-> 0, payable |-> [w \in Wallets |-> 0]]
  BY DEF Init
<1>3. TypeOK
  <2>1. accrual \in [Accruals -> AccrualRows] /\ booked \in [Accruals -> Bookings] /\ latest \in Nat
    BY DEF Init, AccrualRows, Bookings, Nothing
  <2>2. DOMAIN batch = Batches /\ \A b \in Batches : BatchTyped(batch[b])
    BY <1>1 DEF Init
  <2>3. [liability |-> 0, payable |-> [w \in Wallets |-> 0]] \in Closures
    BY DEF Closures
  <2>4. closed \in [Batches -> Closures]
    BY <2>3 DEF Init
  <2> QED BY <2>1, <2>2, <2>4 DEF TypeOK, BatchTyped
<1>4. AccruedIsBooked
  BY DEF Init, AccruedIsBooked, Nothing
<1>5. \A b \in Batches : ItemsOf(b) = {} /\ batch[b].status = "none"
  BY <1>1, <1>2 DEF ItemsOf, NoBatch
<1>6. HeldOnce
  <2>1. \A a \in Accruals : accrual[a].status = "none"
    BY DEF Init
  <2> QED BY <1>5, <2>1 DEF HeldOnce
<1>7. \A b \in Batches : BatchHolds(b)
  BY <1>2, <1>5 DEF BatchHolds, Live, Unclosed
<1> QED
  BY <1>3, <1>4, <1>6, <1>7 DEF LInv

LEMMA StepLInv ==
  LInv /\ [Next]_vars => LInv'
<1> SUFFICES ASSUME LInv, [Next]_vars PROVE LInv'
  OBVIOUS
<1>1. CASE UNCHANGED vars
  <2>1. TypeOK' /\ AccruedIsBooked' /\ HeldOnce'
    BY <1>1 DEF LInv, vars, TypeOK, AccruedIsBooked, HeldOnce, Row, ItemsOf
  <2>2. \A b \in Batches : BatchHolds(b)'
    BY <1>1, BatchFrame DEF LInv, vars
  <2> QED BY <2>1, <2>2 DEF LInv
<1>2. ASSUME NEW a \in Accruals, NEW p \in Prices, Ingest(a, p) PROVE LInv'
  BY <1>2, IngestStep
<1>3. ASSUME NEW a \in Accruals, Verify(a) \/ Reject(a) PROVE LInv'
  BY <1>3, VerdictStep
<1>4. ASSUME NEW b \in Batches, Plan(b) PROVE LInv'
  BY <1>4, PlanStep
<1>5. ASSUME NEW b \in Batches, Release(b) PROVE LInv'
  BY <1>5, ReleaseStep
<1>6. ASSUME NEW b \in Batches, CloseLedger(b) PROVE LInv'
  BY <1>6, CloseLedgerStep
<1>7. ASSUME NEW b \in Batches, NEW w \in Wallets, FinalizeItem(b, w) PROVE LInv'
  BY <1>7, FinalizeItemStep
<1> QED
  BY <1>1, <1>2, <1>3, <1>4, <1>5, <1>6, <1>7 DEF Next

LEMMA LedgerInvariant ==
  Spec => []LInv
BY InitLInv, StepLInv, PTL DEF Spec

\* Accounts, items and totals have their types: an amount is an integer however
\* often it was summed, and only the wallets of the instance have items.
THEOREM TypeCorrect ==
  Spec => []TypeOK
BY LedgerInvariant, PTL DEF LInv

-----------------------------------------------------------------------------
(* What it says                                                            *)

\* closeFinalizedPayoutBatchLedger never throws because the items do not add up
\* to the total of their batch, and clears for each item what the accruals that
\* it is made of were booked for: for any number of receipts, payout wallets and
\* batches, however they were selected, limited, released and planned again.
THEOREM ClosuresBalance ==
  Spec => []ClosureBalances
<1>1. LInv => ClosureBalances
  <2> SUFFICES ASSUME LInv, NEW b \in Batches, Live(b)
               PROVE  /\ Balances(b)
                      /\ \A w \in ItemsOf(b) :
                           batch[b].items[w].amount = Credits(batch[b].items[w].allocations)
    BY DEF ClosureBalances, Live
  <2>1. Balances(b) /\ \A w \in ItemsOf(b) : RowHolds(b, w)
    BY DEF LInv, BatchHolds
  <2> QED BY <2>1 DEF RowHolds, Row
<1> QED
  BY <1>1, LedgerInvariant, PTL

\* The sum of a part of the accruals of a wallet.
LEMMA CreditsOfPart ==
  ASSUME TypeOK, NEW C \in SUBSET Accruals, NEW A \in SUBSET C
  PROVE  /\ [a \in C |-> accrual[a].amount] \in [C -> Int] /\ IsFiniteSet(C)
         /\ Credits(A) = SumFunction(Restrict([a \in C |-> accrual[a].amount], A))
         /\ Credits(A) \in Int
         /\ Credits(C) = Credits(A) + Credits(C \ A)
<1> DEFINE f == [a \in C |-> accrual[a].amount]
<1>1. f \in [C -> Int] /\ IsFiniteSet(C) /\ IsFiniteSet(A)
  <2>1. \A a \in C : accrual[a].amount \in Int
    BY DEF TypeOK, AccrualRows
  <2> QED BY <2>1, LedgerAssumption, FS_Subset
<1>2. /\ Restrict(f, A) = [a \in A |-> accrual[a].amount]
      /\ Restrict(f, C \ A) = [a \in C \ A |-> accrual[a].amount]
  BY DEF Restrict
<1>3. /\ Credits(A) = SumFunction(Restrict(f, A)) /\ Credits(C) = SumFunction(f)
      /\ Credits(C \ A) = SumFunction(Restrict(f, C \ A))
  BY <1>2 DEF Credits
<1>4. Restrict(f, A) \in [A -> Int]
  BY <1>1 DEF Restrict
<1> HIDE DEF f
<1>5. Credits(A) \in Int
  BY <1>1, <1>3, <1>4, SumIsInteger
<1>6. Credits(C) = Credits(A) + Credits(C \ A)
  BY <1>1, <1>3, SumOfPart
<1> QED
  BY <1>1, <1>3, <1>5, <1>6 DEF f

\* The batches whose item for a wallet has been transferred, and what they hold.
Transferred(w) == {b \in Batches : w \in ItemsOf(b) /\ Row(b, w).status = "finalized"}
Covered(w)     == UNION {Row(b, w).allocations : b \in Transferred(w)}

LEMMA TransferredHolds ==
  ASSUME LInv, NEW w \in Wallets, NEW b \in Transferred(w)
  PROVE  /\ b \in Batches /\ w \in ItemsOf(b) /\ RowHolds(b, w) /\ Live(b)
         /\ Row(b, w).allocations \subseteq CreditedTo(Accruals, w)
         /\ Row(b, w).amount = Credits(Row(b, w).allocations)
         /\ Row(b, w).amount \in Int
<1>1. b \in Batches /\ w \in ItemsOf(b) /\ Row(b, w).status = "finalized"
  BY DEF Transferred
<1>2. Live(b) /\ RowHolds(b, w)
  BY <1>1 DEF LInv, BatchHolds
<1>3. Row(b, w).amount \in Int
  BY <1>1, RowsTyped DEF LInv, Rows
<1> QED
  BY <1>1, <1>2, <1>3 DEF RowHolds

\* An obligation counts as paid when it is covered by a transfer.
LEMMA PaidIsCovered ==
  ASSUME LInv, NEW w \in Wallets, NEW a \in CreditedTo(Accruals, w)
  PROVE  /\ ObligationStatus(a) = "paid" <=> a \in Covered(w)
         /\ a \in Covered(w) => accrual[a].status \in {"allocated", "paid"}
<1>1. a \in Accruals /\ PayoutWallet[a] = w
  BY DEF CreditedTo
<1>2. a \in Covered(w) <=>
        \E b \in Batches : \E v \in ItemsOf(b) :
          a \in batch[b].items[v].allocations /\ batch[b].items[v].status = "finalized"
  <2>1. ASSUME NEW b \in Batches, NEW v \in ItemsOf(b), a \in Row(b, v).allocations
        PROVE  v = w
    BY <1>1, <2>1, HeldIsTaken
  <2> QED BY <2>1 DEF Covered, Transferred, Row
<1>3. accrual[a].status = "paid" => a \in Covered(w)
  <2> SUFFICES ASSUME accrual[a].status = "paid" PROVE a \in Covered(w)
    OBVIOUS
  <2>1. PICK b \in Batches : \E v \in ItemsOf(b) : a \in Row(b, v).allocations
    BY <1>1 DEF LInv, HeldOnce
  <2>2. PICK v \in ItemsOf(b) : a \in Row(b, v).allocations
    BY <2>1
  <2>3. v = w /\ Live(b) /\ ~ Unclosed(b)
    BY <1>1, <2>2, HeldIsTaken
  <2>4. batch[b].status = "finalized" /\ RowHolds(b, w)
    BY <2>2, <2>3 DEF LInv, BatchHolds
  <2>5. Row(b, w).status = "finalized"
    BY <2>4 DEF RowHolds
  <2> QED BY <2>2, <2>3, <2>5 DEF Covered, Transferred
<1>4. a \in Covered(w) => accrual[a].status \in {"allocated", "paid"}
  BY HeldIsTaken DEF Covered, Transferred
<1>5. ObligationStatus(a) = "paid" <=> a \in Covered(w) \/ accrual[a].status = "paid"
  BY <1>2 DEF ObligationStatus
<1> QED
  BY <1>3, <1>4, <1>5

\* What has been transferred to a wallet covers what its accruals are worth; a
\* part of it is closed, the rest is not.
LEMMA TransfersCover ==
  ASSUME LInv, NEW w \in Wallets
  PROVE  /\ TransferredUnclosed(w) \in Int
         /\ SumFunction([b \in Batches |-> closed[b].payable[w]]) \in Int
         /\ Credits(Covered(w)) = TransferredUnclosed(w)
                                    - SumFunction([b \in Batches |-> closed[b].payable[w]])
<1> DEFINE B == Transferred(w)
           U == {b \in Batches : Unclosed(b) /\ w \in ItemsOf(b)
                                   /\ batch[b].items[w].status = "finalized"}
           C == CreditedTo(Accruals, w)
           f == [a \in C |-> accrual[a].amount]
           part == [b \in B |-> Row(b, w).allocations]
           amount == [b \in B |-> Row(b, w).amount]
           paid == Restrict(amount, B \ U)
           minus == [b \in B \ U |-> - paid[b]]
           book == [b \in Batches |-> closed[b].payable[w]]
<1>1. /\ B \subseteq Batches /\ U \subseteq B /\ IsFiniteSet(B) /\ IsFiniteSet(B \ U)
      /\ IsFiniteSet(U) /\ IsFiniteSet(Batches)
  <2>1. B \subseteq Batches /\ U \subseteq B
    BY DEF Transferred, Row
  <2> HIDE DEF B, U
  <2> QED BY <2>1, LedgerAssumption, FS_Subset
<1>2. C \subseteq Accruals /\ f \in [C -> Int] /\ IsFiniteSet(C)
  BY CreditsOfPart DEF CreditedTo, LInv
<1>3. \A b \in B : part[b] \subseteq C /\ amount[b] \in Int
                   /\ amount[b] = SumFunction(Restrict(f, part[b]))
  <2> TAKE b \in B
  <2>1. part[b] \subseteq C /\ amount[b] \in Int /\ amount[b] = Credits(part[b])
    BY TransferredHolds
  <2>2. Credits(part[b]) = SumFunction(Restrict(f, part[b]))
    BY <1>2, <2>1, CreditsOfPart DEF LInv
  <2> QED BY <2>1, <2>2
<1>4. \A b, d \in B : b # d => part[b] \cap part[d] = {}
  BY DEF LInv, HeldOnce, Transferred
<1>5. Credits(Covered(w)) = SumFunction(Restrict(f, UNION {part[b] : b \in B}))
  <2>1. UNION {part[b] : b \in B} = Covered(w)
    BY DEF Covered
  <2>2. Covered(w) \subseteq C
    BY <1>3, <2>1
  <2> QED BY <1>2, <2>1, <2>2, CreditsOfPart DEF LInv
<1>6. /\ Restrict(amount, U) = [b \in U |-> batch[b].items[w].amount]
      /\ TransferredUnclosed(w) = SumFunction(Restrict(amount, U))
  <2>1. Restrict(amount, U) = [b \in U |-> batch[b].items[w].amount]
    BY <1>1 DEF Restrict, Row
  <2> QED BY <2>1 DEF TransferredUnclosed
<1>7. \A b \in Batches : book[b] = IF b \in B \ U THEN minus[b] ELSE 0
  <2> TAKE b \in Batches
  <2>1. BatchHolds(b)
    BY DEF LInv
  <2>2. CASE Unclosed(b)
    <3>1. book[b] = 0
      BY <2>1, <2>2 DEF BatchHolds
    <3>2. b \notin B \ U
      BY <2>2 DEF Transferred, Row
    <3> QED BY <3>1, <3>2
  <2>3. CASE ~ Unclosed(b)
    <3>1. batch[b].status = "finalized" /\ closed[b] = ClosureEntries(b)
      BY <2>1, <2>3 DEF BatchHolds
    <3>2. book[b] = IF w \in ItemsOf(b) THEN - batch[b].items[w].amount ELSE 0
      BY <3>1 DEF ClosureEntries
    <3>3. w \in ItemsOf(b) => Row(b, w).status = "finalized"
      BY <2>1, <3>1 DEF BatchHolds, Live, RowHolds
    <3>4. b \in B \ U <=> w \in ItemsOf(b)
      BY <2>3, <3>3 DEF Transferred
    <3>5. b \in B \ U => minus[b] = - batch[b].items[w].amount
      BY DEF Restrict, Row
    <3> HIDE DEF minus, book, B, U
    <3> QED BY <3>2, <3>4, <3>5
  <2> QED BY <2>2, <2>3
<1> HIDE DEF U, B, C, f, TransferredUnclosed
<1>8. /\ part \in [B -> SUBSET C] /\ amount \in [B -> Int]
      /\ Restrict(amount, U) \in [U -> Int] /\ paid \in [B \ U -> Int]
      /\ minus \in [B \ U -> Int]
  <2>1. part \in [B -> SUBSET C] /\ amount \in [B -> Int]
    BY <1>3
  <2> HIDE DEF part, amount
  <2>2. Restrict(amount, U) \in [U -> Int] /\ paid \in [B \ U -> Int]
    BY <1>1, <2>1 DEF Restrict
  <2> HIDE DEF paid
  <2>3. minus \in [B \ U -> Int]
    BY <2>2
  <2> QED BY <2>1, <2>2, <2>3
<1>9. amount = [b \in B |-> SumFunction(Restrict(f, part[b]))]
  BY <1>3
<1> HIDE DEF amount, part
<1>10. SumFunction(amount) = Credits(Covered(w))
  <2> DEFINE all == UNION {part[b] : b \in B}
  <2>1. \A b \in B : amount[b] = SumFunction(Restrict(f, part[b]))
    BY <1>9
  <2>2. all = UNION {part[b] : b \in B}
    OBVIOUS
  <2>3. IsFiniteSet(C) /\ IsFiniteSet(B) /\ f \in [C -> Int]
        /\ part \in [B -> SUBSET C] /\ amount \in [B -> Int]
    BY <1>1, <1>2, <1>8
  <2> HIDE DEF all, paid, minus, book
  <2>4. SumFunction(amount) = SumFunction(Restrict(f, all))
    BY ONLY <1>4, <2>1, <2>2, <2>3, SumOfParts
  <2> QED BY <1>5, <2>2, <2>4
<1>11. SumFunction(amount) = SumFunction(Restrict(amount, U)) + SumFunction(paid)
  BY <1>1, <1>8, SumOfPart
<1> HIDE DEF paid
<1>12. SumFunction(minus) = - SumFunction(paid)
  BY <1>1, <1>8, SumOfNegatives
<1> HIDE DEF minus
<1>13. SumFunction(book) = SumFunction(minus)
  <2>1. book = [b \in Batches |-> IF b \in B \ U THEN minus[b] ELSE 0]
    BY <1>7
  <2>2. B \ U \in SUBSET Batches
    BY <1>1
  <2> HIDE DEF book
  <2> DEFINE D == B \ U
  <2>3. minus \in [D -> Int] /\ D \in SUBSET Batches
        /\ book = [b \in Batches |-> IF b \in D THEN minus[b] ELSE 0]
    BY <1>8, <2>1, <2>2
  <2> HIDE DEF D
  <2> QED BY <1>1, <2>3, SumExtended
<1>14. SumFunction(Restrict(amount, U)) \in Int /\ SumFunction(paid) \in Int
  BY <1>1, <1>8, SumIsInteger
<1> HIDE DEF book
<1>15. /\ TransferredUnclosed(w) \in Int /\ SumFunction(book) \in Int
       /\ Credits(Covered(w)) = TransferredUnclosed(w) - SumFunction(book)
  BY <1>6, <1>10, <1>11, <1>12, <1>13, <1>14
<1> QED
  BY <1>15 DEF book

\* What is outstanding for a wallet, what has been transferred, what is rejected
\* and what was never credited make up what was accrued for it.
LEMMA AccruedInParts ==
  ASSUME LInv, NEW w \in Wallets
  PROVE  LET C == CreditedTo(Accruals, w)
         IN  /\ Credits(C) = Credits(Covered(w)) + Outstanding(C) + RejectedButBooked(w)
             /\ Credits(Covered(w)) \in Int /\ Outstanding(C) \in Int
             /\ RejectedButBooked(w) \in Int
<1> DEFINE C == CreditedTo(Accruals, w)
           F == Covered(w)
           O == {a \in C \cap Summarized : ObligationStatus(a) # "paid"}
           R == {a \in C : accrual[a].status = "rejected"}
           Z == ((C \ F) \ O) \ R
<1>1. C \subseteq Accruals /\ F \subseteq C /\ O \subseteq C /\ R \subseteq C /\ Z \subseteq C
  <2>1. C \subseteq Accruals
    BY DEF CreditedTo
  <2>2. F \subseteq C
    BY TransferredHolds DEF Covered
  <2>3. O \subseteq C /\ R \subseteq C
    OBVIOUS
  <2> HIDE DEF C, F, O, R
  <2>4. Z \subseteq C
    OBVIOUS
  <2> QED BY <2>1, <2>2, <2>3, <2>4
<1>2. Outstanding(C) = Credits(O) /\ RejectedButBooked(w) = Credits(R)
  BY DEF Outstanding, RejectedButBooked
<1>3. \A a \in C : /\ ObligationStatus(a) = "paid" <=> a \in F
                   /\ a \in F => accrual[a].status \in {"allocated", "paid"}
  BY PaidIsCovered
<1>4. O \subseteq C \ F /\ R \subseteq (C \ F) \ O
  <2>1. \A a \in R : accrual[a].status = "rejected" /\ a \in C
    OBVIOUS
  <2>2. \A a \in O : accrual[a].status # "rejected" /\ a \in C /\ ObligationStatus(a) # "paid"
    BY DEF Summarized
  <2> HIDE DEF O, R, F, C
  <2> QED BY <1>3, <2>1, <2>2, <1>1
<1>5. \A a \in Z : accrual[a].amount = 0
  <2> TAKE a \in Z
  <2>1. a \in C /\ a \in Accruals /\ a \notin F /\ a \notin O /\ a \notin R
    BY <1>1
  <2>2. a \notin Summarized /\ accrual[a].status # "rejected"
    BY <1>3, <2>1
  <2>3. accrual[a].status \in {"none", "uncredited"}
    BY <2>1, <2>2 DEF Summarized
  <2> QED BY <2>1, <2>3 DEF LInv, AccruedIsBooked
<1> HIDE DEF C, F, O, R, Z
<1>6. Credits(C) = Credits(F) + Credits(C \ F) /\ Credits(F) \in Int
  BY <1>1, CreditsOfPart DEF LInv
<1>7. Credits(C \ F) = Credits(O) + Credits((C \ F) \ O) /\ Credits(O) \in Int
  <2>1. C \ F \in SUBSET Accruals
    BY <1>1
  <2> QED BY <1>4, <2>1, CreditsOfPart DEF LInv
<1>8. Credits((C \ F) \ O) = Credits(R) + Credits(Z) /\ Credits(R) \in Int
  <2>1. (C \ F) \ O \in SUBSET Accruals
    BY <1>1
  <2>2. R \in SUBSET ((C \ F) \ O)
    BY <1>4
  <2>3. ((C \ F) \ O) \ R = Z
    BY Zenon DEF Z
  <2> QED BY <2>1, <2>2, <2>3, CreditsOfPart DEF LInv
<1>9. Credits(Z) = 0
  <2> DEFINE f == [a \in Z |-> accrual[a].amount]
  <2>1. f \in [Z -> {0}] /\ IsFiniteSet(Z)
    BY <1>1, <1>5, LedgerAssumption, FS_Subset
  <2>2. Credits(Z) = SumFunction(f)
    BY DEF Credits
  <2> HIDE DEF f, Z
  <2> QED BY <2>1, <2>2, SumOfZeros
<1>10. /\ Credits(C) = Credits(F) + Outstanding(C) + RejectedButBooked(w)
       /\ Outstanding(C) \in Int /\ RejectedButBooked(w) \in Int
  BY <1>2, <1>6, <1>7, <1>8, <1>9
<1> QED
  BY <1>6, <1>10 DEF C, F

\* The account of a payout wallet holds what the summary reports for it.
LEMMA WalletMatches ==
  ASSUME LInv, NEW w \in Wallets
  PROVE  Payable(w) = Outstanding(CreditedTo(Accruals, w))
                        + TransferredUnclosed(w) + RejectedButBooked(w)
<1> DEFINE C == CreditedTo(Accruals, w)
           book == SumFunction([b \in Batches |-> closed[b].payable[w]])
<1>1. SumFunction([a \in C |-> booked[a].payable]) = Credits(C)
  <2>1. \A a \in C : booked[a].payable = accrual[a].amount
    BY DEF LInv, AccruedIsBooked, CreditedTo
  <2>2. [a \in C |-> booked[a].payable] = [a \in C |-> accrual[a].amount]
    BY <2>1
  <2> QED BY <2>2 DEF Credits
<1>2. Payable(w) = Credits(C) + book
  BY <1>1 DEF Payable
<1>3. /\ TransferredUnclosed(w) \in Int /\ book \in Int
      /\ Credits(Covered(w)) = TransferredUnclosed(w) - book
  BY TransfersCover
<1>4. /\ Credits(C) = Credits(Covered(w)) + Outstanding(C) + RejectedButBooked(w)
      /\ Outstanding(C) \in Int /\ RejectedButBooked(w) \in Int
  BY AccruedInParts
<1> HIDE DEF C, book
<1>5. Payable(w) = Outstanding(C) + TransferredUnclosed(w) + RejectedButBooked(w)
  BY <1>2, <1>3, <1>4
<1> QED
  BY <1>5 DEF C

\* The closure of a batch takes from the wallets what it takes from the liability.
LEMMA ClosureIsEven ==
  ASSUME LInv, NEW b \in Batches
  PROVE  /\ closed[b].payable \in [Wallets -> Int] /\ closed[b].liability \in Int
         /\ SumFunction(closed[b].payable) = - closed[b].liability
<1>1. BatchHolds(b) /\ closed[b] \in Closures /\ IsFiniteSet(Wallets)
  BY LedgerAssumption DEF LInv, TypeOK
<1>2. CASE Unclosed(b)
  <2>1. closed[b].payable \in [Wallets -> {0}] /\ closed[b].liability = 0
    BY <1>1, <1>2 DEF BatchHolds, Unclosed
  <2>2. SumFunction(closed[b].payable) = 0
    BY <1>1, <2>1, SumOfZeros
  <2>3. closed[b].payable \in [Wallets -> Int] /\ closed[b].liability \in Int
    BY <1>1 DEF Closures
  <2>4. SumFunction(closed[b].payable) = - closed[b].liability
    <3> DEFINE s == SumFunction(closed[b].payable)
               l == closed[b].liability
    <3>1. s = 0 /\ l = 0
      BY <2>1, <2>2
    <3> HIDE DEF s, l
    <3>2. s + l = 0 /\ s \in Int /\ l \in Int
      BY <3>1
    <3>3. s = - l
      BY <3>2
    <3> QED BY <3>3 DEF s, l
  <2> QED BY <2>3, <2>4
<1>3. CASE ~ Unclosed(b)
  <2> DEFINE I == ItemsOf(b)
             f == [w \in I |-> batch[b].items[w].amount]
             minus == [w \in I |-> - f[w]]
  <2>1. closed[b] = ClosureEntries(b)
    BY <1>1, <1>3 DEF BatchHolds
  <2>2. I \in SUBSET Wallets /\ f \in [I -> Int] /\ IsFiniteSet(I)
    <3>1. I \subseteq Wallets /\ \A w \in I : batch[b].items[w].amount \in Int
      BY RowsTyped DEF LInv, Rows, Row
    <3> QED BY <3>1, LedgerAssumption, FS_Subset
  <2>3. /\ closed[b].liability = SumFunction(f)
        /\ closed[b].payable = [w \in Wallets |-> IF w \in I THEN minus[w] ELSE 0]
    BY <2>1 DEF ClosureEntries, ItemTotal
  <2> HIDE DEF I, f
  <2>4. minus \in [I -> Int] /\ SumFunction(minus) = - SumFunction(f)
    BY <2>2, SumOfNegatives
  <2> HIDE DEF minus
  <2>5. SumFunction(closed[b].payable) = SumFunction(minus)
    BY <1>1, <2>2, <2>3, <2>4, SumExtended
  <2> QED BY <1>1, <2>3, <2>4, <2>5 DEF Closures
<1> QED
  BY <1>2, <1>3

\* The accounts of the wallets hold together what was booked for the receipts
\* and what the closures took.
LEMMA PayablesTogether ==
  ASSUME LInv
  PROVE  /\ SumFunction([w \in Wallets |-> Payable(w)])
              = SumFunction([a \in Accruals |-> booked[a].payable])
                  - SumFunction([b \in Batches |-> closed[b].liability])
         /\ SumFunction([a \in Accruals |-> booked[a].payable]) \in Int
         /\ SumFunction([b \in Batches |-> closed[b].liability]) \in Int
<1> DEFINE credit == [a \in Accruals |-> booked[a].payable]
           liability == [b \in Batches |-> closed[b].liability]
           part == [w \in Wallets |-> CreditedTo(Accruals, w)]
           earned == [w \in Wallets |-> SumFunction(Restrict(credit, part[w]))]
           taken == [b \in Batches |-> closed[b].payable]
           book == [w \in Wallets |-> SumFunction([b \in Batches |-> taken[b][w]])]
<1>1. IsFiniteSet(Accruals) /\ IsFiniteSet(Wallets) /\ IsFiniteSet(Batches)
  BY LedgerAssumption
<1>2. credit \in [Accruals -> Int] /\ liability \in [Batches -> Int]
      /\ taken \in [Batches -> [Wallets -> Int]] /\ part \in [Wallets -> SUBSET Accruals]
  <2>1. \A a \in Accruals : booked[a].payable \in Int
    BY DEF LInv, TypeOK, Bookings
  <2>2. \A b \in Batches : closed[b].payable \in [Wallets -> Int] /\ closed[b].liability \in Int
    BY ClosureIsEven
  <2> QED BY <2>1, <2>2 DEF CreditedTo
<1>3. \A w \in Wallets : Payable(w) = earned[w] + book[w]
  <2> TAKE w \in Wallets
  <2>1. Restrict(credit, part[w]) = [a \in CreditedTo(Accruals, w) |-> booked[a].payable]
    BY DEF Restrict, CreditedTo
  <2>2. [b \in Batches |-> taken[b][w]] = [b \in Batches |-> closed[b].payable[w]]
    OBVIOUS
  <2> QED BY <2>1, <2>2 DEF Payable
<1>4. /\ UNION {part[w] : w \in Wallets} = Accruals
      /\ \A v, w \in Wallets : v # w => part[v] \cap part[w] = {}
  BY LedgerAssumption DEF CreditedTo
<1>5. \A b \in Batches : SumFunction(taken[b]) = - liability[b]
  BY ClosureIsEven
<1> HIDE DEF credit, liability, part, taken
<1>6. /\ earned \in [Wallets -> Int] /\ book \in [Wallets -> Int]
  <2>1. ASSUME NEW w \in Wallets PROVE SumFunction(Restrict(credit, part[w])) \in Int
    <3>1. Restrict(credit, part[w]) \in [part[w] -> Int] /\ IsFiniteSet(part[w])
      BY <1>1, <1>2, FS_Subset DEF Restrict
    <3> QED BY <3>1, SumIsInteger
  <2>2. ASSUME NEW w \in Wallets PROVE SumFunction([b \in Batches |-> taken[b][w]]) \in Int
    <3> DEFINE g == [b \in Batches |-> taken[b][w]]
    <3>1. g \in [Batches -> Int]
      BY <1>2
    <3> HIDE DEF g
    <3>2. SumFunction(g) \in Int
      BY <1>1, <3>1, SumIsInteger
    <3> QED BY <3>2 DEF g
  <2> QED BY <2>1, <2>2
<1>7. SumFunction([w \in Wallets |-> Payable(w)]) = SumFunction(earned) + SumFunction(book)
  <2>1. [w \in Wallets |-> Payable(w)] = [w \in Wallets |-> earned[w] + book[w]]
    BY <1>3
  <2> HIDE DEF earned, book
  <2>2. SumFunction([w \in Wallets |-> earned[w] + book[w]]) = SumFunction(earned) + SumFunction(book)
    BY <1>1, <1>6, SumOfSumOfTwo
  <2> QED BY <2>1, <2>2
<1>8. SumFunction(earned) = SumFunction(credit)
  <2>1. \A w \in Wallets : earned[w] = SumFunction(Restrict(credit, part[w]))
    OBVIOUS
  <2> HIDE DEF earned, book
  <2>2. SumFunction(earned) = SumFunction(Restrict(credit, Accruals))
    <3> DEFINE all == UNION {part[w] : w \in Wallets}
    <3>1. all = UNION {part[w] : w \in Wallets}
      OBVIOUS
    <3> HIDE DEF all
    <3>2. SumFunction(earned) = SumFunction(Restrict(credit, all))
      <4>1. /\ IsFiniteSet(Accruals) /\ IsFiniteSet(Wallets)
            /\ credit \in [Accruals -> Int] /\ earned \in [Wallets -> Int]
            /\ part \in [Wallets -> SUBSET Accruals]
            /\ \A v, w \in Wallets : v # w => part[v] \cap part[w] = {}
        BY <1>1, <1>2, <1>4, <1>6
      <4> QED BY <2>1, <3>1, <4>1, SumOfParts
    <3> QED BY <1>4, <3>1, <3>2
  <2>3. Restrict(credit, Accruals) = credit
    BY <1>2 DEF Restrict
  <2> QED BY <2>2, <2>3
<1>9. SumFunction(book) = - SumFunction(liability)
  <2>1. SumFunction([b \in Batches |-> SumFunction(taken[b])]) = SumFunction(book)
    BY <1>1, <1>2, SumOfTable
  <2>2. [b \in Batches |-> SumFunction(taken[b])] = [b \in Batches |-> - liability[b]]
    BY <1>5
  <2>3. SumFunction([b \in Batches |-> - liability[b]]) = - SumFunction(liability)
    BY <1>1, <1>2, SumOfNegatives
  <2> QED BY <2>1, <2>2, <2>3
<1>10. SumFunction(credit) \in Int /\ SumFunction(liability) \in Int
  BY <1>1, <1>2, SumIsInteger
<1> HIDE DEF earned, book
<1>11. SumFunction([w \in Wallets |-> Payable(w)]) = SumFunction(credit) - SumFunction(liability)
  BY <1>7, <1>8, <1>9, <1>10
<1> QED
  BY <1>10, <1>11 DEF credit, liability

\* What is booked for the receipts sums to zero.
LEMMA BookedTogether ==
  ASSUME LInv
  PROVE  /\ SumFunction([a \in Accruals |-> booked[a].liability])
              + SumFunction([a \in Accruals |-> booked[a].payable])
              + SumFunction([a \in Accruals |-> booked[a].fee]) = 0
         /\ SumFunction([a \in Accruals |-> booked[a].liability]) \in Int
         /\ SumFunction([a \in Accruals |-> booked[a].fee]) \in Int
<1> DEFINE l == [a \in Accruals |-> booked[a].liability]
           p == [a \in Accruals |-> booked[a].payable]
           e == [a \in Accruals |-> booked[a].fee]
           lp == [a \in Accruals |-> l[a] + p[a]]
           all == [a \in Accruals |-> lp[a] + e[a]]
<1>1. IsFiniteSet(Accruals)
  BY LedgerAssumption
<1>2. \A a \in Accruals : /\ l[a] \in Int /\ p[a] \in Int /\ e[a] \in Int
                          /\ l[a] + p[a] + e[a] = 0
  BY DEF LInv, TypeOK, Bookings, AccruedIsBooked
<1>3. l \in [Accruals -> Int] /\ p \in [Accruals -> Int] /\ e \in [Accruals -> Int]
  BY <1>2
<1> HIDE DEF l, p, e
<1>4. lp \in [Accruals -> Int] /\ all \in [Accruals -> {0}]
  BY <1>2
<1>5. SumFunction(lp) = SumFunction(l) + SumFunction(p)
  BY <1>1, <1>3, SumOfSumOfTwo
<1> HIDE DEF lp
<1>6. SumFunction(all) = SumFunction(lp) + SumFunction(e)
  BY <1>1, <1>3, <1>4, SumOfSumOfTwo
<1>7. SumFunction(all) = 0
  BY <1>1, <1>4, SumOfZeros
<1>8. SumFunction(l) \in Int /\ SumFunction(p) \in Int /\ SumFunction(e) \in Int
  BY <1>1, <1>3, SumIsInteger
<1> HIDE DEF all
<1>9. SumFunction(l) + SumFunction(p) + SumFunction(e) = 0
  BY <1>5, <1>6, <1>7, <1>8
<1> QED
  BY <1>8, <1>9 DEF l, p, e

\* For any receipts, payout wallets and batches: what the ledger holds for a
\* payout wallet, booked when receipts were saved and batches closed, is what
\* the summaries report from the accruals and the items, but for what has been
\* transferred and not closed yet and for the credits of rejected receipts; and
\* the ledger as a whole sums to zero.
THEOREM LedgerAgreesWithSummary ==
  Spec => []LedgerMatchesSummary
<1>1. LInv => LedgerMatchesSummary
  <2> SUFFICES ASSUME LInv PROVE LedgerMatchesSummary
    OBVIOUS
  <2>1. Liability + Fees + SumFunction([w \in Wallets |-> Payable(w)]) = 0
    <3> DEFINE l == SumFunction([a \in Accruals |-> booked[a].liability])
               p == SumFunction([a \in Accruals |-> booked[a].payable])
               e == SumFunction([a \in Accruals |-> booked[a].fee])
               c == SumFunction([b \in Batches |-> closed[b].liability])
               all == SumFunction([w \in Wallets |-> Payable(w)])
    <3>1. Liability = l + c /\ Fees = e
      BY DEF Liability, Fees
    <3>2. all = p - c /\ p \in Int /\ c \in Int
      BY PayablesTogether
    <3>3. l + p + e = 0 /\ l \in Int /\ e \in Int
      BY BookedTogether
    <3> HIDE DEF l, p, e, c, all
    <3>4. Liability + Fees + all = 0
      BY <3>1, <3>2, <3>3
    <3> QED BY <3>4 DEF all
  <2> QED BY <2>1, WalletMatches DEF LedgerMatchesSummary
<1> QED
  BY <1>1, LedgerInvariant, PTL

-----------------------------------------------------------------------------
(* Folds over sequences                                                    *)

Top(s) == CHOOSE x \in s : \A y \in s : x >= y

LEMMA TopIsMember ==
  ASSUME NEW N \in Nat, NEW s \in SUBSET (1 .. N), s # {}
  PROVE  Top(s) \in s
<1> DEFINE T == {N - n : n \in s}
<1>1. T \in SUBSET Nat /\ T # {}
  <2>1. \A n \in s : N - n \in Nat
    OBVIOUS
  <2>2. PICK n \in s : TRUE
    OBVIOUS
  <2>3. N - n \in T
    BY <2>2
  <2> QED BY <2>1, <2>3
<1>2. PICK m \in T : \A k \in T : m <= k
  BY <1>1, LeastNat
<1>3. PICK x \in s : m = N - x
  OBVIOUS
<1>4. \A y \in s : x >= y
  <2> TAKE y \in s
  <2>1. N - x <= N - y
    BY <1>2, <1>3
  <2> QED BY <2>1
<1> QED
  BY <1>4 DEF Top

LEMMA TopOfPrefix ==
  ASSUME NEW n \in Nat \ {0}
  PROVE  Top(1 .. n) = n /\ (1 .. n) \ {n} = 1 .. (n - 1)
<1>1. n \in 1 .. n /\ \A y \in 1 .. n : n >= y
  OBVIOUS
<1>2. Top(1 .. n) \in 1 .. n /\ \A y \in 1 .. n : Top(1 .. n) >= y
  BY <1>1 DEF Top
<1> QED
  BY <1>1, <1>2

\* A fold that stays in R: it exists, and is built up from the first element.
Steps(step, base, h, N) ==
  \A s \in SUBSET (1 .. N) : h[s] = IF s = {} THEN base ELSE step[Top(s)][h[s \ {Top(s)}]]

LEMMA StepsExist ==
  ASSUME NEW N \in Nat, NEW R, NEW base \in R, NEW step \in [1 .. N -> [R -> R]]
  PROVE  \E h \in [SUBSET (1 .. N) -> R] : Steps(step, base, h, N)
<1> DEFINE S == 1 .. N
           Value(h, s) == IF s = {} THEN base ELSE step[Top(s)][h[s \ {Top(s)}]]
           D(n) == {s \in SUBSET S : Cardinality(s) <= n}
           H(n) == \E h \in [D(n) -> R] : \A s \in D(n) : h[s] = Value(h, s)
           M == {n \in Nat : H(n)}
<1>1. IsFiniteSet(S) /\ \A s \in SUBSET S : IsFiniteSet(s) /\ Cardinality(s) \in Nat
  <2>1. 0 \in Int /\ 1 \in Int /\ N \in Int
    OBVIOUS
  <2>2. IsFiniteSet(S)
    BY <2>1, FS_Interval
  <2> HIDE DEF S
  <2> QED BY <2>2, FS_Subset, FS_CardinalityType
<1>2. \A s \in SUBSET S : s # {} =>
        /\ Top(s) \in s /\ step[Top(s)] \in [R -> R] /\ s \ {Top(s)} \in SUBSET S
        /\ Cardinality(s \ {Top(s)}) = Cardinality(s) - 1
  <2> TAKE s \in SUBSET S
  <2> HAVE s # {}
  <2>1. Top(s) \in s
    BY TopIsMember
  <2>2. step[Top(s)] \in [R -> R] /\ s \ {Top(s)} \in SUBSET S
    BY <2>1
  <2> HIDE DEF S
  <2> QED BY <1>1, <2>1, <2>2, FS_RemoveElement
<1> HIDE DEF S
<1>3. H(0)
  <2>1. \A s \in D(0) : s = {}
    BY <1>1, FS_EmptySet
  <2> QED BY <2>1, [s \in D(0) |-> base] \in [D(0) -> R]
<1>4. ASSUME NEW n \in Nat, H(n) PROVE H(n + 1)
  <2>1. PICK h \in [D(n) -> R] : \A s \in D(n) : h[s] = Value(h, s)
    BY <1>4
  <2> DEFINE i == [s \in D(n + 1) |-> Value(h, s)]
  <2>2. ASSUME NEW s \in D(n + 1), s # {} PROVE s \ {Top(s)} \in D(n)
    <3>1. s \in SUBSET S /\ Cardinality(s) \in Nat /\ Cardinality(s) <= n + 1
      BY <1>1
    <3>2. s \ {Top(s)} \in SUBSET S /\ Cardinality(s \ {Top(s)}) = Cardinality(s) - 1
      BY <1>2, <2>2, <3>1
    <3>3. Cardinality(s \ {Top(s)}) <= n
      BY <3>1, <3>2
    <3> QED BY <3>2, <3>3
  <2>3. \A s \in D(n + 1) : Value(h, s) \in R
    <3> TAKE s \in D(n + 1)
    <3>1. CASE s = {}
      BY <3>1
    <3>2. CASE s # {}
      <4>1. h[s \ {Top(s)}] \in R /\ step[Top(s)] \in [R -> R]
        BY <1>2, <2>2, <3>2
      <4> QED BY <3>2, <4>1
    <3> QED BY <3>1, <3>2
  <2>4. \A s \in D(n) : s \in D(n + 1) /\ i[s] = h[s]
    <3>1. \A s \in D(n) : s \in D(n + 1)
      BY <1>1
    <3>2. \A s \in D(n + 1) : i[s] = Value(h, s)
      OBVIOUS
    <3> HIDE DEF D, i, Value
    <3> QED BY <2>1, <3>1, <3>2
  <2>5. \A s \in D(n + 1) : i[s] = Value(i, s)
    BY <2>2, <2>4
  <2>6. i \in [D(n + 1) -> R]
    BY <2>3
  <2> QED BY <2>5, <2>6
<1>5. \A n \in Nat : n \in M
  <2> HIDE DEF H
  <2>1. M \in SUBSET Nat /\ 0 \in M /\ \A n \in M : n + 1 \in M
    BY <1>3, <1>4
  <2> HIDE DEF M
  <2> QED BY <2>1, NatSetInduction
<1>6. D(Cardinality(S)) = SUBSET S
  BY <1>1, FS_Subset
<1>7. H(Cardinality(S))
  BY <1>1, <1>5
<1>8. PICK h \in [SUBSET S -> R] : \A s \in SUBSET S : h[s] = Value(h, s)
  BY <1>6, <1>7
<1> QED
  BY <1>8 DEF Steps, S

\* What is known of its steps within R is enough to follow it.
StepsWithin(R, step, base, g, N) ==
  /\ g[{}] = base
  /\ \A s \in SUBSET (1 .. N) : s # {} /\ g[s \ {Top(s)}] \in R =>
       g[s] = step[Top(s)][g[s \ {Top(s)}]]

Follows(step, base, v, N) ==
  v[0] = base /\ \A n \in 1 .. N : v[n] = step[n][v[n - 1]]

LEMMA StepsStay ==
  ASSUME NEW N \in Nat, NEW R, NEW base \in R, NEW step \in [1 .. N -> [R -> R]], NEW g,
         StepsWithin(R, step, base, g, N)
  PROVE  \E v \in [0 .. N -> R] : v[N] = g[1 .. N] /\ Follows(step, base, v, N)
<1> DEFINE v == [n \in 0 .. N |-> g[1 .. n]]
           M == {n \in Nat : n <= N => g[1 .. n] \in R}
<1>1. g[1 .. 0] = base
  <2>1. 1 .. 0 = {}
    OBVIOUS
  <2> QED BY <2>1 DEF StepsWithin
<1>2. ASSUME NEW n \in 1 .. N, g[1 .. (n - 1)] \in R
      PROVE  g[1 .. n] = step[n][g[1 .. (n - 1)]] /\ g[1 .. n] \in R
  <2> DEFINE s == 1 .. n
  <2>1. Top(s) = n /\ s \ {n} = 1 .. (n - 1)
    BY TopOfPrefix
  <2>2. s \in SUBSET (1 .. N) /\ s # {}
    <3>1. \A k \in 1 .. n : k \in 1 .. N
      OBVIOUS
    <3>2. n \in 1 .. n
      OBVIOUS
    <3> QED BY <3>1, <3>2
  <2> HIDE DEF s
  <2>3. g[s] = step[n][g[1 .. (n - 1)]]
    BY <1>2, <2>1, <2>2 DEF StepsWithin
  <2>4. step[n] \in [R -> R]
    BY <1>2
  <2> QED BY <1>2, <2>3, <2>4 DEF s
<1>3. 0 \in M
  BY <1>1
<1>4. ASSUME NEW n \in Nat, n <= N => g[1 .. n] \in R, n + 1 <= N
      PROVE  g[1 .. (n + 1)] \in R
  <2>1. n + 1 \in 1 .. N /\ (n + 1) - 1 = n /\ g[1 .. n] \in R
    BY <1>4
  <2>2. g[1 .. ((n + 1) - 1)] \in R
    BY <2>1
  <2> QED BY <1>2, <2>1, <2>2
<1>5. \A n \in Nat : n \in M
  <2>1. M \in SUBSET Nat
    OBVIOUS
  <2>2. \A n \in M : n + 1 \in M
    BY <1>4
  <2> HIDE DEF M
  <2> QED BY <1>3, <2>1, <2>2, NatSetInduction
<1>6. \A n \in 0 .. N : g[1 .. n] \in R
  BY <1>5
<1>7. v \in [0 .. N -> R] /\ v[0] = base /\ v[N] = g[1 .. N]
  BY <1>1, <1>6
<1>8. \A n \in 1 .. N : v[n] = step[n][v[n - 1]]
  <2> TAKE n \in 1 .. N
  <2>1. n - 1 \in 0 .. N /\ n \in 0 .. N
    OBVIOUS
  <2> QED BY <1>2, <1>6, <2>1
<1> HIDE DEF v
<1> QED
  BY <1>7, <1>8 DEF Follows

-----------------------------------------------------------------------------
(* The transfers of a payout                                               *)

Found(S) == [matched : SUBSET S, ok : BOOLEAN]

LEMMA SmallestIsMember ==
  ASSUME NEW S \in SUBSET Nat, S # {}
  PROVE  Candidate(S) \in S
<1>1. PICK i \in S : \A j \in S : i <= j
  BY LeastNat
<1> QED BY <1>1 DEF Candidate, Smallest

\* One transfer matched: what is matched so far stays within the items, and it
\* grows by an item of that amount whose wallet the transfer went to, unless the
\* transfer is not seen.
Matched(S, found, t, after) ==
  after.ok => /\ found.ok
              /\ ~ t.seen => after.matched = found.matched
              /\ t.seen => \E i \in S \ found.matched :
                             /\ t.to = i /\ itemAmount[i] = t.amount
                             /\ after.matched = found.matched \cup {i}

LEMMA MatchOne ==
  ASSUME NEW S \in SUBSET Items, NEW found \in Found(S), NEW t \in Transfers
  PROVE  /\ MatchTransfer(S, found, t) \in Found(S)
         /\ Matched(S, found, t, MatchTransfer(S, found, t))
<1> DEFINE same == {i \in S \ found.matched : itemAmount[i] = t.amount}
           i == Candidate(same)
           after == MatchTransfer(S, found, t)
<1>1. t.seen \in BOOLEAN
  BY DEF Transfers
<1>2. ~ t.seen => after = found
  BY DEF MatchTransfer
<1>3. t.seen /\ same = {} => after = [found EXCEPT !.ok = FALSE]
  BY DEF MatchTransfer, MatchSeen
<1>4. t.seen /\ same # {} => after = [matched |-> found.matched \cup {i},
                                    ok |-> found.ok /\ t.to = i]
  BY DEF MatchTransfer, MatchSeen, RecipientMatches
<1>5. same # {} => i \in same
  <2>1. same \in SUBSET Nat
    BY TransfersAssumption
  <2> HIDE DEF same
  <2> QED BY <2>1, SmallestIsMember
<1> HIDE DEF i, after
<1>6. CASE ~ t.seen
  BY <1>2, <1>6 DEF Found, Matched, after
<1>7. CASE t.seen /\ same = {}
  <2>1. after \in Found(S) /\ after.ok = FALSE
    BY <1>3, <1>7 DEF Found
  <2> QED BY <2>1 DEF after, Matched
<1>8. CASE t.seen /\ same # {}
  <2>1. i \in S /\ i \notin found.matched /\ itemAmount[i] = t.amount
    BY <1>5, <1>8
  <2>2. after.matched = found.matched \cup {i} /\ after.ok = (found.ok /\ t.to = i)
    BY <1>4, <1>8
  <2>3. after \in Found(S)
    <3> DEFINE m == found.matched \cup {i}
               o == found.ok /\ t.to = i
    <3>1. m \in SUBSET S /\ o \in BOOLEAN /\ after = [matched |-> m, ok |-> o]
      <4>1. m \in SUBSET S /\ o \in BOOLEAN
        BY <2>1 DEF Found
      <4> QED BY <1>4, <1>8, <4>1
    <3> HIDE DEF m, o
    <3> QED BY <3>1 DEF Found
  <2> HIDE DEF same
  <2> QED BY <1>8, <2>1, <2>2, <2>3 DEF after, Matched
<1> QED BY <1>1, <1>6, <1>7, <1>8

Matches(S, b, v, N) ==
  /\ v[0] = [matched |-> {}, ok |-> TRUE]
  /\ TransfersMatch(b, S) <=> v[N].ok /\ v[N].matched = S
  /\ \A n \in 1 .. N : v[n] = MatchTransfer(S, v[n - 1], b[n])

LEMMA MatchFold ==
  ASSUME NEW S \in SUBSET Items, NEW N \in Nat, NEW b \in [1 .. N -> Transfers]
  PROVE  \E v \in [0 .. N -> Found(S)] : Matches(S, b, v, N)
<1> DEFINE base == [matched |-> {}, ok |-> TRUE]
           step == [n \in 1 .. N |-> [r \in Found(S) |-> MatchTransfer(S, r, b[n])]]
           Value(h, s) == IF s = {} THEN base
                          ELSE MatchTransfer(S, h[s \ {Top(s)}], b[Top(s)])
           iter == CHOOSE i : i = [s \in SUBSET (1 .. N) |-> Value(i, s)]
<1>1. base \in Found(S)
  BY DEF Found
<1>2. step \in [1 .. N -> [Found(S) -> Found(S)]]
  <2>1. \A n \in 1 .. N, r \in Found(S) : MatchTransfer(S, r, b[n]) \in Found(S)
    BY MatchOne
  <2> QED BY <2>1
<1>3. \A n \in 1 .. N, r \in Found(S) : step[n][r] = MatchTransfer(S, r, b[n])
  OBVIOUS
<1>4. TransfersMatch(b, S) = (iter[1 .. N].ok /\ iter[1 .. N].matched = S)
  BY DEF TransfersMatch, FoldLeft, MapThenFoldSet, Max, Top
<1> HIDE DEF step, base
<1>5. iter = [s \in SUBSET (1 .. N) |-> Value(iter, s)]
  <2>1. PICK h \in [SUBSET (1 .. N) -> Found(S)] : Steps(step, base, h, N)
    BY <1>1, <1>2, StepsExist
  <2>2. \A s \in SUBSET (1 .. N) : h[s] = Value(h, s)
    <3> TAKE s \in SUBSET (1 .. N)
    <3>1. CASE s = {}
      BY <2>1, <3>1 DEF Steps
    <3>2. CASE s # {}
      <4>1. Top(s) \in s
        BY <3>2, TopIsMember
      <4>2. h[s \ {Top(s)}] \in Found(S) /\ Top(s) \in 1 .. N
        BY <4>1
      <4>3. h[s] = step[Top(s)][h[s \ {Top(s)}]]
        BY <2>1, <3>2 DEF Steps
      <4> QED BY <1>3, <3>2, <4>2, <4>3
    <3> QED BY <3>1, <3>2
  <2>3. h = [s \in SUBSET (1 .. N) |-> Value(h, s)]
    BY <2>2
  <2> HIDE DEF Value
  <2> QED BY <2>3
<1> HIDE DEF iter
<1>6. iter[{}] = base
  BY <1>5
<1>7. ASSUME NEW s \in SUBSET (1 .. N), s # {}, iter[s \ {Top(s)}] \in Found(S)
      PROVE  iter[s] = step[Top(s)][iter[s \ {Top(s)}]]
  <2>1. Top(s) \in 1 .. N
    BY <1>7, TopIsMember
  <2>2. iter[s] = MatchTransfer(S, iter[s \ {Top(s)}], b[Top(s)])
    BY <1>5, <1>7
  <2> QED BY <1>3, <1>7, <2>1, <2>2
<1>8. PICK v \in [0 .. N -> Found(S)] : v[N] = iter[1 .. N] /\ Follows(step, base, v, N)
  <2> HIDE DEF Value
  <2>1. StepsWithin(Found(S), step, base, iter, N)
    BY <1>6, <1>7 DEF StepsWithin
  <2> QED BY <1>1, <1>2, <2>1, StepsStay
<1>9. \A n \in 1 .. N : v[n] = MatchTransfer(S, v[n - 1], b[n])
  <2> TAKE n \in 1 .. N
  <2>1. n - 1 \in 0 .. N
    OBVIOUS
  <2> QED BY <1>3, <1>8, <2>1 DEF Follows
<1> QED BY <1>4, <1>8, <1>9 DEF base, Follows, Matches

\* What a wallet has been given after one more transfer.
Receive(sum, t, w, kinds) == IF t.to = w /\ t.seen \in kinds THEN sum + t.amount ELSE sum

LEMMA TransferAmounts ==
  ASSUME NEW t \in Transfers
  PROVE  t.amount \in Int
<1>1. t.amount \in Amounts
  BY DEF Transfers
<1>2. \A a \in Amounts : a \in Int
  BY TransfersAssumption
<1> QED BY <1>1, <1>2

Receives(b, w, kinds, u, N) ==
  /\ u[0] = 0 /\ u[N] = Given(b, w, kinds)
  /\ \A n \in 1 .. N : u[n] = Receive(u[n - 1], b[n], w, kinds)

LEMMA GivenFold ==
  ASSUME NEW N \in Nat, NEW b \in [1 .. N -> Transfers], NEW w, NEW kinds
  PROVE  \E u \in [0 .. N -> Int] : Receives(b, w, kinds, u, N)
<1> DEFINE step == [n \in 1 .. N |-> [r \in Int |-> Receive(r, b[n], w, kinds)]]
           Value(h, s) == IF s = {} THEN 0 ELSE Receive(h[s \ {Top(s)}], b[Top(s)], w, kinds)
           iter == CHOOSE i : i = [s \in SUBSET (1 .. N) |-> Value(i, s)]
<1>1. step \in [1 .. N -> [Int -> Int]]
  <2>1. \A n \in 1 .. N, r \in Int : Receive(r, b[n], w, kinds) \in Int
    BY TransferAmounts DEF Receive
  <2> QED BY <2>1
<1>2. \A n \in 1 .. N, r \in Int : step[n][r] = Receive(r, b[n], w, kinds)
  OBVIOUS
<1>3. Given(b, w, kinds) = iter[1 .. N]
  BY DEF Given, FoldLeft, MapThenFoldSet, Max, Top, Receive
<1> HIDE DEF step
<1>4. iter = [s \in SUBSET (1 .. N) |-> Value(iter, s)]
  <2>1. PICK h \in [SUBSET (1 .. N) -> Int] : Steps(step, 0, h, N)
    <3> DEFINE R == Int
               base == 0
    <3>1. base \in R /\ step \in [1 .. N -> [R -> R]]
      BY <1>1
    <3> HIDE DEF R, base
    <3>2. \E h \in [SUBSET (1 .. N) -> R] : Steps(step, base, h, N)
      BY <3>1, StepsExist
    <3> QED BY <3>2 DEF R, base
  <2>2. \A s \in SUBSET (1 .. N) : h[s] = Value(h, s)
    <3> TAKE s \in SUBSET (1 .. N)
    <3>1. CASE s = {}
      BY <2>1, <3>1 DEF Steps
    <3>2. CASE s # {}
      <4>1. Top(s) \in s
        BY <3>2, TopIsMember
      <4>2. h[s \ {Top(s)}] \in Int /\ Top(s) \in 1 .. N
        BY <4>1
      <4>3. h[s] = step[Top(s)][h[s \ {Top(s)}]]
        BY <2>1, <3>2 DEF Steps
      <4> QED BY <1>2, <3>2, <4>2, <4>3
    <3> QED BY <3>1, <3>2
  <2>3. h = [s \in SUBSET (1 .. N) |-> Value(h, s)]
    BY <2>2
  <2> HIDE DEF Value
  <2> QED BY <2>3
<1> HIDE DEF iter
<1>5. iter[{}] = 0
  BY <1>4
<1>6. ASSUME NEW s \in SUBSET (1 .. N), s # {}, iter[s \ {Top(s)}] \in Int
      PROVE  iter[s] = step[Top(s)][iter[s \ {Top(s)}]]
  <2>1. Top(s) \in 1 .. N
    BY <1>6, TopIsMember
  <2>2. iter[s] = Receive(iter[s \ {Top(s)}], b[Top(s)], w, kinds)
    BY <1>4, <1>6
  <2> QED BY <1>2, <1>6, <2>1, <2>2
<1> HIDE DEF Value
<1>7. StepsWithin(Int, step, 0, iter, N)
  BY <1>5, <1>6 DEF StepsWithin
<1>8. PICK u \in [0 .. N -> Int] : u[N] = iter[1 .. N] /\ Follows(step, 0, u, N)
  <2> DEFINE R == Int
             base == 0
  <2>1. base \in R /\ step \in [1 .. N -> [R -> R]] /\ StepsWithin(R, step, base, iter, N)
    BY <1>1, <1>7
  <2> HIDE DEF R, base
  <2>2. \E u \in [0 .. N -> R] : u[N] = iter[1 .. N] /\ Follows(step, base, u, N)
    BY <2>1, StepsStay
  <2> QED BY <2>2 DEF R, base
<1>9. \A n \in 1 .. N : u[n] = Receive(u[n - 1], b[n], w, kinds)
  <2> TAKE n \in 1 .. N
  <2>1. n - 1 \in 0 .. N
    OBVIOUS
  <2> QED BY <1>2, <1>8, <2>1 DEF Follows
<1> QED BY <1>3, <1>8, <1>9 DEF Follows, Receives

\* All transfers that are counted are seen.
Counted(b, N, kinds) == TRUE \in kinds /\ \A n \in 1 .. N : b[n].seen \/ FALSE \notin kinds

\* Transfers that are found to match the items of a transaction give each wallet
\* among them its amount and nobody else anything, as far as they are seen: an
\* item is matched once, and only by a transfer of its amount to its wallet.
LEMMA MatchedIsPaid ==
  ASSUME itemAmount \in [Items -> Amounts],
         NEW N \in Nat, NEW b \in [1 .. N -> Transfers],
         NEW S \in SUBSET Items, TransfersMatch(b, S), NEW w,
         NEW kinds, Counted(b, N, kinds)
  PROVE  Given(b, w, kinds) = IF w \in S THEN itemAmount[w] ELSE 0
<1>1. PICK v \in [0 .. N -> Found(S)] : Matches(S, b, v, N)
  BY MatchFold
<1>2. PICK u \in [0 .. N -> Int] : Receives(b, w, kinds, u, N)
  BY GivenFold
<1>3. \A i \in S : itemAmount[i] \in Int
  <2>1. \A a \in Amounts : a \in Int
    BY TransfersAssumption
  <2> QED BY <2>1
<1> DEFINE Agrees(n) == v[n].ok => u[n] = IF w \in v[n].matched THEN itemAmount[w] ELSE 0
           M == {n \in Nat : n <= N => Agrees(n)}
<1>4. 0 \in M
  BY <1>1, <1>2 DEF Matches, Receives
<1>5. ASSUME NEW n \in Nat, n <= N => Agrees(n), n + 1 <= N PROVE Agrees(n + 1)
  <2> DEFINE m == n + 1
             t == b[m]
             found == v[n]
             after == v[m]
  <2>1. m \in 1 .. N /\ m - 1 = n /\ n \in 0 .. N /\ Agrees(n)
    BY <1>5
  <2>2. after = MatchTransfer(S, found, t) /\ found \in Found(S)
    BY <1>1, <2>1 DEF Matches
  <2>3. u[m] = Receive(u[n], t, w, kinds) /\ u[n] \in Int
    BY <1>2, <2>1 DEF Receives
  <2>4. /\ t \in Transfers /\ t.seen \in BOOLEAN
        /\ TRUE \in kinds /\ (t.seen \/ FALSE \notin kinds)
    BY <2>1 DEF Transfers, Counted
  <2> HIDE DEF m, t, found, after
  <2>5. Matched(S, found, t, after)
    BY <2>2, <2>4, MatchOne
  <2>6. found.ok => u[n] = IF w \in found.matched THEN itemAmount[w] ELSE 0
    BY <2>1 DEF found
  <2>7. ASSUME after.ok PROVE u[m] = IF w \in after.matched THEN itemAmount[w] ELSE 0
    <3>1. CASE ~ t.seen
      <4>1. t.seen \notin kinds
        BY <2>4, <3>1
      <4> QED BY <2>3, <2>5, <2>6, <2>7, <3>1, <4>1 DEF Matched, Receive
    <3>2. CASE t.seen
      <4>1. PICK i \in S \ found.matched :
              /\ t.to = i /\ itemAmount[i] = t.amount /\ after.matched = found.matched \cup {i}
        BY <2>5, <2>7, <3>2 DEF Matched
      <4>2. itemAmount[i] \in Int /\ t.seen \in kinds /\ found.ok
        <5>1. t.seen = TRUE
          BY <2>4, <3>2
        <5>2. t.seen \in kinds
          BY <2>4, <5>1
        <5>3. found.ok
          BY <2>5, <2>7 DEF Matched
        <5> QED BY <1>3, <4>1, <5>2, <5>3
      <4>3. CASE w = i
        BY <2>3, <2>6, <4>1, <4>2, <4>3 DEF Receive
      <4>4. CASE w # i
        BY <2>3, <2>6, <4>1, <4>2, <4>4 DEF Receive
      <4> QED BY <4>3, <4>4
    <3> QED BY <2>4, <3>1, <3>2
  <2> QED BY <2>7 DEF after, m
<1>6. \A n \in Nat : n \in M
  <2> HIDE DEF Agrees
  <2>1. M \in SUBSET Nat /\ \A n \in M : n + 1 \in M
    BY <1>5
  <2> HIDE DEF M
  <2> QED BY <1>4, <2>1, NatSetInduction
<1>7. Agrees(N)
  BY <1>6
<1> QED BY <1>1, <1>2, <1>7 DEF Matches, Receives

\* The items that transfers which are all seen have been matched with are those
\* of the wallets they went to.
LEMMA MatchedAreRecipients ==
  ASSUME NEW N \in Nat, NEW b \in [1 .. N -> Transfers],
         NEW S \in SUBSET Items, TransfersMatch(b, S), \A n \in 1 .. N : b[n].seen
  PROVE  S = {b[n].to : n \in 1 .. N}
<1> DEFINE To(n) == {b[m].to : m \in 1 .. n}
<1>1. PICK v \in [0 .. N -> Found(S)] : Matches(S, b, v, N)
  BY MatchFold
<1> DEFINE Agrees(n) == v[n].ok => v[n].matched = To(n)
           M == {n \in Nat : n <= N => Agrees(n)}
<1>2. 0 \in M
  <2>1. To(0) = {}
    OBVIOUS
  <2>2. v[0].matched = {}
    BY <1>1 DEF Matches
  <2>3. Agrees(0)
    BY <2>1, <2>2
  <2> HIDE DEF Agrees
  <2> QED BY <2>3
<1>3. ASSUME NEW n \in Nat, n <= N => Agrees(n), n + 1 <= N PROVE Agrees(n + 1)
  <2> DEFINE m == n + 1
             found == v[n]
             after == v[m]
  <2>1. m \in 1 .. N /\ m - 1 = n /\ n \in 0 .. N /\ Agrees(n)
    BY <1>3
  <2>2. after = MatchTransfer(S, found, b[m]) /\ found \in Found(S)
    BY <1>1, <2>1 DEF Matches
  <2>3. To(m) = To(n) \cup {b[m].to}
    <3>1. \A i : i \in 1 .. m <=> i \in 1 .. n \/ i = m
      BY <2>1
    <3> HIDE DEF m
    <3> QED BY <3>1
  <2> HIDE DEF m, found, after, To
  <2>4. Matched(S, found, b[m], after) /\ b[m].seen
    BY <2>1, <2>2, MatchOne
  <2>5. found.ok => found.matched = To(n)
    BY <2>1 DEF found
  <2>6. after.ok => after.matched = To(m)
    BY <2>3, <2>4, <2>5 DEF Matched
  <2> QED BY <2>6 DEF after, m
<1>4. \A n \in Nat : n \in M
  <2> HIDE DEF Agrees
  <2>1. M \in SUBSET Nat /\ \A n \in M : n + 1 \in M
    BY <1>3
  <2> HIDE DEF M
  <2> QED BY <1>2, <2>1, NatSetInduction
<1>5. Agrees(N)
  BY <1>4
<1> QED BY <1>1, <1>5 DEF Matches

\* A wallet that no transfer goes to is given nothing.
LEMMA NothingGiven ==
  ASSUME NEW N \in Nat, NEW b \in [1 .. N -> Transfers], NEW w, NEW kinds,
         \A n \in 1 .. N : b[n].to # w
  PROVE  Given(b, w, kinds) = 0
<1>1. PICK u \in [0 .. N -> Int] : Receives(b, w, kinds, u, N)
  BY GivenFold
<1> DEFINE M == {n \in Nat : n <= N => u[n] = 0}
<1>2. 0 \in M
  BY <1>1 DEF Receives
<1>3. ASSUME NEW n \in M PROVE n + 1 \in M
  <2> SUFFICES ASSUME n + 1 <= N PROVE u[n + 1] = 0
    OBVIOUS
  <2> DEFINE m == n + 1
  <2>1. m \in 1 .. N /\ m - 1 = n /\ n <= N
    OBVIOUS
  <2> HIDE DEF m
  <2>2. u[m] = Receive(u[n], b[m], w, kinds) /\ u[n] = 0
    BY <1>1, <2>1 DEF Receives
  <2>3. u[m] = 0
    BY <2>1, <2>2 DEF Receive
  <2> QED BY <2>3 DEF m
<1>4. \A n \in Nat : n \in M
  <2>1. M \in SUBSET Nat
    OBVIOUS
  <2> HIDE DEF M
  <2> QED BY <1>2, <1>3, <2>1, NatSetInduction
<1> QED BY <1>1, <1>4 DEF Receives

\* Plans and bytes are sequences of sequences.
LEMMA SubSeqOf ==
  ASSUME NEW S, NEW s, NEW m \in Int, NEW n \in Int, \A i \in m .. n : s[i] \in S
  PROVE  SubSeq(s, m, n) \in Seq(S)
OBVIOUS

LEMMA MadeSequence ==
  ASSUME NEW S, NEW n \in Nat, NEW s \in [1 .. n -> S]
  PROVE  s \in Seq(S) /\ Len(s) = n /\ DOMAIN s = 1 .. n
OBVIOUS

LEMMA SequenceMade ==
  ASSUME NEW S, NEW s \in Seq(S)
  PROVE  Len(s) \in Nat /\ DOMAIN s = 1 .. Len(s) /\ s \in [1 .. Len(s) -> S]
OBVIOUS

LEMMA ChunksAreSequences ==
  ASSUME NEW S, NEW s \in Seq(S), NEW size \in Nat \ {0}
  PROVE  Chunks(s, size) \in Seq(Seq(S))
<1> DEFINE count == (Len(s) + size - 1) \div size
           end(k) == IF k * size < Len(s) THEN k * size ELSE Len(s)
           chunk == [k \in 1 .. count |-> SubSeq(s, (k - 1) * size + 1, end(k))]
<1>1. Chunks(s, size) = chunk
  BY DEF Chunks
<1>2. count \in Nat
  <2> DEFINE l == Len(s) + size - 1
  <2>1. l \in Nat /\ count = l \div size
    BY SequenceMade
  <2> HIDE DEF l, count
  <2>2. l \div size \in Nat
    BY <2>1, SMT
  <2> QED BY <2>1, <2>2
<1>3. ASSUME NEW k \in 1 .. count
      PROVE  SubSeq(s, (k - 1) * size + 1, end(k)) \in Seq(S)
  <2> DEFINE before == k - 1
             start == before * size
             next == k * size
  <2>1. before \in Nat /\ k \in Nat
    BY <1>2
  <2>2. start \in Nat /\ next \in Nat
    <3> HIDE DEF before
    <3> QED BY <2>1, SMT
  <2> HIDE DEF start, next
  <2>3. Len(s) \in Nat /\ \A i \in 1 .. Len(s) : s[i] \in S
    BY SequenceMade
  <2>4. end(k) \in Int /\ end(k) <= Len(s)
    BY <2>2, <2>3 DEF next
  <2>5. start + 1 \in Int /\ \A i \in (start + 1) .. end(k) : s[i] \in S
    <3> DEFINE e == end(k)
    <3> HIDE DEF e
    <3>1. e \in Int /\ e <= Len(s)
      BY <2>4 DEF e
    <3>2. \A i \in (start + 1) .. e : i \in 1 .. Len(s)
      BY <2>2, <2>3, <3>1
    <3> QED BY <2>2, <2>3, <3>2 DEF e
  <2> HIDE DEF end
  <2>6. SubSeq(s, start + 1, end(k)) \in Seq(S)
    BY <2>4, <2>5, SubSeqOf
  <2> QED BY <2>6 DEF start
<1> HIDE DEF count, end
<1>4. chunk \in [1 .. count -> Seq(S)]
  BY <1>3
<1> QED BY <1>1, <1>2, <1>4, MadeSequence

\* Whatever is serialised is a sequence of transfers.
LEMMA SerializationsAreSequences ==
  ASSUME NEW s \in Seq(Transfers), NEW b \in Serializations(s)
  PROVE  b \in Seq(Transfers)
<1> DEFINE T == Transfers
<1>1. Len(s) \in Nat /\ DOMAIN s = 1 .. Len(s) /\ s \in [1 .. Len(s) -> T]
  BY SequenceMade
<1>2. ASSUME NEW n \in DOMAIN s PROVE RemoveAt(s, n) \in Seq(T)
  <2>1. n \in 1 .. Len(s)
    BY <1>1
  <2>2. SubSeq(s, 1, n - 1) \in Seq(T) /\ SubSeq(s, n + 1, Len(s)) \in Seq(T)
    <3> HIDE DEF T
    <3>1. \A i \in 1 .. (n - 1) : s[i] \in T
      BY <1>1, <2>1
    <3>2. \A i \in (n + 1) .. Len(s) : s[i] \in T
      BY <1>1, <2>1
    <3>3. 1 \in Int /\ n - 1 \in Int /\ n + 1 \in Int /\ Len(s) \in Int
      BY <1>1, <2>1
    <3> QED BY <3>1, <3>2, <3>3, SubSeqOf
  <2> QED BY <2>2 DEF RemoveAt
<1>3. ASSUME NEW t \in T PROVE Append(s, t) \in Seq(T)
  OBVIOUS
<1>4. ASSUME NEW n \in DOMAIN s, NEW t \in T PROVE ReplaceAt(s, n, t) \in Seq(T)
  <2>1. ReplaceAt(s, n, t) \in [1 .. Len(s) -> T]
    BY <1>1 DEF ReplaceAt
  <2> QED BY <1>1, <2>1, MadeSequence
<1>5. Reverse(s) \in Seq(T)
  <2>1. \A i \in 1 .. Len(s) : (Len(s) - i) + 1 \in 1 .. Len(s)
    BY <1>1
  <2>2. Reverse(s) \in [1 .. Len(s) -> T]
    BY <1>1, <2>1 DEF Reverse
  <2> QED BY <1>1, <2>2, MadeSequence
<1>6. \/ b = s
      \/ \E n \in DOMAIN s : b = RemoveAt(s, n)
      \/ \E t \in T : b = Append(s, t)
      \/ \E n \in DOMAIN s, t \in T : b = ReplaceAt(s, n, t)
      \/ b = Reverse(s)
  BY DEF Serializations
<1> HIDE DEF T
<1>7. s \in Seq(T)
  BY DEF T
<1>8. b \in Seq(T)
  BY <1>2, <1>3, <1>4, <1>5, <1>6, <1>7
<1> QED BY <1>8 DEF T

\* What the ledger has been closed with has landed, is what all items are mapped
\* to, and has been found to match them.
ClosedSound ==
  /\ closedWith \subseteq landed
  /\ closedWith # {} => UNION {saved[k] : k \in closedWith} = Items
  /\ \A k \in closedWith : TransfersMatch(bytes[k], saved[k])

\* A plan comes before its bytes, bytes before a signature and a signature before
\* a mapping; what is closed is never serialised or mapped again.
InOrder ==
  /\ bytes # <<>> => plan # <<>> /\ DOMAIN bytes = DOMAIN plan
  /\ signed # "no" => bytes # <<>>
  /\ DOMAIN saved # {} => signed # "no"

PInv == TransfersTypeOK /\ InOrder /\ ClosedSound

LEMMA MatchStays ==
  ASSUME itemAmount' = itemAmount, NEW b, NEW S
  PROVE  TransfersMatch(b, S)' = TransfersMatch(b, S)
<1> DEFINE Match(d, found, t) ==
             IF t.seen
             THEN LET same == {i \in S \ found.matched : d[i] = t.amount}
                  IN  IF same = {} THEN [found EXCEPT !.ok = FALSE]
                      ELSE [matched |-> found.matched \cup {Candidate(same)},
                            ok |-> found.ok /\ t.to = Candidate(same)]
             ELSE found
           Value(d, h, s) ==
             IF s = {} THEN [matched |-> {}, ok |-> TRUE]
             ELSE Match(d, h[s \ {Max(s)}], b[Max(s)])
           Result(d) == (CHOOSE i : i = [s \in SUBSET DOMAIN b |-> Value(d, i, s)])[DOMAIN b]
           Matching(d) == Result(d).ok /\ Result(d).matched = S
<1>1. TransfersMatch(b, S) = Matching(itemAmount)
  BY DEF TransfersMatch, FoldLeft, MapThenFoldSet, MatchTransfer, MatchSeen, RecipientMatches
<1>2. TransfersMatch(b, S)' = Matching(itemAmount')
  BY DEF TransfersMatch, FoldLeft, MapThenFoldSet, MatchTransfer, MatchSeen, RecipientMatches
<1> HIDE DEF Matching
<1> QED BY <1>1, <1>2

LEMMA ClosedStays ==
  ASSUME ClosedSound, UNCHANGED <<itemAmount, bytes, closedWith>>, landed \subseteq landed',
         \A k \in closedWith : saved'[k] = saved[k]
  PROVE  ClosedSound'
<1>1. itemAmount' = itemAmount /\ bytes' = bytes /\ closedWith' = closedWith
  OBVIOUS
<1>2. \A b, S : TransfersMatch(b, S)' = TransfersMatch(b, S)
  BY <1>1, MatchStays
<1>3. ASSUME NEW k \in closedWith PROVE TransfersMatch(bytes[k], saved[k])'
  <2>1. TransfersMatch(bytes[k], saved[k])
    BY DEF ClosedSound
  <2> QED BY <1>1, <1>2, <2>1
<1>4. {saved[k] : k \in closedWith}' = {saved[k] : k \in closedWith}
  BY <1>1
<1> QED BY <1>1, <1>3, <1>4 DEF ClosedSound

LEMMA PInvHolds ==
  TransfersSpec => []PInv
<1>1. TransfersInit => PInv
  <2> SUFFICES ASSUME TransfersInit PROVE PInv
    OBVIOUS
  <2>1. <<>> \in Seq(Seq(Items)) /\ <<>> \in Seq(Seq(Transfers))
        /\ DOMAIN saved = {} /\ saved \in [DOMAIN saved -> SUBSET Items]
    <3>1. <<>> \in Seq(SUBSET Items)
      OBVIOUS
    <3>2. saved \in [1 .. Len(saved) -> SUBSET Items] /\ Len(saved) = 0
          /\ DOMAIN saved = 1 .. Len(saved)
      BY <3>1, SequenceMade DEF TransfersInit
    <3> QED BY <3>2
  <2>2. TransfersTypeOK
    BY <2>1 DEF TransfersInit, TransfersTypeOK
  <2>3. InOrder /\ ClosedSound
    BY <2>1 DEF TransfersInit, InOrder, ClosedSound
  <2> QED BY <2>2, <2>3 DEF PInv
<1>2. PInv /\ [TransfersNext]_(transfersVars) => PInv'
  <2> SUFFICES ASSUME PInv, [TransfersNext]_(transfersVars) PROVE PInv'
    OBVIOUS
  <2> USE DEF PInv
  <2>1. ASSUME NEW order \in SetToSeqs(Items), NEW size \in Sizes,
               CreateTransactionPlan(order, size)
        PROVE  PInv'
    <3>1. order \in Seq(Items) /\ size \in Nat \ {0}
      <4>1. Cardinality(Items) \in Nat
        BY TransfersAssumption, FS_CardinalityType
      <4>2. order \in [1 .. Cardinality(Items) -> Items]
        BY <2>1 DEF SetToSeqs
      <4>3. order \in Seq(Items)
        BY <4>1, <4>2, MadeSequence
      <4> QED BY <4>3, TransfersAssumption
    <3>2. plan' \in Seq(Seq(Items)) /\ planned' \in {"no", "store", "answer"}
      BY <2>1, <3>1, ChunksAreSequences DEF CreateTransactionPlan
    <3>3. plan = <<>> /\ bytes = <<>> /\ signed = "no" /\ DOMAIN saved = {}
      BY <2>1 DEF CreateTransactionPlan, InOrder
    <3>4. UNCHANGED <<itemAmount, bytes, signed, saved, landed, closedWith>>
      BY <2>1 DEF CreateTransactionPlan
    <3>5. TransfersTypeOK'
      BY <3>2, <3>3, <3>4 DEF TransfersTypeOK, Transfers
    <3>6. InOrder'
      BY <3>3, <3>4 DEF InOrder
    <3> QED BY <3>4, <3>5, <3>6, ClosedStays
  <2>2. ASSUME NEW k \in DOMAIN plan,
               NEW b \in Serializations(Instructions(plan[k])),
               Serialize(k, b)
        PROVE  PInv'
    <3>1. ASSUME NEW n \in DOMAIN plan
          PROVE  Instructions(plan[n]) \in Seq(Transfers)
      <4>1. plan[n] \in Seq(Items)
        BY DEF TransfersTypeOK
      <4> DEFINE items == plan[n]
      <4>2. /\ Len(items) \in Nat /\ DOMAIN items = 1 .. Len(items)
            /\ items \in [1 .. Len(items) -> Items]
        BY <4>1, SequenceMade
      <4> HIDE DEF items
      <4>3. \A i \in Items : TransferOf(i) \in Transfers
        BY DEF TransferOf, Transfers, TransfersTypeOK
      <4>4. Instructions(items) \in [1 .. Len(items) -> Transfers]
        BY <4>2, <4>3 DEF Instructions
      <4>5. Instructions(items) \in Seq(Transfers)
        BY <4>2, <4>4, MadeSequence
      <4> QED BY <4>5 DEF items
    <3>2. b \in Seq(Transfers)
      BY <3>1, SerializationsAreSequences
    <3>3. Len(plan) \in Nat /\ DOMAIN plan = 1 .. Len(plan)
      BY SequenceMade DEF TransfersTypeOK
    <3>4. bytes' \in [1 .. Len(plan) -> Seq(Transfers)] /\ plan # <<>>
      BY <2>2, <3>1, <3>2, <3>3 DEF Serialize
    <3>5. bytes' \in Seq(Seq(Transfers)) /\ DOMAIN bytes' = DOMAIN plan
      BY <3>3, <3>4, MadeSequence
    <3>6. bytes = <<>> /\ signed = "no" /\ DOMAIN saved = {} /\ closedWith = {}
      BY <2>2 DEF Serialize, InOrder, TransfersTypeOK
    <3>7. UNCHANGED <<itemAmount, plan, planned, signed, saved, landed, closedWith>>
      BY <2>2 DEF Serialize
    <3>8. TransfersTypeOK'
      <4>1. Transfers' = Transfers
        BY DEF Transfers
      <4> QED BY <3>5, <3>7, <4>1 DEF TransfersTypeOK
    <3>9. InOrder' /\ ClosedSound'
      BY <3>4, <3>5, <3>6, <3>7 DEF InOrder, ClosedSound
    <3> QED BY <3>8, <3>9
  <2>3. ASSUME NEW who \in {"local", "remote", "elsewhere"},
               bytes # <<>>, signed = "no", signed' = who,
               UNCHANGED <<itemAmount, plan, planned, bytes, saved, landed, closedWith>>
        PROVE  PInv'
    <3>1. TransfersTypeOK' /\ InOrder'
      BY <2>3 DEF TransfersTypeOK, Transfers, InOrder
    <3> QED BY <2>3, <3>1, ClosedStays
  <2>4. ASSUME NEW m \in Calls, SaveSigned(m) PROVE PInv'
    <3>1. /\ signed # "no"
          /\ UNCHANGED <<itemAmount, plan, planned, bytes, signed, landed, closedWith>>
          /\ saved' = [k \in DOMAIN saved \cup DOMAIN m |->
                         IF k \in DOMAIN m THEN m[k] ELSE saved[k]]
      BY <2>4 DEF SaveSigned
    <3>2. PICK D \in SUBSET (DOMAIN plan \ DOMAIN saved) : m \in [D -> SUBSET Items]
      BY DEF Calls
    <3>3. /\ DOMAIN saved' = DOMAIN saved \cup D
          /\ \A k \in DOMAIN saved : saved'[k] = saved[k]
          /\ saved' \in [DOMAIN saved \cup D -> SUBSET Items]
      <4>1. saved \in [DOMAIN saved -> SUBSET Items]
        BY DEF TransfersTypeOK
      <4> QED BY <3>1, <3>2, <4>1
    <3>4. TransfersTypeOK'
      BY <3>1, <3>2, <3>3 DEF TransfersTypeOK, Transfers
    <3>5. InOrder'
      BY <3>1 DEF InOrder
    <3>6. \A k \in closedWith : saved'[k] = saved[k]
      BY <3>3 DEF TransfersTypeOK
    <3> QED BY <3>1, <3>4, <3>5, <3>6, ClosedStays
  <2>5. ASSUME NEW k \in DOMAIN saved, Land(k) PROVE PInv'
    <3>1. /\ k \in DOMAIN saved /\ k \notin landed /\ landed' = landed \cup {k}
          /\ UNCHANGED <<itemAmount, plan, planned, bytes, signed, saved, closedWith>>
      BY <2>5 DEF Land
    <3>2. TransfersTypeOK' /\ InOrder'
      BY <3>1 DEF TransfersTypeOK, Transfers, InOrder
    <3> QED BY <3>1, <3>2, ClosedStays
  <2>6. ASSUME Close PROVE PInv'
    <3>1. /\ Verified /\ closedWith' = DOMAIN saved
          /\ UNCHANGED <<itemAmount, plan, planned, bytes, signed, saved, landed>>
      BY <2>6 DEF Close
    <3>2. TransfersTypeOK' /\ InOrder'
      BY <3>1 DEF TransfersTypeOK, Transfers, InOrder
    <3>3. landed = DOMAIN saved /\ UNION {saved[k] : k \in DOMAIN saved} = Items
      <4>1. landed = DOMAIN saved
        BY <3>1 DEF Verified, TransfersTypeOK
      <4> QED BY <3>1, <4>1 DEF Verified, Finalized
    <3>4. ASSUME NEW k \in DOMAIN saved PROVE TransfersMatch(bytes[k], saved[k])'
      <4>1. \A b, S : TransfersMatch(b, S)' = TransfersMatch(b, S)
        BY <3>1, MatchStays
      <4>2. TransfersMatch(bytes[k], saved[k])
        BY <3>1 DEF Verified
      <4>3. bytes' = bytes /\ saved' = saved
        BY <3>1
      <4> QED BY <4>1, <4>2, <4>3
    <3>5. /\ closedWith' \subseteq landed'
          /\ UNION {saved[k] : k \in DOMAIN saved}' = Items
      BY <3>1, <3>3
    <3>6. ClosedSound'
      BY <3>1, <3>4, <3>5 DEF ClosedSound
    <3> QED BY <3>2, <3>6
  <2>7. CASE UNCHANGED transfersVars
    <3>1. UNCHANGED <<itemAmount, plan, planned, bytes, signed, saved, landed, closedWith>>
      BY <2>7 DEF transfersVars
    <3>2. TransfersTypeOK' /\ InOrder'
      BY <3>1 DEF TransfersTypeOK, Transfers, InOrder
    <3> QED BY <3>1, <3>2, ClosedStays
  <2>8. ASSUME NEW who \in {"local", "remote"}, Sign(who) PROVE PInv'
    BY <2>3, <2>8 DEF Sign
  <2>9. CASE SignElsewhere
    BY <2>3, <2>9 DEF SignElsewhere
  <2> HIDE DEF PInv
  <2> QED BY <2>1, <2>2, <2>4, <2>5, <2>6, <2>7, <2>8, <2>9 DEF TransfersNext
<1> QED BY <1>1, <1>2, PTL DEF TransfersSpec

\* The bytes of a transaction that has been saved, and the items it is mapped to.
LEMMA SavedShape ==
  ASSUME PInv, NEW k \in DOMAIN saved
  PROVE  /\ saved[k] \in SUBSET Items /\ k \in DOMAIN plan
         /\ \E N \in Nat : bytes[k] \in [1 .. N -> Transfers]
<1>1. saved[k] \in SUBSET Items /\ k \in DOMAIN plan /\ DOMAIN bytes = DOMAIN plan
  BY DEF PInv, TransfersTypeOK, InOrder
<1>2. bytes[k] \in Seq(Transfers)
  BY <1>1, SequenceMade DEF PInv, TransfersTypeOK
<1> QED BY <1>1, <1>2, SequenceMade

\* As far as they are seen, the transfers of each transaction that the ledger was
\* closed with are what its items are due.
LEMMA ClosedIsSeen ==
  ASSUME PInv, NEW k \in closedWith, NEW w
  PROVE  SeenGiven(bytes[k], w) = IF w \in saved[k] THEN itemAmount[w] ELSE 0
<1> DEFINE b == bytes[k]
           S == saved[k]
           kinds == {TRUE}
<1>1. k \in DOMAIN saved
  BY DEF PInv, TransfersTypeOK
<1>2. PICK N \in Nat : b \in [1 .. N -> Transfers]
  BY <1>1, SavedShape
<1>3. S \in SUBSET Items /\ TransfersMatch(b, S) /\ itemAmount \in [Items -> Amounts]
  BY <1>1, SavedShape DEF PInv, ClosedSound, TransfersTypeOK
<1>4. Counted(b, N, kinds)
  BY DEF Counted
<1> HIDE DEF b, S, kinds
<1>5. Given(b, w, kinds) = IF w \in S THEN itemAmount[w] ELSE 0
  BY <1>2, <1>3, <1>4, MatchedIsPaid
<1> QED BY <1>5 DEF b, S, kinds, SeenGiven

\* The items of a batch can be listed in increasing order: the least first, the
\* others after it.
Increasing(s, n) == \A i, j \in 1 .. n : i < j => s[i] < s[j]
Listing(S, n) == {s \in [1 .. n -> S] : Increasing(s, n)}

LEMMA ListingExists ==
  ASSUME NEW I \in SUBSET Nat, IsFiniteSet(I)
  PROVE  Listing(I, Cardinality(I)) # {}
<1> DEFINE T == {S \in SUBSET I : Listing(S, Cardinality(S)) # {}}
<1>1. \A S \in SUBSET I : IsFiniteSet(S) /\ Cardinality(S) \in Nat
  BY FS_Subset, FS_CardinalityType
<1>2. {} \in T
  <2>1. 1 .. 0 = {} /\ Cardinality({}) = 0
    BY FS_EmptySet
  <2>2. [i \in 1 .. 0 |-> 0] \in Listing({}, 0)
    BY <2>1 DEF Listing, Increasing
  <2> QED BY <2>1, <2>2
<1>3. ASSUME NEW S \in SUBSET I, S # {}, \A x \in S : S \ {x} \in T PROVE S \in T
  <2>1. PICK x \in S : \A y \in S : x <= y
    BY <1>3, LeastNat
  <2> DEFINE R == S \ {x}
             n == Cardinality(R)
  <2>2. n \in Nat /\ Cardinality(S) = n + 1
    BY <1>1, FS_RemoveElement
  <2>3. PICK r \in [1 .. n -> R] : Increasing(r, n)
    BY <1>3 DEF Listing
  <2> HIDE DEF n
  <2> DEFINE s == [i \in 1 .. (n + 1) |-> IF i = 1 THEN x ELSE r[i - 1]]
  <2>4. \A i \in 1 .. (n + 1) : i = 1 \/ i - 1 \in 1 .. n
    BY <2>2
  <2>5. s \in [1 .. (n + 1) -> S]
    BY <2>4
  <2>6. Increasing(s, n + 1)
    <3> SUFFICES ASSUME NEW i \in 1 .. (n + 1), NEW j \in 1 .. (n + 1), i < j
                 PROVE  s[i] < s[j]
      BY DEF Increasing
    <3>1. j - 1 \in 1 .. n /\ s[j] = r[j - 1]
      BY <2>2
    <3>2. CASE i = 1
      <4>1. r[j - 1] \in S /\ r[j - 1] # x
        BY <3>1
      <4>2. x < r[j - 1]
        <5>1. x <= r[j - 1] /\ x \in Nat /\ r[j - 1] \in Nat
          BY <2>1, <4>1
        <5> QED BY <4>1, <5>1
      <4> QED BY <3>1, <3>2, <4>2
    <3>3. CASE i # 1
      <4>1. i - 1 \in 1 .. n /\ s[i] = r[i - 1] /\ i - 1 < j - 1
        BY <2>2, <3>3
      <4> QED BY <2>3, <3>1, <4>1 DEF Increasing
    <3> QED BY <3>2, <3>3
  <2> HIDE DEF s
  <2> QED BY <2>2, <2>5, <2>6 DEF Listing
<1> HIDE DEF T
<1>4. \A S \in SUBSET I : S \in T
  <2>1. T \in SUBSET SUBSET I
    BY DEF T
  <2> QED BY <1>2, <1>3, <2>1, FiniteSetInduction
<1> QED BY <1>4 DEF T

\* A batch as it is stored: each item once, in the order of the identifiers.
LEMMA StoredIsListing ==
  \E n \in Nat : /\ Stored \in [1 .. n -> Items]
                        /\ Increasing(Stored, n)
                        /\ \A x \in Items : \E j \in 1 .. n : Stored[j] = x
<1> DEFINE n == Cardinality(Items)
           s == Stored
<1>1. Items \in SUBSET Nat /\ IsFiniteSet(Items)
  BY TransfersAssumption
<1>2. n \in Nat /\ Cardinality(Items) = n
  BY <1>1, FS_CardinalityType
<1> HIDE DEF n
<1>3. PICK l \in [1 .. n -> Items] : Increasing(l, n)
  BY <1>1, ListingExists DEF Listing, n
<1>4. l \in SetToSeqs(Items)
      /\ \A i, j \in DOMAIN l : i < j => l[i] < l[j]
  <2>1. \A i, j \in 1 .. n : i # j => i < j \/ j < i
    BY <1>2
  <2>2. \A i \in 1 .. n : l[i] \in Nat
    BY <1>1
  <2>3. \A i, j \in 1 .. n : i # j => l[i] # l[j]
    BY <1>3, <2>1, <2>2 DEF Increasing
  <2> QED BY <1>2, <1>3, <2>3 DEF SetToSeqs, Increasing
<1>5. s \in SetToSeqs(Items) /\ \A i, j \in DOMAIN s : i < j => s[i] < s[j]
  BY <1>4 DEF Stored
<1> HIDE DEF s
<1>6. /\ s \in [1 .. n -> Items] /\ Increasing(s, n)
      /\ \A i, j \in 1 .. n : i # j => s[i] # s[j]
  BY <1>2, <1>5 DEF SetToSeqs, Increasing
<1>7. ASSUME NEW x \in Items, \A j \in 1 .. n : s[j] # x PROVE FALSE
  <2> DEFINE R == Items \ {x}
             D == 1 .. n
  <2>1. IsFiniteSet(R) /\ Cardinality(R) = n - 1
    BY <1>1, FS_RemoveElement DEF n
  <2>2. IsFiniteSet(D) /\ Cardinality(D) = n
    <3>1. 1 \in Int /\ n \in Int /\ (IF 1 > n THEN 0 ELSE n - 1 + 1) = n
      BY <1>2
    <3> QED BY <3>1, FS_Interval
  <2>3. s \in [D -> R]
    BY <1>6, <1>7
  <2>4. Cardinality(R) < Cardinality(D)
    BY <1>2, <2>1, <2>2
  <2>5. \A i, j \in D : i # j => s[i] # s[j]
    BY <1>6
  <2> HIDE DEF R, D
  <2> QED BY <2>1, <2>2, <2>3, <2>4, <2>5, FS_PigeonHole
<1> QED BY <1>2, <1>6, <1>7 DEF s

\* The transfers of items listed in increasing order match them: among the items
\* of an amount that are left, the first is the one whose transfer comes next.
LEMMA ListingMatches ==
  ASSUME itemAmount \in [Items -> Amounts],
         NEW N \in Nat, NEW p \in [1 .. N -> Items], Increasing(p, N)
  PROVE  TransfersMatch(Instructions(p), {p[i] : i \in 1 .. N})
<1> DEFINE b == Instructions(p)
           S == {p[i] : i \in 1 .. N}
           Before(n) == {p[i] : i \in 1 .. n}
           After(n) == [matched |-> Before(n), ok |-> TRUE]
<1>1. b \in [1 .. N -> Transfers]
      /\ \A n \in 1 .. N : b[n] = [to |-> p[n], amount |-> itemAmount[p[n]], seen |-> TRUE]
  <2>1. \A i \in Items : TransferOf(i) \in Transfers
    BY DEF TransferOf, Transfers
  <2>2. DOMAIN p = 1 .. N /\ \A n \in 1 .. N : p[n] \in Items
    OBVIOUS
  <2> QED BY <2>1, <2>2 DEF Instructions, TransferOf
<1>2. S \in SUBSET Items
  OBVIOUS
<1>3. \A n \in 1 .. N : p[n] \in Nat
  BY TransfersAssumption
<1> HIDE DEF b
<1>4. PICK v \in [0 .. N -> Found(S)] : Matches(S, b, v, N)
  <2> HIDE DEF S
  <2> QED BY <1>1, <1>2, MatchFold
<1>5. v[0] = After(0)
  <2>1. Before(0) = {}
    OBVIOUS
  <2> QED BY <1>4, <2>1 DEF Matches
<1>6. ASSUME NEW n \in Nat, v[n] = After(n), n + 1 <= N PROVE v[n + 1] = After(n + 1)
  <2> DEFINE m == n + 1
             same == {i \in S \ v[n].matched : itemAmount[i] = b[m].amount}
  <2>1. m \in 1 .. N /\ m - 1 = n
    BY <1>6
  <2>2. v[m] = MatchTransfer(S, v[n], b[m])
    BY <1>4, <2>1 DEF Matches
  <2>3. v[n].matched = Before(n) /\ v[n].ok = TRUE
    BY <1>6
  <2>4. b[m].to = p[m] /\ b[m].amount = itemAmount[p[m]] /\ b[m].seen = TRUE
    BY <1>1, <2>1
  <2>5. p[m] \in same
    <3>1. p[m] \in S
      BY <2>1
    <3>2. p[m] \notin Before(n)
      <4> SUFFICES ASSUME NEW i \in 1 .. n, p[i] = p[m] PROVE FALSE
        OBVIOUS
      <4>1. i \in 1 .. N /\ i < m
        BY <2>1
      <4>2. p[i] < p[m]
        BY <2>1, <4>1 DEF Increasing
      <4> QED BY <1>3, <2>1, <4>2
    <3> QED BY <2>3, <2>4, <3>1, <3>2
  <2>6. \A i \in same : p[m] <= i
    <3> TAKE i \in same
    <3>1. i \in S /\ i \notin Before(n)
      BY <2>3
    <3>2. PICK j \in 1 .. N : i = p[j]
      BY <3>1
    <3>3. m <= j
      <4>1. j \notin 1 .. n
        BY <3>1, <3>2
      <4> QED BY <2>1, <4>1
    <3>4. m = j \/ p[m] < p[j]
      BY <2>1, <3>3 DEF Increasing
    <3> QED BY <1>3, <2>1, <3>2, <3>4
  <2>7. Candidate(same) = p[m]
    <3>1. same \in SUBSET Nat
      BY <1>2, TransfersAssumption
    <3> HIDE DEF same
    <3>2. ASSUME NEW i \in same, \A j \in same : i <= j PROVE i = p[m]
      <4>1. i <= p[m] /\ p[m] <= i
        BY <2>5, <2>6, <3>2
      <4>2. i \in Nat /\ p[m] \in Nat
        BY <2>5, <3>1
      <4> QED BY <4>1, <4>2
    <3> QED BY <2>5, <2>6, <3>2 DEF Candidate, Smallest
  <2>8. v[m] = [matched |-> Before(n) \cup {p[m]}, ok |-> TRUE]
    <3>1. same # {}
      BY <2>5
    <3>2. v[m] = [matched |-> v[n].matched \cup {Candidate(same)},
                  ok |-> v[n].ok /\ b[m].to = Candidate(same)]
      BY <2>2, <2>4, <3>1 DEF MatchTransfer, MatchSeen, RecipientMatches
    <3> HIDE DEF same, Before
    <3> QED BY <2>3, <2>4, <2>7, <3>2
  <2>9. Before(m) = Before(n) \cup {p[m]}
    <3>1. \A i : i \in 1 .. m <=> i \in 1 .. n \/ i = m
      BY <2>1
    <3> HIDE DEF m
    <3> QED BY <3>1
  <2> QED BY <2>8, <2>9
<1> DEFINE M == {n \in Nat : n <= N => v[n] = After(n)}
<1>7. \A n \in Nat : n \in M
  <2> HIDE DEF After
  <2>1. M \in SUBSET Nat /\ 0 \in M
    BY <1>5
  <2>2. \A n \in M : n + 1 \in M
    BY <1>6
  <2> HIDE DEF M
  <2> QED BY <2>1, <2>2, NatSetInduction
<1>8. v[N] = After(N)
  <2> HIDE DEF After
  <2> QED BY <1>7
<1>9. v[N].ok /\ v[N].matched = S
  BY <1>8
<1> QED BY <1>4, <1>9 DEF Matches, b

\* What chunks hold: a part of the sequence each, in its order and at its place,
\* and all of it between them.
ChunkOf(c, s, n, start, size) ==
  \E m \in Nat :
    /\ DOMAIN c = 1 .. m /\ m <= size
    /\ \A i \in 1 .. m : start + i \in 1 .. n /\ c[i] = s[start + i]

ChunksOf(chunks, s, n, size) ==
  /\ \A k \in DOMAIN chunks : /\ k \in Nat \ {0} /\ (k - 1) * size \in Nat
                               /\ ChunkOf(chunks[k], s, n, (k - 1) * size, size)
  /\ \A j \in 1 .. n : \E k \in DOMAIN chunks : \E i \in DOMAIN chunks[k] : chunks[k][i] = s[j]

LEMMA ChunksHold ==
  ASSUME NEW S, NEW n \in Nat, NEW s \in [1 .. n -> S], NEW size \in Nat \ {0},
         NEW chunks, chunks = Chunks(s, size)
  PROVE  ChunksOf(chunks, s, n, size)
<1> DEFINE count == (n + size - 1) \div size
           end(k) == IF k * size < n THEN k * size ELSE n
<1>1. s \in Seq(S) /\ Len(s) = n
  OBVIOUS
<1>2. chunks = [k \in 1 .. count |-> SubSeq(s, (k - 1) * size + 1, end(k))]
  BY <1>1 DEF Chunks
<1>3. ASSUME NEW start \in Nat, NEW e \in Nat, e <= n
      PROVE  /\ DOMAIN SubSeq(s, start + 1, e) = 1 .. (e - start)
             /\ \A i \in 1 .. (e - start) : /\ start + i \in 1 .. n
                                            /\ SubSeq(s, start + 1, e)[i] = s[start + i]
  <2>1. \A i \in (start + 1) .. e : s[i] \in S
    BY <1>3
  <2>2. start + 1 \in Int /\ e \in Int
    BY <1>3
  <2> DEFINE q == SubSeq(s, start + 1, e)
  <2>3. /\ q \in Seq(S) /\ Len(q) = (IF start + 1 <= e THEN e - start ELSE 0)
        /\ \A i \in 1 .. (e - start) : q[i] = s[(start + 1) + i - 1]
    BY <2>1, <2>2
  <2> HIDE DEF q
  <2>4. DOMAIN q = 1 .. (e - start)
    BY <1>3, <2>3
  <2>5. \A i \in 1 .. (e - start) : (start + 1) + i - 1 = start + i /\ start + i \in 1 .. n
    BY <1>3
  <2>6. \A i \in 1 .. (e - start) : q[i] = s[start + i]
    BY <2>3, <2>5
  <2> QED BY <2>4, <2>5, <2>6 DEF q
<1>4. ASSUME NEW k \in Nat \ {0}
      PROVE  /\ (k - 1) * size \in Nat /\ end(k) \in Nat /\ end(k) <= n
             /\ k * size \in Nat /\ k * size = (k - 1) * size + size
  <2> DEFINE before == k - 1
  <2>1. before \in Nat /\ k = before + 1
    OBVIOUS
  <2> HIDE DEF before
  <2>2. before * size \in Nat /\ (before + 1) * size = before * size + size
    BY <2>1, SMT
  <2>3. (before + 1) * size \in Nat
    BY <2>2
  <2>4. k * size \in Nat
    BY <2>1, <2>3
  <2> QED BY <2>1, <2>2, <2>4 DEF before
<1>5. ASSUME NEW k \in DOMAIN chunks
      PROVE  /\ k \in Nat \ {0} /\ (k - 1) * size \in Nat
             /\ ChunkOf(chunks[k], s, n, (k - 1) * size, size)
  <2>1. k \in 1 .. count
    BY <1>2
  <2>2. k \in Nat \ {0}
    BY <2>1
  <2>3. chunks[k] = SubSeq(s, (k - 1) * size + 1, end(k))
    BY <1>2, <2>1
  <2> DEFINE start == (k - 1) * size
             e == end(k)
             m == IF start <= e THEN e - start ELSE 0
  <2>4. start \in Nat /\ e \in Nat /\ e <= n /\ e <= start + size
    BY <1>4, <2>2
  <2>5. chunks[k] = SubSeq(s, start + 1, e)
    BY <2>3
  <2> HIDE DEF start, e, end, count
  <2>6. /\ DOMAIN chunks[k] = 1 .. (e - start)
        /\ \A i \in 1 .. (e - start) : start + i \in 1 .. n /\ chunks[k][i] = s[start + i]
    BY <1>3, <2>4, <2>5
  <2>7. m \in Nat /\ 1 .. m = 1 .. (e - start) /\ m <= size
    BY <2>4
  <2> HIDE DEF m
  <2>8. ChunkOf(chunks[k], s, n, start, size)
    BY <2>4, <2>6, <2>7 DEF ChunkOf
  <2> QED BY <2>2, <2>4, <2>8 DEF start
<1>6. ASSUME NEW j \in 1 .. n
      PROVE  \E k \in DOMAIN chunks : \E i \in DOMAIN chunks[k] : chunks[k][i] = s[j]
  <2> DEFINE T == {k \in Nat : j <= k * size}
  <2>1. T \in SUBSET Nat /\ T # {}
    <3>1. j \in Nat /\ j <= j * size
      BY SMT
    <3> QED BY <3>1
  <2>2. PICK k \in T : \A l \in T : k <= l
    BY <2>1, LeastNat
  <2>3. k \in Nat \ {0} /\ j <= k * size
    <3>1. k \in Nat /\ j <= k * size
      BY <2>2
    <3>2. 0 * size = 0
      BY SMT
    <3> QED BY <3>1, <3>2
  <2> DEFINE start == (k - 1) * size
             e == end(k)
  <2>4. k - 1 \in Nat /\ start \in Nat /\ e \in Nat /\ e <= n
        /\ k * size \in Nat /\ k * size = start + size
    BY <1>4, <2>3
  <2>5. start < j
    <3>1. k - 1 \notin T
      BY <2>2, <2>4
    <3> QED BY <2>4, <3>1
  <2>6. j <= e
    BY <2>3, <2>4
  <2>7. k \in 1 .. count
    <3> DEFINE t == n + size - 1
    <3>1. t \in Nat /\ k * size <= t
      BY <2>4, <2>5
    <3>2. count = t \div size
      OBVIOUS
    <3> HIDE DEF t
    <3>3. k <= t \div size
      BY <2>3, <3>1, SMT
    <3>4. t \div size \in Int
      BY <3>1, SMT
    <3> HIDE DEF count
    <3> QED BY <2>3, <3>2, <3>3, <3>4
  <2>8. chunks[k] = SubSeq(s, start + 1, e) /\ k \in DOMAIN chunks
    BY <1>2, <2>7
  <2> HIDE DEF start, e, end, count, T
  <2>9. start \in Nat /\ e \in Nat /\ e <= n
    BY <2>4
  <2>10. /\ DOMAIN chunks[k] = 1 .. (e - start)
        /\ \A i \in 1 .. (e - start) : start + i \in 1 .. n /\ chunks[k][i] = s[start + i]
    BY <1>3, <2>8, <2>9
  <2> DEFINE at == j - start
  <2>11. at \in 1 .. (e - start) /\ start + at = j
    BY <2>4, <2>5, <2>6
  <2> HIDE DEF at
  <2> QED BY <2>8, <2>10, <2>11
<1> QED BY <1>5, <1>6 DEF ChunksOf

\* Chunks of a sequence without repetitions have nothing in common.
Distinct(s, n) == \A i, j \in 1 .. n : i # j => s[i] # s[j]

LEMMA ChunksApart ==
  ASSUME NEW n \in Nat, NEW s, Distinct(s, n),
         NEW size \in Nat \ {0}, NEW chunks, ChunksOf(chunks, s, n, size),
         NEW k \in DOMAIN chunks, NEW l \in DOMAIN chunks, k < l,
         NEW i \in DOMAIN chunks[k], NEW j \in DOMAIN chunks[l]
  PROVE  chunks[k][i] # chunks[l][j]
<1> DEFINE start == (k - 1) * size
           next == (l - 1) * size
<1>1. /\ start \in Nat /\ next \in Nat /\ k \in Nat \ {0} /\ l \in Nat \ {0}
      /\ ChunkOf(chunks[k], s, n, start, size) /\ ChunkOf(chunks[l], s, n, next, size)
  BY DEF ChunksOf
<1>2. start + size <= next
  <2> DEFINE a == k - 1
             d == l - 1
  <2>1. a \in Nat /\ d \in Nat /\ a + 1 <= d
    BY <1>1
  <2> HIDE DEF a, d
  <2>2. (a + 1) * size <= d * size /\ (a + 1) * size = a * size + size
    BY <2>1, SMT
  <2>3. a * size \in Nat /\ d * size \in Nat
    BY <2>1, SMT
  <2> QED BY <2>2, <2>3 DEF a, d
<1> HIDE DEF start, next
<1>3. /\ i \in Nat /\ i <= size /\ start + i \in 1 .. n /\ chunks[k][i] = s[start + i]
      /\ j \in Nat /\ 1 <= j /\ next + j \in 1 .. n /\ chunks[l][j] = s[next + j]
  BY <1>1 DEF ChunkOf
<1>4. start + i # next + j
  BY <1>1, <1>2, <1>3
<1> QED BY <1>3, <1>4 DEF Distinct

\* What was planned is chunks of the items, and of the items in their order if
\* it was planned from the store; what a signer of the code has signed is what
\* was planned.
SignedAsPlanned ==
  /\ plan # <<>> =>
       \E order \in SetToSeqs(Items), size \in Nat \ {0} : plan = Chunks(order, size)
  /\ planned = "store" =>
       \E size \in Nat \ {0} : plan = Chunks(Stored, size)
  /\ signed \in {"local", "remote"} =>
       \A k \in DOMAIN plan : MatchesPlan(bytes[k], plan[k])

LEMMA SignedAsPlannedHolds ==
  TransfersSpec => []SignedAsPlanned
<1>1. TransfersInit => SignedAsPlanned
  BY DEF TransfersInit, SignedAsPlanned
<1>2. PInv /\ SignedAsPlanned /\ [TransfersNext]_(transfersVars) => SignedAsPlanned'
  <2> SUFFICES ASSUME PInv, SignedAsPlanned, [TransfersNext]_(transfersVars)
               PROVE  SignedAsPlanned'
    OBVIOUS
  <2>1. InOrder
    BY DEF PInv
  <2>2. ASSUME UNCHANGED <<itemAmount, plan, planned, bytes>>,
               signed' \in {"local", "remote"} => signed' = signed
        PROVE  SignedAsPlanned'
    <3>1. ASSUME NEW b, NEW p PROVE MatchesPlan(b, p)' = MatchesPlan(b, p)
      BY <2>2 DEF MatchesPlan, Instructions, TransferOf
    <3> QED BY <2>2, <3>1 DEF SignedAsPlanned
  <2>3. ASSUME NEW order \in SetToSeqs(Items), NEW size \in Sizes,
               CreateTransactionPlan(order, size)
        PROVE  SignedAsPlanned'
    <3>1. signed' = "no"
      BY <2>1, <2>3 DEF CreateTransactionPlan, InOrder
    <3>2. plan' = Chunks(order, size) /\ (planned' = "store" => plan' = Chunks(Stored, size))
      BY <2>3 DEF CreateTransactionPlan
    <3>3. size \in Nat \ {0}
      BY TransfersAssumption
    <3> QED BY <3>1, <3>2, <3>3 DEF SignedAsPlanned
  <2>4. ASSUME NEW k, NEW b, Serialize(k, b) PROVE SignedAsPlanned'
    <3>1. signed' = "no" /\ UNCHANGED <<plan, planned>>
      BY <2>1, <2>4 DEF Serialize, InOrder
    <3> QED BY <3>1 DEF SignedAsPlanned
  <2>5. ASSUME NEW who \in {"local", "remote"}, Sign(who) PROVE SignedAsPlanned'
    <3>1. /\ \A k \in DOMAIN plan : MatchesPlan(bytes[k], plan[k])
          /\ UNCHANGED <<itemAmount, plan, planned, bytes>>
      BY <2>5 DEF Sign
    <3>2. ASSUME NEW b, NEW p PROVE MatchesPlan(b, p)' = MatchesPlan(b, p)
      BY <3>1 DEF MatchesPlan, Instructions, TransferOf
    <3>3. \A k \in DOMAIN plan' : MatchesPlan(bytes[k], plan[k])'
      BY <3>1, <3>2
    <3> QED BY <3>1, <3>3 DEF SignedAsPlanned
  <2>6. ASSUME SignElsewhere PROVE SignedAsPlanned'
    BY <2>2, <2>6 DEF SignElsewhere
  <2>7. ASSUME NEW m, SaveSigned(m) PROVE SignedAsPlanned'
    BY <2>2, <2>7 DEF SaveSigned
  <2>8. ASSUME NEW k, Land(k) PROVE SignedAsPlanned'
    BY <2>2, <2>8 DEF Land
  <2>9. ASSUME Close PROVE SignedAsPlanned'
    BY <2>2, <2>9 DEF Close
  <2>10. CASE UNCHANGED transfersVars
    BY <2>2, <2>10 DEF transfersVars
  <2> QED BY <2>3, <2>4, <2>5, <2>6, <2>7, <2>8, <2>9, <2>10 DEF TransfersNext
<1>3. TransfersSpec => []PInv
  BY PInvHolds
<1> QED BY <1>1, <1>2, <1>3, PTL DEF TransfersSpec

\* The transfers of bytes that a signer of the code has signed go to the wallets
\* of the items planned, in their order, and all of them are seen.
LEMMA SignedBytes ==
  ASSUME PInv, SignedAsPlanned, signed \in {"local", "remote"}, NEW k \in DOMAIN plan
  PROVE  \E N \in Nat :
           /\ plan[k] \in [1 .. N -> Items] /\ bytes[k] \in [1 .. N -> Transfers]
           /\ \A n \in 1 .. N : bytes[k][n].to = plan[k][n] /\ bytes[k][n].seen
<1> DEFINE p == plan[k]
           b == bytes[k]
           N == Len(p)
<1>1. p \in Seq(Items) /\ b \in Seq(Transfers)
  <2>1. DOMAIN bytes = DOMAIN plan
    BY DEF PInv, InOrder
  <2> QED BY <2>1, SequenceMade DEF PInv, TransfersTypeOK
<1>2. MatchesPlan(b, p)
  BY DEF SignedAsPlanned
<1> HIDE DEF p, b
<1>3. N \in Nat /\ DOMAIN p = 1 .. N /\ p \in [1 .. N -> Items]
  BY <1>1, SequenceMade
<1>4. DOMAIN b = 1 .. N /\ b \in [1 .. N -> Transfers]
  <2>1. DOMAIN b = 1 .. Len(b) /\ b \in [1 .. Len(b) -> Transfers]
    BY <1>1, SequenceMade
  <2> QED BY <1>2, <2>1 DEF MatchesPlan
<1>5. \A n \in 1 .. N : b[n].to = p[n] /\ b[n].seen
  BY <1>2, <1>3, <1>4 DEF MatchesPlan, Instructions, TransferOf
<1> QED BY <1>3, <1>4, <1>5 DEF p, b

\* What the code's own signers have signed has paid each wallet its amount once the
\* ledger is closed: no item is planned twice, each transaction is mapped to the
\* items it was planned for, or it would not have been found to match them, and so
\* each item is paid by the one transaction that it was planned for.
LEMMA SignedPaysOnce ==
  ASSUME PInv, SignedAsPlanned, closedWith # {}, signed \in {"local", "remote"}
  PROVE  /\ \A i \in Items : Received(i) = itemAmount[i]
         /\ Received(Stranger) = 0
<1>1. /\ closedWith \subseteq landed /\ landed \subseteq DOMAIN saved
      /\ DOMAIN saved \subseteq DOMAIN plan
      /\ UNION {saved[k] : k \in closedWith} = Items
  BY DEF PInv, TransfersTypeOK, ClosedSound
<1>2. IsFiniteSet(landed)
  <2>1. Len(plan) \in Nat /\ DOMAIN plan = 1 .. Len(plan)
    BY SequenceMade DEF PInv, TransfersTypeOK
  <2>2. 1 \in Int /\ Len(plan) \in Int
    BY <2>1
  <2>3. IsFiniteSet(DOMAIN plan)
    BY <2>1, <2>2, FS_Interval
  <2>4. landed \subseteq DOMAIN plan
    BY <1>1
  <2> QED BY <2>3, <2>4, FS_Subset
<1>3. itemAmount \in [Items -> Amounts] /\ \A i \in Items : itemAmount[i] \in Int
  <2>1. \A a \in Amounts : a \in Int
    BY TransfersAssumption
  <2> QED BY <2>1 DEF PInv, TransfersTypeOK
<1>4. ASSUME NEW k \in closedWith PROVE saved[k] = {plan[k][n] : n \in DOMAIN plan[k]}
  <2> DEFINE b == bytes[k]
             p == plan[k]
             S == saved[k]
  <2>1. PICK N \in Nat : /\ p \in [1 .. N -> Items] /\ b \in [1 .. N -> Transfers]
                         /\ \A n \in 1 .. N : b[n].to = p[n] /\ b[n].seen
    BY <1>1, SignedBytes
  <2>2. S \in SUBSET Items /\ TransfersMatch(b, S)
    BY <1>1, SavedShape DEF PInv, ClosedSound
  <2> HIDE DEF b, p, S
  <2>3. S = {b[n].to : n \in 1 .. N}
    BY <2>1, <2>2, MatchedAreRecipients
  <2>4. DOMAIN p = 1 .. N
    BY <2>1
  <2>5. S = {p[n] : n \in DOMAIN p}
    BY <2>1, <2>3, <2>4
  <2> QED BY <2>5 DEF p, S
<1>5. ASSUME NEW k \in DOMAIN plan, NEW l \in DOMAIN plan, k # l,
             NEW i \in DOMAIN plan[k], NEW j \in DOMAIN plan[l]
      PROVE  plan[k][i] # plan[l][j]
  <2>1. plan # <<>>
    OBVIOUS
  <2>2. PICK order \in SetToSeqs(Items), size \in Nat \ {0} : plan = Chunks(order, size)
    BY <2>1 DEF SignedAsPlanned
  <2> DEFINE n == Cardinality(Items)
  <2>3. n \in Nat /\ order \in [1 .. n -> Items]
        /\ \A x, y \in 1 .. n : x # y => order[x] # order[y]
    BY TransfersAssumption, FS_CardinalityType DEF SetToSeqs
  <2> HIDE DEF n
  <2>4. ChunksOf(plan, order, n, size)
    BY <2>2, <2>3, ChunksHold
  <2>5. k < l \/ l < k
    <3>1. k \in Nat /\ l \in Nat
      BY <2>4 DEF ChunksOf
    <3> QED BY <1>5, <3>1
  <2>6. Distinct(order, n)
    BY <2>3 DEF Distinct
  <2> DEFINE chunks == plan
  <2> HIDE DEF chunks
  <2>7. CASE k < l
    <3>1. k \in DOMAIN chunks /\ l \in DOMAIN chunks /\ ChunksOf(chunks, order, n, size)
          /\ i \in DOMAIN chunks[k] /\ j \in DOMAIN chunks[l]
      BY <2>4 DEF chunks
    <3>2. chunks[k][i] # chunks[l][j]
      BY <2>3, <2>6, <2>7, <3>1, ChunksApart
    <3> QED BY <3>2 DEF chunks
  <2>8. CASE l < k
    <3>1. k \in DOMAIN chunks /\ l \in DOMAIN chunks /\ ChunksOf(chunks, order, n, size)
          /\ i \in DOMAIN chunks[k] /\ j \in DOMAIN chunks[l]
      BY <2>4 DEF chunks
    <3>2. chunks[l][j] # chunks[k][i]
      BY <2>3, <2>6, <2>8, <3>1, ChunksApart
    <3> QED BY <3>2 DEF chunks
  <2> QED BY <2>5, <2>7, <2>8
<1> DEFINE given(w) == [k \in landed |-> Given(bytes[k], w, BOOLEAN)]
<1>6. ASSUME NEW k \in landed, NEW w \in Items \cup {Stranger}
      PROVE  given(w)[k] = IF k \in closedWith /\ w \in saved[k] THEN itemAmount[w] ELSE 0
  <2> DEFINE b == bytes[k]
             p == plan[k]
             kinds == BOOLEAN
  <2>1. PICK N \in Nat : /\ p \in [1 .. N -> Items] /\ b \in [1 .. N -> Transfers]
                         /\ \A n \in 1 .. N : b[n].to = p[n] /\ b[n].seen
    BY <1>1, SignedBytes
  <2>2. CASE k \in closedWith
    <3> DEFINE S == saved[k]
    <3>1. S \in SUBSET Items /\ TransfersMatch(b, S)
      BY <1>1, <2>2, SavedShape DEF PInv, ClosedSound
    <3>2. Counted(b, N, kinds)
      BY <2>1 DEF Counted
    <3> HIDE DEF b, S, kinds
    <3>3. Given(b, w, kinds) = IF w \in S THEN itemAmount[w] ELSE 0
      BY <1>3, <2>1, <3>1, <3>2, MatchedIsPaid
    <3> QED BY <2>2, <3>3 DEF b, S, kinds
  <2>3. CASE k \notin closedWith
    <3>1. ASSUME NEW n \in 1 .. N, b[n].to = w PROVE FALSE
      <4>1. p[n] = w /\ w \in Items /\ n \in DOMAIN plan[k]
        BY <2>1, <3>1
      <4>2. PICK l \in closedWith : w \in saved[l]
        BY <1>1, <4>1
      <4>3. PICK j \in DOMAIN plan[l] : w = plan[l][j]
        BY <1>4, <4>2
      <4>4. k # l /\ k \in DOMAIN plan /\ l \in DOMAIN plan
        BY <1>1, <2>3
      <4> QED BY <1>5, <4>1, <4>3, <4>4
    <3> HIDE DEF b, kinds
    <3>2. Given(b, w, kinds) = 0
      BY <2>1, <3>1, NothingGiven
    <3> QED BY <2>3, <3>2 DEF b, kinds
  <2> QED BY <2>2, <2>3
<1>7. \A w : Received(w) = SumFunction(given(w))
  BY DEF Received
<1>8. ASSUME NEW i \in Items PROVE Received(i) = itemAmount[i]
  <2> DEFINE g == given(i)
  <2>1. PICK k \in closedWith : i \in saved[k]
    BY <1>1
  <2>2. ASSUME NEW l \in landed \ {k} PROVE ~ (l \in closedWith /\ i \in saved[l])
    <3> SUFFICES ASSUME l \in closedWith, i \in saved[l] PROVE FALSE
      OBVIOUS
    <3>1. PICK m \in DOMAIN plan[k], n \in DOMAIN plan[l] : i = plan[k][m] /\ i = plan[l][n]
      BY <1>4, <2>1
    <3> QED BY <1>1, <1>5, <3>1
  <2>3. k \in landed
    BY <1>1
  <2>4. g[k] = itemAmount[i] /\ \A l \in landed \ {k} : g[l] = 0
    BY <1>6, <2>1, <2>2, <2>3
  <2>5. g \in [landed -> Int]
    <3>1. DOMAIN g = landed /\ \A l \in landed : g[l] \in Int
      BY <1>3, <2>4
    <3>2. g = [l \in landed |-> g[l]]
      OBVIOUS
    <3> HIDE DEF g
    <3> QED BY <3>1, <3>2
  <2> HIDE DEF g
  <2> DEFINE rest == Restrict(g, landed \ {k})
  <2>6. SumFunction(g) = g[k] + SumFunction(rest)
    BY <1>2, <2>3, <2>5, SumRemove
  <2>7. SumFunction(rest) = 0
    <3>1. rest = [l \in landed \ {k} |-> 0]
      BY <2>4 DEF Restrict
    <3> QED BY <1>2, <3>1, SumOfZeros, FS_Subset
  <2>8. SumFunction(g) = itemAmount[i]
    BY <1>3, <2>4, <2>6, <2>7
  <2> QED BY <1>7, <2>8 DEF g
<1>9. Received(Stranger) = 0
  <2>1. \A k \in closedWith : Stranger \notin saved[k]
    BY <1>1, TransfersAssumption
  <2>2. given(Stranger) = [k \in landed |-> 0]
    <3>1. \A k \in landed : given(Stranger)[k] = 0
      BY <1>6, <2>1
    <3> QED BY <3>1
  <2> HIDE DEF given
  <2>3. SumFunction(given(Stranger)) = 0
    BY <1>2, <2>2, SumOfZeros
  <2> QED BY <1>7, <2>3
<1> QED BY <1>8, <1>9

\* ClosedIsPaid: what verifyFinalizedPayoutTransfersForTransaction lets through has
\* paid the items a transaction is mapped to, as far as it sees, and all of a
\* batch exactly once if the code's own signers have signed it, in however many
\* calls and with whatever mapping it was saved.
THEOREM ClosedBatchesArePaid ==
  TransfersSpec => []ClosedIsPaid
<1>1. TransfersSpec => []PInv
  BY PInvHolds
<1>2. TransfersSpec => []SignedAsPlanned
  BY SignedAsPlannedHolds
<1>3. PInv /\ SignedAsPlanned => ClosedIsPaid
  <2> SUFFICES ASSUME PInv, SignedAsPlanned, closedWith # {} PROVE ClosedIsPaid
    BY DEF ClosedIsPaid
  <2>1. UNION {saved[k] : k \in closedWith} = Items
    BY DEF PInv, ClosedSound
  <2>2. \A k \in closedWith, w \in Items \cup {Stranger} :
          SeenGiven(bytes[k], w) = IF w \in saved[k] THEN itemAmount[w] ELSE 0
    BY ClosedIsSeen
  <2>3. signed \in {"local", "remote"} =>
          /\ \A i \in Items : Received(i) = itemAmount[i]
          /\ Received(Stranger) = 0
    BY SignedPaysOnce
  <2> QED BY <2>1, <2>2, <2>3 DEF ClosedIsPaid
<1> QED BY <1>1, <1>2, <1>3, PTL

\* What a signer of the code has signed, of a plan made from the store and saved
\* with the items it was planned for, is verified once it has landed, although
\* items of equal amounts are told apart by their order alone: a plan made from
\* the store has them in that order, and so has each of its transactions.
THEOREM SignedPlansAreVerified ==
  TransfersSpec => []SignedIsVerified
<1>1. PInv /\ SignedAsPlanned => SignedIsVerified
  <2> SUFFICES ASSUME PInv, SignedAsPlanned,
                      signed \in {"local", "remote"}, planned = "store",
                      DOMAIN saved = DOMAIN plan,
                      \A k \in DOMAIN saved : saved[k] = ToSet(plan[k]),
                      landed = DOMAIN saved, saved # <<>>
               PROVE  Verified
    BY DEF SignedIsVerified
  <2> DEFINE s == Stored
  <2>1. PICK n \in Nat : /\ s \in [1 .. n -> Items] /\ Increasing(s, n)
                         /\ \A x \in Items : \E j \in 1 .. n : s[j] = x
    BY StoredIsListing
  <2> HIDE DEF s
  <2>2. PICK size \in Nat \ {0} : plan = Chunks(s, size)
    BY DEF SignedAsPlanned, s
  <2>3. ChunksOf(plan, s, n, size)
    BY <2>1, <2>2, ChunksHold
  <2>4. itemAmount \in [Items -> Amounts]
    BY DEF PInv, TransfersTypeOK
  <2>5. ASSUME NEW k \in DOMAIN plan
        PROVE  /\ \A i \in DOMAIN plan[k] : plan[k][i] \in Items
               /\ TransfersMatch(bytes[k], saved[k])
    <3> DEFINE p == plan[k]
               b == bytes[k]
    <3> DEFINE start == (k - 1) * size
    <3>1. start \in Nat /\ \E m \in Nat :
            /\ DOMAIN p = 1 .. m
            /\ \A i \in 1 .. m : start + i \in 1 .. n /\ p[i] = s[start + i]
      BY <2>3 DEF ChunksOf, ChunkOf
    <3> PICK m \in Nat :
          /\ DOMAIN p = 1 .. m
          /\ \A i \in 1 .. m : start + i \in 1 .. n /\ p[i] = s[start + i]
      BY <3>1
    <3> HIDE DEF start
    <3>2. p \in Seq(Items) /\ b \in Seq(Transfers)
      <4>1. DOMAIN bytes = DOMAIN plan
        BY DEF PInv, InOrder
      <4> QED BY <4>1, SequenceMade DEF PInv, TransfersTypeOK
    <3>3. MatchesPlan(b, p)
      BY DEF SignedAsPlanned
    <3>4. saved[k] = ToSet(p)
      OBVIOUS
    <3> HIDE DEF p, b
    <3>5. p \in [1 .. m -> Items] /\ Len(p) = m
      <4>1. Len(p) \in Nat /\ DOMAIN p = 1 .. Len(p) /\ p \in [1 .. Len(p) -> Items]
        BY <3>2, SequenceMade
      <4>2. Len(p) = m
        BY <3>1, <4>1
      <4> QED BY <4>1, <4>2
    <3>6. Increasing(p, m)
      <4> SUFFICES ASSUME NEW i \in 1 .. m, NEW j \in 1 .. m, i < j PROVE p[i] < p[j]
        BY DEF Increasing
      <4>1. start + i \in 1 .. n /\ start + j \in 1 .. n /\ start + i < start + j
        BY <3>1
      <4>2. p[i] = s[start + i] /\ p[j] = s[start + j]
        BY <3>1
      <4> QED BY <2>1, <4>1, <4>2 DEF Increasing
    <3>7. b = Instructions(p)
      <4>1. DOMAIN b = 1 .. Len(b) /\ b = [i \in DOMAIN b |-> b[i]]
        BY <3>2, SequenceMade
      <4>2. Len(b) = m /\ \A i \in DOMAIN b : b[i] = Instructions(p)[i]
        BY <3>3, <3>5 DEF MatchesPlan
      <4>3. DOMAIN b = DOMAIN p
        BY <3>1, <4>1, <4>2
      <4> QED BY <4>1, <4>2, <4>3 DEF Instructions
    <3>8. ToSet(p) = {p[i] : i \in 1 .. m}
      BY <3>1 DEF ToSet
    <3>9. TransfersMatch(b, saved[k])
      <4>1. TransfersMatch(Instructions(p), {p[i] : i \in 1 .. m})
        BY <2>4, <3>5, <3>6, ListingMatches
      <4> QED BY <3>4, <3>7, <3>8, <4>1
    <3>10. \A i \in DOMAIN p : p[i] \in Items
      BY <3>1, <3>5
    <3> QED BY <3>9, <3>10 DEF p, b
  <2>6. UNION {saved[k] : k \in landed} = Items
    <3>1. ASSUME NEW k \in landed PROVE saved[k] \subseteq Items
      BY DEF PInv, TransfersTypeOK
    <3>2. ASSUME NEW x \in Items PROVE \E k \in landed : x \in saved[k]
      <4>1. PICK j \in 1 .. n : s[j] = x
        BY <2>1
      <4>2. PICK k \in DOMAIN plan : \E i \in DOMAIN plan[k] : plan[k][i] = s[j]
        BY <2>3 DEF ChunksOf
      <4> QED BY <4>1, <4>2 DEF ToSet
    <3> QED BY <3>1, <3>2
  <2> QED BY <2>5, <2>6 DEF Verified, Finalized
<1>2. TransfersSpec => []PInv
  BY PInvHolds
<1>3. TransfersSpec => []SignedAsPlanned
  BY SignedAsPlannedHolds
<1> QED BY <1>1, <1>2, <1>3, PTL
=============================================================================
