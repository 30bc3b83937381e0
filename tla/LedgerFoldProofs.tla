-------------------------- MODULE LedgerFoldProofs --------------------------
(***************************************************************************)
(* What is computed over the whole ledger.  Its money implements Supply,   *)
(* for every finite set of addresses and every fee, limit, amount and      *)
(* batch size; and the scan of the base's writers finds the validators,    *)
(* for every number of keys and every order of them.                       *)
(***************************************************************************)
EXTENDS LedgerSupply, WriterScan, LedgerProofs, FiniteSetTheorems

-----------------------------------------------------------------------------
(* Sums over finite sets.  The installed provers cannot instantiate the    *)
(* induction theorems of the library, whose parameter is an operator: a    *)
(* set of subsets takes its place.                                         *)

\* A property of subsets holds of all of them if it passes from the proper
\* subsets of a set to the set.
LEMMA InductionOnSubsets ==
  ASSUME NEW S, IsFiniteSet(S), NEW Q \in SUBSET SUBSET S,
         \A T \in SUBSET S : (\A U \in SUBSET T : U # T => U \in Q) => T \in Q
  PROVE  Q = SUBSET S
<1>. DEFINE B == (SUBSET S) \ Q
<1>. SUFFICES ASSUME B # {} PROVE FALSE
  OBVIOUS
<1>1. \E T \in B : \A U \in B : ~(<<U, T>> \in StrictSubsetOrdering(S))
  <2>1. IsWellFoundedOn(StrictSubsetOrdering(S), SUBSET S)
    <3>1. FiniteSubsetsOf(S) = SUBSET S
      BY FS_FiniteSubsetsOfFinite
    <3>2. IsWellFoundedOn(StrictSubsetOrdering(S), FiniteSubsetsOf(S))
      BY FS_StrictSubsetOrderingWellFounded
    <3>. QED
      BY <3>1, <3>2
  <2>2. B \subseteq SUBSET S
    OBVIOUS
  <2>. HIDE DEF B
  <2>. QED
    BY <2>1, <2>2, WFMin
<1>2. PICK T \in B : \A U \in B : ~(<<U, T>> \in StrictSubsetOrdering(S))
  BY <1>1
<1>3. T \in SUBSET S /\ T \notin Q
  BY <1>2
<1>4. ASSUME NEW U \in SUBSET T, U # T PROVE U \in Q
  <2>1. <<U, T>> \in StrictSubsetOrdering(S)
    BY <1>3, <1>4 DEF StrictSubsetOrdering
  <2>2. U \notin B /\ U \in SUBSET S
    BY <1>2, <1>3, <2>1
  <2>. QED
    BY <2>2
<1>. QED
  BY <1>3, <1>4

\* The element a fold takes from a set
Pick(s) == CHOOSE x \in s : TRUE

\* The element a fold takes is one of the set's.
LEMMA PickIn == ASSUME NEW s, s # {} PROVE Pick(s) \in s
  BY DEF Pick

\* g is the function a fold of + over S defines: the sums over all its subsets.
Sums(f, S, g) ==
  g = [s \in SUBSET S |-> IF s = {} THEN 0 ELSE f[Pick(s)] + g[s \ {Pick(s)}]]

\* Two such functions agree wherever both are defined.
LEMMA SumsUnique ==
  ASSUME NEW f, NEW S, IsFiniteSet(S), NEW A \in SUBSET S, NEW B \in SUBSET S,
         NEW g, NEW h, Sums(f, A, g), Sums(f, B, h)
  PROVE  \A s \in (SUBSET A) \cap (SUBSET B) : g[s] = h[s]
<1>. DEFINE Q == {s \in SUBSET S : s \subseteq A /\ s \subseteq B => g[s] = h[s]}
<1>1. ASSUME NEW T \in SUBSET S, \A U \in SUBSET T : U # T => U \in Q
      PROVE  T \in Q
  <2>. SUFFICES ASSUME T \subseteq A, T \subseteq B PROVE g[T] = h[T]
    OBVIOUS
  <2>1. CASE T = {}
    BY <2>1 DEF Sums
  <2>2. CASE T # {}
    <3>1. Pick(T) \in T
      BY <2>2, PickIn
    <3>2. T \ {Pick(T)} \in Q
      BY <1>1, <3>1
    <3>3. g[T \ {Pick(T)}] = h[T \ {Pick(T)}]
      BY <3>2
    <3>4. g[T] = f[Pick(T)] + g[T \ {Pick(T)}] /\ h[T] = f[Pick(T)] + h[T \ {Pick(T)}]
      BY <2>2 DEF Sums
    <3>. QED
      BY <3>3, <3>4
  <2>. QED
    BY <2>1, <2>2
<1>2. Q = SUBSET S
  <2>1. Q \in SUBSET SUBSET S
    OBVIOUS
  <2>. HIDE DEF Q
  <2>. QED
    BY <1>1, <2>1, InductionOnSubsets
<1>. QED
  BY <1>2

\* The sums over the subsets of a finite set exist.
LEMMA SumsExist ==
  ASSUME NEW f, NEW S, IsFiniteSet(S)
  PROVE  \E g : Sums(f, S, g)
<1>. DEFINE Q == {T \in SUBSET S : \E g : Sums(f, T, g)}
<1>1. ASSUME NEW T \in SUBSET S, \A U \in SUBSET T : U # T => U \in Q
      PROVE  T \in Q
  <2>. DEFINE upto(U) == CHOOSE g : Sums(f, U, g)
              rest(s) == s \ {Pick(s)}
              h == [s \in SUBSET T |->
                      IF s = {} THEN 0 ELSE f[Pick(s)] + upto(rest(s))[rest(s)]]
  <2>1. \A U \in SUBSET T : U # T => Sums(f, U, upto(U))
    BY <1>1
  <2>2. \A s \in SUBSET T : s # {} => rest(s) \in SUBSET T /\ rest(s) # T
    BY PickIn
  <2>. HIDE DEF upto
  <2>3. ASSUME NEW U \in SUBSET T, U # T PROVE h[U] = upto(U)[U]
    <3>1. Sums(f, U, upto(U))
      BY <2>1, <2>3
    <3>2. CASE U = {}
      BY <3>1, <3>2 DEF Sums
    <3>3. CASE U # {}
      <4>1. rest(U) \in SUBSET U /\ rest(U) \in SUBSET T /\ rest(U) # T
        BY <2>2, <3>3
      <4>2. Sums(f, rest(U), upto(rest(U)))
        BY <2>1, <4>1
      <4>3. upto(U)[rest(U)] = upto(rest(U))[rest(U)]
        <5>1. U \in SUBSET S /\ rest(U) \in SUBSET S
          BY <4>1
        <5>2. rest(U) \in (SUBSET U) \cap (SUBSET rest(U))
          BY <4>1
        <5>. HIDE DEF rest
        <5>. QED
          BY <3>1, <4>2, <5>1, <5>2, SumsUnique
      <4>4. upto(U)[U] = f[Pick(U)] + upto(U)[rest(U)]
        BY <3>1, <3>3 DEF Sums
      <4>. QED
        BY <3>3, <4>3, <4>4
    <3>. QED
      BY <3>2, <3>3
  <2>4. Sums(f, T, h)
    <3>1. ASSUME NEW s \in SUBSET T, s # {} PROVE h[s] = f[Pick(s)] + h[rest(s)]
      <4>1. h[rest(s)] = upto(rest(s))[rest(s)]
        BY <2>2, <2>3, <3>1
      <4>. QED
        BY <3>1, <4>1
    <3>2. h = [s \in SUBSET T |-> h[s]] /\ h[{}] = 0
      OBVIOUS
    <3>. HIDE DEF h
    <3>. QED
      BY <3>1, <3>2 DEF Sums
  <2>. QED
    BY <2>4
<1>2. Q = SUBSET S
  <2>1. Q \in SUBSET SUBSET S
    OBVIOUS
  <2>. HIDE DEF Q
  <2>. QED
    BY <1>1, <2>1, InductionOnSubsets
<1>. QED
  BY <1>2

\* The sum of f over a set, as the fold computes it
SumOver(f, S) == (CHOOSE g : Sums(f, S, g))[S]

\* The operator of the library is this sum.
LEMMA SumFunctionIsSumOver ==
  ASSUME NEW f
  PROVE  SumFunction(f) = SumOver(f, DOMAIN f)
  BY DEF SumFunction, SumFunctionOnSet, FoldFunctionOnSet, MapThenFoldSet,
     SumOver, Sums, Pick

\* What the fold does in one step.
LEMMA SumOverEquation ==
  ASSUME NEW f, NEW S, IsFiniteSet(S)
  PROVE  /\ SumOver(f, {}) = 0
         /\ S # {} => SumOver(f, S) = f[Pick(S)] + SumOver(f, S \ {Pick(S)})
<1>. DEFINE upto(U) == CHOOSE g : Sums(f, U, g)
<1>1. \A U \in SUBSET S : Sums(f, U, upto(U))
  BY FS_Subset, SumsExist
<1>2. SumOver(f, {}) = 0
  BY <1>1 DEF SumOver, Sums
<1>3. ASSUME S # {} PROVE SumOver(f, S) = f[Pick(S)] + SumOver(f, S \ {Pick(S)})
  <2>. DEFINE T == S \ {Pick(S)}
  <2>1. Sums(f, S, upto(S)) /\ Sums(f, T, upto(T))
    BY <1>1
  <2>2. upto(S)[T] = upto(T)[T]
    <3>1. T \in SUBSET S /\ S \in SUBSET S /\ T \in (SUBSET S) \cap (SUBSET T)
      OBVIOUS
    <3>. HIDE DEF T, upto
    <3>. QED
      BY <2>1, <3>1, SumsUnique
  <2>3. upto(S)[S] = f[Pick(S)] + upto(S)[T]
    BY <1>3, <2>1 DEF Sums
  <2>. QED
    BY <2>2, <2>3 DEF SumOver
<1>. QED
  BY <1>2, <1>3

\* A sum of naturals is a natural.
LEMMA SumOverNat ==
  ASSUME NEW S, IsFiniteSet(S), NEW f, \A x \in S : f[x] \in Nat
  PROVE  \A T \in SUBSET S : SumOver(f, T) \in Nat
<1>. DEFINE Q == {T \in SUBSET S : SumOver(f, T) \in Nat}
<1>1. ASSUME NEW T \in SUBSET S, \A U \in SUBSET T : U # T => U \in Q
      PROVE  T \in Q
  <2>1. IsFiniteSet(T)
    BY FS_Subset
  <2>2. CASE T = {}
    <3>1. SumOver(f, {}) = 0
      BY <2>1, SumOverEquation
    <3>. QED
      BY <2>2, <3>1
  <2>3. CASE T # {}
    <3>1. Pick(T) \in T /\ T \ {Pick(T)} \in Q
      BY <1>1, <2>3, PickIn
    <3>2. SumOver(f, T) = f[Pick(T)] + SumOver(f, T \ {Pick(T)})
      BY <2>1, <2>3, SumOverEquation
    <3>. QED
      BY <3>1, <3>2
  <2>. QED
    BY <2>2, <2>3
<1>2. Q = SUBSET S
  <2>1. Q \in SUBSET SUBSET S
    OBVIOUS
  <2>. HIDE DEF Q
  <2>. QED
    BY <1>1, <2>1, InductionOnSubsets
<1>. QED
  BY <1>2

\* The order does not matter: any element may be taken first.
LEMMA SumOverAny ==
  ASSUME NEW S, IsFiniteSet(S), NEW f, \A x \in S : f[x] \in Nat
  PROVE  \A x \in S : SumOver(f, S) = f[x] + SumOver(f, S \ {x})
<1>. DEFINE Q == {T \in SUBSET S :
                    \A x \in T : SumOver(f, T) = f[x] + SumOver(f, T \ {x})}
<1>1. ASSUME NEW T \in SUBSET S, \A U \in SUBSET T : U # T => U \in Q
      PROVE  T \in Q
  <2>. SUFFICES ASSUME NEW x \in T PROVE SumOver(f, T) = f[x] + SumOver(f, T \ {x})
    OBVIOUS
  <2>. DEFINE p == Pick(T)
  <2>1. p \in T /\ IsFiniteSet(T)
    BY PickIn, FS_Subset
  <2>2. SumOver(f, T) = f[p] + SumOver(f, T \ {p})
    BY <2>1, SumOverEquation
  <2>. HIDE DEF p
  <2>3. CASE x # p
    <3>1. T \ {p} \in Q /\ T \ {x} \in Q
      BY <1>1, <2>1
    <3>2. SumOver(f, T \ {p}) = f[x] + SumOver(f, (T \ {p}) \ {x})
      BY <2>1, <2>3, <3>1
    <3>3. SumOver(f, T \ {x}) = f[p] + SumOver(f, (T \ {x}) \ {p})
      BY <2>1, <2>3, <3>1
    <3>4. (T \ {p}) \ {x} = (T \ {x}) \ {p} /\ (T \ {x}) \ {p} \in SUBSET S
      OBVIOUS
    <3>5. f[p] \in Nat /\ f[x] \in Nat /\ SumOver(f, (T \ {x}) \ {p}) \in Nat
      BY <2>1, <3>4, SumOverNat
    <3>. QED
      BY <2>2, <3>2, <3>3, <3>4, <3>5
  <2>. QED
    BY <2>2, <2>3
<1>2. Q = SUBSET S
  <2>1. Q \in SUBSET SUBSET S
    OBVIOUS
  <2>. HIDE DEF Q
  <2>. QED
    BY <1>1, <2>1, InductionOnSubsets
<1>3. S \in Q
  <2>. HIDE DEF Q
  <2>. QED
    BY <1>2
<1>. QED
  BY <1>3

\* The sum depends on nothing but what is added.
LEMMA SumOverSame ==
  ASSUME NEW S, IsFiniteSet(S), NEW f, NEW g, \A x \in S : f[x] = g[x]
  PROVE  \A T \in SUBSET S : SumOver(f, T) = SumOver(g, T)
<1>. DEFINE Q == {T \in SUBSET S : SumOver(f, T) = SumOver(g, T)}
<1>1. ASSUME NEW T \in SUBSET S, \A U \in SUBSET T : U # T => U \in Q
      PROVE  T \in Q
  <2>1. IsFiniteSet(T)
    BY FS_Subset
  <2>2. CASE T = {}
    BY <2>1, <2>2, SumOverEquation
  <2>3. CASE T # {}
    <3>1. Pick(T) \in T /\ T \ {Pick(T)} \in Q
      BY <1>1, <2>3, PickIn
    <3>2. /\ SumOver(f, T) = f[Pick(T)] + SumOver(f, T \ {Pick(T)})
          /\ SumOver(g, T) = g[Pick(T)] + SumOver(g, T \ {Pick(T)})
      BY <2>1, <2>3, SumOverEquation
    <3>. QED
      BY <3>1, <3>2
  <2>. QED
    BY <2>2, <2>3
<1>2. Q = SUBSET S
  <2>1. Q \in SUBSET SUBSET S
    OBVIOUS
  <2>. HIDE DEF Q
  <2>. QED
    BY <1>1, <2>1, InductionOnSubsets
<1>. QED
  BY <1>2

-----------------------------------------------------------------------------
(* The money of a set of entries *)

\* What an entry holds, and what the entries of nd hold together
Worth(e) == e.balance + e.staked
Total(nd) == SumFunction(Holdings(nd))

\* The money of the refinement, before and after a step
LEMMA SupplyIsTotal == TotalSupply = Total(node) /\ TotalSupply' = Total(node')
  BY DEF TotalSupply, Total, Holdings

\* What an entry is worth is a number.
LEMMA WorthType ==
  ASSUME NEW e \in NodeEntry
  PROVE  e.balance \in Nat /\ e.staked \in Nat /\ Worth(e) \in Nat
  BY MoneyAssumption DEF NodeEntry, Worth

\* The total of typed entries is a natural: there is no way to add up a debt.
LEMMA TotalType ==
  ASSUME NEW nd \in [Address -> NodeEntry]
  PROVE  Total(nd) \in Nat
<1>. DEFINE f == Holdings(nd)
<1>1. DOMAIN f = Address /\ \A a \in Address : f[a] \in Nat
  BY WorthType DEF Holdings, Worth
<1>. HIDE DEF f
<1>2. SumOver(f, Address) \in Nat
  BY <1>1, FinitenessAssumption, SumOverNat
<1>3. SumFunction(f) = SumOver(f, Address)
  BY <1>1, SumFunctionIsSumOver
<1>. QED
  BY <1>2, <1>3 DEF Total, f

\* One entry taken out of the total
Others(nd, x) == SumOver(Holdings(nd), Address \ {x})

\* The total is what one address holds and what all the others hold.
LEMMA TotalSplit ==
  ASSUME NEW nd \in [Address -> NodeEntry], NEW x \in Address
  PROVE  Others(nd, x) \in Nat /\ Total(nd) = Worth(nd[x]) + Others(nd, x)
<1>. DEFINE f == Holdings(nd)
<1>1. DOMAIN f = Address /\ (\A a \in Address : f[a] \in Nat) /\ f[x] = Worth(nd[x])
  BY WorthType DEF Holdings, Worth
<1>. HIDE DEF f
<1>2. SumOver(f, Address \ {x}) \in Nat
  <2>1. Address \ {x} \in SUBSET Address
    OBVIOUS
  <2>. QED
    BY <1>1, <2>1, FinitenessAssumption, SumOverNat
<1>3. SumOver(f, Address) = f[x] + SumOver(f, Address \ {x})
  BY <1>1, FinitenessAssumption, SumOverAny
<1>4. SumFunction(f) = SumOver(f, Address)
  BY <1>1, SumFunctionIsSumOver
<1>. QED
  BY <1>1, <1>2, <1>3, <1>4 DEF Total, Others, f

\* Changing one entry changes the total by what it holds more or less.
LEMMA ChangeTotal ==
  ASSUME NEW nd \in [Address -> NodeEntry], NEW md \in [Address -> NodeEntry],
         NEW x \in Address, \A a \in Address \ {x} : md[a] = nd[a]
  PROVE  Total(md) = Total(nd) - Worth(nd[x]) + Worth(md[x])
<1>1. Others(md, x) = Others(nd, x)
  <2>1. \A a \in Address \ {x} : Holdings(md)[a] = Holdings(nd)[a]
    BY DEF Holdings
  <2>2. IsFiniteSet(Address \ {x})
    BY FinitenessAssumption, FS_RemoveElement
  <2>3. SumOver(Holdings(md), Address \ {x}) = SumOver(Holdings(nd), Address \ {x})
    BY <2>1, <2>2, SumOverSame
  <2>. QED
    BY <2>3 DEF Others
<1>2. Total(md) = Worth(md[x]) + Others(md, x)
  BY TotalSplit
<1>3. Total(nd) = Worth(nd[x]) + Others(nd, x) /\ Others(nd, x) \in Nat
  BY TotalSplit
<1>4. Worth(nd[x]) \in Nat /\ Worth(md[x]) \in Nat
  BY WorthType
<1>. QED
  BY <1>1, <1>2, <1>3, <1>4

\* Changing two entries, as a payment does
LEMMA ChangeTwoTotal ==
  ASSUME NEW nd \in [Address -> NodeEntry], NEW md \in [Address -> NodeEntry],
         NEW x \in Address, NEW y \in Address, x # y,
         \A a \in Address \ {x, y} : md[a] = nd[a]
  PROVE  Total(md) = Total(nd) - Worth(nd[x]) - Worth(nd[y]) + Worth(md[x]) + Worth(md[y])
<1>. DEFINE one == [nd EXCEPT ![x] = md[x]]
<1>1. /\ one \in [Address -> NodeEntry] /\ one[x] = md[x] /\ one[y] = nd[y]
      /\ \A a \in Address \ {x} : one[a] = nd[a]
      /\ \A a \in Address \ {y} : md[a] = one[a]
  OBVIOUS
<1>. HIDE DEF one
<1>2. Total(one) = Total(nd) - Worth(nd[x]) + Worth(md[x])
  BY <1>1, ChangeTotal
<1>3. Total(md) = Total(one) - Worth(nd[y]) + Worth(md[y])
  BY <1>1, ChangeTotal
<1>4. /\ Worth(nd[x]) \in Nat /\ Worth(nd[y]) \in Nat
      /\ Worth(md[x]) \in Nat /\ Worth(md[y]) \in Nat /\ Total(nd) \in Nat
  BY WorthType, TotalType
<1>. QED
  BY <1>2, <1>3, <1>4

\* Nobody holds more than there is.
LEMMA TotalAtLeast ==
  ASSUME NEW nd \in [Address -> NodeEntry], NEW x \in Address, NEW y \in Address, x # y
  PROVE  Total(nd) >= nd[x].balance + nd[y].balance
<1>. DEFINE md == [nd EXCEPT ![x] = NoEntry]
<1>1. /\ md \in [Address -> NodeEntry] /\ md[x] = NoEntry /\ md[y] = nd[y]
      /\ \A a \in Address \ {x} : md[a] = nd[a]
  BY NoEntryType
<1>2. Worth(NoEntry) = 0
  BY DEF Worth, NoEntry
<1>. HIDE DEF md
<1>3. Total(md) = Total(nd) - Worth(nd[x]) + Worth(NoEntry)
  BY <1>1, ChangeTotal
<1>4. Total(md) = Worth(nd[y]) + Others(md, y) /\ Others(md, y) \in Nat
  BY <1>1, TotalSplit
<1>5. /\ nd[x].balance \in Nat /\ nd[x].staked \in Nat
      /\ nd[y].balance \in Nat /\ nd[y].staked \in Nat /\ Total(nd) \in Nat
      /\ Worth(nd[x]) = nd[x].balance + nd[x].staked
      /\ Worth(nd[y]) = nd[y].balance + nd[y].staked
  BY WorthType, TotalType DEF Worth
<1>. QED
  BY <1>2, <1>3, <1>4, <1>5

\* A network without entries has no money.
LEMMA NothingTotal ==
  ASSUME NEW nd, nd \in [Address -> NodeEntry], \A a \in Address : nd[a] = NoEntry
  PROVE  Total(nd) = 0
<1>. DEFINE f == Holdings(nd)
            Q == {T \in SUBSET Address : SumOver(f, T) = 0}
<1>1. DOMAIN f = Address /\ \A a \in Address : f[a] = 0
  BY DEF Holdings, NoEntry
<1>. HIDE DEF f
<1>2. ASSUME NEW T \in SUBSET Address, \A U \in SUBSET T : U # T => U \in Q
      PROVE  T \in Q
  <2>1. IsFiniteSet(T)
    BY FinitenessAssumption, FS_Subset
  <2>2. CASE T = {}
    <3>1. SumOver(f, {}) = 0
      BY <2>1, SumOverEquation
    <3>. QED
      BY <2>2, <3>1
  <2>3. CASE T # {}
    <3>1. Pick(T) \in T /\ T \ {Pick(T)} \in Q
      BY <1>2, <2>3, PickIn
    <3>2. SumOver(f, T) = f[Pick(T)] + SumOver(f, T \ {Pick(T)})
      BY <2>1, <2>3, SumOverEquation
    <3>. QED
      BY <1>1, <3>1, <3>2
  <2>. QED
    BY <2>2, <2>3
<1>3. Q = SUBSET Address
  <2>1. Q \in SUBSET SUBSET Address
    OBVIOUS
  <2>. HIDE DEF Q
  <2>. QED
    BY <1>2, <2>1, FinitenessAssumption, InductionOnSubsets
<1>4. SumFunction(f) = SumOver(f, Address)
  BY <1>1, SumFunctionIsSumOver
<1>5. SumOver(f, Address) = 0
  BY <1>3
<1>. QED
  BY <1>4, <1>5 DEF Total, f

-----------------------------------------------------------------------------
(* What the operations on entries do to what an entry holds *)

\* A payment raises what the payee holds by as much.
LEMMA CreditWorth ==
  ASSUME NEW e \in NodeEntry, NEW x \in Nat
  PROVE  Worth(Credit(e, x)) = Worth(e) + x
<1>1. /\ Credit(e, x).balance = e.balance + x /\ Credit(e, x).staked = e.staked
  BY DEF Credit, NodeEntry
<1>. QED
  BY <1>1, WorthType DEF Worth

\* A charge lowers what the payer holds by as much.
LEMMA DebitWorth ==
  ASSUME NEW e \in NodeEntry, NEW x \in Nat
  PROVE  Worth(Debit(e, x)) = Worth(e) - x
<1>1. /\ Debit(e, x).balance = e.balance - x /\ Debit(e, x).staked = e.staked
  BY DEF Debit, NodeEntry
<1>. QED
  BY <1>1, WorthType DEF Worth

\* Staking moves money within an entry that had no stake.
LEMMA StakeWorth ==
  ASSUME NEW e \in NodeEntry, e.staked = 0
  PROVE  Worth(StakeBalance(e)) = Worth(e)
<1>1. /\ StakeBalance(e).balance = e.balance - Stake /\ StakeBalance(e).staked = Stake
  BY DEF StakeBalance, NodeEntry
<1>. QED
  BY <1>1, WorthType, StakeType DEF Worth

\* A withdrawn stake stays with its owner.
LEMMA WithdrawWorth ==
  ASSUME NEW e \in NodeEntry
  PROVE  Worth(WithdrawStake(e)) = Worth(e)
<1>1. /\ WithdrawStake(e).balance = e.balance + e.staked /\ WithdrawStake(e).staked = 0
  BY DEF WithdrawStake, NodeEntry
<1>. QED
  BY <1>1, WorthType DEF Worth

\* A penalty burns what it does not give back of the stake.
LEMMA PunishedWorth ==
  ASSUME NEW e \in NodeEntry, NEW n \in Nat
  PROVE  Worth(Punished(e, n)) = Worth(e) - (e.staked - LeftOfStake(e, n))
<1>1. /\ Punished(e, n).balance = e.balance + LeftOfStake(e, n)
      /\ Punished(e, n).staked = 0
  BY DEF Punished, NodeEntry
<1>. QED
  BY <1>1, WorthType, LeftOfStakeType DEF Worth

\* One address pays x and another is paid y.
LEMMA PaymentTotal ==
  ASSUME NEW nd \in [Address -> NodeEntry], NEW r \in Address, NEW v \in Address, r # v,
         NEW x \in Nat, NEW y \in Nat,
         NEW md \in [Address -> NodeEntry],
         md[r] = Debit(nd[r], x), md[v] = Credit(nd[v], y),
         \A a \in Address \ {r, v} : md[a] = nd[a]
  PROVE  Total(md) = Total(nd) - x + y
<1>1. Worth(md[r]) = Worth(nd[r]) - x /\ Worth(md[v]) = Worth(nd[v]) + y
  BY DebitWorth, CreditWorth
<1>2. Worth(nd[r]) \in Nat /\ Worth(nd[v]) \in Nat /\ Total(nd) \in Nat
  BY WorthType, TotalType
<1>3. Total(md) = Total(nd) - Worth(nd[r]) - Worth(nd[v]) + Worth(md[r]) + Worth(md[v])
  BY ChangeTwoTotal
<1>. QED
  BY <1>1, <1>2, <1>3

-----------------------------------------------------------------------------
(* The invariant, and what a step must show *)

\* Balance initialization is opened with the admin, never before.
PhaseMatchesAdmin == initialization = "unset" <=> ~HasAdmin

MoneyInv ==
  /\ Inv
  /\ PhaseMatchesAdmin
  /\ HaltsOnlyOnInflation

\* A step of the ledger is one of Supply's or leaves the money alone, and
\* keeps what MoneyInv adds to Inv.
Flows ==
  /\ [Money!Next]_<<initialization, TotalSupply>>
  /\ PhaseMatchesAdmin'
  /\ HaltsOnlyOnInflation'

\* A network starts without money.
LEMMA MoneyInvInit == Init => MoneyInv /\ Money!Init
<1>. SUFFICES ASSUME Init PROVE MoneyInv /\ Money!Init
  OBVIOUS
<1>1. Inv
  BY InitInv
<1>2. \A a \in Address : node[a] = NoEntry
  BY DEF Init
<1>3. node \in [Address -> NodeEntry]
  BY <1>1 DEF Inv, TypeOK, LedgerTypeOK
<1>4. TotalSupply = 0
  BY <1>2, <1>3, NothingTotal, SupplyIsTotal
<1>. QED
  BY <1>1, <1>4 DEF Init, MoneyInv, PhaseMatchesAdmin, HasAdmin, HaltsOnlyOnInflation, Money!Init

\* The entries and their total as the invariant types them
LEMMA EntriesTyped ==
  ASSUME MoneyInv
  PROVE  /\ node \in [Address -> NodeEntry]
         /\ \A a \in Address : node[a] \in NodeEntry /\ node[a].balance \in Nat
         /\ TotalSupply = Total(node) /\ TotalSupply \in Nat
<1>1. node \in [Address -> NodeEntry]
  BY DEF MoneyInv, Inv, TypeOK, LedgerTypeOK
<1>. QED
  BY <1>1, WorthType, TotalType, SupplyIsTotal

\* A step that moves no money
LEMMA StandStillFlows ==
  ASSUME MoneyInv, UNCHANGED <<admin, initialization, node, halted>>
  PROVE  Flows
<1>1. TotalSupply' = TotalSupply
  BY SupplyIsTotal
<1>. QED
  BY <1>1 DEF Flows, MoneyInv, PhaseMatchesAdmin, HasAdmin, HaltsOnlyOnInflation

\* A handler that stores nothing moves nothing.
LEMMA RefusedFlows ==
  ASSUME MoneyInv, NEW s, Refused(s)
  PROVE  Flows
  BY StandStillFlows DEF Refused, ledger

\* A handler or a penalty that burns one of the amounts of the fee table
LEMMA BurnFlows ==
  ASSUME MoneyInv, HasAdmin, HasAdmin', UNCHANGED initialization, ~halted',
         NEW x \in Int, x \in FeeBurns \union PenaltyBurns,
         TotalSupply' = TotalSupply - x
  PROVE  Flows
<1>1. TotalSupply - TotalSupply' = x
  BY EntriesTyped
<1>2. initialization # "unset"
  BY DEF MoneyInv, PhaseMatchesAdmin
<1>3. Money!Burn
  BY <1>1, <1>2 DEF Money!Burn
<1>. QED
  BY <1>2, <1>3 DEF Flows, Money!Next, PhaseMatchesAdmin, HaltsOnlyOnInflation

\* No operation runs once #apply has thrown.
LEMMA StoredRuns ==
  ASSUME NEW tx, NEW s, Stored(tx, s)
  PROVE  s = "SUCCESS" /\ ~halted /\ ~halted'
  BY DEF Stored, NextNode

\* The burns of the handlers are those of the fee table.
LEMMA BurnTypes ==
  /\ Fee \in Nat /\ Share(75) \in Nat /\ Share(50) \in Nat /\ Share(25) \in Nat
  /\ Fee \in FeeBurns /\ Fee - Share(75) \in FeeBurns
  /\ Fee - Share(50) \in FeeBurns /\ Fee - Share(50) - Share(25) \in FeeBurns
  BY FeeType DEF FeeBurns

-----------------------------------------------------------------------------
(* The operations of the admin *)

\* An admin request comes from the admin, in office.
LEMMA AdminInOffice ==
  ASSUME MoneyInv, HasAdmin
  PROVE  /\ admin.addr \in Address /\ IsIndexer(admin.addr)
         /\ initialization # "unset"
  BY DEF MoneyInv, Inv, TypeOK, LedgerTypeOK, HasAdmin, AdminStaysInOffice,
     IsIndexer, PhaseMatchesAdmin

\* #handleApplyInitializeBalanceOperation may add any money while it is open.
LEMMA InitializeBalanceFlows ==
  ASSUME MoneyInv, Inv', NEW tx \in Tx, NEW r \in Address, NEW to \in Address,
         NEW amount \in Grant, InitializeBalance(tx, r, to, amount)
  PROVE  Flows
<1>. DEFINE status == InitializeBalanceStatus(tx, r)
<1>1. CASE Refused(status)
  BY <1>1, RefusedFlows
<1>2. CASE ~Refused(status)
  <2>1. Stored(tx, status) /\ UNCHANGED <<admin, initialization>>
    BY <1>2, Zenon DEF InitializeBalance
  <2>2. status = "SUCCESS" /\ ~halted'
    BY <2>1, StoredRuns
  <2>3. HasAdmin /\ initialization # "disabled"
    BY <2>2, Zenon DEF InitializeBalanceStatus, AdminStatus, AdminRequest
  <2>4. initialization = "enabled"
    BY <2>3, AdminInOffice DEF MoneyInv, Inv, TypeOK, LedgerTypeOK
  <2>5. TotalSupply' \in Nat
    <3>1. (node \in [Address -> NodeEntry])'
      BY DEF Inv, TypeOK, LedgerTypeOK
    <3>. QED
      BY <3>1, TotalType, SupplyIsTotal
  <2>6. Money!Initialize
    BY <2>1, <2>4, <2>5 DEF Money!Initialize
  <2>. QED
    BY <2>1, <2>2, <2>6 DEF Flows, Money!Next, MoneyInv, PhaseMatchesAdmin, HasAdmin,
       HaltsOnlyOnInflation
<1>. QED
  BY <1>1, <1>2

\* #handleApplyDisableBalanceInitializationOperation closes it.
LEMMA DisableInitializationFlows ==
  ASSUME MoneyInv, NEW tx \in Tx, NEW r \in Address, DisableInitialization(tx, r)
  PROVE  Flows
<1>. DEFINE status == AdminStatus(tx, r, initialization # "disabled")
<1>1. CASE Refused(status)
  BY <1>1, RefusedFlows
<1>2. CASE ~Refused(status)
  <2>1. Stored(tx, status) /\ UNCHANGED <<admin, node>> /\ initialization' = "disabled"
    BY <1>2, Zenon DEF DisableInitialization
  <2>2. status = "SUCCESS" /\ ~halted'
    BY <2>1, StoredRuns
  <2>3. HasAdmin /\ initialization # "disabled"
    BY <2>2, Zenon DEF AdminStatus, AdminRequest
  <2>4. initialization = "enabled"
    BY <2>3, AdminInOffice DEF MoneyInv, Inv, TypeOK, LedgerTypeOK
  <2>5. TotalSupply' = TotalSupply
    BY <2>1, SupplyIsTotal
  <2>6. Money!Close
    BY <2>1, <2>4, <2>5 DEF Money!Close
  <2>. QED
    BY <2>1, <2>2, <2>3, <2>6 DEF Flows, Money!Next, PhaseMatchesAdmin, HasAdmin,
       HaltsOnlyOnInflation
<1>. QED
  BY <1>1, <1>2

\* #handleApplyAddAdminOperation brings the admin's balance and stake.
LEMMA AddAdminFlows ==
  ASSUME MoneyInv, NEW tx \in Tx, NEW r \in Address, NEW iw \in Key, AddAdmin(tx, r, iw)
  PROVE  Flows
<1>. DEFINE status == AddAdminStatus(tx, iw)
            entry == [role |-> "INDEXER", wk |-> iw, balance |-> AdminBalance,
                      license |-> Len(licenses) + 1, staked |-> Stake]
<1>1. CASE Refused(status)
  BY <1>1, RefusedFlows
<1>2. CASE ~Refused(status)
  <2>1. /\ Stored(tx, status)
        /\ node' = [node EXCEPT ![r] = entry]
        /\ admin' = [addr |-> r, wk |-> iw]
        /\ initialization' = "enabled"
    BY <1>2, Zenon DEF AddAdmin
  <2>2. status = "SUCCESS" /\ ~halted'
    BY <2>1, StoredRuns
  <2>3. ~HasAdmin
    BY <2>2, Zenon DEF AddAdminStatus
  <2>4. initialization = "unset" /\ \A a \in Address : node[a] = NoEntry
    BY <2>3 DEF MoneyInv, Inv, PhaseMatchesAdmin, BeforeLaunch
  <2>5. Total(node) = 0 /\ node[r] = NoEntry
    BY <2>4, EntriesTyped, NothingTotal
  <2>6. entry \in NodeEntry /\ Worth(entry) = AdminBalance + Stake
    <3>1. /\ AdminBalance \in 0 .. MaxBalance /\ Stake \in 0 .. MaxBalance
          /\ Len(licenses) + 1 \in Nat
      BY MoneyAssumption, StakeType DEF MoneyInv, Inv, TypeOK, LedgerTypeOK
    <3>. QED
      BY <3>1 DEF NodeEntry, Role, Worth
  <2>7. Worth(NoEntry) = 0
    BY DEF Worth, NoEntry
  <2>. HIDE DEF entry
  <2>8. Total(node') = Total(node) - Worth(node[r]) + Worth(entry)
    <3>1. node \in [Address -> NodeEntry]
      BY EntriesTyped
    <3>2. /\ node' \in [Address -> NodeEntry] /\ node'[r] = entry
          /\ \A a \in Address \ {r} : node'[a] = node[a]
      BY <2>1, <2>6, <3>1
    <3>. QED
      BY <3>1, <3>2, ChangeTotal
  <2>9. AdminBalance + Stake \in Nat
    BY MoneyAssumption, StakeType
  <2>10. TotalSupply' = AdminBalance + Stake
    BY <2>1, <2>5, <2>6, <2>7, <2>8, <2>9, SupplyIsTotal
  <2>11. Money!Launch
    BY <2>1, <2>4, <2>10 DEF Money!Launch
  <2>12. HasAdmin'
    BY <2>1, AddressAssumption DEF HasAdmin
  <2>. QED
    BY <2>1, <2>2, <2>11, <2>12 DEF Flows, Money!Next, PhaseMatchesAdmin, HaltsOnlyOnInflation
<1>. QED
  BY <1>1, <1>2

\* #handleApplyAppendWhitelistOperation burns the whole fee, or charges none.
LEMMA AppendWhitelistFlows ==
  ASSUME MoneyInv, NEW tx \in Tx, NEW r \in Address, NEW to \in Address,
         AppendWhitelist(tx, r, to)
  PROVE  Flows
<1>. DEFINE status == AppendWhitelistStatus(tx, r, to)
            license == IF NeedsLicense(to) THEN Len(licenses) + 1 ELSE node[to].license
            charged == [node EXCEPT ![admin.addr] = Debit(node[admin.addr], WhitelistFee)]
            entry == [node[to] EXCEPT !.role = "WHITELISTED", !.license = license]
<1>1. CASE Refused(status)
  BY <1>1, RefusedFlows
<1>2. CASE ~Refused(status)
  <2>1. /\ Stored(tx, status)
        /\ node' = [charged EXCEPT ![to] = entry]
        /\ UNCHANGED <<admin, initialization>>
    BY <1>2, Zenon DEF AppendWhitelist
  <2>2. status = "SUCCESS" /\ ~halted'
    BY <2>1, StoredRuns
  <2>3. HasAdmin /\ node[admin.addr].balance >= WhitelistFee /\ ~IsWhitelisted(to)
    BY <2>2, AdminStatusSuccess DEF AppendWhitelistStatus, AdminRequest
  <2>4. admin.addr \in Address /\ to # admin.addr
    BY <2>3, AdminInOffice DEF IsIndexer, IsWhitelisted
  <2>5. WhitelistFee \in Nat /\ node \in [Address -> NodeEntry] /\ node[to] \in NodeEntry
    BY MoneyAssumption, EntriesTyped DEF WhitelistFee
  <2>6. /\ Debit(node[admin.addr], WhitelistFee) \in NodeEntry
        /\ Worth(Debit(node[admin.addr], WhitelistFee)) = Worth(node[admin.addr]) - WhitelistFee
    BY <2>3, <2>4, <2>5, DebitType, DebitWorth
  <2>7. license \in Nat
    BY <2>5 DEF NodeEntry, MoneyInv, Inv, TypeOK, LedgerTypeOK
  <2>8. entry \in NodeEntry /\ Worth(entry) = Worth(node[to])
    BY <2>5, <2>7 DEF NodeEntry, Role, Worth
  <2>. HIDE DEF entry
  <2>10. /\ node' \in [Address -> NodeEntry]
         /\ node'[admin.addr] = Debit(node[admin.addr], WhitelistFee)
         /\ node'[to] = entry
         /\ \A a \in Address \ {admin.addr, to} : node'[a] = node[a]
    BY <2>1, <2>4, <2>5, <2>6, <2>8
  <2>12. Total(node') = Total(node) - Worth(node[admin.addr]) - Worth(node[to])
                          + Worth(node'[admin.addr]) + Worth(node'[to])
    BY <2>4, <2>5, <2>10, ChangeTwoTotal
  <2>13. /\ Worth(node[admin.addr]) \in Nat /\ Worth(node[to]) \in Nat
         /\ TotalSupply \in Nat /\ TotalSupply = Total(node)
    BY <2>4, EntriesTyped, WorthType
  <2>14. TotalSupply' = Total(node')
    BY SupplyIsTotal
  <2>15. TotalSupply' = TotalSupply - WhitelistFee
    BY <2>5, <2>6, <2>8, <2>10, <2>12, <2>13, <2>14
  <2>16. CASE initialization = "disabled"
    <3>1. WhitelistFee = Fee
      BY <2>16 DEF WhitelistFee
    <3>2. HasAdmin'
      BY <2>1, <2>3 DEF HasAdmin
    <3>. QED
      BY <2>1, <2>2, <2>3, <2>15, <3>1, <3>2, BurnTypes, BurnFlows
  <2>17. CASE initialization # "disabled"
    <3>1. TotalSupply' = TotalSupply
      BY <2>13, <2>15, <2>17 DEF WhitelistFee
    <3>. QED
      BY <2>1, <2>2, <3>1 DEF Flows, MoneyInv, PhaseMatchesAdmin, HasAdmin, HaltsOnlyOnInflation
  <2>. QED
    BY <2>16, <2>17
<1>. QED
  BY <1>1, <1>2

\* ChargeAdmin burns the whole fee when the entries it is given hold as much
\* as the stored ones, and the admin's as much as it did.
LEMMA ChargeAdminFlows ==
  ASSUME MoneyInv, HasAdmin, AdminCanPay, UNCHANGED <<admin, initialization>>, ~halted',
         NEW changed \in [Address -> NodeEntry], NEW to \in Address,
         \A a \in Address \ {to} : changed[a] = node[a],
         Worth(changed[to]) = Worth(node[to]), ChargeAdmin(changed)
  PROVE  Flows
<1>. DEFINE paid == Debit(node[admin.addr], Fee)
<1>1. /\ node \in [Address -> NodeEntry] /\ node[admin.addr] \in NodeEntry
      /\ admin.addr \in Address
  BY EntriesTyped, AdminInOffice
<1>2. paid \in NodeEntry /\ Worth(paid) = Worth(node[admin.addr]) - Fee
  BY <1>1, FeeType, DebitType, DebitWorth DEF AdminCanPay
<1>3. node' = [changed EXCEPT ![admin.addr] = paid]
  BY DEF ChargeAdmin
<1>. HIDE DEF paid
<1>4. /\ node' \in [Address -> NodeEntry] /\ node'[admin.addr] = paid
      /\ \A a \in Address \ {admin.addr} : node'[a] = changed[a]
  BY <1>1, <1>2, <1>3
<1>5. Total(node') = Total(changed) - Worth(changed[admin.addr]) + Worth(paid)
  BY <1>1, <1>4, ChangeTotal
<1>6. Total(changed) = Total(node) - Worth(node[to]) + Worth(changed[to])
  BY <1>1, ChangeTotal
<1>7. Worth(changed[admin.addr]) = Worth(node[admin.addr])
  BY <1>1
<1>8. /\ Worth(node[to]) \in Nat /\ Worth(node[admin.addr]) \in Nat
      /\ TotalSupply \in Nat /\ TotalSupply = Total(node) /\ TotalSupply' = Total(node')
  BY <1>1, EntriesTyped, WorthType, SupplyIsTotal
<1>9. TotalSupply' = TotalSupply - Fee
  BY <1>2, <1>5, <1>6, <1>7, <1>8, FeeType
<1>10. HasAdmin'
  BY DEF HasAdmin
<1>. QED
  BY <1>9, <1>10, BurnTypes, BurnFlows

\* Setting a role moves no money.
LEMMA RoleWorth ==
  ASSUME NEW e \in NodeEntry, NEW role \in Role
  PROVE  /\ [e EXCEPT !.role = role] \in NodeEntry
         /\ Worth([e EXCEPT !.role = role]) = Worth(e)
         /\ [e EXCEPT !.role = role].staked = e.staked
         /\ [e EXCEPT !.role = role].balance = e.balance
  BY RoleType DEF NodeEntry, Worth

\* #addIndexer burns a whole fee.
LEMMA AddIndexerFlows ==
  ASSUME MoneyInv, NEW tx \in Tx, NEW r \in Address, NEW to \in Address,
         AddIndexer(tx, r, to)
  PROVE  Flows
<1>. DEFINE status == AddIndexerStatus(tx, r, to)
            entry == [node[to] EXCEPT !.role = "INDEXER"]
            changed == [node EXCEPT ![to].role = "INDEXER"]
<1>1. CASE Refused(status)
  BY <1>1, RefusedFlows
<1>2. CASE ~Refused(status)
  <2>1. /\ Stored(tx, status)
        /\ ChargeAdmin(changed)
        /\ UNCHANGED <<admin, initialization>>
    BY <1>2, Zenon DEF AddIndexer
  <2>2. status = "SUCCESS" /\ ~halted'
    BY <2>1, StoredRuns
  <2>3. HasAdmin /\ AdminCanPay
    BY <2>2, Zenon DEF AdminStatus, AddIndexerStatus, AdminRequest
  <2>4. node \in [Address -> NodeEntry] /\ node[to] \in NodeEntry
    BY EntriesTyped
  <2>5. entry \in NodeEntry /\ Worth(entry) = Worth(node[to])
    BY <2>4, RoleWorth DEF Role
  <2>6. changed = [node EXCEPT ![to] = entry]
    OBVIOUS
  <2>. HIDE DEF entry, changed
  <2>7. /\ changed \in [Address -> NodeEntry] /\ Worth(changed[to]) = Worth(node[to])
        /\ \A a \in Address \ {to} : changed[a] = node[a]
    BY <2>4, <2>5, <2>6
  <2>. QED
    BY <2>1, <2>2, <2>3, <2>7, ChargeAdminFlows
<1>. QED
  BY <1>1, <1>2

\* #removeIndexer burns a whole fee.
LEMMA RemoveIndexerFlows ==
  ASSUME MoneyInv, NEW tx \in Tx, NEW r \in Address, NEW to \in Address,
         RemoveIndexer(tx, r, to)
  PROVE  Flows
<1>. DEFINE status == RemoveIndexerStatus(tx, r, to)
            entry == [node[to] EXCEPT !.role = "WRITER"]
            changed == [node EXCEPT ![to].role = "WRITER"]
<1>1. CASE Refused(status)
  BY <1>1, RefusedFlows
<1>2. CASE ~Refused(status)
  <2>1. /\ Stored(tx, status)
        /\ ChargeAdmin(changed)
        /\ UNCHANGED <<admin, initialization>>
    BY <1>2, Zenon DEF RemoveIndexer
  <2>2. status = "SUCCESS" /\ ~halted'
    BY <2>1, StoredRuns
  <2>3. HasAdmin /\ AdminCanPay
    BY <2>2, Zenon DEF AdminStatus, RemoveIndexerStatus, AdminRequest
  <2>4. node \in [Address -> NodeEntry] /\ node[to] \in NodeEntry
    BY EntriesTyped
  <2>5. entry \in NodeEntry /\ Worth(entry) = Worth(node[to])
    BY <2>4, RoleWorth DEF Role
  <2>6. changed = [node EXCEPT ![to] = entry]
    OBVIOUS
  <2>. HIDE DEF entry, changed
  <2>7. /\ changed \in [Address -> NodeEntry] /\ Worth(changed[to]) = Worth(node[to])
        /\ \A a \in Address \ {to} : changed[a] = node[a]
    BY <2>4, <2>5, <2>6
  <2>. QED
    BY <2>1, <2>2, <2>3, <2>7, ChargeAdminFlows
<1>. QED
  BY <1>1, <1>2

\* #handleApplyBanValidatorOperation burns a whole fee of the admin's and
\* gives a writer its own stake back.
LEMMA BanValidatorFlows ==
  ASSUME MoneyInv, NEW tx \in Tx, NEW r \in Address, NEW to \in Address,
         BanValidator(tx, r, to)
  PROVE  Flows
<1>. DEFINE status == BanValidatorStatus(tx, r, to)
            banned == [node[to] EXCEPT !.role = "READER"]
            entry == IF IsWriter(to) THEN WithdrawStake(banned) ELSE banned
            changed == [node EXCEPT ![to] = entry]
<1>1. CASE Refused(status)
  BY <1>1, RefusedFlows
<1>2. CASE ~Refused(status)
  <2>1. /\ Stored(tx, status)
        /\ ChargeAdmin(changed)
        /\ UNCHANGED <<admin, initialization>>
    BY <1>2, Zenon DEF BanValidator
  <2>2. status = "SUCCESS" /\ ~halted'
    BY <2>1, StoredRuns
  <2>3. HasAdmin /\ AdminCanPay /\ (IsWriter(to) => CanWithdraw(node[to]))
    BY <2>2, Zenon DEF AdminStatus, BanValidatorStatus, AdminRequest
  <2>4. node \in [Address -> NodeEntry] /\ node[to] \in NodeEntry
    BY EntriesTyped
  <2>5. /\ banned \in NodeEntry /\ Worth(banned) = Worth(node[to])
        /\ banned.staked = node[to].staked /\ banned.balance = node[to].balance
    BY <2>4, RoleWorth DEF Role
  <2>. HIDE DEF banned
  <2>6. ASSUME IsWriter(to)
        PROVE  /\ WithdrawStake(banned) \in NodeEntry
               /\ Worth(WithdrawStake(banned)) = Worth(node[to])
    <3>1. CanWithdraw(banned)
      BY <2>3, <2>5, <2>6 DEF CanWithdraw
    <3>. QED
      BY <2>5, <3>1, WithdrawStakeType, WithdrawWorth
  <2>7. entry \in NodeEntry /\ Worth(entry) = Worth(node[to])
    BY <2>5, <2>6
  <2>. HIDE DEF entry
  <2>8. /\ changed \in [Address -> NodeEntry] /\ Worth(changed[to]) = Worth(node[to])
        /\ \A a \in Address \ {to} : changed[a] = node[a]
    BY <2>4, <2>7
  <2>. HIDE DEF changed
  <2>. QED
    BY <2>1, <2>2, <2>3, <2>8, ChargeAdminFlows
<1>. QED
  BY <1>1, <1>2

-----------------------------------------------------------------------------
(* The operations a validator co-signs *)

\* The requester's entry becomes d and the validator's e.
PutTwo(r, d, v, e) == node' = [node EXCEPT ![r] = d, ![v] = e]

\* A requester pays the fee and its validator gets three quarters of it.
LEMMA FeeFlows ==
  ASSUME MoneyInv, NEW r \in Address, NEW v \in Address, Cosigned(r, v),
         HasAdmin', UNCHANGED initialization, ~halted',
         CanReceive(v, Share(75)),
         NEW entry \in NodeEntry, Worth(entry) = Worth(node[r]) - Fee,
         PutTwo(r, entry, v, Credit(node[v], Share(75)))
  PROVE  Flows
<1>1. HasAdmin /\ r # v
  BY CosignedHasAdmin DEF MoneyInv
<1>2. /\ node \in [Address -> NodeEntry] /\ node[r] \in NodeEntry /\ node[v] \in NodeEntry
      /\ TotalSupply \in Nat /\ TotalSupply = Total(node) /\ TotalSupply' = Total(node')
  BY EntriesTyped, SupplyIsTotal
<1>3. /\ Credit(node[v], Share(75)) \in NodeEntry
      /\ Worth(Credit(node[v], Share(75))) = Worth(node[v]) + Share(75)
  BY <1>2, FeeType, CreditType, CreditWorth DEF CanReceive
<1>4. /\ node' \in [Address -> NodeEntry] /\ node'[r] = entry
      /\ node'[v] = Credit(node[v], Share(75))
      /\ \A a \in Address \ {r, v} : node'[a] = node[a]
  BY <1>1, <1>2, <1>3 DEF PutTwo
<1>5. Total(node') = Total(node) - Worth(node[r]) - Worth(node[v])
                       + Worth(node'[r]) + Worth(node'[v])
  BY <1>1, <1>2, <1>4, ChangeTwoTotal
<1>6. Worth(node[r]) \in Nat /\ Worth(node[v]) \in Nat
  BY <1>2, WorthType
<1>7. /\ Worth(node'[r]) = Worth(node[r]) - Fee
      /\ Worth(node'[v]) = Worth(node[v]) + Share(75)
  BY <1>3, <1>4
<1>8. TotalSupply' = TotalSupply - (Fee - Share(75)) /\ Fee - Share(75) \in Int
  BY <1>2, <1>5, <1>6, <1>7, FeeType
<1>. QED
  BY <1>1, <1>8, BurnTypes, BurnFlows

\* Debit of the fee by a requester that has it
LEMMA ChargedWorth ==
  ASSUME MoneyInv, NEW r \in Address, ~(node[r].balance < Fee)
  PROVE  /\ Debit(node[r], Fee) \in NodeEntry
         /\ Worth(Debit(node[r], Fee)) = Worth(node[r]) - Fee
         /\ Debit(node[r], Fee).staked = node[r].staked
<1>1. node[r] \in NodeEntry /\ node[r].balance \in Nat
  BY EntriesTyped
<1>2. node[r].balance >= Fee
  BY <1>1, FeeType
<1>. QED
  BY <1>1, <1>2, FeeType, DebitType, DebitWorth, BalanceStands

\* #handleApplyAdminRecoveryOperation burns a quarter of the fee.
LEMMA AdminRecoveryFlows ==
  ASSUME MoneyInv, NEW tx \in Tx, NEW r \in Address, NEW iw \in Key, NEW v \in Address,
         AdminRecovery(tx, r, iw, v)
  PROVE  Flows
<1>. DEFINE status == AdminRecoveryStatus(tx, r, iw, v)
            charged == Debit(node[r], Fee)
            entry == [charged EXCEPT !.wk = iw]
<1>1. CASE Refused(status)
  BY <1>1, RefusedFlows
<1>2. CASE ~Refused(status)
  <2>1. /\ Stored(tx, status)
        /\ PutTwo(r, entry, v, Credit(node[v], Share(75)))
        /\ admin' = [addr |-> r, wk |-> iw]
        /\ UNCHANGED initialization
    BY <1>2, Zenon DEF AdminRecovery, PutTwo
  <2>2. status = "SUCCESS" /\ ~halted'
    BY <2>1, StoredRuns
  <2>3. Cosigned(r, v) /\ ~(node[r].balance < Fee) /\ CanReceive(v, Share(75))
    BY <2>2 DEF AdminRecoveryStatus
  <2>4. charged \in NodeEntry /\ Worth(charged) = Worth(node[r]) - Fee
    BY <2>3, ChargedWorth
  <2>. HIDE DEF charged
  <2>5. entry \in NodeEntry /\ Worth(entry) = Worth(charged)
    BY <2>4 DEF NodeEntry, Worth
  <2>6. HasAdmin'
    BY <2>1, AddressAssumption DEF HasAdmin
  <2>. HIDE DEF entry
  <2>. QED
    BY <2>1, <2>2, <2>3, <2>4, <2>5, <2>6, FeeFlows
<1>. QED
  BY <1>1, <1>2

\* #addWriter burns a quarter of the fee and moves the stake within the entry.
LEMMA AddWriterFlows ==
  ASSUME MoneyInv, NEW tx \in Tx, NEW r \in Address, NEW iw \in Key, NEW v \in Address,
         AddWriter(tx, r, iw, v)
  PROVE  Flows
<1>. DEFINE status == AddWriterStatus(tx, r, iw, v)
            charged == Debit(node[r], Fee)
            staked == StakeBalance(charged)
            entry == [staked EXCEPT !.role = "WRITER", !.wk = iw]
<1>1. CASE Refused(status)
  BY <1>1, RefusedFlows
<1>2. CASE ~Refused(status)
  <2>1. /\ Stored(tx, status)
        /\ PutTwo(r, entry, v, Credit(node[v], Share(75)))
        /\ UNCHANGED <<admin, initialization>>
    BY <1>2, Zenon DEF AddWriter, PutTwo
  <2>2. status = "SUCCESS" /\ ~halted'
    BY <2>1, StoredRuns
  <2>3. /\ Cosigned(r, v) /\ MayBecomeWriter(r, iw) /\ ~(node[r].balance < Fee)
        /\ CanReceive(v, Share(75)) /\ CanStake(charged)
    BY <2>2 DEF AddWriterStatus
  <2>4. /\ charged \in NodeEntry /\ Worth(charged) = Worth(node[r]) - Fee
        /\ charged.staked = node[r].staked
    BY <2>3, ChargedWorth
  <2>5. node[r].staked = 0
    BY <2>3 DEF MayBecomeWriter, MoneyInv, Inv, StakeMatchesRole
  <2>. HIDE DEF charged
  <2>6. staked \in NodeEntry /\ Worth(staked) = Worth(charged)
    BY <2>3, <2>4, <2>5, StakeBalanceType, StakeWorth
  <2>. HIDE DEF staked
  <2>7. entry \in NodeEntry /\ Worth(entry) = Worth(staked)
    BY <2>6 DEF NodeEntry, Role, Worth
  <2>8. HasAdmin'
    BY <2>1, <2>3, CosignedHasAdmin DEF HasAdmin, MoneyInv
  <2>. HIDE DEF entry
  <2>. QED
    BY <2>1, <2>2, <2>3, <2>4, <2>6, <2>7, <2>8, FeeFlows
<1>. QED
  BY <1>1, <1>2

\* #removeWriter burns a quarter of the fee and moves the stake back.
LEMMA RemoveWriterFlows ==
  ASSUME MoneyInv, NEW tx \in Tx, NEW r \in Address, NEW iw \in Key, NEW v \in Address,
         RemoveWriter(tx, r, iw, v)
  PROVE  Flows
<1>. DEFINE status == RemoveWriterStatus(tx, r, iw, v)
            charged == Debit(node[r], Fee)
            withdrawn == WithdrawStake(charged)
            entry == [withdrawn EXCEPT !.role = "WHITELISTED"]
<1>1. CASE Refused(status)
  BY <1>1, RefusedFlows
<1>2. CASE ~Refused(status)
  <2>1. /\ Stored(tx, status)
        /\ PutTwo(r, entry, v, Credit(node[v], Share(75)))
        /\ UNCHANGED <<admin, initialization>>
    BY <1>2, Zenon DEF RemoveWriter, PutTwo
  <2>2. status = "SUCCESS" /\ ~halted'
    BY <2>1, StoredRuns
  <2>3. /\ Cosigned(r, v) /\ ~(node[r].balance < Fee)
        /\ CanReceive(v, Share(75)) /\ CanWithdraw(charged)
    BY <2>2 DEF RemoveWriterStatus
  <2>4. charged \in NodeEntry /\ Worth(charged) = Worth(node[r]) - Fee
    BY <2>3, ChargedWorth
  <2>. HIDE DEF charged
  <2>5. withdrawn \in NodeEntry /\ Worth(withdrawn) = Worth(charged)
    BY <2>3, <2>4, WithdrawStakeType, WithdrawWorth
  <2>. HIDE DEF withdrawn
  <2>6. entry \in NodeEntry /\ Worth(entry) = Worth(withdrawn)
    BY <2>5, RoleWorth DEF Role
  <2>7. HasAdmin'
    BY <2>1, <2>3, CosignedHasAdmin DEF HasAdmin, MoneyInv
  <2>. HIDE DEF entry
  <2>. QED
    BY <2>1, <2>2, <2>3, <2>4, <2>5, <2>6, <2>7, FeeFlows
<1>. QED
  BY <1>1, <1>2

\* #handleApplyBootstrapDeploymentOperation burns a quarter of the fee.
LEMMA BootstrapDeploymentFlows ==
  ASSUME MoneyInv, NEW tx \in Tx, NEW r \in Address, NEW bs \in Subnet, NEW v \in Address,
         BootstrapDeployment(tx, r, bs, v)
  PROVE  Flows
<1>. DEFINE status == BootstrapDeploymentStatus(tx, r, bs, v)
            charged == Debit(node[r], Fee)
<1>1. CASE Refused(status)
  BY <1>1, RefusedFlows
<1>2. CASE ~Refused(status)
  <2>1. /\ Stored(tx, status)
        /\ PutTwo(r, charged, v, Credit(node[v], Share(75)))
        /\ UNCHANGED <<admin, initialization>>
    BY <1>2, Zenon DEF BootstrapDeployment, PutTwo
  <2>2. status = "SUCCESS" /\ ~halted'
    BY <2>1, StoredRuns
  <2>3. Cosigned(r, v) /\ ~(node[r].balance < Fee) /\ CanReceive(v, Share(75))
    BY <2>2 DEF BootstrapDeploymentStatus
  <2>4. charged \in NodeEntry /\ Worth(charged) = Worth(node[r]) - Fee
    BY <2>3, ChargedWorth
  <2>5. HasAdmin'
    BY <2>1, <2>3, CosignedHasAdmin DEF HasAdmin, MoneyInv
  <2>. HIDE DEF charged
  <2>. QED
    BY <2>1, <2>2, <2>3, <2>4, <2>5, FeeFlows
<1>. QED
  BY <1>1, <1>2

\* #handleApplyTxOperation burns a quarter of the fee, or half of it when the
\* subnetwork's creator pays.
LEMMA TxOperationFlows ==
  ASSUME MoneyInv, NEW tx \in Tx, NEW r \in Address, NEW bs \in Subnet, NEW v \in Address,
         TxOperation(tx, r, bs, v), (node \in [Address -> NodeEntry])'
  PROVE  Flows
<1>. DEFINE status == TxStatus(tx, r, bs, v)
            creator == deployment[bs]
            half == Share(50)
            charged == [node EXCEPT ![r] = Debit(node[r], Fee), ![v] = Credit(node[v], half)]
            share == CreatorShare(r, creator)
<1>1. CASE Refused(status)
  BY <1>1, RefusedFlows
<1>2. CASE ~Refused(status)
  <2>1. /\ Stored(tx, status)
        /\ node' = [charged EXCEPT ![creator] = Credit(charged[creator], share)]
        /\ UNCHANGED <<admin, initialization>>
    BY <1>2, Zenon DEF TxOperation, PayTxFee
  <2>2. status = "SUCCESS" /\ ~halted'
    BY <2>1, StoredRuns
  <2>3. /\ Cosigned(r, v) /\ ~(node[r].balance < Fee)
        /\ CanReceive(v, half) /\ creator # NoAddress
    <3>1. Cosigned(r, v) /\ creator # NoAddress /\ ~(node[r].balance < Fee)
      BY <2>2, Zenon DEF TxStatus
    <3>2. CanPayTxFee(r, v, creator)
      BY <2>2, Zenon DEF TxStatus
    <3>. QED
      BY <3>1, <3>2 DEF CanPayTxFee
  <2>4. HasAdmin /\ HasAdmin' /\ r # v
    BY <2>1, <2>3, CosignedHasAdmin DEF HasAdmin, MoneyInv
  <2>5. /\ creator \in Address /\ node \in [Address -> NodeEntry]
        /\ node[r].balance \in Nat /\ TotalSupply \in Nat
        /\ TotalSupply = Total(node) /\ TotalSupply' = Total(node')
    BY <2>3, EntriesTyped, SupplyIsTotal DEF MoneyInv, Inv, TypeOK, LedgerTypeOK
  <2>6. node[r].balance >= Fee /\ node[v].balance + half <= MaxBalance
    BY <2>3, <2>5, FeeType DEF CanReceive
  <2>7. charged \in [Address -> NodeEntry]
    BY <2>4, <2>5, <2>6, FeeType, PaymentType
  <2>8. /\ charged[r] = Debit(node[r], Fee) /\ charged[v] = Credit(node[v], half)
        /\ \A a \in Address \ {r, v} : charged[a] = node[a]
    BY <2>4, <2>5
  <2>9. half \in Nat /\ Fee \in Nat /\ share \in Nat /\ share \in {0, Share(25)}
    BY FeeType DEF CreatorShare
  <2>. HIDE DEF charged, share, half, creator
  <2>10. Total(charged) = Total(node) - Fee + half
    <3>1. r # v /\ node \in [Address -> NodeEntry] /\ half \in Nat /\ Fee \in Nat
      BY <2>4, <2>5, <2>9
    <3>. QED
      BY <2>7, <2>8, <3>1, PaymentTotal
  <2>11. /\ node'[creator] = Credit(charged[creator], share)
         /\ \A a \in Address \ {creator} : node'[a] = charged[a]
    BY <2>1, <2>5, <2>7
  <2>12. Total(node') = Total(charged) - Worth(charged[creator]) + Worth(node'[creator])
    BY <2>5, <2>7, <2>11, ChangeTotal
  <2>13. /\ charged[creator] \in NodeEntry
         /\ Worth(node'[creator]) = Worth(charged[creator]) + share
         /\ Worth(charged[creator]) \in Nat
    BY <2>5, <2>7, <2>9, <2>11, CreditWorth, WorthType
  <2>14. TotalSupply' = TotalSupply - (Fee - half - share) /\ Fee - half - share \in Int
    BY <2>5, <2>9, <2>10, <2>12, <2>13
  <2>15. Fee - half - share \in FeeBurns
    <3>1. Fee - half - 0 = Fee - half
      BY <2>9
    <3>. QED
      BY <2>9, <3>1, BurnTypes DEF half
  <2>. QED
    BY <2>1, <2>2, <2>4, <2>14, <2>15, BurnFlows
<1>. QED
  BY <1>1, <1>2

\* #transfer burns a quarter of the fee, and the amount only changes hands.
\* It throws only when payer and validator hold more than a balance can.
LEMMA TransferFlows ==
  ASSUME MoneyInv, NEW tx \in Tx, NEW r \in Address, NEW to \in Address,
         NEW amount \in Amount, NEW v \in Address, Transfer(tx, r, to, amount, v),
         (node \in [Address -> NodeEntry])'
  PROVE  Flows
<1>. DEFINE status == TransferStatus(tx, r, to, amount, v)
            cost == Deducted(r, to, amount)
            reward == Share(75)
            charged == [node EXCEPT ![r] = Debit(node[r], cost), ![v] = Credit(node[v], reward)]
<1>1. CASE Refused(status)
  BY <1>1, RefusedFlows
<1>2. amount \in Nat /\ reward \in Nat /\ cost \in Nat /\ Fee \in Nat /\ MaxBalance \in Nat
  <2>1. amount \in Nat
    BY MoneyAssumption
  <2>. QED
    BY <2>1, FeeType, MoneyAssumption DEF Deducted
<1>3. /\ node \in [Address -> NodeEntry]
      /\ node[r].balance \in Nat /\ node[v].balance \in Nat /\ TotalSupply \in Nat
      /\ TotalSupply = Total(node) /\ TotalSupply' = Total(node')
  BY EntriesTyped, SupplyIsTotal
<1>4. CASE status = "THROW" /\ Throw
  <2>1. Cosigned(r, v) /\ ~(node[r].balance < cost) /\ to = v /\ ~CanReceive(v, amount)
    BY <1>4 DEF TransferStatus
  <2>2. r # v
    BY <2>1 DEF Cosigned
  <2>3. cost = amount + Fee /\ node[v].balance + amount > MaxBalance
    BY <1>2, <1>3, <2>1, <2>2 DEF Deducted, CanReceive
  <2>4. Total(node) >= node[r].balance + node[v].balance
    BY <1>3, <2>2, TotalAtLeast
  <2>. HIDE DEF cost
  <2>5. TotalSupply > MaxBalance
    BY <1>2, <1>3, <2>1, <2>3, <2>4
  <2>6. UNCHANGED <<admin, initialization, node>> /\ TotalSupply' = TotalSupply
    BY <1>3, <1>4 DEF Throw, ledger
  <2>. QED
    BY <2>5, <2>6 DEF Flows, MoneyInv, PhaseMatchesAdmin, HasAdmin, HaltsOnlyOnInflation
<1>5. CASE ~Refused(status) /\ ~(status = "THROW" /\ Throw)
  <2>1. /\ Stored(tx, status)
        /\ node' = IF to = r THEN charged
                   ELSE [charged EXCEPT ![to] = Receive(charged[to], amount)]
        /\ UNCHANGED <<admin, initialization>>
    BY <1>5, Zenon DEF Transfer, Pay
  <2>2. status = "SUCCESS" /\ ~halted'
    BY <2>1, StoredRuns
  <2>3. /\ Cosigned(r, v) /\ ~(node[r].balance < cost)
        /\ CanReceive(v, reward + (IF to = v THEN amount ELSE 0))
    BY <2>2 DEF TransferStatus
  <2>4. HasAdmin /\ HasAdmin' /\ r # v
    BY <2>1, <2>3, CosignedHasAdmin DEF HasAdmin, MoneyInv
  <2>5. node[r].balance >= cost /\ node[v].balance + reward <= MaxBalance
    <3>. HIDE DEF cost, reward
    <3>. QED
      BY <1>2, <1>3, <2>3 DEF CanReceive
  <2>6. charged \in [Address -> NodeEntry]
    <3>. HIDE DEF cost, reward
    <3>. QED
      BY <1>2, <1>3, <2>4, <2>5, PaymentType
  <2>7. /\ charged[r] = Debit(node[r], cost) /\ charged[v] = Credit(node[v], reward)
        /\ \A a \in Address \ {r, v} : charged[a] = node[a]
    BY <1>3, <2>4
  <2>8. (to = r => cost = Fee) /\ (to # r => cost = amount + Fee)
    BY DEF Deducted
  <2>. HIDE DEF charged, cost, reward
  <2>9. Total(charged) = Total(node) - cost + reward
    BY <1>2, <1>3, <2>4, <2>6, <2>7, PaymentTotal
  <2>10. TotalSupply' = TotalSupply - (Fee - reward)
    <3>1. CASE to = r
      BY <1>2, <1>3, <2>1, <2>8, <2>9, <3>1
    <3>2. CASE to # r
      <4>1. /\ node'[to] = Receive(charged[to], amount)
            /\ \A a \in Address \ {to} : node'[a] = charged[a]
        BY <2>1, <2>6, <3>2
      <4>2. Total(node') = Total(charged) - Worth(charged[to]) + Worth(node'[to])
        BY <2>6, <4>1, ChangeTotal
      <4>3. charged[to] \in NodeEntry /\ Worth(charged[to]) \in Nat
        BY <2>6, WorthType
      <4>4. Worth(node'[to]) = Worth(charged[to]) + amount
        <5>. DEFINE open == [charged[to] EXCEPT !.role = "READER"]
        <5>1. open \in NodeEntry /\ Worth(open) = Worth(charged[to])
          BY <4>3, RoleWorth DEF Role
        <5>. HIDE DEF open
        <5>2. /\ Worth(Credit(open, amount)) = Worth(open) + amount
              /\ Worth(Credit(charged[to], amount)) = Worth(charged[to]) + amount
          BY <1>2, <4>3, <5>1, CreditWorth
        <5>. QED
          BY <4>1, <5>1, <5>2 DEF Receive, open
      <4>. QED
        BY <1>2, <1>3, <2>8, <2>9, <3>2, <4>2, <4>3, <4>4
    <3>. QED
      BY <3>1, <3>2
  <2>11. Fee - reward \in FeeBurns /\ Fee - reward \in Int
    BY BurnTypes DEF reward
  <2>. QED
    BY <2>1, <2>2, <2>4, <2>10, <2>11, BurnFlows
<1>. QED
  BY <1>1, <1>4, <1>5, Zenon DEF Transfer

-----------------------------------------------------------------------------
(* Batches and penalties *)

\* #validatorPenaltyApply burns what it does not give back of the stake.
LEMMA PenaltyFlows ==
  ASSUME MoneyInv, NEW k \in writers, NEW n \in 1 .. MaxBatch, ValidatorPenalty(k, n),
         ~halted'
  PROVE  Flows
<1>1. CASE Punishable(k, n)
  <2>1. HasAdmin
    BY <1>1 DEF Punishable
  <2>2. PICK x \in Address : x = owner[k]
    BY <2>1 DEF MoneyInv, Inv, WritersAreValidators, TypeOK, LedgerTypeOK
  <2>. DEFINE entry == Punished(node[x], n)
              whole == [NoEntry EXCEPT !.staked = Stake]
  <2>3. /\ IsWriter(x) /\ node \in [Address -> NodeEntry] /\ node[x] \in NodeEntry
        /\ TotalSupply \in Nat /\ TotalSupply = Total(node) /\ TotalSupply' = Total(node')
    BY <2>1, <2>2, EntriesTyped, SupplyIsTotal DEF MoneyInv, Inv, WritersAreValidators
  <2>4. node[x].staked = Stake
    BY <2>3 DEF MoneyInv, Inv, StakeMatchesRole
  <2>5. n \in Nat
    BY BatchAssumption
  <2>6. LeftOfStake(node[x], n) = LeftOfStake(whole, n)
    BY <2>4 DEF LeftOfStake, NoEntry
  <2>7. Stake - LeftOfStake(whole, n) \in PenaltyBurns
    BY DEF PenaltyBurns
  <2>8. LeftOfStake(node[x], n) \in 0 .. Stake
    BY <2>3, <2>4, <2>5, LeftOfStakeType
  <2>9. CanReceive(x, LeftOfStake(node[x], n))
    BY <1>1, <2>2 DEF Punishable
  <2>10. entry \in NodeEntry
    BY <2>3, <2>5, <2>9, PunishedType DEF CanReceive
  <2>11. Worth(entry) = Worth(node[x]) - (Stake - LeftOfStake(node[x], n))
    BY <2>3, <2>4, <2>5, PunishedWorth
  <2>. HIDE DEF whole
  <2>12. /\ node' = [node EXCEPT ![x] = entry]
         /\ UNCHANGED <<admin, initialization>>
    BY <1>1, <2>2 DEF ValidatorPenalty
  <2>. HIDE DEF entry
  <2>13. /\ node' \in [Address -> NodeEntry] /\ node'[x] = entry
         /\ \A a \in Address \ {x} : node'[a] = node[a]
    BY <2>3, <2>10, <2>12
  <2>14. Total(node') = Total(node) - Worth(node[x]) + Worth(entry)
    BY <2>3, <2>13, ChangeTotal
  <2>15. Worth(node[x]) \in Nat
    BY <2>3, WorthType
  <2>16. /\ TotalSupply' = TotalSupply - (Stake - LeftOfStake(node[x], n))
         /\ Stake - LeftOfStake(node[x], n) \in Int
    BY <2>3, <2>8, <2>11, <2>14, <2>15, StakeType
  <2>17. HasAdmin'
    BY <2>1, <2>12 DEF HasAdmin
  <2>. QED
    BY <2>1, <2>6, <2>7, <2>12, <2>16, <2>17, BurnFlows
<1>2. CASE ~Punishable(k, n)
  <2>1. UNCHANGED <<admin, initialization, node>> /\ TotalSupply' = TotalSupply
    BY <1>2, SupplyIsTotal DEF ValidatorPenalty, ledger
  <2>. QED
    BY <2>1 DEF Flows, MoneyInv, PhaseMatchesAdmin, HasAdmin, HaltsOnlyOnInflation
<1>. QED
  BY <1>1, <1>2

\* Starting, ending and rejecting a batch burn a penalty or nothing.
LEMMA BatchStepFlows ==
  ASSUME MoneyInv,
         \/ EndBatch
         \/ \E k \in Key : StartBatch(k) \/ OversizedBatch(k)
  PROVE  Flows
<1>1. CASE EndBatch
  <2>1. batch.from \in writers /\ batch.invalid \in 0 .. MaxBatch /\ MaxBatch \in Nat
    BY <1>1, BatchAssumption DEF EndBatch, MoneyInv, Inv, BatchOfWriter, TypeOK, BatchTypeOK
  <2>2. CASE batch.invalid > 0
    <3>1. ValidatorPenalty(batch.from, batch.invalid) /\ ~halted'
      BY <1>1, <2>2 DEF EndBatch
    <3>2. batch.invalid \in 1 .. MaxBatch
      BY <2>1, <2>2
    <3>. QED
      BY <2>1, <3>1, <3>2, PenaltyFlows
  <2>3. CASE ~(batch.invalid > 0)
    BY <1>1, <2>3, StandStillFlows DEF EndBatch, ledger
  <2>. QED
    BY <2>2, <2>3
<1>2. ASSUME NEW k \in Key, StartBatch(k)
      PROVE  Flows
  BY <1>2, StandStillFlows DEF StartBatch, ledger
<1>3. ASSUME NEW k \in Key, OversizedBatch(k)
      PROVE  Flows
  <2>1. k \in writers /\ ~halted' /\ ValidatorPenalty(k, MaxBatch) /\ MaxBatch \in 1 .. MaxBatch
    BY <1>3, BatchAssumption DEF OversizedBatch
  <2>. QED
    BY <2>1, PenaltyFlows
<1>. QED
  BY <1>1, <1>2, <1>3

\* Every step of the ledger is one of Supply's or leaves the money alone.
LEMMA NextFlows ==
  ASSUME MoneyInv, [Next]_vars
  PROVE  Flows
<1>1. Inv' /\ (node \in [Address -> NodeEntry])'
  BY NextInv DEF MoneyInv, Inv, TypeOK, LedgerTypeOK
<1>2. CASE \/ EndBatch
           \/ \E k \in Key : StartBatch(k) \/ OversizedBatch(k)
  BY <1>2, BatchStepFlows
<1>3. CASE MalformedOperation
  BY <1>3, RefusedFlows DEF MalformedOperation
<1>4. ASSUME NEW tx \in Tx, NEW r \in Address, AdminOperation(tx, r)
      PROVE  Flows
  <2>1. CASE DisableInitialization(tx, r)
    BY <2>1, DisableInitializationFlows
  <2>2. ASSUME NEW to \in Address, NEW amount \in Grant, InitializeBalance(tx, r, to, amount)
        PROVE  Flows
    BY <1>1, <2>2, InitializeBalanceFlows
  <2>3. ASSUME NEW iw \in Key, AddAdmin(tx, r, iw)
        PROVE  Flows
    BY <2>3, AddAdminFlows
  <2>4. ASSUME NEW to \in Address,
               \/ AppendWhitelist(tx, r, to) \/ AddIndexer(tx, r, to)
               \/ RemoveIndexer(tx, r, to) \/ BanValidator(tx, r, to)
        PROVE  Flows
    BY <2>4, AppendWhitelistFlows, AddIndexerFlows, RemoveIndexerFlows, BanValidatorFlows
  <2>. QED
    BY <1>4, <2>1, <2>2, <2>3, <2>4 DEF AdminOperation
<1>5. ASSUME NEW tx \in Tx, NEW r \in Address, NEW v \in Address, CosignedOperation(tx, r, v)
      PROVE  Flows
  <2>1. ASSUME NEW iw \in Key,
               \/ AdminRecovery(tx, r, iw, v) \/ AddWriter(tx, r, iw, v)
               \/ RemoveWriter(tx, r, iw, v)
        PROVE  Flows
    BY <2>1, AdminRecoveryFlows, AddWriterFlows, RemoveWriterFlows
  <2>2. ASSUME NEW bs \in Subnet,
               \/ BootstrapDeployment(tx, r, bs, v) \/ TxOperation(tx, r, bs, v)
        PROVE  Flows
    BY <1>1, <2>2, BootstrapDeploymentFlows, TxOperationFlows
  <2>3. ASSUME NEW to \in Address, NEW amount \in Amount, Transfer(tx, r, to, amount, v)
        PROVE  Flows
    BY <1>1, <2>3, TransferFlows
  <2>. QED
    BY <1>5, <2>1, <2>2, <2>3 DEF CosignedOperation
<1>6. CASE UNCHANGED vars
  BY <1>6, StandStillFlows DEF vars, ledger
<1>. QED
  BY <1>2, <1>3, <1>4, <1>5, <1>6 DEF Next

\* Money stays within what the invariant says.
LEMMA MoneyInvStep == MoneyInv /\ [Next]_vars => MoneyInv'
  BY NextInv, NextFlows DEF MoneyInv, Flows

-----------------------------------------------------------------------------
(* The theorems *)

\* The invariant of the money
LEMMA MoneyInvariant == Spec => []MoneyInv
  BY MoneyInvInit, MoneyInvStep, PTL DEF Spec

\* The ledger implements the fee rules of Supply: whatever the batches, money
\* comes into being with the admin and with balance initializations, and each
\* operation and each penalty burns an amount of the fee table.
THEOREM LedgerImplementsSupply == Spec => ImplementsSupply
<1>1. MoneyInv /\ [Next]_vars => [Money!Next]_<<initialization, TotalSupply>>
  BY NextFlows DEF Flows
<1>2. Init => Money!Init
  BY MoneyInvInit
<1>. QED
  BY <1>1, <1>2, MoneyInvariant, PTL DEF Spec, ImplementsSupply, Money!Spec

\* #transfer throws out of #apply only in a network that has more money than
\* a balance can hold.
THEOREM HaltsOnInflation == Spec => []HaltsOnlyOnInflation
<1>1. MoneyInv => HaltsOnlyOnInflation
  BY DEF MoneyInv
<1>. QED
  BY <1>1, MoneyInvariant, PTL

-----------------------------------------------------------------------------
(* The scan *)

Keys == Len(KeyOrder)

\* The order of keys reaches every key, and only keys.
LEMMA KeysType ==
  /\ Keys \in Nat
  /\ \A n \in 1..Keys : KeyOrder[n] \in Key
  /\ \A k \in Key : \E n \in 1..Keys : KeyOrder[n] = k
  /\ IsFiniteSet(Key)
<1>1. Keys \in Nat /\ KeyOrder \in [1..Keys -> Key]
  BY KeyOrderAssumption DEF Keys
<1>2. \A k \in Key : \E n \in 1..Keys : KeyOrder[n] = k
  BY <1>1, KeyOrderAssumption DEF Range
<1>3. KeyOrder \in Surjection(1..Keys, Key)
  BY <1>1, <1>2 DEF Surjection
<1>4. IsFiniteSet(Key)
  BY <1>1, <1>3, FS_NatSurjection DEF ExistsSurjection
<1>. QED
  BY <1>1, <1>2, <1>4

\* What holds at the start of a scan and with each key holds at its end.
LEMMA InductionOnKeys ==
  ASSUME NEW Q \in SUBSET (0..Keys), 0 \in Q,
         \A n \in 1..Keys : n - 1 \in Q => n \in Q
  PROVE  Q = 0..Keys
<1>1. IsFiniteSet(1..Keys) /\ Keys \in Nat
  BY KeysType, FS_Interval
<1>. DEFINE P == {T \in SUBSET (1..Keys) : \A n \in 0..Keys : T = 1..n => n \in Q}
<1>2. ASSUME NEW T \in SUBSET (1..Keys), \A U \in SUBSET T : U # T => U \in P
      PROVE  T \in P
  <2>. SUFFICES ASSUME NEW n \in 0..Keys, T = 1..n, n # 0 PROVE n \in Q
    OBVIOUS
  <2>1. n - 1 \in 0..Keys /\ 1..n - 1 \in SUBSET T /\ 1..n - 1 # T /\ n \in 1..Keys
    BY <1>1
  <2>2. 1..n - 1 \in P
    BY <1>2, <2>1
  <2>. QED
    BY <2>1, <2>2
<1>. HIDE DEF P
<1>3. P \in SUBSET SUBSET (1..Keys)
  BY DEF P
<1>4. P = SUBSET (1..Keys)
  BY <1>1, <1>2, <1>3, InductionOnSubsets
<1>5. ASSUME NEW n \in 0..Keys PROVE n \in Q
  <2>1. 1..n \in SUBSET (1..Keys)
    BY <1>1
  <2>. QED
    BY <1>4, <2>1 DEF P
<1>. QED
  BY <1>5

\* f is the map of the scan after each of the first n keys.
Scans(f, n) ==
  f = [i \in 0..n |-> IF i = 0 THEN {} ELSE ScanKey(f[i - 1], KeyOrder[i])]

\* FoundWithin is what its equation says.
LEMMA FoundWithinEquation ==
  /\ FoundWithin[0] = {}
  /\ \A n \in 1..Keys : FoundWithin[n] = ScanKey(FoundWithin[n - 1], KeyOrder[n])
<1>1. Keys \in Nat
  BY KeysType
<1>. DEFINE Q == {n \in 0..Keys : \E f : Scans(f, n)}
<1>2. 0 \in Q
  <2>1. Scans([i \in 0..0 |-> {}], 0)
    BY DEF Scans
  <2>. QED
    BY <1>1, <2>1
<1>3. ASSUME NEW n \in 1..Keys, n - 1 \in Q PROVE n \in Q
  <2>1. PICK f : Scans(f, n - 1)
    BY <1>3
  <2>. DEFINE g == [i \in 0..n |-> IF i < n THEN f[i] ELSE ScanKey(f[n - 1], KeyOrder[n])]
  <2>2. ASSUME NEW i \in 0..n
        PROVE  g[i] = IF i = 0 THEN {} ELSE ScanKey(g[i - 1], KeyOrder[i])
    <3>1. CASE i < n
      <4>1. i \in 0..n - 1 /\ (i # 0 => i - 1 \in 0..n /\ i - 1 < n)
        BY <1>1, <3>1
      <4>2. f[i] = IF i = 0 THEN {} ELSE ScanKey(f[i - 1], KeyOrder[i])
        BY <2>1, <4>1 DEF Scans
      <4>3. g[i] = f[i] /\ (i # 0 => g[i - 1] = f[i - 1])
        BY <3>1, <4>1
      <4>. QED
        BY <4>2, <4>3
    <3>2. CASE i = n
      BY <1>1, <3>2
    <3>. QED
      BY <1>1, <3>1, <3>2
  <2>3. Scans(g, n)
    BY <2>2 DEF Scans
  <2>. QED
    BY <2>3
<1>4. Keys \in Q
  <2>. HIDE DEF Q
  <2>1. Q \in SUBSET (0..Keys)
    BY DEF Q
  <2>. QED
    BY <1>1, <1>2, <1>3, <2>1, InductionOnKeys
<1>5. FoundWithin = CHOOSE f : Scans(f, Keys)
  BY DEF FoundWithin, Scans, Keys
<1>6. Scans(FoundWithin, Keys)
  BY <1>4, <1>5
<1>. HIDE DEF Q
<1>7. \A i \in 0..Keys :
        FoundWithin[i] = IF i = 0 THEN {} ELSE ScanKey(FoundWithin[i - 1], KeyOrder[i])
  <2>. DEFINE g == FoundWithin
  <2>1. Scans(g, Keys)
    BY <1>6
  <2>. HIDE DEF g
  <2>2. \A i \in 0..Keys : g[i] = IF i = 0 THEN {} ELSE ScanKey(g[i - 1], KeyOrder[i])
    BY <2>1 DEF Scans
  <2>. QED
    BY <2>2 DEF g
<1>8. 0 \in 0..Keys /\ \A n \in 1..Keys : n \in 0..Keys /\ n # 0
  BY <1>1
<1>. QED
  BY <1>7, <1>8

\* Whoever is found has a key that takes part, and no indexer's but the admin's.
LEMMA FoundHaveKeys ==
  \A a \in Found : \E k \in Listed \cap writers :
    owner[k] = a /\ (k \in indexers => a = admin.addr)
<1>. DEFINE HasKey(a) == \E k \in Listed \cap writers :
                          owner[k] = a /\ (k \in indexers => a = admin.addr)
            Q == {n \in 0..Keys : \A a \in FoundWithin[n] : HasKey(a)}
<1>1. Keys \in Nat
  BY KeysType
<1>2. 0 \in Q
  BY <1>1, FoundWithinEquation
<1>3. ASSUME NEW n \in 1..Keys, n - 1 \in Q PROVE n \in Q
  <2>1. FoundWithin[n] = ScanKey(FoundWithin[n - 1], KeyOrder[n])
    BY FoundWithinEquation
  <2>2. ASSUME NEW a \in FoundWithin[n] PROVE HasKey(a)
    <3>1. CASE a \in FoundWithin[n - 1]
      BY <1>3, <3>1
    <3>2. CASE a \notin FoundWithin[n - 1]
      BY <2>1, <2>2, <3>2 DEF ScanKey
    <3>. QED
      BY <3>1, <3>2
  <2>. QED
    BY <1>1, <2>2
<1>. HIDE DEF Q
<1>4. Keys \in Q
  <2>1. Q \in SUBSET (0..Keys)
    BY DEF Q
  <2>. QED
    BY <1>1, <1>2, <1>3, <2>1, InductionOnKeys
<1>. QED
  BY <1>4 DEF Q, Found, Keys

\* A scan that comes across a writer's only key keeps its address.
LEMMA SoleKeyIsFound ==
  ASSUME NEW a \in Address, NEW k \in Key, KeysOf(a) = {k}, k \in Listed \cap writers,
         k \in indexers => a = admin.addr
  PROVE  a \in Found
<1>. DEFINE Passed(n) == \E i \in 1..n : KeyOrder[i] = k
            Q == {n \in 0..Keys : Passed(n) => a \in FoundWithin[n]}
<1>1. Keys \in Nat /\ owner[k] = a
  BY KeysType DEF KeysOf
<1>2. 0 \in Q
  BY <1>1
<1>3. ASSUME NEW n \in 1..Keys, n - 1 \in Q PROVE n \in Q
  <2>. SUFFICES ASSUME Passed(n) PROVE a \in FoundWithin[n]
    BY <1>1
  <2>1. FoundWithin[n] = ScanKey(FoundWithin[n - 1], KeyOrder[n])
    BY FoundWithinEquation
  <2>2. CASE KeyOrder[n] = k
    BY <1>1, <2>1, <2>2 DEF ScanKey
  <2>3. CASE KeyOrder[n] # k
    <3>1. Passed(n - 1)
      BY <1>1, <2>3
    <3>2. a \in FoundWithin[n - 1]
      BY <1>3, <3>1
    <3>3. owner[KeyOrder[n]] # a
      BY <2>3, KeysType DEF KeysOf
    <3>. QED
      BY <2>1, <3>2, <3>3 DEF ScanKey
  <2>. QED
    BY <2>2, <2>3
<1>4. Passed(Keys)
  BY KeysType
<1>5. Keys \in Q
  <2>. HIDE DEF Q
  <2>1. Q \in SUBSET (0..Keys)
    BY DEF Q
  <2>. QED
    BY <1>1, <1>2, <1>3, <2>1, InductionOnKeys
<1>. QED
  BY <1>4, <1>5 DEF Found, Keys

\* In every state the scan of the base's writers offers current validators
\* only, and every one of them that has kept to one key: that the base leaves
\* out exactly the indexers' nodes is the invariant it rests on.
THEOREM ScanFindsValidators == Spec => []ScanIsFaithful
<1>1. ASSUME Inv PROVE FoundAreCandidates
  <2>. SUFFICES ASSUME NEW a \in Found PROVE IsCandidate(a)
    BY DEF FoundAreCandidates
  <2>1. PICK k \in Listed \cap writers : owner[k] = a /\ (k \in indexers => a = admin.addr)
    BY FoundHaveKeys
  <2>2. k \in Key /\ a # NoAddress /\ a \in Address
    BY <2>1, <1>1 DEF Listed, Inv, TypeOK, LedgerTypeOK
  <2>3. HasAdmin
    BY <1>1, <2>1, <2>2 DEF Inv, BeforeLaunch
  <2>4. IsWriter(a) /\ node[a].wk = k
    BY <1>1, <2>1, <2>3 DEF Inv, WritersAreValidators
  <2>5. IsIndexer(a) => a = admin.addr
    BY <1>1, <2>1, <2>2, <2>3, <2>4 DEF Inv, IndexersTakePart
  <2>. QED
    BY <2>4, <2>5 DEF IsCandidate
<1>2. ASSUME Inv PROVE LoyalWritersAreFound
  <2>. SUFFICES ASSUME NEW a \in Address, IsCandidate(a), Cardinality(KeysOf(a)) = 1
                PROVE  a \in Found \ Dropped
    BY DEF LoyalWritersAreFound
  <2>1. PICK k : KeysOf(a) = {k}
    <3>1. KeysOf(a) \in SUBSET Key
      BY DEF KeysOf
    <3>2. IsFiniteSet(KeysOf(a))
      BY <3>1, KeysType, FS_Subset
    <3>. QED
      BY <3>2, FS_Singleton
  <2>2. HasAdmin
    BY <1>2 DEF Inv, BeforeLaunch, IsCandidate, IsWriter, NoEntry
  <2>3. node[a].wk \in writers /\ node[a].wk \in Key /\ owner[node[a].wk] = a
    BY <1>2, <2>2, KeyAssumption
       DEF Inv, IsCandidate, WritersAreValidators, KeysBelongToNodes, TypeOK, LedgerTypeOK
  <2>4. node[a].wk = k
    BY <2>1, <2>3 DEF KeysOf
  <2>5. k \in Listed \cap writers /\ k \in Key
    BY <2>3, <2>4, AddressAssumption DEF Listed
  <2>6. k \in indexers => a = admin.addr
    BY <1>2, <2>2, <2>3, <2>4 DEF Inv, IndexersAreRecorded, IsCandidate
  <2>7. a \in Found
    BY <2>1, <2>5, <2>6, SoleKeyIsFound
  <2>8. a \notin Dropped
    BY <2>1, <2>5 DEF Dropped, Listed, KeysOf
  <2>. QED
    BY <2>7, <2>8
<1>3. Inv => ScanIsFaithful
  BY <1>1, <1>2 DEF ScanIsFaithful
<1>. QED
  BY <1>3, Invariance, PTL
=============================================================================
