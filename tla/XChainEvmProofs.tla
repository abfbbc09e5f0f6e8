--------------------------- MODULE XChainEvmProofs ---------------------------
(***************************************************************************)
(* For any finite sets of chains and wallets, any balances, fees, number   *)
(* of transfers and of decimals, and any recipients, the contract and what *)
(* is no address among them: what a send leaves in a nimbleXChain contract *)
(* no redeem pays out, all that the wallets began with stays in wallets,   *)
(* contracts and messages, and the contracts implement the ledger of       *)
(* TokenTransfers.  And for any calls of the API and the relay service,    *)
(* tries and lost answers: the same, and one caller at most is told that   *)
(* it redeemed a message.                                                  *)
(***************************************************************************)
EXTENDS XChainClient, FiniteSetTheorems, WellFoundedInduction, TLAPS

-----------------------------------------------------------------------------
(* Sums over finite sets, by induction on the set: SumFunctionOnSet is a   *)
(* recursive function over the subsets, whose solution has to be shown to  *)
(* exist before anything can be said of it.                                *)

\* What holds of a subset of a finite set when it holds of all smaller ones, holds of all.
LEMMA SubsetInduction ==
  ASSUME NEW S, IsFiniteSet(S), NEW A,
         \A T \in SUBSET S : (\A U \in SUBSET T : U # T => U \in A) => T \in A
  PROVE  SUBSET S \subseteq A
<1> DEFINE B == (SUBSET S) \ A
<1> SUFFICES ASSUME B # {} PROVE FALSE
  OBVIOUS
<1>1. IsWellFoundedOn(StrictSubsetOrdering(S), FiniteSubsetsOf(S))
  BY FS_StrictSubsetOrderingWellFounded
<1>2. B \subseteq FiniteSubsetsOf(S)
  BY FS_Subset DEF FiniteSubsetsOf
<1> HIDE DEF B
<1>3. PICK T \in B : \A U \in B : ~(<<U, T>> \in StrictSubsetOrdering(S))
  BY <1>1, <1>2, WFMin
<1>4. \A U \in SUBSET T : U # T => U \notin B
  BY <1>3 DEF StrictSubsetOrdering, B
<1> QED
  BY <1>4 DEF B

\* The element a sum over T starts with, and the equation of the function behind it.
First(T) == CHOOSE x \in T : TRUE
SumStep(f, g, T) == IF T = {} THEN 0 ELSE f[First(T)] + g[T \ {First(T)}]
Solves(f, S, g) == g = [T \in SUBSET S |-> SumStep(f, g, T)]
Solution(f, S) == CHOOSE g : Solves(f, S, g)

\* The folds of the community modules, unfolded.
LEMMA SumIsSolution ==
  ASSUME NEW f, NEW S
  PROVE  SumFunctionOnSet(f, S) = Solution(f, S)[S]
BY DEF SumFunctionOnSet, FoldFunctionOnSet, MapThenFoldSet, Solution, Solves, SumStep, First

\* The first element of a set is in it.
LEMMA FirstIn == ASSUME NEW T, T # {} PROVE First(T) \in T
BY DEF First

\* Two solutions agree where both are defined.
LEMMA SolutionsAgree ==
  ASSUME NEW f, NEW S, IsFiniteSet(S), NEW R \in SUBSET S, NEW g, NEW h,
         Solves(f, S, g), Solves(f, R, h)
  PROVE  \A T \in SUBSET R : g[T] = h[T]
<1> DEFINE A == {T \in SUBSET R : g[T] = h[T]}
<1>1. IsFiniteSet(R)
  BY FS_Subset
<1>2. ASSUME NEW T \in SUBSET R, \A U \in SUBSET T : U # T => U \in A
      PROVE  T \in A
  <2>1. g[T] = SumStep(f, g, T) /\ h[T] = SumStep(f, h, T)
    BY DEF Solves
  <2>2. T # {} => T \ {First(T)} \in A
    BY <1>2, FirstIn
  <2> QED
    BY <2>1, <2>2 DEF SumStep
<1> HIDE DEF A
<1>3. SUBSET R \subseteq A
  BY <1>1, <1>2, SubsetInduction
<1> QED
  BY <1>3 DEF A

\* The function behind a sum exists.
LEMMA SolutionExists ==
  ASSUME NEW f, NEW S, IsFiniteSet(S)
  PROVE  \A T \in SUBSET S : Solves(f, T, Solution(f, T))
<1> DEFINE A == {T \in SUBSET S : Solves(f, T, Solution(f, T))}
<1>1. ASSUME NEW T \in SUBSET S, \A U \in SUBSET T : U # T => U \in A
      PROVE  T \in A
  <2> DEFINE before == [U \in SUBSET T |-> Solution(f, U)[U]]
             h == [U \in SUBSET T |-> SumStep(f, before, U)]
  <2>1. ASSUME NEW U \in SUBSET T, U # T PROVE h[U] = Solution(f, U)[U]
    <3>1. Solves(f, U, Solution(f, U)) /\ IsFiniteSet(U)
      BY <1>1, <2>1, FS_Subset
    <3>2. Solution(f, U)[U] = SumStep(f, Solution(f, U), U)
      BY <3>1 DEF Solves
    <3>3. CASE U = {}
      BY <3>2, <3>3 DEF SumStep
    <3>4. CASE U # {}
      <4> DEFINE V == U \ {First(U)}
      <4>1. V \in SUBSET U /\ V \in SUBSET T /\ V # T
        BY <3>4, FirstIn
      <4>2. Solves(f, V, Solution(f, V))
        BY <1>1, <4>1
      <4>3. Solution(f, U)[V] = Solution(f, V)[V]
        BY <3>1, <4>1, <4>2, SolutionsAgree
      <4> QED
        BY <3>2, <3>4, <4>1, <4>3 DEF SumStep
    <3> QED
      BY <3>3, <3>4
  <2>2. ASSUME NEW U \in SUBSET T PROVE h[U] = SumStep(f, h, U)
    <3>1. h[U] = SumStep(f, before, U)
      OBVIOUS
    <3>2. U # {} => h[U \ {First(U)}] = before[U \ {First(U)}]
      <4> SUFFICES ASSUME U # {} PROVE h[U \ {First(U)}] = before[U \ {First(U)}]
        OBVIOUS
      <4>1. U \ {First(U)} \in SUBSET T /\ U \ {First(U)} # T
        BY FirstIn
      <4>2. before[U \ {First(U)}] = Solution(f, U \ {First(U)})[U \ {First(U)}]
        BY <4>1
      <4> HIDE DEF before, h
      <4> QED
        BY <2>1, <4>1, <4>2
    <3> HIDE DEF before, h
    <3> QED
      BY <3>1, <3>2 DEF SumStep
  <2>3. h = [U \in SUBSET T |-> h[U]]
    OBVIOUS
  <2> HIDE DEF h
  <2>4. Solves(f, T, h)
    BY <2>2, <2>3 DEF Solves
  <2> QED
    BY <2>4 DEF Solution
<1> HIDE DEF A
<1>2. SUBSET S \subseteq A
  BY <1>1, SubsetInduction
<1> QED
  BY <1>2 DEF A

\* The equation of a sum.
LEMMA SumEquation ==
  ASSUME NEW f, NEW S, IsFiniteSet(S)
  PROVE  SumFunctionOnSet(f, S) =
           IF S = {} THEN 0 ELSE f[First(S)] + SumFunctionOnSet(f, S \ {First(S)})
<1>1. Solves(f, S, Solution(f, S))
  BY SolutionExists
<1>2. Solution(f, S)[S] = SumStep(f, Solution(f, S), S)
  BY <1>1 DEF Solves
<1>3. ASSUME S # {}
      PROVE  Solution(f, S)[S \ {First(S)}] = SumFunctionOnSet(f, S \ {First(S)})
  <2> DEFINE V == S \ {First(S)}
  <2>1. Solves(f, V, Solution(f, V))
    BY SolutionExists
  <2>2. V \in SUBSET S /\ V \in SUBSET V
    OBVIOUS
  <2> HIDE DEF V
  <2>3. Solution(f, S)[V] = Solution(f, V)[V]
    BY <1>1, <2>1, <2>2, SolutionsAgree
  <2>4. Solution(f, S)[V] = SumFunctionOnSet(f, V)
    BY <2>3, SumIsSolution
  <2> QED
    BY <2>4 DEF V
<1> QED
  BY <1>2, <1>3, SumIsSolution DEF SumStep

\* The sum over no elements.
LEMMA SumEmpty == ASSUME NEW f PROVE SumFunctionOnSet(f, {}) = 0
BY SumEquation, FS_EmptySet

\* A sum of integers is one, and may start with any element.
LEMMA SumRemove ==
  ASSUME NEW S, IsFiniteSet(S), NEW f, \A x \in S : f[x] \in Int
  PROVE  /\ SumFunctionOnSet(f, S) \in Int
         /\ \A x \in S : SumFunctionOnSet(f, S) = f[x] + SumFunctionOnSet(f, S \ {x})
<1> DEFINE sum(T) == SumFunctionOnSet(f, T)
           Good(T) == sum(T) \in Int /\ \A x \in T : sum(T) = f[x] + sum(T \ {x})
           A == {T \in SUBSET S : Good(T)}
<1>1. ASSUME NEW T \in SUBSET S, \A U \in SUBSET T : U # T => U \in A
      PROVE  T \in A
  <2>1. CASE T = {}
    <3>1. sum(T) = 0
      BY <2>1, SumEmpty
    <3> HIDE DEF sum
    <3> QED
      BY <2>1, <3>1
  <2>2. CASE T # {}
    <3> DEFINE a == First(T)
    <3>1. a \in T /\ sum(T) = f[a] + sum(T \ {a})
      BY <2>2, FirstIn, SumEquation, FS_Subset
    <3> HIDE DEF sum, a
    <3>2. \A U \in SUBSET T : U # T => Good(U)
      BY <1>1
    <3>3. f[a] \in Int /\ sum(T \ {a}) \in Int
      BY <3>1, <3>2
    <3>4. ASSUME NEW x \in T, x # a PROVE sum(T) = f[x] + sum(T \ {x})
      <4> DEFINE rest == sum((T \ {a}) \ {x})
      <4>1. sum(T \ {a}) = f[x] + rest
        BY <3>1, <3>2, <3>4
      <4>2. sum(T \ {x}) = f[a] + rest
        <5>1. (T \ {a}) \ {x} = (T \ {x}) \ {a}
          OBVIOUS
        <5>2. T \ {x} \in SUBSET T /\ T \ {x} # T /\ a \in T \ {x}
          BY <3>1, <3>4
        <5>3. sum(T \ {x}) = f[a] + sum((T \ {x}) \ {a})
          BY <3>2, <5>2
        <5> QED
          BY <5>1, <5>3
      <4>3. f[x] \in Int /\ rest \in Int
        <5>1. (T \ {a}) \ {x} \in SUBSET T /\ (T \ {a}) \ {x} # T
          BY <3>1
        <5> QED
          BY <3>2, <5>1
      <4> HIDE DEF rest
      <4> QED
        BY <3>1, <3>3, <4>1, <4>2, <4>3
    <3> QED
      BY <3>1, <3>3, <3>4
  <2> QED
    BY <2>1, <2>2
<1> HIDE DEF A
<1>2. SUBSET S \subseteq A
  BY <1>1, SubsetInduction
<1> QED
  BY <1>2 DEF A

\* A sum of natural numbers is one.
LEMMA SumNat ==
  ASSUME NEW S, IsFiniteSet(S), NEW f, \A x \in S : f[x] \in Nat
  PROVE  SumFunctionOnSet(f, S) \in Nat
<1> DEFINE A == {T \in SUBSET S : SumFunctionOnSet(f, T) \in Nat}
<1>1. ASSUME NEW T \in SUBSET S, \A U \in SUBSET T : U # T => U \in A
      PROVE  T \in A
  <2>1. CASE T = {}
    BY <2>1, SumEmpty
  <2>2. CASE T # {}
    <3>1. PICK x \in T : TRUE
      BY <2>2
    <3>0. IsFiniteSet(T) /\ \A y \in T : f[y] \in Int
      BY FS_Subset
    <3>2. SumFunctionOnSet(f, T) = f[x] + SumFunctionOnSet(f, T \ {x})
      BY <3>0, SumRemove
    <3>3. SumFunctionOnSet(f, T \ {x}) \in Nat /\ f[x] \in Nat
      BY <1>1
    <3> QED
      BY <3>2, <3>3
  <2> QED
    BY <2>1, <2>2
<1> HIDE DEF A
<1>2. SUBSET S \subseteq A
  BY <1>1, SubsetInduction
<1> QED
  BY <1>2 DEF A

\* Smaller terms, smaller sum.
LEMMA SumMonotonic ==
  ASSUME NEW S, IsFiniteSet(S), NEW f, NEW g,
         \A x \in S : f[x] \in Int /\ g[x] \in Int /\ f[x] <= g[x]
  PROVE  SumFunctionOnSet(f, S) <= SumFunctionOnSet(g, S)
<1> DEFINE A == {T \in SUBSET S : SumFunctionOnSet(f, T) <= SumFunctionOnSet(g, T)}
<1>1. ASSUME NEW T \in SUBSET S, \A U \in SUBSET T : U # T => U \in A
      PROVE  T \in A
  <2>1. CASE T = {}
    BY <2>1, SumEmpty
  <2>2. CASE T # {}
    <3>1. PICK x \in T : TRUE
      BY <2>2
    <3>2. /\ SumFunctionOnSet(f, T) = f[x] + SumFunctionOnSet(f, T \ {x})
          /\ SumFunctionOnSet(g, T) = g[x] + SumFunctionOnSet(g, T \ {x})
          /\ SumFunctionOnSet(f, T \ {x}) \in Int
          /\ SumFunctionOnSet(g, T \ {x}) \in Int
      BY SumRemove, FS_Subset
    <3>3. SumFunctionOnSet(f, T \ {x}) <= SumFunctionOnSet(g, T \ {x})
      BY <1>1
    <3> QED
      BY <3>2, <3>3
  <2> QED
    BY <2>1, <2>2
<1> HIDE DEF A
<1>2. SUBSET S \subseteq A
  BY <1>1, SubsetInduction
<1> QED
  BY <1>2 DEF A

\* A sum depends on no other values of the function.
LEMMA SumSame ==
  ASSUME NEW S, IsFiniteSet(S), NEW f, NEW g, \A x \in S : f[x] \in Int /\ g[x] = f[x]
  PROVE  SumFunctionOnSet(g, S) = SumFunctionOnSet(f, S)
<1>1. /\ SumFunctionOnSet(f, S) <= SumFunctionOnSet(g, S)
      /\ SumFunctionOnSet(g, S) <= SumFunctionOnSet(f, S)
  BY SumMonotonic
<1>2. SumFunctionOnSet(f, S) \in Int /\ SumFunctionOnSet(g, S) \in Int
  BY SumRemove
<1> QED
  BY <1>1, <1>2

\* Nothing but zeros.
LEMMA SumZero ==
  ASSUME NEW S, IsFiniteSet(S), NEW f, \A x \in S : f[x] = 0
  PROVE  SumFunctionOnSet(f, S) = 0
<1> DEFINE A == {T \in SUBSET S : SumFunctionOnSet(f, T) = 0}
<1>1. ASSUME NEW T \in SUBSET S, \A U \in SUBSET T : U # T => U \in A
      PROVE  T \in A
  <2>1. CASE T = {}
    BY <2>1, SumEmpty
  <2>2. CASE T # {}
    <3>1. PICK x \in T : TRUE
      BY <2>2
    <3>2. IsFiniteSet(T) /\ \A y \in T : f[y] \in Int
      BY FS_Subset
    <3>3. SumFunctionOnSet(f, T) = f[x] + SumFunctionOnSet(f, T \ {x})
      BY <3>2, SumRemove
    <3>4. SumFunctionOnSet(f, T \ {x}) = 0 /\ f[x] = 0
      BY <1>1
    <3> QED
      BY <3>3, <3>4
  <2> QED
    BY <2>1, <2>2
<1> HIDE DEF A
<1>2. SUBSET S \subseteq A
  BY <1>1, SubsetInduction
<1> QED
  BY <1>2 DEF A

\* A sum changes with one of its terms.
LEMMA SumChange ==
  ASSUME NEW S, IsFiniteSet(S), NEW a \in S, NEW f, NEW g,
         \A x \in S : f[x] \in Int /\ g[x] \in Int,
         \A x \in S \ {a} : g[x] = f[x]
  PROVE  SumFunctionOnSet(g, S) = SumFunctionOnSet(f, S) + g[a] - f[a]
<1>1. IsFiniteSet(S \ {a})
  BY FS_Subset
<1>2. SumFunctionOnSet(g, S \ {a}) = SumFunctionOnSet(f, S \ {a})
  BY <1>1, SumSame
<1>3. /\ SumFunctionOnSet(g, S) = g[a] + SumFunctionOnSet(g, S \ {a})
      /\ SumFunctionOnSet(f, S) = f[a] + SumFunctionOnSet(f, S \ {a})
      /\ SumFunctionOnSet(f, S \ {a}) \in Int
      /\ f[a] \in Int /\ g[a] \in Int
  BY <1>1, SumRemove
<1> QED
  BY <1>2, <1>3

\* No term of a sum of natural numbers is more than the sum.
LEMMA SumBound ==
  ASSUME NEW S, IsFiniteSet(S), NEW f, \A x \in S : f[x] \in Nat, NEW a \in S
  PROVE  f[a] <= SumFunctionOnSet(f, S)
<1>1. SumFunctionOnSet(f, S) = f[a] + SumFunctionOnSet(f, S \ {a})
  BY SumRemove
<1>2. SumFunctionOnSet(f, S \ {a}) \in Nat
  BY SumNat, FS_Subset
<1> QED
  BY <1>1, <1>2

\* Two amounts put to a sum, to two of its terms or to the same one.
LEMMA SumPut ==
  ASSUME NEW S, IsFiniteSet(S), NEW a \in S, NEW b \in S, NEW p \in Int, NEW q \in Int,
         NEW f, NEW g, \A x \in S : f[x] \in Int,
         \A x \in S : g[x] = f[x] + (IF x = a THEN p ELSE 0) + (IF x = b THEN q ELSE 0)
  PROVE  SumFunctionOnSet(g, S) = SumFunctionOnSet(f, S) + p + q
<1> DEFINE mid == [x \in S |-> f[x] + (IF x = a THEN p ELSE 0)]
<1>1. \A x \in S : mid[x] \in Int /\ g[x] \in Int /\ g[x] = mid[x] + (IF x = b THEN q ELSE 0)
  OBVIOUS
<1>2. mid[a] = f[a] + p /\ \A x \in S \ {a} : mid[x] = f[x]
  OBVIOUS
<1> HIDE DEF mid
<1>3. SumFunctionOnSet(mid, S) = SumFunctionOnSet(f, S) + mid[a] - f[a]
  BY <1>1, <1>2, SumChange
<1>4. SumFunctionOnSet(g, S) = SumFunctionOnSet(mid, S) + g[b] - mid[b]
  BY <1>1, SumChange
<1>5. g[b] = mid[b] + q /\ f[a] \in Int /\ mid[b] \in Int
  BY <1>1
<1>6. SumFunctionOnSet(f, S) \in Int
  BY SumRemove
<1> QED
  BY <1>2, <1>3, <1>4, <1>5, <1>6

-----------------------------------------------------------------------------
(* Amounts.                                                                *)

\* What a division leaves is less than the divisor.
LEMMA Remainder ==
  ASSUME NEW n \in Nat, NEW d \in Nat \ {0}
  PROVE  /\ n \div d \in Nat
         /\ (n \div d) * d <= n
         /\ n - (n \div d) * d < d
  OBVIOUS

\* A chain carries in steps of one of its smallest amounts, or of Unit of them.
LEMMA ScaleType == ASSUME NEW c \in Chain PROVE Scale(c) \in Nat \ {0}
  BY BridgeAssumption DEF Scale

\* The bridge takes a whole number of steps, and leaves less than one.
LEMMA CarriedBounds ==
  ASSUME NEW c \in Chain, NEW amount \in Nat
  PROVE  /\ NormalizeAmount(c, amount) \in Nat
         /\ Carried(c, amount) \in Nat
         /\ Carried(c, amount) <= amount
         /\ amount - Carried(c, amount) < Scale(c)
  <1>1. Scale(c) \in Nat \ {0}
    BY ScaleType
  <1>2. /\ amount \div Scale(c) \in Nat
        /\ (amount \div Scale(c)) * Scale(c) <= amount
        /\ amount - (amount \div Scale(c)) * Scale(c) < Scale(c)
    BY <1>1, Remainder
  <1>3. (amount \div Scale(c)) * Scale(c) \in Nat
    BY <1>1, <1>2
  <1> QED
    BY <1>2, <1>3 DEF Carried, NormalizeAmount, DenormalizeAmount

-----------------------------------------------------------------------------
(* The invariant.  ResidueStays needs to know that amounts and fees are    *)
(* natural numbers; the types of everything but the custody, which needs   *)
(* the sums further below, go with it.                                     *)

LedgerTypes ==
  /\ bal \in [Chain -> [Holder -> Nat]]
  /\ allowance \in [Chain -> Nat]
  /\ sent \in Seq(Message)
  /\ completed \subseteq DOMAIN sent

GovernanceTypes ==
  /\ fee \in [Chain -> [percentage : Percentage, precision : Precision]]
  /\ emitters \in [Chain -> [Chain -> Chain \cup {"other", "zero"}]]

ResidueInv == LedgerTypes /\ GovernanceTypes /\ ResidueStays

\* The constructors leave no tokens and no allowance.
LEMMA InitResidue == Init => ResidueInv
  <1> SUFFICES ASSUME Init PROVE ResidueInv
    OBVIOUS
  <1>1. /\ bal \in [Chain -> [Holder -> Nat]]
        /\ \A c \in Chain : bal[c][XChain] = 0
    BY XChainAssumption, BridgeAssumption DEF Init, Holder
  <1>2. LedgerTypes /\ GovernanceTypes
    BY <1>1, XChainAssumption DEF Init, LedgerTypes, GovernanceTypes
  <1>3. \A c \in Chain : 0 < Scale(c) /\ allowance[c] = 0
    BY ScaleType DEF Init
  <1> QED
    BY <1>1, <1>2, <1>3 DEF ResidueInv, ResidueStays

\* The fee that Pay subtracts is a natural number not above the amount.
LEMMA FeeType ==
  ASSUME GovernanceTypes, NEW c \in Chain, NEW amount \in Nat
  PROVE  CalculateRelayerFee(c, amount) \in Nat
  <1>1. fee[c].percentage \in Nat /\ fee[c].precision \in Nat \ {0}
    BY XChainAssumption DEF GovernanceTypes
  <1>2. amount * fee[c].percentage \in Nat
    BY <1>1
  <1> QED
    BY <1>1, <1>2, Remainder DEF CalculateRelayerFee

\* A payment takes nothing from anybody, the contract either.
LEMMA PayPreserves ==
  ASSUME bal \in [Chain -> [Holder -> Nat]],
         NEW c \in Chain, NEW recipient \in Holder, NEW caller \in Account,
         NEW amount \in Nat, NEW relayerFee \in Nat, relayerFee <= amount,
         Pay(c, recipient, amount, caller, relayerFee)
  PROVE  /\ bal' \in [Chain -> [Holder -> Nat]]
         /\ \A d \in Chain : bal'[d][XChain] >= bal[d][XChain]
  <1> DEFINE paid == [h \in Holder |->
                       bal[c][h] + (IF h = recipient THEN amount - relayerFee ELSE 0)
                                 + (IF h = caller THEN relayerFee ELSE 0)]
  <1>1. bal' = [bal EXCEPT ![c] = paid]
    BY DEF Pay
  <1>2. bal[c] \in [Holder -> Nat]
    OBVIOUS
  <1>3. paid \in [Holder -> Nat]
    BY <1>2
  <1>4. XChain \in Holder
    BY DEF Holder
  <1>5. paid[XChain] >= bal[c][XChain]
    BY <1>2, <1>4
  <1> HIDE DEF paid
  <1>6. \A d \in Chain : bal[d][XChain] \in Nat
    BY <1>4
  <1> QED
    BY <1>1, <1>3, <1>5, <1>6

\* Every step keeps the invariant.
LEMMA NextResidue == ResidueInv /\ [Next]_vars => ResidueInv'
  <1> SUFFICES ASSUME ResidueInv, [Next]_vars PROVE ResidueInv'
    OBVIOUS
  <1>1. ASSUME NEW c \in Chain, NEW d \in Chain, NEW address \in {d, "other"},
               RegisterEmitter(c, d, address)
        PROVE  ResidueInv'
    <2>1. /\ UNCHANGED <<bal, allowance, custody, sent, completed, fee>>
          /\ emitters' = [emitters EXCEPT ![c][d] = address]
      BY <1>1 DEF RegisterEmitter, bridge
    <2>2. GovernanceTypes'
      BY <2>1 DEF ResidueInv, GovernanceTypes
    <2> QED
      BY <2>1, <2>2 DEF ResidueInv, LedgerTypes, ResidueStays
  <1>2. ASSUME NEW c \in Chain, NEW percentage \in Percentage, NEW precision \in Precision,
               UpdateRelayerFee(c, percentage, precision)
        PROVE  ResidueInv'
    <2>1. /\ UNCHANGED <<bal, allowance, custody, sent, completed, emitters>>
          /\ fee' = [fee EXCEPT ![c] = [percentage |-> percentage, precision |-> precision]]
      BY <1>2 DEF UpdateRelayerFee, bridge
    <2>2. GovernanceTypes'
      BY <2>1 DEF ResidueInv, GovernanceTypes
    <2> QED
      BY <2>1, <2>2 DEF ResidueInv, LedgerTypes, ResidueStays
  <1>3. ASSUME NEW c \in Chain, NEW to \in Chain, NEW user \in Account, NEW recipient \in Recipient,
               NEW amount \in 0..bal[c][user],
               SendTokensWithPayload(c, user, amount, to, recipient)
        PROVE  ResidueInv'
    <2> DEFINE rest == amount - Carried(c, amount)
               message == [from |-> c, to |-> to, contract |-> emitters[c][to],
                           amount |-> NormalizeAmount(c, amount), recipient |-> recipient]
    <2>1. /\ bal' = [bal EXCEPT ![c][user] = @ - amount, ![c][XChain] = @ + rest]
          /\ allowance' = [allowance EXCEPT ![c] = rest]
          /\ sent' = Append(sent, message)
          /\ UNCHANGED <<completed, fee, emitters>>
          /\ emitters[c][to] # "zero"
      BY <1>3 DEF SendTokensWithPayload, Deposit, TransferTokens, MayBeSent, governance
    <2>2. /\ bal[c] \in [Holder -> Nat]
          /\ user \in Holder /\ XChain \in Holder /\ user # XChain
      BY BridgeAssumption DEF ResidueInv, LedgerTypes, Holder
    <2>3. amount \in Nat /\ amount <= bal[c][user]
      BY <2>2
    <2>4. rest \in Nat /\ rest < Scale(c) /\ NormalizeAmount(c, amount) \in Nat
      BY <2>3, CarriedBounds
    <2>5. bal[c][XChain] \in Nat
      BY <2>2
    <2>6. message \in Message
      BY <2>1, <2>4 DEF ResidueInv, GovernanceTypes, Message
    <2> HIDE DEF rest, message
    <2>7. /\ bal' \in [Chain -> [Holder -> Nat]]
          /\ rest <= bal'[c][XChain]
          /\ \A d \in Chain \ {c} : bal'[d] = bal[d]
      <3> DEFINE mid == [bal EXCEPT ![c][user] = bal[c][user] - amount]
      <3>1. bal \in [Chain -> [Holder -> Nat]]
        BY DEF ResidueInv, LedgerTypes
      <3>2. bal[c][user] - amount \in Nat
        BY <2>2, <2>3
      <3>3. /\ mid \in [Chain -> [Holder -> Nat]]
            /\ mid[c][XChain] = bal[c][XChain]
            /\ \A d \in Chain \ {c} : mid[d] = bal[d]
        BY <2>2, <2>5, <3>1, <3>2
      <3>4. bal' = [mid EXCEPT ![c][XChain] = mid[c][XChain] + rest]
        BY <2>1, <2>2, <3>1
      <3> HIDE DEF mid
      <3>5. bal[c][XChain] + rest \in Nat /\ rest <= bal[c][XChain] + rest
        BY <2>4, <2>5
      <3>6. bal' = [mid EXCEPT ![c][XChain] = bal[c][XChain] + rest]
        BY <3>3, <3>4
      <3> QED
        BY <2>2, <3>3, <3>5, <3>6
    <2>8. sent' \in Seq(Message) /\ DOMAIN sent \subseteq DOMAIN sent'
      BY <2>1, <2>6 DEF ResidueInv, LedgerTypes
    <2>9. allowance' \in [Chain -> Nat]
      BY <2>1, <2>4 DEF ResidueInv, LedgerTypes
    <2>10. LedgerTypes'
      BY <2>1, <2>7, <2>8, <2>9 DEF ResidueInv, LedgerTypes
    <2>11. GovernanceTypes'
      BY <2>1 DEF ResidueInv, GovernanceTypes
    <2>12. \A d \in Chain : allowance'[d] <= bal'[d][XChain] /\ allowance'[d] < Scale(d)
      BY <2>1, <2>4, <2>7 DEF ResidueInv, LedgerTypes, ResidueStays
    <2> QED
      BY <2>10, <2>11, <2>12 DEF ResidueInv, ResidueStays, Scale
  <1>4. ASSUME NEW c \in Chain, NEW id \in DOMAIN sent, NEW caller \in Account,
               RedeemTransferWithPayload(c, id, caller)
        PROVE  ResidueInv'
    <2> DEFINE amount == Received(c, id)
               recipient == sent[id].recipient
    <2>1. /\ completed' = completed \cup {id}
          /\ UNCHANGED <<sent, allowance, fee, emitters>>
      BY <1>4 DEF RedeemTransferWithPayload, CompleteTransfer, governance
    <2>2. sent[id] \in Message
      BY DEF ResidueInv, LedgerTypes
    <2>3. recipient \in Holder /\ sent[id].amount \in Nat
      BY <1>4, <2>2 DEF Message, RedeemTransferWithPayload
    <2>4. amount \in Nat
      BY <2>3, ScaleType DEF Received, DenormalizeAmount
    <2>5. \E relayerFee \in Nat :
             relayerFee <= amount /\ Pay(c, recipient, amount, caller, relayerFee)
      <3>1. CASE Pay(c, recipient, amount, caller, 0)
        BY <3>1, <2>4
      <3>2. CASE /\ CalculateRelayerFee(c, amount) <= amount
                 /\ Pay(c, recipient, amount, caller, CalculateRelayerFee(c, amount))
        BY <3>2, <2>4, FeeType DEF ResidueInv
      <3> QED
        BY <1>4, <3>1, <3>2 DEF RedeemTransferWithPayload
    <2>6. /\ bal' \in [Chain -> [Holder -> Nat]]
          /\ \A d \in Chain : bal'[d][XChain] >= bal[d][XChain]
      <3>1. PICK relayerFee \in Nat :
               relayerFee <= amount /\ Pay(c, recipient, amount, caller, relayerFee)
        BY <2>5
      <3> QED
        BY <3>1, <2>3, <2>4, PayPreserves DEF ResidueInv, LedgerTypes
    <2>7. ResidueStays'
      <3> SUFFICES ASSUME NEW d \in Chain
                   PROVE  allowance'[d] <= bal'[d][XChain] /\ allowance'[d] < Scale(d)
        BY DEF ResidueStays, Scale
      <3>1. /\ allowance[d] <= bal[d][XChain] /\ allowance[d] < Scale(d)
            /\ allowance[d] \in Nat /\ bal[d][XChain] \in Nat /\ bal'[d][XChain] \in Nat
        BY <2>6 DEF ResidueInv, ResidueStays, LedgerTypes, Holder
      <3> QED
        BY <2>1, <2>6, <3>1
    <2> QED
      BY <2>1, <2>6, <2>7 DEF ResidueInv, LedgerTypes, GovernanceTypes
  <1>5. ASSUME NEW c \in Chain, NEW user \in Account, NEW amount \in 1..bal[c][user],
               GiveToContract(c, user, amount)
        PROVE  ResidueInv'
    <2>1. /\ bal' = [bal EXCEPT ![c][user] = @ - amount, ![c][XChain] = @ + amount]
          /\ UNCHANGED <<allowance, sent, completed, fee, emitters>>
      BY <1>5 DEF GiveToContract, governance
    <2>2. /\ bal \in [Chain -> [Holder -> Nat]] /\ bal[c] \in [Holder -> Nat]
          /\ user \in Holder /\ XChain \in Holder /\ user # XChain
      BY BridgeAssumption DEF ResidueInv, LedgerTypes, Holder
    <2>3. /\ bal[c][user] - amount \in Nat /\ bal[c][XChain] \in Nat
          /\ bal[c][XChain] + amount \in Nat /\ bal[c][XChain] <= bal[c][XChain] + amount
      BY <2>2
    <2> DEFINE mid == [bal EXCEPT ![c][user] = bal[c][user] - amount]
    <2>4. /\ mid \in [Chain -> [Holder -> Nat]] /\ mid[c][XChain] = bal[c][XChain]
          /\ \A d \in Chain \ {c} : mid[d] = bal[d]
      BY <2>2, <2>3
    <2>5. bal' = [mid EXCEPT ![c][XChain] = bal[c][XChain] + amount]
      BY <2>1, <2>2
    <2> HIDE DEF mid
    <2>6. /\ bal' \in [Chain -> [Holder -> Nat]]
          /\ bal'[c][XChain] = bal[c][XChain] + amount
          /\ \A d \in Chain \ {c} : bal'[d] = bal[d]
      BY <2>2, <2>3, <2>4, <2>5
    <2>7. ResidueStays'
      <3> SUFFICES ASSUME NEW d \in Chain
                   PROVE  allowance'[d] <= bal'[d][XChain] /\ allowance'[d] < Scale(d)
        BY DEF ResidueStays, Scale
      <3>1. /\ allowance[d] <= bal[d][XChain] /\ allowance[d] < Scale(d) /\ allowance[d] \in Nat
        BY DEF ResidueInv, ResidueStays, LedgerTypes
      <3> QED
        BY <2>1, <2>3, <2>6, <3>1
    <2> QED
      BY <2>1, <2>6, <2>7 DEF ResidueInv, LedgerTypes, GovernanceTypes
  <1>6. CASE UNCHANGED vars
    BY <1>6 DEF vars, bridge, governance, ResidueInv, LedgerTypes, GovernanceTypes,
                ResidueStays, Scale
  <1> QED
    BY <1>1, <1>2, <1>3, <1>4, <1>5, <1>6 DEF Next

\* Whatever is sent, redeemed and given, for whatever recipients: what a send leaves in
\* the contract of a chain, approved to the bridge, no redeem pays out.
THEOREM ResidueKept == Spec => []ResidueStays
  <1>1. ResidueInv => ResidueStays
    BY DEF ResidueInv
  <1> QED
    BY InitResidue, NextResidue, <1>1, PTL DEF Spec

-----------------------------------------------------------------------------
(* What everybody owns, over all chains.                                   *)

\* One smallest amount of a chain is worth a whole number of those of the home chain,
\* and one of those a message carries is worth Unit of them, from whatever chain.
LEMMA WorthType ==
  ASSUME NEW c \in Chain
  PROVE  /\ Worth(c) \in Nat \ {0}
         /\ Worth(Home) = 1
         /\ \A n \in Int : Worth(c) * (n * Scale(c)) = Unit * n
  <1>1. Worth(Home) = 1 /\ Worth(c) \in {1, Unit} /\ Worth(c) * Scale(c) = Unit
    BY BridgeAssumption DEF Worth, Scale
  <1>2. CASE c = Home
    BY <1>1, <1>2, BridgeAssumption DEF Scale
  <1>3. CASE c # Home
    BY <1>1, <1>3, BridgeAssumption DEF Scale, Worth
  <1> QED
    BY <1>2, <1>3

\* Multiplication by a worth distributes, and keeps order and sign.
LEMMA Products ==
  ASSUME NEW w \in Nat, NEW m \in Int, NEW n \in Int
  PROVE  /\ w * m \in Int
         /\ w * (m + n) = w * m + w * n
         /\ w * (m - n) = w * m - w * n
         /\ m <= n => w * m <= w * n
         /\ m \in Nat => w * m \in Nat
  OBVIOUS

\* Balances b and what they are worth to holder h.
Balances == [Chain -> [Holder -> Nat]]
Worths(b, h) == [c \in Chain |-> Worth(c) * b[c][h]]

\* Owned is the sum over the chains of the worths, before a transaction and after it.
LEMMA OwnedIsSum ==
  ASSUME NEW h
  PROVE  /\ Owned(h) = SumFunctionOnSet(Worths(bal, h), Chain)
         /\ Owned(h)' = SumFunctionOnSet(Worths(bal', h), Chain)
  BY DEF Owned, SumFunction, Worths, Worth, Scale

\* A worth is a natural number, and so is their sum.
LEMMA WorthsType ==
  ASSUME NEW b \in Balances, NEW h \in Holder
  PROVE  /\ \A c \in Chain : Worths(b, h)[c] \in Nat /\ Worths(b, h)[c] \in Int
         /\ SumFunctionOnSet(Worths(b, h), Chain) \in Nat
  <1>1. \A c \in Chain : b[c][h] \in Nat /\ Worth(c) \in Nat
    BY WorthType DEF Balances
  <1>2. \A c \in Chain : Worths(b, h)[c] \in Nat
    BY <1>1, Products DEF Worths
  <1> QED
    BY <1>2, BridgeAssumption, SumNat

\* A transaction on chain c that puts p to the balance of a and q to that of b.
Puts(c, a, p, b, q) ==
  /\ bal' \in Balances
  /\ \A h \in Holder :
       bal'[c][h] = bal[c][h] + (IF h = a THEN p ELSE 0) + (IF h = b THEN q ELSE 0)
  /\ \A d \in Chain \ {c} : bal'[d] = bal[d]

\* It puts as much as they are worth to what a and b own.
LEMMA PutsOwned ==
  ASSUME bal \in Balances, NEW c \in Chain, NEW a \in Holder, NEW b \in Holder,
         NEW p \in Int, NEW q \in Int, Puts(c, a, p, b, q), NEW h \in Holder
  PROVE  /\ Owned(h) \in Nat /\ Owned(h)' \in Nat
         /\ Owned(h)' = Owned(h) + (IF h = a THEN Worth(c) * p ELSE 0)
                                 + (IF h = b THEN Worth(c) * q ELSE 0)
  <1> DEFINE f == Worths(bal, h)
             g == Worths(bal', h)
             pa == IF h = a THEN p ELSE 0
             qb == IF h = b THEN q ELSE 0
  <1>1. bal' \in Balances
    BY DEF Puts
  <1>2. /\ \A d \in Chain : f[d] \in Int /\ g[d] \in Int
        /\ SumFunctionOnSet(f, Chain) \in Nat /\ SumFunctionOnSet(g, Chain) \in Nat
    BY <1>1, WorthsType
  <1>3. \A d \in Chain \ {c} : g[d] = f[d]
    BY DEF Worths, Puts
  <1>4. Worth(c) \in Nat /\ bal[c][h] \in Int /\ pa \in Int /\ qb \in Int
    BY WorthType DEF Balances
  <1>5. bal'[c][h] = (bal[c][h] + pa) + qb
    BY DEF Puts
  <1>6. g[c] = Worth(c) * ((bal[c][h] + pa) + qb) /\ f[c] = Worth(c) * bal[c][h]
    BY <1>5 DEF Worths
  <1>7. SumFunctionOnSet(g, Chain) = SumFunctionOnSet(f, Chain) + g[c] - f[c]
    <2> HIDE DEF f, g
    <2> QED
      BY <1>2, <1>3, SumChange, BridgeAssumption
  <1>8. Worth(c) * pa = (IF h = a THEN Worth(c) * p ELSE 0)
        /\ Worth(c) * qb = (IF h = b THEN Worth(c) * q ELSE 0)
    BY <1>4
  <1> HIDE DEF f, g, pa, qb
  <1>9. g[c] = (Worth(c) * bal[c][h] + Worth(c) * pa) + Worth(c) * qb
    BY <1>4, <1>6, Products
  <1>10. Worth(c) * pa \in Int /\ Worth(c) * qb \in Int /\ Worth(c) * bal[c][h] \in Int
    BY <1>4, Products
  <1>11. SumFunctionOnSet(g, Chain) = SumFunctionOnSet(f, Chain) + Worth(c) * pa + Worth(c) * qb
    BY <1>2, <1>6, <1>7, <1>9, <1>10
  <1>12. Owned(h) = SumFunctionOnSet(f, Chain) /\ Owned(h)' = SumFunctionOnSet(g, Chain)
    BY OwnedIsSum DEF f, g
  <1> QED
    BY <1>2, <1>8, <1>11, <1>12

\* The wallets and the contract of a chain are finitely many.
LEMMA HolderFinite == IsFiniteSet(Holder)
  BY BridgeAssumption, FS_AddElement DEF Holder

\* And p and q to what there is on its chain.
LEMMA PutsHome ==
  ASSUME bal \in Balances, NEW c \in Chain, NEW a \in Holder, NEW b \in Holder,
         NEW p \in Int, NEW q \in Int, Puts(c, a, p, b, q)
  PROVE  SumFunction(bal[Home])' = SumFunction(bal[Home]) + (IF c = Home THEN p + q ELSE 0)
  <1>1. /\ bal[Home] \in [Holder -> Nat] /\ bal'[Home] \in [Holder -> Nat]
        /\ \A h \in Holder : bal[Home][h] \in Int
    BY BridgeAssumption DEF Balances, Puts
  <1>2. /\ SumFunction(bal[Home]) = SumFunctionOnSet(bal[Home], Holder)
        /\ SumFunction(bal[Home])' = SumFunctionOnSet(bal'[Home], Holder)
    BY <1>1 DEF SumFunction
  <1>3. SumFunctionOnSet(bal[Home], Holder) \in Int
    BY <1>1, HolderFinite, SumRemove
  <1>4. CASE c = Home
    <2>1. \A h \in Holder : bal'[Home][h] = bal[Home][h] + (IF h = a THEN p ELSE 0)
                                                         + (IF h = b THEN q ELSE 0)
      BY <1>4 DEF Puts
    <2> DEFINE f == bal[Home]
               g == bal'[Home]
    <2> HIDE DEF f, g
    <2>2. SumFunctionOnSet(g, Holder) = SumFunctionOnSet(f, Holder) + p + q
      <3>1. /\ \A h \in Holder : f[h] \in Int
            /\ \A h \in Holder : g[h] = f[h] + (IF h = a THEN p ELSE 0)
                                            + (IF h = b THEN q ELSE 0)
        BY <1>1, <2>1 DEF f, g
      <3> QED
        BY <3>1, HolderFinite, SumPut
    <2> QED
      BY <1>2, <1>3, <1>4, <2>2 DEF f, g
  <1>5. CASE c # Home
    BY <1>2, <1>3, <1>5, BridgeAssumption DEF Puts
  <1> QED
    BY <1>4, <1>5

-----------------------------------------------------------------------------
(* What the transactions move.  Written with Puts, a send is a negative    *)
(* amount for the sender and what the bridge does not take for the         *)
(* contract, a redeem the amount less the fee and the fee.                 *)

\* sendTokensWithPayload takes the amount from the sender and leaves the contract what the
\* bridge cannot carry; the message has the rest, which the home chain's bridge locks.
LEMMA SendPuts ==
  ASSUME ResidueInv, NEW c \in Chain, NEW to \in Chain, NEW user \in Account,
         NEW recipient \in Recipient, NEW amount \in 0..bal[c][user],
         SendTokensWithPayload(c, user, amount, to, recipient)
  PROVE  LET rest == amount - Carried(c, amount)
             units == NormalizeAmount(c, amount)
         IN  /\ amount \in Nat /\ amount > 0 /\ rest \in Nat /\ rest < amount
             /\ units \in Nat /\ Worth(c) * (amount - rest) = Unit * units
             /\ Puts(c, user, 0 - amount, XChain, rest)
             /\ sent' = Append(sent, [from |-> c, to |-> to, contract |-> emitters[c][to],
                                      amount |-> units, recipient |-> recipient])
             /\ completed' = completed
             /\ custody' = IF c = Home THEN custody + (amount - rest) ELSE custody
  <1> DEFINE rest == amount - Carried(c, amount)
             units == NormalizeAmount(c, amount)
  <1>1. /\ bal' = [bal EXCEPT ![c][user] = @ - amount, ![c][XChain] = @ + rest]
        /\ sent' = Append(sent, [from |-> c, to |-> to, contract |-> emitters[c][to],
                                 amount |-> units, recipient |-> recipient])
        /\ completed' = completed
        /\ custody' = IF c = Home THEN custody + Carried(c, amount) ELSE custody
        /\ amount > 0 /\ units > 0
    BY DEF SendTokensWithPayload, Deposit, TransferTokens, MayBeSent
  <1>2. /\ bal \in Balances /\ bal[c] \in [Holder -> Nat] /\ bal' \in Balances
        /\ user \in Holder /\ XChain \in Holder /\ user # XChain
    <2>1. ResidueInv'
      BY NextResidue DEF Next
    <2> QED
      BY <2>1, BridgeAssumption DEF ResidueInv, LedgerTypes, Balances, Holder
  <1>3. amount \in Nat /\ amount <= bal[c][user]
    BY <1>2
  <1>4. /\ units \in Nat /\ Carried(c, amount) \in Nat /\ rest \in Nat
        /\ Carried(c, amount) <= amount
    BY <1>3, CarriedBounds
  <1>5. Carried(c, amount) = units * Scale(c) /\ Scale(c) \in Nat \ {0}
    BY ScaleType DEF Carried, DenormalizeAmount
  <1> HIDE DEF units
  <1>6. Carried(c, amount) > 0
    BY <1>1, <1>4, <1>5
  <1>7. Worth(c) * Carried(c, amount) = Unit * units
    BY <1>4, <1>5, WorthType
  <1>8. amount - rest = Carried(c, amount) /\ rest < amount
    BY <1>3, <1>4, <1>6
  <1>9. custody' = IF c = Home THEN custody + (amount - rest) ELSE custody
    BY <1>1, <1>8
  <1> HIDE DEF rest
  <1>10. Puts(c, user, 0 - amount, XChain, rest)
    <2>1. \A h \in Holder :
            bal'[c][h] = bal[c][h] + (IF h = user THEN 0 - amount ELSE 0)
                                   + (IF h = XChain THEN rest ELSE 0)
      <3> TAKE h \in Holder
      <3>1. bal[c][h] \in Nat
        BY <1>2
      <3>2. bal'[c] = [bal[c] EXCEPT ![user] = @ - amount, ![XChain] = @ + rest]
        BY <1>1, <1>2 DEF Balances
      <3>3. CASE h = user
        BY <1>2, <1>3, <3>1, <3>2, <3>3
      <3>4. CASE h = XChain
        BY <1>2, <1>4, <3>1, <3>2, <3>4
      <3>5. CASE h # user /\ h # XChain
        BY <1>2, <3>1, <3>2, <3>5
      <3> QED
        BY <3>3, <3>4, <3>5
    <2>2. \A d \in Chain \ {c} : bal'[d] = bal[d]
      BY <1>1, <1>2 DEF Balances
    <2> QED
      BY <1>2, <2>1, <2>2 DEF Puts
  <1> QED
    BY <1>1, <1>3, <1>4, <1>7, <1>8, <1>9, <1>10 DEF rest, units

\* redeemTransferWithPayload gives all that the message carries to the recipient and the
\* caller, who keeps nothing of it when it is the recipient, and completes the message.
LEMMA RedeemPuts ==
  ASSUME ResidueInv, NEW c \in Chain, NEW id \in DOMAIN sent, NEW caller \in Account,
         RedeemTransferWithPayload(c, id, caller)
  PROVE  LET amount == Received(c, id)
             recipient == sent[id].recipient
         IN  /\ id \notin completed /\ completed' = completed \cup {id}
             /\ UNCHANGED sent
             /\ recipient \in Holder /\ amount \in Nat /\ sent[id].amount \in Nat
             /\ Worth(c) * amount = Unit * sent[id].amount
             /\ custody' = IF c = Home THEN custody - amount ELSE custody
             /\ \E kept \in Nat : /\ kept <= amount
                                  /\ caller = recipient => kept = 0
                                  /\ Puts(c, recipient, amount - kept, caller, kept)
  <1> DEFINE amount == Received(c, id)
             recipient == sent[id].recipient
  <1>1. /\ id \notin completed /\ completed' = completed \cup {id}
        /\ UNCHANGED sent
        /\ custody' = IF c = Home THEN custody - amount ELSE custody
    BY DEF RedeemTransferWithPayload, CompleteTransfer, CanComplete
  <1>2. recipient \in Holder /\ sent[id].amount \in Nat
    <2>1. sent[id] \in Message
      BY DEF ResidueInv, LedgerTypes
    <2> QED
      BY <2>1 DEF Message, RedeemTransferWithPayload
  <1>3. amount = sent[id].amount * Scale(c) /\ amount \in Nat
    BY <1>2, ScaleType DEF Received, DenormalizeAmount
  <1>4. Worth(c) * amount = Unit * sent[id].amount
    BY <1>2, <1>3, WorthType
  <1>5. bal \in Balances /\ bal' \in Balances
    <2>1. ResidueInv'
      BY NextResidue DEF Next
    <2> QED
      BY <2>1 DEF ResidueInv, LedgerTypes, Balances
  <1> HIDE DEF amount
  <1>6. \E kept \in Nat : /\ kept <= amount
                          /\ caller = recipient => kept = 0
                          /\ Pay(c, recipient, amount, caller, kept)
    <2>1. CASE Pay(c, recipient, amount, caller, 0)
      BY <1>3, <2>1
    <2>2. CASE /\ CalculateRelayerFee(c, amount) <= amount /\ caller # recipient
               /\ Pay(c, recipient, amount, caller, CalculateRelayerFee(c, amount))
      BY <1>3, <2>2, FeeType DEF ResidueInv
    <2> QED
      BY <2>1, <2>2 DEF RedeemTransferWithPayload, amount
  <1>7. ASSUME NEW kept \in Nat, Pay(c, recipient, amount, caller, kept)
        PROVE  Puts(c, recipient, amount - kept, caller, kept)
    BY <1>5, <1>7 DEF Pay, Puts, Balances
  <1> QED
    BY <1>1, <1>2, <1>3, <1>4, <1>6, <1>7 DEF amount

\* What anybody gives a contract, it has.
LEMMA GivePuts ==
  ASSUME ResidueInv, NEW c \in Chain, NEW user \in Account, NEW amount \in 1..bal[c][user],
         GiveToContract(c, user, amount)
  PROVE  /\ amount \in Nat
         /\ Puts(c, user, 0 - amount, XChain, amount)
         /\ UNCHANGED <<custody, sent, completed>>
  <1>1. /\ bal' = [bal EXCEPT ![c][user] = @ - amount, ![c][XChain] = @ + amount]
        /\ UNCHANGED <<custody, sent, completed>>
    BY DEF GiveToContract
  <1>2. /\ bal \in Balances /\ bal[c] \in [Holder -> Nat] /\ bal' \in Balances
        /\ user \in Holder /\ XChain \in Holder /\ user # XChain
    <2>1. ResidueInv'
      BY NextResidue DEF Next
    <2> QED
      BY <2>1, BridgeAssumption DEF ResidueInv, LedgerTypes, Balances, Holder
  <1>3. \A h \in Holder :
          bal'[c][h] = bal[c][h] + (IF h = user THEN 0 - amount ELSE 0)
                                 + (IF h = XChain THEN amount ELSE 0)
    <2> TAKE h \in Holder
    <2>1. bal[c][h] \in Nat
      BY <1>2
    <2>2. bal'[c] = [bal[c] EXCEPT ![user] = @ - amount, ![XChain] = @ + amount]
      BY <1>1, <1>2 DEF Balances
    <2>3. CASE h = user
      BY <1>2, <2>1, <2>2, <2>3
    <2>4. CASE h = XChain
      BY <1>2, <2>1, <2>2, <2>4
    <2>5. CASE h # user /\ h # XChain
      BY <1>2, <2>1, <2>2, <2>5
    <2> QED
      BY <2>3, <2>4, <2>5
  <1>4. \A d \in Chain \ {c} : bal'[d] = bal[d]
    BY <1>1, <1>2 DEF Balances
  <1>5. amount \in Nat
    BY <1>2
  <1>6. Puts(c, user, 0 - amount, XChain, amount)
    BY <1>2, <1>3, <1>4 DEF Puts
  <1> QED
    BY <1>1, <1>5, <1>6

-----------------------------------------------------------------------------
(* Nothing appears or disappears.                                          *)

\* The ledger as TokenTransfers has it.
Wealth == [u \in Account |-> Owned(u)]
Transfers == [id \in DOMAIN sent |->
                [to |-> sent[id].recipient, amount |-> Unit * sent[id].amount]]

\* What each message carries, and those that nobody has redeemed.
Carries == [id \in DOMAIN sent |-> Unit * sent[id].amount]
UnderWay == DOMAIN sent \ completed

\* Wallets, contracts and messages under way have together what the wallets began with.
Conserved ==
  SumFunctionOnSet(Wealth, Account) + Owned(XChain) + SumFunctionOnSet(Carries, UnderWay) = Supply

\* What the bridge of the home chain has locked is what nobody owns there.
CustodyIsRest == custody \in Int /\ custody + SumFunction(bal[Home]) = Supply

LedgerInv == ResidueInv /\ Conserved /\ CustodyIsRest

\* What a holder has on one chain is part of what it owns.
LEMMA OwnedType ==
  ASSUME bal \in Balances, NEW h \in Holder
  PROVE  /\ Owned(h) \in Nat
         /\ \A c \in Chain : Worth(c) * bal[c][h] <= Owned(h)
  <1>1. /\ \A c \in Chain : Worths(bal, h)[c] \in Nat
        /\ SumFunctionOnSet(Worths(bal, h), Chain) \in Nat
    BY WorthsType
  <1>2. \A c \in Chain : Worths(bal, h)[c] <= SumFunctionOnSet(Worths(bal, h), Chain)
    BY <1>1, SumBound, BridgeAssumption
  <1>3. \A c \in Chain : Worths(bal, h)[c] = Worth(c) * bal[c][h]
    BY DEF Worths
  <1> QED
    BY <1>1, <1>2, <1>3, OwnedIsSum

\* Every amount the invariant adds is a natural number.
Summable ==
  /\ bal \in Balances /\ Account \subseteq Holder /\ XChain \in Holder
  /\ \A u \in Account : Wealth[u] \in Nat /\ Wealth[u] \in Int
  /\ SumFunctionOnSet(Wealth, Account) \in Nat
  /\ Owned(XChain) \in Nat
  /\ DOMAIN sent = 1..Len(sent) /\ Len(sent) \in Nat /\ IsFiniteSet(UnderWay)
  /\ \A id \in DOMAIN sent : Carries[id] \in Nat /\ Carries[id] \in Int
  /\ SumFunctionOnSet(Carries, UnderWay) \in Nat
  /\ SumFunction(bal[Home]) \in Nat

\* So it is with the types that ResidueInv keeps.
LEMMA LedgerSums == ResidueInv => Summable
  <1> SUFFICES ASSUME ResidueInv PROVE Summable
    OBVIOUS
  <1>1. bal \in Balances /\ Account \subseteq Holder /\ XChain \in Holder
    BY DEF ResidueInv, LedgerTypes, Balances, Holder
  <1>2. \A u \in Account : Wealth[u] \in Nat
    BY <1>1, OwnedType DEF Wealth
  <1>3. SumFunctionOnSet(Wealth, Account) \in Nat
    BY <1>2, SumNat, BridgeAssumption
  <1>4. Owned(XChain) \in Nat
    BY <1>1, OwnedType
  <1>5. DOMAIN sent = 1..Len(sent) /\ Len(sent) \in Nat
    BY DEF ResidueInv, LedgerTypes
  <1>6. IsFiniteSet(UnderWay) /\ UnderWay \subseteq DOMAIN sent
    <2>1. IsFiniteSet(1..Len(sent))
      BY <1>5, FS_Interval
    <2> QED
      BY <1>5, <2>1, FS_Subset DEF UnderWay
  <1>7. \A id \in DOMAIN sent : Carries[id] \in Nat
    <2> TAKE id \in DOMAIN sent
    <2>1. sent[id] \in Message
      BY DEF ResidueInv, LedgerTypes
    <2>2. sent[id].amount \in Nat /\ Unit \in Nat
      BY <2>1, BridgeAssumption DEF Message
    <2> QED
      BY <2>2, Products DEF Carries
  <1>8. SumFunctionOnSet(Carries, UnderWay) \in Nat
    BY <1>6, <1>7, SumNat
  <1>9. SumFunction(bal[Home]) \in Nat
    <2>1. bal[Home] \in [Holder -> Nat]
      BY <1>1, BridgeAssumption DEF Balances
    <2> DEFINE f == bal[Home]
    <2> HIDE DEF f
    <2>2. SumFunctionOnSet(f, Holder) \in Nat
      BY <2>1, HolderFinite, SumNat DEF f
    <2> QED
      BY <2>1, <2>2 DEF SumFunction, f
  <1> QED
    BY <1>1, <1>2, <1>3, <1>4, <1>5, <1>6, <1>7, <1>8, <1>9 DEF Summable

\* At first everybody owns what they own on the home chain.
LEMMA InitOwned ==
  ASSUME Init, NEW h \in Holder
  PROVE  Owned(h) = IF h \in Account THEN Balance[h] ELSE 0
  <1> DEFINE f == Worths(bal, h)
             none == [c \in Chain |-> 0]
             has == IF h \in Account THEN Balance[h] ELSE 0
  <1>1. has \in Nat
    BY XChainAssumption
  <1>2. bal[Home][h] = has /\ \A c \in Chain \ {Home} : bal[c][h] = 0
    BY BridgeAssumption DEF Init
  <1> HIDE DEF has
  <1>3. f[Home] = has /\ \A c \in Chain \ {Home} : f[c] = 0
    BY <1>1, <1>2, WorthType, BridgeAssumption DEF Worths
  <1>4. none[Home] = 0 /\ \A c \in Chain : none[c] = 0
    BY BridgeAssumption
  <1> HIDE DEF f, none
  <1>5. SumFunctionOnSet(none, Chain) = 0
    BY <1>4, SumZero, BridgeAssumption
  <1>6. SumFunctionOnSet(f, Chain) = SumFunctionOnSet(none, Chain) + f[Home] - none[Home]
    <2>1. \A c \in Chain : none[c] \in Int /\ f[c] \in Int
      BY <1>1, <1>3, <1>4
    <2>2. \A c \in Chain \ {Home} : f[c] = none[c]
      BY <1>3, <1>4
    <2> QED
      BY <2>1, <2>2, SumChange, BridgeAssumption
  <1> QED
    BY <1>1, <1>3, <1>4, <1>5, <1>6, OwnedIsSum DEF f, has

\* The invariant holds at first: the wallets have everything, on the home chain.
LEMMA InitLedger == Init => LedgerInv
  <1> SUFFICES ASSUME Init PROVE LedgerInv
    OBVIOUS
  <1>1. ResidueInv
    BY InitResidue
  <1>2. /\ bal = [c \in Chain |-> [h \in Holder |->
                    IF c = Home /\ h \in Account THEN Balance[h] ELSE 0]]
        /\ custody = 0 /\ sent = <<>> /\ completed = {}
    BY DEF Init
  <1>4. Supply = SumFunctionOnSet(Balance, Account) /\ Supply \in Nat
    BY XChainAssumption, BridgeAssumption, SumNat DEF Supply, SumFunction
  <1>5. Conserved
    <2>1. \A u \in Account : Wealth[u] = Balance[u] /\ Balance[u] \in Int
      BY InitOwned, XChainAssumption DEF Wealth, Holder
    <2>2. SumFunctionOnSet(Wealth, Account) = Supply
      BY <1>4, <2>1, SumSame, BridgeAssumption
    <2>3. Owned(XChain) = 0
      BY InitOwned, BridgeAssumption DEF Holder
    <2>4. SumFunctionOnSet(Carries, UnderWay) = 0
      BY <1>2, SumEmpty DEF UnderWay
    <2> QED
      BY <1>4, <2>2, <2>3, <2>4 DEF Conserved
  <1>6. CustodyIsRest
    <2> DEFINE f == bal[Home]
    <2>1. /\ f \in [Holder -> Nat] /\ f[XChain] = 0 /\ DOMAIN f = Holder
          /\ \A u \in Account : f[u] = Balance[u] /\ f[u] \in Int /\ Balance[u] \in Int
      BY <1>2, BridgeAssumption, XChainAssumption DEF Holder
    <2>2. SumFunction(f) = SumFunctionOnSet(f, Holder)
      BY <2>1 DEF SumFunction
    <2> HIDE DEF f
    <2>3. SumFunctionOnSet(f, Holder) = f[XChain] + SumFunctionOnSet(f, Holder \ {XChain})
      BY <2>1, HolderFinite, SumRemove DEF Holder
    <2>4. Holder \ {XChain} = Account
      BY BridgeAssumption DEF Holder
    <2>5. SumFunctionOnSet(f, Account) = Supply
      BY <1>4, <2>1, SumSame, BridgeAssumption
    <2>6. SumFunctionOnSet(f, Holder) = 0 + Supply
      BY <2>1, <2>3, <2>4, <2>5
    <2>7. SumFunction(f) = Supply
      BY <1>4, <2>2, <2>6
    <2> QED
      BY <1>2, <1>4, <2>7 DEF CustodyIsRest, f
  <1> QED
    BY <1>1, <1>5, <1>6 DEF LedgerInv

\* What everybody has on the home chain is part of everything.
LEMMA NoMoreThanSupply ==
  ASSUME LedgerInv
  PROVE  Supply \in Nat /\ SumFunction(bal[Home]) <= Supply
  <1>1. ResidueInv /\ Conserved
    BY DEF LedgerInv
  <1>2. /\ bal \in Balances /\ Account \subseteq Holder /\ XChain \in Holder
        /\ \A u \in Account : Wealth[u] \in Nat /\ Wealth[u] \in Int
        /\ SumFunctionOnSet(Wealth, Account) \in Nat
        /\ Owned(XChain) \in Nat
        /\ SumFunctionOnSet(Carries, UnderWay) \in Nat
    BY <1>1, LedgerSums DEF Summable
  <1>3. Supply \in Nat /\ SumFunctionOnSet(Wealth, Account) + Owned(XChain) <= Supply
    BY <1>1, <1>2 DEF Conserved
  <1>4. SumFunction(bal[Home]) <= Supply
    <2> DEFINE f == bal[Home]
    <2>1. f \in [Holder -> Nat] /\ \A h \in Holder : f[h] \in Int
      BY <1>2, BridgeAssumption DEF Balances
    <2>2. \A h \in Holder : f[h] <= Owned(h)
      <3> TAKE h \in Holder
      <3>1. Worth(Home) * f[h] <= Owned(h) /\ Worth(Home) = 1
        BY <1>2, OwnedType, WorthType, BridgeAssumption
      <3> QED
        BY <2>1, <3>1
    <2>3. SumFunction(f) = SumFunctionOnSet(f, Holder)
      BY <2>1 DEF SumFunction
    <2> HIDE DEF f
    <2>4. SumFunctionOnSet(f, Holder) = f[XChain] + SumFunctionOnSet(f, Holder \ {XChain})
      BY <1>2, <2>1, HolderFinite, SumRemove
    <2>5. Holder \ {XChain} = Account
      BY BridgeAssumption DEF Holder
    <2>6. SumFunctionOnSet(f, Account) <= SumFunctionOnSet(Wealth, Account)
      <3>1. \A u \in Account : f[u] \in Int /\ Wealth[u] \in Int /\ f[u] <= Wealth[u]
        BY <1>2, <2>1, <2>2 DEF Wealth
      <3> QED
        BY <3>1, SumMonotonic, BridgeAssumption
    <2>7. SumFunctionOnSet(f, Account) \in Int
      BY <1>2, <2>1, SumRemove, BridgeAssumption
    <2>8. f[XChain] <= Owned(XChain) /\ f[XChain] \in Int
      BY <1>2, <2>1, <2>2
    <2>9. SumFunction(f) <= Supply
      BY <1>2, <1>3, <2>3, <2>4, <2>5, <2>6, <2>7, <2>8
    <2> QED
      BY <2>9 DEF f
  <1> QED
    BY <1>3, <1>4

\* When two wallets get p and q, all wallets together have p and q more.
LEMMA PutsWealth ==
  ASSUME ResidueInv, NEW a \in Account, NEW b \in Account, NEW p \in Int, NEW q \in Int,
         \A u \in Account : Wealth'[u] = Wealth[u] + (IF u = a THEN p ELSE 0)
                                                   + (IF u = b THEN q ELSE 0)
  PROVE  SumFunctionOnSet(Wealth, Account)' = SumFunctionOnSet(Wealth, Account) + p + q
  <1> DEFINE f == Wealth
             g == Wealth'
  <1>1. \A u \in Account : f[u] \in Int
    BY LedgerSums DEF Summable
  <1>2. \A u \in Account : g[u] = f[u] + (IF u = a THEN p ELSE 0) + (IF u = b THEN q ELSE 0)
    OBVIOUS
  <1> HIDE DEF f, g
  <1>3. SumFunctionOnSet(g, Account) = SumFunctionOnSet(f, Account) + p + q
    BY <1>1, <1>2, SumPut, BridgeAssumption
  <1> QED
    BY <1>3 DEF f, g

\* A send in worths: what leaves the sender is what its message carries and what the
\* contract is left with.
LEMMA SendOwned ==
  ASSUME ResidueInv, NEW c \in Chain, NEW to \in Chain, NEW user \in Account,
         NEW recipient \in Recipient, NEW amount \in 0..bal[c][user],
         SendTokensWithPayload(c, user, amount, to, recipient)
  PROVE  LET given == Worth(c) * amount
             left == Worth(c) * (amount - Carried(c, amount))
         IN  /\ given \in Nat /\ left \in Nat /\ left < given
             /\ given <= Owned(user)
             /\ given - left = Unit * NormalizeAmount(c, amount)
             /\ \A u \in Account : Owned(u)' = Owned(u) + (IF u = user THEN 0 - given ELSE 0)
             /\ Owned(XChain)' = Owned(XChain) + left
  <1> DEFINE rest == amount - Carried(c, amount)
             units == NormalizeAmount(c, amount)
             w == Worth(c)
  <1>1. /\ amount \in Nat /\ amount > 0 /\ rest \in Nat /\ rest < amount
        /\ w * (amount - rest) = Unit * units
        /\ Puts(c, user, 0 - amount, XChain, rest)
    BY SendPuts
  <1>2. bal \in Balances /\ Account \subseteq Holder /\ XChain \in Holder
    BY LedgerSums DEF Summable
  <1>3. w \in Nat \ {0}
    BY WorthType
  <1>4. amount <= bal[c][user] /\ bal[c][user] \in Nat
    BY <1>2 DEF Balances
  <1>5. w * bal[c][user] <= Owned(user) /\ Owned(user) \in Nat
    BY <1>2, OwnedType
  <1> HIDE DEF rest, units, w
  <1>6. /\ w * amount \in Nat /\ w * rest \in Nat
        /\ w * (0 - amount) = 0 - w * amount
        /\ w * (amount - rest) = w * amount - w * rest
        /\ w * amount <= w * bal[c][user] /\ w * bal[c][user] \in Nat
    BY <1>1, <1>3, <1>4, Products
  <1>7. w * rest < w * amount
    BY <1>1, <1>3
  <1>8. \A h \in Holder :
          Owned(h)' = Owned(h) + (IF h = user THEN w * (0 - amount) ELSE 0)
                               + (IF h = XChain THEN w * rest ELSE 0)
    <2>1. user \in Holder /\ 0 - amount \in Int /\ rest \in Int
      BY <1>1, <1>2
    <2> QED
      BY <1>1, <1>2, <2>1, PutsOwned DEF w
  <1>9. ASSUME NEW u \in Account
        PROVE  Owned(u)' = Owned(u) + (IF u = user THEN 0 - w * amount ELSE 0)
    <2>1. u \in Holder /\ u # XChain /\ Owned(u) \in Int
      BY <1>2, OwnedType, BridgeAssumption
    <2> QED
      BY <1>6, <1>8, <2>1
  <1>10. Owned(XChain)' = Owned(XChain) + w * rest
    <2>1. XChain # user /\ Owned(XChain) \in Int
      BY <1>2, OwnedType, BridgeAssumption
    <2> QED
      BY <1>2, <1>6, <1>8, <2>1
  <1>11. w * amount <= Owned(user) /\ w * amount - w * rest = Unit * units
    BY <1>1, <1>5, <1>6
  <1> QED
    BY <1>6, <1>7, <1>9, <1>10, <1>11 DEF rest, units, w

\* A send conserves: what the sender loses is under way or left to the contract.
LEMMA SendConserves ==
  ASSUME LedgerInv, NEW c \in Chain, NEW to \in Chain, NEW user \in Account,
         NEW recipient \in Recipient, NEW amount \in 0..bal[c][user],
         SendTokensWithPayload(c, user, amount, to, recipient)
  PROVE  LedgerInv'
  <1> DEFINE rest == amount - Carried(c, amount)
             units == NormalizeAmount(c, amount)
             w == Worth(c)
             m == [from |-> c, to |-> to, contract |-> emitters[c][to],
                   amount |-> units, recipient |-> recipient]
             n == Len(sent)
  <1>1. ResidueInv /\ ResidueInv' /\ Conserved /\ CustodyIsRest
    BY NextResidue DEF Next, LedgerInv
  <1>2. /\ amount \in Nat /\ rest \in Nat /\ units \in Nat
        /\ Puts(c, user, 0 - amount, XChain, rest)
        /\ sent' = Append(sent, m) /\ completed' = completed
        /\ custody' = IF c = Home THEN custody + (amount - rest) ELSE custody
    BY <1>1, SendPuts
  <1>3. /\ bal \in Balances /\ Account \subseteq Holder /\ XChain \in Holder
        /\ SumFunctionOnSet(Wealth, Account) \in Nat
        /\ Owned(XChain) \in Nat
        /\ DOMAIN sent = 1..n /\ n \in Nat /\ IsFiniteSet(UnderWay)
        /\ \A id \in DOMAIN sent : Carries[id] \in Int
        /\ SumFunctionOnSet(Carries, UnderWay) \in Nat
        /\ SumFunction(bal[Home]) \in Nat
    BY <1>1, LedgerSums DEF Summable
  <1>4. Summable'
    BY <1>1, LedgerSums, PTL
  <1>5. /\ IsFiniteSet(UnderWay') /\ DOMAIN sent' = 1..(n + 1)
        /\ \A id \in DOMAIN sent' : Carries'[id] \in Int
        /\ SumFunctionOnSet(Wealth, Account)' \in Nat
        /\ SumFunctionOnSet(Carries, UnderWay)' \in Nat
    <2>1. Len(sent') = n + 1
      BY <1>1, <1>2 DEF ResidueInv, LedgerTypes
    <2> QED
      BY <1>4, <2>1 DEF Summable
  <1>6. /\ w * amount \in Nat /\ w * rest \in Nat
        /\ w * amount - w * rest = Unit * units
        /\ \A u \in Account : Owned(u)' = Owned(u) + (IF u = user THEN 0 - w * amount ELSE 0)
    BY <1>1, SendOwned
  <1>7. Owned(XChain)' = Owned(XChain) + w * rest
    BY <1>1, SendOwned
  <1> HIDE DEF rest, units, w
  <1>8. SumFunctionOnSet(Wealth, Account)' = SumFunctionOnSet(Wealth, Account) + (0 - w * amount) + 0
    <2> DEFINE p == 0 - w * amount
    <2>1. p \in Int
      BY <1>6
    <2>2. \A u \in Account : Wealth'[u] = Wealth[u] + (IF u = user THEN p ELSE 0)
      BY <1>6 DEF Wealth
    <2>3. \A u \in Account : Wealth[u] \in Int
      BY <1>1, LedgerSums DEF Summable
    <2> HIDE DEF p
    <2>4. \A u \in Account : Wealth'[u] = Wealth[u] + (IF u = user THEN p ELSE 0)
                                                    + (IF u = user THEN 0 ELSE 0)
      BY <2>1, <2>2, <2>3
    <2>5. SumFunctionOnSet(Wealth, Account)' = SumFunctionOnSet(Wealth, Account) + p + 0
      BY <1>1, <2>1, <2>4, PutsWealth
    <2> QED
      BY <2>5 DEF p
  <1>10. SumFunctionOnSet(Carries, UnderWay)' = SumFunctionOnSet(Carries, UnderWay) + Unit * units
    <2> DEFINE f == Carries
               g == Carries'
               open == UnderWay
               openNow == UnderWay'
    <2>1. n + 1 \in openNow /\ openNow \ {n + 1} = open /\ open \subseteq DOMAIN sent
      <3>1. completed \subseteq 1..n /\ completed' = completed
        BY <1>1, <1>2, <1>3 DEF ResidueInv, LedgerTypes
      <3> QED
        BY <1>3, <1>5, <3>1 DEF UnderWay
    <2>2. sent'[n + 1] = m /\ \A id \in DOMAIN sent : sent'[id] = sent[id]
      <3>1. sent \in Seq(Message) /\ sent' = Append(sent, m)
        BY <1>1, <1>2 DEF ResidueInv, LedgerTypes
      <3> HIDE DEF m
      <3> QED
        BY <3>1
    <2>3. \A id \in open : g[id] = f[id] /\ f[id] \in Int
      BY <1>3, <1>5, <2>1, <2>2 DEF Carries
    <2>4. g[n + 1] = Unit * units
      BY <1>5, <1>3, <2>2 DEF Carries
    <2>5. IsFiniteSet(open) /\ IsFiniteSet(openNow) /\ \A id \in openNow : g[id] \in Int
      BY <1>3, <1>5 DEF UnderWay
    <2> HIDE DEF f, g, open, openNow
    <2>6. SumFunctionOnSet(g, openNow) = g[n + 1] + SumFunctionOnSet(g, openNow \ {n + 1})
      BY <2>1, <2>5, SumRemove
    <2>7. SumFunctionOnSet(g, open) = SumFunctionOnSet(f, open)
      BY <2>3, <2>5, SumSame
    <2>8. SumFunctionOnSet(f, open) \in Int /\ g[n + 1] \in Int
      BY <2>1, <2>3, <2>5, SumRemove
    <2>9. SumFunctionOnSet(g, openNow \ {n + 1}) = SumFunctionOnSet(f, open)
      BY <2>1, <2>7, Zenon
    <2>10. SumFunctionOnSet(g, openNow) = SumFunctionOnSet(f, open) + g[n + 1]
      BY <2>6, <2>8, <2>9
    <2> QED
      BY <2>4, <2>10 DEF f, g, open, openNow
  <1>11. Conserved'
    <2>1. Supply' = Supply
      BY DEF Supply
    <2> DEFINE all == SumFunctionOnSet(Wealth, Account)
               kept == Owned(XChain)
               carried == SumFunctionOnSet(Carries, UnderWay)
               given == w * amount
               left == w * rest
               more == Unit * units
    <2>2. /\ all' = all + (0 - given) + 0 /\ kept' = kept + left /\ carried' = carried + more
          /\ given - left = more
      BY <1>6, <1>7, <1>8, <1>10
    <2>3. all \in Nat /\ kept \in Nat /\ carried \in Nat /\ given \in Nat /\ left \in Nat
      BY <1>3, <1>6
    <2>4. all + kept + carried = Supply
      BY <1>1 DEF Conserved
    <2> HIDE DEF all, kept, carried, given, left, more
    <2>5. all' + kept' + carried' = all + kept + carried
      BY <2>2, <2>3
    <2> QED
      BY <2>1, <2>4, <2>5 DEF Conserved, all, kept, carried
  <1>12. CustodyIsRest'
    <2>1. SumFunction(bal[Home])' = SumFunction(bal[Home])
                                      + (IF c = Home THEN (0 - amount) + rest ELSE 0)
      <3>1. user \in Holder /\ 0 - amount \in Int /\ rest \in Int
        BY <1>2, <1>3
      <3> QED
        BY <1>2, <1>3, <3>1, PutsHome
    <2>2. custody \in Int /\ custody + SumFunction(bal[Home]) = Supply
      BY <1>1 DEF CustodyIsRest
    <2>3. custody' \in Int /\ custody' + SumFunction(bal[Home])' = Supply
      BY <1>2, <1>3, <2>1, <2>2
    <2> QED
      BY <2>3 DEF CustodyIsRest, Supply
  <1> QED
    BY <1>1, <1>11, <1>12 DEF LedgerInv

\* A redeem in worths: the amount of the message goes to its recipient, less what the
\* caller keeps; the recipient may be the contract.
LEMMA RedeemOwned ==
  ASSUME ResidueInv, NEW c \in Chain, NEW id \in DOMAIN sent, NEW caller \in Account,
         RedeemTransferWithPayload(c, id, caller)
  PROVE  LET recipient == sent[id].recipient
         IN  /\ recipient \in Holder
             /\ \E kept \in 0..Carries[id] :
                  /\ caller = recipient => kept = 0
                  /\ \A u \in Account :
                       Owned(u)' = Owned(u) + (IF u = recipient THEN Carries[id] - kept ELSE 0)
                                            + (IF u = caller THEN kept ELSE 0)
                  /\ Owned(XChain)' =
                       Owned(XChain) + (IF XChain = recipient THEN Carries[id] - kept ELSE 0)
  <1> DEFINE amount == Received(c, id)
             recipient == sent[id].recipient
             w == Worth(c)
  <1>1. /\ recipient \in Holder /\ amount \in Nat
        /\ w * amount = Carries[id]
        /\ \E kept \in Nat : /\ kept <= amount
                             /\ caller = recipient => kept = 0
                             /\ Puts(c, recipient, amount - kept, caller, kept)
    BY RedeemPuts DEF Carries
  <1>2. PICK k \in Nat : /\ k <= amount
                         /\ caller = recipient => k = 0
                         /\ Puts(c, recipient, amount - k, caller, k)
    BY <1>1
  <1>3. bal \in Balances /\ Account \subseteq Holder /\ XChain \in Holder
    BY LedgerSums DEF Summable
  <1>4. w \in Nat
    BY WorthType
  <1> HIDE DEF amount, recipient, w
  <1>5. /\ w * k \in Nat /\ w * amount \in Nat /\ w * k <= w * amount
        /\ w * (amount - k) = Carries[id] - w * k
        /\ k = 0 => w * k = 0
    BY <1>1, <1>2, <1>4, Products
  <1>6. \A h \in Holder :
          Owned(h)' = Owned(h) + (IF h = recipient THEN w * (amount - k) ELSE 0)
                               + (IF h = caller THEN w * k ELSE 0)
    <2>1. recipient \in Holder /\ caller \in Holder /\ amount - k \in Int /\ k \in Int
      BY <1>1, <1>2, <1>3
    <2> QED
      BY <1>2, <1>3, <2>1, PutsOwned DEF w
  <1>7. Owned(XChain)' =
          Owned(XChain) + (IF XChain = recipient THEN Carries[id] - w * k ELSE 0)
    <2>1. XChain # caller /\ Owned(XChain) \in Int /\ Carries[id] \in Int
      BY <1>1, <1>3, <1>5, OwnedType, BridgeAssumption
    <2> QED
      BY <1>3, <1>5, <1>6, <2>1
  <1>8. \A u \in Account :
          Owned(u)' = Owned(u) + (IF u = recipient THEN Carries[id] - w * k ELSE 0)
                               + (IF u = caller THEN w * k ELSE 0)
    BY <1>3, <1>5, <1>6
  <1>9. w * k \in 0..Carries[id] /\ (caller = recipient => w * k = 0)
    BY <1>1, <1>2, <1>5
  <1> QED
    BY <1>1, <1>7, <1>8, <1>9 DEF recipient

\* A gift in worths.
LEMMA GiveOwned ==
  ASSUME ResidueInv, NEW c \in Chain, NEW user \in Account, NEW amount \in 1..bal[c][user],
         GiveToContract(c, user, amount)
  PROVE  LET given == Worth(c) * amount
         IN  /\ given \in 1..Owned(user)
             /\ \A u \in Account : Owned(u)' = Owned(u) + (IF u = user THEN 0 - given ELSE 0)
             /\ Owned(XChain)' = Owned(XChain) + given
  <1> DEFINE w == Worth(c)
  <1>1. amount \in Nat /\ Puts(c, user, 0 - amount, XChain, amount)
    BY GivePuts
  <1>2. bal \in Balances /\ Account \subseteq Holder /\ XChain \in Holder
    BY LedgerSums DEF Summable
  <1>3. w \in Nat \ {0}
    BY WorthType
  <1>4. bal[c][user] \in Nat /\ w * bal[c][user] <= Owned(user) /\ Owned(user) \in Nat
    BY <1>2, OwnedType DEF Balances
  <1> HIDE DEF w
  <1>5. /\ w * amount \in Nat /\ w * (0 - amount) = 0 - w * amount
        /\ w * amount <= w * bal[c][user] /\ w * bal[c][user] \in Nat
    BY <1>1, <1>3, <1>4, Products
  <1>6. 0 < w * amount
    BY <1>1, <1>3
  <1>7. \A h \in Holder :
          Owned(h)' = Owned(h) + (IF h = user THEN w * (0 - amount) ELSE 0)
                               + (IF h = XChain THEN w * amount ELSE 0)
    <2>1. user \in Holder /\ 0 - amount \in Int /\ amount \in Int
      BY <1>1, <1>2
    <2> QED
      BY <1>1, <1>2, <2>1, PutsOwned DEF w
  <1>8. ASSUME NEW u \in Account
        PROVE  Owned(u)' = Owned(u) + (IF u = user THEN 0 - w * amount ELSE 0)
    <2>1. u \in Holder /\ u # XChain /\ Owned(u) \in Int
      BY <1>2, OwnedType, BridgeAssumption
    <2> QED
      BY <1>5, <1>7, <2>1
  <1>9. Owned(XChain)' = Owned(XChain) + w * amount
    <2>1. XChain # user /\ Owned(XChain) \in Int
      BY <1>2, OwnedType, BridgeAssumption
    <2> QED
      BY <1>2, <1>5, <1>7, <2>1
  <1>10. w * amount \in 1..Owned(user)
    BY <1>4, <1>5, <1>6
  <1> QED
    BY <1>8, <1>9, <1>10 DEF w

\* A gift conserves: the contract has what the giver loses.
LEMMA GiveConserves ==
  ASSUME LedgerInv, NEW c \in Chain, NEW user \in Account, NEW amount \in 1..bal[c][user],
         GiveToContract(c, user, amount)
  PROVE  LedgerInv'
  <1>1. ResidueInv /\ ResidueInv' /\ Conserved /\ CustodyIsRest
    BY NextResidue DEF Next, LedgerInv
  <1>2. /\ amount \in Nat /\ Puts(c, user, 0 - amount, XChain, amount)
        /\ UNCHANGED <<custody, sent, completed>>
    BY <1>1, GivePuts
  <1>3. Summable /\ Summable'
    BY <1>1, LedgerSums, PTL
  <1> DEFINE given == Worth(c) * amount
  <1>4. /\ given \in Nat
        /\ \A u \in Account : Owned(u)' = Owned(u) + (IF u = user THEN 0 - given ELSE 0)
        /\ Owned(XChain)' = Owned(XChain) + given
    <2>1. Owned(user) \in Nat
      BY <1>3 DEF Summable, Wealth
    <2> QED
      BY <1>1, <2>1, GiveOwned
  <1> HIDE DEF given
  <1>5. SumFunctionOnSet(Wealth, Account)' = SumFunctionOnSet(Wealth, Account) + (0 - given) + 0
    <2> DEFINE p == 0 - given
    <2>1. p \in Int
      BY <1>4
    <2>2. \A u \in Account : Wealth'[u] = Wealth[u] + (IF u = user THEN p ELSE 0)
      BY <1>4 DEF Wealth
    <2>3. \A u \in Account : Wealth[u] \in Int
      BY <1>3 DEF Summable
    <2> HIDE DEF p
    <2>4. \A u \in Account : Wealth'[u] = Wealth[u] + (IF u = user THEN p ELSE 0)
                                                    + (IF u = user THEN 0 ELSE 0)
      BY <2>1, <2>2, <2>3
    <2>5. SumFunctionOnSet(Wealth, Account)' = SumFunctionOnSet(Wealth, Account) + p + 0
      BY <1>1, <2>1, <2>4, PutsWealth
    <2> QED
      BY <2>5 DEF p
  <1>6. SumFunctionOnSet(Carries, UnderWay)' = SumFunctionOnSet(Carries, UnderWay)
    <2>1. Carries' = Carries /\ UnderWay' = UnderWay
      BY <1>2 DEF Carries, UnderWay
    <2> QED
      BY <2>1
  <1>7. Conserved'
    <2>1. Supply' = Supply
      BY DEF Supply
    <2>2. /\ SumFunctionOnSet(Wealth, Account) \in Int /\ Owned(XChain) \in Int
          /\ SumFunctionOnSet(Carries, UnderWay) \in Int
      BY <1>3 DEF Summable
    <2> QED
      BY <1>1, <1>4, <1>5, <1>6, <2>1, <2>2 DEF Conserved
  <1>8. CustodyIsRest'
    <2>1. SumFunction(bal[Home])' = SumFunction(bal[Home])
                                      + (IF c = Home THEN (0 - amount) + amount ELSE 0)
      <3>1. user \in Holder /\ XChain \in Holder /\ 0 - amount \in Int /\ amount \in Int
        BY <1>2, <1>3 DEF Summable
      <3> QED
        BY <1>2, <1>3, <3>1, PutsHome DEF Summable
    <2>2. custody \in Int /\ custody + SumFunction(bal[Home]) = Supply
          /\ SumFunction(bal[Home]) \in Int
      BY <1>1, <1>3 DEF CustodyIsRest, Summable
    <2>3. custody' \in Int /\ custody' + SumFunction(bal[Home])' = Supply
      BY <1>2, <2>1, <2>2
    <2> QED
      BY <2>3 DEF CustodyIsRest, Supply
  <1> QED
    BY <1>1, <1>7, <1>8 DEF LedgerInv

\* A redeem conserves: its message is no longer under way, and its recipient and caller
\* have its amount.
LEMMA RedeemConserves ==
  ASSUME LedgerInv, NEW c \in Chain, NEW id \in DOMAIN sent, NEW caller \in Account,
         RedeemTransferWithPayload(c, id, caller)
  PROVE  LedgerInv'
  <1> DEFINE amount == Received(c, id)
             recipient == sent[id].recipient
  <1>1. ResidueInv /\ ResidueInv' /\ Conserved /\ CustodyIsRest
    BY NextResidue DEF Next, LedgerInv
  <1>2. /\ id \notin completed /\ completed' = completed \cup {id}
        /\ sent' = sent
        /\ recipient \in Holder /\ amount \in Nat
        /\ custody' = IF c = Home THEN custody - amount ELSE custody
        /\ \E kept \in Nat : /\ kept <= amount
                             /\ Puts(c, recipient, amount - kept, caller, kept)
    BY <1>1, RedeemPuts
  <1>3. Summable /\ Summable'
    BY <1>1, LedgerSums, PTL
  <1>4. PICK kept \in 0..Carries[id] :
          /\ \A u \in Account :
               Owned(u)' = Owned(u) + (IF u = recipient THEN Carries[id] - kept ELSE 0)
                                    + (IF u = caller THEN kept ELSE 0)
          /\ Owned(XChain)' =
               Owned(XChain) + (IF XChain = recipient THEN Carries[id] - kept ELSE 0)
    BY <1>1, RedeemOwned
  <1> HIDE DEF amount, recipient
  <1>5. SumFunctionOnSet(Wealth, Account)' =
          SumFunctionOnSet(Wealth, Account)
            + (IF XChain = recipient THEN kept ELSE Carries[id])
    <2> DEFINE p == IF XChain = recipient THEN 0 ELSE Carries[id] - kept
               a == IF XChain = recipient THEN caller ELSE recipient
    <2>1. p \in Int /\ kept \in Int /\ Carries[id] \in Int /\ SumFunctionOnSet(Wealth, Account) \in Int
      BY <1>3 DEF Summable
    <2>2. \A u \in Account : Wealth'[u] = Wealth[u] + (IF u = a THEN p ELSE 0)
                                                    + (IF u = caller THEN kept ELSE 0)
      <3> TAKE u \in Account
      <3>1. /\ Wealth[u] \in Int /\ u # XChain
            /\ Wealth'[u] = Wealth[u] + (IF u = recipient THEN Carries[id] - kept ELSE 0)
                                      + (IF u = caller THEN kept ELSE 0)
        BY <1>3, <1>4, BridgeAssumption DEF Wealth, Summable
      <3> QED
        BY <2>1, <3>1
    <2>3. p + kept = (IF XChain = recipient THEN kept ELSE Carries[id])
      BY <2>1
    <2>4. a \in Account
      BY <1>2 DEF Holder
    <2> HIDE DEF p, a
    <2>5. SumFunctionOnSet(Wealth, Account)' = SumFunctionOnSet(Wealth, Account) + p + kept
      BY <1>1, <2>1, <2>2, <2>4, PutsWealth
    <2> QED
      BY <2>1, <2>3, <2>5
  <1>6. SumFunctionOnSet(Carries, UnderWay) = Carries[id] + SumFunctionOnSet(Carries, UnderWay)'
    <2> DEFINE f == Carries
               open == UnderWay
    <2>1. Carries' = f /\ UnderWay' = open \ {id} /\ id \in open
      BY <1>2 DEF Carries, UnderWay
    <2>2. IsFiniteSet(open) /\ \A j \in open : f[j] \in Int
      BY <1>3 DEF Summable, UnderWay
    <2> HIDE DEF f, open
    <2>3. SumFunctionOnSet(f, open) = f[id] + SumFunctionOnSet(f, open \ {id})
      BY <2>1, <2>2, SumRemove
    <2> QED
      BY <2>1, <2>3 DEF f, open
  <1>7. Conserved'
    <2>1. Supply' = Supply
      BY DEF Supply
    <2>2. /\ SumFunctionOnSet(Wealth, Account) \in Int /\ Owned(XChain) \in Int
          /\ Carries[id] \in Int /\ SumFunctionOnSet(Carries, UnderWay)' \in Int
      BY <1>3 DEF Summable
    <2> QED
      BY <1>1, <1>4, <1>5, <1>6, <2>1, <2>2 DEF Conserved
  <1>8. CustodyIsRest'
    <2>1. PICK k \in Nat : k <= amount /\ Puts(c, recipient, amount - k, caller, k)
      BY <1>2
    <2>2. SumFunction(bal[Home])' = SumFunction(bal[Home])
                                      + (IF c = Home THEN (amount - k) + k ELSE 0)
      <3>1. recipient \in Holder /\ caller \in Holder /\ amount - k \in Int /\ k \in Int
        BY <1>2, <1>3, <2>1 DEF Summable
      <3> QED
        BY <1>3, <2>1, <3>1, PutsHome DEF Summable
    <2>3. custody \in Int /\ custody + SumFunction(bal[Home]) = Supply
          /\ SumFunction(bal[Home]) \in Int
      BY <1>1, <1>3 DEF CustodyIsRest, Summable
    <2>4. custody' \in Int /\ custody' + SumFunction(bal[Home])' = Supply
      BY <1>2, <2>1, <2>2, <2>3
    <2> QED
      BY <2>4 DEF CustodyIsRest, Supply
  <1> QED
    BY <1>1, <1>7, <1>8 DEF LedgerInv

\* Each transaction keeps the invariant; registerEmitter and updateRelayerFee move nothing.
LEMMA NextLedger == LedgerInv /\ [Next]_vars => LedgerInv'
  <1> SUFFICES ASSUME LedgerInv, [Next]_vars PROVE LedgerInv'
    OBVIOUS
  <1>1. ASSUME UNCHANGED bridge PROVE LedgerInv'
    <2>1. ResidueInv'
      BY NextResidue DEF LedgerInv
    <2>2. UNCHANGED <<bal, custody, sent, completed>>
      BY <1>1 DEF bridge
    <2>3. Wealth' = Wealth /\ Owned(XChain)' = Owned(XChain) /\ Carries' = Carries
          /\ UnderWay' = UnderWay /\ Supply' = Supply
      BY <2>2 DEF Wealth, Owned, Worth, Scale, Carries, UnderWay, Supply
    <2> QED
      BY <2>1, <2>2, <2>3 DEF LedgerInv, Conserved, CustodyIsRest
  <1>2. ASSUME NEW c \in Chain, NEW d \in Chain, NEW address \in {d, "other"},
               RegisterEmitter(c, d, address)
        PROVE  LedgerInv'
    BY <1>1, <1>2 DEF RegisterEmitter
  <1>3. ASSUME NEW c \in Chain, NEW percentage \in Percentage, NEW precision \in Precision,
               UpdateRelayerFee(c, percentage, precision)
        PROVE  LedgerInv'
    BY <1>1, <1>3 DEF UpdateRelayerFee
  <1>4. CASE UNCHANGED vars
    BY <1>1, <1>4 DEF vars
  <1> QED
    BY <1>2, <1>3, <1>4, SendConserves, RedeemConserves, GiveConserves DEF Next

\* The bridge never has to pay out what it has not locked, and everything has its
\* type.
LEMMA LedgerTypeOK == LedgerInv => TypeOK
  <1> SUFFICES ASSUME LedgerInv PROVE TypeOK
    OBVIOUS
  <1>1. Supply \in Nat /\ SumFunction(bal[Home]) <= Supply
    BY NoMoreThanSupply
  <1>2. SumFunction(bal[Home]) \in Nat
    BY LedgerSums DEF LedgerInv, Summable
  <1>3. custody \in Nat
    BY <1>1, <1>2 DEF LedgerInv, CustodyIsRest
  <1> QED
    BY <1>3 DEF LedgerInv, ResidueInv, LedgerTypes, GovernanceTypes, TypeOK

\* Through any transactions of the contracts, balances, allowances, messages, fees and
\* emitters keep their types; what the bridge has locked is never negative, so a redeem on
\* the home chain (redeemTransferWithPayload) never asks it for what it does not have.
THEOREM TypesKept == Spec => []TypeOK
  BY InitLedger, NextLedger, LedgerTypeOK, PTL DEF Spec

\* Sends and redeems on any chains, with any decimals, fees and relayers, neither make nor
\* destroy a smallest amount: all wallets, the contracts (which keep what
\* sendTokensWithPayload truncates) and the messages not yet redeemed have the supply.
THEOREM WealthConserved == Spec => []Conserved
  <1>1. LedgerInv => Conserved
    BY DEF LedgerInv
  <1> QED
    BY <1>1, InitLedger, NextLedger, PTL DEF Spec

-----------------------------------------------------------------------------
(* The contracts implement TokenTransfers.                                 *)

\* The ledger begins with the wealth of the wallets and no transfer.
LEMMA InitImplements == Init => Ledger!Init
  <1> SUFFICES ASSUME Init PROVE Ledger!Init
    OBVIOUS
  <1>1. [u \in Account |-> Owned(u)] \in [Account -> Nat]
    BY InitLedger, LedgerSums DEF LedgerInv, Summable, Wealth
  <1>2. Owned(XChain) = 0
    BY InitOwned, BridgeAssumption DEF Holder
  <1>3. sent = <<>> /\ completed = {}
    BY DEF Init
  <1>4. [id \in DOMAIN sent |->
           [to |-> sent[id].recipient, amount |-> Unit * sent[id].amount]] = <<>>
    BY <1>3
  <1> QED
    BY <1>1, <1>2, <1>3, <1>4 DEF Ledger!Init

\* A send is one of the ledger: the worth of the amount leaves the sender's wealth, what the
\* message carries becomes a transfer and the rest is kept.
LEMMA SendImplements ==
  ASSUME LedgerInv, NEW c \in Chain, NEW to \in Chain, NEW user \in Account,
         NEW recipient \in Recipient, NEW amount \in 0..bal[c][user],
         SendTokensWithPayload(c, user, amount, to, recipient)
  PROVE  Ledger!Next
  <1> DEFINE given == Worth(c) * amount
             left == Worth(c) * (amount - Carried(c, amount))
             units == NormalizeAmount(c, amount)
             m == [from |-> c, to |-> to, contract |-> emitters[c][to],
                   amount |-> units, recipient |-> recipient]
  <1>1. ResidueInv /\ Summable
    BY LedgerSums DEF LedgerInv
  <1>2. /\ given \in Nat /\ left \in Nat /\ left < given
        /\ given <= Owned(user)
        /\ given - left = Unit * units
        /\ \A u \in Account : Owned(u)' = Owned(u) + (IF u = user THEN 0 - given ELSE 0)
        /\ Owned(XChain)' = Owned(XChain) + left
    BY <1>1, SendOwned
  <1>3. sent' = Append(sent, m) /\ completed' = completed
    BY <1>1, SendPuts
  <1> HIDE DEF given, left, units
  <1>4. given \in 1..Wealth[user] /\ left \in 0..(given - 1)
    <2>1. Wealth[user] = Owned(user) /\ Owned(user) \in Int
      BY <1>1 DEF Summable, Wealth
    <2> QED
      BY <1>2, <2>1
  <1>5. Transfers' = Append(Transfers, [to |-> recipient, amount |-> given - left])
    <2> DEFINE e == [to |-> recipient, amount |-> given - left]
               n == Len(sent)
    <2>1. sent \in Seq(Message) /\ n \in Nat /\ DOMAIN sent = 1..n
      BY <1>1 DEF ResidueInv, LedgerTypes
    <2>2. /\ DOMAIN sent' = 1..(n + 1)
          /\ \A id \in 1..n : sent'[id] = sent[id]
          /\ sent'[n + 1] = m
      <3> HIDE DEF m
      <3> QED
        BY <1>3, <2>1
    <2> HIDE DEF e, n
    <2>3. Transfers' = [id \in 1..(n + 1) |-> IF id = n + 1 THEN e ELSE Transfers[id]]
      BY <1>2, <2>1, <2>2 DEF Transfers, e
    <2>4. DOMAIN Transfers = 1..n /\ Transfers = [id \in 1..n |-> Transfers[id]]
      BY <2>1 DEF Transfers
    <2>5. Len(Transfers) = n
      BY <2>1, <2>4
    <2>6. Append(Transfers, e) = [id \in 1..(n + 1) |-> IF id = n + 1 THEN e ELSE Transfers[id]]
      BY <2>1, <2>4, <2>5
    <2> QED
      BY <2>3, <2>6 DEF e
  <1>6. Wealth' = [Wealth EXCEPT ![user] = @ - given]
    <2>1. \A u \in Account : Wealth[u] = Owned(u) /\ Wealth[u] \in Int /\ Wealth'[u] = Owned(u)'
      BY <1>1 DEF Summable, Wealth
    <2>2. \A u \in Account : Wealth'[u] = IF u = user THEN Wealth[u] - given ELSE Wealth[u]
      BY <1>2, <2>1
    <2> QED
      BY <2>2 DEF Wealth
  <1>7. Ledger!Send(user, recipient, given, left)
    BY <1>2, <1>3, <1>5, <1>6 DEF Ledger!Send, Transfers, Wealth
  <1> QED
    BY <1>4, <1>7 DEF Ledger!Next, Wealth

\* A gift is one of the ledger.
LEMMA GiveImplements ==
  ASSUME LedgerInv, NEW c \in Chain, NEW user \in Account, NEW amount \in 1..bal[c][user],
         GiveToContract(c, user, amount)
  PROVE  Ledger!Next
  <1> DEFINE given == Worth(c) * amount
  <1>1. ResidueInv /\ Summable
    BY LedgerSums DEF LedgerInv
  <1>2. /\ given \in 1..Owned(user)
        /\ \A u \in Account : Owned(u)' = Owned(u) + (IF u = user THEN 0 - given ELSE 0)
        /\ Owned(XChain)' = Owned(XChain) + given
    BY <1>1, GiveOwned
  <1>3. sent' = sent /\ completed' = completed
    BY <1>1, GivePuts
  <1> HIDE DEF given
  <1>4. \A u \in Account : Wealth[u] = Owned(u) /\ Wealth[u] \in Int /\ Wealth'[u] = Owned(u)'
    BY <1>1 DEF Summable, Wealth
  <1>5. Wealth' = [Wealth EXCEPT ![user] = @ - given]
    <2>1. given \in Int
      BY <1>2, <1>4
    <2>2. \A u \in Account : Wealth'[u] = IF u = user THEN Wealth[u] - given ELSE Wealth[u]
      BY <1>2, <1>4, <2>1
    <2> QED
      BY <2>2 DEF Wealth
  <1>6. Ledger!Give(user, given)
    BY <1>2, <1>3, <1>5 DEF Ledger!Give, Wealth
  <1>7. given \in 1..Wealth[user]
    BY <1>2, <1>4
  <1> QED
    BY <1>6, <1>7 DEF Ledger!Next, Wealth

\* A redeem is the delivery of its transfer, with the fee for the caller.
LEMMA RedeemImplements ==
  ASSUME LedgerInv, NEW c \in Chain, NEW id \in DOMAIN sent, NEW caller \in Account,
         RedeemTransferWithPayload(c, id, caller)
  PROVE  Ledger!Next
  <1> DEFINE recipient == sent[id].recipient
  <1>1. ResidueInv
    BY DEF LedgerInv
  <1>2. PICK kept \in 0..Carries[id] :
          /\ caller = recipient => kept = 0
          /\ \A u \in Account :
               Owned(u)' = Owned(u) + (IF u = recipient THEN Carries[id] - kept ELSE 0)
                                    + (IF u = caller THEN kept ELSE 0)
          /\ Owned(XChain)' =
               Owned(XChain) + (IF XChain = recipient THEN Carries[id] - kept ELSE 0)
    BY <1>1, RedeemOwned
  <1>3. id \notin completed /\ completed' = completed \cup {id} /\ sent' = sent
    BY <1>1, RedeemPuts
  <1>4. Transfers[id].to = recipient /\ Transfers[id].amount = Carries[id]
        /\ Transfers' = Transfers /\ DOMAIN Transfers = DOMAIN sent
        /\ recipient \in Account \cup {XChain}
    BY <1>1, <1>3, RedeemOwned DEF Transfers, Carries, Holder
  <1>5. Carries[id] \in Nat
    BY <1>1, LedgerSums DEF Summable
  <1>6. kept <= Transfers[id].amount
    BY <1>4, <1>5
  <1>7. Wealth' = [u \in Account |->
                     Wealth[u] + (IF u = recipient THEN Carries[id] - kept ELSE 0)
                               + (IF u = caller THEN kept ELSE 0)]
    BY <1>2 DEF Wealth
  <1>8. Owned(XChain)' =
          Owned(XChain) + (IF recipient = XChain THEN Carries[id] - kept ELSE 0)
    BY <1>2
  <1>9. Ledger!Deliver(id, caller, kept)
    BY <1>2, <1>3, <1>4, <1>6, <1>7, <1>8 DEF Ledger!Deliver, Transfers, Wealth
  <1> QED
    BY <1>4, <1>9 DEF Ledger!Next, Transfers

\* Each transaction is one step of the ledger or none.
LEMMA NextImplements == LedgerInv /\ [Next]_vars => [Ledger!Next]_(Ledger!vars)
  <1> SUFFICES ASSUME LedgerInv, [Next]_vars PROVE [Ledger!Next]_(Ledger!vars)
    OBVIOUS
  <1>1. ASSUME UNCHANGED bridge PROVE UNCHANGED Ledger!vars
    BY <1>1 DEF bridge, Ledger!vars, Owned, Worth, Scale
  <1>2. ASSUME NEW c \in Chain, NEW d \in Chain, NEW address \in {d, "other"},
               RegisterEmitter(c, d, address)
        PROVE  UNCHANGED bridge
    BY <1>2 DEF RegisterEmitter
  <1>3. ASSUME NEW c \in Chain, NEW percentage \in Percentage, NEW precision \in Precision,
               UpdateRelayerFee(c, percentage, precision)
        PROVE  UNCHANGED bridge
    BY <1>3 DEF UpdateRelayerFee
  <1>4. ASSUME UNCHANGED vars PROVE UNCHANGED bridge
    BY <1>4 DEF vars
  <1> QED
    BY <1>1, <1>2, <1>3, <1>4, SendImplements, RedeemImplements, GiveImplements DEF Next

\* sendTokensWithPayload and redeemTransferWithPayload of all chains together move tokens like
\* one ledger: a transfer arrives once, in the worth it was sent with, less a fee.
THEOREM TransfersImplemented == Spec => ImplementsTransfers
  BY InitLedger, NextLedger, InitImplements, NextImplements, PTL
     DEF Spec, ImplementsTransfers, Ledger!Spec

-----------------------------------------------------------------------------
(* The calls of the API and of the relay service.                          *)

\* Who calls redeems a message that was not redeemed, on the chain it is for, as
\* one of the transactions of the contracts.
LEMMA RedeemStep ==
  ASSUME ResidueInv, NEW c, NEW id, NEW caller, c \in Chain => caller \in Account,
         RedeemTransferWithPayload(c, id, caller)
  PROVE  Next /\ id \notin completed /\ completed' = completed \cup {id}
  <1>1. /\ id \in DOMAIN sent \ completed /\ sent[id].to = c
        /\ completed' = completed \cup {id}
    BY DEF RedeemTransferWithPayload, CanComplete, CompleteTransfer
  <1>2. c \in Chain
    <2>1. sent[id] \in Message
      BY <1>1 DEF ResidueInv, LedgerTypes
    <2> QED
      BY <1>1, <2>1 DEF Message
  <1> QED
    BY <1>1, <1>2 DEF Next

\* The relayer of the API's configuration is one of the wallets.
LEMMA RelayerIsAccount ==
  ASSUME NEW c
  PROVE  c \in Chain => Info[c].relayerWallet \in Account
  BY ClientAssumption DEF Info

\* A redeem without a receipt is one all the same, or nothing happened.
LEMMA NoReceiptStep ==
  ASSUME ResidueInv, NEW c, NEW id, NEW caller, c \in Chain => caller \in Account,
         NoReceipt(c, id, caller)
  PROVE  [Next]_vars /\ completed \subseteq completed'
  BY RedeemStep DEF NoReceipt, vars, bridge

\* transferToken sends as one of the users does.
LEMMA TransferStep ==
  ASSUME NEW k \in Call, NEW c \in Chain, NEW to \in Chain, NEW recipient \in Recipient,
         NEW amount \in 0..bal[c][User], TransferToken(k, c, to, amount, recipient)
  PROVE  [Next]_vars /\ completed' = completed
  <1>1. Info[c].wallet = User /\ Info[c].nimbleXChain = c /\ User \in Account
    BY ClientAssumption DEF Info
  <1>2. SendTokensWithPayload(c, User, amount, to, recipient)
    BY <1>1 DEF TransferToken
  <1> QED
    BY <1>1, <1>2 DEF Next, SendTokensWithPayload, TransferTokens

\* With the callers, the contracts still take only their own steps, and no message
\* is ever redeemed again.
LEMMA ClientStep ==
  ASSUME ResidueInv, [ClientNext]_allVars
  PROVE  [Next]_vars /\ completed \subseteq completed'
  <1>1. ASSUME NEW k \in Call, Calls(k) PROVE [Next]_vars /\ completed \subseteq completed'
    <2>1. CASE \E c, to \in Chain, recipient \in Recipient : \E amount \in 0..bal[c][User] :
                 TransferToken(k, c, to, amount, recipient)
      BY <2>1, TransferStep
    <2>2. CASE \E c \in Chain, id \in DOMAIN sent, caller \in Account :
                 NimbleRelay(k, c, id, caller)
      BY <2>2, RedeemStep, NoReceiptStep DEF NimbleRelay
    <2>3. CASE UNCHANGED vars
      BY <2>3 DEF vars, bridge
    <2> QED
      BY <1>1, <2>1, <2>2, <2>3 DEF Calls, RedeemToken, Relay, TransferFails, RequestFails
  <1>2. ASSUME NEW k \in Call, Continues(k) PROVE [Next]_vars /\ completed \subseteq completed'
    <2>1. CASE RetryRedeem(k)
      BY <2>1, RelayerIsAccount, RedeemStep, NoReceiptStep DEF RetryRedeem
    <2>2. CASE UNCHANGED vars
      BY <2>2 DEF vars, bridge
    <2> QED
      BY <1>2, <2>1, <2>2 DEF Continues, SignedVAA, RetryDecoded
  <1>3. ASSUME Next PROVE completed \subseteq completed'
    BY <1>3 DEF Next, RegisterEmitter, UpdateRelayerFee, SendTokensWithPayload, TransferTokens,
                RedeemTransferWithPayload, CompleteTransfer, GiveToContract, bridge
  <1>4. CASE UNCHANGED allVars
    BY <1>4 DEF allVars, vars, bridge
  <1> QED
    BY <1>1, <1>2, <1>3, <1>4 DEF ClientNext, Others

\* So what holds of the contracts alone holds among their callers.
THEOREM ResidueKeptForClients == ClientSpec => []ResidueStays
  <1>1. ResidueInv => ResidueStays
    BY DEF ResidueInv
  <1>2. ClientInit => ResidueInv
    BY InitResidue DEF ClientInit
  <1>3. ResidueInv /\ [ClientNext]_allVars => ResidueInv'
    BY ClientStep, NextResidue
  <1> QED
    BY <1>1, <1>2, <1>3, PTL DEF ClientSpec

-----------------------------------------------------------------------------
(* Receipts.                                                               *)

CallRecord == [at : Pending \cup Ended \cup {"none"}, id : Nat, tries : Nat]

ReceiptInv == ResidueInv /\ calls \in [Call -> CallRecord] /\ OneReceipt

\* A call changes only its own record; a receipt that was not there before is one of
\* a message redeemed in this very step (retryAsync of relay.ts, one caller of it).
LEMMA ReceiptKept ==
  ASSUME ReceiptInv, completed \subseteq completed', calls' \in [Call -> CallRecord],
         NEW k \in Call, \A j \in Call \ {k} : calls'[j] = calls[j],
         calls'[k].at = "receipt" =>
           \/ calls[k].at = "receipt" /\ calls'[k].id = calls[k].id
           \/ calls'[k].id \notin completed /\ calls'[k].id \in completed'
  PROVE  OneReceipt'
  BY DEF ReceiptInv, OneReceipt

\* The records of the calls keep their form, and nothing but the end of its own redeem
\* gives a call a receipt.
LEMMA ReceiptInvNext == ReceiptInv /\ [ClientNext]_allVars => ReceiptInv'
  <1> SUFFICES ASSUME ReceiptInv, [ClientNext]_allVars PROVE ReceiptInv'
    OBVIOUS
  <1>1. ResidueInv' /\ completed \subseteq completed'
    BY ClientStep, NextResidue DEF ReceiptInv
  <1>2. calls \in [Call -> CallRecord] /\ OneReceipt
    BY DEF ReceiptInv
  <1>3. ASSUME NEW k \in Call, NEW at \in Pending \cup Ended, NEW id \in Nat,
               Begins(k, at, id),
               at = "receipt" => id \notin completed /\ id \in completed'
        PROVE  ReceiptInv'
    <2>1. calls' = [calls EXCEPT ![k] = [at |-> at, id |-> id, tries |-> 0]]
      BY <1>3 DEF Begins
    <2>2. calls' \in [Call -> CallRecord]
      BY <1>2, <2>1 DEF CallRecord
    <2>3. OneReceipt'
      BY <1>1, <1>2, <1>3, <2>1, <2>2, ReceiptKept
    <2> QED
      BY <1>1, <2>2, <2>3 DEF ReceiptInv
  <1>4. ASSUME NEW k \in Call, NEW at \in Pending \cup Ended, NEW tries \in Nat,
               calls' = [calls EXCEPT ![k].tries = tries, ![k].at = at],
               at = "receipt" => calls[k].id \notin completed /\ calls[k].id \in completed'
        PROVE  ReceiptInv'
    <2>1. /\ \A j \in Call \ {k} : calls'[j] = calls[j]
          /\ calls'[k] = [calls[k] EXCEPT !.tries = tries, !.at = at]
      BY <1>2, <1>4
    <2>2. calls'[k].at = at /\ calls'[k].id = calls[k].id
      BY <1>2, <2>1 DEF CallRecord
    <2>3. calls' \in [Call -> CallRecord]
      <3>1. calls[k] \in CallRecord /\ DOMAIN calls' = Call /\ calls' = [j \in Call |-> calls'[j]]
        BY <1>2, <1>4
      <3>2. calls'[k] \in CallRecord
        BY <2>1, <3>1 DEF CallRecord
      <3> QED
        BY <1>2, <2>1, <3>1, <3>2
    <2>4. OneReceipt'
      BY <1>1, <1>4, <2>1, <2>2, <2>3, ReceiptKept
    <2> QED
      BY <1>1, <2>3, <2>4 DEF ReceiptInv
  <1>5. ASSUME NEW k \in Call, TryAgain(k), calls[k].at \in Pending PROVE ReceiptInv'
    <2>1. calls[k].tries + 1 \in Nat
      BY <1>2 DEF CallRecord
    <2> DEFINE end == IF calls[k].tries + 1 < MaxTry THEN calls[k].at ELSE "thrown"
    <2>2. calls' = [calls EXCEPT ![k].tries = calls[k].tries + 1, ![k].at = end]
      BY <1>2, <1>5 DEF TryAgain
    <2>3. end \in Pending \cup Ended /\ end # "receipt"
      BY <1>5 DEF Pending, Ended
    <2> HIDE DEF end
    <2> QED
      BY <2>1, <2>2, <2>3, <1>4
  <1>6. CASE UNCHANGED calls
    BY <1>1, <1>2, <1>6 DEF ReceiptInv, OneReceipt
  <1>7. ASSUME NEW k \in Call, Calls(k) PROVE ReceiptInv'
    <2>1. ASSUME NEW end \in {"null", "thrown", "400", "500", "unanswered"}, Begins(k, end, 0)
          PROVE  ReceiptInv'
      BY <2>1, <1>3 DEF Ended
    <2>2. CASE Begins(k, "signing", Len(sent'))
      <3>1. Len(sent') \in Nat
        BY <1>1 DEF ResidueInv, LedgerTypes
      <3> QED
        BY <2>2, <3>1, <1>3 DEF Pending
    <2>3. ASSUME NEW id \in DOMAIN sent PROVE id \in Nat
      BY <2>3 DEF ReceiptInv, ResidueInv, LedgerTypes
    <2>4. ASSUME NEW id \in DOMAIN sent, Begins(k, "decoded", id) PROVE ReceiptInv'
      BY <2>3, <2>4, <1>3 DEF Pending
    <2>5. ASSUME NEW c \in Chain, NEW id \in DOMAIN sent, NEW caller \in Account,
                 RedeemTransferWithPayload(c, id, caller), Begins(k, "receipt", id)
          PROVE  ReceiptInv'
      <3>1. id \notin completed /\ completed' = completed \cup {id}
        BY <2>5, RedeemStep DEF ReceiptInv
      <3> QED
        BY <2>3, <2>5, <3>1, <1>3 DEF Ended
    <2> QED
      BY <1>7, <2>1, <2>2, <2>4, <2>5
         DEF Calls, TransferToken, TransferFails, RedeemToken, NimbleRelay, RequestFails, Relay
  <1>8. ASSUME NEW k \in Call, SignedVAA(k) PROVE ReceiptInv'
    <2>1. PICK at \in {"redeeming", "thrown"} : calls' = [calls EXCEPT ![k].at = at]
      BY <1>8 DEF SignedVAA, Moves
    <2>2. calls' = [calls EXCEPT ![k].tries = calls[k].tries, ![k].at = at]
      BY <1>2, <2>1 DEF CallRecord
    <2>3. calls[k].tries \in Nat /\ at \in Pending \cup Ended
      BY <1>2 DEF CallRecord, Pending, Ended
    <2> QED
      BY <2>2, <2>3, <1>4
  <1>9. ASSUME NEW k \in Call, RetryRedeem(k) PROVE ReceiptInv'
    <2> DEFINE id == calls[k].id
               c == sent[id].to
    <2>1. CASE /\ RedeemTransferWithPayload(c, id, Info[c].relayerWallet)
               /\ calls' = [calls EXCEPT ![k].at = "receipt"]
      <3>1. id \notin completed /\ completed' = completed \cup {id}
        BY <2>1, RelayerIsAccount, RedeemStep DEF ReceiptInv
      <3>2. calls' = [calls EXCEPT ![k].tries = calls[k].tries, ![k].at = "receipt"]
        BY <1>2, <2>1 DEF CallRecord
      <3>3. calls[k].tries \in Nat /\ "receipt" \in Pending \cup Ended
        BY <1>2 DEF CallRecord, Ended
      <3>4. id \notin completed /\ id \in completed'
        BY <3>1
      <3> QED
        BY <3>2, <3>3, <3>4, <1>4
    <2>2. CASE TryAgain(k)
      BY <1>5, <1>9, <2>2 DEF RetryRedeem, Pending
    <2> QED
      BY <1>9, <2>1, <2>2 DEF RetryRedeem, Moves
  <1>10. ASSUME NEW k \in Call, RetryDecoded(k) PROVE ReceiptInv'
    BY <1>5, <1>10 DEF RetryDecoded, Pending
  <1> QED
    BY <1>6, <1>7, <1>8, <1>9, <1>10
       DEF ClientNext, Continues, Others, clientVars, allVars

\* Of all the calls that redeem one message at the same time (nimbleRelay of relay.ts
\* and of relay/main.ts), with any number of tries and lost answers, at most one is
\* told that it did, and the message is redeemed.
THEOREM OneReceiptEach == ClientSpec => []OneReceipt
  <1>1. ClientInit => ReceiptInv
    <2> SUFFICES ASSUME ClientInit PROVE ReceiptInv
      OBVIOUS
    <2>1. ResidueInv
      BY InitResidue DEF ClientInit
    <2>2. calls = [k \in Call |-> [at |-> "none", id |-> 0, tries |-> 0]]
      BY DEF ClientInit
    <2>3. calls \in [Call -> CallRecord] /\ \A k \in Call : calls[k].at # "receipt"
      BY <2>2 DEF CallRecord
    <2> QED
      BY <2>1, <2>3 DEF ReceiptInv, OneReceipt
  <1>2. ReceiptInv => OneReceipt
    BY DEF ReceiptInv
  <1> QED
    BY <1>1, <1>2, ReceiptInvNext, PTL DEF ClientSpec

-----------------------------------------------------------------------------
(* The contracts among their callers, whose records keep their types: a    *)
(* call holds a message once it has been sent, and has a try left while it *)
(* goes on.                                                                *)

ClientCall == [at : Pending \cup Ended \cup {"none"}, id : 0..MaxSent, tries : 0..MaxTry]

\* The record of a call when n messages have been sent.
CallOK(r, n) ==
  /\ r \in ClientCall
  /\ r.at \in HasMessage => r.id \in 1..n
  /\ r.at \in Pending => r.tries < MaxTry

\* Every call has a record of that form, and the bounds of the model are kept.
ClientInv ==
  /\ LedgerInv
  /\ Len(sent) <= MaxSent
  /\ lost \in 0..MaxLost
  /\ DOMAIN calls = Call /\ calls = [k \in Call |-> calls[k]]
  /\ \A k \in Call : CallOK(calls[k], Len(sent))

\* Messages are only ever added, and no more than MaxSent.
LEMMA SentGrows ==
  ASSUME ResidueInv, Len(sent) <= MaxSent, [Next]_vars
  PROVE  /\ Len(sent) \in Nat /\ Len(sent') \in Nat
         /\ Len(sent) <= Len(sent') /\ Len(sent') <= MaxSent
  <1>1. Len(sent) \in Nat
    BY DEF ResidueInv, LedgerTypes
  <1>2. ASSUME NEW c \in Chain, NEW to \in Chain, NEW user \in Account, NEW recipient \in Recipient,
               NEW amount \in 0..bal[c][user],
               SendTokensWithPayload(c, user, amount, to, recipient)
        PROVE  Len(sent') = Len(sent) + 1 /\ Len(sent) < MaxSent
    <2> DEFINE m == [from |-> c, to |-> to, contract |-> emitters[c][to],
                     amount |-> NormalizeAmount(c, amount), recipient |-> recipient]
    <2>1. sent' = Append(sent, m) /\ Len(sent) < MaxSent /\ sent \in Seq(Message)
      BY <1>2 DEF SendTokensWithPayload, TransferTokens, ResidueInv, LedgerTypes
    <2> HIDE DEF m
    <2> QED
      BY <2>1
  <1>3. ASSUME NEW c \in Chain, NEW id \in DOMAIN sent, NEW caller \in Account,
               RedeemTransferWithPayload(c, id, caller)
        PROVE  sent' = sent
    BY <1>3 DEF RedeemTransferWithPayload, CompleteTransfer
  <1>4. sent' = sent \/ (Len(sent') = Len(sent) + 1 /\ Len(sent) < MaxSent)
    BY <1>2, <1>3 DEF Next, RegisterEmitter, UpdateRelayerFee, GiveToContract, vars, bridge
  <1> QED
    BY <1>1, <1>4, XChainAssumption

\* The invariant has the types.
LEMMA ClientInvTypeOK == ClientInv => ClientTypeOK
  <1> SUFFICES ASSUME ClientInv PROVE ClientTypeOK
    OBVIOUS
  <1>1. TypeOK
    BY LedgerTypeOK DEF ClientInv
  <1>2. DOMAIN sent = 1..Len(sent)
    BY DEF ClientInv, LedgerInv, ResidueInv, LedgerTypes
  <1>3. calls \in [Call -> ClientCall]
    BY DEF ClientInv, CallOK
  <1> QED
    BY <1>1, <1>2, <1>3 DEF ClientInv, CallOK, ClientTypeOK, ClientCall

\* It holds before any call.
LEMMA ClientInvInit == ClientInit => ClientInv
  <1> SUFFICES ASSUME ClientInit PROVE ClientInv
    OBVIOUS
  <1>1. LedgerInv /\ sent = <<>>
    BY InitLedger DEF ClientInit, Init
  <1>2. calls = [k \in Call |-> [at |-> "none", id |-> 0, tries |-> 0]]
        /\ lost = 0
    BY DEF ClientInit
  <1>3. Len(sent) = 0 /\ 0 \in 0..MaxSent /\ 0 \in 0..MaxTry /\ 0 \in 0..MaxLost /\ 0 <= MaxSent
    BY <1>1, XChainAssumption, ClientAssumption
  <1>4. \A k \in Call : CallOK(calls[k], Len(sent))
    BY <1>2, <1>3 DEF CallOK, ClientCall, Pending, HasMessage
  <1> QED
    BY <1>1, <1>2, <1>3, <1>4 DEF ClientInv

\* Each handler, retry and transaction keeps it: a call that begins has a message of those
\* sent, and one that tries again (retryAsync) ends before its tries are more than it has.
LEMMA ClientInvNext == ClientInv /\ [ClientNext]_allVars => ClientInv'
  <1> SUFFICES ASSUME ClientInv, [ClientNext]_allVars PROVE ClientInv'
    OBVIOUS
  <1> DEFINE n == Len(sent)
             N == Len(sent')
  <1>1. LedgerInv /\ ResidueInv /\ lost \in 0..MaxLost /\ n <= MaxSent
    BY DEF ClientInv, LedgerInv
  <1>2. [Next]_vars
    BY <1>1, ClientStep
  <1>3. n \in Nat /\ N \in Nat /\ n <= N /\ N <= MaxSent
    BY <1>1, <1>2, SentGrows
  <1>4. LedgerInv'
    BY <1>1, <1>2, NextLedger
  <1>5. DOMAIN sent = 1..n
    BY <1>1 DEF ResidueInv, LedgerTypes
  <1>6. DOMAIN calls = Call /\ \A k \in Call : CallOK(calls[k], n)
    BY DEF ClientInv
  <1> HIDE DEF n, N
  <1>7. \A k \in Call : CallOK(calls[k], N)
    BY <1>3, <1>6 DEF CallOK
  \* One call changes its record, or none, and one answer at most is lost.
  <1>8. ASSUME NEW k \in Call, NEW r, calls' = [calls EXCEPT ![k] = r], CallOK(r, N),
               lost' \in 0..MaxLost
        PROVE  ClientInv'
    <2>1. DOMAIN calls' = Call /\ calls' = [j \in Call |-> calls'[j]]
      BY <1>6, <1>8
    <2>2. \A j \in Call : calls'[j] = IF j = k THEN r ELSE calls[j]
      BY <1>6, <1>8
    <2>3. \A j \in Call : CallOK(calls'[j], N)
      BY <1>7, <1>8, <2>2
    <2> QED
      BY <1>3, <1>4, <1>8, <2>1, <2>3 DEF ClientInv, N
  <1>9. Loses => lost' \in 0..MaxLost
    BY <1>1, ClientAssumption DEF Loses
  <1>10. UNCHANGED lost => lost' \in 0..MaxLost
    BY <1>1
  \* A call that begins.
  <1>11. ASSUME NEW k \in Call, NEW at \in Pending \cup Ended, NEW id \in 0..N,
                at \in HasMessage => id \in 1..N,
                Begins(k, at, id), lost' \in 0..MaxLost
         PROVE  ClientInv'
    <2> DEFINE r == [at |-> at, id |-> id, tries |-> 0]
    <2>1. calls' = [calls EXCEPT ![k] = r]
      BY <1>11 DEF Begins
    <2>2. id \in 0..MaxSent /\ 0 \in 0..MaxTry /\ 0 < MaxTry
      BY <1>3, XChainAssumption, ClientAssumption
    <2>3. CallOK(r, N)
      BY <1>11, <2>2 DEF CallOK, ClientCall
    <2> HIDE DEF r
    <2> QED
      BY <1>8, <1>11, <2>1, <2>3
  \* A call that tries again.
  <1>12. ASSUME NEW k \in Call, calls[k].at \in {"redeeming", "decoded"}, TryAgain(k),
                lost' \in 0..MaxLost
         PROVE  ClientInv'
    <2> DEFINE next == IF calls[k].tries + 1 < MaxTry THEN calls[k].at ELSE "thrown"
               r == [calls[k] EXCEPT !.tries = calls[k].tries + 1, !.at = next]
    <2>1. CallOK(calls[k], N)
      BY <1>7
    <2>2. calls' = [calls EXCEPT ![k] = r]
      BY <1>6, <1>12, <2>1 DEF TryAgain, CallOK, ClientCall
    <2>3. calls[k].tries + 1 \in 0..MaxTry
      BY <1>12, <2>1, ClientAssumption DEF CallOK, ClientCall, Pending
    <2>4. /\ next \in Pending \cup Ended
          /\ next \in Pending => calls[k].tries + 1 < MaxTry
          /\ next \in HasMessage => next = calls[k].at
      BY <1>12 DEF Pending, Ended, HasMessage
    <2> HIDE DEF next
    <2>5. CallOK(r, N)
      BY <2>1, <2>3, <2>4, <1>12 DEF CallOK, ClientCall
    <2> HIDE DEF r
    <2> QED
      BY <1>8, <1>12, <2>2, <2>5
  \* A call that gets on without a try.
  <1>13. ASSUME NEW k \in Call, NEW at \in {"redeeming", "receipt", "thrown"},
                calls[k].at \in {"signing", "redeeming"}, Moves(k, at), lost' \in 0..MaxLost
         PROVE  ClientInv'
    <2> DEFINE r == [calls[k] EXCEPT !.at = at]
    <2>1. CallOK(calls[k], N)
      BY <1>7
    <2>2. calls' = [calls EXCEPT ![k] = r]
      BY <1>6, <1>13 DEF Moves
    <2>3. CallOK(r, N)
      BY <1>13, <2>1 DEF CallOK, ClientCall, Pending, Ended, HasMessage
    <2> HIDE DEF r
    <2> QED
      BY <1>8, <1>13, <2>2, <2>3
  <1>14. ASSUME UNCHANGED clientVars PROVE ClientInv'
    <2>1. calls' = calls /\ lost' = lost
      BY <1>14 DEF clientVars
    <2> QED
      BY <1>1, <1>3, <1>4, <1>7, <2>1 DEF ClientInv, N
  <1>15. ASSUME NEW k \in Call, Calls(k) PROVE ClientInv'
    <2>1. lost' \in 0..MaxLost
      BY <1>15, <1>9, <1>10
         DEF Calls, TransferToken, TransferFails, RedeemToken, OverrideLost, NimbleRelay,
             NoReceipt, RequestFails, Relay
    <2>2. ASSUME NEW end \in {"null", "thrown", "400", "500", "unanswered"}, Begins(k, end, 0)
          PROVE  ClientInv'
      <3>1. 0 \in 0..N
        BY <1>3
      <3>2. end \in Ended /\ end \notin HasMessage
        BY DEF Ended, HasMessage, Pending
      <3> QED
        BY <2>1, <2>2, <3>1, <3>2, <1>11
    <2>3. ASSUME NEW c \in Chain, NEW to \in Chain, NEW recipient \in Recipient,
                 NEW amount \in 0..bal[c][User],
                 SendTokensWithPayload(c, User, amount, to, recipient),
                 Begins(k, "signing", Len(sent'))
          PROVE  ClientInv'
      <3>1. Len(sent') = Len(sent) + 1
        <4> DEFINE m == [from |-> c, to |-> to, contract |-> emitters[c][to],
                         amount |-> NormalizeAmount(c, amount), recipient |-> recipient]
        <4>1. sent' = Append(sent, m) /\ sent \in Seq(Message)
          BY <2>3, <1>1 DEF SendTokensWithPayload, TransferTokens, ResidueInv, LedgerTypes
        <4> HIDE DEF m
        <4> QED
          BY <4>1
      <3>2. N = n + 1 /\ N \in 0..N /\ N \in 1..N
        BY <1>3, <3>1 DEF n, N
      <3>3. Begins(k, "signing", N)
        BY <2>3 DEF N
      <3> QED
        BY <2>1, <3>2, <3>3, <1>11 DEF Pending
    <2>4. ASSUME NEW at \in {"decoded", "receipt"}, NEW id \in DOMAIN sent, Begins(k, at, id)
          PROVE  ClientInv'
      <3>1. id \in 1..N /\ id \in 0..N
        BY <1>3, <1>5
      <3> QED
        BY <2>1, <2>4, <3>1, <1>11 DEF Pending, Ended
    <2>5. ASSUME NEW c \in Chain PROVE Info[c].nimbleXChain = c /\ Info[c].wallet = User
      BY DEF Info
    <2> QED
      BY <1>15, <2>2, <2>3, <2>4, <2>5
         DEF Calls, TransferToken, TransferFails, RedeemToken, NimbleRelay, RequestFails, Relay
  <1>16. ASSUME NEW k \in Call, Continues(k) PROVE ClientInv'
    <2>1. CASE SignedVAA(k)
      BY <2>1, <1>9, <1>10, <1>13 DEF SignedVAA, OverrideLost
    <2>2. CASE RetryRedeem(k)
      <3>1. lost' \in 0..MaxLost
        BY <2>2, <1>9, <1>10 DEF RetryRedeem, NoReceipt
      <3>2. calls[k].at = "redeeming" /\ (Moves(k, "receipt") \/ TryAgain(k))
        BY <2>2 DEF RetryRedeem
      <3> QED
        BY <3>1, <3>2, <1>12, <1>13
    <2>3. CASE RetryDecoded(k)
      BY <2>3, <1>10, <1>12 DEF RetryDecoded
    <2> QED
      BY <1>16, <2>1, <2>2, <2>3 DEF Continues
  <1> QED
    BY <1>14, <1>15, <1>16 DEF ClientNext, Others, allVars

\* Of any calls of transferToken, redeemToken and the relay service: a call that waits for
\* signatures or tries to redeem has a message that was sent, it never tries more often than
\* retryAsync allows, and contracts and bridge keep their types under all of them.
THEOREM ClientTypes == ClientSpec => []ClientTypeOK
  BY ClientInvInit, ClientInvNext, ClientInvTypeOK, PTL DEF ClientSpec

\* And whatever the calls do, with answers lost and redeems retried, nobody sees the contracts
\* deliver a transfer twice, or move anything a ledger would not.
THEOREM TransfersImplementedForClients == ClientSpec => ImplementsTransfers
  <1>1. ClientInit => Ledger!Init
    BY InitImplements DEF ClientInit
  <1>2. ClientInv /\ [ClientNext]_allVars => [Ledger!Next]_(Ledger!vars)
    BY ClientStep, NextImplements DEF ClientInv, LedgerInv
  <1> QED
    BY <1>1, <1>2, ClientInvInit, ClientInvNext, PTL
       DEF ClientSpec, ImplementsTransfers, Ledger!Spec
=============================================================================
