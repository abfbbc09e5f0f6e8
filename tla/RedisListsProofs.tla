-------------------------- MODULE RedisListsProofs --------------------------
(***************************************************************************)
(* What the list commands of RedisLists do to the elements, the length and *)
(* the absence of duplicates of a list.  LRem is recursive: its properties *)
(* go by induction on the length of the prefix it has scanned, with the    *)
(* well-foundedness of < on Nat stated over sets of numbers.               *)
(***************************************************************************)
EXTENDS RedisLists, SequenceTheorems, WellFoundedInduction, TLAPS

\* A nonempty set of naturals has a least element.
LEMMA LeastNat ==
  ASSUME NEW T \in SUBSET Nat, T # {}
  PROVE  \E n \in T : \A m \in T : n <= m
<1> DEFINE R == {ss \in Nat \X Nat : ss[1] < ss[2]}
<1>1. IsWellFoundedOn(R, Nat)
  BY NatLessThanWellFounded, Zenon DEF OpToRel
<1> HIDE DEF R
<1>2. PICK n \in T : \A m \in T : ~(<<m, n>> \in R)
  BY <1>1, WFMin
<1>3. ASSUME NEW m \in T, ~(n <= m)
      PROVE  FALSE
  <2>1. <<m, n>> \in Nat \X Nat /\ m < n
    BY <1>3
  <2>2. <<m, n>> \in R
    BY <2>1 DEF R
  <2>. QED
    BY <2>2, <1>2
<1>. QED
  BY <1>3

\* Induction over Nat for a set of numbers.
LEMMA SetInduction ==
  ASSUME NEW T \in SUBSET Nat, 0 \in T, \A n \in T : n + 1 \in T
  PROVE  T = Nat
<1>. SUFFICES ASSUME Nat \ T # {} PROVE FALSE
  OBVIOUS
<1>1. PICK n \in Nat \ T : \A m \in Nat \ T : n <= m
  BY LeastNat
<1>2. n # 0 /\ n - 1 \in Nat /\ n - 1 \in T
  BY <1>1
<1>. QED
  BY <1>1, <1>2

\* The right-hand side of the recursive definition in KeptPrefixes.
KeptStep(list, x, kept, i) ==
  IF i = 0 THEN <<>>
  ELSE IF list[i] = x THEN kept[i - 1] ELSE Append(kept[i - 1], list[i])

\* KeptPrefixes is a function on 0..Len(list) that satisfies its recursive definition.
LEMMA KeptUnfold ==
  ASSUME NEW S, NEW list \in Seq(S), NEW x
  PROVE  \A i \in 0..Len(list) :
           KeptPrefixes(list, x)[i] = KeptStep(list, x, KeptPrefixes(list, x), i)
<1>. DEFINE Solves(n) == \E g : g = [i \in 0..n |-> KeptStep(list, x, g, i)]
            T == {n \in Nat : Solves(n)}
<1>1. Len(list) \in Nat
  OBVIOUS
<1>2. 0 \in T
  <2>. DEFINE g == [i \in 0..0 |-> <<>>]
  <2>1. g = [i \in 0..0 |-> KeptStep(list, x, g, i)]
    BY DEF KeptStep
  <2>. QED
    BY <2>1
<1>3. ASSUME NEW n \in T PROVE n + 1 \in T
  <2>1. PICK g : g = [i \in 0..n |-> KeptStep(list, x, g, i)]
    OBVIOUS
  <2>0. n \in Nat /\ n + 1 \in Nat
    OBVIOUS
  <2>. DEFINE h == [i \in 0..(n + 1) |-> IF i <= n THEN g[i] ELSE KeptStep(list, x, g, i)]
  <2>2. ASSUME NEW i \in 0..(n + 1)
        PROVE  h[i] = KeptStep(list, x, h, i)
    <3>1. i # 0 => h[i - 1] = g[i - 1]
      OBVIOUS
    <3>2. i <= n => g[i] = KeptStep(list, x, g, i)
      <4>. SUFFICES ASSUME i <= n PROVE g[i] = KeptStep(list, x, g, i)
        OBVIOUS
      <4>. HIDE DEF h
      <4>1. i \in 0..n
        BY <2>0
      <4>. QED
        BY <4>1, <2>1
    <3>3. h[i] = KeptStep(list, x, g, i)
      BY <3>2
    <3>. QED
      BY <3>1, <3>3 DEF KeptStep
  <2>3. h = [i \in 0..(n + 1) |-> KeptStep(list, x, h, i)]
    BY <2>2
  <2>4. Solves(n + 1)
    BY <2>3
  <2>. HIDE DEF Solves
  <2>. QED
    BY <2>0, <2>4
<1>4. Solves(Len(list))
  <2>. HIDE DEF Solves
  <2>. QED
    BY <1>1, <1>2, <1>3, SetInduction
<1>5. KeptPrefixes(list, x) = CHOOSE g : g = [i \in 0..Len(list) |-> KeptStep(list, x, g, i)]
  BY DEF KeptPrefixes, KeptStep
<1>6. KeptPrefixes(list, x) =
        [i \in 0..Len(list) |-> KeptStep(list, x, KeptPrefixes(list, x), i)]
  BY <1>4, <1>5
<1>. QED
  BY <1>6

\* What LRem has kept of the first i elements: those different from x, in a list
\* no longer than the prefix and without duplicates if the list has none.
KeptInv(S, list, x, k, i) ==
  /\ k \in Seq(S)
  /\ Len(k) <= i
  /\ \A e : e \in Range(k) <=> (e # x /\ \E j \in 1..i : list[j] = e)
  /\ IsInjective(list) => IsInjective(k)

\* Appending an element: the new elements, the new length, duplicates.
LEMMA AppendElement ==
  ASSUME NEW S, NEW list \in Seq(S), NEW x \in S
  PROVE  /\ Append(list, x) \in Seq(S)
         /\ Len(Append(list, x)) = Len(list) + 1
         /\ Range(Append(list, x)) = Range(list) \cup {x}
         /\ IsInjective(list) /\ x \notin Range(list) => IsInjective(Append(list, x))
<1>. DEFINE a == Append(list, x)
<1>1. /\ a \in Seq(S) /\ Len(a) = Len(list) + 1 /\ Len(list) \in Nat
      /\ \A i \in 1..Len(list) : a[i] = list[i]
      /\ a[Len(list) + 1] = x
      /\ DOMAIN a = 1..(Len(list) + 1)
      /\ DOMAIN list = 1..Len(list)
  BY AppendProperties
<1>. HIDE DEF a
<1>2. Range(a) = Range(list) \cup {x}
  <2>1. Range(a) \subseteq Range(list) \cup {x}
    BY <1>1 DEF Range
  <2>2. x \in Range(a)
    BY <1>1 DEF Range
  <2>3. Range(list) \subseteq Range(a)
    BY <1>1 DEF Range
  <2>. QED
    BY <2>1, <2>2, <2>3
<1>3. IsInjective(list) /\ x \notin Range(list) => IsInjective(a)
  BY <1>1 DEF IsInjective, Range
<1>. QED
  BY <1>1, <1>2, <1>3 DEF a

\* KeptInv holds of every prefix.
LEMMA KeptPrefixInv ==
  ASSUME NEW S, NEW list \in Seq(S), NEW x
  PROVE  \A i \in 0..Len(list) : KeptInv(S, list, x, KeptPrefixes(list, x)[i], i)
<1>. DEFINE k == KeptPrefixes(list, x)
            T == {i \in Nat : i <= Len(list) => KeptInv(S, list, x, k[i], i)}
<1>1. /\ Len(list) \in Nat /\ DOMAIN list = 1..Len(list)
      /\ \A j \in 1..Len(list) : list[j] \in S
  OBVIOUS
<1>2. 0 \in T
  <2>1. k[0] = <<>>
    BY KeptUnfold, <1>1 DEF KeptStep
  <2>2. <<>> \in Seq(S) /\ Len(<<>>) = 0 /\ Range(<<>>) = {} /\ IsInjective(<<>>)
    BY DEF Range, IsInjective
  <2>3. ~\E j \in 1..0 : list[j] = list[j]
    OBVIOUS
  <2>4. KeptInv(S, list, x, k[0], 0)
    BY <2>1, <2>2, <2>3 DEF KeptInv
  <2>. HIDE DEF k
  <2>. QED
    BY <2>4
<1>3. ASSUME NEW n \in T PROVE n + 1 \in T
  <2>. SUFFICES ASSUME n + 1 <= Len(list)
                PROVE  KeptInv(S, list, x, k[n + 1], n + 1)
    OBVIOUS
  <2>. DEFINE y == list[n + 1]
  <2>1. KeptInv(S, list, x, k[n], n)
    BY <1>1
  <2>2. k[n + 1] = IF y = x THEN k[n] ELSE Append(k[n], y)
    <3>1. n + 1 \in 0..Len(list) /\ n + 1 # 0 /\ (n + 1) - 1 = n
      BY <1>1
    <3>. QED
      BY <3>1, KeptUnfold DEF KeptStep
  <2>3. y \in S
    BY <1>1
  <2>4. \A e : (\E j \in 1..(n + 1) : list[j] = e) <=> (e = y \/ \E j \in 1..n : list[j] = e)
    OBVIOUS
  <2>. HIDE DEF k, y
  <2>5. CASE y = x
    <3>1. k[n + 1] = k[n]
      BY <2>2, <2>5
    <3>2. \A e : e \in Range(k[n + 1]) <=> (e # x /\ \E j \in 1..(n + 1) : list[j] = e)
      BY <3>1, <2>1, <2>4, <2>5 DEF KeptInv
    <3>3. Len(k[n]) \in Nat /\ Len(k[n]) <= n
      BY <2>1 DEF KeptInv
    <3>. QED
      BY <3>1, <3>2, <3>3, <2>1 DEF KeptInv
  <2>6. CASE y # x
    <3>1. /\ k[n + 1] \in Seq(S) /\ Len(k[n + 1]) = Len(k[n]) + 1
          /\ Range(k[n + 1]) = Range(k[n]) \cup {y}
          /\ IsInjective(k[n]) /\ y \notin Range(k[n]) => IsInjective(k[n + 1])
      BY <2>1, <2>2, <2>3, <2>6, AppendElement DEF KeptInv
    <3>2. \A e : e \in Range(k[n + 1]) <=> (e # x /\ \E j \in 1..(n + 1) : list[j] = e)
      BY <3>1, <2>1, <2>4, <2>6 DEF KeptInv
    <3>3. IsInjective(list) => y \notin Range(k[n])
      <4>. SUFFICES ASSUME IsInjective(list), NEW j \in 1..n, list[j] = y
                    PROVE  FALSE
        BY <2>1 DEF KeptInv
      <4>1. j \in DOMAIN list /\ n + 1 \in DOMAIN list /\ j # n + 1
        BY <1>1
      <4>. QED
        BY <4>1 DEF IsInjective, y
    <3>4. Len(k[n]) \in Nat /\ Len(k[n]) <= n
      BY <2>1 DEF KeptInv
    <3>. QED
      BY <3>1, <3>2, <3>3, <3>4, <2>1 DEF KeptInv
  <2>. QED
    BY <2>5, <2>6
<1>4. T = Nat
  <2>. HIDE DEF k
  <2>. QED
    BY <1>2, <1>3, SetInduction
<1>. QED
  BY <1>1, <1>4

\* LREM 0 removes exactly the element, never lengthens and makes no duplicates.
THEOREM LRemProperties ==
  ASSUME NEW S, NEW list \in Seq(S), NEW x
  PROVE  /\ LRem(list, x) \in Seq(S)
         /\ Len(LRem(list, x)) <= Len(list)
         /\ Range(LRem(list, x)) = Range(list) \ {x}
         /\ IsInjective(list) => IsInjective(LRem(list, x))
<1>1. Len(list) \in 0..Len(list) /\ DOMAIN list = 1..Len(list)
  OBVIOUS
<1>2. KeptInv(S, list, x, LRem(list, x), Len(list))
  BY <1>1, KeptPrefixInv DEF LRem
<1>3. Range(LRem(list, x)) = Range(list) \ {x}
  BY <1>1, <1>2 DEF KeptInv, Range
<1>. QED
  BY <1>2, <1>3 DEF KeptInv

\* LPUSH adds its element, at the head.
THEOREM LPushProperties ==
  ASSUME NEW S, NEW list \in Seq(S), NEW x \in S
  PROVE  /\ LPush(list, x) \in Seq(S)
         /\ Range(LPush(list, x)) = Range(list) \cup {x}
         /\ IsInjective(list) /\ x \notin Range(list) => IsInjective(LPush(list, x))
<1>. DEFINE a == LPush(list, x)
<1>1. /\ a \in Seq(S) /\ Len(a) = Len(list) + 1 /\ Len(list) \in Nat
      /\ a[1] = x
      /\ \A i \in 1..Len(list) : a[i + 1] = list[i]
      /\ DOMAIN a = 1..(Len(list) + 1)
      /\ DOMAIN list = 1..Len(list)
  BY DEF LPush
<1>. HIDE DEF a
<1>2. \A i \in 2..(Len(list) + 1) : i - 1 \in 1..Len(list) /\ a[i] = list[i - 1]
  <2>. TAKE i \in 2..(Len(list) + 1)
  <2>1. i - 1 \in 1..Len(list) /\ (i - 1) + 1 = i
    BY <1>1
  <2>. QED
    BY <2>1, <1>1
<1>3. Range(a) = Range(list) \cup {x}
  <2>1. Range(a) \subseteq Range(list) \cup {x}
    <3>. SUFFICES ASSUME NEW i \in 1..(Len(list) + 1) PROVE a[i] \in Range(list) \cup {x}
      BY <1>1 DEF Range
    <3>1. CASE i = 1
      BY <3>1, <1>1
    <3>2. CASE i # 1
      BY <3>2, <1>1, <1>2 DEF Range
    <3>. QED
      BY <3>1, <3>2
  <2>2. x \in Range(a)
    BY <1>1 DEF Range
  <2>3. Range(list) \subseteq Range(a)
    <3>. SUFFICES ASSUME NEW i \in 1..Len(list) PROVE list[i] \in Range(a)
      BY <1>1 DEF Range
    <3>1. i + 1 \in DOMAIN a /\ a[i + 1] = list[i]
      BY <1>1
    <3>. QED
      BY <3>1 DEF Range
  <2>. QED
    BY <2>1, <2>2, <2>3
<1>4. IsInjective(list) /\ x \notin Range(list) => IsInjective(a)
  <2>. SUFFICES ASSUME IsInjective(list), x \notin Range(list),
                       NEW i \in 1..(Len(list) + 1), NEW j \in 1..(Len(list) + 1), a[i] = a[j]
                PROVE  i = j
    BY <1>1 DEF IsInjective
  <2>1. \A m \in 2..(Len(list) + 1) : a[m] # x
    <3>1. \A m \in 1..Len(list) : list[m] # x
      BY <1>1 DEF Range
    <3>. QED
      BY <3>1, <1>2
  <2>2. CASE i = 1 \/ j = 1
    BY <2>1, <2>2, <1>1
  <2>3. CASE i # 1 /\ j # 1
    <3>1. i - 1 \in DOMAIN list /\ j - 1 \in DOMAIN list /\ list[i - 1] = list[j - 1]
      BY <2>3, <1>1, <1>2
    <3>. QED
      BY <3>1, <1>1 DEF IsInjective
  <2>. QED
    BY <2>2, <2>3
<1>. QED
  BY <1>1, <1>3, <1>4 DEF a

\* BLMOVE's pop: the head leaves, the rest stays as it was.
THEOREM PopLeftProperties ==
  ASSUME NEW S, NEW list \in Seq(S), list # <<>>
  PROVE  /\ LeftOf(list) \in S
         /\ PopLeft(list) \in Seq(S)
         /\ Range(list) = Range(PopLeft(list)) \cup {LeftOf(list)}
         /\ IsInjective(list) => /\ IsInjective(PopLeft(list))
                                 /\ LeftOf(list) \notin Range(PopLeft(list))
<1>. DEFINE t == PopLeft(list)
<1>1. /\ LeftOf(list) = list[1] /\ list[1] \in S /\ Len(list) \in Nat \ {0}
      /\ t \in Seq(S) /\ Len(t) = Len(list) - 1
      /\ \A i \in 1..(Len(list) - 1) : t[i] = list[i + 1]
      /\ DOMAIN t = 1..(Len(list) - 1)
      /\ DOMAIN list = 1..Len(list)
  BY DEF LeftOf, PopLeft
<1>. HIDE DEF t
<1>2. Range(list) = Range(t) \cup {list[1]}
  <2>1. ASSUME NEW i \in 1..Len(list) PROVE list[i] \in Range(t) \cup {list[1]}
    <3>1. CASE i = 1
      BY <3>1
    <3>2. CASE i # 1
      <4>1. i - 1 \in DOMAIN t /\ t[i - 1] = list[(i - 1) + 1] /\ (i - 1) + 1 = i
        BY <3>2, <1>1
      <4>. QED
        BY <4>1 DEF Range
    <3>. QED
      BY <3>1, <3>2
  <2>2. ASSUME NEW i \in 1..(Len(list) - 1) PROVE t[i] \in Range(list)
    <3>1. i + 1 \in DOMAIN list /\ t[i] = list[i + 1]
      BY <1>1
    <3>. QED
      BY <3>1 DEF Range
  <2>3. 1 \in DOMAIN list
    BY <1>1
  <2>4. Range(list) \subseteq Range(t) \cup {list[1]}
    <3>. SUFFICES ASSUME NEW i \in DOMAIN list PROVE list[i] \in Range(t) \cup {list[1]}
      BY DEF Range
    <3>. QED
      BY <1>1, <2>1
  <2>5. Range(t) \subseteq Range(list)
    <3>. SUFFICES ASSUME NEW i \in DOMAIN t PROVE t[i] \in Range(list)
      BY DEF Range
    <3>. QED
      BY <1>1, <2>2
  <2>6. list[1] \in Range(list)
    BY <2>3 DEF Range
  <2>. QED
    BY <2>4, <2>5, <2>6
<1>3. ASSUME IsInjective(list)
      PROVE  IsInjective(t) /\ list[1] \notin Range(t)
  <2>1. \A i \in 1..(Len(list) - 1) : i + 1 \in DOMAIN list /\ i + 1 # 1 /\ t[i] = list[i + 1]
    BY <1>1
  <2>2. 1 \in DOMAIN list
    BY <1>1
  <2>3. IsInjective(t)
    <3>. SUFFICES ASSUME NEW i \in 1..(Len(list) - 1), NEW j \in 1..(Len(list) - 1), t[i] = t[j]
                  PROVE  i = j
      BY <1>1 DEF IsInjective
    <3>1. i + 1 = j + 1
      BY <1>3, <2>1 DEF IsInjective
    <3>. QED
      BY <3>1
  <2>4. list[1] \notin Range(t)
    BY <1>1, <1>3, <2>1, <2>2 DEF IsInjective, Range
  <2>. QED
    BY <2>3, <2>4
<1>. QED
  BY <1>1, <1>2, <1>3 DEF t

\* BLMOVE's push: the element arrives at the right end.
THEOREM PushRightProperties ==
  ASSUME NEW S, NEW list \in Seq(S), NEW x \in S
  PROVE  /\ PushRight(list, x) \in Seq(S)
         /\ Len(PushRight(list, x)) = Len(list) + 1
         /\ Range(PushRight(list, x)) = Range(list) \cup {x}
         /\ IsInjective(list) /\ x \notin Range(list) => IsInjective(PushRight(list, x))
<1>. QED
  BY AppendElement DEF PushRight
=============================================================================
