---------------------------- MODULE FilteringProofs ----------------------------
(***************************************************************************)
(* What is left of a list: lemmas about Filtered.                          *)
(***************************************************************************)
EXTENDS Filtering, WellFoundedInduction, TLAPS

\* What was kept of the first places of a list, for each of the numbers up to m.
KeptTo(f, list, wanted, m) ==
  f = [n \in 0 .. m |-> IF n = 0 THEN << >>
                        ELSE IF list[n] \in wanted THEN Append(f[n - 1], list[n])
                                                   ELSE f[n - 1]]

\* A set of numbers that is not empty has a least one.
LEMMA LeastNumber ==
  ASSUME NEW Bad \in SUBSET Nat, Bad # {}
  PROVE  \E m \in Bad : \A k \in Bad : ~(k < m)
<1>1. PICK m \in Bad : \A k \in Bad : ~(<<k, m>> \in OpToRel(<, Nat))
  BY NatLessThanWellFounded, WFMin, Zenon
<1>2. \A k \in Bad : k < m => <<k, m>> \in OpToRel(<, Nat)
  BY DEF OpToRel
<1> QED BY <1>1, <1>2

\* The recursion has a solution.
LEMMA KeptExists ==
  ASSUME NEW list, NEW wanted, NEW m \in Nat
  PROVE  \E f : KeptTo(f, list, wanted, m)
<1> DEFINE Bad == {k \in Nat : ~ \E f : KeptTo(f, list, wanted, k)}
<1> SUFFICES Bad = {}
  OBVIOUS
<1> SUFFICES ASSUME Bad # {} PROVE FALSE
  OBVIOUS
<1>1. PICK k \in Bad : \A j \in Bad : ~(j < k)
  <2>1. Bad \in SUBSET Nat
    OBVIOUS
  <2> HIDE DEF Bad
  <2> QED BY <2>1, LeastNumber
<1>2. CASE k = 0
  <2>1. KeptTo([n \in 0 .. 0 |-> << >>], list, wanted, 0)
    BY DEF KeptTo
  <2> QED BY <1>2, <2>1
<1>3. CASE k # 0
  <2>1. k - 1 \in Nat /\ k - 1 < k
    BY <1>3
  <2>2. PICK f : KeptTo(f, list, wanted, k - 1)
    BY <1>1, <2>1
  <2> DEFINE g == [n \in 0 .. k |->
                     IF n = k THEN IF list[k] \in wanted THEN Append(f[k - 1], list[k]) ELSE f[k - 1]
                              ELSE f[n]]
  <2>3. \A n \in 0 .. k : n # 0 => n - 1 \in 0 .. (k - 1) /\ n - 1 \in 0 .. k /\ n - 1 # k
    OBVIOUS
  <2>4. \A n \in 0 .. k : n # k => n \in 0 .. (k - 1)
    OBVIOUS
  <2>5. \A n \in 0 .. k : n # 0 => g[n - 1] = f[n - 1]
    BY <2>3
  <2>6. \A n \in 0 .. k : g[n] = IF n = 0 THEN << >>
                                 ELSE IF list[n] \in wanted THEN Append(g[n - 1], list[n])
                                                            ELSE g[n - 1]
    <3> TAKE n \in 0 .. k
    <3>1. CASE n = k
      BY <1>3, <2>5, <3>1
    <3>2. CASE n # k
      <4>1. g[n] = f[n] /\ n \in 0 .. (k - 1)
        BY <2>4, <3>2
      <4> HIDE DEF g
      <4> QED BY <2>2, <2>5, <4>1 DEF KeptTo
    <3> QED BY <3>1, <3>2
  <2>7. g = [n \in 0 .. k |-> g[n]]
    OBVIOUS
  <2> HIDE DEF g
  <2>8. KeptTo(g, list, wanted, k)
    BY <2>6, <2>7 DEF KeptTo
  <2> QED BY <2>8
<1> QED BY <1>2, <1>3

\* The recursion has one solution, which depends on the places it is about.
LEMMA KeptAgrees ==
  ASSUME NEW one, NEW other, NEW wanted, NEW m \in Nat, NEW k \in Nat, m <= k,
         \A n \in 1 .. m : one[n] = other[n],
         NEW f, NEW g, KeptTo(f, one, wanted, m), KeptTo(g, other, wanted, k)
  PROVE  f[m] = g[m]
<1> DEFINE Bad == {n \in 0 .. m : f[n] # g[n]}
<1> SUFFICES ASSUME Bad # {} PROVE FALSE
  OBVIOUS
<1>1. PICK n \in Bad : \A j \in Bad : ~(j < n)
  <2>1. Bad \in SUBSET Nat
    OBVIOUS
  <2> HIDE DEF Bad
  <2> QED BY <2>1, LeastNumber
<1>2. n \in 0 .. m /\ n \in 0 .. k /\ n \in Nat
  OBVIOUS
<1>3. CASE n = 0
  BY <1>2, <1>3 DEF KeptTo
<1>4. CASE n # 0
  <2>1. n - 1 \in 0 .. m /\ n - 1 < n /\ n \in 1 .. m
    BY <1>2, <1>4
  <2>2. f[n - 1] = g[n - 1]
    BY <1>1, <2>1
  <2>3. one[n] = other[n]
    BY <2>1
  <2>4. f[n] = IF one[n] \in wanted THEN Append(f[n - 1], one[n]) ELSE f[n - 1]
    BY <1>2, <1>4 DEF KeptTo
  <2>5. g[n] = IF other[n] \in wanted THEN Append(g[n - 1], other[n]) ELSE g[n - 1]
    BY <1>2, <1>4 DEF KeptTo
  <2>6. f[n] = g[n]
    BY <2>2, <2>3, <2>4, <2>5
  <2> QED BY <2>6
<1> QED BY <1>3, <1>4

\* Filtered is what the recursion computes.
LEMMA FilteredIsKept ==
  ASSUME NEW list, NEW wanted, Len(list) \in Nat
  PROVE  \E f : KeptTo(f, list, wanted, Len(list)) /\ Filtered(list, wanted) = f[Len(list)]
<1> DEFINE kept == CHOOSE f : KeptTo(f, list, wanted, Len(list))
<1>1. KeptTo(kept, list, wanted, Len(list))
  BY KeptExists
<1>2. Filtered(list, wanted) = kept[Len(list)]
  BY DEF Filtered, KeptTo
<1> QED BY <1>1, <1>2

\* Of an empty list nothing is kept, and of a list that grows its new entry, or
\* nothing more.
LEMMA FilteredEmpty == \A wanted : Filtered(<< >>, wanted) = << >>
<1> TAKE wanted
<1>1. Len(<< >>) = 0
  OBVIOUS
<1>2. PICK f : KeptTo(f, << >>, wanted, 0) /\ Filtered(<< >>, wanted) = f[0]
  BY <1>1, FilteredIsKept
<1> QED BY <1>2 DEF KeptTo

LEMMA FilteredAppend ==
  ASSUME NEW T, NEW list \in Seq(T), NEW x \in T, NEW wanted
  PROVE  Filtered(Append(list, x), wanted) =
           IF x \in wanted THEN Append(Filtered(list, wanted), x) ELSE Filtered(list, wanted)
<1> DEFINE m == Len(list)
           longer == Append(list, x)
<1>1. m \in Nat /\ Len(longer) = m + 1 /\ longer[m + 1] = x /\ \A n \in 1 .. m : list[n] = longer[n]
  OBVIOUS
<1> HIDE DEF longer
<1>2. PICK f : KeptTo(f, list, wanted, m) /\ Filtered(list, wanted) = f[m]
  BY <1>1, FilteredIsKept
<1>3. PICK g : KeptTo(g, longer, wanted, m + 1) /\ Filtered(longer, wanted) = g[m + 1]
  BY <1>1, FilteredIsKept
<1>4. f[m] = g[m]
  <2>1. m + 1 \in Nat /\ m <= m + 1
    BY <1>1
  <2> HIDE DEF m
  <2> QED BY <1>1, <1>2, <1>3, <2>1, KeptAgrees
<1>5. g[m + 1] = IF x \in wanted THEN Append(g[m], x) ELSE g[m]
  <2>1. m + 1 \in 0 .. (m + 1) /\ m + 1 # 0 /\ (m + 1) - 1 = m
    BY <1>1
  <2> HIDE DEF m
  <2> QED BY <1>1, <1>3, <2>1 DEF KeptTo
<1> QED BY <1>2, <1>3, <1>4, <1>5 DEF longer

\* What is kept are the wanted entries of the list, none more often than in it.
LEMMA FilteredFacts ==
  ASSUME NEW T, NEW list \in Seq(T), NEW wanted
  PROVE  /\ Filtered(list, wanted) \in Seq(T)
         /\ \A x : (\E i \in DOMAIN Filtered(list, wanted) : Filtered(list, wanted)[i] = x)
                     <=> x \in wanted /\ \E i \in DOMAIN list : list[i] = x
         /\ (\A i, j \in DOMAIN list : list[i] = list[j] => i = j)
              => \A i, j \in DOMAIN Filtered(list, wanted) :
                   Filtered(list, wanted)[i] = Filtered(list, wanted)[j] => i = j
<1> DEFINE L == Len(list)
           Holds(x, s) == \E i \in DOMAIN s : s[i] = x
           Once(s) == \A i, j \in DOMAIN s : s[i] = s[j] => i = j
<1>1. L \in Nat /\ DOMAIN list = 1 .. L
  OBVIOUS
<1>2. PICK f : KeptTo(f, list, wanted, L) /\ Filtered(list, wanted) = f[L]
  BY <1>1, FilteredIsKept
<1> DEFINE Good(n) ==
             /\ f[n] \in Seq(T)
             /\ \A x : Holds(x, f[n]) <=> x \in wanted /\ \E i \in 1 .. n : list[i] = x
             /\ Once(list) => Once(f[n])
           Bad == {n \in 0 .. L : ~Good(n)}
<1>3. Bad = {}
  <2> SUFFICES ASSUME Bad # {} PROVE FALSE
    OBVIOUS
  <2>1. PICK n \in Bad : \A j \in Bad : ~(j < n)
    <3>1. Bad \in SUBSET Nat
      BY <1>1
    <3> HIDE DEF Bad
    <3> QED BY <3>1, LeastNumber
  <2>2. n \in 0 .. L /\ n \in Nat
    BY <1>1
  <2>3. CASE n = 0
    <3>1. f[0] = << >>
      BY <1>1, <1>2 DEF KeptTo
    <3>2. Good(0)
      BY <3>1
    <3> HIDE DEF Good
    <3> QED BY <2>3, <3>2
  <2>4. CASE n # 0
    <3>1. n - 1 \in 0 .. L /\ n - 1 < n /\ n \in 1 .. L /\ 1 .. n = 1 .. (n - 1) \cup {n}
          /\ n \notin 1 .. (n - 1)
      BY <1>1, <2>2, <2>4
    <3>2. Good(n - 1)
      <4> HIDE DEF Good
      <4> QED BY <2>1, <3>1
    <3>3. f[n] = IF list[n] \in wanted THEN Append(f[n - 1], list[n]) ELSE f[n - 1]
      BY <1>2, <2>2, <2>4 DEF KeptTo
    <3>4. list[n] \in T
      BY <1>1, <3>1
    <3>5. CASE list[n] \notin wanted
      <4>1. f[n] = f[n - 1]
        BY <3>3, <3>5
      <4>2. \A x : (x \in wanted /\ \E i \in 1 .. n : list[i] = x)
                     <=> x \in wanted /\ \E i \in 1 .. (n - 1) : list[i] = x
        BY <3>1, <3>5
      <4>3. Good(n)
        BY <3>2, <4>1, <4>2
      <4> HIDE DEF Good
      <4> QED BY <4>3
    <3>6. CASE list[n] \in wanted
      <4> DEFINE s == f[n - 1]
                 m == Len(s)
      <4>1. s \in Seq(T) /\ m \in Nat /\ DOMAIN s = 1 .. m
        BY <3>2
      <4>2. /\ f[n] \in Seq(T) /\ DOMAIN f[n] = 1 .. (m + 1) /\ f[n][m + 1] = list[n]
            /\ \A i \in 1 .. m : f[n][i] = s[i]
        BY <3>3, <3>4, <3>6, <4>1
      <4>3. 1 .. (m + 1) = 1 .. m \cup {m + 1} /\ m + 1 \notin 1 .. m
        BY <4>1
      <4>4. \A x : Holds(x, f[n]) <=> Holds(x, s) \/ x = list[n]
        BY <4>1, <4>2, <4>3
      <4>5. \A x : Holds(x, f[n]) <=> x \in wanted /\ \E i \in 1 .. n : list[i] = x
        <5>1. \A x : (\E i \in 1 .. n : list[i] = x)
                       <=> x = list[n] \/ \E i \in 1 .. (n - 1) : list[i] = x
          BY <3>1
        <5> HIDE DEF Holds
        <5> QED BY <3>2, <3>6, <4>4, <5>1
      <4>6. ASSUME Once(list) PROVE Once(f[n])
        <5>1. ~Holds(list[n], s)
          <6>1. \A i \in 1 .. (n - 1) : i \in DOMAIN list /\ n \in DOMAIN list /\ i # n
            BY <1>1, <3>1
          <6>2. ~ \E i \in 1 .. (n - 1) : list[i] = list[n]
            BY <4>6, <6>1
          <6> HIDE DEF Holds
          <6> QED BY <3>2, <6>2
        <5>2. Once(s)
          BY <3>2, <4>6
        <5>3. \A i \in 1 .. m : f[n][i] = s[i] /\ s[i] # list[n] /\ f[n][m + 1] # f[n][i]
          BY <4>1, <4>2, <5>1
        <5>4. \A i, j \in 1 .. m : f[n][i] = f[n][j] => i = j
          BY <4>1, <5>2, <5>3
        <5>5. \A i, j \in 1 .. (m + 1) : f[n][i] = f[n][j] => i = j
          BY <4>3, <5>3, <5>4
        <5> HIDE DEF m, s
        <5> QED BY <4>2, <5>5
      <4>7. Good(n)
        <5> HIDE DEF Holds, Once
        <5> QED BY <4>2, <4>5, <4>6
      <4> HIDE DEF Good
      <4> QED BY <4>7
    <3> QED BY <3>5, <3>6
  <2> QED BY <2>3, <2>4
<1>4. Good(L)
  <2>1. L \in 0 .. L
    BY <1>1
  <2> HIDE DEF Good
  <2> QED BY <1>3, <2>1
<1> QED BY <1>1, <1>2, <1>4
================================================================================
