------------------------ MODULE ContextBuilderProofs ------------------------
(***************************************************************************)
(* Proofs about ContextBuilder for every budget, window, message, summary  *)
(* and memory: a bundle is within the budget when the newest message is    *)
(* the user's, and nothing that fits is left out.                          *)
(*                                                                         *)
(* What the recursive functions of the module compute is proved by the     *)
(* least number for which it would fail (lemma LeastOf, from the well-     *)
(* founded order of the naturals), in the form of a set that is closed     *)
(* under the successor (lemma UpTo).                                       *)
(***************************************************************************)
EXTENDS ContextBuilder, TLAPS, SequenceTheorems, WellFoundedInduction

-----------------------------------------------------------------------------
(* Induction over an interval, and the functions defined along it. *)

LEMMA LeastOf ==
    ASSUME NEW S \in SUBSET Nat, S # {}
    PROVE  \E m \in S : \A n \in S : m <= n
<1> DEFINE R == OpToRel(<, Nat)
<1>1. \A x, y \in Nat : x < y => <<x, y>> \in R
  BY DEF OpToRel
<1>2. IsWellFoundedOn(R, Nat)
  BY NatLessThanWellFounded
<1> HIDE DEF R
<1>3. PICK m \in S : \A n \in S : ~(<<n, m>> \in R)
  BY <1>2, WFMin
<1>4. ASSUME NEW n \in S PROVE m <= n
  <2>1. m \in Nat /\ n \in Nat /\ ~(n < m)
    BY <1>1, <1>3
  <2> QED
    BY <2>1
<1> QED
  BY <1>4

\* A set that holds 0 and, with each number, the next holds every number.
LEMMA UpTo ==
    ASSUME NEW N \in Nat, NEW P, 0 \in P, \A j \in 1..N : j - 1 \in P => j \in P
    PROVE  \A j \in 0..N : j \in P
<1> DEFINE S == {j \in 0..N : j \notin P}
<1> SUFFICES ASSUME S # {} PROVE FALSE
  OBVIOUS
<1>1. S \in SUBSET Nat
  OBVIOUS
<1>2. PICK m \in S : \A n \in S : m <= n
  BY <1>1, LeastOf
<1>3. m \in 0..N /\ m \notin P
  BY <1>2
<1>4. m # 0
  BY <1>3
<1>5. m \in 1..N /\ m - 1 \in 0..N /\ ~(m <= m - 1)
  BY <1>3, <1>4
<1>6. m - 1 \notin S
  BY <1>2, <1>5
<1> QED
  BY <1>3, <1>5, <1>6

\* The room used is a function that goes along the sizes.
LEMMA UsedDef ==
    ASSUME NEW sizes \in Seq(Nat \ {0}), NEW room \in Int
    PROVE  LET used == Used(sizes, room)
               n == Len(sizes) IN
           /\ used \in [0..n -> Nat]
           /\ used[0] = 0
           /\ \A j \in 1..n : used[j] = IF used[j - 1] + sizes[j] <= room
                                        THEN used[j - 1] + sizes[j] ELSE used[j - 1]
<1> DEFINE n == Len(sizes)
           Step(before, j) == IF before + sizes[j] <= room THEN before + sizes[j] ELSE before
           Along(f, k) == /\ f \in [0..k -> Nat]
                          /\ f[0] = 0
                          /\ \A j \in 1..k : f[j] = Step(f[j - 1], j)
           P == {k \in 0..n : \E f : Along(f, k)}
<1>1. n \in Nat /\ \A j \in 1..n : sizes[j] \in Nat /\ sizes[j] > 0
  BY LenProperties
<1>2. ASSUME NEW before \in Nat, NEW j \in 1..n PROVE Step(before, j) \in Nat
  BY <1>1
<1> HIDE DEF n, Step, Along
<1>3. 0 \in P
  <2>1. Along([j \in 0..0 |-> 0], 0)
    BY DEF Along
  <2>2. \E f : Along(f, 0)
    BY <2>1
  <2> QED
    BY <1>1, <2>2
<1>4. ASSUME NEW k \in 1..n, k - 1 \in P PROVE k \in P
  <2>1. PICK f : Along(f, k - 1)
    BY <1>4
  <2> DEFINE g == [j \in 0..k |-> IF j = k THEN Step(f[k - 1], k) ELSE f[j]]
  <2>2. k \in Nat /\ k - 1 \in Nat /\ k - 1 \in 0..(k - 1)
    BY <1>1
  <2>3. Step(f[k - 1], k) \in Nat
    BY <1>2, <2>1, <2>2 DEF Along
  <2>4. g \in [0..k -> Nat]
    BY <2>1, <2>2, <2>3 DEF Along
  <2>5. g[0] = 0
    BY <2>1, <2>2 DEF Along
  <2>6. ASSUME NEW j \in 1..k PROVE g[j] = Step(g[j - 1], j)
    BY <2>1, <2>2 DEF Along
  <2>7. Along(g, k)
    BY <2>4, <2>5, <2>6 DEF Along
  <2>8. \E h : Along(h, k)
    BY <2>7
  <2> QED
    BY <1>1, <2>8
<1>5. n \in P
  <2> HIDE DEF P
  <2>1. \A j \in 0..n : j \in P
    BY <1>1, <1>3, <1>4, UpTo
  <2> QED
    BY <1>1, <2>1
<1>6. PICK f : Along(f, n)
  BY <1>5
<1>7. f = [j \in 0..n |-> IF j = 0 THEN 0 ELSE Step(f[j - 1], j)]
  BY <1>1, <1>6 DEF Along
<1>8. Used(sizes, room) = CHOOSE g : g = [j \in 0..n |-> IF j = 0 THEN 0 ELSE Step(g[j - 1], j)]
  BY DEF Used, Step, n
<1> DEFINE used == Used(sizes, room)
<1>9. used = [j \in 0..n |-> IF j = 0 THEN 0 ELSE Step(used[j - 1], j)]
  BY <1>7, <1>8
<1> HIDE DEF used
<1>10. used[0] = 0 /\ \A j \in 1..n : used[j] = Step(used[j - 1], j)
  BY <1>1, <1>9
<1> DEFINE T == {j \in 0..n : used[j] \in Nat}
<1>11. \A j \in 0..n : j \in T
  <2>1. 0 \in T
    BY <1>1, <1>10
  <2>2. ASSUME NEW j \in 1..n, j - 1 \in T PROVE j \in T
    BY <1>1, <1>2, <1>10, <2>2
  <2> HIDE DEF T
  <2> QED
    BY <1>1, <2>1, <2>2, UpTo
<1>12. used \in [0..n -> Nat]
  <2>1. \A j \in 0..n : used[j] \in Nat
    BY <1>11
  <2> QED
    BY <1>9, <2>1
<1> QED
  BY <1>10, <1>12 DEF used, n, Step

\* So is the sum.
LEMMA SumsDef ==
    ASSUME NEW sizes \in Seq(Nat \ {0}), NEW S
    PROVE  LET sum == Sums(S, sizes)
               n == Len(sizes) IN
           /\ sum \in [0..n -> Nat]
           /\ sum[0] = 0
           /\ \A j \in 1..n : sum[j] = sum[j - 1] + IF j \in S THEN sizes[j] ELSE 0
<1> DEFINE n == Len(sizes)
           Step(before, j) == before + IF j \in S THEN sizes[j] ELSE 0
           Along(f, k) == /\ f \in [0..k -> Nat]
                          /\ f[0] = 0
                          /\ \A j \in 1..k : f[j] = Step(f[j - 1], j)
           P == {k \in 0..n : \E f : Along(f, k)}
<1>1. n \in Nat /\ \A j \in 1..n : sizes[j] \in Nat /\ sizes[j] > 0
  BY LenProperties
<1>2. ASSUME NEW before \in Nat, NEW j \in 1..n PROVE Step(before, j) \in Nat
  BY <1>1
<1> HIDE DEF n, Step, Along
<1>3. 0 \in P
  <2>1. Along([j \in 0..0 |-> 0], 0)
    BY DEF Along
  <2>2. \E f : Along(f, 0)
    BY <2>1
  <2> QED
    BY <1>1, <2>2
<1>4. ASSUME NEW k \in 1..n, k - 1 \in P PROVE k \in P
  <2>1. PICK f : Along(f, k - 1)
    BY <1>4
  <2> DEFINE g == [j \in 0..k |-> IF j = k THEN Step(f[k - 1], k) ELSE f[j]]
  <2>2. k \in Nat /\ k - 1 \in Nat /\ k - 1 \in 0..(k - 1)
    BY <1>1
  <2>3. Step(f[k - 1], k) \in Nat
    BY <1>2, <2>1, <2>2 DEF Along
  <2>4. g \in [0..k -> Nat]
    BY <2>1, <2>2, <2>3 DEF Along
  <2>5. g[0] = 0
    BY <2>1, <2>2 DEF Along
  <2>6. ASSUME NEW j \in 1..k PROVE g[j] = Step(g[j - 1], j)
    BY <2>1, <2>2 DEF Along
  <2>7. Along(g, k)
    BY <2>4, <2>5, <2>6 DEF Along
  <2>8. \E h : Along(h, k)
    BY <2>7
  <2> QED
    BY <1>1, <2>8
<1>5. n \in P
  <2> HIDE DEF P
  <2>1. \A j \in 0..n : j \in P
    BY <1>1, <1>3, <1>4, UpTo
  <2> QED
    BY <1>1, <2>1
<1>6. PICK f : Along(f, n)
  BY <1>5
<1>7. f = [j \in 0..n |-> IF j = 0 THEN 0 ELSE Step(f[j - 1], j)]
  BY <1>1, <1>6 DEF Along
<1>8. Sums(S, sizes) = CHOOSE g : g = [j \in 0..n |-> IF j = 0 THEN 0 ELSE Step(g[j - 1], j)]
  BY DEF Sums, Step, n
<1> DEFINE sum == Sums(S, sizes)
<1>9. sum = [j \in 0..n |-> IF j = 0 THEN 0 ELSE Step(sum[j - 1], j)]
  BY <1>7, <1>8
<1> HIDE DEF sum
<1>10. sum[0] = 0 /\ \A j \in 1..n : sum[j] = Step(sum[j - 1], j)
  BY <1>1, <1>9
<1> DEFINE T == {j \in 0..n : sum[j] \in Nat}
<1>11. \A j \in 0..n : j \in T
  <2>1. 0 \in T
    BY <1>1, <1>10
  <2>2. ASSUME NEW j \in 1..n, j - 1 \in T PROVE j \in T
    BY <1>1, <1>2, <1>10, <2>2
  <2> HIDE DEF T
  <2> QED
    BY <1>1, <2>1, <2>2, UpTo
<1>12. sum \in [0..n -> Nat]
  <2>1. \A j \in 0..n : sum[j] \in Nat
    BY <1>11
  <2> QED
    BY <1>9, <2>1
<1> QED
  BY <1>10, <1>12 DEF sum, n, Step

-----------------------------------------------------------------------------
(* What is taken, and its sum. *)

\* What is taken fits; what is not would not fit beside all that is.
LEMMA TakenFits ==
    ASSUME NEW sizes \in Seq(Nat \ {0}), NEW room \in Int
    PROVE  /\ Taken(sizes, room) \subseteq 1..Len(sizes)
           /\ SumOver(Taken(sizes, room), sizes) \in Nat
           /\ Taken(sizes, room) # {} => SumOver(Taken(sizes, room), sizes) <= room
           /\ room >= 0 => SumOver(Taken(sizes, room), sizes) <= room
           /\ \A j \in 1..Len(sizes) \ Taken(sizes, room) :
                 SumOver(Taken(sizes, room), sizes) + sizes[j] > room
<1> DEFINE n == Len(sizes)
           used == Used(sizes, room)
           S == Taken(sizes, room)
           sum == Sums(S, sizes)
<1>1. n \in Nat /\ DOMAIN sizes = 1..n /\ \A j \in 1..n : sizes[j] \in Nat /\ sizes[j] > 0
  BY LenProperties
<1>2. /\ used \in [0..n -> Nat] /\ used[0] = 0
      /\ \A j \in 1..n : used[j] = IF used[j - 1] + sizes[j] <= room
                                   THEN used[j - 1] + sizes[j] ELSE used[j - 1]
  BY UsedDef
<1>3. /\ sum \in [0..n -> Nat] /\ sum[0] = 0
      /\ \A j \in 1..n : sum[j] = sum[j - 1] + IF j \in S THEN sizes[j] ELSE 0
  BY SumsDef
<1>4. S = {j \in 1..n : used[j] # used[j - 1]}
  BY <1>1 DEF Taken
<1>5. SumOver(S, sizes) = sum[n]
  BY DEF SumOver
<1> HIDE DEF n, used, S, sum
<1>6. \A j \in 1..n : j - 1 \in 0..n /\ j \in 0..n
  BY <1>1
<1>7. \A j \in 1..n : /\ used[j] \in Nat /\ used[j - 1] \in Nat /\ used[j - 1] <= used[j]
                      /\ j \in S <=> used[j - 1] + sizes[j] <= room
                      /\ j \in S => used[j] = used[j - 1] + sizes[j]
                      /\ j \notin S => used[j] = used[j - 1]
  BY <1>1, <1>2, <1>4, <1>6
<1>8. \A j \in 0..n : sum[j] = used[j]
  <2> DEFINE P == {j \in 0..n : sum[j] = used[j]}
  <2>1. 0 \in P
    BY <1>1, <1>2, <1>3
  <2>2. ASSUME NEW j \in 1..n, j - 1 \in P PROVE j \in P
    <3>1. j \in 0..n /\ sum[j - 1] = used[j - 1]
      BY <1>6, <2>2
    <3>2. sum[j] = sum[j - 1] + IF j \in S THEN sizes[j] ELSE 0
      BY <1>3
    <3>3. CASE j \in S
      <4>1. used[j] = used[j - 1] + sizes[j]
        BY <1>7, <3>3
      <4> QED
        BY <3>1, <3>2, <3>3, <4>1
    <3>4. CASE j \notin S
      <4>1. used[j] = used[j - 1] /\ used[j] \in Nat
        BY <1>7, <3>4
      <4> QED
        BY <3>1, <3>2, <3>4, <4>1
    <3> QED
      BY <3>3, <3>4
  <2> HIDE DEF P
  <2>3. \A j \in 0..n : j \in P
    BY <1>1, <2>1, <2>2, UpTo
  <2> QED
    BY <2>3 DEF P
\* The room used never shrinks: it is at least what it was at any earlier size.
<1>9. ASSUME NEW k \in 0..n PROVE used[k] <= used[n]
  <2> DEFINE P == {j \in 0..n : k <= j => used[k] <= used[j]}
  <2>1. 0 \in P
    BY <1>1, <1>2
  <2>2. ASSUME NEW j \in 1..n, j - 1 \in P PROVE j \in P
    <3>1. CASE k <= j - 1
      <4>1. used[k] <= used[j - 1] /\ used[k] \in Nat
        BY <1>2, <2>2, <3>1
      <4> QED
        BY <1>6, <1>7, <4>1
    <3>2. CASE ~(k <= j - 1)
      <4>1. k <= j => k = j
        BY <1>1, <3>2
      <4> QED
        BY <1>6, <1>7, <4>1
    <3> QED
      BY <3>1, <3>2
  <2> HIDE DEF P
  <2>3. \A j \in 0..n : j \in P
    BY <1>1, <2>1, <2>2, UpTo
  <2>4. n \in P /\ k <= n
    BY <1>1, <2>3
  <2> QED
    BY <2>4 DEF P
\* It is none, or it fits.
<1>10. \A j \in 0..n : used[j] = 0 \/ used[j] <= room
  <2> DEFINE P == {j \in 0..n : used[j] = 0 \/ used[j] <= room}
  <2>1. 0 \in P
    BY <1>1, <1>2
  <2>2. ASSUME NEW j \in 1..n, j - 1 \in P PROVE j \in P
    BY <1>1, <1>6, <1>7, <2>2
  <2> HIDE DEF P
  <2>3. \A j \in 0..n : j \in P
    BY <1>1, <2>1, <2>2, UpTo
  <2> QED
    BY <2>3 DEF P
<1>11. n \in 0..n /\ sum[n] = used[n] /\ used[n] \in Nat
  BY <1>1, <1>2, <1>8
<1>12. S \subseteq 1..n
  BY <1>4
<1>13. ASSUME S # {} PROVE used[n] <= room
  <2>1. PICK j \in 1..n : j \in S
    BY <1>12, <1>13
  <2>2. used[j] > 0 /\ used[j] <= used[n]
    <3>1. /\ used[j] = used[j - 1] + sizes[j] /\ used[j - 1] \in Nat
          /\ sizes[j] \in Nat /\ sizes[j] > 0
      BY <1>1, <1>7, <2>1
    <3>2. used[j] <= used[n]
      BY <1>6, <1>9
    <3> QED
      BY <3>1, <3>2
  <2> QED
    BY <1>6, <1>7, <1>10, <1>11, <2>1, <2>2
<1>14. ASSUME room >= 0 PROVE used[n] <= room
  BY <1>10, <1>11, <1>14
<1>15. ASSUME NEW j \in 1..n, j \notin S PROVE used[n] + sizes[j] > room
  <2>1. ~(used[j - 1] + sizes[j] <= room) /\ used[j - 1] <= used[n]
    BY <1>6, <1>7, <1>9, <1>15
  <2> QED
    BY <1>1, <1>6, <1>7, <1>11, <2>1
<1> QED
  BY <1>5, <1>11, <1>12, <1>13, <1>14, <1>15 DEF n, S

\* The sum depends on what is in the domain, ...
LEMMA SumOverDomain ==
    ASSUME NEW sizes \in Seq(Nat \ {0}), NEW S, NEW T,
           \A j \in 1..Len(sizes) : j \in S <=> j \in T
    PROVE  SumOver(S, sizes) = SumOver(T, sizes)
<1> DEFINE n == Len(sizes)
           a == Sums(S, sizes)
           b == Sums(T, sizes)
           P == {j \in 0..n : a[j] = b[j]}
<1>1. n \in Nat
  BY LenProperties
<1>2. /\ a[0] = 0 /\ \A j \in 1..n : a[j] = a[j - 1] + IF j \in S THEN sizes[j] ELSE 0
      /\ b[0] = 0 /\ \A j \in 1..n : b[j] = b[j - 1] + IF j \in T THEN sizes[j] ELSE 0
  BY SumsDef
<1>3. SumOver(S, sizes) = a[n] /\ SumOver(T, sizes) = b[n]
  BY DEF SumOver
<1>4. \A j \in 1..n : j \in S <=> j \in T
  OBVIOUS
<1> HIDE DEF n, a, b
<1>5. 0 \in P
  BY <1>1, <1>2
<1>6. ASSUME NEW j \in 1..n, j - 1 \in P PROVE j \in P
  <2>1. j \in 0..n /\ a[j - 1] = b[j - 1]
    BY <1>1, <1>6
  <2>2. a[j] = b[j]
    BY <1>2, <1>4, <2>1
  <2> QED
    BY <2>1, <2>2
<1> HIDE DEF P
<1>7. n \in P
  <2>1. \A j \in 0..n : j \in P
    BY <1>1, <1>5, <1>6, UpTo
  <2> QED
    BY <1>1, <2>1
<1> QED
  BY <1>3, <1>7 DEF P

\* ... and one more adds its size.
LEMMA SumOverOneMore ==
    ASSUME NEW sizes \in Seq(Nat \ {0}), NEW S, NEW i \in 1..Len(sizes), i \notin S
    PROVE  SumOver(S \cup {i}, sizes) = SumOver(S, sizes) + sizes[i]
<1> DEFINE n == Len(sizes)
           a == Sums(S, sizes)
           b == Sums(S \cup {i}, sizes)
           P == {j \in 0..n : b[j] = IF j < i THEN a[j] ELSE a[j] + sizes[i]}
<1>1. n \in Nat /\ i \in 1..n /\ \A j \in 1..n : sizes[j] \in Nat
  BY LenProperties
<1>2. /\ a \in [0..n -> Nat] /\ a[0] = 0
      /\ \A j \in 1..n : a[j] = a[j - 1] + IF j \in S THEN sizes[j] ELSE 0
      /\ b \in [0..n -> Nat] /\ b[0] = 0
      /\ \A j \in 1..n : b[j] = b[j - 1] + IF j \in S \cup {i} THEN sizes[j] ELSE 0
  BY SumsDef
<1>3. SumOver(S, sizes) = a[n] /\ SumOver(S \cup {i}, sizes) = b[n]
  BY DEF SumOver
<1> HIDE DEF n, a, b
<1>4. 0 \in P
  BY <1>1, <1>2
<1>5. ASSUME NEW j \in 1..n, j - 1 \in P PROVE j \in P
  <2>1. /\ j \in 0..n /\ j - 1 \in 0..n /\ j \in Nat /\ i \in Nat
        /\ b[j - 1] = IF j - 1 < i THEN a[j - 1] ELSE a[j - 1] + sizes[i]
        /\ a[j - 1] \in Nat /\ sizes[j] \in Nat /\ sizes[i] \in Nat
    BY <1>1, <1>2, <1>5
  <2>2. /\ a[j] = a[j - 1] + IF j \in S THEN sizes[j] ELSE 0
        /\ b[j] = b[j - 1] + IF j \in S \cup {i} THEN sizes[j] ELSE 0
    BY <1>2
  <2>3. CASE j < i
    BY <2>1, <2>2, <2>3
  <2>4. CASE j = i
    BY <2>1, <2>2, <2>4
  <2>5. CASE j > i
    BY <2>1, <2>2, <2>5
  <2> QED
    BY <2>1, <2>3, <2>4, <2>5
<1> HIDE DEF P
<1>6. n \in P
  <2>1. \A j \in 0..n : j \in P
    BY <1>1, <1>4, <1>5, UpTo
  <2> QED
    BY <1>1, <2>1
<1> QED
  BY <1>1, <1>3, <1>6 DEF P

-----------------------------------------------------------------------------
(* Texts and messages. *)

Message == [role : {"user", "assistant"}, size : Nat]

\* A third of the bytes, rounded up.
LEMMA TokensOf ==
    ASSUME NEW size \in Nat
    PROVE  /\ Tokens(size) \in Nat
           /\ size <= 3 * Tokens(size)
           /\ 3 * Tokens(size) <= size + 2
  BY DEF Tokens

LEMMA TruncatedFits ==
    ASSUME NEW size \in Nat, NEW max \in Int
    PROVE  /\ Truncated(size, max) \in Nat
           /\ max >= 15 => Tokens(Truncated(size, max)) <= max
<1>1. CASE max <= 0
  BY <1>1 DEF Truncated
<1>2. CASE ~(max <= 0) /\ Tokens(size) <= max
  BY <1>2 DEF Truncated
<1>3. CASE ~(max <= 0) /\ ~(Tokens(size) <= max)
  <2>1. PICK kept : kept = Truncated(size, max)
    OBVIOUS
  <2>2. kept = GreaterOf(43, 3 * max)
    BY <1>3, <2>1 DEF Truncated, Marker
  <2>3. kept \in Nat /\ (max >= 15 => kept <= 3 * max)
    BY <1>3, <2>2 DEF GreaterOf
  <2>4. max >= 15 => Tokens(kept) <= max
    BY <2>3, TokensOf
  <2> QED
    BY <2>1, <2>3, <2>4
<1> QED
  BY <1>1, <1>2, <1>3

LEMMA MessageTokensType ==
    ASSUME NEW m \in Message
    PROVE  MessageTokens(m) \in Nat \ {0}
<1>1. m.size \in Nat /\ RoleSize(m.role) \in Nat
  BY DEF Message, RoleSize
<1>2. Tokens(m.size) \in Nat /\ Tokens(RoleSize(m.role)) \in Nat
  BY <1>1, TokensOf
<1> QED
  BY <1>2 DEF MessageTokens

\* The newest message takes some of the budget, and no more than it when it is
\* the user's.
LEMMA CurrentFits ==
    ASSUME NEW messages \in Seq(Message)
    PROVE  /\ CurrentTokens(messages) \in Nat
           /\ messages # <<>> /\ messages[Len(messages)].role = "user" =>
                 CurrentTokens(messages) <= Budget
<1>1. CASE messages = <<>>
  BY <1>1 DEF CurrentTokens
<1>2. CASE messages # <<>>
  <2> DEFINE newest == messages[Len(messages)]
             size == Truncated(newest.size, GreaterOf(1, Budget - 8))
  <2>1. newest \in Message
    BY <1>2, ElementOfSeq, LenProperties
  <2>2. CurrentTokens(messages) = MessageTokens(CurrentMessage(messages))
    BY <1>2 DEF CurrentTokens
  <2>3. CASE MessageTokens(newest) <= Budget
    BY <2>1, <2>2, <2>3, MessageTokensType DEF CurrentMessage
  <2>4. CASE ~(MessageTokens(newest) <= Budget)
    <3>1. CurrentMessage(messages) = [newest EXCEPT !.size = size]
      BY <2>4 DEF CurrentMessage
    <3>2. GreaterOf(1, Budget - 8) = Budget - 8 /\ Budget - 8 \in Int /\ Budget - 8 >= 15
      BY ContextAssumption DEF ContextAssumption, GreaterOf
    <3>3. newest.size \in Nat
      BY <2>1 DEF Message
    <3>4. size \in Nat /\ Tokens(size) <= Budget - 8
      BY <3>2, <3>3, TruncatedFits
    <3> HIDE DEF size, newest
    <3>5. [newest EXCEPT !.size = size] \in Message
      BY <2>1, <3>4 DEF Message
    <3>6. MessageTokens([newest EXCEPT !.size = size]) = 6 + Tokens(RoleSize(newest.role)) + Tokens(size)
      BY <2>1 DEF MessageTokens, Message
    <3>7. newest.role = "user" => Tokens(RoleSize(newest.role)) = 2
      BY DEF Tokens, RoleSize
    <3>8. Tokens(size) \in Nat /\ Budget \in Nat
      BY <3>4, TokensOf, ContextAssumption DEF ContextAssumption
    <3>9. newest.role = "user" => MessageTokens([newest EXCEPT !.size = size]) <= Budget
      BY <3>4, <3>6, <3>7, <3>8
    <3> QED
      BY <2>2, <3>1, <3>5, <3>9, MessageTokensType DEF newest
  <2> QED
    BY <2>3, <2>4
<1> QED
  BY <1>1, <1>2

\* The messages before the newest one, of the window.
LEMMA EarlierType ==
    ASSUME NEW messages \in Seq(Message)
    PROVE  /\ Earlier(messages) \in Seq(Nat \ {0})
           /\ Len(Earlier(messages)) <= WindowLimit - 1
           /\ DOMAIN Earlier(messages) = 1..Len(Earlier(messages))
<1> DEFINE n == Len(messages)
           first == GreaterOf(0, n - WindowLimit) + 1
           window == Window(messages)
<1>1. /\ n \in Nat /\ WindowLimit \in Nat /\ WindowLimit >= 4
      /\ first \in 1..(n + 1) /\ n - first + 1 <= WindowLimit
  BY LenProperties, ContextAssumption DEF ContextAssumption, GreaterOf
<1>2. /\ window \in Seq(Message)
      /\ Len(window) = IF first <= n THEN n - first + 1 ELSE 0
  <2>1. window = SubSeq(messages, first, n)
    BY DEF Window
  <2> HIDE DEF first, window
  <2> QED
    BY <1>1, <2>1, SubSeqProperties
<1>3. Len(window) \in Nat /\ Len(window) <= WindowLimit
  BY <1>1, <1>2
<1> HIDE DEF window, first, n
<1>4. PICK k \in Nat : k = IF Len(window) = 0 THEN 0 ELSE Len(window) - 1
  <2>1. (IF Len(window) = 0 THEN 0 ELSE Len(window) - 1) \in Nat
    BY <1>3
  <2> QED
    BY <2>1
<1>5. 1..(Len(window) - 1) = 1..k
  BY <1>3, <1>4
<1>6. Earlier(messages) = [j \in 1..k |-> MessageTokens(window[Len(window) - j])]
  BY <1>5 DEF Earlier, window
<1>7. ASSUME NEW j \in 1..k PROVE MessageTokens(window[Len(window) - j]) \in Nat \ {0}
  <2>1. Len(window) - j \in 1..Len(window)
    BY <1>3, <1>4
  <2>2. window[Len(window) - j] \in Message
    BY <1>2, <2>1, ElementOfSeq
  <2> QED
    BY <2>2, MessageTokensType
<1>8. Earlier(messages) \in [1..k -> Nat \ {0}]
  BY <1>6, <1>7
<1> HIDE DEF Earlier
<1>9. Earlier(messages) \in Seq(Nat \ {0}) /\ Len(Earlier(messages)) = k
      /\ DOMAIN Earlier(messages) = 1..k
  BY <1>8, SeqDef
<1> QED
  BY <1>1, <1>3, <1>4, <1>9

-----------------------------------------------------------------------------
(* The bundle. *)

\* What is not NULL of the summary fits beside its wrapper.
LEMMA SectionFits ==
    ASSUME NEW summary \in Nat, NEW room \in Nat
    PROVE  /\ SummarySection(summary, room) \in Nat
           /\ Tokens(SummarySection(summary, room)) <= room
<1> DEFINE max == LesserOf(SummaryTarget, room - Tokens(SummaryWrapper))
           kept == Truncated(summary, max)
<1>1. Tokens(SummaryWrapper) \in Nat
  BY TokensOf DEF SummaryWrapper
<1>2. max \in Int
  BY <1>1, ContextAssumption DEF ContextAssumption, LesserOf
<1>3. kept \in Nat
  BY <1>2, TruncatedFits
<1>4. Tokens(0) = 0
  BY DEF Tokens
<1>5. \/ SummarySection(summary, room) = 0
      \/ /\ SummarySection(summary, room) = SummaryWrapper + kept
         /\ Tokens(SummaryWrapper + kept) <= room
  <2>1. SummaryWrapper + kept \in Nat
    BY <1>3 DEF SummaryWrapper
  <2>2. Tokens(SummaryWrapper + kept) \in Nat
    BY <2>1, TokensOf
  <2> HIDE DEF kept
  <2>3. SummarySection(summary, room) =
          IF summary = 0 \/ room = 0 \/ kept = 0 \/ Tokens(SummaryWrapper + kept) > room THEN 0
          ELSE SummaryWrapper + kept
    BY DEF SummarySection, kept
  <2> QED
    BY <2>2, <2>3
<1> HIDE DEF kept
<1> QED
  BY <1>3, <1>4, <1>5 DEF SummaryWrapper

LEMMA LineSizesType ==
    ASSUME NEW lines \in Seq(Nat)
    PROVE  LET sizes == [j \in DOMAIN lines |-> lines[j] + 1] IN
           /\ sizes \in Seq(Nat \ {0})
           /\ Len(sizes) = Len(lines)
           /\ DOMAIN lines = 1..Len(lines)
           /\ \A j \in DOMAIN lines : sizes[j] = lines[j] + 1
<1> DEFINE sizes == [j \in DOMAIN lines |-> lines[j] + 1]
<1>1. Len(lines) \in Nat /\ DOMAIN lines = 1..Len(lines)
      /\ \A j \in DOMAIN lines : lines[j] \in Nat
  BY LenProperties, ElementOfSeq
<1>2. PICK k \in Nat : k = Len(lines)
  BY <1>1
<1>3. \A j \in DOMAIN lines : sizes[j] = lines[j] + 1
  OBVIOUS
<1>4. sizes \in [1..k -> Nat \ {0}]
  BY <1>1, <1>2
<1> HIDE DEF sizes
<1>5. sizes \in Seq(Nat \ {0}) /\ Len(sizes) = k
  BY <1>4, SeqDef
<1> QED
  BY <1>1, <1>2, <1>3, <1>5 DEF sizes

\* The memories told, with the summary section, fit into the room, and one
\* more would not.
LEMMA MemoriesFit ==
    ASSUME NEW lines \in Seq(Nat), NEW section \in Nat, NEW room \in Nat, Tokens(section) <= room
    PROVE  LET told == MemoriesTold(lines, section, room) IN
           /\ told \subseteq DOMAIN lines
           /\ SystemMemory(lines, told, section) \in Nat
           /\ Tokens(SystemMemory(lines, told, section)) <= room
           /\ \A j \in DOMAIN lines \ told :
                 Tokens(SystemMemory(lines, told \cup {j}, section)) > room
<1> DEFINE sizes == [j \in DOMAIN lines |-> lines[j] + 1]
           limit == 3 * room - Parted(section) - MemoryWrapper + 1
           told == MemoriesTold(lines, section, room)
           sum == SumOver(told, sizes)
<1>1. /\ sizes \in Seq(Nat \ {0}) /\ Len(sizes) = Len(lines)
      /\ DOMAIN lines = 1..Len(lines)
      /\ \A j \in DOMAIN lines : sizes[j] = lines[j] + 1 /\ lines[j] \in Nat
  BY LineSizesType, ElementOfSeq
<1>2. Parted(section) \in Nat
  BY DEF Parted
<1>3. limit \in Int /\ limit = 3 * room - Parted(section) - 104
  BY <1>2 DEF MemoryWrapper
<1>4. told = Taken(sizes, limit)
  BY DEF MemoriesTold
<1>5. \A S : SystemMemory(lines, S, section) =
               IF S = {} THEN section ELSE Parted(section) + (104 + SumOver(S, sizes))
  <2>1. MemoryWrapper - 1 = 104
    BY DEF MemoryWrapper
  <2> QED
    BY <2>1 DEF SystemMemory, MemorySection
<1> HIDE DEF sizes, limit, told
<1>6. /\ told \subseteq 1..Len(sizes)
      /\ sum \in Nat
      /\ told # {} => sum <= limit
      /\ \A j \in 1..Len(sizes) \ told : sum + sizes[j] > limit
  BY <1>1, <1>3, <1>4, TakenFits
<1> HIDE DEF sum
<1>7. \A j \in DOMAIN lines \ told :
         Tokens(SystemMemory(lines, told \cup {j}, section)) > room
  <2> SUFFICES ASSUME NEW j \in DOMAIN lines \ told
               PROVE  Tokens(SystemMemory(lines, told \cup {j}, section)) > room
    OBVIOUS
  <2>1. SumOver(told \cup {j}, sizes) = sum + sizes[j]
    BY <1>1, SumOverOneMore DEF sum
  <2>2. SystemMemory(lines, told \cup {j}, section) = Parted(section) + (104 + (sum + sizes[j]))
    BY <1>5, <2>1
  <2>3. j \in 1..Len(sizes) \ told
    BY <1>1
  <2>4. sum + sizes[j] > limit
    BY <1>6, <2>3
  <2>5. PICK z \in Nat, p \in Nat : z = sizes[j] /\ p = Parted(section)
    BY <1>1, <1>2
  <2>6. PICK size : size = p + (104 + (sum + z))
    OBVIOUS
  <2>7. size \in Nat /\ size > 3 * room
    <3>1. limit = 3 * room - p - 104 /\ sum + z > limit
      BY <1>3, <2>4, <2>5
    <3> QED
      BY <1>6, <2>6, <3>1
  <2>8. Tokens(size) > room
    <3>1. size <= 3 * Tokens(size) /\ Tokens(size) \in Nat
      BY <2>7, TokensOf
    <3>2. PICK k \in Nat : k = Tokens(size)
      BY <3>1
    <3> QED
      BY <2>7, <3>1, <3>2
  <2> QED
    BY <2>2, <2>5, <2>6, <2>8
<1>8. CASE told = {}
  <2>1. SystemMemory(lines, told, section) = section
    BY <1>5, <1>8
  <2> QED
    BY <1>7, <1>8, <2>1 DEF told
<1>9. CASE told # {}
  <2>1. PICK p \in Nat : p = Parted(section)
    BY <1>2
  <2>2. PICK size : size = p + (104 + sum)
    OBVIOUS
  <2>3. SystemMemory(lines, told, section) = size
    BY <1>5, <1>9, <2>1, <2>2 DEF sum
  <2>4. size \in Nat /\ size <= 3 * room
    <3>1. limit = 3 * room - p - 104 /\ sum <= limit
      BY <1>3, <1>6, <1>9, <2>1
    <3> QED
      BY <1>6, <2>2, <3>1
  <2>5. Tokens(size) <= room
    <3>1. 3 * Tokens(size) <= size + 2 /\ Tokens(size) \in Nat
      BY <2>4, TokensOf
    <3>2. PICK k \in Nat : k = Tokens(size)
      BY <3>1
    <3> QED
      BY <2>4, <3>1, <3>2
  <2>6. told \subseteq DOMAIN lines
    BY <1>1, <1>6
  <2> QED
    BY <1>7, <2>3, <2>4, <2>5, <2>6 DEF told
<1> QED
  BY <1>8, <1>9

\* The parts of a bundle: the summary and the memories fit beside the newest
\* message, the earlier messages are those taken from what these leave, and
\* the newest message counts once.
LEMMA BundleParts ==
    ASSUME NEW messages \in Seq(Message), NEW summary \in Nat, NEW lines \in Seq(Nat)
    PROVE  LET bundle == Build(messages, summary, lines)
               earlier == Taken(Earlier(messages),
                                GreaterOf(0, Budget - Tokens(bundle.memory)) - CurrentTokens(messages)) IN
           /\ AuxiliaryBudget(messages) \in Nat
           /\ bundle.memory \in Nat /\ Tokens(bundle.memory) <= AuxiliaryBudget(messages)
           /\ \A j \in DOMAIN lines \ bundle.told :
                 Tokens(SystemMemory(lines, bundle.told \cup {j}, bundle.section))
                   > AuxiliaryBudget(messages)
           /\ bundle.sent = earlier \cup IF messages = <<>> THEN {} ELSE {0}
           /\ earlier \subseteq 1..Len(Earlier(messages))
           /\ EstimatedTokens(messages, bundle) =
                Tokens(bundle.memory) + CurrentTokens(messages) + SumOver(earlier, Earlier(messages))
<1> DEFINE room == AuxiliaryBudget(messages)
           section == SummarySection(summary, room)
           told == MemoriesTold(lines, section, room)
           memory == SystemMemory(lines, told, section)
           limit == GreaterOf(0, Budget - Tokens(memory)) - CurrentTokens(messages)
           earlier == Taken(Earlier(messages), limit)
           bundle == Build(messages, summary, lines)
<1>1. room \in Nat
  BY CurrentFits, ContextAssumption DEF ContextAssumption, AuxiliaryBudget, GreaterOf
<1>2. bundle = [told |-> told, section |-> section, memory |-> memory,
                sent |-> earlier \cup IF messages = <<>> THEN {} ELSE {0}]
  BY DEF Build
<1>3. /\ bundle.told = told /\ bundle.section = section /\ bundle.memory = memory
      /\ bundle.sent = earlier \cup IF messages = <<>> THEN {} ELSE {0}
  BY <1>2
<1> HIDE DEF room
<1>4. section \in Nat /\ Tokens(section) <= room
  BY <1>1, SectionFits
<1> HIDE DEF section
<1>5. /\ memory \in Nat /\ Tokens(memory) <= room
      /\ \A j \in DOMAIN lines \ told :
            Tokens(SystemMemory(lines, told \cup {j}, section)) > room
  BY <1>1, <1>4, MemoriesFit
<1> HIDE DEF told, memory
<1>6. limit \in Int
  <2>1. Tokens(memory) \in Nat /\ CurrentTokens(messages) \in Nat /\ Budget \in Nat
    BY <1>5, TokensOf, CurrentFits, ContextAssumption DEF ContextAssumption
  <2> QED
    BY <2>1 DEF GreaterOf
<1> HIDE DEF limit
<1>7. earlier \subseteq 1..Len(Earlier(messages)) /\ Earlier(messages) \in Seq(Nat \ {0})
  BY <1>6, EarlierType, TakenFits
<1> HIDE DEF earlier, bundle
<1>8. SumOver(bundle.sent, Earlier(messages)) = SumOver(earlier, Earlier(messages))
  <2>1. \A j \in 1..Len(Earlier(messages)) : j \in bundle.sent <=> j \in earlier
    BY <1>3
  <2> QED
    BY <1>7, <2>1, SumOverDomain
<1>9. EstimatedTokens(messages, bundle) =
        Tokens(bundle.memory) + CurrentTokens(messages) + SumOver(earlier, Earlier(messages))
  BY <1>8 DEF EstimatedTokens
<1> QED
  BY <1>1, <1>3, <1>5, <1>7, <1>9 DEF room, limit, earlier, bundle

\* Whatever lengths the texts have, the prompt of a turn whose newest message
\* is the user's is within the budget and the window, and holds that message.
THEOREM BundleWithinBudget ==
    ASSUME NEW messages \in Seq(Message), NEW summary \in Nat, NEW lines \in Seq(Nat),
           messages # <<>>, messages[Len(messages)].role = "user"
    PROVE  WithinBudget(messages, Build(messages, summary, lines))
<1> DEFINE bundle == Build(messages, summary, lines)
           limit == GreaterOf(0, Budget - Tokens(bundle.memory)) - CurrentTokens(messages)
           earlier == Taken(Earlier(messages), limit)
           total == SumOver(earlier, Earlier(messages))
<1>1. /\ AuxiliaryBudget(messages) \in Nat
      /\ bundle.memory \in Nat /\ Tokens(bundle.memory) <= AuxiliaryBudget(messages)
      /\ bundle.sent = earlier \cup {0}
      /\ earlier \subseteq 1..Len(Earlier(messages))
      /\ EstimatedTokens(messages, bundle) = Tokens(bundle.memory) + CurrentTokens(messages) + total
  BY BundleParts
<1> HIDE DEF bundle
<1>2. PICK m \in Nat, c \in Nat : m = Tokens(bundle.memory) /\ c = CurrentTokens(messages)
  BY <1>1, TokensOf, CurrentFits
<1>3. Budget \in Nat /\ c <= Budget
  BY <1>2, CurrentFits, ContextAssumption DEF ContextAssumption
<1>4. m <= Budget - c
  BY <1>1, <1>2, <1>3 DEF AuxiliaryBudget, GreaterOf
<1>5. limit = Budget - m - c
  BY <1>2, <1>3, <1>4 DEF GreaterOf
<1>6. limit \in Int /\ limit >= 0
  BY <1>2, <1>3, <1>4, <1>5
<1> HIDE DEF limit
<1>7. total \in Nat /\ total <= limit
  BY <1>6, EarlierType, TakenFits
<1> HIDE DEF total, earlier
<1>8. EstimatedTokens(messages, bundle) <= Budget
  BY <1>1, <1>2, <1>3, <1>5, <1>7
<1>9. bundle.sent \subseteq 0..(WindowLimit - 1)
  <2>1. PICK n \in Nat : n = Len(Earlier(messages)) /\ n <= WindowLimit - 1
    BY EarlierType, LenProperties
  <2> QED
    BY <1>1, <2>1, ContextAssumption DEF ContextAssumption
<1> QED
  BY <1>1, <1>8, <1>9 DEF WithinBudget, bundle

\* Nothing that fits is left out of a prompt: no message of the window and no
\* memory, whoever wrote the newest message (ContextBuilder.build goes on past
\* one that does not fit).
THEOREM BundleIsFull ==
    ASSUME NEW messages \in Seq(Message), NEW summary \in Nat, NEW lines \in Seq(Nat)
    PROVE  NothingThatFitsIsLeftOut(messages, lines, Build(messages, summary, lines))
<1> DEFINE bundle == Build(messages, summary, lines)
           limit == GreaterOf(0, Budget - Tokens(bundle.memory)) - CurrentTokens(messages)
           earlier == Taken(Earlier(messages), limit)
           total == SumOver(earlier, Earlier(messages))
<1>1. /\ bundle.memory \in Nat
      /\ \A j \in DOMAIN lines \ bundle.told :
            Tokens(SystemMemory(lines, bundle.told \cup {j}, bundle.section))
              > AuxiliaryBudget(messages)
      /\ bundle.sent = earlier \cup IF messages = <<>> THEN {} ELSE {0}
      /\ EstimatedTokens(messages, bundle) = Tokens(bundle.memory) + CurrentTokens(messages) + total
  BY BundleParts
<1> HIDE DEF bundle
<1>2. PICK m \in Nat, c \in Nat : m = Tokens(bundle.memory) /\ c = CurrentTokens(messages)
  BY <1>1, TokensOf, CurrentFits
<1>3. Budget \in Nat
  BY ContextAssumption DEF ContextAssumption
<1>4. limit \in Int /\ limit >= Budget - m - c
  BY <1>2, <1>3 DEF GreaterOf
<1> HIDE DEF limit
<1>5. /\ total \in Nat
      /\ Earlier(messages) \in Seq(Nat \ {0})
      /\ DOMAIN Earlier(messages) = 1..Len(Earlier(messages))
      /\ \A j \in 1..Len(Earlier(messages)) \ earlier : total + Earlier(messages)[j] > limit
  BY <1>4, EarlierType, TakenFits
<1> HIDE DEF total, earlier
<1>6. ASSUME NEW j \in DOMAIN Earlier(messages) \ bundle.sent
      PROVE  EstimatedTokens(messages, bundle) + Earlier(messages)[j] > Budget
  <2>1. j \in 1..Len(Earlier(messages)) \ earlier
    BY <1>1, <1>5
  <2>2. PICK z \in Nat : z = Earlier(messages)[j]
    BY <1>5, <2>1, ElementOfSeq
  <2>3. total + z > limit
    BY <1>5, <2>1, <2>2
  <2>4. PICK least \in Int, sum \in Nat : least = limit /\ sum = total
    BY <1>4, <1>5
  <2>5. EstimatedTokens(messages, bundle) = m + c + sum
    BY <1>1, <1>2, <2>4
  <2>6. m + c + sum + z > Budget
    <3>1. sum + z > least
      BY <2>3, <2>4
    <3>2. least >= Budget - m - c
      BY <1>4, <2>4
    <3> QED
      BY <1>3, <3>1, <3>2
  <2> QED
    BY <2>2, <2>5, <2>6
<1> QED
  BY <1>1, <1>6 DEF NothingThatFitsIsLeftOut, bundle

\* With any memories told, system_memory has a length.
LEMMA SystemMemoryType ==
    ASSUME NEW lines \in Seq(Nat), NEW told, NEW section \in Nat
    PROVE  SystemMemory(lines, told, section) \in Nat
<1> DEFINE sizes == [j \in DOMAIN lines |-> lines[j] + 1]
<1>1. sizes \in Seq(Nat \ {0})
  BY LineSizesType
<1> HIDE DEF sizes
<1>2. Len(sizes) \in Nat
  BY <1>1, LenProperties
<1>3. SumOver(told, sizes) \in Nat
  BY <1>1, <1>2, SumsDef DEF SumOver
<1>4. PICK sum \in Nat : sum = SumOver(told, sizes)
  BY <1>3
<1>5. MemorySection(lines, told) \in Nat
  BY <1>4 DEF MemorySection, MemoryWrapper, sizes
<1>6. Parted(section) \in Nat
  BY DEF Parted
<1> QED
  BY <1>5, <1>6 DEF SystemMemory

\* A prompt is trimmed for want of room only: by BundleIsFull, as a memory that
\* does not fit beside the newest message fits beside no longer prompt either.
THEOREM BundleIsTrimmedForRoom ==
    ASSUME NEW messages \in Seq(Message), NEW summary \in Nat, NEW lines \in Seq(Nat)
    PROVE  LeftOutForWantOfRoom(messages, lines, Build(messages, summary, lines))
<1> DEFINE bundle == Build(messages, summary, lines)
           Telling(j) == SystemMemory(lines, bundle.told \cup {j}, bundle.section)
           sent == SumOver(bundle.sent, Earlier(messages))
<1>1. NothingThatFitsIsLeftOut(messages, lines, bundle)
  BY BundleIsFull
<1>2. bundle.section \in Nat
  <2>1. AuxiliaryBudget(messages) \in Nat
    BY BundleParts
  <2> QED
    BY <2>1, SectionFits DEF Build
<1>3. \A j : [bundle EXCEPT !.memory = Telling(j)].memory = Telling(j)
          /\ [bundle EXCEPT !.memory = Telling(j)].sent = bundle.sent
  BY DEF Build
<1> HIDE DEF bundle
<1>4. sent \in Nat
  <2>1. Earlier(messages) \in Seq(Nat \ {0})
    BY EarlierType
  <2>2. Len(Earlier(messages)) \in Nat
    BY <2>1, LenProperties
  <2> QED
    BY <2>1, <2>2, SumsDef DEF SumOver
<1>5. PICK c \in Nat, s \in Nat : c = CurrentTokens(messages) /\ s = sent
  BY <1>4, CurrentFits
<1>6. Budget \in Nat
  BY ContextAssumption DEF ContextAssumption
<1>7. ASSUME NEW j \in DOMAIN lines \ bundle.told
      PROVE  EstimatedTokens(messages, [bundle EXCEPT !.memory = Telling(j)]) > Budget
  <2>1. Telling(j) \in Nat
    BY <1>2, SystemMemoryType
  <2>2. PICK t \in Nat : t = Tokens(Telling(j))
    BY <2>1, TokensOf
  <2>3. t > GreaterOf(0, Budget - c)
    BY <1>1, <1>5, <2>2 DEF NothingThatFitsIsLeftOut, AuxiliaryBudget
  <2>4. EstimatedTokens(messages, [bundle EXCEPT !.memory = Telling(j)]) = t + c + s
    BY <1>3, <1>5, <2>2 DEF EstimatedTokens
  <2>5. t + c + s > Budget
    BY <1>6, <2>3 DEF GreaterOf
  <2> QED
    BY <2>4, <2>5
<1>8. \A j \in DOMAIN Earlier(messages) \ bundle.sent :
         EstimatedTokens(messages, bundle) + Earlier(messages)[j] > Budget
  BY <1>1 DEF NothingThatFitsIsLeftOut
<1> QED
  BY <1>7, <1>8 DEF LeftOutForWantOfRoom, bundle

=============================================================================
