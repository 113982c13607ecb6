---------------------------- MODULE MemoryProofs ----------------------------
(***************************************************************************)
(* Proofs about the conversation of a session and what outlives it, for    *)
(* any number of requests, turns, messages and summaries and for every     *)
(* size of the window.                                                     *)
(***************************************************************************)
EXTENDS MCMemory, SequenceTheorems, FiniteSetTheorems, WellFoundedInduction, TLAPS

----------------------------------------------------------------------------
(* Loops and largest members.                                              *)

\* Induction over the natural numbers.
LEMMA NatInduct ==
    ASSUME NEW S, 0 \in S, \A n \in Nat : n \in S => n + 1 \in S
    PROVE  \A n \in Nat : n \in S
<1> DEFINE Less == OpToRel(<, Nat)
           T == Nat \ S
<1> SUFFICES ASSUME T # {} PROVE FALSE
  OBVIOUS
<1>1. T \subseteq Nat /\ IsWellFoundedOn(Less, Nat)
  BY NatLessThanWellFounded
<1>2. \A x, y \in Nat : x < y => <<x, y>> \in Less
  BY DEF OpToRel
<1> HIDE DEF Less
<1>3. PICK x \in T : \A y \in T : ~ (<<y, x>> \in Less)
  BY <1>1, WFMin
<1>4. x \in Nat \ {0} /\ x - 1 \in Nat /\ (x - 1) + 1 = x
  OBVIOUS
<1>5. <<x - 1, x>> \in Less
  BY <1>2, <1>4
<1>6. x - 1 \notin T
  BY <1>3, <1>5
<1> QED
  BY <1>3, <1>4, <1>6

\* A bounded set of numbers has a largest one.
LEMMA MaxOfBounded ==
    ASSUME NEW S, S \subseteq Nat, S # {}, NEW n \in Nat, \A x \in S : x <= n
    PROVE  Max(S) \in S /\ \A y \in S : y <= Max(S)
<1> DEFINE Bounded(m) == \A T \in SUBSET Nat : T # {} /\ (\A x \in T : x <= m) => \E x \in T : \A y \in T : x >= y
           I == {m \in Nat : Bounded(m)}
<1>1. 0 \in I
  <2> SUFFICES ASSUME NEW T \in SUBSET Nat, T # {}, \A x \in T : x <= 0
               PROVE  \E x \in T : \A y \in T : x >= y
    OBVIOUS
  <2>1. PICK x \in T : TRUE
    OBVIOUS
  <2>2. \A y \in T : y \in Nat /\ y <= 0
    OBVIOUS
  <2> QED
    BY <2>1, <2>2
<1>2. \A m \in Nat : m \in I => m + 1 \in I
  <2> SUFFICES ASSUME NEW m \in Nat, Bounded(m), NEW T \in SUBSET Nat, T # {}, \A x \in T : x <= m + 1
               PROVE  \E x \in T : \A y \in T : x >= y
    OBVIOUS
  <2>1. CASE m + 1 \in T
    <3>1. \A y \in T : m + 1 >= y
      OBVIOUS
    <3> QED
      BY <2>1, <3>1
  <2>2. CASE m + 1 \notin T
    <3>1. \A x \in T : x \in Nat /\ x <= m + 1 /\ x # m + 1
      BY <2>2
    <3>2. \A x \in T : x <= m
      BY <3>1
    <3> QED
      BY <3>2
  <2> QED
    BY <2>1, <2>2
<1>3. n \in I
  <2> HIDE DEF I
  <2> QED
    BY <1>1, <1>2, NatInduct
<1>4. \E x \in S : \A y \in S : x >= y
  BY <1>3
<1>5. Max(S) \in S /\ \A y \in S : Max(S) >= y
  BY <1>4 DEF Max
<1>6. \A y \in S : y \in Nat
  OBVIOUS
<1> HIDE DEF Max
<1> QED
  BY <1>5, <1>6

----------------------------------------------------------------------------
(* Selected.                                                               *)

\* What is selected of each prefix.
Pick(out, x, S) == IF x \in S THEN Append(out, x) ELSE out

AfterSelect(g, s, S) ==
    /\ g[0] = <<>>
    /\ \A k \in 1 .. Len(s) : g[k] = IF s[k] \in S THEN Append(g[k - 1], s[k]) ELSE g[k - 1]
    /\ Selected(s, S) = g[Len(s)]

LEMMA SelectStep ==
    ASSUME NEW s, NEW S, Len(s) \in Nat
    PROVE  \E g : AfterSelect(g, s, S)
<1> DEFINE e == <<>>
           After(m, g) ==
             g = [k \in 0 .. m |-> IF k = 0 THEN e ELSE Pick(g[k - 1], s[k], S)]
           I == {m \in Nat : \E g : After(m, g)}
<1>0. Selected(s, S) = (CHOOSE g : After(Len(s), g))[Len(s)]
  BY DEF Selected, Pick
<1>a. e = <<>>
  OBVIOUS
<1> HIDE DEF e
<1>1. 0 \in I
  <2> DEFINE g == [k \in 0 .. 0 |-> e]
  <2>1. After(0, g)
    OBVIOUS
  <2> HIDE DEF g
  <2> QED
    BY <2>1
<1>2. \A m \in Nat : m \in I => m + 1 \in I
  <2> SUFFICES ASSUME NEW m \in Nat, NEW g, After(m, g)
               PROVE  \E h : After(m + 1, h)
    OBVIOUS
  <2> DEFINE last == Pick(g[m], s[m + 1], S)
             h == [k \in 0 .. m + 1 |-> IF k = m + 1 THEN last ELSE g[k]]
  <2>1. \A k \in 0 .. m + 1 :
            h[k] = IF k = 0 THEN e ELSE Pick(h[k - 1], s[k], S)
    <3> SUFFICES ASSUME NEW k \in 0 .. m + 1
                 PROVE  h[k] = IF k = 0 THEN e ELSE Pick(h[k - 1], s[k], S)
      OBVIOUS
    <3>1. CASE k = m + 1
      <4>1. h[k - 1] = g[m] /\ k # 0
        BY <3>1
      <4> QED
        BY <3>1, <4>1
    <3>2. CASE k \in 0 .. m
      <4>1. h[k] = g[k] /\ (k # 0 => h[k - 1] = g[k - 1])
        BY <3>2
      <4> QED
        BY <3>2, <4>1
    <3> QED
      BY <3>1, <3>2
  <2>2. h = [k \in 0 .. m + 1 |-> h[k]]
    OBVIOUS
  <2> HIDE DEF h
  <2>3. After(m + 1, h)
    BY <2>1, <2>2
  <2> QED
    BY <2>3
<1>3. Len(s) \in I
  <2> HIDE DEF I
  <2> QED
    BY <1>1, <1>2, NatInduct
<1>4. \E g : After(Len(s), g)
  BY <1>3
<1> DEFINE f == CHOOSE g : After(Len(s), g)
<1>5. After(Len(s), f)
  BY <1>4
<1>6. Selected(s, S) = f[Len(s)]
  BY <1>0
<1> HIDE DEF f
<1>7. /\ f[0] = e
      /\ \A k \in 1 .. Len(s) : f[k] = Pick(f[k - 1], s[k], S)
  BY <1>5
<1>8. AfterSelect(f, s, S)
  BY <1>6, <1>7, <1>a DEF AfterSelect, Pick
<1> QED
  BY <1>8

\* What is selected is a sequence of members of the set.
LEMMA SelectedType ==
    ASSUME NEW T, NEW s \in Seq(T), NEW S
    PROVE  Selected(s, S) \in Seq(S \cap T)
<1>1. Len(s) \in Nat /\ \A k \in 1 .. Len(s) : s[k] \in T
  BY LenProperties, ElementOfSeq
<1>2. PICK g : AfterSelect(g, s, S)
  BY <1>1, SelectStep
<1> DEFINE I == {m \in Nat : m <= Len(s) => g[m] \in Seq(S \cap T)}
<1>3. 0 \in I
  BY <1>2, EmptySeq DEF AfterSelect
<1>4. \A m \in Nat : m \in I => m + 1 \in I
  <2> SUFFICES ASSUME NEW m \in Nat, m + 1 <= Len(s), g[m] \in Seq(S \cap T)
               PROVE  g[m + 1] \in Seq(S \cap T)
    BY <1>1
  <2>1. m + 1 \in 1 .. Len(s) /\ (m + 1) - 1 = m
    BY <1>1
  <2>2. g[m + 1] = IF s[m + 1] \in S THEN Append(g[m], s[m + 1]) ELSE g[m]
    BY <1>2, <2>1 DEF AfterSelect
  <2>3. s[m + 1] \in S => Append(g[m], s[m + 1]) \in Seq(S \cap T)
    BY <1>1, <2>1, AppendProperties
  <2> QED
    BY <2>2, <2>3
<1>5. Len(s) \in I
  <2> HIDE DEF I
  <2> QED
    BY <1>1, <1>3, <1>4, NatInduct
<1> QED
  BY <1>1, <1>2, <1>5 DEF AfterSelect

\* What is selected of the first k, and where it stood.
Sub(out, s, k, S) ==
    /\ Len(out) \in Nat
    /\ \A i \in 1 .. Len(out) : \E a \in 1 .. k : out[i] = s[a]
    /\ \A i, j \in 1 .. Len(out) : i < j => \E a, b \in 1 .. k : a < b /\ out[i] = s[a] /\ out[j] = s[b]
    /\ \A a \in 1 .. k : s[a] \in S => \E i \in 1 .. Len(out) : out[i] = s[a]
    /\ Len(out) > 0 => \E a \in 1 .. k : out[Len(out)] = s[a] /\ \A b \in 1 .. k : b > a => s[b] \notin S

LEMMA SubKept ==
    ASSUME NEW out, NEW s, NEW k \in Nat, NEW S, Sub(out, s, k, S), s[k + 1] \notin S
    PROVE  Sub(out, s, k + 1, S)
<1>1. \A a \in 1 .. k : a \in 1 .. k + 1
  OBVIOUS
<1>2. \A a \in 1 .. k + 1 : a \in 1 .. k \/ a = k + 1
  OBVIOUS
<1>3. \A i \in 1 .. Len(out) : \E a \in 1 .. k + 1 : out[i] = s[a]
  BY <1>1 DEF Sub
<1>4. \A i, j \in 1 .. Len(out) : i < j => \E a, b \in 1 .. k + 1 : a < b /\ out[i] = s[a] /\ out[j] = s[b]
  BY <1>1 DEF Sub
<1>5. \A a \in 1 .. k + 1 : s[a] \in S => \E i \in 1 .. Len(out) : out[i] = s[a]
  BY <1>2 DEF Sub
<1>6. ASSUME Len(out) > 0
      PROVE  \E a \in 1 .. k + 1 : out[Len(out)] = s[a] /\ \A b \in 1 .. k + 1 : b > a => s[b] \notin S
  <2>1. PICK a \in 1 .. k : out[Len(out)] = s[a] /\ \A b \in 1 .. k : b > a => s[b] \notin S
    BY <1>6 DEF Sub
  <2>2. a \in 1 .. k + 1 /\ \A b \in 1 .. k + 1 : b > a => s[b] \notin S
    BY <1>1, <1>2, <2>1
  <2> QED
    BY <2>1, <2>2
<1> QED
  BY <1>3, <1>4, <1>5, <1>6 DEF Sub

LEMMA SubGrown ==
    ASSUME NEW T, NEW out \in Seq(T), NEW s, NEW k \in Nat, NEW S, Sub(out, s, k, S), s[k + 1] \in T
    PROVE  Sub(Append(out, s[k + 1]), s, k + 1, S)
<1> DEFINE n == Len(out)
           m == s[k + 1]
           new == Append(out, m)
<1>1. n \in Nat /\ new \in Seq(T) /\ Len(new) = n + 1 /\ new[n + 1] = m /\ \A i \in 1 .. n : new[i] = out[i]
  BY AppendProperties, LenProperties
<1>2. /\ \A i \in 1 .. n : \E a \in 1 .. k : out[i] = s[a]
      /\ \A i, j \in 1 .. n : i < j => \E a, b \in 1 .. k : a < b /\ out[i] = s[a] /\ out[j] = s[b]
      /\ \A a \in 1 .. k : s[a] \in S => \E i \in 1 .. n : out[i] = s[a]
  BY DEF Sub
<1>3. \A a \in 1 .. k : a \in 1 .. k + 1 /\ a < k + 1
  OBVIOUS
<1>4. k + 1 \in 1 .. k + 1 /\ \A a \in 1 .. k + 1 : a \in 1 .. k \/ a = k + 1
  OBVIOUS
<1>5. n + 1 \in 1 .. n + 1 /\ \A i \in 1 .. n + 1 : i \in 1 .. n \/ i = n + 1
  BY <1>1
<1>6. s[k + 1] = m
  OBVIOUS
<1>7. \A i \in 1 .. n : i \in 1 .. n + 1 /\ i < n + 1
  BY <1>1
<1>8. \A i, j \in Nat : ~ (i < j /\ j < i)
  OBVIOUS
<1>9. 1 .. n + 1 \subseteq Nat /\ \A i : ~ (i = n + 1 /\ i < n + 1)
  BY <1>1
<1> HIDE DEF new, m, n
<1>11. \A i \in 1 .. n + 1 : \E a \in 1 .. k + 1 : new[i] = s[a]
  BY <1>1, <1>2, <1>3, <1>4, <1>5, <1>6
<1>12. ASSUME NEW i \in 1 .. n + 1, NEW j \in 1 .. n + 1, i < j
       PROVE  \E a, b \in 1 .. k + 1 : a < b /\ new[i] = s[a] /\ new[j] = s[b]
  <2>1. i \in 1 .. n
    BY <1>1, <1>5, <1>12
  <2>2. CASE j \in 1 .. n
    <3>1. PICK a \in 1 .. k, b \in 1 .. k : a < b /\ out[i] = s[a] /\ out[j] = s[b]
      BY <1>2, <1>12, <2>1, <2>2
    <3>2. new[i] = out[i] /\ new[j] = out[j] /\ a \in 1 .. k + 1 /\ b \in 1 .. k + 1
      BY <1>1, <1>3, <2>1, <2>2
    <3> QED
      BY <3>1, <3>2
  <2>3. CASE j = n + 1
    BY <1>1, <1>2, <1>3, <1>4, <1>6, <2>1, <2>3
  <2> QED
    BY <1>5, <2>2, <2>3
<1>13. \A a \in 1 .. k + 1 : s[a] \in S => \E i \in 1 .. n + 1 : new[i] = s[a]
  BY <1>1, <1>2, <1>4, <1>5, <1>6, <1>7
<1>14. new[n + 1] = s[k + 1] /\ \A b \in 1 .. k + 1 : ~ (b > k + 1)
  BY <1>1, <1>6
<1>15. \E a \in 1 .. k + 1 : new[n + 1] = s[a] /\ \A b \in 1 .. k + 1 : b > a => s[b] \notin S
  BY <1>4, <1>14
<1>16. Len(new) = n + 1 /\ n + 1 \in Nat
  BY <1>1
<1> DEFINE l == n + 1
<1>18. /\ l \in Nat /\ \A i \in 1 .. l : \E a \in 1 .. k + 1 : new[i] = s[a]
       /\ \A i, j \in 1 .. l : i < j => \E a, b \in 1 .. k + 1 : a < b /\ new[i] = s[a] /\ new[j] = s[b]
       /\ \A a \in 1 .. k + 1 : s[a] \in S => \E i \in 1 .. l : new[i] = s[a]
       /\ \E a \in 1 .. k + 1 : new[l] = s[a] /\ \A b \in 1 .. k + 1 : b > a => s[b] \notin S
  BY <1>11, <1>12, <1>13, <1>15, <1>16
<1>19. Len(new) = l
  BY <1>16
<1> HIDE DEF l
<1>17. Sub(new, s, k + 1, S)
  BY <1>18, <1>19 DEF Sub
<1> QED
  BY <1>17 DEF new, m

LEMMA SelectedSub ==
    ASSUME NEW T, NEW s \in Seq(T), NEW S
    PROVE  Sub(Selected(s, S), s, Len(s), S)
<1>1. Len(s) \in Nat /\ \A k \in 1 .. Len(s) : s[k] \in T
  BY LenProperties, ElementOfSeq
<1>2. PICK g : AfterSelect(g, s, S)
  BY <1>1, SelectStep
<1> DEFINE I == {m \in Nat : m <= Len(s) => g[m] \in Seq(T) /\ Sub(g[m], s, m, S)}
<1>3. 0 \in I
  <2>1. g[0] = <<>> /\ <<>> \in Seq(T) /\ Len(<<>>) = 0
    BY <1>2, EmptySeq DEF AfterSelect
  <2> DEFINE e == g[0]
  <2>2. e \in Seq(T) /\ Len(e) = 0
    BY <2>1
  <2> HIDE DEF e
  <2>3. Sub(e, s, 0, S)
    BY <2>2 DEF Sub
  <2> QED
    BY <2>2, <2>3 DEF e
<1>4. \A m \in Nat : m \in I => m + 1 \in I
  <2> SUFFICES ASSUME NEW m \in Nat, m + 1 <= Len(s), g[m] \in Seq(T), Sub(g[m], s, m, S)
               PROVE  g[m + 1] \in Seq(T) /\ Sub(g[m + 1], s, m + 1, S)
    BY <1>1
  <2>1. m + 1 \in 1 .. Len(s) /\ (m + 1) - 1 = m
    BY <1>1
  <2>2. g[m + 1] = IF s[m + 1] \in S THEN Append(g[m], s[m + 1]) ELSE g[m]
    BY <1>2, <2>1 DEF AfterSelect
  <2>3. s[m + 1] \in T
    BY <1>1, <2>1
  <2>4. CASE s[m + 1] \in S
    BY <2>2, <2>3, <2>4, SubGrown, AppendProperties
  <2>5. CASE s[m + 1] \notin S
    BY <2>2, <2>5, SubKept
  <2> QED
    BY <2>4, <2>5
<1>5. Len(s) \in I
  <2> HIDE DEF I
  <2> QED
    BY <1>1, <1>3, <1>4, NatInduct
<1> QED
  BY <1>1, <1>2, <1>5 DEF AfterSelect

\* A row put in after the first p.
PutAfter(new, o, p, e) ==
    /\ Len(new) = Len(o) + 1
    /\ \A i \in 1 .. p : new[i] = o[i]
    /\ new[p + 1] = e
    /\ \A i \in p + 2 .. Len(o) + 1 : new[i] = o[i - 1]

LEMMA InsertAtProperties ==
    ASSUME NEW T, NEW o \in Seq(T), NEW p \in 0 .. Len(o), NEW e \in T
    PROVE  InsertAt(o, p + 1, e) \in Seq(T) /\ PutAfter(InsertAt(o, p + 1, e), o, p, e)
<1> DEFINE n == Len(o)
           x == SubSeq(o, 1, p)
           y == SubSeq(o, p + 1, n)
           one == <<e>>
           xe == x \o one
           new == xe \o y
<1>1. n \in Nat /\ p \in Nat /\ p <= n /\ \A i \in 1 .. n : o[i] \in T
  BY LenProperties, ElementOfSeq
<1>2. x \in Seq(T) /\ Len(x) = p /\ \A i \in 1 .. p : x[i] = o[i]
  <2>1. \A i \in 1 .. p : o[i] \in T
    BY <1>1
  <2>2. /\ x \in Seq(T) /\ Len(x) = IF 1 <= p THEN p - 1 + 1 ELSE 0
        /\ \A i \in 1 .. p - 1 + 1 : x[i] = o[1 + i - 1]
    BY <1>1, <2>1, SubSeqProperties
  <2> HIDE DEF x
  <2> QED
    BY <1>1, <2>2
<1>3. y \in Seq(T) /\ Len(y) = n - p /\ \A i \in 1 .. n - p : y[i] = o[p + i]
  <2>1. \A i \in p + 1 .. n : o[i] \in T
    BY <1>1
  <2>2. p + 1 \in Int /\ n \in Int
    BY <1>1
  <2>3. /\ y \in Seq(T) /\ Len(y) = IF p + 1 <= n THEN n - (p + 1) + 1 ELSE 0
        /\ \A i \in 1 .. n - (p + 1) + 1 : y[i] = o[(p + 1) + i - 1]
    BY <2>1, <2>2, SubSeqProperties
  <2> HIDE DEF y, n
  <2> QED
    BY <1>1, <2>3
<1>4. one \in Seq(T) /\ Len(one) = 1 /\ one[1] = e
  OBVIOUS
<1>5. p + 1 - 1 = p
  BY <1>1
<1>a. SubSeq(o, 1, p + 1 - 1) = x
  BY <1>5
<1>d. \A q : InsertAt(o, q, e) = (SubSeq(o, 1, q - 1) \o <<e>>) \o SubSeq(o, q, Len(o))
  BY Zenon DEF InsertAt
<1>6. InsertAt(o, p + 1, e) = new
  <2> DEFINE q == p + 1
  <2>1. SubSeq(o, 1, q - 1) = x
    BY <1>a
  <2>2. SubSeq(o, q, Len(o)) = y
    OBVIOUS
  <2> HIDE DEF q, x, y, one
  <2>3. InsertAt(o, q, e) = (x \o <<e>>) \o y
    BY <1>d, <2>1, <2>2
  <2>4. <<e>> = one
    BY DEF one
  <2> QED
    BY <2>3, <2>4 DEF q
<1> HIDE DEF x, y, one
<1>b. /\ xe \in Seq(T) /\ Len(xe) = Len(x) + Len(one)
      /\ \A i \in 1 .. Len(x) + Len(one) : xe[i] = IF i <= Len(x) THEN x[i] ELSE one[i - Len(x)]
  BY <1>2, <1>4, ConcatProperties
<1> HIDE DEF xe
<1>7. xe \in Seq(T) /\ Len(xe) = p + 1 /\ \A i \in 1 .. p + 1 : xe[i] = IF i <= p THEN x[i] ELSE one[i - p]
  BY <1>2, <1>4, <1>b
<1>c. /\ new \in Seq(T) /\ Len(new) = Len(xe) + Len(y)
      /\ \A i \in 1 .. Len(xe) + Len(y) : new[i] = IF i <= Len(xe) THEN xe[i] ELSE y[i - Len(xe)]
  BY <1>3, <1>7, ConcatProperties
<1> HIDE DEF new
<1>8. new \in Seq(T) /\ Len(new) = p + 1 + (n - p)
      /\ \A i \in 1 .. (p + 1) + (n - p) : new[i] = IF i <= p + 1 THEN xe[i] ELSE y[i - (p + 1)]
  BY <1>3, <1>7, <1>c
<1>9. Len(new) = n + 1
  BY <1>1, <1>8
<1> HIDE DEF n
<1>10. \A i \in 1 .. p : new[i] = o[i]
  BY <1>1, <1>2, <1>7, <1>8
<1>11. new[p + 1] = e
  <2>1. p + 1 \in 1 .. (p + 1) + (n - p) /\ p + 1 \in 1 .. p + 1 /\ ~ (p + 1 <= p) /\ p + 1 - p = 1
    BY <1>1
  <2> QED
    BY <1>4, <1>7, <1>8, <2>1
<1>12. ASSUME NEW i \in p + 2 .. n + 1
       PROVE  new[i] = o[i - 1]
  <2>1. /\ i \in 1 .. (p + 1) + (n - p) /\ ~ (i <= p + 1)
        /\ i - (p + 1) \in 1 .. n - p /\ p + (i - (p + 1)) = i - 1
    BY <1>1
  <2> QED
    BY <1>3, <1>8, <2>1
<1>13. PutAfter(new, o, p, e)
  BY <1>9, <1>10, <1>11, <1>12 DEF PutAfter, n
<1> QED
  BY <1>6, <1>8, <1>13 DEF new

----------------------------------------------------------------------------
(* The pairing of calls and results.                                       *)

\* A row of a message: a stored result names its call.
Fine(m) ==
    /\ m = [id |-> m.id, role |-> m.role, of |-> m.of, run |-> m.run, tool |-> m.tool, ok |-> m.ok, by |-> m.by]
    /\ m.role = "tool_result" => m.of # NoMessage

Messages(out) == \E U : out \in Seq(U) /\ \A m \in U : Fine(m)

\* Everything is paired but a call at the end.
Answered(out, i) == out[i + 1].role \in {"tool_result", "synthetic"} /\ out[i + 1].of = out[i].id
Half(out) ==
    /\ Messages(out)
    /\ \A i \in 1 .. Len(out) - 1 : out[i].role = "tool_call" => Answered(out, i)
    /\ \A i \in 1 .. Len(out) : out[i].role = "tool_result" => i > 1 /\ out[i - 1].role = "tool_call"

LEMMA Lengths ==
    ASSUME NEW out, Messages(out)
    PROVE  Len(out) \in Nat /\ DOMAIN out = 1 .. Len(out) /\ \A i \in 1 .. Len(out) : Fine(out[i])
  BY LenProperties, ElementOfSeq DEF Messages

LEMMA Appended ==
    ASSUME NEW out, Messages(out), NEW m, Fine(m)
    PROVE  LET new == Append(out, m)
           IN  /\ Messages(new) /\ Len(new) = Len(out) + 1 /\ new[Len(out) + 1] = m
               /\ \A i \in 1 .. Len(out) : new[i] = out[i]
<1>1. PICK U : out \in Seq(U) /\ \A x \in U : Fine(x)
  BY DEF Messages
<1> DEFINE W == U \cup {m}
<1>2. out \in Seq(W) /\ m \in W /\ \A x \in W : Fine(x)
  BY <1>1, SeqMonotonic
<1> HIDE DEF W
<1>3. /\ Append(out, m) \in Seq(W) /\ Len(Append(out, m)) = Len(out) + 1
      /\ \A i \in 1 .. Len(out) : Append(out, m)[i] = out[i]
      /\ Append(out, m)[Len(out) + 1] = m
  BY <1>2, AppendProperties
<1> QED
  BY <1>2, <1>3 DEF Messages

\* A message may follow what is paired so far: when a call is pending only its
\* answer, otherwise anything but a result.
LEMMA HalfAppended ==
    ASSUME NEW out, Half(out), NEW m, Fine(m),
           IF Pending(out) THEN m.role \in {"tool_result", "synthetic"} /\ m.of = Last(out).id
                           ELSE m.role # "tool_result"
    PROVE  Half(Append(out, m))
<1> DEFINE new == Append(out, m)
           n == Len(out)
<1>1. n \in Nat /\ Messages(out)
  BY Lengths DEF Half
<1>2. /\ Messages(new) /\ Len(new) = n + 1 /\ new[n + 1] = m
      /\ \A i \in 1 .. n : new[i] = out[i]
  BY <1>1, Appended
<1>3. n > 0 /\ out[n].role = "tool_call" <=> Pending(out)
  <2>1. n = 0 <=> out = <<>>
    BY EmptySeq DEF Half, Messages
  <2> QED
    BY <1>1, <2>1 DEF Pending, Last
<1>4. Pending(out) => m.role \in {"tool_result", "synthetic"} /\ m.of = out[n].id
  BY DEF Last
<1>5. m.role = "tool_result" => Pending(out)
  OBVIOUS
<1>6. /\ \A i \in 1 .. n - 1 : out[i].role = "tool_call" => Answered(out, i)
      /\ \A i \in 1 .. n : out[i].role = "tool_result" => i > 1 /\ out[i - 1].role = "tool_call"
  BY DEF Half
<1> HIDE DEF new, n
<1>7. ASSUME NEW i \in 1 .. n, new[i].role = "tool_call"
      PROVE  Answered(new, i)
  <2>1. CASE i < n
    <3>1. i \in 1 .. n - 1 /\ i + 1 \in 1 .. n
      BY <1>1, <2>1
    <3> QED
      BY <1>2, <1>6, <1>7, <3>1 DEF Answered
  <2>2. CASE i = n
    BY <1>1, <1>2, <1>3, <1>4, <1>7, <2>2 DEF Answered
  <2> QED
    BY <1>1, <2>1, <2>2
<1>8. ASSUME NEW i \in 1 .. n + 1, new[i].role = "tool_result"
      PROVE  i > 1 /\ new[i - 1].role = "tool_call"
  <2>1. CASE i \in 1 .. n
    <3>1. i > 1 /\ out[i - 1].role = "tool_call" /\ i - 1 \in 1 .. n
      BY <1>1, <1>2, <1>6, <1>8, <2>1
    <3> QED
      BY <1>2, <3>1
  <2>2. CASE i = n + 1
    BY <1>1, <1>2, <1>3, <1>5, <1>8, <2>2
  <2> QED
    BY <1>1, <2>1, <2>2
<1> QED
  BY <1>1, <1>2, <1>7, <1>8 DEF Half, new

LEMMA ErrorFor ==
    ASSUME NEW a, NEW r, NEW o, NEW n, NEW t, NEW k, NEW b, NEW call,
           call = [id |-> a, role |-> r, of |-> o, run |-> n, tool |-> t, ok |-> k, by |-> b]
    PROVE  build_synthetic_tool_error(call) =
             [id |-> a, role |-> "synthetic", of |-> a, run |-> n, tool |-> t, ok |-> k, by |-> b]
<1> DEFINE e1 == [call EXCEPT !.role = "synthetic"]
           e2 == [id |-> a, role |-> "synthetic", of |-> o, run |-> n, tool |-> t, ok |-> k, by |-> b]
<1>1. e1 = e2
  OBVIOUS
<1>2. call.id = a
  OBVIOUS
<1>3. [e2 EXCEPT !.of = a] =
             [id |-> a, role |-> "synthetic", of |-> a, run |-> n, tool |-> t, ok |-> k, by |-> b]
  OBVIOUS
<1>4. build_synthetic_tool_error(call) = [call EXCEPT !.role = "synthetic", !.of = call.id]
  BY DEF build_synthetic_tool_error
<1> QED
  BY <1>1, <1>2, <1>3, <1>4

\* A pending call is given the error that stands for its result.
LEMMA HalfSettled ==
    ASSUME NEW out, Half(out)
    PROVE  Half(Settle(out)) /\ ~ Pending(Settle(out))
<1> DEFINE call == Last(out)
           error == build_synthetic_tool_error(call)
<1>1. Messages(out) /\ Len(out) \in Nat
  BY Lengths DEF Half
<1>2. CASE Pending(out)
  <2>1. out # <<>> /\ Len(out) \in 1 .. Len(out) /\ call = out[Len(out)]
    <3>1. out # <<>> => Len(out) # 0
      BY EmptySeq DEF Half, Messages
    <3> QED
      BY <1>1, <1>2, <3>1 DEF Pending, Last
  <2>2. Fine(call)
    BY <1>1, <2>1, Lengths
  <2> HIDE DEF call
  <2>3. Fine(error) /\ error.role = "synthetic" /\ error.of = call.id
    <3>1. call = [id |-> call.id, role |-> call.role, of |-> call.of, run |-> call.run,
                  tool |-> call.tool, ok |-> call.ok, by |-> call.by]
      BY <2>2 DEF Fine
    <3>2. error = [id |-> call.id, role |-> "synthetic", of |-> call.id, run |-> call.run,
                   tool |-> call.tool, ok |-> call.ok, by |-> call.by]
      BY ONLY <3>1, ErrorFor DEF error
    <3> QED
      BY <3>2 DEF Fine
  <2> HIDE DEF error
  <2>4. Half(Append(out, error))
    BY <1>2, <2>3, HalfAppended DEF call
  <2>5. Append(out, error)[Len(out) + 1] = error /\ Len(Append(out, error)) = Len(out) + 1
    BY <1>1, <2>3, Appended
  <2>6. Settle(out) = Append(out, error)
    BY <1>2 DEF Settle, error, call
  <2> QED
    BY <2>3, <2>4, <2>5, <2>6 DEF Pending, Last
<1>3. CASE ~ Pending(out)
  BY <1>3 DEF Settle
<1> QED
  BY <1>2, <1>3

LEMMA HalfStep ==
    ASSUME NEW out, Half(out), NEW m, Fine(m)
    PROVE  Half(RepairStep(out, m))
<1>1. CASE Pending(out) /\ m.role = "tool_result" /\ _is_result_for_call(Last(out), m)
  <2>1. m.of = Last(out).id
    BY <1>1 DEF _is_result_for_call, Fine
  <2>2. Half(Append(out, m))
    BY <1>1, <2>1, HalfAppended
  <2> QED
    BY <1>1, <2>2 DEF RepairStep
<1>2. CASE ~ (Pending(out) /\ m.role = "tool_result" /\ _is_result_for_call(Last(out), m))
  <2>1. Half(Settle(out)) /\ ~ Pending(Settle(out))
    BY HalfSettled
  <2>2. m.role # "tool_result" => Half(Append(Settle(out), m))
    BY <2>1, HalfAppended
  <2> QED
    BY <1>2, <2>1, <2>2 DEF RepairStep
<1> QED
  BY <1>1, <1>2

\* The output after each message.
AfterRepair(g, ms) ==
    /\ g[0] = <<>>
    /\ \A k \in 1 .. Len(ms) : g[k] = RepairStep(g[k - 1], ms[k])
    /\ RepairPass(ms) = g[Len(ms)]

LEMMA RepairSteps ==
    ASSUME NEW ms, Len(ms) \in Nat
    PROVE  \E g : AfterRepair(g, ms)
<1> DEFINE e == <<>>
           After(m, g) == g = [k \in 0 .. m |-> IF k = 0 THEN e ELSE RepairStep(g[k - 1], ms[k])]
           I == {m \in Nat : \E g : After(m, g)}
<1>1. RepairPass(ms) = (CHOOSE g : After(Len(ms), g))[Len(ms)]
  BY DEF RepairPass
<1>2. e = <<>>
  OBVIOUS
<1> HIDE DEF e
<1>3. 0 \in I
  <2> DEFINE g == [k \in 0 .. 0 |-> e]
  <2>1. After(0, g)
    OBVIOUS
  <2> HIDE DEF g
  <2> QED
    BY <2>1
<1>4. \A m \in Nat : m \in I => m + 1 \in I
  <2> SUFFICES ASSUME NEW m \in Nat, NEW g, After(m, g)
               PROVE  \E h : After(m + 1, h)
    OBVIOUS
  <2> DEFINE last == RepairStep(g[m], ms[m + 1])
             h == [k \in 0 .. m + 1 |-> IF k = m + 1 THEN last ELSE g[k]]
  <2>1. \A k \in 0 .. m + 1 : h[k] = IF k = 0 THEN e ELSE RepairStep(h[k - 1], ms[k])
    <3> SUFFICES ASSUME NEW k \in 0 .. m + 1
                 PROVE  h[k] = IF k = 0 THEN e ELSE RepairStep(h[k - 1], ms[k])
      OBVIOUS
    <3>1. CASE k = m + 1
      <4>1. h[k - 1] = g[m] /\ k # 0
        BY <3>1
      <4> QED
        BY <3>1, <4>1
    <3>2. CASE k \in 0 .. m
      <4>1. h[k] = g[k] /\ (k # 0 => h[k - 1] = g[k - 1])
        BY <3>2
      <4> QED
        BY <3>2, <4>1
    <3> QED
      BY <3>1, <3>2
  <2>2. h = [k \in 0 .. m + 1 |-> h[k]]
    OBVIOUS
  <2> HIDE DEF h
  <2>3. After(m + 1, h)
    BY <2>1, <2>2
  <2> QED
    BY <2>3
<1>5. Len(ms) \in I
  <2> HIDE DEF I
  <2> QED
    BY <1>3, <1>4, NatInduct
<1>6. \E g : After(Len(ms), g)
  BY <1>5
<1> DEFINE f == CHOOSE g : After(Len(ms), g)
<1>7. After(Len(ms), f)
  BY <1>6
<1>8. RepairPass(ms) = f[Len(ms)]
  BY <1>1
<1> HIDE DEF f
<1>9. f[0] = e /\ \A k \in 1 .. Len(ms) : f[k] = RepairStep(f[k - 1], ms[k])
  BY <1>7
<1>10. AfterRepair(f, ms)
  BY <1>2, <1>8, <1>9 DEF AfterRepair
<1> QED
  BY <1>10

\* Whatever messages the window holds, in whatever order, the model reads every
\* call with its own result or the error in its place, and no result without
\* its call (repair_tool_result_pairing).
THEOREM RepairPairs ==
    ASSUME NEW ms, Messages(ms)
    PROVE  Paired(repair_tool_result_pairing(ms))
<1>1. Len(ms) \in Nat /\ \A k \in 1 .. Len(ms) : Fine(ms[k])
  BY Lengths
<1>2. PICK g : AfterRepair(g, ms)
  BY <1>1, RepairSteps
<1> DEFINE I == {k \in Nat : k <= Len(ms) => Half(g[k])}
<1>3. 0 \in I
  <2>1. <<>> \in Seq({}) /\ Len(<<>>) = 0
    BY EmptySeq
  <2>2. Messages(<<>>)
    BY <2>1 DEF Messages
  <2>3. Half(<<>>)
    BY <2>1, <2>2 DEF Half
  <2> QED
    BY <1>2, <2>3 DEF AfterRepair
<1>4. \A k \in Nat : k \in I => k + 1 \in I
  <2> SUFFICES ASSUME NEW k \in Nat, k + 1 <= Len(ms), Half(g[k])
               PROVE  Half(g[k + 1])
    BY <1>1
  <2>1. k + 1 \in 1 .. Len(ms) /\ (k + 1) - 1 = k
    BY <1>1
  <2>2. g[k + 1] = RepairStep(g[k], ms[k + 1])
    BY <1>2, <2>1 DEF AfterRepair
  <2> QED
    BY <1>1, <2>1, <2>2, HalfStep
<1>5. Len(ms) \in I
  <2> HIDE DEF I
  <2> QED
    BY <1>1, <1>3, <1>4, NatInduct
<1>6. Half(RepairPass(ms))
  BY <1>1, <1>2, <1>5 DEF AfterRepair
<1> DEFINE out == repair_tool_result_pairing(ms)
<1>7. Half(out) /\ ~ Pending(out)
  BY <1>6, HalfSettled DEF repair_tool_result_pairing
<1> HIDE DEF out
<1>8. Len(out) \in Nat /\ DOMAIN out = 1 .. Len(out)
  BY <1>7, Lengths DEF Half
<1>9. Len(out) > 0 => out[Len(out)].role # "tool_call"
  <2>1. out = <<>> => Len(out) = 0
    BY EmptySeq
  <2> QED
    BY <1>7, <1>8, <2>1 DEF Pending, Last
<1> DEFINE n == Len(out)
<1>a. n \in Nat /\ (n > 0 => out[n].role # "tool_call")
  BY <1>8, <1>9
<1>b. \A i \in 1 .. n - 1 : out[i].role = "tool_call" => Answered(out, i)
  BY <1>7 DEF Half
<1> HIDE DEF n
<1>c. ASSUME NEW i \in 1 .. n, out[i].role = "tool_call"
      PROVE  i < n /\ Answered(out, i)
  <2>1. n > 0
    BY <1>a
  <2>2. i # n
    BY <1>a, <1>c, <2>1
  <2>3. i < n /\ i \in 1 .. n - 1
    BY <1>a, <2>2
  <2> QED
    BY <1>b, <1>c, <2>3
<1>10. \A i \in 1 .. Len(out) : out[i].role = "tool_call" => i < Len(out) /\ Answered(out, i)
  BY <1>c DEF n
<1> QED
  BY <1>7, <1>8, <1>10 DEF Paired, Half, Answered, out

----------------------------------------------------------------------------
(* Where a compaction cuts.                                                *)

\* The messages after c fit, and so do those after every later place but the
\* last; a cut is whole when it does not part a call from its result.
Fits(ms, keep, c) == \A d \in c .. Len(ms) - 2 : estimate_message_tokens(SubSeq(ms, d + 1, Len(ms))) <= keep
First(ms, keep) ==
    CHOOSE c \in 0 .. Len(ms) - 1 : Fits(ms, keep, c) /\ \A d \in 0 .. c - 1 : ~ Fits(ms, keep, d)
Whole(ms, c) == c = 0 \/ ~ _would_split_tool_pair(ms, c)

LEMMA LeastOf ==
    ASSUME NEW S, S \subseteq Nat, S # {}
    PROVE  \E x \in S : \A y \in S : x <= y
<1> DEFINE Less == OpToRel(<, Nat)
<1>1. IsWellFoundedOn(Less, Nat)
  BY NatLessThanWellFounded
<1>2. \A x, y \in Nat : x < y => <<x, y>> \in Less
  BY DEF OpToRel
<1> HIDE DEF Less
<1>3. PICK x \in S : \A y \in S : ~ (<<y, x>> \in Less)
  BY <1>1, WFMin
<1>4. ASSUME NEW y \in S
      PROVE  x <= y
  <2>1. x \in Nat /\ y \in Nat
    OBVIOUS
  <2>2. ~ (y < x)
    BY <1>2, <1>3, <2>1
  <2> QED
    BY <2>1, <2>2
<1> QED
  BY <1>4

\* A compaction keeps the newest message, parts no call from the result that
\* follows it, and summarises no message that could be kept (find_cut_point).
THEOREM CutsKeepPairs ==
    ASSUME NEW U, NEW ms \in Seq(U), ms # <<>>, NEW keep
    PROVE  LET c == find_cut_point(ms, keep)
           IN  /\ c \in 0 .. Len(ms) - 1
               /\ c > 0 => ~ _would_split_tool_pair(ms, c)
               /\ \A d \in 0 .. c - 1 : ~ Fits(ms, keep, d)
<1> DEFINE n == Len(ms)
           f == First(ms, keep)
           c == find_cut_point(ms, keep)
<1>1. n \in Nat \ {0}
  BY LenProperties, EmptySeq
<1>2. f \in 0 .. n - 1 /\ \A d \in 0 .. f - 1 : ~ Fits(ms, keep, d)
  <2> DEFINE S == {x \in 0 .. n - 1 : Fits(ms, keep, x)}
  <2>1. n - 1 \in S
    BY <1>1 DEF Fits
  <2>2. S \subseteq Nat
    BY <1>1
  <2>3. PICK x \in S : \A y \in S : x <= y
    BY <2>1, <2>2, LeastOf
  <2>4. x \in 0 .. n - 1 /\ Fits(ms, keep, x)
    BY <2>3
  <2>5. \A d \in 0 .. x - 1 : ~ Fits(ms, keep, d)
    <3> SUFFICES ASSUME NEW d \in 0 .. x - 1, Fits(ms, keep, d)
                 PROVE  FALSE
      OBVIOUS
    <3>1. d \in S /\ d < x /\ x \in Nat
      BY <1>1, <2>4
    <3> QED
      BY <2>3, <3>1
  <2> HIDE DEF S, n
  <2> QED
    BY <2>4, <2>5 DEF First, n
<1>3. c = CHOOSE x \in 0 .. f : Whole(ms, x) /\ \A d \in x + 1 .. f : ~ Whole(ms, d)
  BY <1>1 DEF find_cut_point, First, Fits, Whole
<1> HIDE DEF f, c
<1>4. \E x \in 0 .. f : Whole(ms, x) /\ \A d \in x + 1 .. f : ~ Whole(ms, d)
  <2> DEFINE S == {x \in 0 .. f : Whole(ms, f - x)}
  <2>1. f \in S
    BY <1>1, <1>2 DEF Whole
  <2>2. S \subseteq Nat
    BY <1>1, <1>2
  <2>3. PICK x \in S : \A y \in S : x <= y
    BY <2>1, <2>2, LeastOf
  <2>4. f - x \in 0 .. f /\ Whole(ms, f - x)
    BY <1>1, <1>2, <2>3
  <2>5. \A d \in f - x + 1 .. f : ~ Whole(ms, d)
    <3> SUFFICES ASSUME NEW d \in f - x + 1 .. f, Whole(ms, d)
                 PROVE  FALSE
      OBVIOUS
    <3>1. f - d \in 0 .. f /\ f - (f - d) = d /\ f - d < x /\ x \in Nat
      BY <1>1, <1>2, <2>3
    <3>2. f - d \in S
      BY <3>1
    <3> QED
      BY <2>3, <3>1, <3>2
  <2> QED
    BY <2>4, <2>5
<1>5. c \in 0 .. f /\ Whole(ms, c)
  BY <1>3, <1>4
<1>6. /\ c \in 0 .. n - 1
      /\ c > 0 => ~ _would_split_tool_pair(ms, c)
      /\ \A d \in 0 .. c - 1 : ~ Fits(ms, keep, d)
  BY <1>1, <1>2, <1>5 DEF Whole
<1> QED
  BY <1>6 DEF c

----------------------------------------------------------------------------
(* The tables of the session.                                              *)

IsTables(v) == v = [msgs |-> v.msgs, sums |-> v.sums, cands |-> v.cands, mems |-> v.mems]

LEMMA OneTable ==
    ASSUME NEW v, IsTables(v), NEW x
    PROVE  /\ [v EXCEPT !.msgs = x] = [msgs |-> x, sums |-> v.sums, cands |-> v.cands, mems |-> v.mems]
           /\ [v EXCEPT !.cands = x] = [msgs |-> v.msgs, sums |-> v.sums, cands |-> x, mems |-> v.mems]
  BY DEF IsTables

LEMMA TwoTables ==
    ASSUME NEW v, IsTables(v), NEW x, NEW y
    PROVE  /\ [v EXCEPT !.cands = x, !.mems = y] = [msgs |-> v.msgs, sums |-> v.sums, cands |-> x, mems |-> y]
           /\ [v EXCEPT !.sums = x, !.msgs = y] = [msgs |-> y, sums |-> x, cands |-> v.cands, mems |-> v.mems]
<1> DEFINE m == v.msgs   s == v.sums   c == v.cands   k == v.mems
<1>1. v = [msgs |-> m, sums |-> s, cands |-> c, mems |-> k]
  BY DEF IsTables
<1> HIDE DEF m, s, c, k
<1>2. /\ [v EXCEPT !.cands = x] = [msgs |-> m, sums |-> s, cands |-> x, mems |-> k]
      /\ [v EXCEPT !.sums = x] = [msgs |-> m, sums |-> x, cands |-> c, mems |-> k]
  BY <1>1
<1>3. [[msgs |-> m, sums |-> s, cands |-> x, mems |-> k] EXCEPT !.mems = y]
        = [msgs |-> m, sums |-> s, cands |-> x, mems |-> y]
  OBVIOUS
<1>4. [[msgs |-> m, sums |-> x, cands |-> c, mems |-> k] EXCEPT !.msgs = y]
        = [msgs |-> y, sums |-> x, cands |-> c, mems |-> k]
  OBVIOUS
<1> QED
  BY <1>2, <1>3, <1>4 DEF m, s, c, k

\* The rows of a table carry their key; numbers are the keys of what is learnt.
MsgsFine(v) == IsFiniteSet(DOMAIN v.msgs) /\ \A i \in DOMAIN v.msgs : Fine(v.msgs[i]) /\ v.msgs[i].id = i
IsSum(s, i) == s = [id |-> i, prev |-> s.prev, told |-> s.told, flushed |-> s.flushed]
IsCand(c, i) == c = [id |-> i, key |-> c.key, evidence |-> c.evidence, memory |-> c.memory]
IsMem(m, i) == m = [id |-> i, key |-> m.key, evidence |-> m.evidence]
SumsFine(v) == \A i \in DOMAIN v.sums : IsSum(v.sums[i], i)
CandsFine(v) == DOMAIN v.cands \subseteq Nat /\ \A i \in DOMAIN v.cands : IsCand(v.cands[i], i)
MemsFine(v) == DOMAIN v.mems \subseteq Nat \ {NoMemory} /\ \A i \in DOMAIN v.mems : IsMem(v.mems[i], i)
Good(v) == IsTables(v) /\ MsgsFine(v) /\ SumsFine(v) /\ CandsFine(v) /\ MemsFine(v)

\* The tables w come after the tables v: rows of messages keep what pairs them,
\* summaries and candidates are never changed, memories never vanish.
Same(m, n) == m.role = n.role /\ m.of = n.of /\ m.id = n.id
MsgsExt(v, w) == DOMAIN v.msgs \subseteq DOMAIN w.msgs /\ \A i \in DOMAIN v.msgs : Same(v.msgs[i], w.msgs[i])
Extends(s, t) == DOMAIN s \subseteq DOMAIN t /\ \A i \in DOMAIN s : t[i] = s[i]
Ext(v, w) ==
    /\ MsgsExt(v, w) /\ Extends(v.sums, w.sums) /\ Extends(v.cands, w.cands)
    /\ DOMAIN v.mems \subseteq DOMAIN w.mems

LEMMA ExtOrder ==
    ASSUME NEW u, NEW v, NEW w
    PROVE  Ext(u, u) /\ (Ext(u, v) /\ Ext(v, w) => Ext(u, w))
<1>1. Ext(u, u)
  BY DEF Ext, MsgsExt, Extends, Same
<1>2. ASSUME Ext(u, v), Ext(v, w)
      PROVE  Ext(u, w)
  <2>1. MsgsExt(u, w)
    BY <1>2 DEF Ext, MsgsExt, Same
  <2>2. Extends(u.sums, w.sums) /\ Extends(u.cands, w.cands)
    BY <1>2 DEF Ext, Extends
  <2> QED
    BY <1>2, <2>1, <2>2 DEF Ext
<1> QED
  BY <1>1, <1>2

LEMMA EmptyGood == Good(Empty)
<1>1. DOMAIN <<>> = {}
  OBVIOUS
<1>2. IsTables(Empty) /\ DOMAIN Empty.msgs = {} /\ DOMAIN Empty.sums = {} /\ DOMAIN Empty.cands = {}
      /\ DOMAIN Empty.mems = {}
  BY <1>1 DEF IsTables, Empty
<1>3. IsFiniteSet(DOMAIN Empty.msgs)
  BY <1>2, FS_EmptySet
<1> QED
  BY <1>2, <1>3 DEF Good, MsgsFine, SumsFine, CandsFine, MemsFine

\* Rows that nobody changes are merged as a union of two tables.
Unchanging(cur, old, new) == \A k \in DOMAIN cur \cap DOMAIN old : k \in DOMAIN new /\ new[k] = old[k]
Functional(t) == \A k \in DOMAIN t : t[k] = [f \in DOMAIN t[k] |-> t[k][f]]
Union(t, cur, new) ==
    /\ DOMAIN t = DOMAIN cur \cup DOMAIN new
    /\ \A k \in DOMAIN cur : t[k] = cur[k]
    /\ \A k \in DOMAIN new \ DOMAIN cur : t[k] = new[k]

LEMMA RowsUnchanging ==
    ASSUME NEW cur, NEW old, NEW new, Unchanging(cur, old, new), Functional(cur)
    PROVE  Union(Rows(cur, old, new), cur, new)
<1>1. DOMAIN Rows(cur, old, new) = DOMAIN cur \cup DOMAIN new
  BY DEF Rows
<1>2. \A k \in DOMAIN new \ DOMAIN cur : Rows(cur, old, new)[k] = new[k]
  BY DEF Rows
<1>3. ASSUME NEW k \in DOMAIN cur
      PROVE  Rows(cur, old, new)[k] = cur[k]
  <2>1. CASE k \in DOMAIN old
    <3>1. Rows(cur, old, new)[k] = Columns(cur[k], old[k], new[k]) /\ new[k] = old[k]
      BY <2>1 DEF Rows, Unchanging
    <3>2. Columns(cur[k], old[k], new[k]) = [f \in DOMAIN cur[k] |-> cur[k][f]]
      BY <3>1 DEF Columns
    <3> QED
      BY <3>1, <3>2 DEF Functional
  <2>2. CASE k \notin DOMAIN old
    BY <2>2 DEF Rows
  <2> QED
    BY <2>1, <2>2
<1> QED
  BY <1>1, <1>2, <1>3 DEF Union

\* Two views of a message differ in the summary only.
MsgsUnion(t, cur, old, new) ==
    /\ DOMAIN t = DOMAIN cur \cup DOMAIN new
    /\ \A k \in DOMAIN cur : Fine(t[k]) /\ Same(t[k], cur[k])
    /\ \A k \in DOMAIN cur \ DOMAIN old : t[k].by = cur[k].by
    /\ \A k \in DOMAIN cur \cap DOMAIN old : t[k].by = IF new[k].by # old[k].by THEN new[k].by ELSE cur[k].by
    /\ \A k \in DOMAIN new \ DOMAIN cur : t[k] = new[k]

LEMMA FineColumns ==
    ASSUME NEW c, NEW o, NEW n, Fine(c), Same(o, n)
    PROVE  LET t == Columns(c, o, n)
           IN  Fine(t) /\ Same(t, c) /\ t.by = IF n.by # o.by THEN n.by ELSE c.by
<1> DEFINE t == Columns(c, o, n)
           F == {"id", "role", "of", "run", "tool", "ok", "by"}
<1>1. DOMAIN c = F
  BY DEF Fine
<1>2. t = [f \in F |-> IF n[f] # o[f] THEN n[f] ELSE c[f]]
  BY <1>1 DEF Columns
<1> HIDE DEF t
<1>3. t = [id |-> t.id, role |-> t.role, of |-> t.of, run |-> t.run, tool |-> t.tool, ok |-> t.ok, by |-> t.by]
  BY <1>2
<1>4. t.id = c.id /\ t.role = c.role /\ t.of = c.of /\ t.by = IF n.by # o.by THEN n.by ELSE c.by
  BY <1>2 DEF Same
<1>5. Fine(t) /\ Same(t, c)
  BY <1>3, <1>4 DEF Fine, Same
<1> QED
  BY <1>4, <1>5 DEF t

LEMMA RowsOfMessages ==
    ASSUME NEW cur, NEW old, NEW new, \A k \in DOMAIN cur : Fine(cur[k]),
           \A k \in DOMAIN old : k \in DOMAIN new /\ Same(old[k], new[k])
    PROVE  MsgsUnion(Rows(cur, old, new), cur, old, new)
<1> DEFINE t == Rows(cur, old, new)
<1>1. /\ DOMAIN t = DOMAIN cur \cup DOMAIN new
      /\ \A k \in DOMAIN new \ DOMAIN cur : t[k] = new[k]
      /\ \A k \in DOMAIN cur \ DOMAIN old : t[k] = cur[k]
      /\ \A k \in DOMAIN cur \cap DOMAIN old : t[k] = Columns(cur[k], old[k], new[k])
  BY DEF Rows
<1> HIDE DEF t
<1>2. ASSUME NEW k \in DOMAIN cur \ DOMAIN old
      PROVE  Fine(t[k]) /\ Same(t[k], cur[k]) /\ t[k].by = cur[k].by
  BY <1>1 DEF Same
<1>3. ASSUME NEW k \in DOMAIN cur \cap DOMAIN old
      PROVE  Fine(t[k]) /\ Same(t[k], cur[k]) /\ t[k].by = IF new[k].by # old[k].by THEN new[k].by ELSE cur[k].by
  <2> DEFINE c == cur[k]   o == old[k]   n == new[k]
  <2>1. Fine(c) /\ Same(o, n) /\ t[k] = Columns(c, o, n)
    BY <1>1
  <2> HIDE DEF c, o, n
  <2>2. Fine(t[k]) /\ Same(t[k], c) /\ t[k].by = IF n.by # o.by THEN n.by ELSE c.by
    BY <2>1, FineColumns
  <2> QED
    BY <2>2 DEF c, o, n
<1>4. MsgsUnion(t, cur, old, new)
  BY <1>1, <1>2, <1>3 DEF MsgsUnion
<1> QED
  BY <1>4 DEF t

\* Memories keep their columns.
MemsUnion(t, cur, new) == DOMAIN t = DOMAIN cur \cup DOMAIN new /\ \A k \in DOMAIN t : IsMem(t[k], k)

LEMMA RowsOfMemories ==
    ASSUME NEW cur, NEW old, NEW new,
           \A k \in DOMAIN cur : IsMem(cur[k], k), \A k \in DOMAIN new : IsMem(new[k], k),
           \A k \in DOMAIN old : IsMem(old[k], k) /\ k \in DOMAIN new
    PROVE  MemsUnion(Rows(cur, old, new), cur, new)
<1> DEFINE t == Rows(cur, old, new)
<1>1. /\ DOMAIN t = DOMAIN cur \cup DOMAIN new
      /\ \A k \in DOMAIN new \ DOMAIN cur : t[k] = new[k]
      /\ \A k \in DOMAIN cur \ DOMAIN old : t[k] = cur[k]
      /\ \A k \in DOMAIN cur \cap DOMAIN old : t[k] = Columns(cur[k], old[k], new[k])
  BY DEF Rows
<1> HIDE DEF t
<1>2. ASSUME NEW k \in DOMAIN cur \cap DOMAIN old
      PROVE  IsMem(t[k], k)
  <2> DEFINE c == cur[k]   o == old[k]   n == new[k]   x == t[k]
  <2>1. IsMem(c, k) /\ IsMem(o, k) /\ IsMem(n, k) /\ x = Columns(c, o, n)
    BY <1>1
  <2> HIDE DEF c, o, n, x
  <2>2. c.id = k /\ o.id = k /\ n.id = k /\ DOMAIN c = {"id", "key", "evidence"}
    BY <2>1 DEF IsMem
  <2>3. x = [f \in {"id", "key", "evidence"} |-> IF n[f] # o[f] THEN n[f] ELSE c[f]]
    BY <2>1, <2>2 DEF Columns
  <2>4. x.id = k
    BY <2>2, <2>3
  <2>5. IsMem(x, k)
    BY <2>3, <2>4 DEF IsMem
  <2> QED
    BY <2>5 DEF x
<1> QED
  BY <1>1, <1>2 DEF t, MemsUnion

\* What a transaction commits.
AfterMerge(t, base, view) ==
    /\ Good(t) /\ Ext(db, t)
    /\ MsgsUnion(t.msgs, db.msgs, base.msgs, view.msgs)
    /\ Union(t.sums, db.sums, view.sums) /\ Union(t.cands, db.cands, view.cands)
    /\ t.mems = Rows(db.mems, base.mems, view.mems)

LEMMA MergedGood ==
    ASSUME Good(db), NEW base, NEW view, Good(base), Good(view), Ext(base, view), Ext(base, db)
    PROVE  AfterMerge(Merged(base, view), base, view)
<1> DEFINE t == Merged(base, view)
<1>1. /\ IsTables(t)
      /\ t.msgs = Rows(db.msgs, base.msgs, view.msgs) /\ t.sums = Rows(db.sums, base.sums, view.sums)
      /\ t.cands = Rows(db.cands, base.cands, view.cands) /\ t.mems = Rows(db.mems, base.mems, view.mems)
  <2>1. DOMAIN db = {"msgs", "sums", "cands", "mems"}
    BY DEF Good, IsTables
  <2>2. t = [f \in {"msgs", "sums", "cands", "mems"} |-> Rows(db[f], base[f], view[f])]
    BY <2>1 DEF Merged
  <2> HIDE DEF t
  <2> QED
    BY <2>2 DEF IsTables
<1> HIDE DEF t
<1>2. MsgsUnion(t.msgs, db.msgs, base.msgs, view.msgs)
  <2>1. \A k \in DOMAIN db.msgs : Fine(db.msgs[k])
    BY DEF Good, MsgsFine
  <2>2. \A k \in DOMAIN base.msgs : k \in DOMAIN view.msgs /\ Same(base.msgs[k], view.msgs[k])
    BY DEF Ext, MsgsExt
  <2> QED
    BY <1>1, <2>1, <2>2, RowsOfMessages
<1>3. Union(t.sums, db.sums, view.sums)
  <2>1. Functional(db.sums)
    <3> SUFFICES ASSUME NEW k \in DOMAIN db.sums
                 PROVE  db.sums[k] = [f \in DOMAIN db.sums[k] |-> db.sums[k][f]]
      BY DEF Functional
    <3> DEFINE x == db.sums[k]
    <3>1. x = [id |-> k, prev |-> x.prev, told |-> x.told, flushed |-> x.flushed]
      BY DEF Good, SumsFine, IsSum
    <3> HIDE DEF x
    <3>2. x = [f \in DOMAIN x |-> x[f]]
      BY <3>1
    <3> QED
      BY <3>2 DEF x
  <2>2. Unchanging(db.sums, base.sums, view.sums)
    BY DEF Unchanging, Ext, Extends
  <2> QED
    BY <1>1, <2>1, <2>2, RowsUnchanging
<1>4. Union(t.cands, db.cands, view.cands)
  <2>1. Functional(db.cands)
    <3> SUFFICES ASSUME NEW k \in DOMAIN db.cands
                 PROVE  db.cands[k] = [f \in DOMAIN db.cands[k] |-> db.cands[k][f]]
      BY DEF Functional
    <3> DEFINE x == db.cands[k]
    <3>1. x = [id |-> k, key |-> x.key, evidence |-> x.evidence, memory |-> x.memory]
      BY DEF Good, CandsFine, IsCand
    <3> HIDE DEF x
    <3>2. x = [f \in DOMAIN x |-> x[f]]
      BY <3>1
    <3> QED
      BY <3>2 DEF x
  <2>2. Unchanging(db.cands, base.cands, view.cands)
    BY DEF Unchanging, Ext, Extends
  <2> QED
    BY <1>1, <2>1, <2>2, RowsUnchanging
<1>5. DOMAIN t.mems = DOMAIN db.mems \cup DOMAIN view.mems /\ \A k \in DOMAIN t.mems : IsMem(t.mems[k], k)
  <2> DEFINE c == db.mems   o == base.mems   n == view.mems
  <2>1. \A k \in DOMAIN c : IsMem(c[k], k)
    BY DEF Good, MemsFine
  <2>2. \A k \in DOMAIN n : IsMem(n[k], k)
    BY DEF Good, MemsFine
  <2>3. \A k \in DOMAIN o : IsMem(o[k], k) /\ k \in DOMAIN n
    BY DEF Good, MemsFine, Ext
  <2> HIDE DEF c, o, n
  <2>4. MemsUnion(Rows(c, o, n), c, n)
    BY <2>1, <2>2, <2>3, RowsOfMemories
  <2> QED
    BY <1>1, <2>4 DEF MemsUnion, c, o, n
<1>6. MsgsFine(t)
  <2>1. IsFiniteSet(DOMAIN t.msgs)
    <3>1. IsFiniteSet(DOMAIN db.msgs) /\ IsFiniteSet(DOMAIN view.msgs)
      BY DEF Good, MsgsFine
    <3>2. IsFiniteSet(DOMAIN db.msgs \cup DOMAIN view.msgs)
      BY <3>1, FS_Union
    <3> QED
      BY <1>2, <3>2 DEF MsgsUnion
  <2>2. \A k \in DOMAIN db.msgs : Fine(t.msgs[k]) /\ t.msgs[k].id = k
    BY <1>2 DEF MsgsUnion, Same, Good, MsgsFine
  <2>3. \A k \in DOMAIN view.msgs \ DOMAIN db.msgs : Fine(t.msgs[k]) /\ t.msgs[k].id = k
    BY <1>2 DEF MsgsUnion, Good, MsgsFine
  <2> QED
    BY <1>2, <2>1, <2>2, <2>3 DEF MsgsUnion, MsgsFine
<1>7. SumsFine(t)
  BY <1>3 DEF Union, Good, SumsFine
<1>8. CandsFine(t)
  BY <1>4 DEF Union, Good, CandsFine
<1>9. MemsFine(t)
  BY <1>5 DEF Good, MemsFine
<1>10. Ext(db, t)
  <2>1. MsgsExt(db, t)
    BY <1>2 DEF MsgsUnion, MsgsExt, Same
  <2>2. Extends(db.sums, t.sums) /\ Extends(db.cands, t.cands)
    BY <1>3, <1>4 DEF Union, Extends
  <2> QED
    BY <1>5, <2>1, <2>2 DEF Ext
<1>11. Good(t)
  BY <1>1, <1>6, <1>7, <1>8, <1>9 DEF Good
<1>12. AfterMerge(t, base, view)
  BY <1>1, <1>2, <1>3, <1>4, <1>10, <1>11 DEF AfterMerge
<1> QED
  BY <1>12 DEF t

----------------------------------------------------------------------------
(* Lessons.                                                                *)

\* No request has seen an id above n.
BelowV(v, n) == DOMAIN v.cands \subseteq 0 .. n /\ DOMAIN v.mems \subseteq 0 .. n
Below(n) == BelowV(db, n) /\ \A r \in Requests : BelowV(req[r].view, n)

Unseen(i, f) == i \notin DOMAIN db[f] /\ \A r \in Requests : i \notin DOMAIN req[r].view[f]

LEMMA NewIdFresh ==
    ASSUME NEW v, NEW f, NEW n \in Nat, DOMAIN v[f] \subseteq 0 .. n, DOMAIN db[f] \subseteq 0 .. n,
           \A r \in Requests : DOMAIN req[r].view[f] \subseteq 0 .. n
    PROVE  NewId(v, f) \in 1 .. n + 1 /\ NewId(v, f) \notin DOMAIN v[f] /\ Unseen(NewId(v, f), f)
<1> DEFINE S == {0} \cup DOMAIN v[f] \cup DOMAIN db[f] \cup UNION {DOMAIN req[r].view[f] : r \in Requests}
<1>1. S \subseteq 0 .. n /\ S # {}
  OBVIOUS
<1>2. NewId(v, f) = 1 + Max(S)
  BY DEF NewId
<1>3. /\ \A i \in DOMAIN v[f] : i \in S
      /\ \A i \in DOMAIN db[f] : i \in S
      /\ \A r \in Requests : \A i \in DOMAIN req[r].view[f] : i \in S
  OBVIOUS
<1> HIDE DEF S
<1>4. S \subseteq Nat /\ \A x \in S : x <= n
  <2>1. 0 .. n \subseteq Nat /\ \A x \in 0 .. n : x <= n
    OBVIOUS
  <2> QED
    BY <1>1, <2>1
<1>5. Max(S) \in S /\ \A x \in S : x <= Max(S)
  BY <1>1, <1>4, MaxOfBounded
<1> DEFINE m == Max(S)
<1>6. m \in 0 .. n /\ \A x \in S : x \in Nat /\ x <= m
  BY <1>1, <1>4, <1>5
<1> HIDE DEF m
<1>7. 1 + m \in 1 .. n + 1 /\ 1 + m \notin S
  BY <1>6
<1> QED
  BY <1>2, <1>3, <1>7 DEF m, Unseen

IsDraft(d) == d = [key |-> d.key, evidence |-> d.evidence]

\* A key is remembered once, with the evidence of every candidate merged into it.
LM(v) ==
    /\ \A m, n \in DOMAIN v.mems : v.mems[m].key = v.mems[n].key => m = n
    /\ \A c \in DOMAIN v.cands :
          LET m == v.cands[c].memory
          IN m # NoMemory => /\ m \in DOMAIN v.mems /\ v.mems[m].key = v.cands[c].key
                             /\ v.cands[c].evidence \subseteq v.mems[m].evidence

Taught(v, w) ==
    /\ Good(w) /\ Ext(v, w) /\ w.msgs = v.msgs /\ w.sums = v.sums
    /\ \A c \in DOMAIN w.cands \ DOMAIN v.cands : Unseen(c, "cands")
    /\ LM(v) => LM(w)

Recorded(w, d) == \E c \in DOMAIN w.cands : d.evidence \subseteq w.cands[c].evidence

\* The memory of a key, if there is one.
Finds(v, old, key) ==
    \/ old = NoMemory /\ \A i \in DOMAIN v.mems : v.mems[i].key # key
    \/ old \in DOMAIN v.mems /\ v.mems[old].key = key

LEMMA Found ==
    ASSUME NEW v, NEW key
    PROVE  Finds(v, find_active_memory_by_key(v, key), key)
<1> DEFINE S == {i \in DOMAIN v.mems : v.mems[i].key = key}
           x == CHOOSE i \in S : TRUE
<1>1. S # {} => x \in S
  OBVIOUS
<1>2. find_active_memory_by_key(v, key) = IF S = {} THEN NoMemory ELSE x
  BY DEF find_active_memory_by_key
<1> HIDE DEF x
<1> QED
  BY <1>1, <1>2 DEF Finds

\* The tables after a draft: a new candidate, and the memory it is merged into.
NewCandidate(v, w, i, c) ==
    /\ IsCand(c, i) /\ DOMAIN w.cands = DOMAIN v.cands \cup {i} /\ w.cands[i] = c
    /\ \A k \in DOMAIN v.cands : w.cands[k] = v.cands[k]
NewMemory(v, w, old, m, d) ==
    /\ IsMem(m, m.id) /\ m.key = d.key
    /\ (old # NoMemory /\ m.id = old) \/ (old = NoMemory /\ m.id \notin DOMAIN v.mems /\ m.id # NoMemory)
    /\ old # NoMemory => v.mems[old].evidence \subseteq m.evidence
    /\ DOMAIN w.mems = DOMAIN v.mems \cup {m.id} /\ w.mems[m.id] = m
    /\ \A k \in DOMAIN v.mems \ {m.id} : w.mems[k] = v.mems[k]

HasRow(t, old, i, row) ==
    DOMAIN t = DOMAIN old \cup {i} /\ t[i] = row /\ \A k \in DOMAIN old \ {i} : t[k] = old[k]

LEMMA WithRow ==
    ASSUME NEW t, NEW row, NEW i, row.id = i, i \notin DOMAIN t
    PROVE  HasRow(With(t, row), t, i, row)
  BY DEF With, Inserted, HasRow

LEMMA PutRow ==
    ASSUME NEW t, NEW row, NEW i, row.id = i
    PROVE  HasRow(Put(t, row), t, i, row)
  BY DEF Put, HasRow

Learned(v, w, d, i, c, old, m) ==
    /\ w = [msgs |-> v.msgs, sums |-> v.sums, cands |-> w.cands, mems |-> w.mems]
    /\ NewCandidate(v, w, i, c) /\ d.evidence \subseteq c.evidence /\ c.key = d.key
    /\ \/ w.mems = v.mems /\ c.memory = NoMemory
       \/ NewMemory(v, w, old, m, d) /\ c.memory = m.id /\ c.evidence \subseteq m.evidence

LearnsTo(v, d, n) ==
    \E c, m : /\ Learned(v, Learn(v, d), d, NewId(v, "cands"), c, find_active_memory_by_key(v, d.key), m)
              /\ m.id \in 0 .. n + 1

LEMMA LearnEffect ==
    ASSUME NEW v, Good(v), NEW d, IsDraft(d), NEW n \in Nat, Below(n), BelowV(v, n)
    PROVE  LearnsTo(v, d, n)
<1> DEFINE old == find_active_memory_by_key(v, d.key)
           i == NewId(v, "cands")
           j == NewId(v, "mems")
           found == EvidenceOf(v, old)
           E == d.evidence \cup found
           draft == [key |-> d.key, evidence |-> E]
           k == IF old = NoMemory THEN j ELSE old
           m == [id |-> k, key |-> d.key, evidence |-> E \cup found]
           c1 == [id |-> i, key |-> d.key, evidence |-> E, memory |-> k]
           c2 == [id |-> i, key |-> d.key, evidence |-> E, memory |-> NoMemory]
           w == Learn(v, d)
<1>1. _merge_existing_evidence(v, d) = draft
  <2> DEFINE a == d.key   b == d.evidence
  <2>1. d = [key |-> a, evidence |-> b]
    BY DEF IsDraft
  <2>2. _merge_existing_evidence(v, d) = [d EXCEPT !.evidence = b \cup found]
    BY DEF _merge_existing_evidence
  <2> HIDE DEF a, b, found
  <2>3. [[key |-> a, evidence |-> b] EXCEPT !.evidence = b \cup found] = [key |-> a, evidence |-> b \cup found]
    OBVIOUS
  <2> QED
    BY <2>1, <2>2, <2>3 DEF a, b
<1>2. promote(v, draft) = m
  BY DEF promote
<1>3. create_learning_candidate(v, draft, k) = c1 /\ create_learning_candidate(v, draft, NoMemory) = c2
  BY DEF create_learning_candidate
<1>4. i \in 1 .. n + 1 /\ i \notin DOMAIN v.cands
  <2>1. /\ DOMAIN v["cands"] \subseteq 0 .. n /\ DOMAIN db["cands"] \subseteq 0 .. n
        /\ \A r \in Requests : DOMAIN req[r].view["cands"] \subseteq 0 .. n
    BY DEF Below, BelowV
  <2>2. i \in 1 .. n + 1 /\ i \notin DOMAIN v["cands"]
    BY <2>1, NewIdFresh
  <2> QED
    BY <2>2
<1>5. j \in 1 .. n + 1 /\ j \notin DOMAIN v.mems
  <2>1. /\ DOMAIN v["mems"] \subseteq 0 .. n /\ DOMAIN db["mems"] \subseteq 0 .. n
        /\ \A r \in Requests : DOMAIN req[r].view["mems"] \subseteq 0 .. n
    BY DEF Below, BelowV
  <2>2. j \in 1 .. n + 1 /\ j \notin DOMAIN v["mems"]
    BY <2>1, NewIdFresh
  <2> QED
    BY <2>2
<1>6. Finds(v, old, d.key)
  BY Found
<1>7. w = IF auto_promotable(draft)
          THEN [v EXCEPT !.cands = With(@, c1), !.mems = Put(@, m)]
          ELSE [v EXCEPT !.cands = With(@, c2)]
  <2>1. w = LET x == _merge_existing_evidence(v, d)
                y == promote(v, x)
            IN IF auto_promotable(x)
               THEN [v EXCEPT !.cands = With(@, create_learning_candidate(v, x, y.id)), !.mems = Put(@, y)]
               ELSE [v EXCEPT !.cands = With(@, create_learning_candidate(v, x, NoMemory))]
    BY DEF Learn
  <2>2. m.id = k
    OBVIOUS
  <2> HIDE DEF m, c1, c2, w, draft, k
  <2>3. w = IF auto_promotable(draft)
            THEN [v EXCEPT !.cands = With(@, create_learning_candidate(v, draft, m.id)), !.mems = Put(@, m)]
            ELSE [v EXCEPT !.cands = With(@, create_learning_candidate(v, draft, NoMemory))]
    BY <1>1, <1>2, <2>1
  <2> QED
    BY <1>3, <2>2, <2>3
<1>8. IsTables(v)
  BY DEF Good
<1>9. c1.id = i /\ c2.id = i /\ m.id = k /\ k \in 0 .. n + 1
  <2>1. old = NoMemory \/ old \in 0 .. n
    BY <1>6 DEF Finds, BelowV
  <2> HIDE DEF old, j
  <2>2. k \in 0 .. n + 1
    BY <1>5, <2>1
  <2> QED
    BY <2>2
<1>10. IsCand(c1, i) /\ IsCand(c2, i) /\ c1.key = d.key /\ c2.key = d.key /\ c1.evidence = E /\ c2.evidence = E
       /\ c1.memory = k /\ c2.memory = NoMemory
  BY DEF IsCand
<1>11. IsMem(m, k) /\ m.key = d.key /\ m.evidence = E \cup found
  BY DEF IsMem
<1>12. d.evidence \subseteq E
  OBVIOUS
<1>13. old # NoMemory => found = v.mems[old].evidence
  BY DEF EvidenceOf
<1>14. (old # NoMemory /\ k = old) \/ (old = NoMemory /\ k = j /\ k # NoMemory)
  BY <1>5 DEF NoMemory
<1> HIDE DEF w, i, old, m, c1, c2, k, draft, E, found
<1>15. CASE auto_promotable(draft)
  <2>1. w = [msgs |-> v.msgs, sums |-> v.sums, cands |-> With(v.cands, c1), mems |-> Put(v.mems, m)]
    BY <1>7, <1>8, <1>15, TwoTables
  <2>2. w.cands = With(v.cands, c1) /\ w.mems = Put(v.mems, m) /\ w.msgs = v.msgs /\ w.sums = v.sums
    BY <2>1
  <2>a. HasRow(w.cands, v.cands, i, c1)
    BY <1>4, <1>9, <2>2, WithRow
  <2>3. NewCandidate(v, w, i, c1)
    BY <1>4, <1>10, <2>a DEF NewCandidate, HasRow
  <2>4. /\ DOMAIN w.mems = DOMAIN v.mems \cup {k} /\ w.mems[k] = m
        /\ \A x \in DOMAIN v.mems \ {k} : w.mems[x] = v.mems[x]
    <3>1. HasRow(w.mems, v.mems, k, m)
      BY <1>9, <2>2, PutRow
    <3> QED
      BY <3>1 DEF HasRow
  <2>5. NewMemory(v, w, old, m, d)
    BY <1>5, <1>9, <1>11, <1>13, <1>14, <2>4 DEF NewMemory
  <2>6. Learned(v, w, d, i, c1, old, m)
    BY <1>9, <1>10, <1>11, <1>12, <2>1, <2>2, <2>3, <2>5 DEF Learned
  <2> QED
    BY <1>9, <2>6 DEF w, i, old, LearnsTo
<1>16. CASE ~ auto_promotable(draft)
  <2>1. w = [msgs |-> v.msgs, sums |-> v.sums, cands |-> With(v.cands, c2), mems |-> v.mems]
    BY <1>7, <1>8, <1>16, OneTable
  <2>2. w.cands = With(v.cands, c2) /\ w.mems = v.mems /\ w.msgs = v.msgs /\ w.sums = v.sums
    BY <2>1
  <2>a. HasRow(w.cands, v.cands, i, c2)
    BY <1>4, <1>9, <2>2, WithRow
  <2>3. NewCandidate(v, w, i, c2)
    BY <1>4, <1>10, <2>a DEF NewCandidate, HasRow
  <2>6. Learned(v, w, d, i, c2, old, m)
    BY <1>9, <1>10, <1>12, <2>1, <2>2, <2>3 DEF Learned
  <2> QED
    BY <1>9, <2>6 DEF w, i, old, LearnsTo
<1> QED
  BY <1>15, <1>16

\* A draft is recorded, nothing of what was known is lost, and a key is still
\* remembered once.
LEMMA LearnedMerged ==
    ASSUME NEW v, NEW w, NEW d, NEW i, NEW c, NEW old, NEW m, Good(v), Finds(v, old, d.key),
           Learned(v, w, d, i, c, old, m), NewMemory(v, w, old, m, d), c.memory = m.id,
           c.evidence \subseteq m.evidence, LM(v)
    PROVE  LM(w)
<1>1. NoMemory \notin DOMAIN v.mems
  BY DEF Good, MemsFine
<1>2. \A x \in DOMAIN v.mems : v.mems[x].key = d.key => x = m.id
  BY <1>1 DEF NewMemory, Finds, LM
<1>3. /\ DOMAIN w.mems = DOMAIN v.mems \cup {m.id} /\ w.mems[m.id] = m /\ m.key = d.key
      /\ \A k \in DOMAIN v.mems \ {m.id} : w.mems[k] = v.mems[k]
  BY DEF NewMemory
<1>4. ASSUME NEW x \in DOMAIN w.mems, NEW y \in DOMAIN w.mems, w.mems[x].key = w.mems[y].key
      PROVE  x = y
  <2>1. CASE x = m.id
    BY <1>2, <1>3, <1>4, <2>1
  <2>2. CASE y = m.id
    BY <1>2, <1>3, <1>4, <2>2
  <2>3. CASE x # m.id /\ y # m.id
    BY <1>3, <1>4, <2>3 DEF LM
  <2> QED
    BY <2>1, <2>2, <2>3
<1>5. ASSUME m.id \in DOMAIN v.mems
      PROVE  v.mems[m.id].key = d.key /\ v.mems[m.id].evidence \subseteq m.evidence
  BY <1>1, <1>5 DEF NewMemory, Finds
<1>6. ASSUME NEW k \in DOMAIN w.cands, w.cands[k].memory # NoMemory
      PROVE  LET x == w.cands[k].memory
             IN  x \in DOMAIN w.mems /\ w.mems[x].key = w.cands[k].key /\ w.cands[k].evidence \subseteq w.mems[x].evidence
  <2>1. CASE k = i
    BY <1>3, <2>1 DEF Learned, NewCandidate
  <2>2. CASE k \in DOMAIN v.cands
    <3> DEFINE x == v.cands[k].memory
    <3>1. w.cands[k] = v.cands[k]
      BY <2>2 DEF Learned, NewCandidate
    <3>2. x \in DOMAIN v.mems /\ v.mems[x].key = v.cands[k].key /\ v.cands[k].evidence \subseteq v.mems[x].evidence
      BY <1>6, <2>2, <3>1 DEF LM
    <3>3. x \in DOMAIN w.mems /\ w.mems[x].key = v.cands[k].key /\ v.cands[k].evidence \subseteq w.mems[x].evidence
      <4>1. CASE x = m.id
        BY <1>3, <1>5, <3>2, <4>1
      <4>2. CASE x # m.id
        BY <1>3, <3>2, <4>2
      <4> QED
        BY <4>1, <4>2
    <3> QED
      BY <3>1, <3>3
  <2> QED
    BY <2>1, <2>2 DEF Learned, NewCandidate
<1> QED
  BY <1>4, <1>6 DEF LM

LEMMA LearnedTaught ==
    ASSUME NEW v, NEW w, NEW d, NEW i, NEW c, NEW old, NEW m, NEW n \in Nat, Good(v), Finds(v, old, d.key),
           i \notin DOMAIN v.cands, i \in 1 .. n + 1, Unseen(i, "cands"), BelowV(v, n), m.id \in 0 .. n + 1,
           Learned(v, w, d, i, c, old, m)
    PROVE  Taught(v, w) /\ Recorded(w, d) /\ BelowV(w, n + 1)
<1>1. w.msgs = v.msgs /\ w.sums = v.sums /\ IsTables(w)
  BY DEF Learned, IsTables
<1>2. /\ IsCand(c, i) /\ DOMAIN w.cands = DOMAIN v.cands \cup {i} /\ w.cands[i] = c
      /\ \A k \in DOMAIN v.cands : w.cands[k] = v.cands[k]
  BY DEF Learned, NewCandidate
<1>3. Extends(v.cands, w.cands)
  BY <1>2 DEF Extends
<1>4. CandsFine(w)
  BY <1>2 DEF CandsFine, Good
<1>5. MemsFine(w) /\ DOMAIN v.mems \subseteq DOMAIN w.mems /\ DOMAIN w.mems \subseteq 0 .. n + 1
  <2>1. MemsFine(v) /\ DOMAIN v.mems \subseteq 0 .. n
    BY DEF Good, BelowV
  <2>2. CASE w.mems = v.mems
    BY <2>1, <2>2 DEF MemsFine
  <2>3. CASE NewMemory(v, w, old, m, d)
    <3>1. m.id # NoMemory /\ m.id \in Nat
      BY <2>3 DEF NewMemory
    <3> QED
      BY <2>1, <2>3, <3>1 DEF MemsFine, NewMemory
  <2> QED
    BY <2>2, <2>3 DEF Learned
<1>6. Good(w)
  BY <1>1, <1>4, <1>5 DEF Good, MsgsFine, SumsFine
<1>7. Ext(v, w)
  BY <1>1, <1>3, <1>5 DEF Ext, MsgsExt, Extends, Same
<1>8. LM(v) => LM(w)
  <2>1. CASE w.mems = v.mems /\ c.memory = NoMemory
    BY <1>2, <2>1 DEF LM
  <2>2. CASE NewMemory(v, w, old, m, d) /\ c.memory = m.id /\ c.evidence \subseteq m.evidence
    BY <2>2, LearnedMerged
  <2> QED
    BY <2>1, <2>2 DEF Learned
<1>9. Recorded(w, d)
  BY <1>2 DEF Recorded, Learned
<1>10. BelowV(w, n + 1)
  BY <1>2, <1>5 DEF BelowV
<1>11. Taught(v, w)
  BY <1>1, <1>2, <1>6, <1>7, <1>8 DEF Taught
<1> QED
  BY <1>9, <1>10, <1>11

LEMMA LearnStep ==
    ASSUME NEW v, Good(v), NEW d, IsDraft(d), NEW n \in Nat, Below(n), BelowV(v, n)
    PROVE  Taught(v, Learn(v, d)) /\ Recorded(Learn(v, d), d) /\ BelowV(Learn(v, d), n + 1)
<1> DEFINE w == Learn(v, d)   i == NewId(v, "cands")   old == find_active_memory_by_key(v, d.key)
<1>1. LearnsTo(v, d, n)
  BY LearnEffect
<1>2. PICK c, m : Learned(v, w, d, i, c, old, m) /\ m.id \in 0 .. n + 1
  BY <1>1 DEF LearnsTo
<1>3. i \in 1 .. n + 1 /\ i \notin DOMAIN v.cands /\ Unseen(i, "cands")
  <2>1. /\ DOMAIN v["cands"] \subseteq 0 .. n /\ DOMAIN db["cands"] \subseteq 0 .. n
        /\ \A r \in Requests : DOMAIN req[r].view["cands"] \subseteq 0 .. n
    BY DEF Below, BelowV
  <2>2. i \in 1 .. n + 1 /\ i \notin DOMAIN v["cands"] /\ Unseen(i, "cands")
    BY <2>1, NewIdFresh
  <2> QED
    BY <2>2
<1>4. Finds(v, old, d.key)
  BY Found
<1> HIDE DEF w, i, old
<1>5. Taught(v, w) /\ Recorded(w, d) /\ BelowV(w, n + 1)
  BY <1>2, <1>3, <1>4, LearnedTaught
<1> QED
  BY <1>5 DEF w

LEMMA TaughtOrder ==
    ASSUME NEW u, NEW v, NEW w
    PROVE  /\ Good(u) => Taught(u, u)
           /\ Taught(u, v) /\ Taught(v, w) => Taught(u, w)
           /\ \A d : Taught(v, w) /\ Recorded(v, d) => Recorded(w, d)
<1>1. Good(u) => Taught(u, u)
  BY ExtOrder DEF Taught
<1>2. Taught(u, v) /\ Taught(v, w) => Taught(u, w)
  <2> SUFFICES ASSUME Taught(u, v), Taught(v, w) PROVE Taught(u, w)
    OBVIOUS
  <2>1. Ext(u, w)
    BY ExtOrder DEF Taught
  <2> QED
    BY <2>1 DEF Taught
<1>3. \A d : Taught(v, w) /\ Recorded(v, d) => Recorded(w, d)
  BY DEF Taught, Ext, Extends, Recorded
<1> QED
  BY <1>1, <1>2, <1>3

\* The tables after each draft.
AfterLearn(g, v, q) ==
    /\ g[0] = v
    /\ \A k \in 1 .. Len(q) : g[k] = Learn(g[k - 1], q[k])
    /\ LearnAll(v, q) = g[Len(q)]

LEMMA LearnSteps ==
    ASSUME NEW v, NEW q, Len(q) \in Nat
    PROVE  \E g : AfterLearn(g, v, q)
<1> DEFINE After(m, g) == g = [k \in 0 .. m |-> IF k = 0 THEN v ELSE Learn(g[k - 1], q[k])]
           I == {m \in Nat : \E g : After(m, g)}
<1>1. LearnAll(v, q) = (CHOOSE g : After(Len(q), g))[Len(q)]
  BY DEF LearnAll
<1>3. 0 \in I
  <2> DEFINE g == [k \in 0 .. 0 |-> v]
  <2>1. After(0, g)
    OBVIOUS
  <2> HIDE DEF g
  <2> QED
    BY <2>1
<1>4. \A m \in Nat : m \in I => m + 1 \in I
  <2> SUFFICES ASSUME NEW m \in Nat, NEW g, After(m, g)
               PROVE  \E h : After(m + 1, h)
    OBVIOUS
  <2> DEFINE last == Learn(g[m], q[m + 1])
             h == [k \in 0 .. m + 1 |-> IF k = m + 1 THEN last ELSE g[k]]
  <2>1. \A k \in 0 .. m + 1 : h[k] = IF k = 0 THEN v ELSE Learn(h[k - 1], q[k])
    <3> SUFFICES ASSUME NEW k \in 0 .. m + 1
                 PROVE  h[k] = IF k = 0 THEN v ELSE Learn(h[k - 1], q[k])
      OBVIOUS
    <3>1. CASE k = m + 1
      <4>1. h[k - 1] = g[m] /\ k # 0
        BY <3>1
      <4> QED
        BY <3>1, <4>1
    <3>2. CASE k \in 0 .. m
      <4>1. h[k] = g[k] /\ (k # 0 => h[k - 1] = g[k - 1])
        BY <3>2
      <4> QED
        BY <3>2, <4>1
    <3> QED
      BY <3>1, <3>2
  <2>2. h = [k \in 0 .. m + 1 |-> h[k]]
    OBVIOUS
  <2> HIDE DEF h
  <2>3. After(m + 1, h)
    BY <2>1, <2>2
  <2> QED
    BY <2>3
<1>5. Len(q) \in I
  <2> HIDE DEF I
  <2> QED
    BY <1>3, <1>4, NatInduct
<1>6. \E g : After(Len(q), g)
  BY <1>5
<1> DEFINE f == CHOOSE g : After(Len(q), g)
<1>7. After(Len(q), f)
  BY <1>6
<1>8. LearnAll(v, q) = f[Len(q)]
  BY <1>1
<1> HIDE DEF f
<1>9. f[0] = v /\ \A k \in 1 .. Len(q) : f[k] = Learn(f[k - 1], q[k])
  BY <1>7
<1>10. AfterLearn(f, v, q)
  BY <1>8, <1>9 DEF AfterLearn
<1> QED
  BY <1>10

\* All drafts are recorded.
LEMMA LearnAllTaught ==
    ASSUME NEW v, Good(v), NEW q, Len(q) \in Nat, \A k \in 1 .. Len(q) : IsDraft(q[k]),
           NEW n \in Nat, Below(n), BelowV(v, n)
    PROVE  /\ Taught(v, LearnAll(v, q)) /\ BelowV(LearnAll(v, q), n + Len(q))
           /\ \A k \in 1 .. Len(q) : Recorded(LearnAll(v, q), q[k])
<1>1. PICK g : AfterLearn(g, v, q)
  BY LearnSteps
<1> DEFINE P(m) == /\ Taught(v, g[m]) /\ BelowV(g[m], n + m)
                   /\ \A k \in 1 .. m : Recorded(g[m], q[k])
           I == {m \in Nat : m <= Len(q) => P(m)}
<1>2. 0 \in I
  <2>1. g[0] = v /\ Taught(v, v) /\ n + 0 = n
    BY <1>1, TaughtOrder DEF AfterLearn
  <2>2. BelowV(v, n + 0)
    BY <2>1
  <2>3. P(0)
    BY <2>1, <2>2
  <2> QED
    BY <2>3
<1>3. \A m \in Nat : m \in I => m + 1 \in I
  <2> SUFFICES ASSUME NEW m \in Nat, m + 1 <= Len(q), P(m)
               PROVE  P(m + 1)
    OBVIOUS
  <2>1. m + 1 \in 1 .. Len(q) /\ (m + 1) - 1 = m /\ n + m \in Nat /\ (n + m) + 1 = n + (m + 1)
    OBVIOUS
  <2> DEFINE x == g[m]   y == g[m + 1]   d == q[m + 1]
  <2>2. y = Learn(x, d) /\ IsDraft(d)
    BY <1>1, <2>1 DEF AfterLearn
  <2>3. Good(x) /\ Taught(v, x) /\ BelowV(x, n + m) /\ \A k \in 1 .. m : Recorded(x, q[k])
    BY DEF Taught
  <2>4. Below(n + m)
    BY <2>1 DEF Below, BelowV
  <2> HIDE DEF x, y, d
  <2>5. Taught(x, y) /\ Recorded(y, d) /\ BelowV(y, (n + m) + 1)
    BY <2>1, <2>2, <2>3, <2>4, LearnStep
  <2>6. Taught(v, y)
    BY <2>3, <2>5, TaughtOrder
  <2>7. \A k \in 1 .. m : Recorded(y, q[k])
    BY <2>3, <2>5, TaughtOrder
  <2>8. \A k \in 1 .. m + 1 : k \in 1 .. m \/ k = m + 1
    OBVIOUS
  <2>9. \A k \in 1 .. m + 1 : Recorded(y, q[k])
    BY <2>5, <2>7, <2>8 DEF d
  <2>10. BelowV(y, n + (m + 1))
    BY <2>1, <2>5
  <2> QED
    BY <2>6, <2>9, <2>10 DEF y
<1>4. Len(q) \in I
  <2> HIDE DEF I
  <2> QED
    BY <1>2, <1>3, NatInduct
<1>5. P(Len(q))
  BY <1>4
<1>6. LearnAll(v, q) = g[Len(q)]
  BY <1>1 DEF AfterLearn
<1> QED
  BY <1>5, <1>6

\* A finite set is listed as a sequence.
ListOf(q, S) ==
    /\ Len(q) \in Nat /\ \A k \in 1 .. Len(q) : q[k] \in S
    /\ \A x \in S : \E k \in 1 .. Len(q) : q[k] = x

LEMMA SetToSeqLists ==
    ASSUME NEW S, IsFiniteSet(S)
    PROVE  ListOf(SetToSeq(S), S)
<1> DEFINE n == Cardinality(S)
           q == SetToSeq(S)
<1>1. n \in Nat /\ ExistsBijection(1 .. n, S)
  BY FS_CardinalityType
<1>2. \E f \in [1 .. n -> S] : IsInjective(f)
  BY <1>1 DEF ExistsBijection, Bijection, Injection
<1>3. q = CHOOSE f \in [1 .. n -> S] : IsInjective(f)
  BY DEF SetToSeq
<1> HIDE DEF q
<1>4. q \in [1 .. n -> S] /\ IsInjective(q)
  BY <1>2, <1>3
<1>5. IsFiniteSet(1 .. n) /\ Cardinality(1 .. n) = n
  <2>1. IsFiniteSet(1 .. n) /\ Cardinality(1 .. n) = IF 1 > n THEN 0 ELSE n - 1 + 1
    BY <1>1, FS_Interval
  <2> HIDE DEF n
  <2> QED
    BY <1>1, <2>1
<1>6. q \in Injection(1 .. n, S)
  BY <1>4 DEF Injection
<1>7. q \in Surjection(1 .. n, S)
  <2>1. Cardinality(1 .. n) = Cardinality(S) <=> q \in Surjection(1 .. n, S)
    BY <1>6, FS_Injection
  <2> QED
    BY <1>5, <2>1
<1> HIDE DEF n
<1>8. q \in Seq(S) /\ Len(q) = n
  BY <1>1, <1>4
<1>9. \A x \in S : \E k \in 1 .. n : q[k] = x
  BY <1>7 DEF Surjection
<1>10. \A k \in 1 .. n : q[k] \in S
  BY <1>4
<1>11. ListOf(q, S)
  BY <1>1, <1>8, <1>9, <1>10 DEF ListOf
<1> QED
  BY <1>11 DEF q

\* There are finitely many drafts, one of them with every preference.
LEMMA Drafts ==
    ASSUME NEW ms, NEW pairs, NEW tools, IsFiniteSet(tools), \A p \in pairs : p[1].tool \in tools
    PROVE  /\ IsFiniteSet(extract_memory_candidates(ms, pairs))
           /\ \A d \in extract_memory_candidates(ms, pairs) : IsDraft(d)
           /\ \A m \in ms : m.role = "preference" =>
                 \E d \in extract_memory_candidates(ms, pairs) : m.id \in d.evidence
<1> DEFINE said == {m \in ms : m.role = "preference"}
           pref == [key |-> "preference", evidence |-> {m.id : m \in said}]
           prefs == _extract_user_preferences(ms)
           ev(t) == UNION {{p[1].id, p[2].id} : p \in {q \in pairs : q[1].tool = t}}
           used == {p[1].tool : p \in pairs}
           lessons == _extract_tool_recovery_lessons(pairs)
           f == [t \in used |-> [key |-> t, evidence |-> ev(t)]]
<1>1. prefs \subseteq {pref} /\ (said # {} => pref \in prefs)
  BY DEF _extract_user_preferences
<1>2. lessons = {[key |-> t, evidence |-> ev(t)] : t \in used}
  BY DEF _extract_tool_recovery_lessons
<1>3. IsFiniteSet(used)
  <2>1. used \in SUBSET tools
    OBVIOUS
  <2> QED
    BY <2>1, FS_Subset
<1>4. IsFiniteSet(lessons)
  <2>1. f \in Surjection(used, lessons)
    <3> HIDE DEF lessons, used, ev
    <3>1. f \in [used -> lessons]
      BY <1>2
    <3>2. \A x \in lessons : \E t \in used : f[t] = x
      BY <1>2
    <3> HIDE DEF f
    <3> QED
      BY <3>1, <3>2 DEF Surjection
  <2> HIDE DEF lessons, used, f
  <2> QED
    BY <1>3, <2>1, FS_Surjection
<1>5. IsFiniteSet(prefs)
  <2>1. IsFiniteSet({pref}) /\ prefs \in SUBSET {pref}
    BY <1>1, FS_Singleton
  <2> HIDE DEF prefs, pref
  <2> QED
    BY <2>1, FS_Subset
<1>6. extract_memory_candidates(ms, pairs) = prefs \cup lessons
  BY DEF extract_memory_candidates
<1>7. IsFiniteSet(prefs \cup lessons)
  BY <1>4, <1>5, FS_Union
<1>8. IsDraft(pref)
  BY DEF IsDraft
<1>9. \A d \in lessons : IsDraft(d)
  <2> SUFFICES ASSUME NEW t \in used PROVE IsDraft([key |-> t, evidence |-> ev(t)])
    BY <1>2
  <2> HIDE DEF ev
  <2> QED
    BY DEF IsDraft
<1>10. \A m \in ms : m.role = "preference" => m.id \in pref.evidence /\ pref \in prefs
  <2>1. \A m \in ms : m.role = "preference" => m \in said
    OBVIOUS
  <2>2. pref.evidence = {m.id : m \in said}
    OBVIOUS
  <2> HIDE DEF pref, prefs, said
  <2> QED
    BY <1>1, <2>1, <2>2
<1> HIDE DEF prefs, lessons, pref
<1>11. \A d \in prefs \cup lessons : IsDraft(d)
  BY <1>1, <1>8, <1>9
<1> QED
  BY <1>6, <1>7, <1>10, <1>11

\* Every draft that a consolidation finds becomes a candidate.
Consolidated(v, w, ms) ==
    /\ Taught(v, w) /\ \E n \in Nat : BelowV(w, n)
    /\ \A m \in ms : m.role = "preference" => \E c \in DOMAIN w.cands : m.id \in w.cands[c].evidence

LEMMA ConsolidateTaught ==
    ASSUME NEW v, Good(v), NEW n \in Nat, Below(n), BelowV(v, n), NEW ms, NEW pairs, NEW tools,
           IsFiniteSet(tools), \A p \in pairs : p[1].tool \in tools
    PROVE  Consolidated(v, consolidate(v, ms, pairs), ms)
<1> DEFINE D == extract_memory_candidates(ms, pairs)
           q == SetToSeq(D)
           w == consolidate(v, ms, pairs)
<1>1. /\ IsFiniteSet(D) /\ \A d \in D : IsDraft(d)
      /\ \A m \in ms : m.role = "preference" => \E d \in D : m.id \in d.evidence
  BY Drafts
<1>2. w = LearnAll(v, q)
  BY DEF consolidate
<1> HIDE DEF D, w
<1>3. ListOf(q, D)
  BY <1>1, SetToSeqLists
<1> HIDE DEF q
<1>4. Len(q) \in Nat /\ (\A k \in 1 .. Len(q) : IsDraft(q[k])) /\ n + Len(q) \in Nat
  BY <1>1, <1>3 DEF ListOf
<1>5. Taught(v, w) /\ BelowV(w, n + Len(q)) /\ \A k \in 1 .. Len(q) : Recorded(w, q[k])
  BY <1>2, <1>4, LearnAllTaught
<1>6. ASSUME NEW m \in ms, m.role = "preference"
      PROVE  \E c \in DOMAIN w.cands : m.id \in w.cands[c].evidence
  <2>1. PICK d \in D : m.id \in d.evidence
    BY <1>1, <1>6
  <2>2. PICK k \in 1 .. Len(q) : q[k] = d
    BY <1>3 DEF ListOf
  <2>3. Recorded(w, d)
    BY <1>5, <2>2
  <2> QED
    BY <2>1, <2>3 DEF Recorded
<1>7. Consolidated(v, w, ms)
  BY <1>4, <1>5, <1>6 DEF Consolidated
<1> QED
  BY <1>7 DEF w

\* The tools of the logs of a run are those of messages.
LEMMA ToolsOfLogs ==
    ASSUME NEW v, Good(v), NEW run, NEW pairs \in SUBSET _find_later_recovery(v, run)
    PROVE  \E tools : IsFiniteSet(tools) /\ \A p \in pairs : p[1].tool \in tools
<1> DEFINE K == DOMAIN v.msgs
           f == [k \in K |-> v.msgs[k].tool]
           T == {v.msgs[k].tool : k \in K}
<1>1. IsFiniteSet(K)
  BY DEF Good, MsgsFine
<1>2. f \in Surjection(K, T)
  <2>1. f \in [K -> T] /\ \A t \in T : \E k \in K : f[k] = t
    OBVIOUS
  <2> HIDE DEF f, K, T
  <2> QED
    BY <2>1 DEF Surjection
<1>3. IsFiniteSet(T)
  <2> HIDE DEF f, K, T
  <2> QED
    BY <1>1, <1>2, FS_Surjection
<1>4. ASSUME NEW p \in pairs
      PROVE  p[1].tool \in T
  <2> DEFINE logs == {m \in Range(v.msgs) : m.role = "tool_result" /\ m.run = run}
  <2>1. p \in logs \X logs
    BY DEF _find_later_recovery
  <2>2. p[1] \in logs
    <3> HIDE DEF logs
    <3> QED
      BY <2>1
  <2>3. p[1] \in Range(v.msgs)
    BY <2>2
  <2>4. PICK k \in K : p[1] = v.msgs[k]
    BY <2>3 DEF Range
  <2> QED
    BY <2>4
<1> QED
  BY <1>3, <1>4

----------------------------------------------------------------------------
(* The order of the rows.                                                  *)

Row == [id : Nat \ {0}, at : Nat]
IdsOf(o) == {o[i].id : i \in DOMAIN o}

LEMMA Rowed ==
    ASSUME NEW o \in Seq(Row)
    PROVE  /\ Len(o) \in Nat /\ DOMAIN o = 1 .. Len(o) /\ \A i \in 1 .. Len(o) : o[i] \in Row
           /\ \A i \in 1 .. Len(o) : o[i].id \in Nat \ {0} /\ o[i].at \in Nat
<1>1. Len(o) \in Nat /\ DOMAIN o = 1 .. Len(o) /\ \A i \in 1 .. Len(o) : o[i] \in Row
  BY LenProperties, ElementOfSeq
<1>2. \A e \in Row : e.id \in Nat \ {0} /\ e.at \in Nat
  BY DEF Row
<1> QED
  BY <1>1, <1>2

\* An id that is above all others.
Above(o, n) == n \in Nat \ {0} /\ \A i \in DOMAIN o : o[i].id < n

LEMMA FreshAbove ==
    ASSUME NEW o \in Seq(Row)
    PROVE  Above(o, Fresh(o))
<1> DEFINE l == Len(o)
           S == {0} \cup {o[i].id : i \in DOMAIN o}
           Bound(k) == \E n \in Nat : \A i \in 1 .. k : o[i].id <= n
           I == {k \in Nat : k <= l => Bound(k)}
<1>1. l \in Nat /\ DOMAIN o = 1 .. l /\ \A i \in 1 .. l : o[i].id \in Nat \ {0}
  BY Rowed
<1> HIDE DEF l
<1>2. 0 \in I
  OBVIOUS
<1>3. \A k \in Nat : k \in I => k + 1 \in I
  <2>c. l \in Nat
    BY <1>1
  <2> HIDE DEF Bound
  <2> SUFFICES ASSUME NEW k \in Nat, k + 1 <= l, Bound(k)
               PROVE  Bound(k + 1)
    BY <2>c
  <2>d. PICK n \in Nat : \A i \in 1 .. k : o[i].id <= n
    BY DEF Bound
  <2> DEFINE x == o[k + 1].id   h == n + x
  <2>a. k + 1 \in 1 .. l
    BY <1>1
  <2>b. x \in Nat
    BY <1>1, <2>a
  <2> HIDE DEF x
  <2>1. x \in Nat /\ h \in Nat /\ n <= h /\ x <= h
    BY <2>b
  <2> HIDE DEF h
  <2>3. ASSUME NEW i \in 1 .. k + 1
        PROVE  o[i].id <= h
    <3>1. i \in 1 .. l
      BY <1>1
    <3> DEFINE y == o[i].id
    <3>2. y \in Nat
      BY <1>1, <3>1
    <3>3. y <= n \/ y = x
      <4>1. i \in 1 .. k \/ i = k + 1
        OBVIOUS
      <4> QED
        BY <2>d, <4>1 DEF x
    <3> HIDE DEF y
    <3>4. y <= h
      BY <2>1, <3>2, <3>3
    <3> QED
      BY <3>4 DEF y
  <2> QED
    BY <2>1, <2>3 DEF Bound
<1>4. l \in I
  <2> HIDE DEF I
  <2> QED
    BY <1>1, <1>2, <1>3, NatInduct
<1>5. PICK n \in Nat : \A i \in 1 .. l : o[i].id <= n
  BY <1>1, <1>4
<1>6. S \subseteq Nat /\ S # {} /\ \A x \in S : x <= n
  BY <1>1, <1>5
<1>7. \A i \in 1 .. l : o[i].id \in S
  BY <1>1
<1>8. Fresh(o) = 1 + Max(S)
  BY DEF Fresh
<1> DEFINE m == Max(S)
<1> HIDE DEF S
<1>9. m \in Nat /\ \A x \in S : x \in Nat /\ x <= m
  BY <1>6, MaxOfBounded
<1> HIDE DEF m
<1>10. 1 + m \in Nat \ {0} /\ \A i \in 1 .. l : o[i].id < 1 + m
  BY <1>7, <1>9
<1> QED
  BY <1>1, <1>8, <1>10 DEF Above, m

NewRow(o) == [id |-> Fresh(o), at |-> clock]
PlacedAt(new, o, p) ==
    new \in Seq(Row) /\ p \in 0 .. Len(o) /\ PutAfter(new, o, p, NewRow(o)) /\ IdsOf(new) = IdsOf(o) \cup {Fresh(o)}

LEMMA PlacedRows ==
    ASSUME NEW o \in Seq(Row), clock \in Nat, NEW p \in Places(o)
    PROVE  PlacedAt(Placed(o, p), o, p)
<1> DEFINE n == Len(o)
           new == Placed(o, p)
           e == NewRow(o)
<1>1. n \in Nat /\ DOMAIN o = 1 .. n
  BY Rowed
<1>2. p \in 0 .. n
  BY <1>1 DEF Places
<1>3. e \in Row /\ e.id = Fresh(o)
  BY FreshAbove DEF Row, NewRow, Above
<1>4. new = InsertAt(o, p + 1, e)
  BY DEF Placed, NewRow
<1> HIDE DEF new, e
<1>5. new \in Seq(Row) /\ PutAfter(new, o, p, e)
  BY <1>2, <1>3, <1>4, InsertAtProperties DEF n
<1>6. DOMAIN new = 1 .. n + 1
  BY <1>5, Rowed DEF PutAfter, n
<1>7. IdsOf(new) = IdsOf(o) \cup {Fresh(o)}
  <2>1. /\ \A i \in 1 .. p : new[i] = o[i]
        /\ new[p + 1] = e
        /\ \A i \in p + 2 .. n + 1 : new[i] = o[i - 1]
    BY <1>5 DEF PutAfter, n
  <2> HIDE DEF n
  <2>2. ASSUME NEW i \in 1 .. n + 1
        PROVE  new[i].id \in IdsOf(o) \cup {Fresh(o)}
    <3>1. CASE i \in 1 .. p
      <4>1. i \in 1 .. n
        BY <1>1, <1>2, <3>1
      <4> QED
        BY <1>1, <2>1, <3>1, <4>1 DEF IdsOf
    <3>2. CASE i = p + 1
      BY <1>3, <2>1, <3>2
    <3>3. CASE i \in p + 2 .. n + 1
      <4>1. i - 1 \in 1 .. n
        BY <1>1, <1>2, <3>3
      <4> QED
        BY <1>1, <2>1, <3>3, <4>1 DEF IdsOf
    <3> QED
      BY <1>1, <1>2, <3>1, <3>2, <3>3
  <2>3. ASSUME NEW i \in 1 .. n
        PROVE  \E j \in 1 .. n + 1 : new[j].id = o[i].id
    <3>1. CASE i \in 1 .. p
      <4>1. i \in 1 .. n + 1
        BY <1>1
      <4> QED
        BY <2>1, <3>1, <4>1
    <3>2. CASE i \in p + 1 .. n
      <4>1. i + 1 \in p + 2 .. n + 1 /\ i + 1 \in 1 .. n + 1 /\ (i + 1) - 1 = i
        BY <1>1, <1>2, <3>2
      <4> QED
        BY <2>1, <4>1
    <3> QED
      BY <1>1, <1>2, <3>1, <3>2
  <2>4. p + 1 \in 1 .. n + 1 /\ new[p + 1].id = Fresh(o)
    BY <1>1, <1>2, <1>3, <2>1
  <2>5. \A x \in IdsOf(new) : x \in IdsOf(o) \cup {Fresh(o)}
    BY <1>6, <2>2 DEF IdsOf
  <2>6. \A x \in IdsOf(o) : x \in IdsOf(new)
    BY <1>1, <1>6, <2>3 DEF IdsOf
  <2>7. Fresh(o) \in IdsOf(new)
    BY <1>6, <2>4 DEF IdsOf
  <2> QED
    BY <2>5, <2>6, <2>7
<1> QED
  BY <1>2, <1>5, <1>7 DEF PlacedAt, new, e, n

\* What is left of the order when the rows of a request are gone.
LEMMA OwnRows ==
    ASSUME NEW o \in Seq(Row), NEW r, NEW f
    PROVE  /\ Own(o, r, f) \in Seq(Row)
           /\ \A i \in IdsOf(o) : i \notin DOMAIN req[r].view[f] \ DOMAIN req[r].base[f] => i \in IdsOf(Own(o, r, f))
<1> DEFINE gone == DOMAIN req[r].view[f] \ DOMAIN req[r].base[f]
           S == {e \in Range(o) : e.id \notin gone}
           new == Own(o, r, f)
<1>1. new = Selected(o, S)
  BY DEF Own
<1>2. Len(o) \in Nat /\ DOMAIN o = 1 .. Len(o)
  BY Rowed
<1>3. \A i \in 1 .. Len(o) : o[i].id \notin gone => o[i] \in S
  BY <1>2 DEF Range
<1> HIDE DEF gone, S, new
<1>4. new \in Seq(Row)
  <2>1. new \in Seq(S \cap Row)
    BY <1>1, SelectedType
  <2> QED
    BY <2>1, SeqMonotonic
<1>5. Sub(new, o, Len(o), S)
  BY <1>1, SelectedSub
<1>6. DOMAIN new = 1 .. Len(new)
  BY <1>4, Rowed
<1>7. \A i \in IdsOf(o) : i \notin gone => i \in IdsOf(new)
  <2> SUFFICES ASSUME NEW a \in 1 .. Len(o), o[a].id \notin gone
               PROVE  o[a].id \in IdsOf(new)
    BY <1>2 DEF IdsOf
  <2>1. PICK i \in 1 .. Len(new) : new[i] = o[a]
    BY <1>3, <1>5 DEF Sub
  <2> QED
    BY <1>6, <2>1 DEF IdsOf
<1> QED
  BY <1>4, <1>7 DEF new, gone

----------------------------------------------------------------------------
(* The context.                                                            *)

LEMMA SubMessages ==
    ASSUME NEW ms, Messages(ms), NEW a \in Int, NEW b \in Int, 1 <= a, b <= Len(ms)
    PROVE  Messages(SubSeq(ms, a, b))
<1>1. PICK U : ms \in Seq(U) /\ \A m \in U : Fine(m)
  BY DEF Messages
<1>2. Len(ms) \in Nat /\ \A i \in 1 .. Len(ms) : ms[i] \in U
  BY <1>1, LenProperties, ElementOfSeq
<1>3. \A i \in a .. b : ms[i] \in U
  BY <1>2
<1>4. SubSeq(ms, a, b) \in Seq(U)
  BY <1>3, SubSeqProperties
<1> QED
  BY <1>1, <1>4 DEF Messages

LEMMA ListedMessages ==
    ASSUME NEW o \in Seq(Row), NEW v, Good(v)
    PROVE  Messages(Listed(o, v.msgs))
<1> DEFINE K == DOMAIN v.msgs
           S == {e \in Range(o) : e.id \in K}
           ids == Selected(o, S)
           U == {v.msgs[k] : k \in K}
           list == Listed(o, v.msgs)
<1>1. ids \in Seq(S \cap Row)
  <2> HIDE DEF S
  <2> QED
    BY SelectedType
<1>2. list = [i \in DOMAIN ids |-> v.msgs[ids[i].id]]
  BY DEF Listed
<1>3. \A e \in S \cap Row : e.id \in K
  OBVIOUS
<1> HIDE DEF S, ids, list
<1>4. Len(ids) \in Nat /\ DOMAIN ids = 1 .. Len(ids) /\ \A i \in 1 .. Len(ids) : ids[i] \in S \cap Row
  BY <1>1, LenProperties, ElementOfSeq
<1> DEFINE n == Len(ids)
<1>5. \A i \in 1 .. n : v.msgs[ids[i].id] \in U
  BY <1>3, <1>4
<1> HIDE DEF U
<1>6. list = [i \in 1 .. n |-> v.msgs[ids[i].id]] /\ n \in Nat
  BY <1>2, <1>4
<1> HIDE DEF n
<1>7. list \in [1 .. n -> U]
  BY <1>5, <1>6
<1>8. list \in Seq(U)
  BY <1>6, <1>7
<1>9. \A m \in U : Fine(m)
  BY DEF U, Good, MsgsFine
<1> QED
  BY <1>8, <1>9 DEF Messages, list

\* Whatever rows a view holds, what is built of them is paired.
LEMMA BuildPaired ==
    ASSUME order \in Seq(Row), NEW v, Good(v)
    PROVE  Paired(build(v))
<1> DEFINE all == Listed(order, v.msgs)
           listed == list_messages(v, order, ListLimit)
           ms == Uncompacted(listed)
           window == Newest(ms, MaxRecent)
<1>1. Messages(all) /\ Len(all) \in Nat
  BY ListedMessages, Lengths
<1>2. Messages(listed)
  <2> DEFINE b == IF Len(all) < ListLimit THEN Len(all) ELSE ListLimit
  <2>1. listed = SubSeq(all, 1, b)
    BY DEF list_messages
  <2>2. b \in Int /\ b <= Len(all)
    BY <1>1, LimitsAssumption
  <2> HIDE DEF all, b
  <2> QED
    BY <1>1, <2>1, <2>2, SubMessages
<1> HIDE DEF listed
<1>3. Messages(ms)
  <2>1. PICK U : listed \in Seq(U) /\ \A m \in U : Fine(m)
    BY <1>2 DEF Messages
  <2> DEFINE S == {m \in Range(listed) : m.by = NoSummary}
  <2>2. ms = Selected(listed, S)
    BY DEF Uncompacted
  <2> HIDE DEF S, ms
  <2>3. ms \in Seq(S \cap U)
    BY <2>1, <2>2, SelectedType
  <2> QED
    BY <2>1, <2>3 DEF Messages
<1> HIDE DEF ms
<1>4. Messages(window)
  <2>1. Len(ms) \in Nat
    BY <1>3, Lengths
  <2>2. CASE Len(ms) <= MaxRecent
    BY <1>3, <2>2 DEF Newest
  <2>3. CASE ~ (Len(ms) <= MaxRecent)
    <3> DEFINE a == Len(ms) - MaxRecent + 1
    <3>1. window = SubSeq(ms, a, Len(ms))
      BY <2>3 DEF Newest
    <3>2. a \in Int /\ Len(ms) \in Int /\ 1 <= a /\ Len(ms) <= Len(ms)
      BY <2>1, <2>3, LimitsAssumption
    <3> HIDE DEF a, window
    <3> QED
      BY <1>3, <3>1, <3>2, SubMessages
  <2> QED
    BY <2>2, <2>3
<1>5. build(v) = repair_tool_result_pairing(window)
  BY DEF build, _all_context_messages, listed, ms
<1> HIDE DEF window
<1> QED
  BY <1>4, <1>5, RepairPairs

----------------------------------------------------------------------------
(* What a request does to its view.                                        *)

\* The rows of messages that are added are new ones, in the transcript.
Unsummed(m) == Fine(m) /\ m.by = NoSummary
MsgsAdded(s, t) ==
    /\ DOMAIN s \subseteq DOMAIN t /\ IsFiniteSet(DOMAIN t) /\ \A i \in DOMAIN s : t[i] = s[i]
    /\ \A i \in DOMAIN t \ DOMAIN s : Unsummed(t[i]) /\ t[i].id = i

LEMMA WithMessage ==
    ASSUME NEW s, NEW t, MsgsAdded(s, t), NEW m, Unsummed(m)
    PROVE  MsgsAdded(s, With(t, m))
<1> DEFINE u == With(t, m)
           k == m.id
<1>1. DOMAIN u = DOMAIN t \cup {k} /\ \A i \in DOMAIN u : u[i] = IF i \in DOMAIN t THEN t[i] ELSE m
  BY DEF With, Inserted
<1> HIDE DEF u
<1>2. IsFiniteSet(DOMAIN u)
  BY <1>1, FS_AddElement DEF MsgsAdded
<1>3. MsgsAdded(s, u)
  BY <1>1, <1>2 DEF MsgsAdded
<1> QED
  BY <1>3 DEF u

\* The view goes on without a summary, or with one that tells what it covers
\* and what the latest one told.
Plain(v, w) ==
    /\ w.sums = v.sums
    /\ \A i \in DOMAIN w.msgs : w.msgs[i].by = IF i \in DOMAIN v.msgs THEN v.msgs[i].by ELSE NoSummary
Noted(w, i) == \E c \in DOMAIN w.cands : i \in w.cands[c].evidence
Covered(w, i, s) ==
    /\ w.msgs[i].by = s /\ i \in w.sums[s].told
    /\ w.msgs[i].role = "preference" /\ w.sums[s].flushed => Noted(w, i)
Summed(v, w, s) ==
    /\ s \notin DOMAIN v.sums /\ DOMAIN w.sums = DOMAIN v.sums \cup {s}
    /\ \A k \in DOMAIN v.sums : w.sums[k] = v.sums[k]
    /\ Told(v, get_latest_summary(v)) \subseteq w.sums[s].told
    /\ DOMAIN w.msgs = DOMAIN v.msgs
    /\ \A i \in DOMAIN w.msgs : w.msgs[i].by = v.msgs[i].by \/ Covered(w, i, s)

Work(v, w) ==
    /\ Good(w) /\ Ext(v, w) /\ \E n \in Nat : BelowV(w, n)
    /\ \A c \in DOMAIN w.cands \ DOMAIN v.cands : Unseen(c, "cands")
    /\ LM(v) => LM(w)
    /\ \/ Plain(v, w) /\ sorder' = sorder
       \/ Summed(v, w, Fresh(sorder)) /\ \E p \in Places(sorder) : sorder' = Placed(sorder, p)

LEMMA MessagesAdded ==
    ASSUME NEW v, Good(v), NEW n \in Nat, BelowV(v, n), NEW t, MsgsAdded(v.msgs, t), sorder' = sorder
    PROVE  Work(v, [v EXCEPT !.msgs = t])
<1> DEFINE w == [v EXCEPT !.msgs = t]
<1>1. w = [msgs |-> t, sums |-> v.sums, cands |-> v.cands, mems |-> v.mems]
  BY OneTable DEF Good
<1> HIDE DEF w
<1>2. w.msgs = t /\ w.sums = v.sums /\ w.cands = v.cands /\ w.mems = v.mems /\ IsTables(w)
  BY <1>1 DEF IsTables
<1>3. /\ IsFiniteSet(DOMAIN t)
      /\ \A i \in DOMAIN t : IF i \in DOMAIN v.msgs THEN t[i] = v.msgs[i] ELSE Unsummed(t[i]) /\ t[i].id = i
  BY DEF MsgsAdded
<1>4. MsgsFine(w)
  BY <1>2, <1>3 DEF Good, MsgsFine, Unsummed
<1>5. Good(w)
  BY <1>2, <1>4 DEF Good, SumsFine, CandsFine, MemsFine
<1>6. Ext(v, w)
  BY <1>2 DEF Ext, MsgsExt, MsgsAdded, Extends, Same
<1>7. Plain(v, w)
  BY <1>2, <1>3 DEF Plain, Unsummed
<1>8. LM(v) => LM(w)
  BY <1>2 DEF LM
<1>9. BelowV(w, n)
  BY <1>2 DEF BelowV
<1>10. Work(v, w)
  BY <1>2, <1>5, <1>6, <1>7, <1>8, <1>9 DEF Work
<1> QED
  BY <1>10 DEF w

LEMMA NothingDone ==
    ASSUME NEW v, Good(v), NEW n \in Nat, BelowV(v, n), sorder' = sorder
    PROVE  Work(v, v)
<1>1. Ext(v, v)
  BY ExtOrder
<1>2. Plain(v, v)
  BY DEF Plain
<1> QED
  BY <1>1, <1>2 DEF Work

LEMMA TaughtWork ==
    ASSUME NEW v, NEW w, NEW ms, Consolidated(v, w, ms), sorder' = sorder
    PROVE  Work(v, w)
<1>1. w.sums = v.sums /\ w.msgs = v.msgs
  BY DEF Consolidated, Taught
<1>2. Plain(v, w)
  BY <1>1 DEF Plain
<1> QED
  BY <1>2 DEF Consolidated, Taught, Work

\* A compaction covers messages by a new summary, after what a turn flushes
\* of them has become candidates.
LEMMA CompactWork ==
    ASSUME NEW v, Good(v), NEW n \in Nat, Below(n), BelowV(v, n), NEW ms, NEW flushed,
           DOMAIN v.sums \subseteq IdsOf(sorder), sorder \in Seq(Row),
           NEW p \in Places(sorder), sorder' = Placed(sorder, p)
    PROVE  Work(v, compact_session(v, ms, flushed))
<1> DEFINE s == Fresh(sorder)
           row == create_context_summary(v, ms, flushed)
           x == _run_pre_compaction_memory_flush(v, ms, flushed)
           sums == With(x.sums, row)
           msgs == mark_messages_compacted(x.msgs, ms, row.id)
           w == compact_session(v, ms, flushed)
<1>1. Taught(v, x) /\ (\E k \in Nat : BelowV(x, k))
      /\ (flushed => \A m \in ms : m.role = "preference" => \E c \in DOMAIN x.cands : m.id \in x.cands[c].evidence)
  <2>1. CASE flushed
    <3>1. IsFiniteSet({}) /\ \A y \in {} : y[1].tool \in {}
      BY FS_EmptySet
    <3>2. Consolidated(v, consolidate(v, ms, {}), ms)
      BY <3>1, ConsolidateTaught
    <3>3. x = consolidate(v, ms, {})
      BY <2>1 DEF _run_pre_compaction_memory_flush
    <3> QED
      BY <3>2, <3>3 DEF Consolidated
  <2>2. CASE ~ flushed
    <3>1. x = v
      BY <2>2 DEF _run_pre_compaction_memory_flush
    <3>2. Taught(v, v)
      BY TaughtOrder
    <3> HIDE DEF x
    <3> QED
      BY <2>2, <3>1, <3>2
  <2> QED
    BY <2>1, <2>2
<1>2. row = [id |-> s, prev |-> get_latest_summary(v), told |-> summarize(v, ms), flushed |-> flushed]
  BY DEF create_context_summary
<1> HIDE DEF row
<1>3. row.id = s /\ row.told = summarize(v, ms) /\ row.flushed = flushed /\ IsSum(row, s)
  BY <1>2 DEF IsSum
<1>4. w = [x EXCEPT !.sums = With(@, row), !.msgs = mark_messages_compacted(@, ms, row.id)]
  BY DEF compact_session, row
<1> HIDE DEF x, s
<1>5. Good(x) /\ Ext(v, x) /\ x.msgs = v.msgs /\ x.sums = v.sums /\ (LM(v) => LM(x))
      /\ \A c \in DOMAIN x.cands \ DOMAIN v.cands : Unseen(c, "cands")
  BY <1>1 DEF Taught
<1>6. w = [msgs |-> msgs, sums |-> sums, cands |-> x.cands, mems |-> x.mems]
  BY <1>4, <1>5, TwoTables DEF Good
<1> HIDE DEF w
<1>7. w.msgs = msgs /\ w.sums = sums /\ w.cands = x.cands /\ w.mems = x.mems /\ IsTables(w)
  BY <1>6 DEF IsTables
<1>8. s \notin DOMAIN v.sums
  <2>1. s \notin IdsOf(sorder)
    <3>1. \A i \in DOMAIN sorder : sorder[i].id < s /\ sorder[i].id \in Nat /\ s \in Nat
      BY FreshAbove, Rowed DEF Above, s
    <3>2. \A i \in DOMAIN sorder : sorder[i].id # s
      BY <3>1
    <3> QED
      BY <3>2 DEF IdsOf
  <2> QED
    BY <2>1
<1>9. HasRow(w.sums, v.sums, s, row)
  BY <1>3, <1>5, <1>7, <1>8, WithRow
<1>10. DOMAIN w.sums = DOMAIN v.sums \cup {s} /\ w.sums[s] = row /\ \A k \in DOMAIN v.sums : w.sums[k] = v.sums[k]
  BY <1>8, <1>9 DEF HasRow
<1>11. msgs = [i \in DOMAIN v.msgs |-> IF v.msgs[i] \in ms THEN [v.msgs[i] EXCEPT !.by = s] ELSE v.msgs[i]]
  BY <1>3, <1>5 DEF mark_messages_compacted
<1> HIDE DEF msgs, sums
<1>12. DOMAIN w.msgs = DOMAIN v.msgs
  BY <1>7, <1>11
<1>13. ASSUME NEW i \in DOMAIN v.msgs
       PROVE  /\ Fine(w.msgs[i]) /\ Same(v.msgs[i], w.msgs[i]) /\ w.msgs[i].id = i
              /\ w.msgs[i].by = v.msgs[i].by \/ Covered(w, i, s)
  <2> DEFINE m == v.msgs[i]   t == w.msgs[i]
  <2>1. Fine(m) /\ m.id = i
    BY DEF Good, MsgsFine
  <2>2. t = IF m \in ms THEN [m EXCEPT !.by = s] ELSE m
    BY <1>7, <1>11
  <2>3. CASE m \notin ms
    BY <2>1, <2>2, <2>3 DEF Same
  <2>4. CASE m \in ms
    <3>1. Fine(t) /\ Same(m, t) /\ t.by = s
      <4> HIDE DEF m, t
      <4>1. m = [id |-> m.id, role |-> m.role, of |-> m.of, run |-> m.run, tool |-> m.tool, ok |-> m.ok, by |-> m.by]
            /\ (m.role = "tool_result" => m.of # NoMessage)
        BY <2>1 DEF Fine
      <4>2. t = [id |-> m.id, role |-> m.role, of |-> m.of, run |-> m.run, tool |-> m.tool, ok |-> m.ok, by |-> s]
        BY <2>2, <2>4, <4>1
      <4> QED
        BY <4>1, <4>2 DEF Fine, Same
    <3>2. i \in row.told
      BY <1>3, <2>1, <2>4 DEF summarize
    <3>3. m.role = "preference" /\ flushed => Noted(w, i)
      BY <1>1, <1>7, <2>1, <2>4 DEF Noted
    <3>4. Covered(w, i, s)
      BY <1>3, <1>10, <3>1, <3>2, <3>3 DEF Covered, Same
    <3> QED
      BY <2>1, <3>1, <3>4 DEF Same
  <2> QED
    BY <2>3, <2>4
<1>14. Summed(v, w, s)
  <2>1. Told(v, get_latest_summary(v)) \subseteq w.sums[s].told
    BY <1>3, <1>10 DEF summarize
  <2> QED
    BY <1>8, <1>10, <1>12, <1>13, <2>1 DEF Summed
<1>15. Good(w)
  <2>1. MsgsFine(w)
    BY <1>12, <1>13 DEF MsgsFine, Good
  <2>2. SumsFine(w)
    BY <1>3, <1>10 DEF SumsFine, Good
  <2>3. CandsFine(w) /\ MemsFine(w)
    BY <1>5, <1>7 DEF Good, CandsFine, MemsFine
  <2> QED
    BY <1>7, <2>1, <2>2, <2>3 DEF Good
<1>16. Ext(v, w)
  <2>1. MsgsExt(v, w)
    BY <1>12, <1>13 DEF MsgsExt
  <2>2. Extends(v.sums, w.sums)
    BY <1>10 DEF Extends
  <2> QED
    BY <1>5, <1>7, <2>1, <2>2 DEF Ext
<1>17. LM(v) => LM(w)
  BY <1>5, <1>7 DEF LM
<1>18. \E k \in Nat : BelowV(w, k)
  BY <1>1, <1>7 DEF BelowV
<1>19. \A c \in DOMAIN w.cands \ DOMAIN v.cands : Unseen(c, "cands")
  BY <1>5, <1>7
<1>20. Work(v, w)
  BY <1>14, <1>15, <1>16, <1>17, <1>18, <1>19 DEF Work, s
<1> QED
  BY <1>20 DEF w

----------------------------------------------------------------------------
(* What a step does.                                                       *)

IsRequest(q) == q = [pc |-> q.pc, op |-> q.op, run |-> q.run, base |-> q.base, view |-> q.view]
RequestFine(q) ==
    /\ IsRequest(q) /\ q.pc \in {"idle", "started", "open", "running"}
    /\ q.pc \in {"idle", "started"} => q.base = Empty /\ q.view = Empty
    /\ Good(q.base) /\ Good(q.view) /\ Ext(q.base, q.view) /\ Ext(q.base, db)

\* What a request has inserted is nobody else's.
NewSums(r) == DOMAIN req[r].view.sums \ DOMAIN req[r].base.sums
NewCands(r) == DOMAIN req[r].view.cands \ DOMAIN req[r].base.cands
Apart(r) ==
    /\ NewSums(r) \cap DOMAIN db.sums = {} /\ NewCands(r) \cap DOMAIN db.cands = {}
    /\ \A q \in Requests \ {r} : /\ NewSums(r) \cap DOMAIN req[q].view.sums = {}
                                 /\ NewCands(r) \cap DOMAIN req[q].view.cands = {}
Known == DOMAIN db.sums \subseteq IdsOf(sorder) /\ \A r \in Requests : DOMAIN req[r].view.sums \subseteq IdsOf(sorder)

\* The inductive invariant.
WellFormed ==
    /\ order \in Seq(Row) /\ sorder \in Seq(Row) /\ clock \in Nat /\ mode \in Modes
    /\ Good(db) /\ req = [r \in Requests |-> req[r]]
    /\ \A r \in Requests : RequestFine(req[r]) /\ Apart(r)
    /\ Known /\ \E n \in Nat : Below(n)

Request(pc, op, run, base, view) == [pc |-> pc, op |-> op, run |-> run, base |-> base, view |-> view]

Opened(r) ==
    /\ \E op, run : req'[r] = Request("open", op, run, db, db)
    /\ req[r].pc \in {"idle", "started"} /\ Alone(r)
    /\ db' = db /\ sorder' = sorder
Worked(r, w) ==
    /\ \E op, run : req'[r] = Request("running", op, run, req[r].base, w)
    /\ req[r].pc = "open" \/ req[r].pc = "running"
    /\ Work(req[r].view, w) /\ db' = db
Committed(r, w) ==
    /\ \E op, run : req'[r] = Request("idle", op, run, Empty, Empty)
    /\ req[r].pc = "open" \/ req[r].pc = "running"
    /\ Work(req[r].view, w) /\ db' = Merged(req[r].base, w)
Ended(r) ==
    /\ \E pc, op, run : /\ req'[r] = Request(pc, op, run, Empty, Empty)
                        /\ (pc = "idle" /\ req[r].pc # "idle") \/ (pc = "started" /\ Alone(r))
    /\ sorder' = sorder \/ sorder' = Own(sorder, r, "sums")
    /\ db' = db \/ \E m : Unsummed(m) /\ db' = [db EXCEPT !.msgs = With(@, m)]
Moved(r) ==
    /\ r \in Requests /\ req' = [q \in Requests |-> req'[q]] /\ \A q \in Requests \ {r} : req'[q] = req[q]
    /\ Opened(r) \/ (\E w : Worked(r, w)) \/ (\E w : Committed(r, w)) \/ Ended(r)
Still == req' = req /\ db' = db /\ sorder' = sorder
Stepped ==
    /\ order' \in Seq(Row) /\ sorder' \in Seq(Row) /\ clock' \in Nat /\ clock <= clock' /\ mode' = mode
    /\ Still \/ \E r \in Requests : Moved(r)

\* Only the request r changes, to x.
Becomes(new, r, x) ==
    new = [q \in Requests |-> new[q]] /\ new[r] = x /\ \A q \in Requests \ {r} : new[q] = req[q]

Changes(r) ==
    LET q == req[r]   Q(pc, view) == Request(pc, q.op, q.run, q.base, view)
    IN  /\ \A x : Becomes([req EXCEPT ![r] = x], r, x)
        /\ \A pc : Becomes([req EXCEPT ![r].pc = pc], r, Q(pc, q.view))
        /\ \A pc, w : Becomes([req EXCEPT ![r].pc = pc, ![r].view = w], r, Q(pc, w))
        /\ \A t : Becomes([req EXCEPT ![r].view.msgs = t], r, Q(q.pc, [q.view EXCEPT !.msgs = t]))

LEMMA RequestChanged ==
    ASSUME req = [q \in Requests |-> req[q]], NEW r \in Requests, IsRequest(req[r]), IsTables(req[r].view)
    PROVE  Changes(r)
<1> DEFINE q == req[r]   Q(pc, view) == Request(pc, q.op, q.run, q.base, view)
<1>1. \A x : Becomes([req EXCEPT ![r] = x], r, x)
  BY DEF Becomes
<1>2. \A pc : Becomes([req EXCEPT ![r].pc = pc], r, Q(pc, q.view))
  BY DEF Becomes, Request, IsRequest
<1>3. \A pc, w : Becomes([req EXCEPT ![r].pc = pc, ![r].view = w], r, Q(pc, w))
  BY DEF Becomes, Request, IsRequest
<1>4. \A t : Becomes([req EXCEPT ![r].view.msgs = t], r, Q(q.pc, [q.view EXCEPT !.msgs = t]))
  BY DEF Becomes, Request, IsRequest
<1> QED
  BY <1>1, <1>2, <1>3, <1>4 DEF Changes

LEMMA MoveTo ==
    ASSUME WellFormed, NEW r \in Requests, NEW x, Becomes(req', r, x),
           order' \in Seq(Row), sorder' \in Seq(Row), clock' = clock, mode' = mode,
           Opened(r) \/ (\E w : Worked(r, w)) \/ (\E w : Committed(r, w)) \/ Ended(r)
    PROVE  Stepped
<1>2. Moved(r)
  BY DEF Moved, Becomes
<1>3. clock' \in Nat /\ clock <= clock'
  BY DEF WellFormed
<1> QED
  BY <1>2, <1>3 DEF Stepped

\* Rows placed one after the other.
LEMMA PlacedTwice ==
    ASSUME NEW o \in Seq(Row), clock \in Nat, NEW p \in Places(o), NEW q \in Places(Placed(o, p))
    PROVE  Placed(o, p) \in Seq(Row) /\ Placed(Placed(o, p), q) \in Seq(Row)
<1>1. Placed(o, p) \in Seq(Row)
  BY PlacedRows DEF PlacedAt
<1> QED
  BY <1>1, PlacedRows DEF PlacedAt

\* A message is a row of the transcript.
LEMMA NewMessage ==
    ASSUME NEW i, NEW role, NEW of, NEW run, NEW tool, NEW ok, role = "tool_result" => of # NoMessage
    PROVE  Unsummed(Message(i, role, of, run, tool, ok)) /\ Message(i, role, of, run, tool, ok).id = i
<1> DEFINE m == Message(i, role, of, run, tool, ok)
<1>1. m = [id |-> i, role |-> role, of |-> of, run |-> run, tool |-> tool, ok |-> ok, by |-> NoSummary]
  BY DEF Message
<1> HIDE DEF m
<1>2. Unsummed(m) /\ m.id = i
  BY <1>1 DEF Unsummed, Fine
<1> QED
  BY <1>2 DEF m

LEMMA NewCall ==
    ASSUME NEW i, NEW of, NEW run, NEW tool
    PROVE  Unsummed(Message(i, "tool_call", of, run, tool, TRUE)) /\ Message(i, "tool_call", of, run, tool, TRUE).id = i
<1>1. "tool_call" # "tool_result"
  OBVIOUS
<1> DEFINE role == "tool_call"   yes == TRUE
<1>2. role = "tool_result" => of # NoMessage
  BY <1>1
<1> HIDE DEF role, yes
<1>3. Unsummed(Message(i, role, of, run, tool, yes)) /\ Message(i, role, of, run, tool, yes).id = i
  BY <1>2, NewMessage
<1> QED
  BY <1>3 DEF role, yes

LEMMA NewText ==
    ASSUME NEW i, NEW role, NEW of, NEW run, role # "tool_result"
    PROVE  Unsummed(Text(i, role, of, run))
  BY NewMessage DEF Text

LEMMA IdleRequest ==
    /\ Idle = Request("idle", "none", 0, Empty, Empty)
    /\ \A run : [Idle EXCEPT !.pc = "started", !.op = "stream", !.run = run] = Request("started", "stream", run, Empty, Empty)
<1>1. Idle = Request("idle", "none", 0, Empty, Empty)
  BY DEF Idle, Request
<1>2. ASSUME NEW run
      PROVE  [Idle EXCEPT !.pc = "started", !.op = "stream", !.run = run] = Request("started", "stream", run, Empty, Empty)
  <2> DEFINE a == [pc |-> "started", op |-> "none", run |-> 0, base |-> Empty, view |-> Empty]
             b == [pc |-> "started", op |-> "stream", run |-> 0, base |-> Empty, view |-> Empty]
             c == [pc |-> "started", op |-> "stream", run |-> run, base |-> Empty, view |-> Empty]
             i1 == [Idle EXCEPT !.pc = "started"]
             i2 == [i1 EXCEPT !.op = "stream"]
             i3 == [i2 EXCEPT !.run = run]
  <2>1. i1 = a
    BY DEF Idle
  <2> HIDE DEF i1
  <2>2. i2 = b
    BY <2>1
  <2> HIDE DEF i2
  <2>3. i3 = c
    BY <2>2
  <2>4. c = Request("started", "stream", run, Empty, Empty)
    BY DEF Request
  <2>5. [Idle EXCEPT !.pc = "started", !.op = "stream", !.run = run] = i3
    BY Zenon DEF i1, i2
  <2> HIDE DEF i3, c
  <2> QED
    BY <2>3, <2>4, <2>5
<1> QED
  BY <1>1, <1>2

\* What every step may rely on.
LEMMA Relied ==
    ASSUME WellFormed, NEW r \in Requests
    PROVE  /\ Changes(r) /\ RequestFine(req[r]) /\ IsRequest(req[r]) /\ Good(req[r].view) /\ Good(db) /\ clock \in Nat
           /\ order \in Seq(Row) /\ sorder \in Seq(Row) /\ DOMAIN req[r].view.sums \subseteq IdsOf(sorder)
           /\ \E n \in Nat : Below(n) /\ BelowV(req[r].view, n)
<1>1. RequestFine(req[r]) /\ IsRequest(req[r]) /\ Good(req[r].view)
  BY DEF WellFormed, RequestFine
<1>2. Changes(r)
  BY <1>1, RequestChanged DEF WellFormed, Good
<1>3. \E n \in Nat : Below(n) /\ BelowV(req[r].view, n)
  BY DEF WellFormed, Below
<1> QED
  BY <1>1, <1>2, <1>3 DEF WellFormed, Known

LEMMA StreamStartedSteps ==
    ASSUME WellFormed, NEW r \in Requests, NEW role \in {"user", "preference"}, StreamStarted(r, role)
    PROVE  Stepped
<1> DEFINE m == Text(Fresh(order), role, NoMessage, turns')
           x == [Idle EXCEPT !.pc = "started", !.op = "stream", !.run = turns']
<1>1. x = Request("started", "stream", turns', Empty, Empty)
  BY IdleRequest
<1>2. Unsummed(m)
  BY NewText
<1> HIDE DEF m, x
<1>3. req' = [req EXCEPT ![r] = x] /\ db' = [db EXCEPT !.msgs = With(@, m)] /\ Alone(r) /\ sorder' = sorder
      /\ clock' = clock /\ mode' = mode /\ \E p \in Places(order) : order' = Placed(order, p)
  BY DEF StreamStarted, m, x
<1>4. Becomes(req', r, x)
  BY <1>3, Relied DEF Changes
<1>5. Ended(r)
  BY <1>1, <1>2, <1>3, <1>4 DEF Ended, Becomes
<1>6. order' \in Seq(Row)
  BY <1>3, PlacedRows DEF PlacedAt, WellFormed
<1> QED
  BY <1>3, <1>4, <1>5, <1>6, MoveTo DEF WellFormed

LEMMA OpenSteps ==
    ASSUME WellFormed, NEW r \in Requests, NEW op, Open(r, op)
    PROVE  Stepped
<1> DEFINE run == IF op = "turn" THEN turns' ELSE req[r].run
           x == [pc |-> "open", op |-> op, base |-> db, view |-> db, run |-> run]
<1>1. x = Request("open", op, run, db, db)
  BY DEF Request
<1>2. req[r].pc \in {"idle", "started"} /\ Alone(r) /\ db' = db /\ sorder' = sorder /\ order' = order
      /\ clock' = clock /\ mode' = mode
  BY DEF Open
<1>3. req' = [req EXCEPT ![r] = x]
  BY DEF Open
<1> HIDE DEF x, run
<1>4. Becomes(req', r, x)
  BY <1>3, Relied DEF Changes
<1>5. Opened(r)
  BY <1>1, <1>2, <1>4 DEF Opened, Becomes
<1> QED
  BY <1>2, <1>4, <1>5, MoveTo DEF WellFormed

LEMMA BuildSteps ==
    ASSUME WellFormed, NEW r \in Requests, _build_context_node(r)
    PROVE  Stepped
<1> DEFINE v == req[r].view
           ms == messages_to_summarize(v, Keep)
           w(f) == compact_session(v, ms, f)
<1>1. PICK n \in Nat : Below(n) /\ BelowV(v, n)
  BY Relied
<1>2. req[r].pc = "open" /\ db' = db /\ order' = order /\ clock' = clock /\ mode' = mode
  BY DEF _build_context_node
<1>3. Good(v) /\ sorder \in Seq(Row) /\ DOMAIN v.sums \subseteq IdsOf(sorder) /\ Changes(r) /\ clock \in Nat
  BY Relied
<1> HIDE DEF ms, w, v
<1>4. \/ req' = [req EXCEPT ![r].pc = "running"] /\ sorder' = sorder
      \/ /\ \E f \in BOOLEAN : req' = [req EXCEPT ![r].pc = "running", ![r].view = w(f)]
         /\ \E p \in Places(sorder) : sorder' = Placed(sorder, p)
  BY DEF _build_context_node, ms, w, v
<1>5. CASE req' = [req EXCEPT ![r].pc = "running"] /\ sorder' = sorder
  <2> DEFINE x == Request("running", req[r].op, req[r].run, req[r].base, v)
  <2>1. Becomes(req', r, x)
    BY <1>3, <1>5 DEF Changes, v
  <2>2. Work(v, v)
    BY <1>1, <1>3, <1>5, NothingDone
  <2>3. Worked(r, v)
    BY <1>2, <2>1, <2>2 DEF Worked, Becomes, v
  <2> QED
    BY <1>2, <1>5, <2>1, <2>3, MoveTo DEF WellFormed
<1>6. CASE /\ \E f \in BOOLEAN : req' = [req EXCEPT ![r].pc = "running", ![r].view = w(f)]
           /\ \E p \in Places(sorder) : sorder' = Placed(sorder, p)
  <2>0. PICK f \in BOOLEAN : req' = [req EXCEPT ![r].pc = "running", ![r].view = w(f)]
    BY <1>6
  <2> DEFINE x == Request("running", req[r].op, req[r].run, req[r].base, w(f))
  <2>1. PICK p \in Places(sorder) : sorder' = Placed(sorder, p)
    BY <1>6
  <2>2. Becomes(req', r, x)
    BY <1>3, <2>0 DEF Changes
  <2>3. Work(v, w(f))
    BY <1>1, <1>3, <2>1, CompactWork DEF w
  <2>4. Worked(r, w(f))
    BY <1>2, <2>2, <2>3 DEF Worked, Becomes, v
  <2>5. sorder' \in Seq(Row)
    BY <1>3, <2>1, PlacedRows DEF PlacedAt
  <2> QED
    BY <1>2, <2>2, <2>4, <2>5, MoveTo DEF WellFormed
<1> QED
  BY <1>4, <1>5, <1>6

\* The table of messages with two more.
LEMMA TwoMessages ==
    ASSUME NEW v, Good(v), NEW a, NEW b, Unsummed(a), Unsummed(b)
    PROVE  MsgsAdded(v.msgs, With(v.msgs, a)) /\ MsgsAdded(v.msgs, With(With(v.msgs, a), b))
<1>1. MsgsAdded(v.msgs, v.msgs)
  BY DEF MsgsAdded, Good, MsgsFine
<1>2. MsgsAdded(v.msgs, With(v.msgs, a))
  BY <1>1, WithMessage
<1> QED
  BY <1>2, WithMessage

LEMMA AppendSteps ==
    ASSUME WellFormed, NEW r \in Requests, NEW tool, NEW ok, _append_tool_pair_messages(r, tool, ok)
    PROVE  Stepped
<1> DEFINE v == req[r].view
           call == Message(Fresh(order), "tool_call", NoMessage, req[r].run, tool, TRUE)
           result == Message(call.id + 1, "tool_result", call.id, req[r].run, tool, ok)
           t == With(With(v.msgs, call), result)
           w == [v EXCEPT !.msgs = t]
           x == Request(req[r].pc, req[r].op, req[r].run, req[r].base, w)
<1>1. PICK n \in Nat : Below(n) /\ BelowV(v, n)
  BY Relied
<1>2. Good(v) /\ order \in Seq(Row) /\ clock \in Nat /\ Changes(r)
  BY Relied
<1>3. Unsummed(call) /\ call.id = Fresh(order)
  BY NewCall
<1>4. call.id # NoMessage
  BY <1>2, <1>3, FreshAbove DEF Above, NoMessage
<1> HIDE DEF call
<1>5. Unsummed(result)
  BY <1>4, NewMessage
<1> HIDE DEF result
<1>6. req[r].pc = "running" /\ db' = db /\ sorder' = sorder /\ clock' = clock /\ mode' = mode
      /\ req' = [req EXCEPT ![r].view.msgs = t]
      /\ \E p \in Places(order) : \E q \in Places(Placed(order, p)) : order' = Placed(Placed(order, p), q)
  BY DEF _append_tool_pair_messages, call, result
<1>7. MsgsAdded(v.msgs, t)
  BY <1>2, <1>3, <1>5, TwoMessages
<1> HIDE DEF t
<1>8. Work(v, w)
  BY <1>1, <1>2, <1>6, <1>7, MessagesAdded
<1>9. Becomes(req', r, x)
  BY <1>2, <1>6 DEF Changes
<1> HIDE DEF w
<1>10. Worked(r, w)
  BY <1>6, <1>8, <1>9 DEF Worked, Becomes
<1>11. order' \in Seq(Row)
  BY <1>2, <1>6, PlacedTwice
<1> HIDE DEF x
<1> QED
  BY <1>6, <1>9, <1>10, <1>11, MoveTo DEF WellFormed

LEMMA FinishSteps ==
    ASSUME WellFormed, NEW r \in Requests, NEW role \in {"user", "preference"}, FinishTurn(r, role)
    PROVE  Stepped
<1> DEFINE v == req[r].view
           i == Fresh(order)
           run == req[r].run
           streamed == req[r].op = "stream"
           a == Text(i, "assistant", NoMessage, run)
           b == Text(i, role, NoMessage, run)
           c == Text(i + 1, "assistant", i, run)
           t == IF streamed THEN With(v.msgs, a) ELSE With(With(v.msgs, b), c)
           w == [v EXCEPT !.msgs = t]
<1>1. PICK n \in Nat : Below(n) /\ BelowV(v, n)
  BY Relied
<1>2. Good(v) /\ order \in Seq(Row) /\ clock \in Nat /\ Changes(r)
  BY Relied
<1>3. Unsummed(a) /\ Unsummed(b) /\ Unsummed(c)
  BY NewText
<1>4. /\ req[r].pc = "running" /\ db' = Merged(req[r].base, w) /\ sorder' = sorder /\ clock' = clock /\ mode' = mode
      /\ req' = [req EXCEPT ![r] = Idle]
  BY DEF FinishTurn
<1>5. \E p \in Places(order) : \/ order' = Placed(order, p)
                               \/ \E q \in Places(Placed(order, p)) : order' = Placed(Placed(order, p), q)
  BY DEF FinishTurn
<1> HIDE DEF a, b, c
<1>6. MsgsAdded(v.msgs, t)
  BY <1>2, <1>3, TwoMessages
<1> HIDE DEF t
<1>7. Work(v, w)
  BY <1>1, <1>2, <1>4, <1>6, MessagesAdded
<1> HIDE DEF w
<1>8. Becomes(req', r, Idle)
  BY <1>2, <1>4 DEF Changes
<1>9. Committed(r, w)
  BY <1>4, <1>7, <1>8, IdleRequest DEF Committed, Becomes
<1>10. order' \in Seq(Row)
  <2>1. PICK p \in Places(order) : \/ order' = Placed(order, p)
                                  \/ \E q \in Places(Placed(order, p)) : order' = Placed(Placed(order, p), q)
    BY <1>5
  <2>2. Placed(order, p) \in Seq(Row)
    BY <1>2, PlacedRows DEF PlacedAt
  <2>3. \A q \in Places(Placed(order, p)) : Placed(Placed(order, p), q) \in Seq(Row)
    BY <1>2, PlacedTwice
  <2> QED
    BY <2>1, <2>2, <2>3
<1> QED
  BY <1>4, <1>8, <1>9, <1>10, MoveTo DEF WellFormed

LEMMA CompactSteps ==
    ASSUME WellFormed, NEW r \in Requests, NEW keep, compact_agent_session(r, keep)
    PROVE  Stepped
<1> DEFINE v == req[r].view
           ms == messages_to_summarize(v, keep)
           w == compact_session(v, ms, FALSE)
<1>1. PICK n \in Nat : Below(n) /\ BelowV(v, n)
  BY Relied
<1>2. Good(v) /\ sorder \in Seq(Row) /\ DOMAIN v.sums \subseteq IdsOf(sorder) /\ Changes(r) /\ clock \in Nat
      /\ order \in Seq(Row)
  BY Relied
<1> HIDE DEF ms, w
<1>3. /\ req[r].pc = "open" /\ order' = order /\ clock' = clock /\ mode' = mode
      /\ req' = [req EXCEPT ![r] = Idle]
      /\ \/ db' = db /\ sorder' = sorder
         \/ /\ db' = Merged(req[r].base, w)
            /\ \E p \in Places(sorder) : sorder' = Placed(sorder, p)
  BY DEF compact_agent_session, ms, w
<1>4. Becomes(req', r, Idle)
  BY <1>2, <1>3 DEF Changes
<1>5. CASE db' = db /\ sorder' = sorder
  <2>1. Ended(r)
    BY <1>3, <1>4, <1>5, IdleRequest DEF Ended, Becomes
  <2> QED
    BY <1>2, <1>3, <1>4, <1>5, <2>1, MoveTo
<1>6. CASE /\ db' = Merged(req[r].base, w)
           /\ \E p \in Places(sorder) : sorder' = Placed(sorder, p)
  <2>1. PICK p \in Places(sorder) : sorder' = Placed(sorder, p)
    BY <1>6
  <2>2. Work(v, w)
    BY <1>1, <1>2, <2>1, CompactWork DEF w
  <2>3. Committed(r, w)
    BY <1>3, <1>4, <1>6, <2>2, IdleRequest DEF Committed, Becomes
  <2>4. sorder' \in Seq(Row)
    BY <1>2, <2>1, PlacedRows DEF PlacedAt
  <2> QED
    BY <1>2, <1>3, <1>4, <2>3, <2>4, MoveTo
<1> QED
  BY <1>3, <1>5, <1>6

LEMMA ConsolidateSteps ==
    ASSUME WellFormed, NEW r \in Requests, NEW run, consolidate_agent_memory(r, run)
    PROVE  Stepped
<1> DEFINE v == req[r].view
           ms == Range(v.msgs)
<1>1. PICK n \in Nat : Below(n) /\ BelowV(v, n)
  BY Relied
<1>2. Good(v) /\ sorder \in Seq(Row) /\ order \in Seq(Row) /\ Changes(r)
  BY Relied
<1>3. /\ req[r].pc = "open" /\ order' = order /\ sorder' = sorder /\ clock' = clock /\ mode' = mode
      /\ req' = [req EXCEPT ![r] = Idle]
  BY DEF consolidate_agent_memory
<1>4. PICK pairs \in SUBSET _find_later_recovery(v, run) : db' = Merged(req[r].base, consolidate(v, ms, pairs))
  BY DEF consolidate_agent_memory
<1>5. PICK tools : IsFiniteSet(tools) /\ \A p \in pairs : p[1].tool \in tools
  BY <1>2, ToolsOfLogs
<1> DEFINE w == consolidate(v, ms, pairs)
<1>6. Consolidated(v, w, ms)
  BY <1>1, <1>2, <1>5, ConsolidateTaught
<1> HIDE DEF w
<1>7. Work(v, w)
  BY <1>3, <1>6, TaughtWork
<1>8. Becomes(req', r, Idle)
  BY <1>2, <1>3 DEF Changes
<1>9. Committed(r, w)
  BY <1>3, <1>4, <1>7, <1>8, IdleRequest DEF Committed, Becomes, w
<1> QED
  BY <1>2, <1>3, <1>8, <1>9, MoveTo

LEMMA EndSteps ==
    ASSUME WellFormed, NEW r \in Requests, Die(r) \/ _emit_stream_failure_terminal(r)
    PROVE  Stepped
<1> DEFINE o == Own(order, r, "msgs")
           m == Text(Fresh(o), "assistant", NoMessage, req[r].run)
<1>1. Changes(r) /\ sorder \in Seq(Row) /\ order \in Seq(Row) /\ clock \in Nat
  BY Relied
<1>2. o \in Seq(Row) /\ Own(sorder, r, "sums") \in Seq(Row)
  BY <1>1, OwnRows
<1>3. Unsummed(m)
  BY NewText
<1> HIDE DEF o, m
<1>4. /\ sorder' = Own(sorder, r, "sums") /\ req' = [req EXCEPT ![r] = Idle] /\ clock' = clock /\ mode' = mode
      /\ order' = o \/ \E p \in Places(o) : order' = Placed(o, p)
      /\ db' = db \/ db' = [db EXCEPT !.msgs = With(@, m)]
      /\ req[r].pc # "idle"
  BY DEF Die, _emit_stream_failure_terminal, RolledBack, o, m
<1>5. Becomes(req', r, Idle)
  BY <1>1, <1>4 DEF Changes
<1>6. Ended(r)
  BY <1>3, <1>4, <1>5, IdleRequest DEF Ended, Becomes
<1>7. order' \in Seq(Row)
  BY <1>1, <1>2, <1>4, PlacedRows DEF PlacedAt
<1> QED
  BY <1>2, <1>4, <1>5, <1>6, <1>7, MoveTo

LEMMA EveryStep ==
    ASSUME WellFormed, [Next]_vars
    PROVE  Stepped
<1>1. order \in Seq(Row) /\ sorder \in Seq(Row) /\ clock \in Nat
  BY DEF WellFormed
<1>2. CASE UNCHANGED vars
  BY <1>1, <1>2 DEF vars, Stepped, Still
<1>3. CASE Tick
  BY <1>1, <1>3 DEF Tick, Stepped, Still
<1>4. CASE \E r \in Requests :
             \/ \E role \in {"user", "preference"} : StreamStarted(r, role) \/ FinishTurn(r, role)
             \/ \E op \in {"turn", "stream", "compact", "consolidate"} : Open(r, op)
             \/ _build_context_node(r)
             \/ \E tool \in Tools, ok \in BOOLEAN : _append_tool_pair_messages(r, tool, ok)
             \/ \E keep \in Keeps : compact_agent_session(r, keep)
             \/ \E run \in 1 .. turns : consolidate_agent_memory(r, run)
             \/ Die(r)
             \/ _emit_stream_failure_terminal(r)
  BY <1>4, StreamStartedSteps, OpenSteps, BuildSteps, AppendSteps, FinishSteps, CompactSteps,
     ConsolidateSteps, EndSteps
<1> QED
  BY <1>2, <1>3, <1>4 DEF Next

----------------------------------------------------------------------------
(* The tables stay well formed.                                            *)

\* The ids of what a request has done are new, and in the order of the rows.
NewIds(v, w) ==
    /\ \A k \in DOMAIN w.sums \ DOMAIN v.sums : k \notin IdsOf(sorder)
    /\ DOMAIN w.sums \subseteq IdsOf(sorder') /\ IdsOf(sorder) \subseteq IdsOf(sorder')

LEMMA WorkIds ==
    ASSUME WellFormed, NEW v, NEW w, Work(v, w), DOMAIN v.sums \subseteq IdsOf(sorder)
    PROVE  NewIds(v, w)
<1>1. CASE Plain(v, w) /\ sorder' = sorder
  BY <1>1 DEF Plain, NewIds
<1>2. CASE Summed(v, w, Fresh(sorder)) /\ \E p \in Places(sorder) : sorder' = Placed(sorder, p)
  <2> DEFINE s == Fresh(sorder)
  <2>1. s \notin IdsOf(sorder)
    <3>1. sorder \in Seq(Row)
      BY DEF WellFormed
    <3>2. \A i \in DOMAIN sorder : sorder[i].id < s /\ sorder[i].id \in Nat /\ s \in Nat
      BY <3>1, FreshAbove, Rowed DEF Above
    <3> HIDE DEF s
    <3>3. \A i \in DOMAIN sorder : sorder[i].id # s
      BY <3>2
    <3> QED
      BY <3>3 DEF IdsOf
  <2>2. IdsOf(sorder') = IdsOf(sorder) \cup {s}
    <3>1. PICK p \in Places(sorder) : sorder' = Placed(sorder, p)
      BY <1>2
    <3> QED
      BY <3>1, PlacedRows DEF PlacedAt, WellFormed
  <2>3. DOMAIN w.sums = DOMAIN v.sums \cup {s}
    BY <1>2 DEF Summed
  <2> HIDE DEF s
  <2> QED
    BY <2>1, <2>2, <2>3 DEF NewIds
<1> QED
  BY <1>1, <1>2 DEF Work

\* What every kind of step leaves as it was, for all requests but r.
Kept(r) ==
    /\ \A q \in Requests \ {r} : req'[q] = req[q] /\ RequestFine(req[q])' /\ Apart(q)'
    /\ RequestFine(req[r])' /\ Apart(r)'
    /\ Good(db)' /\ Known' /\ (\E n \in Nat : Below(n))'

LEMMA KeptWellFormed ==
    ASSUME WellFormed, NEW r \in Requests, Kept(r), req' = [q \in Requests |-> req'[q]],
           order' \in Seq(Row), sorder' \in Seq(Row), clock' \in Nat, mode' = mode
    PROVE  WellFormed'
<1>1. \A q \in Requests : RequestFine(req[q])' /\ Apart(q)'
  BY DEF Kept
<1> QED
  BY <1>1 DEF WellFormed, Kept

LEMMA FineLater ==
    ASSUME WellFormed, NEW q \in Requests, req'[q] = req[q], Ext(db, db')
    PROVE  RequestFine(req[q])'
<1>1. RequestFine(req[q])
  BY DEF WellFormed
<1>2. Ext(req[q].base, db')
  BY <1>1, ExtOrder DEF RequestFine
<1> QED
  BY <1>1, <1>2 DEF RequestFine

LEMMA FineRequest ==
    ASSUME NEW pc \in {"idle", "started", "open", "running"}, NEW op, NEW run, NEW base, NEW view,
           pc \in {"idle", "started"} => base = Empty /\ view = Empty,
           Good(base), Good(view), Ext(base, view), Ext(base, db')
    PROVE  LET q == Request(pc, op, run, base, view)
           IN  /\ q.pc = pc /\ q.base = base /\ q.view = view
               /\ \A r : req'[r] = q => RequestFine(req[r])'
<1> DEFINE q == Request(pc, op, run, base, view)
<1>1. q = [pc |-> pc, op |-> op, run |-> run, base |-> base, view |-> view]
  BY DEF Request
<1> HIDE DEF q
<1>2. q.pc = pc /\ q.base = base /\ q.view = view /\ q = [pc |-> q.pc, op |-> q.op, run |-> q.run, base |-> q.base, view |-> q.view]
  BY <1>1
<1>3. \A r : req'[r] = q => RequestFine(req[r])'
  BY <1>2 DEF RequestFine, IsRequest
<1> QED
  BY <1>2, <1>3 DEF q

LEMMA EmptyTables ==
    /\ DOMAIN Empty.msgs = {} /\ DOMAIN Empty.sums = {} /\ DOMAIN Empty.cands = {} /\ DOMAIN Empty.mems = {}
    /\ \A v : Good(v) => Ext(Empty, v)
<1>1. DOMAIN <<>> = {}
  OBVIOUS
<1>2. DOMAIN Empty.msgs = {} /\ DOMAIN Empty.sums = {} /\ DOMAIN Empty.cands = {} /\ DOMAIN Empty.mems = {}
  BY <1>1 DEF Empty
<1> QED
  BY <1>2 DEF Ext, MsgsExt, Extends

LEMMA OpenedKept ==
    ASSUME WellFormed, NEW r \in Requests, Opened(r), \A q \in Requests \ {r} : req'[q] = req[q]
    PROVE  Kept(r)
<1>1. PICK op, run : req'[r] = Request("open", op, run, db, db)
  BY DEF Opened
<1>2. Good(db) /\ Ext(db, db) /\ db' = db /\ sorder' = sorder
  BY ExtOrder DEF WellFormed, Opened
<1>3. RequestFine(req[r])' /\ req'[r].base = db /\ req'[r].view = db
  BY <1>1, <1>2, FineRequest
<1>4. \A q \in Requests \ {r} : RequestFine(req[q])'
  BY <1>2, FineLater
<1>5. Apart(r)'
  BY <1>2, <1>3 DEF Apart, NewSums, NewCands
<1>6. ASSUME NEW q \in Requests \ {r}
      PROVE  Apart(q)'
  <2>1. Apart(q)
    BY DEF WellFormed
  <2>2. NewSums(q)' = NewSums(q) /\ NewCands(q)' = NewCands(q)
    BY DEF NewSums, NewCands
  <2>3. ASSUME NEW p \in Requests \ {q}
        PROVE  NewSums(q) \cap DOMAIN req'[p].view.sums = {} /\ NewCands(q) \cap DOMAIN req'[p].view.cands = {}
    <3>1. CASE p = r
      BY <1>3, <2>1, <3>1 DEF Apart
    <3>2. CASE p # r
      BY <2>1, <3>2 DEF Apart
    <3> QED
      BY <3>1, <3>2
  <2> QED
    BY <1>2, <2>1, <2>2, <2>3 DEF Apart
<1>7. Known'
  <2>1. \A q \in Requests : DOMAIN req'[q].view.sums \subseteq IdsOf(sorder)
    <3> TAKE q \in Requests
    <3>1. CASE q = r
      BY <1>3, <3>1 DEF WellFormed, Known
    <3>2. CASE q # r
      BY <3>2 DEF WellFormed, Known
    <3> QED
      BY <3>1, <3>2
  <2> QED
    BY <1>2, <2>1 DEF WellFormed, Known
<1>8. (\E n \in Nat : Below(n))'
  <2>1. PICK n \in Nat : Below(n)
    BY DEF WellFormed
  <2>2. \A q \in Requests : BelowV(req'[q].view, n)
    <3> TAKE q \in Requests
    <3>1. CASE q = r
      BY <1>3, <2>1, <3>1 DEF Below
    <3>2. CASE q # r
      BY <2>1, <3>2 DEF Below
    <3> QED
      BY <3>1, <3>2
  <2>3. BelowV(db', n)
    BY <1>2, <2>1 DEF Below
  <2>4. Below(n)'
    BY <2>2, <2>3 DEF Below, BelowV
  <2> QED
    BY <2>4
<1> QED
  BY <1>2, <1>3, <1>4, <1>5, <1>6, <1>7, <1>8 DEF Kept

\* The part of Kept that is about the other requests.
Avoids(r) ==
    \A q \in Requests \ {r} :
        /\ NewSums(q) \cap DOMAIN db'.sums = {} /\ NewCands(q) \cap DOMAIN db'.cands = {}
        /\ NewSums(q) \cap DOMAIN req'[r].view.sums = {} /\ NewCands(q) \cap DOMAIN req'[r].view.cands = {}
        /\ DOMAIN req[q].view.sums \subseteq IdsOf(sorder')

LEMMA KeptFrom ==
    ASSUME WellFormed, NEW r \in Requests, \A q \in Requests \ {r} : req'[q] = req[q],
           Good(db'), Ext(db, db'), RequestFine(req[r])', Apart(r)', Avoids(r),
           DOMAIN db'.sums \subseteq IdsOf(sorder'), DOMAIN req'[r].view.sums \subseteq IdsOf(sorder'),
           NEW k \in Nat, BelowV(db', k), BelowV(req'[r].view, k)
    PROVE  Kept(r)
<1>1. \A q \in Requests \ {r} : RequestFine(req[q])'
  BY FineLater
<1>2. ASSUME NEW q \in Requests \ {r}
      PROVE  Apart(q)'
  <2>1. Apart(q)
    BY DEF WellFormed
  <2>2. NewSums(q)' = NewSums(q) /\ NewCands(q)' = NewCands(q)
    BY DEF NewSums, NewCands
  <2>3. /\ NewSums(q) \cap DOMAIN db'.sums = {} /\ NewCands(q) \cap DOMAIN db'.cands = {}
        /\ NewSums(q) \cap DOMAIN req'[r].view.sums = {} /\ NewCands(q) \cap DOMAIN req'[r].view.cands = {}
    BY DEF Avoids
  <2>4. ASSUME NEW p \in Requests \ {q}
        PROVE  NewSums(q) \cap DOMAIN req'[p].view.sums = {} /\ NewCands(q) \cap DOMAIN req'[p].view.cands = {}
    <3>1. CASE p = r
      BY <2>3, <3>1
    <3>2. CASE p # r
      BY <2>1, <3>2 DEF Apart
    <3> QED
      BY <3>1, <3>2
  <2> QED
    BY <2>2, <2>3, <2>4 DEF Apart
<1>3. Known'
  <2>1. \A q \in Requests : DOMAIN req'[q].view.sums \subseteq IdsOf(sorder')
    <3> TAKE q \in Requests
    <3>1. CASE q = r
      BY <3>1
    <3>2. CASE q # r
      BY <3>2 DEF Avoids
    <3> QED
      BY <3>1, <3>2
  <2>2. (IdsOf(sorder))' = IdsOf(sorder')
    BY DEF IdsOf
  <2> QED
    BY <2>1, <2>2 DEF Known
<1>4. (\E n \in Nat : Below(n))'
  <2>1. PICK n \in Nat : Below(n)
    BY DEF WellFormed
  <2> DEFINE m == n + k
  <2>a. m \in Nat /\ n <= m /\ k <= m
    OBVIOUS
  <2> HIDE DEF m
  <2>b. \A v : BelowV(v, n) \/ BelowV(v, k) => BelowV(v, m)
    <3>1. 0 .. n \subseteq 0 .. m /\ 0 .. k \subseteq 0 .. m
      BY <2>a
    <3> QED
      BY <3>1 DEF BelowV
  <2>2. \A q \in Requests : BelowV(req'[q].view, m)
    <3> TAKE q \in Requests
    <3>1. CASE q = r
      BY <2>b, <3>1
    <3>2. CASE q # r
      BY <2>1, <2>b, <3>2 DEF Below
    <3> QED
      BY <3>1, <3>2
  <2>3. BelowV(db', m)
    BY <2>b
  <2>4. Below(m)'
    BY <2>2, <2>3 DEF Below, BelowV
  <2> QED
    BY <2>a, <2>4
<1>5. Good(db)'
  BY DEF Good, IsTables, MsgsFine, SumsFine, CandsFine, MemsFine
<1> QED
  BY <1>1, <1>2, <1>3, <1>4, <1>5 DEF Kept

LEMMA WorkedKept ==
    ASSUME WellFormed, NEW r \in Requests, NEW w, Worked(r, w), \A q \in Requests \ {r} : req'[q] = req[q]
    PROVE  Kept(r)
<1> DEFINE v == req[r].view   b == req[r].base
<1>1. PICK op, run : req'[r] = Request("running", op, run, b, w)
  BY DEF Worked
<1>2. Work(v, w) /\ db' = db /\ Good(w) /\ Ext(v, w)
  BY DEF Worked, Work
<1>3. Good(b) /\ Ext(b, v) /\ Ext(b, db) /\ Good(db) /\ Ext(db, db') /\ Good(db') /\ Apart(r) /\ Known
  BY <1>2, ExtOrder DEF WellFormed, RequestFine
<1>4. Ext(b, w) /\ Ext(b, db')
  BY <1>2, <1>3, ExtOrder
<1> DEFINE pc == "running"
<1>a. pc \in {"idle", "started", "open", "running"} /\ ~ (pc \in {"idle", "started"})
  OBVIOUS
<1>b. req'[r] = Request(pc, op, run, b, w)
  BY <1>1
<1> HIDE DEF pc
<1>5. RequestFine(req[r])' /\ req'[r].base = b /\ req'[r].view = w
  BY <1>2, <1>3, <1>4, <1>a, <1>b, FineRequest
<1>6. DOMAIN v.sums \subseteq IdsOf(sorder) /\ NewIds(v, w)
  BY <1>2, <1>3, WorkIds DEF Known
<1>7. \A c \in DOMAIN w.cands \ DOMAIN v.cands : Unseen(c, "cands")
  BY <1>2 DEF Work
<1>8. \A c \in DOMAIN w.cands \ DOMAIN v.cands : c \notin DOMAIN db.cands /\ \A q \in Requests : c \notin DOMAIN req[q].view.cands
  <2> SUFFICES ASSUME NEW c \in DOMAIN w.cands \ DOMAIN v.cands
               PROVE  c \notin DOMAIN db.cands /\ \A q \in Requests : c \notin DOMAIN req[q].view.cands
    OBVIOUS
  <2>1. c \notin DOMAIN db["cands"] /\ \A q \in Requests : c \notin DOMAIN req[q].view["cands"]
    BY <1>7 DEF Unseen
  <2> QED
    BY <2>1
<1>9. NewSums(r)' = DOMAIN w.sums \ DOMAIN b.sums /\ NewCands(r)' = DOMAIN w.cands \ DOMAIN b.cands
  BY <1>5 DEF NewSums, NewCands
<1>10. /\ \A k \in DOMAIN w.sums \ DOMAIN v.sums : k \notin DOMAIN db.sums /\ \A q \in Requests : k \notin DOMAIN req[q].view.sums
  BY <1>3, <1>6 DEF Known, NewIds
<1>11. \A q \in Requests \ {r} : req'[q].view = req[q].view
  OBVIOUS
<1>12. Apart(r)'
  BY <1>2, <1>3, <1>8, <1>9, <1>10, <1>11 DEF Apart, NewSums, NewCands
<1>13. Avoids(r)
  <2> SUFFICES ASSUME NEW q \in Requests \ {r}
               PROVE  /\ NewSums(q) \cap DOMAIN db.sums = {} /\ NewCands(q) \cap DOMAIN db.cands = {}
                      /\ NewSums(q) \cap DOMAIN w.sums = {} /\ NewCands(q) \cap DOMAIN w.cands = {}
                      /\ DOMAIN req[q].view.sums \subseteq IdsOf(sorder')
    BY <1>2, <1>5 DEF Avoids
  <2>1. Apart(q)
    BY DEF WellFormed
  <2>2. NewSums(q) \cap DOMAIN w.sums = {}
    BY <1>10, <2>1 DEF Apart, NewSums
  <2>3. NewCands(q) \cap DOMAIN w.cands = {}
    BY <1>8, <2>1 DEF Apart, NewCands
  <2>4. DOMAIN req[q].view.sums \subseteq IdsOf(sorder')
    BY <1>3, <1>6 DEF Known, NewIds
  <2> QED
    BY <2>1, <2>2, <2>3, <2>4 DEF Apart
<1>14. DOMAIN db'.sums \subseteq IdsOf(sorder') /\ DOMAIN req'[r].view.sums \subseteq IdsOf(sorder')
  BY <1>2, <1>3, <1>5, <1>6 DEF Known, NewIds
<1>15. \E k \in Nat : BelowV(db', k) /\ BelowV(req'[r].view, k)
  <2>1. PICK n \in Nat : BelowV(db, n)
    BY DEF WellFormed, Below
  <2>2. PICK m \in Nat : BelowV(w, m)
    BY <1>2 DEF Work
  <2>3. n + m \in Nat /\ 0 .. n \subseteq 0 .. n + m /\ 0 .. m \subseteq 0 .. n + m
    OBVIOUS
  <2>4. BelowV(db, n + m) /\ BelowV(w, n + m)
    BY <2>1, <2>2, <2>3 DEF BelowV
  <2> QED
    BY <1>2, <1>5, <2>3, <2>4
<1> HIDE DEF v, b
<1> QED
  BY <1>3, <1>5, <1>12, <1>13, <1>14, <1>15, KeptFrom

LEMMA CommittedKept ==
    ASSUME WellFormed, NEW r \in Requests, NEW w, Committed(r, w), \A q \in Requests \ {r} : req'[q] = req[q]
    PROVE  Kept(r) /\ AfterMerge(db', req[r].base, w)
<1> DEFINE v == req[r].view   b == req[r].base
<1>1. PICK op, run : req'[r] = Request("idle", op, run, Empty, Empty)
  BY DEF Committed
<1>2. Work(v, w) /\ db' = Merged(b, w) /\ Good(w) /\ Ext(v, w)
  BY DEF Committed, Work
<1>3. Good(b) /\ Ext(b, v) /\ Ext(b, db) /\ Good(db) /\ Apart(r) /\ Known
  BY DEF WellFormed, RequestFine
<1>4. Ext(b, w)
  BY <1>2, <1>3, ExtOrder
<1>5. AfterMerge(db', b, w)
  BY <1>2, <1>3, <1>4, MergedGood
<1>6. Good(db') /\ Ext(db, db') /\ DOMAIN db'.sums = DOMAIN db.sums \cup DOMAIN w.sums
      /\ DOMAIN db'.cands = DOMAIN db.cands \cup DOMAIN w.cands
      /\ DOMAIN db'.mems = DOMAIN db.mems \cup DOMAIN w.mems
  BY <1>5 DEF AfterMerge, Union, Rows
<1>7. RequestFine(req[r])' /\ req'[r].base = Empty /\ req'[r].view = Empty
  BY <1>1, <1>6, EmptyGood, EmptyTables, FineRequest
<1>8. DOMAIN v.sums \subseteq IdsOf(sorder) /\ NewIds(v, w)
  BY <1>2, <1>3, WorkIds DEF Known
<1>9. \A c \in DOMAIN w.cands \ DOMAIN v.cands : \A q \in Requests : c \notin DOMAIN req[q].view.cands
  <2> SUFFICES ASSUME NEW c \in DOMAIN w.cands \ DOMAIN v.cands, NEW q \in Requests
               PROVE  c \notin DOMAIN req[q].view.cands
    OBVIOUS
  <2>1. c \notin DOMAIN req[q].view["cands"]
    BY <1>2 DEF Work, Unseen
  <2> QED
    BY <2>1
<1>10. \A k \in DOMAIN w.sums \ DOMAIN v.sums : \A q \in Requests : k \notin DOMAIN req[q].view.sums
  BY <1>3, <1>8 DEF Known, NewIds
<1>11. Apart(r)'
  BY <1>7, EmptyTables DEF Apart, NewSums, NewCands
<1>12. Avoids(r)
  <2> SUFFICES ASSUME NEW q \in Requests \ {r}
               PROVE  /\ NewSums(q) \cap DOMAIN db'.sums = {} /\ NewCands(q) \cap DOMAIN db'.cands = {}
                      /\ DOMAIN req[q].view.sums \subseteq IdsOf(sorder')
    BY <1>7, EmptyTables DEF Avoids
  <2>1. Apart(q)
    BY DEF WellFormed
  <2>2. NewSums(q) \cap DOMAIN w.sums = {}
    BY <1>10, <2>1 DEF Apart, NewSums
  <2>3. NewCands(q) \cap DOMAIN w.cands = {}
    BY <1>9, <2>1 DEF Apart, NewCands
  <2>4. DOMAIN req[q].view.sums \subseteq IdsOf(sorder')
    BY <1>3, <1>8 DEF Known, NewIds
  <2> QED
    BY <1>6, <2>1, <2>2, <2>3, <2>4 DEF Apart
<1>13. DOMAIN db'.sums \subseteq IdsOf(sorder') /\ DOMAIN req'[r].view.sums \subseteq IdsOf(sorder')
  BY <1>3, <1>6, <1>7, <1>8, EmptyTables DEF Known, NewIds
<1>14. \E k \in Nat : BelowV(db', k) /\ BelowV(req'[r].view, k)
  <2>1. PICK n \in Nat : BelowV(db, n)
    BY DEF WellFormed, Below
  <2>2. PICK m \in Nat : BelowV(w, m)
    BY <1>2 DEF Work
  <2>3. n + m \in Nat /\ 0 .. n \subseteq 0 .. n + m /\ 0 .. m \subseteq 0 .. n + m
    OBVIOUS
  <2>4. BelowV(db', n + m)
    BY <1>6, <2>1, <2>2, <2>3 DEF BelowV
  <2>5. BelowV(req'[r].view, n + m)
    BY <1>7, EmptyTables DEF BelowV
  <2> QED
    BY <2>3, <2>4, <2>5
<1> HIDE DEF v, b
<1>15. Kept(r)
  BY <1>6, <1>7, <1>11, <1>12, <1>13, <1>14, KeptFrom
<1> QED
  BY <1>5, <1>15 DEF b

\* What a transaction of one message adds to the tables.
LEMMA OneMore ==
    ASSUME Good(db), db' = db \/ \E m : Unsummed(m) /\ db' = [db EXCEPT !.msgs = With(@, m)]
    PROVE  /\ Good(db') /\ Ext(db, db') /\ MsgsAdded(db.msgs, db'.msgs)
           /\ db'.sums = db.sums /\ db'.cands = db.cands /\ db'.mems = db.mems
<1>1. CASE db' = db
  BY <1>1, ExtOrder DEF MsgsAdded, Good, MsgsFine
<1>2. CASE \E m : Unsummed(m) /\ db' = [db EXCEPT !.msgs = With(@, m)]
  <2>1. PICK m : Unsummed(m) /\ db' = [db EXCEPT !.msgs = With(@, m)]
    BY <1>2
  <2> DEFINE t == With(db.msgs, m)
  <2>2. MsgsAdded(db.msgs, t)
    BY <2>1, TwoMessages
  <2>3. db' = [msgs |-> t, sums |-> db.sums, cands |-> db.cands, mems |-> db.mems]
    BY <2>1, OneTable DEF Good
  <2> HIDE DEF t
  <2> DEFINE w == db'
  <2>4. w.msgs = t /\ w.sums = db.sums /\ w.cands = db.cands /\ w.mems = db.mems /\ IsTables(w)
    BY <2>3 DEF IsTables
  <2>5. /\ IsFiniteSet(DOMAIN t)
        /\ \A i \in DOMAIN t : IF i \in DOMAIN db.msgs THEN t[i] = db.msgs[i] ELSE Unsummed(t[i]) /\ t[i].id = i
    BY <2>2 DEF MsgsAdded
  <2> HIDE DEF w
  <2>6. MsgsFine(w)
    BY <2>4, <2>5 DEF Good, MsgsFine, Unsummed
  <2>7. Good(w)
    BY <2>4, <2>6 DEF Good, SumsFine, CandsFine, MemsFine
  <2>8. Ext(db, w)
    BY <2>2, <2>4 DEF Ext, MsgsExt, MsgsAdded, Extends, Same
  <2> QED
    BY <2>2, <2>4, <2>7, <2>8 DEF w
<1> QED
  BY <1>1, <1>2

LEMMA EndedKept ==
    ASSUME WellFormed, NEW r \in Requests, Ended(r), \A q \in Requests \ {r} : req'[q] = req[q]
    PROVE  Kept(r)
<1>1. PICK pc, op, run : req'[r] = Request(pc, op, run, Empty, Empty) /\ (pc = "idle" \/ pc = "started")
  BY DEF Ended
<1>2. /\ Good(db') /\ Ext(db, db') /\ db'.sums = db.sums /\ db'.cands = db.cands /\ db'.mems = db.mems
  BY OneMore DEF Ended, WellFormed
<1>3. RequestFine(req[r])' /\ req'[r].base = Empty /\ req'[r].view = Empty
  BY <1>1, <1>2, EmptyGood, EmptyTables, FineRequest
<1>4. Apart(r)'
  BY <1>3, EmptyTables DEF Apart, NewSums, NewCands
<1>5. \A i \in IdsOf(sorder) : i \notin NewSums(r) => i \in IdsOf(sorder')
  <2>1. CASE sorder' = sorder
    BY <2>1
  <2>2. CASE sorder' = Own(sorder, r, "sums")
    <3>1. sorder \in Seq(Row)
      BY DEF WellFormed
    <3>2. \A i \in IdsOf(sorder) : i \notin DOMAIN req[r].view["sums"] \ DOMAIN req[r].base["sums"]
             => i \in IdsOf(Own(sorder, r, "sums"))
      BY <3>1, OwnRows
    <3>3. NewSums(r) = DOMAIN req[r].view["sums"] \ DOMAIN req[r].base["sums"]
      BY DEF NewSums
    <3> QED
      BY <2>2, <3>2, <3>3
  <2> QED
    BY <2>1, <2>2 DEF Ended
<1>6. Apart(r) /\ Known
  BY DEF WellFormed
<1>7. DOMAIN db'.sums \subseteq IdsOf(sorder') /\ DOMAIN req'[r].view.sums \subseteq IdsOf(sorder')
  BY <1>2, <1>3, <1>5, <1>6, EmptyTables DEF Known, Apart
<1>8. Avoids(r)
  <2> SUFFICES ASSUME NEW q \in Requests \ {r}
               PROVE  /\ NewSums(q) \cap DOMAIN db'.sums = {} /\ NewCands(q) \cap DOMAIN db'.cands = {}
                      /\ DOMAIN req[q].view.sums \subseteq IdsOf(sorder')
    BY <1>3, EmptyTables DEF Avoids
  <2>1. Apart(q)
    BY DEF WellFormed
  <2>2. DOMAIN req[q].view.sums \subseteq IdsOf(sorder')
    BY <1>5, <1>6 DEF Known, Apart
  <2> QED
    BY <1>2, <2>1, <2>2 DEF Apart
<1>9. \E k \in Nat : BelowV(db', k) /\ BelowV(req'[r].view, k)
  <2>1. PICK n \in Nat : BelowV(db, n)
    BY DEF WellFormed, Below
  <2> QED
    BY <1>2, <1>3, <2>1, EmptyTables DEF BelowV
<1> QED
  BY <1>2, <1>3, <1>4, <1>7, <1>8, <1>9, KeptFrom

LEMMA SteppedWellFormed ==
    ASSUME WellFormed, Stepped
    PROVE  WellFormed'
<1>1. CASE Still
  <2>1. /\ order' \in Seq(Row) /\ sorder' \in Seq(Row) /\ clock' \in Nat /\ mode' \in Modes
        /\ req' = req /\ db' = db /\ sorder' = sorder
    BY <1>1 DEF Stepped, Still, WellFormed
  <2>2. Good(db)'
    BY <2>1 DEF WellFormed, Good, IsTables, MsgsFine, SumsFine, CandsFine, MemsFine
  <2>3. (req = [r \in Requests |-> req[r]])'
    BY <2>1 DEF WellFormed
  <2>4. ASSUME NEW r \in Requests
        PROVE  RequestFine(req[r])' /\ Apart(r)'
    <3>1. RequestFine(req[r]) /\ Apart(r)
      BY DEF WellFormed
    <3>2. req'[r] = req[r]
      BY <2>1
    <3>3. RequestFine(req[r])'
      BY <2>1, <3>1, <3>2, FineRequest DEF RequestFine
    <3> QED
      BY <2>1, <3>1, <3>3 DEF Apart, NewSums, NewCands
  <2>5. Known'
    BY <2>1 DEF WellFormed, Known, IdsOf
  <2>6. \E n \in Nat : Below(n)'
    <3>1. PICK n \in Nat : Below(n)
      BY DEF WellFormed
    <3>2. Below(n)'
      BY <2>1, <3>1 DEF Below, BelowV
    <3> QED
      BY <3>2
  <2> QED
    BY <2>1, <2>2, <2>3, <2>4, <2>5, <2>6 DEF WellFormed
<1>2. CASE \E r \in Requests : Moved(r)
  <2>1. PICK r \in Requests : Moved(r)
    BY <1>2
  <2>2. \A q \in Requests \ {r} : req'[q] = req[q]
    BY <2>1 DEF Moved
  <2>3. Kept(r)
    BY <2>1, <2>2, OpenedKept, WorkedKept, CommittedKept, EndedKept DEF Moved
  <2> QED
    BY <2>1, <2>3, KeptWellFormed DEF Stepped, Moved
<1> QED
  BY <1>1, <1>2 DEF Stepped

LEMMA InitWellFormed ==
    ASSUME Init
    PROVE  WellFormed
<1>1. db = Empty /\ order = <<>> /\ sorder = <<>> /\ clock = 0 /\ mode \in Modes /\ req = [r \in Requests |-> Idle]
  BY DEF Init
<1>2. order \in Seq(Row) /\ sorder \in Seq(Row)
  BY <1>1, EmptySeq
<1>3. Good(Empty) /\ Ext(Empty, Empty)
  BY EmptyGood, ExtOrder
<1>4. /\ IsRequest(Idle) /\ Idle.pc = "idle" /\ Idle.base = Empty /\ Idle.view = Empty
  BY DEF IsRequest, Idle
<1> HIDE DEF Idle
<1>5. ASSUME NEW r \in Requests
      PROVE  RequestFine(req[r]) /\ Apart(r)
  <2>1. req[r] = Idle /\ \A q \in Requests : req[q].view = Empty
    BY <1>1, <1>4
  <2>2. RequestFine(req[r])
    BY <1>1, <1>3, <1>4, <2>1 DEF RequestFine
  <2>3. Apart(r)
    BY <1>1, <1>4, <2>1, EmptyTables DEF Apart, NewSums, NewCands
  <2> QED
    BY <2>2, <2>3
<1>6. Known
  BY <1>1, <1>4, EmptyTables DEF Known
<1>7. Below(0)
  BY <1>1, <1>4, EmptyTables DEF Below, BelowV
<1> QED
  BY <1>1, <1>2, <1>3, <1>5, <1>6, <1>7 DEF WellFormed

THEOREM MemoryWellFormed == Spec => []WellFormed
<1>1. Init => WellFormed
  BY InitWellFormed
<1>2. WellFormed /\ [Next]_vars => WellFormed'
  BY EveryStep, SteppedWellFormed
<1> QED
  BY <1>1, <1>2, PTL DEF Spec

\* Whatever overlaps, is lost or comes back in another order, the model is
\* given every call with its own result or the error in its place
\* (repair_tool_result_pairing on what build reads).
THEOREM ContextsArePaired == Spec => []ContextIsPaired
<1>1. WellFormed => ContextIsPaired
  <2> SUFFICES ASSUME WellFormed PROVE ContextIsPaired
    OBVIOUS
  <2>1. order \in Seq(Row) /\ Good(db) /\ \A r \in Requests : Good(req[r].view)
    BY DEF WellFormed, RequestFine
  <2> QED
    BY <2>1, BuildPaired DEF ContextIsPaired
<1> QED
  BY <1>1, MemoryWellFormed, PTL

----------------------------------------------------------------------------
(* What is compacted away was learnt from first.                           *)

RowLearnt(v, i) ==
    v.msgs[i].by # NoSummary =>
        /\ v.msgs[i].by \in DOMAIN v.sums
        /\ v.msgs[i].role = "preference" /\ v.sums[v.msgs[i].by].flushed => Noted(v, i)
AllLearnt(v) == \A i \in DOMAIN v.msgs : RowLearnt(v, i)
Learnt == AllLearnt(db) /\ \A r \in Requests : AllLearnt(req[r].view)

\* The row i of the tables t says what it says in the tables u.
Carried(u, t, i) ==
    /\ i \in DOMAIN u.msgs /\ t.msgs[i].by = u.msgs[i].by /\ t.msgs[i].role = u.msgs[i].role
    /\ Extends(u.sums, t.sums) /\ Extends(u.cands, t.cands)

LEMMA CarriedLearnt ==
    ASSUME NEW u, NEW t, NEW i, Carried(u, t, i), AllLearnt(u)
    PROVE  RowLearnt(t, i)
<1>1. RowLearnt(u, i)
  BY DEF AllLearnt, Carried
<1>2. Noted(u, i) => Noted(t, i)
  BY DEF Noted, Carried, Extends
<1> QED
  BY <1>1, <1>2 DEF RowLearnt, Carried, Extends

LEMMA WorkLearnt ==
    ASSUME NEW v, NEW w, Work(v, w), AllLearnt(v)
    PROVE  AllLearnt(w)
<1>1. Ext(v, w)
  BY DEF Work
<1>2. ASSUME NEW i \in DOMAIN v.msgs, w.msgs[i].by = v.msgs[i].by
      PROVE  RowLearnt(w, i)
  <2>1. Carried(v, w, i)
    BY <1>1, <1>2 DEF Carried, Ext, MsgsExt, Same
  <2> QED
    BY <2>1, CarriedLearnt
<1>3. CASE Plain(v, w)
  <2> SUFFICES ASSUME NEW i \in DOMAIN w.msgs
               PROVE  RowLearnt(w, i)
    BY DEF AllLearnt
  <2>1. CASE i \in DOMAIN v.msgs
    BY <1>2, <1>3, <2>1 DEF Plain
  <2>2. CASE i \notin DOMAIN v.msgs
    BY <1>3, <2>2 DEF Plain, RowLearnt
  <2> QED
    BY <2>1, <2>2
<1>4. CASE Summed(v, w, Fresh(sorder))
  <2> DEFINE s == Fresh(sorder)
  <2>1. s \in DOMAIN w.sums /\ DOMAIN w.msgs = DOMAIN v.msgs
        /\ \A i \in DOMAIN w.msgs : w.msgs[i].by = v.msgs[i].by \/ Covered(w, i, s)
    BY <1>4 DEF Summed
  <2> HIDE DEF s
  <2> SUFFICES ASSUME NEW i \in DOMAIN w.msgs
               PROVE  RowLearnt(w, i)
    BY DEF AllLearnt
  <2>2. CASE w.msgs[i].by = v.msgs[i].by
    BY <1>2, <2>1, <2>2
  <2>3. CASE Covered(w, i, s)
    BY <2>1, <2>3 DEF Covered, RowLearnt
  <2> QED
    BY <2>1, <2>2, <2>3
<1> QED
  BY <1>3, <1>4 DEF Work

\* What a transaction inserted is committed as it is.
LEMMA CommittedRows ==
    ASSUME WellFormed, NEW r \in Requests, NEW w, Committed(r, w), AfterMerge(db', req[r].base, w)
    PROVE  /\ Extends(w.sums, db'.sums) /\ Extends(w.cands, db'.cands)
           /\ Ext(req[r].base, w) /\ Ext(req[r].base, db) /\ Ext(db, db')
           /\ MsgsUnion(db'.msgs, db.msgs, req[r].base.msgs, w.msgs)
<1> DEFINE v == req[r].view   b == req[r].base
<1>1. Work(v, w) /\ Ext(v, w)
  BY DEF Committed, Work
<1>2. Ext(b, v) /\ Ext(b, db) /\ Apart(r) /\ Known
  BY DEF WellFormed, RequestFine
<1>3. Ext(b, w)
  BY <1>1, <1>2, ExtOrder
<1>4. Ext(db, db') /\ Union(db'.sums, db.sums, w.sums) /\ Union(db'.cands, db.cands, w.cands)
      /\ MsgsUnion(db'.msgs, db.msgs, b.msgs, w.msgs)
  BY DEF AfterMerge
<1>5. NewIds(v, w)
  BY <1>1, <1>2, WorkIds DEF Known
<1>6. \A k \in DOMAIN w.sums \cap DOMAIN db.sums : k \in DOMAIN b.sums
  BY <1>2, <1>5 DEF Apart, NewSums, Known, NewIds
<1>7. \A c \in DOMAIN w.cands \cap DOMAIN db.cands : c \in DOMAIN b.cands
  <2>1. \A c \in DOMAIN w.cands \ DOMAIN v.cands : c \notin DOMAIN db.cands
    <3> SUFFICES ASSUME NEW c \in DOMAIN w.cands \ DOMAIN v.cands
                 PROVE  c \notin DOMAIN db["cands"]
      OBVIOUS
    <3> QED
      BY <1>1 DEF Work, Unseen
  <2> QED
    BY <1>2, <2>1 DEF Apart, NewCands
<1>8. Extends(w.sums, db'.sums)
  <2>1. \A k \in DOMAIN w.sums \cap DOMAIN db.sums : w.sums[k] = db.sums[k]
    BY <1>2, <1>3, <1>6 DEF Ext, Extends
  <2> HIDE DEF v, b
  <2> QED
    BY <1>4, <2>1 DEF Union, Extends
<1>9. Extends(w.cands, db'.cands)
  <2>1. \A k \in DOMAIN w.cands \cap DOMAIN db.cands : w.cands[k] = db.cands[k]
    BY <1>2, <1>3, <1>7 DEF Ext, Extends
  <2> HIDE DEF v, b
  <2> QED
    BY <1>4, <2>1 DEF Union, Extends
<1> QED
  BY <1>2, <1>3, <1>4, <1>8, <1>9

LEMMA CommittedLearnt ==
    ASSUME WellFormed, NEW r \in Requests, NEW w, Committed(r, w), AfterMerge(db', req[r].base, w), Learnt
    PROVE  AllLearnt(db')
<1> DEFINE b == req[r].base   t == db'
<1>1. AllLearnt(w)
  <2>1. Work(req[r].view, w) /\ AllLearnt(req[r].view)
    BY DEF Committed, Learnt
  <2> QED
    BY <2>1, WorkLearnt
<1>2. /\ Extends(w.sums, t.sums) /\ Extends(w.cands, t.cands)
      /\ Ext(b, w) /\ Ext(b, db) /\ Ext(db, t) /\ MsgsUnion(t.msgs, db.msgs, b.msgs, w.msgs)
  BY CommittedRows
<1>3. AllLearnt(db)
  BY DEF Learnt
<1> HIDE DEF b, t
<1>4. /\ \A i \in DOMAIN db.msgs \cap DOMAIN b.msgs :
            /\ i \in DOMAIN w.msgs /\ w.msgs[i].role = db.msgs[i].role
            /\ t.msgs[i].role = db.msgs[i].role
            /\ t.msgs[i].by = w.msgs[i].by \/ t.msgs[i].by = db.msgs[i].by
      /\ \A i \in DOMAIN db.msgs \ DOMAIN b.msgs : t.msgs[i].role = db.msgs[i].role /\ t.msgs[i].by = db.msgs[i].by
      /\ \A i \in DOMAIN w.msgs \ DOMAIN db.msgs : t.msgs[i] = w.msgs[i]
      /\ DOMAIN t.msgs = DOMAIN db.msgs \cup DOMAIN w.msgs
  <2>1. \A i \in DOMAIN b.msgs : i \in DOMAIN w.msgs /\ Same(b.msgs[i], w.msgs[i]) /\ Same(b.msgs[i], db.msgs[i])
    BY <1>2 DEF Ext, MsgsExt
  <2> QED
    BY <1>2, <2>1 DEF MsgsUnion, Same
<1>5. Extends(db.sums, t.sums) /\ Extends(db.cands, t.cands)
  BY <1>2 DEF Ext
<1>6. ASSUME NEW i \in DOMAIN t.msgs
      PROVE  Carried(w, t, i) \/ Carried(db, t, i)
  <2>1. CASE i \in DOMAIN db.msgs \cap DOMAIN b.msgs
    BY <1>2, <1>4, <1>5, <2>1 DEF Carried
  <2>2. CASE i \in DOMAIN db.msgs \ DOMAIN b.msgs
    BY <1>4, <1>5, <2>2 DEF Carried
  <2>3. CASE i \in DOMAIN w.msgs \ DOMAIN db.msgs
    BY <1>2, <1>4, <2>3 DEF Carried
  <2> QED
    BY <1>4, <2>1, <2>2, <2>3
<1>7. AllLearnt(t)
  BY <1>1, <1>3, <1>6, CarriedLearnt DEF AllLearnt
<1> QED
  BY <1>7 DEF t

LEMMA EmptyLearnt == AllLearnt(Empty)
  BY EmptyTables DEF AllLearnt

LEMMA RequestView ==
    ASSUME NEW pc, NEW op, NEW run, NEW base, NEW view
    PROVE  LET q == Request(pc, op, run, base, view)
           IN  q.pc = pc /\ q.base = base /\ q.view = view
  BY DEF Request

LEMMA SteppedLearnt ==
    ASSUME WellFormed, Stepped, Learnt
    PROVE  Learnt'
<1>1. CASE Still
  BY <1>1 DEF Still, Learnt, AllLearnt, RowLearnt, Noted
<1>2. CASE \E r \in Requests : Moved(r)
  <2>1. PICK r \in Requests : Moved(r)
    BY <1>2
  <2>2. \A q \in Requests \ {r} : req'[q] = req[q]
    BY <2>1 DEF Moved
  <2>3. AllLearnt(db) /\ \A q \in Requests : AllLearnt(req[q].view)
    BY DEF Learnt
  <2>4. AllLearnt(db') /\ AllLearnt(req'[r].view)
    <3>1. CASE Opened(r)
      <4>1. req'[r].view = db /\ db' = db
        BY <3>1, RequestView DEF Opened
      <4> QED
        BY <2>3, <4>1
    <3>2. CASE \E w : Worked(r, w)
      <4>1. PICK w : Worked(r, w)
        BY <3>2
      <4>2. req'[r].view = w /\ db' = db /\ Work(req[r].view, w)
        BY <4>1, RequestView DEF Worked
      <4>3. AllLearnt(w)
        BY <2>3, <4>2, WorkLearnt
      <4> QED
        BY <2>3, <4>2, <4>3
    <3>3. CASE \E w : Committed(r, w)
      <4>1. PICK w : Committed(r, w)
        BY <3>3
      <4>2. req'[r].view = Empty
        BY <4>1, RequestView DEF Committed
      <4>3. AllLearnt(db')
        BY <2>2, <4>1, CommittedKept, CommittedLearnt
      <4> QED
        BY <4>2, <4>3, EmptyLearnt
    <3>4. CASE Ended(r)
      <4>1. req'[r].view = Empty
        BY <3>4, RequestView DEF Ended
      <4>2. Ext(db, db') /\ MsgsAdded(db.msgs, db'.msgs)
        BY <3>4, OneMore DEF Ended, WellFormed
      <4>3. ASSUME NEW i \in DOMAIN db'.msgs
            PROVE  RowLearnt(db', i)
        <5>1. CASE i \in DOMAIN db.msgs
          <6>1. Carried(db, db', i)
            BY <4>2, <5>1 DEF Carried, MsgsAdded, Ext
          <6> QED
            BY <2>3, <6>1, CarriedLearnt
        <5>2. CASE i \notin DOMAIN db.msgs
          BY <4>2, <5>2 DEF MsgsAdded, Unsummed, RowLearnt
        <5> QED
          BY <5>1, <5>2
      <4> QED
        BY <4>1, <4>3, EmptyLearnt DEF AllLearnt
    <3> QED
      BY <2>1, <3>1, <3>2, <3>3, <3>4 DEF Moved
  <2>5. \A q \in Requests : AllLearnt(req'[q].view)
    BY <2>2, <2>3, <2>4
  <2> QED
    BY <2>4, <2>5 DEF Learnt, AllLearnt, RowLearnt, Noted
<1> QED
  BY <1>1, <1>2 DEF Stepped

\* However requests overlap, a preference compacted away by a summary whose
\* record says that the flush did not fail is the evidence of a learning
\* candidate (_run_pre_compaction_memory_flush before the summary).
THEOREM CompactedIsLearnt == Spec => []PreferencesLearnt
<1>1. Init => Learnt
  <2> SUFFICES ASSUME Init PROVE Learnt
    OBVIOUS
  <2>1. db = Empty /\ \A r \in Requests : req[r].view = Empty
    BY DEF Init, Idle
  <2> QED
    BY <2>1, EmptyLearnt DEF Learnt
<1>2. WellFormed /\ Learnt /\ [Next]_vars => Learnt'
  BY EveryStep, SteppedLearnt
<1>3. WellFormed /\ Learnt => PreferencesLearnt
  <2> SUFFICES ASSUME WellFormed, Learnt, NEW i \in DOMAIN db.msgs, db.msgs[i].role = "preference",
                      db.msgs[i].by # NoSummary, db.sums[db.msgs[i].by].flushed
               PROVE  \E c \in DOMAIN db.cands : db.msgs[i].id \in db.cands[c].evidence
    BY DEF PreferencesLearnt
  <2>1. db.msgs[i].id = i
    BY DEF WellFormed, Good, MsgsFine
  <2>2. Noted(db, i)
    BY DEF Learnt, AllLearnt, RowLearnt
  <2> QED
    BY <2>1, <2>2 DEF Noted
<1> QED
  BY <1>1, <1>2, <1>3, MemoryWellFormed, PTL DEF Spec

----------------------------------------------------------------------------
(* The order of the summaries.                                             *)

\* Summaries are listed by their second; in every mode a later second means a
\* higher id, on exact columns a later place does.
InOrder(o, t) ==
    /\ \A i \in DOMAIN o : o[i].at <= t
    /\ \A i, j \in DOMAIN o : i < j => o[i].at <= o[j].at /\ (mode = "exact" => o[i].id < o[j].id)
    /\ \A i, j \in DOMAIN o : o[i].at < o[j].at => o[i].id < o[j].id
Ordered == InOrder(sorder, clock)

\* Every row of o is still listed in new.
AllListed(new, o) == \A a \in DOMAIN o : \E i \in DOMAIN new : new[i] = o[a]

\* Where two rows of the new order come from.
FromOrder(new, o, p, e, i, j) ==
    \/ \E a, b \in 1 .. Len(o) : a < b /\ new[i] = o[a] /\ new[j] = o[b]
    \/ new[i] = e /\ \E b \in 1 .. Len(o) : b > p /\ new[j] = o[b]
    \/ new[j] = e /\ \E a \in 1 .. Len(o) : a <= p /\ new[i] = o[a]

LEMMA PlacedFrom ==
    ASSUME NEW T, NEW o \in Seq(T), NEW new, NEW e, NEW p \in 0 .. Len(o), PutAfter(new, o, p, e)
    PROVE  /\ \A i, j \in 1 .. Len(o) + 1 : i < j => FromOrder(new, o, p, e, i, j)
           /\ \A i \in 1 .. Len(o) + 1 : new[i] = e \/ \E a \in 1 .. Len(o) : new[i] = o[a]
           /\ \A a \in 1 .. Len(o) : \E i \in 1 .. Len(o) + 1 : new[i] = o[a]
<1> DEFINE n == Len(o)
<1>1. n \in Nat
  BY LenProperties
<1>2. /\ \A i \in 1 .. p : new[i] = o[i]
      /\ new[p + 1] = e
      /\ \A i \in p + 2 .. n + 1 : new[i] = o[i - 1]
  BY DEF PutAfter
<1>3. p \in 0 .. n
  OBVIOUS
<1> HIDE DEF n
<1>4. ASSUME NEW i \in 1 .. n + 1
      PROVE  \/ i <= p /\ i \in 1 .. n /\ new[i] = o[i]
             \/ i = p + 1 /\ new[i] = e
             \/ i >= p + 2 /\ i - 1 \in 1 .. n /\ new[i] = o[i - 1]
  <2>1. CASE i \in 1 .. p
    <3>1. i <= p /\ i \in 1 .. n
      BY <1>1, <1>3, <2>1
    <3> QED
      BY <1>2, <2>1, <3>1
  <2>2. CASE i = p + 1
    BY <1>2, <2>2
  <2>3. CASE i \in p + 2 .. n + 1
    <3>1. i >= p + 2 /\ i - 1 \in 1 .. n
      BY <1>1, <1>3, <2>3
    <3> QED
      BY <1>2, <2>3, <3>1
  <2> QED
    BY <1>1, <1>3, <2>1, <2>2, <2>3
<1>5. ASSUME NEW i \in 1 .. n + 1, NEW j \in 1 .. n + 1, i < j
      PROVE  FromOrder(new, o, p, e, i, j)
  <2>1. CASE i <= p /\ i \in 1 .. n /\ new[i] = o[i]
    <3>1. CASE j <= p /\ j \in 1 .. n /\ new[j] = o[j]
      BY <1>5, <2>1, <3>1 DEF FromOrder, n
    <3>2. CASE j = p + 1 /\ new[j] = e
      BY <2>1, <3>2 DEF FromOrder, n
    <3>3. CASE j >= p + 2 /\ j - 1 \in 1 .. n /\ new[j] = o[j - 1]
      <4>1. i < j - 1
        BY <1>3, <2>1, <3>3
      <4> QED
        BY <2>1, <3>3, <4>1 DEF FromOrder, n
    <3> QED
      BY <1>4, <3>1, <3>2, <3>3
  <2>2. CASE i = p + 1 /\ new[i] = e
    <3>1. j >= p + 2
      BY <1>3, <1>5, <2>2
    <3>2. j - 1 \in 1 .. n /\ new[j] = o[j - 1] /\ j - 1 > p
      BY <1>1, <1>2, <1>3, <3>1
    <3> QED
      BY <2>2, <3>2 DEF FromOrder, n
  <2>3. CASE i >= p + 2 /\ i - 1 \in 1 .. n /\ new[i] = o[i - 1]
    <3>1. j >= p + 2 /\ i - 1 < j - 1
      BY <1>3, <1>5, <2>3
    <3>2. j - 1 \in 1 .. n /\ new[j] = o[j - 1]
      BY <1>1, <1>2, <1>3, <3>1
    <3> QED
      BY <2>3, <3>1, <3>2 DEF FromOrder, n
  <2> QED
    BY <1>4, <2>1, <2>2, <2>3
<1>6. \A i \in 1 .. n + 1 : new[i] = e \/ \E a \in 1 .. n : new[i] = o[a]
  BY <1>4
<1>7. ASSUME NEW a \in 1 .. n
      PROVE  \E i \in 1 .. n + 1 : new[i] = o[a]
  <2>1. CASE a <= p
    BY <1>1, <1>2, <2>1
  <2>2. CASE a > p
    <3>1. a + 1 \in p + 2 .. n + 1 /\ a + 1 \in 1 .. n + 1 /\ (a + 1) - 1 = a
      BY <1>1, <1>3, <2>2
    <3> QED
      BY <1>2, <3>1
  <2> QED
    BY <1>1, <1>3, <2>1, <2>2
<1> QED
  BY <1>5, <1>6, <1>7 DEF n

LEMMA PlacedInOrder ==
    ASSUME NEW o \in Seq(Row), clock \in Nat, NEW p \in Places(o), InOrder(o, clock)
    PROVE  InOrder(Placed(o, p), clock) /\ AllListed(Placed(o, p), o)
<1> DEFINE new == Placed(o, p)
           e == NewRow(o)
           n == Len(o)
<1>1. /\ n \in Nat /\ DOMAIN o = 1 .. n
      /\ \A i \in 1 .. n : o[i].id \in Nat \ {0} /\ o[i].at \in Nat
  BY Rowed
<1>2. new \in Seq(Row) /\ p \in 0 .. n /\ PutAfter(new, o, p, e)
  BY PlacedRows DEF PlacedAt
<1>3. DOMAIN new = 1 .. n + 1
  BY <1>2, Rowed DEF PutAfter
<1>4. /\ e.at = clock /\ e.id \in Nat
      /\ \A i \in 1 .. n : o[i].id < e.id
  BY <1>1, FreshAbove DEF NewRow, Above
<1>5. IF mode = "exact" THEN p = n ELSE \A i \in 1 .. n : i > p => o[i].at = clock
  BY <1>1 DEF Places
<1> HIDE DEF new, e
<1>6. /\ \A i, j \in 1 .. n + 1 : i < j => FromOrder(new, o, p, e, i, j)
      /\ \A i \in 1 .. n + 1 : new[i] = e \/ \E a \in 1 .. n : new[i] = o[a]
      /\ \A a \in 1 .. n : \E i \in 1 .. n + 1 : new[i] = o[a]
  BY <1>2, PlacedFrom
<1>7. /\ \A a \in 1 .. n : o[a].at <= clock
      /\ \A a, b \in 1 .. n : a < b => o[a].at <= o[b].at /\ (mode = "exact" => o[a].id < o[b].id)
      /\ \A a, b \in 1 .. n : o[a].at < o[b].at => o[a].id < o[b].id
  BY <1>1 DEF InOrder
<1>8. \A i \in 1 .. n + 1 : new[i].at <= clock
  BY <1>4, <1>6, <1>7
<1>9. ASSUME NEW i \in 1 .. n + 1, NEW j \in 1 .. n + 1, i < j
      PROVE  new[i].at <= new[j].at /\ (mode = "exact" => new[i].id < new[j].id)
  <2>1. FromOrder(new, o, p, e, i, j)
    BY <1>6, <1>9
  <2>2. CASE \E a, b \in 1 .. n : a < b /\ new[i] = o[a] /\ new[j] = o[b]
    BY <1>7, <2>2
  <2>3. CASE new[i] = e /\ \E b \in 1 .. n : b > p /\ new[j] = o[b]
    <3>1. PICK b \in 1 .. n : b > p /\ new[j] = o[b]
      BY <2>3
    <3>2. mode # "exact"
      BY <1>1, <1>5, <3>1
    <3>3. o[b].at = clock
      BY <1>5, <3>1, <3>2
    <3> QED
      BY <1>4, <2>3, <3>1, <3>2, <3>3
  <2>4. CASE new[j] = e /\ \E a \in 1 .. n : a <= p /\ new[i] = o[a]
    BY <1>4, <1>7, <2>4
  <2> QED
    BY <2>1, <2>2, <2>3, <2>4 DEF FromOrder
<1>10. ASSUME NEW i \in 1 .. n + 1, NEW j \in 1 .. n + 1, new[i].at < new[j].at
       PROVE  new[i].id < new[j].id
  <2>1. CASE new[i] = e
    <3>1. new[j].at <= clock /\ new[j].at \in Nat
      BY <1>1, <1>4, <1>6, <1>8
    <3> QED
      BY <1>4, <1>10, <2>1, <3>1
  <2>2. CASE new[i] # e /\ new[j] = e
    BY <1>4, <1>6, <2>2
  <2>3. CASE new[i] # e /\ new[j] # e
    BY <1>6, <1>7, <1>10, <2>3
  <2> QED
    BY <2>1, <2>2, <2>3
<1>11. InOrder(new, clock)
  BY <1>3, <1>8, <1>9, <1>10 DEF InOrder
<1>12. AllListed(new, o)
  BY <1>1, <1>3, <1>6 DEF AllListed
<1> QED
  BY <1>11, <1>12 DEF new

\* What is left of it when the rows of a request are gone.
LEMMA OwnInOrder ==
    ASSUME NEW o \in Seq(Row), NEW r, NEW f, InOrder(o, clock)
    PROVE  /\ InOrder(Own(o, r, f), clock)
           /\ \A a \in DOMAIN o : o[a].id \notin DOMAIN req[r].view[f] \ DOMAIN req[r].base[f]
                => \E i \in DOMAIN Own(o, r, f) : Own(o, r, f)[i] = o[a]
<1> DEFINE gone == DOMAIN req[r].view[f] \ DOMAIN req[r].base[f]
           S == {e \in Range(o) : e.id \notin gone}
           new == Own(o, r, f)
           n == Len(new)
<1>1. new = Selected(o, S) /\ new \in Seq(Row)
  BY OwnRows DEF Own
<1>2. Len(o) \in Nat /\ DOMAIN o = 1 .. Len(o)
  BY Rowed
<1>3. \A i \in 1 .. Len(o) : o[i].id \notin gone => o[i] \in S
  BY <1>2 DEF Range
<1> HIDE DEF gone, S, new
<1>4. DOMAIN new = 1 .. n /\ n \in Nat
  BY <1>1, Rowed
<1>5. Sub(new, o, Len(o), S)
  BY <1>1, SelectedSub
<1> HIDE DEF n
<1>6. /\ \A i \in 1 .. n : \E a \in 1 .. Len(o) : new[i] = o[a]
      /\ \A i, j \in 1 .. n : i < j => \E a, b \in 1 .. Len(o) : a < b /\ new[i] = o[a] /\ new[j] = o[b]
      /\ \A a \in 1 .. Len(o) : o[a] \in S => \E i \in 1 .. n : new[i] = o[a]
  BY <1>5 DEF Sub, n
<1>7. InOrder(new, clock)
  <2>1. /\ \A a \in 1 .. Len(o) : o[a].at <= clock
        /\ \A a, b \in 1 .. Len(o) : a < b => o[a].at <= o[b].at /\ (mode = "exact" => o[a].id < o[b].id)
        /\ \A a, b \in 1 .. Len(o) : o[a].at < o[b].at => o[a].id < o[b].id
    BY <1>2 DEF InOrder
  <2>2. \A i \in 1 .. n : new[i].at <= clock
    BY <1>6, <2>1
  <2>3. ASSUME NEW i \in 1 .. n, NEW j \in 1 .. n, i < j
        PROVE  new[i].at <= new[j].at /\ (mode = "exact" => new[i].id < new[j].id)
    BY <1>6, <2>1, <2>3
  <2>4. ASSUME NEW i \in 1 .. n, NEW j \in 1 .. n, new[i].at < new[j].at
        PROVE  new[i].id < new[j].id
    BY <1>6, <2>1, <2>4
  <2> QED
    BY <1>4, <2>2, <2>3, <2>4 DEF InOrder
<1>8. \A a \in DOMAIN o : o[a].id \notin gone => \E i \in DOMAIN new : new[i] = o[a]
  BY <1>2, <1>3, <1>4, <1>6
<1> QED
  BY <1>7, <1>8 DEF new, gone

LEMMA SteppedOrdered ==
    ASSUME WellFormed, Stepped, Ordered
    PROVE  Ordered'
<1>1. sorder \in Seq(Row) /\ clock \in Nat /\ clock' \in Nat /\ clock <= clock' /\ mode' = mode
  BY DEF WellFormed, Stepped
<1>2. InOrder(sorder', clock)
  <2>1. CASE sorder' = sorder
    BY <2>1 DEF Ordered
  <2>2. CASE \E p \in Places(sorder) : sorder' = Placed(sorder, p)
    BY <1>1, <2>2, PlacedInOrder DEF Ordered
  <2>3. CASE \E r \in Requests : sorder' = Own(sorder, r, "sums")
    BY <1>1, <2>3, OwnInOrder DEF Ordered
  <2> QED
    BY <2>1, <2>2, <2>3 DEF Stepped, Still, Moved, Opened, Worked, Committed, Work, Ended
<1>3. sorder' \in Seq(Row)
  BY DEF Stepped
<1>4. \A i \in DOMAIN sorder' : sorder'[i].at \in Nat
  BY <1>3, Rowed
<1>5. \A i \in DOMAIN sorder' : sorder'[i].at <= clock'
  BY <1>1, <1>2, <1>4 DEF InOrder
<1> QED
  BY <1>1, <1>2, <1>5 DEF Ordered, InOrder

----------------------------------------------------------------------------
(* What the latest summary tells.                                          *)

\* The latest summary is the last one listed.
Latest(o, v, x) ==
    \/ x = NoSummary /\ \A a \in DOMAIN o : o[a].id \notin DOMAIN v.sums
    \/ \E a \in DOMAIN o : /\ x = o[a].id /\ o[a].id \in DOMAIN v.sums
                           /\ \A b \in DOMAIN o : b > a => o[b].id \notin DOMAIN v.sums

LEMMA LatestListed ==
    ASSUME sorder \in Seq(Row), NEW v, SumsFine(v)
    PROVE  Latest(sorder, v, get_latest_summary(v))
<1> DEFINE S == {e \in Range(sorder) : e.id \in DOMAIN v.sums}
           ids == Selected(sorder, S)
           ss == Listed(sorder, v.sums)
           n == Len(ids)
<1>1. Len(sorder) \in Nat /\ DOMAIN sorder = 1 .. Len(sorder)
  BY Rowed
<1>2. \A a \in 1 .. Len(sorder) : sorder[a] \in S <=> sorder[a].id \in DOMAIN v.sums
  BY <1>1 DEF Range
<1>3. \A e \in S : e.id \in DOMAIN v.sums
  OBVIOUS
<1>4. ss = [i \in DOMAIN ids |-> v.sums[ids[i].id]]
  BY DEF Listed
<1>5. get_latest_summary(v) = IF ss = <<>> THEN NoSummary ELSE Last(ss).id
  BY DEF get_latest_summary
<1> HIDE DEF S
<1>6. ids \in Seq(S \cap Row) /\ Sub(ids, sorder, Len(sorder), S)
  BY SelectedType, SelectedSub
<1> HIDE DEF ids, ss
<1>7. n \in Nat /\ DOMAIN ids = 1 .. n /\ \A i \in 1 .. n : ids[i] \in S
  BY <1>6, LenProperties, ElementOfSeq
<1>8. /\ \A a \in 1 .. Len(sorder) : sorder[a] \in S => \E i \in 1 .. n : ids[i] = sorder[a]
      /\ n > 0 => \E a \in 1 .. Len(sorder) : ids[n] = sorder[a] /\ \A b \in 1 .. Len(sorder) : b > a => sorder[b] \notin S
  BY <1>6 DEF Sub
<1> HIDE DEF n
<1>9. ss = [i \in 1 .. n |-> v.sums[ids[i].id]]
  BY <1>4, <1>7
<1>10. Len(ss) = n /\ (ss = <<>> <=> n = 0)
  BY <1>7, <1>9
<1>11. CASE n = 0
  <2>1. \A a \in 1 .. Len(sorder) : sorder[a] \notin S
    BY <1>8, <1>11
  <2> QED
    BY <1>1, <1>2, <1>5, <1>10, <1>11, <2>1 DEF Latest
<1>12. CASE n > 0
  <2>1. PICK a \in 1 .. Len(sorder) : ids[n] = sorder[a] /\ \A b \in 1 .. Len(sorder) : b > a => sorder[b] \notin S
    BY <1>8, <1>12
  <2>2. n \in 1 .. n /\ ss # <<>>
    BY <1>7, <1>10, <1>12
  <2>3. Last(ss) = v.sums[ids[n].id]
    BY <1>9, <1>10, <2>2 DEF Last
  <2>4. ids[n].id \in DOMAIN v.sums
    BY <1>3, <1>7, <2>2
  <2>5. v.sums[ids[n].id].id = ids[n].id
    <3>1. \A k \in DOMAIN v.sums : v.sums[k].id = k
      <4> SUFFICES ASSUME NEW k \in DOMAIN v.sums
                   PROVE  v.sums[k].id = k
        OBVIOUS
      <4> DEFINE u == v.sums[k]
      <4>1. u = [id |-> k, prev |-> u.prev, told |-> u.told, flushed |-> u.flushed]
        BY DEF SumsFine, IsSum
      <4> HIDE DEF u
      <4>2. u.id = k
        BY <4>1
      <4> QED
        BY <4>2 DEF u
    <3> QED
      BY <2>4, <3>1
  <2> QED
    BY <1>1, <1>2, <1>5, <2>1, <2>2, <2>3, <2>4, <2>5 DEF Latest
<1> QED
  BY <1>7, <1>11, <1>12

\* The summary with the highest id.
Top(v, x) == x \in DOMAIN v.sums /\ \A k \in DOMAIN v.sums : k <= x
\* Two summaries of a view are never of one second.
Distinct(v, o) ==
    \A i, j \in DOMAIN o :
        (o[i].id \in DOMAIN v.sums /\ o[j].id \in DOMAIN v.sums /\ o[i].id # o[j].id) => o[i].at # o[j].at
Exact(v, o) == mode = "exact" \/ Distinct(v, o)

LEMMA LatestTop ==
    ASSUME sorder \in Seq(Row), NEW v, SumsFine(v), DOMAIN v.sums \subseteq IdsOf(sorder), Ordered,
           Exact(v, sorder), NEW x, Top(v, x)
    PROVE  get_latest_summary(v) = x /\ x # NoSummary
<1> DEFINE o == sorder   y == get_latest_summary(v)
<1>1. Latest(o, v, y)
  BY LatestListed
<1>2. DOMAIN o = 1 .. Len(o) /\ Len(o) \in Nat /\ \A i \in 1 .. Len(o) : o[i].id \in Nat \ {0} /\ o[i].at \in Nat
  BY Rowed
<1>3. PICK k \in DOMAIN o : x = o[k].id
  BY DEF Top, IdsOf
<1>4. InOrder(o, clock) /\ Exact(v, o)
  BY DEF Ordered
<1> HIDE DEF o, y
<1>5. PICK a \in DOMAIN o : y = o[a].id /\ o[a].id \in DOMAIN v.sums
                            /\ \A b \in DOMAIN o : b > a => o[b].id \notin DOMAIN v.sums
  BY <1>1, <1>3 DEF Latest, Top
<1>6. o[a].id <= x /\ x \in DOMAIN v.sums
  BY <1>5 DEF Top
<1>7. ~ (k > a)
  BY <1>3, <1>5, <1>6
<1>8. a \in Nat /\ k \in Nat
  BY <1>2
<1>9. ASSUME k < a
      PROVE  y = x
  <2>1. o[k].at <= o[a].at /\ (mode = "exact" => o[k].id < o[a].id) /\ (o[k].at < o[a].at => o[k].id < o[a].id)
    BY <1>4, <1>9 DEF InOrder
  <2>2. o[k].id # o[a].id => mode = "exact" \/ o[k].at # o[a].at
    BY <1>3, <1>4, <1>5, <1>6 DEF Exact, Distinct
  <2>3. /\ o[k].id \in Nat /\ o[a].id \in Nat /\ o[k].at \in Nat /\ o[a].at \in Nat
    BY <1>2
  <2>4. o[k].id = o[a].id
    BY <1>3, <1>6, <2>1, <2>2, <2>3
  <2> QED
    BY <1>3, <1>5, <2>4
<1>10. ASSUME k = a
       PROVE  y = x
  BY <1>3, <1>5, <1>10
<1>11. y = x
  BY <1>7, <1>8, <1>9, <1>10
<1>12. x # NoSummary
  BY <1>2, <1>3 DEF NoSummary
<1> QED
  BY <1>11, <1>12 DEF y

\* Every message that is summarised is told by the summary with the highest id.
TellsAll(v, o) ==
    Exact(v, o) => \A i \in DOMAIN v.msgs : v.msgs[i].by # NoSummary => \E x : Top(v, x) /\ i \in v.sums[x].told

\* The rows of a view stay listed.
ViewListed(new, o, v) == \A a \in DOMAIN o : o[a].id \in DOMAIN v.sums => \E i \in DOMAIN new : new[i] = o[a]

LEMMA ExactBefore ==
    ASSUME NEW v, NEW w, NEW o, NEW new, ViewListed(new, o, v), DOMAIN v.sums \subseteq DOMAIN w.sums, Exact(w, new)
    PROVE  Exact(v, o)
<1> SUFFICES ASSUME Distinct(w, new), NEW i \in DOMAIN o, NEW j \in DOMAIN o,
                    o[i].id \in DOMAIN v.sums, o[j].id \in DOMAIN v.sums, o[i].id # o[j].id
             PROVE  o[i].at # o[j].at
  BY DEF Exact, Distinct
<1>1. PICK a \in DOMAIN new : new[a] = o[i]
  BY DEF ViewListed
<1>2. PICK b \in DOMAIN new : new[b] = o[j]
  BY DEF ViewListed
<1> QED
  BY <1>1, <1>2 DEF Distinct

\* A change of the order alone changes nothing of it.
LEMMA TellsKept ==
    ASSUME NEW v, NEW o, NEW new, ViewListed(new, o, v), TellsAll(v, o)
    PROVE  TellsAll(v, new)
<1>1. Exact(v, new) => Exact(v, o)
  BY ExactBefore
<1> QED
  BY <1>1 DEF TellsAll

LEMMA WorkTells ==
    ASSUME WellFormed, Ordered, NEW v, NEW w, Work(v, w), Good(v), DOMAIN v.sums \subseteq IdsOf(sorder),
           TellsAll(v, sorder)
    PROVE  TellsAll(w, sorder') /\ AllListed(sorder', sorder)
<1>0. sorder \in Seq(Row) /\ clock \in Nat
  BY DEF WellFormed
<1>1. CASE Plain(v, w) /\ sorder' = sorder
  <2>1. w.sums = v.sums
        /\ \A i \in DOMAIN w.msgs : w.msgs[i].by # NoSummary => i \in DOMAIN v.msgs /\ v.msgs[i].by # NoSummary
    BY <1>1 DEF Plain
  <2>2. Exact(w, sorder) => Exact(v, sorder)
    BY <2>1 DEF Exact, Distinct
  <2>3. TellsAll(w, sorder)
    BY <2>1, <2>2 DEF TellsAll, Top
  <2> QED
    BY <1>1, <2>3 DEF AllListed
<1>2. CASE Summed(v, w, Fresh(sorder)) /\ \E p \in Places(sorder) : sorder' = Placed(sorder, p)
  <2> DEFINE s == Fresh(sorder)
  <2>1. s \in Nat /\ \A k \in IdsOf(sorder) : k \in Nat /\ k < s
    BY <1>0, FreshAbove, Rowed DEF Above, IdsOf
  <2>2. AllListed(sorder', sorder)
    BY <1>0, <1>2, PlacedInOrder DEF Ordered
  <2>3. /\ DOMAIN w.sums = DOMAIN v.sums \cup {s}
        /\ Told(v, get_latest_summary(v)) \subseteq w.sums[s].told
        /\ DOMAIN w.msgs = DOMAIN v.msgs
        /\ \A i \in DOMAIN w.msgs : w.msgs[i].by = v.msgs[i].by \/ Covered(w, i, s)
    BY <1>2 DEF Summed
  <2> HIDE DEF s
  <2>4. Top(w, s)
    BY <2>1, <2>3 DEF Top
  <2>5. ASSUME Exact(w, sorder'), NEW i \in DOMAIN w.msgs, w.msgs[i].by # NoSummary
        PROVE  i \in w.sums[s].told
    <3>1. CASE Covered(w, i, s)
      BY <3>1 DEF Covered
    <3>2. CASE w.msgs[i].by = v.msgs[i].by
      <4>1. ViewListed(sorder', sorder, v)
        BY <2>2 DEF ViewListed, AllListed
      <4>2. Exact(v, sorder)
        BY <2>3, <2>5, <4>1, ExactBefore
      <4>3. PICK x : Top(v, x) /\ i \in v.sums[x].told
        BY <2>3, <2>5, <3>2, <4>2 DEF TellsAll
      <4>4. get_latest_summary(v) = x /\ x # NoSummary
        BY <1>0, <4>2, <4>3, LatestTop DEF Good
      <4>5. i \in Told(v, get_latest_summary(v))
        BY <4>3, <4>4 DEF Told
      <4> QED
        BY <2>3, <4>5
    <3> QED
      BY <2>3, <3>1, <3>2
  <2> QED
    BY <2>2, <2>4, <2>5 DEF TellsAll
<1> QED
  BY <1>1, <1>2 DEF Work

----------------------------------------------------------------------------
(* Requests one at a time.                                                 *)

\* What such a request commits is its view.
Alike(t, w) ==
    /\ DOMAIN t.msgs = DOMAIN w.msgs /\ \A i \in DOMAIN w.msgs : t.msgs[i].by = w.msgs[i].by
    /\ DOMAIN t.sums = DOMAIN w.sums /\ \A i \in DOMAIN w.sums : t.sums[i] = w.sums[i]
    /\ DOMAIN t.cands = DOMAIN w.cands /\ \A i \in DOMAIN w.cands : t.cands[i] = w.cands[i]
    /\ DOMAIN t.mems = DOMAIN w.mems /\ \A i \in DOMAIN w.mems : t.mems[i] = w.mems[i]

LEMMA AlikeKeeps ==
    ASSUME NEW t, NEW w, Alike(t, w)
    PROVE  (LM(w) => LM(t)) /\ \A o : TellsAll(w, o) => TellsAll(t, o)
<1>1. LM(w) => LM(t)
  BY DEF Alike, LM
<1>2. ASSUME NEW o, TellsAll(w, o)
      PROVE  TellsAll(t, o)
  <2>1. Exact(t, o) => Exact(w, o)
    BY DEF Exact, Distinct, Alike
  <2>2. \A x : Top(w, x) => Top(t, x) /\ t.sums[x] = w.sums[x]
    BY DEF Top, Alike
  <2> QED
    BY <1>2, <2>1, <2>2 DEF TellsAll, Alike
<1> QED
  BY <1>1, <1>2

\* The columns of a memory nobody else has changed.
LEMMA MemoryColumns ==
    ASSUME NEW c, NEW n, NEW k, IsMem(c, k), IsMem(n, k)
    PROVE  Columns(c, c, n) = n
<1>1. /\ c.id = k /\ c = [id |-> k, key |-> c.key, evidence |-> c.evidence]
      /\ n.id = k /\ n = [id |-> k, key |-> n.key, evidence |-> n.evidence]
  BY DEF IsMem
<1> DEFINE t == Columns(c, c, n)
<1>2. DOMAIN c = {"id", "key", "evidence"}
  BY <1>1
<1>3. t = [f \in {"id", "key", "evidence"} |-> IF n[f] # c[f] THEN n[f] ELSE c[f]]
  BY <1>2 DEF Columns
<1> HIDE DEF t
<1>4. t = [id |-> t.id, key |-> t.key, evidence |-> t.evidence]
  BY <1>3
<1>5. t.id = k /\ t.key = n.key /\ t.evidence = n.evidence
  BY <1>1, <1>3
<1>6. t = n
  BY <1>1, <1>4, <1>5
<1> QED
  BY <1>6 DEF t

LEMMA SerialCommit ==
    ASSUME NEW t, NEW w, Good(db), Good(w), Ext(db, w), AfterMerge(t, db, w)
    PROVE  Alike(t, w)
<1>1. /\ MsgsUnion(t.msgs, db.msgs, db.msgs, w.msgs)
      /\ Union(t.sums, db.sums, w.sums) /\ Union(t.cands, db.cands, w.cands)
      /\ t.mems = Rows(db.mems, db.mems, w.mems)
  BY DEF AfterMerge
<1>2. /\ DOMAIN db.msgs \subseteq DOMAIN w.msgs /\ DOMAIN db.mems \subseteq DOMAIN w.mems
      /\ Extends(db.sums, w.sums) /\ Extends(db.cands, w.cands)
  BY DEF Ext, MsgsExt
<1>3. DOMAIN t.msgs = DOMAIN w.msgs /\ \A i \in DOMAIN w.msgs : t.msgs[i].by = w.msgs[i].by
  BY <1>1, <1>2 DEF MsgsUnion
<1>4. DOMAIN t.sums = DOMAIN w.sums /\ \A i \in DOMAIN w.sums : t.sums[i] = w.sums[i]
  BY <1>1, <1>2 DEF Union, Extends
<1>5. DOMAIN t.cands = DOMAIN w.cands /\ \A i \in DOMAIN w.cands : t.cands[i] = w.cands[i]
  BY <1>1, <1>2 DEF Union, Extends
<1>6. DOMAIN t.mems = DOMAIN w.mems /\ \A k \in DOMAIN w.mems : t.mems[k] = w.mems[k]
  <2> DEFINE c == db.mems   n == w.mems
  <2>1. /\ DOMAIN c \subseteq DOMAIN n
        /\ \A k \in DOMAIN c : IsMem(c[k], k)
        /\ \A k \in DOMAIN n : IsMem(n[k], k)
    BY <1>2 DEF Good, MemsFine
  <2>2. t.mems = Rows(c, c, n)
    BY <1>1
  <2> HIDE DEF c, n
  <2>3. DOMAIN t.mems = DOMAIN n
    BY <2>1, <2>2 DEF Rows
  <2>4. ASSUME NEW k \in DOMAIN n
        PROVE  t.mems[k] = n[k]
    <3>1. CASE k \notin DOMAIN c
      BY <2>2, <3>1 DEF Rows
    <3>2. CASE k \in DOMAIN c
      <4>1. t.mems[k] = Columns(c[k], c[k], n[k])
        BY <2>2, <3>2 DEF Rows
      <4> DEFINE a == c[k]   b == n[k]
      <4>2. IsMem(a, k) /\ IsMem(b, k) /\ t.mems[k] = Columns(a, a, b)
        BY <2>1, <3>2, <4>1
      <4> HIDE DEF a, b
      <4>3. t.mems[k] = b
        BY <4>2, MemoryColumns
      <4> QED
        BY <4>3 DEF b
    <3> QED
      BY <3>1, <3>2
  <2> QED
    BY <2>3, <2>4 DEF n
<1> QED
  BY <1>3, <1>4, <1>5, <1>6 DEF Alike

\* One transaction is open at most, and nothing has changed since it began.
Busy(r) == req[r].pc = "open" \/ req[r].pc = "running"
Holds(v) == LM(v) /\ TellsAll(v, sorder)
OneAtATime ==
    mode # "overlapping" =>
        /\ \A p, q \in Requests : req[p].pc # "idle" /\ req[q].pc # "idle" => p = q
        /\ Holds(db)
        /\ \A r \in Requests : Busy(r) => req[r].base = db /\ Holds(req[r].view)

LEMMA OthersIdle ==
    ASSUME OneAtATime, mode # "overlapping", NEW r \in Requests, req[r].pc # "idle" \/ Alone(r)
    PROVE  \A q \in Requests \ {r} : req[q].pc = "idle"
  BY DEF OneAtATime, Alone

LEMMA SerialKept ==
    ASSUME NEW r \in Requests, \A q \in Requests \ {r} : req'[q] = req[q] /\ req[q].pc = "idle", mode' = mode,
           LM(db'), TellsAll(db', sorder'),
           Busy(r)' => req'[r].base = db' /\ LM(req'[r].view) /\ TellsAll(req'[r].view, sorder')
    PROVE  OneAtATime'
<1>1. ASSUME NEW p \in Requests, NEW q \in Requests, req'[p].pc # "idle", req'[q].pc # "idle"
      PROVE  p = q
  <2>1. p = r /\ q = r
    BY <1>1
  <2> QED
    BY <2>1
<1>2. Holds(db)'
  BY DEF Holds, LM, TellsAll, Exact, Distinct, Top
<1>3. ASSUME NEW q \in Requests, Busy(q)'
      PROVE  (req[q].base = db /\ Holds(req[q].view))'
  <2>1. q = r
    BY <1>3 DEF Busy
  <2>2. req'[r].base = db' /\ LM(req'[r].view) /\ TellsAll(req'[r].view, sorder')
    BY <1>3, <2>1
  <2>3. Holds(req[r].view)'
    BY <2>2 DEF Holds, LM, TellsAll, Exact, Distinct, Top
  <2> QED
    BY <2>1, <2>2, <2>3
<1> QED
  BY <1>1, <1>2, <1>3 DEF OneAtATime

LEMMA EmptyHolds == LM(Empty) /\ \A o : TellsAll(Empty, o)
  BY EmptyTables DEF LM, TellsAll

LEMMA SteppedOneAtATime ==
    ASSUME WellFormed, Ordered, Stepped, OneAtATime
    PROVE  OneAtATime'
<1>1. mode' = mode
  BY DEF Stepped
<1> SUFFICES ASSUME mode # "overlapping"
             PROVE  OneAtATime'
  BY <1>1 DEF OneAtATime
<1>2. LM(db) /\ TellsAll(db, sorder)
  BY DEF OneAtATime, Holds
<1>3. CASE Still
  BY <1>1, <1>3 DEF Still, OneAtATime, Busy, Holds, LM, TellsAll, Exact, Distinct, Top
<1>4. ASSUME NEW r \in Requests, Moved(r)
      PROVE  OneAtATime'
  <2>1. \A q \in Requests \ {r} : req'[q] = req[q]
    BY <1>4 DEF Moved
  <2>2. RequestFine(req[r]) /\ Good(req[r].view) /\ Good(db) /\ Known /\ Apart(r)
    BY DEF WellFormed, RequestFine
  <2>3. CASE Opened(r)
    <3>1. req'[r].base = db /\ req'[r].view = db /\ db' = db /\ sorder' = sorder
      BY <2>3, RequestView DEF Opened
    <3>2. \A q \in Requests \ {r} : req[q].pc = "idle"
      BY <2>3, OthersIdle DEF Opened
    <3> QED
      BY <1>1, <1>2, <2>1, <3>1, <3>2, SerialKept
  <2>4. CASE \E w : Worked(r, w)
    <3>1. PICK w : Worked(r, w)
      BY <2>4
    <3>2. req'[r].base = req[r].base /\ req'[r].view = w /\ db' = db /\ Work(req[r].view, w) /\ Busy(r)
      BY <3>1, RequestView DEF Worked, Busy
    <3>3. \A q \in Requests \ {r} : req[q].pc = "idle"
      BY <3>2, OthersIdle DEF Busy
    <3>4. req[r].base = db /\ LM(req[r].view) /\ TellsAll(req[r].view, sorder)
      BY <3>2 DEF OneAtATime, Holds
    <3>5. LM(w)
      BY <3>2, <3>4 DEF Work
    <3>6. TellsAll(w, sorder') /\ AllListed(sorder', sorder)
      <4>1. DOMAIN req[r].view.sums \subseteq IdsOf(sorder)
        BY <2>2 DEF Known
      <4> QED
        BY <2>2, <3>2, <3>4, <4>1, WorkTells
    <3>7. TellsAll(db', sorder')
      <4>1. ViewListed(sorder', sorder, db)
        BY <3>6 DEF ViewListed, AllListed
      <4> QED
        BY <1>2, <3>2, <4>1, TellsKept
    <3> QED
      BY <1>1, <1>2, <2>1, <3>2, <3>3, <3>4, <3>5, <3>6, <3>7, SerialKept
  <2>5. CASE \E w : Committed(r, w)
    <3>1. PICK w : Committed(r, w)
      BY <2>5
    <3>2. req'[r].pc = "idle" /\ Work(req[r].view, w) /\ Busy(r)
      BY <3>1, RequestView DEF Committed, Busy
    <3>3. \A q \in Requests \ {r} : req[q].pc = "idle"
      BY <3>2, OthersIdle DEF Busy
    <3>4. req[r].base = db /\ LM(req[r].view) /\ TellsAll(req[r].view, sorder)
      BY <3>2 DEF OneAtATime, Holds
    <3>5. LM(w) /\ Good(w) /\ Ext(req[r].view, w)
      BY <3>2, <3>4 DEF Work
    <3>6. TellsAll(w, sorder')
      <4>1. DOMAIN req[r].view.sums \subseteq IdsOf(sorder)
        BY <2>2 DEF Known
      <4> QED
        BY <2>2, <3>2, <3>4, <4>1, WorkTells
    <3>7. Ext(db, w)
      BY <2>2, <3>4, <3>5, ExtOrder DEF RequestFine
    <3>8. AfterMerge(db', db, w)
      BY <2>1, <3>1, <3>4, CommittedKept
    <3>9. Alike(db', w)
      BY <2>2, <3>5, <3>7, <3>8, SerialCommit
    <3>10. LM(db') /\ TellsAll(db', sorder')
      BY <3>5, <3>6, <3>9, AlikeKeeps
    <3>11. ~ Busy(r)'
      BY <3>2 DEF Busy
    <3> QED
      BY <1>1, <2>1, <3>3, <3>10, <3>11, SerialKept
  <2>6. CASE Ended(r)
    <3>1. PICK pc, op, run : /\ req'[r] = Request(pc, op, run, Empty, Empty)
                             /\ (pc = "idle" /\ req[r].pc # "idle") \/ (pc = "started" /\ Alone(r))
      BY <2>6 DEF Ended
    <3>2. req'[r].pc = pc
      BY <3>1, RequestView
    <3>3. ~ Busy(r)'
      BY <3>1, <3>2 DEF Busy
    <3>4. \A q \in Requests \ {r} : req[q].pc = "idle"
      BY <3>1, OthersIdle
    <3>5. MsgsAdded(db.msgs, db'.msgs) /\ db'.sums = db.sums /\ db'.cands = db.cands /\ db'.mems = db.mems
      BY <2>2, <2>6, OneMore DEF Ended
    <3>6. LM(db')
      BY <1>2, <3>5 DEF LM
    <3>7. ViewListed(sorder', sorder, db)
      <4>1. CASE sorder' = sorder
        BY <4>1 DEF ViewListed
      <4>2. CASE sorder' = Own(sorder, r, "sums")
        <5>1. sorder \in Seq(Row)
          BY DEF WellFormed
        <5>2. \A a \in DOMAIN sorder : sorder[a].id \notin DOMAIN req[r].view["sums"] \ DOMAIN req[r].base["sums"]
                 => \E i \in DOMAIN sorder' : sorder'[i] = sorder[a]
          BY <4>2, <5>1, OwnInOrder DEF Ordered
        <5>3. DOMAIN db.sums \cap (DOMAIN req[r].view["sums"] \ DOMAIN req[r].base["sums"]) = {}
          BY <2>2 DEF Apart, NewSums
        <5> QED
          BY <5>2, <5>3 DEF ViewListed
      <4> QED
        BY <2>6, <4>1, <4>2 DEF Ended
    <3>8. TellsAll(db, sorder')
      BY <1>2, <3>7, TellsKept
    <3>9. TellsAll(db', sorder')
      <4>1. \A i \in DOMAIN db'.msgs : db'.msgs[i].by # NoSummary => i \in DOMAIN db.msgs /\ db.msgs[i].by # NoSummary
        BY <3>5 DEF MsgsAdded, Unsummed
      <4>2. Exact(db', sorder') => Exact(db, sorder')
        BY <3>5 DEF Exact, Distinct
      <4>3. \A x : Top(db, x) => Top(db', x)
        BY <3>5 DEF Top
      <4> QED
        BY <3>5, <3>8, <4>1, <4>2, <4>3 DEF TellsAll
    <3> QED
      BY <1>1, <2>1, <3>3, <3>4, <3>6, <3>9, SerialKept
  <2> QED
    BY <1>4, <2>3, <2>4, <2>5, <2>6 DEF Moved
<1> QED
  BY <1>3, <1>4 DEF Stepped

THEOREM RequestsOneAtATime == Spec => [](Ordered /\ OneAtATime)
<1>1. Init => Ordered /\ OneAtATime
  <2> SUFFICES ASSUME Init PROVE Ordered /\ OneAtATime
    OBVIOUS
  <2>1. db = Empty /\ sorder = <<>> /\ \A r \in Requests : req[r].pc = "idle"
    BY DEF Init, Idle
  <2>2. DOMAIN sorder = {}
    BY <2>1
  <2>3. Ordered
    BY <2>2 DEF Ordered, InOrder
  <2>4. OneAtATime
    BY <2>1, EmptyHolds DEF OneAtATime, Holds, Busy
  <2> QED
    BY <2>3, <2>4
<1>2. WellFormed /\ (Ordered /\ OneAtATime) /\ [Next]_vars => (Ordered /\ OneAtATime)'
  BY EveryStep, SteppedOrdered, SteppedOneAtATime
<1> QED
  BY <1>1, <1>2, MemoryWellFormed, PTL DEF Spec

\* While requests come one at a time, a lesson is remembered once, with the
\* evidence of every candidate merged into it (promote).
THEOREM LessonsAreMerged == Spec => []LessonsMerged
<1>1. OneAtATime => LessonsMerged
  BY DEF OneAtATime, Holds, LM, LessonsMerged
<1> QED
  BY <1>1, RequestsOneAtATime, PTL

\* While requests come one at a time, and no two compactions fall within one
\* second of a whole-second column, a message is in the transcript or told by
\* the latest summary (summarize repeats the summary before it).
THEOREM NothingIsForgotten == Spec => []NothingForgotten
<1>1. WellFormed /\ (Ordered /\ OneAtATime) => NothingForgotten
  <2> SUFFICES ASSUME WellFormed, Ordered, OneAtATime PROVE NothingForgotten
    OBVIOUS
  <2> DEFINE distinct == \A i, j \in DOMAIN sorder : i # j => sorder[i].at # sorder[j].at
  <2>1. SUFFICES ASSUME mode = "exact" \/ (mode = "serial" /\ distinct), NEW i \in DOMAIN db.msgs,
                        db.msgs[i].by # NoSummary
                 PROVE  i \in Told(db, get_latest_summary(db))
    BY DEF NothingForgotten
  <2>2. Exact(db, sorder)
    BY <2>1 DEF Exact, Distinct
  <2>3. TellsAll(db, sorder)
    BY <2>1 DEF OneAtATime, Holds
  <2>4. PICK x : Top(db, x) /\ i \in db.sums[x].told
    BY <2>1, <2>2, <2>3 DEF TellsAll
  <2>5. sorder \in Seq(Row) /\ SumsFine(db) /\ DOMAIN db.sums \subseteq IdsOf(sorder)
    BY DEF WellFormed, Good, Known
  <2>6. get_latest_summary(db) = x /\ x # NoSummary
    BY <2>2, <2>4, <2>5, LatestTop
  <2> QED
    BY <2>4, <2>6 DEF Told
<1> QED
  BY <1>1, MemoryWellFormed, RequestsOneAtATime, PTL

=============================================================================
