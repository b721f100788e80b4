----------------------------- MODULE DraftProofs -----------------------------
(***************************************************************************)
(* Theorems about Merkle, Client, Form, Editor and Review: of a tree of    *)
(* any size exactly the proofs are accepted that its builder makes; money  *)
(* goes into the token of the campaign, the chain gets what was written,   *)
(* and what it gets can be paid; and the pages show what they send, for    *)
(* any entries, files, tokens and decimals.                                *)
(***************************************************************************)
EXTENDS DraftProperties, FiniteSetTheorems, TLAPS

(* ------------------------------- induction ------------------------------ *)

(* The natural numbers are well-founded; and induction, for which the set  *)
(* of the numbers that have a property stands for the property.            *)
LEMMA Least ==
    ASSUME NEW T, T \subseteq Nat, T # {}
    PROVE  \E x \in T : \A y \in T : x <= y
<1> DEFINE R == {ss \in Nat \X Nat : ss[1] < ss[2]}
<1>1. IsWellFoundedOn(R, Nat)
  BY NatLessThanWellFounded DEF OpToRel
<1>2. ASSUME NEW x \in Nat, NEW y \in Nat, <<y, x>> \notin R PROVE x <= y
  BY <1>2
<1> HIDE DEF R
<1>3. PICK x \in T : \A y \in T : ~ (<<y, x>> \in R)
  BY <1>1, WFMin
<1>4. ASSUME NEW y \in T PROVE x <= y
  BY <1>2, <1>3
<1> QED BY <1>4

LEMMA Induction ==
    ASSUME NEW S, 0 \in S, \A n \in Nat : n \in S => n + 1 \in S
    PROVE  \A n \in Nat : n \in S
<1> SUFFICES ASSUME Nat \ S # {} PROVE FALSE
  OBVIOUS
<1>1. PICK x \in Nat \ S : \A y \in Nat \ S : x <= y
  BY Least
<1>2. x # 0 /\ x - 1 \in Nat /\ x - 1 \notin Nat \ S
  BY <1>1
<1>3. x \in S
  BY <1>2
<1> QED BY <1>1, <1>3

(* The least and the greatest of some numbers, one for each of 1 .. n.     *)
LEMMA Extremes ==
    ASSUME NEW n \in Nat \ {0}, NEW f, \A i \in 1 .. n : f[i] \in Nat
    PROVE  LET values == {f[i] : i \in 1 .. n} IN
           /\ Min(values) \in values /\ \A i \in 1 .. n : Min(values) <= f[i]
           /\ Max(values) \in values /\ \A i \in 1 .. n : f[i] <= Max(values)
<1> DEFINE values == {f[i] : i \in 1 .. n}
<1>1. values \subseteq Nat /\ f[1] \in values
  OBVIOUS
<1>2. \E x \in values : \A y \in values : x <= y
  BY <1>1, Least
<1> DEFINE S == {k \in Nat : k >= 1 /\ k <= n =>
                    \E j \in 1 .. k : \A i \in 1 .. k : f[i] <= f[j]}
<1>3. 0 \in S
  OBVIOUS
<1>4. ASSUME NEW k \in Nat, k \in S PROVE k + 1 \in S
  <2> SUFFICES ASSUME k + 1 <= n
               PROVE  \E j \in 1 .. (k + 1) : \A i \in 1 .. (k + 1) : f[i] <= f[j]
    OBVIOUS
  <2>1. CASE k = 0
    BY <2>1
  <2>2. CASE k # 0
    <3>1. PICK j \in 1 .. k : \A i \in 1 .. k : f[i] <= f[j]
      BY <1>4, <2>2
    <3>2. f[j] \in Nat /\ f[k + 1] \in Nat
      BY <3>1
    <3>3. CASE f[k + 1] <= f[j]
      BY <3>1, <3>3
    <3>4. CASE f[j] < f[k + 1]
      <4>1. \A i \in 1 .. (k + 1) : f[i] <= f[k + 1]
        BY <3>1, <3>2, <3>4
      <4> QED BY <4>1
    <3> QED BY <3>2, <3>3, <3>4
  <2> QED BY <2>1, <2>2
<1>5. n \in S
  <2> HIDE DEF S
  <2> QED BY <1>3, <1>4, Induction
<1>6. \E x \in values : \A y \in values : x >= y
  BY <1>5
<1>7. Min(values) \in values /\ \A y \in values : Min(values) <= y
  BY <1>2 DEF Min
<1>8. Max(values) \in values /\ \A y \in values : Max(values) >= y
  BY <1>6 DEF Max
<1>9. \A i \in 1 .. n : f[i] \in values
  OBVIOUS
<1> HIDE DEF values
<1>10. \A i \in 1 .. n : Min(values) <= f[i]
  BY <1>7, <1>9
<1>11. \A i \in 1 .. n : f[i] <= Max(values)
  BY <1>1, <1>8, <1>9
<1> QED BY <1>7, <1>8, <1>10, <1>11 DEF values

(* So has every set of numbers that has an end.                            *)
LEMMA Greatest ==
    ASSUME NEW n \in Nat, NEW T, T \subseteq 1 .. n, T # {}
    PROVE  \E m \in T : \A j \in T : j <= m
<1> DEFINE D == {n - j : j \in T}
<1>1. D \subseteq Nat /\ D # {}
  <2>1. \A j \in T : j \in 1 .. n /\ n - j \in Nat
    OBVIOUS
  <2>2. PICK j \in T : TRUE
    OBVIOUS
  <2>3. n - j \in D
    OBVIOUS
  <2> QED BY <2>1, <2>3
<1>2. PICK x \in D : \A y \in D : x <= y
  <2> HIDE DEF D
  <2> QED BY <1>1, Least
<1>3. PICK m \in T : x = n - m
  BY <1>2
<1>4. ASSUME NEW j \in T PROVE j <= m
  <2>1. n - m <= n - j
    BY <1>2, <1>3
  <2> QED BY <2>1
<1> QED BY <1>3, <1>4

(* ------------------------------- shifting ------------------------------- *)

(* A shift of an index by one place more halves it once more.              *)
LEMMA ShiftedBy ==
    ASSUME NEW index \in Nat, NEW times \in Nat
    PROVE  /\ Shifted(index, times) \in Nat
           /\ Shifted(index, 0) = index
           /\ Shifted(index, times + 1) = Shifted(index, times) \div 2
<1> DEFINE Is(f, m) == \A k \in 0 .. m : f[k] = IF k = 0 THEN index ELSE f[k - 1] \div 2
           S == {m \in Nat : \E f : Is(f, m)}
           idx(m) == CHOOSE f : f = [k \in 0 .. m |-> IF k = 0 THEN index ELSE f[k - 1] \div 2]
<1>1. 0 \in S
  <2> DEFINE g == [k \in 0 .. 0 |-> index]
  <2>1. Is(g, 0)
    OBVIOUS
  <2>2. \E f : Is(f, 0)
    BY <2>1
  <2> HIDE DEF Is
  <2> QED BY <2>2
<1>2. ASSUME NEW m \in Nat, m \in S PROVE m + 1 \in S
  <2>1. PICK f : Is(f, m)
    BY <1>2
  <2> DEFINE g == [k \in 0 .. (m + 1) |-> IF k <= m THEN f[k] ELSE f[m] \div 2]
  <2>2. Is(g, m + 1)
    BY <2>1
  <2> HIDE DEF g
  <2>3. \E h : Is(h, m + 1)
    BY <2>2
  <2> HIDE DEF Is
  <2> QED BY <2>3
<1>3. ASSUME NEW m \in Nat PROVE \E f : Is(f, m)
  <2>1. m \in S
    <3> HIDE DEF S
    <3> QED BY <1>1, <1>2, Induction
  <2> QED BY <2>1
<1>4. ASSUME NEW m \in Nat PROVE Is(idx(m), m)
  <2>1. PICK f : Is(f, m)
    BY <1>3
  <2> DEFINE g == [k \in 0 .. m |-> f[k]]
  <2>2. g = [k \in 0 .. m |-> IF k = 0 THEN index ELSE g[k - 1] \div 2]
    BY <2>1
  <2> HIDE DEF g
  <2>3. idx(m) = [k \in 0 .. m |-> IF k = 0 THEN index ELSE idx(m)[k - 1] \div 2]
    BY <2>2
  <2> QED BY <2>3
<1>5. ASSUME NEW m \in Nat PROVE Shifted(index, m) = idx(m)[m]
  BY DEF Shifted
<1> HIDE DEF idx
<1> DEFINE U == {k \in Nat : \A m, p \in Nat : k <= m /\ k <= p =>
                                idx(m)[k] = idx(p)[k] /\ idx(m)[k] \in Nat}
<1>6. 0 \in U
  BY <1>4
<1>7. ASSUME NEW k \in Nat, k \in U PROVE k + 1 \in U
  <2> SUFFICES ASSUME NEW m \in Nat, NEW p \in Nat, k + 1 <= m, k + 1 <= p
               PROVE  idx(m)[k + 1] = idx(p)[k + 1] /\ idx(m)[k + 1] \in Nat
    OBVIOUS
  <2>1. idx(m)[k] = idx(p)[k] /\ idx(m)[k] \in Nat
    BY <1>7
  <2>2. idx(m)[k + 1] = idx(m)[k] \div 2 /\ idx(p)[k + 1] = idx(p)[k] \div 2
    BY <1>4
  <2> QED BY <2>1, <2>2
<1>8. times \in U
  <2> HIDE DEF U
  <2> QED BY <1>6, <1>7, Induction
<1>9. idx(times)[times] = idx(times + 1)[times] /\ idx(times)[times] \in Nat
  BY <1>8
<1>10. idx(times + 1)[times + 1] = idx(times + 1)[times] \div 2
  BY <1>4
<1>11. idx(0)[0] = index
  BY <1>4
<1> QED BY <1>5, <1>9, <1>10, <1>11

(* The longest proof: as many places as n - 1 has.                         *)
LEMMA ProofLength ==
    ASSUME NEW n \in Nat \ {0}
    PROVE  /\ MaxProofLen(n) \in Nat /\ MaxProofLen(n) < n
           /\ Shifted(n - 1, MaxProofLen(n)) = 0
           /\ \A e \in Nat : e < MaxProofLen(n) => Shifted(n - 1, e) # 0
<1> DEFINE x == n - 1
<1>0. x \in Nat /\ \A k \in Nat : /\ Shifted(x, k) \in Nat /\ Shifted(x, 0) = x
                                  /\ Shifted(x, k + 1) = Shifted(x, k) \div 2
  <2>1. x \in Nat
    OBVIOUS
  <2> QED BY <2>1, ShiftedBy
<1>1. CASE n = 1
  <2>1. MaxProofLen(n) = 0 /\ x = 0
    BY <1>1 DEF MaxProofLen
  <2> QED BY <1>0, <2>1
<1>2. CASE n > 1
  <2> DEFINE S == {k \in Nat : Shifted(x, k) = 0 \/ Shifted(x, k) <= x - k}
             Zero == {k \in Nat : Shifted(x, k) = 0}
             Is(d) == Shifted(n - 1, d) = 0 /\ \A e \in 0 .. (d - 1) : Shifted(n - 1, e) # 0
  <2>1. 0 \in S
    BY <1>0
  <2>2. ASSUME NEW k \in Nat, k \in S PROVE k + 1 \in S
    BY <1>0, <2>2
  <2>3. x \in S
    <3> HIDE DEF S, x
    <3> QED BY <1>0, <2>1, <2>2, Induction
  <2>4. Shifted(x, x) \in Nat
    BY <1>0
  <2>5. Shifted(x, x) = 0
    BY <1>0, <2>3, <2>4
  <2>6. x \in Zero /\ Zero \subseteq Nat
    BY <1>0, <2>5
  <2>7. PICK d \in Zero : \A y \in Zero : d <= y
    <3> HIDE DEF Zero
    <3> QED BY <2>6, Least
  <2>8. d \in 0 .. n /\ Is(d)
    <3>1. d <= x
      BY <2>6, <2>7
    <3>2. \A e \in 0 .. (d - 1) : Shifted(n - 1, e) # 0
      BY <2>7
    <3> QED BY <1>0, <2>7, <3>1, <3>2
  <2>9. MaxProofLen(n) = CHOOSE c \in 0 .. n : Is(c)
    BY <1>2 DEF MaxProofLen
  <2> HIDE DEF Is
  <2>10. MaxProofLen(n) \in 0 .. n /\ Is(MaxProofLen(n))
    BY <2>8, <2>9
  <2>11. MaxProofLen(n) <= x
    <3>0. SUFFICES ASSUME x < MaxProofLen(n) PROVE FALSE
      BY <1>0, <2>10
    <3> QED BY <1>0, <2>5, <2>10, <3>0 DEF Is
  <2> QED BY <2>10, <2>11 DEF Is
<1> QED BY <1>1, <1>2

(* ---------------------------------- sums -------------------------------- *)

(* A sum goes from one amount to the next.                                 *)
LEMMA AddedUp ==
    ASSUME NEW amounts, Len(amounts) \in Nat
    PROVE  \E sum : /\ Added(amounts) = sum[Len(amounts)]
                    /\ \A k \in 0 .. Len(amounts) :
                         sum[k] = IF k = 0 THEN 0 ELSE sum[k - 1] + amounts[k]
<1> DEFINE n == Len(amounts)
           Is(f, m) == \A k \in 0 .. m : f[k] = IF k = 0 THEN 0 ELSE f[k - 1] + amounts[k]
           S == {m \in Nat : \E f : Is(f, m)}
           sum == CHOOSE f : f = [k \in 0 .. n |-> IF k = 0 THEN 0 ELSE f[k - 1] + amounts[k]]
<1>1. 0 \in S
  <2> DEFINE g == [k \in 0 .. 0 |-> 0]
  <2>1. Is(g, 0)
    OBVIOUS
  <2> HIDE DEF g
  <2>2. \E f : Is(f, 0)
    BY <2>1
  <2> HIDE DEF Is
  <2> QED BY <2>2
<1>2. ASSUME NEW m \in Nat, m \in S PROVE m + 1 \in S
  <2>1. PICK f : Is(f, m)
    BY <1>2
  <2> DEFINE g == [k \in 0 .. (m + 1) |-> IF k <= m THEN f[k] ELSE f[m] + amounts[m + 1]]
  <2>2. Is(g, m + 1)
    BY <2>1
  <2> HIDE DEF g
  <2>3. \E h : Is(h, m + 1)
    BY <2>2
  <2> HIDE DEF Is
  <2> QED BY <2>3
<1>3. PICK f : Is(f, n)
  <2>1. n \in S
    <3> HIDE DEF S, n
    <3> QED BY <1>1, <1>2, Induction DEF n
  <2> QED BY <2>1
<1> DEFINE g == [k \in 0 .. n |-> f[k]]
<1>4. g = [k \in 0 .. n |-> IF k = 0 THEN 0 ELSE g[k - 1] + amounts[k]]
  BY <1>3
<1> HIDE DEF g
<1>5. sum = [k \in 0 .. n |-> IF k = 0 THEN 0 ELSE sum[k - 1] + amounts[k]]
  BY <1>4
<1>6. Added(amounts) = sum[n]
  BY DEF Added
<1> HIDE DEF sum
<1> QED BY <1>5, <1>6

(* A function on 1 .. m is a sequence. *)
OfLength(f, m) == f = [i \in 1 .. m |-> f[i]]

LEMMA AsSequence ==
    ASSUME NEW m \in Nat, NEW f, OfLength(f, m)
    PROVE  f \in Seq({f[i] : i \in 1 .. m}) /\ Len(f) = m /\ DOMAIN f = 1 .. m
<1> DEFINE S == {f[i] : i \in 1 .. m}
<1>1. f \in [1 .. m -> S]
  BY DEF OfLength
<1>2. f \in Seq(S)
  BY <1>1
<1>3. DOMAIN f = 1 .. m
  BY <1>1
<1> HIDE DEF S
<1>4. Len(f) = m
  BY <1>2, <1>3
<1> QED BY <1>2, <1>3, <1>4 DEF S

Lengthened(a, f, x, m) ==
    OfLength(a, m + 1) /\ a[m + 1] = x /\ \A i \in 1 .. m : a[i] = f[i]

LEMMA Appended ==
    ASSUME NEW m \in Nat, NEW f, OfLength(f, m), NEW x
    PROVE  Lengthened(Append(f, x), f, x, m)
<1> DEFINE S == {f[i] : i \in 1 .. m} \cup {x}
<1>1. f \in Seq({f[i] : i \in 1 .. m}) /\ Len(f) = m /\ DOMAIN f = 1 .. m
  BY AsSequence
<1>2. f \in Seq(S) /\ x \in S
  BY <1>1
<1> HIDE DEF S
<1>3. /\ Append(f, x) \in Seq(S) /\ Len(Append(f, x)) = m + 1
      /\ \A i \in 1 .. m : Append(f, x)[i] = f[i]
      /\ Append(f, x)[m + 1] = x
  BY <1>1, <1>2
<1> DEFINE a == Append(f, x)
<1>4. a \in Seq(S) /\ Len(a) = m + 1
  BY <1>3
<1> HIDE DEF a
<1>5. a \in [1 .. (m + 1) -> S]
  BY <1>4
<1>6. a = [i \in 1 .. (m + 1) |-> a[i]]
  BY <1>5
<1> QED BY <1>3, <1>6 DEF OfLength, Lengthened, a

(* ------------------------------- the tree ------------------------------- *)

(* The sizes of the layers of a tree, halved from one to the next and      *)
(* rounded up, and its first layers.                                       *)
Size(n, k) == Shifted(n - 1, k - 1) + 1

GrownTo(ls, leaves, c) ==
    /\ OfLength(ls, c)
    /\ \A k \in 1 .. c : OfLength(ls[k], Size(Len(leaves), k))
    /\ \A i \in 1 .. Len(leaves) : ls[1][i] = LeafHash(leaves[i])
    /\ \A k \in 1 .. c : k # c => ls[k + 1] = NextLayer(ls[k])

Grown(ls, leaves) == GrownTo(ls, leaves, MaxProofLen(Len(leaves)) + 1)

LEMMA Sizes ==
    ASSUME NEW n \in Nat \ {0}, NEW k \in Nat \ {0}
    PROVE  /\ Size(n, k) \in Nat \ {0} /\ Size(n, 1) = n
           /\ Size(n, k + 1) = (Size(n, k) + 1) \div 2
           /\ k <= MaxProofLen(n) => Size(n, k) > 1
           /\ Size(n, MaxProofLen(n) + 1) = 1
<1> DEFINE x == n - 1
           j == k - 1
<1>1. x \in Nat /\ j \in Nat /\ k = j + 1
  OBVIOUS
<1>2. /\ Shifted(x, j) \in Nat /\ Shifted(x, 0) = x
      /\ Shifted(x, j + 1) = Shifted(x, j) \div 2
  BY <1>1, ShiftedBy
<1>3. /\ MaxProofLen(n) \in Nat /\ Shifted(x, MaxProofLen(n)) = 0
      /\ j < MaxProofLen(n) => Shifted(x, j) # 0
  BY <1>1, ProofLength
<1>4. Size(n, k) = Shifted(x, j) + 1 /\ Size(n, 1) = Shifted(x, 0) + 1
      /\ Size(n, k + 1) = Shifted(x, j + 1) + 1
      /\ Size(n, MaxProofLen(n) + 1) = Shifted(x, MaxProofLen(n)) + 1
  <2>1. (k + 1) - 1 = j + 1 /\ 1 - 1 = 0 /\ (MaxProofLen(n) + 1) - 1 = MaxProofLen(n)
    BY <1>1, <1>3
  <2> QED BY <2>1 DEF Size
<1> HIDE DEF x, j
<1>5. Size(n, 1) = n
  BY <1>2, <1>4 DEF x
<1> QED BY <1>1, <1>2, <1>3, <1>4, <1>5

(* A layer on top of a layer. *)
LEMMA LayerOver ==
    ASSUME NEW m \in Nat \ {0}, NEW layer, OfLength(layer, m)
    PROVE  /\ OfLength(NextLayer(layer), (m + 1) \div 2)
           /\ \A i \in 1 .. ((m + 1) \div 2) :
                NextLayer(layer)[i] = NodeHash(layer[2 * i - 1], layer[IF 2 * i > m THEN m ELSE 2 * i])
<1>1. Len(layer) = m
  BY AsSequence
<1> QED BY <1>1 DEF NextLayer, OfLength

LEMMA GrownBase ==
    ASSUME NEW leaves, Len(leaves) \in Nat \ {0}, DOMAIN leaves = 1 .. Len(leaves)
    PROVE  GrownTo(<<[i \in DOMAIN leaves |-> LeafHash(leaves[i])]>>, leaves, 1)
<1> DEFINE base == [i \in DOMAIN leaves |-> LeafHash(leaves[i])]
<1>1. Size(Len(leaves), 1) = Len(leaves)
  BY Sizes
<1>2. OfLength(base, Size(Len(leaves), 1)) /\ \A i \in 1 .. Len(leaves) : base[i] = LeafHash(leaves[i])
  BY <1>1 DEF OfLength
<1> HIDE DEF base
<1>3. OfLength(<<base>>, 1) /\ <<base>>[1] = base
  BY DEF OfLength
<1>4. GrownTo(<<base>>, leaves, 1)
  BY <1>2, <1>3 DEF GrownTo
<1> QED BY <1>4 DEF base

LEMMA GrownNext ==
    ASSUME NEW leaves, Len(leaves) \in Nat \ {0}, NEW c \in Nat \ {0}, NEW ls, GrownTo(ls, leaves, c)
    PROVE  /\ Len(ls) = c /\ Len(ls[c]) = Size(Len(leaves), c)
           /\ GrownTo(Append(ls, NextLayer(ls[c])), leaves, c + 1)
<1> DEFINE n == Len(leaves)
           next == NextLayer(ls[c])
           up == Append(ls, next)
<1>1. /\ Size(n, c) \in Nat \ {0} /\ Size(n, c + 1) = (Size(n, c) + 1) \div 2
      /\ OfLength(ls, c) /\ OfLength(ls[c], Size(n, c))
  BY Sizes DEF GrownTo
<1>2. Len(ls) = c /\ Len(ls[c]) = Size(n, c)
  BY <1>1, AsSequence
<1>3. OfLength(next, Size(n, c + 1))
  BY <1>1, LayerOver
<1> HIDE DEF next
<1>4. OfLength(up, c + 1) /\ up[c + 1] = next /\ \A i \in 1 .. c : up[i] = ls[i]
  <2>1. c \in Nat /\ OfLength(ls, c)
    BY <1>1
  <2>2. Lengthened(Append(ls, next), ls, next, c)
    BY <2>1, Appended
  <2> QED BY <2>2 DEF Lengthened
<1> HIDE DEF up
<1>5. ASSUME NEW k \in 1 .. (c + 1) PROVE OfLength(up[k], Size(n, k))
  BY <1>3, <1>4 DEF GrownTo
<1>6. \A i \in 1 .. n : up[1][i] = LeafHash(leaves[i])
  BY <1>4 DEF GrownTo
<1>7. ASSUME NEW k \in 1 .. c PROVE up[k + 1] = NextLayer(up[k])
  <2>1. CASE k = c
    BY <1>4, <2>1 DEF next
  <2>2. CASE k # c
    BY <1>4, <2>2 DEF GrownTo
  <2> QED BY <2>1, <2>2
<1>8. GrownTo(up, leaves, c + 1)
  BY <1>4, <1>5, <1>6, <1>7 DEF GrownTo
<1> QED BY <1>2, <1>8 DEF up, next

(* However the layers are put on one another, as long as there is one to   *)
(* be put, the tree is grown in the end.                                   *)
LEMMA Growth ==
    ASSUME NEW leaves, Len(leaves) \in Nat \ {0}, DOMAIN leaves = 1 .. Len(leaves),
           NEW m \in Nat, m >= Len(leaves), NEW u,
           u[1] = <<[i \in DOMAIN leaves |-> LeafHash(leaves[i])]>>,
           \A k \in 2 .. m : \A c \in Nat \ {0} :
             GrownTo(u[k - 1], leaves, c) =>
                u[k] = IF Size(Len(leaves), c) = 1 THEN u[k - 1]
                       ELSE Append(u[k - 1], NextLayer(u[k - 1][c]))
    PROVE  Grown(u[m], leaves)
<1> DEFINE n == Len(leaves)
           L == MaxProofLen(n)
           height(k) == IF k <= L + 1 THEN k ELSE L + 1
           S == {k \in Nat : k >= 1 /\ k <= m => GrownTo(u[k], leaves, height(k))}
<1>0. n \in Nat \ {0} /\ L \in Nat /\ L < n /\ m \in Nat
  BY ProofLength
<1>1. 0 \in S
  OBVIOUS
<1>2. ASSUME NEW k \in Nat, k \in S PROVE k + 1 \in S
  <2> SUFFICES ASSUME k + 1 <= m PROVE GrownTo(u[k + 1], leaves, height(k + 1))
    OBVIOUS
  <2>1. CASE k = 0
    <3>1. u[k + 1] = <<[i \in DOMAIN leaves |-> LeafHash(leaves[i])]>> /\ height(k + 1) = 1
      BY <1>0, <2>1
    <3> HIDE DEF height, n, L
    <3> QED BY <3>1, GrownBase
  <2>2. CASE k # 0
    <3> DEFINE c == height(k)
               ls == u[k]
    <3>1. GrownTo(ls, leaves, c) /\ c \in Nat \ {0} /\ c <= L + 1
      BY <1>0, <1>2, <2>2
    <3>2. u[k + 1] = IF Size(n, c) = 1 THEN ls ELSE Append(ls, NextLayer(ls[c]))
      <4>1. k + 1 \in 2 .. m /\ (k + 1) - 1 = k
        BY <2>2
      <4> HIDE DEF height, L
      <4> QED BY <3>1, <4>1
    <3> HIDE DEF c, ls, n
    <3>3. GrownTo(Append(ls, NextLayer(ls[c])), leaves, c + 1)
      BY <1>0, <3>1, GrownNext DEF n
    <3> HIDE DEF L
    <3>4. Size(n, L + 1) = 1 /\ (c <= L => Size(n, c) > 1 /\ Size(n, c) \in Nat)
      BY <1>0, <3>1, Sizes DEF L
    <3>5. CASE k > L
      BY <1>0, <3>1, <3>2, <3>3, <3>4, <3>5 DEF c
    <3>6. CASE k <= L
      <4>1. c = k /\ height(k + 1) = k + 1
        BY <1>0, <3>6 DEF c
      <4>2. u[k + 1] = Append(ls, NextLayer(ls[c]))
        BY <3>2, <3>3, <3>4, <3>6, <4>1
      <4> HIDE DEF height
      <4> QED BY <3>3, <4>1, <4>2
    <3> QED BY <1>0, <3>5, <3>6
  <2> QED BY <2>1, <2>2
<1>3. m \in S
  <2> HIDE DEF S
  <2> QED BY <1>0, <1>1, <1>2, Induction
<1> QED BY <1>0, <1>3 DEF Grown

LEMMA LayersGrow ==
    ASSUME NEW leaves, Len(leaves) \in Nat \ {0}, DOMAIN leaves = 1 .. Len(leaves)
    PROVE  Grown(Layers(leaves), leaves)
<1> DEFINE n == Len(leaves)
           base == <<[i \in DOMAIN leaves |-> LeafHash(leaves[i])]>>
           Next2(t) == LET top == t[Len(t)]
                       IN  IF Len(top) = 1 THEN t ELSE Append(t, NextLayer(top))
           Is(f, m) == \A k \in 1 .. m : f[k] = IF k = 1 THEN base ELSE Next2(f[k - 1])
           S == {m \in Nat : \E f : Is(f, m)}
           upTo == CHOOSE f : f = [k \in 1 .. n |-> IF k = 1 THEN base ELSE Next2(f[k - 1])]
<1>0. Layers(leaves) = upTo[n]
  BY DEF Layers
<1> HIDE DEF base, Next2
<1>1. 0 \in S
  <2>1. Is(<<>>, 0)
    OBVIOUS
  <2>2. \E f : Is(f, 0)
    BY <2>1
  <2> HIDE DEF Is
  <2> QED BY <2>2
<1>2. ASSUME NEW m \in Nat, m \in S PROVE m + 1 \in S
  <2>1. PICK f : Is(f, m)
    BY <1>2
  <2> DEFINE g == [k \in 1 .. (m + 1) |-> IF k <= m THEN f[k] ELSE IF m = 0 THEN base ELSE Next2(f[m])]
  <2>2. /\ \A k \in 1 .. m : g[k] = f[k]
        /\ g[m + 1] = IF m = 0 THEN base ELSE Next2(f[m])
    OBVIOUS
  <2> HIDE DEF g
  <2>3. Is(g, m + 1)
    <3> SUFFICES ASSUME NEW k \in 1 .. (m + 1) PROVE g[k] = IF k = 1 THEN base ELSE Next2(g[k - 1])
      OBVIOUS
    <3>1. CASE k = m + 1
      <4>1. CASE m = 0
        BY <2>2, <3>1, <4>1
      <4>2. CASE m # 0
        <5>1. g[k - 1] = f[m] /\ g[k] = Next2(f[m]) /\ k # 1
          BY <2>2, <3>1, <4>2
        <5> QED BY <5>1
      <4> QED BY <4>1, <4>2
    <3>2. CASE k \in 1 .. m
      <4>1. CASE k = 1
        BY <2>1, <2>2, <3>2, <4>1
      <4>2. CASE k # 1
        <5>1. g[k] = f[k] /\ g[k - 1] = f[k - 1] /\ f[k] = Next2(f[k - 1])
          BY <2>1, <2>2, <3>2, <4>2
        <5> QED BY <4>2, <5>1
      <4> QED BY <4>1, <4>2
    <3> QED BY <3>1, <3>2
  <2>4. \E h : Is(h, m + 1)
    BY <2>3
  <2> HIDE DEF Is
  <2> QED BY <2>4
<1>3. PICK f : Is(f, n)
  <2>1. n \in S
    <3> HIDE DEF S, n
    <3> QED BY <1>1, <1>2, Induction DEF n
  <2> QED BY <2>1
<1> DEFINE g == [k \in 1 .. n |-> f[k]]
<1>4. g = [k \in 1 .. n |-> IF k = 1 THEN base ELSE Next2(g[k - 1])]
  BY <1>3
<1> HIDE DEF g
<1>5. upTo = [k \in 1 .. n |-> IF k = 1 THEN base ELSE Next2(upTo[k - 1])]
  BY <1>4
<1> HIDE DEF upTo
<1>6. upTo[1] = <<[i \in DOMAIN leaves |-> LeafHash(leaves[i])]>>
  <2>1. 1 \in 1 .. n
    OBVIOUS
  <2>2. upTo[1] = base
    BY <1>5, <2>1
  <2> QED BY <2>2 DEF base
<1>7. ASSUME NEW k \in 2 .. n, NEW c \in Nat \ {0}, GrownTo(upTo[k - 1], leaves, c)
      PROVE  upTo[k] = IF Size(Len(leaves), c) = 1 THEN upTo[k - 1]
                       ELSE Append(upTo[k - 1], NextLayer(upTo[k - 1][c]))
  <2> DEFINE t == upTo[k - 1]
  <2>1. upTo[k] = Next2(t)
    BY <1>5
  <2> HIDE DEF t
  <2>2. Len(t) = c /\ Len(t[c]) = Size(Len(leaves), c)
    BY <1>7, GrownNext DEF t
  <2>3. Next2(t) = IF Size(Len(leaves), c) = 1 THEN t ELSE Append(t, NextLayer(t[c]))
    BY <2>2 DEF Next2
  <2> QED BY <2>1, <2>3 DEF t
<1>8. Grown(upTo[n], leaves)
  <2>1. n \in Nat /\ n >= Len(leaves)
    OBVIOUS
  <2> HIDE DEF n
  <2> QED BY <1>6, <1>7, <2>1, Growth
<1> QED BY <1>0, <1>8

(* There is one such tree. *)
LEMMA OneTree ==
    ASSUME NEW leaves, Len(leaves) \in Nat \ {0}, NEW a, NEW b, Grown(a, leaves), Grown(b, leaves)
    PROVE  a = b
<1> DEFINE n == Len(leaves)
           c == MaxProofLen(n) + 1
           S == {k \in Nat : k >= 1 /\ k <= c => a[k] = b[k]}
<1>0. n \in Nat \ {0} /\ c \in Nat /\ Size(n, 1) = n
  <2>1. 1 \in Nat \ {0} /\ n \in Nat \ {0} /\ MaxProofLen(n) \in Nat
    BY ProofLength
  <2>2. c \in Nat
    BY <2>1
  <2> HIDE DEF n, c
  <2>3. Size(n, 1) = n
    BY <2>1, Sizes
  <2> QED BY <2>1, <2>2, <2>3
<1>0a. GrownTo(a, leaves, c) /\ GrownTo(b, leaves, c)
  BY DEF Grown
<1> HIDE DEF c
<1>1. 0 \in S
  OBVIOUS
<1>2. ASSUME NEW k \in Nat, k \in S PROVE k + 1 \in S
  <2> SUFFICES ASSUME k + 1 <= c PROVE a[k + 1] = b[k + 1]
    OBVIOUS
  <2>1. CASE k = 0
    <3>1. OfLength(a[1], n) /\ OfLength(b[1], n) /\ \A i \in 1 .. n : a[1][i] = b[1][i]
      BY <1>0, <1>0a, <2>1 DEF GrownTo
    <3> QED BY <2>1, <3>1 DEF OfLength
  <2>2. CASE k # 0
    <3>1. k \in 1 .. c /\ k # c /\ a[k] = b[k]
      BY <1>0, <1>2, <2>2
    <3> QED BY <1>0a, <3>1 DEF GrownTo
  <2> QED BY <2>1, <2>2
<1>3. \A k \in Nat : k \in S
  <2> HIDE DEF S
  <2> QED BY <1>1, <1>2, Induction
<1>4. \A k \in 1 .. c : a[k] = b[k]
  BY <1>0, <1>3
<1>5. OfLength(a, c) /\ OfLength(b, c)
  BY <1>0a DEF GrownTo
<1> QED BY <1>4, <1>5 DEF OfLength

(* The client library grows the same tree.                                 *)
LEMMA ClientLayer ==
    ASSUME NEW m \in Nat \ {0}, NEW layer, OfLength(layer, m)
    PROVE  [i \in 1 .. Len(Working(layer)) \div 2 |->
                HashOfNode(Working(layer)[2 * i - 1], Working(layer)[2 * i])] = NextLayer(layer)
<1> DEFINE w == Working(layer)
           h == (m + 1) \div 2
<1>1. Len(layer) = m
  BY AsSequence
<1>2. m \in Nat
  OBVIOUS
<1>3. /\ Len(Append(layer, layer[m])) = m + 1 /\ Append(layer, layer[m])[m + 1] = layer[m]
      /\ \A i \in 1 .. m : Append(layer, layer[m])[i] = layer[i]
  <2> DEFINE x == layer[m]
  <2> HIDE DEF x
  <2>1. x = layer[m]
    BY DEF x
  <2>2. /\ OfLength(Append(layer, x), m + 1) /\ Append(layer, x)[m + 1] = x
        /\ \A i \in 1 .. m : Append(layer, x)[i] = layer[i]
    <3>1. m \in Nat /\ OfLength(layer, m)
      BY <1>2
    <3>2. Lengthened(Append(layer, x), layer, x, m)
      BY <3>1, Appended
    <3> QED BY <3>2 DEF Lengthened
  <2>3. Len(Append(layer, x)) = m + 1
    <3>1. m + 1 \in Nat
      BY <1>2
    <3> QED BY <2>2, <3>1, AsSequence
  <2> QED BY <2>1, <2>2, <2>3
<1>4. Len(w) \div 2 = h /\ \A i \in 1 .. h : /\ w[2 * i - 1] = layer[2 * i - 1]
                                             /\ w[2 * i] = layer[IF 2 * i > m THEN m ELSE 2 * i]
  <2>1. CASE m % 2 = 1
    <3>1. w = Append(layer, layer[m])
      BY <1>1, <2>1 DEF Working
    <3>2. Len(w) = m + 1 /\ w[m + 1] = layer[m] /\ \A i \in 1 .. m : w[i] = layer[i]
      BY <1>3, <3>1
    <3> HIDE DEF w
    <3> QED BY <2>1, <3>2
  <2>2. CASE m % 2 # 1
    <3>1. w = layer
      BY <1>1, <2>2 DEF Working
    <3> HIDE DEF w
    <3> QED BY <1>1, <2>2, <3>1
  <2> QED BY <2>1, <2>2
<1> HIDE DEF w
<1>5. [i \in 1 .. Len(w) \div 2 |-> HashOfNode(w[2 * i - 1], w[2 * i])]
        = [i \in 1 .. h |-> NodeHash(layer[2 * i - 1], layer[IF 2 * i > m THEN m ELSE 2 * i])]
  BY <1>4 DEF HashOfNode, NodeHash
<1>6. NextLayer(layer) = [i \in 1 .. h |-> NodeHash(layer[2 * i - 1], layer[IF 2 * i > m THEN m ELSE 2 * i])]
  BY <1>1 DEF NextLayer
<1> QED BY <1>5, <1>6 DEF w

(* The bytes of a leaf are in the order of its fields. *)
LEMMA ClientLeaf ==
    ASSUME NEW leaf PROVE HashOfLeaf(leaf) = LeafHash(leaf)
<1> DEFINE place == [leaf_index |-> 1, beneficiary |-> 2, amount |-> 3, release_type |-> 4,
                     start_time |-> 5, cliff_time |-> 6, end_time |-> 7, milestone_idx |-> 8]
           names == {"leaf_index", "beneficiary", "amount", "release_type",
                     "start_time", "cliff_time", "end_time", "milestone_idx"}
           at(i) == CHOOSE field \in DOMAIN place : place[field] = i
<1>1. DOMAIN place = names
  OBVIOUS
<1>2. /\ place["leaf_index"] = 1 /\ place["beneficiary"] = 2 /\ place["amount"] = 3
      /\ place["release_type"] = 4 /\ place["start_time"] = 5 /\ place["cliff_time"] = 6
      /\ place["end_time"] = 7 /\ place["milestone_idx"] = 8
  OBVIOUS
<1> HIDE DEF place
<1>3. \A i \in 1 .. 8 : \E field \in DOMAIN place : place[field] = i
  BY <1>1, <1>2
<1>4. \A i \in 1 .. 8 : at(i) \in names /\ place[at(i)] = i
  BY <1>1, <1>3
<1> HIDE DEF at
<1>5. /\ at(1) = "leaf_index" /\ at(2) = "beneficiary" /\ at(3) = "amount" /\ at(4) = "release_type"
      /\ at(5) = "start_time" /\ at(6) = "cliff_time" /\ at(7) = "end_time" /\ at(8) = "milestone_idx"
  BY <1>2, <1>4
<1>6. EncodeLeaf(leaf) = [i \in 1 .. 8 |-> leaf[at(i)]]
  BY DEF EncodeLeaf, at, place
<1>7. [i \in 1 .. 8 |-> leaf[at(i)]] = Encoded(leaf)
  BY <1>5 DEF Encoded
<1> QED BY <1>6, <1>7 DEF HashOfLeaf, LeafHash

LEMMA TreeLayersGrow ==
    ASSUME NEW leaves, Len(leaves) \in Nat \ {0}, DOMAIN leaves = 1 .. Len(leaves)
    PROVE  Grown(TreeLayers(leaves), leaves)
<1> DEFINE n == Len(leaves)
           base == <<[i \in DOMAIN leaves |-> HashOfLeaf(leaves[i])]>>
           Above(layer) == [i \in 1 .. Len(Working(layer)) \div 2 |->
                               HashOfNode(Working(layer)[2 * i - 1], Working(layer)[2 * i])]
           Next2(t) == LET current == t[Len(t)]
                       IN  IF Len(current) > 1 THEN Append(t, Above(current)) ELSE t
           Is(f, m) == \A k \in 0 .. m : f[k] = IF k = 0 THEN base ELSE Next2(f[k - 1])
           S == {m \in Nat : \E f : Is(f, m)}
           tree == CHOOSE f : f = [k \in 0 .. n |-> IF k = 0 THEN base ELSE Next2(f[k - 1])]
<1>0. TreeLayers(leaves) = tree[n]
  BY DEF TreeLayers
<1> HIDE DEF base, Next2
<1>1. 0 \in S
  <2> DEFINE g == [k \in 0 .. 0 |-> base]
  <2>1. Is(g, 0)
    OBVIOUS
  <2> HIDE DEF g
  <2>2. \E f : Is(f, 0)
    BY <2>1
  <2> HIDE DEF Is
  <2> QED BY <2>2
<1>2. ASSUME NEW m \in Nat, m \in S PROVE m + 1 \in S
  <2>1. PICK f : Is(f, m)
    BY <1>2
  <2> DEFINE g == [k \in 0 .. (m + 1) |-> IF k <= m THEN f[k] ELSE Next2(f[m])]
  <2>2. /\ \A k \in 0 .. m : g[k] = f[k]
        /\ g[m + 1] = Next2(f[m])
    OBVIOUS
  <2> HIDE DEF g
  <2>3. Is(g, m + 1)
    <3> SUFFICES ASSUME NEW k \in 0 .. (m + 1) PROVE g[k] = IF k = 0 THEN base ELSE Next2(g[k - 1])
      OBVIOUS
    <3>1. CASE k = m + 1
      <4>1. g[k - 1] = f[m] /\ g[k] = Next2(f[m]) /\ k # 0
        BY <2>2, <3>1
      <4> QED BY <4>1
    <3>2. CASE k \in 0 .. m
      <4>1. CASE k = 0
        BY <2>1, <2>2, <3>2, <4>1
      <4>2. CASE k # 0
        <5>1. g[k] = f[k] /\ g[k - 1] = f[k - 1] /\ f[k] = Next2(f[k - 1])
          BY <2>1, <2>2, <3>2, <4>2
        <5> QED BY <4>2, <5>1
      <4> QED BY <4>1, <4>2
    <3> QED BY <3>1, <3>2
  <2>4. \E h : Is(h, m + 1)
    BY <2>3
  <2> HIDE DEF Is
  <2> QED BY <2>4
<1>3. PICK f : Is(f, n)
  <2>1. n \in S
    <3> HIDE DEF S, n
    <3> QED BY <1>1, <1>2, Induction DEF n
  <2> QED BY <2>1
<1> DEFINE g == [k \in 0 .. n |-> f[k]]
<1>4. g = [k \in 0 .. n |-> IF k = 0 THEN base ELSE Next2(g[k - 1])]
  BY <1>3
<1> HIDE DEF g
<1>5. tree = [k \in 0 .. n |-> IF k = 0 THEN base ELSE Next2(tree[k - 1])]
  BY <1>4
<1> HIDE DEF tree
<1>6. base = <<[i \in DOMAIN leaves |-> LeafHash(leaves[i])]>>
  BY ClientLeaf DEF base
<1> DEFINE u == [k \in 1 .. (n + 1) |-> tree[k - 1]]
<1>7. u[1] = <<[i \in DOMAIN leaves |-> LeafHash(leaves[i])]>> /\ u[n + 1] = tree[n]
  <2>1. tree[0] = base /\ u[1] = tree[1 - 1] /\ u[n + 1] = tree[(n + 1) - 1]
    BY <1>5
  <2>2. 1 - 1 = 0 /\ (n + 1) - 1 = n
    OBVIOUS
  <2> HIDE DEF u, n
  <2> QED BY <1>6, <2>1, <2>2
<1>8. ASSUME NEW k \in 2 .. (n + 1), NEW c \in Nat \ {0}, GrownTo(u[k - 1], leaves, c)
      PROVE  u[k] = IF Size(Len(leaves), c) = 1 THEN u[k - 1]
                    ELSE Append(u[k - 1], NextLayer(u[k - 1][c]))
  <2> DEFINE t == u[k - 1]
  <2>1. u[k] = Next2(t)
    <3>1. u[k] = tree[k - 1] /\ t = tree[(k - 1) - 1]
      OBVIOUS
    <3>2. k - 1 \in 0 .. n /\ k - 1 # 0
      OBVIOUS
    <3> QED BY <1>5, <3>1, <3>2
  <2> HIDE DEF t
  <2>2. /\ Len(t) = c /\ Len(t[c]) = Size(Len(leaves), c)
        /\ OfLength(t[c], Size(Len(leaves), c)) /\ Size(Len(leaves), c) \in Nat \ {0}
    <3>1. Len(t) = c /\ Len(t[c]) = Size(Len(leaves), c)
      BY <1>8, GrownNext DEF t
    <3>2. Size(Len(leaves), c) \in Nat \ {0}
      BY Sizes
    <3>3. OfLength(t[c], Size(Len(leaves), c))
      <4>1. c \in 1 .. c
        OBVIOUS
      <4> QED BY <1>8, <4>1 DEF t, GrownTo
    <3> QED BY <3>1, <3>2, <3>3
  <2>3. Above(t[c]) = NextLayer(t[c])
    BY <2>2, ClientLayer
  <2> HIDE DEF Above
  <2>4. Next2(t) = IF Size(Len(leaves), c) = 1 THEN t ELSE Append(t, NextLayer(t[c]))
    BY <2>2, <2>3 DEF Next2
  <2> QED BY <2>1, <2>4 DEF t
<1> HIDE DEF u
<1>9. Grown(u[n + 1], leaves)
  <2>1. n + 1 \in Nat /\ n + 1 >= Len(leaves)
    OBVIOUS
  <2>2. PICK m : m = n + 1
    OBVIOUS
  <2> HIDE DEF n
  <2> QED BY <1>7, <1>8, <2>1, <2>2, Growth
<1> QED BY <1>0, <1>7, <1>9

(* -------------------------------- proofs -------------------------------- *)

LEMMA HashesApart ==
    /\ \A a, b, c, d : NodeHash(a, b) = NodeHash(c, d) => a = c /\ b = d
    /\ \A leaf, a, b : LeafHash(leaf) # NodeHash(a, b)
    /\ \A x, y : LeafHash(x) = LeafHash(y) =>
         /\ x.leaf_index = y.leaf_index /\ x.beneficiary = y.beneficiary
         /\ x.amount = y.amount /\ x.release_type = y.release_type
         /\ x.start_time = y.start_time /\ x.cliff_time = y.cliff_time
         /\ x.end_time = y.end_time /\ x.milestone_idx = y.milestone_idx
<1>1. ASSUME NEW a, NEW b, NEW c, NEW d, NodeHash(a, b) = NodeHash(c, d) PROVE a = c /\ b = d
  <2>1. /\ NodeHash(a, b)[2] = a /\ NodeHash(a, b)[3] = b
        /\ NodeHash(c, d)[2] = c /\ NodeHash(c, d)[3] = d
    BY DEF NodeHash
  <2> QED BY <1>1, <2>1
<1>2. ASSUME NEW leaf, NEW a, NEW b PROVE LeafHash(leaf) # NodeHash(a, b)
  <2>1. LeafHash(leaf)[1] = "leaf" /\ NodeHash(a, b)[1] = "node"
    BY DEF LeafHash, NodeHash
  <2> QED BY <2>1
<1>3. ASSUME NEW x, NEW y, LeafHash(x) = LeafHash(y)
      PROVE  /\ x.leaf_index = y.leaf_index /\ x.beneficiary = y.beneficiary
             /\ x.amount = y.amount /\ x.release_type = y.release_type
             /\ x.start_time = y.start_time /\ x.cliff_time = y.cliff_time
             /\ x.end_time = y.end_time /\ x.milestone_idx = y.milestone_idx
  <2>1. LeafHash(x)[2] = Encoded(x) /\ LeafHash(y)[2] = Encoded(y)
    BY DEF LeafHash
  <2>2. Encoded(x) = Encoded(y)
    BY <1>3, <2>1
  <2>3. /\ Encoded(x)[1] = x.leaf_index /\ Encoded(x)[2] = x.beneficiary /\ Encoded(x)[3] = x.amount
        /\ Encoded(x)[4] = x.release_type /\ Encoded(x)[5] = x.start_time /\ Encoded(x)[6] = x.cliff_time
        /\ Encoded(x)[7] = x.end_time /\ Encoded(x)[8] = x.milestone_idx
    BY DEF Encoded
  <2>4. /\ Encoded(y)[1] = y.leaf_index /\ Encoded(y)[2] = y.beneficiary /\ Encoded(y)[3] = y.amount
        /\ Encoded(y)[4] = y.release_type /\ Encoded(y)[5] = y.start_time /\ Encoded(y)[6] = y.cliff_time
        /\ Encoded(y)[7] = y.end_time /\ Encoded(y)[8] = y.milestone_idx
    BY DEF Encoded
  <2> QED BY <2>2, <2>3, <2>4
<1> QED BY <1>1, <1>2, <1>3

LEMMA ClimbApart ==
    ASSUME NEW a, NEW b, NEW c, NEW d, NEW bit
    PROVE  /\ Climb(a, b, bit) = Climb(c, d, bit) => a = c /\ b = d
           /\ Climb(a, b, bit) = NodeHash(a, b) \/ Climb(a, b, bit) = NodeHash(b, a)
<1> USE DEF Climb
<1> QED BY HashesApart

(* The hashes on the way up. *)
Ascent(h, hash, path, index) ==
    /\ h[0] = hash
    /\ \A k \in 1 .. Len(path) : h[k] = Climb(h[k - 1], path[k], Shifted(index, k - 1) % 2)

LEMMA VerifiesUp ==
    ASSUME NEW leaf, leaf.leaf_index \in Nat, NEW path, Len(path) \in Nat, NEW rootHash
    PROVE  \E h : /\ Ascent(h, LeafHash(leaf), path, leaf.leaf_index)
                  /\ Verifies(leaf, path, rootHash) <=> h[Len(path)] = rootHash
<1> DEFINE n == Len(path)
           base == [hash |-> LeafHash(leaf), index |-> leaf.leaf_index]
           Above(below, k) == [hash  |-> Climb(below.hash, path[k], below.index % 2),
                               index |-> below.index \div 2]
           Is(f, m) == \A k \in 0 .. m : f[k] = IF k = 0 THEN base ELSE Above(f[k - 1], k)
           S == {m \in Nat : \E f : Is(f, m)}
           at == CHOOSE f : f = [k \in 0 .. n |-> IF k = 0 THEN base ELSE Above(f[k - 1], k)]
<1>0. Verifies(leaf, path, rootHash) <=> at[n].hash = rootHash
  BY DEF Verifies
<1> HIDE DEF base, Above
<1>1. 0 \in S
  <2> DEFINE g == [k \in 0 .. 0 |-> base]
  <2>1. Is(g, 0)
    OBVIOUS
  <2> HIDE DEF g
  <2>2. \E f : Is(f, 0)
    BY <2>1
  <2> HIDE DEF Is
  <2> QED BY <2>2
<1>2. ASSUME NEW m \in Nat, m \in S PROVE m + 1 \in S
  <2>1. PICK f : Is(f, m)
    BY <1>2
  <2> DEFINE g == [k \in 0 .. (m + 1) |-> IF k <= m THEN f[k] ELSE Above(f[m], m + 1)]
  <2>2. /\ \A k \in 0 .. m : g[k] = f[k]
        /\ g[m + 1] = Above(f[m], m + 1)
    OBVIOUS
  <2> HIDE DEF g
  <2>3. Is(g, m + 1)
    <3> SUFFICES ASSUME NEW k \in 0 .. (m + 1) PROVE g[k] = IF k = 0 THEN base ELSE Above(g[k - 1], k)
      OBVIOUS
    <3>1. CASE k = m + 1
      <4>1. g[k - 1] = f[m] /\ g[k] = Above(f[m], k) /\ k # 0
        BY <2>2, <3>1
      <4> QED BY <4>1
    <3>2. CASE k \in 0 .. m
      <4>1. CASE k = 0
        BY <2>1, <2>2, <3>2, <4>1
      <4>2. CASE k # 0
        <5>1. g[k] = f[k] /\ g[k - 1] = f[k - 1] /\ f[k] = Above(f[k - 1], k)
          BY <2>1, <2>2, <3>2, <4>2
        <5> QED BY <4>2, <5>1
      <4> QED BY <4>1, <4>2
    <3> QED BY <3>1, <3>2
  <2>4. \E h : Is(h, m + 1)
    BY <2>3
  <2> HIDE DEF Is
  <2> QED BY <2>4
<1>3. PICK f : Is(f, n)
  <2>1. n \in S
    <3> HIDE DEF S, n
    <3> QED BY <1>1, <1>2, Induction DEF n
  <2> QED BY <2>1
<1> DEFINE g == [k \in 0 .. n |-> f[k]]
<1>4. g = [k \in 0 .. n |-> IF k = 0 THEN base ELSE Above(g[k - 1], k)]
  BY <1>3
<1> HIDE DEF g
<1>5. at = [k \in 0 .. n |-> IF k = 0 THEN base ELSE Above(at[k - 1], k)]
  BY <1>4
<1> HIDE DEF at
<1> DEFINE h == [k \in 0 .. n |-> at[k].hash]
           T == {k \in Nat : k <= n => at[k].index = Shifted(leaf.leaf_index, k)}
<1>6. at[0] = base /\ \A k \in 1 .. n : at[k] = Above(at[k - 1], k)
  BY <1>5
<1>7. base.hash = LeafHash(leaf) /\ base.index = leaf.leaf_index
  BY DEF base
<1>8. \A below, k : /\ Above(below, k).hash = Climb(below.hash, path[k], below.index % 2)
                    /\ Above(below, k).index = below.index \div 2
  BY DEF Above
<1>9. \A k \in Nat : k \in T
  <2>1. 0 \in T
    BY <1>6, <1>7, ShiftedBy
  <2>2. ASSUME NEW k \in Nat, k \in T PROVE k + 1 \in T
    <3> SUFFICES ASSUME k + 1 <= n PROVE at[k + 1].index = Shifted(leaf.leaf_index, k + 1)
      OBVIOUS
    <3>1. at[k + 1] = Above(at[k], k + 1) /\ at[k].index = Shifted(leaf.leaf_index, k)
      <4>1. k + 1 \in 1 .. n /\ (k + 1) - 1 = k
        OBVIOUS
      <4> QED BY <1>6, <2>2, <4>1
    <3>2. Shifted(leaf.leaf_index, k + 1) = Shifted(leaf.leaf_index, k) \div 2
      BY ShiftedBy
    <3> QED BY <1>8, <3>1, <3>2
  <2> HIDE DEF T
  <2> QED BY <2>1, <2>2, Induction
<1>10. h[0] = LeafHash(leaf) /\ h[n] = at[n].hash
  BY <1>6, <1>7
<1>11. ASSUME NEW k \in 1 .. n
       PROVE  h[k] = Climb(h[k - 1], path[k], Shifted(leaf.leaf_index, k - 1) % 2)
  <2>1. h[k] = at[k].hash /\ h[k - 1] = at[k - 1].hash
    OBVIOUS
  <2>2. at[k - 1].index = Shifted(leaf.leaf_index, k - 1)
    BY <1>9
  <2>3. at[k].hash = Climb(at[k - 1].hash, path[k], at[k - 1].index % 2)
    BY <1>6, <1>8
  <2> QED BY <2>1, <2>2, <2>3
<1> HIDE DEF h
<1>12. Ascent(h, LeafHash(leaf), path, leaf.leaf_index)
  BY <1>10, <1>11 DEF Ascent
<1> QED BY <1>0, <1>10, <1>12

LEMMA VerifyProofUp ==
    ASSUME NEW hash, NEW path, Len(path) \in Nat, NEW index \in Nat, NEW rootHash
    PROVE  \E h : /\ Ascent(h, hash, path, index)
                  /\ VerifyProof(hash, path, index, rootHash) <=> h[Len(path)] = rootHash
<1> DEFINE n == Len(path)
           base == [hash |-> hash, idx |-> index]
           Above(before, k) == [hash |-> IF before.idx % 2 = 0 THEN HashOfNode(before.hash, path[k])
                                         ELSE HashOfNode(path[k], before.hash),
                                idx  |-> before.idx \div 2]
           Is(f, m) == \A k \in 0 .. m : f[k] = IF k = 0 THEN base ELSE Above(f[k - 1], k)
           S == {m \in Nat : \E f : Is(f, m)}
           step == CHOOSE f : f = [k \in 0 .. n |-> IF k = 0 THEN base ELSE Above(f[k - 1], k)]
<1>0. VerifyProof(hash, path, index, rootHash) <=> step[n].hash = rootHash
  BY DEF VerifyProof
<1> HIDE DEF base, Above
<1>1. 0 \in S
  <2> DEFINE g == [k \in 0 .. 0 |-> base]
  <2>1. Is(g, 0)
    OBVIOUS
  <2> HIDE DEF g
  <2>2. \E f : Is(f, 0)
    BY <2>1
  <2> HIDE DEF Is
  <2> QED BY <2>2
<1>2. ASSUME NEW m \in Nat, m \in S PROVE m + 1 \in S
  <2>1. PICK f : Is(f, m)
    BY <1>2
  <2> DEFINE g == [k \in 0 .. (m + 1) |-> IF k <= m THEN f[k] ELSE Above(f[m], m + 1)]
  <2>2. /\ \A k \in 0 .. m : g[k] = f[k]
        /\ g[m + 1] = Above(f[m], m + 1)
    OBVIOUS
  <2> HIDE DEF g
  <2>3. Is(g, m + 1)
    <3> SUFFICES ASSUME NEW k \in 0 .. (m + 1) PROVE g[k] = IF k = 0 THEN base ELSE Above(g[k - 1], k)
      OBVIOUS
    <3>1. CASE k = m + 1
      <4>1. g[k - 1] = f[m] /\ g[k] = Above(f[m], k) /\ k # 0
        BY <2>2, <3>1
      <4> QED BY <4>1
    <3>2. CASE k \in 0 .. m
      <4>1. CASE k = 0
        BY <2>1, <2>2, <3>2, <4>1
      <4>2. CASE k # 0
        <5>1. g[k] = f[k] /\ g[k - 1] = f[k - 1] /\ f[k] = Above(f[k - 1], k)
          BY <2>1, <2>2, <3>2, <4>2
        <5> QED BY <4>2, <5>1
      <4> QED BY <4>1, <4>2
    <3> QED BY <3>1, <3>2
  <2>4. \E h : Is(h, m + 1)
    BY <2>3
  <2> HIDE DEF Is
  <2> QED BY <2>4
<1>3. PICK f : Is(f, n)
  <2>1. n \in S
    <3> HIDE DEF S, n
    <3> QED BY <1>1, <1>2, Induction DEF n
  <2> QED BY <2>1
<1> DEFINE g == [k \in 0 .. n |-> f[k]]
<1>4. g = [k \in 0 .. n |-> IF k = 0 THEN base ELSE Above(g[k - 1], k)]
  BY <1>3
<1> HIDE DEF g
<1>5. step = [k \in 0 .. n |-> IF k = 0 THEN base ELSE Above(step[k - 1], k)]
  BY <1>4
<1> HIDE DEF step
<1> DEFINE h == [k \in 0 .. n |-> step[k].hash]
           T == {k \in Nat : k <= n => step[k].idx = Shifted(index, k)}
<1>6. step[0] = base /\ \A k \in 1 .. n : step[k] = Above(step[k - 1], k)
  BY <1>5
<1>7. base.hash = hash /\ base.idx = index
  BY DEF base
<1>8. \A before, k : /\ Above(before, k).hash = Climb(before.hash, path[k], before.idx % 2)
                     /\ Above(before, k).idx = before.idx \div 2
  BY DEF Above, Climb, HashOfNode, NodeHash
<1>9. \A k \in Nat : k \in T
  <2>1. 0 \in T
    BY <1>6, <1>7, ShiftedBy
  <2>2. ASSUME NEW k \in Nat, k \in T PROVE k + 1 \in T
    <3> SUFFICES ASSUME k + 1 <= n PROVE step[k + 1].idx = Shifted(index, k + 1)
      OBVIOUS
    <3>1. step[k + 1] = Above(step[k], k + 1) /\ step[k].idx = Shifted(index, k)
      <4>1. k + 1 \in 1 .. n /\ (k + 1) - 1 = k
        OBVIOUS
      <4> QED BY <1>6, <2>2, <4>1
    <3>2. Shifted(index, k + 1) = Shifted(index, k) \div 2
      BY ShiftedBy
    <3> QED BY <1>8, <3>1, <3>2
  <2> HIDE DEF T
  <2> QED BY <2>1, <2>2, Induction
<1>10. h[0] = hash /\ h[n] = step[n].hash
  BY <1>6, <1>7
<1>11. ASSUME NEW k \in 1 .. n
       PROVE  h[k] = Climb(h[k - 1], path[k], Shifted(index, k - 1) % 2)
  <2>1. h[k] = step[k].hash /\ h[k - 1] = step[k - 1].hash
    OBVIOUS
  <2>2. step[k - 1].idx = Shifted(index, k - 1)
    BY <1>9
  <2>3. step[k].hash = Climb(step[k - 1].hash, path[k], step[k - 1].idx % 2)
    BY <1>6, <1>8
  <2> QED BY <2>1, <2>2, <2>3
<1> HIDE DEF h
<1>12. Ascent(h, hash, path, index)
  BY <1>10, <1>11 DEF Ascent
<1> QED BY <1>0, <1>10, <1>12

(* ------------------------ the path to the root ------------------------- *)

(* The place in a layer of a node over the leaf at place y.                *)
LEMMA InLayer ==
    ASSUME NEW n \in Nat \ {0}, NEW y \in 0 .. (n - 1), NEW k \in Nat
    PROVE  Shifted(y, k) \in 0 .. (Size(n, k + 1) - 1)
<1> DEFINE x == n - 1
           S == {j \in Nat : Shifted(y, j) <= Shifted(x, j)}
<1>1. x \in Nat /\ y \in Nat /\ y <= x
  OBVIOUS
<1> HIDE DEF x
<1>2. \A j \in Nat : /\ Shifted(x, j) \in Nat /\ Shifted(y, j) \in Nat
                     /\ Shifted(x, 0) = x /\ Shifted(y, 0) = y
                     /\ Shifted(x, j + 1) = Shifted(x, j) \div 2
                     /\ Shifted(y, j + 1) = Shifted(y, j) \div 2
  BY <1>1, ShiftedBy
<1>3. 0 \in S
  BY <1>1, <1>2
<1>4. ASSUME NEW j \in Nat, j \in S PROVE j + 1 \in S
  BY <1>2, <1>4
<1>5. k \in S
  <2> HIDE DEF S
  <2> QED BY <1>3, <1>4, Induction
<1>6. Size(n, k + 1) = Shifted(x, k) + 1
  <2>1. (k + 1) - 1 = k
    OBVIOUS
  <2> QED BY <2>1 DEF Size, x
<1> QED BY <1>2, <1>5, <1>6

(* A node is what its children and the bit of the place beneath say.       *)
LEMMA Parent ==
    ASSUME NEW leaves, Len(leaves) \in Nat \ {0}, NEW ls, Grown(ls, leaves),
           NEW y \in 0 .. (Len(leaves) - 1), NEW k \in 1 .. MaxProofLen(Len(leaves))
    PROVE  ls[k + 1][Shifted(y, k) + 1]
             = Climb(ls[k][Shifted(y, k - 1) + 1], Sibling(ls[k], Shifted(y, k - 1)),
                     Shifted(y, k - 1) % 2)
<1> DEFINE n == Len(leaves)
           m == Size(n, k)
           i == Shifted(y, k - 1)
           layer == ls[k]
<1>1. n \in Nat \ {0} /\ MaxProofLen(n) \in Nat /\ k \in Nat \ {0}
  BY ProofLength
<1>2. m \in Nat \ {0} /\ m > 1 /\ i \in 0 .. (m - 1) /\ Shifted(y, k) = i \div 2
  <2>1. m \in Nat \ {0} /\ m > 1
    BY <1>1, Sizes
  <2>2. i \in 0 .. (m - 1)
    <3>1. k - 1 \in Nat /\ (k - 1) + 1 = k
      BY <1>1
    <3>2. Shifted(y, k - 1) \in 0 .. (Size(n, (k - 1) + 1) - 1)
      BY <1>1, <3>1, InLayer
    <3> QED BY <3>1, <3>2
  <2>3. Shifted(y, (k - 1) + 1) = Shifted(y, k - 1) \div 2
    <3>1. k - 1 \in Nat /\ y \in Nat
      BY <1>1
    <3> QED BY <3>1, ShiftedBy
  <2>4. (k - 1) + 1 = k
    BY <1>1
  <2> QED BY <2>1, <2>2, <2>3, <2>4
<1>3. OfLength(layer, m) /\ ls[k + 1] = NextLayer(layer)
  BY <1>1 DEF Grown, GrownTo
<1> HIDE DEF n, m, i, layer
<1>4. Len(layer) = m
  BY <1>2, <1>3, AsSequence
<1>5. i \div 2 + 1 \in 1 .. ((m + 1) \div 2)
  BY <1>2
<1>6. NextLayer(layer)[i \div 2 + 1]
        = NodeHash(layer[2 * (i \div 2 + 1) - 1],
                   layer[IF 2 * (i \div 2 + 1) > m THEN m ELSE 2 * (i \div 2 + 1)])
  BY <1>2, <1>3, <1>5, LayerOver
<1>7. CASE i % 2 = 0
  <2>1. 2 * (i \div 2 + 1) - 1 = i + 1 /\ 2 * (i \div 2 + 1) = i + 2
    BY <1>2, <1>7
  <2>2. Sibling(layer, i) = layer[1 + IF i + 1 < m THEN i + 1 ELSE m - 1]
    BY <1>4, <1>7 DEF Sibling
  <2>3. (1 + IF i + 1 < m THEN i + 1 ELSE m - 1) = IF i + 2 > m THEN m ELSE i + 2
    BY <1>2
  <2>4. NextLayer(layer)[i \div 2 + 1] = NodeHash(layer[i + 1], Sibling(layer, i))
    BY <1>6, <2>1, <2>2, <2>3
  <2>5. ls[k + 1][Shifted(y, k) + 1] = NodeHash(layer[i + 1], Sibling(layer, i))
    BY <1>2, <1>3, <2>4
  <2> QED BY <1>7, <2>5 DEF Climb, i, layer
<1>8. CASE i % 2 # 0
  <2>1. 2 * (i \div 2 + 1) - 1 = i /\ 2 * (i \div 2 + 1) = i + 1 /\ i + 1 <= m /\ i >= 1
    BY <1>2, <1>8
  <2>2. Sibling(layer, i) = layer[1 + IF i - 1 < m THEN i - 1 ELSE m - 1]
    BY <1>4, <1>8 DEF Sibling
  <2>3. (1 + IF i - 1 < m THEN i - 1 ELSE m - 1) = i
    BY <1>2
  <2>4. NextLayer(layer)[i \div 2 + 1] = NodeHash(Sibling(layer, i), layer[i + 1])
    <3>1. (IF 2 * (i \div 2 + 1) > m THEN m ELSE 2 * (i \div 2 + 1)) = i + 1
      BY <1>2, <2>1
    <3> QED BY <1>6, <2>1, <2>2, <2>3, <3>1
  <2>5. ls[k + 1][Shifted(y, k) + 1] = NodeHash(Sibling(layer, i), layer[i + 1])
    BY <1>2, <1>3, <2>4
  <2> QED BY <1>8, <2>5 DEF Climb, i, layer
<1> QED BY <1>7, <1>8

(* Whoever gets from a leaf to the root in no more steps than a proof may  *)
(* have started at a leaf of the tree, and took them all.                  *)
LEMMA Rooted ==
    ASSUME NEW leaves, Len(leaves) \in Nat \ {0}, NEW ls, Grown(ls, leaves),
           NEW leaf, NEW path, NEW y, NEW h, Len(path) \in Nat,
           Len(path) <= MaxProofLen(Len(leaves)),
           Ascent(h, LeafHash(leaf), path, y), h[Len(path)] = Root(ls)
    PROVE  /\ Len(path) = MaxProofLen(Len(leaves))
           /\ \E s \in 1 .. Len(leaves) : LeafHash(leaf) = LeafHash(leaves[s])
<1> DEFINE n == Len(leaves)
           L == MaxProofLen(n)
           q == Len(path)
           S == {j \in Nat : j <= q => \E s \in 1 .. Size(n, L + 1 - j) : h[q - j] = ls[L + 1 - j][s]}
<1>1. n \in Nat \ {0} /\ L \in Nat /\ q \in Nat /\ q <= L
  BY ProofLength
<1>2. /\ OfLength(ls, L + 1)
      /\ \A k \in 1 .. (L + 1) : OfLength(ls[k], Size(n, k))
      /\ \A k \in 1 .. (L + 1) : k # L + 1 => ls[k + 1] = NextLayer(ls[k])
      /\ \A i \in 1 .. n : ls[1][i] = LeafHash(leaves[i])
  BY DEF Grown, GrownTo
<1>3. Root(ls) = ls[L + 1][1]
  <2>1. L + 1 \in Nat
    BY <1>1
  <2>2. Len(ls) = L + 1
    BY <1>2, <2>1, AsSequence
  <2> QED BY <2>2 DEF Root
<1>s. \A k \in Nat \ {0} : /\ Size(n, k) \in Nat \ {0} /\ Size(n, 1) = n
                           /\ Size(n, k + 1) = (Size(n, k) + 1) \div 2
                           /\ Size(n, L + 1) = 1
  BY <1>1, Sizes
<1> HIDE DEF n, L, q
<1>4. /\ h[0] = LeafHash(leaf) /\ h[q] = ls[L + 1][1]
      /\ \A k \in 1 .. q : h[k] = Climb(h[k - 1], path[k], Shifted(y, k - 1) % 2)
  BY <1>3 DEF Ascent, q
<1>node. ASSUME NEW k \in 1 .. L, NEW s \in 1 .. Size(n, k + 1)
         PROVE  \E a, b \in 1 .. Size(n, k) : ls[k + 1][s] = NodeHash(ls[k][a], ls[k][b])
  <2>1. k \in Nat \ {0} /\ k # L + 1 /\ k \in 1 .. (L + 1)
    BY <1>1
  <2> DEFINE m == Size(n, k)
  <2>2. m \in Nat \ {0} /\ s \in 1 .. ((m + 1) \div 2)
    BY <1>s, <2>1
  <2>3. OfLength(ls[k], m) /\ ls[k + 1] = NextLayer(ls[k])
    BY <1>2, <2>1
  <2> HIDE DEF m
  <2>4. NextLayer(ls[k])[s] = NodeHash(ls[k][2 * s - 1], ls[k][IF 2 * s > m THEN m ELSE 2 * s])
    BY <2>2, <2>3, LayerOver
  <2>5. 2 * s - 1 \in 1 .. m /\ (IF 2 * s > m THEN m ELSE 2 * s) \in 1 .. m
    BY <2>2
  <2>6. \E a, b \in 1 .. m : ls[k + 1][s] = NodeHash(ls[k][a], ls[k][b])
    BY <2>3, <2>4, <2>5
  <2> QED BY <2>6 DEF m
<1>5. 0 \in S
  <2>1. L + 1 - 0 = L + 1 /\ q - 0 = q /\ 1 \in 1 .. Size(n, L + 1)
    <3>1. 1 \in Nat \ {0}
      OBVIOUS
    <3>2. Size(n, L + 1) = 1
      BY <1>s, <3>1
    <3> QED BY <1>1, <3>2
  <2> QED BY <1>4, <2>1
<1>6. ASSUME NEW j \in Nat, j \in S PROVE j + 1 \in S
  <2> SUFFICES ASSUME j + 1 <= q
               PROVE  \E s \in 1 .. Size(n, L + 1 - (j + 1)) : h[q - (j + 1)] = ls[L + 1 - (j + 1)][s]
    OBVIOUS
  <2> DEFINE k == L - j
             i == q - j
  <2>1. /\ k \in 1 .. L /\ L + 1 - j = k + 1 /\ L + 1 - (j + 1) = k
        /\ i \in 1 .. q /\ q - (j + 1) = i - 1
    BY <1>1
  <2>2. PICK s \in 1 .. Size(n, k + 1) : h[i] = ls[k + 1][s]
    <3>1. \E s \in 1 .. Size(n, L + 1 - j) : h[i] = ls[L + 1 - j][s]
      BY <1>1, <1>6
    <3> HIDE DEF k, i
    <3> QED BY <2>1, <3>1
  <2> HIDE DEF k, i
  <2>3. PICK a, b \in 1 .. Size(n, k) : ls[k + 1][s] = NodeHash(ls[k][a], ls[k][b])
    BY <1>node, <2>1
  <2>4. PICK bit : h[i] = Climb(h[i - 1], path[i], bit)
    BY <1>4, <2>1
  <2>5. NodeHash(ls[k][a], ls[k][b]) = Climb(h[i - 1], path[i], bit)
    BY <2>2, <2>3, <2>4
  <2>6. h[i - 1] = ls[k][a] \/ h[i - 1] = ls[k][b]
    BY <2>5, ClimbApart, HashesApart
  <2>7. \E t \in 1 .. Size(n, k) : h[i - 1] = ls[k][t]
    BY <2>6
  <2> QED BY <2>1, <2>7
<1>7. \A j \in Nat : j \in S
  <2> HIDE DEF S
  <2> QED BY <1>5, <1>6, Induction
<1>8. PICK s \in 1 .. Size(n, L + 1 - q) : h[0] = ls[L + 1 - q][s]
  <2>1. q - q = 0
    BY <1>1
  <2> QED BY <1>1, <1>7, <2>1
<1>9. q = L
  <2> SUFFICES ASSUME q < L PROVE FALSE
    BY <1>1
  <2> DEFINE k == L - q
  <2>1. k \in 1 .. L /\ L + 1 - q = k + 1
    BY <1>1
  <2> HIDE DEF k
  <2>3. s \in 1 .. Size(n, k + 1) /\ h[0] = ls[k + 1][s]
    BY <1>8, <2>1
  <2>4. PICK a, b \in 1 .. Size(n, k) : ls[k + 1][s] = NodeHash(ls[k][a], ls[k][b])
    BY <1>node, <2>1, <2>3
  <2>5. LeafHash(leaf) = NodeHash(ls[k][a], ls[k][b])
    BY <1>4, <2>3, <2>4
  <2> QED BY <2>5, HashesApart
<1>10. s \in 1 .. n /\ h[0] = ls[1][s]
  <2>1. L + 1 - q = 1 /\ 1 \in Nat \ {0}
    BY <1>1, <1>9
  <2>2. Size(n, 1) = n
    BY <1>s, <2>1
  <2> QED BY <1>8, <2>1, <2>2
<1> QED BY <1>2, <1>4, <1>9, <1>10 DEF n, L, q

(* A proof of full length leads to the root if and only if it is the       *)
(* builder's for that place and begins with the hash of that place.        *)
Follows(path, ls, y) == \A k \in 1 .. Len(path) : path[k] = Sibling(ls[k], Shifted(y, k - 1))

LEMMA Followed ==
    ASSUME NEW leaves, Len(leaves) \in Nat \ {0}, NEW ls, Grown(ls, leaves),
           NEW hash, NEW path, NEW y, y \in 0 .. (Len(leaves) - 1), NEW h,
           Len(path) = MaxProofLen(Len(leaves)), Ascent(h, hash, path, y)
    PROVE  h[Len(path)] = Root(ls) <=> hash = ls[1][y + 1] /\ Follows(path, ls, y)
<1> DEFINE n == Len(leaves)
           L == MaxProofLen(n)
<1>1. n \in Nat \ {0} /\ L \in Nat /\ y \in Nat
  BY ProofLength
<1>2. Root(ls) = ls[L + 1][1]
  <2>1. OfLength(ls, L + 1) /\ L + 1 \in Nat
    BY <1>1 DEF Grown, GrownTo
  <2>2. Len(ls) = L + 1
    BY <2>1, AsSequence
  <2> QED BY <2>2 DEF Root
<1>3. Shifted(y, L) = 0 /\ Shifted(y, 0) = y
  <2>1. Shifted(y, L) \in 0 .. (Size(n, L + 1) - 1)
    BY <1>1, InLayer
  <2>2. Size(n, L + 1) = 1
    <3>1. 1 \in Nat \ {0}
      OBVIOUS
    <3> QED BY <1>1, <3>1, Sizes
  <2>3. Shifted(y, 0) = y
    BY <1>1, ShiftedBy
  <2> QED BY <2>1, <2>2, <2>3
<1>4. \A k \in 1 .. L : ls[k + 1][Shifted(y, k) + 1]
             = Climb(ls[k][Shifted(y, k - 1) + 1], Sibling(ls[k], Shifted(y, k - 1)),
                     Shifted(y, k - 1) % 2)
  BY Parent
<1>5. /\ Len(path) = L /\ h[0] = hash
      /\ \A k \in 1 .. L : h[k] = Climb(h[k - 1], path[k], Shifted(y, k - 1) % 2)
  BY DEF Ascent
<1> DEFINE Here(k) == h[k] = ls[k + 1][Shifted(y, k) + 1]
           Right(k) == path[k] = Sibling(ls[k], Shifted(y, k - 1))
<1> HIDE DEF n, L
<1>6. \A k \in 1 .. L : Here(k) <=> Here(k - 1) /\ Right(k)
  <2> SUFFICES ASSUME NEW k \in 1 .. L PROVE Here(k) <=> Here(k - 1) /\ Right(k)
    OBVIOUS
  <2> DEFINE b == Shifted(y, k - 1) % 2
             z == Shifted(y, k - 1) + 1
             sib == Sibling(ls[k], Shifted(y, k - 1))
  <2>1. (k - 1) + 1 = k
    BY <1>1
  <2>2. ls[k + 1][Shifted(y, k) + 1] = Climb(ls[k][z], sib, b)
    BY <1>4
  <2>3. h[k] = Climb(h[k - 1], path[k], b)
    BY <1>5
  <2>4. Here(k - 1) <=> h[k - 1] = ls[k][z]
    BY <2>1
  <2>5. Right(k) <=> path[k] = sib
    OBVIOUS
  <2> HIDE DEF b, z, sib
  <2>6. Climb(h[k - 1], path[k], b) = Climb(ls[k][z], sib, b) <=> h[k - 1] = ls[k][z] /\ path[k] = sib
    BY ClimbApart
  <2>7. Here(k) <=> Climb(h[k - 1], path[k], b) = Climb(ls[k][z], sib, b)
    BY <2>2, <2>3
  <2> HIDE DEF Here, Right
  <2> QED BY <2>4, <2>5, <2>6, <2>7
<1>7. Here(0) <=> hash = ls[1][y + 1]
  BY <1>3, <1>5
<1>8. Here(L) <=> h[Len(path)] = Root(ls)
  BY <1>2, <1>3, <1>5
<1>9. ASSUME Here(L) PROVE \A j \in Nat : j <= L => Here(L - j)
  <2> DEFINE S == {j \in Nat : j <= L => Here(L - j)}
  <2>1. 0 \in S
    <3>1. L - 0 = L
      BY <1>1
    <3> QED BY <1>9, <3>1
  <2> HIDE DEF Here
  <2>2. ASSUME NEW j \in Nat, j \in S PROVE j + 1 \in S
    <3> SUFFICES ASSUME j + 1 <= L PROVE Here(L - (j + 1))
      OBVIOUS
    <3>1. L - j \in 1 .. L /\ L - (j + 1) = (L - j) - 1 /\ j <= L
      BY <1>1
    <3>2. Here(L - j)
      BY <2>2, <3>1
    <3>3. Here((L - j) - 1)
      BY <1>6, <3>1, <3>2
    <3> QED BY <3>1, <3>3
  <2>3. \A j \in Nat : j \in S
    <3> HIDE DEF S
    <3> QED BY <2>1, <2>2, Induction
  <2> QED BY <2>3
<1>10. ASSUME Here(0), \A k \in 1 .. L : Right(k) PROVE \A j \in Nat : j <= L => Here(j)
  <2> DEFINE S == {j \in Nat : j <= L => Here(j)}
  <2>1. 0 \in S
    BY <1>10
  <2> HIDE DEF Here, Right
  <2>2. ASSUME NEW j \in Nat, j \in S PROVE j + 1 \in S
    <3> SUFFICES ASSUME j + 1 <= L PROVE Here(j + 1)
      OBVIOUS
    <3>1. j + 1 \in 1 .. L /\ (j + 1) - 1 = j /\ j <= L
      BY <1>1
    <3>2. Here(j)
      BY <2>2, <3>1
    <3>3. Here(j + 1) <=> Here((j + 1) - 1) /\ Right(j + 1)
      BY <1>6, <3>1
    <3>4. Right(j + 1)
      BY <1>10, <3>1
    <3>5. Here((j + 1) - 1)
      BY <3>1, <3>2
    <3> QED BY <3>3, <3>4, <3>5
  <2>3. \A j \in Nat : j \in S
    <3> HIDE DEF S
    <3> QED BY <2>1, <2>2, Induction
  <2> QED BY <2>3
<1> HIDE DEF Here
<1>11. Here(L) => Here(0) /\ \A k \in 1 .. L : Right(k)
  <2> SUFFICES ASSUME Here(L) PROVE Here(0) /\ \A k \in 1 .. L : Right(k)
    OBVIOUS
  <2>1. \A k \in 0 .. L : Here(k)
    <3> SUFFICES ASSUME NEW k \in 0 .. L PROVE Here(k)
      OBVIOUS
    <3>1. L - k \in Nat /\ L - k <= L /\ L - (L - k) = k
      BY <1>1
    <3>2. Here(L - (L - k))
      BY <1>9, <3>1
    <3> QED BY <3>1, <3>2
  <2>2. Here(0)
    BY <1>1, <2>1
  <2>3. ASSUME NEW k \in 1 .. L PROVE Right(k)
    <3>1. Here(k)
      BY <1>1, <2>1
    <3> HIDE DEF Right
    <3> QED BY <1>6, <3>1
  <2> QED BY <2>2, <2>3
<1>12. Here(0) /\ (\A k \in 1 .. L : Right(k)) => Here(L)
  <2> HIDE DEF Right
  <2> QED BY <1>1, <1>10
<1>13. (\A k \in 1 .. L : Right(k)) <=> Follows(path, ls, y)
  BY <1>5 DEF Follows
<1> HIDE DEF Right
<1> QED BY <1>7, <1>8, <1>11, <1>12, <1>13

(* ---------------------------- exact trees ------------------------------- *)

LEMMA SameLeaf ==
    ASSUME NEW a \in TreeLeaf, NEW b \in TreeLeaf, LeafHash(a) = LeafHash(b)
    PROVE  a = b
<1>1. /\ a.leaf_index = b.leaf_index /\ a.beneficiary = b.beneficiary
      /\ a.amount = b.amount /\ a.release_type = b.release_type
      /\ a.start_time = b.start_time /\ a.cliff_time = b.cliff_time
      /\ a.end_time = b.end_time /\ a.milestone_idx = b.milestone_idx
  BY HashesApart
<1>2. a = [leaf_index |-> a.leaf_index, beneficiary |-> a.beneficiary, amount |-> a.amount,
           release_type |-> a.release_type, start_time |-> a.start_time,
           cliff_time |-> a.cliff_time, end_time |-> a.end_time, milestone_idx |-> a.milestone_idx]
  BY DEF TreeLeaf
<1>3. b = [leaf_index |-> b.leaf_index, beneficiary |-> b.beneficiary, amount |-> b.amount,
           release_type |-> b.release_type, start_time |-> b.start_time,
           cliff_time |-> b.cliff_time, end_time |-> b.end_time, milestone_idx |-> b.milestone_idx]
  BY DEF TreeLeaf
<1> QED BY <1>1, <1>2, <1>3

LEMMA BuildersProof ==
    ASSUME NEW leaves, Len(leaves) \in Nat \ {0}, NEW ls, Grown(ls, leaves), NEW y
    PROVE  /\ OfLength(Proof(ls, y), MaxProofLen(Len(leaves)))
           /\ Len(Proof(ls, y)) = MaxProofLen(Len(leaves))
           /\ \A path : OfLength(path, MaxProofLen(Len(leaves))) =>
                (path = Proof(ls, y)
                   <=> \A k \in 1 .. MaxProofLen(Len(leaves)) : path[k] = Sibling(ls[k], Shifted(y, k - 1)))
<1> DEFINE L == MaxProofLen(Len(leaves))
<1>1. L \in Nat
  BY ProofLength
<1>2. Len(ls) - 1 = L
  <2>1. OfLength(ls, L + 1) /\ L + 1 \in Nat
    BY <1>1 DEF Grown, GrownTo
  <2>2. Len(ls) = L + 1
    BY <2>1, AsSequence
  <2> QED BY <1>1, <2>2
<1> HIDE DEF L
<1>3. Proof(ls, y) = [k \in 1 .. L |-> Sibling(ls[k], Shifted(y, k - 1))]
  BY <1>2 DEF Proof
<1>4. OfLength(Proof(ls, y), L)
  BY <1>3 DEF OfLength
<1>5. Len(Proof(ls, y)) = L
  BY <1>1, <1>4, AsSequence
<1>6. ASSUME NEW path, OfLength(path, L)
      PROVE  path = Proof(ls, y) <=> \A k \in 1 .. L : path[k] = Sibling(ls[k], Shifted(y, k - 1))
  BY <1>3, <1>6 DEF OfLength
<1> QED BY <1>4, <1>5, <1>6 DEF L

(* The program's loop says yes to a leaf of the tree with the builder's    *)
(* proof of it, and to nothing else.                                       *)
LEMMA VerifiesExactly ==
    ASSUME NEW leaves \in Seq(TreeLeaf), leaves # <<>>,
           \A i \in DOMAIN leaves : leaves[i].leaf_index = i - 1,
           NEW leaf \in TreeLeaf, NEW path, NEW q \in 0 .. MaxProofLen(Len(leaves)), OfLength(path, q)
    PROVE  Verifies(leaf, path, Root(Layers(leaves))) <=>
             \E i \in 1 .. Len(leaves) : leaves[i] = leaf /\ path = Proof(Layers(leaves), i - 1)
<1> DEFINE n == Len(leaves)
           L == MaxProofLen(n)
           ls == Layers(leaves)
<1>1. n \in Nat \ {0} /\ DOMAIN leaves = 1 .. n
  OBVIOUS
<1>2. L \in Nat
  BY <1>1, ProofLength
<1>3. Grown(ls, leaves)
  BY <1>1, LayersGrow
<1>4. Len(path) = q /\ q \in Nat
  <2>1. q \in Nat
    BY <1>2
  <2> QED BY <2>1, AsSequence
<1>5. leaf.leaf_index \in Nat
  BY DEF TreeLeaf
<1>6. \A i \in 1 .. n : ls[1][i] = LeafHash(leaves[i])
  BY <1>3 DEF Grown, GrownTo
<1> HIDE DEF ls, n, L
<1>7. PICK h : /\ Ascent(h, LeafHash(leaf), path, leaf.leaf_index)
               /\ Verifies(leaf, path, Root(ls)) <=> h[Len(path)] = Root(ls)
  BY <1>4, <1>5, VerifiesUp
<1>8. ASSUME h[Len(path)] = Root(ls)
      PROVE  \E i \in 1 .. n : leaves[i] = leaf /\ path = Proof(ls, i - 1)
  <2>1. Len(path) = L /\ \E s \in 1 .. n : LeafHash(leaf) = LeafHash(leaves[s])
    BY <1>1, <1>3, <1>4, <1>7, <1>8, Rooted DEF L, n
  <2>2. PICK s \in 1 .. n : LeafHash(leaf) = LeafHash(leaves[s])
    BY <2>1
  <2>3. leaves[s] \in TreeLeaf /\ leaves[s].leaf_index = s - 1
    BY <1>1
  <2>4. leaf = leaves[s]
    BY <2>2, <2>3, SameLeaf
  <2>5. s - 1 \in 0 .. (n - 1) /\ Ascent(h, LeafHash(leaf), path, s - 1)
    BY <1>1, <1>7, <2>3, <2>4
  <2>6. \A k \in 1 .. Len(path) : path[k] = Sibling(ls[k], Shifted(s - 1, k - 1))
    <3>1. Follows(path, ls, s - 1)
      BY <1>1, <1>3, <1>8, <2>1, <2>5, Followed DEF n, L
    <3> QED BY <3>1 DEF Follows
  <2>7. path = Proof(ls, s - 1)
    BY <1>1, <1>3, <1>4, <2>1, <2>6, BuildersProof DEF n, L
  <2> QED BY <2>4, <2>7
<1>9. ASSUME NEW i \in 1 .. n, leaves[i] = leaf, path = Proof(ls, i - 1)
      PROVE  h[Len(path)] = Root(ls)
  <2>1. Len(path) = L /\ OfLength(path, L)
    BY <1>1, <1>3, <1>9, BuildersProof DEF n, L
  <2>2. \A k \in 1 .. Len(path) : path[k] = Sibling(ls[k], Shifted(i - 1, k - 1))
    BY <1>1, <1>3, <1>9, <2>1, BuildersProof DEF n, L
  <2>3. i - 1 \in 0 .. (n - 1) /\ Ascent(h, LeafHash(leaf), path, i - 1) /\ (i - 1) + 1 = i
    BY <1>1, <1>7, <1>9
  <2>4. LeafHash(leaf) = ls[1][(i - 1) + 1]
    BY <1>6, <1>9, <2>3
  <2>5. Follows(path, ls, i - 1)
    BY <2>2 DEF Follows
  <2> QED BY <1>1, <1>3, <2>1, <2>3, <2>4, <2>5, Followed DEF n, L
<1>10. Verifies(leaf, path, Root(ls)) <=> \E i \in 1 .. n : leaves[i] = leaf /\ path = Proof(ls, i - 1)
  BY <1>7, <1>8, <1>9
<1> QED BY <1>10 DEF n, ls

(* For a tree of any size: the program and the server accept the builder's *)
(* proofs of its leaves, and nothing else.                                 *)
THEOREM TreesAreExact ==
    ASSUME NEW leaves \in Seq(TreeLeaf), leaves # <<>>,
           \A i \in DOMAIN leaves : leaves[i].leaf_index = i - 1
    PROVE  Exact(leaves)
<1> DEFINE n == Len(leaves)
           ls == Layers(leaves)
           L == MaxProofLen(n)
           Here(leaf) == {i \in 1 .. n : leaves[i] = leaf}
           Is(leaf, path) == \E i \in Here(leaf) : path = Proof(ls, i - 1)
<1>1. n \in Nat \ {0} /\ DOMAIN leaves = 1 .. n
  OBVIOUS
<1>2. L \in Nat
  BY <1>1, ProofLength
<1>3. Grown(ls, leaves)
  BY <1>1, LayersGrow
<1>4. SUFFICES ASSUME NEW leaf \in Claimable(leaves),
                      NEW path \in Proofs(Hashes(ls) \cup {LeafHash(leaf)}, L)
               PROVE  /\ ChainAccepts(leaf, path, Root(ls), n) <=> Is(leaf, path)
                      /\ ServerAccepts(leaf, path, Root(ls), n) <=> Is(leaf, path) \/ (n = 1 /\ Here(leaf) # {})
  BY DEF Exact
<1>5. leaf \in TreeLeaf
  <2>1. PICK i \in DOMAIN leaves, k \in 0 .. 2 * Len(leaves) : leaf = [leaves[i] EXCEPT !.leaf_index = k]
    BY DEF Claimable
  <2>2. leaves[i] \in TreeLeaf /\ k \in Nat
    BY <1>1
  <2> QED BY <2>1, <2>2 DEF TreeLeaf
<1>6. PICK q \in 0 .. L : OfLength(path, q)
  <2>1. PICK q \in 0 .. L : path \in [1 .. q -> Hashes(ls) \cup {LeafHash(leaf)}]
    BY DEF Proofs
  <2>2. path = [i \in 1 .. q |-> path[i]]
    BY <2>1
  <2> QED BY <2>2 DEF OfLength
<1>7. Len(path) = q
  <2>1. q \in Nat
    BY <1>2
  <2> QED BY <1>6, <2>1, AsSequence
<1>8. Verifies(leaf, path, Root(ls)) <=> \E i \in 1 .. n : leaves[i] = leaf /\ path = Proof(ls, i - 1)
  BY <1>5, <1>6, VerifiesExactly
<1> HIDE DEF ls, L, n
<1>9. Verifies(leaf, path, Root(ls)) <=> Is(leaf, path)
  BY <1>8
<1>10. ChainAccepts(leaf, path, Root(ls), n) <=> Is(leaf, path)
  BY <1>2, <1>7, <1>9 DEF ChainAccepts, L
<1>11. ASSUME n = 1 PROVE LeafHash(leaf) = Root(ls) <=> Here(leaf) # {}
  <2>1. L = 0
    BY <1>11 DEF L, MaxProofLen
  <2>2. Root(ls) = LeafHash(leaves[1])
    <3>1. OfLength(ls, L + 1) /\ ls[1][1] = LeafHash(leaves[1])
      BY <1>3, <1>11 DEF Grown, GrownTo, L, n
    <3>2. OfLength(ls, 1)
      BY <2>1, <3>1
    <3>3. Len(ls) = 1
      <4>1. 1 \in Nat
        OBVIOUS
      <4> QED BY <3>2, <4>1, AsSequence
    <3> QED BY <3>1, <3>3 DEF Root
  <2>3. leaves[1] \in TreeLeaf
    BY <1>1, <1>11
  <2>4. LeafHash(leaf) = LeafHash(leaves[1]) => leaf = leaves[1]
    BY <1>5, <2>3, SameLeaf
  <2> QED BY <1>11, <2>2, <2>4
<1>12. ASSUME n # 1, Is(leaf, path) PROVE path # <<>>
  <2>1. PICK i \in Here(leaf) : path = Proof(ls, i - 1)
    BY <1>12
  <2>2. Len(path) = L
    BY <1>1, <1>3, <2>1, BuildersProof DEF L, n
  <2>3. L # 0
    <3> SUFFICES ASSUME L = 0 PROVE FALSE
      OBVIOUS
    <3>1. Shifted(n - 1, 0) = 0
      BY <1>1, ProofLength DEF L
    <3>2. n - 1 \in Nat /\ 0 \in Nat
      BY <1>1
    <3>3. Shifted(n - 1, 0) = n - 1
      BY <3>2, ShiftedBy
    <3> QED BY <1>1, <1>12, <3>1, <3>3
  <2> QED BY <2>2, <2>3
<1>13. ServerAccepts(leaf, path, Root(ls), n) <=> Is(leaf, path) \/ (n = 1 /\ Here(leaf) # {})
  <2>1. CASE n = 1
    <3>1. Is(leaf, path) => Here(leaf) # {}
      OBVIOUS
    <3> HIDE DEF Is, Here
    <3> QED BY <1>11, <2>1, <3>1 DEF ServerAccepts
  <2>2. CASE n # 1
    <3> HIDE DEF Is, Here
    <3> QED BY <1>9, <1>12, <2>2 DEF ServerAccepts
  <2> QED BY <2>1, <2>2
<1> QED BY <1>10, <1>13

(* ------------------------- the client library --------------------------- *)

LEMMA TwoOf ==
    ASSUME NEW a \in Int, NEW b \in Int
    PROVE  Min({a, b}) = IF a <= b THEN a ELSE b
<1>1. \E x \in {a, b} : \A y \in {a, b} : x <= y
  OBVIOUS
<1>2. Min({a, b}) \in {a, b} /\ \A y \in {a, b} : Min({a, b}) <= y
  BY <1>1 DEF Min
<1> QED BY <1>2

LEMMA ClientProof ==
    ASSUME NEW leaves, Len(leaves) \in Nat \ {0}, NEW ls, Grown(ls, leaves),
           NEW y \in 0 .. (Len(leaves) - 1)
    PROVE  ProofAt(ls, y) = Proof(ls, y)
<1> DEFINE n == Len(leaves)
           L == MaxProofLen(n)
           m == Len(ls)
           idx == CHOOSE f : f = [k \in 1 .. m |-> IF k = 1 THEN y ELSE f[k - 1] \div 2]
           sib(k) == IF idx[k] % 2 = 1 THEN idx[k] - 1 ELSE Min({idx[k] + 1, Len(ls[k]) - 1})
           g == [k \in 1 .. m |-> Shifted(y, k - 1)]
           S == {k \in Nat : k >= 1 /\ k <= m => idx[k] = Shifted(y, k - 1)}
<1>1. n \in Nat \ {0} /\ L \in Nat /\ y \in Nat
  BY ProofLength
<1>2. m = L + 1
  <2>1. OfLength(ls, L + 1) /\ L + 1 \in Nat
    BY <1>1 DEF Grown, GrownTo
  <2> HIDE DEF L
  <2> QED BY <2>1, AsSequence
<1>3. ProofAt(ls, y) = [k \in 1 .. m - 1 |-> ls[k][sib(k) + 1]]
  BY DEF ProofAt
<1> HIDE DEF n, L, m
<1>4. g = [k \in 1 .. m |-> IF k = 1 THEN y ELSE g[k - 1] \div 2]
  <2> SUFFICES ASSUME NEW k \in 1 .. m
               PROVE  Shifted(y, k - 1) = IF k = 1 THEN y ELSE g[k - 1] \div 2
    OBVIOUS
  <2>1. CASE k = 1
    <3>1. Shifted(y, 0) = y /\ 1 - 1 = 0
      BY <1>1, ShiftedBy
    <3> QED BY <2>1, <3>1
  <2>2. CASE k # 1
    <3>1. k - 2 \in Nat /\ (k - 2) + 1 = k - 1 /\ (k - 1) - 1 = k - 2 /\ k - 1 \in 1 .. m
      BY <1>1, <1>2, <2>2
    <3>2. Shifted(y, (k - 2) + 1) = Shifted(y, k - 2) \div 2
      BY <1>1, <3>1, ShiftedBy
    <3>3. g[k - 1] = Shifted(y, k - 2)
      BY <3>1
    <3> HIDE DEF g
    <3> QED BY <2>2, <3>1, <3>2, <3>3
  <2> QED BY <2>1, <2>2
<1> HIDE DEF g
<1>5. idx = [k \in 1 .. m |-> IF k = 1 THEN y ELSE idx[k - 1] \div 2]
  BY <1>4
<1> HIDE DEF idx
<1>6. \A k \in Nat : k \in S
  <2>1. 0 \in S
    OBVIOUS
  <2>2. ASSUME NEW k \in Nat, k \in S PROVE k + 1 \in S
    <3> SUFFICES ASSUME k + 1 <= m PROVE idx[k + 1] = Shifted(y, (k + 1) - 1)
      OBVIOUS
    <3>1. CASE k = 0
      <4>1. Shifted(y, 0) = y /\ 1 - 1 = 0
        BY <1>1, ShiftedBy
      <4>2. idx[1] = y
        <5>1. 1 \in 1 .. m
          BY <1>1, <1>2
        <5> QED BY <1>5, <5>1
      <4> QED BY <3>1, <4>1, <4>2
    <3>2. CASE k # 0
      <4>1. k - 1 \in Nat /\ (k - 1) + 1 = k /\ (k + 1) - 1 = k /\ k + 1 \in 1 .. m /\ k + 1 # 1
        BY <1>1, <1>2, <3>2
      <4>2. idx[k + 1] = idx[(k + 1) - 1] \div 2
        BY <1>5, <4>1
      <4>3. idx[k] = Shifted(y, k - 1)
        BY <1>1, <1>2, <2>2, <3>2
      <4>4. Shifted(y, (k - 1) + 1) = Shifted(y, k - 1) \div 2
        BY <1>1, <4>1, ShiftedBy
      <4> QED BY <4>1, <4>2, <4>3, <4>4
    <3> QED BY <3>1, <3>2
  <2> HIDE DEF S
  <2> QED BY <2>1, <2>2, Induction
<1>7. ASSUME NEW k \in 1 .. L PROVE ls[k][sib(k) + 1] = Sibling(ls[k], Shifted(y, k - 1))
  <2> DEFINE i == Shifted(y, k - 1)
             c == Size(n, k)
  <2>1. idx[k] = i
    <3>1. k \in Nat /\ k >= 1 /\ k <= m
      BY <1>1, <1>2
    <3> QED BY <1>6, <3>1
  <2>2. c \in Nat \ {0} /\ i \in 0 .. (c - 1)
    <3>1. k - 1 \in Nat /\ (k - 1) + 1 = k /\ k \in Nat \ {0}
      BY <1>1
    <3>2. Size(n, k) \in Nat \ {0}
      BY <1>1, <3>1, Sizes
    <3>3. Shifted(y, k - 1) \in 0 .. (Size(n, (k - 1) + 1) - 1)
      BY <1>1, <3>1, InLayer DEF n
    <3> QED BY <3>1, <3>2, <3>3
  <2>3. Len(ls[k]) = c
    <3>1. OfLength(ls[k], c)
      BY <1>1, <1>2 DEF Grown, GrownTo, L, n
    <3> HIDE DEF c
    <3> QED BY <2>2, <3>1, AsSequence
  <2> HIDE DEF i, c
  <2>4. CASE i % 2 = 1
    <3>1. sib(k) = i - 1
      BY <2>1, <2>4
    <3>2. Sibling(ls[k], i) = ls[k][1 + IF i - 1 < c THEN i - 1 ELSE c - 1]
      BY <2>3, <2>4 DEF Sibling
    <3>3. (1 + IF i - 1 < c THEN i - 1 ELSE c - 1) = (i - 1) + 1
      BY <2>2
    <3> QED BY <3>1, <3>2, <3>3 DEF i
  <2>5. CASE i % 2 # 1
    <3>0. i % 2 = 0
      BY <2>2, <2>5
    <3>1. sib(k) = Min({i + 1, c - 1})
      BY <2>1, <2>3, <2>5
    <3>2. Min({i + 1, c - 1}) = IF i + 1 <= c - 1 THEN i + 1 ELSE c - 1
      <4>1. i + 1 \in Int /\ c - 1 \in Int
        BY <2>2
      <4> QED BY <4>1, TwoOf
    <3>3. Sibling(ls[k], i) = ls[k][1 + IF i + 1 < c THEN i + 1 ELSE c - 1]
      BY <2>3, <3>0 DEF Sibling
    <3>4. (1 + IF i + 1 < c THEN i + 1 ELSE c - 1) = (IF i + 1 <= c - 1 THEN i + 1 ELSE c - 1) + 1
      BY <2>2
    <3> QED BY <3>1, <3>2, <3>3, <3>4 DEF i
  <2> QED BY <2>4, <2>5
<1>8. m - 1 = L
  BY <1>1, <1>2
<1> HIDE DEF sib
<1>9. Proof(ls, y) = [k \in 1 .. L |-> Sibling(ls[k], Shifted(y, k - 1))]
  BY <1>8 DEF Proof, m
<1> QED BY <1>3, <1>7, <1>8, <1>9

(* No two leaves of a tree have the same proof: the first sibling tells.   *)
LEMMA ProofsDiffer ==
    ASSUME NEW leaves, Len(leaves) \in Nat \ {0}, NEW ls, Grown(ls, leaves),
           \A i \in 1 .. Len(leaves) : leaves[i].leaf_index = i - 1,
           NEW a \in 0 .. (Len(leaves) - 1), NEW b \in 0 .. (Len(leaves) - 1),
           Proof(ls, a) = Proof(ls, b)
    PROVE  a = b
<1> DEFINE n == Len(leaves)
           L == MaxProofLen(n)
<1>1. n \in Nat \ {0} /\ L \in Nat /\ a \in 0 .. (n - 1) /\ b \in 0 .. (n - 1)
  BY ProofLength
<1> HIDE DEF n, L
<1>2. CASE L = 0
  <2>1. Shifted(n - 1, 0) = 0
    BY <1>1, <1>2, ProofLength DEF L
  <2>2. Shifted(n - 1, 0) = n - 1
    <3>1. n - 1 \in Nat /\ 0 \in Nat
      BY <1>1
    <3> QED BY <3>1, ShiftedBy
  <2> QED BY <1>1, <2>1, <2>2
<1>3. CASE L # 0
  <2>1. 1 \in 1 .. L /\ 1 - 1 = 0
    BY <1>1, <1>3
  <2>2. Proof(ls, a)[1] = Sibling(ls[1], a) /\ Proof(ls, b)[1] = Sibling(ls[1], b)
    <3>1. Shifted(a, 0) = a /\ Shifted(b, 0) = b
      BY <1>1, ShiftedBy
    <3>2. \A k \in 1 .. L : Proof(ls, a)[k] = Sibling(ls[k], Shifted(a, k - 1))
      BY BuildersProof DEF n, L
    <3>3. \A k \in 1 .. L : Proof(ls, b)[k] = Sibling(ls[k], Shifted(b, k - 1))
      BY BuildersProof DEF n, L
    <3> QED BY <2>1, <3>1, <3>2, <3>3
  <2>3. OfLength(ls[1], n) /\ \A i \in 1 .. n : ls[1][i] = LeafHash(leaves[i])
    <3>1. 1 \in Nat \ {0}
      OBVIOUS
    <3>2. Size(n, 1) = n
      BY <1>1, <3>1, Sizes
    <3>3. 1 \in 1 .. (L + 1)
      BY <1>1
    <3>4. OfLength(ls[1], Size(n, 1)) /\ \A i \in 1 .. n : ls[1][i] = LeafHash(leaves[i])
      BY <3>3 DEF Grown, GrownTo, n, L
    <3> QED BY <3>2, <3>4
  <2>4. Len(ls[1]) = n
    BY <1>1, <2>3, AsSequence
  <2>5. ASSUME NEW i \in 1 .. n, NEW j \in 1 .. n, ls[1][i] = ls[1][j] PROVE i = j
    <3>1. LeafHash(leaves[i]) = LeafHash(leaves[j])
      BY <2>3, <2>5
    <3>2. leaves[i].leaf_index = leaves[j].leaf_index
      BY <3>1, HashesApart
    <3>3. leaves[i].leaf_index = i - 1 /\ leaves[j].leaf_index = j - 1
      BY DEF n
    <3>4. i - 1 = j - 1
      BY <3>2, <3>3
    <3> QED BY <1>1, <3>4
  <2> DEFINE at(x) == 1 + IF x % 2 = 0 THEN (IF x + 1 < n THEN x + 1 ELSE n - 1) ELSE x - 1
  <2>6. ASSUME NEW x \in 0 .. (n - 1) PROVE Sibling(ls[1], x) = ls[1][at(x)] /\ at(x) \in 1 .. n
    <3>1. CASE x % 2 = 0
      BY <1>1, <2>4, <3>1 DEF Sibling
    <3>2. CASE x % 2 # 0
      <4>1. x - 1 < n /\ x >= 1
        BY <1>1, <3>2
      <4>2. Sibling(ls[1], x) = ls[1][1 + IF x - 1 < n THEN x - 1 ELSE n - 1]
        BY <2>4, <3>2 DEF Sibling
      <4> QED BY <1>1, <3>2, <4>1, <4>2
    <3> QED BY <3>1, <3>2
  <2>7. ls[1][at(a)] = ls[1][at(b)] /\ at(a) \in 1 .. n /\ at(b) \in 1 .. n
    BY <1>1, <2>2, <2>6
  <2>8. at(a) = at(b)
    <3> HIDE DEF at
    <3> QED BY <2>5, <2>7
  <2>9. ASSUME NEW x \in 0 .. (n - 1)
        PROVE  \E u \in Nat : \/ x = 2 * u /\ at(x) = IF x + 1 < n THEN 2 * u + 2 ELSE n
                              \/ x = 2 * u + 1 /\ at(x) = 2 * u + 1
    <3>1. x \div 2 \in Nat /\ (x = 2 * (x \div 2) \/ x = 2 * (x \div 2) + 1)
      BY <1>1
    <3>2. PICK u \in Nat : x = 2 * u \/ x = 2 * u + 1
      BY <3>1
    <3>3. CASE x = 2 * u
      <4>1. x % 2 = 0
        BY <3>3
      <4>2. at(x) = IF x + 1 < n THEN 2 * u + 2 ELSE n
        BY <1>1, <3>3, <4>1
      <4> QED BY <3>3, <4>2
    <3>4. CASE x = 2 * u + 1
      BY <1>1, <3>4
    <3> QED BY <3>2, <3>3, <3>4
  <2> HIDE DEF at
  <2>10. PICK u \in Nat : \/ a = 2 * u /\ at(a) = IF a + 1 < n THEN 2 * u + 2 ELSE n
                          \/ a = 2 * u + 1 /\ at(a) = 2 * u + 1
    BY <1>1, <2>9
  <2>11. PICK v \in Nat : \/ b = 2 * v /\ at(b) = IF b + 1 < n THEN 2 * v + 2 ELSE n
                          \/ b = 2 * v + 1 /\ at(b) = 2 * v + 1
    BY <1>1, <2>9
  <2> QED BY <1>1, <2>8, <2>10, <2>11
<1> QED BY <1>2, <1>3

LEMMA SupplyUp ==
    ASSUME NEW leaves, Len(leaves) \in Nat
    PROVE  \E sum : /\ TotalSupply(leaves) = sum[Len(leaves)]
                    /\ \A k \in 0 .. Len(leaves) :
                         sum[k] = IF k = 0 THEN 0 ELSE sum[k - 1] + leaves[k].amount
<1> DEFINE n == Len(leaves)
           Is(f, m) == \A k \in 0 .. m : f[k] = IF k = 0 THEN 0 ELSE f[k - 1] + leaves[k].amount
           S == {m \in Nat : \E f : Is(f, m)}
           sum == CHOOSE f : f = [k \in 0 .. n |-> IF k = 0 THEN 0 ELSE f[k - 1] + leaves[k].amount]
<1>1. 0 \in S
  <2> DEFINE g == [k \in 0 .. 0 |-> 0]
  <2>1. Is(g, 0)
    OBVIOUS
  <2> HIDE DEF g
  <2>2. \E f : Is(f, 0)
    BY <2>1
  <2> HIDE DEF Is
  <2> QED BY <2>2
<1>2. ASSUME NEW m \in Nat, m \in S PROVE m + 1 \in S
  <2>1. PICK f : Is(f, m)
    BY <1>2
  <2> DEFINE g == [k \in 0 .. (m + 1) |-> IF k <= m THEN f[k] ELSE f[m] + leaves[m + 1].amount]
  <2>2. /\ \A k \in 0 .. m : g[k] = f[k]
        /\ g[m + 1] = f[m] + leaves[m + 1].amount
    OBVIOUS
  <2> HIDE DEF g
  <2>3. ASSUME NEW k \in 0 .. (m + 1)
        PROVE  g[k] = IF k = 0 THEN 0 ELSE g[k - 1] + leaves[k].amount
    <3>1. CASE k = m + 1
      <4>1. g[k - 1] = f[m] /\ g[k] = f[m] + leaves[k].amount /\ k # 0
        BY <2>2, <3>1
      <4> QED BY <4>1
    <3>2. CASE k \in 0 .. m
      BY <2>1, <2>2, <3>2
    <3> QED BY <3>1, <3>2
  <2>4. \E h : Is(h, m + 1)
    BY <2>3
  <2> HIDE DEF Is
  <2> QED BY <2>4
<1>3. PICK f : Is(f, n)
  <2>1. n \in S
    <3> HIDE DEF S, n
    <3> QED BY <1>1, <1>2, Induction DEF n
  <2> QED BY <2>1
<1> DEFINE g == [k \in 0 .. n |-> f[k]]
<1>4. g = [k \in 0 .. n |-> IF k = 0 THEN 0 ELSE g[k - 1] + leaves[k].amount]
  BY <1>3
<1> HIDE DEF g
<1>5. sum = [k \in 0 .. n |-> IF k = 0 THEN 0 ELSE sum[k - 1] + leaves[k].amount]
  BY <1>4
<1>6. TotalSupply(leaves) = sum[n]
  BY DEF TotalSupply
<1> HIDE DEF sum
<1> QED BY <1>5, <1>6

(* Sums of the same amounts, or of so many times as much.                  *)
SumsUp(s, a, n) == \A i \in 0 .. n : s[i] = IF i = 0 THEN 0 ELSE s[i - 1] + a[i]

TimesEach(b, a, k, n) == k \in Nat /\ \A i \in 1 .. n : a[i] \in Nat /\ b[i] = a[i] * k

LEMMA SumsAlike ==
    ASSUME NEW n \in Nat, NEW a, NEW b, NEW k, NEW s, NEW t, TimesEach(b, a, k, n),
           SumsUp(s, a, n), SumsUp(t, b, n)
    PROVE  s[n] \in Nat /\ t[n] = s[n] * k
<1> DEFINE S == {i \in Nat : i <= n => s[i] \in Nat /\ t[i] = s[i] * k}
<1>1. 0 \in S
  BY DEF SumsUp, TimesEach
<1>2. ASSUME NEW i \in Nat, i \in S PROVE i + 1 \in S
  <2> SUFFICES ASSUME i + 1 <= n PROVE s[i + 1] \in Nat /\ t[i + 1] = s[i + 1] * k
    OBVIOUS
  <2>1. /\ s[i + 1] = s[i] + a[i + 1] /\ t[i + 1] = t[i] + a[i + 1] * k
        /\ a[i + 1] \in Nat /\ k \in Nat
    BY DEF SumsUp, TimesEach
  <2>2. s[i] \in Nat /\ t[i] = s[i] * k
    BY <1>2
  <2>3. \A x, y \in Nat : (x + y) * k = x * k + y * k
    BY DEF TimesEach
  <2> QED BY <2>1, <2>2, <2>3
<1>3. n \in S
  <2> HIDE DEF S
  <2> QED BY <1>1, <1>2, Induction
<1> QED BY <1>3

LEMMA AddedSumsUp ==
    ASSUME NEW n \in Nat, NEW a, OfLength(a, n)
    PROVE  \E s : Added(a) = s[n] /\ SumsUp(s, a, n)
<1>1. Len(a) = n
  BY AsSequence
<1>2. Len(a) \in Nat
  BY <1>1
<1>3. \E s : /\ Added(a) = s[Len(a)]
             /\ \A i \in 0 .. Len(a) : s[i] = IF i = 0 THEN 0 ELSE s[i - 1] + a[i]
  BY <1>2, AddedUp
<1> QED BY <1>1, <1>3 DEF SumsUp

LEMMA AddedTimes ==
    ASSUME NEW n \in Nat, NEW a, NEW b, OfLength(a, n), OfLength(b, n), NEW k \in Nat,
           \A i \in 1 .. n : a[i] \in Nat /\ b[i] = a[i] * k
    PROVE  Added(a) \in Nat /\ Added(b) = Added(a) * k
<1>1. PICK s : Added(a) = s[n] /\ SumsUp(s, a, n)
  BY AddedSumsUp
<1>2. PICK t : Added(b) = t[n] /\ SumsUp(t, b, n)
  BY AddedSumsUp
<1>3. s[n] \in Nat /\ t[n] = s[n] * k
  <2>1. TimesEach(b, a, k, n)
    BY DEF TimesEach
  <2> QED BY <1>1, <1>2, <2>1, SumsAlike
<1> QED BY <1>1, <1>2, <1>3

LEMMA AddedIsNatural ==
    ASSUME NEW n \in Nat, NEW a, OfLength(a, n), \A i \in 1 .. n : a[i] \in Nat
    PROVE  Added(a) \in Nat
<1>1. PICK s : Added(a) = s[n] /\ SumsUp(s, a, n)
  BY AddedSumsUp
<1>2. TimesEach(a, a, 1, n)
  BY DEF TimesEach
<1> QED BY <1>1, <1>2, SumsAlike

(* The library's sum is the pages'.                                        *)
LEMMA SuppliesAgree ==
    ASSUME NEW leaves, Len(leaves) \in Nat, DOMAIN leaves = 1 .. Len(leaves),
           \A i \in DOMAIN leaves : leaves[i].amount \in Nat
    PROVE  TotalSupply(leaves) = TotalOf(leaves) /\ TotalOf(leaves) \in Nat
<1> DEFINE n == Len(leaves)
           a == [i \in DOMAIN leaves |-> leaves[i].amount]
<1>1. OfLength(a, n) /\ \A i \in 1 .. n : a[i] = leaves[i].amount /\ a[i] \in Nat
  BY DEF OfLength
<1>2. TotalOf(leaves) = Added(a)
  BY DEF TotalOf
<1>3. n \in Nat
  OBVIOUS
<1> HIDE DEF a
<1>4. PICK t : /\ TotalSupply(leaves) = t[n]
               /\ \A i \in 0 .. n : t[i] = IF i = 0 THEN 0 ELSE t[i - 1] + leaves[i].amount
  BY SupplyUp
<1> HIDE DEF n
<1>5. PICK s : Added(a) = s[n] /\ SumsUp(s, a, n)
  BY <1>1, <1>3, AddedSumsUp
<1>6. SumsUp(t, a, n)
  <2> SUFFICES ASSUME NEW i \in 0 .. n PROVE t[i] = IF i = 0 THEN 0 ELSE t[i - 1] + a[i]
    BY DEF SumsUp
  <2>1. CASE i = 0
    BY <1>4, <2>1
  <2>2. CASE i # 0
    <3>1. i \in 1 .. n
      BY <1>3, <2>2
    <3> QED BY <1>1, <1>4, <2>2, <3>1
  <2> QED BY <2>1, <2>2
<1>7. s[n] \in Nat /\ t[n] = s[n] * 1
  <2>1. TimesEach(a, a, 1, n)
    BY <1>1 DEF TimesEach
  <2> QED BY <1>3, <1>5, <1>6, <2>1, SumsAlike
<1> QED BY <1>2, <1>4, <1>5, <1>7

(* The leaves that the library numbers are the page's.                     *)
LEMMA NumberedAre ==
    ASSUME NEW rows \in Seq(Allocated), rows # <<>>
    PROVE  /\ Numbered(rows) = Prepared(rows).leaves
           /\ Numbered(rows) \in Seq(TreeLeaf) /\ Len(Numbered(rows)) = Len(rows)
           /\ Len(rows) \in Nat \ {0} /\ DOMAIN Numbered(rows) = 1 .. Len(rows)
           /\ \A i \in 1 .. Len(rows) : /\ Numbered(rows)[i].leaf_index = i - 1
                                        /\ Numbered(rows)[i] = Indexed(rows[i], i - 1)
           /\ Numbered(rows) # <<>>
<1> DEFINE n == Len(rows)
           leaves == Numbered(rows)
<1>1. n \in Nat \ {0} /\ DOMAIN rows = 1 .. n
  OBVIOUS
<1>2. leaves = [i \in 1 .. n |-> Indexed(rows[i], i - 1)]
  BY <1>1 DEF Numbered, Indexed
<1>3. Prepared(rows).leaves = [i \in 1 .. n |-> Indexed(rows[i], i - 1)]
  BY <1>1 DEF Prepared
<1> HIDE DEF leaves
<1>4. ASSUME NEW i \in 1 .. n PROVE leaves[i] \in TreeLeaf /\ leaves[i].leaf_index = i - 1
  <2>1. rows[i] \in Allocated /\ i - 1 \in Nat
    BY <1>1
  <2>2. leaves[i] = Indexed(rows[i], i - 1)
    BY <1>2
  <2> QED BY <2>1, <2>2 DEF Indexed, TreeLeaf, Allocated
<1>5. leaves \in Seq(TreeLeaf)
  BY <1>1, <1>2, <1>4
<1>6. OfLength(leaves, n)
  BY <1>2 DEF OfLength
<1>7. Len(leaves) = n /\ DOMAIN leaves = 1 .. n
  BY <1>1, <1>6, AsSequence
<1>8. leaves # <<>>
  BY <1>1, <1>7
<1> QED BY <1>1, <1>2, <1>3, <1>4, <1>5, <1>7, <1>8 DEF leaves

(* What the library prepares. *)
LEMMA ClientPrepares ==
    ASSUME NEW rows \in Seq(Allocated), rows # <<>>
    PROVE  LET leaves == Numbered(rows)
               ls     == Layers(leaves)
               client == PrepareCampaign(rows)
           IN  /\ TreeLayers(leaves) = ls /\ Grown(ls, leaves)
               /\ client.root = Root(ls) /\ client.leaf_count = Len(rows)
               /\ client.leaves = leaves /\ client.total_supply = TotalOf(rows)
               /\ client.min_cliff_time = Prepared(rows).min_cliff_time
               /\ client.proofs = [i \in 1 .. Len(rows) |-> Proof(ls, i - 1)]
<1> DEFINE leaves == Numbered(rows)
           ls     == Layers(leaves)
           n      == Len(rows)
<1>1. /\ leaves = Prepared(rows).leaves /\ leaves \in Seq(TreeLeaf) /\ Len(leaves) = n
      /\ n \in Nat \ {0} /\ DOMAIN leaves = 1 .. n /\ DOMAIN rows = 1 .. n
      /\ \A i \in 1 .. n : leaves[i] = Indexed(rows[i], i - 1)
  BY NumberedAre
<1> HIDE DEF leaves
<1>2. Grown(ls, leaves) /\ Grown(TreeLayers(leaves), leaves)
  BY <1>1, LayersGrow, TreeLayersGrow
<1>3. TreeLayers(leaves) = ls
  <2>1. PICK a : a = TreeLayers(leaves)
    OBVIOUS
  <2>2. PICK b : b = ls
    OBVIOUS
  <2>3. a = b
    BY <1>1, <1>2, <2>1, <2>2, OneTree
  <2> QED BY <2>1, <2>2, <2>3
<1> HIDE DEF ls
<1>4. /\ PrepareCampaign(rows).root = ls[Len(ls)][1]
      /\ PrepareCampaign(rows).leaf_count = n
      /\ PrepareCampaign(rows).total_supply = TotalSupply(leaves)
      /\ PrepareCampaign(rows).min_cliff_time = ComputeMinCliffTime(leaves)
      /\ PrepareCampaign(rows).leaves = leaves
      /\ PrepareCampaign(rows).proofs = [i \in 1 .. n |-> ProofAt(ls, i - 1)]
  BY <1>1, <1>3 DEF PrepareCampaign, leaves
<1>5. \A i \in 1 .. n : ProofAt(ls, i - 1) = Proof(ls, i - 1)
  <2> SUFFICES ASSUME NEW i \in 1 .. n PROVE ProofAt(ls, i - 1) = Proof(ls, i - 1)
    OBVIOUS
  <2>1. PICK y : y = i - 1
    OBVIOUS
  <2>2. y \in 0 .. (Len(leaves) - 1)
    BY <1>1, <2>1
  <2>3. ProofAt(ls, y) = Proof(ls, y)
    BY <1>1, <1>2, <2>2, ClientProof
  <2> QED BY <2>1, <2>3
<1>6. TotalSupply(leaves) = TotalOf(rows)
  <2>1. ASSUME NEW i \in 1 .. n PROVE leaves[i].amount = rows[i].amount
    <3>1. leaves[i] = Indexed(rows[i], i - 1)
      BY <1>1
    <3> QED BY <3>1 DEF Indexed
  <2>2. \A i \in DOMAIN leaves : leaves[i].amount \in Nat
    <3>1. \A i \in 1 .. n : leaves[i] \in TreeLeaf
      BY <1>1
    <3> QED BY <1>1, <3>1 DEF TreeLeaf
  <2>3. TotalSupply(leaves) = TotalOf(leaves)
    BY <1>1, <2>2, SuppliesAgree
  <2>4. [i \in DOMAIN leaves |-> leaves[i].amount] = [i \in DOMAIN rows |-> rows[i].amount]
    BY <1>1, <2>1
  <2> QED BY <2>3, <2>4 DEF TotalOf
<1>7. ComputeMinCliffTime(leaves) = Prepared(rows).min_cliff_time
  <2>1. ASSUME NEW i \in 1 .. n PROVE leaves[i].cliff_time = rows[i].cliff_time
    <3>1. leaves[i] = Indexed(rows[i], i - 1)
      BY <1>1
    <3> QED BY <3>1 DEF Indexed
  <2>2. {leaves[i].cliff_time : i \in DOMAIN leaves} = {rows[i].cliff_time : i \in DOMAIN rows}
    BY <1>1, <2>1
  <2>3. Prepared(rows).min_cliff_time = Min({rows[i].cliff_time : i \in DOMAIN rows})
    BY DEF Prepared
  <2> QED BY <2>2, <2>3 DEF ComputeMinCliffTime
<1> QED BY <1>2, <1>3, <1>4, <1>5, <1>6, <1>7 DEF leaves, ls, Root

(* The library's verifier takes a proof at its own leaf and index alone.   *)
LEMMA ClientVerifies ==
    ASSUME NEW leaves, Len(leaves) \in Nat \ {0}, NEW ls, Grown(ls, leaves),
           \A i \in 1 .. Len(leaves) : leaves[i].leaf_index = i - 1,
           NEW a, a \in 1 .. Len(leaves), NEW b, b \in 0 .. (Len(leaves) - 1),
           NEW c, c \in 0 .. (Len(leaves) - 1)
    PROVE  VerifyProof(LeafHash(leaves[a]), Proof(ls, b), c, Root(ls)) <=> a - 1 = b /\ b = c
<1> DEFINE n == Len(leaves)
           L == MaxProofLen(n)
           path == Proof(ls, b)
           hash == LeafHash(leaves[a])
<1>1. n \in Nat \ {0} /\ L \in Nat
  BY ProofLength
<1>0. c \in 0 .. (n - 1) /\ Grown(ls, leaves)
  OBVIOUS
<1>2. /\ OfLength(path, L) /\ Len(path) = L
      /\ path = Proof(ls, c) <=> \A k \in 1 .. L : path[k] = Sibling(ls[k], Shifted(c, k - 1))
  BY BuildersProof
<1>3. \A i \in 1 .. n : ls[1][i] = LeafHash(leaves[i])
  BY DEF Grown, GrownTo
<1>4. path = Proof(ls, c) <=> b = c
  BY ProofsDiffer
<1> HIDE DEF n, L, path, hash
<1>5. c \in Nat /\ Len(path) \in Nat
  BY <1>1, <1>2
<1>6. PICK h : /\ Ascent(h, hash, path, c)
               /\ VerifyProof(hash, path, c, Root(ls)) <=> h[Len(path)] = Root(ls)
  <2>1. PICK r : r = Root(ls)
    OBVIOUS
  <2>2. PICK y : y = c
    OBVIOUS
  <2>3. PICK p : p = path
    OBVIOUS
  <2>4. Len(p) \in Nat /\ y \in Nat
    BY <1>5, <2>2, <2>3
  <2>5. \E h : /\ Ascent(h, hash, p, y)
               /\ VerifyProof(hash, p, y, r) <=> h[Len(p)] = r
    BY <2>4, VerifyProofUp
  <2> QED BY <2>1, <2>2, <2>3, <2>5
<1>7. h[Len(path)] = Root(ls) <=>
        /\ hash = ls[1][c + 1]
        /\ \A k \in 1 .. Len(path) : path[k] = Sibling(ls[k], Shifted(c, k - 1))
  <2>1. /\ Len(leaves) \in Nat \ {0} /\ Grown(ls, leaves) /\ c \in 0 .. (Len(leaves) - 1)
        /\ Len(path) = MaxProofLen(Len(leaves)) /\ Ascent(h, hash, path, c)
    BY <1>0, <1>1, <1>2, <1>6 DEF L, n
  <2>2. h[Len(path)] = Root(ls) <=> hash = ls[1][c + 1] /\ Follows(path, ls, c)
    BY <2>1, Followed
  <2> QED BY <2>2 DEF Follows
<1>8. hash = ls[1][c + 1] <=> a - 1 = c
  <2>1. c + 1 \in 1 .. n /\ a \in 1 .. n /\ ls[1][c + 1] = LeafHash(leaves[c + 1])
    BY <1>0, <1>1, <1>3 DEF n
  <2>2. leaves[c + 1].leaf_index = c + 1 - 1 /\ leaves[a].leaf_index = a - 1
    BY <2>1
  <2>3. LeafHash(leaves[a]) = LeafHash(leaves[c + 1]) => a - 1 = c
    BY <2>1, <2>2, HashesApart
  <2>4. a - 1 = c => a = c + 1
    BY <2>1
  <2> QED BY <2>1, <2>3, <2>4 DEF hash
<1> QED BY <1>2, <1>4, <1>6, <1>7, <1>8 DEF path, hash

LEMMA RowsAgree ==
    ASSUME NEW rows \in Seq(Allocated), rows # <<>>, FitsTree(rows)
    PROVE  Agrees(rows)
<1> DEFINE leaves == Numbered(rows)
           n      == Len(rows)
           ls     == Layers(leaves)
           client == PrepareCampaign(rows)
           rotation == PrepareRootRotation(rows)
<1>1. /\ Len(leaves) = n /\ leaves # <<>> /\ n \in Nat \ {0} /\ DOMAIN leaves = 1 .. n
      /\ \A i \in 1 .. n : leaves[i].leaf_index = i - 1
  BY NumberedAre
<1>2. /\ TreeLayers(leaves) = ls /\ Grown(ls, leaves)
      /\ client.root = Root(ls) /\ client.leaf_count = n /\ client.leaves = leaves
      /\ client.proofs = [i \in 1 .. n |-> Proof(ls, i - 1)]
  BY ClientPrepares
<1>3. MaxProofLen(n) <= MaxTreeDepth
  BY DEF FitsTree
<1>4. \A field \in DOMAIN rotation : rotation[field] = client[field]
  <2>1. DOMAIN rotation = {"root", "leaf_count", "min_cliff_time", "leaves", "proofs"}
    BY DEF PrepareRootRotation
  <2>2. /\ rotation.root = client.root /\ rotation.leaf_count = client.leaf_count
        /\ rotation.min_cliff_time = client.min_cliff_time
        /\ rotation.leaves = client.leaves /\ rotation.proofs = client.proofs
    BY DEF PrepareRootRotation, PrepareCampaign
  <2> HIDE DEF rotation, client
  <2> QED BY <2>1, <2>2
<1> HIDE DEF leaves, ls, n, client, rotation
<1>0. /\ Len(leaves) \in Nat \ {0} /\ Grown(ls, leaves) /\ Len(leaves) = n
      /\ \A i \in 1 .. Len(leaves) : leaves[i].leaf_index = i - 1
  BY <1>1, <1>2
<1>5. Constructible(leaves)
  BY <1>1, <1>3 DEF Constructible
<1>6. ASSUME NEW i \in DOMAIN leaves, NEW j \in DOMAIN leaves, NEW k \in DOMAIN leaves
      PROVE  /\ VerifyProof(HashOfLeaf(leaves[i]), client.proofs[j], k - 1, client.root)
                  <=> i = j /\ j = k
             /\ VerifiesAt(ls, k - 1, client.proofs[j]) <=> j = k
  <2>0. i \in 1 .. n /\ j \in 1 .. n /\ k \in 1 .. n
    BY <1>1
  <2> DEFINE path == Proof(ls, j - 1)
             rootHash == Root(ls)
  <2>1. client.proofs[j] = path /\ client.root = rootHash
    BY <1>2, <2>0
  <2>2. PICK b : b = j - 1
    OBVIOUS
  <2>3. PICK c : c = k - 1
    OBVIOUS
  <2>4. b \in 0 .. (n - 1) /\ c \in 0 .. (n - 1)
    BY <1>1, <2>0, <2>2, <2>3
  <2>5. path = Proof(ls, b)
    BY <2>2
  <2> HIDE DEF path, rootHash
  <2>6. VerifyProof(LeafHash(leaves[i]), path, c, rootHash) <=> i - 1 = b /\ b = c
    <3>1. PICK a : a = i
      OBVIOUS
    <3>2. a \in 1 .. Len(leaves)
      BY <1>0, <2>0, <3>1
    <3>3. b \in 0 .. (Len(leaves) - 1) /\ c \in 0 .. (Len(leaves) - 1)
      BY <1>0, <2>4
    <3>4. VerifyProof(LeafHash(leaves[a]), Proof(ls, b), c, Root(ls)) <=> a - 1 = b /\ b = c
      BY <1>0, <3>2, <3>3, ClientVerifies, ZenonT(30)
    <3> QED BY <2>5, <3>1, <3>4 DEF rootHash
  <2>7. VerifyProof(LeafHash(leaves[k]), path, c, rootHash) <=> k - 1 = b /\ b = c
    <3>1. PICK a : a = k
      OBVIOUS
    <3>2. a \in 1 .. Len(leaves)
      BY <1>0, <2>0, <3>1
    <3>3. b \in 0 .. (Len(leaves) - 1) /\ c \in 0 .. (Len(leaves) - 1)
      BY <1>0, <2>4
    <3>4. VerifyProof(LeafHash(leaves[a]), Proof(ls, b), c, Root(ls)) <=> a - 1 = b /\ b = c
      BY <1>0, <3>2, <3>3, ClientVerifies, ZenonT(30)
    <3> QED BY <2>5, <3>1, <3>4 DEF rootHash
  <2>8. HashOfLeaf(leaves[i]) = LeafHash(leaves[i])
    BY ClientLeaf
  <2>9. ls[1][(k - 1) + 1] = LeafHash(leaves[k])
    <3>1. (k - 1) + 1 = k
      BY <1>1, <2>0
    <3>2. ls[1][k] = LeafHash(leaves[k])
      BY <1>1, <1>2, <2>0 DEF Grown, GrownTo
    <3> QED BY <3>1, <3>2
  <2>10. VerifiesAt(ls, k - 1, path) <=> VerifyProof(LeafHash(leaves[k]), path, k - 1, rootHash)
    BY <2>9 DEF VerifiesAt, rootHash, Root
  <2>11. /\ i - 1 = b /\ b = c <=> i = j /\ j = k
         /\ k - 1 = b /\ b = c <=> j = k
    BY <1>1, <2>0, <2>2, <2>3
  <2> QED BY <2>1, <2>3, <2>6, <2>7, <2>8, <2>10, <2>11
<1>7. \A i \in 1 .. n : client.proofs[i] = Proof(ls, i - 1)
  BY <1>2
<1>8. /\ Constructible(leaves) /\ TreeLayers(leaves) = ls /\ client.root = Root(ls)
      /\ \A i \in DOMAIN leaves : client.proofs[i] = Proof(ls, i - 1)
      /\ \A i, j, k \in DOMAIN leaves :
             /\ VerifyProof(HashOfLeaf(leaves[i]), client.proofs[j], k - 1, client.root)
                  <=> i = j /\ j = k
             /\ VerifiesAt(ls, k - 1, client.proofs[j]) <=> j = k
  <2>1. \A i, j, k \in DOMAIN leaves :
             /\ VerifyProof(HashOfLeaf(leaves[i]), client.proofs[j], k - 1, client.root)
                  <=> i = j /\ j = k
             /\ VerifiesAt(ls, k - 1, client.proofs[j]) <=> j = k
    BY <1>6
  <2>2. \A i \in DOMAIN leaves : client.proofs[i] = Proof(ls, i - 1)
    BY <1>1, <1>7
  <2> QED BY <1>2, <1>5, <2>1, <2>2
<1> QED BY <1>2, <1>4, <1>8 DEF Agrees, leaves, ls, client, rotation

(* ------------------------- what is prepared ----------------------------- *)

(* A campaign of one row is the stream that would have been made of it.    *)
LEMMA StreamAlike ==
    ASSUME NEW rows \in Seq(Allocated), Len(rows) = 1
    PROVE  StreamPayload(rows[1]) = PrepareCampaign(rows)
<1> DEFINE row    == rows[1]
           leaves == Numbered(rows)
           ls     == Layers(leaves)
           client == PrepareCampaign(rows)
           leaf   == [field \in DOMAIN row \cup {"leaf_index"} |->
                        IF field = "leaf_index" THEN 0 ELSE row[field]]
<1>1. rows # <<>> /\ row \in Allocated /\ DOMAIN rows = 1 .. 1
  OBVIOUS
<1>2. leaf = Indexed(row, 0)
  <2>1. DOMAIN row = {"beneficiary", "amount", "release_type", "start_time", "cliff_time",
                      "end_time", "milestone_idx"}
    BY <1>1 DEF Allocated
  <2> DEFINE indexed == Indexed(row, 0)
  <2>2. /\ DOMAIN indexed = {"leaf_index", "beneficiary", "amount", "release_type",
                             "start_time", "cliff_time", "end_time", "milestone_idx"}
        /\ indexed = [field \in DOMAIN indexed |-> indexed[field]]
    BY DEF Indexed
  <2>3. /\ indexed["leaf_index"] = 0 /\ indexed["beneficiary"] = row["beneficiary"]
        /\ indexed["amount"] = row["amount"] /\ indexed["release_type"] = row["release_type"]
        /\ indexed["start_time"] = row["start_time"] /\ indexed["cliff_time"] = row["cliff_time"]
        /\ indexed["end_time"] = row["end_time"]
        /\ indexed["milestone_idx"] = row["milestone_idx"]
    BY DEF Indexed
  <2> HIDE DEF row, indexed
  <2>4. DOMAIN leaf = DOMAIN indexed
    BY <2>1, <2>2
  <2>5. ASSUME NEW field \in DOMAIN indexed PROVE leaf[field] = indexed[field]
    BY <2>1, <2>2, <2>3
  <2>6. leaf = [field \in DOMAIN leaf |-> leaf[field]]
    OBVIOUS
  <2> HIDE DEF leaf
  <2>7. leaf = indexed
    BY <2>2, <2>4, <2>5, <2>6
  <2> QED BY <2>7 DEF indexed
<1>3. /\ leaves = Prepared(rows).leaves /\ leaves \in Seq(TreeLeaf) /\ Len(leaves) = 1
      /\ DOMAIN leaves = 1 .. 1 /\ leaves[1] = Indexed(row, 0)
  <2>1. 1 \in 1 .. 1 /\ 1 - 1 = 0
    OBVIOUS
  <2> QED BY <1>1, <2>1, NumberedAre
<1>4. /\ Grown(ls, leaves) /\ client.root = Root(ls) /\ client.leaf_count = 1
      /\ client.leaves = leaves /\ client.total_supply = TotalOf(rows)
      /\ client.min_cliff_time = Prepared(rows).min_cliff_time
      /\ client.proofs = [i \in 1 .. 1 |-> Proof(ls, i - 1)]
  BY <1>1, ClientPrepares
<1> HIDE DEF ls, leaf
<1>5. MaxProofLen(1) = 0
  BY DEF MaxProofLen
<1>6. Root(ls) = LeafHash(leaf)
  <2>1. OfLength(ls, 1) /\ 1 \in Nat
    BY <1>3, <1>4, <1>5 DEF Grown, GrownTo
  <2>2. Len(ls) = 1
    BY <2>1, AsSequence
  <2>3. ls[1][1] = LeafHash(leaves[1])
    BY <1>3, <1>4 DEF Grown, GrownTo
  <2> QED BY <1>2, <1>3, <2>2, <2>3 DEF Root
<1>7. leaves = <<leaf>>
  <2>1. leaves = [i \in 1 .. 1 |-> leaves[i]]
    BY <1>3
  <2> HIDE DEF leaves
  <2> QED BY <1>2, <1>3, <2>1
<1>8. TotalOf(rows) = leaf.amount
  <2> DEFINE a == [i \in DOMAIN rows |-> rows[i].amount]
  <2>1. a[1] = leaf.amount /\ a[1] \in Nat /\ OfLength(a, 1)
    BY <1>1, <1>2 DEF Indexed, Allocated, OfLength
  <2> HIDE DEF a
  <2>2. Len(a) = 1
    BY <2>1, AsSequence
  <2>3. PICK s : Added(a) = s[1] /\ SumsUp(s, a, 1)
    BY <2>1, AddedSumsUp
  <2>4. s[0] = 0 /\ s[1] = s[1 - 1] + a[1]
    BY <2>3 DEF SumsUp
  <2>5. Added(a) = a[1]
    BY <2>1, <2>3, <2>4
  <2> QED BY <2>1, <2>5 DEF TotalOf, a
<1>9. Prepared(rows).min_cliff_time = leaf.cliff_time
  <2> DEFINE values == {rows[i].cliff_time : i \in DOMAIN rows}
  <2>1. values = {leaf.cliff_time} /\ leaf.cliff_time \in Nat
    BY <1>1, <1>2 DEF Indexed, Allocated
  <2>2. Prepared(rows).min_cliff_time = Min(values)
    BY DEF Prepared
  <2> HIDE DEF values
  <2>3. Min({leaf.cliff_time}) = leaf.cliff_time
    BY <2>1 DEF Min
  <2> QED BY <2>1, <2>2, <2>3
<1>10. client.proofs = <<<<>>>>
  <2>1. OfLength(Proof(ls, 0), 0)
    <3>1. Len(leaves) \in Nat \ {0} /\ MaxProofLen(Len(leaves)) = 0
      BY <1>3, <1>5
    <3> HIDE DEF leaves
    <3> QED BY <1>4, <3>1, BuildersProof
  <2> DEFINE p == Proof(ls, 0)
  <2>2. p = <<>>
    <3> HIDE DEF p
    <3> QED BY <2>1 DEF OfLength, p
  <2>3. \A i \in 1 .. 1 : Proof(ls, i - 1) = p
    OBVIOUS
  <2>4. client.proofs = [i \in 1 .. 1 |-> p]
    BY <1>4, <2>3
  <2> HIDE DEF p, client
  <2> QED BY <2>2, <2>4
<1>11. client = [root |-> client.root, leaf_count |-> client.leaf_count,
                 total_supply |-> client.total_supply, min_cliff_time |-> client.min_cliff_time,
                 leaves |-> client.leaves, proofs |-> client.proofs]
  BY DEF PrepareCampaign
<1>12. StreamPayload(row) =
         [root |-> LeafHash(leaf), leaf_count |-> 1, total_supply |-> leaf.amount,
          min_cliff_time |-> leaf.cliff_time, leaves |-> <<leaf>>, proofs |-> <<<<>>>>]
  BY DEF StreamPayload, leaf
<1> HIDE DEF client, leaves, row
<1> QED BY <1>4, <1>6, <1>7, <1>8, <1>9, <1>10, <1>11, <1>12 DEF client, row

LEMMA AllPrepareAlike ==
    ASSUME NEW rows \in Seq(Allocated), rows # <<>>
    PROVE  PreparedAlike(rows)
<1>1. /\ PrepareCampaign(rows).leaves = Prepared(rows).leaves
      /\ PrepareCampaign(rows).leaf_count = Len(Prepared(rows).leaves)
      /\ PrepareCampaign(rows).total_supply = TotalOf(rows)
      /\ PrepareCampaign(rows).min_cliff_time = Prepared(rows).min_cliff_time
  <2>1. Numbered(rows) = Prepared(rows).leaves /\ Len(Numbered(rows)) = Len(rows)
    BY NumberedAre
  <2> QED BY <2>1, ClientPrepares
<1>2. Prepared(rows).total_supply = TotalOf(rows)
  BY DEF Prepared
<1>3. Len(rows) = 1 => StreamPayload(rows[1]) = PrepareCampaign(rows)
  BY StreamAlike
<1> QED BY <1>1, <1>2, <1>3 DEF PreparedAlike

(* No row of the server's tables has to do without its campaign. *)
LEMMA NoneRefused ==
    ASSUME NEW rows \in Seq(Allocated), rows # <<>>, Buildable(rows)
    PROVE  NoRowRefused(rows)
<1> DEFINE client   == PrepareCampaign(rows)
           rotation == PrepareRootRotation(rows)
           leaves   == Numbered(rows)
           ls       == Layers(leaves)
           n        == Len(rows)
<1>1. /\ leaves \in Seq(TreeLeaf) /\ Len(leaves) = n /\ n \in Nat \ {0} /\ leaves # <<>>
      /\ DOMAIN leaves = 1 .. n /\ DOMAIN rows = 1 .. n
      /\ \A i \in 1 .. n : leaves[i] = Indexed(rows[i], i - 1)
  BY NumberedAre
<1>2. /\ Grown(ls, leaves) /\ client.leaf_count = n /\ client.leaves = leaves
      /\ client.proofs = [i \in 1 .. n |-> Proof(ls, i - 1)]
      /\ client.min_cliff_time = Prepared(rows).min_cliff_time
  BY ClientPrepares
<1>3. /\ rotation.leaf_count = client.leaf_count /\ rotation.leaves = client.leaves
      /\ rotation.proofs = client.proofs /\ rotation.min_cliff_time = client.min_cliff_time
  BY DEF PrepareRootRotation, PrepareCampaign
<1> HIDE DEF client, rotation, leaves, ls
<1>4. ASSUME NEW i \in 1 .. n PROVE LeafValid(leaves[i], client.proofs[i])
  <2>1. Len(client.proofs[i]) = MaxProofLen(n)
    <3>1. client.proofs[i] = Proof(ls, i - 1)
      BY <1>2
    <3>2. Len(leaves) \in Nat \ {0} /\ Grown(ls, leaves)
      BY <1>1, <1>2
    <3>3. PICK y : y = i - 1
      OBVIOUS
    <3>4. Len(Proof(ls, y)) = MaxProofLen(Len(leaves))
      BY <3>2, BuildersProof
    <3> QED BY <1>1, <3>1, <3>3, <3>4
  <2>2. MaxProofLen(n) \in Nat /\ MaxProofLen(n) <= 32
    <3>1. MaxProofLen(n) <= MaxTreeDepth
      BY DEF Buildable, FitsTree
    <3>2. MaxProofLen(n) \in Nat
      BY <1>1, ProofLength
    <3> QED BY <3>1, <3>2, DepthAssumption
  <2>3. leaves[i] \in TreeLeaf /\ rows[i].milestone_idx <= MaxMilestone
        /\ leaves[i].milestone_idx = rows[i].milestone_idx
    BY <1>1 DEF Buildable, Encodable, Indexed
  <2> QED BY <2>1, <2>2, <2>3, AllocationAssumption DEF LeafValid, TreeLeaf, Pages
<1>5. LeavesValid(client) /\ LeavesValid(rotation)
  BY <1>1, <1>2, <1>3, <1>4 DEF LeavesValid
<1>6. Prepared(rows).min_cliff_time \in Nat
  <2> DEFINE f == [i \in 1 .. n |-> rows[i].cliff_time]
  <2>1. {rows[i].cliff_time : i \in DOMAIN rows} = {f[i] : i \in 1 .. n}
    BY <1>1
  <2>2. \A i \in 1 .. n : f[i] \in Nat
    <3> SUFFICES ASSUME NEW i \in 1 .. n PROVE f[i] \in Nat
      OBVIOUS
    <3>1. rows[i] \in Allocated
      BY <1>1
    <3> QED BY <3>1 DEF Allocated
  <2> HIDE DEF f
  <2>3. Min({f[i] : i \in 1 .. n}) \in {f[i] : i \in 1 .. n}
    BY <1>1, <2>2, Extremes
  <2>4. Min({f[i] : i \in 1 .. n}) \in Nat
    BY <2>2, <2>3
  <2> QED BY <2>1, <2>4 DEF Prepared
<1>7. UpdateAccepts(Prepared(rows), <<>>) => RootVersionRequestValid(rotation)
  BY <1>2, <1>3, <1>5, <1>6 DEF UpdateAccepts, RootVersionRequestValid
<1>8. n = 1 => CampaignRequestValid(StreamPayload(rows[1]))
  BY <1>5, StreamAlike DEF CampaignRequestValid, client
<1> QED BY <1>5, <1>7, <1>8 DEF NoRowRefused, CampaignRequestValid, client, rotation

(* ------------------------- the import of rows --------------------------- *)

(* The import objects to nothing if every row is valid and none is over.   *)
LEMMA NoErrors ==
    ASSUME NEW n \in Nat, NEW valid, valid \subseteq 1 .. n, NEW over, over \subseteq valid
    PROVE  n - Cardinality(valid) + Cardinality(over) = 0 <=> valid = 1 .. n /\ over = {}
<1>1. IsFiniteSet(1 .. n) /\ Cardinality(1 .. n) = n
  BY FS_Interval
<1>2. /\ IsFiniteSet(valid) /\ Cardinality(valid) <= n
      /\ Cardinality(valid) = n => valid = 1 .. n
  <2>1. valid \in SUBSET (1 .. n)
    OBVIOUS
  <2> QED BY <1>1, <2>1, FS_Subset
<1>3. IsFiniteSet(over)
  <2>1. over \in SUBSET valid
    OBVIOUS
  <2> QED BY <1>2, <2>1, FS_Subset
<1>4. /\ Cardinality(valid) \in Nat /\ Cardinality(over) \in Nat
      /\ Cardinality(over) = 0 <=> over = {}
  BY <1>2, <1>3, FS_CardinalityType, FS_EmptySet
<1> QED BY <1>1, <1>2, <1>4

LEMMA ImportLikePrepare ==
    ASSUME NEW file \in Seq(Allocated)
    PROVE  LET Which(row) == <<row.beneficiary, row.release_type, row.milestone_idx>>
               doubled == \E i, j \in DOMAIN file :
                            /\ i # j /\ Which(file[i]) = Which(file[j])
                            /\ file[i].release_type = Milestone
           IN  PrepareAccepts(file) <=> Imported(file).errors = 0 /\ ~doubled
<1> DEFINE n == Len(file)
           Which(row) == <<row.beneficiary, row.release_type, row.milestone_idx>>
           doubled == \E i, j \in DOMAIN file :
                            /\ i # j /\ Which(file[i]) = Which(file[j])
                            /\ file[i].release_type = Milestone
           valid == {i \in DOMAIN file : RecipientValid(file[i])}
           Slots(i) == {j \in valid : /\ j <= i /\ file[j].beneficiary = file[i].beneficiary
                                      /\ file[j].release_type # Milestone}
           over  == {i \in valid : file[i].release_type # Milestone
                                    /\ Cardinality(Slots(i)) > PerLeafCap}
           Theirs(i) == {j \in DOMAIN file : file[j].release_type # Milestone
                                              /\ file[j].beneficiary = file[i].beneficiary}
           once == \A i, j \in {k \in DOMAIN file : file[k].release_type = Milestone} :
                      file[i].beneficiary = file[j].beneficiary
                        /\ file[i].milestone_idx = file[j].milestone_idx => i = j
<1>1. n \in Nat /\ DOMAIN file = 1 .. n
  OBVIOUS
<1>2. Imported(file).errors = n - Cardinality(valid) + Cardinality(over)
  BY DEF Imported
<1>3. PrepareAccepts(file) <=> /\ \A i \in DOMAIN file : RecipientValid(file[i])
                               /\ once
                               /\ \A i \in DOMAIN file : Cardinality(Theirs(i)) <= PerLeafCap
  BY DEF PrepareAccepts
<1>4. once <=> ~doubled
  OBVIOUS
<1> HIDE DEF once, doubled
<1>5. Imported(file).errors = 0 <=> valid = 1 .. n /\ over = {}
  <2>1. valid \subseteq 1 .. n /\ over \subseteq valid
    BY <1>1
  <2> HIDE DEF valid, over, n
  <2>2. n - Cardinality(valid) + Cardinality(over) = 0 <=> valid = 1 .. n /\ over = {}
    BY <1>1, <2>1, NoErrors
  <2> QED BY <1>2, <2>2
<1>6. (\A i \in DOMAIN file : RecipientValid(file[i])) <=> valid = 1 .. n
  BY <1>1
<1>7. ASSUME valid = 1 .. n
      PROVE  over = {} <=> \A i \in DOMAIN file : Cardinality(Theirs(i)) <= PerLeafCap
  <2>0. PerLeafCap \in Nat
    BY AllocationAssumption
  <2>1. ASSUME NEW i \in DOMAIN file
        PROVE  /\ IsFiniteSet(Theirs(i)) /\ Cardinality(Theirs(i)) \in Nat
               /\ Slots(i) \subseteq Theirs(i) /\ Cardinality(Slots(i)) \in Nat
               /\ Cardinality(Slots(i)) <= Cardinality(Theirs(i))
    <3>1. Theirs(i) \in SUBSET (1 .. n) /\ IsFiniteSet(1 .. n)
      BY <1>1, FS_Interval
    <3>2. Slots(i) \in SUBSET Theirs(i)
      BY <1>1, <1>7
    <3> HIDE DEF Theirs, Slots
    <3>3. IsFiniteSet(Theirs(i))
      BY <3>1, FS_Subset
    <3>4. IsFiniteSet(Slots(i)) /\ Cardinality(Slots(i)) <= Cardinality(Theirs(i))
      BY <3>2, <3>3, FS_Subset
    <3> QED BY <3>2, <3>3, <3>4, FS_CardinalityType
  <2>2. ASSUME \A i \in DOMAIN file : Cardinality(Theirs(i)) <= PerLeafCap PROVE over = {}
    <3> SUFFICES ASSUME NEW i \in over PROVE FALSE
      OBVIOUS
    <3>1. i \in DOMAIN file /\ Cardinality(Slots(i)) > PerLeafCap
      BY <1>1, <1>7
    <3>2. /\ Cardinality(Slots(i)) <= Cardinality(Theirs(i)) /\ Cardinality(Slots(i)) \in Nat
          /\ Cardinality(Theirs(i)) \in Nat /\ Cardinality(Theirs(i)) <= PerLeafCap
      BY <2>1, <2>2, <3>1
    <3> HIDE DEF Slots, Theirs
    <3> QED BY <2>0, <3>1, <3>2
  <2>3. ASSUME over = {}, NEW i \in DOMAIN file PROVE Cardinality(Theirs(i)) <= PerLeafCap
    <3>1. CASE Theirs(i) = {}
      <4> HIDE DEF Theirs
      <4> QED BY <2>0, <3>1, FS_EmptySet
    <3>2. CASE Theirs(i) # {}
      <4>1. PICK m \in Theirs(i) : \A j \in Theirs(i) : j <= m
        <5>1. Theirs(i) \subseteq 1 .. n
          BY <1>1
        <5> HIDE DEF Theirs, n
        <5> QED BY <1>1, <3>2, <5>1, Greatest
      <4>2. m \in valid /\ file[m].release_type # Milestone
            /\ file[m].beneficiary = file[i].beneficiary /\ m \in DOMAIN file
        BY <1>1, <1>7, <4>1
      <4>3. Slots(m) = Theirs(i)
        BY <1>1, <1>7, <4>1, <4>2
      <4>4. m \notin over
        BY <2>3
      <4>5. ~(Cardinality(Slots(m)) > PerLeafCap)
        <5> HIDE DEF Slots, valid
        <5> QED BY <4>2, <4>4
      <4>6. Cardinality(Theirs(i)) \in Nat
        BY <2>1, <2>3
      <4> HIDE DEF Theirs, Slots
      <4> QED BY <2>0, <4>3, <4>5, <4>6
    <3> QED BY <3>1, <3>2
  <2> QED BY <2>2, <2>3
<1> HIDE DEF valid, over, Theirs
<1> QED BY <1>3, <1>4, <1>5, <1>6, <1>7 DEF doubled

LEMMA ImportsFit ==
    ASSUME NEW rows \in Seq(Allocated)
    PROVE  ImportFitsPrepare(rows)
<1> DEFINE twice == rows \o rows
<1>1. twice \in Seq(Allocated)
  <2>1. \A S : \A s \in Seq(S) : s \o s \in Seq(S)
    OBVIOUS
  <2> HIDE DEF twice
  <2> QED BY <2>1 DEF twice
<1> HIDE DEF twice
<1>2. \A file \in {rows, twice} : file \in Seq(Allocated)
  BY <1>1
<1> QED BY <1>2, ImportLikePrepare DEF ImportFitsPrepare, twice

(* ------------------------------- amounts -------------------------------- *)

LEMMA Division ==
    ASSUME NEW x \in Nat, NEW p \in Nat \ {0}
    PROVE  (x * p) \div p = x
OBVIOUS

LEMMA Exactly ==
    ASSUME NEW x \in Nat, NEW p \in Nat \ {0}, x % p = 0
    PROVE  (x \div p) * p = x
OBVIOUS

(* What an amount passes the check for is what it becomes.                 *)
LEMMA RawIsExact ==
    ASSUME NEW d \in 0 .. DefaultDecimals, NEW w \in Nat \cup {None}, ValidAmount(w, d)
    PROVE  /\ Raw(w, d) \in Nat \ {0}
           /\ Raw(w, d) * Unit = w * 10^d
<1>1. /\ 10^d \in Nat \ {0} /\ Unit \in Nat \ {0}
      /\ w \in Nat \ {0} /\ (w * 10^d) % Unit = 0
  BY PowersOfTen, AllocationAssumption DEF ValidAmount
<1> DEFINE x == w * 10^d
<1>2. x \in Nat \ {0}
  BY <1>1
<1>3. x % Unit = 0
  BY <1>1
<1> HIDE DEF x
<1>4. (x \div Unit) * Unit = x /\ x \div Unit \in Nat
  BY <1>1, <1>2, <1>3, Exactly
<1>5. x \div Unit # 0
  BY <1>1, <1>2, <1>4
<1> QED BY <1>4, <1>5 DEF Raw, x

(* Written out and read again with the same decimals an amount is what it  *)
(* was.                                                                    *)
LEMMA WrittenAndRead ==
    ASSUME NEW d \in 0 .. DefaultDecimals, NEW raw \in Nat
    PROVE  /\ Written(raw, d) \in Nat
           /\ Raw(Written(raw, d), d) = raw
<1> DEFINE p == 10^d
<1>1. p \in Nat \ {0} /\ Unit \in Nat \ {0} /\ Unit % p = 0
  BY PowersOfTen
<1> DEFINE k == Unit \div p
<1> HIDE DEF p
<1>2. k \in Nat /\ k * p = Unit
  BY <1>1, Exactly
<1> HIDE DEF k
<1>3. raw * Unit = (raw * k) * p /\ raw * k \in Nat
  BY <1>1, <1>2
<1>4. (raw * Unit) \div p = raw * k
  BY <1>1, <1>3, Division
<1>5. ((raw * Unit) \div p) * p = raw * Unit
  BY <1>3, <1>4
<1>6. (raw * Unit) \div Unit = raw
  BY <1>1, Division
<1> QED BY <1>3, <1>4, <1>5, <1>6 DEF Written, Raw, p

(* -------------------------------- rows ---------------------------------- *)

(* The leaves of a tree are its rows, with a number.                       *)
SameBut(leaf, row) ==
    /\ leaf.beneficiary = row.beneficiary /\ leaf.amount = row.amount
    /\ leaf.release_type = row.release_type /\ leaf.start_time = row.start_time
    /\ leaf.cliff_time = row.cliff_time /\ leaf.end_time = row.end_time
    /\ leaf.milestone_idx = row.milestone_idx

LEMMA PreparedLeaves ==
    ASSUME NEW rows \in Seq(Allocated)
    PROVE  LET leaves == Prepared(rows).leaves IN
           /\ leaves \in Seq(TreeLeaf) /\ DOMAIN leaves = DOMAIN rows
           /\ \A i \in DOMAIN rows : SameBut(leaves[i], rows[i])
           /\ TotalOf(leaves) = TotalOf(rows)
           /\ Prepared(rows).total_supply = TotalOf(rows)
<1> DEFINE leaves == [i \in DOMAIN rows |-> Indexed(rows[i], i - 1)]
<1>1. Prepared(rows).leaves = leaves /\ Prepared(rows).total_supply = TotalOf(rows)
  BY DEF Prepared
<1>2. DOMAIN rows = 1 .. Len(rows) /\ Len(rows) \in Nat
  OBVIOUS
<1>3. ASSUME NEW i \in DOMAIN rows
      PROVE  leaves[i] \in TreeLeaf /\ SameBut(leaves[i], rows[i])
  <2>1. rows[i] \in Allocated
    BY <1>3
  <2>2. leaves[i] = Indexed(rows[i], i - 1) /\ i - 1 \in Nat
    BY <1>2, <1>3
  <2> QED BY <2>1, <2>2 DEF Indexed, Allocated, TreeLeaf, SameBut
<1>4. leaves \in Seq(TreeLeaf) /\ DOMAIN leaves = DOMAIN rows
  BY <1>2, <1>3
<1>5. [i \in DOMAIN leaves |-> leaves[i].amount] = [i \in DOMAIN rows |-> rows[i].amount]
  BY <1>3, <1>4 DEF SameBut
<1> HIDE DEF leaves
<1> QED BY <1>1, <1>3, <1>4, <1>5 DEF TotalOf

(* ------------------------- the inductive invariant ---------------------- *)

(* Nobody is in two rows, or on the milestone page with one index twice.   *)
Distinct(page, rows) ==
    \A i, j \in DOMAIN rows :
        /\ rows[i].beneficiary = rows[j].beneficiary
        /\ page = Milestone => rows[i].milestone_idx = rows[j].milestone_idx
        => i = j

(* Times that nobody looked at. *)
Excused(page, shown, i) ==
    /\ shown.mode = "single"
    /\ page = Milestone \/ (page = Linear /\ shown.times[i].start = None)

(* Rows of a page that can be paid; and are what was written, in this token. *)
PayableRows(page, rows, shown) ==
    /\ Distinct(page, rows) /\ Encodable(rows)
    /\ \A i \in DOMAIN rows :
         /\ rows[i].release_type = page /\ rows[i].amount # 0
         /\ WellFormed(rows[i]) \/ Excused(page, shown, i)

WrittenRows(page, rows, shown, token) ==
    ~(page = Milestone /\ shown.stale) =>
        /\ token = shown.mint /\ DOMAIN rows = DOMAIN shown.amounts
        /\ \A i \in DOMAIN rows : rows[i].amount * Unit = shown.amounts[i] * 10^Decimals[token]

(* The rows of a file are those of its text, read for the token of then;   *)
(* those that are ready are of the token of now, but on one page.          *)
FileRead ==
    csvResult # None =>
        /\ csvText # None
        /\ csvResult.rows = ParseBulkCsv(kind, csvText, Decimals[csvResult.mint])

FileReady ==
    txState.type = "ready" =>
        /\ mode = "bulk" /\ csvResult # None /\ mint # None
        /\ txState.rows = csvResult.rows /\ Buildable(txState.rows)
        /\ kind # Milestone => csvResult.mint = mint

(* The campaign as its creation left it. *)
AsCreated ==
    /\ PayableRows(kind, chain.leaves, chain.shown)
    /\ WrittenRows(kind, chain.leaves, chain.shown, chain.mint)
    /\ TotalOf(chain.leaves) = chain.total_supply

InItsPool ==
    \A t \in Tokens : chain.pools[t] > 0 => t = chain.mint \/ (t = Native /\ chain.card)

(* What a handler has captured. *)
FlowSound ==
    flow # None =>
        /\ mint # None /\ editor = None
        /\ flow.step = "painting" =>
             /\ chain = None
             /\ flow.shown.mode = "single" /\ ~flow.shown.stale /\ flow.shown.mint = flow.mint
             /\ flow.shown.times \in Seq(Entry)
             /\ flow.shown.amounts = [i \in DOMAIN flow.shown.times |-> flow.shown.times[i].amount]
             /\ FirstTime <= flow.since /\ flow.since <= now
             /\ EntriesFit(kind, flow.shown.times, Decimals[flow.mint], flow.since)
        /\ flow.step = "creating" =>
             /\ chain = None /\ Buildable(flow.rows)
             /\ PayableRows(kind, flow.rows, flow.shown)
             /\ WrittenRows(kind, flow.rows, flow.shown, flow.mint)
        /\ flow.step \in {"funding", "again", "listed"} =>
             /\ chain \in AccountOf(chain.total_supply) /\ AsCreated /\ InItsPool
             /\ flow.mint # chain.mint => flow.step = "again" /\ chain.card

ChainSound ==
    chain # None =>
        /\ editor = None => mint # None
        /\ editor = None \/ editor.rotations = 0 => AsCreated

(* The table of an editor that has not rotated holds the amounts of the    *)
(* chain wherever nobody has touched them.                                 *)
Stands(rows, leaves, decimals) ==
    \A i \in DOMAIN rows : rows[i].from # None =>
        /\ rows[i].from \in DOMAIN leaves
        /\ rows[i].amount = Written(leaves[rows[i].from].amount, decimals)

Untouched(e, account) ==
    /\ e.leaves = <<>> \/ e.leaves = account.leaves
    /\ e.rows # None =>
         /\ e.shownWith \in {DefaultDecimals, Decimals[account.mint]}
         /\ Stands(e.rows, account.leaves, e.shownWith)
    /\ e.sending # None /\ ~e.sending.late =>
         \A i \in DOMAIN e.sending.rows : e.sending.from[i] # None =>
            e.sending.rows[i].amount = account.leaves[e.sending.from[i]].amount

PageSound(e, account) ==
    /\ e.decimals \in {None, Decimals[account.mint]}
    /\ e.rows # None => e.rows # <<>>
    /\ e.rotations = 0 => Untouched(e, account)
    /\ e.sending # None => TotalOf(e.sending.rows) <= account.total_supply

EditorSound ==
    editor # None =>
        /\ chain \in AccountOf(chain.total_supply) /\ flow = None
        /\ stored = chain.leaves
        /\ InItsPool /\ txState.type = "idle"
        /\ PageSound(editor, chain)
        /\ editor.rotations > 0 =>
             /\ \A i \in DOMAIN chain.leaves : WellFormed(chain.leaves[i])
             /\ PrepareAccepts(chain.leaves)
             /\ TotalOf(chain.leaves) <= chain.total_supply

DraftInv ==
    TypeOK /\ FileRead /\ FileReady /\ FlowSound /\ ChainSound /\ EditorSound /\ FundedInItsToken

(* ------------------- entries and files become rows ---------------------- *)

LEMMA Types ==
    /\ Cliff = 0 /\ Linear = 1 /\ Milestone = 2
    /\ Minute \in Nat \ {0} /\ FirstTime \in Nat /\ Minute <= FirstTime
    /\ None \notin Nat /\ None \notin Tokens /\ Native \in Tokens
    /\ DefaultDecimals \in Nat /\ MaxMilestone \in Nat /\ PerLeafCap \in Nat \ {0}
    /\ \A t \in Tokens : Decimals[t] \in 0 .. DefaultDecimals
BY AllocationAssumption, FormAssumption DEF Cliff, Linear, Milestone

(* The times of an entry that passes the check, when the rows are made at  *)
(* most a moment later.                                                    *)
LEMMA EntryTimes ==
    ASSUME NEW page \in Pages, NEW entry \in Entry, NEW d, NEW since \in Nat, NEW t \in Nat,
           since >= FirstTime, t >= since, EntryFits(page, entry, d, since)
    PROVE  LET times == Times(page, entry, t) IN
           /\ times.start \in Nat /\ times.cliff \in Nat /\ times.end \in Nat
           /\ \/ times.start <= times.cliff /\ times.cliff <= times.end
              \/ page = Milestone
              \/ page = Linear /\ entry.start = None
<1> USE Types
<1>1. CASE page = Linear
  <2>1. Times(page, entry, t) = LinearTimes(entry, t) /\ Times(page, entry, since) = LinearTimes(entry, since)
    BY <1>1 DEF Times
  <2>2. entry.end \in Nat /\ ValidSchedule(LinearTimes(entry, since).start, LinearTimes(entry, since).cliff,
                                         LinearTimes(entry, since).end, page)
    BY <1>1, <2>1 DEF EntryFits, Entry
  <2>3. entry.start \in Nat \cup {None} /\ entry.cliff \in Nat \cup {None}
    BY DEF Entry
  <2> QED BY <1>1, <2>1, <2>2, <2>3 DEF LinearTimes, ValidSchedule
<1>2. CASE page = Cliff
  <2>1. Times(page, entry, t) = CliffTimes(entry, t) /\ Times(page, entry, since) = CliffTimes(entry, since)
    BY <1>2 DEF Times
  <2>2. entry.cliff \in Nat /\ ValidSchedule(CliffTimes(entry, since).start, CliffTimes(entry, since).cliff,
                                           CliffTimes(entry, since).end, page)
    BY <1>2, <2>1 DEF EntryFits, Entry
  <2>3. entry.start \in Nat \cup {None}
    BY DEF Entry
  <2> QED BY <1>2, <2>1, <2>2, <2>3 DEF CliffTimes, ValidSchedule, Earlier
<1>3. CASE page = Milestone
  <2>1. Times(page, entry, t) = MilestoneTimes(entry, t)
    BY <1>3 DEF Times
  <2>2. entry.cliff \in Nat \cup {None}
    BY DEF Entry
  <2> QED BY <1>3, <2>1, <2>2 DEF MilestoneTimes
<1> QED BY <1>1, <1>2, <1>3 DEF Pages

LEMMA EntriesBecomeRows ==
    ASSUME NEW page \in Pages, NEW written \in Seq(Entry), NEW who \in Wallets, NEW shown,
           NEW token \in Tokens, NEW since \in Nat, NEW t \in Nat, since >= FirstTime, t >= since,
           EntriesFit(page, written, Decimals[token], since),
           NEW rows, rows = RowsOf(page, written, who, Decimals[token], t), Encodable(rows),
           shown.mode = "single", shown.mint = token, shown.times = written,
           shown.amounts = [i \in DOMAIN written |-> written[i].amount]
    PROVE  rows \in Seq(Allocated) /\ PayableRows(page, rows, shown) /\ WrittenRows(page, rows, shown, token)
<1> USE Types
<1> DEFINE d == Decimals[token]
<1>1. DOMAIN written = 1 .. Len(written) /\ Len(written) \in Nat /\ DOMAIN rows = DOMAIN written
  BY DEF RowsOf
<1>2. ASSUME NEW i \in DOMAIN written
      PROVE  /\ rows[i] \in Allocated /\ rows[i].release_type = page /\ rows[i].amount # 0
             /\ rows[i].amount * Unit = written[i].amount * 10^d
             /\ WellFormed(rows[i]) \/ Excused(page, shown, i)
             /\ page = Milestone => rows[i].milestone_idx = i - 1
             /\ page # Milestone => rows[i].beneficiary = written[i].recipient
  <2>1. written[i] \in Entry /\ EntryFits(page, written[i], d, since) /\ i \in Nat \ {0}
    BY <1>1, <1>2 DEF EntriesFit
  <2> DEFINE times == Times(page, written[i], t)
  <2>2. /\ times.start \in Nat /\ times.cliff \in Nat /\ times.end \in Nat
        /\ \/ times.start <= times.cliff /\ times.cliff <= times.end
           \/ page = Milestone
           \/ page = Linear /\ written[i].start = None
    BY <2>1, EntryTimes
  <2>3. /\ Raw(written[i].amount, d) \in Nat \ {0}
        /\ Raw(written[i].amount, d) * Unit = written[i].amount * 10^d
    <3>1. d \in 0 .. DefaultDecimals /\ written[i].amount \in Nat \cup {None}
          /\ ValidAmount(written[i].amount, d)
      BY <2>1 DEF EntryFits, Entry
    <3> QED BY <3>1, RawIsExact
  <2>4. page # Milestone => written[i].recipient \in Wallets
    BY <2>1 DEF EntryFits, Entry
  <2> HIDE DEF d, times
  <2>5. rows[i] = Leaf(IF page = Milestone THEN who ELSE written[i].recipient,
                       Raw(written[i].amount, d), page, times, IF page = Milestone THEN i - 1 ELSE 0)
    BY <1>2 DEF RowsOf, d, times
  <2>6. /\ rows[i] \in Allocated /\ rows[i].release_type = page
        /\ rows[i].amount = Raw(written[i].amount, d)
        /\ rows[i].start_time = times.start /\ rows[i].cliff_time = times.cliff
        /\ rows[i].end_time = times.end
        /\ page = Milestone => rows[i].milestone_idx = i - 1
        /\ page # Milestone => rows[i].beneficiary = written[i].recipient
    BY <2>1, <2>2, <2>3, <2>4, <2>5 DEF Leaf, Allocated
  <2>7. WellFormed(rows[i]) \/ Excused(page, shown, i)
    BY <2>2, <2>6 DEF WellFormed, Excused, Pages
  <2> QED BY <2>3, <2>6, <2>7
<1>3. Distinct(page, rows)
  <2>1. CASE page = Milestone
    BY <1>1, <1>2, <2>1 DEF Distinct
  <2>2. CASE page # Milestone
    <3>1. \A i, j \in DOMAIN written : written[i].recipient = written[j].recipient => i = j
      BY <2>2 DEF EntriesFit, IsInjective
    <3> QED BY <1>1, <1>2, <2>2, <3>1 DEF Distinct
  <2> QED BY <2>1, <2>2
<1>4. rows \in Seq(Allocated)
  <2>1. rows = [i \in 1 .. Len(written) |-> rows[i]]
    BY <1>1 DEF RowsOf
  <2> QED BY <1>1, <1>2, <2>1
<1>5. WrittenRows(page, rows, shown, token)
  BY <1>1, <1>2 DEF WrittenRows
<1> QED BY <1>1, <1>2, <1>3, <1>4, <1>5 DEF PayableRows

(* A file is read as a whole or not at all. *)
LEMMA FileBecomesRows ==
    ASSUME NEW page \in Pages, NEW text \in Files[page], NEW token \in Tokens,
           NEW rows, rows = ParseBulkCsv(page, text, Decimals[token])
    PROVE  /\ rows \in Seq(Allocated)
           /\ rows # <<>> =>
                /\ DOMAIN rows = DOMAIN text
                /\ \A shown : PayableRows(page, rows, shown)
                /\ \A i \in DOMAIN rows :
                     rows[i].amount * Unit = text[i].amount * 10^Decimals[token]
<1> USE Types
<1> DEFINE d == Decimals[token]
<1>1. CASE ~((\A i \in DOMAIN text : RowFits(page, d, text[i])) /\ NoDoubles(page, text))
  <2>1. rows = <<>>
    BY <1>1 DEF ParseBulkCsv
  <2> QED BY <2>1
<1>2. CASE (\A i \in DOMAIN text : RowFits(page, d, text[i])) /\ NoDoubles(page, text)
  <2>1. text \in Seq(Row) /\ DOMAIN text = 1 .. Len(text) /\ Len(text) \in Nat
    BY FormAssumption
  <2>2. rows = [i \in DOMAIN text |-> Leaf(text[i].beneficiary, Raw(text[i].amount, d), page,
                                           RowTimes(page, text[i]), text[i].idx)]
    BY <1>2 DEF ParseBulkCsv
  <2>3. ASSUME NEW i \in DOMAIN text
        PROVE  /\ rows[i] \in Allocated /\ rows[i].release_type = page /\ rows[i].amount # 0
               /\ rows[i].amount * Unit = text[i].amount * 10^d
               /\ WellFormed(rows[i])
               /\ rows[i].milestone_idx = text[i].idx /\ text[i].idx <= MaxMilestone
               /\ rows[i].beneficiary = text[i].beneficiary
    <3>1. text[i] \in Row /\ RowFits(page, d, text[i])
      BY <1>2, <2>1, <2>3
    <3> DEFINE times == RowTimes(page, text[i])
    <3>2. /\ times.start \in Nat \cup {None} /\ times.cliff \in Nat \cup {None}
          /\ times.end \in Nat \cup {None}
      <4>1. /\ text[i].start \in Nat \cup {None} /\ text[i].cliff \in Nat \cup {None}
            /\ text[i].end \in Nat \cup {None}
        BY <3>1 DEF Row
      <4> QED BY <4>1 DEF RowTimes
    <3>3. /\ times.start \in Nat /\ times.cliff \in Nat /\ times.end \in Nat
          /\ times.start <= times.cliff /\ times.cliff <= times.end
      BY <3>1, <3>2 DEF RowFits, ValidSchedule
    <3>4. /\ Raw(text[i].amount, d) \in Nat \ {0}
          /\ Raw(text[i].amount, d) * Unit = text[i].amount * 10^d
      <4>1. d \in 0 .. DefaultDecimals /\ text[i].amount \in Nat \cup {None}
            /\ ValidAmount(text[i].amount, d)
        BY <3>1 DEF RowFits, Row
      <4> QED BY <4>1, RawIsExact
    <3>5. text[i].idx \in Nat /\ text[i].idx <= MaxMilestone /\ text[i].beneficiary \in Wallets
      BY <3>1 DEF RowFits, Row
    <3> HIDE DEF d, times
    <3>6. rows[i] = Leaf(text[i].beneficiary, Raw(text[i].amount, d), page, times, text[i].idx)
      BY <2>2 DEF times
    <3>7. /\ rows[i] \in Allocated /\ rows[i].release_type = page
          /\ rows[i].amount = Raw(text[i].amount, d)
          /\ rows[i].start_time = times.start /\ rows[i].cliff_time = times.cliff
          /\ rows[i].end_time = times.end
          /\ rows[i].milestone_idx = text[i].idx /\ rows[i].beneficiary = text[i].beneficiary
      BY <3>3, <3>4, <3>5, <3>6 DEF Leaf, Allocated
    <3>8. WellFormed(rows[i])
      BY <3>3, <3>7 DEF WellFormed, Pages
    <3> QED BY <3>4, <3>5, <3>7, <3>8
  <2>4. DOMAIN rows = DOMAIN text /\ rows \in Seq(Allocated)
    <3>1. rows = [i \in 1 .. Len(text) |-> rows[i]]
      BY <2>1, <2>2
    <3> QED BY <2>1, <2>2, <2>3, <3>1
  <2>5. Distinct(page, rows)
    <3> SUFFICES ASSUME NEW i \in DOMAIN text, NEW j \in DOMAIN text,
                        text[i].beneficiary = text[j].beneficiary,
                        page = Milestone => text[i].idx = text[j].idx
                 PROVE  i = j
      BY <2>3, <2>4 DEF Distinct
    <3> QED BY <1>2 DEF NoDoubles, IsInjective
  <2>6. \A shown : PayableRows(page, rows, shown)
    BY <2>3, <2>4, <2>5 DEF PayableRows, Encodable
  <2> QED BY <2>3, <2>4, <2>6
<1> QED BY <1>1, <1>2

(* -------------------------- rows become leaves -------------------------- *)

LEMMA LeavesLikeRows ==
    ASSUME NEW page \in Pages, NEW rows, NEW leaves, NEW shown, NEW token,
           DOMAIN leaves = DOMAIN rows, \A i \in DOMAIN rows : SameBut(leaves[i], rows[i])
    PROVE  /\ PayableRows(page, rows, shown) => PayableRows(page, leaves, shown)
           /\ WrittenRows(page, rows, shown, token) => WrittenRows(page, leaves, shown, token)
           /\ PrepareAccepts(rows) =>
                PrepareAccepts(leaves) /\ \A i \in DOMAIN leaves : WellFormed(leaves[i])
<1> USE DEF SameBut
<1>1. ASSUME PayableRows(page, rows, shown) PROVE PayableRows(page, leaves, shown)
  BY <1>1 DEF PayableRows, Distinct, Encodable, WellFormed
<1>2. ASSUME WrittenRows(page, rows, shown, token) PROVE WrittenRows(page, leaves, shown, token)
  BY <1>2 DEF WrittenRows
<1>3. ASSUME PrepareAccepts(rows)
      PROVE  PrepareAccepts(leaves) /\ \A i \in DOMAIN leaves : WellFormed(leaves[i])
  <2>1. \A i \in DOMAIN rows : RecipientValid(rows[i])
    BY <1>3 DEF PrepareAccepts
  <2>2. \A i \in DOMAIN leaves : RecipientValid(leaves[i]) /\ WellFormed(leaves[i])
    BY <2>1 DEF RecipientValid, WellFormed
  <2>3. PrepareAccepts(leaves)
    BY <1>3, <2>2 DEF PrepareAccepts
  <2> QED BY <2>2, <2>3
<1> QED BY <1>1, <1>2, <1>3

(* What a page made the prepare route would have taken, had somebody looked *)
(* at its times.                                                           *)
LEMMA PagesPayable ==
    ASSUME NEW page \in Pages, NEW leaves \in Seq(TreeLeaf), NEW shown,
           PayableRows(page, leaves, shown)
    PROVE  PrepareAccepts([i \in DOMAIN leaves |->
             IF WellFormed(leaves[i]) THEN leaves[i]
             ELSE [leaves[i] EXCEPT !.start_time = 0, !.cliff_time = 0, !.end_time = 0]])
<1> USE Types
<1> DEFINE fixed == [i \in DOMAIN leaves |->
             IF WellFormed(leaves[i]) THEN leaves[i]
             ELSE [leaves[i] EXCEPT !.start_time = 0, !.cliff_time = 0, !.end_time = 0]]
<1>1. ASSUME NEW i \in DOMAIN leaves
      PROVE  /\ RecipientValid(fixed[i])
             /\ fixed[i].beneficiary = leaves[i].beneficiary
             /\ fixed[i].milestone_idx = leaves[i].milestone_idx
             /\ fixed[i].release_type = page
  <2>1. /\ leaves[i] \in TreeLeaf /\ leaves[i].release_type = page /\ leaves[i].amount # 0
        /\ leaves[i].milestone_idx <= MaxMilestone
    BY <1>1 DEF PayableRows, Encodable
  <2>2. CASE WellFormed(leaves[i])
    BY <2>1, <2>2 DEF RecipientValid, WellFormed, TreeLeaf, Pages
  <2>3. CASE ~WellFormed(leaves[i])
    <3>1. fixed[i] = [leaves[i] EXCEPT !.start_time = 0, !.cliff_time = 0, !.end_time = 0]
      BY <1>1, <2>3
    <3>2. /\ fixed[i] \in TreeLeaf
          /\ fixed[i].start_time = 0 /\ fixed[i].cliff_time = 0 /\ fixed[i].end_time = 0
          /\ fixed[i].amount = leaves[i].amount /\ fixed[i].release_type = leaves[i].release_type
          /\ fixed[i].beneficiary = leaves[i].beneficiary
          /\ fixed[i].milestone_idx = leaves[i].milestone_idx
      BY <2>1, <3>1 DEF TreeLeaf
    <3> HIDE DEF fixed
    <3> QED BY <2>1, <3>2 DEF RecipientValid, TreeLeaf, Pages
  <2> QED BY <2>2, <2>3
<1>2. DOMAIN fixed = DOMAIN leaves
  OBVIOUS
<1> HIDE DEF fixed
<1>3. Distinct(page, leaves)
  BY DEF PayableRows
<1>4. \A i, j \in {k \in DOMAIN fixed : fixed[k].release_type = Milestone} :
        fixed[i].beneficiary = fixed[j].beneficiary
          /\ fixed[i].milestone_idx = fixed[j].milestone_idx => i = j
  BY <1>1, <1>2, <1>3 DEF Distinct
<1>5. ASSUME NEW i \in DOMAIN fixed
      PROVE  Cardinality({k \in DOMAIN fixed : fixed[k].release_type # Milestone
                                /\ fixed[k].beneficiary = fixed[i].beneficiary}) <= PerLeafCap
  <2> DEFINE same == {k \in DOMAIN fixed : fixed[k].release_type # Milestone
                                /\ fixed[k].beneficiary = fixed[i].beneficiary}
  <2>1. ASSUME page = Milestone PROVE Cardinality(same) <= PerLeafCap
    <3>1. same = {}
      BY <1>1, <1>2, <2>1
    <3> HIDE DEF same
    <3> QED BY <3>1, FS_EmptySet
  <2>2. ASSUME page # Milestone PROVE Cardinality(same) <= PerLeafCap
    <3>1. same = {i}
      BY <1>1, <1>2, <1>3, <1>5, <2>2 DEF Distinct
    <3>2. Cardinality({i}) = 1
      BY FS_Singleton
    <3> HIDE DEF same
    <3> QED BY <3>1, <3>2
  <2>3. Cardinality(same) <= PerLeafCap
    BY <2>1, <2>2
  <2> QED BY <2>3
<1>6. PrepareAccepts(fixed)
  BY <1>1, <1>2, <1>4, <1>5 DEF PrepareAccepts
<1> QED BY <1>6 DEF fixed

(* ----------------------- what the invariant gives ----------------------- *)

LEMMA InvPromises == DraftInv => WrittenIsSent /\ EveryLeafCanBePaid /\ FundedInItsToken
<1> SUFFICES ASSUME DraftInv PROVE WrittenIsSent /\ EveryLeafCanBePaid
  BY DEF DraftInv
<1> USE Types
<1>1. WrittenIsSent
  BY DEF DraftInv, ChainSound, AsCreated, EditorSound, PageSound, Untouched, WrittenRows, WrittenIsSent
<1>2. EveryLeafCanBePaid
  <2> SUFFICES ASSUME chain # None PROVE EveryLeafCanBePaid
    BY DEF EveryLeafCanBePaid
  <2>1. chain.leaves \in Seq(TreeLeaf) /\ kind \in Pages
    BY DEF DraftInv, TypeOK, AccountOf
  <2>2. CASE editor = None \/ editor.rotations = 0
    <3>1. PayableRows(kind, chain.leaves, chain.shown) /\ TotalOf(chain.leaves) = chain.total_supply
      BY <2>2 DEF DraftInv, ChainSound, AsCreated
    <3>2. \A i \in DOMAIN chain.leaves : WellFormed(chain.leaves[i]) \/ Unchecked(i)
      BY <2>2, <3>1 DEF PayableRows, Excused, Unchecked
    <3>3. PrepareAccepts([i \in DOMAIN chain.leaves |->
             IF WellFormed(chain.leaves[i]) THEN chain.leaves[i]
             ELSE [chain.leaves[i] EXCEPT !.start_time = 0, !.cliff_time = 0, !.end_time = 0]])
      BY <2>1, <3>1, PagesPayable
    <3> QED BY <2>2, <3>1, <3>2, <3>3 DEF EveryLeafCanBePaid
  <2>3. CASE ~(editor = None \/ editor.rotations = 0)
    <3>1. editor.rotations > 0
      BY <2>3 DEF DraftInv, TypeOK, PageType
    <3>2. /\ \A i \in DOMAIN chain.leaves : WellFormed(chain.leaves[i])
          /\ PrepareAccepts(chain.leaves) /\ TotalOf(chain.leaves) <= chain.total_supply
      BY <2>3, <3>1 DEF DraftInv, EditorSound
    <3>3. [i \in DOMAIN chain.leaves |->
             IF WellFormed(chain.leaves[i]) THEN chain.leaves[i]
             ELSE [chain.leaves[i] EXCEPT !.start_time = 0, !.cliff_time = 0, !.end_time = 0]]
            = chain.leaves
      <4>1. chain.leaves = [i \in DOMAIN chain.leaves |-> chain.leaves[i]]
        BY <2>1
      <4> QED BY <3>2, <4>1
    <3> QED BY <2>3, <3>2, <3>3 DEF EveryLeafCanBePaid
  <2> QED BY <2>2, <2>3
<1> QED BY <1>1, <1>2

(* ------------------------- the fields of a page ------------------------- *)

(* What is filled in, selected or read leaves alone what is under way.     *)
Fields == /\ kind' = kind /\ flow' = flow /\ chain' = chain
          /\ editor' = editor /\ stored' = stored

LEMMA FieldStep ==
    ASSUME DraftInv, editor = None, TypeOK', Fields, now' >= now, mint' = mint \/ mint' # None,
           txState' = txState \/ txState'.type \notin {"funded", "success"},
           FileRead', FileReady'
    PROVE  DraftInv'
<1> USE DEF Fields
<1>0. now \in Nat /\ now' \in Nat
  BY DEF DraftInv, TypeOK
<1>1. FlowSound'
  BY <1>0, Types DEF DraftInv, FlowSound, TypeOK, FlowType, AsCreated, InItsPool
<1>2. ChainSound'
  BY DEF DraftInv, ChainSound, AsCreated
<1>3. EditorSound'
  BY DEF EditorSound
<1>4. FundedInItsToken'
  BY DEF DraftInv, FundedInItsToken
<1> QED BY <1>1, <1>2, <1>3, <1>4 DEF DraftInv

(* The file is read for the token that is selected.  The rows of a file    *)
(* are as many for every token, so that a tree that was built of them can  *)
(* be built again.                                                         *)
LEMMA ParseStep ==
    ASSUME TypeOK, FileRead, FileReady, NEW token \in Tokens, csvText # None,
           RunBulkParse(token), UNCHANGED <<kind, csvText>>, mode' = "bulk", mint' = token
    PROVE  /\ FileRead' /\ FileReady'
           /\ csvResult' \in ParsedFile
           /\ txState' = txState \/ txState' \in [rows : Seq(Allocated), type : {"idle", "ready"}]
<1> DEFINE rows == ParseBulkCsv(kind, csvText, Decimals[token])
<1>1. kind \in Pages /\ csvText \in Files[kind]
  BY DEF TypeOK
<1>2. /\ rows \in Seq(Allocated)
      /\ rows # <<>> => DOMAIN rows = DOMAIN csvText
      /\ rows # <<>> => Encodable(rows)
  <2>1. PICK shown : shown = Idle
    OBVIOUS
  <2>2. rows # <<>> => PayableRows(kind, rows, shown)
    BY <1>1, FileBecomesRows
  <2> QED BY <1>1, <2>2, FileBecomesRows DEF PayableRows
<1>3. /\ csvResult' = [rows |-> rows, mint |-> token]
      /\ txState' = IF rows = <<>> THEN Idle ELSE IfBuilt(rows)
  BY DEF RunBulkParse
<1>4. csvResult'.rows = rows /\ csvResult'.mint = token
  BY <1>3
<1>5. csvResult' \in ParsedFile
  BY <1>2, <1>3 DEF ParsedFile
<1>7. csvResult' # None
  BY <1>5, FormAssumption
<1>8. FileRead'
  BY <1>4 DEF FileRead
<1>9. CASE rows = <<>>
  <2>1. txState'.type = "idle" /\ txState' \in [rows : Seq(Allocated), type : {"idle", "ready"}]
    BY <1>3, <1>9 DEF Idle
  <2> QED BY <1>5, <1>8, <2>1 DEF FileReady
<1>10. CASE rows # <<>> /\ Buildable(rows)
  <2>1. txState' = Ready(rows)
    BY <1>3, <1>10 DEF IfBuilt
  <2> HIDE DEF rows
  <2>2. txState'.rows = rows /\ txState' \in [rows : Seq(Allocated), type : {"idle", "ready"}]
    BY <1>2, <2>1 DEF Ready
  <2>3. FileReady'
    BY <1>4, <1>7, <1>10, <2>2, Types DEF FileReady
  <2> QED BY <1>5, <1>8, <2>2, <2>3
<1>11. CASE rows # <<>> /\ ~Buildable(rows)
  <2>1. txState' = txState
    BY <1>3, <1>11 DEF IfBuilt
  <2>2. txState.type # "ready"
    <3> SUFFICES ASSUME txState.type = "ready" PROVE FALSE
      OBVIOUS
    <3> DEFINE before == csvResult.rows
    <3>1. /\ csvResult # None /\ Buildable(before)
          /\ before = ParseBulkCsv(kind, csvText, Decimals[csvResult.mint])
      BY DEF FileReady, FileRead
    <3>2. csvResult.mint \in Tokens
      BY <3>1 DEF TypeOK, ParsedFile
    <3>3. before \in Seq(Allocated) /\ before # <<>>
      BY <3>1 DEF TypeOK, ParsedFile, Buildable, FitsTree
    <3>4. before \in Seq(Allocated) /\ (before # <<>> => DOMAIN before = DOMAIN csvText)
      <4>1. PICK other \in Tokens : other = csvResult.mint
        BY <3>2
      <4>2. before = ParseBulkCsv(kind, csvText, Decimals[other])
        BY <3>1, <4>1
      <4> QED BY <1>1, <4>2, FileBecomesRows
    <3> HIDE DEF before, rows
    <3>5. Len(rows) = Len(before)
      BY <1>2, <1>11, <3>3, <3>4
    <3>6. FitsTree(rows)
      BY <1>11, <3>1, <3>5 DEF Buildable, FitsTree
    <3> QED BY <1>2, <1>11, <3>6 DEF Buildable
  <2>3. FileReady'
    BY <2>1, <2>2 DEF FileReady
  <2> QED BY <1>5, <1>8, <2>1, <2>3
<1> QED BY <1>9, <1>10, <1>11

LEMMA FieldSteps ==
    ASSUME DraftInv, UNCHANGED <<editor, stored>>, editor = None,
           \/ Tick \/ SwitchMode \/ SelectAgain \/ AddEntry \/ ReadFile
           \/ \E token \in Tokens : SelectByHand(token) \/ SelectForFile(token)
           \/ \E i \in DOMAIN entries :
                \/ RemoveEntry(i) \/ DuplicateEntry(i) \/ ApplyToAll(i)
                \/ \E entry \in Entries[kind] : FillIn(i, entry)
           \/ \E text \in Files[kind] : PasteFile(text)
    PROVE  DraftInv'
<1> USE Types
<1>1. TypeOK /\ FileRead /\ FileReady
  BY DEF DraftInv
<1>2. /\ Idle.type = "idle" /\ Idle.rows = <<>>
      /\ Idle \in [rows : Seq(Allocated), type : {"idle", "ready", "loading", "error",
                                                 "success", "unfunded", "funded"}]
  BY DEF Idle
<1>3. CASE Tick
  <2>1. TypeOK' /\ FileRead' /\ FileReady'
    BY <1>1, <1>3 DEF Tick, TypeOK, FileRead, FileReady, form
  <2>2. Fields /\ now' >= now /\ mint' = mint /\ txState' = txState
    BY <1>1, <1>3 DEF Tick, form, Fields, TypeOK
  <2> QED BY <2>1, <2>2, FieldStep
<1>4. CASE SwitchMode
  <2>1. TypeOK' /\ FileRead' /\ FileReady'
    BY <1>1, <1>2, <1>4 DEF SwitchMode, TypeOK, FileRead, FileReady
  <2>2. Fields /\ now' >= now /\ mint' = mint /\ txState'.type = "idle"
    BY <1>1, <1>2, <1>4 DEF SwitchMode, Fields, TypeOK
  <2> QED BY <2>1, <2>2, FieldStep
<1>5. ASSUME NEW token \in Tokens, SelectByHand(token) PROVE DraftInv'
  <2>1. TypeOK' /\ FileRead' /\ FileReady'
    BY <1>1, <1>5 DEF SelectByHand, TypeOK, FileRead, FileReady
  <2>2. Fields /\ now' >= now /\ mint' # None /\ txState' = txState
    BY <1>1, <1>5 DEF SelectByHand, Fields, TypeOK
  <2> QED BY <2>1, <2>2, FieldStep
<1>6. ASSUME NEW token \in Tokens, SelectForFile(token) PROVE DraftInv'
  <2>1. TypeOK' /\ FileRead' /\ FileReady'
    BY <1>1, <1>2, <1>6 DEF SelectForFile, TypeOK, FileRead, FileReady
  <2>2. Fields /\ now' >= now /\ mint' # None /\ txState'.type = "idle"
    BY <1>1, <1>2, <1>6 DEF SelectForFile, Fields, TypeOK
  <2> QED BY <2>1, <2>2, FieldStep
<1>7. ASSUME mode = "bulk", mint # None, csvText # None, RunBulkParse(mint),
             UNCHANGED <<now, kind, mode, mint, entries, recipient, csvText, flow, chain>>
      PROVE  DraftInv'
  <2>1. mint \in Tokens
    BY <1>1, <1>7 DEF TypeOK
  <2>2. /\ FileRead' /\ FileReady' /\ csvResult' \in ParsedFile
        /\ txState' = txState \/ txState' \in [rows : Seq(Allocated), type : {"idle", "ready"}]
    BY <1>1, <1>7, <2>1, ParseStep
  <2>3. TypeOK'
    BY <1>1, <1>7, <2>2 DEF TypeOK
  <2>4. /\ Fields /\ now' >= now /\ mint' = mint
        /\ txState' = txState \/ txState'.type \in {"idle", "ready"}
    BY <1>1, <1>7, <2>2 DEF Fields, TypeOK
  <2> QED BY <2>2, <2>3, <2>4, FieldStep
<1>8. CASE ReadFile
  BY <1>7, <1>8 DEF ReadFile
<1>9. CASE SelectAgain
  <2>1. CASE kind = Milestone /\ csvResult # None /\ csvResult.rows # <<>>
    <3>1. /\ mode = "bulk" /\ mint # None /\ txState' = IfBuilt(csvResult.rows)
          /\ UNCHANGED <<now, kind, mode, mint, entries, recipient, csvText, csvResult, flow, chain>>
      BY <1>9, <2>1 DEF SelectAgain
    <3>2. csvResult.rows \in Seq(Allocated)
      BY <1>1, <2>1 DEF TypeOK, ParsedFile
    <3>3. \/ txState' = txState
          \/ /\ txState'.type = "ready" /\ txState'.rows = csvResult.rows
             /\ txState' \in [rows : Seq(Allocated), type : {"idle", "ready"}]
             /\ Buildable(csvResult.rows)
      BY <3>1, <3>2 DEF IfBuilt, Ready
    <3>4. TypeOK'
      BY <1>1, <3>1, <3>3 DEF TypeOK
    <3>5. FileRead' /\ FileReady'
      BY <1>1, <2>1, <3>1, <3>3 DEF FileRead, FileReady
    <3>6. Fields /\ now' >= now /\ mint' = mint
      BY <1>1, <3>1 DEF Fields, TypeOK
    <3> QED BY <3>3, <3>4, <3>5, <3>6, FieldStep
  <2>2. CASE ~(kind = Milestone /\ csvResult # None /\ csvResult.rows # <<>>)
    BY <1>7, <1>9, <2>2 DEF SelectAgain
  <2> QED BY <2>1, <2>2
<1>10. ASSUME NEW next \in Seq(Entry), SetEntries(next) PROVE DraftInv'
  <2>1. TypeOK' /\ FileRead' /\ FileReady'
    BY <1>1, <1>10 DEF SetEntries, TypeOK, FileRead, FileReady
  <2>2. Fields /\ now' >= now /\ mint' = mint /\ txState' = txState
    BY <1>1, <1>10 DEF SetEntries, Fields, TypeOK
  <2> QED BY <2>1, <2>2, FieldStep
<1>11. /\ entries \in Seq(Entry) /\ Blank \in Entry /\ kind \in Pages
       /\ DOMAIN entries = 1 .. Len(entries) /\ Len(entries) \in Nat
  <2>1. Blank \in Entry
    BY DEF Blank, Entry
  <2> QED BY <1>1, <2>1 DEF TypeOK
<1>12. CASE AddEntry
  <2>1. Append(entries, Blank) \in Seq(Entry)
    BY <1>11
  <2>2. SetEntries(Append(entries, Blank))
    BY <1>12 DEF AddEntry
  <2> QED BY <1>10, <2>1, <2>2
<1>13. ASSUME NEW i \in DOMAIN entries
       PROVE  /\ RemoveEntry(i) \/ DuplicateEntry(i) \/ ApplyToAll(i) => DraftInv'
              /\ \A entry \in Entries[kind] : FillIn(i, entry) => DraftInv'
  <2>1. ASSUME RemoveEntry(i) PROVE DraftInv'
    <3>1. SubSeq(entries, 1, i - 1) \o SubSeq(entries, i + 1, Len(entries)) \in Seq(Entry)
      BY <1>11, <1>13
    <3> QED BY <1>10, <2>1, <3>1 DEF RemoveEntry
  <2>2. ASSUME DuplicateEntry(i) PROVE DraftInv'
    <3>1. entries[i] \in Entry
      BY <1>11, <1>13
    <3>2. [entries[i] EXCEPT !.recipient = None] \in Entry
      BY <3>1 DEF Entry
    <3>3. SubSeq(entries, 1, i) \o <<[entries[i] EXCEPT !.recipient = None]>>
            \o SubSeq(entries, i + 1, Len(entries)) \in Seq(Entry)
      <4>1. SubSeq(entries, 1, i) \in Seq(Entry) /\ SubSeq(entries, i + 1, Len(entries)) \in Seq(Entry)
        BY <1>11, <1>13
      <4> QED BY <3>2, <4>1
    <3> QED BY <1>10, <2>2, <3>3 DEF DuplicateEntry
  <2>3. ASSUME ApplyToAll(i) PROVE DraftInv'
    <3> DEFINE next == [j \in DOMAIN entries |->
         [entries[j] EXCEPT !.start = Kept(entries[i].start, entries[j].start),
                            !.cliff = Kept(entries[i].cliff, entries[j].cliff),
                            !.end   = entries[i].end]]
    <3>1. ASSUME NEW j \in DOMAIN entries PROVE next[j] \in Entry
      <4>1. entries[i] \in Entry /\ entries[j] \in Entry
        BY <1>11, <1>13, <3>1
      <4>2. Kept(entries[i].start, entries[j].start) \in Nat \cup {None}
            /\ Kept(entries[i].cliff, entries[j].cliff) \in Nat \cup {None}
            /\ entries[i].end \in Nat \cup {None}
        BY <4>1 DEF Entry, Kept
      <4>3. next[j] = [recipient |-> entries[j].recipient, amount |-> entries[j].amount,
                       start |-> Kept(entries[i].start, entries[j].start),
                       cliff |-> Kept(entries[i].cliff, entries[j].cliff),
                       end |-> entries[i].end]
        BY <3>1, <4>1 DEF Entry
      <4> HIDE DEF next
      <4> QED BY <4>1, <4>2, <4>3 DEF Entry
    <3>2. next = [j \in 1 .. Len(entries) |-> next[j]]
      BY <1>11
    <3> HIDE DEF next
    <3>4. next \in Seq(Entry)
      BY <1>11, <3>1, <3>2
    <3>3. SetEntries(next)
      BY <2>3 DEF ApplyToAll, next
    <3> QED BY <1>10, <3>3, <3>4
  <2>4. ASSUME NEW entry \in Entries[kind], FillIn(i, entry) PROVE DraftInv'
    <3>1. entry \in Entry
      BY <1>11, FormAssumption
    <3>2. [entries EXCEPT ![i] = entry] \in Seq(Entry)
      BY <1>11, <1>13, <3>1
    <3> QED BY <1>10, <2>4, <3>2 DEF FillIn
  <2> QED BY <2>1, <2>2, <2>3, <2>4
<1>14. ASSUME NEW text \in Files[kind], PasteFile(text) PROVE DraftInv'
  <2>1. TypeOK' /\ FileRead' /\ FileReady'
    BY <1>1, <1>2, <1>14 DEF PasteFile, TypeOK, FileRead, FileReady
  <2>2. Fields /\ now' >= now /\ mint' = mint /\ txState'.type = "idle"
    BY <1>1, <1>2, <1>14 DEF PasteFile, Fields, TypeOK
  <2> QED BY <2>1, <2>2, FieldStep
<1>15. ASSUME NEW i \in DOMAIN entries,
              \/ RemoveEntry(i) \/ DuplicateEntry(i) \/ ApplyToAll(i)
              \/ \E entry \in Entries[kind] : FillIn(i, entry)
       PROVE  DraftInv'
  BY <1>13, <1>15
<1> HIDE DEF DraftInv
<1> QED BY <1>3, <1>4, <1>5, <1>6, <1>8, <1>9, <1>12, <1>14, <1>15, Zenon

(* ---------------------------- the handlers ------------------------------ *)

TxType == [rows : Seq(Allocated), type : {"idle", "loading", "error", "success",
                                          "unfunded", "funded"}]

LEMMA Shows ==
    ASSUME NEW type \in {"idle", "loading", "error", "success", "unfunded", "funded"}
    PROVE  Show(type) \in TxType /\ Show(type).type = type /\ Idle = Show("idle")
BY DEF Show, TxType, Idle

(* A handler leaves the fields alone, or clears them in the end.           *)
LEMMA HandlerStep ==
    ASSUME DraftInv, editor = None,
           UNCHANGED <<now, kind, mode, mint, recipient, editor, stored>>,
           entries' = entries \/ entries' = <<Blank>>,
           UNCHANGED <<csvText, csvResult>> \/ (csvText' = None /\ csvResult' = None),
           txState' \in TxType, flow' = None \/ flow' \in FlowType,
           chain' = None \/ chain' \in AccountOf(chain.total_supply)',
           FlowSound', ChainSound', FundedInItsToken'
    PROVE  DraftInv'
<1>1. TypeOK /\ FileRead
  BY DEF DraftInv
<1>2. txState'.type # "ready" /\ txState' \in [rows : Seq(Allocated), type : {"idle", "ready", "loading",
                                               "error", "success", "unfunded", "funded"}]
  BY DEF TxType
<1>3. entries' \in Seq(Entry)
  <2>1. Blank \in Entry
    BY DEF Blank, Entry
  <2>2. <<Blank>> \in Seq(Entry)
    BY <2>1
  <2> QED BY <1>1, <2>2 DEF TypeOK
<1>4. TypeOK'
  BY <1>1, <1>2, <1>3 DEF TypeOK
<1>5. FileRead'
  BY <1>1 DEF FileRead
<1>6. FileReady'
  BY <1>2 DEF FileReady
<1>7. EditorSound'
  BY DEF EditorSound
<1> QED BY <1>4, <1>5, <1>6, <1>7 DEF DraftInv

LEMMA SubmitStep ==
    ASSUME DraftInv, editor = None, UNCHANGED <<editor, stored>>, Submit
    PROVE  DraftInv'
<1> USE Types
<1>1. TypeOK
  BY DEF DraftInv
<1>2. Shown(entries) = [mint |-> mint, amounts |-> [i \in DOMAIN entries |-> entries[i].amount],
                        times |-> entries, mode |-> "single", stale |-> FALSE]
  BY DEF Shown, Submit
<1>3. entries \in Seq(Entry) /\ mint \in Tokens /\ now \in Nat /\ now >= FirstTime
  BY <1>1 DEF TypeOK, Submit
<1>4. [i \in DOMAIN entries |-> entries[i].amount] \in Seq(Nat \cup {None})
  <2>1. DOMAIN entries = 1 .. Len(entries) /\ Len(entries) \in Nat
    BY <1>3
  <2>2. ASSUME NEW i \in DOMAIN entries PROVE entries[i].amount \in Nat \cup {None}
    <3>1. entries[i] \in Entry
      BY <1>3, <2>2
    <3> QED BY <3>1 DEF Entry
  <2> QED BY <2>1, <2>2
<1>5. Shown(entries) \in ShownType
  BY <1>2, <1>3, <1>4 DEF ShownType
<1>6. flow' = [step |-> "painting", mint |-> mint, rows |-> <<>>, since |-> now, shown |-> Shown(entries)]
  BY DEF Submit
<1>7. flow' \in FlowType
  BY <1>3, <1>5, <1>6 DEF FlowType
<1>8. /\ UNCHANGED <<now, kind, mode, mint, entries, recipient, csvText, csvResult, chain>>
      /\ chain = None /\ txState' = Show("loading")
      /\ EntriesFit(kind, entries, Decimals[mint], now)
  BY DEF Submit
<1>9. FlowSound'
  <2>1. /\ flow'.step = "painting" /\ flow'.mint = mint /\ flow'.since = now
        /\ flow'.shown.mode = "single" /\ ~flow'.shown.stale /\ flow'.shown.mint = mint
        /\ flow'.shown.times = entries
        /\ flow'.shown.amounts = [i \in DOMAIN entries |-> entries[i].amount]
    BY <1>2, <1>6
  <2> QED BY <1>3, <1>8, <2>1 DEF FlowSound
<1>10. ChainSound' /\ FundedInItsToken'
  BY <1>8 DEF ChainSound, FundedInItsToken
<1> QED BY <1>7, <1>8, <1>9, <1>10, Shows, HandlerStep

LEMMA BuildStep ==
    ASSUME DraftInv, editor = None, UNCHANGED <<editor, stored>>, Build
    PROVE  DraftInv'
<1> USE Types
<1> DEFINE rows == RowsOf(kind, flow.shown.times, recipient, Decimals[flow.mint], now)
<1>1. TypeOK /\ FlowSound
  BY DEF DraftInv
<1>2. /\ flow # None /\ flow.step = "painting"
      /\ UNCHANGED <<now, kind, mode, mint, entries, recipient, csvText, csvResult, chain>>
  BY DEF Build
<1>3. /\ flow \in FlowType /\ kind \in Pages /\ recipient \in Wallets /\ now \in Nat
      /\ mint # None /\ chain = None
      /\ flow.shown.mode = "single" /\ ~flow.shown.stale /\ flow.shown.mint = flow.mint
      /\ flow.shown.times \in Seq(Entry)
      /\ flow.shown.amounts = [i \in DOMAIN flow.shown.times |-> flow.shown.times[i].amount]
      /\ FirstTime <= flow.since /\ flow.since <= now
      /\ EntriesFit(kind, flow.shown.times, Decimals[flow.mint], flow.since)
  BY <1>1, <1>2 DEF TypeOK, FlowSound
<1>4. ChainSound' /\ FundedInItsToken'
  BY <1>2, <1>3 DEF ChainSound, FundedInItsToken
<1>5. CASE Buildable(rows)
  <2>1. flow.mint \in Tokens /\ flow.since \in Nat
    BY <1>3 DEF FlowType
  <2>2. rows \in Seq(Allocated) /\ PayableRows(kind, rows, flow.shown)
        /\ WrittenRows(kind, rows, flow.shown, flow.mint)
    <3>1. Encodable(rows)
      BY <1>5 DEF Buildable
    <3> QED BY <1>3, <2>1, <3>1, EntriesBecomeRows
  <2>3. flow' = [flow EXCEPT !.step = "creating", !.rows = rows, !.since = FirstTime]
        /\ txState' = txState
    BY <1>5 DEF Build
  <2> HIDE DEF rows
  <2>4. /\ flow' \in FlowType /\ flow'.step = "creating" /\ flow'.rows = rows
        /\ flow'.shown = flow.shown /\ flow'.mint = flow.mint
    BY <1>3, <2>2, <2>3 DEF FlowType
  <2>5. FlowSound'
    BY <1>2, <1>3, <1>5, <2>2, <2>4 DEF FlowSound
  <2>6. txState' \in [rows : Seq(Allocated), type : {"idle", "ready", "loading", "error",
                                                  "success", "unfunded", "funded"}]
    BY <1>1, <2>3 DEF TypeOK
  <2>7. TypeOK' /\ FileRead' /\ FileReady' /\ EditorSound'
    BY <1>1, <1>2, <2>3, <2>4 DEF TypeOK, FileRead, FileReady, EditorSound, DraftInv
  <2> QED BY <1>4, <2>5, <2>7 DEF DraftInv
<1>6. CASE ~Buildable(rows)
  <2>1. flow' = None /\ txState' = Show("error")
    BY <1>6 DEF Build
  <2>2. FlowSound'
    BY <2>1 DEF FlowSound
  <2> QED BY <1>2, <1>3, <1>4, <2>1, <2>2, Shows, HandlerStep
<1> QED BY <1>5, <1>6

LEMMA SubmitFileStep ==
    ASSUME DraftInv, editor = None, UNCHANGED <<editor, stored>>, SubmitFile
    PROVE  DraftInv'
<1> USE Types
<1> DEFINE rows == txState.rows
           shown == Shown(csvText)
<1>1. TypeOK /\ FileRead /\ FileReady
  BY DEF DraftInv
<1>2. /\ mode = "bulk" /\ txState.type = "ready" /\ chain = None
      /\ UNCHANGED <<now, kind, mode, mint, entries, recipient, csvText, csvResult, chain>>
      /\ flow' = [step |-> "creating", mint |-> mint, rows |-> rows, since |-> FirstTime, shown |-> shown]
      /\ txState' = Show("loading")
  BY DEF SubmitFile
<1>3. /\ csvResult # None /\ mint # None /\ csvText # None /\ rows # <<>>
      /\ rows = ParseBulkCsv(kind, csvText, Decimals[csvResult.mint])
      /\ kind # Milestone => csvResult.mint = mint
      /\ Buildable(rows)
  BY <1>1, <1>2 DEF FileRead, FileReady, Buildable, FitsTree
<1>4. /\ csvText \in Files[kind] /\ kind \in Pages /\ mint \in Tokens /\ csvResult.mint \in Tokens
  BY <1>1, <1>3 DEF TypeOK, ParsedFile
<1>5. csvText \in Seq(Row)
  BY <1>4, FormAssumption
<1>6. shown = [mint |-> mint, amounts |-> [i \in DOMAIN csvText |-> csvText[i].amount],
               times |-> csvText, mode |-> "bulk", stale |-> csvResult.mint # mint]
  BY <1>2 DEF Shown
<1>7. [i \in DOMAIN csvText |-> csvText[i].amount] \in Seq(Nat \cup {None})
  <2>1. DOMAIN csvText = 1 .. Len(csvText) /\ Len(csvText) \in Nat
    BY <1>5
  <2>2. ASSUME NEW i \in DOMAIN csvText PROVE csvText[i].amount \in Nat \cup {None}
    <3>1. csvText[i] \in Row
      BY <1>5, <2>2
    <3> QED BY <3>1 DEF Row
  <2> QED BY <2>1, <2>2
<1>8. shown \in ShownType
  BY <1>4, <1>5, <1>6, <1>7 DEF ShownType
<1>9. /\ shown.mint = mint /\ shown.stale = (csvResult.mint # mint)
      /\ shown.amounts = [i \in DOMAIN csvText |-> csvText[i].amount]
  BY <1>6
<1> HIDE DEF rows, shown
<1>10. /\ rows \in Seq(Allocated) /\ DOMAIN rows = DOMAIN csvText
       /\ PayableRows(kind, rows, shown)
       /\ \A i \in DOMAIN rows : rows[i].amount * Unit = csvText[i].amount * 10^Decimals[csvResult.mint]
  <2>1. PICK token \in Tokens : token = csvResult.mint
    BY <1>4
  <2>2. rows = ParseBulkCsv(kind, csvText, Decimals[token])
    BY <1>3, <2>1
  <2>3. /\ rows \in Seq(Allocated)
        /\ rows # <<>> =>
             /\ DOMAIN rows = DOMAIN csvText /\ PayableRows(kind, rows, shown)
             /\ \A i \in DOMAIN rows :
                  rows[i].amount * Unit = csvText[i].amount * 10^Decimals[token]
    <3>1. rows \in Seq(Allocated) /\ (rows # <<>> => DOMAIN rows = DOMAIN csvText)
      BY <1>4, <2>2, FileBecomesRows
    <3>2. rows # <<>> => PayableRows(kind, rows, shown)
      BY <1>4, <2>2, FileBecomesRows
    <3>3. ASSUME rows # <<>>, NEW i \in DOMAIN rows
          PROVE  rows[i].amount * Unit = csvText[i].amount * 10^Decimals[token]
      BY <1>4, <2>2, <3>3, FileBecomesRows
    <3> QED BY <3>1, <3>2, <3>3
  <2> QED BY <1>3, <2>1, <2>3
<1>11. WrittenRows(kind, rows, shown, mint)
  BY <1>3, <1>9, <1>10 DEF WrittenRows
<1>12. /\ flow' \in FlowType /\ flow'.step = "creating" /\ flow'.rows = rows
       /\ flow'.shown = shown /\ flow'.mint = mint
  <2>1. FirstTime \in Nat
    OBVIOUS
  <2> QED BY <1>2, <1>4, <1>8, <1>10, <2>1 DEF FlowType
<1>13. FlowSound'
  BY <1>2, <1>3, <1>10, <1>11, <1>12 DEF FlowSound
<1>14. ChainSound' /\ FundedInItsToken'
  BY <1>2 DEF ChainSound, FundedInItsToken
<1> QED BY <1>2, <1>12, <1>13, <1>14, Shows, HandlerStep

(* A campaign that lands holds the rows of its handler. *)
LEMMA LandsStep ==
    ASSUME DraftInv, editor = None, UNCHANGED <<editor, stored>>,
           flow # None, flow.step = "creating",
           NEW paid, paid \in {0, TotalOf(flow.rows)},
           chain' = Account(Prepared(flow.rows), paid), UNCHANGED <<now, kind, mode, mint, recipient>>
    PROVE  /\ chain' \in AccountOf(chain.total_supply)' /\ AsCreated' /\ ChainSound'
           /\ chain'.mint = flow.mint /\ chain'.card = FALSE
           /\ chain'.pools[flow.mint] = paid /\ chain'.total_supply = TotalOf(flow.rows)
           /\ \A t \in Tokens : t # flow.mint => chain'.pools[t] = 0
<1> USE Types
<1>1. /\ TypeOK /\ FlowSound /\ mint # None
      /\ flow \in FlowType /\ kind \in Pages
      /\ PayableRows(kind, flow.rows, flow.shown) /\ WrittenRows(kind, flow.rows, flow.shown, flow.mint)
  BY DEF DraftInv, TypeOK, FlowSound
<1>2. /\ flow.mint \in Tokens /\ flow.rows \in Seq(Allocated) /\ flow.shown \in ShownType
  BY <1>1 DEF FlowType
<1> DEFINE leaves == Prepared(flow.rows).leaves
           supply == TotalOf(flow.rows)
<1>3. /\ leaves \in Seq(TreeLeaf) /\ DOMAIN leaves = DOMAIN flow.rows
      /\ \A i \in DOMAIN flow.rows : SameBut(leaves[i], flow.rows[i])
      /\ TotalOf(leaves) = supply /\ Prepared(flow.rows).total_supply = supply
  BY <1>2, PreparedLeaves
<1>4. PayableRows(kind, leaves, flow.shown) /\ WrittenRows(kind, leaves, flow.shown, flow.mint)
  BY <1>1, <1>3, LeavesLikeRows
<1>5. chain' = [mint |-> flow.mint, leaves |-> leaves, total_supply |-> supply,
                pools |-> [t \in Tokens |-> IF t = flow.mint THEN paid ELSE 0],
                shown |-> flow.shown, pending |-> paid = 0, card |-> FALSE]
  BY <1>3 DEF Account
<1> HIDE DEF leaves, supply
<1>6. /\ chain'.mint = flow.mint /\ chain'.leaves = leaves /\ chain'.total_supply = supply
      /\ chain'.shown = flow.shown /\ chain'.card = FALSE
      /\ chain'.pools = [t \in Tokens |-> IF t = flow.mint THEN paid ELSE 0]
  BY <1>5
<1>7. paid \in {0, supply}
  BY DEF supply
<1>8. chain' \in AccountOf(chain.total_supply)'
  <2>1. [t \in Tokens |-> IF t = flow.mint THEN paid ELSE 0] \in [Tokens -> {0, supply}]
    BY <1>7
  <2>2. chain' \in AccountOf(supply)
    BY <1>2, <1>3, <1>5, <2>1 DEF AccountOf
  <2> QED BY <1>6, <2>2 DEF AccountOf
<1>9. AsCreated' /\ ChainSound'
  BY <1>1, <1>3, <1>4, <1>6 DEF ChainSound, AsCreated
<1>10. /\ chain'.pools[flow.mint] = paid
       /\ \A t \in Tokens : t # flow.mint => chain'.pools[t] = 0
  BY <1>2, <1>6
<1> QED BY <1>6, <1>8, <1>9, <1>10 DEF supply

LEMMA StreamLandsStep ==
    ASSUME DraftInv, editor = None, UNCHANGED <<editor, stored>>, StreamLands
    PROVE  DraftInv'
<1>1. flow \in FlowType /\ flow # None /\ flow.step = "creating"
  BY DEF DraftInv, TypeOK, StreamLands
<1>2. Prepared(flow.rows).total_supply = TotalOf(flow.rows)
  BY DEF Prepared
<1>3. /\ chain' = Account(Prepared(flow.rows), TotalOf(flow.rows))
      /\ UNCHANGED <<now, kind, mode, mint, recipient>>
      /\ flow' = None /\ txState' = Show("success")
      /\ entries' = <<Blank>> /\ UNCHANGED <<csvText, csvResult>>
      /\ CreateStreamAccepts(Prepared(flow.rows).leaves[1])
  BY <1>2 DEF StreamLands, Cleared
<1>4. PICK paid : paid = TotalOf(flow.rows)
  OBVIOUS
<1>5. /\ chain' \in AccountOf(chain.total_supply)' /\ ChainSound'
      /\ chain'.mint = flow.mint /\ chain'.card = FALSE
      /\ chain'.pools[flow.mint] = paid /\ chain'.total_supply = TotalOf(flow.rows)
      /\ \A t \in Tokens : t # flow.mint => chain'.pools[t] = 0
  BY <1>1, <1>3, <1>4, LandsStep
<1>6. FundedInItsToken'
  BY <1>4, <1>5, Types DEF FundedInItsToken
<1>7. FlowSound'
  BY <1>3 DEF FlowSound
<1> QED BY <1>3, <1>5, <1>6, <1>7, Shows, HandlerStep

LEMMA CampaignLandsStep ==
    ASSUME DraftInv, editor = None, UNCHANGED <<editor, stored>>, CampaignLands
    PROVE  DraftInv'
<1> USE Types
<1>1. flow \in FlowType /\ flow # None /\ flow.step = "creating" /\ mint # None
  BY DEF DraftInv, TypeOK, FlowSound, CampaignLands
<1>2. /\ chain' = Account(Prepared(flow.rows), 0)
      /\ UNCHANGED <<now, kind, mode, mint, entries, recipient, csvText, csvResult>>
      /\ flow' = [flow EXCEPT !.step = "funding"] /\ txState' = Show("loading")
  BY DEF CampaignLands
<1>3. /\ chain' \in AccountOf(chain.total_supply)' /\ ChainSound'
      /\ AsCreated' /\ chain'.mint = flow.mint /\ chain'.pools[flow.mint] = 0
      /\ \A t \in Tokens : t # flow.mint => chain'.pools[t] = 0
  BY <1>1, <1>2, LandsStep
<1>4. txState'.type = "loading" /\ txState' \in TxType
  BY <1>2, Shows
<1>7. InItsPool' /\ FundedInItsToken'
  BY <1>3, <1>4 DEF InItsPool, FundedInItsToken
<1>5. /\ flow' \in FlowType /\ flow'.step = "funding" /\ flow'.mint = flow.mint
  BY <1>1, <1>2 DEF FlowType
<1>6. FlowSound'
  BY <1>1, <1>2, <1>3, <1>5, <1>7 DEF FlowSound
<1> QED BY <1>2, <1>3, <1>4, <1>5, <1>6, <1>7, HandlerStep

LEMMA FailsStep ==
    ASSUME DraftInv, editor = None, UNCHANGED <<editor, stored>>, CreateFails \/ FundFails
    PROVE  DraftInv'
<1>1. /\ UNCHANGED <<now, kind, mode, mint, entries, recipient, csvText, csvResult, chain>>
      /\ flow' = None /\ txState' \in {Show("error"), Show("unfunded"), Idle}
  BY DEF CreateFails, FundFails
<1>2. txState' \in TxType /\ txState'.type \notin {"funded", "success"}
  BY <1>1, Shows
<1>3. FlowSound'
  BY <1>1 DEF FlowSound
<1>4. ChainSound'
  BY <1>1 DEF DraftInv, ChainSound, AsCreated
<1>5. FundedInItsToken'
  BY <1>1, <1>2 DEF DraftInv, FundedInItsToken
<1>6. chain' = None \/ chain' \in AccountOf(chain.total_supply)'
  BY <1>1 DEF DraftInv, TypeOK, AccountOf
<1> QED BY <1>1, <1>2, <1>3, <1>4, <1>5, <1>6, HandlerStep

LEMMA FundLandsStep ==
    ASSUME DraftInv, editor = None, UNCHANGED <<editor, stored>>, FundLands
    PROVE  DraftInv'
<1> USE Types
<1>1. /\ flow # None /\ flow.step \in {"funding", "again", "listed"}
      /\ chain.pools[flow.mint] = 0 /\ flow.mint \in {chain.mint, Native}
      /\ chain' = [chain EXCEPT !.pools[flow.mint] = chain.total_supply, !.pending = FALSE]
      /\ flow' = None /\ UNCHANGED <<now, kind, mode, mint, recipient>>
      /\ txState' = IF flow.step = "listed" THEN Idle ELSE Show("funded")
      /\ entries' = entries \/ entries' = <<Blank>>
      /\ UNCHANGED <<csvText, csvResult>> \/ (csvText' = None /\ csvResult' = None)
  BY DEF FundLands, FundAccepts, Cleared
<1>2. /\ chain \in AccountOf(chain.total_supply) /\ flow.mint \in Tokens /\ mint # None
      /\ flow.mint # chain.mint => flow.step = "again" /\ chain.card
      /\ AsCreated /\ InItsPool
  BY <1>1 DEF DraftInv, TypeOK, FlowSound, FlowType
<1>3. /\ chain'.mint = chain.mint /\ chain'.leaves = chain.leaves
      /\ chain'.total_supply = chain.total_supply
      /\ chain'.shown = chain.shown /\ chain'.card = chain.card
      /\ chain'.pools = [chain.pools EXCEPT ![flow.mint] = chain.total_supply]
      /\ chain.pools \in [Tokens -> {0, chain.total_supply}] /\ chain.mint \in Tokens
  BY <1>1, <1>2 DEF AccountOf
<1>4. chain' \in AccountOf(chain.total_supply)'
  <2>1. [chain.pools EXCEPT ![flow.mint] = chain.total_supply] \in [Tokens -> {0, chain.total_supply}]
    BY <1>2, <1>3
  <2>2. chain' \in AccountOf(chain.total_supply)
    BY <1>1, <1>2, <1>3, <2>1 DEF AccountOf
  <2> QED BY <1>3, <2>2 DEF AccountOf
<1>5. FlowSound'
  BY <1>1 DEF FlowSound
<1>6. ChainSound'
  BY <1>1, <1>2, <1>3 DEF ChainSound, AsCreated
<1>7. FundedInItsToken'
  <2>1. ASSUME NEW t \in Tokens, chain'.pools[t] > 0
        PROVE  t = chain.mint \/ (t = Native /\ chain.card)
    <3>1. CASE t = flow.mint
      BY <1>1, <1>2, <3>1
    <3>2. CASE t # flow.mint
      BY <1>2, <1>3, <2>1, <3>2 DEF InItsPool
    <3> QED BY <3>1, <3>2
  <2>2. ~chain.card => chain'.pools[chain.mint] = chain.total_supply
    BY <1>2, <1>3
  <2> QED BY <1>3, <2>1, <2>2 DEF FundedInItsToken
<1>8. txState' \in TxType
  BY <1>1, Shows
<1> QED BY <1>1, <1>4, <1>5, <1>6, <1>7, <1>8, HandlerStep

LEMMA ResumeStep ==
    ASSUME DraftInv, editor = None, UNCHANGED <<editor, stored>>, ResumeFromCard \/ ResumeFromPanel
    PROVE  DraftInv'
<1> USE Types
<1>3. /\ chain # None /\ mint # None /\ mint \in Tokens
      /\ chain \in AccountOf(chain.total_supply)
  BY DEF ResumeFromCard, ResumeFromPanel, Resume, DraftInv, TypeOK, ChainSound
<1>1. PICK step \in {"again", "listed"}, token \in Tokens : Resume(step, token)
         /\ \/ step = "again" /\ token = mint /\ chain' = [chain EXCEPT !.card = chain.card \/ mint # chain.mint]
            \/ step = "listed" /\ token = chain.mint /\ chain' = chain
  <2>1. chain.mint \in Tokens
    BY <1>3 DEF AccountOf
  <2>2. CASE ResumeFromCard
    BY <1>3, <2>2 DEF ResumeFromCard
  <2>3. CASE ResumeFromPanel
    BY <2>1, <2>3 DEF ResumeFromPanel
  <2> QED BY <2>2, <2>3
<1>2. /\ txState' = Show("loading")
      /\ flow' = [step |-> step, mint |-> token, rows |-> <<>>, since |-> FirstTime,
                  shown |-> chain.shown]
      /\ UNCHANGED <<now, kind, mode, mint, entries, recipient, csvText, csvResult>>
  BY <1>1 DEF Resume
<1>4. chain.mint \in Tokens /\ chain.shown \in ShownType /\ chain.card \in BOOLEAN /\ token \in Tokens
  BY <1>1, <1>3 DEF AccountOf
<1>5. /\ chain'.mint = chain.mint /\ chain'.leaves = chain.leaves
      /\ chain'.total_supply = chain.total_supply /\ chain'.pools = chain.pools
      /\ chain'.shown = chain.shown
      /\ chain.card => chain'.card
      /\ token # chain.mint => step = "again" /\ chain'.card
      /\ chain' \in AccountOf(chain.total_supply)
  <2>1. CASE step = "again"
    BY <1>1, <1>3, <1>4, <2>1 DEF AccountOf
  <2>2. CASE step = "listed"
    BY <1>1, <1>3, <2>2
  <2> QED BY <2>1, <2>2
<1>6. chain' \in AccountOf(chain.total_supply)'
  BY <1>5 DEF AccountOf
<1>7. /\ flow' \in FlowType /\ flow'.step = step /\ flow'.mint = token
  BY <1>2, <1>4 DEF FlowType
<1>8. AsCreated' /\ InItsPool'
  BY <1>2, <1>3, <1>5 DEF DraftInv, ChainSound, AsCreated, InItsPool, FundedInItsToken
<1>12. FlowSound'
  BY <1>2, <1>3, <1>5, <1>6, <1>7, <1>8 DEF FlowSound
<1>9. ChainSound'
  BY <1>2, <1>3, <1>8 DEF ChainSound
<1>10. txState' \in TxType /\ txState'.type = "loading"
  BY <1>2, Shows
<1>11. FundedInItsToken'
  BY <1>2, <1>3, <1>5, <1>10 DEF DraftInv, FundedInItsToken
<1> QED BY <1>2, <1>6, <1>7, <1>9, <1>10, <1>11, <1>12, HandlerStep

(* ------------------------------ the editor ------------------------------ *)

LEMMA FormSteps ==
    ASSUME DraftInv, editor = None, UNCHANGED <<editor, stored>>, FormNext
    PROVE  DraftInv'
BY FieldSteps, SubmitStep, BuildStep, SubmitFileStep, StreamLandsStep, CampaignLandsStep,
   FailsStep, FundLandsStep, ResumeStep DEF FormNext

LEMMA OpenStep == ASSUME DraftInv, OpenEditor PROVE DraftInv'
<1> USE Types
<1>1. /\ TypeOK /\ flow = None /\ flow' = None /\ editor = None /\ chain # None /\ chain' = chain
      /\ stored' = chain.leaves /\ now' = now /\ kind' = kind /\ recipient' = recipient
      /\ mode' = "single" /\ mint' = None /\ entries' = <<Blank>>
      /\ csvText' = None /\ csvResult' = None /\ txState' = Idle /\ editor' = Opened
  BY DEF DraftInv, OpenEditor
<1>2. editor' \in PageType
  <2>1. <<>> \in Seq(TreeLeaf)
    OBVIOUS
  <2> QED BY <1>1, <2>1 DEF Opened, PageType
<1>3. /\ editor' # None /\ editor'.rows = None /\ editor'.sending = None /\ editor'.rotations = 0
      /\ editor'.leaves = <<>> /\ editor'.decimals = None
  BY <1>1, <1>2, EditorAssumption DEF Opened
<1>4. chain \in AccountOf(chain.total_supply) /\ chain.leaves \in Seq(TreeLeaf)
  BY <1>1 DEF TypeOK, AccountOf
<1>5. <<Blank>> \in Seq(Entry)
  <2>1. Blank \in Entry
    BY DEF Blank, Entry
  <2> QED BY <2>1
<1>6. txState'.type = "idle" /\ txState' \in [rows : Seq(Allocated), type : {"idle", "ready", "loading",
                                               "error", "success", "unfunded", "funded"}]
  BY <1>1 DEF Idle
<1>7. TypeOK'
  BY <1>1, <1>2, <1>4, <1>5, <1>6 DEF TypeOK
<1>8. FileRead' /\ FileReady' /\ FlowSound'
  BY <1>1, <1>6 DEF FileRead, FileReady, FlowSound
<1>9. ChainSound'
  BY <1>1, <1>3 DEF DraftInv, ChainSound, AsCreated
<1>10. EditorSound'
  <2>1. InItsPool'
    BY <1>1 DEF DraftInv, FundedInItsToken, InItsPool
  <2> QED BY <1>1, <1>3, <1>4, <1>6, <2>1 DEF EditorSound, PageSound, Untouched, AccountOf
<1>11. FundedInItsToken'
  BY <1>1, <1>6 DEF DraftInv, FundedInItsToken
<1> QED BY <1>7, <1>8, <1>9, <1>10, <1>11 DEF DraftInv

LEMMA KnownType ==
    ASSUME NEW e \in PageType, NEW account, account.mint \in Tokens, PageSound(e, account)
    PROVE  /\ KnownDecimals(e) \in {DefaultDecimals, Decimals[account.mint]}
           /\ KnownDecimals(e) \in 0 .. DefaultDecimals
BY Types DEF PageSound, KnownDecimals

(* A function on 1 .. n is a sequence. *)
LEMMA TableIsSequence ==
    ASSUME NEW n \in Nat, NEW table, table = [i \in 1 .. n |-> table[i]],
           \A i \in 1 .. n : table[i] \in EditRow
    PROVE  table \in Seq(EditRow)
OBVIOUS

(* The initial rows are those of the leaves, or one that is empty.         *)
LEMMA InitialTable ==
    ASSUME NEW e \in PageType, KnownDecimals(e) \in 0 .. DefaultDecimals
    PROVE  /\ InitialRows(e) \in Seq(EditRow) /\ InitialRows(e) # <<>>
           /\ DOMAIN InitialRows(e) # {}
           /\ Stands(InitialRows(e), e.leaves, KnownDecimals(e))
<1> USE Types
<1> DEFINE rows == InitialRows(e)
           d == KnownDecimals(e)
<1>1. e.leaves \in Seq(TreeLeaf)
  BY DEF PageType
<1>2. CASE e.leaves = <<>>
  <2>1. EmptyRow \in EditRow /\ EmptyRow.from = None
    BY DEF EmptyRow, EditRow, Pages
  <2>2. rows = <<EmptyRow>>
    BY <1>2 DEF InitialRows
  <2> HIDE DEF rows
  <2>3. rows \in Seq(EditRow) /\ rows # <<>> /\ DOMAIN rows = {1} /\ rows[1].from = None
    BY <2>1, <2>2
  <2>4. Stands(rows, e.leaves, d)
    BY <2>3 DEF Stands
  <2> QED BY <2>3, <2>4 DEF rows
<1>3. CASE e.leaves # <<>>
  <2>1. DOMAIN e.leaves = 1 .. Len(e.leaves) /\ Len(e.leaves) \in Nat /\ Len(e.leaves) # 0
    BY <1>1, <1>3
  <2>2. rows = [i \in 1 .. Len(e.leaves) |->
            [beneficiary |-> e.leaves[i].beneficiary, from |-> i, locked |-> FALSE,
             amount |-> Written(e.leaves[i].amount, d),
             release_type |-> e.leaves[i].release_type, start_time |-> e.leaves[i].start_time,
             cliff_time |-> e.leaves[i].cliff_time, end_time |-> e.leaves[i].end_time,
             milestone_idx |-> e.leaves[i].milestone_idx]]
    BY <1>3, <2>1 DEF InitialRows
  <2> HIDE DEF rows, d
  <2>3. ASSUME NEW i \in 1 .. Len(e.leaves)
        PROVE  rows[i] \in EditRow /\ rows[i].from = i /\ rows[i].amount = Written(e.leaves[i].amount, d)
    <3>1. e.leaves[i] \in TreeLeaf
      BY <1>1, <2>1
    <3>2. e.leaves[i].amount \in Nat
      BY <3>1 DEF TreeLeaf
    <3>3. Written(e.leaves[i].amount, d) \in Nat
      BY <3>2, WrittenAndRead DEF d
    <3>4. rows[i] = [beneficiary |-> e.leaves[i].beneficiary, from |-> i, locked |-> FALSE,
             amount |-> Written(e.leaves[i].amount, d),
             release_type |-> e.leaves[i].release_type, start_time |-> e.leaves[i].start_time,
             cliff_time |-> e.leaves[i].cliff_time, end_time |-> e.leaves[i].end_time,
             milestone_idx |-> e.leaves[i].milestone_idx]
      BY <2>2
    <3> QED BY <2>1, <3>1, <3>3, <3>4 DEF EditRow, TreeLeaf
  <2>4. DOMAIN rows = 1 .. Len(e.leaves) /\ rows \in Seq(EditRow) /\ rows # <<>> /\ DOMAIN rows # {}
    <3>1. rows = [i \in 1 .. Len(e.leaves) |-> rows[i]]
      BY <2>2
    <3>2. Len(e.leaves) \in Nat /\ \A i \in 1 .. Len(e.leaves) : rows[i] \in EditRow
      BY <1>1, <2>1, <2>3
    <3>3. rows \in Seq(EditRow)
      BY <3>1, <3>2, TableIsSequence
    <3> QED BY <2>1, <2>2, <3>3
  <2>5. Stands(rows, e.leaves, d)
    BY <2>1, <2>3, <2>4 DEF Stands
  <2> QED BY <2>4, <2>5 DEF rows, d
<1> QED BY <1>2, <1>3

(* A table that takes the initial rows, with locked types or without, is sound. *)
LEMMA Refilled ==
    ASSUME NEW e \in PageType, NEW account, account.mint \in Tokens, PageSound(e, account),
           NEW rows \in Seq(EditRow), rows # <<>>, NEW synced \in BOOLEAN,
           Stands(rows, e.leaves, KnownDecimals(e)),
           NEW next, next = [e EXCEPT !.synced = synced, !.shownWith = KnownDecimals(e), !.rows = rows]
    PROVE  next \in PageType /\ PageSound(next, account) /\ next.rotations = e.rotations
<1> USE Types
<1>1. /\ KnownDecimals(e) \in {DefaultDecimals, Decimals[account.mint]}
      /\ KnownDecimals(e) \in 0 .. DefaultDecimals
  BY KnownType
<1>2. KnownDecimals(e) \in Nat
  BY <1>1
<1>3. next \in PageType
  BY <1>2 DEF PageType
<1>4. /\ next.rows = rows /\ next.shownWith = KnownDecimals(e) /\ next.leaves = e.leaves
      /\ next.decimals = e.decimals /\ next.sending = e.sending /\ next.rotations = e.rotations
  BY DEF PageType
<1>5. ASSUME e.rotations = 0 PROVE Untouched(next, account)
  <2>1. Untouched(e, account)
    BY <1>5 DEF PageSound
  <2>2. Stands(rows, account.leaves, KnownDecimals(e))
    <3>1. CASE e.leaves = account.leaves
      BY <3>1
    <3>2. CASE e.leaves = <<>>
      <4>1. \A i \in DOMAIN rows : rows[i].from = None
        BY <3>2 DEF Stands
      <4> QED BY <4>1 DEF Stands
    <3> QED BY <2>1, <3>1, <3>2 DEF Untouched
  <2> QED BY <1>1, <1>4, <2>1, <2>2 DEF Untouched
<1> QED BY <1>3, <1>4, <1>5 DEF PageSound

LEMMA MountSound ==
    ASSUME NEW e \in PageType, NEW account, account.mint \in Tokens, PageSound(e, account),
           NEW next, next = Mount(e)
    PROVE  next \in PageType /\ PageSound(next, account) /\ next.rotations = e.rotations
<1> USE Types
<1>1. CASE ~Mounted(e)
  <2>1. next = [e EXCEPT !.rows = None, !.synced = FALSE]
    BY <1>1 DEF Mount
  <2>2. /\ next \in PageType /\ next.rows = None /\ next.leaves = e.leaves
        /\ next.decimals = e.decimals /\ next.sending = e.sending /\ next.rotations = e.rotations
    BY <2>1 DEF PageType
  <2> QED BY <2>2 DEF PageSound, Untouched
<1>2. CASE Mounted(e) /\ e.rows = None
  <2>1. KnownDecimals(e) \in 0 .. DefaultDecimals
    BY KnownType
  <2>2. PICK rows : rows = InitialRows(e)
    OBVIOUS
  <2>3. rows \in Seq(EditRow) /\ rows # <<>> /\ Stands(rows, e.leaves, KnownDecimals(e))
    BY <2>1, <2>2, InitialTable
  <2>4. next = [e EXCEPT !.rows = rows, !.shownWith = KnownDecimals(e)]
    BY <1>2, <2>2 DEF Mount
  <2>5. CASE e.synced = TRUE
    <3>1. next = [e EXCEPT !.synced = TRUE, !.shownWith = KnownDecimals(e), !.rows = rows]
      BY <2>4, <2>5 DEF PageType
    <3> QED BY <2>3, <3>1, Refilled
  <2>6. CASE e.synced = FALSE
    <3>1. next = [e EXCEPT !.synced = FALSE, !.shownWith = KnownDecimals(e), !.rows = rows]
      BY <2>4, <2>6 DEF PageType
    <3> QED BY <2>3, <3>1, Refilled
  <2> QED BY <2>5, <2>6 DEF PageType
<1>3. CASE Mounted(e) /\ e.rows # None
  BY <1>3 DEF Mount
<1> QED BY <1>1, <1>2, <1>3

LEMMA SyncSound ==
    ASSUME NEW e \in PageType, NEW account, account.mint \in Tokens, PageSound(e, account),
           NEW next, next = Sync(e)
    PROVE  next \in PageType /\ PageSound(next, account) /\ next.rotations = e.rotations
<1> USE Types
<1> DEFINE initial == InitialRows(e)
           rows == [i \in DOMAIN initial |->
                     [initial[i] EXCEPT !.locked = initial[i].beneficiary # None]]
<1>1. CASE next = e
  BY <1>1
<1>2. CASE next = [e EXCEPT !.synced = TRUE, !.shownWith = KnownDecimals(e), !.rows = rows]
  <2>1. KnownDecimals(e) \in 0 .. DefaultDecimals
    BY KnownType
  <2>2. /\ initial \in Seq(EditRow) /\ initial # <<>> /\ DOMAIN initial # {}
        /\ Stands(initial, e.leaves, KnownDecimals(e))
    BY <2>1, InitialTable
  <2> HIDE DEF initial
  <2>3. ASSUME NEW i \in DOMAIN initial
        PROVE  /\ rows[i] \in EditRow /\ rows[i].from = initial[i].from
               /\ rows[i].amount = initial[i].amount
    <3>1. initial[i] \in EditRow
      BY <2>2, <2>3
    <3>2. rows[i] = [initial[i] EXCEPT !.locked = initial[i].beneficiary # None]
      BY <2>3
    <3>3. PICK locked \in BOOLEAN : locked = (initial[i].beneficiary # None)
      OBVIOUS
    <3>4. rows[i] = [initial[i] EXCEPT !.locked = locked]
      BY <3>2, <3>3
    <3> HIDE DEF rows
    <3> QED BY <3>1, <3>4 DEF EditRow
  <2>4. DOMAIN initial = 1 .. Len(initial) /\ Len(initial) \in Nat /\ DOMAIN rows = DOMAIN initial
    BY <2>2
  <2>5. rows \in Seq(EditRow) /\ rows # <<>>
    <3>1. rows = [i \in 1 .. Len(initial) |-> rows[i]]
      BY <2>4
    <3>2. DOMAIN rows # {}
      BY <2>2
    <3> HIDE DEF rows
    <3>3. rows \in Seq(EditRow)
      BY <2>3, <2>4, <3>1, TableIsSequence
    <3> QED BY <3>2, <3>3
  <2>6. Stands(rows, e.leaves, KnownDecimals(e))
    <3> HIDE DEF rows
    <3> QED BY <2>2, <2>3, <2>4 DEF Stands
  <2>7. PICK filled : filled = rows
    OBVIOUS
  <2>8. next = [e EXCEPT !.synced = TRUE, !.shownWith = KnownDecimals(e), !.rows = filled]
    BY <1>2, <2>7
  <2> HIDE DEF rows
  <2> QED BY <2>5, <2>6, <2>7, <2>8, Refilled
<1> QED BY <1>1, <1>2 DEF Sync

(* What the page shows again, it shows soundly. *)
LEMMA RenderStep ==
    ASSUME DraftInv, editor # None, NEW e \in PageType, PageSound(e, chain),
           e.rotations = editor.rotations, Render(e)
    PROVE  DraftInv'
<1> USE Types
<1>1. /\ TypeOK /\ flow = None /\ chain \in AccountOf(chain.total_supply)
      /\ stored = chain.leaves /\ EditorSound
  BY DEF DraftInv, EditorSound
<1>2. /\ editor' = Sync(Mount(e)) /\ stored' = stored
      /\ UNCHANGED <<now, kind, mode, mint, entries, recipient, csvText, csvResult, txState, flow, chain>>
  BY DEF Render, vars, form
<1>3. chain.mint \in Tokens
  BY <1>1 DEF AccountOf
<1>4. PICK account : account = chain
  OBVIOUS
<1>5. PICK mounted : mounted = Mount(e)
  OBVIOUS
<1>6. PICK next : next = Sync(mounted)
  OBVIOUS
<1>7. mounted \in PageType /\ PageSound(mounted, account) /\ mounted.rotations = e.rotations
  BY <1>3, <1>4, <1>5, MountSound
<1>8. next \in PageType /\ PageSound(next, account) /\ next.rotations = e.rotations
  BY <1>3, <1>4, <1>6, <1>7, SyncSound
<1>9. editor' \in PageType /\ PageSound(editor', chain') /\ editor'.rotations = editor.rotations
  BY <1>2, <1>4, <1>5, <1>6, <1>8
<1>10. editor' # None
  BY <1>9, EditorAssumption
<1>11. TypeOK'
  BY <1>1, <1>2, <1>9 DEF TypeOK, AccountOf
<1>12. FileRead' /\ FileReady' /\ FlowSound' /\ FundedInItsToken'
  BY <1>1, <1>2 DEF DraftInv, FileRead, FileReady, FlowSound, FundedInItsToken
<1>13. ChainSound'
  BY <1>2, <1>9, <1>10 DEF DraftInv, ChainSound, AsCreated
<1>14. EditorSound'
  <2>1. chain' \in AccountOf(chain.total_supply)'
    BY <1>1, <1>2 DEF AccountOf
  <2> QED BY <1>1, <1>2, <1>9, <2>1 DEF EditorSound, InItsPool
<1> QED BY <1>11, <1>12, <1>13, <1>14 DEF DraftInv

LEMMA AnswerSteps ==
    ASSUME DraftInv, editor # None,
           TreeArrives \/ DetailArrives \/ LeavesArrive \/ DecimalsArrive \/ RotationFails
    PROVE  DraftInv'
<1> USE Types
<1>1. /\ editor \in PageType /\ stored \in Seq(TreeLeaf) /\ PageSound(editor, chain)
      /\ stored = chain.leaves /\ chain \in AccountOf(chain.total_supply) /\ chain.mint \in Tokens
  BY DEF DraftInv, TypeOK, EditorSound, AccountOf
<1>2. CASE TreeArrives
  <2>1. PICK e : e = [editor EXCEPT !.loading = FALSE]
    OBVIOUS
  <2>2. /\ e \in PageType /\ e.rotations = editor.rotations /\ e.rows = editor.rows
        /\ e.leaves = editor.leaves /\ e.decimals = editor.decimals
        /\ e.shownWith = editor.shownWith /\ e.sending = editor.sending
    BY <1>1, <2>1 DEF PageType
  <2>3. PageSound(e, chain)
    BY <1>1, <2>2 DEF PageSound, Untouched
  <2>4. Render(e)
    BY <1>2, <2>1 DEF TreeArrives
  <2> QED BY <2>2, <2>3, <2>4, RenderStep
<1>3. CASE DetailArrives
  <2>1. PICK a \in Nat : a = Len(stored)
    BY <1>1
  <2>2. PICK e : e = IF Len(stored) = editor.detail
                     THEN [editor EXCEPT !.refetching = FALSE, !.detail = a]
                     ELSE [editor EXCEPT !.refetching = FALSE, !.detail = a, !.leaves = <<>>,
                                         !.fetched = FALSE]
    OBVIOUS
  <2>3. /\ e \in PageType /\ e.rotations = editor.rotations /\ e.rows = editor.rows
        /\ e.leaves = editor.leaves \/ e.leaves = <<>>
        /\ e.decimals = editor.decimals
        /\ e.shownWith = editor.shownWith /\ e.sending = editor.sending
    <3>1. CASE Len(stored) = editor.detail
      BY <1>1, <2>1, <2>2, <3>1 DEF PageType
    <3>2. CASE Len(stored) # editor.detail
      <4>1. <<>> \in Seq(TreeLeaf)
        OBVIOUS
      <4> QED BY <1>1, <2>1, <2>2, <3>2, <4>1 DEF PageType
    <3> QED BY <3>1, <3>2
  <2>4. PageSound(e, chain)
    BY <1>1, <2>3 DEF PageSound, Untouched
  <2>5. Render(e)
    BY <1>3, <2>1, <2>2 DEF DetailArrives
  <2> QED BY <2>3, <2>4, <2>5, RenderStep
<1>4. CASE LeavesArrive
  <2>1. PICK leaves \in {stored, <<>>} : Render([editor EXCEPT !.leaves = leaves, !.fetched = TRUE])
    BY <1>4 DEF LeavesArrive
  <2>2. leaves \in Seq(TreeLeaf)
    <3>1. <<>> \in Seq(TreeLeaf)
      OBVIOUS
    <3> QED BY <1>1, <2>1, <3>1
  <2>3. PICK e : e = [editor EXCEPT !.leaves = leaves, !.fetched = TRUE]
    OBVIOUS
  <2>4. /\ e \in PageType /\ e.rotations = editor.rotations /\ e.rows = editor.rows
        /\ e.leaves = leaves /\ e.decimals = editor.decimals
        /\ e.shownWith = editor.shownWith /\ e.sending = editor.sending
    BY <1>1, <2>2, <2>3 DEF PageType
  <2>5. PageSound(e, chain)
    BY <1>1, <2>4 DEF PageSound, Untouched
  <2>6. Render(e)
    BY <2>1, <2>3
  <2> QED BY <2>4, <2>5, <2>6, RenderStep
<1>5. CASE DecimalsArrive
  <2>1. PICK d \in Nat : d = Decimals[chain.mint]
    BY <1>1
  <2>2. PICK e : e = [editor EXCEPT !.decimals = d]
    OBVIOUS
  <2>3. /\ e \in PageType /\ e.rotations = editor.rotations /\ e.rows = editor.rows
        /\ e.leaves = editor.leaves /\ e.decimals = d
        /\ e.shownWith = editor.shownWith /\ e.sending = editor.sending
    BY <1>1, <2>2 DEF PageType
  <2>4. PageSound(e, chain)
    BY <1>1, <2>1, <2>3 DEF PageSound, Untouched
  <2>5. Render(e)
    BY <1>5, <2>1, <2>2 DEF DecimalsArrive
  <2> QED BY <2>3, <2>4, <2>5, RenderStep
<1>6. CASE RotationFails
  <2>1. PICK e : e = [editor EXCEPT !.sending = None]
    OBVIOUS
  <2>2. /\ e \in PageType /\ e.rotations = editor.rotations /\ e.rows = editor.rows
        /\ e.leaves = editor.leaves /\ e.decimals = editor.decimals
        /\ e.shownWith = editor.shownWith /\ e.sending = None
    BY <1>1, <2>1 DEF PageType
  <2>3. PageSound(e, chain)
    BY <1>1, <2>2 DEF PageSound, Untouched
  <2>4. Render(e)
    BY <1>6, <2>1 DEF RotationFails
  <2> QED BY <2>2, <2>3, <2>4, RenderStep
<1> QED BY <1>2, <1>3, <1>4, <1>5, <1>6

(* A table whose rows still stand for leaves where they did.               *)
LEMMA TableStep ==
    ASSUME DraftInv, editor # None, editor.rows # None, NEW rows \in Seq(EditRow), rows # <<>>,
           NEW edits \in Nat,
           \A leaves, d : Stands(editor.rows, leaves, d) => Stands(rows, leaves, d),
           Render([editor EXCEPT !.rows = rows, !.edits = edits])
    PROVE  DraftInv'
<1> USE Types
<1>1. editor \in PageType /\ PageSound(editor, chain)
  BY DEF DraftInv, TypeOK, EditorSound
<1>2. PICK e : e = [editor EXCEPT !.rows = rows, !.edits = edits]
  OBVIOUS
<1>3. /\ e \in PageType /\ e.rotations = editor.rotations /\ e.rows = rows
      /\ e.leaves = editor.leaves /\ e.decimals = editor.decimals
      /\ e.shownWith = editor.shownWith /\ e.sending = editor.sending
  BY <1>1, <1>2 DEF PageType
<1>4. PageSound(e, chain)
  BY <1>1, <1>3 DEF PageSound, Untouched
<1> QED BY <1>2, <1>3, <1>4, RenderStep

LEMMA EditStep ==
    ASSUME DraftInv, editor # None, editor.rows # None, NEW rows \in Seq(EditRow), rows # <<>>,
           \A leaves, d : Stands(editor.rows, leaves, d) => Stands(rows, leaves, d), Edit(rows)
    PROVE  DraftInv'
<1>1. editor \in PageType
  BY DEF DraftInv, TypeOK
<1>2. PICK edits \in Nat : edits = editor.edits + 1
  BY <1>1 DEF PageType
<1>3. Render([editor EXCEPT !.rows = rows, !.edits = edits])
  BY <1>2 DEF Edit
<1> QED BY <1>2, <1>3, TableStep

LEMMA RowSteps ==
    ASSUME DraftInv, editor # None, editor.rows # None,
           \/ AddRow
           \/ \E i \in DOMAIN editor.rows :
                \/ RemoveRow(i)
                \/ \E wallet \in Wallets \cup {None} : EditWallet(i, wallet)
                \/ \E amount \in Amounts : EditAmount(i, amount)
                \/ \E type \in Pages : EditType(i, type)
    PROVE  DraftInv'
<1> USE Types
<1>1. /\ editor \in PageType /\ editor.rows \in Seq(EditRow) /\ editor.rows # <<>>
      /\ editor.edits \in Nat
  BY DEF DraftInv, TypeOK, EditorSound, PageSound, PageType
<1>2. PICK rows \in Seq(EditRow) : rows = editor.rows
  BY <1>1
<1>3. DOMAIN rows = 1 .. Len(rows) /\ Len(rows) \in Nat \ {0}
  BY <1>1, <1>2
<1>4. CASE AddRow
  <2>1. PICK last \in EditRow : last = rows[Len(rows)]
    BY <1>2, <1>3
  <2>2. PICK row : row = [last EXCEPT !.beneficiary = None, !.amount = None,
                                     !.milestone_idx = 0, !.from = None, !.locked = FALSE]
    OBVIOUS
  <2>3. row \in EditRow /\ row.from = None
    BY <2>1, <2>2 DEF EditRow
  <2>4. PICK next : next = Append(rows, row)
    OBVIOUS
  <2>5. next \in Seq(EditRow) /\ next # <<>>
    BY <1>2, <2>3, <2>4
  <2>6. \A leaves, d : Stands(rows, leaves, d) => Stands(next, leaves, d)
    <3>1. /\ DOMAIN next = 1 .. Len(rows) + 1 /\ next[Len(rows) + 1] = row
          /\ \A i \in DOMAIN rows : next[i] = rows[i]
      BY <1>2, <1>3, <2>3, <2>4
    <3>2. \A i \in DOMAIN next : next[i].from = None \/ (i \in DOMAIN rows /\ next[i] = rows[i])
      BY <1>3, <2>3, <3>1
    <3> QED BY <3>2 DEF Stands
  <2>7. Render([editor EXCEPT !.rows = next])
    BY <1>2, <1>4, <2>1, <2>2, <2>4 DEF AddRow
  <2>8. PICK edits \in Nat : edits = editor.edits
    BY <1>1
  <2>9. [editor EXCEPT !.rows = next] = [editor EXCEPT !.rows = next, !.edits = edits]
    BY <1>1, <2>8 DEF PageType
  <2> QED BY <1>2, <2>5, <2>6, <2>7, <2>8, <2>9, TableStep
<1>5. ASSUME NEW i \in DOMAIN editor.rows, RemoveRow(i) PROVE DraftInv'
  <2>1. PICK next : next = SubSeq(rows, 1, i - 1) \o SubSeq(rows, i + 1, Len(rows))
    OBVIOUS
  <2>2. Len(rows) > 1 /\ i \in 1 .. Len(rows)
    BY <1>2, <1>3, <1>5 DEF RemoveRow
  <2>3. next \in Seq(EditRow) /\ next # <<>>
    <3>1. /\ SubSeq(rows, 1, i - 1) \in Seq(EditRow) /\ Len(SubSeq(rows, 1, i - 1)) = i - 1
          /\ SubSeq(rows, i + 1, Len(rows)) \in Seq(EditRow)
          /\ Len(SubSeq(rows, i + 1, Len(rows))) = Len(rows) - i
      BY <1>2, <1>3, <2>2
    <3>2. Len(next) = Len(rows) - 1 /\ next \in Seq(EditRow)
      BY <1>3, <2>1, <2>2, <3>1
    <3> QED BY <2>2, <3>2, <1>3
  <2>4. \A leaves, d : Stands(rows, leaves, d) => Stands(next, leaves, d)
    <3>1. ASSUME NEW j \in DOMAIN next PROVE \E k \in DOMAIN rows : next[j] = rows[k]
      <4> DEFINE a == SubSeq(rows, 1, i - 1)
                 b == SubSeq(rows, i + 1, Len(rows))
      <4>1. /\ a \in Seq(EditRow) /\ Len(a) = i - 1 /\ \A k \in 1 .. i - 1 : a[k] = rows[k]
            /\ b \in Seq(EditRow) /\ Len(b) = Len(rows) - i
            /\ \A k \in 1 .. Len(rows) - i : b[k] = rows[i + k]
        BY <1>2, <1>3, <2>2
      <4> HIDE DEF a, b
      <4>2. next = a \o b
        BY <2>1 DEF a, b
      <4>3. j \in 1 .. Len(rows) - 1
        BY <1>3, <2>2, <3>1, <4>1, <4>2
      <4>4. CASE j <= i - 1
        <5>1. next[j] = a[j]
          BY <4>1, <4>2, <4>3, <4>4
        <5> QED BY <1>3, <2>2, <4>1, <4>3, <4>4, <5>1
      <4>5. CASE j > i - 1
        <5>1. next[j] = b[j - (i - 1)]
          BY <1>3, <2>2, <4>1, <4>2, <4>3, <4>5
        <5>2. b[j - (i - 1)] = rows[i + (j - (i - 1))]
          BY <1>3, <2>2, <4>1, <4>3, <4>5
        <5>3. i + (j - (i - 1)) = j + 1 /\ j + 1 \in DOMAIN rows
          BY <1>3, <2>2, <4>3
        <5> QED BY <5>1, <5>2, <5>3
      <4> QED BY <1>3, <2>2, <4>3, <4>4, <4>5
    <3> QED BY <3>1 DEF Stands
  <2>5. Edit(next)
    BY <1>2, <1>5, <2>1 DEF RemoveRow
  <2> QED BY <1>2, <2>3, <2>4, <2>5, EditStep
<1>6. ASSUME NEW i \in DOMAIN rows, NEW row \in EditRow,
             row.from = None \/ (row.from = rows[i].from /\ row.amount = rows[i].amount),
             Edit([rows EXCEPT ![i] = row])
      PROVE  DraftInv'
  <2>1. PICK next : next = [rows EXCEPT ![i] = row]
    OBVIOUS
  <2>2. next \in Seq(EditRow) /\ DOMAIN next = DOMAIN rows
    BY <1>2, <2>1
  <2>3. next # <<>>
    BY <1>3, <2>2
  <2>4. \A leaves, d : Stands(rows, leaves, d) => Stands(next, leaves, d)
    <3>1. next[i] = row /\ \A j \in DOMAIN rows : j # i => next[j] = rows[j]
      BY <1>2, <1>6, <2>1
    <3> QED BY <1>6, <2>2, <3>1 DEF Stands
  <2> QED BY <1>2, <1>6, <2>1, <2>2, <2>3, <2>4, EditStep
<1>7. ASSUME NEW i \in DOMAIN rows, NEW wallet \in Wallets \cup {None}, EditWallet(i, wallet)
      PROVE  DraftInv'
  <2>1. PICK old \in EditRow : old = rows[i]
    BY <1>2, <1>3
  <2>2. PICK row : row = [old EXCEPT !.beneficiary = wallet]
    OBVIOUS
  <2>3. row \in EditRow /\ row.from = old.from /\ row.amount = old.amount
    BY <2>1, <2>2 DEF EditRow
  <2>4. Edit([rows EXCEPT ![i] = row])
    BY <1>2, <1>7, <2>1, <2>2 DEF EditWallet
  <2> QED BY <1>6, <2>1, <2>3, <2>4
<1>8. ASSUME NEW i \in DOMAIN rows, NEW amount \in Amounts, EditAmount(i, amount)
      PROVE  DraftInv'
  <2>1. PICK old \in EditRow : old = rows[i]
    BY <1>2, <1>3
  <2>2. PICK row : row = [old EXCEPT !.amount = amount, !.from = None]
    OBVIOUS
  <2>3. row \in EditRow /\ row.from = None
    BY <2>1, <2>2, EditorAssumption DEF EditRow
  <2>4. Edit([rows EXCEPT ![i] = row])
    BY <1>2, <1>8, <2>1, <2>2 DEF EditAmount
  <2> QED BY <1>6, <2>1, <2>3, <2>4
<1>9. ASSUME NEW i \in DOMAIN rows, NEW type \in Pages, EditType(i, type)
      PROVE  DraftInv'
  <2>1. PICK old \in EditRow : old = rows[i]
    BY <1>2, <1>3
  <2>2. PICK row : row = [old EXCEPT !.release_type = type]
    OBVIOUS
  <2>3. row \in EditRow /\ row.from = old.from /\ row.amount = old.amount
    BY <2>1, <2>2 DEF EditRow
  <2>4. Edit([rows EXCEPT ![i] = row])
    BY <1>2, <1>9, <2>1, <2>2 DEF EditType
  <2> QED BY <1>6, <2>1, <2>3, <2>4
<1> HIDE DEF DraftInv
<1> QED BY <1>2, <1>4, <1>5, <1>7, <1>8, <1>9

(* What is sent is what stands in the table: of a row that nobody touched, *)
(* what its leaf holds.                                                    *)
LEMMA SubmitRowsStep ==
    ASSUME DraftInv, editor # None, editor.rows # None, SubmitRows
    PROVE  DraftInv'
<1> USE Types
<1>1. /\ editor \in PageType /\ editor.rows \in Seq(EditRow) /\ PageSound(editor, chain)
      /\ chain \in AccountOf(chain.total_supply) /\ chain.mint \in Tokens
      /\ chain.leaves \in Seq(TreeLeaf)
  BY DEF DraftInv, TypeOK, EditorSound, AccountOf, PageType
<1>2. PICK d \in 0 .. DefaultDecimals : d = KnownDecimals(editor)
  BY <1>1, KnownType
<1>3. /\ \A i \in DOMAIN editor.rows :
           /\ editor.rows[i].beneficiary # None /\ editor.rows[i].amount \notin {None, 0}
           /\ None \notin {editor.rows[i].start_time, editor.rows[i].cliff_time,
                           editor.rows[i].end_time}
      /\ WithinSupply(Recipients)
  BY DEF SubmitRows
<1>4. PICK sent : sent = Recipients
  OBVIOUS
<1>5. PICK rows \in Seq(EditRow) : rows = editor.rows
  BY <1>1
<1>6. DOMAIN rows = 1 .. Len(rows) /\ Len(rows) \in Nat
  OBVIOUS
<1>7. sent = [i \in 1 .. Len(rows) |->
        Leaf(rows[i].beneficiary, Raw(rows[i].amount, d), rows[i].release_type,
             [start |-> rows[i].start_time, cliff |-> rows[i].cliff_time, end |-> rows[i].end_time],
             rows[i].milestone_idx)]
  BY <1>2, <1>4, <1>5, <1>6 DEF Recipients
<1>8. ASSUME NEW i \in 1 .. Len(rows)
      PROVE  sent[i] \in Allocated /\ sent[i].amount = Raw(rows[i].amount, d)
  <2>1. /\ rows[i] \in EditRow /\ rows[i].beneficiary # None /\ rows[i].amount # None
        /\ rows[i].start_time # None /\ rows[i].cliff_time # None /\ rows[i].end_time # None
    BY <1>3, <1>5, <1>6
  <2>2. rows[i].amount \in Nat
    BY <2>1 DEF EditRow
  <2>3. Raw(rows[i].amount, d) \in Nat
    <3>1. PICK p \in Nat \ {0} : p = 10^d
      BY PowersOfTen
    <3>2. PICK u \in Nat \ {0} : u = Unit
      BY PowersOfTen
    <3>3. PICK w \in Nat : w = rows[i].amount
      BY <2>2
    <3>4. (w * p) \in Nat
      BY <3>1, <3>3
    <3>5. (w * p) \div u \in Nat
      BY <3>2, <3>4
    <3> QED BY <3>1, <3>2, <3>3, <3>5 DEF Raw
  <2>4. PICK raw \in Nat : raw = Raw(rows[i].amount, d)
    BY <2>3
  <2>5. sent[i] = [beneficiary |-> rows[i].beneficiary, amount |-> raw,
                   release_type |-> rows[i].release_type, start_time |-> rows[i].start_time,
                   cliff_time |-> rows[i].cliff_time, end_time |-> rows[i].end_time,
                   milestone_idx |-> rows[i].milestone_idx]
    BY <1>7, <2>4 DEF Leaf
  <2> QED BY <2>1, <2>4, <2>5 DEF EditRow, Allocated
<1>9. sent \in Seq(Allocated) /\ DOMAIN sent = DOMAIN rows
  <2>1. sent = [i \in 1 .. Len(rows) |-> sent[i]]
    BY <1>7
  <2> QED BY <1>6, <1>8, <2>1
<1>10. PICK from : from = [i \in DOMAIN rows |-> rows[i].from]
  OBVIOUS
<1>11. from \in Seq(Nat \cup {None})
  <2>1. ASSUME NEW i \in 1 .. Len(rows) PROVE from[i] \in Nat \cup {None}
    <3>1. rows[i] \in EditRow
      BY <1>6, <2>1
    <3> QED BY <1>6, <1>10, <3>1 DEF EditRow
  <2>2. from = [i \in 1 .. Len(rows) |-> from[i]]
    BY <1>6, <1>10
  <2> QED BY <1>6, <2>1, <2>2
<1>12. PICK late \in BOOLEAN : late = (d # editor.shownWith)
  OBVIOUS
<1>13. PICK sending : sending = [rows |-> sent, late |-> late, from |-> from]
  OBVIOUS
<1>14. /\ sending.rows = sent /\ sending.late = late /\ sending.from = from
       /\ sending \in [rows : Seq(Allocated), late : BOOLEAN, from : Seq(Nat \cup {None})]
  BY <1>9, <1>11, <1>13
<1>15. PICK e : e = [editor EXCEPT !.sending = sending]
  OBVIOUS
<1>16. /\ e \in PageType /\ e.rotations = editor.rotations /\ e.rows = editor.rows
       /\ e.leaves = editor.leaves /\ e.decimals = editor.decimals
       /\ e.shownWith = editor.shownWith /\ e.sending = sending
  BY <1>1, <1>14, <1>15 DEF PageType
<1>17. ASSUME e.rotations = 0 PROVE Untouched(e, chain)
  <2>1. /\ Untouched(editor, chain) /\ editor.shownWith \in {DefaultDecimals, Decimals[chain.mint]}
        /\ Stands(rows, chain.leaves, editor.shownWith)
    BY <1>1, <1>5, <1>16, <1>17 DEF PageSound, Untouched
  <2>2. ASSUME ~late, NEW i \in DOMAIN sent, from[i] # None
        PROVE  sent[i].amount = chain.leaves[from[i]].amount
    <3>1. d = editor.shownWith
      BY <1>12, <2>2
    <3>2. /\ from[i] = rows[i].from /\ from[i] \in DOMAIN chain.leaves
          /\ rows[i].amount = Written(chain.leaves[from[i]].amount, d)
      BY <1>9, <1>10, <2>1, <2>2, <3>1 DEF Stands
    <3>3. chain.leaves[from[i]] \in TreeLeaf
      BY <1>1, <3>2
    <3>4. chain.leaves[from[i]].amount \in Nat
      BY <3>3 DEF TreeLeaf
    <3>5. Raw(Written(chain.leaves[from[i]].amount, d), d) = chain.leaves[from[i]].amount
      BY <3>4, WrittenAndRead
    <3> QED BY <1>6, <1>8, <1>9, <2>2, <3>2, <3>5
  <2> QED BY <1>14, <1>16, <2>1, <2>2 DEF Untouched
<1>18. TotalOf(sent) <= chain.total_supply
  BY <1>3, <1>4 DEF WithinSupply
<1>19. PageSound(e, chain)
  BY <1>1, <1>14, <1>16, <1>17, <1>18 DEF PageSound
<1>20. Render(e)
  <2>1. from = [i \in DOMAIN editor.rows |-> editor.rows[i].from]
    BY <1>5, <1>10
  <2>2. sending = [rows |-> Recipients, late |-> KnownDecimals(editor) # editor.shownWith,
                   from |-> [i \in DOMAIN editor.rows |-> editor.rows[i].from]]
    BY <1>2, <1>4, <1>12, <1>13, <2>1
  <2> QED BY <1>15, <2>2 DEF SubmitRows
<1> QED BY <1>16, <1>19, <1>20, RenderStep

LEMMA RotateStep == ASSUME DraftInv, editor # None, Rotate PROVE DraftInv'
<1> USE Types
<1>1. /\ TypeOK /\ editor \in PageType /\ PageSound(editor, chain) /\ flow = None
      /\ chain \in AccountOf(chain.total_supply) /\ chain.mint \in Tokens /\ kind \in Pages
  BY DEF DraftInv, TypeOK, EditorSound, AccountOf
<1>2. /\ editor.sending # None /\ PrepareAccepts(editor.sending.rows)
      /\ UNCHANGED <<now, kind, mode, mint, entries, recipient, csvText, csvResult, txState, flow>>
      /\ chain' = [chain EXCEPT !.leaves = Prepared(editor.sending.rows).leaves]
      /\ stored' = Prepared(editor.sending.rows).leaves
      /\ editor' = Mount([editor EXCEPT !.sending = None, !.loading = TRUE, !.refetching = TRUE,
                                        !.rotations = @ + 1])
  BY DEF Rotate, form
<1>3. PICK rows \in Seq(Allocated) : rows = editor.sending.rows
  BY <1>1, <1>2 DEF PageType
<1>4. PICK leaves : leaves = Prepared(rows).leaves
  OBVIOUS
<1>5. /\ leaves \in Seq(TreeLeaf) /\ DOMAIN leaves = DOMAIN rows
      /\ \A i \in DOMAIN rows : SameBut(leaves[i], rows[i])
      /\ TotalOf(leaves) = TotalOf(rows)
  BY <1>4, PreparedLeaves
<1>6. PrepareAccepts(leaves) /\ \A i \in DOMAIN leaves : WellFormed(leaves[i])
  BY <1>1, <1>2, <1>3, <1>5, LeavesLikeRows
<1>7. TotalOf(leaves) <= chain.total_supply
  BY <1>1, <1>2, <1>3, <1>5 DEF PageSound
<1>8. PICK account : account = [chain EXCEPT !.leaves = leaves]
  OBVIOUS
<1>9. /\ account.leaves = leaves /\ account.mint = chain.mint /\ account.pools = chain.pools
      /\ account.total_supply = chain.total_supply /\ account.card = chain.card
      /\ account \in AccountOf(chain.total_supply)
  BY <1>1, <1>5, <1>8 DEF AccountOf
<1>10. chain' = account /\ stored' = leaves
  BY <1>2, <1>3, <1>4, <1>8
<1>11. PICK count \in Nat : count = editor.rotations + 1
  BY <1>1 DEF PageType
<1>12. PICK e : e = [editor EXCEPT !.sending = None, !.loading = TRUE, !.refetching = TRUE,
                                   !.rotations = count]
  OBVIOUS
<1>13. /\ e \in PageType /\ e.rotations = count /\ e.rows = editor.rows /\ e.sending = None
       /\ e.decimals = editor.decimals
  BY <1>1, <1>12 DEF PageType
<1>14. count > 0
  BY <1>1, <1>11 DEF PageType
<1>15. PageSound(e, account)
  BY <1>1, <1>9, <1>13, <1>14 DEF PageSound
<1>16. PICK next : next = Mount(e)
  OBVIOUS
<1>17. next \in PageType /\ PageSound(next, account) /\ next.rotations = count
  BY <1>1, <1>9, <1>13, <1>15, <1>16, MountSound
<1>18. editor' = next
  BY <1>2, <1>11, <1>12, <1>16
<1>19. editor' # None
  BY <1>17, <1>18, EditorAssumption
<1>20. chain' \in AccountOf(chain.total_supply)'
  BY <1>9, <1>10
<1>21. TypeOK'
  BY <1>1, <1>2, <1>5, <1>10, <1>17, <1>18, <1>20 DEF TypeOK
<1>22. FileRead' /\ FileReady' /\ FlowSound'
  BY <1>1, <1>2 DEF DraftInv, FileRead, FileReady, FlowSound
<1>23. ChainSound'
  BY <1>14, <1>17, <1>18, <1>19 DEF ChainSound
<1>24. InItsPool /\ txState.type = "idle" /\ InItsPool'
  BY <1>9, <1>10 DEF DraftInv, EditorSound, InItsPool
<1>25. EditorSound'
  BY <1>1, <1>2, <1>6, <1>7, <1>9, <1>10, <1>17, <1>18, <1>20, <1>24 DEF EditorSound
<1>26. FundedInItsToken'
  BY <1>2, <1>24 DEF InItsPool, FundedInItsToken
<1> QED BY <1>21, <1>22, <1>23, <1>25, <1>26 DEF DraftInv

(* ------------------------------ theorems -------------------------------- *)

LEMMA DraftInvInit == Init => DraftInv
<1> SUFFICES ASSUME Init PROVE DraftInv
  OBVIOUS
<1> USE Types
<1>1. /\ now = FirstTime /\ kind \in Pages /\ mode = "single" /\ mint = None
      /\ entries = <<Blank>> /\ csvText = None /\ csvResult = None
      /\ txState = Idle /\ flow = None /\ chain = None /\ editor = None /\ stored = <<>>
  BY DEF Init, FormInit
<1>2. recipient \in Wallets
  <2>1. \E wallet \in Wallets : TRUE
    BY FormAssumption
  <2> QED BY <2>1 DEF Init, FormInit
<1>3. Blank \in Entry
  BY DEF Blank, Entry
<1>4. <<Blank>> \in Seq(Entry) /\ <<>> \in Seq(TreeLeaf)
  BY <1>3
<1>5. txState.type = "idle" /\ txState \in [rows : Seq(Allocated), type : {"idle", "ready", "loading",
                                              "error", "success", "unfunded", "funded"}]
  BY <1>1 DEF Idle
<1>6. TypeOK
  BY <1>1, <1>2, <1>4, <1>5 DEF TypeOK
<1>7. FileRead /\ FileReady /\ FlowSound /\ ChainSound /\ EditorSound /\ FundedInItsToken
  BY <1>1, <1>5 DEF FileRead, FileReady, FlowSound, ChainSound, EditorSound, FundedInItsToken
<1> QED BY <1>6, <1>7 DEF DraftInv

LEMMA DraftInvNext == DraftInv /\ [Next]_<<vars, editor, stored>> => DraftInv'
<1> SUFFICES ASSUME DraftInv, [Next]_<<vars, editor, stored>> PROVE DraftInv'
  OBVIOUS
<1>1. CASE editor = None /\ FormNext /\ UNCHANGED <<editor, stored>>
  BY <1>1, FormSteps
<1>2. CASE OpenEditor
  BY <1>2, OpenStep
<1>3. CASE EditorNext
  <2>1. editor # None
    BY <1>3 DEF EditorNext
  <2>2. CASE TreeArrives \/ DetailArrives \/ LeavesArrive \/ DecimalsArrive \/ RotationFails
    BY <2>1, <2>2, AnswerSteps
  <2>3. CASE Rotate
    BY <2>1, <2>3, RotateStep
  <2>4. CASE editor.rows # None /\ SubmitRows
    BY <2>1, <2>4, SubmitRowsStep
  <2>5. CASE /\ editor.rows # None
             /\ \/ AddRow
                \/ \E i \in DOMAIN editor.rows :
                     \/ RemoveRow(i)
                     \/ \E wallet \in Wallets \cup {None} : EditWallet(i, wallet)
                     \/ \E amount \in Amounts : EditAmount(i, amount)
                     \/ \E type \in Pages : EditType(i, type)
    BY <2>1, <2>5, RowSteps
  <2> QED BY <1>3, <2>2, <2>3, <2>4, <2>5 DEF EditorNext
<1>4. CASE UNCHANGED <<vars, editor, stored>>
  <2>1. /\ UNCHANGED <<now, kind, mode, mint, entries, recipient, csvText, csvResult, txState>>
        /\ UNCHANGED <<flow, chain, editor, stored>>
    BY <1>4 DEF vars, form
  <2>2. TypeOK'
    BY <2>1 DEF DraftInv, TypeOK, AccountOf
  <2>3. FileRead' /\ FileReady' /\ FlowSound' /\ ChainSound'
    BY <2>1 DEF DraftInv, FileRead, FileReady, FlowSound, ChainSound, AsCreated, InItsPool, AccountOf
  <2>4. EditorSound' /\ FundedInItsToken'
    BY <2>1 DEF DraftInv, EditorSound, PageSound, InItsPool, FundedInItsToken, AccountOf
  <2> QED BY <2>2, <2>3, <2>4 DEF DraftInv
<1> QED BY <1>1, <1>2, <1>3, <1>4 DEF Next

THEOREM DraftsStaySound == Spec => []DraftInv
BY DraftInvInit, DraftInvNext, PTL DEF Spec

(* The state of a creation page and of the allocation editor stays well    *)
(* typed: pools are empty or hold the supply, and no row that is on its    *)
(* way lacks amount, times or token (app/(app)/campaign/create).           *)
THEOREM DraftTypes == Spec => []TypeOK
<1>1. DraftInv => TypeOK
  BY DEF DraftInv
<1> QED BY <1>1, DraftsStaySound, PTL

(* Whatever is selected, resumed or retried meanwhile, tokens go into the  *)
(* pool of the campaign's own mint, and all of them when the page says so, *)
(* but for a native transfer from the card (handleFund and resumeFunding). *)
THEOREM MoneyGoesToItsPool == Spec => []FundedInItsToken
<1>1. DraftInv => FundedInItsToken
  BY DEF DraftInv
<1> QED BY <1>1, DraftsStaySound, PTL

(* What the chain holds is what was written in the form or the file, in    *)
(* its token and for any decimals, and the editor sends back untouched     *)
(* amounts as they are (toRawAmount, parseBulkCsv, rawToDisplayDecimal).   *)
THEOREM TheWrittenIsSent == Spec => []WrittenIsSent
<1> HIDE DEF DraftInv
<1>1. DraftInv => WrittenIsSent
  BY InvPromises
<1> QED BY <1>1, DraftsStaySound, PTL

(* Every leaf of a campaign, new or rotated, can be claimed, unless its    *)
(* times are those that a page does not look at (stream-form.ts, bulk.ts,  *)
(* /api/campaigns/prepare).                                                *)
THEOREM LeavesCanBePaid == Spec => []EveryLeafCanBePaid
<1> HIDE DEF DraftInv
<1>1. DraftInv => EveryLeafCanBePaid
  BY InvPromises
<1> QED BY <1>1, DraftsStaySound, PTL

(* ------------------------- what the text says --------------------------- *)

(* The times of the rows are those of the text they were read from.        *)
TimedRows(page, rows, shown) ==
    shown.mode = "bulk" =>
        /\ DOMAIN rows = DOMAIN shown.times
        /\ \A i \in DOMAIN rows :
             /\ rows[i].start_time = RowTimes(page, shown.times[i]).start
             /\ rows[i].cliff_time = RowTimes(page, shown.times[i]).cliff
             /\ rows[i].end_time = RowTimes(page, shown.times[i]).end

(* A file that is in its field is the one that anything was made of.       *)
OfText(shown) == csvText # None => shown.mode = "bulk" /\ shown.times = csvText

Noted ==
    /\ chain \in AccountOf(chain.total_supply) /\ AsCreated
    /\ TimedRows(kind, chain.leaves, chain.shown) /\ OfText(chain.shown)

TextInv ==
    /\ entries # <<>> /\ (csvText # None => entries = <<Blank>>)
    /\ flow # None =>
         /\ OfText(flow.shown)
         /\ flow.step = "creating" => TimedRows(kind, flow.rows, flow.shown)
         /\ flow.step \in {"funding", "again", "listed"} => Noted
    /\ (chain # None /\ mint # None) \/ txState.type \in {"unfunded", "funded"} => Noted
    /\ editor # None => mint = None

(* What a row that was read says, by itself. *)
ReadAs(page, row, line) ==
    /\ row.beneficiary = line.beneficiary /\ row.release_type = page /\ WellFormed(row)
    /\ row.start_time = RowTimes(page, line).start
    /\ row.cliff_time = RowTimes(page, line).cliff
    /\ row.end_time = RowTimes(page, line).end
    /\ page # Linear => row.end_time = row.cliff_time

LEMMA FileIsRead ==
    ASSUME NEW page \in Pages, NEW text \in Files[page], NEW token \in Tokens,
           NEW rows, rows = ParseBulkCsv(page, text, Decimals[token]), rows # <<>>
    PROVE  DOMAIN rows = DOMAIN text /\ \A i \in DOMAIN rows : ReadAs(page, rows[i], text[i])
<1> USE Types
<1> DEFINE d == Decimals[token]
<1>1. /\ \A i \in DOMAIN text : RowFits(page, d, text[i])
      /\ rows = [i \in DOMAIN text |-> Leaf(text[i].beneficiary, Raw(text[i].amount, d), page,
                                            RowTimes(page, text[i]), text[i].idx)]
  BY DEF ParseBulkCsv
<1>2. ASSUME NEW i \in DOMAIN rows PROVE ReadAs(page, rows[i], text[i])
  <2>1. /\ rows[i].beneficiary = text[i].beneficiary /\ rows[i].release_type = page
        /\ rows[i].start_time = RowTimes(page, text[i]).start
        /\ rows[i].cliff_time = RowTimes(page, text[i]).cliff
        /\ rows[i].end_time = RowTimes(page, text[i]).end
    BY <1>1, <1>2 DEF Leaf
  <2>2. WellFormed(rows[i])
    <3>1. \A shown : PayableRows(page, rows, shown)
      BY FileBecomesRows
    <3>2. PICK shown : shown = [mode |-> "bulk"]
      OBVIOUS
    <3>3. PayableRows(page, rows, shown) /\ shown.mode = "bulk"
      BY <3>1, <3>2
    <3> QED BY <1>2, <3>3 DEF PayableRows, Excused
  <2>3. page # Linear => rows[i].end_time = rows[i].cliff_time
    <3>1. RowFits(page, d, text[i])
      BY <1>1, <1>2
    <3> QED BY <2>1, <3>1 DEF RowFits, ValidSchedule, Pages
  <2> QED BY <2>1, <2>2, <2>3 DEF ReadAs
<1> QED BY <1>1, <1>2

(* ------------------------- and goes on saying --------------------------- *)

(* Who writes has no file; a step that leaves what is under way alone.     *)
LEMMA WritingKeeps ==
    ASSUME DraftInv, TextInv, editor = None, UNCHANGED <<kind, flow, chain, editor>>,
           entries' # <<>>, csvText' # None => csvText' = csvText /\ entries' = entries,
           txState' = txState \/ txState'.type \notin {"unfunded", "funded"}
    PROVE  TextInv'
<1>1. OfText(chain.shown) => OfText(chain.shown)'
  BY DEF OfText
<1>2. Noted => Noted'
  BY <1>1 DEF Noted, AsCreated
<1>3. flow # None /\ OfText(flow.shown) => OfText(flow.shown)'
  BY DEF OfText
<1>4. chain # None => Noted
  BY DEF DraftInv, ChainSound, TextInv
<1> QED BY <1>2, <1>3, <1>4 DEF TextInv

LEMMA TextFields ==
    ASSUME DraftInv, TextInv, UNCHANGED <<editor, stored>>, editor = None,
           \/ Tick \/ SwitchMode \/ SelectAgain \/ AddEntry \/ ReadFile
           \/ \E token \in Tokens : SelectByHand(token) \/ SelectForFile(token)
           \/ \E i \in DOMAIN entries :
                \/ RemoveEntry(i) \/ DuplicateEntry(i) \/ ApplyToAll(i)
                \/ \E entry \in Entries[kind] : FillIn(i, entry)
           \/ \E text \in Files[kind] : PasteFile(text)
    PROVE  TextInv'
<1> USE Types
<1>1. entries \in Seq(Entry) /\ entries # <<>> /\ Idle.type = "idle"
  BY DEF DraftInv, TypeOK, TextInv, Idle
<1>2. CASE \/ Tick \/ SwitchMode \/ SelectAgain \/ ReadFile
           \/ \E token \in Tokens : SelectByHand(token) \/ SelectForFile(token)
  <2>1. /\ UNCHANGED <<kind, flow, chain, editor, entries>> /\ csvText' \in {csvText, None}
        /\ txState' = txState \/ txState'.type \in {"idle", "ready"}
    BY <1>1, <1>2 DEF Tick, SwitchMode, SelectAgain, ReadFile, RunBulkParse, SelectByHand,
                      SelectForFile, IfBuilt, Ready, form
  <2> QED BY <1>1, <2>1, WritingKeeps
<1>3. ASSUME NEW next, SetEntries(next), next # <<>> PROVE TextInv'
  <2>1. /\ UNCHANGED <<kind, flow, chain, editor, txState>> /\ entries' = next
        /\ csvText = None /\ csvText' = None
    BY <1>3 DEF SetEntries
  <2> QED BY <1>3, <2>1, WritingKeeps
<1>4. CASE AddEntry
  <2>1. Append(entries, Blank) # <<>>
    <3>1. Append(entries, Blank)[Len(entries) + 1] = Blank /\ Len(Append(entries, Blank)) = Len(entries) + 1
      BY <1>1
    <3> QED BY <1>1, <3>1
  <2> QED BY <1>3, <1>4, <2>1 DEF AddEntry
<1>5. ASSUME NEW i \in DOMAIN entries PROVE RemoveEntry(i) => TextInv'
  <2>1. Len(entries) > 1 => SubSeq(entries, 1, i - 1) \o SubSeq(entries, i + 1, Len(entries)) # <<>>
    <3>1. i \in 1 .. Len(entries) /\ Len(entries) \in Nat
      BY <1>1, <1>5
    <3> DEFINE before == SubSeq(entries, 1, i - 1)
               after  == SubSeq(entries, i + 1, Len(entries))
    <3>2. /\ before \in Seq(Entry) /\ Len(before) = i - 1
          /\ after \in Seq(Entry) /\ Len(after) = Len(entries) - i
      BY <1>1, <3>1
    <3> HIDE DEF before, after
    <3>3. Len(before \o after) = Len(entries) - 1 /\ before \o after \in Seq(Entry)
      BY <3>1, <3>2
    <3>4. Len(entries) > 1 => before \o after # <<>>
      BY <3>1, <3>3
    <3> QED BY <3>4 DEF before, after
  <2> QED BY <1>3, <2>1 DEF RemoveEntry
<1>6. ASSUME NEW i \in DOMAIN entries PROVE DuplicateEntry(i) => TextInv'
  <2> DEFINE copy == [entries[i] EXCEPT !.recipient = None]
             next == SubSeq(entries, 1, i) \o <<copy>> \o SubSeq(entries, i + 1, Len(entries))
  <2>1. next # <<>>
    <3>1. i \in 1 .. Len(entries) /\ Len(entries) \in Nat
      BY <1>1, <1>6
    <3>2. PICK S : entries \in Seq(S) /\ copy \in S
      <4>1. entries \in Seq(Entry \cup {copy})
        BY <1>1
      <4> HIDE DEF copy
      <4> QED BY <4>1
    <3> HIDE DEF copy
    <3> QED BY <3>1, <3>2
  <2> QED BY <1>3, <2>1 DEF DuplicateEntry
<1>7. ASSUME NEW i \in DOMAIN entries PROVE ApplyToAll(i) => TextInv'
  <2> DEFINE next == [j \in DOMAIN entries |->
         [entries[j] EXCEPT !.start = Kept(entries[i].start, entries[j].start),
                            !.cliff = Kept(entries[i].cliff, entries[j].cliff),
                            !.end   = entries[i].end]]
  <2>1. next # <<>>
    <3>1. DOMAIN next = DOMAIN entries /\ DOMAIN entries # {}
      BY <1>7
    <3> HIDE DEF next
    <3> QED BY <3>1
  <2>2. ApplyToAll(i) => SetEntries(next)
    BY DEF ApplyToAll
  <2> HIDE DEF next
  <2> QED BY <1>3, <2>1, <2>2
<1>8. ASSUME NEW i \in DOMAIN entries, NEW entry \in Entries[kind] PROVE FillIn(i, entry) => TextInv'
  <2>1. [entries EXCEPT ![i] = entry] # <<>>
    <3>1. DOMAIN [entries EXCEPT ![i] = entry] # {}
      BY <1>8
    <3> QED BY <3>1
  <2> QED BY <1>3, <2>1 DEF FillIn
<1>9. ASSUME NEW text \in Files[kind], PasteFile(text) PROVE TextInv'
  <2>1. /\ UNCHANGED <<kind, flow, chain, editor>> /\ entries' = entries /\ entries = <<Blank>>
        /\ flow = None /\ chain = None /\ txState'.type = "idle"
    BY <1>1, <1>9 DEF PasteFile, Filling
  <2> QED BY <1>1, <2>1 DEF TextInv
<1>10. CASE \E i \in DOMAIN entries :
              \/ RemoveEntry(i) \/ DuplicateEntry(i) \/ ApplyToAll(i)
              \/ \E entry \in Entries[kind] : FillIn(i, entry)
  BY <1>5, <1>6, <1>7, <1>8, <1>10
<1> QED BY <1>2, <1>4, <1>9, <1>10

LEMMA TimesCarry ==
    ASSUME NEW page, NEW rows, NEW leaves, NEW shown,
           DOMAIN leaves = DOMAIN rows, \A i \in DOMAIN rows : SameBut(leaves[i], rows[i]),
           TimedRows(page, rows, shown)
    PROVE  TimedRows(page, leaves, shown)
BY DEF TimedRows, SameBut

LEMMA TextSubmits ==
    ASSUME DraftInv, TextInv, UNCHANGED <<editor, stored>>, editor = None, Submit \/ Build
    PROVE  TextInv'
<1> USE Types
<1>1. /\ UNCHANGED <<kind, mint, entries, csvText, csvResult, chain>>
      /\ chain = None /\ csvText = None
  <2>1. CASE Submit
    <3>1. csvText = None
      <4> SUFFICES ASSUME entries = <<Blank>> PROVE FALSE
        BY <2>1 DEF Submit, TextInv
      <4>1. entries[1].amount = None /\ 1 \in DOMAIN entries
        BY DEF Blank
      <4> QED BY <2>1, <4>1 DEF Submit, EntriesFit, EntryFits, ValidAmount
    <3> QED BY <2>1, <3>1 DEF Submit
  <2>2. CASE Build
    <3>1. flow # None /\ flow.step = "painting" /\ flow.shown.mode = "single" /\ chain = None
      BY <2>2 DEF Build, DraftInv, FlowSound
    <3>2. csvText = None
      BY <3>1 DEF TextInv, OfText
    <3> QED BY <2>2, <3>1, <3>2 DEF Build
  <2> QED BY <2>1, <2>2
<1>2. txState'.type \in {"unfunded", "funded"} => txState' = txState
  <2>1. CASE Submit
    BY <2>1, Shows DEF Submit
  <2>2. CASE Build
    BY <2>2, Shows DEF Build
  <2> QED BY <2>1, <2>2
<1>3. flow' = None \/ flow'.step = "painting" \/ (flow'.step = "creating" /\ flow'.shown.mode = "single")
  <2>1. CASE Submit
    BY <2>1 DEF Submit
  <2>2. CASE Build
    <3>1. /\ flow # None /\ flow.step = "painting" /\ flow.shown.mode = "single"
          /\ flow \in FlowType
      BY <2>2 DEF Build, DraftInv, FlowSound, TypeOK
    <3>2. flow' = None \/ \E rows : flow' = [flow EXCEPT !.step = "creating", !.rows = rows, !.since = FirstTime]
      BY <2>2 DEF Build
    <3> QED BY <3>1, <3>2 DEF FlowType
  <2> QED BY <2>1, <2>2
<1>4. csvText' = None /\ chain' = None
  BY <1>1
<1>5. Noted => Noted'
  BY <1>1, <1>4 DEF Noted, AsCreated, OfText
<1> QED BY <1>1, <1>2, <1>3, <1>4, <1>5 DEF TextInv, OfText, TimedRows

LEMMA TextFileSubmits ==
    ASSUME DraftInv, TextInv, UNCHANGED <<editor, stored>>, editor = None, SubmitFile
    PROVE  TextInv'
<1> USE Types
<1>1. /\ UNCHANGED <<kind, mint, entries, csvText, csvResult, chain>> /\ chain = None
      /\ mode = "bulk" /\ txState.type = "ready" /\ txState'.type = "loading"
      /\ flow' = [step |-> "creating", mint |-> mint, rows |-> txState.rows, since |-> FirstTime,
                  shown |-> Shown(csvText)]
  BY Shows DEF SubmitFile
<1>2. Shown(csvText).mode = "bulk" /\ Shown(csvText).times = csvText
  BY <1>1 DEF Shown
<1>3. /\ csvResult # None /\ csvText # None /\ txState.rows # <<>>
      /\ txState.rows = ParseBulkCsv(kind, csvText, Decimals[csvResult.mint])
  BY <1>1 DEF DraftInv, FileRead, FileReady, Buildable, FitsTree
<1>4. /\ csvText \in Files[kind] /\ kind \in Pages /\ csvResult.mint \in Tokens
  BY <1>3 DEF DraftInv, TypeOK, ParsedFile
<1>5. PICK token \in Tokens : token = csvResult.mint
  BY <1>4
<1>6. txState.rows = ParseBulkCsv(kind, csvText, Decimals[token])
  BY <1>3, <1>5
<1>7. /\ DOMAIN txState.rows = DOMAIN csvText
      /\ \A i \in DOMAIN txState.rows : ReadAs(kind, txState.rows[i], csvText[i])
  BY <1>3, <1>4, <1>6, FileIsRead
<1>8. TimedRows(kind, txState.rows, Shown(csvText))
  BY <1>2, <1>7 DEF TimedRows, ReadAs
<1>9. /\ flow'.step = "creating" /\ flow'.rows = txState.rows /\ flow'.shown = Shown(csvText)
  BY <1>1
<1> QED BY <1>1, <1>2, <1>8, <1>9 DEF TextInv, OfText

LEMMA TextLands ==
    ASSUME DraftInv, TextInv, UNCHANGED <<editor, stored>>, editor = None,
           StreamLands \/ CampaignLands
    PROVE  TextInv'
<1> USE Types
<1>1. /\ flow # None /\ flow.step = "creating" /\ csvText' = csvText
      /\ entries' \in {entries, <<Blank>>} /\ flow \in FlowType
      /\ UNCHANGED <<now, kind, mode, mint, recipient>>
      /\ txState'.type \notin {"unfunded", "funded"}
  BY Shows DEF StreamLands, CampaignLands, Cleared, DraftInv, TypeOK
<1>2. PICK paid \in {0, TotalOf(flow.rows)} : chain' = Account(Prepared(flow.rows), paid)
  <2>1. Prepared(flow.rows).total_supply = TotalOf(flow.rows)
    BY DEF Prepared
  <2> QED BY <2>1 DEF StreamLands, CampaignLands
<1>3. chain' \in AccountOf(chain.total_supply)' /\ AsCreated'
  BY <1>1, <1>2, LandsStep
<1>4. OfText(flow.shown) /\ TimedRows(kind, flow.rows, flow.shown)
  BY <1>1 DEF TextInv
<1> DEFINE leaves == Prepared(flow.rows).leaves
<1>5. /\ DOMAIN leaves = DOMAIN flow.rows
      /\ \A i \in DOMAIN flow.rows : SameBut(leaves[i], flow.rows[i])
  <2>1. flow.rows \in Seq(Allocated)
    BY <1>1 DEF FlowType
  <2> QED BY <2>1, PreparedLeaves
<1>6. chain'.leaves = leaves /\ chain'.shown = flow.shown
  BY <1>2 DEF Account
<1> HIDE DEF leaves
<1>7. TimedRows(kind, leaves, flow.shown)
  BY <1>4, <1>5, TimesCarry
<1>8. Noted'
  BY <1>1, <1>3, <1>4, <1>6, <1>7 DEF Noted, OfText
<1>9. CASE StreamLands
  <2>1. flow' = None /\ entries' = <<Blank>>
    BY <1>9 DEF StreamLands, Cleared
  <2> QED BY <1>8, <2>1 DEF TextInv
<1>10. CASE CampaignLands
  <2>1. flow' = [flow EXCEPT !.step = "funding"] /\ entries' = entries
    BY <1>10 DEF CampaignLands
  <2>2. flow'.step = "funding" /\ flow'.shown = flow.shown
    BY <1>1, <2>1 DEF FlowType
  <2>3. OfText(flow.shown)'
    BY <1>1, <1>4, <2>1, <2>2 DEF OfText
  <2> QED BY <1>1, <1>8, <2>1, <2>2, <2>3 DEF TextInv
<1> QED BY <1>9, <1>10

LEMMA TextFundings ==
    ASSUME DraftInv, TextInv, UNCHANGED <<editor, stored>>, editor = None,
           CreateFails \/ FundFails \/ FundLands \/ ResumeFromCard \/ ResumeFromPanel
    PROVE  TextInv'
<1> USE Types
<1>1. CASE CreateFails
  <2>1. /\ UNCHANGED <<kind, mint, entries, csvText, chain>> /\ flow' = None
        /\ txState'.type \notin {"unfunded", "funded"}
    BY <1>1, Shows DEF CreateFails
  <2>2. Noted => Noted'
    BY <2>1 DEF Noted, AsCreated, OfText
  <2> QED BY <2>1, <2>2 DEF TextInv
<1>2. CASE FundFails
  <2>1. /\ UNCHANGED <<kind, mint, entries, csvText, chain>> /\ flow' = None
        /\ flow # None /\ flow.step \in {"funding", "again", "listed"}
    BY <1>2, Shows DEF FundFails
  <2>2. Noted
    BY <2>1 DEF TextInv
  <2>3. Noted'
    BY <2>1, <2>2 DEF Noted, AsCreated, OfText
  <2> QED BY <2>1, <2>3 DEF TextInv
<1>3. CASE FundLands
  <2>1. /\ kind' = kind /\ flow' = None /\ flow # None /\ flow.step \in {"funding", "again", "listed"}
        /\ chain' = [chain EXCEPT !.pools[flow.mint] = chain.total_supply, !.pending = FALSE]
        /\ entries' \in {entries, <<Blank>>} /\ csvText' \in {csvText, None}
    BY <1>3 DEF FundLands, Cleared
  <2>2. Noted /\ flow.mint \in Tokens
    BY <2>1 DEF TextInv, DraftInv, TypeOK, FlowType
  <2>3. /\ chain'.mint = chain.mint /\ chain'.leaves = chain.leaves
        /\ chain'.total_supply = chain.total_supply /\ chain'.shown = chain.shown
        /\ chain' \in AccountOf(chain.total_supply)
    <3>1. chain \in AccountOf(chain.total_supply)
      BY <2>2 DEF Noted
    <3>2. [chain.pools EXCEPT ![flow.mint] = chain.total_supply] \in [Tokens -> {0, chain.total_supply}]
      BY <2>2, <3>1 DEF AccountOf
    <3> QED BY <2>1, <3>1, <3>2 DEF AccountOf
  <2>4. Noted'
    BY <2>1, <2>2, <2>3 DEF Noted, AsCreated, OfText, AccountOf
  <2>5. csvText' # None => entries' = <<Blank>>
    BY <2>1 DEF TextInv
  <2> QED BY <2>1, <2>4, <2>5 DEF TextInv
<1>4. CASE ResumeFromCard \/ ResumeFromPanel
  <2>1. PICK step \in {"again", "listed"}, token \in {mint, chain.mint} : Resume(step, token)
          /\ chain' \in {chain, [chain EXCEPT !.card = chain.card \/ mint # chain.mint]}
    BY <1>4 DEF ResumeFromCard, ResumeFromPanel
  <2>2. /\ chain # None /\ UNCHANGED <<kind, entries, csvText>>
        /\ flow' = [step |-> step, mint |-> token, rows |-> <<>>, since |-> FirstTime,
                    shown |-> chain.shown]
        /\ txState'.type \notin {"unfunded", "funded"}
    BY <2>1, Shows DEF Resume
  <2>3. Noted
    BY <2>2 DEF TextInv, DraftInv, ChainSound
  <2>4. /\ chain'.mint = chain.mint /\ chain'.leaves = chain.leaves
        /\ chain'.total_supply = chain.total_supply /\ chain'.shown = chain.shown
        /\ chain' \in AccountOf(chain.total_supply)
    <3>1. chain \in AccountOf(chain.total_supply)
      BY <2>3 DEF Noted
    <3> QED BY <2>1, <3>1 DEF AccountOf
  <2>5. Noted'
    BY <2>2, <2>3, <2>4 DEF Noted, AsCreated, OfText, AccountOf
  <2>6. flow'.shown = chain.shown /\ OfText(chain.shown)
    BY <2>2, <2>3 DEF Noted
  <2>7. flow'.step # "creating"
    BY <2>1, <2>2
  <2> QED BY <2>2, <2>5, <2>6, <2>7 DEF TextInv, OfText
<1> QED BY <1>1, <1>2, <1>3, <1>4

(* The creation page is left with nothing in its fields. *)
LEMMA TextInvNext == DraftInv /\ TextInv /\ [Next]_<<vars, editor, stored>> => TextInv'
<1> SUFFICES ASSUME DraftInv, TextInv, [Next]_<<vars, editor, stored>> PROVE TextInv'
  OBVIOUS
<1>1. CASE UNCHANGED <<vars, editor, stored>>
  BY <1>1 DEF vars, form, TextInv, Noted, AsCreated, OfText
<1>2. CASE editor = None /\ FormNext /\ UNCHANGED <<editor, stored>>
  BY <1>2, TextFields, TextSubmits, TextFileSubmits, TextLands, TextFundings DEF FormNext
<1>3. CASE OpenEditor
  <2>1. /\ flow' = None /\ entries' = <<Blank>> /\ csvText' = None /\ mint' = None
        /\ txState'.type = "idle"
    BY <1>3 DEF OpenEditor, Idle
  <2> QED BY <2>1 DEF TextInv
<1>4. CASE EditorNext
  <2>1. editor # None /\ UNCHANGED form /\ flow' = flow
    BY <1>4 DEF EditorNext, TreeArrives, DetailArrives, LeavesArrive, DecimalsArrive, Rotate,
                RotationFails, AddRow, SubmitRows, RemoveRow, EditWallet, EditAmount, EditType,
                Edit, Render, vars
  <2>2. flow = None /\ txState.type = "idle" /\ mint = None
    BY <2>1 DEF DraftInv, EditorSound, TextInv
  <2> QED BY <2>1, <2>2 DEF TextInv, form
<1> QED BY <1>1, <1>2, <1>3, <1>4 DEF Next

LEMMA TextInvInit == Init => TextInv
<1> SUFFICES ASSUME Init PROVE TextInv
  OBVIOUS
<1>1. /\ entries = <<Blank>> /\ csvText = None /\ flow = None /\ chain = None
      /\ txState.type = "idle" /\ editor = None
  BY DEF Init, FormInit, Idle
<1> QED BY <1>1 DEF TextInv

(* ------------------------ what the pages show --------------------------- *)

(* What is written of sums, when every amount is what it was written as.   *)
LEMMA SumAsWritten ==
    ASSUME NEW d \in 0 .. DefaultDecimals, NEW n \in Nat, NEW raw, NEW written,
           OfLength(raw, n), OfLength(written, n),
           \A i \in 1 .. n : raw[i] \in Nat /\ written[i] \in Nat /\ raw[i] * Unit = written[i] * 10^d
    PROVE  Written(Added(raw), d) \in Nat /\ Added(written) = Written(Added(raw), d)
<1> DEFINE p == 10^d
           sum == Added(raw)
<1>1. p \in Nat \ {0} /\ Unit \in Nat \ {0} /\ Unit % p = 0
  BY PowersOfTen
<1> HIDE DEF p
<1>2. PICK k \in Nat : k * p = Unit
  <2>1. (Unit \div p) * p = Unit /\ Unit \div p \in Nat
    <3>1. PICK u \in Nat : u = Unit
      BY <1>1
    <3>2. u % p = 0
      BY <1>1, <3>1
    <3>3. (u \div p) * p = u
      BY <1>1, <3>2, Exactly
    <3>4. u \div p \in Nat
      BY <1>1
    <3> QED BY <3>1, <3>3, <3>4
  <2> QED BY <2>1
<1>3. ASSUME NEW i \in 1 .. n PROVE raw[i] \in Nat /\ written[i] = raw[i] * k
  <2>1. raw[i] \in Nat /\ written[i] \in Nat /\ raw[i] * Unit = written[i] * p
    BY DEF p
  <2>2. PICK r \in Nat, w \in Nat : r = raw[i] /\ w = written[i]
    BY <2>1
  <2>3. r * k \in Nat /\ (r * k) * p = r * (k * p)
    BY <1>1
  <2>4. (r * k) * p = w * p
    BY <1>2, <2>1, <2>2, <2>3
  <2>5. (w * p) \div p = w /\ ((r * k) * p) \div p = r * k
    BY <1>1, <2>3, Division
  <2> QED BY <2>1, <2>2, <2>4, <2>5
<1>4. sum \in Nat /\ Added(written) = sum * k
  BY <1>2, <1>3, AddedTimes
<1> HIDE DEF sum
<1>5. sum * k \in Nat /\ sum * Unit = (sum * k) * p
  BY <1>1, <1>2, <1>4
<1>6. ((sum * k) * p) \div p = sum * k
  BY <1>1, <1>5, Division
<1>7. Written(sum, d) = sum * k
  BY <1>5, <1>6 DEF Written, p
<1> QED BY <1>4, <1>5, <1>7 DEF sum

(* What becomes of a value that is read as a number.                       *)
LEMMA NumberFacts ==
    ASSUME NEW x \in Int, 0 <= x, x <= Largest
    PROVE  /\ Double[x] \in Nat /\ Double[x] <= Largest
           /\ x <= Double[x] + Slip /\ Double[x] <= x + Slip
           /\ Double[Double[x]] = Double[x]
BY NumberAssumption

(* Amounts that are added up as numbers, and as they are.                  *)
RoundsUp(f, a, n) ==
    \A i \in 0 .. n : f[i] = IF i = 0 THEN 0 ELSE Double[f[i - 1] + Number(a[i])]

LEMMA RoundedSum ==
    ASSUME NEW n \in Nat, NEW a, \A i \in 1 .. n : a[i] \in Nat,
           NEW f, RoundsUp(f, a, n), NEW t, SumsUp(t, a, n),
           t[n] * Grain + (2 * n) * Slip <= Largest
    PROVE  /\ t[n] \in Nat /\ f[n] \in Nat /\ f[n] <= Largest
           /\ f[n] <= t[n] * Grain + (2 * n) * Slip
           /\ t[n] * Grain <= f[n] + (2 * n) * Slip
           /\ n = 1 => f[n] = Number(t[n])
<1>1. Grain \in Nat /\ Slip \in Nat /\ Largest \in Nat
  BY NumberAssumption
<1> DEFINE P == {i \in Nat : i <= n => t[i] \in Nat}
<1>2. \A i \in 0 .. n : t[i] \in Nat
  <2>1. 0 \in P
    BY DEF SumsUp
  <2>2. ASSUME NEW i \in Nat, i \in P PROVE i + 1 \in P
    BY <2>2 DEF SumsUp
  <2>3. \A i \in Nat : i \in P
    <3> HIDE DEF P
    <3> QED BY <2>1, <2>2, Induction
  <2> QED BY <2>3
<1> DEFINE Q == {k \in Nat : k <= n => t[n - k] <= t[n]}
<1>3. \A i \in 0 .. n : t[i] <= t[n]
  <2>1. 0 \in Q
    BY <1>2
  <2>2. ASSUME NEW k \in Nat, k \in Q, k + 1 <= n PROVE t[n - (k + 1)] <= t[n]
    <3>1. PICK i \in 1 .. n : i = n - k
      BY <2>2
    <3>2. t[i] = t[i - 1] + a[i] /\ a[i] \in Nat /\ t[i - 1] \in Nat /\ t[i] \in Nat /\ t[n] \in Nat
      BY <1>2 DEF SumsUp
    <3>3. t[i] <= t[n] /\ i - 1 = n - (k + 1)
      BY <2>2, <3>1
    <3> QED BY <3>2, <3>3
  <2>3. \A k \in Nat : k \in Q
    <3>1. ASSUME NEW k \in Nat, k \in Q PROVE k + 1 \in Q
      BY <2>2, <3>1
    <3> HIDE DEF Q
    <3> QED BY <2>1, <3>1, Induction
  <2>4. ASSUME NEW i \in 0 .. n PROVE t[i] <= t[n]
    <3>1. n - i \in Q /\ n - i <= n /\ n - (n - i) = i
      BY <2>3
    <3> QED BY <3>1
  <2> QED BY <2>4
<1> DEFINE Near(i) == /\ f[i] \in Nat /\ f[i] <= Largest
                      /\ f[i] <= t[i] * Grain + (2 * i) * Slip
                      /\ t[i] * Grain <= f[i] + (2 * i) * Slip
           R == {i \in Nat : i <= n => Near(i)}
<1>4. 0 \in R
  <2>1. f[0] = 0 /\ t[0] = 0
    BY DEF SumsUp, RoundsUp
  <2> QED BY <1>1, <2>1
<1>5. ASSUME NEW i \in Nat, i \in R, i + 1 <= n PROVE Near(i + 1)
  <2>1. /\ f[i] \in Nat /\ f[i] <= t[i] * Grain + (2 * i) * Slip
        /\ t[i] * Grain <= f[i] + (2 * i) * Slip
    BY <1>5
  <2> HIDE DEF Near, R
  <2>2. /\ t[i + 1] = t[i] + a[i + 1] /\ a[i + 1] \in Nat /\ t[i] \in Nat /\ t[i + 1] \in Nat
        /\ f[i + 1] = Double[f[i] + Double[a[i + 1] * Grain]]
        /\ t[i + 1] <= t[n] /\ t[n] \in Nat
    BY <1>2, <1>3, <1>5 DEF SumsUp, RoundsUp, Number
  <2>3. PICK g \in Nat : g = a[i + 1] * Grain
    BY <1>1, <2>2
  <2>4. PICK u \in Nat : u = t[i] * Grain
    BY <1>1, <2>2
  <2>5. PICK w \in Nat : w = t[n] * Grain
    BY <1>1, <2>2
  <2>6. PICK e \in Nat : e = (2 * i) * Slip
    BY <1>1
  <2>7. t[i + 1] * Grain = u + g /\ u + g <= w
    <3>1. \A x, y, z \in Nat : (x + y) * z = x * z + y * z
      OBVIOUS
    <3>2. \A x, y, z \in Nat : x <= y => x * z <= y * z
      OBVIOUS
    <3> QED BY <1>1, <2>2, <2>3, <2>4, <2>5, <3>1, <3>2
  <2>8. (2 * (i + 1)) * Slip = e + 2 * Slip /\ e + 2 * Slip <= (2 * n) * Slip
    <3>1. (2 * (i + 1)) * Slip = (2 * i) * Slip + 2 * Slip
      BY <1>1
    <3>2. \A x, y, z \in Nat : x <= y => x * z <= y * z
      OBVIOUS
    <3>3. 2 * (i + 1) \in Nat /\ 2 * n \in Nat /\ 2 * (i + 1) <= 2 * n
      BY <1>5
    <3> QED BY <1>1, <2>6, <3>1, <3>2, <3>3
  <2>9. PICK m \in Nat : m = (2 * n) * Slip
    BY <1>1
  <2>10. g <= Largest
    BY <1>1, <2>5, <2>7, <2>9
  <2>11. PICK d \in Nat : d = Double[g] /\ g <= d + Slip /\ d <= g + Slip
    BY <2>10, NumberFacts
  <2>12. PICK x \in Nat : x = f[i] /\ x <= u + e /\ u <= x + e
    BY <2>1, <2>4, <2>6
  <2>13. x + d <= Largest
    BY <1>1, <2>5, <2>7, <2>8, <2>9, <2>11, <2>12
  <2>14. PICK y \in Nat : y = Double[x + d] /\ y <= Largest /\ x + d <= y + Slip /\ y <= x + d + Slip
    <3>1. x + d \in Int /\ 0 <= x + d
      OBVIOUS
    <3>2. /\ Double[x + d] \in Nat /\ Double[x + d] <= Largest
          /\ x + d <= Double[x + d] + Slip /\ Double[x + d] <= (x + d) + Slip
      BY <2>13, <3>1, NumberFacts
    <3> QED BY <3>2
  <2>15. f[i + 1] = y
    BY <2>2, <2>3, <2>11, <2>12, <2>14
  <2>16. y <= (u + g) + (e + 2 * Slip) /\ u + g <= y + (e + 2 * Slip)
    BY <1>1, <2>11, <2>12, <2>14
  <2> QED BY <2>7, <2>8, <2>14, <2>15, <2>16 DEF Near
<1>6. Near(n)
  <2>1. ASSUME NEW i \in Nat, i \in R PROVE i + 1 \in R
    BY <1>5, <2>1
  <2>2. n \in R
    <3> HIDE DEF R
    <3> QED BY <1>4, <2>1, Induction
  <2> QED BY <2>2
<1>7. n = 1 => f[n] = Number(t[n])
  <2> SUFFICES ASSUME n = 1 PROVE f[1] = Number(t[1])
    OBVIOUS
  <2>1. f[1] = Double[f[0] + Double[a[1] * Grain]] /\ f[0] = 0 /\ t[1] = t[0] + a[1] /\ t[0] = 0
        /\ a[1] \in Nat
    BY DEF SumsUp, RoundsUp, Number
  <2>2. PICK g \in Nat : g = a[1] * Grain
    BY <1>1, <2>1
  <2>3. t[1] = a[1] /\ g <= Largest
    <3>1. (2 * n) * Slip \in Nat /\ t[n] * Grain = g
      BY <1>1, <2>1, <2>2
    <3> QED BY <1>1, <2>1, <3>1
  <2>4. Double[g] \in Nat /\ Double[Double[g]] = Double[g]
    BY <2>3, NumberFacts
  <2>5. f[1] = Double[Double[g]]
    <3>1. 0 + Double[g] = Double[g]
      BY <2>4
    <3> QED BY <2>1, <2>2, <3>1
  <2> QED BY <2>2, <2>3, <2>4, <2>5 DEF Number
<1> HIDE DEF P, Q, R
<1> QED BY <1>2, <1>6, <1>7

(* So are the entries of a page.                                           *)
LEMMA TotalRoundsUp ==
    ASSUME Len(entries) \in Nat, NEW a,
           \A i \in 1 .. Len(entries) :
             a[i] = IF entries[i].amount = None THEN 0 ELSE entries[i].amount
    PROVE  \E f : TotalAmount = f[Len(entries)] /\ RoundsUp(f, a, Len(entries))
<1> DEFINE n == Len(entries)
           Term(k) == Number(IF entries[k].amount = None THEN 0 ELSE entries[k].amount)
           Is(f, m) == \A k \in 0 .. m : f[k] = IF k = 0 THEN 0 ELSE Double[f[k - 1] + Term(k)]
           S == {m \in Nat : \E f : Is(f, m)}
           sum == CHOOSE f : f = [k \in 0 .. n |-> IF k = 0 THEN 0 ELSE Double[f[k - 1] + Term(k)]]
<1> HIDE DEF Term
<1>1. 0 \in S
  <2> DEFINE g == [k \in 0 .. 0 |-> 0]
  <2>1. Is(g, 0)
    OBVIOUS
  <2> HIDE DEF g
  <2>2. \E f : Is(f, 0)
    BY <2>1
  <2> HIDE DEF Is
  <2> QED BY <2>2
<1>2. ASSUME NEW m \in Nat, m \in S PROVE m + 1 \in S
  <2>1. PICK f : Is(f, m)
    BY <1>2
  <2> DEFINE g == [k \in 0 .. (m + 1) |-> IF k <= m THEN f[k] ELSE Double[f[m] + Term(m + 1)]]
  <2>2. /\ \A k \in 0 .. m : g[k] = f[k]
        /\ g[m + 1] = Double[f[m] + Term(m + 1)]
    OBVIOUS
  <2> HIDE DEF g
  <2>3. ASSUME NEW k \in 0 .. (m + 1)
        PROVE  g[k] = IF k = 0 THEN 0 ELSE Double[g[k - 1] + Term(k)]
    <3>1. CASE k = m + 1
      <4>1. g[k - 1] = f[m] /\ g[k] = Double[f[m] + Term(k)] /\ k # 0
        BY <2>2, <3>1
      <4> QED BY <4>1
    <3>2. CASE k \in 0 .. m
      BY <2>1, <2>2, <3>2
    <3> QED BY <3>1, <3>2
  <2>4. \E h : Is(h, m + 1)
    BY <2>3
  <2> HIDE DEF Is
  <2> QED BY <2>4
<1>3. PICK f : Is(f, n)
  <2>1. n \in S
    <3> HIDE DEF S, n
    <3> QED BY <1>1, <1>2, Induction DEF n
  <2> QED BY <2>1
<1> DEFINE g == [k \in 0 .. n |-> f[k]]
<1>4. g = [k \in 0 .. n |-> IF k = 0 THEN 0 ELSE Double[g[k - 1] + Term(k)]]
  BY <1>3
<1> HIDE DEF g
<1>5. sum = [k \in 0 .. n |-> IF k = 0 THEN 0 ELSE Double[sum[k - 1] + Term(k)]]
  BY <1>4
<1>6. TotalAmount = sum[n]
  BY DEF TotalAmount, Term
<1> HIDE DEF sum
<1>7. \A k \in 1 .. n : Term(k) = Number(a[k])
  BY DEF Term
<1> HIDE DEF Is, S
<1>8. ASSUME NEW k \in 0 .. n
      PROVE  sum[k] = IF k = 0 THEN 0 ELSE Double[sum[k - 1] + Number(a[k])]
  <2>1. sum[k] = IF k = 0 THEN 0 ELSE Double[sum[k - 1] + Term(k)]
    <3> HIDE DEF n
    <3> QED BY <1>5, Zenon
  <2>2. CASE k = 0
    BY <2>1, <2>2
  <2>3. CASE k # 0
    <3>1. k \in 1 .. n
      BY <2>3
    <3>2. Term(k) = Number(a[k])
      BY <1>7, <3>1
    <3> QED BY <2>1, <2>3, <3>2
  <2> QED BY <2>2, <2>3
<1>9. RoundsUp(sum, a, n)
  <2> HIDE DEF n
  <2> QED BY <1>8, Zenon DEF RoundsUp
<1> QED BY <1>6, <1>9

(* A balance that is off a sum by the smallest amount is told from it.     *)
LEMMA Boundary ==
    ASSUME NEW sum \in Nat, NEW off \in Nat, off + Slip < Grain,
           TotalDeposit \in Nat, (sum + 1) * Grain + off <= Largest,
           TotalDeposit <= sum * Grain + off, sum * Grain <= TotalDeposit + off
    PROVE  /\ ~InsufficientBalance(sum + 1)
           /\ sum > 0 => InsufficientBalance(sum - 1)
<1>1. Grain \in Nat /\ Slip \in Nat /\ Largest \in Nat /\ None \notin Int
  BY NumberAssumption, AllocationAssumption
<1>2. PICK s \in Nat : s = sum * Grain
  BY <1>1
<1>3. (sum + 1) * Grain = s + Grain /\ (sum - 1) * Grain = s - Grain
  BY <1>1, <1>2
<1>4. /\ Number(sum + 1) \in Nat /\ s + Grain <= Number(sum + 1) + Slip
  BY <1>1, <1>3, NumberFacts DEF Number
<1>5. ~InsufficientBalance(sum + 1)
  BY <1>1, <1>2, <1>4 DEF InsufficientBalance
<1>6. ASSUME sum > 0 PROVE InsufficientBalance(sum - 1)
  <2>1. (sum - 1) * Grain \in Nat
    BY <1>1, <1>6
  <2>2. Number(sum - 1) \in Nat /\ Number(sum - 1) <= (s - Grain) + Slip
    BY <1>1, <1>3, <2>1, NumberFacts DEF Number
  <2>3. sum - 1 # None
    BY <1>1
  <2> QED BY <1>1, <1>2, <2>2, <2>3 DEF InsufficientBalance
<1> QED BY <1>5, <1>6

LEMMA EntriesShown == DraftInv /\ TextInv => EntriesAreSummed
<1> SUFFICES ASSUME DraftInv, TextInv, mode = "single", mint # None,
                    EntriesFit(kind, entries, Decimals[mint], now)
             PROVE  EntriesAreSummed
  BY DEF EntriesAreSummed
<1> USE Types
<1> DEFINE d    == Decimals[mint]
           rows == RowsOf(kind, entries, recipient, d, now)
           sum  == Written(TotalOf(rows), d)
           raw  == [i \in DOMAIN rows |-> rows[i].amount]
           written == [i \in DOMAIN entries |-> IF entries[i].amount = None THEN 0 ELSE entries[i].amount]
           n    == Len(entries)
<1>1. /\ mint \in Tokens /\ entries \in Seq(Entry) /\ kind \in Pages /\ d \in 0 .. DefaultDecimals
      /\ n \in Nat \ {0} /\ DOMAIN entries = 1 .. n
  BY DEF DraftInv, TypeOK, TextInv
<1>2. ASSUME NEW i \in 1 .. n
      PROVE  /\ entries[i] \in Entry /\ EntryFits(kind, entries[i], d, now)
             /\ entries[i].amount \in Nat /\ entries[i].amount # None
             /\ Raw(entries[i].amount, d) \in Nat
             /\ Raw(entries[i].amount, d) * Unit = entries[i].amount * 10^d
  <2>1. entries[i] \in Entry /\ EntryFits(kind, entries[i], d, now)
    BY <1>1, <1>2 DEF EntriesFit
  <2>2. entries[i].amount \in Nat \cup {None} /\ ValidAmount(entries[i].amount, d)
    BY <2>1 DEF Entry, EntryFits
  <2> HIDE DEF d
  <2> QED BY <1>1, <2>1, <2>2, RawIsExact DEF ValidAmount
<1>3. /\ DOMAIN rows = 1 .. n /\ OfLength(rows, n)
      /\ \A i \in 1 .. n : rows[i].amount = Raw(entries[i].amount, d)
  BY <1>1 DEF RowsOf, Leaf, OfLength
<1>4. Len(rows) = n
  BY <1>1, <1>3, AsSequence
<1> HIDE DEF rows, d
<1>5. /\ OfLength(raw, n) /\ OfLength(written, n)
      /\ \A i \in 1 .. n : /\ raw[i] \in Nat /\ written[i] \in Nat
                           /\ raw[i] * Unit = written[i] * 10^d
  BY <1>1, <1>2, <1>3 DEF OfLength
<1>6. TotalOf(rows) = Added(raw)
  BY DEF TotalOf
<1> HIDE DEF raw
<1>7. sum \in Nat /\ Added(written) = sum
  <2> HIDE DEF written
  <2> QED BY <1>1, <1>5, <1>6, SumAsWritten
<1>8. PICK t : Added(written) = t[n] /\ SumsUp(t, written, n)
  <2> HIDE DEF written
  <2> QED BY <1>1, <1>5, AddedSumsUp
<1>9. PICK f : TotalAmount = f[n] /\ RoundsUp(f, written, n)
  <2>1. \A i \in 1 .. n : written[i] = IF entries[i].amount = None THEN 0 ELSE entries[i].amount
    BY <1>1
  <2> HIDE DEF written
  <2> QED BY <1>1, <2>1, TotalRoundsUp
<1> HIDE DEF sum, written
<1>10. ASSUME TotalAmount \in Nat PROVE TotalDeposit = TotalAmount /\ ShownDeposit = TotalAmount
  <2>1. SummaryMode = "single" => StreamCount = 1
    BY <1>1 DEF SummaryMode, StreamCount
  <2>2. Amount = TotalAmount /\ TotalAmount * 1 = TotalAmount
    BY <1>10 DEF Amount
  <2>3. TotalDeposit = TotalAmount
    BY <2>1, <2>2 DEF TotalDeposit
  <2> QED BY <2>3 DEF ShownDeposit
<1>11. GasFee = (IF Len(rows) = 1 THEN 1 ELSE 2)
  BY <1>1, <1>4 DEF GasFee, SummaryMode, StreamCount
<1>12. \A balance : CanSubmit(balance) <=> ~Busy /\ ~InsufficientBalance(balance)
  <2>1. \A i \in DOMAIN entries : FilledIn(entries[i])
    BY <1>1, <1>2 DEF FilledIn, EntryFits
  <2> QED BY <2>1 DEF CanSubmit
<1>13. CanSubmit(None) <=> ~Busy
  BY <1>12 DEF InsufficientBalance
<1> DEFINE off == RoundOff(n)
<1>14. ASSUME (sum + 1) * Grain + off <= Largest
       PROVE  /\ ShownDeposit <= sum * Grain + off /\ sum * Grain <= ShownDeposit + off
              /\ n = 1 => ShownDeposit = Number(sum) /\ (CanSubmit(sum) <=> ~Busy)
              /\ off < Grain => /\ CanSubmit(sum + 1) <=> ~Busy
                                /\ sum > 0 => ~CanSubmit(sum - 1)
  <2>1. Grain \in Nat /\ Slip \in Nat /\ Largest \in Nat
    BY NumberAssumption
  <2>2. PICK e \in Nat : e = (2 * n) * Slip
    BY <1>1, <2>1
  <2>3. off = e + Slip
    BY <1>1, <2>1, <2>2 DEF RoundOff
  <2> HIDE DEF off
  <2>4. PICK v \in Nat : v = sum * Grain
    BY <1>7, <2>1
  <2>5. (sum + 1) * Grain = v + Grain
    BY <1>7, <2>1, <2>4
  <2>6. t[n] * Grain + (2 * n) * Slip <= Largest
    <3>1. v + e <= Largest
      BY <1>14, <2>1, <2>3, <2>5
    <3>2. t[n] = sum
      BY <1>7, <1>8
    <3> QED BY <2>2, <2>4, <3>1, <3>2
  <2>7. \A i \in 1 .. n : written[i] \in Nat
    BY <1>5
  <2>8. /\ f[n] \in Nat /\ f[n] <= Largest
        /\ f[n] <= t[n] * Grain + (2 * n) * Slip
        /\ t[n] * Grain <= f[n] + (2 * n) * Slip
        /\ n = 1 => f[n] = Number(t[n])
    BY <1>1, <1>8, <1>9, <2>6, <2>7, RoundedSum
  <2>9. /\ TotalAmount \in Nat
        /\ TotalAmount <= v + e /\ v <= TotalAmount + e
        /\ n = 1 => TotalAmount = Number(sum)
    BY <1>7, <1>8, <1>9, <2>2, <2>4, <2>8
  <2>10. ASSUME n = 1 PROVE CanSubmit(sum) <=> ~Busy
    <3>1. ~InsufficientBalance(sum)
      BY <1>10, <2>9, <2>10 DEF InsufficientBalance
    <3> QED BY <1>12, <3>1
  <2>11. ASSUME off < Grain
         PROVE  ~InsufficientBalance(sum + 1) /\ (sum > 0 => InsufficientBalance(sum - 1))
    <3>1. /\ TotalDeposit \in Nat /\ (sum + 1) * Grain + e <= Largest
          /\ TotalDeposit <= sum * Grain + e /\ sum * Grain <= TotalDeposit + e
          /\ e + Slip < Grain
      BY <1>10, <1>14, <2>1, <2>3, <2>4, <2>5, <2>9, <2>11
    <3> QED BY <1>7, <3>1, Boundary
  <2> QED BY <1>10, <1>12, <2>1, <2>3, <2>4, <2>9, <2>10, <2>11
<1> HIDE DEF off
<1> QED BY <1>4, <1>11, <1>13, <1>14 DEF EntriesAreSummed, rows, sum, d, off

(* What is ready to be sent is what was made of the file. *)
LEMMA ReadyRows ==
    ASSUME DraftInv, txState.type = "ready"
    PROVE  /\ mode = "bulk" /\ mint \in Tokens /\ mint # None /\ csvResult # None /\ kind \in Pages
           /\ txState.rows \in Seq(Allocated) /\ txState.rows # <<>> /\ txState.rows = csvResult.rows
           /\ csvText \in Files[kind] /\ csvResult.mint \in Tokens
           /\ csvResult.rows = ParseBulkCsv(kind, csvText, Decimals[csvResult.mint])
           /\ kind # Milestone => csvResult.mint = mint
           /\ ReviewedLeaves = Prepared(txState.rows).leaves
           /\ Len(ReviewedLeaves) = Len(txState.rows) /\ Len(ReviewedLeaves) \in Nat \ {0}
           /\ ReviewedLeaves \in Seq(TreeLeaf) /\ ReviewedLeaves # <<>>
           /\ DOMAIN ReviewedLeaves = 1 .. Len(ReviewedLeaves)
           /\ \A i \in DOMAIN ReviewedLeaves : /\ txState.rows[i] \in Allocated
                                               /\ SameBut(ReviewedLeaves[i], txState.rows[i])
<1> DEFINE rows == txState.rows
           leaves == ReviewedLeaves
<1>1. /\ mode = "bulk" /\ mint \in Tokens /\ mint # None /\ csvResult # None /\ kind \in Pages
      /\ rows \in Seq(Allocated) /\ rows # <<>> /\ rows = csvResult.rows
      /\ csvText # None /\ csvText \in Files[kind] /\ csvResult.mint \in Tokens
      /\ csvResult.rows = ParseBulkCsv(kind, csvText, Decimals[csvResult.mint])
      /\ kind # Milestone => csvResult.mint = mint
  BY DEF DraftInv, TypeOK, FileRead, FileReady, Buildable, FitsTree, ParsedFile
<1>2. leaves = Prepared(rows).leaves
  BY DEF ReviewedLeaves
<1> HIDE DEF leaves, rows
<1>3. /\ leaves \in Seq(TreeLeaf) /\ DOMAIN leaves = DOMAIN rows
      /\ \A i \in DOMAIN rows : SameBut(leaves[i], rows[i])
  BY <1>1, <1>2, PreparedLeaves
<1>4. /\ Len(leaves) = Len(rows) /\ Len(leaves) \in Nat \ {0} /\ leaves # <<>>
      /\ DOMAIN leaves = 1 .. Len(leaves)
  BY <1>1, <1>3
<1>5. \A i \in DOMAIN leaves : rows[i] \in Allocated
  BY <1>1, <1>3
<1> QED BY <1>1, <1>2, <1>3, <1>4, <1>5 DEF leaves, rows

(* The line of a file, and what was made of it for the selected token.     *)
LEMMA ReadyAmounts ==
    ASSUME DraftInv, txState.type = "ready", NEW i \in DOMAIN ReviewedLeaves
    PROVE  \/ csvText[i].amount = Written(ReviewedLeaves[i].amount, Decimals[mint])
           \/ kind = Milestone /\ csvResult.mint # mint
<1> SUFFICES ASSUME csvResult.mint = mint
             PROVE  csvText[i].amount = Written(ReviewedLeaves[i].amount, Decimals[mint])
  BY ReadyRows
<1> DEFINE rows == csvResult.rows
           d    == Decimals[mint]
<1>1. /\ kind \in Pages /\ mint \in Tokens /\ csvText \in Files[kind]
      /\ rows = ParseBulkCsv(kind, csvText, Decimals[mint]) /\ rows # <<>>
      /\ i \in DOMAIN rows /\ ReviewedLeaves[i].amount = rows[i].amount /\ rows[i] \in Allocated
  BY ReadyRows DEF SameBut
<1>2. PICK token \in Tokens : token = mint
  BY <1>1
<1>3. /\ \A j \in DOMAIN csvText : RowFits(kind, d, csvText[j])
      /\ DOMAIN rows = DOMAIN csvText
  BY <1>1 DEF ParseBulkCsv
<1>4. csvText \in Seq(Row)
  BY <1>1, FormAssumption
<1>5. csvText[i] \in Row /\ ValidAmount(csvText[i].amount, d)
  BY <1>1, <1>3, <1>4 DEF RowFits
<1>6. csvText[i].amount \in Nat
  BY <1>5, Types DEF Row, ValidAmount
<1>7. rows[i].amount * Unit = csvText[i].amount * 10^d
  <2>1. rows = ParseBulkCsv(kind, csvText, Decimals[token])
    BY <1>1, <1>2
  <2>2. \A j \in DOMAIN rows : rows[j].amount * Unit = csvText[j].amount * 10^Decimals[token]
    BY <1>1, <2>1, FileBecomesRows
  <2> QED BY <1>1, <1>2, <2>2
<1>8. 10^d \in Nat \ {0}
  BY <1>1, Types, PowersOfTen
<1>9. (csvText[i].amount * 10^d) \div 10^d = csvText[i].amount
  <2>1. PICK p \in Nat \ {0} : p = 10^d
    BY <1>8
  <2>2. (csvText[i].amount * p) \div p = csvText[i].amount
    BY <1>6, Division
  <2> QED BY <2>1, <2>2
<1> QED BY <1>1, <1>7, <1>9 DEF Written

LEMMA FileShown == DraftInv => FileIsSummed
<1> SUFFICES ASSUME DraftInv, mode = "bulk", txState.type = "ready" PROVE FileIsSummed
  BY DEF FileIsSummed
<1> USE Types
<1> DEFINE leaves == ReviewedLeaves
           sum    == Written(TotalOf(leaves), Decimals[mint])
           n      == Len(leaves)
<1>1. /\ mint \in Tokens /\ mint # None /\ csvResult # None /\ csvResult.rows # <<>> /\ kind \in Pages
      /\ leaves # <<>> /\ leaves \in Seq(TreeLeaf)
      /\ n \in Nat \ {0} /\ DOMAIN leaves = 1 .. n /\ Len(csvResult.rows) = n
      /\ \A i \in 1 .. n : SameBut(leaves[i], csvResult.rows[i])
  BY ReadyRows
<1>2. StepStates = <<"done", "done", "done", "active">> /\ Banner = "no errors"
  BY <1>1 DEF StepStates, Banner, IsValid
<1>3. PICK m \in 0 .. n : PreviewLines = [i \in 1 .. m |->
        [beneficiary   |-> csvResult.rows[i].beneficiary, amount |-> csvText[i].amount,
         release_type  |-> csvResult.rows[i].release_type,
         milestone_idx |-> csvResult.rows[i].milestone_idx]]
  <2>1. PreviewRows \in Nat
    BY ReviewAssumption
  <2>2. Min({PreviewRows, n}) \in 0 .. n
    BY <1>1, <2>1 DEF Min
  <2> QED BY <1>1, <2>2 DEF PreviewLines
<1>4. Len(PreviewLines) = m /\ DOMAIN PreviewLines = 1 .. m
  <2>1. OfLength(PreviewLines, m) /\ m \in Nat
    BY <1>1, <1>3 DEF OfLength
  <2> HIDE DEF leaves
  <2> QED BY <2>1, AsSequence
<1>5. Len(PreviewLines) + MoreLines = n
  BY <1>1, <1>4 DEF MoreLines
<1>6. ASSUME NEW i \in DOMAIN PreviewLines
      PROVE  /\ PreviewLines[i].beneficiary = leaves[i].beneficiary
             /\ \/ PreviewLines[i].amount = Written(leaves[i].amount, Decimals[mint])
                \/ kind = Milestone /\ csvResult.mint # mint
  <2>1. i \in 1 .. n /\ i \in DOMAIN ReviewedLeaves
    BY <1>1, <1>4
  <2>2. PreviewLines[i].beneficiary = csvResult.rows[i].beneficiary /\ PreviewLines[i].amount = csvText[i].amount
    BY <1>3, <1>4
  <2>3. leaves[i].beneficiary = csvResult.rows[i].beneficiary
    BY <1>1, <2>1 DEF SameBut
  <2> QED BY <2>1, <2>2, <2>3, ReadyAmounts
<1>7. sum \in Nat
  <2>1. /\ OfLength([i \in DOMAIN leaves |-> leaves[i].amount], n)
        /\ \A i \in 1 .. n : [j \in DOMAIN leaves |-> leaves[j].amount][i] \in Nat
    <3>1. \A i \in 1 .. n : leaves[i] \in TreeLeaf
      BY <1>1
    <3> HIDE DEF leaves
    <3> QED BY <1>1, <3>1 DEF OfLength, TreeLeaf
  <2>2. TotalOf(leaves) \in Nat
    <3>1. PICK a : a = [i \in DOMAIN leaves |-> leaves[i].amount]
      OBVIOUS
    <3>2. OfLength(a, n) /\ \A i \in 1 .. n : a[i] \in Nat
      BY <2>1, <3>1
    <3>3. Added(a) \in Nat
      BY <1>1, <3>2, AddedIsNatural
    <3> QED BY <3>1, <3>3 DEF TotalOf
  <2> QED BY <1>1, <2>2, WrittenAndRead
<1>8. ShownDeposit = CampaignSummary.totalSupply * Grain
      /\ CampaignSummary.totalSupply = FormatTokenAmount(TotalOf(leaves), Decimals[mint])
  BY <1>1 DEF ShownDeposit, BulkReview, CampaignSummary, PreviewTotal
<1>9. CampaignSummary.totalSupply \in (sum - Place + 1) .. sum
  <2>1. Place \in Nat \ {0}
    <3>1. DefaultDecimals - ShownDecimals \in 0 .. DefaultDecimals
      BY ReviewAssumption
    <3> QED BY <3>1, PowersOfTen DEF Place
  <2>2. FormatTokenAmount(TotalOf(leaves), Decimals[mint]) = sum - (sum % Place)
    BY DEF FormatTokenAmount
  <2> HIDE DEF sum
  <2>3. sum % Place \in 0 .. (Place - 1)
    BY <1>7, <2>1
  <2> QED BY <1>7, <1>8, <2>1, <2>2, <2>3
<1>10. \A i \in DOMAIN leaves : leaves[i].release_type = kind
  <2>1. PICK token \in Tokens : token = csvResult.mint
    BY ReadyRows
  <2>2. /\ csvText \in Files[kind] /\ csvResult.rows = ParseBulkCsv(kind, csvText, Decimals[token])
    BY <2>1, ReadyRows
  <2>3. \A i \in DOMAIN csvResult.rows : ReadAs(kind, csvResult.rows[i], csvText[i])
    BY <1>1, <2>2, FileIsRead
  <2>4. DOMAIN csvResult.rows = 1 .. n
    BY <1>1, ReadyRows
  <2> QED BY <1>1, <2>3, <2>4 DEF ReadAs, SameBut
<1>11. ReleaseTypeLabel = kind
  <2>1. \A type \in Pages : OfType(type) = DOMAIN ReviewedLeaves <=> type = kind
    BY <1>1, <1>10 DEF OfType
  <2> QED BY <1>1, <2>1 DEF ReleaseTypeLabel
<1>12. CampaignSummary.counts = <<>>
  <2>1. {t \in Pages : OfType(t) # {} /\ t # ReleaseTypeLabel} = {}
    BY <1>10, <1>11 DEF OfType
  <2> QED BY <2>1 DEF CampaignSummary
<1>13. TotalDeposit = Number(sum) /\ ~Busy
  BY <1>1 DEF TotalDeposit, SummaryMode, Amount, Busy
<1> HIDE DEF sum
<1>14. \A balance : CanSubmit(balance) <=> ~InsufficientBalance(balance)
  BY <1>13 DEF CanSubmit
<1>15. CanSubmit(None)
  BY <1>14 DEF InsufficientBalance
<1>16. ASSUME (sum + 1) * Grain <= Largest
       PROVE  /\ CanSubmit(sum)
              /\ RoundOff(1) < Grain => CanSubmit(sum + 1) /\ (sum > 0 => ~CanSubmit(sum - 1))
  <2>1. Grain \in Nat /\ Slip \in Nat /\ Largest \in Nat
    BY NumberAssumption
  <2>2. PICK v \in Nat : v = sum * Grain /\ (sum + 1) * Grain = v + Grain
    BY <1>7, <2>1
  <2>3. /\ Number(sum) \in Nat /\ Number(sum) <= v + Slip /\ v <= Number(sum) + Slip
    BY <1>16, <2>1, <2>2, NumberFacts DEF Number
  <2>4. CanSubmit(sum)
    BY <1>13, <1>14, <2>3 DEF InsufficientBalance
  <2>5. ASSUME RoundOff(1) < Grain
        PROVE  ~InsufficientBalance(sum + 1) /\ (sum > 0 => InsufficientBalance(sum - 1))
    <3>1. 3 * Slip < Grain
      BY <2>1, <2>5 DEF RoundOff
    <3>2. Number(sum + 1) \in Nat /\ v + Grain <= Number(sum + 1) + Slip
      BY <1>16, <2>1, <2>2, NumberFacts DEF Number
    <3>3. ~InsufficientBalance(sum + 1)
      BY <1>13, <2>1, <2>3, <3>1, <3>2 DEF InsufficientBalance
    <3>4. ASSUME sum > 0 PROVE InsufficientBalance(sum - 1)
      <4>1. PICK w \in Nat : w = (sum - 1) * Grain /\ w = v - Grain
        BY <1>7, <2>1, <2>2, <3>4
      <4>2. Number(sum - 1) \in Nat /\ Number(sum - 1) <= w + Slip
        BY <1>16, <2>1, <2>2, <4>1, NumberFacts DEF Number
      <4>3. sum - 1 # None
        BY <1>7, AllocationAssumption
      <4>4. Number(sum) > Number(sum - 1) /\ Number(sum) > 0
        <5>1. PICK x \in Nat : x = Number(sum) /\ v <= x + Slip
          BY <2>3
        <5>2. PICK y \in Nat : y = Number(sum - 1) /\ y <= w + Slip
          BY <4>2
        <5>3. w = v - Grain
          BY <4>1
        <5>4. x > y
          BY <2>1, <3>1, <5>1, <5>2, <5>3
        <5> QED BY <5>1, <5>2, <5>4
      <4> QED BY <1>13, <4>3, <4>4 DEF InsufficientBalance
    <3> QED BY <3>3, <3>4
  <2> QED BY <1>14, <2>4, <2>5
<1>17. (sum + 1) * Grain <= Largest =>
         /\ CanSubmit(sum)
         /\ RoundOff(1) < Grain => CanSubmit(sum + 1) /\ (sum > 0 => ~CanSubmit(sum - 1))
  BY <1>16
<1>18. ShownDeposit = CampaignSummary.totalSupply * Grain
  BY <1>8
<1> QED BY <1>2, <1>5, <1>6, <1>9, <1>11, <1>12, <1>15, <1>17, <1>18, Zenon DEF FileIsSummed, sum

(* Of a file that is in its field, what is shown has the times.            *)
AtTheTimesOf(leaf, row) ==
    /\ leaf.start_time = row.start_time /\ leaf.cliff_time = row.cliff_time
    /\ leaf.end_time = row.end_time
    /\ WellFormed(row) /\ (kind # Linear => row.end_time = row.cliff_time)

LEMMA FileRows ==
    ASSUME DraftInv, csvResult # None, csvResult.rows # <<>>
    PROVE  /\ csvText # None /\ DOMAIN csvResult.rows = DOMAIN csvText
           /\ \A i \in DOMAIN csvResult.rows : ReadAs(kind, csvResult.rows[i], csvText[i])
<1>1. /\ csvText # None /\ kind \in Pages /\ csvText \in Files[kind] /\ csvResult.mint \in Tokens
      /\ csvResult.rows = ParseBulkCsv(kind, csvText, Decimals[csvResult.mint])
  BY DEF DraftInv, TypeOK, FileRead, ParsedFile
<1>2. PICK token \in Tokens : token = csvResult.mint
  BY <1>1
<1>3. PICK rows : rows = csvResult.rows /\ rows = ParseBulkCsv(kind, csvText, Decimals[token])
  BY <1>1, <1>2
<1>4. DOMAIN rows = DOMAIN csvText /\ \A i \in DOMAIN rows : ReadAs(kind, rows[i], csvText[i])
  BY <1>1, <1>3, FileIsRead
<1> QED BY <1>1, <1>3, <1>4

LEMMA ShownLeaves ==
    ASSUME DraftInv, TextInv, ReviewedLeaves # <<>>
    PROVE  /\ ReviewedLeaves \in Seq(TreeLeaf) /\ Len(ReviewedLeaves) \in Nat \ {0}
           /\ DOMAIN ReviewedLeaves = 1 .. Len(ReviewedLeaves) /\ kind \in Pages
           /\ \A i \in DOMAIN ReviewedLeaves : /\ ReviewedLeaves[i] \in TreeLeaf
                                               /\ ReviewedLeaves[i].release_type = kind
           /\ csvResult # None /\ csvResult.rows # <<>> =>
                /\ DOMAIN csvResult.rows = DOMAIN ReviewedLeaves
                /\ \A i \in DOMAIN ReviewedLeaves :
                     AtTheTimesOf(ReviewedLeaves[i], csvResult.rows[i])
<1> DEFINE leaves == ReviewedLeaves
           rows   == csvResult.rows
<1>1. kind \in Pages
  BY DEF DraftInv, TypeOK
<1>2. CASE txState.type = "ready"
  <2>1. /\ csvResult # None /\ rows # <<>> /\ txState.rows = rows
        /\ leaves \in Seq(TreeLeaf) /\ Len(leaves) \in Nat \ {0} /\ DOMAIN leaves = 1 .. Len(leaves)
        /\ Len(leaves) = Len(rows) /\ rows \in Seq(Allocated)
        /\ \A i \in DOMAIN leaves : SameBut(leaves[i], rows[i])
    BY <1>2, ReadyRows
  <2>2. DOMAIN rows = DOMAIN leaves
    BY <2>1
  <2>3. \A i \in DOMAIN rows : ReadAs(kind, rows[i], csvText[i])
    BY <2>1, FileRows
  <2> HIDE DEF leaves, rows
  <2>4. \A i \in DOMAIN leaves : leaves[i] \in TreeLeaf /\ leaves[i].release_type = kind
    BY <2>1, <2>2, <2>3 DEF ReadAs, SameBut
  <2>5. \A i \in DOMAIN leaves : AtTheTimesOf(leaves[i], rows[i])
    BY <2>1, <2>2, <2>3 DEF ReadAs, SameBut, AtTheTimesOf
  <2> QED BY <1>1, <2>1, <2>2, <2>4, <2>5 DEF leaves, rows
<1>3. CASE txState.type \in {"unfunded", "funded"}
  <2>1. leaves = chain.leaves /\ Noted
    BY <1>3 DEF ReviewedLeaves, TextInv
  <2>2. /\ leaves \in Seq(TreeLeaf) /\ PayableRows(kind, leaves, chain.shown)
        /\ TimedRows(kind, leaves, chain.shown) /\ OfText(chain.shown)
    BY <2>1 DEF Noted, AsCreated, AccountOf
  <2> HIDE DEF leaves
  <2>3. Len(leaves) \in Nat \ {0} /\ DOMAIN leaves = 1 .. Len(leaves)
    BY <2>2 DEF leaves
  <2>4. \A i \in DOMAIN leaves : leaves[i] \in TreeLeaf /\ leaves[i].release_type = kind
    BY <2>2 DEF PayableRows
  <2>5. ASSUME csvResult # None, rows # <<>>
        PROVE  DOMAIN rows = DOMAIN leaves /\ \A i \in DOMAIN leaves : AtTheTimesOf(leaves[i], rows[i])
    <3>1. /\ csvText # None /\ DOMAIN rows = DOMAIN csvText
          /\ \A i \in DOMAIN rows : ReadAs(kind, rows[i], csvText[i])
      BY <2>5, FileRows
    <3>2. chain.shown.mode = "bulk" /\ chain.shown.times = csvText
      BY <2>2, <3>1 DEF OfText
    <3> HIDE DEF rows
    <3>3. /\ DOMAIN leaves = DOMAIN csvText
          /\ \A i \in DOMAIN leaves :
               /\ leaves[i].start_time = RowTimes(kind, csvText[i]).start
               /\ leaves[i].cliff_time = RowTimes(kind, csvText[i]).cliff
               /\ leaves[i].end_time = RowTimes(kind, csvText[i]).end
      BY <2>2, <3>2 DEF TimedRows
    <3> QED BY <1>1, <3>1, <3>3 DEF ReadAs, AtTheTimesOf
  <2> QED BY <1>1, <2>2, <2>3, <2>4, <2>5 DEF leaves, rows
<1>4. CASE txState.type \notin {"ready", "unfunded", "funded"}
  BY <1>4 DEF ReviewedLeaves
<1> QED BY <1>2, <1>3, <1>4

(* Nothing vests before any of the times, and everything has after all.    *)
LEMMA VestsWithin ==
    ASSUME NEW leaf \in TreeLeaf, WellFormed(leaf), NEW earliest \in Nat, NEW latest \in Nat,
           earliest <= leaf.start_time \/ (leaf.release_type # Linear /\ earliest <= leaf.cliff_time),
           leaf.end_time <= latest
    PROVE  Vested(leaf, earliest - 1) = 0 /\ Vested(leaf, latest) = leaf.amount
<1>1. /\ leaf.start_time \in Nat /\ leaf.cliff_time \in Nat /\ leaf.end_time \in Nat
      /\ leaf.start_time <= leaf.cliff_time /\ leaf.cliff_time <= leaf.end_time
      /\ leaf.release_type \in {Cliff, Linear, Milestone}
  BY DEF TreeLeaf, WellFormed
<1> QED BY <1>1, Types DEF Vested

LEMMA SpanShown == DraftInv /\ TextInv => SpanIsRight
<1> SUFFICES ASSUME DraftInv, TextInv, ReviewedLeaves # <<>> PROVE SpanIsRight
  BY DEF SpanIsRight
<1> USE Types
<1> DEFINE leaves == ReviewedLeaves
           rows   == csvResult.rows
           n      == Len(leaves)
           starts == {leaves[i].start_time : i \in 1 .. n}
           ends   == {leaves[i].end_time : i \in 1 .. n}
           cliffs == {leaves[i].cliff_time : i \in 1 .. n}
           Spans(earliest, latest) ==
                \A i \in DOMAIN leaves : WellFormed(leaves[i]) =>
                    /\ Vested(leaves[i], earliest - 1) = 0
                    /\ Vested(leaves[i], latest) = leaves[i].amount
<1>1. /\ n \in Nat \ {0} /\ DOMAIN leaves = 1 .. n /\ kind \in Pages
      /\ \A i \in 1 .. n : leaves[i] \in TreeLeaf /\ leaves[i].release_type = kind
      /\ csvResult # None /\ rows # <<>> =>
           DOMAIN rows = 1 .. n /\ \A i \in 1 .. n : AtTheTimesOf(leaves[i], rows[i])
  BY ShownLeaves
<1>2. EarliestStart = Min(starts) /\ LatestEnd = Max(ends)
  BY <1>1 DEF EarliestStart, LatestEnd
<1> HIDE DEF leaves, rows, n
<1>3. \A i \in 1 .. n : /\ leaves[i].start_time \in Nat /\ leaves[i].cliff_time \in Nat
                        /\ leaves[i].end_time \in Nat
  BY <1>1 DEF TreeLeaf
<1>4. Min(starts) \in starts /\ \A i \in 1 .. n : Min(starts) <= leaves[i].start_time
  <2>1. PICK f : f = [i \in 1 .. n |-> leaves[i].start_time]
    OBVIOUS
  <2>2. \A i \in 1 .. n : f[i] \in Nat /\ f[i] = leaves[i].start_time
    BY <1>3, <2>1
  <2> DEFINE seen == {f[i] : i \in 1 .. n}
  <2>3. starts = seen
    BY <2>2
  <2>4. Min(seen) \in seen /\ \A i \in 1 .. n : Min(seen) <= f[i]
    BY <1>1, <2>2, Extremes
  <2> HIDE DEF starts, seen
  <2> QED BY <2>2, <2>3, <2>4
<1>5. Max(ends) \in ends /\ \A i \in 1 .. n : leaves[i].end_time <= Max(ends)
  <2>1. PICK f : f = [i \in 1 .. n |-> leaves[i].end_time]
    OBVIOUS
  <2>2. \A i \in 1 .. n : f[i] \in Nat /\ f[i] = leaves[i].end_time
    BY <1>3, <2>1
  <2> DEFINE seen == {f[i] : i \in 1 .. n}
  <2>3. ends = seen
    BY <2>2
  <2>4. Max(seen) \in seen /\ \A i \in 1 .. n : f[i] <= Max(seen)
    BY <1>1, <2>2, Extremes
  <2> HIDE DEF ends, seen
  <2> QED BY <2>2, <2>3, <2>4
<1>6. Min(cliffs) \in cliffs /\ \A i \in 1 .. n : Min(cliffs) <= leaves[i].cliff_time
  <2>1. PICK f : f = [i \in 1 .. n |-> leaves[i].cliff_time]
    OBVIOUS
  <2>2. \A i \in 1 .. n : f[i] \in Nat /\ f[i] = leaves[i].cliff_time
    BY <1>3, <2>1
  <2> DEFINE seen == {f[i] : i \in 1 .. n}
  <2>3. cliffs = seen
    BY <2>2
  <2>4. Min(seen) \in seen /\ \A i \in 1 .. n : Min(seen) <= f[i]
    BY <1>1, <2>2, Extremes
  <2> HIDE DEF cliffs, seen
  <2> QED BY <2>2, <2>3, <2>4
<1>7. Min(starts) \in Nat /\ Max(ends) \in Nat /\ Min(cliffs) \in Nat
  BY <1>3, <1>4, <1>5, <1>6
<1>8. Spans(EarliestStart, LatestEnd)
  <2> SUFFICES ASSUME NEW i \in 1 .. n, WellFormed(leaves[i])
               PROVE  /\ Vested(leaves[i], Min(starts) - 1) = 0
                      /\ Vested(leaves[i], Max(ends)) = leaves[i].amount
    BY <1>1, <1>2
  <2> HIDE DEF starts, ends
  <2> QED BY <1>1, <1>4, <1>5, <1>7, VestsWithin
<1>9. ASSUME ScheduleMetrics # None
      PROVE  /\ Spans(ScheduleMetrics.earliest, ScheduleMetrics.latest)
             /\ ScheduleMetrics.latest = LatestEnd
             /\ ScheduleMetrics.earliest >= EarliestStart
             /\ kind # Milestone => ScheduleMetrics.earliest = EarliestStart
  <2>1. csvResult # None /\ rows # <<>>
    BY <1>9 DEF ScheduleMetrics, IsValid, rows
  <2>2. DOMAIN rows = 1 .. n /\ \A i \in 1 .. n : AtTheTimesOf(leaves[i], rows[i])
    BY <1>1, <2>1
  <2>3. ScheduleMetrics =
          [earliest |-> Min({IF kind = Milestone THEN rows[i].cliff_time ELSE rows[i].start_time :
                                i \in DOMAIN rows}),
           latest |-> Max({IF kind = Milestone THEN rows[i].cliff_time ELSE rows[i].end_time :
                                i \in DOMAIN rows})]
    BY <1>9 DEF ScheduleMetrics, rows
  <2>4. {IF kind = Milestone THEN rows[i].cliff_time ELSE rows[i].start_time : i \in DOMAIN rows}
          = IF kind = Milestone THEN cliffs ELSE starts
    BY <2>2 DEF AtTheTimesOf
  <2>5. {IF kind = Milestone THEN rows[i].cliff_time ELSE rows[i].end_time : i \in DOMAIN rows} = ends
    BY <2>2 DEF AtTheTimesOf
  <2> HIDE DEF starts, ends, cliffs
  <2>6. /\ ScheduleMetrics.earliest = (IF kind = Milestone THEN Min(cliffs) ELSE Min(starts))
        /\ ScheduleMetrics.latest = Max(ends)
    BY <2>3, <2>4, <2>5
  <2>7. Min(starts) <= Min(cliffs)
    <3>1. PICK i \in 1 .. n : Min(cliffs) = leaves[i].cliff_time
      BY <1>6 DEF cliffs
    <3>2. leaves[i].start_time <= leaves[i].cliff_time
      BY <2>2 DEF AtTheTimesOf, WellFormed
    <3> QED BY <1>3, <1>4, <1>7, <3>1, <3>2
  <2>8. CASE kind = Milestone
    <3>1. ASSUME NEW i \in 1 .. n, WellFormed(leaves[i])
          PROVE  /\ Vested(leaves[i], Min(cliffs) - 1) = 0
                 /\ Vested(leaves[i], Max(ends)) = leaves[i].amount
      BY <1>1, <1>5, <1>6, <1>7, <2>8, <3>1, VestsWithin
    <3> QED BY <1>1, <1>2, <1>7, <2>6, <2>7, <2>8, <3>1
  <2>9. CASE kind # Milestone
    BY <1>2, <1>7, <1>8, <2>6, <2>9
  <2> QED BY <2>8, <2>9
<1> QED BY <1>8, <1>9 DEF SpanIsRight, leaves

(* ------------------------ what the trees hold --------------------------- *)

LEMMA TreesSound == DraftInv => ProofsAreExact
<1> SUFFICES ASSUME DraftInv PROVE ProofsAreExact
  OBVIOUS
<1>1. ASSUME NEW rows, rows \in Seq(Allocated), Buildable(rows)
      PROVE  /\ Exact(Prepared(rows).leaves) /\ Agrees(rows)
             /\ PreparedAlike(rows) /\ NoRowRefused(rows) /\ ImportFitsPrepare(rows)
  <2>1. rows # <<>> /\ FitsTree(rows)
    BY <1>1 DEF Buildable, FitsTree
  <2>2. Exact(Prepared(rows).leaves)
    <3>1. PICK leaves : leaves = Prepared(rows).leaves
      OBVIOUS
    <3>2. /\ leaves \in Seq(TreeLeaf) /\ leaves # <<>>
          /\ \A i \in DOMAIN leaves : leaves[i].leaf_index = i - 1
      BY <1>1, <2>1, <3>1, NumberedAre
    <3> QED BY <3>1, <3>2, TreesAreExact
  <2>3. Agrees(rows)
    BY <1>1, <2>1, RowsAgree
  <2>4. PreparedAlike(rows) /\ NoRowRefused(rows) /\ ImportFitsPrepare(rows)
    BY <1>1, <2>1, AllPrepareAlike, NoneRefused, ImportsFit
  <2> QED BY <2>2, <2>3, <2>4
<1>2. flow # None /\ flow.step = "creating" => flow.rows \in Seq(Allocated) /\ Buildable(flow.rows)
  BY DEF DraftInv, TypeOK, FlowType, FlowSound
<1>3. editor # None /\ editor.sending # None => editor.sending.rows \in Seq(Allocated)
  BY DEF DraftInv, TypeOK, PageType
<1> QED BY <1>1, <1>2, <1>3 DEF ProofsAreExact

(* What the pages, the server and the program make of the same rows, and   *)
(* what the pages show of them, agrees: whatever is typed in or pasted, for *)
(* any tokens and decimals, and however deep a tree may be.                *)
THEOREM PagesAlwaysAgree == Spec => []PagesAgree
<1>1. Init => DraftInv /\ TextInv
  BY DraftInvInit, TextInvInit
<1>2. DraftInv /\ TextInv /\ [Next]_<<vars, editor, stored>> => (DraftInv /\ TextInv)'
  BY DraftInvNext, TextInvNext
<1>3. DraftInv /\ TextInv => PagesAgree
  BY TreesSound, EntriesShown, FileShown, SpanShown DEF PagesAgree, ReviewTells
<1> QED BY <1>1, <1>2, <1>3, PTL DEF Spec
==============================================================================
