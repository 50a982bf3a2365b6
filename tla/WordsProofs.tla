---------------------------- MODULE WordsProofs -----------------------------
(***************************************************************************)
(* Proofs about the head of execute_cmd, for every size of the buffer and  *)
(* of cmd, every line and whatever lies behind the buffer.  Bytes are      *)
(* counted from 0 as in the code, the positions of a text from 1.          *)
(***************************************************************************)
EXTENDS Words, FiniteSetTheorems, SequenceTheorems, WellFoundedInduction, TLAPS

\* The last byte that a search for the end of the line can come to.
Top == KEYBOARD_BUFFER_SIZE + Len(Behind) - 1

\* What the assumption says of the sizes.
LEMMA Sizes ==
    /\ KEYBOARD_BUFFER_SIZE \in Nat /\ KEYBOARD_BUFFER_SIZE > 1
    /\ Rows \in Nat /\ Columns \in Nat /\ Rows > 1 /\ Columns >= FullName
    /\ NameLength \in Nat /\ ExtLength \in Nat /\ NameLength > 0 /\ ExtLength > 0
    /\ FullName \in Nat /\ FullName = NameLength + ExtLength + 1
    /\ Top \in Nat /\ Top > KEYBOARD_BUFFER_SIZE
<1>1. KEYBOARD_BUFFER_SIZE \in Nat /\ Rows \in Nat /\ Columns \in Nat
      /\ NameLength \in Nat \ {0} /\ ExtLength \in Nat \ {0}
  BY WordsAssumption
<1>2. KEYBOARD_BUFFER_SIZE > 1 /\ Rows > 1 /\ Columns >= FullName
  BY WordsAssumption
<1> DEFINE n == Len(Behind)
<1>3. n \in Nat /\ n > 1
  BY WordsAssumption, LenProperties
<1>4. Top = KEYBOARD_BUFFER_SIZE + n - 1
  BY DEF Top
<1> HIDE DEF n
<1>5. Top \in Nat /\ Top > KEYBOARD_BUFFER_SIZE
  BY <1>1, <1>3, <1>4
<1>6. FullName = NameLength + ExtLength + 1 /\ FullName \in Nat /\ NameLength > 0 /\ ExtLength > 0
  BY <1>1 DEF FullName
<1>7. QED
  BY <1>1, <1>2, <1>5, <1>6

\* What the assumption says of the bytes.
LEMMA Bytes ==
    /\ NUL \in Chars /\ Space \in Chars /\ "/" \in Chars /\ "." \in Chars
    /\ NUL # Space /\ NUL # "/" /\ NUL # "." /\ Space # "/" /\ Space # "." /\ "/" # "."
<1>1. Space # "/" /\ Space # "." /\ "/" # "."
  BY Zenon DEF Space
<1>2. QED
  BY <1>1, WordsAssumption DEF Chars

\* The first and the last byte behind the buffer.
LEMMA BehindEnds ==
    /\ \A p \in KEYBOARD_BUFFER_SIZE .. Top : Behind[p - KEYBOARD_BUFFER_SIZE + 1] \in Chars
    /\ Behind[1] # Space /\ Behind[1] # NUL
    /\ Behind[Top - KEYBOARD_BUFFER_SIZE + 1] = NUL
<1>1. Behind \in Seq(Chars) /\ Len(Behind) > 1 /\ S!Last(Behind) = NUL /\ Head(Behind) \notin {Space, NUL}
  BY WordsAssumption
<1>2. Len(Behind) \in Nat /\ Behind \in [1 .. Len(Behind) -> Chars]
  BY <1>1, LenProperties
<1>3. Head(Behind) = Behind[1]
  OBVIOUS
<1>4. Behind[Len(Behind)] = NUL
  BY <1>1 DEF S!Last
<1> DEFINE n == Len(Behind)
<1>5. n \in Nat /\ n > 1 /\ Behind \in [1 .. n -> Chars] /\ Behind[n] = NUL
  BY <1>1, <1>2, <1>4
<1>6. Top = KEYBOARD_BUFFER_SIZE + n - 1
  BY DEF Top
<1> HIDE DEF n
<1>7. \A p \in KEYBOARD_BUFFER_SIZE .. Top : p - KEYBOARD_BUFFER_SIZE + 1 \in 1 .. n
  BY <1>5, <1>6, Sizes
<1>8. Top - KEYBOARD_BUFFER_SIZE + 1 = n
  BY <1>5, <1>6, Sizes
<1>9. Behind[1] # Space /\ Behind[1] # NUL
  BY <1>1, <1>3
<1>10. QED
  BY <1>5, <1>7, <1>8, <1>9

(***************************************************************************)
(* Induction over the naturals, on sets.                                   *)
(***************************************************************************)
\* A set of naturals that has an element has a least one.
LEMMA LeastNatural ==
    ASSUME NEW T \in SUBSET Nat, T # {}
    PROVE  \E m \in T : \A n \in T : m <= n
<1> DEFINE R == {x \in Nat \X Nat : x[1] < x[2]}
<1>1. IsWellFoundedOn(R, Nat)
  BY NatLessThanWellFounded DEF OpToRel
<1>2. PICK m \in T : \A n \in T : ~(<<n, m>> \in R)
  <2> HIDE DEF R
  <2>1. QED
    BY <1>1, WFMin
<1>3. ASSUME NEW n \in T PROVE m <= n
  <2>1. ~(<<n, m>> \in R)
    BY <1>2
  <2>2. ~(n < m)
    BY <2>1
  <2>3. QED
    BY <2>2
<1>4. QED
  BY <1>3

\* A set that holds 0 and the successor of each natural it holds has them all.
LEMMA InductiveSet ==
    ASSUME NEW T, 0 \in T, \A n \in Nat : n \in T => n + 1 \in T
    PROVE  Nat \subseteq T
<1> SUFFICES ASSUME ~(Nat \subseteq T) PROVE FALSE
  OBVIOUS
<1>1. PICK m \in Nat \ T : \A n \in Nat \ T : m <= n
  BY LeastNatural
<1>2. m # 0 /\ m - 1 \in Nat
  BY <1>1
<1>3. m - 1 \in T
  BY <1>1, <1>2
<1>4. QED
  BY <1>1, <1>2, <1>3

\* The value that is handed from one number to the next, as a function.
IsFold(F, v, g, m) == F = [n \in 0 .. m |-> IF n = 0 THEN v ELSE g[<<n, F[n - 1]>>]]

\* There is such a function.
LEMMA FoldExists ==
    ASSUME NEW V, NEW v \in V, NEW g \in [Nat \X V -> V], NEW m \in Nat
    PROVE  \E F \in [0 .. m -> V] : IsFold(F, v, g, m)
<1> DEFINE T == {k \in Nat : \E F \in [0 .. k -> V] : IsFold(F, v, g, k)}
<1>1. 0 \in T
  <2>1. IsFold([n \in 0 .. 0 |-> v], v, g, 0)
    BY DEF IsFold
  <2>2. QED
    BY <2>1
<1>2. ASSUME NEW k \in Nat, k \in T
      PROVE  k + 1 \in T
  <2>1. PICK F \in [0 .. k -> V] : IsFold(F, v, g, k)
    BY <1>2
  <2> DEFINE G == [n \in 0 .. k + 1 |-> IF n = k + 1 THEN g[<<n, F[k]>>] ELSE F[n]]
  <2>2. G \in [0 .. k + 1 -> V]
    BY <2>1
  <2>3. ASSUME NEW n \in 0 .. k + 1
        PROVE  G[n] = IF n = 0 THEN v ELSE g[<<n, G[n - 1]>>]
    <3>1. CASE n = k + 1
      <4>1. G[n - 1] = F[k] /\ n # 0
        BY <3>1
      <4>2. QED
        BY <3>1, <4>1
    <3>2. CASE n # k + 1
      <4>1. n \in 0 .. k /\ G[n] = F[n] /\ (n # 0 => G[n - 1] = F[n - 1])
        BY <3>2
      <4>2. F[n] = IF n = 0 THEN v ELSE g[<<n, F[n - 1]>>]
        BY <2>1, <4>1 DEF IsFold
      <4>3. QED
        BY <4>1, <4>2
    <3>3. QED
      BY <3>1, <3>2
  <2>4. IsFold(G, v, g, k + 1)
    <3>1. G = [n \in 0 .. k + 1 |-> G[n]]
      OBVIOUS
    <3> HIDE DEF G
    <3>2. QED
      BY <2>3, <3>1 DEF IsFold
  <2>5. k + 1 \in Nat
    OBVIOUS
  <2> HIDE DEF G
  <2>6. QED
    BY <2>2, <2>4, <2>5
<1>3. Nat \subseteq T
  <2> HIDE DEF T
  <2>1. QED
    BY <1>1, <1>2, InductiveSet
<1>4. QED
  BY <1>3

(***************************************************************************)
(* Strings in arrays                                                       *)
(***************************************************************************)
\* The string at a has n bytes, which are those of t.
Holds(f, a, t) ==
    /\ a + Len(t) \in DOMAIN f /\ f[a + Len(t)] = NUL
    /\ \A k \in 1 .. Len(t) : t[k] = f[a + k - 1] /\ t[k] # NUL

\* An array of bytes holds one string at a place, and StringAt is that.
LEMMA StringIs ==
    ASSUME NEW f, NEW a \in Int, NEW t \in Seq(Chars), DOMAIN f \subseteq Int, Holds(f, a, t)
    PROVE  StringAt(f, a) = t
<1>1. Len(t) \in Nat /\ t = [k \in 1 .. Len(t) |-> t[k]]
  OBVIOUS
<1> DEFINE P(p) == p >= a /\ f[p] = NUL /\ \A q \in a .. p - 1 : f[q] # NUL
           e == CHOOSE p \in DOMAIN f : P(p)
<1>2. P(a + Len(t))
  <2>1. ASSUME NEW q \in a .. a + Len(t) - 1 PROVE f[q] # NUL
    <3>1. q - a + 1 \in 1 .. Len(t) /\ a + (q - a + 1) - 1 = q
      BY <1>1
    <3>2. QED
      BY <3>1 DEF Holds
  <2>2. QED
    BY <1>1, <2>1 DEF Holds
<1>3. e \in DOMAIN f /\ P(e)
  BY <1>2 DEF Holds
<1>4. e = a + Len(t)
  <2> DEFINE z == a + Len(t)
  <2> HIDE DEF e
  <2>1. e \in Int /\ z \in Int
    BY <1>1, <1>3
  <2>2. e >= a /\ z >= a /\ f[e] = NUL /\ f[z] = NUL
        /\ (\A q \in a .. e - 1 : f[q] # NUL) /\ (\A q \in a .. z - 1 : f[q] # NUL)
    BY <1>2, <1>3
  <2> HIDE DEF z, P
  <2>3. ~(e < z) /\ ~(z < e)
    BY <2>1, <2>2
  <2>4. e = z
    BY <2>1, <2>3
  <2>5. QED
    BY <2>4 DEF z
<1>5. StringAt(f, a) = [k \in 1 .. Len(t) |-> f[a + k - 1]]
  <2>1. StringAt(f, a) = [k \in 1 .. e - a |-> f[a + k - 1]]
    BY DEF StringAt
  <2>2. e - a = Len(t)
    <3> HIDE DEF e
    <3>1. QED
      BY <1>1, <1>4
  <2>3. QED
    BY <2>1, <2>2
<1>6. QED
  BY <1>1, <1>5 DEF Holds

\* Where a NUL follows there is a string.
LEMMA StringEnds ==
    ASSUME NEW b \in Nat, NEW f \in [0 .. b -> Chars], NEW a \in 0 .. b,
           NEW z \in a .. b, f[z] = NUL
    PROVE  /\ StringAt(f, a) \in Seq(Chars) /\ Holds(f, a, StringAt(f, a))
           /\ Len(StringAt(f, a)) <= z - a
<1> DEFINE T == {n \in Nat : n <= z - a /\ f[a + n] = NUL}
<1>1. T \in SUBSET Nat /\ z - a \in T
  OBVIOUS
<1>2. PICK m \in T : \A n \in T : m <= n
  <2> HIDE DEF T
  <2>1. QED
    BY <1>1, LeastNatural
<1> DEFINE t == [k \in 1 .. m |-> f[a + k - 1]]
<1>3. t \in Seq(Chars) /\ Len(t) = m
  OBVIOUS
<1>4. Holds(f, a, t)
  <2>1. ASSUME NEW k \in 1 .. m PROVE f[a + k - 1] # NUL
    <3>1. k - 1 \in Nat /\ k - 1 < m /\ k - 1 <= z - a /\ a + (k - 1) = a + k - 1
      BY <1>2
    <3>2. k - 1 \notin T
      <4>1. \A n \in T : ~(n < m)
        BY <1>2
      <4>2. QED
        BY <3>1, <4>1
    <3>3. QED
      BY <3>1, <3>2
  <2>2. a + m \in 0 .. b /\ f[a + m] = NUL
    BY <1>2
  <2>3. QED
    BY <1>3, <2>1, <2>2 DEF Holds
<1>5. StringAt(f, a) = t
  <2> HIDE DEF t
  <2>1. QED
    BY <1>3, <1>4, StringIs
<1>6. QED
  BY <1>2, <1>3, <1>4, <1>5

(***************************************************************************)
(* A round of the loop, as the line has it                                 *)
(***************************************************************************)
\* The buffer f holds the text t, of L bytes.
Reads(f, t, L) ==
    /\ f \in [0 .. Top -> Chars] /\ L \in 0 .. Top /\ f[L] = NUL
    /\ t \in Seq(Chars) /\ Len(t) = L /\ DOMAIN t = 1 .. L
    /\ \A p \in 1 .. L : t[p] = f[p - 1] /\ t[p] # NUL

\* A round may start at j: leading spaces are gone, and behind spaces a slash too.
Starts(f, j) ==
    /\ j = 0 => f[0] # Space
    /\ j > 0 /\ f[j - 1] = Space => f[j] \notin {Space, "/"}

\* The word from j ends at e, and b is the first byte from there that is no space.
Ends(f, j, e, b) ==
    /\ e \in 0 .. Top /\ e >= j /\ f[e] \in Separators /\ \A q \in j .. e - 1 : f[q] \notin Separators
    /\ b \in 0 .. Top /\ b >= e /\ f[b] # Space /\ \A q \in e .. b - 1 : f[q] = Space

\* Where the next round starts.
Onwards(f, b) == IF f[b] = "/" THEN b + 1 ELSE b

\* A round takes a word, and of what separates it from the next one byte at most
\* is kept.
LEMMA Round ==
    ASSUME NEW f, NEW t, NEW L, Reads(f, t, L), NEW j \in 0 .. L, f[j] # NUL, Starts(f, j),
           NEW e, NEW b, Ends(f, j, e, b)
    PROVE  /\ e \in j .. L /\ Onwards(f, b) \in e .. L
           /\ Starts(f, Onwards(f, b))
           /\ \A p \in j + 1 .. e : p \in Kept(t) /\ t[p] \notin Separators
           /\ f[e] = NUL => e = L /\ Onwards(f, b) = L /\ j < L
           /\ f[e] = "/" => /\ Onwards(f, b) = e + 1 /\ e < L /\ t[e + 1] = "/"
                            /\ e + 1 \in Kept(t) <=> e + 1 # L
           /\ f[e] = Space => /\ e + 1 \in Kept(t) /\ e < L /\ t[e + 1] = Space
                            /\ Onwards(f, b) > e
                            /\ \A p \in e + 2 .. Onwards(f, b) : p \notin Kept(t)
<1> DEFINE o == Onwards(f, b)
<1>1. L \in Nat /\ Top \in Nat /\ f[L] = NUL /\ f \in [0 .. Top -> Chars]
      /\ DOMAIN t = 1 .. L /\ Len(t) = L
      /\ (\A p \in 1 .. L : t[p] = f[p - 1] /\ t[p] # NUL)
  BY Sizes DEF Reads
<1>2. e \in Nat /\ b \in Nat /\ j \in Nat /\ j <= e /\ e <= b /\ f[e] \in Separators /\ f[b] # Space
      /\ (\A q \in j .. e - 1 : f[q] \notin Separators) /\ (\A q \in e .. b - 1 : f[q] = Space)
  BY DEF Ends
<1>3. NUL \in Separators /\ NUL # Space /\ NUL # "/" /\ Space # "/"
  BY Bytes DEF Separators
<1>4. e <= L
  <2> SUFFICES ASSUME L < e PROVE FALSE
    BY <1>1, <1>2
  <2>1. L \in j .. e - 1
    BY <1>1, <1>2
  <2>2. QED
    BY <2>1, <1>1, <1>2, <1>3
<1>5. b <= L
  <2> SUFFICES ASSUME L < b PROVE FALSE
    BY <1>1, <1>2
  <2>1. L \in e .. b - 1
    BY <1>1, <1>2, <1>4
  <2>2. QED
    BY <2>1, <1>1, <1>2, <1>3
<1>6. f[b] = "/" => b < L
  BY <1>1, <1>2, <1>3, <1>5
<1>7. o \in e .. L /\ o \in Nat
  BY <1>1, <1>2, <1>4, <1>5, <1>6 DEF Onwards
<1>8. Starts(f, o)
  <2>1. CASE f[b] = "/"
    <3>1. o = b + 1 /\ o - 1 = b /\ o # 0
      BY <2>1, <1>2 DEF Onwards
    <3>2. QED
      BY <2>1, <3>1, <1>3 DEF Starts
  <2>2. CASE f[b] # "/"
    BY <2>2, <1>2 DEF Onwards, Starts
  <2>3. QED
    BY <2>1, <2>2
<1>9. ASSUME NEW p \in j + 1 .. e
      PROVE  p \in Kept(t) /\ t[p] \notin Separators
  <2>1. p \in 1 .. L /\ p - 1 \in j .. e - 1
    BY <1>1, <1>2, <1>4
  <2>2. t[p] \notin Separators
    BY <2>1, <1>1, <1>2
  <2>3. t[p] # Space /\ t[p] # "/"
    BY <2>2 DEF Separators
  <2>4. QED
    BY <2>1, <2>2, <2>3, <1>1 DEF Kept
<1>10. CASE f[e] = NUL
  <2>1. e = L
    <3>1. ~(e < L)
      <4> SUFFICES ASSUME e < L PROVE FALSE
        OBVIOUS
      <4> DEFINE y == e + 1
      <4>1. y \in 1 .. L /\ y - 1 = e
        BY <1>1, <1>2
      <4> HIDE DEF y
      <4>2. t[y] = f[e] /\ t[y] # NUL
        BY <4>1, <1>1
      <4>3. QED
        BY <4>2, <1>10
    <3>2. QED
      BY <3>1, <1>1, <1>2, <1>4
  <2>2. b = e
    <3>1. ~(e < b)
      BY <1>2, <1>3, <1>10
    <3>2. QED
      BY <3>1, <1>2
  <2>3. o = L /\ j # L
    BY <2>1, <2>2, <1>1, <1>3, <1>10 DEF Onwards
  <2>4. f[e] # "/" /\ f[e] # Space
    BY <1>3, <1>10
  <2> HIDE DEF o
  <2>5. QED
    BY <2>1, <2>3, <2>4, <1>2, <1>4, <1>7, <1>8, <1>9 DEF o
<1> DEFINE z == e + 1
<1>11. f[e] # NUL => e < L /\ z \in 1 .. L /\ t[z] = f[e]
  <2>1. f[e] # NUL => e < L
    BY <1>1, <1>2, <1>4
  <2>2. QED
    BY <2>1, <1>1, <1>2
\* No space before it.
<1>12. ASSUME f[e] \in {Space, "/"}, z > 1
       PROVE  t[z - 1] # Space
  <2>1. z - 1 \in 1 .. L /\ t[z - 1] = f[e - 1]
    <3>1. f[e] # NUL /\ z - 1 = e
      BY <1>12, <1>2, <1>3
    <3>2. QED
      BY <3>1, <1>1, <1>2, <1>4, <1>12
  <2>2. CASE j = e
    BY <2>1, <2>2, <1>2, <1>12 DEF Starts
  <2>3. CASE j < e
    <3>1. e - 1 \in j .. e - 1
      BY <2>3, <1>2
    <3>2. QED
      BY <2>1, <3>1, <1>2 DEF Separators
  <2>4. QED
    BY <2>2, <2>3, <1>2
<1>13. CASE f[e] = "/"
  <2>1. b = e
    <3>1. ~(e < b)
      BY <1>2, <1>3, <1>13
    <3>2. QED
      BY <3>1, <1>2
  <2>2. o = z
    BY <2>1, <1>13 DEF Onwards
  <2>3. e < L /\ z \in 1 .. L /\ t[z] = "/"
    BY <1>3, <1>11, <1>13
  <2>4. z \in Kept(t) <=> z # L
    <3> HIDE DEF z
    <3>1. QED
      BY <2>3, <1>1, <1>12, <1>13 DEF Kept
  <2>5. f[e] # NUL /\ f[e] # Space
    BY <1>3, <1>13
  <2> HIDE DEF o
  <2>6. QED
    BY <2>2, <2>3, <2>4, <2>5, <1>2, <1>4, <1>7, <1>8, <1>9 DEF o
<1>14. CASE f[e] = Space
  <2>1. e < L /\ z \in 1 .. L /\ t[z] = Space
    BY <1>3, <1>11, <1>14
  <2>2. z \in Kept(t)
    <3> HIDE DEF z
    <3>1. QED
      BY <2>1, <1>1, <1>3, <1>12, <1>14 DEF Kept
  <2>3. e < b
    BY <1>2, <1>14
  <2>4. o > e
    BY <2>3, <1>2 DEF Onwards
  <2>5. ASSUME NEW p \in e + 2 .. o
        PROVE  p \notin Kept(t)
    <3>1. p \in 1 .. L /\ p - 1 \in 1 .. L /\ p > 1 /\ p - 1 <= b /\ p - 2 \in e .. b - 1
      <4>1. o <= b + 1 /\ o <= L
        BY <1>1, <1>2, <1>7 DEF Onwards
      <4> HIDE DEF o
      <4>2. QED
        BY <4>1, <1>1, <1>2, <1>7
    <3>2. t[p - 1] = Space
      <4>1. t[p - 1] = f[p - 1 - 1] /\ p - 1 - 1 = p - 2
        BY <3>1, <1>1
      <4>2. QED
        BY <3>1, <4>1, <1>2
    <3>3. t[p] = f[p - 1]
      BY <3>1, <1>1
    <3>4. f[p - 1] \in {Space, "/"}
      <4>1. CASE p - 1 < b
        BY <3>1, <4>1, <1>2
      <4>2. CASE p - 1 = b
        <5>1. o = b + 1
          BY <4>2, <2>5, <1>2 DEF Onwards
        <5>2. QED
          BY <4>2, <5>1, <1>2 DEF Onwards
      <4>3. QED
        BY <3>1, <4>1, <4>2, <1>2
    <3>5. QED
      BY <3>1, <3>2, <3>3, <3>4 DEF Kept
  <2>6. f[e] # NUL /\ f[e] # "/"
    BY <1>3, <1>14
  <2> HIDE DEF o
  <2>7. QED
    BY <2>1, <2>2, <2>4, <2>5, <2>6, <1>2, <1>4, <1>7, <1>8, <1>9 DEF o
<1>15. QED
  BY <1>2, <1>10, <1>13, <1>14 DEF Separators

\* The bytes c that are kept among the first j of t.
Passed(t, j, c) == {p \in Kept(t) : p <= j /\ t[p] = c}

\* They are finitely many, and no more than in the whole text.
LEMMA PassedFinite ==
    ASSUME NEW f, NEW t, NEW L, Reads(f, t, L), NEW j, NEW c
    PROVE  /\ IsFiniteSet(Passed(t, j, c)) /\ Cardinality(Passed(t, j, c)) \in Nat
           /\ Cardinality(Passed(t, L, c)) = CountKept(t, c)
           /\ CountKept(t, c) \in Nat /\ Cardinality(Passed(t, j, c)) <= CountKept(t, c)
<1>1. L \in Nat /\ DOMAIN t = 1 .. L
  BY Sizes DEF Reads
<1> DEFINE K == {p \in Kept(t) : t[p] = c}
<1>2. K \subseteq 1 .. L /\ Passed(t, j, c) \subseteq K /\ Passed(t, L, c) = K
  BY <1>1 DEF Kept, Passed
<1>3. CountKept(t, c) = Cardinality(K)
  BY DEF CountKept
<1>4. IsFiniteSet(1 .. L)
  BY <1>1, FS_Interval
<1> HIDE DEF K
<1>5. IsFiniteSet(K) /\ Cardinality(K) \in Nat
  BY <1>2, <1>4, FS_Subset, FS_CardinalityType
<1>6. IsFiniteSet(Passed(t, j, c)) /\ Cardinality(Passed(t, j, c)) <= Cardinality(K)
  BY <1>2, <1>5, FS_Subset
<1>7. Cardinality(Passed(t, j, c)) \in Nat
  BY <1>6, FS_CardinalityType
<1>8. QED
  BY <1>2, <1>3, <1>5, <1>6, <1>7

\* A round passes at most one separator that is kept.
LEMMA RoundPasses ==
    ASSUME NEW f, NEW t, NEW L, Reads(f, t, L), NEW j \in 0 .. L, f[j] # NUL, Starts(f, j),
           NEW e, NEW b, Ends(f, j, e, b)
    PROVE  /\ f[e] = Space =>
                 /\ Cardinality(Passed(t, Onwards(f, b), Space)) = Cardinality(Passed(t, j, Space)) + 1
                 /\ Cardinality(Passed(t, Onwards(f, b), "/")) = Cardinality(Passed(t, j, "/"))
           /\ f[e] # Space => Passed(t, Onwards(f, b), Space) = Passed(t, j, Space)
           /\ f[e] # Space /\ Onwards(f, b) # L =>
                 Cardinality(Passed(t, Onwards(f, b), "/")) = Cardinality(Passed(t, j, "/")) + 1
<1> DEFINE o == Onwards(f, b)
           z == e + 1
<1>1. L \in Nat /\ DOMAIN t = 1 .. L
  BY Sizes DEF Reads
<1>2. /\ e \in j .. L /\ o \in e .. L /\ e \in Nat /\ o \in Nat
      /\ \A p \in j + 1 .. e : p \in Kept(t) /\ t[p] \notin Separators
  BY <1>1, Round
<1>3. f[e] = NUL => o = e /\ e = L
  BY <1>1, Round
<1>4. f[e] = "/" => o = z /\ t[z] = "/" /\ (z \in Kept(t) <=> z # L)
  BY Round
<1>5. f[e] = Space => z \in Kept(t) /\ t[z] = Space /\ o > e /\ \A p \in e + 2 .. o : p \notin Kept(t)
  BY Round
<1>6. Kept(t) \subseteq 1 .. L
  BY <1>1 DEF Kept
<1>7. Space \in Separators /\ "/" \in Separators /\ Space # "/" /\ f[e] \in {Space, "/", NUL}
  BY Bytes DEF Separators, Ends
<1> HIDE DEF o
<1>8. ASSUME NEW c \in {Space, "/"}, z \in Kept(t) => t[z] # c \/ z > o
      PROVE  Passed(t, o, c) = Passed(t, j, c)
  <2>1. ASSUME NEW p \in Kept(t), p <= o, t[p] = c
        PROVE  p <= j
    <3>1. p \in Nat /\ p \notin j + 1 .. e
      BY <1>2, <1>6, <1>7, <1>8, <2>1
    <3>2. p # z
      BY <1>8, <2>1, <3>1, <1>2
    <3>3. p \notin e + 2 .. o
      BY <1>2, <1>3, <1>4, <1>5, <1>7, <2>1
    <3>4. QED
      BY <3>1, <3>2, <3>3, <2>1, <1>1, <1>2
  <2>2. \A p \in Kept(t) : p <= j => p <= o
    BY <1>1, <1>2, <1>6
  <2>3. QED
    BY <2>1, <2>2 DEF Passed
<1>9. ASSUME NEW c \in {Space, "/"}, z \in Kept(t), t[z] = c, z <= o
      PROVE  Cardinality(Passed(t, o, c)) = Cardinality(Passed(t, j, c)) + 1
  <2>1. ASSUME NEW p \in Kept(t), p <= o, t[p] = c, p # z
        PROVE  p <= j
    <3>1. p \in Nat /\ p \notin j + 1 .. e
      BY <1>2, <1>6, <1>7, <1>9, <2>1
    <3>3. p \notin e + 2 .. o
      BY <1>2, <1>3, <1>4, <1>5, <1>7, <2>1
    <3>4. QED
      BY <3>1, <3>3, <2>1, <1>1, <1>2
  <2>2. \A p \in Kept(t) : p <= j => p <= o
    BY <1>1, <1>2, <1>6
  <2>3. z \notin Passed(t, j, c)
    BY <1>1, <1>2 DEF Passed
  <2>4. Passed(t, o, c) = Passed(t, j, c) \cup {z}
    BY <1>9, <2>1, <2>2 DEF Passed
  <2> HIDE DEF z
  <2>5. QED
    BY <2>3, <2>4, PassedFinite, FS_AddElement
<1>10. CASE f[e] = Space
  <2>1. z <= o
    BY <1>2, <1>5, <1>10
  <2>2. QED
    BY <2>1, <1>5, <1>7, <1>8, <1>9, <1>10 DEF o
<1>11. CASE f[e] = "/"
  <2>1. t[z] # Space /\ z <= o
    BY <1>2, <1>4, <1>7, <1>11
  <2>2. QED
    BY <2>1, <1>4, <1>7, <1>8, <1>9, <1>11 DEF o
<1>12. CASE f[e] = NUL
  <2>1. z > o /\ o = L
    BY <1>1, <1>2, <1>3, <1>12
  <2>2. f[e] # Space
    BY <1>12, Bytes
  <2>3. QED
    BY <2>1, <2>2, <1>7, <1>8 DEF o
<1>13. QED
  BY <1>7, <1>10, <1>11, <1>12

\* Where the words of t fit, the word of a round is shorter than a row.
LEMMA RoundFits ==
    ASSUME NEW f, NEW t, NEW L, Reads(f, t, L), NEW j \in 0 .. L, f[j] # NUL, Starts(f, j),
           NEW e, NEW b, Ends(f, j, e, b), WordsFit(t)
    PROVE  e - j < Columns
<1>1. L \in Nat /\ DOMAIN t = 1 .. L /\ Len(t) = L /\ Columns \in Nat /\ j \in Nat
  BY Sizes DEF Reads
<1>2. e \in j .. L /\ \A p \in j + 1 .. e : t[p] \notin Separators
  BY Round
<1> SUFFICES ASSUME e - j >= Columns PROVE FALSE
  BY <1>1, <1>2
<1>3. j + 1 \in 1 .. L - Columns + 1
  BY <1>1, <1>2
<1>4. PICK q \in j + 1 .. j + 1 + Columns - 1 : t[q] \in Separators
  BY <1>1, <1>3 DEF WordsFit
<1>5. q \in j + 1 .. e
  BY <1>1, <1>2
<1>6. QED
  BY <1>2, <1>4, <1>5

(***************************************************************************)
(* The rows of cmd                                                         *)
(***************************************************************************)
\* The cells of a row lie between those of the rows before and behind it.
LEMMA RowCells ==
    /\ \A r \in Nat : At(r) \in Nat /\ At(r + 1) = At(r) + Columns
    /\ \A r \in Nat, s \in Nat : r < s => At(r) + Columns <= At(s)
    /\ \A r \in 0 .. Rows - 1, q \in 0 .. Columns - 1 : At(r) + q \in 0 .. Rows * Columns - 1
    /\ Rows * Columns = At(Rows)
<1>1. Columns \in Nat /\ Rows \in Nat
  BY Sizes
<1>2. \A r \in Nat : r * Columns \in Nat /\ (r + 1) * Columns = r * Columns + Columns
  BY <1>1
<1>3. ASSUME NEW r \in Nat, NEW s \in Nat, r < s
      PROVE  r * Columns + Columns <= s * Columns
  <2>1. s - r - 1 \in Nat
    BY <1>3
  <2>2. (s - r - 1) * Columns \in Nat
    BY <1>1, <2>1
  <2>3. s * Columns = r * Columns + Columns + (s - r - 1) * Columns
    BY <1>1
  <2>4. r * Columns \in Nat
    BY <1>1
  <2>5. QED
    BY <1>1, <2>2, <2>3, <2>4
<1>4. ASSUME NEW r \in 0 .. Rows - 1, NEW q \in 0 .. Columns - 1
      PROVE  r * Columns + q \in 0 .. Rows * Columns - 1
  <2>1. r \in Nat /\ r < Rows
    BY <1>1
  <2>2. r * Columns + Columns <= Rows * Columns /\ r * Columns \in Nat /\ Rows * Columns \in Nat
    BY <1>1, <1>3, <2>1
  <2>3. QED
    BY <1>1, <2>2
<1>5. QED
  BY <1>2, <1>3, <1>4 DEF At

\* Row r of c has the word w, and nothing behind it.
HasRow(c, r, w) ==
    /\ w \in Seq(Chars) /\ Len(w) < Columns
    /\ \A k \in 1 .. Len(w) : w[k] = c[At(r) + k - 1] /\ w[k] # NUL
    /\ \A q \in Len(w) .. Columns - 1 : c[At(r) + q] = NUL

\* The first n rows have a word each, the others are empty.
Clean(c, n) ==
    /\ \A r \in 0 .. n - 1 : \E w : HasRow(c, r, w)
    /\ \A p \in At(n) .. At(Rows) - 1 : c[p] = NUL

\* The word of a row is the string that starts there.
LEMMA RowIs ==
    ASSUME NEW c \in [0 .. Rows * Columns - 1 -> Chars], NEW r \in 0 .. Rows - 1, NEW w, HasRow(c, r, w)
    PROVE  StringAt(c, At(r)) = w
<1>1. w \in Seq(Chars) /\ Len(w) \in 0 .. Columns - 1
  BY Sizes, LenProperties DEF HasRow
<1>2. At(r) + Len(w) \in DOMAIN c /\ At(r) \in Int /\ DOMAIN c \subseteq Int
  BY <1>1, RowCells, Sizes
<1>3. c[At(r) + Len(w)] = NUL
  <2> DEFINE n == Len(w)
  <2>1. n \in n .. Columns - 1
    BY <1>1
  <2>2. QED
    BY <2>1 DEF HasRow
<1>4. Holds(c, At(r), w)
  BY <1>2, <1>3 DEF Holds, HasRow
<1>5. QED
  BY <1>1, <1>2, <1>4, StringIs

\* A row is within cmd when its number is.
LEMMA RowWithin ==
    ASSUME NEW r \in Nat, At(r) \in 0 .. Rows * Columns - 1
    PROVE  r < Rows
<1> SUFFICES ASSUME ~(r < Rows) PROVE FALSE
  OBVIOUS
<1>1. Rows \in Nat /\ Columns \in Nat /\ At(Rows) \in Nat /\ At(r) \in Nat /\ At(Rows) = Rows * Columns
  BY Sizes, RowCells
<1>2. At(Rows) <= At(r)
  <2>1. CASE Rows = r
    BY <1>1, <2>1
  <2>2. CASE Rows < r
    <3>1. At(Rows) + Columns <= At(r)
      BY <1>1, <2>2, RowCells
    <3>2. QED
      BY <1>1, <3>1
  <2>3. QED
    BY <1>1, <2>1, <2>2
<1>3. QED
  BY <1>1, <1>2

\* What a round writes over the cells of cmd.
Written(e) == [p \in DOMAIN cmd |-> IF p \in DOMAIN RowBytes(e) THEN RowBytes(e)[p] ELSE cmd[p]]
NextRow(e) == neff + (IF input[e] = Space THEN 2 ELSE 1)

\* A word shorter than a row fills its row alone, and the space the next one.
LEMMA WrittenCells ==
    ASSUME cmd \in [0 .. Rows * Columns - 1 -> Chars], neff \in Nat, i \in Nat,
           NEW e \in Nat, i <= e, e - i < Columns, DOMAIN RowBytes(e) \subseteq DOMAIN cmd
    PROVE  /\ neff < Rows /\ (input[e] = Space => neff + 1 < Rows)
           /\ \A p \in 0 .. At(neff) - 1 : Written(e)[p] = cmd[p]
           /\ \A q \in 0 .. e - i - 1 : Written(e)[At(neff) + q] = input[i + q]
           /\ Written(e)[At(neff) + (e - i)] = NUL
           /\ input[e] = Space => Written(e)[At(neff + 1)] = Space
           /\ \A p \in At(neff) + (e - i) + 1 .. At(Rows) - 1 :
                 input[e] # Space \/ p # At(neff + 1) => Written(e)[p] = cmd[p]
<1> DEFINE a == At(neff)
           z == At(neff + 1)
           D == (a .. a + e - i) \cup (IF input[e] = Space THEN {z} ELSE {})
<1>1. Rows \in Nat /\ Columns \in Nat /\ a \in Nat /\ z = a + Columns /\ At(Rows) = Rows * Columns
      /\ At(Rows) \in Nat
  BY Sizes, RowCells
<1>2. DOMAIN RowBytes(e) = D
  BY DEF RowBytes
<1>3. \A p \in D : RowBytes(e)[p] = IF input[e] = Space /\ p = z THEN Space
                                    ELSE IF p = a + e - i THEN NUL ELSE input[i + p - a]
  BY DEF RowBytes
<1>4. D \subseteq 0 .. Rows * Columns - 1 /\ DOMAIN cmd = 0 .. Rows * Columns - 1
  BY <1>2
<1>5. Written(e) = [p \in DOMAIN cmd |-> IF p \in D THEN RowBytes(e)[p] ELSE cmd[p]]
  BY <1>2 DEF Written
<1>6. neff < Rows
  <2>1. a \in D
    BY <1>1
  <2>2. QED
    BY <2>1, <1>4, RowWithin
<1>7. input[e] = Space => neff + 1 < Rows
  <2>1. input[e] = Space => z \in D
    OBVIOUS
  <2>2. neff + 1 \in Nat
    OBVIOUS
  <2>3. QED
    BY <2>1, <2>2, <1>4, RowWithin
<1>8. a + Columns <= At(Rows)
  BY <1>1, <1>6, RowCells
<1> HIDE DEF a, z
<1>9. \A p \in 0 .. a - 1 : Written(e)[p] = cmd[p]
  <2> TAKE p \in 0 .. a - 1
  <2>1. p \in DOMAIN cmd /\ p \notin D
    BY <1>1, <1>4, <1>8
  <2>2. QED
    BY <2>1, <1>5
<1>10. \A q \in 0 .. e - i - 1 : Written(e)[a + q] = input[i + q]
  <2> TAKE q \in 0 .. e - i - 1
  <2> DEFINE p == a + q
  <2>1. p \in D /\ p # z /\ p # a + e - i /\ i + p - a = i + q
    BY <1>1
  <2> HIDE DEF D, p
  <2>2. Written(e)[p] = input[i + p - a]
    BY <2>1, <1>3, <1>4, <1>5
  <2>3. QED
    BY <2>1, <2>2 DEF p
<1>11. Written(e)[a + (e - i)] = NUL
  <2> DEFINE p == a + (e - i)
  <2>1. p \in D /\ p # z /\ p = a + e - i
    BY <1>1
  <2> HIDE DEF D, p
  <2>2. Written(e)[p] = NUL
    BY <2>1, <1>3, <1>4, <1>5
  <2>3. QED
    BY <2>2 DEF p
<1>12. input[e] = Space => Written(e)[z] = Space
  BY <1>3, <1>4, <1>5
<1>13. \A p \in a + (e - i) + 1 .. At(Rows) - 1 : input[e] # Space \/ p # z => Written(e)[p] = cmd[p]
  <2> TAKE p \in a + (e - i) + 1 .. At(Rows) - 1
  <2> HAVE input[e] # Space \/ p # z
  <2>1. p \in DOMAIN cmd /\ p \notin D
    BY <1>1, <1>4, <1>8
  <2>2. QED
    BY <2>1, <1>5
<1>14. QED
  BY <1>6, <1>7, <1>9, <1>10, <1>11, <1>12, <1>13 DEF a, z

\* A row is what its cells are.
LEMMA SameCells ==
    ASSUME NEW c, NEW d, NEW r \in Nat, NEW w, HasRow(c, r, w),
           \A q \in 0 .. Columns - 1 : d[At(r) + q] = c[At(r) + q]
    PROVE  HasRow(d, r, w)
<1>1. w \in Seq(Chars) /\ Len(w) \in Nat /\ Columns \in Nat /\ At(r) \in Nat
      /\ Len(w) < Columns /\ (\A k \in 1 .. Len(w) : w[k] = c[At(r) + k - 1] /\ w[k] # NUL)
      /\ (\A q \in Len(w) .. Columns - 1 : c[At(r) + q] = NUL)
  BY Sizes, LenProperties, RowCells DEF HasRow
<1> DEFINE n == Len(w)
<1> HIDE DEF n
<1>2. \A k \in 1 .. n : w[k] = d[At(r) + k - 1]
  <2> TAKE k \in 1 .. n
  <2>1. k - 1 \in 0 .. Columns - 1 /\ At(r) + (k - 1) = At(r) + k - 1
    BY <1>1 DEF n
  <2>2. QED
    BY <2>1, <1>1 DEF n
<1>3. \A q \in n .. Columns - 1 : d[At(r) + q] = NUL
  BY <1>1 DEF n
<1>4. QED
  BY <1>1, <1>2, <1>3 DEF HasRow, n

\* The rows after a round: those before it are as they were, then comes the word.
LEMMA RowsWritten ==
    ASSUME cmd \in [0 .. Rows * Columns - 1 -> Chars], neff \in Nat, NEW t, NEW L, Reads(input, t, L),
           i \in 0 .. L, NEW e \in i .. L, e - i < Columns, DOMAIN RowBytes(e) \subseteq DOMAIN cmd,
           Clean(cmd, neff)
    PROVE  /\ NextRow(e) \in Nat /\ NextRow(e) <= Rows
           /\ \A r \in 0 .. neff - 1 : \A w : HasRow(cmd, r, w) => HasRow(Written(e), r, w)
           /\ HasRow(Written(e), neff, SubSeq(t, i + 1, e))
           /\ input[e] = Space => HasRow(Written(e), neff + 1, <<Space>>)
           /\ Clean(Written(e), NextRow(e))
<1>1. /\ Rows \in Nat /\ Columns \in Nat /\ Columns > 1 /\ L \in Nat /\ e \in Nat /\ i \in Nat /\ i <= e
      /\ DOMAIN t = 1 .. L /\ t \in Seq(Chars) /\ \A p \in 1 .. L : t[p] = input[p - 1] /\ t[p] # NUL
  BY Sizes DEF Reads
<1> DEFINE a == At(neff)
           z == At(neff + 1)
           d == Written(e)
           n == e - i
<1>2. a \in Nat /\ z = a + Columns /\ At(Rows) \in Nat /\ At(neff + 2) = z + Columns
  <2>1. neff + 1 \in Nat /\ neff + 1 + 1 = neff + 2
    OBVIOUS
  <2>2. QED
    BY <1>1, <2>1, RowCells
<1>3. /\ neff < Rows /\ (input[e] = Space => neff + 1 < Rows)
      /\ \A p \in 0 .. a - 1 : d[p] = cmd[p]
      /\ \A q \in 0 .. n - 1 : d[a + q] = input[i + q]
      /\ d[a + n] = NUL
      /\ input[e] = Space => d[z] = Space
      /\ \A p \in a + n + 1 .. At(Rows) - 1 : input[e] # Space \/ p # z => d[p] = cmd[p]
  BY <1>1, WrittenCells
<1>4. n \in 0 .. Columns - 1
  BY <1>1
<1>5. \A p \in a .. At(Rows) - 1 : cmd[p] = NUL
  BY DEF Clean
<1>6. a + Columns <= At(Rows) /\ (input[e] = Space => z + Columns <= At(Rows))
  <2>1. neff + 1 \in Nat /\ Rows \in Nat
    BY <1>1
  <2>2. QED
    BY <1>3, <2>1, RowCells
<1>7. NextRow(e) \in Nat /\ NextRow(e) <= Rows /\ At(NextRow(e)) = IF input[e] = Space THEN z + Columns ELSE z
  BY <1>1, <1>2, <1>3 DEF NextRow
<1> HIDE DEF a, z, d, n
<1>8. ASSUME NEW p \in a + n + 1 .. At(Rows) - 1, input[e] # Space \/ p # z
      PROVE  d[p] = NUL
  <2>1. p \in a .. At(Rows) - 1
    BY <1>2, <1>4
  <2>2. QED
    BY <2>1, <1>3, <1>5, <1>8
<1>9. ASSUME NEW r \in 0 .. neff - 1, NEW w, HasRow(cmd, r, w)
      PROVE  HasRow(d, r, w)
  <2>1. r \in Nat /\ At(r) \in Nat /\ At(r) + Columns <= a
    <3>1. r \in Nat /\ neff \in Nat /\ r < neff
      OBVIOUS
    <3>2. QED
      BY <3>1, RowCells DEF a
  <2>2. \A q \in 0 .. Columns - 1 : At(r) + q \in 0 .. a - 1
    BY <1>1, <1>2, <2>1
  <2>3. QED
    BY <1>3, <1>9, <2>1, <2>2, SameCells
<1>10. HasRow(d, neff, SubSeq(t, i + 1, e))
  <2> DEFINE w == SubSeq(t, i + 1, e)
  <2>1. \A k \in i + 1 .. e : t[k] \in Chars
    <3>1. \A k \in i + 1 .. e : k \in 1 .. Len(t)
      BY <1>1 DEF Reads
    <3>2. QED
      BY <1>1, <3>1, ElementOfSeq
  <2>2. w \in Seq(Chars) /\ Len(w) = n /\ \A k \in 1 .. n : w[k] = t[i + k]
    <3>1. i + 1 \in Int /\ e \in Int
      BY <1>1
    <3>2. /\ w \in Seq(Chars) /\ Len(w) = IF i + 1 <= e THEN e - (i + 1) + 1 ELSE 0
          /\ \A k \in 1 .. e - (i + 1) + 1 : w[k] = t[i + 1 + k - 1]
      BY <2>1, <3>1, SubSeqProperties
    <3>3. Len(w) = n /\ e - (i + 1) + 1 = n /\ \A k \in 1 .. n : i + 1 + k - 1 = i + k
      <4> HIDE DEF w
      <4>1. QED
        BY <1>1, <3>2 DEF n
    <3>4. QED
      BY <3>2, <3>3
  <2> HIDE DEF w
  <2>3. ASSUME NEW k \in 1 .. n
        PROVE  w[k] = d[a + k - 1] /\ w[k] # NUL
    <3>1. i + k \in 1 .. L /\ k - 1 \in 0 .. n - 1 /\ a + (k - 1) = a + k - 1 /\ i + (k - 1) = i + k - 1
      BY <1>1, <1>2, <1>4 DEF n
    <3>2. t[i + k] = input[i + k - 1] /\ t[i + k] # NUL
      BY <1>1, <3>1
    <3>3. QED
      BY <1>3, <2>2, <3>1, <3>2
  <2>4. ASSUME NEW q \in n .. Columns - 1
        PROVE  d[a + q] = NUL
    <3>1. CASE q = n
      BY <1>3, <3>1
    <3>2. CASE q # n
      <4>1. a + q \in a + n + 1 .. At(Rows) - 1 /\ a + q # z
        BY <1>1, <1>2, <1>4, <1>6, <3>2
      <4>2. QED
        BY <4>1, <1>8
    <3>3. QED
      BY <3>1, <3>2
  <2>5. QED
    BY <1>4, <2>2, <2>3, <2>4 DEF HasRow, a, w
<1>11. input[e] = Space => HasRow(d, neff + 1, <<Space>>)
  <2> HAVE input[e] = Space
  <2>1. <<Space>> \in Seq(Chars) /\ Len(<<Space>>) = 1 /\ <<Space>>[1] = Space /\ Space # NUL
    BY Bytes
  <2>2. \A k \in 1 .. 1 : <<Space>>[k] = d[z + k - 1] /\ <<Space>>[k] # NUL
    BY <1>2, <1>3, <2>1
  <2>3. ASSUME NEW q \in 1 .. Columns - 1 PROVE d[z + q] = NUL
    <3>1. z + q \in a + n + 1 .. At(Rows) - 1 /\ z + q # z
      BY <1>1, <1>2, <1>4, <1>6
    <3>2. QED
      BY <3>1, <1>8
  <2>4. QED
    BY <1>1, <2>1, <2>2, <2>3 DEF HasRow, z
<1>12. Clean(d, NextRow(e))
  <2>1. ASSUME NEW r \in 0 .. NextRow(e) - 1
        PROVE  \E w : HasRow(d, r, w)
    <3>1. CASE r < neff
      <4>1. r \in 0 .. neff - 1
        BY <3>1, <1>7
      <4>2. QED
        BY <4>1, <1>9 DEF Clean
    <3>2. CASE r >= neff
      <4>1. r = neff \/ (r = neff + 1 /\ input[e] = Space)
        BY <3>2, <1>7 DEF NextRow
      <4>2. QED
        BY <4>1, <1>10, <1>11
    <3>3. QED
      BY <1>7, <3>1, <3>2
  <2>2. ASSUME NEW p \in At(NextRow(e)) .. At(Rows) - 1
        PROVE  d[p] = NUL
    <3>1. p \in a + n + 1 .. At(Rows) - 1 /\ (input[e] # Space \/ p # z)
      <4>1. CASE input[e] = Space
        <5>1. p \in z + Columns .. At(Rows) - 1
          BY <4>1, <1>7
        <5>2. QED
          BY <5>1, <1>1, <1>2, <1>4
      <4>2. CASE input[e] # Space
        <5>1. p \in z .. At(Rows) - 1
          BY <4>2, <1>7
        <5>2. QED
          BY <4>2, <5>1, <1>1, <1>2, <1>4
      <4>3. QED
        BY <4>1, <4>2
    <3>2. QED
      BY <3>1, <1>8
  <2>3. QED
    BY <2>1, <2>2 DEF Clean
<1>13. QED
  BY <1>7, <1>9, <1>10, <1>11, <1>12 DEF d

(***************************************************************************)
(* A file's word                                                           *)
(***************************************************************************)
Memories == 0 .. TargetFull + FullName - 1
OnStem(m, n, x) == [m |-> m, n |-> n, x |-> x, ext_found |-> FALSE, stop |-> FALSE]
OnExt(m, n, x)  == [m |-> m, n |-> n, x |-> x, ext_found |-> TRUE, stop |-> FALSE]

\* A byte before the dot goes to the stem.
LEMMA StemByte ==
    ASSUME NEW m, NEW n, NEW x, NEW k, NEW c, m[TargetFull + k] = c,
           c # ".", n # NameLength \/ c = NUL, NEW m2, m2 = [m EXCEPT ![TargetName + n] = c]
    PROVE  ParseByte(OnStem(m, n, x), k) = OnStem(m2, n + 1, x)
  BY DEF ParseByte, OnStem

\* The dot goes nowhere.
LEMMA DotByte ==
    ASSUME NEW m, NEW n, NEW x, NEW k, m[TargetFull + k] = "."
    PROVE  ParseByte(OnStem(m, n, x), k) = OnExt(m, n, x)
  BY DEF ParseByte, OnStem, OnExt

\* A byte behind the dot goes to the extension.
LEMMA ExtByte ==
    ASSUME NEW m, NEW n, NEW x, NEW k, NEW c, m[TargetFull + k] = c,
           c # ".", x # ExtLength + 1 \/ c = NUL, NEW m2, m2 = [m EXCEPT ![x] = c]
    PROVE  ParseByte(OnExt(m, n, x), k) = OnExt(m2, n, x + 1)
  BY DEF ParseByte, OnExt

\* parse_file_cmd goes through the states that its rounds lead to.
LEMMA ParseIs ==
    ASSUME NEW row, NEW Z, Z[0] = OnStem(Arrays(row), 0, 0),
           \A k \in 0 .. FullName - 1 : Z[k + 1] = ParseByte(Z[k], k)
    PROVE  parse_file_cmd(row) = Z[FullName].m
<1> DEFINE IsParse(P) == P = [k \in 0 .. FullName |->
                                IF k = 0 THEN OnStem(Arrays(row), 0, 0)
                                ELSE ParseByte(P[k - 1], k - 1)]
           C == CHOOSE P : IsParse(P)
           W == [k \in 0 .. FullName |-> Z[k]]
           T == {k \in Nat : k <= FullName => C[k] = Z[k]}
<1>1. FullName \in Nat
  BY Sizes
<1>2. parse_file_cmd(row) = C[FullName].m
  BY DEF parse_file_cmd, OnStem
<1>3. IsParse(W)
  <2>1. ASSUME NEW k \in 0 .. FullName
        PROVE  Z[k] = IF k = 0 THEN OnStem(Arrays(row), 0, 0) ELSE ParseByte(W[k - 1], k - 1)
    <3>1. CASE k = 0
      BY <3>1
    <3>2. CASE k # 0
      <4> DEFINE q == k - 1
      <4>1. q \in 0 .. FullName - 1 /\ q \in 0 .. FullName /\ q + 1 = k
        BY <1>1, <3>2
      <4>2. Z[q + 1] = ParseByte(Z[q], q) /\ W[q] = Z[q]
        BY <4>1
      <4>3. QED
        BY <3>2, <4>1, <4>2
    <3>3. QED
      BY <3>1, <3>2
  <2>2. QED
    BY <2>1
<1>4. IsParse(C)
  BY <1>3
<1> HIDE DEF C
<1>5. \A k \in 0 .. FullName : C[k] = IF k = 0 THEN OnStem(Arrays(row), 0, 0)
                                      ELSE ParseByte(C[k - 1], k - 1)
  BY <1>4
<1>6. 0 \in T
  <2>1. C[0] = OnStem(Arrays(row), 0, 0)
    BY <1>1, <1>5
  <2>2. QED
    BY <2>1
<1>7. ASSUME NEW k \in Nat, k \in T
      PROVE  k + 1 \in T
  <2> SUFFICES ASSUME k + 1 <= FullName PROVE C[k + 1] = Z[k + 1]
    OBVIOUS
  <2> DEFINE y == k + 1
  <2>1. y \in 0 .. FullName /\ y # 0 /\ y - 1 = k /\ k \in 0 .. FullName - 1
    BY <1>1
  <2>2. C[k] = Z[k]
    BY <1>1, <1>7
  <2>3. Z[y] = ParseByte(Z[k], k)
    BY <2>1
  <2> HIDE DEF y
  <2>4. C[y] = ParseByte(C[y - 1], y - 1)
    BY <1>5, <2>1
  <2>5. C[y] = Z[y]
    BY <2>1, <2>2, <2>3, <2>4
  <2>6. QED
    BY <2>5 DEF y
<1>8. FullName \in T
  <2> HIDE DEF T
  <2>1. QED
    BY <1>1, <1>6, <1>7, InductiveSet
<1>9. QED
  BY <1>1, <1>2, <1>8

\* The memory after k bytes of a name whose dot is the byte d, or that has none
\* (d = FullName).
Upto(k, d) == IF k <= d THEN k ELSE d
Beyond(k, d) == IF k <= d THEN 0 ELSE k - d - 1
Memory(row, d, k) ==
    [p \in Memories |->
        IF p \in TargetName .. TargetName + Upto(k, d) - 1 THEN cmd[At(row) + p - TargetName]
        ELSE IF p < Beyond(k, d) THEN cmd[At(row) + d + 1 + p]
        ELSE Arrays(row)[p]]

\* A name whose stem and extension are not too long leaves its bytes in the two
\* arrays: the zero bytes behind an extension run over no stem of seven bytes or more.
LEMMA Parses ==
    ASSUME NEW row, NEW d \in 0 .. FullName, At(row) \in Nat,
           \A q \in 0 .. FullName - 1 : cmd[At(row) + q] = "." <=> q = d,
           d > NameLength => d = FullName /\ cmd[At(row) + NameLength] = NUL,
           d >= NameLength - 1
    PROVE  parse_file_cmd(row) = Memory(row, d, FullName)
<1> DEFINE M(k) == Memory(row, d, k)
           Z == [k \in 0 .. FullName |-> IF d < k THEN OnExt(M(k), Upto(k, d), Beyond(k, d))
                                          ELSE OnStem(M(k), Upto(k, d), Beyond(k, d))]
<1>1. /\ FullName \in Nat /\ NameLength \in Nat /\ ExtLength \in Nat /\ d \in Nat
      /\ FullName = NameLength + ExtLength + 1 /\ NameLength > 0 /\ ExtLength > 0
      /\ TargetName = ExtLength + 1 /\ TargetFull = TargetName + NameLength + 1
      /\ TargetName \in Nat /\ TargetFull \in Nat
  BY Sizes DEF TargetName, TargetFull
<1>2. \A p \in Memories : Arrays(row)[p] = IF p < TargetFull THEN NUL ELSE cmd[At(row) + p - TargetFull]
  BY DEF Arrays, Memories
<1>3. DOMAIN Arrays(row) = Memories /\ Arrays(row) = [p \in Memories |-> Arrays(row)[p]]
  BY DEF Arrays, Memories
<1>4. Z[0] = OnStem(Arrays(row), 0, 0)
  <2>1. Upto(0, d) = 0 /\ Beyond(0, d) = 0 /\ ~(d < 0) /\ 0 \in 0 .. FullName
    BY <1>1 DEF Upto, Beyond
  <2>2. \A p \in Memories : p \notin TargetName .. TargetName + 0 - 1 /\ ~(p < 0)
    BY <1>1 DEF Memories
  <2>3. M(0) = Arrays(row)
    BY <1>3, <2>1, <2>2 DEF Memory
  <2>4. QED
    BY <2>1, <2>3
<1>5. ASSUME NEW k \in 0 .. FullName - 1
      PROVE  Z[k + 1] = ParseByte(Z[k], k)
  <2> DEFINE c == cmd[At(row) + k]
             n == Upto(k, d)
             x == Beyond(k, d)
  <2>1. k \in Nat /\ k \in 0 .. FullName /\ k + 1 \in 0 .. FullName /\ k < FullName
    BY <1>1
  <2>2. n \in Nat /\ x \in Nat /\ n <= k /\ x <= ExtLength
    BY <1>1, <2>1 DEF Upto, Beyond
  <2>3. M(k)[TargetFull + k] = c
    <3> DEFINE p == TargetFull + k
    <3>1. p \in Memories /\ p \notin TargetName .. TargetName + n - 1 /\ ~(p < x) /\ ~(p < TargetFull)
          /\ p - TargetFull = k
      BY <1>1, <2>1, <2>2 DEF Memories
    <3>2. At(row) + p - TargetFull = At(row) + k
      BY <1>1, <2>1
    <3> HIDE DEF p, n, x
    <3>3. M(k)[p] = Arrays(row)[p]
      BY <3>1 DEF Memory, n, x
    <3>4. QED
      BY <1>2, <3>1, <3>2, <3>3 DEF p
  <2>4. DOMAIN M(k) = Memories
    BY DEF Memory
  <2>5. CASE k < d
    <3>1. Upto(k + 1, d) = n + 1 /\ Beyond(k + 1, d) = x /\ x = 0 /\ ~(d < k) /\ ~(d < k + 1) /\ n = k
      BY <1>1, <2>1, <2>5 DEF Upto, Beyond
    <3>2. c # "." /\ (n # NameLength \/ c = NUL)
      BY <1>1, <2>1, <2>5, <3>1
    <3>3. M(k + 1) = [M(k) EXCEPT ![TargetName + n] = c]
      <4> DEFINE E == [M(k) EXCEPT ![TargetName + n] = c]
      <4>1. ASSUME NEW p \in Memories
            PROVE  M(k + 1)[p] = E[p]
        <5>1. CASE p = TargetName + n
          <6>1. p \in TargetName .. TargetName + Upto(k + 1, d) - 1 /\ At(row) + p - TargetName = At(row) + k
            BY <1>1, <2>1, <3>1, <5>1
          <6>2. M(k + 1)[p] = c
            BY <6>1 DEF Memory
          <6>3. E[p] = c
            BY <2>4, <5>1
          <6>4. QED
            BY <6>2, <6>3
        <5>2. CASE p # TargetName + n
          <6>1. /\ p \in TargetName .. TargetName + Upto(k + 1, d) - 1 <=> p \in TargetName .. TargetName + Upto(k, d) - 1
            BY <1>1, <2>1, <3>1, <5>2 DEF Memories
          <6>2. E[p] = M(k)[p]
            BY <2>4, <5>2
          <6>3. QED
            BY <3>1, <6>1, <6>2 DEF Memory
        <5>3. QED
          BY <5>1, <5>2
      <4>2. DOMAIN M(k + 1) = Memories /\ DOMAIN E = Memories
        BY DEF Memory
      <4>3. M(k + 1) = [p \in Memories |-> M(k + 1)[p]] /\ E = [p \in Memories |-> E[p]]
        BY DEF Memory
      <4> HIDE DEF M, E
      <4>4. QED
        BY <4>1, <4>3 DEF E
    <3>4. ParseByte(OnStem(M(k), n, x), k) = OnStem(M(k + 1), n + 1, x)
      <4> HIDE DEF M, c, n, x, Z
      <4>1. QED
        BY <2>3, <3>2, <3>3, StemByte
    <3>5. Z[k] = OnStem(M(k), n, x) /\ Z[k + 1] = OnStem(M(k + 1), n + 1, x)
      BY <2>1, <3>1
    <3>6. QED
      BY <3>4, <3>5
  <2>6. CASE k = d
    <3>1. Upto(k + 1, d) = n /\ Beyond(k + 1, d) = x /\ ~(d < k) /\ d < k + 1
      BY <1>1, <2>1, <2>6 DEF Upto, Beyond
    <3>2. c = "."
      BY <2>6
    <3>3. M(k + 1) = M(k)
      BY <3>1 DEF Memory
    <3>4. ParseByte(OnStem(M(k), n, x), k) = OnExt(M(k), n, x)
      <4> HIDE DEF M, c, n, x, Z
      <4>1. QED
        BY <2>3, <3>2, DotByte
    <3>5. Z[k] = OnStem(M(k), n, x) /\ Z[k + 1] = OnExt(M(k + 1), n, x)
      BY <2>1, <3>1
    <3>6. QED
      BY <3>3, <3>4, <3>5
  <2>7. CASE k > d
    <3>1. Upto(k + 1, d) = n /\ Beyond(k + 1, d) = x + 1 /\ d < k /\ d < k + 1 /\ x = k - d - 1
      BY <1>1, <2>1, <2>7 DEF Upto, Beyond
    <3>2. c # "." /\ x # ExtLength + 1
      BY <1>1, <2>1, <2>2, <2>7
    <3>3. M(k + 1) = [M(k) EXCEPT ![x] = c]
      <4> DEFINE E == [M(k) EXCEPT ![x] = c]
      <4>1. ASSUME NEW p \in Memories
            PROVE  M(k + 1)[p] = E[p]
        <5>1. CASE p = x
          <6>1. p \notin TargetName .. TargetName + Upto(k + 1, d) - 1 /\ p < Beyond(k + 1, d)
                /\ At(row) + d + 1 + p = At(row) + k
            BY <1>1, <2>1, <2>2, <3>1, <5>1
          <6>2. M(k + 1)[p] = c
            BY <6>1 DEF Memory
          <6>3. E[p] = c
            BY <2>4, <5>1
          <6>4. QED
            BY <6>2, <6>3
        <5>2. CASE p # x
          <6>1. p < Beyond(k + 1, d) <=> p < Beyond(k, d)
            BY <1>1, <2>1, <2>2, <3>1, <5>2 DEF Memories
          <6>2. E[p] = M(k)[p]
            BY <2>4, <5>2
          <6>3. QED
            BY <3>1, <6>1, <6>2 DEF Memory
        <5>3. QED
          BY <5>1, <5>2
      <4>2. M(k + 1) = [p \in Memories |-> M(k + 1)[p]] /\ E = [p \in Memories |-> E[p]]
        BY DEF Memory
      <4> HIDE DEF M, E
      <4>3. QED
        BY <4>1, <4>2 DEF E
    <3>4. ParseByte(OnExt(M(k), n, x), k) = OnExt(M(k + 1), n, x + 1)
      <4> HIDE DEF M, c, n, x, Z
      <4>1. QED
        BY <2>3, <3>2, <3>3, ExtByte
    <3>5. Z[k] = OnExt(M(k), n, x) /\ Z[k + 1] = OnExt(M(k + 1), n, x + 1)
      BY <2>1, <3>1
    <3>6. QED
      BY <3>4, <3>5
  <2>8. QED
    BY <1>1, <2>1, <2>5, <2>6, <2>7
<1>6. parse_file_cmd(row) = Z[FullName].m
  <2> HIDE DEF Z
  <2>1. QED
    BY <1>4, <1>5, ParseIs
<1>7. QED
  BY <1>1, <1>6 DEF OnStem, OnExt

\* What parse_file_cmd makes of a row that has the word w alone.
LEMMA NameApart ==
    ASSUME NEW row \in 0 .. Rows - 1, NEW w, HasRow(cmd, row, w)
    PROVE  LET m    == parse_file_cmd(row)
               stem == StringAt(m, TargetName)
               ext  == StringAt(m, 0)
           IN  /\ Dots(w) = {} /\ Len(w) <= NameLength => stem = w /\ ext = <<>>
               /\ \A d \in Dots(w) :
                     /\ Dots(w) = {d} /\ d - 1 \in {NameLength - 1, NameLength} /\ Len(w) - d <= ExtLength
                     => stem = SubSeq(w, 1, d - 1) /\ ext = SubSeq(w, d + 1, Len(w))
<1> DEFINE m == parse_file_cmd(row)
           a == At(row)
           n == Len(w)
<1>1. /\ FullName \in Nat /\ NameLength \in Nat /\ ExtLength \in Nat /\ Columns \in Nat /\ Columns >= FullName
      /\ FullName = NameLength + ExtLength + 1 /\ NameLength > 0 /\ ExtLength > 0
      /\ TargetName = ExtLength + 1 /\ TargetFull = TargetName + NameLength + 1
      /\ TargetName \in Nat /\ TargetFull \in Nat /\ Memories = 0 .. TargetFull + FullName - 1
  BY Sizes DEF TargetName, TargetFull, Memories
<1>2. w \in Seq(Chars) /\ n \in Nat /\ n < Columns /\ DOMAIN w = 1 .. n
  BY LenProperties DEF HasRow
<1>3. row \in Nat /\ a \in Nat
  BY Sizes, RowCells
<1>4. ASSUME NEW q \in 0 .. Columns - 1
      PROVE  cmd[a + q] = IF q < n THEN w[q + 1] ELSE NUL
  <2>1. CASE q < n
    <3>1. q + 1 \in 1 .. n /\ a + (q + 1) - 1 = a + q
      BY <1>2, <1>3, <2>1
    <3>2. w[q + 1] = cmd[a + (q + 1) - 1]
      BY <3>1 DEF HasRow
    <3>3. QED
      BY <2>1, <3>1, <3>2
  <2>2. CASE ~(q < n)
    <3>1. q \in n .. Columns - 1
      BY <1>2, <2>2
    <3>2. QED
      BY <2>2, <3>1 DEF HasRow
  <2>3. QED
    BY <2>1, <2>2
<1>5. \A k \in 1 .. n : w[k] # NUL /\ w[k] \in Chars
  BY <1>2 DEF HasRow
<1> HIDE DEF m, a, n
<1>6. \A p \in Memories : p < TargetFull => Arrays(row)[p] = NUL
  BY DEF Arrays, Memories
<1>7. ASSUME Dots(w) = {}, n <= NameLength
      PROVE  StringAt(m, TargetName) = w /\ StringAt(m, 0) = <<>>
  <2>1. \A k \in 1 .. n : w[k] # "."
    BY <1>2, <1>7 DEF Dots
  <2>2. \A q \in 0 .. FullName - 1 : cmd[a + q] = "." <=> q = FullName
    <3> TAKE q \in 0 .. FullName - 1
    <3>1. q \in 0 .. Columns - 1 /\ q # FullName /\ (q < n => q + 1 \in 1 .. n)
      BY <1>1, <1>2
    <3>2. cmd[a + q] # "."
      BY <1>4, <2>1, <3>1, Bytes
    <3>3. QED
      BY <3>1, <3>2
  <2>3. cmd[a + NameLength] = NUL
    <3>1. NameLength \in 0 .. Columns - 1 /\ ~(NameLength < n)
      BY <1>1, <1>2, <1>7
    <3>2. QED
      BY <1>4, <3>1
  <2>4. m = Memory(row, FullName, FullName)
    <3>1. FullName \in 0 .. FullName /\ FullName >= NameLength - 1
      BY <1>1
    <3>2. QED
      BY <1>3, <2>2, <2>3, <3>1, Parses DEF m, a
  <2>5. Upto(FullName, FullName) = FullName /\ Beyond(FullName, FullName) = 0
    BY <1>1 DEF Upto, Beyond
  <2>6. DOMAIN m = Memories /\ \A p \in Memories :
           m[p] = IF p \in TargetName .. TargetName + FullName - 1 THEN cmd[a + p - TargetName]
                  ELSE IF p < 0 THEN cmd[a + FullName + 1 + p] ELSE Arrays(row)[p]
    BY <2>4, <2>5 DEF Memory, a
  <2>7. Holds(m, TargetName, w)
    <3>1. ASSUME NEW q \in 0 .. n
          PROVE  TargetName + q \in Memories /\ m[TargetName + q] = cmd[a + q]
      <4> DEFINE p == TargetName + q
      <4>1. p \in Memories /\ p \in TargetName .. TargetName + FullName - 1 /\ a + p - TargetName = a + q
        BY <1>1, <1>2, <1>3, <1>7
      <4> HIDE DEF p
      <4>2. m[p] = cmd[a + q]
        BY <2>6, <4>1
      <4>3. QED
        BY <4>1, <4>2 DEF p
    <3>2. ASSUME NEW k \in 1 .. n
          PROVE  w[k] = m[TargetName + k - 1] /\ w[k] # NUL
      <4>1. k - 1 \in 0 .. n /\ k - 1 \in 0 .. Columns - 1 /\ k - 1 < n /\ k - 1 + 1 = k
            /\ TargetName + (k - 1) = TargetName + k - 1
        BY <1>1, <1>2
      <4>2. m[TargetName + (k - 1)] = cmd[a + (k - 1)] /\ cmd[a + (k - 1)] = w[k - 1 + 1]
        BY <1>4, <3>1, <4>1
      <4>3. QED
        BY <1>5, <4>1, <4>2
    <3>3. TargetName + n \in Memories /\ m[TargetName + n] = NUL
      <4>1. n \in 0 .. n /\ n \in 0 .. Columns - 1 /\ ~(n < n)
        BY <1>1, <1>2
      <4>2. QED
        BY <1>4, <3>1, <4>1
    <3>4. QED
      BY <2>6, <3>2, <3>3 DEF Holds, n
  <2>8. Holds(m, 0, <<>>)
    <3>1. 0 \in Memories /\ 0 \notin TargetName .. TargetName + FullName - 1 /\ 0 < TargetFull
      BY <1>1
    <3>2. m[0] = NUL
      BY <1>6, <2>6, <3>1
    <3>3. Len(<<>>) = 0
      OBVIOUS
    <3>4. QED
      BY <2>6, <3>1, <3>2, <3>3 DEF Holds
  <2>9. DOMAIN m \subseteq Int /\ TargetName \in Int /\ <<>> \in Seq(Chars)
    BY <1>1, <2>6
  <2>10. StringAt(m, TargetName) = w
    BY <1>2, <2>7, <2>9, StringIs
  <2>11. StringAt(m, 0) = <<>>
    <3> DEFINE none == <<>>
    <3>1. Holds(m, 0, none) /\ none \in Seq(Chars) /\ DOMAIN m \subseteq Int
      BY <2>8, <2>9
    <3> HIDE DEF none
    <3>2. StringAt(m, 0) = none
      BY <3>1, StringIs
    <3>3. QED
      BY <3>2 DEF none
  <2>12. QED
    BY <2>10, <2>11
<1>8. ASSUME NEW d \in Dots(w), Dots(w) = {d}, d - 1 \in {NameLength - 1, NameLength}, n - d <= ExtLength
      PROVE  StringAt(m, TargetName) = SubSeq(w, 1, d - 1) /\ StringAt(m, 0) = SubSeq(w, d + 1, n)
  <2> DEFINE z == d - 1
  <2>1. d \in 1 .. n /\ w[d] = "." /\ \A k \in 1 .. n : w[k] = "." <=> k = d
    BY <1>2, <1>8 DEF Dots
  <2>2. z \in Nat /\ z <= NameLength /\ z >= NameLength - 1 /\ z < n /\ z + 1 = d /\ z \in 0 .. FullName /\ z < FullName
    BY <1>1, <1>2, <1>8, <2>1
  <2> HIDE DEF z
  <2>3. \A q \in 0 .. FullName - 1 : cmd[a + q] = "." <=> q = z
    <3> TAKE q \in 0 .. FullName - 1
    <3>1. q \in 0 .. Columns - 1
      BY <1>1
    <3>2. CASE q < n
      <4>1. q + 1 \in 1 .. n /\ (q + 1 = d <=> q = z)
        BY <1>2, <2>2, <3>2
      <4>2. QED
        BY <1>4, <2>1, <3>1, <3>2, <4>1
    <3>3. CASE ~(q < n)
      <4>1. q # z
        BY <2>2, <3>3
      <4>2. QED
        BY <1>4, <3>1, <3>3, <4>1, Bytes
    <3>4. QED
      BY <3>2, <3>3
  <2>4. m = Memory(row, z, FullName)
    <3>1. ~(z > NameLength)
      BY <1>1, <2>2
    <3>2. QED
      BY <1>3, <2>2, <2>3, <3>1, Parses DEF m, a
  <2>5. Upto(FullName, z) = z /\ Beyond(FullName, z) = FullName - z - 1
    BY <1>1, <2>2 DEF Upto, Beyond
  <2>6. DOMAIN m = Memories /\ \A p \in Memories :
           m[p] = IF p \in TargetName .. TargetName + z - 1 THEN cmd[a + p - TargetName]
                  ELSE IF p < FullName - z - 1 THEN cmd[a + z + 1 + p] ELSE Arrays(row)[p]
    BY <2>4, <2>5 DEF Memory, a
  <2> DEFINE u == SubSeq(w, 1, d - 1)
             v == SubSeq(w, d + 1, n)
  <2>7. u \in Seq(Chars) /\ Len(u) = z /\ \A k \in 1 .. z : u[k] = w[k]
    <3>1. \A k \in 1 .. d - 1 : w[k] \in Chars
      BY <1>2, <1>5, <2>1
    <3>2. 1 \in Int /\ d - 1 \in Int /\ d - 1 = z /\ z - 1 + 1 = z
      BY <1>2, <2>1, <2>2
    <3>3. /\ u \in Seq(Chars) /\ Len(u) = IF 1 <= d - 1 THEN d - 1 - 1 + 1 ELSE 0
          /\ \A k \in 1 .. d - 1 - 1 + 1 : u[k] = w[1 + k - 1]
      BY <3>1, <3>2, SubSeqProperties
    <3> HIDE DEF u
    <3>4. Len(u) = z /\ d - 1 - 1 + 1 = z /\ \A k \in 1 .. z : 1 + k - 1 = k
      BY <2>2, <3>2, <3>3
    <3>5. QED
      BY <3>3, <3>4
  <2> DEFINE x == n - d
  <2>8. v \in Seq(Chars) /\ Len(v) = x /\ \A k \in 1 .. x : v[k] = w[d + k]
    <3>1. \A k \in d + 1 .. n : w[k] \in Chars
      BY <1>2, <1>5, <2>1
    <3>2. d + 1 \in Int /\ n \in Int
      BY <1>2, <2>1
    <3>3. /\ v \in Seq(Chars) /\ Len(v) = IF d + 1 <= n THEN n - (d + 1) + 1 ELSE 0
          /\ \A k \in 1 .. n - (d + 1) + 1 : v[k] = w[d + 1 + k - 1]
      BY <3>1, <3>2, SubSeqProperties
    <3> HIDE DEF v
    <3>4. Len(v) = x /\ n - (d + 1) + 1 = x /\ \A k \in 1 .. x : d + 1 + k - 1 = d + k
      BY <1>2, <2>1, <3>3
    <3>5. QED
      BY <3>3, <3>4
  <2>9. x \in Nat /\ x <= ExtLength
    BY <1>2, <1>8, <2>1
  <2> HIDE DEF u, v
  <2>10. Holds(m, TargetName, u)
    <3>1. ASSUME NEW k \in 1 .. z
          PROVE  u[k] = m[TargetName + k - 1] /\ u[k] # NUL
      <4> DEFINE p == TargetName + k - 1
      <4>1. /\ p \in Memories /\ p \in TargetName .. TargetName + z - 1 /\ a + p - TargetName = a + (k - 1)
            /\ k - 1 \in 0 .. Columns - 1 /\ k - 1 < n /\ k - 1 + 1 = k /\ k \in 1 .. n
        BY <1>1, <1>2, <1>3, <2>2
      <4> HIDE DEF p
      <4>2. m[p] = cmd[a + (k - 1)]
        BY <2>6, <4>1
      <4>3. cmd[a + (k - 1)] = w[k]
        BY <1>4, <4>1
      <4>4. QED
        BY <1>5, <2>7, <4>1, <4>2, <4>3 DEF p
    <3>2. TargetName + z \in Memories /\ m[TargetName + z] = NUL
      <4> DEFINE p == TargetName + z
      <4>1. p \in Memories /\ p \notin TargetName .. TargetName + z - 1 /\ ~(p < FullName - z - 1) /\ p < TargetFull
        BY <1>1, <2>2
      <4> HIDE DEF p
      <4>2. m[p] = NUL
        BY <1>6, <2>6, <4>1
      <4>3. QED
        BY <4>1, <4>2 DEF p
    <3>3. QED
      BY <2>6, <2>7, <3>1, <3>2 DEF Holds
  <2>11. Holds(m, 0, v)
    <3>1. ASSUME NEW k \in 1 .. x
          PROVE  v[k] = m[0 + k - 1] /\ v[k] # NUL
      <4> DEFINE p == 0 + k - 1
                 q == d + k - 1
      <4>1. /\ p \in Memories /\ p \notin TargetName .. TargetName + z - 1 /\ p < FullName - z - 1
            /\ a + z + 1 + p = a + q /\ q \in 0 .. Columns - 1 /\ q < n /\ q + 1 = d + k /\ d + k \in 1 .. n
        BY <1>1, <1>2, <1>3, <2>1, <2>2, <2>9
      <4> HIDE DEF p, q
      <4>2. m[p] = cmd[a + q]
        BY <2>6, <4>1
      <4>3. cmd[a + q] = w[d + k]
        BY <1>4, <4>1
      <4>4. QED
        BY <1>5, <2>8, <4>1, <4>2, <4>3 DEF p
    <3>2. x \in Memories /\ m[x] = NUL
      <4>1. x \in Memories /\ x \notin TargetName .. TargetName + z - 1 /\ x < TargetFull
        BY <1>1, <2>2, <2>9
      <4>2. CASE x < FullName - z - 1
        <5>1. m[x] = cmd[a + z + 1 + x]
          BY <2>6, <4>1, <4>2
        <5>2. a + z + 1 + x = a + n /\ n \in 0 .. Columns - 1 /\ ~(n < n)
          BY <1>1, <1>2, <1>3, <2>1, <2>2
        <5>3. QED
          BY <1>4, <4>1, <5>1, <5>2
      <4>3. CASE ~(x < FullName - z - 1)
        <5> HIDE DEF x
        <5>1. QED
          BY <1>6, <2>6, <4>1, <4>3
      <4>4. QED
        BY <4>2, <4>3
    <3>3. 0 + Len(v) = x
      BY <2>8, <2>9
    <3>4. QED
      BY <2>6, <2>8, <3>1, <3>2, <3>3 DEF Holds
  <2>12. DOMAIN m \subseteq Int /\ TargetName \in Int
    BY <1>1, <2>6
  <2>13. StringAt(m, TargetName) = u
    BY <2>7, <2>10, <2>12, StringIs
  <2>14. StringAt(m, 0) = v
    BY <2>8, <2>11, <2>12, StringIs
  <2>15. QED
    BY <2>13, <2>14 DEF u, v
<1>9. QED
  BY <1>7, <1>8 DEF m, n

(***************************************************************************)
(* The invariant                                                           *)
(***************************************************************************)
Trimmed == StringAt(input, 0)

\* The arrays have their bytes, and what lies behind the buffer stays.
Typed ==
    /\ line \in [Indices -> Chars] /\ input \in [0 .. Top -> Chars]
    /\ \A p \in KEYBOARD_BUFFER_SIZE .. Top : input[p] = Behind[p - KEYBOARD_BUFFER_SIZE + 1]
    /\ cmd \in [0 .. Rows * Columns - 1 -> Chars]
    /\ i \in Nat /\ neff \in Nat /\ neff <= Rows /\ cmd_length \in Nat

\* Nothing is split before the line is trimmed.
Blank ==
    /\ i = 0 /\ neff = 0 /\ cmd_length = 0
    /\ \A p \in 0 .. Rows * Columns - 1 : cmd[p] = NUL

\* The rows in use are one for each slash that was passed and kept, and two for
\* each space; if no word is longer than a row, each has a word.
Split ==
    /\ i \in 0 .. Len(Trimmed) /\ Starts(input, i)
    /\ input[i] # NUL => neff = Cardinality(Passed(Trimmed, i, "/")) + 2 * Cardinality(Passed(Trimmed, i, Space))
    /\ cmd_length = Cardinality(Passed(Trimmed, i, Space))
    /\ WordsFit(Trimmed) => Clean(cmd, neff)

SplitInv ==
    /\ Typed
    /\ pc \in {"trim", "split", "wild", "done", "parsed"}
    /\ pc = "trim" => Blank
    /\ pc \in {"split", "done", "parsed"} => Split
    /\ pc \in {"done", "parsed"} => input[i] = NUL
    /\ pc = "parsed" => parsed.row \in 0 .. neff - 1 /\ parsed.m = parse_file_cmd(parsed.row)
    /\ StaysInside

\* A buffer with the shell's other variables behind it holds a text.
LEMMA TextIs ==
    ASSUME NEW f \in [0 .. Top -> Chars], NEW t, t = StringAt(f, 0),
           \A p \in KEYBOARD_BUFFER_SIZE .. Top : f[p] = Behind[p - KEYBOARD_BUFFER_SIZE + 1]
    PROVE  Reads(f, t, Len(t))
<1>1. Top \in Nat /\ 0 \in 0 .. Top /\ Top \in 0 .. Top /\ Top \in KEYBOARD_BUFFER_SIZE .. Top
  BY Sizes
<1>2. f[Top] = NUL
  BY <1>1, BehindEnds
<1>3. t \in Seq(Chars) /\ Holds(f, 0, t) /\ Len(t) <= Top - 0
  BY <1>1, <1>2, StringEnds
<1> DEFINE n == Len(t)
<1>4. n \in Nat /\ DOMAIN t = 1 .. n /\ n <= Top /\ 0 + n = n
  BY <1>3, <1>1, LenProperties
<1>5. f[n] = NUL /\ \A k \in 1 .. n : t[k] = f[0 + k - 1] /\ t[k] # NUL
  BY <1>3, <1>4 DEF Holds
<1> HIDE DEF n
<1>6. n \in 0 .. Top /\ \A k \in 1 .. n : 0 + k - 1 = k - 1
  BY <1>1, <1>4
<1>7. \A k \in 1 .. n : t[k] = f[k - 1] /\ t[k] # NUL
  BY <1>5, <1>6
<1>8. Reads(f, t, n)
  BY <1>2, <1>3, <1>4, <1>5, <1>6, <1>7 DEF Reads, n
<1>9. QED
  BY <1>8 DEF n

\* The buffer holds its text at every step.
LEMMA TrimmedIs ==
    ASSUME Typed
    PROVE  Reads(input, Trimmed, Len(Trimmed))
  BY TextIs DEF Typed, Trimmed

\* Rows that are written lie within cmd.
LEMMA RowsWithin ==
    ASSUME Typed, NEW e \in Nat, i <= e, DOMAIN RowBytes(e) \subseteq DOMAIN cmd
    PROVE  neff < Rows /\ (input[e] = Space => neff + 1 < Rows) /\ NextRow(e) \in Nat /\ NextRow(e) <= Rows
<1>1. DOMAIN RowBytes(e) = (At(neff) .. At(neff) + e - i) \cup (IF input[e] = Space THEN {At(neff + 1)} ELSE {})
  BY DEF RowBytes
<1>2. DOMAIN cmd = 0 .. Rows * Columns - 1 /\ neff \in Nat /\ i \in Nat /\ neff + 1 \in Nat /\ Rows \in Nat
  BY Sizes DEF Typed
<1>3. At(neff) \in Nat
  BY <1>2, RowCells
<1>4. At(neff) \in DOMAIN RowBytes(e)
  BY <1>1, <1>2, <1>3
<1>5. neff < Rows
  BY <1>2, <1>4, RowWithin
<1>6. input[e] = Space => neff + 1 < Rows
  <2>1. input[e] = Space => At(neff + 1) \in DOMAIN RowBytes(e)
    BY <1>1
  <2>2. QED
    BY <1>2, <2>1, RowWithin
<1>7. QED
  BY <1>2, <1>5, <1>6 DEF NextRow

\* What is written are bytes.
LEMMA WrittenTyped ==
    ASSUME Typed, NEW e \in 0 .. Top, i <= e
    PROVE  Written(e) \in [0 .. Rows * Columns - 1 -> Chars]
<1>1. i \in Nat /\ neff \in Nat /\ input \in [0 .. Top -> Chars] /\ cmd \in [0 .. Rows * Columns - 1 -> Chars]
      /\ Top \in Nat
  BY Sizes DEF Typed
<1>2. At(neff) \in Nat
  BY <1>1, RowCells
<1>3. ASSUME NEW p \in DOMAIN RowBytes(e)
      PROVE  RowBytes(e)[p] \in Chars
  <2> DEFINE D == (At(neff) .. At(neff) + e - i) \cup (IF input[e] = Space THEN {At(neff + 1)} ELSE {})
  <2>1. p \in D
    BY DEF RowBytes
  <2>2. RowBytes(e)[p] = IF input[e] = Space /\ p = At(neff + 1) THEN Space
                         ELSE IF p = At(neff) + e - i THEN NUL ELSE input[i + p - At(neff)]
    BY <2>1 DEF RowBytes
  <2>3. CASE input[e] = Space /\ p = At(neff + 1)
    BY <2>2, <2>3, Bytes
  <2>4. CASE ~(input[e] = Space /\ p = At(neff + 1))
    <3>1. p \in At(neff) .. At(neff) + e - i
      BY <2>1, <2>4
    <3>2. i + p - At(neff) \in 0 .. Top
      BY <1>1, <1>2, <3>1
    <3>3. QED
      BY <1>1, <2>2, <2>4, <3>2, Bytes
  <2>5. QED
    BY <2>3, <2>4
<1>4. QED
  BY <1>1, <1>3 DEF Written

\* A round of the loop, as the lemmas have it.
LEMMA SplitWordIs ==
    ASSUME Typed, SplitWord
    PROVE  /\ pc = "split" /\ input[i] # NUL
           /\ UNCHANGED <<line, input, parsed, pc>>
           /\ \E e, b : /\ Ends(input, i, e, b) /\ DOMAIN RowBytes(e) \subseteq DOMAIN cmd
                        /\ cmd' = Written(e) /\ i' = Onwards(input, b) /\ neff' = NextRow(e)
                        /\ cmd_length' = cmd_length + (IF input[e] = Space THEN 1 ELSE 0)
<1>1. input \in [0 .. Top -> Chars]
  BY DEF Typed
<1>2. PICK e \in Next_(i, Separators) : \E b \in Next_(e, Chars \ {Space}) :
          /\ DOMAIN RowBytes(e) \subseteq DOMAIN cmd
          /\ cmd' = [p \in DOMAIN cmd |-> IF p \in DOMAIN RowBytes(e) THEN RowBytes(e)[p] ELSE cmd[p]]
          /\ i' = IF input[b] = "/" THEN b + 1 ELSE b
          /\ neff' = neff + (IF input[e] = Space THEN 2 ELSE 1)
          /\ cmd_length' = cmd_length + (IF input[e] = Space THEN 1 ELSE 0)
  BY DEF SplitWord
<1>3. PICK b \in Next_(e, Chars \ {Space}) :
          /\ DOMAIN RowBytes(e) \subseteq DOMAIN cmd
          /\ cmd' = [p \in DOMAIN cmd |-> IF p \in DOMAIN RowBytes(e) THEN RowBytes(e)[p] ELSE cmd[p]]
          /\ i' = IF input[b] = "/" THEN b + 1 ELSE b
          /\ neff' = neff + (IF input[e] = Space THEN 2 ELSE 1)
          /\ cmd_length' = cmd_length + (IF input[e] = Space THEN 1 ELSE 0)
  BY <1>2
<1>4. e \in 0 .. Top /\ e >= i /\ input[e] \in Separators /\ \A q \in i .. e - 1 : input[q] \notin Separators
  BY <1>1 DEF Next_
<1>5. b \in 0 .. Top /\ b >= e /\ input[b] # Space /\ \A q \in e .. b - 1 : input[q] \notin Chars \ {Space}
  BY <1>1 DEF Next_
<1>6. \A q \in e .. b - 1 : input[q] = Space
  <2> TAKE q \in e .. b - 1
  <2>1. q \in 0 .. Top
    BY <1>4, <1>5, Sizes
  <2>2. QED
    BY <1>1, <1>5, <2>1
<1>7. Ends(input, i, e, b)
  BY <1>4, <1>5, <1>6 DEF Ends
<1>8. cmd' = Written(e) /\ i' = Onwards(input, b) /\ neff' = NextRow(e)
  BY <1>3 DEF Written, Onwards, NextRow
<1>9. pc = "split" /\ input[i] # NUL /\ UNCHANGED <<line, input, parsed, pc>>
  BY DEF SplitWord
<1>10. QED
  BY <1>7, <1>8, <1>9, <1>3

\* Behind a word there is a byte that is no space.
LEMMA BreakExists ==
    ASSUME Typed, NEW e \in Next_(i, Separators)
    PROVE  \E b : Ends(input, i, e, b)
<1>1. input \in [0 .. Top -> Chars] /\ Top \in Nat /\ input[Top] = NUL
  <2>1. Top \in KEYBOARD_BUFFER_SIZE .. Top /\ Top \in Nat
    BY Sizes
  <2>2. QED
    BY <2>1, BehindEnds DEF Typed
<1>2. e \in 0 .. Top /\ e >= i /\ input[e] \in Separators /\ \A q \in i .. e - 1 : input[q] \notin Separators
  BY <1>1 DEF Next_
<1> DEFINE T == {p \in Nat : p >= e /\ p <= Top /\ input[p] # Space}
<1>3. Top \in T /\ T \in SUBSET Nat
  BY <1>1, <1>2, Bytes
<1>4. PICK b \in T : \A q \in T : b <= q
  <2> HIDE DEF T
  <2>1. QED
    BY <1>3, LeastNatural
<1>5. \A q \in e .. b - 1 : input[q] = Space
  <2> TAKE q \in e .. b - 1
  <2>1. q \in Nat /\ q >= e /\ q <= Top /\ q < b
    BY <1>1, <1>2, <1>4
  <2>2. q \notin T
    <3>1. \A k \in T : ~(k < b)
      BY <1>4
    <3>2. QED
      BY <2>1, <3>1
  <2>3. QED
    BY <2>1, <2>2
<1>6. b \in 0 .. Top /\ b >= e /\ input[b] # Space
  BY <1>1, <1>4
<1>7. QED
  BY <1>2, <1>5, <1>6 DEF Ends

\* A round keeps what is said of the splitting.
LEMMA SplitWordKept ==
    ASSUME Typed, Split, SplitWord
    PROVE  Typed' /\ Split'
<1> DEFINE t == Trimmed
           L == Len(t)
<1>1. Reads(input, t, L) /\ L \in Nat /\ Top \in Nat /\ L <= Top /\ input[L] = NUL
  BY TrimmedIs, Sizes DEF Reads
<1>2. i \in 0 .. L /\ input[i] # NUL /\ Starts(input, i) /\ i \in Nat /\ UNCHANGED <<line, input>>
  BY SplitWordIs DEF Split, Typed
<1>3. PICK e, b : /\ Ends(input, i, e, b) /\ DOMAIN RowBytes(e) \subseteq DOMAIN cmd
                  /\ cmd' = Written(e) /\ i' = Onwards(input, b) /\ neff' = NextRow(e)
                  /\ cmd_length' = cmd_length + (IF input[e] = Space THEN 1 ELSE 0)
  BY SplitWordIs
<1> DEFINE o == Onwards(input, b)
<1> HIDE DEF t, L, o
<1>4. /\ e \in i .. L /\ o \in e .. L /\ Starts(input, o)
      /\ input[e] = NUL => o = L
  BY <1>1, <1>2, <1>3, Round DEF o
<1>5. e \in Nat /\ e \in 0 .. Top /\ i <= e /\ o \in 0 .. L /\ o \in Nat /\ input[e] \in {Space, "/", NUL}
  BY <1>1, <1>2, <1>3, <1>4 DEF Ends, Separators
<1>6. Typed'
  <2>1. cmd' \in [0 .. Rows * Columns - 1 -> Chars]
    BY <1>3, <1>5, WrittenTyped
  <2>2. neff' \in Nat /\ neff' <= Rows
    BY <1>3, <1>5, RowsWithin
  <2>3. i' \in Nat /\ cmd_length' \in Nat
    BY <1>3, <1>5 DEF o, Typed
  <2>4. QED
    BY <1>2, <2>1, <2>2, <2>3 DEF Typed
<1> DEFINE S1(j) == Cardinality(Passed(t, j, "/"))
           S2(j) == Cardinality(Passed(t, j, Space))
<1>7. S1(i) \in Nat /\ S2(i) \in Nat
  BY <1>1, PassedFinite
<1>8. /\ neff = S1(i) + 2 * S2(i) /\ cmd_length = S2(i)
  BY <1>2 DEF Split, t
<1>9. /\ input[e] = Space => S2(o) = S2(i) + 1 /\ S1(o) = S1(i)
      /\ input[e] # Space => S2(o) = S2(i)
      /\ input[e] # Space /\ o # L => S1(o) = S1(i) + 1
  BY <1>1, <1>2, <1>3, RoundPasses DEF o
<1> HIDE DEF S1, S2
<1>10. cmd_length' = S2(o)
  BY <1>3, <1>7, <1>8, <1>9
<1>11. input[o] # NUL => neff' = S1(o) + 2 * S2(o)
  <2> HAVE input[o] # NUL
  <2>1. o # L /\ input[e] # NUL
    BY <1>1, <1>4
  <2>2. CASE input[e] = Space
    BY <2>2, <1>3, <1>7, <1>8, <1>9 DEF NextRow
  <2>3. CASE input[e] = "/"
    <3>1. input[e] # Space
      BY <2>3, Bytes
    <3>2. QED
      BY <2>1, <3>1, <1>3, <1>7, <1>8, <1>9 DEF NextRow
  <2>4. QED
    BY <2>1, <2>2, <2>3, <1>5
<1>12. WordsFit(t) => Clean(cmd', neff')
  <2> HAVE WordsFit(t)
  <2>1. e - i < Columns
    BY <1>1, <1>2, <1>3, RoundFits
  <2>2. Clean(cmd, neff)
    BY DEF Split, t
  <2>3. Clean(Written(e), NextRow(e))
    BY <1>1, <1>2, <1>3, <1>4, <2>1, <2>2, RowsWritten DEF Typed
  <2>4. QED
    BY <1>3, <2>3
<1>13. Split'
  <2>1. Trimmed' = t /\ input' = input /\ i' = o
    BY <1>2, <1>3 DEF Trimmed, t, o
  <2>2. Len(Trimmed') = L
    BY <2>1 DEF L
  <2>3. /\ i' \in 0 .. Len(Trimmed') /\ Starts(input', i')
        /\ cmd_length' = Cardinality(Passed(Trimmed', i', Space))
    BY <1>4, <1>5, <1>10, <2>1, <2>2 DEF S2
  <2>4. input'[i'] # NUL => neff' = Cardinality(Passed(Trimmed', i', "/")) + 2 * Cardinality(Passed(Trimmed', i', Space))
    BY <1>11, <2>1 DEF S1, S2
  <2>5. WordsFit(Trimmed') => Clean(cmd', neff')
    BY <1>12, <2>1
  <2>6. QED
    BY <2>3, <2>4, <2>5 DEF Split
<1>14. QED
  BY <1>6, <1>13

\* A row outside of cmd: the separators of the text need more rows than there are.
LEMMA RunsOver ==
    ASSUME Typed, Split, RunOver, WordsFit(Trimmed)
    PROVE  1 + CountKept(Trimmed, "/") + 2 * CountKept(Trimmed, Space) > Rows
<1> DEFINE t == Trimmed
           L == Len(t)
<1>1. Reads(input, t, L) /\ L \in Nat /\ input[L] = NUL
  BY TrimmedIs, Sizes DEF Reads
<1>2. i \in 0 .. L /\ input[i] # NUL /\ Starts(input, i) /\ i \in Nat /\ neff \in Nat
  BY DEF Split, RunOver, Typed
<1>3. PICK e \in Next_(i, Separators) : ~(DOMAIN RowBytes(e) \subseteq DOMAIN cmd)
  BY DEF RunOver
<1>4. PICK b : Ends(input, i, e, b)
  BY BreakExists
<1> DEFINE o  == Onwards(input, b)
           k1 == Cardinality(Passed(t, i, "/"))
           k2 == Cardinality(Passed(t, i, Space))
           n1 == CountKept(t, "/")
           n2 == CountKept(t, Space)
<1> HIDE DEF t, L, o
<1>5. e - i < Columns /\ e \in i .. L
  <2>1. WordsFit(t)
    BY DEF t
  <2>2. QED
    BY <2>1, <1>1, <1>2, <1>4, Round, RoundFits
<1>6. k1 \in Nat /\ k2 \in Nat /\ n1 \in Nat /\ n2 \in Nat /\ k1 <= n1 /\ k2 <= n2
  BY <1>1, PassedFinite
<1>7. neff = k1 + 2 * k2
  BY <1>2 DEF Split, t
<1>8. input[e] = Space => k2 + 1 <= n2
  <2>1. input[e] = Space => Cardinality(Passed(t, o, Space)) = k2 + 1
    BY <1>1, <1>2, <1>4, RoundPasses DEF o
  <2>2. Cardinality(Passed(t, o, Space)) <= n2
    BY <1>1, PassedFinite
  <2>3. QED
    BY <2>1, <2>2
<1>9. ~(neff < Rows /\ (input[e] = Space => neff + 1 < Rows))
  <2> SUFFICES ASSUME neff < Rows, input[e] = Space => neff + 1 < Rows
               PROVE  DOMAIN RowBytes(e) \subseteq DOMAIN cmd
    BY <1>3
  <2>1. DOMAIN RowBytes(e) = (At(neff) .. At(neff) + e - i) \cup (IF input[e] = Space THEN {At(neff + 1)} ELSE {})
    BY DEF RowBytes
  <2>2. DOMAIN cmd = 0 .. Rows * Columns - 1
    BY DEF Typed
  <2>3. neff \in 0 .. Rows - 1 /\ At(neff) \in Nat /\ Rows \in Nat /\ Columns \in Nat /\ Columns > 0
    <3>1. Rows \in Nat /\ Columns \in Nat /\ Columns > 0
      BY Sizes
    <3>2. At(neff) \in Nat
      BY <1>2, RowCells
    <3>3. QED
      BY <1>2, <3>1, <3>2
  <2>4. ASSUME NEW p \in At(neff) .. At(neff) + e - i
        PROVE  p \in DOMAIN cmd
    <3> DEFINE q == p - At(neff)
    <3>1. q \in 0 .. Columns - 1 /\ At(neff) + q = p
      BY <1>2, <1>5, <2>3
    <3> HIDE DEF q
    <3>2. At(neff) + q \in 0 .. Rows * Columns - 1
      BY <2>3, <3>1, RowCells
    <3>3. QED
      BY <2>2, <3>1, <3>2
  <2>5. input[e] = Space => At(neff + 1) \in DOMAIN cmd
    <3> HAVE input[e] = Space
    <3>1. neff + 1 \in 0 .. Rows - 1 /\ neff + 1 \in Nat /\ 0 \in 0 .. Columns - 1
      BY <2>3
    <3>2. At(neff + 1) + 0 \in 0 .. Rows * Columns - 1 /\ At(neff + 1) \in Nat
      BY <3>1, RowCells
    <3>3. QED
      BY <2>2, <3>2
  <2>6. QED
    BY <2>1, <2>4, <2>5
<1> HIDE DEF k1, k2, n1, n2
<1>10. 1 + n1 + 2 * n2 > Rows
  <2>1. Rows \in Nat
    BY Sizes
  <2>2. CASE ~(neff < Rows)
    BY <1>6, <1>7, <2>1, <2>2
  <2>3. CASE input[e] = Space /\ ~(neff + 1 < Rows)
    BY <1>6, <1>7, <1>8, <2>1, <2>3
  <2>4. QED
    BY <1>9, <2>2, <2>3
<1>11. QED
  BY <1>10 DEF n1, n2, t

\* The shell's arrays before the first byte is looked at.
LEMMA SplitInit == WordsInit => SplitInv
<1> SUFFICES ASSUME WordsInit PROVE SplitInv
  OBVIOUS
<1>1. Rows \in Nat /\ KEYBOARD_BUFFER_SIZE \in Nat /\ Top \in Nat /\ KEYBOARD_BUFFER_SIZE < Top
  BY Sizes
<1>2. input = [p \in 0 .. Top |-> IF p \in Indices THEN line[p] ELSE Behind[p - KEYBOARD_BUFFER_SIZE + 1]]
      /\ line \in [Indices -> Chars]
  BY DEF WordsInit, Top
<1>3. \A p \in 0 .. Top : p \notin Indices => p \in KEYBOARD_BUFFER_SIZE .. Top
  BY <1>1 DEF Indices
<1>4. input \in [0 .. Top -> Chars]
  BY <1>2, <1>3, BehindEnds
<1>5. \A p \in KEYBOARD_BUFFER_SIZE .. Top : input[p] = Behind[p - KEYBOARD_BUFFER_SIZE + 1]
  <2> TAKE p \in KEYBOARD_BUFFER_SIZE .. Top
  <2>1. p \in 0 .. Top /\ p \notin Indices
    BY <1>1 DEF Indices
  <2>2. QED
    BY <1>2, <2>1
<1>6. cmd \in [0 .. Rows * Columns - 1 -> Chars] /\ \A p \in 0 .. Rows * Columns - 1 : cmd[p] = NUL
  BY Bytes DEF WordsInit
<1>7. i = 0 /\ neff = 0 /\ cmd_length = 0 /\ pc = "trim"
  BY DEF WordsInit
<1>8. i \in Nat /\ neff \in Nat /\ neff <= Rows /\ cmd_length \in Nat
  BY <1>1, <1>7
<1>9. Typed
  BY <1>2, <1>4, <1>5, <1>6, <1>8 DEF Typed
<1>10. QED
  BY <1>6, <1>7, <1>9 DEF SplitInv, Blank, StaysInside

\* After the trimming nothing is passed yet.
LEMMA TrimRightKept ==
    ASSUME Typed, Blank, TrimRight
    PROVE  Typed' /\ Split'
<1>1. input' = [p \in DOMAIN input |-> IF p \in Trailing THEN NUL ELSE input[p]] /\ input[0] # Space
      /\ UNCHANGED <<line, cmd, i, neff, cmd_length>>
  BY DEF TrimRight
<1>2. Trailing \subseteq Indices
  BY DEF Trailing
<1>3. input' \in [0 .. Top -> Chars]
  BY <1>1, Bytes DEF Typed
<1>4. \A p \in KEYBOARD_BUFFER_SIZE .. Top : input'[p] = Behind[p - KEYBOARD_BUFFER_SIZE + 1]
  <2> TAKE p \in KEYBOARD_BUFFER_SIZE .. Top
  <2>1. p \in 0 .. Top /\ p \notin Indices
    BY Sizes DEF Indices
  <2>2. QED
    BY <1>1, <1>2, <2>1 DEF Typed
<1>5. Typed'
  BY <1>1, <1>3, <1>4 DEF Typed
<1>6. Reads(input', Trimmed', Len(Trimmed'))
  <2>1. Trimmed' = StringAt(input', 0)
    BY DEF Trimmed
  <2>2. QED
    BY <1>3, <1>4, <2>1, TextIs
<1> DEFINE t == Trimmed'
<1>7. Len(t) \in Nat /\ DOMAIN t = 1 .. Len(t)
  BY <1>6, Sizes DEF Reads
<1> HIDE DEF t
<1>8. \A c : Passed(t, 0, c) = {}
  BY <1>7 DEF Passed, Kept
<1>9. \A c : Cardinality(Passed(t, 0, c)) = 0
  BY <1>8, FS_EmptySet
<1>10. i' = 0 /\ neff' = 0 /\ cmd_length' = 0
  BY <1>1 DEF Blank
<1>11. Starts(input', 0)
  <2>1. 0 \in 0 .. Top
    BY Sizes
  <2>2. input'[0] # Space
    BY <1>1, <2>1, Bytes DEF Typed
  <2>3. QED
    BY <2>2 DEF Starts
<1>12. Clean(cmd', 0)
  <2>1. At(0) \in Nat /\ At(Rows) = Rows * Columns
    BY RowCells
  <2>2. \A p \in At(0) .. At(Rows) - 1 : cmd'[p] = NUL
    BY <1>1, <2>1 DEF Blank
  <2>3. QED
    BY <2>2 DEF Clean
<1>13. /\ i' \in 0 .. Len(Trimmed') /\ Starts(input', i')
       /\ cmd_length' = Cardinality(Passed(Trimmed', i', Space))
       /\ neff' = Cardinality(Passed(Trimmed', i', "/")) + 2 * Cardinality(Passed(Trimmed', i', Space))
       /\ Clean(cmd', neff')
  BY <1>7, <1>9, <1>10, <1>11, <1>12 DEF t
<1>14. Split'
  BY <1>13 DEF Split
<1>15. QED
  BY <1>5, <1>14

\* Each step keeps the invariant.
LEMMA SplitStep == SplitInv /\ [WordsNext]_wordsVars => SplitInv'
<1> SUFFICES ASSUME SplitInv, [WordsNext]_wordsVars PROVE SplitInv'
  OBVIOUS
<1>1. Typed
  BY DEF SplitInv
<1>2. ASSUME UNCHANGED <<input, cmd, i, neff, cmd_length>>
      PROVE  (Split => Split') /\ Trimmed' = Trimmed /\ (line' = line => Typed')
  <2>1. Trimmed' = Trimmed
    BY <1>2 DEF Trimmed
  <2>2. Split => Split'
    BY <1>2, <2>1 DEF Split
  <2>3. line' = line => Typed'
    BY <1>1, <1>2 DEF Typed
  <2>4. QED
    BY <2>1, <2>2, <2>3
<1>3. CASE TrimLeft
  <2>1. /\ input' = [p \in DOMAIN input |-> IF p \in Indices THEN input[p + 1] ELSE input[p]]
        /\ pc = "trim" /\ UNCHANGED <<line, cmd, i, neff, cmd_length, parsed, pc>>
    BY <1>3 DEF TrimLeft
  <2>2. \A p \in Indices : p \in 0 .. Top /\ p + 1 \in 0 .. Top
    BY Sizes DEF Indices
  <2>3. input' \in [0 .. Top -> Chars]
    BY <1>1, <2>1, <2>2 DEF Typed
  <2>4. \A p \in KEYBOARD_BUFFER_SIZE .. Top : p \in 0 .. Top /\ p \notin Indices
    BY Sizes DEF Indices
  <2>5. \A p \in KEYBOARD_BUFFER_SIZE .. Top : input'[p] = Behind[p - KEYBOARD_BUFFER_SIZE + 1]
    BY <1>1, <2>1, <2>4 DEF Typed
  <2>6. Typed'
    BY <1>1, <2>1, <2>3, <2>5 DEF Typed
  <2>7. Blank'
    BY <2>1 DEF SplitInv, Blank
  <2>8. QED
    BY <2>1, <2>6, <2>7 DEF SplitInv, StaysInside
<1>4. CASE TrimRight
  <2>1. pc = "trim" /\ pc' = "split"
    BY <1>4 DEF TrimRight
  <2>2. Typed' /\ Split'
    BY <1>1, <1>4, <2>1, TrimRightKept DEF SplitInv
  <2>3. QED
    BY <2>1, <2>2 DEF SplitInv, StaysInside
<1>5. CASE SplitWord
  <2>1. pc = "split" /\ pc' = "split"
    BY <1>1, <1>5, SplitWordIs
  <2>2. Typed' /\ Split'
    BY <1>1, <1>5, <2>1, SplitWordKept DEF SplitInv
  <2>3. QED
    BY <2>1, <2>2 DEF SplitInv, StaysInside
<1>6. CASE RunOver
  <2>1. pc = "split" /\ pc' = "wild" /\ UNCHANGED <<line, input, cmd, i, neff, cmd_length, parsed>>
    BY <1>6 DEF RunOver
  <2>2. Split
    BY <2>1 DEF SplitInv
  <2>3. WordsFit(Trimmed) => 1 + CountKept(Trimmed, "/") + 2 * CountKept(Trimmed, Space) > Rows
    BY <1>1, <1>6, <2>2, RunsOver
  <2>4. Typed' /\ Trimmed' = Trimmed
    BY <1>2, <2>1
  <2>5. StaysInside'
    <3>1. input' = input
      BY <2>1
    <3>2. QED
      BY <2>3, <3>1 DEF StaysInside, Trimmed
  <2>6. QED
    BY <2>1, <2>4, <2>5 DEF SplitInv
<1>7. CASE EndSplit
  <2>1. pc = "split" /\ pc' = "done" /\ input[i] = NUL
        /\ UNCHANGED <<line, input, cmd, i, neff, cmd_length, parsed>>
    BY <1>7 DEF EndSplit
  <2>2. Typed' /\ Split'
    BY <1>2, <2>1 DEF SplitInv
  <2>3. QED
    BY <2>1, <2>2 DEF SplitInv, StaysInside
<1>8. CASE ParseFile
  <2>1. /\ pc = "done" /\ pc' = "parsed" /\ UNCHANGED <<line, input, cmd, i, neff, cmd_length>>
        /\ \E row \in 0 .. neff - 1 : parsed' = [row |-> row, m |-> parse_file_cmd(row)]
    BY <1>8 DEF ParseFile
  <2>2. Typed' /\ Split' /\ input[i] = NUL
    BY <1>2, <2>1 DEF SplitInv
  <2>3. PICK row \in 0 .. neff - 1 : parsed' = [row |-> row, m |-> parse_file_cmd(row)]
    BY <2>1
  <2>4. parsed'.row \in 0 .. neff' - 1 /\ parsed'.m = parse_file_cmd(row) /\ parsed'.row = row
    BY <2>1, <2>3
  <2>5. cmd' = cmd
    BY <2>1
  <2>6. (parsed.m = parse_file_cmd(parsed.row))'
    BY <2>4, <2>5 DEF parse_file_cmd, Arrays
  <2>7. QED
    BY <2>1, <2>2, <2>4, <2>6 DEF SplitInv, StaysInside
<1>9. CASE UNCHANGED wordsVars
  <2>1. UNCHANGED <<line, input, cmd, i, neff, cmd_length, parsed, pc>>
    BY <1>9 DEF wordsVars
  <2>2. Typed' /\ (Split => Split') /\ Trimmed' = Trimmed
    BY <1>2, <2>1
  <2>3. (pc = "parsed" => parsed.row \in 0 .. neff - 1 /\ parsed.m = parse_file_cmd(parsed.row))'
    BY <2>1 DEF SplitInv, parse_file_cmd, Arrays
  <2>4. StaysInside'
    BY <2>1 DEF SplitInv, StaysInside
  <2>5. Blank => Blank'
    BY <2>1 DEF Blank
  <2>6. QED
    BY <2>1, <2>2, <2>3, <2>4, <2>5 DEF SplitInv
<1>10. QED
  BY <1>3, <1>4, <1>5, <1>6, <1>7, <1>8, <1>9 DEF WordsNext, Prepare

\* Hence it always holds.
LEMMA AlwaysSplit == WordsSpec => []SplitInv
  BY SplitInit, SplitStep, PTL DEF WordsSpec

\* Whatever the buffer holds, the bytes behind it included, the split leaves cmd only
\* for a line of more rows than cmd has or with a word longer than a row
\* (user-shell.c:559-578).
THEOREM StaysInsideAlways == WordsSpec => []StaysInside
<1>1. SplitInv => StaysInside
  BY DEF SplitInv
<1>2. QED
  BY <1>1, AlwaysSplit, PTL

\* In every line of words that fit, a word without a dot is a stem and one with a dot
\* comes apart if its stem is long enough for the zero bytes behind the extension
\* (user-shell.c:481-521).
THEOREM StemAndExtensionAlways == WordsSpec => []StemAndExtension
<1>1. ASSUME SplitInv PROVE StemAndExtension
  <2> SUFFICES ASSUME pc = "parsed", WordsFit(StringAt(input, 0))
               PROVE  LET w    == Row(parsed.row)
                          stem == StringAt(parsed.m, TargetName)
                          ext  == StringAt(parsed.m, 0)
                      IN  /\ Dots(w) = {} /\ Len(w) <= NameLength => stem = w /\ ext = <<>>
                          /\ \A d \in Dots(w) :
                                /\ Dots(w) = {d} /\ d - 1 \in {NameLength - 1, NameLength} /\ Len(w) - d <= ExtLength
                                => stem = SubSeq(w, 1, d - 1) /\ ext = SubSeq(w, d + 1, Len(w))
    BY DEF StemAndExtension
  <2> DEFINE r == parsed.row
  <2>1. Typed /\ Split /\ r \in 0 .. neff - 1 /\ parsed.m = parse_file_cmd(r)
    BY <1>1 DEF SplitInv
  <2>2. Clean(cmd, neff)
    BY <2>1 DEF Split, Trimmed
  <2>3. r \in 0 .. Rows - 1 /\ cmd \in [0 .. Rows * Columns - 1 -> Chars]
    BY <2>1, Sizes DEF Typed
  <2>4. PICK w : HasRow(cmd, r, w)
    BY <2>1, <2>2 DEF Clean
  <2>5. Row(r) = w
    BY <2>3, <2>4, RowIs DEF Row
  <2> HIDE DEF r
  <2>6. QED
    BY <2>1, <2>3, <2>4, <2>5, NameApart DEF r
<1>2. QED
  BY <1>1, AlwaysSplit, PTL

(***************************************************************************)
(* The rows put together again                                             *)
(***************************************************************************)
\* Two functions with the same start and the same step.
LEMMA FoldsAgree ==
    ASSUME NEW m \in Nat, NEW F, NEW G, F[0] = G[0],
           \A k \in 1 .. m : F[k - 1] = G[k - 1] => F[k] = G[k]
    PROVE  F[m] = G[m]
<1> DEFINE T == {k \in Nat : k <= m => F[k] = G[k]}
<1>1. 0 \in T
  OBVIOUS
<1>2. ASSUME NEW k \in Nat, k \in T
      PROVE  k + 1 \in T
  <2> SUFFICES ASSUME k + 1 <= m PROVE F[k + 1] = G[k + 1]
    OBVIOUS
  <2> DEFINE y == k + 1
  <2>1. y \in 1 .. m /\ y - 1 = k /\ k <= m
    OBVIOUS
  <2>2. F[k] = G[k]
    BY <1>2, <2>1
  <2> HIDE DEF y
  <2>3. F[y] = G[y]
    BY <2>1, <2>2
  <2>4. QED
    BY <2>3 DEF y
<1>3. m \in T
  <2> HIDE DEF T
  <2>1. QED
    BY <1>1, <1>2, InductiveSet
<1>4. QED
  BY <1>3

\* The normal form of the first n bytes of t is s.
Grown(t, n, s) == IF n \in Kept(t) THEN Append(s, t[n]) ELSE s
Tells(t, n, s) ==
    \E U : U[0] = <<>> /\ U[n] = s /\ \A k \in 1 .. n : U[k] = Grown(t, k, U[k - 1])

\* The first n rows of c put together are s.
Glued(c, n, s) ==
    IF n = 1 \/ StringAt(c, At(n - 1)) = <<Space>> \/ StringAt(c, At(n - 2)) = <<Space>>
    THEN s \o StringAt(c, At(n - 1)) ELSE s \o <<"/">> \o StringAt(c, At(n - 1))
Says(c, n, s) ==
    \E J : J[0] = <<>> /\ J[n] = s /\ \A k \in 1 .. n : J[k] = Glued(c, k, J[k - 1])

\* One byte of the text more.
LEMMA TellsByte ==
    ASSUME NEW t, NEW n \in Nat, NEW s, Tells(t, n, s)
    PROVE  Tells(t, n + 1, Grown(t, n + 1, s))
<1> DEFINE y == n + 1
<1>1. PICK U : U[0] = <<>> /\ U[n] = s /\ \A k \in 1 .. n : U[k] = Grown(t, k, U[k - 1])
  BY DEF Tells
<1> DEFINE W == [k \in 0 .. y |-> IF k = y THEN Grown(t, y, s) ELSE U[k]]
<1>2. W[0] = <<>> /\ W[y] = Grown(t, y, s) /\ W[n] = s
  BY <1>1
<1>3. ASSUME NEW k \in 1 .. y
      PROVE  W[k] = Grown(t, k, W[k - 1])
  <2>1. CASE k = y
    <3>1. k - 1 = n
      BY <2>1
    <3>2. QED
      BY <1>2, <2>1, <3>1
  <2>2. CASE k # y
    <3> DEFINE q == k - 1
    <3>1. k \in 1 .. n /\ k \in 0 .. y /\ q \in 0 .. y /\ q # y
      BY <2>2
    <3>2. W[k] = U[k] /\ W[q] = U[q]
      BY <2>2, <3>1
    <3>3. U[k] = Grown(t, k, U[q])
      BY <1>1, <3>1
    <3>4. QED
      BY <3>2, <3>3
  <2>3. QED
    BY <2>1, <2>2
<1> HIDE DEF W
<1>4. Tells(t, y, Grown(t, y, s))
  BY <1>2, <1>3 DEF Tells
<1>5. QED
  BY <1>4

\* One row more.
LEMMA SaysRow ==
    ASSUME NEW c, NEW n \in Nat, NEW s, Says(c, n, s)
    PROVE  Says(c, n + 1, Glued(c, n + 1, s))
<1> DEFINE y == n + 1
<1>1. PICK J : J[0] = <<>> /\ J[n] = s /\ \A k \in 1 .. n : J[k] = Glued(c, k, J[k - 1])
  BY DEF Says
<1> DEFINE W == [k \in 0 .. y |-> IF k = y THEN Glued(c, y, s) ELSE J[k]]
<1>2. W[0] = <<>> /\ W[y] = Glued(c, y, s) /\ W[n] = s
  BY <1>1
<1>3. ASSUME NEW k \in 1 .. y
      PROVE  W[k] = Glued(c, k, W[k - 1])
  <2>1. CASE k = y
    <3>1. k - 1 = n
      BY <2>1
    <3>2. QED
      BY <1>2, <2>1, <3>1
  <2>2. CASE k # y
    <3> DEFINE q == k - 1
    <3>1. k \in 1 .. n /\ k \in 0 .. y /\ q \in 0 .. y /\ q # y
      BY <2>2
    <3>2. W[k] = J[k] /\ W[q] = J[q]
      BY <2>2, <3>1
    <3>3. J[k] = Glued(c, k, J[q])
      BY <1>1, <3>1
    <3>4. QED
      BY <3>2, <3>3
  <2>3. QED
    BY <2>1, <2>2
<1> HIDE DEF W
<1>4. Says(c, y, Glued(c, y, s))
  BY <1>2, <1>3 DEF Says
<1>5. QED
  BY <1>4

\* Rows with the same words say the same.
LEMMA SaysSame ==
    ASSUME NEW c, NEW d, NEW n \in Nat, NEW s, Says(c, n, s),
           \A r \in 0 .. n - 1 : StringAt(d, At(r)) = StringAt(c, At(r))
    PROVE  Says(d, n, s)
<1>1. PICK J : J[0] = <<>> /\ J[n] = s /\ \A k \in 1 .. n : J[k] = Glued(c, k, J[k - 1])
  BY DEF Says
<1>2. ASSUME NEW k \in 1 .. n
      PROVE  J[k] = Glued(d, k, J[k - 1])
  <2> DEFINE s1 == J[k - 1]
  <2>1. J[k] = Glued(c, k, s1)
    BY <1>1
  <2>2. k - 1 \in 0 .. n - 1 /\ (k # 1 => k - 2 \in 0 .. n - 1)
    OBVIOUS
  <2>3. StringAt(d, At(k - 1)) = StringAt(c, At(k - 1))
        /\ (k # 1 => StringAt(d, At(k - 2)) = StringAt(c, At(k - 2)))
    BY <2>2
  <2> HIDE DEF s1
  <2>4. Glued(c, k, s1) = Glued(d, k, s1)
    BY <2>3 DEF Glued
  <2>5. QED
    BY <2>1, <2>4 DEF s1
<1>3. QED
  BY <1>1, <1>2 DEF Says

\* The normal form of the whole text.
LEMMA NormalIs ==
    ASSUME NEW t, NEW s, Len(t) \in Nat, Tells(t, Len(t), s)
    PROVE  Normal(t) = s
<1> DEFINE m == Len(t)
           IsNormal(P) == P = [n \in 0 .. m |-> IF n = 0 THEN <<>>
                                                ELSE IF n \in Kept(t) THEN Append(P[n - 1], t[n]) ELSE P[n - 1]]
           C == CHOOSE P : IsNormal(P)
<1>1. Normal(t) = C[m]
  BY DEF Normal
<1>2. m \in Nat /\ Tells(t, m, s)
  OBVIOUS
<1> HIDE DEF m
<1>3. PICK U : U[0] = <<>> /\ U[m] = s /\ \A k \in 1 .. m : U[k] = Grown(t, k, U[k - 1])
  BY <1>2 DEF Tells
<1> DEFINE W == [n \in 0 .. m |-> U[n]]
<1>4. IsNormal(W)
  <2>1. ASSUME NEW n \in 0 .. m
        PROVE  U[n] = IF n = 0 THEN <<>> ELSE IF n \in Kept(t) THEN Append(W[n - 1], t[n]) ELSE W[n - 1]
    <3>1. CASE n = 0
      BY <1>3, <3>1
    <3>2. CASE n # 0
      <4> DEFINE q == n - 1
      <4>1. q \in 0 .. m /\ n \in 1 .. m
        BY <1>2, <3>2
      <4>2. U[n] = Grown(t, n, U[q]) /\ W[q] = U[q]
        BY <1>3, <4>1
      <4>3. QED
        BY <3>2, <4>2 DEF Grown
    <3>3. QED
      BY <3>1, <3>2
  <2>2. QED
    BY <2>1
<1>5. IsNormal(C)
  BY <1>4
<1> HIDE DEF C
<1>6. \A n \in 0 .. m : C[n] = IF n = 0 THEN <<>> ELSE IF n \in Kept(t) THEN Append(C[n - 1], t[n]) ELSE C[n - 1]
  BY <1>5
<1>7. C[0] = U[0]
  BY <1>2, <1>3, <1>6
<1>8. ASSUME NEW k \in 1 .. m, C[k - 1] = U[k - 1]
      PROVE  C[k] = U[k]
  <2>1. k \in 0 .. m /\ k # 0
    BY <1>2
  <2>2. C[k] = Grown(t, k, C[k - 1])
    BY <1>6, <2>1 DEF Grown
  <2>3. QED
    BY <1>3, <1>8, <2>2
<1>9. C[m] = U[m]
  BY <1>2, <1>7, <1>8, FoldsAgree
<1>10. QED
  BY <1>1, <1>3, <1>9

\* The rows in use, joined.
LEMMA JoinedIs ==
    ASSUME NEW s, neff \in Nat, Says(cmd, neff, s)
    PROVE  Joined = s
<1> DEFINE IsJoined(P) == P = [n \in 0 .. neff |->
                  IF n = 0 THEN <<>>
                  ELSE IF n = 1 \/ Row(n - 1) = <<Space>> \/ Row(n - 2) = <<Space>> THEN P[n - 1] \o Row(n - 1)
                  ELSE P[n - 1] \o <<"/">> \o Row(n - 1)]
           C == CHOOSE P : IsJoined(P)
<1>1. Joined = C[neff]
  BY DEF Joined
<1>2. PICK J : J[0] = <<>> /\ J[neff] = s /\ \A k \in 1 .. neff : J[k] = Glued(cmd, k, J[k - 1])
  BY DEF Says
<1> DEFINE W == [n \in 0 .. neff |-> J[n]]
           Longer(n, q) == IF n = 1 \/ Row(n - 1) = <<Space>> \/ Row(n - 2) = <<Space>> THEN q \o Row(n - 1)
                          ELSE q \o <<"/">> \o Row(n - 1)
<1>3. \A n, q : Glued(cmd, n, q) = Longer(n, q)
  BY DEF Glued, Row
<1>4. IsJoined(W)
  <2>1. ASSUME NEW n \in 0 .. neff
        PROVE  J[n] = IF n = 0 THEN <<>> ELSE Longer(n, W[n - 1])
    <3>1. CASE n = 0
      BY <1>2, <3>1
    <3>2. CASE n # 0
      <4> DEFINE q == n - 1
      <4>1. q \in 0 .. neff /\ n \in 1 .. neff
        BY <3>2
      <4>2. J[n] = Glued(cmd, n, J[q]) /\ W[q] = J[q]
        BY <1>2, <4>1
      <4> HIDE DEF Longer, W
      <4>3. QED
        BY <1>3, <3>2, <4>2
    <3>3. QED
      BY <3>1, <3>2
  <2>2. QED
    BY <2>1
<1>5. IsJoined(C)
  BY <1>4
<1> HIDE DEF C
<1>6. \A n \in 0 .. neff : C[n] = IF n = 0 THEN <<>> ELSE Longer(n, C[n - 1])
  BY <1>5
<1> HIDE DEF Longer
<1>7. C[0] = J[0]
  BY <1>2, <1>6
<1>8. ASSUME NEW k \in 1 .. neff, C[k - 1] = J[k - 1]
      PROVE  C[k] = J[k]
  <2>1. k \in 0 .. neff /\ k # 0
    OBVIOUS
  <2>2. C[k] = Glued(cmd, k, C[k - 1])
    BY <1>3, <1>6, <2>1
  <2>3. QED
    BY <1>2, <1>8, <2>2
<1>9. C[neff] = J[neff]
  BY <1>7, <1>8, FoldsAgree
<1>10. QED
  BY <1>1, <1>2, <1>9

\* Bytes that are not kept.
LEMMA TellsLess ==
    ASSUME NEW t, NEW j \in Nat, NEW s, Tells(t, j, s), NEW o \in Nat, j <= o,
           \A p \in j + 1 .. o : p \notin Kept(t)
    PROVE  Tells(t, o, s)
<1> DEFINE T == {m \in Nat : j + m <= o => Tells(t, j + m, s)}
<1>1. 0 \in T
  OBVIOUS
<1>2. ASSUME NEW m \in Nat, m \in T
      PROVE  m + 1 \in T
  <2> SUFFICES ASSUME j + (m + 1) <= o PROVE Tells(t, j + (m + 1), s)
    OBVIOUS
  <2> DEFINE n == j + m
  <2>1. n \in Nat /\ n + 1 \in j + 1 .. o /\ j + (m + 1) = n + 1 /\ j + m <= o
    OBVIOUS
  <2>2. Tells(t, n, s)
    BY <1>2, <2>1
  <2> HIDE DEF n
  <2>3. Tells(t, n + 1, Grown(t, n + 1, s))
    BY <2>1, <2>2, TellsByte
  <2>4. Grown(t, n + 1, s) = s
    BY <2>1 DEF Grown
  <2>5. QED
    BY <2>1, <2>3, <2>4
<1>3. o - j \in Nat /\ j + (o - j) = o
  OBVIOUS
<1>4. o - j \in T
  <2> HIDE DEF T
  <2>1. QED
    BY <1>1, <1>2, <1>3, InductiveSet
<1>5. QED
  BY <1>3, <1>4

\* Part of a text, and one byte more of it.
LEMMA PartIs ==
    ASSUME NEW t \in Seq(Chars), NEW L \in Nat, Len(t) = L, NEW a \in 1 .. L + 1, NEW n \in Nat, a + n <= L + 1
    PROVE  /\ SubSeq(t, a, a + n - 1) \in Seq(Chars) /\ Len(SubSeq(t, a, a + n - 1)) = n
           /\ \A k \in 1 .. n : SubSeq(t, a, a + n - 1)[k] = t[a + k - 1]
           /\ a + n <= L => /\ t[a + n] \in Chars
                            /\ SubSeq(t, a, a + n) = SubSeq(t, a, a + n - 1) \o <<t[a + n]>>
           /\ n = 0 => SubSeq(t, a, a + n - 1) = <<>>
<1> DEFINE z == a + n - 1
<1>1. z \in Int /\ a \in Int /\ \A k \in a .. z : k \in 1 .. Len(t)
  OBVIOUS
<1>2. \A k \in a .. z : t[k] \in Chars
  BY <1>1, ElementOfSeq
<1>3. /\ SubSeq(t, a, z) \in Seq(Chars) /\ Len(SubSeq(t, a, z)) = IF a <= z THEN z - a + 1 ELSE 0
      /\ \A k \in 1 .. z - a + 1 : SubSeq(t, a, z)[k] = t[a + k - 1]
  BY <1>1, <1>2, SubSeqProperties
<1>4. z - a + 1 = n /\ (a <= z <=> n # 0)
  OBVIOUS
<1>5. a + n <= L => t[a + n] \in Chars /\ SubSeq(t, a, a + n) = SubSeq(t, a, z) \o <<t[a + n]>>
  <2> HAVE a + n <= L
  <2>1. a \in 1 .. Len(t) /\ a + n \in a .. Len(t) /\ a + n \in 1 .. Len(t)
    OBVIOUS
  <2>2. t[a + n] \in Chars
    BY <2>1, ElementOfSeq
  <2>3. QED
    BY <2>1, <2>2, SubSeqRecursiveSecond
<1>6. n = 0 => SubSeq(t, a, z) = <<>>
  <2> HAVE n = 0
  <2>1. z < a
    OBVIOUS
  <2>2. QED
    BY <1>1, <2>1, SubSeqEmpty
<1> HIDE DEF z
<1>7. Len(SubSeq(t, a, z)) = n
  BY <1>3, <1>4
<1>8. QED
  BY <1>3, <1>4, <1>5, <1>6, <1>7 DEF z

\* A word that is kept.
LEMMA TellsWord ==
    ASSUME NEW t \in Seq(Chars), NEW L \in Nat, Len(t) = L, NEW j \in 0 .. L, NEW e \in j .. L,
           NEW s \in Seq(Chars), Tells(t, j, s), \A p \in j + 1 .. e : p \in Kept(t)
    PROVE  Tells(t, e, s \o SubSeq(t, j + 1, e))
<1> DEFINE T == {m \in Nat : j + m <= e => Tells(t, j + m, s \o SubSeq(t, j + 1, j + m))}
<1>0. j + 1 \in 1 .. L + 1 /\ j \in Nat /\ e \in Nat /\ e <= L /\ j <= e
  OBVIOUS
<1>1. 0 \in T
  <2>1. j + 1 < j + 2 /\ j + 1 + 0 - 1 = j /\ 0 \in Nat /\ j + 1 + 0 <= L + 1 /\ j + 0 = j
    BY <1>0
  <2>2. SubSeq(t, j + 1, j + 1 + 0 - 1) = <<>>
    BY <1>0, <2>1, PartIs
  <2>3. SubSeq(t, j + 1, j + 0) = <<>>
    BY <2>1, <2>2
  <2>4. s \o <<>> = s
    BY ConcatEmptySeq
  <2>5. QED
    BY <2>1, <2>3, <2>4
<1>2. ASSUME NEW m \in Nat, m \in T
      PROVE  m + 1 \in T
  <2> SUFFICES ASSUME j + (m + 1) <= e PROVE Tells(t, j + (m + 1), s \o SubSeq(t, j + 1, j + (m + 1)))
    OBVIOUS
  <2> DEFINE n == j + m
             u == SubSeq(t, j + 1, n)
             a == j + 1
  <2>1. /\ n \in Nat /\ n + 1 \in j + 1 .. e /\ j + (m + 1) = n + 1 /\ j + m <= e
        /\ a + m = n + 1 /\ a + m - 1 = n /\ a + m <= L
    BY <1>0
  <2>2. Tells(t, n, s \o u)
    BY <1>2, <2>1
  <2> HIDE DEF n, a
  <2>3. u \in Seq(Chars) /\ t[n + 1] \in Chars /\ SubSeq(t, a, n + 1) = u \o <<t[n + 1]>>
    <3>1. a \in 1 .. L + 1 /\ a + m <= L + 1
      BY <1>0, <2>1 DEF a
    <3>2. /\ SubSeq(t, a, a + m - 1) \in Seq(Chars) /\ t[a + m] \in Chars
          /\ SubSeq(t, a, a + m) = SubSeq(t, a, a + m - 1) \o <<t[a + m]>>
      BY <3>1, <2>1, PartIs
    <3>3. QED
      BY <2>1, <3>2 DEF a
  <2> HIDE DEF u
  <2>4. Tells(t, n + 1, Append(s \o u, t[n + 1]))
    <3>1. n + 1 \in Kept(t)
      BY <2>1
    <3>2. Tells(t, n + 1, Grown(t, n + 1, s \o u))
      BY <2>1, <2>2, TellsByte
    <3>3. QED
      BY <3>1, <3>2 DEF Grown
  <2>5. Append(s \o u, t[n + 1]) = s \o SubSeq(t, a, n + 1)
    <3> DEFINE v == <<t[n + 1]>>
    <3>1. s \o u \in Seq(Chars) /\ v \in Seq(Chars)
      BY <2>3, ConcatProperties
    <3>2. Append(s \o u, t[n + 1]) = (s \o u) \o v
      BY <2>3, <3>1, AppendIsConcat
    <3>3. SubSeq(t, a, n + 1) = u \o v
      BY <2>3
    <3> HIDE DEF v
    <3>4. (s \o u) \o v = s \o (u \o v)
      BY <2>3, <3>1, ConcatAssociative
    <3>5. QED
      BY <3>2, <3>3, <3>4
  <2>6. QED
    BY <2>1, <2>4, <2>5 DEF a
<1>3. e - j \in Nat /\ j + (e - j) = e
  BY <1>0
<1>4. e - j \in T
  <2> HIDE DEF T
  <2>1. QED
    BY <1>1, <1>2, <1>3, InductiveSet
<1>5. QED
  BY <1>3, <1>4

\* A slash that is passed and kept waits for the word behind it.
Waiting(t, n) == IF n \in Kept(t) /\ t[n] = "/" THEN <<"/">> ELSE <<>>

\* The first n rows of c are the first j bytes of t in normal form but for a slash
\* that waits; none waits where a space or nothing has come before.
Told(c, n, t, j, f) ==
    \E s \in Seq(Chars) :
       /\ Says(c, n, s) /\ Tells(t, j, s \o Waiting(t, j))
       /\ f[j] # NUL => (Waiting(t, j) = <<>> <=> (n = 0 \/ StringAt(c, At(n - 1)) = <<Space>>))

\* No slash waits at the end.
LEMMA EndWaits ==
    ASSUME NEW t, NEW L, Len(t) = L
    PROVE  Waiting(t, L) = <<>>
  BY DEF Waiting, Kept

\* How a row is put to those before it.
LEMMA GluedIs ==
    ASSUME NEW c, NEW k, NEW s
    PROVE  IF k = 1 \/ StringAt(c, At(k - 1)) = <<Space>> \/ StringAt(c, At(k - 2)) = <<Space>>
           THEN Glued(c, k, s) = s \o StringAt(c, At(k - 1))
           ELSE Glued(c, k, s) = s \o <<"/">> \o StringAt(c, At(k - 1))
  BY Zenon DEF Glued

\* What has to be shown of a round.
LEMMA ToldBy ==
    ASSUME NEW c, NEW n, NEW t, NEW j, NEW f, NEW s \in Seq(Chars),
           Says(c, n, s), Tells(t, j, s \o Waiting(t, j)),
           f[j] # NUL => (Waiting(t, j) = <<>> <=> (n = 0 \/ StringAt(c, At(n - 1)) = <<Space>>))
    PROVE  Told(c, n, t, j, f)
  BY DEF Told

\* The sequences of one byte and of none.
LEMMA Short ==
    /\ <<>> \in Seq(Chars) /\ <<Space>> \in Seq(Chars) /\ <<"/">> \in Seq(Chars)
    /\ <<"/">> # <<>> /\ <<Space>> # <<>>
    /\ Len(<<Space>>) = 1 /\ <<Space>>[1] = Space
    /\ \A s \in Seq(Chars) : s \o <<>> = s /\ Append(s, Space) = s \o <<Space>> /\ Append(s, "/") = s \o <<"/">>
<1>1. Space \in Chars /\ "/" \in Chars
  BY Bytes
<1>2. <<>> \in Seq(Chars) /\ <<Space>> \in Seq(Chars) /\ <<"/">> \in Seq(Chars)
  BY <1>1
<1>3. Len(<<Space>>) = 1 /\ <<Space>>[1] = Space /\ Len(<<"/">>) = 1 /\ Len(<<>>) = 0
  OBVIOUS
<1>4. ASSUME NEW s \in Seq(Chars)
      PROVE  s \o <<>> = s /\ Append(s, Space) = s \o <<Space>> /\ Append(s, "/") = s \o <<"/">>
  BY <1>1, ConcatEmptySeq, AppendIsConcat
<1>5. <<"/">> # <<>> /\ <<Space>> # <<>>
  BY <1>3
<1>6. QED
  BY <1>2, <1>3, <1>4, <1>5

\* A round of the loop says in its rows what it has passed in the text.
LEMMA RoundTold ==
    ASSUME Typed, NEW t, NEW L, Reads(input, t, L), i \in 0 .. L, input[i] # NUL, Starts(input, i),
           NEW e, NEW b, Ends(input, i, e, b), e - i < Columns, DOMAIN RowBytes(e) \subseteq DOMAIN cmd,
           Clean(cmd, neff), Told(cmd, neff, t, i, input)
    PROVE  Told(Written(e), NextRow(e), t, Onwards(input, b), input)
<1> DEFINE o == Onwards(input, b)
           w == SubSeq(t, i + 1, e)
           d == Written(e)
           n == neff
           p == Waiting(t, i)
<1>1. /\ L \in Nat /\ Len(t) = L /\ t \in Seq(Chars) /\ input[L] = NUL
      /\ i \in Nat /\ i <= L /\ n \in Nat /\ Rows \in Nat
  BY Sizes DEF Reads, Typed
<1>2. /\ e \in i .. L /\ o \in e .. L
      /\ \A q \in i + 1 .. e : q \in Kept(t) /\ t[q] \notin Separators
      /\ input[e] = NUL => e = L /\ o = L
      /\ input[e] = "/" => /\ o = e + 1 /\ e < L /\ t[e + 1] = "/"
                           /\ e + 1 \in Kept(t) <=> e + 1 # L
      /\ input[e] = Space => /\ e + 1 \in Kept(t) /\ e < L /\ t[e + 1] = Space /\ o > e
                           /\ \A q \in e + 2 .. o : q \notin Kept(t)
  BY Round
<1>3. e \in Nat /\ o \in Nat /\ i <= e /\ e <= o /\ o <= L /\ e \in 0 .. Top /\ input[e] \in {Space, "/", NUL}
  <2>1. e \in 0 .. Top /\ input[e] \in {Space, "/", NUL}
    BY DEF Ends, Separators
  <2>2. QED
    BY <1>1, <1>2, <2>1
<1>4. /\ \A r \in 0 .. n - 1 : \A u : HasRow(cmd, r, u) => HasRow(d, r, u)
      /\ HasRow(d, n, w)
      /\ input[e] = Space => HasRow(d, n + 1, <<Space>>)
  <2>1. cmd \in [0 .. Rows * Columns - 1 -> Chars] /\ neff \in Nat
    BY DEF Typed
  <2>2. QED
    BY <1>2, <2>1, RowsWritten
<1>5. d \in [0 .. Rows * Columns - 1 -> Chars] /\ cmd \in [0 .. Rows * Columns - 1 -> Chars]
  BY <1>3, WrittenTyped DEF Typed
<1>6. /\ n \in 0 .. Rows - 1 /\ (input[e] = Space => n + 1 \in 0 .. Rows - 1)
      /\ NextRow(e) = IF input[e] = Space THEN n + 2 ELSE n + 1
  <2>1. neff < Rows /\ (input[e] = Space => neff + 1 < Rows)
    BY <1>3, RowsWithin
  <2>2. QED
    BY <1>1, <2>1 DEF NextRow
<1> HIDE DEF d, n
<1>7. ASSUME NEW r \in 0 .. n - 1
      PROVE  StringAt(d, At(r)) = StringAt(cmd, At(r))
  <2>1. PICK u : HasRow(cmd, r, u)
    BY DEF Clean, n
  <2>2. r \in 0 .. Rows - 1
    BY <1>1, <1>6
  <2>3. HasRow(d, r, u)
    BY <1>4, <2>1
  <2>4. StringAt(cmd, At(r)) = u
    BY <1>5, <2>1, <2>2, RowIs
  <2>5. StringAt(d, At(r)) = u
    BY <1>5, <2>2, <2>3, RowIs
  <2>6. QED
    BY <2>4, <2>5
<1>8. StringAt(d, At(n)) = w
  BY <1>4, <1>5, <1>6, RowIs
<1>9. input[e] = Space => StringAt(d, At(n + 1)) = <<Space>>
  BY <1>4, <1>5, <1>6, RowIs
<1>10. w \in Seq(Chars) /\ w # <<Space>>
  <2>1. w \in Seq(Chars)
    BY <1>4 DEF HasRow
  <2>2. w # <<Space>>
    <3> SUFFICES ASSUME w = <<Space>> PROVE FALSE
      OBVIOUS
    <3>1. Len(w) = 1 /\ w[1] = Space
      BY Short
    <3> DEFINE m == e - i
               a == i + 1
    <3>2. m \in Nat /\ a \in 1 .. L + 1 /\ a + m <= L + 1 /\ a + m - 1 = e
      BY <1>1, <1>3
    <3>3. Len(w) = m /\ \A k \in 1 .. m : w[k] = t[a + k - 1]
      <4> HIDE DEF m, a
      <4>1. Len(SubSeq(t, a, e)) = m /\ \A k \in 1 .. m : SubSeq(t, a, e)[k] = t[a + k - 1]
        BY <1>1, <3>2, PartIs
      <4>2. QED
        BY <4>1 DEF a
    <3> HIDE DEF w
    <3>4. m = 1
      BY <3>1, <3>3
    <3>5. 1 \in 1 .. m /\ a + 1 - 1 = i + 1 /\ i + 1 \in i + 1 .. e
      BY <1>1, <1>3, <3>4
    <3>6. w[1] = t[i + 1]
      BY <3>3, <3>5
    <3>7. t[i + 1] \notin Separators
      BY <1>2, <3>5
    <3>8. QED
      BY <3>1, <3>6, <3>7 DEF Separators
  <2>3. QED
    BY <2>1, <2>2
<1>11. PICK s \in Seq(Chars) :
          /\ Says(cmd, n, s) /\ Tells(t, i, s \o p)
          /\ p = <<>> <=> (n = 0 \/ StringAt(cmd, At(n - 1)) = <<Space>>)
  BY DEF Told, n
<1>12. p \in {<<>>, <<"/">>} /\ p \in Seq(Chars)
  BY Short DEF Waiting
<1> HIDE DEF p, w
<1> DEFINE s1 == (s \o p) \o w
<1>13. s \o p \in Seq(Chars) /\ s1 \in Seq(Chars)
  BY <1>10, <1>12, ConcatProperties
<1> DEFINE y == n + 1
           z == n + 2
<1>14. y \in Nat /\ y - 1 = n /\ y - 2 = n - 1 /\ (y = 1 <=> n = 0) /\ y # 0 /\ z = y + 1 /\ z - 1 = y
  BY <1>1
<1>15. n # 0 => n - 1 \in 0 .. n - 1
  BY <1>1
<1>16. NextRow(e) = IF input[e] = Space THEN z ELSE y
  BY <1>6
<1>17. input[e] = Space => StringAt(d, At(y)) = <<Space>>
  BY <1>9
<1>18. \A s0 : Says(d, n, s0) => Says(d, y, Glued(d, y, s0))
  BY <1>1, SaysRow
<1>19. \A s0 : Says(d, y, s0) => Says(d, z, Glued(d, z, s0))
  BY <1>14, SaysRow
<1> HIDE DEF y, z
<1>20. Glued(d, y, s) = s1
  <2>1. (y = 1 \/ StringAt(d, At(y - 1)) = <<Space>> \/ StringAt(d, At(y - 2)) = <<Space>>) <=> p = <<>>
    <3>1. StringAt(d, At(y - 1)) # <<Space>>
      BY <1>8, <1>10, <1>14
    <3>2. n # 0 => StringAt(d, At(y - 2)) = StringAt(cmd, At(n - 1))
      BY <1>7, <1>14, <1>15
    <3>3. QED
      BY <1>11, <1>14, <3>1, <3>2
  <2>2. StringAt(d, At(y - 1)) = w
    BY <1>8, <1>14
  <2>3. CASE p = <<>>
    <3>1. s1 = s \o w
      BY <2>3, Short
    <3>2. Glued(d, y, s) = s \o StringAt(d, At(y - 1))
      BY <2>1, <2>3, GluedIs, Zenon
    <3>3. QED
      BY <2>2, <3>1, <3>2
  <2>4. CASE p # <<>>
    <3>1. p = <<"/">>
      BY <1>12, <2>4
    <3>2. Glued(d, y, s) = s \o <<"/">> \o StringAt(d, At(y - 1))
      BY <2>1, <2>4, GluedIs, Zenon
    <3>3. QED
      BY <2>2, <3>1, <3>2
  <2>5. QED
    BY <2>3, <2>4
<1>21. Says(d, y, s1)
  <2>1. Says(d, n, s)
    BY <1>1, <1>7, <1>11, SaysSame
  <2>2. QED
    BY <1>20, <1>18, <2>1
<1>22. Tells(t, e, s1)
  <2>1. i \in 0 .. L
    OBVIOUS
  <2>2. QED
    BY <1>1, <1>2, <1>11, <1>13, <2>1, TellsWord DEF w
<1> HIDE DEF s1, o
<1>23. CASE input[e] = NUL
  <2>1. e = L /\ o = L /\ NextRow(e) = y
    BY <1>2, <1>16, <1>23, Bytes
  <2>2. Waiting(t, L) = <<>>
    BY <1>1, EndWaits
  <2>3. s1 \o Waiting(t, o) = s1
    BY <1>13, <2>1, <2>2, Short
  <2>4. Told(d, y, t, o, input)
    BY <1>1, <1>13, <1>21, <1>22, <2>1, <2>3, ToldBy
  <2>5. QED
    BY <2>1, <2>4 DEF d, o
<1>24. CASE input[e] = "/"
  <2>1. o = e + 1 /\ t[e + 1] = "/" /\ NextRow(e) = y /\ (e + 1 \in Kept(t) <=> e + 1 # L)
    BY <1>2, <1>16, <1>24, Bytes
  <2>2. Tells(t, o, Grown(t, o, s1))
    BY <1>3, <1>22, <2>1, TellsByte
  <2>3. Grown(t, o, s1) = s1 \o Waiting(t, o)
    BY <1>13, <2>1, Short DEF Grown, Waiting
  <2>4. input[o] # NUL => (Waiting(t, o) = <<>> <=> (y = 0 \/ StringAt(d, At(y - 1)) = <<Space>>))
    <3> HAVE input[o] # NUL
    <3>1. o # L
      BY <1>1
    <3>2. Waiting(t, o) # <<>>
      BY <2>1, <3>1, Short DEF Waiting
    <3>3. QED
      BY <1>8, <1>10, <1>14, <3>2
  <2>5. Told(d, y, t, o, input)
    BY <1>13, <1>21, <2>2, <2>3, <2>4, ToldBy
  <2>6. QED
    BY <2>1, <2>5 DEF d, o
<1>25. CASE input[e] = Space
  <2> DEFINE s2 == s1 \o <<Space>>
  <2>1. e + 1 \in Kept(t) /\ t[e + 1] = Space /\ o > e /\ (\A q \in e + 2 .. o : q \notin Kept(t))
        /\ NextRow(e) = z
    BY <1>2, <1>16, <1>25
  <2>2. s2 \in Seq(Chars)
    BY <1>13, Short, ConcatProperties
  <2>3. Says(d, z, s2)
    <3>1. StringAt(d, At(z - 1)) = <<Space>>
      BY <1>25, <1>14, <1>17
    <3>2. Glued(d, z, s1) = s1 \o StringAt(d, At(z - 1))
      BY <3>1, GluedIs, Zenon
    <3>3. QED
      BY <1>21, <1>19, <3>1, <3>2
  <2>4. Tells(t, e + 1, s2)
    <3>1. Tells(t, e + 1, Grown(t, e + 1, s1))
      BY <1>3, <1>22, TellsByte
    <3>2. Grown(t, e + 1, s1) = s2
      BY <1>13, <2>1, Short DEF Grown
    <3>3. QED
      BY <3>1, <3>2
  <2> HIDE DEF s2
  <2>5. Tells(t, o, s2)
    <3>1. e + 1 \in Nat /\ e + 1 <= o /\ \A q \in e + 1 + 1 .. o : q \in e + 2 .. o
      BY <1>3, <2>1
    <3>2. QED
      BY <1>3, <2>1, <2>4, <3>1, TellsLess
  <2>6. Waiting(t, o) = <<>>
    <3>1. CASE o = e + 1
      BY <2>1, <3>1, Bytes DEF Waiting
    <3>2. CASE o # e + 1
      <4>1. o \in e + 2 .. o
        BY <1>3, <2>1, <3>2
      <4>2. QED
        BY <2>1, <4>1 DEF Waiting
    <3>3. QED
      BY <3>1, <3>2
  <2>7. s2 \o Waiting(t, o) = s2
    BY <2>2, <2>6, Short
  <2>8. StringAt(d, At(z - 1)) = <<Space>>
    BY <1>25, <1>14, <1>17
  <2>9. Told(d, z, t, o, input)
    BY <2>2, <2>3, <2>5, <2>6, <2>7, <2>8, ToldBy
  <2>10. QED
    BY <2>1, <2>9 DEF d, o
<1>26. QED
  BY <1>3, <1>23, <1>24, <1>25

(***************************************************************************)
(* Trimming and the text of the line                                       *)
(***************************************************************************)
\* The line has lost k bytes in front, spaces all, and got k from behind the buffer,
\* the first byte there each time.
Shifted(k) ==
    /\ k \in 0 .. KEYBOARD_BUFFER_SIZE
    /\ \A p \in Indices : input[p] = IF p + k < KEYBOARD_BUFFER_SIZE THEN line[p + k] ELSE Behind[1]
    /\ \A q \in 0 .. k - 1 : line[q] = Space

\* The text of the line, byte by byte.
LEMMA TextOfLine ==
    ASSUME line \in [Indices -> Chars], NEW n, n = Len(Text)
    PROVE  /\ Text \in Seq(Chars) /\ n \in 0 .. KEYBOARD_BUFFER_SIZE
           /\ \A k \in 1 .. n : Text[k] = line[k - 1] /\ Text[k] # NUL
           /\ n < KEYBOARD_BUFFER_SIZE => line[n] = NUL
<1> DEFINE K == KEYBOARD_BUFFER_SIZE
           f == [p \in 0 .. K |-> IF p \in Indices THEN line[p] ELSE NUL]
<1>1. K \in Nat /\ K \in 0 .. K /\ 0 \in 0 .. K /\ K \notin Indices /\ \A p \in 0 .. K : p \in Indices \/ p = K
  BY Sizes DEF Indices
<1>2. f \in [0 .. K -> Chars] /\ f[K] = NUL
  BY <1>1, Bytes
<1>3. Text = StringAt(f, 0)
  BY DEF Text
<1> HIDE DEF f
<1>4. Text \in Seq(Chars) /\ Holds(f, 0, Text) /\ Len(Text) <= K - 0
  BY <1>1, <1>2, <1>3, StringEnds
<1>5. n \in Nat /\ n <= K
  BY <1>1, <1>4, LenProperties
<1>6. f[0 + n] = NUL /\ \A k \in 1 .. n : Text[k] = f[0 + k - 1] /\ Text[k] # NUL
  BY <1>4 DEF Holds
<1>7. ASSUME NEW k \in 1 .. n
      PROVE  Text[k] = line[k - 1] /\ Text[k] # NUL
  <2>1. 0 + k - 1 = k - 1 /\ k - 1 \in Indices /\ k - 1 \in 0 .. K
    BY <1>1, <1>5 DEF Indices
  <2>2. QED
    BY <1>6, <2>1 DEF f
<1>8. n < K => line[n] = NUL
  <2> HAVE n < K
  <2>1. 0 + n = n /\ n \in Indices /\ n \in 0 .. K
    BY <1>1, <1>5 DEF Indices
  <2>2. QED
    BY <1>6, <2>1 DEF f
<1>9. QED
  BY <1>1, <1>4, <1>5, <1>7, <1>8

\* A text between its first and its last byte that is no space.
LEMMA InnerIs ==
    ASSUME NEW t, NEW L \in Nat, DOMAIN t = 1 .. L, NEW a \in 1 .. L, NEW z \in 1 .. L,
           t[a] # Space, t[z] # Space,
           \A p \in 1 .. a - 1 : t[p] = Space, \A p \in z + 1 .. L : t[p] = Space
    PROVE  Inner(t) = SubSeq(t, a, z)
<1> DEFINE solid == {p \in DOMAIN t : t[p] # Space}
<1>1. a \in solid /\ z \in solid /\ \A y \in solid : y \in Nat
  OBVIOUS
<1>2. \A y \in solid : a <= y /\ y <= z
  OBVIOUS
<1>3. Inner(t) = IF solid = {} THEN <<>> ELSE SubSeq(t, S!Min(solid), S!Max(solid))
  BY DEF Inner
<1> HIDE DEF solid
<1>4. S!Min(solid) = a
  <2> DEFINE x == CHOOSE x \in solid : \A y \in solid : x <= y
  <2>1. S!Min(solid) = x
    BY DEF S!Min
  <2>2. x \in solid /\ \A y \in solid : x <= y
    BY <1>1, <1>2
  <2> HIDE DEF x
  <2>3. x <= a /\ a <= x /\ x \in Nat
    BY <1>1, <1>2, <2>2
  <2>4. QED
    BY <2>1, <2>3
<1>5. S!Max(solid) = z
  <2> DEFINE x == CHOOSE x \in solid : \A y \in solid : x >= y
  <2>1. S!Max(solid) = x
    BY DEF S!Max
  <2>2. \A y \in solid : z >= y
    BY <1>1, <1>2
  <2>3. x \in solid /\ \A y \in solid : x >= y
    BY <1>1, <2>2
  <2> HIDE DEF x
  <2>4. x >= z /\ x <= z /\ x \in Nat
    BY <1>1, <1>2, <2>3
  <2>5. QED
    BY <2>1, <2>4
<1>6. QED
  BY <1>1, <1>3, <1>4, <1>5

\* A part of a text whose words fit has words that fit.
LEMMA PartFits ==
    ASSUME NEW t \in Seq(Chars), NEW L \in Nat, Len(t) = L, WordsFit(t),
           NEW a \in 1 .. L + 1, NEW n \in Nat, a + n <= L + 1
    PROVE  WordsFit(SubSeq(t, a, a + n - 1))
<1> DEFINE w == SubSeq(t, a, a + n - 1)
<1>1. Len(w) = n /\ \A k \in 1 .. n : w[k] = t[a + k - 1]
  BY PartIs
<1> HIDE DEF w
<1>2. Columns \in Nat /\ Columns > 0
  BY Sizes DEF FullName
<1>3. ASSUME NEW p \in 1 .. n - Columns + 1
      PROVE  \E q \in p .. p + Columns - 1 : w[q] \in Separators
  <2>1. a + p - 1 \in 1 .. L - Columns + 1
    BY <1>2
  <2>2. PICK q \in a + p - 1 .. a + p - 1 + Columns - 1 : t[q] \in Separators
    BY <2>1 DEF WordsFit
  <2> DEFINE y == q - a + 1
  <2>3. y \in p .. p + Columns - 1 /\ y \in 1 .. n /\ a + y - 1 = q
    BY <1>2
  <2> HIDE DEF y
  <2>4. w[y] = t[q]
    BY <1>1, <2>3
  <2>5. QED
    BY <2>2, <2>3, <2>4
<1>4. QED
  BY <1>1, <1>3 DEF WordsFit, w

\* What is left after the trimming is the text without the spaces around it.
LEMMA TrimmedText ==
    ASSUME Typed, NEW k, Shifted(k), TrimRight, Plain
    PROVE  Trimmed' = Inner(Text) /\ (WordsFit(Text) => WordsFit(Inner(Text)))
<1> DEFINE K == KEYBOARD_BUFFER_SIZE
           t == Text
           n == Len(t)
           f == input'
<1>1. /\ t \in Seq(Chars) /\ n \in 0 .. K
      /\ \A p \in 1 .. n : t[p] = line[p - 1] /\ t[p] # NUL
      /\ n < K => line[n] = NUL
  BY TextOfLine DEF Typed
<1>2. n < K /\ \A p \in Indices : line[p] # NUL => p < n
  BY DEF Plain, Ended
<1>3. t # <<>> => t[1] # Space \/ t[n] # Space
  <2>1. Head(t) = t[1] /\ S!Last(t) = t[n]
    BY <1>1 DEF S!Last
  <2>2. t # <<>> => Space \notin {Head(t)} \cap {S!Last(t)}
    BY DEF Plain
  <2>3. QED
    BY <2>1, <2>2
<1>4. DOMAIN t = 1 .. n /\ (n = 0 => t = <<>>) /\ (n # 0 => t # <<>>)
  BY <1>1, LenProperties, EmptySeq
<1>5. /\ \A p \in 0 .. Top : f[p] = IF p \in Trailing THEN NUL ELSE input[p]
      /\ f \in [0 .. Top -> Chars] /\ input[0] # Space
  <2>1. input' = [p \in DOMAIN input |-> IF p \in Trailing THEN NUL ELSE input[p]] /\ input[0] # Space
    BY DEF TrimRight
  <2>2. QED
    BY <2>1, Bytes DEF Typed
<1>6. /\ K \in Nat /\ K > 1 /\ Top \in Nat /\ Top > K /\ n \in Nat
      /\ \A p : p \in Indices <=> p \in Int /\ 0 <= p /\ p < K
      /\ \A p \in Indices : p \in 0 .. Top
  BY <1>1, Sizes DEF Indices
<1>7. /\ k \in 0 .. K /\ k \in Nat
      /\ \A p \in Indices : input[p] = IF p + k < K THEN line[p + k] ELSE Behind[1]
      /\ \A q \in 0 .. k - 1 : line[q] = Space
  BY <1>6 DEF Shifted
<1>8. Trimmed' = StringAt(f, 0)
  BY DEF Trimmed
<1>9. \A p \in 0 .. n - 1 : p \in Indices /\ line[p] = t[p + 1] /\ line[p] # NUL
  <2> TAKE p \in 0 .. n - 1
  <2>1. p + 1 \in 1 .. n /\ p + 1 - 1 = p /\ p \in Indices
    BY <1>2, <1>6
  <2>2. QED
    BY <1>1, <2>1
<1>10. \A p \in n .. K - 1 : p \in Indices /\ line[p] = NUL
  BY <1>2, <1>6
<1> HIDE DEF t, n, K, f
<1>11. CASE n = 0
  <2>1. k = 0
    <3> SUFFICES ASSUME k > 0 PROVE FALSE
      BY <1>7
    <3>1. 0 \in 0 .. k - 1 /\ 0 \in n .. K - 1
      BY <1>6, <1>7, <1>11
    <3>2. QED
      BY <1>7, <1>10, <3>1, Bytes
  <2>2. f[0] = NUL
    <3>1. 0 \in Indices /\ 0 + k < K /\ 0 + k = 0 /\ 0 \in n .. K - 1 /\ 0 \in 0 .. Top
      BY <1>6, <1>11, <2>1
    <3>2. input[0] = NUL
      BY <1>7, <1>10, <3>1
    <3>3. QED
      BY <1>5, <3>1, <3>2
  <2>3. Holds(f, 0, <<>>)
    <3>1. Len(<<>>) = 0 /\ 0 + 0 = 0 /\ 0 \in DOMAIN f /\ 1 .. 0 = {}
      BY <1>5, <1>6
    <3>2. QED
      BY <2>2, <3>1 DEF Holds
  <2>4. StringAt(f, 0) = <<>>
    <3>1. DOMAIN f \subseteq Int /\ 0 \in Int
      BY <1>5
    <3>2. QED
      BY <2>3, <3>1, Short, StringIs
  <2>5. Inner(t) = <<>>
    <3>1. DOMAIN t = {}
      BY <1>4, <1>11
    <3>2. QED
      BY <3>1 DEF Inner
  <2>6. WordsFit(<<>>)
    <3>1. Len(<<>>) = 0 /\ Columns \in Nat /\ Columns > 0
      BY Sizes DEF FullName
    <3>2. 1 .. 0 - Columns + 1 = {}
      BY <3>1
    <3>3. QED
      BY <3>1, <3>2 DEF WordsFit
  <2>7. QED
    BY <1>8, <2>4, <2>5, <2>6 DEF t
<1>12. CASE n # 0
  <2>1. n > 0 /\ 0 \in 0 .. n - 1 /\ n - 1 \in 0 .. n - 1 /\ 0 + 1 = 1 /\ n - 1 + 1 = n
    BY <1>6, <1>12
  <2>2. t[1] # Space \/ t[n] # Space
    BY <1>3, <1>4, <1>12
  <2>3. k < n
    <3> SUFFICES ASSUME n <= k PROVE FALSE
      BY <1>6, <1>7
    <3>1. 0 \in 0 .. k - 1 /\ n - 1 \in 0 .. k - 1
      BY <1>6, <1>7, <2>1
    <3>2. t[1] = Space /\ t[n] = Space
      BY <1>7, <1>9, <2>1, <3>1
    <3>3. QED
      BY <2>2, <3>2
  <2> DEFINE a == k + 1
  <2>4. a \in 1 .. n /\ t[a] # Space
    <3>1. 0 \in Indices /\ 0 + k < K /\ 0 + k = k /\ k \in 0 .. n - 1
      BY <1>2, <1>6, <1>7, <2>3 DEF n, K
    <3>2. input[0] = t[k + 1]
      BY <1>7, <1>9, <3>1
    <3>3. QED
      BY <1>5, <1>7, <2>3, <3>2, <1>6
  <2>5. \A p \in 1 .. a - 1 : t[p] = Space
    <3> TAKE p \in 1 .. a - 1
    <3>1. p - 1 \in 0 .. k - 1 /\ p - 1 \in 0 .. n - 1 /\ p - 1 + 1 = p
      BY <1>6, <1>7, <2>3
    <3>2. QED
      BY <1>7, <1>9, <3>1
  <2>6. \E z \in 1 .. n : t[z] # Space /\ \A p \in z + 1 .. n : t[p] = Space
    <3> DEFINE T == {m \in Nat : m <= n - 1 /\ t[n - m] # Space}
    <3>1. T # {}
      <4>1. n - a \in Nat /\ n - a <= n - 1 /\ n - (n - a) = a
        BY <1>6, <2>4
      <4>2. n - a \in T
        BY <2>4, <4>1
      <4>3. QED
        BY <4>2
    <3>2. PICK m \in T : \A y \in T : m <= y
      BY <3>1, LeastNatural
    <3> DEFINE z == n - m
    <3>3. m \in Nat /\ z \in 1 .. n /\ t[z] # Space
      BY <1>6, <3>2
    <3>4. \A p \in z + 1 .. n : t[p] = Space
      <4> SUFFICES ASSUME NEW p \in z + 1 .. n, t[p] # Space PROVE FALSE
        OBVIOUS
      <4>1. n - p \in Nat /\ n - p <= n - 1 /\ n - (n - p) = p /\ n - p < m
        BY <1>6, <3>3
      <4>2. n - p \in T
        BY <4>1
      <4>3. QED
        BY <3>2, <3>3, <4>1, <4>2
    <3>5. QED
      BY <3>3, <3>4
  <2>7. PICK z \in 1 .. n : t[z] # Space /\ \A p \in z + 1 .. n : t[p] = Space
    BY <2>6
  <2> DEFINE m == z - k
             w == SubSeq(t, a, z)
  <2>8. z \in Nat /\ m \in Nat /\ m > 0 /\ a + m - 1 = z /\ a + m <= n + 1 /\ m \in 0 .. Top /\ a \in 1 .. n + 1
        /\ m + k = z /\ m <= n
    <3>1. a <= z
      <4> SUFFICES ASSUME z < a PROVE FALSE
        BY <2>4
      <4>1. a \in z + 1 .. n
        BY <2>4
      <4>2. QED
        BY <2>4, <2>7, <4>1
    <3>2. QED
      BY <1>2, <1>6, <1>7, <2>4, <3>1 DEF n, K
  <2>9. f[m] = NUL /\ \A p \in 0 .. m - 1 : f[p] = t[a + p] /\ f[p] # NUL
    <3> HIDE DEF m
    <3>1. \A p \in 0 .. m - 1 : /\ p \in Indices /\ p \in 0 .. Top /\ p + k < K /\ p + k \in 0 .. n - 1
                                /\ p + k + 1 = a + p
      BY <1>2, <1>6, <1>7, <2>8 DEF n, K
    <3>2. \A p \in 0 .. m - 1 : input[p] = t[a + p] /\ input[p] # NUL
      BY <1>7, <1>9, <3>1
    <3>3. m \in Indices
      BY <1>2, <1>6, <2>8 DEF n, K
    <3>4. CASE k = 0
      <4>1. m = z /\ \A p \in Indices : p + k < K /\ p + k = p
        BY <1>6, <2>8, <3>4
      <4>2. \A p \in Indices : input[p] = line[p]
        BY <1>7, <4>1
      <4>3. n - 1 \in Indices /\ input[n - 1] # NUL /\ \A q \in Indices : q > n - 1 => input[q] = NUL
        <5>1. \A q \in Indices : q > n - 1 => q \in n .. K - 1
          BY <1>6
        <5>2. QED
          BY <1>9, <1>10, <2>1, <4>2, <5>1
      <4>4. LastUsed = {n - 1}
        <5>1. n - 1 \in LastUsed
          BY <4>3 DEF LastUsed
        <5>2. ASSUME NEW x \in LastUsed PROVE x = n - 1
          <6>1. x \in Indices /\ input[x] # NUL /\ \A q \in Indices : q > x => input[q] = NUL
            BY DEF LastUsed
          <6>2. ~(x > n - 1) /\ ~(n - 1 > x)
            BY <4>3, <6>1
          <6>3. QED
            BY <1>6, <6>1, <6>2
        <5>3. QED
          BY <5>1, <5>2
      <4>5. \A p : p \in Trailing <=> p \in Indices /\ p <= n - 1 /\ \A q \in p .. n - 1 : input[q] = Space
        BY <4>4 DEF Trailing
      <4>6. \A p \in 0 .. m - 1 : p \notin Trailing
        <5> SUFFICES ASSUME NEW p \in 0 .. m - 1, p \in Trailing PROVE FALSE
          OBVIOUS
        <5>1. z - 1 \in p .. n - 1 /\ z - 1 \in 0 .. m - 1 /\ a + (z - 1) = z
          BY <1>6, <2>8, <3>4, <4>1
        <5>2. input[z - 1] = t[z]
          BY <3>2, <5>1
        <5>3. input[z - 1] = Space
          BY <4>5, <5>1
        <5>4. QED
          BY <2>7, <5>2, <5>3
      <4>7. f[m] = NUL
        <5>1. CASE m = n
          <6>1. m \in n .. K - 1
            BY <1>6, <3>3, <5>1
          <6>2. input[m] = NUL
            BY <1>10, <3>3, <4>2, <6>1
          <6>3. QED
            BY <1>5, <1>6, <3>3, <6>2
        <5>2. CASE m # n
          <6>1. m <= n - 1
            BY <1>6, <2>8, <5>2
          <6>2. ASSUME NEW q \in m .. n - 1 PROVE input[q] = Space
            <7>1. q \in 0 .. n - 1 /\ q + 1 \in z + 1 .. n
              BY <1>6, <2>8, <4>1
            <7>2. line[q] = t[q + 1] /\ q \in Indices
              BY <1>9, <7>1
            <7>3. QED
              BY <2>7, <4>2, <7>1, <7>2
          <6>3. m \in Trailing
            BY <3>3, <4>5, <6>1, <6>2
          <6>4. QED
            BY <1>5, <1>6, <3>3, <6>3
        <5>3. QED
          BY <5>1, <5>2
      <4>8. \A p \in 0 .. m - 1 : f[p] = input[p]
        BY <1>5, <3>1, <4>6
      <4>9. QED
        BY <3>2, <4>7, <4>8
    <3>5. CASE k # 0
      <4>1. k > 0 /\ 0 \in 0 .. k - 1 /\ 0 \in 0 .. n - 1
        BY <1>6, <1>7, <2>1, <3>5
      <4>2. t[1] = Space
        BY <1>7, <1>9, <2>1, <4>1
      <4>3. z = n
        <5> SUFFICES ASSUME z # n PROVE FALSE
          OBVIOUS
        <5>1. n \in z + 1 .. n
          BY <1>6, <2>8
        <5>2. QED
          BY <2>2, <2>7, <4>2, <5>1
      <4> DEFINE y == K - 1
      <4>4. y \in Indices /\ ~(y + k < K)
        BY <1>6, <1>7, <4>1
      <4>5. input[y] # NUL /\ input[y] # Space
        BY <1>7, <4>4, BehindEnds
      <4> HIDE DEF y
      <4>6. Trailing = {}
        <5> SUFFICES ASSUME NEW p \in Trailing PROVE FALSE
          OBVIOUS
        <5>1. PICK x \in LastUsed : p \in Indices /\ p <= x /\ \A q \in p .. x : input[q] = Space
          BY DEF Trailing
        <5>2. x \in Indices /\ \A q \in Indices : q > x => input[q] = NUL
          BY DEF LastUsed
        <5>3. ~(y > x)
          BY <4>4, <4>5, <5>2
        <5>4. x = y
          BY <1>6, <4>4, <5>2, <5>3 DEF y
        <5>5. x \in p .. x
          BY <1>6, <5>1, <5>2
        <5>6. QED
          BY <4>5, <5>1, <5>4, <5>5
      <4>7. \A p \in 0 .. Top : f[p] = input[p]
        BY <1>5, <4>6
      <4>8. f[m] = NUL
        <5>1. m + k = n /\ m + k < K /\ n \in n .. K - 1
          BY <1>2, <1>6, <2>8, <4>3 DEF n, K
        <5>2. input[m] = NUL
          BY <1>7, <1>10, <3>3, <5>1
        <5>3. QED
          BY <2>8, <4>7, <5>2
      <4>9. QED
        BY <3>1, <3>2, <4>7, <4>8
    <3>6. QED
      BY <3>4, <3>5
  <2>10. w \in Seq(Chars) /\ Len(w) = m /\ \A q \in 1 .. m : w[q] = t[a + q - 1]
    <3> HIDE DEF m, a
    <3>1. SubSeq(t, a, a + m - 1) \in Seq(Chars) /\ Len(SubSeq(t, a, a + m - 1)) = m
          /\ \A q \in 1 .. m : SubSeq(t, a, a + m - 1)[q] = t[a + q - 1]
      BY <1>1, <1>6, <2>8, PartIs DEF t, n
    <3>2. QED
      BY <2>8, <3>1
  <2> HIDE DEF m, w
  <2>11. Holds(f, 0, w)
    <3>1. 0 + Len(w) = m /\ m \in DOMAIN f
      BY <1>5, <2>8, <2>10
    <3>2. ASSUME NEW q \in 1 .. m PROVE w[q] = f[0 + q - 1] /\ w[q] # NUL
      <4>1. q - 1 \in 0 .. m - 1 /\ a + (q - 1) = a + q - 1 /\ 0 + q - 1 = q - 1
        BY <1>7, <2>8
      <4>2. QED
        BY <2>9, <2>10, <4>1
    <3>3. QED
      BY <2>9, <2>10, <3>1, <3>2 DEF Holds
  <2>12. StringAt(f, 0) = w
    <3>1. DOMAIN f \subseteq Int /\ 0 \in Int
      BY <1>5
    <3>2. QED
      BY <2>10, <2>11, <3>1, StringIs
  <2>13. Inner(t) = w
    BY <1>4, <1>6, <2>4, <2>5, <2>7, InnerIs DEF w
  <2>14. WordsFit(t) => WordsFit(w)
    <3> HAVE WordsFit(t)
    <3> HIDE DEF a
    <3>1. WordsFit(SubSeq(t, a, a + m - 1))
      BY <1>1, <1>6, <2>8, PartFits DEF t, n
    <3>2. QED
      BY <2>8, <3>1 DEF w
  <2>15. QED
    BY <1>8, <2>12, <2>13, <2>14 DEF t
<1>13. QED
  BY <1>11, <1>12

\* What the rows have to do with the line.
TextInv ==
    /\ pc = "trim" => \E k : Shifted(k)
    /\ pc # "trim" /\ Plain => Trimmed = Inner(Text) /\ (WordsFit(Text) => WordsFit(Trimmed))
    /\ pc \in {"split", "done"} /\ WordsFit(Trimmed) => Told(cmd, neff, Trimmed, i, input)

\* The line as it came.
LEMMA TextInit == WordsInit => TextInv
<1> SUFFICES ASSUME WordsInit PROVE TextInv
  OBVIOUS
<1>1. pc = "trim"
      /\ input = [p \in 0 .. Top |-> IF p \in Indices THEN line[p] ELSE Behind[p - KEYBOARD_BUFFER_SIZE + 1]]
  BY DEF WordsInit, Top
<1>2. 0 \in 0 .. KEYBOARD_BUFFER_SIZE /\ 0 .. 0 - 1 = {}
      /\ \A p \in Indices : p \in 0 .. Top /\ p + 0 = p /\ p < KEYBOARD_BUFFER_SIZE
  BY Sizes DEF Indices
<1>3. \A p \in Indices : input[p] = line[p]
  BY <1>1, <1>2
<1>4. Shifted(0)
  BY <1>2, <1>3 DEF Shifted
<1>5. QED
  BY <1>1, <1>4 DEF TextInv

\* A byte less in front is a space less.
LEMMA TrimLeftKept ==
    ASSUME Typed, NEW k, Shifted(k), TrimLeft
    PROVE  Shifted(k + 1)'
<1> DEFINE K == KEYBOARD_BUFFER_SIZE
<1>1. /\ input' = [p \in DOMAIN input |-> IF p \in Indices THEN input[p + 1] ELSE input[p]]
      /\ input[0] = Space /\ line' = line
  BY DEF TrimLeft
<1>2. /\ K \in Nat /\ K > 1 /\ Top \in Nat /\ Top > K
      /\ \A p : p \in Indices <=> p \in Int /\ 0 <= p /\ p < K
      /\ k \in 0 .. K /\ k \in Nat
      /\ \A p \in Indices : input[p] = IF p + k < K THEN line[p + k] ELSE Behind[1]
      /\ \A q \in 0 .. k - 1 : line[q] = Space
  BY Sizes DEF Indices, Shifted
<1>3. /\ \A p \in Indices : input'[p] = input[p + 1]
      /\ input[K] = Behind[1]
  <2>1. K \in K .. Top /\ K - K + 1 = 1 /\ \A p \in Indices : p \in 0 .. Top
    BY <1>2
  <2>2. QED
    BY <1>1, <2>1 DEF Typed, K
<1> HIDE DEF K
<1>4. k < K /\ line[k] = Space
  <2>1. 0 \in Indices /\ 0 + k = k
    BY <1>2
  <2>2. input[0] = IF k < K THEN line[k] ELSE Behind[1]
    BY <1>2, <2>1
  <2>3. QED
    BY <1>1, <2>2, BehindEnds
<1>5. ASSUME NEW p \in Indices
      PROVE  input'[p] = IF p + (k + 1) < K THEN line[p + (k + 1)] ELSE Behind[1]
  <2>1. p \in Int /\ 0 <= p /\ p < K /\ p + (k + 1) = p + 1 + k
    BY <1>2
  <2>2. CASE p + 1 < K
    <3>1. p + 1 \in Indices
      BY <1>2, <2>1, <2>2
    <3>2. input[p + 1] = IF p + 1 + k < K THEN line[p + 1 + k] ELSE Behind[1]
      BY <1>2, <3>1
    <3>3. QED
      BY <1>3, <2>1, <3>2
  <2>3. CASE ~(p + 1 < K)
    <3>1. p + 1 = K /\ ~(p + (k + 1) < K)
      BY <1>2, <2>1, <2>3
    <3>2. QED
      BY <1>3, <3>1
  <2>4. QED
    BY <2>2, <2>3
<1>6. \A q \in 0 .. k + 1 - 1 : line[q] = Space
  <2> TAKE q \in 0 .. k + 1 - 1
  <2>1. q \in 0 .. k - 1 \/ q = k
    BY <1>2
  <2>2. QED
    BY <1>2, <1>4, <2>1
<1>7. k + 1 \in 0 .. K
  BY <1>2, <1>4
<1>8. QED
  BY <1>1, <1>5, <1>6, <1>7 DEF Shifted, K

\* Nothing is said before the first round.
LEMMA ToldFirst ==
    ASSUME NEW c, NEW t, NEW f, 0 \notin DOMAIN t
    PROVE  Told(c, 0, t, 0, f)
<1>1. 1 .. 0 = {}
  OBVIOUS
<1>2. Says(c, 0, <<>>)
  <2>1. [k \in {0} |-> <<>>][0] = <<>>
    OBVIOUS
  <2>2. QED
    BY <1>1, <2>1 DEF Says
<1>3. Tells(t, 0, <<>>)
  <2>1. [k \in {0} |-> <<>>][0] = <<>>
    OBVIOUS
  <2>2. QED
    BY <1>1, <2>1 DEF Tells
<1>4. Waiting(t, 0) = <<>>
  BY DEF Waiting, Kept
<1>5. <<>> \o Waiting(t, 0) = <<>>
  BY <1>4, Short
<1>6. QED
  BY <1>2, <1>3, <1>4, <1>5, Short, ToldBy

\* Every step keeps what the rows say.
LEMMA TextStep == SplitInv /\ SplitInv' /\ TextInv /\ [WordsNext]_wordsVars => TextInv'
<1> SUFFICES ASSUME SplitInv, SplitInv', TextInv, [WordsNext]_wordsVars PROVE TextInv'
  OBVIOUS
<1>1. Typed /\ Typed'
  BY DEF SplitInv
<1>2. line' = line => Text' = Text /\ (Plain' <=> Plain)
  BY DEF Text, Plain, Ended
<1>3. ASSUME UNCHANGED <<line, input, cmd, i, neff>>, pc # "trim", pc' # "trim",
             pc' \in {"split", "done"} => pc \in {"split", "done"}
      PROVE  TextInv'
  <2>1. Trimmed' = Trimmed /\ Text' = Text /\ (Plain' <=> Plain)
    BY <1>2, <1>3 DEF Trimmed
  <2>2. Plain' => Trimmed' = Inner(Text)' /\ (WordsFit(Text)' => WordsFit(Trimmed)')
    BY <1>3, <2>1 DEF TextInv
  <2>3. pc' \in {"split", "done"} /\ WordsFit(Trimmed)' => Told(cmd, neff, Trimmed, i, input)'
    BY <1>3, <2>1 DEF TextInv
  <2>4. QED
    BY <1>3, <2>2, <2>3 DEF TextInv
<1>4. CASE TrimLeft
  <2>1. pc = "trim" /\ pc' = "trim"
    BY <1>4 DEF TrimLeft
  <2>2. PICK k : Shifted(k)
    BY <2>1 DEF TextInv
  <2>3. Shifted(k + 1)'
    BY <1>1, <1>4, <2>2, TrimLeftKept
  <2>4. QED
    BY <2>1, <2>3 DEF TextInv
<1>5. CASE TrimRight
  <2>1. pc = "trim" /\ pc' = "split" /\ line' = line /\ UNCHANGED <<cmd, i, neff>>
    BY <1>5 DEF TrimRight
  <2>2. PICK k : Shifted(k)
    BY <2>1 DEF TextInv
  <2>3. Plain' => Trimmed' = Inner(Text)' /\ (WordsFit(Text)' => WordsFit(Trimmed)')
    <3> HAVE Plain'
    <3>1. Plain /\ Text' = Text
      BY <1>2, <2>1
    <3>2. Trimmed' = Inner(Text) /\ (WordsFit(Text) => WordsFit(Inner(Text)))
      BY <1>1, <1>5, <2>2, <3>1, TrimmedText
    <3>3. QED
      BY <3>1, <3>2
  <2>4. Told(cmd, neff, Trimmed, i, input)'
    <3>1. i' = 0 /\ neff' = 0
      BY <2>1 DEF SplitInv, Blank
    <3>2. Reads(input', Trimmed', Len(Trimmed'))
      <4>1. Trimmed' = StringAt(input', 0)
        BY DEF Trimmed
      <4>2. QED
        BY <1>1, <4>1, TextIs DEF Typed
    <3>3. 0 \notin DOMAIN Trimmed'
      <4>1. DOMAIN Trimmed' = 1 .. Len(Trimmed')
        BY <3>2 DEF Reads
      <4>2. QED
        BY <4>1
    <3>4. QED
      BY <3>1, <3>3, ToldFirst
  <2>5. QED
    BY <2>1, <2>3, <2>4 DEF TextInv
<1>6. CASE SplitWord
  <2>1. /\ pc = "split" /\ pc' = "split" /\ input[i] # NUL /\ UNCHANGED <<line, input>>
        /\ \E e, b : /\ Ends(input, i, e, b) /\ DOMAIN RowBytes(e) \subseteq DOMAIN cmd
                     /\ cmd' = Written(e) /\ i' = Onwards(input, b) /\ neff' = NextRow(e)
    BY <1>1, <1>6, SplitWordIs
  <2>2. Trimmed' = Trimmed /\ Text' = Text /\ (Plain' <=> Plain) /\ input' = input
    BY <1>2, <2>1 DEF Trimmed
  <2>3. Plain' => Trimmed' = Inner(Text)' /\ (WordsFit(Text)' => WordsFit(Trimmed)')
    BY <2>1, <2>2 DEF TextInv
  <2>4. WordsFit(Trimmed)' => Told(cmd, neff, Trimmed, i, input)'
    <3> HAVE WordsFit(Trimmed)'
    <3> DEFINE t == Trimmed
               L == Len(t)
    <3>1. WordsFit(t) /\ Told(cmd, neff, t, i, input)
      BY <2>1, <2>2 DEF TextInv
    <3>2. i \in 0 .. L /\ Starts(input, i) /\ Clean(cmd, neff)
      BY <2>1, <3>1 DEF SplitInv, Split
    <3>3. Reads(input, t, L)
      BY <1>1, TrimmedIs
    <3> HIDE DEF t, L
    <3>4. PICK e, b : /\ Ends(input, i, e, b) /\ DOMAIN RowBytes(e) \subseteq DOMAIN cmd
                      /\ cmd' = Written(e) /\ i' = Onwards(input, b) /\ neff' = NextRow(e)
      BY <2>1
    <3>5. e - i < Columns
      BY <2>1, <3>1, <3>2, <3>3, <3>4, RoundFits
    <3>6. Told(Written(e), NextRow(e), t, Onwards(input, b), input)
      BY <1>1, <2>1, <3>1, <3>2, <3>3, <3>4, <3>5, RoundTold
    <3>7. Told(cmd', neff', t, i', input)
      BY <3>4, <3>6
    <3>8. QED
      BY <2>2, <3>7 DEF t
  <2>5. QED
    BY <2>1, <2>3, <2>4 DEF TextInv
<1>7. CASE RunOver
  <2>1. pc = "split" /\ pc' = "wild" /\ UNCHANGED <<line, input, cmd, i, neff>>
    BY <1>7 DEF RunOver
  <2>2. QED
    BY <1>3, <2>1
<1>8. CASE EndSplit
  <2>1. pc = "split" /\ pc' = "done" /\ UNCHANGED <<line, input, cmd, i, neff>>
    BY <1>8 DEF EndSplit
  <2>2. QED
    BY <1>3, <2>1
<1>9. CASE ParseFile
  <2>1. pc = "done" /\ pc' = "parsed" /\ UNCHANGED <<line, input, cmd, i, neff>>
    BY <1>9 DEF ParseFile
  <2>2. QED
    BY <1>3, <2>1
<1>10. CASE UNCHANGED wordsVars
  <2>1. UNCHANGED <<line, input, cmd, i, neff, pc>>
    BY <1>10 DEF wordsVars
  <2>2. CASE pc = "trim"
    <3>1. \A k : Shifted(k) => Shifted(k)'
      BY <2>1 DEF Shifted
    <3>2. QED
      BY <2>1, <2>2, <3>1 DEF TextInv
  <2>3. CASE pc # "trim"
    BY <1>3, <2>1, <2>3
  <2>4. QED
    BY <2>2, <2>3
<1>11. QED
  BY <1>4, <1>5, <1>6, <1>7, <1>8, <1>9, <1>10 DEF WordsNext, Prepare

\* Whatever spaces and slashes a line has, none at both of its ends, the rows of cmd put
\* together are the line in normal form, and cmd_length is the number of its arguments
\* (user-shell.c:526-587).
THEOREM RowsAreTheLineAlways == WordsSpec => []RowsAreTheLine
<1>1. ASSUME SplitInv, TextInv PROVE RowsAreTheLine
  <2> SUFFICES ASSUME pc = "done", Plain, WordsFit(Text)
               PROVE  Joined = Normal(Inner(Text)) /\ cmd_length = CountKept(Inner(Text), Space)
    BY DEF RowsAreTheLine
  <2> DEFINE t == Trimmed
             L == Len(t)
  <2>1. t = Inner(Text) /\ Told(cmd, neff, t, i, input)
    BY <1>1 DEF TextInv
  <2>2. Reads(input, t, L) /\ neff \in Nat /\ i \in 0 .. L /\ input[i] = NUL
        /\ cmd_length = Cardinality(Passed(t, i, Space))
    BY <1>1, TrimmedIs DEF SplitInv, Split, Typed
  <2> HIDE DEF t
  <2>3. L \in Nat /\ \A p \in 1 .. L : input[p - 1] # NUL
    BY <2>2, Sizes DEF Reads
  <2>4. i = L
    <3> SUFFICES ASSUME i # L PROVE FALSE
      OBVIOUS
    <3> HIDE DEF L
    <3>1. i + 1 \in 1 .. L /\ i + 1 - 1 = i
      BY <2>2, <2>3
    <3>2. QED
      BY <2>2, <2>3, <3>1
  <2>5. PICK s \in Seq(Chars) : Says(cmd, neff, s) /\ Tells(t, L, s \o Waiting(t, L))
    BY <2>1, <2>4 DEF Told
  <2>6. s \o Waiting(t, L) = s
    BY EndWaits, Short
  <2>7. Joined = s
    BY <2>2, <2>5, JoinedIs
  <2>8. Normal(t) = s
    BY <2>3, <2>5, <2>6, NormalIs
  <2>9. cmd_length = CountKept(t, Space)
    BY <2>2, <2>4, PassedFinite
  <2>10. QED
    BY <2>1, <2>7, <2>8, <2>9
<1>2. WordsSpec => []TextInv
  BY TextInit, TextStep, AlwaysSplit, PTL DEF WordsSpec
<1>3. QED
  BY <1>1, <1>2, AlwaysSplit, PTL
=============================================================================
