----------------------------- MODULE TreeLemmas -----------------------------
(***************************************************************************)
(* Chains of clusters, directories and the trees they make, for every size *)
(* of the FAT and of the tables and apart from any state: Chain returns    *)
(* the clusters that write() has linked, Directories the least set of      *)
(* clusters that holds the root and what its members link, and a tree of   *)
(* entries stays one when what is written is none of its.  A recursive     *)
(* function is a CHOOSE, so that each proof about one first shows that     *)
(* there is a function as the definition wants it.                         *)
(***************************************************************************)
EXTENDS Fat32Proofs, FiniteSetTheorems, SequenceTheorems, WellFoundedInduction

(***************************************************************************)
(* Induction over the naturals, on sets.                                   *)
(***************************************************************************)

\* A set of naturals that has an element has a least one.
LEMMA LeastNatural ==
    ASSUME NEW T \in SUBSET Nat, T # {}
    PROVE  \E m \in T : \A n \in T : m <= n
<1> DEFINE R == {x \in Nat \X Nat : x[1] < x[2]}
<1>1. IsWellFoundedOn(R, Nat)
  BY NatLessThanWellFounded DEF OpToRel
<1>2. PICK m \in T : \A n \in T : ~(<<n, m>> \in R)
  <2> HIDE DEF R
  <2>1. QED
    BY <1>1, WFMin
<1>3. ASSUME NEW n \in T PROVE m <= n
  <2>1. ~(<<n, m>> \in R)
    BY <1>2
  <2>2. ~(n < m)
    BY <2>1
  <2>3. QED
    BY <2>2
<1>4. QED
  BY <1>3

\* A set that holds 0 and the successor of each natural it holds has them all.
LEMMA InductiveSet ==
    ASSUME NEW T, 0 \in T, \A n \in Nat : n \in T => n + 1 \in T
    PROVE  Nat \subseteq T
<1> SUFFICES ASSUME ~(Nat \subseteq T) PROVE FALSE
  OBVIOUS
<1>1. PICK m \in Nat \ T : \A n \in Nat \ T : m <= n
  BY LeastNatural
<1>2. m # 0 /\ m - 1 \in Nat
  BY <1>1
<1>3. m - 1 \in T
  BY <1>1, <1>2
<1>4. QED
  BY <1>1, <1>2, <1>3

(***************************************************************************)
(* Chains                                                                  *)
(***************************************************************************)

\* The root's cluster is a cluster, and the ranges nest.
LEMMA CellRanges ==
    /\ CLUSTER_MAP_SIZE \in Nat /\ Cluster \subseteq Cell /\ Cell \subseteq FatValue
    /\ ROOT_CLUSTER_NUMBER \in Cluster
    /\ \A c \in Cell : c \in Int /\ c # FAT32_FAT_END_OF_FILE
    /\ \A c \in Cluster : c # FAT32_FAT_EMPTY_ENTRY
    /\ IsFiniteSet(Cluster) /\ Cardinality(Cluster) < CLUSTER_MAP_SIZE
<1>1. IsFiniteSet(Cluster) /\ Cardinality(Cluster) < CLUSTER_MAP_SIZE
  BY SizeAssumption, FS_Interval DEF Cluster, ROOT_CLUSTER_NUMBER
<1>2. QED
  BY <1>1, SizeAssumption DEF Cell, Cluster, FatValue, ROOT_CLUSTER_NUMBER, CLUSTER_0_VALUE,
     FAT32_FAT_END_OF_FILE, FAT32_FAT_EMPTY_ENTRY

\* In f the clusters of q are linked, in ascending order, to the last one.
IsChain(f, q) ==
    /\ q \in Seq(Cluster) /\ q # <<>>
    /\ f[q[Len(q)]] = FAT32_FAT_END_OF_FILE
    /\ \A i \in 1 .. Len(q) - 1 : f[q[i]] = q[i + 1]
    /\ \A i, j \in 1 .. Len(q) : i < j => q[i] < q[j]

\* A chain has fewer clusters than the FAT has cells.
LEMMA ChainLength ==
    ASSUME NEW f, NEW q, IsChain(f, q)
    PROVE  Len(q) \in Nat \ {0} /\ Len(q) < CLUSTER_MAP_SIZE
<1>1. q \in [1 .. Len(q) -> Cluster] /\ Len(q) \in Nat \ {0}
  BY DEF IsChain
<1>2. ASSUME NEW i \in 1 .. Len(q), NEW j \in 1 .. Len(q), q[i] = q[j]
      PROVE  i = j
  <2>1. ~(i < j) /\ ~(j < i)
    BY <1>1, <1>2, CellRanges DEF IsChain
  <2>2. QED
    BY <2>1, <1>1
<1>3. q \in Injection(1 .. Len(q), Cluster)
  BY <1>1, <1>2 DEF Injection, IsInjective
<1>4. Cardinality(1 .. Len(q)) <= Cardinality(Cluster)
  BY <1>3, CellRanges, FS_Injection
<1>5. Cardinality(1 .. Len(q)) = Len(q)
  BY <1>1, FS_Interval
<1>6. Cardinality(Cluster) \in Nat
  BY CellRanges, FS_CardinalityType
<1>7. QED
  BY <1>1, <1>4, <1>5, <1>6, CellRanges

\* The condition that ends the walk of Chain, and its equation on a set D.
Stops(f, q, stray) ==
    After(f, q, stray) = FAT32_FAT_END_OF_FILE \/ Len(q) > CLUSTER_MAP_SIZE + 2
IsWalk(f, stray, W, D) ==
    W = [q \in D |-> IF Stops(f, q, stray) THEN q ELSE W[Append(q, After(f, q, stray))]]

\* Each cell leads to a value of the FAT.
LEMMA AfterType ==
    ASSUME NEW f \in [Cell -> FatValue], NEW stray \in FatValue, NEW q \in Seq(FatValue)
    PROVE  /\ After(f, q, stray) \in FatValue
           /\ Append(q, After(f, q, stray)) \in Seq(FatValue)
           /\ Len(Append(q, After(f, q, stray))) = Len(q) + 1
<1>1. After(f, q, stray) \in FatValue
  BY DEF After, Lookup
<1>2. QED
  BY <1>1, AppendProperties

\* There is a function as the definition of Chain wants it.
LEMMA WalkExists ==
    ASSUME NEW f \in [Cell -> FatValue], NEW stray \in FatValue
    PROVE  \E W : IsWalk(f, stray, W, Seq(FatValue))
<1> DEFINE B    == CLUSTER_MAP_SIZE + 2
           D(n) == {q \in Seq(FatValue) : Len(q) + n > B}
           T    == {n \in Nat : \E W : IsWalk(f, stray, W, D(n))}
<1>1. B \in Nat
  BY CellRanges
<1>2. 0 \in T
  <2>1. \A q \in D(0) : Stops(f, q, stray)
    BY DEF Stops
  <2>2. IsWalk(f, stray, [q \in D(0) |-> q], D(0))
    BY <2>1 DEF IsWalk
  <2>3. QED
    BY <2>2
<1>3. ASSUME NEW n \in Nat, n \in T
      PROVE  n + 1 \in T
  <2>1. PICK W : IsWalk(f, stray, W, D(n))
    BY <1>3
  <2> DEFINE V == [q \in D(n + 1) |->
                     IF Stops(f, q, stray) THEN q ELSE W[Append(q, After(f, q, stray))]]
  <2>2. D(n) \subseteq D(n + 1)
    BY <1>1
  <2>3. \A q \in D(n + 1) : Append(q, After(f, q, stray)) \in D(n)
    BY AfterType, <1>1
  <2>4. \A q \in D(n) : W[q] = IF Stops(f, q, stray) THEN q ELSE W[Append(q, After(f, q, stray))]
    <3> HIDE DEF D
    <3>1. QED
      BY <2>1 DEF IsWalk
  <2>5. \A q \in D(n) : V[q] = W[q]
    <3> HIDE DEF D
    <3>1. QED
      BY <2>2, <2>4
  <2>6. \A q \in D(n + 1) : V[Append(q, After(f, q, stray))] = W[Append(q, After(f, q, stray))]
    <3> HIDE DEF D, V
    <3>1. QED
      BY <2>3, <2>5
  <2>7. IsWalk(f, stray, V, D(n + 1))
    <3> DEFINE U == [q \in D(n + 1) |->
                       IF Stops(f, q, stray) THEN q ELSE V[Append(q, After(f, q, stray))]]
    <3>1. \A q \in D(n + 1) : V[q] = U[q]
      <4> HIDE DEF D
      <4>1. ASSUME NEW q \in D(n + 1) PROVE V[q] = U[q]
        <5>1. V[q] = IF Stops(f, q, stray) THEN q ELSE W[Append(q, After(f, q, stray))]
          OBVIOUS
        <5> HIDE DEF V
        <5>2. U[q] = IF Stops(f, q, stray) THEN q ELSE V[Append(q, After(f, q, stray))]
          OBVIOUS
        <5>3. QED
          BY <5>1, <5>2, <2>6
      <4>2. QED
        BY <4>1
    <3>2. V = U
      <4> HIDE DEF D
      <4>1. QED
        BY <3>1
    <3>3. QED
      BY <3>2 DEF IsWalk
  <2>8. QED
    <3> HIDE DEF V, D
    <3>1. QED
      BY <2>7
<1>4. Nat \subseteq T
  <2> HIDE DEF T
  <2>1. QED
    BY <1>2, <1>3, InductiveSet
<1>5. D(B + 1) = Seq(FatValue)
  BY <1>1
<1>6. B + 1 \in T
  <2> HIDE DEF T
  <2>1. QED
    BY <1>1, <1>4
<1>7. QED
  BY <1>5, <1>6

\* Where write() has linked a chain, read() goes through that chain and ends.
LEMMA ChainIs ==
    ASSUME NEW f \in [Cell -> FatValue], NEW stray \in FatValue, NEW q, IsChain(f, q)
    PROVE  Chain(f, q[1], stray) = q /\ Ends(f, q, stray)
<1> DEFINE W      == CHOOSE V : V = [p \in Seq(FatValue) |->
                         IF After(f, p, stray) = FAT32_FAT_END_OF_FILE
                            \/ Len(p) > CLUSTER_MAP_SIZE + 2
                         THEN p ELSE V[Append(p, After(f, p, stray))]]
           Pre(k) == [i \in 1 .. k |-> q[i]]
           T      == {k \in Nat : k < Len(q) => W[Pre(k + 1)] = W[<<q[1]>>]}
<1>1. Chain(f, q[1], stray) = W[<<q[1]>>]
  BY DEF Chain
<1>2. IsWalk(f, stray, W, Seq(FatValue))
  BY WalkExists DEF IsWalk, Stops
<1> HIDE DEF W
<1>3. \A p \in Seq(FatValue) :
         W[p] = IF Stops(f, p, stray) THEN p ELSE W[Append(p, After(f, p, stray))]
  BY <1>2 DEF IsWalk
<1>4. Len(q) \in Nat \ {0} /\ Len(q) < CLUSTER_MAP_SIZE
  BY ChainLength
<1>5. \A i \in 1 .. Len(q) : q[i] \in Cluster /\ q[i] \in Cell /\ q[i] \in FatValue
  BY CellRanges DEF IsChain
<1>6. \A k \in 1 .. Len(q) : Pre(k) \in Seq(FatValue) /\ Len(Pre(k)) = k
  <2> TAKE k \in 1 .. Len(q)
  <2>1. Pre(k) \in [1 .. k -> FatValue] /\ k \in Nat
    BY <1>4, <1>5
  <2>2. QED
    BY <2>1
<1>7. 0 \in T
  <2>1. Pre(1) = <<q[1]>>
    OBVIOUS
  <2>2. QED
    BY <2>1
<1>8. ASSUME NEW k \in Nat, k \in T
      PROVE  k + 1 \in T
  <2> SUFFICES ASSUME k + 1 < Len(q)
               PROVE  W[Pre(k + 2)] = W[<<q[1]>>]
    BY <1>4
  <2>1. /\ k + 1 \in 1 .. Len(q) - 1 /\ k + 1 \in 1 .. Len(q) /\ k + 2 \in 1 .. Len(q)
        /\ k < Len(q)
    BY <1>4
  <2>2. W[Pre(k + 1)] = W[<<q[1]>>]
    BY <1>8, <2>1
  <2>3. After(f, Pre(k + 1), stray) = q[k + 2]
    <3>1. Pre(k + 1)[Len(Pre(k + 1))] = q[k + 1]
      BY <1>6, <2>1
    <3> HIDE DEF Pre
    <3>2. f[q[k + 1]] = q[k + 1 + 1]
      BY <2>1 DEF IsChain
    <3>3. QED
      BY <3>1, <3>2, <1>5, <2>1 DEF After, Lookup
  <2>4. ~Stops(f, Pre(k + 1), stray)
    <3> HIDE DEF Pre
    <3>1. QED
      BY <2>1, <2>3, <1>4, <1>5, <1>6, CellRanges DEF Stops
  <2>5. Append(Pre(k + 1), q[k + 2]) = Pre(k + 2)
    <3> DEFINE A == Append(Pre(k + 1), q[k + 2])
    <3>1. Pre(k + 1) \in Seq(FatValue) /\ Len(Pre(k + 1)) = k + 1 /\ q[k + 2] \in FatValue
      BY <1>5, <1>6, <2>1
    <3>2. /\ A \in Seq(FatValue) /\ Len(A) = k + 2
          /\ \A i \in 1 .. k + 1 : A[i] = Pre(k + 1)[i]
          /\ A[k + 2] = q[k + 2]
      <4> HIDE DEF Pre
      <4>1. QED
        BY <3>1, AppendProperties
    <3>3. \A i \in 1 .. k + 2 : A[i] = q[i]
      <4>1. \A i \in 1 .. k + 1 : A[i] = q[i]
        BY <3>2
      <4>2. QED
        BY <4>1, <3>2
    <3>4. Pre(k + 2) \in Seq(FatValue) /\ Len(Pre(k + 2)) = k + 2
      BY <1>6, <2>1
    <3>5. \A i \in 1 .. k + 2 : A[i] = Pre(k + 2)[i]
      BY <3>3
    <3> HIDE DEF A, Pre
    <3>6. A = Pre(k + 2)
      BY <3>2, <3>4, <3>5, SeqEqual
    <3>7. QED
      BY <3>6 DEF A
  <2>6. QED
    <3> HIDE DEF Pre
    <3>1. QED
      BY <2>1, <2>2, <2>3, <2>4, <2>5, <1>3, <1>6
<1>9. Len(q) - 1 \in T
  <2>1. Nat \subseteq T
    <3> HIDE DEF T
    <3>1. QED
      BY <1>7, <1>8, InductiveSet
  <2>2. QED
    BY <2>1, <1>4
<1>10. Pre(Len(q)) = q
  BY <1>4 DEF IsChain
<1>11. W[q] = W[<<q[1]>>]
  <2>1. Len(q) - 1 < Len(q) /\ Len(q) - 1 + 1 = Len(q)
    BY <1>4
  <2>2. QED
    BY <1>9, <1>10, <2>1
<1>12. After(f, q, stray) = FAT32_FAT_END_OF_FILE /\ q \in Seq(FatValue)
  <2>1. q[Len(q)] \in Cell
    BY <1>4, <1>5
  <2>2. q \in Seq(FatValue)
    BY <1>4, <1>6, <1>10
  <2>3. QED
    BY <2>1, <2>2 DEF After, Lookup, IsChain
<1>13. W[q] = q
  BY <1>3, <1>12 DEF Stops
<1>14. QED
  BY <1>1, <1>11, <1>12, <1>13 DEF Ends

(***************************************************************************)
(* Directories                                                             *)
(***************************************************************************)

\* What one round of Below adds to S, and a set that a round adds nothing to.
Linking(t, S) ==
    S \cup {t[x[1]][x[2]].cluster : x \in {y \in S \X Slot : t[y[1]][y[2]].attribute = "dir"}}
Closed(t, S) ==
    \A d \in S, s \in Slot : t[d][s].attribute = "dir" => t[d][s].cluster \in S

\* The least closed set of clusters over S.
Hull(t, S) == {c \in Cluster : \A X \in SUBSET Cluster : S \subseteq X /\ Closed(t, X) => c \in X}

\* A directory's entries have clusters.
LEMMA LinkingType ==
    ASSUME NEW t \in [Cluster -> Table], NEW S \in SUBSET Cluster
    PROVE  /\ Linking(t, S) \in SUBSET Cluster
           /\ Linking(t, S) = S <=> Closed(t, S)
<1>1. ASSUME NEW d \in Cluster, NEW s \in Slot, t[d][s].attribute = "dir"
      PROVE  t[d][s].cluster \in Cluster
  <2>1. t[d][s] \in UsedEntry \cup {FreeEntry}
    BY DEF Table
  <2>2. QED
    BY <1>1, <2>1 DEF UsedEntry, FreeEntry
<1>2. \A c : c \in Linking(t, S) <=>
              \/ c \in S
              \/ \E d \in S, s \in Slot : t[d][s].attribute = "dir" /\ c = t[d][s].cluster
  <2> DEFINE P == {y \in S \X Slot : t[y[1]][y[2]].attribute = "dir"}
  <2>1. ASSUME NEW d \in S, NEW s \in Slot, t[d][s].attribute = "dir"
        PROVE  t[d][s].cluster \in Linking(t, S)
    <3>1. <<d, s>> \in P
      BY <2>1
    <3>2. \A x \in P : t[x[1]][x[2]].cluster \in Linking(t, S)
      BY DEF Linking
    <3> HIDE DEF P
    <3>3. t[<<d, s>>[1]][<<d, s>>[2]].cluster \in Linking(t, S)
      BY <3>1, <3>2
    <3>4. QED
      BY <3>3
  <2>2. ASSUME NEW c \in Linking(t, S), c \notin S
        PROVE  \E d \in S, s \in Slot : t[d][s].attribute = "dir" /\ c = t[d][s].cluster
    <3>1. PICK x \in P : c = t[x[1]][x[2]].cluster
      BY <2>2 DEF Linking
    <3>2. x[1] \in S /\ x[2] \in Slot /\ t[x[1]][x[2]].attribute = "dir"
      BY <3>1
    <3>3. QED
      BY <3>1, <3>2
  <2>3. S \subseteq Linking(t, S)
    BY DEF Linking
  <2>4. QED
    BY <2>1, <2>2, <2>3
<1>3. Linking(t, S) \in SUBSET Cluster
  BY <1>1, <1>2
<1>4. Linking(t, S) = S <=> Closed(t, S)
  <2> HIDE DEF Linking
  <2>1. QED
    BY <1>2 DEF Closed
<1>5. QED
  BY <1>3, <1>4

\* A round changes nothing about the least closed set.
LEMMA HullLinking ==
    ASSUME NEW t \in [Cluster -> Table], NEW S \in SUBSET Cluster
    PROVE  /\ Closed(t, S) => Hull(t, S) = S
           /\ Hull(t, Linking(t, S)) = Hull(t, S)
<1>1. Closed(t, S) => Hull(t, S) = S
  BY DEF Hull
<1>2. ASSUME NEW X \in SUBSET Cluster, Closed(t, X)
      PROVE  S \subseteq X <=> Linking(t, S) \subseteq X
  BY <1>2 DEF Linking, Closed
<1>3. Hull(t, Linking(t, S)) = Hull(t, S)
  BY <1>2 DEF Hull
<1>4. QED
  BY <1>1, <1>3

\* A function as the definition of Below wants it.
IsSearch(t, F) ==
    F = [S \in SUBSET Cluster |-> IF Linking(t, S) = S THEN S ELSE F[Linking(t, S)]]

\* There is one, and it has the least closed sets as its values.
LEMMA SearchExists ==
    ASSUME NEW t \in [Cluster -> Table]
    PROVE  \E F : IsSearch(t, F)
<1> DEFINE F == [S \in SUBSET Cluster |-> Hull(t, S)]
           G == [S \in SUBSET Cluster |-> IF Linking(t, S) = S THEN S ELSE F[Linking(t, S)]]
<1>1. ASSUME NEW S \in SUBSET Cluster
      PROVE  F[S] = G[S]
  <2>1. F[Linking(t, S)] = Hull(t, Linking(t, S))
    BY LinkingType
  <2>2. CASE Linking(t, S) = S
    BY <2>2, LinkingType, HullLinking
  <2>3. CASE Linking(t, S) # S
    BY <2>1, <2>3, HullLinking
  <2>4. QED
    BY <2>2, <2>3
<1>2. F = G
  BY <1>1
<1>3. IsSearch(t, F)
  BY <1>2 DEF IsSearch
<1>4. QED
  BY <1>3

\* A function that follows links until nothing is new returns the closed hull.
LEMMA SearchIs ==
    ASSUME NEW t \in [Cluster -> Table], NEW F, IsSearch(t, F)
    PROVE  \A S \in SUBSET Cluster : F[S] = Hull(t, S)
<1> DEFINE Rest(S) == Cardinality(Cluster \ S)
           T       == {n \in Nat : \E S \in SUBSET Cluster : Rest(S) = n /\ F[S] # Hull(t, S)}
<1>1. \A S \in SUBSET Cluster : F[S] = IF Linking(t, S) = S THEN S ELSE F[Linking(t, S)]
  BY DEF IsSearch
<1>2. ASSUME NEW S \in SUBSET Cluster
      PROVE  IsFiniteSet(Cluster \ S) /\ Rest(S) \in Nat
  BY CellRanges, FS_Subset, FS_CardinalityType
<1>3. ASSUME NEW S \in SUBSET Cluster, Linking(t, S) # S
      PROVE  Rest(Linking(t, S)) < Rest(S)
  <2> DEFINE L == Linking(t, S)
  <2>1. L \in SUBSET Cluster /\ S \subseteq L
    BY LinkingType DEF Linking
  <2>2. Cluster \ L \in SUBSET (Cluster \ S) /\ Cluster \ L # Cluster \ S
    BY <2>1, <1>3
  <2> HIDE DEF L
  <2>3. Rest(L) <= Rest(S) /\ Rest(L) # Rest(S)
    BY <1>2, <2>2, FS_Subset
  <2>4. QED
    BY <2>1, <2>3, <1>2 DEF L
<1>4. T = {}
  <2> SUFFICES ASSUME T # {} PROVE FALSE
    OBVIOUS
  <2>1. PICK m \in T : \A n \in T : m <= n
    <3> HIDE DEF T
    <3>1. T \in SUBSET Nat
      BY DEF T
    <3>2. QED
      BY <3>1, LeastNatural
  <2>2. PICK S \in SUBSET Cluster : Rest(S) = m /\ F[S] # Hull(t, S)
    OBVIOUS
  <2>3. Linking(t, S) # S
    BY <2>2, <1>1, LinkingType, HullLinking
  <2>4. F[Linking(t, S)] # Hull(t, Linking(t, S)) /\ Linking(t, S) \in SUBSET Cluster
    BY <2>2, <2>3, <1>1, LinkingType, HullLinking
  <2>5. Rest(Linking(t, S)) \in T
    BY <2>4, <1>2
  <2>6. Rest(Linking(t, S)) < m /\ m \in Nat /\ Rest(Linking(t, S)) \in Nat
    BY <2>2, <2>3, <2>4, <1>2, <1>3
  <2>7. QED
    <3> HIDE DEF T, Rest
    <3>1. QED
      BY <2>1, <2>5, <2>6
<1>5. QED
  BY <1>2, <1>4

\* The directories of a tree: the root, what they link, and nothing else.
LEMMA DirectoriesAre ==
    ASSUME NEW t \in [Cluster -> Table]
    PROVE  /\ Directories(t) \in SUBSET Cluster
           /\ ROOT_CLUSTER_NUMBER \in Directories(t)
           /\ Closed(t, Directories(t))
           /\ \A X \in SUBSET Cluster :
                 ROOT_CLUSTER_NUMBER \in X /\ Closed(t, X) => Directories(t) \subseteq X
<1> DEFINE F == CHOOSE G : G = [S \in SUBSET Cluster |->
                   LET more == S \cup {t[x[1]][x[2]].cluster : x \in
                                 {y \in S \X Slot : t[y[1]][y[2]].attribute = "dir"}}
                   IN  IF more = S THEN S ELSE G[more]]
           R == {ROOT_CLUSTER_NUMBER}
<1>1. Directories(t) = Cluster \cap F[R]
  BY DEF Directories, Below
<1>2. IsSearch(t, F)
  BY SearchExists DEF IsSearch, Linking
<1> HIDE DEF F
<1>3. Directories(t) = Hull(t, R)
  <2>1. R \in SUBSET Cluster
    BY CellRanges
  <2>2. F[R] = Hull(t, R)
    BY <1>2, <2>1, SearchIs
  <2>3. QED
    BY <1>1, <2>2 DEF Hull
<1>4. Closed(t, Hull(t, R))
  <2>1. ASSUME NEW d \in Hull(t, R), NEW s \in Slot, t[d][s].attribute = "dir"
        PROVE  t[d][s].cluster \in Hull(t, R)
    <3>1. d \in Cluster
      BY DEF Hull
    <3>2. t[d][s].cluster \in Cluster
      <4>1. t[d][s] \in UsedEntry \cup {FreeEntry}
        BY <3>1 DEF Table
      <4>2. QED
        BY <2>1, <4>1 DEF UsedEntry, FreeEntry
    <3>3. QED
      BY <2>1, <3>2 DEF Hull, Closed
  <2>2. QED
    BY <2>1 DEF Closed
<1>5. QED
  BY <1>3, <1>4, CellRanges DEF Hull

\* Trees that agree where one of them has directories have the same ones.
LEMMA DirectoriesAgree ==
    ASSUME NEW t \in [Cluster -> Table], NEW u \in [Cluster -> Table],
           \A d \in Directories(t) : u[d] = t[d]
    PROVE  Directories(u) = Directories(t)
<1>1. Closed(u, Directories(t))
  BY DirectoriesAre DEF Closed
<1>2. Directories(u) \subseteq Directories(t)
  BY <1>1, DirectoriesAre
<1>3. Closed(t, Directories(u))
  BY <1>2, DirectoriesAre DEF Closed
<1>4. Directories(t) \subseteq Directories(u)
  BY <1>3, DirectoriesAre
<1>5. QED
  BY <1>2, <1>4

(***************************************************************************)
(* Trees, apart from any state: t are the tables, f the FAT and b the      *)
(* blocks of files.  An owner o is a directory and a slot of its table.    *)
(***************************************************************************)
ItsEntry(t, o) == t[o[1]][o[2]]
ItsChain(f, t, o) == Chain(f, ItsEntry(t, o).cluster, FAT32_FAT_EMPTY_ENTRY)

\* No cluster is in both.
Apart(q, r) == \A i \in DOMAIN q, j \in DOMAIN r : q[i] # r[j]

\* The root's cluster is not in q.
NoRoot(q) == \A i \in DOMAIN q : q[i] # ROOT_CLUSTER_NUMBER

HasChain(f, t, o) ==
    LET q == ItsChain(f, t, o)
    IN  IsChain(f, q) /\ q[1] = ItsEntry(t, o).cluster /\ NoRoot(q)

Holds(b, q, p) == \A k \in DOMAIN q : b[q[k]] = <<p, k>>

HasContent(f, t, b, o) ==
    LET q == ItsChain(f, t, o)
    IN  /\ ItsEntry(t, o).attribute = "file" =>
              /\ Len(q) = ItsEntry(t, o).filesize
              /\ Len(q) \in Lengths
              /\ \E p \in Payloads : Holds(b, q, p)
        /\ ItsEntry(t, o).attribute = "dir" => Len(q) = 1 /\ b[q[1]] = NoBlock

Tree(f, t, b) ==
    /\ \A o \in Owners(t) : HasChain(f, t, o) /\ HasContent(f, t, b, o)
    /\ \A o1, o2 \in Owners(t) : o1 # o2 => Apart(ItsChain(f, t, o1), ItsChain(f, t, o2))

(***************************************************************************)
(* How the owners of a tree change when its tables do.                     *)
(***************************************************************************)

\* What is an owner.
LEMMA OwnerIs ==
    ASSUME NEW t, NEW o
    PROVE  o \in Owners(t) <=> /\ o \in Directories(t) \X Slot
                               /\ Used(ItsEntry(t, o))
                               /\ ~IsSelfEntry(t, o[1], o[2])
BY DEF Owners, ItsEntry

\* An owner's directory is a cluster.
LEMMA PairOf ==
    ASSUME NEW t, NEW o \in Directories(t) \X Slot
    PROVE  o[1] \in Cluster /\ o[2] \in Slot /\ o = <<o[1], o[2]>>
<1>1. o[1] \in Directories(t) /\ o[2] \in Slot /\ o = <<o[1], o[2]>>
  OBVIOUS
<1>2. QED
  BY <1>1, DirectoriesType

\* An owner's entry is a file's or a directory's.
LEMMA OwnedEntry ==
    ASSUME NEW t \in [Cluster -> Table], NEW o \in Owners(t)
    PROVE  ItsEntry(t, o) \in UsedEntry /\ ItsEntry(t, o).attribute \in {"file", "dir"}
<1>1. o \in Directories(t) \X Slot /\ Used(ItsEntry(t, o))
  BY OwnerIs
<1>2. o[1] \in Cluster /\ o[2] \in Slot
  BY <1>1, PairOf
<1>3. t[o[1]][o[2]] \in UsedEntry \cup {FreeEntry}
  BY <1>2 DEF Table
<1>4. QED
  BY <1>1, <1>3 DEF Used, ItsEntry, FreeEntry, UsedEntry

\* Every directory but the root has an owner.
LEMMA DirectoryOwned ==
    ASSUME NEW t \in [Cluster -> Table], NEW d \in Directories(t), d # ROOT_CLUSTER_NUMBER
    PROVE  \E o \in Owners(t) : ItsEntry(t, o).attribute = "dir" /\ ItsEntry(t, o).cluster = d
<1> DEFINE IsOwned(c) == \E o \in Owners(t) : ItsEntry(t, o).attribute = "dir" /\ ItsEntry(t, o).cluster = c
           X == {c \in Directories(t) : c = ROOT_CLUSTER_NUMBER \/ IsOwned(c)}
<1>1. X \in SUBSET Cluster /\ ROOT_CLUSTER_NUMBER \in X
  BY DirectoriesAre
<1>2. ASSUME NEW c \in X, NEW s \in Slot, t[c][s].attribute = "dir"
      PROVE  t[c][s].cluster \in X
  <2>1. t[c][s].cluster \in Directories(t)
    BY <1>2, DirectoriesAre DEF Closed
  <2>2. CASE IsSelfEntry(t, c, s)
    BY <2>2 DEF IsSelfEntry
  <2>3. CASE ~IsSelfEntry(t, c, s)
    <3>1. <<c, s>> \in Directories(t) \X Slot
      OBVIOUS
    <3>2. ItsEntry(t, <<c, s>>) = t[c][s]
      BY DEF ItsEntry
    <3>3. <<c, s>> \in Owners(t)
      BY <1>2, <2>3, <3>1, <3>2, OwnerIs DEF Used
    <3>4. IsOwned(t[c][s].cluster)
      BY <1>2, <3>2, <3>3
    <3>5. QED
      BY <2>1, <3>4
  <2>4. QED
    BY <2>2, <2>3
<1>3. Closed(t, X)
  BY <1>2 DEF Closed
<1>4. Directories(t) \subseteq X
  BY <1>1, <1>3, DirectoriesAre
<1>5. QED
  BY <1>4

\* Tables that agree on the directories of one of them have the same owners.
LEMMA OwnersAgree ==
    ASSUME NEW t \in [Cluster -> Table], NEW u \in [Cluster -> Table],
           \A d \in Directories(t) : u[d] = t[d]
    PROVE  /\ Directories(u) = Directories(t) /\ Owners(u) = Owners(t)
           /\ \A o \in Owners(t) : ItsEntry(u, o) = ItsEntry(t, o)
<1>1. Directories(u) = Directories(t)
  BY DirectoriesAgree
<1>2. ASSUME NEW o \in Directories(t) \X Slot
      PROVE  /\ ItsEntry(u, o) = ItsEntry(t, o)
             /\ o \in Owners(u) <=> o \in Owners(t)
  <2>1. u[o[1]] = t[o[1]]
    OBVIOUS
  <2>2. QED
    BY <1>1, <2>1, OwnerIs DEF ItsEntry, IsSelfEntry
<1>3. QED
  BY <1>1, <1>2, OwnerIs

\* The tables t after entry e is written to slot s of directory d.
Put(t, d, s, e) == [t EXCEPT ![d] = [t[d] EXCEPT ![s] = e]]

\* An entry that is taken out takes its owner with it, and adds none.
LEMMA OwnersRemoved ==
    ASSUME NEW t \in [Cluster -> Table], NEW d \in Cluster, NEW s \in Slot, NEW u,
           u = Put(t, d, s, FreeEntry)
    PROVE  /\ u \in [Cluster -> Table]
           /\ Directories(u) \subseteq Directories(t)
           /\ Owners(u) \subseteq Owners(t) \ {<<d, s>>}
           /\ \A o \in Owners(u) : ItsEntry(u, o) = ItsEntry(t, o)
<1>1. u \in [Cluster -> Table] /\ u[d][s] = FreeEntry
  BY DEF Put, Table
<1>2. \A c \in Cluster, r \in Slot : <<c, r>> # <<d, s>> => u[c][r] = t[c][r]
  BY DEF Put, Table
<1>3. Closed(u, Directories(t))
  <2>1. ASSUME NEW c \in Directories(t), NEW r \in Slot, u[c][r].attribute = "dir"
        PROVE  u[c][r].cluster \in Directories(t)
    <3>1. c \in Cluster
      BY DirectoriesAre
    <3>2. <<c, r>> # <<d, s>>
      BY <1>1, <2>1 DEF FreeEntry
    <3>3. u[c][r] = t[c][r]
      BY <1>2, <3>1, <3>2
    <3>4. QED
      BY <2>1, <3>3, DirectoriesAre DEF Closed
  <2>2. QED
    BY <2>1 DEF Closed
<1>4. Directories(u) \subseteq Directories(t)
  BY <1>1, <1>3, DirectoriesAre
<1>5. ASSUME NEW o \in Owners(u)
      PROVE  o \in Owners(t) \ {<<d, s>>} /\ ItsEntry(u, o) = ItsEntry(t, o)
  <2>1. o \in Directories(u) \X Slot /\ Used(ItsEntry(u, o)) /\ ~IsSelfEntry(u, o[1], o[2])
    BY OwnerIs
  <2>2. o[1] \in Cluster /\ o[2] \in Slot /\ o = <<o[1], o[2]>>
    BY <2>1, PairOf
  <2>3. o # <<d, s>>
    BY <2>1, <1>1 DEF Used, FreeEntry, ItsEntry
  <2>4. u[o[1]][o[2]] = t[o[1]][o[2]]
    BY <2>2, <2>3, <1>2
  <2>5. QED
    BY <2>1, <2>3, <2>4, <1>4, OwnerIs DEF ItsEntry, IsSelfEntry
<1>6. QED
  BY <1>1, <1>4, <1>5

\* What an entry leaves in the tree when it is taken out: all other owners, if it is
\* a file's or that of a directory with no entries but its own.
LEMMA OwnersLeft ==
    ASSUME NEW t \in [Cluster -> Table], NEW d \in Cluster, NEW s \in Slot, NEW u,
           u = Put(t, d, s, FreeEntry),
           t[d][s].attribute = "dir" =>
              \A r \in Slot : Used(t[t[d][s].cluster][r]) => IsSelfEntry(t, t[d][s].cluster, r)
    PROVE  Owners(t) \ {<<d, s>>} \subseteq Owners(u)
<1> DEFINE X == Directories(u) \cup {c \in Cluster : t[d][s].attribute = "dir" /\ c = t[d][s].cluster}
<1>1. u \in [Cluster -> Table]
  BY DEF Put, Table
<1>2. \A c \in Cluster, r \in Slot : <<c, r>> # <<d, s>> => u[c][r] = t[c][r]
  BY DEF Put, Table
<1>3. ASSUME NEW c \in X, NEW r \in Slot, t[c][r].attribute = "dir"
      PROVE  t[c][r].cluster \in X
  <2>1. c \in Cluster
    BY <1>1, DirectoriesAre
  <2>2. t[c][r].cluster \in Cluster
    BY <2>1, <1>3 DEF Table, UsedEntry, FreeEntry
  <2>3. CASE <<c, r>> = <<d, s>>
    BY <2>2, <2>3, <1>3
  <2>4. CASE <<c, r>> # <<d, s>> /\ c \in Directories(u)
    <3>1. u[c][r] = t[c][r]
      BY <1>2, <2>1, <2>4
    <3>2. QED
      BY <1>1, <1>3, <2>4, <3>1, DirectoriesAre DEF Closed
  <2>5. CASE c \notin Directories(u)
    <3>1. t[d][s].attribute = "dir" /\ c = t[d][s].cluster
      BY <2>5
    <3>2. IsSelfEntry(t, c, r)
      BY <3>1, <1>3 DEF Used
    <3>3. QED
      BY <3>2 DEF IsSelfEntry
  <2>6. QED
    BY <2>3, <2>4, <2>5
<1>4. X \in SUBSET Cluster /\ ROOT_CLUSTER_NUMBER \in X
  BY <1>1, DirectoriesAre
<1>5. Directories(t) \subseteq X
  <2>1. Closed(t, X)
    BY <1>3 DEF Closed
  <2> HIDE DEF X
  <2>2. QED
    BY <2>1, <1>4, DirectoriesAre
<1>6. ASSUME NEW o \in Owners(t), o # <<d, s>>
      PROVE  o \in Owners(u)
  <2>1. o \in Directories(t) \X Slot /\ Used(ItsEntry(t, o)) /\ ~IsSelfEntry(t, o[1], o[2])
    BY OwnerIs
  <2>2. o[1] \in Cluster /\ o[2] \in Slot /\ o = <<o[1], o[2]>> /\ o[1] \in Directories(t)
    BY <2>1, PairOf
  <2>3. u[o[1]][o[2]] = t[o[1]][o[2]]
    BY <1>2, <1>6, <2>2
  <2>4. o[1] \in Directories(u)
    <3>1. CASE o[1] \notin Directories(u)
      <4>1. t[d][s].attribute = "dir" /\ o[1] = t[d][s].cluster
        BY <1>5, <2>2, <3>1
      <4>2. QED
        BY <2>1, <2>2, <4>1 DEF ItsEntry
    <3>2. QED
      BY <3>1
  <2>5. o \in Directories(u) \X Slot
    BY <2>2, <2>4
  <2>6. QED
    BY <2>1, <2>3, <2>5, OwnerIs DEF ItsEntry, IsSelfEntry
<1>7. QED
  BY <1>6

\* If entry e is for a directory then that has no entry but its own.
Blank(t, e) == e.attribute = "dir" => \E n : t[e.cluster] = NewTable(n, e.cluster)

\* An entry that is put in for a cluster outside of the tree adds one owner.
LEMMA OwnersAdded ==
    ASSUME NEW t \in [Cluster -> Table], NEW d \in Cluster, NEW s \in Slot,
           NEW e \in UsedEntry, NEW u,
           u = Put(t, d, s, e),
           e.cluster # d, Blank(t, e)
    PROVE  /\ u \in [Cluster -> Table]
           /\ Directories(u) \subseteq
                 Directories(t) \cup {c \in {e.cluster} : e.attribute = "dir"}
           /\ \A o \in Owners(u) : \/ o = <<d, s>>
                                   \/ o \in Owners(t) /\ ItsEntry(u, o) = ItsEntry(t, o)
<1> DEFINE New == {c \in {e.cluster} : e.attribute = "dir"}
           D   == Directories(t) \cup New
<1>1. u \in [Cluster -> Table] /\ u[d][s] = e /\ e.cluster \in Cluster
  BY DEF Put, Table, UsedEntry
<1>2. \A c \in Cluster, r \in Slot : <<c, r>> # <<d, s>> => u[c][r] = t[c][r]
  BY DEF Put, Table
<1>3. ASSUME NEW c \in New, NEW r \in Slot
      PROVE  /\ r # 0 => u[c][r] = FreeEntry
             /\ r = 0 => IsSelfEntry(u, c, r)
  <2>1. PICK n : t[c] = NewTable(n, c)
    BY DEF Blank
  <2>2. u[c][r] = NewTable(n, c)[r]
    BY <1>1, <1>2, <2>1
  <2>3. QED
    BY <2>2, Ranges DEF NewTable, EmptyTable, IsSelfEntry
<1>4. Closed(u, D)
  <2>1. ASSUME NEW c \in D, NEW r \in Slot, u[c][r].attribute = "dir"
        PROVE  u[c][r].cluster \in D
    <3>1. c \in Cluster
      BY <1>1, DirectoriesAre
    <3>2. CASE <<c, r>> = <<d, s>>
      BY <3>2, <2>1, <1>1
    <3>3. CASE <<c, r>> # <<d, s>> /\ c \in Directories(t)
      <4>1. u[c][r] = t[c][r]
        BY <1>2, <3>1, <3>3
      <4>2. QED
        BY <2>1, <3>3, <4>1, DirectoriesAre DEF Closed
    <3>4. CASE c \in New
      <4>1. r = 0
        BY <1>3, <2>1, <3>4 DEF FreeEntry
      <4>2. u[c][r].cluster = c
        BY <1>3, <3>4, <4>1 DEF IsSelfEntry
      <4>3. QED
        BY <3>4, <4>2
    <3>5. QED
      BY <3>2, <3>3, <3>4
  <2>2. QED
    BY <2>1 DEF Closed
<1>5. Directories(u) \subseteq D
  BY <1>1, <1>4, DirectoriesAre
<1>6. ASSUME NEW o \in Owners(u), o # <<d, s>>
      PROVE  o \in Owners(t) /\ ItsEntry(u, o) = ItsEntry(t, o)
  <2>1. o \in Directories(u) \X Slot /\ Used(ItsEntry(u, o)) /\ ~IsSelfEntry(u, o[1], o[2])
    BY OwnerIs
  <2>2. o[1] \in Cluster /\ o[2] \in Slot /\ o = <<o[1], o[2]>>
    BY <2>1, PairOf
  <2>3. u[o[1]][o[2]] = t[o[1]][o[2]]
    BY <2>2, <1>6, <1>2
  <2>4. o[1] \notin New
    <3>1. u[o[1]][o[2]] # FreeEntry /\ ~IsSelfEntry(u, o[1], o[2])
      BY <2>1 DEF Used, FreeEntry, ItsEntry
    <3>2. QED
      BY <2>2, <3>1, <1>3
  <2>5. o[1] \in Directories(t)
    BY <2>1, <2>4, <1>5
  <2>6. QED
    BY <2>1, <2>2, <2>3, <2>5, OwnerIs DEF ItsEntry, IsSelfEntry
<1>7. QED
  BY <1>1, <1>5, <1>6

\* An entry that is put into a free slot drops no owner, and is one.
LEMMA OwnersGained ==
    ASSUME NEW t \in [Cluster -> Table], NEW d \in Directories(t), NEW s \in Slot \ {0},
           NEW e \in UsedEntry, NEW u, u = Put(t, d, s, e), ~Used(t[d][s])
    PROVE  Owners(t) \cup {<<d, s>>} \subseteq Owners(u)
<1>1. d \in Cluster /\ s \in Slot
  BY DirectoriesAre
<1>2. /\ u \in [Cluster -> Table] /\ u[d][s] = e
      /\ \A c \in Cluster, r \in Slot : <<c, r>> # <<d, s>> => u[c][r] = t[c][r]
  BY <1>1 DEF Put, Table
<1>3. ASSUME NEW c \in Directories(u), NEW r \in Slot, t[c][r].attribute = "dir"
      PROVE  t[c][r].cluster \in Directories(u)
  <2>1. c \in Cluster
    BY <1>2, DirectoriesAre
  <2>2. <<c, r>> # <<d, s>>
    BY <1>3 DEF Used
  <2>3. u[c][r] = t[c][r]
    BY <1>2, <2>1, <2>2
  <2>4. QED
    BY <1>2, <1>3, <2>3, DirectoriesAre DEF Closed
<1>4. Directories(t) \subseteq Directories(u)
  <2>1. Closed(t, Directories(u))
    BY <1>3 DEF Closed
  <2>2. QED
    BY <2>1, <1>2, DirectoriesAre
<1>5. ASSUME NEW o \in Owners(t)
      PROVE  o \in Owners(u)
  <2>1. o \in Directories(t) \X Slot /\ Used(ItsEntry(t, o)) /\ ~IsSelfEntry(t, o[1], o[2])
    BY OwnerIs
  <2>2. o[1] \in Cluster /\ o[2] \in Slot /\ o = <<o[1], o[2]>>
    BY <2>1, PairOf
  <2>3. o # <<d, s>>
    BY <2>1 DEF ItsEntry
  <2>4. u[o[1]][o[2]] = t[o[1]][o[2]]
    BY <1>2, <2>2, <2>3
  <2>5. o \in Directories(u) \X Slot
    BY <1>4, <2>1
  <2>6. QED
    BY <2>1, <2>4, <2>5, OwnerIs DEF ItsEntry, IsSelfEntry
<1>6. <<d, s>> \in Owners(u)
  <2>1. <<d, s>> \in Directories(u) \X Slot
    BY <1>1, <1>4
  <2>2. ItsEntry(u, <<d, s>>) = e /\ Used(e)
    BY <1>2 DEF ItsEntry, Used, UsedEntry
  <2>3. ~IsSelfEntry(u, d, s)
    BY DEF IsSelfEntry
  <2>4. QED
    BY <2>1, <2>2, <2>3, OwnerIs
<1>7. QED
  BY <1>5, <1>6

(***************************************************************************)
(* How trees carry over to another FAT, other tables and other blocks.     *)
(***************************************************************************)

\* A chain is one in every FAT that has its cells.
LEMMA ChainMoves ==
    ASSUME NEW f, NEW g, NEW q, IsChain(f, q), \A k \in DOMAIN q : g[q[k]] = f[q[k]]
    PROVE  IsChain(g, q)
<1>1. Len(q) \in Nat \ {0} /\ DOMAIN q = 1 .. Len(q)
  BY DEF IsChain
<1>2. QED
  BY <1>1 DEF IsChain

\* The cells of a chain are in use, and lead to where they lead in any FAT in which
\* it is a chain.
LEMMA ChainCells ==
    ASSUME NEW f, NEW q, IsChain(f, q)
    PROVE  /\ 1 \in DOMAIN q /\ DOMAIN q = 1 .. Len(q)
           /\ \A k \in DOMAIN q : q[k] \in Cluster /\ f[q[k]] # FAT32_FAT_EMPTY_ENTRY
           /\ \A g : IsChain(g, q) => \A k \in DOMAIN q : g[q[k]] = f[q[k]]
<1>1. Len(q) \in Nat \ {0} /\ DOMAIN q = 1 .. Len(q) /\ \A k \in DOMAIN q : q[k] \in Cluster
  BY DEF IsChain
<1>2. ASSUME NEW k \in DOMAIN q
      PROVE  /\ f[q[k]] # FAT32_FAT_EMPTY_ENTRY
             /\ \A g : IsChain(g, q) => g[q[k]] = f[q[k]]
  <2>1. CASE k = Len(q)
    BY <2>1 DEF IsChain, FAT32_FAT_END_OF_FILE, FAT32_FAT_EMPTY_ENTRY
  <2>2. CASE k # Len(q)
    <3>1. k \in 1 .. Len(q) - 1 /\ k + 1 \in DOMAIN q
      BY <2>2, <1>1
    <3>2. q[k + 1] # FAT32_FAT_EMPTY_ENTRY
      BY <3>1, <1>1, CellRanges
    <3>3. QED
      BY <3>1, <3>2 DEF IsChain
  <2>3. QED
    BY <2>1, <2>2
<1>3. QED
  BY <1>1, <1>2

\* An owner keeps its chain where the FAT keeps it.
LEMMA ChainKept ==
    ASSUME NEW f \in [Cell -> FatValue], NEW g \in [Cell -> FatValue],
           NEW t, NEW u, NEW o, HasChain(f, t, o),
           ItsEntry(u, o) = ItsEntry(t, o),
           \A k \in DOMAIN ItsChain(f, t, o) : g[ItsChain(f, t, o)[k]] = f[ItsChain(f, t, o)[k]]
    PROVE  ItsChain(g, u, o) = ItsChain(f, t, o) /\ HasChain(g, u, o)
<1> DEFINE q == ItsChain(f, t, o)
<1>1. IsChain(f, q) /\ q[1] = ItsEntry(t, o).cluster /\ NoRoot(q)
  BY DEF HasChain
<1>2. IsChain(g, q)
  BY <1>1, ChainMoves
<1> HIDE DEF q
<1>3. Chain(g, q[1], FAT32_FAT_EMPTY_ENTRY) = q
  BY <1>2, Ranges, ChainIs
<1>4. ItsChain(g, u, o) = q
  BY <1>1, <1>3 DEF ItsChain
<1>5. QED
  BY <1>1, <1>2, <1>4 DEF HasChain, q

\* Owner o of the tree of f, t and b is as it was in that of g, u and h.
Stays(f, t, b, g, u, h, o) ==
    /\ o \in Owners(t) /\ ItsEntry(u, o) = ItsEntry(t, o)
    /\ \A k \in DOMAIN ItsChain(f, t, o) :
          g[ItsChain(f, t, o)[k]] = f[ItsChain(f, t, o)[k]]
    /\ \A k \in DOMAIN ItsChain(f, t, o) :
          \/ h[ItsChain(f, t, o)[k]] = b[ItsChain(f, t, o)[k]]
          \/ ItsEntry(t, o).attribute = "dir" /\ h[ItsChain(f, t, o)[k]] = NoBlock

\* The owners of g, u and h are some of those of f, t and b, and perhaps x, which
\* has a chain and content of its own.
AllStayBut(f, t, b, g, u, h, x) ==
    /\ \A o \in Owners(u) \ {x} : Stays(f, t, b, g, u, h, o)
    /\ x \in Owners(u) =>
          /\ HasChain(g, u, x) /\ HasContent(g, u, h, x)
          /\ \A o \in Owners(u) \ {x} : Apart(ItsChain(g, u, x), ItsChain(f, t, o))
AllStay(f, t, b, g, u, h) == \A o \in Owners(u) : Stays(f, t, b, g, u, h, o)

\* Then they are a tree too.
LEMMA TreeFrom ==
    ASSUME NEW f \in [Cell -> FatValue], NEW g \in [Cell -> FatValue],
           NEW t, NEW u, NEW b, NEW h, NEW x, Tree(f, t, b),
           AllStayBut(f, t, b, g, u, h, x)
    PROVE  /\ Tree(g, u, h)
           /\ \A o \in Owners(u) \ {x} : ItsChain(g, u, o) = ItsChain(f, t, o)
<1> USE DEF AllStayBut
<1>1. ASSUME NEW o \in Owners(u), o # x
      PROVE  /\ o \in Owners(t)
             /\ ItsChain(g, u, o) = ItsChain(f, t, o)
             /\ HasChain(g, u, o) /\ HasContent(g, u, h, o)
  <2>1. Stays(f, t, b, g, u, h, o)
    BY <1>1
  <2>2. o \in Owners(t) /\ HasChain(f, t, o) /\ HasContent(f, t, b, o)
    BY <2>1 DEF Tree, Stays
  <2>3. ItsChain(g, u, o) = ItsChain(f, t, o) /\ HasChain(g, u, o)
    BY <2>1, <2>2, ChainKept DEF Stays
  <2>4. HasContent(g, u, h, o)
    BY <2>1, <2>2, <2>3 DEF HasContent, Holds, Stays
  <2>5. QED
    BY <2>2, <2>3, <2>4
<1>2. \A o \in Owners(u) : HasChain(g, u, o) /\ HasContent(g, u, h, o)
  BY <1>1
<1>3. ASSUME NEW o1 \in Owners(u), NEW o2 \in Owners(u), o1 # o2
      PROVE  Apart(ItsChain(g, u, o1), ItsChain(g, u, o2))
  <2>1. CASE o1 # x /\ o2 # x
    BY <1>1, <1>3, <2>1 DEF Tree
  <2>2. CASE o1 = x
    BY <1>1, <1>3, <2>2
  <2>3. CASE o2 = x
    <3>1. Apart(ItsChain(g, u, x), ItsChain(f, t, o1))
      BY <1>3, <2>3
    <3>2. QED
      BY <1>1, <1>3, <2>3, <3>1 DEF Apart
  <2>4. QED
    BY <2>1, <2>2, <2>3
<1>4. QED
  BY <1>1, <1>2, <1>3 DEF Tree

\* The case in which no owner is new.
LEMMA TreeKept ==
    ASSUME NEW f \in [Cell -> FatValue], NEW g \in [Cell -> FatValue],
           NEW t, NEW u, NEW b, NEW h, Tree(f, t, b),
           AllStay(f, t, b, g, u, h)
    PROVE  Tree(g, u, h) /\ \A o \in Owners(u) : ItsChain(g, u, o) = ItsChain(f, t, o)
<1>1. <<>> \notin Owners(u)
  <2>1. \A o \in Owners(u) : o = <<o[1], o[2]>>
    BY OwnerIs, PairOf
  <2>2. QED
    BY <2>1
<1>2. AllStayBut(f, t, b, g, u, h, <<>>)
  BY <1>1 DEF AllStay, AllStayBut
<1>3. Tree(g, u, h) /\ \A o \in Owners(u) \ {<<>>} : ItsChain(g, u, o) = ItsChain(f, t, o)
  BY <1>2, TreeFrom
<1>4. QED
  BY <1>1, <1>3

\* The clusters of a chain that is apart from the tree hold none of its directories.
LEMMA NotLinked ==
    ASSUME NEW f, NEW t \in [Cluster -> Table], NEW b, NEW q, Tree(f, t, b), NoRoot(q),
           \A o \in Owners(t) : Apart(q, ItsChain(f, t, o))
    PROVE  \A i \in DOMAIN q : q[i] \notin Directories(t)
<1> SUFFICES ASSUME NEW i \in DOMAIN q, q[i] \in Directories(t) PROVE FALSE
  OBVIOUS
<1>1. PICK o \in Owners(t) : ItsEntry(t, o).cluster = q[i]
  BY DirectoryOwned DEF NoRoot
<1>2. IsChain(f, ItsChain(f, t, o)) /\ ItsChain(f, t, o)[1] = q[i]
  BY <1>1 DEF Tree, HasChain
<1>3. 1 \in DOMAIN ItsChain(f, t, o)
  BY <1>2, ChainLength DEF IsChain
<1>4. QED
  BY <1>2, <1>3 DEF Apart

\* No file has content in the cluster of a directory.
LEMMA FilesApart ==
    ASSUME NEW f, NEW t \in [Cluster -> Table], NEW b, NEW d \in Directories(t),
           NEW o \in Owners(t), Tree(f, t, b), ItsEntry(t, o).attribute = "file"
    PROVE  Apart(<<d>>, ItsChain(f, t, o))
<1>1. CASE d = ROOT_CLUSTER_NUMBER
  BY <1>1 DEF Tree, HasChain, NoRoot, Apart
<1>2. CASE d # ROOT_CLUSTER_NUMBER
  <2>1. PICK r \in Owners(t) : ItsEntry(t, r).attribute = "dir" /\ ItsEntry(t, r).cluster = d
    BY <1>2, DirectoryOwned
  <2>2. IsChain(f, ItsChain(f, t, r)) /\ ItsChain(f, t, r)[1] = d
    BY <2>1 DEF Tree, HasChain
  <2>3. 1 \in DOMAIN ItsChain(f, t, r)
    BY <2>2, ChainLength DEF IsChain
  <2>4. Apart(ItsChain(f, t, r), ItsChain(f, t, o))
    BY <2>1 DEF Tree
  <2>5. QED
    BY <2>2, <2>3, <2>4 DEF Apart
<1>3. QED
  BY <1>1, <1>2

\* write() makes a chain of the clusters it has collected, and of no other cell.
LEMMA LinkedChain ==
    ASSUME NEW f \in [Cell -> FatValue], NEW n \in Nat \ {0}, NEW q \in Allocation(f, n)
    PROVE  /\ IsChain(Linked(f, q), q) /\ Len(q) = n
           /\ \A c \in Cell : (\A i \in DOMAIN q : q[i] # c) => Linked(f, q)[c] = f[c]
<1>1. /\ q \in Seq(Cluster) /\ Len(q) = n /\ DOMAIN q = 1 .. n
      /\ \A i \in 1 .. n : q[i] \in Cluster /\ q[i] \in Cell /\ q[i] \in Int
  BY AllocationType, CellRanges
<1>2. \A i, j \in 1 .. n : i < j => q[i] < q[j]
  BY DEF Allocation
<1>3. ASSUME NEW i \in 1 .. n
      PROVE  Linked(f, q)[q[i]] = IF i = n THEN FAT32_FAT_END_OF_FILE ELSE q[i + 1]
  <2>1. \A j \in 1 .. n : q[j] = q[i] => j = i
    <3> SUFFICES ASSUME NEW j \in 1 .. n, q[j] = q[i], j # i PROVE FALSE
      OBVIOUS
    <3>1. j < i \/ i < j
      OBVIOUS
    <3>2. QED
      BY <3>1, <1>1, <1>2
  <2>2. (CHOOSE j \in DOMAIN q : q[j] = q[i]) = i
    BY <2>1, <1>1
  <2>3. QED
    BY <2>2, <1>1 DEF Linked
<1>4. IsChain(Linked(f, q), q)
  <2>1. n \in 1 .. n /\ q # <<>>
    BY <1>1
  <2>2. \A i \in 1 .. n - 1 : i \in 1 .. n /\ i # n
    OBVIOUS
  <2>3. QED
    BY <1>1, <1>2, <1>3, <2>1, <2>2 DEF IsChain
<1>5. QED
  BY <1>1, <1>4 DEF Linked

\* One cluster that is marked is a chain.
LEMMA MarkedChain ==
    ASSUME NEW f \in [Cell -> FatValue], NEW q \in Allocation(f, 1)
    PROVE  /\ IsChain([f EXCEPT ![q[1]] = FAT32_FAT_END_OF_FILE], q)
           /\ DOMAIN q = {1} /\ Len(q) = 1
           /\ \A c \in Cell : q[1] # c => [f EXCEPT ![q[1]] = FAT32_FAT_END_OF_FILE][c] = f[c]
<1> DEFINE g == [f EXCEPT ![q[1]] = FAT32_FAT_END_OF_FILE]
<1>1. 1 \in Nat /\ 1 .. 1 = {1} /\ 1 .. 1 - 1 = {}
  OBVIOUS
<1>2. q \in Seq(Cluster) /\ Len(q) = 1 /\ DOMAIN q = {1} /\ q[1] \in Cluster
  BY <1>1, AllocationType
<1>3. q[1] \in Cell
  BY <1>2, Ranges
<1>4. g[q[1]] = FAT32_FAT_END_OF_FILE /\ \A c \in Cell : q[1] # c => g[c] = f[c]
  BY <1>3
<1>5. q # <<>>
  <2>1. q # <<>> \/ DOMAIN q = DOMAIN <<>>
    OBVIOUS
  <2>2. DOMAIN <<>> = {}
    OBVIOUS
  <2>3. QED
    BY <1>2, <2>1, <2>2
<1> HIDE DEF g
<1>6. IsChain(g, q)
  BY <1>1, <1>2, <1>4, <1>5 DEF IsChain
<1>7. QED
  BY <1>2, <1>4, <1>6 DEF g

\* delete() leaves a chain when it clears the first cell of one.
LEMMA ClearedChain ==
    ASSUME NEW f \in [Cell -> FatValue], NEW q, IsChain(f, q), Len(q) > 1
    PROVE  LET r == [i \in 1 .. Len(q) - 1 |-> q[i + 1]]
           IN  /\ IsChain(Cleared(f, q[1]), r) /\ Len(r) = Len(q) - 1
               /\ r[1] = f[q[1]] /\ \A i \in DOMAIN r : r[i] = q[i + 1] /\ i + 1 \in DOMAIN q
<1> DEFINE r == [i \in 1 .. Len(q) - 1 |-> q[i + 1]]
           n == Len(q) - 1
<1>1. Len(q) \in Nat /\ n \in Nat \ {0} /\ DOMAIN q = 1 .. Len(q) /\ q \in Seq(Cluster)
  BY DEF IsChain
<1>2. \A i \in 1 .. Len(q) : q[i] \in Cluster /\ q[i] \in Cell /\ q[i] \in Int
  BY <1>1, CellRanges
<1>3. \A i \in 1 .. n : i + 1 \in 1 .. Len(q) /\ r[i] = q[i + 1] /\ 1 < i + 1
  BY <1>1
<1>4. r \in Seq(Cluster) /\ Len(r) = n /\ DOMAIN r = 1 .. n
  <2>1. r \in [1 .. n -> Cluster]
    BY <1>2, <1>3
  <2>2. QED
    BY <2>1, <1>1
<1>5. r # <<>>
  BY <1>1, <1>4
<1> HIDE DEF r
<1>6. 1 \in 1 .. Len(q) /\ 1 \in 1 .. Len(q) - 1 /\ f[q[1]] = q[2] /\ r[1] = q[2]
  <2>1. 1 \in 1 .. n /\ 1 \in 1 .. Len(q) /\ 1 + 1 = 2
    BY <1>1
  <2>2. r[1] = q[2]
    BY <1>3, <2>1
  <2>3. QED
    BY <2>1, <2>2 DEF IsChain
<1>7. \A i \in 1 .. n : Cleared(f, q[1])[r[i]] = f[q[i + 1]]
  <2> TAKE i \in 1 .. n
  <2>1. q[1] < q[i + 1]
    BY <1>3, <1>6 DEF IsChain
  <2>2. QED
    BY <2>1, <1>2, <1>3, <1>6 DEF Cleared
<1>8. \A i, j \in 1 .. n : i < j => r[i] < r[j]
  <2> TAKE i, j \in 1 .. n
  <2>1. i < j => i + 1 < j + 1
    BY <1>1
  <2>2. QED
    BY <2>1, <1>3 DEF IsChain
<1>9. \A i \in 1 .. n - 1 : Cleared(f, q[1])[r[i]] = r[i + 1]
  <2> TAKE i \in 1 .. n - 1
  <2>1. i \in 1 .. n /\ i + 1 \in 1 .. n /\ i + 1 \in 1 .. Len(q) - 1
    BY <1>1
  <2>2. f[q[i + 1]] = q[i + 1 + 1] /\ r[i + 1] = q[i + 1 + 1]
    BY <2>1, <1>3 DEF IsChain
  <2>3. QED
    BY <2>1, <2>2, <1>7
<1>10. Cleared(f, q[1])[r[n]] = FAT32_FAT_END_OF_FILE
  <2>1. n \in 1 .. n /\ n + 1 = Len(q)
    BY <1>1
  <2>2. QED
    BY <2>1, <1>7 DEF IsChain
<1>11. IsChain(Cleared(f, q[1]), r)
  BY <1>4, <1>5, <1>8, <1>9, <1>10 DEF IsChain
<1>12. QED
  BY <1>3, <1>4, <1>6, <1>11, <1>1 DEF r

\* Tables with no entry but the root's own are a tree without owners.
LEMMA EmptyTree ==
    ASSUME NEW t \in [Cluster -> Table],
           \A c \in Cluster, s \in Slot : Used(t[c][s]) => IsSelfEntry(t, c, s)
    PROVE  Owners(t) = {} /\ \A f, b : Tree(f, t, b)
<1>1. Owners(t) = {}
  BY OwnerIs, PairOf DEF ItsEntry
<1>2. QED
  BY <1>1 DEF Tree
=============================================================================
