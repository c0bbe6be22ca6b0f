-------------------------- MODULE XferSelectProofs --------------------------
(***************************************************************************)
(* For every list of blocks, every size of a block with room for one input,  *)
(* and any number of keys: what a transfer gathers fits its arrays, covers    *)
(* its blocks and, under one key, is all that was asked.                      *)
(***************************************************************************)
EXTENDS XferSelect, FiniteSetTheorems, SequenceTheorems, WellFoundedInduction, TLAPS

-----------------------------------------------------------------------------
(* Sums over a list, by induction from the least number principle *)

LEMMA LeastMember ==
  ASSUME NEW T, T \subseteq Nat, T # {}
  PROVE  \E m \in T : \A k \in T : m <= k
<1>1. \E m \in T : \A k \in T : ~(<<k, m>> \in OpToRel(<, Nat))
  BY WFMin, NatLessThanWellFounded, Zenon
<1>2. PICK m \in T : \A k \in T : ~(<<k, m>> \in OpToRel(<, Nat))
  BY <1>1, Zenon
<1>3. \A k \in T : m <= k
  <2> TAKE k \in T
  <2>1. ~(k < m)
    BY <1>2 DEF OpToRel
  <2> QED
    BY <2>1
<1> QED
  BY <1>3

LEMMA Climbing ==
  ASSUME NEW T, NEW N \in Nat, 0 \in T, \A n \in 0 .. N : n < N /\ n \in T => n + 1 \in T
  PROVE  \A n \in 0 .. N : n \in T
<1> SUFFICES ASSUME NEW n \in 0 .. N, n \notin T PROVE FALSE
  OBVIOUS
<1> DEFINE U == {i \in Nat : i <= N /\ i \notin T}
<1>1. n \in U /\ U \subseteq Nat
  OBVIOUS
<1>2. PICK m \in U : \A k \in U : m <= k
  BY <1>1, LeastMember
<1>3. m # 0
  BY <1>2
<1>4. m - 1 \in 0 .. N /\ m - 1 < N /\ m - 1 \notin U
  BY <1>2, <1>3
<1>5. m \in T
  BY <1>4
<1> QED
  BY <1>5

\* The sums of a list exist, so they are what their definition says.
LEMMA SumsAre ==
  ASSUME NEW s, NEW N \in Nat, N = Len(s), \A n \in 1 .. N : s[n].amount \in Nat
  PROVE  /\ Sums(s)[0] = 0 /\ Total(s) = Sums(s)[N]
         /\ \A n \in 1 .. N : Sums(s)[n] = Sums(s)[n - 1] + s[n].amount
         /\ \A n \in 0 .. N : Sums(s)[n] \in Nat
<1> DEFINE IsSum(f) == f = [n \in 0 .. N |-> IF n = 0 THEN 0 ELSE f[n - 1] + s[n].amount]
           sum == CHOOSE f : IsSum(f)
           UpTo(n, f) == /\ f \in [0 .. n -> Nat] /\ f[0] = 0
                         /\ \A i \in 1 .. n : f[i] = f[i - 1] + s[i].amount
           T == {n \in Nat : \E f : UpTo(n, f)}
<1>1. Sums(s) = sum /\ Total(s) = Sums(s)[N]
  BY Zenon DEF Sums, Total
<1>2. 0 \in T
  <2>1. UpTo(0, [i \in 0 .. 0 |-> 0])
    OBVIOUS
  <2> QED
    BY <2>1
<1>3. ASSUME NEW n \in 0 .. N, n < N, n \in T PROVE n + 1 \in T
  <2>1. PICK f : UpTo(n, f)
    BY <1>3
  <2> DEFINE g == [i \in 0 .. n + 1 |-> IF i = n + 1 THEN f[n] + s[n + 1].amount ELSE f[i]]
  <2>2. f[n] \in Nat /\ s[n + 1].amount \in Nat
    BY <1>3, <2>1
  <2>3. g \in [0 .. n + 1 -> Nat]
    BY <2>1, <2>2
  <2>4. g[0] = 0 /\ \A i \in 1 .. n + 1 : g[i] = g[i - 1] + s[i].amount
    BY <2>1
  <2>5. UpTo(n + 1, g)
    BY <2>3, <2>4
  <2> HIDE DEF g, UpTo
  <2> QED
    BY <2>5
<1>4. PICK f : UpTo(N, f)
  <2>1. N \in T
    <3> HIDE DEF T
    <3>1. \A n \in 0 .. N : n \in T
      BY <1>2, <1>3, Climbing
    <3> QED
      BY <3>1
  <2> HIDE DEF UpTo
  <2> QED
    BY <2>1
<1>5. f = [n \in 0 .. N |-> IF n = 0 THEN 0 ELSE f[n - 1] + s[n].amount]
  BY <1>4
<1>6. IsSum(sum)
  BY <1>5
<1> HIDE DEF sum
<1>7. sum[0] = 0 /\ \A n \in 1 .. N : sum[n] = sum[n - 1] + s[n].amount
  BY <1>6
<1> DEFINE R == {n \in Nat : sum[n] \in Nat}
<1>8. \A n \in 0 .. N : n \in R
  <2>1. 0 \in R /\ \A n \in 0 .. N : n < N /\ n \in R => n + 1 \in R
    BY <1>6
  <2> HIDE DEF R
  <2> QED
    BY <2>1, Climbing
<1> QED
  BY <1>1, <1>7, <1>8

-----------------------------------------------------------------------------
(* What is gathered for one block *)

\* Inputs F, their keys K and whether the default key still has to sign.  One
\* field more than a block has can only come from a second key.
Packed(F, K, S) ==
  /\ F \in Seq(Input) /\ IsFiniteSet(K) /\ K \subseteq Keys
  /\ K = KeysOf(F) /\ S = (Default \notin K)
  /\ Nfields(Len(F), K, S) <= XDAG_BLOCK_FIELDS + 1
  /\ Nfields(Len(F), K, S) = XDAG_BLOCK_FIELDS + 1 => Cardinality(K) >= 2

LEMMA Sizes ==
  /\ XFER_MAX_IN \in Nat /\ XFER_MAX_IN >= 3 /\ XDAG_BLOCK_FIELDS = XFER_MAX_IN + 5
  /\ Default \in Keys
BY SelectAssumption DEF SelectAssumption

LEMMA PackedEmpty == Packed(<<>>, {}, TRUE)
<1>1. IsFiniteSet({}) /\ Cardinality({}) = 0
  BY FS_EmptySet
<1>2. KeysOf(<<>>) = {}
  BY DEF KeysOf, Range
<1>3. Nfields(Len(<<>>), {}, TRUE) = 4
  BY <1>1 DEF Nfields
<1>4. <<>> \in Seq(Input) /\ 4 <= XDAG_BLOCK_FIELDS + 1 /\ 4 # XDAG_BLOCK_FIELDS + 1
  BY Sizes
<1>5. {} \subseteq Keys /\ TRUE = (Default \notin {})
  OBVIOUS
<1> QED
  BY <1>1, <1>2, <1>3, <1>4, <1>5, Zenon DEF Packed

\* xdag_create_block counts the fields as the walk does.
LEMMA PackedFits ==
  ASSUME NEW F, NEW K, NEW S, Packed(F, K, S)
  PROVE  Fits(F) <=> Nfields(Len(F), K, S) <= XDAG_BLOCK_FIELDS
BY DEF Packed, Fits

LEMMA KeysNonempty ==
  ASSUME NEW F \in Seq(Input)
  PROVE  KeysOf(F) = {} <=> Len(F) = 0
<1>1. DOMAIN F = 1 .. Len(F) /\ Len(F) \in Nat
  OBVIOUS
<1>2. Len(F) # 0 => ours[F[1].block].key \in KeysOf(F)
  BY <1>1 DEF KeysOf, Range
<1>3. Len(F) = 0 => KeysOf(F) = {}
  BY <1>1 DEF KeysOf, Range
<1> QED
  BY <1>2, <1>3

\* What is gathered fits the arrays of inputs and keys.
LEMMA PackedSmall ==
  ASSUME NEW F, NEW K, NEW S, Packed(F, K, S)
  PROVE  Len(F) <= XFER_MAX_IN /\ Cardinality(K) <= XFER_MAX_IN
<1>1. /\ Len(F) \in Nat /\ Cardinality(K) \in Nat
      /\ Cardinality(K) = 0 <=> Len(F) = 0
  BY KeysNonempty, FS_CardinalityType, FS_EmptySet DEF Packed
<1> DEFINE n == Len(F)
           c == Cardinality(K)
<1>2. /\ 2 + n + 3 * c <= XDAG_BLOCK_FIELDS + 1
      /\ 2 + n + 3 * c = XDAG_BLOCK_FIELDS + 1 => c >= 2
  BY <1>1, Sizes DEF Packed, Nfields
<1> HIDE DEF n, c
<1>3. n \in Nat /\ c \in Nat /\ (c = 0 <=> n = 0)
  BY <1>1 DEF n, c
<1>4. n <= XFER_MAX_IN /\ c <= XFER_MAX_IN
  BY <1>2, <1>3, Sizes
<1> QED
  BY <1>4 DEF n, c

LEMMA OneKeyMore ==
  ASSUME NEW K, IsFiniteSet(K), NEW k
  PROVE  /\ IsFiniteSet(K \cup {k}) /\ Cardinality(K) \in Nat
         /\ Cardinality(K \cup {k}) = IF k \in K THEN Cardinality(K) ELSE Cardinality(K) + 1
BY FS_AddElement, FS_CardinalityType

\* An input whose key fits is put to the others.
LEMMA PackedMore ==
  ASSUME NEW F, NEW K, NEW S, Packed(F, K, S),
         NEW x \in Input, NEW k \in Keys, k = ours[x.block].key,
         Nfields(Len(F), K \cup {k}, S /\ k # Default) <= XDAG_BLOCK_FIELDS,
         Nfields(Len(F), K, S) # XDAG_BLOCK_FIELDS
  PROVE  /\ Packed(Append(F, x), K \cup {k}, S /\ k # Default)
         /\ K \subseteq {k} => Nfields(Len(Append(F, x)), K \cup {k}, S /\ k # Default)
                                 <= XDAG_BLOCK_FIELDS
<1> DEFINE G == Append(F, x)
           Q == K \cup {k}
           Z == S /\ k # Default
<1>1. F \in Seq(Input) /\ G \in Seq(Input) /\ Len(F) \in Nat /\ Len(G) = Len(F) + 1
  BY DEF Packed
<1>2. KeysOf(G) = Q
  <2>1. Range(G) = Range(F) \cup {x}
    <3>1. /\ DOMAIN G = 1 .. Len(F) + 1 /\ DOMAIN F = 1 .. Len(F)
          /\ \A i \in 1 .. Len(F) : G[i] = F[i]
          /\ G[Len(F) + 1] = x
      BY <1>1
    <3> QED
      BY <1>1, <3>1 DEF Range
  <2>2. KeysOf(F) = K
    BY DEF Packed
  <2> QED
    BY <2>1, <2>2 DEF KeysOf
<1>3. /\ IsFiniteSet(K) /\ K \subseteq Keys /\ S = (Default \notin K)
      /\ K = {} <=> Len(F) = 0
  BY KeysNonempty DEF Packed
<1>4. /\ IsFiniteSet(Q) /\ Cardinality(K) \in Nat
      /\ Cardinality(Q) = IF k \in K THEN Cardinality(K) ELSE Cardinality(K) + 1
  BY <1>3, OneKeyMore
<1>5. Q \subseteq Keys /\ Z = (Default \notin Q)
  BY <1>3
<1>6. Nfields(Len(G), Q, Z) = Nfields(Len(F), Q, Z) + 1 /\ Nfields(Len(F), Q, Z) \in Nat
  BY <1>1, <1>4 DEF Nfields
<1>7. k \in K => Nfields(Len(G), Q, Z) <= XDAG_BLOCK_FIELDS
  <2> SUFFICES ASSUME k \in K PROVE Nfields(Len(G), Q, Z) <= XDAG_BLOCK_FIELDS
    OBVIOUS
  <2>1. Q = K /\ Z = S
    BY <1>3
  <2>2. Nfields(Len(F), Q, Z) <= XDAG_BLOCK_FIELDS /\ Nfields(Len(F), Q, Z) # XDAG_BLOCK_FIELDS
    BY <2>1, Zenon
  <2> HIDE DEF G, Q, Z
  <2> QED
    BY <1>6, <2>2, Sizes
<1>8. K = {} => Nfields(Len(G), Q, Z) <= XDAG_BLOCK_FIELDS
  <2> SUFFICES ASSUME K = {} PROVE Nfields(Len(G), Q, Z) <= XDAG_BLOCK_FIELDS
    OBVIOUS
  <2>1. Cardinality(K) = 0 /\ Len(F) = 0
    BY <1>3, FS_EmptySet
  <2>2. Cardinality(Q) <= 1 /\ Cardinality(Q) \in Nat /\ Len(G) = 1
    BY <1>1, <1>4, <2>1
  <2> HIDE DEF G, Q, Z
  <2>3. Nfields(Len(G), Q, Z) <= 8 /\ Nfields(Len(G), Q, Z) \in Nat
    BY <2>2 DEF Nfields
  <2> QED
    BY <2>3, Sizes
<1>9. k \notin K /\ K # {} => Cardinality(Q) >= 2
  <2>1. K # {} => Cardinality(K) # 0
    BY <1>3, FS_EmptySet
  <2> QED
    BY <1>4, <2>1
<1> HIDE DEF G, Q, Z
<1>10. Nfields(Len(G), Q, Z) <= XDAG_BLOCK_FIELDS + 1
  BY <1>6, Sizes DEF Q, Z
<1>11. Nfields(Len(G), Q, Z) = XDAG_BLOCK_FIELDS + 1 => Cardinality(Q) >= 2
  BY <1>6, <1>7, <1>8, <1>9, Sizes
<1>12. Packed(G, Q, Z)
  BY <1>1, <1>2, <1>4, <1>5, <1>10, <1>11, Zenon DEF Packed
<1>13. K \subseteq {k} => Nfields(Len(G), Q, Z) <= XDAG_BLOCK_FIELDS
  BY <1>7, <1>8
<1> QED
  BY <1>12, <1>13, Zenon DEF G, Q, Z
-----------------------------------------------------------------------------
(* The inputs of all blocks *)

\* Inputs in the blocks of a sequence, the one being filled included: they come
\* from the first n blocks of ours, none twice and none for more than it holds.
Good(all, n) ==
  /\ all \in Seq(Seq(Input))
  /\ \A m \in 1 .. Len(all) : \A i \in 1 .. Len(all[m]) :
       /\ all[m][i].block \in 1 .. n
       /\ all[m][i].amount <= ours[all[m][i].block].amount
  /\ \A m, q \in 1 .. Len(all) : \A i \in 1 .. Len(all[m]), j \in 1 .. Len(all[q]) :
       all[m][i].block = all[q][j].block => m = q /\ i = j

LEMMA GoodApart ==
  ASSUME NEW all, NEW n, Good(all, n),
         NEW m \in 1 .. Len(all), NEW i \in 1 .. Len(all[m]),
         NEW q \in 1 .. Len(all), NEW j \in 1 .. Len(all[q]), all[m][i].block = all[q][j].block
  PROVE  m = q /\ i = j
BY Zenon DEF Good

\* H holds the inputs of B, and x at place <<p, q>>.
Adds(B, H, x, p, q) ==
  \A m \in 1 .. Len(H) : \A i \in 1 .. Len(H[m]) :
    \/ m \in 1 .. Len(B) /\ i \in 1 .. Len(B[m]) /\ H[m][i] = B[m][i]
    \/ m = p /\ i = q /\ H[m][i] = x

\* One input from the next block of ours keeps them apart.
LEMMA GoodWithOne ==
  ASSUME NEW B, NEW H \in Seq(Seq(Input)), NEW n \in Nat, Good(B, n), NEW p, NEW q,
         NEW x, x.block = n + 1, x.amount <= ours[n + 1].amount,
         Adds(B, H, x, p, q)
  PROVE  Good(H, n + 1)
<1> DEFINE Old(m, i) == m \in 1 .. Len(B) /\ i \in 1 .. Len(B[m]) /\ H[m][i] = B[m][i]
           New(m, i) == m = p /\ i = q /\ H[m][i] = x
<1>1. ASSUME NEW m \in 1 .. Len(H), NEW i \in 1 .. Len(H[m])
      PROVE  Old(m, i) \/ New(m, i)
  BY Zenon DEF Adds
<1>2. ASSUME NEW m, NEW i, Old(m, i)
      PROVE  /\ H[m][i].block \in 1 .. n
             /\ H[m][i].amount <= ours[H[m][i].block].amount
  BY <1>2, Zenon DEF Good
<1>3. ASSUME NEW m, NEW i, NEW r, NEW j, Old(m, i), Old(r, j), H[m][i].block = H[r][j].block
      PROVE  m = r /\ i = j
  <2>1. B[m][i].block = B[r][j].block
    BY <1>3, Zenon
  <2>2. m \in 1 .. Len(B) /\ i \in 1 .. Len(B[m]) /\ r \in 1 .. Len(B) /\ j \in 1 .. Len(B[r])
    BY <1>3, Zenon
  <2> QED
    BY <2>1, <2>2, GoodApart, ZenonT(30)
<1>4. ASSUME NEW m, NEW i, New(m, i)
      PROVE  H[m][i].block = n + 1 /\ m = p /\ i = q /\ H[m][i].amount <= ours[H[m][i].block].amount
  BY <1>4, Zenon
<1> HIDE DEF Old, New
<1>5. ASSUME NEW m \in 1 .. Len(H), NEW i \in 1 .. Len(H[m])
      PROVE  /\ H[m][i].block \in 1 .. n + 1
             /\ H[m][i].amount <= ours[H[m][i].block].amount
  <2> DEFINE b == H[m][i].block
  <2>1. b \in 1 .. n \/ b = n + 1
    BY <1>1, <1>2, <1>4, Zenon
  <2> HIDE DEF b
  <2>2. b \in 1 .. n + 1
    BY <2>1
  <2>3. H[m][i].amount <= ours[H[m][i].block].amount
    BY <1>1, <1>2, <1>4, Zenon
  <2> QED
    BY <2>2, <2>3 DEF b
<1>6. ASSUME NEW m \in 1 .. Len(H), NEW i \in 1 .. Len(H[m])
      PROVE  \/ H[m][i].block \in 1 .. n /\ Old(m, i)
             \/ H[m][i].block = n + 1 /\ m = p /\ i = q
  <2>1. CASE Old(m, i)
    <3>1. H[m][i].block \in 1 .. n
      BY <1>2, <2>1
    <3> QED
      BY <2>1, <3>1
  <2>2. CASE New(m, i)
    BY <1>4, <2>2
  <2> QED
    BY <1>1, <2>1, <2>2, Zenon
<1>7. ASSUME NEW m \in 1 .. Len(H), NEW r \in 1 .. Len(H), NEW i \in 1 .. Len(H[m]),
             NEW j \in 1 .. Len(H[r]), H[m][i].block = H[r][j].block
      PROVE  m = r /\ i = j
  <2> DEFINE b == H[m][i].block
             c == H[r][j].block
  <2>1. (b \in 1 .. n /\ Old(m, i)) \/ (b = n + 1 /\ m = p /\ i = q)
    BY <1>6
  <2>2. (c \in 1 .. n /\ Old(r, j)) \/ (c = n + 1 /\ r = p /\ j = q)
    BY <1>6
  <2>3. b = c
    BY <1>7
  <2>4. Old(m, i) /\ Old(r, j) => m = r /\ i = j
    BY <1>3, <1>7, Zenon
  <2> HIDE DEF b, c
  <2> QED
    BY <2>1, <2>2, <2>3, <2>4
<1> QED
  BY <1>5, <1>7, Zenon DEF Good

LEMMA GoodEmpty ==
  ASSUME NEW all, NEW n \in Nat, Good(all, n)
  PROVE  Good(Append(all, <<>>), n)
<1> DEFINE H == Append(all, <<>>)
<1>1. all \in Seq(Seq(Input)) /\ Len(all) \in Nat
  BY DEF Good
<1>2. /\ Len(H) = Len(all) + 1 /\ H[Len(all) + 1] = <<>>
      /\ \A m \in 1 .. Len(all) : H[m] = all[m]
  BY <1>1
<1>3. H \in Seq(Seq(Input))
  BY <1>1
<1>4. \A m \in 1 .. Len(H) : \A i \in 1 .. Len(H[m]) : m \in 1 .. Len(all) /\ H[m] = all[m]
  BY <1>1, <1>2
<1> HIDE DEF H
<1>5. \A m \in 1 .. Len(H) : \A i \in 1 .. Len(H[m]) :
        /\ H[m][i].block \in 1 .. n
        /\ H[m][i].amount <= ours[H[m][i].block].amount
  BY <1>4, Zenon DEF Good
<1>6. ASSUME NEW m \in 1 .. Len(H), NEW q \in 1 .. Len(H), NEW i \in 1 .. Len(H[m]),
             NEW j \in 1 .. Len(H[q]), H[m][i].block = H[q][j].block
      PROVE  m = q /\ i = j
  <2>1. /\ m \in 1 .. Len(all) /\ H[m] = all[m] /\ i \in 1 .. Len(all[m])
        /\ q \in 1 .. Len(all) /\ H[q] = all[q] /\ j \in 1 .. Len(all[q])
    BY <1>4, Zenon
  <2>2. all[m][i].block = all[q][j].block
    BY <1>6, <2>1, Zenon
  <2> QED
    BY <2>1, <2>2, GoodApart, ZenonT(30)
<1>7. Good(H, n)
  BY <1>3, <1>5, <1>6, Zenon DEF Good
<1> QED
  BY <1>7 DEF H

\* A new block begins with the next block of ours.
LEMMA GoodNew ==
  ASSUME NEW all, NEW n \in Nat, Good(all, n),
         NEW x \in Input, x.block = n + 1, x.amount <= ours[n + 1].amount
  PROVE  Good(Append(all, <<x>>), n + 1)
<1> DEFINE H == Append(all, <<x>>)
           p == Len(all) + 1
<1>1. all \in Seq(Seq(Input)) /\ Len(all) \in Nat
  BY DEF Good
<1>2. /\ Len(H) = Len(all) + 1 /\ H[Len(all) + 1] = <<x>>
      /\ \A m \in 1 .. Len(all) : H[m] = all[m]
  BY <1>1
<1>3. H \in Seq(Seq(Input))
  BY <1>1
<1>4. Adds(all, H, x, p, 1)
  BY <1>1, <1>2 DEF Adds
<1> HIDE DEF H, p
<1>5. Good(H, n + 1)
  BY <1>3, <1>4, GoodWithOne, Zenon
<1> QED
  BY <1>5 DEF H

\* The block being filled takes the next block of ours.
LEMMA GoodMore ==
  ASSUME NEW A \in Seq(Seq(Input)), NEW F \in Seq(Input), NEW n \in Nat, Good(Append(A, F), n),
         NEW x \in Input, x.block = n + 1, x.amount <= ours[n + 1].amount
  PROVE  Good(Append(A, Append(F, x)), n + 1)
<1> DEFINE G == Append(F, x)
           H == Append(A, G)
           B == Append(A, F)
           p == Len(A) + 1
           q == Len(F) + 1
<1>1. G \in Seq(Input) /\ Len(A) \in Nat /\ Len(F) \in Nat
  OBVIOUS
<1>2. /\ Len(G) = q /\ G[q] = x
      /\ \A i \in 1 .. Len(F) : G[i] = F[i]
  OBVIOUS
<1> HIDE DEF G
<1>3. /\ Len(H) = p /\ H[p] = G
      /\ \A m \in 1 .. Len(A) : H[m] = A[m]
      /\ H \in Seq(Seq(Input))
  BY <1>1
<1>4. /\ Len(B) = p /\ B[p] = F
      /\ \A m \in 1 .. Len(A) : B[m] = A[m]
  BY <1>1
<1>5. Good(B, n)
  OBVIOUS
<1>6. \A i \in 1 .. Len(G) : i \in 1 .. Len(F) \/ i = q
  BY <1>1, <1>2
<1>7. p \in 1 .. p /\ \A m \in 1 .. p : m \in 1 .. Len(A) \/ m = p
  BY <1>1
<1>8. \A m \in 1 .. Len(A) : m \in 1 .. p
  BY <1>1
<1> HIDE DEF H, B, p, q
<1>9. Adds(B, H, x, p, q)
  <2> USE DEF Adds
  <2> TAKE m \in 1 .. Len(H)
  <2> TAKE i \in 1 .. Len(H[m])
  <2>1. CASE m \in 1 .. Len(A)
    BY <1>3, <1>4, <1>8, <2>1, Zenon
  <2>2. CASE m = p
    BY <1>2, <1>3, <1>4, <1>6, <1>7, <2>2, Zenon
  <2> QED
    BY <1>3, <1>7, <2>1, <2>2, Zenon
<1>10. Good(H, n + 1)
  BY <1>3, <1>5, <1>9, GoodWithOne, Zenon
<1> QED
  BY <1>10 DEF H, G
-----------------------------------------------------------------------------
(* The invariant *)

\* Nothing is gathered before the walk.
Untouched ==
  pc \in {"idle", "dialog"} => /\ at = 0 /\ made = <<>> /\ fields = <<>> /\ keys = {} /\ outsig
                               /\ todo = 0 /\ done = 0

\* While the walk goes on, the block being filled is not full.
Baskets ==
  /\ Packed(fields, keys, outsig)
  /\ pc = "walk" => Nfields(Len(fields), keys, outsig) # XDAG_BLOCK_FIELDS
  /\ Good(Append(made, fields), at)
  /\ \A n \in 1 .. Len(made) : Fits(made[n])

\* What is asked for is transferred, gathered or missing.  Unless something moved,
\* the walk has taken all the coins it passed, and there are as many as asked.
Money ==
  /\ done + todo + remains = asked
  /\ pc \in {"dialog", "walk"} => remains > 0
  /\ ~moved => /\ \A n \in 1 .. Len(ours) : ours[n].amount > 0
               /\ asked <= Total(ours)
               /\ pc \in {"dialog", "walk"} => Sums(ours)[at] + remains = asked

SelectInv == TypeOK /\ Untouched /\ Baskets /\ Money /\ AllTransferred

LEMMA ListSums ==
  ASSUME ours \in Seq(Block)
  PROVE  /\ Sums(ours)[0] = 0 /\ Total(ours) = Sums(ours)[Len(ours)]
         /\ \A n \in 1 .. Len(ours) : Sums(ours)[n] = Sums(ours)[n - 1] + ours[n].amount
         /\ \A n \in 0 .. Len(ours) : Sums(ours)[n] \in Nat
         /\ \A n \in 1 .. Len(ours) : ours[n].amount \in 0 .. MaxAmount /\ ours[n].key \in Keys
         /\ Len(ours) \in Nat
<1>1. Len(ours) \in Nat /\ \A n \in 1 .. Len(ours) : ours[n] \in Block
  OBVIOUS
<1>2. \A n \in 1 .. Len(ours) : ours[n].amount \in 0 .. MaxAmount /\ ours[n].key \in Keys
  BY <1>1 DEF Block
<1>3. \A n \in 1 .. Len(ours) : ours[n].amount \in Nat
  BY <1>2, SelectAssumption DEF SelectAssumption
<1> QED
  BY <1>1, <1>2, <1>3, SumsAre

LEMMA GoodKept ==
  ASSUME ours' = ours, Good(Append(made', fields'), at')
  PROVE  Good(Append(made, fields), at)'
BY DEF Good, Input

LEMMA GoodNone == Good(Append(<<>>, <<>>), 0)
<1>1. /\ Append(<<>>, <<>>) = << <<>> >> /\ << <<>> >> \in Seq(Seq(Input))
      /\ Len(<< <<>> >>) = 1 /\ << <<>> >>[1] = <<>>
  OBVIOUS
<1> QED
  BY <1>1 DEF Good

LEMMA SelectInit == Init => SelectInv
<1> SUFFICES ASSUME Init PROVE SelectInv
  OBVIOUS
<1>1. ours \in Seq(Block)
  <2>1. PICK n \in 0 .. MaxOurs : ours \in [1 .. n -> [amount : 1 .. MaxAmount, key : Keys]]
    BY DEF Init
  <2>2. n \in Nat
    BY <2>1
  <2>3. \A i \in 1 .. n : ours[i] \in Block
    BY <2>1 DEF Block
  <2> QED
    BY <2>1, <2>2, <2>3
<1>2. \A i \in 1 .. Len(ours) : ours[i].amount > 0
  <2>1. PICK n \in 0 .. MaxOurs : ours \in [1 .. n -> [amount : 1 .. MaxAmount, key : Keys]]
    BY DEF Init
  <2>2. n \in Nat /\ Len(ours) = n
    BY <1>1, <2>1
  <2> QED
    BY <2>1, <2>2
<1>3. 0 <= Total(ours) /\ Sums(ours)[0] = 0
  BY <1>1, ListSums
<1>4. TypeOK
  <2>1. Cardinality({}) = 0
    BY FS_EmptySet
  <2>2. Len(ours) \in Nat /\ 0 \in 0 .. Len(ours)
    BY <1>1
  <2>3. /\ <<>> \in Seq(Input) /\ <<>> \in Seq(Seq(Input)) /\ Len(<<>>) = 0
        /\ 0 <= XFER_MAX_IN /\ 0 \in Nat
    BY Sizes
  <2> QED
    BY <1>1, <2>1, <2>2, <2>3, Zenon DEF Init, TypeOK
<1>5. Untouched /\ AllTransferred
  BY DEF Init, Untouched, AllTransferred
<1>6. Baskets
  <2>1. \A n \in 1 .. Len(<<>>) : Fits(<<>>[n])
    OBVIOUS
  <2> QED
    BY <2>1, PackedEmpty, GoodNone, Zenon DEF Init, Baskets
<1>7. Money
  BY <1>2, <1>3 DEF Init, Money
<1> QED
  BY <1>4, <1>5, <1>6, <1>7 DEF SelectInv

LEMMA PartIs ==
  ASSUME NEW a \in 1 .. MaxAmount, NEW r \in Nat, r > 0
  PROVE  /\ Part(a, r) \in 1 .. MaxAmount /\ Part(a, r) <= a /\ Part(a, r) <= r
         /\ Part(a, r) = r \/ Part(a, r) = a
BY SelectAssumption DEF SelectAssumption, Part

LEMMA NoneOrOne ==
  ASSUME NEW k, NEW S
  PROVE  Nfields(0, {}, TRUE) = 4 /\ Nfields(0, {k}, S) \in {5, 7}
<1>1. Cardinality({}) = 0 /\ Cardinality({k}) = 1
  BY FS_EmptySet, FS_Singleton
<1> QED
  BY <1>1 DEF Nfields

\* A block is gathered.
LEMMA GatherStep ==
  ASSUME SelectInv, pc = "walk", NEW i, i = at + 1, at < Len(ours), ours[i].amount # 0,
         First(i) => Fits(fields), NEW ok \in BOOLEAN, Gather(i, ok),
         at' = i, ours' = ours, asked' = asked
  PROVE  SelectInv'
<1> DEFINE k == ours[i].key
           part == Part(ours[i].amount, remains)
           x == [block |-> i, amount |-> part]
           F0 == Inputs(i)
           K0 == IF First(i) THEN {} ELSE keys
           S0 == First(i) \/ outsig
           F == Append(F0, x)
           K == IF First(i) THEN {k} ELSE keys \cup {k}
           S == S0 /\ k # Default
           T == Todo(i) + part
           D == IF First(i) THEN done + todo ELSE done
           M == IF First(i) THEN Append(made, fields) ELSE made
           n == Nfields(Len(F), K, S)
           full == remains = part \/ n = XDAG_BLOCK_FIELDS
           fine == ok /\ Fits(F)
<1>1. /\ remains' = remains - part
      /\ full /\ fine => /\ fields' = <<>> /\ keys' = {} /\ outsig' = TRUE
                         /\ todo' = 0 /\ done' = D + T /\ made' = Append(M, F)
      /\ ~(full /\ fine) => /\ fields' = F /\ keys' = K /\ outsig' = S
                            /\ todo' = T /\ done' = D /\ made' = M
      /\ pc' = IF (full /\ ~fine) \/ remains = part THEN "end" ELSE "walk"
      /\ moved' = (moved \/ (full /\ ~ok))
  BY Zenon DEF Gather
<1>2. /\ ours \in Seq(Block) /\ asked \in Nat /\ at \in 0 .. Len(ours) /\ Len(ours) \in Nat
      /\ made \in Seq(Seq(Input)) /\ fields \in Seq(Input)
      /\ outsig \in BOOLEAN /\ moved \in BOOLEAN
      /\ todo \in Nat /\ done \in Nat /\ remains \in Nat
      /\ i \in 1 .. Len(ours) /\ i \in 1 .. i /\ at \in Nat /\ i - 1 = at
  BY DEF SelectInv, TypeOK
<1>3. /\ ours[i].amount \in 1 .. MaxAmount /\ ours[i].key \in Keys
      /\ Sums(ours)[i] = Sums(ours)[at] + ours[i].amount /\ Sums(ours)[at] \in Nat
  BY <1>2, ListSums
<1>4. /\ part \in 1 .. MaxAmount /\ part <= ours[i].amount /\ part <= remains
      /\ part = remains \/ part = ours[i].amount
  <2>1. remains > 0
    BY DEF SelectInv, Money
  <2> QED
    BY <1>2, <1>3, <2>1, PartIs, Zenon
<1>5. x \in Input /\ x.block = at + 1 /\ x.amount <= ours[at + 1].amount /\ k = ours[x.block].key
  BY <1>2, <1>4 DEF Input
<1> HIDE DEF part, x
<1>6. /\ Packed(F0, K0, S0) /\ Nfields(Len(F0), K0, S0) # XDAG_BLOCK_FIELDS
      /\ Nfields(Len(F0), K0 \cup {k}, S) <= XDAG_BLOCK_FIELDS
      /\ K = K0 \cup {k}
  <2>1. CASE First(i)
    <3>1. F0 = <<>> /\ K0 = {} /\ S0 = TRUE /\ K = {k}
      BY <2>1 DEF Inputs
    <3>2. K = K0 \cup {k} /\ Len(F0) = 0
      BY <3>1
    <3>3. Packed(F0, K0, S0)
      BY <3>1, PackedEmpty, Zenon
    <3> HIDE DEF F0, K0, S0, K, S
    <3>4. Nfields(0, {}, TRUE) = 4 /\ Nfields(0, {k}, S) \in {5, 7}
      BY NoneOrOne
    <3>5. Nfields(Len(F0), K0, S0) = 4 /\ Nfields(Len(F0), K0 \cup {k}, S) \in {5, 7}
      BY <3>1, <3>2, <3>4, Zenon
    <3> QED
      BY <3>2, <3>3, <3>5, Sizes
  <2>2. CASE ~First(i)
    <3>1. F0 = fields /\ K0 = keys /\ S0 = outsig /\ K = keys \cup {k}
      BY <1>2, <2>2 DEF Inputs
    <3>2. Nfields(Len(fields), keys \cup {k}, outsig /\ k # Default) <= XDAG_BLOCK_FIELDS
      <4>1. Cardinality(keys \cup {k}) \in Nat
        BY FS_AddElement, FS_CardinalityType DEF SelectInv, Baskets, Packed
      <4> QED
        BY <1>2, <2>2, <4>1, Sizes DEF First, Nfields
    <3> QED
      BY <3>1, <3>2 DEF SelectInv, Baskets
  <2> QED
    BY <2>1, <2>2
<1>7. Packed(F, K, S) /\ (K0 \subseteq {k} => n <= XDAG_BLOCK_FIELDS)
  <2>1. k \in Keys
    BY <1>3
  <2> HIDE DEF F0, K0, S0, K, k
  <2>2. Nfields(Len(F0), K0 \cup {k}, S0 /\ k # Default) <= XDAG_BLOCK_FIELDS
    BY <1>6
  <2>3. /\ Packed(Append(F0, x), K0 \cup {k}, S0 /\ k # Default)
        /\ K0 \subseteq {k} => Nfields(Len(Append(F0, x)), K0 \cup {k}, S0 /\ k # Default)
                                 <= XDAG_BLOCK_FIELDS
    <3>1. x \in Input /\ k = ours[x.block].key /\ Packed(F0, K0, S0)
          /\ Nfields(Len(F0), K0, S0) # XDAG_BLOCK_FIELDS
      BY <1>5, <1>6, Zenon
    <3> QED
      BY <3>1, <2>1, <2>2, PackedMore
  <2> QED
    BY <1>6, <2>3, Zenon
<1>8. F0 \in Seq(Input) /\ F \in Seq(Input) /\ M \in Seq(Seq(Input))
  <2>1. F0 \in Seq(Input)
    BY <1>6 DEF Packed
  <2>2. M \in Seq(Seq(Input))
    BY <1>2
  <2> QED
    BY <1>5, <2>1, <2>2
<1>9. Good(Append(M, F), i) /\ i \in Nat
  <2>1. Good(Append(made, fields), at)
    BY DEF SelectInv, Baskets
  <2>2. CASE First(i)
    <3>1. M = Append(made, fields) /\ F = <<x>>
      BY <2>2 DEF Inputs
    <3> HIDE DEF M, F
    <3> QED
      BY <1>2, <1>5, <2>1, <3>1, GoodNew
  <2>3. CASE ~First(i)
    <3>1. M = made /\ F = Append(fields, x)
      BY <2>3 DEF Inputs
    <3> HIDE DEF M, F
    <3> QED
      BY <1>2, <1>5, <2>1, <3>1, GoodMore
  <2> QED
    BY <1>2, <2>2, <2>3
<1>10. \A m \in 1 .. Len(M) : Fits(M[m])
  <2>1. \A m \in 1 .. Len(made) : Fits(made[m])
    BY DEF SelectInv, Baskets
  <2>2. CASE First(i)
    <3>1. /\ Len(M) = Len(made) + 1 /\ M[Len(made) + 1] = fields
          /\ \A m \in 1 .. Len(made) : M[m] = made[m]
      BY <1>2, <2>2
    <3> QED
      BY <1>2, <2>1, <2>2, <3>1
  <2>3. CASE ~First(i)
    BY <2>1, <2>3
  <2> QED
    BY <2>2, <2>3
<1>11. T \in Nat /\ D \in Nat /\ D + T + (remains - part) = asked /\ remains - part \in Nat
  BY <1>2, <1>4 DEF Todo, SelectInv, Money
<1>12. Fits(F) <=> n <= XDAG_BLOCK_FIELDS
  BY <1>7, PackedFits
<1>13. n \in Nat /\ Len(F) <= XFER_MAX_IN /\ Cardinality(K) <= XFER_MAX_IN
  <2> HIDE DEF F, K, S
  <2>1. Len(F) \in Nat /\ Cardinality(K) \in Nat
    BY <1>7, FS_CardinalityType DEF Packed
  <2> QED
    BY <1>7, <2>1, PackedSmall DEF Nfields
<1>14. (\A b, c \in Range(ours) : b.key = c.key) => n <= XDAG_BLOCK_FIELDS
  <2> SUFFICES ASSUME \A b, c \in Range(ours) : b.key = c.key PROVE K0 \subseteq {k}
    BY <1>7
  <2>1. \A j \in 1 .. Len(ours) : ours[j] \in Range(ours)
    BY <1>2 DEF Range
  <2>2. K0 = KeysOf(F0) /\ F0 \in Seq(Input)
    BY <1>6 DEF Packed
  <2>3. \A f \in Range(F0) : f.block \in 1 .. Len(ours)
    <3>1. \A f \in Range(F0) : f \in Input
      BY <2>2 DEF Range
    <3> QED
      BY <3>1 DEF Input
  <2> HIDE DEF F0, K0
  <2> QED
    BY <1>2, <2>1, <2>2, <2>3 DEF KeysOf
<1> HIDE DEF F0, K0, S0, F, K, S, T, D, M, n
<1> DEFINE Basket(P, Q, R, B) ==
             /\ Packed(P, Q, R) /\ Good(Append(B, P), i)
             /\ P \in Seq(Input) /\ Len(P) <= XFER_MAX_IN
             /\ Q \subseteq Keys /\ Cardinality(Q) <= XFER_MAX_IN /\ R \in BOOLEAN
             /\ B \in Seq(Seq(Input)) /\ \A m \in 1 .. Len(B) : Fits(B[m])
<1>15. Basket(F, K, S, M)
  BY <1>7, <1>8, <1>9, <1>10, <1>13 DEF Packed
<1>16. fine => Basket(<<>>, {}, TRUE, Append(M, F))
  <2> SUFFICES ASSUME fine PROVE Basket(<<>>, {}, TRUE, Append(M, F))
    OBVIOUS
  <2>1. Len(<<>>) <= XFER_MAX_IN /\ Cardinality({}) <= XFER_MAX_IN /\ <<>> \in Seq(Input)
    BY FS_EmptySet, Sizes
  <2> DEFINE B == Append(M, F)
  <2>2. /\ B \in Seq(Seq(Input)) /\ Len(B) = Len(M) + 1 /\ B[Len(M) + 1] = F /\ Len(M) \in Nat
        /\ \A m \in 1 .. Len(M) : B[m] = M[m]
    BY <1>8
  <2>3. Good(Append(B, <<>>), i)
    BY <1>9, GoodEmpty
  <2> HIDE DEF B
  <2>4. \A m \in 1 .. Len(B) : Fits(B[m])
    <3>1. /\ Len(B) = Len(M) + 1 /\ B[Len(M) + 1] = F /\ Len(M) \in Nat /\ Fits(F)
          /\ \A m \in 1 .. Len(M) : B[m] = M[m]
      BY <2>2
    <3>2. \A m \in 1 .. Len(B) : m \in 1 .. Len(M) \/ m = Len(M) + 1
      BY <3>1
    <3> QED
      BY <1>10, <3>1, <3>2, Zenon
  <2>5. Basket(<<>>, {}, TRUE, B)
    BY <2>1, <2>2, <2>3, <2>4, PackedEmpty
  <2> QED
    BY <2>5 DEF B
<1>17. Basket(fields', keys', outsig', made')
  <2>1. CASE full /\ fine
    BY <1>1, <1>16, <2>1, Zenon
  <2>2. CASE ~(full /\ fine)
    BY <1>1, <1>15, <2>2, Zenon
  <2> QED
    BY <2>1, <2>2, Zenon
<1>18. /\ pc' \in {"walk", "end"} /\ moved' \in BOOLEAN
       /\ todo' \in Nat /\ done' \in Nat /\ remains' \in Nat
       /\ done' + todo' + remains' = asked
  <2>1. /\ pc' \in {"walk", "end"} /\ remains' = remains - part
        /\ (done' = D + T /\ todo' = 0) \/ (done' = D /\ todo' = T)
    BY <1>1, Zenon
  <2>2. moved' \in BOOLEAN
    BY <1>1, <1>2
  <2> HIDE DEF full, fine
  <2> QED
    BY <1>11, <2>1, <2>2
<1>19. pc' = "walk" => /\ Nfields(Len(fields'), keys', outsig') # XDAG_BLOCK_FIELDS
                       /\ part < remains /\ part = ours[i].amount
  <2> SUFFICES ASSUME pc' = "walk" PROVE /\ Nfields(Len(fields'), keys', outsig') # XDAG_BLOCK_FIELDS
                                         /\ part < remains /\ part = ours[i].amount
    OBVIOUS
  <2>1. remains # part /\ ~(full /\ ~fine)
    BY <1>1
  <2>2. Nfields(Len(fields'), keys', outsig') # XDAG_BLOCK_FIELDS
    <3>1. CASE full /\ fine
      <4>1. fields' = <<>> /\ keys' = {} /\ outsig' = TRUE
        BY <1>1, <3>1, Zenon
      <4>2. Nfields(Len(fields'), keys', outsig') = 4
        BY <4>1, NoneOrOne
      <4> QED
        BY <4>2, Sizes
    <3>2. CASE ~(full /\ fine)
      <4>1. fields' = F /\ keys' = K /\ outsig' = S /\ n # XDAG_BLOCK_FIELDS
        BY <1>1, <2>1, <3>2, Zenon
      <4> QED
        BY <4>1, Zenon DEF n
    <3> QED
      BY <3>1, <3>2
  <2> QED
    BY <1>2, <1>4, <2>1, <2>2
<1>20. pc' = "end" /\ ~moved' /\ (\A b, c \in Range(ours) : b.key = c.key) => done' = asked
  <2> SUFFICES ASSUME pc' = "end", ~moved', \A b, c \in Range(ours) : b.key = c.key
               PROVE  done' = asked
    OBVIOUS
  <2>1. Fits(F)
    BY <1>12, <1>14
  <2>2. ~(full /\ ~fine)
    BY <1>1, <2>1
  <2>3. remains = part /\ full /\ fine
    BY <1>1, <2>2
  <2>4. done' = D + T /\ remains - part = 0
    BY <1>1, <1>2, <2>3
  <2> QED
    BY <1>11, <2>4
<1> HIDE DEF full, fine
<1>21. TypeOK'
  <2>1. /\ fields' \in Seq(Input)' /\ made' \in Seq(Seq(Input))' /\ Input' = Input
    BY <1>17 DEF Input
  <2>2. at' \in 0 .. Len(ours') /\ ours' \in Seq(Block) /\ asked' \in Nat
    BY <1>2
  <2> HIDE DEF Basket
  <2>3. /\ Len(fields') <= XFER_MAX_IN /\ keys' \subseteq Keys
        /\ Cardinality(keys') <= XFER_MAX_IN /\ outsig' \in BOOLEAN
    BY <1>17 DEF Basket
  <2> QED
    BY <1>18, <2>1, <2>2, <2>3, Zenon DEF TypeOK, Block
<1>22. Untouched'
  BY <1>18 DEF Untouched
<1>23. Baskets'
  <2>1. Packed(fields, keys, outsig)'
    BY <1>17 DEF Packed, KeysOf, Input
  <2>2. Good(Append(made, fields), at)'
    BY <1>17 DEF Good, Input
  <2>3. (\A m \in 1 .. Len(made) : Fits(made[m]))'
    BY <1>17 DEF Fits, KeysOf
  <2> QED
    BY <1>19, <2>1, <2>2, <2>3, Zenon DEF Baskets
<1>24. Money'
  <2>1. /\ asked' = asked /\ ours' = ours /\ at' = i /\ remains' = remains - part
        /\ moved => moved'
    BY <1>1
  <2>2. pc' = "walk" => remains' > 0
    BY <1>2, <1>4, <1>19, <2>1
  <2>3. ~moved' => /\ \A j \in 1 .. Len(ours) : ours[j].amount > 0
                   /\ asked <= Total(ours) /\ Sums(ours)[at] + remains = asked
    BY <2>1 DEF SelectInv, Money
  <2>4. ~moved' /\ pc' = "walk" => Sums(ours)[i] + remains' = asked
    BY <1>2, <1>3, <1>4, <1>19, <2>1, <2>3
  <2>5. Sums(ours)' = Sums(ours) /\ Total(ours)' = Total(ours)
    BY <2>1 DEF Sums, Total
  <2> QED
    BY <1>18, <2>1, <2>2, <2>3, <2>4, <2>5 DEF Money
<1>25. AllTransferred'
  BY <1>20 DEF AllTransferred
<1> QED
  BY <1>21, <1>22, <1>23, <1>24, <1>25 DEF SelectInv

LEMMA AskStep ==
  ASSUME SelectInv, Ask
  PROVE  SelectInv'
<1>1. ours \in Seq(Block) /\ todo = 0 /\ done = 0 /\ at = 0 /\ pc = "idle" /\ pc' = "dialog"
  BY DEF SelectInv, TypeOK, Untouched, Ask
<1>2. Sums(ours)[0] = 0 /\ Total(ours) \in Nat
  BY <1>1, ListSums
<1>3. PICK a \in 1 .. Total(ours) : asked' = a /\ remains' = a
  BY DEF Ask
<1>4. a \in Nat /\ a > 0 /\ a <= Total(ours)
  BY <1>2, <1>3
<1>5. UNCHANGED <<ours, at, fields, keys, outsig, todo, done, made, moved>>
  BY DEF Ask
<1>6. TypeOK'
  BY <1>1, <1>3, <1>4, <1>5 DEF SelectInv, TypeOK, Input
<1>7. Untouched' /\ AllTransferred'
  BY <1>1, <1>5 DEF SelectInv, Untouched, AllTransferred
<1>8. Baskets'
  <2>1. Packed(fields, keys, outsig)'
    BY <1>5 DEF SelectInv, Baskets, Packed, KeysOf, Input
  <2>2. Good(Append(made, fields), at)'
    <3>1. Good(Append(made', fields'), at')
      BY <1>5, Zenon DEF SelectInv, Baskets
    <3> QED
      BY <1>5, <3>1, GoodKept
  <2>3. (\A n \in 1 .. Len(made) : Fits(made[n]))'
    BY <1>5 DEF SelectInv, Baskets, Fits, KeysOf
  <2> QED
    BY <1>1, <2>1, <2>2, <2>3, Zenon DEF Baskets
<1>9. Money'
  <2>1. Sums(ours)' = Sums(ours) /\ Total(ours)' = Total(ours)
    BY <1>5 DEF Sums, Total
  <2>2. ~moved => \A n \in 1 .. Len(ours) : ours[n].amount > 0
    BY DEF SelectInv, Money
  <2> QED
    BY <1>1, <1>2, <1>3, <1>4, <1>5, <2>1, <2>2 DEF Money
<1> QED
  BY <1>6, <1>7, <1>8, <1>9 DEF SelectInv

\* The list is changed before anything is gathered from it.
LEMMA ReportStep ==
  ASSUME SelectInv, Report
  PROVE  SelectInv'
<1>1. /\ ours \in Seq(Block) /\ pc = "dialog" /\ pc' = "dialog" /\ moved'
      /\ at = 0 /\ made = <<>> /\ fields = <<>> /\ keys = {} /\ outsig
      /\ UNCHANGED <<pc, asked, at, fields, keys, outsig, todo, done, remains, made>>
      /\ outsig \in BOOLEAN /\ outsig = TRUE
  BY DEF SelectInv, TypeOK, Untouched, Report, gathered
<1>2. ours' \in Seq(Block)
  <2>1. PICK i \in 1 .. Len(ours), a \in 0 .. MaxAmount :
          ours' = <<[ours[i] EXCEPT !.amount = a]>> \o RemoveAt(ours, i)
    BY DEF Report
  <2>2. ours[i] \in Block /\ Len(ours) \in Nat
    BY <1>1
  <2>3. [ours[i] EXCEPT !.amount = a] \in Block
    BY <2>2 DEF Block
  <2>4. SubSeq(ours, 1, i - 1) \in Seq(Block) /\ SubSeq(ours, i + 1, Len(ours)) \in Seq(Block)
    BY <1>1, <2>2, SubSeqProperties
  <2>5. RemoveAt(ours, i) \in Seq(Block)
    BY <2>4, ConcatProperties DEF RemoveAt
  <2> HIDE DEF Block
  <2> QED
    BY <2>1, <2>3, <2>5, ConcatProperties
<1>3. TypeOK'
  <2>1. Cardinality({}) = 0 /\ Len(<<>>) = 0 /\ 0 <= XFER_MAX_IN /\ Len(ours') \in Nat
    BY <1>2, FS_EmptySet, Sizes
  <2>2. <<>> \in Seq(Input') /\ <<>> \in Seq(Seq(Input')) /\ 0 \in 0 .. Len(ours')
    BY <2>1
  <2>3. /\ asked \in Nat /\ todo \in Nat /\ done \in Nat /\ remains \in Nat
        /\ moved' \in BOOLEAN
    BY DEF SelectInv, TypeOK, Report
  <2> QED
    BY <1>1, <1>2, <2>1, <2>2, <2>3, Zenon DEF TypeOK, Block
<1>4. Untouched' /\ AllTransferred'
  BY <1>1 DEF SelectInv, Untouched, AllTransferred
<1>5. Baskets'
  <2>1. Packed(<<>>, {}, TRUE)'
    <3>1. KeysOf(<<>>)' = {}
      BY DEF KeysOf, Range
    <3>2. <<>> \in Seq(Input') /\ TRUE = (Default \notin {}) /\ {} \subseteq Keys
      OBVIOUS
    <3> QED
      BY <3>1, <3>2, PackedEmpty, Zenon DEF Packed
  <2>2. Good(Append(<<>>, <<>>), 0)'
    <3>1. /\ Append(<<>>, <<>>) = << <<>> >> /\ << <<>> >> \in Seq(Seq(Input'))
          /\ Len(<< <<>> >>) = 1 /\ << <<>> >>[1] = <<>>
      OBVIOUS
    <3> QED
      BY <3>1 DEF Good
  <2>3. (\A n \in 1 .. Len(made) : Fits(made[n]))'
    BY <1>1
  <2> QED
    BY <1>1, <2>1, <2>2, <2>3, Zenon DEF Baskets
<1>6. Money'
  BY <1>1 DEF SelectInv, Money
<1> QED
  BY <1>3, <1>4, <1>5, <1>6 DEF SelectInv

\* A step that only moves the walk on or ends it.
LEMMA QuietStep ==
  ASSUME SelectInv, UNCHANGED <<ours, asked, at, fields, keys, outsig, todo, done, remains, made>>,
         moved' \in BOOLEAN, moved => moved',
         \/ pc' = pc
         \/ pc = "dialog" /\ pc' = "walk"
         \/ pc = "walk" /\ pc' = "end",
         AllTransferred'
  PROVE  SelectInv'
<1>1. TypeOK'
  BY DEF SelectInv, TypeOK, Input
<1>2. Untouched'
  BY DEF SelectInv, Untouched
<1>3. Baskets'
  <2>1. Packed(fields, keys, outsig)'
    BY DEF SelectInv, Baskets, Packed, KeysOf, Input
  <2>2. Good(Append(made, fields), at)'
    <3>1. Good(Append(made', fields'), at')
      BY Zenon DEF SelectInv, Baskets
    <3> QED
      BY <3>1, GoodKept
  <2>3. (\A n \in 1 .. Len(made) : Fits(made[n]))'
    BY DEF SelectInv, Baskets, Fits, KeysOf
  <2>4. pc' = "walk" => Nfields(Len(fields), keys, outsig)' # XDAG_BLOCK_FIELDS
    <3>1. CASE pc = "walk"
      BY <3>1 DEF SelectInv, Baskets
    <3>2. CASE pc = "dialog"
      <4>1. fields = <<>> /\ keys = {} /\ outsig \in BOOLEAN /\ outsig
        BY <3>2 DEF SelectInv, Untouched, TypeOK
      <4>2. Nfields(Len(fields), keys, outsig) = 4
        BY <4>1, NoneOrOne
      <4> QED
        BY <4>2, Sizes
    <3> QED
      BY <3>1, <3>2
  <2> QED
    BY <2>1, <2>2, <2>3, <2>4, Zenon DEF Baskets
<1>4. Money'
  <2>1. Sums(ours)' = Sums(ours) /\ Total(ours)' = Total(ours)
    BY DEF Sums, Total
  <2> QED
    BY <2>1 DEF SelectInv, Money
<1> QED
  BY <1>1, <1>2, <1>3, <1>4 DEF SelectInv

LEMMA VisitFailsStep ==
  ASSUME SelectInv, VisitFails
  PROVE  SelectInv'
<1> DEFINE k == ours[at + 1].key
<1>1. /\ pc = "walk" /\ pc' = "end" /\ at < Len(ours) /\ First(at + 1)
      /\ moved' = (moved \/ Fits(fields))
      /\ UNCHANGED <<ours, asked, at, fields, keys, outsig, todo, done, remains, made>>
  BY DEF VisitFails, gathered
<1>2. ours \in Seq(Block) /\ at \in 0 .. Len(ours) /\ at + 1 \in 1 .. Len(ours) /\ moved \in BOOLEAN
  BY <1>1 DEF SelectInv, TypeOK
<1>3. moved' \in BOOLEAN /\ (moved => moved')
  BY <1>1, <1>2 DEF Fits
<1>4. Packed(fields, keys, outsig) /\ Nfields(Len(fields), keys, outsig) # XDAG_BLOCK_FIELDS
  BY <1>1 DEF SelectInv, Baskets
<1>5. ~(\A b, c \in Range(ours) : b.key = c.key)
  <2> SUFFICES ASSUME \A b, c \in Range(ours) : b.key = c.key PROVE FALSE
    OBVIOUS
  <2>1. keys \subseteq {k}
    <3>1. \A j \in 1 .. Len(ours) : ours[j] \in Range(ours)
      BY <1>2 DEF Range
    <3>2. keys = KeysOf(fields) /\ fields \in Seq(Input)
      BY <1>4 DEF Packed
    <3>3. \A f \in Range(fields) : f.block \in 1 .. Len(ours)
      <4>1. \A f \in Range(fields) : f \in Input
        BY <3>2 DEF Range
      <4> QED
        BY <4>1 DEF Input
    <3> QED
      BY <1>2, <3>1, <3>2, <3>3 DEF KeysOf
  <2>2. Nfields(Len(fields), keys \cup {k}, outsig /\ k # Default) > XDAG_BLOCK_FIELDS
    BY <1>1 DEF First
  <2>3. CASE keys = {}
    <3>1. Len(fields) = 0 /\ keys \cup {k} = {k}
      BY <1>4, <2>3, KeysNonempty DEF Packed
    <3>2. Nfields(0, {k}, outsig /\ k # Default) \in {5, 7}
      BY NoneOrOne
    <3>3. Nfields(Len(fields), keys \cup {k}, outsig /\ k # Default) \in {5, 7}
      BY <3>1, <3>2, Zenon
    <3> QED
      BY <2>2, <3>3, Sizes
  <2>4. CASE keys # {}
    <3>1. keys = {k} /\ keys \cup {k} = keys /\ outsig = (Default \notin keys)
      BY <1>4, <2>1, <2>4 DEF Packed
    <3>2. outsig /\ k # Default <=> outsig
      BY <3>1
    <3>3. Nfields(Len(fields), keys, outsig) > XDAG_BLOCK_FIELDS
      BY <2>2, <3>1, <3>2 DEF Nfields
    <3>4. Cardinality(keys) = 1 /\ Len(fields) \in Nat
      <4>1. Len(fields) \in Nat
        BY <1>4 DEF Packed
      <4>2. Cardinality({k}) = 1
        BY FS_Singleton
      <4> QED
        BY <3>1, <4>1, <4>2, Zenon
    <3>5. /\ Nfields(Len(fields), keys, outsig) <= XDAG_BLOCK_FIELDS + 1
          /\ Nfields(Len(fields), keys, outsig) = XDAG_BLOCK_FIELDS + 1 => Cardinality(keys) >= 2
      BY <1>4 DEF Packed
    <3>6. Nfields(Len(fields), keys, outsig) \in Nat
      BY <3>4 DEF Nfields
    <3> QED
      BY <3>3, <3>4, <3>5, <3>6, Sizes
  <2> QED
    BY <2>3, <2>4
<1>6. AllTransferred'
  BY <1>1, <1>5 DEF AllTransferred
<1> QED
  BY <1>1, <1>3, <1>6, QuietStep

LEMMA WalkEndsStep ==
  ASSUME SelectInv, WalkEnds
  PROVE  SelectInv'
<1>1. /\ pc = "walk" /\ pc' = "end" /\ moved' = moved
      /\ at < Len(ours) => ours[at + 1].amount = 0
      /\ UNCHANGED <<ours, asked, at, fields, keys, outsig, todo, done, remains, made>>
  BY DEF WalkEnds, gathered
<1>2. /\ ours \in Seq(Block) /\ at \in 0 .. Len(ours) /\ Len(ours) \in Nat
      /\ remains \in Nat /\ asked \in Nat /\ moved \in BOOLEAN
  BY DEF SelectInv, TypeOK
<1>3. moved
  <2> SUFFICES ASSUME ~moved PROVE FALSE
    OBVIOUS
  <2>1. /\ \A n \in 1 .. Len(ours) : ours[n].amount > 0
        /\ asked <= Total(ours) /\ Sums(ours)[at] + remains = asked /\ remains > 0
    BY <1>1 DEF SelectInv, Money
  <2>2. at = Len(ours)
    <3>1. at < Len(ours) => at + 1 \in 1 .. Len(ours)
      BY <1>2
    <3>2. at < Len(ours) => ours[at + 1].amount > 0
      BY <2>1, <3>1
    <3> QED
      BY <1>1, <1>2, <3>2
  <2>3. Total(ours) = Sums(ours)[at] /\ Sums(ours)[at] \in Nat
    BY <1>2, <2>2, ListSums
  <2> QED
    BY <1>2, <2>1, <2>3
<1> QED
  BY <1>1, <1>2, <1>3, QuietStep DEF AllTransferred

LEMMA SelectStep == SelectInv /\ [Next]_vars => SelectInv'
<1> SUFFICES ASSUME SelectInv, [Next]_vars PROVE SelectInv'
  OBVIOUS
<1>1. CASE Visit
  <2>1. PICK ok \in BOOLEAN : Gather(at + 1, ok)
    BY <1>1 DEF Visit
  <2>2. /\ pc = "walk" /\ at < Len(ours) /\ ours[at + 1].amount # 0
        /\ First(at + 1) => Fits(fields)
        /\ at' = at + 1 /\ ours' = ours /\ asked' = asked
    BY <1>1 DEF Visit
  <2> QED
    BY <2>1, <2>2, GatherStep
<1>2. CASE Walk
  <2>1. pc' = "walk" /\ moved \in BOOLEAN
    BY <1>2 DEF Walk, SelectInv, TypeOK
  <2> QED
    BY <1>2, <2>1, QuietStep DEF Walk, gathered, AllTransferred
<1>3. CASE UNCHANGED vars
  <2>1. moved \in BOOLEAN /\ AllTransferred'
    BY <1>3 DEF SelectInv, TypeOK, AllTransferred, vars, gathered
  <2> QED
    BY <1>3, <2>1, QuietStep DEF vars, gathered
<1> QED
  BY <1>1, <1>2, <1>3, AskStep, ReportStep, VisitFailsStep, WalkEndsStep DEF Next

LEMMA SelectAlways == Spec => []SelectInv
BY SelectInit, SelectStep, PTL DEF Spec

-----------------------------------------------------------------------------
(* The results *)

\* What xfer_coin_callback gathers stays within the arrays of inputs and keys of
\* xfer_callback_data and never reaches the place of the output and of the default key.
THEOREM TypeCorrect == Spec => []TypeOK
<1>1. SelectInv => TypeOK
  BY DEF SelectInv
<1> QED
  BY <1>1, SelectAlways, PTL

\* No block of ours is twice among the inputs of a transfer, none for more than it
\* holds, and what make_block makes fits the fields of a block.
THEOREM InputsAreCovered == Spec => []InputsCovered
<1>1. SelectInv => InputsCovered
  BY DEF SelectInv, Baskets, Good, InputsCovered
<1> QED
  BY <1>1, SelectAlways, PTL

\* xdag_xfer_coin transfers all that was asked when the coins are under one key and
\* neither a report nor a refused block came in between.
THEOREM AllIsTransferred == Spec => []AllTransferred
<1>1. SelectInv => AllTransferred
  BY DEF SelectInv
<1> QED
  BY <1>1, SelectAlways, PTL
=============================================================================
