------------------------------- MODULE Lemmas -------------------------------
(***************************************************************************)
(* What several proofs rest on.                                            *)
(*                                                                         *)
(* Induction over the natural numbers is here in the form the provers can  *)
(* use: the library's theorems take an operator, these take a set.  They   *)
(* rest on the finite sets being well-founded under strict inclusion.      *)
(***************************************************************************)
EXTENDS Integers, FiniteSets, FiniteSetTheorems, WellFoundedInduction, TLAPS

------------------------------------------------------------------------------
(* Numbers                                                                  *)

\* A set of numbers that is not empty has a smallest member: the intervals up to
\* its members are finite sets, of which one is minimal.
LEMMA SmallestNat ==
  ASSUME NEW S \in SUBSET Nat, S # {}
  PROVE  \E n \in S : \A m \in S : n <= m
<1> DEFINE T == { 0 .. n : n \in S }
<1>1. T \subseteq FiniteSubsetsOf(Nat)
  <2>1. \A n \in Nat : IsFiniteSet(0 .. n)
    BY FS_Interval
  <2>2. \A n \in S : (0 .. n) \in SUBSET Nat
    OBVIOUS
  <2>3. QED
    BY <2>1, <2>2 DEF FiniteSubsetsOf
<1>2. PICK x \in T : \A y \in T : ~ (<<y, x>> \in StrictSubsetOrdering(Nat))
  <2>1. T # {}
    OBVIOUS
  <2>2. IsWellFoundedOn(StrictSubsetOrdering(Nat), FiniteSubsetsOf(Nat))
    BY FS_StrictSubsetOrderingWellFounded, Zenon
  <2> HIDE DEF T
  <2>3. QED
    BY <1>1, <2>1, <2>2, WFMin, Zenon
<1>3. PICK n \in S : x = 0 .. n
  OBVIOUS
<1>4. ASSUME NEW m \in S, m < n PROVE FALSE
  <2>1. (0 .. m) \subseteq (0 .. n) /\ (0 .. m) # (0 .. n)
    BY <1>4
  <2>2. <<0 .. m, 0 .. n>> \in StrictSubsetOrdering(Nat)
    BY <2>1 DEF StrictSubsetOrdering
  <2>3. QED
    BY <1>2, <1>3, <2>2
<1>5. QED
  BY <1>4

\* Induction up to a bound, over a set of numbers.
LEMMA UpTo ==
  ASSUME NEW N \in Nat, NEW S \in SUBSET Nat, 0 \in S,
         \A n \in S : n < N => n + 1 \in S
  PROVE  0 .. N \subseteq S
<1> SUFFICES ASSUME (0 .. N) \ S # {} PROVE FALSE
  OBVIOUS
<1>1. PICK n \in (0 .. N) \ S : \A m \in (0 .. N) \ S : n <= m
  <2> DEFINE T == (0 .. N) \ S
  <2>1. T \in SUBSET Nat
    OBVIOUS
  <2> HIDE DEF T
  <2>2. \E n \in T : \A m \in T : n <= m
    BY <2>1, SmallestNat DEF T
  <2>3. QED
    BY <2>2 DEF T
<1>2. n # 0 /\ n - 1 \in 0 .. N
  BY <1>1
<1>3. n - 1 \in S
  BY <1>1, <1>2
<1>4. n \in S
  BY <1>2, <1>3
<1>5. QED
  BY <1>1, <1>4

Steps(N, S) == [1 .. N -> [S -> S]]
Walks(N, S) == [0 .. N -> S]
Follows(g, b, step, N) == g[0] = b /\ \A i \in 1 .. N : g[i] = step[i][g[i - 1]]

\* Recursion over the numbers up to N: there is a function that begins with b and
\* takes a step at each of them.
LEMMA Recursion ==
  ASSUME NEW N \in Nat, NEW S, NEW b \in S, NEW step \in Steps(N, S)
  PROVE  \E g \in Walks(N, S) : Follows(g, b, step, N)
<1> USE DEF Steps, Walks, Follows
<1> DEFINE Good(g, n) == g[0] = b /\ \A i \in 1 .. n : g[i] = step[i][g[i - 1]]
           R == { n \in 0 .. N : \E g \in [0 .. n -> S] : Good(g, n) }
<1>1. 0 \in R
  <2> DEFINE g == [i \in 0 .. 0 |-> b]
  <2>1. g \in [0 .. 0 -> S] /\ g[0] = b /\ 0 \in 0 .. N
    OBVIOUS
  <2>2. \A i \in 1 .. 0 : FALSE
    OBVIOUS
  <2>3. Good(g, 0)
    BY <2>1, <2>2
  <2> HIDE DEF g, Good
  <2>4. QED
    BY <2>1, <2>3
<1>2. ASSUME NEW n \in R, n < N PROVE n + 1 \in R
  <2>1. n \in Nat /\ n + 1 \in 0 .. N /\ n + 1 \in 1 .. N
    BY <1>2
  <2>2. PICK g \in [0 .. n -> S] : Good(g, n)
    BY <1>2
  <2> DEFINE v == step[n + 1][g[n]]
             k == [i \in 0 .. n + 1 |-> IF i <= n THEN g[i] ELSE v]
  <2>3. v \in S
    BY <2>1
  <2> HIDE DEF v
  <2>4. k \in [0 .. n + 1 -> S]
    BY <2>1, <2>3
  <2>5. \A i \in 0 .. n : k[i] = g[i]
    BY <2>1
  <2>6. k[n + 1] = v
    BY <2>1
  <2> HIDE DEF k
  <2>7. k[0] = b
    BY <2>1, <2>2, <2>5
  <2>8. ASSUME NEW i \in 1 .. n + 1 PROVE k[i] = step[i][k[i - 1]]
    <3>1. CASE i <= n
      <4>1. i \in 0 .. n /\ i - 1 \in 0 .. n /\ i \in 1 .. n
        BY <2>1, <3>1
      <4>2. QED
        BY <2>2, <2>5, <4>1
    <3>2. CASE i = n + 1
      <4>1. i - 1 = n /\ n \in 0 .. n
        BY <2>1, <3>2
      <4>2. QED
        BY <2>5, <2>6, <3>2, <4>1 DEF v
    <3>3. QED
      BY <2>1, <3>1, <3>2
  <2>9. Good(k, n + 1)
    BY <2>7, <2>8
  <2> HIDE DEF Good
  <2>10. QED
    BY <2>1, <2>4, <2>9
<1>3. R \subseteq 0 .. N
  OBVIOUS
<1>4. 0 .. N \subseteq R
  <2> HIDE DEF R
  <2>1. R \in SUBSET Nat
    BY <1>3
  <2>2. QED
    BY <1>1, <1>2, <2>1, UpTo
<1>5. \E g \in [0 .. N -> S] : Good(g, N)
  <2> HIDE DEF Good
  <2>1. N \in R
    <3> HIDE DEF R
    <3>1. QED
      BY <1>4
  <2>2. QED
    BY <2>1
<1>6. QED
  BY <1>5

\* What never falls from one place to the next never falls.
LEMMA Rising ==
  ASSUME NEW n \in Nat, NEW k \in [1 .. n -> Int],
         \A i \in 1 .. n - 1 : k[i] <= k[i + 1]
  PROVE  \A i, j \in 1 .. n : i <= j => k[i] <= k[j]
<1> DEFINE S == { d \in 0 .. n : \A i \in 1 .. n : i + d <= n => k[i] <= k[i + d] }
<1>1. 0 \in S
  OBVIOUS
<1>2. ASSUME NEW d \in S, d < n PROVE d + 1 \in S
  <2>1. d \in Nat /\ d + 1 \in 0 .. n /\ \A i \in 1 .. n : i + d <= n => k[i] <= k[i + d]
    BY <1>2
  <2>2. ASSUME NEW i \in 1 .. n, i + (d + 1) <= n PROVE k[i] <= k[i + (d + 1)]
    <3>1. PICK j \in Nat : j = i + d
      BY <2>1
    <3>2. j \in 1 .. n - 1 /\ j + 1 = i + (d + 1) /\ j <= n /\ j \in 1 .. n /\ j + 1 \in 1 .. n
      BY <2>1, <2>2, <3>1
    <3>3. k[i] <= k[j]
      BY <2>1, <3>1, <3>2
    <3>4. k[j] <= k[j + 1]
      BY <3>2
    <3>5. k[i] \in Int /\ k[j] \in Int /\ k[j + 1] \in Int
      BY <3>2
    <3>6. k[i] <= k[j + 1]
      BY <3>3, <3>4, <3>5
    <3>7. QED
      BY <3>2, <3>6
  <2>3. QED
    BY <2>1, <2>2
<1>3. S \in SUBSET Nat
  OBVIOUS
<1> HIDE DEF S
<1>4. 0 .. n \subseteq S
  BY <1>1, <1>2, <1>3, UpTo
<1> SUFFICES ASSUME NEW i \in 1 .. n, NEW j \in 1 .. n, i <= j PROVE k[i] <= k[j]
  OBVIOUS
<1>5. PICK d \in 0 .. n : d = j - i
  OBVIOUS
<1>6. d \in S /\ i + d = j
  BY <1>4, <1>5
<1>7. k[i] <= k[i + d]
  <2>1. i + d <= n
    BY <1>6
  <2>2. QED
    BY <1>6, <2>1 DEF S
<1>8. QED
  BY <1>6, <1>7, Zenon

------------------------------------------------------------------------------
(* How records tile the blocks of a member                                  *)

Behind(r) == r.off + r.stride

\* The L records rs lie in the B blocks of sizes sz, from s in each; what
\* WellFormed says of neighbours, without the sequences.
Tiled(rs, sz, s, L, B) ==
  /\ L \in Nat /\ B \in Nat /\ s \in Nat
  /\ \A b \in 1 .. B : sz[b] \in Nat /\ \E i \in 1 .. L : rs[i].blk = b
  /\ \A i \in 1 .. L : rs[i].blk \in 1 .. B /\ rs[i].off \in Nat /\ rs[i].stride \in Nat \ {0}
  /\ L # 0 => rs[1].blk = 1 /\ rs[1].off = s /\ Behind(rs[L]) = sz[rs[L].blk]
  /\ \A i \in 1 .. L - 1 :
       \/ rs[i + 1].blk = rs[i].blk /\ rs[i + 1].off = Behind(rs[i])
       \/ rs[i + 1].blk = rs[i].blk + 1 /\ rs[i + 1].off = s /\ Behind(rs[i]) = sz[rs[i].blk]

Before(r, q) == r.blk < q.blk \/ (r.blk = q.blk /\ Behind(r) <= q.off)

LEMMA TilesInOrder ==
  ASSUME NEW rs, NEW sz, NEW s, NEW L, NEW B, Tiled(rs, sz, s, L, B)
  PROVE  \A i, j \in 1 .. L : i < j => Before(rs[i], rs[j])
<1>1. L \in Nat /\ B \in Nat
  BY DEF Tiled
<1>2. \A i \in 1 .. L : rs[i].blk \in Nat /\ rs[i].off \in Nat /\ rs[i].stride \in Nat \ {0}
                        /\ Behind(rs[i]) \in Nat /\ rs[i].off < Behind(rs[i])
  BY <1>1 DEF Tiled, Behind
<1>3. \A i \in 1 .. L - 1 :
         \/ rs[i + 1].blk = rs[i].blk /\ rs[i + 1].off = Behind(rs[i])
         \/ rs[i + 1].blk = rs[i].blk + 1
  BY DEF Tiled
<1> SUFFICES ASSUME NEW i \in 1 .. L
             PROVE  \A j \in 1 .. L : i < j => Before(rs[i], rs[j])
  OBVIOUS
<1> DEFINE S == { n \in Nat : i + 1 + n <= L => Before(rs[i], rs[i + 1 + n]) }
<1>4. 0 \in S
  <2>1. i + 1 <= L => i \in 1 .. L - 1 /\ i + 1 \in 1 .. L
    BY <1>1
  <2>2. i + 1 <= L => Before(rs[i], rs[i + 1])
    BY <1>2, <1>3, <2>1 DEF Before
  <2>3. i + 1 + 0 = i + 1
    OBVIOUS
  <2>4. QED
    BY <2>2, <2>3
<1>5. ASSUME NEW n \in S, n < L PROVE n + 1 \in S
  <2> SUFFICES ASSUME i + 1 + (n + 1) <= L PROVE Before(rs[i], rs[i + 1 + (n + 1)])
    OBVIOUS
  <2>1. PICK j \in 1 .. L - 1 : j = i + 1 + n /\ j + 1 = i + 1 + (n + 1) /\ j \in 1 .. L /\ j + 1 \in 1 .. L
    BY <1>1
  <2>2. Before(rs[i], rs[j])
    BY <1>1, <2>1
  <2>3. Before(rs[i], rs[j + 1])
    BY <1>2, <1>3, <2>1, <2>2 DEF Before
  <2>4. QED
    BY <2>1, <2>3
<1>6. 0 .. L \subseteq S
  <2>1. S \in SUBSET Nat
    OBVIOUS
  <2> HIDE DEF S
  <2>2. QED
    BY <1>1, <1>4, <1>5, <2>1, UpTo
<1>7. ASSUME NEW j \in 1 .. L, i < j PROVE Before(rs[i], rs[j])
  <2>1. j - (i + 1) \in 0 .. L /\ i + 1 + (j - (i + 1)) = j
    BY <1>1, <1>7
  <2>2. QED
    BY <1>1, <1>6, <2>1
<1>8. QED
  BY <1>7

LEMMA InBlock ==
  ASSUME NEW rs, NEW sz, NEW s, NEW L, NEW B, Tiled(rs, sz, s, L, B)
  PROVE  \A i \in 1 .. L : Behind(rs[i]) <= sz[rs[i].blk]
<1>1. L \in Nat /\ B \in Nat
  BY DEF Tiled
<1>2. \A i \in 1 .. L : /\ rs[i].off \in Nat /\ rs[i].stride \in Nat \ {0}
                        /\ Behind(rs[i]) \in Nat /\ rs[i].off < Behind(rs[i])
                        /\ sz[rs[i].blk] \in Nat
  BY <1>1 DEF Tiled, Behind
<1>3. \A i \in 1 .. L - 1 :
         \/ rs[i + 1].blk = rs[i].blk /\ rs[i + 1].off = Behind(rs[i])
         \/ Behind(rs[i]) = sz[rs[i].blk]
  BY DEF Tiled
<1> DEFINE S == { n \in Nat : n < L => Behind(rs[L - n]) <= sz[rs[L - n].blk] }
<1>4. 0 \in S
  <2>1. L # 0 => Behind(rs[L]) = sz[rs[L].blk] /\ L \in 1 .. L /\ L - 0 = L
    BY <1>1 DEF Tiled
  <2>2. QED
    BY <1>1, <1>2, <2>1
<1>5. ASSUME NEW n \in S, n < L PROVE n + 1 \in S
  <2> SUFFICES ASSUME n + 1 < L PROVE Behind(rs[L - (n + 1)]) <= sz[rs[L - (n + 1)].blk]
    OBVIOUS
  <2>1. PICK j \in 1 .. L - 1 : j = L - (n + 1) /\ j + 1 = L - n /\ j \in 1 .. L /\ j + 1 \in 1 .. L
    BY <1>1
  <2>2. Behind(rs[j + 1]) <= sz[rs[j + 1].blk]
    BY <1>1, <2>1
  <2>3. Behind(rs[j]) <= sz[rs[j].blk]
    BY <1>2, <1>3, <2>1, <2>2
  <2>4. QED
    BY <2>1, <2>3
<1>6. 0 .. L \subseteq S
  <2>1. S \in SUBSET Nat
    OBVIOUS
  <2> HIDE DEF S
  <2>2. QED
    BY <1>1, <1>4, <1>5, <2>1, UpTo
<1>7. ASSUME NEW i \in 1 .. L PROVE Behind(rs[i]) <= sz[rs[i].blk]
  <2>1. L - i \in 0 .. L /\ L - (L - i) = i /\ L - i < L
    BY <1>1
  <2>2. QED
    BY <1>1, <1>6, <2>1
<1>8. QED
  BY <1>7

\* No two records begin at one place.
LEMMA OnePlace ==
  ASSUME NEW rs, NEW sz, NEW s, NEW L, NEW B, Tiled(rs, sz, s, L, B),
         NEW i \in 1 .. L, NEW j \in 1 .. L, rs[i].blk = rs[j].blk, rs[i].off = rs[j].off
  PROVE  i = j
<1>1. L \in Nat /\ B \in Nat
  BY DEF Tiled
<1>2. \A k \in 1 .. L : rs[k].blk \in Nat /\ rs[k].off \in Nat /\ Behind(rs[k]) \in Nat
                        /\ rs[k].off < Behind(rs[k])
  BY <1>1 DEF Tiled, Behind
<1>3. ~Before(rs[i], rs[j]) /\ ~Before(rs[j], rs[i])
  BY <1>2 DEF Before
<1>4. ~(i < j) /\ ~(j < i)
  BY <1>3, TilesInOrder
<1>5. QED
  BY <1>1, <1>4

\* What follows record n: nothing, the first record of the next block, or the
\* record behind it in its block.
LEMMA Following ==
  ASSUME NEW rs, NEW sz, NEW s, NEW L, NEW B, Tiled(rs, sz, s, L, B), NEW n \in 1 .. L
  PROVE  /\ Behind(rs[n]) < sz[rs[n].blk] =>
              n + 1 \in 1 .. L /\ rs[n + 1].blk = rs[n].blk /\ rs[n + 1].off = Behind(rs[n])
         /\ Behind(rs[n]) = sz[rs[n].blk] /\ rs[n].blk # B =>
              n + 1 \in 1 .. L /\ rs[n + 1].blk = rs[n].blk + 1 /\ rs[n + 1].off = s
         /\ Behind(rs[n]) = sz[rs[n].blk] /\ rs[n].blk = B => n = L
<1>1. L \in Nat \ {0} /\ B \in Nat
  BY DEF Tiled
<1>2. \A i \in 1 .. L : /\ rs[i].blk \in 1 .. B /\ rs[i].off < Behind(rs[i])
                        /\ rs[i].off \in Nat /\ Behind(rs[i]) \in Nat /\ sz[rs[i].blk] \in Nat
  BY <1>1 DEF Tiled, Behind
<1>3. rs[L].blk = B
  <2>1. B \in 1 .. B
    BY <1>1, <1>2
  <2>2. PICK i \in 1 .. L : rs[i].blk = B
    BY <2>1 DEF Tiled
  <2>3. CASE i = L
    BY <2>2, <2>3
  <2>4. CASE i # L
    <3>1. L \in 1 .. L /\ i < L
      BY <1>1, <2>4
    <3>2. Before(rs[i], rs[L])
      BY <3>1, TilesInOrder
    <3>3. QED
      BY <1>1, <1>2, <2>2, <3>1, <3>2 DEF Before
  <2>5. QED
    BY <2>3, <2>4
<1>4. n # L => n \in 1 .. L - 1 /\ n + 1 \in 1 .. L
  BY <1>1
<1>5. n # L =>
         \/ rs[n + 1].blk = rs[n].blk /\ rs[n + 1].off = Behind(rs[n])
         \/ rs[n + 1].blk = rs[n].blk + 1 /\ rs[n + 1].off = s /\ Behind(rs[n]) = sz[rs[n].blk]
  BY <1>4 DEF Tiled
<1>6. n = L => Behind(rs[n]) = sz[rs[n].blk]
  BY <1>1 DEF Tiled
<1>7. n # L => Behind(rs[n + 1]) <= sz[rs[n + 1].blk]
  BY <1>4, InBlock
<1>8. ASSUME Behind(rs[n]) = sz[rs[n].blk], n # L
      PROVE  rs[n + 1].blk = rs[n].blk + 1 /\ rs[n + 1].off = s
  <2>1. rs[n + 1].off < Behind(rs[n + 1]) /\ Behind(rs[n + 1]) <= sz[rs[n + 1].blk]
    BY <1>2, <1>4, <1>7, <1>8
  <2>2. ~(rs[n + 1].blk = rs[n].blk /\ rs[n + 1].off = Behind(rs[n]))
    BY <1>2, <1>4, <1>8, <2>1
  <2>3. QED
    BY <1>5, <1>8, <2>2
<1>9. QED
  BY <1>1, <1>2, <1>3, <1>4, <1>5, <1>6, <1>8
=============================================================================
