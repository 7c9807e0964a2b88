-------------------------- MODULE MemberList_proofs --------------------------
(***************************************************************************)
(* Proofs about MemberList, for every directory, any number of entries and *)
(* buffers, and every order that qsort may choose: the list implements the *)
(* sorted stream, and its strings are owned once.                          *)
(***************************************************************************)
EXTENDS MemberList, SequenceTheorems, FiniteSetTheorems, Lemmas, TLAPS

------------------------------------------------------------------------------
(* The inductive invariant                                                  *)

Mstats == [ id : Nat, mem_id : Nat, is_alias : BOOLEAN, name : Nat, alias_name : Nat,
            has_ext : BOOLEAN, ext_changed : Nat, ispf_stats : BOOLEAN, ispf_changed : Nat,
            str : [Fields -> {Null} \cup ({"de", "md"} \X Nat \X Fields)] ]

\* The record m tells of entry i, with strings made for the array or for the list.
Tells(m, own, i) ==
  LET smde == Directory[i]
  IN  /\ m \in Mstats
      /\ m.id = i
      /\ m.name = smde.name
      /\ m.is_alias = smde.alias
      /\ m.has_ext = smde.ext /\ (smde.ext => m.ext_changed = smde.ext_changed)
      /\ m.ispf_stats = smde.stats /\ (smde.stats => m.ispf_changed = smde.ispf_changed)
      /\ \A f \in Fields : m.str[f] = IF f \in StringsOf(smde) THEN <<own, i, f>> ELSE Null

\* All entries of the directory, in the order p.
Lists(mstats, own, p) ==
  /\ p \in Orders(Entries)
  /\ mstats \in Seq(Mstats) /\ Len(mstats) = Entries
  /\ \A i \in 1 .. Entries : Tells(mstats[i], own, p[i])

Listed(mstats, own) == \E p \in Orders(Entries) : Lists(mstats, own, p)

AllNamed == \A i \in 1 .. Entries : Directory[i].alias => Directory[i].pname

InOrder(mstats) ==
  \A i, j \in 1 .. Entries : i <= j => Key(mstats[i].id) <= Key(mstats[j].id)

\* The array has the entries of the buffers that were walked, under their numbers.
WalkInv ==
  pc = "decode" =>
    /\ mdir_mstat = <<>> /\ heap = Strings(de_mstat)
    /\ \E k \in 0 .. Len(desbs) :
         /\ area = SubSeq(desbs, k + 1, Len(desbs))
         /\ Len(de_mstat) = Len(Walked(desbs)[k])
    /\ de_mstat \in Seq({ Mstat(i) : i \in Nat })
    /\ \A i \in 1 .. Len(de_mstat) : de_mstat[i] = Mstat(i)

ArrayInv ==
  pc \in {"sort", "dup"} =>
    /\ Entries > 0
    /\ Listed(de_mstat, "de") /\ heap = Strings(de_mstat)
    /\ mdir_mstat = <<>>

ListInv ==
  pc \in {"sort again", "open"} =>
    /\ Entries > 0 /\ AllNamed
    /\ Listed(mdir_mstat, "md") /\ heap = Strings(mdir_mstat)
    /\ de_mstat = <<>>
    /\ cur \in 0 .. Entries
    /\ pc = "sort again" => cur = 0
    /\ pc = "open" => InOrder(mdir_mstat)

EndInv ==
  /\ pc = "new" => de_mstat = <<>> /\ mdir_mstat = <<>> /\ heap = {}
  /\ pc = "closed" => Entries > 0 /\ AllNamed /\ de_mstat = <<>> /\ mdir_mstat = <<>> /\ heap = {}
  /\ pc \in {"failed", "undefined"} => Strings(de_mstat) \cup Strings(mdir_mstat) \subseteq heap
  /\ pc = "undefined" => no_storage \/ Entries = 0 \/ ~AllNamed

TypeInv ==
  /\ desbs \in Desbs
  /\ sort_time \in BOOLEAN /\ sort_reverse \in BOOLEAN
  /\ pc \in {"new", "decode", "sort", "dup", "sort again", "open", "closed", "failed", "undefined"}
  /\ cur \in Nat

IInv == TypeInv /\ WalkInv /\ ArrayInv /\ ListInv /\ EndInv

------------------------------------------------------------------------------
(* The directory and its buffers                                            *)

LEMMA BuffersAre ==
  ASSUME NEW d \in Desbs
  PROVE  /\ d \in Seq(Seq(Smdes)) /\ Len(d) \in Nat \ {0}
         /\ Len(Walked(d)[Len(d)]) <= MaxEntries
<1>1. Buffer \subseteq Seq(Smdes)
  <2>1. \A n \in Nat : [1 .. n -> Smdes] \subseteq Seq(Smdes)
    OBVIOUS
  <2>2. QED
    BY <2>1, EntriesAssumption DEF Buffer
<1>2. PICK n \in 1 .. MaxBuffers : d \in [1 .. n -> Buffer]
  BY DEF Desbs
<1>3. n \in Nat /\ n # 0
  BY <1>2, EntriesAssumption
<1>4. d \in [1 .. n -> Seq(Smdes)]
  BY <1>1, <1>2
<1>5. d \in Seq(Seq(Smdes)) /\ Len(d) = n
  BY <1>3, <1>4
<1>6. Len(Walked(d)[Len(d)]) <= MaxEntries
  BY DEF Desbs
<1>7. QED
  BY <1>3, <1>5, <1>6

\* What the recursion defines.
LEMMA WalkedIs ==
  ASSUME NEW d \in Seq(Seq(Smdes))
  PROVE  /\ Walked(d)[0] = <<>>
         /\ \A i \in 0 .. Len(d) : Walked(d)[i] \in Seq(Smdes)
         /\ \A i \in 1 .. Len(d) : Walked(d)[i] = Walked(d)[i - 1] \o d[i]
<1> DEFINE N == Len(d)
           S == Seq(Smdes)
           I(i) == d[i]
           step == [i \in 1 .. N |-> [s \in S |-> s \o I(i)]]
           F(f) == [i \in 0 .. N |-> IF i = 0 THEN <<>> ELSE f[i - 1] \o I(i)]
<1>1. N \in Nat /\ \A i \in 1 .. N : I(i) \in S
  OBVIOUS
<1>2. Walked(d) = CHOOSE f : f = F(f)
  BY DEF Walked
<1>3. step \in [1 .. N -> [S -> S]]
  <2>1. \A i \in 1 .. N : \A s \in S : s \o I(i) \in S
    BY <1>1, ConcatProperties
  <2> HIDE DEF S, N, I
  <2>2. QED
    BY <2>1
<1> HIDE DEF N, I
<1>4. PICK g \in [0 .. N -> S] : g[0] = <<>> /\ \A i \in 1 .. N : g[i] = step[i][g[i - 1]]
  <2>1. <<>> \in S
    OBVIOUS
  <2> HIDE DEF step, S
  <2>2. step \in Steps(N, S)
    BY <1>3 DEF Steps
  <2>3. \E g \in Walks(N, S) : Follows(g, <<>>, step, N)
    BY <1>1, <2>1, <2>2, Recursion
  <2>4. QED
    BY <2>3 DEF Walks, Follows
<1>5. \A f : f = F(f) => DOMAIN f = 0 .. N /\ f[0] = <<>> /\ \A i \in 1 .. N : f[i] = f[i - 1] \o I(i)
  <2> TAKE f
  <2> HAVE f = F(f)
  <2>1. DOMAIN f = 0 .. N /\ \A i \in 0 .. N : f[i] = IF i = 0 THEN <<>> ELSE f[i - 1] \o I(i)
    OBVIOUS
  <2>2. 0 \in 0 .. N /\ \A i \in 1 .. N : i \in 0 .. N /\ i # 0
    BY <1>1
  <2> HIDE DEF F
  <2>3. QED
    BY <2>1, <2>2
<1> HIDE DEF S
<1>6. \A i \in 1 .. N : g[i] = g[i - 1] \o I(i)
  <2>1. \A i \in 1 .. N : i - 1 \in 0 .. N
    BY <1>1
  <2>2. QED
    BY <1>4, <2>1
<1>7. g = F(g)
  <2>1. \A i \in 0 .. N : i = 0 \/ i \in 1 .. N
    BY <1>1
  <2>2. \A i \in 0 .. N : g[i] = IF i = 0 THEN <<>> ELSE g[i - 1] \o I(i)
    BY <1>4, <1>6, <2>1
  <2>3. QED
    BY <2>2
<1> DEFINE u == Walked(d)
<1>8. u = F(u)
  <2> HIDE DEF F
  <2>1. \E f : f = F(f)
    BY <1>7
  <2>2. QED
    BY <1>2, <2>1
<1> HIDE DEF u, F
<1>9. u[0] = <<>> /\ \A i \in 1 .. N : u[i] = u[i - 1] \o I(i)
  BY <1>5, <1>8
<1>10. \A i \in 0 .. N : u[i] \in S
  <2> DEFINE G == { i \in 0 .. N : u[i] \in S }
  <2>1. 0 \in G
    <3>1. <<>> \in S
      BY DEF S
    <3>2. u[0] \in S /\ 0 \in 0 .. N
      BY <1>1, <1>9, <3>1
    <3>3. QED
      BY <3>2
  <2>2. ASSUME NEW n \in G, n < N PROVE n + 1 \in G
    <3>1. n \in Nat /\ n + 1 \in 1 .. N /\ n + 1 \in 0 .. N /\ (n + 1) - 1 = n
      BY <1>1, <2>2
    <3>2. u[n + 1] = u[n] \o I(n + 1)
      BY <1>9, <3>1
    <3>3. u[n] \in S /\ I(n + 1) \in S
      <4>1. u[n] \in S
        OBVIOUS
      <4>2. I(n + 1) \in S
        BY <1>1, <3>1
      <4>3. QED
        BY <4>1, <4>2
    <3>4. u[n + 1] \in S
      BY <3>2, <3>3, ConcatProperties DEF S
    <3>5. QED
      BY <3>1, <3>4
  <2>3. G \in SUBSET Nat
    BY <1>1
  <2> HIDE DEF G
  <2>4. 0 .. N \subseteq G
    BY <1>1, <2>1, <2>2, <2>3, UpTo
  <2>5. QED
    BY <2>4 DEF G
<1>11. QED
  BY <1>9, <1>10 DEF u, N, S, I

LEMMA DirectoryIs ==
  ASSUME TypeInv
  PROVE  /\ Directory \in Seq(Smdes)
         /\ Entries \in Nat /\ Entries <= MaxEntries
         /\ \A i \in 1 .. Entries : Directory[i] \in Smde
<1>1. desbs \in Seq(Seq(Smdes)) /\ Len(Walked(desbs)[Len(desbs)]) <= MaxEntries
  BY BuffersAre DEF TypeInv
<1>2. Walked(desbs)[Len(desbs)] \in Seq(Smdes)
  <2>1. Len(desbs) \in 0 .. Len(desbs)
    BY <1>1
  <2>2. QED
    BY <1>1, <2>1, WalkedIs
<1>3. QED
  BY <1>1, <1>2, EntriesAssumption DEF Directory, Entries

------------------------------------------------------------------------------
(* Orders                                                                   *)

\* An order of n entries leaves none out.
LEMMA OrderIsOnto ==
  ASSUME NEW n \in Nat, NEW p \in Orders(n), NEW e \in 1 .. n
  PROVE  \E i \in 1 .. n : p[i] = e
<1>1. p \in Injection(1 .. n, 1 .. n)
  BY DEF Orders, Injection, IsInjective
<1>2. IsFiniteSet(1 .. n)
  BY FS_Interval
<1>3. p \in Surjection(1 .. n, 1 .. n)
  BY <1>1, <1>2, FS_Injection
<1>4. QED
  BY <1>3 DEF Surjection

LEMMA Identity ==
  ASSUME NEW n \in Nat
  PROVE  [i \in 1 .. n |-> i] \in Orders(n)
BY DEF Orders

LEMMA Compose ==
  ASSUME NEW n \in Nat, NEW p \in Orders(n), NEW q \in Orders(n)
  PROVE  [i \in 1 .. n |-> p[q[i]]] \in Orders(n)
<1> DEFINE r == [i \in 1 .. n |-> p[q[i]]]
<1>1. p \in [1 .. n -> 1 .. n] /\ q \in [1 .. n -> 1 .. n]
  BY DEF Orders
<1>2. r \in [1 .. n -> 1 .. n]
  BY <1>1
<1>3. \A i, j \in 1 .. n : p[i] = p[j] => i = j
  BY DEF Orders
<1>4. \A i, j \in 1 .. n : q[i] = q[j] => i = j
  BY DEF Orders
<1>5. ASSUME NEW i \in 1 .. n, NEW j \in 1 .. n, r[i] = r[j] PROVE i = j
  <2>1. q[i] \in 1 .. n /\ q[j] \in 1 .. n
    BY <1>1
  <2>2. p[q[i]] = p[q[j]]
    BY <1>5
  <2>3. QED
    BY <1>3, <1>4, <2>1, <2>2
<1> HIDE DEF r
<1>6. QED
  BY <1>2, <1>5 DEF Orders, r

------------------------------------------------------------------------------
(* Strings                                                                  *)

Made(own) == { x \in {own} \X (1 .. Entries) \X Fields : x[3] \in StringsOf(Directory[x[2]]) }

LEMMA NotNull ==
  ASSUME NEW own, NEW i, NEW f
  PROVE  <<own, i, f>> # Null
BY DEF Null

LEMMA Triple ==
  ASSUME NEW a, NEW b, NEW c, NEW d, NEW e, NEW f, <<a, b, c>> = <<d, e, f>>
  PROVE  a = d /\ b = e /\ c = f
OBVIOUS

\* The strings of a list are those made for it.
LEMMA StringsAre ==
  ASSUME TypeInv, NEW own, NEW p, NEW ms, Lists(ms, own, p)
  PROVE  Strings(ms) = Made(own)
<1>1. Entries \in Nat /\ ms \in Seq(Mstats) /\ Len(ms) = Entries /\ DOMAIN ms = 1 .. Entries
  BY DirectoryIs DEF Lists
<1>2. p \in Orders(Entries) /\ p \in [1 .. Entries -> 1 .. Entries]
  BY DEF Lists, Orders
<1>3. \A i \in 1 .. Entries : \A f \in Fields :
        ms[i].str[f] = IF f \in StringsOf(Directory[p[i]]) THEN <<own, p[i], f>> ELSE Null
  BY DEF Lists, Tells
<1>4. Strings(ms) = { ms[i].str[f] : i \in 1 .. Entries, f \in Fields } \ {Null}
  BY <1>1 DEF Strings
<1>5. ASSUME NEW x \in Strings(ms) PROVE x \in Made(own)
  <2>1. PICK i \in 1 .. Entries, f \in Fields : x = ms[i].str[f] /\ x # Null
    BY <1>4
  <2>2. f \in StringsOf(Directory[p[i]]) /\ x = <<own, p[i], f>>
    BY <1>3, <2>1
  <2>3. p[i] \in 1 .. Entries
    BY <1>2
  <2> HIDE DEF Fields
  <2>4. QED
    BY <2>2, <2>3 DEF Made
<1>6. ASSUME NEW x \in Made(own) PROVE x \in Strings(ms)
  <2>1. PICK e \in 1 .. Entries, f \in Fields : x = <<own, e, f>> /\ f \in StringsOf(Directory[e])
    BY DEF Made
  <2>2. PICK i \in 1 .. Entries : p[i] = e
    BY <1>1, <1>2, OrderIsOnto
  <2>3. ms[i].str[f] = x
    BY <1>3, <2>1, <2>2
  <2>4. x # Null
    BY <2>1, NotNull
  <2>5. QED
    BY <1>4, <2>3, <2>4
<1>7. QED
  BY <1>5, <1>6

\* Each of them belongs to one entry and one field.
LEMMA StringsCounted ==
  ASSUME TypeInv, NEW own, NEW p, NEW ms, Lists(ms, own, p)
  PROVE  Cardinality(Strings(ms)) =
           Cardinality({ x \in (DOMAIN ms) \X Fields : ms[x[1]].str[x[2]] # Null })
<1> DEFINE S == { x \in (DOMAIN ms) \X Fields : ms[x[1]].str[x[2]] # Null }
           g == [x \in S |-> ms[x[1]].str[x[2]]]
<1>1. Entries \in Nat /\ ms \in Seq(Mstats) /\ Len(ms) = Entries /\ DOMAIN ms = 1 .. Entries
  BY DirectoryIs DEF Lists
<1>2. \A i, j \in 1 .. Entries : p[i] = p[j] => i = j
  BY DEF Lists, Orders
<1>3. \A i \in 1 .. Entries : \A f \in Fields :
        ms[i].str[f] # Null => ms[i].str[f] = <<own, p[i], f>>
  BY DEF Lists, Tells
<1>4. Strings(ms) = { ms[i].str[f] : i \in DOMAIN ms, f \in Fields } \ {Null}
  BY DEF Strings
<1>5. IsFiniteSet(S)
  <2>1. IsFiniteSet(1 .. Entries)
    BY <1>1, FS_Interval
  <2>2. IsFiniteSet(Fields)
    <3>1. IsFiniteSet({}) /\ IsFiniteSet({} \cup {"name"})
      BY FS_EmptySet, FS_AddElement
    <3>2. IsFiniteSet(({} \cup {"name"}) \cup {"alias_name"})
      BY <3>1, FS_AddElement
    <3>3. IsFiniteSet((({} \cup {"name"}) \cup {"alias_name"}) \cup {"ext_id"})
      BY <3>2, FS_AddElement
    <3>4. IsFiniteSet(((({} \cup {"name"}) \cup {"alias_name"}) \cup {"ext_id"}) \cup {"ispf_id"})
      BY <3>3, FS_AddElement
    <3>5. Fields = ((({} \cup {"name"}) \cup {"alias_name"}) \cup {"ext_id"}) \cup {"ispf_id"}
      BY DEF Fields
    <3>6. QED
      BY <3>4, <3>5
  <2>3. IsFiniteSet((1 .. Entries) \X Fields)
    BY <2>1, <2>2, FS_Product
  <2>4. S \in SUBSET ((1 .. Entries) \X Fields)
    BY <1>1
  <2> HIDE DEF S
  <2>5. QED
    BY <2>3, <2>4, FS_Subset
<1>6. g \in [S -> Strings(ms)]
  <2>1. ASSUME NEW x \in S PROVE ms[x[1]].str[x[2]] \in Strings(ms)
    <3>1. x[1] \in DOMAIN ms /\ x[2] \in Fields /\ ms[x[1]].str[x[2]] # Null
      OBVIOUS
    <3>2. QED
      BY <1>4, <3>1
  <2> HIDE DEF S
  <2>2. QED
    BY <2>1
<1>7. ASSUME NEW x \in S, NEW y \in S, g[x] = g[y] PROVE x = y
  <2>1. /\ x[1] \in 1 .. Entries /\ x[2] \in Fields /\ ms[x[1]].str[x[2]] # Null
        /\ y[1] \in 1 .. Entries /\ y[2] \in Fields /\ ms[y[1]].str[y[2]] # Null
        /\ x = <<x[1], x[2]>> /\ y = <<y[1], y[2]>>
    BY <1>1
  <2>2. g[x] = ms[x[1]].str[x[2]] /\ g[y] = ms[y[1]].str[y[2]]
    OBVIOUS
  <2> HIDE DEF g, S, Fields
  <2>3. g[x] = <<own, p[x[1]], x[2]>> /\ g[y] = <<own, p[y[1]], y[2]>>
    BY <1>3, <2>1, <2>2
  <2>4. p[x[1]] = p[y[1]] /\ x[2] = y[2]
    <3>1. <<own, p[x[1]], x[2]>> = <<own, p[y[1]], y[2]>>
      BY <1>7, <2>3
    <3>2. QED
      BY <3>1, Triple
  <2>5. QED
    BY <1>2, <2>1, <2>4
<1>8. ASSUME NEW s \in Strings(ms) PROVE \E x \in S : g[x] = s
  <2>1. PICK i \in DOMAIN ms, f \in Fields : s = ms[i].str[f] /\ s # Null
    BY <1>4
  <2> DEFINE x == <<i, f>>
  <2>2. x \in S /\ x[1] = i /\ x[2] = f
    BY <2>1
  <2> HIDE DEF S
  <2>3. g[x] = s
    BY <2>1, <2>2
  <2> HIDE DEF g, x
  <2>4. QED
    BY <2>2, <2>3
<1> HIDE DEF g, S
<1>9. g \in Bijection(S, Strings(ms))
  BY <1>6, <1>7, <1>8 DEF Bijection, Injection, Surjection, IsInjective
<1>10. ExistsBijection(S, Strings(ms))
  BY <1>9 DEF ExistsBijection
<1>11. Cardinality(Strings(ms)) = Cardinality(S)
  BY <1>5, <1>10, FS_Bijection
<1>12. QED
  BY <1>11 DEF S

------------------------------------------------------------------------------
(* Lists of mstats                                                          *)

LEMMA MstatTells ==
  ASSUME TypeInv, NEW i \in 1 .. Entries
  PROVE  Tells(Mstat(i), "de", i)
<1> DEFINE smde == Directory[i]
           str  == [f \in Fields |-> IF f \in StringsOf(smde) THEN <<"de", i, f>> ELSE Null]
           m    == Mstat(i)
<1>1. smde \in Smde /\ i \in Nat
  BY DirectoryIs
<1>2. str \in [Fields -> {Null} \cup ({"de", "md"} \X Nat \X Fields)]
  <2> HIDE DEF smde
  <2>1. \A f \in Fields : <<"de", i, f>> \in {"de", "md"} \X Nat \X Fields
    BY <1>1
  <2>2. QED
    BY <2>1
<1>3. m = [ id           |-> i,
            mem_id       |-> smde.mem_id,
            is_alias     |-> smde.alias,
            name         |-> smde.name,
            alias_name   |-> IF smde.alias THEN smde.alias_name ELSE 0,
            has_ext      |-> smde.ext,
            ext_changed  |-> IF smde.ext THEN smde.ext_changed ELSE 0,
            ispf_stats   |-> smde.stats,
            ispf_changed |-> IF smde.stats THEN smde.ispf_changed ELSE 0,
            str          |-> str ]
  BY DEF Mstat
<1> HIDE DEF m, str, smde
<1>4. /\ smde.mem_id \in Nat /\ smde.alias \in BOOLEAN /\ smde.name \in Nat
      /\ smde.alias_name \in Nat /\ smde.ext \in BOOLEAN /\ smde.ext_changed \in Nat
      /\ smde.stats \in BOOLEAN /\ smde.ispf_changed \in Nat
  BY <1>1 DEF Smde
<1>5. /\ (IF smde.alias THEN smde.alias_name ELSE 0) \in Nat
      /\ (IF smde.ext THEN smde.ext_changed ELSE 0) \in Nat
      /\ (IF smde.stats THEN smde.ispf_changed ELSE 0) \in Nat
  BY <1>4
<1>6. m \in Mstats
  BY <1>1, <1>2, <1>3, <1>4, <1>5 DEF Mstats
<1>7. m.id = i /\ m.name = smde.name /\ m.str = str
  BY <1>3
<1>8. m.is_alias = smde.alias /\ m.has_ext = smde.ext /\ m.ispf_stats = smde.stats
  BY <1>3, Zenon
<1>9. (smde.ext => m.ext_changed = smde.ext_changed) /\ (smde.stats => m.ispf_changed = smde.ispf_changed)
  BY <1>3
<1>10. \A f \in Fields : str[f] = IF f \in StringsOf(smde) THEN <<"de", i, f>> ELSE Null
  BY DEF str
<1>11. QED
  BY <1>6, <1>7, <1>8, <1>9, <1>10 DEF Tells, m, smde

\* An order of a list is a list.
LEMMA Permuted ==
  ASSUME TypeInv, NEW own, NEW p, NEW ms, Lists(ms, own, p),
         NEW q \in Orders(Len(ms)), NEW s, s = [i \in DOMAIN ms |-> ms[q[i]]]
  PROVE  Listed(s, own)
<1>1. Entries \in Nat /\ ms \in Seq(Mstats) /\ Len(ms) = Entries /\ DOMAIN ms = 1 .. Entries
  BY DirectoryIs DEF Lists
<1>2. p \in Orders(Entries) /\ q \in Orders(Entries)
  BY <1>1 DEF Lists
<1> DEFINE r == [i \in 1 .. Entries |-> p[q[i]]]
<1>3. r \in Orders(Entries)
  BY <1>1, <1>2, Compose
<1>4. \A i \in 1 .. Entries : q[i] \in 1 .. Entries
  BY <1>2 DEF Orders
<1>5. s \in [1 .. Entries -> Mstats] /\ \A i \in 1 .. Entries : s[i] = ms[q[i]]
  BY <1>1, <1>4
<1>6. s \in Seq(Mstats) /\ Len(s) = Entries
  BY <1>1, <1>5
<1>7. ASSUME NEW i \in 1 .. Entries PROVE Tells(s[i], own, r[i])
  <2>1. r[i] = p[q[i]] /\ s[i] = ms[q[i]] /\ q[i] \in 1 .. Entries
    BY <1>4, <1>5
  <2>2. \A j \in 1 .. Entries : Tells(ms[j], own, p[j])
    BY DEF Lists
  <2> HIDE DEF r
  <2>3. QED
    BY <2>1, <2>2
<1> HIDE DEF r
<1>8. Lists(s, own, r)
  BY <1>3, <1>6, <1>7 DEF Lists
<1>9. QED
  BY <1>3, <1>8 DEF Listed

\* What copies one record, with all its strings, if it has a name.
LEMMA Copied ==
  ASSUME TypeInv, NEW i \in 1 .. Entries, NEW m, Tells(m, "de", i), m.str["name"] # Null
  PROVE  /\ Directory[i].alias => Directory[i].pname
         /\ Tells([m EXCEPT !.str = [f \in Fields |->
                     IF f \in DupFields(m) THEN <<"md", m.id, f>> ELSE @[f]]], "md", i)
<1> DEFINE smde == Directory[i]
           str  == [f \in Fields |-> IF f \in DupFields(m) THEN <<"md", m.id, f>> ELSE m.str[f]]
           c    == [m EXCEPT !.str = str]
<1>1. smde \in Smde /\ i \in Nat
  BY DirectoryIs
<1>2. /\ m \in Mstats /\ m.id = i /\ m.is_alias = smde.alias
      /\ m.has_ext = smde.ext /\ m.ispf_stats = smde.stats
  BY DEF Tells
<1>3. \A f \in Fields : m.str[f] = IF f \in StringsOf(smde) THEN <<"de", i, f>> ELSE Null
  BY DEF Tells
<1>4. "name" \in Fields
  BY DEF Fields
<1>5. "name" \in StringsOf(smde)
  <2> HIDE DEF smde
  <2>1. QED
    BY <1>3, <1>4
<1>6. smde.alias => smde.pname
  BY <1>5 DEF StringsOf
<1>7. \A f \in Fields : f \in DupFields(m) <=> f \in StringsOf(smde)
  <2> HIDE DEF smde
  <2>1. ASSUME NEW f \in Fields PROVE m.str[f] # Null <=> f \in StringsOf(smde)
    <3>1. <<"de", i, f>> # Null
      BY NotNull
    <3>2. QED
      BY <1>3, <3>1
  <2>2. "name" \in DupFields(m)
    BY <1>4 DEF DupFields
  <2>3. "alias_name" \in DupFields(m) <=> "alias_name" \in StringsOf(smde)
    BY <1>2 DEF DupFields, StringsOf, Fields
  <2>4. "ext_id" \in StringsOf(smde) <=> smde.ext
    BY DEF StringsOf, Fields
  <2>5. "ispf_id" \in StringsOf(smde) <=> smde.stats
    BY DEF StringsOf, Fields
  <2>6. "ext_id" \in DupFields(m) <=> m.has_ext /\ m.str["ext_id"] # Null
    BY DEF DupFields, Fields
  <2>7. "ispf_id" \in DupFields(m) <=> m.ispf_stats /\ m.str["ispf_id"] # Null
    BY DEF DupFields, Fields
  <2>8. "ext_id" \in DupFields(m) <=> "ext_id" \in StringsOf(smde)
    BY <1>2, <2>1, <2>4, <2>6 DEF Fields
  <2>9. "ispf_id" \in DupFields(m) <=> "ispf_id" \in StringsOf(smde)
    BY <1>2, <2>1, <2>5, <2>7 DEF Fields
  <2>10. QED
    BY <1>5, <2>2, <2>3, <2>8, <2>9 DEF Fields
<1>8. \A f \in Fields : str[f] = IF f \in StringsOf(smde) THEN <<"md", i, f>> ELSE Null
  <2> HIDE DEF smde, Fields
  <2>1. QED
    BY <1>2, <1>3, <1>7
<1>9. str \in [Fields -> {Null} \cup ({"de", "md"} \X Nat \X Fields)]
  <2>1. \A f \in Fields : <<"md", i, f>> \in {"de", "md"} \X Nat \X Fields
    BY <1>1
  <2>2. \A f \in Fields : str[f] \in {Null} \cup ({"de", "md"} \X Nat \X Fields)
    BY <1>8, <2>1
  <2>3. QED
    BY <2>2
<1> HIDE DEF str, smde
<1>10. c \in Mstats
  BY <1>2, <1>9 DEF Mstats
<1>11. /\ c.id = m.id /\ c.name = m.name /\ c.str = str
       /\ c.ext_changed = m.ext_changed /\ c.ispf_changed = m.ispf_changed
  BY <1>2 DEF Mstats
<1>12. c.is_alias = m.is_alias /\ c.has_ext = m.has_ext /\ c.ispf_stats = m.ispf_stats
  BY <1>2 DEF Mstats
<1>13. /\ m.name = smde.name /\ (smde.ext => m.ext_changed = smde.ext_changed)
       /\ (smde.stats => m.ispf_changed = smde.ispf_changed)
  BY DEF Tells, smde
<1>14. Tells(c, "md", i)
  <2> HIDE DEF c
  <2>1. /\ c.is_alias = smde.alias /\ c.has_ext = smde.ext /\ c.ispf_stats = smde.stats
    BY <1>2, <1>12
  <2>2. /\ c.id = i /\ c.name = smde.name /\ (smde.ext => c.ext_changed = smde.ext_changed)
        /\ (smde.stats => c.ispf_changed = smde.ispf_changed)
    BY <1>2, <1>11, <1>13
  <2>3. \A f \in Fields : c.str[f] = IF f \in StringsOf(smde) THEN <<"md", i, f>> ELSE Null
    BY <1>8, <1>11
  <2>4. QED
    BY <1>10, <2>1, <2>2, <2>3 DEF Tells, smde
<1>15. QED
  BY <1>6, <1>14 DEF c, str, smde

------------------------------------------------------------------------------
(* The order of the list                                                    *)

LEMMA KeyType ==
  ASSUME TypeInv, NEW i \in 1 .. Entries
  PROVE  Key(i) \in Int
<1> DEFINE smde == Directory[i]
<1>1. /\ smde.name \in Nat /\ smde.ext_changed \in Nat /\ smde.ispf_changed \in Nat
      /\ smde.ext \in BOOLEAN /\ smde.stats \in BOOLEAN
  BY DirectoryIs DEF Smde
<1>2. sort_time \in BOOLEAN /\ sort_reverse \in BOOLEAN
  BY DEF TypeInv
<1> HIDE DEF smde
<1>3. QED
  BY <1>1, <1>2 DEF Key, smde

\* The comparison of SortAgain is that of the keys.
LEMMA CmpMemIsKey ==
  ASSUME TypeInv, NEW own, NEW i \in 1 .. Entries, NEW j \in 1 .. Entries,
         NEW l, NEW r, Tells(l, own, i), Tells(r, own, j), CmpMem(l, r) <= 0
  PROVE  Key(i) <= Key(j)
<1> DEFINE a == Directory[i]
           b == Directory[j]
           Time(m) == IF m.ext THEN m.ext_changed ELSE IF m.stats THEN m.ispf_changed ELSE 0
<1>1. /\ a.name \in Nat /\ a.ext_changed \in Nat /\ a.ispf_changed \in Nat
      /\ a.ext \in BOOLEAN /\ a.stats \in BOOLEAN
  BY DirectoryIs DEF Smde
<1>2. /\ b.name \in Nat /\ b.ext_changed \in Nat /\ b.ispf_changed \in Nat
      /\ b.ext \in BOOLEAN /\ b.stats \in BOOLEAN
  BY DirectoryIs DEF Smde
<1>3. l.name = a.name /\ ChgTime(l) = Time(a)
  BY DEF Tells, ChgTime
<1>4. r.name = b.name /\ ChgTime(r) = Time(b)
  BY DEF Tells, ChgTime
<1>5. Key(i) = IF sort_time THEN - (IF sort_reverse THEN -1 ELSE 1) * Time(a)
                            ELSE (IF sort_reverse THEN -1 ELSE 1) * a.name
  BY <1>1 DEF Key
<1>6. Key(j) = IF sort_time THEN - (IF sort_reverse THEN -1 ELSE 1) * Time(b)
                            ELSE (IF sort_reverse THEN -1 ELSE 1) * b.name
  BY <1>2 DEF Key
<1>7. Time(a) \in Nat /\ Time(b) \in Nat
  BY <1>1, <1>2
<1> HIDE DEF a, b, Time
<1>8. sort_time \in BOOLEAN /\ sort_reverse \in BOOLEAN
  BY DEF TypeInv
<1>9. CASE sort_time /\ sort_reverse
  <2>1. Time(a) - Time(b) <= 0
    BY <1>3, <1>4, <1>9 DEF CmpMem, CmpDate
  <2>2. QED
    BY <1>5, <1>6, <1>7, <1>9, <2>1
<1>10. CASE sort_time /\ ~sort_reverse
  <2>1. -(Time(a) - Time(b)) <= 0
    BY <1>3, <1>4, <1>10 DEF CmpMem, CmpDate
  <2>2. QED
    BY <1>5, <1>6, <1>7, <1>10, <2>1
<1>11. CASE ~sort_time /\ sort_reverse
  <2>1. b.name - a.name <= 0
    BY <1>3, <1>4, <1>11 DEF CmpMem, Strcmp
  <2>2. QED
    BY <1>1, <1>2, <1>5, <1>6, <1>11, <2>1
<1>12. CASE ~sort_time /\ ~sort_reverse
  <2>1. a.name - b.name <= 0
    BY <1>3, <1>4, <1>12 DEF CmpMem, Strcmp
  <2>2. QED
    BY <1>1, <1>2, <1>5, <1>6, <1>12, <2>1
<1>13. QED
  BY <1>8, <1>9, <1>10, <1>11, <1>12

\* A list that SortAgain leaves is in the order of the keys.
LEMMA SortedIsInOrder ==
  ASSUME TypeInv, NEW own, NEW p, NEW ms, Lists(ms, own, p),
         \A i \in 1 .. Entries - 1 : CmpMem(ms[i], ms[i + 1]) <= 0
  PROVE  InOrder(ms)
<1> DEFINE k == [i \in 1 .. Entries |-> Key(p[i])]
<1>1. Entries \in Nat
  BY DirectoryIs
<1>2. \A i \in 1 .. Entries : p[i] \in 1 .. Entries
  BY DEF Lists, Orders
<1>3. k \in [1 .. Entries -> Int]
  BY <1>2, KeyType
<1>4. \A i \in 1 .. Entries : Tells(ms[i], own, p[i]) /\ ms[i].id = p[i]
  BY DEF Lists, Tells
<1>5. ASSUME NEW i \in 1 .. Entries - 1 PROVE k[i] <= k[i + 1]
  <2>1. i \in 1 .. Entries /\ i + 1 \in 1 .. Entries
    BY <1>1
  <2>2. Tells(ms[i], own, p[i]) /\ Tells(ms[i + 1], own, p[i + 1])
    BY <1>4, <2>1
  <2>3. p[i] \in 1 .. Entries /\ p[i + 1] \in 1 .. Entries
    BY <1>2, <2>1
  <2>4. CmpMem(ms[i], ms[i + 1]) <= 0
    OBVIOUS
  <2>5. Key(p[i]) <= Key(p[i + 1])
    BY <2>2, <2>3, <2>4, CmpMemIsKey
  <2>6. QED
    BY <2>1, <2>5
<1> HIDE DEF k
<1>6. \A i, j \in 1 .. Entries : i <= j => k[i] <= k[j]
  BY <1>1, <1>3, <1>5, Rising
<1>7. \A i \in 1 .. Entries : k[i] = Key(ms[i].id)
  BY <1>4 DEF k
<1>8. QED
  BY <1>6, <1>7 DEF InOrder

------------------------------------------------------------------------------
(* The invariant is inductive                                               *)

\* No step changes the directory or how it is to be sorted.
LEMMA InputKept ==
  ASSUME UNCHANGED input
  PROVE  /\ Walked(desbs)' = Walked(desbs)
         /\ Directory' = Directory /\ Entries' = Entries
         /\ AllNamed' <=> AllNamed
         /\ \A i : Key(i)' = Key(i)
         /\ \A i : Mstat(i)' = Mstat(i)
         /\ Listed(de_mstat, "de")' <=> Listed(de_mstat', "de")
         /\ Listed(mdir_mstat, "md")' <=> Listed(mdir_mstat', "md")
         /\ InOrder(mdir_mstat)' <=> InOrder(mdir_mstat')
         /\ Strings(de_mstat)' = Strings(de_mstat')
         /\ Strings(mdir_mstat)' = Strings(mdir_mstat')
<1>1. desbs' = desbs /\ sort_time' = sort_time /\ sort_reverse' = sort_reverse
  BY DEF input
<1>0. Walked(desbs)' = Walked(desbs)
  BY <1>1 DEF Walked
<1>2. Directory' = Directory
  BY <1>0, <1>1 DEF Directory
<1>3. Entries' = Entries
  BY <1>2 DEF Entries
<1>4. \A i : Key(i)' = Key(i)
  BY <1>1, <1>2 DEF Key
<1>5. \A i : Mstat(i)' = Mstat(i)
  BY <1>2 DEF Mstat
<1>6. AllNamed' <=> AllNamed
  BY <1>2, <1>3 DEF AllNamed
<1>7. Listed(de_mstat, "de")' <=> Listed(de_mstat', "de")
  BY <1>2, <1>3 DEF Listed, Lists, Tells
<1>8. Listed(mdir_mstat, "md")' <=> Listed(mdir_mstat', "md")
  BY <1>2, <1>3 DEF Listed, Lists, Tells
<1>9. InOrder(mdir_mstat)' <=> InOrder(mdir_mstat')
  BY <1>3, <1>4 DEF InOrder
<1>10. Strings(de_mstat)' = Strings(de_mstat') /\ Strings(mdir_mstat)' = Strings(mdir_mstat')
  BY DEF Strings
<1>11. QED
  BY <1>0, <1>2, <1>3, <1>4, <1>5, <1>6, <1>7, <1>8, <1>9, <1>10

LEMMA NoStrings == Strings(<<>>) = {}
<1>1. DOMAIN <<>> = {}
  OBVIOUS
<1>2. QED
  BY <1>1 DEF Strings

\* What the array and the list point to is allocated, wherever openmemdir stops.
LEMMA StringsHeld ==
  ASSUME IInv
  PROVE  Strings(de_mstat) \cup Strings(mdir_mstat) \subseteq heap
<1>1. CASE pc = "decode"
  BY <1>1, NoStrings DEF IInv, WalkInv
<1>2. CASE pc \in {"sort", "dup"}
  BY <1>2, NoStrings DEF IInv, ArrayInv
<1>3. CASE pc \in {"sort again", "open"}
  BY <1>3, NoStrings DEF IInv, ListInv
<1>4. CASE pc \in {"new", "closed", "failed", "undefined"}
  BY <1>4, NoStrings DEF IInv, EndInv
<1>5. QED
  BY <1>1, <1>2, <1>3, <1>4 DEF IInv, TypeInv

LEMMA InitIInv == Init => IInv
BY DEF Init, IInv, TypeInv, WalkInv, ArrayInv, ListInv, EndInv

LEMMA TypeStep ==
  ASSUME TypeInv, UNCHANGED input, cur' \in Nat,
         pc' \in {"new", "decode", "sort", "dup", "sort again", "open", "closed", "failed", "undefined"}
  PROVE  TypeInv'
BY DEF TypeInv, input

\* A step that gives up leaves everything where it is.
LEMMA GivesUp ==
  ASSUME IInv, UNCHANGED <<input, area, de_mstat, mdir_mstat, cur, answer, heap>>,
         pc' \in {"failed", "undefined"},
         pc' = "undefined" => no_storage' \/ Entries = 0 \/ ~AllNamed
  PROVE  IInv'
<1>1. TypeInv'
  BY TypeStep DEF IInv, TypeInv
<1>2. WalkInv' /\ ArrayInv' /\ ListInv'
  BY DEF WalkInv, ArrayInv, ListInv
<1>3. EndInv'
  <2>1. (Strings(de_mstat) \cup Strings(mdir_mstat) \subseteq heap)'
    BY StringsHeld DEF Strings
  <2>2. Entries' = Entries /\ (AllNamed' <=> AllNamed)
    BY InputKept
  <2>3. QED
    BY <2>1, <2>2 DEF EndInv
<1>4. QED
  BY <1>1, <1>2, <1>3 DEF IInv

LEMMA FailingSteps ==
  ASSUME IInv, OpenFails \/ NoEntries \/ NoStorageToDecode \/ NameIsNull \/ NoStorageForList
  PROVE  IInv'
<1>1. UNCHANGED <<input, area, de_mstat, mdir_mstat, cur, answer, heap>> /\ pc' \in {"failed", "undefined"}
  BY DEF OpenFails, NoEntries, NoStorageToDecode, NameIsNull, NoStorageForList
<1>2. pc' = "undefined" => no_storage' \/ Entries = 0 \/ ~AllNamed
  <2>1. CASE OpenFails
    BY <2>1 DEF OpenFails
  <2>2. CASE NoEntries
    BY <2>2 DEF NoEntries
  <2>3. CASE NoStorageToDecode
    BY <2>3 DEF NoStorageToDecode
  <2>4. CASE NoStorageForList
    BY <2>4 DEF NoStorageForList
  <2>5. CASE NameIsNull
    <3>1. CASE \A i \in DOMAIN de_mstat : de_mstat[i].str["name"] # Null
      BY <2>5, <3>1 DEF NameIsNull
    <3>2. CASE \E i \in DOMAIN de_mstat : de_mstat[i].str["name"] = Null
      <4>1. PICK i \in DOMAIN de_mstat : de_mstat[i].str["name"] = Null
        BY <3>2
      <4>2. PICK p \in Orders(Entries) : Lists(de_mstat, "de", p)
        BY <2>5 DEF NameIsNull, IInv, ArrayInv, Listed
      <4>3. Entries \in Nat /\ i \in 1 .. Entries
        BY <4>1, <4>2, DirectoryIs DEF Lists, IInv
      <4>4. Tells(de_mstat[i], "de", p[i]) /\ p[i] \in 1 .. Entries
        BY <4>2, <4>3 DEF Lists, Orders
      <4>5. "name" \in Fields /\ <<"de", p[i], "name">> # Null
        BY NotNull DEF Fields
      <4>6. "name" \notin StringsOf(Directory[p[i]])
        BY <4>1, <4>4, <4>5 DEF Tells
      <4>7. Directory[p[i]].alias /\ ~Directory[p[i]].pname
        BY <4>5, <4>6 DEF StringsOf
      <4>8. QED
        BY <4>4, <4>7 DEF AllNamed
    <3>3. QED
      BY <3>1, <3>2
  <2>6. QED
    BY <2>1, <2>2, <2>3, <2>4, <2>5
<1>3. QED
  BY <1>1, <1>2, GivesUp

LEMMA OpenStep ==
  ASSUME IInv, OpenPdsAndDeserv
  PROVE  IInv'
<1>1. /\ pc = "new" /\ area' = desbs /\ pc' = "decode"
      /\ UNCHANGED <<input, de_mstat, mdir_mstat, cur, answer, heap, no_storage>>
  BY DEF OpenPdsAndDeserv
<1>2. TypeInv'
  BY <1>1, TypeStep DEF IInv, TypeInv
<1>3. desbs \in Seq(Seq(Smdes)) /\ desbs' = desbs /\ Len(desbs) \in Nat
  BY <1>1, BuffersAre DEF IInv, TypeInv, input
<1>4. WalkInv'
  <2>1. de_mstat' = <<>> /\ mdir_mstat' = <<>> /\ heap' = {}
    BY <1>1 DEF IInv, EndInv
  <2>2. heap' = Strings(de_mstat)'
    BY <2>1, NoStrings, InputKept, <1>1
  <2>3. Walked(desbs)[0] = <<>> /\ 0 \in 0 .. Len(desbs)
    <3>1. Walked(desbs)[0] = <<>>
      BY <1>3, WalkedIs
    <3>2. 0 \in 0 .. Len(desbs)
      BY <1>3
    <3>3. QED
      BY <3>1, <3>2
  <2>4. desbs = SubSeq(desbs, 0 + 1, Len(desbs))
    BY <1>3
  <2>5. \E k \in 0 .. Len(desbs) :
          area' = SubSeq(desbs, k + 1, Len(desbs)) /\ Len(de_mstat') = Len(Walked(desbs)[k])
    BY <1>1, <2>1, <2>3, <2>4
  <2>6. \E k \in 0 .. Len(desbs)' :
          area' = SubSeq(desbs, k + 1, Len(desbs))' /\ Len(de_mstat)' = Len(Walked(desbs)[k])'
    <3>1. Walked(desbs)' = Walked(desbs)
      BY <1>1, InputKept
    <3>2. QED
      BY <1>3, <2>5, <3>1
  <2>7. de_mstat' \in Seq({ Mstat(i)' : i \in Nat }) /\ \A i \in 1 .. Len(de_mstat') : de_mstat'[i] = Mstat(i)'
    BY <2>1
  <2>8. QED
    BY <2>1, <2>2, <2>6, <2>7 DEF WalkInv
<1>5. ArrayInv' /\ ListInv' /\ EndInv'
  BY <1>1 DEF ArrayInv, ListInv, EndInv
<1>6. QED
  BY <1>2, <1>4, <1>5 DEF IInv

\* A buffer adds its entries under the numbers that follow.
LEMMA WalkStep ==
  ASSUME IInv, WalkDesb
  PROVE  IInv'
<1> DEFINE n == Len(de_mstat)
           m == Len(Head(area))
           new == [i \in 1 .. m |-> Mstat(n + i)]
           M == { Mstat(i) : i \in Nat }
<1>1. /\ pc = "decode" /\ area # <<>> /\ area' = Tail(area)
      /\ de_mstat' = de_mstat \o new
      /\ heap' = heap \cup Strings(de_mstat')
      /\ UNCHANGED <<input, pc, mdir_mstat, cur, answer, no_storage>>
  BY DEF WalkDesb, NextDesb
<1>2. TypeInv'
  BY <1>1, TypeStep DEF IInv, TypeInv
<1>3. desbs \in Seq(Seq(Smdes)) /\ desbs' = desbs /\ Len(desbs) \in Nat
  BY <1>1, BuffersAre DEF IInv, TypeInv, input
<1>4. /\ mdir_mstat = <<>> /\ heap = Strings(de_mstat)
      /\ de_mstat \in Seq(M) /\ \A i \in 1 .. n : de_mstat[i] = Mstat(i)
  BY <1>1 DEF IInv, WalkInv
<1>5. PICK k \in 0 .. Len(desbs) :
        area = SubSeq(desbs, k + 1, Len(desbs)) /\ n = Len(Walked(desbs)[k])
  BY <1>1 DEF IInv, WalkInv
<1>6. k < Len(desbs)
  BY <1>1, <1>3, <1>5
<1>7. k + 1 \in 1 .. Len(desbs) /\ k + 1 \in 0 .. Len(desbs) /\ k \in Nat /\ (k + 1) - 1 = k
  BY <1>3, <1>5, <1>6
<1>8. Head(area) = desbs[k + 1] /\ Tail(area) = SubSeq(desbs, (k + 1) + 1, Len(desbs))
  BY <1>3, <1>5, <1>7, HeadTailOfSubSeq
<1>9. m \in Nat /\ n \in Nat
  BY <1>3, <1>4, <1>7, <1>8
<1>10. new \in Seq(M) /\ Len(new) = m /\ \A i \in 1 .. m : new[i] = Mstat(n + i)
  <2>1. \A i \in 1 .. m : Mstat(n + i) \in M
    BY <1>9
  <2> HIDE DEF M, m, n
  <2>2. QED
    BY <1>9, <2>1
<1> HIDE DEF M, new
<1>11. /\ de_mstat' \in Seq(M) /\ Len(de_mstat') = n + m
       /\ \A i \in 1 .. n + m : de_mstat'[i] = IF i <= n THEN de_mstat[i] ELSE new[i - n]
  <2>1. de_mstat \in Seq(M) /\ new \in Seq(M)
    BY <1>4, <1>10 DEF M
  <2> DEFINE c == de_mstat \o new
  <2>2. c \in Seq(M) /\ Len(c) = n + m
    <3>1. c \in Seq(M) /\ Len(c) = Len(de_mstat) + Len(new)
      BY <2>1, ConcatProperties
    <3>2. QED
      BY <1>10, <3>1
  <2>3. \A i \in 1 .. n + m : c[i] = IF i <= n THEN de_mstat[i] ELSE new[i - n]
    BY <1>10, <2>1, ConcatProperties
  <2>4. de_mstat' = c
    BY <1>1
  <2> HIDE DEF c, n
  <2>5. QED
    BY <2>2, <2>3, <2>4
<1>12. \A i \in 1 .. n + m : de_mstat'[i] = Mstat(i)
  <2>1. ASSUME NEW i \in 1 .. n + m PROVE de_mstat'[i] = Mstat(i)
    <3>1. CASE i <= n
      BY <1>4, <1>9, <1>11, <3>1
    <3>2. CASE i > n
      <4>1. i - n \in 1 .. m /\ n + (i - n) = i
        BY <1>9, <3>2
      <4>2. new[i - n] = Mstat(n + (i - n))
        BY <1>10, <4>1
      <4>3. de_mstat'[i] = new[i - n]
        BY <1>9, <1>11, <3>2
      <4>4. QED
        BY <4>1, <4>2, <4>3
    <3>3. QED
      BY <1>9, <3>1, <3>2
  <2>2. QED
    BY <2>1
<1>13. Len(Walked(desbs)[k + 1]) = n + m
  <2>1. Walked(desbs)[k + 1] = Walked(desbs)[k] \o desbs[k + 1]
    BY <1>3, <1>7, WalkedIs
  <2>2. Walked(desbs)[k] \in Seq(Smdes)
    <3>1. \A i \in 0 .. Len(desbs) : Walked(desbs)[i] \in Seq(Smdes)
      BY <1>3, WalkedIs
    <3>2. QED
      BY <1>5, <3>1
  <2>3. desbs[k + 1] \in Seq(Smdes)
    BY <1>3, <1>7
  <2>4. Len(Walked(desbs)[k] \o desbs[k + 1]) = Len(Walked(desbs)[k]) + Len(desbs[k + 1])
    BY <2>2, <2>3, ConcatProperties
  <2>5. QED
    BY <1>5, <1>8, <2>1, <2>4
<1>14. heap' = Strings(de_mstat')
  <2>1. \A i \in DOMAIN de_mstat : i \in DOMAIN de_mstat' /\ de_mstat'[i] = de_mstat[i]
    <3>1. DOMAIN de_mstat = 1 .. n /\ DOMAIN de_mstat' = 1 .. n + m
      BY <1>4, <1>11
    <3>2. QED
      BY <1>9, <1>11, <3>1
  <2>2. Strings(de_mstat) \subseteq Strings(de_mstat')
    BY <2>1 DEF Strings
  <2>3. QED
    BY <1>1, <1>4, <2>2
<1>15. WalkInv'
  <2>1. \E j \in 0 .. Len(desbs)' :
          area' = SubSeq(desbs, j + 1, Len(desbs))' /\ Len(de_mstat)' = Len(Walked(desbs)[j])'
    <3>1. area' = SubSeq(desbs, (k + 1) + 1, Len(desbs)) /\ Len(de_mstat') = Len(Walked(desbs)[k + 1])
      BY <1>1, <1>8, <1>11, <1>13
    <3>2. QED
      <4>1. Walked(desbs)' = Walked(desbs)
        BY <1>1, InputKept
      <4>2. QED
        BY <1>3, <1>7, <3>1, <4>1
  <2>2. \A i : Mstat(i)' = Mstat(i)
    BY <1>1, InputKept
  <2>3. de_mstat' \in Seq({ Mstat(i)' : i \in Nat })
    <3>1. { Mstat(i)' : i \in Nat } = M
      BY <2>2 DEF M
    <3>2. QED
      BY <1>11, <3>1
  <2>4. \A i \in 1 .. Len(de_mstat') : de_mstat'[i] = Mstat(i)'
    BY <1>11, <1>12, <2>2
  <2>5. heap' = Strings(de_mstat)' /\ mdir_mstat' = <<>>
    BY <1>1, <1>4, <1>14, InputKept
  <2>6. QED
    BY <2>1, <2>3, <2>4, <2>5 DEF WalkInv
<1>16. ArrayInv' /\ ListInv' /\ EndInv'
  BY <1>1 DEF ArrayInv, ListInv, EndInv
<1>17. QED
  BY <1>2, <1>15, <1>16 DEF IInv

\* When all buffers were walked the array has the whole directory.
LEMMA DecodeStep ==
  ASSUME IInv, DecodeDone
  PROVE  IInv'
<1>1. /\ pc = "decode" /\ area = <<>> /\ Entries > 0 /\ pc' = "sort"
      /\ UNCHANGED <<input, area, de_mstat, mdir_mstat, cur, answer, heap, no_storage>>
  BY DEF DecodeDone
<1>2. TypeInv' /\ TypeInv
  BY <1>1, TypeStep DEF IInv, TypeInv
<1>3. desbs \in Seq(Seq(Smdes)) /\ Len(desbs) \in Nat
  BY BuffersAre DEF IInv, TypeInv
<1>4. /\ mdir_mstat = <<>> /\ heap = Strings(de_mstat)
      /\ de_mstat \in Seq({ Mstat(i) : i \in Nat })
      /\ \A i \in 1 .. Len(de_mstat) : de_mstat[i] = Mstat(i)
  BY <1>1 DEF IInv, WalkInv
<1>5. PICK k \in 0 .. Len(desbs) :
        area = SubSeq(desbs, k + 1, Len(desbs)) /\ Len(de_mstat) = Len(Walked(desbs)[k])
  BY <1>1 DEF IInv, WalkInv
<1>6. k = Len(desbs)
  <2>1. Len(area) = 0
    BY <1>1
  <2>2. Len(area) = Len(desbs) - k
    BY <1>3, <1>5
  <2>3. QED
    BY <1>3, <1>5, <2>1, <2>2
<1>7. Len(de_mstat) = Entries /\ Entries \in Nat
  BY <1>2, <1>5, <1>6, DirectoryIs DEF Entries, Directory
<1>8. Listed(de_mstat, "de")
  <2> DEFINE p == [i \in 1 .. Entries |-> i]
  <2>1. p \in Orders(Entries)
    BY <1>7, Identity
  <2>2. \A i \in 1 .. Entries : Tells(de_mstat[i], "de", p[i])
    BY <1>2, <1>4, <1>7, MstatTells
  <2>3. de_mstat \in [1 .. Entries -> Mstats]
    <3>1. DOMAIN de_mstat = 1 .. Entries /\ de_mstat = [i \in 1 .. Entries |-> de_mstat[i]]
      BY <1>4, <1>7
    <3>2. \A i \in 1 .. Entries : de_mstat[i] \in Mstats
      BY <2>2 DEF Tells
    <3>3. QED
      BY <3>1, <3>2
  <2>4. de_mstat \in Seq(Mstats)
    BY <1>7, <2>3
  <2> HIDE DEF p
  <2>5. Lists(de_mstat, "de", p)
    BY <1>7, <2>1, <2>2, <2>4 DEF Lists
  <2>6. QED
    BY <2>1, <2>5 DEF Listed
<1>9. ArrayInv'
  <2>1. Listed(de_mstat, "de")' /\ Entries' > 0 /\ heap' = Strings(de_mstat)' /\ mdir_mstat' = <<>>
    BY <1>1, <1>4, <1>8, InputKept
  <2>2. QED
    BY <2>1 DEF ArrayInv
<1>10. WalkInv' /\ ListInv' /\ EndInv'
  BY <1>1 DEF WalkInv, ListInv, EndInv
<1>11. QED
  BY <1>2, <1>9, <1>10 DEF IInv

\* Sorting does not change which entries and strings there are.
LEMMA PermutedStrings ==
  ASSUME TypeInv, NEW own, NEW ms, Listed(ms, own),
         NEW q \in Orders(Len(ms)), NEW s, s = [i \in DOMAIN ms |-> ms[q[i]]]
  PROVE  Listed(s, own) /\ Strings(s) = Strings(ms)
<1>1. PICK p : Lists(ms, own, p)
  BY DEF Listed
<1>2. Listed(s, own)
  BY <1>1, Permuted
<1>3. PICK r : Lists(s, own, r)
  BY <1>2 DEF Listed
<1>4. QED
  BY <1>1, <1>2, <1>3, StringsAre

LEMMA SortStep ==
  ASSUME IInv, SortByMember
  PROVE  IInv'
<1>1. /\ pc = "sort" /\ pc' = "dup"
      /\ UNCHANGED <<input, area, mdir_mstat, cur, answer, heap, no_storage>>
  BY DEF SortByMember
<1>2. TypeInv' /\ TypeInv
  BY <1>1, TypeStep DEF IInv, TypeInv
<1>3. /\ Entries > 0 /\ Listed(de_mstat, "de") /\ heap = Strings(de_mstat) /\ mdir_mstat = <<>>
  BY <1>1 DEF IInv, ArrayInv
<1>4. PICK q \in Orders(Len(de_mstat)) : de_mstat' = [i \in DOMAIN de_mstat |-> de_mstat[q[i]]]
  BY DEF SortByMember, Sorted
<1>5. Listed(de_mstat', "de") /\ Strings(de_mstat') = Strings(de_mstat)
  BY <1>2, <1>3, <1>4, PermutedStrings
<1>6. ArrayInv'
  <2>1. Listed(de_mstat, "de")' /\ Entries' > 0 /\ heap' = Strings(de_mstat)' /\ mdir_mstat' = <<>>
    BY <1>1, <1>3, <1>5, InputKept
  <2>2. QED
    BY <2>1 DEF ArrayInv
<1>7. WalkInv' /\ ListInv' /\ EndInv'
  BY <1>1 DEF WalkInv, ListInv, EndInv
<1>8. QED
  BY <1>2, <1>6, <1>7 DEF IInv

\* The list gets strings of its own, and those of the array are freed.
LEMMA CopyStep ==
  ASSUME IInv, CopyMstats
  PROVE  IInv'
<1> DEFINE Copy(m) == [m EXCEPT !.str = [f \in Fields |->
                         IF f \in DupFields(m) THEN <<"md", m.id, f>> ELSE @[f]]]
<1>1. /\ pc = "dup" /\ pc' = "sort again" /\ de_mstat' = <<>> /\ cur' = 0
      /\ \A i \in DOMAIN de_mstat : de_mstat[i].str["name"] # Null
      /\ mdir_mstat' = [i \in DOMAIN de_mstat |-> Copy(de_mstat[i])]
      /\ heap' = (heap \cup Strings(mdir_mstat')) \ Strings(de_mstat)
      /\ UNCHANGED <<input, area, answer, no_storage>>
  BY DEF CopyMstats, FreeMstat
<1>2. TypeInv' /\ TypeInv
  BY <1>1, TypeStep DEF IInv, TypeInv
<1>3. /\ Entries > 0 /\ Listed(de_mstat, "de") /\ heap = Strings(de_mstat)
  BY <1>1 DEF IInv, ArrayInv
<1>4. PICK p \in Orders(Entries) : Lists(de_mstat, "de", p)
  BY <1>3 DEF Listed
<1>5. /\ Entries \in Nat /\ Len(de_mstat) = Entries /\ DOMAIN de_mstat = 1 .. Entries
      /\ p \in [1 .. Entries -> 1 .. Entries]
  BY <1>2, <1>4, DirectoryIs DEF Lists, Orders
<1>6. ASSUME NEW i \in 1 .. Entries
      PROVE  /\ Directory[p[i]].alias => Directory[p[i]].pname
             /\ Tells(Copy(de_mstat[i]), "md", p[i])
  <2>1. Tells(de_mstat[i], "de", p[i]) /\ p[i] \in 1 .. Entries /\ de_mstat[i].str["name"] # Null
    BY <1>1, <1>4, <1>5 DEF Lists
  <2>2. QED
    BY <1>2, <2>1, Copied
<1> HIDE DEF Copy
<1>7. AllNamed
  <2>1. ASSUME NEW e \in 1 .. Entries PROVE Directory[e].alias => Directory[e].pname
    <3>1. PICK i \in 1 .. Entries : p[i] = e
      BY <1>4, <1>5, OrderIsOnto
    <3>2. QED
      BY <1>6, <3>1
  <2>2. QED
    BY <2>1 DEF AllNamed
<1>8. Lists(mdir_mstat', "md", p)
  <2>1. \A i \in 1 .. Entries : mdir_mstat'[i] = Copy(de_mstat[i])
    BY <1>1, <1>5
  <2>2. \A i \in 1 .. Entries : Tells(mdir_mstat'[i], "md", p[i])
    BY <1>6, <2>1
  <2>3. mdir_mstat' \in [1 .. Entries -> Mstats]
    <3>1. mdir_mstat' = [i \in 1 .. Entries |-> Copy(de_mstat[i])]
      BY <1>1, <1>5
    <3>2. \A i \in 1 .. Entries : Copy(de_mstat[i]) \in Mstats
      BY <1>6 DEF Tells
    <3>3. QED
      BY <3>1, <3>2
  <2>4. mdir_mstat' \in Seq(Mstats) /\ Len(mdir_mstat') = Entries
    BY <1>5, <2>3
  <2>5. QED
    BY <1>4, <2>2, <2>4 DEF Lists
<1>9. heap' = Strings(mdir_mstat')
  <2>1. Strings(de_mstat) = Made("de") /\ Strings(mdir_mstat') = Made("md")
    BY <1>2, <1>4, <1>8, StringsAre
  <2>2. Made("de") \cap Made("md") = {}
    BY DEF Made
  <2>3. QED
    BY <1>1, <1>3, <2>1, <2>2
<1>10. ListInv'
  <2>1. Listed(mdir_mstat', "md")
    BY <1>4, <1>8 DEF Listed
  <2>2. /\ Entries' = Entries /\ (AllNamed' <=> AllNamed) /\ Listed(mdir_mstat, "md")'
        /\ heap' = Strings(mdir_mstat)'
    BY <1>1, <1>9, <2>1, InputKept
  <2>3. 0 \in 0 .. Entries
    BY <1>5
  <2>4. QED
    BY <1>1, <1>3, <1>7, <2>2, <2>3 DEF ListInv
<1>11. WalkInv' /\ ArrayInv' /\ EndInv'
  BY <1>1 DEF WalkInv, ArrayInv, EndInv
<1>12. QED
  BY <1>2, <1>10, <1>11 DEF IInv

LEMMA SortAgainStep ==
  ASSUME IInv, SortAgain
  PROVE  /\ IInv'
         /\ Listed(mdir_mstat', "md")
<1>1. /\ pc = "sort again" /\ pc' = "open"
      /\ UNCHANGED <<input, area, de_mstat, cur, answer, heap, no_storage>>
  BY DEF SortAgain
<1>2. TypeInv' /\ TypeInv
  BY <1>1, TypeStep DEF IInv, TypeInv
<1>3. /\ Entries > 0 /\ AllNamed /\ Listed(mdir_mstat, "md") /\ heap = Strings(mdir_mstat)
      /\ de_mstat = <<>> /\ cur \in 0 .. Entries
  BY <1>1 DEF IInv, ListInv
<1>4. PICK q \in Orders(Len(mdir_mstat)) :
        /\ mdir_mstat' = [i \in DOMAIN mdir_mstat |-> mdir_mstat[q[i]]]
        /\ \A i \in 1 .. Len(mdir_mstat) - 1 : CmpMem(mdir_mstat'[i], mdir_mstat'[i + 1]) <= 0
  BY DEF SortAgain, Sorted
<1>5. Listed(mdir_mstat', "md") /\ Strings(mdir_mstat') = Strings(mdir_mstat)
  BY <1>2, <1>3, <1>4, PermutedStrings
<1>6. Len(mdir_mstat) = Entries
  BY <1>3 DEF Listed, Lists
<1>7. InOrder(mdir_mstat')
  <2>1. PICK p : Lists(mdir_mstat', "md", p)
    BY <1>5 DEF Listed
  <2>2. \A i \in 1 .. Entries - 1 : CmpMem(mdir_mstat'[i], mdir_mstat'[i + 1]) <= 0
    BY <1>4, <1>6
  <2>3. QED
    BY <1>2, <2>1, <2>2, SortedIsInOrder
<1>8. ListInv'
  <2>1. /\ Listed(mdir_mstat, "md")' /\ Entries' = Entries /\ heap' = Strings(mdir_mstat)'
        /\ (AllNamed' <=> AllNamed) /\ InOrder(mdir_mstat)'
    BY <1>1, <1>3, <1>5, <1>7, InputKept
  <2>2. QED
    BY <1>1, <1>3, <2>1 DEF ListInv
<1>9. WalkInv' /\ ArrayInv' /\ EndInv'
  BY <1>1 DEF WalkInv, ArrayInv, EndInv
<1>10. QED
  BY <1>2, <1>5, <1>8, <1>9 DEF IInv

LEMMA ReadStep ==
  ASSUME IInv, Readmemdir
  PROVE  IInv'
<1>1. /\ pc = "open"
      /\ IF AtEnd THEN answer' = 0 /\ UNCHANGED cur
                  ELSE answer' = mdir_mstat[cur + 1].id /\ cur' = cur + 1
      /\ UNCHANGED <<input, pc, area, de_mstat, mdir_mstat, heap, no_storage>>
  BY DEF Readmemdir
<1>2. /\ Entries > 0 /\ AllNamed /\ Listed(mdir_mstat, "md") /\ heap = Strings(mdir_mstat)
      /\ de_mstat = <<>> /\ cur \in 0 .. Entries /\ InOrder(mdir_mstat)
  BY <1>1 DEF IInv, ListInv
<1>3. Len(mdir_mstat) = Entries /\ Entries \in Nat
  BY <1>2, DirectoryIs DEF Listed, Lists, IInv
<1>4. cur' \in 0 .. Entries
  BY <1>1, <1>2, <1>3 DEF AtEnd
<1>5. TypeInv'
  BY <1>1, <1>3, <1>4, TypeStep DEF IInv, TypeInv
<1>6. ListInv'
  <2>1. mdir_mstat' = mdir_mstat /\ pc' = "open"
    BY <1>1
  <2>2. /\ Listed(mdir_mstat, "md")' /\ Entries' = Entries /\ heap' = Strings(mdir_mstat)'
        /\ (AllNamed' <=> AllNamed) /\ InOrder(mdir_mstat)'
    <3>1. Listed(mdir_mstat', "md") /\ InOrder(mdir_mstat') /\ heap' = Strings(mdir_mstat')
      BY <1>1, <1>2
    <3>2. QED
      BY <1>1, <3>1, InputKept
  <2>3. QED
    BY <1>1, <1>2, <1>4, <2>1, <2>2 DEF ListInv
<1>7. WalkInv' /\ ArrayInv' /\ EndInv'
  BY <1>1 DEF WalkInv, ArrayInv, EndInv
<1>8. QED
  BY <1>5, <1>6, <1>7 DEF IInv

LEMMA CloseStep ==
  ASSUME IInv, Closememdir
  PROVE  IInv'
<1>1. /\ pc = "open" /\ pc' = "closed" /\ heap' = heap \ Strings(mdir_mstat) /\ mdir_mstat' = <<>>
      /\ UNCHANGED <<input, area, de_mstat, cur, answer, no_storage>>
  BY DEF Closememdir
<1>2. Entries > 0 /\ AllNamed /\ heap = Strings(mdir_mstat) /\ de_mstat = <<>>
  BY <1>1 DEF IInv, ListInv
<1>3. TypeInv'
  BY <1>1, TypeStep DEF IInv, TypeInv
<1>4. EndInv'
  <2>1. heap' = {} /\ Entries' > 0 /\ AllNamed'
    BY <1>1, <1>2, InputKept
  <2>2. QED
    BY <1>1, <1>2, <2>1 DEF EndInv
<1>5. WalkInv' /\ ArrayInv' /\ ListInv'
  BY <1>1 DEF WalkInv, ArrayInv, ListInv
<1>6. QED
  BY <1>3, <1>4, <1>5 DEF IInv

LEMMA Unchanged ==
  ASSUME IInv, UNCHANGED vars
  PROVE  IInv'
<1>1. UNCHANGED <<input, pc, area, de_mstat, mdir_mstat, cur, answer, heap, no_storage>>
  BY DEF vars
<1>2. TypeInv'
  BY <1>1, TypeStep DEF IInv, TypeInv
<1>3. WalkInv' /\ ArrayInv' /\ ListInv' /\ EndInv'
  <2>1. desbs' = desbs
    BY <1>1 DEF input
  <2>2. /\ Walked(desbs)' = Walked(desbs) /\ Entries' = Entries /\ (AllNamed' <=> AllNamed)
        /\ \A i : Mstat(i)' = Mstat(i)
        /\ Strings(de_mstat)' = Strings(de_mstat) /\ Strings(mdir_mstat)' = Strings(mdir_mstat)
        /\ Listed(de_mstat, "de")' <=> Listed(de_mstat, "de")
        /\ Listed(mdir_mstat, "md")' <=> Listed(mdir_mstat, "md")
        /\ InOrder(mdir_mstat)' <=> InOrder(mdir_mstat)
    BY <1>1, InputKept
  <2>3. WalkInv'
    BY <1>1, <2>1, <2>2 DEF IInv, WalkInv
  <2>4. ArrayInv'
    BY <1>1, <2>2 DEF IInv, ArrayInv
  <2>5. ListInv'
    BY <1>1, <2>2 DEF IInv, ListInv
  <2>6. EndInv'
    BY <1>1, <2>2 DEF IInv, EndInv
  <2>7. QED
    BY <2>3, <2>4, <2>5, <2>6
<1>4. QED
  BY <1>2, <1>3 DEF IInv

LEMMA NextIInv == IInv /\ [Next]_vars => IInv'
BY FailingSteps, OpenStep, WalkStep, DecodeStep, SortStep, CopyStep, SortAgainStep, ReadStep,
   CloseStep, Unchanged DEF Next, Ended

------------------------------------------------------------------------------
(* The refinement                                                           *)

Keys == [i \in 1 .. Entries |-> Key(i)]

Left == IF pc = "open" THEN { mdir_mstat[i].id : i \in cur + 1 .. Len(mdir_mstat) } ELSE {}

\* The entries and their keys stay.
LEMMA AbstractKept ==
  ASSUME UNCHANGED input
  PROVE  (1 .. Entries)' = 1 .. Entries /\ Keys' = Keys
<1>1. Entries' = Entries /\ \A i : Key(i)' = Key(i)
  BY InputKept
<1>2. QED
  BY <1>1 DEF Keys

LEMMA AbstractInit == Init => AbstractStream!Init
<1> SUFFICES ASSUME Init PROVE AbstractStream!Init
  OBVIOUS
<1>1. TypeInv
  BY InitIInv DEF IInv
<1>2. Entries \in Nat /\ Entries <= MaxEntries /\ MaxEntries \in Nat
  BY <1>1, DirectoryIs, EntriesAssumption
<1>3. 1 .. Entries \subseteq 1 .. MaxEntries
  BY <1>2
<1>4. [i \in 1 .. Entries |-> Key(i)] \in [1 .. Entries -> Int]
  BY <1>1, KeyType
<1>5. Stream = "new" /\ pc # "open" /\ answer = 0
  BY DEF Init, Stream
<1>6. QED
  BY <1>3, <1>4, <1>5 DEF AbstractStream!Init

\* Until the list is made, openmemdir does nothing a caller could see.
LEMMA HiddenStep ==
  ASSUME IInv, UNCHANGED <<input, answer>>,
         pc \in {"new", "decode", "sort", "dup", "sort again"},
         pc' \in {"new", "decode", "sort", "dup", "sort again"}
  PROVE  UNCHANGED AbstractStream!vars
<1>1. Stream = "new" /\ Stream' = "new" /\ Left = {} /\ Left' = {}
  BY DEF Stream, Left
<1>2. (1 .. Entries)' = 1 .. Entries /\ Keys' = Keys
  BY AbstractKept
<1>3. QED
  BY <1>1, <1>2 DEF AbstractStream!vars, Keys, Left

\* NULL is answered for a list that could not be made.
LEMMA FailingStep ==
  ASSUME IInv, UNCHANGED <<input, answer>>,
         pc \in {"new", "decode", "sort", "dup", "sort again"},
         pc' \in {"failed", "undefined"}
  PROVE  AbstractStream!OpenFails
<1>1. Stream = "new" /\ Stream' = "failed" /\ Left = {} /\ Left' = {}
  BY DEF Stream, Left
<1>2. (1 .. Entries)' = 1 .. Entries /\ Keys' = Keys
  BY AbstractKept
<1>3. QED
  BY <1>1, <1>2 DEF AbstractStream!OpenFails, Keys, Left

\* The list that is sorted last has all entries.
LEMMA OpeningStep ==
  ASSUME IInv, SortAgain
  PROVE  AbstractStream!Open
<1>1. pc = "sort again" /\ pc' = "open" /\ UNCHANGED <<input, cur, answer>>
  BY DEF SortAgain
<1>2. Listed(mdir_mstat', "md") /\ cur' = 0 /\ Entries \in Nat
  BY <1>1, SortAgainStep, DirectoryIs DEF IInv, ListInv
<1>3. PICK p \in Orders(Entries) : Lists(mdir_mstat', "md", p)
  BY <1>2 DEF Listed
<1>4. Len(mdir_mstat') = Entries /\ \A i \in 1 .. Entries : mdir_mstat'[i].id = p[i] /\ p[i] \in 1 .. Entries
  BY <1>3 DEF Lists, Tells, Orders
<1>5. { mdir_mstat'[i].id : i \in 0 + 1 .. Entries } = 1 .. Entries
  <2>1. \A e \in 1 .. Entries : \E i \in 1 .. Entries : p[i] = e
    BY <1>2, OrderIsOnto
  <2>2. \A i \in 0 + 1 .. Entries : i \in 1 .. Entries
    OBVIOUS
  <2>3. \A i \in 1 .. Entries : i \in 0 + 1 .. Entries
    OBVIOUS
  <2> DEFINE S == { mdir_mstat'[i].id : i \in 0 + 1 .. Entries }
  <2>4. S \subseteq 1 .. Entries
    BY <1>4, <2>2
  <2>5. ASSUME NEW e \in 1 .. Entries PROVE e \in S
    <3>1. PICK i \in 1 .. Entries : p[i] = e
      BY <2>1
    <3>2. i \in 0 + 1 .. Entries /\ mdir_mstat'[i].id = e
      BY <1>4, <2>3, <3>1
    <3>3. QED
      BY <3>2
  <2> HIDE DEF S
  <2>6. S = 1 .. Entries
    BY <2>4, <2>5
  <2>7. QED
    BY <2>6 DEF S
<1>6. Left' = 1 .. Entries
  BY <1>1, <1>2, <1>4, <1>5 DEF Left
<1>7. Stream = "new" /\ Stream' = "open"
  BY <1>1 DEF Stream
<1>8. (1 .. Entries)' = 1 .. Entries /\ Keys' = Keys
  BY <1>1, AbstractKept
<1>9. QED
  BY <1>1, <1>6, <1>7, <1>8 DEF AbstractStream!Open, Keys, Left

\* The next entry of the list is the first by its key of those that are left.
LEMMA ReadingStep ==
  ASSUME IInv, Readmemdir
  PROVE  AbstractStream!Read \/ AbstractStream!ReadEnd
<1>1. /\ pc = "open" /\ pc' = "open" /\ mdir_mstat' = mdir_mstat
      /\ IF AtEnd THEN answer' = 0 /\ UNCHANGED cur
                  ELSE answer' = mdir_mstat[cur + 1].id /\ cur' = cur + 1
      /\ UNCHANGED input
  BY DEF Readmemdir
<1>2. Listed(mdir_mstat, "md") /\ cur \in 0 .. Entries /\ InOrder(mdir_mstat) /\ Entries \in Nat
  BY <1>1, DirectoryIs DEF IInv, ListInv
<1>3. PICK p \in Orders(Entries) : Lists(mdir_mstat, "md", p)
  BY <1>2 DEF Listed
<1>4. Len(mdir_mstat) = Entries /\ \A i \in 1 .. Entries : mdir_mstat[i].id = p[i] /\ p[i] \in 1 .. Entries
  BY <1>3 DEF Lists, Tells, Orders
<1>5. \A i, j \in 1 .. Entries : p[i] = p[j] => i = j
  BY DEF Orders
<1>6. Stream = "open" /\ Stream' = "open"
  BY <1>1 DEF Stream
<1>7. (1 .. Entries)' = 1 .. Entries /\ Keys' = Keys
  BY <1>1, AbstractKept
<1>8. Left = { p[i] : i \in cur + 1 .. Entries }
  BY <1>1, <1>2, <1>4 DEF Left
<1>9. CASE cur = Entries
  <2>1. answer' = 0 /\ cur' = cur
    BY <1>1, <1>4, <1>9 DEF AtEnd
  <2>2. Left = {}
    BY <1>2, <1>8, <1>9
  <2>3. Left' = Left
    BY <1>1, <2>1 DEF Left
  <2>4. AbstractStream!ReadEnd
    BY <1>6, <1>7, <2>1, <2>2, <2>3 DEF AbstractStream!ReadEnd, Keys, Left
  <2>5. QED
    BY <2>4
<1>10. CASE cur # Entries
  <2>1. cur + 1 \in 1 .. Entries /\ cur \in Nat
    BY <1>2, <1>10
  <2>2. answer' = p[cur + 1] /\ cur' = cur + 1
    BY <1>1, <1>4, <1>10, <2>1 DEF AtEnd
  <2>3. p[cur + 1] \in Left
    BY <1>8, <2>1
  <2>4. ASSUME NEW f \in Left PROVE Keys[p[cur + 1]] <= Keys[f]
    <3>1. PICK i \in cur + 1 .. Entries : f = p[i]
      BY <1>8
    <3>2. i \in 1 .. Entries /\ cur + 1 <= i
      BY <2>1, <3>1
    <3>3. Key(mdir_mstat[cur + 1].id) <= Key(mdir_mstat[i].id)
      BY <1>2, <2>1, <3>2 DEF InOrder
    <3>4. Key(p[cur + 1]) <= Key(p[i])
      BY <1>4, <2>1, <3>2, <3>3
    <3>5. QED
      BY <1>4, <2>1, <3>1, <3>2, <3>4 DEF Keys
  <2>5. Left' = Left \ {p[cur + 1]}
    <3>1. Left' = { p[i] : i \in (cur + 1) + 1 .. Entries }
      <4>1. Left' = { mdir_mstat[i].id : i \in (cur + 1) + 1 .. Entries }
        BY <1>1, <1>4, <2>2 DEF Left
      <4>2. \A i \in (cur + 1) + 1 .. Entries : mdir_mstat[i].id = p[i]
        BY <1>4, <2>1
      <4>3. QED
        BY <4>1, <4>2
    <3>2. \A i \in cur + 1 .. Entries : i = cur + 1 \/ i \in (cur + 1) + 1 .. Entries
      BY <2>1
    <3>3. \A i \in (cur + 1) + 1 .. Entries : i \in cur + 1 .. Entries /\ p[i] # p[cur + 1]
      BY <1>5, <2>1
    <3>4. QED
      BY <1>8, <3>1, <3>2, <3>3
  <2>6. \E e \in Left : /\ \A f \in Left : Keys[e] <= Keys[f]
                        /\ answer' = e
                        /\ Left' = Left \ {e}
    BY <2>2, <2>3, <2>4, <2>5
  <2>7. AbstractStream!Read
    BY <1>6, <1>7, <2>6 DEF AbstractStream!Read, Keys, Left
  <2>8. QED
    BY <2>7
<1>11. QED
  BY <1>9, <1>10

LEMMA ClosingStep ==
  ASSUME IInv, Closememdir
  PROVE  AbstractStream!Close
<1>1. pc = "open" /\ pc' = "closed" /\ UNCHANGED <<input, answer>>
  BY DEF Closememdir
<1>2. Stream = "open" /\ Stream' = "closed" /\ Left' = {}
  BY <1>1 DEF Stream, Left
<1>3. (1 .. Entries)' = 1 .. Entries /\ Keys' = Keys
  BY <1>1, AbstractKept
<1>4. QED
  BY <1>1, <1>2, <1>3 DEF AbstractStream!Close, Keys, Left

LEMMA AbstractStutter ==
  ASSUME UNCHANGED vars
  PROVE  UNCHANGED AbstractStream!vars
<1>1. UNCHANGED <<input, pc, mdir_mstat, cur, answer>>
  BY DEF vars
<1>2. Stream' = Stream /\ Left' = Left
  BY <1>1 DEF Stream, Left
<1>3. (1 .. Entries)' = 1 .. Entries /\ Keys' = Keys
  BY <1>1, AbstractKept
<1>4. QED
  BY <1>1, <1>2, <1>3 DEF AbstractStream!vars, Keys, Left

\* Every step is one of the stream, or none that it shows.
LEMMA AbstractNext ==
  ASSUME IInv, [Next]_vars
  PROVE  [AbstractStream!Next]_AbstractStream!vars
<1>1. CASE OpenFails \/ NoEntries \/ NoStorageToDecode \/ NameIsNull \/ NoStorageForList
  <2>1. UNCHANGED <<input, answer>> /\ pc \in {"new", "decode", "sort", "dup", "sort again"}
        /\ pc' \in {"failed", "undefined"}
    BY <1>1 DEF OpenFails, NoEntries, NoStorageToDecode, NameIsNull, NoStorageForList
  <2>2. AbstractStream!OpenFails
    BY <2>1, FailingStep
  <2>3. QED
    BY <2>2 DEF AbstractStream!Next
<1>2. CASE OpenPdsAndDeserv \/ WalkDesb \/ DecodeDone \/ SortByMember \/ CopyMstats
  <2>1. UNCHANGED <<input, answer>> /\ pc \in {"new", "decode", "sort", "dup", "sort again"}
        /\ pc' \in {"new", "decode", "sort", "dup", "sort again"}
    BY <1>2 DEF OpenPdsAndDeserv, WalkDesb, DecodeDone, SortByMember, CopyMstats
  <2>2. QED
    BY <2>1, HiddenStep
<1>3. CASE SortAgain
  BY <1>3, OpeningStep DEF AbstractStream!Next
<1>4. CASE Readmemdir
  BY <1>4, ReadingStep DEF AbstractStream!Next
<1>5. CASE Closememdir
  BY <1>5, ClosingStep DEF AbstractStream!Next
<1>6. CASE UNCHANGED vars
  BY <1>6, AbstractStutter
<1>7. QED
  BY <1>1, <1>2, <1>3, <1>4, <1>5, <1>6 DEF Next, Ended

------------------------------------------------------------------------------
(* Theorems                                                                 *)

\* The invariant is inductive: the array and the list always have each entry of the
\* directory once, with strings made for them alone.
THEOREM Inductive == Spec => []IInv
BY InitIInv, NextIInv, PTL DEF Spec

\* No string is used that is not allocated, the list shares none with the array that
\* was freed and none of its entries shares one with another, and closememdir
\* frees them all: mstat_to_mdir duplicates what free_mstat frees.
THEOREM StringsAreOwned == Spec => []StringsOwnedOnce
<1>1. IInv => StringsOwnedOnce
  <2> SUFFICES ASSUME IInv PROVE StringsOwnedOnce
    OBVIOUS
  <2>1. Strings(de_mstat) \cup Strings(mdir_mstat) \subseteq heap
    BY StringsHeld
  <2>2. ASSUME pc = "open"
        PROVE  /\ heap = Strings(mdir_mstat)
               /\ Cardinality(heap) =
                    Cardinality({ x \in (DOMAIN mdir_mstat) \X Fields :
                                    mdir_mstat[x[1]].str[x[2]] # Null })
    <3>1. heap = Strings(mdir_mstat) /\ TypeInv
      BY <2>2 DEF IInv, ListInv
    <3>2. PICK p : Lists(mdir_mstat, "md", p)
      BY <2>2 DEF IInv, ListInv, Listed
    <3>3. QED
      BY <3>1, <3>2, StringsCounted
  <2>3. pc = "closed" => heap = {}
    BY DEF IInv, EndInv
  <2>4. QED
    BY <2>1, <2>2, <2>3 DEF StringsOwnedOnce
<1>2. QED
  BY <1>1, Inductive, PTL

\* openmemdir has a list only for a directory that is not empty and where every
\* alias tells its member; it runs into NULL pointers only for the others, or without
\* storage.
THEOREM ListsAreKnown == Spec => []ListsWhatItCan
<1>1. IInv => ListsWhatItCan
  BY DEF IInv, ListInv, EndInv, AllNamed, ListsWhatItCan
<1>2. QED
  BY <1>1, Inductive, PTL

\* For every directory, however its entries are spread over buffers, and every order
\* that qsort may choose among equals: readmemdir answers each entry once, in the order
\* asked for, then the end.
THEOREM StreamIsImplemented == Spec => ImplementsDirStream
<1>1. Init => AbstractStream!Init
  BY AbstractInit
<1>2. IInv /\ [Next]_vars => [AbstractStream!Next]_AbstractStream!vars
  BY AbstractNext
<1>3. QED
  BY <1>1, <1>2, Inductive, PTL DEF Spec, ImplementsDirStream, AbstractStream!Spec
=============================================================================
