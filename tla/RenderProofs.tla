---------------------------- MODULE RenderProofs ----------------------------
(***************************************************************************)
(* Proofs about Render, for a screen, tiles and a sprite limit of any      *)
(* size, any picture in video memory and any program.                      *)
(*                                                                         *)
(* The scan of OAM and the drawing of the sprites are loops, which Render  *)
(* writes as recursive functions.  Recursion shows that such a function    *)
(* exists, SetInduction proves what its values have in common.             *)
(***************************************************************************)
EXTENDS Render, FiniteSetTheorems, SequenceTheorems, WellFoundedInduction, TLAPS

-----------------------------------------------------------------------------
(* Induction and recursion.                                                 *)

(* The pairs of numbers of which the first is smaller.                      *)
Smaller == OpToRel(<, Nat)

LEMMA SmallerWellFounded ==
  /\ IsWellFoundedOn(Smaller, Nat)
  /\ \A m, n \in Nat : m < n => <<m, n>> \in Smaller
  BY NatLessThanWellFounded, Zenon DEF Smaller, OpToRel

(* Induction over the natural numbers, for a set of them.                   *)
LEMMA SetInduction ==
  ASSUME NEW T \in SUBSET Nat, 0 \in T, \A k \in T : k + 1 \in T
  PROVE  T = Nat
PROOF
  <1> DEFINE U == Nat \ T
  <1> SUFFICES ASSUME U # {} PROVE FALSE
    OBVIOUS
  <1>1. PICK x \in U : \A y \in U : ~(<<y, x>> \in Smaller)
    <2>1. U \subseteq Nat /\ IsWellFoundedOn(Smaller, Nat)
      BY SmallerWellFounded
    <2> HIDE DEF U
    <2>2. \E x \in U : \A y \in U : ~(<<y, x>> \in Smaller)
      BY <2>1, WFMin
    <2> QED
      BY <2>2
  <1>2. x - 1 \in Nat /\ x = (x - 1) + 1 /\ x - 1 < x
    BY <1>1
  <1>3. x - 1 \in T
    BY <1>1, <1>2, SmallerWellFounded
  <1> QED
    BY <1>1, <1>2, <1>3

(* A loop that begins with a and whose k-th round turns v into next[k, v].  *)
IsLoop(f, N, a, next) ==
  /\ DOMAIN f = 0 .. N
  /\ f[0] = a
  /\ \A k \in 1 .. N : f[k] = next[<<k, f[k - 1]>>]

LEMMA Recursion ==
  ASSUME NEW N \in Nat, NEW S, NEW a \in S, NEW next \in [(1 .. N) \X S -> S]
  PROVE  \E f \in [0 .. N -> S] : IsLoop(f, N, a, next)
PROOF
  <1> DEFINE Has(n) == \E f \in [0 .. n -> S] : IsLoop(f, n, a, next)
             T == {n \in Nat : n <= N => Has(n)}
  <1>1. 0 \in T
    <2> DEFINE f == [k \in 0 .. 0 |-> a]
    <2>1. f \in [0 .. 0 -> S] /\ IsLoop(f, 0, a, next)
      BY DEF IsLoop
    <2> QED
      BY <2>1
  <1>2. ASSUME NEW n \in T PROVE n + 1 \in T
    <2> SUFFICES ASSUME n + 1 <= N PROVE Has(n + 1)
      OBVIOUS
    <2>1. PICK f \in [0 .. n -> S] : IsLoop(f, n, a, next)
      BY <1>2
    <2> DEFINE last == next[<<n + 1, f[n]>>]
               g == [k \in 0 .. n + 1 |-> IF k = n + 1 THEN last ELSE f[k]]
    <2>2. last \in S
      <3>1. <<n + 1, f[n]>> \in (1 .. N) \X S
        OBVIOUS
      <3> QED
        BY <3>1
    <2>3. g \in [0 .. n + 1 -> S]
      BY <2>2
    <2>4. g[0] = a
      BY <2>1 DEF IsLoop
    <2>5. ASSUME NEW k \in 1 .. n + 1 PROVE g[k] = next[<<k, g[k - 1]>>]
      <3>1. CASE k = n + 1
        <4>1. k - 1 = n /\ n \in 0 .. n + 1 /\ n # n + 1
          BY <3>1
        <4>2. g[k] = last /\ g[k - 1] = f[n]
          BY <3>1, <4>1
        <4> QED
          BY <3>1, <4>2
      <3>2. CASE k \in 1 .. n
        BY <2>1, <3>2 DEF IsLoop
      <3> QED
        BY <3>1, <3>2
    <2> QED
      BY <2>3, <2>4, <2>5 DEF IsLoop
  <1> HIDE DEF Has
  <1>3. T = Nat
    <2>1. T \in SUBSET Nat
      OBVIOUS
    <2> HIDE DEF T
    <2> QED
      BY <1>1, <1>2, <2>1, SetInduction
  <1> QED
    BY <1>3 DEF Has

(* What holds before the first round and is kept by each holds after all.   *)
LEMMA LoopInduction ==
  ASSUME NEW N \in Nat, NEW T \in SUBSET (0 .. N), 0 \in T,
         \A k \in 1 .. N : k - 1 \in T => k \in T
  PROVE  T = 0 .. N
PROOF
  <1> DEFINE U == {n \in Nat : n <= N => n \in T}
  <1>1. U \in SUBSET Nat /\ 0 \in U
    OBVIOUS
  <1>2. ASSUME NEW k \in U PROVE k + 1 \in U
    <2>1. k + 1 <= N => k + 1 \in 1 .. N /\ (k + 1) - 1 = k /\ k <= N
      OBVIOUS
    <2> QED
      BY <2>1
  <1>3. U = Nat
    <2> HIDE DEF U
    <2> QED
      BY <1>1, <1>2, SetInduction
  <1>4. ASSUME NEW n \in 0 .. N PROVE n \in T
    <2>1. n \in U /\ n <= N
      BY <1>3
    <2> QED
      BY <2>1
  <1> QED
    BY <1>4
-----------------------------------------------------------------------------
(* The scan of OAM.                                                         *)

(* What get_sprites makes of an entry of OAM. *)
Sprite ==
  [y : Int, x : Int, tile_id : 0 .. Tiles - 1, behind : BOOLEAN,
   flip_y : BOOLEAN, flip_x : BOOLEAN, palette : {"obp0", "obp1"}, slot : 1 .. Slots]

OamOK == oam \in [1 .. Slots -> Entries]

LEMMA SpriteTyped ==
  ASSUME OamOK, NEW i \in 1 .. Slots
  PROVE  SpriteOf(i) \in Sprite /\ SpriteOf(i).slot = i
PROOF
  <1>1. oam[i] \in Entries
    BY DEF OamOK
  <1>2. oam[i].y - 2 * TileSize \in Int /\ oam[i].x - TileSize \in Int
    BY <1>1, SizeAssumption DEF Entries
  <1> QED
    BY <1>1, <1>2 DEF SpriteOf, Sprite, Entries

(* A round of the scan. *)
Found(n, k, before) ==
  IF Len(before) < SpriteLimit /\ OnLine(SpriteOf(k), n)
  THEN Append(before, SpriteOf(k)) ELSE before

LEMMA FoundTyped ==
  ASSUME OamOK, NEW n, NEW k \in 1 .. Slots, NEW before \in Seq(Sprite)
  PROVE  Found(n, k, before) \in Seq(Sprite)
  BY SpriteTyped, AppendProperties DEF Found

LEMMA ScanLoop ==
  ASSUME OamOK, NEW n
  PROVE  /\ Scan(n) \in [0 .. Slots -> Seq(Sprite)]
         /\ Scan(n)[0] = <<>>
         /\ \A k \in 1 .. Slots : Scan(n)[k] = Found(n, k, Scan(n)[k - 1])
PROOF
  <1> DEFINE next == [p \in (1 .. Slots) \X Seq(Sprite) |-> Found(n, p[1], p[2])]
             Body(f) == [k \in 0 .. Slots |-> IF k = 0 THEN <<>> ELSE Found(n, k, f[k - 1])]
  <1>1. Slots \in Nat /\ <<>> \in Seq(Sprite)
    BY SizeAssumption, EmptySeq
  <1>2. next \in [(1 .. Slots) \X Seq(Sprite) -> Seq(Sprite)]
    BY FoundTyped
  <1>3. PICK f \in [0 .. Slots -> Seq(Sprite)] : IsLoop(f, Slots, <<>>, next)
    <2> HIDE DEF next
    <2> QED
      BY <1>1, <1>2, Recursion
  <1>4. ASSUME NEW k \in 1 .. Slots PROVE f[k] = Found(n, k, f[k - 1])
    <2>1. f[k] = next[<<k, f[k - 1]>>] /\ k - 1 \in 0 .. Slots
      <3> HIDE DEF next, Body
      <3> QED
        BY <1>1, <1>3 DEF IsLoop
    <2>2. <<k, f[k - 1]>> \in (1 .. Slots) \X Seq(Sprite)
      BY <2>1
    <2> QED
      BY <2>1, <2>2
  <1>5. f = Body(f)
    <2>1. ASSUME NEW k \in 0 .. Slots PROVE f[k] = Body(f)[k]
      BY <1>1, <1>3, <1>4 DEF IsLoop
    <2> QED
      BY <2>1
  <1>6. Scan(n) = CHOOSE g : g = Body(g)
    BY Zenon DEF Scan, Found
  <1>7. Scan(n) = Body(Scan(n))
    <2> HIDE DEF Body
    <2> QED
      BY <1>5, <1>6
  <1> HIDE DEF next
  <1> DEFINE g == Scan(n)
  <1>8. /\ DOMAIN g = 0 .. Slots
        /\ g = [k \in 0 .. Slots |-> g[k]]
        /\ g[0] = <<>>
        /\ \A k \in 1 .. Slots : g[k] = Found(n, k, g[k - 1])
    <2> HIDE DEF g
    <2>1. g = Body(g)
      BY <1>7 DEF g
    <2>2. 0 \in 0 .. Slots /\ \A k \in 1 .. Slots : k \in 0 .. Slots /\ k # 0
      BY <1>1
    <2> QED
      BY <2>1, <2>2
  <1>9. \A k \in 0 .. Slots : g[k] \in Seq(Sprite)
    <2> HIDE DEF g, Body
    <2> DEFINE T == {k \in 0 .. Slots : g[k] \in Seq(Sprite)}
    <2>1. 0 \in T
      <3>1. g[0] \in Seq(Sprite)
        BY <1>1, <1>8, Zenon
      <3> QED
        BY <1>1, <3>1
    <2>2. ASSUME NEW k \in 1 .. Slots, k - 1 \in T PROVE k \in T
      <3>1. g[k] = Found(n, k, g[k - 1])
        BY <1>8
      <3>2. g[k - 1] \in Seq(Sprite)
        BY <2>2
      <3>3. g[k] \in Seq(Sprite)
        BY <3>1, <3>2, FoundTyped
      <3> QED
        BY <1>1, <3>3
    <2>3. T = 0 .. Slots
      <3> HIDE DEF T
      <3>1. T \in SUBSET (0 .. Slots)
        BY DEF T
      <3> QED
        BY <1>1, <2>1, <2>2, <3>1, LoopInduction
    <2> QED
      BY <2>3
  <1> QED
    BY <1>8, <1>9
-----------------------------------------------------------------------------
(* The stable sort.                                                         *)

(* Entry j does not come after entry i. *)
UpTo(s, j, i) == s[j].x < s[i].x \/ (s[j].x = s[i].x /\ j <= i)

LEMMA SpritesOf ==
  ASSUME NEW s \in Seq(Sprite)
  PROVE  /\ Len(s) \in Nat /\ DOMAIN s = 1 .. Len(s)
         /\ \A i \in 1 .. Len(s) : s[i] \in Sprite /\ s[i].x \in Int
PROOF
  <1>1. Len(s) \in Nat /\ DOMAIN s = 1 .. Len(s) /\ \A i \in 1 .. Len(s) : s[i] \in Sprite
    BY LenProperties, ElementOfSeq
  <1> QED
    BY <1>1 DEF Sprite

LEMMA RankIsCount ==
  ASSUME NEW s \in Seq(Sprite), NEW i \in 1 .. Len(s)
  PROVE  /\ Rank(s, i) = Cardinality({j \in 1 .. Len(s) : UpTo(s, j, i)})
         /\ IsFiniteSet({j \in 1 .. Len(s) : UpTo(s, j, i)})
         /\ Rank(s, i) \in 1 .. Len(s)
PROOF
  <1> DEFINE S == {j \in 1 .. Len(s) : UpTo(s, j, i)}
  <1>1. Len(s) \in Nat /\ DOMAIN s = 1 .. Len(s) /\ s[i].x \in Int
    BY SpritesOf
  <1>2. Rank(s, i) = Cardinality(S)
    BY <1>1, Zenon DEF Rank, UpTo
  <1>3. IsFiniteSet(1 .. Len(s)) /\ Cardinality(1 .. Len(s)) = Len(s)
    BY <1>1, FS_Interval
  <1>4. IsFiniteSet(S) /\ Cardinality(S) <= Len(s)
    BY <1>3, FS_Subset
  <1>5. Cardinality(S) \in Nat
    BY <1>4, FS_CardinalityType
  <1>6. i \in S
    BY <1>1 DEF UpTo
  <1>7. Cardinality(S) # 0
    <2> HIDE DEF S
    <2> QED
      BY <1>4, <1>6, FS_EmptySet
  <1> QED
    BY <1>1, <1>2, <1>4, <1>5, <1>7

(* An entry that comes after another one has the greater rank.              *)
LEMMA RankGrows ==
  ASSUME NEW s \in Seq(Sprite), NEW i \in 1 .. Len(s), NEW j \in 1 .. Len(s),
         i # j, UpTo(s, i, j)
  PROVE  Rank(s, i) < Rank(s, j)
PROOF
  <1> DEFINE S(k) == {l \in 1 .. Len(s) : UpTo(s, l, k)}
  <1>1. Len(s) \in Nat /\ \A l \in 1 .. Len(s) : s[l].x \in Int
    BY SpritesOf
  <1>2. S(i) \subseteq S(j)
    BY <1>1 DEF UpTo
  <1>3. j \in S(j) /\ j \notin S(i)
    BY <1>1 DEF UpTo
  <1>4. /\ IsFiniteSet(S(j))
        /\ Rank(s, i) = Cardinality(S(i)) /\ Rank(s, j) = Cardinality(S(j))
        /\ Rank(s, i) \in Nat /\ Rank(s, j) \in Nat
    <2>1. Rank(s, i) = Cardinality(S(i)) /\ Rank(s, i) \in 1 .. Len(s)
      BY RankIsCount, Zenon
    <2>2. /\ Rank(s, j) = Cardinality(S(j)) /\ Rank(s, j) \in 1 .. Len(s)
          /\ IsFiniteSet(S(j))
      BY RankIsCount, Zenon
    <2> HIDE DEF S
    <2> QED
      BY <1>1, <2>1, <2>2
  <1> HIDE DEF S
  <1>5. Cardinality(S(i)) <= Cardinality(S(j)) /\ Cardinality(S(i)) # Cardinality(S(j))
    BY <1>2, <1>3, <1>4, FS_Subset
  <1> QED
    BY <1>4, <1>5

(* The ranks are the places of the sequence, one for each entry. *)
LEMMA RanksArePlaces ==
  ASSUME NEW s \in Seq(Sprite)
  PROVE  /\ \A i, j \in 1 .. Len(s) : Rank(s, i) = Rank(s, j) => i = j
         /\ \A n \in 1 .. Len(s) : \E i \in 1 .. Len(s) : Rank(s, i) = n
PROOF
  <1> DEFINE N == 1 .. Len(s)
             f == [i \in N |-> Rank(s, i)]
  <1>1. Len(s) \in Nat /\ \A l \in N : s[l].x \in Int
    BY SpritesOf
  <1>2. \A i \in N : Rank(s, i) \in N
    BY RankIsCount
  <1>3. ASSUME NEW i \in N, NEW j \in N, i # j PROVE Rank(s, i) # Rank(s, j)
    <2>1. UpTo(s, i, j) \/ UpTo(s, j, i)
      BY <1>1 DEF UpTo
    <2>2. Rank(s, i) < Rank(s, j) \/ Rank(s, j) < Rank(s, i)
      BY <1>3, <2>1, RankGrows
    <2> QED
      BY <1>1, <1>2, <2>2
  <1>4. f \in Injection(N, N)
    BY <1>2, <1>3 DEF Injection, IsInjective
  <1>5. IsFiniteSet(N)
    BY <1>1, FS_Interval
  <1>6. f \in Surjection(N, N)
    <2> HIDE DEF f, N
    <2> QED
      BY <1>4, <1>5, FS_Injection
  <1>7. \A n \in N : \E i \in N : f[i] = n
    BY <1>6, Zenon DEF Surjection
  <1> QED
    BY <1>3, <1>7

(* The entry that the sort puts in place n. *)
Place(s, n) == CHOOSE i \in DOMAIN s : Rank(s, i) = n

(* The sort keeps the sprites and puts each after those it ranks behind.    *)
LEMMA Sorted ==
  ASSUME NEW s \in Seq(Sprite)
  PROVE  \E p \in [1 .. Len(s) -> 1 .. Len(s)] :
           /\ stable_sort(s) \in Seq(Sprite)
           /\ Len(stable_sort(s)) = Len(s)
           /\ \A n \in 1 .. Len(s) : stable_sort(s)[n] = s[p[n]]
           /\ \A i \in 1 .. Len(s) : \E n \in 1 .. Len(s) : p[n] = i
           /\ \A m, n \in 1 .. Len(s) : m < n =>
                \/ s[p[m]].x < s[p[n]].x
                \/ s[p[m]].x = s[p[n]].x /\ p[m] < p[n]
PROOF
  <1> DEFINE N == 1 .. Len(s)
             p == [n \in N |-> Place(s, n)]
             t == stable_sort(s)
  <1>1. Len(s) \in Nat /\ DOMAIN s = N /\ \A l \in N : s[l] \in Sprite /\ s[l].x \in Int
    BY SpritesOf
  <1>2. ASSUME NEW n \in N PROVE p[n] \in N /\ Rank(s, p[n]) = n
    <2>1. \E i \in DOMAIN s : Rank(s, i) = n
      BY <1>1, RanksArePlaces
    <2>2. Place(s, n) \in DOMAIN s /\ Rank(s, Place(s, n)) = n
      BY <2>1 DEF Place
    <2> QED
      BY <1>1, <2>2
  <1>3. t = [n \in N |-> s[p[n]]]
    <2>1. t = [n \in DOMAIN s |-> s[Place(s, n)]]
      BY DEF stable_sort, Place
    <2> QED
      BY <1>1, <2>1
  <1>4. \A i \in N : Rank(s, i) \in N
    BY RankIsCount
  <1>5. p \in [N -> N]
    BY <1>2
  <1> HIDE DEF p
  <1>6. t \in Seq(Sprite) /\ Len(t) = Len(s)
    <2>1. t \in [1 .. Len(s) -> Sprite]
      BY <1>1, <1>2, <1>3
    <2> HIDE DEF t
    <2> QED
      BY <1>1, <2>1, SeqDef, LenProperties
  <1>7. ASSUME NEW i \in N PROVE \E n \in N : p[n] = i
    <2>1. Rank(s, i) \in N
      BY <1>4
    <2>2. p[Rank(s, i)] \in N /\ Rank(s, p[Rank(s, i)]) = Rank(s, i)
      BY <1>2, <2>1
    <2>3. p[Rank(s, i)] = i
      BY <2>2, RanksArePlaces
    <2> QED
      BY <2>1, <2>3
  <1>8. ASSUME NEW m \in N, NEW n \in N, m < n
        PROVE  s[p[m]].x < s[p[n]].x \/ (s[p[m]].x = s[p[n]].x /\ p[m] < p[n])
    <2>1. /\ p[m] \in N /\ p[n] \in N
          /\ Rank(s, p[m]) = m /\ Rank(s, p[n]) = n
      BY <1>2
    <2>2. p[m] # p[n]
      BY <1>8, <2>1
    <2>3. ~UpTo(s, p[n], p[m])
      <3> SUFFICES ASSUME UpTo(s, p[n], p[m]) PROVE FALSE
        OBVIOUS
      <3>1. Rank(s, p[n]) < Rank(s, p[m])
        BY <2>1, <2>2, RankGrows
      <3> QED
        BY <1>8, <2>1, <3>1
    <2> QED
      BY <1>1, <2>1, <2>2, <2>3 DEF UpTo
  <1> QED
    BY <1>3, <1>5, <1>6, <1>7, <1>8
-----------------------------------------------------------------------------
(* Every look-up in the tile maps and in the tile data is of one they have. *)

Pixels == {"bgp", "obp0", "obp1"} \X (0 .. 3)
Row    == [Columns -> Pixels]

LEMMA PositionInMap ==
  ASSUME NEW M \in Nat \ {0}, NEW T \in Nat \ {0}, NEW x \in 0 .. M * T - 1
  PROVE  x \div T \in 0 .. M - 1 /\ x % T \in 0 .. T - 1
PROOF
  <1> DEFINE q == x \div T
             r == x % T
  <1>1. M * T \in Nat /\ x \in Nat
    OBVIOUS
  <1>2. q \in Int /\ r \in 0 .. T - 1 /\ x = T * q + r
    BY <1>1
  <1> HIDE DEF q, r
  <1>3. q >= 0
    <2> SUFFICES ASSUME q <= -1 PROVE FALSE
      BY <1>2
    <2>1. T * q <= T * (-1)
      BY <1>2
    <2> QED
      BY <1>1, <1>2, <2>1
  <1>4. q < M
    <2> SUFFICES ASSUME q >= M PROVE FALSE
      BY <1>2
    <2>1. T * q >= T * M
      BY <1>2
    <2> QED
      BY <1>1, <1>2, <2>1
  <1> QED
    BY <1>2, <1>3, <1>4 DEF q, r

LEMMA AroundTiles ==
  /\ Around \in Nat \ {0}
  /\ \A x \in Int : x % Around \in 0 .. Around - 1
PROOF
  <1>1. MapSize * TileSize \in Nat \ {0}
    BY SizeAssumption
  <1> QED
    BY <1>1 DEF Around

LEMMA ColorInTyped ==
  ASSUME io \in Registers, NEW map \in BOOLEAN,
         NEW x \in 0 .. Around - 1, NEW y \in 0 .. Around - 1
  PROVE  ColorIn(map, x, y) \in 0 .. 3
PROOF
  <1> DEFINE id == TileMaps[map][<<x \div TileSize, y \div TileSize>>]
             pixel == <<x % TileSize, y % TileSize>>
  <1>1. /\ x \div TileSize \in 0 .. MapSize - 1 /\ x % TileSize \in Numbers
        /\ y \div TileSize \in 0 .. MapSize - 1 /\ y % TileSize \in Numbers
    BY SizeAssumption, PositionInMap DEF Around, Numbers
  <1>2. id \in 0 .. Tiles - 1 /\ pixel \in Numbers \X Numbers
    BY <1>1, PictureAssumption
  <1> HIDE DEF id, pixel
  <1>3. TileFor(id) \in 0 .. Tiles + (Tiles \div 2) - 1
    BY <1>2, SizeAssumption DEF TileFor
  <1>4. TileData[TileFor(id)][pixel] \in 0 .. 3
    BY <1>2, <1>3, PictureAssumption
  <1> QED
    BY <1>4 DEF ColorIn, id, pixel

(* While a line is drawn the registers and the counters are in range.       *)
Drawing ==
  /\ io \in Registers
  /\ ly \in 0 .. Lines - 1
  /\ window_line \in 0 .. ly

LEMMA BackgroundTyped ==
  ASSUME Drawing, NEW i \in Columns
  PROVE  Background(i) \in 0 .. 3
PROOF
  <1>1. io.scx + i \in Int /\ io.scy + ly \in Int /\ io.bg_map \in BOOLEAN
    BY SizeAssumption DEF Drawing, Registers, Columns
  <1>2. (io.scx + i) % Around \in 0 .. Around - 1 /\ (io.scy + ly) % Around \in 0 .. Around - 1
    BY <1>1, AroundTiles
  <1> QED
    BY <1>1, <1>2, ColorInTyped DEF Background, Drawing

LEMMA WindowTyped ==
  ASSUME Drawing, NEW i \in Columns, WindowHere(i)
  PROVE  Window(i) \in 0 .. 3
PROOF
  <1>1. io.wx \in Nat /\ io.win_map \in BOOLEAN
    BY DEF Drawing, Registers
  <1>2. i - wx_start \in 0 .. Around - 1
    <2>1. i - wx_start <= Width + TileSize - 1 /\ i - wx_start >= 0 /\ i - wx_start \in Int
      BY <1>1, SizeAssumption DEF WindowHere, wx_start, Columns
    <2>2. Width + TileSize <= Around /\ Around \in Nat
      BY SizeAssumption, AroundTiles DEF Around
    <2>3. i - wx_start <= Width + TileSize - 2
      BY <1>1, SizeAssumption DEF wx_start, Columns
    <2> QED
      BY <2>1, <2>2, <2>3, SizeAssumption
  <1>3. window_line \in 0 .. Around - 1
    <2>1. Lines <= Around /\ Around \in Nat
      BY SizeAssumption, AroundTiles DEF Around
    <2> QED
      BY <2>1, SizeAssumption DEF Drawing
  <1> QED
    BY <1>1, <1>2, <1>3, ColorInTyped DEF Window, Drawing

LEMMA BackdropTyped ==
  ASSUME Drawing, screen \in [0 .. Lines - 1 -> Row]
  PROVE  /\ bg_scanline \in [Columns -> 0 .. 3]
         /\ Backdrop \in Row
PROOF
  <1>1. ASSUME NEW i \in Columns PROVE bg_scanline[i] \in 0 .. 3
    <2>1. CASE WindowHere(i)
      BY <2>1, WindowTyped DEF bg_scanline
    <2>2. CASE ~WindowHere(i)
      BY <2>2, BackgroundTyped DEF bg_scanline
    <2> QED
      BY <2>1, <2>2
  <1>2. bg_scanline \in [Columns -> 0 .. 3]
    <2>1. bg_scanline = [i \in Columns |-> bg_scanline[i]]
      BY DEF bg_scanline
    <2> QED
      BY <1>1, <2>1
  <1>3. ASSUME NEW i \in Columns PROVE Backdrop[i] \in Pixels
    <2>1. <<"bgp", bg_scanline[i]>> \in Pixels
      BY <1>1 DEF Pixels
    <2>2. screen[ly][i] \in Pixels
      BY DEF Drawing, Row
    <2> QED
      BY <2>1, <2>2 DEF Backdrop
  <1>4. Backdrop \in Row
    <2>1. Backdrop = [i \in Columns |-> Backdrop[i]]
      BY DEF Backdrop
    <2> QED
      BY <1>3, <2>1 DEF Row
  <1> QED
    BY <1>2, <1>4

LEMMA RowInside ==
  ASSUME io \in Registers, ly \in Int, NEW s \in Sprite, RowFits(s)
  PROVE  RowInTile(s) \in Numbers /\ TileUnder(s) \in 0 .. Tiles - 1
PROOF
  <1>1. /\ s.y \in Int /\ s.flip_y \in BOOLEAN /\ io.tall \in BOOLEAN
        /\ s.tile_id \in 0 .. Tiles - 1
    BY DEF Sprite, Registers
  <1>2. RowOf(s) \in Int /\ RowOf(s) >= 0 /\ RowOf(s) < sprite_height
    BY <1>1, SizeAssumption DEF RowFits, RowOf, sprite_height
  <1>3. RowInTile(s) \in Numbers
    BY <1>1, <1>2, SizeAssumption DEF RowInTile, Numbers, sprite_height
  <1>4. TileUnder(s) \in 0 .. Tiles - 1
    BY <1>1, SizeAssumption DEF TileUnder
  <1> QED
    BY <1>3, <1>4

LEMMA ColorOfTyped ==
  ASSUME io \in Registers, ly \in Int, NEW s \in Sprite, RowFits(s), NEW j \in Numbers
  PROVE  ColorOf(s, j) \in 0 .. 3
PROOF
  <1> DEFINE column == IF s.flip_x THEN TileSize - 1 - j ELSE j
  <1>1. column \in Numbers
    BY SizeAssumption DEF Numbers
  <1>2. RowInTile(s) \in Numbers /\ TileUnder(s) \in 0 .. Tiles - 1
    BY RowInside
  <1>3. TileUnder(s) \in 0 .. Tiles + (Tiles \div 2) - 1
    BY <1>2, SizeAssumption
  <1> HIDE DEF column
  <1>4. TileData[TileUnder(s)][<<column, RowInTile(s)>>] \in 0 .. 3
    BY <1>1, <1>2, <1>3, PictureAssumption
  <1> QED
    BY <1>4 DEF ColorOf, column

(* The picture of a sprite as a sequence has as many rows as the sprite is  *)
(* high, and its k-th row is the one that render_scanline computes for it.  *)
LEMMA PictureTyped ==
  ASSUME io \in Registers, NEW s \in Sprite
  PROVE  /\ DOMAIN PictureRows(s) = 1 .. sprite_height
         /\ \A k \in 1 .. sprite_height :
              LET row  == IF s.flip_y THEN sprite_height - k ELSE k - 1
                  even == 2 * (s.tile_id \div 2)
              IN  PictureRows(s)[k] = IF ~io.tall THEN <<s.tile_id, row>>
                                      ELSE IF row < TileSize THEN <<even, row>>
                                      ELSE <<even + 1, row - TileSize>>
PROOF
  <1> DEFINE even == 2 * (s.tile_id \div 2)
  <1>1. TileSize \in Nat \ {0} /\ io.tall \in BOOLEAN /\ s.flip_y \in BOOLEAN
    BY SizeAssumption DEF Registers, Sprite
  <1>2. ASSUME NEW t
        PROVE  /\ TileRows(t) \in Seq({t} \X Int) /\ Len(TileRows(t)) = TileSize
               /\ \A k \in 1 .. TileSize : TileRows(t)[k] = <<t, k - 1>>
    <2>1. TileRows(t) \in [1 .. TileSize -> {t} \X Int]
      BY <1>1 DEF TileRows
    <2> QED
      BY <1>1, <2>1, LenProperties DEF TileRows
  <1>3. /\ Len(Stack(s)) = sprite_height /\ DOMAIN Stack(s) = 1 .. sprite_height
        /\ \A k \in 1 .. sprite_height :
             Stack(s)[k] = IF ~io.tall THEN <<s.tile_id, k - 1>>
                           ELSE IF k - 1 < TileSize THEN <<even, k - 1>>
                           ELSE <<even + 1, k - 1 - TileSize>>
    <2> HIDE DEF even
    <2>1. CASE ~io.tall
      BY <1>1, <1>2, <2>1 DEF Stack, sprite_height, TileRows
    <2>2. CASE io.tall
      <3> DEFINE S == ({even} \cup {even + 1}) \X Int
                 upper == TileRows(even)
                 lower == TileRows(even + 1)
      <3>1. upper \in Seq(S) /\ lower \in Seq(S)
        BY <1>1, <1>2 DEF TileRows
      <3>2. Stack(s) = upper \o lower
        BY <2>2 DEF Stack, even
      <3>3. Len(upper) = TileSize /\ Len(lower) = TileSize
        BY <1>2
      <3>4. /\ \A k \in 1 .. TileSize : upper[k] = <<even, k - 1>>
            /\ \A k \in 1 .. TileSize : lower[k] = <<even + 1, k - 1>>
        BY <1>2
      <3> HIDE DEF S, upper, lower
      <3>5. /\ Len(Stack(s)) = TileSize + TileSize
            /\ DOMAIN Stack(s) = 1 .. TileSize + TileSize
            /\ \A k \in 1 .. TileSize + TileSize :
                 Stack(s)[k] = IF k <= TileSize THEN upper[k] ELSE lower[k - TileSize]
        <4>1. /\ Len(Stack(s)) = Len(upper) + Len(lower)
              /\ \A k \in 1 .. Len(upper) + Len(lower) :
                   Stack(s)[k] = IF k <= Len(upper) THEN upper[k] ELSE lower[k - Len(upper)]
              /\ Stack(s) \in Seq(S)
          BY <3>1, <3>2, ConcatProperties
        <4>2. DOMAIN Stack(s) = 1 .. Len(Stack(s))
          BY <4>1, LenProperties
        <4> QED
          BY <3>3, <4>1, <4>2
      <3>6. sprite_height = TileSize + TileSize
        BY <1>1, <2>2 DEF sprite_height
      <3>7. ASSUME NEW k \in 1 .. TileSize + TileSize
            PROVE  Stack(s)[k] = IF k - 1 < TileSize THEN <<even, k - 1>>
                                 ELSE <<even + 1, k - 1 - TileSize>>
        <4>1. CASE k <= TileSize
          <5>1. k \in 1 .. TileSize /\ k - 1 < TileSize
            BY <1>1, <4>1
          <5> QED
            BY <3>4, <3>5, <4>1, <5>1
        <4>2. CASE ~(k <= TileSize)
          <5>1. /\ k - TileSize \in 1 .. TileSize /\ ~(k - 1 < TileSize)
                /\ (k - TileSize) - 1 = k - 1 - TileSize
            BY <1>1, <4>2
          <5>2. Stack(s)[k] = lower[k - TileSize]
            BY <3>5, <4>2
          <5> QED
            BY <3>4, <5>1, <5>2
        <4> QED
          BY <4>1, <4>2
      <3> QED
        BY <2>2, <3>5, <3>6, <3>7
    <2> QED
      BY <2>1, <2>2
  <1>4. sprite_height \in Nat
    BY <1>1 DEF sprite_height
  <1> HIDE DEF even
  <1>5. CASE s.flip_y
    <2>1. PictureRows(s) = [k \in 1 .. sprite_height |-> Stack(s)[(sprite_height - k) + 1]]
      BY <1>3, <1>5 DEF PictureRows, Reverse
    <2>2. ASSUME NEW k \in 1 .. sprite_height
          PROVE  LET row == sprite_height - k
                 IN  PictureRows(s)[k] = IF ~io.tall THEN <<s.tile_id, row>>
                                         ELSE IF row < TileSize THEN <<even, row>>
                                         ELSE <<even + 1, row - TileSize>>
      <3>1. (sprite_height - k) + 1 \in 1 .. sprite_height
            /\ ((sprite_height - k) + 1) - 1 = sprite_height - k
        BY <1>4
      <3> QED
        BY <1>3, <2>1, <3>1
    <2> QED
      BY <1>5, <2>1, <2>2 DEF even
  <1>6. CASE ~s.flip_y
    BY <1>3, <1>6 DEF PictureRows, even
  <1> QED
    BY <1>1, <1>5, <1>6

(* A line crosses the picture of a sprite where the scan says that it does. *)
LEMMA CrossesOnLine ==
  ASSUME io \in Registers, NEW s \in Sprite, NEW n \in Int
  PROVE  Crosses(s, n) <=> OnLine(s, n)
PROOF
  <1>1. s.y \in Int /\ sprite_height \in Nat
    BY SizeAssumption DEF Sprite, Registers, sprite_height
  <1>2. n - s.y + 1 \in 1 .. sprite_height <=> s.y <= n /\ n < s.y + sprite_height
    BY <1>1
  <1> QED
    BY <1>2, PictureTyped DEF Crosses, OnLine

(* The row that is drawn of a sprite is the one at which the line crosses   *)
(* its picture.                                                             *)
LEMMA RowOfPicture ==
  ASSUME io \in Registers, ly \in Int, NEW s \in Sprite
  PROVE  /\ Crosses(s, ly) <=> RowFits(s)
         /\ RowFits(s) => PictureRow(s, ly) = <<TileUnder(s), RowInTile(s)>>
PROOF
  <1> DEFINE k == ly - s.y + 1
  <1>1. /\ s.y \in Int /\ sprite_height \in Nat /\ s.flip_y \in BOOLEAN
        /\ io.tall \in BOOLEAN /\ s.tile_id \in Nat /\ TileSize \in Nat
    BY SizeAssumption DEF Sprite, Registers, sprite_height
  <1>2. RowFits(s) <=> k \in 1 .. sprite_height
    BY <1>1 DEF RowFits, RowOf
  <1>3. RowOf(s) = IF s.flip_y THEN sprite_height - k ELSE k - 1
    BY <1>1 DEF RowOf
  <1>4. s.tile_id - (s.tile_id % 2) = 2 * (s.tile_id \div 2)
    BY <1>1
  <1>5. Crosses(s, ly) <=> k \in 1 .. sprite_height
    BY PictureTyped DEF Crosses
  <1>6. ASSUME RowFits(s) PROVE PictureRow(s, ly) = <<TileUnder(s), RowInTile(s)>>
    <2> DEFINE even == 2 * (s.tile_id \div 2)
               row == RowOf(s)
    <2>1. PictureRow(s, ly) = IF ~io.tall THEN <<s.tile_id, row>>
                              ELSE IF row < TileSize THEN <<even, row>>
                              ELSE <<even + 1, row - TileSize>>
      <3>1. k \in 1 .. sprite_height
        BY <1>2, <1>6
      <3> QED
        BY <1>3, <3>1, PictureTyped DEF PictureRow
    <2>2. row \in Int /\ even \in Int
      BY <1>1, <1>3
    <2>3. TileUnder(s) = IF io.tall THEN (IF row < TileSize THEN even ELSE even + 1)
                         ELSE s.tile_id
      BY <1>1, <1>4, <2>2 DEF TileUnder
    <2>4. RowInTile(s) = IF io.tall /\ row >= TileSize THEN row - TileSize ELSE row
      BY DEF RowInTile
    <2> HIDE DEF even, row
    <2> QED
      BY <1>1, <2>1, <2>2, <2>3, <2>4
  <1> QED
    BY <1>2, <1>5, <1>6

(* So is its colour. *)
LEMMA ColorOfPicture ==
  ASSUME io \in Registers, ly \in Int, NEW s \in Sprite, RowFits(s), NEW i
  PROVE  PictureColor(s, i) = ColorOf(s, i - s.x)
PROOF
  <1>1. PictureRow(s, ly) = <<TileUnder(s), RowInTile(s)>>
    BY RowOfPicture
  <1>2. PictureRow(s, ly)[1] = TileUnder(s) /\ PictureRow(s, ly)[2] = RowInTile(s)
    BY <1>1
  <1> QED
    BY <1>2 DEF PictureColor, ColorOf

LEMMA DrawTyped ==
  ASSUME Drawing, NEW s \in Sprite, NEW line \in Row
  PROVE  draw(s, line) \in Row
PROOF
  <1>1. CASE ~RowFits(s)
    BY <1>1 DEF draw
  <1>2. CASE RowFits(s)
    <2>1. ASSUME NEW i \in Columns, i - s.x \in Numbers
          PROVE  <<s.palette, ColorOf(s, i - s.x)>> \in Pixels
      <3>1. ly \in Int /\ io \in Registers
        BY DEF Drawing
      <3>2. ColorOf(s, i - s.x) \in 0 .. 3
        BY <1>2, <2>1, <3>1, ColorOfTyped
      <3> QED
        BY <3>2 DEF Pixels, Sprite
    <2>2. \A i \in Columns : line[i] \in Pixels
      BY DEF Row
    <2> QED
      BY <1>2, <2>1, <2>2 DEF draw, Row
  <1> QED
    BY <1>1, <1>2
-----------------------------------------------------------------------------
(* The drawing of the sprites.                                              *)

LEMMA LayersLoop ==
  ASSUME Drawing, screen \in [0 .. Lines - 1 -> Row], sprites \in Seq(Sprite)
  PROVE  /\ Layers \in [0 .. Len(sprites) -> Row]
         /\ Layers[0] = Backdrop
         /\ \A k \in 1 .. Len(sprites) :
              Layers[k] = draw(sprites[Len(sprites) + 1 - k], Layers[k - 1])
PROOF
  <1> DEFINE N == Len(sprites)
             Drawn(k, line) == draw(sprites[N + 1 - k], line)
             next == [p \in (1 .. N) \X Row |-> Drawn(p[1], p[2])]
             Body(f) == [k \in 0 .. N |-> IF k = 0 THEN Backdrop ELSE Drawn(k, f[k - 1])]
  <1>1. N \in Nat /\ Backdrop \in Row
    BY SpritesOf, BackdropTyped
  <1>2. ASSUME NEW k \in 1 .. N, NEW line \in Row PROVE Drawn(k, line) \in Row
    <2>1. N + 1 - k \in 1 .. N
      BY <1>1
    <2>2. sprites[N + 1 - k] \in Sprite
      BY <2>1, SpritesOf
    <2> QED
      BY <2>2, DrawTyped
  <1> HIDE DEF Drawn, N
  <1>3. next \in [(1 .. N) \X Row -> Row]
    BY <1>2
  <1>4. PICK f \in [0 .. N -> Row] : IsLoop(f, N, Backdrop, next)
    <2> HIDE DEF next
    <2> QED
      BY <1>1, <1>3, Recursion
  <1>5. ASSUME NEW k \in 1 .. N PROVE f[k] = Drawn(k, f[k - 1])
    <2>1. f[k] = next[<<k, f[k - 1]>>] /\ k - 1 \in 0 .. N
      <3> HIDE DEF next
      <3> QED
        BY <1>1, <1>4 DEF IsLoop
    <2>2. <<k, f[k - 1]>> \in (1 .. N) \X Row
      BY <2>1
    <2> QED
      BY <2>1, <2>2
  <1>6. f = Body(f)
    <2>1. ASSUME NEW k \in 0 .. N PROVE f[k] = Body(f)[k]
      BY <1>1, <1>4, <1>5 DEF IsLoop
    <2> QED
      BY <2>1
  <1>7. Layers = CHOOSE g : g = Body(g)
    BY Zenon DEF Layers, Drawn, N
  <1>8. Layers = Body(Layers)
    <2> HIDE DEF Body
    <2> QED
      BY <1>6, <1>7
  <1> HIDE DEF next
  <1> DEFINE g == Layers
  <1>9. /\ g = [k \in 0 .. N |-> g[k]]
        /\ g[0] = Backdrop
        /\ \A k \in 1 .. N : g[k] = Drawn(k, g[k - 1])
    <2> HIDE DEF g
    <2>1. g = Body(g)
      BY <1>8 DEF g
    <2>2. 0 \in 0 .. N /\ \A k \in 1 .. N : k \in 0 .. N /\ k # 0
      BY <1>1
    <2> QED
      BY <2>1, <2>2
  <1>10. \A k \in 0 .. N : g[k] \in Row
    <2> HIDE DEF g, Body
    <2> DEFINE T == {k \in 0 .. N : g[k] \in Row}
    <2>1. 0 \in T
      BY <1>1, <1>9
    <2>2. ASSUME NEW k \in 1 .. N, k - 1 \in T PROVE k \in T
      <3>1. g[k] \in Row
        BY <1>2, <1>9, <2>2
      <3> QED
        BY <1>1, <3>1
    <2>3. T = 0 .. N
      <3> HIDE DEF T
      <3>1. T \in SUBSET (0 .. N)
        BY DEF T
      <3> QED
        BY <1>1, <2>1, <2>2, <3>1, LoopInduction
    <2> QED
      BY <2>3
  <1>11. g \in [0 .. N -> Row]
    <2> HIDE DEF g
    <2> QED
      BY <1>9, <1>10
  <1> QED
    BY <1>9, <1>11 DEF Drawn, N

SpritePixel(n, i) == <<sprites[n].palette, ColorOf(sprites[n], i - sprites[n].x)>>

(* A sprite changes the pixels in which it is shown, and no other.          *)
LEMMA DrawShows ==
  ASSUME Drawing, screen \in [0 .. Lines - 1 -> Row], sprites \in Seq(Sprite),
         NEW n \in 1 .. Len(sprites), NEW line \in Row, NEW i \in Columns
  PROVE  draw(sprites[n], line)[i] = IF n \in Shown(i) THEN SpritePixel(n, i) ELSE line[i]
PROOF
  <1> DEFINE s == sprites[n]
  <1>1. s.x \in Int /\ n \in DOMAIN sprites /\ i \in Int /\ TileSize \in Nat
    BY SpritesOf, SizeAssumption DEF Columns
  <1>2. i - s.x \in Numbers <=> s.x <= i /\ i < s.x + TileSize
    BY <1>1 DEF Numbers
  <1>3. bg_scanline[i] # 0 <=> \/ WindowHere(i) /\ Window(i) # 0
                               \/ ~WindowHere(i) /\ io.bg /\ Background(i) # 0
    BY DEF bg_scanline
  <1>4. n \in Shown(i) <=> Opaque(s, i) /\ ~Hidden(s, i)
    BY <1>1 DEF Shown
  <1>5. Hidden(s, i) <=> s.behind /\ bg_scanline[i] # 0
    BY <1>3 DEF Hidden
  <1>6. Opaque(s, i) <=> RowFits(s) /\ i - s.x \in Numbers /\ ColorOf(s, i - s.x) # 0
    <2>1. s \in Sprite /\ io \in Registers /\ ly \in Int
      BY SpritesOf, SizeAssumption DEF Drawing
    <2> HIDE DEF s
    <2>2. Crosses(s, ly) <=> RowFits(s)
      BY <2>1, RowOfPicture
    <2>3. RowFits(s) => PictureColor(s, i) = ColorOf(s, i - s.x)
      BY <2>1, ColorOfPicture
    <2> QED
      BY <1>2, <2>2, <2>3 DEF Opaque
  <1>7. RowFits(s) => draw(s, line)[i] =
          IF i - s.x \in Numbers /\ ColorOf(s, i - s.x) # 0 /\ ~(s.behind /\ bg_scanline[i] # 0)
          THEN <<s.palette, ColorOf(s, i - s.x)>> ELSE line[i]
    BY DEF draw
  <1>8. ~RowFits(s) => draw(s, line)[i] = line[i]
    BY DEF draw
  <1> QED
    BY <1>4, <1>5, <1>6, <1>7, <1>8 DEF SpritePixel

(* Of the last k sprites those that are shown in column i.                  *)
ShownLast(i, k) == {n \in Shown(i) : n > Len(sprites) - k}

(* The pixel of column i is that of sprite n, the first of the sprites in S *)
(* or, if there is none, the pixel below them.                              *)
FirstOf(S, i, pixel, below) ==
  \/ S = {} /\ pixel = below
  \/ \E n \in S : (\A m \in S : n <= m) /\ pixel = SpritePixel(n, i)

LEMMA LayersShow ==
  ASSUME Drawing, screen \in [0 .. Lines - 1 -> Row], sprites \in Seq(Sprite),
         NEW i \in Columns
  PROVE  FirstOf(Shown(i), i, Layers[Len(sprites)][i], Backdrop[i])
PROOF
  <1> DEFINE N == Len(sprites)
             T == {k \in 0 .. N : FirstOf(ShownLast(i, k), i, Layers[k][i], Backdrop[i])}
  <1>1. N \in Nat /\ \A n \in Shown(i) : n \in 1 .. N
    BY SpritesOf DEF Shown
  <1>2. 0 \in T
    <2>1. ShownLast(i, 0) = {}
      BY <1>1 DEF ShownLast
    <2>2. Layers[0][i] = Backdrop[i]
      BY LayersLoop
    <2> QED
      BY <1>1, <2>1, <2>2 DEF FirstOf
  <1>3. ASSUME NEW k \in 1 .. N, k - 1 \in T PROVE k \in T
    <2> DEFINE n == N + 1 - k
               below == Layers[k - 1]
    <2>1. n \in 1 .. N /\ k - 1 \in 0 .. N /\ k \in 0 .. N
      BY <1>1
    <2>2. below \in Row /\ Layers[k] = draw(sprites[n], below)
      BY <2>1, LayersLoop
    <2>3. Layers[k][i] = IF n \in Shown(i) THEN SpritePixel(n, i) ELSE below[i]
      BY <2>1, <2>2, DrawShows
    <2>4. FirstOf(ShownLast(i, k - 1), i, below[i], Backdrop[i])
      BY <1>3
    <2> HIDE DEF below
    <2>5. CASE n \in Shown(i)
      <3>1. n \in ShownLast(i, k) /\ \A m \in ShownLast(i, k) : n <= m
        BY <1>1, <2>1, <2>5 DEF ShownLast
      <3> QED
        BY <2>1, <2>3, <2>5, <3>1 DEF FirstOf
    <2>6. CASE n \notin Shown(i)
      <3>1. ShownLast(i, k) = ShownLast(i, k - 1)
        BY <1>1, <2>1, <2>6 DEF ShownLast
      <3> QED
        BY <2>1, <2>3, <2>4, <2>6, <3>1
    <2> QED
      BY <2>5, <2>6
  <1>4. T = 0 .. N
    <2> HIDE DEF T
    <2>1. T \in SUBSET (0 .. N)
      BY DEF T
    <2> QED
      BY <1>1, <1>2, <1>3, <2>1, LoopInduction
  <1>5. ShownLast(i, N) = Shown(i)
    BY <1>1 DEF ShownLast
  <1> QED
    BY <1>1, <1>4, <1>5

(* A line shows in each column the first of the sprites shown there.        *)
LEMMA ScanlineShows ==
  ASSUME Drawing, screen \in [0 .. Lines - 1 -> Row], sprites \in Seq(Sprite)
  PROVE  /\ Scanline \in Row
         /\ \A i \in Columns :
              IF io.sprites THEN FirstOf(Shown(i), i, Scanline[i], Backdrop[i])
              ELSE Scanline[i] = Backdrop[i]
PROOF
  <1>1. Backdrop \in Row
    BY BackdropTyped
  <1>2. Len(sprites) \in 0 .. Len(sprites)
    BY SpritesOf
  <1>3. Layers[Len(sprites)] \in Row
    BY <1>2, LayersLoop
  <1>4. Scanline = IF io.sprites THEN Layers[Len(sprites)] ELSE Backdrop
    BY DEF Scanline
  <1> QED
    BY <1>1, <1>3, <1>4, LayersShow
-----------------------------------------------------------------------------
(* The sprites of a line.                                                   *)

(* The slots up to k whose sprite lies on line n. *)
On(n, k) == {j \in 1 .. k : OnLine(SpriteOf(j), n)}

LEMMA OnGrows ==
  ASSUME NEW n, NEW k \in Nat
  PROVE  /\ IsFiniteSet(On(n, k)) /\ Cardinality(On(n, k)) \in Nat
         /\ On(n, 0) = {} /\ Cardinality(On(n, 0)) = 0
         /\ OnLine(SpriteOf(k + 1), n) =>
              Cardinality(On(n, k + 1)) = Cardinality(On(n, k)) + 1
         /\ ~OnLine(SpriteOf(k + 1), n) => On(n, k + 1) = On(n, k)
PROOF
  <1>1. IsFiniteSet(On(n, k)) /\ Cardinality(On(n, k)) \in Nat
    <2>1. IsFiniteSet(1 .. k)
      BY FS_Interval
    <2>2. On(n, k) \subseteq 1 .. k
      BY DEF On
    <2> QED
      BY <2>1, <2>2, FS_Subset, FS_CardinalityType
  <1>2. On(n, 0) = {} /\ Cardinality(On(n, 0)) = 0
    <2>1. On(n, 0) = {}
      BY DEF On
    <2> QED
      BY <2>1, FS_EmptySet
  <1>3. ASSUME OnLine(SpriteOf(k + 1), n)
        PROVE  Cardinality(On(n, k + 1)) = Cardinality(On(n, k)) + 1
    <2>1. On(n, k + 1) = On(n, k) \cup {k + 1} /\ k + 1 \notin On(n, k)
      BY <1>3 DEF On
    <2> QED
      BY <1>1, <2>1, FS_AddElement
  <1>4. ASSUME ~OnLine(SpriteOf(k + 1), n) PROVE On(n, k + 1) = On(n, k)
    BY <1>4 DEF On
  <1> QED
    BY <1>1, <1>2, <1>3, <1>4

(* The sprites s are those of line n among the slots up to k, in the order  *)
(* of their slots, the first SpriteLimit of them.                           *)
Collected(s, n, k) ==
  /\ \A m \in 1 .. Len(s) :
       /\ s[m].slot \in 1 .. k
       /\ s[m] = SpriteOf(s[m].slot)
       /\ OnLine(s[m], n)
       /\ Cardinality(On(n, s[m].slot - 1)) < SpriteLimit
  /\ \A l, m \in 1 .. Len(s) : l < m => s[l].slot < s[m].slot
  /\ \A i \in 1 .. k :
       OnLine(SpriteOf(i), n) /\ Cardinality(On(n, i - 1)) < SpriteLimit =>
         \E m \in 1 .. Len(s) : s[m].slot = i
  /\ Len(s) = IF Cardinality(On(n, k)) < SpriteLimit
              THEN Cardinality(On(n, k)) ELSE SpriteLimit

LEMMA FoundCollects ==
  ASSUME OamOK, NEW n \in Int, NEW k \in 1 .. Slots, NEW s \in Seq(Sprite),
         Collected(s, n, k - 1)
  PROVE  Collected(Found(n, k, s), n, k)
PROOF
  <1> DEFINE new == SpriteOf(k)
             count == Cardinality(On(n, k - 1))
  <1>1. /\ k - 1 \in Nat /\ (k - 1) + 1 = k /\ Slots \in Nat
        /\ SpriteLimit \in Nat \ {0} /\ Len(s) \in Nat
    BY SizeAssumption, SpritesOf
  <1>2. count \in Nat
    BY <1>1, OnGrows
  <1>3. new \in Sprite /\ new.slot = k
    BY SpriteTyped
  <1>4. \A m \in 1 .. Len(s) : s[m].slot \in 1 .. k - 1
    BY DEF Collected
  <1>5. CASE Len(s) < SpriteLimit /\ OnLine(new, n)
    <2> DEFINE t == Append(s, new)
    <2>1. /\ Len(t) = Len(s) + 1 /\ t[Len(s) + 1] = new
          /\ \A m \in 1 .. Len(s) : t[m] = s[m]
      BY <1>3, AppendProperties
    <2>2. Found(n, k, s) = t
      BY <1>5 DEF Found
    <2>3. count < SpriteLimit /\ Len(s) = count
      BY <1>1, <1>2, <1>5 DEF Collected
    <2>4. Cardinality(On(n, k)) = count + 1
      BY <1>1, <1>5, OnGrows
    <2> HIDE DEF t, count, new
    <2>5. ASSUME NEW m \in 1 .. Len(t)
          PROVE  /\ t[m].slot \in 1 .. k
                 /\ t[m] = SpriteOf(t[m].slot)
                 /\ OnLine(t[m], n)
                 /\ Cardinality(On(n, t[m].slot - 1)) < SpriteLimit
      <3>1. CASE m \in 1 .. Len(s)
        BY <1>1, <1>4, <2>1, <3>1 DEF Collected
      <3>2. CASE m = Len(s) + 1
        BY <1>1, <1>3, <1>5, <2>1, <2>3, <3>2 DEF new, count
      <3> QED
        BY <1>1, <2>1, <3>1, <3>2
    <2>6. ASSUME NEW l \in 1 .. Len(t), NEW m \in 1 .. Len(t), l < m
          PROVE  t[l].slot < t[m].slot
      <3>1. l \in 1 .. Len(s)
        BY <1>1, <2>1, <2>6
      <3>2. CASE m \in 1 .. Len(s)
        BY <2>1, <2>6, <3>1, <3>2 DEF Collected
      <3>3. CASE m = Len(s) + 1
        BY <1>1, <1>3, <1>4, <2>1, <3>1, <3>3
      <3> QED
        BY <1>1, <2>1, <3>2, <3>3
    <2>7. ASSUME NEW i \in 1 .. k, OnLine(SpriteOf(i), n),
                 Cardinality(On(n, i - 1)) < SpriteLimit
          PROVE  \E m \in 1 .. Len(t) : t[m].slot = i
      <3>1. CASE i = k
        <4>1. Len(s) + 1 \in 1 .. Len(t) /\ t[Len(s) + 1].slot = k
          BY <1>1, <1>3, <2>1
        <4> QED
          BY <3>1, <4>1
      <3>2. CASE i \in 1 .. k - 1
        <4>1. PICK m \in 1 .. Len(s) : s[m].slot = i
          BY <2>7, <3>2 DEF Collected
        <4>2. m \in 1 .. Len(t) /\ t[m].slot = i
          BY <1>1, <2>1, <4>1
        <4> QED
          BY <4>2
      <3> QED
        BY <1>1, <3>1, <3>2
    <2>8. Len(t) = IF Cardinality(On(n, k)) < SpriteLimit
                   THEN Cardinality(On(n, k)) ELSE SpriteLimit
      BY <1>1, <1>2, <2>1, <2>3, <2>4
    <2> QED
      BY <2>2, <2>5, <2>6, <2>7, <2>8 DEF Collected
  <1>6. CASE ~(Len(s) < SpriteLimit /\ OnLine(new, n))
    <2>1. Found(n, k, s) = s
      BY <1>6 DEF Found
    <2>2. OnLine(SpriteOf(k), n) => ~(count < SpriteLimit)
      BY <1>1, <1>2, <1>6 DEF Collected
    <2>3. Len(s) = IF Cardinality(On(n, k)) < SpriteLimit
                   THEN Cardinality(On(n, k)) ELSE SpriteLimit
      <3>1. CASE OnLine(SpriteOf(k), n)
        <4>1. Cardinality(On(n, k)) = count + 1 /\ Len(s) = SpriteLimit
          BY <1>1, <2>2, <3>1, OnGrows DEF Collected
        <4> QED
          BY <1>1, <1>2, <2>2, <3>1, <4>1
      <3>2. CASE ~OnLine(SpriteOf(k), n)
        <4>1. On(n, k) = On(n, k - 1)
          BY <1>1, <3>2, OnGrows
        <4> QED
          BY <4>1 DEF Collected
      <3> QED
        BY <3>1, <3>2
    <2>4. ASSUME NEW i \in 1 .. k, OnLine(SpriteOf(i), n),
                 Cardinality(On(n, i - 1)) < SpriteLimit
          PROVE  \E m \in 1 .. Len(s) : s[m].slot = i
      <3>1. i # k
        BY <2>2, <2>4
      <3>2. i \in 1 .. k - 1
        BY <1>1, <3>1
      <3> QED
        BY <2>4, <3>2 DEF Collected
    <2>5. \A m \in 1 .. Len(s) : s[m].slot \in 1 .. k
      BY <1>1, <1>4
    <2> QED
      BY <2>1, <2>3, <2>4, <2>5 DEF Collected
  <1> QED
    BY <1>5, <1>6

LEMMA ScanCollects ==
  ASSUME OamOK, NEW n \in Int
  PROVE  /\ Scan(n)[Slots] \in Seq(Sprite)
         /\ Collected(Scan(n)[Slots], n, Slots)
PROOF
  <1> DEFINE g == Scan(n)
             T == {k \in 0 .. Slots : Collected(g[k], n, k)}
  <1>1. Slots \in Nat /\ SpriteLimit \in Nat \ {0}
    BY SizeAssumption
  <1>2. /\ \A k \in 0 .. Slots : g[k] \in Seq(Sprite)
        /\ g[0] = <<>>
        /\ \A k \in 1 .. Slots : g[k] = Found(n, k, g[k - 1])
    BY ScanLoop
  <1> HIDE DEF g
  <1>3. 0 \in T
    <2>1. Len(<<>>) = 0 /\ Cardinality(On(n, 0)) = 0
      BY OnGrows
    <2>2. Collected(<<>>, n, 0)
      BY <1>1, <2>1 DEF Collected
    <2> QED
      BY <1>1, <1>2, <2>2
  <1>4. ASSUME NEW k \in 1 .. Slots, k - 1 \in T PROVE k \in T
    <2>1. k - 1 \in 0 .. Slots /\ k \in 0 .. Slots
      BY <1>1
    <2>2. Collected(g[k - 1], n, k - 1) /\ g[k - 1] \in Seq(Sprite)
      BY <1>2, <1>4, <2>1
    <2>3. Collected(Found(n, k, g[k - 1]), n, k)
      BY <2>2, FoundCollects
    <2> QED
      BY <1>2, <2>1, <2>3
  <1>5. T = 0 .. Slots
    <2> HIDE DEF T
    <2>1. T \in SUBSET (0 .. Slots)
      BY DEF T
    <2> QED
      BY <1>1, <1>3, <1>4, <2>1, LoopInduction
  <1> QED
    BY <1>1, <1>2, <1>5 DEF g

(* What get_sprites finds for line n.                                       *)
LEMMA SpritesFound ==
  ASSUME OamOK, NEW n \in Int
  PROVE  LET s == get_sprites(n) IN
         /\ s \in Seq(Sprite)
         /\ \A m \in 1 .. Len(s) : s[m].y <= n /\ n < s[m].y + sprite_height
         /\ \A m \in 1 .. Len(s) : s[m] = SpriteOf(s[m].slot)
         /\ {s[m].slot : m \in 1 .. Len(s)} =
            {i \in 1 .. Slots : OnLine(SpriteOf(i), n) /\ Cardinality(On(n, i - 1)) < SpriteLimit}
         /\ \A l, m \in 1 .. Len(s) : l < m =>
              \/ s[l].x < s[m].x
              \/ s[l].x = s[m].x /\ s[l].slot < s[m].slot
PROOF
  <1> DEFINE r == Scan(n)[Slots]
             s == get_sprites(n)
             N == 1 .. Len(r)
             Kept == {i \in 1 .. Slots :
                       OnLine(SpriteOf(i), n) /\ Cardinality(On(n, i - 1)) < SpriteLimit}
  <1>1. r \in Seq(Sprite) /\ Collected(r, n, Slots)
    BY ScanCollects
  <1>2. s = stable_sort(r)
    BY DEF get_sprites
  <1> HIDE DEF r, s
  <1>3. PICK p \in [N -> N] :
          /\ s \in Seq(Sprite) /\ Len(s) = Len(r)
          /\ \A m \in N : s[m] = r[p[m]]
          /\ \A i \in N : \E m \in N : p[m] = i
          /\ \A l, m \in N : l < m => \/ r[p[l]].x < r[p[m]].x
                                      \/ r[p[l]].x = r[p[m]].x /\ p[l] < p[m]
    BY <1>1, <1>2, Sorted
  <1>4. \A m \in N : p[m] \in N
    BY <1>3
  <1>5. \A m \in N : OnLine(s[m], n) /\ s[m].slot \in Kept
    BY <1>1, <1>3, <1>4 DEF Collected
  <1>6. ASSUME NEW i \in Kept PROVE \E m \in N : s[m].slot = i
    <2>1. PICK j \in N : r[j].slot = i
      BY <1>1 DEF Collected
    <2>2. PICK m \in N : p[m] = j
      BY <1>3
    <2> QED
      BY <1>3, <2>1, <2>2
  <1> HIDE DEF Kept
  <1>7. {s[m].slot : m \in N} = Kept
    BY <1>5, <1>6
  <1>8. ASSUME NEW l \in N, NEW m \in N, l < m
        PROVE  s[l].x < s[m].x \/ (s[l].x = s[m].x /\ s[l].slot < s[m].slot)
    <2>1. p[l] < p[m] => r[p[l]].slot < r[p[m]].slot
      BY <1>1, <1>4 DEF Collected
    <2>2. r[p[l]].x < r[p[m]].x \/ (r[p[l]].x = r[p[m]].x /\ p[l] < p[m])
      BY <1>3, <1>8
    <2>3. s[l] = r[p[l]] /\ s[m] = r[p[m]]
      BY <1>3
    <2> QED
      BY <2>1, <2>2, <2>3
  <1>9. \A m \in N : s[m].y <= n /\ n < s[m].y + sprite_height
    BY <1>5 DEF OnLine
  <1>10. \A m \in N : s[m] = SpriteOf(s[m].slot)
    BY <1>1, <1>3, <1>4 DEF Collected
  <1> QED
    BY <1>3, <1>7, <1>8, <1>9, <1>10 DEF s, Kept
-----------------------------------------------------------------------------
(* The inductive invariant.                                                 *)

(* What is remembered of a line: the rows that were fetched for its sprites *)
(* are rows of tiles that sprites can have.                                 *)
Drawings ==
  [bg : BOOLEAN, sprites : Seq(Sprite),
   rows : SUBSET [slot : 1 .. Slots, row : (0 .. Tiles - 1) \X Numbers]]

(* The types.  The window has at most as many lines as were drawn.          *)
RenderTypeOK ==
  /\ io \in Registers
  /\ OamOK
  /\ ly \in 0 .. Lines - 1
  /\ mode \in {0, 2}
  /\ sprites \in Seq(Sprite)
  /\ window_line \in Nat
  /\ window_line <= (IF mode = 2 THEN ly ELSE ly + 1)
  /\ screen \in [0 .. Lines - 1 -> Row]
  /\ writes \in Nat
  /\ rendered \in [0 .. Lines - 1 -> Drawings]

(* In a frame without writes the sprites found are still those of OAM that  *)
(* have a place on the line.                                                *)
ScanIsCurrent ==
  writes = 0 /\ mode = 2 =>
    /\ \A k \in DOMAIN sprites : sprites[k] = SpriteOf(sprites[k].slot)
    /\ {sprites[k].slot : k \in DOMAIN sprites} = {i \in 1 .. Slots : HasPlace(i, ly)}

RenderInv ==
  /\ RenderTypeOK
  /\ SpritesOfTheLine
  /\ NothingLeftBehind
  /\ ScanIsCurrent
  /\ SpritesAreWhole

LEMMA CanDraw ==
  ASSUME RenderTypeOK, mode = 2
  PROVE  Drawing
  BY SizeAssumption DEF RenderTypeOK, Drawing

LEMMA HeightTyped ==
  ASSUME io \in Registers
  PROVE  sprite_height \in Nat /\ sprite_height <= 2 * TileSize
  BY SizeAssumption DEF Registers, sprite_height

LEMMA RenderInitially ==
  Init => RenderInv
PROOF
  <1> SUFFICES ASSUME Init PROVE RenderInv
    OBVIOUS
  <1>1. Lines - 1 \in Nat /\ Slots \in Nat
    BY SizeAssumption
  <1>2. io \in Registers
    BY DEF Init, Registers
  <1>3. OamOK
    <2>1. 0 \in 0 .. Tiles - 1
      BY SizeAssumption
    <2> QED
      BY <2>1 DEF Init, OamOK, Entries
  <1>4. <<>> \in Seq(Sprite) /\ Len(<<>>) = 0
    BY EmptySeq
  <1>5. screen \in [0 .. Lines - 1 -> Row]
    <2>1. White \in Pixels
      BY DEF White, Pixels
    <2> QED
      BY <2>1 DEF Init, Row
  <1>6. rendered \in [0 .. Lines - 1 -> Drawings]
    BY <1>4 DEF Init, Drawings
  <1>7. RenderTypeOK
    BY <1>1, <1>2, <1>3, <1>4, <1>5, <1>6 DEF Init, RenderTypeOK
  <1>8. SpritesOfTheLine
    BY <1>4 DEF Init, SpritesOfTheLine
  <1>9. NothingLeftBehind
    BY DEF Init, NothingLeftBehind, White
  <1>10. ScanIsCurrent
    <2>1. DOMAIN sprites = {}
      BY <1>4 DEF Init
    <2>2. ASSUME NEW i \in 1 .. Slots PROVE ~HasPlace(i, ly)
      <3>1. SpriteOf(i) \in Sprite
        BY <1>3, SpriteTyped
      <3>2. oam[i].y = 0 /\ ly = 0 /\ ~io.tall
        BY DEF Init
      <3>3. ~OnLine(SpriteOf(i), ly)
        BY <3>2, SizeAssumption DEF OnLine, SpriteOf, sprite_height
      <3> QED
        BY <1>2, <3>1, <3>2, <3>3, CrossesOnLine DEF HasPlace
    <2> QED
      BY <2>1, <2>2 DEF ScanIsCurrent
  <1>11. SpritesAreWhole
    BY DEF Init, SpritesAreWhole
  <1> QED
    BY <1>7, <1>8, <1>9, <1>10, <1>11 DEF RenderInv

(* The slots that have a place on a line.                                   *)
LEMMA PlacesOnLine ==
  ASSUME OamOK, io \in Registers, NEW n \in Int, NEW i \in 1 .. Slots
  PROVE  HasPlace(i, n) <=> OnLine(SpriteOf(i), n) /\ Cardinality(On(n, i - 1)) < SpriteLimit
PROOF
  <1>1. \A j \in 1 .. Slots : Crosses(SpriteOf(j), n) <=> OnLine(SpriteOf(j), n)
    BY SpriteTyped, CrossesOnLine
  <1>2. 1 .. i - 1 \subseteq 1 .. Slots
    BY SizeAssumption
  <1>3. {j \in 1 .. i - 1 : Crosses(SpriteOf(j), n)} = On(n, i - 1)
    BY <1>1, <1>2 DEF On
  <1> QED
    BY <1>1, <1>3 DEF HasPlace

(* Pictures and places are told by LCDC and OAM alone. *)
LEMMA SamePlaces ==
  ASSUME UNCHANGED <<io, oam>>
  PROVE  \A n : /\ RowsOn(n)' = RowsOn(n)
                /\ \A i : SpriteOf(i)' = SpriteOf(i) /\ (HasPlace(i, n)' <=> HasPlace(i, n))
PROOF
  <1>1. io' = io /\ oam' = oam
    OBVIOUS
  <1>2. \A i : SpriteOf(i)' = SpriteOf(i)
    BY <1>1 DEF SpriteOf
  <1>3. \A s : PictureRows(s)' = PictureRows(s)
    BY <1>1 DEF PictureRows, Stack, TileRows
  <1>4. \A i, n : /\ Crosses(SpriteOf(i), n)' <=> Crosses(SpriteOf(i), n)
                 /\ PictureRow(SpriteOf(i), n)' = PictureRow(SpriteOf(i), n)
    BY <1>2, <1>3 DEF Crosses, PictureRow
  <1>5. \A i, n : HasPlace(i, n)' <=> HasPlace(i, n)
    BY <1>4 DEF HasPlace
  <1>6. \A n : RowsOn(n)' = RowsOn(n)
    BY <1>4, <1>5 DEF RowsOn
  <1> QED
    BY <1>2, <1>5, <1>6

(* After the scan for line n, which is the next or the first of a frame.    *)
LEMMA ScanKeeps ==
  ASSUME RenderInv, NEW n \in 0 .. Lines - 1,
         ly' = n, mode' = 2, sprites' = get_sprites(n),
         window_line' \in 0 .. n, writes' \in Nat,
         n = 0 \/ (mode = 0 /\ n = ly + 1 /\ writes' = writes),
         UNCHANGED <<io, oam, screen, rendered>>
  PROVE  RenderInv'
PROOF
  <1> DEFINE s == get_sprites(n)
  <1>1. n \in Int /\ OamOK /\ io \in Registers
    BY SizeAssumption DEF RenderInv, RenderTypeOK
  <1>2. /\ s \in Seq(Sprite)
        /\ \A m \in 1 .. Len(s) : s[m].y <= n /\ n < s[m].y + sprite_height
        /\ \A m \in 1 .. Len(s) : s[m] = SpriteOf(s[m].slot)
        /\ {s[m].slot : m \in 1 .. Len(s)} =
           {i \in 1 .. Slots : OnLine(SpriteOf(i), n) /\ Cardinality(On(n, i - 1)) < SpriteLimit}
    BY <1>1, SpritesFound
  <1> HIDE DEF s
  <1>3. sprites' = s
    BY DEF s
  <1>4. RenderTypeOK'
    BY <1>2, <1>3 DEF RenderInv, RenderTypeOK, OamOK
  <1>5. SpritesOfTheLine'
    <2>1. \A m \in DOMAIN s : s[m].y <= n /\ n < s[m].y + 2 * TileSize
      <3>1. ASSUME NEW m \in DOMAIN s PROVE s[m].y <= n /\ n < s[m].y + 2 * TileSize
        <4>1. m \in 1 .. Len(s) /\ s[m].y \in Int
          BY <1>2, SpritesOf DEF Sprite
        <4>2. TileSize \in Nat
          BY SizeAssumption
        <4> QED
          BY <1>1, <1>2, <4>1, <4>2, HeightTyped
      <3> QED
        BY <3>1
    <2> QED
      BY <1>3, <2>1 DEF SpritesOfTheLine
  <1>6. NothingLeftBehind'
    BY DEF RenderInv, NothingLeftBehind
  <1>7. ScanIsCurrent'
    <2>1. DOMAIN s = 1 .. Len(s)
      BY <1>2, SpritesOf
    <2>2. {i \in 1 .. Slots : HasPlace(i, n)} = {s[m].slot : m \in 1 .. Len(s)}
      BY <1>1, <1>2, PlacesOnLine
    <2>3. \A i : SpriteOf(i)' = SpriteOf(i) /\ (HasPlace(i, n)' <=> HasPlace(i, n))
      BY SamePlaces
    <2> QED
      BY <1>2, <1>3, <2>1, <2>2, <2>3 DEF ScanIsCurrent
  <1>8. SpritesAreWhole'
    <2>1. n = 0 => DrawnLines' = {}
      BY DEF DrawnLines
    <2>2. n # 0 => DrawnLines' = DrawnLines
      BY SizeAssumption DEF DrawnLines, RenderInv, RenderTypeOK
    <2>3. \A m : RowsOn(m)' = RowsOn(m)
      BY SamePlaces
    <2> QED
      BY <2>1, <2>2, <2>3 DEF RenderInv, SpritesAreWhole
  <1> QED
    BY <1>4, <1>5, <1>6, <1>7, <1>8 DEF RenderInv

(* What the drawing of a line fetches are rows of tiles, and in a frame     *)
(* without writes they are the rows of all sprites with a place on it.      *)
LEMMA RowsFetched ==
  ASSUME RenderInv, mode = 2
  PROVE  /\ FetchedRows \subseteq [slot : 1 .. Slots, row : (0 .. Tiles - 1) \X Numbers]
         /\ writes = 0 /\ io.sprites => FetchedRows = RowsOn(ly)
PROOF
  <1> DEFINE N == DOMAIN sprites
  <1>1. io \in Registers /\ ly \in Int /\ OamOK /\ sprites \in Seq(Sprite)
    BY SizeAssumption DEF RenderInv, RenderTypeOK
  <1>2. \A k \in N : sprites[k] \in Sprite
    BY <1>1, SpritesOf
  <1>3. FetchedRows = IF io.sprites THEN {Fetched(s) : s \in {sprites[k] : k \in {k \in N : RowFits(sprites[k])}}}
                      ELSE {}
    BY DEF FetchedRows, Range
  <1>4. ASSUME NEW s \in Sprite, RowFits(s)
        PROVE  /\ Fetched(s) \in [slot : 1 .. Slots, row : (0 .. Tiles - 1) \X Numbers]
               /\ Fetched(s) = [slot |-> s.slot, row |-> PictureRow(s, ly)]
    <2>1. s.slot \in 1 .. Slots
      BY DEF Sprite
    <2>2. RowInTile(s) \in Numbers /\ TileUnder(s) \in 0 .. Tiles - 1
      BY <1>1, <1>4, RowInside
    <2>3. PictureRow(s, ly) = <<TileUnder(s), RowInTile(s)>>
      BY <1>1, <1>4, RowOfPicture
    <2> QED
      BY <2>1, <2>2, <2>3 DEF Fetched
  <1>5. FetchedRows \subseteq [slot : 1 .. Slots, row : (0 .. Tiles - 1) \X Numbers]
    BY <1>2, <1>3, <1>4
  <1>6. ASSUME writes = 0, io.sprites
        PROVE  FetchedRows = RowsOn(ly)
    <2>1. /\ \A k \in N : sprites[k] = SpriteOf(sprites[k].slot)
          /\ {sprites[k].slot : k \in N} = {i \in 1 .. Slots : HasPlace(i, ly)}
      BY <1>6 DEF RenderInv, ScanIsCurrent
    <2>2. ASSUME NEW k \in N
          PROVE  /\ RowFits(sprites[k])
                 /\ Fetched(sprites[k]) =
                    [slot |-> sprites[k].slot, row |-> PictureRow(SpriteOf(sprites[k].slot), ly)]
      <3>1. HasPlace(sprites[k].slot, ly)
        BY <2>1
      <3>2. Crosses(sprites[k], ly)
        BY <2>1, <3>1 DEF HasPlace
      <3>3. RowFits(sprites[k])
        BY <1>1, <1>2, <3>2, RowOfPicture
      <3> QED
        BY <1>2, <1>4, <2>1, <3>3
    <2>3. FetchedRows = {Fetched(sprites[k]) : k \in N}
      BY <1>3, <1>6, <2>2
    <2>4. FetchedRows =
          {[slot |-> i, row |-> PictureRow(SpriteOf(i), ly)] : i \in {sprites[k].slot : k \in N}}
      BY <2>2, <2>3
    <2> QED
      BY <2>1, <2>4 DEF RowsOn
  <1> QED
    BY <1>5, <1>6

LEMMA DrawingKeeps ==
  ASSUME RenderInv, render_scanline
  PROVE  RenderInv'
PROOF
  <1>1. Drawing /\ RenderTypeOK
    BY CanDraw DEF RenderInv, render_scanline
  <1>2. screen \in [0 .. Lines - 1 -> Row] /\ sprites \in Seq(Sprite) /\ ly \in 0 .. Lines - 1
    BY <1>1 DEF RenderTypeOK
  <1>3. /\ Scanline \in Row
        /\ \A i \in Columns :
             IF io.sprites THEN FirstOf(Shown(i), i, Scanline[i], Backdrop[i])
             ELSE Scanline[i] = Backdrop[i]
    BY <1>1, <1>2, ScanlineShows
  <1> DEFINE drawn == IF io.sprites THEN sprites ELSE <<>>
  <1>4. drawn \in Seq(Sprite) /\ io.bg \in BOOLEAN
    BY <1>1, <1>2, EmptySeq DEF RenderTypeOK, Registers
  <1>5. /\ screen' = [screen EXCEPT ![ly] = Scanline]
        /\ rendered' =
             [rendered EXCEPT ![ly] = [bg |-> io.bg, sprites |-> drawn, rows |-> FetchedRows]]
    BY DEF render_scanline
  <1>6. RenderTypeOK'
    <2>1. screen' \in [0 .. Lines - 1 -> Row]
      BY <1>2, <1>3, <1>5
    <2>2. rendered' \in [0 .. Lines - 1 -> Drawings]
      <3> HIDE DEF drawn
      <3>1. [bg |-> io.bg, sprites |-> drawn, rows |-> FetchedRows] \in Drawings
        <4>1. mode = 2
          BY DEF render_scanline
        <4> QED
          BY <1>4, <4>1, RowsFetched DEF Drawings
      <3> QED
        BY <1>1, <1>5, <3>1 DEF RenderTypeOK
    <2>3. window_line' \in Nat /\ window_line' <= ly + 1
      BY <1>1, SizeAssumption DEF Drawing, render_scanline
    <2>4. mode' = 0 /\ UNCHANGED <<io, oam, ly, sprites, writes>>
      BY DEF render_scanline
    <2> QED
      BY <1>1, <2>1, <2>2, <2>3, <2>4 DEF RenderTypeOK, OamOK
  <1>7. SpritesOfTheLine'
    BY DEF render_scanline, SpritesOfTheLine
  <1>8. NothingLeftBehind'
    <2> SUFFICES ASSUME NEW n \in 0 .. Lines - 1, rendered'[n].bg,
                        NEW i \in Columns, screen'[n][i][1] # "bgp"
                 PROVE  \E k \in DOMAIN rendered'[n].sprites :
                          /\ rendered'[n].sprites[k].palette = screen'[n][i][1]
                          /\ rendered'[n].sprites[k].x <= i
                          /\ i < rendered'[n].sprites[k].x + TileSize
      BY DEF NothingLeftBehind
    <2>1. CASE n # ly
      <3>1. screen'[n] = screen[n] /\ rendered'[n] = rendered[n]
        BY <1>1, <1>2, <1>5, <2>1 DEF RenderTypeOK
      <3> QED
        BY <3>1 DEF RenderInv, NothingLeftBehind
    <2>2. CASE n = ly
      <3>1. screen'[n] = Scanline /\ rendered'[n].bg = io.bg /\ rendered'[n].sprites = drawn
        BY <1>1, <1>2, <1>5, <2>2 DEF RenderTypeOK
      <3>2. Backdrop[i][1] = "bgp"
        BY <3>1 DEF Backdrop
      <3>3. io.sprites /\ drawn = sprites
        BY <1>3, <3>1, <3>2
      <3>4. PICK k \in Shown(i) : Scanline[i] = SpritePixel(k, i)
        BY <1>3, <3>1, <3>2, <3>3 DEF FirstOf
      <3>5. /\ k \in DOMAIN sprites
            /\ sprites[k].x <= i /\ i < sprites[k].x + TileSize
        BY DEF Shown, Opaque
      <3>6. screen'[n][i][1] = sprites[k].palette
        BY <3>1, <3>4 DEF SpritePixel
      <3> QED
        BY <3>1, <3>3, <3>5, <3>6
    <2> QED
      BY <2>1, <2>2
  <1>9. ScanIsCurrent'
    BY DEF render_scanline, ScanIsCurrent
  <1>10. SpritesAreWhole'
    <2>1. mode = 2 /\ mode' = 0 /\ UNCHANGED <<io, oam, ly, writes>>
      BY DEF render_scanline
    <2>2. DrawnLines' = DrawnLines \cup {ly} /\ ly \notin DrawnLines
      BY <1>2, <2>1, SizeAssumption DEF DrawnLines
    <2>3. /\ rendered'[ly].rows = FetchedRows
          /\ \A n \in DrawnLines : rendered'[n] = rendered[n]
      BY <1>1, <1>2, <1>5, <2>2 DEF RenderTypeOK, DrawnLines
    <2>4. \A n : RowsOn(n)' = RowsOn(n)
      BY <2>1, SamePlaces
    <2> QED
      BY <2>1, <2>2, <2>3, <2>4, RowsFetched DEF RenderInv, SpritesAreWhole
  <1> QED
    BY <1>6, <1>7, <1>8, <1>9, <1>10 DEF RenderInv

LEMMA RenderStep ==
  RenderInv /\ [Next]_vars => RenderInv'
PROOF
  <1> SUFFICES ASSUME RenderInv, [Next]_vars PROVE RenderInv'
    OBVIOUS
  <1>1. CASE render_scanline
    BY <1>1, DrawingKeeps
  <1>2. CASE NextLine
    <2>1. ly + 1 \in 0 .. Lines - 1
      BY <1>2, SizeAssumption DEF NextLine, RenderInv, RenderTypeOK
    <2>2. window_line' \in 0 .. ly + 1
      BY <1>2, SizeAssumption DEF NextLine, RenderInv, RenderTypeOK
    <2>3. writes \in Nat
      BY DEF RenderInv, RenderTypeOK
    <2> QED
      BY <1>2, <2>1, <2>2, <2>3, ScanKeeps DEF NextLine
  <1>3. CASE NextFrame
    <2>1. 0 \in 0 .. Lines - 1 /\ 0 \in 0 .. 0
      BY SizeAssumption
    <2> QED
      BY <1>3, <2>1, ScanKeeps DEF NextFrame
  <1>4. CASE OffAndOn
    <2>1. 0 \in 0 .. Lines - 1
      BY SizeAssumption
    <2>2. RenderTypeOK'
      BY <1>4, <2>1 DEF OffAndOn, RenderInv, RenderTypeOK, OamOK
    <2>3. writes' # 0
      BY <1>4 DEF OffAndOn, RenderInv, RenderTypeOK
    <2> QED
      BY <1>4, <2>2, <2>3 DEF OffAndOn, RenderInv, SpritesOfTheLine, NothingLeftBehind,
         ScanIsCurrent, SpritesAreWhole
  <1>5. CASE WriteRegisters
    <2>1. RenderTypeOK'
      BY <1>5, InputAssumption DEF WriteRegisters, video, RenderInv, RenderTypeOK, OamOK
    <2>2. writes' # 0
      BY <1>5 DEF WriteRegisters, RenderInv, RenderTypeOK
    <2> QED
      BY <1>5, <2>1, <2>2 DEF WriteRegisters, video, RenderInv, SpritesOfTheLine, NothingLeftBehind,
         ScanIsCurrent, SpritesAreWhole
  <1>6. CASE WriteOam
    <2>1. RenderTypeOK'
      BY <1>6, InputAssumption DEF WriteOam, video, RenderInv, RenderTypeOK, OamOK
    <2>2. writes' # 0
      BY <1>6 DEF WriteOam, RenderInv, RenderTypeOK
    <2> QED
      BY <1>6, <2>1, <2>2 DEF WriteOam, video, RenderInv, SpritesOfTheLine, NothingLeftBehind,
         ScanIsCurrent, SpritesAreWhole
  <1>7. CASE UNCHANGED vars
    <2> USE <1>7 DEF vars, video
    <2>1. RenderTypeOK' /\ SpritesOfTheLine' /\ NothingLeftBehind'
      BY DEF RenderInv, RenderTypeOK, OamOK, SpritesOfTheLine, NothingLeftBehind
    <2>2. ScanIsCurrent'
      BY SamePlaces DEF RenderInv, ScanIsCurrent
    <2>3. SpritesAreWhole'
      BY SamePlaces DEF RenderInv, SpritesAreWhole, DrawnLines
    <2> QED
      BY <2>1, <2>2, <2>3 DEF RenderInv
  <1> QED
    BY <1>1, <1>2, <1>3, <1>4, <1>5, <1>6, <1>7 DEF Next
-----------------------------------------------------------------------------
(* The theorems.                                                            *)

(* RenderInv is an invariant: the sprites, the counter of window lines and  *)
(* every pixel of the screen stay in range, so that each look-up of a tile  *)
(* and of a row of it is of one that video memory has, also when LCDC was   *)
(* written between the scan and the drawing.                                *)
THEOREM RenderInvariance ==
  Spec => []RenderInv
  BY RenderInitially, RenderStep, PTL DEF Spec

(* In a frame without writes each line is drawn with the rows at which it   *)
(* crosses the pictures of the sprites in OAM that have a place on it, so   *)
(* that each of them is shown whole.                                        *)
THEOREM SpritesAreShownWhole ==
  Spec => []SpritesAreWhole
PROOF
  <1>1. RenderInv => SpritesAreWhole
    BY DEF RenderInv
  <1> QED
    BY <1>1, RenderInvariance, PTL

(* A line is drawn with the sprites of a scan of that very line.            *)
THEOREM SpritesAreOfTheLine ==
  Spec => []SpritesOfTheLine
PROOF
  <1>1. RenderInv => SpritesOfTheLine
    BY DEF RenderInv
  <1> QED
    BY <1>1, RenderInvariance, PTL

(* A line last drawn with its background on shows no sprite of an earlier   *)
(* frame: each pixel of a sprite is of one that the line was drawn with.    *)
THEOREM NothingIsLeftBehind ==
  Spec => []NothingLeftBehind
PROOF
  <1>1. RenderInv => NothingLeftBehind
    BY DEF RenderInv
  <1> QED
    BY <1>1, RenderInvariance, PTL

(* get_sprites takes the first SpriteLimit sprites of OAM on the line, and  *)
(* its stable sort puts them in the order of their priority.                *)
THEOREM FirstAreTakenInOrder ==
  Spec => FirstInOrder
PROOF
  <1>1. ASSUME RenderInv, NextLine \/ NextFrame
        PROVE  /\ {sprites'[n].slot : n \in DOMAIN sprites'} =
                  {i \in 1 .. Slots :
                    OnLine(SpriteOf(i), ly') /\ Cardinality(Before(i)) < SpriteLimit}
               /\ \A m, n \in DOMAIN sprites' : m < n =>
                    \/ sprites'[m].x < sprites'[n].x
                    \/ sprites'[m].x = sprites'[n].x /\ sprites'[m].slot < sprites'[n].slot
    <2>1. PICK n \in Int : ly' = n /\ sprites' = get_sprites(n)
      BY <1>1, SizeAssumption DEF NextLine, NextFrame, RenderInv, RenderTypeOK
    <2> DEFINE s == get_sprites(n)
    <2>2. OamOK
      BY <1>1 DEF RenderInv, RenderTypeOK
    <2>3. /\ s \in Seq(Sprite)
          /\ {s[m].slot : m \in 1 .. Len(s)} =
             {i \in 1 .. Slots :
               OnLine(SpriteOf(i), n) /\ Cardinality(On(n, i - 1)) < SpriteLimit}
          /\ \A l, m \in 1 .. Len(s) : l < m =>
               \/ s[l].x < s[m].x
               \/ s[l].x = s[m].x /\ s[l].slot < s[m].slot
      BY <2>2, SpritesFound
    <2>4. \A i \in 1 .. Slots : Before(i) = On(n, i - 1)
      BY <2>1 DEF Before, On
    <2> HIDE DEF s
    <2>5. sprites' = s /\ DOMAIN s = 1 .. Len(s)
      BY <2>1, <2>3, SpritesOf DEF s
    <2> QED
      BY <2>1, <2>3, <2>4, <2>5
  <1> QED
    BY <1>1, RenderInvariance, PTL DEF Spec, FirstInOrder

(* render_scanline shows in each column the sprite of the highest priority  *)
(* among those that are opaque there and in front of the background.        *)
THEOREM FrontmostIsShown ==
  Spec => FrontmostWins
PROOF
  <1>1. ASSUME RenderInv, render_scanline
        PROVE  \A i \in Columns :
                 LET front == CHOOSE n \in Shown(i) : \A m \in Shown(i) : n <= m
                 IN  screen'[ly][i] =
                       IF io.sprites /\ Shown(i) # {}
                       THEN <<sprites[front].palette, PictureColor(sprites[front], i)>>
                       ELSE IF WindowHere(i) THEN <<"bgp", Window(i)>>
                       ELSE IF io.bg THEN <<"bgp", Background(i)>>
                       ELSE screen[ly][i]
    <2> TAKE i \in Columns
    <2> DEFINE front == CHOOSE n \in Shown(i) : \A m \in Shown(i) : n <= m
    <2>1. Drawing /\ RenderTypeOK
      BY <1>1, CanDraw DEF RenderInv, render_scanline
    <2>2. screen \in [0 .. Lines - 1 -> Row] /\ sprites \in Seq(Sprite) /\ ly \in 0 .. Lines - 1
      BY <2>1 DEF RenderTypeOK
    <2>3. IF io.sprites THEN FirstOf(Shown(i), i, Scanline[i], Backdrop[i])
          ELSE Scanline[i] = Backdrop[i]
      BY <2>1, <2>2, ScanlineShows
    <2>4. screen'[ly][i] = Scanline[i]
      BY <1>1, <2>2 DEF render_scanline
    <2>5. Backdrop[i] = IF WindowHere(i) THEN <<"bgp", Window(i)>>
                        ELSE IF io.bg THEN <<"bgp", Background(i)>>
                        ELSE screen[ly][i]
      BY DEF Backdrop, bg_scanline
    <2>6. ASSUME NEW n \in Shown(i), \A m \in Shown(i) : n <= m PROVE front = n
      <3>1. front \in Shown(i) /\ \A m \in Shown(i) : front <= m
        BY <2>6
      <3>2. \A m \in Shown(i) : m \in Int
        BY <2>2, SpritesOf DEF Shown
      <3> HIDE DEF front
      <3> QED
        BY <2>6, <3>1, <3>2
    <2> HIDE DEF front
    <2>7. screen'[ly][i] = IF io.sprites /\ Shown(i) # {} THEN SpritePixel(front, i)
                           ELSE Backdrop[i]
      BY <2>3, <2>4, <2>6 DEF FirstOf
    <2>8. ASSUME io.sprites, Shown(i) # {}
          PROVE  SpritePixel(front, i) =
                 <<sprites[front].palette, PictureColor(sprites[front], i)>>
      <3>1. PICK n \in Shown(i) : \A m \in Shown(i) : n <= m
        BY <2>3, <2>8 DEF FirstOf
      <3>2. front = n
        BY <2>6, <3>1
      <3>3. n \in 1 .. Len(sprites) /\ Crosses(sprites[n], ly)
        BY <2>2, SpritesOf DEF Shown, Opaque
      <3>4. sprites[n] \in Sprite /\ io \in Registers /\ ly \in Int
        BY <2>1, <2>2, <3>3, SpritesOf, SizeAssumption DEF RenderTypeOK
      <3>5. PictureColor(sprites[n], i) = ColorOf(sprites[n], i - sprites[n].x)
        BY <3>3, <3>4, RowOfPicture, ColorOfPicture
      <3> QED
        BY <3>2, <3>5 DEF SpritePixel
    <2> QED
      BY <2>5, <2>7, <2>8 DEF front
  <1> QED
    BY <1>1, RenderInvariance, PTL DEF Spec, FrontmostWins
-----------------------------------------------------------------------------
(* The order of the lines.                                                  *)

LineOrder ==
  INSTANCE LineContract WITH
    line <- ly, scanned <- mode = 2, window <- window_line

(* get_sprites and render_scanline are called here in the order of          *)
(* LineContract, the order that PpuProofs shows of ppu_step with all its    *)
(* dots; both leave it only where the LCD is switched off.                  *)
THEOREM LinesAreInOrder ==
  Spec => LineOrder!Spec
PROOF
  <1>1. Init => LineOrder!Init
    BY DEF Init, LineOrder!Init
  <1>2. [Next]_vars => [LineOrder!Next]_(LineOrder!vars)
    <2> SUFFICES ASSUME [Next]_vars PROVE [LineOrder!Next]_(LineOrder!vars)
      OBVIOUS
    <2> USE DEF LineOrder!vars, LineOrder!Next
    <2>1. CASE render_scanline
      BY <2>1 DEF render_scanline, LineOrder!Draw
    <2>2. CASE NextLine
      BY <2>2 DEF NextLine, LineOrder!ScanNext
    <2>3. CASE NextFrame
      BY <2>3 DEF NextFrame, LineOrder!ScanFirst
    <2>4. CASE OffAndOn
      BY <2>4 DEF OffAndOn, LineOrder!SwitchOff
    <2>5. CASE WriteRegisters \/ WriteOam \/ UNCHANGED vars
      BY <2>5 DEF WriteRegisters, WriteOam, vars, video
    <2> QED
      BY <2>1, <2>2, <2>3, <2>4, <2>5 DEF Next
  <1> QED
    BY <1>1, <1>2, PTL DEF Spec, LineOrder!Spec
=============================================================================
