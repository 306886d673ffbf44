-------------------------- MODULE TCNVMallocProofs --------------------------
(***************************************************************************)
(* Safety of TCNVMalloc for every number of threads and areas, for every    *)
(* size of chunk, segment and class: the counts of a header agree with the  *)
(* blocks, the state of a chunk tells where it is, chunks lie apart in the  *)
(* mapped part of their area, no block but an undersized one reaches into   *)
(* another, and without those malloc and free implement BlockAllocator.     *)
(***************************************************************************)
EXTENDS MCTCNVMalloc, NatFacts, SequenceTheorems

\* The sizes are positive, and a chunk holds a block of every class.
LEMMA Sizes ==
  /\ CHUNK_DATA_SIZE \in Nat \ {0} /\ Header \in Nat \ {0}
  /\ CHUNK_SIZE \in Nat \ {0} /\ CHUNK_SIZE = CHUNK_DATA_SIZE + Header
  /\ APPLY_PHY_MEMORY \in Nat /\ APPLY_PHY_MEMORY >= 2 * CHUNK_SIZE
  /\ PoolGap \in Nat /\ MaxLive \in Nat
  /\ \A a \in Area : hardware_mc[a] \in Nat
  /\ \A c \in Class : Size[c] \in 1..CHUNK_DATA_SIZE
BY ChunkAssumption DEF CHUNK_SIZE, Area, Class

\* The areas are numbered from one.
LEMMA Areas == Len(hardware_mc) \in Nat /\ Area = 1..Len(hardware_mc)
BY ChunkAssumption DEF Area

\* The blocks a chunk is cut into: at least one, and they fit.
LEMMA BlocksFit ==
  ASSUME NEW s \in 1..CHUNK_DATA_SIZE
  PROVE  /\ CHUNK_DATA_SIZE \div s \in Nat \ {0}
         /\ (CHUNK_DATA_SIZE \div s) * s <= CHUNK_DATA_SIZE
<1> DEFINE q == CHUNK_DATA_SIZE \div s
<1>1. CHUNK_DATA_SIZE \in Nat /\ s \in Nat \ {0} /\ s <= CHUNK_DATA_SIZE
  BY Sizes
<1>2. q \in Int /\ s * q <= CHUNK_DATA_SIZE /\ CHUNK_DATA_SIZE < s * (q + 1)
  BY <1>1
<1>3. q > 0
  <2>1. SUFFICES ASSUME q <= 0 PROVE FALSE
    BY <1>2
  <2>2. s * (q + 1) <= s
    <3> HIDE DEF q
    <3>1. q + 1 <= 1
      BY <2>1, <1>2
    <3>2. PICK z \in Int : z = q + 1
      BY <1>2
    <3> QED  BY <3>1, <3>2, <1>1
  <2> QED  BY <2>2, <1>1, <1>2
<1>4. q * s = s * q
  BY <1>1, <1>2
<1> QED  BY <1>2, <1>3, <1>4

-----------------------------------------------------------------------------
\* Lists of chunks: without repetitions.
Listed(s) == s \in Seq(Nat) /\ \A i, j \in 1..Len(s) : s[i] = s[j] => i = j

\* The members of a list, by place.
LEMMA Members ==
  ASSUME NEW s \in Seq(Nat)
  PROVE  ToSet(s) = {s[i] : i \in 1..Len(s)}
BY DEF ToSet

\* A list without members is empty.
LEMMA NoMembers == Listed(<<>>) /\ ToSet(<<>>) = {}
BY DEF Listed, ToSet

\* Taking the first off a list.
LEMMA ListTail ==
  ASSUME NEW s, Listed(s), s # <<>>
  PROVE  /\ Head(s) \in ToSet(s)
         /\ Listed(Tail(s)) /\ ToSet(Tail(s)) = ToSet(s) \ {Head(s)}
<1>1. s \in Seq(Nat) /\ Len(s) \in Nat \ {0} /\ Head(s) = s[1] /\ Tail(s) \in Seq(Nat)
  BY DEF Listed
<1>2. Len(Tail(s)) = Len(s) - 1 /\ \A i \in 1..Len(s) - 1 : Tail(s)[i] = s[i + 1]
  BY <1>1
<1>3. Listed(Tail(s))
  <2> SUFFICES ASSUME NEW i \in 1..Len(s) - 1, NEW j \in 1..Len(s) - 1,
                      Tail(s)[i] = Tail(s)[j]
               PROVE  i = j
    BY <1>1, <1>2 DEF Listed
  <2>1. i + 1 \in 1..Len(s) /\ j + 1 \in 1..Len(s) /\ s[i + 1] = s[j + 1]
    BY <1>1, <1>2
  <2> QED  BY <2>1, <1>1 DEF Listed
<1>4. ToSet(s) = {s[i] : i \in 1..Len(s)}
  BY <1>1, Members
<1>5. ToSet(Tail(s)) = {Tail(s)[i] : i \in 1..Len(s) - 1}
  BY <1>1, <1>2, Members
<1>6. \A i \in 1..Len(s) - 1 : Tail(s)[i] \in ToSet(s) \ {Head(s)}
  <2> TAKE i \in 1..Len(s) - 1
  <2>1. i + 1 \in 1..Len(s) /\ 1 \in 1..Len(s) /\ i + 1 # 1 /\ Tail(s)[i] = s[i + 1]
    BY <1>1, <1>2
  <2> QED  BY <2>1, <1>1, <1>4 DEF Listed
<1>7. \A x \in ToSet(s) \ {Head(s)} : x \in ToSet(Tail(s))
  <2> TAKE x \in ToSet(s) \ {Head(s)}
  <2>1. PICK i \in 1..Len(s) : x = s[i]
    BY <1>4
  <2>2. i - 1 \in 1..Len(s) - 1
    BY <2>1, <1>1
  <2>3. Tail(s)[i - 1] = s[i]
    BY <2>2, <1>2
  <2> QED  BY <2>1, <2>2, <2>3, <1>5
<1>8. Head(s) \in ToSet(s)
  BY <1>1, <1>4
<1> QED  BY <1>3, <1>5, <1>6, <1>7, <1>8

\* Putting one at the end of a list.
LEMMA ListAppend ==
  ASSUME NEW s, Listed(s), NEW x \in Nat, x \notin ToSet(s)
  PROVE  Listed(Append(s, x)) /\ ToSet(Append(s, x)) = ToSet(s) \cup {x}
<1> DEFINE a == Append(s, x)
<1>1. s \in Seq(Nat) /\ Len(s) \in Nat /\ a \in Seq(Nat) /\ Len(a) = Len(s) + 1
  BY DEF Listed
<1>2. a[Len(s) + 1] = x /\ \A i \in 1..Len(s) : a[i] = s[i]
  BY <1>1
<1>3. ToSet(s) = {s[i] : i \in 1..Len(s)} /\ ToSet(a) = {a[i] : i \in 1..Len(a)}
  BY <1>1, Members
<1>4. Listed(a)
  <2> SUFFICES ASSUME NEW i \in 1..Len(a), NEW j \in 1..Len(a), a[i] = a[j]
               PROVE  i = j
    BY <1>1 DEF Listed
  <2>1. CASE i \in 1..Len(s) /\ j \in 1..Len(s)
    BY <2>1, <1>2 DEF Listed
  <2>2. CASE i = Len(s) + 1 \/ j = Len(s) + 1
    BY <2>2, <1>1, <1>2, <1>3
  <2> QED  BY <2>1, <2>2, <1>1
<1>5. ToSet(a) = ToSet(s) \cup {x}
  <2>1. \A i \in 1..Len(a) : a[i] \in ToSet(s) \cup {x}
    BY <1>1, <1>2, <1>3
  <2>2. \A i \in 1..Len(s) : s[i] \in ToSet(a)
    BY <1>1, <1>2, <1>3
  <2>3. x \in ToSet(a)
    BY <1>1, <1>2, <1>3
  <2> QED  BY <2>1, <2>2, <2>3, <1>3
<1> QED  BY <1>4, <1>5

\* Putting one at the front of a list.
LEMMA ListPush ==
  ASSUME NEW s, Listed(s), NEW x \in Nat, x \notin ToSet(s)
  PROVE  /\ Listed(<<x>> \o s) /\ ToSet(<<x>> \o s) = ToSet(s) \cup {x}
         /\ Len(<<x>> \o s) = Len(s) + 1
<1> DEFINE a == <<x>> \o s
<1>1. s \in Seq(Nat) /\ Len(s) \in Nat /\ a \in Seq(Nat) /\ Len(a) = Len(s) + 1
  BY DEF Listed
<1>2. a[1] = x /\ \A i \in 1..Len(s) : a[i + 1] = s[i]
  BY <1>1
<1>3. ToSet(s) = {s[i] : i \in 1..Len(s)} /\ ToSet(a) = {a[i] : i \in 1..Len(a)}
  BY <1>1, Members
<1>4. \A i \in 1..Len(a) : i = 1 \/ (i - 1 \in 1..Len(s) /\ a[i] = s[i - 1])
  <2> TAKE i \in 1..Len(a)
  <2>1. CASE i # 1
    <3>1. i - 1 \in 1..Len(s) /\ (i - 1) + 1 = i
      BY <2>1, <1>1
    <3> QED  BY <3>1, <1>2
  <2> QED  BY <2>1
<1>5. Listed(a)
  <2> SUFFICES ASSUME NEW i \in 1..Len(a), NEW j \in 1..Len(a), a[i] = a[j]
               PROVE  i = j
    BY <1>1 DEF Listed
  <2>1. CASE i = 1 \/ j = 1
    BY <2>1, <1>2, <1>3, <1>4
  <2>2. CASE i # 1 /\ j # 1
    <3>1. i - 1 \in 1..Len(s) /\ j - 1 \in 1..Len(s) /\ s[i - 1] = s[j - 1]
      BY <2>2, <1>4
    <3>2. i - 1 = j - 1
      BY <3>1 DEF Listed
    <3> QED  BY <3>2, <1>1
  <2> QED  BY <2>1, <2>2
<1>6. ToSet(a) = ToSet(s) \cup {x}
  <2>1. \A i \in 1..Len(a) : a[i] \in ToSet(s) \cup {x}
    BY <1>2, <1>3, <1>4
  <2>2. \A i \in 1..Len(s) : s[i] \in ToSet(a)
    <3> TAKE i \in 1..Len(s)
    <3>1. i + 1 \in 1..Len(a) /\ a[i + 1] = s[i]
      BY <1>1, <1>2
    <3> QED  BY <3>1, <1>3
  <2>3. x \in ToSet(a)
    <3>1. 1 \in 1..Len(a) /\ a[1] = x
      BY <1>1, <1>2
    <3> QED  BY <3>1, <1>3
  <2> QED  BY <2>1, <2>2, <2>3, <1>3
<1> QED  BY <1>1, <1>5, <1>6

\* Taking the last off a list.
LEMMA ListFront ==
  ASSUME NEW s, Listed(s), s # <<>>
  PROVE  /\ Last(s) \in ToSet(s)
         /\ Listed(Front(s)) /\ ToSet(Front(s)) = ToSet(s) \ {Last(s)}
         /\ Len(Front(s)) = Len(s) - 1
<1> DEFINE n == Len(s)
           a == Front(s)
<1>1. s \in Seq(Nat) /\ n \in Nat \ {0} /\ Last(s) = s[n]
  BY DEF Listed, Last
<1>2. a \in Seq(Nat) /\ Len(a) = n - 1 /\ \A i \in 1..n - 1 : a[i] = s[i]
  <2>1. PICK m \in Nat : m = n - 1
    BY <1>1
  <2>2. a = SubSeq(s, 1, m)
    BY <2>1 DEF Front
  <2>3. \A i \in 1..m : s[i] \in Nat /\ i \in 1..m - 1 + 1 /\ 1 + i - 1 = i
    BY <2>1, <1>1
  <2> HIDE DEF a
  <2>4. a \in Seq(Nat) /\ Len(a) = IF 1 <= m THEN m - 1 + 1 ELSE 0
    BY <2>2, <2>3, SubSeqProperties
  <2>5. \A i \in 1..m - 1 + 1 : a[i] = s[1 + i - 1]
    BY <2>2, <2>3, SubSeqProperties
  <2>6. Len(a) = m
    BY <2>4
  <2> QED  BY <2>1, <2>3, <2>4, <2>5, <2>6
<1>3. ToSet(s) = {s[i] : i \in 1..n} /\ ToSet(a) = {a[i] : i \in 1..n - 1}
  BY <1>1, <1>2, Members
<1>4. Listed(a)
  <2> SUFFICES ASSUME NEW i \in 1..n - 1, NEW j \in 1..n - 1, a[i] = a[j]
               PROVE  i = j
    BY <1>2 DEF Listed
  <2>1. i \in 1..n /\ j \in 1..n
    BY <1>1
  <2>2. s[i] = s[j]
    BY <1>2
  <2> QED  BY <2>1, <2>2 DEF Listed
<1>5. Last(s) \in ToSet(s)
  BY <1>1, <1>3
<1>6. \A i \in 1..n - 1 : a[i] \in ToSet(s) \ {Last(s)}
  <2> TAKE i \in 1..n - 1
  <2>1. i \in 1..n /\ n \in 1..n /\ i # n
    BY <1>1
  <2>2. a[i] = s[i]
    BY <1>2
  <2>3. s[i] # s[n]
    BY <2>1 DEF Listed
  <2> QED  BY <2>1, <2>2, <2>3, <1>1, <1>3
<1>7. \A x \in ToSet(s) \ {Last(s)} : x \in ToSet(a)
  <2> TAKE x \in ToSet(s) \ {Last(s)}
  <2>1. PICK i \in 1..n : x = s[i]
    BY <1>3
  <2>2. i \in 1..n - 1
    BY <2>1, <1>1
  <2>3. a[i] = x
    BY <2>1, <2>2, <1>2
  <2> QED  BY <2>2, <2>3, <1>3
<1>8. ToSet(a) = ToSet(s) \ {Last(s)}
  BY <1>3, <1>6, <1>7
<1> QED  BY ONLY <1>2, <1>4, <1>5, <1>8

\* Taking one out of the middle of a list.
LEMMA ListDel ==
  ASSUME NEW s, Listed(s), NEW x \in ToSet(s)
  PROVE  Listed(list_del(s, x)) /\ ToSet(list_del(s, x)) = ToSet(s) \ {x}
<1>1. PICK n \in Nat : n = Len(s)
  BY DEF Listed
<1>2. s \in Seq(Nat) /\ ToSet(s) = {s[i] : i \in 1..n} /\ DOMAIN s = 1..n
  BY <1>1, Members DEF Listed
<1>3. PICK k \in 1..n : k = (CHOOSE i \in DOMAIN s : s[i] = x) /\ s[k] = x
  BY <1>2
<1>4. PICK u : u = SubSeq(s, 1, k - 1)
  OBVIOUS
<1>5. u \in Seq(Nat) /\ Len(u) = k - 1 /\ \A i \in 1..k - 1 : u[i] = s[i]
  BY <1>1, <1>2, <1>4
<1>6. PICK v : v = SubSeq(s, k + 1, n)
  OBVIOUS
<1>7. v \in Seq(Nat) /\ Len(v) = n - k /\ \A i \in 1..n - k : v[i] = s[k + i]
  <2>1. PICK m \in Nat : m = k + 1
    OBVIOUS
  <2>2. v = SubSeq(s, m, n) /\ \A i \in m..n : s[i] \in Nat
    BY SMTT(30), <2>1, <1>1, <1>2, <1>6
  <2>3. /\ v \in Seq(Nat) /\ Len(v) = IF m <= n THEN n - m + 1 ELSE 0
        /\ \A i \in 1..n - m + 1 : v[i] = s[m + i - 1]
    BY <2>2, SubSeqProperties
  <2>4. Len(v) = n - k
    BY <2>1, <2>3
  <2>5. \A i \in 1..n - k : i \in 1..n - m + 1 /\ m + i - 1 = k + i
    BY <2>1
  <2> QED  BY <2>3, <2>4, <2>5
<1>8. PICK a : a = u \o v
  OBVIOUS
<1>9. a = list_del(s, x)
  BY <1>1, <1>3, <1>4, <1>6, <1>8 DEF list_del, RemoveAt
<1>10. /\ a \in Seq(Nat) /\ Len(a) = n - 1
       /\ \A i \in 1..k - 1 : a[i] = s[i]
       /\ \A i \in k..n - 1 : a[i] = s[i + 1]
  <2>1. a \in Seq(Nat) /\ Len(a) = (k - 1) + (n - k)
    <3>1. u \o v \in Seq(Nat) /\ Len(u \o v) = Len(u) + Len(v)
      BY <1>5, <1>7, ConcatProperties, Zenon
    <3> QED  BY <3>1, <1>5, <1>7, <1>8, Zenon
  <2>2. \A i \in 1..k - 1 : a[i] = s[i]
    BY SMTT(30), <1>5, <1>7, <1>8
  <2>3. ASSUME NEW i \in k..n - 1 PROVE a[i] = s[i + 1]
    <3>1. PICK j \in 1..n - k : j = i - (k - 1)
      BY <1>1
    <3>2. k + j = i + 1 /\ i \in 1..(k - 1) + (n - k) /\ ~(i <= k - 1)
      BY <3>1, <1>1
    <3>3. \A e \in 1..Len(u) + Len(v) : (u \o v)[e] = IF e <= Len(u) THEN u[e] ELSE v[e - Len(u)]
      BY <1>5, <1>7, ConcatProperties, Zenon
    <3>4. a[i] = v[j]
      BY <3>1, <3>2, <3>3, <1>5, <1>7, <1>8
    <3>5. v[j] = s[k + j]
      BY <1>7
    <3> QED  BY <3>2, <3>4, <3>5
  <2> QED  BY <2>1, <2>2, <2>3
<1>11. Listed(a)
  <2> SUFFICES ASSUME NEW i \in 1..n - 1, NEW j \in 1..n - 1, a[i] = a[j]
               PROVE  i = j
    BY <1>10 DEF Listed
  <2>1. PICK p \in 1..n : a[i] = s[p] /\ ((p = i /\ p < k) \/ (p = i + 1 /\ p > k))
    BY <1>10
  <2>2. PICK q \in 1..n : a[j] = s[q] /\ ((q = j /\ q < k) \/ (q = j + 1 /\ q > k))
    BY SMTT(30), <1>10
  <2>3. p = q
    BY <2>1, <2>2, <1>1 DEF Listed
  <2> QED  BY <2>1, <2>2, <2>3
<1>12. ToSet(a) = {a[i] : i \in 1..n - 1}
  BY <1>10, Members
<1>13. \A i \in 1..n - 1 : a[i] \in ToSet(s) \ {x}
  <2> TAKE i \in 1..n - 1
  <2>1. PICK p \in 1..n : a[i] = s[p] /\ p # k
    BY <1>10
  <2> QED  BY <2>1, <1>1, <1>2, <1>3 DEF Listed
<1>14. \A y \in ToSet(s) \ {x} : y \in ToSet(a)
  <2> TAKE y \in ToSet(s) \ {x}
  <2>1. PICK p \in 1..n : y = s[p]
    BY <1>2
  <2>2. p # k
    BY <2>1, <1>3
  <2>3. \E i \in 1..n - 1 : a[i] = s[p]
    <3>1. CASE p < k
      BY <3>1, <1>10
    <3>2. CASE p > k
      <4>1. p - 1 \in k..n - 1 /\ p - 1 \in 1..n - 1 /\ (p - 1) + 1 = p
        BY <3>2
      <4> QED  BY <4>1, <1>10
    <3> QED  BY <3>1, <3>2, <2>2
  <2> QED  BY <2>1, <2>3, <1>12
<1> QED  BY <1>9, <1>11, <1>12, <1>13, <1>14
-----------------------------------------------------------------------------
States == {"FORG", "BACK", "FULL"}

ChunkType ==
  [owner : Thread, state : States, size_cls : Class, blk_cnt : Nat, free_mem_cnt : Nat,
   free_tot_cnt : Nat, free_mem : Nat, dlist : Seq(Nat), wear_count : {0, 1}]

LiveType == [Thread -> SUBSET [at : Nat, size : Nat]]
ListType == [Thread -> [Class -> Seq(Nat)]]

\* Where the blocks in use of a chunk are, when the threads hold lv.
HeldIn(lv, ch) == {b.at : b \in {d \in UNION {lv[t] : t \in Thread} : ChunkOf(d.at) = ch}}

\* Where the i-th block of a chunk is that is cut into blocks of size s, and
\* where the first n are.
BlockAt(ch, s, i) == ch + Header + i * s
Carved(ch, s, n)  == {BlockAt(ch, s, i) : i \in 0..n - 1}

\* The header k of chunk ch agrees with the blocks in use: those and the
\* freed ones are the blocks in front of the untouched end.
HeaderGood(ch, k, use) ==
  LET s == Size[k.size_cls]
      n == k.blk_cnt - k.free_mem_cnt
  IN  /\ k \in ChunkType
      /\ k.blk_cnt = CHUNK_DATA_SIZE \div s
      /\ n \in Nat
      /\ k.free_mem = BlockAt(ch, s, n)
      /\ Listed(k.dlist)
      /\ k.free_tot_cnt = k.free_mem_cnt + Len(k.dlist)
      /\ use \cap ToSet(k.dlist) = {}
      /\ use \cup ToSet(k.dlist) = Carved(ch, s, n)

\* Chunk ch with header k is where its state says, and there once.
PlaceGood(ch, k, F, B, L) ==
  /\ \A t \in Thread : \A c \in Class :
       F[t][c] = ch => /\ t = k.owner /\ k.state = "FORG"
                       /\ \A d \in Class : F[t][d] = ch => d = c
  /\ \A t \in Thread : \A c \in Class :
       ch \in ToSet(B[t][c]) => /\ t = k.owner /\ c = k.size_cls /\ k.state = "BACK"
                                /\ ch \notin ToSet(L[t])
  /\ \A t \in Thread :
       ch \in ToSet(L[t]) => t = k.owner /\ k.state = "BACK" /\ k.free_tot_cnt = k.blk_cnt
  /\ k.state = "FORG" => \E c \in Class : F[k.owner][c] = ch
  /\ k.state = "BACK" => ch \in ToSet(B[k.owner][k.size_cls]) \/ ch \in ToSet(L[k.owner])
  /\ k.state = "FULL" <=> k.free_tot_cnt = 0

\* Foregrounds and lists are of chunks that exist.
ListsGood(D, F, B, L) ==
  /\ F \in [Thread -> [Class -> Nat]]
  /\ B \in ListType /\ L \in [Thread -> Seq(Nat)]
  /\ \A t \in Thread : \A c \in Class :
       F[t][c] \in D \cup {DUMMY} /\ Listed(B[t][c]) /\ ToSet(B[t][c]) \subseteq D
  /\ \A t \in Thread : Listed(L[t]) /\ ToSet(L[t]) \subseteq D

\* Blocks in use are of chunks their holder owns, and each is held once.
LiveGood(C, lv) ==
  /\ lv \in LiveType
  /\ \A t \in Thread : \A b \in lv[t] :
       /\ ChunkOf(b.at) \in DOMAIN C /\ C[ChunkOf(b.at)].owner = t
       /\ \A d \in lv[t] : d.at = b.at => d = b

\* The chunks of an area.
Mine(D, a) == {ch \in D : PoolOf(ch) = a}

\* The pool p of area a has mapped segs segments and passed slots chunks, for
\* the chunks of the area among D.
PoolGrown(a, p, n, segs, slots) ==
  /\ p.pool_end = RAW_POOL_START(a) + segs * APPLY_PHY_MEMORY
  /\ p.free_start = Align(RAW_POOL_START(a)) + slots * CHUNK_SIZE
  /\ p.free_start <= p.pool_end
  /\ slots <= n + segs - 1 /\ slots <= 2 * n

PoolType == [free_start : Nat, pool_end : Nat, used_mc : Nat, free_list : {<<>>}]

PoolGood(a, p, D) ==
  LET n == Cardinality(Mine(D, a))
  IN  /\ p \in PoolType
      /\ IsFiniteSet(Mine(D, a))
      /\ p.used_mc = CHUNK_DATA_SIZE * n
      /\ n = 0 \/ p.used_mc - CHUNK_DATA_SIZE + APPLY_PHY_MEMORY < hardware_mc[a]
      /\ \E segs \in 1..n + 1 : \E slots \in 0..2 * n : PoolGrown(a, p, n, segs, slots)
      /\ \A ch \in Mine(D, a) :
           /\ ch >= RAW_POOL_START(a) /\ ch + CHUNK_SIZE <= RAW_POOL_START(a) + PoolGap
           /\ ch + CHUNK_SIZE <= p.free_start

ChunksGood(C, F, B, L, lv) ==
  /\ DOMAIN C \in SUBSET (Nat \ {DUMMY})
  /\ \A ch \in DOMAIN C : /\ HeaderGood(ch, C[ch], HeldIn(lv, ch))
                          /\ PlaceGood(ch, C[ch], F, B, L)
                          /\ ChunkOf(ch) = ch
  /\ ListsGood(DOMAIN C, F, B, L)
  /\ LiveGood(C, lv)

PoolsGood(P, D) ==
  /\ P \in [Area -> PoolType]
  /\ \A a \in Area : PoolGood(a, P[a], D)
  /\ \A ch \in D : PoolOf(ch) \in Area

IInv ==
  /\ ChunksGood(chunk, foreground, background, free_list, live)
  /\ PoolsGood(pool, Chunks)
-----------------------------------------------------------------------------
\* The header found for an address inside a chunk is the chunk's.
LEMMA ChunkOfInside ==
  ASSUME NEW ch \in Nat, ChunkOf(ch) = ch, NEW x \in Nat, ch <= x, x < ch + CHUNK_SIZE
  PROVE  ChunkOf(x) = ch
<1>1. PICK m \in Nat \ {0} : m = CHUNK_SIZE
  BY Sizes
<1>2. ch % m = 0
  BY <1>1 DEF ChunkOf
<1>3. PICK q \in Nat : ch = q * m
  <2>1. ch \div m \in Nat /\ ch = m * (ch \div m) + (ch % m)
    BY <1>1
  <2>2. m * (ch \div m) = (ch \div m) * m
    BY <2>1, <1>1
  <2> QED  BY <2>1, <2>2, <1>2
<1>4. PICK r \in 0..m - 1 : x = ch + r
  <2>1. x - ch \in 0..m - 1
    BY <1>1
  <2> QED  BY <2>1
<1>5. x % m = r
  BY <1>3, <1>4, DivMod
<1> QED  BY <1>1, <1>4, <1>5 DEF ChunkOf

\* Chunks lie apart.
LEMMA ChunksApart ==
  ASSUME NEW c \in Nat, ChunkOf(c) = c, NEW d \in Nat, ChunkOf(d) = d, c < d
  PROVE  c + CHUNK_SIZE <= d
<1>1. SUFFICES ASSUME d < c + CHUNK_SIZE PROVE FALSE
  BY Sizes
<1> QED  BY <1>1, ChunkOfInside

\* The blocks of a chunk lie inside of it, behind its header.
LEMMA BlockInside ==
  ASSUME NEW ch \in Nat, NEW s \in 1..CHUNK_DATA_SIZE, NEW i \in 0..(CHUNK_DATA_SIZE \div s) - 1
  PROVE  /\ BlockAt(ch, s, i) \in Nat
         /\ ch + Header <= BlockAt(ch, s, i)
         /\ BlockAt(ch, s, i) + s <= ch + CHUNK_SIZE
<1>1. PICK n \in Nat \ {0} : n = CHUNK_DATA_SIZE \div s /\ n * s <= CHUNK_DATA_SIZE
  BY BlocksFit
<1>2. i \in Nat /\ i + 1 <= n /\ s \in Nat
  BY <1>1, Sizes
<1>3. i * s \in Nat /\ (i + 1) * s = i * s + s /\ (i + 1) * s <= n * s
  BY <1>2
<1>4. i * s + s <= CHUNK_DATA_SIZE
  BY <1>1, <1>2, <1>3, Sizes
<1> QED  BY <1>2, <1>3, <1>4, Sizes DEF BlockAt

\* The blocks of a chunk lie apart.
LEMMA BlocksApart ==
  ASSUME NEW ch \in Nat, NEW s \in Nat, NEW i \in Nat, NEW j \in Nat, i < j
  PROVE  BlockAt(ch, s, i) + s <= BlockAt(ch, s, j)
<1>1. (i + 1) * s <= j * s /\ (i + 1) * s = i * s + s
  BY SMT
<1>2. i * s \in Nat /\ j * s \in Nat
  OBVIOUS
<1> QED  BY <1>1, <1>2, Sizes DEF BlockAt

\* One block more of the untouched end.
LEMMA CarvedMore ==
  ASSUME NEW ch \in Nat, NEW s \in Nat \ {0}, NEW n \in Nat
  PROVE  /\ Carved(ch, s, n + 1) = Carved(ch, s, n) \cup {BlockAt(ch, s, n)}
         /\ BlockAt(ch, s, n) \notin Carved(ch, s, n)
         /\ BlockAt(ch, s, n + 1) = BlockAt(ch, s, n) + s
<1>1. 0..(n + 1) - 1 = (0..n - 1) \cup {n}
  OBVIOUS
<1>2. Carved(ch, s, n + 1) = Carved(ch, s, n) \cup {BlockAt(ch, s, n)}
  BY <1>1 DEF Carved
<1>3. BlockAt(ch, s, n) \notin Carved(ch, s, n)
  <2> SUFFICES ASSUME NEW i \in 0..n - 1, BlockAt(ch, s, n) = BlockAt(ch, s, i)
               PROVE  FALSE
    BY DEF Carved
  <2>1. BlockAt(ch, s, i) + s <= BlockAt(ch, s, n)
    BY BlocksApart
  <2>2. BlockAt(ch, s, i) \in Nat
    <3>1. i * s \in Nat
      OBVIOUS
    <3> QED  BY <3>1, Sizes DEF BlockAt
  <2> QED  BY <2>1, <2>2
<1>4. BlockAt(ch, s, n + 1) = BlockAt(ch, s, n) + s
  <2>1. (n + 1) * s = n * s + s /\ n * s \in Nat
    OBVIOUS
  <2> QED  BY <2>1, Sizes DEF BlockAt
<1> QED  BY <1>2, <1>3, <1>4

\* As many blocks as numbers.
LEMMA CarvedCount ==
  ASSUME NEW ch \in Nat, NEW s \in Nat \ {0}, NEW n \in Nat
  PROVE  IsFiniteSet(Carved(ch, s, n)) /\ Cardinality(Carved(ch, s, n)) = n
<1>1. PICK f : f = [i \in 1..n |-> BlockAt(ch, s, i - 1)]
  OBVIOUS
<1>2. \A i \in 1..n : f[i] = BlockAt(ch, s, i - 1) /\ i - 1 \in 0..n - 1
  BY <1>1
<1>3. f \in [1..n -> Carved(ch, s, n)]
  BY <1>1, <1>2 DEF Carved
<1>4. \A i, j \in 1..n : f[i] = f[j] => i = j
  <2> SUFFICES ASSUME NEW i \in 1..n, NEW j \in 1..n, f[i] = f[j], i < j
               PROVE  FALSE
    OBVIOUS
  <2>1. i - 1 \in Nat /\ j - 1 \in Nat /\ i - 1 < j - 1
    OBVIOUS
  <2>2. BlockAt(ch, s, i - 1) + s <= BlockAt(ch, s, j - 1)
    BY <2>1, BlocksApart
  <2>3. BlockAt(ch, s, i - 1) \in Nat
    <3>1. (i - 1) * s \in Nat
      BY <2>1
    <3> QED  BY <3>1, Sizes DEF BlockAt
  <2> QED  BY <2>2, <2>3, <1>2
<1>5. \A x \in Carved(ch, s, n) : \E i \in 1..n : f[i] = x
  <2> SUFFICES ASSUME NEW i \in 0..n - 1 PROVE \E j \in 1..n : f[j] = BlockAt(ch, s, i)
    BY DEF Carved
  <2>1. i + 1 \in 1..n /\ (i + 1) - 1 = i
    OBVIOUS
  <2> QED  BY <2>1, <1>2
<1> QED  BY <1>3, <1>4, <1>5, CountedSet

\* As many members of a list as places.
LEMMA ListCount ==
  ASSUME NEW s, Listed(s)
  PROVE  IsFiniteSet(ToSet(s)) /\ Cardinality(ToSet(s)) = Len(s)
<1>1. s \in [1..Len(s) -> ToSet(s)] /\ Len(s) \in Nat
  BY DEF Listed, ToSet
<1>2. \A x \in ToSet(s) : \E i \in 1..Len(s) : s[i] = x
  BY Members DEF Listed
<1> QED  BY <1>1, <1>2, CountedSet DEF Listed

\* A block is free or in use.
LEMMA HeaderCounts ==
  ASSUME NEW ch \in Nat, NEW k, NEW use, HeaderGood(ch, k, use)
  PROVE  /\ IsFiniteSet(use) /\ Cardinality(use) \in Nat
         /\ k.free_tot_cnt + Cardinality(use) = k.blk_cnt
         /\ k.blk_cnt \in Nat \ {0}
<1>1. PICK s \in 1..CHUNK_DATA_SIZE : s = Size[k.size_cls]
  BY Sizes DEF HeaderGood, ChunkType
<1>2. PICK n \in Nat : n = k.blk_cnt - k.free_mem_cnt
  BY DEF HeaderGood
<1>3. s \in Nat \ {0}
  BY Sizes
<1>4. PICK W : W = Carved(ch, s, n)
  OBVIOUS
<1>5. IsFiniteSet(W) /\ Cardinality(W) = n
  BY <1>3, <1>4, CarvedCount
<1>6. PICK U : U = ToSet(k.dlist)
  OBVIOUS
<1>7. IsFiniteSet(U) /\ Cardinality(U) = Len(k.dlist)
  BY <1>6, ListCount DEF HeaderGood
<1>8. use \cap U = {} /\ use \cup U = W
  BY <1>1, <1>2, <1>4, <1>6 DEF HeaderGood
<1>9. IsFiniteSet(use)
  <2>1. use \subseteq W
    BY <1>8
  <2> QED  BY <2>1, <1>5, FS_Subset, Zenon
<1>10. Cardinality(use \cap U) = 0
  BY <1>8, FS_EmptySet, Zenon
<1>11. Cardinality(use \cup U) = Cardinality(use) + Cardinality(U) - Cardinality(use \cap U)
  BY <1>7, <1>9, FS_Union, Zenon
<1>12. Cardinality(use) \in Nat
  BY <1>9, FS_CardinalityType, Zenon
<1>13. Len(k.dlist) \in Nat /\ k.free_mem_cnt \in Nat /\ k.blk_cnt \in Nat
       /\ k.free_tot_cnt = k.free_mem_cnt + Len(k.dlist)
  BY DEF HeaderGood, ChunkType
<1>14. n = Cardinality(use) + Len(k.dlist)
  <2>1. PICK u \in Nat : u = Cardinality(use)
    BY <1>12
  <2>2. PICK l \in Nat : l = Len(k.dlist)
    BY <1>13
  <2>3. n = u + l - 0
    BY <2>1, <2>2, <1>5, <1>7, <1>8, <1>10, <1>11, Zenon
  <2> QED  BY ONLY <2>1, <2>2, <2>3, n \in Nat
<1>15. k.blk_cnt \in Nat \ {0}
  BY <1>1, BlocksFit DEF HeaderGood
<1>16. k.free_tot_cnt + Cardinality(use) = k.blk_cnt
  <2>1. PICK u \in Nat : u = Cardinality(use)
    BY <1>12
  <2>2. PICK l \in Nat : l = Len(k.dlist)
    BY <1>13
  <2>3. PICK f \in Nat : f = k.free_mem_cnt
    BY <1>13
  <2>4. PICK z \in Nat : z = k.blk_cnt
    BY <1>13
  <2>5. k.free_tot_cnt = f + l /\ n = z - f /\ n = u + l
    BY <2>1, <2>2, <2>3, <2>4, <1>2, <1>13, <1>14, Zenon
  <2>6. (f + l) + u = z
    BY ONLY <2>5, f \in Nat, l \in Nat, u \in Nat, z \in Nat
  <2> QED  BY <2>1, <2>4, <2>5, <2>6, Zenon
<1> QED  BY <1>9, <1>12, <1>15, <1>16, Zenon

\* A thread gets block b, and gives it back.
Gets(lv, t, b)  == [lv EXCEPT ![t] = @ \cup {b}]
Gives(lv, t, b) == [lv EXCEPT ![t] = @ \ {b}]

\* A block handed out is in use in its chunk, and in no other.
LEMMA HeldAdd ==
  ASSUME NEW lv \in LiveType, NEW t \in Thread, NEW b,
         NEW lw, lw = Gets(lv, t, b), NEW ch
  PROVE  HeldIn(lw, ch) = HeldIn(lv, ch) \cup (IF ChunkOf(b.at) = ch THEN {b.at} ELSE {})
<1>1. PICK A : A = UNION {lv[u] : u \in Thread}
  OBVIOUS
<1>2. PICK A2 : A2 = UNION {lw[u] : u \in Thread}
  OBVIOUS
<1>3. A2 = A \cup {b}
  <2>1. \A u \in Thread : lw[u] = IF u = t THEN lv[u] \cup {b} ELSE lv[u]
    BY DEF LiveType, Gets
  <2>2. \A d : d \in A <=> \E u \in Thread : d \in lv[u]
    BY <1>1
  <2>3. \A d : d \in A2 <=> \E u \in Thread : d \in lw[u]
    BY <1>2
  <2> QED  BY <2>1, <2>2, <2>3
<1>4. HeldIn(lv, ch) = {d.at : d \in {e \in A : ChunkOf(e.at) = ch}}
  BY <1>1 DEF HeldIn
<1>5. HeldIn(lw, ch) = {d.at : d \in {e \in A2 : ChunkOf(e.at) = ch}}
  BY <1>2 DEF HeldIn
<1> QED  BY <1>3, <1>4, <1>5

\* A block given back is no longer in use, and the others are.
LEMMA HeldDrop ==
  ASSUME NEW C, NEW lv, LiveGood(C, lv), NEW t \in Thread, NEW b \in lv[t],
         NEW lw, lw = Gives(lv, t, b), NEW ch
  PROVE  HeldIn(lw, ch) = HeldIn(lv, ch) \ (IF ChunkOf(b.at) = ch THEN {b.at} ELSE {})
<1>1. /\ lv \in LiveType /\ lw \in LiveType
      /\ \A u \in Thread : lw[u] = IF u = t THEN lv[u] \ {b} ELSE lv[u]
  BY DEF LiveGood, LiveType, Gives
<1>2. \A u \in Thread : \A d \in lv[u] : d.at = b.at => u = t /\ d = b
  BY DEF LiveGood
<1>3. PICK A : A = UNION {lv[u] : u \in Thread}
  OBVIOUS
<1>4. PICK A2 : A2 = UNION {lw[u] : u \in Thread}
  OBVIOUS
<1>5. b \in A /\ \A d \in A : d.at = b.at => d = b
  BY <1>2, <1>3
<1>6. A2 = A \ {b}
  <2>1. \A d : d \in A <=> \E u \in Thread : d \in lv[u]
    BY <1>3
  <2>2. \A d : d \in A2 <=> \E u \in Thread : d \in lw[u]
    BY <1>4
  <2>3. \A u \in Thread : b \in lv[u] => u = t
    BY <1>2
  <2> QED  BY <2>1, <2>2, <2>3, <1>1
<1>7. HeldIn(lv, ch) = {d.at : d \in {e \in A : ChunkOf(e.at) = ch}}
  BY <1>3 DEF HeldIn
<1>8. HeldIn(lw, ch) = {d.at : d \in {e \in A2 : ChunkOf(e.at) = ch}}
  BY <1>4 DEF HeldIn
<1> QED  BY <1>5, <1>6, <1>7, <1>8
-----------------------------------------------------------------------------
Put(F, t, c, x) == [F EXCEPT ![t][c] = x]

\* The place of a chunk is not affected.
SamePlace(d, F, B, L, F2, B2, L2) ==
  /\ \A u \in Thread : \A e \in Class : F2[u][e] = d <=> F[u][e] = d
  /\ \A u \in Thread : \A e \in Class : d \in ToSet(B2[u][e]) <=> d \in ToSet(B[u][e])
  /\ \A u \in Thread : d \in ToSet(L2[u]) <=> d \in ToSet(L[u])

\* A chunk whose place is not affected stays where its state says.
LEMMA StaysPlaced ==
  ASSUME NEW d, NEW k, k.owner \in Thread, k.size_cls \in Class,
         NEW F, NEW B, NEW L, PlaceGood(d, k, F, B, L),
         NEW F2, NEW B2, NEW L2, SamePlace(d, F, B, L, F2, B2, L2)
  PROVE  PlaceGood(d, k, F2, B2, L2)
BY DEF PlaceGood, SamePlace

\* A call that changes one header and the place of that chunk only.
LEMMA OneChunk ==
  ASSUME NEW C, NEW F, NEW B, NEW L, NEW lv, ChunksGood(C, F, B, L, lv),
         NEW ch \in DOMAIN C, NEW k, NEW C2, C2 = [C EXCEPT ![ch] = k],
         NEW F2, NEW B2, NEW L2, NEW lw,
         \A d \in DOMAIN C \ {ch} : HeldIn(lw, d) = HeldIn(lv, d),
         \A d \in DOMAIN C \ {ch} : SamePlace(d, F, B, L, F2, B2, L2),
         HeaderGood(ch, k, HeldIn(lw, ch)), PlaceGood(ch, k, F2, B2, L2),
         ListsGood(DOMAIN C, F2, B2, L2),
         k.owner = C[ch].owner, LiveGood(C, lw)
  PROVE  ChunksGood(C2, F2, B2, L2, lw)
<1>1. DOMAIN C2 = DOMAIN C
  OBVIOUS
<1>2. C2[ch] = k /\ \A d \in DOMAIN C \ {ch} : C2[d] = C[d]
  OBVIOUS
<1>3. LiveGood(C2, lw)
  BY <1>1, <1>2 DEF LiveGood
<1>4. ASSUME NEW d \in DOMAIN C
      PROVE  HeaderGood(d, C2[d], HeldIn(lw, d)) /\ PlaceGood(d, C2[d], F2, B2, L2)
  <2>1. CASE d = ch
    BY <2>1, <1>2
  <2>2. CASE d # ch
    <3>1. HeaderGood(d, C[d], HeldIn(lv, d)) /\ PlaceGood(d, C[d], F, B, L)
      BY DEF ChunksGood
    <3>2. C[d].owner \in Thread /\ C[d].size_cls \in Class
      BY <3>1 DEF HeaderGood, ChunkType
    <3>3. PlaceGood(d, C[d], F2, B2, L2)
      BY <2>2, <3>1, <3>2, StaysPlaced
    <3> QED  BY <2>2, <3>1, <3>3, <1>2
  <2> QED  BY <2>1, <2>2
<1> QED  BY <1>1, <1>3, <1>4 DEF ChunksGood

\* The state of a chunk is not about its blocks.
LEMMA StateHeader ==
  ASSUME NEW ch, NEW k, NEW use, HeaderGood(ch, k, use), NEW st \in States
  PROVE  HeaderGood(ch, [k EXCEPT !.state = st], use)
<1>1. k \in ChunkType
  BY DEF HeaderGood
<1>2. PICK m : m = [k EXCEPT !.state = st]
  OBVIOUS
<1>3. /\ m \in ChunkType /\ m.size_cls = k.size_cls /\ m.blk_cnt = k.blk_cnt
      /\ m.free_mem_cnt = k.free_mem_cnt /\ m.free_mem = k.free_mem /\ m.dlist = k.dlist
      /\ m.free_tot_cnt = k.free_tot_cnt
  BY <1>1, <1>2 DEF ChunkType
<1> QED  BY <1>2, <1>3 DEF HeaderGood

InForeground(k) == [k EXCEPT !.state = "FORG"]

\* What a chunk of the heap is like.
LEMMA ChunkIs ==
  ASSUME NEW C, NEW F, NEW B, NEW L, NEW lv, ChunksGood(C, F, B, L, lv), NEW ch \in DOMAIN C
  PROVE  /\ ch \in Nat \ {DUMMY} /\ ChunkOf(ch) = ch
         /\ HeaderGood(ch, C[ch], HeldIn(lv, ch)) /\ PlaceGood(ch, C[ch], F, B, L)
         /\ C[ch] \in ChunkType /\ C[ch].owner \in Thread /\ C[ch].size_cls \in Class
BY DEF ChunksGood, HeaderGood, ChunkType
\* A chunk taken off the list it was on becomes the foreground of a class.
LEMMA ToForegroundGood ==
  ASSUME NEW C, NEW F, NEW B, NEW L, NEW lv, ChunksGood(C, F, B, L, lv),
         NEW t \in Thread, NEW c \in Class, F[t][c] = DUMMY,
         NEW ch \in DOMAIN C, C[ch].owner = t, C[ch].state = "BACK",
         NEW B2, NEW L2, ListsGood(DOMAIN C, F, B2, L2),
         \A d \in DOMAIN C \ {ch} : SamePlace(d, F, B, L, F, B2, L2),
         \A u \in Thread : ch \notin ToSet(L2[u]),
         \A u \in Thread : \A d \in Class : ch \notin ToSet(B2[u][d])
  PROVE  ChunksGood([C EXCEPT ![ch] = InForeground(C[ch])], Put(F, t, c, ch), B2, L2, lv)
<1>1. LiveGood(C, lv)
  BY DEF ChunksGood
<1>2. PICK k : k = C[ch]
  OBVIOUS
<1>3. /\ ch \in Nat \ {DUMMY} /\ HeaderGood(ch, k, HeldIn(lv, ch)) /\ PlaceGood(ch, k, F, B, L)
      /\ k \in ChunkType
  BY <1>2, ChunkIs
<1>4. PICK F2 : F2 = Put(F, t, c, ch)
  OBVIOUS
<1>5. F \in [Thread -> [Class -> Nat]]
  BY DEF ListsGood
<1>6. /\ F2 \in [Thread -> [Class -> Nat]] /\ F2[t][c] = ch
      /\ \A u \in Thread : \A d \in Class : u # t \/ d # c => F2[u][d] = F[u][d]
  BY <1>3, <1>4, <1>5 DEF Put
<1>7. PICK m : m = InForeground(k)
  OBVIOUS
<1>8. HeaderGood(ch, m, HeldIn(lv, ch))
  BY <1>3, <1>7, StateHeader DEF InForeground, States
<1>9. /\ m.owner = t /\ m.state = "FORG"
      /\ m.free_tot_cnt = k.free_tot_cnt /\ m.blk_cnt = k.blk_cnt
  BY <1>2, <1>3, <1>7 DEF InForeground, ChunkType
<1>10. \A u \in Thread : \A d \in Class : F2[u][d] = ch => u = t /\ d = c
  BY <1>2, <1>3, <1>6 DEF PlaceGood
<1>11. PlaceGood(ch, m, F2, B2, L2)
  <2>1. k.free_tot_cnt # 0
    BY <1>2, <1>3 DEF PlaceGood
  <2> QED  BY <2>1, <1>6, <1>9, <1>10 DEF PlaceGood
<1>12. \A d \in DOMAIN C \ {ch} : SamePlace(d, F, B, L, F2, B2, L2)
  <2> SUFFICES ASSUME NEW d \in DOMAIN C \ {ch} PROVE SamePlace(d, F, B, L, F2, B2, L2)
    OBVIOUS
  <2>1. d # DUMMY /\ SamePlace(d, F, B, L, F, B2, L2)
    BY ChunkIs
  <2>2. \A u \in Thread : \A e \in Class : F2[u][e] = d <=> F[u][e] = d
    <3> TAKE u \in Thread
    <3> TAKE e \in Class
    <3>1. CASE u = t /\ e = c
      BY <3>1, <2>1, <1>6
    <3> QED  BY <3>1, <1>6
  <2> QED  BY <2>1, <2>2 DEF SamePlace
<1>13. ListsGood(DOMAIN C, F2, B2, L2)
  <2>1. \A u \in Thread : \A d \in Class : F2[u][d] \in DOMAIN C \cup {DUMMY}
    <3>1. \A u \in Thread : \A d \in Class : F[u][d] \in DOMAIN C \cup {DUMMY}
      BY DEF ListsGood
    <3> TAKE u \in Thread
    <3> TAKE d \in Class
    <3>2. CASE u = t /\ d = c
      BY <3>2, <1>6
    <3> QED  BY <3>1, <3>2, <1>6
  <2> QED  BY <2>1, <1>6 DEF ListsGood
<1>14. PICK C2 : C2 = [C EXCEPT ![ch] = m]
  OBVIOUS
<1>15. ChunksGood(C2, F2, B2, L2, lv)
  BY <1>1, <1>2, <1>8, <1>9, <1>11, <1>12, <1>13, <1>14, OneChunk
<1> QED  BY <1>2, <1>4, <1>7, <1>14, <1>15

\* A chunk from the background list becomes the foreground.
LEMMA FromBackground ==
  ASSUME NEW C, NEW F, NEW B, NEW L, NEW lv, ChunksGood(C, F, B, L, lv),
         NEW t \in Thread, NEW c \in Class, F[t][c] = DUMMY,
         B[t][c] # <<>>, NEW ch, ch = Head(B[t][c])
  PROVE  /\ ch \in DOMAIN C /\ C[ch].owner = t
         /\ ChunksGood([C EXCEPT ![ch] = InForeground(C[ch])], Put(F, t, c, ch),
                       Put(B, t, c, Tail(B[t][c])), L, lv)
<1>1. ListsGood(DOMAIN C, F, B, L)
  BY DEF ChunksGood
<1>2. /\ F \in [Thread -> [Class -> Nat]] /\ B \in [Thread -> [Class -> Seq(Nat)]]
      /\ \A u \in Thread : \A d \in Class : Listed(B[u][d]) /\ ToSet(B[u][d]) \subseteq DOMAIN C
  BY <1>1 DEF ListsGood, ListType
<1>3. PICK s : s = Tail(B[t][c])
  OBVIOUS
<1>4. /\ ch \in ToSet(B[t][c]) /\ ch \in DOMAIN C
      /\ Listed(s) /\ ToSet(s) = ToSet(B[t][c]) \ {ch} /\ ToSet(s) \subseteq DOMAIN C
  BY <1>2, <1>3, ListTail
<1>5. PlaceGood(ch, C[ch], F, B, L)
  BY <1>4, ChunkIs
<1>6. C[ch].owner = t /\ C[ch].state = "BACK" /\ \A u \in Thread : ch \notin ToSet(L[u])
  BY SMTT(30), <1>4, <1>5 DEF PlaceGood
<1>7. \A u \in Thread : \A d \in Class : ch \in ToSet(B[u][d]) => u = t /\ d = c
  BY <1>4, <1>5 DEF PlaceGood
<1>8. PICK B2 : B2 = Put(B, t, c, s)
  OBVIOUS
<1>9. /\ B2 \in ListType /\ B2[t][c] = s
      /\ \A u \in Thread : \A d \in Class : u # t \/ d # c => B2[u][d] = B[u][d]
  BY <1>2, <1>4, <1>8 DEF Put, ListType, Listed
<1>10. \A u \in Thread : \A d \in Class :
         Listed(B2[u][d]) /\ ToSet(B2[u][d]) \subseteq DOMAIN C /\ ch \notin ToSet(B2[u][d])
  <2> TAKE u \in Thread
  <2> TAKE d \in Class
  <2>1. CASE u = t /\ d = c
    BY <2>1, <1>4, <1>9
  <2>2. CASE u # t \/ d # c
    BY <2>2, <1>2, <1>7, <1>9
  <2> QED  BY <2>1, <2>2
<1>11. \A d \in DOMAIN C \ {ch} : SamePlace(d, F, B, L, F, B2, L)
  <2> SUFFICES ASSUME NEW d \in DOMAIN C \ {ch}, NEW u \in Thread, NEW e \in Class
               PROVE  d \in ToSet(B2[u][e]) <=> d \in ToSet(B[u][e])
    BY DEF SamePlace
  <2>1. CASE u = t /\ e = c
    BY <2>1, <1>4, <1>9
  <2> QED  BY <2>1, <1>9
<1>12. ListsGood(DOMAIN C, F, B2, L)
  BY <1>1, <1>9, <1>10 DEF ListsGood
<1> QED  BY <1>3, <1>4, <1>6, <1>8, <1>10, <1>11, <1>12, ToForegroundGood

\* A chunk from the list of the emptied ones becomes the foreground, of a
\* class that need not be its own.
LEMMA FromFreeList ==
  ASSUME NEW C, NEW F, NEW B, NEW L, NEW lv, ChunksGood(C, F, B, L, lv),
         NEW t \in Thread, NEW c \in Class, F[t][c] = DUMMY,
         L[t] # <<>>, NEW ch, ch = Head(L[t])
  PROVE  /\ ch \in DOMAIN C /\ C[ch].owner = t
         /\ ChunksGood([C EXCEPT ![ch] = InForeground(C[ch])], Put(F, t, c, ch),
                       B, [L EXCEPT ![t] = Tail(L[t])], lv)
<1>1. ListsGood(DOMAIN C, F, B, L)
  BY DEF ChunksGood
<1>2. /\ L \in [Thread -> Seq(Nat)]
      /\ \A u \in Thread : Listed(L[u]) /\ ToSet(L[u]) \subseteq DOMAIN C
  BY <1>1 DEF ListsGood
<1>3. PICK s : s = Tail(L[t])
  OBVIOUS
<1>4. /\ ch \in ToSet(L[t]) /\ ch \in DOMAIN C
      /\ Listed(s) /\ ToSet(s) = ToSet(L[t]) \ {ch} /\ ToSet(s) \subseteq DOMAIN C
  BY <1>2, <1>3, ListTail
<1>5. PlaceGood(ch, C[ch], F, B, L)
  BY <1>4, ChunkIs
<1>6. C[ch].owner = t /\ C[ch].state = "BACK"
  BY <1>4, <1>5 DEF PlaceGood
<1>7. \A u \in Thread : \A d \in Class : ch \notin ToSet(B[u][d])
  BY <1>4, <1>5, <1>6 DEF PlaceGood
<1>8. \A u \in Thread : ch \in ToSet(L[u]) => u = t
  BY <1>5, <1>6 DEF PlaceGood
<1>9. PICK L2 : L2 = [L EXCEPT ![t] = s]
  OBVIOUS
<1>10. /\ L2 \in [Thread -> Seq(Nat)] /\ L2[t] = s
       /\ \A u \in Thread : u # t => L2[u] = L[u]
  BY <1>2, <1>4, <1>9 DEF Listed
<1>11. \A u \in Thread :
         Listed(L2[u]) /\ ToSet(L2[u]) \subseteq DOMAIN C /\ ch \notin ToSet(L2[u])
  <2> TAKE u \in Thread
  <2>1. CASE u = t
    BY <2>1, <1>4, <1>10
  <2> QED  BY <2>1, <1>2, <1>8, <1>10
<1>12. \A d \in DOMAIN C \ {ch} : SamePlace(d, F, B, L, F, B, L2)
  <2> SUFFICES ASSUME NEW d \in DOMAIN C \ {ch}, NEW u \in Thread
               PROVE  d \in ToSet(L2[u]) <=> d \in ToSet(L[u])
    BY DEF SamePlace
  <2>1. CASE u = t
    BY <2>1, <1>4, <1>10
  <2> QED  BY <2>1, <1>10
<1>13. ListsGood(DOMAIN C, F, B, L2)
  BY <1>1, <1>10, <1>11 DEF ListsGood
<1> QED  BY <1>3, <1>4, <1>6, <1>7, <1>9, <1>11, <1>12, <1>13, ToForegroundGood
-----------------------------------------------------------------------------
\* The next multiple of the length of a chunk.
LEMMA AlignAt ==
  ASSUME NEW q \in Nat, NEW r \in 0..CHUNK_SIZE - 1
  PROVE  Align(q * CHUNK_SIZE + r) = (IF r = 0 THEN q ELSE q + 1) * CHUNK_SIZE
<1>1. PICK m \in Nat \ {0} : m = CHUNK_SIZE
  BY Sizes
<1>2. CASE r = 0
  <2>1. q * m + r + m - 1 = q * m + (m - 1) /\ m - 1 \in 0..m - 1
    BY <1>2
  <2>2. (q * m + r + m - 1) \div m = q
    BY <2>1, DivMod
  <2> QED  BY <2>2, <1>1, <1>2 DEF Align
<1>3. CASE r # 0
  <2>1. r - 1 \in 0..m - 1 /\ q + 1 \in Nat
    BY <1>1, <1>3
  <2>2. (q + 1) * m = q * m + m /\ q * m \in Nat
    OBVIOUS
  <2>3. PICK e : e = q * m + r + m - 1
    OBVIOUS
  <2>4. e = (q + 1) * m + (r - 1)
    BY <2>2, <2>3, <1>1
  <2>5. ((q + 1) * m + (r - 1)) \div m = q + 1
    BY ONLY ZenonT(60), <2>1, m \in Nat \ {0}, DivMod
  <2>6. e \div m = q + 1
    BY <2>4, <2>5, Zenon
  <2> QED  BY <2>3, <2>6, <1>1, <1>3 DEF Align
<1> QED  BY <1>2, <1>3

\* It is less than a chunk away.
LEMMA AlignUp ==
  ASSUME NEW x \in Nat
  PROVE  \E q \in Nat : Align(x) = q * CHUNK_SIZE /\ x <= Align(x) /\ Align(x) < x + CHUNK_SIZE
<1>1. PICK m \in Nat \ {0} : m = CHUNK_SIZE
  BY Sizes
<1>2. PICK q \in Nat, r \in 0..m - 1 : x = q * m + r
  <2>1. x \div m \in Nat /\ x % m \in 0..m - 1 /\ x = m * (x \div m) + (x % m)
    BY <1>1
  <2>2. m * (x \div m) = (x \div m) * m
    BY <2>1, <1>1
  <2> QED  BY <2>1, <2>2
<1>3. q * m \in Nat /\ (q + 1) * m = q * m + m
  OBVIOUS
<1>4. Align(x) = (IF r = 0 THEN q ELSE q + 1) * m
  BY <1>1, <1>2, AlignAt
<1>5. CASE r = 0
  <2>1. Align(x) = q * m /\ x <= q * m /\ q * m < x + m
    BY <1>2, <1>3, <1>4, <1>5
  <2> QED  BY <2>1, <1>1
<1>6. CASE r # 0
  <2>1. Align(x) = (q + 1) * m /\ x <= (q + 1) * m /\ (q + 1) * m < x + m /\ q + 1 \in Nat
    BY <1>2, <1>3, <1>4, <1>6
  <2> QED  BY <2>1, <1>1
<1> QED  BY <1>5, <1>6

\* The start of an area, which is no chunk.
LEMMA AreaStart ==
  ASSUME NEW a \in Area
  PROVE  /\ RAW_POOL_START(a) \in Nat \ {0} /\ RAW_POOL_START(a) = (a - 1) * PoolGap + 1
         /\ \A b \in Area : a < b => RAW_POOL_START(a) + PoolGap <= RAW_POOL_START(b)
<1>1. a \in Nat \ {0} /\ PoolGap \in Nat
  BY Areas, Sizes
<1>2. (a - 1) * PoolGap \in Nat
  BY <1>1
<1>3. ASSUME NEW b \in Area, a < b
      PROVE  RAW_POOL_START(a) + PoolGap <= RAW_POOL_START(b)
  <2>1. b \in Nat /\ a <= b - 1
    BY <1>1, <1>3, Areas
  <2>2. a * PoolGap <= (b - 1) * PoolGap
    BY <2>1, <1>1
  <2>3. a * PoolGap = (a - 1) * PoolGap + PoolGap
    BY <1>1
  <2> QED  BY <2>1, <2>2, <2>3, <1>1, <1>2 DEF RAW_POOL_START
<1> QED  BY <1>2, <1>3 DEF RAW_POOL_START

\* An address within reach of an area's start is taken to be in the area.
LEMMA PoolOfInside ==
  ASSUME NEW a \in Area, NEW x \in Nat, RAW_POOL_START(a) <= x, x < RAW_POOL_START(a) + PoolGap
  PROVE  PoolOf(x) = a
<1>1. PICK S : S = {b \in Area : b = 1 \/ x >= RAW_POOL_START(b)}
  OBVIOUS
<1>2. S \subseteq Int /\ a \in S /\ a \in Int /\ \A b \in S : b \in Int
  BY <1>1, Areas
<1>3. \A b \in S : b <= a
  <2> SUFFICES ASSUME NEW b \in S, a < b PROVE FALSE
    BY <1>2
  <2>1. b # 1 /\ b \in Area /\ x >= RAW_POOL_START(b)
    BY <1>1, Areas
  <2>2. RAW_POOL_START(a) + PoolGap <= RAW_POOL_START(b)
    BY <2>1, AreaStart
  <2> QED  BY <2>1, <2>2, AreaStart, Sizes
<1>4. Max(S) \in S /\ \A b \in S : b <= Max(S)
  BY <1>2, <1>3, MaxOfSet
<1>5. PICK M : M = Max(S)
  OBVIOUS
<1>6. M \in Int /\ a \in Int /\ M <= a /\ a <= M
  BY <1>2, <1>3, <1>4, <1>5
<1> QED  BY <1>1, <1>5, <1>6 DEF PoolOf
\* A chunk of a pool with room: where the pool was free, after which one more
\* segment and one chunk more at most are gone.
LEMMA Acquires ==
  ASSUME NEW a \in Area, NEW p \in PoolType, NEW n \in Nat, NEW r, r = gpool_acquire_chunk(p),
         NEW segs \in 1..n + 1, NEW slots \in 0..2 * n, PoolGrown(a, p, n, segs, slots)
  PROVE  /\ r.chunk = p.free_start
         /\ r.pool \in PoolType /\ r.pool.used_mc = p.used_mc + CHUNK_DATA_SIZE
         /\ p.free_start + CHUNK_SIZE <= r.pool.free_start
         /\ \E segs2 \in 1..n + 2 : \E slots2 \in 0..2 * (n + 1) :
              PoolGrown(a, r.pool, n + 1, segs2, slots2)
<1>1. PICK m \in Nat \ {0} : m = CHUNK_SIZE /\ 2 * m <= APPLY_PHY_MEMORY
  BY Sizes
<1>2. PICK seg \in Nat : seg = APPLY_PHY_MEMORY /\ 2 * m <= seg
  BY <1>1, Sizes
<1>3. PICK base \in Nat : base = RAW_POOL_START(a)
  BY AreaStart
<1>4. PICK q \in Nat : Align(base) = q * m
  BY <1>1, AlignUp
<1>5. segs \in Nat /\ slots \in Nat /\ q * m \in Nat /\ slots * m \in Nat /\ segs * seg \in Nat
  BY <1>2
<1>6. PICK f \in Nat : f = p.free_start
  BY DEF PoolType
<1>7. PICK e \in Nat : e = p.pool_end
  BY DEF PoolType
<1>8. /\ e = base + segs * seg /\ f = q * m + slots * m /\ f <= e
      /\ slots <= n + segs - 1 /\ slots <= 2 * n
  BY <1>1, <1>2, <1>3, <1>4, <1>6, <1>7 DEF PoolGrown
<1>9. PICK u \in Nat : u = p.used_mc + CHUNK_DATA_SIZE
  BY Sizes DEF PoolType
<1>10. CASE f + m <= e
  <2>1. r.chunk = f /\ r.pool = [p EXCEPT !.free_start = f + m, !.used_mc = u]
    BY <1>1, <1>6, <1>7, <1>9, <1>10 DEF gpool_acquire_chunk, PoolType
  <2>2. /\ r.pool \in PoolType /\ r.pool.free_start = f + m /\ r.pool.pool_end = e
        /\ r.pool.used_mc = p.used_mc + CHUNK_DATA_SIZE
    <3>1. f + m \in Nat
      OBVIOUS
    <3> QED  BY <2>1, <3>1, <1>7, <1>9 DEF PoolType
  <2>3. (slots + 1) * m = slots * m + m
    BY <1>5
  <2>4. f + m = q * m + (slots + 1) * m
    BY <2>3, <1>5, <1>8
  <2>5. segs \in 1..n + 2 /\ slots + 1 \in 0..2 * (n + 1) /\ slots + 1 <= (n + 1) + segs - 1
        /\ slots + 1 <= 2 * (n + 1)
    BY <1>5, <1>8
  <2>6. PoolGrown(a, r.pool, n + 1, segs, slots + 1)
    BY <2>2, <2>4, <2>5, <1>1, <1>2, <1>3, <1>4, <1>8, <1>10 DEF PoolGrown
  <2> QED  BY <2>1, <2>2, <2>5, <2>6, <1>1, <1>6
<1>11. CASE ~(f + m <= e)
  <2>1. PICK g : g = Align(e)
    OBVIOUS
  <2>2. (q + slots) * m = q * m + slots * m
    BY <1>5
  <2>3. PICK j \in 0..m - 1 : e = (q + slots) * m + j
    <3>1. e - f \in 0..m - 1
      BY <1>8, <1>11
    <3> QED  BY <3>1, <2>2, <1>5, <1>8
  <2>4. g = (IF j = 0 THEN q + slots ELSE q + slots + 1) * m
    <3>1. q + slots \in Nat
      BY <1>5
    <3> QED  BY <3>1, <2>1, <2>3, <1>1, AlignAt
  <2>5. PICK more \in 0..1 : more = IF j = 0 THEN 0 ELSE 1
    OBVIOUS
  <2>6. g = f + more * m
    <3>1. (q + slots + 1) * m = (q + slots) * m + m /\ 0 * m = 0 /\ 1 * m = m
      BY <1>5
    <3> QED  BY <3>1, <2>2, <2>4, <2>5, <1>8
  <2>7. r.chunk = f
        /\ r.pool = [p EXCEPT !.free_start = g + m, !.pool_end = e + seg,
                              !.used_mc = u]
    BY <2>1, <1>1, <1>2, <1>6, <1>7, <1>9, <1>11 DEF gpool_acquire_chunk, PoolType
  <2>8. more * m \in 0..m
    BY <2>5
  <2>9. g \in Nat /\ f <= g /\ g <= f + m
    BY <2>6, <2>8
  <2>10. /\ r.pool \in PoolType /\ r.pool.free_start = g + m /\ r.pool.pool_end = e + seg
         /\ r.pool.used_mc = p.used_mc + CHUNK_DATA_SIZE
    <3>1. g + m \in Nat /\ e + seg \in Nat
      BY <2>9
    <3> QED  BY <2>7, <3>1, <1>9 DEF PoolType
  <2>11. PICK passed \in Nat : passed = slots + more + 1
    BY <1>5, <2>5
  <2>12. passed * m = slots * m + more * m + m
    BY <2>11, <2>5, <1>5
  <2>13. g + m = q * m + passed * m
    BY <2>6, <2>8, <2>12, <1>5, <1>8
  <2>14. /\ segs + 1 \in 1..n + 2 /\ passed \in 0..2 * (n + 1)
         /\ passed <= (n + 1) + (segs + 1) - 1 /\ passed <= 2 * (n + 1)
    BY <2>5, <2>11, <1>5, <1>8
  <2>15. (segs + 1) * seg = segs * seg + seg
    BY <1>5
  <2>16. e + seg = base + (segs + 1) * seg /\ g + m <= e + seg
    BY <2>9, <2>15, <1>2, <1>5, <1>8
  <2>17. PoolGrown(a, r.pool, n + 1, segs + 1, passed)
    BY <2>10, <2>13, <2>14, <2>16, <1>1, <1>2, <1>3, <1>4 DEF PoolGrown
  <2> QED  BY <2>7, <2>9, <2>10, <2>14, <2>17, <1>1, <1>6
<1> QED  BY <1>10, <1>11
\* The areas are far enough apart for the chunks they have room for.
LEMMA RoomWithin ==
  ASSUME NEW a \in Area, NEW n \in Nat, CHUNK_DATA_SIZE * n + APPLY_PHY_MEMORY < hardware_mc[a]
  PROVE  (2 * n + 2) * CHUNK_SIZE <= PoolGap
<1>1. PICK d \in Nat \ {0} : d = CHUNK_DATA_SIZE
  BY Sizes
<1>2. PICK m \in Nat \ {0} : m = CHUNK_SIZE /\ m = CHUNK_DATA_SIZE + Header
  BY Sizes
<1>3. PICK h \in Nat : h = hardware_mc[a] - APPLY_PHY_MEMORY /\ d * n < h
  <2>1. d * n \in Nat
    OBVIOUS
  <2> QED  BY <2>1, <1>1, Sizes
<1>4. PICK N \in Nat : N = h \div d /\ n <= N
  <2>1. PICK N \in Nat : N = h \div d /\ h < d * (N + 1)
    <3>1. h \div d \in Nat /\ h < d * (h \div d + 1)
      BY <1>1
    <3> QED  BY <3>1
  <2>2. ~(n >= N + 1)
    <3> SUFFICES ASSUME n >= N + 1 PROVE FALSE
      OBVIOUS
    <3>1. PICK j \in Nat : n = (N + 1) + j
      <4>1. n - (N + 1) \in Nat
        OBVIOUS
      <4> QED  BY <4>1
    <3>2. d * n = d * (N + 1) + d * j /\ d * j \in Nat /\ d * (N + 1) \in Nat
      BY <3>1
    <3> QED  BY <3>2, <2>1, <1>3
  <2> QED  BY <2>1, <2>2
<1>5. 2 * (N + 1) * m <= PoolGap
  <2>1. hardware_mc[a] > APPLY_PHY_MEMORY
    BY <1>3, Sizes
  <2>2. 2 * (h \div d + 1) * m <= PoolGap
    BY <2>1, <1>1, <1>2, <1>3, GapAssumption
  <2> QED  BY <2>2, <1>4
<1>6. (2 * n + 2) * m <= (2 * (N + 1)) * m
  BY <1>4
<1>7. 2 * (N + 1) * m \in Nat /\ (2 * n + 2) * m \in Nat
  OBVIOUS
<1> QED  BY <1>2, <1>5, <1>6, <1>7, Sizes

\* The pools with another pool of area a.
Refilled(P, a, p) == [P EXCEPT ![a] = p]

\* x may be the address of a chunk, other than those of D.
NewChunk(x, D) == x \in Nat \ {DUMMY} /\ x \notin D /\ ChunkOf(x) = x

\* A chunk acquired from an area with room is a new one, and the pools are
\* good for it too.
LEMMA AcquireGood ==
  ASSUME NEW D \in SUBSET Nat, NEW P, PoolsGood(P, D), NEW a \in Area, NEW p, p = P[a],
         HasRoom(p, a),
         NEW r, r = gpool_acquire_chunk(p), NEW np, np = r.pool, NEW P2, P2 = Refilled(P, a, np),
         NEW x, x = r.chunk, NEW D2, D2 = D \cup {x}
  PROVE  /\ NewChunk(x, D)
         /\ PoolsGood(P2, D2)
<1>1. PICK m \in Nat \ {0} : m = CHUNK_SIZE
  BY Sizes
<1>2. PICK base \in Nat \ {0} : base = RAW_POOL_START(a)
  BY AreaStart
<1>3. p = P[a]
  OBVIOUS
<1>4. p \in PoolType /\ PoolGood(a, p, D)
  BY <1>3 DEF PoolsGood, PoolGood
<1>5. PICK M : M = Mine(D, a)
  OBVIOUS
<1>6. IsFiniteSet(M)
  BY <1>4, <1>5 DEF PoolGood
<1>7. PICK n \in Nat : n = Cardinality(M)
  BY <1>6, FS_CardinalityType
<1>8. p.used_mc = CHUNK_DATA_SIZE * n
  BY <1>4, <1>5, <1>7 DEF PoolGood
<1>9. PICK segs \in 1..n + 1, slots \in 0..2 * n : PoolGrown(a, p, n, segs, slots)
  BY <1>4, <1>5, <1>7 DEF PoolGood
<1>10. \A d \in M : /\ d >= base /\ d + m <= base + PoolGap
                    /\ d + m <= p.free_start
  BY <1>1, <1>2, <1>4, <1>5 DEF PoolGood
<1>11. /\ r.chunk = p.free_start
       /\ r.pool \in PoolType /\ r.pool.used_mc = p.used_mc + CHUNK_DATA_SIZE
       /\ p.free_start + m <= r.pool.free_start
  BY <1>1, <1>3, <1>4, <1>9, Acquires
<1>12. \E segs2 \in 1..n + 2 : \E slots2 \in 0..2 * (n + 1) :
         PoolGrown(a, r.pool, n + 1, segs2, slots2)
  BY <1>3, <1>4, <1>9, Acquires
<1>13. PICK ch \in Nat : ch = p.free_start /\ ch = r.chunk
  BY <1>4, <1>11 DEF PoolType
<1>14. PICK q \in Nat : Align(base) = q * m /\ base <= q * m /\ q * m < base + m
  BY <1>1, AlignUp
<1>15. slots \in Nat /\ q * m \in Nat /\ slots * m \in Nat /\ (q + slots) * m = q * m + slots * m
  OBVIOUS
<1>16. ch = q * m + slots * m
  BY <1>1, <1>2, <1>9, <1>13, <1>14 DEF PoolGrown
<1>17. ch # DUMMY /\ base <= ch
  BY <1>14, <1>15, <1>16 DEF DUMMY
<1>18. ChunkOf(ch) = ch
  <2>1. PICK z \in Nat : z = q + slots
    BY <1>15
  <2>2. ch = z * m + 0 /\ 0 \in 0..m - 1
    BY <2>1, <1>15, <1>16
  <2>3. ch % m = 0
    BY <2>2, DivMod
  <2> QED  BY <2>3, <1>1 DEF ChunkOf
<1>19. CHUNK_DATA_SIZE * n + APPLY_PHY_MEMORY < hardware_mc[a]
  BY <1>3, <1>8 DEF HasRoom
<1>20. ch + m <= base + PoolGap
  <2>1. (2 * n + 2) * m <= PoolGap
    BY <1>1, <1>19, RoomWithin
  <2>2. slots * m <= (2 * n) * m
    <3>1. slots <= 2 * n
      OBVIOUS
    <3> QED  BY <3>1, <1>15
  <2>3. (2 * n + 2) * m = (2 * n) * m + m + m /\ (2 * n) * m \in Nat
    OBVIOUS
  <2> QED  BY <2>1, <2>2, <2>3, <1>14, <1>15, <1>16, Sizes
<1>21. PoolOf(ch) = a
  <2>1. ch < base + PoolGap
    BY <1>20, Sizes
  <2> QED  BY <2>1, <1>2, <1>17, PoolOfInside
<1>22. ch \notin D
  <2> SUFFICES ASSUME ch \in D PROVE FALSE
    OBVIOUS
  <2>1. ch \in M
    BY <1>5, <1>21 DEF Mine
  <2>2. ch + m <= ch
    BY <2>1, <1>10, <1>13
  <2> QED  BY <2>2
<1>23. Mine(D2, a) = M \cup {ch} /\ ch \notin M
  BY <1>5, <1>13, <1>21, <1>22 DEF Mine
<1>24. \A b \in Area \ {a} : Mine(D2, b) = Mine(D, b)
  BY <1>13, <1>21 DEF Mine
<1>25. IsFiniteSet(M \cup {ch}) /\ Cardinality(M \cup {ch}) = n + 1
  BY <1>6, <1>7, <1>23, FS_AddElement
<1>26. PoolGood(a, r.pool, D2)
  <2>1. /\ CHUNK_DATA_SIZE * (n + 1) = CHUNK_DATA_SIZE * n + CHUNK_DATA_SIZE
        /\ CHUNK_DATA_SIZE * n \in Nat
    <3>1. PICK d \in Nat : d = CHUNK_DATA_SIZE
      BY Sizes
    <3>2. d * (n + 1) = d * n + d /\ d * n \in Nat
      BY ONLY d \in Nat, n \in Nat
    <3> QED  BY <3>1, <3>2
  <2>2. /\ r.pool.used_mc = CHUNK_DATA_SIZE * (n + 1)
        /\ r.pool.used_mc - CHUNK_DATA_SIZE + APPLY_PHY_MEMORY < hardware_mc[a]
    <3>1. r.pool.used_mc = CHUNK_DATA_SIZE * n + CHUNK_DATA_SIZE
      BY <1>8, <1>11
    <3> QED  BY <3>1, <2>1, <1>19, Sizes
  <2>3. \A d \in M \cup {ch} : /\ d >= base /\ d + m <= base + PoolGap
                               /\ d + m <= r.pool.free_start
    <3>1. M \subseteq Nat /\ p.free_start \in Nat /\ r.pool.free_start \in Nat
      BY <1>4, <1>5, <1>11 DEF Mine, PoolType
    <3>2. ch >= base /\ ch + m <= r.pool.free_start
      BY <1>11, <1>13, <1>17
    <3>3. ASSUME NEW d \in M PROVE d + m <= r.pool.free_start
      BY <3>1, <1>10, <1>11
    <3> QED  BY <3>2, <3>3, <1>10, <1>20
  <2>4. \E segs2 \in 1..(n + 1) + 1 : \E slots2 \in 0..2 * (n + 1) :
          PoolGrown(a, r.pool, n + 1, segs2, slots2)
    <3>1. (n + 1) + 1 = n + 2
      OBVIOUS
    <3> QED  BY <3>1, <1>12
  <2> QED  BY <2>2, <2>3, <2>4, <1>1, <1>2, <1>11, <1>23, <1>25 DEF PoolGood
<1>27. P2 \in [Area -> PoolType] /\ P2[a] = r.pool /\ \A b \in Area \ {a} : P2[b] = P[b]
  BY <1>11 DEF PoolsGood, Refilled
<1>28. \A b \in Area \ {a} : PoolGood(b, P2[b], D2)
  BY <1>24, <1>27 DEF PoolsGood, PoolGood
<1>29. \A d \in D2 : PoolOf(d) \in Area
  BY <1>13, <1>21 DEF PoolsGood
<1>30. PoolsGood(P2, D2)
  BY <1>26, <1>27, <1>28, <1>29 DEF PoolsGood
<1> QED  BY <1>13, <1>17, <1>18, <1>22, <1>30 DEF NewChunk
-----------------------------------------------------------------------------
\* Nobody holds a block of a chunk that does not exist.
LEMMA NothingHeld ==
  ASSUME NEW C, NEW lv, LiveGood(C, lv), NEW ch, ch \notin DOMAIN C
  PROVE  HeldIn(lv, ch) = {}
BY DEF LiveGood, HeldIn

\* The header of a new chunk: no block handed out, none freed.
LEMMA NewHeader ==
  ASSUME NEW t \in Thread, NEW c \in Class, NEW ch \in Nat, NEW k, k = chunk_init(t, c, ch)
  PROVE  /\ HeaderGood(ch, k, {}) /\ k.owner = t /\ k.state = "FORG"
         /\ k.free_tot_cnt # 0
<1>1. PICK s \in 1..CHUNK_DATA_SIZE : s = Size[c]
  BY Sizes
<1>2. PICK n \in Nat \ {0} : n = CHUNK_DATA_SIZE \div s
  BY BlocksFit
<1>3. k = [owner |-> t, state |-> "FORG", size_cls |-> c, blk_cnt |-> n, free_mem_cnt |-> n,
           free_tot_cnt |-> n, free_mem |-> ch + Header, dlist |-> <<>>, wear_count |-> 0]
  BY <1>1, <1>2 DEF chunk_init
<1>4. k \in ChunkType
  <2>1. ch + Header \in Nat /\ <<>> \in Seq(Nat)
    BY Sizes
  <2> QED  BY <2>1, <1>3 DEF ChunkType, States
<1>5. BlockAt(ch, s, 0) = ch + Header /\ Carved(ch, s, 0) = {}
  <2>1. 0 * s = 0 /\ 0..0 - 1 = {}
    BY Sizes
  <2> QED  BY <2>1, Sizes DEF BlockAt, Carved
<1>6. Listed(<<>>) /\ ToSet(<<>>) = {} /\ Len(<<>>) = 0
  BY NoMembers
<1>7. n - n = 0 /\ n + 0 = n
  OBVIOUS
<1>8. HeaderGood(ch, k, {})
  <2>1. /\ k.size_cls = c /\ k.blk_cnt = n /\ k.free_mem_cnt = n /\ k.free_tot_cnt = n
        /\ k.free_mem = ch + Header /\ k.dlist = <<>>
    BY <1>3
  <2>2. /\ Listed(k.dlist) /\ ToSet(k.dlist) = {} /\ Len(k.dlist) = 0
    BY <2>1, <1>6
  <2>3. k.blk_cnt - k.free_mem_cnt = 0 /\ k.free_tot_cnt = k.free_mem_cnt + Len(k.dlist)
    BY <2>1, <2>2, <1>7
  <2>4. k.blk_cnt = CHUNK_DATA_SIZE \div Size[k.size_cls]
    BY <2>1, <1>1, <1>2
  <2>5. /\ k.free_mem = BlockAt(ch, Size[k.size_cls], k.blk_cnt - k.free_mem_cnt)
        /\ Carved(ch, Size[k.size_cls], k.blk_cnt - k.free_mem_cnt) = {}
    BY <2>1, <2>3, <1>1, <1>5, Zenon
  <2>6. {} \cap ToSet(k.dlist) = {} /\ {} \cup ToSet(k.dlist) = {}
    BY <2>2
  <2>7. k.blk_cnt - k.free_mem_cnt \in Nat
    BY <2>3
  <2> QED  BY <2>2, <2>3, <2>4, <2>5, <2>6, <2>7, <1>4, Zenon DEF HeaderGood
<1> QED  BY <1>2, <1>3, <1>8

\* A new chunk becomes the foreground.
LEMMA FromPool ==
  ASSUME NEW C, NEW F, NEW B, NEW L, NEW lv, ChunksGood(C, F, B, L, lv),
         NEW t \in Thread, NEW c \in Class, F[t][c] = DUMMY,
         NEW ch \in Nat \ {DUMMY}, ch \notin DOMAIN C, ChunkOf(ch) = ch,
         NEW C2, C2 = [d \in DOMAIN C \cup {ch} |->
                         IF d = ch THEN chunk_init(t, c, d) ELSE C[d]]
  PROVE  ChunksGood(C2, Put(F, t, c, ch), B, L, lv)
<1>1. PICK k : k = chunk_init(t, c, ch)
  OBVIOUS
<1>2. C2[ch] = k /\ DOMAIN C2 = DOMAIN C \cup {ch} /\ \A d \in DOMAIN C : C2[d] = C[d]
  BY <1>1
<1>3. LiveGood(C, lv) /\ ListsGood(DOMAIN C, F, B, L) /\ DOMAIN C \subseteq Nat \ {DUMMY}
  BY DEF ChunksGood
<1>4. HeldIn(lv, ch) = {}
  BY <1>3, NothingHeld
<1>5. HeaderGood(ch, k, HeldIn(lv, ch)) /\ k.owner = t /\ k.state = "FORG" /\ k.free_tot_cnt # 0
  BY <1>1, <1>4, NewHeader
<1>6. PICK F2 : F2 = Put(F, t, c, ch)
  OBVIOUS
<1>7. /\ F2 \in [Thread -> [Class -> Nat]] /\ F2[t][c] = ch
      /\ \A u \in Thread : \A d \in Class : u # t \/ d # c => F2[u][d] = F[u][d]
  BY <1>3, <1>6 DEF Put, ListsGood
<1>8. /\ \A u \in Thread : \A d \in Class : F[u][d] # ch /\ ch \notin ToSet(B[u][d])
      /\ \A u \in Thread : ch \notin ToSet(L[u])
  BY <1>3 DEF ListsGood
<1>9. PlaceGood(ch, k, F2, B, L)
  <2>1. \A u \in Thread : \A d \in Class : F2[u][d] = ch => u = t /\ d = c
    BY <1>7, <1>8
  <2> QED  BY <2>1, <1>5, <1>7, <1>8 DEF PlaceGood
<1>10. ListsGood(DOMAIN C2, F2, B, L)
  <2>1. \A u \in Thread : \A d \in Class : F2[u][d] \in DOMAIN C2 \cup {DUMMY}
    <3>1. \A u \in Thread : \A d \in Class : F[u][d] \in DOMAIN C \cup {DUMMY}
      BY <1>3 DEF ListsGood
    <3> TAKE u \in Thread
    <3> TAKE d \in Class
    <3>2. CASE u = t /\ d = c
      BY <3>2, <1>2, <1>7
    <3> QED  BY <3>1, <3>2, <1>2, <1>7
  <2> QED  BY <2>1, <1>2, <1>3, <1>7 DEF ListsGood
<1>11. LiveGood(C2, lv)
  BY <1>2, <1>3 DEF LiveGood
<1>12. ASSUME NEW d \in DOMAIN C
       PROVE  HeaderGood(d, C2[d], HeldIn(lv, d)) /\ PlaceGood(d, C2[d], F2, B, L) /\ ChunkOf(d) = d
  <2>1. /\ HeaderGood(d, C[d], HeldIn(lv, d)) /\ PlaceGood(d, C[d], F, B, L) /\ ChunkOf(d) = d
        /\ C[d].owner \in Thread /\ C[d].size_cls \in Class /\ d # DUMMY
    BY ChunkIs
  <2>2. SamePlace(d, F, B, L, F2, B, L)
    <3>1. \A u \in Thread : \A e \in Class : F2[u][e] = d <=> F[u][e] = d
      <4> TAKE u \in Thread
      <4> TAKE e \in Class
      <4>1. CASE u = t /\ e = c
        BY <4>1, <2>1, <1>7
      <4> QED  BY <4>1, <1>7
    <3> QED  BY <3>1 DEF SamePlace
  <2>3. PlaceGood(d, C[d], F2, B, L)
    BY <2>1, <2>2, StaysPlaced
  <2> QED  BY <2>1, <2>3, <1>2
<1> QED  BY <1>2, <1>3, <1>5, <1>6, <1>9, <1>10, <1>11, <1>12 DEF ChunksGood

-----------------------------------------------------------------------------
\* A chunk with a free block hands out one that is not in use, of its own.
LEMMA TakenHeader ==
  ASSUME NEW ch \in Nat, NEW k, NEW use, HeaderGood(ch, k, use), k.free_tot_cnt # 0,
         NEW m, m = Taken(k), NEW x, x = chunk_alloc_obj(k).addr
  PROVE  /\ x \in Nat /\ ch <= x /\ x < ch + CHUNK_SIZE /\ x \notin use
         /\ HeaderGood(ch, m, use \cup {x})
         /\ m.owner = k.owner /\ m.size_cls = k.size_cls /\ m.blk_cnt = k.blk_cnt
         /\ m.free_tot_cnt = k.free_tot_cnt - 1
         /\ m.state = IF k.free_tot_cnt = 1 THEN "FULL" ELSE k.state
<1>1. k \in ChunkType
  BY DEF HeaderGood
<1>2. PICK s \in 1..CHUNK_DATA_SIZE : s = Size[k.size_cls]
  BY <1>1, Sizes DEF ChunkType
<1>3. s \in Nat \ {0}
  BY Sizes
<1>4. PICK n \in Nat : n = k.blk_cnt - k.free_mem_cnt
  BY DEF HeaderGood
<1>5. /\ k.blk_cnt = CHUNK_DATA_SIZE \div s /\ k.free_mem = BlockAt(ch, s, n)
      /\ Listed(k.dlist) /\ k.free_tot_cnt = k.free_mem_cnt + Len(k.dlist)
      /\ use \cap ToSet(k.dlist) = {} /\ use \cup ToSet(k.dlist) = Carved(ch, s, n)
  BY <1>2, <1>4 DEF HeaderGood
<1>6. /\ k.free_mem_cnt \in Nat /\ k.blk_cnt \in Nat /\ k.free_tot_cnt \in Nat \ {0}
      /\ Len(k.dlist) \in Nat
  BY <1>1, <1>5 DEF ChunkType, Listed
<1>7. CASE k.free_mem_cnt > 0
  <2>1. x = k.free_mem
    BY <1>7 DEF chunk_alloc_obj
  <2>2. n \in 0..(CHUNK_DATA_SIZE \div s) - 1
    BY <1>4, <1>5, <1>6, <1>7
  <2>3. x \in Nat /\ ch + Header <= x /\ x + s <= ch + CHUNK_SIZE
    BY <2>1, <2>2, <1>5, BlockInside
  <2>4. ch <= x /\ x < ch + CHUNK_SIZE
    BY <2>3, <1>3, Sizes
  <2>5. /\ Carved(ch, s, n + 1) = Carved(ch, s, n) \cup {x} /\ x \notin Carved(ch, s, n)
        /\ BlockAt(ch, s, n + 1) = x + s
    <3>1. x = BlockAt(ch, s, n)
      BY <2>1, <1>5
    <3> QED  BY SMTT(30), <3>1, <1>3, CarvedMore
  <2>6. m = [k EXCEPT !.free_mem = x + s, !.free_mem_cnt = k.free_mem_cnt - 1,
                      !.free_tot_cnt = k.free_tot_cnt - 1,
                      !.state = IF k.free_tot_cnt = 1 THEN "FULL" ELSE k.state,
                      !.wear_count = 1]
    <3>1. PICK q : q = [k EXCEPT !.free_mem = x + s, !.free_mem_cnt = k.free_mem_cnt - 1]
      OBVIOUS
    <3>2. chunk_alloc_obj(k).chunk = q
      BY <3>1, <2>1, <1>2, <1>7 DEF chunk_alloc_obj
    <3>3. q.free_tot_cnt = k.free_tot_cnt /\ q.state = k.state
      BY <3>1, <1>1 DEF ChunkType
    <3>4. m = [q EXCEPT !.free_tot_cnt = k.free_tot_cnt - 1,
                        !.state = IF k.free_tot_cnt = 1 THEN "FULL" ELSE k.state,
                        !.wear_count = 1]
      BY <3>2, <3>3 DEF Taken
    <3> QED  BY <3>1, <3>4, <1>1 DEF ChunkType
  <2>7. k.free_mem_cnt - 1 \in Nat /\ k.free_tot_cnt - 1 \in Nat /\ x + s \in Nat
    <3>1. k.free_mem_cnt - 1 \in Nat
      BY ONLY <1>6, <1>7
    <3>2. k.free_tot_cnt - 1 \in Nat
      BY ONLY <1>6
    <3> QED  BY <3>1, <3>2, <1>3, <2>3
  <2>8. /\ m.owner = k.owner /\ m.size_cls = k.size_cls /\ m.blk_cnt = k.blk_cnt
        /\ m.dlist = k.dlist /\ m.free_mem_cnt = k.free_mem_cnt - 1 /\ m.free_mem = x + s
        /\ m.free_tot_cnt = k.free_tot_cnt - 1
        /\ m.state = IF k.free_tot_cnt = 1 THEN "FULL" ELSE k.state
    BY <2>6, <1>1 DEF ChunkType
  <2>9. m \in ChunkType
    BY <2>6, <2>7, <1>1 DEF ChunkType, States
  <2>10. /\ m.blk_cnt - m.free_mem_cnt = n + 1 /\ n + 1 \in Nat
         /\ m.free_tot_cnt = m.free_mem_cnt + Len(m.dlist)
    <3>1. PICK l \in Nat : l = Len(k.dlist)
      BY <1>6
    <3>2. PICK f \in Nat, bc \in Nat : f = k.free_mem_cnt /\ bc = k.blk_cnt
      BY <1>6
    <3>3. n = bc - f /\ k.free_tot_cnt = f + l
      BY <3>1, <3>2, <1>4, <1>5
    <3>4. m.blk_cnt = bc /\ m.free_mem_cnt = f - 1 /\ m.free_tot_cnt = f + l - 1 /\ Len(m.dlist) = l
      BY <3>1, <3>2, <3>3, <2>8
    <3> QED  BY ONLY <3>3, <3>4, f \in Nat, l \in Nat, bc \in Nat, n \in Nat
  <2>11. /\ (use \cup {x}) \cap ToSet(m.dlist) = {}
         /\ (use \cup {x}) \cup ToSet(m.dlist) = Carved(ch, s, n + 1)
    BY <2>5, <2>8, <1>5
  <2>12. HeaderGood(ch, m, use \cup {x})
    BY <2>5, <2>8, <2>9, <2>10, <2>11, <1>2, <1>5 DEF HeaderGood
  <2> QED  BY <2>3, <2>4, <2>5, <2>8, <2>12, <1>5
<1>8. CASE k.free_mem_cnt = 0
  <2>1. x = Last(k.dlist)
    BY <1>8 DEF chunk_alloc_obj
  <2>2. k.dlist # <<>>
    BY <1>5, <1>6, <1>8
  <2>3. PICK l : l = Front(k.dlist)
    OBVIOUS
  <2>4. /\ x \in ToSet(k.dlist) /\ Listed(l) /\ ToSet(l) = ToSet(k.dlist) \ {x}
        /\ Len(l) = Len(k.dlist) - 1
    BY <2>1, <2>2, <2>3, <1>5, ListFront
  <2>5. x \in Carved(ch, s, n) /\ x \notin use
    BY <2>4, <1>5
  <2>6. PICK i \in 0..n - 1 : x = BlockAt(ch, s, i)
    BY <2>5 DEF Carved
  <2>7. i \in 0..(CHUNK_DATA_SIZE \div s) - 1
    BY <1>4, <1>5, <1>6, <1>8
  <2>8. x \in Nat /\ ch + Header <= x /\ x + s <= ch + CHUNK_SIZE
    BY <2>6, <2>7, BlockInside
  <2>9. ch <= x /\ x < ch + CHUNK_SIZE
    BY <2>8, <1>3, Sizes
  <2>10. m = [k EXCEPT !.dlist = l, !.free_tot_cnt = k.free_tot_cnt - 1,
                       !.state = IF k.free_tot_cnt = 1 THEN "FULL" ELSE k.state,
                       !.wear_count = 1]
    <3>1. chunk_alloc_obj(k).chunk = [k EXCEPT !.dlist = l]
      BY <2>3, <1>8 DEF chunk_alloc_obj
    <3>2. PICK y : y = [k EXCEPT !.dlist = l]
      OBVIOUS
    <3>3. y.free_tot_cnt = k.free_tot_cnt /\ y.state = k.state
      BY <3>2, <1>1 DEF ChunkType
    <3>4. m = [y EXCEPT !.free_tot_cnt = @ - 1,
                        !.state = IF y.free_tot_cnt = 1 THEN "FULL" ELSE @, !.wear_count = 1]
      BY <3>1, <3>2 DEF Taken
    <3> QED  BY <3>2, <3>3, <3>4, <1>1 DEF ChunkType
  <2>11. k.free_tot_cnt - 1 \in Nat /\ l \in Seq(Nat)
    BY <2>4, <1>6 DEF Listed
  <2>12. /\ m.owner = k.owner /\ m.size_cls = k.size_cls /\ m.blk_cnt = k.blk_cnt
         /\ m.dlist = l /\ m.free_mem_cnt = k.free_mem_cnt /\ m.free_mem = k.free_mem
         /\ m.free_tot_cnt = k.free_tot_cnt - 1
         /\ m.state = IF k.free_tot_cnt = 1 THEN "FULL" ELSE k.state
    BY <2>10, <1>1 DEF ChunkType
  <2>13. m \in ChunkType
    BY <2>10, <2>11, <1>1 DEF ChunkType, States
  <2>14. m.free_tot_cnt = m.free_mem_cnt + Len(m.dlist)
    <3>1. PICK j \in Nat : j = Len(k.dlist)
      BY <1>6
    <3>2. PICK f \in Nat : f = k.free_mem_cnt
      BY <1>6
    <3>3. Len(m.dlist) = j - 1 /\ m.free_mem_cnt = f /\ m.free_tot_cnt = f + j - 1
      BY SMTT(30), <3>1, <3>2, <2>4, <2>12, <1>5
    <3> QED  BY ONLY <3>3, f \in Nat, j \in Nat
  <2>15. /\ (use \cup {x}) \cap ToSet(m.dlist) = {}
         /\ (use \cup {x}) \cup ToSet(m.dlist) = Carved(ch, s, n)
    BY <2>4, <2>12, <1>5
  <2>16. HeaderGood(ch, m, use \cup {x})
    BY SMTT(30), <2>4, <2>12, <2>13, <2>14, <2>15, <1>2, <1>4, <1>5 DEF HeaderGood
  <2> QED  BY <2>5, <2>8, <2>9, <2>12, <2>16
<1> QED  BY <1>6, <1>7, <1>8
\* The foreground after the block was taken, as lheap_replace_foreground may
\* find it: a full chunk is in no place.
Left(F, t, c, m) == IF m.state = "FULL" THEN Put(F, t, c, DUMMY) ELSE F

\* Taking a block from the foreground keeps the chunks in order.
LEMMA TakeGood ==
  ASSUME NEW C, NEW F, NEW B, NEW L, NEW lv, ChunksGood(C, F, B, L, lv),
         NEW t \in Thread, NEW c \in Class, NEW ch, ch = F[t][c], ch # DUMMY,
         NEW m, m = Taken(C[ch]), NEW x, x = chunk_alloc_obj(C[ch]).addr,
         NEW sz \in Nat, NEW lw, lw = Gets(lv, t, [at |-> x, size |-> sz])
  PROVE  /\ ch \in DOMAIN C /\ C[ch].owner = t /\ C[ch].state = "FORG"
         /\ x \in Nat /\ ChunkOf(x) = ch /\ x \notin HeldIn(lv, ch)
         /\ m.owner = t /\ m.size_cls = C[ch].size_cls
         /\ m.state = (IF C[ch].free_tot_cnt = 1 THEN "FULL" ELSE "FORG")
         /\ ChunksGood([C EXCEPT ![ch] = m], Left(F, t, c, m), B, L, lw)
<1>1. LiveGood(C, lv) /\ ListsGood(DOMAIN C, F, B, L) /\ lv \in LiveType
  BY DEF ChunksGood, LiveGood
<1>2. F \in [Thread -> [Class -> Nat]] /\ F[t][c] \in DOMAIN C \cup {DUMMY}
  BY <1>1 DEF ListsGood
<1>3. ch \in DOMAIN C
  BY <1>2
<1>4. PICK k : k = C[ch]
  OBVIOUS
<1>5. /\ ch \in Nat /\ ch # DUMMY /\ ChunkOf(ch) = ch
      /\ HeaderGood(ch, k, HeldIn(lv, ch)) /\ PlaceGood(ch, k, F, B, L)
      /\ k \in ChunkType /\ k.owner \in Thread /\ k.size_cls \in Class
  BY <1>3, <1>4, ChunkIs
<1>6. k.owner = t /\ k.state = "FORG" /\ k.free_tot_cnt # 0
  BY <1>5 DEF PlaceGood
<1>7. /\ x \in Nat /\ ch <= x /\ x < ch + CHUNK_SIZE /\ x \notin HeldIn(lv, ch)
      /\ HeaderGood(ch, m, HeldIn(lv, ch) \cup {x})
      /\ m.owner = t /\ m.size_cls = k.size_cls /\ m.blk_cnt = k.blk_cnt
      /\ m.free_tot_cnt = k.free_tot_cnt - 1
      /\ m.state = IF k.free_tot_cnt = 1 THEN "FULL" ELSE "FORG"
  <2>1. m = Taken(k) /\ x = chunk_alloc_obj(k).addr
    BY <1>4
  <2>2. /\ x \in Nat /\ ch <= x /\ x < ch + CHUNK_SIZE /\ x \notin HeldIn(lv, ch)
        /\ HeaderGood(ch, m, HeldIn(lv, ch) \cup {x})
        /\ m.owner = k.owner /\ m.size_cls = k.size_cls /\ m.blk_cnt = k.blk_cnt
        /\ m.free_tot_cnt = k.free_tot_cnt - 1
        /\ m.state = IF k.free_tot_cnt = 1 THEN "FULL" ELSE k.state
    BY ONLY SMTT(30), <2>1, <1>5, <1>6, TakenHeader
  <2> QED  BY ONLY <2>2, <1>6
<1>8. ChunkOf(x) = ch
  BY <1>5, <1>7, ChunkOfInside
<1>9. PICK b : b = [at |-> x, size |-> sz]
  BY SMTT(30)
<1>10. b.at = x /\ b \in [at : Nat, size : Nat] /\ lw = Gets(lv, t, b)
  BY SMTT(30), <1>7, <1>9
<1>11. HeldIn(lw, ch) = HeldIn(lv, ch) \cup {x}
  <2>1. HeldIn(lw, ch) = HeldIn(lv, ch) \cup (IF ChunkOf(b.at) = ch THEN {b.at} ELSE {})
    BY ONLY <1>1, <1>10, t \in Thread, HeldAdd
  <2> QED  BY <2>1, <1>8, <1>10
<1>12. \A d \in DOMAIN C \ {ch} : HeldIn(lw, d) = HeldIn(lv, d)
  <2> TAKE d \in DOMAIN C \ {ch}
  <2>1. HeldIn(lw, d) = HeldIn(lv, d) \cup (IF ChunkOf(b.at) = d THEN {b.at} ELSE {})
    BY ONLY <1>1, <1>10, t \in Thread, HeldAdd
  <2> QED  BY <2>1, <1>8, <1>10
<1>13. LiveGood(C, lw)
  <2>1. \A d \in lv[t] : d.at # x
    <3> SUFFICES ASSUME NEW d \in lv[t], d.at = x PROVE FALSE
      OBVIOUS
    <3>1. x \in HeldIn(lv, ch)
      BY <1>8 DEF HeldIn
    <3> QED  BY <3>1, <1>7
  <2>2. lw \in LiveType /\ lw[t] = lv[t] \cup {b} /\ \A u \in Thread : u # t => lw[u] = lv[u]
    BY SMTT(30), <1>1, <1>10 DEF LiveType, Gets
  <2>3. ASSUME NEW u \in Thread, NEW d \in lw[u]
        PROVE  /\ ChunkOf(d.at) \in DOMAIN C /\ C[ChunkOf(d.at)].owner = u
               /\ \A e \in lw[u] : e.at = d.at => e = d
    <3>1. CASE u = t /\ d = b
      <4>1. d.at = x /\ \A e \in lw[u] : e.at = d.at => e = d
        BY <3>1, <2>1, <2>2, <1>10
      <4> QED  BY SMTT(30), <4>1, <3>1, <1>3, <1>4, <1>6, <1>8
    <3>2. CASE u = t /\ d # b
      <4>1. d \in lv[t]
        BY <3>2, <2>2
      <4>2. /\ ChunkOf(d.at) \in DOMAIN C /\ C[ChunkOf(d.at)].owner = t
            /\ \A e \in lv[t] : e.at = d.at => e = d
        BY SMTT(30), <4>1, <1>1 DEF LiveGood
      <4>3. \A e \in lw[t] : e.at = d.at => e = d
        BY <4>1, <4>2, <2>1, <2>2, <1>10
      <4> QED  BY <4>2, <4>3, <3>2
    <3>3. CASE u # t
      BY <3>3, <2>2, <1>1 DEF LiveGood
    <3> QED  BY <3>1, <3>2, <3>3
  <2> QED  BY SMTT(30), <2>2, <2>3 DEF LiveGood
<1>14. PICK F2 : F2 = Left(F, t, c, m)
  OBVIOUS
<1>15. /\ F2 \in [Thread -> [Class -> Nat]]
       /\ \A u \in Thread : \A d \in Class : u # t \/ d # c => F2[u][d] = F[u][d]
       /\ F2[t][c] = IF m.state = "FULL" THEN DUMMY ELSE ch
  BY <1>2, <1>14 DEF Left, Put, DUMMY
<1>16. PlaceGood(ch, m, F2, B, L)
  <2>1. \A u \in Thread : \A d \in Class : F[u][d] = ch => u = t /\ d = c
    BY <1>5, <1>6 DEF PlaceGood
  <2>2. /\ \A u \in Thread : \A d \in Class : ch \notin ToSet(B[u][d])
        /\ \A u \in Thread : ch \notin ToSet(L[u])
    BY <1>5, <1>6 DEF PlaceGood
  <2>3. k.free_tot_cnt \in Nat
    BY <1>5 DEF ChunkType
  <2>4. CASE k.free_tot_cnt = 1
    <3>1. m.state = "FULL" /\ m.free_tot_cnt = 0
      BY <2>4, <1>7
    <3>2. \A u \in Thread : \A d \in Class : F2[u][d] # ch
      BY SMTT(30), <3>1, <2>1, <1>5, <1>15
    <3> QED  BY SMTT(30), <3>1, <3>2, <2>2 DEF PlaceGood
  <2>5. CASE k.free_tot_cnt # 1
    <3>1. m.state = "FORG" /\ m.free_tot_cnt # 0
      BY <2>3, <2>5, <1>6, <1>7
    <3>2. \A u \in Thread : \A d \in Class : F2[u][d] = F[u][d]
      <4> TAKE u \in Thread
      <4> TAKE d \in Class
      <4>1. CASE u = t /\ d = c
        BY <4>1, <3>1, <1>15
      <4> QED  BY <4>1, <1>15
    <3>3. F2[t][c] = ch
      BY <3>1, <1>15
    <3> QED  BY SMTT(30), <3>1, <3>2, <3>3, <2>1, <2>2, <1>7 DEF PlaceGood
  <2> QED  BY <2>4, <2>5
<1>17. \A d \in DOMAIN C \ {ch} : SamePlace(d, F, B, L, F2, B, L)
  <2> SUFFICES ASSUME NEW d \in DOMAIN C \ {ch}, NEW u \in Thread, NEW e \in Class
               PROVE  F2[u][e] = d <=> F[u][e] = d
    BY DEF SamePlace
  <2>1. d # DUMMY
    BY ChunkIs
  <2>2. CASE u = t /\ e = c
    BY <2>1, <2>2, <1>15
  <2> QED  BY <2>2, <1>15
<1>18. ListsGood(DOMAIN C, F2, B, L)
  <2>1. \A u \in Thread : \A d \in Class : F2[u][d] \in DOMAIN C \cup {DUMMY}
    <3>1. \A u \in Thread : \A d \in Class : F[u][d] \in DOMAIN C \cup {DUMMY}
      BY <1>1 DEF ListsGood
    <3> TAKE u \in Thread
    <3> TAKE d \in Class
    <3>2. CASE u = t /\ d = c
      BY <3>2, <1>3, <1>15
    <3> QED  BY <3>1, <3>2, <1>15
  <2> QED  BY <2>1, <1>1, <1>15 DEF ListsGood
<1>19. PICK C2 : C2 = [C EXCEPT ![ch] = m]
  OBVIOUS
<1>20. ChunksGood(C2, F2, B, L, lw)
  <2>1. HeaderGood(ch, m, HeldIn(lw, ch))
    BY <1>7, <1>11
  <2>2. m.owner = C[ch].owner
    BY <1>4, <1>6, <1>7
  <2>3. ChunksGood(C, F, B, L, lv)
    OBVIOUS
  <2> QED  BY ONLY <2>1, <2>2, <2>3, <1>3, <1>12, <1>13, <1>16, <1>17, <1>18, <1>19, OneChunk, Zenon
<1> QED  BY <1>3, <1>4, <1>6, <1>7, <1>8, <1>14, <1>19, <1>20
-----------------------------------------------------------------------------
\* The header after chunk_free_small has put block x on the freed ones, in
\* state st.
Freed(k, x, st) == [k EXCEPT !.dlist = <<x>> \o @, !.free_tot_cnt = @ + 1, !.state = st]

\* A block given back is free, and the others stay what they were.
LEMMA FreedHeader ==
  ASSUME NEW ch \in Nat, NEW k, NEW use, HeaderGood(ch, k, use), NEW x \in Nat, x \in use,
         NEW st \in States, NEW m, m = Freed(k, x, st)
  PROVE  /\ HeaderGood(ch, m, use \ {x})
         /\ m.owner = k.owner /\ m.size_cls = k.size_cls /\ m.blk_cnt = k.blk_cnt
         /\ m.free_tot_cnt = k.free_tot_cnt + 1 /\ m.state = st
         /\ k.free_tot_cnt \in Nat /\ k.free_tot_cnt < k.blk_cnt
<1>1. k \in ChunkType
  BY DEF HeaderGood
<1>2. PICK s : s = Size[k.size_cls]
  OBVIOUS
<1>3. PICK n \in Nat : n = k.blk_cnt - k.free_mem_cnt
  BY DEF HeaderGood
<1>4. /\ k.blk_cnt = CHUNK_DATA_SIZE \div s /\ k.free_mem = BlockAt(ch, s, n)
      /\ Listed(k.dlist) /\ k.free_tot_cnt = k.free_mem_cnt + Len(k.dlist)
      /\ use \cap ToSet(k.dlist) = {} /\ use \cup ToSet(k.dlist) = Carved(ch, s, n)
  BY <1>2, <1>3 DEF HeaderGood
<1>5. PICK l : l = <<x>> \o k.dlist
  OBVIOUS
<1>6. Listed(l) /\ ToSet(l) = ToSet(k.dlist) \cup {x} /\ Len(l) = Len(k.dlist) + 1
  BY <1>4, <1>5, ListPush
<1>7. k.free_mem_cnt \in Nat /\ k.free_tot_cnt \in Nat /\ Len(k.dlist) \in Nat /\ l \in Seq(Nat)
  BY <1>1, <1>4, <1>6 DEF ChunkType, Listed
<1>8. m = [k EXCEPT !.dlist = l, !.free_tot_cnt = k.free_tot_cnt + 1, !.state = st]
  BY <1>1, <1>5 DEF Freed, ChunkType
<1>9. /\ m.owner = k.owner /\ m.size_cls = k.size_cls /\ m.blk_cnt = k.blk_cnt
      /\ m.dlist = l /\ m.free_mem_cnt = k.free_mem_cnt /\ m.free_mem = k.free_mem
      /\ m.free_tot_cnt = k.free_tot_cnt + 1 /\ m.state = st
  BY <1>8, <1>1 DEF ChunkType
<1>10. m \in ChunkType
  <2>1. k.free_tot_cnt + 1 \in Nat
    BY <1>7
  <2> QED  BY <2>1, <1>1, <1>7, <1>8 DEF ChunkType
<1>11. m.free_tot_cnt = m.free_mem_cnt + Len(m.dlist)
  <2>1. PICK j \in Nat, f \in Nat : j = Len(k.dlist) /\ f = k.free_mem_cnt
    BY <1>7
  <2>2. Len(m.dlist) = j + 1 /\ m.free_mem_cnt = f /\ m.free_tot_cnt = f + j + 1
    BY <2>1, <1>4, <1>6, <1>9
  <2> QED  BY ONLY <2>2, f \in Nat, j \in Nat
<1>12. (use \ {x}) \cap ToSet(m.dlist) = {} /\ (use \ {x}) \cup ToSet(m.dlist) = Carved(ch, s, n)
  BY <1>4, <1>6, <1>9
<1>13. HeaderGood(ch, m, use \ {x})
  BY <1>2, <1>3, <1>4, <1>6, <1>9, <1>10, <1>11, <1>12 DEF HeaderGood
<1>14. k.free_tot_cnt < k.blk_cnt
  <2>1. /\ IsFiniteSet(use) /\ Cardinality(use) \in Nat
        /\ k.free_tot_cnt + Cardinality(use) = k.blk_cnt
    BY HeaderCounts
  <2>2. Cardinality(use) # 0
    BY <2>1, FS_EmptySet
  <2> QED  BY <2>1, <2>2, <1>7
<1> QED  BY <1>7, <1>9, <1>13, <1>14

\* A free changes one header and the lists its chunk is on.
LEMMA FreeOne ==
  ASSUME NEW C, NEW F, NEW B, NEW L, NEW lv, ChunksGood(C, F, B, L, lv),
         NEW t \in Thread, NEW b \in lv[t], NEW lw, lw = Gives(lv, t, b),
         NEW ch, ch = ChunkOf(b.at), NEW st \in States, NEW m, m = Freed(C[ch], b.at, st),
         NEW B2, NEW L2, PlaceGood(ch, m, F, B2, L2), ListsGood(DOMAIN C, F, B2, L2),
         \A d \in DOMAIN C \ {ch} : SamePlace(d, F, B, L, F, B2, L2)
  PROVE  ChunksGood([C EXCEPT ![ch] = m], F, B2, L2, lw)
<1>1. LiveGood(C, lv) /\ lv \in LiveType
  BY DEF ChunksGood, LiveGood
<1>2. ch \in DOMAIN C /\ C[ch].owner = t /\ b.at \in Nat
  BY <1>1 DEF LiveGood, LiveType
<1>3. PICK k : k = C[ch]
  OBVIOUS
<1>4. ch \in Nat /\ HeaderGood(ch, k, HeldIn(lv, ch))
  BY <1>2, <1>3, ChunkIs
<1>5. b.at \in HeldIn(lv, ch)
  BY DEF HeldIn
<1>6. m = Freed(k, b.at, st)
  BY <1>3
<1>7. HeaderGood(ch, m, HeldIn(lv, ch) \ {b.at}) /\ m.owner = k.owner
  BY <1>2, <1>4, <1>5, <1>6, FreedHeader
<1>8. \A d : HeldIn(lw, d) = HeldIn(lv, d) \ (IF ChunkOf(b.at) = d THEN {b.at} ELSE {})
  BY <1>1, HeldDrop
<1>9. HeaderGood(ch, m, HeldIn(lw, ch))
  BY <1>7, <1>8
<1>10. \A d \in DOMAIN C \ {ch} : HeldIn(lw, d) = HeldIn(lv, d)
  BY <1>8
<1>11. LiveGood(C, lw)
  <2>1. lw \in LiveType /\ \A u \in Thread : lw[u] \subseteq lv[u]
    BY <1>1 DEF LiveType, Gives
  <2> QED  BY <2>1, <1>1 DEF LiveGood
<1>12. m.owner = C[ch].owner
  BY <1>3, <1>7
<1>13. PICK C2 : C2 = [C EXCEPT ![ch] = m]
  OBVIOUS
<1>14. ChunksGood(C, F, B, L, lv) /\ PlaceGood(ch, m, F, B2, L2) /\ ListsGood(DOMAIN C, F, B2, L2)
       /\ \A d \in DOMAIN C \ {ch} : SamePlace(d, F, B, L, F, B2, L2)
  OBVIOUS
<1>15. ChunksGood(C2, F, B2, L2, lw)
  BY ONLY <1>2, <1>9, <1>10, <1>11, <1>12, <1>13, <1>14, OneChunk, Zenon
<1> QED  BY <1>13, <1>15

\* What a free finds: the chunk and header of its block.
LEMMA FreeFinds ==
  ASSUME NEW C, NEW F, NEW B, NEW L, NEW lv, ChunksGood(C, F, B, L, lv),
         NEW t \in Thread, NEW b \in lv[t], NEW ch, ch = ChunkOf(b.at), NEW k, k = C[ch]
  PROVE  /\ ch \in DOMAIN C /\ ch \in Nat \ {DUMMY} /\ k \in ChunkType /\ k.owner = t
         /\ PlaceGood(ch, k, F, B, L) /\ b.at \in Nat
         /\ \A st \in States : \A m : m = Freed(k, b.at, st) =>
              /\ m.owner = k.owner /\ m.size_cls = k.size_cls /\ m.blk_cnt = k.blk_cnt
              /\ m.free_tot_cnt = k.free_tot_cnt + 1 /\ m.state = st
         /\ k.free_tot_cnt \in Nat /\ k.free_tot_cnt < k.blk_cnt
<1>1. LiveGood(C, lv) /\ lv \in LiveType
  BY DEF ChunksGood, LiveGood
<1>2. ch \in DOMAIN C /\ C[ch].owner = t /\ b.at \in Nat
  BY <1>1 DEF LiveGood, LiveType
<1>3. /\ ch \in Nat \ {DUMMY} /\ HeaderGood(ch, k, HeldIn(lv, ch)) /\ PlaceGood(ch, k, F, B, L)
      /\ k \in ChunkType
  BY <1>2, ChunkIs
<1>4. b.at \in HeldIn(lv, ch)
  BY DEF HeldIn
<1>5. ASSUME NEW st \in States, NEW m, m = Freed(k, b.at, st)
      PROVE  /\ m.owner = k.owner /\ m.size_cls = k.size_cls /\ m.blk_cnt = k.blk_cnt
             /\ m.free_tot_cnt = k.free_tot_cnt + 1 /\ m.state = st
             /\ k.free_tot_cnt \in Nat /\ k.free_tot_cnt < k.blk_cnt
  <2>1. PICK x \in Nat : x = b.at
    BY <1>2
  <2>2. PICK use : use = HeldIn(lv, ch)
    OBVIOUS
  <2>3. /\ ch \in Nat /\ HeaderGood(ch, k, use) /\ x \in use
        /\ m = Freed(k, x, st)
    BY <2>1, <2>2, <1>3, <1>4, <1>5
  <2>4. /\ HeaderGood(ch, m, use \ {x})
        /\ m.owner = k.owner /\ m.size_cls = k.size_cls /\ m.blk_cnt = k.blk_cnt
        /\ m.free_tot_cnt = k.free_tot_cnt + 1 /\ m.state = st
        /\ k.free_tot_cnt \in Nat /\ k.free_tot_cnt < k.blk_cnt
    BY ONLY <2>1, <2>3, st \in States, FreedHeader
  <2> QED  BY <2>4
<1>6. "FORG" \in States
  BY SMTT(30) DEF States
<1> QED  BY <1>2, <1>3, <1>5, <1>6

\* A chunk that was full goes to the background list of its class.
LEMMA FreeFull ==
  ASSUME NEW C, NEW F, NEW B, NEW L, NEW lv, ChunksGood(C, F, B, L, lv),
         NEW t \in Thread, NEW b \in lv[t], NEW lw, lw = Gives(lv, t, b),
         NEW ch, ch = ChunkOf(b.at), NEW k, k = C[ch], k.state = "FULL"
  PROVE  ChunksGood([C EXCEPT ![ch] = Freed(k, b.at, "BACK")], F,
                    Put(B, t, k.size_cls, Append(B[t][k.size_cls], ch)), L, lw)
<1>1. ListsGood(DOMAIN C, F, B, L)
  BY DEF ChunksGood
<1>2. PICK m : m = Freed(k, b.at, "BACK")
  OBVIOUS
<1>3. "BACK" \in States
  BY DEF States
<1>4. /\ ch \in DOMAIN C /\ ch \in Nat \ {DUMMY} /\ k \in ChunkType /\ k.owner = t
      /\ PlaceGood(ch, k, F, B, L)
      /\ k.free_tot_cnt \in Nat
  BY FreeFinds
<1>5. /\ m.owner = t /\ m.size_cls = k.size_cls /\ m.blk_cnt = k.blk_cnt
      /\ m.free_tot_cnt = k.free_tot_cnt + 1 /\ m.state = "BACK"
  BY <1>2, <1>3, <1>4, FreeFinds
<1>6. PICK c \in Class : c = k.size_cls
  BY <1>4 DEF ChunkType
<1>7. B \in [Thread -> [Class -> Seq(Nat)]]
      /\ \A u \in Thread : \A d \in Class : Listed(B[u][d]) /\ ToSet(B[u][d]) \subseteq DOMAIN C
  BY <1>1 DEF ListsGood, ListType
<1>8. /\ \A u \in Thread : \A d \in Class : F[u][d] # ch /\ ch \notin ToSet(B[u][d])
      /\ \A u \in Thread : ch \notin ToSet(L[u])
  BY <1>4 DEF PlaceGood
<1>9. PICK s : s = Append(B[t][c], ch)
  OBVIOUS
<1>10. Listed(s) /\ ToSet(s) = ToSet(B[t][c]) \cup {ch}
  BY <1>4, <1>7, <1>8, <1>9, ListAppend
<1>11. PICK B2 : B2 = Put(B, t, c, s)
  OBVIOUS
<1>12. /\ B2 \in ListType /\ B2[t][c] = s
       /\ \A u \in Thread : \A d \in Class : u # t \/ d # c => B2[u][d] = B[u][d]
  BY <1>7, <1>10, <1>11 DEF Put, ListType, Listed
<1>13. \A u \in Thread : \A d \in Class : ch \in ToSet(B2[u][d]) <=> u = t /\ d = c
  <2> TAKE u \in Thread
  <2> TAKE d \in Class
  <2>1. CASE u = t /\ d = c
    BY <2>1, <1>10, <1>12
  <2>2. CASE u # t \/ d # c
    BY <2>2, <1>8, <1>12
  <2> QED  BY <2>1, <2>2
<1>14. PlaceGood(ch, m, F, B2, L)
  <2>1. m.free_tot_cnt # 0
    BY <1>4, <1>5
  <2> QED  BY <2>1, <1>5, <1>6, <1>8, <1>13 DEF PlaceGood
<1>15. \A d \in DOMAIN C \ {ch} : SamePlace(d, F, B, L, F, B2, L)
  <2> SUFFICES ASSUME NEW d \in DOMAIN C \ {ch}, NEW u \in Thread, NEW e \in Class
               PROVE  d \in ToSet(B2[u][e]) <=> d \in ToSet(B[u][e])
    BY DEF SamePlace
  <2>1. CASE u = t /\ e = c
    BY <2>1, <1>10, <1>12
  <2> QED  BY <2>1, <1>12
<1>16. ListsGood(DOMAIN C, F, B2, L)
  <2>1. \A u \in Thread : \A d \in Class : Listed(B2[u][d]) /\ ToSet(B2[u][d]) \subseteq DOMAIN C
    <3> TAKE u \in Thread
    <3> TAKE d \in Class
    <3>1. CASE u = t /\ d = c
      BY <3>1, <1>4, <1>7, <1>10, <1>12
    <3>2. CASE u # t \/ d # c
      BY <3>2, <1>7, <1>12
    <3> QED  BY <3>1, <3>2
  <2> QED  BY <2>1, <1>1, <1>12 DEF ListsGood
<1>17. ChunksGood([C EXCEPT ![ch] = m], F, B2, L, lw)
  BY SMTT(30), <1>2, <1>3, <1>14, <1>15, <1>16, FreeOne
<1> QED  BY <1>2, <1>6, <1>9, <1>11, <1>17

\* The last block of a background chunk: it changes to the free list.
LEMMA FreeEmptied ==
  ASSUME NEW C, NEW F, NEW B, NEW L, NEW lv, ChunksGood(C, F, B, L, lv),
         NEW t \in Thread, NEW b \in lv[t], NEW lw, lw = Gives(lv, t, b),
         NEW ch, ch = ChunkOf(b.at), NEW k, k = C[ch],
         k.state = "BACK", k.free_tot_cnt + 1 = k.blk_cnt
  PROVE  ChunksGood([C EXCEPT ![ch] = Freed(k, b.at, "BACK")], F,
                    Put(B, t, k.size_cls, list_del(B[t][k.size_cls], ch)),
                    [L EXCEPT ![t] = Append(L[t], ch)], lw)
<1>1. ListsGood(DOMAIN C, F, B, L)
  BY DEF ChunksGood
<1>2. PICK m : m = Freed(k, b.at, "BACK")
  OBVIOUS
<1>3. "BACK" \in States
  BY DEF States
<1>4. /\ ch \in DOMAIN C /\ ch \in Nat \ {DUMMY} /\ k \in ChunkType /\ k.owner = t
      /\ PlaceGood(ch, k, F, B, L)
      /\ k.free_tot_cnt \in Nat /\ k.free_tot_cnt < k.blk_cnt
  BY FreeFinds
<1>5. /\ m.owner = t /\ m.size_cls = k.size_cls /\ m.blk_cnt = k.blk_cnt
      /\ m.free_tot_cnt = k.free_tot_cnt + 1 /\ m.state = "BACK"
  BY <1>2, <1>3, <1>4, FreeFinds
<1>6. PICK c \in Class : c = k.size_cls
  BY <1>4 DEF ChunkType
<1>7. /\ B \in [Thread -> [Class -> Seq(Nat)]] /\ L \in [Thread -> Seq(Nat)]
      /\ \A u \in Thread : \A d \in Class : Listed(B[u][d]) /\ ToSet(B[u][d]) \subseteq DOMAIN C
      /\ \A u \in Thread : Listed(L[u]) /\ ToSet(L[u]) \subseteq DOMAIN C
  BY <1>1 DEF ListsGood, ListType
<1>8. \A u \in Thread : ch \notin ToSet(L[u])
  <2>1. k.free_tot_cnt # k.blk_cnt
    BY <1>4
  <2> QED  BY <2>1, <1>4 DEF PlaceGood
<1>9. /\ \A u \in Thread : \A d \in Class : F[u][d] # ch
      /\ \A u \in Thread : \A d \in Class : ch \in ToSet(B[u][d]) => u = t /\ d = c
      /\ ch \in ToSet(B[t][c])
  BY <1>4, <1>6, <1>8 DEF PlaceGood
<1>10. PICK s : s = list_del(B[t][c], ch)
  OBVIOUS
<1>11. Listed(s) /\ ToSet(s) = ToSet(B[t][c]) \ {ch}
  BY <1>7, <1>9, <1>10, ListDel
<1>12. PICK r : r = Append(L[t], ch)
  OBVIOUS
<1>13. Listed(r) /\ ToSet(r) = ToSet(L[t]) \cup {ch}
  BY <1>4, <1>7, <1>8, <1>12, ListAppend
<1>14. PICK B2 : B2 = Put(B, t, c, s)
  OBVIOUS
<1>15. /\ B2 \in ListType /\ B2[t][c] = s
       /\ \A u \in Thread : \A d \in Class : u # t \/ d # c => B2[u][d] = B[u][d]
  BY <1>7, <1>11, <1>14 DEF Put, ListType, Listed
<1>16. PICK L2 : L2 = [L EXCEPT ![t] = r]
  OBVIOUS
<1>17. /\ L2 \in [Thread -> Seq(Nat)] /\ L2[t] = r
       /\ \A u \in Thread : u # t => L2[u] = L[u]
  BY <1>7, <1>13, <1>16 DEF Listed
<1>18. \A u \in Thread : \A d \in Class : ch \notin ToSet(B2[u][d])
  <2> TAKE u \in Thread
  <2> TAKE d \in Class
  <2>1. CASE u = t /\ d = c
    BY <2>1, <1>11, <1>15
  <2>2. CASE u # t \/ d # c
    BY <2>2, <1>9, <1>15
  <2> QED  BY <2>1, <2>2
<1>19. \A u \in Thread : ch \in ToSet(L2[u]) <=> u = t
  <2> TAKE u \in Thread
  <2>1. CASE u = t
    BY <2>1, <1>13, <1>17
  <2> QED  BY <2>1, <1>8, <1>17
<1>20. PlaceGood(ch, m, F, B2, L2)
  <2>1. m.free_tot_cnt # 0
    BY <1>4, <1>5
  <2> QED  BY <2>1, <1>5, <1>9, <1>18, <1>19 DEF PlaceGood
<1>21. \A d \in DOMAIN C \ {ch} : SamePlace(d, F, B, L, F, B2, L2)
  <2> SUFFICES ASSUME NEW d \in DOMAIN C \ {ch} PROVE SamePlace(d, F, B, L, F, B2, L2)
    OBVIOUS
  <2>1. \A u \in Thread : \A e \in Class : d \in ToSet(B2[u][e]) <=> d \in ToSet(B[u][e])
    <3> TAKE u \in Thread
    <3> TAKE e \in Class
    <3>1. CASE u = t /\ e = c
      BY <3>1, <1>11, <1>15
    <3> QED  BY <3>1, <1>15
  <2>2. \A u \in Thread : d \in ToSet(L2[u]) <=> d \in ToSet(L[u])
    <3> TAKE u \in Thread
    <3>1. CASE u = t
      BY <3>1, <1>13, <1>17
    <3> QED  BY <3>1, <1>17
  <2> QED  BY <2>1, <2>2 DEF SamePlace
<1>22. ListsGood(DOMAIN C, F, B2, L2)
  <2>1. \A u \in Thread : \A d \in Class : Listed(B2[u][d]) /\ ToSet(B2[u][d]) \subseteq DOMAIN C
    <3> TAKE u \in Thread
    <3> TAKE d \in Class
    <3>1. CASE u = t /\ d = c
      BY <3>1, <1>7, <1>11, <1>15
    <3>2. CASE u # t \/ d # c
      BY <3>2, <1>7, <1>15
    <3> QED  BY <3>1, <3>2
  <2>2. \A u \in Thread : Listed(L2[u]) /\ ToSet(L2[u]) \subseteq DOMAIN C
    <3> TAKE u \in Thread
    <3>1. CASE u = t
      BY <3>1, <1>4, <1>7, <1>13, <1>17
    <3> QED  BY <3>1, <1>7, <1>17
  <2> QED  BY <2>1, <2>2, <1>1, <1>15, <1>17 DEF ListsGood
<1>23. ChunksGood([C EXCEPT ![ch] = m], F, B2, L2, lw)
  BY <1>2, <1>3, <1>20, <1>21, <1>22, FreeOne
<1> QED  BY <1>2, <1>6, <1>10, <1>12, <1>14, <1>16, <1>23

\* Otherwise the chunk stays where it is.
LEMMA FreeStays ==
  ASSUME NEW C, NEW F, NEW B, NEW L, NEW lv, ChunksGood(C, F, B, L, lv),
         NEW t \in Thread, NEW b \in lv[t], NEW lw, lw = Gives(lv, t, b),
         NEW ch, ch = ChunkOf(b.at), NEW k, k = C[ch], k.state # "FULL"
  PROVE  ChunksGood([C EXCEPT ![ch] = Freed(k, b.at, k.state)], F, B, L, lw)
<1>1. ListsGood(DOMAIN C, F, B, L)
  BY DEF ChunksGood
<1>2. PICK m : m = Freed(k, b.at, k.state)
  OBVIOUS
<1>3. /\ ch \in DOMAIN C /\ k \in ChunkType
      /\ PlaceGood(ch, k, F, B, L)
      /\ k.free_tot_cnt \in Nat /\ k.free_tot_cnt < k.blk_cnt
  BY FreeFinds
<1>4. k.state \in States
  BY <1>3 DEF ChunkType
<1>5. /\ m.owner = k.owner /\ m.size_cls = k.size_cls /\ m.blk_cnt = k.blk_cnt
      /\ m.free_tot_cnt = k.free_tot_cnt + 1 /\ m.state = k.state
  BY <1>2, <1>4, FreeFinds
<1>6. PlaceGood(ch, m, F, B, L)
  <2>1. m.free_tot_cnt # 0 /\ k.free_tot_cnt # k.blk_cnt
    BY <1>3, <1>5
  <2> QED  BY <2>1, <1>3, <1>5 DEF PlaceGood
<1>7. \A d \in DOMAIN C \ {ch} : SamePlace(d, F, B, L, F, B, L)
  BY DEF SamePlace
<1>8. ChunksGood([C EXCEPT ![ch] = m], F, B, L, lw)
  BY <1>1, <1>2, <1>4, <1>6, <1>7, FreeOne
<1> QED  BY <1>2, <1>8
-----------------------------------------------------------------------------
\* The heaps and pools as one record, and that they are in order.
HeapOf(C, F, B, L, P, r) ==
  [chunk |-> C, foreground |-> F, background |-> B, free_list |-> L, pool |-> P, crashed |-> r]

HeapGood(h, lv) ==
  /\ h = HeapOf(h.chunk, h.foreground, h.background, h.free_list, h.pool, h.crashed)
  /\ ChunksGood(h.chunk, h.foreground, h.background, h.free_list, lv)
  /\ PoolsGood(h.pool, DOMAIN h.chunk)

\* Chunks stay, and of the class they were made for.
Keeps(C, C2) ==
  DOMAIN C \subseteq DOMAIN C2 /\ \A d \in DOMAIN C : C2[d].size_cls = C[d].size_cls

\* A record of good parts is a good one.
LEMMA GoodParts ==
  ASSUME NEW C, NEW F, NEW B, NEW L, NEW P, NEW r, NEW lv,
         ChunksGood(C, F, B, L, lv), PoolsGood(P, DOMAIN C),
         NEW h, h = HeapOf(C, F, B, L, P, r)
  PROVE  HeapGood(h, lv) /\ h.chunk = C /\ h.foreground = F
<1>1. /\ h.chunk = C /\ h.foreground = F /\ h.background = B /\ h.free_list = L /\ h.pool = P
      /\ h.crashed = r
  BY DEF HeapOf
<1> QED  BY <1>1 DEF HeapGood

\* The dummy is no address.
LEMMA DummyIs == DUMMY \in Nat
BY DEF DUMMY

\* Putting a foreground twice.
LEMMA PutTwice ==
  ASSUME NEW F \in [Thread -> [Class -> Nat]], NEW t \in Thread, NEW c \in Class,
         NEW x \in Nat, NEW y \in Nat
  PROVE  /\ Put(Put(F, t, c, x), t, c, y) = Put(F, t, c, y)
         /\ Put(F, t, c, y)[t][c] = y
         /\ Put(F, t, c, y) \in [Thread -> [Class -> Nat]]
BY DEF Put

\* The same record as a function of the names of its fields.
AsFunction(C, F, B, L, P, r) ==
  [x \in {"chunk", "foreground", "background", "free_list", "pool", "crashed"} |->
     IF x = "chunk" THEN C ELSE IF x = "foreground" THEN F ELSE IF x = "background" THEN B
     ELSE IF x = "free_list" THEN L ELSE IF x = "pool" THEN P ELSE r]

\* Changing one field of the heaps.
WithChunk(h, v) == [h EXCEPT !.chunk = v]
WithForeground(h, v) == [h EXCEPT !.foreground = v]
WithBackground(h, v) == [h EXCEPT !.background = v]
WithFreeList(h, v) == [h EXCEPT !.free_list = v]
WithPool(h, v) == [h EXCEPT !.pool = v]

\* A heap with one field changed is made of that field and the others.
LEMMA FieldChanged ==
  ASSUME NEW C, NEW F, NEW B, NEW L, NEW P, NEW r, NEW h, h = HeapOf(C, F, B, L, P, r), NEW v
  PROVE  /\ WithChunk(h, v) = HeapOf(v, F, B, L, P, r)
         /\ WithForeground(h, v) = HeapOf(C, v, B, L, P, r)
         /\ WithBackground(h, v) = HeapOf(C, F, v, L, P, r)
         /\ WithFreeList(h, v) = HeapOf(C, F, B, v, P, r)
         /\ WithPool(h, v) = HeapOf(C, F, B, L, v, r)
<1>1. h = AsFunction(C, F, B, L, P, r)
  BY DEF HeapOf, AsFunction
<1>2. /\ HeapOf(v, F, B, L, P, r) = AsFunction(v, F, B, L, P, r)
      /\ HeapOf(C, v, B, L, P, r) = AsFunction(C, v, B, L, P, r)
      /\ HeapOf(C, F, v, L, P, r) = AsFunction(C, F, v, L, P, r)
      /\ HeapOf(C, F, B, v, P, r) = AsFunction(C, F, B, v, P, r)
      /\ HeapOf(C, F, B, L, v, r) = AsFunction(C, F, B, L, v, r)
  BY DEF HeapOf, AsFunction
<1>3. WithChunk(h, v) = AsFunction(v, F, B, L, P, r)
  BY <1>1 DEF AsFunction, WithChunk
<1>4. WithForeground(h, v) = AsFunction(C, v, B, L, P, r)
  BY <1>1 DEF AsFunction, WithForeground
<1>5. WithBackground(h, v) = AsFunction(C, F, v, L, P, r)
  BY <1>1 DEF AsFunction, WithBackground
<1>6. WithFreeList(h, v) = AsFunction(C, F, B, v, P, r)
  BY <1>1 DEF AsFunction, WithFreeList
<1>7. WithPool(h, v) = AsFunction(C, F, B, L, v, r)
  BY <1>1 DEF AsFunction, WithPool
<1> QED  BY <1>2, <1>3, <1>4, <1>5, <1>6, <1>7

\* The chunks with another header of ch.
Headed(C, ch, k) == [C EXCEPT ![ch] = k]

\* The foreground with a chunk of a list.
LEMMA ToForegroundIs ==
  ASSUME NEW C, NEW F, NEW B, NEW L, NEW P, NEW r, NEW h, h = HeapOf(C, F, B, L, P, r),
         NEW t \in Thread, NEW c \in Class, NEW ch,
         NEW C2, C2 = Headed(C, ch, InForeground(C[ch])), NEW F2, F2 = Put(F, t, c, ch)
  PROVE  ToForeground(h, t, c, ch) = HeapOf(C2, F2, B, L, P, r)
<1>1. C2 = [C EXCEPT ![ch] = InForeground(C[ch])]
  BY DEF Headed
<1>2. C2 = [C EXCEPT ![ch].state = "FORG"]
  BY <1>1 DEF InForeground
<1>3. F2 = [F EXCEPT ![t][c] = ch]
  BY DEF Put
<1>4. h.chunk = C /\ h.foreground = F
  BY DEF HeapOf
<1>5. PICK g : g = WithForeground(h, F2)
  OBVIOUS
<1>6. g = HeapOf(C, F2, B, L, P, r)
  BY <1>5, FieldChanged
<1>7. g.chunk = C
  BY <1>6 DEF HeapOf
<1>8. ToForeground(h, t, c, ch) = WithChunk(g, C2)
  BY <1>2, <1>3, <1>4, <1>5, <1>7 DEF ToForeground, WithForeground, WithChunk
<1>9. WithChunk(g, C2) = HeapOf(C2, F2, B, L, P, r)
  BY <1>6, FieldChanged
<1> QED  BY <1>8, <1>9

\* One header changed, and the same chunks of the same classes.
LEMMA KeepsOne ==
  ASSUME NEW C, NEW ch \in DOMAIN C, NEW m, m.size_cls = C[ch].size_cls,
         NEW C2, C2 = [C EXCEPT ![ch] = m]
  PROVE  DOMAIN C2 = DOMAIN C /\ Keeps(C, C2)
BY DEF Keeps

\* Two changes that keep the chunks, one after the other.
LEMMA KeepsOn ==
  ASSUME NEW C, NEW C2, NEW C3, Keeps(C, C2), Keeps(C2, C3)
  PROVE  Keeps(C, C3)
BY DEF Keeps

\* What replacing the foreground of class c of thread t makes of the heaps.
ReplacedBy(h, g, t, c, lv) ==
  HeapGood(g, lv) /\ g.foreground[t][c] # DUMMY /\ Keeps(h.chunk, g.chunk)

\* A background chunk replaces the foreground.
LEMMA ReplaceFromBackground ==
  ASSUME NEW C, NEW F \in [Thread -> [Class -> Nat]], NEW B, NEW L, NEW P, NEW r, NEW lv,
         NEW t \in Thread, NEW c \in Class,
         ChunksGood(C, Put(F, t, c, DUMMY), B, L, lv), PoolsGood(P, DOMAIN C),
         NEW h, h = HeapOf(C, F, B, L, P, r), B[t][c] # <<>>
  PROVE  ReplacedBy(h, lheap_replace_foreground(h, t, c), t, c, lv)
<1>1. PICK F0 : F0 = Put(F, t, c, DUMMY)
  OBVIOUS
<1>2. ChunksGood(C, F0, B, L, lv) /\ F0[t][c] = DUMMY
  BY <1>1, PutTwice, DummyIs
<1>3. PICK ch : ch = Head(B[t][c])
  OBVIOUS
<1>4. /\ ch \in DOMAIN C
      /\ ChunksGood([C EXCEPT ![ch] = InForeground(C[ch])], Put(F0, t, c, ch),
                    Put(B, t, c, Tail(B[t][c])), L, lv)
  BY <1>2, <1>3, FromBackground
<1>5. ch \in Nat \ {DUMMY} /\ C[ch] \in ChunkType
  BY <1>2, <1>4, ChunkIs
<1>6. PICK F2 : F2 = Put(F, t, c, ch)
  OBVIOUS
<1>7. Put(F0, t, c, ch) = F2 /\ F2[t][c] = ch
  BY ONLY <1>1, <1>5, <1>6, F \in [Thread -> [Class -> Nat]], t \in Thread, c \in Class,
          PutTwice, DummyIs
<1>8. PICK B2 : B2 = Put(B, t, c, Tail(B[t][c]))
  OBVIOUS
<1>9. PICK C2 : C2 = [C EXCEPT ![ch] = InForeground(C[ch])]
  OBVIOUS
<1>10. InForeground(C[ch]).size_cls = C[ch].size_cls
  BY <1>5 DEF InForeground, ChunkType
<1>11. DOMAIN C2 = DOMAIN C /\ Keeps(C, C2)
  BY <1>4, <1>9, <1>10, KeepsOne
<1>12. PICK g : g = WithBackground(h, B2)
  OBVIOUS
<1>13. g = HeapOf(C, F, B2, L, P, r)
  BY <1>12, FieldChanged
<1>14. h.background = B /\ h.chunk = C
  BY DEF HeapOf
<1>15. g = [h EXCEPT !.background[t][c] = Tail(@)]
  BY <1>8, <1>12, <1>14 DEF WithBackground, Put
<1>16. lheap_replace_foreground(h, t, c) = ToForeground(g, t, c, ch)
  BY <1>3, <1>14, <1>15 DEF lheap_replace_foreground
<1>17. ToForeground(g, t, c, ch) = HeapOf(C2, F2, B2, L, P, r)
  <2>1. C2 = Headed(C, ch, InForeground(C[ch]))
    BY <1>9 DEF Headed
  <2> QED  BY ONLY <2>1, <1>6, <1>13, t \in Thread, c \in Class, ToForegroundIs
<1>18. PICK k : k = lheap_replace_foreground(h, t, c)
  OBVIOUS
<1>19. k = HeapOf(C2, F2, B2, L, P, r) /\ ChunksGood(C2, F2, B2, L, lv) /\ PoolsGood(P, DOMAIN C2)
  BY <1>4, <1>7, <1>8, <1>9, <1>11, <1>16, <1>17, <1>18
<1>20. HeapGood(k, lv) /\ k.chunk = C2 /\ k.foreground = F2
  BY ONLY <1>19, GoodParts, SMTT(20)
<1>21. k.foreground[t][c] # DUMMY
  BY <1>5, <1>7, <1>20
<1>22. HeapGood(k, lv) /\ Keeps(h.chunk, k.chunk)
  BY <1>11, <1>14, <1>20
<1> QED  BY ONLY <1>18, <1>21, <1>22 DEF ReplacedBy

\* An emptied chunk replaces the foreground.
LEMMA ReplaceFromFreeList ==
  ASSUME NEW C, NEW F \in [Thread -> [Class -> Nat]], NEW B, NEW L, NEW P, NEW r, NEW lv,
         NEW t \in Thread, NEW c \in Class,
         ChunksGood(C, Put(F, t, c, DUMMY), B, L, lv), PoolsGood(P, DOMAIN C),
         NEW h, h = HeapOf(C, F, B, L, P, r), B[t][c] = <<>>, L[t] # <<>>
  PROVE  ReplacedBy(h, lheap_replace_foreground(h, t, c), t, c, lv)
<1>1. PICK F0 : F0 = Put(F, t, c, DUMMY)
  OBVIOUS
<1>2. ChunksGood(C, F0, B, L, lv) /\ F0[t][c] = DUMMY
  BY <1>1, PutTwice, DummyIs
<1>3. PICK ch : ch = Head(L[t])
  OBVIOUS
<1>4. PICK L2 : L2 = [L EXCEPT ![t] = Tail(L[t])]
  OBVIOUS
<1>5. /\ ch \in DOMAIN C
      /\ ChunksGood([C EXCEPT ![ch] = InForeground(C[ch])], Put(F0, t, c, ch), B, L2, lv)
  BY <1>2, <1>3, <1>4, FromFreeList
<1>6. ch \in Nat \ {DUMMY} /\ C[ch] \in ChunkType
  BY <1>2, <1>5, ChunkIs
<1>7. PICK F2 : F2 = Put(F, t, c, ch)
  OBVIOUS
<1>8. Put(F0, t, c, ch) = F2 /\ F2[t][c] = ch
  BY <1>1, <1>6, <1>7, PutTwice, DummyIs
<1>9. PICK C2 : C2 = [C EXCEPT ![ch] = InForeground(C[ch])]
  OBVIOUS
<1>10. InForeground(C[ch]).size_cls = C[ch].size_cls
  BY <1>6 DEF InForeground, ChunkType
<1>11. DOMAIN C2 = DOMAIN C /\ Keeps(C, C2)
  BY <1>5, <1>9, <1>10, KeepsOne
<1>12. PICK g : g = WithFreeList(h, L2)
  OBVIOUS
<1>13. g = HeapOf(C, F, B, L2, P, r)
  BY <1>12, FieldChanged
<1>14. h.background = B /\ h.chunk = C /\ h.free_list = L
  BY DEF HeapOf
<1>15. g = [h EXCEPT !.free_list[t] = Tail(@)]
  BY <1>4, <1>12, <1>14 DEF WithFreeList
<1>16. lheap_replace_foreground(h, t, c) = ToForeground(g, t, c, ch)
  BY <1>3, <1>14, <1>15 DEF lheap_replace_foreground
<1>17. ToForeground(g, t, c, ch) = HeapOf(C2, F2, B, L2, P, r)
  <2>1. C2 = Headed(C, ch, InForeground(C[ch]))
    BY <1>9 DEF Headed
  <2> QED  BY ONLY <2>1, <1>7, <1>13, t \in Thread, c \in Class, ToForegroundIs
<1>18. PICK k : k = lheap_replace_foreground(h, t, c)
  OBVIOUS
<1>19. k = HeapOf(C2, F2, B, L2, P, r) /\ ChunksGood(C2, F2, B, L2, lv) /\ PoolsGood(P, DOMAIN C2)
  BY <1>5, <1>8, <1>9, <1>11, <1>16, <1>17, <1>18
<1>20. HeapGood(k, lv) /\ k.chunk = C2 /\ k.foreground = F2
  BY ONLY <1>19, GoodParts, SMTT(20)
<1>21. k.foreground[t][c] # DUMMY
  BY <1>6, <1>8, <1>20
<1>22. HeapGood(k, lv) /\ Keeps(h.chunk, k.chunk)
  BY <1>11, <1>14, <1>20
<1> QED  BY ONLY <1>18, <1>21, <1>22 DEF ReplacedBy

\* A new chunk replaces the foreground.
LEMMA ReplaceFromPool ==
  ASSUME NEW C, NEW F \in [Thread -> [Class -> Nat]], NEW B, NEW L, NEW P, NEW r, NEW lv,
         NEW t \in Thread, NEW c \in Class,
         ChunksGood(C, Put(F, t, c, DUMMY), B, L, lv), PoolsGood(P, DOMAIN C),
         NEW h, h = HeapOf(C, F, B, L, P, r),
         \E a \in Area : HasRoom(P[a], a)
  PROVE  ReplacedBy(h, NewForeground(h, t, c), t, c, lv)
<1>1. PICK F0 : F0 = Put(F, t, c, DUMMY)
  OBVIOUS
<1>2. ChunksGood(C, F0, B, L, lv) /\ F0[t][c] = DUMMY
  BY <1>1, PutTwice, DummyIs
<1>3. PICK S : S = {b \in Area : HasRoom(P[b], b)}
  OBVIOUS
<1>4. PICK a : a = Min(S)
  OBVIOUS
<1>5. a \in Area /\ HasRoom(P[a], a)
  <2>1. S \in SUBSET Int /\ S # {} /\ \A b \in S : 1 <= b
    BY <1>3, Areas
  <2>2. PICK lo \in Int : lo = 1
    OBVIOUS
  <2>3. a \in S
    BY ONLY <2>1, <2>2, <1>4, MinOfSet
  <2> QED  BY <2>3, <1>3
<1>6. PICK p : p = P[a]
  OBVIOUS
<1>7. PICK q : q = gpool_acquire_chunk(p)
  OBVIOUS
<1>8. PICK np : np = q.pool
  OBVIOUS
<1>9. HasRoom(p, a)
  BY <1>5, <1>6
<1>10. PICK ch : ch = q.chunk
  OBVIOUS
<1>11. PICK P2 : P2 = Refilled(P, a, np)
  OBVIOUS
<1>12. PICK D2 : D2 = DOMAIN C \cup {ch}
  OBVIOUS
<1>13. ch \in Nat \ {DUMMY} /\ ch \notin DOMAIN C /\ ChunkOf(ch) = ch /\ PoolsGood(P2, D2)
  <2>1. DOMAIN C \in SUBSET Nat
    BY <1>2 DEF ChunksGood
  <2>2. PICK D : D = DOMAIN C
    OBVIOUS
  <2>3. D \in SUBSET Nat /\ PoolsGood(P, D) /\ D2 = D \cup {ch}
    BY <2>1, <2>2, <1>12
  <2>4. NewChunk(ch, D) /\ PoolsGood(P2, D2)
    BY ONLY <2>3, <1>5, <1>7, <1>10, <1>11, <1>6, <1>8, <1>9, AcquireGood
  <2> QED  BY <2>2, <2>4 DEF NewChunk
<1>14. PICK C2 : C2 = [d \in DOMAIN C \cup {ch} |-> IF d = ch THEN chunk_init(t, c, d) ELSE C[d]]
  OBVIOUS
<1>15. PICK F2 : F2 = Put(F, t, c, ch)
  OBVIOUS
<1>16. Put(F0, t, c, ch) = F2 /\ F2[t][c] = ch
  BY <1>1, <1>13, <1>15, PutTwice, DummyIs
<1>17. ChunksGood(C2, F2, B, L, lv)
  BY <1>2, <1>13, <1>14, <1>16, FromPool
<1>18. DOMAIN C2 = D2 /\ Keeps(C, C2)
  BY <1>12, <1>13, <1>14 DEF Keeps
<1>19. /\ h.chunk = C /\ h.foreground = F /\ h.pool = P
  BY DEF HeapOf
<1>20. PICK g1 : g1 = WithPool(h, P2)
  OBVIOUS
<1>21. g1 = HeapOf(C, F, B, L, P2, r)
  BY <1>20, FieldChanged
<1>22. PICK g2 : g2 = WithForeground(g1, F2)
  OBVIOUS
<1>23. g2 = HeapOf(C, F2, B, L, P2, r)
  BY <1>21, <1>22, FieldChanged
<1>24. PICK g3 : g3 = WithChunk(g2, C2)
  OBVIOUS
<1>25. g3 = HeapOf(C2, F2, B, L, P2, r)
  BY <1>23, <1>24, FieldChanged
<1>26. PICK k : k = NewForeground(h, t, c)
  BY SMTT(30)
<1>27. k = [h EXCEPT !.pool[a] = q.pool, !.foreground[t][c] = q.chunk,
                     !.chunk = [d \in DOMAIN h.chunk \cup {q.chunk} |->
                                  IF d = q.chunk THEN chunk_init(t, c, d) ELSE h.chunk[d]]]
  <2>1. ~ \A b \in Area : ~HasRoom(h.pool[b], b)
    BY <1>19
  <2>2. a = Min({b \in Area : HasRoom(h.pool[b], b)})
    BY <1>3, <1>4, <1>19
  <2>3. q = gpool_acquire_chunk(h.pool[a])
    BY <1>7, <1>19, <1>6
  <2> QED  BY <2>1, <2>2, <2>3, <1>26 DEF NewForeground
<1>28. k = g3
  <2>1. g1.foreground = F
    BY <1>21 DEF HeapOf
  <2>2. C2 = [d \in DOMAIN h.chunk \cup {q.chunk} |->
                IF d = q.chunk THEN chunk_init(t, c, d) ELSE h.chunk[d]]
    BY <1>10, <1>14, <1>19
  <2>3. g1 = [h EXCEPT !.pool[a] = q.pool]
    BY <1>11, <1>19, <1>20, <1>8 DEF WithPool, Refilled
  <2>4. g2 = [g1 EXCEPT !.foreground[t][c] = q.chunk]
    BY <2>1, <1>10, <1>15, <1>22 DEF WithForeground, Put
  <2> QED  BY <2>2, <2>3, <2>4, <1>24, <1>27 DEF WithChunk
<1>29. HeapGood(k, lv) /\ k.chunk = C2 /\ k.foreground = F2
  <2>1. k = HeapOf(C2, F2, B, L, P2, r) /\ ChunksGood(C2, F2, B, L, lv) /\ PoolsGood(P2, DOMAIN C2)
    BY <1>13, <1>17, <1>18, <1>25, <1>28
  <2> QED  BY ONLY <2>1, GoodParts, SMTT(20)
<1>30. k.foreground[t][c] # DUMMY
  BY <1>13, <1>16, <1>29
<1>31. HeapGood(k, lv) /\ Keeps(h.chunk, k.chunk)
  BY <1>18, <1>19, <1>29
<1> QED  BY ONLY <1>26, <1>30, <1>31 DEF ReplacedBy

\* Replacing the foreground of a class, unless every area is at its limit.
LEMMA ReplaceGood ==
  ASSUME NEW C, NEW F \in [Thread -> [Class -> Nat]], NEW B, NEW L, NEW P, NEW r, NEW lv,
         NEW t \in Thread, NEW c \in Class,
         ChunksGood(C, Put(F, t, c, DUMMY), B, L, lv), PoolsGood(P, DOMAIN C),
         NEW h, h = HeapOf(C, F, B, L, P, r),
         NEW g, g = lheap_replace_foreground(h, t, c), ~g.crashed
  PROVE  ReplacedBy(h, g, t, c, lv)
<1>1. h.background = B /\ h.free_list = L /\ h.pool = P
  BY DEF HeapOf
<1>2. CASE B[t][c] # <<>>
  BY <1>2, ReplaceFromBackground
<1>3. CASE B[t][c] = <<>> /\ L[t] # <<>>
  BY <1>3, ReplaceFromFreeList
<1>4. CASE B[t][c] = <<>> /\ L[t] = <<>>
  <2>1. g = NewForeground(h, t, c)
    BY <1>1, <1>4 DEF lheap_replace_foreground
  <2>2. \E a \in Area : HasRoom(P[a], a)
    <3> SUFFICES ASSUME \A a \in Area : ~HasRoom(P[a], a) PROVE FALSE
      OBVIOUS
    <3>1. g = [h EXCEPT !.crashed = TRUE]
      BY <2>1, <1>1 DEF NewForeground
    <3>2. g.crashed = TRUE
      BY <3>1 DEF HeapOf
    <3> QED  BY <3>2
  <2> QED  BY <2>1, <2>2, ReplaceFromPool
<1> QED  BY <1>2, <1>3, <1>4
-----------------------------------------------------------------------------
\* The truth value of wear_count does not reach the limit.
LEMMA NotWorn ==
  ASSUME NEW k \in ChunkType
  PROVE  ~Worn(k)
BY ChunkAssumption DEF Worn

\* What AllocFrom is made of.
LEMMA AllocFromIs ==
  ASSUME NEW C, NEW F, NEW B, NEW L, NEW P, NEW r, NEW h, h = HeapOf(C, F, B, L, P, r),
         NEW t \in Thread, NEW c \in Class, NEW ch \in DOMAIN C,
         NEW m, m = Taken(C[ch]), m \in ChunkType,
         NEW g, g = WithChunk(h, Headed(C, ch, m))
  PROVE  /\ AllocFrom(h, t, c, ch).addr = chunk_alloc_obj(C[ch]).addr
         /\ m.free_tot_cnt = 0 => AllocFrom(h, t, c, ch).heap = lheap_replace_foreground(g, t, c)
         /\ m.free_tot_cnt # 0 => AllocFrom(h, t, c, ch).heap = g
<1>1. h.chunk = C
  BY DEF HeapOf
<1>2. g = [h EXCEPT !.chunk[ch] = m]
  BY <1>1 DEF WithChunk, Headed
<1>3. ~Worn(m)
  BY NotWorn
<1>4. PICK q : q = AllocFrom(h, t, c, ch)
  OBVIOUS
<1>5. q = LET next == IF m.free_tot_cnt = 0 THEN lheap_replace_foreground(g, t, c) ELSE g
          IN  [addr |-> chunk_alloc_obj(C[ch]).addr,
               heap |-> IF ~Worn(m) THEN next
                        ELSE lheap_replace_foreground(
                                 [next EXCEPT !.chunk[ch].state = "NAVA"], t, c)]
  BY <1>1, <1>2, <1>4 DEF AllocFrom
<1>6. q.addr = chunk_alloc_obj(C[ch]).addr
  BY <1>5
<1>7. /\ m.free_tot_cnt = 0 => q.heap = lheap_replace_foreground(g, t, c)
      /\ m.free_tot_cnt # 0 => q.heap = g
  BY SMTT(30), <1>3, <1>5
<1> QED  BY <1>4, <1>6, <1>7

\* A block handed to a thread for class c: of a chunk of the thread that
\* exists then, and not in use.
HandedOut(h, lv, t, x) ==
  /\ x \in Nat /\ ChunkOf(x) \in DOMAIN h.chunk
  /\ h.chunk[ChunkOf(x)].owner = t /\ x \notin HeldIn(lv, ChunkOf(x))

\* Taking a block from the foreground, and another foreground if it is full.
LEMMA AllocGood ==
  ASSUME NEW h, NEW lv, HeapGood(h, lv), NEW t \in Thread, NEW c \in Class,
         NEW ch, ch = h.foreground[t][c], ch # DUMMY,
         NEW q, q = AllocFrom(h, t, c, ch), NEW g, g = q.heap, ~g.crashed,
         NEW x, x = q.addr, NEW lw, lw = Gets(lv, t, [at |-> x, size |-> Size[c]])
  PROVE  HeapGood(g, lw) /\ Keeps(h.chunk, g.chunk) /\ HandedOut(h, lv, t, x)
<1>1. PICK C : C = h.chunk
  OBVIOUS
<1>2. PICK F : F = h.foreground
  OBVIOUS
<1>3. PICK B : B = h.background
  OBVIOUS
<1>4. PICK L : L = h.free_list
  OBVIOUS
<1>5. PICK P : P = h.pool
  OBVIOUS
<1>6. PICK r : r = h.crashed
  OBVIOUS
<1>7. h = HeapOf(C, F, B, L, P, r) /\ ChunksGood(C, F, B, L, lv) /\ PoolsGood(P, DOMAIN C)
  BY <1>1, <1>2, <1>3, <1>4, <1>5, <1>6 DEF HeapGood
<1>8. F \in [Thread -> [Class -> Nat]] /\ F[t][c] \in DOMAIN C \cup {DUMMY}
  BY <1>7 DEF ChunksGood, ListsGood
<1>9. ch = F[t][c] /\ ch \in DOMAIN C
  BY <1>2, <1>8
<1>10. PICK k : k = C[ch]
  OBVIOUS
<1>11. /\ k \in ChunkType /\ HeaderGood(ch, k, HeldIn(lv, ch)) /\ PlaceGood(ch, k, F, B, L)
       /\ ch \in Nat
  BY <1>7, <1>9, <1>10, ChunkIs
<1>12. k.free_tot_cnt # 0
  BY <1>8, <1>9, <1>11 DEF PlaceGood
<1>13. PICK m : m = Taken(k)
  OBVIOUS
<1>14. m \in ChunkType /\ m.free_tot_cnt = k.free_tot_cnt - 1
  <2>1. PICK y : y = chunk_alloc_obj(k).addr
    OBVIOUS
  <2>2. HeaderGood(ch, m, HeldIn(lv, ch) \cup {y}) /\ m.free_tot_cnt = k.free_tot_cnt - 1
    BY ONLY <2>1, <1>11, <1>12, <1>13, TakenHeader
  <2> QED  BY <2>2 DEF HeaderGood
<1>15. PICK C2 : C2 = Headed(C, ch, m)
  OBVIOUS
<1>16. PICK f : f = WithChunk(h, C2)
  OBVIOUS
<1>17. /\ x = chunk_alloc_obj(k).addr
       /\ m.free_tot_cnt = 0 => g = lheap_replace_foreground(f, t, c)
       /\ m.free_tot_cnt # 0 => g = f
  <2>1. C[ch] \in ChunkType /\ m = Taken(C[ch]) /\ f = WithChunk(h, Headed(C, ch, m))
    BY <1>10, <1>11, <1>13, <1>15, <1>16
  <2>2. /\ AllocFrom(h, t, c, ch).addr = chunk_alloc_obj(C[ch]).addr
        /\ m.free_tot_cnt = 0 => AllocFrom(h, t, c, ch).heap = lheap_replace_foreground(f, t, c)
        /\ m.free_tot_cnt # 0 => AllocFrom(h, t, c, ch).heap = f
    BY ONLY <2>1, <1>7, <1>9, <1>14, t \in Thread, c \in Class, AllocFromIs
  <2> QED  BY SMTT(30), <2>2, <1>10
<1>18. PICK sz \in Nat : sz = Size[c]
  BY Sizes
<1>19. PICK F2 : F2 = Left(F, t, c, m)
  BY SMTT(30)
<1>20. /\ k.owner = t /\ x \in Nat /\ ChunkOf(x) = ch /\ x \notin HeldIn(lv, ch)
       /\ m.size_cls = k.size_cls
       /\ m.state = (IF k.free_tot_cnt = 1 THEN "FULL" ELSE "FORG")
       /\ ChunksGood(C2, F2, B, L, lw)
  <2>1. ch = F[t][c] /\ ch # DUMMY /\ m = Taken(C[ch]) /\ x = chunk_alloc_obj(C[ch]).addr
        /\ lw = Gets(lv, t, [at |-> x, size |-> sz])
    BY <1>9, <1>10, <1>13, <1>17, <1>18
  <2>2. /\ ch \in DOMAIN C /\ C[ch].owner = t /\ C[ch].state = "FORG"
        /\ x \in Nat /\ ChunkOf(x) = ch /\ x \notin HeldIn(lv, ch)
        /\ m.owner = t /\ m.size_cls = C[ch].size_cls
        /\ m.state = (IF C[ch].free_tot_cnt = 1 THEN "FULL" ELSE "FORG")
        /\ ChunksGood([C EXCEPT ![ch] = m], Left(F, t, c, m), B, L, lw)
    BY ONLY <2>1, <1>7, t \in Thread, c \in Class, sz \in Nat, TakeGood
  <2> QED  BY <2>2, <1>10, <1>15, <1>19 DEF Headed
<1>21. DOMAIN C2 = DOMAIN C /\ Keeps(C, C2)
  BY <1>9, <1>10, <1>15, <1>20, KeepsOne DEF Headed
<1>22. m.free_tot_cnt = 0 <=> k.free_tot_cnt = 1
  BY <1>11, <1>14 DEF ChunkType
<1>23. f = HeapOf(C2, F, B, L, P, r) /\ PoolsGood(P, DOMAIN C2)
  BY <1>7, <1>16, <1>21, FieldChanged
<1>24. HeapGood(g, lw) /\ Keeps(C2, g.chunk)
  <2>1. CASE k.free_tot_cnt = 1
    <3>1. F2 = Put(F, t, c, DUMMY)
      BY <2>1, <1>19, <1>20 DEF Left
    <3>2. g = lheap_replace_foreground(f, t, c) /\ ChunksGood(C2, Put(F, t, c, DUMMY), B, L, lw)
      BY <2>1, <3>1, <1>17, <1>20, <1>22
    <3>3. ReplacedBy(f, g, t, c, lw)
      BY ONLY <3>2, <1>8, <1>23, ~g.crashed, t \in Thread, c \in Class, ReplaceGood
    <3>4. f.chunk = C2
      BY <1>23 DEF HeapOf
    <3> QED  BY <3>3, <3>4 DEF ReplacedBy
  <2>2. CASE k.free_tot_cnt # 1
    <3>1. F2 = F
      BY <2>2, <1>19, <1>20 DEF Left
    <3>2. g = HeapOf(C2, F, B, L, P, r) /\ ChunksGood(C2, F, B, L, lw)
      BY <2>2, <3>1, <1>17, <1>20, <1>23, <1>22
    <3>3. HeapGood(g, lw) /\ g.chunk = C2
      BY ONLY SMTT(30), <3>2, <1>23, GoodParts
    <3> QED  BY <3>3 DEF Keeps
  <2> QED  BY SMTT(30), <2>1, <2>2
<1>25. Keeps(C, g.chunk)
  BY <1>21, <1>24, KeepsOn
<1> QED  BY <1>1, <1>9, <1>10, <1>20, <1>24, <1>25 DEF HandedOut

\* small_malloc.
LEMMA MallocGood ==
  ASSUME NEW h, NEW lv, HeapGood(h, lv), NEW t \in Thread, NEW c \in Class,
         NEW q, q = small_malloc(h, t, c), NEW g, g = q.heap, ~g.crashed,
         NEW x, x = q.addr, NEW lw, lw = Gets(lv, t, [at |-> x, size |-> Size[c]])
  PROVE  /\ HeapGood(g, lw) /\ Keeps(h.chunk, g.chunk)
         /\ \E h2 : HeapGood(h2, lv) /\ Keeps(h.chunk, h2.chunk) /\ Keeps(h2.chunk, g.chunk)
                    /\ HandedOut(h2, lv, t, x)
<1>1. PICK h2 : h2 = IF h.foreground[t][c] = DUMMY THEN lheap_replace_foreground(h, t, c) ELSE h
  OBVIOUS
<1>2. ~h2.crashed
  <2>1. h2.crashed => g = h2
    BY <1>1 DEF small_malloc
  <2> QED  BY <2>1
<1>3. PICK ch : ch = h2.foreground[t][c]
  BY SMTT(30)
<1>4. q = AllocFrom(h2, t, c, ch)
  BY <1>1, <1>2, <1>3 DEF small_malloc
<1>5. HeapGood(h2, lv) /\ ch # DUMMY /\ Keeps(h.chunk, h2.chunk)
  <2>1. CASE h.foreground[t][c] # DUMMY
    BY <2>1, <1>1, <1>3 DEF Keeps
  <2>2. CASE h.foreground[t][c] = DUMMY
    <3>1. PICK C, F, B, L, P, r :
            /\ C = h.chunk /\ F = h.foreground /\ B = h.background /\ L = h.free_list
            /\ P = h.pool /\ r = h.crashed
      OBVIOUS
    <3>2. h = HeapOf(C, F, B, L, P, r) /\ ChunksGood(C, F, B, L, lv) /\ PoolsGood(P, DOMAIN C)
      BY SMTT(30), <3>1 DEF HeapGood
    <3>3. F \in [Thread -> [Class -> Nat]] /\ F[t][c] = DUMMY
      BY <2>2, <3>1, <3>2 DEF ChunksGood, ListsGood
    <3>4. Put(F, t, c, DUMMY) = F
      BY <3>3 DEF Put
    <3>5. h2 = lheap_replace_foreground(h, t, c) /\ ChunksGood(C, Put(F, t, c, DUMMY), B, L, lv)
      BY <2>2, <3>2, <3>4, <1>1
    <3>6. ReplacedBy(h, h2, t, c, lv)
      BY ONLY <3>2, <3>3, <3>5, <1>2, t \in Thread, c \in Class, ReplaceGood
    <3> QED  BY <3>6, <1>3 DEF ReplacedBy
  <2> QED  BY <2>1, <2>2
<1>6. HeapGood(g, lw) /\ Keeps(h2.chunk, g.chunk) /\ HandedOut(h2, lv, t, x)
  BY SMTT(30), <1>3, <1>4, <1>5, AllocGood
<1> QED  BY <1>5, <1>6, KeepsOn
-----------------------------------------------------------------------------
\* The heaps after a change of header, after a full chunk was put on a
\* background list, and after an emptied one was moved to the free list.
WithHeader(h, ch, k) == [h EXCEPT !.chunk[ch] = k]
Available(g, t, c, ch) ==
  [g EXCEPT !.background[t][c] = Append(@, ch), !.chunk[ch].state = "BACK"]
Emptied(g, t, c, ch) ==
  [g EXCEPT !.background[t][c] = list_del(@, ch), !.free_list[t] = Append(@, ch)]

\* What chunk_free_small finds and leaves, when the header becomes k.
LEMMA FreeSmallIs ==
  ASSUME NEW h, NEW x, NEW ch, ch = ChunkOf(x),
         NEW k, k = Freed(h.chunk[ch], x, h.chunk[ch].state), h.chunk[ch] \in ChunkType,
         k \in ChunkType, NEW g, g = WithHeader(h, ch, k)
  PROVE  /\ k.state = "FULL" => chunk_free_small(h, x) = Available(g, k.owner, k.size_cls, ch)
         /\ k.state = "BACK" /\ k.free_tot_cnt = k.blk_cnt =>
              chunk_free_small(h, x) = Emptied(g, k.owner, k.size_cls, ch)
         /\ k.state # "FULL" /\ ~(k.state = "BACK" /\ k.free_tot_cnt = k.blk_cnt) =>
              chunk_free_small(h, x) = g
<1>1. k = [h.chunk[ch] EXCEPT !.dlist = <<x>> \o @, !.free_tot_cnt = @ + 1]
  BY DEF Freed, ChunkType
<1>2. k.state \in States
  BY DEF ChunkType
<1>3. chunk_free_small(h, x)
        = LET empty == k.free_tot_cnt = k.blk_cnt
          IN  CASE k.state = "FULL" -> [g EXCEPT !.background[k.owner][k.size_cls] = Append(@, ch),
                                                 !.chunk[ch].state = "BACK"]
                [] k.state = "BACK" /\ empty ->
                     [g EXCEPT !.background[k.owner][k.size_cls] = list_del(@, ch),
                               !.free_list[k.owner] = Append(@, ch)]
                [] k.state = "NAVA" /\ empty ->
                     [g EXCEPT !.pool[PoolOf(x)].free_list = Append(@, ch),
                               !.pool[PoolOf(x)].used_mc = @ - CHUNK_DATA_SIZE]
                [] OTHER -> g
  BY <1>1 DEF chunk_free_small, WithHeader
<1> QED  BY <1>2, <1>3 DEF States, Available, Emptied

\* Freeing changes a header, the lists of its class, or the free list.
LEMMA FreeGood ==
  ASSUME NEW h, NEW lv, HeapGood(h, lv), NEW t \in Thread, NEW b \in lv[t],
         NEW g, g = chunk_free_small(h, b.at), NEW lw, lw = Gives(lv, t, b)
  PROVE  HeapGood(g, lw) /\ Keeps(h.chunk, g.chunk)
<1>1. PICK C, F, B, L, P, r :
        /\ C = h.chunk /\ F = h.foreground /\ B = h.background /\ L = h.free_list
        /\ P = h.pool /\ r = h.crashed
  OBVIOUS
<1>2. h = HeapOf(C, F, B, L, P, r) /\ ChunksGood(C, F, B, L, lv) /\ PoolsGood(P, DOMAIN C)
  BY <1>1 DEF HeapGood
<1>3. PICK x : x = b.at
  OBVIOUS
<1>4. PICK ch : ch = ChunkOf(x)
  OBVIOUS
<1>5. PICK k0 : k0 = C[ch]
  OBVIOUS
<1>6. PICK k : k = Freed(k0, x, k0.state)
  OBVIOUS
<1>7. /\ ch \in DOMAIN C /\ ch \in Nat \ {DUMMY} /\ k0 \in ChunkType /\ k0.owner = t
      /\ x \in Nat /\ k0.size_cls \in Class
      /\ \A st \in States : \A m : m = Freed(k0, x, st) =>
           /\ m.owner = k0.owner /\ m.size_cls = k0.size_cls /\ m.blk_cnt = k0.blk_cnt
           /\ m.free_tot_cnt = k0.free_tot_cnt + 1 /\ m.state = st
      /\ k0.free_tot_cnt \in Nat /\ k0.free_tot_cnt < k0.blk_cnt
  <2>1. ch = ChunkOf(b.at)
    BY <1>3, <1>4
  <2>2. /\ ch \in DOMAIN C /\ ch \in Nat \ {DUMMY} /\ k0 \in ChunkType /\ k0.owner = t
        /\ b.at \in Nat
        /\ \A st \in States : \A m : m = Freed(k0, b.at, st) =>
             /\ m.owner = k0.owner /\ m.size_cls = k0.size_cls /\ m.blk_cnt = k0.blk_cnt
             /\ m.free_tot_cnt = k0.free_tot_cnt + 1 /\ m.state = st
        /\ k0.free_tot_cnt \in Nat /\ k0.free_tot_cnt < k0.blk_cnt
    BY ONLY <2>1, <1>2, <1>5, t \in Thread, b \in lv[t], FreeFinds
  <2> QED  BY <2>2, <1>3 DEF ChunkType
<1>8. k0.state \in States /\ "BACK" \in States
  BY <1>7 DEF ChunkType, States
<1>9. /\ k.owner = t /\ k.size_cls = k0.size_cls /\ k.blk_cnt = k0.blk_cnt
      /\ k.free_tot_cnt = k0.free_tot_cnt + 1 /\ k.state = k0.state
  BY <1>6, <1>7, <1>8
<1>10. PICK c \in Class : c = k0.size_cls
  BY <1>7
<1>11. k = [k0 EXCEPT !.dlist = <<x>> \o k0.dlist, !.free_tot_cnt = k0.free_tot_cnt + 1]
       /\ k \in ChunkType
  <2>1. k0.dlist \in Seq(Nat) /\ <<x>> \in Seq(Nat)
    BY <1>7 DEF ChunkType
  <2>2. <<x>> \o k0.dlist \in Seq(Nat) /\ k0.free_tot_cnt + 1 \in Nat
    BY <2>1, <1>7
  <2>3. k0 \in ChunkType
    BY <1>7
  <2>4. k = [k0 EXCEPT !.dlist = <<x>> \o k0.dlist, !.free_tot_cnt = k0.free_tot_cnt + 1]
    BY <2>3, <1>6 DEF Freed, ChunkType
  <2>5. k \in ChunkType
    BY <2>2, <2>3, <2>4 DEF ChunkType
  <2> QED  BY <2>4, <2>5
<1>12. PICK C1 : C1 = Headed(C, ch, k)
  OBVIOUS
<1>13. PICK g1 : g1 = WithChunk(h, C1)
  OBVIOUS
<1>14. g1 = HeapOf(C1, F, B, L, P, r)
  BY <1>2, <1>12, <1>13, FieldChanged
<1>15. g1 = WithHeader(h, ch, k)
  BY <1>1, <1>12, <1>13 DEF WithChunk, Headed, WithHeader
<1>16. /\ g1.chunk = C1 /\ g1.foreground = F /\ g1.background = B /\ g1.free_list = L
       /\ C1[ch] = k /\ DOMAIN C1 = DOMAIN C
  BY <1>7, <1>12, <1>14 DEF HeapOf, Headed
<1>17. /\ k.state = "FULL" =>
            g = [g1 EXCEPT !.background[t][c] = Append(@, ch), !.chunk[ch].state = "BACK"]
       /\ k.state = "BACK" /\ k.free_tot_cnt = k.blk_cnt =>
            g = [g1 EXCEPT !.background[t][c] = list_del(@, ch), !.free_list[t] = Append(@, ch)]
       /\ k.state # "FULL" /\ ~(k.state = "BACK" /\ k.free_tot_cnt = k.blk_cnt) => g = g1
  <2>1. k = Freed(h.chunk[ch], x, h.chunk[ch].state) /\ h.chunk[ch] \in ChunkType
        /\ g = chunk_free_small(h, x)
    BY SMTT(30), <1>1, <1>3, <1>5, <1>6, <1>7
  <2>2. /\ k.state = "FULL" =>
             g = Available(g1, k.owner, k.size_cls, ch)
        /\ k.state = "BACK" /\ k.free_tot_cnt = k.blk_cnt =>
             g = Emptied(g1, k.owner, k.size_cls, ch)
        /\ k.state # "FULL" /\ ~(k.state = "BACK" /\ k.free_tot_cnt = k.blk_cnt) => g = g1
    BY ONLY <2>1, <1>4, <1>11, <1>15, FreeSmallIs, SMTT(20)
  <2>3. k.owner = t /\ k.size_cls = c
    BY <1>9, <1>10
  <2> QED  BY ONLY <2>2, <2>3 DEF Available, Emptied
<1>18. CASE k0.state = "FULL"
  <2>1. PICK m : m = Freed(k0, x, "BACK")
    OBVIOUS
  <2>2. m.size_cls = k0.size_cls
    BY <2>1, <1>7, <1>8
  <2>3. PICK C2 : C2 = [C EXCEPT ![ch] = m]
    OBVIOUS
  <2>4. PICK B2 : B2 = Put(B, t, c, Append(B[t][c], ch))
    OBVIOUS
  <2>5. ChunksGood(C2, F, B2, L, lw)
    <3>1. ch = ChunkOf(b.at) /\ k0 = C[ch] /\ m = Freed(k0, b.at, "BACK")
          /\ B2 = Put(B, t, k0.size_cls, Append(B[t][k0.size_cls], ch))
      BY <2>1, <2>4, <1>3, <1>4, <1>5, <1>10
    <3>2. ChunksGood([C EXCEPT ![ch] = Freed(k0, b.at, "BACK")], F,
                     Put(B, t, k0.size_cls, Append(B[t][k0.size_cls], ch)), L, lw)
      BY ONLY <3>1, <1>2, <1>18, t \in Thread, b \in lv[t], lw = Gives(lv, t, b), FreeFull
    <3> QED  BY <3>1, <3>2, <2>3
  <2>6. DOMAIN C2 = DOMAIN C /\ Keeps(C, C2)
    BY <2>2, <2>3, <1>5, <1>7, KeepsOne
  <2>7. PICK g2 : g2 = WithBackground(g1, B2)
    OBVIOUS
  <2>8. g2 = HeapOf(C1, F, B2, L, P, r)
    BY <2>7, <1>14, FieldChanged
  <2>9. g2.chunk = C1
    BY <2>8 DEF HeapOf
  <2>10. g = [g1 EXCEPT !.background[t][c] = Append(@, ch), !.chunk[ch].state = "BACK"]
    BY <1>9, <1>17, <1>18
  <2>11. g2 = [g1 EXCEPT !.background[t][c] = Append(@, ch)]
    BY <2>4, <2>7, <1>16 DEF WithBackground, Put
  <2>12. C2 = [C1 EXCEPT ![ch].state = "BACK"]
    <3>1. k0 \in ChunkType
      BY <1>7
    <3>2. m = [k EXCEPT !.state = "BACK"]
      BY ONLY <3>1, <2>1, <1>6 DEF Freed, ChunkType
    <3> QED  BY <3>2, <2>3, <1>7, <1>12, <1>16 DEF Headed
  <2>13. g = WithChunk(g2, C2)
    BY <2>9, <2>10, <2>11, <2>12 DEF WithChunk
  <2>14. g = HeapOf(C2, F, B2, L, P, r) /\ PoolsGood(P, DOMAIN C2)
    BY <2>6, <2>8, <2>13, <1>2, FieldChanged
  <2>15. HeapGood(g, lw) /\ g.chunk = C2
    BY ONLY <2>5, <2>14, GoodParts
  <2> QED  BY <2>6, <2>15, <1>1
<1>19. CASE k0.state = "BACK" /\ k0.free_tot_cnt + 1 = k0.blk_cnt
  <2>1. PICK B2 : B2 = Put(B, t, c, list_del(B[t][c], ch))
    OBVIOUS
  <2>2. PICK L2 : L2 = [L EXCEPT ![t] = Append(L[t], ch)]
    OBVIOUS
  <2>3. ChunksGood(C1, F, B2, L2, lw)
    <3>1. ch = ChunkOf(b.at) /\ k0 = C[ch] /\ k = Freed(k0, b.at, "BACK")
          /\ B2 = Put(B, t, k0.size_cls, list_del(B[t][k0.size_cls], ch))
      BY <2>1, <1>3, <1>4, <1>5, <1>6, <1>10, <1>19
    <3>2. ChunksGood([C EXCEPT ![ch] = Freed(k0, b.at, "BACK")], F,
                     Put(B, t, k0.size_cls, list_del(B[t][k0.size_cls], ch)),
                     [L EXCEPT ![t] = Append(L[t], ch)], lw)
      BY ONLY <3>1, <1>2, <1>19, t \in Thread, b \in lv[t], lw = Gives(lv, t, b), FreeEmptied
    <3> QED  BY <3>1, <3>2, <2>2, <1>12 DEF Headed
  <2>4. Keeps(C, C1)
    BY <1>5, <1>7, <1>9, <1>12 DEF Keeps, Headed
  <2>5. PICK g2 : g2 = WithBackground(g1, B2)
    OBVIOUS
  <2>6. g2 = HeapOf(C1, F, B2, L, P, r)
    BY <2>5, <1>14, FieldChanged
  <2>7. g2.free_list = L
    BY <2>6 DEF HeapOf
  <2>8. g = [g1 EXCEPT !.background[t][c] = list_del(@, ch), !.free_list[t] = Append(@, ch)]
    BY <1>9, <1>17, <1>19
  <2>9. g2 = [g1 EXCEPT !.background[t][c] = list_del(@, ch)]
    BY <2>1, <2>5, <1>16 DEF WithBackground, Put
  <2>10. g = WithFreeList(g2, L2)
    BY <2>2, <2>7, <2>8, <2>9 DEF WithFreeList
  <2>11. g = HeapOf(C1, F, B2, L2, P, r) /\ PoolsGood(P, DOMAIN C1)
    BY <2>6, <2>10, <1>2, <1>16, FieldChanged
  <2>12. HeapGood(g, lw) /\ g.chunk = C1
    BY ONLY <2>3, <2>11, GoodParts
  <2> QED  BY <2>4, <2>12, <1>1
<1>20. CASE k0.state # "FULL" /\ ~(k0.state = "BACK" /\ k0.free_tot_cnt + 1 = k0.blk_cnt)
  <2>1. g = g1
    BY <1>9, <1>17, <1>20
  <2>2. ChunksGood(C1, F, B, L, lw)
    <3>1. ch = ChunkOf(b.at) /\ k0 = C[ch] /\ k = Freed(k0, b.at, k0.state)
      BY <1>3, <1>4, <1>5, <1>6
    <3>2. ChunksGood([C EXCEPT ![ch] = Freed(k0, b.at, k0.state)], F, B, L, lw)
      BY ONLY <3>1, <1>2, <1>20, t \in Thread, b \in lv[t], lw = Gives(lv, t, b), FreeStays
    <3> QED  BY <3>1, <3>2, <1>12 DEF Headed
  <2>3. Keeps(C, C1)
    BY <1>5, <1>7, <1>9, <1>12 DEF Keeps, Headed
  <2>4. g = HeapOf(C1, F, B, L, P, r) /\ PoolsGood(P, DOMAIN C1)
    BY <2>1, <1>2, <1>14, <1>16
  <2>5. HeapGood(g, lw) /\ g.chunk = C1
    BY ONLY <2>2, <2>4, GoodParts
  <2> QED  BY <2>3, <2>5, <1>1
<1> QED  BY <1>18, <1>19, <1>20
-----------------------------------------------------------------------------
\* The state is in order when the heaps and pools of it are.
LEMMA HeapOfState ==
  /\ Heap.chunk = chunk /\ Heap.foreground = foreground /\ Heap.background = background
  /\ Heap.free_list = free_list /\ Heap.pool = pool
  /\ IInv <=> HeapGood(Heap, live)
<1>1. /\ Heap.chunk = chunk /\ Heap.foreground = foreground /\ Heap.background = background
      /\ Heap.free_list = free_list /\ Heap.pool = pool
  BY DEF Heap
<1>2. Heap = HeapOf(Heap.chunk, Heap.foreground, Heap.background, Heap.free_list, Heap.pool,
                    Heap.crashed)
  BY DEF Heap, HeapOf
<1> QED  BY <1>1, <1>2 DEF IInv, HeapGood, Chunks

\* What a call leaves is in order when what it computes is.
LEMMA Becoming ==
  ASSUME NEW g, Becomes(g), NEW lw, live' = lw, HeapGood(g, lw)
  PROVE  IInv' /\ chunk' = g.chunk
BY DEF Becomes, HeapGood, IInv, Chunks

\* A call of malloc, with the heaps it takes the block from.
LEMMA MallocStep ==
  ASSUME IInv, NEW t \in Thread, NEW c \in Class, Malloc(t, c)
  PROVE  /\ IInv' /\ Keeps(chunk, chunk')
         /\ \E x \in Nat : /\ live' = Gets(live, t, [at |-> x, size |-> Size[c]])
                           /\ \A u \in Thread : \A d \in live[u] : d.at # x
<1>1. PICK h : h = Heap
  OBVIOUS
<1>2. HeapGood(h, live) /\ h.chunk = chunk
  BY <1>1, HeapOfState
<1>3. PICK q : q = small_malloc(h, t, c)
  OBVIOUS
<1>4. PICK g : g = q.heap
  OBVIOUS
<1>5. PICK x : x = q.addr
  OBVIOUS
<1>6. PICK lw : lw = Gets(live, t, [at |-> x, size |-> Size[c]])
  OBVIOUS
<1>7. Becomes(g) /\ live' = lw
  BY <1>1, <1>3, <1>4, <1>5, <1>6 DEF Malloc, Gets
<1>8. ~g.crashed
  BY <1>7 DEF Becomes
<1>9. /\ HeapGood(g, lw) /\ Keeps(h.chunk, g.chunk)
      /\ \E h2 : HeapGood(h2, live) /\ Keeps(h.chunk, h2.chunk) /\ Keeps(h2.chunk, g.chunk)
                 /\ HandedOut(h2, live, t, x)
  BY ONLY <1>2, <1>3, <1>4, <1>5, <1>6, <1>8, t \in Thread, c \in Class, MallocGood
<1>10. IInv' /\ chunk' = g.chunk
  BY <1>7, <1>9, Becoming
<1>11. x \in Nat /\ x \notin HeldIn(live, ChunkOf(x))
  BY <1>9 DEF HandedOut
<1>12. \A u \in Thread : \A d \in live[u] : d.at # x
  BY <1>11 DEF HeldIn
<1> QED  BY <1>2, <1>6, <1>7, <1>9, <1>10, <1>11, <1>12

\* A call of free.
LEMMA FreeStep ==
  ASSUME IInv, NEW t \in Thread, NEW b \in live[t], Free(t, b)
  PROVE  IInv' /\ Keeps(chunk, chunk') /\ live' = Gives(live, t, b)
<1>1. PICK h : h = Heap
  OBVIOUS
<1>2. HeapGood(h, live) /\ h.chunk = chunk
  BY <1>1, HeapOfState
<1>3. PICK g : g = chunk_free_small(h, b.at)
  OBVIOUS
<1>4. PICK lw : lw = Gives(live, t, b)
  OBVIOUS
<1>5. Becomes(g) /\ live' = lw
  BY <1>1, <1>3, <1>4 DEF Free, Gives
<1>6. HeapGood(g, lw) /\ Keeps(h.chunk, g.chunk)
  BY ONLY <1>2, <1>3, <1>4, t \in Thread, b \in live[t], FreeGood
<1>7. IInv' /\ chunk' = g.chunk
  BY <1>5, <1>6, Becoming
<1> QED  BY <1>2, <1>4, <1>5, <1>6, <1>7

\* No chunk yet, and every pool at its start.
LEMMA InitIInv == Init => IInv
<1> SUFFICES ASSUME Init PROVE IInv
  OBVIOUS
<1>1. Chunks = {}
  BY DEF Init, Chunks
<1>2. ListsGood(Chunks, foreground, background, free_list)
  <2>1. /\ foreground = [t \in Thread |-> [c \in Class |-> DUMMY]]
        /\ background = [t \in Thread |-> [c \in Class |-> <<>>]]
        /\ free_list = [t \in Thread |-> <<>>]
    BY DEF Init
  <2>2. DUMMY \in Nat /\ <<>> \in Seq(Nat) /\ Listed(<<>>) /\ ToSet(<<>>) = {}
    BY DummyIs, NoMembers
  <2> QED  BY <2>1, <2>2 DEF ListsGood, ListType
<1>3. LiveGood(chunk, live)
  BY DEF Init, LiveGood, LiveType
<1>4. ChunksGood(chunk, foreground, background, free_list, live)
  BY <1>1, <1>2, <1>3 DEF ChunksGood, Chunks
<1>5. ASSUME NEW a \in Area
      PROVE  pool[a] \in PoolType /\ PoolGood(a, pool[a], Chunks)
  <2>1. PICK base \in Nat : base = RAW_POOL_START(a)
    BY AreaStart
  <2>2. PICK m \in Nat \ {0} : m = CHUNK_SIZE /\ 2 * m <= APPLY_PHY_MEMORY
    BY Sizes
  <2>3. PICK f \in Nat : f = Align(base) /\ f < base + m
    <3>1. PICK q \in Nat : Align(base) = q * m /\ Align(base) < base + m
      BY <2>2, AlignUp
    <3> QED  BY <3>1
  <2>4. PICK e \in Nat : e = base + APPLY_PHY_MEMORY
    BY Sizes
  <2>5. pool[a] = [free_start |-> f, pool_end |-> e, used_mc |-> 0, free_list |-> <<>>]
    BY <2>1, <2>3, <2>4 DEF Init
  <2>6. pool[a] \in PoolType
    BY <2>5 DEF PoolType
  <2>7. Mine(Chunks, a) = {} /\ IsFiniteSet(Mine(Chunks, a)) /\ Cardinality(Mine(Chunks, a)) = 0
    <3>1. Mine(Chunks, a) = {}
      BY <1>1 DEF Mine
    <3> QED  BY <3>1, FS_EmptySet
  <2>8. PoolGrown(a, pool[a], 0, 1, 0)
    <3>1. 1 * APPLY_PHY_MEMORY = APPLY_PHY_MEMORY /\ 0 * CHUNK_SIZE = 0
      BY Sizes
    <3>2. f <= e
      BY <2>2, <2>3, <2>4, Sizes
    <3>3. pool[a].pool_end = RAW_POOL_START(a) + 1 * APPLY_PHY_MEMORY
      BY <3>1, <2>1, <2>4, <2>5
    <3>4. pool[a].free_start = Align(RAW_POOL_START(a)) + 0 * CHUNK_SIZE
      BY <3>1, <2>1, <2>3, <2>5
    <3>5. pool[a].free_start <= pool[a].pool_end
      BY <3>2, <2>5
    <3> QED  BY <3>3, <3>4, <3>5 DEF PoolGrown
  <2>9. 1 \in 1..0 + 1 /\ 0 \in 0..2 * 0
    OBVIOUS
  <2>10. pool[a].used_mc = CHUNK_DATA_SIZE * 0
    <3>1. CHUNK_DATA_SIZE * 0 = 0
      BY Sizes
    <3> QED  BY <3>1, <2>5
  <2>11. \E segs \in 1..0 + 1 : \E slots \in 0..2 * 0 : PoolGrown(a, pool[a], 0, segs, slots)
    BY <2>8, <2>9
  <2> QED  BY <2>6, <2>7, <2>10, <2>11 DEF PoolGood
<1>6. pool \in [Area -> PoolType]
  <2>1. pool = [a \in Area |-> pool[a]]
    BY DEF Init
  <2> QED  BY <2>1, <1>5
<1>7. PoolsGood(pool, Chunks)
  BY <1>1, <1>5, <1>6 DEF PoolsGood
<1> QED  BY <1>4, <1>7 DEF IInv

\* Every call keeps the headers, lists and pools in order.
LEMMA NextIInv == IInv /\ [Next]_vars => IInv'
<1> SUFFICES ASSUME IInv, [Next]_vars PROVE IInv'
  OBVIOUS
<1>1. CASE \E t \in Thread : \E c \in Class : Malloc(t, c)
  BY <1>1, MallocStep
<1>2. CASE \E t \in Thread : \E b \in live[t] : Free(t, b)
  BY <1>2, FreeStep
<1>3. CASE UNCHANGED vars
  BY <1>3 DEF vars, IInv, Chunks
<1> QED  BY <1>1, <1>2, <1>3 DEF Next

\* The headers agree with the blocks, chunks are where their state says, and
\* the pools have given out each chunk once.
THEOREM Invariant == Spec => []IInv
<1> QED  BY InitIInv, NextIInv, PTL DEF Spec

\* Headers, foregrounds and lists are of the right kind, counts are within
\* bounds, and no area maps more for chunks than it has.
LEMMA TypesFollow == IInv => TypeOK
<1> SUFFICES ASSUME IInv PROVE TypeOK
  OBVIOUS
<1>1. ChunksGood(chunk, foreground, background, free_list, live) /\ PoolsGood(pool, Chunks)
  BY DEF IInv
<1>2. ListsGood(Chunks, foreground, background, free_list)
  BY <1>1 DEF ChunksGood, Chunks
<1>3. ASSUME NEW ch \in Chunks
      PROVE  /\ chunk[ch].owner \in Thread /\ chunk[ch].size_cls \in Class
             /\ chunk[ch].state \in {"FORG", "BACK", "FULL"}
             /\ chunk[ch].free_tot_cnt \in 0..chunk[ch].blk_cnt
             /\ chunk[ch].wear_count \in {0, 1}
  <2>1. PICK k : k = chunk[ch]
    OBVIOUS
  <2>2. ch \in Nat /\ HeaderGood(ch, k, HeldIn(live, ch)) /\ k \in ChunkType
    BY <2>1, <1>1, ChunkIs DEF Chunks
  <2>3. PICK u \in Nat : u = Cardinality(HeldIn(live, ch)) /\ k.free_tot_cnt + u = k.blk_cnt
    BY <2>2, HeaderCounts
  <2>4. k.free_tot_cnt \in 0..k.blk_cnt
    BY <2>2, <2>3 DEF ChunkType
  <2> QED  BY <2>1, <2>2, <2>4 DEF ChunkType, States
<1>4. foreground \in [Thread -> [Class -> Chunks \cup {DUMMY}]]
  BY <1>2 DEF ListsGood
<1>5. \A t \in Thread : ToSet(free_list[t]) \subseteq Chunks
  BY <1>2 DEF ListsGood
<1>6. ASSUME NEW a \in Area
      PROVE  pool[a].used_mc \in 0..hardware_mc[a]
  <2>1. PICK M : M = Mine(Chunks, a)
    OBVIOUS
  <2>2. PICK u : u = pool[a].used_mc
    OBVIOUS
  <2>3. /\ u \in Nat /\ IsFiniteSet(M) /\ u = CHUNK_DATA_SIZE * Cardinality(M)
        /\ Cardinality(M) = 0 \/ u - CHUNK_DATA_SIZE + APPLY_PHY_MEMORY < hardware_mc[a]
    BY <2>1, <2>2, <1>1 DEF PoolsGood, PoolGood, PoolType
  <2>4. CASE Cardinality(M) = 0
    <3>1. CHUNK_DATA_SIZE * 0 = 0
      BY Sizes
    <3> QED  BY <3>1, <2>2, <2>3, <2>4, Sizes
  <2>5. CASE Cardinality(M) # 0
    BY <2>2, <2>3, <2>5, Sizes
  <2> QED  BY <2>4, <2>5
<1> QED  BY <1>3, <1>4, <1>5, <1>6 DEF TypeOK

\* TypeOK of every reachable state (chunkh, lheap and gpool of tcnvmalloc.h).
THEOREM TypeCorrect == Spec => []TypeOK
<1> QED  BY Invariant, TypesFollow, PTL

\* A block is in use, freed or in the untouched end, and the counts say so.
LEMMA CountsFollow == IInv => CountsAgree
<1> SUFFICES ASSUME IInv, NEW ch \in Chunks,
                    NEW k, k = chunk[ch], NEW inUse, inUse = HeldIn(live, ch),
                    NEW freed, freed = ToSet(k.dlist)
             PROVE  /\ k.free_tot_cnt = k.free_mem_cnt + Len(k.dlist)
                    /\ k.free_tot_cnt + Cardinality(inUse) = k.blk_cnt
                    /\ Cardinality(freed) = Len(k.dlist)
                    /\ inUse \cap freed = {}
                    /\ \A x \in inUse \cup freed : ch + Header <= x /\ x < k.free_mem
  BY DEF CountsAgree, HeldIn, AllLive
<1>1. ChunksGood(chunk, foreground, background, free_list, live)
  BY DEF IInv
<1>2. ch \in Nat /\ HeaderGood(ch, k, inUse) /\ k \in ChunkType
  BY <1>1, ChunkIs DEF Chunks
<1>3. k.free_tot_cnt + Cardinality(inUse) = k.blk_cnt
  BY <1>2, HeaderCounts
<1>4. PICK s \in 1..CHUNK_DATA_SIZE : s = Size[k.size_cls]
  BY <1>2, Sizes DEF ChunkType
<1>5. PICK n \in Nat : n = k.blk_cnt - k.free_mem_cnt
  BY <1>2 DEF HeaderGood
<1>6. /\ Listed(k.dlist) /\ k.free_tot_cnt = k.free_mem_cnt + Len(k.dlist)
      /\ inUse \cap freed = {} /\ inUse \cup freed = Carved(ch, s, n)
      /\ k.free_mem = BlockAt(ch, s, n)
  BY <1>2, <1>4, <1>5 DEF HeaderGood
<1>7. Cardinality(freed) = Len(k.dlist)
  BY <1>6, ListCount
<1>8. ASSUME NEW x \in Carved(ch, s, n)
      PROVE  ch + Header <= x /\ x < k.free_mem
  <2>1. PICK i \in 0..n - 1 : x = BlockAt(ch, s, i)
    BY DEF Carved
  <2>2. s \in Nat \ {0}
    BY Sizes
  <2>3. x + s <= k.free_mem
    BY <2>1, <2>2, <1>2, <1>6, BlocksApart
  <2>4. x \in Nat /\ ch + Header <= x
    <3>1. i * s \in Nat
      BY <2>2
    <3> QED  BY <3>1, <2>1, <1>2, Sizes DEF BlockAt
  <2>5. k.free_mem \in Nat
    BY <1>2 DEF ChunkType
  <2> QED  BY <2>2, <2>3, <2>4, <2>5
<1> QED  BY <1>3, <1>6, <1>7, <1>8

\* CountsAgree: no block is handed out that is in use (chunk_alloc_obj and
\* chunk_free_small).
THEOREM CountsRight == Spec => []CountsAgree
<1> QED  BY Invariant, CountsFollow, PTL

\* A chunk is in the place its state names.
LEMMA PlacesFollow == IInv => PlaceTellsState
<1> SUFFICES ASSUME IInv, NEW ch \in Chunks
             PROVE  LET k  == chunk[ch]
                        fg == {p \in Thread \X Class : foreground[p[1]][p[2]] = ch}
                        bg == {p \in Thread \X Class : ch \in ToSet(background[p[1]][p[2]])}
                        fl == {t \in Thread : ch \in ToSet(free_list[t])}
                    IN  CASE k.state = "FORG" -> /\ \E c \in Class : fg = {<<k.owner, c>>}
                                                 /\ bg = {} /\ fl = {} /\ k.free_tot_cnt > 0
                          [] k.state = "FULL" -> fg = {} /\ bg = {} /\ fl = {}
                                                 /\ k.free_tot_cnt = 0
                          [] k.state = "BACK" ->
                               /\ fg = {} /\ k.free_tot_cnt > 0
                               /\ \/ bg = {<<k.owner, k.size_cls>>} /\ fl = {}
                                  \/ bg = {} /\ fl = {k.owner} /\ k.free_tot_cnt = k.blk_cnt
  BY DEF PlaceTellsState
<1>1. PICK k : k = chunk[ch]
  OBVIOUS
<1>2. PICK fg : fg = {p \in Thread \X Class : foreground[p[1]][p[2]] = ch}
  OBVIOUS
<1>3. PICK bg : bg = {p \in Thread \X Class : ch \in ToSet(background[p[1]][p[2]])}
  OBVIOUS
<1>4. PICK fl : fl = {t \in Thread : ch \in ToSet(free_list[t])}
  OBVIOUS
<1>5. /\ PlaceGood(ch, k, foreground, background, free_list)
      /\ k \in ChunkType /\ k.owner \in Thread /\ k.size_cls \in Class
  BY <1>1, ChunkIs DEF IInv, Chunks
<1>6. k.free_tot_cnt \in Nat /\ k.state \in States
  BY <1>5 DEF ChunkType
<1>7. ASSUME k.state = "FORG"
      PROVE  /\ \E c \in Class : fg = {<<k.owner, c>>}
             /\ bg = {} /\ fl = {} /\ k.free_tot_cnt > 0
  <2>1. PICK c \in Class : foreground[k.owner][c] = ch
    BY <1>5, <1>7 DEF PlaceGood
  <2>2. \A t \in Thread : \A d \in Class : foreground[t][d] = ch => t = k.owner /\ d = c
    BY <2>1, <1>5 DEF PlaceGood
  <2>3. fg = {<<k.owner, c>>}
    BY <2>1, <2>2, <1>2, <1>5
  <2>4. bg = {} /\ fl = {} /\ k.free_tot_cnt > 0
    BY <1>3, <1>4, <1>5, <1>6, <1>7 DEF PlaceGood
  <2> QED  BY <2>3, <2>4
<1>8. ASSUME k.state = "FULL"
      PROVE  fg = {} /\ bg = {} /\ fl = {} /\ k.free_tot_cnt = 0
  BY <1>2, <1>3, <1>4, <1>5, <1>8 DEF PlaceGood
<1>9. ASSUME k.state = "BACK"
      PROVE  /\ fg = {} /\ k.free_tot_cnt > 0
             /\ \/ bg = {<<k.owner, k.size_cls>>} /\ fl = {}
                \/ bg = {} /\ fl = {k.owner} /\ k.free_tot_cnt = k.blk_cnt
  <2>1. fg = {} /\ k.free_tot_cnt > 0
    BY <1>2, <1>5, <1>6, <1>9 DEF PlaceGood
  <2>2. CASE ch \in ToSet(background[k.owner][k.size_cls])
    <3>1. bg = {<<k.owner, k.size_cls>>}
      <4>1. \A t \in Thread : \A d \in Class :
              ch \in ToSet(background[t][d]) => t = k.owner /\ d = k.size_cls
        BY <1>5 DEF PlaceGood
      <4> QED  BY <4>1, <2>2, <1>3, <1>5
    <3>2. fl = {}
      BY <2>2, <1>4, <1>5 DEF PlaceGood
    <3> QED  BY <3>1, <3>2, <2>1
  <2>3. CASE ch \notin ToSet(background[k.owner][k.size_cls])
    <3>1. bg = {}
      BY <2>3, <1>3, <1>5 DEF PlaceGood
    <3>2. ch \in ToSet(free_list[k.owner])
      BY <2>3, <1>5, <1>9 DEF PlaceGood
    <3>3. fl = {k.owner} /\ k.free_tot_cnt = k.blk_cnt
      BY <3>2, <1>4, <1>5 DEF PlaceGood
    <3> QED  BY <3>1, <3>3, <2>1
  <2> QED  BY <2>2, <2>3
<1>10. k.state = "FORG" \/ k.state = "FULL" \/ k.state = "BACK"
  BY <1>6 DEF States
<1> QED  BY <1>1, <1>2, <1>3, <1>4, <1>7, <1>8, <1>9, <1>10

\* PlaceTellsState: a chunk is in one place only, the one its state names
\* (lheap_replace_foreground and chunk_free_small).
THEOREM Placed == Spec => []PlaceTellsState
<1> QED  BY Invariant, PlacesFollow, PTL

\* A chunk lies in the mapped part of its area.
LEMMA PoolsFollow == IInv => ChunksInPools
<1> SUFFICES ASSUME IInv, NEW a \in Area,
                    NEW start, start = RAW_POOL_START(a),
                    NEW mine, mine = {ch \in Chunks : PoolOf(ch) = a},
                    NEW segments, segments = (pool[a].pool_end - start) \div APPLY_PHY_MEMORY
             PROVE  /\ \A ch \in mine : ch >= start /\ ch + CHUNK_SIZE <= pool[a].pool_end
                    /\ pool[a].used_mc = CHUNK_DATA_SIZE * Cardinality(mine)
                    /\ (pool[a].free_start - Align(start)) \div CHUNK_SIZE
                         <= Cardinality(mine) + segments - 1
  BY DEF ChunksInPools
<1>1. PICK p : p = pool[a]
  OBVIOUS
<1>2. mine = Mine(Chunks, a) /\ mine \subseteq Nat
  BY DEF Mine, IInv, ChunksGood, Chunks
<1>3. p \in PoolType /\ PoolGood(a, p, Chunks)
  BY <1>1 DEF IInv, PoolsGood, PoolGood
<1>4. PICK n \in Nat : n = Cardinality(mine)
  BY <1>2, <1>3, FS_CardinalityType DEF PoolGood
<1>5. PICK segs \in 1..n + 1, slots \in 0..2 * n : PoolGrown(a, p, n, segs, slots)
  BY <1>2, <1>3, <1>4 DEF PoolGood
<1>6. PICK m \in Nat \ {0} : m = CHUNK_SIZE
  BY Sizes
<1>7. PICK seg \in Nat \ {0} : seg = APPLY_PHY_MEMORY
  BY Sizes
<1>8. start \in Nat
  BY AreaStart
<1>9. PICK base \in Nat : base = Align(start)
  <2>1. PICK q \in Nat : Align(start) = q * m
    BY <1>6, <1>8, AlignUp
  <2> QED  BY <2>1
<1>10. /\ p.pool_end = start + segs * seg /\ p.free_start = base + slots * m
       /\ p.free_start <= p.pool_end /\ slots <= n + segs - 1
  BY <1>5, <1>6, <1>7, <1>9 DEF PoolGrown
<1>11. segments = segs
  <2>1. segs \in Nat /\ 0 \in 0..seg - 1 /\ segs * seg \in Nat
    OBVIOUS
  <2>2. (segs * seg + 0) \div seg = segs
    BY <2>1, DivMod
  <2>3. p.pool_end - start = segs * seg + 0
    BY <2>1, <1>8, <1>10
  <2> QED  BY <2>2, <2>3, <1>1, <1>7
<1>12. (p.free_start - base) \div m = slots
  <2>1. slots \in Nat /\ 0 \in 0..m - 1 /\ slots * m \in Nat
    OBVIOUS
  <2>2. (slots * m + 0) \div m = slots
    BY <2>1, DivMod
  <2>3. p.free_start - base = slots * m + 0
    BY <2>1, <1>9, <1>10
  <2> QED  BY <2>2, <2>3
<1>13. (pool[a].free_start - Align(start)) \div CHUNK_SIZE <= Cardinality(mine) + segments - 1
  BY <1>1, <1>4, <1>6, <1>9, <1>10, <1>11, <1>12
<1>14. ASSUME NEW ch \in mine PROVE ch >= start /\ ch + CHUNK_SIZE <= pool[a].pool_end
  <2>1. ch >= start /\ ch + m <= p.free_start
    BY <1>2, <1>3, <1>6 DEF PoolGood
  <2>2. ch \in Nat /\ p.free_start \in Nat /\ p.pool_end \in Nat
    BY <1>2, <1>3 DEF PoolType
  <2> QED  BY <2>1, <2>2, <1>1, <1>6, <1>10
<1>15. pool[a].used_mc = CHUNK_DATA_SIZE * Cardinality(mine)
  BY <1>1, <1>2, <1>3 DEF PoolGood
<1> QED  BY <1>13, <1>14, <1>15

\* ChunksInPools: each chunk is given out once, of memory that is mapped
\* (gpool_acquire_chunk and gpool_grow).
THEOREM PoolsRight == Spec => []ChunksInPools
<1> QED  BY Invariant, PoolsFollow, PTL
-----------------------------------------------------------------------------
\* The block of its chunk that a block lies in, by the headers C.
Taking(C, b) == [at |-> b.at, size |-> Size[C[ChunkOf(b.at)].size_cls]]

\* A block in use is one of those its chunk is cut into.
LEMMA LiveBlock ==
  ASSUME NEW C, NEW F, NEW B, NEW L, NEW lv, ChunksGood(C, F, B, L, lv),
         NEW t \in Thread, NEW b \in lv[t], NEW ch, ch = ChunkOf(b.at),
         NEW s, s = Size[C[ch].size_cls]
  PROVE  /\ ch \in DOMAIN C /\ ch \in Nat /\ ChunkOf(ch) = ch /\ C[ch].size_cls \in Class
         /\ s \in 1..CHUNK_DATA_SIZE
         /\ \E i \in 0..(CHUNK_DATA_SIZE \div s) - 1 : b.at = BlockAt(ch, s, i)
<1>1. ch \in DOMAIN C
  BY DEF ChunksGood, LiveGood
<1>2. ch \in Nat /\ ChunkOf(ch) = ch /\ HeaderGood(ch, C[ch], HeldIn(lv, ch))
  BY <1>1 DEF ChunksGood
<1>3. PICK k : k = C[ch]
  BY SMTT(30)
<1>4. /\ k \in ChunkType /\ k.blk_cnt = CHUNK_DATA_SIZE \div s
      /\ k.blk_cnt - k.free_mem_cnt \in Nat
      /\ HeldIn(lv, ch) \subseteq Carved(ch, s, k.blk_cnt - k.free_mem_cnt)
  BY <1>2, <1>3 DEF HeaderGood
<1>5. k.size_cls \in Class /\ k.blk_cnt \in Nat /\ k.free_mem_cnt \in Nat
  BY <1>4 DEF ChunkType
<1>6. s \in 1..CHUNK_DATA_SIZE
  BY <1>3, <1>5, Sizes
<1>7. b.at \in HeldIn(lv, ch)
  BY SMTT(30) DEF HeldIn
<1>8. PICK i \in 0..(k.blk_cnt - k.free_mem_cnt) - 1 : b.at = BlockAt(ch, s, i)
  BY <1>4, <1>7 DEF Carved
<1>9. i \in 0..k.blk_cnt - 1
  <2>1. PICK z \in Nat : z = k.blk_cnt
    BY <1>5
  <2>2. PICK f \in Nat : f = k.free_mem_cnt
    BY SMTT(30), <1>5
  <2>3. i \in 0..(z - f) - 1
    BY <1>8, <2>1, <2>2
  <2>4. i \in 0..z - 1
    BY ONLY SMTT(30), <2>3, z \in Nat, f \in Nat
  <2> QED  BY <2>1, <2>4
<1>10. i \in 0..(CHUNK_DATA_SIZE \div s) - 1
  BY <1>4, <1>9
<1>11. \E j \in 0..(CHUNK_DATA_SIZE \div s) - 1 : b.at = BlockAt(ch, s, j)
  BY ONLY <1>8, <1>10
<1> QED  BY ONLY <1>1, <1>2, <1>3, <1>5, <1>6, <1>11

\* Blocks in use take up memory of their own.
LEMMA LiveApart ==
  ASSUME NEW C, NEW F, NEW B, NEW L, NEW lv, ChunksGood(C, F, B, L, lv),
         NEW t \in Thread, NEW u \in Thread, NEW b \in lv[t], NEW d \in lv[u], b.at # d.at
  PROVE  Cells(Taking(C, b)) \cap Cells(Taking(C, d)) = {}
<1>1. PICK ch : ch = ChunkOf(b.at)
  OBVIOUS
<1>2. PICK dh : dh = ChunkOf(d.at)
  OBVIOUS
<1>3. PICK s : s = Size[C[ch].size_cls]
  OBVIOUS
<1>4. PICK r : r = Size[C[dh].size_cls]
  OBVIOUS
<1>5. /\ ch \in Nat /\ ChunkOf(ch) = ch /\ s \in 1..CHUNK_DATA_SIZE
      /\ \E i \in 0..(CHUNK_DATA_SIZE \div s) - 1 : b.at = BlockAt(ch, s, i)
  BY <1>1, <1>3, LiveBlock
<1>6. PICK i \in 0..(CHUNK_DATA_SIZE \div s) - 1 : b.at = BlockAt(ch, s, i)
  BY <1>5
<1>7. /\ dh \in Nat /\ ChunkOf(dh) = dh /\ r \in 1..CHUNK_DATA_SIZE
      /\ \E j \in 0..(CHUNK_DATA_SIZE \div r) - 1 : d.at = BlockAt(dh, r, j)
  BY <1>2, <1>4, LiveBlock
<1>8. PICK j \in 0..(CHUNK_DATA_SIZE \div r) - 1 : d.at = BlockAt(dh, r, j)
  BY <1>7
<1>9. PICK x \in Nat : x = b.at /\ ch <= x /\ x + s <= ch + CHUNK_SIZE
  <2>1. ch <= ch + Header
    BY <1>5, Sizes
  <2> QED  BY <2>1, <1>5, <1>6, BlockInside, Sizes
<1>10. PICK y \in Nat : y = d.at /\ dh <= y /\ y + r <= dh + CHUNK_SIZE
  <2>1. dh <= dh + Header
    BY <1>7, Sizes
  <2> QED  BY <2>1, <1>7, <1>8, BlockInside, Sizes
<1>11. x + s <= y \/ y + r <= x
  <2>1. CASE ch = dh
    <3>1. s = r /\ i \in Nat /\ j \in Nat /\ s \in Nat
      BY <2>1, <1>3, <1>4, <1>5
    <3>2. i # j
      BY <2>1, <3>1, <1>6, <1>8
    <3>3. CASE i < j
      BY <3>1, <3>3, <2>1, <1>5, <1>6, <1>8, <1>9, <1>10, BlocksApart
    <3>4. CASE j < i
      BY <3>1, <3>4, <2>1, <1>5, <1>6, <1>8, <1>9, <1>10, BlocksApart
    <3> QED  BY <3>1, <3>2, <3>3, <3>4
  <2>2. CASE ch < dh
    <3>1. ch + CHUNK_SIZE <= dh
      BY <2>2, <1>5, <1>7, ChunksApart
    <3> QED  BY <3>1, <1>5, <1>7, <1>9, <1>10, Sizes
  <2>3. CASE dh < ch
    <3>1. dh + CHUNK_SIZE <= ch
      BY <2>3, <1>5, <1>7, ChunksApart
    <3> QED  BY <3>1, <1>5, <1>7, <1>9, <1>10, Sizes
  <2> QED  BY <2>1, <2>2, <2>3, <1>5, <1>7
<1>12. Cells(Taking(C, b)) = x..x + s - 1 /\ Cells(Taking(C, d)) = y..y + r - 1
  BY <1>1, <1>2, <1>3, <1>4, <1>9, <1>10 DEF Cells, Taking
<1>13. s \in Nat /\ r \in Nat
  BY <1>5, <1>7
<1> QED  BY <1>11, <1>12, <1>13

\* A block in use takes up memory of an area.
LEMMA LivePlace ==
  ASSUME NEW C, NEW F, NEW B, NEW L, NEW lv, ChunksGood(C, F, B, L, lv),
         NEW P, PoolsGood(P, DOMAIN C), NEW t \in Thread, NEW b \in lv[t]
  PROVE  Taking(C, b) \in Places
<1>1. PICK ch : ch = ChunkOf(b.at)
  OBVIOUS
<1>2. PICK s : s = Size[C[ch].size_cls]
  OBVIOUS
<1>3. /\ ch \in DOMAIN C /\ ch \in Nat /\ C[ch].size_cls \in Class /\ s \in 1..CHUNK_DATA_SIZE
      /\ \E i \in 0..(CHUNK_DATA_SIZE \div s) - 1 : b.at = BlockAt(ch, s, i)
  BY <1>1, <1>2, LiveBlock
<1>4. PICK x \in Nat : x = b.at /\ ch <= x /\ x + s <= ch + CHUNK_SIZE
  <2>1. ch <= ch + Header
    BY <1>3, Sizes
  <2> QED  BY SMTT(30), <2>1, <1>3, BlockInside, Sizes
<1>5. PICK a \in Area : a = PoolOf(ch)
  BY <1>3 DEF PoolsGood
<1>6. PICK start \in Nat \ {0} : start = RAW_POOL_START(a) /\ start = (a - 1) * PoolGap + 1
  BY AreaStart
<1>7. ch >= start /\ ch + CHUNK_SIZE <= start + PoolGap
  <2>1. ch \in Mine(DOMAIN C, a)
    BY <1>3, <1>5 DEF Mine
  <2> QED  BY <2>1, <1>6 DEF PoolsGood, PoolGood
<1>8. x \in 1..Len(hardware_mc) * PoolGap
  <2>1. PICK n \in Nat : n = Len(hardware_mc) /\ a \in 1..n
    BY Areas
  <2>2. PICK g \in Nat : g = PoolGap
    BY Sizes
  <2>3. (a - 1) * g + g = a * g /\ a * g <= n * g /\ a * g \in Nat /\ n * g \in Nat
    BY <2>1, <2>2
  <2>4. PICK z \in Nat : z = (a - 1) * g
    BY <2>1, <2>2
  <2>5. PICK m \in Nat : m = CHUNK_SIZE
    BY Sizes
  <2>6. s \in Nat /\ s >= 1 /\ ch \in Nat
    BY <1>3, Sizes
  <2>7. start = z + 1 /\ ch + m <= start + g /\ x + s <= ch + m
    BY <2>2, <2>4, <2>5, <1>4, <1>6, <1>7
  <2>8. x <= z + g
    BY ONLY <2>2, <2>4, <2>5, <2>6, <2>7, x \in Nat, start \in Nat
  <2>9. x <= n * g
    BY <2>3, <2>4, <2>8
  <2>10. 1 <= x
    BY <1>3, <1>4, <1>6, <1>7
  <2> QED  BY <2>1, <2>2, <2>3, <2>9, <2>10
<1>9. s \in ToSet(Size)
  BY <1>2, <1>3 DEF ToSet, Class
<1> QED  BY <1>1, <1>2, <1>4, <1>8, <1>9 DEF Taking, Places

\* A block that is no larger than those its chunk is cut into takes up no more
\* than its own memory.
LEMMA SizedInside ==
  ASSUME IInv, NEW t \in Thread, NEW b \in live[t], ~Undersized(b)
  PROVE  Cells(b) \subseteq Cells(Taking(chunk, b))
<1>1. PICK s : s = Size[chunk[ChunkOf(b.at)].size_cls]
  OBVIOUS
<1>2. ChunksGood(chunk, foreground, background, free_list, live)
  BY DEF IInv
<1>3. b.at \in Nat /\ b.size \in Nat
  BY <1>2 DEF ChunksGood, LiveGood, LiveType
<1>4. s \in 1..CHUNK_DATA_SIZE /\ CHUNK_DATA_SIZE \in Nat
  BY <1>1, <1>2, LiveBlock, Sizes
<1>5. b.size <= s
  BY <1>1, <1>3, <1>4 DEF Undersized
<1>6. Cells(b) = b.at..b.at + b.size - 1 /\ Cells(Taking(chunk, b)) = b.at..b.at + s - 1
  BY <1>1 DEF Cells, Taking
<1> QED  BY <1>3, <1>4, <1>5, <1>6

\* Two blocks in use have addresses of their own.
LEMMA OneAddress ==
  ASSUME IInv, NEW t \in Thread, NEW u \in Thread, NEW b \in live[t], NEW d \in live[u],
         <<t, b>> # <<u, d>>
  PROVE  b.at # d.at
<1>1. SUFFICES ASSUME b.at = d.at PROVE FALSE
  OBVIOUS
<1>2. LiveGood(chunk, live)
  BY DEF IInv, ChunksGood
<1>3. chunk[ChunkOf(b.at)].owner = t /\ chunk[ChunkOf(d.at)].owner = u
  BY <1>2 DEF LiveGood
<1>4. t = u
  BY <1>1, <1>3
<1>5. b = d
  BY <1>1, <1>2, <1>4 DEF LiveGood
<1> QED  BY <1>4, <1>5

\* A block reaches into the one behind it only if it is undersized.
LEMMA SizedApart ==
  ASSUME IInv, NEW t \in Thread, NEW u \in Thread, NEW b \in live[t], NEW d \in live[u],
         <<t, b>> # <<u, d>>, b.at <= d.at
  PROVE  b.at < d.at /\ (Undersized(b) \/ Cells(b) \cap Cells(d) = {})
<1>1. ChunksGood(chunk, foreground, background, free_list, live)
  BY DEF IInv
<1>2. b.at \in Nat /\ d.at \in Nat /\ d.size \in Nat
  BY <1>1 DEF ChunksGood, LiveGood, LiveType
<1>3. b.at # d.at
  BY OneAddress
<1>4. Cells(Taking(chunk, b)) \cap Cells(Taking(chunk, d)) = {}
  BY <1>1, <1>3, LiveApart
<1>5. PICK s : s = Size[chunk[ChunkOf(b.at)].size_cls]
  OBVIOUS
<1>6. PICK r : r = Size[chunk[ChunkOf(d.at)].size_cls]
  OBVIOUS
<1>7. s \in Nat \ {0} /\ r \in Nat \ {0}
  BY <1>1, <1>5, <1>6, LiveBlock, Sizes
<1>8. b.at + s <= d.at
  <2>1. Cells(Taking(chunk, b)) = b.at..b.at + s - 1
    BY <1>5 DEF Cells, Taking
  <2>2. Cells(Taking(chunk, d)) = d.at..d.at + r - 1
    BY <1>6 DEF Cells, Taking
  <2>3. d.at \in d.at..d.at + r - 1
    BY <1>2, <1>7
  <2>4. d.at \notin b.at..b.at + s - 1
    BY <1>4, <2>1, <2>2, <2>3
  <2> QED  BY <1>2, <1>7, <2>4
<1>9. ~Undersized(b) => Cells(b) \cap Cells(d) = {}
  <2> SUFFICES ASSUME ~Undersized(b), NEW x \in Cells(b), x \in Cells(d)
               PROVE  FALSE
    OBVIOUS
  <2>1. x \in b.at..b.at + s - 1
    BY <1>5, SizedInside DEF Cells, Taking
  <2>2. x \in d.at..d.at + d.size - 1
    BY DEF Cells
  <2> QED  BY <1>2, <1>7, <1>8, <2>1, <2>2
<1> QED  BY <1>2, <1>3, <1>9

\* OnlyUndersizedOverlap: wa_malloc hands out no address in use and no byte in
\* use, but where an emptied chunk of a smaller class serves the request.
THEOREM OverlapsRight == Spec => []OnlyUndersizedOverlap
<1>1. IInv => OnlyUndersizedOverlap
  BY SizedApart DEF OnlyUndersizedOverlap
<1> QED  BY <1>1, Invariant, PTL

-----------------------------------------------------------------------------
\* Every block fits the blocks its chunk is cut into.
Sized == \A b \in AllLive : ~Undersized(b)

\* Then blocks in use share no byte.
LEMMA SizedDisjoint == IInv /\ Sized => NoOverlap
<1> SUFFICES ASSUME IInv, Sized, NEW t \in Thread, NEW u \in Thread,
                    NEW b \in live[t], NEW d \in live[u], <<t, b>> # <<u, d>>
             PROVE  Cells(b) \cap Cells(d) = {}
  BY DEF NoOverlap
<1>1. b.at \in Nat /\ d.at \in Nat
  BY DEF IInv, ChunksGood, LiveGood, LiveType
<1>2. ~Undersized(b) /\ ~Undersized(d)
  BY DEF Sized, AllLive
<1>3. CASE b.at <= d.at
  BY <1>2, <1>3, SizedApart
<1>4. CASE d.at <= b.at
  <2>1. <<u, d>> # <<t, b>>
    OBVIOUS
  <2> QED  BY <1>2, <1>4, <2>1, SizedApart
<1> QED  BY <1>1, <1>3, <1>4

\* A call of malloc gives a thread one block more, apart from all in use when
\* every block fits.
LEMMA MallocAdds ==
  ASSUME IInv, Sized', NEW t \in Thread, NEW c \in Class, Malloc(t, c)
  PROVE  Abstract!Malloc(t)
<1>1. /\ IInv'
      /\ \E x \in Nat : /\ live' = Gets(live, t, [at |-> x, size |-> Size[c]])
                        /\ \A u \in Thread : \A d \in live[u] : d.at # x
  BY MallocStep
<1>2. PICK x \in Nat : /\ live' = Gets(live, t, [at |-> x, size |-> Size[c]])
                       /\ \A u \in Thread : \A d \in live[u] : d.at # x
  BY <1>1
<1>3. PICK b : b = [at |-> x, size |-> Size[c]]
  OBVIOUS
<1>4. live' = [live EXCEPT ![t] = @ \cup {b}]
  BY <1>2, <1>3 DEF Gets
<1>5. /\ DOMAIN live = Thread
      /\ \A u \in Thread : live'[u] = IF u = t THEN live[u] \cup {b} ELSE live[u]
  <2>1. live \in LiveType
    BY DEF IInv, ChunksGood, LiveGood
  <2> QED  BY <1>4, <2>1 DEF LiveType
<1>6. b \in live'[t] /\ b.at = x /\ b.size = Size[c]
  BY <1>3, <1>5
<1>7. b \in Places
  <2>1. /\ ChunksGood(chunk', foreground', background', free_list', live')
        /\ PoolsGood(pool', DOMAIN chunk')
    BY <1>1 DEF IInv, Chunks
  <2>2. Taking(chunk', b) \in Places
    BY ONLY <2>1, <1>6, t \in Thread, LivePlace
  <2>3. b.at \in 1..Len(hardware_mc) * PoolGap
    <3>1. PICK n : Taking(chunk', b) = [at |-> b.at, size |-> n]
      BY DEF Taking
    <3>2. PICK y \in 1..Len(hardware_mc) * PoolGap, m \in ToSet(Size) :
            Taking(chunk', b) = [at |-> y, size |-> m]
      BY <2>2 DEF Places
    <3>3. b.at = y
      BY <3>1, <3>2
    <3> QED  BY <3>3
  <2>4. Size[c] \in ToSet(Size)
    BY DEF ToSet, Class
  <2> QED  BY <1>3, <1>6, <2>3, <2>4 DEF Places
<1>8. ASSUME NEW u \in Thread, NEW d \in live[u]
      PROVE  Cells(b) \cap Cells(d) = {}
  <2>1. d \in live'[u] /\ b # d
    BY <1>2, <1>5, <1>6
  <2>2. NoOverlap'
    BY <1>1, SizedDisjoint, PTL
  <2>3. <<t, b>> # <<u, d>>
    BY <2>1
  <2> QED  BY <1>6, <2>1, <2>2, <2>3 DEF NoOverlap
<1> QED  BY <1>4, <1>7, <1>8 DEF Abstract!Malloc

\* wa_malloc and wa_free implement BlockAllocator for the sizes asked for, in
\* every run in which no chunk serves a class larger than its own.
THEOREM Implements == Spec => ImplementsWhenSized
<1>1. Init => Abstract!Init
  BY DEF Init, Abstract!Init
<1>2. IInv /\ Sized' /\ [Next]_vars => [Abstract!Next]_live
  <2> SUFFICES ASSUME IInv, Sized', [Next]_vars  PROVE [Abstract!Next]_live
    OBVIOUS
  <2>1. ASSUME NEW t \in Thread, NEW c \in Class, Malloc(t, c)
        PROVE  Abstract!Malloc(t)
    BY <2>1, MallocAdds
  <2>2. ASSUME NEW t \in Thread, NEW b \in live[t], Free(t, b)
        PROVE  Abstract!Free(t)
    BY <2>2, FreeStep DEF Abstract!Free, Gives
  <2>3. CASE UNCHANGED vars
    BY <2>3 DEF vars
  <2> QED  BY <2>1, <2>2, <2>3 DEF Next, Abstract!Next
<1>3. ImplementsWhenSized <=> ([]Sized => Abstract!Spec)
  BY DEF ImplementsWhenSized, Sized
<1> QED  BY <1>1, <1>2, <1>3, Invariant, PTL DEF Spec, Abstract!Spec
=============================================================================
