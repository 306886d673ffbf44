--------------------------- MODULE NVMallocProofs ---------------------------
(***************************************************************************)
(* Type correctness and safety of NVMalloc for every size of the memory,   *)
(* every number of lists and every wait: the bitmap and the headers agree  *)
(* with the blocks in use and those that wait, no cell is allocated again  *)
(* before its wait is over, nvmalloc and nvfree implement BlockAllocator,  *)
(* headers tile every free region, and every free region has a hint that   *)
(* no larger request has passed by.                                        *)
(***************************************************************************)
EXTENDS MCNVMalloc, NatFacts, SequenceTheorems

MemoryType ==
  [bitmap        : SUBSET Cell,
   header        : [Cell -> -(MaxCells + 1)..MaxCells],
   free_zone     : 0..MaxCells,
   end_address   : InitCells..MaxCells,
   free_lists    : [1..NR_SIZES + 1 -> Seq(0..MaxCells)],
   dont_allocate : Seq([at : Cell, age : 0..Wait])]

\* The block that waits at place i of the queue, as its header describes it.
Queued(m)    == 1..Len(m.dont_allocate)
QueuedAt(m, i) == [at |-> m.dont_allocate[i].at, size |-> -m.header[m.dont_allocate[i].at] - 1]

\* The bits are those of the blocks in use and of those that wait, which
\* overlap nowhere, and their headers tell them apart.
Accounts(m, used) ==
  /\ used \subseteq Blocks
  /\ m.free_zone <= m.end_address
  /\ m.bitmap \subseteq 0..m.free_zone - 1
  /\ \A b \in used : m.header[b.at] = b.size
  /\ \A i \in Queued(m) : QueuedAt(m, i).size \in 1..MaxCells
  /\ \A b \in used : Cells(b) \subseteq m.bitmap
  /\ \A i \in Queued(m) : Cells(QueuedAt(m, i)) \subseteq m.bitmap
  /\ \A c \in m.bitmap : \/ \E b \in used : c \in Cells(b)
                         \/ \E i \in Queued(m) : c \in Cells(QueuedAt(m, i))
  /\ \A b, c \in used : b # c => Cells(b) \cap Cells(c) = {}
  /\ \A b \in used, i \in Queued(m) : Cells(b) \cap Cells(QueuedAt(m, i)) = {}
  /\ \A i, j \in Queued(m) : i # j => Cells(QueuedAt(m, i)) \cap Cells(QueuedAt(m, j)) = {}

\* A free cell has rested for the whole wait, a cell of a block that waits at
\* least as long as the block.
Rests(m, r) ==
  /\ r \in [Cell -> 0..Wait]
  /\ \A c \in Cell \ m.bitmap : r[c] = Wait
  /\ \A i \in Queued(m) : \A c \in Cells(QueuedAt(m, i)) : r[c] >= m.dont_allocate[i].age

\* The inductive invariant.
IInv == Memory \in MemoryType /\ Accounts(Memory, live) /\ Rests(Memory, rested)

-----------------------------------------------------------------------------
\* The distance isFreeForward finds: the cells up to there are free and
\* below the free zone, and it ends at a bit or at the free zone.
LEMMA ForwardFree ==
  ASSUME NEW m \in MemoryType, NEW at \in 0..MaxCells
  PROVE  LET f == isFreeForward(m, at)
         IN  /\ f \in 0..MaxCells
             /\ \A c \in at..at + f - 1 : c \notin m.bitmap /\ c < m.free_zone
             /\ at < m.free_zone => at + f \in m.bitmap \cup {m.free_zone} /\ at + f <= m.free_zone
  <1>1. MaxCells \in Nat /\ m.free_zone \in 0..MaxCells /\ m.bitmap \subseteq 0..MaxCells - 1
    BY NVAssumption DEF MemoryType, Cell
  <1>2. CASE at >= m.free_zone
    BY <1>1, <1>2 DEF isFreeForward
  <1>3. CASE at < m.free_zone
    <2> DEFINE S == {c \in m.bitmap \cup {m.free_zone} : c >= at}
    <2>1. at \in Int /\ S \in SUBSET Int /\ S # {} /\ \A y \in S : at <= y  BY <1>1, <1>3
    <2>2. Min(S) \in S /\ \A y \in S : Min(S) <= y
      <3> HIDE DEF S
      <3> QED  BY <2>1, MinOfSet
    <2>3. isFreeForward(m, at) = Min(S) - at  BY <1>1, <1>3 DEF isFreeForward
    <2>4. Min(S) \in Nat /\ Min(S) >= at /\ Min(S) <= m.free_zone /\ Min(S) \in m.bitmap \cup {m.free_zone}
      BY <1>1, <1>3, <2>2
    <2>5. \A c \in at..Min(S) - 1 : c \notin m.bitmap /\ c < m.free_zone
      <3>1. TAKE c \in at..Min(S) - 1
      <3>2. c \in Int /\ c >= at /\ ~ (Min(S) <= c) /\ c < m.free_zone  BY <1>1, <2>4
      <3>3. c \in m.bitmap => c \in S  BY <3>2
      <3> QED  BY <2>2, <3>2, <3>3
    <2> HIDE DEF S
    <2> QED  BY <1>1, <2>3, <2>4, <2>5
  <1> QED  BY <1>1, <1>2, <1>3

\* The distance isFreeBackward finds, likewise.
LEMMA BackwardFree ==
  ASSUME NEW m \in MemoryType, NEW at \in 0..MaxCells
  PROVE  LET f == isFreeBackward(m, at)
         IN  /\ f \in 0..at
             /\ \A c \in at - f..at - 1 : c \notin m.bitmap /\ c < m.free_zone
  <1>1. MaxCells \in Nat /\ m.free_zone \in 0..MaxCells /\ m.bitmap \subseteq 0..MaxCells - 1
    BY NVAssumption DEF MemoryType, Cell
  <1>2. CASE at > m.free_zone
    BY <1>1, <1>2 DEF isFreeBackward
  <1>3. CASE at <= m.free_zone
    <2> DEFINE S == {-1} \cup {c \in m.bitmap : c < at}
    <2>1. at \in Int /\ S \in SUBSET Int /\ S # {} /\ \A y \in S : y <= at  BY <1>1, <1>3
    <2>2. Max(S) \in S /\ \A y \in S : y <= Max(S)
      <3> HIDE DEF S
      <3> QED  BY <2>1, MaxOfSet
    <2>3. isFreeBackward(m, at) = at - 1 - Max(S)  BY <1>1, <1>3 DEF isFreeBackward
    <2>4. Max(S) \in Int /\ Max(S) < at /\ Max(S) >= -1  BY <1>1, <1>3, <2>2
    <2>5. \A c \in Max(S) + 1..at - 1 : c \notin m.bitmap /\ c < m.free_zone
      <3>1. TAKE c \in Max(S) + 1..at - 1
      <3>2. c \in Int /\ c < at /\ c > Max(S)  BY <2>4
      <3> QED  BY <1>1, <1>3, <2>2, <2>4, <3>2
    <2> HIDE DEF S
    <2> QED  BY <1>1, <2>3, <2>4, <2>5
  <1> QED  BY <1>1, <1>2, <1>3

\* The region a hint leads to is free and ends at the free zone at the latest.
LEMMA RegionFree ==
  ASSUME NEW m \in MemoryType, NEW hint \in 0..MaxCells
  PROVE  LET r == Region(m, hint)
         IN  /\ r = [at |-> r.at, size |-> r.size]
             /\ r.at \in 0..MaxCells /\ r.size \in Nat
             /\ \A c \in r.at..r.at + r.size - 1 : c \in Cell \ m.bitmap /\ c < m.free_zone
  <1> DEFINE f == isFreeForward(m, hint)
             k == isFreeBackward(m, hint)
  <1>1. MaxCells \in Nat /\ m.free_zone \in 0..MaxCells  BY NVAssumption DEF MemoryType
  <1>2. /\ f \in 0..MaxCells
        /\ \A c \in hint..hint + f - 1 : c \notin m.bitmap /\ c < m.free_zone
    BY ForwardFree
  <1>3. /\ k \in 0..hint
        /\ \A c \in hint - k..hint - 1 : c \notin m.bitmap /\ c < m.free_zone
    BY BackwardFree
  <1>4. Region(m, hint) = [at |-> hint - k, size |-> f + k]  BY DEF Region
  <1> HIDE DEF f, k
  <1>5. \A c \in hint - k..hint + f - 1 : c \in Cell \ m.bitmap /\ c < m.free_zone
    <2>1. TAKE c \in hint - k..hint + f - 1
    <2>2. c \in hint..hint + f - 1 \/ c \in hint - k..hint - 1  BY <1>1, <1>2, <1>3
    <2>3. c \notin m.bitmap /\ c < m.free_zone  BY <1>2, <1>3, <2>2
    <2> QED  BY <1>1, <1>3, <2>3 DEF Cell
  <1> QED  BY <1>1, <1>2, <1>3, <1>4, <1>5

-----------------------------------------------------------------------------
\* What the queue holds, and where the blocks lie.
LEMMA QueueType ==
  ASSUME NEW m \in MemoryType, NEW i \in Queued(m)
  PROVE  /\ m.dont_allocate \in Seq([at : Cell, age : 0..Wait])
         /\ m.dont_allocate[i] \in [at : Cell, age : 0..Wait]
         /\ m.dont_allocate[i].at \in Nat
         /\ QueuedAt(m, i).at = m.dont_allocate[i].at
  <1>1. m.dont_allocate \in Seq([at : Cell, age : 0..Wait])  BY DEF MemoryType
  <1>2. m.dont_allocate[i] \in [at : Cell, age : 0..Wait]
    BY <1>1, ElementOfSeq DEF Queued
  <1> QED  BY <1>1, <1>2 DEF Cell, QueuedAt

\* The bit of the header of every block in use is set.
LEMMA UsedBits ==
  ASSUME NEW m \in MemoryType, NEW used, Accounts(m, used)
  PROVE  \A b \in used : b.at \in m.bitmap
  <1>1. TAKE b \in used
  <1>2. b.at \in Nat /\ b.size \in Nat \ {0}  BY DEF Accounts, Blocks, Cell
  <1> QED  BY <1>2 DEF Accounts, Cells

\* So is that of every block that waits in dont_allocate.
LEMMA QueuedBits ==
  ASSUME NEW m \in MemoryType, NEW used, Accounts(m, used)
  PROVE  \A i \in Queued(m) : m.dont_allocate[i].at \in m.bitmap
  <1>1. TAKE i \in Queued(m)
  <1>2. m.dont_allocate[i].at \in Nat /\ QueuedAt(m, i).at = m.dont_allocate[i].at
    BY QueueType
  <1>3. QueuedAt(m, i).size \in 1..MaxCells /\ Cells(QueuedAt(m, i)) \subseteq m.bitmap
    BY DEF Accounts
  <1> QED  BY <1>2, <1>3 DEF Cells

\* Waiting times grow together, up to Wait.
LEMMA LaterBetween ==
  ASSUME NEW d \in 0..Wait, NEW a \in 0..Wait
  PROVE  Later(a, d) = IF a + d <= Wait THEN a + d ELSE Wait
  <1>1. Wait \in Nat  BY NVAssumption
  <1> DEFINE S == {Wait, a + d}
  <1>2. 0 \in Int /\ S \in SUBSET Int /\ S # {} /\ \A y \in S : 0 <= y  BY <1>1
  <1> HIDE DEF S
  <1>3. Min(S) \in S /\ \A y \in S : Min(S) <= y  BY <1>2, MinOfSet
  <1> QED  BY <1>1, <1>3 DEF S, Later

\* Only the bits, the headers of the blocks and the queue matter to the
\* account: what changes hints, the header of a cell that is free, or moves
\* the free zone over free cells leaves it as it is.
LEMMA SameBlocks ==
  ASSUME NEW m \in MemoryType, NEW used, NEW r, Accounts(m, used), Rests(m, r),
         NEW g \in MemoryType,
         g.bitmap = m.bitmap, g.dont_allocate = m.dont_allocate,
         g.free_zone <= g.end_address, m.bitmap \subseteq 0..g.free_zone - 1,
         \A c \in m.bitmap : g.header[c] = m.header[c]
  PROVE  Accounts(g, used) /\ Rests(g, r)
  <1>1. \A b \in used : b.at \in m.bitmap  BY UsedBits
  <1>2. \A i \in Queued(m) : m.dont_allocate[i].at \in m.bitmap  BY QueuedBits
  <1>3. Queued(g) = Queued(m)  BY DEF Queued
  <1>4. \A i \in Queued(m) : QueuedAt(g, i) = QueuedAt(m, i)
    BY <1>2 DEF QueuedAt
  <1>5. \A b \in used : g.header[b.at] = b.size  BY <1>1 DEF Accounts
  <1>6. Accounts(g, used)  BY <1>3, <1>4, <1>5 DEF Accounts
  <1>7. Rests(g, r)  BY <1>3, <1>4 DEF Rests
  <1> QED  BY <1>6, <1>7

\* A change of hints, or of the end of the memory, keeps the account.
LEMMA SameAccount ==
  ASSUME NEW m \in MemoryType, NEW used, NEW r, Accounts(m, used), Rests(m, r),
         NEW g \in MemoryType,
         g.bitmap = m.bitmap, g.dont_allocate = m.dont_allocate,
         g.free_zone = m.free_zone, g.end_address >= m.end_address,
         \A c \in m.bitmap : g.header[c] = m.header[c]
  PROVE  Accounts(g, used) /\ Rests(g, r)
  <1>1. g.free_zone <= g.end_address  BY DEF Accounts, MemoryType
  <1>2. m.bitmap \subseteq 0..g.free_zone - 1  BY DEF Accounts
  <1> QED  BY <1>1, <1>2, SameBlocks

\* A list that holds hints for regions of n cells.
LEMMA BestFit ==
  ASSUME NEW n \in Nat \ {0}
  PROVE  getBestFit(n) \in 1..NR_SIZES + 1
  BY NVAssumption DEF getBestFit

\* Filing a hint in the list of its size touches nothing else.
LEMMA FileHintKeeps ==
  ASSUME NEW m \in MemoryType, NEW n \in Nat \ {0}, NEW at \in 0..MaxCells,
         NEW used, NEW r, Accounts(m, used), Rests(m, r)
  PROVE  LET g == FileHint(m, n, at)
         IN  /\ g \in MemoryType /\ g.bitmap = m.bitmap /\ g.free_zone = m.free_zone
             /\ Accounts(g, used) /\ Rests(g, r)
  <1> DEFINE l == getBestFit(n)
             g == FileHint(m, n, at)
  <1>1. l \in 1..NR_SIZES + 1  BY BestFit
  <1>2. g = [m EXCEPT !.free_lists[l] = Append(@, at)]  BY DEF FileHint
  <1>3. Append(m.free_lists[l], at) \in Seq(0..MaxCells)
    <2>1. m.free_lists[l] \in Seq(0..MaxCells)  BY <1>1 DEF MemoryType
    <2> QED  BY <2>1, AppendProperties
  <1>4. g \in MemoryType  BY ZenonT(60), <1>1, <1>2, <1>3 DEF MemoryType
  <1>5. /\ g.bitmap = m.bitmap /\ g.dont_allocate = m.dont_allocate
        /\ g.free_zone = m.free_zone /\ g.end_address = m.end_address /\ g.header = m.header
    BY <1>2 DEF MemoryType
  <1>6. g.end_address >= m.end_address  BY <1>5 DEF MemoryType
  <1> HIDE DEF g
  <1>7. Accounts(g, used) /\ Rests(g, r)  BY <1>4, <1>5, <1>6, SameAccount
  <1> QED  BY <1>4, <1>5, <1>7 DEF g

\* The hints that a search drops are of no account.
LEMMA DroppedKeeps ==
  ASSUME NEW m \in MemoryType, NEW n \in Nat \ {0}, NEW h \in Nat \X Nat,
         NEW used, NEW r, Accounts(m, used), Rests(m, r)
  PROVE  LET g == Dropped(m, n, h)
         IN  /\ g \in MemoryType /\ g.bitmap = m.bitmap /\ g.free_zone = m.free_zone
             /\ g.end_address = m.end_address /\ g.dont_allocate = m.dont_allocate
             /\ Accounts(g, used) /\ Rests(g, r)
  <1> DEFINE g == Dropped(m, n, h)
             F(l) == IF l \in getBestFit(n)..h[1] - 1 THEN <<>>
                     ELSE IF l = h[1] THEN SubSeq(m.free_lists[l], h[2] + 1, Len(m.free_lists[l]))
                     ELSE m.free_lists[l]
  <1>1. \A l \in 1..NR_SIZES + 1 : F(l) \in Seq(0..MaxCells)
    <2>1. TAKE l \in 1..NR_SIZES + 1
    <2>2. m.free_lists[l] \in Seq(0..MaxCells)  BY DEF MemoryType
    <2>3. ASSUME NEW s \in Seq(0..MaxCells), NEW k \in Nat
          PROVE  SubSeq(s, k + 1, Len(s)) \in Seq(0..MaxCells)
      <3>1. Len(s) \in Nat  BY LenProperties
      <3>2. \A i \in k + 1..Len(s) : i \in 1..Len(s)  BY <3>1
      <3>3. \A i \in k + 1..Len(s) : s[i] \in 0..MaxCells  BY <3>2, ElementOfSeq
      <3> QED  BY <3>1, <3>3, SubSeqProperties
    <2>4. <<>> \in Seq(0..MaxCells)  OBVIOUS
    <2>5. SubSeq(m.free_lists[l], h[2] + 1, Len(m.free_lists[l])) \in Seq(0..MaxCells)
      <3>1. h[2] \in Nat  OBVIOUS
      <3> QED  BY <2>2, <2>3, <3>1
    <2> QED  BY <2>2, <2>4, <2>5
  <1>2. g = [m EXCEPT !.free_lists = [l \in 1..NR_SIZES + 1 |-> F(l)]]
    BY DEF Dropped, MemoryType
  <1>3. [l \in 1..NR_SIZES + 1 |-> F(l)] \in [1..NR_SIZES + 1 -> Seq(0..MaxCells)]
    BY <1>1
  <1> HIDE DEF F
  <1>4. g \in MemoryType  BY <1>2, <1>3 DEF MemoryType
  <1>5. /\ g.bitmap = m.bitmap /\ g.dont_allocate = m.dont_allocate
        /\ g.free_zone = m.free_zone /\ g.end_address = m.end_address /\ g.header = m.header
    BY <1>2 DEF MemoryType
  <1>6. g.end_address >= m.end_address  BY <1>5 DEF MemoryType
  <1> HIDE DEF g
  <1>7. Accounts(g, used) /\ Rests(g, r)  BY <1>4, <1>5, <1>6, SameAccount
  <1> QED  BY <1>4, <1>5, <1>7 DEF g

\* Taking the front of a free region writes at most one header, of a free
\* cell, and files at most one hint.
LEMMA TakeFromKeeps ==
  ASSUME NEW m \in MemoryType, NEW reg, NEW n \in Nat \ {0},
         reg.at \in Nat, reg.size \in Nat, reg.size >= n,
         \A c \in reg.at..reg.at + reg.size - 1 : c \in Cell \ m.bitmap,
         NEW used, NEW r, Accounts(m, used), Rests(m, r)
  PROVE  LET g == TakeFrom(m, reg, n)
         IN  /\ g \in MemoryType /\ g.bitmap = m.bitmap /\ g.free_zone = m.free_zone
             /\ Accounts(g, used) /\ Rests(g, r)
  <1>0. MaxCells \in Nat  BY NVAssumption
  <1>1. CASE reg.size = n  BY <1>1 DEF TakeFrom
  <1>2. CASE reg.size # n
    <2> DEFINE at == reg.at + n
               w  == [m EXCEPT !.header[at] = n - reg.size]
               k  == IF at \in Walk(m, reg) THEN m ELSE w
    <2>1. at \in Cell \ m.bitmap /\ reg.at \in Cell /\ reg.at + reg.size - 1 \in Cell
      BY <1>2 DEF Cell
    <2>2. n - reg.size \in -(MaxCells + 1)..MaxCells  BY <1>0, <2>1 DEF Cell
    <2>3. w \in MemoryType  BY <2>1, <2>2 DEF MemoryType
    <2>4. /\ w.bitmap = m.bitmap /\ w.dont_allocate = m.dont_allocate
          /\ w.free_zone = m.free_zone /\ w.end_address = m.end_address
      BY DEF MemoryType
    <2>5. \A c \in m.bitmap : w.header[c] = m.header[c]
      BY <2>1 DEF MemoryType
    <2>6. w.end_address >= m.end_address  BY <2>4 DEF MemoryType
    <2> HIDE DEF w
    <2>7. Accounts(w, used) /\ Rests(w, r)  BY <2>3, <2>4, <2>5, <2>6, SameAccount
    <2>8. k \in MemoryType /\ Accounts(k, used) /\ Rests(k, r)
          /\ k.bitmap = m.bitmap /\ k.free_zone = m.free_zone
      BY <2>3, <2>4, <2>7
    <2>9. TakeFrom(m, reg, n) = FileHint(k, reg.size - n, at)
      BY <1>2 DEF TakeFrom, w
    <2>10. at \in 0..MaxCells /\ reg.size - n \in Nat \ {0}  BY <1>0, <1>2, <2>1 DEF Cell
    <2> HIDE DEF at, k
    <2> QED  BY <2>8, <2>9, <2>10, FileHintKeeps
  <1> QED  BY <1>1, <1>2

\* Setting the bits of a free region and writing its header adds a block.
LEMMA OccupiedAccounts ==
  ASSUME NEW m \in MemoryType, NEW used, NEW r, Accounts(m, used), Rests(m, r),
         NEW b \in Blocks, \A c \in Cells(b) : c \in Cell \ m.bitmap /\ c < m.free_zone
  PROVE  LET g == Occupied(m, b)
         IN  /\ g \in MemoryType /\ g.dont_allocate = m.dont_allocate
             /\ Accounts(g, used \cup {b}) /\ Rests(g, r)
  <1> DEFINE H == [c \in Cell |-> IF c = b.at THEN b.size
                                  ELSE IF c \in Cells(b) THEN 0 ELSE m.header[c]]
             g == [m EXCEPT !.bitmap = m.bitmap \cup Cells(b), !.header = H]
  <1>1. g = Occupied(m, b)  BY DEF Occupied
  <1>2. MaxCells \in Nat /\ b.at \in Cell /\ b.size \in Nat \ {0} /\ b.at \in Nat
    BY NVAssumption DEF Blocks, Cell
  <1>3. b.at \in Cells(b) /\ b.at + b.size - 1 \in Cells(b) /\ Cells(b) \subseteq Cell
    BY <1>2 DEF Cells
  <1>4. b.size \in 1..MaxCells  BY <1>2, <1>3 DEF Cell
  <1>5. m.header \in [Cell -> -(MaxCells + 1)..MaxCells]  BY DEF MemoryType
  <1>6. H \in [Cell -> -(MaxCells + 1)..MaxCells]  BY SMTT(30), <1>2, <1>4, <1>5
  <1>7. g \in MemoryType  BY <1>3, <1>6 DEF MemoryType
  <1>8. /\ g.bitmap = m.bitmap \cup Cells(b) /\ g.header = H /\ g.dont_allocate = m.dont_allocate
        /\ g.free_zone = m.free_zone /\ g.end_address = m.end_address
    BY DEF MemoryType
  <1>9. H[b.at] = b.size  BY <1>2
  <1>10. \A c \in m.bitmap : H[c] = m.header[c]
    <2>1. m.bitmap \subseteq Cell  BY DEF MemoryType
    <2> QED  BY <1>3, <2>1
  <1>11. \A i \in Queued(m) : m.dont_allocate[i].at \in m.bitmap  BY QueuedBits
  <1>12. \A d \in used : d.at \in m.bitmap  BY UsedBits
  <1> HIDE DEF H, g
  <1>13. Queued(g) = Queued(m)  BY <1>8 DEF Queued
  <1>14. \A i \in Queued(m) : QueuedAt(g, i) = QueuedAt(m, i)
    BY <1>8, <1>10, <1>11 DEF QueuedAt
  <1>15. Accounts(g, used \cup {b})
    <2>1. used \cup {b} \subseteq Blocks /\ g.free_zone <= g.end_address
      BY <1>8 DEF Accounts
    <2>2. g.bitmap \subseteq 0..g.free_zone - 1
      <3>1. Cells(b) \subseteq 0..m.free_zone - 1
        <4>1. m.free_zone \in Nat  BY DEF MemoryType
        <4> QED  BY <1>2, <4>1 DEF Cells
      <3> QED  BY <1>8, <3>1 DEF Accounts
    <2>3. \A d \in used \cup {b} : g.header[d.at] = d.size
      BY <1>8, <1>9, <1>10, <1>12 DEF Accounts
    <2>4. \A d \in used \cup {b} : Cells(d) \subseteq g.bitmap
      BY <1>8 DEF Accounts
    <2>5. \A c \in g.bitmap : \/ \E d \in used \cup {b} : c \in Cells(d)
                              \/ \E i \in Queued(m) : c \in Cells(QueuedAt(m, i))
      BY <1>8 DEF Accounts
    <2>6. \A d \in used : Cells(d) \cap Cells(b) = {}  BY DEF Accounts
    <2>7. \A c, d \in used \cup {b} : c # d => Cells(c) \cap Cells(d) = {}
      BY <2>6 DEF Accounts
    <2>8. \A i \in Queued(m) : Cells(b) \cap Cells(QueuedAt(m, i)) = {}  BY DEF Accounts
    <2>9. \A i \in Queued(m) : Cells(QueuedAt(m, i)) \subseteq g.bitmap  BY <1>8 DEF Accounts
    <2> QED
      BY <1>13, <1>14, <2>1, <2>2, <2>3, <2>4, <2>5, <2>7, <2>8, <2>9 DEF Accounts
  <1>16. Rests(g, r)  BY <1>8, <1>13, <1>14 DEF Rests
  <1> QED  BY <1>1, <1>7, <1>8, <1>15, <1>16

\* Time passes for the cells as it does for the queue.
LEMMA ElapsedKeeps ==
  ASSUME NEW m \in MemoryType, NEW used, NEW r, Accounts(m, used), Rests(m, r),
         NEW d \in 0..Wait
  PROVE  LET g == Elapsed(m, d)
         IN  /\ g \in MemoryType /\ Accounts(g, used)
             /\ Rests(g, [c \in Cell |-> Later(r[c], d)])
  <1> DEFINE Q == m.dont_allocate
             D == [i \in DOMAIN Q |-> [at |-> Q[i].at, age |-> Later(Q[i].age, d)]]
             g == [m EXCEPT !.dont_allocate = D]
             r2 == [c \in Cell |-> Later(r[c], d)]
  <1>1. g = Elapsed(m, d)  BY DEF Elapsed
  <1>0. Wait \in Nat  BY NVAssumption
  <1>2. \A a \in 0..Wait : Later(a, d) \in 0..Wait /\ (a = Wait => Later(a, d) = Wait)
    BY <1>0, LaterBetween
  <1>3. \A a, k \in 0..Wait : a >= k => Later(a, d) >= Later(k, d)  BY <1>0, LaterBetween
  <1>4. /\ Q \in Seq([at : Cell, age : 0..Wait]) /\ Len(Q) \in Nat /\ DOMAIN Q = 1..Len(Q)
        /\ \A i \in 1..Len(Q) : Q[i] \in [at : Cell, age : 0..Wait]
    <2>1. Q \in Seq([at : Cell, age : 0..Wait])  BY DEF MemoryType
    <2> HIDE DEF Q
    <2> QED  BY <2>1, ElementOfSeq, LenProperties
  <1> HIDE DEF Q
  <1>5. \A i \in 1..Len(Q) : /\ D[i] \in [at : Cell, age : 0..Wait]
                             /\ D[i].at = Q[i].at /\ D[i].age = Later(Q[i].age, d)
    BY <1>2, <1>4
  <1>6. D \in Seq([at : Cell, age : 0..Wait]) /\ Len(D) = Len(Q)
    <2>1. D \in [1..Len(Q) -> [at : Cell, age : 0..Wait]]  BY <1>4, <1>5
    <2> HIDE DEF D
    <2> QED  BY SMTT(30), <1>4, <2>1
  <1>7. g \in MemoryType  BY <1>6 DEF MemoryType
  <1>8. /\ g.bitmap = m.bitmap /\ g.header = m.header /\ g.dont_allocate = D
        /\ g.free_zone = m.free_zone /\ g.end_address = m.end_address
    BY DEF MemoryType
  <1> HIDE DEF D, g
  <1>9. Queued(g) = Queued(m) /\ Queued(m) = 1..Len(Q)  BY <1>6, <1>8 DEF Queued, Q
  <1>10. \A i \in Queued(m) : QueuedAt(g, i) = QueuedAt(m, i)
    BY <1>5, <1>8, <1>9 DEF QueuedAt, Q
  <1>11. Accounts(g, used)  BY <1>8, <1>9, <1>10 DEF Accounts
  <1>12. Rests(g, r2)
    <2>1. r \in [Cell -> 0..Wait]  BY DEF Rests
    <2>2. r2 \in [Cell -> 0..Wait]  BY <1>2, <2>1
    <2>3. \A c \in Cell \ g.bitmap : r2[c] = Wait
      BY <1>2, <1>8, <2>1 DEF Rests
    <2>4. ASSUME NEW i \in Queued(g), NEW c \in Cells(QueuedAt(g, i))
          PROVE  r2[c] >= g.dont_allocate[i].age
      <3>1. c \in Cells(QueuedAt(m, i)) /\ c \in Cell
        BY <1>9, <1>10 DEF Accounts, MemoryType
      <3>2. r[c] >= Q[i].age /\ r[c] \in 0..Wait /\ Q[i].age \in 0..Wait
        BY <1>4, <1>9, <2>1, <3>1 DEF Rests, Q
      <3>3. r2[c] = Later(r[c], d) /\ g.dont_allocate[i].age = Later(Q[i].age, d)
        BY <1>5, <1>8, <1>9, <3>1
      <3> QED  BY <1>3, <3>2, <3>3
    <2> QED  BY <2>2, <2>3, <2>4 DEF Rests
  <1> QED  BY <1>1, <1>7, <1>11, <1>12

\* The memory once the block at cell at has left the head of the queue.
Released(m, at) ==
  [m EXCEPT !.dont_allocate = Tail(@), !.bitmap = @ \ (at..at - m.header[at] - 2)]

\* The block at the head of the queue leaves it: its cells are free, and have
\* rested for the whole wait.
LEMMA HeadReleased ==
  ASSUME NEW m \in MemoryType, NEW used, NEW r, Accounts(m, used), Rests(m, r),
         m.dont_allocate # <<>>, m.dont_allocate[1].age = Wait,
         NEW at, at = m.dont_allocate[1].at,
         NEW g, g = Released(m, at)
  PROVE  /\ at \in Cell \ g.bitmap /\ at < m.free_zone
         /\ g \in MemoryType /\ g.free_zone = m.free_zone /\ g.header = m.header
         /\ g.end_address = m.end_address
         /\ Accounts(g, used) /\ Rests(g, r)
  <1> DEFINE Q    == m.dont_allocate
             head == QueuedAt(m, 1)
  <1>1. /\ Q \in Seq([at : Cell, age : 0..Wait]) /\ Len(Q) \in Nat \ {0}
        /\ Tail(Q) \in Seq([at : Cell, age : 0..Wait]) /\ Len(Tail(Q)) = Len(Q) - 1
        /\ \A i \in 1..Len(Tail(Q)) : Tail(Q)[i] = Q[i + 1]
    <2>1. Q \in Seq([at : Cell, age : 0..Wait])  BY DEF MemoryType
    <2> HIDE DEF Q
    <2>2. Q # <<>>  BY DEF Q
    <2> QED  BY <2>1, <2>2, HeadTailProperties, EmptySeq
  <1>2. 1 \in Queued(m)  BY <1>1 DEF Queued
  <1>3. /\ at \in Nat /\ at \in Cell /\ head.at = at /\ head.size = -m.header[at] - 1
        /\ head.size \in 1..MaxCells /\ m.header[at] \in Int
    <2>1. m.dont_allocate[1].at \in Cell /\ m.dont_allocate[1].at \in Nat
      BY <1>2, QueueType
    <2>2. m.header[at] \in Int
      <3>1. m.header \in [Cell -> -(MaxCells + 1)..MaxCells] /\ MaxCells \in Nat
        BY NVAssumption DEF MemoryType
      <3> QED  BY <2>1, <3>1
    <2> QED  BY <1>2, <2>1, <2>2 DEF QueuedAt, Accounts
  <1>4. at..at - m.header[at] - 2 = Cells(head)
    <2> HIDE DEF head
    <2>1. \A a, y \in Int : a + (-y - 1) - 1 = a - y - 2  OBVIOUS
    <2>2. head.at + head.size - 1 = at - m.header[at] - 2
      <3>1. at \in Int  BY <1>3
      <3> HIDE DEF Q
      <3> QED  BY <1>3, <2>1, <3>1, Zenon
    <2> QED  BY <1>3, <2>2 DEF Cells
  <1>5. /\ g.bitmap = m.bitmap \ Cells(head) /\ g.dont_allocate = Tail(Q)
        /\ g.free_zone = m.free_zone /\ g.header = m.header /\ g.end_address = m.end_address
    BY <1>4 DEF MemoryType, Released
  <1>6. g \in MemoryType  BY <1>1, <1>4 DEF MemoryType, Released
  <1>7. at \in Cells(head) /\ Cells(head) \subseteq m.bitmap
    BY <1>2, <1>3 DEF Cells, Accounts
  <1>8. at < m.free_zone  BY <1>7 DEF Accounts, MemoryType
  <1>9. \A i \in Queued(g) : /\ i + 1 \in Queued(m) /\ i + 1 # 1
                            /\ QueuedAt(g, i) = QueuedAt(m, i + 1)
                            /\ g.dont_allocate[i] = m.dont_allocate[i + 1]
    BY SMTT(30), <1>1, <1>5 DEF Queued, QueuedAt
  <1>10. \A i \in Queued(m) : i # 1 => i - 1 \in Queued(g) /\ QueuedAt(g, i - 1) = QueuedAt(m, i)
    BY <1>1, <1>5 DEF Queued, QueuedAt
  <1>11. \A i, j \in Queued(g) : i # j => i + 1 # j + 1  BY SMTT(30) DEF Queued
  <1> HIDE DEF head, Q
  <1>12. Accounts(g, used)
    <2>1. \A b \in used : Cells(b) \cap Cells(head) = {}  BY <1>2 DEF Accounts, head
    <2>2. \A i \in Queued(m) : i # 1 => Cells(QueuedAt(m, i)) \cap Cells(head) = {}
      BY <1>2 DEF Accounts, head
    <2>3. g.bitmap \subseteq 0..g.free_zone - 1  BY <1>5 DEF Accounts
    <2>4. \A b \in used : Cells(b) \subseteq g.bitmap  BY <1>5, <2>1 DEF Accounts
    <2>5. \A i \in Queued(g) : Cells(QueuedAt(g, i)) \subseteq g.bitmap
      BY <1>5, <1>9, <2>2 DEF Accounts
    <2>6. \A c \in g.bitmap : \/ \E b \in used : c \in Cells(b)
                              \/ \E i \in Queued(g) : c \in Cells(QueuedAt(g, i))
      <3>1. SUFFICES ASSUME NEW c \in g.bitmap, NEW i \in Queued(m), c \in Cells(QueuedAt(m, i))
                     PROVE  \E j \in Queued(g) : c \in Cells(QueuedAt(g, j))
        BY <1>5 DEF Accounts
      <3>2. i # 1  BY <1>5, <3>1 DEF head
      <3> QED  BY <1>10, <3>1, <3>2
    <2>7. \A b \in used, i \in Queued(g) : Cells(b) \cap Cells(QueuedAt(g, i)) = {}
      BY <1>9 DEF Accounts
    <2>8. \A i, j \in Queued(g) : i # j => Cells(QueuedAt(g, i)) \cap Cells(QueuedAt(g, j)) = {}
      BY <1>9, <1>11 DEF Accounts
    <2>9. \A i \in Queued(g) : QueuedAt(g, i).size \in 1..MaxCells  BY <1>9 DEF Accounts
    <2>10. /\ used \subseteq Blocks /\ g.free_zone <= g.end_address
           /\ \A b \in used : g.header[b.at] = b.size
           /\ \A b, c \in used : b # c => Cells(b) \cap Cells(c) = {}
      BY <1>5 DEF Accounts
    <2> QED  BY <2>3, <2>4, <2>5, <2>6, <2>7, <2>8, <2>9, <2>10 DEF Accounts
  <1>13. Rests(g, r)
    <2>1. \A c \in Cells(head) : c \in Cell => r[c] = Wait
      <3>1. SUFFICES ASSUME NEW c \in Cells(head), c \in Cell  PROVE r[c] = Wait  OBVIOUS
      <3>2. r[c] >= m.dont_allocate[1].age  BY <1>2 DEF Rests, head
      <3>3. r \in [Cell -> 0..Wait]  BY DEF Rests
      <3>4. Wait \in Nat  BY NVAssumption
      <3>5. r[c] \in 0..Wait  BY <3>1, <3>3
      <3> QED  BY <3>2, <3>4, <3>5
    <2>2. \A c \in Cell \ g.bitmap : r[c] = Wait  BY <1>5, <2>1 DEF Rests
    <2>3. \A i \in Queued(g) : \A c \in Cells(QueuedAt(g, i)) : r[c] >= g.dont_allocate[i].age
      <3>1. TAKE i \in Queued(g)
      <3>2. /\ i + 1 \in Queued(m) /\ QueuedAt(g, i) = QueuedAt(m, i + 1)
            /\ g.dont_allocate[i] = m.dont_allocate[i + 1]
        BY <1>9
      <3>3. \A c \in Cells(QueuedAt(m, i + 1)) : r[c] >= m.dont_allocate[i + 1].age
        BY <3>2 DEF Rests
      <3> QED  BY <3>2, <3>3
    <2> QED  BY <2>2, <2>3 DEF Rests
  <1> QED  BY <1>3, <1>5, <1>6, <1>7, <1>8, <1>12, <1>13

\* It joins the free zone or gets a header and hints.
LEMMA DrainedKeeps ==
  ASSUME NEW m \in MemoryType, NEW used, NEW r, Accounts(m, used), Rests(m, r),
         m.dont_allocate # <<>>, m.dont_allocate[1].age = Wait
  PROVE  LET g == Drained(m)
         IN  g \in MemoryType /\ Accounts(g, used) /\ Rests(g, r)
  <1> DEFINE at    == m.dont_allocate[1].at
             g     == Released(m, at)
             fwd   == isFreeForward(g, at)
             back  == isFreeBackward(g, at)
  <1>1. Drained(m) = insertFreeLocation(g, at, fwd, fwd + back)  BY DEF Drained, Released
  <1>2. /\ at \in Cell \ g.bitmap /\ at < m.free_zone
        /\ g \in MemoryType /\ g.free_zone = m.free_zone /\ g.header = m.header
        /\ g.end_address = m.end_address
        /\ Accounts(g, used) /\ Rests(g, r)
    <2> HIDE DEF at
    <2> QED  BY HeadReleased DEF at
  <1> HIDE DEF at, g
  <1>3. MaxCells \in Nat /\ at \in 0..MaxCells /\ at \in Nat /\ g.free_zone \in 0..MaxCells
        /\ g.bitmap \subseteq Nat
    BY <1>2, NVAssumption DEF Cell, MemoryType
  <1>4. /\ fwd \in 0..MaxCells /\ at + fwd <= g.free_zone
        /\ \A c \in at..at + fwd - 1 : c \notin g.bitmap
        /\ at + fwd \in g.bitmap \cup {g.free_zone}
    BY <1>2, <1>3, ForwardFree
  <1>5. /\ back \in 0..at
        /\ \A c \in at - back..at - 1 : c \notin g.bitmap
    BY <1>2, <1>3, BackwardFree
  <1>6. fwd # 0  BY <1>2, <1>3, <1>4
  <1> HIDE DEF fwd, back
  <1>7. CASE at + fwd >= g.free_zone
    <2> DEFINE k == [g EXCEPT !.free_zone = at - back, !.header[at] = 0]
    <2>1. at + fwd - (fwd + back) = at - back  BY <1>3, <1>4, <1>5
    <2>2. Drained(m) = k
      BY <1>1, <1>2, <1>7, <2>1 DEF insertFreeLocation
    <2>3. at - back \in 0..MaxCells /\ at - back <= g.end_address
      BY <1>2, <1>3, <1>5 DEF Accounts, MemoryType
    <2>4. k \in MemoryType
      <3>1. [g.header EXCEPT ![at] = 0] \in [Cell -> -(MaxCells + 1)..MaxCells]
        BY <1>2, <1>3 DEF MemoryType
      <3> QED  BY <1>2, <2>3, <3>1 DEF MemoryType
    <2>5. /\ k.bitmap = g.bitmap /\ k.dont_allocate = g.dont_allocate
          /\ k.free_zone = at - back /\ k.end_address = g.end_address
          /\ \A c \in g.bitmap : k.header[c] = g.header[c]
      BY <1>2 DEF MemoryType
    <2>6. g.bitmap \subseteq 0..(at - back) - 1
      <3>1. \A c \in g.bitmap : c \in Nat /\ c < g.free_zone  BY <1>2, <1>3 DEF Accounts
      <3>2. \A c \in g.bitmap : c \notin at..at + fwd - 1 /\ c \notin at - back..at - 1
        BY <1>4, <1>5
      <3> QED  BY <1>3, <1>4, <1>5, <1>7, <3>1, <3>2
    <2> HIDE DEF k
    <2>7. Accounts(k, used) /\ Rests(k, r)  BY <1>2, <2>3, <2>4, <2>5, <2>6, SameBlocks
    <2> QED  BY <2>2, <2>4, <2>7
  <1>8. CASE ~ (at + fwd >= g.free_zone)
    <2> DEFINE k == [g EXCEPT !.header[at] = -fwd]
               q == FileHint(k, fwd + back, at + fwd - (fwd + back))
    <2>1. Drained(m) = IF fwd = fwd + back THEN q ELSE FileHint(q, fwd, at)
      BY <1>1, <1>8 DEF insertFreeLocation
    <2>2. k \in MemoryType
      <3>1. -fwd \in -(MaxCells + 1)..MaxCells  BY <1>3, <1>4
      <3>2. [g.header EXCEPT ![at] = -fwd] \in [Cell -> -(MaxCells + 1)..MaxCells]
        BY <1>2, <3>1 DEF MemoryType
      <3> QED  BY <1>2, <3>2 DEF MemoryType
    <2>3. /\ k.bitmap = g.bitmap /\ k.dont_allocate = g.dont_allocate
          /\ k.free_zone = g.free_zone /\ k.end_address = g.end_address
          /\ k.end_address >= g.end_address
          /\ \A c \in g.bitmap : k.header[c] = g.header[c]
      BY <1>2 DEF MemoryType
    <2> HIDE DEF k
    <2>4. Accounts(k, used) /\ Rests(k, r)  BY <1>2, <2>2, <2>3, SameAccount
    <2>5. fwd + back \in Nat \ {0} /\ at + fwd - (fwd + back) \in 0..MaxCells
          /\ fwd \in Nat \ {0}
      BY <1>3, <1>4, <1>5, <1>6
    <2>6. q \in MemoryType /\ Accounts(q, used) /\ Rests(q, r)
      BY <2>2, <2>4, <2>5, FileHintKeeps
    <2> HIDE DEF q
    <2>7. LET p == FileHint(q, fwd, at)
          IN  p \in MemoryType /\ Accounts(p, used) /\ Rests(p, r)
      BY <1>3, <2>5, <2>6, FileHintKeeps
    <2> QED  BY <2>1, <2>6, <2>7
  <1> QED  BY <1>7, <1>8

\* A block that incrementTime takes off the queue has waited its time.
LEMMA WaitOver ==
  ASSUME NEW m \in MemoryType, ~ (m.dont_allocate = <<>> \/ Head(m.dont_allocate).age < Wait)
  PROVE  m.dont_allocate[1].age = Wait
  <1>1. m.dont_allocate \in Seq([at : Cell, age : 0..Wait])  BY DEF MemoryType
  <1>2. 1 \in Queued(m) /\ Head(m.dont_allocate) = m.dont_allocate[1]
    BY <1>1, EmptySeq DEF Queued
  <1>3. m.dont_allocate[1].age \in 0..Wait  BY <1>2, QueueType
  <1> QED  BY <1>2, <1>3, NVAssumption

\* incrementTime takes at most the head of dont_allocate off it, once it has
\* waited its time, and clears the bits of that block alone.
LEMMA IncrementTimeKeeps ==
  ASSUME NEW m \in MemoryType, NEW used, NEW r, Accounts(m, used), Rests(m, r)
  PROVE  LET g == incrementTime(m)
         IN  g \in MemoryType /\ Accounts(g, used) /\ Rests(g, r)
  <1>1. CASE m.dont_allocate = <<>> \/ Head(m.dont_allocate).age < Wait
    BY <1>1 DEF incrementTime
  <1>2. CASE ~ (m.dont_allocate = <<>> \/ Head(m.dont_allocate).age < Wait)
    <2>1. m.dont_allocate[1].age = Wait  BY <1>2, WaitOver
    <2>2. incrementTime(m) = Drained(m)  BY <1>2 DEF incrementTime
    <2> QED  BY <1>2, <2>1, <2>2, DrainedKeeps
  <1> QED  BY <1>1, <1>2

\* A block that is freed joins the queue with an age of 0.
LEMMA PutInDNAListKeeps ==
  ASSUME NEW m \in MemoryType, NEW used, NEW r, Accounts(m, used), Rests(m, r),
         NEW b \in used
  PROVE  LET g == putInDNAList(m, b.at)
         IN  /\ g \in MemoryType /\ Accounts(g, used \ {b})
             /\ Rests(g, [c \in Cell |-> IF c \in Cells(b) THEN 0 ELSE r[c]])
  <1> DEFINE at == b.at
             n  == [at |-> at, age |-> 0]
             Q  == m.dont_allocate
             g  == [m EXCEPT !.header[at] = -(m.header[at] + 1), !.dont_allocate = Append(Q, n)]
             r2 == [c \in Cell |-> IF c \in Cells(b) THEN 0 ELSE r[c]]
  <1>1. g = putInDNAList(m, at)  BY DEF putInDNAList
  <1>2. /\ at \in Cell /\ at \in Nat /\ b.size \in 1..MaxSize /\ m.header[at] = b.size
        /\ Cells(b) \subseteq m.bitmap /\ m.bitmap \subseteq Cell /\ b \in Blocks
        /\ b = [at |-> at, size |-> b.size]
    BY DEF Accounts, MemoryType, Blocks, Cell
  <1>3. MaxCells \in Nat /\ MaxSize \in Nat /\ Wait \in Nat  BY NVAssumption
  <1>4. at \in Cells(b) /\ at + b.size - 1 \in Cells(b)  BY <1>2, <1>3 DEF Cells
  <1>5. b.size \in 1..MaxCells
    <2>1. at + b.size - 1 \in Cell  BY <1>2, <1>4
    <2> QED  BY <1>2, <1>3, <2>1 DEF Cell
  <1>6. n \in [at : Cell, age : 0..Wait]  BY <1>2, <1>3
  <1>7. /\ Q \in Seq([at : Cell, age : 0..Wait]) /\ Len(Q) \in Nat
        /\ Append(Q, n) \in Seq([at : Cell, age : 0..Wait]) /\ Len(Append(Q, n)) = Len(Q) + 1
        /\ \A i \in 1..Len(Q) : Append(Q, n)[i] = Q[i]
        /\ Append(Q, n)[Len(Q) + 1] = n
    <2>1. Q \in Seq([at : Cell, age : 0..Wait])  BY DEF MemoryType
    <2> HIDE DEF Q, n
    <2> QED  BY <1>6, <2>1, AppendProperties, LenProperties
  <1>8. -(m.header[at] + 1) \in -(MaxCells + 1)..MaxCells  BY <1>2, <1>3, <1>5
  <1>9. g \in MemoryType  BY <1>2, <1>7, <1>8 DEF MemoryType
  <1>10. /\ g.bitmap = m.bitmap /\ g.dont_allocate = Append(Q, n)
         /\ g.free_zone = m.free_zone /\ g.end_address = m.end_address
         /\ g.header[at] = -(b.size + 1) /\ \A c \in Cell \ {at} : g.header[c] = m.header[c]
    BY <1>2 DEF MemoryType
  <1>11. Queued(m) = 1..Len(Q) /\ Queued(g) = 1..Len(Q) + 1
    BY <1>7, <1>10 DEF Queued
  <1>12. \A i \in Queued(m) : m.dont_allocate[i].at \in Cell \ {at}
    <2>1. TAKE i \in Queued(m)
    <2>2. Cells(b) \cap Cells(QueuedAt(m, i)) = {} /\ QueuedAt(m, i).size \in 1..MaxCells
      BY DEF Accounts
    <2>3. m.dont_allocate[i].at \in Nat /\ QueuedAt(m, i).at = m.dont_allocate[i].at
          /\ m.dont_allocate[i].at \in Cell
      BY QueueType
    <2>4. m.dont_allocate[i].at \in Cells(QueuedAt(m, i))  BY <2>2, <2>3 DEF Cells
    <2> QED  BY <1>4, <2>2, <2>3, <2>4
  <1> HIDE DEF g, n, Q
  <1>13. \A i \in Queued(m) : /\ QueuedAt(g, i) = QueuedAt(m, i)
                             /\ g.dont_allocate[i] = m.dont_allocate[i]
    BY SMTT(30), <1>7, <1>10, <1>11, <1>12 DEF QueuedAt, Q
  <1>14. /\ QueuedAt(g, Len(Q) + 1) = b /\ g.dont_allocate[Len(Q) + 1] = n
         /\ \A i \in Queued(g) : i \in Queued(m) \/ i = Len(Q) + 1
    <2>1. g.dont_allocate[Len(Q) + 1] = n  BY <1>7, <1>10
    <2>2. n.at = at /\ -g.header[at] - 1 = b.size  BY <1>2, <1>3, <1>10 DEF n
    <2>3. QueuedAt(g, Len(Q) + 1) = [at |-> at, size |-> b.size]
      BY <2>1, <2>2 DEF QueuedAt
    <2>4. \A i \in Queued(g) : i \in Queued(m) \/ i = Len(Q) + 1  BY <1>7, <1>11
    <2> QED  BY <1>2, <2>1, <2>3, <2>4
  <1>15. Accounts(g, used \ {b})
    <2>1. \A d \in used \ {b} : d.at \in Cell \ {at}
      <3>1. TAKE d \in used \ {b}
      <3>2. Cells(b) \cap Cells(d) = {}  BY DEF Accounts
      <3>3. d.at \in Cell /\ d.at \in Nat /\ d.size \in Nat \ {0}  BY DEF Accounts, Blocks, Cell
      <3>4. d.at \in Cells(d)  BY <3>3 DEF Cells
      <3> QED  BY <1>4, <3>2, <3>3, <3>4
    <2>2. \A d \in used \ {b} : g.header[d.at] = d.size  BY <1>10, <2>1 DEF Accounts
    <2>3. \A i \in Queued(g) : QueuedAt(g, i).size \in 1..MaxCells
      BY <1>5, <1>13, <1>14 DEF Accounts
    <2>4. \A i \in Queued(g) : Cells(QueuedAt(g, i)) \subseteq g.bitmap
      BY <1>2, <1>10, <1>13, <1>14 DEF Accounts
    <2>5. \A c \in g.bitmap : \/ \E d \in used \ {b} : c \in Cells(d)
                              \/ \E i \in Queued(g) : c \in Cells(QueuedAt(g, i))
      <3>1. TAKE c \in g.bitmap
      <3>2. Len(Q) + 1 \in Queued(g) /\ \A i \in Queued(m) : i \in Queued(g)  BY <1>7, <1>11
      <3>3. CASE c \in Cells(b)  BY <1>14, <3>2, <3>3
      <3>4. CASE c \notin Cells(b)  BY <1>10, <1>13, <3>2, <3>4 DEF Accounts
      <3> QED  BY <3>3, <3>4
    <2>6. \A d \in used \ {b}, i \in Queued(g) : Cells(d) \cap Cells(QueuedAt(g, i)) = {}
      BY <1>13, <1>14 DEF Accounts
    <2>7. \A i, j \in Queued(g) : i # j => Cells(QueuedAt(g, i)) \cap Cells(QueuedAt(g, j)) = {}
      BY <1>13, <1>14 DEF Accounts
    <2> QED  BY <1>10, <2>2, <2>3, <2>4, <2>5, <2>6, <2>7 DEF Accounts
  <1>16. Rests(g, r2)
    <2>1. r2 \in [Cell -> 0..Wait]  BY <1>3 DEF Rests
    <2>2. \A c \in Cell \ g.bitmap : r2[c] = Wait  BY <1>2, <1>10 DEF Rests
    <2>3. ASSUME NEW i \in Queued(g), NEW c \in Cells(QueuedAt(g, i))
          PROVE  r2[c] >= g.dont_allocate[i].age
      <3>1. CASE i = Len(Q) + 1
        <4>1. c \in Cell  BY <1>2, <1>14, <3>1
        <4> QED  BY <1>14, <2>1, <3>1, <4>1 DEF n
      <3>2. CASE i \in Queued(m)
        <4>1. c \in Cells(QueuedAt(m, i)) /\ c \notin Cells(b) /\ c \in Cell
          BY <1>2, <1>13, <3>2 DEF Accounts
        <4> QED  BY <1>13, <3>2, <4>1 DEF Rests
      <3> QED  BY <1>14, <3>1, <3>2
    <2> QED  BY <2>1, <2>2, <2>3 DEF Rests
  <1> QED  BY <1>1, <1>9, <1>15, <1>16

-----------------------------------------------------------------------------
\* The operators of the code give the next state.
LEMMA BecomesMemory ==
  ASSUME NEW m \in MemoryType, Becomes(m)
  PROVE  Memory' = m
  BY DEF Becomes, Memory, MemoryType

\* Nothing is allocated, freed or waiting when the program starts.
LEMMA InitIInv == Init => IInv
  <1> SUFFICES ASSUME Init  PROVE IInv  OBVIOUS
  <1>1. /\ InitCells \in Nat /\ MaxCells \in Nat /\ InitCells <= MaxCells /\ Wait \in Nat
        /\ NR_SIZES \in Nat
    BY NVAssumption
  <1>2. <<>> \in Seq(0..MaxCells) /\ <<>> \in Seq([at : Cell, age : 0..Wait]) /\ Len(<<>>) = 0
    OBVIOUS
  <1>3. Memory \in MemoryType  BY <1>1, <1>2 DEF Init, Memory, MemoryType
  <1>4. Queued(Memory) = {}  BY <1>2 DEF Init, Memory, Queued
  <1>5. /\ Memory.bitmap = {} /\ Memory.free_zone = 0 /\ Memory.end_address = InitCells
        /\ live = {} /\ rested = [c \in Cell |-> Wait]
    BY DEF Init, Memory
  <1>6. Accounts(Memory, live)  BY <1>1, <1>4, <1>5 DEF Accounts
  <1>7. Rests(Memory, rested)  BY <1>1, <1>4, <1>5 DEF Rests
  <1> QED  BY <1>3, <1>6, <1>7 DEF IInv

\* A step adds block b, whose cells are free and have rested long enough.
Adds(b) ==
  /\ b \in Blocks
  /\ live' = live \cup {b}
  /\ \A c \in live : Cells(b) \cap Cells(c) = {}
  /\ \A c \in Cells(b) : rested[c] = Wait

\* What nvmalloc does once it has found a block keeps the invariant.
LEMMA AllocateKeeps ==
  ASSUME NEW m \in MemoryType, Accounts(m, live), Rests(m, rested),
         NEW b \in Blocks, \A c \in Cells(b) : c \in Cell \ m.bitmap /\ c < m.free_zone,
         NEW d \in 0..Wait, Allocate(m, b, d)
  PROVE  IInv' /\ Adds(b)
  <1> DEFINE o == Occupied(m, b)
             e == Elapsed(o, d)
             i == incrementTime(e)
             r == [c \in Cell |-> Later(rested[c], d)]
  <1>1. o \in MemoryType /\ Accounts(o, live \cup {b}) /\ Rests(o, rested)
    BY OccupiedAccounts
  <1>2. Becomes(i) /\ live' = live \cup {b} /\ rested' = r  BY DEF Allocate
  <1> HIDE DEF o
  <1>3. e \in MemoryType /\ Accounts(e, live \cup {b}) /\ Rests(e, r)
    BY <1>1, ElapsedKeeps
  <1> HIDE DEF e, r
  <1>4. i \in MemoryType /\ Accounts(i, live \cup {b}) /\ Rests(i, r)
    BY <1>3, IncrementTimeKeeps
  <1> HIDE DEF i
  <1>5. Memory' = i  BY <1>2, <1>4, BecomesMemory
  <1>6. IInv'  BY <1>2, <1>4, <1>5 DEF IInv
  <1>7. \A c \in live : Cells(b) \cap Cells(c) = {}  BY DEF Accounts
  <1>8. \A c \in Cells(b) : rested[c] = Wait  BY DEF Rests
  <1> QED  BY <1>2, <1>6, <1>7, <1>8 DEF Adds

\* The first of the hints is one of them, and no other comes before it.
LEMMA FirstOfIn ==
  ASSUME NEW S \in SUBSET (Nat \X Nat), S # {}
  PROVE  /\ FirstOf(S) \in S
         /\ \A g \in S : FirstOf(S)[1] < g[1] \/ (FirstOf(S)[1] = g[1] /\ FirstOf(S)[2] <= g[2])
  <1> DEFINE L == {h[1] : h \in S}
  <1>1. L \in SUBSET Nat /\ L # {}  OBVIOUS
  <1>2. PICK l \in L : \A k \in L : l <= k
    <2> HIDE DEF L
    <2> QED  BY <1>1, LeastNat
  <1> DEFINE I == {h[2] : h \in {g \in S : g[1] = l}}
  <1>3. I \in SUBSET Nat /\ I # {}  BY <1>2
  <1>4. PICK i \in I : \A k \in I : i <= k
    <2> HIDE DEF I
    <2> QED  BY <1>3, LeastNat
  <1>5. PICK h \in S : h[1] = l /\ h[2] = i  BY <1>4
  <1>6. \A g \in S : h[1] < g[1] \/ (h[1] = g[1] /\ h[2] <= g[2])
    <2>1. TAKE g \in S
    <2>2. g[1] \in Nat /\ g[2] \in Nat /\ h[1] \in Nat  OBVIOUS
    <2>3. g[1] \in L  OBVIOUS
    <2>4. l <= g[1]  BY <1>2, <2>3
    <2>5. g[1] = l => g[2] \in I  OBVIOUS
    <2>6. g[1] = l => i <= g[2]  BY <1>4, <2>5
    <2> QED  BY <1>5, <2>2, <2>4, <2>6
  <1> QED  BY <1>6 DEF FirstOf

\* A hint that fits is the place of an entry in one of the lists that a search
\* looks at, and every such entry that leads to a large enough region fits.
LEMMA FittingHint ==
  ASSUME NEW m \in MemoryType, NEW n \in Nat \ {0}
  PROVE  /\ Fitting(m, n) \in SUBSET (Nat \X Nat)
         /\ \A h \in Fitting(m, n) :
              /\ h[1] \in getBestFit(n)..NR_SIZES + 1 /\ h[1] \in 1..NR_SIZES + 1
              /\ h[2] \in 1..Len(m.free_lists[h[1]])
              /\ m.free_lists[h[1]][h[2]] \in 0..MaxCells
              /\ Region(m, m.free_lists[h[1]][h[2]]).size >= n
         /\ \A l \in getBestFit(n)..NR_SIZES + 1 : \A i \in 1..Len(m.free_lists[l]) :
              Region(m, m.free_lists[l][i]).size >= n => <<l, i>> \in Fitting(m, n)
  <1>1. /\ getBestFit(n) \in 1..NR_SIZES + 1 /\ NR_SIZES \in Nat
        /\ getBestFit(n)..NR_SIZES + 1 \subseteq 1..NR_SIZES + 1
    BY BestFit, NVAssumption
  <1>2. \A l \in 1..NR_SIZES + 1 : /\ m.free_lists[l] \in Seq(0..MaxCells)
                                   /\ DOMAIN m.free_lists[l] = 1..Len(m.free_lists[l])
                                   /\ Len(m.free_lists[l]) \in Nat
    <2>1. \A l \in 1..NR_SIZES + 1 : m.free_lists[l] \in Seq(0..MaxCells)  BY DEF MemoryType
    <2> QED  BY <2>1, LenProperties
  <1>3. \A h \in Hints(m, n) : /\ h \in Nat \X Nat
                               /\ h[1] \in getBestFit(n)..NR_SIZES + 1
                               /\ h[2] \in 1..Len(m.free_lists[h[1]])
    <2>1. TAKE h \in Hints(m, n)
    <2>2. PICK l \in getBestFit(n)..NR_SIZES + 1 : h \in {l} \X DOMAIN m.free_lists[l]
      BY DEF Hints
    <2>3. h[1] = l /\ h[2] \in 1..Len(m.free_lists[l]) /\ h = <<h[1], h[2]>>
      BY SMTT(30), <1>1, <1>2, <2>2
    <2>4. h[1] \in Nat /\ h[2] \in Nat  BY <1>1, <1>2, <2>3
    <2> QED  BY <2>3, <2>4
  <1>4. \A l \in getBestFit(n)..NR_SIZES + 1 : \A i \in 1..Len(m.free_lists[l]) :
          <<l, i>> \in Hints(m, n)
    <2>1. SUFFICES ASSUME NEW l \in getBestFit(n)..NR_SIZES + 1,
                          NEW i \in 1..Len(m.free_lists[l])
                   PROVE  <<l, i>> \in Hints(m, n)
      OBVIOUS
    <2>2. <<l, i>> \in {l} \X DOMAIN m.free_lists[l]  BY <1>1, <1>2
    <2> QED  BY <2>2 DEF Hints
  <1>5. \A h \in Fitting(m, n) : /\ h \in Hints(m, n)
                                 /\ Region(m, m.free_lists[h[1]][h[2]]).size >= n
    BY DEF Fitting
  <1>6. \A h \in Fitting(m, n) : m.free_lists[h[1]][h[2]] \in 0..MaxCells
    <2>1. TAKE h \in Fitting(m, n)
    <2>2. h[1] \in 1..NR_SIZES + 1 /\ h[2] \in 1..Len(m.free_lists[h[1]])
      BY <1>1, <1>3, <1>5
    <2> QED  BY <1>2, <2>2, ElementOfSeq
  <1>7. \A l \in getBestFit(n)..NR_SIZES + 1 : \A i \in 1..Len(m.free_lists[l]) :
          Region(m, m.free_lists[l][i]).size >= n => <<l, i>> \in Fitting(m, n)
    BY SMTT(30), <1>4 DEF Fitting
  <1> QED  BY <1>1, <1>3, <1>5, <1>6, <1>7

\* The hints a search looks at, and the region the chosen one leads to.
LEMMA FittingRegion ==
  ASSUME NEW m \in MemoryType, NEW n \in Nat \ {0}, Fitting(m, n) # {}
  PROVE  LET h == FirstOf(Fitting(m, n))
             r == Region(m, m.free_lists[h[1]][h[2]])
         IN  /\ h \in Nat \X Nat /\ m.free_lists[h[1]][h[2]] \in 0..MaxCells
             /\ r.at \in Nat /\ r.size \in Nat /\ r.size >= n
             /\ \A c \in r.at..r.at + r.size - 1 : c \in Cell \ m.bitmap /\ c < m.free_zone
  <1> DEFINE h == FirstOf(Fitting(m, n))
             p == m.free_lists[h[1]][h[2]]
  <1>1. Fitting(m, n) \in SUBSET (Nat \X Nat)  BY FittingHint
  <1>2. h \in Fitting(m, n)  BY <1>1, FirstOfIn
  <1> HIDE DEF h
  <1>3. h \in Nat \X Nat /\ p \in 0..MaxCells /\ Region(m, p).size >= n
    BY <1>1, <1>2, FittingHint
  <1> HIDE DEF p
  <1>4. LET r == Region(m, p)
        IN  /\ r.at \in Nat /\ r.size \in Nat
            /\ \A c \in r.at..r.at + r.size - 1 : c \in Cell \ m.bitmap /\ c < m.free_zone
    BY <1>3, RegionFree
  <1> QED  BY <1>3, <1>4 DEF h, p

\* nvmalloc from a listed region: the block it returns overlaps none in use.
LEMMA MallocRegionStep ==
  ASSUME IInv, NEW n \in 1..MaxSize, NEW d \in 0..Wait, MallocRegion(n, d)
  PROVE  IInv' /\ \E b \in Blocks : Adds(b)
  <1> DEFINE h == FirstOf(Fitting(Memory, n))
             r == Region(Memory, Memory.free_lists[h[1]][h[2]])
             m == Dropped(Memory, n, h)
             g == TakeFrom(m, r, n)
             b == [at |-> r.at, size |-> n]
  <1>1. MaxSize \in Nat /\ MaxCells \in Nat  BY NVAssumption
  <1>2. n \in Nat \ {0}  BY <1>1
  <1>3. Memory \in MemoryType /\ Accounts(Memory, live) /\ Rests(Memory, rested)  BY DEF IInv
  <1>4. Memory.free_lists = free_lists  BY DEF Memory
  <1>5. Fitting(Memory, n) # {} /\ Allocate(g, b, d)  BY <1>4 DEF MallocRegion
  <1>6. /\ h \in Nat \X Nat /\ r.at \in Nat /\ r.size \in Nat /\ r.size >= n
        /\ \A c \in r.at..r.at + r.size - 1 : c \in Cell \ Memory.bitmap /\ c < Memory.free_zone
    BY <1>2, <1>3, <1>5, FittingRegion, Zenon
  <1> HIDE DEF h, r
  <1>7. /\ m \in MemoryType /\ m.bitmap = Memory.bitmap /\ m.free_zone = Memory.free_zone
        /\ Accounts(m, live) /\ Rests(m, rested)
    BY <1>2, <1>3, <1>6, DroppedKeeps
  <1> HIDE DEF m
  <1>8. /\ g \in MemoryType /\ g.bitmap = m.bitmap /\ g.free_zone = m.free_zone
        /\ Accounts(g, live) /\ Rests(g, rested)
    <2>1. \A c \in r.at..r.at + r.size - 1 : c \in Cell \ m.bitmap  BY <1>6, <1>7
    <2> QED  BY <1>2, <1>6, <1>7, <2>1, TakeFromKeeps
  <1> HIDE DEF g
  <1>9. b.at = r.at /\ b.size = n  OBVIOUS
  <1>10. \A c \in Cells(b) : c \in Cell \ g.bitmap /\ c < g.free_zone
    <2>1. \A c \in Cells(b) : c \in r.at..r.at + r.size - 1  BY <1>2, <1>6, <1>9 DEF Cells
    <2> QED  BY <1>6, <1>7, <1>8, <2>1
  <1>11. b \in Blocks
    <2>1. r.at \in Cells(b)  BY <1>2, <1>6, <1>9 DEF Cells
    <2>2. r.at \in Cell  BY <1>10, <2>1
    <2> QED  BY <2>2 DEF Blocks
  <1> HIDE DEF b
  <1> QED  BY <1>5, <1>8, <1>10, <1>11, AllocateKeeps

\* The loss of hints leaves bits, free zone and headers alone.
LEMMA DroppedBits ==
  ASSUME NEW m \in MemoryType, NEW n, NEW h
  PROVE  LET g == Dropped(m, n, h)
         IN  g.bitmap = m.bitmap /\ g.free_zone = m.free_zone /\ g.header = m.header
  BY DEF Dropped, MemoryType

\* The search that finds nothing drops every hint it looks at.
LEMMA SearchedKeeps ==
  ASSUME IInv, NEW n \in 1..MaxSize
  PROVE  LET g == Searched(n)
         IN  /\ g \in MemoryType /\ g.bitmap = bitmap /\ g.free_zone = free_zone
             /\ g.end_address = end_address /\ g.header = header
             /\ Accounts(g, live) /\ Rests(g, rested)
  <1>1. MaxSize \in Nat /\ NR_SIZES \in Nat  BY NVAssumption
  <1>2. n \in Nat \ {0} /\ <<NR_SIZES + 2, 0>> \in Nat \X Nat  BY <1>1
  <1>3. Memory \in MemoryType /\ Accounts(Memory, live) /\ Rests(Memory, rested)  BY DEF IInv
  <1>4. /\ Memory.bitmap = bitmap /\ Memory.free_zone = free_zone
        /\ Memory.end_address = end_address /\ Memory.header = header
    BY DEF Memory
  <1>5. Searched(n).header = header  BY <1>3, <1>4, DroppedBits DEF Searched
  <1> QED  BY <1>2, <1>3, <1>4, <1>5, DroppedKeeps DEF Searched

\* The memory once the free zone, which may grow first, has given b away.
Advanced(g, b, n) ==
  /\ g \in MemoryType /\ Accounts(g, live) /\ Rests(g, rested)
  /\ g.bitmap = bitmap /\ g.header = header /\ g.free_zone = free_zone + n
  /\ g.free_lists = Searched(n).free_lists
  /\ b \in Blocks /\ b.at = free_zone /\ b.size = n
  /\ \A c \in Cells(b) : c \in Cell \ g.bitmap /\ c < g.free_zone

\* nvmalloc from the free zone takes free cells.
LEMMA MallocZoneAdvances ==
  ASSUME IInv, NEW n \in 1..MaxSize, NEW d \in 0..Wait, MallocZone(n, d)
  PROVE  \E g, b : Advanced(g, b, n) /\ Allocate(g, b, d)
  <1> DEFINE s == Searched(n)
             m == IF free_zone + n > end_address THEN Grown(s, n) ELSE s
             g == [m EXCEPT !.free_zone = m.free_zone + n]
             b == [at |-> free_zone, size |-> n]
  <1>1. /\ MaxSize \in Nat /\ MaxCells \in Nat /\ NEW_ALLOC_PAGES \in Nat /\ InitCells \in Nat
        /\ n \in Nat \ {0}
    BY NVAssumption
  <1>2. m.end_address <= MaxCells /\ Allocate(g, b, d)  BY DEF MallocZone
  <1>3. /\ s \in MemoryType /\ s.bitmap = bitmap /\ s.free_zone = free_zone
        /\ s.end_address = end_address /\ s.header = header
        /\ Accounts(s, live) /\ Rests(s, rested)
    BY SearchedKeeps
  <1> HIDE DEF s
  <1>4. /\ free_zone \in Nat /\ end_address \in InitCells..MaxCells /\ end_address \in Nat
    BY <1>1, <1>3 DEF MemoryType
  <1>5. /\ m.bitmap = bitmap /\ m.header = s.header /\ m.dont_allocate = s.dont_allocate
        /\ m.free_zone = free_zone /\ m.free_lists = s.free_lists
        /\ m.end_address \in Nat /\ end_address <= m.end_address /\ free_zone + n <= m.end_address
        /\ m = [s EXCEPT !.end_address = m.end_address]
    <2> DEFINE S == {NEW_ALLOC_PAGES, n}
    <2>1. S \in SUBSET Int /\ S # {} /\ \A y \in S : y <= NEW_ALLOC_PAGES + n
          /\ NEW_ALLOC_PAGES + n \in Int
      BY <1>1
    <2>2. Max(S) \in Nat /\ n <= Max(S)
      <3>1. Max(S) \in S /\ \A y \in S : y <= Max(S)
        <4> HIDE DEF S
        <4> QED  BY <2>1, MaxOfSet
      <3> QED  BY <1>1, <3>1
    <2> HIDE DEF S
    <2>3. CASE free_zone + n > end_address
      <3>1. m = [s EXCEPT !.end_address = end_address + Max(S)]
        BY <1>3, <2>3 DEF Grown, S
      <3>2. free_zone <= end_address  BY <1>3 DEF Accounts
      <3> HIDE DEF m
      <3> QED  BY <1>1, <1>3, <1>4, <2>2, <3>1, <3>2 DEF MemoryType
    <2>4. CASE ~ (free_zone + n > end_address)
      BY <1>1, <1>3, <1>4, <2>4 DEF MemoryType
    <2> QED  BY <2>3, <2>4
  <1> HIDE DEF m
  <1>6. m.end_address \in InitCells..MaxCells  BY <1>1, <1>2, <1>4, <1>5
  <1>7. free_zone + n \in 0..MaxCells  BY <1>1, <1>2, <1>4, <1>5
  <1>8. g \in MemoryType  BY <1>3, <1>5, <1>6, <1>7 DEF MemoryType
  <1>9. /\ g.bitmap = bitmap /\ g.header = s.header /\ g.dont_allocate = s.dont_allocate
        /\ g.free_zone = free_zone + n /\ g.end_address = m.end_address
        /\ g.free_lists = s.free_lists
    BY <1>3, <1>5 DEF MemoryType
  <1> HIDE DEF g
  <1>10. bitmap \subseteq 0..free_zone - 1  BY <1>3 DEF Accounts
  <1>11. Accounts(g, live) /\ Rests(g, rested)
    <2>1. s.bitmap \subseteq 0..g.free_zone - 1  BY <1>1, <1>3, <1>4, <1>9, <1>10
    <2> QED  BY <1>3, <1>5, <1>8, <1>9, <2>1, SameBlocks
  <1>12. b.at = free_zone /\ b.size = n  OBVIOUS
  <1>13. \A c \in Cells(b) : c \in Cell \ g.bitmap /\ c < g.free_zone
    BY <1>1, <1>4, <1>7, <1>9, <1>10, <1>12 DEF Cells, Cell
  <1>14. b \in Blocks  BY <1>1, <1>4, <1>7 DEF Blocks, Cell
  <1> HIDE DEF b
  <1>15. Advanced(g, b, n)
    BY <1>3, <1>8, <1>9, <1>11, <1>12, <1>13, <1>14 DEF Advanced, s
  <1> QED  BY <1>2, <1>15

\* nvmalloc from the free zone: the block it returns overlaps none in use.
LEMMA MallocZoneStep ==
  ASSUME IInv, NEW n \in 1..MaxSize, NEW d \in 0..Wait, MallocZone(n, d)
  PROVE  IInv' /\ \E b \in Blocks : Adds(b)
  <1>1. PICK g, b : Advanced(g, b, n) /\ Allocate(g, b, d)  BY MallocZoneAdvances
  <1> QED  BY <1>1, AllocateKeeps DEF Advanced

\* nvmalloc that fails has thrown away stale hints, and nothing else.
LEMMA MallocFailsStep ==
  ASSUME IInv, NEW n \in 1..MaxSize, MallocFails(n)
  PROVE  IInv' /\ live' = live
  <1> DEFINE g == Searched(n)
  <1>1. g \in MemoryType /\ Accounts(g, live) /\ Rests(g, rested)  BY SearchedKeeps
  <1>2. Becomes(g) /\ live' = live /\ rested' = rested  BY DEF MallocFails
  <1> HIDE DEF g
  <1>3. Memory' = g  BY <1>1, <1>2, BecomesMemory
  <1> QED  BY <1>1, <1>2, <1>3 DEF IInv

\* nvfree takes the block out of use and puts it on dont_allocate.
LEMMA FreeStep ==
  ASSUME IInv, NEW b \in live, NEW d \in 0..Wait, Free(b, d)
  PROVE  IInv' /\ live' = live \ {b}
  <1> DEFINE p == putInDNAList(Memory, b.at)
             e == Elapsed(p, d)
             i == incrementTime(e)
             r0 == [c \in Cell |-> IF c \in Cells(b) THEN 0 ELSE rested[c]]
             r == [c \in Cell |-> Later(r0[c], d)]
  <1>1. Memory \in MemoryType /\ Accounts(Memory, live) /\ Rests(Memory, rested)  BY DEF IInv
  <1>2. Becomes(i) /\ live' = live \ {b} /\ rested' = r  BY DEF Free
  <1>3. p \in MemoryType /\ Accounts(p, live \ {b}) /\ Rests(p, r0)
    BY <1>1, PutInDNAListKeeps
  <1> HIDE DEF p, r0
  <1>4. e \in MemoryType /\ Accounts(e, live \ {b}) /\ Rests(e, r)
    BY <1>3, ElapsedKeeps
  <1> HIDE DEF e, r
  <1>5. i \in MemoryType /\ Accounts(i, live \ {b}) /\ Rests(i, r)
    BY <1>4, IncrementTimeKeeps
  <1> HIDE DEF i
  <1>6. Memory' = i  BY <1>2, <1>5, BecomesMemory
  <1> QED  BY <1>2, <1>5, <1>6 DEF IInv

\* What a step does: it adds a block, takes one away, or leaves them alone.
LEMMA NextStep ==
  ASSUME IInv, [Next]_vars
  PROVE  /\ IInv'
         /\ \/ \E b \in Blocks : Adds(b)
            \/ \E b \in live : live' = live \ {b}
            \/ live' = live
         /\ largest \in 0..MaxSize => largest' \in 0..MaxSize
  <1>1. ASSUME NEW n \in 1..MaxSize, NEW d \in 0..Wait, MallocRegion(n, d)
        PROVE  IInv' /\ \E b \in Blocks : Adds(b)
    BY <1>1, MallocRegionStep
  <1>2. ASSUME NEW n \in 1..MaxSize, NEW d \in 0..Wait, MallocZone(n, d)
        PROVE  IInv' /\ \E b \in Blocks : Adds(b)
    BY <1>2, MallocZoneStep
  <1>3. ASSUME NEW n \in 1..MaxSize, MallocFails(n)
        PROVE  IInv' /\ live' = live
    BY <1>3, MallocFailsStep
  <1>4. ASSUME NEW b \in live, NEW d \in 0..Wait, Free(b, d)
        PROVE  IInv' /\ live' = live \ {b}
    BY <1>4, FreeStep
  <1>5. ASSUME UNCHANGED vars  PROVE IInv' /\ live' = live
    <2>1. Memory' = Memory /\ live' = live /\ rested' = rested  BY <1>5 DEF vars, Memory
    <2> QED  BY <2>1 DEF IInv
  <1>6. largest' = largest \/ \E n \in 1..MaxSize : largest' = Larger(n)
    BY Zenon DEF Next, MallocRegion, MallocZone, MallocFails, Free, Allocate, vars
  <1>7. largest \in 0..MaxSize => largest' \in 0..MaxSize  BY <1>6, NVAssumption DEF Larger
  <1> QED  BY <1>1, <1>2, <1>3, <1>4, <1>5, <1>7 DEF Next

-----------------------------------------------------------------------------
\* The inductive invariant holds throughout.
THEOREM Invariant == Spec => []IInv
  <1>1. Init => IInv  BY InitIInv
  <1>2. IInv /\ [Next]_vars => IInv'  BY NextStep
  <1> QED  BY <1>1, <1>2, PTL DEF Spec

\* The state of nvmalloc keeps its types: bits, headers and addresses stay
\* within the memory.
THEOREM TypeCorrect == Spec => []TypeOK
  <1>1. IInv /\ largest \in 0..MaxSize => TypeOK
    <2> SUFFICES ASSUME IInv, largest \in 0..MaxSize  PROVE TypeOK  OBVIOUS
    <2>1. Memory \in MemoryType /\ Memory.free_zone <= Memory.end_address /\ live \subseteq Blocks
      BY DEF IInv, Accounts
    <2>2. /\ bitmap \subseteq Cell
          /\ header \in [Cell -> -(MaxCells + 1)..MaxCells]
          /\ free_zone \in 0..MaxCells /\ end_address \in InitCells..MaxCells
          /\ free_lists \in [1..NR_SIZES + 1 -> Seq(0..MaxCells)]
          /\ dont_allocate \in Seq([at : Cell, age : 0..Wait])
          /\ free_zone <= end_address
      BY <2>1 DEF Memory, MemoryType
    <2>3. InitCells \in Nat /\ MaxCells \in Nat  BY NVAssumption
    <2>4. free_zone \in 0..end_address  BY <2>2, <2>3
    <2> QED  BY <2>1, <2>2, <2>4 DEF TypeOK, Blocks
  <1>2. Init => largest \in 0..MaxSize  BY NVAssumption DEF Init
  <1>3. IInv /\ largest \in 0..MaxSize /\ [Next]_vars => (largest \in 0..MaxSize)'
    BY NextStep
  <1> QED  BY <1>1, <1>2, <1>3, Invariant, PTL DEF Spec

\* The bitmap, the headers and the queue agree with the blocks in use and the
\* blocks that wait: nvfree and incrementTime find the size of a block in its
\* header, and no two blocks overlap.
THEOREM Accounted == Spec => []BlocksAccounted
  <1>1. IInv => BlocksAccounted
    <2> SUFFICES ASSUME IInv  PROVE BlocksAccounted  OBVIOUS
    <2> DEFINE Q    == Queued(Memory)
               W(i) == QueuedAt(Memory, i)
    <2>1. Memory \in MemoryType /\ Accounts(Memory, live)  BY DEF IInv
    <2>2. /\ Memory.bitmap = bitmap /\ Memory.header = header
          /\ Memory.dont_allocate = dont_allocate
      BY DEF Memory
    <2>3. Len(dont_allocate) \in Nat /\ DOMAIN dont_allocate = 1..Len(dont_allocate)
      <3>1. dont_allocate \in Seq([at : Cell, age : 0..Wait])  BY <2>1, <2>2 DEF MemoryType
      <3> QED  BY <3>1, LenProperties
    <2>4. Q = 1..Len(dont_allocate)  BY <2>2 DEF Queued
    <2>5. Waiting = {W(i) : i \in Q}
      BY <2>2, <2>3, <2>4 DEF Waiting, ToSet, QueuedAt
    <2>6. \A i, j \in Q : W(i) = W(j) => i = j
      <3>1. \A i \in Q : W(i).at \in Cells(W(i))
        <4>1. TAKE i \in Q
        <4>2. W(i).at \in Nat  BY <2>1, QueueType
        <4>3. W(i).size \in 1..MaxCells  BY <2>1 DEF Accounts
        <4> QED  BY <4>2, <4>3 DEF Cells
      <3> HIDE DEF W, Q
      <3>2. \A i, j \in Q : i # j => Cells(W(i)) \cap Cells(W(j)) = {}
        BY <2>1 DEF Accounts, W, Q
      <3> QED  BY <3>1, <3>2
    <2> HIDE DEF W
    <2>7. Cardinality(Waiting) = Len(dont_allocate)
      <3> DEFINE f == [i \in Q |-> W(i)]
      <3> HIDE DEF Q
      <3>1. f \in [Q -> Waiting] /\ \A i, j \in Q : f[i] = f[j] => i = j  BY <2>5, <2>6
      <3>2. \A w \in Waiting : \E i \in Q : f[i] = w  BY <2>5
      <3> HIDE DEF f
      <3> QED  BY <2>3, <2>4, <3>1, <3>2, CountedSet
    <2>8. /\ \A b \in live : header[b.at] = b.size
          /\ bitmap = UNION {Cells(b) : b \in live \cup Waiting}
      <3>1. \A b \in live : header[b.at] = b.size  BY <2>1, <2>2 DEF Accounts
      <3>2. \A b \in live \cup Waiting : Cells(b) \subseteq bitmap
        BY <2>1, <2>2, <2>5 DEF Accounts, W
      <3>3. \A c \in bitmap : \E b \in live \cup Waiting : c \in Cells(b)
        BY <2>1, <2>2, <2>5 DEF Accounts, W
      <3> QED  BY <3>1, <3>2, <3>3
    <2>9. \A b, c \in live \cup Waiting : b # c => Cells(b) \cap Cells(c) = {}
      <3>1. \A b, c \in live : b # c => Cells(b) \cap Cells(c) = {}  BY <2>1 DEF Accounts
      <3>2. \A b \in live, c \in Waiting : Cells(b) \cap Cells(c) = {}
        BY <2>1, <2>5 DEF Accounts, W
      <3>3. \A b, c \in Waiting : b # c => Cells(b) \cap Cells(c) = {}
        BY <2>1, <2>5 DEF Accounts, W
      <3> QED  BY <3>1, <3>2, <3>3
    <2> QED  BY <2>7, <2>8, <2>9 DEF BlocksAccounted
  <1> QED  BY <1>1, Invariant, PTL

\* No cell is allocated again before dont_allocate_wait is over since it was
\* freed, whatever splits and merges happened in between.
THEOREM Rested == Spec => RestsBeforeReuse
  <1>1. IInv /\ [Next]_vars => [\A b \in live' \ live : \A c \in Cells(b) : rested[c] = Wait]_vars
    BY NextStep DEF Adds
  <1> QED  BY <1>1, Invariant, PTL DEF Spec, RestsBeforeReuse

\* nvmalloc and nvfree implement BlockAllocator: a block handed out shares no
\* cell with a block in use.
THEOREM Implements == Spec => ImplementsBlockAllocator
  <1> DEFINE inUse == [t \in {"caller"} |-> live]
  <1>1. Init => Abstract!Init  BY DEF Init, Abstract!Init
  <1>2. IInv /\ [Next]_vars => [Abstract!Next]_inUse
    <2> SUFFICES ASSUME IInv, [Next]_vars  PROVE [Abstract!Next]_inUse  OBVIOUS
    <2>1. CASE \E b \in Blocks : Adds(b)
      <3>1. PICK b \in Blocks : Adds(b)  BY <2>1
      <3>2. inUse' = [inUse EXCEPT !["caller"] = @ \cup {b}]  BY <3>1 DEF Adds
      <3>3. \A u \in {"caller"} : \A c \in inUse[u] : Cells(b) \cap Cells(c) = {}
        BY <3>1 DEF Adds
      <3> QED  BY <3>2, <3>3 DEF Abstract!Next, Abstract!Malloc
    <2>2. CASE \E b \in live : live' = live \ {b}
      <3>1. PICK b \in live : live' = live \ {b}  BY <2>2
      <3>2. inUse' = [inUse EXCEPT !["caller"] = @ \ {b}] /\ b \in inUse["caller"]  BY <3>1
      <3> QED  BY <3>2 DEF Abstract!Next, Abstract!Free
    <2>3. CASE live' = live  BY <2>3
    <2> QED  BY <2>1, <2>2, <2>3, NextStep
  <1> QED  BY <1>1, <1>2, Invariant, PTL DEF Spec, ImplementsBlockAllocator, Abstract!Spec

-----------------------------------------------------------------------------
\* The place behind a free block, as its header has it.
After(m, c) == c - m.header[c]

\* T has the places of the headers that tile the free regions: one at the
\* start of every region, and behind each free block another or a bit.
Tiling(m, T) ==
  /\ m.free_zone > 0 => m.free_zone - 1 \in m.bitmap
  /\ T \subseteq 0..m.free_zone - 1
  /\ T \cap m.bitmap = {}
  /\ \A c \in 0..m.free_zone - 1 \ m.bitmap : c = 0 \/ c - 1 \in m.bitmap => c \in T
  /\ \A c \in T : /\ m.header[c] < 0
                  /\ After(m, c) \in T \cup m.bitmap
                  /\ \A x \in c..After(m, c) - 1 : x \notin m.bitmap

\* Some set of headers tiles the free regions.
TInv == \E T : Tiling(Memory, T)

\* The step of Walk, from the header of a free block to the place behind it.
Jumped(m, r, c) == IF c < r.at + r.size /\ m.header[c] < 0 THEN c - m.header[c] ELSE c

WalksBySteps(m, r, f) ==
  f = [i \in 0..r.size |-> IF i = 0 THEN r.at ELSE Jumped(m, r, f[i - 1])]

Walks(m, r, f) ==
  f = [i \in 0..r.size |->
         IF i = 0 THEN r.at
         ELSE CHOOSE c \in {IF p < r.at + r.size /\ m.header[p] < 0 THEN p - m.header[p] ELSE p :
                              p \in {f[i - 1]}} : TRUE]

\* The choice in Walk is of the one place there is.
LEMMA WalksStep ==
  ASSUME NEW m, NEW r, NEW f
  PROVE  Walks(m, r, f) <=> WalksBySteps(m, r, f)
  <1>1. \A q : (CHOOSE c \in {IF p < r.at + r.size /\ m.header[p] < 0 THEN p - m.header[p] ELSE p :
                                p \in {q}} : TRUE) = Jumped(m, r, q)
    <2>1. TAKE q
    <2>2. {IF p < r.at + r.size /\ m.header[p] < 0 THEN p - m.header[p] ELSE p : p \in {q}}
            = {Jumped(m, r, q)}
      BY DEF Jumped
    <2> QED  BY <2>2
  <1> QED  BY <1>1 DEF Walks, WalksBySteps

\* The walk over a free region that starts at a header of the tiling passes
\* only headers of the tiling, and ends with the region.
LEMMA TilingWalk ==
  ASSUME NEW m \in MemoryType, NEW T, Tiling(m, T),
         NEW r, r.at \in T, r.size \in Nat,
         r.at + r.size \in m.bitmap,
         \A c \in r.at..r.at + r.size - 1 : c \notin m.bitmap
  PROVE  Tiled(m, r) /\ \A c \in Walk(m, r) : c \in T \/ c = r.at + r.size
  <1> DEFINE n  == r.size
             z  == r.at + n
             S  == {c \in T : r.at <= c /\ c < z} \cup {z}
             F  == [c \in S |-> Jumped(m, r, c)]
             up == CHOOSE f : f = [i \in 0..r.size |->
                     IF i = 0 THEN r.at
                     ELSE CHOOSE c \in {IF p < r.at + r.size /\ m.header[p] < 0 THEN p - m.header[p] ELSE p :
                                          p \in {f[i - 1]}} : TRUE]
  <1>1. /\ MaxCells \in Nat /\ m.free_zone \in Nat /\ T \subseteq Nat /\ m.bitmap \subseteq Nat
        /\ r.at \in Nat /\ n \in Nat /\ z \in Nat /\ T \subseteq Cell
        /\ \A c \in Cell : m.header[c] \in Int
    <2>1. MaxCells \in Nat  BY NVAssumption
    <2>2. m.free_zone \in 0..MaxCells /\ m.bitmap \subseteq Cell
          /\ m.header \in [Cell -> -(MaxCells + 1)..MaxCells]
      BY DEF MemoryType
    <2>3. T \subseteq 0..m.free_zone - 1  BY DEF Tiling
    <2>4. T \subseteq Cell  BY <2>1, <2>2, <2>3 DEF Cell
    <2>5. m.free_zone \in Nat /\ m.bitmap \subseteq Nat /\ T \subseteq Nat
          /\ \A c \in Cell : m.header[c] \in Int
      BY <2>1, <2>2, <2>4 DEF Cell
    <2>6. r.at \in Nat /\ n \in Nat  BY <2>5
    <2>7. z \in Nat  BY <2>6
    <2> HIDE DEF n, z
    <2> QED  BY <2>1, <2>4, <2>5, <2>6, <2>7
  <1>2. \A c \in S : /\ c \in Nat /\ c <= z /\ Jumped(m, r, c) \in S
                     /\ c = z => Jumped(m, r, c) = z
                     /\ c # z => Jumped(m, r, c) > c
    <2>1. SUFFICES ASSUME NEW c \in S
                   PROVE  /\ c \in Nat /\ c <= z /\ Jumped(m, r, c) \in S
                          /\ c = z => Jumped(m, r, c) = z
                          /\ c # z => Jumped(m, r, c) > c
      OBVIOUS
    <2>2. CASE c = z  BY <1>1, <2>2 DEF Jumped
    <2>3. CASE c # z
      <3>1. c \in T /\ r.at <= c /\ c < z /\ c \in Nat /\ m.header[c] \in Int  BY <1>1, <2>3
      <3>2. /\ m.header[c] < 0 /\ After(m, c) \in T \cup m.bitmap
            /\ \A x \in c..After(m, c) - 1 : x \notin m.bitmap
        BY <3>1 DEF Tiling
      <3>3. Jumped(m, r, c) = After(m, c) /\ After(m, c) \in Nat /\ After(m, c) > c
        BY <1>1, <3>1, <3>2 DEF Jumped, After
      <3>4. ~ (After(m, c) > z)
        <4>1. SUFFICES ASSUME After(m, c) > z  PROVE FALSE  OBVIOUS
        <4>2. z \in c..After(m, c) - 1  BY <1>1, <3>1, <3>3, <4>1
        <4> QED  BY <3>2, <4>2
      <3>5. After(m, c) \in S
        <4>1. CASE After(m, c) \in T  BY <1>1, <3>1, <3>3, <3>4, <4>1
        <4>2. CASE After(m, c) \in m.bitmap
          <5>1. \A e \in m.bitmap : r.at <= e /\ e <= z => e = z
            <6>1. TAKE e \in m.bitmap
            <6>2. e \in Nat /\ e \notin r.at..z - 1  BY <1>1
            <6> QED  BY <1>1, <6>2
          <5>2. r.at <= After(m, c) /\ After(m, c) <= z  BY <1>1, <3>1, <3>3, <3>4
          <5>3. After(m, c) = z  BY <4>2, <5>1, <5>2
          <5> QED  BY <5>3
        <4> QED  BY <3>2, <4>1, <4>2
      <3> HIDE DEF S, z
      <3> QED  BY <1>1, <3>1, <3>3, <3>5, <2>3
    <2> HIDE DEF S, z
    <2> QED  BY <2>2, <2>3
  <1>3. F \in [S -> S]  BY <1>2
  <1>4. r.at \in S  BY <1>1
  <1>5. Walk(m, r) = {up[i] : i \in 0..n}  BY DEF Walk
  <1>6. WalksBySteps(m, r, up)
    <2>1. PICK f \in [0..n -> S] : Iterates(F, r.at, n, f)
      <3> HIDE DEF F, S, up
      <3> QED  BY <1>1, <1>3, <1>4, IteratesExists
    <2>2. WalksBySteps(m, r, f)
      <3>1. \A i \in 0..n : i # 0 => f[i - 1] \in S
        <4>1. \A i \in 0..n : i # 0 => i - 1 \in 0..n  BY <1>1
        <4> HIDE DEF S
        <4> QED  BY <4>1
      <3>2. \A i \in 0..n : i # 0 => F[f[i - 1]] = Jumped(m, r, f[i - 1])
        <4> HIDE DEF S
        <4> QED  BY <3>1
      <3>3. f = [i \in 0..n |-> IF i = 0 THEN r.at ELSE F[f[i - 1]]]  BY <2>1 DEF Iterates
      <3> HIDE DEF F, S
      <3>4. f = [i \in 0..n |-> IF i = 0 THEN r.at ELSE Jumped(m, r, f[i - 1])]
        BY <3>2, <3>3
      <3> QED  BY <3>4 DEF WalksBySteps
    <2>3. Walks(m, r, f)  BY <2>2, WalksStep
    <2>4. \E g : Walks(m, r, g)  BY <2>3
    <2>5. Walks(m, r, up)  BY <2>4, Zenon DEF Walks
    <2> QED  BY <2>5, WalksStep
  <1> HIDE DEF up, F
  <1>7. up[0] = r.at /\ \A i \in 0..n - 1 : up[i + 1] = Jumped(m, r, up[i])
    <2>1. up = [i \in 0..n |-> IF i = 0 THEN r.at ELSE Jumped(m, r, up[i - 1])]
      BY <1>6 DEF WalksBySteps
    <2>2. 0 \in 0..n /\ \A i \in 0..n - 1 : i + 1 \in 0..n /\ i + 1 # 0 /\ (i + 1) - 1 = i
      BY <1>1
    <2> HIDE DEF n
    <2>3. up[0] = r.at  BY <2>1, <2>2
    <2>4. ASSUME NEW i \in 0..n - 1  PROVE up[i + 1] = Jumped(m, r, up[i])
      <3>1. i + 1 \in 0..n /\ i + 1 # 0 /\ (i + 1) - 1 = i  BY <2>2
      <3>2. up[i + 1] = Jumped(m, r, up[(i + 1) - 1])  BY <2>1, <3>1
      <3> QED  BY <3>1, <3>2
    <2> QED  BY <2>3, <2>4
  <1> HIDE DEF n
  <1> DEFINE G == {i \in 0..n : up[i] \in S /\ (up[i] = z \/ up[i] >= r.at + i)}
  <1>8. 0..n \subseteq G
    <2>1. 0 \in G  BY <1>1, <1>4, <1>7
    <2>2. ASSUME NEW i \in 0..n - 1, i \in G  PROVE i + 1 \in G
      <3>1. up[i + 1] = Jumped(m, r, up[i]) /\ up[i] \in S /\ i + 1 \in 0..n  BY <1>1, <1>7, <2>2
      <3> HIDE DEF S
      <3>2. /\ up[i] \in Nat /\ up[i + 1] \in S
            /\ up[i] = z => up[i + 1] = z
            /\ up[i] # z => up[i + 1] > up[i]
        BY <1>2, <3>1
      <3>3. up[i + 1] \in Nat  BY <1>2, <3>2
      <3>4. up[i] = z \/ up[i] >= r.at + i  BY <2>2
      <3>5. up[i + 1] = z \/ up[i + 1] >= r.at + (i + 1)  BY <1>1, <3>2, <3>3, <3>4
      <3> QED  BY <3>1, <3>2, <3>5
    <2>3. \A i \in 0..n - 1 : i \in G => i + 1 \in G  BY <2>2
    <2> HIDE DEF G
    <2> QED  BY <1>1, <2>1, <2>3, InductionUpTo
  <1>9. up[n] = z
    <2>1. n \in G  BY <1>1, <1>8
    <2> HIDE DEF S
    <2>2. up[n] \in S /\ (up[n] = z \/ up[n] >= r.at + n)  BY <2>1
    <2> QED  BY <1>1, <1>2, <2>2
  <1>10. \A c \in Walk(m, r) : c \in S
    <2> HIDE DEF S
    <2> QED  BY <1>5, <1>8 DEF n
  <1>11. z \in Walk(m, r)
    <2>1. n \in 0..n  BY <1>1
    <2> QED  BY <1>5, <1>9, <2>1 DEF n
  <1>12. Tiled(m, r)
    <2>1. z \in Int /\ Walk(m, r) \in SUBSET Int /\ \A y \in Walk(m, r) : y <= z
      <3> HIDE DEF S
      <3> QED  BY <1>1, <1>2, <1>10
    <2>2. Walk(m, r) # {}  BY <1>11
    <2> HIDE DEF z
    <2>3. Max(Walk(m, r)) \in Walk(m, r) /\ \A y \in Walk(m, r) : y <= Max(Walk(m, r))
      BY <2>1, <2>2, MaxOfSet
    <2>4. Max(Walk(m, r)) = z  BY <1>11, <2>1, <2>3
    <2>5. r.at + r.size = z  BY DEF z, n
    <2> QED  BY <2>4, <2>5 DEF Tiled
  <1> QED  BY <1>10, <1>12 DEF n
\* isFreeBackward stops behind a bit, or where the memory starts.
LEMMA BackwardEnd ==
  ASSUME NEW m \in MemoryType, NEW at \in 0..MaxCells, ~ (at > m.free_zone)
  PROVE  LET f == isFreeBackward(m, at)
         IN  at - f = 0 \/ (at - f) - 1 \in m.bitmap
  <1> DEFINE S == {-1} \cup {c \in m.bitmap : c < at}
  <1>1. MaxCells \in Nat /\ m.bitmap \subseteq Cell /\ at \in Nat /\ m.free_zone \in Nat
    BY NVAssumption DEF MemoryType
  <1>2. at \in Int /\ S \in SUBSET Int /\ S # {} /\ \A y \in S : y <= at
    BY <1>1 DEF Cell
  <1>3. Max(S) \in S /\ \A y \in S : y <= Max(S)
    <2> HIDE DEF S
    <2> QED  BY <1>2, MaxOfSet
  <1>4. isFreeBackward(m, at) = at - 1 - Max(S)  BY <1>1 DEF isFreeBackward
  <1>5. Max(S) \in Int /\ (Max(S) = -1 \/ Max(S) \in m.bitmap)
    BY <1>1, <1>3 DEF Cell
  <1> HIDE DEF S
  <1>6. at - (at - 1 - Max(S)) = Max(S) + 1 /\ (Max(S) + 1) - 1 = Max(S)  BY <1>1, <1>5
  <1> QED  BY <1>1, <1>4, <1>5, <1>6

\* A region that is found by a hint is a whole free region: the tiling has a
\* header at its start, and there is a bit behind it.
LEMMA RegionWhole ==
  ASSUME NEW m \in MemoryType, NEW T, Tiling(m, T), NEW hint \in 0..MaxCells,
         Region(m, hint).size > 0
  PROVE  LET r == Region(m, hint)
         IN  /\ r.at \in T /\ (r.at = 0 \/ r.at - 1 \in m.bitmap)
             /\ r.at + r.size \in m.bitmap
  <1> DEFINE f == isFreeForward(m, hint)
             k == isFreeBackward(m, hint)
             r == Region(m, hint)
  <1>1. MaxCells \in Nat /\ m.free_zone \in 0..MaxCells /\ m.bitmap \subseteq Cell
        /\ m.free_zone \in Nat /\ hint \in Nat
    BY NVAssumption DEF MemoryType
  <1>2. r = [at |-> hint - k, size |-> f + k]  BY DEF Region
  <1>3. ~ (hint > m.free_zone)
    <2>1. SUFFICES ASSUME hint > m.free_zone  PROVE FALSE  OBVIOUS
    <2>2. f = 0 /\ k = 0  BY <1>1, <2>1 DEF isFreeForward, isFreeBackward
    <2> HIDE DEF f, k
    <2> QED  BY <1>2, <2>2
  <1>4. /\ f \in Nat /\ (hint = m.free_zone => f = 0)
        /\ hint + f \in m.bitmap \cup {m.free_zone}
    <2>1. CASE hint = m.free_zone  BY <1>1, <2>1 DEF isFreeForward
    <2>2. CASE hint < m.free_zone
      <3>1. f \in 0..MaxCells /\ hint + f \in m.bitmap \cup {m.free_zone}
        BY <2>2, ForwardFree
      <3> HIDE DEF f
      <3> QED  BY <1>1, <2>2, <3>1
    <2> QED  BY <1>1, <1>3, <2>1, <2>2
  <1>5. k \in 0..hint /\ (hint - k = 0 \/ (hint - k) - 1 \in m.bitmap)
    BY <1>1, <1>3, BackwardFree, BackwardEnd
  <1>6. /\ r.at \in Nat /\ r.size \in Nat
        /\ \A c \in r.at..r.at + r.size - 1 : c \in Cell \ m.bitmap /\ c < m.free_zone
    <2>1. /\ r.size \in Nat /\ r.at \in 0..MaxCells
          /\ \A c \in r.at..r.at + r.size - 1 : c \in Cell \ m.bitmap /\ c < m.free_zone
      BY RegionFree
    <2> HIDE DEF r
    <2> QED  BY <1>1, <2>1
  <1> HIDE DEF f, k
  <1>7. r.at = hint - k /\ r.size = f + k /\ r.at + r.size = hint + f
    BY <1>1, <1>2, <1>4, <1>5
  <1>8. r.size > 0  OBVIOUS
  <1> HIDE DEF r
  <1>9. r.at + r.size # m.free_zone
    <2>1. SUFFICES ASSUME r.at + r.size = m.free_zone  PROVE FALSE  OBVIOUS
    <2>2. m.free_zone - 1 \in r.at..r.at + r.size - 1 /\ m.free_zone > 0
      BY <1>1, <1>6, <1>8, <2>1
    <2>3. m.free_zone - 1 \in m.bitmap  BY <2>2 DEF Tiling
    <2> QED  BY <1>6, <2>2, <2>3
  <1>10. r.at \in 0..m.free_zone - 1 \ m.bitmap
    <2>1. r.at \in r.at..r.at + r.size - 1  BY <1>6, <1>8
    <2> QED  BY <1>1, <1>6, <2>1
  <1>11. r.at = 0 \/ r.at - 1 \in m.bitmap  BY <1>5, <1>7
  <1>12. r.at \in T  BY <1>10, <1>11 DEF Tiling
  <1> QED  BY <1>4, <1>7, <1>9, <1>11, <1>12 DEF r

\* Bits, free zone and the headers of the free blocks are what the tiling
\* depends on.
LEMMA SameTiling ==
  ASSUME NEW m, NEW T, Tiling(m, T),
         NEW g, g.bitmap = m.bitmap, g.free_zone = m.free_zone,
         \A c \in T : g.header[c] = m.header[c]
  PROVE  Tiling(g, T)
  <1>1. \A c \in T : After(g, c) = After(m, c)  BY DEF After
  <1> QED  BY <1>1 DEF Tiling

\* The front of a free region is taken as far as a header of the tiling, or
\* as a whole.
LEMMA TilingCut ==
  ASSUME NEW m \in MemoryType, NEW T, Tiling(m, T),
         NEW a \in T, a = 0 \/ a - 1 \in m.bitmap,
         NEW p \in T \cup m.bitmap, p > a, \A c \in a..p - 1 : c \notin m.bitmap,
         NEW g, g.bitmap = m.bitmap \cup (a..p - 1), g.free_zone = m.free_zone,
         \A c \in T \ (a..p - 1) : g.header[c] = m.header[c]
  PROVE  Tiling(g, T \ (a..p - 1))
  <1> DEFINE U == T \ (a..p - 1)
  <1>1. /\ m.free_zone \in Nat /\ m.bitmap \subseteq Nat /\ T \subseteq Nat
        /\ a \in Nat /\ p \in Nat /\ a < m.free_zone
        /\ T \subseteq 0..m.free_zone - 1 /\ \A c \in T : m.header[c] \in Int
    <2>1. MaxCells \in Nat /\ m.free_zone \in 0..MaxCells /\ m.bitmap \subseteq Cell
          /\ m.header \in [Cell -> -(MaxCells + 1)..MaxCells]
      BY NVAssumption DEF MemoryType
    <2>2. T \subseteq 0..m.free_zone - 1  BY DEF Tiling
    <2>3. m.free_zone \in Nat /\ m.bitmap \subseteq Nat /\ T \subseteq Nat /\ T \subseteq Cell
      BY <2>1, <2>2 DEF Cell
    <2> QED  BY <2>1, <2>2, <2>3
  <1>2. g.free_zone > 0 => g.free_zone - 1 \in g.bitmap  BY DEF Tiling
  <1>3. U \subseteq 0..g.free_zone - 1  BY <1>1
  <1>4. U \cap g.bitmap = {}  BY DEF Tiling
  <1>5. ASSUME NEW c \in 0..g.free_zone - 1 \ g.bitmap, c = 0 \/ c - 1 \in g.bitmap
        PROVE  c \in U
    <2>1. c \in 0..m.free_zone - 1 \ m.bitmap /\ c \notin a..p - 1 /\ c \in Nat  BY <1>1
    <2>2. CASE c = 0 \/ c - 1 \in m.bitmap  BY <2>1, <2>2 DEF Tiling
    <2>3. CASE c - 1 \in a..p - 1
      <3>1. c = p  BY <1>1, <2>1, <2>3
      <3> QED  BY <2>1, <3>1
    <2> QED  BY <1>5, <2>2, <2>3
  <1>6. ASSUME NEW c \in U
        PROVE  /\ g.header[c] < 0
               /\ After(g, c) \in U \cup g.bitmap
               /\ \A x \in c..After(g, c) - 1 : x \notin g.bitmap
    <2>1. PICK e : e = After(m, c)  OBVIOUS
    <2>2. /\ m.header[c] < 0 /\ e \in T \cup m.bitmap
          /\ \A x \in c..e - 1 : x \notin m.bitmap
      BY <2>1 DEF Tiling
    <2>3. After(g, c) = e /\ g.header[c] = m.header[c]  BY <2>1 DEF After
    <2>4. c \in Nat /\ e \in Nat /\ e > c /\ (c < a \/ c >= p)
      BY <1>1, <2>1, <2>2 DEF After
    <2>5. CASE c < a
      <3>1. a - 1 \in m.bitmap  BY <1>1, <2>4, <2>5
      <3>2. a - 1 \notin c..e - 1  BY <2>2, <3>1
      <3>3. e < a  BY <1>1, <2>4, <2>5, <3>2
      <3>4. \A x \in c..e - 1 : x \notin a..p - 1  BY <1>1, <2>4, <3>3
      <3>5. e \notin a..p - 1  BY <1>1, <3>3
      <3> QED  BY <2>2, <2>3, <3>4, <3>5
    <2>6. CASE c >= p
      <3>1. \A x \in c..e - 1 : x \notin a..p - 1  BY <1>1, <2>4, <2>6
      <3>2. e \notin a..p - 1  BY <1>1, <2>4, <2>6
      <3> QED  BY <2>2, <2>3, <3>1, <3>2
    <2> QED  BY <2>4, <2>5, <2>6
  <1> QED  BY <1>2, <1>3, <1>4, <1>5, <1>6 DEF Tiling

\* The front of a free region is taken up to a place that gets the header of
\* all that is left.
LEMMA TilingSplit ==
  ASSUME NEW m \in MemoryType, NEW T, Tiling(m, T),
         NEW a \in T, a = 0 \/ a - 1 \in m.bitmap,
         NEW z \in m.bitmap, \A c \in a..z - 1 : c \notin m.bitmap,
         NEW p \in a + 1..z - 1,
         NEW g, g.bitmap = m.bitmap \cup (a..p - 1), g.free_zone = m.free_zone,
         g.header[p] = p - z, z < m.free_zone,
         \A c \in T \ (a..z - 1) : g.header[c] = m.header[c]
  PROVE  Tiling(g, (T \ (a..z - 1)) \cup {p})
  <1> DEFINE U == (T \ (a..z - 1)) \cup {p}
  <1>1. /\ m.free_zone \in Nat /\ m.bitmap \subseteq Nat /\ T \subseteq Nat
        /\ a \in Nat /\ p \in Nat /\ z \in Nat /\ a < p /\ p < z
        /\ T \subseteq 0..m.free_zone - 1 /\ \A c \in T : m.header[c] \in Int
    <2>1. MaxCells \in Nat /\ m.free_zone \in 0..MaxCells /\ m.bitmap \subseteq Cell
          /\ m.header \in [Cell -> -(MaxCells + 1)..MaxCells]
      BY NVAssumption DEF MemoryType
    <2>2. T \subseteq 0..m.free_zone - 1  BY DEF Tiling
    <2>3. m.free_zone \in Nat /\ m.bitmap \subseteq Nat /\ T \subseteq Nat /\ T \subseteq Cell
      BY SMTT(30), <2>1, <2>2 DEF Cell
    <2>4. a \in Nat /\ z \in Nat  BY <2>3
    <2> QED  BY <2>1, <2>2, <2>3, <2>4
  <1>2. g.free_zone > 0 => g.free_zone - 1 \in g.bitmap  BY DEF Tiling
  <1>3. U \subseteq 0..g.free_zone - 1
    <2>1. p \in 0..m.free_zone - 1  BY <1>1
    <2> QED  BY <1>1, <2>1
  <1>4. U \cap g.bitmap = {}
    <2>1. p \notin m.bitmap /\ p \notin a..p - 1  BY <1>1
    <2>2. \A c \in T \ (a..z - 1) : c \notin m.bitmap /\ c \notin a..p - 1
      <3>1. TAKE c \in T \ (a..z - 1)
      <3>2. c \notin m.bitmap  BY DEF Tiling
      <3> QED  BY <1>1, <3>2
    <2> QED  BY <2>1, <2>2
  <1>5. ASSUME NEW c \in 0..g.free_zone - 1 \ g.bitmap, c = 0 \/ c - 1 \in g.bitmap
        PROVE  c \in U
    <2>1. c \in 0..m.free_zone - 1 \ m.bitmap /\ c \notin a..p - 1 /\ c \in Nat  BY <1>1
    <2>2. CASE c = 0 \/ c - 1 \in m.bitmap
      <3>1. c \in T  BY <2>1, <2>2 DEF Tiling
      <3>2. c \notin a + 1..z - 1
        <4>1. SUFFICES ASSUME c \in a + 1..z - 1  PROVE FALSE  OBVIOUS
        <4>2. c - 1 \in a..z - 1 /\ c # 0  BY <1>1, <2>1, <4>1
        <4> QED  BY <2>2, <4>2
      <3>3. c # a  BY <1>1, <2>1
      <3> QED  BY <1>1, <2>1, <3>1, <3>2, <3>3
    <2>3. CASE c - 1 \in a..p - 1
      <3>1. c = p  BY <1>1, <2>1, <2>3
      <3> QED  BY <3>1
    <2> QED  BY <1>5, <2>2, <2>3
  <1>6. ASSUME NEW c \in U
        PROVE  /\ g.header[c] < 0
               /\ After(g, c) \in U \cup g.bitmap
               /\ \A x \in c..After(g, c) - 1 : x \notin g.bitmap
    <2>1. CASE c = p
      <3>1. After(g, c) = z /\ g.header[c] < 0  BY <1>1, <2>1 DEF After
      <3>2. \A x \in p..z - 1 : x \in a..z - 1 /\ x \notin a..p - 1  BY <1>1
      <3>3. \A x \in p..z - 1 : x \notin g.bitmap  BY <3>2
      <3> QED  BY <2>1, <3>1, <3>3
    <2>2. CASE c \in T \ (a..z - 1)
      <3>1. PICK e : e = After(m, c)  OBVIOUS
      <3>2. /\ m.header[c] < 0 /\ e \in T \cup m.bitmap
            /\ \A x \in c..e - 1 : x \notin m.bitmap
        BY <2>2, <3>1 DEF Tiling
      <3>3. After(g, c) = e /\ g.header[c] = m.header[c]  BY <2>2, <3>1 DEF After
      <3>4. c \in Nat /\ e \in Nat /\ e > c /\ (c < a \/ c >= z)
        BY <1>1, <2>2, <3>1, <3>2 DEF After
      <3>5. CASE c < a
        <4>1. a - 1 \in m.bitmap  BY <1>1, <3>4, <3>5
        <4>2. a - 1 \notin c..e - 1  BY <3>2, <4>1
        <4>3. e < a  BY <1>1, <3>4, <3>5, <4>2
        <4>4. \A x \in c..e - 1 : x \notin a..p - 1  BY <1>1, <3>4, <4>3
        <4>5. e \notin a..z - 1  BY <1>1, <4>3
        <4> QED  BY <3>2, <3>3, <4>4, <4>5
      <3>6. CASE c >= z
        <4>1. \A x \in c..e - 1 : x \notin a..p - 1  BY <1>1, <3>4, <3>6
        <4>2. e \notin a..z - 1  BY <1>1, <3>4, <3>6
        <4> QED  BY <3>2, <3>3, <4>1, <4>2
      <3> QED  BY <3>4, <3>5, <3>6
    <2> QED  BY <2>1, <2>2
  <1> QED  BY <1>2, <1>3, <1>4, <1>5, <1>6 DEF Tiling
\* Filing a hint leaves bits, free zone and headers alone.
LEMMA FileHintBits ==
  ASSUME NEW m \in MemoryType, NEW n, NEW at
  PROVE  LET g == FileHint(m, n, at)
         IN  g.bitmap = m.bitmap /\ g.free_zone = m.free_zone /\ g.header = m.header
  BY DEF FileHint, MemoryType

\* A hint at a cell is one more entry of a list.
LEMMA FileHintType ==
  ASSUME NEW m \in MemoryType, NEW n \in Nat \ {0}, NEW at \in 0..MaxCells
  PROVE  FileHint(m, n, at) \in MemoryType
  <1> DEFINE l == getBestFit(n)
  <1>1. l \in 1..NR_SIZES + 1  BY BestFit
  <1>2. FileHint(m, n, at) = [m EXCEPT !.free_lists[l] = Append(@, at)]  BY DEF FileHint
  <1>3. Append(m.free_lists[l], at) \in Seq(0..MaxCells)
    <2>1. m.free_lists[l] \in Seq(0..MaxCells)  BY <1>1 DEF MemoryType
    <2> QED  BY <2>1, AppendProperties
  <1> QED  BY ZenonT(60), <1>1, <1>2, <1>3 DEF MemoryType

\* The cells that are set and the headers that are written for a block.
LEMMA OccupiedBits ==
  ASSUME NEW m \in MemoryType, NEW b \in Blocks
  PROVE  LET g == Occupied(m, b)
         IN  /\ g.bitmap = m.bitmap \cup (b.at..b.at + b.size - 1)
             /\ g.free_zone = m.free_zone
             /\ \A c \in Cell \ (b.at..b.at + b.size - 1) : g.header[c] = m.header[c]
  <1> DEFINE H == [c \in Cell |-> IF c = b.at THEN b.size
                                  ELSE IF c \in Cells(b) THEN 0 ELSE m.header[c]]
             g == [m EXCEPT !.bitmap = m.bitmap \cup Cells(b), !.header = H]
  <1>1. g = Occupied(m, b)  BY DEF Occupied
  <1>2. g.bitmap = m.bitmap \cup Cells(b) /\ g.free_zone = m.free_zone /\ g.header = H
    BY DEF MemoryType
  <1>3. b.at \in Nat /\ b.size \in Nat \ {0}  BY NVAssumption DEF Blocks, Cell
  <1>4. Cells(b) = b.at..b.at + b.size - 1 /\ b.at \in Cells(b)  BY <1>3 DEF Cells
  <1>5. \A c \in Cell \ Cells(b) : H[c] = m.header[c]  BY <1>4
  <1> HIDE DEF g, H
  <1> QED  BY <1>1, <1>2, <1>4, <1>5

\* What nvmalloc takes of a free region leaves a tiling behind: the headers
\* that remain, or the one header that is written for the rest.
LEMMA TakenTiling ==
  ASSUME NEW m \in MemoryType, m.bitmap \subseteq 0..m.free_zone - 1,
         NEW T, Tiling(m, T),
         NEW r, r.at \in T, r.at = 0 \/ r.at - 1 \in m.bitmap,
         r.size \in Nat, NEW n \in Nat \ {0}, r.size >= n,
         r.at + r.size \in m.bitmap,
         \A c \in r.at..r.at + r.size - 1 : c \in Cell \ m.bitmap,
         NEW b \in Blocks, b.at = r.at, b.size = n,
         NEW k \in MemoryType, k = TakeFrom(m, r, n)
  PROVE  \E U : Tiling(Occupied(k, b), U)
  <1>1. PICK a \in T : a = r.at  OBVIOUS
  <1>2. PICK z \in m.bitmap : z = r.at + r.size  OBVIOUS
  <1>3. PICK p : p = a + n  OBVIOUS
  <1>4. PICK g : g = Occupied(k, b)  OBVIOUS
  <1>5. /\ MaxCells \in Nat /\ m.free_zone \in Nat /\ T \subseteq Cell /\ a \in Nat
        /\ z \in Nat /\ z < m.free_zone /\ p \in Nat /\ a < p /\ p <= z /\ z = a + r.size
        /\ m.header \in [Cell -> -(MaxCells + 1)..MaxCells]
    <2>1. MaxCells \in Nat /\ m.free_zone \in 0..MaxCells /\ m.bitmap \subseteq Cell
          /\ m.header \in [Cell -> -(MaxCells + 1)..MaxCells]
      BY NVAssumption DEF MemoryType
    <2>2. T \subseteq 0..m.free_zone - 1  BY DEF Tiling
    <2>3. T \subseteq Cell /\ a \in Nat  BY <2>1, <2>2 DEF Cell
    <2>4. z \in Nat /\ z < m.free_zone  BY <2>1 DEF Cell
    <2> QED  BY <1>1, <1>2, <1>3, <2>1, <2>3, <2>4
  <1>6. \A c \in a..z - 1 : c \in Cell \ m.bitmap
    <2>1. r.at + r.size - 1 = z - 1  BY <1>1, <1>5
    <2> QED  BY <1>1, <2>1
  <1>7. /\ g.bitmap = k.bitmap \cup (a..p - 1) /\ g.free_zone = k.free_zone
        /\ \A c \in Cell \ (a..p - 1) : g.header[c] = k.header[c]
    <2>1. /\ g.bitmap = k.bitmap \cup (b.at..b.at + b.size - 1) /\ g.free_zone = k.free_zone
          /\ \A c \in Cell \ (b.at..b.at + b.size - 1) : g.header[c] = k.header[c]
      BY <1>4, OccupiedBits
    <2>2. a + n - 1 = p - 1  BY <1>3, <1>5
    <2>3. b.at..b.at + b.size - 1 = a..p - 1  BY <1>1, <2>2
    <2> QED  BY <2>1, <2>3
  <1>8. CASE p \in T \cup m.bitmap /\ k.header = m.header /\ k.bitmap = m.bitmap
             /\ k.free_zone = m.free_zone
    <2>1. \A c \in a..p - 1 : c \notin m.bitmap
      <3>1. \A c \in a..p - 1 : c \in a..z - 1  BY <1>5
      <3> QED  BY <1>6, <3>1
    <2>2. \A c \in T \ (a..p - 1) : g.header[c] = m.header[c]  BY <1>5, <1>7, <1>8
    <2>3. a = 0 \/ a - 1 \in m.bitmap  BY <1>1
    <2>4. g.bitmap = m.bitmap \cup (a..p - 1) /\ g.free_zone = m.free_zone  BY <1>7, <1>8
    <2>5. Tiling(g, T \ (a..p - 1))  BY <1>5, <1>8, <2>1, <2>2, <2>3, <2>4, TilingCut
    <2> QED  BY <1>4, <2>5
  <1>9. CASE r.size = n
    <2>1. k = m  BY <1>9 DEF TakeFrom
    <2>2. p = z  BY <1>3, <1>5, <1>9
    <2> QED  BY <1>8, <2>1, <2>2
  <1>10. CASE r.size # n /\ p \in Walk(m, r)
    <2>1. p \in T \/ p = z  BY <1>2, <1>6, <1>10, TilingWalk
    <2>2. p # z  BY <1>3, <1>5, <1>10
    <2>3. k = FileHint(m, r.size - n, p)  BY <1>1, <1>3, <1>10 DEF TakeFrom
    <2>4. k.header = m.header /\ k.bitmap = m.bitmap /\ k.free_zone = m.free_zone
      BY <2>3, FileHintBits
    <2> QED  BY <1>8, <2>1, <2>2, <2>4
  <1>11. CASE r.size # n /\ p \notin Walk(m, r)
    <2>1. PICK w : w = [m EXCEPT !.header[p] = n - r.size]  OBVIOUS
    <2>2. k = FileHint(w, r.size - n, p)  BY <1>1, <1>3, <1>11, <2>1 DEF TakeFrom
    <2>3. p \in a + 1..z - 1  BY <1>3, <1>5, <1>11
    <2>4. p \in Cell
      <3>1. p \in a..z - 1  BY <1>5, <2>3
      <3> QED  BY <1>6, <3>1
    <2>5. w \in MemoryType
      <3>1. n - r.size = p - z /\ p - z \in -(MaxCells + 1)..MaxCells
        <4>1. z - 1 \in a..z - 1  BY <1>5
        <4>2. z - 1 \in Cell  BY <1>6, <4>1
        <4>3. z <= MaxCells  BY <1>5, <4>2 DEF Cell
        <4> QED  BY <1>3, <1>5, <4>3
      <3> QED  BY <2>1, <2>4, <3>1 DEF MemoryType
    <2>6. /\ w.bitmap = m.bitmap /\ w.free_zone = m.free_zone
          /\ w.header = [m.header EXCEPT ![p] = n - r.size]
      BY <2>1 DEF MemoryType
    <2>7. k.header = w.header /\ k.bitmap = m.bitmap /\ k.free_zone = m.free_zone
      BY <2>2, <2>5, <2>6, FileHintBits
    <2>8. g.header[p] = p - z
      <3>1. p \in Cell \ (a..p - 1)  BY <1>5, <2>4
      <3>2. n - r.size = p - z  BY <1>3, <1>5
      <3>3. w.header[p] = n - r.size  BY <1>5, <2>4, <2>6
      <3> QED  BY <1>7, <2>7, <3>1, <3>2, <3>3
    <2>9. \A c \in T \ (a..z - 1) : g.header[c] = m.header[c]
      <3>1. TAKE c \in T \ (a..z - 1)
      <3>2. c \in Cell \ (a..p - 1) /\ c # p
        <4>1. p \in a..z - 1 /\ \A x \in a..p - 1 : x \in a..z - 1  BY <1>5, <2>3
        <4> QED  BY <1>5, <4>1
      <3>3. w.header[c] = m.header[c]  BY <1>5, <2>6, <3>2
      <3> QED  BY <1>7, <2>7, <3>2, <3>3
    <2>10. a = 0 \/ a - 1 \in m.bitmap  BY <1>1
    <2>11. g.bitmap = m.bitmap \cup (a..p - 1) /\ g.free_zone = m.free_zone  BY <1>7, <2>7
    <2>12. \A c \in a..z - 1 : c \notin m.bitmap  BY <1>6
    <2>13. Tiling(g, (T \ (a..z - 1)) \cup {p})
      BY <1>5, <2>3, <2>8, <2>9, <2>10, <2>11, <2>12, TilingSplit
    <2> QED  BY <1>4, <2>13
  <1> QED  BY <1>9, <1>10, <1>11

\* A block taken from the free zone is behind all that is tiled.
LEMMA ZoneTiling ==
  ASSUME NEW m \in MemoryType, NEW T, Tiling(m, T), NEW b \in Blocks,
         b.at = m.free_zone, NEW n \in Nat \ {0}, b.size = n,
         NEW k \in MemoryType, k.bitmap = m.bitmap, k.header = m.header,
         k.free_zone = m.free_zone + n
  PROVE  Tiling(Occupied(k, b), T)
  <1> DEFINE g == Occupied(k, b)
             f == m.free_zone
  <1>1. /\ MaxCells \in Nat /\ f \in Nat /\ f <= MaxCells /\ m.bitmap \subseteq Nat
        /\ T \subseteq 0..f - 1 /\ T \subseteq Cell
        /\ \A c \in Cell : m.header[c] \in Int
    <2>1. MaxCells \in Nat /\ m.free_zone \in 0..MaxCells /\ m.bitmap \subseteq Cell
          /\ m.header \in [Cell -> -(MaxCells + 1)..MaxCells]
      BY NVAssumption DEF MemoryType
    <2>2. T \subseteq 0..m.free_zone - 1  BY DEF Tiling
    <2> QED  BY <2>1, <2>2 DEF Cell
  <1>2. /\ g.bitmap = m.bitmap \cup (f..f + n - 1) /\ g.free_zone = f + n
        /\ \A c \in Cell \ (f..f + n - 1) : g.header[c] = m.header[c]
    BY OccupiedBits
  <1> HIDE DEF g, f
  <1>3. g.free_zone - 1 \in g.bitmap  BY <1>1, <1>2
  <1>4. T \subseteq 0..g.free_zone - 1  BY <1>1, <1>2
  <1>5. T \cap g.bitmap = {}
    <2>1. \A c \in T : c \notin f..f + n - 1  BY <1>1
    <2>2. T \cap m.bitmap = {}  BY DEF Tiling
    <2> QED  BY <1>2, <2>1, <2>2
  <1>6. ASSUME NEW c \in 0..g.free_zone - 1 \ g.bitmap, c = 0 \/ c - 1 \in g.bitmap
        PROVE  c \in T
    <2>1. c \in 0..f - 1 \ m.bitmap /\ c - 1 \notin f..f + n - 1  BY <1>1, <1>2
    <2>2. c = 0 \/ c - 1 \in m.bitmap  BY <1>2, <1>6, <2>1
    <2> QED  BY <2>1, <2>2 DEF Tiling, f
  <1>7. ASSUME NEW c \in T
        PROVE  /\ g.header[c] < 0
               /\ After(g, c) \in T \cup g.bitmap
               /\ \A x \in c..After(g, c) - 1 : x \notin g.bitmap
    <2>1. PICK e : e = After(m, c)  OBVIOUS
    <2>2. /\ m.header[c] < 0 /\ e \in T \cup m.bitmap
          /\ \A x \in c..e - 1 : x \notin m.bitmap
      BY <2>1 DEF Tiling
    <2>3. c \in Cell \ (f..f + n - 1)  BY <1>1
    <2>4. g.header[c] = m.header[c]  BY <1>2, <2>3
    <2>5. After(g, c) = e  BY <2>1, <2>4 DEF After
    <2>6. c \in Nat /\ e \in Nat /\ e > c /\ c < f
      BY <1>1, <2>1, <2>2 DEF After
    <2>7. ~ (e > f)
      <3>1. SUFFICES ASSUME e > f  PROVE FALSE  OBVIOUS
      <3>2. f - 1 \in c..e - 1 /\ f > 0  BY <1>1, <2>6, <3>1
      <3>3. f - 1 \in m.bitmap  BY <3>2 DEF Tiling, f
      <3> QED  BY <2>2, <3>2, <3>3
    <2>8. \A x \in c..e - 1 : x \notin f..f + n - 1  BY <1>1, <2>6, <2>7
    <2> QED  BY <1>2, <2>2, <2>4, <2>5, <2>8
  <1> QED  BY <1>3, <1>4, <1>5, <1>6, <1>7 DEF Tiling, g
\* A block is freed next to the free zone, which takes it and all that is free
\* before it.
LEMMA TilingJoined ==
  ASSUME NEW m \in MemoryType, NEW T, Tiling(m, T),
         NEW at \in m.bitmap, at < m.free_zone, NEW q \in Nat,
         NEW a \in 0..at, a = 0 \/ a - 1 \in m.bitmap,
         NEW g, g.bitmap = m.bitmap \ (at..q - 1), g.bitmap \subseteq 0..a - 1,
         g.free_zone = a, \A c \in T : c < a => g.header[c] = m.header[c]
  PROVE  Tiling(g, {c \in T : c < a})
  <1> DEFINE U == {c \in T : c < a}
  <1>1. /\ m.free_zone \in Nat /\ m.bitmap \subseteq Nat /\ T \subseteq Nat
        /\ at \in Nat /\ a \in Nat /\ a <= at /\ at < m.free_zone
        /\ T \subseteq 0..m.free_zone - 1 /\ \A c \in T : m.header[c] \in Int
    <2>1. MaxCells \in Nat /\ m.free_zone \in 0..MaxCells /\ m.bitmap \subseteq Cell
          /\ m.header \in [Cell -> -(MaxCells + 1)..MaxCells]
      BY NVAssumption DEF MemoryType
    <2>2. T \subseteq 0..m.free_zone - 1  BY DEF Tiling
    <2>3. m.free_zone \in Nat /\ m.bitmap \subseteq Nat /\ T \subseteq Nat /\ T \subseteq Cell
      BY <2>1, <2>2 DEF Cell
    <2> QED  BY <2>1, <2>2, <2>3
  <1>2. g.free_zone > 0 => g.free_zone - 1 \in g.bitmap  BY <1>1
  <1>3. \A c \in U : c \in 0..g.free_zone - 1  BY <1>1
  <1>4. U \cap g.bitmap = {}  BY DEF Tiling
  <1>5. ASSUME NEW c \in 0..g.free_zone - 1 \ g.bitmap, c = 0 \/ c - 1 \in g.bitmap
        PROVE  c \in U
    <2>1. c \in 0..m.free_zone - 1 \ m.bitmap /\ c < a  BY <1>1
    <2>2. c = 0 \/ c - 1 \in m.bitmap  BY <1>5
    <2> QED  BY <2>1, <2>2 DEF Tiling
  <1>6. ASSUME NEW c \in U
        PROVE  /\ g.header[c] < 0
               /\ After(g, c) \in U \cup g.bitmap
               /\ \A x \in c..After(g, c) - 1 : x \notin g.bitmap
    <2>1. PICK e : e = After(m, c)  OBVIOUS
    <2>2. /\ m.header[c] < 0 /\ e \in T \cup m.bitmap
          /\ \A x \in c..e - 1 : x \notin m.bitmap
      BY <2>1 DEF Tiling
    <2>3. After(g, c) = e /\ g.header[c] = m.header[c]  BY <2>1 DEF After
    <2>4. c \in Nat /\ e \in Nat /\ e > c /\ c < a  BY <1>1, <2>1, <2>2 DEF After
    <2>5. a - 1 \notin c..e - 1  BY <1>1, <2>2, <2>4
    <2>6. e < a  BY <1>1, <2>4, <2>5
    <2>7. e \notin at..q - 1  BY <1>1, <2>4, <2>6
    <2> QED  BY <2>2, <2>3, <2>6, <2>7
  <1> QED  BY <1>2, <1>3, <1>4, <1>5, <1>6 DEF Tiling

\* A block is freed and gets the header of all that is free from it on.
LEMMA TilingFreed ==
  ASSUME NEW m \in MemoryType, NEW T, Tiling(m, T),
         NEW at \in m.bitmap, NEW q \in Nat,
         NEW g, g.bitmap = m.bitmap \ (at..q - 1),
         NEW z \in g.bitmap, z > at, z < m.free_zone, \A c \in at..z - 1 : c \notin g.bitmap,
         g.free_zone = m.free_zone, g.header[at] = at - z,
         \A c \in T : g.header[c] = m.header[c]
  PROVE  Tiling(g, (T \ (at..z - 1)) \cup {at})
  <1> DEFINE U == (T \ (at..z - 1)) \cup {at}
  <1>1. /\ m.free_zone \in Nat /\ m.bitmap \subseteq Nat /\ T \subseteq Nat
        /\ at \in Nat /\ z \in Nat /\ q <= z /\ at < m.free_zone
        /\ T \subseteq 0..m.free_zone - 1 /\ \A c \in T : m.header[c] \in Int
    <2>1. MaxCells \in Nat /\ m.free_zone \in 0..MaxCells /\ m.bitmap \subseteq Cell
          /\ m.header \in [Cell -> -(MaxCells + 1)..MaxCells]
      BY NVAssumption DEF MemoryType
    <2>2. T \subseteq 0..m.free_zone - 1  BY DEF Tiling
    <2>3. m.free_zone \in Nat /\ m.bitmap \subseteq Nat /\ T \subseteq Nat /\ T \subseteq Cell
      BY SMTT(30), <2>1, <2>2 DEF Cell
    <2>4. at \in Nat /\ z \in Nat /\ z \notin at..q - 1  BY <2>3
    <2> QED  BY <2>1, <2>2, <2>3, <2>4
  <1>2. g.free_zone - 1 \in g.bitmap
    <2>1. m.free_zone - 1 \in m.bitmap  BY <1>1 DEF Tiling
    <2>2. m.free_zone - 1 \notin at..q - 1  BY <1>1
    <2> QED  BY <2>1, <2>2
  <1>3. U \subseteq 0..g.free_zone - 1
    <2>1. at \in 0..m.free_zone - 1  BY <1>1
    <2> QED  BY <1>1, <2>1
  <1>4. U \cap g.bitmap = {}
    <2>1. at \in at..z - 1  BY <1>1
    <2>2. T \cap m.bitmap = {}  BY DEF Tiling
    <2> QED  BY <2>1, <2>2
  <1>5. ASSUME NEW c \in 0..g.free_zone - 1 \ g.bitmap, c = 0 \/ c - 1 \in g.bitmap
        PROVE  c \in U
    <2>1. c \in 0..m.free_zone - 1 /\ c \in Nat  BY <1>1
    <2>2. CASE c \in at..z - 1
      <3>1. c = at
        <4>1. SUFFICES ASSUME c # at  PROVE FALSE  OBVIOUS
        <4>2. c - 1 \in at..z - 1 /\ c # 0  BY <1>1, <2>1, <2>2, <4>1
        <4> QED  BY <1>5, <4>2
      <3> QED  BY <3>1
    <2>3. CASE c \notin at..z - 1
      <3>1. c \notin at..q - 1  BY <1>1, <2>1, <2>3
      <3>2. c \notin m.bitmap  BY <3>1
      <3>3. c = 0 \/ c - 1 \in m.bitmap  BY <1>5
      <3>4. c \in T  BY <2>1, <3>2, <3>3 DEF Tiling
      <3> QED  BY <2>3, <3>4
    <2> QED  BY <2>2, <2>3
  <1>6. ASSUME NEW c \in U
        PROVE  /\ g.header[c] < 0
               /\ After(g, c) \in U \cup g.bitmap
               /\ \A x \in c..After(g, c) - 1 : x \notin g.bitmap
    <2>1. CASE c = at
      <3>1. After(g, c) = z /\ g.header[c] < 0  BY <1>1, <2>1 DEF After
      <3> QED  BY <2>1, <3>1
    <2>2. CASE c \in T \ (at..z - 1)
      <3>1. PICK e : e = After(m, c)  OBVIOUS
      <3>2. /\ m.header[c] < 0 /\ e \in T \cup m.bitmap
            /\ \A x \in c..e - 1 : x \notin m.bitmap
        BY <2>2, <3>1 DEF Tiling
      <3>3. After(g, c) = e /\ g.header[c] = m.header[c]  BY <2>2, <3>1 DEF After
      <3>4. c \in Nat /\ e \in Nat /\ e > c /\ (c < at \/ c >= z)
        <4>1. c \in Nat /\ m.header[c] \in Int  BY <1>1, <2>2
        <4>2. c < at \/ c >= z  BY <1>1, <2>2, <4>1
        <4>3. e > c /\ e \in Nat  BY <3>1, <3>2, <4>1 DEF After
        <4> QED  BY <4>1, <4>2, <4>3
      <3>5. \A x \in c..e - 1 : x \notin g.bitmap  BY <3>2
      <3>6. e \in U \cup g.bitmap
        <4>1. CASE c < at
          <5>1. at \notin c..e - 1  BY <3>2
          <5>2. e <= at  BY <1>1, <3>4, <4>1, <5>1
          <5>3. CASE e = at  BY <5>3
          <5>4. CASE e < at
            <6>1. e \notin at..z - 1 /\ e \notin at..q - 1  BY <1>1, <3>4, <5>4
            <6> QED  BY <3>2, <6>1
          <5> QED  BY <1>1, <3>4, <5>2, <5>3, <5>4
        <4>2. CASE c >= z
          <5>1. e \notin at..z - 1 /\ e \notin at..q - 1  BY <1>1, <3>4, <4>2
          <5> QED  BY <3>2, <5>1
        <4> QED  BY <3>4, <4>1, <4>2
      <3> QED  BY <3>2, <3>3, <3>5, <3>6
    <2> QED  BY <2>1, <2>2
  <1> QED  BY <1>2, <1>3, <1>4, <1>5, <1>6 DEF Tiling

\* One of the hints of list l is at a place of the region or right behind it.
Leads(m, l, a, z) ==
  \E i \in 1..Len(m.free_lists[l]) : a <= m.free_lists[l][i] /\ m.free_lists[l][i] <= z

\* A hint that is filed leads to the region it is at, and others stay.
LEMMA FileHintLeads ==
  ASSUME NEW m \in MemoryType, NEW n \in Nat \ {0}, NEW at \in 0..MaxCells,
         NEW l \in 1..NR_SIZES + 1, NEW a, NEW z,
         Leads(m, l, a, z) \/ (l = getBestFit(n) /\ a <= at /\ at <= z)
  PROVE  Leads(FileHint(m, n, at), l, a, z)
  <1> DEFINE k == getBestFit(n)
             g == FileHint(m, n, at)
  <1>1. k \in 1..NR_SIZES + 1  BY BestFit
  <1>2. PICK s : s = m.free_lists[l]  OBVIOUS
  <1>3. s \in Seq(0..MaxCells)  BY <1>2 DEF MemoryType
  <1>4. g.free_lists[l] = IF l = k THEN Append(s, at) ELSE s
    BY <1>1, <1>2 DEF FileHint, MemoryType
  <1>5. /\ Len(s) \in Nat /\ Len(Append(s, at)) = Len(s) + 1
        /\ \A i \in 1..Len(s) : Append(s, at)[i] = s[i]
        /\ Append(s, at)[Len(s) + 1] = at
    BY <1>3, AppendProperties, LenProperties
  <1>6. CASE l # k  BY <1>2, <1>4, <1>6 DEF Leads
  <1>7. CASE l = k
    <2>1. g.free_lists[l] = Append(s, at)  BY <1>4, <1>7
    <2>2. \A i \in 1..Len(s) + 1 : i \in 1..Len(Append(s, at))  BY <1>5
    <2>3. CASE a <= at /\ at <= z
      <3>1. Len(s) + 1 \in 1..Len(s) + 1  BY <1>5
      <3>2. Len(s) + 1 \in 1..Len(Append(s, at))  BY <2>2, <3>1
      <3> QED  BY <1>5, <2>1, <2>3, <3>2 DEF Leads
    <2>4. CASE Leads(m, l, a, z)
      <3>1. PICK i \in 1..Len(s) : a <= s[i] /\ s[i] <= z  BY <1>2, <2>4 DEF Leads
      <3>2. i \in 1..Len(Append(s, at)) /\ Append(s, at)[i] = s[i]  BY <1>5, <3>1
      <3> QED  BY <2>1, <3>1, <3>2 DEF Leads
    <2> QED  BY <2>3, <2>4
  <1> QED  BY <1>6, <1>7

\* From a up to z is free once the block at cell at, which ends before q, has
\* left the queue. It joins the free zone, or gets a header and a hint at a.
Leaves(m, d, at, q, a, z) ==
  /\ at \in m.bitmap /\ at < m.free_zone /\ z > at /\ d \in MemoryType
  /\ d.bitmap = m.bitmap \ (at..q - 1) /\ d.bitmap \subseteq 0..m.free_zone - 1
  /\ a = 0 \/ a - 1 \in d.bitmap
  /\ \A c \in a..z - 1 : c \notin d.bitmap
  /\ \A c \in Cell \ {at} : d.header[c] = m.header[c]
  /\ \/ /\ z = m.free_zone /\ d.free_zone = a
        /\ d.free_lists = m.free_lists
     \/ /\ z \in d.bitmap /\ d.free_zone = m.free_zone /\ d.header[at] = at - z
        /\ \A l \in 1..NR_SIZES + 1 : \A b, y \in Nat :
             Leads(m, l, b, y) \/ (l = getBestFit(z - a) /\ b <= a /\ a <= y) => Leads(d, l, b, y)

\* What the block that leaves the queue leaves behind.
LEMMA DrainedLeaves ==
  ASSUME NEW m \in MemoryType, NEW used, NEW r, Accounts(m, used), Rests(m, r),
         m.dont_allocate # <<>>, m.dont_allocate[1].age = Wait
  PROVE  \E at, q, z \in Nat : \E a \in 0..at : Leaves(m, Drained(m), at, q, a, z)
  <1> DEFINE at    == m.dont_allocate[1].at
             g     == Released(m, at)
             fwd   == isFreeForward(g, at)
             back  == isFreeBackward(g, at)
  <1>1. Drained(m) = insertFreeLocation(g, at, fwd, fwd + back)  BY DEF Drained, Released
  <1>2. /\ at \in Cell \ g.bitmap /\ at < m.free_zone
        /\ g \in MemoryType /\ g.free_zone = m.free_zone /\ g.header = m.header
        /\ g.end_address = m.end_address
        /\ Accounts(g, used) /\ Rests(g, r)
    <2>1. PICK a : a = m.dont_allocate[1].at  OBVIOUS
    <2>2. PICK k : k = Released(m, a)  OBVIOUS
    <2>3. /\ a \in Cell \ k.bitmap /\ a < m.free_zone
          /\ k \in MemoryType /\ k.free_zone = m.free_zone /\ k.header = m.header
          /\ k.end_address = m.end_address
          /\ Accounts(k, used) /\ Rests(k, r)
      BY ONLY m \in MemoryType, Accounts(m, used), Rests(m, r), m.dont_allocate # <<>>,
              m.dont_allocate[1].age = Wait, <2>1, <2>2, HeadReleased
    <2>4. at = a /\ g = k  BY <2>1, <2>2
    <2> QED  BY ONLY <2>3, <2>4
  <1>3. at \in m.bitmap
    <2>1. 1 \in Queued(m)
      <3>1. m.dont_allocate \in Seq([at : Cell, age : 0..Wait])  BY DEF MemoryType
      <3>2. Len(m.dont_allocate) \in Nat \ {0}  BY <3>1, EmptySeq, LenProperties
      <3> QED  BY <3>2 DEF Queued
    <2> QED  BY <2>1, QueuedBits
  <1>4. g.bitmap = m.bitmap \ (at..at - m.header[at] - 2)  BY DEF MemoryType, Released
  <1> HIDE DEF at, g
  <1>5. MaxCells \in Nat /\ at \in 0..MaxCells /\ at \in Nat /\ m.free_zone \in 0..MaxCells
        /\ g.bitmap \subseteq Nat /\ m.free_zone \in Nat
        /\ m.header \in [Cell -> -(MaxCells + 1)..MaxCells]
    <2>1. /\ MaxCells \in Nat /\ m.free_zone \in 0..MaxCells
          /\ m.header \in [Cell -> -(MaxCells + 1)..MaxCells]
      BY NVAssumption DEF MemoryType
    <2>2. at \in Nat /\ at \in 0..MaxCells  BY <1>2, <2>1 DEF Cell
    <2>3. g.bitmap \subseteq Nat  BY <1>2 DEF MemoryType, Cell
    <2> QED  BY <2>1, <2>2, <2>3
  <1>6. PICK q \in Nat : g.bitmap = m.bitmap \ (at..q - 1)
    <2>1. m.header[at] \in Int  BY <1>2, <1>5
    <2>2. PICK y \in Int : y = at - m.header[at] - 2  BY <1>5, <2>1
    <2>3. CASE y + 1 \in Nat
      <3>1. (y + 1) - 1 = y  OBVIOUS
      <3> QED  BY <1>4, <2>2, <2>3, <3>1
    <2>4. CASE y + 1 \notin Nat
      <3>1. at..y = at..0 - 1  BY <1>5, <2>4
      <3> QED  BY <1>4, <2>2, <3>1
    <2> QED  BY <2>3, <2>4
  <1>7. /\ fwd \in 0..MaxCells /\ at + fwd <= m.free_zone
        /\ \A c \in at..at + fwd - 1 : c \notin g.bitmap
        /\ at + fwd \in g.bitmap \cup {m.free_zone}
    BY <1>2, <1>5, ForwardFree
  <1>8. /\ back \in 0..at
        /\ \A c \in at - back..at - 1 : c \notin g.bitmap
        /\ at - back = 0 \/ (at - back) - 1 \in g.bitmap
    <2>1. /\ back \in 0..at
          /\ \A c \in at - back..at - 1 : c \notin g.bitmap
      BY <1>2, <1>5, BackwardFree
    <2>2. ~ (at > g.free_zone)  BY <1>2, <1>5
    <2>3. at - back = 0 \/ (at - back) - 1 \in g.bitmap  BY <1>2, <1>5, <2>2, BackwardEnd
    <2> HIDE DEF back
    <2> QED  BY <2>1, <2>3
  <1> HIDE DEF fwd, back
  <1>9. fwd > 0  BY <1>2, <1>5, <1>7
  <1>10. PICK z \in Nat : z = at + fwd  BY <1>5, <1>7
  <1>11. PICK a \in 0..at : a = at - back  BY <1>5, <1>8
  <1>12. PICK d : d = Drained(m)  OBVIOUS
  <1>13. d \in MemoryType  BY <1>12, DrainedKeeps
  <1>14. /\ z > at /\ z <= m.free_zone
         /\ a = 0 \/ a - 1 \in g.bitmap
         /\ \A c \in a..z - 1 : c \notin g.bitmap
         /\ g.bitmap \subseteq 0..m.free_zone - 1
    <2>1. z > at /\ z <= m.free_zone  BY <1>5, <1>7, <1>9, <1>10
    <2>2. a = 0 \/ a - 1 \in g.bitmap  BY <1>8, <1>11
    <2>3. ASSUME NEW c \in a..z - 1  PROVE c \notin g.bitmap
      <3>1. at + fwd - 1 = z - 1 /\ at - back = a /\ c \in Int  BY <1>5, <1>7, <1>10, <1>11
      <3>2. c \in at..z - 1 \/ c \in a..at - 1  BY <1>5, <2>1, <3>1
      <3> QED  BY <1>7, <1>8, <3>1, <3>2
    <2>4. g.bitmap \subseteq 0..m.free_zone - 1  BY <1>2 DEF Accounts
    <2> QED  BY <2>1, <2>2, <2>3, <2>4
  <1>15. CASE at + fwd >= m.free_zone
    <2> DEFINE k == [g EXCEPT !.free_zone = at - back, !.header[at] = 0]
    <2>1. at + fwd - (fwd + back) = at - back  BY <1>5, <1>7, <1>8
    <2>2. d = k
      BY <1>1, <1>2, <1>12, <1>15, <2>1 DEF insertFreeLocation
    <2>3. /\ k.bitmap = g.bitmap /\ k.free_zone = at - back /\ k.free_lists = g.free_lists
          /\ \A c \in Cell \ {at} : k.header[c] = m.header[c]
      BY <1>2 DEF MemoryType
    <2> HIDE DEF k
    <2>4. g.free_lists = m.free_lists  BY DEF g, Released, MemoryType
    <2>5. z = m.free_zone  BY <1>5, <1>7, <1>10, <1>15
    <2>6. Leaves(m, d, at, q, a, z)
      BY <1>2, <1>3, <1>6, <1>11, <1>13, <1>14, <2>2, <2>3, <2>4, <2>5 DEF Leaves
    <2> QED  BY <1>5, <1>12, <2>6
  <1>16. CASE ~ (at + fwd >= m.free_zone)
    <2> DEFINE k == [g EXCEPT !.header[at] = -fwd]
               p == FileHint(k, fwd + back, at + fwd - (fwd + back))
    <2>1. d = IF fwd = fwd + back THEN p ELSE FileHint(p, fwd, at)
      BY <1>1, <1>2, <1>12, <1>16 DEF insertFreeLocation
    <2>2. k \in MemoryType
      <3>1. -fwd \in -(MaxCells + 1)..MaxCells  BY <1>5, <1>7
      <3>2. [g.header EXCEPT ![at] = -fwd] \in [Cell -> -(MaxCells + 1)..MaxCells]
        BY <1>2, <1>5, <3>1
      <3> QED  BY <1>2, <3>2 DEF MemoryType
    <2>3. k.bitmap = g.bitmap /\ k.free_zone = m.free_zone /\ k.free_lists = g.free_lists
          /\ k.header[at] = -fwd /\ \A c \in Cell \ {at} : k.header[c] = m.header[c]
      BY <1>2, <1>5 DEF MemoryType
    <2> HIDE DEF k
    <2>4. fwd + back \in Nat \ {0} /\ at + fwd - (fwd + back) \in 0..MaxCells
          /\ fwd \in Nat \ {0} /\ fwd + back = z - a /\ at + fwd - (fwd + back) = a
      BY <1>5, <1>7, <1>8, <1>9, <1>10, <1>11
    <2>5. /\ p.bitmap = k.bitmap /\ p.free_zone = k.free_zone /\ p.header = k.header
          /\ p \in MemoryType
      <3>1. p.bitmap = k.bitmap /\ p.free_zone = k.free_zone /\ p.header = k.header
        BY <2>2, FileHintBits
      <3>2. p \in MemoryType  BY <2>2, <2>4, FileHintType
      <3> QED  BY <3>1, <3>2
    <2>6. ASSUME NEW l \in 1..NR_SIZES + 1, NEW b \in Nat, NEW y \in Nat,
                 Leads(m, l, b, y) \/ (l = getBestFit(z - a) /\ b <= a /\ a <= y)
          PROVE  Leads(p, l, b, y)
      <3>1. g.free_lists = m.free_lists  BY DEF g, Released, MemoryType
      <3>2. Leads(k, l, b, y) \/ (l = getBestFit(fwd + back) /\ b <= a /\ a <= y)
        BY <2>3, <2>4, <2>6, <3>1 DEF Leads
      <3> QED  BY <2>2, <2>4, <3>2, FileHintLeads
    <2> HIDE DEF p
    <2>7. d.bitmap = k.bitmap /\ d.free_zone = k.free_zone /\ d.header = k.header
      <3>1. LET f == FileHint(p, fwd, at)
            IN  f.bitmap = p.bitmap /\ f.free_zone = p.free_zone /\ f.header = p.header
        BY <2>5, FileHintBits
      <3>2. d = p \/ d = FileHint(p, fwd, at)  BY <2>1
      <3> QED  BY <2>5, <3>1, <3>2
    <2>8. \A l \in 1..NR_SIZES + 1 : \A b, y \in Nat :
            Leads(m, l, b, y) \/ (l = getBestFit(z - a) /\ b <= a /\ a <= y) => Leads(d, l, b, y)
      <3>1. SUFFICES ASSUME NEW l \in 1..NR_SIZES + 1, NEW b \in Nat, NEW y \in Nat,
                            Leads(p, l, b, y)
                     PROVE  Leads(d, l, b, y)
        BY <2>6
      <3>2. Leads(FileHint(p, fwd, at), l, b, y)  BY <1>5, <2>4, <2>5, <3>1, FileHintLeads
      <3> QED  BY <2>1, <3>1, <3>2
    <2>9. z \in g.bitmap /\ -fwd = at - z  BY <1>5, <1>7, <1>10, <1>16
    <2>10. Leaves(m, d, at, q, a, z)
      BY <1>2, <1>3, <1>6, <1>13, <1>14, <2>3, <2>7, <2>8, <2>9 DEF Leaves
    <2> QED  BY <1>5, <1>12, <2>10
  <1> QED  BY <1>15, <1>16

\* The block that leaves the queue leaves a tiling behind.
LEMMA DrainedTiling ==
  ASSUME NEW m \in MemoryType, NEW used, NEW r, Accounts(m, used), Rests(m, r),
         m.dont_allocate # <<>>, m.dont_allocate[1].age = Wait,
         NEW T, Tiling(m, T)
  PROVE  \E U : Tiling(Drained(m), U)
  <1>1. PICK d : d = Drained(m)  OBVIOUS
  <1>2. PICK at \in Nat, q \in Nat, z \in Nat, a \in Nat : a <= at /\ Leaves(m, d, at, q, a, z)
    <2>1. \A e \in Nat : \A c \in 0..e : c \in Nat /\ c <= e  OBVIOUS
    <2> QED  BY <1>1, <2>1, DrainedLeaves
  <1>3. /\ at \in Nat /\ q \in Nat /\ z \in Nat /\ a \in 0..at
        /\ at \in m.bitmap /\ at < m.free_zone /\ z > at
        /\ d.bitmap = m.bitmap \ (at..q - 1) /\ d.bitmap \subseteq 0..m.free_zone - 1
        /\ a = 0 \/ a - 1 \in d.bitmap
        /\ \A c \in a..z - 1 : c \notin d.bitmap
    BY <1>2 DEF Leaves
  <1>4. MaxCells \in Nat /\ m.free_zone \in 0..MaxCells /\ m.free_zone \in Nat
    BY NVAssumption DEF MemoryType
  <1>5. \A c \in T : d.header[c] = m.header[c]
    <2>1. T \subseteq 0..m.free_zone - 1 /\ T \cap m.bitmap = {}  BY DEF Tiling
    <2>2. T \subseteq Cell \ {at}  BY <1>3, <1>4, <2>1 DEF Cell
    <2> QED  BY <1>2, <2>2 DEF Leaves
  <1>6. CASE z = m.free_zone /\ d.free_zone = a
    <2>1. d.bitmap \subseteq 0..a - 1
      <3>1. \A c \in d.bitmap : c \in 0..m.free_zone - 1 /\ c \notin a..z - 1  BY <1>3
      <3> QED  BY <1>3, <1>4, <1>6, <3>1
    <2>2. a = 0 \/ a - 1 \in m.bitmap  BY <1>3
    <2>3. Tiling(d, {c \in T : c < a})
      <3>1. \A c \in T : c < a => d.header[c] = m.header[c]  BY <1>5
      <3> QED  BY ONLY m \in MemoryType, Tiling(m, T), <1>3, <1>6, <2>1, <2>2, <3>1, TilingJoined
    <2> QED  BY <1>1, <2>3
  <1>7. CASE z \in d.bitmap /\ d.free_zone = m.free_zone /\ d.header[at] = at - z
    <2>1. z < m.free_zone  BY <1>3, <1>4, <1>7
    <2>2. \A c \in at..z - 1 : c \notin d.bitmap
      <3>1. \A c \in at..z - 1 : c \in a..z - 1  BY <1>3
      <3> QED  BY <1>3, <3>1
    <2>3. Tiling(d, (T \ (at..z - 1)) \cup {at})
      BY <1>3, <1>5, <1>7, <2>1, <2>2, TilingFreed
    <2> QED  BY <1>1, <2>3
  <1> QED  BY <1>2, <1>6, <1>7 DEF Leaves

\* incrementTime keeps a tiling.
LEMMA IncrementTimeTiling ==
  ASSUME NEW m \in MemoryType, NEW used, NEW r, Accounts(m, used), Rests(m, r),
         NEW T, Tiling(m, T)
  PROVE  \E U : Tiling(incrementTime(m), U)
  <1>1. CASE m.dont_allocate = <<>> \/ Head(m.dont_allocate).age < Wait
    BY <1>1 DEF incrementTime
  <1>2. CASE ~ (m.dont_allocate = <<>> \/ Head(m.dont_allocate).age < Wait)
    <2>1. m.dont_allocate[1].age = Wait  BY <1>2, WaitOver
    <2>2. incrementTime(m) = Drained(m)  BY <1>2 DEF incrementTime
    <2>3. \E U : Tiling(Drained(m), U)  BY <1>2, <2>1, DrainedTiling
    <2> QED  BY <2>2, <2>3
  <1> QED  BY <1>1, <1>2

\* Time alone moves no header.
LEMMA ElapsedBits ==
  ASSUME NEW m \in MemoryType, NEW d
  PROVE  LET g == Elapsed(m, d)
         IN  g.bitmap = m.bitmap /\ g.free_zone = m.free_zone /\ g.header = m.header
  BY DEF Elapsed, MemoryType

\* What nvmalloc does once the block is set keeps a tiling.
LEMMA AllocateTiling ==
  ASSUME NEW m \in MemoryType, Accounts(m, live), Rests(m, rested),
         NEW b \in Blocks, \A c \in Cells(b) : c \in Cell \ m.bitmap /\ c < m.free_zone,
         NEW T, Tiling(Occupied(m, b), T),
         NEW d \in 0..Wait, Allocate(m, b, d)
  PROVE  TInv'
  <1> DEFINE o == Occupied(m, b)
             e == Elapsed(o, d)
             i == incrementTime(e)
             r == [c \in Cell |-> Later(rested[c], d)]
  <1>1. o \in MemoryType /\ Accounts(o, live \cup {b}) /\ Rests(o, rested)
    BY OccupiedAccounts
  <1>2. Becomes(i) /\ Tiling(o, T)  BY DEF Allocate
  <1> HIDE DEF o
  <1>3. e \in MemoryType /\ Accounts(e, live \cup {b}) /\ Rests(e, r)
    BY <1>1, ElapsedKeeps
  <1>4. e.bitmap = o.bitmap /\ e.free_zone = o.free_zone /\ e.header = o.header
    BY <1>1, ElapsedBits
  <1> HIDE DEF e, r
  <1>5. Tiling(e, T)  BY <1>2, <1>4, SameTiling
  <1>6. \E U : Tiling(i, U)  BY <1>3, <1>5, IncrementTimeTiling
  <1>7. i \in MemoryType  BY <1>3, IncrementTimeKeeps
  <1> HIDE DEF i
  <1>8. Memory' = i  BY <1>2, <1>7, BecomesMemory
  <1> QED  BY <1>6, <1>8 DEF TInv

\* nvmalloc from a listed region keeps a tiling.
LEMMA MallocRegionTiling ==
  ASSUME IInv, TInv, NEW n \in 1..MaxSize, NEW d \in 0..Wait, MallocRegion(n, d)
  PROVE  TInv'
  <1> DEFINE h == FirstOf(Fitting(Memory, n))
             p == Memory.free_lists[h[1]][h[2]]
             r == Region(Memory, p)
             m == Dropped(Memory, n, h)
             g == TakeFrom(m, r, n)
             b == [at |-> r.at, size |-> n]
  <1>1. MaxSize \in Nat /\ MaxCells \in Nat  BY NVAssumption
  <1>2. n \in Nat \ {0}  BY <1>1
  <1>3. Memory \in MemoryType /\ Accounts(Memory, live) /\ Rests(Memory, rested)  BY DEF IInv
  <1>4. PICK T : Tiling(Memory, T)  BY DEF TInv
  <1>5. Memory.free_lists = free_lists  BY DEF Memory
  <1>6. Fitting(Memory, n) # {} /\ Allocate(g, b, d)  BY <1>5 DEF MallocRegion
  <1>7. /\ h \in Nat \X Nat /\ p \in 0..MaxCells
        /\ r.at \in Nat /\ r.size \in Nat /\ r.size >= n
        /\ \A c \in r.at..r.at + r.size - 1 : c \in Cell \ Memory.bitmap /\ c < Memory.free_zone
    BY <1>2, <1>3, <1>6, FittingRegion, Zenon
  <1>8. p \in 0..MaxCells  BY <1>7
  <1>9. /\ r.at \in T /\ (r.at = 0 \/ r.at - 1 \in Memory.bitmap)
        /\ r.at + r.size \in Memory.bitmap
    <2>1. r.size > 0  BY <1>2, <1>7
    <2> HIDE DEF p
    <2> QED  BY SMTT(30), <1>3, <1>4, <1>8, <2>1, RegionWhole
  <1>10. /\ m \in MemoryType /\ m.bitmap = Memory.bitmap /\ m.free_zone = Memory.free_zone
         /\ Accounts(m, live) /\ Rests(m, rested) /\ m.header = Memory.header
    <2> HIDE DEF h
    <2>1. m.header = Memory.header  BY <1>3, DroppedBits
    <2> QED  BY <1>2, <1>3, <1>7, <2>1, DroppedKeeps
  <1> HIDE DEF h, p, r, m
  <1>11. Tiling(m, T)  BY <1>4, <1>10, SameTiling
  <1>12. \A c \in r.at..r.at + r.size - 1 : c \in Cell \ m.bitmap  BY <1>7, <1>10
  <1>13. /\ g \in MemoryType /\ g.bitmap = m.bitmap /\ g.free_zone = m.free_zone
         /\ Accounts(g, live) /\ Rests(g, rested)
    BY <1>2, <1>7, <1>10, <1>12, TakeFromKeeps
  <1>14. b.at = r.at /\ b.size = n  OBVIOUS
  <1>15. \A c \in Cells(b) : c \in Cell \ g.bitmap /\ c < g.free_zone
    <2>1. \A c \in Cells(b) : c \in r.at..r.at + r.size - 1  BY <1>2, <1>7, <1>14 DEF Cells
    <2> HIDE DEF g
    <2> QED  BY <1>7, <1>10, <1>13, <2>1
  <1>16. b \in Blocks
    <2>1. r.at \in Cells(b)  BY <1>2, <1>7, <1>14 DEF Cells
    <2>2. r.at \in Cell  BY <1>15, <2>1
    <2> QED  BY <2>2 DEF Blocks
  <1> HIDE DEF b
  <1>17. \E U : Tiling(Occupied(g, b), U)
    <2>1. PICK k \in MemoryType : k = TakeFrom(m, r, n)  BY <1>13
    <2>2. m.bitmap \subseteq 0..m.free_zone - 1  BY <1>10 DEF Accounts
    <2>3. r.at = 0 \/ r.at - 1 \in m.bitmap  BY <1>9, <1>10
    <2>4. r.at + r.size \in m.bitmap  BY <1>9, <1>10
    <2>5. \E U : Tiling(Occupied(k, b), U)
      BY ONLY <1>2, <1>7, <1>9, <1>10, <1>11, <1>12, <1>14, <1>16, <2>1, <2>2, <2>3, <2>4,
              TakenTiling
    <2> QED  BY <2>1, <2>5
  <1> HIDE DEF g
  <1> QED  BY <1>6, <1>13, <1>15, <1>16, <1>17, AllocateTiling

\* nvmalloc from the free zone keeps a tiling.
LEMMA MallocZoneTiling ==
  ASSUME IInv, TInv, NEW n \in 1..MaxSize, NEW d \in 0..Wait, MallocZone(n, d)
  PROVE  TInv'
  <1>1. PICK g, b : Advanced(g, b, n) /\ Allocate(g, b, d)  BY MallocZoneAdvances
  <1>2. PICK T : Tiling(Memory, T)  BY DEF TInv
  <1>3. /\ Memory \in MemoryType /\ Memory.bitmap = bitmap /\ Memory.header = header
        /\ Memory.free_zone = free_zone
    BY DEF IInv, Memory
  <1>4. n \in Nat \ {0}  BY NVAssumption
  <1>5. Tiling(Occupied(g, b), T)  BY <1>1, <1>2, <1>3, <1>4, ZoneTiling DEF Advanced
  <1> QED  BY <1>1, <1>5, AllocateTiling DEF Advanced

\* nvmalloc that fails changes no header.
LEMMA MallocFailsTiling ==
  ASSUME IInv, TInv, NEW n \in 1..MaxSize, MallocFails(n)
  PROVE  TInv'
  <1> DEFINE g == Searched(n)
  <1>1. PICK T : Tiling(Memory, T)  BY DEF TInv
  <1>2. /\ g \in MemoryType /\ g.bitmap = bitmap /\ g.free_zone = free_zone
        /\ g.header = header
    BY SearchedKeeps
  <1>3. Becomes(g)  BY DEF MallocFails
  <1> HIDE DEF g
  <1>4. Memory' = g  BY <1>2, <1>3, BecomesMemory
  <1>5. /\ Memory.bitmap = bitmap /\ Memory.header = header /\ Memory.free_zone = free_zone
    BY DEF Memory
  <1>6. Tiling(g, T)  BY <1>1, <1>2, <1>5, SameTiling
  <1> QED  BY <1>4, <1>6 DEF TInv

\* nvfree changes the header of the block it frees and then, maybe, tiles anew
\* around the block that leaves the queue.
LEMMA FreeTiling ==
  ASSUME IInv, TInv, NEW b \in live, NEW d \in 0..Wait, Free(b, d)
  PROVE  TInv'
  <1> DEFINE p == putInDNAList(Memory, b.at)
             e == Elapsed(p, d)
             i == incrementTime(e)
             r0 == [c \in Cell |-> IF c \in Cells(b) THEN 0 ELSE rested[c]]
             r == [c \in Cell |-> Later(r0[c], d)]
  <1>1. Memory \in MemoryType /\ Accounts(Memory, live) /\ Rests(Memory, rested)  BY DEF IInv
  <1>2. PICK T : Tiling(Memory, T)  BY DEF TInv
  <1>3. Becomes(i)  BY DEF Free
  <1>4. p \in MemoryType /\ Accounts(p, live \ {b}) /\ Rests(p, r0)
    BY <1>1, PutInDNAListKeeps
  <1>5. p.bitmap = Memory.bitmap /\ p.free_zone = Memory.free_zone
        /\ \A c \in Cell \ {b.at} : p.header[c] = Memory.header[c]
    BY <1>1 DEF putInDNAList, MemoryType
  <1>6. b.at \in Memory.bitmap  BY <1>1, UsedBits
  <1>7. T \subseteq Cell \ {b.at}
    <2>1. T \subseteq 0..Memory.free_zone - 1 /\ T \cap Memory.bitmap = {}  BY <1>2 DEF Tiling
    <2>2. MaxCells \in Nat /\ Memory.free_zone \in 0..MaxCells
      BY <1>1, NVAssumption DEF MemoryType
    <2>3. T \subseteq Cell  BY <2>1, <2>2 DEF Cell
    <2> QED  BY <1>6, <2>1, <2>3
  <1> HIDE DEF p, r0
  <1>8. Tiling(p, T)
    <2>1. \A c \in T : p.header[c] = Memory.header[c]  BY <1>5, <1>7
    <2> QED  BY <1>2, <1>5, <2>1, SameTiling
  <1>9. e \in MemoryType /\ Accounts(e, live \ {b}) /\ Rests(e, r)
    BY <1>4, ElapsedKeeps
  <1>10. e.bitmap = p.bitmap /\ e.free_zone = p.free_zone /\ e.header = p.header
    BY <1>4, ElapsedBits
  <1> HIDE DEF e, r
  <1>11. Tiling(e, T)  BY <1>8, <1>10, SameTiling
  <1>12. \E U : Tiling(i, U)  BY <1>9, <1>11, IncrementTimeTiling
  <1>13. i \in MemoryType  BY <1>9, IncrementTimeKeeps
  <1> HIDE DEF i
  <1>14. Memory' = i  BY <1>3, <1>13, BecomesMemory
  <1> QED  BY <1>12, <1>14 DEF TInv

\* Every step keeps a tiling.
LEMMA NextTiling ==
  ASSUME IInv, TInv, [Next]_vars
  PROVE  TInv'
  <1>1. ASSUME NEW n \in 1..MaxSize, NEW d \in 0..Wait, MallocRegion(n, d)  PROVE TInv'
    BY <1>1, MallocRegionTiling
  <1>2. ASSUME NEW n \in 1..MaxSize, NEW d \in 0..Wait, MallocZone(n, d)  PROVE TInv'
    BY <1>2, MallocZoneTiling
  <1>3. ASSUME NEW n \in 1..MaxSize, MallocFails(n)  PROVE TInv'
    BY <1>3, MallocFailsTiling
  <1>4. ASSUME NEW b \in live, NEW d \in 0..Wait, Free(b, d)  PROVE TInv'
    BY <1>4, FreeTiling
  <1>5. CASE UNCHANGED vars
    <2>1. Memory' = Memory  BY <1>5 DEF vars, Memory
    <2> QED  BY <2>1 DEF TInv
  <1> QED  BY <1>1, <1>2, <1>3, <1>4, <1>5 DEF Next

\* At the start there is nothing to tile.
LEMMA InitTiling == Init => TInv
  <1> SUFFICES ASSUME Init  PROVE TInv  OBVIOUS
  <1>1. Memory.bitmap = {} /\ Memory.free_zone = 0  BY DEF Init, Memory
  <1>2. Tiling(Memory, {})  BY <1>1 DEF Tiling
  <1> QED  BY <1>2 DEF TInv

\* The free regions below the free zone: each starts at a header of the tiling
\* and ends at a bit.
LEMMA FreeRegionRun ==
  ASSUME IInv, NEW T, Tiling(Memory, T), NEW r \in FreeRegions
  PROVE  /\ r.at \in T /\ r.at \in Nat /\ r.size \in Nat \ {0}
         /\ r = [at |-> r.at, size |-> r.size]
         /\ r.at + r.size \in Memory.bitmap
         /\ r.at = 0 \/ r.at - 1 \in Memory.bitmap
         /\ \A x \in r.at..r.at + r.size - 1 : x \notin Memory.bitmap
  <1>1. /\ Memory \in MemoryType /\ Memory.bitmap = bitmap /\ Memory.free_zone = free_zone
        /\ MaxCells \in Nat /\ free_zone \in 0..MaxCells /\ free_zone \in Nat
        /\ bitmap \subseteq Nat
    <2>1. Memory \in MemoryType /\ Memory.bitmap = bitmap /\ Memory.free_zone = free_zone
      BY DEF IInv, Memory
    <2> QED  BY SMTT(30), <2>1, NVAssumption DEF MemoryType, Cell
  <1>2. PICK c \in 0..free_zone - 1 \ bitmap :
          /\ c - 1 \notin 0..free_zone - 1 \ bitmap
          /\ r = [at |-> c, size |-> isFreeForward(Memory, c)]
    BY DEF FreeRegions
  <1>3. PICK f : f = isFreeForward(Memory, c)  OBVIOUS
  <1>4. r.at = c /\ r.size = f /\ r = [at |-> c, size |-> f]  BY <1>2, <1>3
  <1>5. c = 0 \/ c - 1 \in bitmap  BY <1>1, <1>2
  <1>6. c \in T  BY <1>1, <1>2, <1>5 DEF Tiling
  <1>7. /\ f \in 0..MaxCells /\ \A x \in c..c + f - 1 : x \notin bitmap
        /\ c + f \in bitmap \cup {free_zone} /\ c + f <= free_zone
    <2>1. c \in 0..MaxCells /\ c < Memory.free_zone  BY <1>1
    <2> QED  BY <1>1, <1>3, <2>1, ForwardFree
  <1>8. f # 0
    <2>1. SUFFICES ASSUME f = 0  PROVE FALSE  OBVIOUS
    <2>2. c \in bitmap \cup {free_zone}  BY <1>1, <1>7, <2>1
    <2> QED  BY <1>1, <1>2, <2>2
  <1>9. c + f \in bitmap
    <2>1. SUFFICES ASSUME c + f = free_zone  PROVE FALSE  BY <1>7
    <2>2. free_zone - 1 \in c..c + f - 1 /\ free_zone > 0  BY <1>1, <1>7, <1>8, <2>1
    <2>3. free_zone - 1 \in bitmap  BY <1>1, <2>2 DEF Tiling
    <2> QED  BY <1>7, <2>2, <2>3
  <1>10. c \in Nat /\ f \in Nat \ {0}  BY <1>1, <1>2, <1>7, <1>8
  <1> QED  BY <1>1, <1>4, <1>5, <1>6, <1>7, <1>9, <1>10

\* Every free region is tiled by the headers in it, whatever was split and
\* merged, so that no search of nvmalloc ends in "Header corruption
\* detected!", and none borders on the free zone.
THEOREM RegionsStayTiled == Spec => []RegionsTiled
  <1>1. Init => IInv /\ TInv  BY InitIInv, InitTiling
  <1>2. IInv /\ TInv /\ [Next]_vars => IInv' /\ TInv'  BY NextStep, NextTiling
  <1>3. IInv /\ TInv => RegionsTiled
    <2> SUFFICES ASSUME IInv, TInv  PROVE RegionsTiled  OBVIOUS
    <2>1. PICK T : Tiling(Memory, T)  BY DEF TInv
    <2>2. Memory \in MemoryType /\ Memory.bitmap = bitmap /\ Memory.free_zone = free_zone
      BY DEF IInv, Memory
    <2>3. ASSUME NEW r \in FreeRegions  PROVE Tiled(Memory, r)
      BY <2>1, <2>2, FreeRegionRun, TilingWalk
    <2>4. free_zone > 0 => free_zone - 1 \in bitmap  BY <2>1, <2>2 DEF Tiling
    <2> QED  BY <2>3, <2>4 DEF RegionsTiled
  <1> QED  BY <1>1, <1>2, <1>3, PTL DEF Spec

-----------------------------------------------------------------------------
\* From a up to z is a free region below the free zone, as a whole.
Run(m, a, z) ==
  /\ a \in Nat /\ z \in Nat /\ a < z
  /\ a = 0 \/ a - 1 \in m.bitmap
  /\ z \in m.bitmap
  /\ \A c \in a..z - 1 : c \notin m.bitmap

\* A free region from a up to z that no request for up to e cells has passed.
Unpassed(m, e, a, z) == Run(m, a, z) /\ (z - a <= NR_SIZES \/ z - a >= e)

\* Every such region has a hint in the list for its size.
Hinted(m, e) ==
  \A a, z \in Nat : Unpassed(m, e, a, z) => Leads(m, getBestFit(z - a), a, z)

HInv == largest \in 0..MaxSize /\ Hinted(Memory, largest)

\* Two whole regions that share a cell are one.
LEMMA RunsMeet ==
  ASSUME NEW m, NEW a, NEW z, Run(m, a, z), NEW b, NEW y, Run(m, b, y),
         b < z, a < y
  PROVE  a = b /\ z = y
  <1>1. /\ a \in Nat /\ z \in Nat /\ a < z /\ b \in Nat /\ y \in Nat /\ b < y
        /\ \A c \in a..z - 1 : c \notin m.bitmap
        /\ \A c \in b..y - 1 : c \notin m.bitmap
    BY DEF Run
  <1>2. ~ (a < b)
    <2>1. SUFFICES ASSUME a < b  PROVE FALSE  OBVIOUS
    <2>2. b - 1 \in a..z - 1 /\ b # 0  BY <1>1, <2>1
    <2> QED  BY <1>1, <2>2 DEF Run
  <1>3. ~ (b < a)
    <2>1. SUFFICES ASSUME b < a  PROVE FALSE  OBVIOUS
    <2>2. a - 1 \in b..y - 1 /\ a # 0  BY <1>1, <2>1
    <2> QED  BY <1>1, <2>2 DEF Run
  <1>4. ~ (z < y)
    <2>1. SUFFICES ASSUME z < y  PROVE FALSE  OBVIOUS
    <2>2. z \in b..y - 1  BY <1>1, <2>1
    <2> QED  BY <1>1, <2>2 DEF Run
  <1>5. ~ (y < z)
    <2>1. SUFFICES ASSUME y < z  PROVE FALSE  OBVIOUS
    <2>2. y \in a..z - 1  BY <1>1, <2>1
    <2> QED  BY <1>1, <2>2 DEF Run
  <1> QED  BY <1>1, <1>2, <1>3, <1>4, <1>5

\* A hint leads to a region if and only if it is at a place of it or right
\* behind it.
LEMMA RunRegion ==
  ASSUME NEW m \in MemoryType, m.bitmap \subseteq 0..m.free_zone - 1,
         NEW a, NEW z, Run(m, a, z), NEW h, h \in Nat, a <= h, h <= z
  PROVE  Region(m, h) = [at |-> a, size |-> z - a]
  <1> DEFINE f == isFreeForward(m, h)
             k == isFreeBackward(m, h)
  <1>1. /\ MaxCells \in Nat /\ m.free_zone \in 0..MaxCells /\ m.free_zone \in Nat
        /\ a \in Nat /\ z \in Nat /\ a < z /\ z < m.free_zone /\ h \in 0..MaxCells
        /\ h < m.free_zone
        /\ \A c \in a..z - 1 : c \notin m.bitmap
    <2>1. MaxCells \in Nat /\ m.free_zone \in 0..MaxCells  BY NVAssumption DEF MemoryType
    <2>2. /\ a \in Nat /\ z \in Nat /\ a < z /\ z \in m.bitmap
          /\ \A c \in a..z - 1 : c \notin m.bitmap
      BY DEF Run
    <2>3. z < m.free_zone  BY <2>1, <2>2
    <2> QED  BY <2>1, <2>2, <2>3
  <1>2. Region(m, h) = [at |-> h - k, size |-> f + k]  BY DEF Region
  <1>3. /\ f \in 0..MaxCells /\ h + f \in m.bitmap \cup {m.free_zone}
        /\ \A c \in h..h + f - 1 : c \notin m.bitmap
    BY <1>1, ForwardFree
  <1>4. /\ k \in 0..h
        /\ \A c \in h - k..h - 1 : c \notin m.bitmap
        /\ h - k = 0 \/ (h - k) - 1 \in m.bitmap
    <2>1. /\ k \in 0..h
          /\ \A c \in h - k..h - 1 : c \notin m.bitmap
      BY <1>1, BackwardFree
    <2>2. ~ (h > m.free_zone)  BY <1>1
    <2>3. h - k = 0 \/ (h - k) - 1 \in m.bitmap  BY <1>1, <2>2, BackwardEnd
    <2> HIDE DEF k
    <2> QED  BY <2>1, <2>3
  <1> HIDE DEF f, k
  <1>5. h + f = z
    <2>1. ~ (h + f < z)
      <3>1. SUFFICES ASSUME h + f < z  PROVE FALSE  OBVIOUS
      <3>2. h + f \in a..z - 1 /\ h + f # m.free_zone  BY <1>1, <1>3, <3>1
      <3> QED  BY <1>1, <1>3, <3>2
    <2>2. ~ (h + f > z)
      <3>1. SUFFICES ASSUME h + f > z  PROVE FALSE  OBVIOUS
      <3>2. z \in h..h + f - 1  BY <1>1, <1>3, <3>1
      <3>3. z \in m.bitmap  BY DEF Run
      <3> QED  BY <1>3, <3>2, <3>3
    <2> QED  BY <1>1, <1>3, <2>1, <2>2
  <1>6. h - k = a
    <2>1. ~ (h - k < a)
      <3>1. SUFFICES ASSUME h - k < a  PROVE FALSE  OBVIOUS
      <3>2. a - 1 \in h - k..h - 1 /\ a # 0  BY <1>1, <1>4, <3>1
      <3>3. a - 1 \in m.bitmap  BY <3>2 DEF Run
      <3> QED  BY <1>4, <3>2, <3>3
    <2>2. ~ (h - k > a)
      <3>1. SUFFICES ASSUME h - k > a  PROVE FALSE  OBVIOUS
      <3>2. (h - k) - 1 \in a..z - 1 /\ h - k # 0  BY <1>1, <1>4, <3>1
      <3> QED  BY <1>1, <1>4, <3>2
    <2> QED  BY <1>1, <1>4, <2>1, <2>2
  <1>7. f + k = z - a  BY <1>1, <1>3, <1>4, <1>5, <1>6
  <1> QED  BY <1>2, <1>6, <1>7

\* The hints behind the one a search takes stay, and those in smaller lists.
LEMMA DroppedLeads ==
  ASSUME NEW m \in MemoryType, NEW n \in Nat \ {0}, NEW h \in Nat \X Nat,
         NEW l \in 1..NR_SIZES + 1, NEW i \in 1..Len(m.free_lists[l]), NEW a, NEW z,
         a <= m.free_lists[l][i], m.free_lists[l][i] <= z,
         \/ l < getBestFit(n) /\ l # h[1]
         \/ h[1] < l
         \/ h[1] = l /\ h[2] < i
  PROVE  Leads(Dropped(m, n, h), l, a, z)
  <1> DEFINE g == Dropped(m, n, h)
  <1>1. /\ getBestFit(n) \in Nat /\ NR_SIZES \in Nat /\ l \in Nat
        /\ h[1] \in Nat /\ h[2] \in Nat
    <2>1. getBestFit(n) \in 1..NR_SIZES + 1 /\ NR_SIZES \in Nat  BY BestFit, NVAssumption
    <2> QED  BY <2>1
  <1>2. PICK s : s = m.free_lists[l]  OBVIOUS
  <1>3. s \in Seq(0..MaxCells) /\ Len(s) \in Nat
    <2>1. s \in Seq(0..MaxCells)  BY <1>2 DEF MemoryType
    <2> QED  BY <2>1, LenProperties
  <1>4. g.free_lists[l] = IF l \in getBestFit(n)..h[1] - 1 THEN <<>>
                          ELSE IF l = h[1] THEN SubSeq(s, h[2] + 1, Len(s))
                          ELSE s
    <2>1. DOMAIN m.free_lists = 1..NR_SIZES + 1  BY DEF MemoryType
    <2>2. g.free_lists = [k \in DOMAIN m.free_lists |->
                            IF k \in getBestFit(n)..h[1] - 1 THEN <<>>
                            ELSE IF k = h[1] THEN SubSeq(m.free_lists[k], h[2] + 1, Len(m.free_lists[k]))
                            ELSE m.free_lists[k]]
      BY DEF Dropped, MemoryType
    <2> HIDE DEF g
    <2> QED  BY <1>2, <2>1, <2>2
  <1>5. l \notin getBestFit(n)..h[1] - 1  BY <1>1
  <1> HIDE DEF g
  <1>6. CASE l # h[1]
    <2>1. g.free_lists[l] = m.free_lists[l]  BY <1>2, <1>4, <1>5, <1>6
    <2> QED  BY <2>1 DEF Leads, g
  <1>7. CASE l = h[1]
    <2>1. g.free_lists[l] = SubSeq(s, h[2] + 1, Len(s))  BY <1>4, <1>5, <1>7
    <2>2. PICK k : k = h[2]  OBVIOUS
    <2>3. k \in Nat /\ k < i /\ i \in 1..Len(s) /\ i \in Nat  BY <1>1, <1>2, <1>3, <1>7, <2>2
    <2>4. /\ Len(SubSeq(s, k + 1, Len(s))) = Len(s) - k
          /\ SubSeq(s, k + 1, Len(s))[i - k] = s[i]
          /\ i - k \in 1..Len(s) - k
      <3>1. \A j \in k + 1..Len(s) : s[j] \in 0..MaxCells
        <4>1. \A j \in k + 1..Len(s) : j \in 1..Len(s)  BY <1>3, <2>3
        <4> QED  BY <1>3, <4>1, ElementOfSeq
      <3>2. k + 1 \in Nat /\ Len(s) \in Nat /\ k + 1 <= Len(s) + 1  BY <1>3, <2>3
      <3>3. PICK q : q = SubSeq(s, k + 1, Len(s))  OBVIOUS
      <3>4. q = [j \in 1..Len(s) - k |-> s[j + k]] /\ Len(q) = Len(s) - k
        BY <1>3, <2>3, <3>1, <3>2, <3>3, SubSeqProperties
      <3>5. i - k \in 1..Len(s) - k /\ (i - k) + k = i  BY <1>3, <2>3
      <3> QED  BY <3>3, <3>4, <3>5
    <2>5. i - k \in 1..Len(g.free_lists[l]) /\ g.free_lists[l][i - k] = m.free_lists[l][i]
      BY <1>2, <2>1, <2>2, <2>4
    <2> QED  BY <2>5 DEF Leads, g
  <1> QED  BY <1>6, <1>7

\* Only bits and hints matter to what the hints lead to.
LEMMA SameHinted ==
  ASSUME NEW m, NEW e, Hinted(m, e),
         NEW g, g.bitmap = m.bitmap, g.free_lists = m.free_lists
  PROVE  Hinted(g, e)
  BY DEF Hinted, Unpassed, Run, Leads

\* The most cells asked for, a request of n cells included.
LEMMA LargerNat ==
  ASSUME largest \in 0..MaxSize, NEW n \in 1..MaxSize
  PROVE  /\ Larger(n) \in 0..MaxSize /\ Larger(n) \in Nat /\ largest \in Nat
         /\ n <= Larger(n) /\ largest <= Larger(n)
  BY NVAssumption DEF Larger

\* With a request of n cells, fewer regions are unpassed, and those are large
\* enough for it or in an exact list.
LEMMA StillUnpassed ==
  ASSUME NEW m, NEW e \in Nat, NEW n \in Nat \ {0}, NEW f \in Nat, n <= f, e <= f,
         NEW a, NEW z, Unpassed(m, f, a, z)
  PROVE  Unpassed(m, e, a, z) /\ Unpassed(m, n, a, z)
  <1>1. a \in Nat /\ z \in Nat /\ a < z  BY DEF Unpassed, Run
  <1>2. PICK s \in Nat : s = z - a  BY <1>1
  <1>3. NR_SIZES \in Nat  BY NVAssumption
  <1>4. s <= NR_SIZES \/ s >= f  BY <1>2 DEF Unpassed
  <1>5. (s <= NR_SIZES \/ s >= e) /\ (s <= NR_SIZES \/ s >= n)  BY <1>3, <1>4
  <1> QED  BY <1>2, <1>5 DEF Unpassed

\* The list of a region, and what a request that looks at that list may ask.
LEMMA FitsList ==
  ASSUME NEW m, NEW n \in Nat \ {0}, NEW a, NEW z, Unpassed(m, n, a, z)
  PROVE  /\ z - a \in Nat \ {0}
         /\ getBestFit(z - a) \in 1..NR_SIZES + 1 /\ getBestFit(n) \in 1..NR_SIZES + 1
         /\ getBestFit(n) <= getBestFit(z - a) => n <= z - a
  <1>1. a \in Nat /\ z \in Nat /\ a < z  BY DEF Unpassed, Run
  <1>2. z - a \in Nat \ {0}  BY <1>1
  <1>3. NR_SIZES \in Nat  BY NVAssumption
  <1>4. getBestFit(n) <= getBestFit(z - a) => n <= z - a
    <2>1. PICK s \in Nat : s = z - a  BY <1>2
    <2>2. s <= NR_SIZES \/ s >= n  BY <2>1 DEF Unpassed
    <2>3. getBestFit(n) <= getBestFit(s) => n <= s  BY <1>3, <2>2 DEF getBestFit
    <2> QED  BY <2>1, <2>3
  <1>5. getBestFit(z - a) \in 1..NR_SIZES + 1 /\ getBestFit(n) \in 1..NR_SIZES + 1
    BY <1>2, BestFit
  <1> QED  BY <1>2, <1>4, <1>5

\* A hint in a list that a search looks at fits if its region is large enough.
LEMMA LeadsFits ==
  ASSUME NEW m \in MemoryType, m.bitmap \subseteq 0..m.free_zone - 1,
         NEW e, Hinted(m, e), NEW n \in Nat \ {0},
         NEW a, NEW z, Unpassed(m, e, a, z), Unpassed(m, n, a, z)
  PROVE  LET l == getBestFit(z - a)
         IN  \E i \in 1..Len(m.free_lists[l]) :
               /\ a <= m.free_lists[l][i] /\ m.free_lists[l][i] <= z
               /\ Region(m, m.free_lists[l][i]) = [at |-> a, size |-> z - a]
               /\ getBestFit(n) <= l => <<l, i>> \in Fitting(m, n)
  <1>1. /\ z - a \in Nat \ {0} /\ getBestFit(z - a) \in 1..NR_SIZES + 1
        /\ getBestFit(n) \in 1..NR_SIZES + 1
        /\ getBestFit(n) <= getBestFit(z - a) => n <= z - a
    BY FitsList
  <1>2. PICK l \in 1..NR_SIZES + 1 : l = getBestFit(z - a)  BY <1>1
  <1>3. a \in Nat /\ z \in Nat /\ Run(m, a, z)  BY DEF Unpassed, Run
  <1>4. Leads(m, l, a, z)  BY <1>2, <1>3 DEF Hinted
  <1>5. PICK i \in 1..Len(m.free_lists[l]) : a <= m.free_lists[l][i] /\ m.free_lists[l][i] <= z
    BY <1>4 DEF Leads
  <1>6. m.free_lists[l][i] \in 0..MaxCells
    <2>1. m.free_lists[l] \in Seq(0..MaxCells)  BY DEF MemoryType
    <2> QED  BY <2>1, ElementOfSeq
  <1>7. PICK p \in Nat : p = m.free_lists[l][i]  BY SMTT(30), <1>6, NVAssumption
  <1>8. Region(m, p) = [at |-> a, size |-> z - a]  BY <1>3, <1>5, <1>7, RunRegion
  <1>9. getBestFit(n) <= l => <<l, i>> \in Fitting(m, n)
    <2>1. SUFFICES ASSUME getBestFit(n) <= l  PROVE <<l, i>> \in Fitting(m, n)  OBVIOUS
    <2>2. n <= z - a /\ l \in getBestFit(n)..NR_SIZES + 1
      BY <1>1, <1>2, <2>1, NVAssumption
    <2>3. Region(m, m.free_lists[l][i]).size >= n  BY <1>1, <1>7, <1>8, <2>2
    <2> QED  BY <2>2, <2>3, FittingHint
  <1> QED  BY <1>2, <1>5, <1>7, <1>8, <1>9

\* A search that finds a region leaves the hints at all others it has not
\* passed.
LEMMA FoundLeads ==
  ASSUME NEW m \in MemoryType, m.bitmap \subseteq 0..m.free_zone - 1,
         NEW e, Hinted(m, e), NEW n \in Nat \ {0}, Fitting(m, n) # {},
         NEW h, h = FirstOf(Fitting(m, n)),
         NEW a, NEW z, Unpassed(m, e, a, z), Unpassed(m, n, a, z),
         Region(m, m.free_lists[h[1]][h[2]]).at # a
  PROVE  Leads(Dropped(m, n, h), getBestFit(z - a), a, z)
  <1>1. PICK l : l = getBestFit(z - a)  OBVIOUS
  <1>2. PICK i \in 1..Len(m.free_lists[l]) :
               /\ a <= m.free_lists[l][i] /\ m.free_lists[l][i] <= z
               /\ Region(m, m.free_lists[l][i]) = [at |-> a, size |-> z - a]
               /\ getBestFit(n) <= l => <<l, i>> \in Fitting(m, n)
    BY <1>1, LeadsFits
  <1>3. l \in 1..NR_SIZES + 1 /\ getBestFit(n) \in 1..NR_SIZES + 1 /\ NR_SIZES \in Nat
    BY <1>1, FitsList, NVAssumption
  <1>4. /\ Fitting(m, n) \in SUBSET (Nat \X Nat)
        /\ h \in Fitting(m, n)
        /\ \A g \in Fitting(m, n) : \/ h[1] < g[1]
                                    \/ h[1] = g[1] /\ h[2] <= g[2]
    <2>1. Fitting(m, n) \in SUBSET (Nat \X Nat)  BY SMTT(30), FittingHint
    <2> QED  BY SMTT(30), <2>1, FirstOfIn
  <1>5. h \in Nat \X Nat /\ h[1] \in getBestFit(n)..NR_SIZES + 1  BY <1>4, FittingHint
  <1>6. \/ l < getBestFit(n) /\ l # h[1]
        \/ h[1] < l
        \/ h[1] = l /\ h[2] < i
    <2>1. CASE l < getBestFit(n)  BY <1>3, <1>5, <2>1
    <2>2. CASE getBestFit(n) <= l
      <3>1. h[1] < l \/ (h[1] = l /\ h[2] <= i)
        <4>1. <<l, i>> \in Fitting(m, n)  BY <1>2, <2>2
        <4>2. <<l, i>>[1] = l /\ <<l, i>>[2] = i  OBVIOUS
        <4> QED  BY <1>4, <4>1, <4>2
      <3>2. ~ (h[1] = l /\ h[2] = i)  BY <1>2
      <3>3. h[2] \in Nat /\ i \in Nat  BY <1>4, <1>5, <2>2, <1>2
      <3> QED  BY <3>1, <3>2, <3>3
    <2> QED  BY <1>3, <2>1, <2>2
  <1>7. Leads(Dropped(m, n, h), l, a, z)  BY <1>2, <1>3, <1>5, <1>6, DroppedLeads
  <1> QED  BY <1>1, <1>7

\* A search that finds nothing leaves the hints at all regions it has not
\* passed.
LEMMA MissedLeads ==
  ASSUME NEW m \in MemoryType, m.bitmap \subseteq 0..m.free_zone - 1,
         NEW e \in Nat, Hinted(m, e), NEW n \in Nat \ {0}, Fitting(m, n) = {},
         NEW f \in Nat, n <= f, e <= f
  PROVE  Hinted(Dropped(m, n, <<NR_SIZES + 2, 0>>), f)
  <1> DEFINE h == <<NR_SIZES + 2, 0>>
             g == Dropped(m, n, h)
  <1>1. g.bitmap = m.bitmap  BY DroppedBits
  <1>2. NR_SIZES \in Nat /\ h \in Nat \X Nat /\ h[1] = NR_SIZES + 2  BY NVAssumption
  <1>3. ASSUME NEW a \in Nat, NEW z \in Nat, Unpassed(m, f, a, z)
        PROVE  Leads(g, getBestFit(z - a), a, z)
    <2>0. Unpassed(m, e, a, z) /\ Unpassed(m, n, a, z)  BY <1>3, StillUnpassed
    <2>1. PICK l : l = getBestFit(z - a)  OBVIOUS
    <2>2. PICK i \in 1..Len(m.free_lists[l]) :
                 /\ a <= m.free_lists[l][i] /\ m.free_lists[l][i] <= z
                 /\ getBestFit(n) <= l => <<l, i>> \in Fitting(m, n)
      BY <2>0, <2>1, LeadsFits
    <2>3. l \in 1..NR_SIZES + 1 /\ getBestFit(n) \in 1..NR_SIZES + 1
      BY <2>0, <2>1, FitsList
    <2>4. l < getBestFit(n) /\ l # h[1]  BY <1>2, <2>2, <2>3
    <2> HIDE DEF h
    <2>5. Leads(g, l, a, z)  BY <1>2, <2>2, <2>3, <2>4, DroppedLeads
    <2> QED  BY <2>1, <2>5
  <1> HIDE DEF g
  <1>4. \A a, z \in Nat : Unpassed(g, f, a, z) => Unpassed(m, f, a, z)
    BY <1>1 DEF Unpassed, Run
  <1>5. Hinted(g, f)  BY <1>3, <1>4 DEF Hinted
  <1> QED  BY <1>5 DEF g

\* Setting the bits of the front of a region leaves the other regions, and the
\* rest of that one.
LEMMA TakenRuns ==
  ASSUME NEW m, NEW a, NEW z, Run(m, a, z), NEW p \in a + 1..z,
         NEW g, g.bitmap = m.bitmap \cup (a..p - 1),
         NEW b \in Nat, NEW y \in Nat, Run(g, b, y)
  PROVE  \/ Run(m, b, y) /\ b # a
         \/ b = p /\ y = z
  <1>1. /\ a \in Nat /\ z \in Nat /\ a < z /\ p \in Nat /\ a < p /\ p <= z /\ b < y
        /\ z \in m.bitmap /\ (a = 0 \/ a - 1 \in m.bitmap)
        /\ \A c \in a..z - 1 : c \notin m.bitmap
    <2>1. a \in Nat /\ z \in Nat /\ a < z  BY DEF Run
    <2> QED  BY <2>1 DEF Run
  <1>2. /\ b = 0 \/ b - 1 \in g.bitmap
        /\ y \in g.bitmap
        /\ \A c \in b..y - 1 : c \notin m.bitmap /\ c \notin a..p - 1
    BY DEF Run
  <1>3. b \in b..y - 1  BY <1>1
  <1>4. b \notin a..p - 1 /\ b \notin m.bitmap  BY <1>2, <1>3
  <1>5. CASE b = p
    <2>1. b # z  BY <1>1, <1>4
    <2>2. b < z  BY <1>1, <1>5, <2>1
    <2>3. ~ (y < z)
      <3>1. SUFFICES ASSUME y < z  PROVE FALSE  OBVIOUS
      <3>2. y \in a..z - 1 /\ y \notin a..p - 1  BY <1>1, <1>5, <3>1
      <3> QED  BY <1>1, <1>2, <3>2
    <2>4. ~ (z < y)
      <3>1. SUFFICES ASSUME z < y  PROVE FALSE  OBVIOUS
      <3>2. z \in b..y - 1  BY <1>1, <2>2, <3>1
      <3> QED  BY <1>1, <1>2, <3>2
    <2> QED  BY <1>1, <1>5, <2>3, <2>4
  <1>6. CASE b # p
    <2>1. b = 0 \/ b - 1 \in m.bitmap
      <3>1. b - 1 \notin a..p - 1  BY <1>1, <1>4, <1>6
      <3> QED  BY <1>2, <3>1
    <2>2. y \in m.bitmap
      <3>1. SUFFICES ASSUME y \in a..p - 1  PROVE FALSE  BY <1>2
      <3>2. y - 1 \in b..y - 1  BY <1>1
      <3>3. y - 1 \notin a..p - 1 /\ y - 1 \notin m.bitmap  BY <1>2, <3>2
      <3>4. y = a /\ a # 0  BY <1>1, <3>1, <3>3
      <3> QED  BY <1>1, <3>3, <3>4
    <2>3. b # a  BY <1>1, <1>4
    <2>4. Run(m, b, y)  BY <1>1, <1>2, <2>1, <2>2 DEF Run
    <2> QED  BY <2>3, <2>4
  <1> QED  BY <1>5, <1>6

\* What is left of a region that is taken from gets a hint.
LEMMA TakenHinted ==
  ASSUME NEW m \in MemoryType,
         NEW r, Run(m, r.at, r.at + r.size), r.size \in Nat,
         \A c \in r.at..r.at + r.size - 1 : c \in Cell \ m.bitmap,
         NEW n \in Nat \ {0}, r.size >= n,
         NEW f, \A b, y \in Nat : Unpassed(m, f, b, y) /\ b # r.at =>
                                   Leads(m, getBestFit(y - b), b, y),
         NEW g, g.bitmap = m.bitmap \cup (r.at..r.at + n - 1),
         g.free_lists = TakeFrom(m, r, n).free_lists
  PROVE  Hinted(g, f)
  <1>1. PICK a \in Nat : a = r.at  BY DEF Run
  <1>2. PICK z \in Nat : z = r.at + r.size  BY DEF Run
  <1>3. PICK p : p = a + n  OBVIOUS
  <1>4. Run(m, a, z) /\ z = a + r.size  BY <1>1, <1>2
  <1>5. p \in a + 1..z /\ p \in Nat /\ (p = z <=> r.size = n)  BY <1>3, <1>4
  <1>6. g.bitmap = m.bitmap \cup (a..p - 1)
    <2>1. r.at + n - 1 = p - 1  BY <1>1, <1>3
    <2> QED  BY <1>1, <2>1
  <1>7. SUFFICES ASSUME NEW b \in Nat, NEW y \in Nat, Unpassed(g, f, b, y)
                 PROVE  Leads(g, getBestFit(y - b), b, y)
    BY DEF Hinted
  <1>8. (Unpassed(m, f, b, y) /\ b # a) \/ (b = p /\ y = z)
    <2>1. Run(g, b, y)  BY <1>7 DEF Unpassed
    <2>2. (Run(m, b, y) /\ b # a) \/ (b = p /\ y = z)
      BY <1>4, <1>5, <1>6, <2>1, TakenRuns
    <2> QED  BY <1>7, <2>2 DEF Unpassed
  <1>9. b < y /\ y - b \in Nat \ {0}  BY <1>7 DEF Unpassed, Run
  <1>10. PICK l \in 1..NR_SIZES + 1 : l = getBestFit(y - b)  BY <1>9, BestFit
  <1>11. Unpassed(m, f, b, y) /\ b # a => Leads(m, l, b, y)  BY <1>1, <1>10
  <1>12. CASE r.size = n
    <2>1. g.free_lists = m.free_lists  BY <1>12 DEF TakeFrom
    <2>2. Leads(m, l, b, y)  BY <1>5, <1>8, <1>9, <1>11, <1>12
    <2> QED  BY <1>10, <2>1, <2>2 DEF Leads
  <1>13. CASE r.size # n
    <2>1. PICK w : w = IF p \in Walk(m, r) THEN m ELSE [m EXCEPT !.header[p] = n - r.size]
      OBVIOUS
    <2>2. TakeFrom(m, r, n) = FileHint(w, r.size - n, p)  BY <1>1, <1>3, <1>13, <2>1 DEF TakeFrom
    <2>3. w \in MemoryType /\ w.free_lists = m.free_lists
      <3>1. MaxCells \in Nat /\ p \in Cell /\ z <= MaxCells /\ n - r.size = p - z
        <4>1. z - 1 = r.at + r.size - 1 /\ p \in a..z - 1 /\ z - 1 \in a..z - 1
          BY <1>1, <1>2, <1>4, <1>5, <1>13
        <4>2. p \in Cell /\ z - 1 \in Cell  BY <1>1, <4>1
        <4> QED  BY <1>3, <1>4, <4>2, NVAssumption DEF Cell
      <3>2. n - r.size \in -(MaxCells + 1)..MaxCells  BY <1>5, <3>1
      <3> QED  BY <2>1, <3>1, <3>2 DEF MemoryType
    <2>4. r.size - n \in Nat \ {0} /\ p \in 0..MaxCells
      <3>1. p \in a..z - 1 /\ z - 1 = r.at + r.size - 1  BY <1>1, <1>2, <1>4, <1>5, <1>13
      <3>2. p \in Cell  BY <1>1, <3>1
      <3> QED  BY <1>13, <3>2, NVAssumption DEF Cell
    <2>5. Leads(w, l, b, y) \/ (l = getBestFit(r.size - n) /\ b <= p /\ p <= y)
      <3>1. CASE Unpassed(m, f, b, y) /\ b # a
        <4>1. Leads(m, l, b, y)  BY <1>11, <3>1
        <4> QED  BY <2>3, <4>1 DEF Leads
      <3>2. CASE b = p /\ y = z
        <4>1. y - b = r.size - n  BY <1>3, <1>4, <3>2
        <4> QED  BY <1>9, <1>10, <3>2, <4>1
      <3> QED  BY <1>8, <3>1, <3>2
    <2>6. Leads(FileHint(w, r.size - n, p), l, b, y)  BY <2>3, <2>4, <2>5, FileHintLeads
    <2> QED  BY <1>10, <2>2, <2>6 DEF Leads
  <1> QED  BY <1>12, <1>13

\* A block taken from the free zone makes no region and ends none.
LEMMA ZoneHinted ==
  ASSUME NEW m, m.free_zone \in Nat, m.bitmap \subseteq 0..m.free_zone - 1,
         m.free_zone > 0 => m.free_zone - 1 \in m.bitmap, NEW f, Hinted(m, f),
         NEW n \in Nat \ {0},
         NEW g, g.bitmap = m.bitmap \cup (m.free_zone..m.free_zone + n - 1),
         g.free_lists = m.free_lists
  PROVE  Hinted(g, f)
  <1>1. PICK w \in Nat : w = m.free_zone  OBVIOUS
  <1>2. PICK e : e = w + n  OBVIOUS
  <1>3. g.bitmap = m.bitmap \cup (w..e - 1)
    <2>1. m.free_zone + n - 1 = e - 1  BY <1>1, <1>2
    <2> QED  BY <1>1, <2>1
  <1>4. ASSUME NEW b \in Nat, NEW y \in Nat, Run(g, b, y)  PROVE Run(m, b, y)
    <2>1. /\ b < y /\ (b = 0 \/ b - 1 \in g.bitmap) /\ y \in g.bitmap
          /\ \A c \in b..y - 1 : c \notin m.bitmap /\ c \notin w..e - 1
      BY <1>3, <1>4 DEF Run
    <2>2. b \in b..y - 1 /\ y - 1 \in b..y - 1  BY <2>1
    <2>3. b \notin w..e - 1 /\ y - 1 \notin w..e - 1 /\ y - 1 \notin m.bitmap  BY <2>1, <2>2
    <2>4. y < e  BY <1>1, <1>2, <1>3, <2>1
    <2>5. y - 1 < w  BY <1>1, <1>2, <2>2, <2>3, <2>4
    <2>6. y # w
      <3>1. w > 0 => w - 1 \in m.bitmap  BY <1>1
      <3> QED  BY <1>1, <2>1, <2>3, <3>1
    <2>7. y \in m.bitmap /\ (b = 0 \/ b - 1 \in m.bitmap)
      BY <1>1, <1>3, <2>1, <2>5, <2>6
    <2> QED  BY <2>1, <2>7 DEF Run
  <1> QED  BY <1>4 DEF Hinted, Unpassed, Leads

\* The block that leaves the queue leaves a hint at the region it is in.
LEMMA DrainedHinted ==
  ASSUME NEW m \in MemoryType, NEW used, NEW r, Accounts(m, used), Rests(m, r),
         m.dont_allocate # <<>>, m.dont_allocate[1].age = Wait, NEW f, Hinted(m, f)
  PROVE  Hinted(Drained(m), f)
  <1>1. PICK d : d = Drained(m)  OBVIOUS
  <1>2. PICK at \in Nat, q \in Nat, z \in Nat, a \in Nat : a <= at /\ Leaves(m, d, at, q, a, z)
    <2>1. \A e \in Nat : \A c \in 0..e : c \in Nat /\ c <= e  OBVIOUS
    <2> QED  BY <1>1, <2>1, DrainedLeaves
  <1>3. /\ at \in Nat /\ q \in Nat /\ z \in Nat /\ a \in 0..at
        /\ at \in m.bitmap /\ at < m.free_zone /\ z > at
        /\ d.bitmap = m.bitmap \ (at..q - 1) /\ d.bitmap \subseteq 0..m.free_zone - 1
        /\ a = 0 \/ a - 1 \in d.bitmap
        /\ \A c \in a..z - 1 : c \notin d.bitmap
    BY <1>2 DEF Leaves
  <1>4. m.free_zone \in Nat /\ a \in Nat  BY NVAssumption DEF MemoryType
  <1>5. SUFFICES ASSUME NEW b \in Nat, NEW y \in Nat, Unpassed(d, f, b, y)
                 PROVE  Leads(d, getBestFit(y - b), b, y)
    BY <1>1 DEF Hinted
  <1>6. /\ Run(d, b, y)
        /\ b < y /\ (b = 0 \/ b - 1 \in d.bitmap) /\ y \in d.bitmap
        /\ \A c \in b..y - 1 : c \notin d.bitmap
    BY <1>5 DEF Unpassed, Run
  <1>7. y - b \in Nat \ {0}  BY <1>6
  <1>8. PICK l \in 1..NR_SIZES + 1 : l = getBestFit(y - b)  BY <1>7, BestFit
  <1>9. (\A c \in b..y - 1 : c \notin at..q - 1) => Leads(m, l, b, y)
    <2>1. (\A c \in b..y - 1 : c \notin at..q - 1) => Run(m, b, y)
      BY <1>3, <1>6 DEF Run
    <2>2. (\A c \in b..y - 1 : c \notin at..q - 1) => Unpassed(m, f, b, y)
      BY <1>5, <2>1 DEF Unpassed
    <2> QED  BY <1>8, <2>2 DEF Hinted
  <1>10. CASE z = m.free_zone /\ d.free_lists = m.free_lists
    <2>1. y < a
      <3>1. y \in 0..m.free_zone - 1 /\ y \notin a..z - 1  BY <1>3, <1>6
      <3> QED  BY <1>4, <1>10, <3>1
    <2>2. \A c \in b..y - 1 : c \notin at..q - 1  BY <1>3, <2>1
    <2>3. Leads(m, l, b, y)  BY <1>9, <2>2
    <2> QED  BY <1>8, <1>10, <2>3 DEF Leads
  <1>11. CASE /\ z \in d.bitmap
              /\ \A j \in 1..NR_SIZES + 1 : \A c, e \in Nat :
                   Leads(m, j, c, e) \/ (j = getBestFit(z - a) /\ c <= a /\ a <= e) => Leads(d, j, c, e)
    <2>1. Run(d, a, z)  BY <1>3, <1>4, <1>11 DEF Run
    <2>2. CASE b < z /\ a < y
      <3>1. a = b /\ z = y  BY <1>6, <2>1, <2>2, RunsMeet
      <3>2. l = getBestFit(z - a) /\ b <= a /\ a <= y  BY <1>4, <1>6, <1>8, <3>1
      <3>3. Leads(d, l, b, y)  BY <1>11, <3>2
      <3> QED  BY <1>8, <3>3
    <2>3. CASE ~ (b < z /\ a < y)
      <3>1. z \notin at..q - 1  BY <1>3, <1>11
      <3>2. q <= z  BY <1>3, <3>1
      <3>3. \A c \in b..y - 1 : c \notin at..q - 1  BY <1>3, <1>4, <2>3, <3>2
      <3>4. Leads(d, l, b, y)  BY <1>9, <1>11, <3>3
      <3> QED  BY <1>8, <3>4
    <2> QED  BY <2>2, <2>3
  <1> QED  BY <1>2, <1>10, <1>11 DEF Leaves

\* incrementTime keeps every region hinted.
LEMMA IncrementTimeHinted ==
  ASSUME NEW m \in MemoryType, NEW used, NEW r, Accounts(m, used), Rests(m, r),
         NEW f, Hinted(m, f)
  PROVE  Hinted(incrementTime(m), f)
  <1>1. CASE m.dont_allocate = <<>> \/ Head(m.dont_allocate).age < Wait
    BY <1>1 DEF incrementTime
  <1>2. CASE ~ (m.dont_allocate = <<>> \/ Head(m.dont_allocate).age < Wait)
    <2>1. m.dont_allocate[1].age = Wait  BY <1>2, WaitOver
    <2>2. incrementTime(m) = Drained(m)  BY <1>2 DEF incrementTime
    <2>3. Hinted(Drained(m), f)  BY <1>2, <2>1, DrainedHinted
    <2> QED  BY <2>2, <2>3
  <1> QED  BY <1>1, <1>2

\* What nvmalloc does once the block is set keeps every region hinted.
LEMMA AllocateHinted ==
  ASSUME NEW m \in MemoryType, Accounts(m, live), Rests(m, rested),
         NEW b \in Blocks, \A c \in Cells(b) : c \in Cell \ m.bitmap /\ c < m.free_zone,
         largest \in 0..MaxSize, Hinted(Occupied(m, b), Larger(b.size)),
         NEW d \in 0..Wait, Allocate(m, b, d)
  PROVE  HInv'
  <1> DEFINE o == Occupied(m, b)
             e == Elapsed(o, d)
             i == incrementTime(e)
             r == [c \in Cell |-> Later(rested[c], d)]
  <1>1. o \in MemoryType /\ Accounts(o, live \cup {b}) /\ Rests(o, rested)
    BY OccupiedAccounts
  <1>2. Becomes(i) /\ Hinted(o, Larger(b.size)) /\ largest' = Larger(b.size)  BY DEF Allocate
  <1> HIDE DEF o
  <1>3. e \in MemoryType /\ Accounts(e, live \cup {b}) /\ Rests(e, r)
    BY <1>1, ElapsedKeeps
  <1>4. e.bitmap = o.bitmap /\ e.free_lists = o.free_lists
    BY <1>1 DEF Elapsed, MemoryType
  <1> HIDE DEF e, r
  <1>5. Hinted(e, Larger(b.size))  BY <1>2, <1>4, SameHinted
  <1>6. Hinted(i, Larger(b.size))  BY <1>3, <1>5, IncrementTimeHinted
  <1>7. i \in MemoryType  BY <1>3, IncrementTimeKeeps
  <1> HIDE DEF i
  <1>8. Memory' = i  BY <1>2, <1>7, BecomesMemory
  <1>9. Larger(b.size) \in 0..MaxSize
    <2>1. b.size \in 1..MaxSize  BY DEF Blocks
    <2> QED  BY <2>1, LargerNat
  <1> QED  BY <1>2, <1>6, <1>8, <1>9 DEF HInv

\* nvmalloc from a listed region: it drops hints at that region and at smaller
\* ones of the last list, and what is left of the region gets one.
LEMMA MallocRegionHinted ==
  ASSUME IInv, TInv, HInv, NEW n \in 1..MaxSize,
         NEW d \in 0..Wait, MallocRegion(n, d)
  PROVE  HInv'
  <1> DEFINE h == FirstOf(Fitting(Memory, n))
             p == Memory.free_lists[h[1]][h[2]]
             r == Region(Memory, p)
             m == Dropped(Memory, n, h)
             g == TakeFrom(m, r, n)
             b == [at |-> r.at, size |-> n]
             o == Occupied(g, b)
  <1>1. n \in Nat \ {0}  BY NVAssumption
  <1>2. /\ Memory \in MemoryType /\ Accounts(Memory, live) /\ Rests(Memory, rested)
        /\ Memory.bitmap \subseteq 0..Memory.free_zone - 1
    BY DEF IInv, Accounts
  <1>3. PICK T : Tiling(Memory, T)  BY DEF TInv
  <1>4. Fitting(Memory, n) # {} /\ Allocate(g, b, d)
    <2>1. Memory.free_lists = free_lists  BY DEF Memory
    <2> QED  BY <2>1 DEF MallocRegion
  <1>5. /\ h \in Nat \X Nat /\ p \in 0..MaxCells
        /\ r.at \in Nat /\ r.size \in Nat /\ r.size >= n
        /\ \A c \in r.at..r.at + r.size - 1 : c \in Cell \ Memory.bitmap /\ c < Memory.free_zone
    BY <1>1, <1>2, <1>4, FittingRegion, Zenon
  <1>6. Run(Memory, r.at, r.at + r.size)
    <2>1. r.size > 0  BY <1>1, <1>5
    <2> HIDE DEF p
    <2>2. /\ r.at = 0 \/ r.at - 1 \in Memory.bitmap
          /\ r.at + r.size \in Memory.bitmap
      BY <1>2, <1>3, <1>5, <2>1, RegionWhole
    <2> HIDE DEF r
    <2> QED  BY SMTT(30), <1>5, <2>1, <2>2 DEF Run
  <1>7. /\ m \in MemoryType /\ m.bitmap = Memory.bitmap /\ m.free_zone = Memory.free_zone
        /\ Accounts(m, live) /\ Rests(m, rested)
    <2> HIDE DEF h
    <2> QED  BY SMTT(30), <1>1, <1>2, <1>5, DroppedKeeps
  <1>8. \A a, z \in Nat : Unpassed(m, Larger(n), a, z) /\ a # r.at =>
                             Leads(m, getBestFit(z - a), a, z)
    <2>1. SUFFICES ASSUME NEW a \in Nat, NEW z \in Nat, Unpassed(m, Larger(n), a, z), r.at # a
                   PROVE  Leads(m, getBestFit(z - a), a, z)
      OBVIOUS
    <2>2. Unpassed(Memory, largest, a, z) /\ Unpassed(Memory, n, a, z)
      <3>1. Unpassed(Memory, Larger(n), a, z)  BY <1>7, <2>1 DEF Unpassed, Run
      <3>2. largest \in 0..MaxSize  BY DEF HInv
      <3>3. /\ Larger(n) \in Nat /\ largest \in Nat
            /\ n <= Larger(n) /\ largest <= Larger(n)
        BY <3>2, LargerNat
      <3> QED  BY <1>1, <3>1, <3>3, StillUnpassed
    <2>3. Hinted(Memory, largest)  BY DEF HInv
    <2> HIDE DEF h
    <2>4. h = FirstOf(Fitting(Memory, n))  BY DEF h
    <2> QED
      BY ONLY <1>1, <1>2, <1>4, <2>1, <2>2, <2>3, <2>4, FoundLeads DEF m, r, p
  <1> HIDE DEF h, p, r, m
  <1>9. Run(m, r.at, r.at + r.size)  BY <1>6, <1>7 DEF Run
  <1>10. \A c \in r.at..r.at + r.size - 1 : c \in Cell \ m.bitmap  BY <1>5, <1>7
  <1>11. /\ g \in MemoryType /\ g.bitmap = m.bitmap /\ g.free_zone = m.free_zone
         /\ Accounts(g, live) /\ Rests(g, rested)
    BY <1>1, <1>5, <1>7, <1>10, TakeFromKeeps
  <1>12. b.at = r.at /\ b.size = n  OBVIOUS
  <1>13. \A c \in Cells(b) : c \in Cell \ g.bitmap /\ c < g.free_zone
    <2>1. \A c \in Cells(b) : c \in r.at..r.at + r.size - 1  BY <1>1, <1>5, <1>12 DEF Cells
    <2> HIDE DEF g
    <2> QED  BY <1>5, <1>7, <1>11, <2>1
  <1>14. b \in Blocks
    <2>1. r.at \in Cells(b)  BY <1>1, <1>5, <1>12 DEF Cells
    <2>2. r.at \in Cell  BY <1>13, <2>1
    <2> QED  BY <2>2 DEF Blocks
  <1>15. o.free_lists = g.free_lists
    <2> HIDE DEF g, b
    <2> QED  BY <1>11 DEF Occupied, MemoryType
  <1>16. o.bitmap = m.bitmap \cup (r.at..r.at + n - 1)
    <2> HIDE DEF g, b
    <2> QED  BY <1>11, <1>12, <1>14, OccupiedBits
  <1> HIDE DEF b, o
  <1>17. Hinted(o, Larger(n))
    BY ONLY <1>1, <1>5, <1>7, <1>8, <1>9, <1>10, <1>15, <1>16, TakenHinted DEF g
  <1> HIDE DEF g
  <1>18. largest \in 0..MaxSize /\ b.size = n  BY <1>12 DEF HInv
  <1> QED  BY <1>4, <1>11, <1>13, <1>14, <1>17, <1>18, AllocateHinted DEF o

\* nvmalloc from the free zone: its search has dropped only the hints of
\* regions too small for it.
LEMMA MallocZoneHinted ==
  ASSUME IInv, TInv, HInv, NEW n \in 1..MaxSize,
         NEW d \in 0..Wait, MallocZone(n, d)
  PROVE  HInv'
  <1>1. PICK g, b : Advanced(g, b, n) /\ Allocate(g, b, d)  BY MallocZoneAdvances
  <1>2. n \in Nat \ {0}  BY NVAssumption
  <1>3. /\ Memory \in MemoryType /\ Memory.bitmap = bitmap /\ Memory.free_zone = free_zone
        /\ Memory.bitmap \subseteq 0..Memory.free_zone - 1 /\ Memory.free_zone \in Nat
        /\ Memory.free_zone > 0 => Memory.free_zone - 1 \in Memory.bitmap
    <2>1. Memory \in MemoryType /\ Memory.bitmap = bitmap /\ Memory.free_zone = free_zone
          /\ Memory.bitmap \subseteq 0..Memory.free_zone - 1
      BY DEF IInv, Memory, Accounts
    <2> QED  BY SMTT(30), <2>1, NVAssumption DEF TInv, Tiling, MemoryType
  <1>4. PICK s : s = Searched(n)  OBVIOUS
  <1>5. s.bitmap = bitmap /\ s.free_zone = free_zone  BY <1>4, SearchedKeeps
  <1>6. Hinted(s, Larger(n))
    <2>1. Fitting(Memory, n) = {} /\ Hinted(Memory, largest) /\ largest \in 0..MaxSize
      BY DEF MallocZone, HInv
    <2>2. /\ Larger(n) \in Nat /\ largest \in Nat /\ n <= Larger(n) /\ largest <= Larger(n)
      BY <2>1, LargerNat
    <2> QED  BY <1>2, <1>3, <1>4, <2>1, <2>2, MissedLeads DEF Searched
  <1>7. PICK o : o = Occupied(g, b)  OBVIOUS
  <1>8. o.bitmap = s.bitmap \cup (s.free_zone..s.free_zone + n - 1)
    BY <1>1, <1>5, <1>7, OccupiedBits DEF Advanced
  <1>9. o.free_lists = s.free_lists
    <2>1. o.free_lists = g.free_lists  BY <1>1, <1>7 DEF Advanced, Occupied, MemoryType
    <2> QED  BY <1>1, <1>4, <2>1 DEF Advanced
  <1>10. Hinted(o, Larger(n))  BY <1>2, <1>3, <1>5, <1>6, <1>8, <1>9, ZoneHinted
  <1>11. largest \in 0..MaxSize /\ b.size = n  BY <1>1 DEF HInv, Advanced
  <1> QED  BY <1>1, <1>7, <1>10, <1>11, AllocateHinted DEF Advanced

\* nvmalloc that fails, likewise.
LEMMA MallocFailsHinted ==
  ASSUME IInv, HInv, NEW n \in 1..MaxSize, MallocFails(n)
  PROVE  HInv'
  <1>1. n \in Nat \ {0}  BY NVAssumption
  <1>2. PICK g : g = Searched(n)  OBVIOUS
  <1>3. g \in MemoryType /\ Becomes(g)  BY <1>2, SearchedKeeps DEF MallocFails
  <1>4. Memory' = g  BY <1>3, BecomesMemory
  <1>5. /\ Memory \in MemoryType /\ Memory.bitmap \subseteq 0..Memory.free_zone - 1
        /\ Fitting(Memory, n) = {} /\ Hinted(Memory, largest) /\ largest \in 0..MaxSize
        /\ largest' = Larger(n)
    BY DEF IInv, Accounts, MallocFails, HInv
  <1>6. /\ Larger(n) \in 0..MaxSize /\ Larger(n) \in Nat /\ largest \in Nat
        /\ n <= Larger(n) /\ largest <= Larger(n)
    BY <1>5, LargerNat
  <1>7. Hinted(g, Larger(n))  BY <1>1, <1>2, <1>5, <1>6, MissedLeads DEF Searched
  <1> QED  BY <1>4, <1>5, <1>6, <1>7 DEF HInv

\* nvfree changes no bit and no hint until a block leaves the queue.
LEMMA FreeHinted ==
  ASSUME IInv, HInv, NEW b \in live, NEW d \in 0..Wait, Free(b, d)
  PROVE  HInv'
  <1> DEFINE p == putInDNAList(Memory, b.at)
             e == Elapsed(p, d)
             i == incrementTime(e)
             r0 == [c \in Cell |-> IF c \in Cells(b) THEN 0 ELSE rested[c]]
             r == [c \in Cell |-> Later(r0[c], d)]
  <1>1. Memory \in MemoryType /\ Accounts(Memory, live) /\ Rests(Memory, rested)  BY DEF IInv
  <1>2. Becomes(i)  BY DEF Free
  <1>3. p \in MemoryType /\ Accounts(p, live \ {b}) /\ Rests(p, r0)
    BY <1>1, PutInDNAListKeeps
  <1>4. p.bitmap = Memory.bitmap /\ p.free_lists = Memory.free_lists
    BY <1>1 DEF putInDNAList, MemoryType
  <1> HIDE DEF p, r0
  <1>5. e \in MemoryType /\ Accounts(e, live \ {b}) /\ Rests(e, r)
    BY <1>3, ElapsedKeeps
  <1>6. e.bitmap = p.bitmap /\ e.free_lists = p.free_lists
    BY <1>3 DEF Elapsed, MemoryType
  <1> HIDE DEF e, r
  <1>7. Hinted(e, largest)
    <2>1. Hinted(Memory, largest)  BY DEF HInv
    <2> QED  BY <1>4, <1>6, <2>1, SameHinted
  <1>8. Hinted(i, largest)  BY <1>5, <1>7, IncrementTimeHinted
  <1>9. i \in MemoryType  BY <1>5, IncrementTimeKeeps
  <1> HIDE DEF i
  <1>10. Memory' = i /\ largest' = largest  BY <1>2, <1>9, BecomesMemory DEF Free
  <1> QED  BY <1>8, <1>10 DEF HInv

\* Every step keeps every region hinted that has not been passed.
LEMMA NextHinted ==
  ASSUME IInv, TInv, HInv, [Next]_vars
  PROVE  HInv'
  <1>1. ASSUME NEW n \in 1..MaxSize, NEW d \in 0..Wait, MallocRegion(n, d)  PROVE HInv'
    BY <1>1, MallocRegionHinted
  <1>2. ASSUME NEW n \in 1..MaxSize, NEW d \in 0..Wait, MallocZone(n, d)  PROVE HInv'
    BY <1>2, MallocZoneHinted
  <1>3. ASSUME NEW n \in 1..MaxSize, MallocFails(n)  PROVE HInv'
    BY <1>3, MallocFailsHinted
  <1>4. ASSUME NEW b \in live, NEW d \in 0..Wait, Free(b, d)  PROVE HInv'
    BY <1>4, FreeHinted
  <1>5. CASE UNCHANGED vars
    <2>1. Memory' = Memory /\ largest' = largest  BY <1>5 DEF vars, Memory
    <2> QED  BY <2>1 DEF HInv
  <1> QED  BY <1>1, <1>2, <1>3, <1>4, <1>5 DEF Next

\* At the start there is no region.
LEMMA InitHinted == Init => HInv
  <1> SUFFICES ASSUME Init  PROVE HInv  OBVIOUS
  <1>1. Memory.bitmap = {} /\ largest = 0  BY DEF Init, Memory
  <1>2. Hinted(Memory, largest)  BY <1>1 DEF Hinted, Unpassed, Run
  <1> QED  BY <1>1, <1>2, NVAssumption DEF HInv

\* The only free memory lost to nvmalloc is in regions larger than NR_SIZES
\* cells that a larger request has passed by: every other free region has a hint
\* that leads to it in the list for its size, whatever sizes are asked for.
THEOREM RegionsStayHinted == Spec => []RegionsHinted
  <1>1. Init => IInv /\ TInv /\ HInv  BY InitIInv, InitTiling, InitHinted
  <1>2. IInv /\ TInv /\ HInv /\ [Next]_vars => IInv' /\ TInv' /\ HInv'
    BY NextStep, NextTiling, NextHinted
  <1>3. IInv /\ TInv /\ HInv => RegionsHinted
    <2> SUFFICES ASSUME IInv, TInv, HInv, NEW r \in FreeRegions,
                        r.size <= NR_SIZES \/ r.size >= largest
                 PROVE  \E i \in 1..Len(free_lists[getBestFit(r.size)]) :
                          Region(Memory, free_lists[getBestFit(r.size)][i]) = r
      BY DEF RegionsHinted
    <2>1. PICK T : Tiling(Memory, T)  BY DEF TInv
    <2>2. /\ Memory \in MemoryType /\ Memory.free_lists = free_lists
          /\ Memory.bitmap \subseteq 0..Memory.free_zone - 1
      BY DEF IInv, Memory, Accounts
    <2>3. /\ r.at \in Nat /\ r.size \in Nat \ {0} /\ r = [at |-> r.at, size |-> r.size]
          /\ r.at + r.size \in Memory.bitmap
          /\ r.at = 0 \/ r.at - 1 \in Memory.bitmap
          /\ \A x \in r.at..r.at + r.size - 1 : x \notin Memory.bitmap
      BY <2>1, FreeRegionRun
    <2>4. PICK z \in Nat : z = r.at + r.size  BY <2>3
    <2>5. z - r.at = r.size  BY <2>3, <2>4
    <2>6. Run(Memory, r.at, z)  BY <2>3, <2>4 DEF Run
    <2>7. PICK l \in 1..NR_SIZES + 1 : l = getBestFit(r.size)  BY <2>3, BestFit
    <2>8. Leads(Memory, l, r.at, z)
      <3>1. Unpassed(Memory, largest, r.at, z)  BY <2>5, <2>6 DEF Unpassed
      <3> QED  BY <2>3, <2>4, <2>5, <2>7, <3>1 DEF HInv, Hinted
    <2>9. PICK i \in 1..Len(free_lists[l]) : r.at <= free_lists[l][i] /\ free_lists[l][i] <= z
      BY <2>2, <2>8 DEF Leads
    <2>10. PICK p \in Nat : p = free_lists[l][i]
      <3>1. free_lists[l] \in Seq(0..MaxCells)  BY <2>2 DEF MemoryType
      <3>2. free_lists[l][i] \in 0..MaxCells  BY <2>9, <3>1, ElementOfSeq
      <3> QED  BY <3>2
    <2>11. Region(Memory, p) = [at |-> r.at, size |-> z - r.at]
      BY <2>2, <2>6, <2>9, <2>10, RunRegion
    <2> QED  BY <2>3, <2>5, <2>7, <2>9, <2>10, <2>11
  <1> QED  BY <1>1, <1>2, <1>3, PTL DEF Spec
=============================================================================
