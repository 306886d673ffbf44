-------------------------- MODULE SpanClockProofs --------------------------
(***************************************************************************)
(* Type correctness and the safety invariants of SpanClock, for every       *)
(* number of blocks a span can have, every threshold and every bound.       *)
(***************************************************************************)
EXTENDS SpanClock, FiniteSetTheorems, WellFoundedInduction, TLAPS

\* A span has as many blocks as its size class counts.
LEMMA BlockCount == IsFiniteSet(Block) /\ Cardinality(Block) = Total
  <1>1. 1 \in Int /\ Total \in Int /\ ~(1 > Total)  BY TotalAssumption
  <1>2. /\ IsFiniteSet(1..Total)
        /\ Cardinality(1..Total) = IF 1 > Total THEN 0 ELSE Total - 1 + 1
    BY <1>1, FS_Interval, Zenon
  <1>3. Cardinality(1..Total) = Total  BY <1>1, <1>2
  <1> QED  BY <1>2, <1>3 DEF Block

\* A set of blocks of one span is finite, no larger than the span, and as
\* large only if it is the whole span.
LEMMA BlocksFinite ==
  ASSUME NEW S \in SUBSET Block
  PROVE  /\ IsFiniteSet(S)
         /\ Cardinality(S) \in 0..Total
         /\ Cardinality(S) = Total => S = Block
  <1>1. IsFiniteSet(S) /\ Cardinality(S) <= Total /\ (Cardinality(S) = Total => S = Block)
    BY BlockCount, FS_Subset
  <1>2. Cardinality(S) \in Nat  BY <1>1, FS_CardinalityType
  <1> QED  BY <1>1, <1>2, TotalAssumption

\* Every nonempty set of blocks has a lowest one.
LEMMA LowestExists ==
  ASSUME NEW S \in SUBSET Block, S # {}
  PROVE  \E b \in S : IsLowest(b, S)
  <1> DEFINE I(b) == {k \in Block : k <= b}
             II   == {I(b) : b \in S}
  <1>1. II \subseteq SUBSET Block /\ II # {}  OBVIOUS
  <1>2. IsWellFoundedOn(StrictSubsetOrdering(Block), SUBSET Block)
    BY BlockCount, FS_StrictSubsetOrderingWellFounded, FS_FiniteSubsetsOfFinite
  <1>3. PICK X \in II : \A Y \in II : ~ (<<Y, X>> \in StrictSubsetOrdering(Block))
    BY <1>1, <1>2, WFMin
  <1>4. PICK x \in S : X = I(x)  BY <1>3
  <1>5. ASSUME NEW y \in S  PROVE x <= y
    <2>1. I(y) \in II /\ I(y) \in SUBSET Block /\ I(x) \in SUBSET Block  OBVIOUS
    <2>2. ~ (I(y) \subseteq I(x) /\ I(y) # I(x))
      BY <1>3, <1>4, <2>1 DEF StrictSubsetOrdering
    <2>3. SUFFICES ASSUME ~ (x <= y)  PROVE FALSE  OBVIOUS
    <2>4. x \in Block /\ y \in Block /\ y < x
      BY <2>3, TotalAssumption DEF Block
    <2>5. I(y) \subseteq I(x) /\ x \in I(x) /\ x \notin I(y)
      BY <2>4, TotalAssumption DEF Block
    <2> QED  BY <2>2, <2>5
  <1> QED  BY <1>5 DEF IsLowest

\* The scan of span_clock_allocate: with a free block beyond the hand it
\* returns the lowest such block.
LEMMA ScanFinds ==
  ASSUME NEW S \in SUBSET Block, NEW c \in 0..Total, \E b \in S : b > c
  PROVE  FirstFree(S, c) \in S /\ FirstFree(S, c) > c
  <1> DEFINE ahead == {b \in S : b > c}
  <1>1. ahead \in SUBSET Block /\ ahead # {}  OBVIOUS
  <1>2. \E b \in ahead : IsLowest(b, ahead)  BY <1>1, LowestExists
  <1>3. (CHOOSE b \in ahead : IsLowest(b, ahead)) \in ahead  BY <1>2
  <1> QED  BY <1>1, <1>3 DEF FirstFree

\* What small_malloc finds in the header it acquired.
LEMMA AcquiredSpan ==
  ASSUME IInv, Reaches
  PROVE  /\ Acquired \in SpanState(Total, MaxWear)
         /\ Acquired.bitmap # {}
         /\ Acquired.bitmap \cup used = Block
         /\ Acquired.bitmap \cap used = {}
         /\ Acquired.free_block_num = Cardinality(Acquired.bitmap)
         /\ Acquired.wear_count = span.wear_count
         /\ WritesSoFar \in [Block -> Nat]
         /\ BaseNow \in 0..MaxWear
         /\ \A b \in Block : WritesSoFar[b] <= Acquired.wear_count - BaseNow
              + (IF b <= Acquired.cur_pos /\ Acquired.cur_pos < Total THEN 1 ELSE 0)
  <1>1. CASE Fresh
    <2>1. Acquired = [span EXCEPT !.bitmap = Block, !.cur_pos = 0, !.free_block_num = Total]
      BY <1>1 DEF Acquired, SpanInit, Block
    <2>2. used = {}  BY <1>1 DEF IInv, RecycledIffEmpty
    <2>3. WritesSoFar = [b \in Block |-> 0] /\ BaseNow = span.wear_count
      BY <1>1 DEF WritesSoFar, BaseNow
    <2>4. span \in SpanState(Total, MaxWear)  BY DEF IInv, TypeOK
    <2>5. 1 \in Block /\ Total \in Nat  BY TotalAssumption DEF Block
    <2>6. Acquired.bitmap = Block /\ Acquired.free_block_num = Total
          /\ Acquired.cur_pos = 0 /\ Acquired.wear_count = span.wear_count
      BY <2>1, <2>4 DEF SpanState
    <2>7. Acquired \in SpanState(Total, MaxWear)
      <3>1. Block \in SUBSET (1..Total) /\ 0 \in 0..Total /\ Total \in 0..Total
        BY <2>5 DEF Block
      <3> QED  BY <2>1, <2>4, <3>1 DEF SpanState
    <2>8. span.wear_count \in 0..MaxWear  BY <2>4 DEF SpanState
    <2>9. \A b \in Block : WritesSoFar[b] <= Acquired.wear_count - BaseNow
            + (IF b <= Acquired.cur_pos /\ Acquired.cur_pos < Total THEN 1 ELSE 0)
      BY <2>3, <2>5, <2>6, <2>8 DEF Block
    <2>10. WritesSoFar \in [Block -> Nat] /\ BaseNow \in 0..MaxWear
      BY <2>3, <2>8
    <2> QED  BY <2>2, <2>5, <2>6, <2>7, <2>9, <2>10, BlockCount
  <1>2. CASE ~Fresh
    <2>1. Acquired = span /\ WritesSoFar = writes /\ BaseNow = base
      BY <1>2 DEF Acquired, WritesSoFar, BaseNow
    <2>2. place \in {"foreground", "background"}  BY <1>2 DEF Reaches, Fresh
    <2> QED
      BY <1>2, <2>1, <2>2 DEF IInv, TypeOK, BlocksAccounted, ListedHasFree, PassCharged
  <1> QED  BY <1>1, <1>2

\* A freshly initialised span is not refused: only a span with a block in the
\* program's hands is parked.
LEMMA FreshServes ==
  ASSUME IInv, Fresh
  PROVE  ~Rescans(Acquired, Total)
  <1>1. span \in SpanState(Total, MaxWear)  BY DEF IInv, TypeOK
  <1>2. Acquired.bitmap = 1..Total /\ Acquired.cur_pos = 0
    BY <1>1 DEF Acquired, SpanInit, SpanState
  <1>3. 1 \in 1..Total /\ ~(1 <= 0) /\ Total # 0  BY TotalAssumption
  <1> QED  BY <1>2, <1>3, Zenon DEF Rescans

\* The header the hand starts from, and the block it finds.
LEMMA HandedOutBlock ==
  ASSUME IInv, Reaches, NEW s, s = Rescanned(Acquired, Total),
         NEW pos, pos = FirstFree(s.bitmap, s.cur_pos)
  PROVE  /\ s.bitmap = Acquired.bitmap
         /\ s.free_block_num = Acquired.free_block_num
         /\ s \in [bitmap : SUBSET Block, cur_pos : 0..Total,
                   free_block_num : 0..Total, wear_count : Nat]
         /\ pos \in s.bitmap
         /\ pos > s.cur_pos
         /\ \/ s = Acquired /\ s.cur_pos # Total
            \/ s.wear_count = Acquired.wear_count + 1 /\ s.cur_pos = 0
  <1>1. Acquired \in SpanState(Total, MaxWear) /\ Acquired.bitmap # {}
    BY AcquiredSpan
  <1>2. CASE Rescans(Acquired, Total)
    <2>1. s = [Acquired EXCEPT !.wear_count = @ + 1, !.cur_pos = 0]
      BY <1>2 DEF Rescanned
    <2>2. s.bitmap = Acquired.bitmap /\ s.cur_pos = 0
          /\ s.wear_count = Acquired.wear_count + 1
          /\ s.free_block_num = Acquired.free_block_num
      BY <1>1, <2>1 DEF SpanState
    <2>3. s \in [bitmap : SUBSET Block, cur_pos : 0..Total,
                 free_block_num : 0..Total, wear_count : Nat]
      <3>1. 0 \in 0..Total  BY TotalAssumption
      <3>2. Acquired.wear_count + 1 \in Nat  BY <1>1, WearAssumption DEF SpanState
      <3>3. Acquired \in [bitmap : SUBSET Block, cur_pos : 0..Total,
                          free_block_num : 0..Total, wear_count : 0..MaxWear]
        BY <1>1 DEF SpanState, Block
      <3> QED  BY <2>1, <3>1, <3>2, <3>3
    <2>4. \E b \in s.bitmap : b > s.cur_pos
      BY <1>1, <2>2, TotalAssumption DEF SpanState
    <2>5. pos \in s.bitmap /\ pos > s.cur_pos
      BY <2>3, <2>4, ScanFinds
    <2> QED  BY <2>2, <2>3, <2>5
  <1>3. CASE ~Rescans(Acquired, Total)
    <2>1. s = Acquired  BY <1>3 DEF Rescanned
    <2>2. s \in [bitmap : SUBSET Block, cur_pos : 0..Total,
                 free_block_num : 0..Total, wear_count : Nat]
      BY <1>1, <2>1, WearAssumption DEF SpanState, Block
    <2>3. s.cur_pos # Total /\ \E b \in s.bitmap : b > s.cur_pos
      BY <1>1, <1>3, <2>1 DEF Rescans, SpanState
    <2>4. pos \in s.bitmap /\ pos > s.cur_pos
      BY <2>2, <2>3, ScanFinds
    <2> QED  BY <2>1, <2>2, <2>3, <2>4
  <1> QED  BY <1>2, <1>3

-----------------------------------------------------------------------------
\* The invariant holds initially.
LEMMA InitIInv == Init => IInv
  <1> SUFFICES ASSUME Init PROVE IInv  OBVIOUS
  <1> USE DEF Init
  <1>1. TypeOK
    BY TotalAssumption, WearAssumption DEF TypeOK, SpanState, Places, Block
  <1>2. BlocksAccounted /\ RecycledIffEmpty /\ ListedHasFree
    BY DEF BlocksAccounted, RecycledIffEmpty, ListedHasFree, Fresh
  <1>3. PassCharged
    BY TotalAssumption DEF PassCharged, Block
  <1> QED  BY <1>1, <1>2, <1>3 DEF IInv

\* Fetches touch neither the header nor the blocks.
LEMMA FetchIInv ==
  ASSUME IInv, FetchSpare \/ OtherFetch
  PROVE  IInv'
  <1>1. span' = span /\ used' = used /\ writes' = writes /\ base' = base
    BY DEF FetchSpare, OtherFetch
  <1>2. wc_threshold' \in 0..MaxWear
    <2>1. span.wear_count \in Nat  BY DEF IInv, TypeOK, SpanState
    <2> QED  BY <2>1, WearAssumption DEF FetchSpare, OtherFetch, FetchThresholds
  <1>3. place' \in Places /\ (Fresh' <=> Fresh)
        /\ (place' \in {"foreground", "background", "n_avaliable"}
              => place \in {"foreground", "background", "n_avaliable"})
    BY DEF FetchSpare, OtherFetch, Fresh, Places, IInv, TypeOK
  <1>4. TypeOK'  BY <1>1, <1>2, <1>3 DEF IInv, TypeOK
  <1>5. BlocksAccounted'  BY <1>1, <1>3 DEF IInv, BlocksAccounted
  <1>6. RecycledIffEmpty'  BY <1>1, <1>3 DEF IInv, RecycledIffEmpty
  <1>7. ListedHasFree'  BY <1>1, <1>3 DEF IInv, ListedHasFree
  <1>8. PassCharged'  BY <1>1 DEF IInv, PassCharged
  <1> QED  BY <1>4, <1>5, <1>6, <1>7, <1>8 DEF IInv

\* Handing out a block.
LEMMA MallocIInv ==
  ASSUME IInv, Malloc
  PROVE  IInv'
  <1> DEFINE s   == Rescanned(Acquired, Total)
             pos == FirstFree(s.bitmap, s.cur_pos)
  <1>0. PICK wc \in Thresholds :
          /\ ~Refuses(Acquired, Total, wc)
          /\ s.wear_count < MaxWear
          /\ wc_threshold' = wc
          /\ span' = HandedOut(s, Total, pos)
          /\ place' = IF span'.free_block_num = 0 THEN "none" ELSE "foreground"
          /\ used' = used \cup {pos}
          /\ writes' = [WritesSoFar EXCEPT ![pos] = @ + 1]
          /\ base' = BaseNow
    BY DEF Malloc
  <1>1. Reaches  BY DEF Malloc
  <1>2. /\ s.bitmap = Acquired.bitmap
        /\ s.free_block_num = Acquired.free_block_num
        /\ s \in [bitmap : SUBSET Block, cur_pos : 0..Total,
                  free_block_num : 0..Total, wear_count : Nat]
        /\ pos \in s.bitmap
        /\ pos > s.cur_pos
        /\ \/ s = Acquired /\ s.cur_pos # Total
           \/ s.wear_count = Acquired.wear_count + 1 /\ s.cur_pos = 0
    BY <1>1, HandedOutBlock
  <1>3. /\ Acquired \in SpanState(Total, MaxWear)
        /\ Acquired.bitmap \cup used = Block
        /\ Acquired.bitmap \cap used = {}
        /\ Acquired.free_block_num = Cardinality(Acquired.bitmap)
        /\ WritesSoFar \in [Block -> Nat]
        /\ BaseNow \in 0..MaxWear
        /\ \A b \in Block : WritesSoFar[b] <= Acquired.wear_count - BaseNow
             + (IF b <= Acquired.cur_pos /\ Acquired.cur_pos < Total THEN 1 ELSE 0)
    BY <1>1, AcquiredSpan
  <1> HIDE DEF s, pos
  <1>4. pos \in Block  BY <1>2
  <1>5. /\ span'.bitmap = s.bitmap \ {pos}
        /\ span'.cur_pos = pos
        /\ span'.free_block_num = s.free_block_num - 1
        /\ span'.wear_count = IF pos = Total THEN s.wear_count + 1 ELSE s.wear_count
    BY <1>0, <1>2 DEF HandedOut
  <1>6. Cardinality(s.bitmap \ {pos}) = s.free_block_num - 1
        /\ s.free_block_num - 1 \in 0..Total
    <2>1. IsFiniteSet(s.bitmap)  BY <1>2, BlocksFinite
    <2>2. Cardinality(s.bitmap \ {pos}) = Cardinality(s.bitmap) - 1
      BY <1>2, <2>1, FS_RemoveElement
    <2>3. Cardinality(s.bitmap) \in 0..Total /\ Cardinality(s.bitmap \ {pos}) \in 0..Total
      BY <1>2, BlocksFinite
    <2> QED  BY <1>2, <1>3, <2>2, <2>3
  <1>7. span'.wear_count \in 0..MaxWear
    BY <1>0, <1>2, <1>5, WearAssumption
  <1>8. TypeOK'
    <2>1. span' \in SpanState(Total, MaxWear)
      <3>1. s.bitmap \ {pos} \in SUBSET Block /\ pos \in 0..Total
        BY <1>2, <1>4, TotalAssumption DEF Block
      <3>2. span' = [bitmap |-> span'.bitmap, cur_pos |-> span'.cur_pos,
                     free_block_num |-> span'.free_block_num, wear_count |-> span'.wear_count]
        BY <1>0, <1>2 DEF HandedOut
      <3> QED  BY <1>5, <1>6, <1>7, <3>1, <3>2 DEF SpanState, Block
    <2>2. wc_threshold' \in 0..MaxWear
      <3>1. span.wear_count \in Nat /\ wc_threshold \in 0..MaxWear
        BY DEF IInv, TypeOK, SpanState
      <3> QED  BY <1>0, <3>1, WearAssumption DEF Thresholds, FetchThresholds
    <2>3. used' \subseteq Block  BY <1>0, <1>4 DEF IInv, TypeOK
    <2>4. writes' \in [Block -> Nat]  BY <1>0, <1>3, <1>4
    <2>5. place' \in Places /\ base' \in 0..MaxWear  BY <1>0, <1>3 DEF Places
    <2> QED  BY <2>1, <2>2, <2>3, <2>4, <2>5 DEF TypeOK
  <1>9. ~Fresh'  BY <1>0 DEF Fresh
  <1>10. BlocksAccounted'
    BY <1>0, <1>2, <1>3, <1>5, <1>6 DEF BlocksAccounted
  <1>11. RecycledIffEmpty'  BY <1>0, <1>9 DEF RecycledIffEmpty
  <1>12. ListedHasFree'
    <2>1. Cardinality({}) = 0  BY FS_EmptySet
    <2> QED  BY <1>0, <1>5, <1>6, <2>1 DEF ListedHasFree
  <1>13. PassCharged'
    <2>1. SUFFICES ASSUME NEW b \in Block
                   PROVE  writes'[b] <= span'.wear_count - base'
                            + (IF b <= span'.cur_pos /\ span'.cur_pos < Total THEN 1 ELSE 0)
      BY DEF PassCharged
    <2>2. writes'[b] = IF b = pos THEN WritesSoFar[b] + 1 ELSE WritesSoFar[b]
      BY <1>0, <1>3
    <2>3. WritesSoFar[b] \in Nat /\ b \in Nat /\ pos \in Nat /\ b <= Total /\ pos <= Total
      BY <1>3, <1>4, TotalAssumption DEF Block
    <2>4. WritesSoFar[b] <= s.wear_count - BaseNow
            + (IF b <= s.cur_pos /\ s.cur_pos < Total THEN 1 ELSE 0)
      <3>1. CASE s = Acquired  BY <1>3, <3>1
      <3>2. CASE s.wear_count = Acquired.wear_count + 1 /\ s.cur_pos = 0
        <4>1. Acquired.wear_count \in Nat /\ BaseNow \in Nat
          BY <1>3, WearAssumption DEF SpanState
        <4>2. WritesSoFar[b] <= Acquired.wear_count - BaseNow + 1
          BY <1>3, <2>3, <4>1
        <4> QED  BY <2>3, <3>2, <4>1, <4>2, TotalAssumption
      <3> QED  BY <1>2, <3>1, <3>2
    <2>5. s.wear_count \in Nat /\ BaseNow \in Nat /\ s.cur_pos \in 0..Total
      BY <1>2, <1>3, WearAssumption
    <2>6. ~(pos <= s.cur_pos)  BY <1>2, <2>3, <2>5
    <2>7. CASE pos = Total
      BY <1>0, <1>2, <1>5, <2>2, <2>3, <2>4, <2>5, <2>6, <2>7, TotalAssumption
    <2>8. CASE pos # Total
      BY <1>0, <1>2, <1>5, <2>2, <2>3, <2>4, <2>5, <2>6, <2>8, TotalAssumption
    <2> QED  BY <2>7, <2>8
  <1> QED  BY <1>8, <1>10, <1>11, <1>12, <1>13 DEF IInv

\* Parking a span the clock refuses.
LEMMA RefusedIInv ==
  ASSUME IInv, MallocRefused
  PROVE  IInv'
  <1>1. Reaches /\ ~Fresh
    <2>1. Reaches /\ \E wc \in Thresholds : Refuses(Acquired, Total, wc)
      BY DEF MallocRefused
    <2>2. Rescans(Acquired, Total)  BY <2>1 DEF Refuses
    <2> QED  BY <2>1, <2>2, FreshServes
  <1>2. /\ Acquired = span
        /\ WritesSoFar = writes
        /\ BaseNow = base
        /\ Thresholds = {wc_threshold}
        /\ span.bitmap # {}
    BY <1>1, AcquiredSpan DEF Acquired, WritesSoFar, BaseNow, Thresholds, Fresh
  <1>3. /\ span' = [span EXCEPT !.wear_count = @ + 1]
        /\ span.wear_count < MaxWear
        /\ wc_threshold' = wc_threshold
        /\ writes' = writes /\ base' = base /\ used' = used
        /\ place' = IF span.free_block_num = Total THEN "central" ELSE "n_avaliable"
    BY <1>2 DEF MallocRefused, Parked
  <1>4. span \in SpanState(Total, MaxWear)  BY DEF IInv, TypeOK
  <1>5. /\ span'.bitmap = span.bitmap /\ span'.cur_pos = span.cur_pos
        /\ span'.free_block_num = span.free_block_num
        /\ span'.wear_count = span.wear_count + 1
        /\ span' \in SpanState(Total, MaxWear)
    BY <1>3, <1>4, WearAssumption DEF SpanState
  \* The branch that gives an all-free span back is never taken: the program
  \* still holds a block of every span that is refused.
  <1>6. used # {}  BY <1>1 DEF IInv, RecycledIffEmpty
  <1>7. span.free_block_num # Total
    <2>1. span.bitmap \in SUBSET Block /\ span.free_block_num = Cardinality(span.bitmap)
          /\ span.bitmap \cap used = {} /\ used \subseteq Block
      BY <1>1, <1>4 DEF IInv, TypeOK, BlocksAccounted, SpanState, Block
    <2> QED  BY <1>6, <2>1, BlocksFinite
  <1>8. place' = "n_avaliable"  BY <1>3, <1>7
  <1>9. TypeOK'  BY <1>3, <1>5, <1>8 DEF IInv, TypeOK, Places
  <1>10. BlocksAccounted'
    BY <1>1, <1>3, <1>5 DEF IInv, BlocksAccounted
  <1>11. RecycledIffEmpty'  BY <1>3, <1>6, <1>8 DEF RecycledIffEmpty, Fresh
  <1>12. ListedHasFree'  BY <1>2, <1>5 DEF ListedHasFree
  <1>13. PassCharged'
    <2>1. SUFFICES ASSUME NEW b \in Block
                   PROVE  writes'[b] <= span'.wear_count - base'
                            + (IF b <= span'.cur_pos /\ span'.cur_pos < Total THEN 1 ELSE 0)
      BY DEF PassCharged
    <2>2. writes[b] \in Nat /\ base \in Nat /\ span.wear_count \in Nat
      BY <1>4, WearAssumption DEF IInv, TypeOK, SpanState
    <2>3. writes[b] <= span.wear_count - base
            + (IF b <= span.cur_pos /\ span.cur_pos < Total THEN 1 ELSE 0)
      BY DEF IInv, PassCharged
    <2> QED  BY <1>3, <1>5, <2>2, <2>3
  <1> QED  BY <1>9, <1>10, <1>11, <1>12, <1>13 DEF IInv

\* Freeing a block: the span leaves the program's hands exactly when the
\* last block comes back.
LEMMA FreeIInv ==
  ASSUME IInv, NEW b \in Block, Free(b)
  PROVE  IInv'
  <1>1. /\ b \in used /\ used' = used \ {b}
        /\ span' = Freed(span, Total, b)
        /\ wc_threshold' = wc_threshold /\ writes' = writes
        /\ base' = base
    BY DEF Free
  <1>2. ~Fresh  BY <1>1 DEF IInv, RecycledIffEmpty
  <1>3. /\ span \in SpanState(Total, MaxWear)
        /\ span.bitmap \in SUBSET Block /\ used \subseteq Block
        /\ span.bitmap \cup used = Block
        /\ span.bitmap \cap used = {}
        /\ span.free_block_num = Cardinality(span.bitmap)
    BY <1>2 DEF IInv, TypeOK, BlocksAccounted, SpanState, Block
  <1> DEFINE grown == span.bitmap \cup {b}
  <1>4. /\ Cardinality(grown) = span.free_block_num + 1
        /\ span.free_block_num + 1 \in 0..Total
        /\ span.free_block_num + 1 = Total => grown = Block
    <2>1. b \notin span.bitmap /\ grown \in SUBSET Block  BY <1>1, <1>3
    <2>2. IsFiniteSet(span.bitmap)  BY <1>3, BlocksFinite
    <2>3. Cardinality(grown) = span.free_block_num + 1
      BY <1>3, <2>1, <2>2, FS_AddElement
    <2> QED  BY <2>1, <2>3, BlocksFinite
  <1>5. /\ span'.cur_pos = span.cur_pos
        /\ span'.wear_count = span.wear_count
        /\ span'.free_block_num = span.free_block_num + 1
        /\ span'.bitmap = IF span.free_block_num + 1 = Total THEN span.bitmap ELSE grown
        /\ span' \in SpanState(Total, MaxWear)
    <2>1. span' = [span EXCEPT !.free_block_num = span.free_block_num + 1,
                               !.bitmap = IF span.free_block_num + 1 = Total
                                          THEN span.bitmap ELSE grown]
      BY <1>1 DEF Freed
    <2>2. (IF span.free_block_num + 1 = Total THEN span.bitmap ELSE grown) \in SUBSET (1..Total)
      BY <1>3 DEF Block
    <2> HIDE DEF grown
    <2> QED  BY <1>3, <1>4, <2>1, <2>2 DEF SpanState
  <1> HIDE DEF grown
  <1>6. PassCharged'  BY <1>1, <1>5 DEF IInv, PassCharged
  <1>7. CASE span.free_block_num + 1 = Total
    <2>1. used' = {}  BY <1>1, <1>3, <1>4, <1>7 DEF grown
    <2>2. place' \in {"central", "free_list"}
      <3>1. span.wear_count >= wc_threshold \/ span.wear_count < wc_threshold
        BY <1>3, WearAssumption DEF SpanState, IInv, TypeOK
      <3> QED  BY <1>5, <1>7, <3>1 DEF Free
    <2> QED
      BY <1>1, <1>5, <1>6, <2>1, <2>2
         DEF IInv, TypeOK, Places, BlocksAccounted, RecycledIffEmpty, ListedHasFree, Fresh
  <1>8. CASE span.free_block_num + 1 # Total
    <2>1. span'.free_block_num # Total /\ span'.bitmap = grown /\ grown # {}
      BY <1>5, <1>8 DEF grown
    <2>2. used' # {}
      <3>1. SUFFICES ASSUME used' = {}  PROVE FALSE  OBVIOUS
      <3>2. grown = Block  BY <1>1, <1>3, <3>1 DEF grown
      <3> QED  BY <1>4, <1>8, <3>2, BlockCount
    <2>3. place' \in {place, "background"}  BY <2>1 DEF Free
    <2>4. ~Fresh' /\ place' \in Places
      BY <1>2, <2>3 DEF Fresh, Places, IInv, TypeOK
    <2>5. BlocksAccounted'
      BY <1>1, <1>3, <1>4, <1>5, <2>1 DEF BlocksAccounted, grown
    <2>6. RecycledIffEmpty' /\ ListedHasFree'
      BY <2>1, <2>2, <2>4 DEF RecycledIffEmpty, ListedHasFree
    <2>7. TypeOK'
      BY <1>1, <1>3, <1>5, <2>4 DEF IInv, TypeOK
    <2> QED  BY <1>6, <2>5, <2>6, <2>7 DEF IInv
  <1> QED  BY <1>7, <1>8

\* IInv is inductive: one case per action.
LEMMA NextIInv == IInv /\ [Next]_vars => IInv'
  <1> SUFFICES ASSUME IInv, [Next]_vars PROVE IInv'  OBVIOUS
  <1>1. CASE FetchSpare     BY <1>1, FetchIInv
  <1>2. CASE OtherFetch     BY <1>2, FetchIInv
  <1>3. CASE Malloc         BY <1>3, MallocIInv
  <1>4. CASE MallocRefused  BY <1>4, RefusedIInv
  <1>5. ASSUME NEW b \in Block, Free(b) PROVE IInv'  BY <1>5, FreeIInv
  <1>6. CASE UNCHANGED vars
    BY <1>6 DEF vars, IInv, TypeOK, BlocksAccounted, RecycledIffEmpty, ListedHasFree,
                PassCharged, Fresh
  <1> QED  BY <1>1, <1>2, <1>3, <1>4, <1>5, <1>6 DEF Next

\* The header, the blocks the program holds and the charged wear agree: the
\* invariant of span_clock_allocate and small_free.
THEOREM Invariant == Spec => []IInv
  BY InitIInv, NextIInv, PTL DEF Spec

-----------------------------------------------------------------------------
\* Every reachable state is well typed: the counters of a span stay within
\* their size class for every class.
THEOREM TypeCorrect == Spec => []TypeOK
  <1>1. IInv => TypeOK  BY DEF IInv
  <1> QED  BY <1>1, Invariant, PTL

\* span_clock_allocate never hands out a block the program holds, small_free
\* never loses one, and free_block_num agrees with the bitmap.
THEOREM BlocksAreAccounted == Spec => []BlocksAccounted
  <1>1. IInv => BlocksAccounted  BY DEF IInv
  <1> QED  BY <1>1, Invariant, PTL

\* A span is recycled exactly while the program holds none of its blocks.
THEOREM RecycledExactlyWhenEmpty == Spec => []RecycledIffEmpty
  <1>1. IInv => RecycledIffEmpty  BY DEF IInv
  <1> QED  BY <1>1, Invariant, PTL

\* Between two initialisations wear_count bounds the writes of every block.
THEOREM WearIsCounted == Spec => []WearCountsEveryPass
  <1>1. IInv => WearCountsEveryPass
    <2>1. SUFFICES ASSUME IInv, NEW b \in Block
                   PROVE  writes[b] <= span.wear_count - base + 1
      BY DEF WearCountsEveryPass
    <2>2. writes[b] \in Nat /\ base \in Nat /\ span.wear_count \in Nat
      BY <2>1, WearAssumption DEF IInv, TypeOK, SpanState
    <2> QED  BY <2>1, <2>2 DEF IInv, PassCharged
  <1> QED  BY <1>1, Invariant, PTL
=============================================================================
