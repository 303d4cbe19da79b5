-------------------------- MODULE FrameCountProofs --------------------------
(***************************************************************************)
(* Proofs about the counts of user memory: the frames that are available   *)
(* for reservation, and those that the allocator can still give.           *)
(***************************************************************************)
EXTENDS FramesProofs

(* The pages that an allocation may count, and what an address space is     *)
(* promised for a set of allocations.                                       *)
CountedPage == Page \cup {NPages + 1}

Block(d, rs) == {x \in Ppd \X Region \X CountedPage :
                    x[1] = d /\ x[2] \in rs /\ x[3] \in First[x[2]] .. EndPage(x[2])}

(* An allocation that its owner can use is mapped, from its first page.     *)
BackedAt(d) ==
    pc[d] \notin {"none", "copy"} /\ d \notin dying => \A r \in alloc[d] : Mapped(d, First[r])

CountInv == /\ \A d \in Ppd : BackedAt(d)
            /\ available \in Nat
            /\ AvailableAccounts

-----------------------------------------------------------------------------
LEMMA SameSize ==
    ASSUME NEW S, NEW T, IsFiniteSet(S), NEW f \in [S -> T],
           \A a, b \in S : f[a] = f[b] => a = b,
           \A t \in T : \E s \in S : f[s] = t
    PROVE  IsFiniteSet(T) /\ Cardinality(T) = Cardinality(S)
  <1>1. f \in Bijection(S, T)
    BY Fun_IsBij
  <1>2. ExistsBijection(S, T)
    BY <1>1, Fun_ExistsBij
  <1> QED
    BY <1>2, FS_Bijection

LEMMA NotLarger ==
    ASSUME NEW S, NEW T, IsFiniteSet(T), NEW f \in [S -> T],
           \A a, b \in S : f[a] = f[b] => a = b
    PROVE  IsFiniteSet(S) /\ Cardinality(S) <= Cardinality(T)
  <1>1. f \in Injection(S, T)
    BY Fun_IsInj
  <1> QED
    BY <1>1, FS_Injection

LEMMA DisjointUnion ==
    ASSUME NEW S, NEW T, IsFiniteSet(S), IsFiniteSet(T), S \cap T = {}
    PROVE  /\ IsFiniteSet(S \cup T)
           /\ Cardinality(S \cup T) = Cardinality(S) + Cardinality(T)
           /\ Cardinality(S) \in Nat /\ Cardinality(T) \in Nat
  <1>1. Cardinality(S) \in Nat /\ Cardinality(T) \in Nat
    BY FS_CardinalityType
  <1>2. Cardinality(S \cap T) = 0
    BY FS_EmptySet
  <1>3. IsFiniteSet(S \cup T)
        /\ Cardinality(S \cup T) = Cardinality(S) + Cardinality(T) - Cardinality(S \cap T)
    BY FS_Union
  <1> QED
    BY <1>1, <1>2, <1>3

LEMMA CountedPages ==
    /\ IsFiniteSet(CountedPage) /\ CountedPage \subseteq Int
    /\ \A r \in Region : /\ First[r] \in Int /\ EndPage(r) \in Int
                         /\ First[r] .. EndPage(r) \subseteq CountedPage
                         /\ Cardinality(First[r] .. EndPage(r)) = RequiredFrames(r)
                         /\ IsFiniteSet(First[r] .. EndPage(r))
                         /\ PagesOf(r) \subseteq First[r] .. EndPage(r)
  <1>1. IsFiniteSet(Page)
    BY FrameFacts, FS_Interval DEF Page
  <1>2. IsFiniteSet(CountedPage)
    BY <1>1, FS_AddElement DEF CountedPage
  <1>3. CountedPage \subseteq Int
    BY FrameFacts DEF CountedPage, Page
  <1>4. ASSUME NEW r \in Region
        PROVE  /\ First[r] \in Int /\ EndPage(r) \in Int /\ First[r] <= EndPage(r)
               /\ First[r] .. EndPage(r) \subseteq CountedPage
               /\ Cardinality(First[r] .. EndPage(r)) = RequiredFrames(r)
               /\ IsFiniteSet(First[r] .. EndPage(r))
               /\ PagesOf(r) \subseteq First[r] .. EndPage(r)
    <2>1. First[r] \in Page /\ Last[r] \in Page /\ First[r] <= Last[r]
      BY RegionFacts
    <2>2. /\ First[r] \in Int /\ EndPage(r) \in Int /\ First[r] <= EndPage(r)
          /\ 1 <= First[r] /\ EndPage(r) <= NPages + 1
          /\ PagesOf(r) \subseteq First[r] .. EndPage(r)
      BY <2>1, FrameFacts DEF Page, EndPage, PagesOf
    <2>3. First[r] .. EndPage(r) \subseteq CountedPage
      BY <2>2, FrameFacts DEF CountedPage, Page
    <2>4. IsFiniteSet(First[r] .. EndPage(r))
          /\ Cardinality(First[r] .. EndPage(r)) = EndPage(r) - First[r] + 1
      BY <2>2, FS_Interval
    <2> QED
      BY <2>2, <2>3, <2>4 DEF RequiredFrames
  <1> QED
    BY <1>2, <1>3, <1>4

(* What is promised for a set of allocations is what required_frames counts. *)
LEMMA BlockSize ==
    ASSUME NEW d \in Ppd, NEW rs \in SUBSET Region
    PROVE  /\ IsFiniteSet(Block(d, rs))
           /\ Cardinality(Block(d, rs)) = RequiredBy(rs)
  <1> DEFINE S == {x \in rs \X (Page \cup {NPages + 1}) : x[2] \in First[x[1]] .. EndPage(x[1])}
             f == [x \in S |-> <<d, x[1], x[2]>>]
  <1>1. IsFiniteSet(rs \X (Page \cup {NPages + 1}))
    <2>1. IsFiniteSet(rs)
      BY FramesConstants, FS_Subset
    <2> QED
      BY <2>1, CountedPages, FS_Product DEF CountedPage
  <1>2. IsFiniteSet(S)
    BY <1>1, FS_Subset
  <1>3. f \in [S -> Block(d, rs)]
    BY DEF Block, CountedPage
  <1>4. \A a, b \in S : f[a] = f[b] => a = b
    OBVIOUS
  <1>5. \A t \in Block(d, rs) : \E s \in S : f[s] = t
    <2> SUFFICES ASSUME NEW t \in Block(d, rs) PROVE \E s \in S : f[s] = t
      OBVIOUS
    <2>1. /\ t = <<d, t[2], t[3]>> /\ t[2] \in rs /\ t[3] \in CountedPage
          /\ t[3] \in First[t[2]] .. EndPage(t[2])
      BY DEF Block
    <2>2. <<t[2], t[3]>> \in S
      BY <2>1 DEF CountedPage
    <2>3. f[<<t[2], t[3]>>] = t
      BY <2>1, <2>2
    <2> QED
      BY <2>2, <2>3
  <1> HIDE DEF f
  <1>6. IsFiniteSet(Block(d, rs)) /\ Cardinality(Block(d, rs)) = Cardinality(S)
    BY <1>2, <1>3, <1>4, <1>5, SameSize
  <1> QED
    BY <1>6 DEF RequiredBy

LEMMA BlockOfOne ==
    ASSUME NEW d \in Ppd, NEW r \in Region
    PROVE  /\ IsFiniteSet(Block(d, {r}))
           /\ Cardinality(Block(d, {r})) = RequiredFrames(r)
  <1> DEFINE S == First[r] .. EndPage(r)
             f == [g \in S |-> <<d, r, g>>]
  <1>1. IsFiniteSet(S) /\ Cardinality(S) = RequiredFrames(r) /\ S \subseteq CountedPage
    BY CountedPages
  <1>2. f \in [S -> Block(d, {r})]
    BY <1>1 DEF Block
  <1>3. \A a, b \in S : f[a] = f[b] => a = b
    OBVIOUS
  <1>4. \A t \in Block(d, {r}) : \E g \in S : f[g] = t
    BY DEF Block
  <1> HIDE DEF f, S
  <1>5. IsFiniteSet(Block(d, {r})) /\ Cardinality(Block(d, {r})) = Cardinality(S)
    BY <1>1, <1>2, <1>3, <1>4, SameSize
  <1> QED
    BY <1>1, <1>5

LEMMA PromisedFinite == IsFiniteSet(Promised)
  <1> DEFINE P == Ppd \X Region \X CountedPage
             S == (Ppd \X Region) \X CountedPage
             f == [x \in P |-> <<<<x[1], x[2]>>, x[3]>>]
  <1>1. IsFiniteSet(S)
    BY FramesConstants, CountedPages, FS_Product
  <1>2. f \in [P -> S]
    OBVIOUS
  <1>3. \A a, b \in P : f[a] = f[b] => a = b
    OBVIOUS
  <1> HIDE DEF f
  <1>4. IsFiniteSet(P)
    BY <1>1, <1>2, <1>3, NotLarger
  <1>5. Promised \subseteq P
    BY DEF Promised, CountedPage
  <1> QED
    BY <1>4, <1>5, FS_Subset

(* What is promised is not changed by a step, or by one allocation.         *)
LEMMA PromisedSame ==
    ASSUME \A x \in Ppd : PromisedTo(x)' = PromisedTo(x)
    PROVE  Promised' = Promised
  <1>1. \A r : EndPage(r)' = EndPage(r)
    BY DEF EndPage
  <1> QED
    BY <1>1 DEF Promised

LEMMA PromisedMore ==
    ASSUME NEW d \in Ppd, NEW rs \in SUBSET Region,
           PromisedTo(d)' = PromisedTo(d) \cup rs, PromisedTo(d) \cap rs = {},
           \A x \in Ppd : x # d => PromisedTo(x)' = PromisedTo(x)
    PROVE  Cardinality(Promised') = Cardinality(Promised) + RequiredBy(rs)
  <1>1. \A r : EndPage(r)' = EndPage(r)
    BY DEF EndPage
  <1>2. Promised' = Promised \cup Block(d, rs)
    <2> DEFINE P == Ppd \X Region \X CountedPage
    <2>1. ASSUME NEW x \in P PROVE x \in Promised' <=> x \in Promised \/ x \in Block(d, rs)
      BY <1>1 DEF Promised, Block, CountedPage
    <2>2. Promised \subseteq P /\ Promised' \subseteq P /\ Block(d, rs) \subseteq P
      BY DEF Promised, Block, CountedPage
    <2> QED
      BY <2>1, <2>2
  <1>3. Promised \cap Block(d, rs) = {}
    BY DEF Promised, Block
  <1> QED
    BY <1>2, <1>3, PromisedFinite, BlockSize, DisjointUnion, ZenonT(60)

LEMMA PromisedLess ==
    ASSUME NEW d \in Ppd, NEW r \in Region,
           PromisedTo(d)' = PromisedTo(d) \ {r}, r \in PromisedTo(d),
           \A x \in Ppd : x # d => PromisedTo(x)' = PromisedTo(x)
    PROVE  Cardinality(Promised') = Cardinality(Promised) - RequiredFrames(r)
  <1>1. \A s : EndPage(s)' = EndPage(s)
    BY DEF EndPage
  <1> DEFINE B == Block(d, {r})
  <1>2. Promised = (Promised \ B) \cup B
    BY DEF Promised, Block, CountedPage
  <1>3. Promised' = Promised \ B
    <2> DEFINE P == Ppd \X Region \X CountedPage
    <2>1. ASSUME NEW x \in P PROVE x \in Promised' <=> x \in Promised /\ x \notin B
      BY <1>1 DEF Promised, Block, CountedPage
    <2>2. Promised \subseteq P /\ Promised' \subseteq P
      BY DEF Promised, CountedPage
    <2> QED
      BY <2>1, <2>2
  <1>4. IsFiniteSet(B) /\ Cardinality(B) = RequiredFrames(r)
    BY BlockOfOne
  <1>5. IsFiniteSet(Promised \ B)
    BY PromisedFinite, FS_Subset
  <1> HIDE DEF B
  <1>6. /\ Cardinality((Promised \ B) \cup B) = Cardinality(Promised \ B) + Cardinality(B)
        /\ Cardinality(Promised \ B) \in Nat
    <2>1. (Promised \ B) \cap B = {}
      OBVIOUS
    <2> QED
      BY <1>4, <1>5, <2>1, DisjointUnion
  <1>7. RequiredFrames(r) \in Nat
    BY RegionFacts
  <1>8. Cardinality(Promised) = Cardinality((Promised \ B) \cup B)
    BY <1>2, Zenon
  <1>9. Cardinality(Promised') = Cardinality(Promised \ B)
    BY <1>3, Zenon
  <1> QED
    BY <1>4, <1>6, <1>7, <1>8, <1>9

(* Steps that neither reserve nor release.                                  *)
Quiet == /\ UNCHANGED <<available, leaked, unreserved, alloc>>
         /\ \A x \in Ppd : /\ pc'[x] = "reserved" <=> pc[x] = "reserved"
                           /\ pc[x] = "reserved" => region'[x] = region[x]

LEMMA QuietAccounts ==
    ASSUME AvailableAccounts, Quiet
    PROVE  AvailableAccounts' /\ available' = available
  <1>1. \A x \in Ppd : PromisedTo(x)' = PromisedTo(x)
    BY DEF Quiet, PromisedTo
  <1>2. Promised' = Promised
    BY <1>1, PromisedSame
  <1> QED
    BY <1>2 DEF Quiet, AvailableAccounts

LEMMA QuietSteps ==
    ASSUME IInv, NEW d \in Ppd,
           \/ Create(d) \/ Exit(d) \/ Gone(d)
           \/ \E g \in Page : AllocFrame(d, g)
           \/ ZeroFrame(d)
           \/ FreeZeroPage(d) \/ HidePage(d) \/ FreeFrame(d) \/ UnmapPage(d) \/ FreeEnds(d)
           \/ CopyNoFrame(d) \/ CopyFrame(d) \/ CopyFails(d) \/ CopyEnds(d)
    PROVE  Quiet
  <1>1. TypeOK
    BY DEF IInv
  <1>2. CASE Create(d) \/ Exit(d)
    BY <1>1, <1>2 DEF Create, Exit, Goto, Quiet, TypeOK, Ready
  <1>3. CASE Gone(d)
    <2>1. /\ pc' = [x \in Ppd |-> IF x = d THEN "none" ELSE IF x = copyOf[d] THEN "ready" ELSE pc[x]]
          /\ UNCHANGED <<available, alloc, region, unreserved, leaked>> /\ pc[d] = "ready"
      BY <1>3 DEF Gone
    <2>2. \A x \in Ppd : x = copyOf[d] => pc[x] = "fork"
      BY CopyFacts, FrameFacts
    <2> QED
      BY <2>1, <2>2 DEF Quiet
  <1>4. CASE ZeroFrame(d) \/ \E g \in Page : AllocFrame(d, g)
    BY <1>1, <1>4 DEF ZeroFrame, AllocFrame, Ready, Goto, Quiet, TypeOK
  <1>5. CASE FreeZeroPage(d) \/ HidePage(d) \/ FreeFrame(d) \/ UnmapPage(d)
    BY <1>1, <1>5 DEF FreeZeroPage, HidePage, FreeFrame, UnmapPage, Goto, Quiet, TypeOK
  <1>6. CASE FreeEnds(d)
    BY <1>1, <1>6 DEF FreeEnds, Goto, Quiet, TypeOK
  <1>7. CASE CopyNoFrame(d) \/ CopyFrame(d) \/ CopyFails(d)
    BY <1>1, <1>7 DEF CopyNoFrame, CopyFrame, CopyFails, Goto, Quiet, TypeOK
  <1>8. CASE CopyEnds(d)
    <2>1. /\ pc' = [pc EXCEPT ![d] = "ready", ![copyOf[d]] = "ready"] /\ pc[d] = "copy"
          /\ UNCHANGED <<available, alloc, region, unreserved, leaked>>
      BY <1>8 DEF CopyEnds
    <2>2. copyOf[d] \in Ppd /\ pc[copyOf[d]] = "fork"
      BY <2>1, CopyFacts, FrameFacts
    <2> QED
      BY <1>1, <2>1, <2>2 DEF Quiet, TypeOK
  <1> QED
    BY <1>2, <1>3, <1>4, <1>5, <1>6, <1>7, <1>8

(* Steps that reserve or release.                                           *)
LEMMA ReserveCounts ==
    ASSUME IInv, CountInv, NEW d \in Ppd, NEW r \in Region, Reserve(d, r)
    PROVE  AvailableAccounts' /\ available' \in Nat
  <1>1. /\ pc[d] = "ready" /\ d \notin dying
        /\ \A g \in PagesOf(r) : entry[d][g] = Unmapped
        /\ RequiredFrames(r) <= available
        /\ available' = available - RequiredFrames(r)
        /\ pc' = [pc EXCEPT ![d] = "reserved"]
        /\ region' = [region EXCEPT ![d] = r]
        /\ UNCHANGED <<alloc, unreserved, leaked>>
    BY DEF Reserve, Ready, CanReserve, Goto
  <1>2. r \notin alloc[d]
    <2>1. First[r] \in PagesOf(r)
      BY RegionFacts DEF PagesOf, Page
    <2> QED
      BY <1>1, <2>1 DEF CountInv, BackedAt, Mapped
  <1>3. pc'[d] = "reserved" /\ region'[d] = r
        /\ \A x \in Ppd : x # d => pc'[x] = pc[x] /\ region'[x] = region[x]
    BY <1>1 DEF IInv, TypeOK
  <1>4. PromisedTo(d) = alloc[d] /\ PromisedTo(d)' = alloc[d] \cup {r}
    BY <1>1, <1>3 DEF PromisedTo
  <1>5. \A x \in Ppd : x # d => PromisedTo(x)' = PromisedTo(x)
    BY <1>1, <1>3 DEF PromisedTo
  <1>6. Cardinality(Promised') = Cardinality(Promised) + RequiredBy({r})
    BY <1>2, <1>4, <1>5, PromisedMore
  <1>7. RequiredBy({r}) = RequiredFrames(r)
    BY BlockSize, BlockOfOne
  <1>8. /\ Cardinality(Promised) \in Nat /\ RequiredFrames(r) \in Nat /\ available \in Nat
        /\ leaked \in Nat /\ unreserved \in Nat
    BY PromisedFinite, FS_CardinalityType, RegionFacts, FramesConstants DEF CountInv, IInv, TypeOK
  <1> QED
    BY <1>1, <1>6, <1>7, <1>8, FrameFacts DEF CountInv, AvailableAccounts

LEMMA MapZeroPagesCounts ==
    ASSUME IInv, CountInv, NEW d \in Ppd, MapZeroPages(d)
    PROVE  AvailableAccounts' /\ available' \in Nat
  <1>1. /\ pc[d] = "reserved"
        /\ alloc' = [alloc EXCEPT ![d] = @ \cup {region[d]}]
        /\ pc' = [pc EXCEPT ![d] = "ready"]
        /\ region' = [region EXCEPT ![d] = None]
        /\ UNCHANGED <<available, unreserved, leaked>>
    BY DEF MapZeroPages, Goto
  <1>2. \A x \in Ppd : PromisedTo(x)' = PromisedTo(x)
    BY <1>1 DEF IInv, TypeOK, PromisedTo
  <1> QED
    BY <1>1, <1>2, PromisedSame DEF CountInv, AvailableAccounts

LEMMA AllocFailsCounts ==
    ASSUME IInv, CountInv, NEW d \in Ppd, AllocFails(d)
    PROVE  AvailableAccounts' /\ available' \in Nat
  <1> DEFINE r == region[d]
  <1>1. /\ pc[d] = "reserved"
        /\ leaked' = leaked + RequiredFrames(r)
        /\ pc' = [pc EXCEPT ![d] = "ready"]
        /\ region' = [region EXCEPT ![d] = None]
        /\ UNCHANGED <<available, alloc, unreserved>>
    BY DEF AllocFails, Goto
  <1>2. r \in Region /\ d \notin dying /\ \A g \in PagesOf(r) : ~Mapped(d, g)
    BY <1>1 DEF IInv, CallsOK, CallOK, Freeing, TablesOK, TableOK
  <1>3. r \notin alloc[d]
    <2>1. First[r] \in PagesOf(r)
      BY <1>2, RegionFacts DEF PagesOf, Page
    <2> QED
      BY <1>1, <1>2, <2>1 DEF CountInv, BackedAt
  <1>4. PromisedTo(d) = alloc[d] \cup {r} /\ PromisedTo(d)' = alloc[d]
    BY <1>1 DEF IInv, TypeOK, PromisedTo
  <1>5. \A x \in Ppd : x # d => PromisedTo(x)' = PromisedTo(x)
    BY <1>1 DEF IInv, TypeOK, PromisedTo
  <1> HIDE DEF r
  <1>6. Cardinality(Promised') = Cardinality(Promised) - RequiredFrames(r)
    BY <1>2, <1>3, <1>4, <1>5, PromisedLess
  <1>7. /\ Cardinality(Promised) \in Nat /\ RequiredFrames(r) \in Nat /\ available \in Nat
        /\ leaked \in Nat /\ unreserved \in Nat
    BY <1>2, PromisedFinite, FS_CardinalityType, RegionFacts, FramesConstants
       DEF CountInv, IInv, TypeOK
  <1> QED
    BY <1>1, <1>6, <1>7, FrameFacts DEF CountInv, AvailableAccounts

LEMMA FreeAllocCounts ==
    ASSUME IInv, CountInv, NEW d \in Ppd, NEW r \in Region, FreeAlloc(d, r)
    PROVE  AvailableAccounts' /\ available' \in Nat
  <1>1. /\ pc[d] = "ready" /\ r \in alloc[d]
        /\ alloc' = [alloc EXCEPT ![d] = @ \ {r}]
        /\ available' = available + RequiredFrames(r)
        /\ pc' = [pc EXCEPT ![d] = "free"]
        /\ region' = [region EXCEPT ![d] = r]
        /\ UNCHANGED <<unreserved, leaked>>
    BY DEF FreeAlloc, Released, Goto
  <1>2. PromisedTo(d) = alloc[d] /\ PromisedTo(d)' = alloc[d] \ {r}
    BY <1>1 DEF IInv, TypeOK, PromisedTo
  <1>3. \A x \in Ppd : x # d => PromisedTo(x)' = PromisedTo(x)
    BY <1>1 DEF IInv, TypeOK, PromisedTo
  <1>4. Cardinality(Promised') = Cardinality(Promised) - RequiredFrames(r)
    BY <1>1, <1>2, <1>3, PromisedLess
  <1>5. /\ Cardinality(Promised) \in Nat /\ RequiredFrames(r) \in Nat /\ available \in Nat
        /\ leaked \in Nat /\ unreserved \in Nat
    BY PromisedFinite, FS_CardinalityType, RegionFacts, FramesConstants DEF CountInv, IInv, TypeOK
  <1> QED
    BY <1>1, <1>4, <1>5, FrameFacts DEF CountInv, AvailableAccounts

LEMMA ForkCounts ==
    ASSUME IInv, CountInv, NEW d \in Ppd, NEW e \in Ppd, Fork(d, e)
    PROVE  AvailableAccounts' /\ available' \in Nat
  <1>1. /\ pc[d] = "ready" /\ pc[e] = "none" /\ d # e
        /\ unreserved' = unreserved + RequiredBy(alloc[d])
        /\ alloc' = [alloc EXCEPT ![e] = alloc[d]]
        /\ pc' = [pc EXCEPT ![d] = "fork", ![e] = "copy"]
        /\ UNCHANGED <<available, region, leaked>>
    BY DEF Fork, Ready
  <1>2. alloc[e] = {} /\ alloc[d] \in SUBSET Region
    BY <1>1 DEF IInv, CallsOK, CallOK, TypeOK
  <1>3. PromisedTo(e) = {} /\ PromisedTo(e)' = alloc[d]
    BY <1>1, <1>2 DEF IInv, TypeOK, PromisedTo
  <1>4. \A x \in Ppd : x # e => PromisedTo(x)' = PromisedTo(x)
    BY <1>1 DEF IInv, TypeOK, PromisedTo
  <1>5. Cardinality(Promised') = Cardinality(Promised) + RequiredBy(alloc[d])
    BY <1>2, <1>3, <1>4, PromisedMore
  <1>6. /\ Cardinality(Promised) \in Nat /\ RequiredBy(alloc[d]) \in Nat /\ available \in Nat
        /\ leaked \in Nat /\ unreserved \in Nat
    BY <1>2, PromisedFinite, FS_CardinalityType, RequiredByType, FramesConstants
       DEF CountInv, IInv, TypeOK
  <1> QED
    BY <1>1, <1>5, <1>6, FrameFacts DEF CountInv, AvailableAccounts

-----------------------------------------------------------------------------
(* The first pages of live allocations stay mapped.                         *)
LEMMA BackedKept ==
    ASSUME \A d \in Ppd : BackedAt(d),
           \A x \in Ppd : pc'[x] \notin {"none", "copy"} /\ x \notin dying' =>
               /\ pc[x] \notin {"none", "copy"} /\ x \notin dying
               /\ alloc'[x] \subseteq alloc[x]
               /\ \A r \in alloc'[x] : Mapped(x, First[r]) => Mapped(x, First[r])'
    PROVE  \A d \in Ppd : BackedAt(d)'
  BY DEF BackedAt

LEMMA BackedStep ==
    ASSUME IInv, CountInv, Next
    PROVE  \A d \in Ppd : BackedAt(d)'
  <1>1. TypeOK /\ (\A d \in Ppd : BackedAt(d))
    BY DEF IInv, CountInv
  <1>2. \A x \in Ppd : \A r \in alloc[x] : r \in Region /\ First[r] \in Page /\ First[r] \in PagesOf(r)
    BY <1>1, RegionFacts DEF TypeOK, PagesOf, Page
  <1>3. ASSUME NEW d \in Ppd, Create(d) PROVE \A x \in Ppd : BackedAt(x)'
    <2>1. /\ pc[d] = "none" /\ pc' = [pc EXCEPT ![d] = "ready"]
          /\ alloc' = alloc /\ entry' = entry /\ dying' = dying
      BY <1>3 DEF Create, Goto, tables
    <2>2. alloc[d] = {}
      BY <2>1 DEF IInv, CallsOK, CallOK
    <2> QED
      BY <1>1, <2>1, <2>2 DEF BackedAt, TypeOK, Mapped
  <1>4. ASSUME NEW d \in Ppd, Exit(d) PROVE \A x \in Ppd : BackedAt(x)'
    <2>1. pc' = pc /\ alloc' = alloc /\ entry' = entry /\ dying' = dying \cup {d}
      BY <1>4 DEF Exit, tables
    <2> QED
      BY <1>1, <2>1, BackedKept DEF Mapped
  <1>5. ASSUME NEW d \in Ppd, Gone(d) PROVE \A x \in Ppd : BackedAt(x)'
    <2>1. /\ pc' = [x \in Ppd |-> IF x = d THEN "none" ELSE IF x = copyOf[d] THEN "ready" ELSE pc[x]]
          /\ alloc' = alloc /\ entry' = entry /\ dying' = dying \ {d}
      BY <1>5 DEF Gone, tables
    <2>2. \A x \in Ppd : x = copyOf[d] => pc[x] = "fork"
      BY CopyFacts, FrameFacts
    <2> QED
      BY <1>1, <2>1, <2>2, BackedKept DEF Mapped
  <1>6. ASSUME NEW d \in Ppd, NEW r \in Region, Reserve(d, r) \/ FreeAlloc(d, r)
        PROVE  \A x \in Ppd : BackedAt(x)'
    <2>1. /\ pc[d] = "ready" /\ \E v \in {"reserved", "free"} : pc' = [pc EXCEPT ![d] = v]
          /\ alloc' = alloc \/ alloc' = [alloc EXCEPT ![d] = @ \ {r}]
          /\ entry' = entry /\ dying' = dying
      BY <1>6 DEF Reserve, FreeAlloc, Ready, Goto, tables
    <2>2. \A x \in Ppd : /\ alloc'[x] \subseteq alloc[x]
                         /\ pc'[x] \notin {"none", "copy"} => pc[x] \notin {"none", "copy"}
      BY <1>1, <2>1 DEF TypeOK
    <2> QED
      BY <1>1, <2>1, <2>2, BackedKept DEF Mapped
  <1>7. ASSUME NEW d \in Ppd, MapZeroPages(d) PROVE \A x \in Ppd : BackedAt(x)'
    <2>1. /\ pc[d] = "reserved" /\ dying' = dying
          /\ alloc' = [alloc EXCEPT ![d] = @ \cup {region[d]}]
          /\ entry' = [entry EXCEPT ![d] =
                         [g \in Page |-> IF g \in PagesOf(region[d]) THEN ZeroPage ELSE entry[d][g]]]
          /\ pc' = [pc EXCEPT ![d] = "ready"]
      BY <1>7 DEF MapZeroPages, Goto
    <2>2. region[d] \in Region
      BY <2>1 DEF IInv, CallsOK, CallOK
    <2>3. First[region[d]] \in Page /\ First[region[d]] \in PagesOf(region[d])
      BY <2>2, RegionFacts DEF PagesOf, Page
    <2>4. /\ alloc'[d] = alloc[d] \cup {region[d]}
          /\ \A g \in Page : entry'[d][g] = IF g \in PagesOf(region[d]) THEN ZeroPage ELSE entry[d][g]
          /\ \A x \in Ppd : x # d => alloc'[x] = alloc[x] /\ entry'[x] = entry[x] /\ pc'[x] = pc[x]
      BY <1>1, <2>1 DEF TypeOK
    <2>5. BackedAt(d)'
      <3> SUFFICES ASSUME d \notin dying, NEW r \in alloc'[d] PROVE Mapped(d, First[r])'
        BY <2>1 DEF BackedAt
      <3>1. CASE r = region[d]
        BY <2>3, <2>4, <3>1, FrameFacts DEF Mapped
      <3>2. CASE r \in alloc[d]
        <4>1. Mapped(d, First[r]) /\ First[r] \in Page
          BY <1>1, <1>2, <2>1, <3>2 DEF BackedAt
        <4> QED
          BY <2>4, <4>1, FrameFacts DEF Mapped
      <3> QED
        BY <2>4, <3>1, <3>2
    <2>6. \A x \in Ppd : x # d => BackedAt(x)'
      BY <1>1, <2>1, <2>4 DEF BackedAt, Mapped
    <2> QED
      BY <2>5, <2>6
  <1>8. ASSUME NEW d \in Ppd, AllocFails(d) \/ ZeroFrame(d) \/ HidePage(d) \/ FreeFrame(d) \/ FreeEnds(d)
        PROVE  \A x \in Ppd : BackedAt(x)'
    <2>1. /\ pc[d] \notin {"none", "copy"} /\ \A x \in Ppd : x # d => pc'[x] = pc[x]
          /\ alloc' = alloc /\ entry' = entry /\ dying' = dying
      BY <1>1, <1>8 DEF AllocFails, ZeroFrame, HidePage, FreeFrame, FreeEnds, Goto, tables, TypeOK
    <2>2. \A x \in Ppd : pc'[x] \notin {"none", "copy"} => pc[x] \notin {"none", "copy"}
      BY <1>1, <2>1 DEF TypeOK
    <2> QED
      BY <1>1, <2>1, <2>2, BackedKept DEF Mapped
  <1>9. ASSUME NEW d \in Ppd, NEW g \in Page, AllocFrame(d, g) PROVE \A x \in Ppd : BackedAt(x)'
    <2>1. /\ pc[d] = "ready" /\ pc' = [pc EXCEPT ![d] = "zero"]
          /\ alloc' = alloc /\ dying' = dying /\ NextFrame \in UserFrame
          /\ entry' = [entry EXCEPT ![d][g] = NextFrame]
      BY <1>9, TakenFacts DEF AllocFrame, Ready, Goto
    <2>2. \A x \in Ppd, h \in Page : Mapped(x, h) => Mapped(x, h)'
      <3>1. /\ entry'[d][g] = NextFrame
            /\ \A h \in Page : h # g => entry'[d][h] = entry[d][h]
            /\ \A x \in Ppd : x # d => entry'[x] = entry[x]
        <4>1. NextFrame \in Frame \cup {Unmapped}
          BY <2>1, FrameFacts
        <4> QED
          BY <1>1, <2>1, <4>1, EntryWritten
      <3> QED
        BY <2>1, <3>1, FrameFacts DEF Mapped
    <2>3. \A x \in Ppd : pc'[x] \notin {"none", "copy"} => pc[x] \notin {"none", "copy"}
      BY <1>1, <2>1 DEF TypeOK
    <2> QED
      BY <1>1, <1>2, <2>1, <2>2, <2>3, BackedKept
  <1>10. ASSUME NEW d \in Ppd, FreeZeroPage(d) \/ UnmapPage(d) PROVE \A x \in Ppd : BackedAt(x)'
    <2> DEFINE g == page[d]
    <2>1. /\ pc[d] \in {"free", "unmap"}
          /\ pc' = pc \/ pc' = [pc EXCEPT ![d] = "free"]
          /\ alloc' = alloc /\ dying' = dying
          /\ entry' = [entry EXCEPT ![d][g] = Unmapped]
      BY <1>10 DEF FreeZeroPage, UnmapPage, Goto
    <2>2. CallOK(d)
      BY DEF IInv, CallsOK
    <2>3. region[d] \in Region /\ region[d] \notin alloc[d]
      BY <2>1, <2>2 DEF CallOK, Freeing
    <2>4. g \in PagesOf(region[d]) /\ g \in Page
      <3>1. CASE pc[d] = "unmap"
        BY <2>2, <2>3, <3>1, RegionFacts DEF CallOK
      <3>2. CASE pc[d] = "free"
        <4>1. ~AtEnd(d) /\ g \in First[region[d]] .. Last[region[d]] + 1
          BY <1>10, <2>2, <3>2 DEF FreeZeroPage, UnmapPage, CallOK, Freeing
        <4>2. First[region[d]] \in Page /\ Last[region[d]] \in Page
          BY <2>3, RegionFacts
        <4>3. g \in PagesOf(region[d])
          BY <4>1, <4>2 DEF AtEnd, PagesOf, Page
        <4> QED
          BY <2>3, <4>3, RegionFacts
      <3> QED
        BY <2>1, <3>1, <3>2
    <2>5. /\ \A h \in Page : h # g => entry'[d][h] = entry[d][h]
          /\ \A x \in Ppd : x # d => entry'[x] = entry[x]
      <3>1. Unmapped \in Frame \cup {Unmapped}
        OBVIOUS
      <3> QED
        BY <1>1, <2>1, <2>4, <3>1, EntryWritten
    <2>6. \A r \in alloc[d] : First[r] # g
      BY <1>2, <2>3, <2>4, RegionFacts
    <2>7. \A x \in Ppd : \A r \in alloc[x] : Mapped(x, First[r]) => Mapped(x, First[r])'
      BY <1>2, <2>5, <2>6 DEF Mapped
    <2>8. \A x \in Ppd : pc'[x] \notin {"none", "copy"} => pc[x] \notin {"none", "copy"}
      BY <1>1, <2>1 DEF TypeOK
    <2> QED
      BY <1>1, <2>1, <2>7, <2>8, BackedKept
  <1>11. ASSUME NEW d \in Ppd, NEW e \in Ppd, Fork(d, e) PROVE \A x \in Ppd : BackedAt(x)'
    <2>1. /\ pc[d] = "ready" /\ pc[e] = "none"
          /\ alloc' = [alloc EXCEPT ![e] = alloc[d]]
          /\ pc' = [pc EXCEPT ![d] = "fork", ![e] = "copy"]
          /\ dying' = dying /\ entry' = entry
      BY <1>11 DEF Fork, Ready, tables
    <2>2. \A x \in Ppd : pc'[x] \notin {"none", "copy"} =>
              pc[x] \notin {"none", "copy"} /\ alloc'[x] = alloc[x]
      BY <1>1, <2>1 DEF TypeOK
    <2> QED
      BY <1>1, <2>1, <2>2, BackedKept DEF Mapped
  <1>12. ASSUME NEW e \in Ppd, CopyNoFrame(e) \/ CopyFrame(e) PROVE \A x \in Ppd : BackedAt(x)'
    <2>1. /\ pc[e] = "copy" /\ pc' = pc /\ alloc' = alloc /\ dying' = dying
          /\ \E v : entry' = [entry EXCEPT ![e][page[e]] = v]
      BY <1>12 DEF CopyNoFrame, CopyFrame
    <2>2. \A x \in Ppd : x # e => entry'[x] = entry[x]
      BY <1>1, <2>1 DEF TypeOK
    <2> QED
      BY <1>1, <2>1, <2>2, BackedKept DEF Mapped
  <1>13. ASSUME NEW e \in Ppd, CopyFails(e) PROVE \A x \in Ppd : BackedAt(x)'
    <2>1. /\ pc[e] = "copy" /\ pc' = [pc EXCEPT ![e] = "ready"]
          /\ alloc' = alloc /\ dying' = dying \cup {e} /\ entry' = entry
      BY <1>13 DEF CopyFails, Goto, tables
    <2>2. \A x \in Ppd : x \notin dying' => pc'[x] = pc[x]
      BY <1>1, <2>1 DEF TypeOK
    <2> QED
      BY <1>1, <2>1, <2>2, BackedKept DEF Mapped
  <1>14. ASSUME NEW e \in Ppd, CopyEnds(e) PROVE \A x \in Ppd : BackedAt(x)'
    <2> DEFINE p == copyOf[e]
    <2>1. /\ pc[e] = "copy" /\ page[e] > NPages /\ alloc' = alloc /\ dying' = dying /\ entry' = entry
          /\ pc' = [pc EXCEPT ![e] = "ready", ![p] = "ready"]
      BY <1>14 DEF CopyEnds, tables
    <2>2. p \in Ppd /\ pc[p] = "fork" /\ alloc[e] = alloc[p]
      BY <2>1, CopyFacts, FrameFacts DEF IInv, CopiesOK, CopyOK
    <2>3. p \notin dying
      BY <2>2 DEF IInv, CallsOK, CallOK, Freeing
    <2>4. \A r \in alloc[e] : Mapped(p, First[r])
      BY <1>1, <2>2, <2>3 DEF BackedAt
    <2>5. \A g \in Page : Mapped(p, g) => Mapped(e, g)
      <3>1. \A g \in Page : g < page[e]
        BY <1>1, <2>1, FrameFacts DEF TypeOK, Page
      <3> QED
        BY <2>1, <3>1 DEF IInv, CopiesOK, CopyOK
    <2>6. \A r \in alloc[e] : Mapped(e, First[r])
      BY <1>2, <2>4, <2>5
    <2>7. \A x \in Ppd : x # e /\ pc'[x] \notin {"none", "copy"} => pc[x] \notin {"none", "copy"}
      BY <1>1, <2>1, <2>2 DEF TypeOK
    <2> QED
      BY <1>1, <2>1, <2>6, <2>7 DEF BackedAt, Mapped
  <1> QED
    BY <1>3, <1>4, <1>5, <1>6, <1>7, <1>8, <1>9, <1>10, <1>11, <1>12, <1>13, <1>14 DEF Next

-----------------------------------------------------------------------------
LEMMA CountInit == Init => CountInv
  <1> SUFFICES ASSUME Init PROVE CountInv
    OBVIOUS
  <1>1. /\ available = Total /\ leaked = 0 /\ unreserved = 0
        /\ \A d \in Ppd : alloc[d] = {} /\ pc[d] = "none"
    BY DEF Init
  <1>2. Promised = {}
    BY <1>1 DEF Promised, PromisedTo
  <1>3. Cardinality(Promised) = 0
    BY <1>2, FS_EmptySet
  <1> QED
    BY <1>1, <1>3, FrameFacts DEF CountInv, BackedAt, AvailableAccounts

LEMMA CountNext == IInv /\ CountInv /\ Next => CountInv'
  <1> SUFFICES ASSUME IInv, CountInv, Next PROVE CountInv'
    OBVIOUS
  <1>1. \A x \in Ppd : BackedAt(x)'
    BY BackedStep
  <1>2. AvailableAccounts' /\ available' \in Nat
    <2>1. PICK d \in Ppd :
            \/ Create(d) \/ Exit(d) \/ Gone(d)
            \/ \E r \in Region : Reserve(d, r) \/ FreeAlloc(d, r)
            \/ MapZeroPages(d) \/ AllocFails(d)
            \/ \E g \in Page : AllocFrame(d, g)
            \/ ZeroFrame(d)
            \/ FreeZeroPage(d) \/ HidePage(d) \/ FreeFrame(d) \/ UnmapPage(d) \/ FreeEnds(d)
            \/ \E e \in Ppd : Fork(d, e)
            \/ CopyNoFrame(d) \/ CopyFrame(d) \/ CopyFails(d) \/ CopyEnds(d)
      BY DEF Next
    <2>2. CASE Quiet
      BY <2>2, QuietAccounts DEF CountInv
    <2>3. CASE \E r \in Region : Reserve(d, r) \/ FreeAlloc(d, r)
      BY <2>3, ReserveCounts, FreeAllocCounts
    <2>4. CASE MapZeroPages(d) \/ AllocFails(d)
      BY <2>4, MapZeroPagesCounts, AllocFailsCounts
    <2>5. CASE \E e \in Ppd : Fork(d, e)
      BY <2>5, ForkCounts
    <2> QED
      BY <2>1, <2>2, <2>3, <2>4, <2>5, QuietSteps
  <1> QED
    BY <1>1, <1>2 DEF CountInv

LEMMA CountStutter == CountInv /\ UNCHANGED vars => CountInv'
  <1> SUFFICES ASSUME CountInv, UNCHANGED vars PROVE CountInv'
    OBVIOUS
  <1>1. UNCHANGED <<available, leaked, unreserved, alloc, pc, region, dying, entry>>
    BY DEF vars, calls, tables
  <1>2. Quiet /\ \A x \in Ppd : BackedAt(x)'
    BY <1>1 DEF Quiet, CountInv, BackedAt, Mapped
  <1> QED
    BY <1>2, QuietAccounts DEF CountInv

(* The counts, on top of the invariant of user memory: an allocation that  *)
(* can be asked for again has no page mapped, so that it is not promised   *)
(* already.                                                                *)
THEOREM CountInvariance == Spec => []CountInv
  <1>1. IInv /\ CountInv /\ [Next]_vars => CountInv'
    BY CountNext, CountStutter
  <1> QED
    BY <1>1, CountInit, Invariance, PTL DEF Spec

(* reserve_frames and release_frames: what is available is what there was, *)
(* less what is promised, up to the two drifts of the code.                *)
THEOREM AvailableIsExact == Spec => []AvailableAccounts
  <1>1. CountInv => AvailableAccounts
    BY DEF CountInv
  <1> QED
    BY <1>1, CountInvariance, PTL

-----------------------------------------------------------------------------
(* The pages that own a frame, and the frames that they own.                *)
OwnedAt == {x \in Ppd \X Page : Owns(x[1], x[2])}
OwnedFrames == {f \in UserFrame : \E x \in OwnedAt : entry[x[1]][x[2]] = f}

(* Every frame but the zero page is on the list, owned, or still untouched. *)
LEMMA FramesCounted ==
    ASSUME IInv
    PROVE  /\ IsFiniteSet(OwnedAt)
           /\ Cardinality(OwnedAt) = Total - 1 - FreeFrames
  <1>1. TypeOK /\ ListOK /\ FramesApart /\ NoneLost
    BY DEF IInv, FrameInv
  <1>2. /\ free \in Seq(UserFrame) /\ next \in 1 .. Total /\ Len(free) \in Nat
        /\ DOMAIN free = 1 .. Len(free) /\ Queue!ToSet(free) \subseteq UserFrame
    BY <1>1, Queue!QueueElements DEF TypeOK, UserFrame
  <1>3. IsFiniteSet(Queue!ToSet(free)) /\ Cardinality(Queue!ToSet(free)) = Len(free)
    <2> DEFINE f == [i \in 1 .. Len(free) |-> free[i]]
    <2>1. IsFiniteSet(1 .. Len(free)) /\ Cardinality(1 .. Len(free)) = Len(free)
      <3>1. 1 \in Int /\ Len(free) \in Int
        BY <1>2
      <3>2. /\ IsFiniteSet(1 .. Len(free))
            /\ Cardinality(1 .. Len(free)) = IF 1 > Len(free) THEN 0 ELSE Len(free) - 1 + 1
        BY <3>1, FS_Interval
      <3> QED
        BY <1>2, <3>2
    <2>2. f \in [1 .. Len(free) -> Queue!ToSet(free)]
      BY <1>2, Queue!QueueElements
    <2>3. \A i, j \in 1 .. Len(free) : f[i] = f[j] => i = j
      BY <1>1, <1>2 DEF ListOK, Queue!NoRepeats
    <2>4. \A x \in Queue!ToSet(free) : \E i \in 1 .. Len(free) : f[i] = x
      BY <1>2, Queue!QueueElements
    <2> HIDE DEF f
    <2> QED
      BY <2>1, <2>2, <2>3, <2>4, SameSize
  <1>4. IsFiniteSet(OwnedAt)
    <2>1. IsFiniteSet(Ppd) /\ IsFiniteSet(Page)
      BY FramesConstants, FrameFacts, FS_Interval DEF Page
    <2>2. IsFiniteSet(Ppd \X Page)
      BY <2>1, FS_Product
    <2> QED
      BY <2>2, FS_Subset DEF OwnedAt
  <1>5. IsFiniteSet(OwnedFrames) /\ Cardinality(OwnedFrames) = Cardinality(OwnedAt)
    <2> DEFINE f == [x \in OwnedAt |-> entry[x[1]][x[2]]]
    <2>1. f \in [OwnedAt -> OwnedFrames]
      BY DEF OwnedFrames, OwnedAt, Owns
    <2>2. ASSUME NEW x \in OwnedAt, NEW y \in OwnedAt, f[x] = f[y] PROVE x = y
      <3>1. /\ x[1] \in Ppd /\ x[2] \in Page /\ Owns(x[1], x[2])
            /\ y[1] \in Ppd /\ y[2] \in Page /\ Owns(y[1], y[2])
            /\ entry[x[1]][x[2]] = entry[y[1]][y[2]]
        BY <2>2 DEF OwnedAt
      <3>2. x[1] = y[1] /\ x[2] = y[2]
        BY <1>1, <3>1 DEF FramesApart
      <3> QED
        BY <3>2 DEF OwnedAt
    <2>3. \A e \in OwnedFrames : \E x \in OwnedAt : f[x] = e
      BY DEF OwnedFrames
    <2> HIDE DEF f
    <2> QED
      BY <1>4, <2>1, <2>2, <2>3, SameSize
  <1>6. OwnedFrames \cap Queue!ToSet(free) = {}
    BY <1>1 DEF OwnedFrames, OwnedAt, FramesApart
  <1>7. OwnedFrames \cup Queue!ToSet(free) = 1 .. next - 1
    <2>1. ASSUME NEW f \in OwnedFrames \cup Queue!ToSet(free) PROVE f \in 1 .. next - 1
      <3>1. f \in UserFrame /\ f < next
        BY <1>1, <1>2, <2>1 DEF OwnedFrames, OwnedAt, FramesApart, ListOK
      <3> QED
        BY <1>2, <3>1, FrameFacts
    <2>2. ASSUME NEW f \in 1 .. next - 1 PROVE f \in OwnedFrames \cup Queue!ToSet(free)
      <3>1. f \in UserFrame /\ f < next
        BY <1>2, FrameFacts
      <3>2. CASE f \in Queue!ToSet(free)
        BY <3>2
      <3>3. CASE f \notin Queue!ToSet(free)
        <4>1. PICK x \in Ppd, g \in Page : Owns(x, g) /\ entry[x][g] = f
          BY <1>1, <3>1, <3>3 DEF NoneLost
        <4>2. <<x, g>> \in OwnedAt
          BY <4>1 DEF OwnedAt
        <4> QED
          BY <3>1, <4>1, <4>2 DEF OwnedFrames
      <3> QED
        BY <3>2, <3>3
    <2> QED
      BY <2>1, <2>2
  <1>8. Cardinality(1 .. next - 1) = next - 1
    BY <1>2, FS_Interval
  <1>9. /\ Cardinality(OwnedFrames \cup Queue!ToSet(free))
              = Cardinality(OwnedFrames) + Cardinality(Queue!ToSet(free))
        /\ Cardinality(OwnedFrames) \in Nat
    BY <1>3, <1>5, <1>6, DisjointUnion
  <1>10. next - 1 = Cardinality(OwnedFrames) + Len(free)
    BY <1>3, <1>7, <1>8, <1>9
  <1> QED
    BY <1>2, <1>4, <1>5, <1>9, <1>10, FrameFacts DEF FreeFrames

(* A page of a live allocation has a place among what is promised.          *)
LivingAt == {x \in Ppd \X Page : Lives(x[1], x[2])}

LEMMA LivingPromised ==
    ASSUME TypeOK
    PROVE  IsFiniteSet(LivingAt) /\ Cardinality(LivingAt) <= Cardinality(Promised)
  <1> DEFINE of(x) == CHOOSE r \in alloc[x[1]] : x[2] \in PagesOf(r)
             f == [x \in LivingAt |-> <<x[1], of(x), x[2]>>]
  <1>1. ASSUME NEW x \in LivingAt PROVE <<x[1], of(x), x[2]>> \in Promised
    <2>1. x[1] \in Ppd /\ x[2] \in Page /\ \E r \in alloc[x[1]] : x[2] \in PagesOf(r)
      BY DEF LivingAt, Lives
    <2>2. of(x) \in alloc[x[1]] /\ x[2] \in PagesOf(of(x))
      BY <2>1
    <2> HIDE DEF of
    <2>3. of(x) \in Region
      BY <2>1, <2>2 DEF TypeOK
    <2>4. x[2] \in First[of(x)] .. EndPage(of(x))
      BY <2>2, <2>3, CountedPages
    <2> QED
      BY <2>1, <2>2, <2>3, <2>4 DEF Promised, PromisedTo
  <1> HIDE DEF of
  <1>2. f \in [LivingAt -> Promised]
    BY <1>1
  <1>3. ASSUME NEW x \in LivingAt, NEW y \in LivingAt, f[x] = f[y] PROVE x = y
    <2>1. x[1] = y[1] /\ x[2] = y[2]
      BY <1>3
    <2> QED
      BY <2>1 DEF LivingAt
  <1> HIDE DEF f
  <1> QED
    BY <1>2, <1>3, PromisedFinite, NotLarger

(* alloc_frame cannot fail a program for a frame it reserved: whatever is  *)
(* promised can be backed, once the calls that free have given back, but   *)
(* for what forks did not reserve and for the zero page.                   *)
THEOREM PromisesAreKept == Spec => []PromisesKept
  <1>1. IInv /\ CountInv => PromisesKept
    <2> SUFFICES ASSUME IInv, CountInv PROVE PromisesKept
      OBVIOUS
    <2> DEFINE Back == OwnedAt \cap LivingAt
               Rest == OwnedAt \ LivingAt
    <2>1. TypeOK
      BY DEF IInv
    <2>2. /\ IsFiniteSet(OwnedAt) /\ Cardinality(OwnedAt) = Total - 1 - FreeFrames
          /\ IsFiniteSet(LivingAt) /\ Cardinality(LivingAt) <= Cardinality(Promised)
      BY <2>1, FramesCounted, LivingPromised
    <2>3. IsFiniteSet(Back) /\ IsFiniteSet(Rest) /\ Back \cap Rest = {} /\ Back \cup Rest = OwnedAt
      BY <2>2, FS_Subset
    <2>4. Rest = BeingFreed
      BY DEF BeingFreed, OwnedAt, LivingAt, Owns, UserFrame
    <2>5. Unbacked \subseteq LivingAt /\ Unbacked \cap Back = {}
      BY FrameFacts DEF Unbacked, LivingAt, OwnedAt, Owns
    <2>6. Unbacked \cup Back \subseteq LivingAt /\ IsFiniteSet(Unbacked)
      BY <2>2, <2>5, FS_Subset
    <2> HIDE DEF Back, Rest
    <2>7. /\ Cardinality(OwnedAt) = Cardinality(Back) + Cardinality(Rest)
          /\ Cardinality(Back) \in Nat /\ Cardinality(Rest) \in Nat
      BY <2>3, DisjointUnion
    <2>8. /\ Cardinality(Unbacked \cup Back) = Cardinality(Unbacked) + Cardinality(Back)
          /\ Cardinality(Unbacked) \in Nat
      BY <2>3, <2>5, <2>6, DisjointUnion
    <2>9. Cardinality(Unbacked \cup Back) <= Cardinality(LivingAt)
      BY <2>2, <2>6, FS_Subset
    <2>10. /\ available = Total - Cardinality(Promised) - leaked + unreserved
           /\ available \in Nat /\ leaked \in Nat /\ unreserved \in Nat
           /\ Cardinality(Promised) \in Nat /\ Cardinality(LivingAt) \in Nat
      BY <2>1, <2>2, PromisedFinite, FS_CardinalityType, FramesConstants
         DEF CountInv, AvailableAccounts, TypeOK
    <2>11. FreeFrames \in Int /\ Total \in Nat
      BY <2>1, FrameFacts DEF FreeFrames, TypeOK
    <2>12. Cardinality(Unbacked) + Cardinality(Back) <= Total + unreserved
      BY <2>2, <2>7, <2>8, <2>9, <2>10, <2>11
    <2>13. Cardinality(Unbacked) <= FreeFrames + Cardinality(Rest) + unreserved + 1
      BY <2>2, <2>7, <2>8, <2>10, <2>11, <2>12
    <2> QED
      BY <2>4, <2>13 DEF PromisesKept
  <1> QED
    BY <1>1, Invariance, CountInvariance, PTL
=============================================================================
