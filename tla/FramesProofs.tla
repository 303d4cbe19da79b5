---------------------------- MODULE FramesProofs ----------------------------
(***************************************************************************)
(* Proofs about user memory, for any number of address spaces, frames,     *)
(* pages and allocations.                                                  *)
(***************************************************************************)
EXTENDS Frames, FiniteSetTheorems, FunctionTheorems, TLAPS

Queue == INSTANCE QueueProofs

UserFrame == Frame \ {ZeroPage}

(* A page holds a frame of its own, until it has given it back.             *)
Owns(d, g) == entry[d][g] \in UserFrame /\ ~GivenBack(d, g)

(* The free list holds frames that were given out, once each.               *)
ListOK == Queue!NoRepeats(free) /\ \A f \in Queue!ToSet(free) : f < next

(* No frame is on the list and in a page, or in two pages.                  *)
FramesApart ==
    /\ \A d \in Ppd, g \in Page :
           Owns(d, g) => entry[d][g] < next /\ entry[d][g] \notin Queue!ToSet(free)
    /\ \A d, e \in Ppd, g, h \in Page :
           Owns(d, g) /\ Owns(e, h) /\ entry[d][g] = entry[e][h] => d = e /\ g = h

NoneLost ==
    \A f \in UserFrame : f < next =>
        \/ f \in Queue!ToSet(free)
        \/ \E d \in Ppd, g \in Page : Owns(d, g) /\ entry[d][g] = f

UserReads ==
    \A d \in Ppd : \A g \in user[d] :
        entry[d][g] \in UserFrame => ~GivenBack(d, g) /\ entry[d][g] \notin dirty

(* Where the calls stand.                                                   *)
Freeing(d) == pc[d] \in {"free", "give", "unmap"}

CallOK(d) ==
    /\ pc[d] \in {"none", "ready", "reserved", "fork"} => page[d] = 1
    /\ pc[d] = "none" => alloc[d] = {}
    /\ pc[d] = "reserved" => region[d] \in Region
    /\ pc[d] = "zero" => page[d] \in Page
    /\ Freeing(d) => /\ region[d] \in Region \ alloc[d]
                     /\ page[d] \in First[region[d]] .. Last[region[d]] + 1
    /\ pc[d] \in {"give", "unmap"} => /\ page[d] \in PagesOf(region[d])
                                      /\ entry[d][page[d]] \in UserFrame
                                      /\ page[d] \notin user[d]
    /\ d \in dying => pc[d] = "ready" \/ Freeing(d)

CallsOK == \A d \in Ppd : CallOK(d)

(* A page is mapped only while an allocation can still free it: the walk     *)
(* over an allocation stops at the first page that is not mapped, so those   *)
(* that are form a prefix.                                                   *)
Mapped(d, g) == entry[d][g] # Unmapped

TableOK(d) ==
    /\ \A g \in Page : Mapped(d, g) =>
           Lives(d, g) \/ (Freeing(d) /\ g \in PagesOf(region[d]) /\ page[d] <= g)
    /\ \A r \in alloc[d] : \A g, h \in PagesOf(r) : h < g /\ Mapped(d, g) => Mapped(d, h)
    /\ Freeing(d) => \A g, h \in PagesOf(region[d]) :
           page[d] <= h /\ h < g /\ Mapped(d, g) => Mapped(d, h)
    /\ pc[d] = "reserved" => \A g \in PagesOf(region[d]) : ~Mapped(d, g)

TablesOK == \A d \in Ppd : TableOK(d)

(* The child of a fork is a copy of its parent, who waits, up to its page.  *)
CopyOK(e) ==
    /\ pc[e] = "copy" =>
           /\ copyOf[e] \in Ppd
           /\ alloc[e] = alloc[copyOf[e]]
           /\ \A g \in Page : IF g < page[e] THEN Mapped(e, g) <=> Mapped(copyOf[e], g)
                              ELSE ~Mapped(e, g)
    /\ copyOf[e] # None => pc[copyOf[e]] = "fork" /\ (pc[e] = "copy" \/ e \in dying)
    /\ \A x \in Ppd : copyOf[e] = copyOf[x] /\ copyOf[e] # None => e = x

CopiesOK == \A e \in Ppd : CopyOK(e)

FrameInv == ListOK /\ FramesApart /\ NoneLost /\ UserReads

IInv == TypeOK /\ FrameInv /\ CallsOK /\ TablesOK /\ CopiesOK

-----------------------------------------------------------------------------
LEMMA FrameFacts ==
    /\ ZeroPage \in Frame /\ Unmapped \notin Frame /\ UserFrame = 1 .. Total - 1
    /\ UserFrame \subseteq Frame /\ ZeroPage \notin UserFrame /\ Unmapped \notin UserFrame
    /\ ZeroPage # Unmapped
    /\ Total \in Nat \ {0} /\ NPages \in Nat \ {0} /\ None \notin Ppd
  BY FramesConstants DEF Frame, ZeroPage, Unmapped, UserFrame

LEMMA RegionFacts ==
    ASSUME NEW r \in Region
    PROVE  /\ First[r] \in Page /\ Last[r] \in Page /\ First[r] <= Last[r]
           /\ PagesOf(r) \subseteq Page
           /\ \A g : g \in PagesOf(r) <=> g \in Page /\ First[r] <= g /\ g <= Last[r]
           /\ \A s \in Region : s # r => PagesOf(r) \cap PagesOf(s) = {}
           /\ RequiredFrames(r) \in Nat
  <1>1. First[r] \in Page /\ Last[r] \in Page /\ First[r] <= Last[r]
    BY FramesConstants DEF Page
  <1>2. \A g : g \in PagesOf(r) <=> g \in Page /\ First[r] <= g /\ g <= Last[r]
    <2>1. ASSUME NEW g PROVE g \in PagesOf(r) <=> g \in Page /\ First[r] <= g /\ g <= Last[r]
      <3>1. g \in PagesOf(r) <=> g \in Int /\ First[r] <= g /\ g <= Last[r]
        BY <1>1 DEF PagesOf, Page
      <3>2. g \in Page <=> g \in Int /\ 1 <= g /\ g <= NPages
        BY FrameFacts DEF Page
      <3>3. First[r] \in Int /\ Last[r] \in Int /\ 1 <= First[r] /\ Last[r] <= NPages
        BY <1>1, FrameFacts DEF Page
      <3> QED
        BY <3>1, <3>2, <3>3, FrameFacts
    <2> QED
      BY <2>1
  <1>3. ASSUME NEW s \in Region, s # r PROVE PagesOf(r) \cap PagesOf(s) = {}
    <2>1. First[s] \in Page /\ Last[s] \in Page /\ (Last[r] < First[s] \/ Last[s] < First[r])
      BY <1>3, FramesConstants DEF Page
    <2> QED
      BY <1>1, <2>1 DEF PagesOf, Page
  <1>4. RequiredFrames(r) \in Nat
    BY <1>1 DEF RequiredFrames, EndPage, Page
  <1> QED
    BY <1>1, <1>2, <1>3, <1>4

LEMMA EntryWritten ==
    ASSUME TypeOK, NEW d \in Ppd, NEW g \in Page, NEW v \in Frame \cup {Unmapped},
           entry' = [entry EXCEPT ![d][g] = v]
    PROVE  /\ entry' \in [Ppd -> [Page -> Frame \cup {Unmapped}]]
           /\ entry'[d][g] = v
           /\ \A h \in Page : h # g => entry'[d][h] = entry[d][h]
           /\ \A x \in Ppd : x # d => entry'[x] = entry[x]
  <1>1. entry \in [Ppd -> [Page -> Frame \cup {Unmapped}]]
    BY DEF TypeOK
  <1>2. [entry[d] EXCEPT ![g] = v] \in [Page -> Frame \cup {Unmapped}]
    BY <1>1
  <1>3. entry' = [entry EXCEPT ![d] = [entry[d] EXCEPT ![g] = v]]
    OBVIOUS
  <1> QED
    BY <1>1, <1>2, <1>3

-----------------------------------------------------------------------------
(* Address spaces that a step leaves alone.                                 *)

Untouched(x) ==
    /\ alloc'[x] = alloc[x] /\ entry'[x] = entry[x] /\ user'[x] = user[x]
    /\ pc'[x] = pc[x] /\ region'[x] = region[x] /\ page'[x] = page[x]
    /\ (x \in dying' <=> x \in dying) /\ copyOf'[x] = copyOf[x]

LEMMA UntouchedOK ==
    ASSUME NEW x \in Ppd, CallOK(x), TableOK(x), Untouched(x)
    PROVE  CallOK(x)' /\ TableOK(x)'
  BY DEF Untouched, CallOK, TableOK, Freeing, Mapped, Lives, PagesOf

(* A step of an address space that is neither a parent nor a child.         *)
LEMMA CopiesKept ==
    ASSUME TypeOK, CopiesOK, NEW d \in Ppd,
           pc[d] \notin {"fork", "copy"}, pc'[d] \notin {"fork", "copy"},
           copyOf' = copyOf, d \in dying => d \in dying',
           \A x \in Ppd : x # d => Untouched(x)
    PROVE  CopiesOK'
  <1> SUFFICES ASSUME NEW e \in Ppd PROVE CopyOK(e)'
    BY DEF CopiesOK
  <1>1. copyOf \in [Ppd -> Ppd \cup {None}] /\ None \notin Ppd
    BY FrameFacts DEF TypeOK
  <1>2. /\ CopyOK(e)
        /\ \A x \in Ppd : copyOf[e] = copyOf[x] /\ copyOf[e] # None => e = x
    BY DEF CopiesOK, CopyOK
  <1>3. copyOf[e] # d
    BY <1>1, <1>2 DEF CopyOK
  <1>4. CASE e = d
    BY <1>1, <1>2, <1>3, <1>4 DEF CopyOK, Untouched
  <1>5. CASE e # d
    <2>1. Untouched(e) /\ (copyOf[e] # None => Untouched(copyOf[e]))
      BY <1>1, <1>3, <1>5
    <2> QED
      BY <1>1, <1>2, <2>1 DEF CopyOK, Untouched, Mapped
  <1> QED
    BY <1>4, <1>5

(* A step that moves no frame.                                              *)
LEMMA FramesStay ==
    ASSUME FrameInv, next' = next, free' = free,
           \A d \in Ppd, g \in Page : Owns(d, g)' <=> Owns(d, g),
           \A d \in Ppd, g \in Page : Owns(d, g) => entry'[d][g] = entry[d][g],
           UserReads'
    PROVE  FrameInv'
  <1>1. ListOK'
    BY DEF FrameInv, ListOK
  <1>2. FramesApart'
    BY DEF FrameInv, FramesApart
  <1>3. NoneLost'
    BY DEF FrameInv, NoneLost
  <1> QED
    BY <1>1, <1>2, <1>3 DEF FrameInv

(* A step that changes neither the tables nor the page of a call in "unmap". *)
LEMMA TablesStay ==
    ASSUME FrameInv, UNCHANGED <<lists, tables>>,
           \A d \in Ppd : pc'[d] = "unmap" <=> pc[d] = "unmap",
           \A d \in Ppd : pc[d] = "unmap" => page'[d] = page[d]
    PROVE  FrameInv'
  <1>1. /\ next' = next /\ free' = free /\ dirty' = dirty /\ entry' = entry /\ user' = user
    BY DEF lists, tables
  <1>2. \A d \in Ppd : \A g : GivenBack(d, g)' <=> GivenBack(d, g)
    BY DEF GivenBack
  <1>3. \A d \in Ppd, g \in Page : Owns(d, g)' <=> Owns(d, g)
    BY <1>1, <1>2 DEF Owns
  <1>4. UserReads'
    BY <1>1, <1>2 DEF FrameInv, UserReads
  <1> QED
    BY <1>1, <1>3, <1>4, FramesStay

(* A step of one address space that is neither a parent nor a child.        *)
LEMMA StepOf ==
    ASSUME IInv, NEW d \in Ppd,
           pc[d] \notin {"fork", "copy"}, pc'[d] \notin {"fork", "copy"},
           copyOf' = copyOf, d \in dying => d \in dying',
           \A x \in Ppd : x # d => Untouched(x),
           TypeOK', FrameInv', CallOK(d)', TableOK(d)'
    PROVE  IInv'
  <1>1. \A x \in Ppd : x # d => CallOK(x)' /\ TableOK(x)'
    BY UntouchedOK DEF IInv, CallsOK, TablesOK
  <1>2. CallsOK' /\ TablesOK'
    BY <1>1 DEF CallsOK, TablesOK
  <1>3. CopiesOK'
    BY CopiesKept DEF IInv
  <1> QED
    BY <1>2, <1>3 DEF IInv

-----------------------------------------------------------------------------
(* The actions, one by one.                                                 *)

LEMMA CreateStep ==
    ASSUME IInv, NEW d \in Ppd, Create(d)
    PROVE  IInv'
  <1>1. /\ pc[d] = "none" /\ pc' = [pc EXCEPT ![d] = "ready"]
        /\ UNCHANGED <<lists, available, alloc, tables, region, page, dying, copyOf,
                      unreserved, leaked>>
        /\ pc'[d] = "ready"
    BY DEF Create, Goto, IInv, TypeOK
  <1>2. \A x \in Ppd : x # d => Untouched(x)
    BY <1>1 DEF Untouched, IInv, TypeOK, tables
  <1>3. TypeOK'
    BY <1>1 DEF IInv, TypeOK, lists, tables
  <1>4. FrameInv'
    <2>1. \A x \in Ppd : /\ pc'[x] = "unmap" <=> pc[x] = "unmap"
                         /\ pc[x] = "unmap" => page'[x] = page[x]
      BY <1>1, <1>2 DEF Untouched
    <2> QED
      BY <1>1, <2>1, TablesStay DEF IInv
  <1>5. CallOK(d) /\ TableOK(d)
    BY DEF IInv, CallsOK, TablesOK
  <1>6. CallOK(d)' /\ TableOK(d)'
    BY <1>1, <1>5 DEF CallOK, TableOK, Freeing, Mapped, Lives, tables, PagesOf
  <1> QED
    BY <1>1, <1>2, <1>3, <1>4, <1>6, StepOf

LEMMA ExitStep ==
    ASSUME IInv, NEW d \in Ppd, Exit(d)
    PROVE  IInv'
  <1>1. /\ pc[d] = "ready" /\ dying' = dying \cup {d}
        /\ UNCHANGED <<lists, available, alloc, tables, pc, region, page, copyOf,
                      unreserved, leaked>>
    BY DEF Exit, Ready
  <1>2. \A x \in Ppd : x # d => Untouched(x)
    BY <1>1 DEF Untouched, tables
  <1>3. TypeOK'
    BY <1>1 DEF IInv, TypeOK, lists, tables
  <1>4. FrameInv'
    BY <1>1, TablesStay DEF IInv
  <1>5. CallOK(d) /\ TableOK(d)
    BY DEF IInv, CallsOK, TablesOK
  <1>6. CallOK(d)' /\ TableOK(d)'
    BY <1>1, <1>5 DEF CallOK, TableOK, Freeing, Mapped, Lives, tables, PagesOf
  <1> QED
    BY <1>1, <1>2, <1>3, <1>4, <1>6, StepOf

LEMMA ReserveStep ==
    ASSUME IInv, NEW d \in Ppd, NEW r \in Region, Reserve(d, r)
    PROVE  IInv'
  <1>1. /\ pc[d] = "ready" /\ d \notin dying
        /\ \A g \in PagesOf(r) : entry[d][g] = Unmapped
        /\ available' = available - RequiredFrames(r)
        /\ pc' = [pc EXCEPT ![d] = "reserved"]
        /\ region' = [region EXCEPT ![d] = r]
        /\ UNCHANGED <<lists, alloc, tables, page, dying, copyOf, unreserved, leaked>>
        /\ pc'[d] = "reserved" /\ region'[d] = r
    BY DEF Reserve, Ready, Goto, IInv, TypeOK
  <1>2. \A x \in Ppd : x # d => Untouched(x)
    BY <1>1 DEF Untouched, IInv, TypeOK, tables
  <1>3. TypeOK'
    BY <1>1, RegionFacts DEF IInv, TypeOK, lists, tables
  <1>4. FrameInv'
    <2>1. \A x \in Ppd : /\ pc'[x] = "unmap" <=> pc[x] = "unmap"
                         /\ pc[x] = "unmap" => page'[x] = page[x]
      BY <1>1, <1>2 DEF Untouched
    <2> QED
      BY <1>1, <2>1, TablesStay DEF IInv
  <1>5. CallOK(d) /\ TableOK(d)
    BY DEF IInv, CallsOK, TablesOK
  <1>6. CallOK(d)' /\ TableOK(d)'
    BY <1>1, <1>5 DEF CallOK, TableOK, Freeing, Mapped, Lives, tables, PagesOf
  <1> QED
    BY <1>1, <1>2, <1>3, <1>4, <1>6, StepOf

LEMMA AllocFailsStep ==
    ASSUME IInv, NEW d \in Ppd, AllocFails(d)
    PROVE  IInv'
  <1>1. /\ pc[d] = "reserved"
        /\ leaked' = leaked + RequiredFrames(region[d])
        /\ pc' = [pc EXCEPT ![d] = "ready"]
        /\ region' = [region EXCEPT ![d] = None]
        /\ UNCHANGED <<lists, available, alloc, tables, page, dying, copyOf, unreserved>>
        /\ pc'[d] = "ready" /\ region'[d] = None
    BY DEF AllocFails, Goto, IInv, TypeOK
  <1>2. \A x \in Ppd : x # d => Untouched(x)
    BY <1>1 DEF Untouched, IInv, TypeOK, tables
  <1>5. CallOK(d) /\ TableOK(d)
    BY DEF IInv, CallsOK, TablesOK
  <1>3. TypeOK'
    <2>1. RequiredFrames(region[d]) \in Nat
      BY <1>1, <1>5, RegionFacts DEF CallOK
    <2> QED
      BY <1>1, <2>1 DEF IInv, TypeOK, lists, tables
  <1>4. FrameInv'
    <2>1. \A x \in Ppd : /\ pc'[x] = "unmap" <=> pc[x] = "unmap"
                         /\ pc[x] = "unmap" => page'[x] = page[x]
      BY <1>1, <1>2 DEF Untouched
    <2> QED
      BY <1>1, <2>1, TablesStay DEF IInv
  <1>6. CallOK(d)' /\ TableOK(d)'
    BY <1>1, <1>5 DEF CallOK, TableOK, Freeing, Mapped, Lives, tables, PagesOf
  <1> QED
    BY <1>1, <1>2, <1>3, <1>4, <1>6, StepOf

LEMMA FreeEndsStep ==
    ASSUME IInv, NEW d \in Ppd, FreeEnds(d)
    PROVE  IInv'
  <1>1. /\ pc[d] = "free"
        /\ page[d] > Last[region[d]] \/ entry[d][page[d]] = Unmapped
        /\ pc' = [pc EXCEPT ![d] = "ready"]
        /\ region' = [region EXCEPT ![d] = None]
        /\ page' = [page EXCEPT ![d] = 1]
        /\ UNCHANGED <<lists, available, alloc, tables, dying, copyOf, unreserved, leaked>>
        /\ pc'[d] = "ready" /\ region'[d] = None /\ page'[d] = 1
    BY DEF FreeEnds, AtEnd, Goto, IInv, TypeOK
  <1>2. \A x \in Ppd : x # d => Untouched(x)
    BY <1>1 DEF Untouched, IInv, TypeOK, tables
  <1>3. TypeOK'
    BY <1>1, FrameFacts DEF IInv, TypeOK, lists, tables, Page
  <1>4. FrameInv'
    <2>1. \A x \in Ppd : /\ pc'[x] = "unmap" <=> pc[x] = "unmap"
                         /\ pc[x] = "unmap" => page'[x] = page[x]
      BY <1>1, <1>2 DEF Untouched
    <2> QED
      BY <1>1, <2>1, TablesStay DEF IInv
  <1>5. CallOK(d) /\ TableOK(d)
    BY DEF IInv, CallsOK, TablesOK
  <1>6. CallOK(d)'
    BY <1>1, <1>5 DEF CallOK, Freeing
  <1>7. \A g \in Page : Mapped(d, g) => Lives(d, g)
    <2> SUFFICES ASSUME NEW g \in Page, Mapped(d, g), ~Lives(d, g) PROVE FALSE
      OBVIOUS
    <2>1. /\ region[d] \in Region /\ page[d] \in First[region[d]] .. Last[region[d]] + 1
          /\ g \in PagesOf(region[d]) /\ page[d] <= g
      BY <1>1, <1>5 DEF CallOK, TableOK, Freeing
    <2>2. /\ page[d] \in Int /\ g \in Int /\ g <= Last[region[d]] /\ First[region[d]] <= page[d]
          /\ First[region[d]] \in Page /\ Last[region[d]] \in Page
      BY <2>1, RegionFacts DEF Page
    <2>3. page[d] <= Last[region[d]] /\ page[d] \in Page
      BY <2>1, <2>2, FrameFacts DEF Page
    <2>4. page[d] \in PagesOf(region[d]) /\ ~Mapped(d, page[d])
      BY <1>1, <2>1, <2>2, <2>3, RegionFacts DEF Mapped, Page
    <2>5. page[d] < g
      BY <2>1, <2>2, <2>4
    <2> QED
      BY <1>1, <1>5, <2>1, <2>2, <2>4, <2>5 DEF TableOK, Freeing
  <1>8. TableOK(d)'
    BY <1>1, <1>5, <1>7 DEF TableOK, Freeing, Mapped, Lives, tables, PagesOf
  <1> QED
    BY <1>1, <1>2, <1>3, <1>4, <1>6, <1>8, StepOf

LEMMA FreeAllocStep ==
    ASSUME IInv, NEW d \in Ppd, NEW r \in Region, FreeAlloc(d, r)
    PROVE  IInv'
  <1>1. /\ pc[d] = "ready" /\ r \in alloc[d]
        /\ alloc' = [alloc EXCEPT ![d] = @ \ {r}]
        /\ available' = available + RequiredFrames(r)
        /\ pc' = [pc EXCEPT ![d] = "free"]
        /\ region' = [region EXCEPT ![d] = r]
        /\ page' = [page EXCEPT ![d] = First[r]]
        /\ UNCHANGED <<lists, tables, dying, copyOf, unreserved, leaked>>
        /\ pc'[d] = "free" /\ region'[d] = r /\ page'[d] = First[r]
        /\ alloc'[d] = alloc[d] \ {r}
    BY DEF FreeAlloc, Released, Goto, IInv, TypeOK
  <1>2. \A x \in Ppd : x # d => Untouched(x)
    BY <1>1 DEF Untouched, IInv, TypeOK, tables
  <1>3. First[r] \in Page /\ Last[r] \in Page /\ First[r] <= Last[r] /\ RequiredFrames(r) \in Nat
    BY RegionFacts
  <1>4. TypeOK'
    BY <1>1, <1>3 DEF IInv, TypeOK, lists, tables
  <1>5. FrameInv'
    <2>1. \A x \in Ppd : /\ pc'[x] = "unmap" <=> pc[x] = "unmap"
                         /\ pc[x] = "unmap" => page'[x] = page[x]
      BY <1>1, <1>2 DEF Untouched
    <2> QED
      BY <1>1, <2>1, TablesStay DEF IInv
  <1>6. CallOK(d) /\ TableOK(d)
    BY DEF IInv, CallsOK, TablesOK
  <1>7. CallOK(d)'
    <2>1. First[r] \in First[r] .. Last[r] + 1
      BY <1>3 DEF Page
    <2> QED
      BY <1>1, <1>6, <2>1 DEF CallOK, Freeing
  <1>8. TableOK(d)'
    <2>1. ASSUME NEW g \in Page, Mapped(d, g)
          PROVE  (\E s \in alloc[d] \ {r} : g \in PagesOf(s)) \/ (g \in PagesOf(r) /\ First[r] <= g)
      BY <1>1, <1>6, <2>1, RegionFacts DEF TableOK, Lives, Freeing
    <2> QED
      BY <1>1, <1>6, <2>1 DEF TableOK, Freeing, Mapped, Lives, tables, PagesOf
  <1> QED
    BY <1>1, <1>2, <1>4, <1>5, <1>7, <1>8, StepOf

LEMMA MapZeroPagesStep ==
    ASSUME IInv, NEW d \in Ppd, MapZeroPages(d)
    PROVE  IInv'
  <1> DEFINE r == region[d]
             new == [g \in Page |-> IF g \in PagesOf(r) THEN ZeroPage ELSE entry[d][g]]
  <1>1. CallOK(d) /\ TableOK(d) /\ TypeOK /\ FrameInv
    BY DEF IInv, CallsOK, TablesOK
  <1>2. /\ pc[d] = "reserved" /\ r \in Region /\ page[d] = 1 /\ d \notin dying
        /\ \A g \in PagesOf(r) : entry[d][g] = Unmapped
    BY <1>1 DEF MapZeroPages, CallOK, TableOK, Freeing, Mapped
  <1>3. /\ alloc' = [alloc EXCEPT ![d] = @ \cup {r}]
        /\ entry' = [entry EXCEPT ![d] = new]
        /\ user' = [user EXCEPT ![d] = @ \cup PagesOf(r)]
        /\ pc' = [pc EXCEPT ![d] = "ready"]
        /\ region' = [region EXCEPT ![d] = None]
        /\ UNCHANGED <<lists, available, page, dying, copyOf, unreserved, leaked>>
    BY DEF MapZeroPages, Goto
  <1>4. PagesOf(r) \subseteq Page /\ \A s \in Region : s # r => PagesOf(r) \cap PagesOf(s) = {}
    BY <1>2, RegionFacts
  <1> HIDE DEF r
  <1>5. new \in [Page -> Frame \cup {Unmapped}]
    BY <1>1, FrameFacts DEF TypeOK
  <1>6. /\ \A g \in Page : new[g] = IF g \in PagesOf(r) THEN ZeroPage ELSE entry[d][g]
        /\ entry'[d] = new /\ alloc'[d] = alloc[d] \cup {r}
        /\ user'[d] = user[d] \cup PagesOf(r) /\ pc'[d] = "ready" /\ region'[d] = None
    BY <1>1, <1>3 DEF TypeOK
  <1> HIDE DEF new
  <1>7. TypeOK'
    <2>1. entry' \in [Ppd -> [Page -> Frame \cup {Unmapped}]]
      BY <1>1, <1>3, <1>5 DEF TypeOK
    <2>2. user' \in [Ppd -> SUBSET Page] /\ alloc' \in [Ppd -> SUBSET Region]
      BY <1>1, <1>2, <1>3, <1>4 DEF TypeOK, r
    <2> QED
      BY <1>1, <1>3, <2>1, <2>2 DEF TypeOK, lists
  <1>8. \A x \in Ppd : x # d => Untouched(x)
    BY <1>1, <1>3 DEF TypeOK, Untouched
  <1>9. FrameInv'
    <2>1. next' = next /\ free' = free /\ dirty' = dirty /\ page' = page
      BY <1>3 DEF lists
    <2>2. \A x \in Ppd, g \in Page : Owns(x, g)' <=> Owns(x, g)
      BY <1>2, <1>6, <1>8, <2>1, FrameFacts DEF Owns, GivenBack, Untouched
    <2>3. \A x \in Ppd, g \in Page : Owns(x, g) => entry'[x][g] = entry[x][g]
      BY <1>2, <1>6, <1>8, FrameFacts DEF Owns, Untouched
    <2>4. UserReads'
      <3>1. UserReads /\ user \in [Ppd -> SUBSET Page]
        BY <1>1 DEF FrameInv, TypeOK
      <3> QED
        BY <1>2, <1>4, <1>6, <1>8, <2>1, <3>1, FrameFacts DEF UserReads, GivenBack, Untouched
    <2> QED
      BY <1>1, <2>1, <2>2, <2>3, <2>4, FramesStay
  <1>10. CallOK(d)'
    BY <1>2, <1>3, <1>6 DEF CallOK, Freeing
  <1>11. TableOK(d)'
    <2>1. \A g \in Page : Mapped(d, g)' <=> Mapped(d, g) \/ g \in PagesOf(r)
      BY <1>6, FrameFacts DEF Mapped
    <2>2. \A g \in Page : Lives(d, g)' <=> Lives(d, g) \/ g \in PagesOf(r)
      BY <1>6 DEF Lives, PagesOf
    <2>3. alloc[d] \subseteq Region
      BY <1>1 DEF TypeOK
    <2>4. \A s \in Region : PagesOf(s) \subseteq Page
      BY RegionFacts
    <2>5. ASSUME NEW s \in alloc'[d], NEW g \in PagesOf(s), NEW h \in PagesOf(s),
                 h < g, Mapped(d, g)'
          PROVE  Mapped(d, h)'
      <3>1. CASE s = r
        BY <1>4, <2>1, <3>1
      <3>2. CASE s # r
        <4>1. s \in alloc[d] /\ s \in Region /\ g \in Page /\ h \in Page
              /\ g \notin PagesOf(r)
          BY <1>4, <1>6, <2>3, <2>4, <3>2
        <4> QED
          BY <1>1, <2>1, <2>5, <4>1 DEF TableOK
      <3> QED
        BY <3>1, <3>2
    <2>6. ASSUME NEW g \in Page, Mapped(d, g)' PROVE Lives(d, g)'
      BY <1>1, <1>2, <2>1, <2>2, <2>6 DEF TableOK, Freeing
    <2>7. ~Freeing(d)' /\ pc'[d] # "reserved"
      BY <1>6 DEF Freeing
    <2>8. \A s \in alloc'[d] : \A g, h \in PagesOf(s)' : h < g /\ Mapped(d, g)' => Mapped(d, h)'
      BY <2>5 DEF PagesOf
    <2> QED
      BY <2>6, <2>7, <2>8 DEF TableOK
  <1> QED
    BY <1>2, <1>3, <1>6, <1>7, <1>8, <1>9, <1>10, <1>11, StepOf

LEMMA ZeroFrameStep ==
    ASSUME IInv, NEW d \in Ppd, ZeroFrame(d)
    PROVE  IInv'
  <1>1. CallOK(d) /\ TableOK(d) /\ TypeOK /\ FrameInv
    BY DEF IInv, CallsOK, TablesOK
  <1>2. /\ pc[d] = "zero" /\ page[d] \in Page /\ d \notin dying
        /\ dirty' = dirty \ {entry[d][page[d]]}
        /\ user' = [user EXCEPT ![d] = @ \cup {page[d]}]
        /\ pc' = [pc EXCEPT ![d] = "ready"]
        /\ page' = [page EXCEPT ![d] = 1]
        /\ UNCHANGED <<next, free, available, alloc, entry, region, dying, copyOf, unreserved, leaked>>
        /\ pc'[d] = "ready" /\ page'[d] = 1 /\ user'[d] = user[d] \cup {page[d]}
    BY <1>1 DEF ZeroFrame, Goto, CallOK, Freeing, TypeOK
  <1>3. \A x \in Ppd : x # d => Untouched(x)
    BY <1>1, <1>2 DEF Untouched, TypeOK
  <1>4. TypeOK'
    <2>3. 1 \in Page
      BY FrameFacts DEF Page
    <2>1. 1 \in Page /\ dirty' \subseteq Frame \ {ZeroPage}
      BY <1>1, <1>2, <2>3 DEF TypeOK
    <2>2. user' \in [Ppd -> SUBSET Page] /\ page' \in [Ppd -> Page \cup {NPages + 1}]
      BY <1>1, <1>2, <2>1 DEF TypeOK
    <2> QED
      BY <1>1, <1>2, <2>1, <2>2 DEF TypeOK
  <1>5. FrameInv'
    <2>1. \A x \in Ppd : \A g : GivenBack(x, g)' <=> GivenBack(x, g)
      BY <1>2, <1>3 DEF GivenBack, Untouched
    <2>2. \A x \in Ppd, g \in Page : Owns(x, g)' <=> Owns(x, g)
      BY <1>2, <2>1 DEF Owns
    <2>3. UserReads'
      <3>1. ASSUME NEW x \in Ppd, NEW g \in user'[x], entry[x][g] \in UserFrame
            PROVE  ~GivenBack(x, g) /\ entry[x][g] \notin dirty'
        <4>1. CASE g \in user[x]
          BY <1>1, <1>2, <3>1, <4>1 DEF FrameInv, UserReads
        <4>2. CASE g \notin user[x]
          <5>1. x = d /\ g = page[d]
            BY <1>2, <1>3, <4>2 DEF Untouched
          <5> QED
            BY <1>2, <5>1 DEF GivenBack
        <4> QED
          BY <4>1, <4>2
      <3> QED
        BY <1>2, <2>1, <3>1 DEF UserReads
    <2> QED
      BY <1>1, <1>2, <2>2, <2>3, FramesStay
  <1>6. CallOK(d)' /\ TableOK(d)'
    BY <1>1, <1>2 DEF CallOK, TableOK, Freeing, Mapped, Lives, PagesOf
  <1> QED
    BY <1>2, <1>3, <1>4, <1>5, <1>6, StepOf

LEMMA HidePageStep ==
    ASSUME IInv, NEW d \in Ppd, HidePage(d)
    PROVE  IInv'
  <1>1. CallOK(d) /\ TableOK(d) /\ TypeOK /\ FrameInv
    BY DEF IInv, CallsOK, TablesOK
  <1>2. /\ pc[d] = "free" /\ page[d] <= Last[region[d]]
        /\ entry[d][page[d]] \in UserFrame
        /\ user' = [user EXCEPT ![d] = @ \ {page[d]}]
        /\ pc' = [pc EXCEPT ![d] = "give"]
        /\ UNCHANGED <<lists, available, alloc, entry, region, page, dying, copyOf,
                      unreserved, leaked>>
        /\ pc'[d] = "give" /\ user'[d] = user[d] \ {page[d]}
    <2>1. region[d] \in Region /\ page[d] \in First[region[d]] .. Last[region[d]] + 1
      BY <1>1 DEF HidePage, CallOK, Freeing
    <2>2. First[region[d]] \in Int /\ Last[region[d]] \in Int
      BY <2>1, RegionFacts DEF Page
    <2> QED
      BY <1>1, <2>1, <2>2 DEF HidePage, Hidden, AtEnd, Goto, TypeOK, UserFrame
  <1>3. \A x \in Ppd : x # d => Untouched(x)
    BY <1>1, <1>2 DEF Untouched, TypeOK
  <1>4. TypeOK'
    BY <1>1, <1>2 DEF TypeOK, lists
  <1>5. FrameInv'
    <2>1. next' = next /\ free' = free /\ dirty' = dirty /\ entry' = entry
      BY <1>2 DEF lists
    <2>2. \A x \in Ppd : \A g : GivenBack(x, g)' <=> GivenBack(x, g)
      BY <1>2, <1>3 DEF GivenBack, Untouched
    <2>3. \A x \in Ppd : user'[x] \subseteq user[x]
      BY <1>2, <1>3 DEF Untouched
    <2>4. \A x \in Ppd, g \in Page : Owns(x, g)' <=> Owns(x, g)
      BY <2>1, <2>2 DEF Owns
    <2>5. UserReads'
      BY <1>1, <2>1, <2>2, <2>3 DEF FrameInv, UserReads
    <2> QED
      BY <1>1, <2>1, <2>4, <2>5, FramesStay
  <1>6. CallOK(d)'
    <2>1. region[d] \in Region \ alloc[d] /\ page[d] \in First[region[d]] .. Last[region[d]] + 1
      BY <1>1, <1>2 DEF CallOK, Freeing
    <2>2. page[d] \in PagesOf(region[d])
      BY <1>2, <2>1, RegionFacts DEF PagesOf, Page
    <2> QED
      BY <1>1, <1>2, <2>1, <2>2 DEF CallOK, Freeing, PagesOf
  <1>7. TableOK(d)'
    BY <1>1, <1>2 DEF TableOK, Freeing, Mapped, Lives, PagesOf
  <1> QED
    BY <1>2, <1>3, <1>4, <1>5, <1>6, <1>7, StepOf

LEMMA FreeFrameStep ==
    ASSUME IInv, NEW d \in Ppd, FreeFrame(d)
    PROVE  IInv'
  <1> DEFINE g == page[d]
             f == entry[d][g]
  <1>1. CallOK(d) /\ TableOK(d) /\ TypeOK /\ FrameInv
    BY DEF IInv, CallsOK, TablesOK
  <1>2. /\ pc[d] = "give" /\ region[d] \in Region \ alloc[d]
        /\ g \in PagesOf(region[d]) /\ f \in UserFrame /\ g \notin user[d]
    BY <1>1 DEF FreeFrame, CallOK, Freeing
  <1>3. g \in Page /\ Owns(d, g)
    BY <1>2, RegionFacts DEF Owns, GivenBack
  <1>4. /\ free' = <<f>> \o free
        /\ dirty' = dirty \cup {f}
        /\ pc' = [pc EXCEPT ![d] = "unmap"]
        /\ UNCHANGED <<next, available, alloc, tables, region, page, dying, copyOf,
                      unreserved, leaked>>
        /\ pc'[d] = "unmap" /\ entry' = entry /\ user' = user
    BY <1>1 DEF FreeFrame, Goto, TypeOK, tables
  <1> HIDE DEF f
  <1>5. f < next /\ f \notin Queue!ToSet(free)
    BY <1>1, <1>3 DEF FrameInv, FramesApart, f
  <1>6. /\ free' \in Seq(UserFrame) /\ Queue!ToSet(free') = Queue!ToSet(free) \cup {f}
        /\ Queue!NoRepeats(free')
    <2>1. free \in Seq(UserFrame) /\ Queue!NoRepeats(free)
      BY <1>1 DEF TypeOK, FrameInv, ListOK, UserFrame
    <2>2. f \in UserFrame
      BY <1>2 DEF f
    <2> QED
      BY <1>4, <1>5, <2>1, <2>2, Queue!PushQueue
  <1>7. \A x \in Ppd : x # d => Untouched(x)
    BY <1>1, <1>4 DEF Untouched, TypeOK
  <1>8. TypeOK'
    <2>1. dirty' \subseteq Frame \ {ZeroPage}
      BY <1>1, <1>2, <1>4 DEF TypeOK, UserFrame, f
    <2> QED
      BY <1>1, <1>4, <1>6, <2>1 DEF TypeOK, UserFrame
  <1>9. FrameInv'
    <2>1. \A x \in Ppd : \A h : GivenBack(x, h)' <=> GivenBack(x, h) \/ (x = d /\ h = g)
      BY <1>2, <1>4, <1>7 DEF GivenBack, Untouched
    <2>2. \A x \in Ppd, h \in Page : Owns(x, h)' <=> Owns(x, h) /\ ~(x = d /\ h = g)
      BY <1>4, <2>1 DEF Owns
    <2>3. ListOK'
      BY <1>1, <1>4, <1>5, <1>6 DEF FrameInv, ListOK
    <2>4. ASSUME NEW x \in Ppd, NEW h \in Page, Owns(x, h), entry[x][h] = f
          PROVE  x = d /\ h = g
      BY <1>1, <1>3, <2>4 DEF FrameInv, FramesApart, f
    <2>5. FramesApart'
      <3>1. \A x \in Ppd, h \in Page :
                Owns(x, h)' => entry'[x][h] < next' /\ entry'[x][h] \notin Queue!ToSet(free')
        BY <1>1, <1>4, <1>6, <2>2, <2>4 DEF FrameInv, FramesApart
      <3>2. \A x, y \in Ppd, h, k \in Page :
                Owns(x, h)' /\ Owns(y, k)' /\ entry'[x][h] = entry'[y][k] => x = y /\ h = k
        BY <1>1, <1>4, <2>2 DEF FrameInv, FramesApart
      <3> QED
        BY <3>1, <3>2 DEF FramesApart
    <2>6. NoneLost'
      <3>1. ASSUME NEW e \in UserFrame, e < next
            PROVE  e \in Queue!ToSet(free') \/ \E x \in Ppd, h \in Page : Owns(x, h)' /\ entry'[x][h] = e
        <4>1. CASE e = f
          BY <1>6, <4>1
        <4>2. CASE e # f
          BY <1>1, <1>4, <1>6, <2>2, <3>1, <4>2 DEF FrameInv, NoneLost, f
        <4> QED
          BY <4>1, <4>2
      <3> QED
        BY <1>4, <3>1 DEF NoneLost
    <2>7. UserReads'
      <3>1. ASSUME NEW x \in Ppd, NEW h \in user[x], entry[x][h] \in UserFrame
            PROVE  ~GivenBack(x, h)' /\ entry[x][h] \notin dirty'
        <4>1. ~GivenBack(x, h) /\ entry[x][h] \notin dirty /\ h \in Page
          BY <1>1, <3>1 DEF FrameInv, UserReads, TypeOK
        <4>2. Owns(x, h)
          BY <3>1, <4>1 DEF Owns
        <4>3. ~(x = d /\ h = g)
          BY <1>2, <3>1
        <4> QED
          BY <1>4, <2>1, <2>4, <4>1, <4>2, <4>3
      <3> QED
        BY <1>4, <3>1 DEF UserReads
    <2> QED
      BY <2>3, <2>5, <2>6, <2>7 DEF FrameInv
  <1>10. CallOK(d)'
    <2>1. page[d] \in First[region[d]] .. Last[region[d]] + 1
      BY <1>1, <1>2 DEF CallOK, Freeing
    <2> QED
      BY <1>1, <1>2, <1>4, <2>1 DEF CallOK, Freeing, PagesOf, f
  <1>11. TableOK(d)'
    BY <1>1, <1>2, <1>4 DEF TableOK, Freeing, Mapped, Lives, PagesOf
  <1> QED
    BY <1>2, <1>4, <1>7, <1>8, <1>9, <1>10, <1>11, StepOf

(* A page of an allocation that is being freed is unmapped.                 *)
LEMMA PageFreed ==
    ASSUME IInv, NEW d \in Ppd, pc[d] \in {"free", "unmap"}, page[d] \in PagesOf(region[d]),
           entry' = [entry EXCEPT ![d][page[d]] = Unmapped],
           user' = [user EXCEPT ![d] = @ \ {page[d]}],
           page' = [page EXCEPT ![d] = @ + 1],
           pc'[d] = "free", \A x \in Ppd : x # d => pc'[x] = pc[x],
           UNCHANGED <<alloc, region, dying, copyOf>>
    PROVE  /\ page[d] \in Page /\ region[d] \in Region
           /\ entry' \in [Ppd -> [Page -> Frame \cup {Unmapped}]]
           /\ user' \in [Ppd -> SUBSET Page]
           /\ page' \in [Ppd -> Page \cup {NPages + 1}]
           /\ entry'[d][page[d]] = Unmapped
           /\ user'[d] = user[d] \ {page[d]}
           /\ \A h \in Page : h # page[d] => entry'[d][h] = entry[d][h]
           /\ \A x \in Ppd : x # d => Untouched(x)
           /\ CallOK(d)' /\ TableOK(d)'
  <1> DEFINE g == page[d]
             r == region[d]
  <1>1. CallOK(d) /\ TableOK(d) /\ TypeOK
    BY DEF IInv, CallsOK, TablesOK
  <1>2. r \in Region /\ r \notin alloc[d]
    BY <1>1 DEF CallOK, Freeing
  <1>3. /\ PagesOf(r) \subseteq Page
        /\ g \in Page /\ First[r] <= g /\ g <= Last[r]
        /\ First[r] \in Page /\ Last[r] \in Page
        /\ \A s \in Region : s # r => PagesOf(r) \cap PagesOf(s) = {}
    BY <1>2, RegionFacts
  <1>4. /\ entry' \in [Ppd -> [Page -> Frame \cup {Unmapped}]]
        /\ entry'[d][g] = Unmapped
        /\ \A h \in Page : h # g => entry'[d][h] = entry[d][h]
        /\ \A x \in Ppd : x # d => entry'[x] = entry[x]
    <2>1. Unmapped \in Frame \cup {Unmapped}
      OBVIOUS
    <2> QED
      BY <1>1, <1>3, <2>1, EntryWritten
  <1>5. page'[d] = g + 1 /\ user'[d] = user[d] \ {g}
    BY <1>1 DEF TypeOK
  <1>6. \A x \in Ppd : x # d => Untouched(x)
    BY <1>1, <1>4 DEF Untouched, TypeOK
  <1>7. user' \in [Ppd -> SUBSET Page] /\ page' \in [Ppd -> Page \cup {NPages + 1}]
    <2>1. g + 1 \in Page \cup {NPages + 1}
      BY <1>3, FrameFacts DEF Page
    <2> QED
      BY <1>1, <2>1 DEF TypeOK
  <1>8. g + 1 \in First[r] .. Last[r] + 1
    BY <1>3 DEF Page
  <1>9. CallOK(d)'
    BY <1>1, <1>2, <1>5, <1>8 DEF CallOK, Freeing
  <1>10. \A s \in alloc[d] : s \in Region /\ PagesOf(s) \subseteq Page /\ g \notin PagesOf(s)
    BY <1>1, <1>2, <1>3, RegionFacts DEF TypeOK
  <1>11. \A h \in Page : Mapped(d, h)' <=> Mapped(d, h) /\ h # g
    BY <1>3, <1>4 DEF Mapped
  <1> HIDE DEF g, r
  <1>12. \A h \in Page : Lives(d, h)' <=> Lives(d, h)
    BY DEF Lives, PagesOf
  <1>13. ASSUME NEW h \in Page, Mapped(d, h)'
         PROVE  Lives(d, h) \/ (h \in PagesOf(r) /\ g + 1 <= h)
    <2>1. Lives(d, h) \/ (h \in PagesOf(r) /\ g <= h)
      BY <1>1, <1>11, <1>13 DEF TableOK, g, r
    <2> QED
      BY <1>3, <1>11, <1>13, <2>1 DEF Page
  <1>14. \A s \in alloc[d] : \A k, h \in PagesOf(s) : h < k /\ Mapped(d, k)' => Mapped(d, h)'
    BY <1>1, <1>10, <1>11 DEF TableOK
  <1>15. \A k, h \in PagesOf(r) : g + 1 <= h /\ h < k /\ Mapped(d, k)' => Mapped(d, h)'
    <2> SUFFICES ASSUME NEW k \in PagesOf(r), NEW h \in PagesOf(r),
                        g + 1 <= h, h < k, Mapped(d, k)'
                 PROVE  Mapped(d, h)'
      OBVIOUS
    <2>1. g <= h /\ h # g /\ h \in Page /\ k \in Page
      BY <1>3 DEF Page
    <2>2. Mapped(d, h)
      BY <1>1, <1>11, <2>1 DEF TableOK, Freeing, g, r
    <2> QED
      BY <1>11, <2>1, <2>2
  <1>16. TableOK(d)'
    <2>1. alloc'[d] = alloc[d] /\ region'[d] = r /\ pc'[d] = "free"
      BY DEF r
    <2>2. \A s : PagesOf(s)' = PagesOf(s)
      BY DEF PagesOf
    <2> QED
      BY <1>5, <1>12, <1>13, <1>14, <1>15, <2>1, <2>2 DEF TableOK, Freeing
  <1> QED
    BY <1>2, <1>3, <1>4, <1>5, <1>6, <1>7, <1>9, <1>16 DEF g, r

LEMMA FreeZeroPageStep ==
    ASSUME IInv, NEW d \in Ppd, FreeZeroPage(d)
    PROVE  IInv'
  <1>1. CallOK(d) /\ TypeOK /\ FrameInv
    BY DEF IInv, CallsOK
  <1>2. /\ pc[d] = "free" /\ page[d] <= Last[region[d]] /\ entry[d][page[d]] = ZeroPage
        /\ entry' = [entry EXCEPT ![d][page[d]] = Unmapped]
        /\ user' = [user EXCEPT ![d] = @ \ {page[d]}]
        /\ page' = [page EXCEPT ![d] = @ + 1]
        /\ UNCHANGED <<lists, available, alloc, pc, region, dying, copyOf, unreserved, leaked>>
    <2>1. region[d] \in Region /\ page[d] \in First[region[d]] .. Last[region[d]] + 1
      BY <1>1 DEF FreeZeroPage, CallOK, Freeing
    <2>2. First[region[d]] \in Int /\ Last[region[d]] \in Int
      BY <2>1, RegionFacts DEF Page
    <2> QED
      BY <2>1, <2>2 DEF FreeZeroPage, AtEnd
  <1>3. page[d] \in PagesOf(region[d])
    <2>1. region[d] \in Region /\ page[d] \in First[region[d]] .. Last[region[d]] + 1
      BY <1>1, <1>2 DEF CallOK, Freeing
    <2> QED
      BY <1>2, <2>1, RegionFacts DEF PagesOf, Page
  <1>4. /\ page[d] \in Page
        /\ entry' \in [Ppd -> [Page -> Frame \cup {Unmapped}]]
        /\ user' \in [Ppd -> SUBSET Page]
        /\ page' \in [Ppd -> Page \cup {NPages + 1}]
        /\ entry'[d][page[d]] = Unmapped
        /\ user'[d] = user[d] \ {page[d]}
        /\ \A h \in Page : h # page[d] => entry'[d][h] = entry[d][h]
        /\ \A x \in Ppd : x # d => Untouched(x)
        /\ CallOK(d)' /\ TableOK(d)'
    BY <1>2, <1>3, PageFreed
  <1>5. TypeOK'
    BY <1>1, <1>2, <1>4 DEF TypeOK, lists
  <1>6. FrameInv'
    <2>1. next' = next /\ free' = free /\ dirty' = dirty
      BY <1>2 DEF lists
    <2>2. \A x \in Ppd : \A h : GivenBack(x, h)' <=> GivenBack(x, h)
      BY <1>2, <1>4 DEF GivenBack, Untouched
    <2>3. \A x \in Ppd, h \in Page : Owns(x, h)' <=> Owns(x, h)
      BY <1>2, <1>4, <2>2, FrameFacts DEF Owns, Untouched
    <2>4. \A x \in Ppd, h \in Page : Owns(x, h) => entry'[x][h] = entry[x][h]
      BY <1>2, <1>4, FrameFacts DEF Owns, Untouched
    <2>5. UserReads'
      <3>1. UserReads /\ user \in [Ppd -> SUBSET Page]
        BY <1>1 DEF FrameInv, TypeOK
      <3> QED
        BY <1>2, <1>4, <2>1, <2>2, <3>1, FrameFacts DEF UserReads, Untouched
    <2> QED
      BY <1>1, <2>1, <2>3, <2>4, <2>5, FramesStay
  <1> QED
    BY <1>2, <1>4, <1>5, <1>6, StepOf

LEMMA UnmapPageStep ==
    ASSUME IInv, NEW d \in Ppd, UnmapPage(d)
    PROVE  IInv'
  <1>1. CallOK(d) /\ TypeOK /\ FrameInv
    BY DEF IInv, CallsOK
  <1>2. /\ pc[d] = "unmap"
        /\ entry' = [entry EXCEPT ![d][page[d]] = Unmapped]
        /\ user' = [user EXCEPT ![d] = @ \ {page[d]}]
        /\ page' = [page EXCEPT ![d] = @ + 1]
        /\ pc' = [pc EXCEPT ![d] = "free"]
        /\ UNCHANGED <<lists, available, alloc, region, dying, copyOf, unreserved, leaked>>
        /\ pc'[d] = "free" /\ \A x \in Ppd : x # d => pc'[x] = pc[x]
    BY <1>1 DEF UnmapPage, Goto, TypeOK
  <1>3. page[d] \in PagesOf(region[d])
    BY <1>1, <1>2 DEF CallOK
  <1>4. /\ page[d] \in Page
        /\ entry' \in [Ppd -> [Page -> Frame \cup {Unmapped}]]
        /\ user' \in [Ppd -> SUBSET Page]
        /\ page' \in [Ppd -> Page \cup {NPages + 1}]
        /\ entry'[d][page[d]] = Unmapped
        /\ user'[d] = user[d] \ {page[d]}
        /\ \A h \in Page : h # page[d] => entry'[d][h] = entry[d][h]
        /\ \A x \in Ppd : x # d => Untouched(x)
        /\ CallOK(d)' /\ TableOK(d)'
    BY <1>2, <1>3, PageFreed
  <1>5. TypeOK'
    BY <1>1, <1>2, <1>4 DEF TypeOK, lists
  <1>6. FrameInv'
    <2>1. next' = next /\ free' = free /\ dirty' = dirty
      BY <1>2 DEF lists
    <2>2. \A x \in Ppd : \A h : GivenBack(x, h)' <=> GivenBack(x, h) /\ x # d
      BY <1>2, <1>4 DEF GivenBack, Untouched
    <2>3. \A h : GivenBack(d, h) <=> h = page[d]
      BY <1>2 DEF GivenBack
    <2>4. \A x \in Ppd, h \in Page : Owns(x, h)' <=> Owns(x, h)
      BY <1>4, <2>2, <2>3, FrameFacts DEF Owns, Untouched
    <2>5. \A x \in Ppd, h \in Page : Owns(x, h) => entry'[x][h] = entry[x][h]
      BY <1>4, <2>3 DEF Owns, Untouched
    <2>6. UserReads'
      <3>1. UserReads /\ user \in [Ppd -> SUBSET Page]
        BY <1>1 DEF FrameInv, TypeOK
      <3> QED
        BY <1>4, <2>1, <2>2, <3>1, FrameFacts DEF UserReads, Untouched
    <2> QED
      BY <1>1, <2>1, <2>4, <2>5, <2>6, FramesStay
  <1> QED
    BY <1>2, <1>4, <1>5, <1>6, StepOf

-----------------------------------------------------------------------------
(* A frame is given out.                                                    *)
LEMMA TakenFacts ==
    ASSUME IInv, FreeFrames > 0, Taken
    PROVE  /\ NextFrame \in UserFrame
           /\ next' \in 1 .. Total /\ NextFrame < next'
           /\ free' \in Seq(UserFrame) /\ Queue!NoRepeats(free')
           /\ NextFrame \notin Queue!ToSet(free')
           /\ \A f \in UserFrame :
                  f \in Queue!ToSet(free) <=> f \in Queue!ToSet(free')
                                              \/ (f = NextFrame /\ free # <<>>)
           /\ \A f \in UserFrame : f < next' <=> f < next \/ f = NextFrame
           /\ \A x \in Ppd, g \in Page : Owns(x, g) => entry[x][g] # NextFrame
  <1>1. TypeOK /\ ListOK /\ FramesApart
    BY DEF IInv, FrameInv
  <1>2. free \in Seq(UserFrame) /\ next \in 1 .. Total
    BY <1>1 DEF TypeOK, UserFrame
  <1>3. \A x \in Ppd, g \in Page : Owns(x, g) => entry[x][g] < next /\ entry[x][g] \notin Queue!ToSet(free)
    BY <1>1 DEF FramesApart
  <1>4. CASE free # <<>>
    <2>1. NextFrame = Head(free) /\ free' = Tail(free) /\ next' = next
      BY <1>4 DEF NextFrame, Taken
    <2>2. Queue!NoRepeats(free) /\ \A f \in Queue!ToSet(free) : f < next
      BY <1>1 DEF ListOK
    <2>3. /\ Head(free) \in UserFrame /\ Head(free) \in Queue!ToSet(free)
          /\ Tail(free) \in Seq(UserFrame)
          /\ Queue!NoRepeats(Tail(free))
          /\ Queue!ToSet(Tail(free)) = Queue!ToSet(free) \ {Head(free)}
      BY <1>2, <1>4, <2>2, Queue!PopQueue
    <2>4. Head(free) < next
      BY <2>2, <2>3
    <2> QED
      BY <1>2, <1>3, <1>4, <2>1, <2>3, <2>4
  <1>5. CASE free = <<>>
    <2>1. NextFrame = next /\ free' = free /\ next' = next + 1
      BY <1>5 DEF NextFrame, Taken
    <2>2. Queue!NoRepeats(free) /\ Queue!ToSet(free) = {}
      BY <1>1, <1>2, <1>5, Queue!QueueElements DEF ListOK
    <2>3. Len(free) = 0
      BY <1>5
    <2>4. next < Total
      BY <1>2, <2>3, FrameFacts DEF FreeFrames
    <2>5. next \in UserFrame /\ next + 1 \in 1 .. Total /\ next < next + 1
      BY <1>2, <2>4, FrameFacts
    <2>6. \A f \in UserFrame : f < next + 1 <=> f < next \/ f = next
      BY <1>2, FrameFacts
    <2>7. \A x \in Ppd, g \in Page : Owns(x, g) => entry[x][g] # next
      BY <1>2, <1>3
    <2> QED
      BY <1>2, <1>5, <2>1, <2>2, <2>5, <2>6, <2>7
  <1> QED
    BY <1>4, <1>5

LEMMA FrameTaken ==
    ASSUME IInv, FreeFrames > 0, Taken, NEW d \in Ppd, NEW g \in Page,
           entry' = [entry EXCEPT ![d][g] = NextFrame],
           \A x \in Ppd : \A h : GivenBack(x, h)' <=> GivenBack(x, h),
           ~GivenBack(d, g), ~Owns(d, g), UserReads'
    PROVE  FrameInv'
  <1>1. TypeOK /\ ListOK /\ FramesApart /\ NoneLost
    BY DEF IInv, FrameInv
  <1>2. /\ NextFrame \in UserFrame
        /\ next' \in 1 .. Total /\ NextFrame < next'
        /\ free' \in Seq(UserFrame) /\ Queue!NoRepeats(free')
        /\ NextFrame \notin Queue!ToSet(free')
        /\ \A f \in UserFrame :
               f \in Queue!ToSet(free) <=> f \in Queue!ToSet(free') \/ (f = NextFrame /\ free # <<>>)
        /\ \A f \in UserFrame : f < next' <=> f < next \/ f = NextFrame
        /\ \A x \in Ppd, h \in Page : Owns(x, h) => entry[x][h] # NextFrame
    BY TakenFacts
  <1>3. /\ entry'[d][g] = NextFrame
        /\ \A h \in Page : h # g => entry'[d][h] = entry[d][h]
        /\ \A x \in Ppd : x # d => entry'[x] = entry[x]
    <2>1. NextFrame \in Frame \cup {Unmapped}
      BY <1>2, FrameFacts
    <2> QED
      BY <1>1, <2>1, EntryWritten
  <1>4. /\ Owns(d, g)' /\ entry'[d][g] = NextFrame
        /\ \A x \in Ppd, h \in Page : ~(x = d /\ h = g) =>
               (Owns(x, h)' <=> Owns(x, h)) /\ entry'[x][h] = entry[x][h]
    <2>1. \A x \in Ppd, h \in Page : ~(x = d /\ h = g) => entry'[x][h] = entry[x][h]
      BY <1>3
    <2> QED
      BY <1>2, <1>3, <2>1 DEF Owns, UserFrame, Frame
  <1>5. ListOK'
    <2>1. \A f \in Queue!ToSet(free') : f \in UserFrame
      BY <1>2, Queue!QueueElements
    <2> QED
      BY <1>1, <1>2, <2>1 DEF ListOK
  <1>6. FramesApart'
    <2>1. ASSUME NEW x \in Ppd, NEW h \in Page, Owns(x, h)'
          PROVE  entry'[x][h] < next' /\ entry'[x][h] \notin Queue!ToSet(free')
      <3>1. CASE x = d /\ h = g
        BY <1>2, <1>3, <3>1
      <3>2. CASE ~(x = d /\ h = g)
        <4>1. Owns(x, h) /\ entry'[x][h] = entry[x][h] /\ entry[x][h] \in UserFrame
          BY <1>4, <2>1, <3>2 DEF Owns
        <4> QED
          BY <1>1, <1>2, <4>1 DEF FramesApart
      <3> QED
        BY <3>1, <3>2
    <2>2. ASSUME NEW x \in Ppd, NEW y \in Ppd, NEW h \in Page, NEW k \in Page,
                 Owns(x, h)', Owns(y, k)', entry'[x][h] = entry'[y][k]
          PROVE  x = y /\ h = k
      BY <1>1, <1>2, <1>4, <2>2 DEF FramesApart
    <2> QED
      BY <2>1, <2>2 DEF FramesApart
  <1>7. NoneLost'
    <2>1. ASSUME NEW f \in UserFrame, f < next'
          PROVE  f \in Queue!ToSet(free') \/ \E x \in Ppd, h \in Page : Owns(x, h)' /\ entry'[x][h] = f
      <3>1. CASE f = NextFrame
        BY <1>4, <3>1
      <3>2. CASE f # NextFrame /\ f \in Queue!ToSet(free)
        BY <1>2, <3>2
      <3>3. CASE f # NextFrame /\ f \notin Queue!ToSet(free)
        <4>1. PICK x \in Ppd, h \in Page : Owns(x, h) /\ entry[x][h] = f
          BY <1>1, <1>2, <2>1, <3>3 DEF NoneLost
        <4>2. ~(x = d /\ h = g)
          BY <4>1
        <4> QED
          BY <1>4, <4>1, <4>2
      <3> QED
        BY <3>1, <3>2, <3>3
    <2> QED
      BY <2>1 DEF NoneLost, UserFrame, Frame
  <1> QED
    BY <1>5, <1>6, <1>7 DEF FrameInv

LEMMA AllocFrameStep ==
    ASSUME IInv, NEW d \in Ppd, NEW g \in Page, AllocFrame(d, g)
    PROVE  IInv'
  <1>1. CallOK(d) /\ TableOK(d) /\ TypeOK /\ FrameInv
    BY DEF IInv, CallsOK, TablesOK
  <1>2. /\ pc[d] = "ready" /\ d \notin dying /\ entry[d][g] = ZeroPage
        /\ FreeFrames > 0 /\ Taken
        /\ entry' = [entry EXCEPT ![d][g] = NextFrame]
        /\ user' = [user EXCEPT ![d] = @ \ {g}]
        /\ pc' = [pc EXCEPT ![d] = "zero"]
        /\ page' = [page EXCEPT ![d] = g]
        /\ UNCHANGED <<dirty, available, alloc, region, dying, copyOf, unreserved, leaked>>
        /\ pc'[d] = "zero" /\ user'[d] = user[d] \ {g} /\ page'[d] = g
    BY <1>1 DEF AllocFrame, Ready, Goto, TypeOK
  <1>3. /\ NextFrame \in UserFrame
        /\ next' \in 1 .. Total /\ free' \in Seq(UserFrame)
        /\ \A x \in Ppd, h \in Page : Owns(x, h) => entry[x][h] # NextFrame
    BY <1>2, TakenFacts
  <1>4. /\ entry' \in [Ppd -> [Page -> Frame \cup {Unmapped}]]
        /\ entry'[d][g] = NextFrame
        /\ \A h \in Page : h # g => entry'[d][h] = entry[d][h]
        /\ \A x \in Ppd : x # d => entry'[x] = entry[x]
    <2>1. NextFrame \in Frame \cup {Unmapped}
      BY <1>3, FrameFacts
    <2> QED
      BY <1>1, <1>2, <2>1, EntryWritten, ZenonT(60)
  <1>5. \A x \in Ppd : x # d => Untouched(x)
    BY <1>1, <1>2, <1>4 DEF Untouched, TypeOK
  <1>6. TypeOK'
    BY <1>1, <1>2, <1>3, <1>4 DEF TypeOK, UserFrame
  <1>7. FrameInv'
    <2>1. \A x \in Ppd : \A h : GivenBack(x, h)' <=> GivenBack(x, h)
      BY <1>2, <1>5 DEF GivenBack, Untouched
    <2>2. ~GivenBack(d, g) /\ ~Owns(d, g)
      BY <1>2, FrameFacts DEF GivenBack, Owns
    <2>3. UserReads'
      <3>1. ASSUME NEW x \in Ppd, NEW h \in user'[x], entry'[x][h] \in UserFrame
            PROVE  ~GivenBack(x, h) /\ entry'[x][h] \notin dirty
        <4>1. h \in user[x] /\ h \in Page /\ ~(x = d /\ h = g)
          BY <1>1, <1>2, <1>5, <3>1 DEF Untouched, TypeOK
        <4>2. entry'[x][h] = entry[x][h]
          BY <1>4, <4>1
        <4> QED
          BY <1>1, <3>1, <4>1, <4>2 DEF FrameInv, UserReads
      <3> QED
        BY <1>2, <2>1, <3>1 DEF UserReads, UserFrame, Frame
    <2> QED
      BY <1>2, <2>1, <2>2, <2>3, FrameTaken
  <1>8. CallOK(d)'
    BY <1>1, <1>2 DEF CallOK, Freeing
  <1>9. \A h \in Page : Mapped(d, h)' <=> Mapped(d, h)
    BY <1>2, <1>3, <1>4, FrameFacts DEF Mapped
  <1>10. TableOK(d)'
    <2>1. ~Freeing(d) /\ ~Freeing(d)' /\ pc'[d] # "reserved" /\ alloc'[d] = alloc[d]
      BY <1>2 DEF Freeing
    <2>2. \A r \in alloc[d] : PagesOf(r) \subseteq Page
      BY <1>1, RegionFacts DEF TypeOK
    <2>3. \A h \in Page : Mapped(d, h)' => Lives(d, h)'
      BY <1>1, <1>9, <2>1 DEF TableOK, Lives, PagesOf
    <2>4. \A r \in alloc[d] : \A h, k \in PagesOf(r) : k < h /\ Mapped(d, h)' => Mapped(d, k)'
      BY <1>1, <1>9, <2>2 DEF TableOK
    <2> QED
      BY <2>1, <2>3, <2>4 DEF TableOK, PagesOf
  <1> QED
    BY <1>2, <1>5, <1>6, <1>7, <1>8, <1>10, StepOf

-----------------------------------------------------------------------------
(* fork.                                                                    *)

LEMMA RequiredByType ==
    ASSUME NEW rs \in SUBSET Region
    PROVE  RequiredBy(rs) \in Nat
  <1> DEFINE S == rs \X (Page \cup {NPages + 1})
             T == {x \in S : x[2] \in First[x[1]] .. EndPage(x[1])}
  <1>1. IsFiniteSet(rs)
    BY FramesConstants, FS_Subset
  <1>2. IsFiniteSet(Page)
    BY FrameFacts, FS_Interval DEF Page
  <1>3. IsFiniteSet(Page \cup {NPages + 1})
    BY <1>2, FS_AddElement
  <1>4. IsFiniteSet(S)
    BY <1>1, <1>3, FS_Product
  <1>5. IsFiniteSet(T)
    BY <1>4, FS_Subset
  <1>6. Cardinality(T) \in Nat
    BY <1>5, FS_CardinalityType
  <1> QED
    BY <1>6 DEF RequiredBy

(* A child of which neither it nor its parent is touched.                   *)
LEMMA CopyKept ==
    ASSUME NEW x \in Ppd, CopyOK(x), Untouched(x), copyOf[x] # None => Untouched(copyOf[x]),
           \A y \in Ppd : copyOf'[x] = copyOf'[y] /\ copyOf'[x] # None => x = y
    PROVE  CopyOK(x)'
  <1>1. copyOf'[x] = copyOf[x] /\ (copyOf[x] \in Ppd => copyOf[x] # None)
    BY FrameFacts DEF Untouched
  <1>2. \A h : Mapped(x, h)' <=> Mapped(x, h)
    BY DEF Mapped, Untouched
  <1>3. copyOf[x] # None => \A h : Mapped(copyOf[x], h)' <=> Mapped(copyOf[x], h)
    BY <1>1 DEF Mapped, Untouched
  <1>4. pc'[x] = "copy" =>
           /\ copyOf'[x] \in Ppd
           /\ alloc'[x] = alloc'[copyOf'[x]]
           /\ \A g \in Page : IF g < page'[x] THEN Mapped(x, g)' <=> Mapped(copyOf[x], g)'
                              ELSE ~Mapped(x, g)'
    BY <1>1, <1>2, <1>3 DEF CopyOK, Untouched
  <1>5. copyOf'[x] # None => pc'[copyOf'[x]] = "fork" /\ (pc'[x] = "copy" \/ x \in dying')
    BY <1>1 DEF CopyOK, Untouched
  <1> QED
    BY <1>1, <1>4, <1>5 DEF CopyOK

LEMMA ForkStep ==
    ASSUME IInv, NEW d \in Ppd, NEW e \in Ppd, Fork(d, e)
    PROVE  IInv'
  <1>1. TypeOK /\ FrameInv /\ CallOK(d) /\ TableOK(d) /\ CallOK(e) /\ TableOK(e)
    BY DEF IInv, CallsOK, TablesOK
  <1>2. /\ pc[d] = "ready" /\ d \notin dying /\ pc[e] = "none" /\ d # e
        /\ unreserved + RequiredBy(alloc[d]) <= MaxUnreserved
        /\ unreserved' = unreserved + RequiredBy(alloc[d])
        /\ alloc' = [alloc EXCEPT ![e] = alloc[d]]
        /\ pc' = [pc EXCEPT ![d] = "fork", ![e] = "copy"]
        /\ copyOf' = [copyOf EXCEPT ![e] = d]
        /\ UNCHANGED <<lists, available, tables, region, page, dying, leaked>>
    BY DEF Fork, Ready
  <1>3. /\ pc'[d] = "fork" /\ pc'[e] = "copy" /\ alloc'[e] = alloc[d] /\ alloc'[d] = alloc[d]
        /\ copyOf'[e] = d /\ \A x \in Ppd : x # e => copyOf'[x] = copyOf[x]
    BY <1>1, <1>2 DEF TypeOK
  <1>4. /\ page[e] = 1 /\ page[d] = 1 /\ e \notin dying
        /\ \A g \in Page : entry[e][g] = Unmapped
    BY <1>1, <1>2 DEF CallOK, TableOK, Freeing, Mapped, Lives
  <1>5. \A x \in Ppd : x # d /\ x # e => Untouched(x)
    BY <1>1, <1>2 DEF Untouched, TypeOK, tables
  <1>6. TypeOK'
    <2>1. RequiredBy(alloc[d]) \in Nat
      BY <1>1, RequiredByType DEF TypeOK
    <2>2. unreserved' \in 0 .. MaxUnreserved
      BY <1>1, <1>2, <2>1, FramesConstants DEF TypeOK
    <2> QED
      BY <1>1, <1>2, <2>2 DEF TypeOK, lists, tables
  <1>7. FrameInv'
    <2>1. \A x \in Ppd : /\ pc'[x] = "unmap" <=> pc[x] = "unmap"
                         /\ pc[x] = "unmap" => page'[x] = page[x]
      BY <1>2, <1>3, <1>5 DEF Untouched
    <2> QED
      BY <1>1, <1>2, <2>1, TablesStay
  <1>8. CallOK(d)' /\ CallOK(e)'
    BY <1>1, <1>2, <1>3, <1>4 DEF CallOK, Freeing, tables
  <1>9. TableOK(d)' /\ TableOK(e)'
    <2>1. \A g \in Page : /\ Mapped(d, g)' <=> Mapped(d, g)
                          /\ ~Mapped(e, g)'
      BY <1>2, <1>4 DEF tables, Mapped
    <2>2. ~Freeing(d)' /\ ~Freeing(e)' /\ ~Freeing(d)
      BY <1>2, <1>3 DEF Freeing
    <2>3. \A r \in alloc[d] : PagesOf(r) \subseteq Page
      BY <1>1, RegionFacts DEF TypeOK
    <2>4. (\A r : PagesOf(r)' = PagesOf(r)) /\ (\A g : Lives(d, g)' <=> Lives(d, g))
      BY <1>3 DEF PagesOf, Lives
    <2>5. TableOK(d)'
      BY <1>1, <1>3, <2>1, <2>2, <2>3, <2>4 DEF TableOK
    <2>6. TableOK(e)'
      BY <1>3, <2>1, <2>2, <2>3, <2>4 DEF TableOK
    <2> QED
      BY <2>5, <2>6
  <1>10. CallsOK' /\ TablesOK'
    <2>1. \A x \in Ppd : x # d /\ x # e => CallOK(x)' /\ TableOK(x)'
      BY <1>5, UntouchedOK DEF IInv, CallsOK, TablesOK
    <2> QED
      BY <1>8, <1>9, <2>1 DEF CallsOK, TablesOK
  <1>11. CopiesOK'
    <2>1. \A x \in Ppd : /\ copyOf[x] \in Ppd \cup {None}
                         /\ copyOf[x] # None => pc[copyOf[x]] = "fork" /\ (pc[x] = "copy" \/ x \in dying)
                         /\ \A y \in Ppd : copyOf[x] = copyOf[y] /\ copyOf[x] # None => x = y
      BY <1>1 DEF IInv, CopiesOK, CopyOK, TypeOK
    <2>2. \A x \in Ppd : copyOf[x] # d /\ copyOf[x] # e
      BY <1>2, <2>1, FrameFacts
    <2>3. copyOf[d] = None /\ copyOf[e] = None
      BY <1>2, <1>4, <2>1
    <2>4. CopyOK(e)'
      <3>1. \A g \in Page : ~(g < 1) /\ ~Mapped(e, g)'
        BY <1>2, <1>4, FrameFacts DEF Mapped, tables, Page
      <3>2. pc'[d] = "fork" /\ \A x \in Ppd : copyOf'[x] = d => x = e
        BY <1>3, <2>2
      <3> QED
        BY <1>2, <1>3, <1>4, <3>1, <3>2 DEF CopyOK
    <2>5. ASSUME NEW x \in Ppd, x # e PROVE CopyOK(x)'
      <3>1. copyOf'[x] = copyOf[x]
        BY <1>3, <2>5
      <3>2. CASE x = d
        BY <1>2, <1>3, <2>3, <3>1, <3>2 DEF CopyOK
      <3>3. CASE x # d
        <4>1. Untouched(x) /\ (copyOf[x] # None => Untouched(copyOf[x]))
          BY <1>5, <2>1, <2>2, <2>5, <3>3
        <4>2. CopyOK(x)
          BY DEF IInv, CopiesOK
        <4>3. \A y \in Ppd : copyOf'[x] = copyOf'[y] /\ copyOf'[x] # None => x = y
          BY <1>3, <2>1, <2>2, <3>1
        <4> QED
          BY <4>1, <4>2, <4>3, CopyKept
      <3> QED
        BY <3>2, <3>3
    <2> QED
      BY <2>4, <2>5 DEF CopiesOK
  <1> QED
    BY <1>6, <1>7, <1>10, <1>11 DEF IInv

(* Who makes a copy, and of whom.                                           *)
LEMMA CopyFacts ==
    ASSUME IInv
    PROVE  /\ \A x \in Ppd : pc[x] = "copy" => copyOf[x] \in Ppd
           /\ \A x \in Ppd : copyOf[x] # None =>
                  copyOf[x] \in Ppd /\ pc[copyOf[x]] = "fork" /\ (pc[x] = "copy" \/ x \in dying)
           /\ \A x, y \in Ppd : copyOf[x] = copyOf[y] /\ copyOf[x] # None => x = y
  BY DEF IInv, CopiesOK, CopyOK, TypeOK

(* copy_page_table is done with a page.                                     *)
LEMMA CopyPage ==
    ASSUME IInv, NEW e \in Ppd, pc[e] = "copy", page[e] <= NPages,
           NEW v \in Frame \cup {Unmapped},
           v = Unmapped <=> entry[copyOf[e]][page[e]] = Unmapped,
           entry' = [entry EXCEPT ![e][page[e]] = v],
           page' = [page EXCEPT ![e] = @ + 1],
           \A x \in Ppd : x # e => user'[x] = user[x],
           UNCHANGED <<alloc, pc, region, dying, copyOf>>
    PROVE  /\ page[e] \in Page
           /\ entry[e][page[e]] = Unmapped
           /\ entry' \in [Ppd -> [Page -> Frame \cup {Unmapped}]]
           /\ page' \in [Ppd -> Page \cup {NPages + 1}]
           /\ entry'[e][page[e]] = v
           /\ \A h \in Page : h # page[e] => entry'[e][h] = entry[e][h]
           /\ \A x \in Ppd : x # e => Untouched(x)
           /\ CallsOK' /\ TablesOK' /\ CopiesOK'
  <1> DEFINE g == page[e]
             p == copyOf[e]
  <1>1. TypeOK /\ CallOK(e) /\ TableOK(e) /\ CopyOK(e)
    BY DEF IInv, CallsOK, TablesOK, CopiesOK
  <1>2. /\ p \in Ppd /\ p # e /\ pc[p] = "fork" /\ alloc[e] = alloc[p]
        /\ e \notin dying /\ p \notin dying /\ TableOK(p)
    <2>1. p \in Ppd /\ p # None /\ pc[p] = "fork" /\ alloc[e] = alloc[p]
      BY <1>1, FrameFacts DEF CopyOK
    <2>2. CallOK(p) /\ TableOK(p)
      BY <2>1 DEF IInv, CallsOK, TablesOK
    <2> QED
      BY <1>1, <2>1, <2>2 DEF CallOK, Freeing
  <1>3. g \in Page
    BY <1>1, FrameFacts DEF TypeOK, Page
  <1>4. \A h \in Page : IF h < g THEN Mapped(e, h) <=> Mapped(p, h) ELSE ~Mapped(e, h)
    BY <1>1 DEF CopyOK
  <1>5. /\ entry' \in [Ppd -> [Page -> Frame \cup {Unmapped}]]
        /\ entry'[e][g] = v
        /\ \A h \in Page : h # g => entry'[e][h] = entry[e][h]
        /\ \A x \in Ppd : x # e => entry'[x] = entry[x]
    BY <1>1, <1>3, EntryWritten, ZenonT(60)
  <1>6. page'[e] = g + 1 /\ page' \in [Ppd -> Page \cup {NPages + 1}]
    <2>1. g + 1 \in Page \cup {NPages + 1}
      BY <1>3, FrameFacts DEF Page
    <2> QED
      BY <1>1, <2>1 DEF TypeOK
  <1>7. \A x \in Ppd : x # e => Untouched(x)
    BY <1>1, <1>5 DEF TypeOK, Untouched
  <1>8. entry[e][g] = Unmapped
    BY <1>3, <1>4 DEF Mapped, Page
  <1>9. v = Unmapped <=> ~Mapped(p, g)
    BY DEF Mapped
  <1> HIDE DEF g, p
  <1>10. \A h \in Page : IF h < g + 1 THEN Mapped(e, h)' <=> Mapped(p, h) ELSE ~Mapped(e, h)'
    <2> SUFFICES ASSUME NEW h \in Page
                 PROVE  IF h < g + 1 THEN Mapped(e, h)' <=> Mapped(p, h) ELSE ~Mapped(e, h)'
      OBVIOUS
    <2>1. h \in Int /\ g \in Int
      BY <1>3 DEF Page
    <2>2. CASE h = g
      BY <1>5, <1>9, <2>1, <2>2 DEF Mapped
    <2>3. CASE h # g
      <3>1. Mapped(e, h)' <=> Mapped(e, h)
        BY <1>5, <2>3 DEF Mapped
      <3> QED
        BY <1>4, <2>1, <2>3, <3>1
    <2> QED
      BY <2>2, <2>3
  <1>11. \A h \in Page : Mapped(e, h)' <=> h < g + 1 /\ Mapped(p, h)
    BY <1>10
  <1>12. CallOK(e)'
    BY <1>1, <1>2 DEF CallOK, Freeing
  <1>13. TableOK(e)'
    <2>1. ~Freeing(e)' /\ pc'[e] # "reserved" /\ ~Freeing(p)
      BY <1>2 DEF Freeing
    <2>2. \A h \in Page : Mapped(e, h)' => Lives(e, h)'
      BY <1>2, <1>11, <2>1 DEF TableOK, Lives, PagesOf
    <2>3. ASSUME NEW r \in alloc[e], NEW h \in PagesOf(r), NEW k \in PagesOf(r),
                 k < h, Mapped(e, h)'
          PROVE  Mapped(e, k)'
      <3>1. r \in alloc[p] /\ h \in Page /\ k \in Page
        BY <1>1, <1>2, RegionFacts DEF TypeOK
      <3>2. h < g + 1 /\ Mapped(p, h)
        BY <1>11, <2>3, <3>1
      <3>3. Mapped(p, k)
        BY <1>2, <2>3, <3>1, <3>2 DEF TableOK
      <3>4. k < g + 1
        BY <1>3, <2>3, <3>1, <3>2 DEF Page
      <3> QED
        BY <1>11, <3>1, <3>3, <3>4
    <2>4. \A r : PagesOf(r)' = PagesOf(r)
      BY DEF PagesOf
    <2> QED
      BY <2>1, <2>2, <2>3, <2>4 DEF TableOK
  <1>14. CallsOK' /\ TablesOK'
    <2>1. \A x \in Ppd : x # e => CallOK(x)' /\ TableOK(x)'
      BY <1>7, UntouchedOK DEF IInv, CallsOK, TablesOK
    <2> QED
      BY <1>12, <1>13, <2>1 DEF CallsOK, TablesOK
  <1>15. CopiesOK'
    <2>1. ASSUME NEW x \in Ppd, x # e PROVE CopyOK(x)'
      <3>1. CopyOK(x)
        BY DEF IInv, CopiesOK
      <3>2. copyOf[x] # e
        BY CopyFacts, FrameFacts
      <3>3. Untouched(x) /\ (copyOf[x] # None => Untouched(copyOf[x]))
        BY <1>7, <2>1, <3>2, CopyFacts
      <3>4. \A y \in Ppd : copyOf'[x] = copyOf'[y] /\ copyOf'[x] # None => x = y
        BY CopyFacts
      <3> QED
        BY <3>1, <3>3, <3>4, CopyKept
    <2>2. CopyOK(e)'
      <3>1. p' = p
        BY DEF p
      <3>2. \A h \in Page : Mapped(p, h)' <=> Mapped(p, h)
        BY <1>2, <1>5, <3>1 DEF Mapped
      <3>3. \A h \in Page : IF h < page'[e] THEN Mapped(e, h)' <=> Mapped(p, h)' ELSE ~Mapped(e, h)'
        BY <1>6, <1>10, <3>2
      <3>4. copyOf'[e] = p /\ alloc' = alloc /\ pc' = pc /\ copyOf' = copyOf
        BY DEF p
      <3>5. \A x \in Ppd : copyOf[e] = copyOf[x] /\ copyOf[e] # None => e = x
        BY CopyFacts
      <3> QED
        BY <1>2, <3>3, <3>4, <3>5, <3>1 DEF CopyOK
    <2> QED
      BY <2>1, <2>2 DEF CopiesOK
  <1> QED
    BY <1>3, <1>5, <1>6, <1>7, <1>8, <1>14, <1>15 DEF g

LEMMA CopyNoFrameStep ==
    ASSUME IInv, NEW e \in Ppd, CopyNoFrame(e)
    PROVE  IInv'
  <1> DEFINE v == entry[copyOf[e]][page[e]]
  <1>1. TypeOK /\ FrameInv
    BY DEF IInv
  <1>2. /\ pc[e] = "copy" /\ page[e] <= NPages /\ v \in {Unmapped, ZeroPage}
        /\ entry' = [entry EXCEPT ![e][page[e]] = v]
        /\ user' = [user EXCEPT ![e] = IF v = ZeroPage THEN @ \cup {page[e]} ELSE @]
        /\ page' = [page EXCEPT ![e] = @ + 1]
        /\ UNCHANGED <<lists, available, alloc, pc, region, dying, copyOf, unreserved, leaked>>
    BY DEF CopyNoFrame
  <1>3. v \in Frame \cup {Unmapped} /\ (v = Unmapped <=> v = Unmapped)
    BY <1>2, FrameFacts
  <1>4. user'[e] \subseteq user[e] \cup (IF v = ZeroPage THEN {page[e]} ELSE {})
        /\ \A x \in Ppd : x # e => user'[x] = user[x]
    BY <1>1, <1>2 DEF TypeOK
  <1>5. /\ page[e] \in Page
        /\ entry[e][page[e]] = Unmapped
        /\ entry' \in [Ppd -> [Page -> Frame \cup {Unmapped}]]
        /\ page' \in [Ppd -> Page \cup {NPages + 1}]
        /\ entry'[e][page[e]] = v
        /\ \A h \in Page : h # page[e] => entry'[e][h] = entry[e][h]
        /\ \A x \in Ppd : x # e => Untouched(x)
        /\ CallsOK' /\ TablesOK' /\ CopiesOK'
    BY <1>2, <1>3, <1>4, CopyPage
  <1> HIDE DEF v
  <1>6. TypeOK'
    <2>1. user' \in [Ppd -> SUBSET Page]
      BY <1>1, <1>2, <1>5 DEF TypeOK
    <2> QED
      BY <1>1, <1>2, <1>5, <2>1 DEF TypeOK, lists
  <1>7. FrameInv'
    <2>1. next' = next /\ free' = free /\ dirty' = dirty
      BY <1>2 DEF lists
    <2>2. \A x \in Ppd : \A h : GivenBack(x, h)' <=> GivenBack(x, h)
      BY <1>2, <1>5 DEF GivenBack, Untouched
    <2>3. \A x \in Ppd, h \in Page : Owns(x, h)' <=> Owns(x, h)
      BY <1>2, <1>5, <2>2, FrameFacts DEF Owns, Untouched
    <2>4. \A x \in Ppd, h \in Page : Owns(x, h) => entry'[x][h] = entry[x][h]
      BY <1>5, FrameFacts DEF Owns, Untouched
    <2>5. UserReads'
      <3>1. ASSUME NEW x \in Ppd, NEW h \in user'[x], entry'[x][h] \in UserFrame
            PROVE  ~GivenBack(x, h) /\ entry'[x][h] \notin dirty
        <4>1. ~(x = e /\ h = page[e])
          BY <1>2, <1>5, <3>1, FrameFacts
        <4>2. h \in user[x]
          BY <1>4, <3>1, <4>1
        <4>3. h \in Page /\ entry'[x][h] = entry[x][h]
          BY <1>1, <1>5, <4>1, <4>2 DEF TypeOK, Untouched
        <4> QED
          BY <1>1, <3>1, <4>2, <4>3 DEF FrameInv, UserReads
      <3> QED
        BY <2>1, <2>2, <3>1 DEF UserReads, UserFrame, Frame
    <2> QED
      BY <1>1, <2>1, <2>3, <2>4, <2>5, FramesStay
  <1> QED
    BY <1>5, <1>6, <1>7 DEF IInv

LEMMA CopyFrameStep ==
    ASSUME IInv, NEW e \in Ppd, CopyFrame(e)
    PROVE  IInv'
  <1>1. TypeOK /\ FrameInv
    BY DEF IInv
  <1>2. /\ pc[e] = "copy" /\ page[e] <= NPages
        /\ entry[copyOf[e]][page[e]] \in Frame \ {ZeroPage}
        /\ FreeFrames > 0 /\ Taken
        /\ dirty' = dirty \ {NextFrame}
        /\ entry' = [entry EXCEPT ![e][page[e]] = NextFrame]
        /\ user' = [user EXCEPT ![e] = @ \cup {page[e]}]
        /\ page' = [page EXCEPT ![e] = @ + 1]
        /\ UNCHANGED <<available, alloc, pc, region, dying, copyOf, unreserved, leaked>>
    BY DEF CopyFrame
  <1>3. /\ NextFrame \in UserFrame
        /\ next' \in 1 .. Total /\ free' \in Seq(UserFrame)
        /\ \A x \in Ppd, h \in Page : Owns(x, h) => entry[x][h] # NextFrame
    BY <1>2, TakenFacts
  <1>4. NextFrame \in Frame \cup {Unmapped}
        /\ (NextFrame = Unmapped <=> entry[copyOf[e]][page[e]] = Unmapped)
    BY <1>2, <1>3, FrameFacts
  <1>5. user'[e] = user[e] \cup {page[e]} /\ \A x \in Ppd : x # e => user'[x] = user[x]
    BY <1>1, <1>2 DEF TypeOK
  <1>6. /\ page[e] \in Page
        /\ entry[e][page[e]] = Unmapped
        /\ entry' \in [Ppd -> [Page -> Frame \cup {Unmapped}]]
        /\ page' \in [Ppd -> Page \cup {NPages + 1}]
        /\ entry'[e][page[e]] = NextFrame
        /\ \A h \in Page : h # page[e] => entry'[e][h] = entry[e][h]
        /\ \A x \in Ppd : x # e => Untouched(x)
        /\ CallsOK' /\ TablesOK' /\ CopiesOK'
    BY <1>2, <1>4, <1>5, CopyPage
  <1>7. TypeOK'
    <2>1. user' \in [Ppd -> SUBSET Page] /\ dirty' \subseteq Frame \ {ZeroPage}
      BY <1>1, <1>2, <1>6 DEF TypeOK
    <2> QED
      BY <1>1, <1>2, <1>3, <1>6, <2>1 DEF TypeOK, UserFrame
  <1>8. FrameInv'
    <2>1. \A x \in Ppd : \A h : GivenBack(x, h)' <=> GivenBack(x, h)
      BY <1>2, <1>6 DEF GivenBack, Untouched
    <2>2. ~GivenBack(e, page[e]) /\ ~Owns(e, page[e])
      BY <1>2, <1>6, FrameFacts DEF GivenBack, Owns
    <2>3. UserReads'
      <3>1. ASSUME NEW x \in Ppd, NEW h \in user'[x], entry'[x][h] \in UserFrame
            PROVE  ~GivenBack(x, h) /\ entry'[x][h] \notin dirty'
        <4>1. CASE x = e /\ h = page[e]
          BY <1>2, <1>6, <2>2, <4>1
        <4>2. CASE ~(x = e /\ h = page[e])
          <5>1. h \in user[x]
            BY <1>5, <3>1, <4>2
          <5>2. h \in Page /\ entry'[x][h] = entry[x][h]
            BY <1>1, <1>6, <4>2, <5>1 DEF TypeOK, Untouched
          <5> QED
            BY <1>1, <1>2, <3>1, <5>1, <5>2 DEF FrameInv, UserReads
        <4> QED
          BY <4>1, <4>2
      <3> QED
        BY <2>1, <3>1 DEF UserReads, UserFrame, Frame
    <2> QED
      BY <1>2, <1>6, <2>1, <2>2, <2>3, FrameTaken
  <1> QED
    BY <1>6, <1>7, <1>8 DEF IInv

LEMMA CopyFailsStep ==
    ASSUME IInv, NEW e \in Ppd, CopyFails(e)
    PROVE  IInv'
  <1>1. TypeOK /\ FrameInv /\ CallOK(e) /\ TableOK(e) /\ CopyOK(e)
    BY DEF IInv, CallsOK, TablesOK, CopiesOK
  <1>2. /\ pc[e] = "copy"
        /\ dying' = dying \cup {e}
        /\ pc' = [pc EXCEPT ![e] = "ready"]
        /\ page' = [page EXCEPT ![e] = 1]
        /\ UNCHANGED <<lists, available, alloc, tables, region, copyOf, unreserved, leaked>>
        /\ pc'[e] = "ready" /\ page'[e] = 1
    BY <1>1 DEF CopyFails, Goto, TypeOK
  <1>3. \A x \in Ppd : x # e => Untouched(x)
    BY <1>1, <1>2 DEF Untouched, TypeOK, tables
  <1>4. TypeOK'
    <2>1. 1 \in Page
      BY FrameFacts DEF Page
    <2> QED
      BY <1>1, <1>2, <2>1 DEF TypeOK, lists, tables
  <1>5. FrameInv'
    <2>1. \A x \in Ppd : /\ pc'[x] = "unmap" <=> pc[x] = "unmap"
                         /\ pc[x] = "unmap" => page'[x] = page[x]
      BY <1>2, <1>3 DEF Untouched
    <2> QED
      BY <1>1, <1>2, <2>1, TablesStay
  <1>6. CallOK(e)' /\ TableOK(e)'
    BY <1>1, <1>2 DEF CallOK, TableOK, Freeing, tables, Mapped, Lives, PagesOf
  <1>7. CallsOK' /\ TablesOK'
    <2>1. \A x \in Ppd : x # e => CallOK(x)' /\ TableOK(x)'
      BY <1>3, UntouchedOK DEF IInv, CallsOK, TablesOK
    <2> QED
      BY <1>6, <2>1 DEF CallsOK, TablesOK
  <1>8. \A x, y \in Ppd : copyOf'[x] = copyOf'[y] /\ copyOf'[x] # None => x = y
    BY <1>2, CopyFacts
  <1>9. CopiesOK'
    <2>1. ASSUME NEW x \in Ppd, x # e PROVE CopyOK(x)'
      <3>1. CopyOK(x) /\ copyOf[x] # e
        BY <1>2, CopyFacts, FrameFacts DEF IInv, CopiesOK
      <3>2. Untouched(x) /\ (copyOf[x] # None => Untouched(copyOf[x]))
        BY <1>3, <2>1, <3>1, CopyFacts
      <3> QED
        BY <1>8, <3>1, <3>2, CopyKept
    <2>2. CopyOK(e)'
      <3>1. copyOf[e] \in Ppd /\ copyOf[e] # e /\ pc[copyOf[e]] = "fork"
        BY <1>2, CopyFacts, FrameFacts
      <3>2. pc'[copyOf[e]] = "fork"
        BY <1>3, <3>1 DEF Untouched
      <3> QED
        BY <1>2, <1>8, <3>2 DEF CopyOK
    <2> QED
      BY <2>1, <2>2 DEF CopiesOK
  <1> QED
    BY <1>4, <1>5, <1>7, <1>9 DEF IInv

LEMMA CopyEndsStep ==
    ASSUME IInv, NEW e \in Ppd, CopyEnds(e)
    PROVE  IInv'
  <1> DEFINE p == copyOf[e]
  <1>1. TypeOK /\ FrameInv /\ CallOK(e) /\ TableOK(e)
    BY DEF IInv, CallsOK, TablesOK
  <1>2. pc[e] = "copy" /\ p \in Ppd /\ p # e /\ pc[p] = "fork"
    BY CopyFacts, FrameFacts DEF CopyEnds
  <1>3. CallOK(p) /\ TableOK(p)
    BY <1>2 DEF IInv, CallsOK, TablesOK
  <1>4. /\ pc' = [pc EXCEPT ![e] = "ready", ![p] = "ready"]
        /\ page' = [page EXCEPT ![e] = 1]
        /\ copyOf' = [copyOf EXCEPT ![e] = None]
        /\ UNCHANGED <<lists, available, alloc, tables, region, dying, unreserved, leaked>>
    BY DEF CopyEnds
  <1> HIDE DEF p
  <1>5. /\ pc'[e] = "ready" /\ pc'[p] = "ready" /\ page'[e] = 1 /\ page'[p] = page[p]
        /\ copyOf'[e] = None /\ \A x \in Ppd : x # e => copyOf'[x] = copyOf[x]
    BY <1>1, <1>2, <1>4 DEF TypeOK
  <1>6. \A x \in Ppd : x # e /\ x # p => Untouched(x)
    BY <1>1, <1>2, <1>4 DEF Untouched, TypeOK, tables
  <1>7. TypeOK'
    <2>1. 1 \in Page
      BY FrameFacts DEF Page
    <2> QED
      BY <1>1, <1>4, <2>1 DEF TypeOK, lists, tables
  <1>8. FrameInv'
    <2>1. \A x \in Ppd : /\ pc'[x] = "unmap" <=> pc[x] = "unmap"
                         /\ pc[x] = "unmap" => page'[x] = page[x]
      BY <1>2, <1>5, <1>6 DEF Untouched
    <2> QED
      BY <1>1, <1>4, <2>1, TablesStay
  <1>9. CallOK(e)' /\ TableOK(e)'
    BY <1>1, <1>2, <1>4, <1>5 DEF CallOK, TableOK, Freeing, tables, Mapped, Lives, PagesOf
  <1>10. \A x \in Ppd : x = p => CallOK(x)' /\ TableOK(x)'
    <2> SUFFICES ASSUME NEW x \in Ppd, x = p PROVE CallOK(x)' /\ TableOK(x)'
      OBVIOUS
    <2>1. /\ CallOK(x) /\ TableOK(x) /\ pc[x] = "fork" /\ pc'[x] = "ready"
          /\ page'[x] = page[x]
      BY <1>2, <1>3, <1>5
    <2> QED
      BY <1>4, <2>1 DEF CallOK, TableOK, Freeing, tables, Mapped, Lives, PagesOf
  <1>11. CallsOK' /\ TablesOK'
    <2>1. \A x \in Ppd : x # e /\ x # p => CallOK(x)' /\ TableOK(x)'
      BY <1>6, UntouchedOK DEF IInv, CallsOK, TablesOK
    <2> QED
      BY <1>9, <1>10, <2>1 DEF CallsOK, TablesOK
  <1>12. CopiesOK'
    <2>1. \A x \in Ppd : x # e => copyOf[x] # p
      BY <1>2, CopyFacts, FrameFacts DEF p
    <2>2. \A x \in Ppd : copyOf[x] # e
      BY <1>2, CopyFacts, FrameFacts
    <2>3. copyOf[p] # None => p \in dying
      BY <1>2, CopyFacts
    <2>4. copyOf[p] = None
      BY <1>2, <1>3, <2>3 DEF CallOK, Freeing
    <2>5. \A x \in Ppd : x = p \/ x = e => CopyOK(x)'
      BY <1>2, <1>5, <2>4 DEF CopyOK
    <2>6. ASSUME NEW x \in Ppd, x # p, x # e PROVE CopyOK(x)'
      <3>1. Untouched(x) /\ (copyOf[x] # None => Untouched(copyOf[x])) /\ CopyOK(x)
        BY <1>6, <2>1, <2>2, <2>6, CopyFacts DEF IInv, CopiesOK
      <3>2. \A y \in Ppd : copyOf'[x] = copyOf'[y] /\ copyOf'[x] # None => x = y
        BY <1>5, <2>6, CopyFacts
      <3> QED
        BY <3>1, <3>2, CopyKept
    <2> QED
      BY <2>5, <2>6 DEF CopiesOK
  <1> QED
    BY <1>7, <1>8, <1>11, <1>12 DEF IInv

LEMMA GoneStep ==
    ASSUME IInv, NEW d \in Ppd, Gone(d)
    PROVE  IInv'
  <1>1. TypeOK /\ FrameInv /\ CallOK(d) /\ TableOK(d)
    BY DEF IInv, CallsOK, TablesOK
  <1>2. /\ d \in dying /\ pc[d] = "ready" /\ alloc[d] = {} /\ page[d] = 1
        /\ pc' = [x \in Ppd |-> IF x = d THEN "none" ELSE IF x = copyOf[d] THEN "ready" ELSE pc[x]]
        /\ dying' = dying \ {d}
        /\ copyOf' = [copyOf EXCEPT ![d] = None]
        /\ UNCHANGED <<lists, available, alloc, tables, region, page, unreserved, leaked>>
    BY <1>1 DEF Gone, CallOK
  <1>3. /\ pc'[d] = "none" /\ copyOf'[d] = None /\ copyOf[d] # d
        /\ \A x \in Ppd : x # d => copyOf'[x] = copyOf[x]
        /\ \A x \in Ppd : x # d /\ x = copyOf[d] => pc[x] = "fork" /\ pc'[x] = "ready"
        /\ \A x \in Ppd : x # d /\ x # copyOf[d] => pc'[x] = pc[x]
    BY <1>1, <1>2, CopyFacts, FrameFacts DEF TypeOK
  <1>4. \A x \in Ppd : x # d /\ x # copyOf[d] => Untouched(x)
    BY <1>2, <1>3 DEF Untouched, tables
  <1>5. TypeOK'
    BY <1>1, <1>2 DEF TypeOK, lists, tables
  <1>6. FrameInv'
    <2>1. \A x \in Ppd : /\ pc'[x] = "unmap" <=> pc[x] = "unmap"
                         /\ pc[x] = "unmap" => page'[x] = page[x]
      BY <1>2, <1>3
    <2> QED
      BY <1>1, <1>2, <2>1, TablesStay
  <1>7. CallOK(d)' /\ TableOK(d)'
    BY <1>1, <1>2, <1>3 DEF CallOK, TableOK, Freeing, tables, Mapped, Lives, PagesOf
  <1>8. ASSUME NEW x \in Ppd, x # d, x = copyOf[d] PROVE CallOK(x)' /\ TableOK(x)'
    <2>1. /\ CallOK(x) /\ TableOK(x) /\ pc[x] = "fork" /\ pc'[x] = "ready"
          /\ x \in dying' => x \in dying
      BY <1>2, <1>3, <1>8 DEF IInv, CallsOK, TablesOK
    <2> QED
      BY <1>2, <2>1 DEF CallOK, TableOK, Freeing, tables, Mapped, Lives, PagesOf
  <1>9. CallsOK' /\ TablesOK'
    <2>1. \A x \in Ppd : x # d /\ x # copyOf[d] => CallOK(x)' /\ TableOK(x)'
      BY <1>4, UntouchedOK DEF IInv, CallsOK, TablesOK
    <2> QED
      BY <1>7, <1>8, <2>1 DEF CallsOK, TablesOK
  <1>10. CopiesOK'
    <2>1. \A x \in Ppd : copyOf[x] # d
      BY <1>2, CopyFacts, FrameFacts
    <2>2. CopyOK(d)'
      BY <1>3 DEF CopyOK
    <2>3. ASSUME NEW x \in Ppd, x # d, x = copyOf[d] PROVE CopyOK(x)'
      <3>1. pc[x] = "fork" /\ CallOK(x)
        BY <1>3, <2>3 DEF IInv, CallsOK
      <3>2. copyOf[x] = None
        BY <3>1, CopyFacts DEF CallOK, Freeing
      <3> QED
        BY <1>3, <2>3, <3>2 DEF CopyOK
    <2>4. ASSUME NEW x \in Ppd, x # d, x # copyOf[d] PROVE CopyOK(x)'
      <3>1. copyOf[x] # None => copyOf[x] \in Ppd /\ copyOf[x] # copyOf[d]
        BY <2>4, CopyFacts
      <3>2. Untouched(x) /\ (copyOf[x] # None => Untouched(copyOf[x])) /\ CopyOK(x)
        BY <1>4, <2>1, <2>4, <3>1 DEF IInv, CopiesOK
      <3>3. \A y \in Ppd : copyOf'[x] = copyOf'[y] /\ copyOf'[x] # None => x = y
        BY <1>3, <2>4, CopyFacts
      <3> QED
        BY <3>2, <3>3, CopyKept
    <2> QED
      BY <2>2, <2>3, <2>4 DEF CopiesOK
  <1> QED
    BY <1>5, <1>6, <1>9, <1>10 DEF IInv

-----------------------------------------------------------------------------
(* The invariant.                                                           *)

LEMMA InitOK == Init => IInv
  <1> SUFFICES ASSUME Init PROVE IInv
    OBVIOUS
  <1>1. /\ next = 1 /\ free = <<>> /\ dirty = Frame \ {ZeroPage} /\ available = Total
        /\ alloc = [d \in Ppd |-> {}]
        /\ entry = [d \in Ppd |-> [g \in Page |-> Unmapped]]
        /\ user = [d \in Ppd |-> {}] /\ pc = [d \in Ppd |-> "none"]
        /\ region = [d \in Ppd |-> None] /\ page = [d \in Ppd |-> 1]
        /\ dying = {} /\ copyOf = [d \in Ppd |-> None] /\ unreserved = 0 /\ leaked = 0
    BY DEF Init
  <1>2. 1 \in Page /\ 1 \in 1 .. Total /\ 0 \in 0 .. MaxUnreserved
    BY FrameFacts, FramesConstants DEF Page
  <1>3. \A d \in Ppd : /\ alloc[d] = {} /\ user[d] = {} /\ pc[d] = "none" /\ page[d] = 1
                       /\ region[d] = None /\ copyOf[d] = None
                       /\ \A g \in Page : entry[d][g] = Unmapped
    BY <1>1
  <1>4. TypeOK
    <2>1. entry \in [Ppd -> [Page -> Frame \cup {Unmapped}]]
      BY <1>1
    <2>2. <<>> \in Seq(Frame \ {ZeroPage})
      OBVIOUS
    <2> QED
      BY <1>1, <1>2, <2>1, <2>2, FrameFacts DEF TypeOK
  <1>5. Queue!ToSet(free) = {} /\ Queue!NoRepeats(free)
    BY <1>1 DEF Queue!ToSet, Queue!NoRepeats
  <1>6. \A d \in Ppd, g \in Page : ~Owns(d, g)
    BY <1>3, FrameFacts DEF Owns
  <1>7. FrameInv
    <2>1. NoneLost
      BY <1>1, FrameFacts DEF NoneLost
    <2> QED
      BY <1>3, <1>5, <1>6, <2>1 DEF FrameInv, ListOK, FramesApart, UserReads
  <1>8. CallsOK
    BY <1>1, <1>3 DEF CallsOK, CallOK, Freeing
  <1>9. TablesOK
    BY <1>3 DEF TablesOK, TableOK, Freeing, Mapped
  <1>10. CopiesOK
    BY <1>3 DEF CopiesOK, CopyOK
  <1> QED
    BY <1>4, <1>7, <1>8, <1>9, <1>10 DEF IInv

LEMMA StutterStep == IInv /\ UNCHANGED vars => IInv'
  <1> SUFFICES ASSUME IInv, UNCHANGED vars PROVE IInv'
    OBVIOUS
  <1>1. /\ UNCHANGED <<lists, tables>>
        /\ UNCHANGED <<available, alloc, pc, region, page, dying, copyOf, unreserved, leaked>>
    BY DEF vars, calls
  <1>2. \A x \in Ppd : Untouched(x) /\ (copyOf[x] # None => copyOf[x] \in Ppd)
    BY <1>1, CopyFacts DEF Untouched, tables
  <1>3. TypeOK'
    BY <1>1 DEF IInv, TypeOK, lists, tables
  <1>4. FrameInv'
    BY <1>1, TablesStay DEF IInv
  <1>5. CallsOK' /\ TablesOK'
    BY <1>2, UntouchedOK DEF IInv, CallsOK, TablesOK
  <1>6. CopiesOK'
    <2>1. ASSUME NEW x \in Ppd PROVE CopyOK(x)'
      <3>1. CopyOK(x) /\ Untouched(x) /\ (copyOf[x] # None => Untouched(copyOf[x]))
        BY <1>2 DEF IInv, CopiesOK
      <3>2. \A y \in Ppd : copyOf'[x] = copyOf'[y] /\ copyOf'[x] # None => x = y
        BY <1>1, CopyFacts
      <3> QED
        BY <3>1, <3>2, CopyKept
    <2> QED
      BY <2>1 DEF CopiesOK
  <1> QED
    BY <1>3, <1>4, <1>5, <1>6 DEF IInv

LEMMA NextStep == IInv /\ Next => IInv'
  <1> SUFFICES ASSUME IInv, NEW d \in Ppd,
                   \/ Create(d) \/ Exit(d) \/ Gone(d)
                   \/ \E r \in Region : Reserve(d, r) \/ FreeAlloc(d, r)
                   \/ MapZeroPages(d) \/ AllocFails(d)
                   \/ \E g \in Page : AllocFrame(d, g)
                   \/ ZeroFrame(d)
                   \/ FreeZeroPage(d) \/ HidePage(d) \/ FreeFrame(d) \/ UnmapPage(d) \/ FreeEnds(d)
                   \/ \E e \in Ppd : Fork(d, e)
                   \/ CopyNoFrame(d) \/ CopyFrame(d) \/ CopyFails(d) \/ CopyEnds(d)
               PROVE  IInv'
    BY DEF Next
  <1>1. CASE Create(d) \/ Exit(d) \/ Gone(d)
    BY <1>1, CreateStep, ExitStep, GoneStep
  <1>2. CASE \E r \in Region : Reserve(d, r) \/ FreeAlloc(d, r)
    BY <1>2, ReserveStep, FreeAllocStep
  <1>3. CASE MapZeroPages(d) \/ AllocFails(d)
    BY <1>3, MapZeroPagesStep, AllocFailsStep
  <1>4. CASE ZeroFrame(d) \/ \E g \in Page : AllocFrame(d, g)
    BY <1>4, ZeroFrameStep, AllocFrameStep
  <1>5. CASE FreeZeroPage(d) \/ HidePage(d) \/ FreeFrame(d) \/ UnmapPage(d) \/ FreeEnds(d)
    BY <1>5, FreeZeroPageStep, HidePageStep, FreeFrameStep, UnmapPageStep, FreeEndsStep
  <1>6. CASE \E e \in Ppd : Fork(d, e)
    BY <1>6, ForkStep
  <1>7. CASE CopyNoFrame(d) \/ CopyFrame(d) \/ CopyFails(d) \/ CopyEnds(d)
    BY <1>7, CopyNoFrameStep, CopyFrameStep, CopyFailsStep, CopyEndsStep
  <1> QED
    BY <1>1, <1>2, <1>3, <1>4, <1>5, <1>6, <1>7

(* The inductive invariant of user memory: where each frame is, how far    *)
(* each call has come, which pages an allocation can still free, and how   *)
(* far the child of a fork is a copy.                                      *)
THEOREM Invariance == Spec => []IInv
  <1>1. IInv /\ [Next]_vars => IInv'
    BY NextStep, StutterStep
  <1> QED
    BY <1>1, InitOK, PTL DEF Spec

(* Types of the allocator, the page tables and the calls under way.        *)
THEOREM TypeCorrect == Spec => []TypeOK
  <1>1. IInv => TypeOK
    BY DEF IInv
  <1> QED
    BY <1>1, Invariance, PTL

LEMMA InListEmpty ==
    ASSUME TypeOK, NEW f
    PROVE  InList(f) = {} <=> f \notin Queue!ToSet(free)
  <1>1. free \in Seq(Frame)
    BY DEF TypeOK
  <1>2. DOMAIN free = 1..Len(free)
    BY <1>1, Queue!QueueElements
  <1> QED
    BY <1>1, <1>2, Queue!QueueElements DEF InList

(* alloc_frame hides a page until its frame is zeroed, and vm_free_alloc_h *)
(* hides it before the frame is given back: a user never reaches a frame   *)
(* with the contents of another, nor the link of the free list.            *)
THEOREM UserFramesAreOwn == Spec => []UserSeesOwnFrames
  <1>1. IInv => UserSeesOwnFrames
    <2> SUFFICES ASSUME IInv, NEW d \in Ppd, NEW g \in user[d], entry[d][g] # ZeroPage
                 PROVE  entry[d][g] \notin dirty /\ InList(entry[d][g]) = {}
      BY DEF UserSeesOwnFrames
    <2>1. TypeOK /\ UserReads /\ FramesApart
      BY DEF IInv, FrameInv
    <2>2. g \in Page /\ entry[d][g] \in Frame \cup {Unmapped}
      BY <2>1 DEF TypeOK
    <2>3. CASE entry[d][g] \in UserFrame
      BY <2>1, <2>2, <2>3, InListEmpty DEF UserReads, FramesApart, Owns
    <2>4. CASE entry[d][g] = Unmapped
      <3>1. Queue!ToSet(free) \subseteq Frame
        BY <2>1, Queue!QueueElements DEF TypeOK
      <3> QED
        BY <2>1, <2>4, <3>1, FrameFacts, InListEmpty DEF TypeOK
    <2> QED
      BY <2>2, <2>3, <2>4 DEF UserFrame
  <1> QED
    BY <1>1, Invariance, PTL

(* No frame is lost and none is given to two, though forks fail half way,  *)
(* exits run side by side and the list is linked through the frames.       *)
THEOREM FramesConserved == Spec => []EveryFrameOnce
  <1>1. IInv => EveryFrameOnce
    <2> SUFFICES ASSUME IInv, NEW f \in UserFrame
                 PROVE  Cardinality(InList(f)) + Cardinality(MappedAt(f)) = (IF f < next THEN 1 ELSE 0)
      BY DEF EveryFrameOnce, UserFrame
    <2>1. TypeOK /\ ListOK /\ FramesApart /\ NoneLost
      BY DEF IInv, FrameInv
    <2>2. free \in Seq(Frame) /\ DOMAIN free = 1..Len(free)
      BY <2>1, Queue!QueueElements DEF TypeOK
    <2>3. \A x \in Ppd, g \in Page : <<x, g>> \in MappedAt(f) <=> Owns(x, g) /\ entry[x][g] = f
      BY DEF MappedAt, Owns
    <2>4. Cardinality({}) = 0 /\ \A x : Cardinality({x}) = 1
      BY FS_EmptySet, FS_Singleton
    <2>5. CASE f \in Queue!ToSet(free)
      <3>1. PICK i \in DOMAIN free : free[i] = f
        BY <2>5 DEF Queue!ToSet
      <3>2. InList(f) = {i}
        BY <2>1, <2>2, <3>1 DEF InList, ListOK, Queue!NoRepeats
      <3>3. MappedAt(f) = {}
        BY <2>1, <2>3, <2>5 DEF FramesApart, MappedAt
      <3>4. f < next
        BY <2>1, <2>5 DEF ListOK
      <3> QED
        BY <2>4, <3>2, <3>3, <3>4
    <2>6. CASE f \notin Queue!ToSet(free) /\ f < next
      <3>1. InList(f) = {}
        BY <2>1, <2>6, InListEmpty
      <3>2. PICK x \in Ppd, g \in Page : Owns(x, g) /\ entry[x][g] = f
        BY <2>1, <2>6 DEF NoneLost
      <3>3. \A y \in Ppd, h \in Page : Owns(y, h) /\ entry[y][h] = f => y = x /\ h = g
        BY <2>1, <3>2 DEF FramesApart
      <3>4. MappedAt(f) = {<<x, g>>}
        <4>1. <<x, g>> \in MappedAt(f)
          BY <2>3, <3>2
        <4>2. \A y \in MappedAt(f) : y = <<x, g>>
          BY <2>3, <3>3 DEF MappedAt
        <4> QED
          BY <4>1, <4>2
      <3>5. Cardinality(MappedAt(f)) = 1
        BY <2>4, <3>4, Zenon
      <3>6. Cardinality(InList(f)) = 0
        BY <2>4, <3>1, Zenon
      <3> QED
        BY <2>6, <3>5, <3>6
    <2>7. CASE f \notin Queue!ToSet(free) /\ ~(f < next)
      <3>1. InList(f) = {}
        BY <2>1, <2>7, InListEmpty
      <3>2. MappedAt(f) = {}
        BY <2>1, <2>3, <2>7 DEF FramesApart, MappedAt
      <3> QED
        BY <2>4, <2>7, <3>1, <3>2
    <2> QED
      BY <2>5, <2>6, <2>7
  <1> QED
    BY <1>1, Invariance, PTL
=============================================================================
