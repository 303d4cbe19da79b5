------------------------------- MODULE Frames -------------------------------
(***************************************************************************)
(* User memory: the frame allocator and the promises of frames of kern/vm, *)
(* under what the system calls, page faults, fork, exec and exit do to     *)
(* address spaces.                                                         *)
(*                                                                         *)
(* An allocation reserves frames and maps each page to the zero page; a    *)
(* write gives the page a frame. The locks of the frame allocator and of   *)
(* the reservations make a stretch of code one step, and ppd->lock makes   *)
(* the calls of one address space follow each other. Address spaces run    *)
(* side by side. exec is Create, allocations, and Exit of the old one.     *)
(*                                                                         *)
(* Kernel memory (alloc_page_table, smalloc) may be short at any time.     *)
(***************************************************************************)
EXTENDS Integers, Sequences, FiniteSets

CONSTANTS Ppd,             (* address spaces                                           *)
          NPages,          (* the pages of user memory are 1 .. NPages                 *)
          Region,          (* allocations a program may ask for                        *)
          First, Last,     (* First[r], Last[r]: the pages of r                        *)
          EndsOnPage,      (* the regions whose start + size is a page boundary        *)
          Total,           (* frames.total_frames                                      *)
          None,            (* no address space, no allocation                          *)
          MaxUnreserved    (* bound on the frames that forks take without reserving    *)

ASSUME FramesConstants ==
    /\ NPages \in Nat \ {0} /\ Total \in Nat \ {0} /\ MaxUnreserved \in Nat
    /\ First \in [Region -> 1 .. NPages] /\ Last \in [Region -> 1 .. NPages]
    /\ \A r \in Region : First[r] <= Last[r]
    /\ \A r, s \in Region : r # s => Last[r] < First[s] \/ Last[s] < First[r]
    /\ EndsOnPage \subseteq Region
    /\ IsFiniteSet(Ppd) /\ IsFiniteSet(Region)
    /\ None \notin Ppd \cup Region

Page == 1 .. NPages
Frame == 0 .. Total - 1
ZeroPage == 0     (* the first frame: frames.zero_page           *)
Unmapped == -1    (* a page table entry that is not present      *)

VARIABLES
    next,       (* frames.next_physical_frame                                      *)
    free,       (* the implicit list of free frames, frames.next_frame first       *)
    dirty,      (* the frames that have not been zeroed since their last use       *)
    available,  (* virtual_memory.available_frames                                 *)
    alloc,      (* alloc[d]: the allocations in d's alloc_table                    *)
    entry,      (* entry[d][g]: the frame that d maps at page g                    *)
    user,       (* user[d]: the pages of d whose entry has the user bit            *)
    pc,         (* pc[d]: what is going on in d                                    *)
    region,     (* region[d]: the allocation the call in d is about                *)
    page,       (* page[d]: the page the call in d has come to                     *)
    dying,      (* the address spaces that are being freed                         *)
    copyOf,     (* copyOf[d]: the address space whose fork makes d                 *)
    unreserved, (* frames that forks owed to the reservation, in all               *)
    leaked      (* frames reserved by allocations that failed after that           *)

lists == <<next, free, dirty>>
tables == <<entry, user>>
calls == <<pc, region, page, dying, copyOf>>
vars == <<lists, available, alloc, tables, calls, unreserved, leaked>>

-----------------------------------------------------------------------------
PagesOf(r) == First[r] .. Last[r]

(* The last page that required_frames counts: one too many if the allocation ends  *)
(* on a page boundary.                                                             *)
EndPage(r) == IF r \in EndsOnPage THEN Last[r] + 1 ELSE Last[r]
RequiredFrames(r) == 1 + (EndPage(r) - First[r])
RequiredBy(rs) ==
    Cardinality({x \in rs \X (Page \cup {NPages + 1}) : x[2] \in First[x[1]] .. EndPage(x[1])})

(* What the frame allocator can still give: the frames on its list, and those it   *)
(* has never given. Seeded fault: next_physical_frame tests for > total_frames.        *)
FreeFrames_Past == Len(free) + (Total + 1 - next)
FreeFrames == Len(free) + (Total - next)

Ready(d) == pc[d] = "ready" /\ d \notin dying

Goto(d, place) == pc' = [pc EXCEPT ![d] = place]

-----------------------------------------------------------------------------
(* init_frame_alloc takes the first frame for the zero page, after the frames were *)
(* counted without it; init_virtual_memory makes all of them available.            *)
Init == /\ next = 1
        /\ free = <<>>
        /\ dirty = Frame \ {ZeroPage}
        /\ available = Total
        /\ alloc = [d \in Ppd |-> {}]
        /\ entry = [d \in Ppd |-> [g \in Page |-> Unmapped]]
        /\ user = [d \in Ppd |-> {}]
        /\ pc = [d \in Ppd |-> "none"]
        /\ region = [d \in Ppd |-> None]
        /\ page = [d \in Ppd |-> 1]
        /\ dying = {}
        /\ copyOf = [d \in Ppd |-> None]
        /\ unreserved = 0
        /\ leaked = 0

(* init_ppd, for exec or for a first program. *)
Create(d) ==
    /\ pc[d] = "none"
    /\ Goto(d, "ready")
    /\ UNCHANGED <<lists, available, alloc, tables, region, page, dying, copyOf, unreserved, leaked>>

(* reserve_frames has enough. Seeded fault: it lends one frame more.              *)
CanReserve_OneMore(n) == n <= available + 1
CanReserve(n) == n <= available

(* vm_alloc_readwrite of pages that are free, up to the end of reserve_frames.     *)
Reserve(d, r) ==
    /\ Ready(d)
    /\ \A g \in PagesOf(r) : entry[d][g] = Unmapped
    /\ CanReserve(RequiredFrames(r))
    /\ available' = available - RequiredFrames(r)
    /\ Goto(d, "reserved")
    /\ region' = [region EXCEPT ![d] = r]
    /\ UNCHANGED <<lists, alloc, tables, page, dying, copyOf, unreserved, leaked>>

(* The rest of vm_alloc_readwrite: tables, the entry in the list, the zero page.   *)
MapZeroPages(d) ==
    /\ pc[d] = "reserved"
    /\ alloc' = [alloc EXCEPT ![d] = @ \cup {region[d]}]
    /\ entry' = [entry EXCEPT ![d] =
                    [g \in Page |-> IF g \in PagesOf(region[d]) THEN ZeroPage ELSE @[g]]]
    /\ user' = [user EXCEPT ![d] = @ \cup PagesOf(region[d])]
    /\ Goto(d, "ready")
    /\ region' = [region EXCEPT ![d] = None]
    /\ UNCHANGED <<lists, available, page, dying, copyOf, unreserved, leaked>>

(* allocate_tables or add_alloc fails, and the reservation stays.                  *)
AllocFails(d) ==
    /\ pc[d] = "reserved"
    /\ leaked' = leaked + RequiredFrames(region[d])
    /\ Goto(d, "ready")
    /\ region' = [region EXCEPT ![d] = None]
    /\ UNCHANGED <<lists, available, alloc, tables, page, dying, copyOf, unreserved>>

-----------------------------------------------------------------------------
(* The frame that the allocator gives next, from its list or the untouched ones,   *)
(* and the lists after that. Seeded fault: the front of the list stays there.      *)
NextFrame == IF free # <<>> THEN Head(free) ELSE next

Taken_Kept == UNCHANGED free /\ next' = IF free # <<>> THEN next ELSE next + 1
Taken == IF free # <<>>
         THEN free' = Tail(free) /\ UNCHANGED next
         ELSE next' = next + 1 /\ UNCHANGED free

(* alloc_frame under its lock: a page fault, or vm_back before the kernel writes.  *)
(* The frame is mapped for the kernel alone until it is zeroed.                    *)
(* With no frame left vm_back fails and the page fault happens again.              *)
AllocFrame(d, g) ==
    /\ Ready(d)
    /\ entry[d][g] = ZeroPage
    /\ FreeFrames > 0
    /\ Taken
    /\ entry' = [entry EXCEPT ![d][g] = NextFrame]
    /\ user' = [user EXCEPT ![d] = @ \ {g}]
    /\ Goto(d, "zero")
    /\ page' = [page EXCEPT ![d] = g]
    /\ UNCHANGED <<dirty, available, alloc, region, dying, copyOf, unreserved, leaked>>

(* The rest of alloc_frame: the frame is zeroed, and given to the user.            *)
ZeroFrame(d) ==
    /\ pc[d] = "zero"
    /\ dirty' = dirty \ {entry[d][page[d]]}
    /\ user' = [user EXCEPT ![d] = @ \cup {page[d]}]
    /\ Goto(d, "ready")
    /\ page' = [page EXCEPT ![d] = 1]
    /\ UNCHANGED <<next, free, available, alloc, entry, region, dying, copyOf, unreserved, leaked>>

-----------------------------------------------------------------------------
(* vm_free and each turn of free_ppd_user_mem: release_frames, then page by page.  *)
(* Seeded fault of the release: it counts the pages and not what was reserved.     *)
Released_Pages(r) == Cardinality(PagesOf(r))
Released(r) == RequiredFrames(r)

FreeAlloc(d, r) ==
    /\ pc[d] = "ready"
    /\ r \in alloc[d]
    /\ alloc' = [alloc EXCEPT ![d] = @ \ {r}]
    /\ available' = available + Released(r)
    /\ Goto(d, "free")
    /\ region' = [region EXCEPT ![d] = r]
    /\ page' = [page EXCEPT ![d] = First[r]]
    /\ UNCHANGED <<lists, tables, dying, copyOf, unreserved, leaked>>

AtEnd(d) == page[d] > Last[region[d]]

(* vm_free_alloc_h of a page without a frame of its own.                           *)
FreeZeroPage(d) ==
    /\ pc[d] = "free" /\ ~AtEnd(d)
    /\ entry[d][page[d]] = ZeroPage
    /\ entry' = [entry EXCEPT ![d][page[d]] = Unmapped]
    /\ user' = [user EXCEPT ![d] = @ \ {page[d]}]
    /\ page' = [page EXCEPT ![d] = @ + 1]
    /\ UNCHANGED <<lists, available, alloc, pc, region, dying, copyOf, unreserved, leaked>>

(* vm_free_alloc_h: the page is made the kernel's before the frame is given back.  *)
(* Seeded fault: it is not.                                                        *)
Hidden_Not(u, g) == u
Hidden(u, g) == u \ {g}

HidePage(d) ==
    /\ pc[d] = "free" /\ ~AtEnd(d)
    /\ entry[d][page[d]] \in Frame \ {ZeroPage}
    /\ user' = [user EXCEPT ![d] = Hidden(@, page[d])]
    /\ Goto(d, "give")
    /\ UNCHANGED <<lists, available, alloc, entry, region, page, dying, copyOf, unreserved, leaked>>

(* free_frame, under its lock. The frame itself holds the link of the list.        *)
FreeFrame(d) ==
    /\ pc[d] = "give"
    /\ free' = <<entry[d][page[d]]>> \o free
    /\ dirty' = dirty \cup {entry[d][page[d]]}
    /\ Goto(d, "unmap")
    /\ UNCHANGED <<next, available, alloc, tables, region, page, dying, copyOf, unreserved, leaked>>

UnmapPage(d) ==
    /\ pc[d] = "unmap"
    /\ entry' = [entry EXCEPT ![d][page[d]] = Unmapped]
    /\ user' = [user EXCEPT ![d] = @ \ {page[d]}]
    /\ page' = [page EXCEPT ![d] = @ + 1]
    /\ Goto(d, "free")
    /\ UNCHANGED <<lists, available, alloc, region, dying, copyOf, unreserved, leaked>>

(* The walk over the pages ends, or stops at one that is not mapped.               *)
FreeEnds(d) ==
    /\ pc[d] = "free"
    /\ ~AtEnd(d) => entry[d][page[d]] = Unmapped
    /\ Goto(d, "ready")
    /\ region' = [region EXCEPT ![d] = None]
    /\ page' = [page EXCEPT ![d] = 1]
    /\ UNCHANGED <<lists, available, alloc, tables, dying, copyOf, unreserved, leaked>>

-----------------------------------------------------------------------------
(* fork: init_ppd_from, up to the end of copy_alloc_list. The copies of the        *)
(* allocations are not reserved for, though their end will be released.            *)
Fork(d, e) ==
    /\ Ready(d)
    /\ pc[e] = "none"
    /\ unreserved + RequiredBy(alloc[d]) <= MaxUnreserved
    /\ unreserved' = unreserved + RequiredBy(alloc[d])
    /\ alloc' = [alloc EXCEPT ![e] = alloc[d]]
    /\ pc' = [pc EXCEPT ![d] = "fork", ![e] = "copy"]
    /\ copyOf' = [copyOf EXCEPT ![e] = d]
    /\ UNCHANGED <<lists, available, tables, region, page, dying, leaked>>

(* copy_page_table comes to a page that is not the parent's own.                   *)
CopyNoFrame(e) ==
    /\ pc[e] = "copy" /\ page[e] <= NPages
    /\ entry[copyOf[e]][page[e]] \in {Unmapped, ZeroPage}
    /\ entry' = [entry EXCEPT ![e][page[e]] = entry[copyOf[e]][page[e]]]
    /\ user' = [user EXCEPT ![e] =
                   IF entry[copyOf[e]][page[e]] = ZeroPage THEN @ \cup {page[e]} ELSE @]
    /\ page' = [page EXCEPT ![e] = @ + 1]
    /\ UNCHANGED <<lists, available, alloc, pc, region, dying, copyOf, unreserved, leaked>>

(* copy_frame: kernel_alloc_frame, and the copying, into a table nobody uses yet.  *)
CopyFrame(e) ==
    /\ pc[e] = "copy" /\ page[e] <= NPages
    /\ entry[copyOf[e]][page[e]] \in Frame \ {ZeroPage}
    /\ FreeFrames > 0
    /\ Taken
    /\ dirty' = dirty \ {NextFrame}
    /\ entry' = [entry EXCEPT ![e][page[e]] = NextFrame]
    /\ user' = [user EXCEPT ![e] = @ \cup {page[e]}]
    /\ page' = [page EXCEPT ![e] = @ + 1]
    /\ UNCHANGED <<available, alloc, pc, region, dying, copyOf, unreserved, leaked>>

(* copy_page_dir fails, for want of a frame or a table: free_ppd of the child.     *)
CopyFails(e) ==
    /\ pc[e] = "copy" /\ page[e] <= NPages
    /\ entry[copyOf[e]][page[e]] # Unmapped
    /\ dying' = dying \cup {e}
    /\ Goto(e, "ready")
    /\ page' = [page EXCEPT ![e] = 1]
    /\ UNCHANGED <<lists, available, alloc, tables, region, copyOf, unreserved, leaked>>

CopyEnds(e) ==
    /\ pc[e] = "copy" /\ page[e] > NPages
    /\ pc' = [pc EXCEPT ![e] = "ready", ![copyOf[e]] = "ready"]
    /\ page' = [page EXCEPT ![e] = 1]
    /\ copyOf' = [copyOf EXCEPT ![e] = None]
    /\ UNCHANGED <<lists, available, alloc, tables, region, dying, unreserved, leaked>>

(* vanish of the last thread, or the end of exec: free_ppd_user_mem begins ...     *)
Exit(d) ==
    /\ Ready(d)
    /\ dying' = dying \cup {d}
    /\ UNCHANGED <<lists, available, alloc, tables, pc, region, page, copyOf, unreserved, leaked>>

(* ... and ends. A fork that failed then returns to its parent.                    *)
Gone(d) ==
    /\ d \in dying
    /\ pc[d] = "ready"
    /\ alloc[d] = {}
    /\ pc' = [x \in Ppd |-> IF x = d THEN "none" ELSE IF x = copyOf[d] THEN "ready" ELSE pc[x]]
    /\ dying' = dying \ {d}
    /\ copyOf' = [copyOf EXCEPT ![d] = None]
    /\ UNCHANGED <<lists, available, alloc, tables, region, page, unreserved, leaked>>

Next ==
    \E d \in Ppd :
        \/ Create(d) \/ Exit(d) \/ Gone(d)
        \/ \E r \in Region : Reserve(d, r) \/ FreeAlloc(d, r)
        \/ MapZeroPages(d) \/ AllocFails(d)
        \/ \E g \in Page : AllocFrame(d, g)
        \/ ZeroFrame(d)
        \/ FreeZeroPage(d) \/ HidePage(d) \/ FreeFrame(d) \/ UnmapPage(d) \/ FreeEnds(d)
        \/ \E e \in Ppd : Fork(d, e)
        \/ CopyNoFrame(d) \/ CopyFrame(d) \/ CopyFails(d) \/ CopyEnds(d)

Spec == Init /\ [][Next]_vars

-----------------------------------------------------------------------------
(* Type correctness of the allocator, the page tables and the calls under way.     *)
TypeOK ==
    /\ next \in 1 .. Total
    /\ free \in Seq(Frame \ {ZeroPage})
    /\ dirty \subseteq Frame \ {ZeroPage}
    /\ available \in Int
    /\ alloc \in [Ppd -> SUBSET Region]
    /\ entry \in [Ppd -> [Page -> Frame \cup {Unmapped}]]
    /\ user \in [Ppd -> SUBSET Page]
    /\ pc \in [Ppd -> {"none", "ready", "reserved", "zero", "free", "give", "unmap",
                       "fork", "copy"}]
    /\ region \in [Ppd -> Region \cup {None}]
    /\ page \in [Ppd -> Page \cup {NPages + 1}]
    /\ dying \subseteq Ppd
    /\ copyOf \in [Ppd -> Ppd \cup {None}]
    /\ unreserved \in 0 .. MaxUnreserved
    /\ leaked \in Nat

(* The places of a frame: in the list, by position, or in a page table. A page     *)
(* that is being unmapped has given its frame back already.                        *)
InList(f) == {i \in DOMAIN free : free[i] = f}
GivenBack(d, g) == pc[d] = "unmap" /\ page[d] = g
MappedAt(f) == {x \in Ppd \X Page : entry[x[1]][x[2]] = f /\ ~GivenBack(x[1], x[2])}

(* Each frame that was ever given out is in one place: once on the free list, or   *)
(* owned by one page of one address space. None is lost, even by a fork that fails *)
(* half way and frees its child, and none is given to two.                         *)
EveryFrameOnce ==
    \A f \in Frame \ {ZeroPage} :
        Cardinality(InList(f)) + Cardinality(MappedAt(f)) = (IF f < next THEN 1 ELSE 0)

(* A user program reaches a frame only after it was zeroed for it, and no longer   *)
(* once it may be given to another: neither the old contents show, nor can the     *)
(* link of the free list, which lies in the frame, be written to.                  *)
UserSeesOwnFrames ==
    \A d \in Ppd : \A g \in user[d] :
        entry[d][g] # ZeroPage => entry[d][g] \notin dirty /\ InList(entry[d][g]) = {}

(* The places for frames that are promised to address spaces.                      *)
PromisedTo(d) == alloc[d] \cup (IF pc[d] = "reserved" THEN {region[d]} ELSE {})
Promised == {x \in Ppd \X Region \X (Page \cup {NPages + 1}) :
                x[2] \in PromisedTo(x[1]) /\ x[3] \in First[x[2]] .. EndPage(x[2])}

(* The count of available frames is exact up to two drifts, which only grow: what  *)
(* forks never reserved but exits release, and what failed allocations reserved    *)
(* and nobody releases.                                                            *)
AvailableAccounts ==
    available = Total - Cardinality(Promised) - leaked + unreserved

(* The pages of live allocations that have no frame yet, and the frames of those   *)
(* that are being freed: release_frames runs before the frames are given back.     *)
Lives(d, g) == \E r \in alloc[d] : g \in PagesOf(r)
Unbacked == {x \in Ppd \X Page : entry[x[1]][x[2]] = ZeroPage /\ Lives(x[1], x[2])}
BeingFreed == {x \in Ppd \X Page : /\ entry[x[1]][x[2]] \in Frame \ {ZeroPage}
                                   /\ ~Lives(x[1], x[2]) /\ ~GivenBack(x[1], x[2])}

(* The allocator can back every page of a live allocation, as soon as the calls    *)
(* that free have given back what they already released; but for the pages that    *)
(* forks did not reserve, and for one: the zero page is taken off the frames twice.*)
PromisesKept ==
    Cardinality(Unbacked) <= FreeFrames + Cardinality(BeingFreed) + unreserved + 1
=============================================================================
