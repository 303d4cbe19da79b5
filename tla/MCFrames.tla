------------------------------ MODULE MCFrames ------------------------------
(* Three address spaces, so that one may fork or exec while another frees, and    *)
(* three pages: an image of two, and one that new_pages asks for. Two frames      *)
(* besides the zero page, and two forks of an image or one of the heap.           *)
EXTENDS Frames, TLC

CONSTANTS d1, d2, d3, image, heap

MCPpd == {d1, d2, d3}
MCRegion == {image, heap}
MCFirst == [r \in MCRegion |-> IF r = image THEN 1 ELSE 3]
MCLast == [r \in MCRegion |-> IF r = image THEN 2 ELSE 3]
MCEndsOnPage == {heap}
MCSymmetry == Permutations(MCPpd)
=============================================================================
