------------------------------ MODULE MCPaging ------------------------------
(***************************************************************************)
(* Instances of Paging for TLC.  Page 0 (0 and 1 in MCPagingCreate) holds  *)
(* code, the heap follows, and in MCPagingShared page 2 is the bottom of   *)
(* the stack, where the shared region is mapped.                           *)
(***************************************************************************)
EXTENDS Paging, TLC

CONSTANTS p1, p2, a

TwoPids    == {p1, p2}
OneValue   == {a}
StackPages == {2}
NoPages    == {}

\* A page is 2 bytes, a word has 8 values: 1 takes one page, 3 two, 5 more
\* than the heap has, 7 overflows when it is rounded up, 9 is cut to 1.
AllRequests == {0, 1, 3, 5, 7, 9}
FewRequests == {1, 3}
NoRequests  == {}

Symmetric == Permutations(Pid)
=============================================================================
