------------------------------- MODULE Paging -------------------------------
(***************************************************************************)
(* The page-frame allocator (src/src/paging/paging.c).  Addresses are in   *)
(* MiB: pages and frames of 4 MiB, an address space of PAGE_ENTRY_COUNT    *)
(* of them, in which a uint32_t wraps.  The entry of a page says which     *)
(* frame it is mapped to and whether user mode may use it.                 *)
(***************************************************************************)
EXTENDS Integers

CONSTANTS
    PAGE_ENTRY_COUNT,  \* entries of the page directory (1024 in the code)
    KERNEL_PAGE,       \* the entry of the kernel's addresses (0x300 in the code)
    Allocations        \* calls made since the machine was switched on

ASSUME PageAssumption ==
    /\ PAGE_ENTRY_COUNT \in Nat
    /\ KERNEL_PAGE \in 1 .. PAGE_ENTRY_COUNT - 1
ASSUME AllocationsAssumption == Allocations \in 1 .. PAGE_ENTRY_COUNT - 1

PAGE_FRAME_SIZE == 4
Page  == 0 .. PAGE_ENTRY_COUNT - 1
Frame == 0 .. PAGE_ENTRY_COUNT - 1

VARIABLES
    page_directory,  \* _paging_kernel_page_directory.table
    next_frame,      \* last_available_physical_addr, as the number of a frame
    allocated        \* the number of calls so far

pageVars == <<page_directory, next_frame, allocated>>

Absent      == [present |-> FALSE, user |-> FALSE, frame |-> 0]
KernelEntry == [present |-> TRUE, user |-> FALSE, frame |-> 0]
UserEntry(frame) == [present |-> TRUE, user |-> TRUE, frame |-> frame]

\* Page 0 and the kernel's page are both frame 0 when the machine starts.
StartDirectory == [p \in Page |-> IF p \in {0, KERNEL_PAGE} THEN KernelEntry ELSE Absent]

PagingInit ==
    /\ page_directory = StartDirectory
    /\ next_frame = 1
    /\ allocated = 0

\* The test of the code compares the frame's address with 1 MiB, which is the
\* address of no frame: -1 is never returned.
Refused == next_frame * PAGE_FRAME_SIZE = 1

allocate_single_user_page_frame(virtual_addr) ==
    /\ ~Refused
    /\ LET page == (virtual_addr \div PAGE_FRAME_SIZE) % PAGE_ENTRY_COUNT
       IN  page_directory' = [page_directory EXCEPT ![page] = UserEntry(next_frame)]
    /\ next_frame' = (next_frame + 1) % PAGE_ENTRY_COUNT
    /\ allocated' = allocated + 1

PagingNext ==
    /\ allocated < Allocations
    /\ \E p \in Page : allocate_single_user_page_frame(p * PAGE_FRAME_SIZE)

PagingSpec == PagingInit /\ [][PagingNext]_pageVars

(***************************************************************************)
(* Properties                                                              *)
(***************************************************************************)
\* Until the addresses wrap, no two of the user's pages share a frame, and none
\* of them is the kernel's frame 0 (allocate_single_user_page_frame).
FramesApart ==
    \A p, q \in Page :
       page_directory[p].user =>
          /\ page_directory[p].frame # 0
          /\ page_directory[q].user /\ p # q
                => page_directory[p].frame # page_directory[q].frame
=============================================================================
