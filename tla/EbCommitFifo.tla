---------------------------- MODULE EbCommitFifo ---------------------------
(***************************************************************************)
(* The FIFO of the Ethernet side in gateware, as the indices and the       *)
(* memory of hdl/eb_slave_core/eb_commit_fifo.vhd; eb_fifo.vhd is the same *)
(* with a commit in every period.  Indices have a bit more than addresses, *)
(* so that a full FIFO is told from an empty one.  The memory is read      *)
(* ahead: the entry at the next read index is on the output one period     *)
(* after it can be read, and a read of the cell that is written in the     *)
(* same period gives anything.                                             *)
(*                                                                         *)
(* One step is one clock period.  The writer keeps to w_full_o, the reader *)
(* to r_empty_o, and nobody commits and aborts at once (eb_eth_tx).        *)
(***************************************************************************)
EXTENDS Integers, Sequences

CONSTANTS
    Size,    \* entries, 2**c_depth
    Word     \* what w_dat_i may be

ASSUME FifoAssumption == Size \in Nat \ {0} /\ Word # {}

VARIABLES
    ram,        \* the cells of generic_simple_dpram
    r, e, w,    \* r_idx, e_idx and w_idx
    full,       \* w_full_o
    empty,      \* r_empty_o
    dat         \* r_dat_o

vars == <<ram, r, e, w, full, empty, dat>>

Index == 0 .. 2 * Size - 1
Cells == 0 .. Size - 1

(* Arithmetic of c_depth+1 bits, and the address in an index.              *)
Inc(i)     == IF i = 2 * Size - 1 THEN 0 ELSE i + 1
Cell(i)    == IF i >= Size THEN i - Size ELSE i
Ahead(i, j) == IF i >= j THEN i - j ELSE i - j + 2 * Size

(* i xor c_high                                                            *)
Turned(i)  == IF i >= Size THEN i - Size ELSE i + Size

Init ==
    /\ ram \in [Cells -> Word]
    /\ r = 0 /\ e = 0 /\ w = 0
    /\ full = FALSE /\ empty = TRUE
    /\ dat \in Word

(* r_idx1 and w_idx1                                                       *)
NextRead(pop)   == IF pop THEN Inc(r) ELSE r
NextWrite(push) == IF push THEN Inc(w) ELSE w

(* The word the memory puts out: of old, or anything when the cell is      *)
(* written in this period.                                                 *)
Shown(push, pop) ==
    dat' \in IF push /\ Cell(w) = Cell(NextRead(pop))
             THEN Word ELSE {ram[Cell(NextRead(pop))]}

Store(push, word) ==
    ram' = IF push THEN [ram EXCEPT ![Cell(w)] = word] ELSE ram

(* "Use the OLD write pointer to prevent read-during-write"                *)
SetEmpty_New(commit, push, pop) ==
    empty' = ((IF commit THEN NextWrite(push) ELSE e) = NextRead(pop))
SetEmpty(commit, push, pop) == empty' = (e = NextRead(pop))

SetFull(push, pop) == full' = (Turned(NextWrite(push)) = NextRead(pop))

(* The writer starts again at e_idx when it aborts.                        *)
Rewind_Read(abort, push) == w' = IF abort THEN r ELSE NextWrite(push)
Rewind(abort, push) == w' = IF abort THEN e ELSE NextWrite(push)

Clock(push, word, commit, abort, pop) ==
    /\ push => ~full
    /\ pop => ~empty
    /\ ~(commit /\ abort)
    /\ Store(push, word) /\ Shown(push, pop)
    /\ r' = NextRead(pop)
    /\ e' = IF commit THEN NextWrite(push) ELSE e
    /\ Rewind(abort, push)
    /\ SetFull(push, pop)
    /\ SetEmpty(commit, push, pop)

Next == \E push, commit, abort, pop \in BOOLEAN, word \in Word :
            Clock(push, word, commit, abort, pop)

Spec == Init /\ [][Next]_vars

----------------------------------------------------------------------------
(* Types.                                                                  *)
TypeOK ==
    /\ ram \in [Cells -> Word] /\ dat \in Word
    /\ {r, e, w} \subseteq Index
    /\ full \in BOOLEAN /\ empty \in BOOLEAN

(* The indices stay in order around the turn: what is committed lies       *)
(* between read and end index, what is drafted up to the write index, and  *)
(* both fit the memory.                                                    *)
IndicesInOrder == Ahead(e, r) <= Ahead(w, r) /\ Ahead(w, r) <= Size

(* "r_dat_o is valid when r_empty_o=0 (show ahead)": the output is the     *)
(* entry at the read index and that entry is committed, in spite of the    *)
(* registers between the memory and the reader.                            *)
ShowAhead == ~empty => r # e /\ dat = ram[Cell(r)]

(* The entries from one index up to another.                               *)
Forward(i, n) == IF i + n >= 2 * Size THEN i + n - 2 * Size ELSE i + n
Entries(from, to) == [k \in 1..Ahead(to, from) |-> ram[Cell(Forward(from, k - 1))]]

(* The FIFO keeps the promise of a queue of published drafts.              *)
Promise == INSTANCE CommitQueue WITH published <- Entries(r, e), draft <- Entries(e, w)
KeepsPromise == Promise!Spec
============================================================================
