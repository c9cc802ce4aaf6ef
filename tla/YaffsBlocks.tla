------------------------------ MODULE YaffsBlocks ------------------------------
(***************************************************************************)
(* The block manager of yaffs2 (yaffs_guts.c, yaffs_yaffs2.c,              *)
(* yaffs_checkptrw.c, yaffs_summary.c): allocation of blocks and chunks,   *)
(* the write loop with its failures, deletion and soft deletion, garbage   *)
(* collection a chunk at a time, erasure and retirement of blocks, and the *)
(* blocks a checkpoint occupies.                                           *)
(*                                                                         *)
(* The callers (files, headers, directories) are the client: it owns the   *)
(* chunks it got from yaffs_write_new_chunk (`live`), replaces, deletes or *)
(* soft-deletes them.  Every entry point runs under the yaffsfs lock, so   *)
(* one call is in progress at a time; `pc` and `call` say where it stands, *)
(* `del` holds the argument of a yaffs_chunk_del or yaffs_block_became_    *)
(* dirty in progress and the place it returns to.                          *)
(*                                                                         *)
(* Abstracted: which of several eligible blocks the collector's finder and *)
(* its dirtiness thresholds pick, the pacing counters gc_skip, gc_not_done *)
(* and refresh_skip (each a nondeterministic choice), chunk contents.      *)
(* Integers are unbounded: a block has far fewer than 512 chunks, so the   *)
(* 10-bit fields of yaffs_block_info do not wrap.                          *)
(*                                                                         *)
(* A definition Name_Variant is Name with a plausible mistake in it; no    *)
(* action uses it.                                                         *)
(***************************************************************************)
EXTENDS Integers, FiniteSets

CONSTANTS
  NBlocks,            \* internal_end_block; internal_start_block is 1
  FactoryBad,         \* blocks the driver reports bad at mount
  ChunksPerBlock,     \* param.chunks_per_block
  NReserved,          \* param.n_reserved_blocks
  SummaryChunks,      \* chunks a block summary takes, 0: disable_summary
  CheckptRequired,    \* yaffs2_checkpt_required()
  CheckptBlocks,      \* checkpoint_blocks_required
  MaxCopies,          \* copies one passive yaffs_gc_block call may make (5)
  MaxStrikes,         \* chunk errors a block survives (3)
  ClientOps,          \* bound: the operations the client uses
  CheckptChunks,      \* bound: chunks in the longest checkpoint stream
  MaxHeld,            \* bound: chunks the client holds when it adds one
  MaxSeq,             \* bound: no call starts once seq_number reached
                      \*   MaxSeq[faults]
  MaxFaults           \* bound: failures of the flash in one behaviour

Blocks == 1 .. NBlocks
NoBlock == 0          \* alloc_block -1, gc_block 0, checkpt_cur_block -1
Pages == 0 .. ChunksPerBlock - 1
Chunks == Blocks \X Pages
NoChunk == <<NoBlock, 0>>

\* Summaries take the last SummaryChunks pages; data stops before them.
LastDataPage == ChunksPerBlock - SummaryChunks - 1
SummaryPages_FromLastData == LastDataPage .. ChunksPerBlock - 1
SummaryPages == LastDataPage + 1 .. ChunksPerBlock - 1

BlockStates == {"EMPTY", "ALLOCATING", "FULL", "DIRTY", "CHECKPOINT",
                "COLLECTING", "DEAD"}

ASSUME GeometryAssumption ==
  /\ NReserved \in Nat /\ NReserved >= 2
  /\ NBlocks \in Nat /\ NBlocks >= NReserved + 4
  /\ FactoryBad \subseteq Blocks
  /\ ChunksPerBlock \in Nat /\ ChunksPerBlock >= 2
  /\ SummaryChunks \in Nat /\ SummaryChunks < ChunksPerBlock
  /\ CheckptRequired \in BOOLEAN
  /\ CheckptBlocks \in Nat

ASSUME BoundsAssumption ==
  /\ MaxCopies \in Nat /\ MaxCopies > 0
  /\ MaxStrikes \in Nat
  /\ ClientOps \subseteq {"data", "header", "shrink", "delete", "soft",
                          "gc", "read", "save"}
  /\ CheckptChunks \in Nat
  /\ MaxHeld \in Nat
  /\ MaxFaults \in Nat
  /\ MaxSeq \in [0 .. MaxFaults -> Nat]

VARIABLES
  block_state,        \* block -> bi->block_state
  blk_seq,            \* block -> bi->seq_number
  pages_in_use,       \* block -> bi->pages_in_use
  soft_del_pages,     \* block -> bi->soft_del_pages
  chunk_bits,         \* the chunks whose bit is set
  has_shrink_hdr, gc_prioritise, needs_retiring, has_summary,
                      \* the blocks whose flag of that name is set
  strikes,            \* block -> bi->chunk_error_strikes
  alloc_block, alloc_page, alloc_block_finder, seq_number,
  n_free_chunks, n_erased_blocks,
  gc_block, gc_chunk, gc_dirtiest,
  pending_gc,         \* has_pending_prioritised_gc
  n_clean_ups,
  oldest_dirty,       \* oldest_dirty_seq and oldest_dirty_block
  is_checkpointed, blocks_in_checkpt,
  checkpt,            \* checkpt_open_write, _cur_block, _cur_chunk, _next_block
  pc, call, del,      \* the call in progress
  live,               \* chunks the client's tnodes and headers name
  soft,               \* chunks of soft-deleted files
  shadow,             \* <<b, y>>: when a shrink header went to b, the older
                      \*   block y held discarded chunks
  programmed,         \* the flash: chunks programmed since the last erase
  overprogrammed,     \* the flash: chunks programmed twice without an erase
  faults

usage == <<pages_in_use, chunk_bits>>
marks == <<gc_prioritise, needs_retiring, strikes, pending_gc>>
flags == <<has_shrink_hdr, has_summary>>
alloc == <<alloc_block, alloc_page, alloc_block_finder, seq_number, blk_seq>>
counts == <<n_free_chunks, n_erased_blocks>>
gc == <<gc_block, gc_chunk, gc_dirtiest, n_clean_ups>>
ckpt == <<is_checkpointed, blocks_in_checkpt, checkpt>>
client == <<live, soft, soft_del_pages, shadow>>
flash == <<programmed, overprogrammed, faults>>
vars == <<block_state, usage, marks, flags, alloc, counts, gc, oldest_dirty,
          ckpt, pc, call, del, client, flash>>

PCs == {"idle", "gc", "gcblk", "collect", "collected", "choose", "write",
        "program", "summary", "verify", "skip", "written", "finish",
        "del", "dirty", "erase", "open", "save", "close", "count"}

NoCall == [job |-> "none", tries |-> 0, copies |-> 0, ok |-> TRUE,
           ingc |-> FALSE, reserve |-> FALSE, shrink |-> FALSE,
           old |-> NoChunk, new |-> NoChunk]
NoDel == [chunk |-> NoChunk, ret |-> "idle"]
NoOldest == [seq |-> 0, block |-> NoBlock]

(***************************************************************************)
(* Mount of an erased device, the state yaffs2_scan_backwards leaves.      *)
(***************************************************************************)
Init ==
  /\ block_state = [b \in Blocks |-> IF b \in FactoryBad THEN "DEAD" ELSE "EMPTY"]
  /\ blk_seq = [b \in Blocks |-> 0]
  /\ pages_in_use = [b \in Blocks |-> 0]
  /\ soft_del_pages = [b \in Blocks |-> 0]
  /\ strikes = [b \in Blocks |-> 0]
  /\ chunk_bits = {}
  /\ has_shrink_hdr = {} /\ has_summary = {}
  /\ gc_prioritise = {} /\ needs_retiring = {} /\ pending_gc = TRUE
  /\ alloc_block = NoBlock /\ alloc_page = 0 /\ alloc_block_finder = 0
  /\ seq_number = 0
  /\ n_erased_blocks = Cardinality(Blocks \ FactoryBad)
  /\ n_free_chunks = Cardinality(Blocks \ FactoryBad) * ChunksPerBlock
  /\ gc_block = NoBlock /\ gc_chunk = 0 /\ gc_dirtiest = NoBlock
  /\ n_clean_ups = 0
  /\ oldest_dirty = NoOldest
  /\ is_checkpointed = FALSE /\ blocks_in_checkpt = 0
  /\ checkpt = [wr |-> FALSE, cur |-> NoBlock, chunk |-> 0, next |-> 0]
  /\ pc = "idle" /\ call = NoCall /\ del = NoDel
  /\ live = {} /\ soft = {} /\ shadow = {}
  /\ programmed = {} /\ overprogrammed = {} /\ faults = 0

-----------------------------------------------------------------------------
(***************************************************************************)
(* What several operations compute.                                        *)
(***************************************************************************)
Empty == {b \in Blocks : block_state[b] = "EMPTY"}

\* yaffs_calc_checkpt_blocks_required
CheckptBlocksNeeded ==
  IF CheckptRequired /\ CheckptBlocks > blocks_in_checkpt
    THEN CheckptBlocks - blocks_in_checkpt
    ELSE 0

\* yaffs_check_alloc_available(dev, 1)
AllocAvailable_NoReserve == n_free_chunks > 1
AllocAvailable ==
  n_free_chunks > (NReserved + CheckptBlocksNeeded) * ChunksPerBlock + 1

\* Blocks whose pages are not all in use by something that is kept.
UsedPages(b) == pages_in_use[b] - soft_del_pages[b]
PartlyUsed ==
  {b \in Blocks : block_state[b] = "FULL" /\ UsedPages(b) < ChunksPerBlock}

IsOldestIn(b, S) == b \in S /\ \A c \in S : blk_seq[b] <= blk_seq[c]

\* yaffs_calc_oldest_dirty_seq, yaffs2_find_oldest_dirty_seq
Oldest ==
  IF oldest_dirty.seq # 0 \/ PartlyUsed = {}
    THEN oldest_dirty
    ELSE LET b == CHOOSE c \in PartlyUsed : IsOldestIn(c, PartlyUsed)
         IN  [seq |-> blk_seq[b], block |-> b]

\* yaffs2_clear_oldest_dirty_seq
OldestCleared_Never(b) == oldest_dirty
OldestCleared(b) ==
  IF oldest_dirty.seq = blk_seq[b] THEN NoOldest ELSE oldest_dirty

\* yaffs2_update_oldest_dirty_seq
OldestUpdated(b) ==
  IF oldest_dirty.seq > blk_seq[b]
    THEN [seq |-> blk_seq[b], block |-> b]
    ELSE oldest_dirty

\* yaffs_block_ok_for_gc
OkForGc_Always(b) == TRUE
OkForGc(b) == b \in has_shrink_hdr => blk_seq[b] <= Oldest.seq

\* yaffs_handle_chunk_error, with the retirement a write error adds to it
ChunkError(b, wr_error) ==
  LET struck == b \notin gc_prioritise
      out == struck /\ strikes[b] + 1 > MaxStrikes
  IN  /\ gc_prioritise' = gc_prioritise \cup {b}
      /\ pending_gc' = (pending_gc \/ struck)
      /\ strikes' = [strikes EXCEPT ![b] = IF struck THEN @ + 1 ELSE @]
      /\ needs_retiring' =
           IF wr_error \/ out THEN needs_retiring \cup {b} ELSE needs_retiring

\* One more failure of the flash, if the bound leaves one.
Fault == faults < MaxFaults /\ faults' = faults + 1

Program(c) ==
  /\ programmed' = programmed \cup {c}
  /\ overprogrammed' =
       IF c \in programmed THEN overprogrammed \cup {c} ELSE overprogrammed

\* The checkpoint exists or some of it was written: yaffs2_checkpt_invalidate
\* has something to do.
HasCheckpt_Never == FALSE
HasCheckpt_CompleteOnly == is_checkpointed
HasCheckpt == is_checkpointed \/ blocks_in_checkpt > 0

\* Call yaffs_chunk_del on c, and go on at `to`.
CallDel(c, to) == pc' = "del" /\ del' = [chunk |-> c, ret |-> to]

\* Where the call goes when a write (of the client or of the collector) ends.
AfterWrite == IF call.ingc THEN "collect" ELSE "idle"
CallAfterWrite ==
  IF call.ingc
    THEN [call EXCEPT !.ingc = FALSE, !.reserve = FALSE, !.old = NoChunk,
                      !.new = NoChunk]
    ELSE NoCall

-----------------------------------------------------------------------------
(***************************************************************************)
(* yaffs_write_new_chunk                                                   *)
(***************************************************************************)

(***************************************************************************)
(* yaffs2_checkpt_invalidate, at the head of a write, of an erasure, of a  *)
(* retirement and of a save: every checkpoint block is erased; one that    *)
(* fails to erase (`bad`) is marked bad.                                   *)
(***************************************************************************)
Invalidate ==
  /\ pc \in {"write", "erase", "open"}
  /\ HasCheckpt
  /\ \E bad \in SUBSET {b \in Blocks : block_state[b] = "CHECKPOINT"} :
       LET erased == {b \in Blocks \ bad : block_state[b] = "CHECKPOINT"}
       IN  /\ faults + Cardinality(bad) <= MaxFaults
           /\ faults' = faults + Cardinality(bad)
           /\ block_state' = [b \in Blocks |->
                IF b \in erased THEN "EMPTY"
                ELSE IF b \in bad THEN "DEAD" ELSE block_state[b]]
           /\ n_erased_blocks' = n_erased_blocks + Cardinality(erased)
           /\ n_free_chunks' =
                n_free_chunks + Cardinality(erased) * ChunksPerBlock
           /\ programmed' = {c \in programmed : c[1] \notin erased}
           /\ overprogrammed' = {c \in overprogrammed : c[1] \notin erased}
  /\ is_checkpointed' = FALSE
  /\ blocks_in_checkpt' = 0
  /\ UNCHANGED <<usage, marks, flags, alloc, gc, oldest_dirty, checkpt, pc,
                 call, del, client>>

\* Sequence numbers grow, one for each block taken.
NextSeq_Same == seq_number
NextSeq == seq_number + 1

\* How far the finder goes to b: it starts after the block it found last.
FinderSteps(b) ==
  IF b > alloc_block_finder THEN b - alloc_block_finder
                            ELSE b - alloc_block_finder + NBlocks

(***************************************************************************)
(* yaffs_find_alloc_block: the block is taken before yaffs_alloc_chunk     *)
(* looks whether there is room for a chunk in it.                          *)
(***************************************************************************)
FindAllocBlock ==
  /\ pc = "write" /\ ~HasCheckpt
  /\ alloc_block = NoBlock
  /\ n_erased_blocks >= 1
  /\ \E b \in Empty :
       /\ \A c \in Empty : FinderSteps(b) <= FinderSteps(c)
       /\ block_state' = [block_state EXCEPT ![b] = "ALLOCATING"]
       /\ blk_seq' = [blk_seq EXCEPT ![b] = NextSeq]
       /\ alloc_block' = b
       /\ alloc_block_finder' = b
  /\ alloc_page' = 0
  /\ seq_number' = NextSeq
  /\ n_erased_blocks' = n_erased_blocks - 1
  /\ UNCHANGED <<usage, marks, flags, n_free_chunks, gc, oldest_dirty, ckpt,
                 pc, call, del, client, flash>>

\* "If the block is full set the state to full": page is the next to take.
BlockIsFull_OneMore(page) == page > ChunksPerBlock
BlockIsFull(page) == page >= ChunksPerBlock

\* yaffs_alloc_chunk when it has a block and the chunk may be taken.
AllocChunk ==
  /\ pc = "write" /\ ~HasCheckpt
  /\ alloc_block # NoBlock
  /\ call.reserve \/ AllocAvailable
  /\ chunk_bits' = chunk_bits \cup {<<alloc_block, alloc_page>>}
  /\ pages_in_use' = [pages_in_use EXCEPT ![alloc_block] = @ + 1]
  /\ n_free_chunks' = n_free_chunks - 1
  /\ alloc_page' = alloc_page + 1
  /\ IF BlockIsFull(alloc_page + 1)
       THEN /\ block_state' = [block_state EXCEPT ![alloc_block] = "FULL"]
            /\ alloc_block' = NoBlock
       ELSE UNCHANGED <<block_state, alloc_block>>
  /\ call' = [call EXCEPT !.new = <<alloc_block, alloc_page>>]
  /\ pc' = "program"
  /\ UNCHANGED <<marks, flags, alloc_block_finder, seq_number, blk_seq,
                 n_erased_blocks, gc, oldest_dirty, ckpt, del, client, flash>>

\* Where the write loop goes on when there is no chunk: it breaks off.
AfterRefusal == AfterWrite

\* yaffs_alloc_chunk returns -1 and so does yaffs_write_new_chunk: no room
\* outside the reserve, or no erased block left at all.
WriteFails ==
  /\ pc = "write" /\ ~HasCheckpt
  /\ \/ /\ alloc_block # NoBlock /\ ~call.reserve /\ ~AllocAvailable
        /\ UNCHANGED alloc_page
     \/ /\ alloc_block = NoBlock /\ n_erased_blocks < 1
        /\ alloc_page' = 0
  /\ pc' = AfterRefusal
  /\ call' = [CallAfterWrite EXCEPT !.ok = ~call.ingc]
  /\ UNCHANGED <<block_state, usage, marks, flags, alloc_block,
                 alloc_block_finder, seq_number, blk_seq, counts, gc,
                 oldest_dirty, ckpt, del, client, flash>>

\* The erased check fails: the chunk was programmed, or reading it failed.
NotErased ==
  /\ pc = "program"
  /\ \/ call.new \in programmed /\ UNCHANGED <<marks, faults>>
     \/ Fault /\ ChunkError(call.new[1], FALSE)
  /\ CallDel(call.new, "skip")
  /\ UNCHANGED <<block_state, usage, flags, alloc, counts, gc, oldest_dirty,
                 ckpt, call, client, programmed, overprogrammed>>

(***************************************************************************)
(* yaffs_wr_chunk_tags_nand: program the chunk and add its tags to the     *)
(* block's summary, which is written with the last data chunk.  Whether    *)
(* the chunk is good is seen only when it is read back.                    *)
(***************************************************************************)
ProgramChunk ==
  /\ pc = "program"
  /\ call.new \notin programmed
  /\ Program(call.new)
  /\ pc' = IF SummaryChunks > 0 /\ call.new[2] = LastDataPage
             THEN "summary" ELSE "verify"
  /\ UNCHANGED <<block_state, usage, marks, flags, alloc, counts, gc,
                 oldest_dirty, ckpt, call, del, client, faults>>

(***************************************************************************)
(* yaffs_summary_write and yaffs_skip_rest_of_block: n chunks of the       *)
(* summary are written, all of them or those before the one that fails.    *)
(***************************************************************************)
WriteSummary ==
  /\ pc = "summary"
  /\ \E n \in 0 .. SummaryChunks :
       LET b == call.new[1]
           Upto(m) == {b} \X (LastDataPage + 1 .. LastDataPage + m)
           tried == IF n < SummaryChunks THEN Upto(n + 1) ELSE Upto(n)
       IN  /\ IF n < SummaryChunks THEN Fault ELSE UNCHANGED faults
           /\ chunk_bits' = chunk_bits \cup Upto(n)
           /\ pages_in_use' = [pages_in_use EXCEPT ![b] = @ + n]
           /\ n_free_chunks' = n_free_chunks - n
           /\ has_summary' =
                IF n = SummaryChunks THEN has_summary \cup {b} ELSE has_summary
           /\ programmed' = programmed \cup tried
           /\ overprogrammed' = overprogrammed \cup (tried \cap programmed)
           /\ block_state' = [block_state EXCEPT ![b] = "FULL"]
  /\ alloc_block' = NoBlock
  /\ pc' = "verify"
  /\ UNCHANGED <<marks, has_shrink_hdr, alloc_page, alloc_block_finder,
                 seq_number, blk_seq, n_erased_blocks, gc, oldest_dirty, ckpt,
                 call, del, client>>

\* The chunk reads back as written; a corrected bit error is still an error
\* of the block.
VerifyOk ==
  /\ pc = "verify"
  /\ \/ UNCHANGED <<marks, faults>>
     \/ Fault /\ ChunkError(call.new[1], FALSE)
  /\ pc' = "written"
  /\ UNCHANGED <<block_state, usage, flags, alloc, counts, gc, oldest_dirty,
                 ckpt, call, del, client, programmed, overprogrammed>>

\* yaffs_handle_chunk_wr_error, up to its yaffs_chunk_del.
VerifyFails ==
  /\ pc = "verify"
  /\ Fault
  /\ ChunkError(call.new[1], TRUE)
  /\ CallDel(call.new, "skip")
  /\ UNCHANGED <<block_state, usage, flags, alloc, counts, gc, oldest_dirty,
                 ckpt, call, client, programmed, overprogrammed>>

\* yaffs_skip_rest_of_block after a failed attempt, and the next attempt.
SkipRestOfBlock_InPlace ==
  /\ pc = "skip"
  /\ block_state' = [block_state EXCEPT ![call.new[1]] = "ALLOCATING"]
  /\ alloc_block' = call.new[1]
  /\ alloc_page' = call.new[2]
  /\ call' = [call EXCEPT !.new = NoChunk]
  /\ pc' = "write"
  /\ UNCHANGED <<usage, marks, flags, alloc_block_finder, seq_number, blk_seq,
                 counts, gc, oldest_dirty, ckpt, del, client, flash>>
SkipRestOfBlock ==
  /\ pc = "skip"
  /\ IF alloc_block # NoBlock
       THEN block_state' = [block_state EXCEPT ![alloc_block] = "FULL"]
       ELSE UNCHANGED block_state
  /\ alloc_block' = NoBlock
  /\ call' = [call EXCEPT !.new = NoChunk]
  /\ pc' = "write"
  /\ UNCHANGED <<usage, marks, flags, alloc_page, alloc_block_finder,
                 seq_number, blk_seq, counts, gc, oldest_dirty, ckpt, del,
                 client, flash>>

(***************************************************************************)
(* The caller (yaffs_wr_data_obj, yaffs_update_oh, yaffs_gc_process_chunk) *)
(* puts the new chunk in its tnode or header and deletes the old one.      *)
(***************************************************************************)
Written ==
  /\ pc = "written"
  /\ live' = (live \ {call.old}) \cup {call.new}
  /\ IF call.old # NoChunk
       THEN CallDel(call.old, "finish")
       ELSE pc' = "finish" /\ UNCHANGED del
  /\ UNCHANGED <<block_state, usage, marks, flags, alloc, counts, gc,
                 oldest_dirty, ckpt, call, soft, soft_del_pages, shadow, flash>>

\* The chunks of discarded data still on the flash in blocks older than b.
DiscardedBefore(b) ==
  {y \in Blocks : /\ block_state[y] \in {"ALLOCATING", "FULL", "COLLECTING"}
                  /\ blk_seq[y] < blk_seq[b]
                  /\ \E p \in 0 .. LastDataPage :
                       /\ <<y, p>> \in programmed
                       /\ <<y, p>> \notin chunk_bits \/ <<y, p>> \in soft}

\* The end of the call; yaffs_update_oh marks the block a shrink header is in.
FinishWrite ==
  /\ pc = "finish"
  /\ IF call.shrink
       THEN LET b == call.new[1]
            IN  /\ has_shrink_hdr' = has_shrink_hdr \cup {b}
                /\ shadow' = shadow \cup ({b} \X DiscardedBefore(b))
       ELSE UNCHANGED <<has_shrink_hdr, shadow>>
  /\ pc' = AfterWrite
  /\ call' = CallAfterWrite
  /\ UNCHANGED <<block_state, usage, marks, has_summary, alloc, counts, gc,
                 oldest_dirty, ckpt, del, live, soft, soft_del_pages, flash>>

-----------------------------------------------------------------------------
(***************************************************************************)
(* yaffs_chunk_del, yaffs_block_became_dirty, yaffs_retire_block           *)
(***************************************************************************)

\* The block of the chunk being deleted holds no other and may be erased.
LeftDirty_CountsSoft(b) ==
  UsedPages(b) = 1 /\ b \notin has_shrink_hdr /\ block_state[b] # "ALLOCATING"
LeftDirty(b) ==
  /\ pages_in_use[b] = 1
  /\ b \notin has_shrink_hdr
  /\ block_state[b] # "ALLOCATING"

ChunkDel ==
  LET c == del.chunk
      b == c[1]
  IN  /\ pc = "del"
      /\ block_state[b] \in {"ALLOCATING", "FULL", "COLLECTING"}
      /\ oldest_dirty' = OldestUpdated(b)
      /\ n_free_chunks' = n_free_chunks + 1
      /\ chunk_bits' = chunk_bits \ {c}
      /\ pages_in_use' = [pages_in_use EXCEPT ![b] = @ - 1]
      /\ IF LeftDirty(b)
           THEN pc' = "dirty" /\ UNCHANGED del
           ELSE pc' = del.ret /\ del' = NoDel
      /\ UNCHANGED <<block_state, marks, flags, alloc, n_erased_blocks, gc,
                     ckpt, call, client, flash>>

\* yaffs_block_became_dirty, before the block is erased.
BecameDirty ==
  LET b == del.chunk[1]
  IN  /\ pc = "dirty"
      /\ oldest_dirty' = OldestCleared(b)
      /\ block_state' = [block_state EXCEPT ![b] = "DIRTY"]
      /\ gc_block' = IF gc_block = b THEN NoBlock ELSE gc_block
      /\ gc_dirtiest' = IF gc_dirtiest = b THEN NoBlock ELSE gc_dirtiest
      /\ pc' = "erase"
      /\ UNCHANGED <<usage, marks, flags, alloc, counts, gc_chunk, n_clean_ups,
                     ckpt, call, del, client, flash>>

\* "If the block is still healthy erase it and mark as clean."
Healthy_Always(b) == TRUE
Healthy(b) == b \notin needs_retiring

EraseOk ==
  LET b == del.chunk[1]
  IN  /\ pc = "erase" /\ ~HasCheckpt
      /\ Healthy(b)
      /\ block_state' = [block_state EXCEPT ![b] = "EMPTY"]
      /\ blk_seq' = [blk_seq EXCEPT ![b] = 0]
      /\ n_erased_blocks' = n_erased_blocks + 1
      /\ pages_in_use' = [pages_in_use EXCEPT ![b] = 0]
      /\ soft_del_pages' = [soft_del_pages EXCEPT ![b] = 0]
      /\ has_shrink_hdr' = has_shrink_hdr \ {b}
      /\ has_summary' = has_summary \ {b}
      /\ gc_prioritise' = gc_prioritise \ {b}
      /\ chunk_bits' = {c \in chunk_bits : c[1] # b}
      /\ programmed' = {c \in programmed : c[1] # b}
      /\ overprogrammed' = {c \in overprogrammed : c[1] # b}
      /\ shadow' = {s \in shadow : b \notin {s[1], s[2]}}
      /\ pc' = del.ret
      /\ del' = NoDel
      /\ UNCHANGED <<needs_retiring, strikes, pending_gc, alloc_block,
                     alloc_page, alloc_block_finder, seq_number,
                     n_free_chunks, gc, oldest_dirty, ckpt, call, live, soft,
                     faults>>

\* "We lost a block of free space."
FreeAfterRetiring_Same == n_free_chunks
FreeAfterRetiring == n_free_chunks - ChunksPerBlock

\* The block is to be retired, or could not be erased.
RetireBlock ==
  LET b == del.chunk[1]
  IN  /\ pc = "erase" /\ ~HasCheckpt
      /\ IF Healthy(b) THEN Fault ELSE UNCHANGED faults
      /\ n_free_chunks' = FreeAfterRetiring
      /\ oldest_dirty' = OldestCleared(b)
      /\ block_state' = [block_state EXCEPT ![b] = "DEAD"]
      /\ gc_prioritise' = gc_prioritise \ {b}
      /\ needs_retiring' = needs_retiring \ {b}
      /\ shadow' = {s \in shadow : b \notin {s[1], s[2]}}
      /\ pc' = del.ret
      /\ del' = NoDel
      /\ UNCHANGED <<usage, flags, strikes, pending_gc, alloc, n_erased_blocks,
                     gc, ckpt, call, live, soft, soft_del_pages, programmed,
                     overprogrammed>>

-----------------------------------------------------------------------------
(***************************************************************************)
(* yaffs_check_gc, yaffs_find_gc_block, yaffs_gc_block                     *)
(***************************************************************************)

\* "If we need a block soon then do aggressive gc."
Aggressive_Never == FALSE
Aggressive == n_erased_blocks < NReserved + CheckptBlocksNeeded + 1
ErasedChunks == n_erased_blocks * ChunksPerBlock

\* A write begins with yaffs_check_gc(dev, 0); yaffs_bg_gc is
\* yaffs_check_gc(dev, 1).
BeginCall(job) ==
  /\ pc = "idle"
  /\ seq_number < MaxSeq[faults]
  /\ pc' = "gc"
  /\ call' = [NoCall EXCEPT !.job = job]
  /\ UNCHANGED <<block_state, usage, marks, flags, alloc, counts, gc,
                 oldest_dirty, ckpt, del, client, flash>>

BeginWrite == ClientOps \cap {"data", "header", "shrink"} # {} /\ BeginCall("write")
BgGc == "gc" \in ClientOps /\ BeginCall("bg")

\* yaffs_check_gc returns; the client goes on with its write.
EndGc ==
  IF call.job = "write" THEN pc' = "choose" /\ call' = NoCall
                        ELSE pc' = "idle" /\ call' = NoCall

\* Enough erased blocks: no collection now.
SkipGc ==
  /\ pc = "gc"
  /\ ~Aggressive /\ call.job = "write"
  /\ ErasedChunks > n_free_chunks \div 4
  /\ EndGc
  /\ UNCHANGED <<block_state, usage, marks, flags, alloc, counts, gc,
                 oldest_dirty, ckpt, del, client, flash>>

\* yaffs_check_gc has decided to collect.
Collecting ==
  /\ pc = "gc"
  /\ Aggressive \/ call.job = "bg" \/ ErasedChunks <= n_free_chunks \div 4

\* yaffs_gc_block is called on b.
GcBlockCalled(b) ==
  /\ gc_block' = b
  /\ pc' = "gcblk"
  /\ call' = [call EXCEPT !.tries = @ + 1]
  /\ UNCHANGED <<block_state, usage, flags, alloc, counts, ckpt, del, client,
                 flash>>

\* ... for the first time, after yaffs_find_gc_block has selected it.
GcSelected_CursorKept(b) ==
  /\ UNCHANGED gc_chunk
  /\ n_clean_ups' = 0
  /\ gc_dirtiest' = NoBlock
  /\ GcBlockCalled(b)
GcSelected(b) ==
  /\ gc_chunk' = 0
  /\ n_clean_ups' = 0
  /\ gc_dirtiest' = NoBlock
  /\ GcBlockCalled(b)

ResumeGc ==
  /\ Collecting
  /\ gc_block # NoBlock
  /\ GcBlockCalled(gc_block)
  /\ UNCHANGED <<marks, gc_chunk, gc_dirtiest, n_clean_ups, oldest_dirty>>

\* yaffs2_find_refresh_block: the oldest full block, whatever its flags.
RefreshSelect ==
  /\ Collecting /\ ~Aggressive
  /\ gc_block = NoBlock
  /\ \E b \in Blocks :
       /\ IsOldestIn(b, {c \in Blocks : block_state[c] = "FULL"})
       /\ GcBlockCalled(b)
  /\ gc_chunk' = 0
  /\ n_clean_ups' = 0
  /\ UNCHANGED <<marks, gc_dirtiest, oldest_dirty>>

\* yaffs_find_gc_block.  A prioritised block is looked for first.
Searching == Collecting /\ gc_block = NoBlock
SeeksPrioritised == pending_gc /\ ~Aggressive
Prioritised ==
  {b \in gc_prioritise : block_state[b] = "FULL" /\ OkForGc(b)}

\* The oldest dirty block is computed when a block with a shrink header is
\* looked at.
OldestMayBeFound == oldest_dirty' \in {oldest_dirty, Oldest}

PrioritisedSelect ==
  /\ Searching /\ SeeksPrioritised
  /\ OldestMayBeFound
  /\ \E b \in Prioritised :
       /\ b \in has_shrink_hdr => oldest_dirty' = Oldest
       /\ GcSelected(b)
  /\ UNCHANGED marks

\* Prioritised blocks exist and none may be collected: "Let's gc the oldest
\* dirty block."
OldestForPrioritised ==
  /\ Searching /\ SeeksPrioritised
  /\ Prioritised = {} /\ gc_prioritise # {}
  /\ OldestMayBeFound
  /\ oldest_dirty'.block # NoBlock
  /\ GcSelected(oldest_dirty'.block)
  /\ UNCHANGED marks

\* No prioritised block is selected; the flag is cleared when there is none.
NoPrioritised ==
  /\ SeeksPrioritised =>
       Prioritised = {} /\ (gc_prioritise = {} \/ oldest_dirty'.block = NoBlock)
  /\ pending_gc' = (pending_gc /\ (Aggressive \/ gc_prioritise # {}))
  /\ UNCHANGED <<gc_prioritise, needs_retiring, strikes>>

\* The dirtiest block found so far, kept from one call to the next without
\* looking at it again.  An aggressive search looks at every block.
Candidates == {b \in PartlyUsed : OkForGc(b)}
IsDirtiest(d) ==
  LET known == IF SeeksPrioritised THEN NoBlock ELSE gc_dirtiest
  IN  /\ d \in {known} \cup Candidates
      /\ d = NoBlock => known = NoBlock /\ (Aggressive => Candidates = {})
      /\ OldestMayBeFound
      /\ d \in Candidates \cap has_shrink_hdr /\ d # known => oldest_dirty' = Oldest

DirtiestSelect ==
  /\ Searching
  /\ \E d \in Blocks : IsDirtiest(d) /\ GcSelected(d)
  /\ NoPrioritised

\* "If nothing has been selected for a while, try the oldest dirty because
\* that's gumming up the works."
OldestSelect ==
  /\ Searching
  /\ Aggressive => gc_dirtiest = NoBlock /\ Candidates = {}
  /\ oldest_dirty' = Oldest
  /\ oldest_dirty'.block # NoBlock
  /\ GcSelected(oldest_dirty'.block)
  /\ NoPrioritised

SelectNone ==
  /\ Searching
  /\ \E d \in Blocks \cup {NoBlock} :
       /\ IsDirtiest(d)
       /\ Aggressive => d = NoBlock
       /\ gc_dirtiest' = d
  /\ NoPrioritised
  /\ gc_chunk' = 0 /\ n_clean_ups' = 0
  /\ EndGc
  /\ UNCHANGED <<block_state, usage, flags, alloc, counts, gc_block, ckpt, del,
                 client, flash>>

(***************************************************************************)
(* yaffs_gc_block, up to its loop.  A block with a summary gives its       *)
(* chunks up first (yaffs_summary_gc).                                     *)
(***************************************************************************)
GcBlockStart ==
  LET b == gc_block
      dropped == IF b \in has_summary
                   THEN chunk_bits \cap ({b} \X SummaryPages) ELSE {}
      left == {c \in chunk_bits \ dropped : c[1] = b}
  IN  /\ pc = "gcblk"
      /\ block_state' = [block_state EXCEPT ![b] = "COLLECTING"]
      /\ has_shrink_hdr' = has_shrink_hdr \ {b}
      /\ chunk_bits' = chunk_bits \ dropped
      /\ pages_in_use' = [pages_in_use EXCEPT ![b] = @ - Cardinality(dropped)]
      /\ n_free_chunks' = n_free_chunks + Cardinality(dropped)
      /\ IF left = {}
           THEN /\ pc' = "dirty"
                /\ del' = [chunk |-> <<b, 0>>, ret |-> "collected"]
                /\ UNCHANGED call
           ELSE /\ pc' = "collect"
                /\ call' = [call EXCEPT
                     !.ok = TRUE,
                     !.copies = IF Aggressive THEN ChunksPerBlock ELSE MaxCopies]
                /\ UNCHANGED del
      /\ UNCHANGED <<marks, has_summary, alloc, n_erased_blocks, gc,
                     oldest_dirty, ckpt, client, flash>>

(***************************************************************************)
(* The loop of yaffs_gc_block.  The cursor gc_chunk moves on as soon as    *)
(* the chunk is looked at, not when its copy is done: the code increments  *)
(* it at the end of the turn, also of one that failed, and reads it        *)
(* nowhere in between.                                                     *)
(***************************************************************************)
CollectLoops ==
  pc = "collect" /\ gc_block # NoBlock /\ call.ok /\ call.copies > 0

LeftToCollect == {p \in Pages : p >= gc_chunk /\ <<gc_block, p>> \in chunk_bits}

\* The next chunk in use; gc_chunk passes the others.
CollectNext(p) ==
  /\ CollectLoops
  /\ p \in LeftToCollect /\ \A q \in LeftToCollect : p <= q
  /\ gc_chunk' = p + 1

\* "Free chunks already includes softdeleted chunks": the yaffs_chunk_del that
\* follows counts the chunk again.
FreeBeforeSoftDel == n_free_chunks - 1
SoftDelPagesLess_Same(b) == soft_del_pages
SoftDelPagesLess(b) == [soft_del_pages EXCEPT ![b] = @ - 1]

\* A chunk of a soft-deleted file is dropped; with its last one, the file is
\* to be cleaned up.
CollectSoft ==
  /\ \E p \in Pages :
       LET c == <<gc_block, p>>
       IN  /\ CollectNext(p)
           /\ c \in soft
           /\ soft' = soft \ {c}
           /\ CallDel(c, "collect")
  /\ n_free_chunks' = FreeBeforeSoftDel
  /\ soft_del_pages' = SoftDelPagesLess(gc_block)
  /\ n_clean_ups' \in {n_clean_ups, n_clean_ups + 1}
  /\ call' = [call EXCEPT !.copies = @ - 1]
  /\ UNCHANGED <<block_state, usage, marks, flags, alloc, n_erased_blocks,
                 gc_block, gc_dirtiest, oldest_dirty, ckpt, live, shadow, flash>>

\* A chunk that has no object: what a summary that failed left behind.
CollectOrphan ==
  /\ \E p \in Pages :
       /\ CollectNext(p)
       /\ <<gc_block, p>> \notin live \cup soft
       /\ CallDel(<<gc_block, p>>, "collect")
  /\ call' = [call EXCEPT !.copies = @ - 1]
  /\ UNCHANGED <<block_state, usage, marks, flags, alloc, counts, gc_block,
                 gc_dirtiest, n_clean_ups, oldest_dirty, ckpt, client, flash>>

\* A chunk in use is written again, from the reserve if need be.
CollectCopy ==
  /\ \E p \in Pages :
       LET c == <<gc_block, p>>
       IN  /\ CollectNext(p)
           /\ c \in live
           /\ call' = [call EXCEPT !.copies = @ - 1, !.ingc = TRUE,
                                   !.reserve = TRUE, !.old = c]
  /\ pc' = "write"
  /\ UNCHANGED <<block_state, usage, marks, flags, alloc, counts, gc_block,
                 gc_dirtiest, n_clean_ups, oldest_dirty, ckpt, del, client,
                 flash>>

CollectEnd ==
  /\ pc = "collect"
  /\ CollectLoops => LeftToCollect = {}
  /\ gc_chunk' = IF CollectLoops THEN ChunksPerBlock ELSE gc_chunk
  /\ pc' = "collected"
  /\ UNCHANGED <<block_state, usage, marks, flags, alloc, counts, gc_block,
                 gc_dirtiest, n_clean_ups, oldest_dirty, ckpt, call, del,
                 client, flash>>

\* yaffs_check_gc tries a second time when erased blocks are still short and
\* the collection of the block is not done.
NextTry(unfinished) ==
  IF unfinished /\ n_erased_blocks < NReserved /\ call.tries < 2
    THEN pc' = "gc" /\ UNCHANGED call
    ELSE EndGc

\* "The gc did not complete. Set block state back to FULL."
CollectedSome ==
  /\ pc = "collected"
  /\ gc_block # NoBlock
  /\ block_state' = [block_state EXCEPT ![gc_block] = "FULL"]
  /\ NextTry(TRUE)
  /\ UNCHANGED <<usage, marks, flags, alloc, counts, gc, oldest_dirty, ckpt,
                 del, client, flash>>

\* The block is erased; a file whose last chunk went is finally deleted, and
\* the chunk of its header with it (yaffs_generic_obj_del, of a file already
\* in del_dir: no header is written first).
CleanUp ==
  /\ pc = "collected"
  /\ gc_block = NoBlock /\ n_clean_ups > 0
  /\ n_clean_ups' = n_clean_ups - 1
  /\ \/ \E h \in live : live' = live \ {h} /\ CallDel(h, "collected")
     \/ UNCHANGED <<live, pc, del>>
  /\ UNCHANGED <<block_state, usage, marks, flags, alloc, counts, gc_block,
                 gc_chunk, gc_dirtiest, oldest_dirty, ckpt, call, soft,
                 soft_del_pages, shadow, flash>>

CollectedAll ==
  /\ pc = "collected"
  /\ gc_block = NoBlock /\ n_clean_ups = 0
  /\ gc_chunk' = 0
  /\ NextTry(FALSE)
  /\ UNCHANGED <<block_state, usage, marks, flags, alloc, counts, gc_block,
                 gc_dirtiest, n_clean_ups, oldest_dirty, ckpt, del, client,
                 flash>>

-----------------------------------------------------------------------------
(***************************************************************************)
(* The client                                                              *)
(***************************************************************************)

\* The old chunk is looked up after the collection, which may have moved it.
StartWrite(old, reserve, shrink) ==
  /\ pc = "choose"
  /\ call' = [NoCall EXCEPT !.job = "write", !.old = old, !.reserve = reserve,
                            !.shrink = shrink]
  /\ pc' = "write"
  /\ UNCHANGED <<block_state, usage, marks, flags, alloc, counts, gc,
                 oldest_dirty, ckpt, del, client, flash>>

\* What a write replaces, if anything.
Replaced ==
  IF Cardinality(live \cup soft) < MaxHeld \/ live = {}
    THEN live \cup {NoChunk} ELSE live

\* yaffs_wr_data_obj: a chunk of a file, new or in place of an older one.
StartData ==
  /\ "data" \in ClientOps
  /\ \E old \in Replaced : StartWrite(old, FALSE, FALSE)

\* yaffs_update_oh: a header that replaces one may use the reserve, one for a
\* new object may not.  The last chunk of a file cut short is rewritten from
\* the reserve too (yaffs_resize_file_down).
StartHeader ==
  /\ "header" \in ClientOps
  /\ \E old \in Replaced : StartWrite(old, old # NoChunk, FALSE)

\* yaffs_update_oh with is_shrink: a file gets a hole at its old end
\* (yaffs2_handle_hole), or an object is deleted (yaffs_change_obj_name).
StartShrink ==
  /\ "shrink" \in ClientOps
  /\ \E old \in live : StartWrite(old, TRUE, TRUE)

\* A chunk is deleted: a truncation, a hard deletion, an unlinked header.
DeleteChunk ==
  /\ pc = "idle" /\ "delete" \in ClientOps
  /\ \E c \in live : live' = live \ {c} /\ CallDel(c, "idle")
  /\ UNCHANGED <<block_state, usage, marks, flags, alloc, counts, gc,
                 oldest_dirty, ckpt, call, soft, soft_del_pages, shadow, flash>>

\* yaffs_soft_del_chunk.  yaffs_del_file truncates the file before, so that
\* this happens to data chunks that survive the truncation: those whose tags
\* yaffs_find_del_file_chunk could not match in a chunk group.
SoftDelChunk ==
  /\ pc = "idle" /\ "soft" \in ClientOps
  /\ \E c \in live :
       /\ live' = live \ {c}
       /\ soft' = soft \cup {c}
       /\ soft_del_pages' = [soft_del_pages EXCEPT ![c[1]] = @ + 1]
       /\ oldest_dirty' = OldestUpdated(c[1])
  /\ n_free_chunks' = n_free_chunks + 1
  /\ UNCHANGED <<block_state, usage, marks, flags, alloc, n_erased_blocks, gc,
                 ckpt, pc, call, del, shadow, flash>>

\* yaffs_rd_chunk_tags_nand meets an ECC error, corrected or not.
ReadError ==
  /\ pc = "idle" /\ "read" \in ClientOps
  /\ Fault
  /\ \E c \in live : ChunkError(c[1], FALSE)
  /\ UNCHANGED <<block_state, usage, flags, alloc, counts, gc, oldest_dirty,
                 ckpt, pc, call, del, client, programmed, overprogrammed>>

-----------------------------------------------------------------------------
(***************************************************************************)
(* yaffs_checkpoint_save: the blocks the checkpoint stream takes.          *)
(***************************************************************************)
SaveCheckpt ==
  /\ pc = "idle" /\ "save" \in ClientOps
  /\ ~is_checkpointed
  /\ pc' = "open"
  /\ call' = [NoCall EXCEPT !.job = "save"]
  /\ UNCHANGED <<block_state, usage, marks, flags, alloc, counts, gc,
                 oldest_dirty, ckpt, del, client, flash>>

\* A stream opened for writing starts before the first block.
FreshStream_Continued == [checkpt EXCEPT !.wr = TRUE, !.next = 1]
FreshStream == [wr |-> TRUE, cur |-> NoBlock, chunk |-> 0, next |-> 1]

\* yaffs2_checkpt_open.  Without room (yaffs2_checkpt_space_ok) the stream is
\* marked open for writing, but its block and chunk stay those of the last one.
OpenStream ==
  /\ pc = "open" /\ ~HasCheckpt
  /\ IF CheckptRequired /\ n_erased_blocks > NReserved
       THEN /\ pc' = "save"
            /\ checkpt' = FreshStream
            /\ UNCHANGED call
       ELSE /\ pc' = "close"
            /\ checkpt' = [checkpt EXCEPT !.wr = @ \/ CheckptRequired]
            /\ call' = [call EXCEPT !.ok = FALSE]
  /\ UNCHANGED <<block_state, usage, marks, flags, alloc, counts, gc,
                 oldest_dirty, is_checkpointed, blocks_in_checkpt, del, client,
                 flash>>

\* yaffs2_checkpt_find_erased_block: the next erased block, none when only the
\* reserve is left or the stream has seen the last block.
NextCheckptBlock ==
  LET ahead == {b \in Empty : b >= checkpt.next}
  IN  IF n_erased_blocks > NReserved /\ checkpt.next # NoBlock /\ ahead # {}
        THEN CHOOSE b \in ahead : \A c \in ahead : b <= c
        ELSE NoBlock

\* yaffs2_checkpt_flush_buffer where a block is at hand, and where none is.
FlushesTo(b, page) ==
  /\ Program(<<b, page>>)
  /\ IF page = 0
       THEN /\ block_state' = [block_state EXCEPT ![b] = "CHECKPOINT"]
            /\ blocks_in_checkpt' = blocks_in_checkpt + 1
       ELSE UNCHANGED <<block_state, blocks_in_checkpt>>
  /\ checkpt' = [checkpt EXCEPT
       !.cur = IF page + 1 < ChunksPerBlock THEN b ELSE NoBlock,
       !.chunk = IF page + 1 < ChunksPerBlock THEN page + 1 ELSE 0,
       !.next = IF checkpt.cur = NoBlock THEN b + 1 ELSE @]
FlushOk ==
  IF checkpt.cur # NoBlock
    THEN FlushesTo(checkpt.cur, checkpt.chunk)
    ELSE NextCheckptBlock # NoBlock /\ FlushesTo(NextCheckptBlock, 0)
FlushFails ==
  /\ checkpt.cur = NoBlock /\ NextCheckptBlock = NoBlock
  /\ checkpt' = [checkpt EXCEPT !.chunk = 0, !.next = NoBlock]
  /\ UNCHANGED <<block_state, blocks_in_checkpt, programmed, overprogrammed>>

\* A buffer fills up and is flushed; the stream ends where that fails.
WriteStream ==
  /\ pc = "save"
  /\ call.copies < CheckptChunks
  /\ \/ FlushOk /\ call' = [call EXCEPT !.copies = @ + 1] /\ UNCHANGED pc
     \/ FlushFails /\ call' = [call EXCEPT !.ok = FALSE] /\ pc' = "close"
  /\ UNCHANGED <<usage, marks, flags, alloc, counts, gc, oldest_dirty,
                 is_checkpointed, del, client, faults>>

\* All of it is written.
EndStream ==
  /\ pc = "save"
  /\ pc' = "close"
  /\ UNCHANGED <<block_state, usage, marks, flags, alloc, counts, gc,
                 oldest_dirty, ckpt, call, del, client, flash>>

\* yaffs_checkpt_close flushes what is left in the buffer; its test of
\* checkpt_byte_offs compares with the size of a size and holds always.
CloseStream ==
  /\ pc = "close"
  /\ IF checkpt.wr
       THEN FlushOk \/ FlushFails
       ELSE UNCHANGED <<block_state, blocks_in_checkpt, checkpt, programmed,
                        overprogrammed>>
  /\ pc' = "count"
  /\ UNCHANGED <<usage, marks, flags, alloc, counts, gc, oldest_dirty,
                 is_checkpointed, call, del, client, faults>>

\* ... takes the blocks out of the counts; yaffs2_wr_checkpt_data returns.
CountCheckpt ==
  /\ pc = "count"
  /\ n_free_chunks' = n_free_chunks - blocks_in_checkpt * ChunksPerBlock
  /\ n_erased_blocks' = n_erased_blocks - blocks_in_checkpt
  /\ is_checkpointed' = call.ok
  /\ pc' = "idle"
  /\ call' = NoCall
  /\ UNCHANGED <<block_state, usage, marks, flags, alloc, gc, oldest_dirty,
                 blocks_in_checkpt, checkpt, del, client, flash>>

-----------------------------------------------------------------------------
WriteStep ==
  \/ Invalidate \/ FindAllocBlock \/ AllocChunk \/ WriteFails \/ NotErased
  \/ ProgramChunk \/ WriteSummary \/ VerifyOk \/ VerifyFails
  \/ SkipRestOfBlock \/ Written \/ FinishWrite

DelStep == ChunkDel \/ BecameDirty \/ EraseOk \/ RetireBlock

GcStep ==
  \/ SkipGc \/ ResumeGc \/ RefreshSelect \/ PrioritisedSelect
  \/ OldestForPrioritised \/ DirtiestSelect \/ OldestSelect \/ SelectNone
  \/ GcBlockStart \/ CollectSoft \/ CollectOrphan \/ CollectCopy \/ CollectEnd
  \/ CollectedSome \/ CleanUp \/ CollectedAll

SaveStep == OpenStream \/ WriteStream \/ EndStream \/ CloseStream \/ CountCheckpt

StartStep == StartData \/ StartHeader \/ StartShrink

\* The steps of a call in progress, and those that begin one.
Step == WriteStep \/ DelStep \/ GcStep \/ SaveStep \/ StartStep
Begin == BeginWrite \/ BgGc \/ DeleteChunk \/ SoftDelChunk \/ ReadError
           \/ SaveCheckpt

\* The bound is reached: the client stops.
Rest == pc = "idle" /\ seq_number >= MaxSeq[faults] /\ UNCHANGED vars

Next == Step \/ Begin \/ Rest

Spec == Init /\ [][Next]_vars

\* A call that began runs on: the thread that holds the lock is not stopped.
FairSpec == Spec /\ WF_vars(Step)

-----------------------------------------------------------------------------
(***************************************************************************)
(* Properties                                                              *)
(***************************************************************************)

BlocksTypeOK ==
  /\ block_state \in [Blocks -> BlockStates]
  /\ pages_in_use \in [Blocks -> Int]
  /\ chunk_bits \subseteq Chunks
  /\ has_shrink_hdr \subseteq Blocks
  /\ has_summary \subseteq Blocks

MarksTypeOK ==
  /\ gc_prioritise \subseteq Blocks
  /\ needs_retiring \subseteq Blocks
  /\ strikes \in [Blocks -> Nat]
  /\ pending_gc \in BOOLEAN

AllocTypeOK ==
  /\ blk_seq \in [Blocks -> Nat]
  /\ alloc_block \in Blocks \cup {NoBlock}
  /\ alloc_page \in Nat
  /\ alloc_block_finder \in Blocks \cup {NoBlock}
  /\ seq_number \in Nat

CountsTypeOK ==
  /\ n_free_chunks \in Int
  /\ n_erased_blocks \in Int

GcTypeOK ==
  /\ gc_block \in Blocks \cup {NoBlock}
  /\ gc_chunk \in 0 .. ChunksPerBlock
  /\ gc_dirtiest \in Blocks \cup {NoBlock}
  /\ n_clean_ups \in Nat
  /\ oldest_dirty \in [seq : Nat, block : Blocks \cup {NoBlock}]

CkptTypeOK ==
  /\ is_checkpointed \in BOOLEAN
  /\ blocks_in_checkpt \in Nat
  /\ checkpt \in [wr : BOOLEAN, cur : Blocks \cup {NoBlock}, chunk : Pages,
                  next : 0 .. NBlocks + 1]

CallTypeOK ==
  /\ pc \in PCs
  /\ call \in [job : {"none", "write", "bg", "save"}, tries : Nat,
               copies : Nat, ok : BOOLEAN, ingc : BOOLEAN, reserve : BOOLEAN,
               shrink : BOOLEAN, old : Chunks \cup {NoChunk},
               new : Chunks \cup {NoChunk}]
  /\ del \in [chunk : Chunks \cup {NoChunk},
              ret : {"idle", "skip", "finish", "collect", "collected"}]

ClientTypeOK ==
  /\ live \subseteq Chunks
  /\ soft \subseteq Chunks
  /\ soft_del_pages \in [Blocks -> Int]
  /\ shadow \subseteq Blocks \X Blocks

FlashTypeOK ==
  /\ programmed \subseteq Chunks
  /\ overprogrammed \subseteq Chunks
  /\ faults \in Nat

\* The fields of yaffs_dev and yaffs_block_info hold what they can: the block
\* of every cursor exists, and a chunk that is allocated, programmed or deleted
\* lies in one.
TypeOK ==
  /\ BlocksTypeOK
  /\ MarksTypeOK
  /\ AllocTypeOK
  /\ CountsTypeOK
  /\ GcTypeOK
  /\ CkptTypeOK
  /\ CallTypeOK
  /\ ClientTypeOK
  /\ FlashTypeOK

\* Between the first block of a checkpoint and the end of the save, its blocks
\* are still in the counts of free chunks and erased blocks.
Uncounted == IF pc \in {"save", "close", "count"} THEN blocks_in_checkpt ELSE 0

ChunksOf(b, S) == {c \in S : c[1] = b}
FreeChunks ==
  {c \in Chunks :
     /\ block_state[c[1]] \in {"EMPTY", "ALLOCATING", "FULL", "COLLECTING", "DIRTY"}
     /\ c \notin chunk_bits \/ c \in soft}

\* n_free_chunks, which every decision about space reads, is what
\* yaffs_count_free_chunks would count, across failed writes, summaries, soft
\* deletions collected later, retired blocks and checkpoints.
FreeChunksExact ==
  n_free_chunks = Cardinality(FreeChunks) + Uncounted * ChunksPerBlock

\* yaffs_verify_blocks: "Erased block count wrong", "Checkpoint block count
\* wrong".
ErasedBlocksExact ==
  /\ n_erased_blocks = Cardinality(Empty) + Uncounted
  /\ blocks_in_checkpt =
       Cardinality({b \in Blocks : block_state[b] = "CHECKPOINT"})

\* yaffs_verify_blk: pages_in_use is the number of bits of the block, and
\* soft_del_pages counts those of soft-deleted files.
PageCountsExact ==
  \A b \in Blocks :
    /\ pages_in_use[b] = Cardinality(ChunksOf(b, chunk_bits))
    /\ soft_del_pages[b] = Cardinality(ChunksOf(b, soft))

\* What the client or a soft-deleted file holds is programmed, has its bit and
\* lies in a block that is not about to be erased.
LiveChunksKept ==
  /\ live \cup soft \subseteq chunk_bits \cap programmed
  /\ live \cap soft = {}
  /\ \A c \in live \cup soft :
       block_state[c[1]] \in {"ALLOCATING", "FULL", "COLLECTING"}

\* The log is in order: blocks in use have different sequence numbers, the
\* block being filled the highest, and it is the only one (yaffs_verify_blocks:
\* "Too many allocating blocks"); at most one block is being collected.
LogInOrder ==
  LET used == {b \in Blocks : block_state[b] \in {"ALLOCATING", "FULL",
                                                  "COLLECTING", "DIRTY"}}
  IN  /\ \A b, c \in used : blk_seq[b] = blk_seq[c] => b = c
      /\ \A b \in used : blk_seq[b] \in 1 .. seq_number
      /\ \A b \in Blocks : block_state[b] = "ALLOCATING" <=> b = alloc_block
      /\ alloc_block # NoBlock => blk_seq[alloc_block] = seq_number
      /\ \A b \in Blocks : block_state[b] = "COLLECTING" => b = gc_block

\* NAND: no chunk is programmed twice between two erasures of its block, and
\* no chunk of an erased block is programmed.
PagesWrittenOnce ==
  /\ overprogrammed = {}
  /\ \A c \in programmed : block_state[c[1]] # "EMPTY"

\* A shrink header keeps data discarded before it from coming back in a scan:
\* its block is not erased while an older block still holds such data
\* (yaffs_block_ok_for_gc, has_shrink_hdr in yaffs_chunk_del).
ShrinkHeaderOutlives ==
  pc = "erase" => \A s \in shadow : s[1] # del.chunk[1]

\* The tracked oldest dirty sequence number is not above that of any block
\* with discarded data ("Update the oldest dirty sequence number whenever we
\* dirty a block"), and its block is a full one, fit for collection.
OldestDirtyTracked ==
  oldest_dirty.seq # 0 =>
    /\ block_state[oldest_dirty.block] \in {"FULL", "COLLECTING"}
    /\ blk_seq[oldest_dirty.block] = oldest_dirty.seq
    /\ \A b \in Blocks :
         /\ block_state[b] \in {"FULL", "COLLECTING", "ALLOCATING"}
         /\ \E p \in 0 .. LastDataPage :
              /\ <<b, p>> \in programmed
              /\ <<b, p>> \notin chunk_bits \/ <<b, p>> \in soft
         => oldest_dirty.seq <= blk_seq[b]

\* A collection that is continued later has left nothing behind its cursor, so
\* that it can end with the block erased.
CollectionLeavesNothing ==
  pc = "idle" /\ gc_block # NoBlock =>
    /\ block_state[gc_block] = "FULL"
    /\ \A p \in Pages : p < gc_chunk => <<gc_block, p>> \notin chunk_bits

\* A copy of the collector or a new version of a header does not meet a flash
\* without an erased block.
ReserveAtHand ==
  ~(pc = "write" /\ ~HasCheckpt /\ call.reserve /\ alloc_block = NoBlock /\ n_erased_blocks < 1)

\* The reserved blocks are enough: until the flash fails for the first time, a
\* copy of the collector and a new version of a header always find a chunk.
ReserveSuffices == faults = 0 => ReserveAtHand

\* Data and new headers leave the reserve alone: between calls, the reserved
\* blocks' worth of chunks is free (yaffs_check_alloc_available).  So it is on
\* a device that writes no block summaries (SummaryChunks = 0; the VxWorks port
\* leaves them on), until the flash fails for the first time: a summary takes
\* chunks nobody asked room for, and a block that is lost takes its chunks.
ReserveKept ==
  pc = "idle" /\ faults = 0 => n_free_chunks >= NReserved * ChunksPerBlock

\* A block that is to be retired takes no more chunks once it is full, and is
\* never allocated or used for a checkpoint again.
RetiringNotReused ==
  [][\A b \in needs_retiring :
       block_state'[b] \in {"ALLOCATING", "EMPTY", "CHECKPOINT"} =>
         block_state[b] = block_state'[b]]_vars

\* A complete checkpoint describes the flash: nothing is programmed or erased
\* before it is invalidated.
CheckptDescribesFlash ==
  [][is_checkpointed /\ is_checkpointed' => programmed' = programmed]_vars

\* write_new_chunk: "if the block has been prioritised for gc, then we think
\* there might be something odd about this block and stop using it".
PrioritisedNotUsed ==
  [][\A b \in gc_prioritise :
       ChunksOf(b, programmed') \subseteq ChunksOf(b, programmed)]_vars

\* gc_process_chunk, of a soft-deleted file without chunks: "remeber to clean
\* up obj"; the cleanup is forgotten only when it is done.
CleanUpsRemembered ==
  [][n_clean_ups' < n_clean_ups => pc = "collected"]_vars

\* Every call returns: the write loop of yaffs_write_new_chunk, the two tries of
\* yaffs_check_gc and the collector's copies, which are writes themselves, do
\* not keep each other going, when a program, a verify or an erase fails, when
\* every attempt uses a block up, nor when there is no block left.
CallsReturn == pc # "idle" ~> pc = "idle"

=============================================================================
