------------------------------ MODULE YaffsCheckpt ------------------------------
(***************************************************************************)
(* The checkpoint of yaffs2 as it lies on flash: yaffs_checkptrw.c, which  *)
(* writes and reads a stream of bytes over chunks of erased blocks, its    *)
(* callers in yaffs_yaffs2.c, and what yaffs_guts_initialise does with it  *)
(* at mount.  Power may fail between any two steps, a chunk may be         *)
(* damaged, an erasure or a program may fail.                              *)
(*                                                                         *)
(* Files are abstracted to the blocks they use; YaffsBlocks has how they   *)
(* use them.  An item of the stream stands for some of its bytes, the sum  *)
(* of items for checkpt_sum and checkpt_xor together; the chunk bits,      *)
(* objects and tnodes a checkpoint also holds are left out.                *)
(*                                                                         *)
(* A definition Name_Variant is Name with a plausible mistake in it; no    *)
(* action uses it.                                                         *)
(***************************************************************************)
EXTENDS Integers, Sequences, FiniteSets

CONSTANTS
  NBlocks,            \* internal_end_block; internal_start_block is 1
  ChunksPerBlock,     \* param.chunks_per_block
  NReserved,          \* param.n_reserved_blocks
  MaxReadBlocks,      \* checkpt_max_blocks
  Parts               \* the flash parts considered: items in a chunk after its
                      \* header (data_bytes_per_chunk), and how many failures
                      \* there are in one behaviour (a bound)

ASSUME CheckptAssumption ==
  /\ NBlocks \in Nat /\ NReserved \in Nat /\ NReserved < NBlocks
  /\ ChunksPerBlock \in Nat \ {0}
  /\ MaxReadBlocks \in Nat
  /\ \A part \in Parts : part.items \in Nat \ {0} /\ part.faults \in Nat

Blocks == 1 .. NBlocks
Pages == 0 .. ChunksPerBlock - 1
NoBlock == 0          \* checkpt_cur_block -1, checkpt_next_block -1

VARIABLES
  flash,              \* block -> page -> what is programmed there
  bad,                \* flash: the blocks marked bad
  block_state,        \* block -> bi->block_state
  n_erased_blocks, is_checkpointed, blocks_in_checkpt,
  stream,             \* the checkpt_ fields of yaffs_dev
  got,                \* the items read or written so far
  ok,                 \* ok of yaffs2_wr_checkpt_data
  pc, ret,            \* the call in progress, where an erasure goes on
  saved,              \* history: the flash holds all of the last checkpoint
  part                \* the part, with the failures still to come

ram == <<block_state, n_erased_blocks, is_checkpointed, blocks_in_checkpt>>
chip == <<flash, bad, saved, part>>
vars == <<chip, ram, stream, got, ok, pc, ret>>

DataItems == part.items

\* A chunk of a file; one whose programming was cut off; and one of a
\* checkpoint: the hint to the next block (tags.obj_id), its number in the
\* stream (tags.chunk_id), whether its ECC holds, and its header.
ErasedPage == [kind |-> "erased"]
FilePage == [kind |-> "file"]
TornPage == [kind |-> "torn"]
Padded(items) == [i \in 1 .. DataItems |-> IF i <= Len(items) THEN items[i] ELSE 0]
CheckptPage(s) ==
  [kind |-> "checkpt", obj_id |-> s.next, chunk_id |-> s.seq + 1, ecc |-> "good",
   seq |-> s.seq, sum |-> s.hdr, data |-> Padded(s.buf)]

\* A stream at its beginning.
Stream(writing) ==
  [write |-> writing, cur |-> NoBlock, chunk |-> 0, next |-> 1, seq |-> 0,
   sum |-> 0, hdr |-> 0, offs |-> DataItems, buf |-> <<>>, list |-> {}]

(***************************************************************************)
(* What a checkpoint records of a device: a validity marker, the number of *)
(* erased blocks and the block infos (yaffs2_wr_checkpt_dev), another      *)
(* marker and the sum.                                                     *)
(***************************************************************************)
HeadMarker == NBlocks + 4
TailMarker == NBlocks + 5
Items == 0 .. TailMarker     \* bound: the values an item takes outside the buffer
States == <<"EMPTY", "FULL", "CHECKPOINT", "DEAD">>
Code(state) == (CHOOSE i \in DOMAIN States : States[i] = state) - 1
StreamLen == NBlocks + 4

\* Item n as it is when it is written: the block infos change meanwhile.
Item(n) ==
  CASE n = 1 -> HeadMarker
    [] n = 2 -> n_erased_blocks
    [] n \in 3 .. NBlocks + 2 -> Code(block_state[n - 2])
    [] n = NBlocks + 3 -> TailMarker
    [] n = StreamLen -> stream.sum

\* Item n is refused when it is read and cannot be that.
Refused(n, item) ==
  \/ n = 1 /\ item # HeadMarker
  \/ n = NBlocks + 3 /\ item # TailMarker
  \/ n = StreamLen /\ item # stream.sum

Init ==
  /\ flash = [b \in Blocks |-> [p \in Pages |-> ErasedPage]]
  /\ bad = {} /\ saved = FALSE /\ part \in Parts
  /\ block_state = [b \in Blocks |-> "EMPTY"]
  /\ n_erased_blocks = 0 /\ is_checkpointed = FALSE /\ blocks_in_checkpt = 0
  /\ stream = Stream(FALSE) /\ got = <<>> /\ ok = TRUE
  /\ pc = "off" /\ ret = "off"

Empty == {b \in Blocks : block_state[b] = "EMPTY"}
CheckptBlocks == {b \in Blocks : block_state[b] = "CHECKPOINT"}
HasCheckpt == is_checkpointed \/ blocks_in_checkpt > 0
First(S) == CHOOSE b \in S : \A c \in S : b <= c

\* The chunk is the last of its block.
IsLast_OneMore(chunk) == chunk + 1 > ChunksPerBlock
IsLast(chunk) == chunk + 1 >= ChunksPerBlock

Fault == part.faults > 0 /\ part' = [part EXCEPT !.faults = @ - 1]
Erased(b) == [flash EXCEPT ![b] = [p \in Pages |-> ErasedPage]]

-----------------------------------------------------------------------------
(***************************************************************************)
(* Mount: yaffs2_checkpt_restore, and the scan when it fails.              *)
(***************************************************************************)

\* yaffs_guts_initialise, up to the checkpoint opened for reading.
Mount ==
  /\ pc = "off"
  /\ pc' = "read"
  /\ stream' = Stream(FALSE)
  /\ got' = <<>>
  /\ blocks_in_checkpt' = 0
  /\ UNCHANGED <<chip, block_state, n_erased_blocks, is_checkpointed, ok, ret>>

\* yaffs2_checkpt_find_block: the next block whose first chunk says that it is
\* of a checkpoint.  There is a limit on how many are looked for.
NextReadBlock ==
  LET found == {b \in Blocks \ bad : /\ b >= stream.next
                                     /\ flash[b][0].kind = "checkpt"}
  IN  IF blocks_in_checkpt < MaxReadBlocks /\ stream.next # NoBlock /\ found # {}
        THEN First(found) ELSE NoBlock

\* The stream at the block that the next fetch reads from.
AtReadBlock ==
  IF stream.cur # NoBlock
    THEN stream
    ELSE [stream EXCEPT
            !.cur = NextReadBlock,
            !.chunk = 0,
            !.next = IF NextReadBlock = NoBlock THEN NoBlock
                     ELSE flash[NextReadBlock][0].obj_id,
            !.list = @ \cup ({NextReadBlock} \ {NoBlock})]

\* "Bail out if the chunk is corrupted": what the tags say of it.
TagsBad(page) ==
  page.kind # "checkpt" \/ page.chunk_id # stream.seq + 1 \/ page.ecc = "unfixed"

\* yaffs2_checkpt_check_chunk_hdr
HeaderGood(page) ==
  page.kind = "checkpt" /\ page.seq = stream.seq /\ page.sum = stream.sum

(***************************************************************************)
(* A chunk is fetched when the buffer is used up.  The test of the header  *)
(* is the body of the test of the tags: the reader bails out when both     *)
(* fail, and only a chunk with bad tags has its header looked at, which is *)
(* what sets checkpt_byte_offs back to the start of the data.              *)
(***************************************************************************)
BailsOut(page) == TagsBad(page) /\ ~HeaderGood(page)
Fetched(page) ==
  LET s == AtReadBlock
      last == IsLast(s.chunk)
  IN  [s EXCEPT !.seq = @ + 1,
                !.chunk = IF last THEN 0 ELSE @ + 1,
                !.cur = IF last THEN NoBlock ELSE @,
                !.offs = IF TagsBad(page) THEN 0 ELSE @,
                !.buf = IF page.kind = "checkpt" THEN page.data ELSE <<>>]

\* One item is read from a buffer; one that lies beyond it is any value.
TakeFrom(s) ==
  \E item \in IF s.offs < DataItems THEN {s.buf[s.offs + 1]} ELSE Items :
    /\ stream' = [s EXCEPT !.sum = @ + item,
                           !.offs = IF @ < DataItems THEN @ + 1 ELSE @]
    /\ got' = Append(got, item)
    /\ pc' = IF Refused(Len(got) + 1, item) THEN "scan" ELSE pc

\* yaffs2_checkpt_rd
ReadItem ==
  /\ pc = "read" /\ Len(got) < StreamLen
  /\ stream.offs < DataItems
  /\ TakeFrom(stream)
  /\ UNCHANGED <<chip, ram, ok, ret>>

FetchItem ==
  LET s == AtReadBlock
      page == flash[s.cur][s.chunk]
  IN  /\ pc = "read" /\ Len(got) < StreamLen
      /\ stream.offs >= DataItems
      /\ s.cur # NoBlock
      /\ blocks_in_checkpt' = Cardinality(s.list)
      /\ IF BailsOut(page)
           THEN pc' = "scan" /\ stream' = s /\ UNCHANGED got
           ELSE TakeFrom(Fetched(page))
      /\ UNCHANGED <<chip, block_state, n_erased_blocks, is_checkpointed, ok, ret>>

FetchFails ==
  /\ pc = "read" /\ Len(got) < StreamLen
  /\ stream.offs >= DataItems
  /\ AtReadBlock.cur = NoBlock
  /\ pc' = "scan"
  /\ UNCHANGED <<chip, ram, stream, got, ok, ret>>

\* The blocks the checkpoint was read from were erased when it was written.
AfterReadClose_Kept(state, b) == state
AfterReadClose(state, b) ==
  IF state = "EMPTY" /\ b \in stream.list THEN "CHECKPOINT" ELSE state

\* All items are good: yaffs_checkpt_close, and the mount ends.
Restore ==
  /\ pc = "read" /\ Len(got) = StreamLen
  /\ block_state' = [b \in Blocks |-> AfterReadClose(States[got[b + 2] + 1], b)]
  /\ n_erased_blocks' = got[2] - blocks_in_checkpt
  /\ is_checkpointed' = TRUE
  /\ pc' = "idle"
  /\ UNCHANGED <<chip, blocks_in_checkpt, stream, got, ok, ret>>

\* What yaffs2_scan_backwards makes of a block; FULL stands for NEEDS_SCAN too,
\* where a block with a bad sequence number stays.
ScannedState(b) ==
  CASE b \in bad -> "DEAD"
    [] b \notin bad /\ flash[b][0].kind = "erased" -> "EMPTY"
    [] b \notin bad /\ flash[b][0].kind = "checkpt" -> "CHECKPOINT"
    [] b \notin bad /\ flash[b][0].kind \in {"file", "torn"} -> "FULL"

\* "Clean up any aborted checkpoint data" is what follows.
AfterScan(n) == IF n > 0 THEN "erase" ELSE "idle"

Scan ==
  /\ pc = "scan"
  /\ block_state' = [b \in Blocks |-> ScannedState(b)]
  /\ n_erased_blocks' = Cardinality({b \in Blocks : ScannedState(b) = "EMPTY"})
  /\ blocks_in_checkpt' =
       Cardinality({b \in Blocks : ScannedState(b) = "CHECKPOINT"})
  /\ is_checkpointed' = FALSE
  /\ pc' = AfterScan(blocks_in_checkpt')
  /\ ret' = "idle"
  /\ UNCHANGED <<chip, stream, got, ok>>

-----------------------------------------------------------------------------
(***************************************************************************)
(* yaffs2_checkpt_invalidate: the checkpoint's blocks are erased in order. *)
(***************************************************************************)
InvalidateAndGo(to) ==
  /\ is_checkpointed' = FALSE
  /\ ret' = to
  /\ pc' = IF HasCheckpt THEN "erase" ELSE to

EraseOk ==
  /\ pc = "erase" /\ CheckptBlocks # {}
  /\ LET b == First(CheckptBlocks)
     IN  /\ flash' = Erased(b)
         /\ block_state' = [block_state EXCEPT ![b] = "EMPTY"]
  /\ n_erased_blocks' = n_erased_blocks + 1
  /\ saved' = FALSE
  /\ UNCHANGED <<bad, part, is_checkpointed, blocks_in_checkpt, stream, got,
                 ok, pc, ret>>

EraseFails ==
  /\ pc = "erase" /\ CheckptBlocks # {}
  /\ Fault
  /\ LET b == First(CheckptBlocks)
     IN  /\ bad' = bad \cup {b}
         /\ block_state' = [block_state EXCEPT ![b] = "DEAD"]
  /\ saved' = FALSE
  /\ UNCHANGED <<flash, n_erased_blocks, is_checkpointed, blocks_in_checkpt,
                 stream, got, ok, pc, ret>>

EraseEnd ==
  /\ pc = "erase" /\ CheckptBlocks = {}
  /\ blocks_in_checkpt' = 0
  /\ pc' = ret
  /\ UNCHANGED <<chip, block_state, n_erased_blocks, is_checkpointed, stream,
                 got, ok, ret>>

\* A file takes a block, or the last chunk of a block is deleted; the write or
\* the erasure invalidates the checkpoint first.
BeginChange ==
  /\ pc = "idle"
  /\ InvalidateAndGo("change")
  /\ UNCHANGED <<chip, block_state, n_erased_blocks, blocks_in_checkpt, stream,
                 got, ok>>

TakeBlock ==
  /\ pc = "change" /\ n_erased_blocks > NReserved
  /\ \E b \in Empty :
       /\ flash' = [flash EXCEPT ![b] = [p \in Pages |-> FilePage]]
       /\ block_state' = [block_state EXCEPT ![b] = "FULL"]
  /\ n_erased_blocks' = n_erased_blocks - 1
  /\ saved' = FALSE
  /\ pc' = "idle"
  /\ UNCHANGED <<bad, part, is_checkpointed, blocks_in_checkpt, stream, got,
                 ok, ret>>

FreeBlock ==
  /\ pc = "change"
  /\ \E b \in Blocks :
       /\ block_state[b] = "FULL"
       /\ flash' = Erased(b)
       /\ block_state' = [block_state EXCEPT ![b] = "EMPTY"]
  /\ n_erased_blocks' = n_erased_blocks + 1
  /\ saved' = FALSE
  /\ pc' = "idle"
  /\ UNCHANGED <<bad, part, is_checkpointed, blocks_in_checkpt, stream, got,
                 ok, ret>>

\* Neither is possible: the write fails.
NoChange ==
  /\ pc = "change"
  /\ pc' = "idle"
  /\ UNCHANGED <<chip, ram, stream, got, ok, ret>>

-----------------------------------------------------------------------------
(***************************************************************************)
(* yaffs_checkpoint_save                                                   *)
(***************************************************************************)

\* A save without room is left to YaffsBlocks.
BeginSave ==
  /\ pc = "idle" /\ ~is_checkpointed
  /\ n_erased_blocks > NReserved
  /\ InvalidateAndGo("open")
  /\ UNCHANGED <<chip, block_state, n_erased_blocks, blocks_in_checkpt, stream,
                 got, ok>>

OpenWrite ==
  /\ pc = "open"
  /\ stream' = [Stream(TRUE) EXCEPT !.offs = 0]
  /\ got' = <<>> /\ ok' = TRUE
  /\ pc' = "write"
  /\ UNCHANGED <<chip, ram, ret>>

\* yaffs2_checkpt_wr; a full buffer is flushed.
WriteItem ==
  /\ pc = "write" /\ Len(got) < StreamLen
  /\ stream.offs < DataItems
  /\ LET item == Item(Len(got) + 1)
     IN  /\ stream' = [stream EXCEPT !.buf = Append(@, item), !.offs = @ + 1,
                                     !.sum = @ + item]
         /\ got' = Append(got, item)
  /\ pc' = IF stream.offs + 1 >= DataItems THEN "flush" ELSE pc
  /\ UNCHANGED <<chip, ram, ok, ret>>

\* The last flush failed: this write notices, and the stream ends here.
WriteFails ==
  /\ pc = "write" /\ Len(got) < StreamLen
  /\ stream.offs >= DataItems
  /\ ok' = FALSE
  /\ pc' = "close"
  /\ UNCHANGED <<chip, ram, stream, got, ret>>

WriteEnd ==
  /\ pc = "write" /\ Len(got) = StreamLen
  /\ pc' = "close"
  /\ UNCHANGED <<chip, ram, stream, got, ok, ret>>

\* yaffs2_checkpt_find_erased_block
NextWriteBlock ==
  LET ahead == {b \in Empty : b >= stream.next}
  IN  IF n_erased_blocks > NReserved /\ stream.next # NoBlock /\ ahead # {}
        THEN First(ahead) ELSE NoBlock
AtWriteBlock ==
  IF stream.cur # NoBlock
    THEN stream
    ELSE [stream EXCEPT
            !.cur = NextWriteBlock,
            !.chunk = 0,
            !.next = IF NextWriteBlock = NoBlock THEN NoBlock
                     ELSE NextWriteBlock + 1]

\* yaffs2_checkpt_flush_buffer: the result of the write is not looked at.
FlushBuffer ==
  LET s == AtWriteBlock
      last == IsLast(s.chunk)
  IN  /\ s.cur # NoBlock
      /\ \/ /\ flash' = [flash EXCEPT ![s.cur][s.chunk] = CheckptPage(s)]
            /\ UNCHANGED part
         \/ /\ Fault
            /\ flash' = [flash EXCEPT ![s.cur][s.chunk] = TornPage]
      /\ IF s.chunk = 0
           THEN /\ block_state' = [block_state EXCEPT ![s.cur] = "CHECKPOINT"]
                /\ blocks_in_checkpt' = blocks_in_checkpt + 1
           ELSE UNCHANGED <<block_state, blocks_in_checkpt>>
      /\ stream' = [s EXCEPT !.seq = @ + 1, !.hdr = s.sum, !.offs = 0, !.buf = <<>>,
                             !.chunk = IF last THEN 0 ELSE @ + 1,
                             !.cur = IF last THEN NoBlock ELSE @]
FlushFails ==
  /\ AtWriteBlock.cur = NoBlock
  /\ stream' = AtWriteBlock
  /\ UNCHANGED <<flash, part, block_state, blocks_in_checkpt>>

Flush ==
  /\ pc = "flush"
  /\ FlushBuffer \/ FlushFails
  /\ pc' = "write"
  /\ UNCHANGED <<bad, saved, n_erased_blocks, is_checkpointed, got, ok, ret>>

\* The blocks of a closed stream leave the count of erased ones.
ErasedAfterClose(n_blocks) == n_erased_blocks - n_blocks

\* yaffs_checkpt_close: what is left in the buffer is flushed.
CloseWrite ==
  /\ pc = "close"
  /\ FlushBuffer \/ FlushFails
  /\ n_erased_blocks' = ErasedAfterClose(blocks_in_checkpt')
  /\ is_checkpointed' = ok
  /\ saved' = /\ ok
              /\ \A b \in Blocks :
                   block_state'[b] = "CHECKPOINT" =>
                     \A p \in Pages : flash'[b][p].kind # "torn"
              /\ blocks_in_checkpt' <= MaxReadBlocks
              /\ stream'.seq > stream.seq
  /\ pc' = "idle"
  /\ UNCHANGED <<bad, got, ok, ret>>

-----------------------------------------------------------------------------
\* The device is unmounted or loses power, in the middle of a program perhaps:
\* what is in RAM is gone.
PowerOff ==
  /\ pc # "off"
  /\ pc' = "off" /\ ret' = "off"
  /\ block_state' = [b \in Blocks |-> "EMPTY"]
  /\ n_erased_blocks' = 0 /\ is_checkpointed' = FALSE /\ blocks_in_checkpt' = 0
  /\ stream' = Stream(FALSE) /\ got' = <<>> /\ ok' = TRUE
  /\ \/ UNCHANGED flash
     \/ /\ pc \in {"flush", "close"} /\ AtWriteBlock.cur # NoBlock
        /\ flash' = [flash EXCEPT ![AtWriteBlock.cur][AtWriteBlock.chunk] = TornPage]
  /\ UNCHANGED <<bad, saved, part>>

\* A chunk of the checkpoint goes bad: its ECC fails, and an item of its data
\* may have changed.
Damage ==
  /\ pc = "off"
  /\ Fault
  /\ \E b \in Blocks, p \in Pages :
       LET page == flash[b][p]
           BadEcc(data) == [page EXCEPT !.ecc = "unfixed", !.data = data]
       IN  /\ page.kind = "checkpt" /\ page.ecc = "good"
           /\ \E data \in {page.data} \cup
                          {[page.data EXCEPT ![i] = 1 - @] :
                             i \in {j \in 1 .. DataItems : page.data[j] \in {0, 1}}} :
                flash' = [flash EXCEPT ![b][p] = BadEcc(data)]
  /\ saved' = FALSE
  /\ UNCHANGED <<bad, ram, stream, got, ok, pc, ret>>

MountStep == Mount \/ ReadItem \/ FetchItem \/ FetchFails \/ Restore \/ Scan
ChangeStep ==
  \/ BeginChange \/ EraseOk \/ EraseFails \/ EraseEnd \/ TakeBlock \/ FreeBlock
  \/ NoChange
SaveStep ==
  \/ BeginSave \/ OpenWrite \/ WriteItem \/ WriteFails \/ WriteEnd \/ Flush
  \/ CloseWrite

Next == MountStep \/ ChangeStep \/ SaveStep \/ PowerOff \/ Damage

Spec == Init /\ [][Next]_vars

-----------------------------------------------------------------------------
(***************************************************************************)
(* Properties                                                              *)
(***************************************************************************)

PageKinds == {"erased", "file", "torn", "checkpt"}

\* The stream's cursors name blocks and chunks that exist; what is on flash is
\* a chunk of one of four kinds.
TypeOK ==
  /\ flash \in [Blocks -> [Pages -> [kind : PageKinds \ {"checkpt"}] \cup
       [kind : {"checkpt"}, obj_id : Nat, chunk_id : Nat, ecc : {"good", "unfixed"},
        seq : Nat, sum : Nat, data : [1 .. DataItems -> Nat]]]]
  /\ bad \subseteq Blocks
  /\ saved \in BOOLEAN
  /\ part.faults \in Nat
  /\ block_state \in [Blocks -> {"EMPTY", "FULL", "CHECKPOINT", "DEAD"}]
  /\ n_erased_blocks \in Int
  /\ is_checkpointed \in BOOLEAN
  /\ blocks_in_checkpt \in Nat
  /\ stream \in [write : BOOLEAN, cur : Blocks \cup {NoBlock}, chunk : Pages,
                 next : 0 .. NBlocks + 1, seq : Nat, sum : Nat, hdr : Nat,
                 offs : 0 .. DataItems, buf : Seq(Nat), list : SUBSET Blocks]
  /\ got \in Seq(Nat)
  /\ ok \in BOOLEAN
  /\ pc \in {"off", "read", "scan", "idle", "erase", "change", "open", "write",
             "flush", "close"}
  /\ ret \in {"off", "idle", "change", "open"}

\* A mounted device knows its flash, whether it was scanned or restored from a
\* checkpoint, after crashes and with damaged chunks: a block it takes for
\* erased is, the blocks with files are those it knows, and the counts are those
\* of yaffs_verify_blocks ("Erased block count wrong", "Checkpoint block count
\* wrong").
MountSound ==
  pc = "idle" =>
    /\ \A b \in Empty : b \notin bad /\ \A p \in Pages : flash[b][p] = ErasedPage
    /\ \A b \in Blocks \ bad :
         /\ flash[b][0] = FilePage => block_state[b] = "FULL"
         /\ block_state[b] = "FULL" => flash[b][0] \in {FilePage, TornPage}
    /\ n_erased_blocks = Cardinality(Empty)
    /\ blocks_in_checkpt = Cardinality(CheckptBlocks)

\* checkpt_rd: "Bail out if the chunk is corrupted.", "Bail out if it is not a
\* checkpoint chunk.": from a checkpoint that was written in full and not
\* damaged or invalidated since, the reader does not bail out.
IntactRestored == pc = "scan" => ~saved

=============================================================================
