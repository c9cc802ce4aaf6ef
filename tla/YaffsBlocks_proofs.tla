------------------------- MODULE YaffsBlocks_proofs ---------------------------
(***************************************************************************)
(* The steps of the block manager preserve IInv, and the theorems about it *)
(* that follow.                                                            *)
(***************************************************************************)
EXTENDS YaffsBlocksInv

USE DEF usage, marks, flags, alloc, counts, gc, ckpt, client, flash,
        InDel, InWrite, HasNew, InFinish, InGc, Blocks, NoBlock

-----------------------------------------------------------------------------
(* The steps of yaffs_write_new_chunk and its callers.                     *)

\* A chunk that reads back leaves the block state alone.
LEMMA VerifyOkInv ==
  ASSUME IInv, VerifyOk
  PROVE  IInv'
<1>1. TypeOK'
  <2>1. MarksTypeOK'
    <3>1. CASE UNCHANGED marks
      BY <3>1 DEF IInv, TypeOK, MarksTypeOK
    <3>2. CASE ChunkError(call.new[1], FALSE)
      <4>1. call.new[1] \in Blocks
        BY DEF IInv, CallInv, VerifyOk, Chunks
      <4>. QED
        BY <3>2, <4>1, ChunkErrorType DEF IInv, TypeOK
    <3>. QED
      BY <3>1, <3>2 DEF VerifyOk
  <2>2. CallTypeOK'
    BY DEF IInv, TypeOK, CallTypeOK, VerifyOk, PCs
  <2>3. FlashTypeOK'
    <3>1. faults' \in {faults, faults + 1}
      BY DEF VerifyOk, Fault
    <3>. QED
      BY <3>1 DEF IInv, TypeOK, FlashTypeOK, VerifyOk
  <2>. QED
    BY <2>1, <2>2, <2>3 DEF IInv, TypeOK, BlocksTypeOK, AllocTypeOK,
         CountsTypeOK, GcTypeOK, CkptTypeOK, ClientTypeOK, VerifyOk
<1>2. CallInv'
  BY DEF IInv, CallInv, VerifyOk
<1>3. AllocInv'
  BY DEF IInv, AllocInv, TypeOK, BlocksTypeOK, AllocTypeOK, VerifyOk
<1>4. GcInv'
  BY DEF IInv, GcInv, TypeOK, BlocksTypeOK, GcTypeOK, VerifyOk
<1>5. BitsInv'
  BY DEF IInv, BitsInv, TypeOK, BlocksTypeOK, VerifyOk
<1>6. DelInv'
  BY DEF IInv, DelInv, VerifyOk
<1>7. SummaryInv'
  BY DEF IInv, SummaryInv, TypeOK, BlocksTypeOK, VerifyOk
<1>8. SeqInv' /\ CkptInv' /\ PageCountsExact'
  BY DEF IInv, SeqInv, CkptInv, PageCountsExact, Used, ChunksOf, VerifyOk
<1>. QED
  BY <1>1, <1>2, <1>3, <1>4, <1>5, <1>6, <1>7, <1>8 DEF IInv

\* A write that finds no chunk ends.
LEMMA WriteFailsInv ==
  ASSUME IInv, WriteFails
  PROVE  IInv'
<1>1. TypeOK'
  <2>1. CallTypeOK'
    BY DEF IInv, TypeOK, CallTypeOK, WriteFails, AfterRefusal,
         AfterWrite, CallAfterWrite, NoCall, PCs
  <2>2. AllocTypeOK'
    BY DEF IInv, TypeOK, AllocTypeOK, WriteFails
  <2>. QED
    BY <2>1, <2>2 DEF IInv, TypeOK, BlocksTypeOK, MarksTypeOK, CountsTypeOK,
         GcTypeOK, CkptTypeOK, ClientTypeOK, FlashTypeOK, WriteFails
<1>2. CallInv'
  BY DEF IInv, CallInv, WriteFails, AfterRefusal, AfterWrite,
       CallAfterWrite, NoCall
<1>3. AllocInv'
  BY DEF IInv, AllocInv, TypeOK, BlocksTypeOK, AllocTypeOK, WriteFails,
       AfterRefusal, AfterWrite, CallAfterWrite, NoCall
<1>4. GcInv'
  BY DEF IInv, GcInv, TypeOK, BlocksTypeOK, GcTypeOK, WriteFails,
       AfterRefusal, AfterWrite, CallAfterWrite, NoCall
<1>5. BitsInv'
  BY DEF IInv, BitsInv, TypeOK, BlocksTypeOK, WriteFails, AfterRefusal,
       AfterWrite, CallAfterWrite, NoCall
<1>6. DelInv'
  BY DEF IInv, DelInv, WriteFails, AfterRefusal, AfterWrite,
       CallAfterWrite, NoCall
<1>7. SummaryInv'
  BY DEF IInv, SummaryInv, TypeOK, BlocksTypeOK, WriteFails,
       AfterRefusal, AfterWrite, CallAfterWrite, NoCall
<1>8. SeqInv' /\ CkptInv' /\ PageCountsExact'
  BY DEF IInv, SeqInv, CkptInv, PageCountsExact, Used, ChunksOf,
       WriteFails, AfterRefusal, AfterWrite, CallAfterWrite, NoCall
<1>. QED
  BY <1>1, <1>2, <1>3, <1>4, <1>5, <1>6, <1>7, <1>8 DEF IInv

\* A chunk that was not erased is given up: it is nobody's.
LEMMA NotErasedInv ==
  ASSUME IInv, NotErased
  PROVE  IInv'
<1>1. TypeOK'
  <2>1. MarksTypeOK'
    <3>1. CASE UNCHANGED marks
      BY <3>1 DEF IInv, TypeOK, MarksTypeOK
    <3>2. CASE ChunkError(call.new[1], FALSE)
      <4>1. call.new[1] \in Blocks
        BY DEF IInv, CallInv, NotErased, Chunks
      <4>. QED
        BY <3>2, <4>1, ChunkErrorType DEF IInv, TypeOK
    <3>. QED
      BY <3>1, <3>2 DEF NotErased
  <2>2. CallTypeOK'
    BY DEF IInv, TypeOK, CallTypeOK, NotErased, CallDel, PCs, CallInv
  <2>3. FlashTypeOK'
    <3>1. faults' \in {faults, faults + 1}
      BY DEF NotErased, Fault
    <3>. QED
      BY <3>1 DEF IInv, TypeOK, FlashTypeOK, NotErased
  <2>. QED
    BY <2>1, <2>2, <2>3 DEF IInv, TypeOK, BlocksTypeOK, AllocTypeOK,
         CountsTypeOK, GcTypeOK, CkptTypeOK, ClientTypeOK, NotErased, CallDel
<1>2. CallInv'
  BY DEF IInv, CallInv, NotErased, CallDel
<1>3. AllocInv'
  BY DEF IInv, AllocInv, TypeOK, BlocksTypeOK, AllocTypeOK, NotErased,
       CallDel
<1>4. GcInv'
  BY DEF IInv, GcInv, TypeOK, BlocksTypeOK, GcTypeOK, NotErased, CallDel
<1>5. BitsInv'
  BY DEF IInv, BitsInv, TypeOK, BlocksTypeOK, NotErased, CallDel
<1>6. DelInv'
  BY DEF IInv, DelInv, NotErased, CallDel, BitsInv
<1>7. SummaryInv'
  BY DEF IInv, SummaryInv, TypeOK, BlocksTypeOK, NotErased, CallDel
<1>8. SeqInv' /\ CkptInv' /\ PageCountsExact'
  BY DEF IInv, SeqInv, CkptInv, PageCountsExact, Used, ChunksOf,
       NotErased, CallDel
<1>. QED
  BY <1>1, <1>2, <1>3, <1>4, <1>5, <1>6, <1>7, <1>8 DEF IInv

\* So is one that does not read back.
LEMMA VerifyFailsInv ==
  ASSUME IInv, VerifyFails
  PROVE  IInv'
<1>1. TypeOK'
  <2>1. MarksTypeOK'
    <3>1. CASE UNCHANGED marks
      BY <3>1 DEF IInv, TypeOK, MarksTypeOK
    <3>2. CASE ChunkError(call.new[1], TRUE)
      <4>1. call.new[1] \in Blocks
        BY DEF IInv, CallInv, VerifyFails, Chunks
      <4>. QED
        BY <3>2, <4>1, ChunkErrorType DEF IInv, TypeOK
    <3>. QED
      BY <3>1, <3>2 DEF VerifyFails
  <2>2. CallTypeOK'
    BY DEF IInv, TypeOK, CallTypeOK, VerifyFails, CallDel, PCs, CallInv
  <2>3. FlashTypeOK'
    BY DEF IInv, TypeOK, FlashTypeOK, VerifyFails, CallDel, Fault
  <2>. QED
    BY <2>1, <2>2, <2>3 DEF IInv, TypeOK, BlocksTypeOK, AllocTypeOK,
         CountsTypeOK, GcTypeOK, CkptTypeOK, ClientTypeOK, VerifyFails,
         CallDel
<1>2. CallInv'
  BY DEF IInv, CallInv, VerifyFails, CallDel
<1>3. AllocInv'
  BY DEF IInv, AllocInv, TypeOK, BlocksTypeOK, AllocTypeOK, VerifyFails,
       CallDel
<1>4. GcInv'
  BY DEF IInv, GcInv, TypeOK, BlocksTypeOK, GcTypeOK, VerifyFails,
       CallDel
<1>5. BitsInv'
  BY DEF IInv, BitsInv, TypeOK, BlocksTypeOK, VerifyFails, CallDel
<1>6. DelInv'
  BY DEF IInv, DelInv, VerifyFails, CallDel, BitsInv
<1>7. SummaryInv'
  BY DEF IInv, SummaryInv, TypeOK, BlocksTypeOK, VerifyFails, CallDel
<1>8. SeqInv' /\ CkptInv' /\ PageCountsExact'
  BY DEF IInv, SeqInv, CkptInv, PageCountsExact, Used, ChunksOf,
       VerifyFails, CallDel
<1>. QED
  BY <1>1, <1>2, <1>3, <1>4, <1>5, <1>6, <1>7, <1>8 DEF IInv

\* The new chunk is programmed and stays nobody's.
LEMMA ProgramChunkInv ==
  ASSUME IInv, ProgramChunk
  PROVE  IInv'
<1>1. TypeOK'
  <2>1. CallTypeOK'
    BY DEF IInv, TypeOK, CallTypeOK, ProgramChunk, Program, PCs
  <2>2. FlashTypeOK'
    BY DEF IInv, TypeOK, FlashTypeOK, ProgramChunk, Program, CallInv
  <2>. QED
    BY <2>1, <2>2 DEF IInv, TypeOK, BlocksTypeOK, MarksTypeOK,
         AllocTypeOK, CountsTypeOK, GcTypeOK, CkptTypeOK, ClientTypeOK,
         ProgramChunk, Program
<1>2. CallInv'
  BY DEF IInv, CallInv, ProgramChunk, Program
<1>3. AllocInv'
  BY DEF IInv, AllocInv, TypeOK, BlocksTypeOK, AllocTypeOK, ProgramChunk,
       Program
<1>4. GcInv'
  BY DEF IInv, GcInv, TypeOK, BlocksTypeOK, GcTypeOK, ProgramChunk,
       Program
<1>5. BitsInv'
  BY DEF IInv, BitsInv, TypeOK, BlocksTypeOK, ProgramChunk, Program
<1>6. DelInv'
  BY DEF IInv, DelInv, ProgramChunk, Program
<1>7. SummaryInv'
  BY DEF IInv, SummaryInv, TypeOK, BlocksTypeOK, ProgramChunk, Program
<1>8. SeqInv' /\ CkptInv' /\ PageCountsExact'
  BY DEF IInv, SeqInv, CkptInv, PageCountsExact, Used, ChunksOf,
       ProgramChunk, Program
<1>. QED
  BY <1>1, <1>2, <1>3, <1>4, <1>5, <1>6, <1>7, <1>8 DEF IInv

\* The caller swaps the new chunk for the old one, which is then nobody's.
LEMMA WrittenInv ==
  ASSUME IInv, Written
  PROVE  IInv'
<1>1. TypeOK'
  <2>1. CallTypeOK'
    BY DEF IInv, TypeOK, CallTypeOK, Written, CallDel, PCs
  <2>2. ClientTypeOK'
    BY DEF IInv, TypeOK, ClientTypeOK, Written, CallDel, CallInv
  <2>. QED
    BY <2>1, <2>2 DEF IInv, TypeOK, BlocksTypeOK, MarksTypeOK,
         AllocTypeOK, CountsTypeOK, GcTypeOK, CkptTypeOK, FlashTypeOK,
         Written, CallDel
<1>2. CallInv'
  BY DEF IInv, CallInv, Written, CallDel, TypeOK, CallTypeOK
<1>3. AllocInv'
  BY DEF IInv, AllocInv, TypeOK, BlocksTypeOK, AllocTypeOK, Written,
       CallDel
<1>4. GcInv'
  BY DEF IInv, GcInv, TypeOK, BlocksTypeOK, GcTypeOK, Written, CallDel
<1>5. BitsInv'
  BY DEF IInv, BitsInv, TypeOK, BlocksTypeOK, Written, CallDel
<1>6. DelInv'
  BY DEF IInv, DelInv, Written, CallDel, CallInv, BitsInv
<1>7. SummaryInv'
  BY DEF IInv, SummaryInv, TypeOK, BlocksTypeOK, Written, CallDel
<1>8. PageCountsExact'
  BY DEF IInv, PageCountsExact, ChunksOf, Written, CallDel
<1>9. SeqInv' /\ CkptInv'
  BY DEF IInv, SeqInv, CkptInv, Used, Written, CallDel
<1>. QED
  BY <1>1, <1>2, <1>3, <1>4, <1>5, <1>6, <1>7, <1>8, <1>9 DEF IInv

\* The end of a write marks at most the block of its chunk.
LEMMA FinishWriteInv ==
  ASSUME IInv, FinishWrite
  PROVE  IInv'
<1>1. TypeOK'
  <2>1. BlocksTypeOK'
    BY DEF IInv, TypeOK, BlocksTypeOK, FinishWrite, AfterWrite,
         CallAfterWrite, NoCall, CallInv, Chunks
  <2>2. CallTypeOK'
    BY DEF IInv, TypeOK, CallTypeOK, FinishWrite, AfterWrite,
         CallAfterWrite, NoCall, PCs
  <2>3. ClientTypeOK'
    BY DEF IInv, TypeOK, ClientTypeOK, FinishWrite, AfterWrite,
         CallAfterWrite, NoCall, CallInv, Chunks, DiscardedBefore
  <2>. QED
    BY <2>1, <2>2, <2>3 DEF IInv, TypeOK, MarksTypeOK, AllocTypeOK,
         CountsTypeOK, GcTypeOK, CkptTypeOK, FlashTypeOK, FinishWrite,
         AfterWrite, CallAfterWrite, NoCall
<1>2. CallInv'
  BY DEF IInv, CallInv, FinishWrite, AfterWrite, CallAfterWrite, NoCall
<1>3. AllocInv'
  BY DEF IInv, AllocInv, TypeOK, BlocksTypeOK, AllocTypeOK, FinishWrite,
       AfterWrite, CallAfterWrite, NoCall
<1>4. GcInv'
  BY DEF IInv, GcInv, TypeOK, BlocksTypeOK, GcTypeOK, FinishWrite,
       AfterWrite, CallAfterWrite, NoCall
<1>5. BitsInv'
  BY DEF IInv, BitsInv, TypeOK, BlocksTypeOK, FinishWrite, AfterWrite,
       CallAfterWrite, NoCall
<1>6. DelInv'
  BY DEF IInv, DelInv, FinishWrite, AfterWrite, CallAfterWrite, NoCall
<1>7. SummaryInv'
  BY DEF IInv, SummaryInv, TypeOK, BlocksTypeOK, FinishWrite, AfterWrite,
       CallAfterWrite, NoCall
<1>8. SeqInv' /\ CkptInv' /\ PageCountsExact'
  BY DEF IInv, SeqInv, CkptInv, PageCountsExact, Used, ChunksOf,
       FinishWrite, AfterWrite, CallAfterWrite, NoCall
<1>. QED
  BY <1>1, <1>2, <1>3, <1>4, <1>5, <1>6, <1>7, <1>8 DEF IInv

\* An erased block without chunks becomes the newest of the log.
LEMMA FindAllocBlockInv ==
  ASSUME IInv, FindAllocBlock
  PROVE  IInv'
<1>1. /\ pc = "write" /\ alloc_block = NoBlock
      /\ alloc_page' = 0 /\ seq_number' = seq_number + 1
      /\ n_erased_blocks' = n_erased_blocks - 1
      /\ UNCHANGED <<usage, marks, flags, n_free_chunks, gc, oldest_dirty, ckpt,
                     pc, call, del, client, flash>>
  BY DEF FindAllocBlock, NextSeq
<1>2. PICK b \in Blocks :
        /\ block_state[b] = "EMPTY"
        /\ block_state' = [block_state EXCEPT ![b] = "ALLOCATING"]
        /\ blk_seq' = [blk_seq EXCEPT ![b] = seq_number + 1]
        /\ alloc_block' = b /\ alloc_block_finder' = b
  BY DEF FindAllocBlock, NextSeq, Empty
<1>3. TypeOK'
  <2>1. BlocksTypeOK'
    BY <1>1, <1>2 DEF IInv, TypeOK, BlocksTypeOK, BlockStates
  <2>2. AllocTypeOK'
    BY <1>1, <1>2 DEF IInv, TypeOK, AllocTypeOK
  <2>3. CountsTypeOK'
    BY <1>1, <1>2 DEF IInv, TypeOK, CountsTypeOK
  <2>. QED
    BY <1>1, <2>1, <2>2, <2>3, SMTT(30) DEF IInv, TypeOK, MarksTypeOK, GcTypeOK,
         CkptTypeOK, CallTypeOK, ClientTypeOK, FlashTypeOK
<1>4. AllocInv'
  <2>1. \A c \in chunk_bits : c[1] # b
    BY <1>2 DEF IInv, BitsInv
  <2>2. \A c \in Blocks : block_state'[c] = "ALLOCATING" <=> c = b
    BY <1>1, <1>2 DEF IInv, TypeOK, BlocksTypeOK, AllocInv
  <2>3. /\ alloc_page' < ChunksPerBlock
        /\ blk_seq'[b] = seq_number'
    BY <1>1, <1>2, GeometryAssumption DEF IInv, TypeOK, AllocTypeOK
  <2>. QED
    BY <1>1, <1>2, <2>1, <2>2, <2>3 DEF AllocInv
<1>5. SeqInv'
  BY <1>1, <1>2 DEF IInv, SeqInv, Used, TypeOK, BlocksTypeOK, AllocTypeOK
<1>6. GcInv'
  BY <1>1, <1>2 DEF IInv, GcInv, TypeOK, BlocksTypeOK, GcTypeOK
<1>7. BitsInv'
  BY <1>1, <1>2 DEF IInv, BitsInv, TypeOK, BlocksTypeOK
<1>8. DelInv'
  BY <1>1, <1>2 DEF IInv, DelInv
<1>9. SummaryInv'
  BY <1>1, <1>2 DEF IInv, SummaryInv, TypeOK, BlocksTypeOK
<1>10. CallInv' /\ CkptInv' /\ PageCountsExact'
  BY <1>1 DEF IInv, CallInv, CkptInv, PageCountsExact, ChunksOf
<1>. QED
  BY <1>3, <1>4, <1>5, <1>6, <1>7, <1>8, <1>9, <1>10 DEF IInv

\* The chunk allocated lies after all others of its block.
LEMMA AllocChunkInv ==
  ASSUME IInv, AllocChunk
  PROVE  IInv'
<1>1. /\ pc = "write" /\ alloc_block \in Blocks
      /\ block_state[alloc_block] = "ALLOCATING"
      /\ alloc_page \in Pages
  BY GeometryAssumption DEF AllocChunk, IInv, TypeOK, AllocTypeOK, AllocInv, Pages
<1>2. /\ chunk_bits' = chunk_bits \cup {<<alloc_block, alloc_page>>}
      /\ pages_in_use' = [pages_in_use EXCEPT ![alloc_block] = @ + 1]
      /\ n_free_chunks' = n_free_chunks - 1
      /\ alloc_page' = alloc_page + 1
      /\ call' = [call EXCEPT !.new = <<alloc_block, alloc_page>>]
      /\ pc' = "program"
      /\ UNCHANGED <<marks, flags, alloc_block_finder, seq_number, blk_seq,
                     n_erased_blocks, gc, oldest_dirty, ckpt, del, client, flash>>
  BY DEF AllocChunk
<1>3. /\ <<alloc_block, alloc_page>> \in Chunks
      /\ <<alloc_block, alloc_page>> \notin chunk_bits
  BY <1>1, GeometryAssumption DEF Chunks, Pages, IInv, AllocInv
<1>4. /\ block_state' \in [Blocks -> BlockStates]
      /\ \A b \in Blocks \ {alloc_block} : block_state'[b] = block_state[b]
  BY <1>1 DEF AllocChunk, IInv, TypeOK, BlocksTypeOK, BlockStates
<1>5. \/ /\ alloc_block' = alloc_block /\ alloc_page + 1 < ChunksPerBlock
         /\ block_state'[alloc_block] = "ALLOCATING"
      \/ /\ alloc_block' = NoBlock /\ alloc_page + 1 >= ChunksPerBlock
         /\ block_state'[alloc_block] = "FULL" 
  BY <1>1, GeometryAssumption
    DEF AllocChunk, BlockIsFull, Pages, IInv, TypeOK, BlocksTypeOK
<1>6. /\ call'.new = <<alloc_block, alloc_page>>
      /\ call'.ingc = call.ingc /\ call'.old = call.old
  BY <1>2 DEF IInv, TypeOK, CallTypeOK
<1>7. TypeOK'
  <2>1. BlocksTypeOK'
    BY <1>1, <1>2, <1>3, <1>4 DEF IInv, TypeOK, BlocksTypeOK
  <2>2. AllocTypeOK'
    BY <1>1, <1>2, <1>5 DEF IInv, TypeOK, AllocTypeOK, Pages
  <2>3. CountsTypeOK'
    BY <1>2 DEF IInv, TypeOK, CountsTypeOK
  <2>4. CallTypeOK'
    BY <1>2, <1>3 DEF IInv, TypeOK, CallTypeOK, PCs
  <2>. QED
    BY <1>2, <2>1, <2>2, <2>3, <2>4 DEF IInv, TypeOK, MarksTypeOK,
         GcTypeOK, CkptTypeOK, ClientTypeOK, FlashTypeOK
<1>8. CallInv'
  BY <1>1, <1>2, <1>3, <1>6 DEF IInv, CallInv
<1>9. AllocInv'
  <2>1. \A c \in Blocks : block_state'[c] = "ALLOCATING" <=> c = alloc_block'
    BY <1>1, <1>4, <1>5 DEF IInv, AllocInv
  <2>2. alloc_block' # NoBlock =>
          /\ alloc_block' = alloc_block
          /\ alloc_page' < ChunksPerBlock
          /\ blk_seq'[alloc_block'] = seq_number'
    BY <1>1, <1>2, <1>5 DEF IInv, AllocInv
  <2>3. \A c \in chunk_bits' : c[1] = alloc_block => c[2] < alloc_page'
    <3>1. \A c \in chunk_bits : c[1] = alloc_block => c[2] \in Nat /\ c[2] < alloc_page
      BY <1>1 DEF IInv, TypeOK, BlocksTypeOK, Chunks, Pages, AllocInv
    <3>. QED
      BY <1>1, <1>2, <3>1 DEF Pages
  <2>4. call'.new[2] + 1 < ChunksPerBlock =>
          alloc_block' = call'.new[1] /\ alloc_page' = call'.new[2] + 1
    BY <1>1, <1>2, <1>5, <1>6, GeometryAssumption DEF Pages
  <2>. QED
    BY <1>2, <2>1, <2>2, <2>3, <2>4 DEF AllocInv
<1>10. SeqInv'
  BY <1>1, <1>2, <1>4, <1>5 DEF IInv, SeqInv, Used, TypeOK, BlocksTypeOK,
       AllocTypeOK
<1>11. GcInv'
  BY <1>1, <1>2, <1>4, <1>5, <1>6 DEF IInv, GcInv, TypeOK, BlocksTypeOK,
       GcTypeOK
<1>12. BitsInv'
  <2>1. \A c \in chunk_bits' :
          block_state'[c[1]] \in {"ALLOCATING", "FULL", "COLLECTING"}
    BY <1>1, <1>2, <1>4, <1>5 DEF IInv, BitsInv, TypeOK, BlocksTypeOK, Chunks
  <2>2. call'.new \in chunk_bits' \ (live' \cup soft')
    BY <1>2, <1>3, <1>6 DEF IInv, BitsInv
  <2>. QED
    BY <1>2, <2>1, <2>2 DEF IInv, BitsInv
<1>13. DelInv'
  BY <1>1, <1>2 DEF IInv, DelInv, BitsInv
<1>14. SummaryInv'
  BY <1>1, <1>2, <1>4, <1>5, <1>6 DEF IInv, SummaryInv, TypeOK,
       BlocksTypeOK
<1>15. PageCountsExact'
  <2>1. ASSUME NEW b \in Blocks
        PROVE  pages_in_use'[b] = Cardinality(ChunksOf(b, chunk_bits'))
    <3>1. Cardinality(ChunksOf(b, chunk_bits')) =
            IF alloc_block = b THEN Cardinality(ChunksOf(b, chunk_bits)) + 1
                               ELSE Cardinality(ChunksOf(b, chunk_bits))
      BY <1>2, <1>3, CountAdd DEF IInv, TypeOK, BlocksTypeOK
    <3>. QED
      BY <1>1, <1>2, <3>1 DEF IInv, PageCountsExact, TypeOK, BlocksTypeOK
  <2>. QED
    BY <1>2, <2>1 DEF IInv, PageCountsExact, ChunksOf
<1>16. CkptInv'
  BY <1>2 DEF IInv, CkptInv
<1>. QED
  BY <1>7, <1>8, <1>9, <1>10, <1>11, <1>12, <1>13, <1>14, <1>15, <1>16
       DEF IInv

\* The block being filled is closed early.
LEMMA SkipRestOfBlockInv ==
  ASSUME IInv, SkipRestOfBlock
  PROVE  IInv'
<1>1. /\ pc = "skip" /\ pc' = "write" /\ alloc_block' = NoBlock
      /\ call' = [call EXCEPT !.new = NoChunk]
      /\ UNCHANGED <<usage, marks, flags, alloc_page, alloc_block_finder,
                     seq_number, blk_seq, counts, gc, oldest_dirty, ckpt, del,
                     client, flash>>
  BY DEF SkipRestOfBlock
<1>2. block_state' = [b \in Blocks |->
                        IF b = alloc_block THEN "FULL" ELSE block_state[b]]
  BY DEF SkipRestOfBlock, IInv, TypeOK, BlocksTypeOK
<1>3. TypeOK'
  <2>1. BlocksTypeOK'
    BY <1>1, <1>2 DEF IInv, TypeOK, BlocksTypeOK, BlockStates
  <2>2. AllocTypeOK'
    BY <1>1, <1>2 DEF IInv, TypeOK, AllocTypeOK
  <2>3. CallTypeOK'
    BY <1>1, <1>2 DEF IInv, TypeOK, CallTypeOK, PCs
  <2>. QED
    BY <1>1, <2>1, <2>2, <2>3 DEF IInv, TypeOK, MarksTypeOK,
         CountsTypeOK, GcTypeOK, CkptTypeOK, ClientTypeOK, FlashTypeOK
<1>4. CallInv'
  BY <1>1, <1>2 DEF IInv, CallInv, TypeOK, CallTypeOK
<1>5. AllocInv'
  BY <1>1, <1>2 DEF IInv, AllocInv, TypeOK, BlocksTypeOK, AllocTypeOK
<1>6. SeqInv'
  BY <1>1, <1>2 DEF IInv, SeqInv, Used, AllocInv
<1>7. GcInv'
  BY <1>1, <1>2 DEF IInv, GcInv, TypeOK, BlocksTypeOK, GcTypeOK,
       AllocInv, CallInv, CallTypeOK
<1>8. BitsInv'
  <2>1. \A c \in chunk_bits :
          block_state'[c[1]] \in {"ALLOCATING", "FULL", "COLLECTING"}
    BY <1>2 DEF IInv, BitsInv, TypeOK, BlocksTypeOK, Chunks
  <2>. QED
    BY <1>1, <2>1 DEF IInv, BitsInv
<1>9. DelInv'
  BY <1>1, <1>2 DEF IInv, DelInv
<1>10. SummaryInv'
  BY <1>1, <1>2 DEF IInv, SummaryInv, TypeOK, BlocksTypeOK
<1>11. CkptInv' /\ PageCountsExact'
  BY <1>1 DEF IInv, CkptInv, PageCountsExact, ChunksOf
<1>. QED
  BY <1>3, <1>4, <1>5, <1>6, <1>7, <1>8, <1>9, <1>10, <1>11 DEF IInv

\* Only checkpoint blocks are erased when a checkpoint is invalidated.
LEMMA InvalidateInv ==
  ASSUME IInv, Invalidate
  PROVE  IInv'
<1>1. PICK bad \in SUBSET {b \in Blocks : block_state[b] = "CHECKPOINT"},
           erased \in SUBSET Blocks :
        /\ erased = {b \in Blocks \ bad : block_state[b] = "CHECKPOINT"}
        /\ faults' = faults + Cardinality(bad)
        /\ block_state' = [b \in Blocks |->
             IF b \in erased THEN "EMPTY"
             ELSE IF b \in bad THEN "DEAD" ELSE block_state[b]]
        /\ n_erased_blocks' = n_erased_blocks + Cardinality(erased)
        /\ n_free_chunks' = n_free_chunks + Cardinality(erased) * ChunksPerBlock
        /\ programmed' = {c \in programmed : c[1] \notin erased}
        /\ overprogrammed' = {c \in overprogrammed : c[1] \notin erased}
  BY ZenonT(40) DEF Invalidate
<1>2. /\ pc \in {"write", "erase", "open"}
      /\ is_checkpointed' = FALSE /\ blocks_in_checkpt' = 0
      /\ UNCHANGED <<usage, marks, flags, alloc, gc, oldest_dirty, checkpt, pc,
                     call, del, client>>
  BY DEF Invalidate
<1>3. /\ Cardinality(bad) \in Nat
      /\ Cardinality(erased) \in Nat
  BY FiniteBlocks
<1>4. \A b \in Blocks :
        \/ block_state'[b] = block_state[b]
        \/ block_state[b] = "CHECKPOINT" /\ block_state'[b] \in {"EMPTY", "DEAD"}
  BY <1>1
<1>5. TypeOK'
  <2>1. BlocksTypeOK'
    BY <1>1, <1>2 DEF IInv, TypeOK, BlocksTypeOK, BlockStates
  <2>2. CountsTypeOK'
    BY <1>1, <1>3, GeometryAssumption DEF IInv, TypeOK, CountsTypeOK
  <2>3. CkptTypeOK'
    BY <1>2 DEF IInv, TypeOK, CkptTypeOK
  <2>4. FlashTypeOK'
    BY <1>1, <1>3 DEF IInv, TypeOK, FlashTypeOK
  <2>. QED
    BY <1>2, <2>1, <2>2, <2>3, <2>4, SMTT(30) DEF IInv, TypeOK, MarksTypeOK,
         AllocTypeOK, GcTypeOK, CallTypeOK, ClientTypeOK
<1>6. AllocInv'
  BY <1>2, <1>4 DEF IInv, AllocInv, TypeOK, BlocksTypeOK, AllocTypeOK,
       CallInv
<1>7. SeqInv'
  BY <1>2, <1>4 DEF IInv, SeqInv, Used
<1>8. GcInv'
  BY <1>2, <1>4 DEF IInv, GcInv, TypeOK, BlocksTypeOK, GcTypeOK
<1>9. BitsInv'
  BY <1>1, <1>2, <1>3, <1>4 DEF IInv, BitsInv, TypeOK, BlocksTypeOK,
       Chunks
<1>10. DelInv'
  BY <1>2, <1>4 DEF IInv, DelInv, CallInv, Chunks
<1>11. SummaryInv'
  BY <1>2, <1>4 DEF IInv, SummaryInv, TypeOK, BlocksTypeOK, Chunks
<1>12. CallInv' /\ CkptInv' /\ PageCountsExact'
  BY <1>2 DEF IInv, CallInv, CkptInv, PageCountsExact, ChunksOf
<1>. QED
  BY <1>5, <1>6, <1>7, <1>8, <1>9, <1>10, <1>11, <1>12 DEF IInv

\* The summary takes chunks after the data, so its bits are new.
LEMMA WriteSummaryInv ==
  ASSUME IInv, WriteSummary
  PROVE  IInv'
<1>1. PICK n, b, added, tried :
        /\ n \in 0 .. SummaryChunks
        /\ b = call.new[1]
        /\ added = {b} \X (LastDataPage + 1 .. LastDataPage + n)
        /\ tried = IF n < SummaryChunks
                     THEN {b} \X (LastDataPage + 1 .. LastDataPage + (n + 1))
                     ELSE added
        /\ IF n < SummaryChunks THEN Fault ELSE UNCHANGED faults
        /\ chunk_bits' = chunk_bits \cup added
        /\ pages_in_use' = [pages_in_use EXCEPT ![b] = @ + n]
        /\ n_free_chunks' = n_free_chunks - n
        /\ has_summary' =
             IF n = SummaryChunks THEN has_summary \cup {b} ELSE has_summary
        /\ programmed' = programmed \cup tried
        /\ overprogrammed' = overprogrammed \cup (tried \cap programmed)
        /\ block_state' = [block_state EXCEPT ![b] = "FULL"]
  BY DEF WriteSummary
<1>2. /\ pc = "summary" /\ pc' = "verify" /\ alloc_block' = NoBlock
      /\ UNCHANGED <<marks, has_shrink_hdr, alloc_page, alloc_block_finder,
                     seq_number, blk_seq, n_erased_blocks, gc, oldest_dirty, ckpt,
                     call, del, client>>
  BY DEF WriteSummary
<1>3. /\ b \in Blocks /\ b = alloc_block /\ block_state[b] = "ALLOCATING"
      /\ alloc_page = LastDataPage + 1 /\ call.new[2] = LastDataPage
      /\ LastDataPage \in Int
      /\ SummaryChunks \in Nat /\ SummaryChunks > 0
  <2>1. call.new \in Chunks /\ b = call.new[1]
    BY <1>1, <1>2 DEF IInv, CallInv
  <2>2. LastDataPage \in Int /\ LastDataPage + 1 < ChunksPerBlock
        /\ call.new[2] = LastDataPage
        /\ SummaryChunks \in Nat /\ SummaryChunks > 0
    BY <1>2, GeometryAssumption DEF IInv, AllocInv, LastDataPage
  <2>3. alloc_block = b /\ alloc_page = LastDataPage + 1
    BY <1>2, <2>1, <2>2 DEF IInv, AllocInv
  <2>. QED
    BY <2>1, <2>2, <2>3 DEF IInv, AllocInv, Chunks
<1>4. /\ added \in SUBSET Chunks /\ tried \in SUBSET Chunks
      /\ \A c \in added : c[1] = b /\ c[2] > LastDataPage
  BY <1>1, <1>3, GeometryAssumption DEF Chunks, Pages, LastDataPage
<1>5. added \cap chunk_bits = {}
  BY <1>2, <1>3, <1>4 DEF IInv, AllocInv, TypeOK, BlocksTypeOK, Chunks, Pages
<1>6. /\ block_state' \in [Blocks -> BlockStates]
      /\ \A c \in Blocks \ {b} : block_state'[c] = block_state[c]
      /\ block_state'[b] = "FULL"
  BY <1>1, <1>3 DEF IInv, TypeOK, BlocksTypeOK, BlockStates
<1>7. TypeOK'
  <2>1. BlocksTypeOK'
    BY <1>1, <1>2, <1>3, <1>4, <1>6 DEF IInv, TypeOK, BlocksTypeOK
  <2>2. AllocTypeOK'
    BY <1>2 DEF IInv, TypeOK, AllocTypeOK
  <2>3. CountsTypeOK'
    BY <1>1, <1>2 DEF IInv, TypeOK, CountsTypeOK
  <2>4. CallTypeOK'
    BY <1>2 DEF IInv, TypeOK, CallTypeOK, PCs
  <2>5. FlashTypeOK'
    BY <1>1, <1>2, <1>4 DEF IInv, TypeOK, FlashTypeOK, Fault
  <2>. QED
    BY <1>2, <2>1, <2>2, <2>3, <2>4, <2>5 DEF IInv, TypeOK, MarksTypeOK,
         GcTypeOK, CkptTypeOK, ClientTypeOK
<1>8. CallInv'
  BY <1>2 DEF IInv, CallInv
<1>9. AllocInv'
  BY <1>2, <1>3, <1>6 DEF IInv, AllocInv, TypeOK, BlocksTypeOK,
       AllocTypeOK, BlockStates
<1>10. SeqInv'
  BY <1>2, <1>3, <1>6 DEF IInv, SeqInv, Used
<1>11. GcInv'
  BY <1>2, <1>3, <1>6 DEF IInv, GcInv, TypeOK, BlocksTypeOK, GcTypeOK
<1>12. BitsInv'
  <2>1. \A c \in chunk_bits' :
          block_state'[c[1]] \in {"ALLOCATING", "FULL", "COLLECTING"}
    BY <1>1, <1>4, <1>6 DEF IInv, BitsInv, TypeOK, BlocksTypeOK, Chunks
  <2>2. live \cup soft \subseteq chunk_bits' \cap programmed'
    BY <1>1 DEF IInv, BitsInv
  <2>3. call.new \in chunk_bits' \ (live \cup soft) /\ call.new \in programmed'
    BY <1>1, <1>2 DEF IInv, BitsInv
  <2>. QED
    BY <1>2, <2>1, <2>2, <2>3 DEF IInv, BitsInv
<1>13. DelInv'
  BY <1>2 DEF IInv, DelInv
<1>14. SummaryInv'
  <2>1. \A c \in has_summary' :
          block_state'[c] \in {"FULL", "COLLECTING", "DIRTY", "DEAD"}
    BY <1>1, <1>3, <1>6 DEF IInv, SummaryInv, TypeOK, BlocksTypeOK
  <2>2. \A c \in chunk_bits : c[1] = b => c[2] <= LastDataPage
    BY <1>3 DEF IInv, AllocInv, TypeOK, BlocksTypeOK, Chunks, Pages
  <2>3. \A c \in live \cup soft : c[1] \in has_summary' => c[2] <= LastDataPage
    BY <1>1, <2>2 DEF IInv, SummaryInv, BitsInv
  <2>4. call.new[2] <= LastDataPage
    BY <1>3
  <2>. QED
    BY <1>2, <2>1, <2>3, <2>4 DEF SummaryInv
<1>15. PageCountsExact'
  <2>1. ASSUME NEW d \in Blocks
        PROVE  pages_in_use'[d] = Cardinality(ChunksOf(d, chunk_bits'))
    <3>1. CASE d = b
      <4>1. Cardinality(added) = n
        BY <1>1, <1>3, CountPages
      <4>2. Cardinality(ChunksOf(b, chunk_bits \cup added)) =
              Cardinality(ChunksOf(b, chunk_bits)) + Cardinality(added)
        BY <1>3, <1>4, <1>5, CountUnion DEF IInv, TypeOK, BlocksTypeOK
      <4>3. pages_in_use'[b] = pages_in_use[b] + n
        BY <1>1, <1>3 DEF IInv, TypeOK, BlocksTypeOK
      <4>. QED
        BY <1>1, <1>3, <3>1, <4>1, <4>2, <4>3 DEF IInv, PageCountsExact
    <3>2. CASE d # b
      <4>1. \A c \in added : c[1] # d
        BY <1>4, <3>2
      <4>2. ChunksOf(d, chunk_bits \cup added) = ChunksOf(d, chunk_bits)
        BY <1>4, <4>1, CountOther DEF IInv, TypeOK, BlocksTypeOK
      <4>. QED
        BY <1>1, <3>2, <4>2 DEF IInv, PageCountsExact, TypeOK, BlocksTypeOK
    <3>. QED
      BY <3>1, <3>2
  <2>. QED
    BY <1>2, <2>1 DEF IInv, PageCountsExact, ChunksOf
<1>16. CkptInv'
  BY <1>2 DEF IInv, CkptInv
<1>. QED
  BY <1>7, <1>8, <1>9, <1>10, <1>11, <1>12, <1>13, <1>14, <1>15, <1>16
       DEF IInv

-----------------------------------------------------------------------------
(* The steps of yaffs_chunk_del, yaffs_block_became_dirty, yaffs_check_gc  *)
(* and yaffs_gc_block.                                                     *)

\* A block becomes dirty only when its last bit goes.
LEMMA ChunkDelInv ==
  ASSUME IInv, ChunkDel
  PROVE  IInv'
<1>1. PICK c, b : c = del.chunk /\ b = c[1]
  OBVIOUS
<1>2. /\ pc = "del"
      /\ block_state[b] \in {"ALLOCATING", "FULL", "COLLECTING"}
      /\ oldest_dirty' = OldestUpdated(b)
      /\ n_free_chunks' = n_free_chunks + 1
      /\ chunk_bits' = chunk_bits \ {c}
      /\ pages_in_use' = [pages_in_use EXCEPT ![b] = @ - 1]
      /\ IF LeftDirty(b)
           THEN pc' = "dirty" /\ UNCHANGED del
           ELSE pc' = del.ret /\ del' = NoDel
      /\ UNCHANGED <<block_state, marks, flags, alloc, n_erased_blocks, gc,
                     ckpt, call, client, flash>>
  BY <1>1 DEF ChunkDel
<1>3. /\ c \in Chunks /\ b \in Blocks /\ c = <<b, c[2]>>
      /\ c \in chunk_bits /\ c \notin live \cup soft
  BY <1>1, <1>2 DEF IInv, CallInv, DelInv, Chunks
<1>4. /\ oldest_dirty' \in [seq : Nat, block : Blocks \cup {NoBlock}]
      /\ oldest_dirty' = oldest_dirty \/
           (/\ block_state[b] \in {"FULL", "COLLECTING"} /\ blk_seq[b] > 0
            /\ oldest_dirty' = [seq |-> blk_seq[b], block |-> b])
  BY <1>2, <1>3, OldestAfterDirt
<1>5. \/ /\ pc' = "dirty" /\ del' = del
         /\ pages_in_use[b] = 1 /\ block_state[b] \in {"FULL", "COLLECTING"}
      \/ /\ pc' = del.ret /\ del' = NoDel
         /\ del.ret \in {"idle", "skip", "finish", "collect", "collected"}
  BY <1>2 DEF LeftDirty, IInv, TypeOK, CallTypeOK
<1>6. TypeOK'
  <2>1. BlocksTypeOK'
    BY <1>2, <1>3 DEF IInv, TypeOK, BlocksTypeOK
  <2>2. CountsTypeOK'
    BY <1>2 DEF IInv, TypeOK, CountsTypeOK
  <2>3. GcTypeOK'
    BY <1>2, <1>4 DEF IInv, TypeOK, GcTypeOK
  <2>4. CallTypeOK'
    BY <1>2, <1>5 DEF IInv, TypeOK, CallTypeOK, PCs, NoDel
  <2>. QED
    BY <1>2, <2>1, <2>2, <2>3, <2>4 DEF IInv, TypeOK, MarksTypeOK,
         AllocTypeOK, CkptTypeOK, ClientTypeOK, FlashTypeOK
<1>7. CallInv'
  BY <1>2, <1>5 DEF IInv, CallInv
<1>8. AllocInv'
  BY <1>2, <1>5 DEF IInv, AllocInv, TypeOK, BlocksTypeOK, AllocTypeOK
<1>9. GcInv'
  BY <1>2, <1>3, <1>4, <1>5 DEF IInv, GcInv, TypeOK, BlocksTypeOK,
       GcTypeOK
<1>10. BitsInv'
  BY <1>2, <1>3, <1>5 DEF IInv, BitsInv, TypeOK, BlocksTypeOK
<1>11. DelInv'
  <2>1. CASE pc' = "dirty"
    <3>1. pages_in_use[b] = 1 /\ block_state[b] \in {"FULL", "COLLECTING"}
      BY <1>2, <1>5, <2>1 DEF LeftDirty
    <3>2. Cardinality(ChunksOf(b, chunk_bits \ {c})) =
            IF c[1] = b THEN Cardinality(ChunksOf(b, chunk_bits)) - 1
                        ELSE Cardinality(ChunksOf(b, chunk_bits))
      BY <1>3, CountRemove DEF IInv, TypeOK, BlocksTypeOK
    <3>3. Cardinality(ChunksOf(b, chunk_bits)) = 1
      BY <1>3, <3>1 DEF IInv, PageCountsExact
    <3>4. Cardinality(ChunksOf(b, chunk_bits \ {c})) = 0
      BY <1>1, <3>2, <3>3
    <3>5. \A d \in chunk_bits \ {c} : d[1] # b
      BY <1>3, <3>4, CountNone DEF IInv, TypeOK, BlocksTypeOK
    <3>. QED
      BY <1>1, <1>2, <1>5, <2>1, <3>1, <3>5 DEF DelInv, NoDel
  <2>2. CASE pc' # "dirty"
    BY <1>5, <2>2 DEF DelInv
  <2>. QED
    BY <2>1, <2>2
<1>12. SummaryInv'
  BY <1>2, <1>5 DEF IInv, SummaryInv, TypeOK, BlocksTypeOK
<1>13. PageCountsExact'
  <2>1. ASSUME NEW d \in Blocks
        PROVE  pages_in_use'[d] = Cardinality(ChunksOf(d, chunk_bits'))
    <3>1. Cardinality(ChunksOf(d, chunk_bits')) =
            IF c[1] = d THEN Cardinality(ChunksOf(d, chunk_bits)) - 1
                        ELSE Cardinality(ChunksOf(d, chunk_bits))
      BY <1>2, <1>3, CountRemove DEF IInv, TypeOK, BlocksTypeOK
    <3>. QED
      BY <1>1, <1>2, <1>3, <3>1 DEF IInv, PageCountsExact, TypeOK, BlocksTypeOK
  <2>. QED
    BY <1>2, <2>1 DEF IInv, PageCountsExact, ChunksOf
<1>14. SeqInv' /\ CkptInv'
  BY <1>2 DEF IInv, SeqInv, CkptInv, Used
<1>. QED
  BY <1>6, <1>7, <1>8, <1>9, <1>10, <1>11, <1>12, <1>13, <1>14 DEF IInv

\* The collector forgets a block that is to be erased.
LEMMA BecameDirtyInv ==
  ASSUME IInv, BecameDirty
  PROVE  IInv'
<1>1. PICK b : b = del.chunk[1]
  OBVIOUS
<1>2. /\ pc = "dirty" /\ pc' = "erase"
      /\ oldest_dirty' = OldestCleared(b)
      /\ block_state' = [block_state EXCEPT ![b] = "DIRTY"]
      /\ gc_block' = IF gc_block = b THEN NoBlock ELSE gc_block
      /\ gc_dirtiest' = IF gc_dirtiest = b THEN NoBlock ELSE gc_dirtiest
      /\ UNCHANGED <<usage, marks, flags, alloc, counts, gc_chunk, n_clean_ups,
                     ckpt, call, del, client, flash>>
  BY <1>1 DEF BecameDirty
<1>3. /\ b \in Blocks
      /\ block_state[b] \in {"FULL", "COLLECTING"}
      /\ \A c \in chunk_bits : c[1] # b
  BY <1>1, <1>2 DEF IInv, CallInv, DelInv, Chunks
<1>4. /\ block_state' \in [Blocks -> BlockStates]
      /\ \A c \in Blocks \ {b} : block_state'[c] = block_state[c]
      /\ block_state'[b] = "DIRTY"
  BY <1>2, <1>3 DEF IInv, TypeOK, BlocksTypeOK, BlockStates
<1>5. \/ oldest_dirty' = oldest_dirty /\ oldest_dirty.block # b
      \/ oldest_dirty' = NoOldest
  BY <1>2, <1>3 DEF OldestCleared, IInv, GcInv
<1>6. TypeOK'
  <2>1. BlocksTypeOK'
    BY <1>2, <1>4 DEF IInv, TypeOK, BlocksTypeOK
  <2>2. GcTypeOK'
    BY <1>2, <1>5 DEF IInv, TypeOK, GcTypeOK, NoOldest
  <2>3. CallTypeOK'
    BY <1>2 DEF IInv, TypeOK, CallTypeOK, PCs
  <2>. QED
    BY <1>2, <2>1, <2>2, <2>3 DEF IInv, TypeOK, MarksTypeOK, AllocTypeOK,
         CountsTypeOK, CkptTypeOK, ClientTypeOK, FlashTypeOK
<1>7. CallInv'
  BY <1>2 DEF IInv, CallInv
<1>8. AllocInv'
  BY <1>2, <1>3, <1>4 DEF IInv, AllocInv, TypeOK, BlocksTypeOK,
       AllocTypeOK
<1>9. SeqInv'
  BY <1>2, <1>3, <1>4 DEF IInv, SeqInv, Used
<1>10. GcInv'
  BY <1>2, <1>3, <1>4, <1>5 DEF IInv, GcInv, TypeOK, BlocksTypeOK,
       GcTypeOK, NoOldest
<1>11. BitsInv'
  BY <1>2, <1>3, <1>4 DEF IInv, BitsInv, TypeOK, BlocksTypeOK, Chunks
<1>12. DelInv'
  BY <1>2, <1>3, <1>4, <1>1 DEF IInv, DelInv
<1>13. SummaryInv'
  BY <1>2, <1>3, <1>4 DEF IInv, SummaryInv, TypeOK, BlocksTypeOK
<1>14. CkptInv' /\ PageCountsExact'
  BY <1>2 DEF IInv, CkptInv, PageCountsExact, ChunksOf
<1>. QED
  BY <1>6, <1>7, <1>8, <1>9, <1>10, <1>11, <1>12, <1>13, <1>14 DEF IInv

\* An erased block held nothing.
LEMMA EraseOkInv ==
  ASSUME IInv, EraseOk
  PROVE  IInv'
<1>1. PICK b : b = del.chunk[1]
  OBVIOUS
<1>2. /\ pc = "erase"
      /\ block_state' = [block_state EXCEPT ![b] = "EMPTY"]
      /\ blk_seq' = [blk_seq EXCEPT ![b] = 0]
      /\ n_erased_blocks' = n_erased_blocks + 1
      /\ pages_in_use' = [pages_in_use EXCEPT ![b] = 0]
      /\ soft_del_pages' = [soft_del_pages EXCEPT ![b] = 0]
      /\ has_shrink_hdr' = has_shrink_hdr \ {b}
      /\ has_summary' = has_summary \ {b}
      /\ gc_prioritise' = gc_prioritise \ {b}
      /\ chunk_bits' = {c \in chunk_bits : c[1] # b}
      /\ programmed' = {c \in programmed : c[1] # b}
      /\ overprogrammed' = {c \in overprogrammed : c[1] # b}
      /\ shadow' = {s \in shadow : b \notin {s[1], s[2]}}
      /\ pc' = del.ret /\ del' = NoDel
      /\ UNCHANGED <<needs_retiring, strikes, pending_gc, alloc_block,
                     alloc_page, alloc_block_finder, seq_number, n_free_chunks,
                     gc, oldest_dirty, ckpt, call, live, soft, faults>>
  BY <1>1 DEF EraseOk
<1>3. /\ b \in Blocks /\ block_state[b] = "DIRTY"
      /\ \A c \in chunk_bits : c[1] # b
      /\ chunk_bits' = chunk_bits
  BY <1>1, <1>2 DEF IInv, CallInv, DelInv, Chunks
<1>4. /\ block_state' \in [Blocks -> BlockStates]
      /\ \A c \in Blocks \ {b} : block_state'[c] = block_state[c]
      /\ block_state'[b] = "EMPTY"
  BY <1>2, <1>3 DEF IInv, TypeOK, BlocksTypeOK, BlockStates
<1>5. /\ blk_seq' \in [Blocks -> Nat]
      /\ \A c \in Blocks \ {b} : blk_seq'[c] = blk_seq[c]
  BY <1>2, <1>3 DEF IInv, TypeOK, AllocTypeOK
<1>6. del.ret \in {"idle", "skip", "finish", "collect", "collected"}
  BY DEF IInv, TypeOK, CallTypeOK
<1>7. TypeOK'
  <2>1. BlocksTypeOK'
    BY <1>2, <1>4 DEF IInv, TypeOK, BlocksTypeOK
  <2>2. MarksTypeOK'
    BY <1>2 DEF IInv, TypeOK, MarksTypeOK
  <2>3. AllocTypeOK'
    BY <1>2, <1>5 DEF IInv, TypeOK, AllocTypeOK
  <2>4. CountsTypeOK'
    BY <1>2 DEF IInv, TypeOK, CountsTypeOK
  <2>5. CallTypeOK'
    BY <1>2, <1>6 DEF IInv, TypeOK, CallTypeOK, PCs, NoDel
  <2>6. ClientTypeOK'
    <3>1. shadow' \subseteq shadow
      BY <1>2
    <3>2. soft_del_pages' \in [Blocks -> Int]
      BY <1>2, <1>3 DEF IInv, TypeOK, ClientTypeOK
    <3>. QED
      BY <1>2, <3>1, <3>2 DEF IInv, TypeOK, ClientTypeOK
  <2>7. FlashTypeOK'
    BY <1>2 DEF IInv, TypeOK, FlashTypeOK
  <2>. QED
    BY <1>2, <2>1, <2>2, <2>3, <2>4, <2>5, <2>6, <2>7 DEF IInv, TypeOK,
         GcTypeOK, CkptTypeOK
<1>8. CallInv'
  BY <1>2, <1>6 DEF IInv, CallInv
<1>9. AllocInv'
  BY <1>2, <1>3, <1>4, <1>5, <1>6 DEF IInv, AllocInv, TypeOK,
       BlocksTypeOK, AllocTypeOK
<1>10. SeqInv'
  BY <1>2, <1>3, <1>4, <1>5, <1>6 DEF IInv, SeqInv, Used
<1>11. GcInv'
  BY <1>2, <1>3, <1>4, <1>5, <1>6 DEF IInv, GcInv, TypeOK, BlocksTypeOK,
       GcTypeOK
<1>12. BitsInv'
  BY <1>2, <1>3, <1>4, <1>5, <1>6 DEF IInv, BitsInv, TypeOK,
       BlocksTypeOK, Chunks
<1>13. DelInv'
  BY <1>2, <1>6 DEF IInv, DelInv
<1>14. SummaryInv'
  BY <1>2, <1>3, <1>4, <1>5, <1>6 DEF IInv, SummaryInv, TypeOK,
       BlocksTypeOK
<1>15. PageCountsExact'
  <2>1. ASSUME NEW d \in Blocks
        PROVE  /\ pages_in_use'[d] = Cardinality(ChunksOf(d, chunk_bits))
               /\ soft_del_pages'[d] = Cardinality(ChunksOf(d, soft))
    <3>1. CASE d = b
      <4>1. /\ Cardinality(ChunksOf(b, chunk_bits)) = 0
            /\ Cardinality(ChunksOf(b, soft)) = 0
        BY <1>3, CountNone DEF IInv, BitsInv, TypeOK, BlocksTypeOK, ClientTypeOK
      <4>. QED
        BY <1>2, <1>3, <3>1, <4>1 DEF IInv, TypeOK, BlocksTypeOK, ClientTypeOK
    <3>2. CASE d # b
      BY <1>2, <1>3, <3>2 DEF IInv, PageCountsExact, TypeOK, BlocksTypeOK, ClientTypeOK
    <3>. QED
      BY <3>1, <3>2
  <2>. QED
    BY <1>2, <1>3, <2>1 DEF PageCountsExact, ChunksOf
<1>16. CkptInv'
  BY <1>2 DEF IInv, CkptInv
<1>. QED
  BY <1>7, <1>8, <1>9, <1>10, <1>11, <1>12, <1>13, <1>14, <1>15, <1>16
       DEF IInv

\* Nor did a retired one.
LEMMA RetireBlockInv ==
  ASSUME IInv, RetireBlock
  PROVE  IInv'
<1>1. PICK b : b = del.chunk[1]
  OBVIOUS
<1>2. /\ pc = "erase"
      /\ n_free_chunks' = FreeAfterRetiring
      /\ oldest_dirty' = OldestCleared(b)
      /\ block_state' = [block_state EXCEPT ![b] = "DEAD"]
      /\ gc_prioritise' = gc_prioritise \ {b}
      /\ needs_retiring' = needs_retiring \ {b}
      /\ shadow' = {s \in shadow : b \notin {s[1], s[2]}}
      /\ pc' = del.ret /\ del' = NoDel
      /\ faults' \in {faults, faults + 1}
      /\ UNCHANGED <<usage, flags, strikes, pending_gc, alloc, n_erased_blocks,
                     gc, ckpt, call, live, soft, soft_del_pages, programmed,
                     overprogrammed>>
  BY <1>1 DEF RetireBlock, Fault
<1>3. /\ b \in Blocks /\ block_state[b] = "DIRTY"
      /\ \A c \in chunk_bits : c[1] # b
  BY <1>1, <1>2 DEF IInv, CallInv, DelInv, Chunks
<1>4. /\ block_state' \in [Blocks -> BlockStates]
      /\ \A c \in Blocks \ {b} : block_state'[c] = block_state[c]
      /\ block_state'[b] = "DEAD"
  BY <1>2, <1>3 DEF IInv, TypeOK, BlocksTypeOK, BlockStates
<1>5. oldest_dirty' \in {oldest_dirty, NoOldest}
  BY <1>2 DEF OldestCleared
<1>6. del.ret \in {"idle", "skip", "finish", "collect", "collected"}
  BY DEF IInv, TypeOK, CallTypeOK
<1>7. TypeOK'
  <2>1. BlocksTypeOK'
    BY <1>2, <1>4 DEF IInv, TypeOK, BlocksTypeOK
  <2>2. MarksTypeOK'
    BY <1>2 DEF IInv, TypeOK, MarksTypeOK
  <2>3. CountsTypeOK'
    BY <1>2, GeometryAssumption DEF IInv, TypeOK, CountsTypeOK,
         FreeAfterRetiring
  <2>4. GcTypeOK'
    BY <1>2, <1>5 DEF IInv, TypeOK, GcTypeOK, NoOldest
  <2>5. CallTypeOK'
    BY <1>2, <1>6 DEF IInv, TypeOK, CallTypeOK, PCs, NoDel
  <2>6. ClientTypeOK'
    BY <1>2 DEF IInv, TypeOK, ClientTypeOK
  <2>7. FlashTypeOK'
    BY <1>2 DEF IInv, TypeOK, FlashTypeOK
  <2>. QED
    BY <1>2, <2>1, <2>2, <2>3, <2>4, <2>5, <2>6, <2>7 DEF IInv, TypeOK,
         AllocTypeOK, CkptTypeOK
<1>8. CallInv'
  BY <1>2, <1>6 DEF IInv, CallInv
<1>9. AllocInv'
  BY <1>2, <1>3, <1>4, <1>6 DEF IInv, AllocInv, TypeOK, BlocksTypeOK,
       AllocTypeOK
<1>10. SeqInv'
  BY <1>2, <1>3, <1>4, <1>6 DEF IInv, SeqInv, Used
<1>11. GcInv'
  BY <1>2, <1>3, <1>4, <1>6, <1>5 DEF IInv, GcInv, TypeOK, BlocksTypeOK,
       GcTypeOK, NoOldest
<1>12. BitsInv'
  BY <1>2, <1>3, <1>4, <1>6 DEF IInv, BitsInv, TypeOK, BlocksTypeOK,
       Chunks
<1>13. DelInv'
  BY <1>2, <1>6 DEF IInv, DelInv
<1>14. SummaryInv'
  BY <1>2, <1>3, <1>4, <1>6 DEF IInv, SummaryInv, TypeOK, BlocksTypeOK
<1>15. CkptInv' /\ PageCountsExact'
  BY <1>2 DEF IInv, CkptInv, PageCountsExact, ChunksOf
<1>. QED
  BY <1>7, <1>8, <1>9, <1>10, <1>11, <1>12, <1>13, <1>14, <1>15 DEF IInv

\* yaffs_gc_block is called on a full block.
LEMMA GcBlockCalledInv ==
  ASSUME IInv, pc = "gc", MarksTypeOK',
         NEW b \in Blocks, block_state[b] = "FULL",
         GcBlockCalled(b), gc_block \in {NoBlock, b},
         gc_chunk' \in {gc_chunk, 0}, n_clean_ups' \in {n_clean_ups, 0},
         gc_dirtiest' \in {gc_dirtiest, NoBlock},
         oldest_dirty' \in {oldest_dirty, Oldest}
  PROVE  IInv'
<1>1. TypeOK'
  <2>1. MarksTypeOK'
    OBVIOUS
  <2>2. GcTypeOK'
    BY OldestFit, GeometryAssumption DEF IInv, TypeOK, GcTypeOK,
         GcBlockCalled
  <2>3. CallTypeOK'
    BY DEF IInv, TypeOK, CallTypeOK, GcBlockCalled, PCs
  <2>. QED
    BY <2>1, <2>2, <2>3 DEF IInv, TypeOK, BlocksTypeOK, AllocTypeOK,
         CountsTypeOK, CkptTypeOK, ClientTypeOK, FlashTypeOK, GcBlockCalled
<1>2. CallInv'
  BY DEF IInv, CallInv, GcBlockCalled, TypeOK, CallTypeOK
<1>3. AllocInv'
  BY DEF IInv, AllocInv, TypeOK, BlocksTypeOK, AllocTypeOK,
       GcBlockCalled, CallInv
<1>4. GcInv'
  <2>1. ~ InGc /\ ~ InGc'
    BY DEF IInv, CallInv, TypeOK, CallTypeOK, GcBlockCalled
  <2>2. /\ gc_block' = b /\ block_state' = block_state /\ blk_seq' = blk_seq
        /\ \A c \in Blocks : block_state[c] # "COLLECTING"
    BY <2>1 DEF IInv, GcInv, GcBlockCalled
  <2>3. /\ oldest_dirty'.seq # 0 <=> oldest_dirty'.block # NoBlock
        /\ oldest_dirty'.seq # 0 =>
             /\ block_state[oldest_dirty'.block] \in {"FULL", "COLLECTING"}
             /\ blk_seq[oldest_dirty'.block] = oldest_dirty'.seq
    BY OldestFit DEF IInv, GcInv
  <2>. QED
    BY <2>1, <2>2, <2>3 DEF IInv, GcInv
<1>5. DelInv'
  BY DEF IInv, DelInv, GcBlockCalled
<1>6. SummaryInv'
  BY DEF IInv, SummaryInv, TypeOK, BlocksTypeOK, GcBlockCalled
<1>7. SeqInv' /\ CkptInv' /\ PageCountsExact' /\ BitsInv'
  BY DEF IInv, SeqInv, CkptInv, PageCountsExact, BitsInv, Used, ChunksOf,
       GcBlockCalled
<1>. QED
  BY <1>1, <1>2, <1>3, <1>4, <1>5, <1>6, <1>7 DEF IInv

\* Nothing is being collected when the collector looks for a block.
LEMMA NothingCollecting ==
  ASSUME IInv, pc = "gc", gc_block = NoBlock
  PROVE  /\ \A c \in Blocks : block_state[c] # "COLLECTING"
         /\ gc_dirtiest # NoBlock => block_state[gc_dirtiest] = "FULL"
         /\ oldest_dirty.block # NoBlock => block_state[oldest_dirty.block] = "FULL"
         /\ Oldest.block # NoBlock => block_state[Oldest.block] = "FULL"
<1>1. \A c \in Blocks : block_state[c] # "COLLECTING"
  BY DEF IInv, GcInv
<1>. QED
  BY <1>1, OldestFit DEF IInv, GcInv, TypeOK, GcTypeOK

\* A collection is resumed on the block it left full.
LEMMA ResumeGcInv ==
  ASSUME IInv, ResumeGc
  PROVE  IInv'
<1>1. pc = "gc" /\ gc_block \in Blocks /\ GcBlockCalled(gc_block)
      /\ UNCHANGED <<marks, gc_chunk, gc_dirtiest, n_clean_ups, oldest_dirty>>
  BY DEF ResumeGc, Collecting, IInv, TypeOK, GcTypeOK
<1>2. block_state[gc_block] = "FULL"
  BY <1>1 DEF IInv, GcInv, CallInv
<1>3. MarksTypeOK'
  BY <1>1 DEF IInv, TypeOK, MarksTypeOK
<1>. QED
  BY <1>1, <1>2, <1>3, GcBlockCalledInv

\* A refresh takes a full block.
LEMMA RefreshSelectInv ==
  ASSUME IInv, RefreshSelect
  PROVE  IInv'
<1>1. pc = "gc" /\ gc_block = NoBlock /\ gc_chunk' = 0 /\ n_clean_ups' = 0
      /\ UNCHANGED <<marks, gc_dirtiest, oldest_dirty>>
  BY DEF RefreshSelect, Collecting
<1>2. PICK b \in Blocks : block_state[b] = "FULL" /\ GcBlockCalled(b)
  BY DEF RefreshSelect, IsOldestIn
<1>3. MarksTypeOK'
  BY <1>1 DEF IInv, TypeOK, MarksTypeOK
<1>. QED
  BY <1>1, <1>2, <1>3, GcBlockCalledInv

\* The searches that end with a selection.
LEMMA GcSelectedInv ==
  ASSUME IInv, pc = "gc", gc_block = NoBlock, MarksTypeOK',
         NEW b \in Blocks, block_state[b] = "FULL", GcSelected(b),
         oldest_dirty' \in {oldest_dirty, Oldest}
  PROVE  IInv'
BY GcBlockCalledInv DEF GcSelected

\* Finding no prioritised block leaves the marks in order.
LEMMA MarksAfterSearch ==
  ASSUME MarksTypeOK, NoPrioritised
  PROVE  MarksTypeOK'
BY DEF MarksTypeOK, NoPrioritised

\* A prioritised block that is selected is full.
LEMMA PrioritisedSelectInv ==
  ASSUME IInv, PrioritisedSelect
  PROVE  IInv'
<1>1. pc = "gc" /\ gc_block = NoBlock /\ UNCHANGED marks
      /\ oldest_dirty' \in {oldest_dirty, Oldest}
  BY DEF PrioritisedSelect, Searching, Collecting, OldestMayBeFound
<1>2. PICK b \in Prioritised : GcSelected(b)
  BY DEF PrioritisedSelect
<1>3. b \in Blocks /\ block_state[b] = "FULL"
  BY <1>2 DEF Prioritised, IInv, TypeOK, MarksTypeOK
<1>4. MarksTypeOK'
  BY <1>1 DEF IInv, TypeOK, MarksTypeOK
<1>. QED
  BY <1>1, <1>2, <1>3, <1>4, GcSelectedInv

\* The oldest dirty block selected in its stead is full.
LEMMA OldestForPrioritisedInv ==
  ASSUME IInv, OldestForPrioritised
  PROVE  IInv'
<1>1. pc = "gc" /\ gc_block = NoBlock /\ UNCHANGED marks
      /\ oldest_dirty' \in {oldest_dirty, Oldest}
      /\ oldest_dirty'.block # NoBlock /\ GcSelected(oldest_dirty'.block)
  BY DEF OldestForPrioritised, Searching, Collecting, OldestMayBeFound
<1>2. oldest_dirty'.block \in Blocks
  BY <1>1, OldestFit DEF IInv, TypeOK, GcTypeOK
<1>3. block_state[oldest_dirty'.block] = "FULL"
  BY <1>1, NothingCollecting
<1>4. MarksTypeOK'
  BY <1>1 DEF IInv, TypeOK, MarksTypeOK
<1>. QED
  BY <1>1, <1>2, <1>3, <1>4, GcSelectedInv

\* The dirtiest block, remembered from an earlier search, is still full.
LEMMA DirtiestSelectInv ==
  ASSUME IInv, DirtiestSelect
  PROVE  IInv'
<1>1. pc = "gc" /\ gc_block = NoBlock /\ NoPrioritised
  BY DEF DirtiestSelect, Searching, Collecting
<1>2. PICK b \in Blocks : IsDirtiest(b) /\ GcSelected(b)
  BY DEF DirtiestSelect
<1>3. oldest_dirty' \in {oldest_dirty, Oldest}
  BY <1>2 DEF IsDirtiest, OldestMayBeFound
<1>4. b = gc_dirtiest \/ b \in Candidates
  BY <1>2, GeometryAssumption DEF IsDirtiest
<1>5. block_state[b] = "FULL"
  BY <1>1, <1>4, NothingCollecting, GeometryAssumption DEF Candidates, PartlyUsed
<1>6. MarksTypeOK'
  BY <1>1, MarksAfterSearch DEF IInv, TypeOK
<1>. QED
  BY <1>1, <1>2, <1>3, <1>5, <1>6, GcSelectedInv

\* The oldest dirty block, remembered too, is still full.
LEMMA OldestSelectInv ==
  ASSUME IInv, OldestSelect
  PROVE  IInv'
<1>1. pc = "gc" /\ gc_block = NoBlock /\ NoPrioritised
      /\ oldest_dirty' = Oldest
      /\ oldest_dirty'.block # NoBlock /\ GcSelected(oldest_dirty'.block)
  BY DEF OldestSelect, Searching, Collecting
<1>2. oldest_dirty'.block \in Blocks
  BY <1>1, OldestFit
<1>3. block_state[oldest_dirty'.block] = "FULL"
  BY <1>1, NothingCollecting
<1>4. MarksTypeOK'
  BY <1>1, MarksAfterSearch DEF IInv, TypeOK
<1>. QED
  BY <1>1, <1>2, <1>3, <1>4, GcSelectedInv

\* A search that selects nothing remembers only full blocks.
LEMMA SelectNoneInv ==
  ASSUME IInv, SelectNone
  PROVE  IInv'
<1>1. /\ pc = "gc" /\ gc_block = NoBlock /\ NoPrioritised
      /\ gc_chunk' = 0 /\ n_clean_ups' = 0
      /\ UNCHANGED <<block_state, usage, flags, alloc, counts, gc_block, ckpt, del,
                     client, flash>>
  BY DEF SelectNone, Searching, Collecting
<1>2. /\ oldest_dirty' \in {oldest_dirty, Oldest}
      /\ gc_dirtiest' \in {NoBlock, gc_dirtiest} \cup Candidates
  BY DEF SelectNone, IsDirtiest, OldestMayBeFound
<1>3. gc_dirtiest' # NoBlock =>
        gc_dirtiest' \in Blocks /\ block_state[gc_dirtiest'] = "FULL"
  BY <1>1, <1>2, NothingCollecting
    DEF Candidates, PartlyUsed, IInv, TypeOK, GcTypeOK
<1>4. /\ oldest_dirty' \in [seq : Nat, block : Blocks \cup {NoBlock}]
      /\ oldest_dirty'.seq # 0 <=> oldest_dirty'.block # NoBlock
      /\ oldest_dirty'.seq # 0 =>
           /\ block_state[oldest_dirty'.block] \in {"FULL", "COLLECTING"}
           /\ blk_seq[oldest_dirty'.block] = oldest_dirty'.seq
  BY <1>2, OldestFit DEF IInv, GcInv, TypeOK, GcTypeOK
<1>5. pc' \in {"choose", "idle"} /\ call' = NoCall
  BY DEF SelectNone, EndGc
<1>6. TypeOK'
  <2>1. MarksTypeOK'
    BY <1>1, MarksAfterSearch DEF IInv, TypeOK
  <2>2. GcTypeOK'
    BY <1>1, <1>3, <1>4, GeometryAssumption DEF IInv, TypeOK, GcTypeOK
  <2>3. CallTypeOK'
    BY <1>1, <1>5 DEF IInv, TypeOK, CallTypeOK, PCs, NoCall
  <2>. QED
    BY <1>1, <2>1, <2>2, <2>3 DEF IInv, TypeOK, BlocksTypeOK,
         AllocTypeOK, CountsTypeOK, CkptTypeOK, ClientTypeOK, FlashTypeOK
<1>7. CallInv'
  BY <1>1, <1>5 DEF IInv, CallInv, NoCall
<1>8. AllocInv'
  BY <1>1, <1>5 DEF IInv, AllocInv, TypeOK, BlocksTypeOK, AllocTypeOK
<1>9. GcInv'
  BY <1>1, <1>3, <1>4, <1>5 DEF IInv, GcInv, TypeOK, BlocksTypeOK,
       GcTypeOK, NoCall, CallInv
<1>10. BitsInv'
  BY <1>1, <1>5 DEF IInv, BitsInv, TypeOK, BlocksTypeOK
<1>11. DelInv'
  BY <1>1, <1>5 DEF IInv, DelInv
<1>12. SummaryInv'
  BY <1>1, <1>5 DEF IInv, SummaryInv, TypeOK, BlocksTypeOK
<1>13. SeqInv' /\ CkptInv' /\ PageCountsExact'
  BY <1>1 DEF IInv, SeqInv, CkptInv, PageCountsExact, Used, ChunksOf
<1>. QED
  BY <1>6, <1>7, <1>8, <1>9, <1>10, <1>11, <1>12, <1>13 DEF IInv

\* A call begins with nothing in progress.
LEMMA BeginCallInv ==
  ASSUME IInv, NEW job \in {"write", "bg"}, BeginCall(job)
  PROVE  IInv'
<1>1. TypeOK'
  <2>1. CallTypeOK'
    BY DEF IInv, TypeOK, CallTypeOK, BeginCall, PCs, NoCall
  <2>. QED
    BY <2>1 DEF IInv, TypeOK, BlocksTypeOK, MarksTypeOK, AllocTypeOK,
         CountsTypeOK, GcTypeOK, CkptTypeOK, ClientTypeOK, FlashTypeOK,
         BeginCall
<1>2. CallInv'
  BY DEF IInv, CallInv, BeginCall, NoCall
<1>3. AllocInv'
  BY DEF IInv, AllocInv, TypeOK, BlocksTypeOK, AllocTypeOK, BeginCall,
       CallInv
<1>4. GcInv'
  BY DEF IInv, GcInv, TypeOK, BlocksTypeOK, GcTypeOK, BeginCall, CallInv,
       NoCall
<1>5. DelInv'
  BY DEF IInv, DelInv, BeginCall
<1>6. SummaryInv'
  BY DEF IInv, SummaryInv, TypeOK, BlocksTypeOK, BeginCall
<1>7. SeqInv' /\ CkptInv' /\ PageCountsExact' /\ BitsInv'
  BY DEF IInv, SeqInv, CkptInv, PageCountsExact, BitsInv, Used, ChunksOf,
       BeginCall
<1>. QED
  BY <1>1, <1>2, <1>3, <1>4, <1>5, <1>6, <1>7 DEF IInv

\* No collection is needed.
LEMMA SkipGcInv ==
  ASSUME IInv, SkipGc
  PROVE  IInv'
<1>1. TypeOK'
  <2>1. CallTypeOK'
    BY NoCallType DEF IInv, TypeOK, SkipGc, EndGc, PCs
  <2>. QED
    BY <2>1 DEF IInv, TypeOK, BlocksTypeOK, MarksTypeOK, AllocTypeOK,
         CountsTypeOK, GcTypeOK, CkptTypeOK, ClientTypeOK, FlashTypeOK,
         SkipGc, EndGc, NoCall
<1>2. CallInv'
  BY DEF IInv, CallInv, SkipGc, EndGc, NoCall
<1>3. AllocInv'
  BY DEF IInv, AllocInv, TypeOK, BlocksTypeOK, AllocTypeOK, SkipGc,
       EndGc, NoCall, CallInv
<1>4. GcInv'
  BY DEF IInv, GcInv, TypeOK, BlocksTypeOK, GcTypeOK, SkipGc, EndGc,
       NoCall, CallInv
<1>5. DelInv'
  BY DEF IInv, DelInv, SkipGc, EndGc, NoCall
<1>6. SummaryInv'
  BY DEF IInv, SummaryInv, TypeOK, BlocksTypeOK, SkipGc, EndGc, NoCall
<1>7. SeqInv' /\ CkptInv' /\ PageCountsExact' /\ BitsInv'
  BY DEF IInv, SeqInv, CkptInv, PageCountsExact, BitsInv, Used, ChunksOf,
       SkipGc, EndGc, NoCall
<1>. QED
  BY <1>1, <1>2, <1>3, <1>4, <1>5, <1>6, <1>7 DEF IInv

\* The chunks a summary gives up hold no data.
LEMMA GcBlockStartInv ==
  ASSUME IInv, GcBlockStart
  PROVE  IInv'
<1>1. PICK b, dropped, left :
        /\ b = gc_block
        /\ dropped = IF b \in has_summary
                       THEN chunk_bits \cap ({b} \X SummaryPages) ELSE {}
        /\ left = {c \in chunk_bits \ dropped : c[1] = b}
        /\ pc = "gcblk"
        /\ block_state' = [block_state EXCEPT ![b] = "COLLECTING"]
        /\ has_shrink_hdr' = has_shrink_hdr \ {b}
        /\ chunk_bits' = chunk_bits \ dropped
        /\ pages_in_use' = [pages_in_use EXCEPT ![b] = @ - Cardinality(dropped)]
        /\ n_free_chunks' = n_free_chunks + Cardinality(dropped)
        /\ UNCHANGED <<marks, has_summary, alloc, n_erased_blocks, gc, oldest_dirty,
                       ckpt, client, flash>>
  BY DEF GcBlockStart
<1>2. \/ /\ {c \in chunk_bits' : c[1] = b} = {}
         /\ pc' = "dirty" /\ call' = call
         /\ del' = [chunk |-> <<b, 0>>, ret |-> "collected"]
      \/ /\ pc' = "collect" /\ del' = del
         /\ call' = [call EXCEPT
              !.ok = TRUE,
              !.copies = IF Aggressive THEN ChunksPerBlock ELSE MaxCopies]
  BY <1>1 DEF GcBlockStart
<1>3. /\ b \in Blocks /\ block_state[b] = "FULL"
      /\ call.ingc = FALSE
  BY <1>1, GeometryAssumption DEF IInv, CallInv, GcInv, TypeOK, GcTypeOK, CallTypeOK
<1>4. /\ dropped \in SUBSET chunk_bits /\ dropped \in SUBSET Chunks
      /\ \A c \in dropped : c[1] = b
      /\ dropped \cap (live \cup soft) = {}
      /\ Cardinality(dropped) \in Nat
  <2>1. dropped \in SUBSET chunk_bits /\ \A c \in dropped : c[1] = b
    BY <1>1
  <2>2. \A c \in dropped : c[1] \in has_summary /\ ~ (c[2] <= LastDataPage)
    BY <1>1, GeometryAssumption DEF SummaryPages, LastDataPage
  <2>3. dropped \in SUBSET Chunks
    BY <2>1 DEF IInv, TypeOK, BlocksTypeOK
  <2>. QED
    BY <2>1, <2>2, <2>3, FiniteChunks DEF IInv, SummaryInv
<1>5. /\ block_state' \in [Blocks -> BlockStates]
      /\ \A c \in Blocks \ {b} : block_state'[c] = block_state[c]
      /\ block_state'[b] = "COLLECTING"
  BY <1>1, <1>3 DEF IInv, TypeOK, BlocksTypeOK, BlockStates
<1>6. /\ UNCHANGED <<gc_block, marks, has_summary, alloc, n_erased_blocks, gc,
                     oldest_dirty, ckpt, client, flash>>
      /\ pc = "gcblk" /\ b = gc_block
  BY <1>1
<1>7. TypeOK'
  <2>1. BlocksTypeOK'
    <3>1. pages_in_use' \in [Blocks -> Int]
      BY <1>1, <1>3, <1>4 DEF IInv, TypeOK, BlocksTypeOK
    <3>. QED
      BY <1>1, <1>5, <3>1 DEF IInv, TypeOK, BlocksTypeOK
  <2>2. CountsTypeOK'
    BY <1>1, <1>4 DEF IInv, TypeOK, CountsTypeOK
  <2>3. CallTypeOK'
    <3>1. del' \in [chunk : Chunks \cup {NoChunk},
                    ret : {"idle", "skip", "finish", "collect", "collected"}]
      BY <1>2, <1>3, GeometryAssumption DEF IInv, TypeOK, CallTypeOK, Chunks, Pages
    <3>2. pc' \in PCs
      BY <1>2 DEF PCs
    <3>. QED
      BY <1>2, <3>1, <3>2, GeometryAssumption, BoundsAssumption
      DEF IInv, TypeOK, CallTypeOK
  <2>. QED
    BY <1>6, <2>1, <2>2, <2>3 DEF IInv, TypeOK, MarksTypeOK, AllocTypeOK,
         GcTypeOK, CkptTypeOK, ClientTypeOK, FlashTypeOK
<1>8. CallInv'
  <2>1. call'.ingc = FALSE
    BY <1>2, <1>3 DEF IInv, TypeOK, CallTypeOK
  <2>2. <<b, 0>> \in Chunks
    BY <1>3, GeometryAssumption DEF Chunks, Pages
  <2>. QED
    BY <1>2, <2>1, <2>2 DEF CallInv
<1>9. AllocInv'
  BY <1>1, <1>2, <1>3, <1>5, <1>6 DEF IInv, AllocInv, TypeOK,
       BlocksTypeOK, AllocTypeOK
<1>10. SeqInv'
  BY <1>2, <1>3, <1>5, <1>6 DEF IInv, SeqInv, Used
<1>11. GcInv'
  <2>1. InGc'
    BY <1>2
  <2>2. \A c \in Blocks \ {b} : block_state[c] # "COLLECTING"
    BY <1>6 DEF IInv, GcInv
  <2>. QED
    BY <1>3, <1>5, <1>6, <2>1, <2>2 DEF IInv, GcInv, TypeOK, GcTypeOK
<1>12. BitsInv'
  BY <1>1, <1>4, <1>2, <1>3, <1>5, <1>6 DEF IInv, BitsInv, TypeOK,
       BlocksTypeOK, Chunks
<1>13. DelInv'
  BY <1>2, <1>3, <1>5 DEF DelInv
<1>14. SummaryInv'
  BY <1>2, <1>3, <1>5, <1>6 DEF IInv, SummaryInv, TypeOK, BlocksTypeOK
<1>15. PageCountsExact'
  <2>1. ASSUME NEW d \in Blocks
        PROVE  pages_in_use'[d] = Cardinality(ChunksOf(d, chunk_bits'))
    <3>1. CASE d = b
      <4>1. Cardinality(ChunksOf(b, chunk_bits \ dropped)) =
              Cardinality(ChunksOf(b, chunk_bits)) - Cardinality(dropped)
        BY <1>3, <1>4, CountDifference DEF IInv, TypeOK, BlocksTypeOK
      <4>2. pages_in_use'[b] = pages_in_use[b] - Cardinality(dropped)
        BY <1>1, <1>3 DEF IInv, TypeOK, BlocksTypeOK
      <4>. QED
        BY <1>1, <1>3, <3>1, <4>1, <4>2 DEF IInv, PageCountsExact
    <3>2. CASE d # b
      <4>1. \A c \in dropped : c[1] # d
        BY <1>4, <3>2
      <4>2. ChunksOf(d, chunk_bits \ dropped) = ChunksOf(d, chunk_bits)
        BY <1>4, <4>1, CountOther DEF IInv, TypeOK, BlocksTypeOK
      <4>. QED
        BY <1>1, <3>2, <4>2 DEF IInv, PageCountsExact, TypeOK, BlocksTypeOK
    <3>. QED
      BY <3>1, <3>2
  <2>. QED
    BY <1>6, <2>1 DEF IInv, PageCountsExact, ChunksOf
<1>16. CkptInv'
  BY <1>6 DEF IInv, CkptInv
<1>. QED
  BY <1>7, <1>8, <1>9, <1>10, <1>11, <1>12, <1>13, <1>14, <1>15, <1>16
       DEF IInv

\* A chunk of a soft-deleted file is counted out of its block.
LEMMA CollectSoftInv ==
  ASSUME IInv, CollectSoft
  PROVE  IInv'
<1>1. PICK p, c :
        /\ p \in Pages /\ c = <<gc_block, p>> /\ c \in chunk_bits /\ c \in soft
        /\ gc_chunk' = p + 1 /\ soft' = soft \ {c}
        /\ pc' = "del" /\ del' = [chunk |-> c, ret |-> "collect"]
  BY DEF CollectSoft, CollectNext, LeftToCollect, CallDel
<1>2. /\ pc = "collect" /\ gc_block # NoBlock /\ call.copies > 0
      /\ n_free_chunks' = n_free_chunks - 1
      /\ soft_del_pages' = [soft_del_pages EXCEPT ![gc_block] = @ - 1]
      /\ n_clean_ups' \in {n_clean_ups, n_clean_ups + 1}
      /\ call' = [call EXCEPT !.copies = @ - 1]
      /\ UNCHANGED <<block_state, usage, marks, flags, alloc, n_erased_blocks,
                     gc_block, gc_dirtiest, oldest_dirty, ckpt, live, shadow, flash>>
  BY DEF CollectSoft, CollectNext, CollectLoops,
         FreeBeforeSoftDel, SoftDelPagesLess
<1>3. /\ c \in Chunks /\ c[1] = gc_block /\ gc_block \in Blocks
  BY <1>1, <1>2 DEF IInv, TypeOK, BlocksTypeOK, Chunks
<1>4. call'.ingc = call.ingc /\ call'.new = call.new /\ call'.old = call.old
  BY <1>2 DEF IInv, TypeOK, CallTypeOK
<1>5. TypeOK'
  <2>1. CountsTypeOK'
    BY <1>1, <1>2, <1>3, <1>4 DEF IInv, TypeOK, CountsTypeOK
  <2>2. GcTypeOK'
    BY <1>1, <1>2, <1>3, <1>4, GeometryAssumption DEF IInv, TypeOK,
         GcTypeOK, Pages
  <2>3. CallTypeOK'
    BY <1>1, <1>2, <1>3, <1>4 DEF IInv, TypeOK, CallTypeOK, PCs
  <2>4. ClientTypeOK'
    BY <1>1, <1>2, <1>3, <1>4 DEF IInv, TypeOK, ClientTypeOK
  <2>. QED
    BY <1>2, <2>1, <2>2, <2>3, <2>4 DEF IInv, TypeOK, BlocksTypeOK,
         MarksTypeOK, AllocTypeOK, CkptTypeOK, FlashTypeOK
<1>6. CallInv'
  BY <1>1, <1>2, <1>3, <1>4 DEF IInv, CallInv
<1>7. AllocInv'
  BY <1>1, <1>2 DEF IInv, AllocInv, TypeOK, BlocksTypeOK, AllocTypeOK
<1>8. GcInv'
  BY <1>1, <1>2, <1>4 DEF IInv, GcInv, TypeOK, BlocksTypeOK, GcTypeOK
<1>9. BitsInv'
  BY <1>1, <1>2, <1>3, <1>4 DEF IInv, BitsInv, TypeOK, BlocksTypeOK
<1>10. DelInv'
  BY <1>1, <1>2, <1>3, <1>4 DEF IInv, DelInv, BitsInv
<1>11. SummaryInv'
  BY <1>1, <1>2, <1>3, <1>4 DEF IInv, SummaryInv, TypeOK, BlocksTypeOK
<1>12. PageCountsExact'
  <2>1. ASSUME NEW d \in Blocks
        PROVE  soft_del_pages'[d] = Cardinality(ChunksOf(d, soft'))
    <3>1. Cardinality(ChunksOf(d, soft \ {c})) =
            IF c[1] = d THEN Cardinality(ChunksOf(d, soft)) - 1
                        ELSE Cardinality(ChunksOf(d, soft))
      BY <1>1, CountRemove DEF IInv, TypeOK, ClientTypeOK
    <3>. QED
      BY <1>1, <1>2, <1>3, <3>1 DEF IInv, PageCountsExact, TypeOK, ClientTypeOK
  <2>. QED
    BY <1>2, <2>1 DEF IInv, PageCountsExact, ChunksOf
<1>13. SeqInv' /\ CkptInv'
  BY <1>2 DEF IInv, SeqInv, CkptInv, Used
<1>. QED
  BY <1>5, <1>6, <1>7, <1>8, <1>9, <1>10, <1>11, <1>12, <1>13 DEF IInv

\* A chunk without an owner may be deleted.
LEMMA CollectOrphanInv ==
  ASSUME IInv, CollectOrphan
  PROVE  IInv'
<1>1. PICK p, c :
        /\ p \in Pages /\ c = <<gc_block, p>>
        /\ c \in chunk_bits /\ c \notin live \cup soft
        /\ gc_chunk' = p + 1
        /\ pc' = "del" /\ del' = [chunk |-> c, ret |-> "collect"]
  BY DEF CollectOrphan, CollectNext, LeftToCollect, CallDel
<1>2. /\ pc = "collect" /\ call.copies > 0
      /\ call' = [call EXCEPT !.copies = @ - 1]
      /\ UNCHANGED <<block_state, usage, marks, flags, alloc, counts, gc_block,
                     gc_dirtiest, n_clean_ups, oldest_dirty, ckpt, client, flash>>
  BY DEF CollectOrphan, CollectNext, CollectLoops
<1>3. c \in Chunks
  BY <1>1 DEF IInv, TypeOK, BlocksTypeOK
<1>4. call'.ingc = call.ingc /\ call'.new = call.new /\ call'.old = call.old
  BY <1>2 DEF IInv, TypeOK, CallTypeOK
<1>5. TypeOK'
  <2>1. GcTypeOK'
    BY <1>1, <1>2, <1>3, <1>4, GeometryAssumption DEF IInv, TypeOK,
         GcTypeOK, Pages
  <2>2. CallTypeOK'
    BY <1>1, <1>2, <1>3, <1>4 DEF IInv, TypeOK, CallTypeOK, PCs
  <2>. QED
    BY <1>2, <2>1, <2>2 DEF IInv, TypeOK, BlocksTypeOK, MarksTypeOK,
         AllocTypeOK, CountsTypeOK, CkptTypeOK, ClientTypeOK, FlashTypeOK
<1>6. CallInv'
  BY <1>1, <1>2, <1>3, <1>4 DEF IInv, CallInv
<1>7. AllocInv'
  BY <1>1, <1>2 DEF IInv, AllocInv, TypeOK, BlocksTypeOK, AllocTypeOK
<1>8. GcInv'
  BY <1>1, <1>2, <1>4 DEF IInv, GcInv, TypeOK, BlocksTypeOK, GcTypeOK
<1>9. BitsInv'
  BY <1>1, <1>2, <1>3, <1>4 DEF IInv, BitsInv, TypeOK, BlocksTypeOK
<1>10. DelInv'
  BY <1>1, <1>2, <1>3, <1>4 DEF IInv, DelInv
<1>11. SummaryInv'
  BY <1>1, <1>2, <1>3, <1>4 DEF IInv, SummaryInv, TypeOK, BlocksTypeOK
<1>12. SeqInv' /\ CkptInv' /\ PageCountsExact'
  BY <1>2 DEF IInv, SeqInv, CkptInv, PageCountsExact, Used, ChunksOf
<1>. QED
  BY <1>5, <1>6, <1>7, <1>8, <1>9, <1>10, <1>11, <1>12 DEF IInv

\* A copy of the collector begins.
LEMMA CollectCopyInv ==
  ASSUME IInv, CollectCopy
  PROVE  IInv'
<1>1. PICK p, c :
        /\ p \in Pages /\ c = <<gc_block, p>> /\ c \in live
        /\ gc_chunk' = p + 1
        /\ call' = [call EXCEPT !.copies = @ - 1, !.ingc = TRUE,
                                !.reserve = TRUE, !.old = c]
  BY DEF CollectCopy, CollectNext
<1>2. /\ pc = "collect" /\ pc' = "write" /\ call.copies > 0
      /\ UNCHANGED <<block_state, usage, marks, flags, alloc, counts, gc_block,
                     gc_dirtiest, n_clean_ups, oldest_dirty, ckpt, del, client,
                     flash>>
  BY DEF CollectCopy, CollectNext, CollectLoops
<1>3. c \in Chunks
  BY <1>1 DEF IInv, TypeOK, ClientTypeOK
<1>4. call'.ingc = TRUE /\ call'.new = call.new /\ call'.old = c
  BY <1>1 DEF IInv, TypeOK, CallTypeOK
<1>5. TypeOK'
  <2>1. GcTypeOK'
    BY <1>1, <1>2, <1>3, <1>4, GeometryAssumption DEF IInv, TypeOK,
         GcTypeOK, Pages
  <2>2. CallTypeOK'
    <3>1. [call EXCEPT !.copies = @ - 1] \in
             [job : {"none", "write", "bg", "save"}, tries : Nat,
              copies : Nat, ok : BOOLEAN, ingc : BOOLEAN, reserve : BOOLEAN,
              shrink : BOOLEAN, old : Chunks \cup {NoChunk},
              new : Chunks \cup {NoChunk}]
      BY <1>2 DEF IInv, TypeOK, CallTypeOK
    <3>. QED
      BY <1>1, <1>2, <1>3, <3>1 DEF IInv, TypeOK, CallTypeOK, PCs
  <2>. QED
    BY <1>2, <2>1, <2>2 DEF IInv, TypeOK, BlocksTypeOK, MarksTypeOK,
         AllocTypeOK, CountsTypeOK, CkptTypeOK, ClientTypeOK, FlashTypeOK
<1>6. CallInv'
  BY <1>1, <1>2, <1>4 DEF IInv, CallInv
<1>7. AllocInv'
  BY <1>2 DEF IInv, AllocInv, TypeOK, BlocksTypeOK, AllocTypeOK
<1>8. GcInv'
  BY <1>2, <1>4 DEF IInv, GcInv, TypeOK, BlocksTypeOK, GcTypeOK
<1>9. BitsInv'
  BY <1>2 DEF IInv, BitsInv, TypeOK, BlocksTypeOK
<1>10. DelInv'
  BY <1>2 DEF IInv, DelInv
<1>11. SummaryInv'
  BY <1>2 DEF IInv, SummaryInv, TypeOK, BlocksTypeOK
<1>12. SeqInv' /\ CkptInv' /\ PageCountsExact'
  BY <1>2 DEF IInv, SeqInv, CkptInv, PageCountsExact, Used, ChunksOf
<1>. QED
  BY <1>5, <1>6, <1>7, <1>8, <1>9, <1>10, <1>11, <1>12 DEF IInv

\* The loop of the collector ends.
LEMMA CollectEndInv ==
  ASSUME IInv, CollectEnd
  PROVE  IInv'
<1>1. TypeOK'
  <2>1. GcTypeOK'
    BY GeometryAssumption DEF IInv, TypeOK, GcTypeOK, CollectEnd
  <2>2. CallTypeOK'
    BY DEF IInv, TypeOK, CallTypeOK, CollectEnd, PCs
  <2>. QED
    BY <2>1, <2>2 DEF IInv, TypeOK, BlocksTypeOK, MarksTypeOK,
         AllocTypeOK, CountsTypeOK, CkptTypeOK, ClientTypeOK, FlashTypeOK,
         CollectEnd
<1>2. CallInv'
  BY DEF IInv, CallInv, CollectEnd
<1>3. AllocInv'
  BY DEF IInv, AllocInv, TypeOK, BlocksTypeOK, AllocTypeOK, CollectEnd
<1>4. GcInv'
  BY DEF IInv, GcInv, TypeOK, BlocksTypeOK, GcTypeOK, CollectEnd
<1>5. DelInv'
  BY DEF IInv, DelInv, CollectEnd
<1>6. SummaryInv'
  BY DEF IInv, SummaryInv, TypeOK, BlocksTypeOK, CollectEnd
<1>7. SeqInv' /\ CkptInv' /\ PageCountsExact' /\ BitsInv'
  BY DEF IInv, SeqInv, CkptInv, PageCountsExact, BitsInv, Used, ChunksOf,
       CollectEnd
<1>. QED
  BY <1>1, <1>2, <1>3, <1>4, <1>5, <1>6, <1>7 DEF IInv

\* An unfinished collection leaves its block full.
LEMMA CollectedSomeInv ==
  ASSUME IInv, CollectedSome
  PROVE  IInv'
<1>1. /\ pc = "collected" /\ gc_block \in Blocks
      /\ block_state' = [block_state EXCEPT ![gc_block] = "FULL"]
      /\ UNCHANGED <<usage, marks, flags, alloc, counts, gc, oldest_dirty, ckpt,
                     del, client, flash>>
  BY GeometryAssumption DEF CollectedSome, IInv, TypeOK, GcTypeOK
<1>2. /\ pc' \in {"gc", "choose", "idle"}
      /\ call' = call \/ call' = NoCall
  BY DEF CollectedSome, NextTry, EndGc
<1>3. /\ block_state[gc_block] = "COLLECTING"
      /\ call.ingc = FALSE
  BY <1>1 DEF IInv, GcInv, CallInv, TypeOK, CallTypeOK
<1>4. /\ block_state' \in [Blocks -> BlockStates]
      /\ \A c \in Blocks \ {gc_block} : block_state'[c] = block_state[c]
      /\ block_state'[gc_block] = "FULL"
  BY <1>1, <1>3 DEF IInv, TypeOK, BlocksTypeOK, BlockStates
<1>5. TypeOK'
  <2>1. BlocksTypeOK'
    BY <1>1, <1>2, <1>3, <1>4 DEF IInv, TypeOK, BlocksTypeOK
  <2>2. CallTypeOK'
    <3>1. pc' \in PCs /\ del' = del /\ call' \in {call, NoCall}
      BY <1>1, <1>2 DEF PCs
    <3>. QED
      BY <3>1, NoCallType DEF IInv, TypeOK, CallTypeOK
  <2>. QED
    BY <1>1, <2>1, <2>2 DEF IInv, TypeOK, MarksTypeOK, AllocTypeOK,
         CountsTypeOK, GcTypeOK, CkptTypeOK, ClientTypeOK, FlashTypeOK
<1>6. CallInv'
  BY <1>1, <1>2, <1>3, <1>4 DEF IInv, CallInv, NoCall
<1>7. AllocInv'
  BY <1>1, <1>2, <1>3, <1>4 DEF IInv, AllocInv, TypeOK, BlocksTypeOK,
       AllocTypeOK
<1>8. SeqInv'
  BY <1>1, <1>2, <1>3, <1>4 DEF IInv, SeqInv, Used
<1>9. GcInv'
  BY <1>1, <1>2, <1>3, <1>4 DEF IInv, GcInv, TypeOK, BlocksTypeOK,
       GcTypeOK, NoCall
<1>10. BitsInv'
  BY <1>1, <1>2, <1>3, <1>4 DEF IInv, BitsInv, TypeOK, BlocksTypeOK,
       Chunks
<1>11. DelInv'
  BY <1>1, <1>2, <1>3, <1>4 DEF IInv, DelInv
<1>12. SummaryInv'
  BY <1>1, <1>2, <1>3, <1>4 DEF IInv, SummaryInv, TypeOK, BlocksTypeOK
<1>13. CkptInv' /\ PageCountsExact'
  BY <1>1 DEF IInv, CkptInv, PageCountsExact, ChunksOf
<1>. QED
  BY <1>5, <1>6, <1>7, <1>8, <1>9, <1>10, <1>11, <1>12, <1>13 DEF IInv

\* The header of a file that is gone is deleted.
LEMMA CleanUpInv ==
  ASSUME IInv, CleanUp
  PROVE  IInv'
<1>1. /\ pc = "collected" /\ n_clean_ups > 0 /\ n_clean_ups' = n_clean_ups - 1
      /\ gc_block = NoBlock
      /\ UNCHANGED <<block_state, usage, marks, flags, alloc, counts, gc_block,
                     gc_chunk, gc_dirtiest, oldest_dirty, ckpt, call, soft,
                     soft_del_pages, shadow, flash>>
  BY DEF CleanUp
<1>2. \/ \E h \in live : /\ live' = live \ {h}
                         /\ pc' = "del" /\ del' = [chunk |-> h, ret |-> "collected"]
      \/ UNCHANGED <<live, pc, del>>
  BY DEF CleanUp, CallDel
<1>3. TypeOK'
  <2>1. GcTypeOK'
    BY <1>1, <1>2 DEF IInv, TypeOK, GcTypeOK
  <2>2. CallTypeOK'
    BY <1>1, <1>2 DEF IInv, TypeOK, CallTypeOK, PCs, ClientTypeOK
  <2>3. ClientTypeOK'
    BY <1>1, <1>2 DEF IInv, TypeOK, ClientTypeOK
  <2>. QED
    BY <1>1, <2>1, <2>2, <2>3 DEF IInv, TypeOK, BlocksTypeOK,
         MarksTypeOK, AllocTypeOK, CountsTypeOK, CkptTypeOK, FlashTypeOK
<1>4. CallInv'
  BY <1>1, <1>2 DEF IInv, CallInv, TypeOK, ClientTypeOK
<1>5. AllocInv'
  BY <1>1, <1>2 DEF IInv, AllocInv, TypeOK, BlocksTypeOK, AllocTypeOK
<1>6. GcInv'
  BY <1>1, <1>2 DEF IInv, GcInv, TypeOK, BlocksTypeOK, GcTypeOK
<1>7. BitsInv'
  BY <1>1, <1>2 DEF IInv, BitsInv, TypeOK, BlocksTypeOK
<1>8. DelInv'
  BY <1>1, <1>2 DEF IInv, DelInv, BitsInv
<1>9. SummaryInv'
  BY <1>1, <1>2 DEF IInv, SummaryInv, TypeOK, BlocksTypeOK
<1>10. SeqInv' /\ CkptInv' /\ PageCountsExact'
  BY <1>1 DEF IInv, SeqInv, CkptInv, PageCountsExact, Used, ChunksOf
<1>. QED
  BY <1>3, <1>4, <1>5, <1>6, <1>7, <1>8, <1>9, <1>10 DEF IInv

\* A finished collection has no block.
LEMMA CollectedAllInv ==
  ASSUME IInv, CollectedAll
  PROVE  IInv'
<1>1. TypeOK'
  <2>1. GcTypeOK'
    BY GeometryAssumption DEF IInv, TypeOK, GcTypeOK, CollectedAll,
         NextTry, EndGc, NoCall
  <2>2. CallTypeOK'
    <3>1. pc' \in PCs /\ del' = del /\ call' \in {call, NoCall}
      BY DEF CollectedAll, NextTry, EndGc, PCs
    <3>. QED
      BY <3>1, NoCallType DEF IInv, TypeOK, CallTypeOK
  <2>. QED
    BY <2>1, <2>2 DEF IInv, TypeOK, BlocksTypeOK, MarksTypeOK,
         AllocTypeOK, CountsTypeOK, CkptTypeOK, ClientTypeOK, FlashTypeOK,
         CollectedAll, NextTry, EndGc, NoCall
<1>2. CallInv'
  BY DEF IInv, CallInv, CollectedAll, NextTry, EndGc, NoCall
<1>3. AllocInv'
  BY DEF IInv, AllocInv, TypeOK, BlocksTypeOK, AllocTypeOK, CollectedAll,
       NextTry, EndGc, NoCall, CallInv
<1>4. GcInv'
  BY DEF IInv, GcInv, TypeOK, BlocksTypeOK, GcTypeOK, CollectedAll,
       NextTry, EndGc, NoCall, CallInv
<1>5. DelInv'
  BY DEF IInv, DelInv, CollectedAll, NextTry, EndGc, NoCall
<1>6. SummaryInv'
  BY DEF IInv, SummaryInv, TypeOK, BlocksTypeOK, CollectedAll, NextTry,
       EndGc, NoCall
<1>7. SeqInv' /\ CkptInv' /\ PageCountsExact' /\ BitsInv'
  BY DEF IInv, SeqInv, CkptInv, PageCountsExact, BitsInv, Used, ChunksOf,
       CollectedAll, NextTry, EndGc, NoCall
<1>. QED
  BY <1>1, <1>2, <1>3, <1>4, <1>5, <1>6, <1>7 DEF IInv

-----------------------------------------------------------------------------
(* The steps of the client and of a save, and the theorems.                *)

\* A write of the client begins.
LEMMA StartWriteInv ==
  ASSUME IInv, NEW old \in live \cup {NoChunk}, NEW reserve \in BOOLEAN,
         NEW shrink \in BOOLEAN, StartWrite(old, reserve, shrink)
  PROVE  IInv'
<1>1. /\ call' = [NoCall EXCEPT !.job = "write", !.old = old,
                            !.reserve = reserve, !.shrink = shrink]
      /\ call'.ingc = FALSE /\ call'.old = old
  BY DEF StartWrite, NoCall
<1>2. /\ pc = "choose" /\ pc' = "write"
      /\ UNCHANGED <<block_state, usage, marks, flags, alloc, counts, gc,
                     oldest_dirty, ckpt, del, client, flash>>
  BY DEF StartWrite
<1>3. old \in Chunks \cup {NoChunk}
  BY DEF IInv, TypeOK, ClientTypeOK
<1>4. TypeOK'
  <2>1. CallTypeOK'
    <3>1. call' \in
             [job : {"none", "write", "bg", "save"}, tries : Nat,
              copies : Nat, ok : BOOLEAN, ingc : BOOLEAN, reserve : BOOLEAN,
              shrink : BOOLEAN, old : Chunks \cup {NoChunk},
              new : Chunks \cup {NoChunk}]
      BY <1>1, <1>3 DEF NoCall
    <3>. QED
      BY <1>2, <3>1 DEF IInv, TypeOK, CallTypeOK, PCs
  <2>. QED
    BY <1>2, <2>1 DEF IInv, TypeOK, BlocksTypeOK, MarksTypeOK,
         AllocTypeOK, CountsTypeOK, GcTypeOK, CkptTypeOK, ClientTypeOK,
         FlashTypeOK
<1>5. CallInv'
  BY <1>1, <1>2 DEF IInv, CallInv
<1>6. AllocInv'
  BY <1>1, <1>2 DEF IInv, AllocInv, TypeOK, BlocksTypeOK, AllocTypeOK
<1>7. GcInv'
  BY <1>1, <1>2 DEF IInv, GcInv, TypeOK, BlocksTypeOK, GcTypeOK, CallInv
<1>8. BitsInv'
  BY <1>1, <1>2 DEF IInv, BitsInv, TypeOK, BlocksTypeOK
<1>9. DelInv'
  BY <1>1, <1>2 DEF IInv, DelInv
<1>10. SummaryInv'
  BY <1>1, <1>2 DEF IInv, SummaryInv, TypeOK, BlocksTypeOK
<1>11. SeqInv' /\ CkptInv' /\ PageCountsExact'
  BY <1>2 DEF IInv, SeqInv, CkptInv, PageCountsExact, Used, ChunksOf
<1>. QED
  BY <1>4, <1>5, <1>6, <1>7, <1>8, <1>9, <1>10, <1>11 DEF IInv

\* The three kinds of write of the client.
LEMMA StartStepInv ==
  ASSUME IInv, StartStep
  PROVE  IInv'
<1>1. ASSUME StartData PROVE IInv'
  BY <1>1, StartWriteInv DEF StartData, Replaced
<1>2. ASSUME StartHeader PROVE IInv'
  BY <1>2, StartWriteInv DEF StartHeader, Replaced
<1>3. ASSUME StartShrink PROVE IInv'
  BY <1>3, StartWriteInv DEF StartShrink
<1>. QED
  BY <1>1, <1>2, <1>3 DEF StartStep

\* A chunk the client deletes is nobody's.
LEMMA DeleteChunkInv ==
  ASSUME IInv, DeleteChunk
  PROVE  IInv'
<1>1. PICK c \in live : /\ live' = live \ {c}
                        /\ pc' = "del" /\ del' = [chunk |-> c, ret |-> "idle"]
  BY DEF DeleteChunk, CallDel
<1>2. /\ pc = "idle"
      /\ UNCHANGED <<block_state, usage, marks, flags, alloc, counts, gc,
                     oldest_dirty, ckpt, call, soft, soft_del_pages, shadow, flash>>
  BY DEF DeleteChunk
<1>3. TypeOK'
  <2>1. CallTypeOK'
    BY <1>1, <1>2 DEF IInv, TypeOK, CallTypeOK, PCs, ClientTypeOK
  <2>2. ClientTypeOK'
    BY <1>1, <1>2 DEF IInv, TypeOK, ClientTypeOK
  <2>. QED
    BY <1>2, <2>1, <2>2 DEF IInv, TypeOK, BlocksTypeOK, MarksTypeOK,
         AllocTypeOK, CountsTypeOK, GcTypeOK, CkptTypeOK, FlashTypeOK
<1>4. CallInv'
  BY <1>1, <1>2 DEF IInv, CallInv, TypeOK, ClientTypeOK
<1>5. AllocInv'
  BY <1>1, <1>2 DEF IInv, AllocInv, TypeOK, BlocksTypeOK, AllocTypeOK
<1>6. GcInv'
  BY <1>1, <1>2 DEF IInv, GcInv, TypeOK, BlocksTypeOK, GcTypeOK, CallInv
<1>7. BitsInv'
  BY <1>1, <1>2 DEF IInv, BitsInv, TypeOK, BlocksTypeOK
<1>8. DelInv'
  BY <1>1, <1>2 DEF IInv, DelInv, BitsInv
<1>9. SummaryInv'
  BY <1>1, <1>2 DEF IInv, SummaryInv, TypeOK, BlocksTypeOK
<1>10. SeqInv' /\ CkptInv' /\ PageCountsExact'
  BY <1>2 DEF IInv, SeqInv, CkptInv, PageCountsExact, Used, ChunksOf
<1>. QED
  BY <1>3, <1>4, <1>5, <1>6, <1>7, <1>8, <1>9, <1>10 DEF IInv

\* A soft-deleted chunk changes hands and is counted.
LEMMA SoftDelChunkInv ==
  ASSUME IInv, SoftDelChunk
  PROVE  IInv'
<1>1. PICK c \in live :
        /\ live' = live \ {c} /\ soft' = soft \cup {c}
        /\ soft_del_pages' = [soft_del_pages EXCEPT ![c[1]] = @ + 1]
        /\ oldest_dirty' = OldestUpdated(c[1])
  BY DEF SoftDelChunk
<1>2. /\ pc = "idle" /\ n_free_chunks' = n_free_chunks + 1
      /\ UNCHANGED <<block_state, usage, marks, flags, alloc, n_erased_blocks, gc,
                     ckpt, pc, call, del, shadow, flash>>
  BY DEF SoftDelChunk
<1>3. /\ c \in Chunks /\ c[1] \in Blocks /\ c \in chunk_bits /\ c \notin soft
  BY DEF IInv, TypeOK, ClientTypeOK, BitsInv, Chunks
<1>4. /\ oldest_dirty' \in [seq : Nat, block : Blocks \cup {NoBlock}]
      /\ oldest_dirty' = oldest_dirty \/
           (/\ block_state[c[1]] \in {"FULL", "COLLECTING"} /\ blk_seq[c[1]] > 0
            /\ oldest_dirty' = [seq |-> blk_seq[c[1]], block |-> c[1]])
  BY <1>1, <1>3, OldestAfterDirt DEF IInv, BitsInv
<1>5. TypeOK'
  <2>1. CountsTypeOK'
    BY <1>2 DEF IInv, TypeOK, CountsTypeOK
  <2>2. GcTypeOK'
    BY <1>2, <1>4 DEF IInv, TypeOK, GcTypeOK
  <2>3. ClientTypeOK'
    BY <1>1, <1>2, <1>3, <1>4 DEF IInv, TypeOK, ClientTypeOK
  <2>. QED
    BY <1>2, <2>1, <2>2, <2>3 DEF IInv, TypeOK, BlocksTypeOK,
         MarksTypeOK, AllocTypeOK, CkptTypeOK, CallTypeOK, FlashTypeOK
<1>6. CallInv'
  BY <1>2 DEF IInv, CallInv
<1>7. AllocInv'
  BY <1>2 DEF IInv, AllocInv, TypeOK, BlocksTypeOK, AllocTypeOK
<1>8. GcInv'
  BY <1>2, <1>3, <1>4 DEF IInv, GcInv, TypeOK, BlocksTypeOK, GcTypeOK,
       CallInv
<1>9. BitsInv'
  BY <1>1, <1>2, <1>3 DEF IInv, BitsInv, TypeOK, BlocksTypeOK
<1>10. DelInv'
  BY <1>2 DEF IInv, DelInv
<1>11. SummaryInv'
  BY <1>1, <1>2, <1>3 DEF IInv, SummaryInv, TypeOK, BlocksTypeOK
<1>12. PageCountsExact'
  <2>1. ASSUME NEW d \in Blocks
        PROVE  soft_del_pages'[d] = Cardinality(ChunksOf(d, soft'))
    <3>1. Cardinality(ChunksOf(d, soft \cup {c})) =
            IF c[1] = d THEN Cardinality(ChunksOf(d, soft)) + 1
                        ELSE Cardinality(ChunksOf(d, soft))
      BY <1>3, CountAdd DEF IInv, TypeOK, ClientTypeOK
    <3>. QED
      BY <1>1, <1>3, <3>1 DEF IInv, PageCountsExact, TypeOK, ClientTypeOK
  <2>. QED
    BY <1>2, <2>1 DEF IInv, PageCountsExact, ChunksOf
<1>13. SeqInv' /\ CkptInv'
  BY <1>2 DEF IInv, SeqInv, CkptInv, Used
<1>. QED
  BY <1>5, <1>6, <1>7, <1>8, <1>9, <1>10, <1>11, <1>12, <1>13 DEF IInv

\* A read error only marks a block.
LEMMA ReadErrorInv ==
  ASSUME IInv, ReadError
  PROVE  IInv'
<1>1. PICK c \in live : ChunkError(c[1], FALSE)
  BY DEF ReadError
<1>2. /\ pc = "idle" /\ faults' = faults + 1
      /\ UNCHANGED <<block_state, usage, flags, alloc, counts, gc, oldest_dirty,
                     ckpt, pc, call, del, client, programmed, overprogrammed>>
  BY DEF ReadError, Fault
<1>3. c[1] \in Blocks
  BY DEF IInv, TypeOK, ClientTypeOK, Chunks
<1>4. TypeOK'
  <2>1. MarksTypeOK'
    BY <1>1, <1>3, ChunkErrorType DEF IInv, TypeOK
  <2>2. FlashTypeOK'
    BY <1>2 DEF IInv, TypeOK, FlashTypeOK
  <2>. QED
    BY <1>2, SMTT(40), <2>1, <2>2 DEF IInv, TypeOK, BlocksTypeOK,
         AllocTypeOK, CountsTypeOK, GcTypeOK, CkptTypeOK, CallTypeOK,
         ClientTypeOK
<1>5. CallInv'
  BY <1>2 DEF IInv, CallInv
<1>6. AllocInv'
  BY <1>2 DEF IInv, AllocInv, TypeOK, BlocksTypeOK, AllocTypeOK
<1>7. GcInv'
  BY <1>2 DEF IInv, GcInv, TypeOK, BlocksTypeOK, GcTypeOK
<1>8. DelInv'
  BY <1>2 DEF IInv, DelInv
<1>9. SummaryInv'
  BY <1>2 DEF IInv, SummaryInv, TypeOK, BlocksTypeOK
<1>10. SeqInv' /\ CkptInv' /\ PageCountsExact' /\ BitsInv'
  BY <1>2, SMTT(40) DEF IInv, SeqInv, CkptInv, PageCountsExact, BitsInv,
       Used, ChunksOf
<1>. QED
  BY <1>4, <1>5, <1>6, <1>7, <1>8, <1>9, <1>10 DEF IInv

\* A save begins with nothing in progress.
LEMMA SaveCheckptInv ==
  ASSUME IInv, SaveCheckpt
  PROVE  IInv'
<1>1. TypeOK'
  <2>1. CallTypeOK'
    BY DEF IInv, TypeOK, CallTypeOK, SaveCheckpt, PCs, NoCall
  <2>. QED
    BY <2>1 DEF IInv, TypeOK, BlocksTypeOK, MarksTypeOK, AllocTypeOK,
         CountsTypeOK, GcTypeOK, CkptTypeOK, ClientTypeOK, FlashTypeOK,
         SaveCheckpt
<1>2. CallInv'
  BY DEF IInv, CallInv, SaveCheckpt, NoCall
<1>3. AllocInv'
  BY DEF IInv, AllocInv, TypeOK, BlocksTypeOK, AllocTypeOK, SaveCheckpt
<1>4. GcInv'
  BY DEF IInv, GcInv, TypeOK, BlocksTypeOK, GcTypeOK, SaveCheckpt,
       NoCall, CallInv
<1>5. DelInv'
  BY DEF IInv, DelInv, SaveCheckpt
<1>6. SummaryInv'
  BY DEF IInv, SummaryInv, TypeOK, BlocksTypeOK, SaveCheckpt
<1>7. SeqInv' /\ CkptInv' /\ PageCountsExact' /\ BitsInv'
  BY DEF IInv, SeqInv, CkptInv, PageCountsExact, BitsInv, Used, ChunksOf,
       SaveCheckpt
<1>. QED
  BY <1>1, <1>2, <1>3, <1>4, <1>5, <1>6, <1>7 DEF IInv

\* The stream opens before its first block, or stays where it was.
LEMMA OpenStreamInv ==
  ASSUME IInv, OpenStream
  PROVE  IInv'
<1>1. TypeOK'
  <2>1. CallTypeOK'
    BY DEF IInv, TypeOK, CallTypeOK, OpenStream, PCs
  <2>2. CkptTypeOK'
    <3>1. FreshStream \in [wr : BOOLEAN, cur : Blocks \cup {NoBlock},
                          chunk : Pages, next : 0 .. NBlocks + 1]
      BY GeometryAssumption DEF FreshStream, Pages
    <3>2. [checkpt EXCEPT !.wr = @ \/ CheckptRequired] \in
            [wr : BOOLEAN, cur : Blocks \cup {NoBlock},
             chunk : Pages, next : 0 .. NBlocks + 1]
      BY GeometryAssumption DEF IInv, TypeOK, CkptTypeOK
    <3>. QED
      BY <3>1, <3>2 DEF IInv, TypeOK, CkptTypeOK, OpenStream
  <2>. QED
    BY <2>1, <2>2 DEF IInv, TypeOK, BlocksTypeOK, MarksTypeOK,
         AllocTypeOK, CountsTypeOK, GcTypeOK, ClientTypeOK, FlashTypeOK,
         OpenStream
<1>2. CallInv'
  BY DEF IInv, CallInv, OpenStream, TypeOK, CallTypeOK
<1>3. AllocInv'
  BY DEF IInv, AllocInv, TypeOK, BlocksTypeOK, AllocTypeOK, OpenStream
<1>4. GcInv'
  BY DEF IInv, GcInv, TypeOK, BlocksTypeOK, GcTypeOK, OpenStream,
       CallInv, CallTypeOK
<1>5. DelInv'
  BY DEF IInv, DelInv, OpenStream
<1>6. SummaryInv'
  BY DEF IInv, SummaryInv, TypeOK, BlocksTypeOK, OpenStream
<1>7. CkptInv'
  BY DEF IInv, CkptInv, OpenStream, FreshStream, TypeOK, CkptTypeOK
<1>8. SeqInv' /\ PageCountsExact' /\ BitsInv'
  BY DEF IInv, SeqInv, PageCountsExact, BitsInv, Used, ChunksOf,
       OpenStream
<1>. QED
  BY <1>1, <1>2, <1>3, <1>4, <1>5, <1>6, <1>7, <1>8 DEF IInv

\* The stream ends.
LEMMA EndStreamInv ==
  ASSUME IInv, EndStream
  PROVE  IInv'
<1>1. TypeOK'
  <2>1. CallTypeOK'
    BY DEF IInv, TypeOK, CallTypeOK, EndStream, PCs
  <2>. QED
    BY <2>1 DEF IInv, TypeOK, BlocksTypeOK, MarksTypeOK, AllocTypeOK,
         CountsTypeOK, GcTypeOK, CkptTypeOK, ClientTypeOK, FlashTypeOK,
         EndStream
<1>2. CallInv'
  BY DEF IInv, CallInv, EndStream
<1>3. AllocInv'
  BY DEF IInv, AllocInv, TypeOK, BlocksTypeOK, AllocTypeOK, EndStream
<1>4. GcInv'
  BY DEF IInv, GcInv, TypeOK, BlocksTypeOK, GcTypeOK, EndStream
<1>5. DelInv'
  BY DEF IInv, DelInv, EndStream
<1>6. SummaryInv'
  BY DEF IInv, SummaryInv, TypeOK, BlocksTypeOK, EndStream
<1>7. SeqInv' /\ CkptInv' /\ PageCountsExact' /\ BitsInv'
  BY DEF IInv, SeqInv, CkptInv, PageCountsExact, BitsInv, Used, ChunksOf,
       EndStream
<1>. QED
  BY <1>1, <1>2, <1>3, <1>4, <1>5, <1>6, <1>7 DEF IInv

\* The counts are adjusted when the stream is closed.
LEMMA CountCheckptInv ==
  ASSUME IInv, CountCheckpt
  PROVE  IInv'
<1>1. TypeOK'
  <2>1. CountsTypeOK'
    BY GeometryAssumption DEF IInv, TypeOK, CountsTypeOK, CountCheckpt,
         CkptTypeOK
  <2>2. CkptTypeOK'
    BY DEF IInv, TypeOK, CkptTypeOK, CountCheckpt, CallTypeOK
  <2>3. CallTypeOK'
    BY NoCallType DEF IInv, TypeOK, CountCheckpt, PCs
  <2>. QED
    BY <2>1, <2>2, <2>3 DEF IInv, TypeOK, BlocksTypeOK, MarksTypeOK,
         AllocTypeOK, GcTypeOK, ClientTypeOK, FlashTypeOK, CountCheckpt
<1>2. CallInv'
  BY DEF IInv, CallInv, CountCheckpt, NoCall
<1>3. AllocInv'
  BY DEF IInv, AllocInv, TypeOK, BlocksTypeOK, AllocTypeOK, CountCheckpt
<1>4. GcInv'
  BY DEF IInv, GcInv, TypeOK, BlocksTypeOK, GcTypeOK, CountCheckpt,
       NoCall, CallInv
<1>5. DelInv'
  BY DEF IInv, DelInv, CountCheckpt
<1>6. SummaryInv'
  BY DEF IInv, SummaryInv, TypeOK, BlocksTypeOK, CountCheckpt
<1>7. SeqInv' /\ CkptInv' /\ PageCountsExact' /\ BitsInv'
  BY DEF IInv, SeqInv, CkptInv, PageCountsExact, BitsInv, Used, ChunksOf,
       CountCheckpt
<1>. QED
  BY <1>1, <1>2, <1>3, <1>4, <1>5, <1>6, <1>7 DEF IInv

\* yaffs2_checkpt_flush_buffer takes erased blocks only.
LEMMA FlushFits ==
  ASSUME IInv, FlushOk \/ FlushFails
  PROVE  /\ block_state' \in [Blocks -> BlockStates]
         /\ \A b \in Blocks :
              \/ block_state'[b] = block_state[b]
              \/ block_state[b] = "EMPTY" /\ block_state'[b] = "CHECKPOINT"
         /\ programmed \subseteq programmed'
         /\ programmed' \subseteq Chunks /\ overprogrammed' \subseteq Chunks
         /\ blocks_in_checkpt' \in Nat
         /\ checkpt' \in [wr : BOOLEAN, cur : Blocks \cup {NoBlock},
                          chunk : Pages, next : 0 .. NBlocks + 1]
         /\ checkpt'.cur # NoBlock => checkpt'.chunk > 0
<1>1. /\ checkpt \in [wr : BOOLEAN, cur : Blocks \cup {NoBlock}, chunk : Pages,
                      next : 0 .. NBlocks + 1]
      /\ blocks_in_checkpt \in Nat
      /\ block_state \in [Blocks -> BlockStates]
      /\ programmed \subseteq Chunks /\ overprogrammed \subseteq Chunks
  BY DEF IInv, TypeOK, CkptTypeOK, BlocksTypeOK, FlashTypeOK
<1>2. CASE FlushFails
  <2>1. /\ checkpt' = [checkpt EXCEPT !.chunk = 0, !.next = NoBlock]
        /\ checkpt.cur = NoBlock
        /\ UNCHANGED <<block_state, blocks_in_checkpt, programmed, overprogrammed>>
    BY <1>2 DEF FlushFails
  <2>2. 0 \in Pages /\ NoBlock \in 0 .. NBlocks + 1
    BY GeometryAssumption DEF Pages
  <2>3. /\ checkpt' \in [wr : BOOLEAN, cur : Blocks \cup {NoBlock},
                         chunk : Pages, next : 0 .. NBlocks + 1]
        /\ checkpt'.cur = NoBlock
    BY <1>1, <2>1, <2>2
  <2>. QED
    BY <1>1, <2>1, <2>3
<1>3. ASSUME NEW b \in Blocks, NEW page \in Pages, FlushesTo(b, page),
             page = 0 => block_state[b] = "EMPTY" /\ checkpt.cur = NoBlock,
             page # 0 => checkpt.cur = b
      PROVE  /\ block_state' \in [Blocks -> BlockStates]
             /\ \A d \in Blocks :
                  \/ block_state'[d] = block_state[d]
                  \/ block_state[d] = "EMPTY" /\ block_state'[d] = "CHECKPOINT"
             /\ programmed \subseteq programmed'
             /\ programmed' \subseteq Chunks /\ overprogrammed' \subseteq Chunks
             /\ blocks_in_checkpt' \in Nat
             /\ checkpt' \in [wr : BOOLEAN, cur : Blocks \cup {NoBlock},
                              chunk : Pages, next : 0 .. NBlocks + 1]
             /\ checkpt'.cur # NoBlock => checkpt'.chunk > 0
  <2>1. /\ block_state' \in [Blocks -> BlockStates]
        /\ \A d \in Blocks :
             \/ block_state'[d] = block_state[d]
             \/ block_state[d] = "EMPTY" /\ block_state'[d] = "CHECKPOINT"
        /\ blocks_in_checkpt' \in Nat
    <3>1. CASE page = 0
      <4>1. /\ block_state' = [block_state EXCEPT ![b] = "CHECKPOINT"]
            /\ blocks_in_checkpt' = blocks_in_checkpt + 1
        BY <1>3, <3>1 DEF FlushesTo
      <4>. QED
        BY <1>1, <1>3, <3>1, <4>1 DEF BlockStates
    <3>2. CASE page # 0
      BY <1>1, <1>3, <3>2 DEF FlushesTo
    <3>. QED
      BY <3>1, <3>2
  <2>2. /\ programmed \subseteq programmed'
        /\ programmed' \subseteq Chunks /\ overprogrammed' \subseteq Chunks
    BY <1>1, <1>3 DEF FlushesTo, Program, Chunks
  <2>3. /\ checkpt' \in [wr : BOOLEAN, cur : Blocks \cup {NoBlock},
                         chunk : Pages, next : 0 .. NBlocks + 1]
        /\ checkpt'.cur # NoBlock => checkpt'.chunk > 0
    <3>1. PICK cur, chunk, next :
            /\ cur = IF page + 1 < ChunksPerBlock THEN b ELSE NoBlock
            /\ chunk = IF page + 1 < ChunksPerBlock THEN page + 1 ELSE 0
            /\ next = IF checkpt.cur = NoBlock THEN b + 1 ELSE checkpt.next
            /\ checkpt' = [checkpt EXCEPT !.cur = cur, !.chunk = chunk, !.next = next]
      BY <1>1, <1>3 DEF FlushesTo
    <3>2. /\ chunk \in Pages
          /\ cur # NoBlock => chunk > 0
      BY <3>1, GeometryAssumption DEF Pages
    <3>3. cur \in Blocks \cup {NoBlock}
      BY <3>1
    <3>4. next \in 0 .. NBlocks + 1
      <4>1. checkpt.next \in 0 .. NBlocks + 1
        BY <1>1
      <4>. QED
        BY <3>1, <4>1, GeometryAssumption
    <3>. QED
      BY <1>1, <3>1, <3>2, <3>3, <3>4
  <2>. QED
    BY <2>1, <2>2, <2>3
<1>4. CASE FlushOk /\ checkpt.cur # NoBlock
  <2>1. checkpt.cur \in Blocks /\ checkpt.chunk \in Pages /\ checkpt.chunk # 0
    BY <1>1, <1>4, GeometryAssumption DEF IInv, CkptInv, Pages
  <2>2. FlushesTo(checkpt.cur, checkpt.chunk)
    BY <1>4 DEF FlushOk
  <2>. QED
    BY <1>3, <2>1, <2>2
<1>5. CASE FlushOk /\ checkpt.cur = NoBlock
  <2>1. NextCheckptBlock # NoBlock /\ FlushesTo(NextCheckptBlock, 0)
    BY <1>5 DEF FlushOk
  <2> DEFINE ahead == {b \in Empty : b >= checkpt.next}
  <2>2. /\ ahead # {}
        /\ NextCheckptBlock = CHOOSE b \in ahead : \A c \in ahead : b <= c
    BY <2>1 DEF NextCheckptBlock
  <2>3. ahead \in SUBSET Nat
    BY GeometryAssumption DEF Empty
  <2>4. \E b \in ahead : \A c \in ahead : b <= c
    BY <2>2, <2>3, LeastNatural
  <2>5. NextCheckptBlock \in ahead
    BY <2>2, <2>4
  <2>6. NextCheckptBlock \in Blocks /\ block_state[NextCheckptBlock] = "EMPTY"
    BY <2>5 DEF Empty
  <2>7. 0 \in Pages
    BY GeometryAssumption DEF Pages
  <2>. QED
    BY <1>3, <1>5, <2>1, <2>6, <2>7
<1>. QED
  BY <1>2, <1>4, <1>5

\* The stream takes erased blocks.
LEMMA WriteStreamInv ==
  ASSUME IInv, WriteStream
  PROVE  IInv'
<1>1. /\ pc = "save" /\ pc' \in {"save", "close"}
      /\ call' = [call EXCEPT !.copies = @ + 1] \/ call' = [call EXCEPT !.ok = FALSE]
      /\ UNCHANGED <<usage, marks, flags, alloc, counts, gc, oldest_dirty,
                     is_checkpointed, del, client, faults>>
  BY DEF WriteStream
<1>2. /\ block_state' \in [Blocks -> BlockStates]
      /\ \A b \in Blocks :
           \/ block_state'[b] = block_state[b]
           \/ block_state[b] = "EMPTY" /\ block_state'[b] = "CHECKPOINT"
      /\ programmed \subseteq programmed'
      /\ programmed' \subseteq Chunks /\ overprogrammed' \subseteq Chunks
      /\ blocks_in_checkpt' \in Nat
      /\ checkpt' \in [wr : BOOLEAN, cur : Blocks \cup {NoBlock},
                       chunk : Pages, next : 0 .. NBlocks + 1]
      /\ checkpt'.cur # NoBlock => checkpt'.chunk > 0
  BY FlushFits DEF WriteStream
<1>3. call'.ingc = FALSE /\ call.ingc = FALSE
  BY <1>1 DEF IInv, CallInv, TypeOK, CallTypeOK
<1>4. TypeOK'
  <2>1. BlocksTypeOK'
    BY <1>1, <1>2 DEF IInv, TypeOK, BlocksTypeOK
  <2>2. CkptTypeOK'
    BY <1>1, <1>2 DEF IInv, TypeOK, CkptTypeOK
  <2>3. CallTypeOK'
    <3>1. CASE call' = [call EXCEPT !.copies = @ + 1]
      BY <1>1, <3>1 DEF IInv, TypeOK, CallTypeOK, PCs
    <3>2. CASE call' = [call EXCEPT !.ok = FALSE]
      BY <1>1, <3>2 DEF IInv, TypeOK, CallTypeOK, PCs
    <3>. QED
      BY <1>1, <3>1, <3>2
  <2>4. FlashTypeOK'
    BY <1>1, <1>2 DEF IInv, TypeOK, FlashTypeOK
  <2>. QED
    BY <1>1, <2>1, <2>2, <2>3, <2>4 DEF IInv, TypeOK, MarksTypeOK,
         AllocTypeOK, CountsTypeOK, GcTypeOK, ClientTypeOK
<1>5. CallInv'
  BY <1>1, <1>3 DEF IInv, CallInv
<1>6. AllocInv'
  BY <1>1, <1>2, <1>3 DEF IInv, AllocInv, TypeOK, BlocksTypeOK,
       AllocTypeOK
<1>7. SeqInv'
  BY <1>1, <1>2, <1>3 DEF IInv, SeqInv, Used
<1>8. GcInv'
  BY <1>1, <1>2, <1>3 DEF IInv, GcInv, TypeOK, BlocksTypeOK, GcTypeOK
<1>9. BitsInv'
  BY <1>1, <1>2, <1>3 DEF IInv, BitsInv, TypeOK, BlocksTypeOK, Chunks
<1>10. DelInv'
  BY <1>1 DEF IInv, DelInv
<1>11. SummaryInv'
  BY <1>1, <1>2, <1>3 DEF IInv, SummaryInv, TypeOK, BlocksTypeOK
<1>12. CkptInv'
  BY <1>2 DEF IInv, CkptInv
<1>13. PageCountsExact'
  BY <1>1 DEF IInv, PageCountsExact, ChunksOf
<1>. QED
  BY <1>4, <1>5, <1>6, <1>7, <1>8, <1>9, <1>10, <1>11, <1>12, <1>13 DEF
       IInv

\* So does the flush when it is closed.
LEMMA CloseStreamInv ==
  ASSUME IInv, CloseStream
  PROVE  IInv'
<1>1. /\ pc = "close" /\ pc' = "count" /\ call' = call
      /\ UNCHANGED <<usage, marks, flags, alloc, counts, gc, oldest_dirty,
                     is_checkpointed, del, client, faults>>
  BY DEF CloseStream
<1>2. /\ block_state' \in [Blocks -> BlockStates]
      /\ \A b \in Blocks :
           \/ block_state'[b] = block_state[b]
           \/ block_state[b] = "EMPTY" /\ block_state'[b] = "CHECKPOINT"
      /\ programmed \subseteq programmed'
      /\ programmed' \subseteq Chunks /\ overprogrammed' \subseteq Chunks
      /\ blocks_in_checkpt' \in Nat
      /\ checkpt' \in [wr : BOOLEAN, cur : Blocks \cup {NoBlock},
                       chunk : Pages, next : 0 .. NBlocks + 1]
      /\ checkpt'.cur # NoBlock => checkpt'.chunk > 0
  <2>1. CASE FlushOk \/ FlushFails
    BY <2>1, FlushFits
  <2>2. CASE UNCHANGED <<block_state, blocks_in_checkpt, checkpt, programmed,
                         overprogrammed>>
    BY <2>2 DEF IInv, TypeOK, BlocksTypeOK, CkptTypeOK, FlashTypeOK, CkptInv
  <2>. QED
    BY <2>1, <2>2 DEF CloseStream
<1>3. call'.ingc = FALSE /\ call.ingc = FALSE
  BY <1>1 DEF IInv, CallInv, TypeOK, CallTypeOK
<1>4. TypeOK'
  <2>1. BlocksTypeOK'
    BY <1>1, <1>2 DEF IInv, TypeOK, BlocksTypeOK
  <2>2. CkptTypeOK'
    BY <1>1, <1>2 DEF IInv, TypeOK, CkptTypeOK
  <2>3. CallTypeOK'
    BY <1>1 DEF IInv, TypeOK, CallTypeOK, PCs
  <2>4. FlashTypeOK'
    BY <1>1, <1>2 DEF IInv, TypeOK, FlashTypeOK
  <2>. QED
    BY <1>1, <2>1, <2>2, <2>3, <2>4 DEF IInv, TypeOK, MarksTypeOK,
         AllocTypeOK, CountsTypeOK, GcTypeOK, ClientTypeOK
<1>5. CallInv'
  BY <1>1, <1>3 DEF IInv, CallInv
<1>6. AllocInv'
  BY <1>1, <1>2, <1>3 DEF IInv, AllocInv, TypeOK, BlocksTypeOK,
       AllocTypeOK
<1>7. SeqInv'
  BY <1>1, <1>2, <1>3 DEF IInv, SeqInv, Used
<1>8. GcInv'
  BY <1>1, <1>2, <1>3 DEF IInv, GcInv, TypeOK, BlocksTypeOK, GcTypeOK
<1>9. BitsInv'
  BY <1>1, <1>2, <1>3 DEF IInv, BitsInv, TypeOK, BlocksTypeOK, Chunks
<1>10. DelInv'
  BY <1>1 DEF IInv, DelInv
<1>11. SummaryInv'
  BY <1>1, <1>2, <1>3 DEF IInv, SummaryInv, TypeOK, BlocksTypeOK
<1>12. CkptInv'
  BY <1>2 DEF IInv, CkptInv
<1>13. PageCountsExact'
  BY <1>1 DEF IInv, PageCountsExact, ChunksOf
<1>. QED
  BY <1>4, <1>5, <1>6, <1>7, <1>8, <1>9, <1>10, <1>11, <1>12, <1>13 DEF
       IInv

-----------------------------------------------------------------------------
\* A mounted, erased device.
LEMMA InitInv == Init => IInv
<1>. SUFFICES ASSUME Init PROVE IInv
  OBVIOUS
<1>1. TypeOK
  <2>1. BlocksTypeOK
    <3>1. block_state \in [Blocks -> BlockStates]
      BY DEF Init, BlockStates
    <3>2. pages_in_use \in [Blocks -> Int]
      BY DEF Init
    <3>. QED
      BY <3>1, <3>2 DEF Init, BlocksTypeOK
  <2>6. MarksTypeOK
    <3>1. strikes \in [Blocks -> Nat]
      BY DEF Init
    <3>. QED
      BY <3>1 DEF Init, MarksTypeOK
  <2>7. AllocTypeOK
    <3>1. blk_seq \in [Blocks -> Nat]
      BY DEF Init
    <3>. QED
      BY <3>1 DEF Init, AllocTypeOK
  <2>2. CountsTypeOK
    <3>1. Cardinality(Blocks \ FactoryBad) \in Nat
      BY FiniteBlocks
    <3>. QED
      BY <3>1, GeometryAssumption DEF Init, CountsTypeOK
  <2>3. GcTypeOK
    <3>1. NoOldest \in [seq : Nat, block : Blocks \cup {NoBlock}]
      BY DEF NoOldest
    <3>. QED
      BY <3>1, GeometryAssumption DEF Init, GcTypeOK
  <2>8. CkptTypeOK
    <3>1. 0 \in Pages /\ 0 \in 0 .. NBlocks + 1
      BY GeometryAssumption DEF Pages
    <3>2. checkpt \in [wr : BOOLEAN, cur : Blocks \cup {NoBlock},
                       chunk : Pages, next : 0 .. NBlocks + 1]
      BY <3>1 DEF Init
    <3>. QED
      BY <3>2 DEF Init, CkptTypeOK
  <2>4. CallTypeOK
    BY DEF Init, CallTypeOK, NoCall, NoDel, PCs
  <2>5. ClientTypeOK /\ FlashTypeOK
    BY DEF Init, ClientTypeOK, FlashTypeOK
  <2>. QED
    BY <2>1, <2>2, <2>3, <2>4, <2>5, <2>6, <2>7, <2>8 DEF TypeOK
<1>2. CallInv /\ DelInv /\ CkptInv
  BY DEF Init, CallInv, DelInv, CkptInv, NoCall
<1>3. AllocInv /\ SeqInv
  BY GeometryAssumption DEF Init, AllocInv, SeqInv, Used
<1>4. GcInv /\ BitsInv /\ SummaryInv
  BY GeometryAssumption DEF Init, GcInv, BitsInv, SummaryInv, NoOldest
<1>5. PageCountsExact
  <2>1. \A b \in Blocks : ChunksOf(b, chunk_bits) = {} /\ ChunksOf(b, soft) = {}
    BY DEF Init, ChunksOf
  <2>. QED
    BY <2>1, FS_EmptySet DEF Init, PageCountsExact
<1>. QED
  BY <1>1, <1>2, <1>3, <1>4, <1>5 DEF IInv

\* Nothing happens.
LEMMA StutterInv ==
  ASSUME IInv, UNCHANGED vars
  PROVE  IInv'
<1>1. TypeOK'
  <2>1. TypeOK
    BY DEF IInv
  <2>2. BlocksTypeOK' /\ MarksTypeOK' /\ AllocTypeOK' /\ CountsTypeOK'
    BY <2>1 DEF TypeOK, vars, BlocksTypeOK, MarksTypeOK, AllocTypeOK,
                CountsTypeOK
  <2>3. GcTypeOK' /\ CkptTypeOK'
    BY <2>1 DEF TypeOK, vars, GcTypeOK, CkptTypeOK
  <2>4. CallTypeOK' /\ ClientTypeOK' /\ FlashTypeOK'
    BY <2>1 DEF TypeOK, vars, CallTypeOK, ClientTypeOK, FlashTypeOK
  <2>. QED
    BY <2>2, <2>3, <2>4 DEF TypeOK
<1>2. CallInv' /\ AllocInv' /\ SeqInv' /\ GcInv'
  BY DEF vars, IInv, CallInv, AllocInv, SeqInv, GcInv, Used
<1>3. BitsInv' /\ DelInv' /\ SummaryInv' /\ CkptInv' /\ PageCountsExact'
  BY DEF vars, IInv, BitsInv, DelInv, SummaryInv, CkptInv, PageCountsExact,
         ChunksOf
<1>. QED
  BY <1>1, <1>2, <1>3 DEF IInv

\* Every step of every call preserves the invariant.
LEMMA NextInv ==
  ASSUME IInv, [Next]_vars
  PROVE  IInv'
<1>1. CASE WriteStep
  BY <1>1, InvalidateInv, FindAllocBlockInv, AllocChunkInv, WriteFailsInv,
     NotErasedInv, ProgramChunkInv, WriteSummaryInv, VerifyOkInv,
     VerifyFailsInv, SkipRestOfBlockInv, WrittenInv, FinishWriteInv
  DEF WriteStep
<1>2. CASE DelStep
  BY <1>2, ChunkDelInv, BecameDirtyInv, EraseOkInv, RetireBlockInv DEF DelStep
<1>3. CASE GcStep
  BY <1>3, SkipGcInv, ResumeGcInv, RefreshSelectInv, PrioritisedSelectInv,
     OldestForPrioritisedInv, DirtiestSelectInv, OldestSelectInv,
     SelectNoneInv, GcBlockStartInv, CollectSoftInv, CollectOrphanInv,
     CollectCopyInv, CollectEndInv, CollectedSomeInv, CleanUpInv,
     CollectedAllInv
  DEF GcStep
<1>4. CASE SaveStep
  BY <1>4, OpenStreamInv, WriteStreamInv, EndStreamInv, CloseStreamInv,
     CountCheckptInv
  DEF SaveStep
<1>5. CASE StartStep
  BY <1>5, StartStepInv
<1>6. CASE Begin
  BY <1>6, BeginCallInv, DeleteChunkInv, SoftDelChunkInv, ReadErrorInv,
     SaveCheckptInv
  DEF Begin, BeginWrite, BgGc
<1>7. CASE Rest \/ UNCHANGED vars
  BY <1>7, StutterInv DEF Rest
<1>. QED
  BY <1>1, <1>2, <1>3, <1>4, <1>5, <1>6, <1>7 DEF Next, Step

\* The invariant holds in every behaviour.
LEMMA Invariant == Spec => []IInv
<1>1. Init => IInv
  BY InitInv
<1>2. IInv /\ [Next]_vars => IInv'
  BY NextInv
<1>. QED
  BY <1>1, <1>2, PTL DEF Spec

-----------------------------------------------------------------------------
\* The fields of the device and of the block infos hold what they can, and no
\* cursor leaves its range, whatever the calls and the failures.
THEOREM TypeCorrect == Spec => []TypeOK
<1>1. IInv => TypeOK
  BY DEF IInv
<1>. QED
  BY <1>1, Invariant, PTL

\* yaffs_verify_blk never finds a block whose pages_in_use or soft_del_pages
\* disagree with its bits: not after failed writes, summaries, collections of
\* soft-deleted files or erasures.
THEOREM PageCountsCorrect == Spec => []PageCountsExact
<1>1. IInv => PageCountsExact
  BY DEF IInv
<1>. QED
  BY <1>1, Invariant, PTL

\* What the client or a soft-deleted file holds is never in a block that was
\* erased, is about to be, or is given to a checkpoint.
THEOREM LiveChunksSafe == Spec => []LiveChunksKept
<1>1. IInv => LiveChunksKept
  BY DEF IInv, BitsInv, LiveChunksKept
<1>. QED
  BY <1>1, Invariant, PTL

\* The log stays in order: one block is being filled, and it is the newest; at
\* most one is being collected; blocks in use differ in sequence number.
THEOREM LogOrdered == Spec => []LogInOrder
<1>1. IInv => LogInOrder
  BY DEF IInv, AllocInv, SeqInv, GcInv, Used, LogInOrder, TypeOK, AllocTypeOK
<1>. QED
  BY <1>1, Invariant, PTL

===============================================================================
