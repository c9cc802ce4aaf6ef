----------------------- MODULE YaffsBlocksCounts_proofs -----------------------
(***************************************************************************)
(* The counters n_erased_blocks, blocks_in_checkpt and n_free_chunks, which *)
(* are kept a step at a time, are what a walk over the blocks would find;  *)
(* and the blocks of the reserve, which decisions about space keep by      *)
(* reading those counters, are enough.                                     *)
(***************************************************************************)
EXTENDS YaffsBlocksSteps_proofs

USE DEF usage, marks, flags, alloc, counts, gc, ckpt, client, flash,
        InDel, InWrite, HasNew, InFinish, InGc, Blocks, NoBlock

\* Blocks of a checkpoint being written are counted as erased and free.
Saving == pc \in {"save", "close", "count"}

InCheckpt == {b \in Blocks : block_state[b] = "CHECKPOINT"}

\* The states of a block that is neither erased, lost nor the checkpoint's.
LogStates == {"ALLOCATING", "FULL", "COLLECTING", "DIRTY"}

\* What most steps do to the blocks: nothing to the erased ones and to the
\* checkpoint's, and no other becomes one.
Quiet ==
  /\ ~Saving /\ ~Saving'
  /\ UNCHANGED <<n_erased_blocks, blocks_in_checkpt>>
  /\ \A b \in Blocks : \/ block_state'[b] = block_state[b]
                       \/ block_state[b] \in LogStates /\ block_state'[b] \in LogStates

\* The steps that are not quiet.
Counted == Invalidate \/ FindAllocBlock \/ EraseOk \/ RetireBlock \/ SaveStep

-----------------------------------------------------------------------------
\* A write fills its block up, at most.
LEMMA WriteQuiet ==
  ASSUME IInv, WriteStep, ~Invalidate, ~FindAllocBlock
  PROVE  Quiet
<1>. block_state \in [Blocks -> BlockStates]
  BY DEF IInv, TypeOK, BlocksTypeOK
<1>1. CASE AllocChunk \/ SkipRestOfBlock
  <2>1. alloc_block # NoBlock => block_state[alloc_block] = "ALLOCATING"
    BY DEF IInv, AllocInv, TypeOK, AllocTypeOK
  <2>. QED
    BY <1>1, <2>1 DEF AllocChunk, SkipRestOfBlock, Quiet, Saving, LogStates
<1>2. CASE WriteSummary
  <2>1. /\ pc = "summary" /\ pc' = "verify"
        /\ block_state' = [block_state EXCEPT ![call.new[1]] = "FULL"]
        /\ UNCHANGED <<n_erased_blocks, blocks_in_checkpt>>
    BY <1>2 DEF WriteSummary
  <2>2. block_state[call.new[1]] \in LogStates
    BY <2>1 DEF IInv, BitsInv, LogStates
  <2>. QED
    BY <2>1, <2>2 DEF Quiet, Saving, LogStates
<1>3. CASE WriteFails \/ NotErased \/ ProgramChunk \/ VerifyOk \/ VerifyFails
             \/ Written \/ FinishWrite
  BY <1>3 DEF WriteFails, NotErased, ProgramChunk, VerifyOk, VerifyFails,
     Written, FinishWrite, CallDel, AfterRefusal, AfterWrite, Quiet, Saving
<1>. QED
  BY <1>1, <1>2, <1>3 DEF WriteStep

\* A deletion, before the block is erased or lost.
LEMMA DelQuiet ==
  ASSUME IInv, DelStep, ~EraseOk, ~RetireBlock
  PROVE  Quiet
<1>. /\ block_state \in [Blocks -> BlockStates]
     /\ del.ret \in {"idle", "skip", "finish", "collect", "collected"}
  BY DEF IInv, TypeOK, BlocksTypeOK, CallTypeOK
<1>1. CASE ChunkDel
  BY <1>1 DEF ChunkDel, Quiet, Saving
<1>2. CASE BecameDirty
  <2>1. block_state[del.chunk[1]] \in LogStates
    BY <1>2 DEF IInv, DelInv, BecameDirty, LogStates
  <2>. QED
    BY <1>2, <2>1 DEF BecameDirty, Quiet, Saving, LogStates
<1>. QED
  BY <1>1, <1>2 DEF DelStep

\* A collection marks its block and gives the mark back.
LEMMA GcQuiet ==
  ASSUME IInv, GcStep
  PROVE  Quiet
<1>. block_state \in [Blocks -> BlockStates]
  BY DEF IInv, TypeOK, BlocksTypeOK
<1>1. CASE GcBlockStart \/ CollectedSome
  <2>1. gc_block # NoBlock /\ block_state[gc_block] \in LogStates
    BY <1>1 DEF IInv, CallInv, GcInv, GcBlockStart, CollectedSome, LogStates
  <2>2. pc \in {"gcblk", "collected"}
        /\ pc' \in {"dirty", "collect", "gc", "choose", "idle"}
    BY <1>1 DEF GcBlockStart, CollectedSome, NextTry, EndGc
  <2>3. /\ UNCHANGED <<n_erased_blocks, blocks_in_checkpt>>
        /\ \/ block_state' = [block_state EXCEPT ![gc_block] = "COLLECTING"]
           \/ block_state' = [block_state EXCEPT ![gc_block] = "FULL"]
    BY <1>1 DEF GcBlockStart, CollectedSome
  <2>. QED
    BY <2>1, <2>2, <2>3 DEF Quiet, Saving, LogStates
<1>2. CASE ~(GcBlockStart \/ CollectedSome)
  <2>1. /\ UNCHANGED <<block_state, n_erased_blocks, blocks_in_checkpt>>
        /\ pc \in {"gc", "collect", "collected"}
        /\ pc' \in {"choose", "idle", "gcblk", "del", "write", "collected", "gc"}
    BY <1>2 DEF GcStep, SkipGc, ResumeGc, RefreshSelect, PrioritisedSelect,
       OldestForPrioritised, DirtiestSelect, OldestSelect, SelectNone,
       Searching, Collecting, GcSelected, GcBlockCalled, CollectNext,
       CollectLoops, CollectSoft, CollectOrphan, CollectCopy, CollectEnd,
       CleanUp, CollectedAll, NextTry, EndGc, CallDel
  <2>. QED
    BY <2>1 DEF Quiet, Saving
<1>. QED
  BY <1>1, <1>2

\* Calls of the client begin.
LEMMA BeginQuiet ==
  ASSUME StartStep \/ Begin
  PROVE  Quiet
BY DEF StartStep, StartData, StartHeader, StartShrink, StartWrite, Begin,
   BeginWrite, BgGc, BeginCall, DeleteChunk, SoftDelChunk, ReadError,
   SaveCheckpt, CallDel, Quiet, Saving

\* All steps are quiet but those that erase, take erased blocks or count them.
LEMMA QuietOrCounted ==
  ASSUME IInv, [Next]_vars
  PROVE  Quiet \/ Counted \/ UNCHANGED vars
BY WriteQuiet, DelQuiet, GcQuiet, BeginQuiet DEF Next, Step, Rest, Counted

-----------------------------------------------------------------------------
\* A quiet step leaves the counts of blocks right.
LEMMA QuietErased ==
  ASSUME ErasedBlocksExact, Quiet
  PROVE  ErasedBlocksExact'
<1>1. Empty' = Empty
  BY DEF Quiet, Empty, LogStates
<1>2. InCheckpt' = InCheckpt
  BY DEF Quiet, InCheckpt, LogStates
<1>. QED
  BY <1>1, <1>2 DEF Quiet, ErasedBlocksExact, Uncounted, Saving, InCheckpt

\* The blocks of an invalidated checkpoint are erased again, or bad.
LEMMA InvalidateErased ==
  ASSUME IInv, ErasedBlocksExact, Invalidate
  PROVE  ErasedBlocksExact'
<1>. /\ block_state \in [Blocks -> BlockStates]
     /\ pc \in {"write", "erase", "open"} /\ pc' = pc
     /\ blocks_in_checkpt' = 0
  BY DEF IInv, TypeOK, BlocksTypeOK, Invalidate
<1>1. PICK bad \in SUBSET InCheckpt :
        /\ block_state' = [b \in Blocks |->
             IF b \in {d \in Blocks \ bad : block_state[d] = "CHECKPOINT"}
               THEN "EMPTY"
             ELSE IF b \in bad THEN "DEAD" ELSE block_state[b]]
        /\ n_erased_blocks' = n_erased_blocks +
             Cardinality({d \in Blocks \ bad : block_state[d] = "CHECKPOINT"})
  BY DEF Invalidate, InCheckpt
<1> DEFINE erased == {d \in Blocks \ bad : block_state[d] = "CHECKPOINT"}
<1>2. Empty' = Empty \cup erased
  BY <1>1 DEF Empty, InCheckpt
<1>3. InCheckpt' = {}
  BY <1>1 DEF InCheckpt
<1>4. /\ Empty \in SUBSET Blocks /\ erased \in SUBSET Blocks
      /\ Empty \cap erased = {}
  BY DEF Empty
<1>5. Cardinality(Empty \cup erased) = Cardinality(Empty) + Cardinality(erased)
  <2>1. /\ IsFiniteSet(Empty) /\ IsFiniteSet(erased)
        /\ Cardinality(Empty) \in Nat /\ Cardinality(erased) \in Nat
    BY <1>4, FiniteBlocks
  <2>2. Cardinality(Empty \cup erased) =
          Cardinality(Empty) + Cardinality(erased) - Cardinality(Empty \cap erased)
    BY <2>1, FS_Union
  <2>3. Cardinality(Empty \cap erased) = 0
    BY <1>4, FS_EmptySet, Zenon
  <2>. QED
    BY <2>1, <2>2, <2>3
<1>6. Cardinality(InCheckpt') = 0
  BY <1>3, FS_EmptySet
<1>7. n_erased_blocks' = Cardinality(Empty') + Uncounted'
  <2>1. Cardinality(Empty) \in Nat /\ Cardinality(erased) \in Nat
    BY <1>4, FiniteBlocks
  <2>2. n_erased_blocks' = Cardinality(Empty) + Cardinality(erased)
    BY <1>1, <2>1 DEF ErasedBlocksExact, Uncounted
  <2>. QED
    BY <1>2, <1>5, <2>1, <2>2 DEF Uncounted
<1>. QED
  BY <1>6, <1>7 DEF ErasedBlocksExact, InCheckpt

\* A block that is erased, or no longer is, changes the count by one.
LEMMA CountBlock ==
  ASSUME NEW S \in SUBSET Blocks, NEW b \in Blocks
  PROVE  /\ b \notin S => Cardinality(S \cup {b}) = Cardinality(S) + 1
         /\ b \in S => Cardinality(S \ {b}) = Cardinality(S) - 1
         /\ Cardinality(S) \in Nat
BY FiniteBlocks, FS_AddElement, FS_RemoveElement

\* A block is taken from the erased ones.
LEMMA FindAllocBlockErased ==
  ASSUME IInv, ErasedBlocksExact, FindAllocBlock
  PROVE  ErasedBlocksExact'
<1>1. PICK b \in Empty : block_state' = [block_state EXCEPT ![b] = "ALLOCATING"]
  BY DEF FindAllocBlock
<1>2. /\ block_state \in [Blocks -> BlockStates]
      /\ pc = "write" /\ pc' = pc
      /\ n_erased_blocks' = n_erased_blocks - 1
      /\ UNCHANGED blocks_in_checkpt
  BY DEF IInv, TypeOK, BlocksTypeOK, FindAllocBlock
<1>3. Empty' = Empty \ {b} /\ InCheckpt' = InCheckpt
  BY <1>1, <1>2 DEF Empty, InCheckpt
<1>4. Empty \in SUBSET Blocks /\ b \in Blocks
  BY DEF Empty
<1>5. /\ Cardinality(Empty') = Cardinality(Empty) - 1
      /\ Cardinality(Empty) \in Nat
  BY <1>3, <1>4, CountBlock
<1>6. n_erased_blocks' = Cardinality(Empty') + Uncounted'
  BY <1>2, <1>5 DEF ErasedBlocksExact, Uncounted
<1>. QED
  BY <1>2, <1>3, <1>6 DEF ErasedBlocksExact, InCheckpt

\* A block is erased.
LEMMA EraseOkErased ==
  ASSUME IInv, ErasedBlocksExact, EraseOk
  PROVE  ErasedBlocksExact'
<1> DEFINE b == del.chunk[1]
<1>1. /\ block_state \in [Blocks -> BlockStates]
      /\ pc = "erase" /\ pc' = del.ret
      /\ del.ret \in {"idle", "skip", "finish", "collect", "collected"}
      /\ block_state' = [block_state EXCEPT ![b] = "EMPTY"]
      /\ n_erased_blocks' = n_erased_blocks + 1
      /\ UNCHANGED blocks_in_checkpt
  BY DEF IInv, TypeOK, BlocksTypeOK, CallTypeOK, EraseOk
<1>2. b \in Blocks /\ block_state[b] = "DIRTY"
  BY <1>1 DEF IInv, CallInv, DelInv, Chunks
<1>3. /\ Empty' = Empty \cup {b} /\ InCheckpt' = InCheckpt
      /\ Empty \in SUBSET Blocks /\ b \notin Empty
  BY <1>1, <1>2 DEF Empty, InCheckpt
<1>4. /\ Cardinality(Empty') = Cardinality(Empty) + 1
      /\ Cardinality(Empty) \in Nat
  BY <1>2, <1>3, CountBlock
<1>5. n_erased_blocks' = Cardinality(Empty') + Uncounted'
  BY <1>1, <1>4 DEF ErasedBlocksExact, Uncounted
<1>. QED
  BY <1>1, <1>3, <1>5 DEF ErasedBlocksExact, InCheckpt

\* A block that is lost was counted neither before nor after.
LEMMA RetireErased ==
  ASSUME IInv, ErasedBlocksExact, RetireBlock
  PROVE  ErasedBlocksExact'
<1>1. /\ block_state \in [Blocks -> BlockStates]
      /\ pc = "erase" /\ pc' = del.ret
      /\ del.ret \in {"idle", "skip", "finish", "collect", "collected"}
      /\ block_state' = [block_state EXCEPT ![del.chunk[1]] = "DEAD"]
      /\ UNCHANGED <<n_erased_blocks, blocks_in_checkpt>>
  BY DEF IInv, TypeOK, BlocksTypeOK, CallTypeOK, RetireBlock
<1>2. block_state[del.chunk[1]] = "DIRTY"
  BY <1>1 DEF IInv, DelInv
<1>3. Empty' = Empty /\ InCheckpt' = InCheckpt
  BY <1>1, <1>2 DEF Empty, InCheckpt
<1>. QED
  BY <1>1, <1>3 DEF ErasedBlocksExact, InCheckpt, Uncounted

\* A flush takes one erased block for the checkpoint, or none.
LEMMA FlushTakes ==
  ASSUME IInv, FlushOk \/ FlushFails
  PROVE  \/ UNCHANGED <<block_state, blocks_in_checkpt>>
         \/ \E b \in Empty :
              /\ block_state' = [block_state EXCEPT ![b] = "CHECKPOINT"]
              /\ blocks_in_checkpt' = blocks_in_checkpt + 1
<1>1. CASE FlushFails
  BY <1>1 DEF FlushFails
<1>2. CASE FlushOk /\ checkpt.cur # NoBlock
  BY <1>2, GeometryAssumption DEF FlushOk, FlushesTo, IInv, CkptInv, TypeOK,
     CkptTypeOK, Pages
<1>3. CASE FlushOk /\ checkpt.cur = NoBlock
  <2>1. NextCheckptBlock # NoBlock /\ FlushesTo(NextCheckptBlock, 0)
    BY <1>3 DEF FlushOk
  <2>2. NextCheckptBlock \in Empty
    <3> DEFINE ahead == {b \in Empty : b >= checkpt.next}
    <3>1. /\ ahead # {}
          /\ NextCheckptBlock = CHOOSE b \in ahead : \A c \in ahead : b <= c
      BY <2>1 DEF NextCheckptBlock
    <3>2. ahead \in SUBSET Nat
      BY GeometryAssumption DEF Empty
    <3>3. \E b \in ahead : \A c \in ahead : b <= c
      BY <3>1, <3>2, LeastNatural
    <3>. QED
      BY <3>1, <3>3
  <2>. QED
    BY <2>1, <2>2 DEF FlushesTo
<1>. QED
  BY <1>1, <1>2, <1>3

\* A flush moves one block from the erased ones to the checkpoint's; they are
\* counted when the stream is closed.
LEMMA SaveErased ==
  ASSUME IInv, ErasedBlocksExact, SaveStep
  PROVE  ErasedBlocksExact'
<1>1. /\ block_state \in [Blocks -> BlockStates] /\ blocks_in_checkpt \in Nat
      /\ Empty \in SUBSET Blocks /\ InCheckpt \in SUBSET Blocks
      /\ Cardinality(Empty) \in Nat
  BY CountBlock, GeometryAssumption, FiniteBlocks
  DEF IInv, TypeOK, BlocksTypeOK, CkptTypeOK, Empty, InCheckpt
<1>2. CASE OpenStream \/ EndStream
  <2>1. UNCHANGED <<block_state, n_erased_blocks, blocks_in_checkpt>>
    BY <1>2 DEF OpenStream, EndStream
  <2>2. Uncounted' = Uncounted
    BY <1>1, <1>2 DEF OpenStream, EndStream, Uncounted, HasCheckpt
  <2>. QED
    BY <2>1, <2>2 DEF ErasedBlocksExact, Empty
<1>3. CASE WriteStream \/ CloseStream
  <2>1. /\ pc \in {"save", "close"} /\ pc' \in {"save", "close", "count"}
        /\ UNCHANGED n_erased_blocks
        /\ \/ FlushOk \/ FlushFails
           \/ UNCHANGED <<block_state, blocks_in_checkpt>>
    BY <1>3 DEF WriteStream, CloseStream
  <2>2. CASE UNCHANGED <<block_state, blocks_in_checkpt>>
    BY <2>1, <2>2 DEF ErasedBlocksExact, Empty, Uncounted
  <2>3. CASE ~UNCHANGED <<block_state, blocks_in_checkpt>>
    <3>1. PICK b \in Empty :
            /\ block_state' = [block_state EXCEPT ![b] = "CHECKPOINT"]
            /\ blocks_in_checkpt' = blocks_in_checkpt + 1
      BY <2>1, <2>3, FlushTakes
    <3>2. /\ b \in Blocks /\ Empty' = Empty \ {b}
          /\ InCheckpt' = InCheckpt \cup {b} /\ b \notin InCheckpt
      BY <1>1, <3>1 DEF Empty, InCheckpt
    <3>3. /\ Cardinality(Empty') = Cardinality(Empty) - 1
          /\ Cardinality(InCheckpt') = Cardinality(InCheckpt) + 1
      BY <1>1, <3>2, CountBlock
    <3>. QED
      BY <1>1, <2>1, <3>1, <3>3 DEF ErasedBlocksExact, Uncounted, InCheckpt
  <2>. QED
    BY <2>2, <2>3
<1>4. CASE CountCheckpt
  <2>1. UNCHANGED <<block_state, blocks_in_checkpt>> /\ Empty' = Empty
    BY <1>4 DEF CountCheckpt, Empty
  <2>2. /\ pc = "count" /\ pc' = "idle"
        /\ n_erased_blocks' = n_erased_blocks - blocks_in_checkpt
    BY <1>4 DEF CountCheckpt
  <2>. QED
    BY <1>1, <2>1, <2>2 DEF ErasedBlocksExact, Uncounted
<1>. QED
  BY <1>2, <1>3, <1>4 DEF SaveStep

\* No step leaves the counts of blocks wrong.
LEMMA ErasedStep ==
  ASSUME IInv, ErasedBlocksExact, [Next]_vars
  PROVE  ErasedBlocksExact'
<1>1. CASE UNCHANGED vars
  BY <1>1 DEF vars, ErasedBlocksExact, Empty, Uncounted
<1>2. CASE Counted
  BY <1>2, InvalidateErased, FindAllocBlockErased, EraseOkErased,
     RetireErased, SaveErased
  DEF Counted
<1>. QED
  BY <1>1, <1>2, QuietOrCounted, QuietErased

\* "Erased block count wrong" and "Checkpoint block count wrong" are never
\* said by yaffs_verify_blocks, whatever fails: neither when blocks of a
\* checkpoint cannot be erased nor when a save runs out of blocks.
THEOREM ErasedBlocksCorrect == Spec => []ErasedBlocksExact
<1>1. Init => ErasedBlocksExact
  <2>1. ASSUME Init PROVE Empty = Blocks \ FactoryBad /\ InCheckpt = {}
    BY <2>1 DEF Init, Empty, InCheckpt
  <2>2. Cardinality({}) = 0 /\ Cardinality(Blocks \ FactoryBad) \in Nat
    BY FS_EmptySet, FiniteBlocks
  <2>3. ASSUME Init PROVE n_erased_blocks = Cardinality(Empty) + Uncounted
    <3>1. pc = "idle" /\ n_erased_blocks = Cardinality(Blocks \ FactoryBad)
      BY <2>3 DEF Init
    <3>2. n_erased_blocks = Cardinality(Empty)
      BY <2>1, <2>3, <3>1, Zenon
    <3>3. Uncounted = 0 /\ n_erased_blocks \in Nat
      BY <2>2, <3>1 DEF Uncounted
    <3>. QED
      BY <3>2, <3>3
  <2>4. ASSUME Init PROVE blocks_in_checkpt = Cardinality(InCheckpt)
    <3>1. InCheckpt = {} /\ blocks_in_checkpt = 0
      BY <2>1, <2>4 DEF Init
    <3>. QED
      BY <3>1, <2>2, Zenon
  <2>. QED
    BY <2>3, <2>4 DEF ErasedBlocksExact, InCheckpt
<1>2. IInv /\ ErasedBlocksExact /\ [Next]_vars => ErasedBlocksExact'
  BY ErasedStep
<1>. QED
  BY <1>1, <1>2, Invariant, PTL DEF Spec

-----------------------------------------------------------------------------
\* Whole blocks of chunks.
LEMMA WholeBlocks ==
  ASSUME NEW S \in SUBSET Blocks
  PROVE  /\ S \X Pages \in SUBSET Chunks
         /\ Cardinality(S \X Pages) = Cardinality(S) * ChunksPerBlock
<1>1. IsFiniteSet(S) /\ Cardinality(S) \in Nat
  BY FiniteBlocks
<1>2. IsFiniteSet(Pages) /\ Cardinality(Pages) = ChunksPerBlock
  BY FS_Interval, GeometryAssumption DEF Pages
<1>3. Cardinality(S \X Pages) = Cardinality(S) * Cardinality(Pages)
  BY <1>1, <1>2, FS_Product
<1>. QED
  BY <1>2, <1>3 DEF Chunks

LEMMA FreeType ==
  FreeChunks \in SUBSET Chunks /\ Cardinality(FreeChunks) \in Nat
BY FiniteChunks DEF FreeChunks

\* Outside a save the counter is the number of free chunks.
LEMMA FreeCounted ==
  ASSUME FreeChunksExact, ~Saving
  PROVE  n_free_chunks = Cardinality(FreeChunks)
<1>1. Uncounted * ChunksPerBlock = 0
  BY GeometryAssumption DEF Uncounted, Saving
<1>. QED
  BY <1>1, FreeType DEF FreeChunksExact

\* Chunks become free and are counted.
LEMMA FreeGained ==
  ASSUME FreeChunksExact, ~Saving, ~Saving', NEW G \in SUBSET Chunks,
         G \cap FreeChunks = {}, FreeChunks' = FreeChunks \cup G,
         n_free_chunks' = n_free_chunks + Cardinality(G)
  PROVE  FreeChunksExact'
<1>1. Uncounted' * ChunksPerBlock = 0
  BY GeometryAssumption DEF Uncounted, Saving
<1>2. /\ IsFiniteSet(FreeChunks) /\ IsFiniteSet(G)
      /\ Cardinality(FreeChunks) \in Nat /\ Cardinality(G) \in Nat
  BY FreeType, FiniteChunks
<1>3. Cardinality(FreeChunks \cup G) =
        Cardinality(FreeChunks) + Cardinality(G) - Cardinality(FreeChunks \cap G)
  BY <1>2, FS_Union
<1>4. Cardinality(FreeChunks \cap G) = 0
  <2>1. FreeChunks \cap G = {}
    OBVIOUS
  <2>. QED
    BY <2>1, FS_EmptySet, Zenon
<1>5. Cardinality(FreeChunks') = Cardinality(FreeChunks) + Cardinality(G)
  BY <1>2, <1>3, <1>4
<1>. QED
  BY <1>1, <1>2, <1>5, FreeCounted DEF FreeChunksExact

\* Chunks are free no longer.
LEMMA FreeLost ==
  ASSUME FreeChunksExact, ~Saving, ~Saving', NEW L \in SUBSET FreeChunks,
         FreeChunks' = FreeChunks \ L,
         n_free_chunks' = n_free_chunks - Cardinality(L)
  PROVE  FreeChunksExact'
<1>1. Uncounted' * ChunksPerBlock = 0
  BY GeometryAssumption DEF Uncounted, Saving
<1>2. /\ IsFiniteSet(FreeChunks) /\ IsFiniteSet(L)
      /\ Cardinality(FreeChunks) \in Nat /\ Cardinality(L) \in Nat
  BY FreeType, FiniteChunks
<1>3. Cardinality(FreeChunks \ L) =
        Cardinality(FreeChunks) - Cardinality(FreeChunks \cap L)
  BY <1>2, FS_Difference
<1>4. FreeChunks \cap L = L
  OBVIOUS
<1>5. Cardinality(FreeChunks') = Cardinality(FreeChunks) - Cardinality(L)
  BY <1>3, <1>4
<1>. QED
  BY <1>1, <1>2, <1>5, FreeCounted DEF FreeChunksExact

\* The steps that change what is free.
Moving ==
  Invalidate \/ AllocChunk \/ WriteSummary \/ ChunkDel \/ RetireBlock
    \/ GcBlockStart \/ CollectSoft \/ SoftDelChunk \/ SaveStep

\* Blocks go from state to state with what is free in them.
Unmoved ==
  /\ ~Saving /\ ~Saving'
  /\ UNCHANGED <<chunk_bits, soft, n_free_chunks>>
  /\ \A b \in Blocks : \/ block_state'[b] = block_state[b]
                       \/ /\ block_state[b] \in LogStates \cup {"EMPTY"}
                          /\ block_state'[b] \in LogStates \cup {"EMPTY"}

LEMMA UnmovedFree ==
  ASSUME FreeChunksExact, Unmoved
  PROVE  FreeChunksExact'
<1>1. FreeChunks' = FreeChunks
  BY DEF Unmoved, FreeChunks, LogStates, Chunks
<1>2. Uncounted = 0 /\ Uncounted' = 0
  BY DEF Unmoved, Saving, Uncounted
<1>. QED
  BY <1>1, <1>2 DEF FreeChunksExact, Unmoved

\* The other steps change neither the bits nor the counter.
LEMMA UnmovedOrMoving ==
  ASSUME IInv, [Next]_vars
  PROVE  Unmoved \/ Moving \/ UNCHANGED vars
<1>. block_state \in [Blocks -> BlockStates]
  BY DEF IInv, TypeOK, BlocksTypeOK
<1>1. CASE FindAllocBlock
  <2>1. /\ pc = "write" /\ pc' = pc
        /\ UNCHANGED <<chunk_bits, soft, n_free_chunks>>
        /\ \E b \in Empty : block_state' = [block_state EXCEPT ![b] = "ALLOCATING"]
    BY <1>1 DEF FindAllocBlock
  <2>. QED
    BY <2>1 DEF Unmoved, Saving, LogStates, Empty
<1>2. CASE EraseOk
  <2>1. /\ pc = "erase" /\ pc' = del.ret
        /\ UNCHANGED <<soft, n_free_chunks>>
        /\ block_state' = [block_state EXCEPT ![del.chunk[1]] = "EMPTY"]
        /\ chunk_bits' = {c \in chunk_bits : c[1] # del.chunk[1]}
    BY <1>2 DEF EraseOk
  <2>2. /\ chunk_bits' = chunk_bits
        /\ block_state[del.chunk[1]] = "DIRTY"
        /\ del.ret \in {"idle", "skip", "finish", "collect", "collected"}
    BY <2>1 DEF IInv, DelInv, TypeOK, CallTypeOK
  <2>. QED
    BY <2>1, <2>2 DEF Unmoved, Saving, LogStates
<1>3. CASE Quiet /\ UNCHANGED <<chunk_bits, soft, n_free_chunks>>
  BY <1>3 DEF Quiet, Unmoved
<1>4. CASE WriteStep /\ ~Moving /\ ~FindAllocBlock
  <2>1. UNCHANGED <<chunk_bits, soft, n_free_chunks>>
    BY <1>4 DEF Moving, WriteStep, WriteFails, NotErased, ProgramChunk,
       VerifyOk, VerifyFails, SkipRestOfBlock, Written, FinishWrite
  <2>. QED
    BY <1>3, <1>4, <2>1, WriteQuiet DEF Moving
<1>5. CASE DelStep /\ ~Moving /\ ~EraseOk
  <2>1. UNCHANGED <<chunk_bits, soft, n_free_chunks>>
    BY <1>5 DEF Moving, DelStep, BecameDirty
  <2>. QED
    BY <1>3, <1>5, <2>1, DelQuiet DEF Moving
<1>6. CASE GcStep /\ ~Moving
  <2>1. UNCHANGED <<chunk_bits, soft, n_free_chunks>>
    BY <1>6 DEF Moving, GcStep, SkipGc, ResumeGc, RefreshSelect,
       PrioritisedSelect, OldestForPrioritised, DirtiestSelect, OldestSelect,
       SelectNone, GcSelected, GcBlockCalled, CollectOrphan, CollectCopy,
       CollectEnd, CollectedSome, CleanUp, CollectedAll
  <2>. QED
    BY <1>3, <1>6, <2>1, GcQuiet
<1>7. CASE (StartStep \/ Begin) /\ ~Moving
  <2>1. UNCHANGED <<chunk_bits, soft, n_free_chunks>>
    BY <1>7 DEF Moving, StartStep, StartData, StartHeader, StartShrink,
       StartWrite, Begin, BeginWrite, BgGc, BeginCall, DeleteChunk, ReadError,
       SaveCheckpt
  <2>. QED
    BY <1>3, <1>7, <2>1, BeginQuiet
<1>. QED
  BY <1>1, <1>2, <1>4, <1>5, <1>6, <1>7 DEF Next, Step, Rest, Moving

-----------------------------------------------------------------------------
\* The chunks of an invalidated checkpoint are free again, but for the blocks
\* that are bad.
LEMMA InvalidateFree ==
  ASSUME IInv, FreeChunksExact, Invalidate
  PROVE  FreeChunksExact'
<1>. /\ block_state \in [Blocks -> BlockStates]
     /\ ~Saving /\ ~Saving'
     /\ UNCHANGED <<chunk_bits, soft>>
  BY DEF IInv, TypeOK, BlocksTypeOK, Invalidate, Saving
<1>1. PICK bad \in SUBSET InCheckpt :
        /\ block_state' = [b \in Blocks |->
             IF b \in {d \in Blocks \ bad : block_state[d] = "CHECKPOINT"}
               THEN "EMPTY"
             ELSE IF b \in bad THEN "DEAD" ELSE block_state[b]]
        /\ n_free_chunks' = n_free_chunks +
             Cardinality({d \in Blocks \ bad : block_state[d] = "CHECKPOINT"})
               * ChunksPerBlock
  BY DEF Invalidate, InCheckpt
<1> DEFINE erased == {d \in Blocks \ bad : block_state[d] = "CHECKPOINT"}
<1>2. \A c \in chunk_bits : block_state[c[1]] # "CHECKPOINT"
  BY DEF IInv, BitsInv
<1>3. erased \in SUBSET Blocks
  OBVIOUS
<1>4. FreeChunks' = FreeChunks \cup (erased \X Pages)
  BY <1>1, <1>2 DEF FreeChunks, Chunks, InCheckpt
<1>5. (erased \X Pages) \cap FreeChunks = {}
  BY DEF FreeChunks
<1>6. /\ erased \X Pages \in SUBSET Chunks
      /\ n_free_chunks' = n_free_chunks + Cardinality(erased \X Pages)
  BY <1>1, <1>3, WholeBlocks
<1>. QED
  BY <1>4, <1>5, <1>6, FreeGained

\* A chunk is taken.
LEMMA AllocChunkFree ==
  ASSUME IInv, FreeChunksExact, AllocChunk
  PROVE  FreeChunksExact'
<1> DEFINE c == <<alloc_block, alloc_page>>
<1>1. /\ alloc_block \in Blocks /\ block_state[alloc_block] = "ALLOCATING"
      /\ alloc_page \in Pages
      /\ \A d \in chunk_bits : d[1] = alloc_block => d[2] < alloc_page
  BY GeometryAssumption DEF IInv, TypeOK, AllocTypeOK, AllocInv, AllocChunk,
     Pages
<1>2. c \in Chunks /\ c \notin chunk_bits
  BY <1>1, GeometryAssumption DEF Chunks, Pages
<1>3. /\ chunk_bits' = chunk_bits \cup {c} /\ UNCHANGED soft
      /\ n_free_chunks' = n_free_chunks - 1
  BY DEF AllocChunk
<1>4. ~Saving /\ ~Saving'
  BY DEF AllocChunk, Saving
<1>5. \A b \in Blocks : block_state'[b] = block_state[b]
                          \/ (b = alloc_block /\ block_state'[b] = "FULL")
  <2>1. block_state \in [Blocks -> BlockStates]
    BY DEF IInv, TypeOK, BlocksTypeOK
  <2>2. \/ block_state' = block_state
        \/ block_state' = [block_state EXCEPT ![alloc_block] = "FULL"]
    BY DEF AllocChunk
  <2>. QED
    BY <2>1, <2>2
<1>6. c \notin soft
  BY <1>2 DEF IInv, BitsInv
<1>7. /\ {c} \in SUBSET FreeChunks
      /\ FreeChunks' = FreeChunks \ {c}
  <2>1. c[1] = alloc_block
    OBVIOUS
  <2>. HIDE DEF c
  <2>. QED
    BY <1>1, <1>2, <1>3, <1>5, <1>6, <2>1 DEF FreeChunks, Chunks
<1>8. Cardinality({c}) = 1
  BY FS_Singleton
<1>. QED
  BY <1>3, <1>4, <1>7, <1>8, FreeLost

\* The chunks of a summary, or those before the one that fails.
LEMMA WriteSummaryFree ==
  ASSUME IInv, FreeChunksExact, WriteSummary
  PROVE  FreeChunksExact'
<1> DEFINE b == call.new[1]
<1>1. PICK n \in 0 .. SummaryChunks :
        /\ chunk_bits' = chunk_bits \cup
                           ({b} \X (LastDataPage + 1 .. LastDataPage + n))
        /\ n_free_chunks' = n_free_chunks - n
        /\ block_state' = [block_state EXCEPT ![b] = "FULL"]
  BY DEF WriteSummary
<1> DEFINE taken == {b} \X (LastDataPage + 1 .. LastDataPage + n)
<1>2. /\ pc = "summary" /\ ~Saving /\ ~Saving' /\ UNCHANGED soft
  BY DEF WriteSummary, Saving
<1>3. /\ block_state \in [Blocks -> BlockStates]
      /\ call.new \in Chunks /\ b \in Blocks
      /\ call.new[2] = LastDataPage /\ SummaryChunks > 0
  BY <1>2 DEF IInv, TypeOK, BlocksTypeOK, CallInv, AllocInv, Chunks
<1>4. /\ LastDataPage \in Int /\ n \in Nat
      /\ LastDataPage + 1 < ChunksPerBlock
      /\ LastDataPage + n < ChunksPerBlock
      /\ LastDataPage + 1 >= 0
  BY <1>3, GeometryAssumption DEF LastDataPage
<1>5. alloc_block = b /\ alloc_page = LastDataPage + 1
  BY <1>2, <1>3, <1>4 DEF IInv, AllocInv
<1>6. block_state[b] = "ALLOCATING"
  BY <1>3, <1>5 DEF IInv, AllocInv
<1>7. \A c \in chunk_bits : c[1] = b => c[2] < LastDataPage + 1
  BY <1>3, <1>5 DEF IInv, AllocInv
<1>8. /\ taken \in SUBSET Chunks
      /\ taken \cap chunk_bits = {}
      /\ Cardinality(taken) = n
  <2>1. LastDataPage + 1 .. LastDataPage + n \subseteq Pages
    BY <1>4, GeometryAssumption DEF Pages
  <2>2. taken \in SUBSET Chunks
    BY <1>3, <2>1 DEF Chunks
  <2>3. \A c \in taken : c[1] = b /\ ~(c[2] < LastDataPage + 1)
    BY <1>4
  <2>4. taken \cap chunk_bits = {}
    BY <1>7, <2>3
  <2>5. Cardinality(taken) = n
    BY <1>3, <1>4, CountPages
  <2>. QED
    BY <2>2, <2>4, <2>5
<1>9. \A c \in taken : c \notin soft /\ c[1] = b
  BY <1>8 DEF IInv, BitsInv
<1>10. taken \in SUBSET FreeChunks
  BY <1>6, <1>8, <1>9 DEF FreeChunks
<1>11. FreeChunks' = FreeChunks \ taken
  <2>1. \A d \in Blocks : block_state'[d] = block_state[d]
                            \/ (d = b /\ block_state'[d] = "FULL")
    <3>1. block_state' = [block_state EXCEPT ![b] = "FULL"]
      BY <1>1
    <3>. QED
      BY <1>3, <3>1
  <2>. HIDE DEF taken
  <2>2. chunk_bits' = chunk_bits \cup taken
    BY <1>1 DEF taken
  <2>. QED
    BY <1>2, <1>3, <1>6, <1>9, <2>1, <2>2 DEF FreeChunks, Chunks
<1>. QED
  BY <1>1, <1>2, <1>8, <1>10, <1>11, FreeLost

\* A chunk is deleted.
LEMMA ChunkDelFree ==
  ASSUME IInv, FreeChunksExact, ChunkDel
  PROVE  FreeChunksExact'
<1> DEFINE c == del.chunk
<1>1. /\ pc = "del" /\ pc' \in {"dirty", del.ret}
      /\ block_state[c[1]] \in {"ALLOCATING", "FULL", "COLLECTING"}
      /\ n_free_chunks' = n_free_chunks + 1
      /\ chunk_bits' = chunk_bits \ {c}
      /\ UNCHANGED <<block_state, soft>>
  BY DEF ChunkDel
<1>2. /\ c \in chunk_bits /\ c \notin soft /\ c \in Chunks
      /\ del.ret \in {"idle", "skip", "finish", "collect", "collected"}
  BY <1>1 DEF IInv, DelInv, TypeOK, BlocksTypeOK, CallTypeOK
<1>3. {c} \cap FreeChunks = {} /\ FreeChunks' = FreeChunks \cup {c}
  BY <1>1, <1>2 DEF FreeChunks
<1>4. ~Saving /\ ~Saving'
  BY <1>1, <1>2 DEF Saving
<1>5. Cardinality({c}) = 1
  BY FS_Singleton
<1>. QED
  BY <1>1, <1>2, <1>3, <1>4, <1>5, FreeGained

\* "We lost a block of free space."
LEMMA RetireBlockFree ==
  ASSUME IInv, FreeChunksExact, RetireBlock
  PROVE  FreeChunksExact'
<1> DEFINE b == del.chunk[1]
<1>1. /\ pc = "erase" /\ pc' = del.ret
      /\ block_state' = [block_state EXCEPT ![b] = "DEAD"]
      /\ n_free_chunks' = n_free_chunks - ChunksPerBlock
      /\ UNCHANGED <<chunk_bits, soft>>
  BY DEF RetireBlock, FreeAfterRetiring
<1>2. /\ block_state \in [Blocks -> BlockStates]
      /\ b \in Blocks /\ block_state[b] = "DIRTY"
      /\ \A c \in chunk_bits : c[1] # b
      /\ del.ret \in {"idle", "skip", "finish", "collect", "collected"}
  BY <1>1 DEF IInv, DelInv, CallInv, TypeOK, BlocksTypeOK, CallTypeOK, Chunks
<1>3. /\ {b} \X Pages \in SUBSET Chunks
      /\ Cardinality({b} \X Pages) = ChunksPerBlock
  <2>1. Cardinality({b}) = 1
    BY FS_Singleton
  <2>2. Cardinality({b} \X Pages) = Cardinality({b}) * ChunksPerBlock
    BY <1>2, WholeBlocks
  <2>. QED
    BY <1>2, <2>1, <2>2, WholeBlocks, GeometryAssumption
<1>4. /\ {b} \X Pages \in SUBSET FreeChunks
      /\ FreeChunks' = FreeChunks \ ({b} \X Pages)
  BY <1>1, <1>2, <1>3 DEF FreeChunks, Chunks
<1>5. ~Saving /\ ~Saving'
  BY <1>1, <1>2 DEF Saving
<1>. QED
  BY <1>1, <1>3, <1>4, <1>5, FreeLost

\* The chunks of a dropped summary are free.
LEMMA GcBlockStartFree ==
  ASSUME IInv, FreeChunksExact, GcBlockStart
  PROVE  FreeChunksExact'
<1> DEFINE b == gc_block
           dropped == IF b \in has_summary
                        THEN chunk_bits \cap ({b} \X SummaryPages) ELSE {}
<1>1. /\ pc = "gcblk" /\ pc' \in {"dirty", "collect"}
      /\ block_state' = [block_state EXCEPT ![b] = "COLLECTING"]
      /\ chunk_bits' = chunk_bits \ dropped
      /\ n_free_chunks' = n_free_chunks + Cardinality(dropped)
      /\ UNCHANGED soft
  BY DEF GcBlockStart
<1>2. ~Saving /\ ~Saving'
  BY <1>1 DEF Saving
<1>3. \A d \in Blocks : block_state'[d] = block_state[d]
                          \/ (d = b /\ block_state'[d] = "COLLECTING")
  <2>1. block_state \in [Blocks -> BlockStates]
    BY DEF IInv, TypeOK, BlocksTypeOK
  <2>2. block_state' = [block_state EXCEPT ![b] = "COLLECTING"]
    BY <1>1
  <2>. QED
    BY <2>1, <2>2
<1>4. block_state[b] \in LogStates
  BY <1>1 DEF IInv, CallInv, GcInv, LogStates
<1>5. \A c \in dropped : c \in chunk_bits /\ c \in Chunks /\ c[1] = b
                           /\ c \notin soft
  <2>1. \A c \in dropped : c \in chunk_bits /\ c[1] = b /\ b \in has_summary
                             /\ c[2] \in SummaryPages
    OBVIOUS
  <2>2. \A c \in dropped : c[2] > LastDataPage
    BY <2>1, GeometryAssumption DEF SummaryPages, LastDataPage
  <2>3. \A c \in live \cup soft : c[1] \in has_summary => c[2] <= LastDataPage
    BY DEF IInv, SummaryInv
  <2>4. LastDataPage \in Int /\ \A c \in chunk_bits : c[2] \in Int
    BY GeometryAssumption DEF LastDataPage, IInv, TypeOK, BlocksTypeOK, Chunks,
       Pages
  <2>5. chunk_bits \subseteq Chunks
    BY DEF IInv, TypeOK, BlocksTypeOK
  <2>. HIDE DEF dropped
  <2>. QED
    BY <2>1, <2>2, <2>3, <2>4, <2>5
<1>6. dropped \in SUBSET Chunks /\ dropped \cap FreeChunks = {}
  <2>. HIDE DEF dropped
  <2>. QED
    BY <1>5 DEF FreeChunks
<1>7. FreeChunks' = FreeChunks \cup dropped
  <2>1. chunk_bits' = chunk_bits \ dropped /\ soft' = soft
    BY <1>1
  <2>2. b \in Blocks => block_state'[b] \in LogStates
    BY <1>3, <1>4 DEF LogStates
  <2>. HIDE DEF dropped
  <2>. QED
    BY <1>3, <1>4, <1>5, <2>1, <2>2 DEF FreeChunks, Chunks, LogStates
<1>. QED
  BY <1>1, <1>2, <1>6, <1>7, FreeGained

\* A chunk of a soft-deleted file, until it is deleted, is not free.
LEMMA CollectSoftFree ==
  ASSUME IInv, FreeChunksExact, CollectSoft
  PROVE  FreeChunksExact'
<1>1. PICK c \in soft : soft' = soft \ {c} /\ pc' = "del"
  BY DEF CollectSoft, CallDel
<1>2. /\ n_free_chunks' = n_free_chunks - 1
      /\ UNCHANGED <<block_state, chunk_bits>>
      /\ pc = "collect"
  BY DEF CollectSoft, FreeBeforeSoftDel, CollectNext, CollectLoops
<1>3. /\ c \in chunk_bits /\ c \in Chunks
      /\ block_state[c[1]] \in {"ALLOCATING", "FULL", "COLLECTING"}
  BY DEF IInv, BitsInv, TypeOK, BlocksTypeOK
<1>4. {c} \in SUBSET FreeChunks /\ FreeChunks' = FreeChunks \ {c}
  BY <1>1, <1>2, <1>3 DEF FreeChunks
<1>5. Cardinality({c}) = 1
  BY FS_Singleton
<1>6. ~Saving /\ ~Saving'
  BY <1>1, <1>2 DEF Saving
<1>. QED
  BY <1>2, <1>4, <1>5, <1>6, FreeLost

\* A soft-deleted chunk is free at once.
LEMMA SoftDelChunkFree ==
  ASSUME IInv, FreeChunksExact, SoftDelChunk
  PROVE  FreeChunksExact'
<1>1. PICK c \in live : soft' = soft \cup {c}
  BY DEF SoftDelChunk
<1>2. /\ n_free_chunks' = n_free_chunks + 1
      /\ UNCHANGED <<block_state, chunk_bits>>
      /\ pc = "idle" /\ pc' = pc
  BY DEF SoftDelChunk
<1>3. /\ c \in chunk_bits /\ c \in Chunks /\ c \notin soft
      /\ block_state[c[1]] \in {"ALLOCATING", "FULL", "COLLECTING"}
  BY DEF IInv, BitsInv, TypeOK, BlocksTypeOK
<1>4. {c} \cap FreeChunks = {} /\ FreeChunks' = FreeChunks \cup {c}
  BY <1>1, <1>2, <1>3 DEF FreeChunks
<1>5. Cardinality({c}) = 1
  BY FS_Singleton
<1>6. ~Saving /\ ~Saving'
  BY <1>2 DEF Saving
<1>. QED
  BY <1>2, <1>3, <1>4, <1>5, <1>6, FreeGained

\* The chunks of a checkpoint's blocks are taken out of the count together,
\* when the stream is closed.
LEMMA SaveFree ==
  ASSUME IInv, FreeChunksExact, SaveStep
  PROVE  FreeChunksExact'
<1>1. /\ block_state \in [Blocks -> BlockStates] /\ blocks_in_checkpt \in Nat
      /\ ChunksPerBlock \in Nat
      /\ FreeChunks \in SUBSET Chunks /\ Cardinality(FreeChunks) \in Nat
  BY FreeType, GeometryAssumption DEF IInv, TypeOK, BlocksTypeOK, CkptTypeOK
<1>2. UNCHANGED <<chunk_bits, soft>>
  BY DEF SaveStep, OpenStream, WriteStream, EndStream, CloseStream, CountCheckpt
<1>3. CASE OpenStream \/ EndStream
  <2>1. UNCHANGED <<block_state, n_free_chunks, blocks_in_checkpt>>
    BY <1>3 DEF OpenStream, EndStream
  <2>2. Uncounted' = Uncounted
    BY <1>1, <1>3 DEF OpenStream, EndStream, Uncounted, HasCheckpt
  <2>3. FreeChunks' = FreeChunks
    BY <1>2, <2>1 DEF FreeChunks
  <2>. QED
    BY <2>1, <2>2, <2>3 DEF FreeChunksExact
<1>4. CASE WriteStream \/ CloseStream
  <2>1. /\ pc \in {"save", "close"} /\ pc' \in {"save", "close", "count"}
        /\ UNCHANGED n_free_chunks
        /\ \/ FlushOk \/ FlushFails
           \/ UNCHANGED <<block_state, blocks_in_checkpt>>
    BY <1>4 DEF WriteStream, CloseStream
  <2>2. Uncounted = blocks_in_checkpt /\ Uncounted' = blocks_in_checkpt'
    BY <2>1 DEF Uncounted
  <2>3. CASE UNCHANGED <<block_state, blocks_in_checkpt>>
    <3>1. FreeChunks' = FreeChunks
      BY <1>2, <2>3 DEF FreeChunks
    <3>. QED
      BY <2>1, <2>2, <2>3, <3>1 DEF FreeChunksExact
  <2>4. CASE ~UNCHANGED <<block_state, blocks_in_checkpt>>
    <3>1. PICK b \in Empty :
            /\ block_state' = [block_state EXCEPT ![b] = "CHECKPOINT"]
            /\ blocks_in_checkpt' = blocks_in_checkpt + 1
      BY <2>1, <2>4, FlushTakes
    <3>2. b \in Blocks /\ block_state[b] = "EMPTY"
      BY DEF Empty
    <3>3. \A c \in chunk_bits : c[1] # b
      BY <3>2 DEF IInv, BitsInv
    <3>4. /\ {b} \X Pages \in SUBSET FreeChunks
          /\ FreeChunks' = FreeChunks \ ({b} \X Pages)
      BY <1>1, <1>2, <3>1, <3>2, <3>3 DEF FreeChunks, Chunks
    <3>5. Cardinality({b} \X Pages) = ChunksPerBlock
      <4>1. Cardinality({b}) = 1
        BY FS_Singleton
      <4>2. Cardinality({b} \X Pages) = Cardinality({b}) * ChunksPerBlock
        BY <3>2, WholeBlocks
      <4>. QED
        BY <1>1, <4>1, <4>2
    <3>6. Cardinality(FreeChunks') = Cardinality(FreeChunks) - ChunksPerBlock
      <4>1. FreeChunks \cap ({b} \X Pages) = {b} \X Pages
        BY <3>4
      <4>2. IsFiniteSet(FreeChunks)
        BY <1>1, FiniteChunks
      <4>3. Cardinality(FreeChunks \ ({b} \X Pages)) =
              Cardinality(FreeChunks) - Cardinality(FreeChunks \cap ({b} \X Pages))
        BY <4>2, FS_Difference
      <4>. QED
        BY <3>4, <3>5, <4>1, <4>3
    <3>7. Uncounted' * ChunksPerBlock =
            Uncounted * ChunksPerBlock + ChunksPerBlock
      BY <1>1, <2>2, <3>1
    <3>8. Uncounted * ChunksPerBlock \in Nat
      BY <1>1, <2>2
    <3>. QED
      BY <1>1, <2>1, <3>6, <3>7, <3>8 DEF FreeChunksExact
  <2>. QED
    BY <2>3, <2>4
<1>5. CASE CountCheckpt
  <2>1. /\ FreeChunks' = FreeChunks
        /\ pc = "count" /\ pc' = "idle"
        /\ n_free_chunks' = n_free_chunks - blocks_in_checkpt * ChunksPerBlock
    BY <1>5 DEF CountCheckpt, FreeChunks
  <2>2. Uncounted = blocks_in_checkpt /\ Uncounted' = 0
    BY <2>1 DEF Uncounted
  <2>3. blocks_in_checkpt * ChunksPerBlock \in Nat /\ 0 * ChunksPerBlock = 0
    BY <1>1
  <2>4. n_free_chunks' = Cardinality(FreeChunks)
    BY <1>1, <2>1, <2>2, <2>3 DEF FreeChunksExact
  <2>. QED
    BY <1>1, <2>1, <2>2, <2>3, <2>4 DEF FreeChunksExact
<1>. QED
  BY <1>3, <1>4, <1>5 DEF SaveStep

\* No step leaves the counter wrong.
LEMMA FreeStep ==
  ASSUME IInv, FreeChunksExact, [Next]_vars
  PROVE  FreeChunksExact'
<1>1. CASE UNCHANGED vars
  BY <1>1 DEF vars, FreeChunksExact, FreeChunks, Uncounted
<1>2. CASE Moving
  BY <1>2, InvalidateFree, AllocChunkFree, WriteSummaryFree, ChunkDelFree,
     RetireBlockFree, GcBlockStartFree, CollectSoftFree, SoftDelChunkFree,
     SaveFree
  DEF Moving
<1>. QED
  BY <1>1, <1>2, UnmovedOrMoving, UnmovedFree

\* n_free_chunks, which yaffs_check_alloc_available and yaffs_check_gc decide
\* by, never drifts from what yaffs_count_free_chunks would count.
THEOREM FreeChunksCorrect == Spec => []FreeChunksExact
<1>1. Init => FreeChunksExact
  <2> DEFINE good == Blocks \ FactoryBad
  <2>1. ASSUME Init PROVE FreeChunks = good \X Pages /\ Uncounted = 0
    BY <2>1 DEF Init, FreeChunks, Uncounted, Chunks
  <2>2. /\ Cardinality(good \X Pages) = Cardinality(good) * ChunksPerBlock
        /\ Cardinality(good) \in Nat
    BY WholeBlocks, FiniteBlocks
  <2>3. ASSUME Init PROVE n_free_chunks = Cardinality(good) * ChunksPerBlock
    BY <2>3 DEF Init
  <2>4. Cardinality(good) * ChunksPerBlock \in Nat /\ 0 * ChunksPerBlock = 0
    BY <2>2, GeometryAssumption
  <2>5. ASSUME Init PROVE n_free_chunks = Cardinality(FreeChunks) + Uncounted * ChunksPerBlock
    <3>1. n_free_chunks = Cardinality(FreeChunks) /\ n_free_chunks \in Nat
      BY <2>1, <2>2, <2>3, <2>4, <2>5, Zenon
    <3>2. Uncounted * ChunksPerBlock = 0
      BY <2>1, <2>4, <2>5
    <3>. QED
      BY <3>1, <3>2
  <2>. QED
    BY <2>5 DEF FreeChunksExact
<1>2. IInv /\ FreeChunksExact /\ [Next]_vars => FreeChunksExact'
  BY FreeStep
<1>. QED
  BY <1>1, <1>2, Invariant, PTL DEF Spec

-----------------------------------------------------------------------------
(***************************************************************************)
(* The reserve is enough for a device that writes neither summaries nor    *)
(* checkpoints, until its flash fails for the first time.                  *)
(***************************************************************************)
Calm ==
  /\ SummaryChunks = 0
  /\ "save" \notin ClientOps
  /\ Cardinality(Blocks \ FactoryBad) >= NReserved

\* What does not happen to such a device before a failure.
CalmInv ==
  /\ faults = 0 /\ needs_retiring = {}
  /\ has_summary = {} /\ ~HasCheckpt
  /\ pc \notin {"skip", "summary", "open", "save", "close", "count"}
  /\ del.ret # "skip"
  /\ pc = "program" => call.new \notin programmed

\* The steps it takes.
CalmWrite == FindAllocBlock \/ AllocChunk \/ WriteFails \/ ProgramChunk
             \/ VerifyOk \/ Written \/ FinishWrite
CalmDel == ChunkDel \/ BecameDirty \/ EraseOk
CalmBegin == BeginWrite \/ BgGc \/ DeleteChunk \/ SoftDelChunk \/ Rest
CalmNext == CalmWrite \/ CalmDel \/ GcStep \/ StartStep \/ CalmBegin
            \/ UNCHANGED vars

\* Failures are not forgotten.
LEMMA FaultsRemain ==
  ASSUME IInv, [Next]_vars, faults' = 0
  PROVE  faults = 0
<1>. faults \in Nat
  BY DEF IInv, TypeOK, FlashTypeOK
<1>1. CASE Invalidate
  <2>1. PICK bad \in SUBSET {b \in Blocks : block_state[b] = "CHECKPOINT"} :
          faults' = faults + Cardinality(bad)
    BY <1>1 DEF Invalidate
  <2>2. IsFiniteSet(bad)
    BY FiniteBlocks, FS_Subset
  <2>3. Cardinality(bad) \in Nat
    BY <2>2, FS_CardinalityType
  <2>. QED
    BY <2>1, <2>3
<1>2. faults' \in {faults, faults + 1} \/ Invalidate
  <2>1. WriteStep => faults' \in {faults, faults + 1} \/ Invalidate
    BY DEF WriteStep, FindAllocBlock, AllocChunk, WriteFails, NotErased,
       ProgramChunk, WriteSummary, VerifyOk, VerifyFails, SkipRestOfBlock, Written,
       FinishWrite, Fault, flash
  <2>2. DelStep => faults' \in {faults, faults + 1}
    BY DEF DelStep, ChunkDel, BecameDirty, EraseOk, RetireBlock, Fault, flash
  <2>3. GcStep => faults' = faults
    BY DEF GcStep, SkipGc, ResumeGc, RefreshSelect, PrioritisedSelect,
       OldestForPrioritised, DirtiestSelect, OldestSelect, SelectNone, GcSelected,
       GcBlockCalled, GcBlockStart, CollectSoft, CollectOrphan, CollectCopy,
       CollectEnd, CollectedSome, CleanUp, CollectedAll, flash
  <2>4. SaveStep => faults' = faults
    BY DEF SaveStep, OpenStream, WriteStream, EndStream, CloseStream,
       CountCheckpt, flash
  <2>5. StartStep \/ Begin => faults' \in {faults, faults + 1}
    BY DEF StartStep, StartData, StartHeader, StartShrink, StartWrite, Begin,
       BeginWrite, BgGc, BeginCall, DeleteChunk, SoftDelChunk, ReadError,
       SaveCheckpt, Fault, flash
  <2>6. Rest \/ UNCHANGED vars => faults' = faults
    BY DEF Rest, vars, flash
  <2>. QED
    BY <2>1, <2>2, <2>3, <2>4, <2>5, <2>6 DEF Next, Step
<1>. QED
  BY <1>1, <1>2

\* Before a failure such a device takes no other step.
LEMMA CalmSteps ==
  ASSUME Calm, IInv, CalmInv, [Next]_vars, faults' = 0
  PROVE  CalmNext
<1>1. ~Invalidate /\ ~NotErased /\ ~WriteSummary /\ ~VerifyFails /\ ~SkipRestOfBlock
  BY DEF Calm, CalmInv, Invalidate, NotErased, WriteSummary, VerifyFails,
     SkipRestOfBlock, Fault
<1>2. ~RetireBlock
  BY DEF Calm, CalmInv, RetireBlock, Healthy, Fault
<1>3. ~SaveStep
  BY DEF CalmInv, SaveStep, OpenStream, WriteStream, EndStream, CloseStream,
     CountCheckpt
<1>4. ~ReadError /\ ~SaveCheckpt
  <2>1. ~ReadError
    BY DEF Calm, CalmInv, ReadError, Fault
  <2>2. ~SaveCheckpt
    BY DEF Calm, SaveCheckpt
  <2>. QED
    BY <2>1, <2>2
<1>5. WriteStep => CalmWrite
  BY <1>1 DEF WriteStep, CalmWrite
<1>6. DelStep => CalmDel
  BY <1>2 DEF DelStep, CalmDel
<1>7. Begin => CalmBegin
  BY <1>4 DEF Begin, CalmBegin
<1>. QED
  BY <1>3, <1>5, <1>6, <1>7 DEF Next, Step, CalmNext, CalmBegin

\* Nothing changes that.
LEMMA CalmStep ==
  ASSUME Calm, IInv, PagesInv, CalmInv, [Next]_vars, faults' = 0
  PROVE  CalmInv'
<1>a. /\ call \in [job : {"none", "write", "bg", "save"}, tries : Nat,
                   copies : Nat, ok : BOOLEAN, ingc : BOOLEAN, reserve : BOOLEAN,
                   shrink : BOOLEAN, old : Chunks \cup {NoChunk},
                   new : Chunks \cup {NoChunk}]
      /\ del \in [chunk : Chunks \cup {NoChunk},
                  ret : {"idle", "skip", "finish", "collect", "collected"}]
      /\ alloc_page \in Nat
  BY DEF IInv, TypeOK, CallTypeOK, AllocTypeOK
<1>b. NoDel.ret = "idle"
  BY DEF NoDel
<1>1. CASE CalmWrite
  <2>1. CASE FindAllocBlock
    BY <2>1 DEF FindAllocBlock, CalmInv, HasCheckpt
  <2>2. CASE AllocChunk
    <3>1. <<alloc_block, alloc_page>> \notin programmed
      BY <1>a, <2>2 DEF AllocChunk, PagesInv
    <3>2. /\ call'.new = <<alloc_block, alloc_page>>
          /\ pc' = "program"
          /\ UNCHANGED <<programmed, faults, needs_retiring,
                         has_summary, is_checkpointed, blocks_in_checkpt, del>>
      BY <1>a, <2>2 DEF AllocChunk
    <3>. QED
      BY <3>1, <3>2 DEF CalmInv, HasCheckpt
  <2>3. CASE WriteFails
    BY <2>3 DEF WriteFails, AfterRefusal, AfterWrite, CalmInv, HasCheckpt
  <2>4. CASE ProgramChunk
    BY <2>4 DEF ProgramChunk, Calm, CalmInv, HasCheckpt
  <2>5. CASE VerifyOk
    BY <2>5 DEF VerifyOk, Calm, CalmInv, Fault, HasCheckpt
  <2>6. CASE Written
    <3>1. \/ pc' = "finish" /\ UNCHANGED del
          \/ CallDel(call.old, "finish")
      BY <2>6 DEF Written
    <3>2. del'.ret # "skip" /\ pc' \in {"finish", "del"}
      BY <3>1, CallFields DEF CalmInv
    <3>. QED
      BY <2>6, <3>2 DEF Written, CalmInv, HasCheckpt
  <2>7. CASE FinishWrite
    BY <2>7 DEF FinishWrite, AfterWrite, CalmInv, HasCheckpt
  <2>. QED
    BY <1>1, <2>1, <2>2, <2>3, <2>4, <2>5, <2>6, <2>7 DEF CalmWrite
<1>2. CASE CalmDel
  <2>1. /\ pc' \in {"dirty", "erase", del.ret} /\ del' \in {del, NoDel}
        /\ faults' = faults /\ needs_retiring' = needs_retiring
        /\ has_summary' \subseteq has_summary
        /\ UNCHANGED <<is_checkpointed, blocks_in_checkpt, call>>
    BY <1>2 DEF CalmDel, ChunkDel, BecameDirty, EraseOk
  <2>. QED
    BY <1>a, <1>b, <2>1 DEF CalmInv, HasCheckpt
<1>3. CASE GcStep
  <2>1. /\ pc' \in {"idle", "choose", "gc", "gcblk", "collect", "collected",
                    "write", "dirty", "del"}
        /\ faults' = faults /\ needs_retiring' = needs_retiring
        /\ has_summary' = has_summary
        /\ UNCHANGED <<is_checkpointed, blocks_in_checkpt>>
    <3>1. CASE GcBlockStart
      BY <3>1 DEF GcBlockStart
    <3>2. CASE CleanUp
      BY <3>2 DEF CleanUp, CallDel
    <3>. QED
      BY <1>3, <3>1, <3>2 DEF GcStep, SkipGc, ResumeGc, RefreshSelect,
       PrioritisedSelect, OldestForPrioritised, DirtiestSelect, OldestSelect,
       SelectNone, GcSelected, GcBlockCalled, CollectSoft, CollectOrphan,
       CollectCopy, CollectEnd, CollectedSome, CollectedAll, EndGc, NextTry,
       CallDel, NoPrioritised
  <2>2. del'.ret # "skip"
    <3>1. \/ UNCHANGED del
          \/ del'.ret = "collected"
          \/ \E c : CallDel(c, "collect") \/ CallDel(c, "collected")
      <4>1. CASE GcBlockStart
        BY <4>1 DEF GcBlockStart
      <4>2. CASE CleanUp
        BY <4>2 DEF CleanUp
      <4>. QED
        BY <1>3, <4>1, <4>2 DEF GcStep, SkipGc, ResumeGc, RefreshSelect,
           PrioritisedSelect, OldestForPrioritised, DirtiestSelect, OldestSelect,
           SelectNone, GcSelected, GcBlockCalled, CollectSoft, CollectOrphan,
           CollectCopy, CollectEnd, CollectedSome, CollectedAll
    <3>. QED
      BY <3>1, CallFields DEF CalmInv
  <2>. QED
    BY <2>1, <2>2 DEF CalmInv, HasCheckpt
<1>4. CASE StartStep
  <2>1. PICK old, reserve, shrink : StartWrite(old, reserve, shrink)
    BY <1>4 DEF StartStep, StartData, StartHeader, StartShrink
  <2>. QED
    BY <2>1 DEF StartWrite, CalmInv, HasCheckpt
<1>5. CASE CalmBegin \/ UNCHANGED vars
  <2>1. CASE BeginWrite \/ BgGc
    BY <2>1 DEF BeginWrite, BgGc, BeginCall, CalmInv, HasCheckpt
  <2>2. CASE DeleteChunk
    <3>1. PICK c : CallDel(c, "idle")
      BY <2>2 DEF DeleteChunk
    <3>. QED
      BY <2>2, <3>1, CallFields DEF DeleteChunk, CalmInv, HasCheckpt
  <2>3. CASE SoftDelChunk
    BY <2>3 DEF SoftDelChunk, CalmInv, HasCheckpt
  <2>4. CASE Rest \/ UNCHANGED vars
    BY <2>4 DEF Rest, vars, CalmInv, HasCheckpt
  <2>. QED
    BY <1>5, <2>1, <2>2, <2>3, <2>4 DEF CalmBegin
<1>. QED
  BY <1>1, <1>2, <1>3, <1>4, <1>5, CalmSteps DEF CalmNext

\* A call that writes a shrink header collects nothing meanwhile, and a block
\* that is being collected has lost its mark.
ShrinkInv ==
  /\ call.shrink => ~call.ingc /\ (InWrite \/ InFinish)
  /\ InGc /\ gc_block # NoBlock => gc_block \notin has_shrink_hdr

\* Where the collector's own steps are taken.
LEMMA GcPlaces ==
  ASSUME GcStep
  PROVE  pc \in {"gc", "gcblk", "collect", "collected"}
<1>1. CASE GcBlockStart
  BY <1>1 DEF GcBlockStart
<1>. QED
  BY <1>1 DEF GcStep, SkipGc, ResumeGc, RefreshSelect, PrioritisedSelect,
     OldestForPrioritised, DirtiestSelect, OldestSelect, SelectNone, Searching,
     Collecting, CollectSoft, CollectOrphan, CollectCopy, CollectNext, CollectLoops,
     CollectEnd, CollectedSome, CleanUp, CollectedAll

\* A collection takes the mark off its block when it begins.
LEMMA GcMarks ==
  ASSUME IInv, GcStep, InGc', gc_block' # NoBlock, ShrinkInv
  PROVE  gc_block' \notin has_shrink_hdr'
<1>. /\ NoCall.ingc = FALSE
     /\ call \in [job : {"none", "write", "bg", "save"}, tries : Nat,
               copies : Nat, ok : BOOLEAN, ingc : BOOLEAN, reserve : BOOLEAN,
               shrink : BOOLEAN, old : Chunks \cup {NoChunk},
               new : Chunks \cup {NoChunk}]
  BY DEF IInv, TypeOK, CallTypeOK, NoCall
<1>1. CASE GcBlockStart
  BY <1>1 DEF GcBlockStart
<1>2. CASE pc \in {"collect", "collected"}
  <2>1. UNCHANGED <<gc_block, has_shrink_hdr>>
    BY <1>2 DEF GcStep, SkipGc, ResumeGc, RefreshSelect, PrioritisedSelect,
       OldestForPrioritised, DirtiestSelect, OldestSelect, SelectNone, Searching,
       Collecting, GcBlockStart, CollectSoft, CollectOrphan, CollectCopy,
       CollectEnd, CollectedSome, CleanUp, CollectedAll
  <2>. QED
    BY <1>2, <2>1 DEF ShrinkInv
<1>3. CASE pc = "gc"
  <2>1. ~call.ingc
    BY <1>3 DEF IInv, CallInv
  <2>2. \/ EndGc
        \/ \E b : GcBlockCalled(b)
    BY <1>3 DEF GcStep, SkipGc, ResumeGc, RefreshSelect, PrioritisedSelect,
       OldestForPrioritised, DirtiestSelect, OldestSelect, SelectNone, GcSelected,
       GcBlockStart, CollectSoft, CollectOrphan, CollectCopy, CollectNext,
       CollectLoops, CollectEnd, CollectedSome, CleanUp, CollectedAll
  <2>. QED
    BY <2>1, <2>2 DEF EndGc, GcBlockCalled
<1>4. CASE pc = "gcblk" /\ ~GcBlockStart
  BY <1>4 DEF GcStep, SkipGc, ResumeGc, RefreshSelect, PrioritisedSelect,
     OldestForPrioritised, DirtiestSelect, OldestSelect, SelectNone, Searching,
     Collecting, CollectSoft, CollectOrphan, CollectCopy, CollectNext, CollectLoops,
     CollectEnd, CollectedSome, CleanUp, CollectedAll
<1>. QED
  BY <1>1, <1>2, <1>3, <1>4, GcPlaces

\* A step keeps it so.
LEMMA ShrinkStep ==
  ASSUME IInv, CalmInv, ShrinkInv, CalmNext
  PROVE  ShrinkInv'
<1>. call \in [job : {"none", "write", "bg", "save"}, tries : Nat,
               copies : Nat, ok : BOOLEAN, ingc : BOOLEAN, reserve : BOOLEAN,
               shrink : BOOLEAN, old : Chunks \cup {NoChunk},
               new : Chunks \cup {NoChunk}]
  BY DEF IInv, TypeOK, CallTypeOK
<1>a. /\ ~NoCall.shrink /\ ~NoCall.ingc
      /\ ~CallAfterWrite.ingc /\ ~[CallAfterWrite EXCEPT !.ok = ~call.ingc].ingc
      /\ ~CallAfterWrite.shrink /\ ~[CallAfterWrite EXCEPT !.ok = ~call.ingc].shrink
  BY DEF NoCall, CallAfterWrite, ShrinkInv
<1>1. CASE FindAllocBlock \/ AllocChunk \/ ProgramChunk \/ VerifyOk
  <2>1. /\ pc \in {"write", "program", "verify"}
        /\ pc' \in {"write", "program", "verify", "written", "summary"}
        /\ UNCHANGED <<gc_block, has_shrink_hdr>>
        /\ call'.shrink = call.shrink /\ call'.ingc = call.ingc
    BY <1>1 DEF FindAllocBlock, AllocChunk, ProgramChunk, VerifyOk
  <2>. QED
    BY <2>1 DEF ShrinkInv
<1>2. CASE WriteFails
  <2>1. /\ ~call'.shrink /\ ~call'.ingc
        /\ \/ pc' = "idle"
           \/ call.ingc /\ pc' = "collect"
        /\ UNCHANGED <<gc_block, has_shrink_hdr>>
    BY <1>a, <1>2 DEF WriteFails, AfterRefusal, AfterWrite
  <2>. QED
    BY <2>1 DEF ShrinkInv
<1>3. CASE Written
  <2>1. /\ pc = "written" /\ UNCHANGED <<gc_block, has_shrink_hdr, call>>
        /\ \/ pc' = "finish"
           \/ pc' = "del" /\ del'.ret = "finish"
    BY <1>3, CallFields DEF Written
  <2>. QED
    BY <2>1 DEF ShrinkInv
<1>4. CASE FinishWrite
  <2>1. /\ ~call'.shrink /\ ~call'.ingc /\ gc_block' = gc_block
        /\ \/ ~call.ingc /\ pc' = "idle"
           \/ call.ingc /\ pc' = "collect"
        /\ ~call.shrink => has_shrink_hdr' = has_shrink_hdr
    BY <1>a, <1>4 DEF FinishWrite, AfterWrite
  <2>. QED
    BY <2>1 DEF ShrinkInv
<1>5. CASE CalmDel
  <2>1. /\ pc \in {"del", "dirty", "erase"} /\ call' = call
        /\ \/ pc' \in {"dirty", "erase"} /\ del' = del
           \/ pc' = del.ret
        /\ gc_block' \in {gc_block, NoBlock} /\ has_shrink_hdr' \subseteq has_shrink_hdr
    BY <1>5 DEF CalmDel, ChunkDel, BecameDirty, EraseOk
  <2>2. del.ret \in {"idle", "finish", "collect", "collected"}
    BY DEF IInv, TypeOK, CallTypeOK, CalmInv
  <2>. QED
    BY <2>1, <2>2 DEF ShrinkInv
<1>6. CASE GcStep
  <2>1. ~call.shrink
    BY <1>6, GcPlaces DEF ShrinkInv
  <2>2. ~call'.shrink
    <3>1. \/ UNCHANGED call
          \/ call' = NoCall
          \/ call' = [call EXCEPT !.tries = @ + 1]
          \/ call' = [call EXCEPT !.copies = @ - 1]
          \/ \E n : call' = [call EXCEPT !.ok = TRUE, !.copies = n]
          \/ \E c : call' = [call EXCEPT !.copies = @ - 1, !.ingc = TRUE,
                                         !.reserve = TRUE, !.old = c]
      <4>1. CASE GcBlockStart
        BY <4>1 DEF GcBlockStart
      <4>2. CASE CollectCopy
        BY <4>2 DEF CollectCopy
      <4>. QED
        BY <1>6, <4>1, <4>2 DEF GcStep, SkipGc, ResumeGc, RefreshSelect,
           PrioritisedSelect, OldestForPrioritised, DirtiestSelect, OldestSelect,
           SelectNone, GcSelected, GcBlockCalled, CollectSoft, CollectOrphan,
           CollectEnd, CollectedSome, CleanUp, CollectedAll, EndGc, NextTry
    <3>. QED
      BY <1>a, <2>1, <3>1
  <2>. QED
    BY <1>6, <2>2, GcMarks DEF ShrinkInv
<1>7. CASE StartStep
  <2>1. PICK old, reserve, shrink : StartWrite(old, reserve, shrink)
    BY <1>7 DEF StartStep, StartData, StartHeader, StartShrink
  <2>2. pc' = "write" /\ ~call'.ingc
    BY <2>1 DEF StartWrite, NoCall
  <2>. QED
    BY <2>2 DEF ShrinkInv
<1>8. CASE CalmBegin \/ UNCHANGED vars
  <2>1. CASE BeginWrite \/ BgGc
    BY <1>a, <2>1 DEF BeginWrite, BgGc, BeginCall, NoCall, ShrinkInv
  <2>2. CASE DeleteChunk
    <3>1. /\ pc = "idle" /\ pc' = "del" /\ del'.ret = "idle" /\ call' = call
      BY <2>2, CallFields DEF DeleteChunk
    <3>. QED
      BY <3>1 DEF ShrinkInv, IInv, CallInv
  <2>3. CASE SoftDelChunk \/ Rest \/ UNCHANGED vars
    BY <2>3 DEF SoftDelChunk, Rest, vars, ShrinkInv
  <2>. QED
    BY <1>8, <2>1, <2>2, <2>3 DEF CalmBegin
<1>. QED
  BY <1>1, <1>2, <1>3, <1>4, <1>5, <1>6, <1>7, <1>8 DEF CalmNext, CalmWrite

\* A chunk is taken that is not counted as used yet, or still is.
Pending == IF pc \in {"program", "verify", "written", "del"} THEN 1 ELSE 0

\* The chunks that can be written before a block is erased.
Room == IF alloc_block = NoBlock THEN 0 ELSE ChunksPerBlock - alloc_page
Writable == ErasedChunks + Room

\* The blocks of the reserve, less the one a collection may begin to use.
Kept == (NReserved - 1) * ChunksPerBlock

\* What is multiplied by the size of a block.
LEMMA Multiples ==
  /\ NReserved * ChunksPerBlock = Kept + ChunksPerBlock
  /\ Kept \in Nat /\ Kept >= ChunksPerBlock
  /\ \A n \in Int : /\ n * ChunksPerBlock \in Int
                    /\ (n + 1) * ChunksPerBlock = n * ChunksPerBlock + ChunksPerBlock
                    /\ (n - 1) * ChunksPerBlock = n * ChunksPerBlock - ChunksPerBlock
                    /\ n < 1 => n * ChunksPerBlock < 1
                    /\ n * ChunksPerBlock >= NReserved * ChunksPerBlock => n >= NReserved
                    /\ n >= NReserved => n * ChunksPerBlock >= NReserved * ChunksPerBlock
<1>. NReserved \in Nat /\ NReserved >= 2 /\ ChunksPerBlock \in Nat /\ ChunksPerBlock >= 2
  BY GeometryAssumption
<1>1. \A n \in Int : (n + 1) * ChunksPerBlock = n * ChunksPerBlock + ChunksPerBlock
                  /\ (n - 1) * ChunksPerBlock = n * ChunksPerBlock - ChunksPerBlock
                  /\ n * ChunksPerBlock \in Int
  OBVIOUS
<1>2. \A n, m \in Int : n >= m => n * ChunksPerBlock >= m * ChunksPerBlock
  OBVIOUS
<1>3. \A n, m \in Int : n * ChunksPerBlock >= m * ChunksPerBlock => n >= m
  <2>1. ASSUME NEW n \in Int, NEW m \in Int, n < m
        PROVE  n * ChunksPerBlock < m * ChunksPerBlock
    <3>1. n * ChunksPerBlock \in Int /\ m * ChunksPerBlock \in Int
      OBVIOUS
    <3>2. m * ChunksPerBlock >= (n + 1) * ChunksPerBlock
      BY <1>2, <2>1
    <3>. QED
      BY <1>1, <3>1, <3>2
  <2>2. \A n, m \in Int : n * ChunksPerBlock \in Int /\ m * ChunksPerBlock \in Int
    OBVIOUS
  <2>. QED
    BY <2>1, <2>2
<1>4. Kept >= ChunksPerBlock /\ Kept \in Nat
  <2>1. Kept >= 1 * ChunksPerBlock
    BY <1>2 DEF Kept
  <2>. QED
    BY <2>1 DEF Kept
<1>5. NReserved * ChunksPerBlock = Kept + ChunksPerBlock
  BY <1>1 DEF Kept
<1>6. \A n \in Int : n < 1 => n * ChunksPerBlock < 1
  <2>1. \A n \in Int : n < 1 => 0 * ChunksPerBlock >= n * ChunksPerBlock
    BY <1>2
  <2>. QED
    BY <2>1, <1>1
<1>. QED
  BY <1>1, <1>2, <1>3, <1>4, <1>5, <1>6

\* Enough erased blocks are the reserve and one more.
LEMMA NotAggressive ==
  ASSUME IInv, ~Aggressive
  PROVE  ErasedChunks >= Kept + ChunksPerBlock + ChunksPerBlock
<1>. n_erased_blocks \in Int /\ NReserved \in Nat /\ ChunksPerBlock \in Nat
     /\ CheckptBlocksNeeded \in Nat
  BY GeometryAssumption DEF IInv, TypeOK, CountsTypeOK, CkptTypeOK,
     CheckptBlocksNeeded
<1>1. n_erased_blocks - 1 \in Int /\ n_erased_blocks - 1 >= NReserved
  BY DEF Aggressive
<1>2. (n_erased_blocks - 1) * ChunksPerBlock >= Kept + ChunksPerBlock
  BY <1>1, Multiples
<1>3. (n_erased_blocks - 1) * ChunksPerBlock
        = n_erased_blocks * ChunksPerBlock - ChunksPerBlock
      /\ n_erased_blocks * ChunksPerBlock \in Int
  BY Multiples
<1>. QED
  BY <1>2, <1>3, Multiples DEF ErasedChunks

\* A chunk that may be taken leaves the reserve alone.
LEMMA AvailableLeaves ==
  ASSUME IInv, AllocAvailable
  PROVE  n_free_chunks > Kept + ChunksPerBlock + 1
<1>. n_free_chunks \in Int /\ NReserved \in Nat /\ ChunksPerBlock \in Nat
     /\ CheckptBlocksNeeded \in Nat
  BY GeometryAssumption DEF IInv, TypeOK, CountsTypeOK, CkptTypeOK,
     CheckptBlocksNeeded
<1>1. /\ NReserved + CheckptBlocksNeeded \in Int
      /\ NReserved + CheckptBlocksNeeded >= NReserved
  OBVIOUS
<1>2. (NReserved + CheckptBlocksNeeded) * ChunksPerBlock >= Kept + ChunksPerBlock
      /\ (NReserved + CheckptBlocksNeeded) * ChunksPerBlock \in Int
  BY <1>1, Multiples
<1>. QED
  BY <1>2, Multiples DEF AllocAvailable

\* The used pages of a block are those with a bit that is not soft-deleted.
LEMMA UsedCount ==
  ASSUME IInv, NEW b \in Blocks
  PROVE  /\ UsedPages(b) = Cardinality(ChunksOf(b, chunk_bits \ soft))
         /\ UsedPages(b) \in 0 .. ChunksPerBlock
         /\ UsedPages(b) = ChunksPerBlock => {b} \X Pages \subseteq chunk_bits \ soft
         /\ pages_in_use[b] \in 0 .. ChunksPerBlock
         /\ UsedPages(b) = ChunksPerBlock => pages_in_use[b] = ChunksPerBlock
<1>. chunk_bits \in SUBSET Chunks /\ soft \in SUBSET chunk_bits
  BY DEF IInv, TypeOK, BlocksTypeOK, BitsInv
<1>1. ChunksPerBlock \in Nat /\ Cardinality({b} \X Pages) = ChunksPerBlock
      /\ {b} \X Pages \in SUBSET Chunks
  <2>1. IsFiniteSet(Pages) /\ Cardinality(Pages) = ChunksPerBlock
    BY FS_Interval, GeometryAssumption DEF Pages
  <2>2. IsFiniteSet({b}) /\ Cardinality({b}) = 1
    BY FS_Singleton
  <2>3. Cardinality({b} \X Pages) = 1 * ChunksPerBlock
    BY <2>1, <2>2, FS_Product
  <2>4. {b} \X Pages \in SUBSET Chunks
    BY DEF Chunks
  <2>. QED
    BY <2>3, <2>4, GeometryAssumption
<1>2. \A S \in SUBSET Chunks : ChunksOf(b, S) \in SUBSET ({b} \X Pages)
  BY DEF ChunksOf, Chunks
<1>3. \A S \in SUBSET ({b} \X Pages) :
        /\ Cardinality(S) \in 0 .. ChunksPerBlock
        /\ Cardinality(S) = ChunksPerBlock => S = {b} \X Pages
  <2>1. IsFiniteSet({b} \X Pages)
    BY <1>1, FiniteChunks
  <2>. QED
    BY <1>1, <2>1, FS_Subset, FiniteChunks
<1>4. Cardinality(ChunksOf(b, chunk_bits))
        = Cardinality(ChunksOf(b, chunk_bits \ soft)) + Cardinality(ChunksOf(b, soft))
  <2>1. ChunksOf(b, chunk_bits \ soft) = ChunksOf(b, chunk_bits \ ChunksOf(b, soft))
    BY DEF ChunksOf
  <2>2. ChunksOf(b, soft) \in SUBSET chunk_bits /\ \A c \in ChunksOf(b, soft) : c[1] = b
    BY DEF ChunksOf
  <2>3. Cardinality(ChunksOf(b, chunk_bits \ ChunksOf(b, soft)))
          = Cardinality(ChunksOf(b, chunk_bits)) - Cardinality(ChunksOf(b, soft))
    BY <2>2, CountDifference
  <2>. QED
    BY <1>2, <1>3, <2>1, <2>3
<1>5. /\ pages_in_use[b] = Cardinality(ChunksOf(b, chunk_bits))
      /\ soft_del_pages[b] = Cardinality(ChunksOf(b, soft))
  BY DEF IInv, PageCountsExact
<1>6. UsedPages(b) = Cardinality(ChunksOf(b, chunk_bits \ soft))
  BY <1>2, <1>3, <1>4, <1>5 DEF UsedPages
<1>7. UsedPages(b) = ChunksPerBlock => {b} \X Pages \subseteq chunk_bits \ soft
  BY <1>2, <1>3, <1>6 DEF ChunksOf
<1>8. UsedPages(b) = ChunksPerBlock => pages_in_use[b] = ChunksPerBlock
  <2>1. UsedPages(b) <= pages_in_use[b] /\ pages_in_use[b] \in 0 .. ChunksPerBlock
    BY <1>1, <1>2, <1>3, <1>4, <1>5, <1>6
  <2>. QED
    BY <1>1, <2>1
<1>. QED
  BY <1>2, <1>3, <1>5, <1>6, <1>7, <1>8

\* When no block is partly used, what is free is erased.
LEMMA SearchFindsRoom ==
  ASSUME Calm, IInv, CalmInv, ErasingInv, FreeChunksExact, ErasedBlocksExact,
         pc = "gc", gc_block = NoBlock, PartlyUsed = {},
         n_free_chunks >= Kept + ChunksPerBlock
  PROVE  Writable > Kept
<1>. /\ ChunksPerBlock \in Nat /\ ChunksPerBlock >= 2 /\ NReserved \in Nat
     /\ alloc_block \in Blocks \cup {NoBlock} /\ NoBlock \notin Blocks
     /\ block_state \in [Blocks -> BlockStates]
  BY GeometryAssumption DEF IInv, TypeOK, BlocksTypeOK, AllocTypeOK
<1>1. n_free_chunks = Cardinality(FreeChunks) /\ n_erased_blocks = Cardinality(Empty)
  <2>1. ~Saving
    BY DEF Saving
  <2>2. Cardinality(Empty) \in Nat
    BY FiniteBlocks DEF Empty
  <2>3. n_erased_blocks = Cardinality(Empty) + 0
    BY DEF ErasedBlocksExact, Uncounted
  <2>. QED
    BY <2>1, <2>2, <2>3, FreeCounted
<1>. DEFINE B == Empty \cup ({alloc_block} \cap Blocks)
<1>2. FreeChunks \subseteq B \X Pages
  <2>1. SUFFICES ASSUME NEW c \in FreeChunks PROVE c[1] \in B
    BY DEF FreeChunks, Chunks
  <2>2. c[1] \in Blocks /\ c[2] \in Pages /\ c = <<c[1], c[2]>>
    BY DEF FreeChunks, Chunks
  <2>3. block_state[c[1]] \notin {"COLLECTING", "DIRTY"}
    BY <2>2 DEF IInv, GcInv, ErasingInv
  <2>4. block_state[c[1]] # "FULL"
    <3>1. SUFFICES ASSUME block_state[c[1]] = "FULL" PROVE FALSE
      OBVIOUS
    <3>2. UsedPages(c[1]) = ChunksPerBlock
      BY <2>2, <3>1, UsedCount DEF PartlyUsed
    <3>. QED
      BY <2>2, <3>2, UsedCount DEF FreeChunks
  <2>5. block_state[c[1]] = "ALLOCATING" => c[1] = alloc_block
    BY <2>2 DEF IInv, AllocInv
  <2>. QED
    BY <2>2, <2>3, <2>4, <2>5 DEF FreeChunks, Empty
<1>3. Cardinality(FreeChunks) <= Cardinality(B) * ChunksPerBlock
  <2>1. B \in SUBSET Blocks
    BY DEF Empty
  <2>2. B \X Pages \in SUBSET Chunks /\ Cardinality(B \X Pages) = Cardinality(B) * ChunksPerBlock
    BY <2>1, WholeBlocks
  <2>3. Cardinality(FreeChunks) <= Cardinality(B \X Pages)
    BY <1>2, <2>2, FiniteChunks, FS_Subset
  <2>. QED
    BY <2>2, <2>3
<1>4. Cardinality(Empty) \in Nat /\ Cardinality(B) \in Nat
  BY FiniteBlocks DEF Empty
<1>5. Cardinality(B) >= NReserved
  <2>1. Cardinality(B) * ChunksPerBlock >= NReserved * ChunksPerBlock
    BY <1>1, <1>3, <1>4, FreeType, Multiples
  <2>. QED
    BY <1>4, <2>1, Multiples
<1>6. CASE alloc_block = NoBlock
  <2>1. B = Empty
    <3>1. {alloc_block} \cap Blocks = {}
      BY <1>6
    <3>. QED
      BY <3>1
  <2>2. n_erased_blocks \in Int /\ n_erased_blocks >= NReserved
    <3>1. Cardinality(B) = n_erased_blocks
      BY <1>1, <2>1
    <3>. HIDE DEF B
    <3>. QED
      BY <1>4, <1>5, <3>1
  <2>3. n_erased_blocks * ChunksPerBlock >= Kept + ChunksPerBlock
        /\ n_erased_blocks * ChunksPerBlock \in Int
    BY <2>2, Multiples
  <2>. QED
    BY <1>6, <2>3, Multiples DEF Writable, Room, ErasedChunks
<1>7. CASE alloc_block # NoBlock
  <2>1. Cardinality(B) = Cardinality(Empty) + 1
    <3>1. alloc_block \in Blocks /\ block_state[alloc_block] = "ALLOCATING"
      BY <1>7 DEF IInv, AllocInv
    <3>2. alloc_block \notin Empty /\ B = Empty \cup {alloc_block} /\ Empty \in SUBSET Blocks
      BY <3>1 DEF Empty
    <3>. QED
      BY <3>1, <3>2, CountBlock
  <2>2. n_erased_blocks + 1 >= NReserved /\ n_erased_blocks + 1 \in Int
        /\ n_erased_blocks \in Int
    BY <1>1, <1>4, <1>5, <2>1
  <2>3. (n_erased_blocks + 1) * ChunksPerBlock >= Kept + ChunksPerBlock
        /\ (n_erased_blocks + 1) * ChunksPerBlock
             = n_erased_blocks * ChunksPerBlock + ChunksPerBlock
        /\ n_erased_blocks * ChunksPerBlock \in Int
    BY <2>2, Multiples
  <2>4. alloc_page \in Nat /\ alloc_page < ChunksPerBlock
    BY <1>7 DEF IInv, AllocInv, TypeOK, AllocTypeOK
  <2>. QED
    BY <1>7, <2>3, <2>4, Multiples DEF Writable, Room, ErasedChunks
<1>. QED
  BY <1>6, <1>7

\* Between calls the reserved blocks' worth of chunks is free; only a chunk that
\* replaces one may be taken from it, and gives one back.
RoomInv ==
  /\ n_free_chunks + Pending >= Kept + ChunksPerBlock
  /\ pc \in {"program", "verify", "written"} /\ call.old = NoChunk =>
       n_free_chunks >= Kept + ChunksPerBlock
  /\ pc = "write" /\ call.old = NoChunk => ~call.reserve

\* The collector works on the block it collects, which has a chunk until it is
\* given up.
ShapeInv ==
  /\ call.ok
  /\ call.ingc /\ InWrite => gc_block # NoBlock /\ call.old[1] = gc_block
  /\ InGc /\ gc_block # NoBlock /\ InDel => del.chunk[1] = gc_block
  /\ InGc /\ gc_block # NoBlock /\ pc # "dirty" => pages_in_use[gc_block] > 0
  /\ pc = "del" /\ del.ret = "collected" => gc_block = NoBlock

Partly(b) == UsedPages(b) < ChunksPerBlock

\* The collector is about to drop a chunk of its block, or not pressed.
Relieved ==
  \/ pc = "gcblk" /\ ~Aggressive
  \/ pc = "collect" /\ call.copies > 0
  \/ call.ingc /\ pc # "finish"
  \/ InDel /\ del.ret = "collect"

\* The blocks the collector may select have something to gain.
PartlyInv ==
  /\ \A b \in {gc_dirtiest, oldest_dirty.block} \ {NoBlock} :
       Partly(b) \/ (pc = "del" /\ del.chunk[1] = b)
  /\ gc_block # NoBlock => Partly(gc_block) \/ Relieved

\* A collection that may stop has room for what is left of its block and one
\* chunk more; one that goes on to the end gets the block back.
SpaceInv ==
  /\ pc = "choose" \/ (pc = "write" /\ ~call.ingc) => Writable > Kept
  /\ ~InGc => Writable >= Kept
  /\ InGc /\ gc_block # NoBlock =>
       /\ Writable + Pending + ChunksPerBlock > UsedPages(gc_block) + Kept
       /\ \/ pc = "collected"
          \/ pc # "dirty" /\ call.copies + gc_chunk < ChunksPerBlock
          => Writable + Pending > UsedPages(gc_block) + Kept
  /\ InGc /\ gc_block = NoBlock =>
       Writable + (IF pc = "erase" THEN ChunksPerBlock ELSE 0) > Kept

ResInv == RoomInv /\ ShapeInv /\ PartlyInv /\ SpaceInv

\* The ranges of what these invariants are about.
LEMMA ResTypes ==
  ASSUME IInv
  PROVE  /\ ChunksPerBlock \in Nat /\ ChunksPerBlock >= 2
         /\ Kept \in Nat /\ Kept >= ChunksPerBlock
         /\ Writable \in Int /\ n_free_chunks \in Int /\ n_erased_blocks \in Int
         /\ alloc_page \in Nat
         /\ gc_block \in Blocks \cup {NoBlock} /\ gc_chunk \in 0 .. ChunksPerBlock
         /\ gc_dirtiest \in Blocks \cup {NoBlock}
         /\ oldest_dirty.block \in Blocks \cup {NoBlock}
         /\ NoBlock \notin Blocks
         /\ \A b \in Blocks : UsedPages(b) \in 0 .. ChunksPerBlock
                              /\ pages_in_use[b] \in 0 .. ChunksPerBlock
<1>1. /\ ChunksPerBlock \in Nat /\ ChunksPerBlock >= 2
      /\ n_free_chunks \in Int /\ n_erased_blocks \in Int /\ alloc_page \in Nat
      /\ gc_block \in Blocks \cup {NoBlock} /\ gc_chunk \in 0 .. ChunksPerBlock
      /\ gc_dirtiest \in Blocks \cup {NoBlock}
      /\ oldest_dirty.block \in Blocks \cup {NoBlock}
      /\ NoBlock \notin Blocks
  BY GeometryAssumption DEF IInv, TypeOK, CountsTypeOK, AllocTypeOK, GcTypeOK
<1>2. Writable \in Int
  BY <1>1, Multiples DEF Writable, Room, ErasedChunks
<1>. QED
  BY <1>1, <1>2, Multiples, UsedCount

\* What is free in the block being filled and in the erased ones is a number.
LEMMA RoomTypes ==
  ASSUME IInv
  PROVE  Room \in Nat /\ ErasedChunks \in Int
<1>1. Room \in Nat
  BY ResTypes DEF Room, IInv, AllocInv
<1>2. ErasedChunks \in Int
  BY ResTypes, Multiples DEF ErasedChunks
<1>. QED
  BY <1>1, <1>2

\* The fields of the call and of a deletion.
LEMMA CallTypes ==
  ASSUME IInv
  PROVE  /\ call \in [job : {"none", "write", "bg", "save"}, tries : Nat,
                      copies : Nat, ok : BOOLEAN, ingc : BOOLEAN, reserve : BOOLEAN,
                      shrink : BOOLEAN, old : Chunks \cup {NoChunk},
                      new : Chunks \cup {NoChunk}]
         /\ del \in [chunk : Chunks \cup {NoChunk},
                     ret : {"idle", "skip", "finish", "collect", "collected"}]
BY DEF IInv, TypeOK, CallTypeOK

\* The steps of a write that take nothing.
LEMMA FindRes ==
  ASSUME IInv, ResInv, FindAllocBlock
  PROVE  ResInv'
<1>1. Writable' = Writable
  <2>1. ErasedChunks' = ErasedChunks - ChunksPerBlock
    BY ResTypes, Multiples DEF FindAllocBlock, ErasedChunks
  <2>2. Room = 0 /\ Room' = ChunksPerBlock
    BY ResTypes DEF FindAllocBlock, Room, Empty
  <2>. QED
    BY <2>1, <2>2, ResTypes, Multiples DEF Writable, ErasedChunks
<1>2. /\ pc = "write"
      /\ UNCHANGED <<pc, call, del, n_free_chunks, pages_in_use, soft_del_pages,
                     gc_block, gc_chunk, gc_dirtiest, oldest_dirty>>
  BY DEF FindAllocBlock
<1>3. RoomInv' /\ ShapeInv'
  BY <1>2 DEF ResInv, RoomInv, Pending, ShapeInv
<1>4. PartlyInv'
  BY <1>2 DEF ResInv, PartlyInv, Partly, UsedPages, Relieved
<1>5. SpaceInv'
  BY <1>1, <1>2 DEF ResInv, SpaceInv, UsedPages, Pending
<1>. QED
  BY <1>3, <1>4, <1>5 DEF ResInv

LEMMA ProgramRes ==
  ASSUME Calm, IInv, ResInv, ProgramChunk \/ VerifyOk
  PROVE  ResInv'
<1>1. /\ pc \in {"program", "verify"} /\ pc' \in {"verify", "written"}
      /\ UNCHANGED <<call, del, n_free_chunks, n_erased_blocks, alloc_block,
                     alloc_page, pages_in_use, soft_del_pages,
                     gc_block, gc_chunk, gc_dirtiest, oldest_dirty>>
  <2>1. CASE ProgramChunk
    BY <2>1 DEF ProgramChunk, Calm
  <2>2. CASE VerifyOk
    BY <2>2 DEF VerifyOk
  <2>. QED
    BY <2>1, <2>2
<1>2. Writable' = Writable
  BY <1>1 DEF Writable, Room, ErasedChunks
<1>3. RoomInv' /\ ShapeInv'
  BY <1>1 DEF ResInv, RoomInv, Pending, ShapeInv
<1>4. PartlyInv'
  BY <1>1 DEF ResInv, PartlyInv, Partly, UsedPages, Relieved
<1>5. SpaceInv'
  BY <1>1, <1>2 DEF ResInv, SpaceInv, UsedPages, Pending
<1>. QED
  BY <1>3, <1>4, <1>5 DEF ResInv

\* The replaced chunk, if any, is the one pending from here on.
LEMMA WrittenRes ==
  ASSUME IInv, ResInv, Written
  PROVE  ResInv'
<1>1. /\ pc = "written" /\ pc' \in {"finish", "del"}
      /\ UNCHANGED <<call, n_free_chunks, n_erased_blocks, alloc_block,
                     alloc_page, pages_in_use, soft_del_pages,
                     gc_block, gc_chunk, gc_dirtiest, oldest_dirty>>
  BY DEF Written, CallDel
<1>2. Writable' = Writable
  BY <1>1 DEF Writable, Room, ErasedChunks
<1>3. CASE call.old # NoChunk
  <2>1. pc' = "del" /\ del'.chunk = call.old /\ del'.ret = "finish"
    BY <1>3, CallFields DEF Written
  <2>2. RoomInv' /\ ShapeInv'
    <3>1. RoomInv'
      BY <1>1, <1>3, <2>1 DEF ResInv, RoomInv, Pending
    <3>2. ShapeInv'
      BY <1>1, <2>1, CallTypes DEF ResInv, ShapeInv
    <3>. QED
      BY <3>1, <3>2
  <2>3. PartlyInv'
    BY <1>1, <2>1 DEF ResInv, PartlyInv, Partly, UsedPages, Relieved
  <2>4. SpaceInv'
    BY <1>1, <1>2, <2>1 DEF ResInv, SpaceInv, UsedPages, Pending
  <2>. QED
    BY <2>2, <2>3, <2>4 DEF ResInv
<1>4. CASE call.old = NoChunk
  <2>1. pc' = "finish" /\ del' = del
    BY <1>4 DEF Written
  <2>2. ~call.ingc
    BY <1>1, <1>4 DEF ResInv, ShapeInv, NoChunk
  <2>3. RoomInv' /\ ShapeInv'
    BY <1>1, <1>4, <2>1, <2>2, ResTypes DEF ResInv, RoomInv, Pending, ShapeInv
  <2>4. PartlyInv'
    BY <1>1, <2>1, <2>2 DEF ResInv, PartlyInv, Partly, UsedPages, Relieved
  <2>5. SpaceInv'
    BY <1>1, <1>2, <2>1, <2>2 DEF ResInv, SpaceInv, UsedPages, Pending
  <2>. QED
    BY <2>3, <2>4, <2>5 DEF ResInv
<1>. QED
  BY <1>3, <1>4

LEMMA FinishRes ==
  ASSUME IInv, ResInv, FinishWrite
  PROVE  ResInv'
<1>1. /\ pc = "finish" /\ pc' = IF call.ingc THEN "collect" ELSE "idle"
      /\ UNCHANGED <<del, n_free_chunks, n_erased_blocks, alloc_block,
                     alloc_page, pages_in_use, soft_del_pages,
                     gc_block, gc_chunk, gc_dirtiest, oldest_dirty>>
  BY DEF FinishWrite, AfterWrite
<1>2. /\ call'.ok /\ ~call'.ingc /\ (call.ingc => call'.copies = call.copies)
  BY CallTypes DEF FinishWrite, CallAfterWrite, NoCall, ResInv, ShapeInv
<1>3. Writable' = Writable
  BY <1>1 DEF Writable, Room, ErasedChunks
<1>4. RoomInv' /\ ShapeInv'
  BY <1>1, <1>2 DEF ResInv, RoomInv, Pending, ShapeInv
<1>5. PartlyInv'
  BY <1>1, <1>2 DEF ResInv, PartlyInv, Partly, UsedPages, Relieved
<1>6. SpaceInv'
  BY <1>1, <1>2, <1>3 DEF ResInv, SpaceInv, UsedPages, Pending
<1>. QED
  BY <1>4, <1>5, <1>6 DEF ResInv

\* The blocks the collector remembers are not the one being filled.
LEMMA NotFilling ==
  ASSUME IInv, alloc_block # NoBlock
  PROVE  alloc_block \notin {gc_block, gc_dirtiest, oldest_dirty.block}
<1>1. alloc_block \in Blocks /\ block_state[alloc_block] = "ALLOCATING"
  BY DEF IInv, AllocInv, TypeOK, AllocTypeOK
<1>2. gc_block # alloc_block
  BY <1>1 DEF IInv, GcInv
<1>3. gc_dirtiest # alloc_block /\ oldest_dirty.block # alloc_block
  BY <1>1 DEF IInv, GcInv
<1>. QED
  BY <1>2, <1>3

\* A chunk is taken.
LEMMA AllocRes ==
  ASSUME IInv, ResInv, AllocChunk
  PROVE  ResInv'
<1>. /\ ChunksPerBlock \in Nat /\ ChunksPerBlock >= 2
     /\ Kept \in Nat /\ Kept >= ChunksPerBlock
     /\ Writable \in Int /\ n_free_chunks \in Int /\ alloc_page \in Nat
     /\ pages_in_use \in [Blocks -> Int] /\ NoBlock \notin Blocks
  BY ResTypes DEF IInv, TypeOK, BlocksTypeOK
<1>1. /\ pc = "write" /\ pc' = "program" /\ alloc_block # NoBlock
      /\ n_free_chunks' = n_free_chunks - 1
      /\ pages_in_use' = [pages_in_use EXCEPT ![alloc_block] = @ + 1]
      /\ UNCHANGED <<n_erased_blocks, soft_del_pages, gc_block, gc_chunk,
                     gc_dirtiest, oldest_dirty, del>>
      /\ call.reserve \/ AllocAvailable
  BY DEF AllocChunk
<1>2. /\ call'.ok = call.ok /\ call'.ingc = call.ingc /\ call'.old = call.old
      /\ call'.copies = call.copies
  BY CallTypes DEF AllocChunk
<1>3. Writable' = Writable - 1
  <2>1. alloc_page < ChunksPerBlock
    BY <1>1 DEF IInv, AllocInv
  <2>2. Room' = Room - 1
    <3>1. CASE BlockIsFull(alloc_page + 1)
      BY <1>1, <2>1, <3>1 DEF AllocChunk, BlockIsFull, Room
    <3>2. CASE ~BlockIsFull(alloc_page + 1)
      BY <1>1, <2>1, <3>2 DEF AllocChunk, BlockIsFull, Room
    <3>. QED
      BY <3>1, <3>2
  <2>3. ErasedChunks' = ErasedChunks /\ ErasedChunks \in Int /\ Room \in Int
    BY <1>1, <2>1, ResTypes, Multiples DEF ErasedChunks, Room
  <2>. QED
    BY <2>2, <2>3 DEF Writable
<1>4. \A b \in {gc_block, gc_dirtiest, oldest_dirty.block} \ {NoBlock} :
         UsedPages(b)' = UsedPages(b) /\ pages_in_use'[b] = pages_in_use[b]
  BY <1>1, NotFilling, ResTypes DEF UsedPages
<1>5. RoomInv'
  <2>1. call.old = NoChunk => n_free_chunks > Kept + ChunksPerBlock + 1
    BY <1>1, AvailableLeaves DEF ResInv, RoomInv
  <2>. QED
    BY <1>1, <1>2, <2>1 DEF ResInv, RoomInv, Pending
<1>6. ShapeInv'
  BY <1>1, <1>2, <1>4, CallTypes DEF ResInv, ShapeInv
<1>7. PartlyInv'
  BY <1>1, <1>2, <1>4, CallTypes DEF ResInv, PartlyInv, Partly, Relieved
<1>8. SpaceInv'
  <2>1. CASE ~call.ingc
    BY <1>1, <1>2, <1>3, <2>1, CallTypes DEF ResInv, SpaceInv
  <2>2. CASE call.ingc
    <3>1. gc_block # NoBlock
      BY <1>1, <2>2 DEF ResInv, ShapeInv
    <3>2. /\ UsedPages(gc_block)' = UsedPages(gc_block)
          /\ UsedPages(gc_block) \in Int
      BY <1>1, <1>4, <3>1, ResTypes
    <3>3. /\ Pending = 0 /\ Pending' = 1 /\ InGc /\ InGc'
      BY <1>1, <1>2, <2>2 DEF Pending
    <3>. QED
      BY <1>1, <1>2, <1>3, <2>2, <3>1, <3>2, <3>3, CallTypes
      DEF ResInv, SpaceInv
  <2>. QED
    BY <2>1, <2>2
<1>. QED
  BY <1>5, <1>6, <1>7, <1>8 DEF ResInv

\* A copy of the collector finds a chunk; a write of the client may be refused.
LEMMA CopyFindsRoom ==
  ASSUME IInv, ResInv, pc = "write", call.ingc, alloc_block = NoBlock
  PROVE  n_erased_blocks >= 1
<1>1. gc_block # NoBlock /\ gc_block \in Blocks
  BY ResTypes DEF ResInv, ShapeInv
<1>2. Writable > 0
  <2>1. Writable + ChunksPerBlock > UsedPages(gc_block) + Kept
    BY <1>1, ResTypes DEF ResInv, SpaceInv, Pending
  <2>. QED
    BY <1>1, <2>1, ResTypes
<1>3. Writable = n_erased_blocks * ChunksPerBlock + 0
  BY DEF Writable, Room, ErasedChunks
<1>. QED
  BY <1>2, <1>3, ResTypes, Multiples

LEMMA FailsRes ==
  ASSUME IInv, CopyInv, ResInv, WriteFails
  PROVE  ResInv' /\ ~call.ingc
<1>1. ~call.ingc
  BY CopyFindsRoom, ResTypes DEF WriteFails, CopyInv
<1>2. /\ pc = "write" /\ pc' = "idle"
      /\ UNCHANGED <<del, n_free_chunks, n_erased_blocks, alloc_block,
                     pages_in_use, soft_del_pages,
                     gc_block, gc_chunk, gc_dirtiest, oldest_dirty>>
  BY <1>1 DEF WriteFails, AfterRefusal, AfterWrite
<1>3. call'.ok /\ ~call'.ingc
  BY <1>1, CallTypes DEF WriteFails, CallAfterWrite, NoCall
<1>4. Writable' = Writable
  BY <1>2 DEF WriteFails, Writable, Room, ErasedChunks
<1>5. RoomInv' /\ ShapeInv'
  BY <1>2, <1>3 DEF ResInv, RoomInv, Pending, ShapeInv
<1>6. PartlyInv'
  BY <1>1, <1>2, <1>3 DEF ResInv, PartlyInv, Partly, UsedPages, Relieved
<1>7. SpaceInv'
  BY <1>1, <1>2, <1>3, <1>4 DEF ResInv, SpaceInv
<1>. QED
  BY <1>1, <1>5, <1>6, <1>7 DEF ResInv

-----------------------------------------------------------------------------
\* A chunk is deleted.
LEMMA DelRes ==
  ASSUME IInv, CalmInv, ShrinkInv, ResInv, ChunkDel
  PROVE  ResInv'
<1>0. PICK b \in Blocks : b = del.chunk[1]
  BY DEF ChunkDel, IInv, CallInv, Chunks
<1>. /\ ChunksPerBlock \in Nat /\ ChunksPerBlock >= 2
     /\ Kept \in Nat /\ Kept >= ChunksPerBlock
     /\ Writable \in Int /\ n_free_chunks \in Int
     /\ pages_in_use \in [Blocks -> Int] /\ NoBlock \notin Blocks
     /\ gc_block \in Blocks \cup {NoBlock}
  BY ResTypes DEF IInv, TypeOK, BlocksTypeOK
<1>1. /\ pc = "del"
      /\ n_free_chunks' = n_free_chunks + 1
      /\ pages_in_use' = [pages_in_use EXCEPT ![b] = @ - 1]
      /\ UNCHANGED <<n_erased_blocks, alloc_block, alloc_page, soft_del_pages,
                     gc_block, gc_chunk, gc_dirtiest, call>>
      /\ \/ LeftDirty(b) /\ pc' = "dirty" /\ del' = del
         \/ ~LeftDirty(b) /\ pc' = del.ret
  BY <1>0 DEF ChunkDel
<1>2. del.ret \in {"idle", "finish", "collect", "collected"}
  BY CallTypes DEF CalmInv
<1>3. /\ \A x \in Blocks \ {b} : /\ UsedPages(x)' = UsedPages(x)
                                 /\ pages_in_use'[x] = pages_in_use[x]
      /\ UsedPages(b)' = UsedPages(b) - 1 /\ pages_in_use'[b] = pages_in_use[b] - 1
      /\ UsedPages(b) \in 0 .. ChunksPerBlock
  <2>1. soft_del_pages \in [Blocks -> Int]
    BY DEF IInv, TypeOK, ClientTypeOK
  <2>2. \A x \in Blocks : pages_in_use'[x] = pages_in_use[x] - (IF x = b THEN 1 ELSE 0)
    BY <1>1
  <2>3. \A x \in Blocks : UsedPages(x)' = pages_in_use'[x] - soft_del_pages[x]
    BY <1>1 DEF UsedPages
  <2>4. \A x \in Blocks : pages_in_use[x] \in Int /\ soft_del_pages[x] \in Int
    BY <2>1
  <2>5. UsedPages(b)' = pages_in_use'[b] - soft_del_pages[b]
    BY <2>3
  <2>6. \A x \in Blocks : UsedPages(x) = pages_in_use[x] - soft_del_pages[x]
    BY DEF UsedPages
  <2>7. UsedPages(b) = pages_in_use[b] - soft_del_pages[b]
    BY <2>6
  <2>8. UsedPages(b)' = UsedPages(b) - 1
    BY <2>2, <2>4, <2>5, <2>7
  <2>9. \A x \in Blocks \ {b} : UsedPages(x)' = UsedPages(x)
    BY <2>2, <2>3, <2>4, <2>6
  <2>. HIDE DEF UsedPages
  <2>. QED
    BY <2>2, <2>4, <2>8, <2>9, ResTypes
<1>4. oldest_dirty'.block \in {oldest_dirty.block, b}
  BY <1>0 DEF ChunkDel, OldestUpdated
<1>5. (InGc' <=> InGc) /\ ~InWrite'
  BY <1>1, <1>2
<1>6. InGc /\ gc_block # NoBlock => b = gc_block
  BY <1>0, <1>1 DEF ResInv, ShapeInv
<1>7. Writable' = Writable /\ Pending = 1 /\ Pending' = 0
  BY <1>1, <1>2 DEF Writable, Room, ErasedChunks, Pending
<1>8. RoomInv'
  BY <1>1, <1>2, <1>7 DEF ResInv, RoomInv
<1>9. ShapeInv'
  <2>1. InGc /\ gc_block # NoBlock /\ pc' # "dirty" => pages_in_use'[gc_block] > 0
    <3>1. SUFFICES ASSUME InGc, gc_block # NoBlock, pc' # "dirty"
                   PROVE  pages_in_use'[gc_block] > 0
      OBVIOUS
    <3>2. block_state[gc_block] = "COLLECTING"
      BY <3>1 DEF IInv, GcInv
    <3>3. pages_in_use[gc_block] # 1
      BY <1>1, <1>6, <3>1, <3>2 DEF LeftDirty, ShrinkInv
    <3>4. pages_in_use[gc_block] > 0
      BY <1>1, <3>1 DEF ResInv, ShapeInv
    <3>. QED
      BY <1>3, <1>6, <3>1, <3>3, <3>4
  <2>2. InGc /\ gc_block # NoBlock /\ pc' = "dirty" => del'.chunk[1] = gc_block
    BY <1>0, <1>1, <1>2, <1>6
  <2>3. call'.ok /\ pc' # "del" /\ (InDel' => pc' = "dirty")
    BY <1>1, <1>2 DEF ResInv, ShapeInv
  <2>. HIDE DEF InGc, InWrite
  <2>. QED
    BY <1>1, <1>5, <2>1, <2>2, <2>3 DEF ShapeInv
<1>10. PartlyInv'
  <2>1. Partly(b)'
    BY <1>3 DEF Partly
  <2>2. \A x \in {gc_dirtiest, oldest_dirty.block} \ {NoBlock} : x \in Blocks
    BY ResTypes
  <2>3. \A x \in {gc_dirtiest, oldest_dirty'.block} \ {NoBlock} : Partly(x)'
    BY <1>0, <1>1, <1>3, <1>4, <2>1, <2>2 DEF ResInv, PartlyInv, Partly
  <2>4. gc_block # NoBlock => Partly(gc_block)'
    <3>1. SUFFICES ASSUME gc_block # NoBlock, gc_block # b PROVE Partly(gc_block)'
      BY <1>1, <2>1
    <3>2. ~InGc
      BY <1>6, <3>1
    <3>3. ~Relieved
      BY <1>1, <3>2 DEF Relieved
    <3>. QED
      BY <1>1, <1>3, <3>1, <3>3 DEF ResInv, PartlyInv, Partly
  <2>. QED
    BY <1>1, <2>3, <2>4 DEF PartlyInv
<1>11. SpaceInv'
  <2>1. pc' \in {"dirty", "idle", "finish", "collect", "collected"}
    BY <1>1, <1>2
  <2>2. CASE ~InGc
    <3>. HIDE DEF InGc
    <3>. QED
      BY <1>5, <1>7, <2>1, <2>2 DEF ResInv, SpaceInv
  <2>3. CASE InGc /\ gc_block = NoBlock
    <3>1. Writable > Kept
      BY <1>1, <2>3 DEF ResInv, SpaceInv
    <3>. HIDE DEF InGc
    <3>. QED
      BY <1>1, <1>5, <1>7, <2>1, <2>3, <3>1 DEF SpaceInv
  <2>4. CASE InGc /\ gc_block # NoBlock
    <3>1. pc' # "collected"
      BY <1>1, <2>4 DEF ResInv, ShapeInv
    <3>2. /\ Writable + 1 + ChunksPerBlock > UsedPages(gc_block) + Kept
          /\ call.copies + gc_chunk < ChunksPerBlock =>
               Writable + 1 > UsedPages(gc_block) + Kept
      BY <1>1, <1>7, <2>4 DEF ResInv, SpaceInv
    <3>3. UsedPages(gc_block)' = UsedPages(gc_block) - 1 /\ UsedPages(gc_block) \in Int
      BY <1>1, <1>3, <1>6, <2>4
    <3>. HIDE DEF InGc
    <3>. QED
      BY <1>1, <1>5, <1>7, <2>1, <2>4, <3>1, <3>2, <3>3 DEF SpaceInv
  <2>. QED
    BY <2>2, <2>3, <2>4
<1>. QED
  BY <1>8, <1>9, <1>10, <1>11 DEF ResInv

\* A block that lost its last chunk is given up ...
LEMMA DirtyRes ==
  ASSUME IInv, CalmInv, ResInv, BecameDirty
  PROVE  ResInv'
<1>1. /\ pc = "dirty" /\ pc' = "erase"
      /\ gc_block' = IF gc_block = del.chunk[1] THEN NoBlock ELSE gc_block
      /\ gc_dirtiest' \in {gc_dirtiest, NoBlock}
      /\ UNCHANGED <<n_erased_blocks, n_free_chunks, alloc_block, alloc_page,
                     pages_in_use, soft_del_pages, gc_chunk, call, del>>
  BY DEF BecameDirty
<1>2. oldest_dirty'.block \in {oldest_dirty.block, NoBlock}
  BY DEF BecameDirty, OldestCleared, NoOldest
<1>3. (InGc' <=> InGc) /\ ~InWrite'
  BY <1>1 DEF CalmInv
<1>4. InGc => gc_block' = NoBlock
  BY <1>1 DEF ResInv, ShapeInv
<1>5. Writable' = Writable /\ Pending = 0 /\ Pending' = 0
  BY <1>1 DEF Writable, Room, ErasedChunks, Pending
<1>6. RoomInv' /\ ShapeInv'
  <2>1. RoomInv'
    BY <1>1, <1>5 DEF ResInv, RoomInv
  <2>2. call.ok
    BY DEF ResInv, ShapeInv
  <2>. HIDE DEF InGc, InWrite
  <2>3. ShapeInv'
    BY <1>1, <1>3, <1>4, <2>2 DEF ShapeInv
  <2>. QED
    BY <2>1, <2>3
<1>7. PartlyInv'
  <2>1. \A x \in {gc_dirtiest, oldest_dirty.block} \ {NoBlock} : Partly(x)
    BY <1>1 DEF ResInv, PartlyInv
  <2>2. gc_block' # NoBlock => gc_block' = gc_block /\ ~Relieved
    BY <1>1, <1>4 DEF Relieved
  <2>3. gc_block' # NoBlock => Partly(gc_block)
    BY <2>2 DEF ResInv, PartlyInv
  <2>. QED
    BY <1>1, <1>2, <2>1, <2>2, <2>3 DEF PartlyInv, Partly, UsedPages
<1>8. SpaceInv'
  <2>1. CASE ~InGc
    <3>. HIDE DEF InGc
    <3>. QED
      BY <1>1, <1>3, <1>5, <2>1 DEF ResInv, SpaceInv
  <2>2. CASE InGc
    <3>1. Writable + ChunksPerBlock > Kept
      <4>1. CASE gc_block # NoBlock
        <5>1. Writable + ChunksPerBlock > UsedPages(gc_block) + Kept
          BY <1>5, <2>2, <4>1, ResTypes DEF ResInv, SpaceInv
        <5>. QED
          BY <4>1, <5>1, ResTypes
      <4>2. CASE gc_block = NoBlock
        BY <1>1, <2>2, <4>2, ResTypes DEF ResInv, SpaceInv
      <4>. QED
        BY <4>1, <4>2
    <3>. HIDE DEF InGc
    <3>. QED
      BY <1>1, <1>3, <1>4, <1>5, <2>2, <3>1 DEF SpaceInv
  <2>. QED
    BY <2>1, <2>2
<1>. QED
  BY <1>6, <1>7, <1>8 DEF ResInv

\* ... and erased, which gives a block's worth of chunks.
LEMMA EraseRes ==
  ASSUME IInv, CalmInv, ResInv, EraseOk
  PROVE  ResInv'
<1>. DEFINE b == del.chunk[1]
<1>. /\ ChunksPerBlock \in Nat /\ ChunksPerBlock >= 2 /\ Kept \in Nat
     /\ Writable \in Int /\ NoBlock \notin Blocks
     /\ pages_in_use \in [Blocks -> Int] /\ soft_del_pages \in [Blocks -> Int]
     /\ gc_block \in Blocks \cup {NoBlock}
  BY ResTypes DEF IInv, TypeOK, BlocksTypeOK, ClientTypeOK
<1>1. /\ pc = "erase" /\ pc' = del.ret /\ b \in Blocks /\ del' = NoDel
      /\ pages_in_use' = [pages_in_use EXCEPT ![b] = 0]
      /\ soft_del_pages' = [soft_del_pages EXCEPT ![b] = 0]
      /\ n_erased_blocks' = n_erased_blocks + 1
      /\ UNCHANGED <<n_free_chunks, alloc_block, alloc_page,
                     gc_block, gc_chunk, gc_dirtiest, oldest_dirty, call>>
  BY DEF EraseOk, IInv, CallInv, Chunks
<1>2. pc' \in {"idle", "finish", "collect", "collected"}
  BY <1>1, CallTypes DEF CalmInv
<1>3. \A x \in Blocks : UsedPages(x)' \in {UsedPages(x), 0}
  BY <1>1 DEF UsedPages
<1>4. (InGc' <=> InGc) /\ ~InWrite' /\ ~InDel'
  BY <1>1, <1>2
<1>5. InGc => gc_block = NoBlock
  <2>1. SUFFICES ASSUME InGc, gc_block # NoBlock PROVE FALSE
    OBVIOUS
  <2>2. block_state[gc_block] = "COLLECTING"
    BY <2>1 DEF IInv, GcInv
  <2>3. gc_block = b
    BY <1>1, <2>1 DEF ResInv, ShapeInv
  <2>. QED
    BY <1>1, <2>2, <2>3 DEF IInv, DelInv
<1>6. Writable' = Writable + ChunksPerBlock /\ Pending = 0 /\ Pending' = 0
  <2>1. ErasedChunks' = ErasedChunks + ChunksPerBlock /\ ErasedChunks \in Int
    BY <1>1, ResTypes, Multiples DEF ErasedChunks
  <2>2. Room' = Room /\ Room \in Int
    BY <1>1, ResTypes DEF Room
  <2>. QED
    BY <1>1, <1>2, <2>1, <2>2 DEF Writable, Pending
<1>. HIDE DEF b
<1>7. RoomInv' /\ ShapeInv'
  <2>1. RoomInv'
    BY <1>1, <1>2, <1>6 DEF ResInv, RoomInv
  <2>2. call.ok
    BY DEF ResInv, ShapeInv
  <2>. HIDE DEF InGc, InWrite, InDel
  <2>3. ShapeInv'
    BY <1>1, <1>2, <1>4, <1>5, <2>2 DEF ShapeInv
  <2>. QED
    BY <2>1, <2>3
<1>8. PartlyInv'
  <2>1. \A x \in {gc_dirtiest, oldest_dirty.block} \ {NoBlock} : Partly(x) /\ x \in Blocks
    BY <1>1, ResTypes DEF ResInv, PartlyInv
  <2>2. gc_block # NoBlock => Partly(gc_block)
    BY <1>1, <1>5 DEF ResInv, PartlyInv, Relieved
  <2>3. \A x \in Blocks : Partly(x) => Partly(x)'
    BY <1>3 DEF Partly
  <2>. QED
    BY <1>1, <2>1, <2>2, <2>3 DEF PartlyInv
<1>9. SpaceInv'
  <2>1. CASE ~InGc
    <3>. HIDE DEF InGc
    <3>. QED
      BY <1>1, <1>2, <1>4, <1>6, <2>1 DEF ResInv, SpaceInv
  <2>2. CASE InGc
    <3>1. Writable + ChunksPerBlock > Kept
      BY <1>1, <1>5, <2>2 DEF ResInv, SpaceInv
    <3>. HIDE DEF InGc
    <3>. QED
      BY <1>1, <1>2, <1>4, <1>5, <1>6, <2>2, <3>1 DEF SpaceInv
  <2>. QED
    BY <2>1, <2>2
<1>. QED
  BY <1>7, <1>8, <1>9 DEF ResInv

-----------------------------------------------------------------------------
\* What no step of the collector's own changes but its loop.
SameUse == UNCHANGED <<n_erased_blocks, alloc_block, alloc_page, pages_in_use>>

LEMMA SameRoom ==
  ASSUME SameUse
  PROVE  Writable' = Writable
BY DEF SameUse, Writable, Room, ErasedChunks

\* Outside a collection and a deletion the blocks the collector knows of are
\* partly used.
LEMMA KnownPartly ==
  ASSUME IInv, ResInv, pc \in {"idle", "gc", "collected"}
  PROVE  /\ \A b \in {gc_block, gc_dirtiest, oldest_dirty.block} \ {NoBlock} :
              b \in Blocks /\ Partly(b)
         /\ ~call.ingc
<1>1. ~call.ingc
  BY DEF IInv, CallInv
<1>2. ~Relieved
  BY <1>1 DEF Relieved
<1>. QED
  BY <1>1, <1>2, ResTypes DEF ResInv, PartlyInv

\* The oldest dirty block that is computed is one of those.
LEMMA OldestPartly ==
  ASSUME IInv, ResInv, pc \in {"idle", "gc", "collected"}, Oldest.block # NoBlock
  PROVE  Oldest.block \in Blocks /\ Partly(Oldest.block)
<1>1. CASE oldest_dirty.seq # 0 \/ PartlyUsed = {}
  BY <1>1, KnownPartly DEF Oldest
<1>2. CASE ~(oldest_dirty.seq # 0 \/ PartlyUsed = {})
  <2>1. \E c \in PartlyUsed : IsOldestIn(c, PartlyUsed)
    BY <1>2, OldestExists
  <2>2. Oldest.block \in PartlyUsed
    BY <1>2, <2>1 DEF Oldest, IsOldestIn
  <2>. QED
    BY <2>2 DEF PartlyUsed, Partly
<1>. QED
  BY <1>1, <1>2

\* The calls of the collector return.
LEMMA EndRes ==
  ASSUME IInv, ResInv, SameUse, EndGc, pc \in {"gc", "collected"},
         UNCHANGED <<n_free_chunks, soft_del_pages, gc_block>>, Writable > Kept,
         \A b \in {gc_dirtiest', oldest_dirty'.block} \ {NoBlock} :
           b \in Blocks /\ Partly(b)
  PROVE  ResInv'
<1>1. /\ pc' \in {"choose", "idle"} /\ call'.ok /\ ~call'.ingc
      /\ UNCHANGED <<n_free_chunks, soft_del_pages, gc_block, pages_in_use>>
  BY DEF EndGc, NoCall, SameUse
<1>2. Writable' = Writable
  BY SameRoom
<1>3. RoomInv' /\ ShapeInv'
  BY <1>1 DEF ResInv, RoomInv, Pending, ShapeInv
<1>4. PartlyInv'
  BY <1>1, KnownPartly DEF PartlyInv, Partly, UsedPages
<1>5. SpaceInv'
  BY <1>1, <1>2, ResTypes DEF SpaceInv
<1>. QED
  BY <1>3, <1>4, <1>5 DEF ResInv

LEMMA SkipRes ==
  ASSUME IInv, ResInv, SkipGc
  PROVE  ResInv'
<1>1. /\ pc = "gc" /\ EndGc /\ ~Aggressive
      /\ UNCHANGED <<n_free_chunks, n_erased_blocks, alloc_block, alloc_page,
                     pages_in_use, soft_del_pages, gc_block, gc_dirtiest,
                     oldest_dirty>>
  BY DEF SkipGc
<1>2. Writable > Kept
  BY <1>1, RoomTypes, NotAggressive, ResTypes DEF Writable
<1>. QED
  BY <1>1, <1>2, KnownPartly, EndRes DEF SameUse

\* The collection of a block that has to be continued left room enough.
LEMMA SomeRes ==
  ASSUME IInv, ResInv, CollectedSome
  PROVE  ResInv'
<1>1. /\ pc = "collected" /\ gc_block # NoBlock
      /\ UNCHANGED <<n_free_chunks, n_erased_blocks, alloc_block, alloc_page,
                     pages_in_use, soft_del_pages, gc_block, gc_dirtiest,
                     oldest_dirty>>
      /\ \/ pc' = "gc" /\ UNCHANGED call
         \/ EndGc
  BY DEF CollectedSome, NextTry
<1>2. Writable > Kept
  <2>1. Writable > UsedPages(gc_block) + Kept
    BY <1>1, ResTypes DEF ResInv, SpaceInv, Pending
  <2>. QED
    BY <1>1, <2>1, ResTypes
<1>3. CASE EndGc
  BY <1>1, <1>2, <1>3, KnownPartly, EndRes DEF SameUse
<1>4. CASE pc' = "gc" /\ UNCHANGED call
  <2>1. Writable' = Writable
    BY <1>1, SameRoom DEF SameUse
  <2>2. ~call.ingc
    BY <1>1, KnownPartly
  <2>3. RoomInv' /\ ShapeInv'
    BY <1>1, <1>4, <2>2 DEF ResInv, RoomInv, Pending, ShapeInv
  <2>4. PartlyInv'
    BY <1>1, <1>4, KnownPartly DEF PartlyInv, Partly, UsedPages
  <2>5. SpaceInv'
    BY <1>1, <1>2, <1>4, <2>1, <2>2, ResTypes DEF SpaceInv
  <2>. QED
    BY <2>3, <2>4, <2>5 DEF ResInv
<1>. QED
  BY <1>1, <1>3, <1>4

LEMMA AllRes ==
  ASSUME IInv, ResInv, CollectedAll
  PROVE  ResInv'
<1>1. /\ pc = "collected" /\ gc_block = NoBlock /\ EndGc
      /\ UNCHANGED <<n_free_chunks, n_erased_blocks, alloc_block, alloc_page,
                     pages_in_use, soft_del_pages, gc_block, gc_dirtiest,
                     oldest_dirty>>
  BY DEF CollectedAll, NextTry
<1>2. Writable > Kept
  BY <1>1, ResTypes DEF ResInv, SpaceInv
<1>. QED
  BY <1>1, <1>2, KnownPartly, EndRes DEF SameUse

\* A file is cleaned up when the block of its last chunk is gone.
LEMMA CleanRes ==
  ASSUME IInv, ResInv, CleanUp
  PROVE  ResInv'
<1>1. /\ pc = "collected" /\ gc_block = NoBlock
      /\ UNCHANGED <<n_free_chunks, n_erased_blocks, alloc_block, alloc_page,
                     pages_in_use, soft_del_pages, gc_block, gc_dirtiest,
                     oldest_dirty, call>>
      /\ \/ pc' = "del" /\ del'.ret = "collected"
         \/ UNCHANGED <<pc, del>>
  BY CallFields DEF CleanUp
<1>2. Writable' = Writable
  BY <1>1, SameRoom DEF SameUse
<1>3. ~call.ingc
  BY <1>1, KnownPartly
<1>4. Writable > Kept
  BY <1>1, ResTypes DEF ResInv, SpaceInv
<1>5. RoomInv'
  BY <1>1, ResTypes DEF ResInv, RoomInv, Pending
<1>6. ShapeInv'
  BY <1>1, <1>3 DEF ResInv, ShapeInv
<1>7. PartlyInv'
  BY <1>1, KnownPartly DEF PartlyInv, Partly, UsedPages
<1>8. SpaceInv'
  BY <1>1, <1>2, <1>3, <1>4, ResTypes DEF SpaceInv
<1>. QED
  BY <1>5, <1>6, <1>7, <1>8 DEF ResInv

-----------------------------------------------------------------------------
\* A block is taken up that has something to gain, or space is not short.
LEMMA SelectRes ==
  ASSUME IInv, ResInv, NEW b \in Blocks, pc = "gc", GcBlockCalled(b),
         Partly(b) \/ ~Aggressive,
         \A x \in {gc_dirtiest', oldest_dirty'.block} \ {NoBlock} :
           x \in Blocks /\ Partly(x)
  PROVE  ResInv'
<1>1. /\ pc' = "gcblk" /\ gc_block' = b /\ call'.ok = call.ok
      /\ call'.ingc = call.ingc
      /\ UNCHANGED <<n_free_chunks, n_erased_blocks, alloc_block, alloc_page,
                     pages_in_use, soft_del_pages, blocks_in_checkpt>>
  BY CallTypes DEF GcBlockCalled
<1>2. Writable' = Writable
  BY <1>1, SameRoom DEF SameUse
<1>3. ~call.ingc
  BY KnownPartly
<1>4. RoomInv' /\ ShapeInv'
  BY <1>1, <1>3 DEF ResInv, RoomInv, Pending, ShapeInv
<1>5. PartlyInv'
  <2>1. Aggressive' <=> Aggressive
    BY <1>1 DEF Aggressive, CheckptBlocksNeeded
  <2>2. Partly(b) \/ Relieved'
    BY <1>1, <2>1 DEF Relieved
  <2>. QED
    BY <1>1, <2>2 DEF PartlyInv, Partly, UsedPages
<1>6. SpaceInv'
  BY <1>1, <1>2, <1>3 DEF ResInv, SpaceInv
<1>. QED
  BY <1>4, <1>5, <1>6 DEF ResInv

\* The oldest block with something to gain is always fit for collection: where
\* none is fit, no block has anything to gain.
LEMMA NothingFit ==
  ASSUME IInv, ResInv, pc = "gc", Candidates = {}
  PROVE  PartlyUsed = {}
<1>1. SUFFICES ASSUME PartlyUsed # {} PROVE FALSE
  OBVIOUS
<1>2. CASE oldest_dirty.seq = 0
  <2>1. \E c \in PartlyUsed : IsOldestIn(c, PartlyUsed)
    BY <1>1, OldestExists
  <2>2. PICK c \in PartlyUsed : Oldest = [seq |-> blk_seq[c], block |-> c]
    BY <1>1, <1>2, <2>1 DEF Oldest
  <2>3. blk_seq[c] \in Nat
    BY DEF PartlyUsed, IInv, TypeOK, AllocTypeOK
  <2>4. c \in Candidates
    BY <2>2, <2>3 DEF Candidates, OkForGc
  <2>. QED
    BY <2>4
<1>3. CASE oldest_dirty.seq # 0
  <2>. DEFINE b == oldest_dirty.block
  <2>1. b \in Blocks /\ Partly(b)
    BY <1>3, KnownPartly DEF IInv, GcInv
  <2>2. block_state[b] \in {"FULL", "COLLECTING"} /\ blk_seq[b] = oldest_dirty.seq
    BY <1>3 DEF IInv, GcInv
  <2>3. block_state[b] # "COLLECTING"
    <3>1. ~InGc
      BY KnownPartly
    <3>. HIDE DEF InGc
    <3>. QED
      BY <2>1, <3>1 DEF IInv, GcInv
  <2>4. b \in PartlyUsed
    BY <2>1, <2>2, <2>3 DEF PartlyUsed, Partly
  <2>5. Oldest = oldest_dirty /\ blk_seq[b] \in Nat
    BY <1>3, <2>1 DEF Oldest, IInv, TypeOK, AllocTypeOK
  <2>6. b \in Candidates
    BY <2>2, <2>4, <2>5 DEF Candidates, OkForGc
  <2>. QED
    BY <2>6
<1>. QED
  BY <1>2, <1>3

\* Each search of the collector.
LEMMA SearchRes ==
  ASSUME Calm, IInv, CalmInv, ErasingInv, FreeChunksExact, ErasedBlocksExact, ResInv,
         \/ ResumeGc \/ RefreshSelect \/ PrioritisedSelect \/ OldestForPrioritised
         \/ DirtiestSelect \/ OldestSelect \/ SelectNone
  PROVE  ResInv'
<1>. DEFINE known == {gc_dirtiest', oldest_dirty'.block} \ {NoBlock}
<1>a. pc = "gc"
  BY DEF ResumeGc, RefreshSelect, PrioritisedSelect, OldestForPrioritised,
     DirtiestSelect, OldestSelect, SelectNone, Searching, Collecting
<1>b. ASSUME OldestMayBeFound, oldest_dirty'.block # NoBlock
      PROVE  oldest_dirty'.block \in Blocks /\ Partly(oldest_dirty'.block)
  <2>1. CASE oldest_dirty' = oldest_dirty
    BY <1>a, <1>b, <2>1, KnownPartly
  <2>2. CASE oldest_dirty' = Oldest
    BY <1>a, <1>b, <2>2, OldestPartly
  <2>. QED
    BY <1>b, <2>1, <2>2 DEF OldestMayBeFound
<1>c. ASSUME OldestMayBeFound, gc_dirtiest' = NoBlock
      PROVE  \A x \in known : x \in Blocks /\ Partly(x)
  BY <1>b, <1>c
<1>d. ASSUME NEW d \in Blocks \cup {NoBlock}, IsDirtiest(d)
      PROVE  OldestMayBeFound /\ (d # NoBlock => d \in Blocks /\ Partly(d))
  <2>1. d \in {gc_dirtiest, NoBlock} \cup PartlyUsed
    BY <1>d DEF IsDirtiest, Candidates
  <2>. QED
    BY <1>a, <1>d, <2>1, KnownPartly DEF IsDirtiest, PartlyUsed, Partly
<1>1. CASE ResumeGc
  <2>1. /\ gc_block \in Blocks /\ gc_block # NoBlock /\ GcBlockCalled(gc_block)
        /\ UNCHANGED <<gc_dirtiest, oldest_dirty>>
    BY <1>1, ResTypes DEF ResumeGc
  <2>. QED
    BY <1>a, <2>1, KnownPartly, SelectRes
<1>2. CASE RefreshSelect
  <2>1. PICK b \in Blocks : GcBlockCalled(b)
    BY <1>2 DEF RefreshSelect
  <2>2. ~Aggressive /\ UNCHANGED <<gc_dirtiest, oldest_dirty>>
    BY <1>2 DEF RefreshSelect
  <2>. QED
    BY <1>a, <2>1, <2>2, KnownPartly, SelectRes
<1>3. CASE PrioritisedSelect
  <2>1. PICK b \in Prioritised : GcSelected(b)
    BY <1>3 DEF PrioritisedSelect
  <2>2. b \in Blocks
    BY <2>1 DEF Prioritised, IInv, TypeOK, MarksTypeOK
  <2>3. ~Aggressive /\ OldestMayBeFound /\ GcBlockCalled(b) /\ gc_dirtiest' = NoBlock
    BY <1>3, <2>1 DEF PrioritisedSelect, SeeksPrioritised, GcSelected
  <2>. QED
    BY <1>a, <1>c, <2>2, <2>3, SelectRes
<1>4. CASE OldestForPrioritised
  <2>1. /\ ~Aggressive /\ OldestMayBeFound /\ gc_dirtiest' = NoBlock
        /\ oldest_dirty'.block # NoBlock /\ GcBlockCalled(oldest_dirty'.block)
    BY <1>4 DEF OldestForPrioritised, SeeksPrioritised, GcSelected
  <2>2. PICK b \in Blocks : b = oldest_dirty'.block
    BY <1>b, <2>1
  <2>. QED
    BY <1>a, <1>c, <2>1, <2>2, SelectRes
<1>5. CASE DirtiestSelect
  <2>1. PICK d \in Blocks : IsDirtiest(d) /\ GcSelected(d)
    BY <1>5 DEF DirtiestSelect
  <2>2. d # NoBlock /\ OldestMayBeFound /\ Partly(d)
    BY <1>d, <2>1
  <2>3. GcBlockCalled(d) /\ gc_dirtiest' = NoBlock
    BY <2>1 DEF GcSelected
  <2>. QED
    BY <1>a, <1>c, <2>2, <2>3, SelectRes
<1>6. CASE OldestSelect
  <2>1. /\ OldestMayBeFound /\ gc_dirtiest' = NoBlock
        /\ oldest_dirty'.block # NoBlock /\ GcBlockCalled(oldest_dirty'.block)
    BY <1>6 DEF OldestSelect, OldestMayBeFound, GcSelected
  <2>2. PICK b \in Blocks : b = oldest_dirty'.block /\ Partly(b)
    BY <1>b, <2>1
  <2>. QED
    BY <1>a, <1>c, <2>1, <2>2, SelectRes
<1>7. CASE SelectNone
  <2>1. PICK d \in Blocks \cup {NoBlock} :
           IsDirtiest(d) /\ (Aggressive => d = NoBlock) /\ gc_dirtiest' = d
    BY <1>7 DEF SelectNone
  <2>2. /\ EndGc /\ gc_block = NoBlock
        /\ UNCHANGED <<n_free_chunks, n_erased_blocks, alloc_block, alloc_page,
                       pages_in_use, soft_del_pages, gc_block>>
    BY <1>7 DEF SelectNone, Searching
  <2>3. \A x \in known : x \in Blocks /\ Partly(x)
    BY <1>b, <1>d, <2>1
  <2>4. Writable > Kept
    <3>1. CASE Aggressive
      <4>1. Candidates = {}
        BY <2>1, <3>1 DEF IsDirtiest
      <4>2. PartlyUsed = {}
        BY <1>a, <4>1, NothingFit
      <4>3. n_free_chunks >= Kept + ChunksPerBlock
        BY <1>a, ResTypes DEF ResInv, RoomInv, Pending
      <4>. QED
        BY <1>a, <2>2, <4>2, <4>3, SearchFindsRoom
    <3>2. CASE ~Aggressive
      BY <3>2, RoomTypes, NotAggressive, ResTypes DEF Writable
    <3>. QED
      BY <3>1, <3>2
  <2>. QED
    BY <1>a, <2>2, <2>3, <2>4, EndRes DEF SameUse
<1>. QED
  BY <1>1, <1>2, <1>3, <1>4, <1>5, <1>6, <1>7

-----------------------------------------------------------------------------
\* A block whose bits are gone counts none, and the other way round.
LEMMA CountsBits ==
  ASSUME IInv, NEW b \in Blocks
  PROVE  pages_in_use[b] > 0 <=> \E c \in chunk_bits : c[1] = b
<1>1. pages_in_use[b] = Cardinality(ChunksOf(b, chunk_bits))
  BY DEF IInv, PageCountsExact
<1>2. /\ IsFiniteSet(ChunksOf(b, chunk_bits))
      /\ Cardinality(ChunksOf(b, chunk_bits)) \in Nat
  BY FiniteChunks DEF ChunksOf, IInv, TypeOK, BlocksTypeOK
<1>3. Cardinality(ChunksOf(b, chunk_bits)) = 0 <=> ChunksOf(b, chunk_bits) = {}
  BY <1>2, FS_EmptySet
<1>4. ChunksOf(b, chunk_bits) = {} <=> ~ \E c \in chunk_bits : c[1] = b
  BY DEF ChunksOf
<1>. QED
  BY <1>1, <1>2, <1>3, <1>4

\* The collection of a block begins.
LEMMA BeginsRes ==
  ASSUME Calm, IInv, CalmInv, ResInv, GcBlockStart
  PROVE  ResInv'
<1>. /\ ChunksPerBlock \in Nat /\ ChunksPerBlock >= 2 /\ Kept \in Nat
     /\ Writable \in Int /\ n_free_chunks \in Int /\ gc_chunk \in Nat
     /\ pages_in_use \in [Blocks -> Int] /\ NoBlock \notin Blocks
  BY ResTypes DEF IInv, TypeOK, BlocksTypeOK
<1>1. PICK b \in Blocks : b = gc_block
  BY ResTypes DEF GcBlockStart, IInv, CallInv
<1>2. /\ pc = "gcblk"
      /\ UNCHANGED <<n_erased_blocks, alloc_block, alloc_page, soft_del_pages, gc,
                     oldest_dirty, blocks_in_checkpt>>
  BY DEF GcBlockStart
<1>3. Cardinality({}) = 0
  BY FS_EmptySet
<1>4. n_free_chunks' = n_free_chunks /\ pages_in_use' = pages_in_use
  <2>1. /\ n_free_chunks' = n_free_chunks + 0
        /\ pages_in_use' = [pages_in_use EXCEPT ![b] = @ - 0]
    BY <1>1, <1>3 DEF GcBlockStart, CalmInv
  <2>. QED
    BY <2>1
<1>5. \/ /\ pc' = "dirty" /\ call' = call
         /\ del' = [chunk |-> <<b, 0>>, ret |-> "collected"]
         /\ \A c \in chunk_bits : c[1] # b
      \/ /\ pc' = "collect" /\ del' = del
         /\ call' = [call EXCEPT
              !.ok = TRUE, !.copies = IF Aggressive THEN ChunksPerBlock ELSE MaxCopies]
         /\ \E c \in chunk_bits : c[1] = b
  BY <1>1, <1>2 DEF GcBlockStart, CalmInv
<1>6. ~call.ingc /\ ~InGc /\ Pending = 0
  BY <1>2 DEF IInv, CallInv, Pending
<1>7. /\ Writable' = Writable /\ Pending' = 0
      /\ UNCHANGED <<n_free_chunks, n_erased_blocks, pages_in_use, soft_del_pages,
                     gc_block, gc_chunk, gc_dirtiest, oldest_dirty>>
  <2>1. Writable' = Writable
    BY <1>2, <1>4, SameRoom DEF SameUse
  <2>. QED
    BY <1>2, <1>4, <1>5, <2>1 DEF Pending
<1>8. /\ Writable >= Kept
      /\ ~Aggressive => Writable >= Kept + ChunksPerBlock + ChunksPerBlock
  <2>1. Room \in Nat /\ ErasedChunks \in Int
    BY RoomTypes
  <2>. QED
    BY <1>2, <1>6, <2>1, NotAggressive DEF ResInv, SpaceInv, Writable
<1>9. Aggressive => UsedPages(b) < ChunksPerBlock
  BY <1>1, <1>2, <1>6 DEF ResInv, PartlyInv, Partly, Relieved
<1>10. UsedPages(b) \in 0 .. ChunksPerBlock
       /\ (pages_in_use[b] = 0 => UsedPages(b) = 0)
  <2>1. soft_del_pages[b] \in Nat
    <3>1. IsFiniteSet(ChunksOf(b, soft)) /\ Cardinality(ChunksOf(b, soft)) \in Nat
      BY FiniteChunks DEF ChunksOf, IInv, TypeOK, ClientTypeOK
    <3>. QED
      BY <3>1 DEF IInv, PageCountsExact
  <2>. QED
    BY <2>1, ResTypes DEF UsedPages
<1>11. UsedPages(gc_block)' = UsedPages(b)
  BY <1>1, <1>7 DEF UsedPages
<1>12. RoomInv'
  BY <1>5, <1>6, <1>7 DEF ResInv, RoomInv
<1>13. CASE pc' = "dirty"
  <2>1. call' = call /\ del'.chunk[1] = b /\ del'.ret = "collected"
    BY <1>5, <1>13
  <2>2. pages_in_use[b] = 0
    BY <1>5, <1>13, CountsBits, ResTypes
  <2>3. ShapeInv'
    BY <1>1, <1>6, <1>7, <1>13, <2>1 DEF ResInv, ShapeInv
  <2>4. PartlyInv'
    <3>1. UsedPages(b) < ChunksPerBlock
      BY <1>10, <2>2
    <3>2. \A x \in {gc_dirtiest, oldest_dirty.block} \ {NoBlock} : Partly(x)
      BY <1>2 DEF ResInv, PartlyInv
    <3>. QED
      BY <1>1, <1>7, <3>1, <3>2 DEF PartlyInv, Partly, UsedPages
  <2>5. SpaceInv'
    <3>1. UsedPages(gc_block)' = 0
      BY <1>10, <1>11, <2>2
    <3>. QED
      BY <1>1, <1>6, <1>7, <1>8, <1>13, <2>1, <3>1 DEF SpaceInv
  <2>. QED
    BY <1>12, <2>3, <2>4, <2>5 DEF ResInv
<1>14. CASE pc' = "collect"
  <2>1. /\ call'.ok /\ call'.ingc = call.ingc /\ del' = del
        /\ call'.copies = IF Aggressive THEN ChunksPerBlock ELSE MaxCopies
    BY <1>5, <1>14, CallTypes
  <2>2. pages_in_use[b] > 0
    BY <1>5, <1>14, CountsBits
  <2>3. ShapeInv'
    BY <1>1, <1>6, <1>7, <1>14, <2>1, <2>2 DEF ShapeInv
  <2>4. PartlyInv'
    <3>1. Relieved'
      BY <1>14, <2>1, BoundsAssumption DEF Relieved
    <3>2. \A x \in {gc_dirtiest, oldest_dirty.block} \ {NoBlock} : Partly(x)
      BY <1>2 DEF ResInv, PartlyInv
    <3>. QED
      BY <1>7, <3>1, <3>2 DEF PartlyInv, Partly, UsedPages
  <2>5. SpaceInv'
    <3>1. Writable + ChunksPerBlock > UsedPages(b) + Kept
      BY <1>8, <1>9, <1>10
    <3>2. call'.copies + gc_chunk < ChunksPerBlock => Writable > UsedPages(b) + Kept
      BY <1>8, <1>10, <2>1
    <3>. QED
      BY <1>1, <1>6, <1>7, <1>11, <1>14, <2>1, <3>1, <3>2, <1>10 DEF SpaceInv
  <2>. QED
    BY <1>12, <2>3, <2>4, <2>5 DEF ResInv
<1>. QED
  BY <1>5, <1>13, <1>14

\* The next chunk of the block is dropped ...
LEMMA DropRes ==
  ASSUME IInv, ResInv, CollectSoft \/ CollectOrphan
  PROVE  ResInv'
<1>. /\ ChunksPerBlock \in Nat /\ Kept \in Nat
     /\ Writable \in Int /\ n_free_chunks \in Int /\ gc_chunk \in Nat
     /\ NoBlock \notin Blocks
  BY ResTypes
<1>. pages_in_use \in [Blocks -> Int] /\ soft_del_pages \in [Blocks -> Int]
  BY DEF IInv, TypeOK, BlocksTypeOK, ClientTypeOK
<1>1. PICK b \in Blocks : b = gc_block
  BY ResTypes DEF CollectSoft, CollectOrphan, CollectNext, CollectLoops
<1>2. PICK p \in Pages : CollectNext(p) /\ CallDel(<<gc_block, p>>, "collect")
  BY DEF CollectSoft, CollectOrphan
<1>3. /\ pc = "collect" /\ pc' = "del" /\ del'.chunk[1] = b /\ del'.ret = "collect"
      /\ call.copies > 0 /\ gc_chunk' > gc_chunk /\ gc_chunk' \in Nat
  BY <1>1, <1>2, CallFields DEF CollectNext, CollectLoops, LeftToCollect, Pages
<1>4. /\ call'.ok = call.ok /\ call'.ingc = call.ingc /\ call'.copies = call.copies - 1
      /\ call.copies \in Nat
  BY CallTypes DEF CollectSoft, CollectOrphan
<1>5. /\ UNCHANGED <<n_erased_blocks, alloc_block, alloc_page, pages_in_use,
                     gc_block, gc_dirtiest, oldest_dirty>>
      /\ n_free_chunks' \in {n_free_chunks, n_free_chunks - 1}
      /\ \/ soft_del_pages' = soft_del_pages
         \/ soft_del_pages' = [soft_del_pages EXCEPT ![b] = @ - 1]
  BY <1>1 DEF CollectSoft, CollectOrphan, FreeBeforeSoftDel, SoftDelPagesLess
<1>6. Writable' = Writable /\ Pending = 0 /\ Pending' = 1
  BY <1>3, <1>5, SameRoom DEF SameUse, Pending
<1>7. /\ \A x \in Blocks \ {b} : UsedPages(x)' = UsedPages(x)
      /\ UsedPages(b)' \in {UsedPages(b), UsedPages(b) + 1}
      /\ UsedPages(b) \in Int
  <2>1. \A x \in Blocks : UsedPages(x)' = pages_in_use[x] - soft_del_pages'[x]
    BY <1>5 DEF UsedPages
  <2>2. \A x \in Blocks \ {b} : soft_del_pages'[x] = soft_del_pages[x]
    BY <1>5
  <2>3. soft_del_pages'[b] \in {soft_del_pages[b], soft_del_pages[b] - 1}
    BY <1>5
  <2>4. UsedPages(b)' = pages_in_use[b] - soft_del_pages'[b]
    BY <2>1
  <2>. QED
    BY <2>1, <2>2, <2>3, <2>4 DEF UsedPages
<1>8. UsedPages(gc_block)' = UsedPages(b)'
  BY <1>1, <1>5 DEF UsedPages
<1>9. ~call.ingc
  BY <1>3 DEF IInv, CallInv
<1>10. RoomInv'
  <2>1. n_free_chunks' + Pending' >= Kept + ChunksPerBlock
    <3>1. n_free_chunks + 0 >= Kept + ChunksPerBlock
      BY <1>6 DEF ResInv, RoomInv
    <3>2. n_free_chunks' = n_free_chunks \/ n_free_chunks' = n_free_chunks - 1
      BY <1>5
    <3>. HIDE DEF Kept
    <3>. QED
      BY <1>6, <3>1, <3>2, ResTypes
  <2>. QED
    BY <1>3, <2>1 DEF RoomInv
<1>11. ShapeInv'
  BY <1>1, <1>3, <1>4, <1>5, <1>9 DEF ResInv, ShapeInv
<1>12. PartlyInv'
  <2>1. \A x \in {gc_dirtiest, oldest_dirty.block} \ {NoBlock} : x \in Blocks /\ Partly(x)
    BY <1>3, ResTypes DEF ResInv, PartlyInv
  <2>2. Relieved'
    BY <1>3 DEF Relieved
  <2>3. \A x \in {gc_dirtiest, oldest_dirty.block} \ {NoBlock} : Partly(x)' \/ x = b
    BY <1>7, <2>1 DEF Partly
  <2>. QED
    BY <1>3, <1>5, <2>2, <2>3 DEF PartlyInv
<1>13. SpaceInv'
  <2>1. /\ Writable + ChunksPerBlock > UsedPages(b) + Kept
        /\ call.copies + gc_chunk < ChunksPerBlock => Writable > UsedPages(b) + Kept
    BY <1>1, <1>3, <1>6 DEF ResInv, SpaceInv
  <2>2. /\ Writable + 1 + ChunksPerBlock > UsedPages(b)' + Kept
        /\ call'.copies + gc_chunk' < ChunksPerBlock => Writable + 1 > UsedPages(b)' + Kept
    <3>1. /\ UsedPages(b)' \in Int /\ UsedPages(b)' <= UsedPages(b) + 1
          /\ UsedPages(b) \in Int
      BY <1>7
    <3>2. call.copies + gc_chunk <= call'.copies + gc_chunk'
      BY <1>3, <1>4
    <3>3. call.copies \in Int /\ call'.copies \in Int
      BY <1>4
    <3>. HIDE DEF Kept, UsedPages, Writable
    <3>4. Writable + 1 + ChunksPerBlock > UsedPages(b)' + Kept
      BY <2>1, <3>1
    <3>5. CASE call'.copies + gc_chunk' < ChunksPerBlock
      <4>1. call.copies + gc_chunk < ChunksPerBlock
        BY <1>3, <3>2, <3>3, <3>5
      <4>2. Writable > UsedPages(b) + Kept
        BY <2>1, <4>1
      <4>3. Writable + 1 > UsedPages(b)' + Kept
        BY <3>1, <4>2
      <4>. QED
        BY <3>4, <4>3
    <3>. QED
      BY <3>4, <3>5
  <2>. QED
    BY <1>1, <1>3, <1>5, <1>6, <1>8, <2>2 DEF SpaceInv
<1>. QED
  BY <1>10, <1>11, <1>12, <1>13 DEF ResInv

\* ... or copied.
LEMMA CopyRes ==
  ASSUME IInv, ResInv, CollectCopy
  PROVE  ResInv'
<1>. /\ ChunksPerBlock \in Nat /\ Kept \in Nat
     /\ Writable \in Int /\ n_free_chunks \in Int /\ gc_chunk \in Nat
     /\ NoBlock \notin Blocks
  BY ResTypes
<1>1. PICK b \in Blocks : b = gc_block
  BY ResTypes DEF CollectCopy, CollectNext, CollectLoops
<1>2. PICK p \in Pages :
         /\ CollectNext(p)
         /\ call' = [call EXCEPT !.copies = @ - 1, !.ingc = TRUE,
                                 !.reserve = TRUE, !.old = <<gc_block, p>>]
  BY DEF CollectCopy
<1>3. /\ pc = "collect" /\ pc' = "write"
      /\ call.copies > 0 /\ gc_chunk' > gc_chunk /\ gc_chunk' \in Nat
      /\ UNCHANGED <<n_free_chunks, n_erased_blocks, alloc_block, alloc_page,
                     pages_in_use, soft_del_pages, gc_block, gc_dirtiest,
                     oldest_dirty, del>>
  BY <1>2 DEF CollectCopy, CollectNext, CollectLoops, LeftToCollect, Pages
<1>4. /\ call'.ok = call.ok /\ call'.ingc /\ call'.copies = call.copies - 1
      /\ call'.old[1] = b /\ call.copies \in Nat
  BY <1>1, <1>2, CallTypes
<1>5. Writable' = Writable /\ Pending = 0 /\ Pending' = 0
  BY <1>3, SameRoom DEF SameUse, Pending
<1>6. UsedPages(gc_block)' = UsedPages(b) /\ UsedPages(b) \in Int
  BY <1>1, <1>3, ResTypes DEF UsedPages
<1>7. RoomInv'
  <2>1. call'.old # NoChunk
    BY <1>4 DEF NoChunk
  <2>. QED
    BY <1>3, <1>5, <2>1 DEF ResInv, RoomInv
<1>8. ShapeInv'
  BY <1>1, <1>3, <1>4 DEF ResInv, ShapeInv
<1>9. PartlyInv'
  <2>1. \A x \in {gc_dirtiest, oldest_dirty.block} \ {NoBlock} : Partly(x)
    BY <1>3 DEF ResInv, PartlyInv
  <2>2. Relieved'
    BY <1>3, <1>4 DEF Relieved
  <2>. QED
    BY <1>3, <2>1, <2>2 DEF PartlyInv, Partly, UsedPages
<1>10. SpaceInv'
  <2>1. /\ Writable + ChunksPerBlock > UsedPages(b) + Kept
        /\ call.copies + gc_chunk < ChunksPerBlock => Writable > UsedPages(b) + Kept
    BY <1>1, <1>3, <1>5 DEF ResInv, SpaceInv
  <2>2. call'.copies + gc_chunk' < ChunksPerBlock => Writable > UsedPages(b) + Kept
    BY <1>3, <1>4, <1>6, <2>1
  <2>. QED
    BY <1>1, <1>3, <1>4, <1>5, <1>6, <2>1, <2>2 DEF SpaceInv
<1>. QED
  BY <1>7, <1>8, <1>9, <1>10 DEF ResInv

\* The loop ends early: the block was partly used, or space was not short.
LEMMA EndsRes ==
  ASSUME IInv, ResInv, CursorInv, CollectEnd
  PROVE  ResInv'
<1>. /\ ChunksPerBlock \in Nat /\ ChunksPerBlock >= 2 /\ Kept \in Nat
     /\ Writable \in Int /\ n_free_chunks \in Int /\ gc_chunk \in 0 .. ChunksPerBlock
     /\ NoBlock \notin Blocks
  BY ResTypes
<1>1. /\ pc = "collect" /\ pc' = "collected"
      /\ UNCHANGED <<n_free_chunks, n_erased_blocks, alloc_block, alloc_page,
                     pages_in_use, soft_del_pages, gc_block, gc_dirtiest,
                     oldest_dirty, call, del>>
      /\ CollectLoops => LeftToCollect = {}
  BY DEF CollectEnd
<1>2. Writable' = Writable /\ Pending = 0 /\ Pending' = 0 /\ ~call.ingc
  BY <1>1, SameRoom DEF SameUse, Pending, IInv, CallInv
<1>3. ASSUME gc_block # NoBlock
      PROVE  call.copies = 0 /\ gc_chunk < ChunksPerBlock
  <2>1. gc_block \in Blocks
    BY <1>3, ResTypes
  <2>2. PICK c \in chunk_bits : c[1] = gc_block
    BY <1>1, <1>3, <2>1, CountsBits DEF ResInv, ShapeInv
  <2>3. c[2] \in Pages /\ c = <<gc_block, c[2]>>
    BY <2>2 DEF IInv, TypeOK, BlocksTypeOK, Chunks
  <2>4. ~(c[2] < gc_chunk)
    BY <1>1, <1>3, <2>2, <2>3, NothingMoving DEF CursorInv
  <2>5. c[2] \in LeftToCollect
    BY <2>2, <2>3, <2>4 DEF LeftToCollect, Pages
  <2>6. ~CollectLoops
    BY <1>1, <2>5
  <2>7. call.copies \in Nat /\ ~(call.copies > 0)
    BY <1>1, <1>3, <2>6, CallTypes DEF CollectLoops, ResInv, ShapeInv
  <2>. QED
    BY <2>3, <2>4, <2>7 DEF Pages
<1>4. RoomInv' /\ ShapeInv'
  BY <1>1, <1>2 DEF ResInv, RoomInv, Pending, ShapeInv
<1>5. PartlyInv'
  <2>1. gc_block # NoBlock => Partly(gc_block)
    BY <1>1, <1>2, <1>3 DEF ResInv, PartlyInv, Relieved
  <2>2. \A x \in {gc_dirtiest, oldest_dirty.block} \ {NoBlock} : Partly(x)
    BY <1>1 DEF ResInv, PartlyInv
  <2>. QED
    BY <1>1, <2>1, <2>2 DEF PartlyInv, Partly, UsedPages
<1>6. SpaceInv'
  <2>1. CASE gc_block # NoBlock
    <3>1. PICK b \in Blocks : b = gc_block
      BY <2>1, ResTypes
    <3>2. UsedPages(gc_block)' = UsedPages(b) /\ UsedPages(b) \in Int
      BY <1>1, <3>1, ResTypes DEF UsedPages
    <3>3. Writable > UsedPages(b) + Kept
      BY <1>1, <1>2, <1>3, <2>1, <3>1 DEF ResInv, SpaceInv
    <3>. QED
      BY <1>1, <1>2, <2>1, <3>2, <3>3 DEF SpaceInv
  <2>2. CASE gc_block = NoBlock
    BY <1>1, <1>2, <2>2 DEF ResInv, SpaceInv
  <2>. QED
    BY <2>1, <2>2
<1>. QED
  BY <1>4, <1>5, <1>6 DEF ResInv

\* The client begins a write when the collection is over.
LEMMA StartRes ==
  ASSUME IInv, ResInv, StartStep
  PROVE  ResInv'
<1>1. PICK old \in Replaced, reserve \in BOOLEAN, shrink \in BOOLEAN :
        StartWrite(old, reserve, shrink) /\ (old = NoChunk => ~reserve)
  <2>1. CASE StartData
    BY <2>1 DEF StartData
  <2>2. CASE StartHeader
    <3>1. PICK old \in Replaced : StartWrite(old, old # NoChunk, FALSE)
      BY <2>2 DEF StartHeader
    <3>. QED
      BY <3>1
  <2>3. CASE StartShrink
    <3>1. PICK old \in live : StartWrite(old, TRUE, TRUE)
      BY <2>3 DEF StartShrink
    <3>2. old # NoChunk /\ old \in Replaced
      BY DEF IInv, TypeOK, ClientTypeOK, Chunks, NoChunk, Replaced
    <3>. QED
      BY <3>1, <3>2
  <2>. QED
    BY <2>1, <2>2, <2>3 DEF StartStep
<1>2. /\ pc = "choose" /\ pc' = "write"
      /\ call'.ok /\ ~call'.ingc /\ call'.old = old /\ call'.reserve = reserve
      /\ UNCHANGED <<n_free_chunks, n_erased_blocks, alloc_block, alloc_page,
                     pages_in_use, soft_del_pages, gc_block, gc_dirtiest,
                     oldest_dirty, del>>
  BY <1>1 DEF StartWrite, NoCall
<1>3. Writable' = Writable
  BY <1>2, SameRoom DEF SameUse
<1>4. ~call.ingc
  BY <1>2 DEF IInv, CallInv
<1>5. RoomInv' /\ ShapeInv'
  BY <1>1, <1>2 DEF ResInv, RoomInv, Pending, ShapeInv
<1>6. PartlyInv'
  BY <1>2, <1>4 DEF ResInv, PartlyInv, Partly, UsedPages, Relieved
<1>7. SpaceInv'
  BY <1>2, <1>3, ResTypes DEF ResInv, SpaceInv
<1>. QED
  BY <1>5, <1>6, <1>7 DEF ResInv

\* Nothing happens.
LEMMA StutterRes ==
  ASSUME ResInv, UNCHANGED vars
  PROVE  ResInv'
<1>1. UNCHANGED <<call, del, pc, n_free_chunks, n_erased_blocks, alloc_block,
                  alloc_page, pages_in_use, soft_del_pages, gc, oldest_dirty,
                  blocks_in_checkpt>>
  BY DEF vars
<1>2. RoomInv' /\ ShapeInv'
  BY <1>1 DEF ResInv, RoomInv, Pending, ShapeInv
<1>3. PartlyInv'
  BY <1>1 DEF ResInv, PartlyInv, Partly, UsedPages, Relieved, Aggressive,
     CheckptBlocksNeeded
<1>4. SpaceInv'
  BY <1>1 DEF ResInv, SpaceInv, UsedPages, Pending, Writable, Room, ErasedChunks
<1>. QED
  BY <1>2, <1>3, <1>4 DEF ResInv

\* A call begins, or a chunk goes.
LEMMA BeginRes ==
  ASSUME IInv, ResInv, CalmBegin
  PROVE  ResInv'
<1>. /\ ChunksPerBlock \in Nat /\ Kept \in Nat /\ Kept >= ChunksPerBlock
     /\ Writable \in Int /\ n_free_chunks \in Int /\ NoBlock \notin Blocks
     /\ pages_in_use \in [Blocks -> Int] /\ soft_del_pages \in [Blocks -> Int]
  BY ResTypes DEF IInv, TypeOK, BlocksTypeOK, ClientTypeOK
<1>a. pc = "idle"
  BY DEF CalmBegin, BeginWrite, BgGc, BeginCall, DeleteChunk, SoftDelChunk, Rest
<1>b. ~call.ingc /\ ~InGc /\ Pending = 0
  BY <1>a DEF IInv, CallInv, Pending
<1>c. Writable >= Kept
  BY <1>b DEF ResInv, SpaceInv
<1>1. CASE BeginWrite \/ BgGc
  <2>1. /\ pc' = "gc" /\ call'.ok /\ ~call'.ingc
        /\ UNCHANGED <<n_free_chunks, n_erased_blocks, alloc_block, alloc_page,
                       pages_in_use, soft_del_pages, gc_block, gc_dirtiest,
                       oldest_dirty, del>>
    BY <1>1 DEF BeginWrite, BgGc, BeginCall, NoCall
  <2>2. Writable' = Writable
    BY <2>1, SameRoom DEF SameUse
  <2>3. RoomInv' /\ ShapeInv'
    BY <1>a, <2>1 DEF ResInv, RoomInv, Pending, ShapeInv
  <2>4. PartlyInv'
    BY <1>a, <2>1, KnownPartly DEF PartlyInv, Partly, UsedPages
  <2>5. SpaceInv'
    BY <1>c, <2>1, <2>2 DEF SpaceInv
  <2>. QED
    BY <2>3, <2>4, <2>5 DEF ResInv
<1>2. CASE DeleteChunk
  <2>1. /\ pc' = "del" /\ del'.ret = "idle"
        /\ UNCHANGED <<n_free_chunks, n_erased_blocks, alloc_block, alloc_page,
                       pages_in_use, soft_del_pages, gc_block, gc_dirtiest,
                       oldest_dirty, call>>
    BY <1>2, CallFields DEF DeleteChunk
  <2>2. Writable' = Writable /\ Pending' = 1
    BY <2>1, SameRoom DEF SameUse, Pending
  <2>3. RoomInv' /\ ShapeInv'
    BY <1>b, <2>1, <2>2 DEF ResInv, RoomInv, ShapeInv
  <2>4. PartlyInv'
    BY <1>a, <2>1, KnownPartly DEF PartlyInv, Partly, UsedPages
  <2>5. SpaceInv'
    BY <1>b, <1>c, <2>1, <2>2 DEF SpaceInv
  <2>. QED
    BY <2>3, <2>4, <2>5 DEF ResInv
<1>3. CASE SoftDelChunk
  <2>1. PICK c \in live : /\ soft_del_pages' = [soft_del_pages EXCEPT ![c[1]] = @ + 1]
                          /\ oldest_dirty' = OldestUpdated(c[1])
    BY <1>3 DEF SoftDelChunk
  <2>2. c[1] \in Blocks
    BY DEF IInv, TypeOK, ClientTypeOK, Chunks
  <2>3. /\ pc' = "idle" /\ n_free_chunks' = n_free_chunks + 1
        /\ UNCHANGED <<n_erased_blocks, alloc_block, alloc_page, pages_in_use,
                       gc_block, gc_dirtiest, call, del>>
    BY <1>a, <1>3 DEF SoftDelChunk
  <2>4. Writable' = Writable /\ Pending' = 0
    BY <2>3, SameRoom DEF SameUse, Pending
  <2>5. RoomInv' /\ ShapeInv'
    BY <1>a, <1>b, <2>3, <2>4 DEF ResInv, RoomInv, ShapeInv
  <2>6. PartlyInv'
    <3>1. \A x \in Blocks : UsedPages(x)' = pages_in_use[x] - soft_del_pages'[x]
      BY <2>3 DEF UsedPages
    <3>2. \A x \in Blocks : soft_del_pages'[x] \in {soft_del_pages[x], soft_del_pages[x] + 1}
      BY <2>1
    <3>3. soft_del_pages'[c[1]] = soft_del_pages[c[1]] + 1
      BY <2>1, <2>2
    <3>4. \A x \in Blocks : UsedPages(x) = pages_in_use[x] - soft_del_pages[x]
      BY DEF UsedPages
    <3>5. \A x \in Blocks : Partly(x) => Partly(x)'
      BY <3>1, <3>2, <3>4 DEF Partly
    <3>6. PICK y \in Blocks : y = c[1]
      BY <2>2
    <3>7. Partly(y)'
      <4>1. UsedPages(y)' = UsedPages(y) - 1
        BY <3>1, <3>3, <3>4, <3>6
      <4>. QED
        BY <4>1, ResTypes DEF Partly
    <3>8. oldest_dirty'.block \in {oldest_dirty.block, y}
      BY <2>1, <3>6 DEF OldestUpdated
    <3>9. \A x \in {gc_block, gc_dirtiest, oldest_dirty'.block} \ {NoBlock} : Partly(x)'
      BY <1>a, <3>5, <3>7, <3>8, KnownPartly
    <3>. HIDE DEF Partly
    <3>10. gc_block' # NoBlock => Partly(gc_block)'
      <4>1. SUFFICES ASSUME gc_block # NoBlock PROVE Partly(gc_block)'
        BY <2>3
      <4>2. PICK x : x = gc_block
        OBVIOUS
      <4>3. Partly(x)'
        BY <3>9, <4>1, <4>2
      <4>. QED
        BY <2>3, <4>2, <4>3 DEF Partly, UsedPages
    <3>. QED
      BY <2>3, <3>9, <3>10 DEF PartlyInv
  <2>7. SpaceInv'
    BY <1>a, <1>b, <1>c, <2>3, <2>4 DEF SpaceInv
  <2>. QED
    BY <2>5, <2>6, <2>7 DEF ResInv
<1>4. CASE Rest
  <2>1. UNCHANGED vars
    BY <1>4 DEF Rest
  <2>. QED
    BY <2>1, StutterRes
<1>. QED
  BY <1>1, <1>2, <1>3, <1>4 DEF CalmBegin

\* A step in which nothing fails keeps the reserve.
LEMMA ResStep ==
  ASSUME Calm, IInv, FreeChunksExact, ErasedBlocksExact, ErasingInv, CopyInv,
         CursorInv, CalmInv, ShrinkInv, ResInv, [Next]_vars, faults' = 0
  PROVE  ResInv'
<1>1. CASE CalmWrite
  BY <1>1, FindRes, AllocRes, FailsRes, ProgramRes, WrittenRes, FinishRes DEF CalmWrite
<1>2. CASE CalmDel
  BY <1>2, DelRes, DirtyRes, EraseRes DEF CalmDel
<1>3. CASE GcStep
  BY <1>3, SkipRes, SearchRes, BeginsRes, DropRes, CopyRes, EndsRes, SomeRes,
     CleanRes, AllRes DEF GcStep
<1>4. CASE StartStep
  BY <1>4, StartRes
<1>5. CASE CalmBegin \/ UNCHANGED vars
  BY <1>5, BeginRes, StutterRes
<1>. QED
  BY <1>1, <1>2, <1>3, <1>4, <1>5, CalmSteps DEF CalmNext

\* A device starts with all of its good blocks erased.
LEMMA ResInit ==
  ASSUME Calm, Init
  PROVE  CalmInv /\ ShrinkInv /\ ResInv
<1>1. CalmInv /\ ShrinkInv
  BY DEF Calm, Init, CalmInv, ShrinkInv, HasCheckpt, NoCall, NoDel
<1>. DEFINE good == Cardinality(Blocks \ FactoryBad)
<1>2. good \in Nat /\ good >= NReserved
  BY FiniteBlocks DEF Calm
<1>3. good * ChunksPerBlock >= Kept + ChunksPerBlock /\ good * ChunksPerBlock \in Int
  <2>. HIDE DEF good
  <2>. QED
    BY <1>2, Multiples
<1>4. /\ n_free_chunks = good * ChunksPerBlock /\ n_erased_blocks = good
      /\ alloc_block = NoBlock /\ gc_block = NoBlock /\ gc_dirtiest = NoBlock
      /\ oldest_dirty.block = NoBlock /\ pc = "idle" /\ call.ok /\ ~call.ingc
  BY DEF Init, NoCall, NoOldest
<1>. HIDE DEF good
<1>5. Writable >= Kept
  <2>1. Writable = good * ChunksPerBlock + 0
    BY <1>4 DEF Writable, Room, ErasedChunks
  <2>. QED
    BY <1>3, <2>1, Multiples, GeometryAssumption
<1>6. RoomInv
  BY <1>3, <1>4 DEF RoomInv, Pending
<1>7. ShapeInv /\ PartlyInv
  BY <1>4 DEF ShapeInv, PartlyInv
<1>8. SpaceInv
  BY <1>4, <1>5 DEF SpaceInv
<1>. QED
  BY <1>1, <1>6, <1>7, <1>8 DEF ResInv

\* Whoever writes finds a block, a copy of the collector or the client.
LEMMA ResSuffices ==
  ASSUME IInv, ResInv
  PROVE  ReserveAtHand
<1>1. SUFFICES ASSUME pc = "write", alloc_block = NoBlock PROVE n_erased_blocks >= 1
  BY ResTypes DEF ReserveAtHand
<1>2. CASE call.ingc
  BY <1>1, <1>2, CopyFindsRoom
<1>3. CASE ~call.ingc
  <2>1. Writable > Kept
    BY <1>1, <1>3 DEF ResInv, SpaceInv
  <2>2. Writable = n_erased_blocks * ChunksPerBlock + 0
    BY <1>1 DEF Writable, Room, ErasedChunks
  <2>. QED
    BY <2>1, <2>2, ResTypes, Multiples
<1>. QED
  BY <1>2, <1>3

\* All that the reserve rests on.
CalmReserve ==
  /\ CalmInv /\ ShrinkInv /\ ResInv
  /\ PagesInv /\ StreamInv /\ ErasingInv /\ NewInv /\ CopyInv /\ CursorInv

\* It holds of every state of such a device before a failure.
CalmUntilFault == faults = 0 => CalmReserve

LEMMA CalmReserveLasts ==
  ASSUME Calm
  PROVE  Spec => [](IInv /\ CalmUntilFault)
<1>1. Init => CalmReserve
  <2>1. Init => PagesInv /\ StreamInv /\ ErasingInv /\ NewInv /\ CopyInv /\ CursorInv
    BY DEF Init, PagesInv, PagesWrittenOnce, StreamInv, ErasingInv, NewInv, CopyInv,
       CursorInv, NoCall
  <2>. QED
    BY <2>1, ResInit DEF CalmReserve
<1>2. ASSUME IInv, FreeChunksExact, ErasedBlocksExact, CalmReserve, [Next]_vars, faults' = 0
      PROVE  CalmReserve'
  <2>1. SaveFindsRoom /\ ReserveAtHand
    BY <1>2, ResSuffices DEF CalmReserve, CalmInv, SaveFindsRoom
  <2>2. CalmInv' /\ ResInv'
    BY <1>2, CalmStep, ResStep DEF CalmReserve
  <2>5. ShrinkInv'
    BY <1>2, CalmSteps, ShrinkStep DEF CalmReserve
  <2>3. PagesInv' /\ StreamInv'
    BY <1>2, <2>1, OnceStep DEF CalmReserve
  <2>4. ErasingInv' /\ NewInv' /\ CopyInv' /\ CursorInv'
    BY <1>2, <2>1, ErasingStep, NewStep, CopyStep, CursorStep DEF CalmReserve
  <2>. QED
    BY <2>2, <2>3, <2>4, <2>5 DEF CalmReserve
<1>3. Init => CalmUntilFault
  BY <1>1 DEF CalmUntilFault
<1>4. IInv /\ FreeChunksExact /\ ErasedBlocksExact /\ CalmUntilFault /\ [Next]_vars
        => CalmUntilFault'
  BY <1>2, FaultsRemain DEF CalmUntilFault
<1>5. QED
  BY <1>3, <1>4, Invariant, FreeChunksCorrect, ErasedBlocksCorrect, PTL DEF Spec

\* The reserved blocks are enough: on a device that writes no summaries and saves
\* no checkpoint, until its flash fails for the first time, a copy of the
\* collector and a header in place of another find a chunk however the blocks
\* were filled, whatever was deleted, and wherever a collection was left off or a
\* shrink header put one off.
THEOREM ReserveLasts ==
  ASSUME Calm
  PROVE  Spec => []ReserveSuffices
<1>1. IInv /\ CalmUntilFault => ReserveSuffices
  BY ResSuffices DEF CalmUntilFault, CalmReserve, ReserveSuffices
<1>. QED
  BY <1>1, CalmReserveLasts, PTL

\* ... and between calls the chunks of the reserved blocks are free: what may
\* not use the reserve leaves them alone, what may gives a chunk for the one it
\* takes (yaffs_check_alloc_available).
THEOREM ReserveStays ==
  ASSUME Calm
  PROVE  Spec => []ReserveKept
<1>1. IInv /\ CalmUntilFault => ReserveKept
  <2>1. SUFFICES ASSUME IInv, ResInv, pc = "idle"
                 PROVE  n_free_chunks >= NReserved * ChunksPerBlock
    BY DEF CalmUntilFault, CalmReserve, ReserveKept
  <2>2. n_free_chunks + 0 >= Kept + ChunksPerBlock
    BY <2>1 DEF ResInv, RoomInv, Pending
  <2>. QED
    BY <2>1, <2>2, Multiples, ResTypes
<1>. QED
  BY <1>1, CalmReserveLasts, PTL

\* Such a device leaves nothing behind the cursor of a collection that is
\* continued later, as long as its flash does not fail.
THEOREM CalmLeavesNothing ==
  ASSUME Calm
  PROVE  Spec /\ [](faults = 0) => []CollectionLeavesNothing
<1>1. ReserveSuffices /\ faults = 0 => ReserveAtHand
  BY DEF ReserveSuffices
<1>. QED
  BY <1>1, ReserveLasts, NothingLeftBehind, PTL

===============================================================================
