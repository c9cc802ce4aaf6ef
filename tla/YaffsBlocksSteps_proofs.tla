----------------------- MODULE YaffsBlocksSteps_proofs ------------------------
(***************************************************************************)
(* What no step of the block manager does: contradict the checkpoint on    *)
(* the flash, use again a block that is to be retired, program a page      *)
(* twice, lose the oldest dirty block, erase a shrink header before what   *)
(* it made invalid, or end a collection that left live data behind.        *)
(***************************************************************************)
EXTENDS YaffsBlocks_proofs

USE DEF usage, marks, flags, alloc, counts, gc, ckpt, client, flash,
        InDel, InWrite, HasNew, InFinish, InGc, Blocks, NoBlock

\* A complete checkpoint is invalidated before the first chunk is programmed.
InvalidatedInv ==
  pc \in {"program", "summary", "save", "close", "count"} => ~is_checkpointed

\* Blocks to be retired are in use: the mark is set on a block with data.
RetiringInv == \A b \in needs_retiring : b \in Blocks /\ Used(b)

-----------------------------------------------------------------------------
\* Chunks are programmed by a write that invalidated the checkpoint, or by the
\* save of a new one.
LEMMA InvalidatedStep ==
  ASSUME IInv, InvalidatedInv, [Next]_vars
  PROVE  /\ InvalidatedInv'
         /\ is_checkpointed /\ is_checkpointed' => programmed' = programmed
<1>1. del.ret \in {"idle", "skip", "finish", "collect", "collected"}
  BY DEF IInv, TypeOK, CallTypeOK
<1>2. CASE WriteStep
  <2>1. CASE Invalidate \/ ProgramChunk \/ WriteSummary
    BY <2>1 DEF Invalidate, ProgramChunk, WriteSummary, InvalidatedInv
  <2>2. CASE FindAllocBlock \/ AllocChunk \/ WriteFails
    BY <2>2 DEF FindAllocBlock, AllocChunk, WriteFails, InvalidatedInv,
       HasCheckpt, AfterWrite, AfterRefusal
  <2>3. CASE NotErased \/ VerifyOk \/ VerifyFails
    <3>1. /\ pc' \in {"del", "written"}
          /\ UNCHANGED <<programmed, is_checkpointed>>
      BY <2>3 DEF NotErased, VerifyOk, VerifyFails, CallDel
    <3>. QED
      BY <3>1 DEF InvalidatedInv
  <2>4. CASE SkipRestOfBlock \/ Written \/ FinishWrite
    BY <2>4 DEF SkipRestOfBlock, Written, FinishWrite, CallDel, AfterWrite,
       InvalidatedInv
  <2>. QED
    BY <1>2, <2>1, <2>2, <2>3, <2>4 DEF WriteStep
<1>3. CASE DelStep
  BY <1>1, <1>3 DEF DelStep, ChunkDel, BecameDirty, EraseOk, RetireBlock,
     InvalidatedInv, HasCheckpt
<1>4. CASE GcStep
  BY <1>4 DEF GcStep, SkipGc, ResumeGc, RefreshSelect, PrioritisedSelect,
     OldestForPrioritised, DirtiestSelect, OldestSelect, SelectNone,
     GcSelected, GcBlockCalled, GcBlockStart, CollectSoft, CollectOrphan,
     CollectCopy, CollectEnd, CollectedSome, CleanUp, CollectedAll, EndGc,
     NextTry, CallDel, InvalidatedInv
<1>5. CASE SaveStep
  BY <1>5 DEF SaveStep, OpenStream, WriteStream, EndStream, CloseStream,
     CountCheckpt, InvalidatedInv, HasCheckpt
<1>6. CASE StartStep
  BY <1>6 DEF StartStep, StartData, StartHeader, StartShrink, StartWrite,
     InvalidatedInv
<1>7. CASE Begin
  BY <1>7 DEF Begin, BeginWrite, BgGc, BeginCall, DeleteChunk, SoftDelChunk,
     ReadError, SaveCheckpt, CallDel, InvalidatedInv
<1>8. CASE Rest \/ UNCHANGED vars
  BY <1>8 DEF Rest, vars, InvalidatedInv
<1>. QED
  BY <1>2, <1>3, <1>4, <1>5, <1>6, <1>7, <1>8 DEF Next, Step

\* A complete checkpoint describes the flash: yaffs2_checkpt_invalidate comes
\* before every write, erasure and retirement that would contradict it.
THEOREM CheckptSound == Spec => CheckptDescribesFlash
<1>1. Init => InvalidatedInv
  BY DEF Init, InvalidatedInv
<1>2. IInv /\ InvalidatedInv /\ [Next]_vars => InvalidatedInv'
  BY InvalidatedStep
<1>3. IInv /\ InvalidatedInv /\ [Next]_vars =>
        [is_checkpointed /\ is_checkpointed' => programmed' = programmed]_vars
  BY InvalidatedStep
<1>. QED
  BY <1>1, <1>2, <1>3, Invariant, PTL DEF Spec, CheckptDescribesFlash

-----------------------------------------------------------------------------
\* What a step does to a block in use that is to be retired.
Retained(b) ==
  /\ block_state'[b] \in {"ALLOCATING", "EMPTY", "CHECKPOINT"} =>
       block_state'[b] = block_state[b]
  /\ b \in needs_retiring' => block_state'[b] \in {"ALLOCATING", "FULL",
                                                   "COLLECTING", "DIRTY"}

\* A chunk error marks the block of a chunk that is in use.
LEMMA ErrorRetains ==
  ASSUME IInv, RetiringInv, UNCHANGED block_state,
         NEW c \in chunk_bits, NEW w \in BOOLEAN, ChunkError(c[1], w)
  PROVE  RetiringInv' /\ \A b \in needs_retiring : Retained(b)
<1>1. c[1] \in Blocks /\ Used(c[1])
  BY DEF IInv, TypeOK, BlocksTypeOK, Chunks, BitsInv, Used
<1>2. needs_retiring' \subseteq needs_retiring \cup {c[1]}
  BY DEF ChunkError
<1>. QED
  BY <1>1, <1>2 DEF RetiringInv, Used, Retained

\* Nothing changes about the block states and the marks.
LEMMA QuietRetains ==
  ASSUME RetiringInv, UNCHANGED <<block_state, needs_retiring>>
  PROVE  RetiringInv' /\ \A b \in needs_retiring : Retained(b)
BY DEF RetiringInv, Used, Retained

\* The blocks that change their states are not marked, or stay in use.
LEMMA StatesRetain ==
  ASSUME RetiringInv, needs_retiring' \subseteq needs_retiring,
         \A b \in Blocks :
           \/ block_state'[b] = block_state[b]
           \/ block_state'[b] \in {"FULL", "COLLECTING", "DIRTY"}
           \/ block_state[b] \in {"EMPTY", "CHECKPOINT"}
           \/ b \notin needs_retiring
           \/ b \notin needs_retiring' /\ block_state'[b] = "DEAD"
  PROVE  RetiringInv' /\ \A b \in needs_retiring : Retained(b)
BY DEF RetiringInv, Used, Retained

\* A write fills blocks up and takes erased ones.
LEMMA WriteRetains ==
  ASSUME IInv, RetiringInv, WriteStep
  PROVE  RetiringInv' /\ \A b \in needs_retiring : Retained(b)
<1>. block_state \in [Blocks -> BlockStates] /\ RetiringInv
  BY DEF IInv, TypeOK, BlocksTypeOK
<1>1. CASE Invalidate
  <2>1. PICK bad \in SUBSET {b \in Blocks : block_state[b] = "CHECKPOINT"} :
          block_state' = [b \in Blocks |->
            IF b \in {x \in Blocks \ bad : block_state[x] = "CHECKPOINT"}
              THEN "EMPTY"
            ELSE IF b \in bad THEN "DEAD" ELSE block_state[b]]
    BY <1>1 DEF Invalidate
  <2>2. \A b \in Blocks : block_state'[b] = block_state[b]
                            \/ block_state[b] = "CHECKPOINT"
    BY <2>1
  <2>3. UNCHANGED needs_retiring
    BY <1>1 DEF Invalidate
  <2>. QED
    BY <2>2, <2>3, StatesRetain
<1>2. CASE FindAllocBlock
  <2>1. \E b \in Empty : block_state' = [block_state EXCEPT ![b] = "ALLOCATING"]
    BY <1>2 DEF FindAllocBlock
  <2>2. \A b \in Blocks : block_state'[b] = block_state[b]
                            \/ block_state[b] = "EMPTY"
    BY <2>1 DEF Empty
  <2>3. UNCHANGED needs_retiring
    BY <1>2 DEF FindAllocBlock
  <2>. QED
    BY <2>2, <2>3, StatesRetain
<1>3. CASE AllocChunk \/ WriteSummary \/ SkipRestOfBlock
  <2>1. \A b \in Blocks : block_state'[b] \in {block_state[b], "FULL"}
    BY <1>3 DEF AllocChunk, WriteSummary, SkipRestOfBlock
  <2>2. UNCHANGED needs_retiring
    BY <1>3 DEF AllocChunk, WriteSummary, SkipRestOfBlock
  <2>. QED
    BY <2>1, <2>2, StatesRetain
<1>4. CASE NotErased \/ VerifyOk \/ VerifyFails
  <2>1. call.new \in chunk_bits /\ UNCHANGED block_state
    BY <1>4 DEF IInv, BitsInv, NotErased, VerifyOk, VerifyFails
  <2>2. UNCHANGED marks \/ \E w \in BOOLEAN : ChunkError(call.new[1], w)
    BY <1>4 DEF NotErased, VerifyOk, VerifyFails
  <2>. QED
    BY <2>1, <2>2, ErrorRetains, QuietRetains
<1>5. CASE WriteFails \/ ProgramChunk \/ Written \/ FinishWrite
  <2>1. UNCHANGED <<block_state, needs_retiring>>
    BY <1>5 DEF WriteFails, ProgramChunk, Written, FinishWrite
  <2>. QED
    BY <2>1, QuietRetains
<1>. QED
  BY <1>1, <1>2, <1>3, <1>4, <1>5 DEF WriteStep

\* Of the blocks erased, those to be retired are retired.
LEMMA DelRetains ==
  ASSUME IInv, RetiringInv, DelStep
  PROVE  RetiringInv' /\ \A b \in needs_retiring : Retained(b)
<1>. block_state \in [Blocks -> BlockStates] /\ RetiringInv
  BY DEF IInv, TypeOK, BlocksTypeOK
<1>1. CASE ChunkDel
  <2>1. UNCHANGED <<block_state, needs_retiring>>
    BY <1>1 DEF ChunkDel
  <2>. QED
    BY <2>1, QuietRetains
<1>2. CASE BecameDirty
  <2>1. \A b \in Blocks : block_state'[b] \in {block_state[b], "DIRTY"}
    BY <1>2 DEF BecameDirty
  <2>2. UNCHANGED needs_retiring
    BY <1>2 DEF BecameDirty
  <2>. QED
    BY <2>1, <2>2, StatesRetain
<1>3. CASE EraseOk
  <2>1. \A b \in Blocks : block_state'[b] = block_state[b]
                            \/ b \notin needs_retiring
    BY <1>3 DEF EraseOk, Healthy
  <2>2. UNCHANGED needs_retiring
    BY <1>3 DEF EraseOk
  <2>. QED
    BY <2>1, <2>2, StatesRetain
<1>4. CASE RetireBlock
  <2>1. needs_retiring' = needs_retiring \ {del.chunk[1]}
    BY <1>4 DEF RetireBlock
  <2>2. block_state' = [block_state EXCEPT ![del.chunk[1]] = "DEAD"]
    BY <1>4 DEF RetireBlock
  <2>3. ASSUME NEW b \in Blocks
        PROVE  \/ block_state'[b] = block_state[b]
               \/ b \notin needs_retiring' /\ block_state'[b] = "DEAD"
    <3>1. CASE b = del.chunk[1]
      BY <2>1, <2>2, <3>1
    <3>2. CASE b # del.chunk[1]
      BY <2>2, <3>2
    <3>. QED
      BY <3>1, <3>2
  <2>4. needs_retiring' \subseteq needs_retiring
    BY <2>1
  <2>. QED
    BY <2>3, <2>4, StatesRetain
<1>. QED
  BY <1>1, <1>2, <1>3, <1>4 DEF DelStep

\* A collection leaves its block in use until it is deleted from.
LEMMA GcRetains ==
  ASSUME IInv, RetiringInv, GcStep
  PROVE  RetiringInv' /\ \A b \in needs_retiring : Retained(b)
<1>. block_state \in [Blocks -> BlockStates] /\ RetiringInv
  BY DEF IInv, TypeOK, BlocksTypeOK
<1>1. CASE GcBlockStart \/ CollectedSome
  <2>1. \A b \in Blocks : block_state'[b] \in {block_state[b], "FULL", "COLLECTING"}
    BY <1>1 DEF GcBlockStart, CollectedSome
  <2>2. UNCHANGED needs_retiring
    BY <1>1 DEF GcBlockStart, CollectedSome
  <2>. QED
    BY <2>1, <2>2, StatesRetain
<1>2. CASE ~(GcBlockStart \/ CollectedSome)
  <2>1. UNCHANGED <<block_state, needs_retiring>>
    BY <1>2 DEF GcStep, SkipGc, ResumeGc, RefreshSelect, PrioritisedSelect,
       OldestForPrioritised, DirtiestSelect, OldestSelect, SelectNone,
       NoPrioritised, GcSelected, GcBlockCalled, CollectSoft, CollectOrphan,
       CollectCopy, CollectEnd, CleanUp, CollectedAll
  <2>. QED
    BY <2>1, QuietRetains
<1>. QED
  BY <1>1, <1>2

\* A checkpoint takes erased blocks only.
LEMMA SaveRetains ==
  ASSUME IInv, RetiringInv, SaveStep
  PROVE  RetiringInv' /\ \A b \in needs_retiring : Retained(b)
<1>1. UNCHANGED needs_retiring
  BY DEF SaveStep, OpenStream, WriteStream, EndStream, CloseStream, CountCheckpt
<1>2. \A b \in Blocks : block_state'[b] = block_state[b]
                          \/ block_state[b] = "EMPTY"
  <2>1. CASE FlushOk \/ FlushFails
    BY <2>1, FlushFits
  <2>. QED
    BY <2>1 DEF SaveStep, OpenStream, WriteStream, EndStream, CloseStream,
       CountCheckpt
<1>. QED
  BY <1>1, <1>2, StatesRetain

\* A block once marked for retirement stays in use until it is retired.
LEMMA RetiringStep ==
  ASSUME IInv, RetiringInv, [Next]_vars
  PROVE  RetiringInv' /\ \A b \in needs_retiring : Retained(b)
<1>1. CASE ReadError
  <2>1. PICK c \in live : ChunkError(c[1], FALSE)
    BY <1>1 DEF ReadError
  <2>2. c \in chunk_bits /\ UNCHANGED block_state
    BY <1>1 DEF IInv, BitsInv, ReadError
  <2>. QED
    BY <2>1, <2>2, ErrorRetains
<1>2. CASE StartStep \/ (Begin /\ ~ReadError) \/ Rest \/ UNCHANGED vars
  <2>1. UNCHANGED <<block_state, needs_retiring>>
    BY <1>2 DEF StartStep, StartData, StartHeader, StartShrink, StartWrite,
       Begin, BeginWrite, BgGc, BeginCall, DeleteChunk, SoftDelChunk,
       SaveCheckpt, Rest, vars
  <2>. QED
    BY <2>1, QuietRetains
<1>. QED
  BY <1>1, <1>2, WriteRetains, DelRetains, GcRetains, SaveRetains
  DEF Next, Step, Begin

\* A block marked for retirement by a write error or too many strikes is never
\* erased for reuse, allocated or given to a checkpoint: it fills up at most
\* and is retired when it is dirty.
THEOREM RetiringSafe == Spec => RetiringNotReused
<1>1. Init => RetiringInv
  BY DEF Init, RetiringInv
<1>2. IInv /\ RetiringInv /\ [Next]_vars => RetiringInv'
  BY RetiringStep
<1>3. IInv /\ RetiringInv /\ [Next]_vars =>
        [\A b \in needs_retiring :
           block_state'[b] \in {"ALLOCATING", "EMPTY", "CHECKPOINT"} =>
             block_state[b] = block_state'[b]]_vars
  BY RetiringStep DEF Retained
<1>. QED
  BY <1>1, <1>2, <1>3, Invariant, PTL DEF Spec, RetiringNotReused

-----------------------------------------------------------------------------
(***************************************************************************)
(* No page is programmed twice, as long as a save that is to write a       *)
(* stream has room for its first block: yaffs_checkpoint_close flushes the *)
(* buffer also of a stream that could not be opened, at the cursor of the  *)
(* last one.                                                               *)
(***************************************************************************)
SaveFindsRoom ==
  pc = "open" /\ ~HasCheckpt /\ CheckptRequired => n_erased_blocks > NReserved

\* A client that asks for no save meets the condition.
LEMMA NoSavesFindRoom ==
  ASSUME "save" \notin ClientOps
  PROVE  Spec => []SaveFindsRoom
<1>. DEFINE Closed == pc # "open"
<1>1. Init => Closed
  BY DEF Init
<1>2. IInv /\ Closed /\ [Next]_vars => Closed'
  <2>1. ASSUME IInv, pc # "open", WriteStep
        PROVE  pc' # "open"
    BY <2>1 DEF WriteStep, Invalidate, FindAllocBlock, AllocChunk, WriteFails,
       NotErased, ProgramChunk, WriteSummary, VerifyOk, VerifyFails,
       SkipRestOfBlock, Written, FinishWrite, CallDel, AfterWrite, AfterRefusal
  <2>2. ASSUME IInv, pc # "open", DelStep
        PROVE  pc' # "open"
    BY <2>2 DEF DelStep, ChunkDel, BecameDirty, EraseOk, RetireBlock, IInv,
       TypeOK, CallTypeOK
  <2>3. ASSUME IInv, pc # "open", GcStep
        PROVE  pc' # "open"
    <3>1. CASE GcBlockStart
      BY <2>3, <3>1 DEF GcBlockStart
    <3>. QED
      BY <2>3, <3>1 DEF GcStep, SkipGc, ResumeGc, RefreshSelect,
         PrioritisedSelect, OldestForPrioritised, DirtiestSelect, OldestSelect,
         SelectNone, GcSelected, GcBlockCalled, CollectSoft, CollectOrphan,
         CollectCopy, CollectEnd, CollectedSome, CleanUp, CollectedAll, EndGc,
         NextTry, CallDel
  <2>4. ASSUME pc # "open", SaveStep \/ StartStep \/ Begin
        PROVE  pc' # "open"
    BY <2>4 DEF SaveStep, OpenStream, WriteStream, EndStream, CloseStream,
       CountCheckpt, StartStep, StartData, StartHeader, StartShrink, StartWrite,
       Begin, BeginWrite, BgGc, BeginCall, DeleteChunk, SoftDelChunk,
       ReadError, SaveCheckpt, CallDel
  <2>. QED
    BY <2>1, <2>2, <2>3, <2>4 DEF Next, Step, Rest, vars
<1>3. Closed => SaveFindsRoom
  BY DEF SaveFindsRoom
<1>. HIDE DEF Closed
<1>. QED
  BY <1>1, <1>2, <1>3, Invariant, PTL DEF Spec

\* The block being filled is blank from its cursor on.
PagesInv ==
  /\ PagesWrittenOnce
  /\ \A c \in programmed : c[1] = alloc_block => c[2] < alloc_page

\* The block of an open stream is the checkpoint's, and blank from the stream's
\* cursor on.
StreamInv ==
  /\ ~CheckptRequired => ~checkpt.wr
  /\ pc = "save" => checkpt.wr
  /\ pc \in {"save", "close"} /\ checkpt.wr /\ checkpt.cur # NoBlock =>
       /\ block_state[checkpt.cur] = "CHECKPOINT"
       /\ \A c \in programmed : c[1] = checkpt.cur => c[2] < checkpt.chunk

\* Nothing is programmed, and a block becomes empty only without its pages.
LEMMA PagesKept ==
  ASSUME IInv, PagesInv,
         programmed' \subseteq programmed, overprogrammed' \subseteq overprogrammed,
         \A b \in Blocks : block_state'[b] = "EMPTY" =>
           block_state[b] = "EMPTY" \/ \A c \in programmed' : c[1] # b,
         alloc_block' # NoBlock =>
           alloc_block' = alloc_block /\ alloc_page' \in {alloc_page, alloc_page + 1}
  PROVE  PagesInv'
<1>1. \A c \in programmed : c[1] \in Blocks /\ c[2] \in Int
  BY GeometryAssumption DEF IInv, TypeOK, FlashTypeOK, Chunks, Pages
<1>2. PagesWrittenOnce'
  BY <1>1 DEF PagesInv, PagesWrittenOnce
<1>3. alloc_page \in Int
  BY DEF IInv, TypeOK, AllocTypeOK
<1>4. \A c \in programmed' : c[1] = alloc_block' => c[2] < alloc_page'
  BY <1>1, <1>3 DEF PagesInv
<1>. QED
  BY <1>2, <1>4 DEF PagesInv

\* A write programs the chunk it allocated, and the summary behind it.
LEMMA WritePages ==
  ASSUME IInv, PagesInv, WriteStep
  PROVE  PagesInv'
<1>. /\ block_state \in [Blocks -> BlockStates]
     /\ programmed \subseteq Chunks /\ overprogrammed = {}
     /\ alloc_block \in Blocks \cup {NoBlock}
     /\ \A c \in programmed : c[1] \in Blocks /\ c[2] \in Int
  BY GeometryAssumption
  DEF IInv, TypeOK, BlocksTypeOK, FlashTypeOK, AllocTypeOK, PagesInv,
      PagesWrittenOnce, Chunks, Pages
<1>1. CASE Invalidate
  <2>1. PICK bad \in SUBSET {b \in Blocks : block_state[b] = "CHECKPOINT"} :
          /\ block_state' = [b \in Blocks |->
               IF b \in {x \in Blocks \ bad : block_state[x] = "CHECKPOINT"}
                 THEN "EMPTY"
               ELSE IF b \in bad THEN "DEAD" ELSE block_state[b]]
          /\ programmed' = {c \in programmed :
               c[1] \notin {x \in Blocks \ bad : block_state[x] = "CHECKPOINT"}}
          /\ overprogrammed' = {c \in overprogrammed :
               c[1] \notin {x \in Blocks \ bad : block_state[x] = "CHECKPOINT"}}
          /\ UNCHANGED alloc
    BY <1>1 DEF Invalidate
  <2>2. \A b \in Blocks : block_state'[b] = "EMPTY" =>
          block_state[b] = "EMPTY" \/ \A c \in programmed' : c[1] # b
    BY <2>1
  <2>. QED
    BY <2>1, <2>2, PagesKept
<1>2. CASE FindAllocBlock
  <2>1. PICK b \in Empty : /\ block_state' = [block_state EXCEPT ![b] = "ALLOCATING"]
                           /\ alloc_block' = b
    BY <1>2 DEF FindAllocBlock
  <2>2. UNCHANGED <<programmed, overprogrammed>>
    BY <1>2 DEF FindAllocBlock
  <2>3. \A c \in programmed : c[1] # b
    BY <2>1 DEF PagesInv, PagesWrittenOnce, Empty
  <2>. QED
    BY <2>1, <2>2, <2>3 DEF PagesInv, PagesWrittenOnce
<1>3. CASE AllocChunk \/ SkipRestOfBlock
  <2>1. /\ UNCHANGED <<programmed, overprogrammed>>
        /\ \A b \in Blocks : block_state'[b] \in {block_state[b], "FULL"}
        /\ alloc_block' # NoBlock =>
             alloc_block' = alloc_block /\ alloc_page' \in {alloc_page, alloc_page + 1}
    BY <1>3 DEF AllocChunk, SkipRestOfBlock
  <2>. QED
    BY <2>1, PagesKept
<1>4. CASE ProgramChunk
  <2>1. /\ call.new \in chunk_bits \ programmed
        /\ programmed' = programmed \cup {call.new}
        /\ overprogrammed' = {}
        /\ UNCHANGED <<block_state, alloc_block, alloc_page>>
    BY <1>4 DEF ProgramChunk, Program, IInv, BitsInv
  <2>2. block_state[call.new[1]] # "EMPTY"
    BY <2>1 DEF IInv, BitsInv
  <2>3. call.new[1] = alloc_block => call.new[2] < alloc_page
    BY <2>1 DEF IInv, AllocInv, TypeOK, BlocksTypeOK, Chunks
  <2>. QED
    BY <2>1, <2>2, <2>3 DEF PagesInv, PagesWrittenOnce
<1>5. CASE WriteSummary
  <2> DEFINE b == call.new[1]
  <2>1. /\ pc = "summary" /\ b \in Blocks
        /\ call.new[2] = LastDataPage /\ LastDataPage \in Int
        /\ alloc_block = b /\ alloc_page = LastDataPage + 1
    BY <1>5, GeometryAssumption
    DEF WriteSummary, IInv, AllocInv, CallInv, LastDataPage, Chunks
  <2>2. PICK n \in 0 .. SummaryChunks :
          LET Upto(m) == {b} \X (LastDataPage + 1 .. LastDataPage + m)
              tried == IF n < SummaryChunks THEN Upto(n + 1) ELSE Upto(n)
          IN  /\ programmed' = programmed \cup tried
              /\ overprogrammed' = overprogrammed \cup (tried \cap programmed)
              /\ block_state' = [block_state EXCEPT ![b] = "FULL"]
    BY <1>5 DEF WriteSummary
  <2>3. PICK T : /\ programmed' = programmed \cup T
                 /\ overprogrammed' = T \cap programmed
                 /\ \A c \in T : c[1] = b /\ c[2] \in Int /\ c[2] > LastDataPage
    <3> DEFINE T == IF n < SummaryChunks
                      THEN {b} \X (LastDataPage + 1 .. LastDataPage + (n + 1))
                      ELSE {b} \X (LastDataPage + 1 .. LastDataPage + n)
    <3>1. \A c \in T : c[1] = b /\ c[2] \in Int /\ c[2] > LastDataPage
      BY <2>1, GeometryAssumption
    <3>2. programmed' = programmed \cup T /\ overprogrammed' = T \cap programmed
      BY <2>2
    <3>. QED
      BY <3>1, <3>2
  <2>4. \A c \in programmed : c[1] = b => c[2] < LastDataPage + 1
    BY <2>1 DEF PagesInv
  <2>5. T \cap programmed = {}
    BY <2>1, <2>3, <2>4
  <2>6. alloc_block' = NoBlock
    BY <1>5 DEF WriteSummary
  <2>7. \A c \in programmed' : block_state'[c[1]] # "EMPTY"
    BY <2>1, <2>2, <2>3 DEF PagesInv, PagesWrittenOnce
  <2>8. \A c \in programmed' : c[1] \in Blocks
    BY <2>1, <2>3
  <2>. QED
    BY <2>3, <2>5, <2>6, <2>7, <2>8, GeometryAssumption DEF PagesInv, PagesWrittenOnce
<1>6. CASE WriteFails \/ NotErased \/ VerifyOk \/ VerifyFails \/ Written
             \/ FinishWrite
  <2>1. /\ UNCHANGED <<programmed, overprogrammed, block_state, alloc_block>>
        /\ alloc_block' # NoBlock => UNCHANGED alloc_page
    BY <1>6 DEF WriteFails, NotErased, VerifyOk, VerifyFails, Written,
       FinishWrite
  <2>. QED
    BY <2>1, PagesKept
<1>. QED
  BY <1>1, <1>2, <1>3, <1>4, <1>5, <1>6 DEF WriteStep

\* A block is erased with its pages.
LEMMA DelPages ==
  ASSUME IInv, PagesInv, DelStep
  PROVE  PagesInv'
<1>. block_state \in [Blocks -> BlockStates]
  BY DEF IInv, TypeOK, BlocksTypeOK
<1>1. CASE ChunkDel \/ BecameDirty \/ RetireBlock
  <2>1. /\ UNCHANGED <<programmed, overprogrammed, alloc_block, alloc_page>>
        /\ \A b \in Blocks : block_state'[b] \in {block_state[b], "DIRTY", "DEAD"}
    BY <1>1 DEF ChunkDel, BecameDirty, RetireBlock
  <2>. QED
    BY <2>1, PagesKept
<1>2. CASE EraseOk
  <2>1. /\ programmed' = {c \in programmed : c[1] # del.chunk[1]}
        /\ overprogrammed' = {c \in overprogrammed : c[1] # del.chunk[1]}
        /\ block_state' = [block_state EXCEPT ![del.chunk[1]] = "EMPTY"]
        /\ UNCHANGED <<alloc_block, alloc_page>>
    BY <1>2 DEF EraseOk
  <2>2. \A b \in Blocks : block_state'[b] = "EMPTY" =>
          block_state[b] = "EMPTY" \/ \A c \in programmed' : c[1] # b
    BY <2>1
  <2>. QED
    BY <2>1, <2>2, PagesKept
<1>. QED
  BY <1>1, <1>2 DEF DelStep

\* The collector itself, the beginning of calls and the ends of a save leave
\* the flash alone.
LEMMA CallPages ==
  ASSUME IInv, PagesInv,
         GcStep \/ StartStep \/ Begin \/ OpenStream \/ EndStream \/ CountCheckpt
  PROVE  PagesInv'
<1>. block_state \in [Blocks -> BlockStates]
  BY DEF IInv, TypeOK, BlocksTypeOK
<1>1. CASE GcStep
  <2>1. /\ UNCHANGED <<programmed, overprogrammed, alloc_block, alloc_page>>
        /\ \A b \in Blocks :
             block_state'[b] \in {block_state[b], "COLLECTING", "FULL"}
    <3>1. CASE GcBlockStart \/ CollectedSome
      BY <3>1 DEF GcBlockStart, CollectedSome
    <3>2. CASE ~(GcBlockStart \/ CollectedSome)
      BY <1>1, <3>2 DEF GcStep, SkipGc, ResumeGc, RefreshSelect, PrioritisedSelect,
         OldestForPrioritised, DirtiestSelect, OldestSelect, SelectNone,
         NoPrioritised, GcSelected, GcBlockCalled, CollectSoft, CollectOrphan,
         CollectCopy, CollectEnd, CleanUp, CollectedAll
    <3>. QED
      BY <3>1, <3>2
  <2>. QED
    BY <2>1, PagesKept
<1>2. CASE StartStep \/ Begin \/ OpenStream \/ EndStream \/ CountCheckpt
  <2>1. UNCHANGED <<programmed, overprogrammed, block_state, alloc_block, alloc_page>>
    BY <1>2 DEF StartStep, StartData, StartHeader, StartShrink, StartWrite,
       Begin, BeginWrite, BgGc, BeginCall, DeleteChunk, SoftDelChunk,
       ReadError, SaveCheckpt, OpenStream, EndStream, CountCheckpt
  <2>. QED
    BY <2>1, PagesKept
<1>. QED
  BY <1>1, <1>2

\* yaffs2_checkpt_find_erased_block finds an erased block.
LEMMA NextErased ==
  ASSUME NextCheckptBlock # NoBlock
  PROVE  NextCheckptBlock \in Empty
<1> DEFINE ahead == {b \in Empty : b >= checkpt.next}
<1>1. /\ ahead # {}
      /\ NextCheckptBlock = CHOOSE b \in ahead : \A c \in ahead : b <= c
  BY DEF NextCheckptBlock
<1>2. ahead \in SUBSET Nat
  BY GeometryAssumption DEF Empty
<1>3. \E b \in ahead : \A c \in ahead : b <= c
  BY <1>1, <1>2, LeastNatural
<1>. QED
  BY <1>1, <1>3

\* A flush programs the next page of the stream.
LEMMA FlushOnce ==
  ASSUME IInv, PagesInv, StreamInv, pc \in {"save", "close"}, checkpt.wr,
         FlushOk \/ FlushFails, UNCHANGED <<alloc_block, alloc_page>>,
         pc' \in {"save", "close", "count"}
  PROVE  PagesInv' /\ StreamInv'
<1>. /\ block_state \in [Blocks -> BlockStates]
     /\ programmed \subseteq Chunks /\ overprogrammed = {}
     /\ \A c \in programmed : c[1] \in Blocks /\ c[2] \in Pages
     /\ checkpt \in [wr : BOOLEAN, cur : Blocks \cup {NoBlock}, chunk : Pages,
                     next : 0 .. NBlocks + 1]
  BY DEF IInv, TypeOK, BlocksTypeOK, FlashTypeOK, CkptTypeOK, PagesInv,
         PagesWrittenOnce, Chunks
<1>1. ASSUME NEW b \in Blocks, NEW page \in Pages, FlushesTo(b, page),
             page = 0 => block_state[b] = "EMPTY",
             page # 0 => block_state[b] = "CHECKPOINT",
             \A c \in programmed : c[1] = b => c[2] < page
      PROVE  PagesInv' /\ StreamInv'
  <2>1. /\ programmed' = programmed \cup {<<b, page>>}
        /\ overprogrammed' = {}
    <3>1. <<b, page>> \notin programmed
      BY <1>1 DEF Pages
    <3>. QED
      BY <1>1, <3>1 DEF FlushesTo, Program
  <2>2. /\ block_state'[b] = "CHECKPOINT"
        /\ \A d \in Blocks : d # b => block_state'[d] = block_state[d]
    BY <1>1 DEF FlushesTo
  <2>3. b # alloc_block
    BY <1>1 DEF IInv, AllocInv
  <2>4. PagesInv'
    BY <1>1, <2>1, <2>2, <2>3 DEF PagesInv, PagesWrittenOnce
  <2>5. /\ checkpt'.wr = checkpt.wr
        /\ checkpt'.cur \in {b, NoBlock}
        /\ checkpt'.cur = b => checkpt'.chunk = page + 1
    <3>1. PICK next :
            checkpt' = [checkpt EXCEPT
              !.cur = IF page + 1 < ChunksPerBlock THEN b ELSE NoBlock,
              !.chunk = IF page + 1 < ChunksPerBlock THEN page + 1 ELSE 0,
              !.next = next]
      BY <1>1 DEF FlushesTo
    <3>2. b # NoBlock
      BY GeometryAssumption
    <3>. QED
      BY <3>1, <3>2
  <2>6. \A c \in programmed' : c[1] = b => c[2] < page + 1
    BY <1>1, <2>1, GeometryAssumption DEF Pages
  <2>7. StreamInv'
    BY <2>2, <2>5, <2>6 DEF StreamInv
  <2>. QED
    BY <2>4, <2>7
<1>2. CASE FlushFails
  <2>1. /\ UNCHANGED <<block_state, programmed, overprogrammed>>
        /\ checkpt'.cur = NoBlock /\ checkpt'.wr = checkpt.wr
    BY <1>2 DEF FlushFails
  <2>2. PagesInv'
    BY <2>1, PagesKept
  <2>. QED
    BY <2>1, <2>2 DEF StreamInv
<1>3. CASE FlushOk /\ checkpt.cur # NoBlock
  <2>1. checkpt.cur \in Blocks /\ checkpt.chunk \in Pages /\ checkpt.chunk # 0
    BY <1>3 DEF IInv, CkptInv
  <2>2. FlushesTo(checkpt.cur, checkpt.chunk)
    BY <1>3 DEF FlushOk
  <2>. QED
    BY <1>1, <1>3, <2>1, <2>2 DEF StreamInv
<1>4. CASE FlushOk /\ checkpt.cur = NoBlock
  <2>1. NextCheckptBlock # NoBlock /\ FlushesTo(NextCheckptBlock, 0)
    BY <1>4 DEF FlushOk
  <2>2. NextCheckptBlock \in Blocks /\ block_state[NextCheckptBlock] = "EMPTY"
    BY <2>1, NextErased DEF Empty
  <2>3. \A c \in programmed : c[1] # NextCheckptBlock
    BY <2>2 DEF PagesInv, PagesWrittenOnce
  <2>4. 0 \in Pages
    BY GeometryAssumption DEF Pages
  <2>. QED
    BY <1>1, <2>1, <2>2, <2>3, <2>4
<1>. QED
  BY <1>2, <1>3, <1>4

\* Steps of other calls leave the stream alone.
LEMMA StreamKept ==
  ASSUME IInv, StreamInv, [Next]_vars, ~SaveStep
  PROVE  StreamInv'
<1>1. UNCHANGED vars \/ (UNCHANGED checkpt /\ pc' \notin {"save", "close"})
  <2>1. del.ret \in {"idle", "skip", "finish", "collect", "collected"}
    BY DEF IInv, TypeOK, CallTypeOK
  <2>2. CASE WriteStep
    BY <2>2 DEF WriteStep, Invalidate, FindAllocBlock, AllocChunk, WriteFails,
       NotErased, ProgramChunk, WriteSummary, VerifyOk, VerifyFails,
       SkipRestOfBlock, Written, FinishWrite, CallDel, AfterWrite, AfterRefusal
  <2>3. CASE DelStep
    BY <2>1, <2>3 DEF DelStep, ChunkDel, BecameDirty, EraseOk, RetireBlock
  <2>4. CASE GcStep
    BY <2>4 DEF GcStep, SkipGc, ResumeGc, RefreshSelect, PrioritisedSelect,
       OldestForPrioritised, DirtiestSelect, OldestSelect, SelectNone,
       GcSelected, GcBlockCalled, GcBlockStart, CollectSoft, CollectOrphan,
       CollectCopy, CollectEnd, CollectedSome, CleanUp, CollectedAll, EndGc,
       NextTry, CallDel
  <2>5. CASE StartStep \/ Begin
    BY <2>5 DEF StartStep, StartData, StartHeader, StartShrink, StartWrite,
       Begin, BeginWrite, BgGc, BeginCall, DeleteChunk, SoftDelChunk,
       ReadError, SaveCheckpt, CallDel
  <2>. QED
    BY <2>2, <2>3, <2>4, <2>5 DEF Next, Step, Rest
<1>. QED
  BY <1>1 DEF vars, StreamInv

\* A save writes each page of its stream once.
LEMMA SaveOnce ==
  ASSUME IInv, PagesInv, StreamInv, SaveFindsRoom, SaveStep
  PROVE  PagesInv' /\ StreamInv'
<1>1. CASE OpenStream
  <2>1. CheckptRequired => checkpt' = FreshStream
    BY <1>1 DEF OpenStream, SaveFindsRoom
  <2>2. ~CheckptRequired => checkpt'.wr = FALSE /\ pc' = "close"
    <3>1. ~CheckptRequired =>
            /\ checkpt' = [checkpt EXCEPT !.wr = @ \/ CheckptRequired]
            /\ pc' = "close"
      BY <1>1 DEF OpenStream
    <3>2. /\ ~CheckptRequired => checkpt.wr = FALSE
          /\ checkpt \in [wr : BOOLEAN, cur : Blocks \cup {NoBlock},
                          chunk : Pages, next : 0 .. NBlocks + 1]
      BY DEF StreamInv, IInv, TypeOK, CkptTypeOK
    <3>. QED
      BY <3>1, <3>2
  <2>3. StreamInv'
    BY <2>1, <2>2 DEF FreshStream, StreamInv
  <2>. QED
    BY <1>1, <2>3, CallPages
<1>2. CASE EndStream \/ CountCheckpt
  <2>1. StreamInv'
    BY <1>2 DEF EndStream, CountCheckpt, StreamInv
  <2>. QED
    BY <1>2, <2>1, CallPages
<1>3. CASE WriteStream
  <2>1. /\ pc = "save" /\ pc' \in {"save", "close"}
        /\ FlushOk \/ FlushFails
        /\ UNCHANGED alloc
    BY <1>3 DEF WriteStream
  <2>2. checkpt.wr
    BY <2>1 DEF StreamInv
  <2>. QED
    BY <2>1, <2>2, FlushOnce
<1>4. CASE CloseStream
  <2>1. pc = "close" /\ pc' = "count" /\ UNCHANGED alloc
    BY <1>4 DEF CloseStream
  <2>2. CASE checkpt.wr
    BY <1>4, <2>1, <2>2, FlushOnce DEF CloseStream
  <2>3. CASE ~checkpt.wr
    <3>1. UNCHANGED <<block_state, checkpt, programmed, overprogrammed>>
      BY <1>4, <2>3 DEF CloseStream
    <3>2. StreamInv'
      BY <2>1, <3>1 DEF StreamInv
    <3>. QED
      BY <2>1, <3>1, <3>2, PagesKept
  <2>. QED
    BY <2>2, <2>3
<1>. QED
  BY <1>1, <1>2, <1>3, <1>4 DEF SaveStep

\* A step programs pages that were not, and each of them once.
LEMMA OnceStep ==
  ASSUME IInv, PagesInv, StreamInv, SaveFindsRoom, [Next]_vars
  PROVE  PagesInv' /\ StreamInv'
<1>1. CASE SaveStep
  BY <1>1, SaveOnce
<1>2. CASE ~SaveStep
  <2>1. CASE UNCHANGED vars
    BY <2>1 DEF vars, PagesInv, PagesWrittenOnce, StreamInv
  <2>2. CASE ~UNCHANGED vars
    <3>1. PagesInv'
      BY <1>2, <2>2, WritePages, DelPages, CallPages DEF Next, Step, Rest
    <3>. QED
      BY <1>2, <3>1, StreamKept
  <2>. QED
    BY <2>1, <2>2
<1>. QED
  BY <1>1, <1>2

\* NAND: no page is programmed twice between two erasures of its block, by
\* writes, copies of the collector, summaries or checkpoints, whatever fails,
\* as long as saves find room for their first block.
THEOREM OnceProgrammed == Spec /\ []SaveFindsRoom => []PagesWrittenOnce
<1>1. Init => PagesInv /\ StreamInv
  BY DEF Init, PagesInv, PagesWrittenOnce, StreamInv
<1>2. IInv /\ PagesInv /\ StreamInv /\ SaveFindsRoom /\ [Next]_vars =>
        PagesInv' /\ StreamInv'
  BY OnceStep
<1>3. PagesInv => PagesWrittenOnce
  BY DEF PagesInv
<1>. QED
  BY <1>1, <1>2, <1>3, Invariant, PTL DEF Spec

-----------------------------------------------------------------------------
(***************************************************************************)
(* The tracked oldest dirty block is the oldest with discarded data.       *)
(***************************************************************************)

\* A block of the log: it holds data, or is about to.
InLog(b) == block_state[b] \in {"ALLOCATING", "FULL", "COLLECTING"}

\* The flash holds data of the block that nothing names any more.
Discarded(b) ==
  \E p \in 0 .. LastDataPage :
    /\ <<b, p>> \in programmed
    /\ <<b, p>> \notin chunk_bits \/ <<b, p>> \in soft

\* What the tracking of the oldest dirty block rests on.
TrackInv ==
  oldest_dirty.seq # 0 =>
    \A b \in Blocks : InLog(b) /\ Discarded(b) => oldest_dirty.seq <= blk_seq[b]

\* What the step does to each block's data: it discards nothing, or takes the
\* block out of the log.
NoneDiscarded(b) ==
  InLog(b)' /\ Discarded(b)' =>
    InLog(b) /\ Discarded(b) /\ blk_seq'[b] = blk_seq[b]

\* Nothing is discarded, and the oldest dirty block is kept or forgotten.
LEMMA TrackKept ==
  ASSUME TrackInv, oldest_dirty'.seq \in {0, oldest_dirty.seq},
         \A b \in Blocks : NoneDiscarded(b)
  PROVE  TrackInv'
BY DEF TrackInv, NoneDiscarded

\* "Update the oldest dirty sequence number whenever we dirty a block."
LEMMA TrackDirtied ==
  ASSUME IInv, TrackInv, NEW b \in Blocks, oldest_dirty' = OldestUpdated(b),
         UNCHANGED blk_seq, \A d \in Blocks : d # b => NoneDiscarded(d)
  PROVE  TrackInv'
<1>1. blk_seq \in [Blocks -> Nat] /\ oldest_dirty.seq \in Nat
  BY DEF IInv, TypeOK, AllocTypeOK, GcTypeOK
<1>2. CASE oldest_dirty.seq > blk_seq[b]
  <2>1. oldest_dirty'.seq = blk_seq[b]
    BY <1>2 DEF OldestUpdated
  <2>2. oldest_dirty.seq # 0
    BY <1>1, <1>2
  <2>3. \A d \in Blocks : InLog(d)' /\ Discarded(d)' => blk_seq[b] <= blk_seq[d]
    BY <1>1, <1>2, <2>2 DEF TrackInv, NoneDiscarded
  <2>. QED
    BY <2>1, <2>3 DEF TrackInv
<1>3. CASE ~(oldest_dirty.seq > blk_seq[b])
  <2>1. oldest_dirty' = oldest_dirty /\ oldest_dirty.seq <= blk_seq[b]
    BY <1>1, <1>3 DEF OldestUpdated
  <2>. QED
    BY <2>1 DEF TrackInv, NoneDiscarded
<1>. QED
  BY <1>2, <1>3

\* A block with discarded data is not all in use.
LEMMA DiscardedPartly ==
  ASSUME IInv, NEW b \in Blocks, Discarded(b), block_state[b] = "FULL"
  PROVE  b \in PartlyUsed
<1>. /\ chunk_bits \subseteq Chunks /\ soft \subseteq chunk_bits
     /\ ChunksPerBlock \in Nat
  BY GeometryAssumption DEF IInv, TypeOK, BlocksTypeOK, BitsInv
<1>1. PICK p \in 0 .. LastDataPage :
        <<b, p>> \notin chunk_bits \/ <<b, p>> \in soft
  BY DEF Discarded
<1> DEFINE kept == ChunksOf(b, chunk_bits \ soft)
           all == {b} \X Pages
<1>2. /\ IsFiniteSet(all) /\ Cardinality(all) = ChunksPerBlock
  <2>1. /\ IsFiniteSet(Pages) /\ Cardinality(Pages) = ChunksPerBlock
    BY FS_Interval, GeometryAssumption DEF Pages
  <2>2. IsFiniteSet({b}) /\ Cardinality({b}) = 1
    BY FS_Singleton
  <2>3. IsFiniteSet(all) /\ Cardinality(all) = 1 * ChunksPerBlock
    BY <2>1, <2>2, FS_Product
  <2>. QED
    BY <2>3
<1>3. <<b, p>> \in all /\ kept \subseteq all \ {<<b, p>>}
  <2>1. p \in Pages
    BY <1>1, GeometryAssumption DEF Pages, LastDataPage
  <2>2. \A c \in kept : c \in Chunks /\ c[1] = b
    BY DEF ChunksOf
  <2>. QED
    BY <1>1, <2>1, <2>2 DEF Chunks, ChunksOf
<1>4. Cardinality(kept) <= ChunksPerBlock - 1
  <2>1. /\ IsFiniteSet(all \ {<<b, p>>})
        /\ Cardinality(all \ {<<b, p>>}) = ChunksPerBlock - 1
    BY <1>2, <1>3, FS_RemoveElement
  <2>. QED
    BY <1>3, <2>1, FS_Subset
<1>5. UsedPages(b) = Cardinality(kept)
  <2>1. /\ pages_in_use[b] = Cardinality(ChunksOf(b, chunk_bits))
        /\ soft_del_pages[b] = Cardinality(ChunksOf(b, soft))
    BY DEF IInv, PageCountsExact
  <2> DEFINE bits == ChunksOf(b, chunk_bits)
             softs == ChunksOf(b, soft)
  <2>2. /\ softs \in SUBSET bits /\ \A c \in softs : c[1] = b
        /\ kept = ChunksOf(b, chunk_bits \ softs)
    BY DEF ChunksOf
  <2>3. Cardinality(kept) = Cardinality(bits) - Cardinality(softs)
    <3>1. softs \in SUBSET chunk_bits
      BY DEF ChunksOf
    <3>. QED
      BY <2>2, <3>1, CountDifference
  <2>. QED
    BY <2>1, <2>3 DEF UsedPages
<1>6. Cardinality(kept) \in Nat
  BY FiniteChunks DEF ChunksOf
<1>. QED
  BY <1>4, <1>5, <1>6 DEF PartlyUsed

\* Some partly used block is the oldest.
LEMMA OldestExists ==
  ASSUME IInv, PartlyUsed # {}
  PROVE  \E c \in PartlyUsed : IsOldestIn(c, PartlyUsed)
<1>. DEFINE seqs == {blk_seq[c] : c \in PartlyUsed}
<1>1. seqs # {} /\ seqs \in SUBSET Nat
  BY DEF PartlyUsed, IInv, TypeOK, AllocTypeOK
<1>2. \E m \in seqs : \A n \in seqs : m <= n
  <2>. HIDE DEF seqs
  <2>. QED
    BY <1>1, LeastNatural
<1>3. PICK c \in PartlyUsed : \A n \in {blk_seq[d] : d \in PartlyUsed} : blk_seq[c] <= n
  BY <1>2, Zenon
<1>4. \A d \in PartlyUsed : blk_seq[c] <= blk_seq[d]
  BY <1>3, Zenon
<1>. QED
  BY <1>4 DEF IsOldestIn

\* yaffs_calc_oldest_dirty_seq finds a block not younger than any with
\* discarded data.
LEMMA OldestTracks ==
  ASSUME IInv, TrackInv, pc = "gc", gc_block = NoBlock,
         NEW b \in Blocks, InLog(b), Discarded(b)
  PROVE  /\ Oldest.seq <= blk_seq[b]
         /\ block_state[b] = "FULL" => Oldest.seq # 0
<1>. /\ blk_seq \in [Blocks -> Nat]
     /\ oldest_dirty \in [seq : Nat, block : Blocks \cup {NoBlock}]
  BY DEF IInv, TypeOK, AllocTypeOK, GcTypeOK
<1>1. CASE oldest_dirty.seq # 0
  BY <1>1 DEF Oldest, TrackInv
<1>2. CASE oldest_dirty.seq = 0 /\ PartlyUsed = {}
  BY <1>2, DiscardedPartly DEF Oldest
<1>3. CASE oldest_dirty.seq = 0 /\ PartlyUsed # {}
  <2>1. PartlyUsed # {} /\ PartlyUsed \subseteq Blocks
    BY <1>3 DEF PartlyUsed
  <2>4. \E c \in PartlyUsed : IsOldestIn(c, PartlyUsed)
    BY <2>1, OldestExists
  <2>5. PICK o \in PartlyUsed : /\ Oldest = [seq |-> blk_seq[o], block |-> o]
                                /\ IsOldestIn(o, PartlyUsed)
    BY <1>3, <2>4 DEF Oldest
  <2>6. o \in Blocks /\ block_state[o] = "FULL"
    BY DEF PartlyUsed
  <2>7. blk_seq[o] # 0 /\ blk_seq[o] <= seq_number /\ seq_number \in Nat
    BY <2>6 DEF IInv, SeqInv, Used, TypeOK, AllocTypeOK
  <2>8. CASE block_state[b] = "FULL"
    BY <2>5, <2>7, <2>8, DiscardedPartly DEF IsOldestIn
  <2>9. CASE block_state[b] = "ALLOCATING"
    <3>1. blk_seq[b] = seq_number
      BY <2>9, GeometryAssumption DEF IInv, AllocInv
    <3>. QED
      BY <2>5, <2>7, <2>9, <3>1
  <2>. QED
    BY <2>8, <2>9, NothingCollecting DEF InLog
<1>. QED
  BY <1>1, <1>2, <1>3

\* A search for a block to collect keeps the oldest dirty one or finds it.
LEMMA SearchTracks ==
  ASSUME IInv, TrackInv, pc = "gc", gc_block = NoBlock,
         oldest_dirty' \in {oldest_dirty, Oldest},
         UNCHANGED <<block_state, chunk_bits, blk_seq, soft, programmed>>
  PROVE  TrackInv'
<1>1. \A b \in Blocks : (InLog(b)' <=> InLog(b)) /\ (Discarded(b)' <=> Discarded(b))
  BY DEF InLog, Discarded
<1>2. CASE oldest_dirty' = oldest_dirty
  BY <1>1, <1>2 DEF TrackInv
<1>3. CASE oldest_dirty' = Oldest
  BY <1>1, <1>3, OldestTracks DEF TrackInv
<1>. QED
  BY <1>2, <1>3

\* Steps that leave the data and the states of blocks alone.
LEMMA QuietTracks ==
  ASSUME TrackInv,
         UNCHANGED <<block_state, chunk_bits, blk_seq, soft, programmed, oldest_dirty>>
  PROVE  TrackInv'
BY DEF TrackInv, InLog, Discarded

\* A write discards nothing; the page behind the cursor it programs is in use.
LEMMA WriteTracks ==
  ASSUME IInv, PagesInv, TrackInv, WriteStep
  PROVE  TrackInv'
<1>. /\ block_state \in [Blocks -> BlockStates] /\ blk_seq \in [Blocks -> Nat]
     /\ alloc_block \in Blocks \cup {NoBlock}
     /\ LastDataPage \in Int
  BY GeometryAssumption DEF IInv, TypeOK, BlocksTypeOK, AllocTypeOK, LastDataPage
<1>1. CASE Invalidate
  <2>1. PICK bad \in SUBSET {b \in Blocks : block_state[b] = "CHECKPOINT"} :
          /\ block_state' = [b \in Blocks |->
               IF b \in {x \in Blocks \ bad : block_state[x] = "CHECKPOINT"}
                 THEN "EMPTY"
               ELSE IF b \in bad THEN "DEAD" ELSE block_state[b]]
          /\ programmed' \subseteq programmed
    BY <1>1 DEF Invalidate
  <2>2. UNCHANGED <<chunk_bits, blk_seq, soft, oldest_dirty>>
    BY <1>1 DEF Invalidate
  <2>3. \A b \in Blocks : NoneDiscarded(b)
    BY <2>1, <2>2 DEF NoneDiscarded, InLog, Discarded
  <2>. QED
    BY <2>2, <2>3, TrackKept
<1>2. CASE FindAllocBlock
  <2>1. PICK a \in Empty : /\ block_state' = [block_state EXCEPT ![a] = "ALLOCATING"]
                           /\ blk_seq' = [blk_seq EXCEPT ![a] = NextSeq]
    BY <1>2 DEF FindAllocBlock
  <2>2. UNCHANGED <<chunk_bits, soft, programmed, oldest_dirty>>
    BY <1>2 DEF FindAllocBlock
  <2>3. \A c \in programmed : c[1] # a
    BY <2>1 DEF PagesInv, PagesWrittenOnce, Empty
  <2>4. \A b \in Blocks : NoneDiscarded(b)
    BY <2>1, <2>2, <2>3 DEF NoneDiscarded, InLog, Discarded
  <2>. QED
    BY <2>2, <2>4, TrackKept
<1>3. CASE AllocChunk \/ SkipRestOfBlock
  <2>1. /\ chunk_bits \subseteq chunk_bits'
        /\ UNCHANGED <<blk_seq, soft, programmed, oldest_dirty>>
        /\ \/ UNCHANGED block_state
           \/ /\ alloc_block # NoBlock
              /\ block_state' = [block_state EXCEPT ![alloc_block] = "FULL"]
    BY <1>3 DEF AllocChunk, SkipRestOfBlock
  <2>2. alloc_block # NoBlock => block_state[alloc_block] = "ALLOCATING"
    BY DEF IInv, AllocInv
  <2>3. \A b \in Blocks : NoneDiscarded(b)
    BY <2>1, <2>2 DEF NoneDiscarded, InLog, Discarded
  <2>. QED
    BY <2>1, <2>3, TrackKept
<1>4. CASE ProgramChunk
  <2>1. /\ call.new \in chunk_bits \ soft
        /\ programmed' = programmed \cup {call.new}
        /\ UNCHANGED <<block_state, blk_seq, soft, chunk_bits, oldest_dirty>>
    BY <1>4 DEF ProgramChunk, Program, IInv, BitsInv
  <2>2. \A b \in Blocks : NoneDiscarded(b)
    BY <2>1 DEF NoneDiscarded, InLog, Discarded
  <2>. QED
    BY <2>1, <2>2, TrackKept
<1>5. CASE WriteSummary
  <2> DEFINE a == call.new[1]
  <2>1. a \in Blocks /\ InLog(a)
    BY <1>5 DEF WriteSummary, IInv, CallInv, BitsInv, Chunks, InLog
  <2>2. PICK n \in 0 .. SummaryChunks :
          LET Upto(m) == {a} \X (LastDataPage + 1 .. LastDataPage + m)
              tried == IF n < SummaryChunks THEN Upto(n + 1) ELSE Upto(n)
          IN  /\ programmed' = programmed \cup tried
              /\ chunk_bits' = chunk_bits \cup Upto(n)
              /\ block_state' = [block_state EXCEPT ![a] = "FULL"]
    BY <1>5 DEF WriteSummary
  <2>3. UNCHANGED <<blk_seq, soft, oldest_dirty>>
    BY <1>5 DEF WriteSummary
  <2>4. \A b \in Blocks : \A p \in 0 .. LastDataPage :
          /\ <<b, p>> \in programmed' => <<b, p>> \in programmed
          /\ <<b, p>> \in chunk_bits => <<b, p>> \in chunk_bits'
    <3>1. \A m \in Int : \A b \in Blocks : \A p \in 0 .. LastDataPage :
            <<b, p>> \notin {a} \X (LastDataPage + 1 .. LastDataPage + m)
      OBVIOUS
    <3>2. n \in Int /\ n + 1 \in Int
      BY GeometryAssumption
    <3>3. /\ chunk_bits \subseteq chunk_bits'
          /\ \/ programmed' = programmed \cup ({a} \X (LastDataPage + 1 .. LastDataPage + (n + 1)))
             \/ programmed' = programmed \cup ({a} \X (LastDataPage + 1 .. LastDataPage + n))
      BY <2>2
    <3>4. \A b \in Blocks : \A p \in 0 .. LastDataPage :
            <<b, p>> \in programmed' => <<b, p>> \in programmed
      BY <3>1, <3>2, <3>3
    <3>. QED
      BY <3>3, <3>4
  <2>5. \A b \in Blocks : NoneDiscarded(b)
    BY <2>1, <2>2, <2>3, <2>4 DEF NoneDiscarded, InLog, Discarded
  <2>. QED
    BY <2>3, <2>5, TrackKept
<1>6. CASE WriteFails \/ NotErased \/ VerifyOk \/ VerifyFails \/ Written
             \/ FinishWrite
  <2>1. UNCHANGED <<block_state, chunk_bits, blk_seq, soft, programmed, oldest_dirty>>
    BY <1>6 DEF WriteFails, NotErased, VerifyOk, VerifyFails, Written,
       FinishWrite
  <2>. QED
    BY <2>1, QuietTracks
<1>. QED
  BY <1>1, <1>2, <1>3, <1>4, <1>5, <1>6 DEF WriteStep

\* A deletion updates the oldest dirty block, an erasure forgets it if it is
\* the one.
LEMMA DelTracks ==
  ASSUME IInv, TrackInv, DelStep
  PROVE  TrackInv'
<1>. /\ block_state \in [Blocks -> BlockStates] /\ blk_seq \in [Blocks -> Nat]
  BY DEF IInv, TypeOK, BlocksTypeOK, AllocTypeOK
<1> DEFINE b == del.chunk[1]
<1>0. b \in Blocks /\ del.chunk = <<b, del.chunk[2]>>
  BY DEF DelStep, ChunkDel, BecameDirty, EraseOk, RetireBlock, IInv, CallInv,
         Chunks
<1>1. CASE ChunkDel
  <2>1. /\ oldest_dirty' = OldestUpdated(b)
        /\ chunk_bits' = chunk_bits \ {del.chunk}
        /\ UNCHANGED <<block_state, blk_seq, soft, programmed>>
    BY <1>1 DEF ChunkDel
  <2>2. \A d \in Blocks : d # b => NoneDiscarded(d)
    BY <1>0, <2>1 DEF NoneDiscarded, InLog, Discarded
  <2>. QED
    BY <1>0, <2>1, <2>2, TrackDirtied
<1>2. CASE BecameDirty \/ RetireBlock
  <2>1. /\ oldest_dirty' = OldestCleared(b)
        /\ \/ block_state' = [block_state EXCEPT ![b] = "DIRTY"]
           \/ block_state' = [block_state EXCEPT ![b] = "DEAD"]
        /\ UNCHANGED <<chunk_bits, blk_seq, soft, programmed>>
    BY <1>2 DEF BecameDirty, RetireBlock
  <2>2. oldest_dirty'.seq \in {0, oldest_dirty.seq}
    BY <2>1 DEF OldestCleared, NoOldest
  <2>3. \A d \in Blocks : NoneDiscarded(d)
    BY <1>0, <2>1 DEF NoneDiscarded, InLog, Discarded
  <2>. QED
    BY <2>2, <2>3, TrackKept
<1>3. CASE EraseOk
  <2>1. /\ block_state' = [block_state EXCEPT ![b] = "EMPTY"]
        /\ blk_seq' = [blk_seq EXCEPT ![b] = 0]
        /\ chunk_bits' = {c \in chunk_bits : c[1] # b}
        /\ programmed' = {c \in programmed : c[1] # b}
        /\ UNCHANGED <<soft, oldest_dirty>>
    BY <1>3 DEF EraseOk
  <2>2. \A d \in Blocks : NoneDiscarded(d)
    BY <1>0, <2>1 DEF NoneDiscarded, InLog, Discarded
  <2>. QED
    BY <2>1, <2>2, TrackKept
<1>. QED
  BY <1>1, <1>2, <1>3 DEF DelStep

\* A collection drops pages of a summary, which hold no data, and chunks that
\* were discarded before.
LEMMA GcTracks ==
  ASSUME IInv, TrackInv, GcStep
  PROVE  TrackInv'
<1>. /\ block_state \in [Blocks -> BlockStates] /\ blk_seq \in [Blocks -> Nat]
     /\ LastDataPage \in Int
  BY GeometryAssumption DEF IInv, TypeOK, BlocksTypeOK, AllocTypeOK, LastDataPage
<1>1. CASE PrioritisedSelect \/ OldestForPrioritised \/ DirtiestSelect
             \/ OldestSelect \/ SelectNone
  <2>1. /\ pc = "gc" /\ gc_block = NoBlock
        /\ oldest_dirty' \in {oldest_dirty, Oldest}
    BY <1>1 DEF PrioritisedSelect, OldestForPrioritised, DirtiestSelect,
       OldestSelect, SelectNone, Searching, Collecting, OldestMayBeFound,
       IsDirtiest
  <2>2. UNCHANGED <<block_state, chunk_bits, blk_seq, soft, programmed>>
    BY <1>1 DEF PrioritisedSelect, OldestForPrioritised, DirtiestSelect,
       OldestSelect, SelectNone, GcSelected, GcBlockCalled
  <2>. QED
    BY <2>1, <2>2, SearchTracks
<1>2. CASE GcBlockStart
  <2> DEFINE b == gc_block
             dropped == IF b \in has_summary
                          THEN chunk_bits \cap ({b} \X SummaryPages) ELSE {}
  <2>1. /\ block_state' = [block_state EXCEPT ![b] = "COLLECTING"]
        /\ chunk_bits' = chunk_bits \ dropped
        /\ UNCHANGED <<blk_seq, soft, programmed, oldest_dirty>>
    BY <1>2 DEF GcBlockStart
  <2>2. b \in Blocks /\ InLog(b)
    BY <1>2 DEF GcBlockStart, IInv, CallInv, GcInv, InLog, TypeOK, GcTypeOK
  <2>3. \A d \in Blocks : \A p \in 0 .. LastDataPage :
          <<d, p>> \in chunk_bits' <=> <<d, p>> \in chunk_bits
    BY <2>1 DEF SummaryPages
  <2>4. \A d \in Blocks : NoneDiscarded(d)
    BY <2>1, <2>2, <2>3 DEF NoneDiscarded, InLog, Discarded
  <2>. QED
    BY <2>1, <2>4, TrackKept
<1>3. CASE CollectSoft
  <2>1. /\ soft' \subseteq soft
        /\ UNCHANGED <<block_state, blk_seq, chunk_bits, programmed, oldest_dirty>>
    BY <1>3 DEF CollectSoft
  <2>2. \A d \in Blocks : NoneDiscarded(d)
    BY <2>1 DEF NoneDiscarded, InLog, Discarded
  <2>. QED
    BY <2>1, <2>2, TrackKept
<1>4. CASE CollectedSome
  <2>1. /\ block_state' = [block_state EXCEPT ![gc_block] = "FULL"]
        /\ gc_block # NoBlock
        /\ UNCHANGED <<blk_seq, chunk_bits, soft, programmed, oldest_dirty>>
    BY <1>4 DEF CollectedSome
  <2>2. gc_block \in Blocks /\ InLog(gc_block)
    BY <2>1 DEF IInv, GcInv, InLog, TypeOK, GcTypeOK
  <2>3. \A d \in Blocks : NoneDiscarded(d)
    BY <2>1, <2>2 DEF NoneDiscarded, InLog, Discarded
  <2>. QED
    BY <2>1, <2>3, TrackKept
<1>5. CASE SkipGc \/ ResumeGc \/ RefreshSelect \/ CollectOrphan \/ CollectCopy
             \/ CollectEnd \/ CleanUp \/ CollectedAll
  <2>1. UNCHANGED <<block_state, chunk_bits, blk_seq, soft, programmed, oldest_dirty>>
    BY <1>5 DEF SkipGc, ResumeGc, RefreshSelect, GcBlockCalled, CollectOrphan,
       CollectCopy, CollectEnd, CleanUp, CollectedAll
  <2>. QED
    BY <2>1, QuietTracks
<1>. QED
  BY <1>1, <1>2, <1>3, <1>4, <1>5 DEF GcStep

\* A stream takes blocks that are not in the log.
LEMMA SaveTracks ==
  ASSUME IInv, PagesInv, StreamInv, TrackInv, SaveStep
  PROVE  TrackInv'
<1>. block_state \in [Blocks -> BlockStates]
  BY DEF IInv, TypeOK, BlocksTypeOK
<1>1. UNCHANGED <<chunk_bits, blk_seq, soft, oldest_dirty>>
  BY DEF SaveStep, OpenStream, WriteStream, EndStream, CloseStream, CountCheckpt
<1>2. ASSUME NEW b \in Blocks, NEW page, FlushesTo(b, page),
             block_state[b] \in {"EMPTY", "CHECKPOINT"}
      PROVE  TrackInv'
  <2>1. /\ programmed' = programmed \cup {<<b, page>>}
        /\ block_state' \in {block_state, [block_state EXCEPT ![b] = "CHECKPOINT"]}
    BY <1>2 DEF FlushesTo, Program
  <2>2. \A d \in Blocks : NoneDiscarded(d)
    BY <1>1, <1>2, <2>1 DEF NoneDiscarded, InLog, Discarded
  <2>. QED
    BY <1>1, <2>2, TrackKept
<1>3. CASE FlushOk /\ pc \in {"save", "close"} /\ checkpt.wr
  <2>1. CASE checkpt.cur # NoBlock
    <3>1. /\ FlushesTo(checkpt.cur, checkpt.chunk) /\ checkpt.cur \in Blocks
          /\ block_state[checkpt.cur] = "CHECKPOINT"
      BY <1>3, <2>1 DEF FlushOk, StreamInv, IInv, TypeOK, CkptTypeOK
    <3>. QED
      BY <1>2, <3>1
  <2>2. CASE checkpt.cur = NoBlock
    <3>1. NextCheckptBlock # NoBlock /\ FlushesTo(NextCheckptBlock, 0)
      BY <1>3, <2>2 DEF FlushOk
    <3>. QED
      BY <1>2, <3>1, NextErased DEF Empty
  <2>. QED
    BY <2>1, <2>2
<1>4. CASE UNCHANGED <<block_state, programmed>>
  BY <1>1, <1>4, QuietTracks
<1>5. \/ FlushOk /\ pc \in {"save", "close"} /\ checkpt.wr
      \/ UNCHANGED <<block_state, programmed>>
  BY DEF SaveStep, OpenStream, WriteStream, EndStream, CloseStream, CountCheckpt,
     FlushFails, StreamInv
<1>. QED
  BY <1>3, <1>4, <1>5

\* Deletions by soft deletion are tracked too.
LEMMA TrackStep ==
  ASSUME IInv, PagesInv, StreamInv, TrackInv, [Next]_vars
  PROVE  TrackInv'
<1>1. CASE SoftDelChunk
  <2>1. PICK c \in live : /\ soft' = soft \cup {c}
                          /\ oldest_dirty' = OldestUpdated(c[1])
    BY <1>1 DEF SoftDelChunk
  <2>2. UNCHANGED <<block_state, chunk_bits, blk_seq, programmed>>
    BY <1>1 DEF SoftDelChunk
  <2>3. c[1] \in Blocks
    BY <2>1 DEF IInv, TypeOK, ClientTypeOK, Chunks
  <2>4. \A d \in Blocks : d # c[1] => NoneDiscarded(d)
    BY <2>1, <2>2 DEF NoneDiscarded, InLog, Discarded
  <2>. QED
    BY <2>1, <2>2, <2>3, <2>4, TrackDirtied
<1>2. CASE StartStep \/ (Begin /\ ~SoftDelChunk) \/ Rest \/ UNCHANGED vars
  <2>1. UNCHANGED <<block_state, chunk_bits, blk_seq, soft, programmed, oldest_dirty>>
    BY <1>2 DEF StartStep, StartData, StartHeader, StartShrink, StartWrite,
       Begin, BeginWrite, BgGc, BeginCall, DeleteChunk, ReadError, SaveCheckpt,
       Rest, vars
  <2>. QED
    BY <2>1, QuietTracks
<1>. QED
  BY <1>1, <1>2, WriteTracks, DelTracks, GcTracks, SaveTracks
  DEF Next, Step, Begin

\* The oldest dirty block is in use, and no block with discarded data is
\* older: it is updated by every deletion, and forgotten only when the block
\* itself is erased.
THEOREM OldestTracked == Spec /\ []SaveFindsRoom => []OldestDirtyTracked
<1>1. Init => PagesInv /\ StreamInv /\ TrackInv
  BY DEF Init, PagesInv, PagesWrittenOnce, StreamInv, TrackInv, NoOldest
<1>2. IInv /\ PagesInv /\ StreamInv /\ TrackInv /\ SaveFindsRoom /\ [Next]_vars =>
        PagesInv' /\ StreamInv' /\ TrackInv'
  BY OnceStep, TrackStep
<1>3. IInv /\ TrackInv => OldestDirtyTracked
  <2>1. SUFFICES ASSUME IInv, TrackInv
                 PROVE  OldestDirtyTracked
    OBVIOUS
  <2>2. oldest_dirty.seq # 0 =>
          /\ block_state[oldest_dirty.block] \in {"FULL", "COLLECTING"}
          /\ blk_seq[oldest_dirty.block] = oldest_dirty.seq
    BY <2>1 DEF IInv, GcInv
  <2>3. oldest_dirty.seq # 0 =>
          \A b \in Blocks : InLog(b) /\ Discarded(b) => oldest_dirty.seq <= blk_seq[b]
    BY <2>1 DEF TrackInv
  <2>. QED
    BY <2>2, <2>3 DEF OldestDirtyTracked, InLog, Discarded
<1>. QED
  BY <1>1, <1>2, <1>3, Invariant, PTL DEF Spec

-----------------------------------------------------------------------------
(***************************************************************************)
(* A shrink header outlives the data it makes invalid.                     *)
(***************************************************************************)

\* A block is dirty only while it is being erased.
ErasingInv ==
  \A b \in Blocks : block_state[b] = "DIRTY" => pc = "erase" /\ b = del.chunk[1]

\* A new chunk is its caller's at the end of the write, and is never in a block
\* the collector has in mind.
NewInv ==
  /\ InFinish => call.new \in live
  /\ HasNew \/ InFinish => call.new[1] \notin {gc_block, gc_dirtiest}

\* The block holds data that nothing names any more, or that is being deleted.
Gone(y) ==
  \E p \in 0 .. LastDataPage :
    /\ <<y, p>> \in programmed
    /\ \/ <<y, p>> \notin chunk_bits
       \/ <<y, p>> \in soft
       \/ pc = "del" /\ del.chunk = <<y, p>>

\* Block b has a shrink header for data in the older block y: it is not
\* selected for collection before y.
Shields(b, y) ==
  /\ b \in has_shrink_hdr /\ Used(b)
  /\ block_state[y] \in {"FULL", "COLLECTING", "DIRTY"}
  /\ blk_seq[y] < blk_seq[b]
  /\ Gone(y)
  /\ b \notin {gc_block, gc_dirtiest}

\* Data a shrink header made invalid is gone, or its block older than the header.
ShadowInv ==
  /\ \A b, y \in Blocks : <<b, y>> \in shadow => Shields(b, y)
  /\ pc \in {"dirty", "erase"} =>
       \A y \in Blocks : <<del.chunk[1], y>> \notin shadow

-----------------------------------------------------------------------------
\* A step keeps the blocks that are being erased without data.
LEMMA ErasingStep ==
  ASSUME IInv, ErasingInv, [Next]_vars
  PROVE  ErasingInv'
<1>. block_state \in [Blocks -> BlockStates]
  BY DEF IInv, TypeOK, BlocksTypeOK
<1>1. CASE Invalidate
  <2>1. PICK bad \in SUBSET {b \in Blocks : block_state[b] = "CHECKPOINT"} :
          block_state' = [b \in Blocks |->
            IF b \in {x \in Blocks \ bad : block_state[x] = "CHECKPOINT"}
              THEN "EMPTY"
            ELSE IF b \in bad THEN "DEAD" ELSE block_state[b]]
    BY <1>1 DEF Invalidate
  <2>2. UNCHANGED <<pc, del>>
    BY <1>1 DEF Invalidate
  <2>. QED
    BY <2>1, <2>2 DEF ErasingInv
<1>2. CASE WriteStep /\ ~Invalidate
  <2>1. pc # "erase"
    BY <1>2 DEF WriteStep, FindAllocBlock, AllocChunk, WriteFails, NotErased,
       ProgramChunk, WriteSummary, VerifyOk, VerifyFails, SkipRestOfBlock,
       Written, FinishWrite
  <2>2. \A b \in Blocks : block_state'[b] \in {block_state[b], "ALLOCATING", "FULL"}
    <3>1. CASE FindAllocBlock
      <4>1. \E a \in Empty : block_state' = [block_state EXCEPT ![a] = "ALLOCATING"]
        BY <3>1 DEF FindAllocBlock
      <4>. QED
        BY <4>1
    <3>2. CASE AllocChunk \/ SkipRestOfBlock \/ WriteSummary
      BY <3>2 DEF AllocChunk, SkipRestOfBlock, WriteSummary
    <3>3. CASE ~(FindAllocBlock \/ AllocChunk \/ SkipRestOfBlock \/ WriteSummary)
      BY <1>2, <3>3 DEF WriteStep, WriteFails, NotErased, ProgramChunk, VerifyOk,
         VerifyFails, Written, FinishWrite
    <3>. QED
      BY <3>1, <3>2, <3>3
  <2>. QED
    BY <2>1, <2>2 DEF ErasingInv
<1>3. CASE DelStep
  BY <1>3 DEF DelStep, ChunkDel, BecameDirty, EraseOk, RetireBlock, ErasingInv
<1>4. CASE GcStep
  <2>1. pc # "erase"
    BY <1>4 DEF GcStep, SkipGc, ResumeGc, RefreshSelect, PrioritisedSelect,
       OldestForPrioritised, DirtiestSelect, OldestSelect, SelectNone, Searching,
       Collecting, GcBlockStart, CollectSoft, CollectOrphan, CollectCopy,
       CollectNext, CollectLoops, CollectEnd, CollectedSome, CleanUp, CollectedAll
  <2>2. \A b \in Blocks : block_state'[b] \in {block_state[b], "COLLECTING", "FULL"}
    <3>1. CASE GcBlockStart \/ CollectedSome
      BY <3>1 DEF GcBlockStart, CollectedSome
    <3>2. CASE ~(GcBlockStart \/ CollectedSome)
      BY <1>4, <3>2 DEF GcStep, SkipGc, ResumeGc, RefreshSelect, PrioritisedSelect,
         OldestForPrioritised, DirtiestSelect, OldestSelect, SelectNone,
         GcSelected, GcBlockCalled, CollectSoft, CollectOrphan,
         CollectCopy, CollectEnd, CleanUp, CollectedAll
    <3>. QED
      BY <3>1, <3>2
  <2>. QED
    BY <2>1, <2>2 DEF ErasingInv
<1>5. CASE SaveStep
  <2>1. pc # "erase"
    BY <1>5 DEF SaveStep, OpenStream, WriteStream, EndStream, CloseStream,
       CountCheckpt
  <2>2. \A b \in Blocks : block_state'[b] = block_state[b]
                            \/ block_state'[b] = "CHECKPOINT"
    <3>1. CASE FlushOk \/ FlushFails
      BY <3>1, FlushFits
    <3>. QED
      BY <1>5, <3>1 DEF SaveStep, OpenStream, WriteStream, EndStream, CloseStream,
         CountCheckpt
  <2>. QED
    BY <2>1, <2>2 DEF ErasingInv
<1>6. CASE StartStep \/ Begin
  <2>1. pc # "erase" /\ UNCHANGED block_state
    BY <1>6 DEF StartStep, StartData, StartHeader, StartShrink, StartWrite,
       Begin, BeginWrite, BgGc, BeginCall, DeleteChunk, SoftDelChunk,
       ReadError, SaveCheckpt
  <2>. QED
    BY <2>1 DEF ErasingInv
<1>7. CASE Rest \/ UNCHANGED vars
  BY <1>7 DEF Rest, vars, ErasingInv
<1>. QED
  BY <1>1, <1>2, <1>3, <1>4, <1>5, <1>6, <1>7 DEF Next, Step

-----------------------------------------------------------------------------
\* What a call to yaffs_chunk_del sets.
LEMMA CallFields ==
  ASSUME NEW c, NEW to, CallDel(c, to)
  PROVE  pc' = "del" /\ del'.chunk = c /\ del'.ret = to
BY DEF CallDel

\* A step keeps the chunk just written in the block being filled.
LEMMA NewStep ==
  ASSUME IInv, NewInv, [Next]_vars
  PROVE  NewInv'
<1>. /\ HasNew \/ InFinish => call.new[1] \in Blocks
     /\ 0 \notin Blocks
  BY GeometryAssumption DEF IInv, CallInv, Chunks
<1>a. /\ call \in [job : {"none", "write", "bg", "save"}, tries : Nat,
                   copies : Nat, ok : BOOLEAN, ingc : BOOLEAN, reserve : BOOLEAN,
                   shrink : BOOLEAN, old : Chunks \cup {NoChunk},
                   new : Chunks \cup {NoChunk}]
      /\ del.ret \in {"idle", "skip", "finish", "collect", "collected"}
  BY DEF IInv, TypeOK, CallTypeOK
<1>0. ASSUME UNCHANGED <<call, live>>, (HasNew' => HasNew) /\ (InFinish' => InFinish),
             gc_block' \in {gc_block, NoBlock}, gc_dirtiest' \in {gc_dirtiest, NoBlock}
      PROVE  NewInv'
  BY <1>0 DEF NewInv
<1>1. CASE AllocChunk
  <2>1. /\ call'.new = <<alloc_block, alloc_page>> /\ pc' = "program"
        /\ alloc_block # NoBlock
        /\ UNCHANGED <<gc_block, gc_dirtiest>>
    BY <1>1, <1>a DEF AllocChunk
  <2>2. alloc_block \in Blocks /\ block_state[alloc_block] = "ALLOCATING"
    BY <2>1 DEF IInv, AllocInv, TypeOK, AllocTypeOK
  <2>3. alloc_block \notin {gc_block, gc_dirtiest}
    BY <2>2 DEF IInv, GcInv
  <2>. QED
    BY <2>1, <2>3 DEF NewInv
<1>2. CASE Written
  <2>1. /\ call.new \in live' /\ pc = "written" /\ pc' \in {"finish", "del"}
        /\ UNCHANGED <<call, gc_block, gc_dirtiest>>
    BY <1>2 DEF Written, CallDel
  <2>. QED
    BY <2>1 DEF NewInv
<1>3. CASE Invalidate \/ FindAllocBlock \/ WriteFails \/ NotErased
             \/ ProgramChunk \/ WriteSummary \/ VerifyOk \/ VerifyFails
             \/ SkipRestOfBlock \/ FinishWrite
  <2>1. CASE Invalidate
    BY <1>0, <2>1 DEF Invalidate
  <2>2. CASE FindAllocBlock \/ ProgramChunk \/ WriteSummary \/ VerifyOk
    BY <1>0, <2>2 DEF FindAllocBlock, ProgramChunk, WriteSummary, VerifyOk
  <2>3. CASE NotErased \/ VerifyFails
    <3>1. pc' = "del" /\ del'.ret = "skip"
      BY <2>3, CallFields DEF NotErased, VerifyFails
    <3>. QED
      BY <3>1 DEF NewInv
  <2>4. CASE WriteFails \/ SkipRestOfBlock \/ FinishWrite
    <3>1. pc' \in {"collect", "idle", "write"}
      BY <2>4 DEF WriteFails, AfterRefusal, AfterWrite, SkipRestOfBlock, FinishWrite
    <3>. QED
      BY <3>1 DEF NewInv
  <2>. QED
    BY <1>3, <2>1, <2>2, <2>3, <2>4
<1>4. CASE DelStep
  <2>1. UNCHANGED <<call, live>>
    BY <1>4 DEF DelStep, ChunkDel, BecameDirty, EraseOk, RetireBlock
  <2>2. /\ gc_block' \in {gc_block, NoBlock}
        /\ gc_dirtiest' \in {gc_dirtiest, NoBlock}
    BY <1>4 DEF DelStep, ChunkDel, BecameDirty, EraseOk, RetireBlock
  <2>3. /\ pc \in {"del", "dirty", "erase"}
        /\ \/ pc' \in {"dirty", "erase"} /\ del' = del
           \/ pc' = del.ret
    BY <1>4 DEF DelStep, ChunkDel, BecameDirty, EraseOk, RetireBlock
  <2>4. (HasNew' => HasNew) /\ (InFinish' => InFinish)
    BY <1>a, <2>3
  <2>. QED
    BY <1>0, <2>1, <2>2, <2>4
<1>5. CASE GcStep
  <2>1. \/ pc' \in {"idle", "choose", "gc", "gcblk", "collect", "collected", "write"}
        \/ pc' = "dirty" /\ del'.ret = "collected"
        \/ \E c : CallDel(c, "collect") \/ CallDel(c, "collected")
        \/ CleanUp /\ UNCHANGED <<pc, del>>
    <3>1. CASE GcBlockStart
      BY <3>1 DEF GcBlockStart
    <3>2. CASE CleanUp
      BY <3>2 DEF CleanUp
    <3>. QED
      BY <1>5, <3>1, <3>2 DEF GcStep, SkipGc, ResumeGc, RefreshSelect, PrioritisedSelect,
       OldestForPrioritised, DirtiestSelect, OldestSelect, SelectNone,
       GcSelected, GcBlockCalled, CollectSoft, CollectOrphan,
       CollectCopy, CollectEnd, CollectedSome, CollectedAll, EndGc, NextTry
  <2>2. CleanUp => pc = "collected"
    BY DEF CleanUp
  <2>. QED
    BY <2>1, <2>2, CallFields DEF NewInv
<1>6. CASE SaveStep \/ StartStep \/ Begin
  <2>1. \/ pc' \in {"save", "close", "count", "idle", "write", "gc", "open"}
        \/ \E c : CallDel(c, "idle")
        \/ UNCHANGED pc /\ pc = "idle"
    BY <1>6 DEF SaveStep, OpenStream, WriteStream, EndStream, CloseStream,
       CountCheckpt, StartStep, StartData, StartHeader, StartShrink, StartWrite,
       Begin, BeginWrite, BgGc, BeginCall, DeleteChunk, SoftDelChunk,
       ReadError, SaveCheckpt
  <2>. QED
    BY <2>1, CallFields DEF NewInv
<1>7. CASE Rest \/ UNCHANGED vars
  BY <1>7 DEF Rest, vars, NewInv
<1>. QED
  BY <1>1, <1>2, <1>3, <1>4, <1>5, <1>6, <1>7 DEF Next, Step, WriteStep

-----------------------------------------------------------------------------
\* The data stays discarded and the blocks in use; the collector does not
\* select another one.
LEMMA ShadowKept ==
  ASSUME IInv, ShadowInv, shadow' \subseteq shadow,
         \A b, y \in Blocks : <<b, y>> \in shadow' =>
           /\ b \in has_shrink_hdr' /\ Used(b)'
           /\ block_state'[y] \in {"FULL", "COLLECTING", "DIRTY"}
           /\ blk_seq'[b] = blk_seq[b] /\ blk_seq'[y] = blk_seq[y]
           /\ Gone(y)',
         gc_block' \in {gc_block, NoBlock}, gc_dirtiest' \in {gc_dirtiest, NoBlock},
         pc' \in {"dirty", "erase"} =>
           \/ pc \in {"dirty", "erase"} /\ UNCHANGED del
           \/ \A y \in Blocks : <<del'.chunk[1], y>> \notin shadow'
  PROVE  ShadowInv'
<1>1. 0 \notin Blocks
  BY GeometryAssumption
<1>2. \A b, y \in Blocks : <<b, y>> \in shadow' => Shields(b, y)'
  BY <1>1 DEF ShadowInv, Shields
<1>3. pc' \in {"dirty", "erase"} =>
        \A y \in Blocks : <<del'.chunk[1], y>> \notin shadow'
  BY DEF ShadowInv
<1>. QED
  BY <1>2, <1>3 DEF ShadowInv

\* Steps that discard chunks at most.
LEMMA QuietShadow ==
  ASSUME IInv, ShadowInv, pc # "del", pc' \notin {"dirty", "erase"},
         programmed \subseteq programmed', soft \subseteq soft',
         UNCHANGED <<block_state, blk_seq, chunk_bits, has_shrink_hdr, shadow>>,
         gc_block' \in {gc_block, NoBlock}, gc_dirtiest' \in {gc_dirtiest, NoBlock}
  PROVE  ShadowInv'
<1>1. \A y : Gone(y) => Gone(y)'
  BY DEF Gone
<1>2. \A b, y \in Blocks : <<b, y>> \in shadow' =>
           /\ b \in has_shrink_hdr' /\ Used(b)'
           /\ block_state'[y] \in {"FULL", "COLLECTING", "DIRTY"}
           /\ blk_seq'[b] = blk_seq[b] /\ blk_seq'[y] = blk_seq[y]
           /\ Gone(y)'
  BY <1>1 DEF ShadowInv, Shields, Used
<1>. QED
  BY <1>2, ShadowKept

\* Steps that change the states of blocks, and set bits where no data is
\* discarded.
LEMMA StatesShadow ==
  ASSUME IInv, ShadowInv, pc # "del",
         UNCHANGED <<has_shrink_hdr, soft, shadow, gc_block, gc_dirtiest, del>>,
         \A b \in Blocks : Used(b) =>
           /\ Used(b)' /\ blk_seq'[b] = blk_seq[b]
           /\ block_state[b] # "ALLOCATING" =>
                /\ block_state'[b] # "ALLOCATING"
                /\ \A p \in 0 .. LastDataPage :
                     /\ <<b, p>> \in programmed => <<b, p>> \in programmed'
                     /\ <<b, p>> \in chunk_bits' => <<b, p>> \in chunk_bits,
         pc' \in {"dirty", "erase"} => pc \in {"dirty", "erase"}
  PROVE  ShadowInv'
<1>1. ASSUME NEW b \in Blocks, NEW y \in Blocks, <<b, y>> \in shadow'
      PROVE  /\ b \in has_shrink_hdr' /\ Used(b)'
             /\ block_state'[y] \in {"FULL", "COLLECTING", "DIRTY"}
             /\ blk_seq'[b] = blk_seq[b] /\ blk_seq'[y] = blk_seq[y]
             /\ Gone(y)'
  <2>1. Shields(b, y)
    BY <1>1 DEF ShadowInv
  <2>2. Used(y) /\ block_state[y] # "ALLOCATING"
    BY <2>1 DEF Shields, Used
  <2>3. Gone(y)'
    BY <2>1, <2>2 DEF Shields, Gone
  <2>. QED
    BY <2>1, <2>2, <2>3 DEF Shields, Used
<1>. QED
  BY <1>1, ShadowKept

\* A shrink header goes to a block that the collector has not in mind.
LEMMA FinishShadow ==
  ASSUME IInv, NewInv, ShadowInv, FinishWrite
  PROVE  ShadowInv'
<1>1. /\ pc = "finish" /\ pc' \notin {"dirty", "erase", "del"}
      /\ UNCHANGED <<block_state, blk_seq, chunk_bits, soft, programmed, gc_block,
                     gc_dirtiest>>
  BY DEF FinishWrite, AfterWrite
<1>2. CASE ~call.shrink
  BY <1>1, <1>2, QuietShadow DEF FinishWrite
<1>3. CASE call.shrink
  <2>0. PICK n : n = call.new[1]
    OBVIOUS
  <2>1. /\ has_shrink_hdr' = has_shrink_hdr \cup {n}
        /\ shadow' = shadow \cup ({n} \X DiscardedBefore(n))
    BY <1>3, <2>0 DEF FinishWrite
  <2>2. n \in Blocks /\ Used(n) /\ n \notin {gc_block, gc_dirtiest}
    BY <1>1, <2>0 DEF NewInv, IInv, TypeOK, ClientTypeOK, BitsInv, Chunks, Used
  <2>3. blk_seq \in [Blocks -> Nat] /\ seq_number \in Nat /\ blk_seq[n] <= seq_number
    BY <2>2 DEF IInv, TypeOK, AllocTypeOK, SeqInv
  <2>4. ASSUME NEW y \in DiscardedBefore(n)
        PROVE  Shields(n, y)'
    <3>1. /\ y \in Blocks /\ blk_seq[y] < blk_seq[n]
          /\ block_state[y] \in {"ALLOCATING", "FULL", "COLLECTING"}
      BY DEF DiscardedBefore
    <3>2. block_state[y] # "ALLOCATING"
      <4>1. 0 \notin Blocks
        BY GeometryAssumption
      <4>2. block_state[y] = "ALLOCATING" => blk_seq[y] = seq_number
        BY <3>1, <4>1 DEF IInv, AllocInv
      <4>. QED
        BY <2>2, <2>3, <3>1, <4>2
    <3>3. Gone(y)'
      BY <1>1 DEF DiscardedBefore, Gone
    <3>. QED
      BY <1>1, <2>1, <2>2, <3>1, <3>2, <3>3 DEF Shields, Used
  <2>5. ASSUME NEW b \in Blocks, NEW y \in Blocks, <<b, y>> \in shadow
        PROVE  Shields(b, y)'
    <3>1. Shields(b, y)
      BY <2>5 DEF ShadowInv
    <3>2. Gone(y) => Gone(y)'
      BY <1>1 DEF Gone
    <3>. QED
      BY <1>1, <2>1, <3>1, <3>2 DEF Shields, Used
  <2>. QED
    BY <1>1, <2>1, <2>4, <2>5 DEF ShadowInv
<1>. QED
  BY <1>2, <1>3

\* Writes move blocks through the log and discard nothing.
LEMMA WriteShadow ==
  ASSUME IInv, PagesInv, NewInv, ShadowInv, WriteStep
  PROVE  ShadowInv'
<1>. /\ block_state \in [Blocks -> BlockStates] /\ blk_seq \in [Blocks -> Nat]
     /\ alloc_block \in Blocks \cup {NoBlock}
     /\ LastDataPage \in Int
     /\ alloc_block # NoBlock => block_state[alloc_block] = "ALLOCATING"
  BY GeometryAssumption DEF IInv, TypeOK, BlocksTypeOK, AllocTypeOK, LastDataPage,
     AllocInv
<1>1. CASE Invalidate
  <2>1. PICK bad \in SUBSET {b \in Blocks : block_state[b] = "CHECKPOINT"} :
          /\ block_state' = [b \in Blocks |->
               IF b \in {x \in Blocks \ bad : block_state[x] = "CHECKPOINT"}
                 THEN "EMPTY"
               ELSE IF b \in bad THEN "DEAD" ELSE block_state[b]]
          /\ programmed' = {c \in programmed :
               c[1] \notin {x \in Blocks \ bad : block_state[x] = "CHECKPOINT"}}
    BY <1>1 DEF Invalidate
  <2>2. /\ pc # "del" /\ pc' = pc
        /\ UNCHANGED <<chunk_bits, blk_seq, soft, has_shrink_hdr, shadow, gc_block,
                       gc_dirtiest, del>>
    BY <1>1 DEF Invalidate
  <2>3. \A b \in Blocks : Used(b) =>
          /\ block_state'[b] = block_state[b]
          /\ \A p \in 0 .. LastDataPage :
               <<b, p>> \in programmed => <<b, p>> \in programmed'
    BY <2>1 DEF Used
  <2>. QED
    BY <2>2, <2>3, StatesShadow DEF Used
<1>2. CASE FindAllocBlock
  <2>1. PICK a \in Empty : /\ block_state' = [block_state EXCEPT ![a] = "ALLOCATING"]
                           /\ blk_seq' = [blk_seq EXCEPT ![a] = NextSeq]
    BY <1>2 DEF FindAllocBlock
  <2>2. /\ pc = "write" /\ pc' = pc
        /\ UNCHANGED <<chunk_bits, programmed, soft, has_shrink_hdr, shadow,
                       gc_block, gc_dirtiest, del>>
    BY <1>2 DEF FindAllocBlock
  <2>3. \A b \in Blocks : Used(b) =>
          block_state'[b] = block_state[b] /\ blk_seq'[b] = blk_seq[b]
    BY <2>1 DEF Used, Empty
  <2>. QED
    BY <2>2, <2>3, StatesShadow DEF Used
<1>3. CASE AllocChunk \/ SkipRestOfBlock
  <2>1. /\ chunk_bits' \in {chunk_bits, chunk_bits \cup {<<alloc_block, alloc_page>>}}
        /\ pc \in {"write", "skip"} /\ pc' \in {"program", "write"}
        /\ UNCHANGED <<blk_seq, programmed, soft, has_shrink_hdr, shadow,
                       gc_block, gc_dirtiest, del>>
        /\ \/ UNCHANGED block_state
           \/ block_state' = [block_state EXCEPT ![alloc_block] = "FULL"]
    BY <1>3 DEF AllocChunk, SkipRestOfBlock
  <2>2. \A b \in Blocks : Used(b) => Used(b)' /\
          (block_state[b] # "ALLOCATING" =>
             /\ block_state'[b] = block_state[b]
             /\ \A p \in 0 .. LastDataPage : <<b, p>> \in chunk_bits' => <<b, p>> \in chunk_bits)
    BY <2>1, GeometryAssumption DEF Used
  <2>. QED
    BY <2>1, <2>2, StatesShadow
<1>4. CASE WriteSummary
  <2> DEFINE a == call.new[1]
  <2>1. a \in Blocks /\ Used(a)
    BY <1>4 DEF WriteSummary, IInv, CallInv, BitsInv, Chunks, Used
  <2>2. PICK n \in 0 .. SummaryChunks :
          /\ chunk_bits' = chunk_bits \cup ({a} \X (LastDataPage + 1 .. LastDataPage + n))
          /\ programmed \subseteq programmed'
          /\ block_state' = [block_state EXCEPT ![a] = "FULL"]
    BY <1>4 DEF WriteSummary
  <2>3. /\ pc = "summary" /\ pc' = "verify"
        /\ UNCHANGED <<blk_seq, soft, has_shrink_hdr, shadow, gc_block, gc_dirtiest, del>>
    BY <1>4 DEF WriteSummary
  <2>4. \A b \in Blocks : \A p \in 0 .. LastDataPage :
          <<b, p>> \in chunk_bits' => <<b, p>> \in chunk_bits
    BY <2>2, GeometryAssumption
  <2>5. \A b \in Blocks : Used(b) => Used(b)' /\ block_state'[b] \in {block_state[b], "FULL"}
    BY <2>1, <2>2 DEF Used
  <2>. QED
    BY <2>2, <2>3, <2>4, <2>5, StatesShadow
<1>5. CASE WriteFails \/ NotErased \/ ProgramChunk \/ VerifyOk \/ VerifyFails
             \/ Written
  <2>1. /\ pc # "del" /\ pc' \notin {"dirty", "erase"}
        /\ programmed \subseteq programmed'
        /\ UNCHANGED <<block_state, blk_seq, chunk_bits, soft, has_shrink_hdr,
                       shadow, gc_block, gc_dirtiest>>
    BY <1>5 DEF WriteFails, NotErased, ProgramChunk, Program, VerifyOk,
       VerifyFails, Written, CallDel, AfterRefusal, AfterWrite
  <2>. QED
    BY <2>1, QuietShadow
<1>. QED
  BY <1>1, <1>2, <1>3, <1>4, <1>5, FinishShadow DEF WriteStep

\* A block with a shrink header is not erased when its last chunk is deleted;
\* a block that is erased is forgotten.
LEMMA DelShadow ==
  ASSUME IInv, ShadowInv, DelStep
  PROVE  ShadowInv'
<1>. /\ block_state \in [Blocks -> BlockStates] /\ blk_seq \in [Blocks -> Nat]
     /\ del.ret \in {"idle", "skip", "finish", "collect", "collected"}
     /\ shadow \subseteq Blocks \X Blocks
  BY DEF IInv, TypeOK, BlocksTypeOK, AllocTypeOK, CallTypeOK, ClientTypeOK
<1> DEFINE d == del.chunk[1]
<1>0. d \in Blocks
  BY DEF DelStep, ChunkDel, BecameDirty, EraseOk, RetireBlock, IInv, CallInv,
         Chunks
<1>1. CASE ChunkDel
  <2>1. /\ chunk_bits' = chunk_bits \ {del.chunk}
        /\ UNCHANGED <<block_state, blk_seq, soft, programmed, has_shrink_hdr,
                       shadow, gc_block, gc_dirtiest>>
    BY <1>1 DEF ChunkDel
  <2>2. \A y : Gone(y) => Gone(y)'
    BY <2>1 DEF Gone
  <2>3. pc' \in {"dirty", "erase"} => d \notin has_shrink_hdr /\ UNCHANGED del
    BY <1>1 DEF ChunkDel, LeftDirty
  <2>4. \A y \in Blocks : d \notin has_shrink_hdr => <<d, y>> \notin shadow
    BY <1>0 DEF ShadowInv, Shields
  <2>5. \A b, y \in Blocks : <<b, y>> \in shadow' =>
           /\ b \in has_shrink_hdr' /\ Used(b)'
           /\ block_state'[y] \in {"FULL", "COLLECTING", "DIRTY"}
           /\ blk_seq'[b] = blk_seq[b] /\ blk_seq'[y] = blk_seq[y]
           /\ Gone(y)'
    BY <2>1, <2>2 DEF ShadowInv, Shields, Used
  <2>. QED
    BY <2>1, <2>3, <2>4, <2>5, ShadowKept
<1>2. CASE BecameDirty
  <2>1. /\ block_state' = [block_state EXCEPT ![d] = "DIRTY"]
        /\ pc = "dirty" /\ pc' = "erase"
        /\ gc_block' \in {gc_block, NoBlock}
        /\ gc_dirtiest' \in {gc_dirtiest, NoBlock}
        /\ UNCHANGED <<chunk_bits, blk_seq, soft, programmed, has_shrink_hdr,
                       shadow, del>>
    BY <1>2 DEF BecameDirty
  <2>2. \A y : Gone(y) => Gone(y)'
    BY <2>1 DEF Gone
  <2>3. \A b, y \in Blocks : <<b, y>> \in shadow' =>
           /\ b \in has_shrink_hdr' /\ Used(b)'
           /\ block_state'[y] \in {"FULL", "COLLECTING", "DIRTY"}
           /\ blk_seq'[b] = blk_seq[b] /\ blk_seq'[y] = blk_seq[y]
           /\ Gone(y)'
    BY <2>1, <2>2 DEF ShadowInv, Shields, Used
  <2>. QED
    BY <2>1, <2>3, ShadowKept
<1>3. CASE EraseOk \/ RetireBlock
  <2>1. /\ \A x \in Blocks : x # d => block_state'[x] = block_state[x]
                                     /\ blk_seq'[x] = blk_seq[x]
        /\ shadow' = {s \in shadow : d \notin {s[1], s[2]}}
        /\ has_shrink_hdr \ {d} \subseteq has_shrink_hdr'
        /\ chunk_bits' \subseteq chunk_bits
        /\ \A c \in programmed : c[1] # d => c \in programmed'
        /\ pc = "erase" /\ pc' \notin {"dirty", "erase"}
        /\ UNCHANGED <<soft, gc_block, gc_dirtiest>>
    BY <1>3 DEF EraseOk, RetireBlock
  <2>2. \A y \in Blocks : y # d /\ Gone(y) => Gone(y)'
    BY <2>1 DEF Gone
  <2>3. ASSUME NEW b \in Blocks, NEW y \in Blocks, <<b, y>> \in shadow'
        PROVE  /\ b \in has_shrink_hdr' /\ Used(b)'
               /\ block_state'[y] \in {"FULL", "COLLECTING", "DIRTY"}
               /\ blk_seq'[b] = blk_seq[b] /\ blk_seq'[y] = blk_seq[y]
               /\ Gone(y)'
    <3>1. b # d /\ y # d /\ <<b, y>> \in shadow
      BY <2>1, <2>3
    <3>2. Shields(b, y)
      BY <3>1 DEF ShadowInv
    <3>. QED
      BY <2>1, <2>2, <3>1, <3>2 DEF Shields, Used
  <2>4. shadow' \subseteq shadow
    BY <2>1
  <2>. QED
    BY <2>1, <2>3, <2>4, ShadowKept
<1>. QED
  BY <1>1, <1>2, <1>3 DEF DelStep

\* While the collector looks for a block, data is discarded in full blocks only.
LEMMA ShieldedTracked ==
  ASSUME IInv, ErasingInv, ShadowInv, pc = "gc", gc_block = NoBlock,
         NEW b \in Blocks, NEW y \in Blocks, <<b, y>> \in shadow
  PROVE  /\ b \in has_shrink_hdr
         /\ block_state[y] = "FULL" /\ InLog(y) /\ Discarded(y)
         /\ blk_seq[y] < blk_seq[b]
<1>1. Shields(b, y)
  BY DEF ShadowInv
<1>2. block_state[y] \notin {"DIRTY", "COLLECTING"}
  BY NothingCollecting DEF ErasingInv
<1>3. Discarded(y)
  BY <1>1 DEF Shields, Gone, Discarded
<1>. QED
  BY <1>1, <1>2, <1>3 DEF Shields, InLog

\* The oldest dirty block has no shrink header for an older one.
LEMMA OldestFree ==
  ASSUME IInv, TrackInv, ErasingInv, ShadowInv, pc = "gc", gc_block = NoBlock,
         NEW o \in {oldest_dirty, Oldest}, o.block # NoBlock,
         NEW y \in Blocks
  PROVE  <<o.block, y>> \notin shadow
<1>. /\ blk_seq \in [Blocks -> Nat]
     /\ oldest_dirty \in [seq : Nat, block : Blocks \cup {NoBlock}]
     /\ Oldest \in [seq : Nat, block : Blocks \cup {NoBlock}]
  BY OldestFit DEF IInv, TypeOK, AllocTypeOK, GcTypeOK
<1>1. o.block \in Blocks /\ o.seq # 0 /\ blk_seq[o.block] = o.seq
  BY OldestFit DEF IInv, GcInv
<1>2. SUFFICES ASSUME <<o.block, y>> \in shadow
               PROVE  FALSE
  OBVIOUS
<1>3. InLog(y) /\ Discarded(y) /\ blk_seq[y] < blk_seq[o.block]
  BY <1>1, <1>2, ShieldedTracked
<1>4. o.seq <= blk_seq[y]
  <2>1. CASE o = oldest_dirty
    BY <1>1, <1>3, <2>1 DEF TrackInv
  <2>2. CASE o = Oldest
    BY <1>3, <2>2, OldestTracks
  <2>. QED
    BY <2>1, <2>2
<1>. QED
  BY <1>1, <1>3, <1>4

\* yaffs_block_ok_for_gc holds of no block with a shrink header for an older one.
LEMMA FitFree ==
  ASSUME IInv, TrackInv, ErasingInv, ShadowInv, pc = "gc", gc_block = NoBlock,
         NEW b \in Blocks, OkForGc(b), NEW y \in Blocks
  PROVE  <<b, y>> \notin shadow
<1>. /\ blk_seq \in [Blocks -> Nat]
     /\ Oldest \in [seq : Nat, block : Blocks \cup {NoBlock}]
  BY OldestFit DEF IInv, TypeOK, AllocTypeOK
<1>1. SUFFICES ASSUME <<b, y>> \in shadow
               PROVE  FALSE
  OBVIOUS
<1>2. /\ InLog(y) /\ Discarded(y) /\ blk_seq[y] < blk_seq[b]
      /\ b \in has_shrink_hdr
  BY <1>1, ShieldedTracked
<1>3. Oldest.seq <= blk_seq[y] /\ blk_seq[b] <= Oldest.seq
  BY <1>2, OldestTracks DEF OkForGc
<1>. QED
  BY <1>2, <1>3

\* The collector takes a block that shields no other.
LEMMA SelectShadow ==
  ASSUME IInv, ShadowInv, pc = "gc",
         pc' \notin {"del", "dirty", "erase"},
         UNCHANGED <<block_state, blk_seq, chunk_bits, soft, programmed,
                     has_shrink_hdr, shadow>>,
         NEW b \in Blocks, \A y \in Blocks : <<b, y>> \notin shadow,
         gc_block' \in {gc_block, NoBlock, b},
         gc_dirtiest' \in {gc_dirtiest, NoBlock, b}
  PROVE  ShadowInv'
<1>1. \A y : Gone(y) => Gone(y)'
  BY DEF Gone
<1>2. 0 \notin Blocks
  BY GeometryAssumption
<1>. QED
  BY <1>1, <1>2 DEF ShadowInv, Shields, Used

\* Whatever the collector selects shields no block.
LEMMA SearchShadow ==
  ASSUME IInv, TrackInv, ErasingInv, ShadowInv,
         ResumeGc \/ RefreshSelect \/ PrioritisedSelect \/ OldestForPrioritised
           \/ DirtiestSelect \/ OldestSelect \/ SelectNone
  PROVE  ShadowInv'
<1>0. /\ pc = "gc" /\ pc' \in {"gcblk", "choose", "idle"}
      /\ UNCHANGED <<block_state, blk_seq, chunk_bits, soft, programmed,
                     has_shrink_hdr, shadow>>
  BY DEF ResumeGc, RefreshSelect, PrioritisedSelect, OldestForPrioritised,
     DirtiestSelect, OldestSelect, SelectNone, Searching, Collecting,
     GcSelected, GcBlockCalled, EndGc
<1>1. CASE ResumeGc
  <2>1. UNCHANGED <<gc_block, gc_dirtiest>>
    BY <1>1 DEF ResumeGc, GcBlockCalled
  <2>. QED
    BY <1>0, <2>1, QuietShadow
<1>2. CASE RefreshSelect
  <2>1. PICK b \in Blocks : /\ IsOldestIn(b, {c \in Blocks : block_state[c] = "FULL"})
                            /\ GcBlockCalled(b)
    BY <1>2 DEF RefreshSelect
  <2>2. gc_block = NoBlock /\ gc_block' = b /\ gc_dirtiest' = gc_dirtiest
    BY <1>2, <2>1 DEF RefreshSelect, GcBlockCalled
  <2>3. \A y \in Blocks : <<b, y>> \notin shadow
    <3>1. SUFFICES ASSUME NEW y \in Blocks, <<b, y>> \in shadow
                   PROVE  FALSE
      OBVIOUS
    <3>2. block_state[y] = "FULL" /\ blk_seq[y] < blk_seq[b]
      BY <1>0, <2>2, <3>1, ShieldedTracked
    <3>3. blk_seq[b] <= blk_seq[y] /\ blk_seq \in [Blocks -> Nat]
      BY <2>1, <3>2 DEF IsOldestIn, IInv, TypeOK, AllocTypeOK
    <3>. QED
      BY <3>2, <3>3
  <2>. QED
    BY <1>0, <2>2, <2>3, SelectShadow
<1>3. CASE PrioritisedSelect
  <2>1. PICK b \in Prioritised : GcSelected(b)
    BY <1>3 DEF PrioritisedSelect
  <2>2. /\ b \in Blocks /\ OkForGc(b)
        /\ gc_block = NoBlock /\ gc_block' = b /\ gc_dirtiest' = NoBlock
    BY <1>3, <2>1 DEF PrioritisedSelect, Searching, Prioritised, GcSelected,
       GcBlockCalled, IInv, TypeOK, MarksTypeOK
  <2>3. \A y \in Blocks : <<b, y>> \notin shadow
    BY <1>0, <2>2, FitFree
  <2>. QED
    BY <1>0, <2>2, <2>3, SelectShadow
<1>4. CASE OldestForPrioritised \/ OldestSelect
  <2>1. /\ oldest_dirty' \in {oldest_dirty, Oldest}
        /\ oldest_dirty'.block # NoBlock
        /\ GcSelected(oldest_dirty'.block)
        /\ gc_block = NoBlock
    BY <1>4 DEF OldestForPrioritised, OldestSelect, OldestMayBeFound, Searching
  <2>2. PICK o \in {oldest_dirty, Oldest} : o = oldest_dirty'
    BY <2>1
  <2>3. o.block \in Blocks
    BY <2>1, <2>2, OldestFit DEF IInv, TypeOK, GcTypeOK
  <2>4. \A y \in Blocks : <<o.block, y>> \notin shadow
    BY <1>0, <2>1, <2>2, OldestFree
  <2>5. gc_block' = o.block /\ gc_dirtiest' = NoBlock
    BY <2>1, <2>2 DEF GcSelected, GcBlockCalled
  <2>. QED
    BY <1>0, <2>3, <2>4, <2>5, SelectShadow
<1>5. CASE DirtiestSelect \/ SelectNone
  <2>1. PICK d \in Blocks \cup {NoBlock} :
          /\ IsDirtiest(d)
          /\ gc_block' \in {gc_block, d} /\ gc_dirtiest' \in {NoBlock, d}
    BY <1>5 DEF DirtiestSelect, SelectNone, GcSelected, GcBlockCalled
  <2>2. gc_block = NoBlock
    BY <1>5 DEF DirtiestSelect, SelectNone, Searching
  <2>3. CASE d \in Candidates
    <3>1. d \in Blocks /\ OkForGc(d)
      BY <2>3 DEF Candidates, PartlyUsed
    <3>2. \A y \in Blocks : <<d, y>> \notin shadow
      BY <1>0, <2>2, <3>1, FitFree
    <3>. QED
      BY <1>0, <2>1, <3>1, <3>2, SelectShadow
  <2>4. CASE d = gc_dirtiest /\ d \in Blocks
    <3>1. \A y \in Blocks : <<d, y>> \notin shadow
      BY <2>4 DEF ShadowInv, Shields
    <3>. QED
      BY <1>0, <2>1, <2>4, <3>1, SelectShadow
  <2>5. CASE d = NoBlock
    BY <1>0, <2>1, <2>2, <2>5, QuietShadow
  <2>. QED
    BY <2>1, <2>3, <2>4, <2>5 DEF IsDirtiest
<1>. QED
  BY <1>1, <1>2, <1>3, <1>4, <1>5

\* A collection takes the shrink header of its block away, and no other.
LEMMA GcShadow ==
  ASSUME IInv, TrackInv, ErasingInv, ShadowInv, GcStep
  PROVE  ShadowInv'
<1>. /\ block_state \in [Blocks -> BlockStates] /\ blk_seq \in [Blocks -> Nat]
     /\ LastDataPage \in Int
     /\ gc_block \in Blocks \cup {NoBlock}
  BY GeometryAssumption DEF IInv, TypeOK, BlocksTypeOK, AllocTypeOK, LastDataPage,
     GcTypeOK
<1>1. CASE GcBlockStart
  <2>1. /\ block_state' = [block_state EXCEPT ![gc_block] = "COLLECTING"]
        /\ has_shrink_hdr' = has_shrink_hdr \ {gc_block}
        /\ chunk_bits' \subseteq chunk_bits
        /\ pc = "gcblk"
        /\ pc' \in {"dirty", "erase"} => del'.chunk = <<gc_block, 0>>
        /\ UNCHANGED <<blk_seq, soft, programmed, shadow, gc_block, gc_dirtiest>>
    BY <1>1 DEF GcBlockStart
  <2>2. gc_block \in Blocks
    BY <2>1 DEF IInv, CallInv
  <2>3. \A y : Gone(y) => Gone(y)'
    BY <2>1 DEF Gone
  <2>4. ASSUME NEW b \in Blocks, NEW y \in Blocks, <<b, y>> \in shadow
        PROVE  /\ b # gc_block
               /\ b \in has_shrink_hdr' /\ Used(b)'
               /\ block_state'[y] \in {"FULL", "COLLECTING", "DIRTY"}
               /\ blk_seq'[b] = blk_seq[b] /\ blk_seq'[y] = blk_seq[y]
               /\ Gone(y)'
    <3>1. Shields(b, y)
      BY <2>4 DEF ShadowInv
    <3>. QED
      BY <2>1, <2>2, <2>3, <3>1 DEF Shields, Used
  <2>5. pc' \in {"dirty", "erase"} => \A y \in Blocks : <<del'.chunk[1], y>> \notin shadow'
    BY <2>1, <2>2, <2>4
  <2>. QED
    BY <2>1, <2>4, <2>5, ShadowKept
<1>2. CASE CollectSoft
  <2>1. PICK p \in Pages : /\ soft' = soft \ {<<gc_block, p>>}
                           /\ CallDel(<<gc_block, p>>, "collect")
    BY <1>2 DEF CollectSoft
  <2>2. /\ pc = "collect"
        /\ UNCHANGED <<block_state, blk_seq, chunk_bits, programmed, has_shrink_hdr,
                       shadow, gc_block, gc_dirtiest>>
    BY <1>2 DEF CollectSoft, CollectNext, CollectLoops
  <2>3. pc' = "del" /\ del'.chunk = <<gc_block, p>>
    BY <2>1 DEF CallDel
  <2>4. \A y : Gone(y) => Gone(y)'
    BY <2>1, <2>2, <2>3 DEF Gone
  <2>5. \A b, y \in Blocks : <<b, y>> \in shadow' =>
           /\ b \in has_shrink_hdr' /\ Used(b)'
           /\ block_state'[y] \in {"FULL", "COLLECTING", "DIRTY"}
           /\ blk_seq'[b] = blk_seq[b] /\ blk_seq'[y] = blk_seq[y]
           /\ Gone(y)'
    BY <2>2, <2>4 DEF ShadowInv, Shields, Used
  <2>. QED
    BY <2>2, <2>3, <2>5, ShadowKept
<1>3. CASE CollectedSome
  <2>1. /\ block_state' = [block_state EXCEPT ![gc_block] = "FULL"]
        /\ pc = "collected" /\ pc' \in {"gc", "choose", "idle"}
        /\ UNCHANGED <<blk_seq, chunk_bits, soft, programmed, has_shrink_hdr,
                       shadow, gc_block, gc_dirtiest, del>>
    BY <1>3 DEF CollectedSome, NextTry, EndGc
  <2>. QED
    BY <2>1, StatesShadow DEF Used
<1>4. CASE SkipGc \/ CollectOrphan \/ CollectCopy \/ CollectEnd \/ CleanUp
             \/ CollectedAll
  <2>1. /\ pc # "del" /\ pc' \notin {"dirty", "erase"}
        /\ UNCHANGED <<block_state, blk_seq, chunk_bits, soft, programmed,
                       has_shrink_hdr, shadow, gc_block, gc_dirtiest>>
    BY <1>4 DEF SkipGc, CollectOrphan, CollectCopy, CollectNext, CollectLoops,
       CollectEnd, CleanUp, CollectedAll, EndGc, NextTry, CallDel
  <2>. QED
    BY <2>1, QuietShadow
<1>. QED
  BY <1>1, <1>2, <1>3, <1>4, SearchShadow DEF GcStep

\* A save writes to blocks that are not in the log.
LEMMA SaveShadow ==
  ASSUME IInv, ShadowInv, SaveStep
  PROVE  ShadowInv'
<1>1. /\ pc # "del" /\ pc' \notin {"dirty", "erase"}
      /\ UNCHANGED <<blk_seq, chunk_bits, soft, has_shrink_hdr, shadow,
                     gc_block, gc_dirtiest, del>>
  BY DEF SaveStep, OpenStream, WriteStream, EndStream, CloseStream, CountCheckpt
<1>2. \/ FlushOk \/ FlushFails
      \/ UNCHANGED <<block_state, programmed>>
  BY DEF SaveStep, OpenStream, WriteStream, EndStream, CloseStream, CountCheckpt
<1>3. /\ programmed \subseteq programmed'
      /\ \A b \in Blocks : Used(b) => block_state'[b] = block_state[b]
  BY <1>2, FlushFits DEF Used
<1>. QED
  BY <1>1, <1>3, StatesShadow DEF Used

\* A step keeps what a shrink header stands for shielded.
LEMMA ShadowStep ==
  ASSUME IInv, PagesInv, TrackInv, ErasingInv, NewInv, ShadowInv, [Next]_vars
  PROVE  ShadowInv'
<1>1. CASE StartStep \/ Begin
  <2>1. /\ pc # "del" /\ pc' \notin {"dirty", "erase"}
        /\ soft \subseteq soft'
        /\ UNCHANGED <<block_state, blk_seq, chunk_bits, programmed,
                       has_shrink_hdr, shadow, gc_block, gc_dirtiest>>
    BY <1>1 DEF StartStep, StartData, StartHeader, StartShrink, StartWrite,
       Begin, BeginWrite, BgGc, BeginCall, DeleteChunk, SoftDelChunk,
       ReadError, SaveCheckpt, CallDel
  <2>. QED
    BY <2>1, QuietShadow
<1>2. CASE Rest \/ UNCHANGED vars
  BY <1>2 DEF Rest, vars, ShadowInv, Shields, Gone, Used
<1>. QED
  BY <1>1, <1>2, WriteShadow, DelShadow, GcShadow, SaveShadow DEF Next, Step

\* A shrink header keeps data discarded before it from coming back in a scan:
\* its block is not collected, hence not erased, while an older block holds
\* such data.
THEOREM ShrinkHeadersOutlive == Spec /\ []SaveFindsRoom => []ShrinkHeaderOutlives
<1> DEFINE Inv == /\ PagesInv /\ StreamInv /\ TrackInv
                  /\ ErasingInv /\ NewInv /\ ShadowInv
<1>1. Init => Inv
  BY DEF Init, PagesInv, PagesWrittenOnce, StreamInv, TrackInv, NoOldest,
     ErasingInv, NewInv, ShadowInv
<1>2. IInv /\ Inv /\ SaveFindsRoom /\ [Next]_vars => Inv'
  BY OnceStep, TrackStep, ErasingStep, NewStep, ShadowStep
<1>3. IInv /\ Inv => ShrinkHeaderOutlives
  <2>1. ASSUME IInv, ShadowInv, pc = "erase", NEW s \in shadow
        PROVE  s[1] # del.chunk[1]
    <3>1. s[1] \in Blocks /\ s[2] \in Blocks /\ s = <<s[1], s[2]>>
      BY <2>1 DEF IInv, TypeOK, ClientTypeOK
    <3>. QED
      BY <2>1, <3>1 DEF ShadowInv
  <2>. QED
    BY <2>1 DEF ShrinkHeaderOutlives
<1>. QED
  BY <1>1, <1>2, <1>3, Invariant, PTL DEF Spec

-----------------------------------------------------------------------------
(***************************************************************************)
(* A collection leaves nothing behind its cursor.                          *)
(***************************************************************************)

\* The collector's copies may use the reserve.
CopyInv == call.ingc => call.reserve

\* The chunk of the block being collected is being deleted or copied.
BeingMoved(p) ==
  \/ InDel /\ del.chunk = <<gc_block, p>>
  \/ call.ingc /\ InWrite /\ call.old = <<gc_block, p>>

\* What lies behind the cursor of the collector and still has data is on its
\* way out.
CursorInv ==
  gc_block # NoBlock =>
    \A p \in Pages : p < gc_chunk /\ <<gc_block, p>> \in chunk_bits => BeingMoved(p)

\* Only the collector starts a copy, and it sets both flags.
LEMMA CopyStep ==
  ASSUME IInv, CopyInv, [Next]_vars
  PROVE  CopyInv'
<1>a. call \in [job : {"none", "write", "bg", "save"}, tries : Nat,
                copies : Nat, ok : BOOLEAN, ingc : BOOLEAN, reserve : BOOLEAN,
                shrink : BOOLEAN, old : Chunks \cup {NoChunk},
                new : Chunks \cup {NoChunk}]
  BY DEF IInv, TypeOK, CallTypeOK
<1>b. NoCall.ingc = FALSE /\ CallAfterWrite.ingc = FALSE
      /\ [CallAfterWrite EXCEPT !.ok = ~call.ingc].ingc = FALSE
  BY <1>a DEF NoCall, CallAfterWrite
<1>1. CASE WriteStep
  <2>1. \/ UNCHANGED call
        \/ call' \in {CallAfterWrite, [CallAfterWrite EXCEPT !.ok = ~call.ingc]}
        \/ call' = [call EXCEPT !.new = <<alloc_block, alloc_page>>]
        \/ call' = [call EXCEPT !.new = NoChunk]
    BY <1>1 DEF WriteStep, Invalidate, FindAllocBlock, AllocChunk, WriteFails,
       NotErased, ProgramChunk, WriteSummary, VerifyOk, VerifyFails,
       SkipRestOfBlock, Written, FinishWrite
  <2>. QED
    BY <1>a, <1>b, <2>1 DEF CopyInv
<1>2. CASE DelStep
  BY <1>2 DEF DelStep, ChunkDel, BecameDirty, EraseOk, RetireBlock, CopyInv
<1>3. CASE GcStep
  <2>1. CASE CollectCopy
    <3>1. \E c : call' = [call EXCEPT !.copies = @ - 1, !.ingc = TRUE,
                                      !.reserve = TRUE, !.old = c]
      BY <2>1 DEF CollectCopy
    <3>. QED
      BY <1>a, <3>1 DEF CopyInv
  <2>2. CASE ~CollectCopy
    <3>1. \/ UNCHANGED call
          \/ call' = NoCall
          \/ call' = [call EXCEPT !.tries = @ + 1]
          \/ call' = [call EXCEPT !.copies = @ - 1]
          \/ \E n : call' = [call EXCEPT !.ok = TRUE, !.copies = n]
      <4>1. CASE GcBlockStart
        BY <4>1 DEF GcBlockStart
      <4>. QED
        BY <1>3, <2>2, <4>1 DEF GcStep, SkipGc, ResumeGc, RefreshSelect,
           PrioritisedSelect, OldestForPrioritised, DirtiestSelect, OldestSelect,
           SelectNone, GcSelected, GcBlockCalled, CollectSoft, CollectOrphan,
           CollectEnd, CollectedSome, CleanUp, CollectedAll, EndGc, NextTry
    <3>. QED
      BY <1>a, <1>b, <3>1 DEF CopyInv
  <2>. QED
    BY <2>1, <2>2
<1>4. CASE SaveStep
  <2>1. \/ UNCHANGED call
        \/ call' = NoCall
        \/ call' = [call EXCEPT !.ok = FALSE]
        \/ call' = [call EXCEPT !.copies = @ + 1]
    BY <1>4 DEF SaveStep, OpenStream, WriteStream, EndStream, CloseStream,
       CountCheckpt
  <2>. QED
    BY <1>a, <1>b, <2>1 DEF CopyInv
<1>5. CASE StartStep \/ Begin
  <2>1. ASSUME NEW old, NEW reserve, NEW shrink, StartWrite(old, reserve, shrink)
        PROVE  call'.ingc = FALSE
    BY <2>1 DEF StartWrite, NoCall
  <2>2. ASSUME NEW job, BeginCall(job)
        PROVE  call'.ingc = FALSE
    BY <2>2 DEF BeginCall, NoCall
  <2>3. StartStep => call'.ingc = FALSE
    BY <2>1 DEF StartStep, StartData, StartHeader, StartShrink
  <2>4. SaveCheckpt => call'.ingc = FALSE
    BY DEF SaveCheckpt, NoCall
  <2>5. Begin => UNCHANGED call \/ call'.ingc = FALSE
    BY <2>2, <2>4 DEF Begin, BeginWrite, BgGc, DeleteChunk, SoftDelChunk,
       ReadError
  <2>. QED
    BY <1>5, <2>3, <2>5 DEF CopyInv
<1>6. CASE Rest \/ UNCHANGED vars
  BY <1>6 DEF Rest, vars, CopyInv
<1>. QED
  BY <1>1, <1>2, <1>3, <1>4, <1>5, <1>6 DEF Next, Step

\* The cursor stays, and what is being moved still is, or has gone.
LEMMA CursorKept ==
  ASSUME CursorInv, gc_block' \in {gc_block, NoBlock}, gc_chunk' = gc_chunk,
         \A p \in Pages : gc_block \in Blocks /\ <<gc_block, p>> \in chunk_bits' =>
           <<gc_block, p>> \in chunk_bits /\ (BeingMoved(p) => BeingMoved(p)'),
         gc_block \in Blocks \cup {NoBlock}
  PROVE  CursorInv'
<1>1. CASE gc_block' = NoBlock
  BY <1>1 DEF CursorInv
<1>2. CASE gc_block' = gc_block /\ gc_block \in Blocks
  BY <1>2 DEF CursorInv
<1>. QED
  BY <1>1, <1>2

\* Between the turns of the loop nothing is being moved.
LEMMA NothingMoving ==
  ASSUME pc \notin {"write", "program", "summary", "verify", "skip", "written",
                    "del", "dirty", "erase"}
  PROVE  \A p \in Pages : ~BeingMoved(p)
BY DEF BeingMoved

\* A copy holds on to its old chunk until it can be deleted.
LEMMA WriteCursor ==
  ASSUME IInv, NewInv, CopyInv, CursorInv, ReserveAtHand, WriteStep
  PROVE  CursorInv'
<1>. gc_block \in Blocks \cup {NoBlock} /\ 0 \notin Blocks
  BY GeometryAssumption DEF IInv, TypeOK, GcTypeOK
<1>0. UNCHANGED <<gc_block, gc_chunk>>
  BY DEF WriteStep, Invalidate, FindAllocBlock, AllocChunk, WriteFails,
     NotErased, ProgramChunk, WriteSummary, VerifyOk, VerifyFails,
     SkipRestOfBlock, Written, FinishWrite
<1>1. CASE Invalidate \/ FindAllocBlock \/ ProgramChunk \/ VerifyOk
  <2>1. /\ UNCHANGED <<chunk_bits, call, del>>
        /\ pc' = pc \/ (pc = "program" /\ pc' \in {"summary", "verify"})
             \/ (pc = "verify" /\ pc' = "written")
    BY <1>1 DEF Invalidate, FindAllocBlock, ProgramChunk, VerifyOk
  <2>2. \A p \in Pages : BeingMoved(p) => BeingMoved(p)'
    BY <1>0, <2>1 DEF BeingMoved
  <2>. QED
    BY <1>0, <2>1, <2>2, CursorKept
<1>2. CASE AllocChunk \/ SkipRestOfBlock
  <2>1. /\ chunk_bits' \in {chunk_bits, chunk_bits \cup {<<alloc_block, alloc_page>>}}
        /\ pc \in {"write", "skip"} /\ pc' \in {"program", "write"}
        /\ chunk_bits' # chunk_bits => alloc_block # NoBlock
        /\ UNCHANGED del
    BY <1>2 DEF AllocChunk, SkipRestOfBlock
  <2>2. call'.ingc = call.ingc /\ call'.old = call.old
    <3>1. \E n : call' = [call EXCEPT !.new = n]
      BY <1>2 DEF AllocChunk, SkipRestOfBlock
    <3>2. call \in [job : {"none", "write", "bg", "save"}, tries : Nat,
                copies : Nat, ok : BOOLEAN, ingc : BOOLEAN, reserve : BOOLEAN,
                shrink : BOOLEAN, old : Chunks \cup {NoChunk},
                new : Chunks \cup {NoChunk}]
      BY DEF IInv, TypeOK, CallTypeOK
    <3>. QED
      BY <3>1, <3>2
  <2>3. \A p \in Pages : BeingMoved(p) => BeingMoved(p)'
    BY <1>0, <2>1, <2>2 DEF BeingMoved
  <2>4. alloc_block # NoBlock => block_state[alloc_block] = "ALLOCATING"
    BY DEF IInv, AllocInv, TypeOK, AllocTypeOK
  <2>5. gc_block # NoBlock => block_state[gc_block] # "ALLOCATING"
    BY DEF IInv, GcInv
  <2>6. \A p \in Pages : gc_block \in Blocks /\ <<gc_block, p>> \in chunk_bits' =>
           <<gc_block, p>> \in chunk_bits
    BY <2>1, <2>4, <2>5
  <2>. QED
    BY <1>0, <2>3, <2>6, CursorKept
<1>3. CASE WriteFails
  <2>1. ~call.ingc /\ pc = "write" /\ UNCHANGED chunk_bits
    BY <1>3 DEF WriteFails, ReserveAtHand, CopyInv
  <2>2. \A p \in Pages : ~BeingMoved(p)
    BY <2>1 DEF BeingMoved
  <2>. QED
    BY <1>0, <2>1, <2>2, CursorKept
<1>4. CASE NotErased \/ VerifyFails
  <2>1. UNCHANGED <<chunk_bits, call>> /\ pc \in {"program", "verify"}
    BY <1>4 DEF NotErased, VerifyFails
  <2>2. pc' = "del" /\ del'.ret = "skip"
    BY <1>4, CallFields DEF NotErased, VerifyFails
  <2>3. \A p \in Pages : BeingMoved(p) => BeingMoved(p)'
    BY <1>0, <2>1, <2>2 DEF BeingMoved
  <2>. QED
    BY <1>0, <2>1, <2>3, CursorKept
<1>5. CASE WriteSummary
  <2>1. /\ chunk_bits' \subseteq chunk_bits \cup ({call.new[1]} \X Int)
        /\ UNCHANGED <<call, del>> /\ pc = "summary" /\ pc' = "verify"
    BY <1>5, GeometryAssumption DEF WriteSummary, LastDataPage
  <2>2. call.new[1] # gc_block
    BY <2>1 DEF NewInv
  <2>3. \A p \in Pages : BeingMoved(p) => BeingMoved(p)'
    BY <1>0, <2>1 DEF BeingMoved
  <2>4. \A p \in Pages : <<gc_block, p>> \in chunk_bits' => <<gc_block, p>> \in chunk_bits
    BY <2>1, <2>2
  <2>. QED
    BY <1>0, <2>3, <2>4, CursorKept
<1>6. CASE Written
  <2>1. /\ UNCHANGED <<chunk_bits, call>> /\ pc = "written"
        /\ call.old # NoChunk => CallDel(call.old, "finish")
    BY <1>6 DEF Written
  <2>2. ASSUME NEW p \in Pages, gc_block \in Blocks, BeingMoved(p)
        PROVE  BeingMoved(p)'
    <3>1. call.old = <<gc_block, p>>
      BY <2>1, <2>2 DEF BeingMoved
    <3>2. call.old # NoChunk
      BY <2>2, <3>1 DEF NoChunk
    <3>3. pc' = "del" /\ del'.chunk = <<gc_block, p>>
      BY <2>1, <3>1, <3>2, CallFields
    <3>. QED
      BY <1>0, <3>3 DEF BeingMoved
  <2>. QED
    BY <1>0, <2>1, <2>2, CursorKept
<1>7. CASE FinishWrite
  <2>1. pc = "finish" /\ UNCHANGED chunk_bits
    BY <1>7 DEF FinishWrite
  <2>. QED
    BY <1>0, <2>1, NothingMoving, CursorKept
<1>. QED
  BY <1>1, <1>2, <1>3, <1>4, <1>5, <1>6, <1>7 DEF WriteStep

\* What is being deleted has gone when the call returns.
LEMMA DelCursor ==
  ASSUME IInv, CursorInv, DelStep
  PROVE  CursorInv'
<1>. gc_block \in Blocks \cup {NoBlock} /\ 0 \notin Blocks
  BY GeometryAssumption DEF IInv, TypeOK, GcTypeOK
<1>1. CASE ChunkDel
  <2>1. /\ chunk_bits' = chunk_bits \ {del.chunk} /\ pc = "del"
        /\ \/ pc' = "dirty" /\ del' = del
           \/ pc' = del.ret
        /\ UNCHANGED <<gc_block, gc_chunk, call>>
    BY <1>1 DEF ChunkDel
  <2>2. \A p \in Pages : <<gc_block, p>> \in chunk_bits' =>
           <<gc_block, p>> \in chunk_bits /\ (BeingMoved(p) => BeingMoved(p)')
    BY <2>1 DEF BeingMoved
  <2>. QED
    BY <2>1, <2>2, CursorKept
<1>2. CASE BecameDirty
  <2>1. /\ gc_block' \in {gc_block, NoBlock} /\ pc = "dirty" /\ pc' = "erase"
        /\ UNCHANGED <<gc_chunk, call, del, chunk_bits>>
    BY <1>2 DEF BecameDirty
  <2>2. CASE gc_block' = gc_block
    <3>1. \A p \in Pages : BeingMoved(p) => BeingMoved(p)'
      BY <2>1, <2>2 DEF BeingMoved
    <3>. QED
      BY <2>1, <3>1, CursorKept
  <2>3. CASE gc_block' = NoBlock
    BY <2>3 DEF CursorInv
  <2>. QED
    BY <2>1, <2>2, <2>3
<1>3. CASE EraseOk \/ RetireBlock
  <2>1. /\ pc = "erase" /\ pc' = del.ret
        /\ chunk_bits' \subseteq chunk_bits
        /\ UNCHANGED <<gc_block, gc_chunk, call>>
    BY <1>3 DEF EraseOk, RetireBlock
  <2>2. \A c \in chunk_bits : c[1] # del.chunk[1]
    BY <2>1 DEF IInv, DelInv
  <2>3. \A p \in Pages : <<gc_block, p>> \in chunk_bits =>
          del.chunk # <<gc_block, p>>
    BY <2>2
  <2>4. \A p \in Pages : <<gc_block, p>> \in chunk_bits' =>
           <<gc_block, p>> \in chunk_bits /\ (BeingMoved(p) => BeingMoved(p)')
    BY <2>1, <2>3 DEF BeingMoved
  <2>. QED
    BY <2>1, <2>4, CursorKept
<1>. QED
  BY <1>1, <1>2, <1>3 DEF DelStep

\* The cursor passes chunks that are not in use, and the one that is moved.
LEMMA NextCursor ==
  ASSUME IInv, CursorInv, NEW p \in Pages, CollectNext(p),
         UNCHANGED <<gc_block, chunk_bits>>, BeingMoved(p)'
  PROVE  CursorInv'
<1>1. /\ pc = "collect" /\ gc_chunk' = p + 1
      /\ \A q \in LeftToCollect : p <= q
      /\ gc_block # NoBlock
  BY DEF CollectNext, CollectLoops
<1>2. \A q \in Pages : ~BeingMoved(q)
  BY <1>1, NothingMoving
<1>3. gc_chunk \in Int /\ \A q \in Pages : q \in Int
  BY GeometryAssumption DEF IInv, TypeOK, GcTypeOK, Pages
<1>4. ASSUME NEW q \in Pages, q < p + 1, <<gc_block, q>> \in chunk_bits
      PROVE  q = p
  <2>1. q >= gc_chunk
    BY <1>1, <1>2, <1>3, <1>4 DEF CursorInv
  <2>2. q \in LeftToCollect
    BY <1>4, <2>1 DEF LeftToCollect
  <2>. QED
    BY <1>1, <1>3, <1>4, <2>2
<1>. QED
  BY <1>1, <1>4 DEF CursorInv

\* The collector moves its cursor past a page only once it has no data.
LEMMA GcCursor ==
  ASSUME IInv, CursorInv, GcStep
  PROVE  CursorInv'
<1>. /\ gc_block \in Blocks \cup {NoBlock} /\ 0 \notin Blocks
     /\ \A q \in Pages : q \in Nat
  BY GeometryAssumption DEF IInv, TypeOK, GcTypeOK, Pages
<1>1. CASE RefreshSelect \/ PrioritisedSelect \/ OldestForPrioritised
             \/ DirtiestSelect \/ OldestSelect
  <2>1. gc_chunk' = 0
    BY <1>1 DEF RefreshSelect, PrioritisedSelect, OldestForPrioritised,
       DirtiestSelect, OldestSelect, GcSelected
  <2>. QED
    BY <2>1 DEF CursorInv
<1>2. CASE SelectNone \/ CleanUp \/ CollectedAll
  <2>1. gc_block' = NoBlock
    BY <1>2 DEF SelectNone, Searching, CleanUp, CollectedAll
  <2>. QED
    BY <2>1 DEF CursorInv
<1>3. CASE SkipGc \/ ResumeGc \/ GcBlockStart \/ CollectedSome
  <2>1. /\ pc \in {"gc", "gcblk", "collected"}
        /\ chunk_bits' \subseteq chunk_bits
        /\ UNCHANGED <<gc_block, gc_chunk>>
    BY <1>3 DEF SkipGc, ResumeGc, Collecting, GcBlockCalled, GcBlockStart,
       CollectedSome
  <2>. QED
    BY <2>1, NothingMoving, CursorKept
<1>4. CASE CollectSoft \/ CollectOrphan
  <2>1. PICK p \in Pages : /\ CollectNext(p)
                           /\ CallDel(<<gc_block, p>>, "collect")
    BY <1>4 DEF CollectSoft, CollectOrphan
  <2>2. UNCHANGED <<gc_block, chunk_bits>>
    BY <1>4 DEF CollectSoft, CollectOrphan
  <2>3. BeingMoved(p)'
    BY <2>1, <2>2, CallFields DEF BeingMoved
  <2>. QED
    BY <2>1, <2>2, <2>3, NextCursor
<1>5. CASE CollectCopy
  <2>1. PICK p \in Pages :
          /\ CollectNext(p)
          /\ call' = [call EXCEPT !.copies = @ - 1, !.ingc = TRUE,
                                  !.reserve = TRUE, !.old = <<gc_block, p>>]
    BY <1>5 DEF CollectCopy
  <2>2. UNCHANGED <<gc_block, chunk_bits>> /\ pc' = "write"
    BY <1>5 DEF CollectCopy
  <2>3. call'.ingc /\ call'.old = <<gc_block, p>>
    <3>1. call \in [job : {"none", "write", "bg", "save"}, tries : Nat,
                copies : Nat, ok : BOOLEAN, ingc : BOOLEAN, reserve : BOOLEAN,
                shrink : BOOLEAN, old : Chunks \cup {NoChunk},
                new : Chunks \cup {NoChunk}]
      BY DEF IInv, TypeOK, CallTypeOK
    <3>. QED
      BY <2>1, <3>1
  <2>4. BeingMoved(p)'
    BY <2>2, <2>3 DEF BeingMoved
  <2>. QED
    BY <2>1, <2>2, <2>4, NextCursor
<1>6. CASE CollectEnd
  <2>1. /\ pc = "collect" /\ UNCHANGED <<gc_block, chunk_bits>>
        /\ gc_chunk' = gc_chunk \/ LeftToCollect = {}
    BY <1>6 DEF CollectEnd
  <2>2. \A p \in Pages : ~BeingMoved(p)
    BY <2>1, NothingMoving
  <2>3. CASE gc_chunk' = gc_chunk
    BY <2>1, <2>2, <2>3, CursorKept
  <2>4. CASE LeftToCollect = {}
    <3>1. gc_chunk \in Int
      BY DEF IInv, TypeOK, GcTypeOK
    <3>2. gc_block # NoBlock => \A p \in Pages : <<gc_block, p>> \notin chunk_bits
      BY <2>2, <2>4, <3>1 DEF CursorInv, LeftToCollect
    <3>. QED
      BY <2>1, <3>2 DEF CursorInv
  <2>. QED
    BY <2>1, <2>3, <2>4
<1>. QED
  BY <1>1, <1>2, <1>3, <1>4, <1>5, <1>6 DEF GcStep

\* A step leaves nothing behind the cursor if the reserve is at hand.
LEMMA CursorStep ==
  ASSUME IInv, NewInv, CopyInv, CursorInv, ReserveAtHand, [Next]_vars
  PROVE  CursorInv'
<1>. gc_block \in Blocks \cup {NoBlock}
  BY DEF IInv, TypeOK, GcTypeOK
<1>1. CASE SaveStep \/ StartStep \/ Begin
  <2>1. /\ UNCHANGED <<chunk_bits, gc_block, gc_chunk>>
        /\ pc \in {"open", "save", "close", "count", "choose", "idle"}
    BY <1>1 DEF SaveStep, OpenStream, WriteStream, EndStream, CloseStream,
       CountCheckpt, StartStep, StartData, StartHeader, StartShrink, StartWrite,
       Begin, BeginWrite, BgGc, BeginCall, DeleteChunk, SoftDelChunk,
       ReadError, SaveCheckpt
  <2>. QED
    BY <2>1, NothingMoving, CursorKept
<1>2. CASE Rest \/ UNCHANGED vars
  BY <1>2 DEF Rest, vars, CursorInv, BeingMoved
<1>. QED
  BY <1>1, <1>2, WriteCursor, DelCursor, GcCursor DEF Next, Step

\* A collection that is continued later has left nothing behind its cursor, as
\* long as its copies find room: a chunk whose copy fails is left behind.
THEOREM NothingLeftBehind == Spec /\ []ReserveAtHand => []CollectionLeavesNothing
<1>1. Init => NewInv /\ CopyInv /\ CursorInv
  BY DEF Init, NewInv, CopyInv, CursorInv, NoCall
<1>2. IInv /\ NewInv /\ CopyInv /\ CursorInv /\ ReserveAtHand /\ [Next]_vars =>
        NewInv' /\ CopyInv' /\ CursorInv'
  BY NewStep, CopyStep, CursorStep
<1>3. IInv /\ CursorInv => CollectionLeavesNothing
  <2>1. SUFFICES ASSUME IInv, CursorInv, pc = "idle", gc_block # NoBlock
                 PROVE  /\ block_state[gc_block] = "FULL"
                        /\ \A p \in Pages : p < gc_chunk => <<gc_block, p>> \notin chunk_bits
    BY DEF CollectionLeavesNothing
  <2>2. ~InGc
    BY <2>1 DEF IInv, CallInv
  <2>3. block_state[gc_block] = "FULL"
    BY <2>1, <2>2 DEF IInv, GcInv
  <2>. QED
    BY <2>1, <2>3, NothingMoving DEF CursorInv
<1>. QED
  BY <1>1, <1>2, <1>3, Invariant, PTL DEF Spec

===============================================================================
