---------------------------- MODULE YaffsBlocksInv ----------------------------
(***************************************************************************)
(* What holds of the block manager whatever the size of the flash, the     *)
(* number of reserved blocks, the length of a summary or a checkpoint, the *)
(* client's operations and the failures: the types, that the page counts   *)
(* of a block agree with its bits, that what a file holds is kept, and     *)
(* that the log is in order.                                               *)
(*                                                                         *)
(* The inductive invariant IInv relates the call in progress to the state  *)
(* of the blocks it works on.                                              *)
(***************************************************************************)
EXTENDS YaffsBlocks, TLAPS, FiniteSetTheorems, WellFoundedInduction

\* A deletion, and the erasure it may lead to, is in progress.
InDel == pc \in {"del", "dirty", "erase"}

\* A write is in progress and its caller still holds the chunk it replaces.
InWrite ==
  \/ pc \in {"write", "program", "summary", "verify", "skip", "written"}
  \/ (InDel /\ del.ret = "skip")

\* A chunk is allocated and not yet in the caller's hands.
HasNew == pc \in {"program", "summary", "verify", "written"}

\* The end of a write, its old chunk being deleted or gone.
InFinish == pc = "finish" \/ (InDel /\ del.ret = "finish")

\* yaffs_gc_block is in its loop, or in a call made from it.
InGc ==
  \/ pc \in {"collect", "collected"}
  \/ call.ingc
  \/ (InDel /\ del.ret \in {"collect", "collected"})

\* The call in progress has the arguments its steps use.
CallInv ==
  /\ HasNew \/ InFinish => call.new \in Chunks
  /\ InDel => del.chunk \in Chunks
  /\ call.ingc => InWrite \/ InFinish
  /\ InWrite => call.old \in live \cup {NoChunk}
  /\ pc = "gcblk" => gc_block # NoBlock

\* The block being filled is the newest, and has room after its last chunk.
AllocInv ==
  /\ \A b \in Blocks : block_state[b] = "ALLOCATING" <=> b = alloc_block
  /\ alloc_block # NoBlock =>
       /\ alloc_page < ChunksPerBlock
       /\ blk_seq[alloc_block] = seq_number
       /\ \A c \in chunk_bits : c[1] = alloc_block => c[2] < alloc_page
  /\ pc \in {"program", "summary"} /\ call.new[2] + 1 < ChunksPerBlock =>
       alloc_block = call.new[1] /\ alloc_page = call.new[2] + 1
  /\ pc = "summary" => SummaryChunks > 0 /\ call.new[2] = LastDataPage

Used(b) == block_state[b] \in {"ALLOCATING", "FULL", "COLLECTING", "DIRTY"}

\* Blocks in use have sequence numbers of their own.
SeqInv ==
  /\ \A b \in Blocks : Used(b) => blk_seq[b] \in 1 .. seq_number
  /\ \A b, c \in Blocks : Used(b) /\ Used(c) /\ blk_seq[b] = blk_seq[c] => b = c

\* Blocks the collector knows of are full, but for the one it is collecting.
GcInv ==
  /\ gc_block # NoBlock =>
       block_state[gc_block] = IF InGc THEN "COLLECTING" ELSE "FULL"
  /\ \A b \in Blocks : block_state[b] = "COLLECTING" => b = gc_block
  /\ gc_dirtiest # NoBlock =>
       block_state[gc_dirtiest] \in {"FULL", "COLLECTING"}
  /\ oldest_dirty.seq # 0 <=> oldest_dirty.block # NoBlock
  /\ oldest_dirty.seq # 0 =>
       /\ block_state[oldest_dirty.block] \in {"FULL", "COLLECTING"}
       /\ blk_seq[oldest_dirty.block] = oldest_dirty.seq

\* The bits are where there is data, and whose they are.
BitsInv ==
  /\ \A c \in chunk_bits :
       block_state[c[1]] \in {"ALLOCATING", "FULL", "COLLECTING"}
  /\ live \cup soft \subseteq chunk_bits \cap programmed
  /\ live \cap soft = {}
  /\ HasNew => call.new \in chunk_bits \ (live \cup soft)
  /\ pc \in {"summary", "verify", "written"} => call.new \in programmed

\* The chunk being deleted is nobody's; its block is erased only when empty.
DelInv ==
  /\ pc = "del" => del.chunk \in chunk_bits \ (live \cup soft)
  /\ pc \in {"dirty", "erase"} => \A c \in chunk_bits : c[1] # del.chunk[1]
  /\ pc = "dirty" => block_state[del.chunk[1]] \in {"FULL", "COLLECTING"}
  /\ pc = "erase" => block_state[del.chunk[1]] = "DIRTY"

\* No data lies where a summary is dropped.
SummaryInv ==
  /\ \A b \in has_summary :
       block_state[b] \in {"FULL", "COLLECTING", "DIRTY", "DEAD"}
  /\ \A c \in live \cup soft : c[1] \in has_summary => c[2] <= LastDataPage
  /\ pc \in {"program", "summary"} => call.new[1] \notin has_summary
  /\ pc \in {"verify", "written"} /\ call.new[1] \in has_summary =>
       call.new[2] <= LastDataPage

\* A checkpoint block at hand was begun.
CkptInv == checkpt.cur # NoBlock => checkpt.chunk > 0

IInv ==
  /\ TypeOK
  /\ CallInv
  /\ AllocInv
  /\ SeqInv
  /\ GcInv
  /\ BitsInv
  /\ DelInv
  /\ SummaryInv
  /\ CkptInv
  /\ PageCountsExact

-----------------------------------------------------------------------------
(***************************************************************************)
(* Finite sets of blocks and chunks, and how many of the chunks of a set   *)
(* lie in one block.                                                       *)
(***************************************************************************)

USE DEF Blocks, NoBlock

\* A set of numbers has a least one.
LEMMA LeastNatural ==
  ASSUME NEW S \in SUBSET Nat, S # {}
  PROVE  \E m \in S : \A n \in S : m <= n
<1>1. \E m \in S : \A n \in S : <<n, m>> \notin OpToRel(<, Nat)
  BY NatLessThanWellFounded, WFMin, Zenon
<1>2. \A m, n \in Nat : n < m => <<n, m>> \in OpToRel(<, Nat)
  BY DEF OpToRel
<1>3. \E m \in S : \A n \in S : ~ (n < m)
  <2>1. PICK m \in S : \A n \in S : <<n, m>> \notin OpToRel(<, Nat)
    BY <1>1, Zenon
  <2>2. \A n \in S : ~ (n < m)
    BY <1>2, <2>1, Zenon
  <2>. QED
    BY <2>2, Zenon
<1>. QED
  BY <1>3

\* There are finitely many blocks.
LEMMA FiniteBlocks ==
  /\ IsFiniteSet(Blocks)
  /\ \A S \in SUBSET Blocks : IsFiniteSet(S) /\ Cardinality(S) \in Nat
<1>1. IsFiniteSet(Blocks)
  BY FS_Interval, GeometryAssumption
<1>. QED
  BY <1>1, FS_Subset, FS_CardinalityType

\* There are finitely many chunks.
LEMMA FiniteChunks ==
  \A S \in SUBSET Chunks : IsFiniteSet(S) /\ Cardinality(S) \in Nat
<1>1. IsFiniteSet(Pages)
  BY FS_Interval, GeometryAssumption DEF Pages
<1>2. IsFiniteSet(Chunks)
  BY <1>1, FiniteBlocks, FS_Product DEF Chunks
<1>. QED
  BY <1>2, FS_Subset, FS_CardinalityType

\* A chunk that is added changes the count of its own block only.
LEMMA CountAdd ==
  ASSUME NEW S \in SUBSET Chunks, NEW c \in Chunks, c \notin S, NEW b \in Blocks
  PROVE  Cardinality(ChunksOf(b, S \cup {c})) =
           IF c[1] = b THEN Cardinality(ChunksOf(b, S)) + 1
                       ELSE Cardinality(ChunksOf(b, S))
<1>1. IsFiniteSet(ChunksOf(b, S))
  BY FiniteChunks DEF ChunksOf
<1>2. CASE c[1] = b
  <2>1. ChunksOf(b, S \cup {c}) = ChunksOf(b, S) \cup {c} /\ c \notin ChunksOf(b, S)
    BY <1>2 DEF ChunksOf
  <2>2. Cardinality(ChunksOf(b, S) \cup {c}) = Cardinality(ChunksOf(b, S)) + 1
    BY <1>1, <2>1, FS_AddElement
  <2>. QED
    BY <1>2, <2>1, <2>2
<1>3. CASE c[1] # b
  BY <1>3 DEF ChunksOf
<1>. QED
  BY <1>2, <1>3

\* ... removed.
LEMMA CountRemove ==
  ASSUME NEW S \in SUBSET Chunks, NEW c \in S, NEW b \in Blocks
  PROVE  Cardinality(ChunksOf(b, S \ {c})) =
           IF c[1] = b THEN Cardinality(ChunksOf(b, S)) - 1
                       ELSE Cardinality(ChunksOf(b, S))
<1>1. S \ {c} \in SUBSET Chunks /\ c \in Chunks /\ c \notin S \ {c}
  OBVIOUS
<1>2. (S \ {c}) \cup {c} = S
  OBVIOUS
<1>3. Cardinality(ChunksOf(b, S \ {c})) \in Nat
  BY <1>1, FiniteChunks DEF ChunksOf
<1>4. Cardinality(ChunksOf(b, (S \ {c}) \cup {c})) =
        IF c[1] = b THEN Cardinality(ChunksOf(b, S \ {c})) + 1
                    ELSE Cardinality(ChunksOf(b, S \ {c}))
  BY <1>1, CountAdd
<1>. QED
  BY <1>2, <1>3, <1>4, SMTT(30)

\* Chunks of another block, added or removed, change nothing.
LEMMA CountOther ==
  ASSUME NEW S \in SUBSET Chunks, NEW T \in SUBSET Chunks, NEW b \in Blocks,
         \A c \in T : c[1] # b
  PROVE  /\ ChunksOf(b, S \cup T) = ChunksOf(b, S)
         /\ ChunksOf(b, S \ T) = ChunksOf(b, S)
BY DEF ChunksOf

\* Several chunks of one block are added.
LEMMA CountUnion ==
  ASSUME NEW S \in SUBSET Chunks, NEW T \in SUBSET Chunks, S \cap T = {},
         NEW b \in Blocks, \A c \in T : c[1] = b
  PROVE  Cardinality(ChunksOf(b, S \cup T)) =
           Cardinality(ChunksOf(b, S)) + Cardinality(T)
<1>1. ChunksOf(b, S \cup T) = ChunksOf(b, S) \cup T /\ ChunksOf(b, S) \cap T = {}
  BY DEF ChunksOf
<1>2. IsFiniteSet(ChunksOf(b, S)) /\ IsFiniteSet(T)
  BY FiniteChunks DEF ChunksOf
<1>3. Cardinality(ChunksOf(b, S) \cup T) =
        Cardinality(ChunksOf(b, S)) + Cardinality(T) - Cardinality({})
  BY <1>1, <1>2, FS_Union
<1>4. Cardinality(ChunksOf(b, S)) \in Nat /\ Cardinality(T) \in Nat
  BY <1>2, FS_CardinalityType
<1>5. Cardinality(ChunksOf(b, S \cup T)) = Cardinality(ChunksOf(b, S) \cup T)
  BY <1>1, Zenon
<1>. QED
  BY <1>3, <1>4, <1>5, FS_EmptySet

\* ... removed.
LEMMA CountDifference ==
  ASSUME NEW S \in SUBSET Chunks, NEW T \in SUBSET S,
         NEW b \in Blocks, \A c \in T : c[1] = b
  PROVE  Cardinality(ChunksOf(b, S \ T)) =
           Cardinality(ChunksOf(b, S)) - Cardinality(T)
<1>1. S \ T \in SUBSET Chunks /\ T \in SUBSET Chunks /\ (S \ T) \cap T = {}
  OBVIOUS
<1>2. (S \ T) \cup T = S
  OBVIOUS
<1>3. Cardinality(ChunksOf(b, S \ T)) \in Nat /\ Cardinality(T) \in Nat
  BY <1>1, FiniteChunks DEF ChunksOf
<1>4. \A c \in T : c[1] = b
  OBVIOUS
<1>5. Cardinality(ChunksOf(b, (S \ T) \cup T)) =
        Cardinality(ChunksOf(b, S \ T)) + Cardinality(T)
  BY <1>1, <1>4, CountUnion
<1>6. Cardinality(ChunksOf(b, S)) =
        Cardinality(ChunksOf(b, S \ T)) + Cardinality(T)
  BY <1>2, <1>5, Zenon
<1>. QED
  BY <1>3, <1>6

\* Nothing is counted in a block without chunks.
LEMMA CountNone ==
  ASSUME NEW S \in SUBSET Chunks, NEW b \in Blocks
  PROVE  Cardinality(ChunksOf(b, S)) = 0 <=> \A c \in S : c[1] # b
<1>1. IsFiniteSet(ChunksOf(b, S))
  BY FiniteChunks DEF ChunksOf
<1>. QED
  BY <1>1, FS_EmptySet DEF ChunksOf

\* The summary's chunks.
LEMMA CountPages ==
  ASSUME NEW b \in Blocks, NEW l \in Int, NEW n \in Nat
  PROVE  Cardinality({b} \X (l + 1 .. l + n)) = n
<1>1. IsFiniteSet(l + 1 .. l + n) /\ Cardinality(l + 1 .. l + n) = n
  BY FS_Interval
<1>2. IsFiniteSet({b}) /\ Cardinality({b}) = 1
  BY FS_Singleton
<1>3. Cardinality({b} \X (l + 1 .. l + n)) =
        Cardinality({b}) * Cardinality(l + 1 .. l + n)
  BY <1>1, <1>2, FS_Product
<1>. QED
  BY <1>1, <1>2, <1>3

-----------------------------------------------------------------------------
(***************************************************************************)
(* What several steps need.                                                *)
(***************************************************************************)

\* Marking a block leaves the marks in order.
LEMMA ChunkErrorType ==
  ASSUME MarksTypeOK, NEW b \in Blocks, NEW e \in BOOLEAN, ChunkError(b, e)
  PROVE  MarksTypeOK'
<1>1. needs_retiring' \subseteq Blocks /\ gc_prioritise' \subseteq Blocks
  BY DEF MarksTypeOK, ChunkError
<1>2. strikes' \in [Blocks -> Nat]
  BY DEF MarksTypeOK, ChunkError
<1>3. pending_gc' \in BOOLEAN
  BY DEF MarksTypeOK, ChunkError
<1>. QED
  BY <1>1, <1>2, <1>3 DEF MarksTypeOK

\* The record of a call is reset.
LEMMA NoCallType ==
  ASSUME CallTypeOK, call' = NoCall, del' = del, pc' \in PCs
  PROVE  CallTypeOK'
<1>1. call' \in [job : {"none", "write", "bg", "save"}, tries : Nat,
                copies : Nat, ok : BOOLEAN, ingc : BOOLEAN, reserve : BOOLEAN,
                shrink : BOOLEAN, old : Chunks \cup {NoChunk},
                new : Chunks \cup {NoChunk}]
  BY DEF NoCall
<1>. QED
  BY <1>1 DEF CallTypeOK

\* The oldest dirty block is not the one being filled: that one is the newest.
LEMMA OldestAfterDirt ==
  ASSUME IInv, NEW b \in Blocks, oldest_dirty' = OldestUpdated(b),
         block_state[b] \in {"ALLOCATING", "FULL", "COLLECTING"}
  PROVE  /\ oldest_dirty' \in [seq : Nat, block : Blocks \cup {NoBlock}]
         /\ oldest_dirty' = oldest_dirty \/
              (/\ block_state[b] \in {"FULL", "COLLECTING"} /\ blk_seq[b] > 0
               /\ oldest_dirty' = [seq |-> blk_seq[b], block |-> b])
<1>1. /\ blk_seq[b] \in Nat /\ blk_seq[b] > 0 /\ blk_seq[b] <= seq_number
  BY DEF Used, IInv, SeqInv, TypeOK, AllocTypeOK
<1>2. oldest_dirty \in [seq : Nat, block : Blocks \cup {NoBlock}]
  BY DEF IInv, TypeOK, GcTypeOK
<1>3. oldest_dirty.seq <= seq_number
  BY <1>2, GeometryAssumption DEF IInv, GcInv, SeqInv, Used, TypeOK, AllocTypeOK
<1>4. CASE block_state[b] = "ALLOCATING"
  <2>1. blk_seq[b] = seq_number
    BY <1>4, GeometryAssumption DEF IInv, AllocInv
  <2>. QED
    BY <1>1, <1>2, <1>3, <2>1 DEF OldestUpdated
<1>5. CASE block_state[b] # "ALLOCATING"
  BY <1>1, <1>2, <1>5 DEF OldestUpdated
<1>. QED
  BY <1>4, <1>5

\* yaffs_calc_oldest_dirty_seq finds a block fit for collection, if any.
LEMMA OldestFit ==
  ASSUME IInv
  PROVE  /\ Oldest \in [seq : Nat, block : Blocks \cup {NoBlock}]
         /\ Oldest.seq # 0 <=> Oldest.block # NoBlock
         /\ Oldest.seq # 0 =>
              /\ block_state[Oldest.block] \in {"FULL", "COLLECTING"}
              /\ blk_seq[Oldest.block] = Oldest.seq
<1>1. oldest_dirty \in [seq : Nat, block : Blocks \cup {NoBlock}]
  BY DEF IInv, TypeOK, GcTypeOK
<1>2. CASE Oldest = oldest_dirty
  BY <1>1, <1>2 DEF IInv, GcInv
<1>3. CASE Oldest # oldest_dirty
  <2>1. PartlyUsed # {}
    BY <1>3 DEF Oldest
  <2>2. {blk_seq[c] : c \in PartlyUsed} \in SUBSET Nat
    BY DEF PartlyUsed, IInv, TypeOK, AllocTypeOK
  <2>3. \E m \in {blk_seq[c] : c \in PartlyUsed} :
          \A n \in {blk_seq[c] : c \in PartlyUsed} : m <= n
    BY <2>1, <2>2, LeastNatural, ZenonT(40)
  <2>4. \E c \in PartlyUsed : IsOldestIn(c, PartlyUsed)
    BY <2>3 DEF IsOldestIn
  <2>5. PICK b \in PartlyUsed : Oldest = [seq |-> blk_seq[b], block |-> b]
    BY <1>3, <2>4 DEF Oldest
  <2>6. b \in Blocks /\ block_state[b] = "FULL"
    BY DEF PartlyUsed
  <2>7. blk_seq[b] \in Nat /\ blk_seq[b] # 0
    BY <2>6 DEF IInv, TypeOK, AllocTypeOK, SeqInv, Used
  <2>. QED
    BY <2>5, <2>6, <2>7, GeometryAssumption
<1>. QED
  BY <1>2, <1>3

===============================================================================
