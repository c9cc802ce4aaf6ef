# A TLA+ development of yaffs2 for VxWorks

This directory specifies the flash file system in `src/` in TLA+, checks the
specification on small instances with TLC and proves theorems about it, for
every value of the constants, with TLAPS. It reads the code, not its
documentation: every definition names, in `PROJECT.json` under `map`, the lines
it stands for.

| Module | Part | Section |
|---|---|---|
| `YaffsBlocks` | blocks, write loop, collector, retirement, summaries, checkpoint blocks | 3 |
| `YaffsCheckpt` | the checkpoint on flash, its reader, crashes | 4 |
| `YaffsObjects`, `YaffsStore` | names, links, deletion and the backward scan; what they promise | 5 |
| `YaffsFile` | the data of a file: cache, holes, truncation, scan | 6 |
| `YaffsFs` | the POSIX layer: handles, inodes, directory searches, mount | 7 |
| `YaffsGlue` | the VxWorks driver and the two locks | 8 |
| `YaffsTags` | packed tags, the error-correcting codes, the driver's reads | 9 |

Section 10 has the theorems, section 11 what is not modelled.

## 1. The system and its parts

The port runs yaffs2 on one NAND part (`Micron_nandflash4k.c`) under VxWorks.
Two interfaces sit on the same core: the POSIX-like `yaffsfs.c` and the VxWorks
I/O system driver `vxLib_yaffs2.c`. The file system is a log: files, names and
metadata are chunks (pages) with tags; a chunk is never written twice; blocks
are erased when no chunk of them is wanted.

| Part | State | Operations | Interacts with |
|---|---|---|---|
| **Block manager** `yaffs_guts.c`, `yaffs_yaffs2.c`, `yaffs_bitmap.c`, `yaffs_nand.c` | `yaffs_block_info` of every block (state, sequence number, pages in use, soft-deleted pages, flags, strikes), chunk bits, `alloc_block/page`, `n_free_chunks`, `n_erased_blocks`, `gc_block`, `gc_chunk`, `gc_dirtiest`, the oldest dirty block | write a chunk with retries, delete, soft-delete, collect a block a few chunks at a time, erase, retire | called by files, headers, directories; calls the driver; invalidates the checkpoint |
| **Checkpoint** `yaffs_checkptrw.c`, `yaffs_yaffs2.c` | the stream's cursor and buffer, blocks it took, `is_checkpointed` | open, write, read, close, invalidate; save, restore | takes blocks from the block manager; every change of the flash invalidates it |
| **Summaries** `yaffs_summary.c` | the tags of a block's chunks, written into its last chunks | add, write, read, collect | write loop, collector, scan |
| **Log and mount** `yaffs_yaffs2.c`, `yaffs_guts.c` | tags on flash; the objects rebuilt from them | backward scan, shrink and shadow headers, holes, strip of deleted objects | everything above, after a crash |
| **File data** `yaffs_guts.c` | tnode tree chunk number -> chunk, file size | read, write, truncate, grow | block manager, cache |
| **Short-operation cache** `yaffs_guts.c` | cached chunks with dirty, locked and use counts | grab, flush, invalidate | file data; the port sets `n_caches` to 0 |
| **Objects** `yaffs_guts.c`, `yaffs_yaffs2.c` | parent and sibling lists, hard links, `unlinked`, `deleted`, `deferred_free` | create, link, rename (by shadowing), unlink, delete | headers, handles |
| **POSIX layer** `yaffsfs.c` | inodes, descriptors, handles, directory contexts, mounted devices | open, close, read, write, unlink, rename, readdir, mount, unmount, format | one lock around the core |
| **VxWorks glue** `vxLib_yaffs2.c`, `Yaffscfg.c` | volumes, file descriptors, `devSem` | the driver's open, read, write, ioctl | calls the core directly |
| **Allocator, tags, ECC, nameval, bit counts** | buffers, free lists | pure functions over small data | used by all |

What is hard about it:

* **Failure**: programming, reading back and erasing may fail at any chunk; the
  write loop moves to another block and the failed one is emptied and retired,
  with the free-space counts kept by hand on every path.
* **Interleaving of long operations**: a collection is spread over many calls;
  between its steps, files change the block being collected.
* **Ordering**: which version of a chunk is current is known only by the
  sequence numbers of blocks; a header that shrinks a file must outlive the
  older data that it declares dead.
* **Resources**: the collector needs erased blocks to make erased blocks; a
  checkpoint needs blocks too.
* **Crash**: everything in RAM is rebuilt from tags, or from a checkpoint that
  must describe the flash exactly or not be used.

The properties that make each part correct, all checked here:

* Block manager: counts are exact, no chunk in use is lost, the log is in
  order, retired blocks stay out, shrink headers outlive what they discard,
  the reserve suffices, calls return.
* Checkpoint: blocks counted once, never stale, and a device mounted from one
  knows its flash.
* Log: after a power loss at any step, names and contents are those before or
  after the step of the call in progress.
* File data and cache: a read returns the last write; what was flushed is found
  again; nothing that was cut off comes back.
* Objects and handles: an object lives as long as a name or a handle refers to
  it, and no longer; a directory is read without skipping or repeating entries
  that stay; a long read or write keeps to its file.
* Locking: locks are given back on every way out, no two tasks wait for each
  other, one task is in the core at a time (the last does not hold).
* Tags: what is read back as good is what was written.

`PROJECT.json` lists each part with its status and, under `hazards`, what can
go wrong in it that a test would hardly reach, with the properties that cover
it or the reason why none does yet.

## 2. How the modules fit together

The system is too large for one state space, so the modules cut it along the
interfaces the code has, and each states what the others rely on.

* `YaffsBlocks` keeps the log: chunks in use are not lost, blocks are in order,
  a block with a shrink header is erased only when nothing older is dead.
* `YaffsObjects` and `YaffsFile` are built on such a log: a sequence of chunks,
  of which any dead one may be erased under the rule for shrink headers and any
  live one copied to the end, at any moment the code allows a collection.
  They share the code of the scan and divide it: names and states of objects in
  one, sizes and bytes in the other.
* `YaffsStore` says what both together promise a user about a directory and the
  contents of its files; `YaffsObjects` implements it (`StoreSpec`).
* `YaffsFs` takes the core as a tree of objects that changes by whole calls, as
  the lock of `yaffsfs.c` makes them, and gives up the lock where `yaffsfs.c`
  does.
* `YaffsGlue` takes the POSIX layer as calls under its lock and asks what the
  second lock of the driver adds to that.
* `YaffsCheckpt` and `YaffsTags` are the two encodings on flash: of the whole
  state, and of one chunk.

Some modules have a constant `Exposed`. It names situations of the real system
in which a property is known not to hold; each is described in its section with
the code that causes it. The runs have `Exposed = {}`: the property is checked
everywhere else, which would not be possible otherwise, since TLC stops at the
first violation. To see the disagreement, put its name into `Exposed` in the
cfg: TLC prints the trace.

## 3. YaffsBlocks

### State

The variables carry the names of the fields of `yaffs_dev` and
`yaffs_block_info` (flags are the sets of blocks that have them). `pc` and
`call` hold the local state of the call in progress (`yaffs_check_gc`,
`yaffs_write_new_chunk`, `yaffs_gc_block`, a save), `del` that of
`yaffs_chunk_del` and `yaffs_block_became_dirty`, which are called from many
places. `live`, `soft` and `shadow` stand for what the callers hold: the chunks
named by tnodes and headers, those of soft-deleted files, and for each block
with a shrink header the older blocks that still held discarded data when it was
written. `programmed` and `overprogrammed` are the flash.

### Actions

One action per step between two points where something else could fail or be
called:

| Code | Actions |
|---|---|
| `yaffs_check_gc`, `yaffs_bg_gc` | `BeginWrite`, `BgGc`, `SkipGc`, `ResumeGc`, `NextTry`, `SelectNone` |
| `yaffs_find_gc_block`, `yaffs2_find_refresh_block` | `RefreshSelect`, `PrioritisedSelect`, `OldestForPrioritised`, `DirtiestSelect`, `OldestSelect` |
| `yaffs_gc_block`, `yaffs_gc_process_chunk` | `GcBlockStart`, `CollectSoft`, `CollectOrphan`, `CollectCopy`, `CollectEnd`, `CollectedSome`, `CleanUp`, `CollectedAll` |
| `yaffs_write_new_chunk` and below | `Invalidate`, `FindAllocBlock`, `AllocChunk`, `WriteFails`, `NotErased`, `ProgramChunk`, `WriteSummary`, `VerifyOk`, `VerifyFails`, `SkipRestOfBlock` |
| its callers | `StartData`, `StartHeader`, `StartShrink`, `Written`, `FinishWrite`, `DeleteChunk`, `SoftDelChunk`, `ReadError` |
| `yaffs_chunk_del`, `yaffs_block_became_dirty`, `yaffs_retire_block` | `ChunkDel`, `BecameDirty`, `EraseOk`, `RetireBlock` |
| `yaffs_checkpoint_save` and the write side of `yaffs_checkptrw.c` | `SaveCheckpt`, `OpenStream`, `WriteStream`, `EndStream`, `CloseStream`, `CountCheckpt` |

The port always checks that a chunk is erased before it programs it, and always
reads it back; the cache is off. Those settings are the ones modelled.

### Abstractions, and what they leave out

* Which of several eligible blocks the collector picks, the thresholds of
  dirtiness and the pacing counters (`gc_skip`, `gc_not_done`,
  `refresh_skip`) are nondeterministic: the properties hold whatever is chosen.
* The collector's cursor moves when a chunk is looked at, not at the end of
  the turn; the code reads it nowhere in between.
* A failed flush on the last byte of a record is noticed by the code one record
  later; the final state is the same, so the model notices it at once.
* Soft deletion: in yaffs2 mode `yaffs_del_file` truncates the file first, so a
  data chunk is soft-deleted only when the truncation could not match its tags
  (`yaffs_find_del_file_chunk`). The model lets any chunk be soft-deleted.
* `CleanUp` models files that are already in the deleted directory. For another
  `yaffs_generic_obj_del` writes a header with collection disabled; not
  modelled.
* Not modelled: read errors inside a call (`ReadError`, between calls, marks
  blocks the same way), the limit `yaffs_wr_attempts`, the collection that
  `yaffs_resize_file` starts without a following write, `gc_control_fn`,
  10-bit page counts (a block of the port has 128 chunks), and the cached value
  of `yaffs_calc_checkpt_blocks_required`, which is the constant `CheckptBlocks`.
* The mount is that of an erased part. What the mount of a used part finds is
  in `YaffsObjects`, `YaffsFile` and `YaffsCheckpt`.

### Runs

All use `MCYaffsBlocks`, which names the workloads (the operations the client
uses). Six blocks are the least a mount with a reserve of two, data and a block
being collected needs (`NBlocks >= NReserved + 4`); two chunks are the least for
a block that is partly in use.

| Run | Question | Bounds |
|---|---|---|
| `blocks_gc` | Are counts exact and chunks kept when files are written, deleted and soft-deleted and checkpoints saved and invalidated between the steps of a collection? Is a checkpoint never stale, is no chunk programmed twice? `TypeOK PageCountsExact LiveChunksKept CollectionLeavesNothing ErasedBlocksExact PagesWrittenOnce CheckptDescribesFlash` | 7 blocks, 3 chunks held, 5 blocks taken, streams of up to 12 chunks: some fit, some are cut short |
| `blocks_full` | Does every call return, on a full disk and on a flash that fails? Does the reserve last until it does? `ReserveSuffices ReserveKept CallsReturn` | 5 good blocks of 2 chunks and a factory bad one: the client may hold 9 chunks and finds room for 5 outside the reserve; 2 failures; 7 blocks taken, one less for each failure |
| `blocks_faults` | Chunks, counts, order and retirement under failures of program, verify and erase, with block summaries that are written, fail or are collected; do shrink headers outlive what they discard, and is the oldest dirty block tracked, also when a read or write error prioritises or retires a block? `LiveChunksKept FreeChunksExact LogInOrder ShrinkHeaderOutlives OldestDirtyTracked RetiringNotReused` | 7 blocks of 4 chunks, 2 of them summary; one block factory bad, 4 blocks taken, 2 chunks held, 2 failures; a block survives no strike |

`PagesWrittenOnce` holds in `blocks_gc`, where no failure takes blocks away
(a save always finds room for its first block); see below for what happens
otherwise.

Bounds of the model: `MaxHeld` (chunks the client holds), `MaxSeq` (blocks
taken, for each number of failures so far; no call begins beyond it, one in
progress ends), `MaxFaults`,
`CheckptChunks` (longest stream). `Rest` stutters when the bound on blocks is
reached, so that TLC's deadlock check remains on: a call that could not go on
would be reported.

`CallsReturn` meets the failures it is about. One call may lose two blocks
running: by two attempts of the write loop that fail, of the client or of the
collector, by a copy that fails and then an erasure, by two erasures. On five
blocks that is enough for the collector to find no erased block for its next
copy: `ReserveAtHand`, which `ReserveSuffices` claims until the first failure, is
violated after two. `CallsReturn` covers these states, too. Its mutant retries a
failed write in the same place, and after one failure loops for ever.

Fairness, only in `blocks_full`: weak fairness of `Step`, the steps of a call
that has begun. The thread that holds the lock runs on; nothing in the core
waits for another thread. Nothing is assumed about the client (`Begin`), or
about which alternative of a step is taken.

### Disagreements with the code's own statements

Each of these properties is defined in the module; put it into a cfg with the
constants named here and TLC prints the trace.

* `PagesWrittenOnce` with failures (8 blocks, `MaxFaults = 3`, `MaxSeq` 3 throughout,
  `MaxHeld = 9`, `CheckptChunks = 6`, `ClientOps = {"data", "save"}`): when a save
  finds no room for its first block, `yaffs2_checkpt_open` has already set `checkpt_open_write`
  (`yaffs_checkptrw.c:217`) but not reset the cursor; `yaffs_checkpt_close`
  then flushes the old buffer into the page after the old stream's end, in a
  block that may hold file data by now. Its guard does not prevent it: it
  compares with `sizeof(sizeof(...))`. It takes blocks lost to bad erasures to
  get there. `yaffs_guts.c:516` says of a chunk that is not erased that only a
  power loss can have written it.
* `PrioritisedNotUsed` (in `blocks_faults.cfg`): `yaffs_write_new_chunk` says that
  it stops using a block prioritised for collection; neither it nor
  `yaffs_alloc_chunk` looks at the flag.
* `CleanUpsRemembered` (in `blocks_gc.cfg`): `n_clean_ups` is forgotten when the
  block being collected is erased by a client's deletion between two steps of the
  collection: the file whose last soft-deleted chunk went is not finally deleted
  before the next mount. It depends on soft deletion, see above.

### Found while modelling, without a property

* The reserve does not absorb two lost blocks: with two failures and shrink
  headers the collector may find no erased block (`ReserveAtHand` fails with
  `MaxFaults = 2`, so that `ReserveSuffices` is about a flash that has not failed). The code says nothing about how many it should absorb.
* With block summaries, a header that takes the last data page of a block takes
  the pages of the summary from the reserve with it: `yaffs_check_alloc_available`
  counts one chunk. `ReserveKept` fails with `SummaryChunks > 0`, and the port
  leaves summaries on; `ReserveSuffices`
  held on the instances tried.
* A checkpoint may eat the reserve while it is being written, because
  `n_erased_blocks` is not updated until it is closed. The next write
  invalidates it first, which gives the blocks back.
* `gc_dirtiest` is not reset by a mount (`gc_block` is, `yaffs_guts.c:4803`).
* `yaffs_guts_ll_init` resets `n_free_chunks` and `gc_block` before it looks at
  `is_mounted` (`yaffs_guts.c:4892`); its callers in `yaffsfs.c` look first.

## 4. YaffsCheckpt

`YaffsBlocks` knows of a checkpoint only which blocks it takes and when it stops
being true. `YaffsCheckpt` is the other half: the bytes on flash, how they are
read back, and what becomes of them when power fails. Its `block_state` and
`n_erased_blocks` are the same fields of `yaffs_dev`.

### State

`flash` and `bad` are the part: each chunk is erased, of a file, torn (its
programming was cut off or failed) or of a checkpoint. A checkpoint chunk keeps
the hint to the next block (`tags.obj_id`), its number (`tags.chunk_id`), whether
its ECC holds, its header (`seq`, `sum`) and its data. The `yaffs_dev` fields of
an open stream are the record `stream`: `cur` and `chunk` for
`checkpt_cur_block` and `checkpt_cur_chunk`, `next` for `checkpt_next_block`, `seq`
for `checkpt_page_seq`, `offs` for `checkpt_byte_offs`, `buf` and `hdr` for the
buffer, `list` for `checkpt_block_list`. `got` holds what has been read or
written. `saved` is a history variable.

A stream is a sequence of items: the head marker, the number of erased blocks,
one item for each block info, the tail marker, the sum. An item stands for some
bytes.

### Actions

| Code | Actions |
|---|---|
| `yaffs_guts_initialise`, `yaffs2_checkpt_restore` | `Mount`, `Restore`, `Scan` |
| `yaffs2_checkpt_rd`, `yaffs2_checkpt_find_block` | `ReadItem`, `FetchItem`, `FetchFails` |
| `yaffs2_checkpt_invalidate`, `yaffs_checkpt_erase` | `BeginChange`, `BeginSave`, then `EraseOk`, `EraseFails`, `EraseEnd` |
| writes and deletions of the block manager | `TakeBlock`, `FreeBlock`, `NoChange` |
| `yaffs2_wr_checkpt_data`, `yaffs2_checkpt_wr`, `yaffs2_checkpt_flush_buffer`, `yaffs_checkpt_close` | `OpenWrite`, `WriteItem`, `WriteFails`, `WriteEnd`, `Flush`, `CloseWrite` |
| the world | `PowerOff` (at any step; in a program it tears the chunk), `Damage` |

The reader is modelled as it is written. Its two tests have become one inside
the other (see the findings): a chunk with good tags never has its header
looked at, and only that look sets the offset into the buffer back. The bytes
that are then taken from behind the data of the buffer are any bytes (`Items`).
So a checkpoint is restored from only when every chunk of it has failing ECC
and a good header; `checkpt_chain` has as many failures as that takes, and its
`Restore` is reached in this way.

### Abstractions, and what they leave out

* Files are blocks in use (`TakeBlock`, `FreeBlock`); how they are used is
  `YaffsBlocks`.
* The stream's chunk bits, objects and tnodes; the xor next to the sum; the
  endianness. A sum that is right by accident is possible in the model as it
  is in the code.
* A chunk that was torn is recognised as one that is not of a checkpoint and
  not erased. A block in which the scan finds a bad sequence number counts as
  full.
* Marking a block bad succeeds.
* A save that finds no room for its first block is in `YaffsBlocks`
  (`PagesWrittenOnce`, section 3).

### Runs

`checkpt_chain`, `TypeOK MountSound`: does a device know its flash after any mount?
Four blocks of two chunks, a reserve of two, `checkpt_max_blocks` of two (so the
code has it for a part of up to 16 blocks). `Parts` gives the items of a chunk
and the bound on failures; the run has two. With three items in a chunk the
stream lies in two blocks, and three failures can damage every chunk of it. With
one item the stream is longer than the blocks there are: saves are cut short at
every place, with one failure.

`MountSound` is what `yaffs_verify_blocks` and `yaffs_verify_free_chunks` ask at
the end of a mount, and more: a block taken for erased is erased, a block with
files in it is known to have them. It is not a matter of the reader alone: a
stale stream has to be erased before anything else changes, in an order in
which no rest of it is taken for a whole, and the states recorded while the
stream itself takes blocks have to be put right.

The lengths matter: with four items in a chunk and four blocks the stream ends
at the end of a block, and the property fails: see below.

### A disagreement with the code's own statements

* `checkpt_intact` / `IntactRestored`: a checkpoint saved in full and not
  damaged is refused. `yaffs_checkptrw.c:404-411` says "Bail out if the chunk
  is corrupted." and "Bail out if it is not a checkpoint chunk."; the first `if`
  has lost its `break`. Nothing is lost, every mount scans.
  By the same lines a chunk whose ECC fails is used when its header is good.

### Found while modelling, without a property

* `yaffs_checkpt_close` always flushes: it compares `checkpt_byte_offs` with
  `sizeof(sizeof(...))` (line 439), which it never equals. When the stream ends
  at the end of a block, a chunk with an empty buffer goes into another block,
  which the reader has no need to visit; a device restored from the checkpoint
  takes that block for erased, until the erased check of
  `yaffs_write_new_chunk` finds out.
* The reader stops at `checkpt_max_blocks` (line 171), the writer does not: a
  longer stream is written and never read. `MountSound` holds for such a stream
  too (the second part of `checkpt_chain`).
* When a checkpoint block can neither be erased nor marked bad
  (`yaffs_checkptrw.c:109-117`) its chunk stays for the next mount to find.
* A block whose first chunk has a bad sequence number is left in `NEEDS_SCAN`
  (`yaffs_yaffs2.c:1627`): no scan, collection or allocation reaches it again.

## 5. YaffsObjects and YaffsStore

### State

`flash` is the log: the chunks on the flash in the order they were programmed. A
chunk is a header (object id, parent, name, type, equivalent object of a link,
shrink flag, shadowed object) or the one data chunk of a file. `live`, its bit in
the chunk bitmap, and `keep`, `has_shrink_hdr` of its block, are knowledge in
RAM that a power loss takes away (`Marked`). `ram` holds `yaffs_obj` for each
id: kind, parent, name, equivalent object, size, `is_shadowed`, open (an inode
refers to it), dirty. `call` is the call in progress and `todo` what it has
still to do: a call is a plan of programs and changes of RAM in the order the
code makes them, and power may fail, or a chunk be collected, between any two.
`found` is auxiliary: what a mount of `flash` would find now.

### Actions

| Code | Actions |
|---|---|
| `yaffs_create_obj`, `yaffs_create_file`, `yaffs_link_obj` | `CreateFile`, `LinkObj` |
| `yaffs_unlinker`, `yaffs_unlink_worker`, `yaffs_del_obj` | `Unlinker`; plans `UnlinkPlan`, `UnlinkLinkedPlan` |
| `yaffs_rename_obj` | `RenameObj`; plan `ReplacePlan` when the name is taken |
| `yaffs_wr_file`, `yaffs_resize_file`, `yaffs_flush_file` | `WriteFile`, `Truncate`, `FlushFile` |
| handles on an object | `Open`, `Close` (with the deletion of an unlinked file) |
| `yaffs_update_oh`, `yaffs_wr_data_obj`, `yaffs_prune_chunks`, `yaffs_free_obj`, `yaffs_handle_shadowed_obj` | the steps of a plan: `Step` |
| collector | `GcChunk` (a copy to the end), `Erase` |
| power | `PowerFails`, `Mount` |

`Scan` is `yaffs2_scan_backwards` with `yaffs2_scan_chunk`: from the newest chunk
to the oldest, the first header of an object wins, an older one may still say
that the file was cut, data belongs to a file unless it was cut, shadowed
objects go to the unlinked directory, links are tied at the end, and what lies
in the unlinked and deleted directories is removed by `Mount`, in any order, with
the headers that writes.

`YaffsStore` is the abstract specification: a set of entries `<<name, file>>`, the
content of each named file, and the call in progress. There is no flash in it.
A call takes effect at once; power loss is the end of a call; collection,
erasure and mount are stutters. `StoreSpec` is `Store!Spec` under the mapping
`dir <- found.dir`, `body <- found.body`: it is about what a user would see after
a power loss at each moment. One step of it is weaker than one would like, as
the code is: a truncation, and the truncation at the start of an unlink, lets
the chunks go before a header says so, so that until the header is there the
content found may be gone or an older version.

### Abstractions

* One directory and files of one data chunk; the bytes of larger files are in
  `YaffsFile`. Names are model values.
* Blocks: any dead chunk may be erased at any time, except that one with `keep`
  waits until nothing older is dead. That rule is `ShrinkHeaderOutlives` of
  `YaffsBlocks`.
* A chunk is programmed or not; one that power loss tears is refused by its tags
  (`YaffsTags`) and is as if not there.
* An id that no object in memory has may be given out again, as in
  `yaffs_new_obj_id`.

### Run `objects`

`TypeOK MountAgrees NamesUnique LinksResolve StoreSpec`, with two ids (a file and
its link, or two files one of which replaces the other), two names, two
contents and four chunks on the flash at a time; the log itself is unbounded,
since erased chunks leave it. Four hold an old and a new version of two headers,
or of a header and data with a deletion record. Ids, names and contents are
interchangeable, and the properties treat them alike, so the symmetry is sound.
The mutants undo the shrink mark of a deletion, the order of a replacing rename,
the suspended collection, the shadow and the treatment of hard links.

### Disagreements with the code's own statements

* `"links"` / `LinksResolve`. `yaffs_unlink_worker` says of a file with links "We
  can't really delete the object." (`yaffs_guts.c:4138-4152`) and gives it the
  name of one of its links instead. A rename over such a file writes its
  shadowing header first, and to a scan that header does delete the object:
  after a power loss the link leads nowhere and the content is gone. In a plain
  unlink, the file's header with the link's name is written before the link is
  deleted; a power loss in between leaves two objects with one name.
* `"mountgc"` / `NamesUnique`. `yaffs_rename_obj` says "Note we must disable gc here
  otherwise it can mess up the shadowing." (`yaffs_guts.c:4273`). A mount that
  finds such a rename unfinished deletes the shadowed object with collection
  enabled: the collector may copy the header that shadows, and the copy does
  not shadow, before the deletion record of the shadowed object is on flash. A
  second power loss at that moment leaves both under one name.

## 6. YaffsFile

### State

`log` holds the headers (with the size they store) and data chunks of one file in
the order of programming, with `live` and `keep` as above; the live data chunk of
each number is what the tnode tree leads to. `file_size`, `stored_size` and `dirty`
are the fields of the object, `cache` the entries of the short-operation cache
from least to most recently used, `todo` the rest of the call. `want` is
auxiliary: the bytes the caller was told are in the file.

### Actions

| Code | Actions |
|---|---|
| `yaffs_wr_file`, `yaffs_do_file_wr` | `WrFile` begins the call, `DoFileWr` is one turn of its loop, the bytes of one chunk: `WriteHit`, `WriteMiss`, `WriteDirect` |
| `yaffs_file_rd` | `View` (what it returns), `ReadPart` (the entry it loads) |
| `yaffs_grab_chunk_cache`, `yaffs_flush_single_cache` | `Grabbed`, `Victims`, `GrabWrites` in the actions above |
| `yaffs2_handle_hole` | `HandleHole`: zeros for a small hole, a header with the shrink flag for a large one |
| `yaffs_resize_file`, `yaffs_resize_file_down`, `yaffs_prune_chunks` | `ResizeFile`, then `PruneChunks`, `ResizeFileDown`, `Grow`, `UpdateOh` |
| `yaffs_flush_file`, `yaffs_flush_file_cache` | `FlushFile`, then `FlushFileCache`, `UpdateOh` |
| collector, power | `GcChunk`, `Erase`, `PowerFails`, `Mount` |

### Abstractions

* A byte is a model value; a chunk has `ChunkBytes` of them. The tnode tree is the
  function it represents.
* Lack of space: the cache may refuse an entry (`WriteMiss`), and filling a hole
  may fail. A flush waits for room: that `yaffs_flush_single_cache` marks an entry
  clean although its write failed (`yaffs_guts.c:1481`) loses the data, and the
  model would only repeat that.
* `write_through` and inband tags are not modelled. The port has no cache; both
  it and a cache of one entry are checked, which is the size at which every use
  of another chunk evicts.

### Run `file`

`TypeOK ReadsBack Synced`, chunks of two bytes, sizes up to four, a write across
two chunks and one that leaves a hole, truncation to nothing, to the middle of
the first and of the second chunk, holes filled and skipped, four chunks on the
flash at a time. `Synced` compares bytes and not sizes: see the second item below.

### Run `file_order`

One device with one entry and `cache_bypass_aligned`, a file written over two
chunks and truncated to nothing: `ResizeRemembered` fails, see the first item
below.

### Disagreements with the code's own statements

* `ResizeRemembered`. The scan attaches a data chunk below `shrink_size`: "This has
  not been invalidated by a resize" (`yaffs_yaffs2.c:1243`). A header without the
  shrink flag cuts only while it is the newest one, and the chunks of a write need
  not reach the flash in order: the cache evicts what was used least recently
  (`yaffs_guts.c:1573`), and `cache_bypass_aligned` sends a whole chunk past a cached
  one (`:3658`). A file is truncated to nothing, written again, its second chunk
  reaches the flash and power fails. The mount takes the size from that chunk,
  deletes the first chunk of before the truncation and reads zeros there, as it
  should. The next header stores the whole size, and the mount after it finds the
  old chunk below that size and attaches it. A device without a cache, as the port
  is built, or with a single entry and no bypass sends the chunks of a file in
  order, and `Synced` holds: in the run `file`, and for every such device by
  `SyncedAlways`.
* `"nospace"` / `ReadsBack`, `Synced`. `yaffs_wr_data_obj` raises `stored_size` before the write
  (`yaffs_guts.c:3136`). When it fails for lack of space, the next header stores
  that size, and the scan takes older chunks below it for the file's: "This has
  not been invalidated by a resize" (`yaffs_yaffs2.c:1243`).
* `SizeSurvives`, without any exposure. `yaffs_resize_file` writes a header "to
  reflect the resize" (`yaffs_guts.c:3876`); `yaffs_update_oh` stores
  `stored_size`, which growth does not change. The file has its new size until
  the next mount.
* `"cut"` / `ReadsBack`, `Synced`. A truncation lets chunks go before it writes its
  header. If in between the newest version of such a chunk is erased and an
  older one is not, a power loss brings the older one back, inside a size the
  old header still states. The code makes no statement about that window.

## 7. YaffsFs

### State

`handle`, `fd` and `inode` are the three tables of `yaffsfs.c` with their counts, `v`
the position of a descriptor or, for a directory, its search context (they
share a place in the code as well), `dsc` the search contexts, `obj` and `kids`
the objects in memory and the ordered lists of children, `mounted` and
`read_only` the device. `task` is a read or write between two of its turns.
Auxiliary: `open`, the handles the application has; `owed`, what a directory
search has still to return.

### Actions

One action per call, since a call holds the lock from end to end: `OpenFile`,
`CreateFile`, `OpenDirectory`, `Dup`, `Close`, `Truncate`, `Ftruncate`, `Lseek`, `DoUnlink`,
`Funlink`, `Rename`, `Mkdir`, `Opendir`, `Readdir`, `Rewinddir`, `Closedir`, `ReaddirFd`,
`RewinddirFd`, `Mount`, `Unmount`, `Remount`, `Format`. The exceptions are `Read` and
`Write`, which give the lock up after each `YAFFSFS_RW_SIZE` bytes: they begin a
call and `NextTurn` is one turn of it. Anything may happen between two turns. A
turn looks the handle up again ("Need to reverify object in case the device was
unmounted in another thread", `yaffsfs.c:1276`), works, and moves the position.
Calls that fail change nothing that is modelled and are left out.

### Abstractions

One device; paths are a directory and a name; a mode says what a descriptor
may do and what others may do meanwhile (`shareRead`, `shareWrite`); a file's content is its size. `stat`, `chmod`, `utime`, extended
attributes, symbolic links and error numbers are left out.

### Run `fs`

`TypeOK TablesAgree OpenKept SharingKept NoHangingPtr ScanComplete KeepsItsFile`,
with one task whose reads and writes are interrupted by every other call (the
calls need no task), two objects, two names, two slots in each table, one search
context, transfers of two turns, and one size to truncate, seek and read at,
between nothing and the whole. Two slots are the least for two descriptors
of one object, a dup, and a slot that is taken again.

### Disagreements with the code's own statements

* `"reuse"` / `KeepsItsFile`, `TablesAgree`. The reverification looks up the handle by
  its number. If it was closed, or ended by a forced unmount, and the number
  was given to another open, the transfer goes on in the other file, and at the
  end lets go of a handle that is not its own.
* `"hanging"` / `NoHangingPtr`. "advance the dsc to the next one to prevent a hanging
  ptr" (`yaffsfs.c:3585`): that is done for the entries. A search of a directory
  that is itself removed, or of a device that is unmounted, keeps its pointer.
* `"seekdir"` / `NoHangingPtr`. `yaffs_lseek` (`yaffsfs.c:1558-1597`) does not ask
  whether the handle is that of a directory, whose search context shares the
  place of the position.

Found while modelling, without a property: `yaffsfs_BreakDeviceHandles` ends the
handles of all devices (388); a close after a forced remount read-only writes;
two appending tasks overwrite each other between turns; `yaffs_fgetfl` reads the
descriptor before the lock (1704); `yaffs_bg_gc` runs on devices mounted
read-only (3120).

## 8. YaffsGlue

### State

`devSem` and `mutex1` have an owner or none; `is_mounted`, `name` (what a path leads
to) stand for the volume; `pFdList` are the driver's descriptors, each with its
own object, the handle of the POSIX layer (`yfd`, as the object it refers to), path
and `exclusive`. `pc` and `call` are where each task stands. `held` is auxiliary:
the descriptors the I/O system has been given.

### Actions

| Code | Actions |
|---|---|
| `yaffsOpen`, `yaffsVolMount` | `Open`, `VolMount`, `MountOk`, `MountFails`, `FdGet`, `NoFd`, `Find`, `Create`, `Opens`, `OpenFails`, `Opened`, `OpenRet`, `FdFree` |
| `yaffsClose` | `Close`, `CloseTake`, `CloseCore` |
| `yaffsRead`, `yaffsWrite`, `FIOSYNC`, `FIOFLUSH` | `FileIo`, `FileIoTake`, `FileIoDone` |
| the ioctls that look at a file or the volume | `Query`, `QueryDone` |
| `yaffsDelete` | `Delete`, `DeleteFind`, `DeleteCore` |
| `yaffsRename`, `FIOUNMOUNT`, `yaffsVolUnmount` | `Rename`, `RenameCore`, `Unmount`, `VolUnmount`, `UnmountCore` |
| `yaffsfs_Lock` | `Enter` |

A step ends where another task may run: at the take of a semaphore, and between
the parts of a call that hold none. An object nothing refers to is free memory
and may be given out again for another.

### Runs

`glue` has two tasks, two paths, two files and a directory, two descriptors and
four sets of flags: `LocksReturned ExclusiveKept OneObject NoSlotLost Progress`.

Fairness, for `Progress`: weak fairness of "some task that is in a call takes a
step". A task that has a semaphore or needs none runs on. Nothing is assumed
about which task gets a semaphore: they are created with `SEM_Q_PRIORITY`, so a
task of low priority may wait for ever, and the property says only that the
tasks never all wait.

`OneObject` is stated for files. The POSIX layer does not count a directory that
is open through the driver, so that the object of its descriptor may be freed
and given out again.

`glue_core` / `CoreExclusive` finds two tasks in the core. "A single mechanism to
lock and unlock yaffs." (`Yaffscfg.c:131`) is not so: `yaffsRead` and `yaffsWrite` use
the core under `devSem` alone, `FIOUNMOUNT`, rename and the volume's ioctls under
`mutex1` alone.

### Exposures

* `"rename"` / `OneObject`. A path is looked up twice (once for `obj`, once by
  `yaffs_open`); rename and `FIOUNMOUNT` do not take `devSem` and come in between.
  The descriptor then has the object of one file and the handle of another.
* `"shared"` / `OneObject`. Two tasks use one descriptor: one closes it while the
  other waits for `devSem` with the object it looked at before.

Found while modelling, without a property: `yaffsOpen` returns NULL and not ERROR
when there is no descriptor or the mount fails, which the I/O system takes for
success, as `FIOMKDIR` does; `yaffsSetupDirectory` can end without a return value;
`yaffsFindObject` passes a NULL that `yaffsFindDirectory` dereferences on some
paths; `O_CREAT|O_EXCL` creates the file and is refused; the test for append
uses `==` on the flags (401-403); `yaffsWrite` does not look at `readOnly`;
directory reading by ioctl goes through two globals that all descriptors share
(1024); delete and open of an unmounted volume use its old root; seeks take no
lock.

## 9. YaffsTags

`page` is a chunk on flash as the set of places that hold a 1: data bytes and
their codes, packed tags and theirs. `wrote` is what was written, `flips` the bits
that have changed since, `got` what the last read returned. Actions:
`WriteChunk` (`yaffs_nand_tag_WriteChunk`), `ReadChunk` (`yaffs_nand_tag_ReadChunk`),
`Erase`, and `Flip`, a bit that changes by itself.

A number is the set of its one bits, so that exclusive or is symmetric
difference. Packing (`PackTagsOnly`, `UnpackTagsOnly`), the code of the tags
(`EccCalcOther`, `EccCorrectOther`), the code of 256 data bytes (`EccCalc`,
`EccCorrect`) and the loop that puts results together (`EccStatus`) are operators
translated line by line from the code; the reference they are checked against
is what was written, read through `Stored`.

Run `tags`: five tags (data; headers of a short file, of one too long for the
extra information, of a link and of a directory), two blocks of 256 bytes of
which the first, the middle and the last byte are looked at (their addresses
have no, one and eight one bits), up to two flips among the outermost and some
inner bits of every byte and code. `TagsTrusted` and `DataTrusted`: up to two flips
in a code's reach are corrected or reported, never miscorrected; one is always
corrected.

Left out: tags with a sequence number near 2^32, the byte order (the port's
processor is big-endian, the tags are written as they lie in memory), erased
chunks with flips beyond "not taken for written".

Found while modelling, without a property: the result of a block of 256 bytes
that was corrected is overwritten by a later clean one, so that no refresh is
asked for (`Micron_nandflash4k.c:309`); `yaffs_nand_tag_QueryBad` uses the sequence
number of tags that could not be corrected.

## 10. Theorems

The theorems hold for every value of the constants that satisfies the named
assumptions of the component's module, which TLC evaluates in every run. Each
names the property as the runs check it; the hypotheses a theorem has beyond
`Spec` are in the table and explained below.

| Module | Theorem | States | Given |
|---|---|---|---|
| `YaffsBlocks_proofs` | `TypeCorrect` | `Spec => []TypeOK` | |
| | `PageCountsCorrect` | `Spec => []PageCountsExact` | |
| | `LiveChunksSafe` | `Spec => []LiveChunksKept` | |
| | `LogOrdered` | `Spec => []LogInOrder` | |
| `YaffsBlocksCounts_proofs` | `ErasedBlocksCorrect` | `Spec => []ErasedBlocksExact` | |
| | `FreeChunksCorrect` | `Spec => []FreeChunksExact` | |
| | `ReserveLasts` | `Spec => []ReserveSuffices` | `Calm` |
| | `ReserveStays` | `Spec => []ReserveKept` | `Calm` |
| | `CalmLeavesNothing` | `[]CollectionLeavesNothing` | `Calm`, `[](faults = 0)` |
| `YaffsBlocksSteps_proofs` | `CheckptSound` | `Spec => CheckptDescribesFlash` | |
| | `RetiringSafe` | `Spec => RetiringNotReused` | |
| | `OnceProgrammed` | `[]PagesWrittenOnce` | `[]SaveFindsRoom` |
| | `OldestTracked` | `[]OldestDirtyTracked` | `[]SaveFindsRoom` |
| | `ShrinkHeadersOutlive` | `[]ShrinkHeaderOutlives` | `[]SaveFindsRoom` |
| | `NothingLeftBehind` | `[]CollectionLeavesNothing` | `[]ReserveAtHand` |
| `YaffsGlue_proofs` | `LocksReturn` | `Spec => []LocksReturned` | |
| | `SlotsKept` | `Spec => []NoSlotLost` | no `"shared"` |
| | `OneObjectKept` | `Spec => []OneObject` | no `"shared"`, `"rename"` |
| | `ExclusiveFiles` | `Spec => []ExclusiveKept` | no `"shared"`, `"rename"` |
| `YaffsFs_proofs` | `TypeCorrect` | `Spec => []TypeOK` | no `"reuse"` |
| | `CountsAgree` | `Spec => []TablesAgree` | no `"reuse"` |
| | `OpenLasts` | `Spec => []OpenKept` | no `"reuse"` |
| | `SharingLasts` | `Spec => []SharingKept` | no `"reuse"` |
| | `FileKept` | `Spec => []KeepsItsFile` | no `"reuse"` |
| | `NothingHangs` | `Spec => []NoHangingPtr` | no `"reuse"`, `"hanging"`, `"seekdir"` |
| | `ScansComplete` | `Spec => []ScanComplete` | no `"reuse"`, `"hanging"`, `"seekdir"` |
| `YaffsTags_proofs` | `TagsAlwaysTrusted` | `Spec => []TagsTrusted` | |
| | `DataAlwaysTrusted` | `Spec => []DataTrusted` | |
| `YaffsFile_proofs` | `TypeCorrect` | `Spec => []TypeOK` | no `"nospace"`, `"cut"` |
| | `ReadsBackAlways` | `Spec => []ReadsBack` | no `"nospace"`, `"cut"` |
| | `ScanFinds` | what `Scan` finds in any log with a header | |
| | `SyncedAlways` | `Spec => []Synced` | no `"nospace"`, `"cut"`; chunks sent in order |

### YaffsBlocks

`YaffsBlocksInv` states the inductive invariant; the proofs are in three modules:
`YaffsBlocks_proofs` (write loop, deletion, retirement, collection, checkpoint,
initial state, all steps together, the invariants), `YaffsBlocksSteps_proofs` (what no
step does, and what it takes more than `IInv` to say) and
`YaffsBlocksCounts_proofs` (the counters and the reserve). They hold for every
geometry, reserve, workload and bound that satisfies `GeometryAssumption` and `BoundsAssumption`: a
reserve of at least two blocks, four more blocks than the reserve, at least two
chunks in a block, summaries smaller than a block.

Why a strengthening is needed: none of them is inductive. That a live chunk is
never erased depends on where the call stands: the block that is erased is the
one `del` names, and it is erased because the last bit of it was just cleared,
which is known only through the exact page counts and the states of the blocks
that can be reached from each `pc`. So the invariant `IInv` has, next to
`TypeOK` and `PageCountsExact`:

* `CallInv`: the call in progress has the arguments its steps use; a chunk that
  is being replaced is the client's;
* `AllocInv`: only `alloc_block` is allocating, it is the newest, and the chunks
  from `alloc_page` on have no bits;
* `SeqInv`: sequence numbers of blocks in use differ and are at most
  `seq_number`;
* `GcInv`: only `gc_block` is collecting; the blocks that `gc_dirtiest` and
  `oldest_dirty` remember are still in use, which is what makes it safe to
  select them unseen;
* `BitsInv`: chunks with bits lie in blocks in use; the client's and the
  soft-deleted chunks differ, have bits and are programmed; the chunk being
  written is neither's;
* `DelInv`: the chunk being deleted is nobody's, and its block is erased only
  when it has no bits;
* `SummaryInv`: no data lies where a summary is dropped;
* `CkptInv`: a checkpoint block at hand was begun.

`IInv` was checked with TLC on every configuration before it was proved. Each
proof has one lemma per action or group of actions and a step per conjunct
that the action can disturb.

The counters need no more than `IInv`, step by step: a chunk that is allocated
had no bit before (`AllocInv`), a summary that is dropped holds no soft-deleted
chunk (`SummaryInv`), a block that is retired holds none at all (`DelInv`), and a
flush moves a block from the erased ones to the checkpoint's only at its first
chunk (`CkptInv`). The proofs first show which steps leave the counted sets
alone (`QuietOrCounted`, `UnmovedOrMoving`), then that each of the others adds or
takes away as many as it counts.

Four properties need more than `IInv` knows. Each has a small invariant of its
own, proved on top of it:

* `PagesWrittenOnce`: the block being filled is blank from `alloc_page` on
  (`PagesInv`), and the block of an open stream from the stream's cursor on
  (`StreamInv`). The second is true only if a stream that is closed was opened
  with room for its first block: otherwise the close flushes at the cursor of
  the last stream ("Disagreements", section 3). The theorem says exactly that:
  `SaveFindsRoom` is about the state in which `yaffs2_checkpt_open` decides, and
  a client that saves no checkpoint always meets it (`NoSavesFindRoom`).
* `OldestDirtyTracked`: every block of the log with discarded data, a programmed
  page without a bit or soft-deleted, is at least as new as the recorded one
  (`TrackInv`). That a page is programmed only once is what makes "programmed
  without a bit" mean discarded: `PagesInv` is used.
* `ShrinkHeaderOutlives`: as long as a shrink header stands for data of an older
  block (`Shields`), that data is discarded, so the older block is tracked, so
  `yaffs_block_ok_for_gc` refuses the header's block, which is then neither being
  collected nor the candidate (`ShadowInv`). A block that is being erased has
  lost its bits just now (`ErasingInv`), and a header just written lies in a
  block that is not being collected (`NewInv`).
* `CollectionLeavesNothing`: every page behind the cursor of the collector has no
  bit, or is being moved or deleted at this moment (`CursorInv`). A copy that
  finds no chunk would leave its page behind; only a copy that may use the
  reserve is made (`CopyInv`), and `ReserveAtHand` says that it finds one.

The reserve. That the collector always finds a chunk to copy to, without which a
full disk could never be written again, is nowhere computed by the code: it
reserves blocks, collects when few are erased, and selects blocks that are not
all in use. It is not true of every device: a block that is lost takes its
chunks from the reserve, and a summary takes more chunks than are asked for
("Found while modelling", section 3). The theorems are about a device without
these, `Calm`: no summaries, no saves, and as many good blocks as are reserved;
they speak of its states until the flash fails for the first time (`CalmUntilFault`).
`blocks_full` runs such a device. Its geometry, its
reserve, its workload of writes, header updates, shrink headers, deletions, soft
deletions and background collections, and the number of chunks a call may copy,
are any.

The invariant `ResInv` counts the chunks that can be written before a block is
erased, `Writable`: those of the erased blocks and the rest of the one being
filled. With `Kept`, the reserve less the one block that a collection may begin
to use:

* `RoomInv`: a call that may not use the reserve leaves it free, one that may has
  the chunk it replaces still to give back (`Pending`);
* `ShapeInv`: a collection works on its block alone, which has a chunk until it
  is given up;
* `PartlyInv`: what the collector may select unseen is not all in use, or space is
  not short; so is the block it left off, or it is about to drop a chunk of it;
* `SpaceInv`: a client that begins a write has more than `Kept` chunks; during a
  collection, `Writable` and one block cover what is in use of the block being
  collected and `Kept`, and if the collection may stop before its end, `Writable`
  alone does. The last is where an aggressive collection differs from a passive
  one: it copies up to a block's worth of chunks, so that it stops only when the
  block is erased.

An aggressive search that selects nothing is the remaining case. A shrink header
may keep a block with something to gain from collection, but never the oldest
such block (`NothingFit`): so no block is partly used, what is free is erased or in
the block being filled (`SearchFindsRoom`, by `FreeChunksExact` and
`ErasedBlocksExact`), and `RoomInv` says that it is enough. Nor does a shrink header
keep the block being collected from its erasure: the collection took the mark
off when it began (`ShrinkInv`). `ResInv` was checked with TLC before it was proved, on
instances with two and three chunks in a block (the largest with 9.6 million
states) and on random runs of larger ones.

### YaffsGlue

The theorems of `YaffsGlue` hold for every number of tasks, descriptors, paths and
objects under `GlueAssumption`. `LocksReturned` says who may own a semaphore; it
becomes inductive when it says so exactly, place by place (`LockInv`): a task is
inside the POSIX layer if and only if it owns `mutex1`, it owns `devSem` wherever
the code relies on it, and nowhere else but in an unmount, which comes with it
(`yaffsVolUnmount`) or without (`FIOUNMOUNT`). `LocksReturn` includes the exposures.
`NoSlotLost` needs that the call that fills a descriptor is the only one that
knows it. `FdInv` adds to the types of the variables (`TypeInv`) which arguments a
call has at each of its places (`CallInv`), and that no two calls have the same
descriptor and a call other than open has one that the I/O system holds
(`SlotInv`); the last is where `"shared" \notin Exposed` is used. (On the instance
of `glue` TLC finds no violation without it either.)

`OneObject` is about two lookups of one path. `ObjInv` adds to `LockInv` and `FdInv`
what holds between them (`OneInv`): a task that may change a name and one that
is opening are never under way together (`NamesStay`, where `"rename" \notin
Exposed` is used); the object an open has found still has its name when the
POSIX layer looks it up (`OpenInv`); a file is open only on a mounted volume
(`FilesMounted`); a read or write waits for `devSem` with the object its
descriptor still has (`IoInv`). `ExclusiveKept` needs that what an open has checked
of the other descriptors remains so until it fills in its own, since it keeps
`devSem` (`Admitted`).

### YaffsFs

The proofs hold for tables of any size, any set of directories, files, names
and modes, and any finite set of tasks in the middle of a transfer
(`SizesAssumption`, `TasksAssumption`, `DistinctAssumption`). `FsInv` is `TableInv`
and `TreeInv`, and every action is proved to preserve both.

`TablesAgree` says what each count counts: for a handle one for the application
that has it and one for every transfer that holds it, for a descriptor the
handles in use that lead to it (`dup`), for an inode the descriptors in use that
lead to it. It is kept (`CountInv`) because what a count leads to is in use.
That an open which finds a free descriptor also finds a free inode follows by
the pigeonhole principle, and is proved as a lemma, as the code never tests it.
A transfer between two turns has its handle, or lost it to a forced unmount, in
which case no open may get its slots before it ends (`TaskInv`: this is the
exposure `"reuse"`, under which the code breaks the counts); a position is a
number except in a directory's descriptor (`PlaceInv`).

`TreeInv` says that an object is in the list of a directory if and only if it
names that directory as its own (`KidsAgree`), the lists being without repetition
(`CoreType`), that an object an inode refers to is in memory and refers back,
and that an unlinked one is held by an inode (`HookInv`).
For the searches, `ScanInv`: a context is in a directory in memory (`DirsInv`),
the context of a directory handle is its own (`OwnInv`), and what is still owed to
a search are the children from its entry on, in their order (`ScanAgree`). That is
what the hook that advances a search context restores whenever an entry leaves
its list: the lemmas `FromRemove` and `FromPutFirst` say how the rest of a list
from one entry on changes with the list.

All of these invariants were checked with TLC on the run's instance before they
were proved.

### YaffsTags

The run looks at five tags, one content and some of the bits; the theorems hold
for all tags with ids of 28 bits (`TagsAssumption`), for all data and any number
of blocks (`DataAssumption`), and whichever two bits of the page change
(`FlipsAssumption`; two are what the codes are made for). A sequence number must
have three zero bits, as every number below 2^29 has: `0xEFFFFEFF` has only two,
and when both change the word reads as `0xFFFFFFFF`, the tags as those of an unused
chunk, and the status is still "no error".

The inductive invariant, `PageInv`, only repeats what writes, flips and erasures
do: the page is what was written, encoded, exclusive or the places that have
changed, at most two of them. The rest is about the codes alone:

* both are linear (`LineParityXor`, `ColParityXor`, `RawXor`): the difference between
  the code that is read and the one that is computed again depends on the
  changed bits alone, not on tags or data;
* one changed bit of data leaves exactly one bit in each pair of parities,
  and these spell its address; two leave both or none in some pair; a bit of
  data and one of code spoil a pair; one or two bits of code alone are never
  taken for a bit of data;
* the tags' code keeps two words of line parities, which name the byte as the
  exclusive or of their numbers: the same argument, byte by byte;
* an erased page has ones everywhere, its codes included: of 32 line parities read
  as ones the computed code has at most the lowest four, so that the difference
  is in more bits than two changes can hide, and is no byte's number. It is
  never put right into something written.

### YaffsFile

The run has two devices, chunks of two bytes and files of up to four. The
theorems hold for any number of cache entries, with and without
`cache_bypass_aligned`, any chunk size, threshold of small holes, sizes and calls
(`SizeAssumption`, `CallAssumption`); only `SyncedAlways` is about the devices of
the run, those without a cache, as the port is built, or with one entry that
every write goes through (`InOrderParams`). Neither exposure can be dropped: with either
TLC finds `ReadsBack` violated on the instance of `file`.

`ScanFinds` says what a mount makes of a log. The scan is a recursive function of
the number of records read; `ScanInv` says what it knows after each (`ScanKnows`:
which records cut off chunks, which are attached; `ScanSize`), and the induction
over the records is one over the least natural number at which it would fail
(`LeastNatural`, from the well-foundedness of the naturals).

`IInv` says, of a file that is mounted:

* what is on the flash could be mounted at any moment (`FlashOK`): no header ends a
  file in the middle of a newest chunk behind it in the log, so that a
  mount finds no bytes beyond the size it gives the file;
* the tree has the newest chunk of each number or none (`MarksOK`), and those it
  has end before `stored_size` (`LiveOK`);
* a newest chunk that is dead would be attached by a mount, but for the newest
  header or one with the shrink flag, and neither `stored_size` nor the newest
  header ends in its middle (`DeadOK`); while a truncation is under way, it is a
  chunk being cut off (`Ended`, `Ending`, with `Limit`, the place from which on
  chunks are being cut off);
* a dirty entry of the cache has zeros behind what it will write, a clean one is
  what the flash has (`CacheOK`);
* the calls go on only as `yaffs_wr_file`, `yaffs_resize_file` and
  `yaffs_flush_file` let them (`Plan`): a hole is filled up to where the data
  begin or marked, and a hole that cannot be filled has only zeros to take back;
* each chunk number has the bytes of `want`, in its entry if it is cached, and on
  the flash otherwise (`DataOK`).

`FlashOK` and `DeadOK` are what a power failure turns into each other: `MountLog`
proves that a log that may be mounted is, once mounted, as `LiveOK` and `DeadOK`
say, with the size the scan has found. The invariant was checked with TLC on the
run's instance before it was proved.

`Synced` needs more: `IInv` allows a dead chunk that the newest header ends before
(`DeadOK`), and the next header may end behind it, which is the first
disagreement above. What excludes that is the order in which chunks reach the
flash. `Ordered` calls a dead chunk loose when only the newest header, or nothing,
keeps a mount from attaching it, and says:

* a chunk behind the newest header comes before every loose chunk that this
  header cuts off (`Behind`), which is what outlasts a power failure: the mount
  takes its size from such a chunk, and its next header must not end behind what
  it has just left out. Every chunk of the tree in front of the newest header is
  within the size in it (`Stored`);
* a loose chunk lies behind all that the file stores or holds in the cache, or a
  dirty entry will replace it (`LooseBehind`), and then no dirty entry lies behind
  it (`DirtyBefore`): the entry is written before a header's size passes the
  loose chunk. The bounds give way to where the file is being cut off during a
  truncation (`CutPoint`, `Horizon`), to the missing header of one (`Reset`, `Torn`)
  and to the gap in front of a write past the end (`Skips`);
* a dirty entry is known to the file: it is marked dirty, or in the middle of a
  write (`DirtyKnown`).

A step that writes a chunk needs it to come before every loose chunk (`Before`);
with one entry, the entry that is written out is the only dirty one, and without
a cache the chunk is where the file ends or inside of it (`QuietOut`,
`QuietDirect`). When a file is not dirty, `Ordered` leaves no loose chunk below
`stored_size`, and `ScanFinds` then says that a mount attaches exactly the chunks
of the tree (`TreeIsFound`). `Ordered` was checked with TLC on the run's instance
before it was proved.

### What is only model-checked

* all of `YaffsCheckpt` and `YaffsObjects`;
* the liveness properties `CallsReturn` and `Progress`: liveness under fairness is
  out of the prover's reach.

Worth proving next: `TypeOK` and `MountSound` of `YaffsCheckpt`, `TypeOK` of
`YaffsObjects`, the reserve of a device that saves checkpoints or writes summaries.

## 11. Not modelled

* The allocator of objects and tnodes (`yaffs_allocator.c`): sequential free lists
  that only grow; the modules allocate from finite sets.
* Extended attributes (`yaffs_nameval.c`): a pure search and copy in one header's
  buffer, not reached from the port's driver.
* yaffs1 mode (`yaffs_tagscompat.c`, `yaffs_packedtags1.c`) and `yaffs_tagsmarshall.c`:
  the port does not use them.
* Endianness conversion (`yaffs_endian.c`), attributes and times
  (`yaffs_attribs.c`), error strings, `qsort.c`, lists, the test program.
* The commands to the NAND chip. That they fail is modelled where it is handled.
* Symbolic links and the walk along a path (`yaffsfs_DoFindDirectory`,
  `yaffsfs_FollowLink`), `lost+found`, special objects.
* The internals of the tnode tree: `YaffsFile` has the function it represents.
* Block summaries as a shortcut of the scan; a second mount of the block
  manager in one behaviour; devices beyond the first.

## 12. How to run it

    tlc -config blocks_gc.cfg MCYaffsBlocks.tla
    tlc -config checkpt_chain.cfg MCYaffsCheckpt.tla
    tlc -config objects.cfg MCYaffsObjects.tla
    tlc -config glue_core.cfg MCYaffsGlue.tla       (ends with a trace)
    tlc -config file_order.cfg MCYaffsFile.tla      (ends with a trace)
    tlapm YaffsBlocks_proofs.tla
    tlapm YaffsBlocksSteps_proofs.tla
    tlapm YaffsBlocksCounts_proofs.tla
    tlapm YaffsGlue_proofs.tla
    tlapm YaffsFs_proofs.tla
    tlapm YaffsTags_proofs.tla
    tlapm YaffsFile_proofs.tla

`runs` in `PROJECT.json` lists the module and the cfg of every run. Each of the passing runs takes
less than three minutes on two workers; `mutants` names, for each property of
each run, a mistake in the code under which TLC finds it violated
(`Name_Variant` in the module).
