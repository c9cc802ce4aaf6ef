----------------------------- MODULE YaffsFile ------------------------------
(***************************************************************************)
(* The data of one file: writes and reads through the short-operation      *)
(* cache or past it, holes, truncation and growth, flushing, the garbage   *)
(* collection of its chunks, and the mount after a power failure that      *)
(* rebuilds size and contents from the log (yaffs_guts.c, yaffs_yaffs2.c). *)
(*                                                                         *)
(* log holds the file's chunks on the flash in the order they were         *)
(* programmed: headers (chunk 0, with the size stored in them) and data    *)
(* chunks of ChunkBytes bytes, n of them in use.  live and keep are RAM    *)
(* knowledge, as in YaffsObjects: the tnode tree, which holds the live     *)
(* data chunk of each chunk number, and has_shrink_hdr.                    *)
(*                                                                         *)
(* want is an auxiliary variable: the bytes the caller has been told are   *)
(* in the file.                                                            *)
(***************************************************************************)
EXTENDS Integers, Sequences, SequencesExt

CONSTANTS Vals,        \* what a caller writes; a hole reads as Zero
          Zero,
          ChunkBytes,  \* data_bytes_per_chunk
          SmallHole,   \* YAFFS_SMALL_HOLE_THRESHOLD, in chunks
          Params,      \* [n_caches, bypass] of the devices considered
          Exposed,     \* which known disagreements may be met: "nospace"
                       \* (a write past the cache finds no space), "cut" (a
                       \* truncated chunk is erased before an older version
                       \* of it and before the new size is stored)
          MaxSize,     \* bound on the file's size
          Writes,      \* <<offset, length>> of the writes considered
          Sizes,       \* sizes the file is set to
          MaxLog       \* bound on the chunks present on the flash

VARIABLES log, up, file_size, stored_size, dirty,
          cache,       \* cached chunks, least recently used first
          todo,        \* the rest of the call in progress
          param,
          want

vars == <<log, up, file_size, stored_size, dirty, cache, todo, param, want>>

ASSUME SizeAssumption ==
  /\ ChunkBytes \in Nat \ {0} /\ SmallHole \in Nat /\ MaxSize \in Nat
  /\ Params \subseteq [n_caches : Nat, bypass : BOOLEAN]

ASSUME CallAssumption ==
  /\ Writes \subseteq Nat \X (Nat \ {0})
  /\ \A w \in Writes : w[1] + w[2] <= MaxSize
  /\ Sizes \subseteq 0 .. MaxSize

Chunks == 1 .. (MaxSize + ChunkBytes - 1) \div ChunkBytes
Base(k) == (k - 1) * ChunkBytes

(* yaffs_addr_to_chunk, with chunks counted from 1 as its callers do.      *)
ChunkOf(off) == (off \div ChunkBytes) + 1
StartOf(off) == off % ChunkBytes

Larger(a, b) == IF a > b THEN a ELSE b
Smaller(a, b) == IF a < b THEN a ELSE b

Zeros(n) == [i \in 1 .. n |-> Zero]

(* d with the bytes b from offset start on, padded where it is too short.  *)
Overlay(d, start, b) ==
  [i \in 1 .. Larger(Len(d), start + Len(b)) |->
     IF i \in start + 1 .. start + Len(b) THEN b[i - start]
     ELSE IF i <= Len(d) THEN d[i] ELSE Zero]

-----------------------------------------------------------------------------
(* The log.                                                                *)

Hdr(size, shrink) ==
  [chunk |-> 0, data |-> <<>>, n |-> 0, size |-> size, shrink |-> shrink,
   live |-> TRUE, keep |-> shrink]

Data(k, d, n) ==
  [chunk |-> k, data |-> d, n |-> n, size |-> 0, shrink |-> FALSE,
   live |-> TRUE, keep |-> FALSE]

Drop(l, ks) ==
  [i \in DOMAIN l |-> [l[i] EXCEPT !.live = @ /\ l[i].chunk \notin ks]]

Program(l, c) == Append(Drop(l, {c.chunk}), c)

(* yaffs_rd_data_obj: the whole page, or zeros where the tree has no chunk.*)
RdDataObj(l, k) ==
  LET here == {i \in DOMAIN l : l[i].live /\ l[i].chunk = k}
  IN IF here = {} THEN Zeros(ChunkBytes) ELSE l[CHOOSE i \in here : TRUE].data

-----------------------------------------------------------------------------
(* The backward scan.                                                      *)

ScanData(l, sc, i) ==
  LET c == l[i]
      in == Base(c.chunk) < sc.cut
  IN [sc EXCEPT
        !.live = IF in /\ \A j \in @ : l[j].chunk # c.chunk
                 THEN @ \cup {i} ELSE @,
        !.size = IF in /\ ~sc.valid THEN Larger(@, Base(c.chunk) + c.n) ELSE @]

OldHdrCuts_Never(c) == FALSE

OldHdrCuts(c) == c.shrink

ScanHdr(l, sc, i) ==
  LET c == l[i]
  IN IF sc.valid
     THEN [sc EXCEPT !.cut = IF OldHdrCuts(c) THEN Smaller(@, c.size) ELSE @,
                     !.keep = IF OldHdrCuts(c) THEN @ \cup {i} ELSE @]
     ELSE [valid |-> TRUE, cut |-> Smaller(sc.cut, c.size),
           size |-> Larger(sc.size, c.size),
           live |-> sc.live \cup {i},
           keep |-> IF c.shrink THEN sc.keep \cup {i} ELSE sc.keep]

ScanSteps(l) ==
  LET start == [valid |-> FALSE, cut |-> MaxSize + 1, size |-> 0,
                live |-> {}, keep |-> {}]
      scan[k \in 0 .. Len(l)] ==
        IF k = 0 THEN start
        ELSE LET i == Len(l) + 1 - k
             IN IF l[i].chunk = 0 THEN ScanHdr(l, scan[k - 1], i)
                ELSE ScanData(l, scan[k - 1], i)
  IN scan

Scan(l) == ScanSteps(l)[Len(l)]

Marked(l, live, keep) ==
  [i \in DOMAIN l |-> [l[i] EXCEPT !.live = i \in live, !.keep = i \in keep]]

(* The bytes of a file with these chunks and this size.                    *)
Bytes(l, size) ==
  [p \in 1 .. size |->
     RdDataObj(l, ChunkOf(p - 1))[StartOf(p - 1) + 1]]

Found(l) ==
  LET sc == Scan(l) IN Bytes(Marked(l, sc.live, sc.keep), sc.size)

-----------------------------------------------------------------------------
(* The cache.                                                              *)

FindChunkCache(k) == {i \in DOMAIN cache : cache[i].chunk = k}

IsCached(k) == FindChunkCache(k) # {}

EntryOf(k) == CHOOSE i \in FindChunkCache(k) : TRUE

(* What yaffs_file_rd returns for the whole file.                          *)
Contents(k) == IF IsCached(k) THEN cache[EntryOf(k)].data ELSE RdDataObj(log, k)

View == [p \in 1 .. file_size |-> Contents(ChunkOf(p - 1))[StartOf(p - 1) + 1]]

Without_Nothing(k) == cache

Without(k) == IF IsCached(k) THEN RemoveAt(cache, EntryOf(k)) ELSE cache

(* yaffs_grab_chunk_cache: an unused entry or the least recently used one, *)
(* written out first if it is dirty.                                       *)
Victims == IF Len(cache) < param.n_caches THEN {} ELSE {Head(cache)}

GrabWrites_Never(v) == FALSE

GrabWrites(v) == v.dirty

Grabbed ==
  IF \E v \in Victims : GrabWrites(v)
  THEN Program(log, Data(Head(cache).chunk, Head(cache).data, Head(cache).n))
  ELSE log

Remaining == IF Victims = {} THEN cache ELSE Tail(cache)

StoredAfterGrab ==
  IF \E v \in Victims : v.dirty
  THEN Larger(stored_size, Base(Head(cache).chunk) + Head(cache).n)
  ELSE stored_size

-----------------------------------------------------------------------------
(* Plans: the steps of the calls.                                          *)

Step(a, n) == [a |-> a, n |-> n]

(* The rest of a call of yaffs_do_file_wr: the bytes b are still to be     *)
(* written from off on.  fill is -1 for a caller's data; in the loop of    *)
(* yaffs2_handle_hole it is the size to go back to when the hole cannot be *)
(* filled, and more the number of zeros that further calls are to write.   *)
Write(off, b, fill, more) ==
  [a |-> "write", off |-> off, b |-> b, fill |-> fill, more |-> more]

(* n zeros from pos on, a chunk's worth in each call.                      *)
Filling(pos, n, old) ==
  Write(pos, Zeros(Smaller(ChunkBytes, n)), old, Larger(0, n - ChunkBytes))

(* yaffs2_handle_hole: a small hole is filled with zeros; another is       *)
(* marked by a header with the old size.                                   *)
HandleHole(new, room) ==
  IF new <= file_size THEN <<>>
  ELSE IF new - file_size < SmallHole * ChunkBytes /\ room
  THEN <<Filling(file_size, new - file_size, file_size)>>
  ELSE <<Step("hole", 0)>>

Begin(plan) ==
  /\ up /\ todo = <<>>
  /\ todo' = plan
  /\ UNCHANGED <<log, up, file_size, stored_size, dirty, cache, param, want>>

WrFile(off, b) ==
  \E room \in BOOLEAN : Begin(HandleHole(off, room) \o <<Write(off, b, -1, 0)>>)

ResizeFile(new) ==
  /\ new # file_size
  /\ \E room \in BOOLEAN :
       Begin(<<Step("flush", 1)>> \o
             (IF new > file_size
              THEN HandleHole(new, room) \o <<Step("grow", new)>>
                   \o <<Step("hdr", 0)>>
              ELSE <<Step("prune", new), Step("hdr", 1)>>))

(* yaffs_flush_file; with data_sync the header is left for later.          *)
FlushFile(data_sync) ==
  /\ dirty
  /\ Begin(<<Step("flush", 0)>> \o
           (IF data_sync THEN <<>> ELSE <<Step("hdr", 0)>>))

(* Reading part of a chunk loads it into the cache.                        *)
ReadPart(k) ==
  /\ up /\ todo = <<>>
  /\ param.n_caches > 0 /\ Base(k) < file_size /\ ~IsCached(k)
  /\ Len(Grabbed) <= MaxLog
  /\ log' = Grabbed
  /\ stored_size' = StoredAfterGrab
  /\ cache' = Append(Remaining, [chunk |-> k, data |-> RdDataObj(Grabbed, k),
                                 n |-> 0, dirty |-> FALSE])
  /\ UNCHANGED <<up, file_size, dirty, todo, param, want>>

-----------------------------------------------------------------------------
(* Steps.                                                                  *)

Now == Head(todo)

(* One turn of the loop of yaffs_do_file_wr: the bytes of one chunk.       *)
Turn(p) == Smaller(ChunkBytes - StartOf(p.off), Len(p.b))

Copied(p) == SubSeq(p.b, 1, Turn(p))

Left(p) ==
  IF Turn(p) < Len(p.b)
  THEN <<Write(p.off + Turn(p), SubSeq(p.b, Turn(p) + 1, Len(p.b)),
               p.fill, p.more)>>
  ELSE IF p.more > 0 THEN <<Filling(p.off + Turn(p), p.more, p.fill)>>
  ELSE <<>>

(* How much of the chunk to write back: as much as was there before.       *)
WriteBack(p) ==
  LET end == StartOf(p.off) + Turn(p)
      there == Larger(0, file_size - Base(ChunkOf(p.off)))
  IN IF end >= ChunkBytes THEN ChunkBytes
     ELSE Larger(end, Smaller(ChunkBytes, there))

(* The end of yaffs_do_file_wr, with the file written up to end.           *)
Done(end) ==
  /\ file_size' = Larger(file_size, end)
  /\ dirty' = TRUE

PieceOk(p) ==
  /\ todo' = Left(p) \o Tail(todo)
  /\ IF Turn(p) = Len(p.b) THEN Done(p.off + Turn(p))
     ELSE UNCHANGED <<file_size, dirty>>
  /\ want' = Overlay(want, p.off, Copied(p))

(* A turn fails: the loop ends; a hole before the data stays, and a hole   *)
(* that was being filled is taken back and marked instead.                 *)
PieceFails(p) ==
  /\ todo' = (IF p.fill = -1 THEN <<>>
              ELSE <<Step("prune", p.fill), Step("hole", 1)>>) \o Tail(todo)
  /\ Done(p.off)
  /\ want' = Overlay(want, p.off, <<>>)

UsesCache(p) ==
  param.n_caches > 0 /\ ~(param.bypass /\ Turn(p) = ChunkBytes)

InCache(p, k, d) ==
  Append(Without(k), [chunk |-> k, n |-> WriteBack(p), dirty |-> TRUE,
                      data |-> Overlay(d, StartOf(p.off), Copied(p))])

(* A chunk found in the cache is written there; if nothing of it is dirty  *)
(* yet, only when there is space for it.                                   *)
WriteHit(p, k) ==
  \E i \in FindChunkCache(k), room \in BOOLEAN :
    /\ UNCHANGED <<log, stored_size>>
    /\ IF cache[i].dirty \/ room
       THEN cache' = InCache(p, k, cache[i].data) /\ PieceOk(p)
       ELSE UNCHANGED cache /\ PieceFails(p)

WriteMiss(p, k) ==
  /\ ~IsCached(k)
  /\ \/ /\ Len(Grabbed) <= MaxLog
        /\ log' = Grabbed
        /\ stored_size' = StoredAfterGrab
        /\ cache' = Append(Remaining,
                      [chunk |-> k, n |-> WriteBack(p), dirty |-> TRUE,
                       data |-> Overlay(RdDataObj(Grabbed, k),
                                        StartOf(p.off), Copied(p))])
        /\ PieceOk(p)
     \/ /\ UNCHANGED <<log, stored_size, cache>>
        /\ PieceFails(p)

(* Past the cache.  stored_size is raised before the write may fail, and a *)
(* cached copy of the chunk is dropped whether it did or not.              *)
WriteDirect(p, k) ==
  LET d == Overlay(RdDataObj(log, k), StartOf(p.off), Copied(p))
  IN \E room \in {TRUE} \cup {"nospace" \notin Exposed} :
       /\ stored_size' = Larger(stored_size, Base(k) + WriteBack(p))
       /\ cache' = Without(k)
       /\ IF room
          THEN /\ Len(log) < MaxLog
               /\ log' = Program(log, Data(k, d, WriteBack(p)))
               /\ PieceOk(p)
          ELSE UNCHANGED log /\ PieceFails(p)

DoFileWr ==
  /\ up /\ todo # <<>> /\ Now.a = "write"
  /\ LET k == ChunkOf(Now.off)
     IN IF UsesCache(Now) THEN WriteHit(Now, k) \/ WriteMiss(Now, k)
        ELSE WriteDirect(Now, k)
  /\ UNCHANGED <<up, param>>

(* yaffs_flush_file_cache, one entry at a time; 1 discards them.           *)
FlushFileCache ==
  /\ up /\ todo # <<>> /\ Now.a = "flush"
  /\ \/ \E i \in {j \in DOMAIN cache : cache[j].dirty} :
          LET e == cache[i]
          IN /\ Len(log) < MaxLog
             /\ log' = Program(log, Data(e.chunk, e.data, e.n))
             /\ stored_size' = Larger(stored_size, Base(e.chunk) + e.n)
             /\ cache' = [cache EXCEPT ![i].dirty = FALSE]
             /\ todo' = todo
     \/ /\ \A j \in DOMAIN cache : ~cache[j].dirty
        /\ cache' = IF Now.n = 1 THEN <<>> ELSE cache
        /\ todo' = Tail(todo)
        /\ UNCHANGED <<log, stored_size>>
  /\ UNCHANGED <<up, file_size, dirty, param, want>>

(* yaffs_update_oh stores stored_size, which a hole does not raise.        *)
UpdateOh ==
  /\ up /\ todo # <<>> /\ Now.a \in {"hdr", "hole"}
  /\ Len(log) < MaxLog
  /\ log' = Program(log, Hdr(stored_size, Now.a = "hole"))
  /\ dirty' = (dirty /\ \E i \in DOMAIN cache : cache[i].dirty)
  /\ todo' = Tail(todo)
  /\ UNCHANGED <<up, file_size, stored_size, cache, param, want>>

Grow ==
  /\ up /\ todo # <<>> /\ Now.a = "grow"
  /\ file_size' = Now.n
  /\ want' = want \o Zeros(Now.n - Len(want))
  /\ todo' = Tail(todo)
  /\ UNCHANGED <<log, up, stored_size, dirty, cache, param>>

(* yaffs_prune_chunks, the first half of yaffs_resize_file_down: the       *)
(* chunks past the end go.                                                 *)
PruneChunks ==
  /\ up /\ todo # <<>> /\ Now.a = "prune"
  /\ log' = Drop(log, {j \in Chunks : Base(j) >= Now.n})
  /\ todo' = <<Step("pad", Now.n)>> \o Tail(todo)
  /\ UNCHANGED <<up, file_size, stored_size, dirty, cache, param, want>>

(* The second half: what is left of the last chunk is written again with   *)
(* zeros behind it.                                                        *)
LastChunk_NotPadded(new, k) == RdDataObj(log, k)

LastChunk(new, k) ==
  SubSeq(RdDataObj(log, k), 1, new - Base(k)) \o Zeros(Base(k + 1) - new)

ResizeFileDown ==
  LET new == Now.n
      k == ChunkOf(new)
  IN /\ up /\ todo # <<>> /\ Now.a = "pad"
     /\ IF StartOf(new) = 0 THEN log' = log
        ELSE /\ Len(log) < MaxLog
             /\ log' = Program(log, Data(k, LastChunk(new, k), new - Base(k)))
     /\ file_size' = new
     /\ stored_size' = new
     /\ want' = SubSeq(want, 1, new)
     /\ todo' = Tail(todo)
     /\ UNCHANGED <<up, dirty, cache, param>>

-----------------------------------------------------------------------------
(* Beside the calls.                                                       *)

OlderDead(i) == \E j \in 1 .. i - 1 : ~log[j].live

GcChunk(i) ==
  /\ up
  /\ log[i].live
  /\ log[i].keep => ~OlderDead(i)
  /\ Len(log) < MaxLog
  /\ log' = Program(log, IF log[i].chunk = 0 THEN Hdr(stored_size, FALSE)
                         ELSE log[i])
  /\ UNCHANGED <<up, file_size, stored_size, dirty, cache, todo, param, want>>

(* Between the pruning and the header that stores the new size.            *)
Cutting ==
  /\ todo # <<>>
  /\ \/ Now.a = "pad"
     \/ Now.a \in {"hdr", "hole"} /\ Now.n = 1

Erase(i) ==
  /\ up
  /\ ~log[i].live
  /\ log[i].keep => ~OlderDead(i)
  /\ Cutting /\ "cut" \notin Exposed =>
       \A j \in 1 .. i - 1 : log[j].chunk # log[i].chunk
  /\ log' = RemoveAt(log, i)
  /\ UNCHANGED <<up, file_size, stored_size, dirty, cache, todo, param, want>>

PowerFails ==
  /\ up
  /\ up' = FALSE
  /\ log' = Marked(log, {}, {})
  /\ file_size' = 0 /\ stored_size' = 0
  /\ dirty' = FALSE /\ cache' = <<>> /\ todo' = <<>> /\ want' = <<>>
  /\ UNCHANGED param

Mount ==
  /\ ~up
  /\ up' = TRUE
  /\ LET sc == Scan(log)
     IN /\ log' = Marked(log, sc.live, sc.keep)
        /\ file_size' = sc.size
        /\ stored_size' = sc.size
        /\ want' = Found(log)
  /\ UNCHANGED <<dirty, cache, todo, param>>

Init ==
  /\ log = <<Hdr(0, FALSE)>>
  /\ up = TRUE
  /\ file_size = 0 /\ stored_size = 0 /\ dirty = FALSE
  /\ cache = <<>> /\ todo = <<>> /\ want = <<>>
  /\ param \in Params

Next ==
  \/ \E w \in Writes, v \in Vals : WrFile(w[1], [i \in 1 .. w[2] |-> v])
  \/ \E new \in Sizes : ResizeFile(new)
  \/ \E data_sync \in BOOLEAN : FlushFile(data_sync)
  \/ \E k \in Chunks : ReadPart(k)
  \/ DoFileWr \/ FlushFileCache \/ UpdateOh \/ Grow
  \/ PruneChunks \/ ResizeFileDown
  \/ \E i \in DOMAIN log : GcChunk(i) \/ Erase(i)
  \/ PowerFails \/ Mount

Spec == Init /\ [][Next]_vars

-----------------------------------------------------------------------------
(* Two contents that differ at most by zeros at the end.                   *)
SameData(a, b) ==
  \A p \in 1 .. Larger(Len(a), Len(b)) :
    (IF p <= Len(a) THEN a[p] ELSE Zero) = (IF p <= Len(b) THEN b[p] ELSE Zero)

(* One live chunk per place, no chunk cached twice, no more cached than    *)
(* there are entries.                                                      *)
TypeOK ==
  /\ file_size \in 0 .. MaxSize /\ stored_size \in 0 .. MaxSize
  /\ Len(cache) <= param.n_caches
  /\ \A i, j \in DOMAIN cache : cache[i].chunk = cache[j].chunk => i = j
  /\ \A i, j \in DOMAIN log :
       log[i].live /\ log[j].live /\ log[i].chunk = log[j].chunk => i = j

(* Between calls the file reads as its calls left it: neither the cache,   *)
(* nor a hole, nor what a truncation left behind in a chunk, nor garbage   *)
(* collection, nor the rebuilding by a mount shows another byte            *)
(* (yaffs_file_rd).                                                        *)
ReadsBack == up /\ todo = <<>> => View = want

(* Once a flush has stored the header (dirty is off), a mount finds the    *)
(* same bytes: no write is missing, and nothing that was overwritten or    *)
(* cut off comes back from the dead chunks the scan also meets             *)
(* (yaffs_flush_file, yaffs2_scan_chunk).                                  *)
Synced ==
  up /\ todo = <<>> /\ ~dirty => SameData(Found(log), want)

(* A chunk "invalidated by a resize" (yaffs2_scan_chunk) stays so: once    *)
(* the calls are done and nothing is dirty, a mount attaches no chunk that *)
(* is dead now.                                                            *)
ResizeRemembered ==
  up /\ todo = <<>> /\ ~dirty => \A i \in Scan(log).live : log[i].live

(* The header that a resize writes "to reflect the resize"                 *)
(* (yaffs_resize_file) gives a mount the new size.                         *)
SizeSurvives ==
  up /\ todo = <<>> /\ ~dirty => Len(Found(log)) = file_size
=============================================================================
