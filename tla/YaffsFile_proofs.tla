-------------------------- MODULE YaffsFile_proofs --------------------------
(***************************************************************************)
(* The state of a file is well formed (TypeOK), a file reads as its calls  *)
(* left it (ReadsBack), and a mount finds what was flushed (Synced), for   *)
(* every size of a chunk and every sequence of calls, power failures and   *)
(* mounts; the last for devices that send the chunks of a file to the      *)
(* flash in order.                                                         *)
(*                                                                         *)
(* The invariant IInv says what may be on the flash (FlashOK), which of it *)
(* the tree attaches (LiveOK, DeadOK), what the cache holds (CacheOK), how *)
(* a call may go on (Plan), and that each chunk number, cached or not,     *)
(* holds the bytes want has there (DataOK).  Ordered adds, for Synced,     *)
(* that a dead chunk the next mount would attach lies behind everything    *)
(* the file stores, or is about to be written again (LooseBehind).         *)
(*                                                                         *)
(* The theorems suppose that no known disagreement is exposed: with        *)
(* "nospace" or with "cut", TLC finds ReadsBack violated.                  *)
(***************************************************************************)
EXTENDS YaffsFile, SequenceTheorems, FiniteSetTheorems, WellFoundedInduction,
        TLAPS

-----------------------------------------------------------------------------
(* The records of a log.                                                   *)

Byte == Vals \cup {Zero}
ChunkData == [1 .. ChunkBytes -> Byte]

Headers ==
  [chunk : {0}, data : {<<>>}, n : {0}, size : 0 .. MaxSize,
   shrink : BOOLEAN, live : BOOLEAN, keep : BOOLEAN]

(* A data chunk is zero behind the bytes in use.                           *)
ChunkOK(c) ==
  /\ Base(c.chunk) + c.n <= MaxSize
  /\ \A q \in c.n + 1 .. ChunkBytes : c.data[q] = Zero

DataChunks ==
  {c \in [chunk : Chunks, data : ChunkData, n : 1 .. ChunkBytes, size : {0},
          shrink : {FALSE}, live : BOOLEAN, keep : BOOLEAN] : ChunkOK(c)}

Recs == Headers \cup DataChunks

-----------------------------------------------------------------------------
(* What may be on the flash.                                               *)

Newest(l, i) == \A j \in 1 .. Len(l) : j > i => l[j].chunk # l[i].chunk

IsHead(l, h) == h \in 1 .. Len(l) /\ l[h].chunk = 0 /\ Newest(l, h)

(* A header with the shrink flag behind chunk i ends before it.            *)
ShrinkCut(l, i) ==
  \E j \in 1 .. Len(l) :
    j > i /\ l[j].chunk = 0 /\ l[j].shrink /\ l[j].size <= Base(l[i].chunk)

(* A file of size s ends outside of the first m bytes of chunk k.          *)
Beside(s, k, m) == s <= Base(k) \/ Base(k) + m <= s
Clear(s, k) == Beside(s, k, ChunkBytes)

FlashOK(l, h) ==
  \A i \in 1 .. Len(l) :
    i < h /\ l[i].chunk # 0 /\ Newest(l, i) =>
      Beside(l[h].size, l[i].chunk,
             IF ShrinkCut(l, i) THEN ChunkBytes ELSE l[i].n)

MarksOK(l, h) ==
  /\ l[h].live
  /\ \A i \in 1 .. Len(l) :
       /\ l[i].live => Newest(l, i)
       /\ l[i].keep = l[i].shrink

(* Chunks from P on are being cut off; st is the stored size.              *)
LiveOK(l, st, P) ==
  \A i \in 1 .. Len(l) :
    l[i].chunk # 0 /\ l[i].live =>
      /\ ~ShrinkCut(l, i)
      /\ Base(l[i].chunk) + l[i].n <= st
      /\ Base(l[i].chunk) < P

Ending(l, i, st, P) ==
  /\ Base(l[i].chunk) >= P
  /\ Base(l[i].chunk) + l[i].n <= st
  /\ ~ShrinkCut(l, i)

Ended(l, h, i, st, P) ==
  /\ Clear(st, l[i].chunk)
  /\ Base(l[i].chunk) >= P \/ (i < h /\ Clear(l[h].size, l[i].chunk))

DeadOK(l, h, st, P) ==
  \A i \in 1 .. Len(l) :
    l[i].chunk # 0 /\ ~l[i].live /\ Newest(l, i) =>
      Ending(l, i, st, P) \/ Ended(l, h, i, st, P)

OnFlash(l) == l \in Seq(Recs) /\ \E h \in 1 .. Len(l) : IsHead(l, h) /\ FlashOK(l, h)

InRam(l, st, P) ==
  \E h \in 1 .. Len(l) :
    /\ IsHead(l, h) /\ FlashOK(l, h) /\ MarksOK(l, h)
    /\ LiveOK(l, st, P) /\ DeadOK(l, h, st, P)

-----------------------------------------------------------------------------
(* The plans.                                                              *)

Plain == [a : {"flush", "hdr", "hole", "grow", "prune", "pad"}, n : 0 .. MaxSize + 1]
Writing == [a : {"write"}, off : 0 .. MaxSize, b : Seq(Byte), fill : -1 .. MaxSize,
            more : 0 .. MaxSize]

Steps == Plain \cup Writing

Call(t) ==
  /\ t # <<>> /\ Tail(t) = <<>>
  /\ Head(t) \in Writing
  /\ Head(t).fill = -1 /\ Head(t).more = 0 /\ Len(Head(t).b) > 0
  /\ Head(t).off + Len(Head(t).b) <= MaxSize

Growth(t) ==
  /\ t # <<>> /\ Tail(t) = <<Step("hdr", 0)>>
  /\ \E n \in 0 .. MaxSize : Head(t) = Step("grow", n)

Rest(t) == Call(t) \/ Growth(t)

Goal(t) == IF Head(t).a = "write" THEN Head(t).off ELSE Head(t).n

Fills(s, t) ==
  /\ s \in Writing
  /\ s.fill # -1 /\ s.fill <= s.off
  /\ Len(s.b) \in 1 .. ChunkBytes
  /\ \A q \in 1 .. Len(s.b) : s.b[q] = Zero
  /\ s.off + Len(s.b) + s.more = Goal(t)

(* The rest of a call, with the size of the file and what it holds.        *)
ZeroFrom(w, n) == \A p \in n + 1 .. Len(w) : w[p] = Zero

AtWrite(t, fs, w) ==
  /\ fs <= Len(w) /\ Len(w) <= Larger(fs, Head(t).off)
  /\ \/ Call(t)
     \/ /\ Fills(Head(t), Tail(t)) /\ Rest(Tail(t))
        /\ Head(t).fill <= fs /\ ZeroFrom(w, Head(t).fill)
        /\ fs <= Goal(Tail(t))

AtHole(t, fs) ==
  /\ Head(t) \in {Step("hole", 0), Step("hole", 1)}
  /\ Rest(Tail(t))
  /\ fs <= Goal(Tail(t))

AtGrow(t, fs) == Growth(t) /\ fs <= Goal(t)

AtHdr(t) == \E n \in {0, 1} : t = <<Step("hdr", n)>>

AtCut(t, fs, w, c) ==
  /\ \E a \in {"prune", "pad"}, n \in 0 .. fs : Head(t) = Step(a, n)
  /\ \/ Tail(t) = <<Step("hdr", 1)>> /\ c = <<>>
     \/ /\ Tail(t) # <<>>
        /\ Head(Tail(t)) = Step("hole", 1) /\ Rest(Tail(Tail(t)))
        /\ ZeroFrom(w, Head(t).n) /\ fs <= Goal(Tail(Tail(t)))

AtFlush(t, fs) ==
  \/ Head(t) = Step("flush", 0) /\ Tail(t) \in {<<>>, <<Step("hdr", 0)>>}
  \/ /\ Head(t) = Step("flush", 1) /\ Tail(t) # <<>>
     /\ \/ /\ \E n \in 0 .. fs : Head(Tail(t)) = Step("prune", n)
           /\ Tail(Tail(t)) = <<Step("hdr", 1)>>
        \/ /\ Head(Tail(t)) = Step("hole", 0) /\ AtHole(Tail(t), fs)
           /\ Growth(Tail(Tail(t)))
        \/ /\ Fills(Head(Tail(t)), Tail(Tail(t))) /\ Growth(Tail(Tail(t)))
           /\ Head(Tail(t)).off = fs /\ Head(Tail(t)).fill = fs

Plan(t, fs, w, c) ==
  /\ t \in Seq(Steps)
  /\ fs \in 0 .. MaxSize /\ w \in Seq(Byte)
  /\ IF t # <<>> /\ Head(t).a = "write" THEN AtWrite(t, fs, w)
     ELSE /\ Len(w) = fs
          /\ t # <<>> => \/ AtHole(t, fs) \/ AtGrow(t, fs) \/ AtHdr(t)
                         \/ AtCut(t, fs, w, c) \/ AtFlush(t, fs)

(* From where on the call in progress is cutting the file off.             *)
Limit(t, st) ==
  IF t = <<>> THEN MaxSize
  ELSE IF Head(t).a = "pad" THEN Head(t).n
  ELSE IF Head(t).a \in {"hdr", "hole"} /\ Head(t).n = 1 THEN st
  ELSE MaxSize

-----------------------------------------------------------------------------
(* The cache.                                                              *)

Entries == [chunk : Chunks, data : ChunkData, n : 0 .. ChunkBytes, dirty : BOOLEAN]

Held(c) == {c[i] : i \in 1 .. Len(c)}

Distinct(c) == \A i, j \in 1 .. Len(c) : c[i].chunk = c[j].chunk => i = j

EntryOK(l, e) ==
  IF e.dirty THEN e.n > 0 /\ ChunkOK(e) ELSE e.data = RdDataObj(l, e.chunk)

CacheOK(l, c) ==
  /\ c \in Seq(Entries) /\ Distinct(c)
  /\ \A e \in Held(c) : EntryOK(l, e)

-----------------------------------------------------------------------------
(* The contents.                                                           *)

At(w, p) == IF p <= Len(w) THEN w[p] ELSE Zero

ChunkAt(w, k) == [q \in 1 .. ChunkBytes |-> At(w, Base(k) + q)]

Emptied(t, k) == t # <<>> /\ Head(t).a = "pad" /\ Base(k) >= Head(t).n

Wanted(t, w, k) ==
  IF Emptied(t, k) THEN Zeros(ChunkBytes) ELSE ChunkAt(w, k)

DataOK(l, c, t, w) ==
  \A k \in Nat \ {0} :
    /\ \A e \in Held(c) : e.chunk = k => e.data = Wanted(t, w, k)
    /\ (\A e \in Held(c) : e.chunk # k) => RdDataObj(l, k) = Wanted(t, w, k)

-----------------------------------------------------------------------------
(* The invariant.                                                          *)

Running(l, st, fs, c, t, w) ==
  /\ l \in Seq(Recs) /\ st \in 0 .. MaxSize
  /\ InRam(l, st, Limit(t, st))
  /\ Plan(t, fs, w, c)
  /\ CacheOK(l, c) /\ DataOK(l, c, t, w)

IInv ==
  /\ up \in BOOLEAN /\ param \in Params
  /\ Len(cache) <= param.n_caches
  /\ IF up THEN Running(log, stored_size, file_size, cache, todo, want)
     ELSE /\ OnFlash(log) /\ \A i \in 1 .. Len(log) : ~log[i].live
          /\ file_size = 0 /\ stored_size = 0
          /\ cache = <<>> /\ todo = <<>> /\ want = <<>>

-----------------------------------------------------------------------------
(* Arithmetic of places.                                                   *)

(* Chunks and offsets.                                                     *)
LEMMA Multiply ==
  ASSUME NEW a \in Int, NEW b \in Int
  PROVE  /\ a * ChunkBytes \in Int
         /\ (a + 1) * ChunkBytes = a * ChunkBytes + ChunkBytes
         /\ a >= 0 => a * ChunkBytes >= 0
         /\ a < b => a * ChunkBytes + ChunkBytes <= b * ChunkBytes
<1>1. ChunkBytes \in Nat /\ ChunkBytes >= 1
  BY SizeAssumption
<1>2. /\ a * ChunkBytes \in Int
      /\ (a + 1) * ChunkBytes = a * ChunkBytes + ChunkBytes
  BY <1>1
<1>3. ASSUME a >= 0 PROVE a * ChunkBytes >= 0
  BY <1>1, <1>3
<1>4. ASSUME a < b PROVE a * ChunkBytes + ChunkBytes <= b * ChunkBytes
  <2>1. b - a - 1 \in Nat
    BY <1>4
  <2>2. (b - a - 1) * ChunkBytes >= 0
    BY <1>1, <2>1
  <2>3. (b - a - 1) * ChunkBytes = b * ChunkBytes - a * ChunkBytes - ChunkBytes
    BY <1>1
  <2>4. b * ChunkBytes \in Int
    BY <1>1
  <2> QED BY <1>1, <1>2, <2>2, <2>3, <2>4
<1> QED BY <1>2, <1>3, <1>4

LEMMA BaseIs ==
  ASSUME NEW k \in Int
  PROVE  /\ Base(k) \in Int
         /\ Base(k + 1) = Base(k) + ChunkBytes
         /\ k >= 1 => Base(k) >= 0
<1>1. k - 1 \in Int /\ k + 1 - 1 = (k - 1) + 1
  OBVIOUS
<1>2. /\ (k - 1) * ChunkBytes \in Int
      /\ ((k - 1) + 1) * ChunkBytes = (k - 1) * ChunkBytes + ChunkBytes
      /\ k - 1 >= 0 => (k - 1) * ChunkBytes >= 0
  BY <1>1, Multiply
<1>3. k >= 1 => k - 1 >= 0
  OBVIOUS
<1> QED BY <1>1, <1>2, <1>3 DEF Base

LEMMA BaseLess ==
  ASSUME NEW k \in Int, NEW j \in Int, k < j
  PROVE  Base(k) + ChunkBytes <= Base(j)
<1>1. k - 1 \in Int /\ j - 1 \in Int /\ k - 1 < j - 1
  OBVIOUS
<1> QED BY <1>1, Multiply DEF Base

LEMMA ChunkOfIs ==
  ASSUME NEW off \in Nat
  PROVE  /\ ChunkOf(off) \in Nat \ {0}
         /\ StartOf(off) \in 0 .. ChunkBytes - 1
         /\ off = Base(ChunkOf(off)) + StartOf(off)
<1>1. ChunkBytes \in Nat /\ ChunkBytes >= 1
  BY SizeAssumption
<1>2. /\ off \div ChunkBytes \in Nat /\ off % ChunkBytes \in 0 .. ChunkBytes - 1
      /\ off = ChunkBytes * (off \div ChunkBytes) + (off % ChunkBytes)
  BY <1>1
<1>3. ChunkBytes * (off \div ChunkBytes) = (off \div ChunkBytes) * ChunkBytes
  BY <1>1, <1>2
<1>4. ChunkOf(off) - 1 = off \div ChunkBytes
  BY <1>2 DEF ChunkOf
<1> QED BY <1>2, <1>3, <1>4 DEF Base, ChunkOf, StartOf

LEMMA ChunkOfUnique ==
  ASSUME NEW off \in Nat, NEW k \in Int, Base(k) <= off, off < Base(k) + ChunkBytes
  PROVE  ChunkOf(off) = k /\ StartOf(off) = off - Base(k)
<1>1. /\ ChunkOf(off) \in Int /\ StartOf(off) \in 0 .. ChunkBytes - 1
      /\ off = Base(ChunkOf(off)) + StartOf(off)
      /\ Base(k) \in Int /\ Base(ChunkOf(off)) \in Int /\ ChunkBytes \in Nat
  BY ChunkOfIs, BaseIs, SizeAssumption
<1>2. CASE ChunkOf(off) < k
  <2>1. Base(ChunkOf(off)) + ChunkBytes <= Base(k)
    BY <1>1, <1>2, BaseLess
  <2> QED BY <1>1, <2>1
<1>3. CASE k < ChunkOf(off)
  <2>1. Base(k) + ChunkBytes <= Base(ChunkOf(off))
    BY <1>1, <1>3, BaseLess
  <2> QED BY <1>1, <2>1
<1>4. CASE ChunkOf(off) = k
  BY <1>1, <1>4
<1> QED BY <1>1, <1>2, <1>3, <1>4

LEMMA ChunksAre ==
  /\ \A k \in Chunks : /\ k \in Nat \ {0}
                       /\ Base(k) \in Nat /\ Base(k) < MaxSize
  /\ \A off \in Nat : off < MaxSize => ChunkOf(off) \in Chunks
<1>1. ChunkBytes \in Nat /\ ChunkBytes >= 1 /\ MaxSize \in Nat
  BY SizeAssumption
<1> DEFINE m == MaxSize + ChunkBytes - 1
           n == m \div ChunkBytes
<1>2. m \in Nat /\ n \in Nat /\ m % ChunkBytes \in 0 .. ChunkBytes - 1
      /\ m = ChunkBytes * n + (m % ChunkBytes)
  BY <1>1
<1>3. ChunkBytes * n = n * ChunkBytes
  BY <1>1, <1>2
<1>4. Chunks = 1 .. n
  BY DEF Chunks
<1>5. Base(n) = (n - 1) * ChunkBytes /\ Base(n + 1) = n * ChunkBytes
      /\ Base(n + 1) = Base(n) + ChunkBytes /\ Base(n) \in Int
  <2>1. n + 1 - 1 = n
    BY <1>2
  <2> HIDE DEF n
  <2> QED BY <1>2, <2>1, BaseIs DEF Base
<1> HIDE DEF n
<1>6. Base(n + 1) <= m /\ m < Base(n + 1) + ChunkBytes
  <2> HIDE DEF m
  <2>1. n * ChunkBytes \in Int
    BY <1>1, <1>2
  <2> QED BY <1>1, <1>2, <1>3, <1>5, <2>1
<1>7. ASSUME NEW k \in Chunks
      PROVE  k \in Nat \ {0} /\ Base(k) \in Nat /\ Base(k) < MaxSize
  <2>1. k \in 1 .. n /\ k \in Int
    BY <1>2, <1>4
  <2>2. k < n + 1
    BY <1>2, <2>1
  <2>3. Base(k) + ChunkBytes <= Base(n + 1)
    BY <1>2, <2>1, <2>2, BaseLess
  <2>4. Base(k) \in Int /\ Base(k) >= 0
    BY <2>1, BaseIs
  <2> QED BY <1>1, <1>2, <1>5, <1>6, <2>1, <2>3, <2>4
<1>8. ASSUME NEW off \in Nat, off < MaxSize
      PROVE  ChunkOf(off) \in Chunks
  <2>1. ChunkOf(off) \in Nat \ {0} /\ off >= Base(ChunkOf(off))
        /\ Base(ChunkOf(off)) \in Int
    <3>1. ChunkOf(off) \in Nat \ {0} /\ StartOf(off) \in 0 .. ChunkBytes - 1
          /\ off = Base(ChunkOf(off)) + StartOf(off)
      BY ChunkOfIs
    <3>2. Base(ChunkOf(off)) \in Int
      BY <3>1, BaseIs
    <3> QED BY <1>1, <3>1, <3>2
  <2>2. CASE n + 1 <= ChunkOf(off)
    <3>1. Base(n + 1) <= Base(ChunkOf(off))
      <4>1. CASE n + 1 = ChunkOf(off)
        BY <4>1, <1>2, BaseIs
      <4>2. CASE n + 1 < ChunkOf(off)
        BY <4>2, <1>1, <1>2, <1>5, <2>1, BaseLess
      <4> QED BY <4>1, <4>2, <2>1, <2>2, <1>2
    <3> QED BY <1>1, <1>2, <1>5, <1>6, <1>8, <2>1, <3>1
  <2>3. CASE ChunkOf(off) < n + 1
    BY <1>2, <1>4, <2>1, <2>3
  <2> QED BY <1>2, <2>1, <2>2, <2>3
<1> QED BY <1>7, <1>8

-----------------------------------------------------------------------------
(* Records and logs.                                                       *)

(* The log as a sequence of records.                                       *)

SameChunk(c, d) ==
  /\ c.chunk = d.chunk /\ c.data = d.data /\ c.n = d.n
  /\ c.size = d.size /\ c.shrink = d.shrink

LEMMA RecTypes ==
  ASSUME NEW c \in Recs
  PROVE  /\ c.live \in BOOLEAN /\ c.keep \in BOOLEAN /\ c.shrink \in BOOLEAN
         /\ c.chunk = 0 => c \in Headers /\ c.size \in 0 .. MaxSize
         /\ c.chunk # 0 =>
              /\ c \in DataChunks /\ c.chunk \in Chunks /\ c.chunk \in Nat \ {0}
              /\ c.data \in ChunkData /\ c.n \in 1 .. ChunkBytes
              /\ c.size = 0 /\ c.shrink = FALSE /\ ChunkOK(c)
<1>1. CASE c \in Headers
  BY <1>1 DEF Headers
<1>2. CASE c \in DataChunks
  <2>1. c.chunk \in Nat \ {0}
    BY <1>2, ChunksAre DEF DataChunks
  <2> QED BY <1>2, <2>1 DEF DataChunks
<1> QED BY <1>1, <1>2 DEF Recs

(* The types of a record, and of the records of a log.                     *)
TypedRec(c) ==
  /\ c.live \in BOOLEAN /\ c.keep \in BOOLEAN /\ c.shrink \in BOOLEAN
  /\ c.chunk \in Nat
  /\ c.chunk = 0 => c.size \in Nat /\ c.size <= MaxSize
  /\ c.chunk # 0 =>
       /\ c.chunk \in Chunks /\ c.chunk >= 1 /\ c.shrink = FALSE
       /\ c.n \in Nat /\ 1 <= c.n /\ c.n <= ChunkBytes
       /\ Base(c.chunk) \in Nat /\ Base(c.chunk) < MaxSize
       /\ Base(c.chunk) + c.n <= MaxSize

Typed(l) == \A i \in 1 .. Len(l) : TypedRec(l[i])

LEMMA Bounds ==
  MaxSize \in Nat /\ ChunkBytes \in Nat /\ ChunkBytes >= 1
  BY SizeAssumption

LEMMA RecTyped ==
  ASSUME NEW c \in Recs
  PROVE  TypedRec(c)
<1>1. c.live \in BOOLEAN /\ c.keep \in BOOLEAN /\ c.shrink \in BOOLEAN
  BY RecTypes
<1>2. CASE c.chunk = 0
  <2>1. c.size \in 0 .. MaxSize
    BY <1>2, RecTypes
  <2> QED BY <1>1, <1>2, <2>1, Bounds DEF TypedRec
<1>3. CASE c.chunk # 0
  <2>1. /\ c.chunk \in Chunks /\ c.chunk \in Nat \ {0} /\ c.shrink = FALSE
        /\ c.n \in 1 .. ChunkBytes /\ Base(c.chunk) + c.n <= MaxSize
    BY <1>3, RecTypes DEF ChunkOK
  <2>2. Base(c.chunk) \in Nat /\ Base(c.chunk) < MaxSize
    BY <2>1, ChunksAre
  <2> QED BY <1>1, <1>3, <2>1, <2>2, Bounds DEF TypedRec
<1> QED BY <1>2, <1>3

LEMMA LogTyped ==
  ASSUME NEW l \in Seq(Recs)
  PROVE  Typed(l)
  BY RecTyped DEF Typed

LEMMA HeaderIs ==
  ASSUME NEW s \in 0 .. MaxSize, NEW b \in BOOLEAN
  PROVE  /\ Hdr(s, b) \in Recs
         /\ Hdr(s, b).chunk = 0 /\ Hdr(s, b).size = s /\ Hdr(s, b).shrink = b
         /\ Hdr(s, b).live = TRUE /\ Hdr(s, b).keep = b
  BY DEF Hdr, Headers, Recs

ZeroBehind(d, n) == \A q \in n + 1 .. ChunkBytes : d[q] = Zero

(* x is the record of a chunk just written.                                *)
Written(x, k, d, n) ==
  /\ x \in Recs /\ x.chunk = k /\ x.data = d /\ x.n = n
  /\ x.live = TRUE /\ x.keep = FALSE /\ x.shrink = FALSE

LEMMA DataIs ==
  ASSUME NEW k \in Chunks, NEW d \in ChunkData, NEW n \in 1 .. ChunkBytes,
         Base(k) + n <= MaxSize, ZeroBehind(d, n)
  PROVE  Written(Data(k, d, n), k, d, n)
<1>1. Data(k, d, n) \in
        [chunk : Chunks, data : ChunkData, n : 1 .. ChunkBytes, size : {0},
         shrink : {FALSE}, live : BOOLEAN, keep : BOOLEAN]
  BY DEF Data
<1>2. /\ Data(k, d, n).chunk = k /\ Data(k, d, n).data = d /\ Data(k, d, n).n = n
      /\ Data(k, d, n).live = TRUE /\ Data(k, d, n).keep = FALSE
      /\ Data(k, d, n).shrink = FALSE
  BY DEF Data
<1>3. ChunkOK(Data(k, d, n))
  BY <1>2 DEF ChunkOK, ZeroBehind
<1> QED BY <1>1, <1>2, <1>3 DEF DataChunks, Recs, Written

(* A record with other marks.                                              *)
Remark(c, a, b) == [c EXCEPT !.live = a, !.keep = b]

LEMMA RemarkIs ==
  ASSUME NEW c \in Recs, NEW a \in BOOLEAN, NEW b \in BOOLEAN
  PROVE  /\ Remark(c, a, b) \in Recs
         /\ SameChunk(Remark(c, a, b), c)
         /\ Remark(c, a, b).live = a /\ Remark(c, a, b).keep = b
<1>1. CASE c \in Headers
  BY <1>1 DEF Remark, Headers, Recs, SameChunk
<1>2. CASE c \in DataChunks
  <2>1. /\ Remark(c, a, b) \in
             [chunk : Chunks, data : ChunkData, n : 1 .. ChunkBytes, size : {0},
              shrink : {FALSE}, live : BOOLEAN, keep : BOOLEAN]
        /\ SameChunk(Remark(c, a, b), c)
        /\ Remark(c, a, b).live = a /\ Remark(c, a, b).keep = b
    BY <1>2 DEF Remark, DataChunks, SameChunk
  <2>2. ChunkOK(Remark(c, a, b))
    BY <1>2, <2>1 DEF ChunkOK, SameChunk, DataChunks
  <2> QED BY <2>1, <2>2 DEF DataChunks, Recs
<1> QED BY <1>1, <1>2 DEF Recs

LEMMA ConcatIs ==
  ASSUME NEW S, NEW a \in Seq(S), NEW b \in Seq(S)
  PROVE  /\ a \o b \in Seq(S) /\ Len(a \o b) = Len(a) + Len(b)
         /\ \A j \in 1 .. Len(a) + Len(b) :
              (a \o b)[j] = IF j <= Len(a) THEN a[j] ELSE b[j - Len(a)]
  OBVIOUS

LEMMA LogIs ==
  ASSUME NEW l \in Seq(Recs)
  PROVE  /\ Len(l) \in Nat /\ DOMAIN l = 1 .. Len(l)
         /\ \A i \in 1 .. Len(l) : l[i] \in Recs
  OBVIOUS

LEMMA DropIs ==
  ASSUME NEW l \in Seq(Recs), NEW ks
  PROVE  /\ Drop(l, ks) \in Seq(Recs) /\ Len(Drop(l, ks)) = Len(l)
         /\ \A i \in 1 .. Len(l) :
              /\ SameChunk(Drop(l, ks)[i], l[i])
              /\ Drop(l, ks)[i].live = (l[i].live /\ l[i].chunk \notin ks)
              /\ Drop(l, ks)[i].keep = l[i].keep
<1>1. /\ Len(l) \in Nat /\ DOMAIN l = 1 .. Len(l)
      /\ \A i \in 1 .. Len(l) : l[i] \in Recs
  BY LogIs
<1>2. ASSUME NEW c \in Recs, NEW b \in BOOLEAN
      PROVE  [c EXCEPT !.live = @ /\ b] = Remark(c, c.live /\ b, c.keep)
  <2>1. CASE c \in Headers
    BY <2>1 DEF Headers, Remark
  <2>2. CASE c \in DataChunks
    BY <2>2 DEF DataChunks, Remark
  <2> QED BY <2>1, <2>2 DEF Recs
<1>3. Drop(l, ks) =
        [i \in 1 .. Len(l) |->
           Remark(l[i], l[i].live /\ l[i].chunk \notin ks, l[i].keep)]
  <2>1. \A i \in 1 .. Len(l) :
          [l[i] EXCEPT !.live = @ /\ l[i].chunk \notin ks] =
            Remark(l[i], l[i].live /\ l[i].chunk \notin ks, l[i].keep)
    BY <1>1, <1>2
  <2> QED BY <1>1, <2>1 DEF Drop
<1>4. ASSUME NEW i \in 1 .. Len(l)
      PROVE  LET r == Remark(l[i], l[i].live /\ l[i].chunk \notin ks, l[i].keep)
             IN /\ r \in Recs /\ SameChunk(r, l[i])
                /\ r.live = (l[i].live /\ l[i].chunk \notin ks) /\ r.keep = l[i].keep
  BY <1>1, RecTypes, RemarkIs
<1> QED BY <1>1, <1>3, <1>4

LEMMA MarkedIs ==
  ASSUME NEW l \in Seq(Recs), NEW a, NEW b
  PROVE  /\ Marked(l, a, b) \in Seq(Recs) /\ Len(Marked(l, a, b)) = Len(l)
         /\ \A i \in 1 .. Len(l) :
              /\ SameChunk(Marked(l, a, b)[i], l[i])
              /\ Marked(l, a, b)[i].live = (i \in a)
              /\ Marked(l, a, b)[i].keep = (i \in b)
<1>1. /\ Len(l) \in Nat /\ DOMAIN l = 1 .. Len(l)
      /\ \A i \in 1 .. Len(l) : l[i] \in Recs
  BY LogIs
<1>2. Marked(l, a, b) = [i \in 1 .. Len(l) |-> Remark(l[i], i \in a, i \in b)]
  BY <1>1 DEF Marked, Remark
<1>3. ASSUME NEW i \in 1 .. Len(l)
      PROVE  LET r == Remark(l[i], i \in a, i \in b)
             IN /\ r \in Recs /\ SameChunk(r, l[i])
                /\ r.live = (i \in a) /\ r.keep = (i \in b)
  <2>1. l[i] \in Recs /\ (i \in a) \in BOOLEAN /\ (i \in b) \in BOOLEAN
    BY <1>1
  <2> QED BY <2>1, RemarkIs
<1> QED BY <1>1, <1>2, <1>3

(* m is the log l with c programmed.                                       *)
Programmed(l, c, m) ==
  /\ m \in Seq(Recs) /\ Len(l) \in Nat /\ Len(m) = Len(l) + 1 /\ m[Len(l) + 1] = c
  /\ \A i \in 1 .. Len(l) :
       /\ m[i].chunk = l[i].chunk /\ m[i].data = l[i].data /\ m[i].n = l[i].n
       /\ m[i].size = l[i].size /\ m[i].shrink = l[i].shrink
       /\ m[i].live = (l[i].live /\ l[i].chunk # c.chunk) /\ m[i].keep = l[i].keep

LEMMA ProgramIs ==
  ASSUME NEW l \in Seq(Recs), NEW c \in Recs
  PROVE  Programmed(l, c, Program(l, c))
<1>1. PICK d : d = Drop(l, {c.chunk})
  OBVIOUS
<1>2. /\ d \in Seq(Recs) /\ Len(d) = Len(l)
      /\ \A i \in 1 .. Len(l) :
           /\ SameChunk(d[i], l[i])
           /\ d[i].live = (l[i].live /\ l[i].chunk \notin {c.chunk})
           /\ d[i].keep = l[i].keep
  BY <1>1, DropIs
<1>3. Program(l, c) = Append(d, c)
  BY <1>1 DEF Program
<1>4. /\ Append(d, c) \in Seq(Recs) /\ Len(Append(d, c)) = Len(l) + 1
      /\ Append(d, c)[Len(l) + 1] = c
      /\ \A i \in 1 .. Len(l) : Append(d, c)[i] = d[i]
  BY <1>2
<1>5. \A i \in 1 .. Len(l) :
        /\ d[i].chunk = l[i].chunk /\ d[i].data = l[i].data /\ d[i].n = l[i].n
        /\ d[i].size = l[i].size /\ d[i].shrink = l[i].shrink
        /\ d[i].live = (l[i].live /\ l[i].chunk # c.chunk) /\ d[i].keep = l[i].keep
  BY <1>2 DEF SameChunk
<1>6. Len(l) \in Nat
  BY LogIs
<1> QED BY <1>3, <1>4, <1>5, <1>6 DEF Programmed

LEMMA SeqIs ==
  ASSUME NEW S, NEW w \in Seq(S)
  PROVE  /\ Len(w) \in Nat /\ DOMAIN w = 1 .. Len(w)
         /\ \A p \in 1 .. Len(w) : w[p] \in S
  OBVIOUS

LEMMA RemoveIs ==
  ASSUME NEW S, NEW l \in Seq(S), NEW e \in 1 .. Len(l)
  PROVE  /\ RemoveAt(l, e) \in Seq(S) /\ Len(RemoveAt(l, e)) = Len(l) - 1
         /\ \A i \in 1 .. Len(l) - 1 :
              RemoveAt(l, e)[i] = l[IF i < e THEN i ELSE i + 1]
<1> DEFINE a == SubSeq(l, 1, e - 1)
           b == SubSeq(l, e + 1, Len(l))
<1>1. RemoveAt(l, e) = a \o b
  BY DEF RemoveAt
<1>2. Len(l) \in Nat /\ e \in Nat /\ \A i \in 1 .. Len(l) : l[i] \in S
  BY SeqIs
<1>3. a \in Seq(S) /\ Len(a) = e - 1 /\ \A i \in 1 .. e - 1 : a[i] = l[i]
  BY <1>2
<1>4. b \in Seq(S) /\ Len(b) = Len(l) - e /\ \A i \in 1 .. Len(l) - e : b[i] = l[e + i]
  BY <1>2
<1> HIDE DEF a, b
<1>5. /\ a \o b \in Seq(S) /\ Len(a \o b) = Len(a) + Len(b)
      /\ \A i \in 1 .. Len(a) + Len(b) :
           (a \o b)[i] = IF i <= Len(a) THEN a[i] ELSE b[i - Len(a)]
  BY <1>3, <1>4, ConcatIs, Zenon
<1>6. Len(a) + Len(b) = Len(l) - 1
  BY <1>2, <1>3, <1>4
<1>7. ASSUME NEW i \in 1 .. Len(l) - 1
      PROVE  (a \o b)[i] = l[IF i < e THEN i ELSE i + 1]
  <2>1. CASE i < e
    BY <1>2, <1>3, <1>5, <1>6, <2>1
  <2>2. CASE ~(i < e)
    <3>1. (a \o b)[i] = b[i - (e - 1)]
      BY <1>2, <1>3, <1>5, <1>6, <2>2
    <3>2. i - (e - 1) \in 1 .. Len(l) - e /\ e + (i - (e - 1)) = i + 1
      BY <1>2, <2>2
    <3> QED BY <1>4, <2>2, <3>1, <3>2
  <2> QED BY <2>1, <2>2
<1> QED BY <1>1, <1>5, <1>6, <1>7

LEMMA EraseIs ==
  ASSUME NEW l \in Seq(Recs), NEW e \in 1 .. Len(l)
  PROVE  /\ RemoveAt(l, e) \in Seq(Recs) /\ Len(RemoveAt(l, e)) = Len(l) - 1
         /\ \A i \in 1 .. Len(l) - 1 :
              RemoveAt(l, e)[i] = l[IF i < e THEN i ELSE i + 1]
  BY RemoveIs, Zenon

-----------------------------------------------------------------------------
(* Programming.                                                            *)

(* Where one chunk ends, another is not cut into.                          *)
LEMMA Apart ==
  ASSUME NEW k \in Nat, NEW j \in Nat, k # j, NEW n \in 1 .. ChunkBytes,
         NEW s \in Int, Clear(s, k)
  PROVE  /\ Clear(Larger(s, Base(j) + n), k)
         /\ Clear(Base(j) + n, k)
<1>1. Base(k) \in Int /\ Base(j) \in Int /\ n \in Int /\ n >= 1 /\ n <= ChunkBytes
      /\ ChunkBytes \in Nat
  BY BaseIs, Bounds
<1>2. Base(k) + ChunkBytes <= Base(j) \/ Base(j) + ChunkBytes <= Base(k)
  <2>1. k < j \/ j < k
    OBVIOUS
  <2> QED BY <2>1, BaseLess
<1>3. Clear(Base(j) + n, k)
  BY <1>1, <1>2 DEF Clear, Beside
<1> QED BY <1>1, <1>3 DEF Larger

-----------------------------------------------------------------------------
(* Logs with the same chunks.                                              *)

SameLog(l, m) ==
  /\ l \in Seq(Recs) /\ m \in Seq(Recs) /\ Len(m) = Len(l)
  /\ \A i \in 1 .. Len(l) : SameChunk(m[i], l[i])

LEMMA SameLogs ==
  ASSUME NEW l, NEW m, SameLog(l, m)
  PROVE  \A i \in 1 .. Len(l) :
           /\ Newest(m, i) <=> Newest(l, i)
           /\ ShrinkCut(m, i) <=> ShrinkCut(l, i)
           /\ IsHead(m, i) <=> IsHead(l, i)
           /\ FlashOK(m, i) <=> FlashOK(l, i)
<1>1. /\ Len(m) = Len(l)
      /\ \A i \in 1 .. Len(l) : /\ m[i].chunk = l[i].chunk /\ m[i].n = l[i].n
                                /\ m[i].size = l[i].size
                                /\ m[i].shrink = l[i].shrink
  BY DEF SameLog, SameChunk
<1>2. \A i \in 1 .. Len(l) : Newest(m, i) <=> Newest(l, i)
  BY <1>1 DEF Newest
<1>3. \A i \in 1 .. Len(l) : ShrinkCut(m, i) <=> ShrinkCut(l, i)
  BY <1>1 DEF ShrinkCut
<1>4. \A i \in 1 .. Len(l) : IsHead(m, i) <=> IsHead(l, i)
  BY <1>1, <1>2 DEF IsHead
<1>5. \A i \in 1 .. Len(l) : FlashOK(m, i) <=> FlashOK(l, i)
  BY <1>1, <1>2, <1>3 DEF FlashOK
<1> QED BY <1>2, <1>3, <1>4, <1>5

LEMMA SameOnFlash ==
  ASSUME NEW l, NEW m, SameLog(l, m), OnFlash(l)
  PROVE  OnFlash(m)
  BY SameLogs DEF OnFlash, SameLog

(* There is one newest header.                                             *)
LEMMA OneHead ==
  ASSUME NEW l \in Seq(Recs), NEW h, IsHead(l, h), NEW i \in 1 .. Len(l), l[i].chunk = 0
  PROVE  i <= h /\ (Newest(l, i) => i = h)
<1>1. h \in 1 .. Len(l) /\ l[h].chunk = 0 /\ Newest(l, h)
  BY DEF IsHead
<1>2. ~(i > h)
  BY <1>1 DEF Newest
<1>3. Newest(l, i) => ~(h > i)
  BY <1>1 DEF Newest
<1> QED BY <1>1, <1>2, <1>3

-----------------------------------------------------------------------------
(* Programming a chunk.                                                    *)

LEMMA ProgramCuts ==
  ASSUME NEW l \in Seq(Recs), NEW c \in Recs, NEW m, m = Program(l, c)
  PROVE  /\ Newest(m, Len(l) + 1) /\ ~ShrinkCut(m, Len(l) + 1)
         /\ \A i \in 1 .. Len(l) :
              /\ Newest(m, i) <=> Newest(l, i) /\ l[i].chunk # c.chunk
              /\ ShrinkCut(m, i) <=>
                   \/ ShrinkCut(l, i)
                   \/ c.chunk = 0 /\ c.shrink /\ c.size <= Base(l[i].chunk)
<1>1. /\ Len(l) \in Nat /\ Len(m) = Len(l) + 1 /\ m[Len(l) + 1] = c
      /\ \A i \in 1 .. Len(l) : /\ m[i].chunk = l[i].chunk
                                /\ m[i].size = l[i].size /\ m[i].shrink = l[i].shrink
  BY ProgramIs, ZenonT(60) DEF Programmed
<1>2. Newest(m, Len(l) + 1) /\ ~ShrinkCut(m, Len(l) + 1)
  BY <1>1 DEF Newest, ShrinkCut
<1>3. \A j \in 1 .. Len(m) : j \in 1 .. Len(l) \/ j = Len(l) + 1
  BY <1>1
<1>4. 1 .. Len(l) \subseteq 1 .. Len(m) /\ Len(l) + 1 \in 1 .. Len(m)
  BY <1>1
<1>5. \A i \in 1 .. Len(l) : Newest(m, i) <=> Newest(l, i) /\ l[i].chunk # c.chunk
  BY <1>1, <1>3, <1>4, SMTT(30) DEF Newest
<1>6. \A i \in 1 .. Len(l) :
        ShrinkCut(m, i) <=>
          \/ ShrinkCut(l, i)
          \/ c.chunk = 0 /\ c.shrink /\ c.size <= Base(l[i].chunk)
  BY <1>1, <1>3, <1>4 DEF ShrinkCut
<1> QED BY <1>2, <1>5, <1>6

LEMMA ProgramData ==
  ASSUME NEW l \in Seq(Recs), NEW st \in 0 .. MaxSize, NEW P \in 0 .. MaxSize, InRam(l, st, P),
         NEW c \in Recs, c.chunk # 0, c.live = TRUE, c.keep = FALSE,
         Base(c.chunk) < P
  PROVE  InRam(Program(l, c), Larger(st, Base(c.chunk) + c.n), P)
<1> DEFINE k == c.chunk
           st2 == Larger(st, Base(k) + c.n)
<1>1. PICK h \in 1 .. Len(l) :
        /\ IsHead(l, h) /\ FlashOK(l, h) /\ MarksOK(l, h)
        /\ LiveOK(l, st, P) /\ DeadOK(l, h, st, P)
  BY DEF InRam
<1>2. PICK m : m = Program(l, c)
  OBVIOUS
<1>0. Programmed(l, c, m) /\ Typed(l) /\ TypedRec(c)
  BY <1>2, ProgramIs, LogTyped, RecTyped
<1>3. /\ m \in Seq(Recs) /\ Len(l) \in Nat /\ Len(m) = Len(l) + 1 /\ m[Len(l) + 1] = c
      /\ \A i \in 1 .. Len(l) :
           /\ m[i].chunk = l[i].chunk /\ m[i].n = l[i].n
           /\ m[i].size = l[i].size /\ m[i].shrink = l[i].shrink
           /\ m[i].live = (l[i].live /\ l[i].chunk # k) /\ m[i].keep = l[i].keep
  BY <1>0 DEF Programmed
<1>4. /\ Newest(m, Len(l) + 1) /\ ~ShrinkCut(m, Len(l) + 1)
      /\ \A i \in 1 .. Len(l) :
           /\ Newest(m, i) <=> Newest(l, i) /\ l[i].chunk # k
           /\ ShrinkCut(m, i) <=> ShrinkCut(l, i)
  BY <1>2, ProgramCuts
<1>5. /\ k \in Nat /\ Base(k) \in Nat /\ c.n \in 1 .. ChunkBytes /\ c.shrink = FALSE
      /\ c.n \in Nat
  BY <1>0 DEF TypedRec
<1>6. st2 \in Nat /\ st <= st2 /\ Base(k) + c.n <= st2
  <2>1. PICK e \in Nat : e = Base(k) + c.n
    BY <1>5
  <2>2. st \in Nat
    BY Bounds
  <2>3. st2 = IF st > e THEN st ELSE e
    BY <2>1 DEF Larger
  <2> QED BY <2>1, <2>2, <2>3
<1>7. \A i \in 1 .. Len(l) :
        l[i].chunk # 0 => /\ Base(l[i].chunk) \in Nat /\ l[i].n \in Nat
                          /\ l[i].chunk \in Nat
  BY <1>0, Bounds DEF Typed, TypedRec
<1>8. \A i \in 1 .. Len(m) : i \in 1 .. Len(l) \/ i = Len(l) + 1
  <2>1. Len(l) \in Nat /\ Len(m) = Len(l) + 1
    BY <1>3
  <2> QED BY <2>1
<1>9. ASSUME NEW j \in Nat, j # k, Clear(st, j)
      PROVE  Clear(st2, j)
  BY <1>5, <1>9, Apart
<1> HIDE DEF st2
<1>10. IsHead(m, h)
  BY <1>1, <1>3, <1>4 DEF IsHead
<1>11. FlashOK(m, h)
  BY <1>1, <1>3, <1>4, <1>8 DEF FlashOK
<1>12. MarksOK(m, h)
  <2>1. m[h].live
    <3>1. l[h].live /\ l[h].chunk # k
      BY <1>1, <1>5 DEF MarksOK, IsHead
    <3> QED BY <1>3, <3>1
  <2>2. ASSUME NEW i \in 1 .. Len(m)
        PROVE  (m[i].live => Newest(m, i)) /\ m[i].keep = m[i].shrink
    <3>1. CASE i \in 1 .. Len(l)
      <4>1. m[i].live => l[i].live /\ l[i].chunk # k
        BY <1>3, <3>1
      <4> QED BY <1>1, <1>3, <1>4, <3>1, <4>1 DEF MarksOK
    <3>2. CASE i = Len(l) + 1
      BY <1>3, <1>4, <1>5, <3>2
    <3> QED BY <1>8, <3>1, <3>2
  <2> QED BY <2>1, <2>2 DEF MarksOK
<1>13. LiveOK(m, st2, P)
  <2> SUFFICES ASSUME NEW i \in 1 .. Len(m), m[i].chunk # 0, m[i].live
               PROVE  /\ ~ShrinkCut(m, i) /\ Base(m[i].chunk) + m[i].n <= st2
                      /\ Base(m[i].chunk) < P
    BY DEF LiveOK
  <2>1. CASE i \in 1 .. Len(l)
    <3>1. l[i].live /\ l[i].chunk # 0 /\ m[i].chunk = l[i].chunk /\ m[i].n = l[i].n
      BY <1>3, <2>1
    <3>2. ~ShrinkCut(l, i) /\ Base(l[i].chunk) + l[i].n <= st /\ Base(l[i].chunk) < P
      BY <1>1, <2>1, <3>1 DEF LiveOK
    <3> QED BY <1>4, <1>6, <1>7, <2>1, <3>1, <3>2
  <2>2. CASE i = Len(l) + 1
    BY <1>3, <1>4, <1>5, <1>6, <2>2
  <2> QED BY <1>8, <2>1, <2>2
<1>14. DeadOK(m, h, st2, P)
  <2> SUFFICES ASSUME NEW i \in 1 .. Len(m), m[i].chunk # 0, ~m[i].live, Newest(m, i)
               PROVE  Ending(m, i, st2, P) \/ Ended(m, h, i, st2, P)
    BY DEF DeadOK
  <2>1. i \in 1 .. Len(l)
    BY <1>3, <1>8
  <2>2. l[i].chunk # 0 /\ ~l[i].live /\ Newest(l, i) /\ l[i].chunk # k
    BY <1>3, <1>4, <2>1
  <2>3. CASE Ending(l, i, st, P)
    BY <1>3, <1>4, <1>6, <1>7, <2>1, <2>2, <2>3 DEF Ending
  <2>4. CASE Ended(l, h, i, st, P)
    <3>1. Clear(st2, l[i].chunk)
      BY <1>7, <1>9, <2>1, <2>2, <2>4 DEF Ended
    <3> QED BY <1>3, <2>1, <2>4, <3>1 DEF Ended
  <2> QED BY <1>1, <2>1, <2>2, <2>3, <2>4 DEF DeadOK
<1>15. h \in 1 .. Len(m)
  BY <1>3
<1>16. InRam(m, st2, P)
  BY <1>10, <1>11, <1>12, <1>13, <1>14, <1>15 DEF InRam
<1> QED BY <1>2, <1>16 DEF st2

LEMMA ProgramHdr ==
  ASSUME NEW l \in Seq(Recs), NEW st \in 0 .. MaxSize, NEW P \in 0 .. MaxSize, InRam(l, st, P),
         NEW b \in BOOLEAN,
         NEW P2, P2 = P \/ (P2 = MaxSize /\ P = st)
  PROVE  InRam(Program(l, Hdr(st, b)), st, P2)
<1>1. PICK h \in 1 .. Len(l) :
        /\ IsHead(l, h) /\ FlashOK(l, h) /\ MarksOK(l, h)
        /\ LiveOK(l, st, P) /\ DeadOK(l, h, st, P)
  BY DEF InRam
<1>2. PICK c \in Recs : /\ c = Hdr(st, b) /\ c.chunk = 0 /\ c.size = st
                        /\ c.shrink = b /\ c.live = TRUE /\ c.keep = b
  BY HeaderIs
<1>3. PICK m : m = Program(l, c)
  OBVIOUS
<1>0. Programmed(l, c, m) /\ Typed(l)
  BY <1>2, <1>3, ProgramIs, LogTyped
<1>4. /\ m \in Seq(Recs) /\ Len(l) \in Nat /\ Len(m) = Len(l) + 1 /\ m[Len(l) + 1] = c
      /\ \A i \in 1 .. Len(l) :
           /\ m[i].chunk = l[i].chunk /\ m[i].n = l[i].n
           /\ m[i].size = l[i].size /\ m[i].shrink = l[i].shrink
           /\ m[i].live = (l[i].live /\ l[i].chunk # 0) /\ m[i].keep = l[i].keep
  BY <1>0, <1>2 DEF Programmed
<1>5. /\ Newest(m, Len(l) + 1)
      /\ \A i \in 1 .. Len(l) :
           /\ Newest(m, i) <=> Newest(l, i) /\ l[i].chunk # 0
           /\ ShrinkCut(m, i) <=> ShrinkCut(l, i) \/ (b /\ st <= Base(l[i].chunk))
  BY <1>2, <1>3, ProgramCuts
<1>6. \A i \in 1 .. Len(l) :
        l[i].chunk # 0 => /\ Base(l[i].chunk) \in Nat /\ l[i].n \in Nat /\ l[i].n >= 1
                          /\ Base(l[i].chunk) < MaxSize
  BY <1>0, Bounds DEF Typed, TypedRec
<1>7. \A i \in 1 .. Len(m) : i \in 1 .. Len(l) \/ i = Len(l) + 1
  <2>1. Len(l) \in Nat /\ Len(m) = Len(l) + 1
    BY <1>4
  <2> QED BY <2>1
<1>8. st \in Nat /\ MaxSize \in Nat
  BY Bounds
<1>9. ASSUME NEW i \in 1 .. Len(l), l[i].chunk # 0, l[i].live
      PROVE  /\ ~ShrinkCut(m, i) /\ Base(l[i].chunk) + l[i].n <= st
             /\ Base(l[i].chunk) < P
  BY <1>1, <1>5, <1>6, <1>8, <1>9 DEF LiveOK
<1>10. ASSUME NEW i \in 1 .. Len(l), l[i].chunk # 0, ~l[i].live, Newest(l, i)
       PROVE  \/ /\ Base(l[i].chunk) + l[i].n <= st /\ Base(l[i].chunk) >= P
                 /\ ~ShrinkCut(m, i)
              \/ Clear(st, l[i].chunk)
  <2>1. Ending(l, i, st, P) \/ Ended(l, h, i, st, P)
    BY <1>1, <1>10 DEF DeadOK
  <2> QED BY <1>5, <1>6, <1>8, <1>10, <2>1 DEF Ending, Ended
<1> DEFINE g == Len(l) + 1
<1>11. IsHead(m, g) /\ g \in 1 .. Len(m) /\ m[g].size = st /\ m[g].live = TRUE
       /\ m[g].keep = m[g].shrink
  BY <1>2, <1>4, <1>5 DEF IsHead
<1>12. FlashOK(m, g)
  <2> SUFFICES ASSUME NEW i \in 1 .. Len(l), l[i].chunk # 0, Newest(l, i)
               PROVE  Beside(st, l[i].chunk,
                             IF ShrinkCut(m, i) THEN ChunkBytes ELSE l[i].n)
    BY <1>4, <1>5, <1>7, <1>11 DEF FlashOK
  <2>1. CASE l[i].live
    BY <1>9, <2>1 DEF Beside
  <2>2. CASE ~l[i].live
    <3>1. CASE /\ Base(l[i].chunk) + l[i].n <= st /\ ~ShrinkCut(m, i)
      BY <3>1 DEF Beside
    <3>2. CASE Clear(st, l[i].chunk)
      <4>1. l[i].n \in 1 .. ChunkBytes /\ ChunkBytes \in Nat /\ Base(l[i].chunk) \in Nat
        BY <1>0, Bounds DEF Typed, TypedRec
      <4> QED BY <1>8, <3>2, <4>1 DEF Beside, Clear
    <3> QED BY <1>10, <2>2, <3>1, <3>2
  <2> QED BY <2>1, <2>2
<1>13. MarksOK(m, g)
  <2> SUFFICES ASSUME NEW i \in 1 .. Len(m)
               PROVE  (m[i].live => Newest(m, i)) /\ m[i].keep = m[i].shrink
    BY <1>11 DEF MarksOK
  <2>1. CASE i \in 1 .. Len(l)
    <3>1. m[i].live => l[i].live /\ l[i].chunk # 0
      BY <1>4, <2>1
    <3> QED BY <1>1, <1>4, <1>5, <2>1, <3>1 DEF MarksOK
  <2>2. CASE i = Len(l) + 1
    BY <1>5, <1>11, <2>2
  <2> QED BY <1>7, <2>1, <2>2
<1>14. LiveOK(m, st, P2)
  <2> SUFFICES ASSUME NEW i \in 1 .. Len(m), m[i].chunk # 0, m[i].live
               PROVE  /\ ~ShrinkCut(m, i) /\ Base(m[i].chunk) + m[i].n <= st
                      /\ Base(m[i].chunk) < P2
    BY DEF LiveOK
  <2>1. i \in 1 .. Len(l)
    BY <1>2, <1>4, <1>7
  <2>2. l[i].chunk # 0 /\ l[i].live
    BY <1>4, <2>1
  <2>3. Base(l[i].chunk) < P2
    BY <1>6, <1>9, <2>1, <2>2
  <2> QED BY <1>4, <1>9, <2>1, <2>2, <2>3
<1>15. DeadOK(m, g, st, P2)
  <2> SUFFICES ASSUME NEW i \in 1 .. Len(m), m[i].chunk # 0, ~m[i].live, Newest(m, i)
               PROVE  Ending(m, i, st, P2) \/ Ended(m, g, i, st, P2)
    BY DEF DeadOK
  <2>1. i \in 1 .. Len(l)
    BY <1>2, <1>4, <1>7
  <2>2. l[i].chunk # 0 /\ ~l[i].live /\ Newest(l, i) /\ m[i].chunk = l[i].chunk
    BY <1>4, <1>5, <2>1
  <2>3. CASE /\ Base(l[i].chunk) + l[i].n <= st /\ Base(l[i].chunk) >= P
             /\ ~ShrinkCut(m, i)
    <3>1. P2 = P
      BY <1>6, <1>8, <2>1, <2>2, <2>3
    <3> QED BY <1>4, <2>1, <2>2, <2>3, <3>1 DEF Ending
  <2>4. CASE Clear(st, l[i].chunk)
    BY <1>11, <2>1, <2>2, <2>4, <1>4 DEF Ended
  <2> QED BY <1>10, <2>1, <2>2, <2>3, <2>4
<1> HIDE DEF g
<1>16. InRam(m, st, P2)
  BY <1>11, <1>12, <1>13, <1>14, <1>15 DEF InRam
<1> QED BY <1>2, <1>3, <1>16

-----------------------------------------------------------------------------
(* Pruning, padding, erasing.                                              *)

(* Cutting a file off, padding its last chunk, erasing a chunk.            *)

LEMMA DropSame ==
  ASSUME NEW l \in Seq(Recs), NEW ks
  PROVE  SameLog(l, Drop(l, ks))
  BY DropIs DEF SameLog

LEMMA MarkedSame ==
  ASSUME NEW l \in Seq(Recs), NEW a, NEW b
  PROVE  SameLog(l, Marked(l, a, b))
  BY MarkedIs DEF SameLog

LEMMA PruneLog ==
  ASSUME NEW l \in Seq(Recs), NEW st \in 0 .. MaxSize, InRam(l, st, MaxSize),
         NEW n \in 0 .. MaxSize
  PROVE  InRam(Drop(l, {j \in Chunks : Base(j) >= n}), st, n)
<1>1. PICK h \in 1 .. Len(l) :
        /\ IsHead(l, h) /\ FlashOK(l, h) /\ MarksOK(l, h)
        /\ LiveOK(l, st, MaxSize) /\ DeadOK(l, h, st, MaxSize)
  BY DEF InRam
<1> DEFINE ks == {j \in Chunks : Base(j) >= n}
<1>2. PICK m : m = Drop(l, ks)
  OBVIOUS
<1>3. /\ m \in Seq(Recs) /\ Len(m) = Len(l)
      /\ \A i \in 1 .. Len(l) :
           /\ SameChunk(m[i], l[i])
           /\ m[i].live = (l[i].live /\ l[i].chunk \notin ks)
           /\ m[i].keep = l[i].keep
  BY <1>2, DropIs
<1>4. SameLog(l, m) /\ Typed(l)
  BY <1>2, DropSame, LogTyped
<1>5. \A i \in 1 .. Len(l) :
        /\ m[i].chunk = l[i].chunk /\ m[i].n = l[i].n
        /\ m[i].size = l[i].size /\ m[i].shrink = l[i].shrink /\ m[i].keep = l[i].keep
        /\ Newest(m, i) <=> Newest(l, i)
        /\ ShrinkCut(m, i) <=> ShrinkCut(l, i)
  BY <1>3, <1>4, SameLogs DEF SameChunk
<1>6. IsHead(m, h) /\ FlashOK(m, h) /\ h \in 1 .. Len(m)
  BY <1>1, <1>3, <1>4, SameLogs
<1>7. \A i \in 1 .. Len(l) :
        l[i].chunk # 0 =>
          /\ Base(l[i].chunk) \in Nat /\ Base(l[i].chunk) < MaxSize
          /\ l[i].chunk \in Chunks
  BY <1>4 DEF Typed, TypedRec
<1>8. MarksOK(m, h)
  <2>1. 0 \notin ks
    BY ChunksAre
  <2>2. m[h].live
    <3>1. l[h].live /\ l[h].chunk \notin ks
      BY <1>1, <2>1 DEF MarksOK, IsHead
    <3> QED BY <1>3, <3>1
  <2>3. \A i \in 1 .. Len(l) : m[i].live => l[i].live
    BY <1>3
  <2> QED BY <1>1, <1>3, <1>5, <2>2, <2>3 DEF MarksOK
<1>9. LiveOK(m, st, n)
  <2> SUFFICES ASSUME NEW i \in 1 .. Len(l), l[i].chunk # 0, m[i].live
               PROVE  /\ ~ShrinkCut(l, i) /\ Base(l[i].chunk) + l[i].n <= st
                      /\ Base(l[i].chunk) < n
    BY <1>3, <1>5 DEF LiveOK
  <2>1. l[i].live /\ l[i].chunk \notin ks
    BY <1>3
  <2>2. Base(l[i].chunk) < n
    BY <1>7, <2>1
  <2> QED BY <1>1, <2>1, <2>2 DEF LiveOK
<1>10. DeadOK(m, h, st, n)
  <2> SUFFICES ASSUME NEW i \in 1 .. Len(l), l[i].chunk # 0, ~m[i].live, Newest(l, i)
               PROVE  Ending(m, i, st, n) \/ Ended(m, h, i, st, n)
    BY <1>3, <1>5 DEF DeadOK
  <2>1. CASE l[i].live
    <3>1. l[i].chunk \in ks
      <4>1. m[i].live = (l[i].live /\ l[i].chunk \notin ks)
        BY <1>3
      <4> QED BY <2>1, <4>1
    <3>2. ~ShrinkCut(l, i) /\ Base(l[i].chunk) + l[i].n <= st
      BY <1>1, <2>1 DEF LiveOK
    <3>3. Ending(m, i, st, n)
      BY <1>5, <3>1, <3>2 DEF Ending
    <3> QED BY <3>3
  <2>2. CASE ~l[i].live
    <3>1. Ending(l, i, st, MaxSize) \/ Ended(l, h, i, st, MaxSize)
      BY <1>1, <2>2 DEF DeadOK
    <3>2. ~(Base(l[i].chunk) >= MaxSize)
      BY <1>7, Bounds
    <3>3. Clear(st, l[i].chunk) /\ i < h /\ Clear(l[h].size, l[i].chunk)
      BY <3>1, <3>2 DEF Ending, Ended
    <3> QED BY <1>5, <3>3 DEF Ended
  <2> QED BY <2>1, <2>2
<1>11. InRam(m, st, n)
  BY <1>6, <1>8, <1>9, <1>10 DEF InRam
<1> QED BY <1>2, <1>11

(* A file that ends at n does not cut into a chunk other than the one that *)
(* n lies in, nor into any when n lies between two.                        *)
LEMMA EndClear ==
  ASSUME NEW n \in Nat, NEW j \in Nat, j # ChunkOf(n) \/ StartOf(n) = 0
  PROVE  Clear(n, j)
<1>1. /\ ChunkOf(n) \in Nat \ {0} /\ StartOf(n) \in 0 .. ChunkBytes - 1
      /\ n = Base(ChunkOf(n)) + StartOf(n) /\ ChunkBytes \in Nat
  BY ChunkOfIs, Bounds
<1>2. Base(j) \in Int /\ Base(ChunkOf(n)) \in Int
  BY <1>1, BaseIs
<1>3. CASE j < ChunkOf(n)
  <2>1. Base(j) + ChunkBytes <= Base(ChunkOf(n))
    BY <1>1, <1>3, BaseLess
  <2> QED BY <1>1, <1>2, <2>1 DEF Clear, Beside
<1>4. CASE ChunkOf(n) < j
  <2>1. Base(ChunkOf(n)) + ChunkBytes <= Base(j)
    BY <1>1, <1>4, BaseLess
  <2> QED BY <1>1, <1>2, <2>1 DEF Clear, Beside
<1>5. CASE j = ChunkOf(n)
  BY <1>1, <1>2, <1>5 DEF Clear, Beside
<1> QED BY <1>1, <1>3, <1>4, <1>5

LEMMA EndAt ==
  ASSUME NEW m \in Seq(Recs), NEW st \in 0 .. MaxSize, NEW n \in 0 .. MaxSize,
         InRam(m, st, n),
         \A i \in 1 .. Len(m) : m[i].chunk # 0 /\ Newest(m, i) =>
           \/ Clear(n, m[i].chunk)
           \/ m[i].live /\ Base(m[i].chunk) + m[i].n <= n
  PROVE  InRam(m, n, n)
<1>1. PICK h \in 1 .. Len(m) :
        /\ IsHead(m, h) /\ FlashOK(m, h) /\ MarksOK(m, h)
        /\ LiveOK(m, st, n) /\ DeadOK(m, h, st, n)
  BY DEF InRam
<1>2. \A i \in 1 .. Len(m) :
        m[i].chunk # 0 =>
          /\ Base(m[i].chunk) \in Nat /\ m[i].n \in Nat /\ m[i].n <= ChunkBytes
  BY LogTyped DEF Typed, TypedRec
<1>3. LiveOK(m, n, n)
  <2> SUFFICES ASSUME NEW i \in 1 .. Len(m), m[i].chunk # 0, m[i].live
               PROVE  /\ ~ShrinkCut(m, i) /\ Base(m[i].chunk) + m[i].n <= n
                      /\ Base(m[i].chunk) < n
    BY DEF LiveOK
  <2>1. ~ShrinkCut(m, i) /\ Base(m[i].chunk) < n
    BY <1>1 DEF LiveOK
  <2>2. Newest(m, i)
    BY <1>1 DEF MarksOK
  <2>3. CASE Clear(n, m[i].chunk)
    BY <1>2, <2>1, <2>3, Bounds DEF Clear, Beside
  <2> QED BY <2>1, <2>2, <2>3
<1>4. DeadOK(m, h, n, n)
  <2> SUFFICES ASSUME NEW i \in 1 .. Len(m), m[i].chunk # 0, ~m[i].live, Newest(m, i)
               PROVE  Ended(m, h, i, n, n)
    BY DEF DeadOK
  <2>1. Clear(n, m[i].chunk)
    OBVIOUS
  <2>2. Ending(m, i, st, n) \/ Ended(m, h, i, st, n)
    BY <1>1 DEF DeadOK
  <2> QED BY <2>1, <2>2 DEF Ending, Ended
<1> QED BY <1>1, <1>3, <1>4 DEF InRam

LEMMA PadNothing ==
  ASSUME NEW l \in Seq(Recs), NEW st \in 0 .. MaxSize, NEW n \in 0 .. MaxSize,
         InRam(l, st, n), StartOf(n) = 0
  PROVE  InRam(l, n, n)
<1>1. \A i \in 1 .. Len(l) : l[i].chunk \in Nat
  BY LogTyped DEF Typed, TypedRec
<1>2. n \in Nat
  BY Bounds
<1>3. \A i \in 1 .. Len(l) : Clear(n, l[i].chunk)
  BY <1>1, <1>2, EndClear
<1> QED BY <1>3, EndAt

LEMMA PadLog ==
  ASSUME NEW l \in Seq(Recs), NEW st \in 0 .. MaxSize, NEW n \in 0 .. MaxSize,
         InRam(l, st, n),
         NEW c \in Recs, c.chunk = ChunkOf(n), c.n = n - Base(ChunkOf(n)),
         c.live = TRUE, c.keep = FALSE, StartOf(n) # 0
  PROVE  InRam(Program(l, c), n, n)
<1>0. (\A i \in 1 .. Len(l) : l[i].chunk \in Nat) /\ n \in Nat
  <2>1. \A i \in 1 .. Len(l) : l[i].chunk \in Nat
    BY LogTyped DEF Typed, TypedRec
  <2>2. n \in Nat
    BY Bounds
  <2> QED BY <2>1, <2>2
<1>1. /\ ChunkOf(n) \in Nat \ {0} /\ StartOf(n) \in 0 .. ChunkBytes - 1
      /\ n = Base(ChunkOf(n)) + StartOf(n) /\ ChunkBytes \in Nat
      /\ Base(ChunkOf(n)) \in Int
  <2>1. /\ ChunkOf(n) \in Nat \ {0} /\ StartOf(n) \in 0 .. ChunkBytes - 1
        /\ n = Base(ChunkOf(n)) + StartOf(n)
    BY <1>0, ChunkOfIs
  <2>2. PICK k \in Int : k = ChunkOf(n)
    BY <2>1
  <2>3. Base(k) \in Int
    BY BaseIs
  <2> QED BY <2>1, <2>2, <2>3, Bounds
<1>2. c.chunk # 0 /\ Base(c.chunk) < n /\ Base(c.chunk) + c.n = n
  BY <1>0, <1>1
<1>3. InRam(Program(l, c), Larger(st, n), n)
  BY <1>2, ProgramData
<1>4. Larger(st, n) \in 0 .. MaxSize
  BY DEF Larger
<1>5. PICK m : m = Program(l, c)
  OBVIOUS
<1>6. m \in Seq(Recs) /\ Len(l) \in Nat /\ Len(m) = Len(l) + 1 /\ m[Len(l) + 1] = c
      /\ \A i \in 1 .. Len(l) : m[i].chunk = l[i].chunk
  BY <1>5, ProgramIs DEF Programmed
<1>7. \A i \in 1 .. Len(l) : Newest(m, i) => l[i].chunk # ChunkOf(n)
  BY <1>5, ProgramCuts
<1>8. ASSUME NEW i \in 1 .. Len(m), m[i].chunk # 0, Newest(m, i)
      PROVE  Clear(n, m[i].chunk) \/ (m[i].live /\ Base(m[i].chunk) + m[i].n <= n)
  <2>1. CASE i \in 1 .. Len(l)
    <3>1. m[i].chunk \in Nat /\ m[i].chunk # ChunkOf(n)
      BY <1>0, <1>6, <1>7, <1>8, <2>1
    <3> QED BY <1>0, <3>1, EndClear
  <2>2. CASE i = Len(l) + 1
    BY <1>0, <1>2, <1>6, <2>2
  <2> QED BY <1>6, <2>1, <2>2
<1> QED BY <1>3, <1>4, <1>5, <1>6, <1>8, EndAt

LEMMA EraseLog ==
  ASSUME NEW l \in Seq(Recs), NEW st \in 0 .. MaxSize, NEW P \in 0 .. MaxSize,
         InRam(l, st, P), NEW e \in 1 .. Len(l), ~l[e].live,
         P = MaxSize \/ \A j \in 1 .. e - 1 : l[j].chunk # l[e].chunk
  PROVE  InRam(RemoveAt(l, e), st, P)
<1>1. PICK h \in 1 .. Len(l) :
        /\ IsHead(l, h) /\ FlashOK(l, h) /\ MarksOK(l, h)
        /\ LiveOK(l, st, P) /\ DeadOK(l, h, st, P)
  BY DEF InRam
<1>2. PICK m : m = RemoveAt(l, e)
  OBVIOUS
<1> DEFINE old(i) == IF i < e THEN i ELSE i + 1
           now(i) == IF i < e THEN i ELSE i - 1
<1>3. /\ m \in Seq(Recs) /\ Len(l) \in Nat /\ Len(m) = Len(l) - 1
      /\ \A i \in 1 .. Len(m) : m[i] = l[old(i)]
  BY <1>2, EraseIs, LogIs
<1>4. /\ \A i \in 1 .. Len(m) : old(i) \in 1 .. Len(l) /\ old(i) # e /\ now(old(i)) = i
      /\ \A i \in 1 .. Len(l) : i # e => now(i) \in 1 .. Len(m) /\ old(now(i)) = i
      /\ \A i, j \in 1 .. Len(m) : i < j <=> old(i) < old(j)
  BY <1>3
<1> HIDE DEF old, now
<1>5. Typed(l)
  BY LogTyped
<1>6. \A i \in 1 .. Len(l) :
        l[i].chunk # 0 =>
          /\ Base(l[i].chunk) \in Nat /\ Base(l[i].chunk) < MaxSize
          /\ l[i].n \in Nat /\ l[i].n <= ChunkBytes
  BY <1>5 DEF Typed, TypedRec
<1>7. ASSUME NEW i \in 1 .. Len(m), Newest(m, i), ~Newest(l, old(i))
      PROVE  old(i) < e /\ l[e].chunk = l[old(i)].chunk /\ Newest(l, e)
  <2>1. \A j \in 1 .. Len(l) : j > old(i) /\ j # e => l[j].chunk # l[old(i)].chunk
    <3> SUFFICES ASSUME NEW j \in 1 .. Len(l), j > old(i), j # e
                 PROVE  l[j].chunk # l[old(i)].chunk
      OBVIOUS
    <3>1. PICK k \in 1 .. Len(m) : old(k) = j
      BY <1>4
    <3>2. i < k
      BY <1>4, <3>1
    <3> QED BY <1>3, <1>7, <3>1, <3>2 DEF Newest
  <2>2. old(i) \in 1 .. Len(l)
    BY <1>4
  <2>3. e > old(i) /\ l[e].chunk = l[old(i)].chunk
    BY <1>7, <2>1, <2>2 DEF Newest
  <2>4. Newest(l, e)
    BY <2>1, <2>2, <2>3 DEF Newest
  <2> QED BY <2>2, <2>3, <2>4
<1>8. ASSUME NEW i \in 1 .. Len(m), Newest(l, old(i))
      PROVE  Newest(m, i)
  <2> SUFFICES ASSUME NEW j \in 1 .. Len(m), j > i
               PROVE  m[j].chunk # m[i].chunk
    BY DEF Newest
  <2>1. old(j) > old(i) /\ old(j) \in 1 .. Len(l)
    BY <1>4
  <2> QED BY <1>3, <1>8, <2>1 DEF Newest
<1>9. ASSUME NEW i \in 1 .. Len(m), ShrinkCut(m, i)
      PROVE  ShrinkCut(l, old(i))
  <2>1. PICK j \in 1 .. Len(m) : j > i /\ m[j].chunk = 0 /\ m[j].shrink
                                 /\ m[j].size <= Base(m[i].chunk)
    BY <1>9 DEF ShrinkCut
  <2>2. old(j) \in 1 .. Len(l) /\ old(j) > old(i)
    BY <1>4, <2>1
  <2> QED BY <1>3, <2>1, <2>2 DEF ShrinkCut
<1>10. h # e
  BY <1>1 DEF MarksOK
<1>11. PICK g \in 1 .. Len(m) : old(g) = h
  BY <1>4, <1>10
<1>12. m[g] = l[h] /\ IsHead(m, g)
  BY <1>1, <1>3, <1>8, <1>11 DEF IsHead
<1>13. ASSUME NEW i \in 1 .. Len(m), Newest(m, i), ~Newest(l, old(i)), m[i].chunk # 0
       PROVE  /\ Clear(st, m[i].chunk) /\ i < g /\ Clear(l[h].size, m[i].chunk)
  <2>1. old(i) < e /\ l[e].chunk = l[old(i)].chunk /\ Newest(l, e) /\ m[i] = l[old(i)]
    BY <1>3, <1>7, <1>13
  <2>2. Ending(l, e, st, P) \/ Ended(l, h, e, st, P)
    BY <1>1, <1>13, <2>1 DEF DeadOK
  <2>3. old(i) \in 1 .. Len(l)
    BY <1>4
  <2>4. old(i) \in 1 .. e - 1
    BY <2>1, <2>3
  <2>5. P = MaxSize
    BY <2>1, <2>4
  <2>6. ~(Base(l[e].chunk) >= P)
    BY <1>6, <1>13, <2>1, <2>5, Bounds
  <2>7. Clear(st, l[e].chunk) /\ e < h /\ Clear(l[h].size, l[e].chunk)
    BY <2>2, <2>6 DEF Ending, Ended
  <2>8. old(i) < old(g)
    BY <1>11, <2>1, <2>3, <2>7
  <2> QED BY <1>4, <2>1, <2>7, <2>8
<1>14. FlashOK(m, g)
  <2> SUFFICES ASSUME NEW i \in 1 .. Len(m), i < g, m[i].chunk # 0, Newest(m, i)
               PROVE  Beside(l[h].size, m[i].chunk,
                             IF ShrinkCut(m, i) THEN ChunkBytes ELSE m[i].n)
    BY <1>12 DEF FlashOK
  <2>1. old(i) \in 1 .. Len(l) /\ old(i) < h /\ m[i] = l[old(i)]
    BY <1>3, <1>4, <1>11
  <2>2. /\ m[i].n \in Nat /\ m[i].n <= ChunkBytes /\ Base(m[i].chunk) \in Nat
        /\ l[h].size \in Nat
    BY <1>1, <1>5, <1>6, <2>1 DEF IsHead, Typed, TypedRec
  <2>3. CASE Clear(l[h].size, m[i].chunk)
    BY <2>2, <2>3, Bounds, SMTT(30) DEF Clear, Beside
  <2>4. CASE Newest(l, old(i))
    <3>1. Beside(l[h].size, m[i].chunk,
                 IF ShrinkCut(l, old(i)) THEN ChunkBytes ELSE m[i].n)
      BY <1>1, <2>1, <2>4 DEF FlashOK
    <3>2. CASE ShrinkCut(l, old(i))
      BY <2>3, <3>1, <3>2 DEF Clear
    <3>3. CASE ~ShrinkCut(l, old(i))
      BY <1>9, <3>1, <3>3
    <3> QED BY <3>2, <3>3
  <2> QED BY <1>13, <2>3, <2>4
<1>15. MarksOK(m, g)
  BY <1>1, <1>3, <1>4, <1>8, <1>12, SMTT(30) DEF MarksOK
<1>16. LiveOK(m, st, P)
  BY <1>1, <1>3, <1>4, <1>9 DEF LiveOK
<1>17. DeadOK(m, g, st, P)
  <2> SUFFICES ASSUME NEW i \in 1 .. Len(m), m[i].chunk # 0, ~m[i].live, Newest(m, i)
               PROVE  Ending(m, i, st, P) \/ Ended(m, g, i, st, P)
    BY DEF DeadOK
  <2>1. CASE Newest(l, old(i))
    <3>1. old(i) \in 1 .. Len(l) /\ m[i] = l[old(i)]
      BY <1>3, <1>4
    <3>2. Ending(l, old(i), st, P) \/ Ended(l, h, old(i), st, P)
      BY <1>1, <2>1, <3>1 DEF DeadOK
    <3>3. CASE Ending(l, old(i), st, P)
      BY <1>9, <3>1, <3>3 DEF Ending
    <3>4. CASE Ended(l, h, old(i), st, P)
      <4>1. old(i) < h => i < g
        BY <1>4, <1>11
      <4> QED BY <1>12, <3>1, <3>4, <4>1 DEF Ended
    <3> QED BY <3>2, <3>3, <3>4
  <2>2. CASE ~Newest(l, old(i))
    BY <1>12, <1>13, <2>2 DEF Ended
  <2> QED BY <2>1, <2>2
<1>18. InRam(m, st, P)
  BY <1>12, <1>14, <1>15, <1>16, <1>17 DEF InRam
<1> QED BY <1>2, <1>18

-----------------------------------------------------------------------------
(* The backward scan.                                                      *)

(* The backward scan.                                                      *)

LEMMA LeastNatural ==
  ASSUME NEW S \in SUBSET Nat, S # {}
  PROVE  \E m \in S : \A n \in S : m <= n
<1>1. PICK m \in S : \A n \in S : <<n, m>> \notin OpToRel(<, Nat)
  BY NatLessThanWellFounded, WFMin, Zenon
<1>2. \A m_1, n \in Nat : n < m_1 => <<n, m_1>> \in OpToRel(<, Nat)
  BY DEF OpToRel
<1>3. \A n \in S : ~(n < m)
  BY <1>1, <1>2, Zenon
<1> QED BY <1>3

LEMMA GreatestIn ==
  ASSUME NEW n \in Nat, NEW S \in SUBSET (1 .. n), S # {}
  PROVE  \E m \in S : \A i \in S : i <= m
<1> DEFINE T == {n - i : i \in S}
<1>0. S \subseteq Int /\ \A i \in S : n - i \in Nat
  OBVIOUS
<1>1. T \in SUBSET Nat /\ T # {}
  <2>1. T \subseteq Nat
    BY <1>0
  <2>2. PICK s \in S : TRUE
    OBVIOUS
  <2>3. n - s \in T
    BY <2>2
  <2> QED BY <2>1, <2>3
<1>2. PICK t \in T : \A u \in T : t <= u
  BY <1>1, LeastNatural
<1>3. PICK m \in S : t = n - m
  BY <1>2
<1>4. ASSUME NEW i \in S PROVE i <= m
  <2>1. n - i \in T
    OBVIOUS
  <2>2. n - m <= n - i
    BY <1>2, <1>3, <2>1
  <2>3. i \in Int /\ m \in Int
    BY <1>0
  <2> QED BY <2>2, <2>3
<1> QED BY <1>4

ScanStart ==
  [valid |-> FALSE, cut |-> MaxSize + 1, size |-> 0, live |-> {}, keep |-> {}]

ScanStep(l, sc, i) ==
  IF l[i].chunk = 0 THEN ScanHdr(l, sc, i) ELSE ScanData(l, sc, i)

Scanning(l, f, n) ==
  f = [k \in 0 .. n |-> IF k = 0 THEN ScanStart
                        ELSE ScanStep(l, f[k - 1], Len(l) + 1 - k)]

LEMMA ScanExists ==
  ASSUME NEW l, NEW n \in Nat
  PROVE  \E f : Scanning(l, f, n)
<1> SUFFICES ASSUME \A f : ~Scanning(l, f, n) PROVE FALSE
  OBVIOUS
<1> DEFINE S == {k \in Nat : \A f : ~Scanning(l, f, k)}
<1>1. PICK m \in S : \A k \in S : m <= k
  <2>1. n \in S
    OBVIOUS
  <2> HIDE DEF S
  <2>2. S \in SUBSET Nat /\ S # {}
    BY <2>1 DEF S
  <2> QED BY <2>2, LeastNatural
<1>2. m \in Nat /\ \A f : ~Scanning(l, f, m)
  OBVIOUS
<1>3. CASE m = 0
  <2> DEFINE f == [k \in 0 .. 0 |-> ScanStart]
  <2>1. Scanning(l, f, 0)
    BY DEF Scanning
  <2> HIDE DEF f
  <2> QED BY <1>2, <1>3, <2>1
<1>4. CASE m # 0
  <2>1. m - 1 \in Nat /\ m - 1 \notin S
    BY <1>1, <1>2, <1>4
  <2>2. PICK f : Scanning(l, f, m - 1)
    BY <2>1
  <2> DEFINE g == [k \in 0 .. m |-> IF k < m THEN f[k]
                                    ELSE ScanStep(l, f[m - 1], Len(l) + 1 - m)]
  <2>3. \A k \in 0 .. m : g[k] = IF k < m THEN f[k]
                                  ELSE ScanStep(l, f[m - 1], Len(l) + 1 - m)
    OBVIOUS
  <2>4. \A k \in 0 .. m - 1 :
          f[k] = IF k = 0 THEN ScanStart ELSE ScanStep(l, f[k - 1], Len(l) + 1 - k)
    BY <2>2 DEF Scanning
  <2>5. ASSUME NEW k \in 0 .. m
        PROVE  g[k] = IF k = 0 THEN ScanStart
                      ELSE ScanStep(l, g[k - 1], Len(l) + 1 - k)
    <3> HIDE DEF g
    <3>1. CASE k < m
      <4>1. k \in 0 .. m - 1 /\ g[k] = f[k]
        BY <1>2, <2>3, <3>1
      <4>2. k # 0 => g[k - 1] = f[k - 1]
        BY <1>2, <2>3, <3>1
      <4> QED BY <2>4, <4>1, <4>2
    <3>2. CASE ~(k < m)
      <4>1. k = m /\ g[m - 1] = f[m - 1]
        BY <1>2, <1>4, <2>3, <3>2
      <4> QED BY <1>4, <2>3, <3>2, <4>1
    <3> QED BY <3>1, <3>2
  <2>6. g = [k \in 0 .. m |-> g[k]]
    OBVIOUS
  <2> HIDE DEF g
  <2>7. Scanning(l, g, m)
    BY <2>5, <2>6 DEF Scanning
  <2> QED BY <1>2, <2>7
<1> QED BY <1>3, <1>4

LEMMA ScanStepsAre ==
  ASSUME NEW l \in Seq(Recs)
  PROVE  /\ ScanSteps(l)[0] = ScanStart
         /\ \A k \in 1 .. Len(l) :
              ScanSteps(l)[k] = ScanStep(l, ScanSteps(l)[k - 1], Len(l) + 1 - k)
<1>1. Len(l) \in Nat
  BY LogIs
<1>2. ScanSteps(l) = CHOOSE f : Scanning(l, f, Len(l))
  BY DEF ScanSteps, Scanning, ScanStart, ScanStep
<1>3. PICK g : g = ScanSteps(l)
  OBVIOUS
<1>4. Scanning(l, g, Len(l))
  BY <1>1, <1>2, <1>3, ScanExists
<1>5. \A k \in 0 .. Len(l) :
        g[k] = IF k = 0 THEN ScanStart ELSE ScanStep(l, g[k - 1], Len(l) + 1 - k)
  BY <1>4 DEF Scanning
<1>6. g[0] = ScanStart
  BY <1>1, <1>5
<1>7. \A k \in 1 .. Len(l) : g[k] = ScanStep(l, g[k - 1], Len(l) + 1 - k)
  BY <1>1, <1>5
<1> QED BY <1>3, <1>6, <1>7

(* What the backward scan has found once it is down to the records behind  *)
(* m; h is the newest header.                                              *)

Cuts(l, h, j) == l[j].chunk = 0 /\ (j = h \/ l[j].shrink)

Uncut(l, h, m, x) ==
  \A j \in 1 .. Len(l) : j > m /\ Cuts(l, h, j) => x < l[j].size

Attached(l, h, j) ==
  \/ j = h
  \/ l[j].chunk # 0 /\ Newest(l, j) /\ Uncut(l, h, j, Base(l[j].chunk))

Scans == [valid : BOOLEAN, cut : Int, size : 0 .. MaxSize, live : SUBSET Nat,
          keep : SUBSET Nat]

ScanKnows(l, h, sc, m) ==
  /\ sc.valid = (h > m)
  /\ \A x \in 0 .. MaxSize : x < sc.cut <=> Uncut(l, h, m, x)
  /\ \A j \in Nat : j \in sc.live <=> (j \in m + 1 .. Len(l) /\ Attached(l, h, j))
  /\ \A j \in Nat : j \in sc.keep <=> (j \in m + 1 .. Len(l) /\ l[j].shrink)

ScanSize(l, h, sc, m) ==
  /\ \A j \in m + 1 .. Len(l) :
       l[j].chunk # 0 /\ j > h => Base(l[j].chunk) + l[j].n <= sc.size
  /\ h > m => l[h].size <= sc.size
  /\ \/ sc.size = 0
     \/ h > m /\ sc.size = l[h].size
     \/ \E j \in m + 1 .. Len(l) :
          j > h /\ l[j].chunk # 0 /\ sc.size = Base(l[j].chunk) + l[j].n

ScanInv(l, h, sc, m) == sc \in Scans /\ ScanKnows(l, h, sc, m) /\ ScanSize(l, h, sc, m)

LEMMA ScanStarts ==
  ASSUME NEW l \in Seq(Recs), NEW h, IsHead(l, h)
  PROVE  ScanInv(l, h, ScanStart, Len(l))
<1>1. Len(l) \in Nat /\ MaxSize \in Nat /\ h \in 1 .. Len(l)
  BY LogIs, Bounds DEF IsHead
<1>2. PICK sc : sc = ScanStart
  OBVIOUS
<1>3. /\ sc \in Scans /\ sc.valid = FALSE /\ sc.cut = MaxSize + 1 /\ sc.size = 0
      /\ sc.live = {} /\ sc.keep = {}
  BY <1>1, <1>2 DEF ScanStart, Scans
<1>4. ScanKnows(l, h, sc, Len(l))
  <2>1. \A x \in 0 .. MaxSize : x < sc.cut
    BY <1>1, <1>3
  <2>2. ASSUME NEW x \in 0 .. MaxSize PROVE Uncut(l, h, Len(l), x)
    <3>1. ASSUME NEW j \in 1 .. Len(l) PROVE ~(j > Len(l))
      BY <1>1
    <3> QED BY <3>1, Zenon DEF Uncut
  <2>3. sc.valid = (h > Len(l))
    <3>1. \A j \in 1 .. Len(l) : ~(j > Len(l))
      BY <1>1
    <3>2. ~(h > Len(l))
      BY <1>1, <3>1
    <3>3. sc.valid = FALSE
      BY <1>3
    <3>4. (h > Len(l)) = FALSE
      BY <1>1, <3>2
    <3> QED BY <3>3, <3>4
  <2>4. \A j : j \notin Len(l) + 1 .. Len(l)
    BY <1>1
  <2> QED BY <1>3, <2>1, <2>2, <2>3, <2>4 DEF ScanKnows
<1>5. ScanSize(l, h, sc, Len(l))
  BY <1>1, <1>3 DEF ScanSize
<1> QED BY <1>2, <1>3, <1>4, <1>5 DEF ScanInv

(* What cuts behind i - 1 is what cuts behind i, and i itself.             *)
LEMMA UncutStep ==
  ASSUME NEW l \in Seq(Recs), NEW h, NEW i \in 1 .. Len(l), NEW x
  PROVE  Uncut(l, h, i - 1, x) <=>
           Uncut(l, h, i, x) /\ (Cuts(l, h, i) => x < l[i].size)
<1>1. \A j \in 1 .. Len(l) : j > i - 1 <=> j > i \/ j = i
  BY LogIs
<1> QED BY <1>1 DEF Uncut

(* The newest record of a chunk that is not cut is attached.               *)
LEMMA AttachedAbove ==
  ASSUME NEW l \in Seq(Recs), NEW h, IsHead(l, h), NEW i \in 1 .. Len(l),
         l[i].chunk # 0, Uncut(l, h, i, Base(l[i].chunk)), ~Newest(l, i)
  PROVE  \E j \in i + 1 .. Len(l) : l[j].chunk = l[i].chunk /\ Attached(l, h, j)
<1> DEFINE S == {j \in 1 .. Len(l) : j > i /\ l[j].chunk = l[i].chunk}
<1>1. S \in SUBSET (1 .. Len(l)) /\ S # {} /\ Len(l) \in Nat
  BY LogIs DEF Newest
<1>2. PICK j \in S : \A k \in S : k <= j
  <2> HIDE DEF S
  <2> QED BY <1>1, GreatestIn
<1>3. j \in 1 .. Len(l) /\ j > i /\ l[j].chunk = l[i].chunk
  OBVIOUS
<1>4. Newest(l, j)
  <2> SUFFICES ASSUME NEW k \in 1 .. Len(l), k > j, l[k].chunk = l[j].chunk
               PROVE  FALSE
    BY DEF Newest
  <2>1. k \in S
    BY <1>1, <1>3
  <2> QED BY <1>1, <1>2, <1>3, <2>1
<1>5. Uncut(l, h, j, Base(l[j].chunk))
  BY <1>1, <1>3 DEF Uncut
<1>6. j \in i + 1 .. Len(l)
  BY <1>1, <1>3
<1> QED BY <1>3, <1>4, <1>5, <1>6 DEF Attached

LEMMA ScanDataIs ==
  ASSUME NEW l \in Seq(Recs), NEW h, IsHead(l, h), NEW i \in 1 .. Len(l),
         l[i].chunk # 0, NEW sc, ScanInv(l, h, sc, i)
  PROVE  ScanInv(l, h, ScanData(l, sc, i), i - 1)
<1> DEFINE in == Base(l[i].chunk) < sc.cut
           new == in /\ \A j \in sc.live : l[j].chunk # l[i].chunk
           lv == IF new THEN sc.live \cup {i} ELSE sc.live
           sz == IF in /\ ~sc.valid THEN Larger(sc.size, Base(l[i].chunk) + l[i].n)
                 ELSE sc.size
<1>1. /\ Len(l) \in Nat /\ i \in Nat /\ i - 1 \in Nat /\ h \in 1 .. Len(l)
      /\ l[h].chunk = 0 /\ MaxSize \in Nat /\ h # i
  BY LogIs, Bounds DEF IsHead
<1>2. TypedRec(l[i]) /\ Typed(l)
  BY LogTyped DEF Typed
<1>3. /\ Base(l[i].chunk) \in 0 .. MaxSize
      /\ Base(l[i].chunk) + l[i].n \in 0 .. MaxSize
      /\ l[i].shrink = FALSE
  BY <1>1, <1>2 DEF TypedRec
<1>4. sc \in Scans /\ ScanKnows(l, h, sc, i) /\ ScanSize(l, h, sc, i)
  BY DEF ScanInv
<1>5. PICK t : t = ScanData(l, sc, i)
  OBVIOUS
<1>6. sz \in 0 .. MaxSize /\ lv \in SUBSET Nat
  BY <1>1, <1>3, <1>4 DEF Scans, Larger
<1>7. /\ t \in Scans /\ t.valid = sc.valid /\ t.cut = sc.cut /\ t.keep = sc.keep
      /\ t.live = lv /\ t.size = sz
  <2>1. t = [sc EXCEPT !.live = lv, !.size = sz]
    BY <1>5 DEF ScanData
  <2> HIDE DEF lv, sz
  <2> QED BY <1>4, <1>6, <2>1 DEF Scans
<1> HIDE DEF lv, sz
<1>8. ~Cuts(l, h, i)
  BY <1>1 DEF Cuts
<1>9. in <=> Uncut(l, h, i, Base(l[i].chunk))
  BY <1>3, <1>4 DEF ScanKnows
<1>10. \A j \in sc.live : j \in i + 1 .. Len(l) /\ Attached(l, h, j)
  BY <1>4 DEF ScanKnows, Scans
<1>11. new <=> Attached(l, h, i)
  <2>1. ASSUME new PROVE Newest(l, i)
    <3> SUFFICES ASSUME ~Newest(l, i) PROVE FALSE
      OBVIOUS
    <3>1. PICK j \in i + 1 .. Len(l) : l[j].chunk = l[i].chunk /\ Attached(l, h, j)
      BY <1>9, <2>1, AttachedAbove
    <3>2. j \in Nat /\ j \in sc.live
      BY <1>1, <1>4, <3>1 DEF ScanKnows
    <3> QED BY <2>1, <3>1, <3>2
  <2>2. ASSUME Newest(l, i), in PROVE new
    <3> SUFFICES ASSUME NEW j \in sc.live, l[j].chunk = l[i].chunk PROVE FALSE
      BY <2>2
    <3>1. j \in 1 .. Len(l) /\ j > i
      BY <1>1, <1>10
    <3> QED BY <2>2, <3>1 DEF Newest
  <2> QED BY <1>1, <1>9, <2>1, <2>2 DEF Attached
<1>12. \A j \in Nat : j \in i - 1 + 1 .. Len(l) <=> j = i \/ j \in i + 1 .. Len(l)
  BY <1>1
<1>13. ScanKnows(l, h, t, i - 1)
  <2>1. t.valid = (h > i - 1)
    BY <1>1, <1>4, <1>7 DEF ScanKnows
  <2>2. \A x \in 0 .. MaxSize : x < t.cut <=> Uncut(l, h, i - 1, x)
    <3>1. \A x : Uncut(l, h, i - 1, x) <=> Uncut(l, h, i, x)
      BY <1>8, UncutStep
    <3> QED BY <1>4, <1>7, <3>1 DEF ScanKnows
  <2>3. \A j \in Nat : j \in t.live <=> (j \in i - 1 + 1 .. Len(l) /\ Attached(l, h, j))
    <3>1. \A j \in Nat : j \in t.live <=> j \in sc.live \/ (j = i /\ Attached(l, h, i))
      BY <1>7, <1>11 DEF lv
    <3>2. \A j \in Nat : j \in sc.live <=> (j \in i + 1 .. Len(l) /\ Attached(l, h, j))
      BY <1>4 DEF ScanKnows
    <3> QED BY <1>12, <3>1, <3>2
  <2>4. \A j \in Nat : j \in t.keep <=> (j \in i - 1 + 1 .. Len(l) /\ l[j].shrink)
    BY <1>3, <1>4, <1>7, <1>12 DEF ScanKnows
  <2> QED BY <2>1, <2>2, <2>3, <2>4 DEF ScanKnows
<1>14. i > h => sz = Larger(sc.size, Base(l[i].chunk) + l[i].n)
  <2> SUFFICES ASSUME i > h PROVE in /\ ~sc.valid
    BY Zenon DEF sz
  <2>1. ~sc.valid
    <3>1. sc.valid = (h > i) /\ ~(h > i)
      BY <1>1, <1>4 DEF ScanKnows
    <3> QED BY <3>1
  <2>2. Uncut(l, h, i, Base(l[i].chunk))
    <3>1. \A j \in 1 .. Len(l) : l[j].chunk = 0 => j <= h
      BY OneHead
    <3> QED BY <1>1, <3>1 DEF Uncut, Cuts
  <2> QED BY <1>9, <2>1, <2>2
<1>15. ~(i > h) => sz = sc.size
  <2> SUFFICES ASSUME ~(i > h) PROVE sc.valid
    BY Zenon DEF sz
  <2>1. sc.valid = (h > i) /\ h > i
    BY <1>1, <1>4 DEF ScanKnows
  <2> QED BY <2>1
<1>16. sc.size \in Nat /\ sc.size <= sz /\ sz \in Nat
       /\ (i > h => Base(l[i].chunk) + l[i].n <= sz)
  BY <1>1, <1>3, <1>4, <1>14, <1>15 DEF Scans, Larger
<1>17. sz = sc.size \/ (i > h /\ sz = Base(l[i].chunk) + l[i].n)
  BY <1>14, <1>15 DEF Larger
<1>18. ScanSize(l, h, t, i - 1)
  <2>1. ASSUME NEW j \in i - 1 + 1 .. Len(l), l[j].chunk # 0, j > h
        PROVE  Base(l[j].chunk) + l[j].n <= sz
    <3>1. CASE j = i
      BY <1>16, <2>1, <3>1
    <3>2. CASE j # i
      <4>1. j \in i + 1 .. Len(l)
        BY <1>1, <3>2
      <4>2. Base(l[j].chunk) + l[j].n <= sc.size
        BY <1>4, <2>1, <4>1 DEF ScanSize
      <4>3. Base(l[j].chunk) \in Nat /\ l[j].n \in Nat
        BY <1>1, <1>2, <2>1, <4>1 DEF Typed, TypedRec
      <4> QED BY <1>16, <4>2, <4>3
    <3> QED BY <3>1, <3>2
  <2>2. h > i - 1 => l[h].size <= sz
    <3>1. h > i - 1 => h > i
      BY <1>1
    <3>2. l[h].size \in Nat
      BY <1>1, <1>2 DEF Typed, TypedRec
    <3> QED BY <1>4, <1>16, <3>1, <3>2 DEF ScanSize
  <2>3. \/ sz = 0
        \/ h > i - 1 /\ sz = l[h].size
        \/ \E j \in i - 1 + 1 .. Len(l) :
             j > h /\ l[j].chunk # 0 /\ sz = Base(l[j].chunk) + l[j].n
    <3>1. CASE i > h /\ sz = Base(l[i].chunk) + l[i].n
      <4>1. i \in i - 1 + 1 .. Len(l)
        BY <1>1
      <4> QED BY <3>1, <4>1
    <3>2. CASE sz = sc.size
      <4>1. i + 1 .. Len(l) \subseteq i - 1 + 1 .. Len(l) /\ (h > i => h > i - 1)
        BY <1>1
      <4> QED BY <1>4, <3>2, <4>1 DEF ScanSize
    <3> QED BY <1>17, <3>1, <3>2
  <2> QED BY <1>7, <2>1, <2>2, <2>3 DEF ScanSize
<1> QED BY <1>5, <1>7, <1>13, <1>18 DEF ScanInv

LEMMA ScanHdrIs ==
  ASSUME NEW l \in Seq(Recs), NEW h, IsHead(l, h), NEW i \in 1 .. Len(l),
         l[i].chunk = 0, NEW sc, ScanInv(l, h, sc, i)
  PROVE  ScanInv(l, h, ScanHdr(l, sc, i), i - 1)
<1>1. /\ Len(l) \in Nat /\ i \in Nat /\ i - 1 \in Nat /\ h \in 1 .. Len(l)
      /\ l[h].chunk = 0 /\ MaxSize \in Nat
  BY LogIs, Bounds DEF IsHead
<1>2. TypedRec(l[i]) /\ i <= h
  BY LogTyped, OneHead DEF Typed
<1>3. l[i].size \in 0 .. MaxSize /\ l[i].shrink \in BOOLEAN
  BY <1>1, <1>2 DEF TypedRec
<1>4. sc \in Scans /\ ScanKnows(l, h, sc, i) /\ ScanSize(l, h, sc, i)
  BY DEF ScanInv
<1>5. sc.valid = (i # h)
  BY <1>1, <1>2, <1>4 DEF ScanKnows
<1> DEFINE ct == IF i = h \/ l[i].shrink THEN Smaller(sc.cut, l[i].size) ELSE sc.cut
           kp == IF l[i].shrink THEN sc.keep \cup {i} ELSE sc.keep
           lv == IF i = h THEN sc.live \cup {i} ELSE sc.live
           sz == IF i = h THEN Larger(sc.size, l[i].size) ELSE sc.size
<1>6. PICK t : t = ScanHdr(l, sc, i)
  OBVIOUS
<1>7. /\ ct \in Int /\ kp \in SUBSET Nat /\ lv \in SUBSET Nat /\ sz \in 0 .. MaxSize
  BY <1>1, <1>3, <1>4 DEF Scans, Smaller, Larger
<1>8. /\ t \in Scans /\ t.valid = TRUE /\ t.cut = ct /\ t.keep = kp
      /\ t.live = lv /\ t.size = sz
  <2>1. CASE i = h
    <3>1. t = [valid |-> TRUE, cut |-> ct, size |-> sz, live |-> lv, keep |-> kp]
      BY <1>5, <1>6, <2>1 DEF ScanHdr
    <3> HIDE DEF ct, kp, lv, sz
    <3> QED BY <1>7, <3>1 DEF Scans
  <2>2. CASE i # h
    <3>1. t = [sc EXCEPT !.cut = ct, !.keep = kp]
      BY <1>5, <1>6, <2>2 DEF ScanHdr, OldHdrCuts
    <3>2. lv = sc.live /\ sz = sc.size
      BY <2>2
    <3>3. sc.valid = TRUE
      BY <1>5, <2>2
    <3> HIDE DEF ct, kp, lv, sz
    <3> QED BY <1>4, <1>7, <3>1, <3>2, <3>3 DEF Scans
  <2> QED BY <2>1, <2>2
<1> HIDE DEF ct, kp, lv, sz
<1>9. \A j \in Nat : j \in i - 1 + 1 .. Len(l) <=> j = i \/ j \in i + 1 .. Len(l)
  BY <1>1
<1>10. Attached(l, h, i) <=> i = h
  BY DEF Attached
<1>11. ScanKnows(l, h, t, i - 1)
  <2>1. t.valid = (h > i - 1)
    <3>1. h > i - 1
      BY <1>1, <1>2
    <3> QED BY <1>8, <3>1
  <2>2. ASSUME NEW x \in 0 .. MaxSize
        PROVE  x < t.cut <=> Uncut(l, h, i - 1, x)
    <3>1. Uncut(l, h, i - 1, x) <=> Uncut(l, h, i, x) /\ (Cuts(l, h, i) => x < l[i].size)
      BY UncutStep
    <3>2. x < sc.cut <=> Uncut(l, h, i, x)
      BY <1>4 DEF ScanKnows
    <3>3. Cuts(l, h, i) <=> i = h \/ l[i].shrink
      BY DEF Cuts
    <3>4. sc.cut \in Int /\ x \in Int /\ l[i].size \in Int
      BY <1>3, <1>4 DEF Scans
    <3>5. x < ct <=> x < sc.cut /\ ((i = h \/ l[i].shrink) => x < l[i].size)
      BY <3>4 DEF ct, Smaller
    <3> QED BY <1>8, <3>1, <3>2, <3>3, <3>5
  <2>3. \A j \in Nat : j \in t.live <=> (j \in i - 1 + 1 .. Len(l) /\ Attached(l, h, j))
    <3>1. \A j \in Nat : j \in t.live <=> j \in sc.live \/ (j = i /\ i = h)
      BY <1>8 DEF lv
    <3>2. \A j \in Nat : j \in sc.live <=> (j \in i + 1 .. Len(l) /\ Attached(l, h, j))
      BY <1>4 DEF ScanKnows
    <3> QED BY <1>9, <1>10, <3>1, <3>2
  <2>4. \A j \in Nat : j \in t.keep <=> (j \in i - 1 + 1 .. Len(l) /\ l[j].shrink)
    <3>1. \A j \in Nat : j \in t.keep <=> j \in sc.keep \/ (j = i /\ l[i].shrink)
      BY <1>8 DEF kp
    <3>2. \A j \in Nat : j \in sc.keep <=> (j \in i + 1 .. Len(l) /\ l[j].shrink)
      BY <1>4 DEF ScanKnows
    <3> QED BY <1>9, <3>1, <3>2
  <2> QED BY <2>1, <2>2, <2>3, <2>4 DEF ScanKnows
<1>12. /\ sc.size \in Nat /\ sz \in Nat /\ sc.size <= sz
       /\ (i = h => l[i].size <= sz)
       /\ sz = sc.size \/ (i = h /\ sz = l[i].size)
  BY <1>3, <1>4, <1>7 DEF Scans, Larger, sz
<1>13. ScanSize(l, h, t, i - 1)
  <2>1. ASSUME NEW j \in i - 1 + 1 .. Len(l), l[j].chunk # 0, j > h
        PROVE  Base(l[j].chunk) + l[j].n <= sz
    <3>1. j \in i + 1 .. Len(l) /\ j \in 1 .. Len(l)
      BY <1>1, <2>1
    <3>2. Base(l[j].chunk) + l[j].n <= sc.size
      BY <1>4, <2>1, <3>1 DEF ScanSize
    <3>3. Base(l[j].chunk) \in Nat /\ l[j].n \in Nat
      BY <2>1, <3>1, LogTyped DEF Typed, TypedRec
    <3> QED BY <1>12, <3>2, <3>3
  <2>2. l[h].size <= sz
    <3>1. CASE i = h
      BY <1>12, <3>1
    <3>2. CASE i # h
      <4>1. l[h].size <= sc.size
        BY <1>1, <1>2, <1>4, <3>2 DEF ScanSize
      <4>2. l[h].size \in Nat
        BY <1>1, LogTyped DEF Typed, TypedRec
      <4> QED BY <1>12, <4>1, <4>2
    <3> QED BY <3>1, <3>2
  <2>3. \/ sz = 0
        \/ h > i - 1 /\ sz = l[h].size
        \/ \E j \in i - 1 + 1 .. Len(l) :
             j > h /\ l[j].chunk # 0 /\ sz = Base(l[j].chunk) + l[j].n
    <3>1. i + 1 .. Len(l) \subseteq i - 1 + 1 .. Len(l) /\ h > i - 1
      BY <1>1, <1>2
    <3> QED BY <1>4, <1>12, <3>1 DEF ScanSize
  <2> QED BY <1>8, <2>1, <2>2, <2>3 DEF ScanSize
<1> QED BY <1>6, <1>8, <1>11, <1>13 DEF ScanInv

(* The whole scan.                                                         *)
LEMMA ScanIs ==
  ASSUME NEW l \in Seq(Recs), NEW h, IsHead(l, h)
  PROVE  ScanInv(l, h, Scan(l), 0)
<1> DEFINE f == ScanSteps(l)
           Good(k) == ScanInv(l, h, f[k], Len(l) - k)
           S == {k \in 0 .. Len(l) : ~Good(k)}
<1>1. Len(l) \in Nat
  BY LogIs
<1>2. /\ f[0] = ScanStart
      /\ \A k \in 1 .. Len(l) : f[k] = ScanStep(l, f[k - 1], Len(l) + 1 - k)
  BY ScanStepsAre
<1> HIDE DEF f
<1>3. Good(0)
  <2>1. Len(l) - 0 = Len(l)
    BY <1>1
  <2> QED BY <1>2, <2>1, ScanStarts
<1>4. ASSUME NEW k \in 1 .. Len(l), Good(k - 1)
      PROVE  Good(k)
  <2>1. PICK i \in 1 .. Len(l) : i = Len(l) + 1 - k
    BY <1>1
  <2>2. Len(l) - (k - 1) = i /\ Len(l) - k = i - 1
    BY <1>1, <2>1
  <2>3. ScanInv(l, h, f[k - 1], i)
    BY <1>4, <2>2
  <2>4. f[k] = ScanStep(l, f[k - 1], i)
    BY <1>2, <2>1
  <2>5. ScanInv(l, h, f[k], i - 1)
    BY <2>3, <2>4, ScanHdrIs, ScanDataIs DEF ScanStep
  <2> QED BY <2>2, <2>5
<1>5. S = {}
  <2> SUFFICES ASSUME S # {} PROVE FALSE
    OBVIOUS
  <2>1. S \in SUBSET Nat
    BY <1>1
  <2>2. PICK k \in S : \A j \in S : k <= j
    <3> HIDE DEF S
    <3> QED BY <2>1, LeastNatural
  <2>3. k \in 0 .. Len(l) /\ ~Good(k) /\ k # 0
    <3>1. k \in 0 .. Len(l) /\ ~Good(k)
      OBVIOUS
    <3> HIDE DEF Good
    <3> QED BY <1>3, <3>1
  <2>4. k \in 1 .. Len(l) /\ k - 1 \in 0 .. Len(l) /\ ~(k <= k - 1)
    BY <1>1, <2>3
  <2>5. ~Good(k - 1)
    BY <1>4, <2>3, <2>4
  <2>6. k - 1 \in S
    BY <2>4, <2>5
  <2> QED BY <2>2, <2>4, <2>6
<1>6. Good(Len(l))
  <2>1. Len(l) \in 0 .. Len(l)
    BY <1>1
  <2> HIDE DEF Good
  <2> QED BY <1>5, <2>1
<1>7. Len(l) - Len(l) = 0
  BY <1>1
<1> QED BY <1>6, <1>7 DEF f, Scan

LEMMA AttachedIs ==
  ASSUME NEW l \in Seq(Recs), NEW h, IsHead(l, h), NEW i \in 1 .. Len(l),
         l[i].chunk # 0
  PROVE  Attached(l, h, i) <=>
           /\ Newest(l, i) /\ ~ShrinkCut(l, i)
           /\ i < h => Base(l[i].chunk) < l[h].size
<1>1. h \in 1 .. Len(l) /\ l[h].chunk = 0 /\ Len(l) \in Nat /\ i # h
  BY LogIs DEF IsHead
<1>2. Base(l[i].chunk) \in Nat
  BY LogTyped DEF Typed, TypedRec
<1>3. \A j \in 1 .. Len(l) : l[j].chunk = 0 => l[j].size \in Nat
  BY LogTyped DEF Typed, TypedRec
<1>4. ASSUME Uncut(l, h, i, Base(l[i].chunk))
      PROVE  ~ShrinkCut(l, i) /\ (i < h => Base(l[i].chunk) < l[h].size)
  <2>1. ~ShrinkCut(l, i)
    <3> SUFFICES ASSUME NEW j \in 1 .. Len(l), j > i, l[j].chunk = 0, l[j].shrink,
                        l[j].size <= Base(l[i].chunk)
                 PROVE  FALSE
      BY DEF ShrinkCut
    <3>1. Base(l[i].chunk) < l[j].size
      BY <1>4 DEF Uncut, Cuts
    <3> QED BY <1>2, <1>3, <3>1
  <2>2. i < h => Base(l[i].chunk) < l[h].size
    BY <1>1, <1>4 DEF Uncut, Cuts
  <2> QED BY <2>1, <2>2
<1>5. ASSUME ~ShrinkCut(l, i), i < h => Base(l[i].chunk) < l[h].size
      PROVE  Uncut(l, h, i, Base(l[i].chunk))
  <2> SUFFICES ASSUME NEW j \in 1 .. Len(l), j > i, Cuts(l, h, j)
               PROVE  Base(l[i].chunk) < l[j].size
    BY DEF Uncut
  <2>1. CASE j = h
    BY <1>1, <1>5, <2>1
  <2>2. CASE j # h
    <3>1. l[j].chunk = 0 /\ l[j].shrink
      BY <2>2 DEF Cuts
    <3>2. ~(l[j].size <= Base(l[i].chunk))
      BY <1>5, <3>1 DEF ShrinkCut
    <3> QED BY <1>2, <1>3, <3>1, <3>2
  <2> QED BY <2>1, <2>2
<1> QED BY <1>1, <1>4, <1>5 DEF Attached

(* A mount finds a size, and a log that goes with it.                      *)
LEMMA MountLog ==
  ASSUME NEW l, OnFlash(l)
  PROVE  /\ Scan(l).size \in 0 .. MaxSize
         /\ InRam(Marked(l, Scan(l).live, Scan(l).keep), Scan(l).size, MaxSize)
<1>1. PICK h \in 1 .. Len(l) : l \in Seq(Recs) /\ IsHead(l, h) /\ FlashOK(l, h)
  BY DEF OnFlash
<1>2. PICK sc : sc = Scan(l)
  OBVIOUS
<1>3. sc \in Scans /\ ScanKnows(l, h, sc, 0) /\ ScanSize(l, h, sc, 0)
  BY <1>1, <1>2, ScanIs DEF ScanInv
<1>4. PICK m : m = Marked(l, sc.live, sc.keep)
  OBVIOUS
<1>5. /\ m \in Seq(Recs) /\ Len(m) = Len(l)
      /\ \A i \in 1 .. Len(l) :
           /\ SameChunk(m[i], l[i]) /\ m[i].live = (i \in sc.live)
           /\ m[i].keep = (i \in sc.keep)
  BY <1>1, <1>4, MarkedIs
<1>6. SameLog(l, m)
  BY <1>1, <1>4, MarkedSame
<1>7. Typed(l) /\ Typed(m) /\ Len(l) \in Nat /\ MaxSize \in Nat
  BY <1>1, <1>5, LogTyped, LogIs, Bounds
<1>8. \A i \in 1 .. Len(l) :
        /\ m[i].chunk = l[i].chunk /\ m[i].n = l[i].n
        /\ m[i].size = l[i].size /\ m[i].shrink = l[i].shrink
        /\ Newest(m, i) <=> Newest(l, i)
        /\ ShrinkCut(m, i) <=> ShrinkCut(l, i)
  BY <1>5, <1>6, SameLogs DEF SameChunk
<1>9. IsHead(m, h) /\ FlashOK(m, h) /\ h \in 1 .. Len(m)
  BY <1>1, <1>5, <1>6, SameLogs
<1>10. \A i \in 1 .. Len(l) : i \in Nat /\ i \in 0 + 1 .. Len(l)
  BY <1>7
<1>11. \A i \in 1 .. Len(l) : m[i].live <=> Attached(l, h, i)
  <2> SUFFICES ASSUME NEW i \in 1 .. Len(l) PROVE m[i].live <=> Attached(l, h, i)
    OBVIOUS
  <2>1. i \in sc.live <=> Attached(l, h, i)
    BY <1>3, <1>10 DEF ScanKnows
  <2> QED BY <1>5, <2>1
<1>12. \A i \in 1 .. Len(l) : m[i].keep = m[i].shrink
  <2> SUFFICES ASSUME NEW i \in 1 .. Len(l) PROVE m[i].keep = m[i].shrink
    OBVIOUS
  <2>1. i \in sc.keep <=> l[i].shrink
    BY <1>3, <1>10 DEF ScanKnows
  <2>2. l[i].shrink \in BOOLEAN
    BY <1>7 DEF Typed, TypedRec
  <2> QED BY <1>5, <1>8, <2>1, <2>2
<1>13. \A i \in 1 .. Len(l) :
         l[i].chunk # 0 =>
           (m[i].live <=> /\ Newest(l, i) /\ ~ShrinkCut(l, i)
                          /\ i < h => Base(l[i].chunk) < l[h].size)
  BY <1>1, <1>11, AttachedIs
<1>14. MarksOK(m, h)
  <2>1. m[h].live
    BY <1>1, <1>11 DEF Attached
  <2>2. \A i \in 1 .. Len(l) : m[i].live => Newest(m, i)
    BY <1>1, <1>8, <1>11 DEF Attached, IsHead
  <2> QED BY <1>5, <1>12, <2>1, <2>2 DEF MarksOK
<1>15. \A i \in 1 .. Len(l) :
         l[i].chunk # 0 =>
           /\ Base(l[i].chunk) \in Nat /\ l[i].n \in Nat /\ l[i].n >= 1
           /\ Base(l[i].chunk) < MaxSize /\ l[i].chunk \in Nat
           /\ l[i].n \in 1 .. ChunkBytes /\ ChunkBytes \in Nat
  <2> SUFFICES ASSUME NEW i \in 1 .. Len(l), l[i].chunk # 0
               PROVE  /\ Base(l[i].chunk) \in Nat /\ l[i].n \in Nat /\ l[i].n >= 1
                      /\ Base(l[i].chunk) < MaxSize /\ l[i].chunk \in Nat
                      /\ l[i].n \in 1 .. ChunkBytes /\ ChunkBytes \in Nat
    OBVIOUS
  <2> QED BY <1>7, Bounds DEF Typed, TypedRec
<1>16. /\ l[h].size \in Nat /\ l[h].size <= sc.size /\ sc.size \in Nat
       /\ sc.size \in 0 .. MaxSize
  <2>1. h > 0
    BY <1>7
  <2>2. l[h].size \in Nat
    BY <1>1, <1>7 DEF Typed, TypedRec, IsHead
  <2>3. sc.size \in 0 .. MaxSize
    BY <1>3 DEF Scans
  <2> QED BY <1>3, <2>1, <2>2, <2>3 DEF ScanSize
<1>17. LiveOK(m, sc.size, MaxSize)
  <2> SUFFICES ASSUME NEW i \in 1 .. Len(l), l[i].chunk # 0, m[i].live
               PROVE  ~ShrinkCut(l, i) /\ Base(l[i].chunk) + l[i].n <= sc.size
    BY <1>5, <1>8, <1>15 DEF LiveOK
  <2>1. /\ Newest(l, i) /\ ~ShrinkCut(l, i)
        /\ i < h => Base(l[i].chunk) < l[h].size
    BY <1>13
  <2>2. CASE i < h
    <3>1. Beside(l[h].size, l[i].chunk, l[i].n)
      BY <1>1, <2>1, <2>2 DEF FlashOK
    <3> QED BY <1>15, <1>16, <2>1, <2>2, <3>1 DEF Beside
  <2>3. CASE ~(i < h)
    <3>1. i > h
      BY <1>1, <1>7, <2>3 DEF IsHead
    <3> QED BY <1>3, <1>10, <2>1, <3>1 DEF ScanSize
  <2> QED BY <2>2, <2>3
<1>18. DeadOK(m, h, sc.size, MaxSize)
  <2> SUFFICES ASSUME NEW i \in 1 .. Len(l), l[i].chunk # 0, ~m[i].live, Newest(l, i)
               PROVE  /\ Clear(sc.size, l[i].chunk)
                      /\ i < h /\ Clear(l[h].size, l[i].chunk)
    BY <1>5, <1>8 DEF DeadOK, Ended
  <2>1. ShrinkCut(l, i) \/ (i < h /\ ~(Base(l[i].chunk) < l[h].size))
    BY <1>13
  <2>2. i < h
    <3> SUFFICES ASSUME ShrinkCut(l, i) PROVE i < h
      BY <2>1
    <3>1. PICK j \in 1 .. Len(l) : j > i /\ l[j].chunk = 0
      BY DEF ShrinkCut
    <3>2. j <= h
      BY <1>1, <3>1, OneHead
    <3> QED BY <1>7, <3>1, <3>2
  <2>3. Clear(l[h].size, l[i].chunk)
    <3>1. CASE ShrinkCut(l, i)
      BY <1>1, <2>2, <3>1 DEF FlashOK, Clear
    <3>2. CASE ~(Base(l[i].chunk) < l[h].size)
      BY <1>15, <1>16, <3>2 DEF Clear, Beside
    <3> QED BY <2>1, <3>1, <3>2
  <2>4. \/ sc.size = 0
        \/ sc.size = l[h].size
        \/ \E j \in 0 + 1 .. Len(l) :
             j > h /\ l[j].chunk # 0 /\ sc.size = Base(l[j].chunk) + l[j].n
    BY <1>3 DEF ScanSize
  <2>5. CASE sc.size = l[h].size
    BY <2>2, <2>3, <2>5
  <2>6. CASE sc.size = 0
    <3>1. sc.size = l[h].size
      BY <1>16, <2>6
    <3> QED BY <2>5, <3>1
  <2>7. CASE \E j \in 0 + 1 .. Len(l) :
               j > h /\ l[j].chunk # 0 /\ sc.size = Base(l[j].chunk) + l[j].n
    <3>1. PICK j \in 1 .. Len(l) :
            j > h /\ l[j].chunk # 0 /\ sc.size = Base(l[j].chunk) + l[j].n
      BY <2>7
    <3>2. l[j].chunk # l[i].chunk
      <4>1. j > i
        BY <1>7, <2>2, <3>1
      <4> QED BY <4>1 DEF Newest
    <3>3. Clear(Base(l[j].chunk) + l[j].n, l[i].chunk)
      BY <1>15, <1>16, <2>3, <3>1, <3>2, Apart, SMTT(30)
    <3> QED BY <2>2, <2>3, <3>1, <3>3
  <2> QED BY <2>4, <2>5, <2>6, <2>7
<1>19. InRam(m, sc.size, MaxSize)
  BY <1>9, <1>14, <1>17, <1>18 DEF InRam
<1> QED BY <1>2, <1>4, <1>16, <1>19

-----------------------------------------------------------------------------
(* What the tree reads.                                                    *)

(* What the chunks of a log hold.                                          *)

OneLive(l) ==
  \A i, j \in 1 .. Len(l) :
    l[i].live /\ l[j].live /\ l[i].chunk = l[j].chunk => i = j

LEMMA RamOneLive ==
  ASSUME NEW l \in Seq(Recs), NEW st, NEW P, InRam(l, st, P)
  PROVE  OneLive(l)
<1>1. \A i \in 1 .. Len(l) : l[i].live => Newest(l, i)
  BY DEF InRam, MarksOK
<1>2. SUFFICES ASSUME NEW i \in 1 .. Len(l), NEW j \in 1 .. Len(l),
                      l[i].live, l[j].live, l[i].chunk = l[j].chunk
               PROVE  i = j
  BY DEF OneLive
<1>3. ~(i > j) /\ ~(j > i)
  BY <1>1, <1>2 DEF Newest
<1> QED BY <1>3, LogIs

LEMMA RdLive ==
  ASSUME NEW l \in Seq(Recs), OneLive(l), NEW i \in 1 .. Len(l), l[i].live
  PROVE  RdDataObj(l, l[i].chunk) = l[i].data
<1> DEFINE here == {j \in DOMAIN l : l[j].live /\ l[j].chunk = l[i].chunk}
<1>1. here = {i}
  BY LogIs DEF OneLive
<1>2. (CHOOSE j \in here : TRUE) = i
  BY <1>1
<1> QED BY <1>1, <1>2 DEF RdDataObj

LEMMA RdNone ==
  ASSUME NEW l \in Seq(Recs), NEW k,
         \A i \in 1 .. Len(l) : l[i].live => l[i].chunk # k
  PROVE  RdDataObj(l, k) = Zeros(ChunkBytes)
<1>1. {j \in DOMAIN l : l[j].live /\ l[j].chunk = k} = {}
  BY LogIs
<1> QED BY <1>1 DEF RdDataObj

(* l and m have the same live chunks with number k.                        *)
LEMMA RdSame ==
  ASSUME NEW l \in Seq(Recs), NEW m \in Seq(Recs), OneLive(l), OneLive(m), NEW k,
         \A i \in 1 .. Len(l) : l[i].live /\ l[i].chunk = k =>
           \E j \in 1 .. Len(m) : m[j].live /\ m[j].chunk = k /\ m[j].data = l[i].data,
         \A j \in 1 .. Len(m) : m[j].live /\ m[j].chunk = k =>
           \E i \in 1 .. Len(l) : l[i].live /\ l[i].chunk = k
  PROVE  RdDataObj(m, k) = RdDataObj(l, k)
<1>1. CASE \E i \in 1 .. Len(l) : l[i].live /\ l[i].chunk = k
  <2>1. PICK i \in 1 .. Len(l) : l[i].live /\ l[i].chunk = k
    BY <1>1
  <2>2. PICK j \in 1 .. Len(m) : m[j].live /\ m[j].chunk = k /\ m[j].data = l[i].data
    BY <2>1
  <2>3. RdDataObj(l, k) = l[i].data
    BY <2>1, RdLive
  <2>4. RdDataObj(m, k) = m[j].data
    BY <2>2, RdLive
  <2> QED BY <2>2, <2>3, <2>4
<1>2. CASE ~ \E i \in 1 .. Len(l) : l[i].live /\ l[i].chunk = k
  <2>1. RdDataObj(l, k) = Zeros(ChunkBytes)
    BY <1>2, RdNone
  <2>2. RdDataObj(m, k) = Zeros(ChunkBytes)
    BY <1>2, RdNone
  <2> QED BY <2>1, <2>2
<1> QED BY <1>1, <1>2

LEMMA ProgramOneLive ==
  ASSUME NEW l \in Seq(Recs), OneLive(l), NEW c \in Recs, NEW m, Programmed(l, c, m)
  PROVE  OneLive(m)
<1>1. /\ Len(l) \in Nat /\ Len(m) = Len(l) + 1 /\ m[Len(l) + 1] = c
      /\ \A i \in 1 .. Len(l) : m[i].chunk = l[i].chunk
      /\ \A i \in 1 .. Len(l) : m[i].live = (l[i].live /\ l[i].chunk # c.chunk)
  BY DEF Programmed
<1>2. \A i \in 1 .. Len(l) : m[i].live => l[i].live /\ l[i].chunk # c.chunk
  BY <1>1
<1>3. \A i \in 1 .. Len(m) : i \in 1 .. Len(l) \/ i = Len(l) + 1
  <2>1. Len(l) \in Nat /\ Len(m) = Len(l) + 1
    BY <1>1
  <2> QED BY <2>1
<1>4. SUFFICES ASSUME NEW i \in 1 .. Len(m), NEW j \in 1 .. Len(m),
                      m[i].live, m[j].live, m[i].chunk = m[j].chunk
               PROVE  i = j
  BY DEF OneLive
<1>5. CASE i \in 1 .. Len(l) /\ j \in 1 .. Len(l)
  BY <1>1, <1>2, <1>4, <1>5 DEF OneLive
<1>6. CASE i \in 1 .. Len(l) /\ j = Len(l) + 1
  BY <1>1, <1>2, <1>4, <1>6
<1>7. CASE i = Len(l) + 1 /\ j \in 1 .. Len(l)
  BY <1>1, <1>2, <1>4, <1>7
<1> QED BY <1>3, <1>5, <1>6, <1>7

LEMMA RdProgram ==
  ASSUME NEW l \in Seq(Recs), OneLive(l), NEW c \in Recs, c.live = TRUE
  PROVE  /\ RdDataObj(Program(l, c), c.chunk) = c.data
         /\ \A k : k # c.chunk => RdDataObj(Program(l, c), k) = RdDataObj(l, k)
<1>1. PICK m : m = Program(l, c)
  OBVIOUS
<1>2. Programmed(l, c, m)
  BY <1>1, ProgramIs
<1>3. /\ m \in Seq(Recs) /\ Len(l) \in Nat /\ Len(m) = Len(l) + 1 /\ m[Len(l) + 1] = c
      /\ \A i \in 1 .. Len(l) : m[i].chunk = l[i].chunk /\ m[i].data = l[i].data
      /\ \A i \in 1 .. Len(l) : m[i].live = (l[i].live /\ l[i].chunk # c.chunk)
  BY <1>2 DEF Programmed
<1>4. OneLive(m)
  BY <1>2, ProgramOneLive
<1>5. Len(l) + 1 \in 1 .. Len(m) /\ 1 .. Len(l) \subseteq 1 .. Len(m)
      /\ \A i \in 1 .. Len(m) : i \in 1 .. Len(l) \/ i = Len(l) + 1
  BY <1>3
<1>6. RdDataObj(m, c.chunk) = c.data
  <2>1. m[Len(l) + 1].live
    BY <1>3
  <2>2. RdDataObj(m, m[Len(l) + 1].chunk) = m[Len(l) + 1].data
    BY <1>3, <1>4, <1>5, <2>1, RdLive
  <2> QED BY <1>3, <2>2
<1>7. ASSUME NEW k, k # c.chunk
      PROVE  RdDataObj(m, k) = RdDataObj(l, k)
  <2>1. \A i \in 1 .. Len(l) : l[i].live /\ l[i].chunk = k =>
          /\ i \in 1 .. Len(m)
          /\ m[i].live /\ m[i].chunk = k /\ m[i].data = l[i].data
    BY <1>3, <1>5, <1>7
  <2>2. \A j \in 1 .. Len(m) : m[j].live /\ m[j].chunk = k =>
          \E i \in 1 .. Len(l) : l[i].live /\ l[i].chunk = k
    <3> SUFFICES ASSUME NEW j \in 1 .. Len(m), m[j].live, m[j].chunk = k
                 PROVE  \E i \in 1 .. Len(l) : l[i].live /\ l[i].chunk = k
      OBVIOUS
    <3>1. j \in 1 .. Len(l)
      BY <1>3, <1>5, <1>7
    <3>2. l[j].live /\ l[j].chunk = k
      <4>1. m[j].live = (l[j].live /\ l[j].chunk # c.chunk)
        BY <1>3, <3>1
      <4> QED BY <1>3, <3>1, <4>1
    <3> QED BY <3>1, <3>2
  <2>3. \A i \in 1 .. Len(l) : l[i].live /\ l[i].chunk = k =>
          \E j \in 1 .. Len(m) : m[j].live /\ m[j].chunk = k /\ m[j].data = l[i].data
    BY <2>1
  <2> QED BY <1>3, <1>4, <2>2, <2>3, RdSame
<1> QED BY <1>1, <1>6, <1>7

LEMMA RdDrop ==
  ASSUME NEW l \in Seq(Recs), OneLive(l), NEW ks, NEW k
  PROVE  RdDataObj(Drop(l, ks), k) =
           IF k \in ks THEN Zeros(ChunkBytes) ELSE RdDataObj(l, k)
<1>1. PICK m : m = Drop(l, ks)
  OBVIOUS
<1>2. /\ m \in Seq(Recs) /\ Len(m) = Len(l)
      /\ \A i \in 1 .. Len(l) : SameChunk(m[i], l[i])
      /\ \A i \in 1 .. Len(l) : m[i].live = (l[i].live /\ l[i].chunk \notin ks)
  BY <1>1, DropIs
<1>3. \A i \in 1 .. Len(l) : m[i].chunk = l[i].chunk /\ m[i].data = l[i].data
  BY <1>2 DEF SameChunk
<1>4. \A i \in 1 .. Len(l) : m[i].live => l[i].live /\ l[i].chunk \notin ks
  BY <1>2
<1>5. OneLive(m)
  BY <1>2, <1>3, <1>4 DEF OneLive
<1>6. CASE k \in ks
  BY <1>1, <1>2, <1>3, <1>4, <1>6, RdNone
<1>7. CASE k \notin ks
  <2>1. \A i \in 1 .. Len(l) : l[i].live /\ l[i].chunk = k =>
          \E j \in 1 .. Len(m) : m[j].live /\ m[j].chunk = k /\ m[j].data = l[i].data
    BY <1>2, <1>3, <1>7
  <2>2. \A j \in 1 .. Len(m) : m[j].live /\ m[j].chunk = k =>
          \E i \in 1 .. Len(l) : l[i].live /\ l[i].chunk = k
    BY <1>2, <1>3, <1>4
  <2>3. RdDataObj(m, k) = RdDataObj(l, k)
    BY <1>2, <1>5, <2>1, <2>2, RdSame
  <2> QED BY <1>1, <1>7, <2>3
<1> QED BY <1>6, <1>7

LEMMA RdErase ==
  ASSUME NEW l \in Seq(Recs), OneLive(l), NEW e \in 1 .. Len(l), ~l[e].live, NEW k
  PROVE  RdDataObj(RemoveAt(l, e), k) = RdDataObj(l, k)
<1>1. PICK m : m = RemoveAt(l, e)
  OBVIOUS
<1> DEFINE old(i) == IF i < e THEN i ELSE i + 1
           now(i) == IF i < e THEN i ELSE i - 1
<1>2. /\ m \in Seq(Recs) /\ Len(l) \in Nat /\ Len(m) = Len(l) - 1
      /\ \A i \in 1 .. Len(m) : m[i] = l[old(i)]
  BY <1>1, EraseIs, LogIs
<1>3. /\ \A i \in 1 .. Len(m) : old(i) \in 1 .. Len(l) /\ now(old(i)) = i
      /\ \A i \in 1 .. Len(l) : i # e => now(i) \in 1 .. Len(m) /\ old(now(i)) = i
  BY <1>2
<1> HIDE DEF old, now
<1>4. OneLive(m)
  <2> SUFFICES ASSUME NEW i \in 1 .. Len(m), NEW j \in 1 .. Len(m),
                      m[i].live, m[j].live, m[i].chunk = m[j].chunk
               PROVE  i = j
    BY DEF OneLive
  <2>1. old(i) = old(j)
    BY <1>2, <1>3, SMTT(30) DEF OneLive
  <2> QED BY <1>3, <2>1
<1>5. \A i \in 1 .. Len(l) : l[i].live /\ l[i].chunk = k =>
        \E j \in 1 .. Len(m) : m[j].live /\ m[j].chunk = k /\ m[j].data = l[i].data
  <2> SUFFICES ASSUME NEW i \in 1 .. Len(l), l[i].live, l[i].chunk = k
               PROVE  \E j \in 1 .. Len(m) :
                        m[j].live /\ m[j].chunk = k /\ m[j].data = l[i].data
    OBVIOUS
  <2>1. now(i) \in 1 .. Len(m) /\ m[now(i)] = l[i]
    BY <1>2, <1>3
  <2> QED BY <2>1
<1>6. \A j \in 1 .. Len(m) : m[j].live /\ m[j].chunk = k =>
        \E i \in 1 .. Len(l) : l[i].live /\ l[i].chunk = k
  BY <1>2, <1>3
<1> QED BY <1>1, <1>2, <1>4, <1>5, <1>6, RdSame

(* A live header has number 0, so what a data chunk number reads is data.  *)
LEMMA RdIsData ==
  ASSUME NEW l \in Seq(Recs), OneLive(l), NEW k \in Nat \ {0}
  PROVE  RdDataObj(l, k) \in ChunkData
<1>1. CASE \E i \in 1 .. Len(l) : l[i].live /\ l[i].chunk = k
  <2>1. PICK i \in 1 .. Len(l) : l[i].live /\ l[i].chunk = k
    BY <1>1
  <2>2. RdDataObj(l, k) = l[i].data
    BY <2>1, RdLive
  <2>3. l[i] \in Recs
    BY LogIs
  <2>4. l[i].chunk # 0
    BY <2>1
  <2> QED BY <2>2, <2>3, <2>4, RecTypes
<1>2. CASE ~ \E i \in 1 .. Len(l) : l[i].live /\ l[i].chunk = k
  <2>1. RdDataObj(l, k) = Zeros(ChunkBytes)
    BY <1>2, RdNone
  <2> QED BY <2>1 DEF Zeros, ChunkData, Byte
<1> QED BY <1>1, <1>2

(* Behind the stored size the chunks read as zeros.                        *)
LEMMA RdBehind ==
  ASSUME NEW l \in Seq(Recs), NEW st \in 0 .. MaxSize, NEW P, InRam(l, st, P),
         NEW k \in Nat \ {0}, NEW q \in 1 .. ChunkBytes, Base(k) + q > st
  PROVE  RdDataObj(l, k)[q] = Zero
<1>1. OneLive(l)
  BY RamOneLive
<1>2. CASE \E i \in 1 .. Len(l) : l[i].live /\ l[i].chunk = k
  <2>1. PICK i \in 1 .. Len(l) : l[i].live /\ l[i].chunk = k
    BY <1>2
  <2>2. RdDataObj(l, k) = l[i].data
    BY <1>1, <2>1, RdLive
  <2>3. l[i] \in Recs /\ l[i].chunk # 0
    BY <2>1, LogIs
  <2>4. ChunkOK(l[i]) /\ l[i].n \in 1 .. ChunkBytes
    BY <2>3, RecTypes
  <2>5. Base(k) + l[i].n <= st
    BY <2>1, <2>3 DEF InRam, LiveOK
  <2>6. Base(k) \in Int /\ st \in Int /\ ChunkBytes \in Nat
    BY BaseIs, Bounds
  <2>7. q \in l[i].n + 1 .. ChunkBytes
    BY <2>4, <2>5, <2>6
  <2> QED BY <2>2, <2>4, <2>7 DEF ChunkOK
<1>3. CASE ~ \E i \in 1 .. Len(l) : l[i].live /\ l[i].chunk = k
  <2>1. RdDataObj(l, k) = Zeros(ChunkBytes)
    BY <1>3, RdNone
  <2> QED BY <2>1 DEF Zeros
<1> QED BY <1>2, <1>3

-----------------------------------------------------------------------------
(* Bytes.                                                                  *)

(* Bytes.                                                                  *)

LEMMA BytesAre ==
  ASSUME NEW w \in Seq(Byte)
  PROVE  /\ Len(w) \in Nat /\ DOMAIN w = 1 .. Len(w)
         /\ \A p \in 1 .. Len(w) : w[p] \in Byte
  BY SeqIs

LEMMA FunctionSeq ==
  ASSUME NEW S, NEW n \in Nat, NEW f \in [1 .. n -> S]
  PROVE  f \in Seq(S) /\ Len(f) = n
  OBVIOUS

LEMMA ZerosAre ==
  ASSUME NEW n \in Nat
  PROVE  /\ Zeros(n) \in Seq(Byte) /\ Len(Zeros(n)) = n
         /\ \A p \in 1 .. n : Zeros(n)[p] = Zero
<1>1. Zeros(n) \in [1 .. n -> Byte]
  BY DEF Zeros, Byte
<1>2. Zeros(n) \in Seq(Byte) /\ Len(Zeros(n)) = n
  BY <1>1, FunctionSeq
<1> QED BY <1>2 DEF Zeros

LEMMA OverlayIs ==
  ASSUME NEW w \in Seq(Byte), NEW off \in Nat, NEW b \in Seq(Byte)
  PROVE  /\ Overlay(w, off, b) \in Seq(Byte)
         /\ Len(Overlay(w, off, b)) = Larger(Len(w), off + Len(b))
         /\ \A p \in Nat \ {0} :
              At(Overlay(w, off, b), p) =
                IF p \in off + 1 .. off + Len(b) THEN b[p - off] ELSE At(w, p)
<1> DEFINE n == Larger(Len(w), off + Len(b))
           f(p) == IF p \in off + 1 .. off + Len(b) THEN b[p - off]
                   ELSE IF p <= Len(w) THEN w[p] ELSE Zero
<1>1. /\ Len(w) \in Nat /\ Len(b) \in Nat
      /\ \A p \in 1 .. Len(w) : w[p] \in Byte
      /\ \A p \in 1 .. Len(b) : b[p] \in Byte
      /\ Zero \in Byte
  BY BytesAre DEF Byte
<1>2. n \in Nat /\ Len(w) <= n /\ off + Len(b) <= n
      /\ (n = Len(w) \/ n = off + Len(b))
  BY <1>1 DEF Larger
<1> HIDE DEF n
<1>3. ASSUME NEW p \in 1 .. n PROVE f(p) \in Byte
  <2>1. CASE p \in off + 1 .. off + Len(b)
    <3>1. p - off \in 1 .. Len(b)
      BY <1>1, <2>1
    <3> QED BY <1>1, <2>1, <3>1
  <2>2. CASE p \notin off + 1 .. off + Len(b)
    BY <1>1, <1>2, <2>2
  <2> QED BY <2>1, <2>2
<1>4. PICK v : v = Overlay(w, off, b)
  OBVIOUS
<1>5. v = [p \in 1 .. n |-> f(p)]
  BY <1>4 DEF Overlay, n
<1> HIDE DEF f
<1>6. v \in [1 .. n -> Byte]
  BY <1>3, <1>5
<1>7. v \in Seq(Byte) /\ Len(v) = n
  BY <1>2, <1>6, FunctionSeq
<1>8. ASSUME NEW p \in Nat \ {0}
      PROVE  At(v, p) = IF p \in off + 1 .. off + Len(b) THEN b[p - off] ELSE At(w, p)
  <2>1. CASE p <= n
    <3>1. At(v, p) = v[p]
      BY <1>7, <2>1 DEF At
    <3>2. p \in 1 .. n
      BY <1>2, <2>1
    <3>3. v[p] = f(p)
      BY <1>5, <3>2
    <3> QED BY <3>1, <3>3 DEF f, At
  <2>2. CASE ~(p <= n)
    <3>1. At(v, p) = Zero
      BY <1>7, <2>2 DEF At
    <3>2. ~(p <= Len(w)) /\ p \notin off + 1 .. off + Len(b)
      BY <1>1, <1>2, <2>2
    <3> QED BY <3>1, <3>2 DEF At
  <2> QED BY <2>1, <2>2
<1> QED BY <1>4, <1>7, <1>8 DEF n

LEMMA ChunkDataIs ==
  ASSUME NEW d \in ChunkData
  PROVE  /\ d \in Seq(Byte) /\ Len(d) = ChunkBytes
         /\ \A q \in 1 .. ChunkBytes : At(d, q) = d[q]
<1>1. d \in Seq(Byte) /\ Len(d) = ChunkBytes
  BY FunctionSeq, Bounds DEF ChunkData
<1> QED BY <1>1, Bounds DEF At

LEMMA OverlayChunk ==
  ASSUME NEW d \in ChunkData, NEW s \in Nat, NEW b \in Seq(Byte),
         s + Len(b) <= ChunkBytes
  PROVE  /\ Overlay(d, s, b) \in ChunkData
         /\ \A q \in 1 .. ChunkBytes :
              Overlay(d, s, b)[q] =
                IF q \in s + 1 .. s + Len(b) THEN b[q - s] ELSE d[q]
<1>1. PICK v : v = Overlay(d, s, b)
  OBVIOUS
<1>2. d \in Seq(Byte) /\ Len(d) = ChunkBytes /\ ChunkBytes \in Nat /\ Len(b) \in Nat
      /\ \A q \in 1 .. ChunkBytes : At(d, q) = d[q]
  BY ChunkDataIs, Bounds, BytesAre
<1>3. /\ v \in Seq(Byte) /\ Len(v) = Larger(Len(d), s + Len(b))
      /\ \A p \in Nat \ {0} :
           At(v, p) = IF p \in s + 1 .. s + Len(b) THEN b[p - s] ELSE At(d, p)
  <2>1. /\ Overlay(d, s, b) \in Seq(Byte)
        /\ Len(Overlay(d, s, b)) = Larger(Len(d), s + Len(b))
        /\ \A p \in Nat \ {0} :
             At(Overlay(d, s, b), p) =
               IF p \in s + 1 .. s + Len(b) THEN b[p - s] ELSE At(d, p)
    BY <1>2, OverlayIs
  <2> QED BY <1>1, <2>1
<1>4. Len(v) = ChunkBytes
  BY <1>2, <1>3 DEF Larger
<1>5. v \in ChunkData
  BY <1>2, <1>3, <1>4 DEF ChunkData
<1>6. \A q \in 1 .. ChunkBytes :
        v[q] = IF q \in s + 1 .. s + Len(b) THEN b[q - s] ELSE d[q]
  <2> SUFFICES ASSUME NEW q \in 1 .. ChunkBytes
               PROVE  v[q] = IF q \in s + 1 .. s + Len(b) THEN b[q - s] ELSE d[q]
    OBVIOUS
  <2>1. At(v, q) = v[q] /\ At(d, q) = d[q]
    BY <1>2, <1>4 DEF At
  <2>2. q \in Nat \ {0}
    BY <1>2
  <2> QED BY <1>3, <2>1, <2>2
<1> QED BY <1>1, <1>5, <1>6

LEMMA ChunkAtIs ==
  ASSUME NEW w \in Seq(Byte), NEW k \in Nat \ {0}
  PROVE  /\ ChunkAt(w, k) \in ChunkData
         /\ \A q \in 1 .. ChunkBytes :
              /\ ChunkAt(w, k)[q] = At(w, Base(k) + q)
              /\ Base(k) + q \in Nat \ {0}
<1>1. Base(k) \in Int /\ Base(k) >= 0 /\ ChunkBytes \in Nat
  <2>1. k \in Int /\ k >= 1
    OBVIOUS
  <2> QED BY <2>1, BaseIs, Bounds
<1>2. \A q \in 1 .. ChunkBytes : Base(k) + q \in Nat \ {0}
  BY <1>1
<1>3. \A p \in Nat \ {0} : At(w, p) \in Byte
  BY BytesAre DEF At, Byte
<1>4. \A q \in 1 .. ChunkBytes : At(w, Base(k) + q) \in Byte
  BY <1>2, <1>3
<1>5. ChunkAt(w, k) \in ChunkData
  BY <1>4 DEF ChunkAt, ChunkData
<1> QED BY <1>2, <1>5 DEF ChunkAt

LEMMA ChunkDataEqual ==
  ASSUME NEW d \in ChunkData, NEW e \in ChunkData,
         \A q \in 1 .. ChunkBytes : d[q] = e[q]
  PROVE  d = e
<1>1. /\ d = [q \in 1 .. ChunkBytes |-> d[q]]
      /\ e = [q \in 1 .. ChunkBytes |-> e[q]]
  BY DEF ChunkData
<1> QED BY <1>1

LEMMA ChunkAtSame ==
  ASSUME NEW v \in Seq(Byte), NEW w \in Seq(Byte),
         \A p \in Nat \ {0} : At(v, p) = At(w, p)
  PROVE  \A k \in Nat \ {0} : ChunkAt(v, k) = ChunkAt(w, k)
<1> SUFFICES ASSUME NEW k \in Nat \ {0} PROVE ChunkAt(v, k) = ChunkAt(w, k)
  OBVIOUS
<1>1. ASSUME NEW q \in 1 .. ChunkBytes
      PROVE  ChunkAt(v, k)[q] = ChunkAt(w, k)[q]
  <2>1. /\ ChunkAt(v, k)[q] = At(v, Base(k) + q)
        /\ ChunkAt(w, k)[q] = At(w, Base(k) + q)
        /\ Base(k) + q \in Nat \ {0}
    BY ChunkAtIs
  <2> QED BY <2>1
<1> QED BY <1>1, ChunkAtIs, ChunkDataEqual

(* A write within a chunk.                                                 *)
LEMMA ChunkAtOverlay ==
  ASSUME NEW w \in Seq(Byte), NEW off \in Nat, NEW b \in Seq(Byte),
         StartOf(off) + Len(b) <= ChunkBytes
  PROVE  /\ ChunkAt(Overlay(w, off, b), ChunkOf(off)) =
              Overlay(ChunkAt(w, ChunkOf(off)), StartOf(off), b)
         /\ \A j \in Nat \ {0} :
              j # ChunkOf(off) => ChunkAt(Overlay(w, off, b), j) = ChunkAt(w, j)
<1>1. PICK v : v = Overlay(w, off, b)
  OBVIOUS
<1>2. PICK k, s : k = ChunkOf(off) /\ s = StartOf(off)
  OBVIOUS
<1>3. /\ k \in Nat \ {0} /\ s \in Nat /\ off = Base(k) + s /\ s + Len(b) <= ChunkBytes
      /\ Base(k) \in Int /\ ChunkBytes \in Nat /\ Len(b) \in Nat
  <2>1. k \in Nat \ {0} /\ s \in 0 .. ChunkBytes - 1 /\ off = Base(k) + s
    BY <1>2, ChunkOfIs
  <2> QED BY <1>2, <2>1, BaseIs, Bounds, BytesAre
<1>4. /\ v \in Seq(Byte)
      /\ \A p \in Nat \ {0} :
           At(v, p) = IF p \in off + 1 .. off + Len(b) THEN b[p - off] ELSE At(w, p)
  <2>1. /\ Overlay(w, off, b) \in Seq(Byte)
        /\ \A p \in Nat \ {0} :
             At(Overlay(w, off, b), p) =
               IF p \in off + 1 .. off + Len(b) THEN b[p - off] ELSE At(w, p)
    BY OverlayIs
  <2> QED BY <1>1, <2>1
<1>5. PICK d : d = ChunkAt(w, k)
  OBVIOUS
<1>6. /\ d \in ChunkData
      /\ \A q \in 1 .. ChunkBytes :
           d[q] = At(w, Base(k) + q) /\ Base(k) + q \in Nat \ {0}
  BY <1>3, <1>5, ChunkAtIs
<1>7. PICK e : e = Overlay(d, s, b)
  OBVIOUS
<1>8. /\ e \in ChunkData
      /\ \A q \in 1 .. ChunkBytes :
           e[q] = IF q \in s + 1 .. s + Len(b) THEN b[q - s] ELSE d[q]
  BY <1>3, <1>6, <1>7, OverlayChunk
<1>9. ChunkAt(v, k) = e
  <2>1. ASSUME NEW q \in 1 .. ChunkBytes PROVE ChunkAt(v, k)[q] = e[q]
    <3>1. PICK p \in Nat \ {0} : p = Base(k) + q
      BY <1>6
    <3>2. ChunkAt(v, k)[q] = At(v, p)
      <4>1. v \in Seq(Byte) /\ k \in Nat \ {0}
        BY <1>3, <1>4
      <4> QED BY <3>1, <4>1, ChunkAtIs
    <3>3. At(v, p) = IF p \in off + 1 .. off + Len(b) THEN b[p - off] ELSE At(w, p)
      BY <1>4
    <3>4. /\ p \in off + 1 .. off + Len(b) <=> q \in s + 1 .. s + Len(b)
          /\ p - off = q - s
      BY <1>3, <3>1, SMTT(30)
    <3>5. d[q] = At(w, p)
      BY <1>6, <3>1
    <3> QED BY <1>8, <3>2, <3>3, <3>4, <3>5
  <2>2. ChunkAt(v, k) \in ChunkData
    BY <1>3, <1>4, ChunkAtIs
  <2> QED BY <1>8, <2>1, <2>2, ChunkDataEqual
<1>10. ASSUME NEW j \in Nat \ {0}, j # k
       PROVE  ChunkAt(v, j) = ChunkAt(w, j)
  <2>1. ASSUME NEW q \in 1 .. ChunkBytes PROVE ChunkAt(v, j)[q] = ChunkAt(w, j)[q]
    <3>1. /\ ChunkAt(v, j)[q] = At(v, Base(j) + q)
          /\ ChunkAt(w, j)[q] = At(w, Base(j) + q)
          /\ Base(j) + q \in Nat \ {0}
      BY <1>4, ChunkAtIs
    <3>2. Base(j) + q \notin off + 1 .. off + Len(b)
      <4>1. PICK x, y, n : x = Base(j) /\ y = Base(k) /\ n = Len(b)
        OBVIOUS
      <4>2. x \in Int /\ y \in Int /\ j \in Int /\ k \in Int
        <5>1. j \in Int /\ k \in Int
          BY <1>3
        <5> QED BY <4>1, <5>1, BaseIs
      <4>3. /\ ChunkBytes \in Nat /\ q \in Nat /\ q >= 1 /\ q <= ChunkBytes
            /\ s \in Nat /\ n \in Nat /\ s + n <= ChunkBytes /\ off = y + s
        BY <1>3, <4>1, Bounds
      <4>4. x + q < off + 1 \/ off + n < x + q
        <5>1. CASE j < k
          <6>1. x + ChunkBytes <= y
            BY <4>1, <4>2, <5>1, BaseLess
          <6> QED BY <4>2, <4>3, <6>1
        <5>2. CASE k < j
          <6>1. y + ChunkBytes <= x
            BY <4>1, <4>2, <5>2, BaseLess
          <6> QED BY <4>2, <4>3, <6>1
        <5> QED BY <1>10, <4>2, <5>1, <5>2
      <4>5. x + q \notin off + 1 .. off + n
        BY <4>2, <4>3, <4>4
      <4> QED BY <4>1, <4>5
    <3> QED BY <1>4, <3>1, <3>2
  <2> QED BY <1>4, <2>1, ChunkAtIs, ChunkDataEqual
<1> QED BY <1>1, <1>2, <1>5, <1>7, <1>9, <1>10

LEMMA AtGrown ==
  ASSUME NEW w \in Seq(Byte), NEW n \in Nat
  PROVE  /\ w \o Zeros(n) \in Seq(Byte) /\ Len(w \o Zeros(n)) = Len(w) + n
         /\ \A p \in Nat \ {0} : At(w \o Zeros(n), p) = At(w, p)
<1>1. PICK z : z = Zeros(n) /\ z \in Seq(Byte) /\ Len(z) = n
               /\ \A p \in 1 .. n : z[p] = Zero
  BY ZerosAre
<1>2. PICK v : v = w \o z /\ v \in Seq(Byte) /\ Len(v) = Len(w) + Len(z)
               /\ \A j \in 1 .. Len(w) + Len(z) :
                    v[j] = IF j <= Len(w) THEN w[j] ELSE z[j - Len(w)]
  <2>1. /\ w \o z \in Seq(Byte) /\ Len(w \o z) = Len(w) + Len(z)
        /\ \A j \in 1 .. Len(w) + Len(z) :
             (w \o z)[j] = IF j <= Len(w) THEN w[j] ELSE z[j - Len(w)]
    BY <1>1, ConcatIs, Zenon
  <2> QED BY <2>1
<1>3. ASSUME NEW p \in Nat \ {0} PROVE At(v, p) = At(w, p)
  <2>1. Len(w) \in Nat
    BY BytesAre
  <2>2. CASE p <= Len(w)
    BY <1>1, <1>2, <2>1, <2>2 DEF At
  <2>3. CASE Len(w) < p /\ p <= Len(w) + n
    <3>1. p - Len(w) \in 1 .. n
      BY <2>1, <2>3
    <3>2. v[p] = z[p - Len(w)] /\ z[p - Len(w)] = Zero
      BY <1>1, <1>2, <2>1, <2>3, <3>1
    <3> QED BY <1>1, <1>2, <2>1, <2>3, <3>2 DEF At
  <2>4. CASE Len(w) + n < p
    BY <1>1, <1>2, <2>1, <2>4 DEF At
  <2> QED BY <2>1, <2>2, <2>3, <2>4
<1> QED BY <1>1, <1>2, <1>3

LEMMA AtCutOff ==
  ASSUME NEW w \in Seq(Byte), NEW n \in 0 .. Len(w)
  PROVE  /\ SubSeq(w, 1, n) \in Seq(Byte) /\ Len(SubSeq(w, 1, n)) = n
         /\ \A p \in Nat \ {0} :
              At(SubSeq(w, 1, n), p) = IF p <= n THEN At(w, p) ELSE Zero
<1>1. Len(w) \in Nat /\ \A p \in 1 .. Len(w) : w[p] \in Byte
  BY BytesAre
<1>2. /\ SubSeq(w, 1, n) \in Seq(Byte) /\ Len(SubSeq(w, 1, n)) = n
      /\ \A p \in 1 .. n : SubSeq(w, 1, n)[p] = w[p]
  BY <1>1
<1> QED BY <1>1, <1>2 DEF At

-----------------------------------------------------------------------------
(* The cache.                                                              *)

(* The entries of the cache.                                               *)

LEMMA CacheIs ==
  ASSUME NEW c \in Seq(Entries)
  PROVE  /\ Len(c) \in Nat /\ DOMAIN c = 1 .. Len(c)
         /\ \A i \in 1 .. Len(c) : c[i] \in Entries
         /\ \A e \in Held(c) : e \in Entries
  BY SeqIs DEF Held

LEMMA EntryIs ==
  ASSUME NEW e \in Entries
  PROVE  /\ e.chunk \in Chunks /\ e.chunk \in Nat \ {0} /\ e.data \in ChunkData
         /\ e.n \in 0 .. ChunkBytes /\ e.dirty \in BOOLEAN
  BY ChunksAre DEF Entries

LEMMA HeldOnce ==
  ASSUME NEW c \in Seq(Entries), Distinct(c), NEW e \in Held(c), NEW f \in Held(c),
         e.chunk = f.chunk
  PROVE  e = f
  BY DEF Held, Distinct

LEMMA AppendHeld ==
  ASSUME NEW c \in Seq(Entries), Distinct(c), NEW e \in Entries,
         \A f \in Held(c) : f.chunk # e.chunk
  PROVE  /\ Append(c, e) \in Seq(Entries) /\ Distinct(Append(c, e))
         /\ Len(Append(c, e)) = Len(c) + 1
         /\ Held(Append(c, e)) = Held(c) \cup {e}
<1>1. PICK d : d = Append(c, e)
  OBVIOUS
<1>2. /\ d \in Seq(Entries) /\ Len(c) \in Nat /\ Len(d) = Len(c) + 1
      /\ d[Len(c) + 1] = e
      /\ \A i \in 1 .. Len(c) : d[i] = c[i]
  BY <1>1
<1>3. /\ \A i \in 1 .. Len(d) : i \in 1 .. Len(c) \/ i = Len(c) + 1
      /\ 1 .. Len(c) \subseteq 1 .. Len(d) /\ Len(c) + 1 \in 1 .. Len(d)
  BY <1>2
<1>4. \A i \in 1 .. Len(c) : c[i].chunk # e.chunk
  BY DEF Held
<1>5. Distinct(d)
  <2> SUFFICES ASSUME NEW i \in 1 .. Len(d), NEW j \in 1 .. Len(d),
                      d[i].chunk = d[j].chunk
               PROVE  i = j
    BY DEF Distinct
  <2>1. CASE i \in 1 .. Len(c) /\ j \in 1 .. Len(c)
    BY <1>2, <2>1 DEF Distinct
  <2>2. CASE i \in 1 .. Len(c) /\ j = Len(c) + 1
    BY <1>2, <1>4, <2>2
  <2>3. CASE i = Len(c) + 1 /\ j \in 1 .. Len(c)
    BY <1>2, <1>4, <2>3
  <2> QED BY <1>3, <2>1, <2>2, <2>3
<1>6. Held(d) = Held(c) \cup {e}
  BY <1>2, <1>3 DEF Held
<1> QED BY <1>1, <1>2, <1>5, <1>6

LEMMA RemoveHeld ==
  ASSUME NEW c \in Seq(Entries), Distinct(c), NEW i \in 1 .. Len(c)
  PROVE  /\ RemoveAt(c, i) \in Seq(Entries) /\ Distinct(RemoveAt(c, i))
         /\ Len(RemoveAt(c, i)) = Len(c) - 1
         /\ Held(RemoveAt(c, i)) = Held(c) \ {c[i]}
<1>1. PICK d : d = RemoveAt(c, i)
  OBVIOUS
<1> DEFINE old(j) == IF j < i THEN j ELSE j + 1
           now(j) == IF j < i THEN j ELSE j - 1
<1>2. /\ d \in Seq(Entries) /\ Len(c) \in Nat /\ Len(d) = Len(c) - 1
      /\ \A j \in 1 .. Len(c) - 1 : d[j] = c[old(j)]
  <2>1. /\ RemoveAt(c, i) \in Seq(Entries) /\ Len(RemoveAt(c, i)) = Len(c) - 1
        /\ \A j \in 1 .. Len(c) - 1 : RemoveAt(c, i)[j] = c[IF j < i THEN j ELSE j + 1]
    BY RemoveIs, Zenon
  <2> QED BY <1>1, <2>1, CacheIs
<1>3. /\ \A j \in 1 .. Len(d) : old(j) \in 1 .. Len(c) /\ old(j) # i /\ now(old(j)) = j
      /\ \A j \in 1 .. Len(c) : j # i => now(j) \in 1 .. Len(d) /\ old(now(j)) = j
      /\ \A j \in 1 .. Len(d) : d[j] = c[old(j)]
  BY <1>2
<1> HIDE DEF old, now
<1>4. Distinct(d)
  <2> SUFFICES ASSUME NEW j \in 1 .. Len(d), NEW k \in 1 .. Len(d),
                      d[j].chunk = d[k].chunk
               PROVE  j = k
    BY DEF Distinct
  <2>1. old(j) = old(k)
    BY <1>3 DEF Distinct
  <2> QED BY <1>3, <2>1
<1>5. \A j \in 1 .. Len(c) : j # i => c[j] # c[i]
  BY DEF Distinct
<1>6. ASSUME NEW e \in Held(d) PROVE e \in Held(c) \ {c[i]}
  <2>1. PICK j \in 1 .. Len(d) : e = d[j]
    BY DEF Held
  <2>2. e = c[old(j)] /\ old(j) \in 1 .. Len(c) /\ old(j) # i
    BY <1>3, <2>1
  <2> QED BY <1>5, <2>2 DEF Held
<1>7. ASSUME NEW e \in Held(c), e # c[i] PROVE e \in Held(d)
  <2>1. PICK j \in 1 .. Len(c) : e = c[j]
    BY DEF Held
  <2>2. now(j) \in 1 .. Len(d) /\ d[now(j)] = e
    BY <1>3, <1>7, <2>1
  <2> QED BY <2>2 DEF Held
<1>8. Held(d) = Held(c) \ {c[i]}
  BY <1>6, <1>7
<1> QED BY <1>1, <1>2, <1>4, <1>8

LEMMA TailHeld ==
  ASSUME NEW c \in Seq(Entries), Distinct(c), c # <<>>
  PROVE  /\ Head(c) \in Held(c)
         /\ Tail(c) \in Seq(Entries) /\ Distinct(Tail(c))
         /\ Len(Tail(c)) = Len(c) - 1
         /\ Held(Tail(c)) = Held(c) \ {Head(c)}
<1>1. PICK d : d = Tail(c)
  OBVIOUS
<1>2. Len(c) \in Nat /\ Len(c) >= 1 /\ Head(c) = c[1]
  BY CacheIs
<1>3. /\ d \in Seq(Entries) /\ Len(d) = Len(c) - 1
      /\ \A j \in 1 .. Len(c) - 1 : d[j] = c[j + 1]
  BY <1>1
<1>4. /\ \A j \in 1 .. Len(d) : j + 1 \in 1 .. Len(c) /\ j + 1 # 1 /\ d[j] = c[j + 1]
      /\ \A j \in 1 .. Len(c) : j # 1 => j - 1 \in 1 .. Len(d) /\ d[j - 1] = c[j]
      /\ 1 \in 1 .. Len(c)
  BY <1>2, <1>3
<1>5. Distinct(d)
  <2> SUFFICES ASSUME NEW j \in 1 .. Len(d), NEW k \in 1 .. Len(d),
                      d[j].chunk = d[k].chunk
               PROVE  j = k
    BY DEF Distinct
  <2>1. PICK a \in 1 .. Len(c), b \in 1 .. Len(c) :
          a = j + 1 /\ b = k + 1 /\ d[j] = c[a] /\ d[k] = c[b]
    BY <1>4
  <2>2. a = b
    BY <2>1 DEF Distinct
  <2> QED BY <1>3, <2>1, <2>2
<1>6. \A j \in 1 .. Len(c) : j # 1 => c[j] # c[1]
  BY <1>4 DEF Distinct
<1>7. ASSUME NEW e \in Held(d) PROVE e \in Held(c) \ {c[1]}
  <2>1. PICK j \in 1 .. Len(d) : e = d[j]
    BY DEF Held
  <2>2. e = c[j + 1] /\ j + 1 \in 1 .. Len(c) /\ j + 1 # 1
    BY <1>4, <2>1
  <2> QED BY <1>6, <2>2 DEF Held
<1>8. ASSUME NEW e \in Held(c), e # c[1] PROVE e \in Held(d)
  <2>1. PICK j \in 1 .. Len(c) : e = c[j]
    BY DEF Held
  <2>2. j - 1 \in 1 .. Len(d) /\ d[j - 1] = e
    BY <1>4, <1>8, <2>1
  <2> QED BY <2>2 DEF Held
<1>9. Held(d) = Held(c) \ {c[1]}
  BY <1>7, <1>8
<1>10. c[1] \in Held(c)
  BY <1>4 DEF Held
<1> QED BY <1>1, <1>2, <1>3, <1>5, <1>9, <1>10

Cleaned(e) == [e EXCEPT !.dirty = FALSE]

LEMMA CleanHeld ==
  ASSUME NEW c \in Seq(Entries), Distinct(c), NEW i \in 1 .. Len(c)
  PROVE  LET d == [c EXCEPT ![i].dirty = FALSE] IN
         /\ d \in Seq(Entries) /\ Distinct(d) /\ Len(d) = Len(c)
         /\ Held(d) = (Held(c) \ {c[i]}) \cup {Cleaned(c[i])}
<1>1. PICK d : d = [c EXCEPT ![i].dirty = FALSE]
  OBVIOUS
<1>2. \A j \in 1 .. Len(c) : c[j] \in Entries /\ Cleaned(c[j]) \in Entries
                             /\ Cleaned(c[j]).chunk = c[j].chunk
  BY CacheIs, ZenonT(60) DEF Cleaned, Entries
<1>3. /\ d \in Seq(Entries) /\ Len(d) = Len(c) /\ Len(c) \in Nat
      /\ \A j \in 1 .. Len(c) : d[j] = IF j = i THEN Cleaned(c[i]) ELSE c[j]
  <2>1. d = [c EXCEPT ![i] = Cleaned(c[i])]
    BY <1>1 DEF Cleaned
  <2>2. d = [j \in 1 .. Len(c) |-> IF j = i THEN Cleaned(c[i]) ELSE c[j]]
    BY <2>1, CacheIs
  <2>3. d \in [1 .. Len(c) -> Entries]
    BY <1>2, <2>2
  <2>4. d \in Seq(Entries) /\ Len(d) = Len(c)
    BY <2>3, CacheIs, FunctionSeq
  <2> QED BY <2>2, <2>4, CacheIs
<1>4. \A j \in 1 .. Len(c) : d[j].chunk = c[j].chunk
  BY <1>2, <1>3
<1>5. Distinct(d)
  BY <1>3, <1>4 DEF Distinct
<1>6. \A j \in 1 .. Len(c) : j # i => c[j] # c[i]
  BY DEF Distinct
<1>7. ASSUME NEW e \in Held(d) PROVE e \in (Held(c) \ {c[i]}) \cup {Cleaned(c[i])}
  <2>1. PICK j \in 1 .. Len(c) : e = d[j]
    BY <1>3 DEF Held
  <2>2. CASE j = i
    BY <1>3, <2>1, <2>2
  <2>3. CASE j # i
    BY <1>3, <1>6, <2>1, <2>3 DEF Held
  <2> QED BY <2>2, <2>3
<1>8. ASSUME NEW e \in Held(c), e # c[i] PROVE e \in Held(d)
  <2>1. PICK j \in 1 .. Len(c) : e = c[j]
    BY DEF Held
  <2>2. d[j] = e /\ j \in 1 .. Len(d)
    BY <1>3, <1>8, <2>1
  <2> QED BY <2>2 DEF Held
<1>9. Cleaned(c[i]) \in Held(d)
  BY <1>3 DEF Held
<1>10. Held(d) = (Held(c) \ {c[i]}) \cup {Cleaned(c[i])}
  BY <1>7, <1>8, <1>9
<1> QED BY <1>1, <1>3, <1>5, <1>10

(* The cache without the entry of a chunk.                                 *)
LEMMA WithoutHeld ==
  ASSUME NEW k, cache \in Seq(Entries), Distinct(cache)
  PROVE  /\ Without(k) \in Seq(Entries) /\ Distinct(Without(k))
         /\ Held(Without(k)) = {e \in Held(cache) : e.chunk # k}
         /\ Len(Without(k)) <= Len(cache)
         /\ IsCached(k) => Len(Without(k)) + 1 = Len(cache)
         /\ IsCached(k) <=> \E e \in Held(cache) : e.chunk = k
<1>1. Len(cache) \in Nat /\ DOMAIN cache = 1 .. Len(cache)
  BY CacheIs
<1>2. IsCached(k) <=> \E e \in Held(cache) : e.chunk = k
  BY <1>1 DEF IsCached, FindChunkCache, Held
<1>3. CASE IsCached(k)
  <2>1. PICK i : i = EntryOf(k)
    OBVIOUS
  <2>2. i \in 1 .. Len(cache) /\ cache[i].chunk = k
    BY <1>1, <1>3, <2>1 DEF IsCached, EntryOf, FindChunkCache
  <2>3. Without(k) = RemoveAt(cache, i)
    BY <1>3, <2>1 DEF Without
  <2>4. /\ RemoveAt(cache, i) \in Seq(Entries) /\ Distinct(RemoveAt(cache, i))
        /\ Len(RemoveAt(cache, i)) = Len(cache) - 1
        /\ Held(RemoveAt(cache, i)) = Held(cache) \ {cache[i]}
    BY <2>2, RemoveHeld
  <2>5. cache[i] \in Held(cache)
    BY <2>2 DEF Held
  <2>6. Held(cache) \ {cache[i]} = {e \in Held(cache) : e.chunk # k}
    BY <2>2, <2>5, HeldOnce
  <2> QED BY <1>1, <1>2, <2>3, <2>4, <2>6
<1>4. CASE ~IsCached(k)
  <2>1. Without(k) = cache
    BY <1>4 DEF Without
  <2>2. Held(cache) = {e \in Held(cache) : e.chunk # k}
    BY <1>2, <1>4
  <2>3. Len(cache) <= Len(cache)
    BY <1>1
  <2> QED BY <1>2, <1>4, <2>1, <2>2, <2>3
<1> QED BY <1>3, <1>4

(* How the log and the cache together keep the contents.                   *)

NotPadding(t) == t = <<>> \/ Head(t).a # "pad"

LEMMA WantedIs ==
  ASSUME NEW t, NotPadding(t), NEW w, NEW k
  PROVE  Wanted(t, w, k) = ChunkAt(w, k)
  BY DEF NotPadding, Wanted, Emptied

LEMMA CacheHeld ==
  ASSUME NEW l, NEW c, CacheOK(l, c), NEW e \in Held(c)
  PROVE  /\ e \in Entries /\ e.chunk \in Nat \ {0} /\ e.chunk \in Chunks
         /\ e.data \in ChunkData /\ EntryOK(l, e)
  BY CacheIs, EntryIs DEF CacheOK

LEMMA SameReads ==
  ASSUME NEW l, NEW c, NEW t, NEW w, CacheOK(l, c), DataOK(l, c, t, w), NEW m,
         \A k \in Nat \ {0} : RdDataObj(m, k) = RdDataObj(l, k)
  PROVE  CacheOK(m, c) /\ DataOK(m, c, t, w)
<1>1. \A e \in Held(c) : EntryOK(m, e)
  <2> SUFFICES ASSUME NEW e \in Held(c) PROVE EntryOK(m, e)
    OBVIOUS
  <2>1. e.chunk \in Nat \ {0} /\ EntryOK(l, e)
    BY CacheHeld
  <2> QED BY <2>1 DEF EntryOK
<1>2. CacheOK(m, c)
  BY <1>1 DEF CacheOK
<1>3. DataOK(m, c, t, w)
  BY DEF DataOK
<1> QED BY <1>2, <1>3

(* A dirty entry is written out.                                           *)
LEMMA WriteOut ==
  ASSUME NEW l \in Seq(Recs), NEW st \in 0 .. MaxSize, InRam(l, st, MaxSize),
         NEW c, NEW t, NEW w, CacheOK(l, c), DataOK(l, c, t, w),
         NEW e \in Held(c), e.dirty,
         NEW m, m = Program(l, Data(e.chunk, e.data, e.n)),
         NEW s, s = Larger(st, Base(e.chunk) + e.n)
  PROVE  /\ m \in Seq(Recs) /\ s \in 0 .. MaxSize /\ InRam(m, s, MaxSize)
         /\ CacheOK(m, c) /\ DataOK(m, c, t, w)
         /\ RdDataObj(m, e.chunk) = e.data
<1>1. /\ e \in Entries /\ e.chunk \in Nat \ {0} /\ e.chunk \in Chunks
      /\ e.data \in ChunkData /\ EntryOK(l, e)
  BY CacheHeld
<1>2. e.n \in 1 .. ChunkBytes /\ ChunkOK(e)
  BY <1>1, Bounds DEF EntryOK, Entries
<1>3. PICK x \in Recs :
        /\ x = Data(e.chunk, e.data, e.n) /\ x.chunk = e.chunk /\ x.data = e.data
        /\ x.n = e.n /\ x.live = TRUE /\ x.keep = FALSE
  <2>1. Base(e.chunk) + e.n <= MaxSize /\ ZeroBehind(e.data, e.n)
    BY <1>2 DEF ChunkOK, ZeroBehind
  <2>2. Written(Data(e.chunk, e.data, e.n), e.chunk, e.data, e.n)
    BY <1>1, <1>2, <2>1, DataIs
  <2> QED BY <2>2 DEF Written
<1>4. m = Program(l, x)
  BY <1>3
<1>5. m \in Seq(Recs)
  BY <1>4, ProgramIs DEF Programmed
<1>6. Base(e.chunk) \in Nat /\ Base(e.chunk) < MaxSize /\ Base(e.chunk) + e.n <= MaxSize
  BY <1>1, <1>2, ChunksAre DEF ChunkOK
<1>7. s \in 0 .. MaxSize
  BY <1>2, <1>6, Bounds DEF Larger
<1>8. InRam(m, s, MaxSize)
  <2>1. MaxSize \in 0 .. MaxSize
    BY Bounds
  <2>2. x.chunk # 0 /\ Base(x.chunk) < MaxSize
    BY <1>1, <1>3, <1>6
  <2>3. InRam(Program(l, x), Larger(st, Base(x.chunk) + x.n), MaxSize)
    BY <1>3, <2>1, <2>2, ProgramData
  <2> QED BY <1>3, <1>4, <2>3
<1>9. OneLive(l)
  BY RamOneLive
<1>10. /\ RdDataObj(m, e.chunk) = e.data
       /\ \A k : k # e.chunk => RdDataObj(m, k) = RdDataObj(l, k)
  <2>1. /\ RdDataObj(Program(l, x), x.chunk) = x.data
        /\ \A k : k # x.chunk => RdDataObj(Program(l, x), k) = RdDataObj(l, k)
    BY <1>3, <1>9, RdProgram
  <2> QED BY <1>3, <1>4, <2>1
<1>11. CacheOK(m, c)
  <2>1. ASSUME NEW f \in Held(c) PROVE EntryOK(m, f)
    <3>1. EntryOK(l, f)
      BY CacheHeld
    <3>2. CASE f.dirty
      BY <3>1, <3>2 DEF EntryOK
    <3>3. CASE ~f.dirty
      <4>1. f.chunk # e.chunk
        BY <3>3, HeldOnce DEF CacheOK
      <4>2. RdDataObj(m, f.chunk) = RdDataObj(l, f.chunk)
        BY <1>10, <4>1
      <4> QED BY <3>1, <3>3, <4>2 DEF EntryOK
    <3> QED BY <3>2, <3>3
  <2> QED BY <2>1 DEF CacheOK
<1>12. DataOK(m, c, t, w)
  BY <1>10 DEF DataOK
<1> QED BY <1>5, <1>7, <1>8, <1>10, <1>11, <1>12

(* Entries go that hold what the flash holds.                              *)
LEMMA DropEntries ==
  ASSUME NEW l, NEW c, NEW t, NEW w, CacheOK(l, c), DataOK(l, c, t, w),
         NEW d \in Seq(Entries), Distinct(d), Held(d) \subseteq Held(c),
         \A e \in Held(c) : e \notin Held(d) => RdDataObj(l, e.chunk) = e.data
  PROVE  CacheOK(l, d) /\ DataOK(l, d, t, w)
<1>1. CacheOK(l, d)
  BY DEF CacheOK
<1>2. ASSUME NEW k \in Nat \ {0}, \A e \in Held(d) : e.chunk # k
      PROVE  RdDataObj(l, k) = Wanted(t, w, k)
  <2>1. CASE \E e \in Held(c) : e.chunk = k
    <3>1. PICK e \in Held(c) : e.chunk = k
      BY <2>1
    <3>2. RdDataObj(l, k) = e.data
      BY <1>2, <3>1
    <3>3. e.data = Wanted(t, w, k)
      BY <3>1 DEF DataOK
    <3> QED BY <3>2, <3>3
  <2>2. CASE \A e \in Held(c) : e.chunk # k
    BY <2>2 DEF DataOK
  <2> QED BY <2>1, <2>2
<1>3. ASSUME NEW k \in Nat \ {0}, NEW e \in Held(d), e.chunk = k
      PROVE  e.data = Wanted(t, w, k)
  BY <1>3 DEF DataOK
<1> QED BY <1>1, <1>2, <1>3 DEF DataOK

LEMMA CleanEntry ==
  ASSUME NEW l, NEW c, NEW t, NEW w, CacheOK(l, c), DataOK(l, c, t, w),
         NEW i \in 1 .. Len(c), RdDataObj(l, c[i].chunk) = c[i].data,
         NEW d, d = [c EXCEPT ![i].dirty = FALSE]
  PROVE  CacheOK(l, d) /\ DataOK(l, d, t, w) /\ Len(d) = Len(c)
<1>1. c \in Seq(Entries) /\ Distinct(c)
  BY DEF CacheOK
<1>2. /\ d \in Seq(Entries) /\ Distinct(d) /\ Len(d) = Len(c)
      /\ Held(d) = (Held(c) \ {c[i]}) \cup {Cleaned(c[i])}
  BY <1>1, CleanHeld
<1>3. c[i] \in Held(c) /\ c[i] \in Entries
  BY <1>1, CacheIs DEF Held
<1>4. /\ Cleaned(c[i]).chunk = c[i].chunk /\ Cleaned(c[i]).data = c[i].data
      /\ Cleaned(c[i]).dirty = FALSE
  BY <1>3 DEF Cleaned, Entries
<1>5. CacheOK(l, d)
  <2>1. EntryOK(l, Cleaned(c[i]))
    BY <1>4 DEF EntryOK
  <2> QED BY <1>2, <2>1 DEF CacheOK
<1>6. ASSUME NEW k \in Nat \ {0}, NEW e \in Held(d), e.chunk = k
      PROVE  e.data = Wanted(t, w, k)
  <2>1. PICK f \in Held(c) : f.chunk = k /\ f.data = e.data
    BY <1>2, <1>3, <1>4, <1>6
  <2> QED BY <2>1 DEF DataOK
<1>7. ASSUME NEW k \in Nat \ {0}, \A e \in Held(d) : e.chunk # k
      PROVE  RdDataObj(l, k) = Wanted(t, w, k)
  <2>1. \A e \in Held(c) : e.chunk # k
    BY <1>2, <1>4, <1>7
  <2> QED BY <2>1 DEF DataOK
<1> QED BY <1>2, <1>5, <1>6, <1>7 DEF DataOK

LEMMA LoadEntry ==
  ASSUME NEW l \in Seq(Recs), OneLive(l), NEW c, NEW t, NEW w,
         CacheOK(l, c), DataOK(l, c, t, w),
         NEW k \in Chunks, \A e \in Held(c) : e.chunk # k,
         NEW d, d = Append(c, [chunk |-> k, data |-> RdDataObj(l, k), n |-> 0,
                               dirty |-> FALSE])
  PROVE  CacheOK(l, d) /\ DataOK(l, d, t, w) /\ Len(d) = Len(c) + 1
<1>1. k \in Nat \ {0} /\ RdDataObj(l, k) \in ChunkData
  BY ChunksAre, RdIsData
<1>2. PICK x \in Entries : x = [chunk |-> k, data |-> RdDataObj(l, k), n |-> 0,
                                dirty |-> FALSE]
  <2>1. 0 \in 0 .. ChunkBytes
    BY Bounds
  <2>2. [chunk |-> k, data |-> RdDataObj(l, k), n |-> 0, dirty |-> FALSE] \in Entries
    BY <1>1, <2>1 DEF Entries
  <2> QED BY <2>2
<1>3. x.chunk = k /\ x.data = RdDataObj(l, k) /\ x.dirty = FALSE
  BY <1>2
<1>4. /\ d \in Seq(Entries) /\ Distinct(d) /\ Len(d) = Len(c) + 1
      /\ Held(d) = Held(c) \cup {x}
  BY <1>2, <1>3, AppendHeld DEF CacheOK
<1>5. CacheOK(l, d)
  <2>1. EntryOK(l, x)
    BY <1>3 DEF EntryOK
  <2> QED BY <1>4, <2>1 DEF CacheOK
<1>6. DataOK(l, d, t, w)
  BY <1>1, <1>3, <1>4 DEF DataOK
<1> QED BY <1>4, <1>5, <1>6

(* The bytes of chunk k change, and only they.                             *)
OnlyAt(v, w, k) == \A j \in Nat \ {0} : j # k => ChunkAt(v, j) = ChunkAt(w, j)

(* The entries of c but for chunk k.                                       *)
Others(b, c, k) ==
  /\ b \in Seq(Entries) /\ Distinct(b)
  /\ Held(b) = {e \in Held(c) : e.chunk # k}

(* A dirty entry with the bytes of chunk k in v, which differs from w only *)
(* there.                                                                  *)
EntryFor(x, k, v, w) ==
  /\ x \in Entries /\ x.dirty /\ x.n > 0 /\ ChunkOK(x)
  /\ x.chunk = k /\ x.data = ChunkAt(v, k) /\ OnlyAt(v, w, k)

LEMMA NewEntry ==
  ASSUME NEW l, NEW c, NEW t, NEW w, CacheOK(l, c), DataOK(l, c, t, w),
         NotPadding(t), NEW u, NotPadding(u),
         NEW k0, NEW v, NEW x, EntryFor(x, k0, v, w),
         NEW b, Others(b, c, k0),
         NEW d, d = Append(b, x)
  PROVE  CacheOK(l, d) /\ DataOK(l, d, u, v) /\ Len(d) = Len(b) + 1
<1>0. /\ x \in Entries /\ x.dirty /\ x.n > 0 /\ ChunkOK(x)
      /\ OnlyAt(v, w, x.chunk) /\ ChunkAt(v, x.chunk) = x.data
      /\ b \in Seq(Entries) /\ Distinct(b)
      /\ Held(b) = {e \in Held(c) : e.chunk # x.chunk}
  BY DEF EntryFor, Others
<1>1. /\ d \in Seq(Entries) /\ Distinct(d) /\ Len(d) = Len(b) + 1
      /\ Held(d) = Held(b) \cup {x}
  BY <1>0, AppendHeld
<1>2. CacheOK(l, d)
  <2>1. EntryOK(l, x)
    BY <1>0 DEF EntryOK
  <2>2. \A e \in Held(c) : EntryOK(l, e)
    BY <1>0 DEF CacheOK
  <2> QED BY <1>0, <1>1, <2>1, <2>2 DEF CacheOK
<1>3. ASSUME NEW k \in Nat \ {0}, NEW e \in Held(d), e.chunk = k
      PROVE  e.data = Wanted(u, v, k)
  <2>1. CASE e = x
    BY <1>0, <1>3, <2>1, WantedIs
  <2>2. CASE e # x
    <3>1. e \in Held(c) /\ k # x.chunk
      BY <1>0, <1>1, <1>3, <2>2
    <3>2. e.data = Wanted(t, w, k)
      BY <1>0, <1>3, <3>1 DEF DataOK
    <3> QED BY <1>0, <3>1, <3>2, WantedIs DEF OnlyAt
  <2> QED BY <1>0, <2>1, <2>2
<1>4. ASSUME NEW k \in Nat \ {0}, \A e \in Held(d) : e.chunk # k
      PROVE  RdDataObj(l, k) = Wanted(u, v, k)
  <2>1. k # x.chunk /\ \A e \in Held(c) : e.chunk # k
    BY <1>0, <1>1, <1>4
  <2>2. RdDataObj(l, k) = Wanted(t, w, k)
    BY <1>0, <2>1 DEF DataOK
  <2> QED BY <1>0, <2>1, <2>2, WantedIs DEF OnlyAt
<1> QED BY <1>1, <1>2, <1>3, <1>4 DEF DataOK

LEMMA NewChunk ==
  ASSUME NEW l \in Seq(Recs), OneLive(l), NEW c, NEW t, NEW w,
         CacheOK(l, c), DataOK(l, c, t, w),
         NotPadding(t), NEW u, NotPadding(u),
         NEW x \in Recs, x.live = TRUE, x.chunk # 0,
         NEW v, OnlyAt(v, w, x.chunk), ChunkAt(v, x.chunk) = x.data,
         NEW b, Others(b, c, x.chunk)
  PROVE  CacheOK(Program(l, x), b) /\ DataOK(Program(l, x), b, u, v)
<1>0. /\ b \in Seq(Entries) /\ Distinct(b)
      /\ Held(b) = {e \in Held(c) : e.chunk # x.chunk}
  BY DEF Others
<1>1. PICK m : m = Program(l, x)
  OBVIOUS
<1>2. /\ RdDataObj(m, x.chunk) = x.data
      /\ \A k : k # x.chunk => RdDataObj(m, k) = RdDataObj(l, k)
  BY <1>0, <1>1, RdProgram
<1>3. CacheOK(m, b)
  <2>1. ASSUME NEW e \in Held(b) PROVE EntryOK(m, e)
    <3>1. EntryOK(l, e) /\ e.chunk # x.chunk
      BY <1>0 DEF CacheOK
    <3>2. RdDataObj(m, e.chunk) = RdDataObj(l, e.chunk)
      BY <1>0, <1>2, <3>1
    <3> QED BY <1>0, <3>1, <3>2 DEF EntryOK
  <2> QED BY <1>0, <2>1 DEF CacheOK
<1>4. ASSUME NEW k \in Nat \ {0}, NEW e \in Held(b), e.chunk = k
      PROVE  e.data = Wanted(u, v, k)
  <2>1. e \in Held(c) /\ k # x.chunk
    BY <1>0, <1>4
  <2>2. e.data = Wanted(t, w, k)
    BY <1>0, <1>4, <2>1 DEF DataOK
  <2> QED BY <1>0, <2>1, <2>2, WantedIs DEF OnlyAt
<1>5. ASSUME NEW k \in Nat \ {0}, \A e \in Held(b) : e.chunk # k
      PROVE  RdDataObj(m, k) = Wanted(u, v, k)
  <2>1. CASE k = x.chunk
    BY <1>0, <1>2, <2>1, WantedIs
  <2>2. CASE k # x.chunk
    <3>1. \A e \in Held(c) : e.chunk # k
      BY <1>0, <1>5, <2>2
    <3>2. RdDataObj(l, k) = Wanted(t, w, k)
      BY <1>0, <3>1 DEF DataOK
    <3> QED BY <1>0, <1>2, <2>2, <3>2, WantedIs DEF OnlyAt
  <2> QED BY <1>0, <2>1, <2>2
<1>6. DataOK(m, b, u, v)
  BY <1>0, <1>4, <1>5 DEF DataOK
<1> QED BY <1>1, <1>3, <1>6

(* The bytes stay: only their number may change, by zeros at the end.      *)
SameAt(v, w) == \A p \in Nat \ {0} : At(v, p) = At(w, p)

LEMMA SameBytes ==
  ASSUME NEW l, NEW c, NEW t, NEW w \in Seq(Byte), DataOK(l, c, t, w),
         NotPadding(t), NEW u, NotPadding(u), NEW v \in Seq(Byte),
         SameAt(v, w)
  PROVE  DataOK(l, c, u, v)
<1>1. \A k \in Nat \ {0} : ChunkAt(v, k) = ChunkAt(w, k)
  BY ChunkAtSame DEF SameAt
<1>2. \A k \in Nat \ {0} : Wanted(u, v, k) = Wanted(t, w, k)
  BY <1>1, WantedIs
<1> QED BY <1>2 DEF DataOK

-----------------------------------------------------------------------------
(* Plans.                                                                  *)

(* The plans, as sequences of steps.                                       *)

LEMMA PlanIs ==
  ASSUME NEW t \in Seq(Steps), t # <<>>
  PROVE  Head(t) \in Steps /\ Tail(t) \in Seq(Steps)
  OBVIOUS

LEMMA Prefixed ==
  ASSUME NEW x \in Steps, NEW r \in Seq(Steps)
  PROVE  /\ <<x>> \o r \in Seq(Steps) /\ <<x>> \o r # <<>>
         /\ Head(<<x>> \o r) = x /\ Tail(<<x>> \o r) = r
<1>1. PICK t : t = <<x>> \o r
  OBVIOUS
<1>2. <<x>> \in Seq(Steps) /\ Len(<<x>>) = 1 /\ <<x>>[1] = x
  OBVIOUS
<1>3. /\ t \in Seq(Steps) /\ Len(t) = 1 + Len(r) /\ Len(r) \in Nat
      /\ \A j \in 1 .. 1 + Len(r) : t[j] = IF j <= 1 THEN x ELSE r[j - 1]
  <2>1. PICK s : s = <<x>>
    OBVIOUS
  <2>2. s \in Seq(Steps) /\ Len(s) = 1 /\ s[1] = x
    BY <1>2, <2>1
  <2>3. /\ s \o r \in Seq(Steps) /\ Len(s \o r) = Len(s) + Len(r)
        /\ \A j \in 1 .. Len(s) + Len(r) :
             (s \o r)[j] = IF j <= Len(s) THEN s[j] ELSE r[j - Len(s)]
    BY <2>2, ConcatIs, Zenon
  <2>4. Len(r) \in Nat
    BY SeqIs
  <2>5. t = s \o r
    BY <1>1, <2>1
  <2>6. \A j \in 1 .. 1 + Len(r) : j <= 1 => j = 1
    BY <2>4
  <2> QED BY <2>2, <2>3, <2>4, <2>5, <2>6
<1>4. t # <<>> /\ Head(t) = x
  BY <1>3
<1>5. Tail(t) = r
  <2>1. /\ Tail(t) \in Seq(Steps) /\ Len(Tail(t)) = Len(r)
        /\ \A j \in 1 .. Len(r) : Tail(t)[j] = t[j + 1]
    BY <1>3
  <2>2. \A j \in 1 .. Len(r) : t[j + 1] = r[j]
    BY <1>3
  <2> QED BY <2>1, <2>2
<1> QED BY <1>1, <1>3, <1>4, <1>5

LEMMA One ==
  ASSUME NEW x \in Steps
  PROVE  /\ <<x>> \in Seq(Steps) /\ <<x>> # <<>>
         /\ Head(<<x>>) = x /\ Tail(<<x>>) = <<>>
  OBVIOUS

LEMMA TwoIs ==
  ASSUME NEW x \in Steps, NEW y \in Steps
  PROVE  <<x, y>> = <<x>> \o <<y>>
<1>1. PICK p, q : p = <<x>> /\ q = <<y>>
  OBVIOUS
<1>2. p \in Seq(Steps) /\ q \in Seq(Steps)
  BY <1>1
<1>4. <<x, y>> = p \o q
  <2>1. /\ Len(p) = 1 /\ p[1] = x /\ Len(q) = 1 /\ q[1] = y
    BY <1>1
  <2>2. /\ p \o q \in Seq(Steps) /\ Len(p \o q) = Len(p) + Len(q)
        /\ \A j \in 1 .. Len(p) + Len(q) :
             (p \o q)[j] = IF j <= Len(p) THEN p[j] ELSE q[j - Len(p)]
    BY <1>2, ConcatIs, Zenon
  <2>3. PICK s : s = p \o q
    OBVIOUS
  <2>4. s \in Seq(Steps) /\ Len(s) = 2 /\ s[1] = x /\ s[2] = y
    BY <2>1, <2>2, <2>3
  <2>5. s = [j \in 1 .. 2 |-> s[j]]
    BY <2>4
  <2>6. <<x, y>> = [j \in 1 .. 2 |-> IF j = 1 THEN x ELSE y]
    OBVIOUS
  <2>7. \A j \in 1 .. 2 : s[j] = IF j = 1 THEN x ELSE y
    BY <2>4
  <2>8. s = [j \in 1 .. 2 |-> IF j = 1 THEN x ELSE y]
    BY <2>5, <2>7
  <2> QED BY <2>3, <2>6, <2>8
<1> QED BY <1>1, <1>4

Two(x, y, r) ==
  /\ <<x, y>> \o r = <<x>> \o (<<y>> \o r)
  /\ (<<x>> \o <<y>>) \o r = <<x>> \o (<<y>> \o r)

LEMMA Joined ==
  ASSUME NEW x \in Steps, NEW y \in Steps, NEW r \in Seq(Steps)
  PROVE  Two(x, y, r)
<1>1. PICK p, q : p = <<x>> /\ q = <<y>>
  OBVIOUS
<1>2. p \in Seq(Steps) /\ q \in Seq(Steps)
  BY <1>1
<1>3. (p \o q) \o r = p \o (q \o r)
  BY <1>2, ConcatAssociative
<1>4. <<x, y>> = p \o q
  BY <1>1, TwoIs
<1> QED BY <1>1, <1>3, <1>4 DEF Two

(* What the plans promise.                                                 *)

LEMMA StepIs ==
  ASSUME NEW a \in {"flush", "hdr", "hole", "grow", "prune", "pad"},
         NEW n \in 0 .. MaxSize + 1
  PROVE  /\ Step(a, n) \in Steps /\ Step(a, n) \in Plain
         /\ Step(a, n).a = a /\ Step(a, n).n = n
  BY DEF Step, Steps, Plain

LEMMA SmallSteps ==
  /\ Step("hdr", 0) \in Steps /\ Step("hdr", 1) \in Steps
  /\ Step("hole", 0) \in Steps /\ Step("hole", 1) \in Steps
  /\ Step("flush", 0) \in Steps /\ Step("flush", 1) \in Steps
  /\ \A n \in 0 .. MaxSize : Step("grow", n) \in Steps
  /\ \A n \in 0 .. MaxSize : Step("prune", n) \in Steps
  /\ \A n \in 0 .. MaxSize : Step("pad", n) \in Steps
<1>1. 0 \in 0 .. MaxSize + 1 /\ 1 \in 0 .. MaxSize + 1
      /\ \A n \in 0 .. MaxSize : n \in 0 .. MaxSize + 1
  BY Bounds
<1> QED BY <1>1, StepIs

LEMMA WritingIs ==
  ASSUME NEW off \in 0 .. MaxSize, NEW b \in Seq(Byte), NEW fill \in -1 .. MaxSize,
         NEW more \in 0 .. MaxSize
  PROVE  /\ Write(off, b, fill, more) \in Writing
         /\ Write(off, b, fill, more) \in Steps
         /\ Write(off, b, fill, more).a = "write"
         /\ Write(off, b, fill, more).off = off
         /\ Write(off, b, fill, more).b = b
         /\ Write(off, b, fill, more).fill = fill
         /\ Write(off, b, fill, more).more = more
  BY DEF Write, Writing, Steps

LEMMA WritingHas ==
  ASSUME NEW p \in Writing
  PROVE  /\ p.a = "write" /\ p.off \in 0 .. MaxSize /\ p.b \in Seq(Byte)
         /\ p.fill \in -1 .. MaxSize /\ p.more \in 0 .. MaxSize
         /\ p.off \in Nat /\ p.more \in Nat /\ p.fill \in Int /\ Len(p.b) \in Nat
<1>1. /\ p.a = "write" /\ p.off \in 0 .. MaxSize /\ p.b \in Seq(Byte)
      /\ p.fill \in -1 .. MaxSize /\ p.more \in 0 .. MaxSize
  BY DEF Writing
<1> QED BY <1>1, Bounds, BytesAre

LEMMA StepsAre ==
  ASSUME NEW x \in Steps
  PROVE  x.a = "write" <=> x \in Writing
  BY DEF Steps, Plain, Writing

LEMMA RestIs ==
  ASSUME NEW r \in Seq(Steps), Rest(r)
  PROVE  /\ r # <<>> /\ Goal(r) \in 0 .. MaxSize /\ NotPadding(r)
         /\ \A st : Limit(r, st) = MaxSize
<1>1. CASE Call(r)
  <2>1. Head(r) \in Writing /\ r # <<>>
    BY <1>1 DEF Call
  <2>2. Head(r).a = "write" /\ Head(r).off \in 0 .. MaxSize
    BY <2>1, WritingHas
  <2> QED BY <2>1, <2>2 DEF Goal, NotPadding, Limit
<1>2. CASE Growth(r)
  <2>1. PICK n \in 0 .. MaxSize : Head(r) = Step("grow", n) /\ r # <<>>
    BY <1>2 DEF Growth
  <2>2. Head(r).a = "grow" /\ Head(r).n = n
    BY <2>1 DEF Step
  <2> QED BY <2>1, <2>2 DEF Goal, NotPadding, Limit
<1> QED BY <1>1, <1>2 DEF Rest

(* The rest of a call is the next step.                                    *)
LEMMA PlanRest ==
  ASSUME NEW r \in Seq(Steps), Rest(r), NEW fs \in 0 .. MaxSize, NEW w \in Seq(Byte),
         Len(w) = fs, fs <= Goal(r), NEW c
  PROVE  Plan(r, fs, w, c)
<1>1. fs \in Nat /\ r # <<>>
  BY Bounds, RestIs
<1>2. CASE Call(r)
  <2>1. Head(r) \in Writing
    BY <1>2 DEF Call
  <2>2. Head(r).a = "write" /\ Head(r).off \in Nat
    BY <2>1, WritingHas
  <2>3. fs <= Len(w) /\ Len(w) <= Larger(fs, Head(r).off)
    BY <1>1, <2>2 DEF Larger
  <2> QED BY <1>1, <1>2, <2>2, <2>3 DEF Plan, AtWrite
<1>3. CASE Growth(r)
  <2>1. Head(r).a = "grow"
    BY <1>3 DEF Growth, Step
  <2> QED BY <1>1, <1>3, <2>1 DEF Plan, AtGrow
<1> QED BY <1>2, <1>3 DEF Rest

LEMMA ZeroFromIs ==
  ASSUME NEW w \in Seq(Byte), NEW n \in Nat
  PROVE  ZeroFrom(w, n) <=> \A p \in Nat \ {0} : p > n => At(w, p) = Zero
<1>1. Len(w) \in Nat
  BY BytesAre
<1>2. ASSUME ZeroFrom(w, n), NEW p \in Nat \ {0}, p > n
      PROVE  At(w, p) = Zero
  <2>1. CASE p <= Len(w)
    <3>1. p \in n + 1 .. Len(w)
      BY <1>1, <1>2, <2>1
    <3> QED BY <1>2, <2>1, <3>1 DEF At, ZeroFrom
  <2> QED BY <2>1 DEF At
<1>3. ASSUME \A p \in Nat \ {0} : p > n => At(w, p) = Zero
      PROVE  ZeroFrom(w, n)
  <2> SUFFICES ASSUME NEW p \in n + 1 .. Len(w) PROVE w[p] = Zero
    BY DEF ZeroFrom
  <2>1. p \in Nat \ {0} /\ p > n /\ p <= Len(w)
    BY <1>1
  <2>2. At(w, p) = Zero
    BY <1>3, <2>1
  <2> QED BY <2>1, <2>2 DEF At
<1> QED BY <1>2, <1>3

(* The zeros of a hole, a chunk's worth at a time.                         *)
LEMMA FillingIs ==
  ASSUME NEW pos \in Nat, NEW n \in Nat \ {0}, NEW old \in 0 .. MaxSize, old <= pos,
         NEW r \in Seq(Steps), Rest(r), pos + n = Goal(r)
  PROVE  /\ Filling(pos, n, old) \in Steps
         /\ Filling(pos, n, old).a = "write"
         /\ Filling(pos, n, old).off = pos
         /\ Filling(pos, n, old).fill = old
         /\ Fills(Filling(pos, n, old), r)
<1>1. Goal(r) \in 0 .. MaxSize /\ MaxSize \in Nat /\ ChunkBytes \in Nat /\ ChunkBytes >= 1
  BY RestIs, Bounds
<1>2. PICK k : k = Smaller(ChunkBytes, n)
  OBVIOUS
<1>3. PICK m : m = Larger(0, n - ChunkBytes)
  OBVIOUS
<1>4. /\ k \in 1 .. ChunkBytes /\ k \in Nat /\ m \in Nat /\ k + m = n
      /\ pos + k + m = Goal(r)
  BY <1>1, <1>2, <1>3 DEF Smaller, Larger
<1>5. /\ pos \in 0 .. MaxSize /\ m \in 0 .. MaxSize /\ old \in -1 .. MaxSize /\ old # -1
  BY <1>1, <1>4
<1>6. /\ Zeros(k) \in Seq(Byte) /\ Len(Zeros(k)) = k
      /\ \A q \in 1 .. k : Zeros(k)[q] = Zero
  BY <1>4, ZerosAre
<1>7. PICK z : z = Zeros(k)
  OBVIOUS
<1>8. PICK x : x = Filling(pos, n, old)
  OBVIOUS
<1>9. x = Write(pos, z, old, m)
  BY <1>2, <1>3, <1>7, <1>8 DEF Filling
<1>10. /\ x \in Writing /\ x \in Steps /\ x.a = "write" /\ x.off = pos /\ x.b = z
       /\ x.fill = old /\ x.more = m
  BY <1>5, <1>6, <1>7, <1>9, WritingIs
<1>11. Fills(x, r)
  BY <1>4, <1>5, <1>6, <1>7, <1>10 DEF Fills
<1> QED BY <1>8, <1>10, <1>11

LEMMA PlanFill ==
  ASSUME NEW r \in Seq(Steps), Rest(r), NEW x \in Steps, Fills(x, r),
         NEW fs \in 0 .. MaxSize, NEW w \in Seq(Byte),
         fs <= Len(w), Len(w) <= Larger(fs, x.off), x.fill <= fs,
         ZeroFrom(w, x.fill), fs <= Goal(r), NEW c
  PROVE  Plan(<<x>> \o r, fs, w, c)
<1>1. PICK t : t = <<x>> \o r
  OBVIOUS
<1>2. t \in Seq(Steps) /\ t # <<>> /\ Head(t) = x /\ Tail(t) = r
  BY <1>1, Prefixed
<1>3. x.a = "write"
  BY WritingHas DEF Fills
<1>4. AtWrite(t, fs, w)
  BY <1>2 DEF AtWrite
<1> QED BY <1>1, <1>2, <1>3, <1>4 DEF Plan

LEMMA StepHas ==
  ASSUME NEW a, NEW n
  PROVE  Step(a, n).a = a /\ Step(a, n).n = n
  BY DEF Step

(* Which part of the invariant a next step stands for.                     *)
LEMMA PlanCases ==
  ASSUME NEW t, NEW fs, NEW w, NEW c, Plan(t, fs, w, c), t # <<>>
  PROVE  /\ Head(t) \in Steps /\ Tail(t) \in Seq(Steps)
         /\ fs \in 0 .. MaxSize /\ w \in Seq(Byte)
         /\ Head(t).a = "write" => AtWrite(t, fs, w)
         /\ Head(t).a # "write" => Len(w) = fs
         /\ Head(t).a = "flush" => AtFlush(t, fs)
         /\ Head(t).a = "hdr" => AtHdr(t)
         /\ Head(t).a = "hole" => AtHole(t, fs)
         /\ Head(t).a = "grow" => AtGrow(t, fs)
         /\ Head(t).a \in {"prune", "pad"} => AtCut(t, fs, w, c)
<1>1. t \in Seq(Steps) /\ fs \in 0 .. MaxSize /\ w \in Seq(Byte)
  BY DEF Plan
<1>2. Head(t) \in Steps /\ Tail(t) \in Seq(Steps)
  BY <1>1, PlanIs
<1>3. Head(t).a = "write" => AtWrite(t, fs, w)
  BY DEF Plan
<1>4. ASSUME Head(t).a # "write"
      PROVE  /\ Len(w) = fs
             /\ AtHole(t, fs) \/ AtGrow(t, fs) \/ AtHdr(t)
                \/ AtCut(t, fs, w, c) \/ AtFlush(t, fs)
  BY <1>4 DEF Plan
<1>5. AtHole(t, fs) => Head(t).a = "hole"
  BY StepHas DEF AtHole
<1>6. AtGrow(t, fs) => Head(t).a = "grow"
  BY StepHas DEF AtGrow, Growth
<1>7. AtHdr(t) => Head(t).a = "hdr"
  <2> SUFFICES ASSUME NEW n \in {0, 1}, t = <<Step("hdr", n)>>
               PROVE  Head(t).a = "hdr"
    BY DEF AtHdr
  <2>1. Head(t) = Step("hdr", n)
    OBVIOUS
  <2> QED BY <2>1, StepHas
<1>8. AtCut(t, fs, w, c) => Head(t).a \in {"prune", "pad"}
  BY StepHas DEF AtCut
<1>9. AtFlush(t, fs) => Head(t).a = "flush"
  BY StepHas DEF AtFlush
<1> QED BY <1>1, <1>2, <1>3, <1>4, <1>5, <1>6, <1>7, <1>8, <1>9

LEMMA PlanHole ==
  ASSUME NEW r \in Seq(Steps), Rest(r), NEW n \in {0, 1}, NEW fs \in 0 .. MaxSize,
         NEW w \in Seq(Byte), Len(w) = fs, fs <= Goal(r), NEW c
  PROVE  Plan(<<Step("hole", n)>> \o r, fs, w, c)
<1>1. PICK x \in Steps : x = Step("hole", n) /\ x.a = "hole"
  BY SmallSteps, StepHas
<1>2. PICK t : t = <<x>> \o r
  OBVIOUS
<1>3. t \in Seq(Steps) /\ t # <<>> /\ Head(t) = x /\ Tail(t) = r
  BY <1>2, Prefixed
<1>4. AtHole(t, fs)
  BY <1>1, <1>3 DEF AtHole
<1> QED BY <1>1, <1>2, <1>3, <1>4 DEF Plan

LEMMA PlanHdr ==
  ASSUME NEW n \in {0, 1}, NEW fs \in 0 .. MaxSize, NEW w \in Seq(Byte), Len(w) = fs,
         NEW c
  PROVE  Plan(<<Step("hdr", n)>>, fs, w, c)
<1>1. PICK x \in Steps : x = Step("hdr", n) /\ x.a = "hdr"
  BY SmallSteps, StepHas
<1>2. PICK t : t = <<x>>
  OBVIOUS
<1>3. t \in Seq(Steps) /\ t # <<>> /\ Head(t) = x
  BY <1>2, One
<1>4. AtHdr(t)
  BY <1>1, <1>2 DEF AtHdr
<1> QED BY <1>1, <1>2, <1>3, <1>4 DEF Plan

LEMMA PlanNone ==
  ASSUME NEW fs \in 0 .. MaxSize, NEW w \in Seq(Byte), Len(w) = fs, NEW c
  PROVE  Plan(<<>>, fs, w, c)
  BY DEF Plan

-----------------------------------------------------------------------------
(* A turn of the write loop.                                               *)

Turning(t, fs, w, p) ==
  /\ t \in Seq(Steps) /\ t # <<>> /\ p = Head(t) /\ p \in Writing
  /\ Tail(t) \in Seq(Steps)
  /\ fs \in 0 .. MaxSize /\ w \in Seq(Byte)
  /\ fs <= Len(w) /\ Len(w) <= Larger(fs, p.off)
  /\ Len(p.b) >= 1 /\ p.off + Len(p.b) <= MaxSize
  /\ \/ Call(t)
     \/ /\ Fills(p, Tail(t)) /\ Rest(Tail(t))
        /\ p.fill <= fs /\ ZeroFrom(w, p.fill)
        /\ fs <= Goal(Tail(t))

LEMMA TurningIs ==
  ASSUME NEW t, NEW fs, NEW w, NEW c, Plan(t, fs, w, c), t # <<>>, Head(t).a = "write"
  PROVE  Turning(t, fs, w, Head(t))
<1>1. /\ t \in Seq(Steps) /\ Head(t) \in Writing /\ Tail(t) \in Seq(Steps)
      /\ fs \in 0 .. MaxSize /\ w \in Seq(Byte) /\ AtWrite(t, fs, w)
  BY PlanCases, StepsAre DEF Plan
<1>2. PICK p : p = Head(t)
  OBVIOUS
<1>3. /\ p.off \in Nat /\ p.more \in Nat /\ Len(p.b) \in Nat
  BY <1>1, <1>2, WritingHas
<1>4. Len(p.b) >= 1 /\ p.off + Len(p.b) <= MaxSize
  <2>1. CASE Call(t)
    BY <1>2, <1>3, <2>1 DEF Call
  <2>2. CASE Fills(p, Tail(t)) /\ Rest(Tail(t))
    <3>1. Goal(Tail(t)) \in 0 .. MaxSize /\ Len(p.b) \in 1 .. ChunkBytes
          /\ p.off + Len(p.b) + p.more = Goal(Tail(t))
      BY <1>1, <2>2, RestIs DEF Fills
    <3> QED BY <1>3, <3>1, Bounds
  <2> QED BY <1>1, <1>2, <2>1, <2>2 DEF AtWrite
<1> QED BY <1>1, <1>2, <1>4 DEF Turning, AtWrite

LEMMA TurnIs ==
  ASSUME NEW p \in Writing, Len(p.b) >= 1, p.off + Len(p.b) <= MaxSize
  PROVE  /\ Turn(p) \in Nat /\ Turn(p) >= 1 /\ Turn(p) <= Len(p.b)
         /\ StartOf(p.off) + Turn(p) <= ChunkBytes
         /\ Turn(p) < Len(p.b) => StartOf(p.off) + Turn(p) = ChunkBytes
         /\ Copied(p) \in Seq(Byte) /\ Len(Copied(p)) = Turn(p)
         /\ \A q \in 1 .. Turn(p) : Copied(p)[q] = p.b[q]
<1>1. p.off \in Nat /\ Len(p.b) \in Nat /\ p.b \in Seq(Byte) /\ ChunkBytes \in Nat
  BY WritingHas, Bounds
<1>2. StartOf(p.off) \in 0 .. ChunkBytes - 1
  BY <1>1, ChunkOfIs
<1>3. PICK n : n = Turn(p)
  OBVIOUS
<1>4. /\ n \in Nat /\ n >= 1 /\ n <= Len(p.b) /\ StartOf(p.off) + n <= ChunkBytes
      /\ n < Len(p.b) => StartOf(p.off) + n = ChunkBytes
  BY <1>1, <1>2, <1>3 DEF Turn, Smaller
<1>5. /\ SubSeq(p.b, 1, n) \in Seq(Byte) /\ Len(SubSeq(p.b, 1, n)) = n
      /\ \A q \in 1 .. n : SubSeq(p.b, 1, n)[q] = p.b[q]
  BY <1>1, <1>4
<1> QED BY <1>3, <1>4, <1>5 DEF Copied

(* Zeros written behind n leave only zeros there.                          *)
LEMMA ZeroOverlay ==
  ASSUME NEW w \in Seq(Byte), NEW n \in Nat, ZeroFrom(w, n), NEW off \in Nat,
         NEW b \in Seq(Byte), \A q \in 1 .. Len(b) : b[q] = Zero
  PROVE  ZeroFrom(Overlay(w, off, b), n)
<1>1. /\ Overlay(w, off, b) \in Seq(Byte)
      /\ \A p \in Nat \ {0} :
           At(Overlay(w, off, b), p) =
             IF p \in off + 1 .. off + Len(b) THEN b[p - off] ELSE At(w, p)
  BY OverlayIs
<1>2. PICK v : v = Overlay(w, off, b)
  OBVIOUS
<1>3. v \in Seq(Byte) /\ Len(b) \in Nat
  BY <1>1, <1>2, BytesAre
<1>4. ASSUME NEW p \in Nat \ {0}, p > n PROVE At(v, p) = Zero
  <2>1. At(v, p) = IF p \in off + 1 .. off + Len(b) THEN b[p - off] ELSE At(w, p)
    BY <1>1, <1>2
  <2>2. At(w, p) = Zero
    BY <1>4, ZeroFromIs
  <2>3. p \in off + 1 .. off + Len(b) => p - off \in 1 .. Len(b)
    BY <1>3
  <2> QED BY <2>1, <2>2, <2>3
<1>5. ZeroFrom(v, n)
  BY <1>3, <1>4, ZeroFromIs
<1> QED BY <1>2, <1>5

(* A step that cuts nothing.                                               *)
Whole(t) == NotPadding(t) /\ \A st : Limit(t, st) = MaxSize

LEMMA WholeIs ==
  /\ Whole(<<>>)
  /\ \A t : t # <<>> /\ Head(t).a \in {"write", "flush", "grow", "prune"} => Whole(t)
  /\ \A t : t # <<>> /\ Head(t).a \in {"hdr", "hole"} /\ Head(t).n = 0 => Whole(t)
  /\ \A t \in Seq(Steps) : Rest(t) => Whole(t)
<1>1. Whole(<<>>)
  BY DEF Whole, NotPadding, Limit
<1>2. ASSUME NEW t, t # <<>>, Head(t).a \in {"write", "flush", "grow", "prune"}
      PROVE  Whole(t)
  BY <1>2 DEF Whole, NotPadding, Limit
<1>3. ASSUME NEW t, t # <<>>, Head(t).a \in {"hdr", "hole"}, Head(t).n = 0
      PROVE  Whole(t)
  BY <1>3 DEF Whole, NotPadding, Limit
<1>4. ASSUME NEW t \in Seq(Steps), Rest(t) PROVE Whole(t)
  BY <1>4, RestIs DEF Whole
<1> QED BY <1>1, <1>2, <1>3, <1>4

LEMMA WrittenBytes ==
  ASSUME NEW t, NEW fs, NEW w, NEW p, Turning(t, fs, w, p),
         NEW v, v = Overlay(w, p.off, Copied(p))
  PROVE  /\ v \in Seq(Byte) /\ Len(v) = Larger(Len(w), p.off + Turn(p))
         /\ fs <= Len(v) /\ Len(v) <= Larger(fs, p.off + Turn(p))
         /\ Fills(p, Tail(t)) /\ ZeroFrom(w, p.fill) => ZeroFrom(v, p.fill)
<1>1. /\ p \in Writing /\ Len(p.b) >= 1 /\ p.off + Len(p.b) <= MaxSize
      /\ fs \in Nat /\ w \in Seq(Byte) /\ Len(w) \in Nat
      /\ fs <= Len(w) /\ Len(w) <= Larger(fs, p.off)
  BY Bounds, BytesAre DEF Turning
<1>2. p.off \in Nat /\ p.fill \in Int
  BY <1>1, WritingHas
<1>3. /\ Turn(p) \in Nat /\ Turn(p) >= 1 /\ Turn(p) <= Len(p.b)
      /\ Copied(p) \in Seq(Byte) /\ Len(Copied(p)) = Turn(p)
      /\ \A q \in 1 .. Turn(p) : Copied(p)[q] = p.b[q]
  BY <1>1, TurnIs
<1>4. v \in Seq(Byte) /\ Len(v) = Larger(Len(w), p.off + Turn(p))
  <2>1. PICK b \in Seq(Byte) : b = Copied(p) /\ Len(b) = Turn(p)
    BY <1>3
  <2>2. PICK off \in Nat : off = p.off
    BY <1>2
  <2>3. v = Overlay(w, off, b)
    BY <2>1, <2>2
  <2>4. Overlay(w, off, b) \in Seq(Byte)
        /\ Len(Overlay(w, off, b)) = Larger(Len(w), off + Len(b))
    BY <1>1, OverlayIs
  <2> QED BY <2>1, <2>2, <2>3, <2>4
<1>5. fs <= Len(v) /\ Len(v) <= Larger(fs, p.off + Turn(p))
  BY <1>1, <1>2, <1>3, <1>4 DEF Larger
<1>6. ASSUME Fills(p, Tail(t)), ZeroFrom(w, p.fill)
      PROVE  ZeroFrom(v, p.fill)
  <2>1. PICK b \in Seq(Byte) : b = Copied(p) /\ Len(b) = Turn(p)
    BY <1>3
  <2>2. \A q \in 1 .. Len(b) : b[q] = Zero
    <3>1. Len(p.b) \in Nat
      BY <1>1, WritingHas
    <3>2. \A q \in 1 .. Turn(p) : q \in 1 .. Len(p.b)
      BY <1>3, <3>1
    <3>3. \A q \in 1 .. Len(p.b) : p.b[q] = Zero
      BY <1>6 DEF Fills
    <3> QED BY <1>3, <2>1, <3>2, <3>3
  <2>3. p.fill \in Nat
    BY <1>1, <1>6, WritingHas DEF Fills
  <2>4. ZeroFrom(Overlay(w, p.off, b), p.fill)
    BY <1>1, <1>2, <1>6, <2>2, <2>3, ZeroOverlay
  <2> QED BY <2>1, <2>4
<1> QED BY <1>4, <1>5, <1>6

LEMMA PlanMore ==
  ASSUME NEW t, NEW fs, NEW w, NEW p, Turning(t, fs, w, p), Turn(p) < Len(p.b),
         NEW c, NEW v, v = Overlay(w, p.off, Copied(p)),
         NEW u, u = Left(p) \o Tail(t)
  PROVE  Plan(u, fs, v, c) /\ Whole(u)
<1>1. /\ t \in Seq(Steps) /\ t # <<>> /\ Tail(t) \in Seq(Steps) /\ p = Head(t)
      /\ p \in Writing /\ Len(p.b) >= 1 /\ p.off + Len(p.b) <= MaxSize
      /\ fs \in 0 .. MaxSize /\ fs \in Nat
  BY Bounds DEF Turning
<1>2. /\ p.off \in Nat /\ p.off \in 0 .. MaxSize /\ p.fill \in -1 .. MaxSize /\ p.fill \in Int
      /\ p.more \in 0 .. MaxSize /\ p.b \in Seq(Byte) /\ Len(p.b) \in Nat
      /\ p.more \in Nat
  BY <1>1, WritingHas
<1>3. PICK n \in Nat : n = Turn(p) /\ n >= 1 /\ n < Len(p.b)
  BY <1>1, TurnIs
<1>4. /\ v \in Seq(Byte) /\ fs <= Len(v) /\ Len(v) <= Larger(fs, p.off + n)
      /\ Fills(p, Tail(t)) /\ ZeroFrom(w, p.fill) => ZeroFrom(v, p.fill)
  BY <1>3, WrittenBytes
<1>5. PICK b \in Seq(Byte) :
        /\ b = SubSeq(p.b, n + 1, Len(p.b)) /\ Len(b) = Len(p.b) - n
        /\ \A q \in 1 .. Len(p.b) - n : b[q] = p.b[n + q]
  <2>1. /\ SubSeq(p.b, n + 1, Len(p.b)) \in Seq(Byte)
        /\ Len(SubSeq(p.b, n + 1, Len(p.b))) = Len(p.b) - n
        /\ \A q \in 1 .. Len(p.b) - n : SubSeq(p.b, n + 1, Len(p.b))[q] = p.b[n + q]
    <3>1. PICK s \in Seq(Byte), m \in Nat : s = p.b /\ m = Len(s) /\ n < m
      BY <1>2, <1>3
    <3>2. /\ SubSeq(s, n + 1, m) \in Seq(Byte) /\ Len(SubSeq(s, n + 1, m)) = m - n
          /\ \A q \in 1 .. m - n : SubSeq(s, n + 1, m)[q] = s[n + q]
      BY <1>3, <3>1
    <3> QED BY <3>1, <3>2
  <2> QED BY <2>1
<1>6. p.off + n \in 0 .. MaxSize
  BY <1>1, <1>2, <1>3, Bounds
<1>7. PICK x : x = Write(p.off + n, b, p.fill, p.more)
  OBVIOUS
<1>8. /\ x \in Writing /\ x \in Steps /\ x.a = "write" /\ x.off = p.off + n
      /\ x.b = b /\ x.fill = p.fill /\ x.more = p.more
  BY <1>2, <1>6, <1>7, WritingIs
<1>9. u = <<x>> \o Tail(t)
  <2>1. Left(p) = <<x>>
    BY <1>3, <1>5, <1>7 DEF Left
  <2> QED BY <2>1
<1>10. u \in Seq(Steps) /\ u # <<>> /\ Head(u) = x /\ Tail(u) = Tail(t)
  BY <1>1, <1>8, <1>9, Prefixed
<1>11. Whole(u)
  BY <1>8, <1>10, WholeIs
<1>12. CASE Call(t)
  <2>1. /\ Tail(t) = <<>> /\ p.fill = -1 /\ p.more = 0
    BY <1>1, <1>12 DEF Call
  <2>2. Call(u)
    <3>1. Len(x.b) > 0 /\ x.off + Len(x.b) <= MaxSize
      <4>1. PICK off, m \in Nat : off = p.off /\ m = Len(p.b)
        BY <1>2
      <4>2. Len(x.b) = m - n /\ x.off = off + n
        BY <1>5, <1>8, <4>1
      <4>3. m - n > 0 /\ (off + n) + (m - n) <= MaxSize
        BY <1>1, <1>3, <4>1, Bounds
      <4> QED BY <4>2, <4>3
    <3> QED BY <1>8, <1>10, <2>1, <3>1 DEF Call
  <2>3. AtWrite(u, fs, v)
    BY <1>4, <1>8, <1>10, <2>2 DEF AtWrite
  <2> QED BY <1>1, <1>4, <1>8, <1>10, <1>11, <2>3 DEF Plan
<1>13. CASE /\ Fills(p, Tail(t)) /\ Rest(Tail(t))
            /\ p.fill <= fs /\ ZeroFrom(w, p.fill) /\ fs <= Goal(Tail(t))
  <2>1. /\ p.fill # -1 /\ p.fill <= p.off /\ Len(p.b) \in 1 .. ChunkBytes
        /\ \A q \in 1 .. Len(p.b) : p.b[q] = Zero
        /\ p.off + Len(p.b) + p.more = Goal(Tail(t))
    BY <1>13 DEF Fills
  <2>2. \A q \in 1 .. Len(b) : b[q] = Zero
    <3>1. \A q \in 1 .. Len(p.b) - n : n + q \in 1 .. Len(p.b)
      BY <1>2, <1>3
    <3> QED BY <1>5, <2>1, <3>1
  <2>3. Len(b) \in 1 .. ChunkBytes /\ x.off + Len(b) + x.more = Goal(Tail(t))
        /\ x.fill <= x.off
    <3>1. PICK m \in Nat : m = Len(p.b) /\ m <= ChunkBytes /\ n < m
      BY <1>2, <1>3, <2>1, Bounds
    <3>2. Len(b) = m - n /\ Len(b) \in 1 .. ChunkBytes
      BY <1>3, <1>5, <3>1, Bounds
    <3>3. x.off + Len(b) + x.more = Goal(Tail(t))
      <4>1. PICK off, more \in Nat : off = p.off /\ more = p.more
        BY <1>2
      <4>2. off + m + more = Goal(Tail(t))
        BY <2>1, <3>1, <4>1
      <4>3. x.off + Len(b) + x.more = (off + n) + (m - n) + more
        BY <1>8, <3>2, <4>1
      <4>4. (off + n) + (m - n) + more = off + m + more
        BY <1>3, <3>1, <4>1
      <4> QED BY <4>2, <4>3, <4>4
    <3>4. x.fill <= x.off
      BY <1>2, <1>3, <1>8, <2>1
    <3> QED BY <3>2, <3>3, <3>4
  <2>4. Fills(x, Tail(t))
    BY <1>8, <2>1, <2>2, <2>3 DEF Fills
  <2>5. ZeroFrom(v, x.fill)
    BY <1>4, <1>8, <1>13
  <2>6. PICK r \in Seq(Steps) : r = Tail(t)
    BY <1>1
  <2>7. Plan(<<x>> \o r, fs, v, c)
    BY <1>1, <1>4, <1>8, <1>13, <2>4, <2>5, <2>6, PlanFill
  <2> QED BY <1>9, <1>11, <2>6, <2>7
<1> QED BY <1>12, <1>13 DEF Turning

(* x, y and the rest are the plan.                                         *)
Ahead(z, x, y, r) ==
  /\ z \in Seq(Steps) /\ z # <<>> /\ Head(z) = x
  /\ Tail(z) \in Seq(Steps) /\ Tail(z) # <<>> /\ Head(Tail(z)) = y
  /\ Tail(Tail(z)) = r

LEMMA AheadIs ==
  ASSUME NEW x \in Steps, NEW y \in Steps, NEW r \in Seq(Steps)
  PROVE  /\ Ahead(<<x, y>> \o r, x, y, r)
         /\ Ahead(<<x>> \o (<<y>> \o r), x, y, r)
         /\ Ahead((<<x>> \o <<y>>) \o r, x, y, r)
<1>1. <<x, y>> \o r = <<x>> \o (<<y>> \o r)
  BY Joined DEF Two
<1>2. PICK s \in Seq(Steps) : s = <<y>> \o r /\ s # <<>> /\ Head(s) = y /\ Tail(s) = r
  BY Prefixed
<1>3. PICK z : z = <<x>> \o s
  OBVIOUS
<1>4. z \in Seq(Steps) /\ z # <<>> /\ Head(z) = x /\ Tail(z) = s
  BY <1>3, Prefixed
<1>5. Ahead(z, x, y, r)
  BY <1>2, <1>4 DEF Ahead
<1>6. (<<x>> \o <<y>>) \o r = z
  BY <1>2, <1>3, Joined DEF Two
<1>7. <<x, y>> \o r = z
  BY <1>1, <1>2, <1>3
<1> QED BY <1>2, <1>3, <1>5, <1>6, <1>7

LEMMA FillsHas ==
  ASSUME NEW p, NEW r \in Seq(Steps), Fills(p, r), Rest(r)
  PROVE  /\ p.fill \in 0 .. MaxSize /\ p.fill \in Nat /\ p.fill # -1 /\ p.fill <= p.off
         /\ p.off <= Goal(r) /\ p.off + Len(p.b) + p.more = Goal(r)
         /\ Goal(r) \in 0 .. MaxSize /\ Goal(r) \in Nat
<1>1. /\ p \in Writing /\ p.fill # -1 /\ p.fill <= p.off
      /\ p.off + Len(p.b) + p.more = Goal(r)
  BY DEF Fills
<1>2. PICK off, more, m \in Nat : off = p.off /\ more = p.more /\ m = Len(p.b)
  BY <1>1, WritingHas
<1>3. p.fill \in -1 .. MaxSize
  BY <1>1, WritingHas
<1>4. Goal(r) \in 0 .. MaxSize /\ Goal(r) \in Nat
  BY RestIs, Bounds
<1>5. off + m + more = Goal(r)
  BY <1>1, <1>2
<1>6. off <= Goal(r)
  BY <1>2, <1>4, <1>5
<1>7. p.fill \in 0 .. MaxSize /\ p.fill \in Nat
  BY <1>1, <1>3, Bounds
<1> QED BY <1>1, <1>2, <1>4, <1>6, <1>7

LEMMA PlanLast ==
  ASSUME NEW t, NEW fs, NEW w, NEW p, Turning(t, fs, w, p), Turn(p) = Len(p.b),
         NEW c, NEW v, v = Overlay(w, p.off, Copied(p)),
         NEW f, f = Larger(fs, p.off + Turn(p)),
         NEW u, u = Left(p) \o Tail(t)
  PROVE  Plan(u, f, v, c) /\ Whole(u)
<1>1. /\ t \in Seq(Steps) /\ t # <<>> /\ Tail(t) \in Seq(Steps) /\ p = Head(t)
      /\ p \in Writing /\ Len(p.b) >= 1 /\ p.off + Len(p.b) <= MaxSize
      /\ fs \in 0 .. MaxSize /\ fs \in Nat
  BY Bounds DEF Turning
<1>2. PICK off, more, n \in Nat : off = p.off /\ more = p.more /\ n = Len(p.b)
  BY <1>1, WritingHas
<1>3. Turn(p) = n /\ off + n <= MaxSize
  BY <1>1, <1>2
<1>4. /\ v \in Seq(Byte) /\ fs <= Len(v) /\ Len(v) <= f /\ Len(v) >= off + n
      /\ Fills(p, Tail(t)) /\ ZeroFrom(w, p.fill) => ZeroFrom(v, p.fill)
  <2>1. /\ v \in Seq(Byte) /\ fs <= Len(v) /\ Len(v) <= Larger(fs, p.off + Turn(p))
        /\ Len(v) = Larger(Len(w), p.off + Turn(p))
        /\ Fills(p, Tail(t)) /\ ZeroFrom(w, p.fill) => ZeroFrom(v, p.fill)
    BY WrittenBytes
  <2>2. Len(w) \in Nat
    BY BytesAre DEF Turning
  <2>3. Len(v) >= off + n
    BY <1>2, <1>3, <2>1, <2>2 DEF Larger
  <2> QED BY <2>1, <2>3
<1>5. f = Larger(fs, off + n)
  BY <1>2, <1>3
<1>6. Len(v) \in Nat /\ Len(v) = f /\ f \in 0 .. MaxSize
  <2>1. Len(v) \in Nat
    BY <1>4, BytesAre
  <2> QED BY <1>1, <1>3, <1>4, <1>5, <2>1, Bounds DEF Larger
<1>7. ASSUME Fills(p, Tail(t)), Rest(Tail(t)), fs <= Goal(Tail(t))
      PROVE  off + n + more = Goal(Tail(t)) /\ f <= Goal(Tail(t))
  <2>1. p.off + Len(p.b) + p.more = Goal(Tail(t)) /\ Goal(Tail(t)) \in Nat
    BY <1>1, <1>7, FillsHas
  <2>2. off + n + more = Goal(Tail(t))
    BY <1>2, <2>1
  <2> QED BY <1>1, <1>5, <1>7, <2>1, <2>2 DEF Larger
<1>8. CASE Call(t)
  <2>1. Tail(t) = <<>> /\ more = 0
    BY <1>1, <1>2, <1>8 DEF Call
  <2>2. Left(p) = <<>>
    BY <1>2, <1>3, <2>1 DEF Left
  <2>3. u = <<>>
    BY <2>1, <2>2
  <2> QED BY <1>4, <1>6, <2>3, PlanNone, WholeIs
<1>9. CASE /\ Fills(p, Tail(t)) /\ Rest(Tail(t))
           /\ p.fill <= fs /\ ZeroFrom(w, p.fill) /\ fs <= Goal(Tail(t))
  <2>1. PICK r \in Seq(Steps) : r = Tail(t)
    BY <1>1
  <2>2. /\ Fills(p, r) /\ Rest(r) /\ off + n + more = Goal(r) /\ f <= Goal(r)
        /\ ZeroFrom(v, p.fill)
    BY <1>4, <1>7, <1>9, <2>1
  <2>3. p.fill \in 0 .. MaxSize /\ p.fill \in Nat /\ p.fill <= off
    BY <1>2, <2>2, FillsHas
  <2>4. CASE more > 0
    <3>1. PICK x : x = Filling(off + n, more, p.fill)
      OBVIOUS
    <3>2. u = <<x>> \o r
      <4>1. Left(p) = <<x>>
        BY <1>2, <1>3, <2>4, <3>1 DEF Left
      <4> QED BY <2>1, <4>1
    <3>3. x \in Steps /\ x.a = "write" /\ x.off = off + n /\ x.fill = p.fill /\ Fills(x, r)
      <4>1. p.fill <= off + n /\ more \in Nat \ {0}
        BY <2>3, <2>4
      <4> QED BY <2>2, <2>3, <3>1, <4>1, FillingIs
    <3>4. f <= Len(v) /\ Len(v) <= Larger(f, x.off)
      BY <1>5, <1>6, <3>3 DEF Larger
    <3>5. x.fill <= f
      BY <1>1, <1>5, <1>9, <2>3, <3>3 DEF Larger
    <3>6. Plan(<<x>> \o r, f, v, c)
      BY <1>4, <1>6, <2>2, <3>3, <3>4, <3>5, PlanFill
    <3>7. Whole(u)
      BY <3>2, <3>3, Prefixed, WholeIs
    <3> QED BY <3>2, <3>6, <3>7
  <2>5. CASE ~(more > 0)
    <3>1. u = r
      <4>1. Left(p) = <<>>
        BY <1>2, <1>3, <2>5 DEF Left
      <4> QED BY <2>1, <4>1
    <3> QED BY <1>4, <1>6, <2>2, <3>1, PlanRest, WholeIs
  <2> QED BY <2>4, <2>5
<1> QED BY <1>8, <1>9 DEF Turning

(* A turn that fails leaves the bytes alone.                               *)
LEMMA PlanFails ==
  ASSUME NEW t, NEW fs, NEW w, NEW p, Turning(t, fs, w, p),
         NEW c, NEW v, v = Overlay(w, p.off, <<>>),
         NEW f, f = Larger(fs, p.off),
         NEW u, u = (IF p.fill = -1 THEN <<>>
                     ELSE <<Step("prune", p.fill), Step("hole", 1)>>) \o Tail(t)
  PROVE  /\ Plan(u, f, v, c) /\ Whole(u)
         /\ v \in Seq(Byte) /\ SameAt(v, w)
<1>1. /\ t \in Seq(Steps) /\ t # <<>> /\ Tail(t) \in Seq(Steps) /\ p = Head(t)
      /\ p \in Writing /\ Len(p.b) >= 1 /\ p.off + Len(p.b) <= MaxSize
      /\ fs \in 0 .. MaxSize /\ fs \in Nat
      /\ w \in Seq(Byte) /\ Len(w) \in Nat /\ fs <= Len(w) /\ Len(w) <= Larger(fs, p.off)
  BY Bounds, BytesAre DEF Turning
<1>2. PICK off \in Nat : off = p.off /\ off <= MaxSize
  BY <1>1, WritingHas, Bounds
<1>3. /\ v \in Seq(Byte) /\ Len(v) = Larger(Len(w), off)
      /\ \A q \in Nat \ {0} : At(v, q) = At(w, q)
  <2>1. PICK b \in Seq(Byte) : b = <<>> /\ Len(b) = 0
    <3>1. <<>> \in Seq(Byte) /\ Len(<<>>) = 0
      OBVIOUS
    <3> QED BY <3>1
  <2>2. v = Overlay(w, off, b)
    BY <1>2, <2>1
  <2>3. /\ Overlay(w, off, b) \in Seq(Byte)
        /\ Len(Overlay(w, off, b)) = Larger(Len(w), off + Len(b))
        /\ \A q \in Nat \ {0} :
             At(Overlay(w, off, b), q) =
               IF q \in off + 1 .. off + Len(b) THEN b[q - off] ELSE At(w, q)
    BY <1>1, OverlayIs, ZenonT(60)
  <2>4. off + Len(b) = off /\ \A q : q \notin off + 1 .. off + Len(b)
    BY <2>1
  <2> QED BY <2>2, <2>3, <2>4
<1>7. SameAt(v, w)
  BY <1>3 DEF SameAt
<1>4. Len(v) = f /\ f \in 0 .. MaxSize /\ f \in Nat
  BY <1>1, <1>2, <1>3, Bounds DEF Larger
<1>5. CASE Call(t)
  <2>1. Tail(t) = <<>> /\ p.fill = -1
    BY <1>1, <1>5 DEF Call
  <2>2. u = <<>>
    BY <2>1
  <2> QED BY <1>3, <1>7, <1>4, <2>2, PlanNone, WholeIs
<1>6. CASE /\ Fills(p, Tail(t)) /\ Rest(Tail(t))
           /\ p.fill <= fs /\ ZeroFrom(w, p.fill) /\ fs <= Goal(Tail(t))
  <2>1. PICK r \in Seq(Steps) : r = Tail(t)
    BY <1>1
  <2>2. /\ Fills(p, r) /\ Rest(r) /\ p.fill \in Nat /\ p.fill \in 0 .. MaxSize
        /\ p.fill # -1 /\ off <= Goal(r) /\ fs <= Goal(r) /\ p.fill <= f
    <3>1. /\ Fills(p, r) /\ Rest(r) /\ fs <= Goal(r)
      BY <1>6, <2>1
    <3>2. p.fill \in Nat /\ p.fill \in 0 .. MaxSize /\ p.fill # -1 /\ off <= Goal(r)
      BY <1>2, <3>1, FillsHas
    <3>3. p.fill <= f
      BY <1>1, <1>2, <1>6, <3>2 DEF Larger
    <3> QED BY <3>1, <3>2, <3>3
  <2>3. PICK x, y \in Steps : x = Step("prune", p.fill) /\ y = Step("hole", 1)
    BY <2>2, SmallSteps
  <2>4. u = <<x, y>> \o r
    BY <2>1, <2>2, <2>3
  <2>11. Ahead(u, x, y, r)
    BY <2>4, AheadIs
  <2>5. PICK s \in Seq(Steps) : s = Tail(u) /\ s # <<>> /\ Head(s) = y /\ Tail(s) = r
    BY <2>11 DEF Ahead
  <2>6. u \in Seq(Steps) /\ u # <<>> /\ Head(u) = x /\ Tail(u) = s
    BY <2>11, <2>5 DEF Ahead
  <2>7. x.a = "prune" /\ x.n = p.fill
    BY <2>3, StepHas
  <2>8. ZeroFrom(v, p.fill)
    <3>1. \A q \in Nat \ {0} : q > p.fill => At(w, q) = Zero
      BY <1>1, <1>6, <2>2, ZeroFromIs
    <3>2. \A q \in Nat \ {0} : q > p.fill => At(v, q) = Zero
      BY <1>3, <3>1
    <3> QED BY <1>3, <2>2, <3>2, ZeroFromIs
  <2>9. AtCut(u, f, v, c)
    <3>1. f <= Goal(r)
      BY <1>1, <1>2, <2>2 DEF Larger
    <3>2. p.fill \in 0 .. f
      BY <1>4, <2>2
    <3>3. Head(u) = Step("prune", p.fill) /\ Head(u).n = p.fill
      BY <2>3, <2>6, <2>7
    <3> QED BY <2>2, <2>3, <2>5, <2>6, <2>8, <3>1, <3>2, <3>3 DEF AtCut
  <2>10. Plan(u, f, v, c)
    BY <1>3, <1>4, <2>6, <2>7, <2>9 DEF Plan
  <2> QED BY <1>3, <1>7, <2>6, <2>7, <2>10, WholeIs
<1> QED BY <1>5, <1>6 DEF Turning

(* The other steps.                                                        *)

LEMMA PlanFlush ==
  ASSUME NEW t, NEW fs, NEW w, NEW c, Plan(t, fs, w, c), t # <<>>, Head(t).a = "flush",
         NEW d, Head(t).n = 1 => d = <<>>
  PROVE  Plan(Tail(t), fs, w, d) /\ Whole(Tail(t))
<1>1. /\ Tail(t) \in Seq(Steps) /\ fs \in 0 .. MaxSize /\ w \in Seq(Byte) /\ Len(w) = fs
      /\ AtFlush(t, fs)
  BY PlanCases
<1>2. PICK u \in Seq(Steps) : u = Tail(t)
  BY <1>1
<1>3. CASE u = <<>>
  BY <1>1, <1>2, <1>3, PlanNone, WholeIs
<1>4. CASE u = <<Step("hdr", 0)>>
  <2>1. Plan(u, fs, w, d)
    BY <1>1, <1>4, PlanHdr
  <2>2. PICK x \in Steps : x = Step("hdr", 0) /\ x.a = "hdr" /\ x.n = 0
    BY SmallSteps, StepHas
  <2>3. u # <<>> /\ Head(u) = x
    BY <1>4, <2>2, One
  <2>4. Whole(u)
    BY <2>2, <2>3, WholeIs
  <2> QED BY <1>2, <2>1, <2>4
<1>5. CASE /\ Head(t) = Step("flush", 1) /\ u # <<>>
           /\ \E n \in 0 .. fs : Head(u) = Step("prune", n)
           /\ Tail(u) = <<Step("hdr", 1)>>
  <2>1. d = <<>>
    BY <1>5, StepHas
  <2>2. Head(u).a = "prune"
    BY <1>5, StepHas
  <2>3. AtCut(u, fs, w, d)
    BY <1>5, <2>1 DEF AtCut
  <2> QED BY <1>1, <1>2, <1>5, <2>2, <2>3, WholeIs DEF Plan
<1>6. CASE u # <<>> /\ Head(u) = Step("hole", 0) /\ AtHole(u, fs)
  <2>1. Head(u).a = "hole" /\ Head(u).n = 0
    BY <1>6, StepHas
  <2> QED BY <1>1, <1>2, <1>6, <2>1, WholeIs DEF Plan
<1>7. CASE /\ u # <<>> /\ Fills(Head(u), Tail(u)) /\ Growth(Tail(u))
           /\ Head(u).off = fs /\ Head(u).fill = fs
  <2>1. PICK r \in Seq(Steps) : r = Tail(u) /\ Rest(r) /\ Fills(Head(u), r)
    BY <1>7, PlanIs DEF Rest
  <2>2. Head(u).a = "write" /\ fs \in Nat /\ fs <= Goal(r)
    <3>1. Head(u) \in Writing
      BY <2>1 DEF Fills
    <3> QED BY <1>1, <1>7, <2>1, <3>1, FillsHas, WritingHas, Bounds
  <2>3. ZeroFrom(w, fs)
    <3>1. \A q \in fs + 1 .. fs : FALSE
      BY <2>2
    <3> QED BY <1>1, <3>1 DEF ZeroFrom
  <2>4. AtWrite(u, fs, w)
    <3>1. fs <= Len(w) /\ Len(w) <= Larger(fs, Head(u).off) /\ Head(u).fill <= fs
      BY <1>1, <1>7, <2>2 DEF Larger
    <3> QED BY <1>7, <2>1, <2>2, <2>3, <3>1 DEF AtWrite
  <2> QED BY <1>1, <1>2, <1>7, <2>2, <2>4, WholeIs DEF Plan
<1> QED BY <1>1, <1>2, <1>3, <1>4, <1>5, <1>6, <1>7 DEF AtFlush

(* A flush that goes on does not depend on the cache.                      *)
LEMMA PlanStays ==
  ASSUME NEW t, NEW fs, NEW w, NEW c, Plan(t, fs, w, c), t # <<>>,
         Head(t).a \in {"flush", "write"}, NEW d
  PROVE  Plan(t, fs, w, d)
<1>1. Head(t).a = "flush" => AtFlush(t, fs)
  BY PlanCases
<1> QED BY <1>1 DEF Plan

LEMMA PlanIdle ==
  ASSUME NEW fs, NEW w, NEW c, Plan(<<>>, fs, w, c), NEW d
  PROVE  Plan(<<>>, fs, w, d)
  BY DEF Plan

LEMMA PlanHead ==
  ASSUME NEW t, NEW fs, NEW w, NEW c, Plan(t, fs, w, c), t # <<>>,
         Head(t).a \in {"hdr", "hole"}
  PROVE  /\ Plan(Tail(t), fs, w, c) /\ Whole(Tail(t))
         /\ NotPadding(t)
         /\ \A st : Limit(t, st) = MaxSize \/ Limit(t, st) = st
<1>1. /\ Tail(t) \in Seq(Steps) /\ fs \in 0 .. MaxSize /\ w \in Seq(Byte) /\ Len(w) = fs
      /\ AtHdr(t) \/ AtHole(t, fs)
  BY PlanCases
<1>2. CASE AtHdr(t)
  <2>1. PICK n \in {0, 1} : t = <<Step("hdr", n)>>
    BY <1>2 DEF AtHdr
  <2>2. PICK x \in Steps : x = Step("hdr", n)
    BY SmallSteps
  <2>3. Tail(t) = <<>>
    BY <2>1, <2>2, One
  <2> QED BY <1>1, <2>3, PlanNone, WholeIs DEF NotPadding, Limit
<1>3. CASE AtHole(t, fs)
  <2>1. Rest(Tail(t)) /\ fs <= Goal(Tail(t))
    BY <1>3 DEF AtHole
  <2> QED BY <1>1, <2>1, PlanRest, WholeIs DEF NotPadding, Limit
<1> QED BY <1>1, <1>2, <1>3

LEMMA PlanGrow ==
  ASSUME NEW t, NEW fs, NEW w, NEW c, Plan(t, fs, w, c), t # <<>>, Head(t).a = "grow",
         NEW v, v = w \o Zeros(Head(t).n - Len(w))
  PROVE  /\ Plan(Tail(t), Head(t).n, v, c) /\ Whole(Tail(t))
         /\ v \in Seq(Byte) /\ SameAt(v, w)
<1>1. /\ Tail(t) \in Seq(Steps) /\ fs \in 0 .. MaxSize /\ w \in Seq(Byte) /\ Len(w) = fs
      /\ AtGrow(t, fs)
  BY PlanCases
<1>2. PICK n \in 0 .. MaxSize : n = Head(t).n /\ fs <= n /\ Tail(t) = <<Step("hdr", 0)>>
  <2>1. PICK n \in 0 .. MaxSize : Head(t) = Step("grow", n)
    BY <1>1 DEF AtGrow, Growth
  <2>2. Head(t).a = "grow" /\ Head(t).n = n
    BY <2>1, StepHas
  <2>3. fs <= Goal(t) /\ Tail(t) = <<Step("hdr", 0)>>
    BY <1>1 DEF AtGrow, Growth
  <2> QED BY <2>2, <2>3 DEF Goal
<1>3. PICK m \in Nat : m = n - Len(w) /\ Len(w) + m = n
  BY <1>1, <1>2, Bounds
<1>4. /\ v \in Seq(Byte) /\ Len(v) = n
      /\ \A q \in Nat \ {0} : At(v, q) = At(w, q)
  <2>1. v = w \o Zeros(m)
    BY <1>2, <1>3
  <2>2. /\ w \o Zeros(m) \in Seq(Byte) /\ Len(w \o Zeros(m)) = Len(w) + m
        /\ \A q \in Nat \ {0} : At(w \o Zeros(m), q) = At(w, q)
    BY <1>1, AtGrown
  <2> QED BY <1>3, <2>1, <2>2
<1>5. PICK x \in Steps : x = Step("hdr", 0) /\ x.a = "hdr" /\ x.n = 0
  BY SmallSteps, StepHas
<1>6. Tail(t) # <<>> /\ Head(Tail(t)) = x
  BY <1>2, <1>5, One
<1>7. Whole(Tail(t))
  BY <1>5, <1>6, WholeIs
<1>8. Plan(Tail(t), n, v, c)
  BY <1>2, <1>4, PlanHdr
<1>9. SameAt(v, w)
  BY <1>4 DEF SameAt
<1> QED BY <1>2, <1>4, <1>7, <1>8, <1>9

(* The file is being cut off at n; what is cached behind it is zero.       *)
CutAt(t, fs, w, c, n) ==
  /\ n \in 0 .. fs /\ n \in Nat /\ fs \in 0 .. MaxSize /\ w \in Seq(Byte) /\ Len(w) = fs
  /\ Head(t).n = n
  /\ c = <<>> \/ ZeroFrom(w, n)

LEMMA PlanPrune ==
  ASSUME NEW t, NEW fs, NEW w, NEW c, Plan(t, fs, w, c), t # <<>>, Head(t).a = "prune",
         NEW u, u = <<Step("pad", Head(t).n)>> \o Tail(t)
  PROVE  /\ CutAt(t, fs, w, c, Head(t).n) /\ Plan(u, fs, w, c)
         /\ u # <<>> /\ Head(u).a = "pad" /\ Head(u).n = Head(t).n
<1>1. /\ Tail(t) \in Seq(Steps) /\ fs \in 0 .. MaxSize /\ w \in Seq(Byte) /\ Len(w) = fs
      /\ AtCut(t, fs, w, c) /\ fs \in Nat
  BY PlanCases, Bounds
<1>2. PICK n \in 0 .. fs : n = Head(t).n /\ n \in Nat /\ n \in 0 .. MaxSize
  <2>1. PICK a \in {"prune", "pad"}, n \in 0 .. fs : Head(t) = Step(a, n)
    BY <1>1 DEF AtCut
  <2> QED BY <1>1, <2>1, StepHas, Bounds
<1>3. CutAt(t, fs, w, c, n)
  BY <1>1, <1>2 DEF AtCut, CutAt
<1>4. PICK x \in Steps : x = Step("pad", n) /\ x.a = "pad" /\ x.n = n
  BY <1>2, SmallSteps, StepHas
<1>5. u = <<x>> \o Tail(t)
  BY <1>2, <1>4
<1>6. u \in Seq(Steps) /\ u # <<>> /\ Head(u) = x /\ Tail(u) = Tail(t)
  BY <1>1, <1>5, Prefixed
<1>7. AtCut(u, fs, w, c)
  BY <1>1, <1>2, <1>4, <1>6 DEF AtCut
<1>8. Plan(u, fs, w, c)
  BY <1>1, <1>4, <1>6, <1>7 DEF Plan
<1> QED BY <1>2, <1>3, <1>4, <1>6, <1>8

LEMMA PlanPad ==
  ASSUME NEW t, NEW fs, NEW w, NEW c, Plan(t, fs, w, c), t # <<>>, Head(t).a = "pad",
         NEW v, v = SubSeq(w, 1, Head(t).n)
  PROVE  /\ CutAt(t, fs, w, c, Head(t).n) /\ Plan(Tail(t), Head(t).n, v, c)
         /\ Tail(t) # <<>> /\ Head(Tail(t)).a \in {"hdr", "hole"} /\ Head(Tail(t)).n = 1
<1>1. /\ Tail(t) \in Seq(Steps) /\ fs \in 0 .. MaxSize /\ w \in Seq(Byte) /\ Len(w) = fs
      /\ AtCut(t, fs, w, c) /\ fs \in Nat /\ MaxSize \in Nat
  BY PlanCases, Bounds
<1>2. PICK n \in 0 .. fs : n = Head(t).n /\ n \in Nat /\ n \in 0 .. MaxSize
  <2>1. PICK a \in {"prune", "pad"}, n \in 0 .. fs : Head(t) = Step(a, n)
    BY <1>1 DEF AtCut
  <2> QED BY <1>1, <2>1, StepHas, Bounds
<1>3. CutAt(t, fs, w, c, n)
  BY <1>1, <1>2 DEF AtCut, CutAt
<1>4. v \in Seq(Byte) /\ Len(v) = n
  BY <1>1, <1>2, AtCutOff
<1>5. CASE Tail(t) = <<Step("hdr", 1)>>
  <2>1. PICK x \in Steps : x = Step("hdr", 1) /\ x.a = "hdr" /\ x.n = 1
    BY SmallSteps, StepHas
  <2>2. Tail(t) # <<>> /\ Head(Tail(t)) = x
    BY <1>5, <2>1, One
  <2>3. Plan(Tail(t), n, v, c)
    BY <1>2, <1>4, <1>5, PlanHdr
  <2> QED BY <1>2, <1>3, <2>1, <2>2, <2>3
<1>6. CASE /\ Tail(t) # <<>>
           /\ Head(Tail(t)) = Step("hole", 1) /\ Rest(Tail(Tail(t)))
           /\ fs <= Goal(Tail(Tail(t)))
  <2>1. PICK s \in Seq(Steps) : s = Tail(t)
    BY <1>1
  <2>2. /\ s # <<>> /\ Head(s) = Step("hole", 1) /\ Rest(Tail(s))
        /\ fs <= Goal(Tail(s)) /\ Tail(s) \in Seq(Steps) /\ Goal(Tail(s)) \in Nat
        /\ Head(s).a = "hole" /\ Head(s).n = 1
    <3>1. /\ s # <<>> /\ Head(s) = Step("hole", 1) /\ Rest(Tail(s))
          /\ fs <= Goal(Tail(s))
      BY <1>6, <2>1
    <3>2. Head(s).a = "hole" /\ Head(s).n = 1
      BY <3>1, StepHas
    <3>3. Tail(s) \in Seq(Steps)
      BY <3>1, PlanIs
    <3>4. Goal(Tail(s)) \in Nat
      <4>1. PICK r \in Seq(Steps) : r = Tail(s) /\ Rest(r)
        BY <3>1, <3>3
      <4>2. Goal(r) \in 0 .. MaxSize
        BY <4>1, RestIs
      <4> QED BY <4>1, <4>2, Bounds
    <3> QED BY <3>1, <3>2, <3>3, <3>4
  <2>3. n <= Goal(Tail(s))
    BY <1>1, <1>2, <2>2
  <2>4. AtHole(s, n)
    BY <2>2, <2>3 DEF AtHole
  <2>5. Plan(s, n, v, c)
    BY <1>2, <1>4, <2>2, <2>4 DEF Plan
  <2> QED BY <1>2, <1>3, <2>1, <2>2, <2>5
<1> QED BY <1>1, <1>5, <1>6 DEF AtCut

(* The plans that calls begin with.                                        *)

LEMMA HoleIs ==
  ASSUME file_size \in 0 .. MaxSize, NEW new \in 0 .. MaxSize, NEW room \in BOOLEAN
  PROVE  /\ new <= file_size => HandleHole(new, room) = <<>>
         /\ new > file_size =>
              HandleHole(new, room) \in {<<Filling(file_size, new - file_size, file_size)>>,
                                         <<Step("hole", 0)>>}
  BY Bounds DEF HandleHole

LEMMA HoleStep ==
  ASSUME file_size \in 0 .. MaxSize, NEW new \in 0 .. MaxSize, NEW room \in BOOLEAN,
         new > file_size,
         NEW r \in Seq(Steps), Rest(r), Goal(r) = new
  PROVE  \E x \in Steps :
           /\ HandleHole(new, room) = <<x>>
           /\ \/ x = Step("hole", 0)
              \/ /\ Fills(x, r) /\ x.a = "write" /\ x.off = file_size
                 /\ x.fill = file_size
<1>1. /\ file_size \in Nat /\ new \in Nat /\ new - file_size \in Nat \ {0}
      /\ file_size + (new - file_size) = new /\ file_size <= file_size
  BY Bounds
<1>2. PICK x : x = Filling(file_size, new - file_size, file_size)
  OBVIOUS
<1>3. x \in Steps /\ Fills(x, r) /\ x.a = "write" /\ x.off = file_size /\ x.fill = file_size
  BY <1>1, <1>2, FillingIs
<1>4. Step("hole", 0) \in Steps
  BY SmallSteps
<1>5. HandleHole(new, room) \in {<<x>>, <<Step("hole", 0)>>}
  BY <1>2, HoleIs
<1> QED BY <1>3, <1>4, <1>5

LEMMA PlanWrFile ==
  ASSUME file_size \in 0 .. MaxSize, NEW w \in Seq(Byte), Len(w) = file_size,
         NEW off \in Nat, NEW b \in Seq(Byte), Len(b) > 0, off + Len(b) <= MaxSize,
         NEW room \in BOOLEAN, NEW c,
         NEW u, u = HandleHole(off, room) \o <<Write(off, b, -1, 0)>>
  PROVE  Plan(u, file_size, w, c) /\ Whole(u)
<1>1. /\ file_size \in Nat /\ Len(b) \in Nat /\ off \in 0 .. MaxSize
      /\ -1 \in -1 .. MaxSize /\ 0 \in 0 .. MaxSize
  BY Bounds, BytesAre
<1>2. PICK x \in Steps :
        /\ x = Write(off, b, -1, 0) /\ x \in Writing /\ x.a = "write" /\ x.off = off
        /\ x.b = b /\ x.fill = -1 /\ x.more = 0
  BY <1>1, WritingIs
<1>3. PICK r \in Seq(Steps) : r = <<x>> /\ r # <<>> /\ Head(r) = x /\ Tail(r) = <<>>
  BY One
<1>4. Call(r) /\ Rest(r) /\ Goal(r) = off
  BY <1>2, <1>3 DEF Call, Rest, Goal
<1>5. u = HandleHole(off, room) \o r
  BY <1>2, <1>3
<1>6. CASE off <= file_size
  <2>1. u = r
    BY <1>1, <1>5, <1>6, HoleIs
  <2>2. AtWrite(r, file_size, w)
    <3>1. file_size <= Len(w) /\ Len(w) <= Larger(file_size, Head(r).off)
      BY <1>1, <1>2, <1>3 DEF Larger
    <3> QED BY <1>4, <3>1 DEF AtWrite
  <2> QED BY <1>2, <1>3, <2>1, <2>2, WholeIs DEF Plan
<1>7. CASE off > file_size
  <2>1. PICK y \in Steps :
          /\ HandleHole(off, room) = <<y>>
          /\ \/ y = Step("hole", 0)
             \/ /\ Fills(y, r) /\ y.a = "write" /\ y.off = file_size
                /\ y.fill = file_size
    BY <1>1, <1>4, <1>7, HoleStep
  <2>2. u = <<y>> \o r
    BY <1>5, <2>1
  <2>3. u \in Seq(Steps) /\ u # <<>> /\ Head(u) = y
    BY <2>2, Prefixed
  <2>4. file_size <= Goal(r)
    BY <1>1, <1>4, <1>7
  <2>5. CASE y = Step("hole", 0)
    <3>1. Plan(u, file_size, w, c)
      BY <1>4, <2>2, <2>4, <2>5, PlanHole
    <3>2. y.a = "hole" /\ y.n = 0
      BY <2>5, StepHas
    <3> QED BY <2>3, <3>1, <3>2, WholeIs
  <2>6. CASE Fills(y, r) /\ y.a = "write" /\ y.off = file_size /\ y.fill = file_size
    <3>1. ZeroFrom(w, y.fill)
      <4>1. \A q \in file_size + 1 .. file_size : FALSE
        BY <1>1
      <4> QED BY <2>6, <4>1 DEF ZeroFrom
    <3>2. file_size <= Len(w) /\ Len(w) <= Larger(file_size, y.off) /\ y.fill <= file_size
      BY <1>1, <2>6 DEF Larger
    <3>3. Plan(<<y>> \o r, file_size, w, c)
      BY <1>4, <2>4, <2>6, <3>1, <3>2, PlanFill
    <3> QED BY <2>2, <2>3, <2>6, <3>3, WholeIs
  <2> QED BY <2>1, <2>5, <2>6
<1> QED BY <1>1, <1>6, <1>7

LEMMA PlanFlushing ==
  ASSUME NEW fs \in 0 .. MaxSize, NEW w \in Seq(Byte), Len(w) = fs, NEW c,
         NEW x \in Steps, x.a = "flush", NEW r \in Seq(Steps), NEW u, u = <<x>> \o r,
         \A t : t # <<>> /\ Head(t) = x /\ Tail(t) = r => AtFlush(t, fs)
  PROVE  Plan(u, fs, w, c) /\ Whole(u)
<1>1. u \in Seq(Steps) /\ u # <<>> /\ Head(u) = x /\ Tail(u) = r
  BY Prefixed
<1>2. AtFlush(u, fs)
  BY <1>1
<1> QED BY <1>1, <1>2, WholeIs DEF Plan

LEMMA PlanFlushFile ==
  ASSUME NEW fs \in 0 .. MaxSize, NEW w \in Seq(Byte), Len(w) = fs, NEW c,
         NEW data_sync \in BOOLEAN,
         NEW u, u = <<Step("flush", 0)>> \o
                    (IF data_sync THEN <<>> ELSE <<Step("hdr", 0)>>)
  PROVE  Plan(u, fs, w, c) /\ Whole(u)
<1>1. PICK x, y \in Steps : x = Step("flush", 0) /\ y = Step("hdr", 0) /\ x.a = "flush"
  BY SmallSteps, StepHas
<1>2. PICK r \in Seq(Steps) : r = IF data_sync THEN <<>> ELSE <<y>>
  <2>1. <<y>> \in Seq(Steps) /\ <<>> \in Seq(Steps)
    BY One
  <2> QED BY <2>1
<1>3. u = <<x>> \o r
  BY <1>1, <1>2
<1>4. r \in {<<>>, <<Step("hdr", 0)>>}
  BY <1>1, <1>2
<1>5. ASSUME NEW t, t # <<>>, Head(t) = x, Tail(t) = r
      PROVE  AtFlush(t, fs)
  BY <1>1, <1>4, <1>5 DEF AtFlush
<1> QED BY <1>1, <1>3, <1>5, PlanFlushing

LEMMA PlanResize ==
  ASSUME file_size \in 0 .. MaxSize, NEW w \in Seq(Byte), Len(w) = file_size, NEW c,
         NEW new \in 0 .. MaxSize, new # file_size, NEW room \in BOOLEAN,
         NEW u, u = <<Step("flush", 1)>> \o
             (IF new > file_size
              THEN HandleHole(new, room) \o <<Step("grow", new)>>
                   \o <<Step("hdr", 0)>>
              ELSE <<Step("prune", new), Step("hdr", 1)>>)
  PROVE  Plan(u, file_size, w, c) /\ Whole(u)
<1>1. file_size \in Nat /\ new \in Nat
  BY Bounds
<1>2. PICK x \in Steps : x = Step("flush", 1) /\ x.a = "flush"
  BY SmallSteps, StepHas
<1>3. CASE new > file_size
  <2>1. PICK g, h \in Steps : g = Step("grow", new) /\ h = Step("hdr", 0) /\ g.n = new
                              /\ g.a = "grow"
    BY SmallSteps, StepHas
  <2>2. PICK e \in Seq(Steps) : e = <<h>>
    BY One
  <2>3. PICK r \in Seq(Steps) : r = <<g>> \o e /\ r # <<>> /\ Head(r) = g /\ Tail(r) = e
    BY Prefixed
  <2>4. Growth(r) /\ Rest(r) /\ Goal(r) = new
    BY <2>1, <2>2, <2>3 DEF Growth, Rest, Goal
  <2>5. PICK y \in Steps :
          /\ HandleHole(new, room) = <<y>>
          /\ \/ y = Step("hole", 0)
             \/ /\ Fills(y, r) /\ y.a = "write" /\ y.off = file_size
                /\ y.fill = file_size
    BY <1>3, <2>4, HoleStep
  <2>6. PICK s : s = (<<y>> \o <<g>>) \o e
    OBVIOUS
  <2>7. s \in Seq(Steps) /\ s # <<>> /\ Head(s) = y /\ Tail(s) = r
    <3>1. s = <<y>> \o (<<g>> \o e)
      BY <2>6, Joined DEF Two
    <3>2. s = <<y>> \o r
      BY <2>3, <3>1
    <3> QED BY <3>2, Prefixed
  <2>8. u = <<x>> \o s
    BY <1>2, <1>3, <2>1, <2>2, <2>5, <2>6
  <2>9. CASE y = Step("hole", 0)
    <3>1. AtHole(s, file_size)
      <4>1. file_size <= Goal(r)
        BY <1>1, <1>3, <2>4
      <4> QED BY <2>4, <2>7, <2>9, <4>1 DEF AtHole
    <3>2. ASSUME NEW t, t # <<>>, Head(t) = x, Tail(t) = s
          PROVE  AtFlush(t, file_size)
      BY <1>2, <2>4, <2>7, <2>9, <3>1, <3>2 DEF AtFlush
    <3> QED BY <1>2, <2>7, <2>8, <3>2, PlanFlushing
  <2>10. CASE Fills(y, r) /\ y.off = file_size /\ y.fill = file_size
    <3>1. ASSUME NEW t, t # <<>>, Head(t) = x, Tail(t) = s
          PROVE  AtFlush(t, file_size)
      BY <1>2, <2>4, <2>7, <2>10, <3>1 DEF AtFlush
    <3> QED BY <1>2, <2>7, <2>8, <3>1, PlanFlushing
  <2> QED BY <2>5, <2>9, <2>10
<1>4. CASE new < file_size
  <2>1. PICK y, h \in Steps : y = Step("prune", new) /\ h = Step("hdr", 1)
    BY SmallSteps
  <2>2. PICK e \in Seq(Steps) : e = <<h>>
    BY One
  <2>3. PICK s \in Seq(Steps) : s = <<y>> \o e /\ s # <<>> /\ Head(s) = y /\ Tail(s) = e
    BY Prefixed
  <2>4. <<y, h>> = s
    BY <2>2, <2>3, TwoIs
  <2>5. u = <<x>> \o s
    <3>1. ~(new > file_size)
      BY <1>1, <1>4
    <3>2. u = <<Step("flush", 1)>> \o <<Step("prune", new), Step("hdr", 1)>>
      BY <3>1
    <3> QED BY <1>2, <2>1, <2>4, <3>2
  <2>6. new \in 0 .. file_size
    BY <1>1, <1>4
  <2>7. ASSUME NEW t, t # <<>>, Head(t) = x, Tail(t) = s
        PROVE  AtFlush(t, file_size)
    BY <1>2, <2>1, <2>2, <2>3, <2>6, <2>7 DEF AtFlush
  <2> QED BY <1>2, <2>3, <2>5, <2>7, PlanFlushing
<1>5. new > file_size \/ new < file_size
  BY <1>1
<1> QED BY <1>3, <1>4, <1>5

-----------------------------------------------------------------------------
(* Taking an entry of the cache, and what a turn writes.                   *)

(* An entry of the cache is made free.                                     *)
GrabOK(t, w) ==
  /\ Grabbed \in Seq(Recs) /\ StoredAfterGrab \in 0 .. MaxSize
  /\ InRam(Grabbed, StoredAfterGrab, MaxSize)
  /\ CacheOK(Grabbed, Remaining) /\ DataOK(Grabbed, Remaining, t, w)
  /\ Len(Remaining) < param.n_caches
  /\ Held(Remaining) \subseteq Held(cache)

LEMMA GrabIs ==
  ASSUME log \in Seq(Recs), stored_size \in 0 .. MaxSize,
         InRam(log, stored_size, MaxSize), NEW t, NEW w,
         CacheOK(log, cache), DataOK(log, cache, t, w),
         param.n_caches \in Nat \ {0}, Len(cache) <= param.n_caches
  PROVE  GrabOK(t, w)
<1>1. cache \in Seq(Entries) /\ Distinct(cache) /\ Len(cache) \in Nat
  BY CacheIs DEF CacheOK
<1>2. CASE Len(cache) < param.n_caches
  <2>1. Victims = {} /\ Remaining = cache
    BY <1>2 DEF Victims, Remaining
  <2>2. Grabbed = log /\ StoredAfterGrab = stored_size
    BY <2>1 DEF Grabbed, StoredAfterGrab
  <2> QED BY <1>2, <2>1, <2>2 DEF GrabOK
<1>3. CASE ~(Len(cache) < param.n_caches)
  <2>1. Len(cache) = param.n_caches /\ cache # <<>>
    BY <1>1, <1>3
  <2>2. PICK e : e = Head(cache)
    OBVIOUS
  <2>3. Victims = {e} /\ Remaining = Tail(cache)
    BY <1>3, <2>2 DEF Victims, Remaining
  <2>4. PICK d \in Seq(Entries) :
          /\ d = Tail(cache) /\ Distinct(d) /\ Len(d) = Len(cache) - 1
          /\ Held(d) = Held(cache) \ {e} /\ e \in Held(cache)
    BY <1>1, <2>1, <2>2, TailHeld
  <2>5. Len(d) < param.n_caches
    BY <1>1, <2>1, <2>4
  <2>6. e.dirty \in BOOLEAN
    BY <2>4, CacheHeld, EntryIs
  <2>7. CASE e.dirty
    <3>1. PICK m : m = Program(log, Data(e.chunk, e.data, e.n))
      OBVIOUS
    <3>2. PICK s : s = Larger(stored_size, Base(e.chunk) + e.n)
      OBVIOUS
    <3>3. Grabbed = m /\ StoredAfterGrab = s
      BY <2>2, <2>3, <2>7, <3>1, <3>2 DEF Grabbed, StoredAfterGrab, GrabWrites
    <3>4. /\ m \in Seq(Recs) /\ s \in 0 .. MaxSize /\ InRam(m, s, MaxSize)
          /\ CacheOK(m, cache) /\ DataOK(m, cache, t, w)
          /\ RdDataObj(m, e.chunk) = e.data
      BY <2>4, <2>7, <3>1, <3>2, WriteOut
    <3>5. \A f \in Held(cache) : f \notin Held(d) => RdDataObj(m, f.chunk) = f.data
      BY <2>4, <3>4
    <3>6. CacheOK(m, d) /\ DataOK(m, d, t, w)
      BY <2>4, <3>4, <3>5, DropEntries
    <3> QED BY <2>3, <2>4, <2>5, <3>3, <3>4, <3>6 DEF GrabOK
  <2>8. CASE ~e.dirty
    <3>1. Grabbed = log /\ StoredAfterGrab = stored_size
      BY <2>3, <2>8 DEF Grabbed, StoredAfterGrab, GrabWrites
    <3>2. EntryOK(log, e)
      BY <2>4, CacheHeld
    <3>3. \A f \in Held(cache) : f \notin Held(d) => RdDataObj(log, f.chunk) = f.data
      BY <2>4, <2>8, <3>2 DEF EntryOK
    <3>4. CacheOK(log, d) /\ DataOK(log, d, t, w)
      BY <2>4, <3>3, DropEntries
    <3> QED BY <2>3, <2>4, <2>5, <3>1, <3>4 DEF GrabOK
  <2> QED BY <2>6, <2>7, <2>8
<1> QED BY <1>2, <1>3

-----------------------------------------------------------------------------
(* The bytes of chunk k, as a turn of the loop leaves them.                *)
Fresh(k, d, n, v, w) ==
  /\ k \in Chunks /\ k \in Nat \ {0} /\ d \in ChunkData /\ n \in 1 .. ChunkBytes
  /\ Base(k) + n <= MaxSize /\ ZeroBehind(d, n)
  /\ ChunkAt(v, k) = d /\ OnlyAt(v, w, k)

(* The bytes in use of a chunk whose first end bytes are written.          *)
BackTo(end, cb, base, fs) ==
  IF end >= cb THEN cb ELSE Larger(end, Smaller(cb, Larger(0, fs - base)))

LEMMA BackIs ==
  ASSUME NEW end \in Nat, NEW cb \in Nat, NEW base \in Nat, NEW fs \in Nat,
         NEW max \in Nat, NEW e \in Nat, e = base + end,
         e <= max, fs <= max, end <= cb, end >= 1
  PROVE  /\ BackTo(end, cb, base, fs) \in 1 .. cb
         /\ base + BackTo(end, cb, base, fs) <= max
         /\ \A q \in 1 .. cb :
              q > BackTo(end, cb, base, fs) => base + q > e /\ base + q > fs
<1>1. PICK n : n = BackTo(end, cb, base, fs)
  OBVIOUS
<1>2. n \in Int /\ end <= n /\ n <= cb /\ base + n <= max /\ (n = cb \/ base + n >= fs)
  <2>1. CASE end >= cb
    BY <1>1, <2>1 DEF BackTo
  <2>2. CASE ~(end >= cb)
    <3>1. PICK y \in Int : y = Larger(0, fs - base)
      BY DEF Larger
    <3>2. y >= 0 /\ base + y >= fs /\ (y = 0 \/ base + y = fs)
      BY <3>1 DEF Larger
    <3>3. PICK x \in Int : x = Smaller(cb, y)
      BY DEF Smaller
    <3>4. (x = cb /\ cb <= y) \/ (x = y /\ y <= cb)
      BY <3>3 DEF Smaller
    <3>5. n = Larger(end, x)
      BY <1>1, <2>2, <3>1, <3>3 DEF BackTo
    <3>6. n \in Int /\ end <= n /\ x <= n /\ (n = end \/ n = x)
      BY <3>5 DEF Larger
    <3> QED BY <3>2, <3>4, <3>6
  <2> QED BY <2>1, <2>2
<1>3. n \in 1 .. cb /\ \A q \in 1 .. cb : q > n => base + q > e /\ base + q > fs
  BY <1>2
<1> QED BY <1>1, <1>2, <1>3

LEMMA WriteBackIs ==
  ASSUME NEW p \in Writing, Len(p.b) >= 1, p.off + Len(p.b) <= MaxSize,
         file_size \in 0 .. MaxSize,
         NEW k, k = ChunkOf(p.off)
  PROVE  /\ WriteBack(p) \in 1 .. ChunkBytes /\ Base(k) + WriteBack(p) <= MaxSize
         /\ \A q \in 1 .. ChunkBytes :
              q > WriteBack(p) => Base(k) + q > p.off + Turn(p) /\ Base(k) + q > file_size
<1>1. PICK off, len, fs, end, cb, max \in Nat :
        /\ off = p.off /\ len = Turn(p) /\ fs = file_size
        /\ cb = ChunkBytes /\ max = MaxSize /\ end = StartOf(p.off) + Turn(p)
        /\ len >= 1 /\ off + len <= max /\ fs <= max /\ end <= cb /\ cb >= 1
  <2>1. p.off \in Nat /\ Len(p.b) \in Nat /\ MaxSize \in Nat /\ ChunkBytes \in Nat
        /\ ChunkBytes >= 1
    BY WritingHas, Bounds
  <2>2. /\ Turn(p) \in Nat /\ Turn(p) >= 1 /\ Turn(p) <= Len(p.b)
        /\ StartOf(p.off) + Turn(p) <= ChunkBytes
    BY TurnIs
  <2>3. StartOf(p.off) \in Nat
    <3>1. StartOf(p.off) \in 0 .. ChunkBytes - 1
      BY <2>1, ChunkOfIs
    <3> QED BY <2>1, <3>1
  <2>4. file_size \in Nat /\ file_size <= MaxSize
    BY <2>1
  <2>5. p.off + Turn(p) <= MaxSize /\ StartOf(p.off) + Turn(p) \in Nat
    BY <2>1, <2>2, <2>3
  <2> QED BY <2>1, <2>2, <2>4, <2>5
<1>2. PICK base \in Nat : base = Base(k) /\ base + end = off + len /\ end >= 1
  <2>1. k \in Nat \ {0} /\ off = Base(k) + StartOf(off) /\ StartOf(off) \in Nat
    <3>1. /\ ChunkOf(off) \in Nat \ {0} /\ StartOf(off) \in 0 .. ChunkBytes - 1
          /\ off = Base(ChunkOf(off)) + StartOf(off)
      BY ChunkOfIs
    <3> QED BY <1>1, <3>1
  <2>2. Base(k) \in Nat
    BY <2>1, BaseIs
  <2> QED BY <1>1, <2>1, <2>2, SMTT(30)
<1>3. PICK n : n = WriteBack(p)
  OBVIOUS
<1>4. n = BackTo(end, cb, base, fs)
  BY <1>1, <1>2, <1>3 DEF WriteBack, BackTo
<1>5. PICK e \in Nat : e = off + len /\ e = base + end /\ e <= max
  BY <1>1, <1>2
<1>6. /\ BackTo(end, cb, base, fs) \in 1 .. cb
      /\ base + BackTo(end, cb, base, fs) <= max
      /\ \A q \in 1 .. cb :
           q > BackTo(end, cb, base, fs) => base + q > e /\ base + q > fs
  BY <1>1, <1>2, <1>5, BackIs
<1>7. /\ n \in 1 .. cb /\ base + n <= max
      /\ \A q \in 1 .. cb : q > n => base + q > e /\ base + q > fs
  BY <1>4, <1>6
<1> QED BY <1>1, <1>2, <1>3, <1>5, <1>7

LEMMA FreshIs ==
  ASSUME NEW t, NEW w, NEW p, Turning(t, file_size, w, p),
         NEW k, k = ChunkOf(p.off),
         NEW d, d = Overlay(ChunkAt(w, k), StartOf(p.off), Copied(p)),
         NEW v, v = Overlay(w, p.off, Copied(p))
  PROVE  Fresh(k, d, WriteBack(p), v, w)
<1>1. /\ p \in Writing /\ Len(p.b) >= 1 /\ p.off + Len(p.b) <= MaxSize
      /\ file_size \in 0 .. MaxSize /\ file_size \in Nat /\ w \in Seq(Byte)
      /\ file_size <= Len(w) /\ Len(w) <= Larger(file_size, p.off)
      /\ Len(w) \in Nat
  BY Bounds, BytesAre DEF Turning
<1>2. PICK off \in Nat : off = p.off
  BY <1>1, WritingHas
<1>3. PICK b \in Seq(Byte) : b = Copied(p) /\ Len(b) = Turn(p) /\ Turn(p) \in Nat
                             /\ Turn(p) >= 1 /\ Turn(p) <= Len(p.b)
                             /\ StartOf(off) + Len(b) <= ChunkBytes
  BY <1>1, <1>2, TurnIs
<1>4. Len(p.b) \in Nat /\ off + Len(p.b) <= MaxSize
  BY <1>1, <1>2, WritingHas
<1>5. k \in Nat \ {0} /\ k \in Chunks /\ StartOf(off) \in Nat
  <2>1. off < MaxSize
    BY <1>3, <1>4, Bounds
  <2>2. ChunkOf(off) \in Chunks
    BY <2>1, ChunksAre
  <2>3. ChunkOf(off) \in Nat \ {0} /\ StartOf(off) \in 0 .. ChunkBytes - 1
    BY ChunkOfIs
  <2> QED BY <1>2, <2>2, <2>3, Bounds
<1>6. /\ ChunkAt(v, k) = d
      /\ \A j \in Nat \ {0} : j # k => ChunkAt(v, j) = ChunkAt(w, j)
  <2>1. /\ ChunkAt(Overlay(w, off, b), ChunkOf(off)) =
              Overlay(ChunkAt(w, ChunkOf(off)), StartOf(off), b)
        /\ \A j \in Nat \ {0} :
              j # ChunkOf(off) => ChunkAt(Overlay(w, off, b), j) = ChunkAt(w, j)
    BY <1>1, <1>3, ChunkAtOverlay
  <2>2. v = Overlay(w, off, b) /\ d = Overlay(ChunkAt(w, k), StartOf(off), b)
        /\ k = ChunkOf(off)
    BY <1>2, <1>3
  <2> QED BY <2>1, <2>2
<1>7. v \in Seq(Byte) /\ Len(v) = Larger(Len(w), off + Turn(p)) /\ Len(v) \in Nat
  <2>1. v \in Seq(Byte) /\ Len(v) = Larger(Len(w), p.off + Turn(p))
    BY WrittenBytes
  <2> QED BY <1>2, <2>1, BytesAre
<1>8. d \in ChunkData /\ \A q \in 1 .. ChunkBytes : d[q] = At(v, Base(k) + q)
  BY <1>5, <1>6, <1>7, ChunkAtIs
<1>9. /\ WriteBack(p) \in 1 .. ChunkBytes /\ Base(k) + WriteBack(p) <= MaxSize
      /\ \A q \in 1 .. ChunkBytes :
           q > WriteBack(p) => Base(k) + q > p.off + Turn(p) /\ Base(k) + q > file_size
  BY <1>1, WriteBackIs
<1>10. ZeroBehind(d, WriteBack(p))
  <2> SUFFICES ASSUME NEW q \in WriteBack(p) + 1 .. ChunkBytes PROVE d[q] = Zero
    BY DEF ZeroBehind
  <2>1. q \in 1 .. ChunkBytes /\ q > WriteBack(p)
    BY <1>9, Bounds
  <2>2. PICK a : a = Base(k) + q
    OBVIOUS
  <2>3. a > off + Turn(p) /\ a > file_size /\ a \in Int
    <3>1. Base(k) \in Int
      BY <1>5, BaseIs
    <3> QED BY <1>2, <1>9, <2>1, <2>2, <3>1
  <2>4. a > Len(v)
    BY <1>1, <1>2, <1>3, <1>7, <2>3 DEF Larger
  <2>5. ~(a <= Len(v))
    BY <1>7, <2>3, <2>4
  <2> QED BY <1>8, <2>1, <2>2, <2>5 DEF At
<1> QED BY <1>5, <1>6, <1>8, <1>9, <1>10 DEF Fresh, OnlyAt

LEMMA FreshEntry ==
  ASSUME NEW k, NEW d, NEW n, NEW v, NEW w, Fresh(k, d, n, v, w),
         NEW x, x = [chunk |-> k, n |-> n, dirty |-> TRUE, data |-> d]
  PROVE  EntryFor(x, k, v, w)
<1>1. x.dirty /\ x.chunk = k /\ x.data = d /\ x.n = n
  OBVIOUS
<1>2. n \in 0 .. ChunkBytes /\ n > 0
  BY Bounds DEF Fresh
<1>3. x \in Entries
  BY <1>2 DEF Entries, Fresh
<1>4. ChunkOK(x)
  BY <1>1 DEF ChunkOK, Fresh, ZeroBehind
<1>5. x.data = ChunkAt(v, k) /\ OnlyAt(v, w, k)
  BY <1>1 DEF Fresh
<1> QED BY <1>1, <1>2, <1>3, <1>4, <1>5 DEF EntryFor

-----------------------------------------------------------------------------
(* Turns of yaffs_do_file_wr.                                              *)

LEMMA RunningIs ==
  ASSUME NEW l \in Seq(Recs), NEW st \in 0 .. MaxSize, InRam(l, st, MaxSize),
         NEW fs, NEW c, NEW t, NEW w, Whole(t), Plan(t, fs, w, c),
         CacheOK(l, c), DataOK(l, c, t, w)
  PROVE  Running(l, st, fs, c, t, w)
  BY DEF Running, Whole

(* The state in which a turn of the write loop begins.                     *)
WriteState(p) ==
  /\ Turning(todo, file_size, want, p)
  /\ log \in Seq(Recs) /\ stored_size \in 0 .. MaxSize
  /\ InRam(log, stored_size, MaxSize) /\ OneLive(log)
  /\ CacheOK(log, cache) /\ DataOK(log, cache, todo, want)
  /\ cache \in Seq(Entries) /\ Distinct(cache)
  /\ NotPadding(todo) /\ want \in Seq(Byte)
  /\ param.n_caches \in Nat /\ Len(cache) <= param.n_caches /\ Len(cache) \in Nat
  /\ ChunkOf(p.off) \in Nat \ {0}

AllWell ==
  /\ Len(cache) <= param.n_caches /\ param.n_caches \in Nat
  /\ Running(log, stored_size, file_size, cache, todo, want)

LEMMA WriteStateIs ==
  ASSUME AllWell, todo # <<>>, Now.a = "write"
  PROVE  WriteState(Now)
<1>1. /\ log \in Seq(Recs) /\ stored_size \in 0 .. MaxSize
      /\ InRam(log, stored_size, Limit(todo, stored_size))
      /\ Plan(todo, file_size, want, cache)
      /\ CacheOK(log, cache) /\ DataOK(log, cache, todo, want)
  BY DEF AllWell, Running
<1>2. Turning(todo, file_size, want, Now)
  BY <1>1, TurningIs DEF Now
<1>3. Whole(todo)
  BY WholeIs DEF Now
<1>4. Limit(todo, stored_size) = MaxSize /\ NotPadding(todo)
  BY <1>3 DEF Whole
<1>5. OneLive(log)
  BY <1>1, RamOneLive
<1>6. cache \in Seq(Entries) /\ Distinct(cache) /\ Len(cache) \in Nat
  BY <1>1, CacheIs DEF CacheOK
<1>7. ChunkOf(Now.off) \in Nat \ {0} /\ want \in Seq(Byte)
  <2>1. Now \in Writing /\ want \in Seq(Byte)
    BY <1>2 DEF Turning
  <2>2. Now.off \in Nat
    BY <2>1, WritingHas
  <2> QED BY <2>1, <2>2, ChunkOfIs
<1> QED BY <1>1, <1>2, <1>4, <1>5, <1>6, <1>7 DEF WriteState, AllWell

LEMMA TurnOk ==
  ASSUME NEW p, WriteState(p), PieceOk(p)
  PROVE  /\ \A c : Plan(todo', file_size', want', c)
         /\ Whole(todo')
         /\ want' = Overlay(want, p.off, Copied(p))
<1>1. Turning(todo, file_size, want, p)
  BY DEF WriteState
<1>2. Turn(p) \in Nat /\ Turn(p) <= Len(p.b) /\ Len(p.b) \in Nat
  BY <1>1, TurnIs, WritingHas DEF Turning
<1>3. PICK u, v, f : u = todo' /\ v = want' /\ f = file_size'
  OBVIOUS
<1>4. u = Left(p) \o Tail(todo) /\ v = Overlay(want, p.off, Copied(p))
  BY <1>3 DEF PieceOk
<1>5. CASE Turn(p) = Len(p.b)
  <2>1. f = Larger(file_size, p.off + Turn(p))
    BY <1>3, <1>5 DEF PieceOk, Done
  <2>2. \A c : Plan(u, f, v, c) /\ Whole(u)
    BY <1>1, <1>4, <1>5, <2>1, PlanLast
  <2> QED BY <1>3, <1>4, <2>2
<1>6. CASE Turn(p) < Len(p.b)
  <2>1. f = file_size
    BY <1>2, <1>3, <1>6 DEF PieceOk
  <2>2. \A c : Plan(u, file_size, v, c) /\ Whole(u)
    BY <1>1, <1>4, <1>6, PlanMore
  <2> QED BY <1>3, <1>4, <2>1, <2>2
<1> QED BY <1>2, <1>5, <1>6

LEMMA TurnFails ==
  ASSUME NEW p, WriteState(p), PieceFails(p), log' = log, cache' = cache,
         stored_size' = stored_size
  PROVE  Running(log', stored_size', file_size', cache', todo', want')
<1>1. /\ Turning(todo, file_size, want, p)
      /\ log \in Seq(Recs) /\ stored_size \in 0 .. MaxSize
      /\ InRam(log, stored_size, MaxSize)
      /\ CacheOK(log, cache) /\ DataOK(log, cache, todo, want)
      /\ NotPadding(todo) /\ want \in Seq(Byte)
  BY DEF WriteState
<1>2. PICK u, v, f : u = todo' /\ v = want' /\ f = file_size'
  OBVIOUS
<1>3. /\ u = (IF p.fill = -1 THEN <<>>
              ELSE <<Step("prune", p.fill), Step("hole", 1)>>) \o Tail(todo)
      /\ v = Overlay(want, p.off, <<>>) /\ f = Larger(file_size, p.off)
  BY <1>2 DEF PieceFails, Done
<1>4. /\ Plan(u, f, v, cache) /\ Whole(u)
      /\ v \in Seq(Byte) /\ SameAt(v, want)
  BY <1>1, <1>3, PlanFails
<1>5. DataOK(log, cache, u, v)
  BY <1>1, <1>4, SameBytes DEF Whole
<1>6. Running(log, stored_size, f, cache, u, v)
  BY <1>1, <1>4, <1>5, RunningIs
<1> QED BY <1>2, <1>6

LEMMA HitKeeps ==
  ASSUME NEW p, WriteState(p), WriteHit(p, ChunkOf(p.off))
  PROVE  /\ Running(log', stored_size', file_size', cache', todo', want')
         /\ Len(cache') <= param.n_caches
<1>1. PICK k : k = ChunkOf(p.off)
  OBVIOUS
<1>2. PICK i \in FindChunkCache(k), room \in BOOLEAN :
    /\ UNCHANGED <<log, stored_size>>
    /\ IF cache[i].dirty \/ room
       THEN cache' = InCache(p, k, cache[i].data) /\ PieceOk(p)
       ELSE UNCHANGED cache /\ PieceFails(p)
  BY <1>1 DEF WriteHit
<1>3. CASE ~(cache[i].dirty \/ room)
  <2>1. log' = log /\ cache' = cache /\ stored_size' = stored_size /\ PieceFails(p)
    BY <1>2, <1>3
  <2> QED BY <2>1, TurnFails DEF WriteState
<1>4. CASE cache[i].dirty \/ room
  <2>1. /\ log' = log /\ stored_size' = stored_size
        /\ cache' = InCache(p, k, cache[i].data) /\ PieceOk(p)
    BY <1>2, <1>4
  <2>2. /\ Turning(todo, file_size, want, p)
        /\ log \in Seq(Recs) /\ stored_size \in 0 .. MaxSize
        /\ InRam(log, stored_size, MaxSize)
        /\ CacheOK(log, cache) /\ DataOK(log, cache, todo, want)
        /\ NotPadding(todo) /\ want \in Seq(Byte)
        /\ cache \in Seq(Entries) /\ Distinct(cache) /\ Len(cache) \in Nat
        /\ k \in Nat \ {0} /\ Len(cache) <= param.n_caches
    BY <1>1 DEF WriteState
  <2>3. i \in 1 .. Len(cache) /\ cache[i].chunk = k /\ cache[i] \in Held(cache)
    BY <2>2, CacheIs DEF FindChunkCache, Held
  <2>4. cache[i].data = ChunkAt(want, k)
    <3>1. cache[i].data = Wanted(todo, want, k)
      BY <2>2, <2>3 DEF DataOK
    <3> QED BY <2>2, <3>1, WantedIs
  <2>5. PICK u, v, f : u = todo' /\ v = want' /\ f = file_size'
    OBVIOUS
  <2>6. /\ \A c : Plan(u, f, v, c)
        /\ Whole(u) /\ v = Overlay(want, p.off, Copied(p))
    BY <2>1, <2>5, TurnOk
  <2>7. PICK d : d = Overlay(ChunkAt(want, k), StartOf(p.off), Copied(p))
    OBVIOUS
  <2>8. Fresh(k, d, WriteBack(p), v, want)
    BY <1>1, <2>2, <2>6, <2>7, FreshIs
  <2>9. PICK x : x = [chunk |-> k, n |-> WriteBack(p), dirty |-> TRUE, data |-> d]
    OBVIOUS
  <2>10. EntryFor(x, k, v, want)
    BY <2>8, <2>9, FreshEntry
  <2>11. PICK b : b = Without(k)
    OBVIOUS
  <2>12. Others(b, cache, k) /\ Len(b) + 1 = Len(cache)
    <3>1. /\ Without(k) \in Seq(Entries) /\ Distinct(Without(k))
          /\ Held(Without(k)) = {e \in Held(cache) : e.chunk # k}
          /\ IsCached(k) => Len(Without(k)) + 1 = Len(cache)
          /\ IsCached(k) <=> \E e \in Held(cache) : e.chunk = k
      BY <2>2, WithoutHeld
    <3> QED BY <2>3, <2>11, <3>1 DEF Others
  <2>13. PICK c : c = Append(b, x) /\ c = cache'
    BY <2>1, <2>4, <2>7, <2>9, <2>11 DEF InCache
  <2>15. CacheOK(log, c) /\ DataOK(log, c, u, v) /\ Len(c) = Len(b) + 1
    <3>1. NotPadding(u)
      BY <2>6 DEF Whole
    <3>2. CacheOK(log, cache) /\ DataOK(log, cache, todo, want) /\ NotPadding(todo)
      BY <2>2
    <3>3. Others(b, cache, k) /\ c = Append(b, x)
      BY <2>12, <2>13
    <3>4. CacheOK(log, c) /\ DataOK(log, c, u, v)
      BY <2>10, <3>1, <3>2, <3>3, NewEntry
    <3>5. Len(c) = Len(b) + 1
      BY <2>10, <3>1, <3>2, <3>3, NewEntry
    <3> QED BY <3>4, <3>5
  <2>16. Running(log, stored_size, f, c, u, v)
    BY <2>2, <2>6, <2>15, RunningIs
  <2>17. Len(c) <= param.n_caches
    BY <2>2, <2>12, <2>15
  <2> QED BY <2>1, <2>5, <2>13, <2>16, <2>17
<1> QED BY <1>3, <1>4

LEMMA MissKeeps ==
  ASSUME NEW p, WriteState(p), WriteMiss(p, ChunkOf(p.off)), param.n_caches # 0
  PROVE  /\ Running(log', stored_size', file_size', cache', todo', want')
         /\ Len(cache') <= param.n_caches
<1>1. PICK k : k = ChunkOf(p.off)
  OBVIOUS
<1>2. CASE /\ UNCHANGED <<log, stored_size, cache>>
           /\ PieceFails(p)
  <2>1. log' = log /\ cache' = cache /\ stored_size' = stored_size /\ PieceFails(p)
    BY <1>2
  <2> QED BY <2>1, TurnFails DEF WriteState
<1>3. CASE /\ ~IsCached(k)
           /\ log' = Grabbed
           /\ stored_size' = StoredAfterGrab
           /\ cache' = Append(Remaining,
                         [chunk |-> k, n |-> WriteBack(p), dirty |-> TRUE,
                          data |-> Overlay(RdDataObj(Grabbed, k),
                                           StartOf(p.off), Copied(p))])
           /\ PieceOk(p)
  <2>1. /\ Turning(todo, file_size, want, p)
        /\ log \in Seq(Recs) /\ stored_size \in 0 .. MaxSize
        /\ InRam(log, stored_size, MaxSize)
        /\ CacheOK(log, cache) /\ DataOK(log, cache, todo, want)
        /\ NotPadding(todo)
        /\ cache \in Seq(Entries) /\ Distinct(cache)
        /\ k \in Nat \ {0} /\ Len(cache) <= param.n_caches
        /\ param.n_caches \in Nat \ {0}
    BY <1>1 DEF WriteState
  <2>2. GrabOK(todo, want)
    BY <2>1, GrabIs
  <2>3. PICK l, s, r : l = Grabbed /\ s = StoredAfterGrab /\ r = Remaining
    OBVIOUS
  <2>4. /\ l \in Seq(Recs) /\ s \in 0 .. MaxSize /\ InRam(l, s, MaxSize)
        /\ CacheOK(l, r) /\ DataOK(l, r, todo, want)
        /\ Len(r) < param.n_caches /\ Held(r) \subseteq Held(cache)
    BY <2>2, <2>3 DEF GrabOK
  <2>5. r \in Seq(Entries) /\ Distinct(r) /\ Len(r) \in Nat
    BY <2>4, CacheIs DEF CacheOK
  <2>6. \A e \in Held(r) : e.chunk # k
    <3>1. IsCached(k) <=> \E e \in Held(cache) : e.chunk = k
      BY <2>1, WithoutHeld
    <3> QED BY <1>3, <2>4, <3>1
  <2>7. RdDataObj(l, k) = ChunkAt(want, k)
    <3>1. RdDataObj(l, k) = Wanted(todo, want, k)
      BY <2>1, <2>4, <2>6 DEF DataOK
    <3> QED BY <2>1, <3>1, WantedIs
  <2>8. PICK u, v, f : u = todo' /\ v = want' /\ f = file_size'
    OBVIOUS
  <2>9. /\ \A c : Plan(u, f, v, c)
        /\ Whole(u) /\ v = Overlay(want, p.off, Copied(p))
    BY <1>3, <2>8, TurnOk
  <2>10. PICK d : d = Overlay(ChunkAt(want, k), StartOf(p.off), Copied(p))
    OBVIOUS
  <2>11. Fresh(k, d, WriteBack(p), v, want)
    BY <1>1, <2>1, <2>9, <2>10, FreshIs
  <2>12. PICK x : x = [chunk |-> k, n |-> WriteBack(p), dirty |-> TRUE, data |-> d]
    OBVIOUS
  <2>13. EntryFor(x, k, v, want)
    BY <2>11, <2>12, FreshEntry
  <2>14. Others(r, r, k)
    BY <2>5, <2>6 DEF Others
  <2>15. PICK c : c = Append(r, x)
    OBVIOUS
  <2>16. c = cache' /\ l = log' /\ s = stored_size'
    BY <1>3, <2>3, <2>7, <2>10, <2>12, <2>15
  <2>17. NotPadding(u)
    BY <2>9 DEF Whole
  <2>18. CacheOK(l, r) /\ DataOK(l, r, todo, want) /\ NotPadding(todo)
    BY <2>1, <2>4
  <2>19. CacheOK(l, c) /\ DataOK(l, c, u, v)
    BY <2>13, <2>14, <2>15, <2>17, <2>18, NewEntry
  <2>20. Len(c) = Len(r) + 1
    BY <2>13, <2>14, <2>15, <2>17, <2>18, NewEntry
  <2>21. Running(l, s, f, c, u, v)
    BY <2>4, <2>9, <2>19, RunningIs
  <2>22. Len(c) <= param.n_caches
    BY <2>1, <2>4, <2>5, <2>20
  <2> QED BY <2>8, <2>16, <2>21, <2>22
<1> QED BY <1>1, <1>2, <1>3 DEF WriteMiss

-----------------------------------------------------------------------------
(* A whole chunk is overwritten, whatever was there.                       *)
LEMMA WholeChunk ==
  ASSUME NEW d \in ChunkData, NEW e \in ChunkData, NEW b \in Seq(Byte),
         Len(b) = ChunkBytes
  PROVE  Overlay(d, 0, b) = Overlay(e, 0, b)
<1>1. 0 + Len(b) <= ChunkBytes /\ 0 \in Nat
  BY Bounds
<1>2. PICK x, y : x = Overlay(d, 0, b) /\ y = Overlay(e, 0, b)
  OBVIOUS
<1>3. /\ x \in ChunkData
      /\ \A q \in 1 .. ChunkBytes :
           x[q] = IF q \in 0 + 1 .. 0 + Len(b) THEN b[q - 0] ELSE d[q]
  BY <1>1, <1>2, OverlayChunk
<1>4. /\ y \in ChunkData
      /\ \A q \in 1 .. ChunkBytes :
           y[q] = IF q \in 0 + 1 .. 0 + Len(b) THEN b[q - 0] ELSE e[q]
  BY <1>1, <1>2, OverlayChunk
<1>5. \A q \in 1 .. ChunkBytes : q \in 0 + 1 .. 0 + Len(b)
  BY Bounds
<1>6. \A q \in 1 .. ChunkBytes : x[q] = y[q]
  BY <1>3, <1>4, <1>5
<1> QED BY <1>2, <1>3, <1>4, <1>6, ChunkDataEqual

LEMMA DirectBytes ==
  ASSUME NEW p, WriteState(p), ~UsesCache(p), NEW k, k = ChunkOf(p.off)
  PROVE  Overlay(RdDataObj(log, k), StartOf(p.off), Copied(p)) =
           Overlay(ChunkAt(want, k), StartOf(p.off), Copied(p))
<1>1. /\ Turning(todo, file_size, want, p)
      /\ log \in Seq(Recs) /\ OneLive(log) /\ NotPadding(todo)
      /\ DataOK(log, cache, todo, want) /\ cache \in Seq(Entries)
      /\ k \in Nat \ {0} /\ Len(cache) <= param.n_caches
      /\ param.n_caches \in Nat /\ want \in Seq(Byte) /\ Len(cache) \in Nat
  BY DEF WriteState
<1>2. /\ p \in Writing /\ p.off \in Nat /\ Turn(p) \in Nat
      /\ StartOf(p.off) + Turn(p) <= ChunkBytes
      /\ Copied(p) \in Seq(Byte) /\ Len(Copied(p)) = Turn(p)
  BY <1>1, TurnIs, WritingHas DEF Turning
<1>3. RdDataObj(log, k) \in ChunkData /\ ChunkAt(want, k) \in ChunkData
  BY <1>1, RdIsData, ChunkAtIs
<1>4. CASE Turn(p) = ChunkBytes
  <2>1. StartOf(p.off) \in 0 .. ChunkBytes - 1
    BY <1>2, ChunkOfIs
  <2>2. StartOf(p.off) = 0
    BY <1>2, <1>4, <2>1, Bounds
  <2>3. PICK b \in Seq(Byte) : b = Copied(p) /\ Len(b) = ChunkBytes
    BY <1>2, <1>4
  <2>4. Overlay(RdDataObj(log, k), 0, b) = Overlay(ChunkAt(want, k), 0, b)
    BY <1>3, <2>3, WholeChunk
  <2> QED BY <2>2, <2>3, <2>4
<1>5. CASE Turn(p) # ChunkBytes
  <2>1. param.n_caches = 0
    BY <1>1, <1>5 DEF UsesCache
  <2>2. Len(cache) = 0
    BY <1>1, <2>1
  <2>3. \A e \in Held(cache) : e.chunk # k
    BY <2>2 DEF Held
  <2>4. RdDataObj(log, k) = Wanted(todo, want, k)
    BY <1>1, <2>3 DEF DataOK
  <2>5. RdDataObj(log, k) = ChunkAt(want, k)
    BY <1>1, <2>4, WantedIs
  <2> QED BY <2>5
<1> QED BY <1>4, <1>5

LEMMA DirectKeeps ==
  ASSUME NEW p, WriteState(p), WriteDirect(p, ChunkOf(p.off)), ~UsesCache(p),
         "nospace" \notin Exposed
  PROVE  /\ Running(log', stored_size', file_size', cache', todo', want')
         /\ Len(cache') <= param.n_caches
<1>1. PICK k : k = ChunkOf(p.off)
  OBVIOUS
<1>2. PICK d : d = Overlay(RdDataObj(log, k), StartOf(p.off), Copied(p))
  OBVIOUS
<1>3. /\ stored_size' = Larger(stored_size, Base(k) + WriteBack(p))
      /\ cache' = Without(k)
      /\ log' = Program(log, Data(k, d, WriteBack(p)))
      /\ PieceOk(p)
  BY <1>1, <1>2 DEF WriteDirect
<1>4. /\ Turning(todo, file_size, want, p)
      /\ log \in Seq(Recs) /\ stored_size \in 0 .. MaxSize
      /\ InRam(log, stored_size, MaxSize) /\ OneLive(log)
      /\ CacheOK(log, cache) /\ DataOK(log, cache, todo, want)
      /\ NotPadding(todo)
      /\ cache \in Seq(Entries) /\ Distinct(cache) /\ Len(cache) \in Nat
      /\ k \in Nat \ {0} /\ Len(cache) <= param.n_caches
      /\ param.n_caches \in Nat
  BY <1>1 DEF WriteState
<1>5. d = Overlay(ChunkAt(want, k), StartOf(p.off), Copied(p))
  BY <1>1, <1>2, DirectBytes
<1>6. PICK u, v, f : u = todo' /\ v = want' /\ f = file_size'
  OBVIOUS
<1>7. /\ \A c : Plan(u, f, v, c)
      /\ Whole(u) /\ v = Overlay(want, p.off, Copied(p))
  BY <1>3, <1>6, TurnOk
<1>8. PICK n : n = WriteBack(p)
  OBVIOUS
<1>9. Fresh(k, d, n, v, want)
  BY <1>1, <1>4, <1>5, <1>7, <1>8, FreshIs
<1>10. PICK x : x = Data(k, d, n)
  OBVIOUS
<1>11. Written(x, k, d, n)
  BY <1>9, <1>10, DataIs DEF Fresh
<1>12. /\ x \in Recs /\ x.live = TRUE /\ x.keep = FALSE /\ x.chunk = k /\ x.chunk # 0
       /\ x.data = d /\ x.n = n
  BY <1>4, <1>11 DEF Written
<1>13. PICK m, s, b : /\ m = Program(log, x) /\ s = Larger(stored_size, Base(k) + n)
                      /\ b = Without(k)
  OBVIOUS
<1>14. m = log' /\ s = stored_size' /\ b = cache'
  BY <1>3, <1>8, <1>10, <1>13
<1>15. Others(b, cache, x.chunk) /\ Len(b) <= param.n_caches
  <2>1. /\ Without(k) \in Seq(Entries) /\ Distinct(Without(k))
        /\ Held(Without(k)) = {e \in Held(cache) : e.chunk # k}
        /\ Len(Without(k)) <= Len(cache)
    BY <1>4, WithoutHeld
  <2>2. Len(b) \in Nat
    BY <1>13, <2>1, CacheIs
  <2> QED BY <1>4, <1>12, <1>13, <2>1, <2>2 DEF Others
<1>16. s \in 0 .. MaxSize /\ Base(k) < MaxSize /\ Base(k) \in Nat
  <2>1. Base(k) \in Nat /\ Base(k) < MaxSize /\ n \in Nat /\ Base(k) + n <= MaxSize
    BY <1>9, ChunksAre, Bounds DEF Fresh
  <2> QED BY <1>4, <1>13, <2>1, Bounds DEF Larger
<1>17. m \in Seq(Recs)
  BY <1>4, <1>12, <1>13, ProgramIs DEF Programmed
<1>18. InRam(m, s, MaxSize)
  <2>1. MaxSize \in 0 .. MaxSize
    BY Bounds
  <2>2. InRam(Program(log, x), Larger(stored_size, Base(x.chunk) + x.n), MaxSize)
    BY <1>4, <1>12, <1>16, <2>1, ProgramData
  <2> QED BY <1>12, <1>13, <2>2
<1>19. OnlyAt(v, want, x.chunk) /\ ChunkAt(v, x.chunk) = x.data /\ NotPadding(u)
  BY <1>7, <1>9, <1>12 DEF Fresh, Whole
<1>20. CacheOK(m, b) /\ DataOK(m, b, u, v)
  BY <1>4, <1>12, <1>13, <1>15, <1>19, NewChunk
<1>21. Running(m, s, f, b, u, v)
  BY <1>7, <1>16, <1>17, <1>18, <1>20, RunningIs
<1> QED BY <1>6, <1>14, <1>15, <1>21

LEMMA WriteKeeps ==
  ASSUME AllWell, DoFileWr, "nospace" \notin Exposed
  PROVE  AllWell'
<1>1. todo # <<>> /\ Now.a = "write" /\ param' = param
  BY DEF DoFileWr
<1>2. PICK p : p = Now
  OBVIOUS
<1>3. WriteState(p)
  BY <1>1, <1>2, WriteStateIs
<1>4. \/ UsesCache(p) /\ WriteHit(p, ChunkOf(p.off))
      \/ UsesCache(p) /\ WriteMiss(p, ChunkOf(p.off))
      \/ ~UsesCache(p) /\ WriteDirect(p, ChunkOf(p.off))
  BY <1>2 DEF DoFileWr
<1>5. /\ Running(log', stored_size', file_size', cache', todo', want')
      /\ Len(cache') <= param.n_caches
  <2>1. CASE WriteHit(p, ChunkOf(p.off))
    BY <1>3, <2>1, HitKeeps
  <2>2. CASE UsesCache(p) /\ WriteMiss(p, ChunkOf(p.off))
    <3>1. param.n_caches # 0
      BY <2>2 DEF UsesCache
    <3> QED BY <1>3, <2>2, <3>1, MissKeeps
  <2>3. CASE ~UsesCache(p) /\ WriteDirect(p, ChunkOf(p.off))
    BY <1>3, <2>3, DirectKeeps
  <2> QED BY <1>4, <2>1, <2>2, <2>3
<1>6. param.n_caches \in Nat
  BY DEF AllWell
<1> QED BY <1>1, <1>5, <1>6 DEF AllWell

-----------------------------------------------------------------------------
(* The other steps of calls.                                               *)

Base0 ==
  /\ log \in Seq(Recs) /\ stored_size \in 0 .. MaxSize
  /\ InRam(log, stored_size, Limit(todo, stored_size)) /\ OneLive(log)
  /\ Plan(todo, file_size, want, cache)
  /\ CacheOK(log, cache) /\ DataOK(log, cache, todo, want)
  /\ cache \in Seq(Entries) /\ Distinct(cache) /\ Len(cache) \in Nat
  /\ Len(cache) <= param.n_caches /\ param.n_caches \in Nat
  /\ want \in Seq(Byte) /\ file_size \in 0 .. MaxSize
  /\ (todo = <<>> \/ Head(todo).a # "write") => Len(want) = file_size
  /\ Whole(todo) => InRam(log, stored_size, MaxSize)

LEMMA Base0Is ==
  ASSUME AllWell
  PROVE  Base0
<1>1. /\ log \in Seq(Recs) /\ stored_size \in 0 .. MaxSize
      /\ InRam(log, stored_size, Limit(todo, stored_size))
      /\ Plan(todo, file_size, want, cache)
      /\ CacheOK(log, cache) /\ DataOK(log, cache, todo, want)
      /\ Len(cache) <= param.n_caches /\ param.n_caches \in Nat
  BY DEF AllWell, Running
<1>2. OneLive(log)
  BY <1>1, RamOneLive
<1>3. cache \in Seq(Entries) /\ Distinct(cache) /\ Len(cache) \in Nat
  BY <1>1, CacheIs DEF CacheOK
<1>4. /\ want \in Seq(Byte) /\ file_size \in 0 .. MaxSize
      /\ (todo = <<>> \/ Head(todo).a # "write") => Len(want) = file_size
  BY <1>1 DEF Plan
<1>5. Whole(todo) => InRam(log, stored_size, MaxSize)
  BY <1>1 DEF Whole
<1> QED BY <1>1, <1>2, <1>3, <1>4, <1>5 DEF Base0

LEMMA SameAtSelf ==
  ASSUME NEW w
  PROVE  SameAt(w, w)
  BY DEF SameAt

LEMMA BeginKeeps ==
  ASSUME AllWell, NEW u, Begin(u), Plan(u, file_size, want, cache), Whole(u)
  PROVE  AllWell'
<1>1. Base0 /\ todo = <<>>
  BY Base0Is DEF Begin
<1>2. /\ todo' = u /\ log' = log /\ stored_size' = stored_size /\ file_size' = file_size
      /\ cache' = cache /\ want' = want /\ param' = param
  BY DEF Begin
<1>3. /\ log \in Seq(Recs) /\ stored_size \in 0 .. MaxSize
      /\ InRam(log, stored_size, MaxSize)
      /\ CacheOK(log, cache) /\ DataOK(log, cache, todo, want)
      /\ NotPadding(todo) /\ want \in Seq(Byte)
      /\ Len(cache) <= param.n_caches /\ param.n_caches \in Nat
  BY <1>1, WholeIs DEF Base0, Whole
<1>4. DataOK(log, cache, u, want)
  BY <1>3, SameAtSelf, SameBytes DEF Whole
<1>5. Running(log, stored_size, file_size, cache, u, want)
  BY <1>3, <1>4, RunningIs
<1> QED BY <1>2, <1>3, <1>5 DEF AllWell

LEMMA WrFileKeeps ==
  ASSUME AllWell, NEW wr \in Writes, NEW v \in Vals,
         WrFile(wr[1], [i \in 1 .. wr[2] |-> v])
  PROVE  AllWell'
<1>1. PICK off, n : off = wr[1] /\ n = wr[2]
  OBVIOUS
<1>2. off \in Nat /\ n \in Nat \ {0} /\ off + n <= MaxSize
  BY <1>1, CallAssumption
<1>3. PICK b : b = [i \in 1 .. n |-> v]
  OBVIOUS
<1>4. b \in Seq(Byte) /\ Len(b) = n
  <2>1. b \in [1 .. n -> Byte] /\ n \in Nat
    BY <1>2, <1>3 DEF Byte
  <2> QED BY <2>1, FunctionSeq
<1>5. PICK room \in BOOLEAN : Begin(HandleHole(off, room) \o <<Write(off, b, -1, 0)>>)
  BY <1>1, <1>3 DEF WrFile
<1>6. PICK u : u = HandleHole(off, room) \o <<Write(off, b, -1, 0)>>
  OBVIOUS
<1>7. want \in Seq(Byte) /\ file_size \in 0 .. MaxSize /\ Len(want) = file_size
  BY <1>5, Base0Is DEF Base0, Begin
<1>8. Len(b) > 0 /\ off + Len(b) <= MaxSize
  BY <1>2, <1>4
<1>9. Plan(u, file_size, want, cache) /\ Whole(u)
  BY <1>2, <1>4, <1>6, <1>7, <1>8, PlanWrFile
<1> QED BY <1>5, <1>6, <1>9, BeginKeeps

LEMMA ResizeFileKeeps ==
  ASSUME AllWell, NEW new \in Sizes, ResizeFile(new)
  PROVE  AllWell'
<1>1. new \in 0 .. MaxSize /\ new # file_size
  BY CallAssumption DEF ResizeFile
<1>2. PICK room \in BOOLEAN :
        Begin(<<Step("flush", 1)>> \o
             (IF new > file_size
              THEN HandleHole(new, room) \o <<Step("grow", new)>>
                   \o <<Step("hdr", 0)>>
              ELSE <<Step("prune", new), Step("hdr", 1)>>))
  BY DEF ResizeFile
<1>3. PICK u : u = <<Step("flush", 1)>> \o
             (IF new > file_size
              THEN HandleHole(new, room) \o <<Step("grow", new)>>
                   \o <<Step("hdr", 0)>>
              ELSE <<Step("prune", new), Step("hdr", 1)>>)
  OBVIOUS
<1>4. want \in Seq(Byte) /\ file_size \in 0 .. MaxSize /\ Len(want) = file_size
  BY <1>2, Base0Is DEF Base0, Begin
<1>5. Plan(u, file_size, want, cache) /\ Whole(u)
  BY <1>1, <1>3, <1>4, PlanResize
<1> QED BY <1>2, <1>3, <1>5, BeginKeeps

LEMMA FlushFileKeeps ==
  ASSUME AllWell, NEW data_sync \in BOOLEAN, FlushFile(data_sync)
  PROVE  AllWell'
<1>1. PICK u : u = <<Step("flush", 0)>> \o
                     (IF data_sync THEN <<>> ELSE <<Step("hdr", 0)>>)
  OBVIOUS
<1>2. Begin(u)
  BY <1>1 DEF FlushFile
<1>3. want \in Seq(Byte) /\ file_size \in 0 .. MaxSize /\ Len(want) = file_size
  BY <1>2, Base0Is DEF Base0, Begin
<1>4. Plan(u, file_size, want, cache) /\ Whole(u)
  BY <1>1, <1>3, PlanFlushFile
<1> QED BY <1>2, <1>4, BeginKeeps

LEMMA ReadPartKeeps ==
  ASSUME AllWell, NEW k \in Chunks, ReadPart(k)
  PROVE  AllWell'
<1>1. /\ todo = <<>> /\ param.n_caches > 0 /\ ~IsCached(k)
      /\ log' = Grabbed /\ stored_size' = StoredAfterGrab
      /\ cache' = Append(Remaining, [chunk |-> k, data |-> RdDataObj(Grabbed, k),
                                     n |-> 0, dirty |-> FALSE])
      /\ file_size' = file_size /\ todo' = todo /\ param' = param /\ want' = want
  BY DEF ReadPart
<1>2. Base0
  BY Base0Is
<1>3. /\ log \in Seq(Recs) /\ stored_size \in 0 .. MaxSize
      /\ InRam(log, stored_size, MaxSize)
      /\ CacheOK(log, cache) /\ DataOK(log, cache, todo, want)
      /\ cache \in Seq(Entries) /\ Distinct(cache)
      /\ Len(cache) <= param.n_caches /\ param.n_caches \in Nat
      /\ Plan(todo, file_size, want, cache)
  BY <1>1, <1>2, WholeIs DEF Base0
<1>4. param.n_caches \in Nat \ {0}
  BY <1>1, <1>3
<1>5. GrabOK(todo, want)
  BY <1>3, <1>4, GrabIs
<1>6. PICK l, s, r, c : /\ l = Grabbed /\ s = StoredAfterGrab /\ r = Remaining
                        /\ c = Append(r, [chunk |-> k, data |-> RdDataObj(l, k),
                                          n |-> 0, dirty |-> FALSE])
  OBVIOUS
<1>7. /\ l \in Seq(Recs) /\ s \in 0 .. MaxSize /\ InRam(l, s, MaxSize)
      /\ CacheOK(l, r) /\ DataOK(l, r, todo, want)
      /\ Len(r) < param.n_caches /\ Held(r) \subseteq Held(cache)
  BY <1>5, <1>6 DEF GrabOK
<1>8. \A e \in Held(r) : e.chunk # k
  <2>1. IsCached(k) <=> \E e \in Held(cache) : e.chunk = k
    BY <1>3, WithoutHeld
  <2> QED BY <1>1, <1>7, <2>1
<1>9. OneLive(l)
  BY <1>7, RamOneLive
<1>10. CacheOK(l, c) /\ DataOK(l, c, todo, want)
  BY <1>6, <1>7, <1>8, <1>9, LoadEntry
<1>11. Len(c) = Len(r) + 1
  BY <1>6, <1>7, <1>8, <1>9, LoadEntry
<1>12. Len(r) \in Nat
  BY <1>7, CacheIs DEF CacheOK
<1>13. Len(c) <= param.n_caches
  BY <1>3, <1>7, <1>11, <1>12
<1>14. Plan(todo, file_size, want, c) /\ Whole(todo)
  BY <1>1, <1>3, PlanIdle, WholeIs
<1>15. Running(l, s, file_size, c, todo, want)
  BY <1>7, <1>10, <1>14, RunningIs
<1>16. l = log' /\ s = stored_size' /\ c = cache'
  BY <1>1, <1>6
<1> QED BY <1>1, <1>3, <1>13, <1>15, <1>16 DEF AllWell

LEMMA FlushFileCacheKeeps ==
  ASSUME AllWell, FlushFileCache
  PROVE  AllWell'
<1>1. /\ todo # <<>> /\ Head(todo).a = "flush"
      /\ file_size' = file_size /\ param' = param /\ want' = want
  BY DEF FlushFileCache, Now
<1>2. Whole(todo) /\ Base0
  BY <1>1, WholeIs, Base0Is
<1>3. /\ log \in Seq(Recs) /\ stored_size \in 0 .. MaxSize
      /\ InRam(log, stored_size, MaxSize)
      /\ CacheOK(log, cache) /\ DataOK(log, cache, todo, want)
      /\ cache \in Seq(Entries) /\ Distinct(cache) /\ Len(cache) \in Nat
      /\ Len(cache) <= param.n_caches /\ param.n_caches \in Nat
      /\ Plan(todo, file_size, want, cache) /\ want \in Seq(Byte)
  BY <1>2 DEF Base0
<1>4. ASSUME NEW i \in DOMAIN cache, cache[i].dirty,
             log' = Program(log, Data(cache[i].chunk, cache[i].data, cache[i].n)),
             stored_size' = Larger(stored_size, Base(cache[i].chunk) + cache[i].n),
             cache' = [cache EXCEPT ![i].dirty = FALSE], todo' = todo
      PROVE  AllWell'
  <2>1. PICK e, m, s, d :
          /\ e = cache[i] /\ m = Program(log, Data(e.chunk, e.data, e.n))
          /\ s = Larger(stored_size, Base(e.chunk) + e.n)
          /\ d = [cache EXCEPT ![i].dirty = FALSE]
    OBVIOUS
  <2>2. m = log' /\ s = stored_size' /\ d = cache'
    BY <1>4, <2>1
  <2>3. i \in 1 .. Len(cache) /\ e \in Held(cache) /\ e.dirty
    BY <1>3, <1>4, <2>1, CacheIs DEF Held
  <2>4. /\ m \in Seq(Recs) /\ s \in 0 .. MaxSize /\ InRam(m, s, MaxSize)
        /\ CacheOK(m, cache) /\ DataOK(m, cache, todo, want)
        /\ RdDataObj(m, e.chunk) = e.data
    BY <1>3, <2>1, <2>3, WriteOut
  <2>5. CacheOK(m, d) /\ DataOK(m, d, todo, want)
    BY <2>1, <2>3, <2>4, CleanEntry
  <2>6. Len(d) = Len(cache)
    BY <2>1, <2>3, <2>4, CleanEntry
  <2>7. Plan(todo, file_size, want, d)
    BY <1>1, <1>3, PlanStays
  <2>8. Running(m, s, file_size, d, todo, want)
    BY <1>2, <2>4, <2>5, <2>7, RunningIs
  <2> QED BY <1>1, <1>3, <1>4, <2>2, <2>6, <2>8 DEF AllWell
<1>5. ASSUME \A j \in DOMAIN cache : ~cache[j].dirty,
             cache' = (IF Now.n = 1 THEN <<>> ELSE cache), todo' = Tail(todo),
             log' = log, stored_size' = stored_size
      PROVE  AllWell'
  <2>1. PICK d, u : d = cache' /\ u = todo'
    OBVIOUS
  <2>2. CASE Now.n = 1
    <3>1. d = <<>>
      BY <1>5, <2>1, <2>2
    <3>2. d \in Seq(Entries) /\ Distinct(d) /\ Held(d) = {} /\ Len(d) = 0
      BY <3>1 DEF Distinct, Held
    <3>3. \A e \in Held(cache) : RdDataObj(log, e.chunk) = e.data
      <4> SUFFICES ASSUME NEW e \in Held(cache)
                   PROVE  RdDataObj(log, e.chunk) = e.data
        OBVIOUS
      <4>1. ~e.dirty
        BY <1>3, <1>5, CacheIs DEF Held
      <4>2. EntryOK(log, e)
        BY <1>3, CacheHeld
      <4> QED BY <4>1, <4>2 DEF EntryOK
    <3>4. CacheOK(log, d) /\ DataOK(log, d, todo, want)
      <4>1. /\ Held(d) \subseteq Held(cache)
            /\ \A e \in Held(cache) : e \notin Held(d) => RdDataObj(log, e.chunk) = e.data
        BY <3>2, <3>3
      <4> QED BY <1>3, <3>2, <4>1, DropEntries
    <3>5. Plan(u, file_size, want, d) /\ Whole(u)
      BY <1>1, <1>3, <1>5, <2>1, <3>1, PlanFlush
    <3>6. DataOK(log, d, u, want)
      BY <1>2, <1>3, <3>4, <3>5, SameAtSelf, SameBytes DEF Whole
    <3>7. Running(log, stored_size, file_size, d, u, want)
      BY <1>3, <3>4, <3>5, <3>6, RunningIs
    <3> QED BY <1>1, <1>3, <1>5, <2>1, <3>2, <3>7 DEF AllWell
  <2>3. CASE Now.n # 1
    <3>1. d = cache
      BY <1>5, <2>1, <2>3
    <3>2. Plan(u, file_size, want, cache) /\ Whole(u)
      BY <1>1, <1>3, <1>5, <2>1, <2>3, PlanFlush DEF Now
    <3>3. DataOK(log, cache, u, want)
      BY <1>2, <1>3, <3>2, SameAtSelf, SameBytes DEF Whole
    <3>4. Running(log, stored_size, file_size, cache, u, want)
      BY <1>3, <3>2, <3>3, RunningIs
    <3> QED BY <1>1, <1>3, <1>5, <2>1, <3>1, <3>4 DEF AllWell
  <2> QED BY <2>2, <2>3
<1> QED BY <1>4, <1>5 DEF FlushFileCache

LEMMA GrowKeeps ==
  ASSUME AllWell, Grow
  PROVE  AllWell'
<1>1. /\ todo # <<>> /\ Head(todo).a = "grow" /\ file_size' = Head(todo).n
      /\ want' = want \o Zeros(Head(todo).n - Len(want)) /\ todo' = Tail(todo)
      /\ log' = log /\ stored_size' = stored_size /\ cache' = cache /\ param' = param
  BY DEF Grow, Now
<1>2. Whole(todo) /\ Base0
  BY <1>1, WholeIs, Base0Is
<1>3. /\ log \in Seq(Recs) /\ stored_size \in 0 .. MaxSize
      /\ InRam(log, stored_size, MaxSize)
      /\ CacheOK(log, cache) /\ DataOK(log, cache, todo, want)
      /\ Len(cache) <= param.n_caches /\ param.n_caches \in Nat
      /\ Plan(todo, file_size, want, cache) /\ want \in Seq(Byte)
  BY <1>2 DEF Base0
<1>4. PICK v, u, f : v = want' /\ u = todo' /\ f = file_size'
  OBVIOUS
<1>5. v = want \o Zeros(Head(todo).n - Len(want)) /\ u = Tail(todo) /\ f = Head(todo).n
  BY <1>1, <1>4
<1>6. /\ Plan(u, f, v, cache) /\ Whole(u)
      /\ v \in Seq(Byte) /\ SameAt(v, want)
  BY <1>1, <1>3, <1>5, PlanGrow
<1>7. DataOK(log, cache, u, v)
  BY <1>2, <1>3, <1>6, SameBytes DEF Whole
<1>8. Running(log, stored_size, f, cache, u, v)
  BY <1>3, <1>6, <1>7, RunningIs
<1> QED BY <1>1, <1>3, <1>4, <1>8 DEF AllWell

LEMMA HdrReads ==
  ASSUME NEW l \in Seq(Recs), OneLive(l), NEW s \in 0 .. MaxSize, NEW b \in BOOLEAN
  PROVE  /\ Program(l, Hdr(s, b)) \in Seq(Recs)
         /\ \A k \in Nat \ {0} : RdDataObj(Program(l, Hdr(s, b)), k) = RdDataObj(l, k)
<1>1. PICK x : x = Hdr(s, b)
  OBVIOUS
<1>2. x \in Recs /\ x.chunk = 0 /\ x.live = TRUE
  <2>1. Hdr(s, b) \in Recs /\ Hdr(s, b).chunk = 0 /\ Hdr(s, b).live = TRUE
    BY HeaderIs
  <2> QED BY <1>1, <2>1
<1>3. Program(l, x) \in Seq(Recs)
  BY <1>2, ProgramIs DEF Programmed
<1>4. \A k : k # x.chunk => RdDataObj(Program(l, x), k) = RdDataObj(l, k)
  BY <1>2, RdProgram
<1>5. \A k \in Nat \ {0} : RdDataObj(Program(l, x), k) = RdDataObj(l, k)
  BY <1>2, <1>4
<1> QED BY <1>1, <1>3, <1>5

LEMMA UpdateOhKeeps ==
  ASSUME AllWell, UpdateOh
  PROVE  AllWell'
<1>1. /\ todo # <<>> /\ Head(todo).a \in {"hdr", "hole"}
      /\ file_size' = file_size /\ param' = param /\ want' = want /\ cache' = cache
      /\ stored_size' = stored_size /\ todo' = Tail(todo)
      /\ log' = Program(log, Hdr(stored_size, Head(todo).a = "hole"))
  BY DEF UpdateOh, Now
<1>2. Base0
  BY Base0Is
<1>3. PICK P : P = Limit(todo, stored_size)
  OBVIOUS
<1>4. /\ log \in Seq(Recs) /\ stored_size \in 0 .. MaxSize
      /\ InRam(log, stored_size, P) /\ OneLive(log)
      /\ CacheOK(log, cache) /\ DataOK(log, cache, todo, want)
      /\ Len(cache) <= param.n_caches /\ param.n_caches \in Nat
      /\ Plan(todo, file_size, want, cache) /\ want \in Seq(Byte)
  BY <1>2, <1>3 DEF Base0
<1>5. PICK u, b, m : /\ u = Tail(todo) /\ b = (Head(todo).a = "hole")
                     /\ m = Program(log, Hdr(stored_size, b))
  OBVIOUS
<1>6. b \in BOOLEAN
  BY <1>5
<1>7. m = log' /\ u = todo'
  BY <1>1, <1>5
<1>8. /\ Plan(u, file_size, want, cache) /\ Whole(u) /\ NotPadding(todo)
      /\ P = MaxSize \/ P = stored_size
  BY <1>1, <1>3, <1>4, <1>5, PlanHead
<1>9. P \in 0 .. MaxSize
  BY <1>4, <1>8, Bounds
<1>10. InRam(m, stored_size, MaxSize)
  <2>1. PICK P2 : P2 = MaxSize
    OBVIOUS
  <2>2. P2 = P \/ (P2 = MaxSize /\ P = stored_size)
    BY <1>8, <2>1
  <2>3. InRam(Program(log, Hdr(stored_size, b)), stored_size, P2)
    BY <1>4, <1>6, <1>9, <2>2, ProgramHdr
  <2> QED BY <1>5, <2>1, <2>3
<1>11. m \in Seq(Recs) /\ \A k \in Nat \ {0} : RdDataObj(m, k) = RdDataObj(log, k)
  BY <1>4, <1>5, <1>6, HdrReads
<1>12. CacheOK(m, cache) /\ DataOK(m, cache, todo, want)
  BY <1>4, <1>11, SameReads
<1>13. DataOK(m, cache, u, want)
  BY <1>4, <1>8, <1>12, SameAtSelf, SameBytes DEF Whole
<1>14. Running(m, stored_size, file_size, cache, u, want)
  BY <1>4, <1>8, <1>10, <1>11, <1>12, <1>13, RunningIs
<1> QED BY <1>1, <1>4, <1>7, <1>14 DEF AllWell

(* Behind the end there are only zeros.                                    *)
LEMMA ZeroChunk ==
  ASSUME NEW w \in Seq(Byte), NEW n \in Nat, ZeroFrom(w, n),
         NEW k \in Nat \ {0}, Base(k) >= n
  PROVE  ChunkAt(w, k) = Zeros(ChunkBytes)
<1>1. \A p \in Nat \ {0} : p > n => At(w, p) = Zero
  BY ZeroFromIs
<1>2. PICK c : c = ChunkAt(w, k)
  OBVIOUS
<1>3. /\ c \in ChunkData
      /\ \A q \in 1 .. ChunkBytes : c[q] = At(w, Base(k) + q) /\ Base(k) + q \in Nat \ {0}
  BY <1>2, ChunkAtIs
<1>4. Base(k) \in Int
  BY BaseIs
<1>5. \A q \in 1 .. ChunkBytes : c[q] = Zero
  <2> SUFFICES ASSUME NEW q \in 1 .. ChunkBytes PROVE c[q] = Zero
    OBVIOUS
  <2>1. Base(k) + q > n /\ Base(k) + q \in Nat \ {0}
    BY <1>3, <1>4
  <2>2. PICK p \in Nat \ {0} : p = Base(k) + q /\ p > n
    BY <2>1
  <2> QED BY <1>1, <1>3, <2>2
<1>6. /\ Zeros(ChunkBytes) \in ChunkData
      /\ \A q \in 1 .. ChunkBytes : Zeros(ChunkBytes)[q] = Zero
  BY Bounds DEF Zeros, ChunkData, Byte
<1>7. PICK z : z = Zeros(ChunkBytes)
  OBVIOUS
<1>8. z \in ChunkData /\ \A q \in 1 .. ChunkBytes : c[q] = z[q]
  BY <1>5, <1>6, <1>7
<1> QED BY <1>2, <1>3, <1>7, <1>8, ChunkDataEqual

LEMMA PruneReads ==
  ASSUME NEW l \in Seq(Recs), OneLive(l), NEW n \in Nat, NEW k \in Nat \ {0},
         NEW m, m = Drop(l, {j \in Chunks : Base(j) >= n})
  PROVE  /\ Base(k) >= n => RdDataObj(m, k) = Zeros(ChunkBytes)
         /\ ~(Base(k) >= n) => RdDataObj(m, k) = RdDataObj(l, k)
<1>1. PICK ks : ks = {j \in Chunks : Base(j) >= n}
  OBVIOUS
<1>2. RdDataObj(m, k) = IF k \in ks THEN Zeros(ChunkBytes) ELSE RdDataObj(l, k)
  BY <1>1, RdDrop
<1>3. ASSUME Base(k) >= n PROVE RdDataObj(m, k) = Zeros(ChunkBytes)
  <2>1. CASE k \in Chunks
    BY <1>1, <1>2, <1>3, <2>1
  <2>2. CASE k \notin Chunks
    <3>1. \A i \in 1 .. Len(l) : l[i].live => l[i].chunk # k
      BY <2>2, LogIs, RecTypes
    <3> QED BY <1>2, <3>1, RdNone
  <2> QED BY <2>1, <2>2
<1>4. ~(Base(k) >= n) => k \notin ks
  BY <1>1
<1> QED BY <1>2, <1>3, <1>4

LEMMA PruneKeeps ==
  ASSUME AllWell, PruneChunks
  PROVE  AllWell'
<1>1. PICK n, l : n = Head(todo).n /\ l = log'
  OBVIOUS
<1>2. PICK u : u = todo'
  OBVIOUS
<1>3. /\ todo # <<>> /\ Head(todo).a = "prune"
      /\ l = Drop(log, {j \in Chunks : Base(j) >= n})
      /\ u = <<Step("pad", n)>> \o Tail(todo)
      /\ file_size' = file_size /\ stored_size' = stored_size /\ cache' = cache
      /\ param' = param /\ want' = want
  BY <1>1, <1>2 DEF PruneChunks, Now
<1>4. Whole(todo) /\ Base0
  BY <1>3, WholeIs, Base0Is
<1>5. /\ log \in Seq(Recs) /\ stored_size \in 0 .. MaxSize
      /\ InRam(log, stored_size, MaxSize) /\ OneLive(log)
      /\ CacheOK(log, cache) /\ DataOK(log, cache, todo, want)
      /\ cache \in Seq(Entries) /\ Distinct(cache)
      /\ Len(cache) <= param.n_caches /\ param.n_caches \in Nat
      /\ Plan(todo, file_size, want, cache) /\ want \in Seq(Byte)
  BY <1>4 DEF Base0
<1>6. /\ CutAt(todo, file_size, want, cache, n) /\ Plan(u, file_size, want, cache)
      /\ u # <<>> /\ Head(u).a = "pad" /\ Head(u).n = n
  BY <1>1, <1>3, <1>5, PlanPrune
<1>7. n \in Nat /\ n \in 0 .. MaxSize /\ (cache = <<>> \/ ZeroFrom(want, n))
  BY <1>6, Bounds DEF CutAt
<1>8. l \in Seq(Recs)
  BY <1>3, <1>5, DropIs
<1>9. InRam(l, stored_size, Limit(u, stored_size))
  <2>1. InRam(l, stored_size, n)
    BY <1>3, <1>5, <1>7, PruneLog
  <2> QED BY <1>6, <2>1 DEF Limit
<1>10. \A k \in Nat \ {0} :
         /\ Base(k) >= n => /\ RdDataObj(l, k) = Zeros(ChunkBytes)
                            /\ Wanted(u, want, k) = Zeros(ChunkBytes)
         /\ ~(Base(k) >= n) => /\ RdDataObj(l, k) = RdDataObj(log, k)
                               /\ Wanted(u, want, k) = Wanted(todo, want, k)
  <2> SUFFICES ASSUME NEW k \in Nat \ {0}
      PROVE  /\ Base(k) >= n => /\ RdDataObj(l, k) = Zeros(ChunkBytes)
                                /\ Wanted(u, want, k) = Zeros(ChunkBytes)
             /\ ~(Base(k) >= n) => /\ RdDataObj(l, k) = RdDataObj(log, k)
                                   /\ Wanted(u, want, k) = Wanted(todo, want, k)
    OBVIOUS
  <2>1. /\ Base(k) >= n => RdDataObj(l, k) = Zeros(ChunkBytes)
        /\ ~(Base(k) >= n) => RdDataObj(l, k) = RdDataObj(log, k)
    BY <1>3, <1>5, <1>7, PruneReads
  <2>2. Wanted(todo, want, k) = ChunkAt(want, k)
    BY <1>4, WantedIs DEF Whole
  <2>3. Emptied(u, k) <=> Base(k) >= n
    BY <1>6 DEF Emptied
  <2> QED BY <2>1, <2>2, <2>3 DEF Wanted
<1>11. ASSUME NEW e \in Held(cache), Base(e.chunk) >= n
       PROVE  e.data = Zeros(ChunkBytes)
  <2>1. cache # <<>>
    BY <1>5 DEF Held
  <2>2. e.chunk \in Nat \ {0}
    BY <1>5, CacheHeld
  <2>3. e.data = Wanted(todo, want, e.chunk)
    BY <1>5, <2>2 DEF DataOK
  <2>4. e.data = ChunkAt(want, e.chunk)
    BY <1>4, <2>3, WantedIs DEF Whole
  <2>5. ChunkAt(want, e.chunk) = Zeros(ChunkBytes)
    BY <1>5, <1>7, <1>11, <2>1, <2>2, ZeroChunk
  <2> QED BY <2>4, <2>5
<1>12. CacheOK(l, cache)
  <2>1. ASSUME NEW e \in Held(cache) PROVE EntryOK(l, e)
    <3>1. EntryOK(log, e) /\ e.chunk \in Nat \ {0}
      BY <1>5, CacheHeld
    <3>2. CASE e.dirty
      BY <3>1, <3>2 DEF EntryOK
    <3>3. CASE ~e.dirty /\ Base(e.chunk) >= n
      <4>1. e.data = RdDataObj(l, e.chunk)
        BY <1>10, <1>11, <3>1, <3>3
      <4> QED BY <3>3, <4>1 DEF EntryOK
    <3>4. CASE ~e.dirty /\ ~(Base(e.chunk) >= n)
      <4>1. e.data = RdDataObj(l, e.chunk)
        BY <1>10, <3>1, <3>4 DEF EntryOK
      <4> QED BY <3>4, <4>1 DEF EntryOK
    <3> QED BY <3>2, <3>3, <3>4
  <2> QED BY <1>5, <2>1 DEF CacheOK
<1>13. DataOK(l, cache, u, want)
  <2>1. ASSUME NEW k \in Nat \ {0}, NEW e \in Held(cache), e.chunk = k
        PROVE  e.data = Wanted(u, want, k)
    <3>1. e.data = Wanted(todo, want, k)
      BY <1>5, <2>1 DEF DataOK
    <3> QED BY <1>10, <1>11, <2>1, <3>1
  <2>2. ASSUME NEW k \in Nat \ {0}, \A e \in Held(cache) : e.chunk # k
        PROVE  RdDataObj(l, k) = Wanted(u, want, k)
    <3>1. RdDataObj(log, k) = Wanted(todo, want, k)
      BY <1>5, <2>2 DEF DataOK
    <3> QED BY <1>10, <3>1
  <2> QED BY <2>1, <2>2 DEF DataOK
<1>14. Running(l, stored_size, file_size, cache, u, want)
  BY <1>5, <1>6, <1>8, <1>9, <1>12, <1>13 DEF Running
<1> QED BY <1>1, <1>2, <1>3, <1>5, <1>14 DEF AllWell

(* Where the file ends in its last chunk.                                  *)
LEMMA EndIs ==
  ASSUME NEW n \in 0 .. MaxSize, NEW k, k = ChunkOf(n), StartOf(n) # 0
  PROVE  /\ k \in Chunks /\ k \in Nat \ {0} /\ n - Base(k) \in 1 .. ChunkBytes
         /\ Base(k) \in Nat /\ Base(k) < n /\ Base(k + 1) - n \in Nat
         /\ Base(k + 1) - n = ChunkBytes - (n - Base(k))
         /\ Base(k) + (n - Base(k)) <= MaxSize
<1>1. n \in Nat /\ n <= MaxSize /\ ChunkBytes \in Nat
  BY Bounds
<1>2. /\ k \in Nat \ {0} /\ StartOf(n) \in 0 .. ChunkBytes - 1
      /\ n = Base(k) + StartOf(n)
  BY <1>1, ChunkOfIs
<1>3. Base(k) \in Nat /\ Base(k + 1) = Base(k) + ChunkBytes
  BY <1>2, BaseIs
<1>4. k \in Chunks
  <2>1. n - 1 \in Nat /\ n - 1 < MaxSize
    <3>1. n >= 1
      BY <1>1, <1>2, <1>3
    <3> QED BY <1>1, <3>1, Bounds
  <2>2. ChunkOf(n - 1) = k
    <3>1. Base(k) <= n - 1 /\ n - 1 < Base(k) + ChunkBytes
      BY <1>1, <1>2, <1>3
    <3> QED BY <1>2, <2>1, <3>1, ChunkOfUnique
  <2> QED BY <2>1, <2>2, ChunksAre
<1> QED BY <1>1, <1>2, <1>3, <1>4

LEMMA SeqChunk ==
  ASSUME NEW s \in Seq(Byte), Len(s) = ChunkBytes
  PROVE  s \in ChunkData
  BY Bounds DEF ChunkData

LEMMA LastChunkIs ==
  ASSUME NEW n \in 0 .. MaxSize, NEW k, k = ChunkOf(n), StartOf(n) # 0,
         RdDataObj(log, k) \in ChunkData
  PROVE  /\ LastChunk(n, k) \in ChunkData
         /\ \A q \in 1 .. ChunkBytes :
              LastChunk(n, k)[q] =
                IF q <= n - Base(k) THEN RdDataObj(log, k)[q] ELSE Zero
<1>1. PICK m, r \in Nat : /\ m = n - Base(k) /\ m \in 1 .. ChunkBytes
                          /\ r = Base(k + 1) - n /\ m + r = ChunkBytes
  <2>1. n - Base(k) \in 1 .. ChunkBytes /\ Base(k + 1) - n \in Nat
        /\ Base(k + 1) - n = ChunkBytes - (n - Base(k))
    BY EndIs
  <2> QED BY <2>1, Bounds
<1>2. PICK d : d = RdDataObj(log, k)
  OBVIOUS
<1>3. d \in Seq(Byte) /\ Len(d) = ChunkBytes
  BY <1>2, ChunkDataIs
<1>4. PICK a : a = SubSeq(d, 1, m)
  OBVIOUS
<1>5. a \in Seq(Byte) /\ Len(a) = m /\ \A q \in 1 .. m : a[q] = d[q]
  BY <1>1, <1>3, <1>4, Bounds
<1>6. PICK z : z = Zeros(r)
  OBVIOUS
<1>7. z \in Seq(Byte) /\ Len(z) = r /\ \A q \in 1 .. r : z[q] = Zero
  BY <1>1, <1>6, ZerosAre
<1>8. PICK s : s = a \o z
  OBVIOUS
<1>9. /\ s \in Seq(Byte) /\ Len(s) = m + r
      /\ \A q \in 1 .. m + r : s[q] = IF q <= m THEN a[q] ELSE z[q - m]
  <2>1. /\ a \o z \in Seq(Byte) /\ Len(a \o z) = Len(a) + Len(z)
        /\ \A q \in 1 .. Len(a) + Len(z) :
             (a \o z)[q] = IF q <= Len(a) THEN a[q] ELSE z[q - Len(a)]
    BY <1>5, <1>7, ConcatIs, Zenon
  <2> QED BY <1>5, <1>7, <1>8, <2>1
<1>10. s \in ChunkData
  BY <1>1, <1>9, SeqChunk
<1>11. \A q \in 1 .. ChunkBytes : s[q] = IF q <= m THEN d[q] ELSE Zero
  <2> SUFFICES ASSUME NEW q \in 1 .. ChunkBytes
               PROVE  s[q] = IF q <= m THEN d[q] ELSE Zero
    OBVIOUS
  <2>1. s[q] = IF q <= m THEN a[q] ELSE z[q - m]
    BY <1>1, <1>9
  <2>2. CASE q <= m
    BY <1>1, <1>5, <2>1, <2>2
  <2>3. CASE ~(q <= m)
    <3>1. q - m \in 1 .. r
      BY <1>1, <2>3
    <3> QED BY <1>7, <2>1, <2>3, <3>1
  <2> QED BY <2>2, <2>3
<1>12. LastChunk(n, k) = s
  BY <1>1, <1>2, <1>4, <1>6, <1>8 DEF LastChunk
<1> QED BY <1>1, <1>2, <1>10, <1>11, <1>12

(* The plan t cuts the bytes w off at n, and v are left.                   *)
CuttingOff(t, w, n, v) ==
  /\ t # <<>> /\ Head(t).a = "pad" /\ Head(t).n = n
  /\ w \in Seq(Byte) /\ n \in 0 .. Len(w) /\ v = SubSeq(w, 1, n)

(* The bytes of the chunks beside the end of the file.                     *)
LEMMA CutWanted ==
  ASSUME NEW t, NEW w, NEW n, NEW v, CuttingOff(t, w, n, v),
         NEW j \in Nat \ {0}, j # ChunkOf(n) \/ StartOf(n) = 0
  PROVE  Wanted(t, w, j) = ChunkAt(v, j)
<1>0. /\ t # <<>> /\ Head(t).a = "pad" /\ Head(t).n = n
      /\ w \in Seq(Byte) /\ n \in 0 .. Len(w) /\ v = SubSeq(w, 1, n)
  BY DEF CuttingOff
<1>1. n \in Nat /\ Len(w) \in Nat
  BY <1>0, BytesAre
<1>2. /\ v \in Seq(Byte) /\ Len(v) = n
      /\ \A p \in Nat \ {0} : At(v, p) = IF p <= n THEN At(w, p) ELSE Zero
  BY <1>0, <1>1, AtCutOff
<1>3. Base(j) \in Nat
  <2>1. PICK i \in Int : i = j /\ i >= 1
    OBVIOUS
  <2>2. Base(i) \in Int /\ Base(i) >= 0
    BY <2>1, BaseIs
  <2> QED BY <2>1, <2>2
<1>4. CASE Base(j) >= n
  <2>1. ZeroFrom(v, n)
    <3>1. \A p \in Nat \ {0} : p > n => At(v, p) = Zero
      BY <1>1, <1>2
    <3> QED BY <1>1, <1>2, <3>1, ZeroFromIs
  <2>2. ChunkAt(v, j) = Zeros(ChunkBytes)
    BY <1>1, <1>2, <1>4, <2>1, ZeroChunk
  <2>3. Emptied(t, j)
    BY <1>0, <1>4 DEF Emptied
  <2> QED BY <2>2, <2>3 DEF Wanted
<1>5. CASE ~(Base(j) >= n)
  <2>1. Wanted(t, w, j) = ChunkAt(w, j)
    BY <1>0, <1>5 DEF Wanted, Emptied
  <2>2. Base(j) + ChunkBytes <= n
    <3>1. Clear(n, j)
      BY <1>1, EndClear
    <3> QED BY <1>1, <1>3, <1>5, <3>1 DEF Clear, Beside
  <2>3. PICK c, d : c = ChunkAt(w, j) /\ d = ChunkAt(v, j)
    OBVIOUS
  <2>4. /\ c \in ChunkData
        /\ \A q \in 1 .. ChunkBytes : c[q] = At(w, Base(j) + q) /\ Base(j) + q \in Nat \ {0}
    BY <1>0, <2>3, ChunkAtIs
  <2>5. /\ d \in ChunkData
        /\ \A q \in 1 .. ChunkBytes : d[q] = At(v, Base(j) + q)
    BY <1>2, <2>3, ChunkAtIs
  <2>6. \A q \in 1 .. ChunkBytes : c[q] = d[q]
    <3> SUFFICES ASSUME NEW q \in 1 .. ChunkBytes PROVE c[q] = d[q]
      OBVIOUS
    <3>1. PICK p \in Nat \ {0} : p = Base(j) + q /\ p <= n
      BY <1>1, <1>3, <2>2, <2>4, Bounds
    <3> QED BY <1>2, <2>4, <2>5, <3>1
  <2>7. c = d
    BY <2>4, <2>5, <2>6, ChunkDataEqual
  <2> QED BY <2>1, <2>3, <2>7
<1> QED BY <1>4, <1>5

(* The chunk in which the file ends, written again.                        *)
LEMMA EndBytes ==
  ASSUME NEW w \in Seq(Byte), NEW n \in 0 .. MaxSize, n <= Len(w), StartOf(n) # 0,
         NEW k, k = ChunkOf(n), RdDataObj(log, k) = ChunkAt(w, k),
         NEW v, v = SubSeq(w, 1, n)
  PROVE  LastChunk(n, k) = ChunkAt(v, k)
<1>1. n \in Nat /\ Len(w) \in Nat /\ n \in 0 .. Len(w)
  BY BytesAre, Bounds
<1>2. /\ v \in Seq(Byte) /\ Len(v) = n
      /\ \A p \in Nat \ {0} : At(v, p) = IF p <= n THEN At(w, p) ELSE Zero
  BY <1>1, AtCutOff
<1>3. k \in Nat \ {0} /\ Base(k) \in Nat
  BY EndIs
<1>4. PICK c, d, e : c = ChunkAt(w, k) /\ d = ChunkAt(v, k) /\ e = LastChunk(n, k)
  OBVIOUS
<1>5. /\ c \in ChunkData
      /\ \A q \in 1 .. ChunkBytes : c[q] = At(w, Base(k) + q) /\ Base(k) + q \in Nat \ {0}
  BY <1>3, <1>4, ChunkAtIs
<1>6. /\ d \in ChunkData
      /\ \A q \in 1 .. ChunkBytes : d[q] = At(v, Base(k) + q)
  BY <1>2, <1>3, <1>4, ChunkAtIs
<1>7. /\ e \in ChunkData
      /\ \A q \in 1 .. ChunkBytes : e[q] = IF q <= n - Base(k) THEN c[q] ELSE Zero
  <2>1. RdDataObj(log, k) \in ChunkData
    BY <1>4, <1>5
  <2>2. /\ LastChunk(n, k) \in ChunkData
        /\ \A q \in 1 .. ChunkBytes :
             LastChunk(n, k)[q] =
               IF q <= n - Base(k) THEN RdDataObj(log, k)[q] ELSE Zero
    BY <2>1, LastChunkIs
  <2> QED BY <1>4, <2>2
<1>8. \A q \in 1 .. ChunkBytes : e[q] = d[q]
  <2> SUFFICES ASSUME NEW q \in 1 .. ChunkBytes PROVE e[q] = d[q]
    OBVIOUS
  <2>1. PICK p \in Nat \ {0} : p = Base(k) + q
    BY <1>5
  <2>2. c[q] = At(w, p) /\ d[q] = At(v, p)
    BY <1>5, <1>6, <2>1
  <2>3. p <= n <=> q <= n - Base(k)
    BY <1>1, <1>3, <2>1
  <2>4. CASE p <= n
    BY <1>2, <1>7, <2>2, <2>3, <2>4
  <2>5. CASE ~(p <= n)
    BY <1>2, <1>7, <2>2, <2>3, <2>5
  <2> QED BY <2>4, <2>5
<1>9. e = d
  BY <1>6, <1>7, <1>8, ChunkDataEqual
<1> QED BY <1>4, <1>9

(* Nothing but zeros is cut off.                                           *)
LEMMA CutZeros ==
  ASSUME NEW w \in Seq(Byte), NEW n \in 0 .. Len(w), ZeroFrom(w, n),
         NEW v, v = SubSeq(w, 1, n), NEW k \in Nat \ {0}
  PROVE  ChunkAt(v, k) = ChunkAt(w, k)
<1>1. n \in Nat /\ Len(w) \in Nat
  BY BytesAre
<1>2. /\ v \in Seq(Byte)
      /\ \A p \in Nat \ {0} : At(v, p) = IF p <= n THEN At(w, p) ELSE Zero
  BY <1>1, AtCutOff
<1>3. \A p \in Nat \ {0} : p > n => At(w, p) = Zero
  BY <1>1, ZeroFromIs
<1>4. \A p \in Nat \ {0} : At(v, p) = At(w, p)
  BY <1>1, <1>2, <1>3
<1> QED BY <1>2, <1>4, ChunkAtSame

LEMMA ResizeDownKeeps ==
  ASSUME AllWell, ResizeFileDown
  PROVE  AllWell'
<1>1. PICK n, l, v : n = Head(todo).n /\ l = log' /\ v = want'
  OBVIOUS
<1>2. PICK u, k : u = todo' /\ k = ChunkOf(n)
  OBVIOUS
<1>3. /\ todo # <<>> /\ Head(todo).a = "pad" /\ u = Tail(todo)
      /\ v = SubSeq(want, 1, n)
      /\ file_size' = n /\ stored_size' = n /\ cache' = cache /\ param' = param
  BY <1>1, <1>2 DEF ResizeFileDown, Now
<1>4. /\ StartOf(n) = 0 => l = log
      /\ StartOf(n) # 0 => l = Program(log, Data(k, LastChunk(n, k), n - Base(k)))
  BY <1>1, <1>2 DEF ResizeFileDown, Now
<1>5. Base0
  BY Base0Is
<1>6. /\ log \in Seq(Recs) /\ stored_size \in 0 .. MaxSize
      /\ InRam(log, stored_size, Limit(todo, stored_size)) /\ OneLive(log)
      /\ CacheOK(log, cache) /\ DataOK(log, cache, todo, want)
      /\ cache \in Seq(Entries) /\ Distinct(cache)
      /\ Len(cache) <= param.n_caches /\ param.n_caches \in Nat
      /\ Plan(todo, file_size, want, cache) /\ want \in Seq(Byte)
  BY <1>5 DEF Base0
<1>7. /\ CutAt(todo, file_size, want, cache, n) /\ Plan(u, n, v, cache)
      /\ u # <<>> /\ Head(u).a \in {"hdr", "hole"} /\ Head(u).n = 1
  BY <1>1, <1>3, <1>6, PlanPad
<1>8. /\ n \in Nat /\ n \in 0 .. MaxSize /\ n \in 0 .. Len(want) /\ n <= Len(want)
      /\ cache = <<>> \/ ZeroFrom(want, n)
  BY <1>7, Bounds DEF CutAt
<1>9. InRam(log, stored_size, n)
  BY <1>1, <1>3, <1>6 DEF Limit
<1>10. Limit(u, n) = n /\ NotPadding(u)
  BY <1>7 DEF Limit, NotPadding
<1>11. \A j \in Nat \ {0} : j # k \/ StartOf(n) = 0 =>
         Wanted(todo, want, j) = ChunkAt(v, j) /\ Wanted(u, v, j) = ChunkAt(v, j)
  <2> SUFFICES ASSUME NEW j \in Nat \ {0}, j # k \/ StartOf(n) = 0
      PROVE  Wanted(todo, want, j) = ChunkAt(v, j) /\ Wanted(u, v, j) = ChunkAt(v, j)
    OBVIOUS
  <2>1. Wanted(todo, want, j) = ChunkAt(v, j)
    <3>1. todo # <<>> /\ Head(todo).a = "pad" /\ Head(todo).n = n
      BY <1>1, <1>3
    <3>2. j # ChunkOf(n) \/ StartOf(n) = 0
      BY <1>2
    <3>3. want \in Seq(Byte) /\ n \in 0 .. Len(want)
      BY <1>6, <1>8
    <3>4. v = SubSeq(want, 1, n)
      BY <1>3
    <3>5. CuttingOff(todo, want, n, v)
      BY <3>1, <3>3, <3>4 DEF CuttingOff
    <3> QED BY <3>2, <3>5, CutWanted
  <2> QED BY <1>10, <2>1, WantedIs
<1>12. CASE StartOf(n) = 0
  <2>1. InRam(l, n, n)
    BY <1>4, <1>6, <1>8, <1>9, <1>12, PadNothing
  <2>2. \A j \in Nat \ {0} : Wanted(todo, want, j) = Wanted(u, v, j)
    BY <1>11, <1>12
  <2>3. DataOK(log, cache, u, v)
    BY <1>6, <2>2 DEF DataOK
  <2>4. Running(l, n, n, cache, u, v)
    BY <1>4, <1>6, <1>7, <1>8, <1>10, <1>12, <2>1, <2>3 DEF Running
  <2> QED BY <1>1, <1>2, <1>3, <1>6, <2>4 DEF AllWell
<1>13. CASE StartOf(n) # 0
  <2>1. /\ k \in Chunks /\ k \in Nat \ {0} /\ n - Base(k) \in 1 .. ChunkBytes
        /\ Base(k) \in Nat /\ Base(k) < n /\ Base(k) + (n - Base(k)) <= MaxSize
    BY <1>2, <1>8, <1>13, EndIs
  <2>2. PICK d : d = LastChunk(n, k)
    OBVIOUS
  <2>3. PICK m : m = n - Base(k) /\ m \in 1 .. ChunkBytes /\ Base(k) + m <= MaxSize
    BY <2>1
  <2>4. d \in ChunkData /\ \A q \in 1 .. ChunkBytes : q > m => d[q] = Zero
    <3>1. RdDataObj(log, k) \in ChunkData
      BY <1>6, <2>1, RdIsData
    <3>2. /\ LastChunk(n, k) \in ChunkData
          /\ \A q \in 1 .. ChunkBytes :
               LastChunk(n, k)[q] =
                 IF q <= n - Base(k) THEN RdDataObj(log, k)[q] ELSE Zero
      BY <1>2, <1>8, <1>13, <3>1, LastChunkIs
    <3>3. m \in Nat
      BY <2>3, Bounds
    <3> QED BY <2>2, <2>3, <3>2, <3>3
  <2>5. ZeroBehind(d, m)
    <3>1. \A q \in m + 1 .. ChunkBytes : q \in 1 .. ChunkBytes /\ q > m
      BY <2>3, Bounds
    <3> QED BY <2>4, <3>1 DEF ZeroBehind
  <2>6. PICK x : x = Data(k, d, m)
    OBVIOUS
  <2>7. Written(x, k, d, m)
    BY <2>1, <2>3, <2>4, <2>5, <2>6, DataIs
  <2>8. /\ x \in Recs /\ x.live = TRUE /\ x.keep = FALSE /\ x.chunk = k /\ x.chunk # 0
        /\ x.data = d /\ x.n = m
    BY <2>1, <2>7 DEF Written
  <2>9. l = Program(log, x)
    BY <1>4, <1>13, <2>2, <2>3, <2>6
  <2>10. l \in Seq(Recs)
    BY <1>6, <2>8, <2>9, ProgramIs DEF Programmed
  <2>11. InRam(l, n, n)
    <3>1. x.chunk = ChunkOf(n) /\ x.n = n - Base(ChunkOf(n))
      BY <1>2, <2>3, <2>8
    <3>2. InRam(Program(log, x), n, n)
      BY <1>6, <1>8, <1>9, <1>13, <2>8, <3>1, PadLog
    <3> QED BY <2>9, <3>2
  <2>12. /\ RdDataObj(l, k) = d
         /\ \A j : j # k => RdDataObj(l, j) = RdDataObj(log, j)
    BY <1>6, <2>8, <2>9, RdProgram
  <2>13. Wanted(todo, want, k) = ChunkAt(want, k) /\ Wanted(u, v, k) = ChunkAt(v, k)
    <3>1. ~(Base(k) >= n)
      BY <1>8, <2>1
    <3>2. ~Emptied(todo, k)
      BY <1>1, <3>1 DEF Emptied
    <3> QED BY <1>10, <3>2, WantedIs DEF Wanted
  <2>14. ASSUME NEW e \in Held(cache), e.chunk = k
         PROVE  e.data = ChunkAt(v, k) /\ ChunkAt(v, k) = ChunkAt(want, k)
    <3>1. cache # <<>>
      BY <1>6, <2>14 DEF Held
    <3>2. ChunkAt(v, k) = ChunkAt(want, k)
      BY <1>3, <1>6, <1>8, <2>1, <3>1, CutZeros
    <3>3. e.data = Wanted(todo, want, k)
      BY <1>6, <2>1, <2>14 DEF DataOK
    <3> QED BY <2>13, <3>2, <3>3
  <2>15. CacheOK(l, cache)
    <3>1. ASSUME NEW e \in Held(cache) PROVE EntryOK(l, e)
      <4>1. EntryOK(log, e)
        BY <1>6, CacheHeld
      <4>2. CASE e.dirty
        BY <4>1, <4>2 DEF EntryOK
      <4>3. CASE ~e.dirty /\ e.chunk # k
        BY <2>12, <4>1, <4>3 DEF EntryOK
      <4>4. CASE ~e.dirty /\ e.chunk = k
        <5>1. e.data = ChunkAt(v, k) /\ ChunkAt(v, k) = ChunkAt(want, k)
          BY <2>14, <4>4
        <5>2. RdDataObj(log, k) = ChunkAt(want, k)
          BY <4>1, <4>4, <5>1 DEF EntryOK
        <5>3. d = ChunkAt(v, k)
          BY <1>2, <1>3, <1>6, <1>8, <1>13, <2>2, <5>2, EndBytes
        <5>4. e.data = RdDataObj(l, e.chunk)
          BY <2>12, <4>4, <5>1, <5>3
        <5> QED BY <4>4, <5>4 DEF EntryOK
      <4> QED BY <4>2, <4>3, <4>4
    <3> QED BY <1>6, <3>1 DEF CacheOK
  <2>16. DataOK(l, cache, u, v)
    <3>1. ASSUME NEW j \in Nat \ {0}, NEW e \in Held(cache), e.chunk = j
          PROVE  e.data = Wanted(u, v, j)
      <4>1. CASE j = k
        BY <2>13, <2>14, <3>1, <4>1
      <4>2. CASE j # k
        <5>1. e.data = Wanted(todo, want, j)
          BY <1>6, <3>1 DEF DataOK
        <5> QED BY <1>11, <4>2, <5>1
      <4> QED BY <4>1, <4>2
    <3>2. ASSUME NEW j \in Nat \ {0}, \A e \in Held(cache) : e.chunk # j
          PROVE  RdDataObj(l, j) = Wanted(u, v, j)
      <4>1. RdDataObj(log, j) = Wanted(todo, want, j)
        BY <1>6, <3>2 DEF DataOK
      <4>2. CASE j = k
        <5>1. RdDataObj(log, k) = ChunkAt(want, k)
          BY <2>13, <4>1, <4>2
        <5>2. d = ChunkAt(v, k)
          BY <1>2, <1>3, <1>6, <1>8, <1>13, <2>2, <5>1, EndBytes
        <5> QED BY <2>12, <2>13, <4>2, <5>2
      <4>3. CASE j # k
        BY <1>11, <2>12, <4>1, <4>3
      <4> QED BY <4>2, <4>3
    <3> QED BY <3>1, <3>2 DEF DataOK
  <2>17. Running(l, n, n, cache, u, v)
    BY <1>7, <1>8, <1>10, <2>10, <2>11, <2>15, <2>16 DEF Running
  <2> QED BY <1>1, <1>2, <1>3, <1>6, <2>17 DEF AllWell
<1> QED BY <1>12, <1>13

-----------------------------------------------------------------------------
(* Garbage collection and erasures.                                        *)

(* A log that reads as before, below the same plan.                        *)
LEMMA LogChanges ==
  ASSUME AllWell, NEW l \in Seq(Recs), NEW st \in 0 .. MaxSize, st = stored_size,
         InRam(l, st, Limit(todo, st)),
         \A k \in Nat \ {0} : RdDataObj(l, k) = RdDataObj(log, k),
         log' = l, stored_size' = stored_size, file_size' = file_size,
         cache' = cache, todo' = todo, param' = param, want' = want
  PROVE  AllWell'
<1>1. Base0
  BY Base0Is
<1>2. CacheOK(l, cache) /\ DataOK(l, cache, todo, want)
  <2>1. CacheOK(log, cache) /\ DataOK(log, cache, todo, want)
    BY <1>1 DEF Base0
  <2> QED BY <2>1, SameReads
<1>3. Running(l, stored_size, file_size, cache, todo, want)
  BY <1>1, <1>2 DEF Base0, Running
<1>4. Running(log', stored_size', file_size', cache', todo', want')
  BY <1>3
<1>5. Len(cache') <= param'.n_caches /\ param'.n_caches \in Nat
  BY <1>1 DEF Base0
<1> QED BY <1>4, <1>5 DEF AllWell

(* Chunks are cut off at the stored size or in the middle of a resize.     *)
LEMMA Limits ==
  ASSUME AllWell
  PROVE  /\ Limit(todo, stored_size) \in 0 .. MaxSize
         /\ ~Cutting => Limit(todo, stored_size) = MaxSize
<1>1. PICK P, st : P = Limit(todo, stored_size) /\ st = stored_size
  OBVIOUS
<1>2. Base0 /\ MaxSize \in Nat
  BY Base0Is, Bounds
<1>3. st \in 0 .. MaxSize /\ file_size \in 0 .. MaxSize /\ Plan(todo, file_size, want, cache)
  BY <1>1, <1>2 DEF Base0
<1>4. CASE todo = <<>>
  BY <1>2, <1>4 DEF Limit
<1>5. CASE todo # <<>> /\ Head(todo).a = "pad"
  <2>1. CutAt(todo, file_size, want, cache, Head(todo).n)
    BY <1>3, <1>5, PlanPad
  <2>2. PICK n : n = Head(todo).n
    OBVIOUS
  <2>3. n \in 0 .. MaxSize
    BY <1>2, <1>3, <2>1, <2>2 DEF CutAt
  <2>4. P = n
    BY <1>1, <1>5, <2>2 DEF Limit
  <2>5. Cutting
    BY <1>5 DEF Cutting, Now
  <2> QED BY <1>1, <2>3, <2>4, <2>5
<1>6. CASE todo # <<>> /\ Head(todo).a \in {"hdr", "hole"} /\ Head(todo).n = 1
  <2>1. P = st
    BY <1>1, <1>6 DEF Limit
  <2>2. Cutting
    BY <1>6 DEF Cutting, Now
  <2> QED BY <1>1, <1>3, <2>1, <2>2
<1>7. CASE /\ todo # <<>> /\ Head(todo).a # "pad"
           /\ ~(Head(todo).a \in {"hdr", "hole"} /\ Head(todo).n = 1)
  BY <1>2, <1>7 DEF Limit
<1> QED BY <1>4, <1>5, <1>6, <1>7

LEMMA EraseKeeps ==
  ASSUME AllWell, NEW i \in DOMAIN log, Erase(i), "cut" \notin Exposed
  PROVE  AllWell'
<1>1. PICK l, st, P : l = log /\ st = stored_size /\ P = Limit(todo, stored_size)
  OBVIOUS
<1>2. Base0
  BY Base0Is
<1>3. /\ l \in Seq(Recs) /\ st \in 0 .. MaxSize /\ P \in 0 .. MaxSize
      /\ InRam(l, st, P) /\ OneLive(l)
  BY <1>1, <1>2, Limits DEF Base0
<1>4. i \in 1 .. Len(l)
  BY <1>1, <1>3, LogIs
<1>5. ~l[i].live /\ log' = RemoveAt(l, i)
  BY <1>1 DEF Erase
<1>6. P = MaxSize \/ \A j \in 1 .. i - 1 : l[j].chunk # l[i].chunk
  BY <1>1, Limits DEF Erase
<1>7. InRam(RemoveAt(l, i), st, P)
  BY <1>3, <1>4, <1>5, <1>6, EraseLog
<1>8. \A k : RdDataObj(RemoveAt(l, i), k) = RdDataObj(l, k)
  BY <1>3, <1>4, <1>5, RdErase
<1>9. PICK m : m = RemoveAt(l, i)
  OBVIOUS
<1>10. m \in Seq(Recs)
  BY <1>3, <1>4, <1>9, EraseIs
<1>11. InRam(m, st, Limit(todo, st))
  BY <1>1, <1>7, <1>9
<1>12. \A k \in Nat \ {0} : RdDataObj(m, k) = RdDataObj(log, k)
  BY <1>1, <1>8, <1>9
<1>13. /\ log' = m /\ stored_size' = stored_size /\ file_size' = file_size
       /\ cache' = cache /\ todo' = todo /\ param' = param /\ want' = want
  BY <1>5, <1>9 DEF Erase
<1> QED BY <1>1, <1>3, <1>10, <1>11, <1>12, <1>13, LogChanges

(* A live data chunk ends before the stored size and is not cut off.       *)
LEMMA LiveIs ==
  ASSUME NEW l, NEW st, NEW P, InRam(l, st, P), NEW i \in 1 .. Len(l), l[i].live,
         l[i].chunk # 0
  PROVE  /\ Base(l[i].chunk) + l[i].n <= st /\ Base(l[i].chunk) < P
         /\ l[i].keep = l[i].shrink
BY DEF InRam, LiveOK, MarksOK

LEMMA GcKeeps ==
  ASSUME AllWell, NEW i \in DOMAIN log, GcChunk(i)
  PROVE  AllWell'
<1>1. PICK l, st, P : l = log /\ st = stored_size /\ P = Limit(todo, stored_size)
  OBVIOUS
<1>2. Base0
  BY Base0Is
<1>3. /\ l \in Seq(Recs) /\ st \in 0 .. MaxSize /\ P \in 0 .. MaxSize
      /\ InRam(l, st, P) /\ OneLive(l)
  BY <1>1, <1>2, Limits DEF Base0
<1>4. i \in 1 .. Len(l) /\ l[i] \in Recs
  BY <1>1, <1>3, LogIs
<1>5. /\ l[i].live
      /\ l[i].chunk = 0 => log' = Program(l, Hdr(st, FALSE))
      /\ l[i].chunk # 0 => log' = Program(l, l[i])
  BY <1>1 DEF GcChunk
<1>6. /\ stored_size' = stored_size /\ file_size' = file_size
      /\ cache' = cache /\ todo' = todo /\ param' = param /\ want' = want
  BY DEF GcChunk
<1>7. CASE l[i].chunk = 0
  <2>1. PICK m : m = Program(l, Hdr(st, FALSE))
    OBVIOUS
  <2>2. InRam(Program(l, Hdr(st, FALSE)), st, P)
    BY <1>3, ProgramHdr
  <2>3. /\ Program(l, Hdr(st, FALSE)) \in Seq(Recs)
        /\ \A k \in Nat \ {0} : RdDataObj(Program(l, Hdr(st, FALSE)), k) = RdDataObj(l, k)
    BY <1>3, HdrReads
  <2>4. /\ m \in Seq(Recs) /\ InRam(m, st, Limit(todo, st)) /\ log' = m
        /\ \A k \in Nat \ {0} : RdDataObj(m, k) = RdDataObj(log, k)
    BY <1>1, <1>5, <1>7, <2>1, <2>2, <2>3
  <2> QED BY <1>1, <1>3, <1>6, <2>4, LogChanges
<1>8. CASE l[i].chunk # 0
  <2>1. PICK c : c = l[i]
    OBVIOUS
  <2>2. c \in Recs /\ c.chunk # 0 /\ c.shrink = FALSE /\ c.live \in BOOLEAN
        /\ c.keep \in BOOLEAN
    BY <1>4, <1>8, <2>1, RecTypes
  <2>3. Base(c.chunk) + c.n <= st /\ Base(c.chunk) < P /\ c.keep = c.shrink /\ c.live
    BY <1>3, <1>4, <1>5, <1>8, <2>1, LiveIs
  <2>4. c.live = TRUE /\ c.keep = FALSE
    BY <2>2, <2>3
  <2>5. InRam(Program(l, c), Larger(st, Base(c.chunk) + c.n), P)
    BY <1>3, <2>2, <2>3, <2>4, ProgramData
  <2>6. Larger(st, Base(c.chunk) + c.n) = st
    <3>1. TypedRec(c)
      BY <2>2, RecTyped
    <3>2. Base(c.chunk) + c.n \in Nat /\ st \in Nat
      BY <1>3, <2>2, <3>1, Bounds DEF TypedRec
    <3> QED BY <2>3, <3>2 DEF Larger
  <2>7. PICK m : m = Program(l, c)
    OBVIOUS
  <2>8. m \in Seq(Recs)
    BY <1>3, <2>2, <2>7, ProgramIs DEF Programmed
  <2>9. /\ RdDataObj(m, c.chunk) = c.data
        /\ \A k : k # c.chunk => RdDataObj(m, k) = RdDataObj(l, k)
    BY <1>3, <2>2, <2>4, <2>7, RdProgram
  <2>10. RdDataObj(l, c.chunk) = c.data
    BY <1>3, <1>4, <1>5, <2>1, RdLive
  <2>11. \A k \in Nat \ {0} : RdDataObj(m, k) = RdDataObj(log, k)
    BY <1>1, <2>9, <2>10
  <2>12. InRam(m, st, Limit(todo, st)) /\ log' = m
    BY <1>1, <1>5, <1>8, <2>1, <2>5, <2>6, <2>7
  <2> QED BY <1>1, <1>3, <1>6, <2>8, <2>11, <2>12, LogChanges
<1> QED BY <1>7, <1>8

-----------------------------------------------------------------------------
(* Power failures and mounts.                                              *)

(* Byte p of a file is byte q of chunk k.                                  *)
Place(p, k, q) ==
  /\ k \in Nat \ {0} /\ q \in 1 .. ChunkBytes /\ p = Base(k) + q
  /\ ChunkOf(p - 1) = k /\ StartOf(p - 1) + 1 = q

LEMMA PlaceOf ==
  ASSUME NEW p \in Nat \ {0}
  PROVE  Place(p, ChunkOf(p - 1), StartOf(p - 1) + 1)
<1>1. PICK o, k, s : o = p - 1 /\ k = ChunkOf(o) /\ s = StartOf(o)
  OBVIOUS
<1>2. o \in Nat /\ p = o + 1
  BY <1>1
<1>3. k \in Nat \ {0} /\ s \in 0 .. ChunkBytes - 1 /\ o = Base(k) + s
  BY <1>1, <1>2, ChunkOfIs
<1>4. Base(k) \in Int
  BY <1>3, BaseIs
<1>5. s + 1 \in 1 .. ChunkBytes /\ p = Base(k) + (s + 1)
  BY <1>2, <1>3, <1>4, Bounds
<1> QED BY <1>1, <1>3, <1>5 DEF Place

LEMMA PlaceIn ==
  ASSUME NEW k \in Nat \ {0}, NEW q \in 1 .. ChunkBytes
  PROVE  Base(k) + q \in Nat \ {0} /\ Place(Base(k) + q, k, q)
<1>1. PICK b : b = Base(k)
  OBVIOUS
<1>2. b \in Nat
  <2>1. PICK i \in Int : i = k /\ i >= 1
    OBVIOUS
  <2>2. Base(i) \in Int /\ Base(i) >= 0
    BY <2>1, BaseIs
  <2> QED BY <1>1, <2>1, <2>2
<1>3. PICK o, p : p = b + q /\ o = p - 1
  OBVIOUS
<1>4. /\ o \in Nat /\ b <= o /\ o < b + ChunkBytes
      /\ p \in Nat \ {0} /\ o - b = q - 1 /\ q - 1 + 1 = q
  <2>1. q \in Nat /\ q >= 1 /\ q <= ChunkBytes /\ ChunkBytes \in Nat
    BY Bounds
  <2> QED BY <1>2, <1>3, <2>1
<1>5. ChunkOf(o) = k /\ StartOf(o) = o - b
  BY <1>1, <1>4, ChunkOfUnique
<1>6. ChunkOf(p - 1) = k /\ StartOf(p - 1) + 1 = q
  BY <1>3, <1>4, <1>5
<1>7. p = Base(k) + q
  BY <1>1, <1>3
<1>8. Place(p, k, q)
  BY <1>6, <1>7 DEF Place
<1> QED BY <1>4, <1>7, <1>8

(* The bytes a mount finds are those of the chunks.                        *)
LEMMA BytesRead ==
  ASSUME NEW m \in Seq(Recs), NEW s \in 0 .. MaxSize, InRam(m, s, MaxSize),
         NEW w, w = Bytes(m, s)
  PROVE  /\ w \in Seq(Byte) /\ Len(w) = s
         /\ \A k \in Nat \ {0} : ChunkAt(w, k) = RdDataObj(m, k)
<1>1. OneLive(m) /\ s \in Nat
  BY RamOneLive, Bounds
<1>2. ASSUME NEW p \in 1 .. s
      PROVE  RdDataObj(m, ChunkOf(p - 1))[StartOf(p - 1) + 1] \in Byte
  <2>1. PICK k, q : k = ChunkOf(p - 1) /\ q = StartOf(p - 1) + 1
    OBVIOUS
  <2>2. p \in Nat \ {0}
    BY <1>1
  <2>3. Place(p, k, q)
    BY <2>1, <2>2, PlaceOf
  <2>4. k \in Nat \ {0} /\ q \in 1 .. ChunkBytes
    BY <2>3 DEF Place
  <2>5. RdDataObj(m, k) \in ChunkData
    BY <1>1, <2>4, RdIsData
  <2>6. RdDataObj(m, k)[q] \in Byte
    BY <2>4, <2>5 DEF ChunkData
  <2> QED BY <2>1, <2>6
<1>3. /\ w \in [1 .. s -> Byte]
      /\ \A p \in 1 .. s : w[p] = RdDataObj(m, ChunkOf(p - 1))[StartOf(p - 1) + 1]
  BY <1>2 DEF Bytes
<1>4. w \in Seq(Byte) /\ Len(w) = s
  BY <1>1, <1>3, FunctionSeq
<1>5. ASSUME NEW k \in Nat \ {0}
      PROVE  ChunkAt(w, k) = RdDataObj(m, k)
  <2>1. PICK c, d : c = ChunkAt(w, k) /\ d = RdDataObj(m, k)
    OBVIOUS
  <2>2. /\ c \in ChunkData
        /\ \A q \in 1 .. ChunkBytes : c[q] = At(w, Base(k) + q)
    BY <1>4, <2>1, ChunkAtIs
  <2>3. d \in ChunkData
    BY <1>1, <2>1, RdIsData
  <2>4. ASSUME NEW q \in 1 .. ChunkBytes PROVE c[q] = d[q]
    <3>1. PICK p \in Nat \ {0} : p = Base(k) + q /\ Place(p, k, q)
      BY PlaceIn
    <3>2. c[q] = At(w, p)
      BY <2>2, <3>1
    <3>3. CASE p <= s
      <4>1. ChunkOf(p - 1) = k /\ StartOf(p - 1) + 1 = q
        BY <3>1 DEF Place
      <4>2. w[p] = d[q]
        BY <1>1, <1>3, <2>1, <3>3, <4>1
      <4> QED BY <1>1, <1>4, <3>2, <3>3, <4>2 DEF At
    <3>4. CASE ~(p <= s)
      <4>1. Base(k) + q > s
        BY <1>1, <3>1, <3>4
      <4>2. RdDataObj(m, k)[q] = Zero
        BY <4>1, RdBehind
      <4> QED BY <1>1, <1>4, <2>1, <3>2, <3>4, <4>2 DEF At
    <3> QED BY <3>3, <3>4
  <2>5. c = d
    BY <2>2, <2>3, <2>4, ChunkDataEqual
  <2> QED BY <2>1, <2>5
<1> QED BY <1>4, <1>5

LEMMA NoCache ==
  /\ <<>> \in Seq(Entries) /\ Held(<<>>) = {} /\ Distinct(<<>>) /\ Len(<<>>) = 0
  /\ \A l : CacheOK(l, <<>>)
BY DEF Held, Distinct, CacheOK

(* A mounted file, with nothing in the cache.                              *)
LEMMA Mounted ==
  ASSUME NEW m \in Seq(Recs), NEW s \in 0 .. MaxSize, InRam(m, s, MaxSize),
         NEW w, w = Bytes(m, s)
  PROVE  Running(m, s, s, <<>>, <<>>, w)
<1>1. /\ w \in Seq(Byte) /\ Len(w) = s
      /\ \A k \in Nat \ {0} : ChunkAt(w, k) = RdDataObj(m, k)
  BY BytesRead
<1>2. Whole(<<>>) /\ NotPadding(<<>>)
  BY WholeIs DEF Whole
<1>3. Plan(<<>>, s, w, <<>>)
  BY <1>1, PlanNone
<1>4. ASSUME NEW k \in Nat \ {0} PROVE RdDataObj(m, k) = Wanted(<<>>, w, k)
  <2>1. Wanted(<<>>, w, k) = ChunkAt(w, k)
    BY <1>2, WantedIs
  <2>2. ChunkAt(w, k) = RdDataObj(m, k)
    BY <1>1
  <2> QED BY <2>1, <2>2
<1>5. DataOK(m, <<>>, <<>>, w)
  BY <1>4, NoCache DEF DataOK
<1>6. CacheOK(m, <<>>)
  BY NoCache
<1> QED BY <1>2, <1>3, <1>5, <1>6, RunningIs

LEMMA MountKeeps ==
  ASSUME IInv, Mount
  PROVE  IInv'
<1>1. /\ param \in Params /\ OnFlash(log) /\ cache = <<>> /\ todo = <<>>
      /\ ~up
  BY DEF IInv, Mount
<1>2. PICK l, live, keep, s, m, w :
        /\ l = log /\ live = Scan(l).live /\ keep = Scan(l).keep /\ s = Scan(l).size
        /\ m = Marked(l, live, keep) /\ w = Bytes(m, s)
  OBVIOUS
<1>3. /\ up' = TRUE /\ log' = m /\ file_size' = s /\ stored_size' = s /\ want' = w
      /\ cache' = cache /\ todo' = todo /\ param' = param
  BY <1>2 DEF Mount, Found
<1>4. s \in 0 .. MaxSize /\ InRam(m, s, MaxSize)
  BY <1>1, <1>2, MountLog
<1>5. l \in Seq(Recs)
  BY <1>1, <1>2 DEF OnFlash
<1>6. m \in Seq(Recs)
  BY <1>2, <1>5, MarkedIs
<1>7. Running(m, s, s, <<>>, <<>>, w)
  BY <1>2, <1>4, <1>6, Mounted
<1>8. Running(log', stored_size', file_size', cache', todo', want')
  BY <1>1, <1>3, <1>7
<1>9. Len(cache) <= param.n_caches
  BY DEF IInv
<1> QED BY <1>1, <1>3, <1>8, <1>9 DEF IInv

LEMMA PowerKeeps ==
  ASSUME IInv, PowerFails
  PROVE  IInv'
<1>1. /\ up /\ param \in Params
      /\ Running(log, stored_size, file_size, cache, todo, want)
  BY DEF IInv, PowerFails
<1>2. PICK l : l = log
  OBVIOUS
<1>3. l \in Seq(Recs) /\ InRam(l, stored_size, Limit(todo, stored_size))
  BY <1>1, <1>2 DEF Running
<1>4. OnFlash(l)
  BY <1>3 DEF OnFlash, InRam, IsHead
<1>5. PICK m : m = Marked(l, {}, {})
  OBVIOUS
<1>6. SameLog(l, m)
  BY <1>3, <1>5, MarkedSame
<1>7. OnFlash(m)
  BY <1>4, <1>6, SameOnFlash
<1>11. \A i \in 1 .. Len(m) : ~m[i].live
  <2>1. /\ Len(Marked(l, {}, {})) = Len(l)
        /\ \A i \in 1 .. Len(l) : Marked(l, {}, {})[i].live = (i \in {})
    BY <1>3, MarkedIs
  <2>2. Len(m) = Len(l) /\ \A i \in 1 .. Len(l) : m[i].live = (i \in {})
    BY <1>5, <2>1
  <2> QED BY <2>2
<1>8. /\ up' = FALSE /\ log' = m /\ file_size' = 0 /\ stored_size' = 0
      /\ cache' = <<>> /\ todo' = <<>> /\ want' = <<>> /\ param' = param
  BY <1>2, <1>5 DEF PowerFails
<1>9. param.n_caches \in Nat
  BY <1>1, SizeAssumption
<1>10. Len(cache') <= param'.n_caches
  BY <1>8, <1>9, NoCache
<1> QED BY <1>1, <1>7, <1>8, <1>10, <1>11 DEF IInv

-----------------------------------------------------------------------------
(* Every step.                                                             *)

LEMMA InitWell == Init => IInv
<1> SUFFICES ASSUME Init PROVE IInv
  OBVIOUS
<1>1. PICK c : c = Hdr(0, FALSE)
  OBVIOUS
<1>2. /\ log = <<c>> /\ up = TRUE /\ file_size = 0 /\ stored_size = 0
      /\ cache = <<>> /\ todo = <<>> /\ want = <<>> /\ param \in Params
  BY <1>1 DEF Init
<1>3. 0 \in 0 .. MaxSize /\ 0 \in Nat
  BY Bounds
<1>4. /\ c \in Recs /\ c.chunk = 0 /\ c.size = 0 /\ c.shrink = FALSE
      /\ c.live = TRUE /\ c.keep = FALSE
  BY <1>1, <1>3, HeaderIs
<1>5. PICK l : l = <<c>>
  OBVIOUS
<1>6. l \in Seq(Recs) /\ Len(l) = 1 /\ l[1] = c
  BY <1>4, <1>5
<1>7. \A i \in 1 .. Len(l) : i = 1 /\ l[i] = c
  BY <1>6
<1>8. 1 \in 1 .. Len(l)
  BY <1>6
<1>9. IsHead(l, 1)
  BY <1>4, <1>6, <1>7, <1>8 DEF IsHead, Newest
<1>10. FlashOK(l, 1) /\ LiveOK(l, 0, MaxSize) /\ DeadOK(l, 1, 0, MaxSize)
  BY <1>4, <1>7 DEF FlashOK, LiveOK, DeadOK
<1>11. MarksOK(l, 1)
  BY <1>4, <1>6, <1>7, <1>8, <1>9 DEF MarksOK, IsHead
<1>12. InRam(l, 0, MaxSize)
  BY <1>8, <1>9, <1>10, <1>11 DEF InRam
<1>13. PICK w : w = Bytes(l, 0)
  OBVIOUS
<1>14. Running(l, 0, 0, <<>>, <<>>, w)
  BY <1>3, <1>6, <1>12, <1>13, Mounted
<1>15. w = <<>>
  <2>1. w \in Seq(Byte) /\ Len(w) = 0
    BY <1>3, <1>6, <1>12, <1>13, BytesRead
  <2> QED BY <2>1
<1>16. param.n_caches \in Nat
  BY <1>2, SizeAssumption
<1>17. Len(cache) <= param.n_caches
  BY <1>2, <1>16, NoCache
<1>18. Running(log, stored_size, file_size, cache, todo, want)
  BY <1>2, <1>5, <1>14, <1>15
<1> QED BY <1>2, <1>17, <1>18 DEF IInv

(* Every step of a file that is up.                                        *)
Proceeds ==
  \/ \E w \in Writes, v \in Vals : WrFile(w[1], [i \in 1 .. w[2] |-> v])
  \/ \E new \in Sizes : ResizeFile(new)
  \/ \E data_sync \in BOOLEAN : FlushFile(data_sync)
  \/ \E k \in Chunks : ReadPart(k)
  \/ DoFileWr \/ FlushFileCache \/ UpdateOh \/ Grow
  \/ PruneChunks \/ ResizeFileDown
  \/ \E i \in DOMAIN log : GcChunk(i) \/ Erase(i)

LEMMA NextIs ==
  Next => Proceeds \/ PowerFails \/ Mount
BY Zenon DEF Next, Proceeds

(* They need it up, and leave it so.                                       *)
LEMMA StaysUp ==
  ASSUME Proceeds
  PROVE  up /\ up' = up /\ param' = param
<1>1. CASE \E w \in Writes, v \in Vals : WrFile(w[1], [i \in 1 .. w[2] |-> v])
  BY <1>1 DEF WrFile, Begin
<1>2. CASE \E new \in Sizes : ResizeFile(new)
  BY <1>2 DEF ResizeFile, Begin
<1>3. CASE \E data_sync \in BOOLEAN : FlushFile(data_sync)
  BY <1>3 DEF FlushFile, Begin
<1>4. CASE \E k \in Chunks : ReadPart(k)
  BY <1>4 DEF ReadPart
<1>5. CASE DoFileWr
  BY <1>5 DEF DoFileWr
<1>6. CASE FlushFileCache
  BY <1>6 DEF FlushFileCache
<1>7. CASE UpdateOh
  BY <1>7 DEF UpdateOh
<1>8. CASE Grow
  BY <1>8 DEF Grow
<1>9. CASE PruneChunks
  BY <1>9 DEF PruneChunks
<1>10. CASE ResizeFileDown
  BY <1>10 DEF ResizeFileDown
<1>11. CASE \E i \in DOMAIN log : GcChunk(i) \/ Erase(i)
  BY <1>11 DEF GcChunk, Erase
<1> QED BY <1>1, <1>2, <1>3, <1>4, <1>5, <1>6, <1>7, <1>8, <1>9, <1>10, <1>11
        DEF Proceeds

LEMMA RunningKeeps ==
  ASSUME AllWell, Proceeds, "nospace" \notin Exposed, "cut" \notin Exposed
  PROVE  AllWell'
<1>1. CASE \E w \in Writes, v \in Vals : WrFile(w[1], [i \in 1 .. w[2] |-> v])
  BY <1>1, WrFileKeeps
<1>2. CASE \E new \in Sizes : ResizeFile(new)
  BY <1>2, ResizeFileKeeps
<1>3. CASE \E data_sync \in BOOLEAN : FlushFile(data_sync)
  BY <1>3, FlushFileKeeps
<1>4. CASE \E k \in Chunks : ReadPart(k)
  BY <1>4, ReadPartKeeps
<1>5. CASE DoFileWr
  BY <1>5, WriteKeeps
<1>6. CASE FlushFileCache
  BY <1>6, FlushFileCacheKeeps
<1>7. CASE UpdateOh
  BY <1>7, UpdateOhKeeps
<1>8. CASE Grow
  BY <1>8, GrowKeeps
<1>9. CASE PruneChunks
  BY <1>9, PruneKeeps
<1>10. CASE ResizeFileDown
  BY <1>10, ResizeDownKeeps
<1>11. CASE \E i \in DOMAIN log : GcChunk(i) \/ Erase(i)
  BY <1>11, GcKeeps, EraseKeeps
<1> QED BY <1>1, <1>2, <1>3, <1>4, <1>5, <1>6, <1>7, <1>8, <1>9, <1>10, <1>11
        DEF Proceeds

LEMMA WellUp ==
  ASSUME IInv, up
  PROVE  AllWell
BY SizeAssumption DEF IInv, AllWell

LEMMA StepKeeps ==
  ASSUME "nospace" \notin Exposed, "cut" \notin Exposed, IInv, [Next]_vars
  PROVE  IInv'
<1>1. CASE Proceeds
  <2>1. up /\ up' = up /\ param' = param
    BY <1>1, StaysUp
  <2>2. AllWell'
    BY <1>1, <2>1, WellUp, RunningKeeps
  <2>3. up \in BOOLEAN /\ param \in Params
    BY DEF IInv
  <2> QED BY <2>1, <2>2, <2>3 DEF IInv, AllWell
<1>2. CASE PowerFails
  BY <1>2, PowerKeeps
<1>3. CASE Mount
  BY <1>3, MountKeeps
<1>4. CASE UNCHANGED vars
  BY <1>4 DEF vars, IInv, Running, OnFlash, InRam, Plan, CacheOK, DataOK
<1> QED BY <1>1, <1>2, <1>3, <1>4, NextIs

-----------------------------------------------------------------------------
(* What follows from the invariant.                                        *)

(***************************************************************************)
(* The state is well formed: sizes within the bound, no chunk number twice *)
(* in the cache and none with two live chunks on the flash, no more        *)
(* entries than the cache has (TypeOK; yaffs_grab_chunk_cache,             *)
(* yaffs_put_chunk_in_file).                                               *)
(***************************************************************************)
LEMMA WellTyped == IInv => TypeOK
<1> SUFFICES ASSUME IInv PROVE TypeOK
  OBVIOUS
<1>1. Len(cache) <= param.n_caches
  BY DEF IInv
<1>2. CASE up
  <2>1. AllWell
    BY <1>2, WellUp
  <2>2. Base0
    BY <2>1, Base0Is
  <2>3. /\ stored_size \in 0 .. MaxSize /\ file_size \in 0 .. MaxSize
        /\ OneLive(log) /\ Distinct(cache)
        /\ log \in Seq(Recs) /\ cache \in Seq(Entries)
    BY <2>2 DEF Base0
  <2>4. DOMAIN log = 1 .. Len(log) /\ DOMAIN cache = 1 .. Len(cache)
    BY <2>3, LogIs, CacheIs
  <2> QED BY <1>1, <2>3, <2>4 DEF TypeOK, OneLive, Distinct
<1>3. CASE ~up
  <2>1. /\ OnFlash(log) /\ \A i \in 1 .. Len(log) : ~log[i].live
        /\ file_size = 0 /\ stored_size = 0 /\ cache = <<>>
    BY <1>3 DEF IInv
  <2>2. DOMAIN log = 1 .. Len(log)
    BY <2>1, LogIs DEF OnFlash
  <2>3. Distinct(cache) /\ DOMAIN cache = 1 .. Len(cache)
    BY <2>1, NoCache, CacheIs
  <2>4. 0 \in 0 .. MaxSize
    BY Bounds
  <2>5. file_size \in 0 .. MaxSize /\ stored_size \in 0 .. MaxSize
    BY <2>1, <2>4
  <2> QED BY <1>1, <2>1, <2>2, <2>3, <2>5 DEF TypeOK, Distinct
<1> QED BY <1>2, <1>3 DEF IInv

(***************************************************************************)
(* A file whose chunks hold the bytes want, its length being the size of   *)
(* the file, reads as want.                                                *)
(***************************************************************************)
LEMMA ContentsAre ==
  ASSUME Base0, NotPadding(todo), NEW k \in Nat \ {0}
  PROVE  Contents(k) = ChunkAt(want, k)
<1>1. /\ DataOK(log, cache, todo, want) /\ cache \in Seq(Entries)
      /\ DOMAIN cache = 1 .. Len(cache)
  BY CacheIs DEF Base0
<1>2. Wanted(todo, want, k) = ChunkAt(want, k)
  BY WantedIs
<1>3. CASE IsCached(k)
  <2>1. FindChunkCache(k) # {}
    BY <1>3 DEF IsCached
  <2>2. EntryOf(k) \in FindChunkCache(k)
    BY <2>1 DEF EntryOf
  <2>3. PICK i : i = EntryOf(k)
    OBVIOUS
  <2>4. i \in 1 .. Len(cache) /\ cache[i].chunk = k
    BY <1>1, <2>2, <2>3 DEF FindChunkCache
  <2>5. PICK e : e = cache[i]
    OBVIOUS
  <2>6. e \in Held(cache) /\ e.chunk = k
    BY <2>4, <2>5 DEF Held
  <2>7. e.data = Wanted(todo, want, k)
    BY <1>1, <2>6 DEF DataOK
  <2>8. Contents(k) = e.data
    BY <1>3, <2>3, <2>5 DEF Contents
  <2> QED BY <1>2, <2>7, <2>8
<1>4. CASE ~IsCached(k)
  <2>1. \A i \in 1 .. Len(cache) : cache[i].chunk # k
    BY <1>1, <1>4 DEF IsCached, FindChunkCache
  <2>2. \A e \in Held(cache) : e.chunk # k
    BY <2>1 DEF Held
  <2>3. RdDataObj(log, k) = Wanted(todo, want, k)
    BY <1>1, <2>2 DEF DataOK
  <2> QED BY <1>2, <1>4, <2>3 DEF Contents
<1> QED BY <1>3, <1>4

LEMMA WellRead == IInv => ReadsBack
<1> SUFFICES ASSUME IInv, up, todo = <<>> PROVE View = want
  BY DEF ReadsBack
<1>1. Base0
  BY WellUp, Base0Is
<1>2. NotPadding(todo)
  BY DEF NotPadding
<1>3. PICK w, n : w = want /\ n = file_size
  OBVIOUS
<1>4. w \in Seq(Byte) /\ Len(w) = n /\ n \in 0 .. MaxSize
  BY <1>1, <1>3 DEF Base0
<1>5. n \in Nat /\ DOMAIN w = 1 .. n /\ w = [p \in 1 .. n |-> w[p]]
  BY <1>4, Bounds
<1>6. ASSUME NEW p \in 1 .. n
      PROVE  Contents(ChunkOf(p - 1))[StartOf(p - 1) + 1] = w[p]
  <2>1. PICK k, q : k = ChunkOf(p - 1) /\ q = StartOf(p - 1) + 1
    OBVIOUS
  <2>2. p \in Nat \ {0} /\ p <= Len(w)
    BY <1>4, <1>5
  <2>3. Place(p, k, q)
    BY <2>1, <2>2, PlaceOf
  <2>4. k \in Nat \ {0} /\ q \in 1 .. ChunkBytes /\ p = Base(k) + q
    BY <2>3 DEF Place
  <2>5. Contents(k) = ChunkAt(w, k)
    BY <1>1, <1>2, <1>3, <2>4, ContentsAre
  <2>6. ChunkAt(w, k)[q] = At(w, Base(k) + q)
    BY <1>4, <2>4, ChunkAtIs
  <2>7. At(w, p) = w[p]
    BY <2>2 DEF At
  <2> QED BY <2>1, <2>4, <2>5, <2>6, <2>7
<1>7. View = [p \in 1 .. n |-> w[p]]
  BY <1>3, <1>6 DEF View
<1> QED BY <1>3, <1>5, <1>7

(***************************************************************************)
(* What the backward scan makes of a log, whatever it holds besides a      *)
(* header: it attaches the newest chunk of each number, unless a header    *)
(* with the shrink flag behind it ends before it, or the newest header is  *)
(* behind it and ends before it; and the size is that of the newest        *)
(* header, or the end of a chunk behind that one (yaffs2_scan_chunk).      *)
(***************************************************************************)
THEOREM ScanFinds ==
  ASSUME NEW l \in Seq(Recs), NEW h, IsHead(l, h)
  PROVE  /\ \A i \in 1 .. Len(l) : l[i].chunk # 0 =>
              (i \in Scan(l).live <=>
                 /\ Newest(l, i) /\ ~ShrinkCut(l, i)
                 /\ i < h => Base(l[i].chunk) < l[h].size)
         /\ Scan(l).size >= l[h].size
         /\ \A i \in h + 1 .. Len(l) :
              l[i].chunk # 0 => Scan(l).size >= Base(l[i].chunk) + l[i].n
         /\ \/ Scan(l).size = l[h].size
            \/ \E i \in h + 1 .. Len(l) :
                 l[i].chunk # 0 /\ Scan(l).size = Base(l[i].chunk) + l[i].n
<1>1. PICK sc : sc = Scan(l)
  OBVIOUS
<1>2. sc \in Scans /\ ScanKnows(l, h, sc, 0) /\ ScanSize(l, h, sc, 0)
  BY <1>1, ScanIs DEF ScanInv
<1>3. h \in 1 .. Len(l) /\ Len(l) \in Nat /\ h > 0 /\ h \in Nat
  BY LogIs DEF IsHead
<1>4. ASSUME NEW i \in 1 .. Len(l), l[i].chunk # 0
      PROVE  i \in sc.live <=>
               /\ Newest(l, i) /\ ~ShrinkCut(l, i)
               /\ i < h => Base(l[i].chunk) < l[h].size
  <2>1. i \in Nat /\ i \in 0 + 1 .. Len(l)
    BY <1>3
  <2>2. i \in sc.live <=> Attached(l, h, i)
    BY <1>2, <2>1 DEF ScanKnows
  <2> QED BY <1>4, <2>2, AttachedIs
<1>5. l[h].size \in Nat /\ sc.size \in Nat
  <2>1. l[h] \in Recs /\ l[h].chunk = 0
    BY <1>3, LogIs DEF IsHead
  <2>2. l[h].size \in 0 .. MaxSize
    BY <2>1, RecTypes
  <2> QED BY <1>2, <2>2, Bounds DEF Scans
<1>6. \A i \in h + 1 .. Len(l) : i \in 0 + 1 .. Len(l) /\ i > h
  BY <1>3
<1>7. \A i \in 0 + 1 .. Len(l) : i > h => i \in h + 1 .. Len(l)
  BY <1>3
<1>8. l[h].size <= sc.size
  BY <1>2, <1>3 DEF ScanSize
<1>9. \A i \in h + 1 .. Len(l) :
        l[i].chunk # 0 => Base(l[i].chunk) + l[i].n <= sc.size
  BY <1>2, <1>6 DEF ScanSize
<1>10. \/ sc.size = l[h].size
       \/ \E i \in h + 1 .. Len(l) :
            l[i].chunk # 0 /\ sc.size = Base(l[i].chunk) + l[i].n
  <2>1. \/ sc.size = 0
        \/ h > 0 /\ sc.size = l[h].size
        \/ \E i \in 0 + 1 .. Len(l) :
             i > h /\ l[i].chunk # 0 /\ sc.size = Base(l[i].chunk) + l[i].n
    BY <1>2 DEF ScanSize
  <2>2. sc.size = 0 => sc.size = l[h].size
    BY <1>5, <1>8
  <2> QED BY <1>7, <2>1, <2>2
<1>11. sc.size >= l[h].size
  BY <1>5, <1>8
<1>12. ASSUME NEW i \in h + 1 .. Len(l), l[i].chunk # 0
       PROVE  sc.size >= Base(l[i].chunk) + l[i].n
  <2>1. i \in 1 .. Len(l)
    BY <1>6
  <2>2. TypedRec(l[i])
    BY <2>1, LogTyped DEF Typed
  <2>3. PICK e \in Nat : e = Base(l[i].chunk) + l[i].n
    BY <1>12, <2>2 DEF TypedRec
  <2>4. e <= sc.size
    BY <1>9, <1>12, <2>3
  <2> QED BY <1>5, <2>3, <2>4
<1> QED BY <1>1, <1>4, <1>10, <1>11, <1>12

LEMMA Inductive ==
  ASSUME "nospace" \notin Exposed, "cut" \notin Exposed
  PROVE  Spec => []IInv
<1>1. Init => IInv
  BY InitWell
<1>2. IInv /\ [Next]_vars => IInv'
  BY StepKeeps
<1> QED BY <1>1, <1>2, PTL DEF Spec

(***************************************************************************)
(* Sizes, cache and tree are well formed in every state of every device,   *)
(* whatever the chunk size, the number of cache entries and the calls      *)
(* (yaffs_grab_chunk_cache, yaffs_put_chunk_in_file).                      *)
(***************************************************************************)
THEOREM TypeCorrect ==
  ASSUME "nospace" \notin Exposed, "cut" \notin Exposed
  PROVE  Spec => []TypeOK
<1>1. IInv => TypeOK
  BY WellTyped
<1> QED BY <1>1, Inductive, PTL

(***************************************************************************)
(* Between calls a file reads as its calls left it, on every device: what  *)
(* ReadsBack states for the runs (yaffs_file_rd).                          *)
(***************************************************************************)
THEOREM ReadsBackAlways ==
  ASSUME "nospace" \notin Exposed, "cut" \notin Exposed
  PROVE  Spec => []ReadsBack
<1>1. IInv => ReadsBack
  BY WellRead
<1> QED BY <1>1, Inductive, PTL

-----------------------------------------------------------------------------
(* The order in which chunks reach the flash.                              *)

(* A dead chunk that the next mount would attach if it were behind the     *)
(* newest header, or before its end.                                       *)
Uncovered(l, i) ==
  l[i].chunk # 0 /\ Newest(l, i) /\ ~ShrinkCut(l, i)

Loose(l, i) == Uncovered(l, i) /\ ~l[i].live

LooseChunks(l) ==
  {k \in Chunks : \E i \in 1 .. Len(l) : Loose(l, i) /\ l[i].chunk = k}

HeadSize(l) == l[CHOOSE h \in 1 .. Len(l) : IsHead(l, h)].size

(* What is behind the newest header comes before what the header cuts off. *)
Behind(l, h) ==
  \A i, j \in 1 .. Len(l) :
    i < h /\ h < j /\ Uncovered(l, i) /\ Base(l[i].chunk) >= l[h].size =>
      Base(l[j].chunk) < Base(l[i].chunk)

Stored(l, h) ==
  \A i \in 1 .. Len(l) :
    i < h /\ l[i].chunk # 0 /\ l[i].live => Base(l[i].chunk) < l[h].size

FlashOrder(l) == \E h \in 1 .. Len(l) : IsHead(l, h) /\ Behind(l, h)

TreeOrder(l) ==
  \E h \in 1 .. Len(l) : IsHead(l, h) /\ Behind(l, h) /\ Stored(l, h)

(* The call in progress.                                                   *)

CutPoint(t) == IF t # <<>> /\ Head(t).a = "pad" THEN Head(t).n ELSE MaxSize

(* Before the header that a truncation, or the taking back of a hole, ends *)
(* with; in the second case with entries in the cache.                     *)
Reset(t) == t # <<>> /\ Head(t).a \in {"hdr", "hole"} /\ Head(t).n = 1

Torn(t) ==
  t # <<>> /\ (Head(t).a = "pad" \/ (Head(t).a = "hole" /\ Head(t).n = 1))

(* The step leaves a gap behind the bytes w.                               *)
Skips(t, w) ==
  /\ t # <<>>
  /\ \/ Head(t).a = "write" /\ Head(t).off > Len(w)
     \/ Head(t).a = "grow" /\ Head(t).n > Len(w)

Horizon(t, st, w) ==
  IF Skips(t, w) THEN MaxSize ELSE Smaller(CutPoint(t), Larger(st, Len(w)))

Pending(c, k) == \E e \in Held(c) : e.dirty /\ e.chunk = k

(* L are the loose chunks, H is the size in the newest header.             *)
LooseBehind(L, c, t, st, w) ==
  \A k \in L : Base(k) >= Horizon(t, st, w) \/ Pending(c, k)

DirtyBefore(L, c) ==
  \A k \in L : \A e \in Held(c) : e.dirty => Base(e.chunk) <= Base(k)

HeadSound(H, t, st, w) == IF Reset(t) THEN Len(w) <= st ELSE H <= st

LastPending(L, H, c, t, w) ==
  \A k \in L : Pending(c, k) /\ Base(k) >= H /\ Base(k) < CutPoint(t) =>
    Len(w) <= Base(k) + ChunkBytes

RamOrder(L, H, st, c, t, w) ==
  /\ LooseBehind(L, c, t, st, w)
  /\ ~Torn(t) => DirtyBefore(L, c)
  /\ HeadSound(H, t, st, w)
  /\ LastPending(L, H, c, t, w)
  /\ Skips(t, w) => \A k \in L : Base(k) < H

DirtyKnown(c, t, d) ==
  (\E e \in Held(c) : e.dirty) => d \/ (t # <<>> /\ Head(t).a = "write")

Ordered ==
  IF up THEN /\ TreeOrder(log)
             /\ RamOrder(LooseChunks(log), HeadSize(log), stored_size, cache, todo, want)
             /\ DirtyKnown(cache, todo, dirty)
  ELSE FlashOrder(log)

LEMMA HeadIs ==
  ASSUME NEW l \in Seq(Recs), NEW h, IsHead(l, h)
  PROVE  HeadSize(l) = l[h].size
<1>1. h \in 1 .. Len(l)
  BY DEF IsHead
<1>2. PICK g : g = CHOOSE x \in 1 .. Len(l) : IsHead(l, x)
  OBVIOUS
<1>3. g \in 1 .. Len(l) /\ IsHead(l, g)
  BY <1>1, <1>2
<1>4. l[g].chunk = 0 /\ Newest(l, g)
  BY <1>3 DEF IsHead
<1>5. g = h
  BY <1>3, <1>4, OneHead
<1> QED BY <1>2, <1>5 DEF HeadSize

LEMMA LooseIs ==
  ASSUME NEW l \in Seq(Recs), NEW i \in 1 .. Len(l), Loose(l, i)
  PROVE  /\ l[i].chunk \in LooseChunks(l) /\ l[i].chunk # 0
         /\ l[i].chunk \in Nat /\ Base(l[i].chunk) \in Nat /\ Base(l[i].chunk) < MaxSize
<1>1. l[i].chunk # 0
  BY DEF Loose, Uncovered
<1>2. TypedRec(l[i])
  BY LogTyped DEF Typed
<1>3. l[i].chunk \in Chunks
  BY <1>1, <1>2 DEF TypedRec
<1> QED BY <1>1, <1>2, <1>3 DEF LooseChunks, TypedRec

LEMMA LooseHas ==
  ASSUME NEW l, NEW k \in LooseChunks(l)
  PROVE  /\ k \in Chunks /\ k \in Nat \ {0} /\ Base(k) \in Nat /\ Base(k) < MaxSize
         /\ \E i \in 1 .. Len(l) : Loose(l, i) /\ l[i].chunk = k
  BY ChunksAre DEF LooseChunks

(* A data chunk that comes before all those behind the header's end.       *)
LEMMA OrderData ==
  ASSUME NEW l \in Seq(Recs), NEW h, IsHead(l, h), Behind(l, h), Stored(l, h),
         NEW c \in Recs, c.chunk # 0, c.live = TRUE,
         \A i \in 1 .. Len(l) :
           /\ i < h /\ Loose(l, i) /\ Base(l[i].chunk) >= l[h].size
           /\ l[i].chunk # c.chunk
           => Base(c.chunk) < Base(l[i].chunk),
         NEW m, m = Program(l, c)
  PROVE  /\ TreeOrder(m) /\ HeadSize(m) = HeadSize(l)
         /\ LooseChunks(m) \subseteq LooseChunks(l) \ {c.chunk}
<1>1. Programmed(l, c, m) /\ Typed(l)
  BY ProgramIs, LogTyped
<1>2. /\ m \in Seq(Recs) /\ Len(l) \in Nat /\ Len(m) = Len(l) + 1 /\ m[Len(l) + 1] = c
      /\ \A i \in 1 .. Len(l) :
           /\ m[i].chunk = l[i].chunk /\ m[i].size = l[i].size
           /\ m[i].live = (l[i].live /\ l[i].chunk # c.chunk)
  BY <1>1 DEF Programmed
<1>3. \A i \in 1 .. Len(l) :
        /\ Newest(m, i) <=> Newest(l, i) /\ l[i].chunk # c.chunk
        /\ ShrinkCut(m, i) <=> ShrinkCut(l, i)
  BY ProgramCuts
<1>4. \A i \in 1 .. Len(m) : i \in 1 .. Len(l) \/ i = Len(l) + 1
  BY <1>2
<1>5. h \in 1 .. Len(l) /\ l[h].chunk = 0 /\ Newest(l, h)
  BY DEF IsHead
<1>6. IsHead(m, h) /\ m[h].size = l[h].size /\ h < Len(l) + 1 /\ h \in 1 .. Len(m)
  BY <1>2, <1>3, <1>5 DEF IsHead
<1>7. \A i \in 1 .. Len(l) : Uncovered(m, i) => Uncovered(l, i) /\ l[i].chunk # c.chunk
  BY <1>2, <1>3 DEF Uncovered
<1>8. ASSUME NEW i \in 1 .. Len(l), Uncovered(m, i)
      PROVE  /\ Uncovered(l, i) /\ l[i].chunk # 0 /\ l[i].chunk # c.chunk
             /\ ~m[i].live => Loose(l, i)
  <2>1. Uncovered(l, i) /\ l[i].chunk # c.chunk
    BY <1>7, <1>8
  <2> QED BY <1>2, <2>1 DEF Uncovered, Loose
<1>9. ASSUME NEW i \in 1 .. Len(l), i < h, Uncovered(m, i), Base(m[i].chunk) >= m[h].size
      PROVE  /\ Base(c.chunk) < Base(m[i].chunk)
             /\ Uncovered(l, i) /\ Base(l[i].chunk) >= l[h].size
  <2>1. /\ Uncovered(l, i) /\ l[i].chunk # 0 /\ l[i].chunk # c.chunk
        /\ m[i].chunk = l[i].chunk
    BY <1>2, <1>8, <1>9
  <2>2. Base(l[i].chunk) >= l[h].size
    BY <1>6, <1>9, <2>1
  <2>3. Base(l[i].chunk) \in Nat /\ l[h].size \in Nat
    BY <1>1, <1>5, <2>1 DEF Typed, TypedRec
  <2>4. ~l[i].live
    BY <1>9, <2>1, <2>2, <2>3 DEF Stored
  <2>5. Loose(l, i)
    BY <2>1, <2>4 DEF Loose
  <2>6. Base(c.chunk) < Base(l[i].chunk)
    BY <1>9, <2>1, <2>2, <2>5
  <2> QED BY <2>1, <2>2, <2>6
<1>10. Behind(m, h)
  <2> SUFFICES ASSUME NEW i \in 1 .. Len(m), NEW j \in 1 .. Len(m), i < h, h < j,
                      Uncovered(m, i), Base(m[i].chunk) >= m[h].size
               PROVE  Base(m[j].chunk) < Base(m[i].chunk)
    BY DEF Behind
  <2>1. i \in 1 .. Len(l)
    BY <1>4, <1>6
  <2>2. /\ Base(c.chunk) < Base(m[i].chunk)
        /\ Uncovered(l, i) /\ Base(l[i].chunk) >= l[h].size
    BY <1>9, <2>1
  <2>3. CASE j = Len(l) + 1
    BY <1>2, <2>2, <2>3
  <2>4. CASE j \in 1 .. Len(l)
    <3>1. Base(l[j].chunk) < Base(l[i].chunk)
      BY <2>1, <2>2, <2>4 DEF Behind
    <3> QED BY <1>2, <2>1, <2>4, <3>1
  <2> QED BY <1>4, <2>3, <2>4
<1>11. Stored(m, h)
  <2> SUFFICES ASSUME NEW i \in 1 .. Len(m), i < h, m[i].chunk # 0, m[i].live
               PROVE  Base(m[i].chunk) < m[h].size
    BY DEF Stored
  <2>1. i \in 1 .. Len(l)
    BY <1>4, <1>6
  <2>2. l[i].chunk # 0 /\ l[i].live /\ m[i].chunk = l[i].chunk
    BY <1>2, <2>1
  <2>3. Base(l[i].chunk) < l[h].size
    BY <2>1, <2>2 DEF Stored
  <2> QED BY <1>6, <2>2, <2>3
<1>12. TreeOrder(m)
  BY <1>6, <1>10, <1>11 DEF TreeOrder
<1>13. HeadSize(m) = HeadSize(l)
  BY <1>2, <1>6, HeadIs
<1>14. LooseChunks(m) \subseteq LooseChunks(l) \ {c.chunk}
  <2> SUFFICES ASSUME NEW k \in LooseChunks(m)
               PROVE  k \in LooseChunks(l) /\ k # c.chunk
    OBVIOUS
  <2>1. PICK i \in 1 .. Len(m) : Loose(m, i) /\ m[i].chunk = k
    BY LooseHas
  <2>2. Uncovered(m, i) /\ ~m[i].live
    BY <2>1 DEF Loose
  <2>3. i # Len(l) + 1
    BY <1>2, <2>2
  <2>4. i \in 1 .. Len(l)
    BY <1>4, <2>3
  <2>5. Loose(l, i) /\ l[i].chunk # c.chunk /\ m[i].chunk = l[i].chunk
    BY <1>2, <1>8, <2>2, <2>4
  <2> QED BY <2>1, <2>4, <2>5, LooseIs
<1> QED BY <1>12, <1>13, <1>14

(* The copy of a live chunk uncovers nothing.                              *)
LEMMA OrderCopy ==
  ASSUME NEW l \in Seq(Recs), TreeOrder(l), NEW H, H = HeadSize(l),
         NEW L, L = LooseChunks(l),
         NEW st \in 0 .. MaxSize, NEW P \in 0 .. MaxSize, InRam(l, st, P),
         NEW e \in 1 .. Len(l), l[e].live, l[e].chunk # 0,
         NEW m, m = Program(l, l[e])
  PROVE  TreeOrder(m) /\ HeadSize(m) = H /\ LooseChunks(m) \subseteq L
<1>1. PICK h \in 1 .. Len(l) : IsHead(l, h) /\ Behind(l, h) /\ Stored(l, h)
  BY DEF TreeOrder
<1>2. H = l[h].size
  BY <1>1, HeadIs
<1>3. PICK g \in 1 .. Len(l) : /\ IsHead(l, g) /\ LiveOK(l, st, P)
                               /\ DeadOK(l, g, st, P)
  BY DEF InRam
<1>4. Typed(l) /\ l[e] \in Recs /\ l[h].chunk = 0 /\ Len(l) \in Nat
  BY <1>1, LogTyped, LogIs DEF IsHead
<1>5. Base(l[e].chunk) \in Nat /\ l[h].size \in Nat /\ l[e].live = TRUE
  BY <1>4 DEF Typed, TypedRec
<1>6. ASSUME NEW i \in 1 .. Len(l), i < h, Loose(l, i), Base(l[i].chunk) >= l[h].size,
             l[i].chunk # l[e].chunk
      PROVE  Base(l[e].chunk) < Base(l[i].chunk)
  <2>1. CASE e < h
    <3>1. Base(l[e].chunk) < l[h].size
      BY <1>1, <2>1 DEF Stored
    <3>2. Base(l[i].chunk) \in Nat
      BY <1>6, LooseIs
    <3> QED BY <1>5, <1>6, <3>1, <3>2
  <2>2. CASE h < e
    BY <1>1, <1>6, <2>2 DEF Behind, Loose
  <2>3. e # h
    BY <1>4
  <2> QED BY <1>4, <2>1, <2>2, <2>3
<1>7. /\ TreeOrder(m) /\ HeadSize(m) = HeadSize(l)
      /\ LooseChunks(m) \subseteq LooseChunks(l) \ {l[e].chunk}
  BY <1>1, <1>4, <1>5, <1>6, OrderData
<1> QED BY <1>7

(* A header.                                                               *)
LEMMA OrderHdr ==
  ASSUME NEW l \in Seq(Recs), NEW L, L = LooseChunks(l),
         NEW st \in 0 .. MaxSize, NEW P \in 0 .. MaxSize, InRam(l, st, P),
         NEW b \in BOOLEAN,
         NEW m, m = Program(l, Hdr(st, b))
  PROVE  /\ TreeOrder(m) /\ HeadSize(m) = st
         /\ LooseChunks(m) \subseteq {k \in L : b => Base(k) < st}
<1>2. PICK c \in Recs : c = Hdr(st, b) /\ c.chunk = 0 /\ c.size = st /\ c.shrink = b
  BY HeaderIs
<1>1. Programmed(l, c, m) /\ Typed(l) /\ m = Program(l, c)
  BY <1>2, ProgramIs, LogTyped
<1>3. /\ m \in Seq(Recs) /\ Len(l) \in Nat /\ Len(m) = Len(l) + 1 /\ m[Len(l) + 1] = c
      /\ \A i \in 1 .. Len(l) :
           /\ m[i].chunk = l[i].chunk
           /\ m[i].live = (l[i].live /\ l[i].chunk # 0)
  BY <1>1, <1>2 DEF Programmed
<1>4. /\ Newest(m, Len(l) + 1)
      /\ \A i \in 1 .. Len(l) :
           /\ Newest(m, i) <=> Newest(l, i) /\ l[i].chunk # 0
           /\ ShrinkCut(m, i) <=> ShrinkCut(l, i) \/ (b /\ st <= Base(l[i].chunk))
  BY <1>1, <1>2, ProgramCuts
<1>5. PICK g : g = Len(l) + 1
  OBVIOUS
<1>6. IsHead(m, g) /\ m[g].size = st /\ g \in 1 .. Len(m) /\ g = Len(m)
  BY <1>2, <1>3, <1>4, <1>5 DEF IsHead
<1>7. \A i \in 1 .. Len(m) : i \in 1 .. Len(l) \/ i = g
  BY <1>3, <1>5
<1>8. Behind(m, g)
  BY <1>6 DEF Behind
<1>9. Stored(m, g)
  <2> SUFFICES ASSUME NEW i \in 1 .. Len(m), i < g, m[i].chunk # 0, m[i].live
               PROVE  Base(m[i].chunk) < m[g].size
    BY DEF Stored
  <2>1. i \in 1 .. Len(l)
    BY <1>7
  <2>2. l[i].chunk # 0 /\ l[i].live /\ m[i].chunk = l[i].chunk
    BY <1>3, <2>1
  <2>3. Base(l[i].chunk) + l[i].n <= st
    BY <2>1, <2>2, LiveIs
  <2>4. Base(l[i].chunk) \in Nat /\ l[i].n \in Nat /\ l[i].n >= 1 /\ st \in Nat
    BY <1>1, <2>1, <2>2, Bounds DEF Typed, TypedRec
  <2>5. Base(l[i].chunk) < st
    BY <2>3, <2>4
  <2> QED BY <1>6, <2>2, <2>5
<1>10. TreeOrder(m)
  BY <1>6, <1>8, <1>9 DEF TreeOrder
<1>11. HeadSize(m) = st
  BY <1>3, <1>6, HeadIs
<1>12. ASSUME NEW k \in LooseChunks(m)
       PROVE  k \in L /\ (b => Base(k) < st)
  <2>1. PICK i \in 1 .. Len(m) : Loose(m, i) /\ m[i].chunk = k
    BY LooseHas
  <2>2. m[i].chunk # 0 /\ Newest(m, i) /\ ~ShrinkCut(m, i) /\ ~m[i].live
    BY <2>1 DEF Loose, Uncovered
  <2>3. i \in 1 .. Len(l)
    BY <1>2, <1>3, <1>5, <1>7, <2>2
  <2>4. l[i].chunk = k /\ k # 0
    BY <1>3, <2>1, <2>2, <2>3
  <2>5. ~l[i].live /\ Newest(l, i) /\ ~ShrinkCut(l, i) /\ ~(b /\ st <= Base(k))
    BY <1>3, <1>4, <2>2, <2>3, <2>4
  <2>6. Loose(l, i)
    BY <2>4, <2>5 DEF Loose, Uncovered
  <2>7. k \in L /\ Base(k) \in Nat
    BY <2>3, <2>4, <2>6, LooseIs
  <2>8. st \in Nat
    BY Bounds
  <2> QED BY <2>5, <2>7, <2>8
<1> QED BY <1>10, <1>11, <1>12

LEMMA SameHead ==
  ASSUME NEW l \in Seq(Recs), NEW g, IsHead(l, g), NEW h, IsHead(l, h)
  PROVE  g = h
<1>1. g \in 1 .. Len(l) /\ l[g].chunk = 0 /\ Newest(l, g)
  BY DEF IsHead
<1> QED BY <1>1, OneHead

(* The erasure of a dead chunk.  A header with the shrink flag goes only   *)
(* when nothing dead is left before it.                                    *)
LEMMA OrderErase ==
  ASSUME NEW l \in Seq(Recs), TreeOrder(l),
         NEW st \in 0 .. MaxSize, NEW P \in 0 .. MaxSize, InRam(l, st, P),
         NEW e \in 1 .. Len(l), ~l[e].live,
         l[e].keep => \A j \in 1 .. e - 1 : l[j].live,
         P = MaxSize \/ \A j \in 1 .. e - 1 : l[j].chunk # l[e].chunk,
         NEW m, m = RemoveAt(l, e)
  PROVE  /\ TreeOrder(m) /\ HeadSize(m) = HeadSize(l)
         /\ LooseChunks(m) \subseteq LooseChunks(l)
<1>1. PICK h \in 1 .. Len(l) : IsHead(l, h) /\ Behind(l, h) /\ Stored(l, h)
  BY DEF TreeOrder
<1>2. PICK r \in 1 .. Len(l) : /\ IsHead(l, r) /\ MarksOK(l, r)
                               /\ LiveOK(l, st, P) /\ DeadOK(l, r, st, P)
  BY DEF InRam
<1>0. r = h
  BY <1>1, <1>2, SameHead
<1> DEFINE old(i) == IF i < e THEN i ELSE i + 1
           now(i) == IF i < e THEN i ELSE i - 1
<1>3. /\ m \in Seq(Recs) /\ Len(l) \in Nat /\ Len(m) = Len(l) - 1
      /\ \A i \in 1 .. Len(m) : m[i] = l[old(i)]
  BY EraseIs, LogIs
<1>4. /\ \A i \in 1 .. Len(m) : old(i) \in 1 .. Len(l) /\ old(i) # e /\ now(old(i)) = i
      /\ \A i \in 1 .. Len(l) : i # e => now(i) \in 1 .. Len(m) /\ old(now(i)) = i
      /\ \A i, j \in 1 .. Len(m) : i < j <=> old(i) < old(j)
  BY <1>3
<1> HIDE DEF old, now
<1>5. Typed(l) /\ l[e] \in Recs
  BY LogTyped, LogIs
<1>6. ASSUME NEW i \in 1 .. Len(m), Newest(m, i), ~Newest(l, old(i))
      PROVE  old(i) < e /\ l[e].chunk = l[old(i)].chunk /\ Newest(l, e)
  <2>1. \A j \in 1 .. Len(l) : j > old(i) /\ j # e => l[j].chunk # l[old(i)].chunk
    <3> SUFFICES ASSUME NEW j \in 1 .. Len(l), j > old(i), j # e
                 PROVE  l[j].chunk # l[old(i)].chunk
      OBVIOUS
    <3>1. PICK k \in 1 .. Len(m) : old(k) = j
      BY <1>4
    <3>2. i < k
      BY <1>4, <3>1
    <3> QED BY <1>3, <1>6, <3>1, <3>2 DEF Newest
  <2>2. old(i) \in 1 .. Len(l)
    BY <1>4
  <2>3. e > old(i) /\ l[e].chunk = l[old(i)].chunk
    BY <1>6, <2>1, <2>2 DEF Newest
  <2>4. Newest(l, e)
    BY <2>1, <2>2, <2>3 DEF Newest
  <2> QED BY <2>2, <2>3, <2>4
<1>7. ASSUME NEW i \in 1 .. Len(m), ShrinkCut(l, old(i)), ~ShrinkCut(m, i)
      PROVE  old(i) < e /\ l[e].keep
  <2>1. PICK j \in 1 .. Len(l) : j > old(i) /\ l[j].chunk = 0 /\ l[j].shrink
                                 /\ l[j].size <= Base(l[old(i)].chunk)
    BY <1>7 DEF ShrinkCut
  <2>2. CASE j # e
    <3>1. PICK k \in 1 .. Len(m) : old(k) = j
      BY <1>4, <2>2
    <3>2. k > i
      BY <1>4, <2>1, <3>1
    <3>3. m[k] = l[j] /\ m[i] = l[old(i)]
      BY <1>3, <3>1
    <3> QED BY <1>7, <2>1, <3>2, <3>3 DEF ShrinkCut
  <2>3. CASE j = e
    <3>1. l[e].keep = l[e].shrink /\ old(i) \in Nat
      BY <1>2, <1>4, <1>3 DEF MarksOK
    <3>2. old(i) < e
      BY <2>1, <2>3, <3>1
    <3> QED BY <2>1, <2>3, <3>1, <3>2
  <2> QED BY <2>2, <2>3
<1>8. ASSUME NEW i \in 1 .. Len(m), ShrinkCut(l, e), l[e].chunk = l[old(i)].chunk,
             old(i) < e
      PROVE  ShrinkCut(m, i)
  <2>1. PICK j \in 1 .. Len(l) : j > e /\ l[j].chunk = 0 /\ l[j].shrink
                                 /\ l[j].size <= Base(l[e].chunk)
    BY <1>8 DEF ShrinkCut
  <2>2. PICK k \in 1 .. Len(m) : old(k) = j
    BY <1>4, <2>1
  <2>3. old(i) \in 1 .. Len(l)
    BY <1>4
  <2>4. old(i) < old(k)
    BY <1>8, <2>1, <2>2, <2>3
  <2>5. k > i /\ m[k] = l[j] /\ m[i] = l[old(i)]
    BY <1>3, <1>4, <2>2, <2>4
  <2> QED BY <1>8, <2>1, <2>5 DEF ShrinkCut
<1>9. ASSUME NEW i \in 1 .. Len(m), Uncovered(m, i)
      PROVE  \/ Uncovered(l, old(i))
             \/ /\ old(i) < e /\ l[e].chunk = l[old(i)].chunk
                /\ Uncovered(l, e) /\ ~Newest(l, old(i))
  <2>1. m[i].chunk # 0 /\ Newest(m, i) /\ ~ShrinkCut(m, i) /\ m[i] = l[old(i)]
        /\ old(i) \in 1 .. Len(l)
    BY <1>3, <1>4, <1>9 DEF Uncovered
  <2>2. CASE Newest(l, old(i))
    <3>1. ASSUME ShrinkCut(l, old(i)) PROVE FALSE
      <4>1. old(i) < e /\ l[e].keep
        BY <1>7, <2>1, <3>1
      <4>2. old(i) \in 1 .. e - 1
        BY <2>1, <4>1
      <4>3. l[old(i)].live
        BY <4>1, <4>2
      <4> QED BY <1>2, <2>1, <3>1, <4>3 DEF LiveOK
    <3> QED BY <2>1, <2>2, <3>1 DEF Uncovered
  <2>3. CASE ~Newest(l, old(i))
    <3>1. old(i) < e /\ l[e].chunk = l[old(i)].chunk /\ Newest(l, e)
      BY <1>6, <2>1, <2>3
    <3>2. ~ShrinkCut(l, e)
      BY <1>8, <2>1, <3>1
    <3> QED BY <2>1, <2>3, <3>1, <3>2 DEF Uncovered
  <2> QED BY <2>2, <2>3
<1>10. h # e
  BY <1>0, <1>2 DEF MarksOK
<1>11. PICK g \in 1 .. Len(m) : old(g) = h
  BY <1>4, <1>10
<1>12. l[h].chunk = 0 /\ Newest(l, h) /\ m[g] = l[h]
  BY <1>1, <1>3, <1>11 DEF IsHead
<1>13. IsHead(m, g)
  <2> SUFFICES ASSUME NEW j \in 1 .. Len(m), j > g PROVE m[j].chunk # m[g].chunk
    BY <1>12 DEF IsHead, Newest
  <2>1. old(j) > h /\ old(j) \in 1 .. Len(l) /\ m[j] = l[old(j)]
    BY <1>3, <1>4, <1>11
  <2> QED BY <1>12, <2>1 DEF Newest
<1>14. ASSUME Uncovered(l, e), NEW j \in 1 .. e - 1, l[j].chunk = l[e].chunk
       PROVE  e < h
  <2>1. P = MaxSize
    BY <1>14
  <2>2. l[e].chunk # 0 /\ Newest(l, e)
    BY <1>14 DEF Uncovered
  <2>3. Base(l[e].chunk) \in Nat /\ Base(l[e].chunk) < MaxSize /\ MaxSize \in Nat
    BY <1>5, <2>2, Bounds DEF Typed, TypedRec
  <2>4. ~(Base(l[e].chunk) >= P)
    BY <2>1, <2>3
  <2>5. Ending(l, e, st, P) \/ Ended(l, h, e, st, P)
    BY <1>0, <1>2, <2>2 DEF DeadOK
  <2> QED BY <2>4, <2>5 DEF Ending, Ended
<1>15. Behind(m, g)
  <2> SUFFICES ASSUME NEW i \in 1 .. Len(m), NEW j \in 1 .. Len(m), i < g, g < j,
                      Uncovered(m, i), Base(m[i].chunk) >= m[g].size
               PROVE  Base(m[j].chunk) < Base(m[i].chunk)
    BY DEF Behind
  <2>1. /\ old(i) \in 1 .. Len(l) /\ old(j) \in 1 .. Len(l)
        /\ old(i) < h /\ h < old(j) /\ m[i] = l[old(i)] /\ m[j] = l[old(j)]
    BY <1>3, <1>4, <1>11
  <2>2. CASE Uncovered(l, old(i))
    BY <1>1, <1>12, <2>1, <2>2 DEF Behind
  <2>3. CASE old(i) < e /\ l[e].chunk = l[old(i)].chunk /\ Uncovered(l, e)
    <3>1. old(i) \in 1 .. e - 1
      BY <2>1, <2>3
    <3>2. e < h
      BY <1>14, <2>3, <3>1
    <3>3. Base(l[old(j)].chunk) < Base(l[e].chunk)
      BY <1>1, <1>12, <2>1, <2>3, <3>2 DEF Behind
    <3> QED BY <2>1, <2>3, <3>3
  <2> QED BY <1>9, <2>2, <2>3
<1>16. Stored(m, g)
  <2> SUFFICES ASSUME NEW i \in 1 .. Len(m), i < g, m[i].chunk # 0, m[i].live
               PROVE  Base(m[i].chunk) < m[g].size
    BY DEF Stored
  <2>1. old(i) \in 1 .. Len(l) /\ old(i) < h /\ m[i] = l[old(i)]
    BY <1>3, <1>4, <1>11
  <2> QED BY <1>1, <1>12, <2>1 DEF Stored
<1>17. TreeOrder(m)
  BY <1>13, <1>15, <1>16 DEF TreeOrder
<1>18. HeadSize(m) = HeadSize(l)
  <2>1. HeadSize(m) = m[g].size
    BY <1>3, <1>13, HeadIs
  <2>2. HeadSize(l) = l[h].size
    BY <1>1, HeadIs
  <2> QED BY <1>12, <2>1, <2>2
<1>19. ASSUME NEW k \in LooseChunks(m)
       PROVE  k \in LooseChunks(l)
  <2>1. PICK i \in 1 .. Len(m) : Loose(m, i) /\ m[i].chunk = k
    BY LooseHas
  <2>2. Uncovered(m, i) /\ ~m[i].live /\ m[i] = l[old(i)] /\ old(i) \in 1 .. Len(l)
    BY <1>3, <1>4, <2>1 DEF Loose
  <2>3. CASE Uncovered(l, old(i))
    <3>1. Loose(l, old(i))
      BY <2>2, <2>3 DEF Loose
    <3> QED BY <2>1, <2>2, <3>1, LooseIs
  <2>4. CASE l[e].chunk = l[old(i)].chunk /\ Uncovered(l, e)
    <3>1. Loose(l, e)
      BY <2>4 DEF Loose
    <3> QED BY <2>1, <2>2, <2>4, <3>1, LooseIs
  <2> QED BY <1>9, <2>2, <2>3, <2>4
<1> QED BY <1>17, <1>18, <1>19

(* The order is that of the flash, whatever the tree holds.                *)
LEMMA OrderSame ==
  ASSUME NEW l, NEW m, SameLog(l, m)
  PROVE  \A i \in 1 .. Len(l) :
           /\ Uncovered(m, i) <=> Uncovered(l, i)
           /\ Behind(m, i) <=> Behind(l, i)
<1>1. /\ Len(m) = Len(l)
      /\ \A i \in 1 .. Len(l) : m[i].chunk = l[i].chunk /\ m[i].size = l[i].size
  BY DEF SameLog, SameChunk
<1>2. \A i \in 1 .. Len(l) : Uncovered(m, i) <=> Uncovered(l, i)
  BY <1>1, SameLogs DEF Uncovered
<1>3. \A h \in 1 .. Len(l) : Behind(m, h) <=> Behind(l, h)
  BY <1>1, <1>2 DEF Behind
<1> QED BY <1>2, <1>3

LEMMA OrderMarks ==
  ASSUME NEW l, NEW m, SameLog(l, m), FlashOrder(l)
  PROVE  FlashOrder(m)
<1>1. PICK h \in 1 .. Len(l) : IsHead(l, h) /\ Behind(l, h)
  BY DEF FlashOrder
<1>2. IsHead(m, h) /\ Behind(m, h) /\ h \in 1 .. Len(m)
  BY <1>1, SameLogs, OrderSame DEF SameLog
<1> QED BY <1>2 DEF FlashOrder

(* Pruning from n on.                                                      *)
LEMMA OrderPrune ==
  ASSUME NEW l \in Seq(Recs), TreeOrder(l), NEW n,
         NEW m, m = Drop(l, {j \in Chunks : Base(j) >= n})
  PROVE  /\ TreeOrder(m) /\ HeadSize(m) = HeadSize(l)
         /\ \A k \in LooseChunks(m) : k \in LooseChunks(l) \/ Base(k) >= n
<1>1. PICK h \in 1 .. Len(l) : IsHead(l, h) /\ Behind(l, h) /\ Stored(l, h)
  BY DEF TreeOrder
<1>2. SameLog(l, m)
  BY DropSame
<1>3. /\ m \in Seq(Recs) /\ Len(m) = Len(l)
      /\ \A i \in 1 .. Len(l) : m[i].chunk = l[i].chunk /\ m[i].size = l[i].size
  BY <1>2 DEF SameLog, SameChunk
<1>4. \A i \in 1 .. Len(l) :
        m[i].live = (l[i].live /\ l[i].chunk \notin {j \in Chunks : Base(j) >= n})
  BY DropIs
<1>5. IsHead(m, h) /\ Behind(m, h) /\ h \in 1 .. Len(m)
  BY <1>1, <1>2, <1>3, SameLogs, OrderSame
<1>6. Stored(m, h)
  BY <1>1, <1>3, <1>4 DEF Stored
<1>7. TreeOrder(m)
  BY <1>5, <1>6 DEF TreeOrder
<1>8. HeadSize(m) = HeadSize(l)
  BY <1>1, <1>3, <1>5, HeadIs
<1>9. ASSUME NEW k \in LooseChunks(m), ~(Base(k) >= n)
      PROVE  k \in LooseChunks(l)
  <2>1. PICK i \in 1 .. Len(m) : Loose(m, i) /\ m[i].chunk = k
    BY LooseHas
  <2>2. i \in 1 .. Len(l) /\ Uncovered(l, i) /\ ~m[i].live /\ l[i].chunk = k
    BY <1>2, <1>3, <2>1, OrderSame DEF Loose
  <2>3. ~l[i].live
    BY <1>4, <1>9, <2>2
  <2>4. Loose(l, i)
    BY <2>2, <2>3 DEF Loose
  <2> QED BY <2>2, <2>4, LooseIs
<1> QED BY <1>7, <1>8, <1>9

(* A mount attaches what is not past the end of the newest header, and     *)
(* nothing behind that header reaches what it leaves out.                  *)
LEMMA OrderMount ==
  ASSUME NEW l \in Seq(Recs), FlashOrder(l),
         NEW S, S = Scan(l).size, S \in 0 .. MaxSize,
         NEW m, m = Marked(l, Scan(l).live, Scan(l).keep)
  PROVE  /\ TreeOrder(m) /\ HeadSize(m) <= S
         /\ \A k \in LooseChunks(m) : Base(k) >= S
<1>1. PICK h \in 1 .. Len(l) : IsHead(l, h) /\ Behind(l, h)
  BY DEF FlashOrder
<1>2. SameLog(l, m)
  BY MarkedSame
<1>3. /\ m \in Seq(Recs) /\ Len(m) = Len(l)
      /\ \A i \in 1 .. Len(l) : m[i].chunk = l[i].chunk /\ m[i].size = l[i].size
  BY <1>2 DEF SameLog, SameChunk
<1>4. \A i \in 1 .. Len(l) : m[i].live = (i \in Scan(l).live)
  BY MarkedIs
<1>5. IsHead(m, h) /\ Behind(m, h) /\ h \in 1 .. Len(m)
  BY <1>1, <1>2, <1>3, SameLogs, OrderSame
<1>6. \A i \in 1 .. Len(l) : l[i].chunk # 0 =>
        (i \in Scan(l).live <=>
           /\ Newest(l, i) /\ ~ShrinkCut(l, i)
           /\ i < h => Base(l[i].chunk) < l[h].size)
  BY <1>1, ScanFinds
<1>7. \/ S = l[h].size
      \/ \E i \in h + 1 .. Len(l) : l[i].chunk # 0 /\ S = Base(l[i].chunk) + l[i].n
  BY <1>1, ScanFinds
<1>8. S >= l[h].size
  BY <1>1, ScanFinds
<1>9. Typed(l) /\ l[h].chunk = 0 /\ Len(l) \in Nat
  BY <1>1, LogTyped, LogIs DEF IsHead
<1>10. l[h].size \in Nat /\ S \in Nat
  BY <1>9, Bounds DEF Typed, TypedRec
<1>11. Stored(m, h)
  BY <1>3, <1>4, <1>6 DEF Stored
<1>12. TreeOrder(m)
  BY <1>5, <1>11 DEF TreeOrder
<1>13. HeadSize(m) = l[h].size
  BY <1>3, <1>5, HeadIs
<1>14. ASSUME NEW k \in LooseChunks(m)
       PROVE  Base(k) >= S
  <2>1. PICK i \in 1 .. Len(m) : Loose(m, i) /\ m[i].chunk = k
    BY LooseHas
  <2>2. i \in 1 .. Len(l) /\ Uncovered(l, i) /\ ~m[i].live /\ l[i].chunk = k
    BY <1>2, <1>3, <2>1, OrderSame DEF Loose
  <2>3. l[i].chunk # 0 /\ Newest(l, i) /\ ~ShrinkCut(l, i) /\ i \notin Scan(l).live
    BY <1>4, <2>2 DEF Uncovered
  <2>4. i < h /\ ~(Base(k) < l[h].size)
    BY <1>6, <2>2, <2>3
  <2>5. k \in Nat \ {0} /\ Base(k) \in Nat
    BY LooseHas
  <2>6. Base(k) >= l[h].size
    BY <1>10, <2>4, <2>5
  <2>7. CASE S = l[h].size
    BY <2>6, <2>7
  <2>8. ASSUME NEW j \in h + 1 .. Len(l), l[j].chunk # 0, S = Base(l[j].chunk) + l[j].n
        PROVE  Base(k) >= S
    <3>1. j \in 1 .. Len(l) /\ h < j
      BY <1>9
    <3>2. Base(l[j].chunk) < Base(k)
      BY <1>1, <2>2, <2>4, <2>6, <3>1 DEF Behind
    <3>3. /\ l[j].chunk \in Nat /\ l[j].n \in Nat /\ l[j].n <= ChunkBytes
          /\ Base(l[j].chunk) \in Nat
      BY <1>9, <2>8, <3>1 DEF Typed, TypedRec
    <3>4. PICK x \in Int : x = l[j].chunk
      BY <3>3
    <3>5. k \in Int /\ (x = k \/ x < k \/ k < x)
      BY <2>5, <3>4
    <3>6. ~(x = k)
      BY <2>5, <3>2, <3>4
    <3>7. ~(k < x)
      <4>1. k < x => Base(k) + ChunkBytes <= Base(x)
        BY <3>5, BaseLess
      <4> QED BY <2>5, <3>2, <3>3, <3>4, <4>1, Bounds
    <3>8. Base(x) + ChunkBytes <= Base(k)
      BY <3>5, <3>6, <3>7, BaseLess
    <3> QED BY <2>5, <2>8, <3>3, <3>4, <3>8, Bounds
  <2> QED BY <1>7, <2>7, <2>8
<1> QED BY <1>8, <1>12, <1>13, <1>14

-----------------------------------------------------------------------------
(* What a step may do to the order.                                        *)

LEMMA BaseOrder ==
  ASSUME NEW j \in Nat \ {0}, NEW k \in Nat \ {0}
  PROVE  /\ Base(j) \in Nat /\ Base(k) \in Nat
         /\ Base(j) < Base(k) => Base(j) + ChunkBytes <= Base(k)
         /\ Base(j) <= Base(k) /\ j # k => Base(j) + ChunkBytes <= Base(k)
<1>1. j \in Int /\ k \in Int /\ j >= 1 /\ k >= 1
  OBVIOUS
<1>2. Base(j) \in Nat /\ Base(k) \in Nat
  BY <1>1, BaseIs
<1>3. j < k => Base(j) + ChunkBytes <= Base(k)
  BY <1>1, BaseLess
<1>4. k < j => Base(k) + ChunkBytes <= Base(j)
  BY <1>1, BaseLess
<1>5. j = k \/ j < k \/ k < j
  BY <1>1
<1>6. CASE j = k
  BY <1>2, <1>6
<1>7. CASE j < k
  BY <1>2, <1>3, <1>7
<1>8. CASE k < j
  <2>1. Base(k) < Base(j)
    BY <1>2, <1>4, <1>8, Bounds
  <2> QED BY <1>2, <2>1
<1> QED BY <1>5, <1>6, <1>7, <1>8

LEMMA LargerIs ==
  ASSUME NEW a \in Nat, NEW b \in Nat
  PROVE  /\ Larger(a, b) \in Nat /\ a <= Larger(a, b) /\ b <= Larger(a, b)
         /\ \A x \in Nat : Larger(a, b) <= x <=> a <= x /\ b <= x
  BY DEF Larger

(* Between the special places of a call.                                   *)
Calm(t, w) == CutPoint(t) = MaxSize /\ ~Torn(t) /\ ~Reset(t) /\ ~Skips(t, w)

(* The order there, of a file of n bytes.                                  *)
Settling(L, H, c, n) ==
  \A k \in L : Pending(c, k) /\ Base(k) >= H => n <= Base(k) + ChunkBytes

Quiet(L, H, st, c, n) ==
  /\ \A k \in L : Pending(c, k) \/ (st <= Base(k) /\ n <= Base(k))
  /\ DirtyBefore(L, c)
  /\ H <= st
  /\ Settling(L, H, c, n)

Sizes3(L, H, st, n) ==
  L \subseteq Chunks /\ H \in Nat /\ st \in Nat /\ n \in Nat

LEMMA LooseBase ==
  ASSUME NEW L, L \subseteq Chunks, NEW k \in L
  PROVE  k \in Nat \ {0} /\ Base(k) \in Nat /\ Base(k) < MaxSize
  BY ChunksAre

LEMMA QuietIs ==
  ASSUME NEW L, NEW H, NEW st, NEW c, NEW t, NEW w, Calm(t, w),
         Sizes3(L, H, st, Len(w))
  PROVE  RamOrder(L, H, st, c, t, w) <=> Quiet(L, H, st, c, Len(w))
<1>1. CutPoint(t) = MaxSize /\ ~Torn(t) /\ ~Reset(t) /\ ~Skips(t, w)
  BY DEF Calm
<1>2. L \subseteq Chunks /\ H \in Nat /\ st \in Nat /\ Len(w) \in Nat /\ MaxSize \in Nat
  BY Bounds DEF Sizes3
<1>3. PICK x : x = Larger(st, Len(w))
  OBVIOUS
<1>4. /\ x \in Nat
      /\ \A y \in Nat : x <= y <=> st <= y /\ Len(w) <= y
  BY <1>2, <1>3, LargerIs
<1>5. Horizon(t, st, w) = Smaller(MaxSize, x)
  BY <1>1, <1>3 DEF Horizon
<1>6. ASSUME NEW k \in L
      PROVE  /\ Base(k) >= Horizon(t, st, w) <=> (st <= Base(k) /\ Len(w) <= Base(k))
             /\ Base(k) < CutPoint(t)
  <2>1. Base(k) \in Nat /\ Base(k) < MaxSize
    BY <1>2, LooseBase
  <2>2. Base(k) >= Smaller(MaxSize, x) <=> x <= Base(k)
    BY <1>2, <1>4, <2>1 DEF Smaller
  <2> QED BY <1>1, <1>4, <1>5, <2>1, <2>2
<1>7. LooseBehind(L, c, t, st, w) <=>
        \A k \in L : Pending(c, k) \/ (st <= Base(k) /\ Len(w) <= Base(k))
  BY <1>6 DEF LooseBehind
<1>8. LastPending(L, H, c, t, w) <=> Settling(L, H, c, Len(w))
  BY <1>6 DEF LastPending, Settling
<1>9. HeadSound(H, t, st, w) <=> H <= st
  BY <1>1 DEF HeadSound
<1> QED BY <1>1, <1>7, <1>8, <1>9 DEF RamOrder, Quiet

(* In front of a step that may leave a gap: a turn of yaffs_do_file_wr, or *)
(* the growth of the file.                                                 *)
LEMMA GapQuiet ==
  ASSUME NEW L, NEW H, NEW st, NEW c, NEW t, NEW w, t # <<>>, NEW off \in Nat,
         \/ Head(t).a = "write" /\ off = Head(t).off
         \/ Head(t).a = "grow" /\ off = Head(t).n,
         Sizes3(L, H, st, Len(w)),
         RamOrder(L, H, st, c, t, w)
  PROVE  Quiet(L, H, st, c, Larger(Len(w), off))
<1>1. L \subseteq Chunks /\ H \in Nat /\ st \in Nat /\ Len(w) \in Nat
  BY DEF Sizes3
<1>2. CutPoint(t) = MaxSize /\ ~Torn(t) /\ ~Reset(t)
  BY DEF CutPoint, Torn, Reset
<1>3. CASE Skips(t, w)
  <2>1. /\ \A k \in L : Base(k) < H
        /\ \A k \in L : Base(k) >= MaxSize \/ Pending(c, k)
    BY <1>3 DEF RamOrder, LooseBehind, Horizon
  <2>2. \A k \in L : Base(k) \in Nat /\ Base(k) < MaxSize
    BY <1>1, LooseBase
  <2>3. \A k \in L : Pending(c, k) /\ ~(Base(k) >= H)
    BY <1>1, <2>1, <2>2, Bounds
  <2>4. H <= st /\ DirtyBefore(L, c)
    BY <1>2 DEF RamOrder, HeadSound
  <2> QED BY <2>3, <2>4 DEF Quiet, Settling
<1>4. CASE ~Skips(t, w)
  <2>1. Calm(t, w)
    BY <1>2, <1>4 DEF Calm
  <2>2. Quiet(L, H, st, c, Len(w))
    BY <2>1, QuietIs
  <2>3. ~(off > Len(w))
    BY <1>4 DEF Skips
  <2>4. Larger(Len(w), off) = Len(w)
    BY <1>1, <2>3 DEF Larger
  <2> QED BY <2>2, <2>4
<1> QED BY <1>3, <1>4

(* No entry is dirty, or none but those of one chunk.                      *)
NoDirty(c) == \A e \in Held(c) : ~e.dirty

DirtyAt(c, k) == \A e \in Held(c) : e.dirty => e.chunk = k

LEMMA CleanPending ==
  ASSUME NEW c, NoDirty(c), NEW k
  PROVE  ~Pending(c, k)
  BY DEF NoDirty, Pending

(* Writing out the one dirty entry.                                        *)
LEMMA QuietOut ==
  ASSUME NEW L, NEW H, NEW st, NEW c, NEW n, Sizes3(L, H, st, n),
         Quiet(L, H, st, c, n),
         NEW e \in Held(c), e.dirty, e.chunk \in Nat \ {0}, DirtyAt(c, e.chunk),
         NEW m \in Nat, m <= ChunkBytes,
         NEW M, M \subseteq L \ {e.chunk}, NEW d, NoDirty(d)
  PROVE  /\ \A k \in L : k # e.chunk => Base(e.chunk) < Base(k)
         /\ Quiet(M, H, Larger(st, Base(e.chunk) + m), d, n)
<1>1. L \subseteq Chunks /\ H \in Nat /\ st \in Nat /\ n \in Nat
  BY DEF Sizes3
<1>2. PICK j \in Nat \ {0} : j = e.chunk
  OBVIOUS
<1>3. ASSUME NEW k \in L, k # j
      PROVE  /\ Base(j) < Base(k) /\ Base(j) + ChunkBytes <= Base(k)
             /\ st <= Base(k) /\ n <= Base(k) /\ Base(k) \in Nat /\ Base(j) \in Nat
  <2>1. k \in Nat \ {0} /\ Base(k) \in Nat
    BY <1>1, LooseBase
  <2>2. Base(j) <= Base(k)
    BY <1>2, <1>3 DEF Quiet, DirtyBefore
  <2>3. Base(j) + ChunkBytes <= Base(k) /\ Base(j) \in Nat
    BY <1>3, <2>1, <2>2, BaseOrder
  <2>4. ~Pending(c, k)
    BY <1>2, <1>3 DEF Pending, DirtyAt
  <2>5. st <= Base(k) /\ n <= Base(k)
    BY <1>3, <2>4 DEF Quiet
  <2>6. Base(j) < Base(k)
    BY <2>1, <2>3, Bounds
  <2> QED BY <2>1, <2>3, <2>5, <2>6
<1>4. PICK s : s = Larger(st, Base(j) + m)
  OBVIOUS
<1>5. Base(j) \in Nat
  BY BaseOrder
<1>6. PICK x \in Nat : x = Base(j) + m
  BY <1>5
<1>7. /\ s \in Nat /\ st <= s
      /\ \A y \in Nat : s <= y <=> st <= y /\ x <= y
  BY <1>1, <1>4, <1>6, LargerIs
<1>8. ASSUME NEW k \in M
      PROVE  s <= Base(k) /\ n <= Base(k)
  <2>1. k \in L /\ k # j
    BY <1>2, <1>8
  <2>2. /\ Base(j) + ChunkBytes <= Base(k) /\ st <= Base(k) /\ n <= Base(k)
        /\ Base(k) \in Nat
    BY <1>3, <2>1
  <2>3. x <= Base(k)
    BY <1>5, <1>6, <2>2, Bounds
  <2> QED BY <1>7, <2>2, <2>3
<1>9. \A k : ~Pending(d, k)
  BY CleanPending
<1>10. DirtyBefore(M, d)
  BY DEF DirtyBefore, NoDirty
<1>11. H <= s
  BY <1>1, <1>7 DEF Quiet
<1>12. Quiet(M, H, s, d, n)
  BY <1>8, <1>9, <1>10, <1>11 DEF Quiet, Settling
<1> QED BY <1>2, <1>3, <1>4, <1>12

LEMMA QuietClean ==
  ASSUME NEW L, NEW H, NEW st, NEW c, NEW n, Quiet(L, H, st, c, n), NoDirty(c),
         NEW d, NoDirty(d), NEW M, M \subseteq L
  PROVE  Quiet(M, H, st, d, n)
  BY CleanPending DEF Quiet, Settling, DirtyBefore, NoDirty

(* The piece of a write that goes into chunk k, up to end.                 *)
PieceAt(k, off, end, n, z, v) ==
  /\ k \in Nat \ {0} /\ off \in Nat /\ end \in Nat /\ n \in Nat
  /\ Base(k) <= off /\ off <= end /\ end <= Base(k) + ChunkBytes
  /\ z = Larger(n, off) /\ v = Larger(n, end)

LEMMA PieceBounds ==
  ASSUME NEW k, NEW off, NEW end, NEW n, NEW z, NEW v, PieceAt(k, off, end, n, z, v)
  PROVE  /\ z \in Nat /\ v \in Nat /\ Base(k) \in Nat
         /\ z <= Base(k) + ChunkBytes => v <= Base(k) + ChunkBytes
         /\ \A j \in Nat \ {0} :
              j # k /\ z <= Base(j) =>
                /\ Base(k) < Base(j) /\ Base(k) + ChunkBytes <= Base(j)
                /\ v <= Base(j)
<1>1. /\ k \in Nat \ {0} /\ off \in Nat /\ end \in Nat /\ n \in Nat
      /\ Base(k) <= off /\ off <= end /\ end <= Base(k) + ChunkBytes
      /\ z = Larger(n, off) /\ v = Larger(n, end)
  BY DEF PieceAt
<1>2. PICK b \in Nat : b = Base(k)
  BY <1>1, BaseOrder
<1>3. /\ z \in Nat /\ n <= z /\ off <= z
      /\ \A x \in Nat : z <= x <=> n <= x /\ off <= x
  BY <1>1, LargerIs
<1>4. v \in Nat /\ \A x \in Nat : v <= x <=> n <= x /\ end <= x
  BY <1>1, LargerIs
<1>5. ChunkBytes \in Nat /\ ChunkBytes >= 1
  BY Bounds
<1>6. z <= b + ChunkBytes => v <= b + ChunkBytes
  <2>1. b + ChunkBytes \in Nat
    BY <1>5
  <2> QED BY <1>1, <1>2, <1>3, <1>4, <2>1
<1>7. ASSUME NEW j \in Nat \ {0}, j # k, z <= Base(j)
      PROVE  b < Base(j) /\ b + ChunkBytes <= Base(j) /\ v <= Base(j)
  <2>1. Base(j) \in Nat
    BY BaseOrder
  <2>2. n <= Base(j) /\ off <= Base(j)
    BY <1>3, <1>7, <2>1
  <2>3. Base(k) <= Base(j)
    BY <1>1, <1>2, <2>1, <2>2
  <2>4. b + ChunkBytes <= Base(j)
    BY <1>1, <1>2, <1>7, <2>3, BaseOrder
  <2>5. end <= Base(j)
    BY <1>1, <1>2, <1>5, <2>1, <2>4
  <2>6. v <= Base(j)
    BY <1>4, <2>1, <2>2, <2>5
  <2> QED BY <1>5, <2>1, <2>4, <2>6
<1> QED BY <1>2, <1>3, <1>4, <1>6, <1>7

(* ... of the cache.                                                       *)
LEMMA QuietCached ==
  ASSUME NEW L, NEW H, NEW st, NEW c, NEW k, NEW off, NEW end, NEW n, NEW z, NEW v,
         PieceAt(k, off, end, n, z, v), Sizes3(L, H, st, z),
         Quiet(L, H, st, c, z), DirtyAt(c, k),
         NEW d, DirtyAt(d, k), Pending(d, k)
  PROVE  Quiet(L, H, st, d, v)
<1>1. /\ z \in Nat /\ v \in Nat /\ Base(k) \in Nat
      /\ z <= Base(k) + ChunkBytes => v <= Base(k) + ChunkBytes
      /\ \A j \in Nat \ {0} :
           j # k /\ z <= Base(j) =>
             Base(k) < Base(j) /\ v <= Base(j)
  BY PieceBounds
<1>2. L \subseteq Chunks
  BY DEF Sizes3
<1>3. ASSUME NEW j \in L, j # k
      PROVE  Base(k) < Base(j) /\ v <= Base(j) /\ st <= Base(j)
  <2>1. ~Pending(c, j)
    BY <1>3 DEF Pending, DirtyAt
  <2>2. st <= Base(j) /\ z <= Base(j)
    BY <2>1 DEF Quiet
  <2>3. j \in Nat \ {0}
    BY <1>2, LooseBase
  <2> QED BY <1>1, <1>3, <2>2, <2>3
<1>4. \A j \in L : Pending(d, j) \/ (st <= Base(j) /\ v <= Base(j))
  BY <1>3
<1>5. DirtyBefore(L, d)
  <2> SUFFICES ASSUME NEW j \in L, NEW e \in Held(d), e.dirty
               PROVE  Base(e.chunk) <= Base(j)
    BY DEF DirtyBefore
  <2>1. e.chunk = k
    BY DEF DirtyAt
  <2>2. Base(j) \in Nat
    BY <1>2, LooseBase
  <2>3. Base(k) <= Base(j)
    <3>1. CASE j = k
      BY <1>1, <3>1
    <3>2. CASE j # k
      BY <1>1, <1>3, <2>2, <3>2
    <3> QED BY <3>1, <3>2
  <2> QED BY <2>1, <2>3
<1>6. Settling(L, H, d, v)
  <2> SUFFICES ASSUME NEW j \in L, Pending(d, j), Base(j) >= H
               PROVE  v <= Base(j) + ChunkBytes
    BY DEF Settling
  <2>1. j = k
    BY DEF Pending, DirtyAt
  <2>2. CASE Pending(c, j)
    <3>1. z <= Base(k) + ChunkBytes
      BY <2>1, <2>2 DEF Quiet, Settling
    <3> QED BY <1>1, <2>1, <3>1
  <2>3. CASE ~Pending(c, j)
    <3>1. z <= Base(k)
      BY <2>1, <2>3 DEF Quiet
    <3>2. z <= Base(k) + ChunkBytes
      BY <1>1, <3>1, Bounds
    <3> QED BY <1>1, <2>1, <3>2
  <2> QED BY <2>2, <2>3
<1> QED BY <1>4, <1>5, <1>6 DEF Quiet

(* ... past the cache.                                                     *)
LEMMA QuietDirect ==
  ASSUME NEW L, NEW H, NEW st, NEW c, NEW k, NEW off, NEW end, NEW n, NEW z, NEW v,
         PieceAt(k, off, end, n, z, v), Sizes3(L, H, st, z),
         Quiet(L, H, st, c, z), NoDirty(c), NEW d, NoDirty(d),
         NEW m \in Nat, m <= ChunkBytes,
         NEW M, M \subseteq L \ {k}
  PROVE  /\ \A j \in L : j # k => Base(k) < Base(j)
         /\ Quiet(M, H, Larger(st, Base(k) + m), d, v)
<1>1. /\ z \in Nat /\ v \in Nat /\ Base(k) \in Nat
      /\ \A j \in Nat \ {0} :
           j # k /\ z <= Base(j) =>
             /\ Base(k) < Base(j) /\ Base(k) + ChunkBytes <= Base(j)
             /\ v <= Base(j)
  BY PieceBounds
<1>2. L \subseteq Chunks /\ H \in Nat /\ st \in Nat
  BY DEF Sizes3
<1>3. PICK x \in Nat : x = Base(k) + m
  BY <1>1
<1>4. PICK s : s = Larger(st, x)
  OBVIOUS
<1>5. /\ s \in Nat /\ st <= s
      /\ \A y \in Nat : s <= y <=> st <= y /\ x <= y
  BY <1>2, <1>4, LargerIs
<1>6. ASSUME NEW j \in L, j # k
      PROVE  Base(k) < Base(j) /\ v <= Base(j) /\ s <= Base(j)
  <2>1. ~Pending(c, j)
    BY CleanPending
  <2>2. st <= Base(j) /\ z <= Base(j)
    BY <2>1 DEF Quiet
  <2>3. j \in Nat \ {0} /\ Base(j) \in Nat
    BY <1>2, LooseBase
  <2>4. Base(k) < Base(j) /\ Base(k) + ChunkBytes <= Base(j) /\ v <= Base(j)
    BY <1>1, <1>6, <2>2, <2>3
  <2>5. x <= Base(j)
    BY <1>1, <1>3, <2>3, <2>4, Bounds
  <2> QED BY <1>5, <2>2, <2>3, <2>4, <2>5
<1>7. \A j : ~Pending(d, j)
  BY CleanPending
<1>8. DirtyBefore(M, d)
  BY DEF DirtyBefore, NoDirty
<1>9. H <= s
  BY <1>2, <1>5 DEF Quiet
<1>10. Quiet(M, H, s, d, v)
  BY <1>6, <1>7, <1>8, <1>9 DEF Quiet, Settling
<1> QED BY <1>3, <1>4, <1>6, <1>10

LEMMA OrderFewer ==
  ASSUME NEW L, NEW H, NEW st, NEW c, NEW t, NEW w, RamOrder(L, H, st, c, t, w),
         NEW M, M \subseteq L
  PROVE  RamOrder(M, H, st, c, t, w)
  BY DEF RamOrder, LooseBehind, DirtyBefore, LastPending

(* A header written by the garbage collection takes the size over.         *)
LEMMA OrderNewHeader ==
  ASSUME NEW L, NEW H, NEW st, NEW c, NEW t, NEW w, Sizes3(L, H, st, Len(w)),
         RamOrder(L, H, st, c, t, w),
         NEW M, M \subseteq L
  PROVE  RamOrder(M, st, st, c, t, w)
<1>1. L \subseteq Chunks /\ H \in Nat /\ st \in Nat /\ Len(w) \in Nat
  BY DEF Sizes3
<1>2. \A k \in M : k \in L /\ Base(k) \in Nat
  BY <1>1, LooseBase
<1>3. Skips(t, w) => ~Reset(t)
  BY DEF Skips, Reset
<1>4. HeadSound(H, t, st, w)
  BY DEF RamOrder
<1>5. LooseBehind(M, c, t, st, w) /\ (~Torn(t) => DirtyBefore(M, c))
  BY DEF RamOrder, LooseBehind, DirtyBefore
<1>6. HeadSound(st, t, st, w)
  BY <1>1, <1>4 DEF HeadSound
<1>7. LastPending(M, st, c, t, w)
  <2> SUFFICES ASSUME NEW k \in M, Pending(c, k), Base(k) >= st, Base(k) < CutPoint(t)
               PROVE  Len(w) <= Base(k) + ChunkBytes
    BY DEF LastPending
  <2>1. CASE Reset(t)
    <3>1. Len(w) <= st
      BY <1>4, <2>1 DEF HeadSound
    <3> QED BY <1>1, <1>2, <3>1, Bounds
  <2>2. CASE ~Reset(t)
    <3>1. H <= st
      BY <1>4, <2>2 DEF HeadSound
    <3>2. Base(k) >= H
      BY <1>1, <1>2, <3>1
    <3> QED BY <1>2, <3>2 DEF RamOrder, LastPending
  <2> QED BY <2>1, <2>2
<1>8. ASSUME Skips(t, w), NEW k \in M
      PROVE  Base(k) < st
  <2>1. H <= st
    BY <1>3, <1>4, <1>8 DEF HeadSound
  <2>2. Base(k) < H
    BY <1>2, <1>8 DEF RamOrder
  <2> QED BY <1>1, <1>2, <2>1, <2>2
<1> QED BY <1>5, <1>6, <1>7, <1>8 DEF RamOrder

(* yaffs_update_oh after a flush or a truncation.                          *)
LEMMA OrderHeader ==
  ASSUME NEW L, NEW H, NEW st, NEW c, NEW t, NEW w, Sizes3(L, H, st, Len(w)),
         RamOrder(L, H, st, c, t, w), t # <<>>, Head(t).a = "hdr",
         NEW M, M \subseteq L
  PROVE  Quiet(M, st, st, c, Len(w))
<1>1. L \subseteq Chunks /\ H \in Nat /\ st \in Nat /\ Len(w) \in Nat
  BY DEF Sizes3
<1>2. RamOrder(M, st, st, c, t, w)
  BY OrderNewHeader
<1>3. CutPoint(t) = MaxSize /\ ~Torn(t) /\ ~Skips(t, w)
  BY DEF CutPoint, Torn, Skips
<1>4. PICK x : x = Larger(st, Len(w))
  OBVIOUS
<1>5. x \in Nat /\ \A y \in Nat : x <= y <=> st <= y /\ Len(w) <= y
  BY <1>1, <1>4, LargerIs
<1>6. Horizon(t, st, w) = Smaller(MaxSize, x)
  BY <1>3, <1>4 DEF Horizon
<1>7. \A k \in M : Base(k) \in Nat /\ Base(k) < MaxSize
  BY <1>1, LooseBase
<1>8. \A k \in M : Pending(c, k) \/ (st <= Base(k) /\ Len(w) <= Base(k))
  <2> SUFFICES ASSUME NEW k \in M, ~Pending(c, k)
               PROVE  st <= Base(k) /\ Len(w) <= Base(k)
    OBVIOUS
  <2>1. Base(k) >= Smaller(MaxSize, x)
    BY <1>2, <1>6 DEF RamOrder, LooseBehind
  <2>2. x <= Base(k)
    BY <1>5, <1>7, <2>1, Bounds DEF Smaller
  <2> QED BY <1>5, <1>7, <2>2
<1>9. DirtyBefore(M, c)
  BY <1>2, <1>3 DEF RamOrder
<1>10. Settling(M, st, c, Len(w))
  BY <1>2, <1>3, <1>7 DEF RamOrder, LastPending, Settling
<1> QED BY <1>1, <1>8, <1>9, <1>10 DEF Quiet

(* The header that marks a hole covers what is loose past the old end; the *)
(* rest is about to be written.                                            *)
Alone(c) == \A e, f \in Held(c) : e = f

LEMMA OrderHole ==
  ASSUME NEW L, NEW H, NEW st, NEW c, NEW t, NEW w, Sizes3(L, H, st, Len(w)),
         RamOrder(L, H, st, c, t, w), t # <<>>, Head(t).a = "hole", Alone(c),
         NEW M, M \subseteq {k \in L : Base(k) < st},
         NEW u, ~Reset(u)
  PROVE  RamOrder(M, st, st, c, u, w)
<1>1. L \subseteq Chunks /\ H \in Nat /\ st \in Nat /\ Len(w) \in Nat
  BY DEF Sizes3
<1>2. CutPoint(t) = MaxSize /\ ~Skips(t, w)
  BY DEF CutPoint, Skips
<1>3. PICK x : x = Larger(st, Len(w))
  OBVIOUS
<1>4. x \in Nat /\ st <= x
  BY <1>1, <1>3, LargerIs
<1>5. Horizon(t, st, w) = Smaller(MaxSize, x)
  BY <1>2, <1>3 DEF Horizon
<1>6. \A k \in M : k \in L /\ Base(k) \in Nat /\ Base(k) < MaxSize /\ Base(k) < st
  BY <1>1, LooseBase
<1>7. \A k \in M : Pending(c, k)
  <2> SUFFICES ASSUME NEW k \in M, ~Pending(c, k) PROVE FALSE
    OBVIOUS
  <2>1. Base(k) >= Smaller(MaxSize, x)
    BY <1>5, <1>6 DEF RamOrder, LooseBehind
  <2> QED BY <1>1, <1>4, <1>6, <2>1, Bounds DEF Smaller
<1>8. LooseBehind(M, c, u, st, w)
  BY <1>7 DEF LooseBehind
<1>9. DirtyBefore(M, c)
  <2> SUFFICES ASSUME NEW k \in M, NEW e \in Held(c), e.dirty
               PROVE  Base(e.chunk) <= Base(k)
    BY DEF DirtyBefore
  <2>1. PICK f \in Held(c) : f.dirty /\ f.chunk = k
    BY <1>7 DEF Pending
  <2>2. e.chunk = k
    BY <2>1 DEF Alone
  <2> QED BY <1>6, <2>2
<1>10. HeadSound(st, u, st, w)
  BY <1>1 DEF HeadSound
<1>11. \A k \in M : ~(Base(k) >= st)
  BY <1>1, <1>6
<1>12. LastPending(M, st, c, u, w)
  BY <1>11 DEF LastPending
<1> QED BY <1>6, <1>8, <1>9, <1>10, <1>12 DEF RamOrder

(* yaffs_prune_chunks.                                                     *)
LEMMA OrderPruning ==
  ASSUME NEW L, NEW H, NEW st, NEW c, NEW t, NEW w, Sizes3(L, H, st, Len(w)),
         RamOrder(L, H, st, c, t, w), t # <<>>, Head(t).a = "prune",
         NEW n \in Nat, NEW M, M \subseteq Chunks,
         \A k \in M : k \in L \/ Base(k) >= n,
         NEW u, u # <<>>, Head(u).a = "pad", Head(u).n = n
  PROVE  RamOrder(M, H, st, c, u, w)
<1>1. L \subseteq Chunks /\ H \in Nat /\ st \in Nat /\ Len(w) \in Nat
  BY DEF Sizes3
<1>2. Calm(t, w)
  BY DEF Calm, CutPoint, Torn, Reset, Skips
<1>3. Quiet(L, H, st, c, Len(w))
  BY <1>2, QuietIs
<1>4. CutPoint(u) = n /\ Torn(u) /\ ~Reset(u) /\ ~Skips(u, w)
  BY DEF CutPoint, Torn, Reset, Skips
<1>5. PICK x : x = Larger(st, Len(w))
  OBVIOUS
<1>6. x \in Nat /\ \A y \in Nat : x <= y <=> st <= y /\ Len(w) <= y
  BY <1>1, <1>5, LargerIs
<1>7. Horizon(u, st, w) = Smaller(n, x)
  BY <1>4, <1>5 DEF Horizon
<1>8. \A k \in M : Base(k) \in Nat /\ Base(k) < MaxSize
  BY LooseBase
<1>9. LooseBehind(M, c, u, st, w)
  <2> SUFFICES ASSUME NEW k \in M, ~Pending(c, k)
               PROVE  Base(k) >= Smaller(n, x)
    BY <1>7 DEF LooseBehind
  <2>1. CASE Base(k) >= n
    BY <1>6, <1>8, <2>1 DEF Smaller
  <2>2. CASE k \in L
    <3>1. st <= Base(k) /\ Len(w) <= Base(k)
      BY <1>3, <2>2 DEF Quiet
    <3>2. x <= Base(k)
      BY <1>6, <1>8, <3>1
    <3> QED BY <1>6, <1>8, <3>2 DEF Smaller
  <2> QED BY <2>1, <2>2
<1>10. HeadSound(H, u, st, w)
  BY <1>3, <1>4 DEF HeadSound, Quiet
<1>11. LastPending(M, H, c, u, w)
  <2> SUFFICES ASSUME NEW k \in M, Pending(c, k), Base(k) >= H, Base(k) < n
               PROVE  Len(w) <= Base(k) + ChunkBytes
    BY <1>4 DEF LastPending
  <2>1. k \in L
    BY <1>8
  <2> QED BY <1>3, <2>1 DEF Quiet, Settling
<1> QED BY <1>4, <1>9, <1>10, <1>11 DEF RamOrder

(* yaffs_resize_file_down.                                                 *)
LEMMA OrderCutting ==
  ASSUME NEW L, NEW H, NEW st, NEW c, NEW t, NEW w, Sizes3(L, H, st, Len(w)),
         RamOrder(L, H, st, c, t, w),
         NEW n \in Nat, n <= Len(w),
         t # <<>>, Head(t).a = "pad", Head(t).n = n,
         NEW u, u # <<>>, Head(u).a \in {"hdr", "hole"}, Head(u).n = 1,
         Head(u).a = "hole" \/ NoDirty(c),
         NEW M, M \subseteq L, NEW v, Len(v) = n
  PROVE  /\ RamOrder(M, H, n, c, u, v)
         /\ StartOf(n) # 0 =>
              \A k \in L : k # ChunkOf(n) /\ Base(k) >= H =>
                Base(ChunkOf(n)) < Base(k)
<1>1. L \subseteq Chunks /\ H \in Nat /\ st \in Nat /\ Len(w) \in Nat
  BY DEF Sizes3
<1>2. CutPoint(t) = n /\ ~Skips(t, w)
  BY DEF CutPoint, Skips
<1>3. CutPoint(u) = MaxSize /\ ~Skips(u, v) /\ Reset(u) /\ (Torn(u) <=> Head(u).a = "hole")
  BY DEF CutPoint, Skips, Reset, Torn
<1>4. PICK x : x = Larger(st, Len(w))
  OBVIOUS
<1>5. x \in Nat /\ n <= x
  <2>1. x \in Nat /\ Len(w) <= x
    BY <1>1, <1>4, LargerIs
  <2> QED BY <1>1, <2>1
<1>6. Horizon(t, st, w) = n
  <2>1. Horizon(t, st, w) = Smaller(n, x)
    BY <1>2, <1>4 DEF Horizon
  <2> QED BY <1>5, <2>1 DEF Smaller
<1>7. \A k \in L : k \in Nat \ {0} /\ Base(k) \in Nat /\ Base(k) < MaxSize
  BY <1>1, LooseBase
<1>8. \A k \in L : Base(k) >= n \/ Pending(c, k)
  BY <1>6 DEF RamOrder, LooseBehind
<1>9. \A k \in L : Pending(c, k) /\ Base(k) >= H => n <= Base(k) + ChunkBytes
  <2> SUFFICES ASSUME NEW k \in L, Pending(c, k), Base(k) >= H
               PROVE  n <= Base(k) + ChunkBytes
    OBVIOUS
  <2>1. CASE Base(k) < n
    <3>1. Len(w) <= Base(k) + ChunkBytes
      BY <1>2, <2>1 DEF RamOrder, LastPending
    <3> QED BY <1>1, <1>7, <3>1, Bounds
  <2>2. CASE ~(Base(k) < n)
    BY <1>7, <2>2, Bounds
  <2> QED BY <2>1, <2>2
<1>10. RamOrder(M, H, n, c, u, v)
  <2>1. LooseBehind(M, c, u, n, v)
    <3>1. Larger(n, n) = n
      BY DEF Larger
    <3>2. Horizon(u, n, v) = Smaller(MaxSize, n)
      BY <1>3, <3>1 DEF Horizon
    <3>3. \A k \in M : Base(k) >= n => Base(k) >= Smaller(MaxSize, n)
      BY <1>7, Bounds DEF Smaller
    <3> QED BY <1>8, <3>2, <3>3 DEF LooseBehind
  <2>2. ~Torn(u) => DirtyBefore(M, c)
    BY <1>3 DEF NoDirty, DirtyBefore
  <2>3. HeadSound(H, u, n, v)
    BY <1>3 DEF HeadSound
  <2>4. LastPending(M, H, c, u, v)
    BY <1>9 DEF LastPending
  <2> QED BY <1>3, <2>1, <2>2, <2>3, <2>4 DEF RamOrder
<1>11. ASSUME StartOf(n) # 0, NEW k \in L, k # ChunkOf(n), Base(k) >= H
       PROVE  Base(ChunkOf(n)) < Base(k)
  <2>1. PICK q : q = ChunkOf(n)
    OBVIOUS
  <2>2. /\ q \in Nat \ {0} /\ StartOf(n) \in 0 .. ChunkBytes - 1
        /\ n = Base(q) + StartOf(n)
    BY <2>1, ChunkOfIs
  <2>3. Base(q) \in Nat /\ (Base(k) <= Base(q) => Base(k) + ChunkBytes <= Base(q))
    BY <1>7, <1>11, <2>1, <2>2, BaseOrder
  <2>4. Base(q) < n
    BY <1>11, <2>2, <2>3, Bounds
  <2>5. CASE Base(k) >= n
    BY <1>7, <2>1, <2>3, <2>4, <2>5
  <2>6. CASE Pending(c, k)
    <3>1. n <= Base(k) + ChunkBytes
      BY <1>9, <1>11, <2>6
    <3> QED BY <1>7, <2>1, <2>3, <2>4, <3>1, Bounds
  <2> QED BY <1>8, <2>5, <2>6
<1> QED BY <1>10, <1>11

(* Steps between which nothing of the order is open.                       *)
LEMMA CalmSteps ==
  ASSUME NEW t, NEW w, NEW fs, fs = Len(w), fs \in Nat,
         \/ t = <<>>
         \/ /\ t # <<>>
            /\ \/ Head(t).a \in {"flush", "prune"}
               \/ Head(t).a \in {"hdr", "hole"} /\ Head(t).n = 0
               \/ Head(t).a = "write" /\ Head(t).off \in 0 .. fs
               \/ Head(t).a = "grow" /\ Head(t).n \in 0 .. fs
  PROVE  Calm(t, w)
<1>1. \A y \in 0 .. fs : ~(y > Len(w))
  OBVIOUS
<1> QED BY <1>1 DEF Calm, CutPoint, Torn, Reset, Skips

-----------------------------------------------------------------------------
(* Steps that keep the order.                                              *)

InOrder(l, st, c, t, w, d) ==
  /\ TreeOrder(l)
  /\ RamOrder(LooseChunks(l), HeadSize(l), st, c, t, w)
  /\ DirtyKnown(c, t, d)

(* A device whose cache holds no chunk, or one that every write goes to.   *)
OneEntry == param.n_caches = 0 \/ (param.n_caches = 1 /\ ~param.bypass)

OrderState ==
  AllWell /\ OneEntry /\ InOrder(log, stored_size, cache, todo, want, dirty)

LEMMA LooseIn ==
  ASSUME NEW l
  PROVE  LooseChunks(l) \subseteq Chunks
  BY DEF LooseChunks

LEMMA HeadSizeIs ==
  ASSUME NEW l \in Seq(Recs), NEW st, NEW P, InRam(l, st, P)
  PROVE  HeadSize(l) \in 0 .. MaxSize
<1>1. PICK h \in 1 .. Len(l) : IsHead(l, h)
  BY DEF InRam
<1>2. HeadSize(l) = l[h].size
  BY <1>1, HeadIs
<1>3. l[h] \in Recs /\ l[h].chunk = 0
  BY <1>1, LogIs DEF IsHead
<1> QED BY <1>2, <1>3, RecTypes

LEMMA SizesAre ==
  ASSUME NEW l \in Seq(Recs), NEW st \in 0 .. MaxSize, NEW P, InRam(l, st, P),
         NEW n \in Nat
  PROVE  Sizes3(LooseChunks(l), HeadSize(l), st, n)
<1>1. HeadSize(l) \in 0 .. MaxSize
  BY HeadSizeIs
<1> QED BY <1>1, LooseIn, Bounds DEF Sizes3

LEMMA AloneIs ==
  ASSUME NEW c \in Seq(Entries), Len(c) <= 1
  PROVE  Alone(c)
<1>1. Len(c) \in Nat
  OBVIOUS
<1>2. \A i, j \in 1 .. Len(c) : i = j
  BY <1>1
<1> QED BY <1>2 DEF Alone, Held

LEMMA OneAlone ==
  ASSUME OneEntry, NEW c \in Seq(Entries), Len(c) <= param.n_caches
  PROVE  Alone(c) /\ Len(c) <= 1
<1>1. Len(c) \in Nat
  OBVIOUS
<1>2. Len(c) <= 1
  BY <1>1 DEF OneEntry
<1> QED BY <1>2, AloneIs

(* What the step lemmas start from.                                        *)
LEMMA OrderIs ==
  ASSUME OrderState, NEW L, L = LooseChunks(log), NEW H, H = HeadSize(log)
  PROVE  /\ Base0 /\ Alone(cache) /\ Len(cache) <= 1
         /\ Sizes3(L, H, stored_size, Len(want)) /\ Len(want) \in Nat
         /\ TreeOrder(log) /\ RamOrder(L, H, stored_size, cache, todo, want)
         /\ DirtyKnown(cache, todo, dirty)
<1>1. Base0
  BY Base0Is DEF OrderState
<1>2. Alone(cache) /\ Len(cache) <= 1
  BY <1>1, OneAlone DEF OrderState, Base0
<1>3. Len(want) \in Nat
  BY <1>1, SeqIs DEF Base0
<1>4. Sizes3(L, H, stored_size, Len(want))
  BY <1>1, <1>3, SizesAre DEF Base0
<1> QED BY <1>1, <1>2, <1>3, <1>4 DEF OrderState, InOrder

(* What they end with, between two steps that leave nothing open.          *)
LEMMA Settled ==
  ASSUME NEW l, TreeOrder(l), NEW H, HeadSize(l) = H,
         NEW M, LooseChunks(l) = M,
         NEW st, NEW c, NEW t, NEW w, NEW d, Sizes3(M, H, st, Len(w)),
         Calm(t, w), Quiet(M, H, st, c, Len(w)), DirtyKnown(c, t, d)
  PROVE  InOrder(l, st, c, t, w, d)
  BY QuietIs DEF InOrder

-----------------------------------------------------------------------------
(* The calls.                                                              *)

LEMMA BeginOrder ==
  ASSUME OrderState, NEW u, Begin(u), Calm(u, want)
  PROVE  InOrder(log', stored_size', cache', todo', want', dirty')
<1>1. PICK L, H : L = LooseChunks(log) /\ H = HeadSize(log)
  OBVIOUS
<1>2. /\ todo' = u /\ log' = log /\ stored_size' = stored_size
      /\ cache' = cache /\ want' = want /\ dirty' = dirty /\ todo = <<>>
  BY DEF Begin
<1>3. /\ Sizes3(L, H, stored_size, Len(want)) /\ Len(want) \in Nat
      /\ TreeOrder(log) /\ RamOrder(L, H, stored_size, cache, todo, want)
      /\ DirtyKnown(cache, todo, dirty)
  BY <1>1, OrderIs
<1>4. Calm(todo, want)
  BY <1>2, <1>3, CalmSteps
<1>5. Quiet(L, H, stored_size, cache, Len(want))
  BY <1>3, <1>4, QuietIs
<1>6. DirtyKnown(cache, u, dirty)
  BY <1>2, <1>3 DEF DirtyKnown
<1>7. InOrder(log, stored_size, cache, u, want, dirty)
  BY <1>1, <1>3, <1>5, <1>6, Settled
<1> QED BY <1>2, <1>7

LEMMA WrFileOrder ==
  ASSUME OrderState, NEW wr \in Writes, NEW v \in Vals,
         WrFile(wr[1], [i \in 1 .. wr[2] |-> v])
  PROVE  InOrder(log', stored_size', cache', todo', want', dirty')
<1>1. PICK off, n : off = wr[1] /\ n = wr[2]
  OBVIOUS
<1>2. off \in Nat /\ n \in Nat \ {0} /\ off + n <= MaxSize
  BY <1>1, CallAssumption
<1>3. PICK b : b = [i \in 1 .. n |-> v]
  OBVIOUS
<1>4. b \in Seq(Byte) /\ Len(b) = n
  <2>1. b \in [1 .. n -> Byte] /\ n \in Nat
    BY <1>2, <1>3 DEF Byte
  <2> QED BY <2>1, FunctionSeq
<1>5. PICK room \in BOOLEAN : Begin(HandleHole(off, room) \o <<Write(off, b, -1, 0)>>)
  BY <1>1, <1>3 DEF WrFile
<1>6. PICK u : u = HandleHole(off, room) \o <<Write(off, b, -1, 0)>>
  OBVIOUS
<1>7. /\ want \in Seq(Byte) /\ file_size \in 0 .. MaxSize /\ Len(want) = file_size
      /\ file_size \in Nat
  BY <1>5, OrderIs, Bounds DEF Base0, Begin
<1>8. /\ Len(b) > 0 /\ off + Len(b) <= MaxSize /\ off \in 0 .. MaxSize
      /\ -1 \in -1 .. MaxSize /\ 0 \in 0 .. MaxSize
  BY <1>2, <1>4, Bounds
<1>9. PICK x \in Steps :
        /\ x = Write(off, b, -1, 0) /\ x \in Writing /\ x.a = "write" /\ x.off = off
        /\ x.b = b /\ x.fill = -1 /\ x.more = 0
  BY <1>4, <1>8, WritingIs
<1>10. PICK r \in Seq(Steps) : r = <<x>> /\ r # <<>> /\ Head(r) = x /\ Tail(r) = <<>>
  BY One
<1>11. Rest(r) /\ Goal(r) = off
  BY <1>8, <1>9, <1>10 DEF Call, Rest, Goal
<1>12. u = HandleHole(off, room) \o r
  BY <1>6, <1>9, <1>10
<1>13. Calm(u, want)
  <2>1. CASE off <= file_size
    <3>1. u = r
      BY <1>7, <1>8, <1>12, <2>1, HoleIs
    <3>2. Head(u).off \in 0 .. file_size
      BY <1>8, <1>9, <1>10, <2>1, <3>1
    <3> QED BY <1>7, <1>9, <1>10, <3>1, <3>2, CalmSteps
  <2>2. CASE off > file_size
    <3>1. PICK y \in Steps :
            /\ HandleHole(off, room) = <<y>>
            /\ \/ y = Step("hole", 0)
               \/ /\ Fills(y, r) /\ y.a = "write" /\ y.off = file_size
                  /\ y.fill = file_size
      BY <1>7, <1>8, <1>11, <2>2, HoleStep
    <3>2. u # <<>> /\ Head(u) = y
      BY <1>12, <3>1, Prefixed
    <3>3. y = Step("hole", 0) => y.a = "hole" /\ y.n = 0
      BY StepHas
    <3>4. file_size \in 0 .. file_size
      BY <1>7
    <3> QED BY <1>7, <3>1, <3>2, <3>3, <3>4, CalmSteps
  <2> QED BY <1>7, <1>8, <2>1, <2>2
<1> QED BY <1>5, <1>6, <1>13, BeginOrder

LEMMA FlushCalm ==
  ASSUME NEW w \in Seq(Byte), NEW n \in {0, 1}, NEW r \in Seq(Steps),
         NEW u, u = <<Step("flush", n)>> \o r
  PROVE  Calm(u, w)
<1>1. PICK x \in Steps : x = Step("flush", n) /\ x.a = "flush"
  BY SmallSteps, StepHas
<1>2. u # <<>> /\ Head(u) = x
  BY <1>1, Prefixed
<1>3. Len(w) \in Nat
  BY SeqIs
<1> QED BY <1>1, <1>2, <1>3, CalmSteps

LEMMA FlushFileOrder ==
  ASSUME OrderState, NEW data_sync \in BOOLEAN, FlushFile(data_sync)
  PROVE  InOrder(log', stored_size', cache', todo', want', dirty')
<1>1. PICK r : r = (IF data_sync THEN <<>> ELSE <<Step("hdr", 0)>>)
  OBVIOUS
<1>2. PICK u : u = <<Step("flush", 0)>> \o r
  OBVIOUS
<1>3. Begin(u)
  BY <1>1, <1>2 DEF FlushFile
<1>4. r \in Seq(Steps)
  <2>1. PICK h \in Steps : h = Step("hdr", 0)
    BY SmallSteps
  <2> QED BY <1>1, <2>1
<1>5. want \in Seq(Byte)
  BY OrderIs DEF Base0
<1>6. Calm(u, want)
  BY <1>2, <1>4, <1>5, FlushCalm
<1> QED BY <1>3, <1>6, BeginOrder

LEMMA ResizeFileOrder ==
  ASSUME OrderState, NEW new \in Sizes, ResizeFile(new)
  PROVE  InOrder(log', stored_size', cache', todo', want', dirty')
<1>1. new \in 0 .. MaxSize /\ new # file_size
  BY CallAssumption DEF ResizeFile
<1>2. PICK room \in BOOLEAN :
        Begin(<<Step("flush", 1)>> \o
             (IF new > file_size
              THEN HandleHole(new, room) \o <<Step("grow", new)>>
                   \o <<Step("hdr", 0)>>
              ELSE <<Step("prune", new), Step("hdr", 1)>>))
  BY DEF ResizeFile
<1>3. PICK r : r = (IF new > file_size
                    THEN HandleHole(new, room) \o <<Step("grow", new)>>
                         \o <<Step("hdr", 0)>>
                    ELSE <<Step("prune", new), Step("hdr", 1)>>)
  OBVIOUS
<1>4. PICK u : u = <<Step("flush", 1)>> \o r
  OBVIOUS
<1>5. /\ want \in Seq(Byte) /\ file_size \in 0 .. MaxSize /\ Len(want) = file_size
      /\ file_size \in Nat
  BY <1>2, OrderIs, Bounds DEF Base0, Begin
<1>6. r \in Seq(Steps)
  <2>1. CASE new > file_size
    <3>1. PICK g, h \in Steps : g = Step("grow", new) /\ h = Step("hdr", 0) /\ g.n = new
                                /\ g.a = "grow"
      BY <1>1, SmallSteps, StepHas
    <3>2. PICK e \in Seq(Steps) : e = <<h>>
      BY One
    <3>3. PICK s \in Seq(Steps) : s = <<g>> \o e /\ s # <<>> /\ Head(s) = g /\ Tail(s) = e
      BY <3>1, <3>2, Prefixed
    <3>4. Rest(s) /\ Goal(s) = new
      BY <1>1, <3>1, <3>2, <3>3 DEF Growth, Rest, Goal
    <3>5. PICK y \in Steps : HandleHole(new, room) = <<y>>
      BY <1>1, <1>5, <2>1, <3>3, <3>4, HoleStep
    <3>6. r = (<<y>> \o <<g>>) \o <<h>>
      BY <1>3, <2>1, <3>1, <3>5
    <3> QED BY <3>6
  <2>2. CASE ~(new > file_size)
    <3>1. PICK p, h \in Steps : p = Step("prune", new) /\ h = Step("hdr", 1)
      BY <1>1, SmallSteps
    <3>2. r = <<p, h>>
      BY <1>3, <2>2, <3>1
    <3> QED BY <3>2
  <2> QED BY <2>1, <2>2
<1>7. Calm(u, want)
  BY <1>4, <1>5, <1>6, FlushCalm
<1>8. Begin(u)
  BY <1>2, <1>3, <1>4
<1> QED BY <1>7, <1>8, BeginOrder

Before(l, k) ==
  \A j \in LooseChunks(l) : j # k /\ Base(j) >= HeadSize(l) => Base(k) < Base(j)

Kept(l, m, k) ==
  /\ TreeOrder(m) /\ HeadSize(m) = HeadSize(l)
  /\ LooseChunks(m) \subseteq LooseChunks(l) \ {k}

LEMMA OrderAdd ==
  ASSUME NEW l \in Seq(Recs), TreeOrder(l),
         NEW k \in Nat \ {0}, NEW d, NEW n, NEW x, Written(x, k, d, n), Before(l, k)
  PROVE  Kept(l, Program(l, x), k)
<1>1. x \in Recs /\ x.chunk = k /\ x.chunk # 0 /\ x.live = TRUE
  BY DEF Written
<1>2. PICK h \in 1 .. Len(l) : IsHead(l, h) /\ Behind(l, h) /\ Stored(l, h)
  BY DEF TreeOrder
<1>3. HeadSize(l) = l[h].size
  BY <1>2, HeadIs
<1>4. ASSUME NEW i \in 1 .. Len(l), Loose(l, i), Base(l[i].chunk) >= l[h].size,
             l[i].chunk # x.chunk
      PROVE  Base(x.chunk) < Base(l[i].chunk)
  BY <1>1, <1>3, <1>4, LooseIs DEF Before
<1>5. PICK m : m = Program(l, x)
  OBVIOUS
<1>6. /\ TreeOrder(m) /\ HeadSize(m) = HeadSize(l)
      /\ LooseChunks(m) \subseteq LooseChunks(l) \ {x.chunk}
  BY <1>1, <1>2, <1>4, <1>5, OrderData
<1> QED BY <1>1, <1>5, <1>6 DEF Kept

(* The one dirty entry goes to the flash.                                  *)
LEMMA OrderOut ==
  ASSUME NEW l \in Seq(Recs), TreeOrder(l), NEW L, L = LooseChunks(l),
         NEW H, H = HeadSize(l), NEW st, NEW n, Sizes3(L, H, st, n),
         NEW c, CacheOK(l, c), Alone(c), Quiet(L, H, st, c, n),
         NEW e \in Held(c), e.dirty,
         NEW m, m = Program(l, Data(e.chunk, e.data, e.n)),
         NEW d, NoDirty(d)
  PROVE  /\ TreeOrder(m) /\ HeadSize(m) = H
         /\ Quiet(LooseChunks(m), H, Larger(st, Base(e.chunk) + e.n), d, n)
<1>1. /\ e.chunk \in Chunks /\ e.chunk \in Nat \ {0} /\ e.data \in ChunkData
      /\ e.n \in 0 .. ChunkBytes /\ EntryOK(l, e)
  BY CacheHeld, EntryIs
<1>2. e.n > 0 /\ ChunkOK(e)
  BY <1>1 DEF EntryOK
<1>3. /\ e.n \in 1 .. ChunkBytes /\ e.n \in Nat /\ e.n <= ChunkBytes
      /\ Base(e.chunk) + e.n <= MaxSize /\ ZeroBehind(e.data, e.n)
  <2>1. e.n \in 1 .. ChunkBytes /\ e.n \in Nat /\ e.n <= ChunkBytes
    BY <1>1, <1>2, Bounds
  <2> QED BY <1>2, <2>1 DEF ChunkOK, ZeroBehind
<1>4. PICK x : x = Data(e.chunk, e.data, e.n)
  OBVIOUS
<1>5. Written(x, e.chunk, e.data, e.n)
  BY <1>1, <1>3, <1>4, DataIs
<1>6. x \in Recs /\ x.chunk = e.chunk /\ x.chunk # 0 /\ x.live = TRUE
  BY <1>1, <1>5 DEF Written
<1>7. DirtyAt(c, e.chunk)
  BY DEF DirtyAt, Alone
<1>8. \A k \in L : k # e.chunk => Base(e.chunk) < Base(k)
  <2>1. {} \subseteq L \ {e.chunk}
    OBVIOUS
  <2> QED BY <1>1, <1>3, <1>7, <2>1, QuietOut
<1>9. Before(l, e.chunk)
  BY <1>8 DEF Before
<1>10. TreeOrder(m) /\ HeadSize(m) = H /\ LooseChunks(m) \subseteq L \ {e.chunk}
  <2>1. Kept(l, Program(l, x), e.chunk)
    BY <1>1, <1>5, <1>9, OrderAdd
  <2> QED BY <1>4, <2>1 DEF Kept
<1>11. Quiet(LooseChunks(m), H, Larger(st, Base(e.chunk) + e.n), d, n)
  BY <1>1, <1>3, <1>7, <1>10, QuietOut
<1> QED BY <1>10, <1>11

LEMMA NewSizes ==
  ASSUME NEW L, NEW H, NEW st, NEW n, Sizes3(L, H, st, n), NEW s \in Nat, NEW l
  PROVE  /\ Sizes3(LooseChunks(l), H, s, n)
         /\ Sizes3(LooseChunks(l), st, s, n)
  BY LooseIn DEF Sizes3

(* What follows the flush.                                                 *)
LEMMA FlushedCalm ==
  ASSUME NEW t, NEW fs, NEW w, NEW c, Plan(t, fs, w, c), t # <<>>, Head(t).a = "flush"
  PROVE  Calm(Tail(t), w)
<1>1. AtFlush(t, fs) /\ Len(w) = fs /\ fs \in 0 .. MaxSize /\ fs \in Nat /\ fs \in 0 .. fs
  BY PlanCases, Bounds
<1>2. /\ Step("hdr", 0).a = "hdr" /\ Step("hdr", 0).n = 0
      /\ Step("hole", 0).a = "hole" /\ Step("hole", 0).n = 0
      /\ \A n : Step("prune", n).a = "prune"
  BY StepHas
<1>3. PICK u : u = Tail(t)
  OBVIOUS
<1>4. PICK h : h = Step("hdr", 0)
  OBVIOUS
<1>5. CASE u \in {<<>>, <<h>>}
  <2>1. u = <<>> \/ (u # <<>> /\ Head(u) = h)
    BY <1>5
  <2> QED BY <1>1, <1>2, <1>3, <1>4, <2>1, CalmSteps
<1>6. CASE u # <<>> /\ \E n \in 0 .. fs : Head(u) = Step("prune", n)
  BY <1>1, <1>2, <1>3, <1>6, CalmSteps
<1>7. CASE u # <<>> /\ Head(u) = Step("hole", 0)
  BY <1>1, <1>2, <1>3, <1>7, CalmSteps
<1>8. CASE u # <<>> /\ Fills(Head(u), Tail(u)) /\ Head(u).off = fs
  <2>1. Head(u).a = "write"
    BY <1>8 DEF Fills, Writing
  <2> QED BY <1>1, <1>3, <1>8, <2>1, CalmSteps
<1> QED BY <1>1, <1>3, <1>4, <1>5, <1>6, <1>7, <1>8 DEF AtFlush

LEMMA FlushCacheOrder ==
  ASSUME OrderState, FlushFileCache
  PROVE  InOrder(log', stored_size', cache', todo', want', dirty')
<1>1. PICK L, H : L = LooseChunks(log) /\ H = HeadSize(log)
  OBVIOUS
<1>2. /\ todo # <<>> /\ Head(todo).a = "flush"
      /\ want' = want /\ dirty' = dirty /\ file_size' = file_size
  BY DEF FlushFileCache, Now
<1>3. /\ Base0 /\ Alone(cache)
      /\ Sizes3(L, H, stored_size, Len(want)) /\ Len(want) \in Nat
      /\ TreeOrder(log) /\ RamOrder(L, H, stored_size, cache, todo, want)
      /\ DirtyKnown(cache, todo, dirty)
  BY <1>1, OrderIs
<1>4. /\ log \in Seq(Recs) /\ stored_size \in 0 .. MaxSize
      /\ CacheOK(log, cache) /\ cache \in Seq(Entries) /\ Distinct(cache)
      /\ Plan(todo, file_size, want, cache) /\ file_size = Len(want)
  BY <1>2, <1>3 DEF Base0
<1>5. Calm(todo, want)
  BY <1>2, <1>3, CalmSteps
<1>6. Quiet(L, H, stored_size, cache, Len(want))
  BY <1>3, <1>5, QuietIs
<1>7. (\E e \in Held(cache) : e.dirty) => dirty
  BY <1>2, <1>3 DEF DirtyKnown
<1>8. ASSUME NEW i \in DOMAIN cache, cache[i].dirty,
             log' = Program(log, Data(cache[i].chunk, cache[i].data, cache[i].n)),
             stored_size' = Larger(stored_size, Base(cache[i].chunk) + cache[i].n),
             cache' = [cache EXCEPT ![i].dirty = FALSE], todo' = todo
      PROVE  InOrder(log', stored_size', cache', todo', want', dirty')
  <2>1. PICK e, m, s, d :
          /\ e = cache[i] /\ m = Program(log, Data(e.chunk, e.data, e.n))
          /\ s = Larger(stored_size, Base(e.chunk) + e.n)
          /\ d = [cache EXCEPT ![i].dirty = FALSE]
    OBVIOUS
  <2>2. m = log' /\ s = stored_size' /\ d = cache'
    BY <1>8, <2>1
  <2>3. i \in 1 .. Len(cache) /\ e \in Held(cache) /\ e.dirty
    BY <1>4, <1>8, <2>1, CacheIs DEF Held
  <2>4. NoDirty(d)
    <3>1. Held(d) = (Held(cache) \ {e}) \cup {Cleaned(e)}
      BY <1>4, <2>1, <2>3, CleanHeld
    <3>2. ~Cleaned(e).dirty
      BY <1>4, <2>3, CacheIs DEF Cleaned, Entries
    <3> QED BY <1>3, <2>3, <3>1, <3>2 DEF NoDirty, Alone
  <2>5. /\ TreeOrder(m) /\ HeadSize(m) = H
        /\ Quiet(LooseChunks(m), H, s, d, Len(want))
    BY <1>1, <1>3, <1>4, <1>6, <2>1, <2>3, <2>4, OrderOut
  <2>6. s \in Nat
    <3>1. e.chunk \in Nat \ {0} /\ e.n \in Nat
      BY <1>4, <2>3, CacheIs, EntryIs, Bounds
    <3>2. Base(e.chunk) \in Nat
      BY <3>1, BaseOrder
    <3>3. Base(e.chunk) + e.n \in Nat /\ stored_size \in Nat
      BY <1>3, <3>1, <3>2 DEF Sizes3
    <3> QED BY <2>1, <3>3, LargerIs
  <2>7. Sizes3(LooseChunks(m), H, s, Len(want))
    BY <1>3, <2>6, NewSizes
  <2>8. DirtyKnown(d, todo, dirty)
    BY <2>4 DEF NoDirty, DirtyKnown
  <2>9. InOrder(m, s, d, todo, want, dirty)
    BY <1>5, <2>5, <2>7, <2>8, Settled
  <2> QED BY <1>2, <1>8, <2>2, <2>9
<1>9. ASSUME \A j \in DOMAIN cache : ~cache[j].dirty,
             cache' = (IF Now.n = 1 THEN <<>> ELSE cache), todo' = Tail(todo),
             log' = log, stored_size' = stored_size
      PROVE  InOrder(log', stored_size', cache', todo', want', dirty')
  <2>1. PICK d, u : d = cache' /\ u = todo'
    OBVIOUS
  <2>2. NoDirty(cache)
    BY <1>4, <1>9, CacheIs DEF NoDirty, Held
  <2>3. NoDirty(d)
    BY <1>9, <2>1, <2>2, NoCache DEF NoDirty
  <2>4. Quiet(L, H, stored_size, d, Len(want))
    BY <1>6, <2>2, <2>3, QuietClean
  <2>5. Calm(u, want)
    BY <1>2, <1>3, <1>4, <1>9, <2>1, FlushedCalm
  <2>6. DirtyKnown(d, u, dirty)
    BY <2>3 DEF NoDirty, DirtyKnown
  <2>7. InOrder(log, stored_size, d, u, want, dirty)
    BY <1>1, <1>3, <2>4, <2>5, <2>6, Settled
  <2> QED BY <1>2, <1>9, <2>1, <2>7
<1> QED BY <1>8, <1>9 DEF FlushFileCache

LEMMA UpdateOhOrder ==
  ASSUME OrderState, UpdateOh
  PROVE  InOrder(log', stored_size', cache', todo', want', dirty')
<1>1. PICK L, H : L = LooseChunks(log) /\ H = HeadSize(log)
  OBVIOUS
<1>2. PICK st, P : st = stored_size /\ P = Limit(todo, stored_size)
  OBVIOUS
<1>3. /\ Base0 /\ Alone(cache)
      /\ Sizes3(L, H, st, Len(want)) /\ Len(want) \in Nat /\ st \in Nat
      /\ RamOrder(L, H, st, cache, todo, want)
      /\ DirtyKnown(cache, todo, dirty)
  BY <1>1, <1>2, OrderIs DEF Sizes3
<1>4. /\ log \in Seq(Recs) /\ st \in 0 .. MaxSize /\ InRam(log, st, P)
      /\ Plan(todo, file_size, want, cache) /\ cache \in Seq(Entries)
  BY <1>2, <1>3 DEF Base0
<1>5. P \in 0 .. MaxSize
  BY <1>2, Limits DEF OrderState
<1>6. PICK u, b : u = Tail(todo) /\ b = (Head(todo).a = "hole")
  OBVIOUS
<1>6a. PICK m : m = Program(log, Hdr(st, b))
  OBVIOUS
<1>7. /\ todo # <<>> /\ Head(todo).a \in {"hdr", "hole"}
      /\ want' = want /\ cache' = cache /\ stored_size' = st /\ todo' = u
      /\ log' = m
      /\ dirty' = (dirty /\ \E i \in DOMAIN cache : cache[i].dirty)
  BY <1>2, <1>6, <1>6a DEF UpdateOh, Now
<1>8. b \in BOOLEAN
  BY <1>6
<1>9. /\ TreeOrder(m) /\ HeadSize(m) = st
      /\ LooseChunks(m) \subseteq {k \in L : b => Base(k) < st}
  BY <1>1, <1>4, <1>5, <1>8, <1>6a, OrderHdr
<1>10. PICK M : M = LooseChunks(m) /\ M \subseteq L
  BY <1>9
<1>11. ASSUME NEW e \in Held(cache), e.dirty
       PROVE  dirty'
  <2>1. dirty
    BY <1>3, <1>7, <1>11 DEF DirtyKnown
  <2>2. \E i \in DOMAIN cache : cache[i].dirty
    BY <1>4, <1>11, CacheIs DEF Held
  <2> QED BY <1>7, <2>1, <2>2
<1>12. DirtyKnown(cache, u, dirty')
  BY <1>11 DEF DirtyKnown
<1>13. CASE Head(todo).a = "hdr"
  <2>1. Quiet(M, st, st, cache, Len(want))
    BY <1>3, <1>7, <1>10, <1>13, OrderHeader
  <2>2. u = <<>>
    <3>1. AtHdr(todo)
      BY <1>4, <1>7, <1>13, PlanCases
    <3> QED BY <1>6, <3>1 DEF AtHdr
  <2>3. Calm(u, want)
    BY <1>3, <2>2, CalmSteps
  <2>4. Sizes3(M, st, st, Len(want))
    BY <1>3, <1>10, NewSizes
  <2>5. InOrder(m, st, cache, u, want, dirty')
    BY <1>9, <1>10, <1>12, <2>1, <2>3, <2>4, Settled
  <2> QED BY <1>7, <2>5
<1>14. CASE Head(todo).a = "hole"
  <2>1. M \subseteq {k \in L : Base(k) < st}
    BY <1>6, <1>9, <1>10, <1>14
  <2>2. Rest(u)
    <3>1. AtHole(todo, file_size)
      BY <1>4, <1>7, <1>14, PlanCases
    <3> QED BY <1>6, <3>1 DEF AtHole
  <2>3. ~Reset(u)
    <3>1. \A n : Step("grow", n).a = "grow"
      BY StepHas
    <3>2. Head(u).a \in {"write", "grow"}
      BY <2>2, <3>1 DEF Rest, Call, Growth, Writing
    <3> QED BY <3>2 DEF Reset
  <2>4. RamOrder(M, st, st, cache, u, want)
    BY <1>3, <1>7, <1>14, <2>1, <2>3, OrderHole
  <2>5. InOrder(m, st, cache, u, want, dirty')
    BY <1>9, <1>10, <1>12, <2>4 DEF InOrder
  <2> QED BY <1>7, <2>5
<1> QED BY <1>7, <1>13, <1>14

LEMMA GrowOrder ==
  ASSUME OrderState, Grow
  PROVE  InOrder(log', stored_size', cache', todo', want', dirty')
<1>1. PICK L, H : L = LooseChunks(log) /\ H = HeadSize(log)
  OBVIOUS
<1>2. PICK n, v, u : n = Head(todo).n /\ v = want' /\ u = todo'
  OBVIOUS
<1>3. /\ Base0 /\ Sizes3(L, H, stored_size, Len(want)) /\ Len(want) \in Nat
      /\ TreeOrder(log) /\ RamOrder(L, H, stored_size, cache, todo, want)
      /\ DirtyKnown(cache, todo, dirty)
  BY <1>1, OrderIs
<1>4. /\ todo # <<>> /\ Head(todo).a = "grow" /\ u = Tail(todo)
      /\ v = want \o Zeros(n - Len(want))
      /\ log' = log /\ stored_size' = stored_size /\ cache' = cache /\ dirty' = dirty
  BY <1>2 DEF Grow, Now
<1>5. Plan(todo, file_size, want, cache)
  BY <1>3 DEF Base0
<1>6. AtGrow(todo, file_size) /\ Len(want) = file_size
  BY <1>4, <1>5, PlanCases
<1>7. u = <<Step("hdr", 0)>> /\ file_size <= n /\ n \in Nat
  <2>1. u = <<Step("hdr", 0)>>
    BY <1>4, <1>6 DEF AtGrow, Growth
  <2>2. file_size <= n
    BY <1>2, <1>4, <1>6 DEF AtGrow, Goal
  <2>3. n \in 0 .. MaxSize
    <3>1. PICK j \in 0 .. MaxSize : Head(todo) = Step("grow", j)
      BY <1>6 DEF AtGrow, Growth
    <3>2. n = j
      BY <1>2, <3>1, StepHas
    <3> QED BY <3>1, <3>2
  <2> QED BY <2>1, <2>2, <2>3, Bounds
<1>8. u # <<>> /\ Head(u).a = "hdr" /\ Head(u).n = 0
  <2>1. PICK h : h = Step("hdr", 0) /\ h.a = "hdr" /\ h.n = 0
    BY StepHas
  <2> QED BY <1>7, <2>1
<1>9. Len(v) = n
  <2>1. Plan(u, n, v, cache)
    BY <1>2, <1>4, <1>5, PlanGrow
  <2> QED BY <1>8, <2>1 DEF Plan
<1>10. Larger(Len(want), n) = n
  BY <1>3, <1>6, <1>7 DEF Larger
<1>11. Quiet(L, H, stored_size, cache, n)
  <2>1. Quiet(L, H, stored_size, cache, Larger(Len(want), n))
    BY <1>2, <1>3, <1>4, <1>7, GapQuiet
  <2> QED BY <1>10, <2>1
<1>12. Calm(u, v)
  BY <1>7, <1>8, <1>9, CalmSteps
<1>13. DirtyKnown(cache, u, dirty)
  BY <1>3, <1>4 DEF DirtyKnown
<1>14. Sizes3(L, H, stored_size, Len(v))
  BY <1>3, <1>7, <1>9 DEF Sizes3
<1>6a. InOrder(log, stored_size, cache, u, v, dirty)
  BY <1>1, <1>3, <1>9, <1>11, <1>12, <1>13, <1>14, Settled
<1> QED BY <1>2, <1>4, <1>6a

LEMMA PruneOrder ==
  ASSUME OrderState, PruneChunks
  PROVE  InOrder(log', stored_size', cache', todo', want', dirty')
<1>1. PICK L, H : L = LooseChunks(log) /\ H = HeadSize(log)
  OBVIOUS
<1>2. PICK n, m, u : n = Head(todo).n /\ m = log' /\ u = todo'
  OBVIOUS
<1>3. /\ Base0 /\ Sizes3(L, H, stored_size, Len(want)) /\ Len(want) \in Nat
      /\ TreeOrder(log) /\ RamOrder(L, H, stored_size, cache, todo, want)
      /\ DirtyKnown(cache, todo, dirty)
  BY <1>1, OrderIs
<1>4. /\ todo # <<>> /\ Head(todo).a = "prune"
      /\ m = Drop(log, {j \in Chunks : Base(j) >= n})
      /\ u = <<Step("pad", n)>> \o Tail(todo)
      /\ stored_size' = stored_size /\ cache' = cache /\ want' = want /\ dirty' = dirty
  BY <1>2 DEF PruneChunks, Now
<1>5. /\ log \in Seq(Recs) /\ Plan(todo, file_size, want, cache)
  BY <1>3 DEF Base0
<1>6. /\ CutAt(todo, file_size, want, cache, n)
      /\ u # <<>> /\ Head(u).a = "pad" /\ Head(u).n = n
  BY <1>2, <1>4, <1>5, PlanPrune
<1>7. n \in Nat
  BY <1>6 DEF CutAt
<1>8. /\ TreeOrder(m) /\ HeadSize(m) = H
      /\ \A k \in LooseChunks(m) : k \in L \/ Base(k) >= n
  BY <1>1, <1>3, <1>4, <1>5, OrderPrune, ZenonT(60)
<1>9. PICK M : M = LooseChunks(m) /\ M \subseteq Chunks
  BY LooseIn
<1>10. RamOrder(M, H, stored_size, cache, u, want)
  BY <1>3, <1>4, <1>6, <1>7, <1>8, <1>9, OrderPruning
<1>11. DirtyKnown(cache, u, dirty)
  BY <1>3, <1>4 DEF DirtyKnown
<1>12. InOrder(m, stored_size, cache, u, want, dirty)
  BY <1>8, <1>9, <1>10, <1>11 DEF InOrder
<1> QED BY <1>2, <1>4, <1>12

-----------------------------------------------------------------------------
(* Beside the calls.                                                       *)

LEMMA EraseOrder ==
  ASSUME OrderState, NEW i \in DOMAIN log, Erase(i), "cut" \notin Exposed
  PROVE  InOrder(log', stored_size', cache', todo', want', dirty')
<1>1. PICK l, st, P : l = log /\ st = stored_size /\ P = Limit(todo, stored_size)
  OBVIOUS
<1>2. /\ Base0 /\ TreeOrder(l)
      /\ RamOrder(LooseChunks(l), HeadSize(l), st, cache, todo, want)
      /\ DirtyKnown(cache, todo, dirty)
  BY <1>1, OrderIs
<1>3. /\ l \in Seq(Recs) /\ st \in 0 .. MaxSize /\ P \in 0 .. MaxSize /\ InRam(l, st, P)
  BY <1>1, <1>2, Limits DEF Base0, OrderState
<1>4. i \in 1 .. Len(l)
  BY <1>1, <1>3, LogIs
<1>5. ~l[i].live /\ log' = RemoveAt(l, i)
  BY <1>1 DEF Erase
<1>6. P = MaxSize \/ \A j \in 1 .. i - 1 : l[j].chunk # l[i].chunk
  BY <1>1, Limits DEF Erase, OrderState
<1>7. l[i].keep => \A j \in 1 .. i - 1 : l[j].live
  BY <1>1 DEF Erase, OlderDead
<1>8. PICK m : m = RemoveAt(l, i)
  OBVIOUS
<1>9. /\ TreeOrder(m) /\ HeadSize(m) = HeadSize(l)
      /\ LooseChunks(m) \subseteq LooseChunks(l)
  BY <1>2, <1>3, <1>4, <1>5, <1>6, <1>7, <1>8, OrderErase
<1>10. RamOrder(LooseChunks(m), HeadSize(m), st, cache, todo, want)
  BY <1>2, <1>9, OrderFewer
<1>11. InOrder(m, st, cache, todo, want, dirty)
  BY <1>2, <1>9, <1>10 DEF InOrder
<1>12. /\ log' = m /\ stored_size' = st /\ dirty' = dirty
       /\ cache' = cache /\ todo' = todo /\ want' = want
  BY <1>1, <1>5, <1>8 DEF Erase
<1> QED BY <1>11, <1>12

LEMMA GcOrder ==
  ASSUME OrderState, NEW i \in DOMAIN log, GcChunk(i)
  PROVE  InOrder(log', stored_size', cache', todo', want', dirty')
<1>1. PICK l, st, P : l = log /\ st = stored_size /\ P = Limit(todo, stored_size)
  OBVIOUS
<1>2. PICK L, H : L = LooseChunks(l) /\ H = HeadSize(l)
  OBVIOUS
<1>3. /\ Base0 /\ Sizes3(L, H, st, Len(want)) /\ TreeOrder(l)
      /\ RamOrder(L, H, st, cache, todo, want)
      /\ DirtyKnown(cache, todo, dirty)
  BY <1>1, <1>2, OrderIs
<1>4. /\ l \in Seq(Recs) /\ st \in 0 .. MaxSize /\ P \in 0 .. MaxSize /\ InRam(l, st, P)
  BY <1>1, <1>3, Limits DEF Base0, OrderState
<1>5. i \in 1 .. Len(l)
  BY <1>1, <1>4, LogIs
<1>6. /\ l[i].live
      /\ l[i].chunk = 0 => log' = Program(l, Hdr(st, FALSE))
      /\ l[i].chunk # 0 => log' = Program(l, l[i])
  BY <1>1 DEF GcChunk
<1>7. /\ stored_size' = st /\ dirty' = dirty
      /\ cache' = cache /\ todo' = todo /\ want' = want
  BY <1>1 DEF GcChunk
<1>8. CASE l[i].chunk = 0
  <2>1. PICK b : b = FALSE /\ b \in BOOLEAN
    OBVIOUS
  <2>2. PICK m : m = Program(l, Hdr(st, b))
    OBVIOUS
  <2>3. TreeOrder(m) /\ HeadSize(m) = st /\ LooseChunks(m) \subseteq L
    BY <1>2, <1>4, <2>1, <2>2, OrderHdr
  <2>4. RamOrder(LooseChunks(m), st, st, cache, todo, want)
    BY <1>3, <2>3, OrderNewHeader
  <2>5. InOrder(m, st, cache, todo, want, dirty)
    BY <1>3, <2>3, <2>4 DEF InOrder
  <2> QED BY <1>6, <1>7, <1>8, <2>1, <2>2, <2>5
<1>9. CASE l[i].chunk # 0
  <2>1. PICK m : m = Program(l, l[i])
    OBVIOUS
  <2>2. TreeOrder(m) /\ HeadSize(m) = H /\ LooseChunks(m) \subseteq L
    BY <1>2, <1>3, <1>4, <1>5, <1>6, <1>9, <2>1, OrderCopy
  <2>3. RamOrder(LooseChunks(m), H, st, cache, todo, want)
    BY <1>3, <2>2, OrderFewer
  <2>4. InOrder(m, st, cache, todo, want, dirty)
    BY <1>3, <2>2, <2>3 DEF InOrder
  <2> QED BY <1>6, <1>7, <1>9, <2>1, <2>4
<1> QED BY <1>8, <1>9

LEMMA ResizeDownOrder ==
  ASSUME OrderState, ResizeFileDown
  PROVE  InOrder(log', stored_size', cache', todo', want', dirty')
<1>1. PICK L, H : L = LooseChunks(log) /\ H = HeadSize(log)
  OBVIOUS
<1>2. PICK n, l, v : n = Head(todo).n /\ l = log' /\ v = want'
  OBVIOUS
<1>3. PICK u, k : u = todo' /\ k = ChunkOf(n)
  OBVIOUS
<1>4. /\ todo # <<>> /\ Head(todo).a = "pad" /\ u = Tail(todo)
      /\ v = SubSeq(want, 1, n)
      /\ stored_size' = n /\ cache' = cache /\ dirty' = dirty
  BY <1>2, <1>3 DEF ResizeFileDown, Now
<1>5. /\ StartOf(n) = 0 => l = log
      /\ StartOf(n) # 0 => l = Program(log, Data(k, LastChunk(n, k), n - Base(k)))
  BY <1>2, <1>3 DEF ResizeFileDown, Now
<1>6. /\ Base0 /\ Sizes3(L, H, stored_size, Len(want)) /\ TreeOrder(log)
      /\ RamOrder(L, H, stored_size, cache, todo, want)
      /\ DirtyKnown(cache, todo, dirty)
  BY <1>1, OrderIs
<1>7. /\ log \in Seq(Recs) /\ OneLive(log) /\ want \in Seq(Byte)
      /\ Plan(todo, file_size, want, cache)
  BY <1>6 DEF Base0
<1>8. /\ CutAt(todo, file_size, want, cache, n) /\ Plan(u, n, v, cache)
      /\ u # <<>> /\ Head(u).a \in {"hdr", "hole"} /\ Head(u).n = 1
  BY <1>2, <1>4, <1>7, PlanPad
<1>9. n \in Nat /\ n \in 0 .. MaxSize /\ n <= Len(want)
  BY <1>8, Bounds DEF CutAt
<1>10. Len(v) = n
  BY <1>8 DEF Plan
<1>11. Head(u).a = "hole" \/ NoDirty(cache)
  <2>1. AtCut(todo, file_size, want, cache)
    BY <1>4, <1>7, PlanCases
  <2>2. Head(u) = Step("hole", 1) \/ cache = <<>>
    BY <1>4, <2>1 DEF AtCut
  <2>3. Step("hole", 1).a = "hole"
    BY StepHas
  <2> QED BY <2>2, <2>3, NoCache DEF NoDirty
<1>12. \A M : M \subseteq L => RamOrder(M, H, n, cache, u, v)
  <2> SUFFICES ASSUME NEW M, M \subseteq L PROVE RamOrder(M, H, n, cache, u, v)
    OBVIOUS
  <2> QED BY <1>2, <1>4, <1>6, <1>8, <1>9, <1>10, <1>11, OrderCutting
<1>13. DirtyKnown(cache, u, dirty)
  BY <1>4, <1>6 DEF DirtyKnown
<1>14. TreeOrder(l) /\ HeadSize(l) = H /\ LooseChunks(l) \subseteq L
  <2>1. CASE StartOf(n) = 0
    BY <1>1, <1>5, <1>6, <2>1
  <2>2. CASE StartOf(n) # 0
    <3>1. /\ k \in Chunks /\ k \in Nat \ {0} /\ n - Base(k) \in 1 .. ChunkBytes
          /\ Base(k) \in Nat /\ Base(k) < n /\ Base(k) + (n - Base(k)) <= MaxSize
      BY <1>3, <1>9, <2>2, EndIs
    <3>2. PICK d : d = LastChunk(n, k)
      OBVIOUS
    <3>3. PICK m : m = n - Base(k) /\ m \in 1 .. ChunkBytes /\ Base(k) + m <= MaxSize
      BY <3>1
    <3>4. d \in ChunkData /\ \A q \in 1 .. ChunkBytes : q > m => d[q] = Zero
      <4>1. RdDataObj(log, k) \in ChunkData
        BY <1>7, <3>1, RdIsData
      <4>2. /\ LastChunk(n, k) \in ChunkData
            /\ \A q \in 1 .. ChunkBytes :
                 LastChunk(n, k)[q] =
                   IF q <= n - Base(k) THEN RdDataObj(log, k)[q] ELSE Zero
        BY <1>3, <1>9, <2>2, <4>1, LastChunkIs
      <4>3. m \in Nat
        BY <3>3, Bounds
      <4> QED BY <3>2, <3>3, <4>2, <4>3
    <3>5. ZeroBehind(d, m)
      <4>1. \A q \in m + 1 .. ChunkBytes : q \in 1 .. ChunkBytes /\ q > m
        BY <3>3, Bounds
      <4> QED BY <3>4, <4>1 DEF ZeroBehind
    <3>6. PICK x : x = Data(k, d, m)
      OBVIOUS
    <3>7. Written(x, k, d, m)
      BY <3>1, <3>3, <3>4, <3>5, <3>6, DataIs
    <3>8. Before(log, k)
      <4>1. {} \subseteq L
        OBVIOUS
      <4>2. \A j \in L : j # ChunkOf(n) /\ Base(j) >= H => Base(ChunkOf(n)) < Base(j)
        BY <1>2, <1>4, <1>6, <1>8, <1>9, <1>10, <1>11, <2>2, <4>1, OrderCutting
      <4> QED BY <1>1, <1>3, <4>2 DEF Before
    <3>9. Kept(log, Program(log, x), k)
      BY <1>6, <1>7, <3>1, <3>7, <3>8, OrderAdd
    <3>10. l = Program(log, x)
      BY <1>5, <2>2, <3>2, <3>3, <3>6
    <3> QED BY <1>1, <3>9, <3>10 DEF Kept
  <2> QED BY <2>1, <2>2
<1>15. InOrder(l, n, cache, u, v, dirty)
  BY <1>12, <1>13, <1>14 DEF InOrder
<1> QED BY <1>2, <1>3, <1>4, <1>15

-----------------------------------------------------------------------------
(* The turns of a write.                                                   *)

LEMMA TurnCalm ==
  ASSUME NEW t, NEW fs, NEW w, NEW p, Turning(t, fs, w, p),
         NEW v, v = Overlay(w, p.off, Copied(p)),
         NEW u, u = Left(p) \o Tail(t)
  PROVE  /\ Calm(u, v)
         /\ Turn(p) # Len(p.b) => u # <<>> /\ Head(u).a = "write"
<1>1. /\ t \in Seq(Steps) /\ t # <<>> /\ Tail(t) \in Seq(Steps) /\ p = Head(t)
      /\ p \in Writing /\ Len(p.b) >= 1 /\ p.off + Len(p.b) <= MaxSize
      /\ w \in Seq(Byte)
  BY DEF Turning
<1>2. /\ p.off \in Nat /\ p.fill \in -1 .. MaxSize /\ p.fill \in Int
      /\ p.more \in 0 .. MaxSize /\ p.b \in Seq(Byte) /\ Len(p.b) \in Nat
      /\ p.more \in Nat
  BY <1>1, WritingHas
<1>3. PICK off, more, n \in Nat : off = p.off /\ more = p.more /\ n = Turn(p)
  BY <1>1, <1>2, TurnIs
<1>4. n >= 1 /\ n <= Len(p.b)
  BY <1>1, <1>3, TurnIs
<1>5. /\ v \in Seq(Byte) /\ Len(v) \in Nat /\ off + n <= Len(v)
  <2>1. v \in Seq(Byte) /\ Len(v) = Larger(Len(w), off + n)
    BY <1>3, WrittenBytes
  <2>2. PICK y, z \in Nat : y = Len(w) /\ z = off + n
    BY <1>1, <1>3, SeqIs
  <2>3. Larger(y, z) \in Nat /\ z <= Larger(y, z)
    BY LargerIs
  <2> QED BY <2>1, <2>2, <2>3
<1>6. off + n \in 0 .. Len(v) /\ off + n \in 0 .. MaxSize
  <2>1. PICK y \in Nat : y = Len(p.b) /\ off + y <= MaxSize /\ n <= y
    BY <1>1, <1>2, <1>3, <1>4
  <2> QED BY <1>3, <1>5, <2>1, Bounds
<1>7. CASE n < Len(p.b)
  <2>1. PICK b \in Seq(Byte) : b = SubSeq(p.b, n + 1, Len(p.b))
    <3>1. PICK s \in Seq(Byte), m \in Nat : s = p.b /\ m = Len(s) /\ n < m
      BY <1>2, <1>7
    <3>2. SubSeq(s, n + 1, m) \in Seq(Byte)
      BY <1>3, <3>1
    <3> QED BY <3>1, <3>2
  <2>2. PICK x : x = Write(off + n, b, p.fill, p.more)
    OBVIOUS
  <2>3. x \in Steps /\ x.a = "write" /\ x.off = off + n
    BY <1>2, <1>6, <2>2, WritingIs
  <2>4. u = <<x>> \o Tail(t)
    <3>1. Left(p) = <<x>>
      BY <1>3, <1>7, <2>1, <2>2 DEF Left
    <3> QED BY <3>1
  <2>5. u # <<>> /\ Head(u) = x
    BY <1>1, <2>3, <2>4, Prefixed
  <2> QED BY <1>5, <1>6, <2>3, <2>5, CalmSteps
<1>8. CASE n = Len(p.b) /\ Call(t)
  <2>1. Tail(t) = <<>> /\ more = 0
    BY <1>1, <1>3, <1>8 DEF Call
  <2>2. Left(p) = <<>>
    BY <1>3, <1>8, <2>1 DEF Left
  <2>3. u = <<>>
    BY <2>1, <2>2
  <2> QED BY <1>3, <1>5, <1>8, <2>3, CalmSteps
<1>9. CASE n = Len(p.b) /\ Fills(p, Tail(t)) /\ Rest(Tail(t))
  <2>1. PICK r \in Seq(Steps) : r = Tail(t)
    BY <1>1
  <2>2. Fills(p, r) /\ Rest(r) /\ off + n + more = Goal(r)
    <3>1. p.off + Len(p.b) + p.more = Goal(r)
      BY <1>9, <2>1 DEF Fills
    <3> QED BY <1>3, <1>9, <2>1, <3>1
  <2>3. CASE more > 0
    <3>1. PICK x : x = Filling(off + n, more, p.fill)
      OBVIOUS
    <3>2. u = <<x>> \o r
      <4>1. Left(p) = <<x>>
        BY <1>3, <1>9, <2>3, <3>1 DEF Left
      <4> QED BY <2>1, <4>1
    <3>3. x \in Steps /\ x.a = "write" /\ x.off = off + n
      <4>1. p.fill \in 0 .. MaxSize /\ p.fill \in Nat /\ p.fill <= off + n
        BY <1>3, <2>2, FillsHas
      <4>2. more \in Nat \ {0}
        BY <2>3
      <4> QED BY <2>2, <3>1, <4>1, <4>2, FillingIs
    <3>4. u # <<>> /\ Head(u) = x
      BY <3>2, <3>3, Prefixed
    <3> QED BY <1>3, <1>5, <1>6, <1>9, <3>3, <3>4, CalmSteps
  <2>4. CASE ~(more > 0)
    <3>1. u = r
      <4>1. Left(p) = <<>>
        BY <1>3, <1>9, <2>4 DEF Left
      <4> QED BY <2>1, <4>1
    <3>2. Goal(r) \in 0 .. Len(v)
      BY <1>3, <1>6, <2>2, <2>4
    <3>3. \A j : Step("grow", j).a = "grow" /\ Step("grow", j).n = j
      BY StepHas
    <3>4. r # <<>> /\ Head(r).a \in {"write", "grow"}
      BY <2>2, <3>3 DEF Rest, Call, Growth, Writing
    <3>5. /\ Head(r).a = "write" => Head(r).off \in 0 .. Len(v)
          /\ Head(r).a = "grow" => Head(r).n \in 0 .. Len(v)
      BY <3>2, <3>4 DEF Goal
    <3> QED BY <1>3, <1>5, <1>9, <3>1, <3>4, <3>5, CalmSteps
  <2> QED BY <2>3, <2>4
<1> QED BY <1>3, <1>4, <1>7, <1>8, <1>9, SMTT(30) DEF Turning

Failed(p, t, w, u, v) ==
  /\ v = Overlay(w, p.off, <<>>)
  /\ u = (IF p.fill = -1 THEN <<>>
          ELSE <<Step("prune", p.fill), Step("hole", 1)>>) \o Tail(t)

LEMMA FailCalm ==
  ASSUME NEW t, NEW fs, NEW w, NEW p, Turning(t, fs, w, p),
         NEW u, NEW v, Failed(p, t, w, u, v)
  PROVE  Calm(u, v) /\ Len(v) = Larger(Len(w), p.off) /\ p.off \in Nat
<1>0. /\ v = Overlay(w, p.off, <<>>)
      /\ u = (IF p.fill = -1 THEN <<>>
              ELSE <<Step("prune", p.fill), Step("hole", 1)>>) \o Tail(t)
  BY DEF Failed
<1>1. /\ t \in Seq(Steps) /\ t # <<>> /\ Tail(t) \in Seq(Steps) /\ p = Head(t)
      /\ p \in Writing /\ w \in Seq(Byte) /\ Len(w) \in Nat
  BY BytesAre DEF Turning
<1>2. PICK off \in Nat : off = p.off
  BY <1>1, WritingHas
<1>3. v \in Seq(Byte) /\ Len(v) = Larger(Len(w), off) /\ Len(v) \in Nat
  <2>1. PICK b \in Seq(Byte) : b = <<>> /\ Len(b) = 0
    <3>1. <<>> \in Seq(Byte) /\ Len(<<>>) = 0
      OBVIOUS
    <3> QED BY <3>1
  <2>2. v = Overlay(w, off, b)
    BY <1>0, <1>2, <2>1
  <2>3. /\ Overlay(w, off, b) \in Seq(Byte)
        /\ Len(Overlay(w, off, b)) = Larger(Len(w), off + Len(b))
    BY <1>1, OverlayIs
  <2>4. off + Len(b) = off
    BY <2>1
  <2> QED BY <1>1, <2>2, <2>3, <2>4, LargerIs
<1>4. CASE Call(t)
  <2>1. Tail(t) = <<>> /\ p.fill = -1
    BY <1>1, <1>4 DEF Call
  <2>2. u = <<>>
    BY <1>0, <2>1
  <2> QED BY <1>2, <1>3, <2>2, CalmSteps
<1>5. CASE Fills(p, Tail(t)) /\ Rest(Tail(t))
  <2>1. PICK r \in Seq(Steps) : r = Tail(t)
    BY <1>1
  <2>2. p.fill \in 0 .. MaxSize /\ p.fill # -1
    BY <1>5, <2>1, FillsHas
  <2>3. PICK x, y \in Steps : x = Step("prune", p.fill) /\ y = Step("hole", 1)
    BY <2>2, SmallSteps
  <2>4. u = <<x, y>> \o r
    BY <1>0, <2>1, <2>2, <2>3
  <2>5. Ahead(u, x, y, r)
    BY <2>4, AheadIs
  <2>6. u # <<>> /\ Head(u) = x /\ x.a = "prune"
    BY <2>3, <2>5, StepHas DEF Ahead
  <2> QED BY <1>2, <1>3, <2>6, CalmSteps
<1> QED BY <1>4, <1>5 DEF Turning

(* The entry that makes room goes to the flash.                            *)
GrabOrdered(H, n) ==
  /\ TreeOrder(Grabbed) /\ HeadSize(Grabbed) = H /\ Held(Remaining) = {}
  /\ Quiet(LooseChunks(Grabbed), H, StoredAfterGrab, <<>>, n)
  /\ Sizes3(LooseChunks(Grabbed), H, StoredAfterGrab, n)

LEMMA NoneDirty == NoDirty(<<>>)
  BY NoCache DEF NoDirty

LEMMA GrabOrder ==
  ASSUME Base0, OneEntry, param.n_caches # 0, InRam(log, stored_size, MaxSize),
         NEW L, L = LooseChunks(log), NEW H, H = HeadSize(log), TreeOrder(log),
         NEW n, Sizes3(L, H, stored_size, n), Quiet(L, H, stored_size, cache, n)
  PROVE  GrabOrdered(H, n)
<1>1. /\ log \in Seq(Recs) /\ stored_size \in 0 .. MaxSize
      /\ CacheOK(log, cache) /\ DataOK(log, cache, todo, want)
      /\ Len(cache) <= param.n_caches /\ param.n_caches \in Nat \ {0}
      /\ cache \in Seq(Entries) /\ Distinct(cache) /\ Len(cache) \in Nat
  BY DEF Base0
<1>2. GrabOK(todo, want)
  BY <1>1, GrabIs
<1>3. Held(Remaining) = {}
  <2>1. PICK r : r = Remaining
    OBVIOUS
  <2>2. CacheOK(Grabbed, r) /\ Len(r) < param.n_caches /\ param.n_caches = 1
    BY <1>1, <1>2, <2>1 DEF GrabOK, OneEntry
  <2>3. Len(r) \in Nat
    BY <2>2, CacheIs DEF CacheOK
  <2>4. Len(r) = 0
    BY <2>2, <2>3
  <2> QED BY <2>1, <2>4 DEF Held
<1>4. Alone(cache)
  BY <1>1, OneAlone
<1>5. n \in Nat /\ StoredAfterGrab \in Nat
  BY <1>2, Bounds DEF GrabOK, Sizes3
<1>6. CASE \E e \in Held(cache) :
             /\ e.dirty
             /\ Grabbed = Program(log, Data(e.chunk, e.data, e.n))
             /\ StoredAfterGrab = Larger(stored_size, Base(e.chunk) + e.n)
  <2>1. PICK e \in Held(cache) :
             /\ e.dirty
             /\ Grabbed = Program(log, Data(e.chunk, e.data, e.n))
             /\ StoredAfterGrab = Larger(stored_size, Base(e.chunk) + e.n)
    BY <1>6
  <2>2. PICK m, s : m = Grabbed /\ s = StoredAfterGrab
    OBVIOUS
  <2>3. /\ TreeOrder(m) /\ HeadSize(m) = H
        /\ Quiet(LooseChunks(m), H, Larger(stored_size, Base(e.chunk) + e.n), <<>>, n)
    BY <1>1, <1>4, <2>1, <2>2, NoneDirty, OrderOut
  <2>4. Sizes3(LooseChunks(m), H, s, n)
    BY <1>5, <2>2, NewSizes
  <2> QED BY <1>3, <2>1, <2>2, <2>3, <2>4 DEF GrabOrdered
<1>7. CASE NoDirty(cache) /\ Grabbed = log /\ StoredAfterGrab = stored_size
  <2>1. Quiet(L, H, stored_size, <<>>, n)
    BY <1>7, NoneDirty, QuietClean
  <2> QED BY <1>3, <1>7, <2>1 DEF GrabOrdered
<1>8. CASE Len(cache) < param.n_caches
  <2>1. Victims = {}
    BY <1>8 DEF Victims
  <2>2. Grabbed = log /\ StoredAfterGrab = stored_size
    BY <2>1 DEF Grabbed, StoredAfterGrab
  <2>3. Len(cache) = 0
    BY <1>1, <1>8 DEF OneEntry
  <2>4. NoDirty(cache)
    BY <2>3 DEF NoDirty, Held
  <2> QED BY <1>7, <2>2, <2>4
<1>9. CASE ~(Len(cache) < param.n_caches)
  <2>1. cache # <<>>
    BY <1>1, <1>9
  <2>2. PICK e \in Held(cache) : e = Head(cache)
    BY <1>1, <2>1, TailHeld
  <2>3. Victims = {e}
    BY <1>9, <2>2 DEF Victims
  <2>4. e.dirty \in BOOLEAN
    BY <1>1, CacheHeld, EntryIs
  <2>5. CASE e.dirty
    <3>1. Grabbed = Program(log, Data(e.chunk, e.data, e.n))
      BY <2>2, <2>3, <2>5 DEF Grabbed, GrabWrites
    <3>2. StoredAfterGrab = Larger(stored_size, Base(e.chunk) + e.n)
      BY <2>2, <2>3, <2>5 DEF StoredAfterGrab
    <3> QED BY <1>6, <2>5, <3>1, <3>2
  <2>6. CASE ~e.dirty
    <3>1. Grabbed = log /\ StoredAfterGrab = stored_size
      BY <2>3, <2>6 DEF Grabbed, StoredAfterGrab, GrabWrites
    <3>2. NoDirty(cache)
      BY <1>4, <2>6 DEF NoDirty, Alone
    <3> QED BY <1>7, <3>1, <3>2
  <2> QED BY <2>4, <2>5, <2>6
<1> QED BY <1>8, <1>9

LEMMA ReadPartOrder ==
  ASSUME OrderState, NEW k \in Chunks, ReadPart(k)
  PROVE  InOrder(log', stored_size', cache', todo', want', dirty')
<1>1. PICK L, H : L = LooseChunks(log) /\ H = HeadSize(log)
  OBVIOUS
<1>2. /\ todo = <<>> /\ param.n_caches > 0 /\ ~IsCached(k)
      /\ log' = Grabbed /\ stored_size' = StoredAfterGrab
      /\ cache' = Append(Remaining, [chunk |-> k, data |-> RdDataObj(Grabbed, k),
                                     n |-> 0, dirty |-> FALSE])
      /\ todo' = todo /\ want' = want /\ dirty' = dirty
  BY DEF ReadPart
<1>3. /\ Base0 /\ Sizes3(L, H, stored_size, Len(want)) /\ Len(want) \in Nat
      /\ TreeOrder(log) /\ RamOrder(L, H, stored_size, cache, todo, want)
      /\ DirtyKnown(cache, todo, dirty) /\ OneEntry
  BY <1>1, OrderIs DEF OrderState
<1>4. /\ InRam(log, stored_size, MaxSize) /\ log \in Seq(Recs)
      /\ stored_size \in 0 .. MaxSize /\ param.n_caches \in Nat
      /\ CacheOK(log, cache) /\ DataOK(log, cache, todo, want)
      /\ Len(cache) <= param.n_caches /\ cache \in Seq(Entries) /\ Distinct(cache)
  BY <1>2, <1>3, WholeIs DEF Base0
<1>5. param.n_caches # 0 /\ param.n_caches \in Nat \ {0}
  BY <1>2, <1>4
<1>6. Calm(todo, want)
  BY <1>2, <1>3, CalmSteps
<1>7. Quiet(L, H, stored_size, cache, Len(want))
  BY <1>3, <1>6, QuietIs
<1>8. GrabOrdered(H, Len(want))
  BY <1>1, <1>3, <1>4, <1>5, <1>7, GrabOrder
<1>9. GrabOK(todo, want)
  BY <1>4, <1>5, GrabIs
<1>10. PICK l, s, r, c : /\ l = Grabbed /\ s = StoredAfterGrab /\ r = Remaining
                        /\ c = Append(r, [chunk |-> k, data |-> RdDataObj(l, k),
                                          n |-> 0, dirty |-> FALSE])
  OBVIOUS
<1>11. /\ TreeOrder(l) /\ HeadSize(l) = H /\ Held(r) = {}
       /\ Quiet(LooseChunks(l), H, s, <<>>, Len(want))
       /\ Sizes3(LooseChunks(l), H, s, Len(want))
  BY <1>8, <1>10 DEF GrabOrdered
<1>12. /\ l \in Seq(Recs) /\ OneLive(l) /\ r \in Seq(Entries) /\ Distinct(r)
  <2>1. l \in Seq(Recs) /\ InRam(l, s, MaxSize) /\ s \in 0 .. MaxSize /\ CacheOK(l, r)
    BY <1>9, <1>10 DEF GrabOK
  <2> QED BY <2>1, RamOneLive DEF CacheOK
<1>13. NoDirty(c)
  <2>1. PICK x \in Entries : x = [chunk |-> k, data |-> RdDataObj(l, k), n |-> 0,
                                  dirty |-> FALSE]
    <3>1. RdDataObj(l, k) \in ChunkData /\ 0 \in 0 .. ChunkBytes
      BY <1>12, RdIsData, ChunksAre, Bounds
    <3>2. [chunk |-> k, data |-> RdDataObj(l, k), n |-> 0, dirty |-> FALSE] \in Entries
      BY <3>1 DEF Entries
    <3> QED BY <3>2
  <2>2. ~x.dirty
    BY <2>1
  <2>3. Held(c) = Held(r) \cup {x}
    BY <1>10, <1>11, <1>12, <2>1, AppendHeld
  <2> QED BY <1>11, <2>2, <2>3 DEF NoDirty
<1>14. Quiet(LooseChunks(l), H, s, c, Len(want))
  BY <1>11, <1>13, NoneDirty, QuietClean
<1>15. DirtyKnown(c, todo, dirty)
  BY <1>13 DEF NoDirty, DirtyKnown
<1>16. InOrder(l, s, c, todo, want, dirty)
  BY <1>6, <1>11, <1>14, <1>15, Settled
<1>17. l = log' /\ s = stored_size' /\ c = cache'
  BY <1>2, <1>10
<1> QED BY <1>2, <1>16, <1>17

-----------------------------------------------------------------------------
(* Turns of yaffs_do_file_wr, in order.                                    *)

(* A turn in the middle of a write: what is known of the order, with the   *)
(* gap before the bytes taken into account.                                *)
TurnOrder(p, k, L, H, z) ==
  /\ WriteState(p) /\ p = Now /\ todo # <<>> /\ Head(todo).a = "write"
  /\ k = ChunkOf(p.off) /\ k \in Nat \ {0}
  /\ L = LooseChunks(log) /\ H = HeadSize(log) /\ TreeOrder(log)
  /\ z = Larger(Len(want), p.off) /\ z \in Nat
  /\ Sizes3(L, H, stored_size, z) /\ Quiet(L, H, stored_size, cache, z)
  /\ Base0 /\ Alone(cache) /\ OneEntry

LEMMA TurnOrderIs ==
  ASSUME OrderState, DoFileWr
  PROVE  TurnOrder(Now, ChunkOf(Now.off), LooseChunks(log), HeadSize(log),
                   Larger(Len(want), Now.off))
<1>1. PICK p, k, L, H, z :
        /\ p = Now /\ k = ChunkOf(p.off) /\ L = LooseChunks(log) /\ H = HeadSize(log)
        /\ z = Larger(Len(want), p.off)
  OBVIOUS
<1>2. todo # <<>> /\ Head(todo).a = "write" /\ p = Head(todo)
  BY <1>1 DEF DoFileWr, Now
<1>3. WriteState(p)
  BY <1>1, <1>2, WriteStateIs DEF OrderState, Now
<1>4. p \in Writing /\ k \in Nat \ {0}
  BY <1>1, <1>3 DEF WriteState, Turning
<1>5. PICK off \in Nat : off = p.off
  BY <1>4, WritingHas
<1>6. /\ Base0 /\ Alone(cache) /\ Sizes3(L, H, stored_size, Len(want)) /\ Len(want) \in Nat
      /\ TreeOrder(log) /\ RamOrder(L, H, stored_size, cache, todo, want) /\ OneEntry
  BY <1>1, OrderIs DEF OrderState
<1>7. z \in Nat /\ z = Larger(Len(want), off)
  BY <1>1, <1>5, <1>6, LargerIs
<1>8. Quiet(L, H, stored_size, cache, z)
  BY <1>2, <1>5, <1>6, <1>7, GapQuiet
<1>9. Sizes3(L, H, stored_size, z)
  BY <1>6, <1>7 DEF Sizes3
<1>10. TurnOrder(p, k, L, H, z)
  BY <1>1, <1>2, <1>3, <1>4, <1>6, <1>7, <1>8, <1>9 DEF TurnOrder
<1> QED BY <1>1, <1>10

TurnDone(k, off, z, u, v, d) ==
  /\ \E end : PieceAt(k, off, end, Len(want), z, Len(v))
  /\ Calm(u, v) /\ Len(v) \in Nat
  /\ \A c : DirtyKnown(c, u, d)

LEMMA TurnDoneIs ==
  ASSUME NEW p, NEW k, NEW L, NEW H, NEW z, TurnOrder(p, k, L, H, z), PieceOk(p)
  PROVE  TurnDone(k, p.off, z, todo', want', dirty')
<1>1. PICK u, v, b : u = todo' /\ v = want' /\ b = dirty'
  OBVIOUS
<1>2. /\ u = Left(p) \o Tail(todo) /\ v = Overlay(want, p.off, Copied(p))
      /\ Turn(p) = Len(p.b) => b = TRUE
  BY <1>1 DEF PieceOk, Done
<1>3. Turning(todo, file_size, want, p) /\ k = ChunkOf(p.off) /\ k \in Nat \ {0}
  BY DEF TurnOrder, WriteState
<1>4. p \in Writing /\ Len(p.b) >= 1 /\ p.off + Len(p.b) <= MaxSize /\ Len(want) \in Nat
  BY <1>3, BytesAre DEF Turning
<1>5. PICK off, n, y \in Nat : off = p.off /\ n = Turn(p) /\ y = Len(want)
  BY <1>4, WritingHas, TurnIs
<1>6. StartOf(off) + n <= ChunkBytes
  BY <1>4, <1>5, TurnIs
<1>7. off = Base(k) + StartOf(off) /\ StartOf(off) \in Nat /\ Base(k) \in Nat
  <2>1. StartOf(off) \in 0 .. ChunkBytes - 1 /\ off = Base(k) + StartOf(off)
    BY <1>3, <1>5, ChunkOfIs
  <2> QED BY <1>3, <2>1, BaseOrder, Bounds
<1>8. Base(k) <= off /\ off <= off + n /\ off + n <= Base(k) + ChunkBytes
  BY <1>5, <1>6, <1>7, Bounds
<1>9. z = Larger(y, off)
  BY <1>5 DEF TurnOrder
<1>10. v \in Seq(Byte) /\ Len(v) = Larger(y, off + n)
  BY <1>2, <1>3, <1>5, WrittenBytes
<1>11. PICK end \in Nat : end = off + n
  BY <1>5
<1>12. Len(v) = Larger(y, end) /\ Len(v) \in Nat
  BY <1>5, <1>10, <1>11, LargerIs
<1>13. PieceAt(k, off, end, y, z, Len(v))
  BY <1>3, <1>5, <1>8, <1>9, <1>11, <1>12 DEF PieceAt
<1>14. Calm(u, v) /\ (Turn(p) # Len(p.b) => u # <<>> /\ Head(u).a = "write")
  BY <1>2, <1>3, TurnCalm
<1>15. \A c : DirtyKnown(c, u, b)
  BY <1>2, <1>14 DEF DirtyKnown
<1>16. TurnDone(k, off, z, u, v, b)
  BY <1>5, <1>12, <1>13, <1>14, <1>15 DEF TurnDone
<1> QED BY <1>1, <1>5, <1>16

(* A turn that fails leaves the gap alone.                                 *)
LEMMA FailOrder ==
  ASSUME NEW p, NEW k, NEW L, NEW H, NEW z, TurnOrder(p, k, L, H, z), PieceFails(p),
         log' = log, cache' = cache, stored_size' = stored_size
  PROVE  InOrder(log', stored_size', cache', todo', want', dirty')
<1>1. PICK u, v, b : u = todo' /\ v = want' /\ b = dirty'
  OBVIOUS
<1>2. Failed(p, todo, want, u, v)
  BY <1>1 DEF PieceFails, Failed
<1>2a. b = TRUE
  BY <1>1 DEF PieceFails, Done
<1>3. Turning(todo, file_size, want, p)
  BY DEF TurnOrder, WriteState
<1>4. Calm(u, v) /\ Len(v) = Larger(Len(want), p.off)
  BY <1>2, <1>3, FailCalm
<1>5. /\ Len(v) = z /\ Sizes3(L, H, stored_size, z) /\ Quiet(L, H, stored_size, cache, z)
      /\ TreeOrder(log) /\ HeadSize(log) = H /\ LooseChunks(log) = L
  BY <1>4 DEF TurnOrder
<1>6. DirtyKnown(cache, u, b)
  BY <1>2a DEF DirtyKnown
<1>7. InOrder(log, stored_size, cache, u, v, b)
  BY <1>4, <1>5, <1>6, Settled
<1> QED BY <1>1, <1>7

(* The entry written to is the only one.                                   *)
LEMMA CachedOrder ==
  ASSUME NEW k, NEW off, NEW z, NEW u, NEW v, NEW b, TurnDone(k, off, z, u, v, b),
         NEW l, TreeOrder(l), NEW H, HeadSize(l) = H, NEW s, NEW c,
         Sizes3(LooseChunks(l), H, s, z), Quiet(LooseChunks(l), H, s, c, z), DirtyAt(c, k),
         NEW d, DirtyAt(d, k), Pending(d, k)
  PROVE  InOrder(l, s, d, u, v, b)
<1>1. PICK L : L = LooseChunks(l)
  OBVIOUS
<1>2. PICK end : PieceAt(k, off, end, Len(want), z, Len(v))
  BY DEF TurnDone
<1>3. Quiet(L, H, s, d, Len(v))
  BY <1>1, <1>2, QuietCached
<1>4. Sizes3(L, H, s, Len(v)) /\ Calm(u, v) /\ DirtyKnown(d, u, b)
  BY <1>1 DEF TurnDone, Sizes3
<1> QED BY <1>1, <1>3, <1>4, Settled

LEMMA OnlyEntry ==
  ASSUME NEW r \in Seq(Entries), Held(r) = {}, NEW x, x \in Entries, x.dirty,
         Distinct(r),
         NEW k, x.chunk = k,
         NEW d, d = Append(r, x)
  PROVE  DirtyAt(d, k) /\ Pending(d, k)
<1>1. Held(d) = {x}
  <2>1. Held(d) = Held(r) \cup {x}
    BY AppendHeld
  <2> QED BY <2>1
<1> QED BY <1>1 DEF DirtyAt, Pending

(* The entry a turn leaves in the cache.                                   *)
LEMMA TurnEntry ==
  ASSUME NEW p, NEW k, NEW L, NEW H, NEW z, TurnOrder(p, k, L, H, z),
         NEW d, d = Overlay(ChunkAt(want, k), StartOf(p.off), Copied(p)),
         NEW x, x = [chunk |-> k, n |-> WriteBack(p), dirty |-> TRUE, data |-> d]
  PROVE  x \in Entries /\ x.dirty /\ x.chunk = k
<1>1. PICK v : v = Overlay(want, p.off, Copied(p))
  OBVIOUS
<1>2. Turning(todo, file_size, want, p) /\ k = ChunkOf(p.off)
  BY DEF TurnOrder, WriteState
<1>3. Fresh(k, d, WriteBack(p), v, want)
  BY <1>1, <1>2, FreshIs
<1>4. EntryFor(x, k, v, want)
  BY <1>3, FreshEntry
<1> QED BY <1>4 DEF EntryFor

LEMMA HitOrder ==
  ASSUME NEW p, NEW k, NEW L, NEW H, NEW z, TurnOrder(p, k, L, H, z), WriteHit(p, k)
  PROVE  InOrder(log', stored_size', cache', todo', want', dirty')
<1>1. PICK i \in FindChunkCache(k), room \in BOOLEAN :
    /\ UNCHANGED <<log, stored_size>>
    /\ IF cache[i].dirty \/ room
       THEN cache' = InCache(p, k, cache[i].data) /\ PieceOk(p)
       ELSE UNCHANGED cache /\ PieceFails(p)
  BY DEF WriteHit
<1>2. CASE ~(cache[i].dirty \/ room)
  <2>1. log' = log /\ cache' = cache /\ stored_size' = stored_size /\ PieceFails(p)
    BY <1>1, <1>2
  <2> QED BY <2>1, FailOrder
<1>3. CASE cache[i].dirty \/ room
  <2>1. /\ log' = log /\ stored_size' = stored_size
        /\ cache' = InCache(p, k, cache[i].data) /\ PieceOk(p)
    BY <1>1, <1>3
  <2>2. /\ DataOK(log, cache, todo, want) /\ NotPadding(todo)
        /\ want \in Seq(Byte) /\ cache \in Seq(Entries) /\ Distinct(cache)
        /\ k \in Nat \ {0} /\ Alone(cache)
    BY DEF TurnOrder, WriteState
  <2>3. i \in 1 .. Len(cache) /\ cache[i].chunk = k /\ cache[i] \in Held(cache)
    BY <2>2, CacheIs DEF FindChunkCache, Held
  <2>4. cache[i].data = ChunkAt(want, k)
    <3>1. cache[i].data = Wanted(todo, want, k)
      BY <2>2, <2>3 DEF DataOK
    <3> QED BY <2>2, <3>1, WantedIs
  <2>5. PICK d, r : d = Overlay(ChunkAt(want, k), StartOf(p.off), Copied(p))
                    /\ r = Without(k)
    OBVIOUS
  <2>6. PICK x : x = [chunk |-> k, n |-> WriteBack(p), dirty |-> TRUE, data |-> d]
    OBVIOUS
  <2>7. x \in Entries /\ x.dirty /\ x.chunk = k
    BY <2>5, <2>6, TurnEntry
  <2>8. cache' = Append(r, x)
    BY <2>1, <2>4, <2>5, <2>6 DEF InCache
  <2>9. r \in Seq(Entries) /\ Distinct(r) /\ Held(r) = {}
    <3>1. /\ r \in Seq(Entries) /\ Distinct(r)
          /\ Held(r) = {e \in Held(cache) : e.chunk # k}
      BY <2>2, <2>5, WithoutHeld
    <3> QED BY <2>2, <2>3, <3>1 DEF Alone
  <2>10. PICK u, v, b, c : u = todo' /\ v = want' /\ b = dirty' /\ c = cache'
    OBVIOUS
  <2>11. DirtyAt(c, k) /\ Pending(c, k)
    BY <2>7, <2>8, <2>9, <2>10, OnlyEntry
  <2>12. DirtyAt(cache, k)
    BY <2>2, <2>3 DEF DirtyAt, Alone
  <2>13. TurnDone(k, p.off, z, u, v, b)
    BY <2>1, <2>10, TurnDoneIs
  <2>14. /\ TreeOrder(log) /\ HeadSize(log) = H
         /\ Sizes3(LooseChunks(log), H, stored_size, z)
         /\ Quiet(LooseChunks(log), H, stored_size, cache, z)
    BY DEF TurnOrder
  <2>15. InOrder(log, stored_size, c, u, v, b)
    BY <2>11, <2>12, <2>13, <2>14, CachedOrder
  <2> QED BY <2>1, <2>10, <2>15
<1> QED BY <1>2, <1>3

LEMMA MissOrder ==
  ASSUME NEW p, NEW k, NEW L, NEW H, NEW z, TurnOrder(p, k, L, H, z), WriteMiss(p, k),
         param.n_caches # 0
  PROVE  InOrder(log', stored_size', cache', todo', want', dirty')
<1>1. CASE /\ UNCHANGED <<log, stored_size, cache>>
           /\ PieceFails(p)
  <2>1. log' = log /\ cache' = cache /\ stored_size' = stored_size /\ PieceFails(p)
    BY <1>1
  <2> QED BY <2>1, FailOrder
<1>2. CASE /\ ~IsCached(k)
           /\ log' = Grabbed
           /\ stored_size' = StoredAfterGrab
           /\ cache' = Append(Remaining,
                         [chunk |-> k, n |-> WriteBack(p), dirty |-> TRUE,
                          data |-> Overlay(RdDataObj(Grabbed, k),
                                           StartOf(p.off), Copied(p))])
           /\ PieceOk(p)
  <2>1. /\ log \in Seq(Recs) /\ stored_size \in 0 .. MaxSize
        /\ InRam(log, stored_size, MaxSize)
        /\ CacheOK(log, cache) /\ DataOK(log, cache, todo, want)
        /\ NotPadding(todo) /\ k \in Nat \ {0}
        /\ cache \in Seq(Entries) /\ Distinct(cache)
        /\ Len(cache) <= param.n_caches /\ param.n_caches \in Nat \ {0}
    BY DEF TurnOrder, WriteState
  <2>2. GrabOK(todo, want)
    BY <2>1, GrabIs
  <2>3. PICK l, s, r : l = Grabbed /\ s = StoredAfterGrab /\ r = Remaining
    OBVIOUS
  <2>4. GrabOrdered(H, z)
    <3>1. /\ Base0 /\ OneEntry /\ L = LooseChunks(log) /\ H = HeadSize(log)
          /\ TreeOrder(log) /\ Sizes3(L, H, stored_size, z)
          /\ Quiet(L, H, stored_size, cache, z)
      BY DEF TurnOrder
    <3> QED BY <2>1, <3>1, GrabOrder
  <2>5. /\ TreeOrder(l) /\ HeadSize(l) = H /\ Held(r) = {}
        /\ Quiet(LooseChunks(l), H, s, <<>>, z) /\ Sizes3(LooseChunks(l), H, s, z)
    BY <2>3, <2>4 DEF GrabOrdered
  <2>6. CacheOK(l, r) /\ DataOK(l, r, todo, want)
    BY <2>2, <2>3 DEF GrabOK
  <2>7. r \in Seq(Entries) /\ Distinct(r)
    BY <2>6 DEF CacheOK
  <2>8. RdDataObj(l, k) = ChunkAt(want, k)
    <3>1. RdDataObj(l, k) = Wanted(todo, want, k)
      BY <2>1, <2>5, <2>6 DEF DataOK
    <3> QED BY <2>1, <3>1, WantedIs
  <2>9. PICK d : d = Overlay(ChunkAt(want, k), StartOf(p.off), Copied(p))
    OBVIOUS
  <2>10. PICK x : x = [chunk |-> k, n |-> WriteBack(p), dirty |-> TRUE, data |-> d]
    OBVIOUS
  <2>11. x \in Entries /\ x.dirty /\ x.chunk = k
    BY <2>9, <2>10, TurnEntry
  <2>12. PICK u, v, b, c : u = todo' /\ v = want' /\ b = dirty' /\ c = Append(r, x)
    OBVIOUS
  <2>13. c = cache' /\ l = log' /\ s = stored_size'
    BY <1>2, <2>3, <2>8, <2>9, <2>10, <2>12
  <2>14. DirtyAt(c, k) /\ Pending(c, k)
    BY <2>5, <2>7, <2>11, <2>12, OnlyEntry
  <2>15. DirtyAt(<<>>, k)
    BY NoneDirty DEF DirtyAt, NoDirty
  <2>16. TurnDone(k, p.off, z, u, v, b)
    BY <1>2, <2>12, TurnDoneIs
  <2>17. InOrder(l, s, c, u, v, b)
    BY <2>5, <2>14, <2>15, <2>16, CachedOrder
  <2> QED BY <2>12, <2>13, <2>17
<1> QED BY <1>1, <1>2 DEF WriteMiss

LEMMA DirectOrder ==
  ASSUME NEW p, NEW k, NEW L, NEW H, NEW z, TurnOrder(p, k, L, H, z), WriteDirect(p, k),
         ~UsesCache(p), "nospace" \notin Exposed
  PROVE  InOrder(log', stored_size', cache', todo', want', dirty')
<1>1. PICK d, n : /\ d = Overlay(RdDataObj(log, k), StartOf(p.off), Copied(p))
                  /\ n = WriteBack(p)
  OBVIOUS
<1>2. /\ stored_size' = Larger(stored_size, Base(k) + n)
      /\ cache' = Without(k)
      /\ log' = Program(log, Data(k, d, n))
      /\ PieceOk(p)
  BY <1>1 DEF WriteDirect
<1>3. /\ WriteState(p) /\ k = ChunkOf(p.off) /\ OneEntry
      /\ Turning(todo, file_size, want, p) /\ log \in Seq(Recs)
      /\ cache \in Seq(Entries) /\ Distinct(cache) /\ Len(cache) \in Nat
      /\ Len(cache) <= param.n_caches /\ param.n_caches \in Nat
      /\ TreeOrder(log) /\ L = LooseChunks(log) /\ H = HeadSize(log)
      /\ Sizes3(L, H, stored_size, z) /\ Quiet(L, H, stored_size, cache, z)
      /\ k \in Nat \ {0} /\ stored_size \in 0 .. MaxSize
  BY DEF TurnOrder, WriteState
<1>4. Held(cache) = {}
  <2>1. param.n_caches = 0
    BY <1>3 DEF UsesCache, OneEntry
  <2>2. Len(cache) = 0
    BY <1>3, <2>1
  <2> QED BY <2>2 DEF Held
<1>5. NoDirty(cache)
  BY <1>4 DEF NoDirty
<1>6. PICK s, c, u, v, b, m :
        /\ s = stored_size' /\ c = cache' /\ u = todo' /\ v = want' /\ b = dirty'
        /\ m = log'
  OBVIOUS
<1>7. NoDirty(c)
  <2>1. Held(Without(k)) = {e \in Held(cache) : e.chunk # k}
    BY <1>3, WithoutHeld
  <2> QED BY <1>2, <1>4, <1>6, <2>1 DEF NoDirty
<1>8. TurnDone(k, p.off, z, u, v, b)
  BY <1>2, <1>6, TurnDoneIs
<1>9. d = Overlay(ChunkAt(want, k), StartOf(p.off), Copied(p))
  BY <1>1, <1>3, DirectBytes
<1>10. PICK w : w = Overlay(want, p.off, Copied(p))
  OBVIOUS
<1>11. Fresh(k, d, n, w, want)
  BY <1>1, <1>3, <1>9, <1>10, FreshIs
<1>12. PICK x : x = Data(k, d, n)
  OBVIOUS
<1>13. Written(x, k, d, n)
  BY <1>11, <1>12, DataIs DEF Fresh
<1>14. n \in Nat /\ n <= ChunkBytes
  BY <1>11, Bounds DEF Fresh
<1>15. PICK end : PieceAt(k, p.off, end, Len(want), z, Len(v))
  BY <1>8 DEF TurnDone
<1>16. Before(log, k)
  <2>1. \A j \in L : j # k => Base(k) < Base(j)
    <3>1. L \ {k} \subseteq L \ {k}
      OBVIOUS
    <3> QED BY <1>3, <1>5, <1>14, <1>15, <3>1, QuietDirect
  <2> QED BY <1>3, <2>1 DEF Before
<1>17. Kept(log, Program(log, x), k)
  BY <1>3, <1>13, <1>16, OrderAdd
<1>18. m = Program(log, x)
  BY <1>2, <1>6, <1>12
<1>19. TreeOrder(m) /\ HeadSize(m) = H /\ LooseChunks(m) \subseteq L \ {k}
  BY <1>3, <1>17, <1>18 DEF Kept
<1>20. Quiet(LooseChunks(m), H, Larger(stored_size, Base(k) + n), c, Len(v))
  BY <1>3, <1>5, <1>7, <1>14, <1>15, <1>19, QuietDirect
<1>21. Quiet(LooseChunks(m), H, s, c, Len(v))
  BY <1>2, <1>6, <1>20
<1>22. s \in Nat
  <2>1. Base(k) \in Nat /\ stored_size \in Nat
    BY <1>3, BaseOrder, Bounds
  <2>2. Base(k) + n \in Nat
    BY <1>14, <2>1
  <2>3. Larger(stored_size, Base(k) + n) \in Nat
    BY <2>1, <2>2, LargerIs
  <2> QED BY <1>2, <1>6, <2>3
<1>23. Sizes3(LooseChunks(m), H, s, Len(v))
  BY <1>3, <1>8, <1>19, <1>22 DEF Sizes3, TurnDone
<1>24. Calm(u, v) /\ DirtyKnown(c, u, b)
  BY <1>8 DEF TurnDone
<1>25. InOrder(m, s, c, u, v, b)
  BY <1>19, <1>21, <1>23, <1>24, Settled
<1> QED BY <1>6, <1>25

LEMMA DoFileWrOrder ==
  ASSUME OrderState, DoFileWr, "nospace" \notin Exposed
  PROVE  InOrder(log', stored_size', cache', todo', want', dirty')
<1>1. PICK p, k, L, H, z :
        /\ p = Now /\ k = ChunkOf(Now.off) /\ L = LooseChunks(log) /\ H = HeadSize(log)
        /\ z = Larger(Len(want), Now.off)
  OBVIOUS
<1>2. TurnOrder(p, k, L, H, z)
  BY <1>1, TurnOrderIs
<1>3. \/ UsesCache(p) /\ WriteHit(p, k)
      \/ UsesCache(p) /\ WriteMiss(p, k)
      \/ ~UsesCache(p) /\ WriteDirect(p, k)
  BY <1>1 DEF DoFileWr
<1>4. CASE WriteHit(p, k)
  BY <1>2, <1>4, HitOrder
<1>5. CASE UsesCache(p) /\ WriteMiss(p, k)
  <2>1. param.n_caches # 0
    BY <1>5 DEF UsesCache
  <2> QED BY <1>2, <1>5, <2>1, MissOrder
<1>6. CASE ~UsesCache(p) /\ WriteDirect(p, k)
  BY <1>2, <1>6, DirectOrder
<1> QED BY <1>3, <1>4, <1>5, <1>6

-----------------------------------------------------------------------------
(* Every step keeps the order.                                             *)

(* With nothing in the cache and no call in progress.                      *)
LEMMA BareOrder ==
  ASSUME NEW l, TreeOrder(l), NEW H, HeadSize(l) = H, H \in Nat,
         NEW s \in Nat, H <= s, NEW w, Len(w) \in Nat, Len(w) <= s,
         \A k \in LooseChunks(l) : Base(k) >= s, NEW d
  PROVE  InOrder(l, s, <<>>, <<>>, w, d)
<1>1. LooseChunks(l) \subseteq Chunks
  BY LooseIn
<1>2. PICK n \in Nat : n = Len(w)
  OBVIOUS
<1>3. Sizes3(LooseChunks(l), H, s, n)
  BY <1>1 DEF Sizes3
<1>4. \A k \in LooseChunks(l) : s <= Base(k) /\ n <= Base(k)
  <2>1. ASSUME NEW k \in LooseChunks(l) PROVE s <= Base(k) /\ n <= Base(k)
    <3>1. Base(k) \in Nat /\ Base(k) >= s
      BY LooseHas
    <3> QED BY <1>2, <3>1
  <2> QED BY <2>1
<1>5. \A k : ~Pending(<<>>, k)
  BY NoneDirty, CleanPending
<1>6. DirtyBefore(LooseChunks(l), <<>>)
  BY NoneDirty DEF DirtyBefore, NoDirty
<1>7. Quiet(LooseChunks(l), H, s, <<>>, n)
  BY <1>4, <1>5, <1>6 DEF Quiet, Settling
<1>8. Calm(<<>>, w)
  BY CalmSteps
<1>9. DirtyKnown(<<>>, <<>>, d)
  BY NoneDirty DEF DirtyKnown, NoDirty
<1> QED BY <1>2, <1>3, <1>7, <1>8, <1>9, Settled

LEMMA InitOrder == Init => Ordered
<1> SUFFICES ASSUME Init PROVE Ordered
  OBVIOUS
<1>1. PICK c : c = Hdr(0, FALSE)
  OBVIOUS
<1>2. /\ log = <<c>> /\ up = TRUE /\ stored_size = 0
      /\ cache = <<>> /\ todo = <<>> /\ want = <<>>
  BY <1>1 DEF Init
<1>3. 0 \in 0 .. MaxSize /\ 0 \in Nat
  BY Bounds
<1>4. c \in Recs /\ c.chunk = 0 /\ c.size = 0
  BY <1>1, <1>3, HeaderIs
<1>5. PICK l : l = <<c>>
  OBVIOUS
<1>6. l \in Seq(Recs) /\ Len(l) = 1 /\ l[1] = c
  BY <1>4, <1>5
<1>7. \A i \in 1 .. Len(l) : i = 1 /\ l[i] = c
  BY <1>6
<1>8. IsHead(l, 1)
  BY <1>4, <1>6, <1>7 DEF IsHead, Newest
<1>9. TreeOrder(l)
  <2>1. Behind(l, 1) /\ Stored(l, 1)
    BY <1>7 DEF Behind, Stored
  <2> QED BY <1>8, <2>1 DEF TreeOrder, IsHead
<1>10. HeadSize(l) = 0
  BY <1>4, <1>6, <1>8, HeadIs
<1>11. LooseChunks(l) = {}
  BY <1>4, <1>7 DEF LooseChunks, Loose, Uncovered
<1>12. Len(<<>>) = 0
  OBVIOUS
<1>13. InOrder(l, 0, <<>>, <<>>, <<>>, dirty)
  BY <1>3, <1>9, <1>10, <1>11, <1>12, BareOrder
<1> QED BY <1>2, <1>5, <1>13 DEF InOrder, Ordered

LEMMA MountOrder ==
  ASSUME IInv, Ordered, Mount
  PROVE  Ordered'
<1>1. OnFlash(log) /\ cache = <<>> /\ todo = <<>> /\ ~up /\ FlashOrder(log)
  BY DEF IInv, Ordered, Mount
<1>2. PICK l, s, m, w, d :
        /\ l = log /\ s = Scan(l).size /\ m = Marked(l, Scan(l).live, Scan(l).keep)
        /\ w = Bytes(m, s) /\ d = dirty'
  OBVIOUS
<1>3. /\ up' = TRUE /\ log' = m /\ stored_size' = s /\ want' = w
      /\ cache' = cache /\ todo' = todo
  BY <1>2 DEF Mount, Found
<1>4. s \in 0 .. MaxSize /\ InRam(m, s, MaxSize)
  BY <1>1, <1>2, MountLog
<1>5. l \in Seq(Recs) /\ FlashOrder(l)
  BY <1>1, <1>2 DEF OnFlash
<1>6. TreeOrder(m) /\ HeadSize(m) <= s /\ \A k \in LooseChunks(m) : Base(k) >= s
  BY <1>2, <1>4, <1>5, OrderMount
<1>7. m \in Seq(Recs)
  BY <1>2, <1>5, MarkedIs
<1>8. HeadSize(m) \in Nat /\ s \in Nat
  <2>1. HeadSize(m) \in 0 .. MaxSize
    BY <1>4, <1>7, HeadSizeIs
  <2> QED BY <1>4, <2>1, Bounds
<1>9. w \in Seq(Byte) /\ Len(w) = s
  BY <1>2, <1>4, <1>7, BytesRead
<1>10. Len(w) \in Nat /\ Len(w) <= s
  BY <1>8, <1>9
<1>11. InOrder(m, s, <<>>, <<>>, w, d)
  BY <1>6, <1>8, <1>10, BareOrder
<1>12. InOrder(log', stored_size', cache', todo', want', dirty')
  BY <1>1, <1>2, <1>3, <1>11
<1> QED BY <1>3, <1>12 DEF InOrder, Ordered

LEMMA PowerOrder ==
  ASSUME IInv, Ordered, PowerFails
  PROVE  Ordered'
<1>1. up /\ Running(log, stored_size, file_size, cache, todo, want) /\ TreeOrder(log)
  BY DEF IInv, Ordered, PowerFails
<1>2. PICK l, m : l = log /\ m = Marked(l, {}, {})
  OBVIOUS
<1>3. l \in Seq(Recs) /\ FlashOrder(l)
  BY <1>1, <1>2 DEF Running, TreeOrder, FlashOrder
<1>4. SameLog(l, m)
  BY <1>2, <1>3, MarkedSame
<1>5. FlashOrder(m)
  BY <1>3, <1>4, OrderMarks
<1>6. up' = FALSE /\ log' = m
  BY <1>2 DEF PowerFails
<1> QED BY <1>5, <1>6 DEF Ordered

LEMMA RunningOrder ==
  ASSUME OrderState, Proceeds, "nospace" \notin Exposed, "cut" \notin Exposed
  PROVE  InOrder(log', stored_size', cache', todo', want', dirty')
<1>1. CASE \E w \in Writes, v \in Vals : WrFile(w[1], [i \in 1 .. w[2] |-> v])
  BY <1>1, WrFileOrder
<1>2. CASE \E new \in Sizes : ResizeFile(new)
  BY <1>2, ResizeFileOrder
<1>3. CASE \E data_sync \in BOOLEAN : FlushFile(data_sync)
  BY <1>3, FlushFileOrder
<1>4. CASE \E k \in Chunks : ReadPart(k)
  BY <1>4, ReadPartOrder
<1>5. CASE DoFileWr
  BY <1>5, DoFileWrOrder
<1>6. CASE FlushFileCache
  BY <1>6, FlushCacheOrder
<1>7. CASE UpdateOh
  BY <1>7, UpdateOhOrder
<1>8. CASE Grow
  BY <1>8, GrowOrder
<1>9. CASE PruneChunks
  BY <1>9, PruneOrder
<1>10. CASE ResizeFileDown
  BY <1>10, ResizeDownOrder
<1>11. CASE \E i \in DOMAIN log : GcChunk(i) \/ Erase(i)
  BY <1>11, GcOrder, EraseOrder
<1> QED BY <1>1, <1>2, <1>3, <1>4, <1>5, <1>6, <1>7, <1>8, <1>9, <1>10, <1>11
        DEF Proceeds

(* Every device sends the chunks of a file in order.                       *)
InOrderParams ==
  \A d \in Params : d.n_caches = 0 \/ (d.n_caches = 1 /\ ~d.bypass)

LEMMA OrderKept ==
  ASSUME "nospace" \notin Exposed, "cut" \notin Exposed, InOrderParams,
         IInv, Ordered, [Next]_vars
  PROVE  Ordered'
<1>1. CASE Proceeds
  <2>1. up /\ up' = up
    BY <1>1, StaysUp
  <2>2. AllWell /\ param \in Params
    BY <2>1, WellUp DEF IInv
  <2>3. OneEntry
    BY <2>2 DEF InOrderParams, OneEntry
  <2>4. OrderState
    BY <2>1, <2>2, <2>3 DEF OrderState, InOrder, Ordered
  <2>5. InOrder(log', stored_size', cache', todo', want', dirty')
    BY <1>1, <2>4, RunningOrder
  <2> QED BY <2>1, <2>5 DEF Ordered, InOrder
<1>2. CASE PowerFails
  BY <1>2, PowerOrder
<1>3. CASE Mount
  BY <1>3, MountOrder
<1>4. CASE UNCHANGED vars
  <2>1. /\ log' = log /\ up' = up /\ stored_size' = stored_size /\ cache' = cache
        /\ todo' = todo /\ want' = want /\ dirty' = dirty
    BY <1>4 DEF vars
  <2> QED BY <2>1 DEF Ordered
<1> QED BY <1>1, <1>2, <1>3, <1>4, NextIs

LEMMA OrderInductive ==
  ASSUME "nospace" \notin Exposed, "cut" \notin Exposed, InOrderParams
  PROVE  Spec => [](IInv /\ Ordered)
<1>1. Init => IInv /\ Ordered
  BY InitWell, InitOrder
<1>2. IInv /\ Ordered /\ [Next]_vars => (IInv /\ Ordered)'
  BY StepKeeps, OrderKept
<1> QED BY <1>1, <1>2, PTL DEF Spec

-----------------------------------------------------------------------------
(* What the next mount finds.                                              *)

(* The tree holds what the next mount attaches.                            *)
LEMMA TreeIsFound ==
  ASSUME NEW l \in Seq(Recs), NEW st \in 0 .. MaxSize, InRam(l, st, MaxSize),
         TreeOrder(l), HeadSize(l) <= st,
         \A k \in LooseChunks(l) : Base(k) >= st
  PROVE  \A i \in 1 .. Len(l) : l[i].chunk # 0 => (i \in Scan(l).live <=> l[i].live)
<1>1. PICK h : IsHead(l, h) /\ MarksOK(l, h) /\ LiveOK(l, st, MaxSize)
               /\ DeadOK(l, h, st, MaxSize)
  BY DEF InRam
<1>2. PICK H : H = l[h].size /\ H \in Nat /\ H <= st
  <2>1. HeadSize(l) = l[h].size
    BY <1>1, HeadIs
  <2>2. HeadSize(l) \in 0 .. MaxSize
    BY HeadSizeIs
  <2> QED BY <2>1, <2>2, Bounds
<1>3. Stored(l, h)
  <2>1. PICK g : IsHead(l, g) /\ Stored(l, g)
    BY DEF TreeOrder
  <2> QED BY <1>1, <2>1, SameHead
<1>4. st \in Nat /\ MaxSize \in Nat
  BY Bounds
<1>5. ASSUME NEW i \in 1 .. Len(l), l[i].chunk # 0
      PROVE  i \in Scan(l).live <=> l[i].live
  <2>1. i \in Scan(l).live <=>
          /\ Newest(l, i) /\ ~ShrinkCut(l, i)
          /\ i < h => Base(l[i].chunk) < H
    BY <1>1, <1>2, <1>5, ScanFinds
  <2>2. CASE l[i].live
    <3>1. Newest(l, i) /\ ~ShrinkCut(l, i)
      BY <1>1, <1>5, <2>2 DEF MarksOK, LiveOK
    <3>2. i < h => Base(l[i].chunk) < H
      BY <1>2, <1>3, <1>5, <2>2 DEF Stored
    <3> QED BY <2>1, <2>2, <3>1, <3>2
  <2>3. CASE ~l[i].live
    <3>1. SUFFICES ASSUME i \in Scan(l).live PROVE FALSE
      BY <2>3
    <3>2. Newest(l, i) /\ ~ShrinkCut(l, i) /\ (i < h => Base(l[i].chunk) < H)
      BY <2>1, <3>1
    <3>3. Loose(l, i)
      BY <1>5, <2>3, <3>2 DEF Loose, Uncovered
    <3>4. PICK b \in Nat : b = Base(l[i].chunk) /\ b < MaxSize /\ l[i].chunk \in LooseChunks(l)
      BY <3>3, LooseIs
    <3>5. b >= st
      BY <3>4
    <3>6. ~(i < h)
      BY <1>2, <1>4, <3>2, <3>4, <3>5
    <3>7. Ending(l, i, st, MaxSize) \/ Ended(l, h, i, st, MaxSize)
      BY <1>1, <1>5, <2>3, <3>2 DEF DeadOK
    <3>8. b >= MaxSize
      BY <3>4, <3>6, <3>7 DEF Ending, Ended
    <3> QED BY <1>4, <3>4, <3>8
  <2> QED BY <2>2, <2>3
<1> QED BY <1>5

LEMMA FoundReads ==
  ASSUME NEW l \in Seq(Recs), OneLive(l), NEW m, m = Marked(l, Scan(l).live, Scan(l).keep),
         OneLive(m),
         \A i \in 1 .. Len(l) : l[i].chunk # 0 => (i \in Scan(l).live <=> l[i].live),
         NEW k \in Nat \ {0}
  PROVE  RdDataObj(m, k) = RdDataObj(l, k)
<1>1. PICK a, b : a = Scan(l).live /\ b = Scan(l).keep
  OBVIOUS
<1>2. /\ Marked(l, a, b) \in Seq(Recs) /\ Len(Marked(l, a, b)) = Len(l)
      /\ \A i \in 1 .. Len(l) :
           /\ SameChunk(Marked(l, a, b)[i], l[i])
           /\ Marked(l, a, b)[i].live = (i \in a)
  BY MarkedIs
<1>3. m = Marked(l, a, b)
  BY <1>1
<1>4. m \in Seq(Recs) /\ Len(m) = Len(l)
  BY <1>2, <1>3
<1>5. ASSUME NEW i \in 1 .. Len(l), l[i].chunk = k \/ m[i].chunk = k
      PROVE  /\ m[i].chunk = l[i].chunk /\ m[i].data = l[i].data
             /\ m[i].live <=> l[i].live
  <2>1. SameChunk(m[i], l[i]) /\ m[i].live = (i \in a)
    BY <1>2, <1>3
  <2>2. m[i].chunk = l[i].chunk /\ m[i].data = l[i].data
    BY <2>1 DEF SameChunk
  <2>3. l[i].chunk # 0
    BY <1>5, <2>2
  <2>4. i \in a <=> l[i].live
    BY <1>1, <2>3
  <2> QED BY <2>1, <2>2, <2>4
<1>6. \A i \in 1 .. Len(l) : l[i].live /\ l[i].chunk = k =>
        \E j \in 1 .. Len(m) : m[j].live /\ m[j].chunk = k /\ m[j].data = l[i].data
  BY <1>4, <1>5
<1>7. \A j \in 1 .. Len(m) : m[j].live /\ m[j].chunk = k =>
        \E i \in 1 .. Len(l) : l[i].live /\ l[i].chunk = k
  BY <1>4, <1>5
<1> QED BY <1>4, <1>6, <1>7, RdSame

LEMMA SameBytesAt ==
  ASSUME NEW a \in Seq(Byte), NEW b \in Seq(Byte),
         \A k \in Nat \ {0} : ChunkAt(a, k) = ChunkAt(b, k)
  PROVE  SameData(a, b)
<1>1. ASSUME NEW p \in 1 .. Larger(Len(a), Len(b)) PROVE At(a, p) = At(b, p)
  <2>1. p \in Nat \ {0}
    <3>1. PICK x, y \in Nat : x = Len(a) /\ y = Len(b)
      OBVIOUS
    <3>2. Larger(x, y) \in Nat
      BY LargerIs
    <3> QED BY <3>1, <3>2
  <2>2. PICK k, q : k = ChunkOf(p - 1) /\ q = StartOf(p - 1) + 1
    OBVIOUS
  <2>3. Place(p, k, q)
    BY <2>1, <2>2, PlaceOf
  <2>4. k \in Nat \ {0} /\ q \in 1 .. ChunkBytes /\ p = Base(k) + q
    BY <2>3 DEF Place
  <2>5. ChunkAt(a, k)[q] = At(a, p) /\ ChunkAt(b, k)[q] = At(b, p)
    BY <2>4, ChunkAtIs
  <2>6. ChunkAt(a, k) = ChunkAt(b, k)
    BY <2>4
  <2> QED BY <2>5, <2>6
<1> QED BY <1>1 DEF SameData, At

LEMMA SyncedHere == 
  ASSUME IInv, Ordered, up, todo = <<>>, ~dirty
  PROVE  SameData(Found(log), want)
<1>1. AllWell
  BY WellUp
<1>2. Base0 /\ NotPadding(todo)
  BY <1>1, Base0Is DEF NotPadding
<1>3. InRam(log, stored_size, MaxSize)
  BY <1>1 DEF AllWell, Running, Limit
<1>4. /\ log \in Seq(Recs) /\ stored_size \in 0 .. MaxSize
      /\ CacheOK(log, cache) /\ DataOK(log, cache, todo, want)
      /\ want \in Seq(Byte) /\ cache \in Seq(Entries)
  BY <1>2 DEF Base0
<1>5. /\ TreeOrder(log) /\ DirtyKnown(cache, todo, dirty)
      /\ RamOrder(LooseChunks(log), HeadSize(log), stored_size, cache, todo, want)
  BY DEF Ordered
<1>6. NoDirty(cache)
  BY <1>5 DEF NoDirty, DirtyKnown
<1>7. PICK l, st : l = log /\ st = stored_size
  OBVIOUS
<1>8. Quiet(LooseChunks(l), HeadSize(l), st, cache, Len(want))
  <2>1. Calm(todo, want)
    <3>1. Len(want) \in Nat
      BY <1>4
    <3> QED BY <3>1, CalmSteps
  <2>2. Sizes3(LooseChunks(l), HeadSize(l), st, Len(want))
    <3>1. PICK n \in Nat : n = Len(want)
      BY <1>4
    <3> QED BY <1>3, <1>4, <1>7, <3>1, SizesAre
  <2> QED BY <1>5, <1>7, <2>1, <2>2, QuietIs
<1>9. HeadSize(l) <= st /\ \A k \in LooseChunks(l) : Base(k) >= st
  <2>1. ASSUME NEW k \in LooseChunks(l) PROVE Base(k) >= st
    <3>1. st <= Base(k)
      BY <1>6, <1>8, CleanPending DEF Quiet
    <3>2. Base(k) \in Nat /\ st \in Nat
      BY <1>4, <1>7, LooseHas, Bounds
    <3> QED BY <3>1, <3>2
  <2> QED BY <1>8, <2>1 DEF Quiet
<1>10. \A i \in 1 .. Len(l) : l[i].chunk # 0 => (i \in Scan(l).live <=> l[i].live)
  BY <1>3, <1>4, <1>5, <1>7, <1>9, TreeIsFound
<1>11. OnFlash(l)
  BY <1>3, <1>4, <1>7 DEF OnFlash, InRam, IsHead
<1>12. PICK m, s, f : /\ m = Marked(l, Scan(l).live, Scan(l).keep)
                      /\ s = Scan(l).size /\ f = Bytes(m, s)
  OBVIOUS
<1>13. f = Found(log)
  BY <1>7, <1>12 DEF Found
<1>14. s \in 0 .. MaxSize /\ InRam(m, s, MaxSize)
  BY <1>11, <1>12, MountLog
<1>15. m \in Seq(Recs)
  BY <1>4, <1>7, <1>12, MarkedIs
<1>16. f \in Seq(Byte) /\ \A k \in Nat \ {0} : ChunkAt(f, k) = RdDataObj(m, k)
  BY <1>12, <1>14, <1>15, BytesRead
<1>17. OneLive(l) /\ OneLive(m)
  BY <1>3, <1>4, <1>7, <1>14, <1>15, RamOneLive
<1>18. ASSUME NEW k \in Nat \ {0} PROVE RdDataObj(l, k) = ChunkAt(want, k)
  <2>1. Wanted(todo, want, k) = ChunkAt(want, k)
    BY <1>2, WantedIs
  <2>2. CASE \E e \in Held(cache) : e.chunk = k
    <3>1. PICK e \in Held(cache) : e.chunk = k
      BY <2>2
    <3>2. e.data = Wanted(todo, want, k)
      BY <1>4, <3>1 DEF DataOK
    <3>3. ~e.dirty /\ EntryOK(log, e)
      BY <1>4, <1>6 DEF NoDirty, CacheOK
    <3>4. e.data = RdDataObj(log, k)
      BY <3>1, <3>3 DEF EntryOK
    <3> QED BY <1>7, <2>1, <3>2, <3>4
  <2>3. CASE \A e \in Held(cache) : e.chunk # k
    <3>1. RdDataObj(log, k) = Wanted(todo, want, k)
      BY <1>4, <2>3 DEF DataOK
    <3> QED BY <1>7, <2>1, <3>1
  <2> QED BY <2>2, <2>3
<1>19. \A k \in Nat \ {0} : RdDataObj(m, k) = RdDataObj(l, k)
  BY <1>4, <1>7, <1>10, <1>12, <1>17, FoundReads
<1>20. \A k \in Nat \ {0} : ChunkAt(f, k) = ChunkAt(want, k)
  BY <1>16, <1>18, <1>19
<1> QED BY <1>4, <1>13, <1>16, <1>20, SameBytesAt

(***************************************************************************)
(* Once the header is written with no entry of the cache dirty, a mount    *)
(* reads the file as its calls left it, wherever the collector, the erases *)
(* and earlier power losses have left its chunks: what Synced states for   *)
(* the runs (yaffs_flush_file, yaffs2_scan_chunk).  The device has no      *)
(* cache, as the port configures it, or one entry that every write goes    *)
(* through, so that the chunks of a file are programmed in the order they  *)
(* were written in.                                                        *)
(***************************************************************************)
THEOREM SyncedAlways ==
  ASSUME "nospace" \notin Exposed, "cut" \notin Exposed, InOrderParams
  PROVE  Spec => []Synced
<1>1. IInv /\ Ordered => Synced
  BY SyncedHere DEF Synced
<1> QED BY <1>1, OrderInductive, PTL
=============================================================================
