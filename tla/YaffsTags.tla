----------------------------- MODULE YaffsTags ------------------------------
(***************************************************************************)
(* A chunk on flash, down to its bits: how tags are packed, what the error *)
(* correcting codes of tags and data do, and how the driver of the port    *)
(* puts the two results together (yaffs_packedtags2.c, yaffs_ecc.c,        *)
(* Micron_nandflash4k.c).                                                  *)
(*                                                                         *)
(* A number is the set of its bits that are 1, so that exclusive or is     *)
(* symmetric difference and the flags of packed tags are members.  The     *)
(* page is the set of the places that hold a 1; an erased one holds 1      *)
(* everywhere.  Data bytes outside DataBytes do not change.                *)
(***************************************************************************)
EXTENDS Naturals, FiniteSets

CONSTANTS Tags,      \* the tags chunks are written with
          Datas,     \* the data, as sets of <<block, byte, bit>>
          NBlocks,   \* blocks of 256 bytes in a chunk
          DataBytes, \* of each block, the bytes looked at
          Weak,      \* the places whose value may change by themselves
          MaxFlips,
          Nothing

VARIABLES page, wrote, flips, got

vars == <<page, wrote, flips, got>>

Xor(a, b) == (a \ b) \cup (b \ a)
Odd(S) == Cardinality(S) % 2 = 1
Bits(i) == {k \in 0 .. 7 : (i \div 2 ^ k) % 2 = 1}
Word == 0 .. 31

(* Tags as yaffs_guts.c makes them: ids below 2^28 (YAFFS_MAX_OBJECT_ID,   *)
(* YAFFS_MAX_CHUNK_ID), a type of four bits, and a sequence number with at *)
(* least three zero bits, as every number below 2^29 has.                  *)
TagRecords ==
  [used : {TRUE}, seq : SUBSET Word, obj_id : SUBSET (0 .. 27),
   chunk_id : SUBSET (0 .. 27), n_bytes : SUBSET Word, extra : BOOLEAN,
   parent : SUBSET (0 .. 27), shrink : BOOLEAN, shadows : BOOLEAN,
   type : SUBSET (0 .. 3), equiv : SUBSET Word, size : SUBSET (0 .. 63)]

ASSUME TagsAssumption ==
  /\ Tags \subseteq TagRecords
  /\ \A t \in Tags : Cardinality(t.seq) <= 29

(* What a chunk may be written with.                                       *)
Writings ==
  [tags : Tags, data : [1 .. NBlocks -> SUBSET (DataBytes \X (0 .. 7))]]

(* Chunks of at least one block, and data within it.                       *)
ASSUME DataAssumption ==
  /\ NBlocks \in Nat \ {0} /\ DataBytes \subseteq 0 .. 255
  /\ Datas \subseteq SUBSET ((1 .. NBlocks) \X DataBytes \X (0 .. 7))
  /\ Nothing \notin Writings

-----------------------------------------------------------------------------
(* Packed tags: four words, of which the upper bits of two hold the extra  *)
(* information of a header.                                                *)

TypeFile == {0}
TypeHardlink == {2}
HeaderInfo == 31
Shrink == 30
Shadows == 29
ExtraFlags == 28 .. 31
TypeShift == 28

CheckTagsExtraPackable_AnySize(t) == t.chunk_id = {} /\ t.extra

CheckTagsExtraPackable(t) ==
  /\ t.chunk_id = {} /\ t.extra
  /\ ~(t.type = TypeFile /\ \E b \in t.size : b >= 31)

PackTagsOnly(t) ==
  IF ~CheckTagsExtraPackable(t)
  THEN [seq |-> t.seq, obj_id |-> t.obj_id, chunk_id |-> t.chunk_id,
        n_bytes |-> t.n_bytes]
  ELSE [seq |-> t.seq,
        obj_id |-> (t.obj_id \ ExtraFlags) \cup {b + TypeShift : b \in t.type},
        chunk_id |-> {HeaderInfo} \cup t.parent
                     \cup (IF t.shrink THEN {Shrink} ELSE {})
                     \cup (IF t.shadows THEN {Shadows} ELSE {}),
        n_bytes |-> IF t.type = TypeHardlink THEN t.equiv
                    ELSE IF t.type = TypeFile THEN t.size \cap Word ELSE {}]

NoExtra(t) ==
  [t EXCEPT !.extra = FALSE, !.parent = {}, !.shrink = FALSE,
            !.shadows = FALSE, !.type = {}, !.equiv = {}, !.size = {}]

Zeroed ==
  [used |-> FALSE, seq |-> {}, obj_id |-> {}, chunk_id |-> {}, n_bytes |-> {},
   extra |-> FALSE, parent |-> {}, shrink |-> FALSE, shadows |-> FALSE,
   type |-> {}, equiv |-> {}, size |-> {}]

UnpackTagsOnly(p) ==
  LET type == {b - TypeShift : b \in p.obj_id \cap ExtraFlags}
  IN IF p.seq = Word THEN Zeroed
     ELSE IF HeaderInfo \notin p.chunk_id
     THEN [Zeroed EXCEPT !.used = TRUE, !.seq = p.seq, !.obj_id = p.obj_id,
                         !.chunk_id = p.chunk_id, !.n_bytes = p.n_bytes]
     ELSE [Zeroed EXCEPT !.used = TRUE, !.seq = p.seq, !.extra = TRUE,
             !.obj_id = p.obj_id \ ExtraFlags,
             !.parent = p.chunk_id \ ExtraFlags,
             !.shrink = Shrink \in p.chunk_id,
             !.shadows = Shadows \in p.chunk_id,
             !.type = type,
             !.equiv = IF type = TypeHardlink THEN p.n_bytes ELSE {},
             !.size = IF type = TypeHardlink THEN {} ELSE p.n_bytes]

(* The four words in memory, in bytes.                                     *)
Bytes(p) ==
  LET At(w, n) == {<<4 * n + 3 - b \div 8, b % 8>> : b \in w}
  IN At(p.seq, 0) \cup At(p.obj_id, 1) \cup At(p.chunk_id, 2)
     \cup At(p.n_bytes, 3)

Words(d) ==
  LET At(n) == {b \in Word : <<4 * n + 3 - b \div 8, b % 8>> \in d}
  IN [seq |-> At(0), obj_id |-> At(1), chunk_id |-> At(2), n_bytes |-> At(3)]

-----------------------------------------------------------------------------
(* The codes.  For each bit of a place's column (its bit in the byte) and  *)
(* line (its byte), the parity of the ones that have it and of the ones    *)
(* that have not: column_parity_table, and the sums over i and ~i of the   *)
(* bytes of odd parity.                                                    *)

OddBytes(d) == {i \in {x[1] : x \in d} : Odd({x \in d : x[1] = i})}

ColParity(d) ==
  {2 * k + 1 : k \in {j \in 0 .. 2 : Odd({x \in d : j \in Bits(x[2])})}}
  \cup {2 * k : k \in {j \in 0 .. 2 : Odd({x \in d : j \notin Bits(x[2])})}}

LineParity(odd, W) == {k \in W : Odd({i \in odd : k \in Bits(i)})}
LineParityPrime(odd, W) == {k \in W : Odd({i \in odd : k \notin Bits(i)})}

(* The place a difference of column parities names, when each of its three *)
(* pairs has one bit.                                                      *)
OneColumn(c) == \A k \in 0 .. 2 : (2 * k \in c) # (2 * k + 1 \in c)

Number(b) == CHOOSE i \in 0 .. 255 : Bits(i) = b

Column(c) == Number({k \in 0 .. 2 : 2 * k + 1 \in c})

EccCalcOther(d) ==
  LET odd == OddBytes(d)
  IN [col |-> ColParity(d), line |-> LineParity(odd, Word),
      prime |-> LineParityPrime(odd, Word)]

(* yaffs_ecc_correct_other: the data and 0, 1 or -1 as in the code.        *)
EccCorrectOther_AnyLine(d, n_bytes, read, test) ==
  LET col == Xor(read.col, test.col)
      line == Xor(read.line, test.line)
      prime == Xor(read.prime, test.prime)
  IN IF col \cup line \cup prime = {} THEN [data |-> d, status |-> "ok"]
     ELSE IF OneColumn(col)
     THEN IF \A i \in 0 .. n_bytes - 1 : Bits(i) # line
          THEN [data |-> d, status |-> "unfixed"]
          ELSE [data |-> Xor(d, {<<Number(line), Column(col)>>}),
                status |-> "fixed"]
     ELSE [data |-> d, status |-> "unfixed"]

EccCorrectOther(d, n_bytes, read, test) ==
  LET col == Xor(read.col, test.col)
      line == Xor(read.line, test.line)
      prime == Xor(read.prime, test.prime)
  IN IF col \cup line \cup prime = {} THEN [data |-> d, status |-> "ok"]
     ELSE IF line = Word \ prime /\ OneColumn(col)
     THEN IF \A i \in 0 .. n_bytes - 1 : Bits(i) # line
          THEN [data |-> d, status |-> "unfixed"]
          ELSE [data |-> Xor(d, {<<Number(line), Column(col)>>}),
                status |-> "fixed"]
     ELSE [data |-> d,
           status |-> IF Cardinality(line) + Cardinality(prime)
                         + Cardinality(col) = 1 THEN "fixed" ELSE "unfixed"]

(* yaffs_ecc_calc: the same for 256 bytes, inverted, in 24 bits: the lines *)
(* and their primes alternate in the lower 16, the columns in the upper 6. *)
EccCalc(d) ==
  LET odd == OddBytes(d)
  IN (0 .. 23) \ ({2 * k + 1 : k \in LineParity(odd, 0 .. 7)}
                  \cup {2 * k : k \in LineParityPrime(odd, 0 .. 7)}
                  \cup {18 + c : c \in ColParity(d)})

EccCorrect_NoPairs(d, read, test) ==
  LET delta == Xor(read, test)
      line == {k \in 0 .. 7 : 2 * k + 1 \in delta}
      col == {c \in 0 .. 5 : 18 + c \in delta}
  IN IF delta = {} THEN [data |-> d, status |-> "ok"]
     ELSE IF OneColumn(col)
     THEN [data |-> Xor(d, {<<Number(line), Column(col)>>}), status |-> "fixed"]
     ELSE [data |-> d, status |-> "unfixed"]

EccCorrect(d, read, test) ==
  LET delta == Xor(read, test)
      line == {k \in 0 .. 7 : 2 * k + 1 \in delta}
      col == {c \in 0 .. 5 : 18 + c \in delta}
  IN IF delta = {} THEN [data |-> d, status |-> "ok"]
     ELSE IF /\ \A k \in 0 .. 7 : (2 * k \in delta) # (2 * k + 1 \in delta)
             /\ OneColumn(col)
     THEN [data |-> Xor(d, {<<Number(line), Column(col)>>}), status |-> "fixed"]
     ELSE [data |-> d,
           status |-> IF Cardinality(delta) = 1 THEN "fixed" ELSE "unfixed"]

-----------------------------------------------------------------------------
(* The page.  Places are <<part, block, byte or 0, bit>>.                  *)

Blocks == 1 .. NBlocks
TagPlaces == {<<"tags", 0, i, b>> : i \in 0 .. 15, b \in 0 .. 7}
TagEccPlaces == {<<"col", 0, 0, b>> : b \in 0 .. 7}
                \cup {<<x, 0, 0, b>> : x \in {"line", "prime"}, b \in Word}
DataPlaces(n) == {<<"data", n, i, b>> : i \in DataBytes, b \in 0 .. 7}
EccPlaces(n) == {<<"ecc", n, 0, b>> : b \in 0 .. 23}
Places == TagPlaces \cup TagEccPlaces
          \cup UNION {DataPlaces(n) \cup EccPlaces(n) : n \in Blocks}

Part(x) == {p[4] : p \in {q \in page : q[1] = x}}
TagBytes == {<<p[3], p[4]>> : p \in page \cap TagPlaces}
DataBlock(n) == {<<p[3], p[4]>> : p \in {q \in page : q[1] = "data" /\ q[2] = n}}
EccBlock(n) == {p[4] : p \in {q \in page : q[1] = "ecc" /\ q[2] = n}}

(* No more bits change than the codes are made to detect.                  *)
ASSUME FlipsAssumption == Weak \subseteq Places /\ MaxFlips \in 0 .. 2

Init == page = Places /\ wrote = Nothing /\ flips = {} /\ got = Nothing

(* yaffs_nand_tag_WriteChunk.                                              *)
WriteChunk(t, d) ==
  LET tags == Bytes(PackTagsOnly(t))
      ecc == EccCalcOther(tags)
      Of(n) == {<<x[2], x[3]>> : x \in {y \in d : y[1] = n}}
  IN /\ page = Places /\ wrote = Nothing
     /\ page' = {<<"tags", 0, x[1], x[2]>> : x \in tags}
                \cup {<<"col", 0, 0, b>> : b \in ecc.col}
                \cup {<<"line", 0, 0, b>> : b \in ecc.line}
                \cup {<<"prime", 0, 0, b>> : b \in ecc.prime}
                \cup {<<"data", x[1], x[2], x[3]>> : x \in d}
                \cup UNION {{<<"ecc", n, 0, b>> : b \in EccCalc(Of(n))}
                            : n \in Blocks}
     /\ wrote' = [tags |-> t, data |-> [n \in Blocks |-> Of(n)]]
     /\ got' = Nothing /\ UNCHANGED flips

(* yaffs_unpack_tags2.                                                     *)
UnpackTags2 ==
  LET read == [col |-> Part("col"), line |-> Part("line"),
               prime |-> Part("prime")]
      fix == EccCorrectOther(TagBytes, 16, read, EccCalcOther(TagBytes))
      used == Words(TagBytes).seq # Word
  IN IF used THEN [tags |-> UnpackTagsOnly(Words(fix.data)),
                   status |-> fix.status]
     ELSE [tags |-> Zeroed, status |-> "ok"]

(* The loop over the blocks: it ends at the first that cannot be fixed,    *)
(* and what it found is what it found last.                                *)
EccStatus_NoBreak(fix) == fix[NBlocks].status

EccStatus(fix) ==
  IF \E n \in Blocks : fix[n].status = "unfixed" THEN "unfixed"
  ELSE fix[NBlocks].status

(* yaffs_nand_tag_ReadChunk of data and tags.                              *)
ReadChunk ==
  LET u == UnpackTags2
      fix == [n \in Blocks |->
                EccCorrect(DataBlock(n), EccBlock(n), EccCalc(DataBlock(n)))]
      both == {EccStatus(fix), u.status}
  IN /\ got = Nothing
     /\ got' = [tags |-> u.tags, data |-> [n \in Blocks |-> fix[n].data],
                ecc_result |-> IF ~u.tags.used THEN u.status
                               ELSE IF "unfixed" \in both THEN "unfixed"
                               ELSE IF "fixed" \in both THEN "fixed"
                               ELSE "ok"]
     /\ UNCHANGED <<page, wrote, flips>>

(* The flash: a bit changes; a block is erased.                            *)
Flip(p) ==
  /\ Cardinality(flips) < MaxFlips
  /\ p \in Weak \ flips
  /\ page' = Xor(page, {p})
  /\ flips' = flips \cup {p}
  /\ got' = Nothing
  /\ UNCHANGED wrote

Erase ==
  /\ page' = Places /\ wrote' = Nothing /\ flips' = {} /\ got' = Nothing

Next ==
  \/ \E t \in Tags, d \in Datas : WriteChunk(t, d)
  \/ ReadChunk
  \/ \E p \in Weak : Flip(p)
  \/ Erase

Spec == Init /\ [][Next]_vars

-----------------------------------------------------------------------------
(* What a reader is to learn of the tags a chunk was written with: extra   *)
(* information for a header that has it and whose size fits, with the      *)
(* words it does not use left out; an erased chunk is not in use.          *)
Stored(t) ==
  IF t.chunk_id = {} /\ t.extra /\ (t.type = TypeFile => \A b \in t.size : b < 31)
  THEN [t EXCEPT !.n_bytes = {},
                 !.equiv = IF t.type = TypeHardlink THEN @ ELSE {},
                 !.size = IF t.type = TypeFile THEN @ ELSE {}]
  ELSE NoExtra(t)

Expected == IF wrote = Nothing THEN Zeroed ELSE Stored(wrote.tags)

FlipsIn(parts, n) == {p \in flips : p[1] \in parts /\ p[2] = n}

(* Tags that yaffs_unpack_tags2 does not give as unfixed are those that    *)
(* were written, whichever two bits of tags and code have changed, and an  *)
(* erased chunk is not taken for a written one; and one bit in the tags    *)
(* and one in each block of data are always put right.                     *)
TagsTrusted ==
  got # Nothing =>
    /\ got.ecc_result # "unfixed" => got.tags = Expected
    /\ /\ wrote # Nothing
       /\ Cardinality(FlipsIn({"tags", "col", "line", "prime"}, 0)) <= 1
       /\ \A n \in Blocks : Cardinality(FlipsIn({"data", "ecc"}, n)) <= 1
       => got.ecc_result # "unfixed"

(* Data that the driver does not give as unfixed are those that were       *)
(* written, in every block of the chunk.                                   *)
DataTrusted ==
  got # Nothing /\ wrote # Nothing /\ got.ecc_result # "unfixed"
    => got.data = wrote.data
=============================================================================
