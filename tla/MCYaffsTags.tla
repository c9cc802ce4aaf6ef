---------------------------- MODULE MCYaffsTags -----------------------------
EXTENDS YaffsTags

Plain(obj_id, chunk_id, n_bytes) ==
  [Zeroed EXCEPT !.used = TRUE, !.seq = {0, 12}, !.obj_id = obj_id,
                 !.chunk_id = chunk_id, !.n_bytes = n_bytes]

Header(type, size, equiv, shadows) ==
  [Plain({0, 8}, {}, {3}) EXCEPT !.extra = TRUE, !.parent = {0, 1},
     !.shrink = TRUE, !.shadows = shadows, !.type = type, !.size = size,
     !.equiv = equiv]

(* A chunk of data; headers of a short file, a file too long for the       *)
(* extra information, a hard link and a directory.                         *)
SomeTags == {Plain({0, 8}, {0, 27}, {4, 11}),
             Header({0}, {0, 30}, {}, FALSE), Header({0}, {0, 31}, {}, TRUE),
             Header({2}, {}, {1, 17}, TRUE), Header({0, 1}, {}, {}, FALSE)}

SomeDatas == {{<<1, 0, 0>>, <<1, 255, 7>>, <<2, 128, 3>>}}

(* Of every byte and every code some bits, the outermost among them.       *)
SomeWeak ==
  {p \in TagPlaces : p[4] \in {0, 3, 7}}
  \cup {p \in TagEccPlaces : p[4] \in {0, 1, 3, 5, 7, 31}}
  \cup {p \in DataPlaces(1) \cup DataPlaces(2) : p[4] \in {0, 3, 7}}
  \cup {p \in EccPlaces(1) \cup EccPlaces(2) : p[4] \in {0, 1, 15, 16, 18, 23}}
=============================================================================
