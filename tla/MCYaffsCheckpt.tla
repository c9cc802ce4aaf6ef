--------------------------- MODULE MCYaffsCheckpt ---------------------------
EXTENDS YaffsCheckpt

Part(items, faults) == [items |-> items, faults |-> faults]

(* A stream in two blocks, with as many failures as it takes to damage     *)
(* every chunk of it; and one longer than the blocks there are and than    *)
(* the reader looks for.                                                   *)
ShortAndLong == {Part(3, 3), Part(1, 1)}

(* A flash that does not fail.                                             *)
Sound == {Part(3, 0)}
=============================================================================
