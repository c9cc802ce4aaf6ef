----------------------------- MODULE MCYaffsFs ------------------------------
EXTENDS YaffsFs

Mode(read, write, append, creat, trunc, shareRead, shareWrite) ==
  [read |-> read, write |-> write, append |-> append, creat |-> creat,
   trunc |-> trunc, shareRead |-> shareRead, shareWrite |-> shareWrite]

(* Reading; and appending to a new or emptied file.  Both share reading,   *)
(* and neither writing.                                                    *)
SomeModes == {Mode(TRUE, FALSE, FALSE, FALSE, FALSE, TRUE, FALSE),
              Mode(TRUE, TRUE, TRUE, TRUE, TRUE, TRUE, FALSE)}

Alike == Permutations(Objs) \cup Permutations(Names) \cup
         Permutations(Dscs) \cup Permutations(Tasks)
=============================================================================
