----------------------------- MODULE MCYaffsBlocks -----------------------------
(***************************************************************************)
(* YaffsBlocks for TLC.  A configuration takes one of the workloads below  *)
(* as ClientOps; each is the smallest that brings out the interactions its *)
(* run is about.                                                           *)
(***************************************************************************)
EXTENDS YaffsBlocks

\* Files come and go while the background collector works and checkpoints are
\* saved.
FilesGcAndSave == {"data", "delete", "soft", "gc", "save"}

\* A disk is filled up and its headers are written over and over, also when a
\* failing flash makes it smaller.
FillUp == {"data", "header"}

\* Files come and go, are cut short and get holes, on a flash that fails: blocks
\* with shrink headers are collected, and blocks prioritised after read errors.
CutsAndErrors == {"data", "delete", "shrink", "read", "gc"}

\* How many blocks are taken: the same whatever fails, or one less for each
\* failure, which multiplies the states.
Four == [f \in 0 .. MaxFaults |-> 4]
Five == [f \in 0 .. MaxFaults |-> 5]
SevenLessFaults == [f \in 0 .. MaxFaults |-> 7 - f]

\* A part with a bad block, and one without.
BadBlock == {2}
NoBadBlock == {}

=============================================================================
