---------------------------- MODULE MCYaffsGlue -----------------------------
EXTENDS YaffsGlue

(* Reading only; exclusively; and creating files and directories.          *)
SomeFlags == {{}, {"write", "excl"}, {"write", "creat", "trunc"},
              {"creat", "dir"}}
=============================================================================
