----------------------------- MODULE YaffsStore -----------------------------
(***************************************************************************)
(* What the file system promises about names and file contents across      *)
(* power failures: what a mount would find changes only by whole steps of  *)
(* the call in progress.  There is no flash, no log and no power failure   *)
(* here: a crash ends the call, and a mount, a garbage collection and an   *)
(* erasure change nothing.                                                 *)
(*                                                                         *)
(* dir is the set of directory entries, <<name, file>>; a file may have    *)
(* several names.  body[f] is the content of a named file, Empty when it   *)
(* holds no data.  call is the call in progress, on file f and name n.     *)
(***************************************************************************)
CONSTANTS Ids, Names, Vals, Empty, Idle

VARIABLES dir, body, call

Calls == [op : {"create", "link", "unlink", "rename", "write", "truncate",
                "open", "close", "flush"},
          f : Ids, n : Names \cup {Empty}, m : Names \cup {Empty},
          v : Vals \cup {Empty}]

Named(f) == \E n \in Names : <<n, f>> \in dir

Init == dir = {} /\ body = [f \in Ids |-> Empty] /\ call = Idle

Call(c) == call = Idle /\ call' = c /\ UNCHANGED <<dir, body>>

(* The call returns, or power fails and it never will.                     *)
End == call' = Idle /\ UNCHANGED <<dir, body>>

(* The directory changes; a file left without a name loses its content.    *)
SetDir(d) ==
  /\ dir' = d
  /\ body' = [f \in Ids |-> IF \E n \in Names : <<n, f>> \in d
                            THEN body[f] ELSE Empty]
  /\ call' = call

SetBody(f, v) ==
  /\ Named(f)
  /\ body' = [body EXCEPT ![f] = v]
  /\ UNCHANGED <<dir, call>>

(* A new file, or a further name of an existing one.                       *)
Enter ==
  /\ call.op \in {"create", "link"}
  /\ \A f \in Ids : <<call.n, f>> \notin dir
  /\ SetDir(dir \cup {<<call.n, call.f>>})

Remove ==
  /\ call.op = "unlink"
  /\ SetDir(dir \ {<<call.n, call.f>>})

(* The file gets the new name in place of its old one, and in place of the *)
(* file that had the new name, in one step.                                *)
Rename ==
  /\ call.op = "rename"
  /\ <<call.n, call.f>> \in dir
  /\ SetDir({e \in dir : e # <<call.n, call.f>> /\ e[1] # call.m}
            \cup {<<call.m, call.f>>})

Write == call.op = "write" /\ SetBody(call.f, call.v)

(* Truncation, which is also the first half of the removal of a file's     *)
(* last name.  The chunks are let go before a header says so: until then   *)
(* the content may be gone or, if only the newest version of it has been   *)
(* erased, be an older one.                                                *)
Truncate ==
  /\ call.op \in {"truncate", "unlink"}
  /\ \E v \in Vals \cup {Empty} : SetBody(call.f, v)

Next ==
  \/ \E c \in Calls : Call(c)
  \/ call # Idle /\ (End \/ Enter \/ Remove \/ Rename \/ Write \/ Truncate)

Spec == Init /\ [][Next]_<<dir, body, call>>
=============================================================================
