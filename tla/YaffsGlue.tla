----------------------------- MODULE YaffsGlue ------------------------------
(***************************************************************************)
(* The driver for the VxWorks I/O system (vxLib_yaffs2.c) and its locks.   *)
(*                                                                         *)
(* Tasks call the driver at the same time.  It has a semaphore of its own, *)
(* devSem, next to the lock of the POSIX layer, mutex1 (Yaffscfg.c): some  *)
(* calls hold devSem and use the core directly, some only go through the   *)
(* POSIX layer and hold mutex1, some do both.  pc says where a task stands *)
(* between two points at which another may run; the task is inside the     *)
(* core where InCore says so.                                              *)
(*                                                                         *)
(* The core is reduced to its names, the POSIX layer to the object a       *)
(* descriptor or search context refers to (field yfd).  An object that     *)
(* nothing refers to is free memory and may be given out again.  held is   *)
(* auxiliary: the descriptors the I/O system has been given.               *)
(***************************************************************************)
EXTENDS Naturals, FiniteSets, Functions

CONSTANTS Tasks, Paths,
          Files, Dirs,  \* memory for objects of either type
          maxFiles,     \* size of pFdList
          Flags,        \* sets of flags files are opened with
          None,
          Exposed       \* which known disagreements may be met: "rename" (a
                        \* name changes under an open), "shared" (two tasks
                        \* use one descriptor)

ASSUME GlueAssumption ==
  /\ maxFiles \in Nat \ {0}
  /\ None \notin Tasks \cup Files \cup Dirs
  /\ Files \cap Dirs = {}

VARIABLES devSem, mutex1, is_mounted, name, pFdList, pc, call, held

locks == <<devSem, mutex1>>
vars == <<locks, is_mounted, name, pFdList, pc, call, held>>

Slots == 1 .. maxFiles
Objs == Files \cup Dirs
FreeFd == [inUse |-> FALSE, obj |-> None, yfd |-> None, path |-> None,
           exclusive |-> FALSE]
NoCall == [op |-> "none", fd |-> 0, path |-> None, new |-> None, flags |-> {},
           obj |-> None]

(* The objects in memory: those with a name, and files that are open.  An  *)
(* open directory is not counted by the POSIX layer.                       *)
Live == {o \in Objs : o \in Range(name)}
        \cup {o \in Files : \E s \in Slots : pFdList[s].yfd = o}

-----------------------------------------------------------------------------
(* The two semaphores are recursive mutexes.  A nested take never leaves a *)
(* step of this model, so the owner is all there is to know of each.       *)

Free(sem, t) == sem \in {None, t}
Take(sem, t) == Free(sem, t) /\ sem' = t
Give(sem, t) == sem' = IF sem = t THEN None ELSE sem

Goto(t, l) == pc' = [pc EXCEPT ![t] = l]

Begin(t, l, c) == pc[t] = "idle" /\ Goto(t, l) /\ call' = [call EXCEPT ![t] = c]

Return(t) == Goto(t, "idle") /\ call' = [call EXCEPT ![t] = NoCall]

(* Entering the POSIX layer takes its lock.                                *)
Enter(t, from, l) ==
  /\ pc[t] = from
  /\ Take(mutex1, t)
  /\ Goto(t, l)
  /\ UNCHANGED <<devSem, is_mounted, name, pFdList, call, held>>

(* Who is free to use a descriptor: the tasks own theirs.                  *)
Usable(s) ==
  /\ s \in held
  /\ "shared" \notin Exposed => \A t \in Tasks : call[t].fd # s

Changing(t) == call[t].op \in {"rename", "unmount"}
Naming(t) == call[t].op \in {"open", "delete"}

Init ==
  /\ devSem = None /\ mutex1 = None
  /\ is_mounted \in BOOLEAN
  /\ name = [p \in Paths |-> None]
  /\ pFdList = [s \in Slots |-> FreeFd]
  /\ pc = [t \in Tasks |-> "idle"]
  /\ call = [t \in Tasks |-> NoCall]
  /\ held = {}

-----------------------------------------------------------------------------
(* yaffsOpen.                                                              *)

Open(t, path, flags) ==
  /\ "rename" \notin Exposed => \A u \in Tasks : ~Changing(u)
  /\ Begin(t, IF is_mounted THEN "fdget" ELSE "volmount",
           [NoCall EXCEPT !.op = "open", !.path = path, !.flags = flags])
  /\ UNCHANGED <<locks, is_mounted, name, pFdList, held>>

(* yaffsVolMount: a volume somebody else has mounted meanwhile is an       *)
(* error.  On the way out devSemOwned is not initialised; giving a         *)
(* semaphore that one does not own does nothing.                           *)
VolMount(t) ==
  /\ pc[t] = "volmount"
  /\ IF is_mounted
     THEN Free(devSem, t) /\ Return(t) /\ UNCHANGED devSem
     ELSE Take(devSem, t) /\ Goto(t, "mounting") /\ UNCHANGED call
  /\ UNCHANGED <<mutex1, is_mounted, name, pFdList, held>>

MountOk(t) ==
  /\ pc[t] = "mountcore"
  /\ is_mounted' = TRUE
  /\ Give(mutex1, t) /\ Give(devSem, t)
  /\ Goto(t, "fdget")
  /\ UNCHANGED <<name, pFdList, call, held>>

MountFails(t) ==
  /\ pc[t] = "mountcore"
  /\ Give(mutex1, t) /\ Give(devSem, t)
  /\ Return(t)
  /\ UNCHANGED <<is_mounted, name, pFdList, held>>

Unused == {s \in Slots : ~pFdList[s].inUse}

(* yaffsFdGet takes and gives devSem.                                      *)
FdGet(t, s) ==
  /\ pc[t] = "fdget" /\ Free(devSem, t)
  /\ s \in Unused /\ \A r \in Unused : s <= r
  /\ pFdList' = [pFdList EXCEPT ![s] = [FreeFd EXCEPT !.inUse = TRUE]]
  /\ call' = [call EXCEPT ![t].fd = s]
  /\ Goto(t, "find")
  /\ UNCHANGED <<locks, is_mounted, name, held>>

NoFd(t) ==
  /\ pc[t] = "fdget" /\ Free(devSem, t)
  /\ Unused = {}
  /\ Return(t)
  /\ UNCHANGED <<locks, is_mounted, name, pFdList, held>>

(* The other descriptors of a file, and whether they forbid this open.     *)
Others(s, o) == {r \in Slots \ {s} : pFdList[r].inUse /\ pFdList[r].obj = o}

OpenDenied_NotIfExclusive(c, o) ==
  IF o \in Dirs THEN "write" \in c.flags
  ELSE "excl" \in c.flags /\ ("creat" \in c.flags \/ Others(c.fd, o) # {})

OpenDenied(c, o) ==
  IF o \in Dirs THEN "write" \in c.flags
  ELSE \/ "excl" \in c.flags /\ ("creat" \in c.flags \/ Others(c.fd, o) # {})
       \/ \E r \in Others(c.fd, o) : pFdList[r].exclusive

Find(t) ==
  LET c == call[t]
      o == name[c.path]
      bad == IF o = None THEN "creat" \notin c.flags ELSE OpenDenied(c, o)
  IN /\ pc[t] = "find"
     /\ Take(devSem, t)
     /\ call' = [call EXCEPT ![t].obj = o]
     /\ Goto(t, IF bad THEN "ret" ELSE IF o = None THEN "create" ELSE "opening")
     /\ UNCHANGED <<mutex1, is_mounted, name, pFdList, held>>

(* yaffsSetupDirectory creates in the core.  It lacks its return           *)
(* statement: the caller gets the object, as the compiler happens to leave *)
(* it in the register of results, or none.                                 *)
Create(t) ==
  LET c == call[t]
      free == (IF "dir" \in c.flags THEN Dirs ELSE Files) \ Live
  IN /\ pc[t] = "create"
     /\ \/ \E o \in IF name[c.path] = None THEN free ELSE {} :
             /\ name' = [name EXCEPT ![c.path] = o]
             /\ \/ /\ call' = [call EXCEPT ![t].obj = o]
                   /\ Goto(t, "opening")
                \/ Goto(t, "ret") /\ UNCHANGED call
        \/ Goto(t, "ret") /\ UNCHANGED <<name, call>>
     /\ UNCHANGED <<locks, is_mounted, pFdList, held>>

(* yaffs_open or yaffs_opendir, which look the path up again.              *)
Opens(t, o) ==
  LET c == call[t]
  IN /\ pc[t] = "opencore"
     /\ is_mounted
     /\ IF c.obj \in Dirs THEN o = name[c.path] /\ o \in Dirs
        ELSE IF name[c.path] = None
        THEN "creat" \in c.flags /\ o \in Files \ Live
        ELSE o = name[c.path] /\ ~({"creat", "excl"} \subseteq c.flags)
             /\ (o \in Dirs => "write" \notin c.flags)
     /\ name' = [name EXCEPT ![c.path] = o]
     /\ pFdList' = [pFdList EXCEPT ![c.fd].yfd = o]
     /\ Give(mutex1, t)
     /\ Goto(t, "opened")
     /\ UNCHANGED <<devSem, is_mounted, call, held>>

OpenFails_Retries(t) ==
  /\ pc[t] = "opencore"
  /\ Give(mutex1, t)
  /\ Goto(t, "opening")
  /\ UNCHANGED <<devSem, is_mounted, name, pFdList, call, held>>

OpenFails(t) ==
  /\ pc[t] = "opencore"
  /\ Give(mutex1, t)
  /\ Goto(t, "ret")
  /\ UNCHANGED <<devSem, is_mounted, name, pFdList, call, held>>

(* The descriptor is filled in; O_TRUNC resizes the file in the core.      *)
Opened(t) ==
  LET c == call[t]
  IN /\ pc[t] = "opened"
     /\ pFdList' = [pFdList EXCEPT
          ![c.fd] = [@ EXCEPT !.obj = c.obj, !.path = c.path,
                              !.exclusive = "excl" \in c.flags]]
     /\ Give(devSem, t)
     /\ held' = held \cup {c.fd}
     /\ Return(t)
     /\ UNCHANGED <<mutex1, is_mounted, name>>

OpenRet(t) ==
  /\ pc[t] = "ret"
  /\ Give(devSem, t)
  /\ Goto(t, "fdfree")
  /\ UNCHANGED <<mutex1, is_mounted, name, pFdList, call, held>>

FdFree_Forgotten(t) ==
  /\ pc[t] = "fdfree" /\ Free(devSem, t)
  /\ Return(t)
  /\ UNCHANGED <<locks, is_mounted, name, pFdList, held>>

FdFree(t) ==
  /\ pc[t] = "fdfree" /\ Free(devSem, t)
  /\ pFdList' = [pFdList EXCEPT ![call[t].fd] = FreeFd]
  /\ Return(t)
  /\ UNCHANGED <<locks, is_mounted, name, held>>

-----------------------------------------------------------------------------
(* yaffsClose.                                                             *)

Close(t, s) ==
  /\ Usable(s)
  /\ pFdList[s].inUse
  /\ Begin(t, "close", [NoCall EXCEPT !.op = "close", !.fd = s])
  /\ UNCHANGED <<locks, is_mounted, name, pFdList, held>>

CloseTake(t) ==
  /\ pc[t] = "close"
  /\ Take(devSem, t)
  /\ Goto(t, "closing")
  /\ UNCHANGED <<mutex1, is_mounted, name, pFdList, call, held>>

(* When the POSIX layer refuses the descriptor stays in use.               *)
CloseCore_KeepsSem(t) ==
  LET s == call[t].fd
  IN /\ pc[t] = "closecore"
     /\ pFdList' = [pFdList EXCEPT ![s] = FreeFd]
     /\ held' = held \ {s}
     /\ Give(mutex1, t) /\ UNCHANGED devSem
     /\ Return(t)
     /\ UNCHANGED <<is_mounted, name>>

CloseCore(t) ==
  LET s == call[t].fd
      refused == pFdList[s].yfd = None
  IN /\ pc[t] = "closecore"
     /\ pFdList' = IF refused THEN pFdList ELSE [pFdList EXCEPT ![s] = FreeFd]
     /\ held' = held \ {s}
     /\ Give(mutex1, t) /\ Give(devSem, t)
     /\ Return(t)
     /\ UNCHANGED <<is_mounted, name>>

-----------------------------------------------------------------------------
(* yaffsRead, yaffsWrite, and FIOFLUSH and FIOSYNC of yaffsIoctl: the      *)
(* object is read from the descriptor before devSem is taken, and the core *)
(* is used without mutex1.                                                 *)

FileIo(t, s) ==
  /\ Usable(s)
  /\ pFdList[s].obj \in Files
  /\ Begin(t, "io", [NoCall EXCEPT !.op = "io", !.fd = s, !.obj = pFdList[s].obj])
  /\ UNCHANGED <<locks, is_mounted, name, pFdList, held>>

FileIoTake(t) ==
  /\ pc[t] = "io"
  /\ Take(devSem, t)
  /\ Goto(t, "iocore")
  /\ UNCHANGED <<mutex1, is_mounted, name, pFdList, call, held>>

FileIoDone(t) ==
  /\ pc[t] = "iocore"
  /\ Give(devSem, t)
  /\ Return(t)
  /\ UNCHANGED <<mutex1, is_mounted, name, pFdList, held>>

(* yaffsSeek, yaffsStatGet, FIOREADDIR, FIONFREE64: the POSIX layer only.  *)
Query(t, s) ==
  /\ Usable(s)
  /\ Begin(t, "query", [NoCall EXCEPT !.op = "query", !.fd = s])
  /\ UNCHANGED <<locks, is_mounted, name, pFdList, held>>

QueryDone(t) ==
  /\ pc[t] = "querycore"
  /\ Give(mutex1, t)
  /\ Return(t)
  /\ UNCHANGED <<devSem, is_mounted, name, pFdList, held>>

-----------------------------------------------------------------------------
(* yaffsDelete, also of FIORMDIR and FIOUNLINK: the type is looked up      *)
(* under devSem, the name again in the POSIX layer.                        *)

Delete(t, path) ==
  /\ is_mounted
  /\ "rename" \notin Exposed => \A u \in Tasks : ~Changing(u)
  /\ Begin(t, "delete", [NoCall EXCEPT !.op = "delete", !.path = path])
  /\ UNCHANGED <<locks, is_mounted, name, pFdList, held>>

DeleteFind(t) ==
  LET o == name[call[t].path]
  IN /\ pc[t] = "delete"
     /\ Free(devSem, t)
     /\ IF o = None THEN Return(t) /\ UNCHANGED devSem
        ELSE /\ devSem' = t
             /\ call' = [call EXCEPT ![t].obj = o]
             /\ Goto(t, "deleting")
     /\ UNCHANGED <<mutex1, is_mounted, name, pFdList, held>>

DeleteCore(t) ==
  LET c == call[t]
      o == name[c.path]
      done == is_mounted /\ o # None /\ (o \in Files <=> c.obj \in Files)
  IN /\ pc[t] = "deletecore"
     /\ name' = IF done THEN [name EXCEPT ![c.path] = None] ELSE name
     /\ Give(mutex1, t) /\ Give(devSem, t)
     /\ Return(t)
     /\ UNCHANGED <<is_mounted, pFdList, held>>

(* yaffsRename: from the path the descriptor was opened with, without      *)
(* devSem.                                                                 *)
Rename(t, s, new) ==
  /\ Usable(s)
  /\ "rename" \notin Exposed => \A u \in Tasks : ~Naming(u)
  /\ Begin(t, "rename", [NoCall EXCEPT !.op = "rename", !.fd = s, !.new = new,
                                       !.path = pFdList[s].path])
  /\ UNCHANGED <<locks, is_mounted, name, pFdList, held>>

RenameCore(t) ==
  LET c == call[t]
      o == name[c.path]
      r == name[c.new]
      done == /\ is_mounted /\ o # None
              /\ r = None \/ (r \in Files <=> o \in Files)
  IN /\ pc[t] = "renamecore"
     /\ name' = IF done THEN [name EXCEPT ![c.path] = None, ![c.new] = o]
                ELSE name
     /\ Give(mutex1, t)
     /\ Return(t)
     /\ UNCHANGED <<devSem, is_mounted, pFdList, held>>

(* yaffsVolUnmount holds devSem, FIOUNMOUNT does not.  A file that is open *)
(* makes the volume busy, a directory does not.                            *)
Unmount(t, l) ==
  /\ is_mounted
  /\ "rename" \notin Exposed => \A u \in Tasks : ~Naming(u)
  /\ Begin(t, l, [NoCall EXCEPT !.op = "unmount"])
  /\ UNCHANGED <<locks, is_mounted, name, pFdList, held>>

VolUnmount(t) ==
  /\ pc[t] = "volunmount"
  /\ Take(devSem, t)
  /\ Goto(t, "unmounting")
  /\ UNCHANGED <<mutex1, is_mounted, name, pFdList, call, held>>

Busy_Never == FALSE

Busy == \E s \in Slots : pFdList[s].yfd \in Files

UnmountCore(t) ==
  /\ pc[t] = "unmountcore"
  /\ is_mounted' = IF Busy THEN is_mounted ELSE FALSE
  /\ Give(mutex1, t) /\ Give(devSem, t)
  /\ Return(t)
  /\ UNCHANGED <<name, pFdList, held>>

-----------------------------------------------------------------------------
Calls(t) ==
  \/ \E path \in Paths : \E flags \in Flags : Open(t, path, flags)
  \/ \E s \in Slots : Close(t, s) \/ FileIo(t, s) \/ Query(t, s)
  \/ \E path \in Paths : Delete(t, path)
  \/ \E s \in Slots, new \in Paths : Rename(t, s, new)
  \/ \E l \in {"volunmount", "unmounting"} : Unmount(t, l)

Enters(t) ==
  \/ Enter(t, "mounting", "mountcore") \/ Enter(t, "opening", "opencore")
  \/ Enter(t, "closing", "closecore") \/ Enter(t, "query", "querycore")
  \/ Enter(t, "deleting", "deletecore") \/ Enter(t, "rename", "renamecore")
  \/ Enter(t, "unmounting", "unmountcore")

Step(t) ==
  \/ VolMount(t) \/ MountOk(t) \/ MountFails(t)
  \/ \E s \in Unused : FdGet(t, s)
  \/ NoFd(t) \/ Find(t) \/ Create(t)
  \/ \E o \in Objs : Opens(t, o)
  \/ OpenFails(t) \/ Opened(t) \/ OpenRet(t) \/ FdFree(t)
  \/ CloseTake(t) \/ CloseCore(t)
  \/ FileIoTake(t) \/ FileIoDone(t) \/ QueryDone(t)
  \/ DeleteFind(t) \/ DeleteCore(t) \/ RenameCore(t)
  \/ VolUnmount(t) \/ UnmountCore(t)
  \/ Enters(t)

Next == \E t \in Tasks : Calls(t) \/ Step(t)

Spec == Init /\ [][Next]_vars

(* A task that has begun a call and does not wait for a semaphore runs on. *)
FairSpec == Spec /\ WF_vars(\E t \in Tasks : Step(t))

-----------------------------------------------------------------------------
HoldsDevSem(t) == pc[t] \in {"mounting", "mountcore", "create", "opening",
  "opencore", "opened", "ret", "closing", "closecore", "iocore", "deleting",
  "deletecore"}

InPosix(t) == pc[t] \in {"mountcore", "opencore", "closecore", "querycore",
  "deletecore", "renamecore", "unmountcore"}

InCore(t) ==
  \/ InPosix(t) \/ pc[t] \in {"create", "iocore"}
  \/ pc[t] = "opened" /\ "trunc" \in call[t].flags

(* Whatever way a call takes, through errors and early returns too, it     *)
(* gives back what it took: a task outside any call owns neither           *)
(* semaphore, and nobody is in the POSIX layer without its lock            *)
(* (semTake and semGive of all of vxLib_yaffs2.c, yaffsfs_Lock).           *)
LocksReturned ==
  /\ devSem # None => pc[devSem] # "idle"
  /\ mutex1 # None => InPosix(mutex1)
  /\ \A t \in Tasks : InPosix(t) => mutex1 = t
  /\ \A t \in Tasks : HoldsDevSem(t) => devSem = t

(* A file opened with O_EXCL is open once: yaffsOpen refuses a second open *)
(* of either kind, also when opens, deletions and creations by different   *)
(* tasks meet, and a descriptor does not mistake new memory for old.       *)
ExclusiveKept ==
  \A r, s \in held :
    r # s /\ pFdList[r].obj = pFdList[s].obj /\ pFdList[r].obj \in Files
      => ~pFdList[r].exclusive

(* The driver reads and writes through obj and seeks and closes through    *)
(* yfd: while a file is open they are the same object, it is in memory and *)
(* its volume is mounted; and so it is when a read or write that waited    *)
(* for devSem gets to the core with the object it looked at before.        *)
OneObject ==
  /\ \A s \in held :
       pFdList[s].obj \in Files =>
         pFdList[s].yfd = pFdList[s].obj /\ pFdList[s].obj \in Live /\ is_mounted
  /\ \A t \in Tasks : pc[t] = "iocore" => call[t].obj \in Live /\ is_mounted

(* Of the twenty descriptors none is lost: one that is in use is in the    *)
(* hands of the I/O system or of a call (error paths of yaffsOpen).        *)
NoSlotLost ==
  \A s \in Slots :
    pFdList[s].inUse <=>
      s \in held \/ \E t \in Tasks : call[t].op = "open" /\ call[t].fd = s

(* Calls do not wait for each other forever: again and again there is a    *)
(* task that is in no call, with devSem taken before mutex1 and never      *)
(* after it.                                                               *)
Progress == []<>(\E t \in Tasks : pc[t] = "idle")

(* "A single mechanism to lock and unlock yaffs" (Yaffscfg.c): one task in *)
(* the core at a time.  It is not so: see the run glue_core.               *)
CoreExclusive == \A t, u \in Tasks : InCore(t) /\ InCore(u) => t = u
=============================================================================
