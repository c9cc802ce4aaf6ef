------------------------- MODULE YaffsGlue_proofs --------------------------
(***************************************************************************)
(* The locks, descriptors and objects of the VxWorks driver, for any       *)
(* number of tasks, descriptors and names.  The locks are returned         *)
(* whatever the tasks do, the exposures included.                          *)
(***************************************************************************)
EXTENDS YaffsGlue, TLAPS

Labels == {"idle", "volmount", "mounting", "mountcore", "fdget", "find",
  "create", "opening", "opencore", "opened", "ret", "fdfree", "close",
  "closing", "closecore", "io", "iocore", "query", "querycore", "delete",
  "deleting", "deletecore", "rename", "renamecore", "volunmount", "unmounting",
  "unmountcore"}

(* Where a task may own devSem: where the code needs it, and in            *)
(* yaffsVolUnmount, whose steps FIOUNMOUNT takes without it.               *)
MayHoldDevSem(t) == HoldsDevSem(t) \/ pc[t] \in {"unmounting", "unmountcore"}

(* The inductive invariant: the owner of a semaphore is exactly where the  *)
(* program says that it owns one.                                          *)
LockInv ==
  /\ pc \in [Tasks -> Labels]
  /\ devSem \in Tasks \cup {None}
  /\ mutex1 \in Tasks \cup {None}
  /\ \A t \in Tasks : InPosix(t) <=> mutex1 = t
  /\ \A t \in Tasks : HoldsDevSem(t) => devSem = t
  /\ \A t \in Tasks : devSem = t => MayHoldDevSem(t)

LEMMA LockInit == Init => LockInv
  BY GlueAssumption DEF Init, Labels, LockInv, InPosix, HoldsDevSem, MayHoldDevSem

(* A call that begins takes nothing yet.                                   *)
LEMMA LockCalls ==
  ASSUME LockInv, NEW t \in Tasks, Calls(t)
  PROVE  LockInv'
<1> USE DEF Begin, Goto, Labels, LockInv, InPosix, HoldsDevSem, MayHoldDevSem, locks
<1>1. ASSUME NEW path, NEW flags, Open(t, path, flags) PROVE LockInv'
  BY <1>1 DEF Open
<1>2. ASSUME NEW s, Close(t, s) \/ FileIo(t, s) \/ Query(t, s) PROVE LockInv'
  BY <1>2 DEF Close, FileIo, Query
<1>3. ASSUME NEW path, Delete(t, path) PROVE LockInv'
  BY <1>3 DEF Delete
<1>4. ASSUME NEW s, NEW new, Rename(t, s, new) PROVE LockInv'
  BY <1>4 DEF Rename
<1>5. ASSUME NEW l \in {"volunmount", "unmounting"}, Unmount(t, l) PROVE LockInv'
  BY <1>5 DEF Unmount
<1>6. QED
  BY <1>1, <1>2, <1>3, <1>4, <1>5 DEF Calls

(* A step of a call, whichever way it goes, leaves the semaphores with     *)
(* their owners.                                                           *)
LEMMA LockStep ==
  ASSUME LockInv, NEW t \in Tasks, Step(t)
  PROVE  LockInv'
<1> USE GlueAssumption
        DEF Goto, Labels, Return, Free, Take, Give, LockInv, InPosix, HoldsDevSem,
            MayHoldDevSem, locks
<1>1. CASE VolMount(t)
  BY <1>1 DEF VolMount
<1>2. CASE MountOk(t)
  BY <1>2 DEF MountOk
<1>3. CASE MountFails(t)
  BY <1>3 DEF MountFails
<1>4. CASE NoFd(t)
  BY <1>4 DEF NoFd
<1>5. CASE Find(t)
  BY <1>5 DEF Find
<1>6. CASE Create(t)
  BY <1>6 DEF Create
<1>7. CASE OpenFails(t)
  BY <1>7 DEF OpenFails
<1>8. CASE Opened(t)
  BY <1>8 DEF Opened
<1>9. CASE OpenRet(t)
  BY <1>9 DEF OpenRet
<1>10. CASE FdFree(t)
  BY <1>10 DEF FdFree
<1>11. CASE CloseTake(t)
  BY <1>11 DEF CloseTake
<1>12. CASE CloseCore(t)
  BY <1>12 DEF CloseCore
<1>13. CASE FileIoTake(t)
  BY <1>13 DEF FileIoTake
<1>14. CASE FileIoDone(t)
  BY <1>14 DEF FileIoDone
<1>15. CASE QueryDone(t)
  BY <1>15 DEF QueryDone
<1>16. CASE DeleteFind(t)
  BY <1>16 DEF DeleteFind
<1>17. CASE DeleteCore(t)
  BY <1>17 DEF DeleteCore
<1>18. CASE RenameCore(t)
  BY <1>18 DEF RenameCore
<1>19. CASE VolUnmount(t)
  BY <1>19 DEF VolUnmount
<1>20. CASE UnmountCore(t)
  BY <1>20 DEF UnmountCore
<1>21. ASSUME NEW s, FdGet(t, s) PROVE LockInv'
  BY <1>21 DEF FdGet
<1>22. ASSUME NEW o, Opens(t, o) PROVE LockInv'
  BY <1>22 DEF Opens
<1>23. CASE Enters(t)
  BY <1>23 DEF Enters, Enter
<1>24. QED
  BY <1>1, <1>2, <1>3, <1>4, <1>5, <1>6, <1>7, <1>8, <1>9, <1>10, <1>11,
     <1>12, <1>13, <1>14, <1>15, <1>16, <1>17, <1>18, <1>19, <1>20, <1>21, <1>22, <1>23
  DEF Step

(* Whatever way a call of the driver takes, it gives back the semaphores   *)
(* it took, and nobody is in the POSIX layer without its lock.             *)
THEOREM LocksReturn == Spec => []LocksReturned
<1>1. LockInv /\ UNCHANGED vars => LockInv'
  BY DEF LockInv, InPosix, HoldsDevSem, MayHoldDevSem, vars, locks
<1>2. LockInv /\ [Next]_vars => LockInv'
  BY <1>1, LockCalls, LockStep DEF Next
<1>3. LockInv => LocksReturned
  BY DEF LockInv, LocksReturned, InPosix, HoldsDevSem, MayHoldDevSem
<1>4. QED
  BY LockInit, <1>2, <1>3, PTL DEF Spec

-----------------------------------------------------------------------------
(* The descriptors, when no two tasks use one at the same time.            *)

CallType ==
  [op : {"none", "open", "close", "io", "query", "delete", "rename", "unmount"},
   fd : 0 .. maxFiles, path : Paths \cup {None}, new : Paths \cup {None},
   flags : Flags \cup {{}}, obj : Objs \cup {None}]

FdType ==
  [inUse : BOOLEAN, obj : Objs \cup {None}, yfd : Objs \cup {None},
   path : Paths \cup {None}, exclusive : BOOLEAN]

TypeInv ==
  /\ pc \in [Tasks -> Labels]
  /\ call \in [Tasks -> CallType]
  /\ name \in [Paths -> Objs \cup {None}]
  /\ pFdList \in [Slots -> FdType]
  /\ held \subseteq Slots

(* The part of yaffsOpen in which it has a descriptor, and that before.    *)
Filling(t) == pc[t] \in {"find", "create", "opening", "opencore", "opened",
                         "ret", "fdfree"}
Asking(t) == pc[t] \in {"volmount", "mounting", "mountcore", "fdget"}

(* A call has the arguments its steps use.                                 *)
CallInv ==
  \A t \in Tasks :
    /\ Filling(t) => call[t].op = "open" /\ call[t].fd # 0
    /\ Asking(t) => call[t].op = "open" /\ call[t].fd = 0
    /\ call[t].op = "open" => Filling(t) \/ Asking(t)
    /\ call[t].op \in {"open", "delete", "rename"} => call[t].path \in Paths
    /\ pc[t] \in {"delete", "deleting", "deletecore"} => call[t].op = "delete"
    /\ pc[t] \in {"rename", "renamecore"} => call[t].op = "rename"
    /\ call[t].op = "rename" => call[t].new \in Paths
    /\ pc[t] \in {"close", "closing", "closecore"} =>
         call[t].op = "close" /\ call[t].fd # 0

(* The inductive invariant: a descriptor in use is the I/O system's or     *)
(* that of one open, and has been opened in the POSIX layer before the I/O *)
(* system gets it, so that it is never refused when it is closed.          *)
SlotInv ==
  /\ NoSlotLost
  /\ \A s \in held : pFdList[s].yfd # None /\ pFdList[s].path \in Paths
  /\ \A t \in Tasks : pc[t] = "opened" => pFdList[call[t].fd].yfd # None
  /\ \A t \in Tasks : call[t].fd \in held <=> call[t].op # "open" /\ call[t].fd # 0
  /\ \A t, u \in Tasks : call[t].fd = call[u].fd /\ t # u => call[t].fd = 0

FdInv == TypeInv /\ CallInv /\ SlotInv

(* What the operations make of a call or a descriptor is one again.        *)
LEMMA NoCallType == NoCall \in CallType
  BY GlueAssumption DEF NoCall, CallType

LEMMA FreeFdType == FreeFd \in FdType
  BY DEF FreeFd, FdType

LEMMA CallSetFd ==
  ASSUME NEW c \in CallType, NEW s \in Slots
  PROVE  [c EXCEPT !.fd = s] \in CallType
  BY GlueAssumption DEF CallType, Slots

LEMMA CallSetObj ==
  ASSUME NEW c \in CallType, NEW o \in Objs \cup {None}
  PROVE  [c EXCEPT !.obj = o] \in CallType
  BY DEF CallType

LEMMA FdFilled ==
  ASSUME NEW f \in FdType, NEW o \in Objs \cup {None}, NEW p \in Paths,
         NEW b \in BOOLEAN
  PROVE  [f EXCEPT !.obj = o, !.path = p, !.exclusive = b] \in FdType
  BY DEF FdType

LEMMA FdInit == Init => FdInv
<1> USE GlueAssumption DEF Init, NoCall, FreeFd, Slots
<1>1. Init => TypeInv
  BY NoCallType, FreeFdType DEF TypeInv, Labels
<1>2. Init => CallInv
  BY DEF CallInv, Filling, Asking
<1>3. Init => SlotInv
  BY DEF SlotInv, NoSlotLost
<1>4. QED
  BY <1>1, <1>2, <1>3 DEF FdInv

(* A step keeps the types.                                                 *)
LEMMA FdTypeStep ==
  ASSUME FdInv, "shared" \notin Exposed, NEW t \in Tasks, Calls(t) \/ Step(t)
  PROVE  TypeInv'
<1> USE GlueAssumption, NoCallType, FreeFdType
        DEF FdInv, TypeInv, Labels, Begin, Goto, Return, locks
<1>1. ASSUME NEW path \in Paths, NEW flags \in Flags, Open(t, path, flags)
     PROVE  TypeInv'
  <2>1. [NoCall EXCEPT !.op = "open", !.path = path, !.flags = flags] \in CallType
    BY <1>1 DEF NoCall, CallType, Slots
  <2>2. QED
    BY <1>1, <2>1 DEF Open
<1>2. ASSUME NEW s \in Slots, Close(t, s)
     PROVE  TypeInv'
  <2>0. s \in 0 .. maxFiles
    BY DEF Slots
  <2>1. [NoCall EXCEPT !.op = "close", !.fd = s] \in CallType
    BY <1>2, <2>0 DEF NoCall, CallType
  <2>2. QED
    BY <1>2, <2>1 DEF Close
<1>3. ASSUME NEW s \in Slots, FileIo(t, s)
     PROVE  TypeInv'
  <2>0. s \in 0 .. maxFiles
    BY DEF Slots
  <2>1. [NoCall EXCEPT !.op = "io", !.fd = s, !.obj = pFdList[s].obj] \in CallType
    BY <1>3, <2>0 DEF NoCall, CallType, FdType
  <2>2. QED
    BY <1>3, <2>1 DEF FileIo
<1>4. ASSUME NEW s \in Slots, Query(t, s)
     PROVE  TypeInv'
  <2>0. s \in 0 .. maxFiles
    BY DEF Slots
  <2>1. [NoCall EXCEPT !.op = "query", !.fd = s] \in CallType
    BY <1>4, <2>0 DEF NoCall, CallType
  <2>2. QED
    BY <1>4, <2>1 DEF Query
<1>5. ASSUME NEW path \in Paths, Delete(t, path)
     PROVE  TypeInv'
  <2>1. [NoCall EXCEPT !.op = "delete", !.path = path] \in CallType
    BY <1>5 DEF NoCall, CallType, Slots
  <2>2. QED
    BY <1>5, <2>1 DEF Delete
<1>6. ASSUME NEW s \in Slots, NEW new \in Paths, Rename(t, s, new)
     PROVE  TypeInv'
  <2>0. s \in 0 .. maxFiles
    BY DEF Slots
  <2>1. [NoCall EXCEPT !.op = "rename", !.fd = s, !.new = new,
                       !.path = pFdList[s].path] \in CallType
    BY <1>6, <2>0 DEF NoCall, CallType, FdType
  <2>2. QED
    BY <1>6, <2>1 DEF Rename
<1>7. ASSUME NEW l \in {"volunmount", "unmounting"}, Unmount(t, l)
     PROVE  TypeInv'
  <2>1. [NoCall EXCEPT !.op = "unmount"] \in CallType
    BY <1>7 DEF NoCall, CallType, Slots
  <2>2. QED
    BY <1>7, <2>1 DEF Unmount
<1>8. ASSUME NEW s \in Unused, FdGet(t, s)
     PROVE  TypeInv'
  <2>1. s \in Slots
    BY DEF Unused
  <2>2. [FreeFd EXCEPT !.inUse = TRUE] \in FdType
    BY DEF FreeFd, FdType
  <2>3. QED
    BY <1>8, <2>1, <2>2, CallSetFd DEF FdGet
<1>9. ASSUME NEW o \in Objs, Opens(t, o)
     PROVE  TypeInv'
  <2>1. call[t].fd \in Slots /\ call[t].path \in Paths
    BY <1>9 DEF Opens, CallInv, Filling, CallType, Slots
  <2>2. [pFdList[call[t].fd] EXCEPT !.yfd = o] \in FdType
    BY <2>1 DEF FdType
  <2>3. QED
    BY <1>9, <2>1, <2>2 DEF Opens
<1>10. CASE VolMount(t)
  <2>1. CASE is_mounted
    BY <1>10, <2>1 DEF VolMount
  <2>2. CASE ~is_mounted
    BY <1>10, <2>2 DEF VolMount
  <2>3. QED
    BY <2>1, <2>2
<1>11. CASE MountOk(t)
  BY <1>11 DEF MountOk
<1>12. CASE MountFails(t)
  BY <1>12 DEF MountFails
<1>13. CASE NoFd(t)
  BY <1>13 DEF NoFd, Unused
<1>14. CASE Find(t)
  <2>1. name[call[t].path] \in Objs \cup {None}
    BY <1>14 DEF Find, CallInv, Filling
  <2>2. [call[t] EXCEPT !.obj = name[call[t].path]] \in CallType
    BY <2>1, CallSetObj
  <2>3. pc' \in [Tasks -> Labels]
    BY <1>14 DEF Find
  <2>4. call' \in [Tasks -> CallType]
    BY <1>14, <2>2 DEF Find
  <2>5. QED
    BY <1>14, <2>3, <2>4 DEF Find
<1>15. CASE Create(t)
  <2>1. Files \cup Dirs = Objs
    BY DEF Objs
  <2>2. ASSUME NEW o \in Objs PROVE [call[t] EXCEPT !.obj = o] \in CallType
    BY CallSetObj
  <2>3. QED
    BY <1>15, <2>1, <2>2 DEF Create
<1>16. CASE OpenFails(t)
  BY <1>16 DEF OpenFails
<1>17. CASE Opened(t)
  <2>1. call[t].fd \in Slots /\ call[t].path \in Paths
    BY <1>17 DEF Opened, CallInv, Filling, CallType, Slots
  <2>2. call[t].obj \in Objs \cup {None} /\ ("excl" \in call[t].flags) \in BOOLEAN
    BY DEF CallType
  <2>3. [pFdList[call[t].fd] EXCEPT !.obj = call[t].obj, !.path = call[t].path,
           !.exclusive = "excl" \in call[t].flags] \in FdType
    BY <2>1, <2>2, FdFilled
  <2>4. QED
    BY <1>17, <2>1, <2>3 DEF Opened
<1>18. CASE OpenRet(t)
  BY <1>18 DEF OpenRet
<1>19. CASE FdFree(t)
  BY <1>19 DEF FdFree
<1>20. CASE CloseTake(t)
  BY <1>20 DEF CloseTake
<1>21. CASE CloseCore(t)
  <2>1. pFdList' \in [Slots -> FdType]
    BY <1>21 DEF CloseCore
  <2>2. held' \subseteq Slots
    BY <1>21 DEF CloseCore
  <2>3. QED
    BY <1>21, <2>1, <2>2 DEF CloseCore
<1>22. CASE FileIoTake(t)
  BY <1>22 DEF FileIoTake
<1>23. CASE FileIoDone(t)
  BY <1>23 DEF FileIoDone
<1>24. CASE QueryDone(t)
  BY <1>24 DEF QueryDone
<1>25. CASE DeleteFind(t)
  <2>1. name[call[t].path] \in Objs \cup {None}
    BY <1>25 DEF DeleteFind, CallInv
  <2>2. [call[t] EXCEPT !.obj = name[call[t].path]] \in CallType
    BY <2>1, CallSetObj
  <2>3. CASE name[call[t].path] = None
    BY <1>25, <2>3 DEF DeleteFind
  <2>4. CASE name[call[t].path] # None
    BY <1>25, <2>2, <2>4 DEF DeleteFind
  <2>5. QED
    BY <2>3, <2>4
<1>26. CASE DeleteCore(t)
  BY <1>26 DEF DeleteCore
<1>27. CASE RenameCore(t)
  <2>1. call[t].path \in Paths /\ call[t].new \in Paths
    BY <1>27 DEF RenameCore, CallInv
  <2>2. name' \in [Paths -> Objs \cup {None}]
    BY <1>27, <2>1 DEF RenameCore
  <2>3. QED
    BY <1>27, <2>2 DEF RenameCore
<1>28. CASE VolUnmount(t)
  BY <1>28 DEF VolUnmount
<1>29. CASE UnmountCore(t)
  BY <1>29 DEF UnmountCore
<1>30. CASE Enters(t)
  BY <1>30 DEF Enters, Enter
<1>31. QED
  BY <1>1, <1>2, <1>3, <1>4, <1>5, <1>6, <1>7, <1>8, <1>9, <1>10, <1>11,
     <1>12, <1>13, <1>14, <1>15, <1>16, <1>17, <1>18, <1>19, <1>20, <1>21,
     <1>22, <1>23, <1>24, <1>25, <1>26, <1>27, <1>28, <1>29, <1>30
  DEF Calls, Step

(* A step leaves each call with the arguments it needs.                    *)
LEMMA FdCallStep ==
  ASSUME FdInv, "shared" \notin Exposed, NEW t \in Tasks, Calls(t) \/ Step(t)
  PROVE  CallInv'
<1> USE GlueAssumption
        DEF FdInv, TypeInv, CallType, Labels, CallInv, Filling, Asking, Begin,
            Goto, Return, NoCall, Slots, locks
<1>1. ASSUME NEW path \in Paths, NEW flags \in Flags, Open(t, path, flags)
     PROVE  CallInv'
  BY <1>1 DEF Open
<1>2. ASSUME NEW s \in Slots, Close(t, s)
     PROVE  CallInv'
  BY <1>2 DEF Close, Usable
<1>3. ASSUME NEW s \in Slots, FileIo(t, s)
     PROVE  CallInv'
  BY <1>3 DEF FileIo, Usable
<1>4. ASSUME NEW s \in Slots, Query(t, s)
     PROVE  CallInv'
  BY <1>4 DEF Query, Usable
<1>5. ASSUME NEW path \in Paths, Delete(t, path)
     PROVE  CallInv'
  BY <1>5 DEF Delete
<1>6. ASSUME NEW s \in Slots, NEW new \in Paths, Rename(t, s, new)
     PROVE  CallInv'
  <2>0. pFdList[s].path \in Paths
    BY <1>6 DEF Rename, Usable, SlotInv
  <2>1. /\ call'[t].op = "rename" /\ call'[t].fd = s
        /\ call'[t].path = pFdList[s].path /\ call'[t].new = new
        /\ pc'[t] = "rename"
    BY <1>6 DEF Rename
  <2>2. \A u \in Tasks : u # t => call'[u] = call[u] /\ pc'[u] = pc[u]
    BY <1>6 DEF Rename
  <2> HIDE DEF TypeInv, CallType, Labels, Begin, Goto, Return, NoCall, locks
  <2>4. QED
    BY <1>6, <2>0, <2>1, <2>2
<1>7. ASSUME NEW l \in {"volunmount", "unmounting"}, Unmount(t, l)
     PROVE  CallInv'
  BY <1>7 DEF Unmount
<1>8. ASSUME NEW s \in Unused, FdGet(t, s)
     PROVE  CallInv'
  BY <1>8 DEF FdGet, Unused
<1>9. ASSUME NEW o \in Objs, Opens(t, o)
     PROVE  CallInv'
  BY <1>9 DEF Opens
<1>10. CASE VolMount(t)
  BY <1>10 DEF VolMount
<1>11. CASE MountOk(t)
  BY <1>11 DEF MountOk
<1>12. CASE MountFails(t)
  BY <1>12 DEF MountFails
<1>13. CASE NoFd(t)
  BY <1>13 DEF NoFd, Unused
<1>14. CASE Find(t)
  BY <1>14 DEF Find
<1>15. CASE Create(t)
  <2>1. call'[t].op = call[t].op /\ call'[t].fd = call[t].fd
         /\ call'[t].path = call[t].path /\ pc'[t] \in {"opening", "ret"}
    BY <1>15 DEF Create
  <2>2. \A u \in Tasks : u # t => call'[u] = call[u] /\ pc'[u] = pc[u]
    BY <1>15 DEF Create
  <2> HIDE DEF TypeInv, CallType, Labels, Begin, Goto, Return, NoCall, locks
  <2>4. QED
    BY <1>15, <2>1, <2>2 DEF Create
<1>16. CASE OpenFails(t)
  BY <1>16 DEF OpenFails
<1>17. CASE Opened(t)
  BY <1>17 DEF Opened
<1>18. CASE OpenRet(t)
  BY <1>18 DEF OpenRet
<1>19. CASE FdFree(t)
  BY <1>19 DEF FdFree
<1>20. CASE CloseTake(t)
  BY <1>20 DEF CloseTake
<1>21. CASE CloseCore(t)
  BY <1>21 DEF CloseCore
<1>22. CASE FileIoTake(t)
  BY <1>22 DEF FileIoTake
<1>23. CASE FileIoDone(t)
  BY <1>23 DEF FileIoDone
<1>24. CASE QueryDone(t)
  BY <1>24 DEF QueryDone
<1>25. CASE DeleteFind(t)
  <2>1. CASE name[call[t].path] = None
    BY <1>25, <2>1 DEF DeleteFind
  <2>2. CASE ~(name[call[t].path] = None)
    <3>1. call'[t].op = call[t].op /\ call'[t].fd = call[t].fd
           /\ call'[t].path = call[t].path /\ pc'[t] = "deleting"
      BY <1>25, <2>2 DEF DeleteFind
    <3>2. \A u \in Tasks : u # t => call'[u] = call[u] /\ pc'[u] = pc[u]
      BY <1>25, <2>2 DEF DeleteFind
    <3> HIDE DEF TypeInv, CallType, Labels, Begin, Goto, Return, NoCall, locks
    <3>4. QED
      BY <1>25, <2>2, <3>1, <3>2 DEF DeleteFind
  <2>3. QED
    BY <2>1, <2>2
<1>26. CASE DeleteCore(t)
  BY <1>26 DEF DeleteCore
<1>27. CASE RenameCore(t)
  BY <1>27 DEF RenameCore
<1>28. CASE VolUnmount(t)
  BY <1>28 DEF VolUnmount
<1>29. CASE UnmountCore(t)
  BY <1>29 DEF UnmountCore
<1>30. CASE Enters(t)
  BY <1>30 DEF Enters, Enter
<1>31. QED
  BY <1>1, <1>2, <1>3, <1>4, <1>5, <1>6, <1>7, <1>8, <1>9, <1>10, <1>11,
     <1>12, <1>13, <1>14, <1>15, <1>16, <1>17, <1>18, <1>19, <1>20, <1>21,
     <1>22, <1>23, <1>24, <1>25, <1>26, <1>27, <1>28, <1>29, <1>30
  DEF Calls, Step

(* A step loses no descriptor.                                             *)
LEMMA FdSlotStep ==
  ASSUME FdInv, "shared" \notin Exposed, NEW t \in Tasks, Calls(t) \/ Step(t)
  PROVE  SlotInv'
<1> USE GlueAssumption
        DEF FdInv, TypeInv, CallType, FdType, Labels, CallInv, Filling, Asking,
            SlotInv, NoSlotLost, Begin, Goto, Return, NoCall, FreeFd, Slots, locks
<1>1. ASSUME NEW path \in Paths, NEW flags \in Flags, Open(t, path, flags)
     PROVE  SlotInv'
  <2>1. call'[t].op = "open" /\ call'[t].fd = 0
         /\ pc[t] = "idle" /\ pc'[t] \in {"fdget", "volmount"}
    BY <1>1 DEF Open
  <2>2. \A u \in Tasks : u # t => call'[u] = call[u] /\ pc'[u] = pc[u]
    BY <1>1 DEF Open
  <2>3. pFdList' = pFdList /\ held' = held /\ held \subseteq Slots
    BY <1>1 DEF Open
  <2> HIDE DEF TypeInv, CallType, FdType, Labels, Begin, Goto, Return, NoCall,
               FreeFd, locks
  <2>4. QED
    BY <1>1, <2>1, <2>2, <2>3
<1>2. ASSUME NEW s \in Slots, Close(t, s)
     PROVE  SlotInv'
  <2>1. call'[t].op = "close" /\ call'[t].fd = s
         /\ pc[t] = "idle" /\ pc'[t] = "close"
    BY <1>2 DEF Close
  <2>2. \A u \in Tasks : u # t => call'[u] = call[u] /\ pc'[u] = pc[u]
    BY <1>2 DEF Close
  <2>3. pFdList' = pFdList /\ held' = held /\ held \subseteq Slots
    BY <1>2 DEF Close
  <2> HIDE DEF TypeInv, CallType, FdType, Labels, Begin, Goto, Return, NoCall,
               FreeFd, locks
  <2>4. QED
    BY <1>2, <2>1, <2>2, <2>3 DEF Close, Usable
<1>3. ASSUME NEW s \in Slots, FileIo(t, s)
     PROVE  SlotInv'
  <2>1. call'[t].op = "io" /\ call'[t].fd = s
         /\ pc[t] = "idle" /\ pc'[t] = "io"
    BY <1>3 DEF FileIo
  <2>2. \A u \in Tasks : u # t => call'[u] = call[u] /\ pc'[u] = pc[u]
    BY <1>3 DEF FileIo
  <2>3. pFdList' = pFdList /\ held' = held /\ held \subseteq Slots
    BY <1>3 DEF FileIo
  <2> HIDE DEF TypeInv, CallType, FdType, Labels, Begin, Goto, Return, NoCall,
               FreeFd, locks
  <2>4. QED
    BY <1>3, <2>1, <2>2, <2>3 DEF FileIo, Usable
<1>4. ASSUME NEW s \in Slots, Query(t, s)
     PROVE  SlotInv'
  <2>1. call'[t].op = "query" /\ call'[t].fd = s
         /\ pc[t] = "idle" /\ pc'[t] = "query"
    BY <1>4 DEF Query
  <2>2. \A u \in Tasks : u # t => call'[u] = call[u] /\ pc'[u] = pc[u]
    BY <1>4 DEF Query
  <2>3. pFdList' = pFdList /\ held' = held /\ held \subseteq Slots
    BY <1>4 DEF Query
  <2> HIDE DEF TypeInv, CallType, FdType, Labels, Begin, Goto, Return, NoCall,
               FreeFd, locks
  <2>4. QED
    BY <1>4, <2>1, <2>2, <2>3 DEF Query, Usable
<1>5. ASSUME NEW path \in Paths, Delete(t, path)
     PROVE  SlotInv'
  <2>1. call'[t].op = "delete" /\ call'[t].fd = 0
         /\ pc[t] = "idle" /\ pc'[t] = "delete"
    BY <1>5 DEF Delete
  <2>2. \A u \in Tasks : u # t => call'[u] = call[u] /\ pc'[u] = pc[u]
    BY <1>5 DEF Delete
  <2>3. pFdList' = pFdList /\ held' = held /\ held \subseteq Slots
    BY <1>5 DEF Delete
  <2> HIDE DEF TypeInv, CallType, FdType, Labels, Begin, Goto, Return, NoCall,
               FreeFd, locks
  <2>4. QED
    BY <1>5, <2>1, <2>2, <2>3
<1>6. ASSUME NEW s \in Slots, NEW new \in Paths, Rename(t, s, new)
     PROVE  SlotInv'
  <2>1. call'[t].op = "rename" /\ call'[t].fd = s
         /\ pc[t] = "idle" /\ pc'[t] = "rename"
    BY <1>6 DEF Rename
  <2>2. \A u \in Tasks : u # t => call'[u] = call[u] /\ pc'[u] = pc[u]
    BY <1>6 DEF Rename
  <2>3. pFdList' = pFdList /\ held' = held /\ held \subseteq Slots
    BY <1>6 DEF Rename
  <2> HIDE DEF TypeInv, CallType, FdType, Labels, Begin, Goto, Return, NoCall,
               FreeFd, locks
  <2>4. QED
    BY <1>6, <2>1, <2>2, <2>3 DEF Rename, Usable
<1>7. ASSUME NEW l \in {"volunmount", "unmounting"}, Unmount(t, l)
     PROVE  SlotInv'
  BY <1>7 DEF Unmount
<1>8. ASSUME NEW s \in Unused, FdGet(t, s)
     PROVE  SlotInv'
  BY <1>8 DEF FdGet, Unused
<1>9. ASSUME NEW o \in Objs, Opens(t, o)
     PROVE  SlotInv'
  BY <1>9 DEF Opens
<1>10. CASE VolMount(t)
  <2>1. CASE is_mounted
    <3>1. call'[t].op = "none" /\ call'[t].fd = 0 /\ pc'[t] = "idle"
      BY <1>10, <2>1 DEF VolMount
    <3>2. \A u \in Tasks : u # t => call'[u] = call[u] /\ pc'[u] = pc[u]
      BY <1>10, <2>1 DEF VolMount
    <3>3. pFdList' = pFdList /\ held' = held /\ held \subseteq Slots
      BY <1>10, <2>1 DEF VolMount
    <3> HIDE DEF TypeInv, CallType, FdType, Labels, Begin, Goto, Return, NoCall,
               FreeFd, locks
    <3>4. QED
      BY <1>10, <2>1, <3>1, <3>2, <3>3 DEF VolMount
  <2>2. CASE ~(is_mounted)
    BY <1>10, <2>2 DEF VolMount
  <2>3. QED
    BY <2>1, <2>2
<1>11. CASE MountOk(t)
  BY <1>11 DEF MountOk
<1>12. CASE MountFails(t)
  BY <1>12 DEF MountFails
<1>13. CASE NoFd(t)
  BY <1>13 DEF NoFd, Unused
<1>14. CASE Find(t)
  BY <1>14 DEF Find
<1>15. CASE Create(t)
  <2>1. call'[t].op = call[t].op /\ call'[t].fd = call[t].fd
         /\ pc'[t] \in {"opening", "ret"}
    BY <1>15 DEF Create
  <2>2. \A u \in Tasks : u # t => call'[u] = call[u] /\ pc'[u] = pc[u]
    BY <1>15 DEF Create
  <2>3. pFdList' = pFdList /\ held' = held /\ held \subseteq Slots
    BY <1>15 DEF Create
  <2> HIDE DEF TypeInv, CallType, FdType, Labels, Begin, Goto, Return, NoCall,
               FreeFd, locks
  <2>4. QED
    BY <1>15, <2>1, <2>2, <2>3
<1>16. CASE OpenFails(t)
  BY <1>16 DEF OpenFails
<1>17. CASE Opened(t)
  BY <1>17 DEF Opened
<1>18. CASE OpenRet(t)
  BY <1>18 DEF OpenRet
<1>19. CASE FdFree(t)
  BY <1>19 DEF FdFree
<1>20. CASE CloseTake(t)
  BY <1>20 DEF CloseTake
<1>21. CASE CloseCore(t)
  BY <1>21 DEF CloseCore
<1>22. CASE FileIoTake(t)
  BY <1>22 DEF FileIoTake
<1>23. CASE FileIoDone(t)
  BY <1>23 DEF FileIoDone
<1>24. CASE QueryDone(t)
  BY <1>24 DEF QueryDone
<1>25. CASE DeleteFind(t)
  <2>1. CASE name[call[t].path] = None
    <3>1. call'[t].op = "none" /\ call'[t].fd = 0 /\ pc'[t] = "idle"
      BY <1>25, <2>1 DEF DeleteFind
    <3>2. \A u \in Tasks : u # t => call'[u] = call[u] /\ pc'[u] = pc[u]
      BY <1>25, <2>1 DEF DeleteFind
    <3>3. pFdList' = pFdList /\ held' = held /\ held \subseteq Slots
      BY <1>25, <2>1 DEF DeleteFind
    <3> HIDE DEF TypeInv, CallType, FdType, Labels, Begin, Goto, Return, NoCall,
               FreeFd, locks
    <3>4. QED
      BY <1>25, <2>1, <3>1, <3>2, <3>3 DEF DeleteFind
  <2>2. CASE ~(name[call[t].path] = None)
    <3>1. call'[t].op = call[t].op /\ call'[t].fd = call[t].fd
           /\ pc'[t] = "deleting"
      BY <1>25, <2>2 DEF DeleteFind
    <3>2. \A u \in Tasks : u # t => call'[u] = call[u] /\ pc'[u] = pc[u]
      BY <1>25, <2>2 DEF DeleteFind
    <3>3. pFdList' = pFdList /\ held' = held /\ held \subseteq Slots
      BY <1>25, <2>2 DEF DeleteFind
    <3> HIDE DEF TypeInv, CallType, FdType, Labels, Begin, Goto, Return, NoCall,
               FreeFd, locks
    <3>4. QED
      BY <1>25, <2>2, <3>1, <3>2, <3>3 DEF DeleteFind
  <2>3. QED
    BY <2>1, <2>2
<1>26. CASE DeleteCore(t)
  BY <1>26 DEF DeleteCore
<1>27. CASE RenameCore(t)
  BY <1>27 DEF RenameCore
<1>28. CASE VolUnmount(t)
  BY <1>28 DEF VolUnmount
<1>29. CASE UnmountCore(t)
  BY <1>29 DEF UnmountCore
<1>30. CASE Enters(t)
  <2>1. /\ pc'[t] # "opened" /\ call' = call
        /\ \A u \in Tasks : u # t => pc'[u] = pc[u]
    BY <1>30 DEF Enters, Enter
  <2>2. pFdList' = pFdList /\ held' = held /\ held \subseteq Slots
    BY <1>30 DEF Enters, Enter
  <2> HIDE DEF TypeInv, CallType, FdType, Labels, Begin, Goto, Return, NoCall,
               FreeFd, locks
  <2>3. QED
    BY <2>1, <2>2
<1> HIDE DEF FdInv, TypeInv, CallType, FdType, Labels, CallInv, Filling, Asking,
             SlotInv, NoSlotLost, Begin, Goto, Return, NoCall, FreeFd, Slots, locks
<1>31. QED
  BY <1>1, <1>2, <1>3, <1>4, <1>5, <1>6, <1>7, <1>8, <1>9, <1>10, <1>11,
     <1>12, <1>13, <1>14, <1>15, <1>16, <1>17, <1>18, <1>19, <1>20, <1>21,
     <1>22, <1>23, <1>24, <1>25, <1>26, <1>27, <1>28, <1>29, <1>30
  DEF Calls, Step

(* While no two tasks use one descriptor at the same time, none of the     *)
(* descriptors of the driver is lost, whatever fails in an open and        *)
(* however opens, closes, deletions and unmounts of several tasks meet.    *)
THEOREM SlotsKept == ASSUME "shared" \notin Exposed PROVE Spec => []NoSlotLost
<1>1. FdInv /\ UNCHANGED vars => FdInv'
  BY DEF FdInv, TypeInv, CallInv, Filling, Asking, SlotInv, NoSlotLost, vars, locks
<1>2. FdInv /\ [Next]_vars => FdInv'
  BY <1>1, FdTypeStep, FdCallStep, FdSlotStep DEF Next, FdInv
<1>3. FdInv => NoSlotLost
  BY DEF FdInv, SlotInv
<1>4. QED
  BY FdInit, <1>2, <1>3, PTL DEF Spec

-----------------------------------------------------------------------------
(* The objects behind the descriptors, when in addition no name changes    *)
(* under an open.                                                          *)

(* The part of yaffsOpen in which it has found or created its object.      *)
Keeping(t) == pc[t] \in {"opening", "opencore", "opened"}

NamesStay == \A t, u \in Tasks : ~(Changing(t) /\ Naming(u))

FilesMounted == \A s \in Slots : pFdList[s].yfd \in Files => is_mounted

(* An object found under devSem still has its name when the POSIX layer    *)
(* looks the path up again, so that obj and yfd are the same.              *)
OpenInv ==
  /\ \A s \in Slots : s \in held => pFdList[s].yfd = pFdList[s].obj
  /\ \A s \in Slots : s \notin held => pFdList[s].obj = None
  /\ \A t \in Tasks :
       Keeping(t) => call[t].obj \in Objs /\ name[call[t].path] = call[t].obj
  /\ \A t \in Tasks : pc[t] = "opened" => pFdList[call[t].fd].yfd = call[t].obj

(* The object a read or write looked at before it waited for devSem.       *)
IoInv ==
  \A t \in Tasks : pc[t] \in {"io", "iocore"} =>
    /\ call[t].op = "io" /\ call[t].fd # 0
    /\ call[t].obj \in Files /\ pFdList[call[t].fd].obj = call[t].obj

OneInv == NamesStay /\ FilesMounted /\ OpenInv /\ IoInv

(* What yaffsOpen has checked of the other descriptors of a file holds     *)
(* until its own is filled in: devSem is held all the while.               *)
Admitted ==
  \A t \in Tasks : Keeping(t) /\ call[t].obj \in Files =>
    \A r \in Slots \ {call[t].fd} : pFdList[r].obj = call[t].obj =>
      "excl" \notin call[t].flags /\ ~pFdList[r].exclusive

ObjInv == LockInv /\ FdInv /\ OneInv /\ Admitted /\ ExclusiveKept

LEMMA ObjInit == Init => ObjInv
<1> USE GlueAssumption DEF Init, NoCall, FreeFd, Slots
<1>1. Init => NamesStay /\ FilesMounted
  BY DEF NamesStay, Changing, Naming, FilesMounted
<1>2. Init => OpenInv /\ IoInv
  BY DEF OpenInv, Keeping, IoInv
<1>3. Init => Admitted /\ ExclusiveKept
  BY DEF Admitted, Keeping, ExclusiveKept
<1>4. QED
  BY LockInit, FdInit, <1>1, <1>2, <1>3 DEF ObjInv, OneInv

(* Nobody names anything while a name or the mount changes.                *)
LEMMA NamesStep ==
  ASSUME LockInv, FdInv, OneInv,
         "shared" \notin Exposed, "rename" \notin Exposed,
         NEW t \in Tasks, Calls(t) \/ Step(t)
  PROVE  NamesStay'
<1> USE GlueAssumption
        DEF FdInv, TypeInv, CallType, CallInv, Filling, Asking, Labels, OneInv,
            NamesStay, Changing, Naming, Begin, Goto, Return, NoCall, locks
<1>1. ASSUME NEW path \in Paths, NEW flags \in Flags, Open(t, path, flags)
     PROVE  NamesStay'
  BY <1>1 DEF Open
<1>2. ASSUME NEW s \in Slots, Close(t, s)
     PROVE  NamesStay'
  BY <1>2 DEF Close, Usable
<1>3. ASSUME NEW s \in Slots, FileIo(t, s)
     PROVE  NamesStay'
  BY <1>3 DEF FileIo, Usable
<1>4. ASSUME NEW s \in Slots, Query(t, s)
     PROVE  NamesStay'
  BY <1>4 DEF Query, Usable
<1>5. ASSUME NEW path \in Paths, Delete(t, path)
     PROVE  NamesStay'
  BY <1>5 DEF Delete
<1>6. ASSUME NEW s \in Slots, NEW new \in Paths, Rename(t, s, new)
     PROVE  NamesStay'
  BY <1>6 DEF Rename, Usable
<1>7. ASSUME NEW l \in {"volunmount", "unmounting"}, Unmount(t, l)
     PROVE  NamesStay'
  BY <1>7 DEF Unmount
<1>8. ASSUME NEW s \in Unused, FdGet(t, s)
     PROVE  NamesStay'
  BY <1>8 DEF FdGet, Unused
<1>9. ASSUME NEW o \in Objs, Opens(t, o)
     PROVE  NamesStay'
  BY <1>9 DEF Opens
<1>10. CASE VolMount(t)
  BY <1>10 DEF VolMount
<1>11. CASE MountOk(t)
  BY <1>11 DEF MountOk
<1>12. CASE MountFails(t)
  BY <1>12 DEF MountFails
<1>13. CASE NoFd(t)
  BY <1>13 DEF NoFd, Unused
<1>14. CASE Find(t)
  BY <1>14 DEF Find
<1>15. CASE Create(t)
  BY <1>15 DEF Create
<1>16. CASE OpenFails(t)
  BY <1>16 DEF OpenFails
<1>17. CASE Opened(t)
  BY <1>17 DEF Opened
<1>18. CASE OpenRet(t)
  BY <1>18 DEF OpenRet
<1>19. CASE FdFree(t)
  BY <1>19 DEF FdFree
<1>20. CASE CloseTake(t)
  BY <1>20 DEF CloseTake
<1>21. CASE CloseCore(t)
  BY <1>21 DEF CloseCore
<1>22. CASE FileIoTake(t)
  BY <1>22 DEF FileIoTake
<1>23. CASE FileIoDone(t)
  BY <1>23 DEF FileIoDone
<1>24. CASE QueryDone(t)
  BY <1>24 DEF QueryDone
<1>25. CASE DeleteFind(t)
  BY <1>25 DEF DeleteFind
<1>26. CASE DeleteCore(t)
  BY <1>26 DEF DeleteCore
<1>27. CASE RenameCore(t)
  BY <1>27 DEF RenameCore
<1>28. CASE VolUnmount(t)
  BY <1>28 DEF VolUnmount
<1>29. CASE UnmountCore(t)
  BY <1>29 DEF UnmountCore
<1>30. CASE Enters(t)
  BY <1>30 DEF Enters, Enter
<1>31. QED
  BY <1>1, <1>2, <1>3, <1>4, <1>5, <1>6, <1>7, <1>8, <1>9, <1>10, <1>11,
     <1>12, <1>13, <1>14, <1>15, <1>16, <1>17, <1>18, <1>19, <1>20, <1>21,
     <1>22, <1>23, <1>24, <1>25, <1>26, <1>27, <1>28, <1>29, <1>30
  DEF Calls, Step

(* An open file makes the volume busy.                                     *)
LEMMA MountedStep ==
  ASSUME LockInv, FdInv, OneInv,
         "shared" \notin Exposed, "rename" \notin Exposed,
         NEW t \in Tasks, Calls(t) \/ Step(t)
  PROVE  FilesMounted'
<1> USE GlueAssumption
        DEF FdInv, TypeInv, FdType, CallInv, CallType, Filling, Slots, FreeFd,
            OneInv, FilesMounted, Busy, locks
<1>1. ASSUME NEW path \in Paths, NEW flags \in Flags, Open(t, path, flags)
     PROVE  FilesMounted'
  BY <1>1 DEF Open
<1>2. ASSUME NEW s \in Slots, Close(t, s)
     PROVE  FilesMounted'
  BY <1>2 DEF Close, Usable
<1>3. ASSUME NEW s \in Slots, FileIo(t, s)
     PROVE  FilesMounted'
  BY <1>3 DEF FileIo, Usable
<1>4. ASSUME NEW s \in Slots, Query(t, s)
     PROVE  FilesMounted'
  BY <1>4 DEF Query, Usable
<1>5. ASSUME NEW path \in Paths, Delete(t, path)
     PROVE  FilesMounted'
  BY <1>5 DEF Delete
<1>6. ASSUME NEW s \in Slots, NEW new \in Paths, Rename(t, s, new)
     PROVE  FilesMounted'
  BY <1>6 DEF Rename, Usable
<1>7. ASSUME NEW l \in {"volunmount", "unmounting"}, Unmount(t, l)
     PROVE  FilesMounted'
  BY <1>7 DEF Unmount
<1>8. ASSUME NEW s \in Unused, FdGet(t, s)
     PROVE  FilesMounted'
  BY <1>8 DEF FdGet, Unused
<1>9. ASSUME NEW o \in Objs, Opens(t, o)
     PROVE  FilesMounted'
  BY <1>9 DEF Opens
<1>10. CASE VolMount(t)
  BY <1>10 DEF VolMount
<1>11. CASE MountOk(t)
  BY <1>11 DEF MountOk
<1>12. CASE MountFails(t)
  BY <1>12 DEF MountFails
<1>13. CASE NoFd(t)
  BY <1>13 DEF NoFd, Unused
<1>14. CASE Find(t)
  BY <1>14 DEF Find
<1>15. CASE Create(t)
  BY <1>15 DEF Create
<1>16. CASE OpenFails(t)
  BY <1>16 DEF OpenFails
<1>17. CASE Opened(t)
  BY <1>17 DEF Opened
<1>18. CASE OpenRet(t)
  BY <1>18 DEF OpenRet
<1>19. CASE FdFree(t)
  BY <1>19 DEF FdFree
<1>20. CASE CloseTake(t)
  BY <1>20 DEF CloseTake
<1>21. CASE CloseCore(t)
  BY <1>21 DEF CloseCore
<1>22. CASE FileIoTake(t)
  BY <1>22 DEF FileIoTake
<1>23. CASE FileIoDone(t)
  BY <1>23 DEF FileIoDone
<1>24. CASE QueryDone(t)
  BY <1>24 DEF QueryDone
<1>25. CASE DeleteFind(t)
  BY <1>25 DEF DeleteFind
<1>26. CASE DeleteCore(t)
  BY <1>26 DEF DeleteCore
<1>27. CASE RenameCore(t)
  BY <1>27 DEF RenameCore
<1>28. CASE VolUnmount(t)
  BY <1>28 DEF VolUnmount
<1>29. CASE UnmountCore(t)
  BY <1>29 DEF UnmountCore
<1>30. CASE Enters(t)
  BY <1>30 DEF Enters, Enter
<1>31. QED
  BY <1>1, <1>2, <1>3, <1>4, <1>5, <1>6, <1>7, <1>8, <1>9, <1>10, <1>11,
     <1>12, <1>13, <1>14, <1>15, <1>16, <1>17, <1>18, <1>19, <1>20, <1>21,
     <1>22, <1>23, <1>24, <1>25, <1>26, <1>27, <1>28, <1>29, <1>30
  DEF Calls, Step

(* A descriptor that is being read or written stays as it is.              *)
LEMMA IoStep ==
  ASSUME LockInv, FdInv, OneInv,
         "shared" \notin Exposed, "rename" \notin Exposed,
         NEW t \in Tasks, Calls(t) \/ Step(t)
  PROVE  IoInv'
<1> USE GlueAssumption
        DEF FdInv, TypeInv, FdType, CallInv, SlotInv, CallType, Filling,
            Labels, Slots, FreeFd, NoCall, OneInv, IoInv, Begin, Goto, Return,
            locks
<1>1. ASSUME NEW path \in Paths, NEW flags \in Flags, Open(t, path, flags)
     PROVE  IoInv'
  BY <1>1 DEF Open
<1>2. ASSUME NEW s \in Slots, Close(t, s)
     PROVE  IoInv'
  BY <1>2 DEF Close, Usable
<1>3. ASSUME NEW s \in Slots, FileIo(t, s)
     PROVE  IoInv'
  BY <1>3 DEF FileIo, Usable
<1>4. ASSUME NEW s \in Slots, Query(t, s)
     PROVE  IoInv'
  BY <1>4 DEF Query, Usable
<1>5. ASSUME NEW path \in Paths, Delete(t, path)
     PROVE  IoInv'
  BY <1>5 DEF Delete
<1>6. ASSUME NEW s \in Slots, NEW new \in Paths, Rename(t, s, new)
     PROVE  IoInv'
  BY <1>6 DEF Rename, Usable
<1>7. ASSUME NEW l \in {"volunmount", "unmounting"}, Unmount(t, l)
     PROVE  IoInv'
  BY <1>7 DEF Unmount
<1>8. ASSUME NEW s \in Unused, FdGet(t, s)
     PROVE  IoInv'
  <2>1. s \in Slots /\ s \notin held
    BY <1>8 DEF Unused, NoSlotLost
  <2>2. \A r \in Slots : r # s => pFdList'[r] = pFdList[r]
    BY <1>8, <2>1 DEF FdGet
  <2>3. \A u \in Tasks : pc'[u] \in {"io", "iocore"} =>
          u # t /\ pc'[u] = pc[u] /\ call'[u] = call[u]
    BY <1>8, <2>1 DEF FdGet
  <2>4. /\ held \subseteq Slots
        /\ \A u \in Tasks : pc[u] \in {"io", "iocore"} => call[u].fd \in held
    OBVIOUS
  <2> HIDE DEF TypeInv, CallType, FdType, Labels, Begin, Goto, Return, NoCall,
               FreeFd, locks, CallInv, SlotInv, Slots, FdInv
  <2>5. QED
    BY <2>1, <2>2, <2>3, <2>4
<1>9. ASSUME NEW o \in Objs, Opens(t, o)
     PROVE  IoInv'
  BY <1>9 DEF Opens
<1>10. CASE VolMount(t)
  BY <1>10 DEF VolMount
<1>11. CASE MountOk(t)
  BY <1>11 DEF MountOk
<1>12. CASE MountFails(t)
  BY <1>12 DEF MountFails
<1>13. CASE NoFd(t)
  BY <1>13 DEF NoFd, Unused
<1>14. CASE Find(t)
  BY <1>14 DEF Find
<1>15. CASE Create(t)
  BY <1>15 DEF Create
<1>16. CASE OpenFails(t)
  BY <1>16 DEF OpenFails
<1>17. CASE Opened(t)
  BY <1>17 DEF Opened
<1>18. CASE OpenRet(t)
  BY <1>18 DEF OpenRet
<1>19. CASE FdFree(t)
  BY <1>19 DEF FdFree
<1>20. CASE CloseTake(t)
  BY <1>20 DEF CloseTake
<1>21. CASE CloseCore(t)
  BY <1>21 DEF CloseCore
<1>22. CASE FileIoTake(t)
  BY <1>22 DEF FileIoTake
<1>23. CASE FileIoDone(t)
  BY <1>23 DEF FileIoDone
<1>24. CASE QueryDone(t)
  BY <1>24 DEF QueryDone
<1>25. CASE DeleteFind(t)
  BY <1>25 DEF DeleteFind
<1>26. CASE DeleteCore(t)
  BY <1>26 DEF DeleteCore
<1>27. CASE RenameCore(t)
  BY <1>27 DEF RenameCore
<1>28. CASE VolUnmount(t)
  BY <1>28 DEF VolUnmount
<1>29. CASE UnmountCore(t)
  BY <1>29 DEF UnmountCore
<1>30. CASE Enters(t)
  BY <1>30 DEF Enters, Enter
<1>31. QED
  BY <1>1, <1>2, <1>3, <1>4, <1>5, <1>6, <1>7, <1>8, <1>9, <1>10, <1>11,
     <1>12, <1>13, <1>14, <1>15, <1>16, <1>17, <1>18, <1>19, <1>20, <1>21,
     <1>22, <1>23, <1>24, <1>25, <1>26, <1>27, <1>28, <1>29, <1>30
  DEF Calls, Step

(* A step leaves the descriptors and the opens with their objects.         *)
LEMMA OpenStep ==
  ASSUME LockInv, FdInv, OneInv,
         "shared" \notin Exposed, "rename" \notin Exposed,
         NEW t \in Tasks, Calls(t) \/ Step(t)
  PROVE  OpenInv'
<1> USE GlueAssumption
        DEF LockInv, HoldsDevSem, FdInv, TypeInv, FdType, CallInv, SlotInv,
            CallType, Filling, Labels, Slots, FreeFd, NoCall, OneInv,
            NamesStay, Naming, Changing, OpenInv, Keeping, Free, Take, Begin,
            Goto, Return, locks
<1>1. ASSUME NEW path \in Paths, NEW flags \in Flags, Open(t, path, flags)
     PROVE  OpenInv'
  BY <1>1 DEF Open
<1>2. ASSUME NEW s \in Slots, Close(t, s)
     PROVE  OpenInv'
  BY <1>2 DEF Close, Usable
<1>3. ASSUME NEW s \in Slots, FileIo(t, s)
     PROVE  OpenInv'
  BY <1>3 DEF FileIo, Usable
<1>4. ASSUME NEW s \in Slots, Query(t, s)
     PROVE  OpenInv'
  BY <1>4 DEF Query, Usable
<1>5. ASSUME NEW path \in Paths, Delete(t, path)
     PROVE  OpenInv'
  BY <1>5 DEF Delete
<1>6. ASSUME NEW s \in Slots, NEW new \in Paths, Rename(t, s, new)
     PROVE  OpenInv'
  BY <1>6 DEF Rename, Usable
<1>7. ASSUME NEW l \in {"volunmount", "unmounting"}, Unmount(t, l)
     PROVE  OpenInv'
  BY <1>7 DEF Unmount
<1>8. ASSUME NEW s \in Unused, FdGet(t, s)
     PROVE  OpenInv'
  BY <1>8 DEF FdGet, Unused
<1>9. ASSUME NEW o \in Objs, Opens(t, o)
     PROVE  OpenInv'
  <2>1. \A u \in Tasks : u # t => pc'[u] = pc[u] /\ ~Keeping(u)
    BY <1>9 DEF Opens
  <2>2. o = call[t].obj /\ o \in Objs /\ call[t].path \in Paths /\ call[t].fd \in Slots
    BY <1>9 DEF Opens, Objs
  <2>3. pc'[t] = "opened" /\ call' = call /\ held' = held /\ call[t].fd \notin held
    BY <1>9 DEF Opens
  <2>4. name'[call[t].path] = o
    BY <1>9, <2>2 DEF Opens
  <2>5. /\ pFdList'[call[t].fd].yfd = o
        /\ pFdList'[call[t].fd].obj = pFdList[call[t].fd].obj
        /\ \A s \in Slots : s # call[t].fd => pFdList'[s] = pFdList[s]
    BY <1>9, <2>2 DEF Opens
  <2> HIDE DEF TypeInv, CallType, FdType, Labels, Begin, Goto, Return, NoCall,
               FreeFd, locks, CallInv, LockInv, SlotInv, Slots
  <2>6. QED
    BY <2>1, <2>2, <2>3, <2>4, <2>5
<1>10. CASE VolMount(t)
  <2>1. \A u \in Tasks : u # t => pc'[u] = pc[u] /\ call'[u] = call[u]
    BY <1>10 DEF VolMount
  <2>2. pFdList' = pFdList /\ held' = held /\ name' = name
    BY <1>10 DEF VolMount
  <2>3. pc'[t] \in {"idle", "mounting"}
    BY <1>10 DEF VolMount
  <2> HIDE DEF TypeInv, CallType, FdType, Labels, Begin, Goto, Return, NoCall,
               FreeFd, locks, CallInv, LockInv, SlotInv
  <2>4. QED
    BY <2>1, <2>2, <2>3
<1>11. CASE MountOk(t)
  BY <1>11 DEF MountOk
<1>12. CASE MountFails(t)
  BY <1>12 DEF MountFails
<1>13. CASE NoFd(t)
  BY <1>13 DEF NoFd, Unused
<1>14. CASE Find(t)
  BY <1>14 DEF Find
<1>15. CASE Create(t)
  <2>1. \A u \in Tasks : u # t => pc'[u] = pc[u] /\ call'[u] = call[u] /\ ~Keeping(u)
    BY <1>15 DEF Create
  <2>2. pFdList' = pFdList /\ held' = held /\ pc'[t] # "opened"
    BY <1>15 DEF Create
  <2>3. pc'[t] = "opening" =>
          call'[t].obj \in Objs /\ name'[call'[t].path] = call'[t].obj
    <3>1. ASSUME pc'[t] = "opening"
          PROVE  \E o \in Objs : call' = [call EXCEPT ![t].obj = o]
                                 /\ name' = [name EXCEPT ![call[t].path] = o]
      BY <1>15, <3>1 DEF Create, Objs
    <3>2. call[t].path \in Paths
      BY <1>15 DEF Create
    <3>3. QED
      BY <3>1, <3>2
  <2>4. pc'[t] \in {"opening", "ret"}
    BY <1>15 DEF Create
  <2> HIDE DEF TypeInv, CallType, FdType, Labels, Begin, Goto, Return, NoCall,
               FreeFd, locks, CallInv, LockInv, SlotInv
  <2>5. QED
    BY <2>1, <2>2, <2>3, <2>4
<1>16. CASE OpenFails(t)
  BY <1>16 DEF OpenFails
<1>17. CASE Opened(t)
  BY <1>17 DEF Opened
<1>18. CASE OpenRet(t)
  BY <1>18 DEF OpenRet
<1>19. CASE FdFree(t)
  BY <1>19 DEF FdFree
<1>20. CASE CloseTake(t)
  BY <1>20 DEF CloseTake
<1>21. CASE CloseCore(t)
  BY <1>21 DEF CloseCore
<1>22. CASE FileIoTake(t)
  BY <1>22 DEF FileIoTake
<1>23. CASE FileIoDone(t)
  BY <1>23 DEF FileIoDone
<1>24. CASE QueryDone(t)
  BY <1>24 DEF QueryDone
<1>25. CASE DeleteFind(t)
  BY <1>25, SMTT(30) DEF DeleteFind
<1>26. CASE DeleteCore(t)
  BY <1>26 DEF DeleteCore
<1>27. CASE RenameCore(t)
  BY <1>27 DEF RenameCore
<1>28. CASE VolUnmount(t)
  BY <1>28 DEF VolUnmount
<1>29. CASE UnmountCore(t)
  BY <1>29 DEF UnmountCore
<1>30. CASE Enters(t)
  BY <1>30 DEF Enters, Enter
<1>31. QED
  BY <1>1, <1>2, <1>3, <1>4, <1>5, <1>6, <1>7, <1>8, <1>9, <1>10, <1>11,
     <1>12, <1>13, <1>14, <1>15, <1>16, <1>17, <1>18, <1>19, <1>20, <1>21,
     <1>22, <1>23, <1>24, <1>25, <1>26, <1>27, <1>28, <1>29, <1>30
  DEF Calls, Step

(* A step does not undo what yaffsOpen has checked.                        *)
LEMMA AdmitStep ==
  ASSUME LockInv, FdInv, OneInv, Admitted,
         "shared" \notin Exposed, "rename" \notin Exposed,
         NEW t \in Tasks, Calls(t) \/ Step(t)
  PROVE  Admitted'
<1> USE GlueAssumption
        DEF LockInv, HoldsDevSem, FdInv, TypeInv, FdType, CallInv, SlotInv,
            CallType, Filling, Labels, Slots, FreeFd, NoCall, OneInv, OpenInv,
            Keeping, Admitted, Free, Take, Begin, Goto, Return, locks
<1>1. ASSUME NEW path \in Paths, NEW flags \in Flags, Open(t, path, flags)
     PROVE  Admitted'
  BY <1>1 DEF Open
<1>2. ASSUME NEW s \in Slots, Close(t, s)
     PROVE  Admitted'
  BY <1>2 DEF Close, Usable
<1>3. ASSUME NEW s \in Slots, FileIo(t, s)
     PROVE  Admitted'
  BY <1>3 DEF FileIo, Usable
<1>4. ASSUME NEW s \in Slots, Query(t, s)
     PROVE  Admitted'
  BY <1>4 DEF Query, Usable
<1>5. ASSUME NEW path \in Paths, Delete(t, path)
     PROVE  Admitted'
  BY <1>5 DEF Delete
<1>6. ASSUME NEW s \in Slots, NEW new \in Paths, Rename(t, s, new)
     PROVE  Admitted'
  BY <1>6 DEF Rename, Usable
<1>7. ASSUME NEW l \in {"volunmount", "unmounting"}, Unmount(t, l)
     PROVE  Admitted'
  BY <1>7 DEF Unmount
<1>8. ASSUME NEW s \in Unused, FdGet(t, s)
     PROVE  Admitted'
  BY <1>8 DEF FdGet, Unused
<1>9. ASSUME NEW o \in Objs, Opens(t, o)
     PROVE  Admitted'
  BY <1>9 DEF Opens
<1>10. CASE VolMount(t)
  BY <1>10 DEF VolMount
<1>11. CASE MountOk(t)
  BY <1>11 DEF MountOk
<1>12. CASE MountFails(t)
  BY <1>12 DEF MountFails
<1>13. CASE NoFd(t)
  BY <1>13 DEF NoFd, Unused
<1>14. CASE Find(t)
  <2>1. \A u \in Tasks : u # t => pc'[u] = pc[u] /\ call'[u] = call[u]
    BY <1>14 DEF Find
  <2>2. pFdList' = pFdList /\ call[t].fd \in Slots /\ call[t].path \in Paths
    BY <1>14 DEF Find
  <2>3. /\ call'[t].obj = name[call[t].path] /\ call'[t].fd = call[t].fd
        /\ call'[t].flags = call[t].flags
    BY <1>14 DEF Find
  <2>4. Keeping(t)' => ~OpenDenied(call[t], name[call[t].path])
    BY <1>14 DEF Find
  <2>5. \A r \in Slots : pFdList[r].obj \in Files => pFdList[r].inUse
    BY DEF NoSlotLost, Objs
  <2> HIDE DEF TypeInv, CallType, FdType, Labels, Begin, Goto, Return, NoCall,
               FreeFd, locks, CallInv, LockInv, SlotInv
  <2>6. QED
    BY <2>1, <2>2, <2>3, <2>4, <2>5 DEF OpenDenied, Others
<1>15. CASE Create(t)
  <2>1. \A u \in Tasks : u # t => pc'[u] = pc[u] /\ call'[u] = call[u] /\ ~Keeping(u)
    BY <1>15 DEF Create
  <2>2. pFdList' = pFdList /\ held' = held
    BY <1>15 DEF Create
  <2>3. Keeping(t)' => call'[t].obj \notin Live
    BY <1>15 DEF Create
  <2>4. \A r \in Slots : pFdList[r].obj \in Files => pFdList[r].obj \in Live
    BY DEF Live, Objs
  <2> HIDE DEF TypeInv, CallType, FdType, Labels, Begin, Goto, Return, NoCall,
               FreeFd, locks, CallInv, LockInv, SlotInv
  <2>5. QED
    BY <2>1, <2>2, <2>3, <2>4
<1>16. CASE OpenFails(t)
  BY <1>16 DEF OpenFails
<1>17. CASE Opened(t)
  BY <1>17 DEF Opened
<1>18. CASE OpenRet(t)
  BY <1>18 DEF OpenRet
<1>19. CASE FdFree(t)
  BY <1>19 DEF FdFree
<1>20. CASE CloseTake(t)
  BY <1>20 DEF CloseTake
<1>21. CASE CloseCore(t)
  BY <1>21 DEF CloseCore
<1>22. CASE FileIoTake(t)
  BY <1>22 DEF FileIoTake
<1>23. CASE FileIoDone(t)
  BY <1>23 DEF FileIoDone
<1>24. CASE QueryDone(t)
  BY <1>24 DEF QueryDone
<1>25. CASE DeleteFind(t)
  BY <1>25 DEF DeleteFind
<1>26. CASE DeleteCore(t)
  BY <1>26 DEF DeleteCore
<1>27. CASE RenameCore(t)
  BY <1>27 DEF RenameCore
<1>28. CASE VolUnmount(t)
  BY <1>28 DEF VolUnmount
<1>29. CASE UnmountCore(t)
  BY <1>29 DEF UnmountCore
<1>30. CASE Enters(t)
  BY <1>30 DEF Enters, Enter
<1>31. QED
  BY <1>1, <1>2, <1>3, <1>4, <1>5, <1>6, <1>7, <1>8, <1>9, <1>10, <1>11,
     <1>12, <1>13, <1>14, <1>15, <1>16, <1>17, <1>18, <1>19, <1>20, <1>21,
     <1>22, <1>23, <1>24, <1>25, <1>26, <1>27, <1>28, <1>29, <1>30
  DEF Calls, Step

(* A step opens no file that is open exclusively.                          *)
LEMMA ExclusiveStep ==
  ASSUME FdInv, OneInv, Admitted, ExclusiveKept,
         "shared" \notin Exposed, "rename" \notin Exposed,
         NEW t \in Tasks, Calls(t) \/ Step(t)
  PROVE  ExclusiveKept'
<1> USE GlueAssumption
        DEF FdInv, TypeInv, FdType, CallInv, SlotInv, CallType, Filling, Slots,
            FreeFd, OneInv, OpenInv, Keeping, Admitted, ExclusiveKept, locks
<1>1. ASSUME NEW path \in Paths, NEW flags \in Flags, Open(t, path, flags)
     PROVE  ExclusiveKept'
  BY <1>1 DEF Open
<1>2. ASSUME NEW s \in Slots, Close(t, s)
     PROVE  ExclusiveKept'
  BY <1>2 DEF Close, Usable
<1>3. ASSUME NEW s \in Slots, FileIo(t, s)
     PROVE  ExclusiveKept'
  BY <1>3 DEF FileIo, Usable
<1>4. ASSUME NEW s \in Slots, Query(t, s)
     PROVE  ExclusiveKept'
  BY <1>4 DEF Query, Usable
<1>5. ASSUME NEW path \in Paths, Delete(t, path)
     PROVE  ExclusiveKept'
  BY <1>5 DEF Delete
<1>6. ASSUME NEW s \in Slots, NEW new \in Paths, Rename(t, s, new)
     PROVE  ExclusiveKept'
  BY <1>6 DEF Rename, Usable
<1>7. ASSUME NEW l \in {"volunmount", "unmounting"}, Unmount(t, l)
     PROVE  ExclusiveKept'
  BY <1>7 DEF Unmount
<1>8. ASSUME NEW s \in Unused, FdGet(t, s)
     PROVE  ExclusiveKept'
  BY <1>8 DEF FdGet, Unused
<1>9. ASSUME NEW o \in Objs, Opens(t, o)
     PROVE  ExclusiveKept'
  BY <1>9 DEF Opens
<1>10. CASE VolMount(t)
  BY <1>10 DEF VolMount
<1>11. CASE MountOk(t)
  BY <1>11 DEF MountOk
<1>12. CASE MountFails(t)
  BY <1>12 DEF MountFails
<1>13. CASE NoFd(t)
  BY <1>13 DEF NoFd, Unused
<1>14. CASE Find(t)
  BY <1>14 DEF Find
<1>15. CASE Create(t)
  BY <1>15 DEF Create
<1>16. CASE OpenFails(t)
  BY <1>16 DEF OpenFails
<1>17. CASE Opened(t)
  <2>1. call[t].fd \in Slots /\ call[t].fd \notin held /\ Keeping(t)
    BY <1>17 DEF Opened
  <2>2. held' = held \cup {call[t].fd}
    BY <1>17 DEF Opened
  <2>3. /\ pFdList'[call[t].fd].obj = call[t].obj
        /\ pFdList'[call[t].fd].exclusive = ("excl" \in call[t].flags)
        /\ \A s \in Slots : s # call[t].fd => pFdList'[s] = pFdList[s]
    BY <1>17, <2>1 DEF Opened
  <2>4. "excl" \notin call[t].flags => ~pFdList'[call[t].fd].exclusive
    BY <2>3, Zenon
  <2>5. held \subseteq Slots
    OBVIOUS
  <2> HIDE DEF TypeInv, CallType, FdType, Labels, Begin, Goto, Return, NoCall,
               FreeFd, locks, CallInv, LockInv, SlotInv
  <2>6. QED
    BY <2>1, <2>2, <2>3, <2>4, <2>5
<1>18. CASE OpenRet(t)
  BY <1>18 DEF OpenRet
<1>19. CASE FdFree(t)
  BY <1>19 DEF FdFree
<1>20. CASE CloseTake(t)
  BY <1>20 DEF CloseTake
<1>21. CASE CloseCore(t)
  BY <1>21 DEF CloseCore
<1>22. CASE FileIoTake(t)
  BY <1>22 DEF FileIoTake
<1>23. CASE FileIoDone(t)
  BY <1>23 DEF FileIoDone
<1>24. CASE QueryDone(t)
  BY <1>24 DEF QueryDone
<1>25. CASE DeleteFind(t)
  BY <1>25 DEF DeleteFind
<1>26. CASE DeleteCore(t)
  BY <1>26 DEF DeleteCore
<1>27. CASE RenameCore(t)
  BY <1>27 DEF RenameCore
<1>28. CASE VolUnmount(t)
  BY <1>28 DEF VolUnmount
<1>29. CASE UnmountCore(t)
  BY <1>29 DEF UnmountCore
<1>30. CASE Enters(t)
  <2>1. pFdList' = pFdList /\ held' = held
    BY <1>30 DEF Enters, Enter
  <2>2. QED
    BY <2>1 DEF ExclusiveKept
<1>31. QED
  BY <1>1, <1>2, <1>3, <1>4, <1>5, <1>6, <1>7, <1>8, <1>9, <1>10, <1>11,
     <1>12, <1>13, <1>14, <1>15, <1>16, <1>17, <1>18, <1>19, <1>20, <1>21,
     <1>22, <1>23, <1>24, <1>25, <1>26, <1>27, <1>28, <1>29, <1>30
  DEF Calls, Step

(* A step with its locks keeps the whole of the invariant.                 *)
LEMMA ObjStep ==
  ASSUME "shared" \notin Exposed, "rename" \notin Exposed, ObjInv, [Next]_vars
  PROVE  ObjInv'
<1> USE DEF ObjInv
<1>1. CASE UNCHANGED vars
  BY <1>1 DEF vars, locks, LockInv, InPosix, HoldsDevSem, MayHoldDevSem, FdInv,
     TypeInv, CallInv, Filling, Asking, SlotInv, NoSlotLost, OneInv, NamesStay,
     Changing, Naming, FilesMounted, OpenInv, IoInv, Admitted, Keeping,
     ExclusiveKept
<1>2. ASSUME NEW t \in Tasks, Calls(t) \/ Step(t)
     PROVE  ObjInv'
  <2>1. LockInv' /\ FdInv'
    BY <1>2, LockCalls, LockStep, FdTypeStep, FdCallStep, FdSlotStep DEF FdInv
  <2>2. OneInv'
    BY <1>2, NamesStep, MountedStep, OpenStep, IoStep DEF OneInv
  <2>3. Admitted' /\ ExclusiveKept'
    BY <1>2, AdmitStep, ExclusiveStep
  <2>4. QED
    BY <2>1, <2>2, <2>3
<1>3. QED
  BY <1>1, <1>2 DEF Next

(* While no two tasks use one descriptor at the same time and no name      *)
(* changes under an open, a descriptor of a file reads, writes, seeks and  *)
(* closes one object, which stays in memory on a mounted volume: when a    *)
(* read or write gets devSem, the object it looked at before is there      *)
(* (yaffsOpen finds the object and yaffs_open finds it again).             *)
THEOREM OneObjectKept ==
  ASSUME "shared" \notin Exposed, "rename" \notin Exposed
  PROVE  Spec => []OneObject
<1>1. ObjInv => OneObject
  <2> SUFFICES ASSUME ObjInv PROVE OneObject
    OBVIOUS
  <2>1. /\ held \subseteq Slots
        /\ \A t \in Tasks : call[t].fd # 0 => call[t].fd \in Slots
    BY GlueAssumption DEF ObjInv, FdInv, TypeInv, CallType, Slots
  <2>2. ASSUME NEW s \in held, pFdList[s].obj \in Files
        PROVE  pFdList[s].yfd = pFdList[s].obj /\ pFdList[s].obj \in Live /\ is_mounted
    BY <2>1, <2>2 DEF ObjInv, OneInv, OpenInv, FilesMounted, Live
  <2>3. ASSUME NEW t \in Tasks, pc[t] = "iocore"
        PROVE  call[t].fd \in held
    BY <2>3 DEF ObjInv, OneInv, IoInv, FdInv, SlotInv
  <2>4. ASSUME NEW t \in Tasks, pc[t] = "iocore"
        PROVE  call[t].obj \in Live /\ is_mounted
    BY <2>2, <2>3, <2>4 DEF ObjInv, OneInv, IoInv
  <2>5. QED
    BY <2>2, <2>4 DEF OneObject
<1>2. QED
  BY ObjInit, ObjStep, <1>1, PTL DEF Spec

(* Under the same conditions a file opened with O_EXCL is open once,       *)
(* however opens, creations, deletions and closes of several tasks meet:   *)
(* yaffsOpen looks at the other descriptors and fills in its own without   *)
(* giving devSem in between, and memory of a file that is open is not      *)
(* given out for another.                                                  *)
THEOREM ExclusiveFiles ==
  ASSUME "shared" \notin Exposed, "rename" \notin Exposed
  PROVE  Spec => []ExclusiveKept
<1>1. ObjInv => ExclusiveKept
  BY DEF ObjInv
<1>2. QED
  BY ObjInit, ObjStep, <1>1, PTL DEF Spec

=============================================================================
