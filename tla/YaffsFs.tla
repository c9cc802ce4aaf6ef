------------------------------ MODULE YaffsFs -------------------------------
(***************************************************************************)
(* The POSIX layer (yaffsfs.c): handles, file descriptors and inodes with  *)
(* their reference counts, directory search contexts, and the calls that   *)
(* use them, over a small tree of objects kept in memory by the core.      *)
(*                                                                         *)
(* Every call holds the one lock of yaffsfs_Lock from end to end, with one *)
(* exception: reads and writes let go of it between turns of at most       *)
(* YAFFSFS_RW_SIZE bytes (one unit of size here), and any other call may   *)
(* come in between.  A call that fails changes nothing that is modelled    *)
(* and is left out.                                                        *)
(*                                                                         *)
(* open and owed are auxiliary: the handles the application has opened and *)
(* not closed, and per search context the entries that have stayed in the  *)
(* directory since it was last rewound and were not returned yet.          *)
(***************************************************************************)
EXTENDS Integers, Sequences, SequencesExt, FiniteSets, FiniteSetsExt

CONSTANTS Tasks, Objs, Names, Dscs,
          NHandles,   \* YAFFSFS_N_HANDLES: size of all three tables
          Modes,      \* how files are opened
          MaxSize,    \* bound on sizes and positions, length of the calls
          Sizes,      \* sizes and positions asked for
          Root, None,
          Exposed     \* which known disagreements may be met: "reuse" (a slot
                      \* is given out while a read or write still uses it),
                      \* "hanging" (an unmount or a removal leaves a search
                      \* context), "seekdir" (lseek on a directory)

Dirs == Objs \cup {Root}
Unlinked == "unlinked"

ASSUME SizesAssumption ==
  NHandles \in Nat \ {0} /\ MaxSize \in Nat /\ Sizes \subseteq 0 .. MaxSize

ASSUME TasksAssumption == IsFiniteSet(Tasks)

ASSUME DistinctAssumption ==
  /\ Root \notin Objs /\ None # Unlinked /\ {None, Unlinked} \cap Dirs = {}
  /\ Dscs \cap (0 .. MaxSize) = {}

VARIABLES mounted, read_only, obj, kids, handle, fd, inode,
          v,          \* of each descriptor: position, or search context
          dsc, task, open, owed

core == <<mounted, read_only, obj, kids>>
tables == <<handle, fd, inode, v>>
scans == <<dsc, owed>>
vars == <<core, tables, scans, task, open>>

Slots == 1 .. NHandles

NoObj == [kind |-> "none", dir |-> None, name |-> None, inode |-> 0, size |-> 0]
NoFd == [isDir |-> FALSE, mode |-> None, inode |-> 0, count |-> 0]
Idle == [kind |-> "idle"]

-----------------------------------------------------------------------------
(* The tables.                                                             *)

HandleToFileDes(h) == IF handle[h].use > 0 THEN handle[h].fd ELSE 0

HandleToInode(h) ==
  LET f == HandleToFileDes(h)
  IN IF f > 0 /\ fd[f].count > 0 THEN fd[f].inode ELSE 0

HandleToObject(h) ==
  LET i == HandleToInode(h) IN IF i > 0 THEN inode[i].obj ELSE None

First(S) == CHOOSE i \in S : \A j \in S : i <= j

FreeHandles == {h \in Slots : handle[h].use < 1}
FreeFds == {f \in Slots : fd[f].count < 1}
InodesOf(o) == {i \in Slots : inode[i].obj = o}

(* yaffsfs_GetInodeIdForObject: the inode of the object, or an unused one. *)
InodeFor(o) ==
  First(IF InodesOf(o) # {} THEN InodesOf(o) ELSE InodesOf(None))

(* Is a read or write in progress that will still use these slots?         *)
StillUsed(h, f) ==
  \E t \in Tasks : task[t] # Idle /\ (task[t].h = h \/ task[t].f = f)

-----------------------------------------------------------------------------
(* The tree, as the core keeps it.                                         *)

FindByName(dir, name) ==
  LET here == {o \in Objs : obj[o].kind # "none" /\ obj[o].dir = dir
                            /\ obj[o].name = name}
  IN IF here = {} THEN None ELSE CHOOSE o \in here : TRUE

(* A directory a path can lead to.                                         *)
Reached == {Root} \cup {o \in Objs : obj[o].kind = "dir" /\ obj[o].dir = Root}

FindObject(dir, name) ==
  IF mounted /\ dir \in Reached THEN FindByName(dir, name) ELSE None

(* The entries of a directory from o on, and the one behind o.             *)
From(l, o) == {l[j] : j \in {k \in DOMAIN l : \E i \in 1 .. k : l[i] = o}}

Behind(l, o) ==
  LET i == SelectInSeq(l, LAMBDA x : x = o)
  IN IF i = 0 \/ i = Len(l) THEN None ELSE l[i + 1]

(* What the steps below change of the tree and of the searches in it.      *)
Tree == [obj |-> obj, kids |-> kids, dsc |-> dsc, owed |-> owed]

Becomes(s) ==
  obj' = s.obj /\ kids' = s.kids /\ dsc' = s.dsc /\ owed' = s.owed

(* yaffsfs_RemoveObjectCallback: a search about to return o goes past it.  *)
RemoveObjectCallback_Never(s, o) == s.dsc

RemoveObjectCallback_Ends(s, o) ==
  [d \in Dscs |-> IF s.dsc[d].next = o THEN [s.dsc[d] EXCEPT !.next = None]
                  ELSE s.dsc[d]]

RemoveObjectCallback(s, o) ==
  [d \in Dscs |->
     IF s.dsc[d].next = o
     THEN [s.dsc[d] EXCEPT !.next = Behind(s.kids[s.dsc[d].dir], o)]
     ELSE s.dsc[d]]

(* yaffs_remove_obj_from_dir and yaffs_add_obj_to_dir, which removes the   *)
(* object from where it was and puts it in front.                          *)
RemoveObjFromDir(s, o) ==
  [s EXCEPT !.kids = [dir \in Dirs |-> RemoveFirst(s.kids[dir], o)],
            !.dsc = RemoveObjectCallback(s, o),
            !.owed = [d \in Dscs |-> s.owed[d] \ {o}]]

AddObjToDir_Twice(s, dir, o, name) ==
  [s EXCEPT !.kids[dir] = <<o>> \o @,
            !.obj[o].dir = dir, !.obj[o].name = name]

AddObjToDir(s, dir, o, name) ==
  LET r == RemoveObjFromDir(s, o)
  IN [r EXCEPT !.kids[dir] = <<o>> \o @,
               !.obj[o].dir = dir, !.obj[o].name = name]

(* yaffs_unlink_worker: an object in use is moved to the unlinked          *)
(* directory, another is freed at once.                                    *)
InUse_Never(o) == FALSE

InUse(o) == obj[o].inode # 0

UnlinkWorker(s, o) ==
  LET r == RemoveObjFromDir(s, o)
  IN [r EXCEPT !.obj[o] = IF InUse(o)
                          THEN [@ EXCEPT !.dir = Unlinked, !.name = None]
                          ELSE NoObj]

CanGo(o) ==
  /\ obj[o].kind = "dir" => kids[o] = <<>>
  /\ "hanging" \notin Exposed => \A d \in Dscs : dsc[d].dir # o

-----------------------------------------------------------------------------
(* Search contexts.                                                        *)

NoDsc == [inUse |-> FALSE, dir |-> None, next |-> None]

Rewound(dir) ==
  [inUse |-> TRUE, dir |-> dir,
   next |-> IF kids[dir] = <<>> THEN None ELSE Head(kids[dir])]

FdDscs == {v[f] : f \in {g \in Slots : fd[g].count > 0 /\ fd[g].isDir}}

StartScan(d, dir) ==
  /\ dsc' = [dsc EXCEPT ![d] = Rewound(dir)]
  /\ owed' = [owed EXCEPT ![d] = ToSet(kids[dir])]

Opendir(dir) ==
  /\ mounted /\ dir \in Reached
  /\ \E d \in Dscs : ~dsc[d].inUse /\ StartScan(d, dir)
  /\ UNCHANGED <<core, tables, task, open>>

ReaddirNoLock(d) ==
  /\ dsc[d].inUse /\ dsc[d].next # None
  /\ owed' = [owed EXCEPT ![d] = @ \ {dsc[d].next}]
  /\ dsc' = [dsc EXCEPT ![d].next = Behind(kids[dsc[d].dir], @)]
  /\ UNCHANGED <<core, tables, task, open>>

RewinddirNoLock(d) ==
  /\ dsc[d].inUse
  /\ StartScan(d, dsc[d].dir)
  /\ UNCHANGED <<core, tables, task, open>>

Readdir(d) == d \notin FdDscs /\ ReaddirNoLock(d)
Rewinddir(d) == d \notin FdDscs /\ RewinddirNoLock(d)

Closedir(d) ==
  /\ d \notin FdDscs /\ dsc[d].inUse
  /\ dsc' = [dsc EXCEPT ![d] = NoDsc]
  /\ owed' = [owed EXCEPT ![d] = {}]
  /\ UNCHANGED <<core, tables, task, open>>

(* The same by the handle of a directory.                                  *)
DirOf(h) ==
  LET f == HandleToFileDes(h)
  IN IF open[h] /\ f > 0 /\ fd[f].isDir THEN {v[f]} \cap Dscs ELSE {}

ReaddirFd(h) == \E d \in DirOf(h) : ReaddirNoLock(d)
RewinddirFd(h) == \E d \in DirOf(h) : RewinddirNoLock(d)

-----------------------------------------------------------------------------
(* Opening and closing.                                                    *)

(* A descriptor of mode m does what one of mode n shares.                  *)
Spares(m, n) == (m.read => n.shareRead) /\ (m.write => n.shareWrite)

(* What is open of the object already, and what is asked for, allow each   *)
(* other.                                                                  *)
SharingAllows_Forward(o, mode) ==
  \A f \in Slots :
    fd[f].count > 0 /\ fd[f].inode > 0 /\ inode[fd[f].inode].obj = o =>
      Spares(mode, fd[f].mode)

SharingAllows(o, mode) ==
  \A f \in Slots :
    fd[f].count > 0 /\ fd[f].inode > 0 /\ inode[fd[f].inode].obj = o =>
      Spares(mode, fd[f].mode) /\ Spares(fd[f].mode, mode)

NotStillUsed(h, f) == "reuse" \notin Exposed => ~StillUsed(h, f)

(* The last part of yaffs_open_sharing_reldir, for an object found or made.*)
Opened(o, mode, isDir, first) ==
  LET h == First(FreeHandles)
      f == First(FreeFds)
      i == InodeFor(o)
  IN /\ FreeHandles # {} /\ FreeFds # {}
     /\ NotStillUsed(h, f)
     /\ handle' = [handle EXCEPT ![h] = [fd |-> f, use |-> 1]]
     /\ fd' = [fd EXCEPT ![f] = [isDir |-> isDir, mode |-> mode, inode |-> i,
                                 count |-> 1]]
     /\ v' = [v EXCEPT ![f] = first]
     /\ inode' = [inode EXCEPT ![i] = [obj |-> o, count |-> @.count + 1]]
     /\ open' = [open EXCEPT ![h] = TRUE]

HookInode(ob, o, size) ==
  [ob EXCEPT ![o].inode = InodeFor(o), ![o].size = size]

OpenFile(dir, name, mode) ==
  LET o == FindObject(dir, name)
  IN /\ o # None /\ obj[o].kind = "file"
     /\ mode.write => ~read_only
     /\ SharingAllows(o, mode)
     /\ Opened(o, mode, FALSE, 0)
     /\ obj' = HookInode(obj, o, IF mode.trunc /\ mode.write THEN 0
                                 ELSE obj[o].size)
     /\ UNCHANGED <<mounted, read_only, kids, scans, task>>

Make(o, kind) == [obj EXCEPT ![o] = [NoObj EXCEPT !.kind = kind]]

CreateFile(dir, name, mode) ==
  /\ mounted /\ dir \in Reached /\ mode.creat /\ ~read_only
  /\ FindObject(dir, name) = None
  /\ \E o \in Objs :
       /\ obj[o].kind = "none"
       /\ Opened(o, mode, FALSE, 0)
       /\ LET s == AddObjToDir([Tree EXCEPT !.obj = Make(o, "file")],
                               dir, o, name)
          IN Becomes([s EXCEPT !.obj = HookInode(@, o, 0)])
  /\ UNCHANGED <<mounted, read_only, task>>

(* A directory is opened for reading only, with a search context of its    *)
(* own.                                                                    *)
OpenDirectory(dir, mode) ==
  /\ mounted /\ dir \in Reached
  /\ mode.read /\ ~mode.write
  /\ SharingAllows(dir, mode)
  /\ \E d \in Dscs :
       /\ ~dsc[d].inUse
       /\ StartScan(d, dir)
       /\ Opened(dir, mode, TRUE, d)
  /\ obj' = HookInode(obj, dir, 0)
  /\ UNCHANGED <<mounted, read_only, kids, task>>

Mkdir(name) ==
  /\ mounted /\ ~read_only /\ FindObject(Root, name) = None
  /\ \E o \in Objs :
       /\ obj[o].kind = "none"
       /\ Becomes(AddObjToDir([Tree EXCEPT !.obj = Make(o, "dir")],
                              Root, o, name))
  /\ UNCHANGED <<mounted, read_only, tables, task, open>>

Dup(h) ==
  LET f == HandleToFileDes(h)
      new == First(FreeHandles)
  IN /\ open[h] /\ f > 0
     /\ FreeHandles # {}
     /\ NotStillUsed(new, 0)
     /\ handle' = [handle EXCEPT ![new] = [fd |-> f, use |-> 1]]
     /\ fd' = [fd EXCEPT ![f].count = @ + 1]
     /\ open' = [open EXCEPT ![new] = TRUE]
     /\ UNCHANGED <<core, inode, v, scans, task>>

(* yaffsfs_PutInode and yaffsfs_ReleaseInode for descriptor f's inode.     *)
FreedWith_Nothing(o) == FALSE

FreedWith(o) == obj[o].dir = Unlinked

PutInode(f, ob) ==
  LET i == fd[f].inode
      o == inode[i].obj
  IN IF inode[i].count > 1
     THEN inode' = [inode EXCEPT ![i].count = @ - 1] /\ obj' = ob
     ELSE /\ inode' = [inode EXCEPT ![i] = [obj |-> None, count |-> 0]]
          /\ obj' = [ob EXCEPT ![o] = IF FreedWith(o) THEN NoObj
                                       ELSE [@ EXCEPT !.inode = 0]]
          /\ "hanging" \notin Exposed /\ FreedWith(o) =>
               \A d \in Dscs : dsc[d].dir = o => v[f] = d

PutFileDes_Always(f, ob) ==
  /\ fd' = [fd EXCEPT ![f] = NoFd]
  /\ PutInode(f, ob)
  /\ UNCHANGED scans

PutFileDes(f, ob) ==
  IF fd[f].count > 1
  THEN /\ fd' = [fd EXCEPT ![f].count = @ - 1]
       /\ obj' = ob
       /\ UNCHANGED <<inode, scans>>
  ELSE /\ fd' = [fd EXCEPT ![f] = NoFd]
       /\ PutInode(f, ob)
       /\ IF fd[f].isDir
          THEN /\ dsc' = [dsc EXCEPT ![v[f]] = NoDsc]
               /\ owed' = [owed EXCEPT ![v[f]] = {}]
          ELSE UNCHANGED scans

(* yaffsfs_PutHandle, ob being the objects as the call leaves them.        *)
PutHandle(h, ob) ==
  CASE handle[h].use > 1 ->
         /\ handle' = [handle EXCEPT ![h].use = @ - 1]
         /\ obj' = ob
         /\ UNCHANGED <<fd, inode, scans>>
    [] handle[h].use = 1 ->
         /\ handle' = [handle EXCEPT ![h] = [fd |-> 0, use |-> 0]]
         /\ PutFileDes(handle[h].fd, ob)
    [] handle[h].use = 0 ->
         /\ obj' = ob
         /\ UNCHANGED <<handle, fd, inode, scans>>

(* A descriptor let go of keeps nothing that its next user could see.      *)
Keep(w) == v' = [f \in Slots |-> IF fd'[f].count > 0 THEN w[f] ELSE 0]

Close(h) ==
  /\ open[h] /\ HandleToObject(h) # None
  /\ PutHandle(h, obj)
  /\ Keep(v)
  /\ open' = [open EXCEPT ![h] = FALSE]
  /\ UNCHANGED <<mounted, read_only, kids, task>>

-----------------------------------------------------------------------------
(* Reading and writing, a turn at a time.                                  *)

(* A turn of yaffsfs_do_read or yaffsfs_do_write on the object the handle  *)
(* has now: none when the device was unmounted; ok says whether the core   *)
(* wrote it.  A turn that does not get what it asked for is the last.      *)
TurnWorks(r, o, ok) ==
  o # None /\ (r.kind = "write" => ok /\ ~read_only)

Turned(r, o, ok) ==
  IF TurnWorks(r, o, ok)
  THEN [r EXCEPT !.pos = @ + 1, !.left = @ - 1]
  ELSE [r EXCEPT !.left = 0]

Written(r, o, ok) ==
  IF r.kind = "write" /\ TurnWorks(r, o, ok)
  THEN [obj EXCEPT ![o].size = IF @ > r.pos THEN @ ELSE r.pos + 1]
  ELSE obj

(* The end of the call moves the position by what was read or written.     *)
Moved(r) ==
  IF r.at THEN v ELSE [v EXCEPT ![r.f] = r.pos]

(* The call as it stands when it begins, with at most n units to do; at is *)
(* set for pread and pwrite, which bring their own offset.                 *)
Call(kind, h, at, off, n) ==
  LET f == HandleToFileDes(h)
      o == HandleToObject(h)
      start == IF kind = "write" /\ fd[f].mode.append THEN obj[o].size
               ELSE IF at THEN off ELSE v[f]
      most == IF kind = "write" THEN MaxSize - start ELSE obj[o].size - start
  IN [kind |-> kind, h |-> h, f |-> f, at |-> at, pos |-> start,
      left |-> IF n < most THEN n ELSE most, o |-> o]

(* Checks and first turn, under one lock.                                  *)
Begin(t, h, r, ok) ==
  LET r1 == Turned(r, r.o, ok)
  IN /\ r.left > 0
     /\ obj' = Written(r, r.o, ok)
     /\ IF r1.left > 0
        THEN /\ handle' = [handle EXCEPT ![h].use = @ + 1]
             /\ task' = [task EXCEPT ![t] = r1]
             /\ UNCHANGED v
        ELSE /\ v' = IF TurnWorks(r, r.o, ok) THEN Moved(r1) ELSE v
             /\ UNCHANGED <<handle, task>>
     /\ UNCHANGED <<mounted, read_only, kids, fd, inode, scans, open>>

Usable(t, h) == task[t] = Idle /\ open[h] /\ HandleToObject(h) # None
                /\ ~fd[HandleToFileDes(h)].isDir

Read(t, h, at, off, n) ==
  /\ Usable(t, h) /\ fd[HandleToFileDes(h)].mode.read
  /\ Begin(t, h, Call("read", h, at, off, n), TRUE)

Write(t, h, at, off, n) ==
  /\ Usable(t, h) /\ fd[HandleToFileDes(h)].mode.write /\ ~read_only
  /\ \E ok \in BOOLEAN : Begin(t, h, Call("write", h, at, off, n), ok)

(* The object is looked up again, because the lock was let go.             *)
Looked_AtStart(r) == r.o

Looked(r) == HandleToObject(r.h)

NextTurn(t) ==
  /\ task[t] # Idle
  /\ \E ok \in {TRUE, task[t].kind = "read"} :
       LET r == task[t]
           o == Looked(r)
           r1 == Turned(r, o, ok)
       IN IF r1.left > 0
          THEN /\ obj' = Written(r, o, ok)
               /\ task' = [task EXCEPT ![t] = r1]
               /\ UNCHANGED <<tables, scans>>
          ELSE /\ task' = [task EXCEPT ![t] = Idle]
               /\ PutHandle(r.h, Written(r, o, ok))
               /\ Keep(Moved(r1))
  /\ UNCHANGED <<mounted, read_only, kids, open>>

-----------------------------------------------------------------------------
(* The other calls on files and names.                                     *)

Resized(o, new) ==
  /\ obj[o].kind = "file" /\ ~read_only
  /\ obj' = [obj EXCEPT ![o].size = new]
  /\ UNCHANGED <<mounted, read_only, kids, tables, scans, task, open>>

Truncate(dir, name, new) ==
  FindObject(dir, name) # None /\ Resized(FindObject(dir, name), new)

Ftruncate(h, new) ==
  /\ open[h] /\ HandleToObject(h) # None
  /\ fd[HandleToFileDes(h)].mode.write
  /\ Resized(HandleToObject(h), new)

(* The position shares its place with the search context of a directory.   *)
Lseek(h, pos) ==
  /\ open[h] /\ HandleToObject(h) # None
  /\ fd[HandleToFileDes(h)].isDir => "seekdir" \in Exposed
  /\ v' = [v EXCEPT ![HandleToFileDes(h)] = pos]
  /\ UNCHANGED <<core, handle, fd, inode, scans, task, open>>

(* yaffsfs_DoUnlink_reldir, for unlink and rmdir.                          *)
DoUnlink(dir, name) ==
  LET o == FindObject(dir, name)
  IN /\ o # None /\ ~read_only /\ CanGo(o)
     /\ Becomes(UnlinkWorker(Tree, o))
     /\ UNCHANGED <<mounted, read_only, tables, task, open>>

Funlink(h) ==
  LET o == HandleToObject(h)
  IN /\ open[h] /\ o \notin {None, Root} /\ ~read_only
     /\ kids[o] = <<>>
     /\ Becomes(UnlinkWorker(Tree, o))
     /\ UNCHANGED <<mounted, read_only, tables, task, open>>

(* yaffs_rename_reldir and yaffs_rename_obj.  A directory stays in the     *)
(* root, which bounds the depth of the tree.                               *)
Renamed(o, old, dir, name) ==
  LET moved == AddObjToDir(Tree, dir, o, name)
  IN IF old \in {None, o} THEN moved
     ELSE AddObjToDir(UnlinkWorker(moved, old), dir, o, name)

Rename(dir, name, newdir, newname) ==
  LET o == FindObject(dir, name)
      old == FindObject(newdir, newname)
  IN /\ o # None /\ newdir \in Reached /\ ~read_only
     /\ obj[o].kind = "dir" => newdir = Root
     /\ old # None => obj[o].kind = obj[old].kind
     /\ old \notin {None, o} => CanGo(old)
     /\ obj[o].kind = "dir" /\ old = o => kids[o] = <<>>
     /\ Becomes(Renamed(o, old, newdir, newname))
     /\ UNCHANGED <<mounted, read_only, tables, task, open>>

-----------------------------------------------------------------------------
(* The device.                                                             *)

IsDevBusy == \E h \in Slots : HandleToObject(h) # None

NoScans == "hanging" \notin Exposed => \A d \in Dscs : ~dsc[d].inUse

(* The objects in memory are given up; what is in the tree comes back with *)
(* the next mount.                                                         *)
Deinitialise(ob) ==
  /\ mounted' = FALSE
  /\ obj' = [o \in Dirs |-> IF ob[o].dir = Unlinked THEN NoObj
                            ELSE [ob[o] EXCEPT !.inode = 0]]

(* yaffsfs_BreakDeviceHandles, for the one device there is: every handle   *)
(* and descriptor ends, and every inode is put.                            *)
BreakDeviceHandles ==
  /\ handle' = [h \in Slots |-> [fd |-> 0, use |-> 0]]
  /\ fd' = [f \in Slots |-> NoFd]
  /\ inode' = [i \in Slots |-> [obj |-> None, count |-> 0]]
  /\ v' = [f \in Slots |-> 0]
  /\ open' = [h \in Slots |-> FALSE]

Unmount(force) ==
  /\ mounted /\ NoScans
  /\ IF IsDevBusy THEN force /\ BreakDeviceHandles
     ELSE UNCHANGED <<tables, open>>
  /\ Deinitialise(obj)
  /\ UNCHANGED <<read_only, kids, scans, task>>

Mount(ro) ==
  /\ ~mounted
  /\ mounted' = TRUE
  /\ read_only' = ro
  /\ UNCHANGED <<obj, kids, tables, scans, task, open>>

Remount(force, ro) ==
  /\ mounted /\ (force \/ ~IsDevBusy)
  /\ read_only' = ro
  /\ UNCHANGED <<mounted, obj, kids, tables, scans, task, open>>

NoObjs == [o \in Dirs |-> IF o = Root THEN [NoObj EXCEPT !.kind = "dir"]
                          ELSE NoObj]

(* yaffs_format_common: unmounted first, then emptied, and mounted again   *)
(* if it was.                                                              *)
Format(force, remount) ==
  /\ mounted => NoScans
  /\ IF IsDevBusy THEN force /\ BreakDeviceHandles
     ELSE UNCHANGED <<tables, open>>
  /\ obj' = NoObjs
  /\ kids' = [dir \in Dirs |-> <<>>]
  /\ mounted' = (mounted /\ remount)
  /\ UNCHANGED <<read_only, scans, task>>

Init ==
  /\ mounted = TRUE /\ read_only = FALSE
  /\ obj = NoObjs /\ kids = [dir \in Dirs |-> <<>>]
  /\ handle = [h \in Slots |-> [fd |-> 0, use |-> 0]]
  /\ fd = [f \in Slots |-> NoFd]
  /\ inode = [i \in Slots |-> [obj |-> None, count |-> 0]]
  /\ v = [f \in Slots |-> 0]
  /\ dsc = [d \in Dscs |-> NoDsc]
  /\ task = [t \in Tasks |-> Idle]
  /\ open = [h \in Slots |-> FALSE]
  /\ owed = [d \in Dscs |-> {}]

Next ==
  \/ \E dir \in Dirs, name \in Names :
       \/ \E mode \in Modes : OpenFile(dir, name, mode)
                              \/ CreateFile(dir, name, mode)
       \/ \E new \in Sizes : Truncate(dir, name, new)
       \/ DoUnlink(dir, name)
       \/ \E newdir \in Dirs, newname \in Names :
            Rename(dir, name, newdir, newname)
  \/ \E dir \in Dirs : Opendir(dir) \/ \E mode \in Modes : OpenDirectory(dir, mode)
  \/ \E name \in Names : Mkdir(name)
  \/ \E d \in Dscs : Readdir(d) \/ Rewinddir(d) \/ Closedir(d)
  \/ \E h \in Slots :
       \/ Dup(h) \/ Close(h) \/ Funlink(h) \/ ReaddirFd(h) \/ RewinddirFd(h)
       \/ \E new \in Sizes : Ftruncate(h, new) \/ Lseek(h, new)
       \/ \E t \in Tasks, at \in BOOLEAN, off \in Sizes :
            Read(t, h, at, off, MaxSize) \/ Write(t, h, at, off, MaxSize)
  \/ \E t \in Tasks : NextTurn(t)
  \/ \E force, ro \in BOOLEAN :
       Unmount(force) \/ Mount(ro) \/ Remount(force, ro) \/ Format(force, ro)

Spec == Init /\ [][Next]_vars

-----------------------------------------------------------------------------
(* The tables hold what the calls put there.                               *)
TypeOK ==
  /\ mounted \in BOOLEAN /\ read_only \in BOOLEAN
  /\ \A o \in Objs : obj[o].dir \in Dirs \cup {Unlinked, None}
  /\ \A dir \in Dirs : \A i, j \in DOMAIN kids[dir] :
       kids[dir][i] = kids[dir][j] => i = j
  /\ \A dir \in Dirs, o \in Objs :
       o \in ToSet(kids[dir]) <=> obj[o].kind # "none" /\ obj[o].dir = dir
  /\ \A f \in Slots : v[f] \in (0 .. MaxSize) \cup Dscs

(* The counts agree with what they count: a handle in use is one the       *)
(* application has open, or that a read or write in progress holds; a      *)
(* descriptor counts its handles and an inode its descriptors; an object   *)
(* and its inode know each other.  So nothing leaks, and nothing is let go *)
(* of twice, by dup, a close during a read, or a forced unmount            *)
(* (yaffsfs_PutHandle, yaffsfs_PutFileDes, yaffsfs_PutInode).              *)
TablesAgree ==
  /\ \A h \in Slots :
       IF handle[h].use = 0 THEN ~open[h]
       ELSE /\ handle[h].use = (IF open[h] THEN 1 ELSE 0) +
                 Cardinality({t \in Tasks : task[t] # Idle /\ task[t].h = h})
            /\ HandleToInode(h) # 0
  /\ \A f \in Slots :
       fd[f].count = Cardinality({h \in Slots : HandleToFileDes(h) = f})
  /\ \A i \in Slots :
       /\ inode[i].count = Cardinality({f \in Slots : fd[f].count > 0
                                                      /\ fd[f].inode = i})
       /\ inode[i].count > 0 <=> inode[i].obj # None
       /\ inode[i].obj # None => obj[inode[i].obj].inode = i

(* An object that is open is in memory, and one that was unlinked is freed *)
(* with its last close, not before and not never (yaffsfs_ReleaseInode).   *)
OpenKept ==
  /\ \A i \in Slots : inode[i].obj # None =>
       mounted /\ obj[inode[i].obj].kind # "none"
  /\ \A o \in Objs : obj[o].dir = Unlinked => obj[o].inode # 0

(* No descriptor grants what another one on the same object was promised   *)
(* to be spared (the sharing test of yaffs_open_sharing_reldir).           *)
SharingKept ==
  \A f, g \in Slots :
    f # g /\ fd[f].count > 0 /\ fd[g].count > 0 /\ fd[f].inode = fd[g].inode
      => Spares(fd[f].mode, fd[g].mode)

(* A search context refers to a directory in memory and to an entry of it, *)
(* however entries are removed (yaffsfs_RemoveObjectCallback advances it   *)
(* "to prevent a hanging ptr"); the one of a directory handle is its own.  *)
NoHangingPtr ==
  /\ \A d \in Dscs : dsc[d].inUse =>
       /\ mounted /\ obj[dsc[d].dir].kind = "dir"
       /\ dsc[d].next \in ToSet(kids[dsc[d].dir]) \cup {None}
  /\ \A f \in Slots : fd[f].count > 0 /\ fd[f].isDir =>
       /\ v[f] \in Dscs
       /\ dsc[v[f]].inUse
       /\ \A g \in Slots : fd[g].count > 0 /\ v[g] = v[f] => f = g

(* What a search has still to return is what stayed in the directory since *)
(* it was rewound and was not returned: no entry is skipped or returned    *)
(* twice, whatever is created, renamed or removed meanwhile                *)
(* (yaffsfs_RemoveObjectCallback, yaffs_add_obj_to_dir).                   *)
ScanComplete ==
  \A d \in Dscs : dsc[d].inUse =>
    From(kids[dsc[d].dir], dsc[d].next) = owed[d]

(* Between its turns a read or write keeps to the file it began on, or has *)
(* lost it: "Need to reverify object in case the device was unmounted in   *)
(* another thread" (yaffsfs_do_read, yaffsfs_do_write).                    *)
KeepsItsFile ==
  \A t \in Tasks : task[t] # Idle =>
    \/ Looked(task[t]) = None
    \/ Looked(task[t]) = task[t].o /\ mounted
=============================================================================
