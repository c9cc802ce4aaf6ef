---------------------------- MODULE YaffsObjects ----------------------------
(***************************************************************************)
(* Objects and their names on a log-structured flash that may lose power   *)
(* between any two page programs: creation, hard links, rename with        *)
(* shadowing, removal, removal of an open file, truncation, garbage        *)
(* collection of the chunks concerned, and the mount that rebuilds the     *)
(* objects from the log by scanning it backwards (yaffs_guts.c,            *)
(* yaffs_yaffs2.c).                                                        *)
(*                                                                         *)
(* flash is the log: the chunks present on the flash in the order they     *)
(* were programmed, oldest first.  A chunk is an object header or the one  *)
(* data chunk of a file.  live is its bit in the chunk bitmap and keep the *)
(* has_shrink_hdr flag of its block: both are RAM knowledge, rebuilt by a  *)
(* mount.  Blocks are not modelled here: which chunks share a block        *)
(* depends on the rest of the file system, so any dead chunk may be erased *)
(* at any time, except that a block with a shrink header is erased only    *)
(* when nothing older is dead (yaffs2_block_ok_for_gc; YaffsBlocks checks  *)
(* that rule: ShrinkHeaderOutlives).                                       *)
(*                                                                         *)
(* A call changes RAM and programs chunks in an order the code fixes; todo *)
(* is the rest of that order.  Names live in one directory, the root;      *)
(* unlinked and deleted are the two directories no name leads to.          *)
(***************************************************************************)
EXTENDS Naturals, Sequences, SequencesExt

CONSTANTS Ids,            \* object ids
          Names,          \* names in the root directory
          Vals,           \* contents of a data chunk
          Nobody,         \* the id 0
          Empty, Idle,
          Ops,            \* the calls that are made
          MaxLog,         \* bound on the chunks present on the flash
          Exposed         \* which of two known exposures a run lets happen:
                          \*   "links": a file with a second name is renamed
                          \*     over, or power fails while it loses a name;
                          \*   "mountgc": a mount collects garbage before it
                          \*     has deleted what it found unlinked

VARIABLES flash, up, ram, todo, call,
          found           \* auxiliary: what a mount of flash would find

vars == <<flash, up, ram, todo, call, found>>

Hidden == {"unlinked", "deleted"}

NoObj == [kind |-> "none", parent |-> "none", name |-> "-",
          equiv |-> Nobody, size |-> 0, shadowed |-> FALSE, open |-> FALSE,
          dirty |-> FALSE, hooked |-> FALSE]

-----------------------------------------------------------------------------
(* The backward scan.  A scan has found, for every object id, the object   *)
(* so far, whether a header has been seen (valid) and whether a shrink     *)
(* below the data chunk has (cut).                                         *)

FoundFile == [r |-> [NoObj EXCEPT !.kind = "file"],
              valid |-> FALSE, cut |-> FALSE]

FindOrCreate(st, o, k) ==
  IF st[o].r.kind # "none" THEN st
  ELSE [st EXCEPT ![o] = [FoundFile EXCEPT !.r.kind = k]]

BelongsToFile_EvenIfCut(ob) == ob.r.kind = "file"

BelongsToFile(ob) == ob.r.kind = "file" /\ ~ob.cut

(* A data chunk belongs to the file unless a newer chunk took its place or *)
(* a newer header cut the file.                                            *)
ScanData(fl, sc, i) ==
  LET o    == fl[i].obj
      st   == FindOrCreate(sc.st, o, "file")
      mine == BelongsToFile(st[o])
      dup  == \E j \in sc.live : fl[j].obj = o /\ fl[j].kind = "data"
  IN [st   |-> IF mine /\ ~st[o].valid THEN [st EXCEPT ![o].r.size = 1]
               ELSE st,
      live |-> IF mine /\ ~dup THEN sc.live \cup {i} ELSE sc.live,
      keep |-> sc.keep]

HandleShadowed_Ignored(st, o) == st

(* The object a header shadows is gone, unless something newer of it has   *)
(* been seen.                                                              *)
HandleShadowed(st, o) ==
  IF o = Nobody \/ (o # Nobody /\ st[o].r.kind # "none") THEN st
  ELSE [st EXCEPT ![o] =
          [r |-> [NoObj EXCEPT !.kind = "file", !.shadowed = TRUE,
                               !.parent = "unlinked"],
           valid |-> TRUE, cut |-> TRUE]]

(* A header of a file on its way out counts as a cut to nothing.           *)
CutToNothing(c) == c.parent \in Hidden

(* An older header only tells whether the file was cut when it was         *)
(* written.                                                                *)
ScanOldHdr(fl, sc, i) ==
  LET c    == fl[i]
      gone == CutToNothing(c)
      shr  == /\ sc.st[c.obj].r.kind = "file" /\ c.kind = "file"
              /\ c.shrink \/ gone
  IN [st   |-> IF shr /\ (gone \/ c.size = 0)
               THEN [sc.st EXCEPT ![c.obj].cut = TRUE] ELSE sc.st,
      live |-> sc.live,
      keep |-> IF shr THEN sc.keep \cup {i} ELSE sc.keep]

(* The newest header is the object; one of another type than the data      *)
(* chunks suggested drops them (yaffs_retype_obj).                         *)
ScanNewHdr(fl, sc, i) ==
  LET c    == fl[i]
      in   == sc.st[c.obj]
      drop == in.r.kind # c.kind
      size == IF drop \/ in.r.size < c.size THEN c.size ELSE in.r.size
      new  == [r |-> [NoObj EXCEPT !.kind = c.kind, !.parent = c.parent,
                        !.name = c.name, !.equiv = c.equiv, !.size = size],
               valid |-> TRUE,
               cut |-> in.cut \/ c.size = 0]
  IN [st   |-> HandleShadowed([sc.st EXCEPT ![c.obj] = new], c.shadows),
      live |-> {j \in sc.live : ~(drop /\ fl[j].obj = c.obj)} \cup {i},
      keep |-> IF c.shrink THEN sc.keep \cup {i} ELSE sc.keep]

ScanChunk(fl, sc, i) ==
  LET c  == fl[i]
      s2 == [sc EXCEPT !.st = FindOrCreate(@, c.obj, c.kind)]
  IN IF c.kind = "data" THEN ScanData(fl, sc, i)
     ELSE IF s2.st[c.obj].valid THEN ScanOldHdr(fl, s2, i)
     ELSE ScanNewHdr(fl, s2, i)

(* Links find their file by id (yaffs_link_fixup); an object without a     *)
(* header hangs and is put in lost+found (yaffs_fix_hanging_objs).         *)
FixUp(st) ==
  [o \in Ids |->
     LET r == st[o].r
     IN [r EXCEPT !.hooked = /\ r.kind = "link"
                             /\ r.parent \notin Hidden
                             /\ st[r.equiv].r.kind # "none",
                  !.parent = IF r.kind # "none" /\ ~st[o].valid
                             THEN "lost+found" ELSE @]]

Marked(fl, live, keep) ==
  [i \in DOMAIN fl |-> [fl[i] EXCEPT !.live = i \in live,
                                     !.keep = i \in keep]]

Scan(fl) ==
  LET n == Len(fl)
      start == [st |-> [o \in Ids |-> [r |-> NoObj, valid |-> FALSE,
                                       cut |-> FALSE]],
                live |-> {}, keep |-> {}]
      scan[k \in 0..n] ==
        IF k = 0 THEN start ELSE ScanChunk(fl, scan[k - 1], n + 1 - k)
  IN [ram |-> FixUp(scan[n].st),
      flash |-> Marked(fl, scan[n].live, scan[n].keep)]

-----------------------------------------------------------------------------
(* What a set of objects and a log say about names and contents.           *)

FileOf(r, o) == IF r[o].kind = "link" THEN r[o].equiv ELSE o

Entries(r) ==
  {<<r[o].name, FileOf(r, o)>> : o \in
     {x \in Ids : /\ r[x].parent = "root"
                  /\ r[FileOf(r, x)].kind = "file"
                  /\ r[FileOf(r, x)].parent = "root"}}
  \cup {<<"lost+found", o>> : o \in
          {x \in Ids : r[x].parent = "lost+found"}}

Contents(r, fl) ==
  [o \in Ids |->
     IF \A e \in Entries(r) : e[2] # o THEN Empty
     ELSE LET d == {i \in DOMAIN fl : /\ fl[i].obj = o /\ fl[i].live
                                      /\ fl[i].kind = "data"}
          IN IF d = {} \/ r[o].size = 0 THEN Empty
             ELSE fl[CHOOSE i \in d : TRUE].val]

Found(fl) ==
  LET sc == Scan(fl)
  IN [dir |-> Entries(sc.ram), body |-> Contents(sc.ram, sc.flash),
      dangling |-> \E o \in Ids :
                     /\ sc.ram[o].kind = "link" /\ sc.ram[o].parent = "root"
                     /\ \A e \in Entries(sc.ram) : e[2] # sc.ram[o].equiv]

-----------------------------------------------------------------------------
(* What the steps of a call are.                                           *)

Hdr(o, p, n, s) ==
  [a |-> "hdr", o |-> o, parent |-> p, name |-> n, shadows |-> s]

Act(a, o) == [a |-> a, o |-> o]

HereAgain(o) == Hdr(o, ram[o].parent, ram[o].name, Nobody)

(* Removal always leaves a deletion record: a header in the deleted        *)
(* directory, dead as soon as it is written.                               *)
GenericDel(o) ==
  (IF ram[o].parent = "deleted" THEN <<>>
   ELSE <<Hdr(o, "deleted", "-", Nobody)>>) \o <<Act("free", o)>>

(* yaffs_resize_file to nothing, which says so with a header unless the    *)
(* file is on its way out.                                                 *)
ResizeFile(o, quiet) ==
  IF ram[o].size = 0 THEN <<>>
  ELSE <<Act("prune", o)>> \o
       (IF quiet \/ ram[o].parent \in Hidden THEN <<>> ELSE <<HereAgain(o)>>)

DelObj(o, quiet) ==
  (IF ram[o].kind = "file" THEN ResizeFile(o, quiet) ELSE <<>>)
  \o GenericDel(o)

HardLinks_None(o) == {}

HardLinks(o) ==
  {l \in Ids : ram[l].kind = "link" /\ ram[l].equiv = o /\ ram[l].hooked}

InRoot(n) == {o \in Ids : ram[o].parent = "root" /\ ram[o].name = n}

(* yaffs_unlink_worker for an object no link refers to.                    *)
UnlinkPlan(o, quiet) ==
  IF ram[o].kind = "link" THEN GenericDel(o)
  ELSE IF ram[o].open THEN <<Hdr(o, "unlinked", "-", Nobody)>>
  ELSE DelObj(o, quiet)

-----------------------------------------------------------------------------
(* The calls.  Each records what it was asked, what RAM holds before its   *)
(* first program, and the steps that follow.                               *)

Begin(op, f, n, m, v, r, plan) ==
  /\ up /\ call = Idle /\ todo = <<>>
  /\ op \in Ops
  /\ call' = [op |-> op, f |-> f, n |-> n, m |-> m, v |-> v]
  /\ ram' = r
  /\ todo' = plan
  /\ UNCHANGED <<flash, up, found>>

(* yaffs_create_obj refuses a name in use and takes an id no object has.   *)
NewObj(o, n, k, f) ==
  /\ InRoot(n) = {}
  /\ ram[o].kind = "none"
  /\ Begin(IF k = "file" THEN "create" ELSE "link", f, n, n, Empty,
           [ram EXCEPT ![o] = [NoObj EXCEPT !.kind = k, !.parent = "root",
                                 !.name = n, !.hooked = (k = "link"),
                                 !.equiv = IF k = "link" THEN f ELSE @]],
           <<Hdr(o, "root", n, Nobody)>>)

CreateFile(o, n) == NewObj(o, n, "file", o)

LinkObj(o, n, m) ==
  \E p \in InRoot(m) :
    LET f == FileOf(ram, p)
    IN ram[f].kind = "file" /\ o # f /\ NewObj(o, n, "link", f)

(* Unlinking an object with a hard link: the object takes the link's name  *)
(* and the link is deleted.  The rename fails when the name is taken by    *)
(* another object than the link.                                           *)
UnlinkLinked(o, n) ==
  \E l \in HardLinks(o) :
    LET r2 == [ram EXCEPT ![l].hooked = FALSE, ![l].parent = "unlinked"]
    IN Begin("unlink", o, n, n, Empty, r2,
             IF InRoot(ram[l].name) # {l} THEN <<>>
             ELSE <<Hdr(o, "root", ram[l].name, Nobody),
                    Hdr(l, "deleted", "-", Nobody), Act("free", l)>>)

Unlinker(n) ==
  \E o \in InRoot(n) :
    IF HardLinks(o) # {} THEN UnlinkLinked(o, n)
    ELSE Begin("unlink", FileOf(ram, o), n, n, Empty, ram,
               UnlinkPlan(o, FALSE))

(* The removal of an existing target that has hard links.  If the link is  *)
(* the very object being renamed, it has the target's name by now and the  *)
(* target cannot be given its own name.                                    *)
UnlinkLinkedPlan(o, t, l) ==
  <<Act("unhook", l)>> \o
  (IF l = o THEN <<>>
   ELSE <<Hdr(t, "root", ram[l].name, Nobody),
          Hdr(l, "deleted", "-", Nobody), Act("free", l)>>)

ReplacePlan_RemoveFirst(o, m, t, removal) ==
  removal \o <<Hdr(o, "root", m, Nobody)>>

(* Renaming over an existing object: a header that shadows it, then its    *)
(* removal with garbage collection held off, then a header that shadows    *)
(* nothing.                                                                *)
ReplacePlan(o, m, t, removal) ==
  <<Hdr(o, "root", m, t), Act("shadow", t)>> \o removal
  \o <<Act("gc", t), Hdr(o, "root", m, Nobody)>>

Removals(o, t) ==
  IF HardLinks(t) = {} THEN {UnlinkPlan(t, TRUE)}
  ELSE {UnlinkLinkedPlan(o, t, l) : l \in {x \in HardLinks(t) :
                                             "links" \in Exposed}}

RenameObj(n, m) ==
  \E o \in InRoot(n) :
    LET rename(plan) ==
          Begin("rename", FileOf(ram, o), n, m, Empty, ram, plan)
    IN \/ /\ InRoot(m) \subseteq {o}
          /\ rename(<<Hdr(o, "root", m, Nobody)>>)
       \/ \E t \in InRoot(m) \ {o} : \E removal \in Removals(o, t) :
            rename(ReplacePlan(o, m, t, removal))

(* The calls on the file a name leads to.                                  *)
OnFile(op, n, v, r(_), plan(_)) ==
  \E p \in InRoot(n) :
    LET f == FileOf(ram, p)
    IN /\ ram[f].kind = "file"
       /\ Begin(op, f, n, n, v, r(f), plan(f))

WriteFile(n, v) ==
  LET same(f) == ram
      plan(f) == <<[a |-> "data", o |-> f, v |-> v]>>
  IN OnFile("write", n, v, same, plan)

Truncate(n) ==
  LET same(f) == ram
      plan(f) == ResizeFile(f, ram[f].shadowed)
  IN OnFile("truncate", n, Empty, same, plan)

FlushFile(n) ==
  LET same(f) == ram
      plan(f) == IF ram[f].dirty THEN <<HereAgain(f)>> ELSE <<>>
  IN OnFile("flush", n, Empty, same, plan)

Open(n) ==
  LET opened(f) == [ram EXCEPT ![f].open = TRUE]
      plan(f)   == <<>>
  IN OnFile("open", n, Empty, opened, plan)

(* Closing flushes a dirty file and deletes one unlinked meanwhile         *)
(* (yaffsfs_ReleaseInode).                                                 *)
Close(f) ==
  /\ ram[f].open
  /\ Begin("close", f, Empty, Empty, Empty, [ram EXCEPT ![f].open = FALSE],
           (IF ram[f].dirty THEN <<HereAgain(f)>> ELSE <<>>)
           \o (IF ram[f].parent = "unlinked"
               THEN DelObj(f, ram[f].shadowed) ELSE <<>>))

Return ==
  /\ call # Idle /\ todo = <<>>
  /\ call' = Idle
  /\ UNCHANGED <<flash, up, ram, todo, found>>

-----------------------------------------------------------------------------
(* The steps of a call.                                                    *)

(* The chunks of an object that the bitmap drops: its header or its data.  *)
ChunkDel(fl, o, data) ==
  [i \in DOMAIN fl |->
     IF fl[i].obj = o /\ (fl[i].kind = "data") = data
     THEN [fl[i] EXCEPT !.live = FALSE] ELSE fl[i]]

Chunk(o, k, v) ==
  [obj |-> o, kind |-> k, val |-> v, parent |-> "none", name |-> "-",
   equiv |-> Nobody, size |-> 0, shrink |-> FALSE, shadows |-> Nobody,
   live |-> TRUE, keep |-> FALSE]

(* A deletion record counts as a shrink header.                            *)
IsShrink_Never(t) == FALSE

IsShrink(t) == t.parent = "deleted"

(* A file on its way out has no size.                                      *)
UpdateOh(t) ==
  LET o == t.o
      c == [Chunk(o, ram[o].kind, Empty) EXCEPT
              !.parent = t.parent, !.name = t.name, !.equiv = ram[o].equiv,
              !.size = IF t.parent \in Hidden THEN 0 ELSE ram[o].size,
              !.shrink = IsShrink(t), !.shadows = t.shadows,
              !.keep = IsShrink(t)]
  IN /\ Len(flash) < MaxLog
     /\ flash' = Append(ChunkDel(flash, o, FALSE), c)
     /\ ram' = [ram EXCEPT ![o].parent = t.parent, ![o].name = t.name,
                           ![o].dirty = FALSE]

WrDataObj(t) ==
  /\ Len(flash) < MaxLog
  /\ flash' = Append(ChunkDel(flash, t.o, TRUE), Chunk(t.o, "data", t.v))
  /\ ram' = [ram EXCEPT ![t.o].size = 1, ![t.o].dirty = TRUE]

PruneChunks(t) ==
  /\ flash' = ChunkDel(flash, t.o, TRUE)
  /\ ram' = [ram EXCEPT ![t.o].size = 0]

FreeObj_KeepsFields(t) ==
  /\ flash' = ChunkDel(flash, t.o, FALSE)
  /\ ram' = [ram EXCEPT ![t.o].kind = "none"]

FreeObj(t) ==
  /\ flash' = ChunkDel(flash, t.o, FALSE)
  /\ ram' = [ram EXCEPT ![t.o] = NoObj]

Mark(t) ==
  /\ flash' = flash
  /\ ram' = IF t.a = "shadow" THEN [ram EXCEPT ![t.o].shadowed = TRUE]
            ELSE IF t.a = "unhook"
            THEN [ram EXCEPT ![t.o].hooked = FALSE, ![t.o].parent = "unlinked"]
            ELSE ram

Step ==
  /\ up /\ todo # <<>>
  /\ LET t == Head(todo)
     IN \/ t.a = "hdr" /\ UpdateOh(t)
        \/ t.a = "data" /\ WrDataObj(t)
        \/ t.a = "prune" /\ PruneChunks(t)
        \/ t.a = "free" /\ FreeObj(t)
        \/ t.a \in {"shadow", "unhook", "gc"} /\ Mark(t)
  /\ todo' = Tail(todo)
  /\ found' = Found(flash')
  /\ UNCHANGED <<up, call>>

-----------------------------------------------------------------------------
(* What goes on beside the calls.                                          *)

OlderDead(i) == \E j \in 1 .. i - 1 : ~flash[j].live

GcDisabled_NotInRename ==
  \/ todo = <<>> /\ call # Idle
  \/ todo # <<>> /\ Head(todo).a \notin {"hdr", "data"}
  \/ call = Idle /\ todo # <<>>

(* A rename holds collection off until its target is gone; a mount does    *)
(* not, but see Exposed.                                                   *)
(* Nor does it start between two changes of RAM: it runs before a program  *)
(* (yaffs_check_gc) or between calls (yaffs_bg_gc).                        *)
GcDisabled ==
  \/ todo = <<>> /\ call # Idle
  \/ todo # <<>> /\ Head(todo).a \notin {"hdr", "data"}
  \/ \E i \in DOMAIN todo : todo[i].a = "gc"
  \/ call = Idle /\ todo # <<>> /\ "mountgc" \notin Exposed

(* yaffs_gc_process_chunk copies a chunk to the end of the log; the copy   *)
(* of a header neither shrinks nor shadows and has the file's size now.    *)
GcChunk(i) ==
  /\ up /\ ~GcDisabled
  /\ flash[i].live
  /\ flash[i].keep => ~OlderDead(i)
  /\ Len(flash) < MaxLog
  /\ LET c == flash[i]
     IN flash' = Append([flash EXCEPT ![i].live = FALSE],
                        IF c.kind = "data" THEN c
                        ELSE [c EXCEPT !.shrink = FALSE, !.keep = FALSE,
                                !.shadows = Nobody,
                                !.size = IF c.kind = "file"
                                         THEN ram[c.obj].size ELSE @])
  /\ found' = Found(flash')
  /\ UNCHANGED <<up, ram, todo, call>>

Erase(i) ==
  /\ up
  /\ call = Idle \/ todo # <<>>
  /\ ~flash[i].live
  /\ flash[i].keep => ~OlderDead(i)
  /\ flash' = RemoveAt(flash, i)
  /\ found' = Found(flash')
  /\ UNCHANGED <<up, ram, todo, call>>

(* Between the two headers of UnlinkLinked.                                *)
LinkHalfway ==
  /\ call # Idle /\ todo # <<>>
  /\ call.op = "unlink"
  /\ Head(todo).a = "hdr"
  /\ ram[Head(todo).o].kind = "link" /\ ~ram[Head(todo).o].hooked

PowerFails ==
  /\ up
  /\ LinkHalfway => "links" \in Exposed
  /\ up' = FALSE
  /\ flash' = Marked(flash, {}, {})
  /\ ram' = [o \in Ids |-> NoObj]
  /\ todo' = <<>>
  /\ call' = Idle
  /\ found' = found

(* yaffs_guts_initialise without a checkpoint: scan, then delete what the  *)
(* unlinked and the deleted directory hold.                                *)
Mount ==
  /\ ~up
  /\ up' = TRUE
  /\ LET sc == Scan(flash)
     IN /\ ram' = sc.ram
        /\ flash' = sc.flash
        /\ \E gone \in SetToSeqs({o \in Ids : sc.ram[o].parent \in Hidden}) :
             todo' = FlattenSeq([i \in DOMAIN gone |->
                       LET o == gone[i]
                       IN (IF sc.ram[o].kind = "file" /\ sc.ram[o].size # 0
                           THEN <<Act("prune", o)>> ELSE <<>>)
                          \o (IF sc.ram[o].parent = "deleted" THEN <<>>
                              ELSE <<Hdr(o, "deleted", "-", Nobody)>>)
                          \o <<Act("free", o)>>])
  /\ UNCHANGED <<call, found>>

Init ==
  /\ flash = <<>>
  /\ up = TRUE
  /\ ram = [o \in Ids |-> NoObj]
  /\ todo = <<>>
  /\ call = Idle
  /\ found = Found(<<>>)

Next ==
  \/ \E o \in Ids, n \in Names :
       CreateFile(o, n) \/ \E m \in Names : LinkObj(o, n, m)
  \/ \E n \in Names :
       \/ Unlinker(n)
       \/ \E m \in Names \ {n} : RenameObj(n, m)
       \/ \E v \in Vals : WriteFile(n, v)
       \/ Truncate(n) \/ FlushFile(n) \/ Open(n)
  \/ \E f \in Ids : Close(f)
  \/ Return
  \/ Step
  \/ \E i \in DOMAIN flash : GcChunk(i) \/ Erase(i)
  \/ PowerFails
  \/ Mount

Spec == Init /\ [][Next]_vars

-----------------------------------------------------------------------------
(* The log's chunks and the objects are well formed: a link names a file,  *)
(* only links are hooked to one, and an id that is free (yaffs_free_obj)   *)
(* has nothing left of the object that had it.                             *)
TypeOK ==
  /\ up \in BOOLEAN
  /\ \A o \in Ids :
       LET r == ram[o]
       IN /\ r.kind \in {"none", "file", "link"}
          /\ r.kind = "none" => r = NoObj
          /\ r.hooked => r.kind = "link"
          /\ r.kind = "link" <=> r.equiv \in Ids
  /\ \A i \in DOMAIN flash :
       /\ flash[i].obj \in Ids
       /\ flash[i].shadows \in Ids \cup {Nobody}
       /\ flash[i].kind = "link" <=> flash[i].equiv \in Ids

(* Between calls the names and contents RAM has are the ones a mount of    *)
(* the flash would find: nothing removed comes back, nothing kept is lost, *)
(* whatever has been collected and erased since (deletion records,         *)
(* guts.c:1721, and the shrink rule of the scan, yaffs2.c:1330).           *)
MountAgrees ==
  up /\ todo = <<>> =>
    /\ Entries(ram) = found.dir
    /\ Contents(ram, flash) = found.body

(* At no moment, a rename over an existing file halfway included, would a  *)
(* mount find two files under one name ("Nuke the target first, using      *)
(* shadowing", guts.c:4270).                                               *)
NamesUnique ==
  \A d, e \in found.dir : d[1] = e[1] /\ d[1] # "lost+found" => d = e

(* Every hard link a mount would find leads to a file: the removal of the  *)
(* name a file was created under never deletes a file that has another     *)
(* (guts.c:4136).                                                          *)
LinksResolve == ~found.dangling

Store == INSTANCE YaffsStore WITH dir <- found.dir, body <- found.body

(* What a mount would find changes only by the steps of the call in        *)
(* progress, each name and each content at once; power failures, garbage   *)
(* collection, erasure and mount change nothing.                           *)
StoreSpec == Store!Spec
=============================================================================
