---------------------------- MODULE YaffsFs_proofs ---------------------------
(***************************************************************************)
(* The tables, the tree and the searches of the POSIX layer, for any       *)
(* number of tasks, handles, objects, names and search contexts.           *)
(***************************************************************************)
EXTENDS YaffsFs, TLAPS, FiniteSetTheorems

-----------------------------------------------------------------------------
(* The inductive invariant.                                                *)

ObjType ==
  [kind : {"none", "file", "dir"}, dir : Dirs \cup {Unlinked, None},
   name : Names \cup {None}, inode : 0 .. NHandles, size : 0 .. MaxSize]
HandleType == [fd : 0 .. NHandles, use : Nat]
FdType == [isDir : BOOLEAN, mode : Modes \cup {None}, inode : 0 .. NHandles,
           count : Nat]
InodeType == [obj : Dirs \cup {None}, count : Nat]
DscType == [inUse : {TRUE}, dir : Dirs, next : Objs \cup {None}] \cup {NoDsc}
CallType == [kind : {"read", "write"}, h : Slots, f : Slots, at : BOOLEAN,
             pos : 0 .. MaxSize, left : 1 .. MaxSize, o : Dirs]
TaskType == {r \in CallType : r.pos + r.left <= MaxSize}

TableType ==
  /\ handle \in [Slots -> HandleType]
  /\ fd \in [Slots -> FdType]
  /\ inode \in [Slots -> InodeType]
  /\ v \in [Slots -> (0 .. MaxSize) \cup Dscs]
  /\ task \in [Tasks -> TaskType \cup {Idle}]
  /\ open \in [Slots -> BOOLEAN]

Lists == {l \in Seq(Objs) : \A i, j \in 1 .. Len(l) : l[i] = l[j] => i = j}

TreeType ==
  [obj : [Dirs -> ObjType], kids : [Dirs -> Lists], dsc : [Dscs -> DscType],
   owed : [Dscs -> SUBSET Objs]]

CoreType == mounted \in BOOLEAN /\ read_only \in BOOLEAN /\ Tree \in TreeType

(* What a count counts.                                                    *)
Users(h) == {t \in Tasks : task[t] # Idle /\ task[t].h = h}
Holders(h) == (IF open[h] THEN 1 ELSE 0) + Cardinality(Users(h))
HandlesOf(f) == {h \in Slots : handle[h].use > 0 /\ handle[h].fd = f}
FdsOf(i) == {f \in Slots : fd[f].count > 0 /\ fd[f].inode = i}

HandleInv ==
  \A h \in Slots :
    /\ handle[h].use = 0 => ~open[h]
    /\ handle[h].use > 0 =>
         /\ handle[h].use = Holders(h)
         /\ handle[h].fd # 0 /\ fd[handle[h].fd].count > 0

FdInv ==
  \A f \in Slots :
    /\ fd[f].count = Cardinality(HandlesOf(f))
    /\ fd[f].count > 0 => fd[f].inode # 0

InodeInv ==
  \A i \in Slots :
    /\ inode[i].count = Cardinality(FdsOf(i))
    /\ inode[i].count > 0 <=> inode[i].obj # None

CountInv == HandleInv /\ FdInv /\ InodeInv

(* The place of a position holds a number, unless the descriptor is that   *)
(* of a directory.                                                         *)
PlaceInv ==
  \A f \in Slots :
    /\ fd[f].isDir => fd[f].count > 0
    /\ ~fd[f].isDir => v[f] \in 0 .. MaxSize

(* A read or write in progress has its handle, or lost it to a forced      *)
(* unmount; in that case nobody gets its slots before it ends.             *)
TaskInv ==
  \A t \in Tasks : task[t] # Idle =>
    LET h == task[t].h
        f == task[t].f
    IN \/ /\ handle[h].use > 0 /\ handle[h].fd = f /\ ~fd[f].isDir
          /\ inode[fd[f].inode].obj = task[t].o
       \/ handle[h].use = 0 /\ fd[f].count = 0

HookInv ==
  /\ \A i \in Slots : inode[i].obj # None =>
       /\ obj[inode[i].obj].inode = i
       /\ mounted /\ obj[inode[i].obj].kind # "none"
  /\ \A o \in Objs : obj[o].dir = Unlinked => obj[o].inode # 0
  /\ obj[Root].kind = "dir" /\ obj[Root].dir = None

-----------------------------------------------------------------------------
(* Choosing slots, and counting.                                           *)

LEMMA FirstIn ==
  ASSUME NEW S \in SUBSET Slots, S # {}
  PROVE  First(S) \in S
<1>1. S \subseteq Nat
  BY SizesAssumption DEF Slots
<1>2. PICK m \in S : \A n \in S : <<n, m>> \notin OpToRel(<, Nat)
  BY <1>1, NatLessThanWellFounded, WFMin, Zenon
<1>3. \A a, b \in Nat : a < b => <<a, b>> \in OpToRel(<, Nat)
  BY DEF OpToRel
<1>4. \A n \in S : ~(n < m)
  BY <1>1, <1>2, <1>3, Zenon
<1>5. \A n \in S : m <= n
  BY <1>1, <1>4
<1>6. QED
  BY <1>5 DEF First

LEMMA SlotsFinite == IsFiniteSet(Slots) /\ Cardinality(Slots) = NHandles
  BY SizesAssumption, FS_Interval DEF Slots

LEMMA CountsFinite ==
  /\ \A h : IsFiniteSet(Users(h)) /\ Cardinality(Users(h)) \in Nat
  /\ \A f : IsFiniteSet(HandlesOf(f)) /\ Cardinality(HandlesOf(f)) \in Nat
  /\ \A i : IsFiniteSet(FdsOf(i)) /\ Cardinality(FdsOf(i)) \in Nat
<1>1. \A h : Users(h) \in SUBSET Tasks
  BY DEF Users
<1>2. \A f : HandlesOf(f) \in SUBSET Slots /\ FdsOf(f) \in SUBSET Slots
  BY DEF HandlesOf, FdsOf
<1>3. QED
  BY <1>1, <1>2, TasksAssumption, SlotsFinite, FS_Subset, FS_CardinalityType

(* Adding an element to a finite set, and taking one away.                 *)
LEMMA CountUp ==
  ASSUME NEW S, NEW x, IsFiniteSet(S), x \notin S
  PROVE  Cardinality(S \cup {x}) = Cardinality(S) + 1
  BY FS_AddElement

LEMMA CountDown ==
  ASSUME NEW S, NEW x, IsFiniteSet(S), x \in S
  PROVE  Cardinality(S \ {x}) = Cardinality(S) - 1
  BY FS_RemoveElement

LEMMA CountNone ==
  ASSUME NEW S, IsFiniteSet(S)
  PROVE  Cardinality(S) = 0 <=> S = {}
  BY FS_EmptySet

(* There is an inode for every object that gets a descriptor: the inodes   *)
(* in use are no more than the descriptors in use.                         *)
LEMMA InodeForIs ==
  ASSUME TableType, CountInv, FreeFds # {}, NEW o \in Dirs
  PROVE  /\ InodeFor(o) \in Slots
         /\ \/ inode[InodeFor(o)].obj = o
            \/ inode[InodeFor(o)].obj = None /\ \A j \in Slots : inode[j].obj # o
<1>1. \A i \in Slots : inode[i].obj # None => FdsOf(i) # {}
  <2>1. ASSUME NEW i \in Slots, inode[i].obj # None
        PROVE  FdsOf(i) # {}
    <3>1. inode[i].count > 0 /\ inode[i].count = Cardinality(FdsOf(i))
      BY <2>1 DEF CountInv, InodeInv
    <3>2. QED
      BY <3>1, CountsFinite, CountNone
  <2>2. QED
    BY <2>1
<1>2. InodesOf(None) # {}
  <2>1. SUFFICES ASSUME InodesOf(None) = {} PROVE FALSE
    OBVIOUS
  <2>2. \A i \in Slots : \E f \in Slots \ FreeFds : fd[f].inode = i
    BY <1>1, <2>1 DEF InodesOf, FdsOf, FreeFds, TableType, FdType
  <2> DEFINE Of == [i \in Slots |-> CHOOSE f \in Slots \ FreeFds : fd[f].inode = i]
  <2>3. \A i \in Slots : Of[i] \in Slots \ FreeFds /\ fd[Of[i]].inode = i
    BY <2>2
  <2>4. Of \in [Slots -> Slots \ FreeFds]
    BY <2>3
  <2>5. Slots \ FreeFds \in SUBSET Slots /\ Slots \ FreeFds # Slots
    BY DEF FreeFds
  <2>6. IsFiniteSet(Slots \ FreeFds) /\ Cardinality(Slots \ FreeFds) < Cardinality(Slots)
    BY <2>5, SlotsFinite, FS_Subset, FS_CardinalityType
  <2> HIDE DEF Of
  <2>7. \E x, y \in Slots : x # y /\ Of[x] = Of[y]
    BY <2>4, <2>6, SlotsFinite, FS_PigeonHole, Zenon
  <2>8. QED
    BY <2>3, <2>7
<1>3. InodesOf(o) \in SUBSET Slots /\ InodesOf(None) \in SUBSET Slots
  BY DEF InodesOf
<1>4. CASE InodesOf(o) # {}
  BY <1>3, <1>4, FirstIn DEF InodeFor, InodesOf
<1>5. CASE InodesOf(o) = {}
  BY <1>2, <1>3, <1>5, FirstIn DEF InodeFor, InodesOf
<1>6. QED
  BY <1>4, <1>5

-----------------------------------------------------------------------------
(* Lists of entries in which none comes twice.                             *)

LEMMA IndexOf ==
  ASSUME NEW l \in Lists, NEW i \in 1 .. Len(l)
  PROVE  SelectInSeq(l, LAMBDA x : x = l[i]) = i
<1>1. SelectInSeq(l, LAMBDA x : x = l[i]) = Min({j \in 1 .. Len(l) : l[j] = l[i]})
  BY DEF SelectInSeq
<1>2. {j \in 1 .. Len(l) : l[j] = l[i]} = {i}
  BY DEF Lists
<1>3. Min({i}) = i
  BY DEF Min
<1>4. QED
  BY <1>1, <1>2, <1>3

LEMMA ConcatIs ==
  ASSUME NEW a \in Seq(Objs), NEW b \in Seq(Objs)
  PROVE  /\ a \o b \in Seq(Objs) /\ Len(a \o b) = Len(a) + Len(b)
         /\ \A j \in 1 .. Len(a) + Len(b) :
              (a \o b)[j] = IF j <= Len(a) THEN a[j] ELSE b[j - Len(a)]
  OBVIOUS

(* The list is another one, with the entry taken out at its place.         *)
LEMMA RemoveFirstIs ==
  ASSUME NEW l \in Lists, NEW i \in 1 .. Len(l)
  PROVE  /\ RemoveFirst(l, l[i]) \in Seq(Objs)
         /\ Len(RemoveFirst(l, l[i])) = Len(l) - 1
         /\ \A j \in 1 .. Len(l) - 1 :
              RemoveFirst(l, l[i])[j] = IF j < i THEN l[j] ELSE l[j + 1]
<1> DEFINE a == SubSeq(l, 1, i - 1)
           b == SubSeq(l, i + 1, Len(l))
<1>1. RemoveFirst(l, l[i]) = a \o b
  BY IndexOf DEF RemoveFirst, RemoveAt
<1>2. l \in Seq(Objs) /\ Len(l) \in Nat /\ i \in Nat
  BY DEF Lists
<1>3. a \in Seq(Objs) /\ Len(a) = i - 1 /\ \A j \in 1 .. i - 1 : a[j] = l[j]
  BY <1>2
<1>4. b \in Seq(Objs) /\ Len(b) = Len(l) - i /\ \A j \in 1 .. Len(l) - i : b[j] = l[i + j]
  BY <1>2
<1> HIDE DEF a, b
<1>5. /\ a \o b \in Seq(Objs) /\ Len(a \o b) = Len(l) - 1
      /\ \A j \in 1 .. Len(l) - 1 :
           (a \o b)[j] = IF j <= Len(a) THEN a[j] ELSE b[j - Len(a)]
  <2>1. Len(a) + Len(b) = Len(l) - 1
    BY <1>2, <1>3, <1>4
  <2>2. /\ a \o b \in Seq(Objs) /\ Len(a \o b) = Len(a) + Len(b)
        /\ \A j \in 1 .. Len(a) + Len(b) :
             (a \o b)[j] = IF j <= Len(a) THEN a[j] ELSE b[j - Len(a)]
    BY <1>3, <1>4, ConcatIs, Zenon
  <2>3. QED
    BY <2>1, <2>2
<1>6. ASSUME NEW j \in 1 .. Len(l) - 1
      PROVE  (a \o b)[j] = IF j < i THEN l[j] ELSE l[j + 1]
  <2>1. CASE j < i
    BY <1>2, <1>3, <1>5, <2>1
  <2>2. CASE ~(j < i)
    <3>1. (a \o b)[j] = b[j - (i - 1)]
      BY <1>2, <1>3, <1>5, <2>2
    <3>2. j - (i - 1) \in 1 .. Len(l) - i /\ i + (j - (i - 1)) = j + 1
      BY <1>2, <2>2
    <3>3. QED
      BY <1>4, <2>2, <3>1, <3>2
  <2>3. QED
    BY <2>1, <2>2
<1>7. QED
  BY <1>1, <1>5, <1>6

LEMMA RemoveFirstNot ==
  ASSUME NEW l \in Lists, NEW o, o \notin ToSet(l)
  PROVE  RemoveFirst(l, o) = l
<1>1. DOMAIN l = 1 .. Len(l)
  BY DEF Lists
<1>2. QED
  BY <1>1 DEF RemoveFirst, ToSet

LEMMA RemoveFirstList ==
  ASSUME NEW l \in Lists, NEW o
  PROVE  RemoveFirst(l, o) \in Lists /\ ToSet(RemoveFirst(l, o)) = ToSet(l) \ {o}
<1>1. l \in Seq(Objs) /\ Len(l) \in Nat /\ DOMAIN l = 1 .. Len(l)
  BY DEF Lists
<1>2. CASE o \notin ToSet(l)
  BY <1>2, RemoveFirstNot
<1>3. CASE o \in ToSet(l)
  <2>1. PICK i \in 1 .. Len(l) : l[i] = o
    BY <1>1, <1>3 DEF ToSet
  <2>2. PICK r : r = RemoveFirst(l, o)
    OBVIOUS
  <2>3. /\ r \in Seq(Objs) /\ Len(r) = Len(l) - 1
        /\ \A j \in 1 .. Len(l) - 1 : r[j] = IF j < i THEN l[j] ELSE l[j + 1]
    BY <2>1, <2>2, RemoveFirstIs
  <2>4. r \in Lists
    BY <1>1, <2>3 DEF Lists
  <2>5. \A x \in ToSet(r) : x \in ToSet(l) \ {o}
    <3>1. SUFFICES ASSUME NEW j \in 1 .. Len(l) - 1
                   PROVE  r[j] \in ToSet(l) \ {o}
      BY <1>1, <2>3 DEF ToSet
    <3>2. PICK k \in 1 .. Len(l) : k # i /\ r[j] = l[k]
      BY <1>1, <2>3
    <3>3. QED
      BY <1>1, <2>1, <3>2 DEF Lists, ToSet
  <2>6. \A x \in ToSet(l) \ {o} : x \in ToSet(r)
    <3>1. SUFFICES ASSUME NEW k \in 1 .. Len(l), k # i
                   PROVE  l[k] \in ToSet(r)
      BY <1>1, <2>1 DEF ToSet
    <3>2. PICK j \in 1 .. Len(l) - 1 : r[j] = l[k]
      <4>1. CASE k < i
        <5>1. k \in 1 .. Len(l) - 1 /\ r[k] = l[k]
          BY <1>1, <2>3, <4>1
        <5>2. QED
          BY <5>1
      <4>2. CASE k > i
        <5>1. k - 1 \in 1 .. Len(l) - 1 /\ ~(k - 1 < i) /\ (k - 1) + 1 = k
          BY <1>1, <4>2
        <5>2. r[k - 1] = l[k]
          BY <2>3, <5>1
        <5>3. QED
          BY <5>1, <5>2
      <4>3. QED
        BY <1>1, <3>1, <4>1, <4>2
    <3>3. QED
      BY <1>1, <2>3, <3>2 DEF ToSet
  <2>7. QED
    BY <2>2, <2>4, <2>5, <2>6
<1>4. QED
  BY <1>2, <1>3

LEMMA PutFirstList ==
  ASSUME NEW l \in Lists, NEW o \in Objs, o \notin ToSet(l)
  PROVE  <<o>> \o l \in Lists /\ ToSet(<<o>> \o l) = ToSet(l) \cup {o}
<1>1. l \in Seq(Objs) /\ Len(l) \in Nat /\ DOMAIN l = 1 .. Len(l)
  BY DEF Lists
<1>2. PICK r : r = <<o>> \o l
  OBVIOUS
<1>3. /\ r \in Seq(Objs) /\ Len(r) = Len(l) + 1 /\ r[1] = o
      /\ \A j \in 1 .. Len(l) : r[j + 1] = l[j]
  BY <1>1, <1>2
<1>4. \A k \in 2 .. Len(r) : k - 1 \in 1 .. Len(l) /\ r[k] = l[k - 1]
  <2>1. SUFFICES ASSUME NEW k \in 2 .. Len(r)
                 PROVE  k - 1 \in 1 .. Len(l) /\ r[k] = l[k - 1]
    OBVIOUS
  <2>2. k - 1 \in 1 .. Len(l) /\ (k - 1) + 1 = k
    BY <1>1, <1>3
  <2>3. QED
    BY <1>3, <2>2
<1>5. \A k \in 1 .. Len(r) : k = 1 \/ k \in 2 .. Len(r)
  BY <1>1, <1>3
<1>6. \A j \in 1 .. Len(l) : l[j] # o
  BY <1>1 DEF ToSet
<1>7. r \in Lists
  <2>1. SUFFICES ASSUME NEW j \in 1 .. Len(r), NEW k \in 1 .. Len(r), r[j] = r[k]
                 PROVE  j = k
    BY <1>3 DEF Lists
  <2>2. CASE j = 1
    BY <1>3, <1>4, <1>5, <1>6, <2>1, <2>2
  <2>3. CASE k = 1
    BY <1>3, <1>4, <1>5, <1>6, <2>1, <2>3
  <2>4. CASE j # 1 /\ k # 1
    <3>1. j - 1 = k - 1
      BY <1>4, <1>5, <2>1, <2>4 DEF Lists
    <3>2. QED
      BY <1>1, <1>3, <3>1
  <2>5. QED
    BY <2>2, <2>3, <2>4
<1>8. ToSet(r) = ToSet(l) \cup {o}
  <2>1. DOMAIN r = 1 .. Len(r)
    BY <1>3
  <2>2. \A j \in 1 .. Len(l) : j + 1 \in 1 .. Len(r)
    BY <1>1, <1>3
  <2>3. 1 \in 1 .. Len(r)
    BY <1>1, <1>3
  <2>4. ToSet(r) \subseteq ToSet(l) \cup {o}
    BY <1>1, <1>3, <1>4, <1>5, <2>1 DEF ToSet
  <2>5. ToSet(l) \cup {o} \subseteq ToSet(r)
    BY <1>1, <1>3, <2>1, <2>2, <2>3 DEF ToSet
  <2>6. QED
    BY <2>4, <2>5
<1>9. QED
  BY <1>2, <1>7, <1>8

(* The entries from one on: those at its place and behind it.              *)
LEMMA FromHas ==
  ASSUME NEW l \in Lists, NEW n, NEW x
  PROVE  x \in From(l, n) <=>
           \E i, j \in 1 .. Len(l) : i <= j /\ l[i] = n /\ l[j] = x
<1>1. Len(l) \in Nat /\ DOMAIN l = 1 .. Len(l)
  BY DEF Lists
<1>2. ASSUME x \in From(l, n)
      PROVE  \E i, j \in 1 .. Len(l) : i <= j /\ l[i] = n /\ l[j] = x
  <2>1. PICK j \in 1 .. Len(l) : l[j] = x /\ \E i \in 1 .. j : l[i] = n
    BY <1>1, <1>2 DEF From
  <2>2. PICK i \in 1 .. j : l[i] = n
    BY <2>1
  <2>3. i \in 1 .. Len(l) /\ i <= j
    BY <1>1
  <2>4. QED
    BY <2>1, <2>2, <2>3
<1>3. ASSUME NEW i \in 1 .. Len(l), NEW j \in 1 .. Len(l), i <= j, l[i] = n, l[j] = x
      PROVE  x \in From(l, n)
  <2>1. i \in 1 .. j
    BY <1>1, <1>3
  <2>2. QED
    BY <1>1, <1>3, <2>1 DEF From
<1>4. QED
  BY <1>2, <1>3

LEMMA FromNone ==
  ASSUME NEW l \in Lists
  PROVE  From(l, None) = {} /\ None \notin ToSet(l)
<1>1. \A i \in 1 .. Len(l) : l[i] \in Objs /\ DOMAIN l = 1 .. Len(l)
  BY DEF Lists
<1>2. None \notin Objs
  BY DistinctAssumption DEF Dirs
<1>3. QED
  BY <1>1, <1>2, FromHas DEF ToSet

LEMMA FromHead ==
  ASSUME NEW l \in Lists, l # <<>>
  PROVE  From(l, Head(l)) = ToSet(l) /\ Head(l) \in ToSet(l)
<1>1. /\ Len(l) \in Nat /\ DOMAIN l = 1 .. Len(l)
      /\ 1 \in 1 .. Len(l) /\ Head(l) = l[1]
  BY DEF Lists
<1>2. \A x : x \in ToSet(l) => x \in From(l, l[1])
  <2>1. SUFFICES ASSUME NEW j \in 1 .. Len(l) PROVE l[j] \in From(l, l[1])
    BY <1>1 DEF ToSet
  <2>2. QED
    BY <1>1, FromHas
<1>3. \A x : x \in From(l, l[1]) => x \in ToSet(l)
  BY <1>1, FromHas DEF ToSet
<1>4. QED
  BY <1>1, <1>2, <1>3 DEF ToSet

LEMMA BehindIs ==
  ASSUME NEW l \in Lists, NEW i \in 1 .. Len(l)
  PROVE  Behind(l, l[i]) = IF i = Len(l) THEN None ELSE l[i + 1]
<1>1. i # 0
  OBVIOUS
<1>2. SelectInSeq(l, LAMBDA x : x = l[i]) = i
  BY IndexOf
<1>3. QED
  BY <1>1, <1>2, Zenon DEF Behind

(* Going past an entry leaves the others.                                  *)
LEMMA FromBehind ==
  ASSUME NEW l \in Lists, NEW o \in ToSet(l)
  PROVE  /\ From(l, Behind(l, o)) = From(l, o) \ {o}
         /\ Behind(l, o) \in (ToSet(l) \ {o}) \cup {None}
<1>1. Len(l) \in Nat /\ DOMAIN l = 1 .. Len(l)
  BY DEF Lists
<1>2. PICK i \in 1 .. Len(l) : l[i] = o
  BY <1>1 DEF ToSet
<1>3. \A j, k \in 1 .. Len(l) : l[j] = l[k] => j = k
  BY DEF Lists
<1>4. CASE i = Len(l)
  <2>1. Behind(l, o) = None
    BY <1>2, <1>4, BehindIs
  <2>2. \A x : x \in From(l, o) => x = o
    BY <1>1, <1>2, <1>3, <1>4, FromHas
  <2>3. QED
    BY <2>1, <2>2, FromNone
<1>5. CASE i # Len(l)
  <2>1. Behind(l, o) = l[i + 1] /\ i + 1 \in 1 .. Len(l)
    <3>1. Behind(l, o) = l[i + 1]
      BY <1>2, <1>5, BehindIs
    <3>2. i \in Nat /\ i <= Len(l) /\ i >= 1
      BY <1>1
    <3>3. i + 1 \in 1 .. Len(l)
      <4>1. \A n, k \in Nat : 1 <= k /\ k <= n /\ k # n => k + 1 \in 1 .. n
        OBVIOUS
      <4>2. QED
        BY <1>1, <1>5, <3>2, <4>1, Zenon
    <3>4. QED
      BY <3>1, <3>3
  <2>2. l[i + 1] # o
    BY <1>1, <1>2, <1>3, <2>1
  <2>3. ASSUME NEW x, x \in From(l, l[i + 1])
        PROVE  x \in From(l, o) \ {o}
    <3>1. PICK j \in 1 .. Len(l) : i + 1 <= j /\ l[j] = x
      BY <1>1, <1>3, <2>1, <2>3, FromHas
    <3>2. i <= j /\ j # i
      BY <1>1, <3>1
    <3>3. QED
      BY <1>2, <1>3, <3>1, <3>2, FromHas
  <2>4. ASSUME NEW x, x \in From(l, o) \ {o}
        PROVE  x \in From(l, l[i + 1])
    <3>1. PICK j \in 1 .. Len(l) : i <= j /\ l[j] = x
      BY <1>2, <1>3, <2>4, FromHas
    <3>2. i + 1 <= j
      BY <1>1, <1>2, <2>4, <3>1
    <3>3. QED
      BY <2>1, <3>1, <3>2, FromHas
  <2>5. QED
    BY <1>1, <2>1, <2>2, <2>3, <2>4 DEF ToSet
<1>6. QED
  BY <1>4, <1>5

(* Another entry taken out or put in front.                                *)
LEMMA FromRemove ==
  ASSUME NEW l \in Lists, NEW o, NEW n \in ToSet(l) \cup {None}, n # o
  PROVE  From(RemoveFirst(l, o), n) = From(l, n) \ {o}
<1>1. Len(l) \in Nat /\ DOMAIN l = 1 .. Len(l)
  BY DEF Lists
<1>2. CASE o \notin ToSet(l)
  <2>1. \A x : x \in From(l, n) => x \in ToSet(l)
    BY <1>1, FromHas DEF ToSet
  <2>2. QED
    BY <1>2, <2>1, RemoveFirstNot
<1>3. CASE n = None
  BY <1>3, RemoveFirstList, FromNone
<1>4. CASE o \in ToSet(l) /\ n # None
  <2>1. PICK k \in 1 .. Len(l) : l[k] = o
    BY <1>1, <1>4 DEF ToSet
  <2>2. PICK r : r = RemoveFirst(l, o)
    OBVIOUS
  <2>3. /\ r \in Lists /\ Len(r) = Len(l) - 1
        /\ \A j \in 1 .. Len(l) - 1 : r[j] = IF j < k THEN l[j] ELSE l[j + 1]
    BY <2>1, <2>2, RemoveFirstIs, RemoveFirstList
  <2>4. \A i, j \in 1 .. Len(l) : l[i] = l[j] => i = j
    BY DEF Lists
  <2>5. ASSUME NEW x, x \in From(r, n)
        PROVE  x \in From(l, n) \ {o}
    <3>1. PICK i \in 1 .. Len(r), j \in 1 .. Len(r) : i <= j /\ r[i] = n /\ r[j] = x
      BY <2>3, <2>5, FromHas
    <3>2. PICK a \in 1 .. Len(l), b \in 1 .. Len(l) :
            a <= b /\ l[a] = n /\ l[b] = x /\ b # k
      <4>1. CASE j < k
        <5>1. i \in 1 .. Len(l) /\ j \in 1 .. Len(l) /\ l[i] = n /\ l[j] = x /\ j # k
          BY <1>1, <2>3, <3>1, <4>1
        <5>2. QED
          BY <3>1, <5>1
      <4>2. CASE ~(j < k)
        <5>1. j + 1 \in 1 .. Len(l) /\ l[j + 1] = x /\ j + 1 # k
          BY <1>1, <2>3, <3>1, <4>2
        <5>2. CASE i < k
          <6>1. i \in 1 .. Len(l) /\ l[i] = n /\ i <= j + 1
            BY <1>1, <2>3, <3>1, <5>2
          <6>2. QED
            BY <5>1, <6>1
        <5>3. CASE ~(i < k)
          <6>1. i + 1 \in 1 .. Len(l) /\ l[i + 1] = n /\ i + 1 <= j + 1
            BY <1>1, <2>3, <3>1, <5>3
          <6>2. QED
            BY <5>1, <6>1
        <5>4. QED
          BY <5>2, <5>3
      <4>3. QED
        BY <4>1, <4>2
    <3>3. x # o
      BY <2>1, <2>4, <3>2
    <3>4. QED
      BY <3>2, <3>3, FromHas
  <2>6. ASSUME NEW x, x \in From(l, n) \ {o}
        PROVE  x \in From(r, n)
    <3>1. PICK a \in 1 .. Len(l), b \in 1 .. Len(l) : a <= b /\ l[a] = n /\ l[b] = x
      BY <2>6, FromHas
    <3>2. a # k /\ b # k
      BY <2>1, <2>6, <3>1
    <3>3. PICK i \in 1 .. Len(r), j \in 1 .. Len(r) : i <= j /\ r[i] = n /\ r[j] = x
      <4>1. CASE b < k
        <5>1. a \in 1 .. Len(r) /\ b \in 1 .. Len(r) /\ r[a] = n /\ r[b] = x
          BY <1>1, <2>3, <3>1, <4>1
        <5>2. QED
          BY <3>1, <5>1
      <4>2. CASE b > k
        <5>1. b - 1 \in 1 .. Len(r) /\ ~(b - 1 < k) /\ (b - 1) + 1 = b
          BY <1>1, <2>3, <4>2
        <5>2. r[b - 1] = x
          BY <2>3, <3>1, <5>1
        <5>3. CASE a < k
          <6>1. a \in 1 .. Len(r) /\ r[a] = n /\ a <= b - 1
            BY <1>1, <2>3, <3>1, <4>2, <5>3
          <6>2. QED
            BY <5>1, <5>2, <6>1
        <5>4. CASE a > k
          <6>1. /\ a - 1 \in 1 .. Len(r) /\ ~(a - 1 < k) /\ (a - 1) + 1 = a
                /\ a - 1 <= b - 1
            BY <1>1, <2>3, <3>1, <5>4
          <6>2. r[a - 1] = n
            BY <2>3, <3>1, <6>1
          <6>3. QED
            BY <5>1, <5>2, <6>1, <6>2
        <5>5. QED
          BY <1>1, <3>2, <5>3, <5>4
      <4>3. QED
        BY <1>1, <3>2, <4>1, <4>2
    <3>4. QED
      BY <2>3, <3>3, FromHas
  <2>7. QED
    BY <2>2, <2>5, <2>6
<1>5. QED
  BY <1>2, <1>3, <1>4

LEMMA FromPutFirst ==
  ASSUME NEW l \in Lists, NEW o \in Objs, o \notin ToSet(l), NEW n, n # o
  PROVE  From(<<o>> \o l, n) = From(l, n)
<1>1. Len(l) \in Nat /\ DOMAIN l = 1 .. Len(l) /\ l \in Seq(Objs)
  BY DEF Lists
<1>2. PICK r : r = <<o>> \o l
  OBVIOUS
<1>3. /\ r \in Lists /\ Len(r) = Len(l) + 1 /\ r[1] = o
      /\ \A j \in 1 .. Len(l) : r[j + 1] = l[j]
  BY <1>1, <1>2, PutFirstList
<1>4. ASSUME NEW x, x \in From(r, n)
      PROVE  x \in From(l, n)
  <2>1. PICK i \in 1 .. Len(r), j \in 1 .. Len(r) : i <= j /\ r[i] = n /\ r[j] = x
    BY <1>3, <1>4, FromHas
  <2>2. i # 1 /\ j # 1
    BY <1>1, <1>3, <2>1
  <2>3. /\ i - 1 \in 1 .. Len(l) /\ (i - 1) + 1 = i
        /\ j - 1 \in 1 .. Len(l) /\ (j - 1) + 1 = j /\ i - 1 <= j - 1
    BY <1>1, <1>3, <2>1, <2>2
  <2>4. l[i - 1] = n /\ l[j - 1] = x
    BY <1>3, <2>1, <2>3
  <2>5. QED
    BY <2>3, <2>4, FromHas
<1>5. ASSUME NEW x, x \in From(l, n)
      PROVE  x \in From(r, n)
  <2>1. PICK i \in 1 .. Len(l), j \in 1 .. Len(l) : i <= j /\ l[i] = n /\ l[j] = x
    BY <1>5, FromHas
  <2>2. /\ i + 1 \in 1 .. Len(r) /\ j + 1 \in 1 .. Len(r) /\ i + 1 <= j + 1
        /\ r[i + 1] = n /\ r[j + 1] = x
    BY <1>1, <1>3, <2>1
  <2>3. QED
    BY <1>3, <2>2, FromHas
<1>6. QED
  BY <1>2, <1>4, <1>5

-----------------------------------------------------------------------------
(* What the calls do to the tables keeps the counts right.                 *)

LEMMA QuietCounts ==
  ASSUME CountInv, UNCHANGED <<handle, fd, inode, open>>,
         \A h \in Slots : Users(h)' = Users(h)
  PROVE  CountInv'
  BY DEF CountInv, HandleInv, Holders, FdInv, HandlesOf, InodeInv, FdsOf

LEMMA OpenedCounts ==
  ASSUME TableType, CountInv, "reuse" \notin Exposed, UNCHANGED task,
         NEW o \in Dirs, NEW mode, NEW isDir, NEW first,
         Opened(o, mode, isDir, first)
  PROVE  CountInv'
<1>0. PICK h, f, i : h = First(FreeHandles) /\ f = First(FreeFds) /\ i = InodeFor(o)
  OBVIOUS
<1>1. h \in Slots /\ handle[h].use = 0 /\ f \in Slots /\ fd[f].count = 0
  <2>1. FreeHandles \in SUBSET Slots /\ FreeFds \in SUBSET Slots
    BY DEF FreeHandles, FreeFds
  <2>2. h \in FreeHandles /\ f \in FreeFds
    BY <1>0, <2>1, FirstIn DEF Opened
  <2>3. QED
    BY <2>2 DEF FreeHandles, FreeFds, TableType, HandleType, FdType
<1>2. /\ i \in Slots
      /\ inode[i].obj = o \/ inode[i].obj = None
  BY <1>0, InodeForIs DEF Opened
<1>3. /\ handle' = [handle EXCEPT ![h] = [fd |-> f, use |-> 1]]
      /\ fd' = [fd EXCEPT ![f] = [isDir |-> isDir, mode |-> mode, inode |-> i,
                                  count |-> 1]]
      /\ inode' = [inode EXCEPT ![i] = [obj |-> o, count |-> @.count + 1]]
      /\ open' = [open EXCEPT ![h] = TRUE]
  BY <1>0 DEF Opened
<1>4. Users(h) = {} /\ \A g \in Slots : Users(g)' = Users(g)
  BY <1>0 DEF Opened, NotStillUsed, StillUsed, Users
<1>5. HandlesOf(f) = {}
  BY <1>1, CountsFinite, CountNone DEF CountInv, FdInv
<1>a. /\ handle'[h].use = 1 /\ handle'[h].fd = f
      /\ \A g \in Slots \ {h} : handle'[g] = handle[g]
  BY <1>1, <1>3 DEF TableType
<1>b. /\ fd'[f].count = 1 /\ fd'[f].inode = i
      /\ \A g \in Slots \ {f} : fd'[g] = fd[g]
  BY <1>1, <1>3 DEF TableType
<1>6. HandlesOf(f)' = {h} /\ \A g \in Slots \ {f} : HandlesOf(g)' = HandlesOf(g)
  BY <1>1, <1>5, <1>a DEF HandlesOf
<1>7. FdsOf(i)' = FdsOf(i) \cup {f} /\ f \notin FdsOf(i)
  BY <1>1, <1>b DEF FdsOf
<1>8. \A j \in Slots \ {i} : FdsOf(j)' = FdsOf(j)
  BY <1>1, <1>b DEF FdsOf
<1>9. HandleInv'
  <2>1. Cardinality(Users(h)) = 0
    BY <1>4, FS_EmptySet
  <2>3. open'[h] /\ \A g \in Slots \ {h} : open'[g] = open[g]
    BY <1>1, <1>3 DEF TableType
  <2>4. \A g \in Slots : handle[g].use > 0 => handle[g].fd # f
    BY <1>5 DEF HandlesOf
  <2>6. \A g \in Slots : handle[g].fd \in Slots \cup {0}
    BY SizesAssumption DEF TableType, HandleType, Slots
  <2>7. f # 0
    BY <1>1 DEF Slots
  <2>8. ASSUME NEW g \in Slots
        PROVE  /\ handle'[g].use = 0 => ~open'[g]
               /\ handle'[g].use > 0 =>
                    /\ handle'[g].use = Holders(g)'
                    /\ handle'[g].fd # 0 /\ fd'[handle'[g].fd].count > 0
    <3>1. CASE g = h
      BY <1>4, <1>a, <1>b, <2>1, <2>3, <2>7, <3>1 DEF Holders
    <3>2. CASE g # h
      BY <1>4, <1>a, <1>b, <2>3, <2>4, <2>6, <3>2 DEF CountInv, HandleInv, Holders
    <3>3. QED
      BY <3>1, <3>2
  <2>9. QED
    BY <2>8 DEF HandleInv
<1>10. FdInv'
  <2>1. Cardinality({h}) = 1 /\ i # 0
    BY <1>2, FS_Singleton DEF Slots
  <2>2. ASSUME NEW g \in Slots
        PROVE  /\ fd'[g].count = Cardinality(HandlesOf(g)')
               /\ fd'[g].count > 0 => fd'[g].inode # 0
    BY <1>6, <1>b, <2>1 DEF CountInv, FdInv
  <2>3. QED
    BY <2>2 DEF FdInv
<1>11. InodeInv'
  <2>1. Cardinality(FdsOf(i)') = Cardinality(FdsOf(i)) + 1
    BY <1>7, CountsFinite, CountUp
  <2>2. inode'[i].count = inode[i].count + 1 /\ inode'[i].obj = o /\ o # None
    BY <1>2, <1>3, DistinctAssumption DEF TableType
  <2>3. inode[i].count \in Nat
    BY <1>2 DEF TableType, InodeType
  <2>4. \A j \in Slots \ {i} : inode'[j] = inode[j]
    BY <1>2, <1>3 DEF TableType
  <2>5. ASSUME NEW j \in Slots
        PROVE  /\ inode'[j].count = Cardinality(FdsOf(j)')
               /\ inode'[j].count > 0 <=> inode'[j].obj # None
    BY <1>8, <2>1, <2>2, <2>3, <2>4 DEF CountInv, InodeInv
  <2>6. QED
    BY <2>5 DEF InodeInv
<1>12. QED
  BY <1>9, <1>10, <1>11 DEF CountInv

LEMMA DupCounts ==
  ASSUME TableType, CountInv, "reuse" \notin Exposed, NEW x \in Slots, Dup(x)
  PROVE  CountInv'
<1>0. PICK f, h : f = HandleToFileDes(x) /\ h = First(FreeHandles)
  OBVIOUS
<1>1. h \in Slots /\ handle[h].use = 0
  <2>1. FreeHandles \in SUBSET Slots
    BY DEF FreeHandles
  <2>2. h \in FreeHandles
    BY <1>0, <2>1, FirstIn DEF Dup
  <2>3. QED
    BY <2>2 DEF FreeHandles, TableType, HandleType
<1>2. f \in Slots /\ handle[x].use > 0 /\ handle[x].fd = f
  BY <1>0, SizesAssumption DEF Dup, HandleToFileDes, TableType, HandleType, Slots
<1>3. /\ handle' = [handle EXCEPT ![h] = [fd |-> f, use |-> 1]]
      /\ fd' = [fd EXCEPT ![f].count = @ + 1]
      /\ open' = [open EXCEPT ![h] = TRUE]
      /\ inode' = inode
  BY <1>0 DEF Dup
<1>4. Users(h) = {} /\ \A g \in Slots : Users(g)' = Users(g)
  BY <1>0 DEF Dup, NotStillUsed, StillUsed, Users
<1>5. fd[f].count \in Nat /\ fd[f].count > 0
  BY <1>2 DEF CountInv, HandleInv, TableType, FdType
<1>a. /\ handle'[h].use = 1 /\ handle'[h].fd = f
      /\ \A g \in Slots \ {h} : handle'[g] = handle[g]
  BY <1>1, <1>3 DEF TableType
<1>6. HandlesOf(f)' = HandlesOf(f) \cup {h} /\ h \notin HandlesOf(f)
  BY <1>1, <1>a DEF HandlesOf
<1>7. \A g \in Slots \ {f} : HandlesOf(g)' = HandlesOf(g)
  BY <1>1, <1>a DEF HandlesOf
<1>8. /\ fd'[f].count = fd[f].count + 1 /\ fd'[f].inode = fd[f].inode
      /\ \A g \in Slots \ {f} : fd'[g] = fd[g]
  BY <1>2, <1>3 DEF TableType, FdType
<1>9. \A i \in Slots : FdsOf(i)' = FdsOf(i)
  BY <1>2, <1>5, <1>8 DEF FdsOf
<1>10. HandleInv'
  <2>1. Cardinality(Users(h)) = 0
    BY <1>4, FS_EmptySet
  <2>2. open'[h] /\ f # 0
    BY <1>1, <1>2, <1>3 DEF TableType, Slots
  <2>3. \A g \in Slots \ {h} : open'[g] = open[g]
    BY <1>1, <1>3 DEF TableType
  <2>4. \A g \in Slots : fd[g].count > 0 => fd'[g].count > 0
    BY <1>5, <1>8
  <2>5. \A g \in Slots : handle[g].fd \in Slots \cup {0}
    BY SizesAssumption DEF TableType, HandleType, Slots
  <2>6. ASSUME NEW g \in Slots
        PROVE  /\ handle'[g].use = 0 => ~open'[g]
               /\ handle'[g].use > 0 =>
                    /\ handle'[g].use = Holders(g)'
                    /\ handle'[g].fd # 0 /\ fd'[handle'[g].fd].count > 0
    <3>1. CASE g = h
      <4>1. Holders(h)' = 1
        BY <1>1, <1>4, <2>1, <2>2 DEF Holders
      <4>2. QED
        BY <1>2, <1>5, <1>8, <1>a, <2>2, <3>1, <4>1
    <3>2. CASE g # h
      BY <1>4, <1>a, <2>3, <2>4, <2>5, <3>2 DEF CountInv, HandleInv, Holders
    <3>3. QED
      BY <3>1, <3>2
  <2>7. QED
    BY <2>6 DEF HandleInv
<1>11. FdInv'
  <2>1. Cardinality(HandlesOf(f)') = Cardinality(HandlesOf(f)) + 1
    BY <1>6, CountsFinite, CountUp
  <2>2. ASSUME NEW g \in Slots
        PROVE  /\ fd'[g].count = Cardinality(HandlesOf(g)')
               /\ fd'[g].count > 0 => fd'[g].inode # 0
    BY <1>5, <1>7, <1>8, <2>1 DEF CountInv, FdInv
  <2>3. QED
    BY <2>2 DEF FdInv
<1>12. InodeInv'
  BY <1>3, <1>9 DEF CountInv, InodeInv
<1>13. QED
  BY <1>10, <1>11, <1>12 DEF CountInv

(* The three ways of yaffsfs_PutHandle.                                    *)
LEMMA PutHandleWays ==
  ASSUME NEW h, NEW ob, handle[h].use \in Nat, PutHandle(h, ob)
  PROVE  /\ handle[h].use > 1 =>
              /\ handle' = [handle EXCEPT ![h].use = @ - 1] /\ obj' = ob
              /\ UNCHANGED <<fd, inode, scans>>
         /\ handle[h].use = 1 =>
              /\ handle' = [handle EXCEPT ![h] = [fd |-> 0, use |-> 0]]
              /\ PutFileDes(handle[h].fd, ob)
         /\ handle[h].use = 0 => obj' = ob /\ UNCHANGED <<handle, fd, inode, scans>>
<1>1. CASE handle[h].use > 1
  <2>1. handle[h].use # 1 /\ handle[h].use # 0
    BY <1>1
  <2>2. QED
    BY <1>1, <2>1, Zenon DEF PutHandle
<1>2. CASE handle[h].use = 1
  BY <1>2 DEF PutHandle
<1>3. CASE handle[h].use = 0
  BY <1>3 DEF PutHandle
<1>4. QED
  BY <1>1, <1>2, <1>3

(* One holder less: of the handle, and then of what was held with it.      *)
LEMMA PutCounts ==
  ASSUME TableType, CountInv, NEW h \in Slots, NEW ob, PutHandle(h, ob),
         open' \in [Slots -> BOOLEAN],
         handle[h].use = 0 => ~open'[h],
         handle[h].use > 0 => Holders(h)' = Holders(h) - 1,
         \A g \in Slots \ {h} : Users(g)' = Users(g) /\ open'[g] = open[g]
  PROVE  CountInv'
<1> USE DEF TableType
<1>1. /\ handle[h].use \in Nat /\ handle[h].fd \in Slots \cup {0}
      /\ Cardinality(Users(h)') \in Nat
  <2>1. Cardinality(Users(h)') \in Nat
    <3>1. Users(h)' \in SUBSET Tasks
      BY DEF Users
    <3>2. QED
      BY <3>1, TasksAssumption, FS_Subset, FS_CardinalityType
  <2>2. QED
    BY <2>1, SizesAssumption DEF HandleType, Slots
<1>2. \A g \in Slots : handle[g].fd \in Slots \cup {0}
  BY SizesAssumption DEF HandleType, Slots
<1>3. CASE handle[h].use = 0
  <2>1. UNCHANGED <<handle, fd, inode>>
    BY <1>3 DEF PutHandle
  <2>2. HandleInv'
    <3>1. ASSUME NEW g \in Slots
          PROVE  /\ handle'[g].use = 0 => ~open'[g]
                 /\ handle'[g].use > 0 =>
                      /\ handle'[g].use = Holders(g)'
                      /\ handle'[g].fd # 0 /\ fd'[handle'[g].fd].count > 0
      BY <1>3, <2>1 DEF CountInv, HandleInv, Holders
    <3>2. QED
      BY <3>1 DEF HandleInv
  <2>3. FdInv' /\ InodeInv'
    BY <2>1 DEF CountInv, FdInv, HandlesOf, InodeInv, FdsOf
  <2>4. QED
    BY <2>2, <2>3 DEF CountInv
<1>4. CASE handle[h].use > 1
  <2>1. UNCHANGED <<fd, inode>> /\ handle' = [handle EXCEPT ![h].use = @ - 1]
    BY <1>1, <1>4, PutHandleWays
  <2>2. /\ handle'[h].use = handle[h].use - 1 /\ handle'[h].fd = handle[h].fd
        /\ \A g \in Slots \ {h} : handle'[g] = handle[g]
    BY <2>1 DEF HandleType
  <2>3. HandleInv'
    <3>1. ASSUME NEW g \in Slots
          PROVE  /\ handle'[g].use = 0 => ~open'[g]
                 /\ handle'[g].use > 0 =>
                      /\ handle'[g].use = Holders(g)'
                      /\ handle'[g].fd # 0 /\ fd'[handle'[g].fd].count > 0
      <4>1. CASE g = h
        BY <1>1, <1>4, <2>1, <2>2, <4>1 DEF CountInv, HandleInv
      <4>2. CASE g # h
        BY <2>1, <2>2, <4>2 DEF CountInv, HandleInv, Holders
      <4>3. QED
        BY <4>1, <4>2
    <3>2. QED
      BY <3>1 DEF HandleInv
  <2>4. \A f \in Slots : HandlesOf(f)' = HandlesOf(f)
    BY <1>1, <1>4, <2>2 DEF HandlesOf
  <2>5. FdInv' /\ InodeInv'
    BY <2>1, <2>4 DEF CountInv, FdInv, InodeInv, FdsOf
  <2>6. QED
    BY <2>3, <2>5 DEF CountInv
<1>5. CASE handle[h].use = 1
  <2>1. PICK f : f = handle[h].fd
    OBVIOUS
  <2>2. /\ handle' = [handle EXCEPT ![h] = [fd |-> 0, use |-> 0]]
        /\ PutFileDes(f, ob)
    BY <1>5, <2>1 DEF PutHandle
  <2>3. f \in Slots /\ fd[f].count \in Nat /\ fd[f].count > 0
    BY <1>1, <1>5, <2>1 DEF CountInv, HandleInv, FdType
  <2>4. handle'[h].use = 0 /\ \A g \in Slots \ {h} : handle'[g] = handle[g]
    BY <2>2
  <2>5. HandlesOf(f)' = HandlesOf(f) \ {h} /\ h \in HandlesOf(f)
    BY <1>5, <2>1, <2>3, <2>4 DEF HandlesOf
  <2>6. \A g \in Slots \ {f} : HandlesOf(g)' = HandlesOf(g)
    BY <1>5, <2>1, <2>4 DEF HandlesOf
  <2>7. Cardinality(HandlesOf(f)') = fd[f].count - 1
    BY <2>3, <2>5, CountsFinite, CountDown DEF CountInv, FdInv
  <2>8. ~open'[h]
    <3>1. Holders(h)' = 0
      BY <1>5 DEF CountInv, HandleInv
    <3>2. QED
      BY <1>1, <3>1 DEF Holders
  <2>9. HandleInv'
    <3>1. fd[f].count = 1 => \A g \in Slots \ {h} : handle[g].use > 0 => handle[g].fd # f
      <4>1. SUFFICES ASSUME fd[f].count = 1
            PROVE \A g \in Slots \ {h} : handle[g].use > 0 => handle[g].fd # f
        OBVIOUS
      <4>2. HandlesOf(f) \ {h} = {}
        <5>1. IsFiniteSet(HandlesOf(f) \ {h})
          BY CountsFinite, FS_RemoveElement
        <5>2. QED
          BY <2>5, <2>7, <4>1, <5>1, CountNone, SMTT(30)
      <4>3. QED
        BY <4>2 DEF HandlesOf
    <3>2. \A g \in Slots : fd[g].count > 0 /\ (g = f => fd[f].count > 1) => fd'[g].count > 0
      <4>1. CASE fd[f].count > 1
        BY <2>2, <2>3, <4>1 DEF PutFileDes, FdType
      <4>2. CASE fd[f].count = 1
        BY <2>2, <2>3, <4>2 DEF PutFileDes
      <4>3. QED
        BY <2>3, <4>1, <4>2
    <3>3. ASSUME NEW g \in Slots
          PROVE  /\ handle'[g].use = 0 => ~open'[g]
                 /\ handle'[g].use > 0 =>
                      /\ handle'[g].use = Holders(g)'
                      /\ handle'[g].fd # 0 /\ fd'[handle'[g].fd].count > 0
      <4>1. CASE g = h
        BY <2>4, <2>8, <4>1
      <4>2. CASE g # h
        <5>1. handle'[g].use > 0 => fd'[handle'[g].fd].count > 0
          BY <1>2, <2>3, <2>4, <3>1, <3>2, <4>2 DEF CountInv, HandleInv
        <5>2. QED
          BY <2>4, <4>2, <5>1 DEF CountInv, HandleInv, Holders
      <4>3. QED
        BY <4>1, <4>2
    <3>4. QED
      BY <3>3 DEF HandleInv
  <2>10. CASE fd[f].count > 1
    <3>1. fd' = [fd EXCEPT ![f].count = @ - 1] /\ inode' = inode
      BY <2>2, <2>10 DEF PutFileDes
    <3>2. /\ fd'[f].count = fd[f].count - 1 /\ fd'[f].inode = fd[f].inode
          /\ \A g \in Slots \ {f} : fd'[g] = fd[g]
      BY <2>3, <3>1 DEF FdType
    <3>3. FdInv'
      <4>1. ASSUME NEW g \in Slots
            PROVE  /\ fd'[g].count = Cardinality(HandlesOf(g)')
                   /\ fd'[g].count > 0 => fd'[g].inode # 0
        BY <2>3, <2>6, <2>7, <3>2 DEF CountInv, FdInv
      <4>2. QED
        BY <4>1 DEF FdInv
    <3>4. \A i \in Slots : FdsOf(i)' = FdsOf(i)
      BY <2>3, <2>10, <3>2 DEF FdsOf
    <3>5. InodeInv'
      BY <3>1, <3>4 DEF CountInv, InodeInv
    <3>6. QED
      BY <2>9, <3>3, <3>5 DEF CountInv
  <2>11. CASE fd[f].count = 1
    <3>1. fd' = [fd EXCEPT ![f] = NoFd] /\ PutInode(f, ob)
      BY <2>2, <2>11 DEF PutFileDes
    <3>2. fd'[f].count = 0 /\ \A g \in Slots \ {f} : fd'[g] = fd[g]
      BY <2>3, <3>1 DEF NoFd
    <3>3. FdInv'
      <4>1. ASSUME NEW g \in Slots
            PROVE  /\ fd'[g].count = Cardinality(HandlesOf(g)')
                   /\ fd'[g].count > 0 => fd'[g].inode # 0
        BY <2>3, <2>6, <2>7, <2>11, <3>2 DEF CountInv, FdInv
      <4>2. QED
        BY <4>1 DEF FdInv
    <3>4. PICK i : i = fd[f].inode
      OBVIOUS
    <3>5. i \in Slots
      BY <2>3, <3>4, SizesAssumption DEF CountInv, FdInv, FdType, Slots
    <3>6. FdsOf(i)' = FdsOf(i) \ {f} /\ f \in FdsOf(i)
      BY <2>3, <3>2, <3>4 DEF FdsOf
    <3>7. \A j \in Slots \ {i} : FdsOf(j)' = FdsOf(j)
      BY <2>3, <3>2, <3>4 DEF FdsOf
    <3>8. inode[i].count \in Nat /\ inode[i].count > 0
          /\ Cardinality(FdsOf(i)') = inode[i].count - 1
      <4>1. Cardinality(FdsOf(i)') = Cardinality(FdsOf(i)) - 1 /\ FdsOf(i) # {}
        BY <3>6, CountsFinite, CountDown
      <4>2. inode[i].count = Cardinality(FdsOf(i)) /\ Cardinality(FdsOf(i)) # 0
        BY <3>5, <4>1, CountsFinite, CountNone DEF CountInv, InodeInv
      <4>3. QED
        BY <4>1, <4>2, CountsFinite
    <3>9. /\ inode'[i].count = inode[i].count - 1
          /\ inode'[i].obj = IF inode[i].count > 1 THEN inode[i].obj ELSE None
          /\ \A j \in Slots \ {i} : inode'[j] = inode[j]
      BY <3>1, <3>4, <3>5, <3>8 DEF PutInode, InodeType
    <3>10. InodeInv'
      <4>1. ASSUME NEW j \in Slots
            PROVE  /\ inode'[j].count = Cardinality(FdsOf(j)')
                   /\ inode'[j].count > 0 <=> inode'[j].obj # None
        <5>1. CASE j = i
          BY <3>5, <3>8, <3>9, <5>1 DEF CountInv, InodeInv
        <5>2. CASE j # i
          BY <3>7, <3>9, <5>2 DEF CountInv, InodeInv
        <5>3. QED
          BY <5>1, <5>2
      <4>2. QED
        BY <4>1 DEF InodeInv
    <3>11. QED
      BY <2>9, <3>3, <3>10 DEF CountInv
  <2>12. QED
    BY <2>3, <2>10, <2>11
<1>6. QED
  BY <1>1, <1>3, <1>4, <1>5

(* A read or write that goes on holds its handle.                          *)
LEMMA BegunCounts ==
  ASSUME TableType, CountInv, NEW t \in Tasks, NEW h \in Slots, NEW r,
         task[t] = Idle, r # Idle, r.h = h, handle[h].use > 0,
         handle' = [handle EXCEPT ![h].use = @ + 1],
         task' = [task EXCEPT ![t] = r],
         UNCHANGED <<fd, inode, open>>
  PROVE  CountInv'
<1> USE DEF TableType
<1>1. /\ handle'[h].use = handle[h].use + 1 /\ handle'[h].fd = handle[h].fd
      /\ \A g \in Slots \ {h} : handle'[g] = handle[g]
      /\ handle[h].use \in Nat
  BY DEF HandleType
<1>2. Users(h)' = Users(h) \cup {t} /\ t \notin Users(h)
  BY DEF Users
<1>3. \A g \in Slots \ {h} : Users(g)' = Users(g)
  BY DEF Users
<1>4. Cardinality(Users(h)') = Cardinality(Users(h)) + 1
  BY <1>2, CountsFinite, CountUp
<1>5. HandleInv'
  <2>1. ASSUME NEW g \in Slots
        PROVE  /\ handle'[g].use = 0 => ~open'[g]
               /\ handle'[g].use > 0 =>
                    /\ handle'[g].use = Holders(g)'
                    /\ handle'[g].fd # 0 /\ fd'[handle'[g].fd].count > 0
    <3>1. CASE g = h
      BY <1>1, <1>4, <3>1, CountsFinite DEF CountInv, HandleInv, Holders
    <3>2. CASE g # h
      BY <1>1, <1>3, <3>2 DEF CountInv, HandleInv, Holders
    <3>3. QED
      BY <3>1, <3>2
  <2>2. QED
    BY <2>1 DEF HandleInv
<1>6. \A f \in Slots : HandlesOf(f)' = HandlesOf(f)
  BY <1>1 DEF HandlesOf
<1>7. FdInv' /\ InodeInv'
  <2>1. InodeInv'
    BY DEF CountInv, InodeInv, FdsOf
  <2>2. QED
    BY <1>6, <2>1 DEF CountInv, FdInv
<1>8. QED
  BY <1>5, <1>7 DEF CountInv

LEMMA BrokenCounts ==
  ASSUME BreakDeviceHandles
  PROVE  CountInv'
<1>1. /\ \A h \in Slots : handle'[h].use = 0 /\ ~open'[h]
      /\ \A f \in Slots : fd'[f].count = 0
      /\ \A i \in Slots : inode'[i].count = 0 /\ inode'[i].obj = None
  BY DEF BreakDeviceHandles, NoFd
<1>2. \A x \in Slots : HandlesOf(x)' = {} /\ FdsOf(x)' = {}
  BY <1>1 DEF HandlesOf, FdsOf
<1>3. HandleInv'
  BY <1>1 DEF HandleInv
<1>4. FdInv' /\ InodeInv'
  <2>1. \A x \in Slots : Cardinality(HandlesOf(x)') = 0 /\ Cardinality(FdsOf(x)') = 0
    BY <1>2, FS_EmptySet
  <2>2. QED
    BY <1>1, <2>1 DEF FdInv, InodeInv
<1>5. QED
  BY <1>3, <1>4 DEF CountInv

-----------------------------------------------------------------------------
(* The tables, with the reads and writes in progress.                      *)

TableInv == TableType /\ CountInv /\ PlaceInv /\ TaskInv /\ SharingKept

(* A handle in use leads to a descriptor, an inode and an object.          *)
LEMMA HandleLeads ==
  ASSUME TableType, CountInv, NEW h \in Slots
  PROVE  /\ handle[h].use > 0 =>
              /\ HandleToFileDes(h) = handle[h].fd /\ handle[h].fd \in Slots
              /\ fd[handle[h].fd].count > 0
              /\ HandleToInode(h) = fd[handle[h].fd].inode
              /\ HandleToInode(h) \in Slots
              /\ HandleToObject(h) = inode[HandleToInode(h)].obj
              /\ HandleToObject(h) \in Dirs
         /\ handle[h].use = 0 =>
              HandleToFileDes(h) = 0 /\ HandleToInode(h) = 0 /\ HandleToObject(h) = None
<1>1. /\ handle[h].use \in Nat /\ handle[h].fd \in Slots \cup {0}
      /\ \A f \in Slots : fd[f].inode \in Slots \cup {0} /\ fd[f].count \in Nat
      /\ \A i \in Slots : inode[i].obj \in Dirs \cup {None}
      /\ \A i \in Slots : i > 0
  <2>1. \A i \in 0 .. NHandles : i \in Slots \cup {0}
    BY SizesAssumption DEF Slots
  <2>2. \A i \in Slots : i > 0
    BY SizesAssumption DEF Slots
  <2>3. QED
    BY <2>1, <2>2 DEF TableType, HandleType, FdType, InodeType
<1>2. CASE handle[h].use = 0
  BY <1>2 DEF HandleToFileDes, HandleToInode, HandleToObject
<1>3. CASE handle[h].use > 0
  <2>1. PICK f : f = handle[h].fd
    OBVIOUS
  <2>2. f \in Slots /\ fd[f].count > 0
    BY <1>1, <1>3, <2>1 DEF CountInv, HandleInv
  <2>3. PICK i : i = fd[f].inode
    OBVIOUS
  <2>4. i \in Slots
    BY <1>1, <2>2, <2>3 DEF CountInv, FdInv
  <2>5. inode[i].count > 0
    <3>1. f \in FdsOf(i)
      BY <2>2, <2>3 DEF FdsOf
    <3>2. inode[i].count = Cardinality(FdsOf(i))
      BY <2>4 DEF CountInv, InodeInv
    <3>3. Cardinality(FdsOf(i)) # 0
      BY <3>1, CountsFinite, CountNone
    <3>4. QED
      BY <3>2, <3>3, CountsFinite
  <2>6. inode[i].obj \in Dirs
    BY <1>1, <2>4, <2>5 DEF CountInv, InodeInv
  <2>7. HandleToFileDes(h) = f
    BY <1>3, <2>1 DEF HandleToFileDes
  <2>8. HandleToInode(h) = i
    BY <1>1, <2>2, <2>3, <2>7 DEF HandleToInode
  <2>9. HandleToObject(h) = inode[i].obj
    BY <1>1, <2>4, <2>8 DEF HandleToObject
  <2>10. QED
    BY <1>3, <2>1, <2>2, <2>3, <2>4, <2>6, <2>7, <2>8, <2>9
<1>4. QED
  BY <1>1, <1>2, <1>3

(* A descriptor in use leads to an inode in use.                           *)
FdsLead ==
  \A f \in Slots : fd[f].count > 0 =>
    fd[f].inode \in Slots /\ inode[fd[f].inode].obj \in Dirs

LEMMA FdLeads == TableType /\ CountInv => FdsLead
<1>1. SUFFICES ASSUME TableType, CountInv, NEW f \in Slots, fd[f].count > 0
               PROVE  fd[f].inode \in Slots /\ inode[fd[f].inode].obj \in Dirs
  BY DEF FdsLead
<1>2. PICK i : i = fd[f].inode
  OBVIOUS
<1>3. i \in Slots
  BY <1>1, <1>2, SizesAssumption DEF CountInv, FdInv, TableType, FdType, Slots
<1>4. f \in FdsOf(i) /\ inode[i].count = Cardinality(FdsOf(i))
  BY <1>1, <1>2, <1>3 DEF CountInv, InodeInv, FdsOf
<1>5. Cardinality(FdsOf(i)) # 0 /\ Cardinality(FdsOf(i)) \in Nat
  BY <1>4, CountsFinite, CountNone
<1>6. inode[i].obj # None
  BY <1>1, <1>3, <1>4, <1>5 DEF CountInv, InodeInv
<1>7. QED
  BY <1>1, <1>2, <1>3, <1>6 DEF TableType, InodeType

LEMMA QuietTables ==
  ASSUME TableInv, UNCHANGED <<handle, fd, inode, open, v, task>>
  PROVE  TableInv'
<1>1. CountInv'
  BY QuietCounts DEF TableInv, Users
<1>2. TableType' /\ PlaceInv' /\ TaskInv' /\ SharingKept'
  BY DEF TableInv, TableType, PlaceInv, TaskInv, SharingKept
<1>3. QED
  BY <1>1, <1>2 DEF TableInv

LEMMA OpenedTables ==
  ASSUME TableInv, "reuse" \notin Exposed, UNCHANGED task,
         NEW o \in Dirs, NEW mode \in Modes, NEW isDir \in BOOLEAN,
         NEW first \in (0 .. MaxSize) \cup Dscs,
         ~isDir => first \in 0 .. MaxSize,
         Opened(o, mode, isDir, first),
         \A g \in Slots : fd[g].count > 0 /\ inode[fd[g].inode].obj = o =>
           Spares(mode, fd[g].mode) /\ Spares(fd[g].mode, mode)
  PROVE  TableInv'
<1> USE DEF TableInv
<1>0. PICK h, f, i : h = First(FreeHandles) /\ f = First(FreeFds) /\ i = InodeFor(o)
  OBVIOUS
<1>1. h \in Slots /\ handle[h].use = 0 /\ f \in Slots /\ fd[f].count = 0
  <2>1. FreeHandles \in SUBSET Slots /\ FreeFds \in SUBSET Slots
    BY DEF FreeHandles, FreeFds
  <2>2. h \in FreeHandles /\ f \in FreeFds
    BY <1>0, <2>1, FirstIn DEF Opened
  <2>3. QED
    BY <2>2 DEF FreeHandles, FreeFds, TableType, HandleType, FdType
<1>2. i \in Slots /\ (inode[i].obj = o \/ inode[i].obj = None)
  BY <1>0, InodeForIs DEF Opened
<1>3. /\ handle' = [handle EXCEPT ![h] = [fd |-> f, use |-> 1]]
      /\ fd' = [fd EXCEPT ![f] = [isDir |-> isDir, mode |-> mode, inode |-> i,
                                  count |-> 1]]
      /\ v' = [v EXCEPT ![f] = first]
      /\ inode' = [inode EXCEPT ![i] = [obj |-> o, count |-> @.count + 1]]
      /\ open' = [open EXCEPT ![h] = TRUE]
      /\ ~StillUsed(h, f)
  BY <1>0 DEF Opened, NotStillUsed
<1>4. TableType'
  <2>1. /\ h \in 0 .. NHandles /\ f \in 0 .. NHandles /\ i \in 0 .. NHandles
        /\ inode[i].count + 1 \in Nat
    BY <1>1, <1>2, SizesAssumption DEF Slots, TableType, InodeType
  <2>2. handle' \in [Slots -> HandleType] /\ fd' \in [Slots -> FdType]
    BY <1>3, <2>1 DEF TableType, HandleType, FdType
  <2>3. inode' \in [Slots -> InodeType]
    BY <1>3, <2>1 DEF TableType, InodeType
  <2>4. QED
    BY <1>3, <2>2, <2>3 DEF TableType
<1>5. /\ \A g \in Slots \ {h} : handle'[g] = handle[g]
      /\ \A g \in Slots \ {f} : fd'[g] = fd[g] /\ v'[g] = v[g]
      /\ fd'[f].isDir = isDir /\ fd'[f].count = 1 /\ fd'[f].inode = i /\ v'[f] = first
      /\ fd'[f].mode = mode
      /\ \A j \in Slots : inode[j].obj # None => inode'[j].obj = inode[j].obj
  BY <1>1, <1>2, <1>3 DEF TableType
<1>6. PlaceInv'
  <2>1. ASSUME NEW g \in Slots
        PROVE  /\ fd'[g].isDir => fd'[g].count > 0
               /\ ~fd'[g].isDir => v'[g] \in 0 .. MaxSize
    BY <1>5 DEF PlaceInv
  <2>2. QED
    BY <2>1 DEF PlaceInv
<1>7. TaskInv'
  <2>1. ASSUME NEW t \in Tasks, task[t] # Idle
        PROVE  \/ /\ handle'[task[t].h].use > 0 /\ handle'[task[t].h].fd = task[t].f
                  /\ ~fd'[task[t].f].isDir
                  /\ inode'[fd'[task[t].f].inode].obj = task[t].o
               \/ handle'[task[t].h].use = 0 /\ fd'[task[t].f].count = 0
    <3>1. task[t].h \in Slots \ {h} /\ task[t].f \in Slots \ {f} /\ task[t].o \in Dirs
      BY <1>3, <2>1 DEF StillUsed, TableType, TaskType, CallType
    <3>2. handle'[task[t].h] = handle[task[t].h] /\ fd'[task[t].f] = fd[task[t].f]
      BY <1>5, <3>1
    <3>3. CASE handle[task[t].h].use > 0 /\ handle[task[t].h].fd = task[t].f
               /\ ~fd[task[t].f].isDir /\ inode[fd[task[t].f].inode].obj = task[t].o
      <4>1. fd[task[t].f].inode \in Slots
        BY <3>1, <3>3, HandleLeads
      <4>2. inode[fd[task[t].f].inode].obj # None
        BY <3>1, <3>3, DistinctAssumption
      <4>3. QED
        BY <1>5, <3>2, <3>3, <4>1, <4>2
    <3>4. QED
      BY <2>1, <3>2, <3>3 DEF TaskInv
  <2>2. QED
    BY <2>1 DEF TaskInv
<1>8. SharingKept'
  <2>1. ASSUME NEW g \in Slots, g # f, fd[g].count > 0, fd[g].inode = i
        PROVE  Spares(mode, fd[g].mode) /\ Spares(fd[g].mode, mode)
    <3>1. inode[i].obj = o
      BY <1>2, <2>1, FdLeads, DistinctAssumption DEF FdsLead
    <3>2. QED
      BY <2>1, <3>1
  <2>2. ASSUME NEW a \in Slots, NEW b \in Slots, a # b, fd'[a].count > 0,
               fd'[b].count > 0, fd'[a].inode = fd'[b].inode
        PROVE  Spares(fd'[a].mode, fd'[b].mode)
    <3>1. CASE a # f /\ b # f
      BY <1>5, <2>2, <3>1 DEF SharingKept
    <3>2. CASE a = f
      BY <1>5, <2>1, <2>2, <3>2
    <3>3. CASE b = f
      BY <1>5, <2>1, <2>2, <3>3
    <3>4. QED
      BY <3>1, <3>2, <3>3
  <2>3. QED
    BY <2>2 DEF SharingKept, Spares
<1>9. CountInv'
  BY OpenedCounts
<1>10. QED
  BY <1>4, <1>6, <1>7, <1>8, <1>9

LEMMA DupTables ==
  ASSUME TableInv, "reuse" \notin Exposed, NEW x \in Slots, Dup(x)
  PROVE  TableInv'
<1> USE DEF TableInv
<1>0. PICK f, h : f = HandleToFileDes(x) /\ h = First(FreeHandles)
  OBVIOUS
<1>1. h \in Slots /\ handle[h].use = 0
  <2>1. FreeHandles \in SUBSET Slots
    BY DEF FreeHandles
  <2>2. h \in FreeHandles
    BY <1>0, <2>1, FirstIn DEF Dup
  <2>3. QED
    BY <2>2 DEF FreeHandles, TableType, HandleType
<1>2. f \in Slots /\ f \in 0 .. NHandles /\ fd[f].count > 0 /\ fd[f].count \in Nat
  <2>1. handle[x].use > 0
    BY <1>0, SizesAssumption DEF Dup, HandleToFileDes
  <2>2. f \in Slots /\ fd[f].count > 0
    BY <1>0, <2>1, HandleLeads
  <2>3. QED
    BY <2>2, SizesAssumption DEF TableType, FdType, Slots
<1>3. /\ handle' = [handle EXCEPT ![h] = [fd |-> f, use |-> 1]]
      /\ fd' = [fd EXCEPT ![f].count = @ + 1]
      /\ open' = [open EXCEPT ![h] = TRUE]
      /\ UNCHANGED <<inode, v, task>> /\ ~StillUsed(h, 0)
  BY <1>0 DEF Dup, NotStillUsed
<1>4. TableType'
  <2>1. fd' \in [Slots -> FdType]
    BY <1>2, <1>3, SMTT(30) DEF TableType, FdType
  <2>2. handle' \in [Slots -> HandleType]
    BY <1>2, <1>3 DEF TableType, HandleType
  <2>3. QED
    BY <1>3, <2>1, <2>2 DEF TableType
<1>5. /\ \A g \in Slots \ {h} : handle'[g] = handle[g]
      /\ \A g \in Slots : /\ fd'[g].isDir = fd[g].isDir /\ fd'[g].mode = fd[g].mode
                          /\ fd'[g].inode = fd[g].inode
                          /\ fd'[g].count > 0 <=> fd[g].count > 0
                          /\ fd'[g].count = 0 <=> fd[g].count = 0
  BY <1>1, <1>2, <1>3 DEF TableType, FdType
<1>6. PlaceInv'
  BY <1>3, <1>5 DEF PlaceInv
<1>7. TaskInv'
  <2>1. ASSUME NEW t \in Tasks, task[t] # Idle
        PROVE  \/ /\ handle'[task[t].h].use > 0 /\ handle'[task[t].h].fd = task[t].f
                  /\ ~fd'[task[t].f].isDir
                  /\ inode'[fd'[task[t].f].inode].obj = task[t].o
               \/ handle'[task[t].h].use = 0 /\ fd'[task[t].f].count = 0
    <3>1. task[t].h \in Slots \ {h} /\ task[t].f \in Slots
      BY <1>3, <2>1 DEF StillUsed, TableType, TaskType, CallType
    <3>2. QED
      BY <1>3, <1>5, <2>1, <3>1 DEF TaskInv
  <2>2. QED
    BY <1>3, <2>1 DEF TaskInv
<1>8. SharingKept'
  BY <1>5 DEF SharingKept, Spares
<1>9. QED
  BY <1>4, <1>6, <1>7, <1>8, DupCounts

(* What yaffsfs_PutHandle leaves as it was.                                *)
LEMMA PutFacts ==
  ASSUME TableType, CountInv, PlaceInv, NEW h \in Slots, NEW ob, PutHandle(h, ob)
  PROVE  /\ handle' \in [Slots -> HandleType] /\ fd' \in [Slots -> FdType]
         /\ inode' \in [Slots -> InodeType]
         /\ \A g \in Slots \ {h} : handle'[g] = handle[g]
         /\ handle'[h].use > 0 => handle'[h].fd = handle[h].fd
         /\ handle[h].use = 0 => handle'[h].use = 0
         /\ handle[h].use > 0 => handle'[h].use = handle[h].use - 1
         /\ \A f \in Slots : fd'[f].count > 0 =>
              /\ fd[f].count > 0 /\ fd'[f].inode = fd[f].inode
              /\ fd'[f].isDir = fd[f].isDir /\ fd'[f].mode = fd[f].mode
         /\ \A f \in Slots : fd'[f].count = 0 => ~fd'[f].isDir
         /\ \A i \in Slots : inode'[i].obj \in {inode[i].obj, None}
<1> USE DEF TableType
<1>1. handle[h].use \in Nat
  BY DEF HandleType
<1>2. \A f \in Slots : fd[f].count \in Nat /\ (fd[f].count = 0 => ~fd[f].isDir)
  BY DEF FdType, PlaceInv
<1>3. CASE handle[h].use = 0
  <2>1. UNCHANGED <<handle, fd, inode>>
    BY <1>1, <1>3, PutHandleWays DEF scans
  <2>2. QED
    BY <1>2, <1>3, <2>1
<1>4. CASE handle[h].use > 1
  <2>1. handle' = [handle EXCEPT ![h].use = @ - 1] /\ UNCHANGED <<fd, inode>>
    BY <1>1, <1>4, PutHandleWays
  <2>2. handle[h].use - 1 \in Nat
    BY <1>1, <1>4
  <2>3. handle' \in [Slots -> HandleType]
    BY <2>1, <2>2 DEF HandleType
  <2>4. /\ \A g \in Slots \ {h} : handle'[g] = handle[g]
        /\ handle'[h].fd = handle[h].fd /\ handle'[h].use = handle[h].use - 1
    BY <2>1 DEF HandleType
  <2>5. QED
    BY <1>2, <1>4, <2>1, <2>3, <2>4
<1>5. CASE handle[h].use = 1
  <2>0. PICK f : f = handle[h].fd
    OBVIOUS
  <2>1. /\ handle' = [handle EXCEPT ![h] = [fd |-> 0, use |-> 0]]
        /\ PutFileDes(f, ob)
    BY <1>1, <1>5, <2>0, PutHandleWays
  <2>2. /\ handle' \in [Slots -> HandleType]
        /\ \A g \in Slots \ {h} : handle'[g] = handle[g]
        /\ handle'[h].use = 0
    BY <2>1, SizesAssumption DEF HandleType
  <2>3. f \in Slots /\ fd[f].count > 0 /\ fd[f].inode \in Slots
    BY <1>5, <2>0, HandleLeads
  <2>4. CASE fd[f].count > 1
    <3>1. fd' = [fd EXCEPT ![f].count = @ - 1] /\ inode' = inode
      BY <2>1, <2>4 DEF PutFileDes
    <3>2. fd[f].count - 1 \in Nat /\ fd[f].count - 1 # 0
      BY <1>2, <2>3, <2>4
    <3>3. fd' \in [Slots -> FdType]
      BY <3>1, <3>2 DEF FdType
    <3>4. \A g \in Slots : /\ fd'[g].inode = fd[g].inode /\ fd'[g].isDir = fd[g].isDir
                           /\ fd'[g].mode = fd[g].mode
                           /\ g # f => fd'[g].count = fd[g].count
                           /\ g = f => fd'[g].count = fd[g].count - 1
      BY <3>1 DEF FdType
    <3>5. QED
      BY <1>2, <1>5, <2>2, <2>3, <3>1, <3>2, <3>3, <3>4
  <2>5. CASE ~(fd[f].count > 1)
    <3>1. fd' = [fd EXCEPT ![f] = NoFd] /\ PutInode(f, ob)
      BY <2>1, <2>5 DEF PutFileDes
    <3>2. NoFd \in FdType /\ NoFd.count = 0 /\ NoFd.isDir = FALSE
      BY SizesAssumption DEF FdType, NoFd
    <3>3. fd' \in [Slots -> FdType]
      BY <3>1, <3>2
    <3>4. fd'[f].count = 0 /\ ~fd'[f].isDir /\ \A g \in Slots \ {f} : fd'[g] = fd[g]
      BY <2>3, <3>1, <3>2
    <3>5. PICK i : i = fd[f].inode
      OBVIOUS
    <3>6. /\ inode' \in [Slots -> InodeType]
          /\ \A j \in Slots : inode'[j].obj \in {inode[j].obj, None}
      <4>1. CASE inode[i].count > 1
        <5>1. inode' = [inode EXCEPT ![i].count = @ - 1]
          BY <3>1, <3>5, <4>1 DEF PutInode
        <5>2. inode[i].count \in Nat /\ inode[i].count - 1 \in Nat
          BY <2>3, <3>5, <4>1 DEF InodeType
        <5>3. inode' \in [Slots -> InodeType]
          BY <5>1, <5>2 DEF InodeType
        <5>4. QED
          BY <5>1, <5>3 DEF InodeType
      <4>2. CASE ~(inode[i].count > 1)
        <5>1. inode' = [inode EXCEPT ![i] = [obj |-> None, count |-> 0]]
          BY <3>1, <3>5, <4>2 DEF PutInode
        <5>2. [obj |-> None, count |-> 0] \in InodeType
          BY DEF InodeType
        <5>3. QED
          BY <5>1, <5>2
      <4>3. QED
        BY <4>1, <4>2
    <3>7. QED
      BY <1>2, <1>5, <2>2, <3>3, <3>4, <3>6, SMTT(30)
  <2>6. QED
    BY <2>4, <2>5
<1>6. QED
  BY <1>1, <1>3, <1>4, <1>5

LEMMA PutTables ==
  ASSUME TableInv, NEW h \in Slots, NEW ob, PutHandle(h, ob),
         NEW w \in [Slots -> (0 .. MaxSize) \cup Dscs], Keep(w),
         \A f \in Slots : ~fd[f].isDir => w[f] \in 0 .. MaxSize,
         open' \in [Slots -> BOOLEAN], task' \in [Tasks -> TaskType \cup {Idle}],
         \A t \in Tasks : task'[t] # Idle => task'[t] = task[t],
         handle[h].use = 0 => ~open'[h],
         handle[h].use > 0 => Holders(h)' = Holders(h) - 1,
         \A g \in Slots \ {h} : Users(g)' = Users(g) /\ open'[g] = open[g]
  PROVE  TableInv'
<1> USE DEF TableInv
<1>1. CountInv'
  BY PutCounts
<1>2. /\ handle' \in [Slots -> HandleType] /\ fd' \in [Slots -> FdType]
      /\ inode' \in [Slots -> InodeType]
      /\ \A g \in Slots \ {h} : handle'[g] = handle[g]
      /\ handle'[h].use > 0 => handle'[h].fd = handle[h].fd
      /\ handle[h].use = 0 => handle'[h].use = 0
      /\ handle[h].use > 0 => handle'[h].use = handle[h].use - 1
      /\ \A f \in Slots : fd'[f].count > 0 =>
           /\ fd[f].count > 0 /\ fd'[f].inode = fd[f].inode
           /\ fd'[f].isDir = fd[f].isDir /\ fd'[f].mode = fd[f].mode
      /\ \A f \in Slots : fd'[f].count = 0 => ~fd'[f].isDir
      /\ \A i \in Slots : inode'[i].obj \in {inode[i].obj, None}
  BY PutFacts
<1>3. \A f \in Slots : v'[f] = IF fd'[f].count > 0 THEN w[f] ELSE 0
  BY DEF Keep
<1>4. 0 \in 0 .. MaxSize
  BY SizesAssumption
<1>5. TableType'
  <2>1. v' \in [Slots -> (0 .. MaxSize) \cup Dscs]
    BY <1>4 DEF Keep
  <2>2. QED
    BY <1>2, <2>1 DEF TableType
<1>6. PlaceInv'
  <2>1. ASSUME NEW f \in Slots
        PROVE  /\ fd'[f].isDir => fd'[f].count > 0
               /\ ~fd'[f].isDir => v'[f] \in 0 .. MaxSize
    <3>1. fd'[f].count \in Nat
      BY <1>2 DEF FdType
    <3>2. CASE fd'[f].count = 0
      BY <1>2, <1>3, <1>4, <3>2
    <3>3. CASE fd'[f].count > 0
      BY <1>2, <1>3, <3>3
    <3>4. QED
      BY <3>1, <3>2, <3>3
  <2>2. QED
    BY <2>1 DEF PlaceInv
<1>7. TaskInv'
  <2>1. ASSUME NEW t \in Tasks, task'[t] # Idle
        PROVE  \/ /\ handle'[task'[t].h].use > 0 /\ handle'[task'[t].h].fd = task'[t].f
                  /\ ~fd'[task'[t].f].isDir
                  /\ inode'[fd'[task'[t].f].inode].obj = task'[t].o
               \/ handle'[task'[t].h].use = 0 /\ fd'[task'[t].f].count = 0
    <3>1. PICK r : r = task[t]
      OBVIOUS
    <3>2. /\ task'[t] = r /\ r # Idle /\ r \in TaskType
          /\ r.h \in Slots /\ r.f \in Slots /\ r.o \in Dirs
      BY <2>1, <3>1 DEF TableType, TaskType, CallType
    <3>3. CASE handle[r.h].use = 0 /\ fd[r.f].count = 0
      <4>1. handle'[r.h].use = 0
        BY <1>2, <3>2, <3>3
      <4>2. fd'[r.f].count \in Nat /\ ~(fd'[r.f].count > 0)
        BY <1>2, <3>2, <3>3 DEF FdType
      <4>3. QED
        BY <3>2, <4>1, <4>2
    <3>4. CASE /\ handle[r.h].use > 0 /\ handle[r.h].fd = r.f /\ ~fd[r.f].isDir
               /\ inode[fd[r.f].inode].obj = r.o
      <4>1. handle'[r.h].use > 0
        <5>1. CASE r.h # h
          BY <1>2, <3>2, <3>4, <5>1
        <5>2. CASE r.h = h
          <6>1. handle'[h].use = Holders(h)'
            BY <1>2, <3>4, <5>2 DEF CountInv, HandleInv
          <6>2. t \in Users(h)' /\ Users(h)' \in SUBSET Tasks
            BY <3>2, <5>2 DEF Users
          <6>3. IsFiniteSet(Users(h)')
            BY <6>2, TasksAssumption, FS_Subset
          <6>4. Cardinality(Users(h)') \in Nat /\ Cardinality(Users(h)') # 0
            BY <6>2, <6>3, CountNone, FS_CardinalityType
          <6>5. QED
            BY <5>2, <6>1, <6>4 DEF Holders
        <5>3. QED
          BY <5>1, <5>2
      <4>2. handle'[r.h].fd = r.f
        BY <1>2, <3>2, <3>4, <4>1
      <4>3. fd'[r.f].count > 0
        BY <1>1, <3>2, <4>1, <4>2 DEF CountInv, HandleInv
      <4>4. fd'[r.f].inode = fd[r.f].inode /\ ~fd'[r.f].isDir
        BY <1>2, <3>2, <3>4, <4>3
      <4>5. fd[r.f].inode \in Slots
        BY <3>2, <3>4, HandleLeads
      <4>6. (fd[r.f].inode \in Slots /\ inode[fd[r.f].inode].obj # None)'
        <5>1. FdsLead'
          BY <1>1, <1>5, FdLeads, PTL
        <5>2. QED
          BY <3>2, <4>3, <5>1, DistinctAssumption DEF FdsLead
      <4>7. QED
        BY <1>2, <3>2, <3>4, <4>1, <4>2, <4>4, <4>5, <4>6
    <3>5. QED
      BY <3>1, <3>2, <3>3, <3>4 DEF TaskInv
  <2>2. QED
    BY <2>1 DEF TaskInv
<1>8. SharingKept'
  BY <1>2 DEF SharingKept, Spares
<1>9. QED
  BY <1>1, <1>5, <1>6, <1>7, <1>8

(* A turn of a read or write stays within its bounds, and on its handle.   *)
LEMMA TurnedIs ==
  ASSUME NEW r \in TaskType, NEW o, NEW ok
  PROVE  /\ Turned(r, o, ok).h = r.h /\ Turned(r, o, ok).f = r.f
         /\ Turned(r, o, ok).at = r.at /\ Turned(r, o, ok).o = r.o
         /\ Turned(r, o, ok).pos \in 0 .. MaxSize
         /\ Turned(r, o, ok).left > 0 =>
              Turned(r, o, ok) \in TaskType /\ TurnWorks(r, o, ok)
<1>1. /\ r \in CallType /\ r.pos \in 0 .. MaxSize /\ r.left \in 1 .. MaxSize
      /\ r.pos + r.left <= MaxSize
  BY DEF TaskType, CallType
<1>2. PICK q : q = Turned(r, o, ok)
  OBVIOUS
<1>3. CASE TurnWorks(r, o, ok)
  <2>1. q = [r EXCEPT !.pos = @ + 1, !.left = @ - 1]
    BY <1>2, <1>3 DEF Turned
  <2>2. /\ q.pos = r.pos + 1 /\ q.left = r.left - 1 /\ q.h = r.h /\ q.f = r.f
        /\ q.at = r.at /\ q.o = r.o /\ q.kind = r.kind
    BY <1>1, <2>1 DEF CallType
  <2>3. q.pos \in 0 .. MaxSize /\ q.pos + q.left <= MaxSize
    BY <1>1, <2>2, SizesAssumption
  <2>4. ASSUME q.left > 0 PROVE q \in CallType
    <3>1. r.left - 1 \in 1 .. MaxSize /\ r.pos + 1 \in 0 .. MaxSize
      BY <1>1, <2>2, <2>3, <2>4, SizesAssumption
    <3>2. QED
      BY <1>1, <2>1, <3>1 DEF CallType
  <2>5. QED
    BY <1>2, <1>3, <2>2, <2>3, <2>4 DEF TaskType
<1>4. CASE ~TurnWorks(r, o, ok)
  <2>1. q = [r EXCEPT !.left = 0]
    BY <1>2, <1>4 DEF Turned
  <2>2. /\ q.pos = r.pos /\ q.left = 0 /\ q.h = r.h /\ q.f = r.f
        /\ q.at = r.at /\ q.o = r.o
    BY <1>1, <2>1 DEF CallType
  <2>3. QED
    BY <1>1, <1>2, <2>2
<1>5. QED
  BY <1>3, <1>4

LEMMA BusyTask ==
  ASSUME NEW r \in TaskType
  PROVE  r # Idle /\ r.h \in Slots /\ r.f \in Slots /\ r.o \in Dirs
<1>1. r.kind \in {"read", "write"} /\ Idle.kind = "idle"
  BY DEF TaskType, CallType, Idle
<1>2. QED
  BY <1>1 DEF TaskType, CallType

(* A read or write as it begins.                                           *)
LEMMA CallIs ==
  ASSUME TableInv, obj \in [Dirs -> ObjType], NEW t \in Tasks, NEW h \in Slots,
         Usable(t, h), NEW kind \in {"read", "write"}, NEW at \in BOOLEAN,
         NEW off \in Sizes, NEW r, r = Call(kind, h, at, off, MaxSize), r.left > 0
  PROVE  /\ r \in TaskType /\ r.h = h /\ r.f = handle[h].fd
         /\ r.o = HandleToObject(h) /\ handle[h].use > 0
         /\ ~fd[handle[h].fd].isDir
         /\ inode[fd[handle[h].fd].inode].obj = HandleToObject(h)
<1> USE DEF TableInv
<1>1. /\ handle[h].use > 0 /\ HandleToFileDes(h) = handle[h].fd
      /\ handle[h].fd \in Slots /\ HandleToObject(h) \in Dirs
      /\ ~fd[handle[h].fd].isDir
      /\ inode[fd[handle[h].fd].inode].obj = HandleToObject(h)
  <2>1. handle[h].use \in Nat /\ handle[h].use # 0
    BY HandleLeads DEF Usable, TableType, HandleType
  <2>2. QED
    BY <2>1, HandleLeads DEF Usable
<1>2. PICK f, o : f = handle[h].fd /\ o = HandleToObject(h)
  OBVIOUS
<1>3. v[f] \in 0 .. MaxSize /\ obj[o].size \in 0 .. MaxSize /\ off \in 0 .. MaxSize
  BY <1>1, <1>2, SizesAssumption DEF PlaceInv, ObjType
<1>4. PICK start : start = IF kind = "write" /\ fd[f].mode.append THEN obj[o].size
                           ELSE IF at THEN off ELSE v[f]
  OBVIOUS
<1>5. start \in 0 .. MaxSize
  BY <1>3, <1>4
<1>6. PICK most : most = IF kind = "write" THEN MaxSize - start
                         ELSE obj[o].size - start
  OBVIOUS
<1>7. most \in Int /\ start + most <= MaxSize
  BY <1>3, <1>5, <1>6, SizesAssumption
<1>8. PICK left : left = IF MaxSize < most THEN MaxSize ELSE most
  OBVIOUS
<1>9. r = [kind |-> kind, h |-> h, f |-> f, at |-> at, pos |-> start,
           left |-> left, o |-> o]
  BY <1>1, <1>2, <1>4, <1>6, <1>8 DEF Call
<1>10. r.left = left /\ r.pos = start
  BY <1>9
<1>11. left \in 1 .. MaxSize /\ start + left <= MaxSize
  BY <1>5, <1>7, <1>8, <1>10, SizesAssumption
<1>12. r \in CallType
  BY <1>1, <1>2, <1>5, <1>9, <1>11 DEF CallType
<1>13. QED
  BY <1>1, <1>2, <1>9, <1>10, <1>11, <1>12 DEF TaskType

LEMMA BeginTables ==
  ASSUME TableInv, NEW t \in Tasks, NEW h \in Slots, task[t] = Idle,
         NEW r \in TaskType, r.h = h, r.f = handle[h].fd,
         r.o = HandleToObject(h), handle[h].use > 0, ~fd[handle[h].fd].isDir,
         inode[fd[handle[h].fd].inode].obj = HandleToObject(h),
         NEW ok, Begin(t, h, r, ok)
  PROVE  TableInv'
<1> USE DEF TableInv
<1>1. PICK r1 : r1 = Turned(r, r.o, ok)
  OBVIOUS
<1>2. /\ r1.h = h /\ r1.f = handle[h].fd /\ r1.at = r.at /\ r1.o = r.o
      /\ r1.pos \in 0 .. MaxSize
      /\ r1.left > 0 => r1 \in TaskType
  BY <1>1, TurnedIs
<1>3. UNCHANGED <<fd, inode, open>>
  BY DEF Begin
<1>4. CASE r1.left > 0
  <2>1. /\ handle' = [handle EXCEPT ![h].use = @ + 1]
        /\ task' = [task EXCEPT ![t] = r1] /\ v' = v
    BY <1>1, <1>4 DEF Begin
  <2>2. r1 \in TaskType /\ r1 # Idle
    BY <1>2, <1>4, BusyTask
  <2>3. CountInv'
    BY <1>2, <1>3, <2>1, <2>2, BegunCounts
  <2>4. handle[h].use \in Nat /\ handle[h].use + 1 \in Nat
    BY DEF TableType, HandleType
  <2>5. TableType'
    <3>1. handle' \in [Slots -> HandleType]
      BY <2>1, <2>4 DEF TableType, HandleType
    <3>2. QED
      BY <1>3, <2>1, <2>2, <3>1 DEF TableType
  <2>6. /\ \A g \in Slots : handle'[g].fd = handle[g].fd
        /\ \A g \in Slots : handle'[g].use = IF g = h THEN handle[g].use + 1
                                             ELSE handle[g].use
    BY <2>1 DEF TableType, HandleType
  <2>7. TaskInv'
    <3>1. ASSUME NEW u \in Tasks, task'[u] # Idle
          PROVE  \/ /\ handle'[task'[u].h].use > 0 /\ handle'[task'[u].h].fd = task'[u].f
                    /\ ~fd'[task'[u].f].isDir
                    /\ inode'[fd'[task'[u].f].inode].obj = task'[u].o
                 \/ handle'[task'[u].h].use = 0 /\ fd'[task'[u].f].count = 0
      <4>1. CASE u = t
        <5>1. task'[u] = r1
          BY <2>1, <4>1 DEF TableType
        <5>2. handle'[h].use > 0
          BY <2>4, <2>6
        <5>3. QED
          BY <1>2, <1>3, <2>6, <5>1, <5>2
      <4>2. CASE u # t
        <5>1. task'[u] = task[u]
          BY <2>1, <4>2 DEF TableType
        <5>2. task[u].h \in Slots
          BY <3>1, <5>1, BusyTask DEF TableType
        <5>3. task[u].h = h => handle'[task[u].h].use > 0
          BY <2>4, <2>6
        <5>4. CASE task[u].h = h
          BY <1>3, <2>6, <3>1, <5>1, <5>2, <5>3, <5>4 DEF TaskInv
        <5>5. CASE task[u].h # h
          BY <1>3, <2>6, <3>1, <5>1, <5>2, <5>5 DEF TaskInv
        <5>6. QED
          BY <5>4, <5>5
      <4>3. QED
        BY <4>1, <4>2
    <3>2. QED
      BY <3>1 DEF TaskInv
  <2>8. PlaceInv' /\ SharingKept'
    BY <1>3, <2>1 DEF PlaceInv, SharingKept
  <2>9. QED
    BY <2>3, <2>5, <2>7, <2>8
<1>5. CASE ~(r1.left > 0)
  <2>1. UNCHANGED <<handle, task>>
        /\ v' = IF TurnWorks(r, r.o, ok) THEN Moved(r1) ELSE v
    BY <1>1, <1>5 DEF Begin
  <2>2. v' \in [Slots -> (0 .. MaxSize) \cup Dscs]
    BY <1>2, <2>1 DEF Moved, TableType
  <2>3. \A f \in Slots : v'[f] = v[f] \/ v'[f] \in 0 .. MaxSize
    BY <1>2, <2>1 DEF Moved, TableType
  <2>4. CountInv'
    BY <1>3, <2>1, QuietCounts DEF Users
  <2>5. TableType' /\ PlaceInv' /\ TaskInv' /\ SharingKept'
    BY <1>3, <2>1, <2>2, <2>3 DEF TableType, PlaceInv, TaskInv, SharingKept
  <2>6. QED
    BY <2>4, <2>5
<1>6. QED
  BY <1>4, <1>5

LEMMA TurnTables ==
  ASSUME TableInv, NEW t \in Tasks, NextTurn(t)
  PROVE  TableInv'
<1> USE DEF TableInv
<1>1. PICK ok : LET r == task[t]
                    o == Looked(r)
                    r1 == Turned(r, o, ok)
                IN IF r1.left > 0
                   THEN /\ task' = [task EXCEPT ![t] = r1]
                        /\ UNCHANGED <<tables, scans>>
                   ELSE /\ task' = [task EXCEPT ![t] = Idle]
                        /\ PutHandle(r.h, Written(r, o, ok))
                        /\ Keep(Moved(r1))
  BY DEF NextTurn
<1>2. PICK r, r1 : r = task[t] /\ r1 = Turned(r, Looked(r), ok)
  OBVIOUS
<1>3. r # Idle /\ r \in TaskType /\ r.h \in Slots /\ r.f \in Slots
  BY <1>2, BusyTask DEF NextTurn, TableType
<1>4. /\ r1.h = r.h /\ r1.f = r.f /\ r1.at = r.at /\ r1.o = r.o
      /\ r1.pos \in 0 .. MaxSize
      /\ r1.left > 0 => r1 \in TaskType
  BY <1>2, <1>3, TurnedIs
<1>5. open' = open
  BY DEF NextTurn
<1>6. CASE r1.left > 0
  <2>1. task' = [task EXCEPT ![t] = r1] /\ UNCHANGED <<handle, fd, inode, v>>
    BY <1>1, <1>2, <1>6 DEF tables
  <2>2. r1 \in TaskType /\ r1 # Idle
    BY <1>4, <1>6, BusyTask
  <2>3. \A u \in Tasks : task'[u] = task[u] \/ (u = t /\ task'[u] = r1)
    BY <2>1 DEF TableType
  <2>4. TableType'
    BY <1>5, <2>1, <2>2 DEF TableType
  <2>5. \A h : Users(h)' = Users(h)
    <3>1. ASSUME NEW u \in Tasks, NEW h
          PROVE  (task'[u] # Idle /\ task'[u].h = h) <=> (task[u] # Idle /\ task[u].h = h)
      BY <1>2, <1>3, <1>4, <2>2, <2>3
    <3>2. QED
      BY <3>1 DEF Users
  <2>6. CountInv'
    BY <1>5, <2>1, <2>5, QuietCounts
  <2>7. TaskInv'
    <3>1. ASSUME NEW u \in Tasks, task'[u] # Idle
          PROVE  /\ task[u] # Idle /\ task'[u].h = task[u].h
                 /\ task'[u].f = task[u].f /\ task'[u].o = task[u].o
      BY <1>2, <1>3, <1>4, <2>3, <3>1
    <3>2. QED
      BY <2>1, <3>1 DEF TaskInv
  <2>8. PlaceInv' /\ SharingKept'
    BY <2>1 DEF PlaceInv, SharingKept
  <2>9. QED
    BY <2>4, <2>6, <2>7, <2>8
<1>7. CASE ~(r1.left > 0)
  <2>1. /\ task' = [task EXCEPT ![t] = Idle]
        /\ PutHandle(r.h, Written(r, Looked(r), ok)) /\ Keep(Moved(r1))
    BY <1>1, <1>2, <1>7
  <2>2. /\ Moved(r1) \in [Slots -> (0 .. MaxSize) \cup Dscs]
        /\ \A f \in Slots : ~fd[f].isDir => Moved(r1)[f] \in 0 .. MaxSize
    BY <1>4 DEF Moved, TableType, PlaceInv
  <2>3. /\ task' \in [Tasks -> TaskType \cup {Idle}] /\ task'[t] = Idle
        /\ \A u \in Tasks \ {t} : task'[u] = task[u]
    BY <2>1 DEF TableType
  <2>4. \A g \in Slots \ {r.h} : Users(g)' = Users(g)
    BY <1>2, <2>3 DEF Users
  <2>5. Users(r.h)' = Users(r.h) \ {t} /\ t \in Users(r.h)
    BY <1>2, <1>3, <2>3 DEF Users
  <2>6. Cardinality(Users(r.h)') = Cardinality(Users(r.h)) - 1
    BY <2>5, CountsFinite, CountDown
  <2>7. Holders(r.h)' = Holders(r.h) - 1
    <3>1. Cardinality(Users(r.h)) \in Nat
      BY CountsFinite
    <3>2. (IF open'[r.h] THEN 1 ELSE 0) = (IF open[r.h] THEN 1 ELSE 0)
      BY <1>5
    <3>3. (IF open[r.h] THEN 1 ELSE 0) \in Nat
      OBVIOUS
    <3>4. Holders(r.h)' = (IF open'[r.h] THEN 1 ELSE 0) + Cardinality(Users(r.h)')
      BY DEF Holders
    <3>5. QED
      BY <2>6, <3>1, <3>2, <3>3, <3>4 DEF Holders
  <2>8. handle[r.h].use = 0 => ~open[r.h]
    BY <1>3 DEF CountInv, HandleInv
  <2>9. open' \in [Slots -> BOOLEAN] /\ \A g \in Slots : open'[g] = open[g]
    BY <1>5 DEF TableType
  <2>10. \A u \in Tasks : task'[u] # Idle => task'[u] = task[u]
    BY <2>3
  <2>11. QED
    BY <1>3, <2>1, <2>2, <2>3, <2>4, <2>7, <2>8, <2>9, <2>10, PutTables
<1>8. QED
  BY <1>6, <1>7

LEMMA CloseTables ==
  ASSUME TableInv, NEW h \in Slots, Close(h)
  PROVE  TableInv'
<1> USE DEF TableInv
<1>1. /\ open[h] /\ PutHandle(h, obj) /\ Keep(v)
      /\ open' = [open EXCEPT ![h] = FALSE] /\ task' = task
  BY DEF Close
<1>2. \A g : Users(g)' = Users(g)
  BY <1>1 DEF Users
<1>3. /\ ~open'[h] /\ open' \in [Slots -> BOOLEAN]
      /\ \A g \in Slots \ {h} : open'[g] = open[g]
  BY <1>1 DEF TableType
<1>4. Holders(h)' = Holders(h) - 1
  <2>1. Cardinality(Users(h)') = Cardinality(Users(h)) /\ Cardinality(Users(h)) \in Nat
    BY <1>2, CountsFinite
  <2>2. Holders(h)' = 0 + Cardinality(Users(h)')
    BY <1>3 DEF Holders
  <2>3. Holders(h) = 1 + Cardinality(Users(h))
    BY <1>1 DEF Holders
  <2>4. QED
    BY <2>1, <2>2, <2>3
<1>5. v \in [Slots -> (0 .. MaxSize) \cup Dscs]
      /\ \A f \in Slots : ~fd[f].isDir => v[f] \in 0 .. MaxSize
  BY DEF TableType, PlaceInv
<1>6. task' \in [Tasks -> TaskType \cup {Idle}]
  BY <1>1 DEF TableType
<1>7. QED
  BY <1>1, <1>2, <1>3, <1>4, <1>5, <1>6, PutTables

LEMMA LseekTables ==
  ASSUME TableInv, NEW h \in Slots, NEW pos \in Sizes, Lseek(h, pos)
  PROVE  TableInv'
<1> USE DEF TableInv
<1>1. /\ v' = [v EXCEPT ![HandleToFileDes(h)] = pos]
      /\ UNCHANGED <<handle, fd, inode, open, task>>
  BY DEF Lseek
<1>2. pos \in 0 .. MaxSize
  BY SizesAssumption
<1>3. \A f \in Slots : v'[f] = v[f] \/ v'[f] \in 0 .. MaxSize
  BY <1>1, <1>2 DEF TableType
<1>4. CountInv'
  BY <1>1, QuietCounts DEF Users
<1>5. TableType' /\ PlaceInv' /\ TaskInv' /\ SharingKept'
  BY <1>1, <1>2, <1>3 DEF TableType, PlaceInv, TaskInv, SharingKept
<1>6. QED
  BY <1>4, <1>5

LEMMA BrokenTables ==
  ASSUME TableInv, BreakDeviceHandles, UNCHANGED task
  PROVE  TableInv'
<1> USE DEF TableInv
<1>1. 0 \in 0 .. MaxSize /\ 0 \in 0 .. NHandles /\ NoFd.count = 0 /\ NoFd.isDir = FALSE
  BY SizesAssumption DEF NoFd
<1>2. TableType'
  <2>1. NoFd \in FdType /\ [fd |-> 0, use |-> 0] \in HandleType
        /\ [obj |-> None, count |-> 0] \in InodeType
    BY <1>1 DEF NoFd, FdType, HandleType, InodeType
  <2>2. QED
    BY <1>1, <2>1 DEF BreakDeviceHandles, TableType
<1>3. \A f \in Slots : /\ fd'[f].count = 0 /\ ~fd'[f].isDir /\ v'[f] = 0
                       /\ handle'[f].use = 0
  BY <1>1 DEF BreakDeviceHandles
<1>4. PlaceInv' /\ SharingKept'
  BY <1>1, <1>3 DEF PlaceInv, SharingKept
<1>5. TaskInv'
  <2>1. ASSUME NEW t \in Tasks, task[t] # Idle
        PROVE  handle'[task[t].h].use = 0 /\ fd'[task[t].f].count = 0
    BY <1>3, <2>1, BusyTask DEF TableType
  <2>2. QED
    BY <2>1 DEF TaskInv
<1>6. QED
  BY <1>2, <1>4, <1>5, BrokenCounts

-----------------------------------------------------------------------------
(* The tree, and the searches in it.                                       *)

KidsAgree(s) ==
  \A dir \in Dirs, o \in Objs :
    o \in ToSet(s.kids[dir]) <=> s.obj[o].kind # "none" /\ s.obj[o].dir = dir

ScanAgree(s) ==
  \A d \in Dscs : s.dsc[d].inUse =>
    /\ s.dsc[d].next \in ToSet(s.kids[s.dsc[d].dir]) \cup {None}
    /\ From(s.kids[s.dsc[d].dir], s.dsc[d].next) = s.owed[d]

SameSearches(s, r) ==
  \A d \in Dscs : r.dsc[d].inUse = s.dsc[d].inUse /\ r.dsc[d].dir = s.dsc[d].dir

(* A search context in use, or about to return an entry, has a directory.  *)
LEMMA DscIs ==
  ASSUME NEW c \in DscType, c.inUse \/ c.next # None
  PROVE  c \in [inUse : {TRUE}, dir : Dirs, next : Objs \cup {None}]
<1>1. NoDsc.next = None /\ ~NoDsc.inUse
  BY Zenon DEF NoDsc
<1>2. c # NoDsc
  BY <1>1, Zenon
<1>3. QED
  BY <1>2 DEF DscType

LEMMA BehindType ==
  ASSUME NEW l \in Lists, NEW o
  PROVE  Behind(l, o) \in Objs \cup {None}
<1>1. DOMAIN l = 1 .. Len(l) /\ \A i \in 1 .. Len(l) : l[i] \in Objs
  BY DEF Lists
<1>2. CASE o \in ToSet(l)
  <2>1. Behind(l, o) \in ToSet(l) \cup {None}
    BY <1>2, FromBehind
  <2>2. QED
    BY <1>1, <2>1 DEF ToSet
<1>3. CASE o \notin ToSet(l)
  <2>1. SelectInSeq(l, LAMBDA x : x = o) = 0
    BY <1>1, <1>3 DEF SelectInSeq, ToSet
  <2>2. QED
    BY <2>1, Zenon DEF Behind
<1>4. QED
  BY <1>2, <1>3

LEMMA RemoveObjTree ==
  ASSUME NEW s \in TreeType, NEW o \in Objs, NEW r, r = RemoveObjFromDir(s, o)
  PROVE  /\ r \in TreeType /\ r.obj = s.obj /\ SameSearches(s, r)
         /\ \A dir \in Dirs : ToSet(r.kids[dir]) = ToSet(s.kids[dir]) \ {o}
         /\ \A d \in Dscs : r.dsc[d].next # o
         /\ ScanAgree(s) => ScanAgree(r)
<1>0. None \notin Objs /\ o # None
  BY DistinctAssumption DEF Dirs
<1>1. /\ s.obj \in [Dirs -> ObjType] /\ s.kids \in [Dirs -> Lists]
      /\ s.dsc \in [Dscs -> DscType] /\ s.owed \in [Dscs -> SUBSET Objs]
  BY DEF TreeType
<1>2. PICK k, c, w : /\ k = [dir \in Dirs |-> RemoveFirst(s.kids[dir], o)]
                     /\ c = RemoveObjectCallback(s, o)
                     /\ w = [d \in Dscs |-> s.owed[d] \ {o}]
  OBVIOUS
<1>3. r = [s EXCEPT !.kids = k, !.dsc = c, !.owed = w]
  BY <1>2 DEF RemoveObjFromDir
<1>4. r.obj = s.obj /\ r.kids = k /\ r.dsc = c /\ r.owed = w
  BY <1>3 DEF TreeType
<1>5. /\ k \in [Dirs -> Lists]
      /\ \A dir \in Dirs : /\ k[dir] = RemoveFirst(s.kids[dir], o)
                           /\ ToSet(k[dir]) = ToSet(s.kids[dir]) \ {o}
  BY <1>1, <1>2, RemoveFirstList
<1>6. ASSUME NEW d \in Dscs
      PROVE  /\ c[d] \in DscType /\ c[d].inUse = s.dsc[d].inUse
             /\ c[d].dir = s.dsc[d].dir /\ c[d].next # o
             /\ s.dsc[d].next # o => c[d].next = s.dsc[d].next
             /\ s.dsc[d].next = o => c[d].next = Behind(s.kids[s.dsc[d].dir], o)
  <2>1. CASE s.dsc[d].next # o
    <3>1. c[d] = s.dsc[d]
      BY <1>2, <2>1 DEF RemoveObjectCallback
    <3>2. QED
      BY <1>1, <2>1, <3>1
  <2>2. CASE s.dsc[d].next = o
    <3>1. PICK n : n = Behind(s.kids[s.dsc[d].dir], o)
      OBVIOUS
    <3>2. c[d] = [s.dsc[d] EXCEPT !.next = n]
      BY <1>2, <2>2, <3>1 DEF RemoveObjectCallback
    <3>3. s.dsc[d] \in [inUse : {TRUE}, dir : Dirs, next : Objs \cup {None}]
      BY <1>0, <1>1, <2>2, DscIs
    <3>4. n \in Objs \cup {None}
      BY <1>1, <3>1, <3>3, BehindType
    <3>5. n # o
      <4>1. PICK l : l = s.kids[s.dsc[d].dir] /\ l \in Lists
        BY <1>1, <3>3
      <4>2. CASE o \in ToSet(l)
        BY <1>0, <3>1, <4>1, <4>2, FromBehind
      <4>3. CASE o \notin ToSet(l)
        <5>1. SelectInSeq(l, LAMBDA x : x = o) = 0
          <6>1. ~ \E i \in 1 .. Len(l) : l[i] = o
            BY <4>1, <4>3 DEF ToSet, Lists
          <6>2. QED
            BY <6>1, Zenon DEF SelectInSeq
        <5>2. n = None
          BY <3>1, <4>1, <5>1, Zenon DEF Behind
        <5>3. QED
          BY <1>0, <5>2
      <4>4. QED
        BY <4>2, <4>3
    <3>6. QED
      BY <2>2, <3>1, <3>2, <3>3, <3>4, <3>5 DEF DscType
  <2>3. QED
    BY <2>1, <2>2
<1>7. r \in TreeType
  <2>1. c \in [Dscs -> DscType]
    BY <1>2, <1>6 DEF RemoveObjectCallback
  <2>2. w \in [Dscs -> SUBSET Objs]
    BY <1>1, <1>2
  <2>3. QED
    BY <1>1, <1>3, <1>5, <2>1, <2>2 DEF TreeType
<1>8. ASSUME ScanAgree(s), NEW d \in Dscs, c[d].inUse
      PROVE  /\ c[d].next \in ToSet(k[c[d].dir]) \cup {None}
             /\ From(k[c[d].dir], c[d].next) = w[d]
  <2>1. PICK dir, l, n : dir = s.dsc[d].dir /\ l = s.kids[dir] /\ n = s.dsc[d].next
    OBVIOUS
  <2>2. s.dsc[d].inUse /\ c[d].dir = dir
    BY <1>6, <1>8, <2>1
  <2>3. dir \in Dirs /\ l \in Lists
    <3>1. s.dsc[d] \in DscType
      BY <1>1
    <3>2. s.dsc[d] \in [inUse : {TRUE}, dir : Dirs, next : Objs \cup {None}]
      BY <2>2, <3>1, DscIs, Zenon
    <3>3. QED
      BY <1>1, <2>1, <3>2
  <2>4. n \in ToSet(l) \cup {None} /\ From(l, n) = s.owed[d]
    BY <1>8, <2>1, <2>2 DEF ScanAgree
  <2>5. k[dir] = RemoveFirst(l, o) /\ ToSet(k[dir]) = ToSet(l) \ {o}
    BY <1>5, <2>1, <2>3
  <2>6. w[d] = s.owed[d] \ {o}
    BY <1>2
  <2>7. CASE n # o
    <3>1. From(k[dir], n) = From(l, n) \ {o}
      BY <2>3, <2>4, <2>5, <2>7, FromRemove
    <3>2. QED
      BY <1>6, <2>1, <2>2, <2>4, <2>5, <2>6, <2>7, <3>1
  <2>8. CASE n = o
    <3>1. PICK m : m = Behind(l, o)
      OBVIOUS
    <3>2. o \in ToSet(l)
      BY <1>0, <2>4, <2>8
    <3>3. From(l, m) = From(l, o) \ {o} /\ m \in (ToSet(l) \ {o}) \cup {None}
      BY <2>3, <3>1, <3>2, FromBehind
    <3>4. m \in ToSet(l) \cup {None} /\ m # o
      BY <1>0, <3>3
    <3>5. From(k[dir], m) = From(l, m) \ {o}
      BY <2>3, <2>5, <3>4, FromRemove
    <3>6. c[d].next = m
      BY <1>6, <2>1, <2>8, <3>1
    <3>7. QED
      BY <2>2, <2>4, <2>5, <2>6, <2>8, <3>3, <3>5, <3>6
  <2>9. QED
    BY <2>7, <2>8
<1>9. QED
  BY <1>4, <1>5, <1>6, <1>7, <1>8 DEF SameSearches, ScanAgree

LEMMA AddObjTree ==
  ASSUME NEW s \in TreeType, KidsAgree(s), NEW o \in Objs, NEW dir \in Dirs,
         NEW name \in Names, s.obj[o].kind # "none",
         NEW r, r = AddObjToDir(s, dir, o, name)
  PROVE  /\ r \in TreeType /\ KidsAgree(r) /\ SameSearches(s, r)
         /\ \A x \in Dirs \ {o} : r.obj[x] = s.obj[x]
         /\ r.obj[o].kind = s.obj[o].kind /\ r.obj[o].inode = s.obj[o].inode
         /\ r.obj[o].dir = dir
         /\ ScanAgree(s) => ScanAgree(r)
<1>0. o \in Dirs
  BY DEF Dirs
<1>1. PICK q : q = RemoveObjFromDir(s, o)
  OBVIOUS
<1>2. /\ q \in TreeType /\ q.obj = s.obj /\ SameSearches(s, q)
      /\ \A e \in Dirs : ToSet(q.kids[e]) = ToSet(s.kids[e]) \ {o}
      /\ \A d \in Dscs : q.dsc[d].next # o
      /\ ScanAgree(s) => ScanAgree(q)
  BY <1>1, RemoveObjTree
<1>3. r = [q EXCEPT !.kids[dir] = <<o>> \o @,
                    !.obj[o].dir = dir, !.obj[o].name = name]
  BY <1>1 DEF AddObjToDir
<1>4. /\ q.obj \in [Dirs -> ObjType] /\ q.kids \in [Dirs -> Lists]
      /\ q.dsc \in [Dscs -> DscType] /\ q.owed \in [Dscs -> SUBSET Objs]
  BY <1>2 DEF TreeType
<1>5. /\ r.dsc = q.dsc /\ r.owed = q.owed
      /\ r.kids = [q.kids EXCEPT ![dir] = <<o>> \o @]
      /\ r.obj = [q.obj EXCEPT ![o].dir = dir, ![o].name = name]
  BY <1>2, <1>3 DEF TreeType
<1>6. /\ r.obj \in [Dirs -> ObjType] /\ \A x \in Dirs \ {o} : r.obj[x] = q.obj[x]
      /\ r.obj[o].kind = q.obj[o].kind /\ r.obj[o].inode = q.obj[o].inode
      /\ r.obj[o].dir = dir
  <2>1. q.obj[o] \in ObjType
    BY <1>0, <1>4
  <2>2. [[q.obj[o] EXCEPT !.dir = dir] EXCEPT !.name = name] \in ObjType
    BY <2>1 DEF ObjType
  <2>3. r.obj = [q.obj EXCEPT ![o] = [[q.obj[o] EXCEPT !.dir = dir] EXCEPT !.name = name]]
    BY <1>0, <1>4, <1>5
  <2>4. QED
    BY <1>0, <1>4, <2>1, <2>2, <2>3 DEF ObjType
<1>7. o \notin ToSet(q.kids[dir]) /\ q.kids[dir] \in Lists
  BY <1>2, <1>4
<1>8. /\ r.kids \in [Dirs -> Lists]
      /\ r.kids[dir] = <<o>> \o q.kids[dir]
      /\ ToSet(r.kids[dir]) = ToSet(q.kids[dir]) \cup {o}
      /\ \A e \in Dirs \ {dir} : r.kids[e] = q.kids[e]
  <2>1. <<o>> \o q.kids[dir] \in Lists
        /\ ToSet(<<o>> \o q.kids[dir]) = ToSet(q.kids[dir]) \cup {o}
    BY <1>7, PutFirstList
  <2>2. PICK l : l = <<o>> \o q.kids[dir]
    OBVIOUS
  <2>3. r.kids = [q.kids EXCEPT ![dir] = l]
    BY <1>5, <2>2
  <2>4. QED
    BY <1>4, <2>1, <2>2, <2>3
<1>9. r \in TreeType
  <2>1. r = [obj |-> r.obj, kids |-> r.kids, dsc |-> r.dsc, owed |-> r.owed]
    BY <1>2, <1>3 DEF TreeType
  <2>2. QED
    BY <1>4, <1>5, <1>6, <1>8, <2>1 DEF TreeType
<1>10. KidsAgree(r)
  <2>1. ASSUME NEW e \in Dirs, NEW x \in Objs
        PROVE  x \in ToSet(r.kids[e]) <=> r.obj[x].kind # "none" /\ r.obj[x].dir = e
    <3>1. x \in Dirs
      BY DEF Dirs
    <3>2. x \in ToSet(s.kids[e]) <=> s.obj[x].kind # "none" /\ s.obj[x].dir = e
      BY DEF KidsAgree
    <3>3. CASE x = o
      BY <1>2, <1>6, <1>8, <3>3
    <3>4. CASE x # o
      <4>1. r.obj[x] = s.obj[x]
        BY <1>2, <1>6, <3>1, <3>4
      <4>2. x \in ToSet(r.kids[e]) <=> x \in ToSet(q.kids[e])
        BY <1>8, <3>4
      <4>3. QED
        BY <1>2, <3>2, <3>4, <4>1, <4>2
    <3>5. QED
      BY <3>3, <3>4
  <2>2. QED
    BY <2>1 DEF KidsAgree
<1>11. ASSUME ScanAgree(s) PROVE ScanAgree(r)
  <2>1. ScanAgree(q)
    BY <1>2, <1>11
  <2>2. ASSUME NEW d \in Dscs, r.dsc[d].inUse
        PROVE  /\ r.dsc[d].next \in ToSet(r.kids[r.dsc[d].dir]) \cup {None}
               /\ From(r.kids[r.dsc[d].dir], r.dsc[d].next) = r.owed[d]
    <3>1. q.dsc[d].inUse /\ q.dsc[d] = r.dsc[d]
      BY <1>5, <2>2
    <3>2. /\ q.dsc[d].next \in ToSet(q.kids[q.dsc[d].dir]) \cup {None}
          /\ From(q.kids[q.dsc[d].dir], q.dsc[d].next) = q.owed[d]
          /\ q.dsc[d].next # o
      BY <1>2, <2>1, <3>1 DEF ScanAgree
    <3>3. q.dsc[d].dir \in Dirs
      <4>1. q.dsc[d] \in DscType
        BY <1>4
      <4>2. q.dsc[d] \in [inUse : {TRUE}, dir : Dirs, next : Objs \cup {None}]
        BY <3>1, <4>1, DscIs, Zenon
      <4>3. QED
        BY <4>2
    <3>4. CASE q.dsc[d].dir # dir
      BY <1>5, <1>8, <3>1, <3>2, <3>3, <3>4
    <3>5. CASE q.dsc[d].dir = dir
      <4>1. From(r.kids[dir], q.dsc[d].next) = From(q.kids[dir], q.dsc[d].next)
        BY <1>7, <1>8, <3>2, FromPutFirst
      <4>2. QED
        BY <1>5, <1>8, <3>1, <3>2, <3>5, <4>1
    <3>6. QED
      BY <3>4, <3>5
  <2>3. QED
    BY <2>2 DEF ScanAgree
<1>12. QED
  BY <1>2, <1>5, <1>6, <1>9, <1>10, <1>11 DEF SameSearches

LEMMA UnlinkTree ==
  ASSUME NEW s \in TreeType, KidsAgree(s), NEW o \in Objs,
         NEW r, r = UnlinkWorker(s, o)
  PROVE  /\ r \in TreeType /\ KidsAgree(r) /\ SameSearches(s, r)
         /\ \A x \in Dirs \ {o} : r.obj[x] = s.obj[x]
         /\ InUse(o) => /\ r.obj[o].kind = s.obj[o].kind
                        /\ r.obj[o].inode = s.obj[o].inode
         /\ ~InUse(o) => r.obj[o] = NoObj
         /\ ScanAgree(s) => ScanAgree(r)
<1>0. o \in Dirs /\ Unlinked \notin Dirs /\ None \notin Dirs
  BY DistinctAssumption DEF Dirs
<1>1. PICK q : q = RemoveObjFromDir(s, o)
  OBVIOUS
<1>2. /\ q \in TreeType /\ q.obj = s.obj /\ SameSearches(s, q)
      /\ \A e \in Dirs : ToSet(q.kids[e]) = ToSet(s.kids[e]) \ {o}
      /\ ScanAgree(s) => ScanAgree(q)
  BY <1>1, RemoveObjTree
<1>3. PICK n : n = IF InUse(o) THEN [q.obj[o] EXCEPT !.dir = Unlinked, !.name = None]
                   ELSE NoObj
  OBVIOUS
<1>4. r = [q EXCEPT !.obj[o] = n]
  BY <1>1, <1>3 DEF UnlinkWorker
<1>5. /\ q.obj \in [Dirs -> ObjType] /\ q.kids \in [Dirs -> Lists]
      /\ q.dsc \in [Dscs -> DscType] /\ q.owed \in [Dscs -> SUBSET Objs]
  BY <1>2 DEF TreeType
<1>6. /\ r.dsc = q.dsc /\ r.owed = q.owed /\ r.kids = q.kids
      /\ r.obj = [q.obj EXCEPT ![o] = n]
  BY <1>2, <1>4 DEF TreeType
<1>7. /\ n.kind = "none" \/ n.dir \notin Dirs
      /\ InUse(o) => n.kind = q.obj[o].kind /\ n.inode = q.obj[o].inode
      /\ ~InUse(o) => n = NoObj
  <2>1. q.obj[o] \in ObjType
    BY <1>0, <1>5
  <2>2. CASE InUse(o)
    BY <1>0, <1>3, <2>1, <2>2 DEF ObjType
  <2>3. CASE ~InUse(o)
    <3>1. n = NoObj
      BY <1>3, <2>3
    <3>2. NoObj \in ObjType /\ NoObj.kind = "none"
      BY SizesAssumption DEF ObjType, NoObj
    <3>3. QED
      BY <2>3, <3>1, <3>2
  <2>4. QED
    BY <2>2, <2>3
<1>8. n \in ObjType
  <2>1. q.obj[o] \in ObjType
    BY <1>0, <1>5
  <2>2. NoObj \in ObjType
    BY SizesAssumption DEF ObjType, NoObj
  <2>3. QED
    BY <1>3, <2>1, <2>2 DEF ObjType
<1>9. r.obj \in [Dirs -> ObjType] /\ r.obj[o] = n
      /\ \A x \in Dirs \ {o} : r.obj[x] = q.obj[x]
  BY <1>0, <1>5, <1>6, <1>8
<1>10. r \in TreeType
  <2>1. r = [obj |-> r.obj, kids |-> r.kids, dsc |-> r.dsc, owed |-> r.owed]
    BY <1>2, <1>4 DEF TreeType
  <2>2. QED
    BY <1>5, <1>6, <1>9, <2>1 DEF TreeType
<1>11. KidsAgree(r)
  <2>1. ASSUME NEW e \in Dirs, NEW x \in Objs
        PROVE  x \in ToSet(r.kids[e]) <=> r.obj[x].kind # "none" /\ r.obj[x].dir = e
    <3>1. x \in Dirs
      BY DEF Dirs
    <3>2. x \in ToSet(s.kids[e]) <=> s.obj[x].kind # "none" /\ s.obj[x].dir = e
      BY DEF KidsAgree
    <3>3. CASE x = o
      BY <1>2, <1>6, <1>7, <1>8, <1>9, <3>3
    <3>4. CASE x # o
      BY <1>2, <1>6, <1>9, <3>1, <3>2, <3>4
    <3>5. QED
      BY <3>3, <3>4
  <2>2. QED
    BY <2>1 DEF KidsAgree
<1>12. ScanAgree(q) => ScanAgree(r)
  BY <1>6 DEF ScanAgree
<1>13. QED
  BY <1>2, <1>6, <1>7, <1>9, <1>10, <1>11, <1>12 DEF SameSearches

-----------------------------------------------------------------------------
(* The tree and the tables together.                                       *)

TreeInv == CoreType /\ HookInv /\ KidsAgree(Tree)

(* A search is in a directory in memory; the context of a directory handle *)
(* is its own.                                                             *)
DirsInv ==
  \A d \in Dscs : dsc[d].inUse => mounted /\ obj[dsc[d].dir].kind = "dir"

OwnInv ==
  \A f \in Slots : fd[f].isDir =>
    /\ v[f] \in Dscs /\ dsc[v[f]].inUse
    /\ \A g \in Slots : v[g] = v[f] => f = g

ScanInv == DirsInv /\ OwnInv /\ ScanAgree(Tree)

Closed == "hanging" \notin Exposed /\ "seekdir" \notin Exposed

LEMMA CoreIs ==
  ASSUME CoreType
  PROVE  /\ obj \in [Dirs -> ObjType] /\ kids \in [Dirs -> Lists]
         /\ dsc \in [Dscs -> DscType] /\ owed \in [Dscs -> SUBSET Objs]
         /\ Tree \in TreeType /\ Tree.obj = obj /\ Tree.kids = kids
         /\ Tree.dsc = dsc /\ Tree.owed = owed
  BY DEF CoreType, Tree, TreeType

LEMMA BecomesIs ==
  ASSUME NEW s \in TreeType, Becomes(s)
  PROVE  Tree' = s
<1>1. s = [obj |-> s.obj, kids |-> s.kids, dsc |-> s.dsc, owed |-> s.owed]
  BY DEF TreeType
<1>2. QED
  BY <1>1 DEF Tree, Becomes

LEMMA NamedDirs ==
  Root \in Dirs /\ Root \notin Objs /\ Unlinked \notin Dirs /\ None \notin Dirs
  /\ None \notin Objs /\ None # Unlinked /\ Objs = Dirs \ {Root}
  BY DistinctAssumption DEF Dirs

(* A change of the tree under the tables as they are.                      *)
LEMMA TreeStep ==
  ASSUME TableType, TreeInv, NEW s \in TreeType, KidsAgree(s), Becomes(s),
         SameSearches(Tree, s), UNCHANGED <<mounted, read_only, tables>>,
         \A x \in Dirs : obj[x].inode # 0 /\ obj[x].kind # "none" =>
           s.obj[x].inode = obj[x].inode /\ s.obj[x].kind = obj[x].kind,
         \A x \in Objs : s.obj[x].dir = Unlinked => s.obj[x].inode # 0,
         s.obj[Root] = obj[Root]
  PROVE  /\ TreeInv'
         /\ ScanInv /\ ScanAgree(s)
            /\ (\A d \in Dscs : dsc[d].inUse => s.obj[dsc[d].dir].kind = "dir")
              => ScanInv'
<1>1. Tree' = s
  BY BecomesIs
<1>2. obj' = s.obj /\ kids' = s.kids /\ dsc' = s.dsc /\ owed' = s.owed
      /\ UNCHANGED <<handle, fd, inode, v>>
  BY DEF Becomes, tables
<1>3. CoreType'
  BY <1>1 DEF CoreType, TreeInv
<1>4. KidsAgree(Tree)'
  BY <1>1 DEF KidsAgree
<1>5. HookInv'
  <2>1. ASSUME NEW i \in Slots, inode[i].obj # None
        PROVE  /\ obj'[inode[i].obj].inode = i
               /\ mounted' /\ obj'[inode[i].obj].kind # "none"
    <3>1. inode[i].obj \in Dirs /\ i # 0
      BY <2>1, SizesAssumption DEF TableType, InodeType, Slots
    <3>2. obj[inode[i].obj].inode = i /\ mounted /\ obj[inode[i].obj].kind # "none"
      BY <2>1 DEF TreeInv, HookInv
    <3>3. QED
      BY <1>2, <3>1, <3>2
  <2>2. QED
    BY <1>2, <2>1 DEF TreeInv, HookInv
<1>6. ASSUME ScanInv, ScanAgree(s),
             \A d \in Dscs : dsc[d].inUse => s.obj[dsc[d].dir].kind = "dir"
      PROVE  ScanInv'
  <2>1. \A d \in Dscs : dsc'[d].inUse = dsc[d].inUse /\ dsc'[d].dir = dsc[d].dir
    BY <1>2 DEF SameSearches, Tree
  <2>2. DirsInv'
    <3>1. ASSUME NEW d \in Dscs, dsc'[d].inUse
          PROVE  mounted' /\ obj'[dsc'[d].dir].kind = "dir"
      <4>1. dsc[d].inUse
        BY <2>1, <3>1, Zenon
      <4>2. QED
        BY <1>2, <1>6, <2>1, <4>1 DEF ScanInv, DirsInv
    <3>2. QED
      BY <3>1 DEF DirsInv
  <2>3. OwnInv'
    <3>1. ASSUME NEW f \in Slots, fd[f].isDir
          PROVE  v[f] \in Dscs /\ dsc'[v[f]].inUse /\ \A g \in Slots : v[g] = v[f] => f = g
      <4>1. v[f] \in Dscs /\ dsc[v[f]].inUse /\ \A g \in Slots : v[g] = v[f] => f = g
        BY <1>6, <3>1 DEF ScanInv, OwnInv
      <4>2. dsc'[v[f]].inUse
        BY <2>1, <4>1, Zenon
      <4>3. QED
        BY <4>1, <4>2
    <3>2. QED
      BY <1>2, <3>1 DEF OwnInv
  <2>4. ScanAgree(Tree)'
    BY <1>1, <1>6 DEF ScanAgree
  <2>5. QED
    BY <2>2, <2>3, <2>4 DEF ScanInv
<1>7. QED
  BY <1>3, <1>4, <1>5, <1>6 DEF TreeInv

LEMMA FindIs ==
  ASSUME NEW dir, NEW name, NEW o, o = FindObject(dir, name), o # None
  PROVE  o \in Objs /\ mounted /\ obj[o].kind # "none" /\ dir \in Reached
<1>1. mounted /\ dir \in Reached /\ o = FindByName(dir, name)
  BY DEF FindObject
<1>2. PICK here : here = {x \in Objs : obj[x].kind # "none" /\ obj[x].dir = dir
                                       /\ obj[x].name = name}
  OBVIOUS
<1>3. here # {} /\ o \in here
  BY <1>1, <1>2 DEF FindByName
<1>4. QED
  BY <1>1, <1>2, <1>3

LEMMA DoUnlinkTree ==
  ASSUME TableType, TreeInv, NEW dir, NEW name, DoUnlink(dir, name)
  PROVE  TreeInv' /\ (Closed /\ ScanInv => ScanInv')
<1> USE NamedDirs
<1>1. PICK o, s : o = FindObject(dir, name) /\ s = UnlinkWorker(Tree, o)
  OBVIOUS
<1>2. /\ o # None /\ CanGo(o) /\ Becomes(s) /\ UNCHANGED <<mounted, read_only, tables>>
  BY <1>1 DEF DoUnlink
<1>3. o \in Objs /\ o \in Dirs /\ o # Root
  BY <1>1, <1>2, FindIs
<1>4. Tree \in TreeType /\ KidsAgree(Tree) /\ Tree.obj = obj
  BY CoreIs DEF TreeInv
<1>5. /\ s \in TreeType /\ KidsAgree(s) /\ SameSearches(Tree, s)
      /\ \A x \in Dirs \ {o} : s.obj[x] = obj[x]
      /\ InUse(o) => s.obj[o].kind = obj[o].kind /\ s.obj[o].inode = obj[o].inode
      /\ ~InUse(o) => s.obj[o] = NoObj
      /\ ScanAgree(Tree) => ScanAgree(s)
  BY <1>1, <1>3, <1>4, UnlinkTree
<1>6. \A x \in Dirs : obj[x].inode # 0 =>
        s.obj[x].inode = obj[x].inode /\ s.obj[x].kind = obj[x].kind
  BY <1>5 DEF InUse
<1>7. \A x \in Objs : s.obj[x].dir = Unlinked => s.obj[x].inode # 0
  <2>1. NoObj.dir = None
    BY DEF NoObj
  <2>2. QED
    BY <1>5, <2>1 DEF InUse, TreeInv, HookInv
<1>8. s.obj[Root] = obj[Root]
  BY <1>3, <1>5
<1>9. ASSUME Closed, ScanInv
      PROVE  \A d \in Dscs : dsc[d].inUse => s.obj[dsc[d].dir].kind = "dir"
  <2>1. ASSUME NEW d \in Dscs, dsc[d].inUse
        PROVE  s.obj[dsc[d].dir].kind = "dir"
    <3>1. dsc[d].dir # o
      BY <1>2, <1>9 DEF CanGo, Closed
    <3>2. dsc[d] \in [inUse : {TRUE}, dir : Dirs, next : Objs \cup {None}]
      <4>1. dsc[d] \in DscType
        BY CoreIs DEF TreeInv
      <4>2. QED
        BY <2>1, <4>1, DscIs, Zenon
    <3>3. QED
      BY <1>5, <1>9, <2>1, <3>1, <3>2 DEF ScanInv, DirsInv
  <2>2. QED
    BY <2>1
<1>10. Closed /\ ScanInv => ScanAgree(s)
  BY <1>5 DEF ScanInv
<1>11. QED
  BY <1>2, <1>5, <1>6, <1>7, <1>8, <1>9, <1>10, TreeStep

(* A search in use is in a directory, and funlink leaves its object in     *)
(* memory, for it is open.                                                 *)
LEMMA SearchedDir ==
  ASSUME TreeInv, NEW d \in Dscs, dsc[d].inUse
  PROVE  dsc[d].dir \in Dirs
<1>1. dsc[d] \in DscType
  BY CoreIs DEF TreeInv
<1>2. dsc[d] \in [inUse : {TRUE}, dir : Dirs, next : Objs \cup {None}]
  BY <1>1, DscIs, Zenon
<1>3. QED
  BY <1>2

LEMMA FunlinkTree ==
  ASSUME TableInv, TreeInv, NEW h \in Slots, Funlink(h)
  PROVE  TreeInv' /\ (ScanInv => ScanInv')
<1> USE NamedDirs
<1>1. PICK o, s : o = HandleToObject(h) /\ s = UnlinkWorker(Tree, o)
  OBVIOUS
<1>2. /\ o \notin {None, Root} /\ Becomes(s) /\ UNCHANGED <<mounted, read_only, tables>>
  BY <1>1 DEF Funlink
<1>3. o \in Objs /\ o \in Dirs /\ InUse(o)
  <2>1. handle[h].use \in Nat /\ handle[h].use # 0
    BY <1>1, <1>2, HandleLeads DEF TableInv, TableType, HandleType
  <2>2. o \in Dirs /\ HandleToInode(h) \in Slots /\ o = inode[HandleToInode(h)].obj
    BY <1>1, <2>1, HandleLeads DEF TableInv
  <2>3. obj[o].inode = HandleToInode(h)
    BY <1>2, <2>2 DEF TreeInv, HookInv
  <2>4. QED
    BY <1>2, <2>2, <2>3, SizesAssumption DEF InUse, Slots
<1>4. Tree \in TreeType /\ KidsAgree(Tree) /\ Tree.obj = obj
  BY CoreIs DEF TreeInv
<1>5. /\ s \in TreeType /\ KidsAgree(s) /\ SameSearches(Tree, s)
      /\ \A x \in Dirs \ {o} : s.obj[x] = obj[x]
      /\ s.obj[o].kind = obj[o].kind /\ s.obj[o].inode = obj[o].inode
      /\ ScanAgree(Tree) => ScanAgree(s)
  BY <1>1, <1>3, <1>4, UnlinkTree
<1>6. \A x \in Dirs : s.obj[x].inode = obj[x].inode /\ s.obj[x].kind = obj[x].kind
  BY <1>5
<1>7. \A x \in Objs : s.obj[x].dir = Unlinked => s.obj[x].inode # 0
  BY <1>3, <1>5 DEF InUse, TreeInv, HookInv
<1>8. s.obj[Root] = obj[Root]
  BY <1>3, <1>5
<1>9. ScanInv => \A d \in Dscs : dsc[d].inUse => s.obj[dsc[d].dir].kind = "dir"
  BY <1>6, SearchedDir DEF ScanInv, DirsInv
<1>10. ScanInv => ScanAgree(s)
  BY <1>5 DEF ScanInv
<1>11. QED
  BY <1>2, <1>5, <1>6, <1>7, <1>8, <1>9, <1>10, TreeStep DEF TableInv

LEMMA RenameTree ==
  ASSUME TableType, TreeInv, NEW dir \in Dirs, NEW name \in Names,
         NEW newdir \in Dirs, NEW newname \in Names,
         Rename(dir, name, newdir, newname)
  PROVE  TreeInv' /\ (Closed /\ ScanInv => ScanInv')
<1> USE NamedDirs
<1>1. PICK o, old, s : /\ o = FindObject(dir, name)
                       /\ old = FindObject(newdir, newname)
                       /\ s = Renamed(o, old, newdir, newname)
  OBVIOUS
<1>2. /\ o # None /\ Becomes(s) /\ UNCHANGED <<mounted, read_only, tables>>
      /\ old \notin {None, o} => CanGo(old)
  BY <1>1 DEF Rename
<1>3. o \in Objs /\ o \in Dirs /\ o # Root /\ obj[o].kind # "none"
  BY <1>1, <1>2, FindIs
<1>4. Tree \in TreeType /\ KidsAgree(Tree) /\ Tree.obj = obj
  BY CoreIs DEF TreeInv
<1>5. PICK m : m = AddObjToDir(Tree, newdir, o, newname)
  OBVIOUS
<1>6. /\ m \in TreeType /\ KidsAgree(m) /\ SameSearches(Tree, m)
      /\ \A x \in Dirs \ {o} : m.obj[x] = obj[x]
      /\ m.obj[o].kind = obj[o].kind /\ m.obj[o].inode = obj[o].inode
      /\ m.obj[o].dir = newdir
      /\ ScanAgree(Tree) => ScanAgree(m)
  BY <1>3, <1>4, <1>5, AddObjTree
<1>7. CASE old \in {None, o}
  <2>1. s = m
    BY <1>1, <1>5, <1>7 DEF Renamed
  <2>2. \A x \in Dirs : s.obj[x].inode = obj[x].inode /\ s.obj[x].kind = obj[x].kind
    BY <1>6, <2>1
  <2>3. \A x \in Objs : s.obj[x].dir = Unlinked => s.obj[x].inode # 0
    BY <1>6, <2>1 DEF TreeInv, HookInv
  <2>4. s.obj[Root] = obj[Root]
    BY <1>3, <1>6, <2>1
  <2>5. ScanInv => \A d \in Dscs : dsc[d].inUse => s.obj[dsc[d].dir].kind = "dir"
    BY <2>2, SearchedDir DEF ScanInv, DirsInv
  <2>6. ScanInv => ScanAgree(s)
    BY <1>6, <2>1 DEF ScanInv
  <2>7. QED
    BY <1>2, <1>6, <2>1, <2>2, <2>3, <2>4, <2>5, <2>6, TreeStep
<1>8. CASE old \notin {None, o}
  <2>1. old \in Objs /\ old \in Dirs /\ old # Root /\ old # o
    BY <1>1, <1>8, FindIs
  <2>2. PICK q : q = UnlinkWorker(m, old)
    OBVIOUS
  <2>3. /\ q \in TreeType /\ KidsAgree(q) /\ SameSearches(m, q)
        /\ \A x \in Dirs \ {old} : q.obj[x] = m.obj[x]
        /\ InUse(old) => /\ q.obj[old].kind = m.obj[old].kind
                         /\ q.obj[old].inode = m.obj[old].inode
        /\ ~InUse(old) => q.obj[old] = NoObj
        /\ ScanAgree(m) => ScanAgree(q)
    BY <1>6, <2>1, <2>2, UnlinkTree
  <2>4. s = AddObjToDir(q, newdir, o, newname)
    BY <1>1, <1>5, <1>8, <2>2 DEF Renamed
  <2>5. q.obj[o].kind # "none"
    BY <1>3, <1>6, <2>1, <2>3
  <2>6. /\ s \in TreeType /\ KidsAgree(s) /\ SameSearches(q, s)
        /\ \A x \in Dirs \ {o} : s.obj[x] = q.obj[x]
        /\ s.obj[o].kind = q.obj[o].kind /\ s.obj[o].inode = q.obj[o].inode
        /\ s.obj[o].dir = newdir
        /\ ScanAgree(q) => ScanAgree(s)
    BY <1>3, <2>3, <2>4, <2>5, AddObjTree
  <2>7. /\ \A x \in Dirs \ {o, old} : s.obj[x] = obj[x]
        /\ s.obj[o].kind = obj[o].kind /\ s.obj[o].inode = obj[o].inode
        /\ InUse(old) => s.obj[old].kind = obj[old].kind /\ s.obj[old].inode = obj[old].inode
        /\ ~InUse(old) => s.obj[old] = NoObj
    BY <1>3, <1>6, <2>1, <2>3, <2>6
  <2>8. SameSearches(Tree, s)
    BY <1>6, <2>3, <2>6 DEF SameSearches
  <2>9. \A x \in Dirs : obj[x].inode # 0 =>
          s.obj[x].inode = obj[x].inode /\ s.obj[x].kind = obj[x].kind
    BY <2>7 DEF InUse
  <2>10. \A x \in Objs : s.obj[x].dir = Unlinked => s.obj[x].inode # 0
    <3>1. NoObj.dir = None
      BY DEF NoObj
    <3>2. QED
      BY <2>6, <2>7, <3>1 DEF InUse, TreeInv, HookInv
  <2>11. s.obj[Root] = obj[Root]
    BY <1>3, <2>1, <2>7
  <2>12. ASSUME Closed, ScanInv, NEW d \in Dscs, dsc[d].inUse
         PROVE  s.obj[dsc[d].dir].kind = "dir"
    <3>1. dsc[d].dir # old
      BY <1>2, <1>8, <2>12 DEF CanGo, Closed
    <3>2. dsc[d].dir \in Dirs /\ obj[dsc[d].dir].kind = "dir"
      BY <2>12, SearchedDir DEF ScanInv, DirsInv
    <3>3. QED
      BY <2>7, <3>1, <3>2
  <2>13. ScanInv => ScanAgree(s)
    BY <1>6, <2>3, <2>6 DEF ScanInv
  <2>14. QED
    BY <1>2, <2>6, <2>8, <2>9, <2>10, <2>11, <2>12, <2>13, TreeStep
<1>9. QED
  BY <1>7, <1>8

(* An object made: it is in no directory yet.                              *)
LEMMA MakeTree ==
  ASSUME TreeInv, NEW o \in Objs, obj[o].kind = "none", NEW kind \in {"file", "dir"},
         NEW s, s = [Tree EXCEPT !.obj = Make(o, kind)]
  PROVE  /\ s \in TreeType /\ KidsAgree(s) /\ SameSearches(Tree, s)
         /\ \A x \in Dirs \ {o} : s.obj[x] = obj[x]
         /\ s.obj[o].kind = kind /\ s.obj[o].inode = 0
         /\ ScanAgree(Tree) => ScanAgree(s)
<1> USE NamedDirs
<1>1. PICK n : n = [NoObj EXCEPT !.kind = kind]
  OBVIOUS
<1>2. n \in ObjType /\ n.kind = kind /\ n.inode = 0 /\ n.dir = None
  BY <1>1, SizesAssumption DEF NoObj, ObjType
<1>3. Tree \in TreeType /\ obj \in [Dirs -> ObjType] /\ Tree.obj = obj
  BY CoreIs DEF TreeInv
<1>4. /\ s.obj = [obj EXCEPT ![o] = n] /\ s.kids = Tree.kids /\ s.dsc = Tree.dsc
      /\ s.owed = Tree.owed
  BY <1>1, <1>3 DEF Make, TreeType
<1>5. /\ s.obj \in [Dirs -> ObjType] /\ s.obj[o] = n
      /\ \A x \in Dirs \ {o} : s.obj[x] = obj[x]
  BY <1>2, <1>3, <1>4
<1>6. s \in TreeType
  BY <1>3, <1>4, <1>5 DEF TreeType
<1>7. KidsAgree(s)
  <2>1. ASSUME NEW e \in Dirs, NEW x \in Objs
        PROVE  x \in ToSet(s.kids[e]) <=> s.obj[x].kind # "none" /\ s.obj[x].dir = e
    <3>1. x \in ToSet(Tree.kids[e]) <=> obj[x].kind # "none" /\ obj[x].dir = e
      BY <1>3 DEF TreeInv, KidsAgree
    <3>2. CASE x = o
      BY <1>2, <1>4, <1>5, <3>1, <3>2
    <3>3. CASE x # o
      BY <1>4, <1>5, <3>1, <3>3
    <3>4. QED
      BY <3>2, <3>3
  <2>2. QED
    BY <2>1 DEF KidsAgree
<1>8. SameSearches(Tree, s) /\ (ScanAgree(Tree) => ScanAgree(s))
  BY <1>4 DEF SameSearches, ScanAgree
<1>9. QED
  BY <1>2, <1>5, <1>6, <1>7, <1>8

LEMMA MkdirTree ==
  ASSUME TableType, TreeInv, NEW name \in Names, Mkdir(name)
  PROVE  TreeInv' /\ (ScanInv => ScanInv')
<1> USE NamedDirs
<1>1. PICK o \in Objs : /\ obj[o].kind = "none"
                        /\ Becomes(AddObjToDir([Tree EXCEPT !.obj = Make(o, "dir")],
                                               Root, o, name))
  BY DEF Mkdir
<1>2. PICK q : q = [Tree EXCEPT !.obj = Make(o, "dir")]
  OBVIOUS
<1>0. PICK s : s = AddObjToDir(q, Root, o, name)
  OBVIOUS
<1>3. /\ q \in TreeType /\ KidsAgree(q) /\ SameSearches(Tree, q)
      /\ \A x \in Dirs \ {o} : q.obj[x] = obj[x]
      /\ q.obj[o].kind = "dir" /\ q.obj[o].inode = 0
      /\ ScanAgree(Tree) => ScanAgree(q)
  BY <1>1, <1>2, MakeTree
<1>4. /\ s \in TreeType /\ KidsAgree(s) /\ SameSearches(q, s)
      /\ \A x \in Dirs \ {o} : s.obj[x] = q.obj[x]
      /\ s.obj[o].kind = q.obj[o].kind /\ s.obj[o].dir = Root
      /\ ScanAgree(q) => ScanAgree(s)
  <2>1. q.obj[o].kind # "none" /\ Root \in Dirs
    BY <1>3
  <2>2. QED
    BY <1>0, <1>3, <2>1, AddObjTree
<1>5. Becomes(s) /\ UNCHANGED <<mounted, read_only, tables>>
  BY <1>0, <1>1, <1>2 DEF Mkdir
<1>6. SameSearches(Tree, s)
  BY <1>3, <1>4 DEF SameSearches
<1>7. \A x \in Dirs \ {o} : s.obj[x] = obj[x]
  BY <1>3, <1>4
<1>8. \A x \in Objs : s.obj[x].dir = Unlinked => s.obj[x].inode # 0
  BY <1>4, <1>7 DEF TreeInv, HookInv
<1>9. ScanInv => \A d \in Dscs : dsc[d].inUse => s.obj[dsc[d].dir].kind = "dir"
  BY <1>1, <1>7, SearchedDir DEF ScanInv, DirsInv
<1>10. ScanInv => ScanAgree(s)
  BY <1>3, <1>4 DEF ScanInv
<1>11. \A x \in Dirs : obj[x].inode # 0 /\ obj[x].kind # "none" =>
         s.obj[x].inode = obj[x].inode /\ s.obj[x].kind = obj[x].kind
  BY <1>1, <1>7
<1>12. s.obj[Root] = obj[Root]
  BY <1>7
<1>13. QED
  BY <1>4, <1>5, <1>6, <1>8, <1>9, <1>10, <1>11, <1>12, TreeStep

-----------------------------------------------------------------------------
(* Objects that keep their places; searches that end or go on.             *)

LEMMA QuietTree ==
  ASSUME TreeInv, mounted' = mounted, read_only' \in BOOLEAN, kids' = kids,
         obj' \in [Dirs -> ObjType],
         \A x \in Dirs : /\ obj'[x].kind = obj[x].kind /\ obj'[x].dir = obj[x].dir
                         /\ obj'[x].inode = obj[x].inode,
         TableType, \A i \in Slots : inode'[i].obj = inode[i].obj,
         dsc' \in [Dscs -> DscType], owed' \in [Dscs -> SUBSET Objs]
  PROVE  TreeInv'
<1> USE NamedDirs
<1>1. CoreType'
  BY CoreIs DEF TreeInv, CoreType, Tree, TreeType
<1>2. HookInv'
  <2>1. ASSUME NEW i \in Slots, inode'[i].obj # None
        PROVE  /\ obj'[inode'[i].obj].inode = i
               /\ mounted' /\ obj'[inode'[i].obj].kind # "none"
    <3>1. inode'[i].obj = inode[i].obj /\ inode[i].obj \in Dirs
      BY <2>1 DEF TableType, InodeType
    <3>2. QED
      BY <2>1, <3>1 DEF TreeInv, HookInv
  <2>2. QED
    BY <2>1 DEF TreeInv, HookInv
<1>3. KidsAgree(Tree)'
  <2>1. ASSUME NEW e \in Dirs, NEW x \in Objs
        PROVE  x \in ToSet(kids'[e]) <=> obj'[x].kind # "none" /\ obj'[x].dir = e
    BY DEF TreeInv, KidsAgree, Tree
  <2>2. QED
    BY <2>1 DEF KidsAgree, Tree
<1>4. QED
  BY <1>1, <1>2, <1>3 DEF TreeInv

LEMMA FewerScans ==
  ASSUME TreeInv, DirsInv, ScanAgree(Tree), mounted' = mounted, kids' = kids,
         \A d \in Dscs : dsc'[d].inUse =>
           /\ dsc[d].inUse /\ dsc'[d] = dsc[d] /\ owed'[d] = owed[d]
           /\ obj'[dsc[d].dir].kind = obj[dsc[d].dir].kind
  PROVE  DirsInv' /\ ScanAgree(Tree)'
<1>1. DirsInv'
  BY DEF DirsInv
<1>2. ASSUME NEW d \in Dscs, dsc'[d].inUse
      PROVE  /\ dsc'[d].next \in ToSet(kids'[dsc'[d].dir]) \cup {None}
             /\ From(kids'[dsc'[d].dir], dsc'[d].next) = owed'[d]
  BY <1>2 DEF ScanAgree, Tree
<1>3. ScanAgree(Tree)'
  BY <1>2 DEF ScanAgree, Tree
<1>4. QED
  BY <1>1, <1>3

LEMMA OwnKept ==
  ASSUME PlaceInv', OwnInv,
         \A f \in Slots : fd'[f].isDir =>
           fd[f].isDir /\ v'[f] = v[f] /\ dsc'[v[f]].inUse
  PROVE  OwnInv'
<1>1. ASSUME NEW f \in Slots, fd'[f].isDir
      PROVE  /\ v'[f] \in Dscs /\ dsc'[v'[f]].inUse
             /\ \A g \in Slots : v'[g] = v'[f] => f = g
  <2>1. fd[f].isDir /\ v'[f] = v[f] /\ dsc'[v[f]].inUse
    BY <1>1, Zenon
  <2>2. v[f] \in Dscs /\ \A g \in Slots : v[g] = v[f] => f = g
    BY <2>1, Zenon DEF OwnInv
  <2>3. ASSUME NEW g \in Slots, v'[g] = v'[f] PROVE f = g
    <3>1. CASE fd'[g].isDir
      BY <2>1, <2>2, <2>3, <3>1, Zenon
    <3>2. CASE ~fd'[g].isDir
      <4>1. v'[g] \in 0 .. MaxSize
        BY <3>2, Zenon DEF PlaceInv
      <4>2. QED
        BY <2>1, <2>2, <2>3, <4>1, DistinctAssumption
    <3>3. QED
      BY <3>1, <3>2
  <2>4. QED
    BY <2>1, <2>2, <2>3
<1>2. QED
  BY <1>1 DEF OwnInv

(* A step on the objects alone, or the positions of files.                 *)
LEMMA QuietScans ==
  ASSUME TableInv', TreeInv, ScanInv, UNCHANGED <<mounted, kids, dsc, owed>>,
         \A x \in Dirs : obj'[x].kind = obj[x].kind,
         \A f \in Slots : fd'[f].isDir => fd[f].isDir /\ v'[f] = v[f]
  PROVE  ScanInv'
<1>1. DirsInv' /\ ScanAgree(Tree)'
  BY FewerScans, SearchedDir DEF ScanInv
<1>2. OwnInv'
  BY OwnKept, Zenon DEF TableInv, ScanInv, OwnInv
<1>3. QED
  BY <1>1, <1>2 DEF ScanInv

LEMMA ResizedTree ==
  ASSUME TableInv, TableInv', TreeInv, NEW o \in Dirs, NEW new \in Sizes, Resized(o, new)
  PROVE  TreeInv' /\ (ScanInv => ScanInv')
<1>1. /\ obj' = [obj EXCEPT ![o].size = new]
      /\ UNCHANGED <<mounted, read_only, kids, handle, fd, inode, v, dsc, owed>>
  BY DEF Resized, tables, scans
<1>2. obj \in [Dirs -> ObjType] /\ dsc \in [Dscs -> DscType]
      /\ owed \in [Dscs -> SUBSET Objs] /\ new \in 0 .. MaxSize
  BY CoreIs, SizesAssumption DEF TreeInv
<1>3. obj' \in [Dirs -> ObjType]
      /\ \A x \in Dirs : /\ obj'[x].kind = obj[x].kind /\ obj'[x].dir = obj[x].dir
                         /\ obj'[x].inode = obj[x].inode
  BY <1>1, <1>2 DEF ObjType
<1>4. read_only' \in BOOLEAN
  BY <1>1 DEF TreeInv, CoreType
<1>5. TreeInv'
  BY <1>1, <1>2, <1>3, <1>4, QuietTree DEF TableInv
<1>6. ScanInv => ScanInv'
  BY <1>1, <1>3, QuietScans
<1>7. QED
  BY <1>5, <1>6

LEMMA SizeChanges ==
  ASSUME TableInv, TreeInv, NEW h \in Slots, NEW dir, NEW name, NEW new \in Sizes,
         Truncate(dir, name, new) \/ Ftruncate(h, new)
  PROVE  \E o \in Dirs : Resized(o, new)
<1>1. CASE Truncate(dir, name, new)
  BY <1>1, FindIs, NamedDirs DEF Truncate
<1>2. CASE Ftruncate(h, new)
  <2>1. HandleToObject(h) # None /\ Resized(HandleToObject(h), new)
    BY <1>2 DEF Ftruncate
  <2>2. handle[h].use \in Nat
    BY DEF TableInv, TableType, HandleType
  <2>3. HandleToObject(h) \in Dirs
    BY <2>1, <2>2, HandleLeads DEF TableInv
  <2>4. QED
    BY <2>1, <2>3
<1>3. QED
  BY <1>1, <1>2

(* What a turn of a read or write makes of the objects.                    *)
LEMMA WrittenIs ==
  ASSUME obj \in [Dirs -> ObjType], NEW r \in TaskType, NEW o \in Dirs \cup {None}, NEW ok
  PROVE  /\ Written(r, o, ok) \in [Dirs -> ObjType]
         /\ \A x \in Dirs : /\ Written(r, o, ok)[x].kind = obj[x].kind
                            /\ Written(r, o, ok)[x].dir = obj[x].dir
                            /\ Written(r, o, ok)[x].inode = obj[x].inode
<1>1. r.pos + 1 \in 0 .. MaxSize /\ r.pos \in 0 .. MaxSize
  BY SizesAssumption DEF TaskType, CallType
<1>2. CASE r.kind = "write" /\ TurnWorks(r, o, ok)
  <2>1. o \in Dirs
    BY <1>2 DEF TurnWorks
  <2>2. PICK n : n = IF obj[o].size > r.pos THEN obj[o].size ELSE r.pos + 1
    OBVIOUS
  <2>3. n \in 0 .. MaxSize
    BY <1>1, <2>1, <2>2 DEF ObjType
  <2>4. Written(r, o, ok) = [obj EXCEPT ![o].size = n]
    BY <1>2, <2>1, <2>2 DEF Written
  <2>5. QED
    BY <2>1, <2>3, <2>4 DEF ObjType
<1>3. CASE ~(r.kind = "write" /\ TurnWorks(r, o, ok))
  BY <1>3 DEF Written
<1>4. QED
  BY <1>2, <1>3

LEMMA BeginTree ==
  ASSUME TableInv, TableInv', TreeInv, NEW t \in Tasks, NEW h \in Slots,
         NEW r \in TaskType, r.f = handle[h].fd, ~fd[handle[h].fd].isDir,
         NEW ok, Begin(t, h, r, ok)
  PROVE  TreeInv' /\ (ScanInv => ScanInv')
<1>1. /\ obj' = Written(r, r.o, ok)
      /\ UNCHANGED <<mounted, read_only, kids, fd, inode, dsc, owed>>
  BY DEF Begin, scans
<1>2. r.o \in Dirs /\ r.f \in Slots
  BY BusyTask
<1>3. obj \in [Dirs -> ObjType] /\ dsc \in [Dscs -> DscType]
      /\ owed \in [Dscs -> SUBSET Objs]
  BY CoreIs DEF TreeInv
<1>4. obj' \in [Dirs -> ObjType]
      /\ \A x \in Dirs : /\ obj'[x].kind = obj[x].kind /\ obj'[x].dir = obj[x].dir
                         /\ obj'[x].inode = obj[x].inode
  BY <1>1, <1>2, <1>3, WrittenIs
<1>5. read_only' \in BOOLEAN
  BY <1>1 DEF TreeInv, CoreType
<1>6. TreeInv'
  BY <1>1, <1>3, <1>4, <1>5, QuietTree DEF TableInv
<1>7. \A f \in Slots : f # r.f => v'[f] = v[f]
  <2>1. PICK r1 : r1 = Turned(r, r.o, ok)
    OBVIOUS
  <2>2. r1.f = r.f
    BY <2>1, TurnedIs
  <2>3. v' = v \/ v' = Moved(r1)
    BY <2>1 DEF Begin
  <2>4. v \in [Slots -> (0 .. MaxSize) \cup Dscs]
    BY DEF TableInv, TableType
  <2>5. QED
    BY <2>2, <2>3, <2>4 DEF Moved
<1>8. \A f \in Slots : fd'[f].isDir => fd[f].isDir /\ v'[f] = v[f]
  BY <1>1, <1>7, Zenon
<1>9. ScanInv => ScanInv'
  BY <1>1, <1>4, <1>8, QuietScans
<1>10. QED
  BY <1>6, <1>9

(* The end of a handle, as the call leaves the objects (ob).               *)
LEMMA PutTree ==
  ASSUME TableInv, TreeInv, NEW h \in Slots, NEW ob \in [Dirs -> ObjType],
         \A x \in Dirs : /\ ob[x].kind = obj[x].kind /\ ob[x].dir = obj[x].dir
                         /\ ob[x].inode = obj[x].inode,
         PutHandle(h, ob), UNCHANGED <<mounted, read_only, kids>>
  PROVE  /\ TreeInv'
         /\ Closed /\ ScanInv =>
              /\ DirsInv' /\ ScanAgree(Tree)'
              /\ \A f \in Slots : fd'[f].isDir => fd[f].isDir /\ dsc'[v[f]].inUse
<1> USE NamedDirs DEF TableInv
<1>1. /\ obj \in [Dirs -> ObjType] /\ dsc \in [Dscs -> DscType]
      /\ owed \in [Dscs -> SUBSET Objs] /\ read_only' \in BOOLEAN
  BY CoreIs DEF TreeInv, CoreType
<1>2. handle[h].use \in Nat
  BY DEF TableType, HandleType
<1>3. ASSUME obj' = ob, UNCHANGED <<inode, dsc, owed>>,
             \A f \in Slots : fd'[f].isDir = fd[f].isDir
      PROVE  /\ TreeInv'
             /\ ScanInv => /\ DirsInv' /\ ScanAgree(Tree)'
                           /\ \A f \in Slots : fd'[f].isDir =>
                                fd[f].isDir /\ dsc'[v[f]].inUse
  <2>1. TreeInv'
    BY <1>1, <1>3, QuietTree
  <2>2. ScanInv => DirsInv' /\ ScanAgree(Tree)'
    BY <1>3, FewerScans, SearchedDir DEF ScanInv
  <2>3. ScanInv => \A f \in Slots : fd'[f].isDir => fd[f].isDir /\ dsc'[v[f]].inUse
    BY <1>3, Zenon DEF ScanInv, OwnInv
  <2>4. QED
    BY <2>1, <2>2, <2>3
<1>4. CASE handle[h].use # 1
  <2>1. obj' = ob /\ UNCHANGED <<fd, inode, dsc, owed>>
    BY <1>2, <1>4, PutHandleWays DEF scans
  <2>2. QED
    BY <1>3, <2>1
<1>5. CASE handle[h].use = 1
  <2>1. PICK f : f = handle[h].fd
    OBVIOUS
  <2>2. PutFileDes(f, ob)
    BY <1>2, <1>5, <2>1, PutHandleWays
  <2>3. f \in Slots /\ fd[f].inode \in Slots /\ inode[fd[f].inode].obj \in Dirs
    BY <1>5, <2>1, HandleLeads
  <2>4. CASE fd[f].count > 1
    <3>1. fd' = [fd EXCEPT ![f].count = @ - 1] /\ obj' = ob /\ UNCHANGED <<inode, dsc, owed>>
      BY <2>2, <2>4 DEF PutFileDes, scans
    <3>2. \A g \in Slots : fd'[g].isDir = fd[g].isDir
      BY <3>1 DEF TableType, FdType
    <3>3. QED
      BY <1>3, <3>1, <3>2
  <2>5. CASE ~(fd[f].count > 1)
    <3>1. /\ fd' = [fd EXCEPT ![f] = NoFd] /\ PutInode(f, ob)
          /\ IF fd[f].isDir
             THEN /\ dsc' = [dsc EXCEPT ![v[f]] = NoDsc]
                  /\ owed' = [owed EXCEPT ![v[f]] = {}]
             ELSE UNCHANGED <<dsc, owed>>
      BY <2>2, <2>5 DEF PutFileDes, scans
    <3>2. dsc' \in [Dscs -> DscType] /\ owed' \in [Dscs -> SUBSET Objs]
      <4>1. NoDsc \in DscType
        BY DEF DscType
      <4>2. QED
        BY <1>1, <3>1, <4>1
    <3>3. ~fd'[f].isDir /\ \A g \in Slots \ {f} : fd'[g] = fd[g]
      BY <2>3, <3>1 DEF NoFd, TableType
    <3>4. \A d \in Dscs : ~(fd[f].isDir /\ d = v[f]) => dsc'[d] = dsc[d] /\ owed'[d] = owed[d]
      BY <1>1, <3>1
    <3>5. fd[f].isDir /\ v[f] \in Dscs => ~dsc'[v[f]].inUse
      <4>1. ~NoDsc.inUse
        BY DEF NoDsc
      <4>2. QED
        BY <1>1, <3>1, <4>1
    <3>6. PICK i, o : i = fd[f].inode /\ o = inode[i].obj
      OBVIOUS
    <3>7. i \in Slots /\ o \in Dirs
      BY <2>3, <3>6
    <3>8. ASSUME Closed, ScanInv, NEW g \in Slots, fd'[g].isDir
          PROVE  fd[g].isDir /\ dsc'[v[g]].inUse
      <4>1. g # f /\ fd[g].isDir
        BY <3>3, <3>8
      <4>2. v[g] \in Dscs /\ dsc[v[g]].inUse /\ \A e \in Slots : v[e] = v[g] => g = e
        BY <3>8, <4>1 DEF ScanInv, OwnInv
      <4>3. v[g] # v[f]
        BY <2>3, <4>1, <4>2
      <4>4. dsc'[v[g]] = dsc[v[g]]
        BY <3>4, <4>2, <4>3
      <4>5. QED
        BY <4>1, <4>2, <4>4, Zenon
    <3>9. ASSUME NEW d \in Dscs, dsc'[d].inUse
          PROVE  dsc[d].inUse /\ dsc'[d] = dsc[d] /\ owed'[d] = owed[d]
      <4>1. ~(fd[f].isDir /\ d = v[f])
        BY <3>5, <3>9
      <4>2. dsc'[d] = dsc[d] /\ owed'[d] = owed[d]
        BY <3>4, <4>1
      <4>3. QED
        BY <3>9, <4>2, Zenon
    <3>10. CASE inode[i].count > 1
      <4>1. inode' = [inode EXCEPT ![i].count = @ - 1] /\ obj' = ob
        BY <3>1, <3>6, <3>10 DEF PutInode
      <4>2. \A j \in Slots : inode'[j].obj = inode[j].obj
        BY <4>1 DEF TableType, InodeType
      <4>3. TreeInv'
        BY <1>1, <3>2, <4>1, <4>2, QuietTree
      <4>4. ASSUME Closed, ScanInv PROVE DirsInv' /\ ScanAgree(Tree)'
        BY <3>9, <4>1, <4>4, FewerScans, SearchedDir DEF ScanInv
      <4>5. QED
        BY <3>8, <4>3, <4>4
    <3>11. CASE ~(inode[i].count > 1)
      <4>1. PICK n : n = IF FreedWith(o) THEN NoObj ELSE [ob[o] EXCEPT !.inode = 0]
        OBVIOUS
      <4>2. /\ inode' = [inode EXCEPT ![i] = [obj |-> None, count |-> 0]]
            /\ obj' = [ob EXCEPT ![o] = n]
            /\ "hanging" \notin Exposed /\ FreedWith(o) =>
                 \A d \in Dscs : dsc[d].dir = o => v[f] = d
        BY <3>1, <3>6, <3>7, <3>11, <4>1 DEF PutInode
      <4>3. n \in ObjType
        <5>1. NoObj \in ObjType /\ ob[o] \in ObjType
          BY <3>7, SizesAssumption DEF ObjType, NoObj
        <5>2. QED
          BY <4>1, <5>1, SizesAssumption DEF ObjType
      <4>4. obj' \in [Dirs -> ObjType] /\ obj'[o] = n /\ \A x \in Dirs \ {o} : obj'[x] = ob[x]
        BY <3>7, <4>2, <4>3
      <4>5. /\ FreedWith(o) => obj[o].dir = Unlinked /\ n = NoObj
            /\ ~FreedWith(o) => obj[o].dir # Unlinked /\ n.kind = obj[o].kind /\ n.dir = obj[o].dir
        <5>1. ob[o] \in ObjType
          BY <3>7
        <5>2. QED
          BY <3>7, <4>1, <5>1 DEF FreedWith, ObjType
      <4>6. NoObj.kind = "none" /\ NoObj.dir = None
        BY DEF NoObj
      <4>7. CoreType'
        BY <1>1, <3>2, <4>4, CoreIs DEF TreeInv, CoreType, Tree, TreeType
      <4>8. KidsAgree(Tree)'
        <5>1. ASSUME NEW e \in Dirs, NEW x \in Objs
              PROVE  x \in ToSet(kids'[e]) <=> obj'[x].kind # "none" /\ obj'[x].dir = e
          <6>1. x \in ToSet(kids[e]) <=> obj[x].kind # "none" /\ obj[x].dir = e
            BY DEF TreeInv, KidsAgree, Tree
          <6>2. CASE x = o
            BY <4>4, <4>5, <4>6, <6>1, <6>2
          <6>3. CASE x # o
            BY <4>4, <6>1, <6>3
          <6>4. QED
            BY <6>2, <6>3
        <5>2. QED
          BY <5>1 DEF KidsAgree, Tree
      <4>9. HookInv'
        <5>1. obj[o].inode = i
          BY <3>6, <3>7 DEF TreeInv, HookInv
        <5>2. ASSUME NEW j \in Slots, inode'[j].obj # None
              PROVE  /\ obj'[inode'[j].obj].inode = j
                     /\ mounted' /\ obj'[inode'[j].obj].kind # "none"
          <6>1. j # i /\ inode'[j] = inode[j] /\ inode[j].obj \in Dirs
            BY <3>7, <4>2, <5>2 DEF TableType, InodeType
          <6>2. obj[inode[j].obj].inode = j /\ mounted /\ obj[inode[j].obj].kind # "none"
            BY <5>2, <6>1 DEF TreeInv, HookInv
          <6>3. inode[j].obj # o
            BY <5>1, <6>1, <6>2
          <6>4. QED
            BY <4>4, <6>1, <6>2, <6>3
        <5>3. ASSUME NEW x \in Objs, obj'[x].dir = Unlinked PROVE obj'[x].inode # 0
          <6>1. x # o
            BY <4>4, <4>5, <4>6, <5>3
          <6>2. obj'[x] = ob[x] /\ obj[x].dir = Unlinked
            BY <4>4, <5>3, <6>1
          <6>3. QED
            BY <6>2 DEF TreeInv, HookInv
        <5>4. obj'[Root].kind = "dir" /\ obj'[Root].dir = None
          BY <4>4, <4>5 DEF TreeInv, HookInv
        <5>5. QED
          BY <5>2, <5>3, <5>4 DEF HookInv
      <4>10. ASSUME Closed, ScanInv, NEW d \in Dscs, dsc'[d].inUse
             PROVE  obj'[dsc[d].dir].kind = obj[dsc[d].dir].kind
        <5>1. dsc[d].inUse /\ dsc[d].dir \in Dirs
          BY <3>9, <4>10, SearchedDir
        <5>2. CASE dsc[d].dir # o
          BY <4>4, <5>1, <5>2
        <5>3. CASE dsc[d].dir = o
          <6>1. CASE ~FreedWith(o)
            BY <4>4, <4>5, <5>3, <6>1
          <6>2. CASE FreedWith(o)
            <7>1. v[f] = d
              BY <4>2, <4>10, <5>3, <6>2 DEF Closed
            <7>2. fd[f].isDir
              <8>1. ~fd[f].isDir => v[f] \in 0 .. MaxSize
                BY <2>3 DEF PlaceInv
              <8>2. QED
                BY <7>1, <8>1, DistinctAssumption
            <7>3. QED
              BY <3>5, <4>10, <7>1, <7>2
          <6>3. QED
            BY <6>1, <6>2
        <5>4. QED
          BY <5>2, <5>3
      <4>11. ASSUME Closed, ScanInv PROVE DirsInv' /\ ScanAgree(Tree)'
        BY <3>9, <4>10, <4>11, FewerScans DEF ScanInv
      <4>12. QED
        BY <3>8, <4>7, <4>8, <4>9, <4>11 DEF TreeInv
    <3>12. QED
      BY <3>10, <3>11
  <2>6. QED
    BY <2>4, <2>5
<1>6. QED
  BY <1>4, <1>5

LEMMA CloseTree ==
  ASSUME TableInv, TableInv', TreeInv, NEW h \in Slots, Close(h)
  PROVE  TreeInv' /\ (Closed /\ ScanInv => ScanInv')
<1>1. PutHandle(h, obj) /\ Keep(v) /\ UNCHANGED <<mounted, read_only, kids>>
  BY DEF Close
<1>2. obj \in [Dirs -> ObjType]
  BY CoreIs DEF TreeInv
<1>3. /\ TreeInv'
      /\ Closed /\ ScanInv =>
           /\ DirsInv' /\ ScanAgree(Tree)'
           /\ \A f \in Slots : fd'[f].isDir => fd[f].isDir /\ dsc'[v[f]].inUse
  BY <1>1, <1>2, PutTree
<1>4. PlaceInv'
  BY DEF TableInv
<1>5. \A f \in Slots : fd'[f].isDir => v'[f] = v[f]
  BY <1>1, <1>4 DEF Keep, PlaceInv
<1>6. ASSUME Closed, ScanInv PROVE OwnInv'
  BY <1>3, <1>4, <1>5, <1>6, OwnKept, Zenon DEF ScanInv
<1>7. QED
  BY <1>3, <1>6 DEF ScanInv

LEMMA TurnTree ==
  ASSUME TableInv, TableInv', TreeInv, NEW t \in Tasks, NextTurn(t)
  PROVE  TreeInv' /\ (Closed /\ ScanInv => ScanInv')
<1>1. PICK ok : LET r == task[t]
                    o == Looked(r)
                    r1 == Turned(r, o, ok)
                IN IF r1.left > 0
                   THEN /\ obj' = Written(r, o, ok)
                        /\ UNCHANGED <<tables, scans>>
                   ELSE /\ PutHandle(r.h, Written(r, o, ok))
                        /\ Keep(Moved(r1))
  BY DEF NextTurn
<1>2. PICK r, o, r1 : r = task[t] /\ o = Looked(r) /\ r1 = Turned(r, o, ok)
  OBVIOUS
<1>3. r # Idle /\ r \in TaskType /\ r.h \in Slots /\ r.f \in Slots
  BY <1>2, BusyTask DEF NextTurn, TableInv, TableType
<1>4. UNCHANGED <<mounted, read_only, kids>>
  BY DEF NextTurn
<1>5. o \in Dirs \cup {None}
  <2>1. handle[r.h].use \in Nat
    BY <1>3 DEF TableInv, TableType, HandleType
  <2>2. QED
    BY <1>2, <1>3, <2>1, HandleLeads DEF Looked, TableInv
<1>6. /\ obj \in [Dirs -> ObjType] /\ dsc \in [Dscs -> DscType]
      /\ owed \in [Dscs -> SUBSET Objs]
  BY CoreIs DEF TreeInv
<1>7. PICK ob : ob = Written(r, o, ok)
  OBVIOUS
<1>8. /\ ob \in [Dirs -> ObjType]
      /\ \A x \in Dirs : /\ ob[x].kind = obj[x].kind /\ ob[x].dir = obj[x].dir
                         /\ ob[x].inode = obj[x].inode
  BY <1>3, <1>5, <1>6, <1>7, WrittenIs
<1>9. CASE r1.left > 0
  <2>1. obj' = ob /\ UNCHANGED <<handle, fd, inode, v, dsc, owed>>
    BY <1>1, <1>2, <1>7, <1>9 DEF tables, scans
  <2>2. read_only' \in BOOLEAN
    BY <1>4 DEF TreeInv, CoreType
  <2>3. TreeInv'
    BY <1>4, <1>6, <1>8, <2>1, <2>2, QuietTree DEF TableInv
  <2>4. ScanInv => ScanInv'
    BY <1>4, <1>8, <2>1, QuietScans
  <2>5. QED
    BY <2>3, <2>4
<1>10. CASE ~(r1.left > 0)
  <2>1. PutHandle(r.h, ob) /\ Keep(Moved(r1))
    BY <1>1, <1>2, <1>7, <1>10
  <2>2. /\ TreeInv'
        /\ Closed /\ ScanInv =>
             /\ DirsInv' /\ ScanAgree(Tree)'
             /\ \A f \in Slots : fd'[f].isDir => fd[f].isDir /\ dsc'[v[f]].inUse
    BY <1>3, <1>4, <1>8, <2>1, PutTree
  <2>3. r1.f = r.f
    BY <1>2, <1>3, TurnedIs
  <2>4. \A f \in Slots : f # r.f => Moved(r1)[f] = v[f]
    BY <2>3 DEF Moved, TableInv, TableType
  <2>5. ~fd[r.f].isDir
    <3>1. fd[r.f].count = 0 => ~fd[r.f].isDir
      BY <1>3 DEF TableInv, PlaceInv
    <3>2. QED
      BY <1>2, <1>3, <3>1 DEF TableInv, TaskInv
  <2>6. PlaceInv'
    BY DEF TableInv
  <2>7. ASSUME Closed, ScanInv PROVE OwnInv'
    <3>1. \A f \in Slots : fd'[f].isDir => fd[f].isDir /\ dsc'[v[f]].inUse
      BY <2>2, <2>7, Zenon
    <3>2. \A f \in Slots : fd'[f].isDir => v'[f] = Moved(r1)[f]
      BY <2>1, <2>6 DEF Keep, PlaceInv
    <3>3. \A f \in Slots : fd'[f].isDir => v'[f] = v[f]
      BY <2>4, <2>5, <3>1, <3>2, Zenon
    <3>4. QED
      BY <2>6, <2>7, <3>1, <3>3, OwnKept, Zenon DEF ScanInv
  <2>8. QED
    BY <2>2, <2>7 DEF ScanInv
<1>11. QED
  BY <1>9, <1>10

LEMMA DupTree ==
  ASSUME TableInv, TableInv', TreeInv, NEW h \in Slots, Dup(h)
  PROVE  TreeInv' /\ (ScanInv => ScanInv')
<1>1. /\ fd' = [fd EXCEPT ![HandleToFileDes(h)].count = @ + 1]
      /\ UNCHANGED <<mounted, read_only, obj, kids, inode, v, dsc, owed>>
  BY DEF Dup, core, scans
<1>2. \A f \in Slots : fd'[f].isDir = fd[f].isDir
  BY <1>1 DEF TableInv, TableType, FdType
<1>3. /\ obj' \in [Dirs -> ObjType] /\ dsc' \in [Dscs -> DscType]
      /\ owed' \in [Dscs -> SUBSET Objs] /\ read_only' \in BOOLEAN
  BY <1>1, CoreIs DEF TreeInv, CoreType
<1>4. TreeInv'
  BY <1>1, <1>3, QuietTree DEF TableInv
<1>5. \A f \in Slots : fd'[f].isDir => fd[f].isDir /\ v'[f] = v[f]
  BY <1>1, <1>2, Zenon
<1>6. ScanInv => ScanInv'
  BY <1>1, <1>5, QuietScans
<1>7. QED
  BY <1>4, <1>6

LEMMA LseekTree ==
  ASSUME TableInv, TableInv', TreeInv, NEW h \in Slots, NEW pos \in Sizes, Lseek(h, pos)
  PROVE  TreeInv' /\ (Closed /\ ScanInv => ScanInv')
<1>1. /\ fd[HandleToFileDes(h)].isDir => "seekdir" \in Exposed
      /\ v' = [v EXCEPT ![HandleToFileDes(h)] = pos]
      /\ UNCHANGED <<mounted, read_only, obj, kids, fd, inode, dsc, owed>>
  BY DEF Lseek, core, scans
<1>2. /\ obj' \in [Dirs -> ObjType] /\ dsc' \in [Dscs -> DscType]
      /\ owed' \in [Dscs -> SUBSET Objs] /\ read_only' \in BOOLEAN
  BY <1>1, CoreIs DEF TreeInv, CoreType
<1>3. TreeInv'
  BY <1>1, <1>2, QuietTree DEF TableInv
<1>4. \A f \in Slots : f # HandleToFileDes(h) => v'[f] = v[f]
  BY <1>1 DEF TableInv, TableType
<1>5. Closed => \A f \in Slots : fd'[f].isDir => fd[f].isDir /\ v'[f] = v[f]
  BY <1>1, <1>4, Zenon DEF Closed
<1>6. Closed /\ ScanInv => ScanInv'
  BY <1>1, <1>5, QuietScans
<1>7. QED
  BY <1>3, <1>6

-----------------------------------------------------------------------------
(* Steps of a search.                                                      *)

(* The searches but one stay, and that one is right as it is then.         *)
LEMMA OneScan ==
  ASSUME TreeInv, DirsInv, ScanAgree(Tree), UNCHANGED <<mounted, kids>>, NEW c \in Dscs,
         \A x \in Dirs : obj'[x].kind = obj[x].kind,
         \A d \in Dscs \ {c} : dsc'[d] = dsc[d] /\ owed'[d] = owed[d],
         dsc'[c].inUse =>
           /\ mounted /\ obj'[dsc'[c].dir].kind = "dir"
           /\ dsc'[c].next \in ToSet(kids[dsc'[c].dir]) \cup {None}
           /\ From(kids[dsc'[c].dir], dsc'[c].next) = owed'[c]
  PROVE  DirsInv' /\ ScanAgree(Tree)'
<1>1. ASSUME NEW d \in Dscs, dsc'[d].inUse
      PROVE  /\ mounted' /\ obj'[dsc'[d].dir].kind = "dir"
             /\ dsc'[d].next \in ToSet(kids'[dsc'[d].dir]) \cup {None}
             /\ From(kids'[dsc'[d].dir], dsc'[d].next) = owed'[d]
  <2>1. CASE d = c
    BY <1>1, <2>1
  <2>2. CASE d # c
    <3>1. dsc'[d] = dsc[d] /\ owed'[d] = owed[d]
      BY <2>2
    <3>2. dsc[d].inUse
      BY <1>1, <3>1, Zenon
    <3>3. dsc[d].dir \in Dirs
      BY <3>2, SearchedDir
    <3>4. QED
      BY <3>1, <3>2, <3>3 DEF DirsInv, ScanAgree, Tree
  <2>3. QED
    BY <2>1, <2>2
<1>2. QED
  BY <1>1 DEF DirsInv, ScanAgree, Tree

LEMMA StartScanIs ==
  ASSUME TreeInv, NEW d \in Dscs, NEW dir \in Dirs, StartScan(d, dir)
  PROVE  /\ dsc' \in [Dscs -> DscType] /\ owed' \in [Dscs -> SUBSET Objs]
         /\ dsc'[d].inUse /\ dsc'[d].dir = dir
         /\ \A e \in Dscs \ {d} : dsc'[e] = dsc[e] /\ owed'[e] = owed[e]
         /\ dsc'[d].next \in ToSet(kids[dir]) \cup {None}
         /\ From(kids[dir], dsc'[d].next) = owed'[d]
<1>1. /\ kids[dir] \in Lists /\ dsc \in [Dscs -> DscType]
      /\ owed \in [Dscs -> SUBSET Objs]
  BY CoreIs DEF TreeInv
<1>2. PICK l, n : l = kids[dir] /\ n = IF l = <<>> THEN None ELSE Head(l)
  OBVIOUS
<1>3. n \in ToSet(l) \cup {None} /\ From(l, n) = ToSet(l)
  <2>1. CASE l = <<>>
    <3>1. ToSet(l) = {}
      BY <2>1 DEF ToSet
    <3>2. QED
      BY <1>1, <1>2, <2>1, <3>1, FromNone
  <2>2. CASE l # <<>>
    BY <1>1, <1>2, <2>2, FromHead
  <2>3. QED
    BY <2>1, <2>2
<1>4. ToSet(l) \subseteq Objs
  BY <1>1, <1>2 DEF Lists, ToSet
<1>5. Rewound(dir) = [inUse |-> TRUE, dir |-> dir, next |-> n]
  BY <1>2 DEF Rewound
<1>6. Rewound(dir) \in DscType
  BY <1>3, <1>4, <1>5 DEF DscType
<1>7. dsc' = [dsc EXCEPT ![d] = Rewound(dir)] /\ owed' = [owed EXCEPT ![d] = ToSet(l)]
  BY <1>2 DEF StartScan
<1>8. dsc'[d] = [inUse |-> TRUE, dir |-> dir, next |-> n] /\ owed'[d] = ToSet(l)
  BY <1>1, <1>5, <1>7
<1>9. QED
  BY <1>1, <1>2, <1>3, <1>4, <1>6, <1>7, <1>8

(* A step of searches under the tables as they are.                        *)
LEMMA ScanStep ==
  ASSUME TableInv, TreeInv, NEW c \in Dscs, UNCHANGED <<core, tables, task, open>>,
         dsc' \in [Dscs -> DscType], owed' \in [Dscs -> SUBSET Objs],
         \A d \in Dscs \ {c} : dsc'[d] = dsc[d] /\ owed'[d] = owed[d]
  PROVE  /\ TableInv' /\ TreeInv'
         /\ ScanInv
            /\ (dsc'[c].inUse =>
                  /\ mounted /\ obj[dsc'[c].dir].kind = "dir"
                  /\ dsc'[c].next \in ToSet(kids[dsc'[c].dir]) \cup {None}
                  /\ From(kids[dsc'[c].dir], dsc'[c].next) = owed'[c])
            /\ (dsc'[c].inUse \/ c \notin FdDscs)
              => ScanInv'
<1>1. /\ UNCHANGED <<mounted, read_only, obj, kids>>
      /\ UNCHANGED <<handle, fd, inode, v, task, open>>
  BY DEF core, tables
<1>2. TableInv'
  BY <1>1, QuietTables
<1>3. obj' \in [Dirs -> ObjType] /\ read_only' \in BOOLEAN
  BY <1>1, CoreIs DEF TreeInv, CoreType
<1>4. TreeInv'
  BY <1>1, <1>3, QuietTree DEF TableInv
<1>5. ASSUME ScanInv,
             dsc'[c].inUse =>
               /\ mounted /\ obj[dsc'[c].dir].kind = "dir"
               /\ dsc'[c].next \in ToSet(kids[dsc'[c].dir]) \cup {None}
               /\ From(kids[dsc'[c].dir], dsc'[c].next) = owed'[c],
             dsc'[c].inUse \/ c \notin FdDscs
      PROVE  ScanInv'
  <2>1. DirsInv' /\ ScanAgree(Tree)'
    BY <1>1, <1>5, OneScan DEF ScanInv
  <2>2. ASSUME NEW f \in Slots, fd'[f].isDir
        PROVE  fd[f].isDir /\ v'[f] = v[f] /\ dsc'[v[f]].inUse
    <3>1. fd[f].isDir /\ v'[f] = v[f]
      BY <1>1, <2>2, Zenon
    <3>2. v[f] \in Dscs /\ dsc[v[f]].inUse
      BY <1>5, <3>1, Zenon DEF ScanInv, OwnInv
    <3>3. v[f] \in FdDscs
      BY <3>1 DEF FdDscs, TableInv, PlaceInv
    <3>4. CASE v[f] = c
      BY <1>5, <3>1, <3>3, <3>4, Zenon
    <3>5. CASE v[f] # c
      <4>1. dsc'[v[f]] = dsc[v[f]]
        BY <3>2, <3>5
      <4>2. QED
        BY <3>1, <3>2, <4>1, Zenon
    <3>6. QED
      BY <3>4, <3>5
  <2>3. OwnInv'
    BY <1>2, <1>5, <2>2, OwnKept, Zenon DEF ScanInv, TableInv
  <2>4. QED
    BY <2>1, <2>3 DEF ScanInv
<1>6. QED
  BY <1>2, <1>4, <1>5

LEMMA StartStep ==
  ASSUME TableInv, TreeInv, NEW d \in Dscs, NEW dir \in Dirs, StartScan(d, dir),
         UNCHANGED <<core, tables, task, open>>
  PROVE  /\ TableInv' /\ TreeInv'
         /\ ScanInv /\ mounted /\ obj[dir].kind = "dir" => ScanInv'
<1>1. /\ dsc' \in [Dscs -> DscType] /\ owed' \in [Dscs -> SUBSET Objs]
      /\ dsc'[d].inUse /\ dsc'[d].dir = dir
      /\ \A e \in Dscs \ {d} : dsc'[e] = dsc[e] /\ owed'[e] = owed[e]
      /\ dsc'[d].next \in ToSet(kids[dir]) \cup {None}
      /\ From(kids[dir], dsc'[d].next) = owed'[d]
  BY StartScanIs
<1>2. QED
  BY <1>1, ScanStep

LEMMA ReachedDir ==
  ASSUME TreeInv, NEW dir \in Reached
  PROVE  dir \in Dirs /\ obj[dir].kind = "dir"
  BY NamedDirs DEF Reached, TreeInv, HookInv

LEMMA ScanSteps ==
  ASSUME TableInv, TreeInv,
         \/ \E dir \in Dirs : Opendir(dir)
         \/ \E d \in Dscs : ReaddirNoLock(d) \/ RewinddirNoLock(d) \/ Closedir(d)
  PROVE  TableInv' /\ TreeInv' /\ (ScanInv => ScanInv')
<1>1. ASSUME NEW dir \in Dirs, Opendir(dir)
      PROVE  TableInv' /\ TreeInv' /\ (ScanInv => ScanInv')
  BY <1>1, StartStep, ReachedDir DEF Opendir
<1>2. ASSUME NEW d \in Dscs, RewinddirNoLock(d)
      PROVE  TableInv' /\ TreeInv' /\ (ScanInv => ScanInv')
  <2>1. dsc[d].inUse /\ StartScan(d, dsc[d].dir) /\ UNCHANGED <<core, tables, task, open>>
    BY <1>2 DEF RewinddirNoLock
  <2>2. dsc[d].dir \in Dirs
    BY <2>1, SearchedDir
  <2>3. ScanInv => mounted /\ obj[dsc[d].dir].kind = "dir"
    BY <2>1, Zenon DEF ScanInv, DirsInv
  <2>4. QED
    BY <2>1, <2>2, <2>3, StartStep
<1>3. ASSUME NEW d \in Dscs, Closedir(d)
      PROVE  TableInv' /\ TreeInv' /\ (ScanInv => ScanInv')
  <2>1. /\ d \notin FdDscs /\ dsc' = [dsc EXCEPT ![d] = NoDsc]
        /\ owed' = [owed EXCEPT ![d] = {}] /\ UNCHANGED <<core, tables, task, open>>
    BY <1>3 DEF Closedir
  <2>2. dsc \in [Dscs -> DscType] /\ owed \in [Dscs -> SUBSET Objs]
    BY CoreIs DEF TreeInv
  <2>3. NoDsc \in DscType /\ ~NoDsc.inUse
    BY DEF DscType, NoDsc
  <2>4. /\ dsc' \in [Dscs -> DscType] /\ owed' \in [Dscs -> SUBSET Objs]
        /\ ~dsc'[d].inUse
        /\ \A e \in Dscs \ {d} : dsc'[e] = dsc[e] /\ owed'[e] = owed[e]
    BY <2>1, <2>2, <2>3
  <2>5. QED
    BY <2>1, <2>4, ScanStep
<1>4. ASSUME NEW d \in Dscs, ReaddirNoLock(d)
      PROVE  TableInv' /\ TreeInv' /\ (ScanInv => ScanInv')
  <2>1. PICK dir, l, n : dir = dsc[d].dir /\ l = kids[dir] /\ n = dsc[d].next
    OBVIOUS
  <2>2. /\ dsc[d].inUse /\ n # None /\ UNCHANGED <<core, tables, task, open>>
        /\ owed' = [owed EXCEPT ![d] = @ \ {n}]
        /\ dsc' = [dsc EXCEPT ![d].next = Behind(l, n)]
    BY <1>4, <2>1 DEF ReaddirNoLock
  <2>3. /\ dsc \in [Dscs -> DscType] /\ owed \in [Dscs -> SUBSET Objs]
        /\ dir \in Dirs /\ l \in Lists
    BY <2>1, <2>2, CoreIs, SearchedDir DEF TreeInv
  <2>4. PICK m : m = Behind(l, n)
    OBVIOUS
  <2>5. m \in Objs \cup {None}
    BY <2>3, <2>4, BehindType
  <2>6. dsc[d] \in [inUse : {TRUE}, dir : Dirs, next : Objs \cup {None}]
    <3>1. dsc[d] \in DscType
      BY <2>3
    <3>2. QED
      BY <2>2, <3>1, DscIs, Zenon
  <2>7. PICK e : e = [dsc[d] EXCEPT !.next = m]
    OBVIOUS
  <2>8. e \in DscType /\ e.inUse /\ e.dir = dir /\ e.next = m
    <3>1. e \in [inUse : {TRUE}, dir : Dirs, next : Objs \cup {None}]
      BY <2>5, <2>6, <2>7
    <3>2. e.dir = dir /\ e.next = m
      BY <2>1, <2>6, <2>7
    <3>3. e.inUse = TRUE
      BY <3>1
    <3>4. QED
      BY <3>1, <3>2, <3>3 DEF DscType
  <2>9. /\ dsc' \in [Dscs -> DscType] /\ owed' \in [Dscs -> SUBSET Objs]
        /\ dsc'[d] = e /\ owed'[d] = owed[d] \ {n}
        /\ \A c \in Dscs \ {d} : dsc'[c] = dsc[c] /\ owed'[c] = owed[c]
    <3>1. dsc' = [dsc EXCEPT ![d] = e]
      BY <2>2, <2>4, <2>7
    <3>2. QED
      BY <2>2, <2>3, <2>8, <3>1
  <2>10. dsc'[d].inUse /\ dsc'[d].dir = dir /\ dsc'[d].next = m
    BY <2>8, <2>9, Zenon
  <2>11. ASSUME ScanInv
         PROVE  /\ mounted /\ obj[dir].kind = "dir"
                /\ m \in ToSet(l) \cup {None} /\ From(l, m) = owed'[d]
    <3>1. mounted /\ obj[dir].kind = "dir"
      BY <2>1, <2>2, <2>11, Zenon DEF ScanInv, DirsInv
    <3>2. n \in ToSet(l) \cup {None} /\ From(l, n) = owed[d]
      BY <2>1, <2>2, <2>11, Zenon DEF ScanInv, ScanAgree, Tree
    <3>3. From(l, m) = From(l, n) \ {n} /\ m \in (ToSet(l) \ {n}) \cup {None}
      BY <2>2, <2>3, <2>4, <3>2, FromBehind
    <3>4. QED
      BY <2>9, <3>1, <3>2, <3>3
  <2>12. QED
    <3>1. ScanInv =>
            (dsc'[d].inUse =>
               /\ mounted /\ obj[dsc'[d].dir].kind = "dir"
               /\ dsc'[d].next \in ToSet(kids[dsc'[d].dir]) \cup {None}
               /\ From(kids[dsc'[d].dir], dsc'[d].next) = owed'[d])
      BY <2>1, <2>10, <2>11
    <3>2. /\ dsc' \in [Dscs -> DscType] /\ owed' \in [Dscs -> SUBSET Objs]
          /\ \A c \in Dscs \ {d} : dsc'[c] = dsc[c] /\ owed'[c] = owed[c]
      BY <2>9
    <3>3. QED
      BY <2>2, <2>10, <3>1, <3>2, ScanStep
<1>5. QED
  BY <1>1, <1>2, <1>3, <1>4

-----------------------------------------------------------------------------
(* Opening.                                                                *)

LEMMA HookedIs ==
  ASSUME TableInv, FreeFds # {}, NEW ob \in [Dirs -> ObjType], NEW o \in Dirs,
         NEW size \in 0 .. MaxSize, NEW w, w = HookInode(ob, o, size)
  PROVE  /\ w \in [Dirs -> ObjType] /\ \A x \in Dirs \ {o} : w[x] = ob[x]
         /\ w[o].kind = ob[o].kind /\ w[o].dir = ob[o].dir
         /\ w[o].inode = InodeFor(o)
<1>1. PICK i : i = InodeFor(o)
  OBVIOUS
<1>2. i \in Slots /\ i \in 0 .. NHandles
  BY <1>1, InodeForIs, SizesAssumption DEF TableInv, Slots
<1>3. w = [ob EXCEPT ![o].inode = i, ![o].size = size]
  BY <1>1 DEF HookInode
<1>4. PICK n : n = [[ob[o] EXCEPT !.inode = i] EXCEPT !.size = size]
  OBVIOUS
<1>5. ob[o] \in ObjType
  OBVIOUS
<1>6. /\ n \in ObjType /\ n.kind = ob[o].kind /\ n.dir = ob[o].dir /\ n.inode = i
  BY <1>2, <1>4, <1>5 DEF ObjType
<1>7. w = [ob EXCEPT ![o] = n]
  BY <1>3, <1>4
<1>8. QED
  BY <1>1, <1>6, <1>7

LEMMA OpenedHooks ==
  ASSUME TableInv, TreeInv, NEW o \in Dirs, NEW mode, NEW isDir, NEW first,
         Opened(o, mode, isDir, first), mounted, mounted' = mounted,
         obj'[o].inode = InodeFor(o), obj'[o].kind # "none",
         \A x \in Dirs \ {o} : obj'[x] = obj[x],
         o = Root => obj'[o].kind = obj[o].kind /\ obj'[o].dir = obj[o].dir
  PROVE  HookInv'
<1> USE NamedDirs
<1>1. PICK i : i = InodeFor(o)
  OBVIOUS
<1>2. /\ i \in Slots /\ i # 0
      /\ inode[i].obj = o \/ \A j \in Slots : inode[j].obj # o
  BY <1>1, InodeForIs, SizesAssumption DEF TableInv, Opened, Slots
<1>3. inode' = [inode EXCEPT ![i] = [obj |-> o, count |-> @.count + 1]]
  BY <1>1 DEF Opened
<1>4. inode'[i].obj = o /\ \A j \in Slots \ {i} : inode'[j].obj = inode[j].obj
  BY <1>2, <1>3 DEF TableInv, TableType
<1>5. ASSUME NEW j \in Slots, inode'[j].obj # None
      PROVE  /\ obj'[inode'[j].obj].inode = j
             /\ mounted' /\ obj'[inode'[j].obj].kind # "none"
  <2>1. CASE j = i
    BY <1>1, <1>4, <2>1
  <2>2. CASE j # i
    <3>1. inode'[j].obj = inode[j].obj /\ inode[j].obj \in Dirs
      BY <1>4, <1>5, <2>2 DEF TableInv, TableType, InodeType
    <3>2. obj[inode[j].obj].inode = j /\ obj[inode[j].obj].kind # "none"
      BY <1>5, <3>1 DEF TreeInv, HookInv
    <3>3. inode[j].obj # o
      <4>1. CASE inode[i].obj = o
        <5>1. obj[o].inode = i
          BY <1>2, <4>1 DEF TreeInv, HookInv
        <5>2. QED
          BY <2>2, <3>2, <5>1
      <4>2. CASE \A e \in Slots : inode[e].obj # o
        BY <4>2
      <4>3. QED
        BY <1>2, <4>1, <4>2
    <3>4. QED
      BY <3>1, <3>2, <3>3
  <2>3. QED
    BY <2>1, <2>2
<1>6. ASSUME NEW x \in Objs, obj'[x].dir = Unlinked PROVE obj'[x].inode # 0
  BY <1>1, <1>2, <1>6 DEF TreeInv, HookInv
<1>7. obj'[Root].kind = "dir" /\ obj'[Root].dir = None
  BY DEF TreeInv, HookInv
<1>8. QED
  BY <1>5, <1>6, <1>7 DEF HookInv

(* The descriptor that is opened.                                          *)
LEMMA OpenedFd ==
  ASSUME TableInv, NEW o, NEW mode, NEW isDir \in BOOLEAN, NEW first,
         Opened(o, mode, isDir, first)
  PROVE  \E f \in Slots :
           /\ fd[f].count = 0 /\ ~fd[f].isDir /\ FreeFds # {}
           /\ fd'[f].isDir <=> isDir
           /\ v'[f] = first
           /\ \A g \in Slots \ {f} : fd'[g] = fd[g] /\ v'[g] = v[g]
<1>1. PICK f, i : f = First(FreeFds) /\ i = InodeFor(o)
  OBVIOUS
<1>2. f \in Slots /\ fd[f].count = 0
  <2>1. FreeFds \in SUBSET Slots
    BY DEF FreeFds
  <2>2. f \in FreeFds
    BY <1>1, <2>1, FirstIn DEF Opened
  <2>3. QED
    BY <2>2 DEF FreeFds, TableInv, TableType, FdType
<1>3. /\ fd' = [fd EXCEPT ![f] = [isDir |-> isDir, mode |-> mode, inode |-> i,
                                  count |-> 1]]
      /\ v' = [v EXCEPT ![f] = first] /\ FreeFds # {}
  BY <1>1 DEF Opened
<1>4. ~fd[f].isDir
  BY <1>2 DEF TableInv, PlaceInv
<1>5. fd'[f].isDir = isDir /\ v'[f] = first
      /\ \A g \in Slots \ {f} : fd'[g] = fd[g] /\ v'[g] = v[g]
  BY <1>2, <1>3 DEF TableInv, TableType
<1>6. QED
  BY <1>2, <1>3, <1>4, <1>5

LEMMA OpenedOwn ==
  ASSUME TableInv, TableInv', NEW o, NEW mode, NEW first, Opened(o, mode, FALSE, first),
         OwnInv, \A d \in Dscs : dsc'[d].inUse = dsc[d].inUse
  PROVE  OwnInv'
<1>0. PICK no \in BOOLEAN : no = FALSE
  OBVIOUS
<1>1. PICK f \in Slots : /\ ~fd'[f].isDir
                         /\ \A g \in Slots \ {f} : fd'[g] = fd[g] /\ v'[g] = v[g]
  <2>1. Opened(o, mode, no, first)
    BY <1>0, Zenon
  <2>2. PICK f \in Slots : /\ fd'[f].isDir <=> no
                           /\ \A g \in Slots \ {f} : fd'[g] = fd[g] /\ v'[g] = v[g]
    BY <2>1, OpenedFd
  <2>3. QED
    BY <1>0, <2>2
<1>2. ASSUME NEW g \in Slots, fd'[g].isDir
      PROVE  fd[g].isDir /\ v'[g] = v[g] /\ dsc'[v[g]].inUse
  <2>1. g # f
    BY <1>1, <1>2
  <2>2. fd[g].isDir /\ v'[g] = v[g]
    BY <1>1, <1>2, <2>1
  <2>3. v[g] \in Dscs /\ dsc[v[g]].inUse
    BY <2>2, Zenon DEF OwnInv
  <2>4. QED
    BY <2>2, <2>3, Zenon
<1>3. QED
  BY <1>2, OwnKept, Zenon DEF TableInv

LEMMA OpenFileStep ==
  ASSUME TableInv, TreeInv, "reuse" \notin Exposed, NEW dir, NEW name, NEW mode \in Modes,
         OpenFile(dir, name, mode)
  PROVE  TableInv' /\ TreeInv' /\ (ScanInv => ScanInv')
<1> USE NamedDirs
<1>1. PICK o : o = FindObject(dir, name)
  OBVIOUS
<1>2. PICK size : size = IF mode.trunc /\ mode.write THEN 0 ELSE obj[o].size
  OBVIOUS
<1>3. /\ o # None /\ obj[o].kind = "file" /\ SharingAllows(o, mode)
      /\ Opened(o, mode, FALSE, 0) /\ obj' = HookInode(obj, o, size)
      /\ UNCHANGED <<mounted, read_only, kids, dsc, owed, task>>
  BY <1>1, <1>2 DEF OpenFile, scans
<1>4. o \in Dirs /\ o # Root /\ mounted
  BY <1>1, <1>3, FindIs
<1>5. 0 \in 0 .. MaxSize
  BY SizesAssumption
<1>6. /\ obj \in [Dirs -> ObjType] /\ dsc \in [Dscs -> DscType]
      /\ owed \in [Dscs -> SUBSET Objs] /\ kids \in [Dirs -> Lists]
      /\ read_only \in BOOLEAN
  BY CoreIs DEF TreeInv, CoreType
<1>7. size \in 0 .. MaxSize
  BY <1>2, <1>4, <1>5, <1>6 DEF ObjType
<1>8. \A g \in Slots : fd[g].count > 0 /\ inode[fd[g].inode].obj = o =>
        Spares(mode, fd[g].mode) /\ Spares(fd[g].mode, mode)
  <2>1. FdsLead
    BY FdLeads DEF TableInv
  <2>2. \A g \in Slots : fd[g].count > 0 => fd[g].inode > 0
    BY <2>1, SizesAssumption DEF FdsLead, Slots
  <2>3. QED
    BY <1>3, <2>2 DEF SharingAllows
<1>9. TableInv'
  BY <1>3, <1>4, <1>5, <1>8, OpenedTables
<1>10. FreeFds # {}
  BY <1>3 DEF Opened
<1>11. /\ obj' \in [Dirs -> ObjType] /\ \A x \in Dirs \ {o} : obj'[x] = obj[x]
       /\ obj'[o].kind = obj[o].kind /\ obj'[o].dir = obj[o].dir
       /\ obj'[o].inode = InodeFor(o)
  BY <1>3, <1>4, <1>6, <1>7, <1>10, HookedIs
<1>12. HookInv'
  BY <1>3, <1>4, <1>11, OpenedHooks
<1>13. CoreType'
  BY <1>3, <1>6, <1>11 DEF TreeInv, CoreType, Tree, TreeType
<1>14. KidsAgree(Tree)'
  <2>1. \A x \in Dirs : obj'[x].kind = obj[x].kind /\ obj'[x].dir = obj[x].dir
    BY <1>11
  <2>2. QED
    BY <1>3, <2>1 DEF TreeInv, KidsAgree, Tree
<1>15. ASSUME ScanInv PROVE ScanInv'
  <2>1. \A x \in Dirs : obj'[x].kind = obj[x].kind
    BY <1>11
  <2>2. DirsInv' /\ ScanAgree(Tree)'
    BY <1>3, <1>15, <2>1, FewerScans, SearchedDir DEF ScanInv
  <2>3. OwnInv'
    BY <1>3, <1>9, <1>15, OpenedOwn DEF ScanInv
  <2>4. QED
    BY <2>2, <2>3 DEF ScanInv
<1>16. QED
  BY <1>9, <1>12, <1>13, <1>14, <1>15 DEF TreeInv

LEMMA CreateFileStep ==
  ASSUME TableInv, TreeInv, "reuse" \notin Exposed, NEW dir \in Dirs, NEW name \in Names,
         NEW mode \in Modes, CreateFile(dir, name, mode)
  PROVE  TableInv' /\ TreeInv' /\ (ScanInv => ScanInv')
<1> USE NamedDirs
<1>1. PICK o \in Objs :
        /\ obj[o].kind = "none" /\ Opened(o, mode, FALSE, 0)
        /\ LET s == AddObjToDir([Tree EXCEPT !.obj = Make(o, "file")], dir, o, name)
           IN Becomes([s EXCEPT !.obj = HookInode(@, o, 0)])
  BY DEF CreateFile
<1>2. mounted /\ UNCHANGED <<mounted, read_only, task>>
  BY DEF CreateFile
<1>3. PICK q : q = [Tree EXCEPT !.obj = Make(o, "file")]
  OBVIOUS
<1>4. PICK s : s = AddObjToDir(q, dir, o, name)
  OBVIOUS
<1>5. Becomes([s EXCEPT !.obj = HookInode(s.obj, o, 0)])
  BY <1>1, <1>3, <1>4
<1>6. /\ q \in TreeType /\ KidsAgree(q) /\ SameSearches(Tree, q)
      /\ \A x \in Dirs \ {o} : q.obj[x] = obj[x]
      /\ q.obj[o].kind = "file"
      /\ ScanAgree(Tree) => ScanAgree(q)
  BY <1>1, <1>3, MakeTree
<1>7. /\ s \in TreeType /\ KidsAgree(s) /\ SameSearches(q, s)
      /\ \A x \in Dirs \ {o} : s.obj[x] = q.obj[x]
      /\ s.obj[o].kind = q.obj[o].kind /\ s.obj[o].dir = dir
      /\ ScanAgree(q) => ScanAgree(s)
  <2>1. q.obj[o].kind # "none"
    BY <1>6
  <2>2. QED
    BY <1>4, <1>6, <2>1, AddObjTree
<1>8. obj' = HookInode(s.obj, o, 0) /\ kids' = s.kids /\ dsc' = s.dsc /\ owed' = s.owed
  BY <1>5, <1>7 DEF Becomes, TreeType
<1>9. 0 \in 0 .. MaxSize /\ o \in Dirs /\ o # Root
  BY SizesAssumption
<1>10. s.obj \in [Dirs -> ObjType] /\ FreeFds # {}
  BY <1>1, <1>7 DEF TreeType, Opened
<1>11. /\ obj' \in [Dirs -> ObjType] /\ \A x \in Dirs \ {o} : obj'[x] = s.obj[x]
       /\ obj'[o].kind = "file" /\ obj'[o].dir = dir /\ obj'[o].inode = InodeFor(o)
  BY <1>6, <1>7, <1>8, <1>9, <1>10, HookedIs
<1>12. \A g \in Slots : fd[g].count > 0 => inode[fd[g].inode].obj # o
  <2>1. FdsLead
    BY FdLeads DEF TableInv
  <2>2. QED
    BY <1>1, <2>1 DEF FdsLead, TreeInv, HookInv
<1>13. TableInv'
  BY <1>1, <1>2, <1>9, <1>12, OpenedTables
<1>14. HookInv'
  <2>1. obj'[o].kind # "none" /\ \A x \in Dirs \ {o} : obj'[x] = obj[x]
    BY <1>6, <1>7, <1>11
  <2>2. QED
    BY <1>1, <1>2, <1>9, <1>11, <2>1, OpenedHooks
<1>15. CoreType'
  BY <1>2, <1>7, <1>8, <1>11 DEF TreeInv, CoreType, Tree, TreeType
<1>16. KidsAgree(Tree)'
  <2>1. \A x \in Dirs : obj'[x].kind = s.obj[x].kind /\ obj'[x].dir = s.obj[x].dir
    BY <1>6, <1>7, <1>11
  <2>2. QED
    BY <1>7, <1>8, <2>1 DEF KidsAgree, Tree
<1>17. ASSUME ScanInv PROVE ScanInv'
  <2>1. SameSearches(Tree, s) /\ ScanAgree(s)
    BY <1>6, <1>7, <1>17 DEF ScanInv, SameSearches
  <2>2. \A d \in Dscs : dsc'[d].inUse = dsc[d].inUse /\ dsc'[d].dir = dsc[d].dir
    BY <1>8, <2>1 DEF SameSearches, Tree
  <2>3. ScanAgree(Tree)'
    BY <1>8, <2>1 DEF ScanAgree, Tree
  <2>4. DirsInv'
    <3>1. ASSUME NEW d \in Dscs, dsc'[d].inUse
          PROVE  mounted' /\ obj'[dsc'[d].dir].kind = "dir"
      <4>1. dsc[d].inUse
        BY <2>2, <3>1, Zenon
      <4>2. dsc[d].dir \in Dirs /\ obj[dsc[d].dir].kind = "dir"
        BY <1>17, <4>1, SearchedDir, Zenon DEF ScanInv, DirsInv
      <4>3. dsc[d].dir # o
        BY <1>1, <4>2
      <4>4. QED
        BY <1>2, <1>6, <1>7, <1>11, <2>2, <4>2, <4>3
    <3>2. QED
      BY <3>1 DEF DirsInv
  <2>5. OwnInv'
    BY <1>1, <1>13, <1>17, <2>2, OpenedOwn DEF ScanInv
  <2>6. QED
    BY <2>3, <2>4, <2>5 DEF ScanInv
<1>18. QED
  BY <1>13, <1>14, <1>15, <1>16, <1>17 DEF TreeInv

LEMMA OpenDirectoryStep ==
  ASSUME TableInv, TreeInv, "reuse" \notin Exposed, NEW dir \in Dirs,
         NEW mode \in Modes, OpenDirectory(dir, mode)
  PROVE  TableInv' /\ TreeInv' /\ (ScanInv => ScanInv')
<1> USE NamedDirs
<1>1. PICK d \in Dscs : ~dsc[d].inUse /\ StartScan(d, dir) /\ Opened(dir, mode, TRUE, d)
  BY DEF OpenDirectory
<1>2. /\ mounted /\ dir \in Reached /\ SharingAllows(dir, mode)
      /\ obj' = HookInode(obj, dir, 0) /\ UNCHANGED <<mounted, read_only, kids, task>>
  BY DEF OpenDirectory
<1>3. obj[dir].kind = "dir" /\ 0 \in 0 .. MaxSize
  BY <1>2, ReachedDir, SizesAssumption
<1>4. /\ obj \in [Dirs -> ObjType] /\ kids \in [Dirs -> Lists] /\ read_only \in BOOLEAN
  BY CoreIs DEF TreeInv, CoreType
<1>5. \A g \in Slots : fd[g].count > 0 /\ inode[fd[g].inode].obj = dir =>
        Spares(mode, fd[g].mode) /\ Spares(fd[g].mode, mode)
  <2>1. FdsLead
    BY FdLeads DEF TableInv
  <2>2. \A g \in Slots : fd[g].count > 0 => fd[g].inode > 0
    BY <2>1, SizesAssumption DEF FdsLead, Slots
  <2>3. QED
    BY <1>2, <2>2 DEF SharingAllows
<1>6. TableInv'
  BY <1>1, <1>2, <1>5, OpenedTables
<1>7. FreeFds # {}
  BY <1>1 DEF Opened
<1>8. /\ obj' \in [Dirs -> ObjType] /\ \A x \in Dirs \ {dir} : obj'[x] = obj[x]
      /\ obj'[dir].kind = obj[dir].kind /\ obj'[dir].dir = obj[dir].dir
      /\ obj'[dir].inode = InodeFor(dir)
  BY <1>2, <1>3, <1>4, <1>7, HookedIs
<1>9. HookInv'
  <2>1. obj'[dir].kind # "none"
    BY <1>3, <1>8
  <2>2. QED
    BY <1>1, <1>2, <1>8, <2>1, OpenedHooks
<1>10. /\ dsc' \in [Dscs -> DscType] /\ owed' \in [Dscs -> SUBSET Objs]
       /\ dsc'[d].inUse /\ dsc'[d].dir = dir
       /\ \A e \in Dscs \ {d} : dsc'[e] = dsc[e] /\ owed'[e] = owed[e]
       /\ dsc'[d].next \in ToSet(kids[dir]) \cup {None}
       /\ From(kids[dir], dsc'[d].next) = owed'[d]
  BY <1>1, StartScanIs
<1>11. CoreType'
  BY <1>2, <1>4, <1>8, <1>10 DEF TreeInv, CoreType, Tree, TreeType
<1>12. KidsAgree(Tree)'
  <2>1. \A x \in Dirs : obj'[x].kind = obj[x].kind /\ obj'[x].dir = obj[x].dir
    BY <1>8
  <2>2. QED
    BY <1>2, <2>1 DEF TreeInv, KidsAgree, Tree
<1>13. ASSUME ScanInv PROVE ScanInv'
  <2>1. \A x \in Dirs : obj'[x].kind = obj[x].kind
    BY <1>8
  <2>2. DirsInv' /\ ScanAgree(Tree)'
    BY <1>2, <1>3, <1>10, <1>13, <2>1, OneScan DEF ScanInv
  <2>3. PICK f \in Slots : /\ fd'[f].isDir /\ v'[f] = d /\ ~fd[f].isDir
                           /\ \A g \in Slots \ {f} : fd'[g] = fd[g] /\ v'[g] = v[g]
    <3>0. PICK yes \in BOOLEAN : yes = TRUE
      OBVIOUS
    <3>1. Opened(dir, mode, yes, d)
      BY <1>1, <3>0, Zenon
    <3>2. PICK f \in Slots : /\ ~fd[f].isDir
                             /\ fd'[f].isDir <=> yes
                             /\ v'[f] = d
                             /\ \A g \in Slots \ {f} : fd'[g] = fd[g] /\ v'[g] = v[g]
      BY <3>1, OpenedFd
    <3>3. QED
      BY <3>0, <3>2
  <2>4. \A g \in Slots \ {f} : v[g] # d
    <3>1. SUFFICES ASSUME NEW g \in Slots \ {f}, v[g] = d PROVE FALSE
      OBVIOUS
    <3>2. CASE fd[g].isDir
      <4>1. dsc[v[g]].inUse
        BY <1>13, <3>2, Zenon DEF ScanInv, OwnInv
      <4>2. QED
        BY <1>1, <3>1, <4>1, Zenon
    <3>3. CASE ~fd[g].isDir
      <4>1. v[g] \in 0 .. MaxSize
        BY <3>3 DEF TableInv, PlaceInv
      <4>2. QED
        BY <3>1, <4>1, DistinctAssumption
    <3>4. QED
      BY <3>2, <3>3
  <2>5. ASSUME NEW g \in Slots, fd'[g].isDir
        PROVE  /\ v'[g] \in Dscs /\ dsc'[v'[g]].inUse
               /\ \A e \in Slots : v'[e] = v'[g] => g = e
    <3>1. CASE g = f
      BY <1>10, <2>3, <2>4, <3>1
    <3>2. CASE g # f
      <4>1. fd[g].isDir /\ v'[g] = v[g]
        BY <2>3, <2>5, <3>2
      <4>2. v[g] \in Dscs /\ dsc[v[g]].inUse /\ \A e \in Slots : v[e] = v[g] => g = e
        BY <1>13, <4>1, Zenon DEF ScanInv, OwnInv
      <4>3. v[g] # d
        BY <2>4, <3>2
      <4>4. dsc'[v[g]] = dsc[v[g]]
        BY <1>10, <4>2, <4>3
      <4>5. dsc'[v'[g]].inUse
        BY <4>1, <4>2, <4>4, Zenon
      <4>6. \A e \in Slots : v'[e] = v'[g] => g = e
        BY <2>3, <4>1, <4>2, <4>3
      <4>7. QED
        BY <4>1, <4>2, <4>5, <4>6
    <3>3. QED
      BY <3>1, <3>2
  <2>6. OwnInv'
    BY <2>5 DEF OwnInv
  <2>7. QED
    BY <2>2, <2>6 DEF ScanInv
<1>14. QED
  BY <1>6, <1>9, <1>11, <1>12, <1>13 DEF TreeInv

-----------------------------------------------------------------------------
(* The device.                                                             *)

(* A device that is not busy has nothing open.                             *)
LEMMA NotBusy ==
  ASSUME TableInv, ~IsDevBusy
  PROVE  /\ \A f \in Slots : fd[f].count = 0 /\ ~fd[f].isDir
         /\ \A i \in Slots : inode[i].obj = None
<1> USE DEF TableInv
<1>1. \A h \in Slots : ~(handle[h].use > 0)
  <2>1. SUFFICES ASSUME NEW h \in Slots, handle[h].use > 0 PROVE FALSE
    OBVIOUS
  <2>2. HandleToObject(h) \in Dirs
    BY <2>1, HandleLeads
  <2>3. QED
    BY <2>2, NamedDirs DEF IsDevBusy
<1>2. ASSUME NEW f \in Slots PROVE fd[f].count = 0 /\ ~fd[f].isDir
  <2>1. HandlesOf(f) = {}
    BY <1>1 DEF HandlesOf
  <2>2. fd[f].count = 0
    BY <2>1, FS_EmptySet DEF CountInv, FdInv
  <2>3. QED
    BY <2>2 DEF PlaceInv
<1>3. ASSUME NEW i \in Slots PROVE inode[i].obj = None
  <2>1. FdsOf(i) = {}
    BY <1>2 DEF FdsOf
  <2>2. inode[i].count = 0
    BY <2>1, FS_EmptySet DEF CountInv, InodeInv
  <2>3. QED
    BY <2>2 DEF CountInv, InodeInv
<1>4. QED
  BY <1>2, <1>3

(* Afterwards nothing is open, whether it was broken off or not there.     *)
LEMMA NothingOpen ==
  ASSUME TableInv, task' = task,
         IF IsDevBusy THEN BreakDeviceHandles ELSE UNCHANGED <<tables, open>>
  PROVE  /\ TableInv'
         /\ \A f \in Slots : ~fd'[f].isDir
         /\ \A i \in Slots : inode'[i].obj = None
<1>1. CASE IsDevBusy
  <2>1. BreakDeviceHandles
    BY <1>1
  <2>2. /\ \A f \in Slots : ~fd'[f].isDir
        /\ \A i \in Slots : inode'[i].obj = None
    BY <2>1 DEF BreakDeviceHandles, NoFd
  <2>3. QED
    BY <2>1, <2>2, BrokenTables
<1>2. CASE ~IsDevBusy
  <2>1. UNCHANGED <<handle, fd, inode, v, open>>
    BY <1>2 DEF tables
  <2>2. TableInv'
    BY <2>1, QuietTables
  <2>3. QED
    BY <1>2, <2>1, <2>2, NotBusy
<1>3. QED
  BY <1>1, <1>2

LEMMA NoScanStep ==
  ASSUME UNCHANGED dsc, \A d \in Dscs : ~dsc[d].inUse, \A f \in Slots : ~fd'[f].isDir
  PROVE  ScanInv'
<1>1. \A d \in Dscs : ~dsc'[d].inUse
  BY Zenon
<1>2. DirsInv' /\ OwnInv'
  BY <1>1 DEF DirsInv, OwnInv
<1>3. ScanAgree(Tree)'
  BY <1>1 DEF ScanAgree, Tree
<1>4. QED
  BY <1>2, <1>3 DEF ScanInv

LEMMA UnmountStep ==
  ASSUME TableInv, TreeInv, NEW force \in BOOLEAN, Unmount(force)
  PROVE  TableInv' /\ TreeInv' /\ (Closed /\ ScanInv => ScanInv')
<1> USE NamedDirs
<1>1. /\ mounted /\ NoScans /\ mounted' = FALSE
      /\ UNCHANGED <<read_only, kids, dsc, owed, task>>
      /\ obj' = [o \in Dirs |-> IF obj[o].dir = Unlinked THEN NoObj
                                ELSE [obj[o] EXCEPT !.inode = 0]]
      /\ IF IsDevBusy THEN BreakDeviceHandles ELSE UNCHANGED <<tables, open>>
  BY DEF Unmount, Deinitialise, scans
<1>2. /\ TableInv' /\ \A f \in Slots : ~fd'[f].isDir
      /\ \A i \in Slots : inode'[i].obj = None
  BY <1>1, NothingOpen
<1>3. /\ obj \in [Dirs -> ObjType] /\ dsc \in [Dscs -> DscType]
      /\ owed \in [Dscs -> SUBSET Objs] /\ kids \in [Dirs -> Lists]
      /\ read_only \in BOOLEAN
  BY CoreIs DEF TreeInv, CoreType
<1>4. NoObj \in ObjType /\ NoObj.kind = "none" /\ NoObj.dir = None
  BY SizesAssumption DEF ObjType, NoObj
<1>5. \A x \in Dirs : [obj[x] EXCEPT !.inode = 0] \in ObjType
  BY <1>3, SizesAssumption DEF ObjType
<1>6. obj' \in [Dirs -> ObjType]
  BY <1>1, <1>4, <1>5
<1>7. \A x \in Dirs : /\ obj[x].dir = Unlinked => obj'[x] = NoObj
                      /\ obj[x].dir # Unlinked =>
                           obj'[x].kind = obj[x].kind /\ obj'[x].dir = obj[x].dir
  BY <1>1, <1>3 DEF ObjType
<1>8. CoreType'
  BY <1>1, <1>3, <1>6 DEF CoreType, Tree, TreeType
<1>9. HookInv'
  <2>1. \A x \in Objs : obj'[x].dir # Unlinked
    BY <1>4, <1>7
  <2>2. obj'[Root].kind = "dir" /\ obj'[Root].dir = None
    BY <1>7 DEF TreeInv, HookInv
  <2>3. QED
    BY <1>2, <2>1, <2>2 DEF HookInv
<1>10. KidsAgree(Tree)'
  <2>1. ASSUME NEW e \in Dirs, NEW x \in Objs
        PROVE  x \in ToSet(kids'[e]) <=> obj'[x].kind # "none" /\ obj'[x].dir = e
    <3>1. x \in ToSet(kids[e]) <=> obj[x].kind # "none" /\ obj[x].dir = e
      BY DEF TreeInv, KidsAgree, Tree
    <3>2. CASE obj[x].dir = Unlinked
      BY <1>1, <1>4, <1>7, <3>1, <3>2
    <3>3. CASE obj[x].dir # Unlinked
      BY <1>1, <1>7, <3>1, <3>3
    <3>4. QED
      BY <3>2, <3>3
  <2>2. QED
    BY <2>1 DEF KidsAgree, Tree
<1>11. Closed => ScanInv'
  BY <1>1, <1>2, NoScanStep DEF NoScans, Closed
<1>12. QED
  BY <1>2, <1>8, <1>9, <1>10, <1>11 DEF TreeInv

LEMMA FormatStep ==
  ASSUME TableInv, TreeInv, NEW force \in BOOLEAN, NEW remount \in BOOLEAN,
         Format(force, remount)
  PROVE  TableInv' /\ TreeInv' /\ (Closed /\ ScanInv => ScanInv')
<1> USE NamedDirs
<1>1. /\ mounted => NoScans
      /\ obj' = NoObjs /\ kids' = [dir \in Dirs |-> <<>>]
      /\ mounted' = (mounted /\ remount)
      /\ UNCHANGED <<read_only, dsc, owed, task>>
      /\ IF IsDevBusy THEN BreakDeviceHandles ELSE UNCHANGED <<tables, open>>
  BY DEF Format, scans
<1>2. /\ TableInv' /\ \A f \in Slots : ~fd'[f].isDir
      /\ \A i \in Slots : inode'[i].obj = None
  BY <1>1, NothingOpen
<1>3. /\ dsc \in [Dscs -> DscType] /\ owed \in [Dscs -> SUBSET Objs]
      /\ read_only \in BOOLEAN /\ mounted \in BOOLEAN
  BY CoreIs DEF TreeInv, CoreType
<1>4. /\ NoObj \in ObjType /\ NoObj.kind = "none" /\ NoObj.dir = None
      /\ [NoObj EXCEPT !.kind = "dir"] \in ObjType
      /\ [NoObj EXCEPT !.kind = "dir"].kind = "dir"
      /\ [NoObj EXCEPT !.kind = "dir"].dir = None
  BY SizesAssumption DEF ObjType, NoObj
<1>5. /\ obj' \in [Dirs -> ObjType]
      /\ \A x \in Objs : obj'[x].kind = "none" /\ obj'[x].dir = None
      /\ obj'[Root].kind = "dir" /\ obj'[Root].dir = None
  BY <1>1, <1>4 DEF NoObjs
<1>6. \A e \in Dirs : kids'[e] \in Lists /\ ToSet(kids'[e]) = {}
  <2>1. <<>> \in Lists
    BY DEF Lists
  <2>2. ToSet(<<>>) = {}
    BY DEF ToSet
  <2>3. QED
    BY <1>1, <2>1, <2>2
<1>7. CoreType'
  <2>1. kids' \in [Dirs -> Lists]
    BY <1>1, <1>6
  <2>2. mounted' \in BOOLEAN
    BY <1>1
  <2>3. QED
    BY <1>1, <1>3, <1>5, <2>1, <2>2 DEF CoreType, Tree, TreeType
<1>8. HookInv'
  BY <1>2, <1>5 DEF HookInv
<1>9. KidsAgree(Tree)'
  BY <1>5, <1>6 DEF KidsAgree, Tree
<1>10. ASSUME Closed, ScanInv PROVE ScanInv'
  <2>1. \A d \in Dscs : ~dsc[d].inUse
    BY <1>1, <1>10 DEF NoScans, Closed, ScanInv, DirsInv
  <2>2. QED
    BY <1>1, <1>2, <2>1, NoScanStep
<1>11. QED
  BY <1>2, <1>7, <1>8, <1>9, <1>10 DEF TreeInv

LEMMA MountStep ==
  ASSUME TableInv, TreeInv, NEW force \in BOOLEAN, NEW ro \in BOOLEAN,
         Mount(ro) \/ Remount(force, ro)
  PROVE  TableInv' /\ TreeInv' /\ (ScanInv => ScanInv')
<1>1. /\ read_only' = ro /\ mounted' = TRUE
      /\ UNCHANGED <<obj, kids, handle, fd, inode, v, dsc, owed, task, open>>
  BY DEF Mount, Remount, tables, scans, TreeInv, CoreType
<1>2. TableInv'
  BY <1>1, QuietTables
<1>3. /\ CoreType' /\ HookInv' /\ KidsAgree(Tree)'
  BY <1>1, CoreIs DEF TreeInv, CoreType, Tree, TreeType, HookInv, KidsAgree
<1>4. ASSUME ScanInv PROVE ScanInv'
  <2>1. DirsInv' /\ OwnInv'
    BY <1>1, <1>4 DEF ScanInv, DirsInv, OwnInv
  <2>2. ScanAgree(Tree)'
    BY <1>1, <1>4 DEF ScanInv, ScanAgree, Tree
  <2>3. QED
    BY <2>1, <2>2 DEF ScanInv
<1>5. QED
  BY <1>2, <1>3, <1>4 DEF TreeInv

-----------------------------------------------------------------------------
(* Every step.                                                             *)

FsInv == TableInv /\ TreeInv

LEMMA FsInit ==
  ASSUME Init
  PROVE  FsInv /\ ScanInv
<1> USE NamedDirs
<1>1. /\ 0 \in 0 .. NHandles /\ 0 \in 0 .. MaxSize
      /\ NoFd.count = 0 /\ NoFd.isDir = FALSE /\ NoFd.inode = 0
      /\ NoDsc.inUse = FALSE /\ NoDsc.next = None
  BY SizesAssumption DEF NoFd, NoDsc
<1>2. TableType
  <2>1. NoFd \in FdType /\ [fd |-> 0, use |-> 0] \in HandleType
        /\ [obj |-> None, count |-> 0] \in InodeType
    BY <1>1 DEF NoFd, FdType, HandleType, InodeType
  <2>2. QED
    BY <1>1, <2>1 DEF Init, TableType
<1>3. /\ \A h \in Slots : handle[h].use = 0 /\ ~open[h]
      /\ \A f \in Slots : fd[f].count = 0 /\ ~fd[f].isDir /\ v[f] = 0
      /\ \A i \in Slots : inode[i].count = 0 /\ inode[i].obj = None
  BY <1>1 DEF Init
<1>4. CountInv
  <2>1. \A x \in Slots : HandlesOf(x) = {} /\ FdsOf(x) = {}
    BY <1>3 DEF HandlesOf, FdsOf
  <2>2. \A x \in Slots : Cardinality(HandlesOf(x)) = 0 /\ Cardinality(FdsOf(x)) = 0
    BY <2>1, FS_EmptySet
  <2>3. QED
    BY <1>3, <2>2 DEF CountInv, HandleInv, FdInv, InodeInv
<1>5. PlaceInv /\ TaskInv /\ SharingKept
  BY <1>1, <1>3 DEF Init, PlaceInv, TaskInv, SharingKept
<1>6. /\ NoObj \in ObjType /\ NoObj.kind = "none" /\ NoObj.dir = None
      /\ [NoObj EXCEPT !.kind = "dir"] \in ObjType
      /\ [NoObj EXCEPT !.kind = "dir"].kind = "dir"
      /\ [NoObj EXCEPT !.kind = "dir"].dir = None
  BY SizesAssumption DEF ObjType, NoObj
<1>7. /\ obj \in [Dirs -> ObjType]
      /\ \A x \in Objs : obj[x].kind = "none" /\ obj[x].dir = None
      /\ obj[Root].kind = "dir" /\ obj[Root].dir = None
  BY <1>6 DEF Init, NoObjs
<1>8. kids \in [Dirs -> Lists] /\ \A e \in Dirs : ToSet(kids[e]) = {}
  <2>1. <<>> \in Lists
    BY DEF Lists
  <2>2. ToSet(<<>>) = {}
    BY DEF ToSet
  <2>3. QED
    BY <2>1, <2>2 DEF Init
<1>9. dsc \in [Dscs -> DscType] /\ \A d \in Dscs : ~dsc[d].inUse
  BY <1>1 DEF Init, DscType
<1>10. CoreType
  BY <1>7, <1>8, <1>9 DEF Init, CoreType, Tree, TreeType
<1>11. HookInv /\ KidsAgree(Tree)
  BY <1>3, <1>7, <1>8 DEF HookInv, KidsAgree, Tree
<1>12. ScanInv
  BY <1>3, <1>9 DEF ScanInv, DirsInv, OwnInv, ScanAgree, Tree
<1>13. QED
  BY <1>2, <1>4, <1>5, <1>10, <1>11, <1>12 DEF FsInv, TableInv, TreeInv

LEMMA QuietStep ==
  ASSUME FsInv, UNCHANGED vars
  PROVE  FsInv' /\ (ScanInv => ScanInv')
<1>1. /\ UNCHANGED <<mounted, read_only, obj, kids, handle, fd, inode, v>>
      /\ UNCHANGED <<dsc, owed, task, open>>
  BY DEF vars, core, tables, scans
<1>2. TableInv'
  BY <1>1, QuietTables DEF FsInv
<1>3. CoreType' /\ HookInv' /\ KidsAgree(Tree)'
  BY <1>1 DEF FsInv, TreeInv, CoreType, Tree, HookInv, KidsAgree
<1>4. ScanInv => DirsInv' /\ OwnInv' /\ ScanAgree(Tree)'
  BY <1>1 DEF ScanInv, DirsInv, OwnInv, ScanAgree, Tree
<1>5. QED
  BY <1>2, <1>3, <1>4 DEF FsInv, TreeInv, ScanInv

LEMMA FsStep ==
  ASSUME FsInv, "reuse" \notin Exposed, [Next]_vars
  PROVE  FsInv' /\ (Closed /\ ScanInv => ScanInv')
<1> USE DEF FsInv
<1>1. ASSUME NEW dir \in Dirs, NEW name \in Names, NEW mode \in Modes,
             OpenFile(dir, name, mode) \/ CreateFile(dir, name, mode)
      PROVE  FsInv' /\ (Closed /\ ScanInv => ScanInv')
  BY <1>1, OpenFileStep, CreateFileStep
<1>2. ASSUME NEW new \in Sizes, NEW h \in Slots, NEW dir, NEW name,
             Truncate(dir, name, new) \/ Ftruncate(h, new)
      PROVE  FsInv' /\ (Closed /\ ScanInv => ScanInv')
  <2>1. PICK o \in Dirs : Resized(o, new)
    BY <1>2, SizeChanges
  <2>2. TableInv'
    BY <2>1, QuietTables DEF Resized, tables
  <2>3. QED
    BY <2>1, <2>2, ResizedTree
<1>3. ASSUME NEW dir \in Dirs, NEW name \in Names, DoUnlink(dir, name)
      PROVE  FsInv' /\ (Closed /\ ScanInv => ScanInv')
  <2>1. TableInv'
    BY <1>3, QuietTables DEF DoUnlink, tables
  <2>2. QED
    BY <1>3, <2>1, DoUnlinkTree DEF TableInv
<1>4. ASSUME NEW dir \in Dirs, NEW name \in Names, NEW newdir \in Dirs,
             NEW newname \in Names, Rename(dir, name, newdir, newname)
      PROVE  FsInv' /\ (Closed /\ ScanInv => ScanInv')
  <2>1. TableInv'
    BY <1>4, QuietTables DEF Rename, tables
  <2>2. QED
    BY <1>4, <2>1, RenameTree DEF TableInv
<1>5. ASSUME NEW dir \in Dirs, Opendir(dir)
      PROVE  FsInv' /\ (Closed /\ ScanInv => ScanInv')
  BY <1>5, ScanSteps
<1>6. ASSUME NEW dir \in Dirs, NEW mode \in Modes, OpenDirectory(dir, mode)
      PROVE  FsInv' /\ (Closed /\ ScanInv => ScanInv')
  BY <1>6, OpenDirectoryStep
<1>7. ASSUME NEW name \in Names, Mkdir(name)
      PROVE  FsInv' /\ (Closed /\ ScanInv => ScanInv')
  <2>1. TableInv'
    BY <1>7, QuietTables DEF Mkdir, tables
  <2>2. QED
    BY <1>7, <2>1, MkdirTree DEF TableInv
<1>8. ASSUME NEW d \in Dscs, Readdir(d) \/ Rewinddir(d) \/ Closedir(d)
      PROVE  FsInv' /\ (Closed /\ ScanInv => ScanInv')
  <2>1. ReaddirNoLock(d) \/ RewinddirNoLock(d) \/ Closedir(d)
    BY <1>8 DEF Readdir, Rewinddir
  <2>2. QED
    BY <2>1, ScanSteps
<1>9. ASSUME NEW h \in Slots, ReaddirFd(h) \/ RewinddirFd(h)
      PROVE  FsInv' /\ (Closed /\ ScanInv => ScanInv')
  <2>1. DirOf(h) \subseteq Dscs
    BY DEF DirOf
  <2>2. \E d \in Dscs : ReaddirNoLock(d) \/ RewinddirNoLock(d)
    BY <1>9, <2>1 DEF ReaddirFd, RewinddirFd
  <2>3. QED
    BY <2>2, ScanSteps
<1>10. ASSUME NEW h \in Slots, Dup(h)
       PROVE  FsInv' /\ (Closed /\ ScanInv => ScanInv')
  BY <1>10, DupTables, DupTree
<1>11. ASSUME NEW h \in Slots, Close(h)
       PROVE  FsInv' /\ (Closed /\ ScanInv => ScanInv')
  BY <1>11, CloseTables, CloseTree
<1>12. ASSUME NEW h \in Slots, Funlink(h)
       PROVE  FsInv' /\ (Closed /\ ScanInv => ScanInv')
  <2>1. TableInv'
    BY <1>12, QuietTables DEF Funlink, tables
  <2>2. QED
    BY <1>12, <2>1, FunlinkTree
<1>13. ASSUME NEW h \in Slots, NEW new \in Sizes, Lseek(h, new)
       PROVE  FsInv' /\ (Closed /\ ScanInv => ScanInv')
  BY <1>13, LseekTables, LseekTree
<1>14. ASSUME NEW h \in Slots, NEW t \in Tasks, NEW at \in BOOLEAN, NEW off \in Sizes,
              Read(t, h, at, off, MaxSize) \/ Write(t, h, at, off, MaxSize)
       PROVE  FsInv' /\ (Closed /\ ScanInv => ScanInv')
  <2>1. PICK kind \in {"read", "write"}, ok \in BOOLEAN :
          Usable(t, h) /\ Begin(t, h, Call(kind, h, at, off, MaxSize), ok)
    BY <1>14 DEF Read, Write
  <2>2. PICK r : r = Call(kind, h, at, off, MaxSize)
    OBVIOUS
  <2>3. Begin(t, h, r, ok) /\ r.left > 0 /\ task[t] = Idle
    BY <2>1, <2>2 DEF Begin, Usable
  <2>4. obj \in [Dirs -> ObjType]
    BY CoreIs DEF TreeInv
  <2>5. /\ r \in TaskType /\ r.h = h /\ r.f = handle[h].fd
        /\ r.o = HandleToObject(h) /\ handle[h].use > 0
        /\ ~fd[handle[h].fd].isDir
        /\ inode[fd[handle[h].fd].inode].obj = HandleToObject(h)
    BY <2>1, <2>2, <2>3, <2>4, CallIs
  <2>6. TableInv'
    BY <2>3, <2>5, BeginTables
  <2>7. QED
    BY <2>3, <2>5, <2>6, BeginTree
<1>15. ASSUME NEW t \in Tasks, NextTurn(t)
       PROVE  FsInv' /\ (Closed /\ ScanInv => ScanInv')
  BY <1>15, TurnTables, TurnTree
<1>16. ASSUME NEW force \in BOOLEAN, NEW ro \in BOOLEAN,
              Unmount(force) \/ Mount(ro) \/ Remount(force, ro) \/ Format(force, ro)
       PROVE  FsInv' /\ (Closed /\ ScanInv => ScanInv')
  BY <1>16, UnmountStep, MountStep, FormatStep
<1>17. CASE UNCHANGED vars
  BY <1>17, QuietStep
<1>18. CASE Next
  <2>0. 1 \in Slots
    BY SizesAssumption DEF Slots
  <2>1. QED
    BY <1>1, <1>2, <1>3, <1>4, <1>5, <1>6, <1>7, <1>8, <1>9, <1>10, <1>11, <1>12,
       <1>13, <1>14, <1>15, <1>16, <1>18, <2>0, Zenon DEF Next
<1>19. QED
  BY <1>17, <1>18

LEMMA FsAlways ==
  ASSUME "reuse" \notin Exposed
  PROVE  Spec => []FsInv
<1>1. Init => FsInv
  BY FsInit
<1>2. FsInv /\ [Next]_vars => FsInv'
  BY FsStep
<1>3. QED
  BY <1>1, <1>2, PTL DEF Spec

-----------------------------------------------------------------------------
(* What follows.                                                           *)

(* The tables and the tree hold what the calls put there, and an entry is  *)
(* in the list of the directory it names, once: through opens, renames     *)
(* over other objects, and removals of what is open.                       *)
THEOREM TypeCorrect ==
  ASSUME "reuse" \notin Exposed
  PROVE  Spec => []TypeOK
<1>1. FsInv => TypeOK
  <2>1. SUFFICES ASSUME FsInv PROVE TypeOK
    OBVIOUS
  <2>2. /\ obj \in [Dirs -> ObjType] /\ kids \in [Dirs -> Lists]
        /\ mounted \in BOOLEAN /\ read_only \in BOOLEAN
    BY <2>1, CoreIs DEF FsInv, TreeInv, CoreType
  <2>3. \A o \in Objs : obj[o].dir \in Dirs \cup {Unlinked, None}
    BY <2>2, NamedDirs DEF ObjType
  <2>4. \A dir \in Dirs : \A i, j \in DOMAIN kids[dir] :
          kids[dir][i] = kids[dir][j] => i = j
    BY <2>2 DEF Lists
  <2>5. \A dir \in Dirs, o \in Objs :
          o \in ToSet(kids[dir]) <=> obj[o].kind # "none" /\ obj[o].dir = dir
    BY <2>1 DEF FsInv, TreeInv, KidsAgree, Tree
  <2>6. \A f \in Slots : v[f] \in (0 .. MaxSize) \cup Dscs
    BY <2>1 DEF FsInv, TableInv, TableType
  <2>7. QED
    BY <2>2, <2>3, <2>4, <2>5, <2>6 DEF TypeOK
<1>2. QED
  BY <1>1, FsAlways, PTL

(* Every count is that of what it counts, through opens, dups, closes      *)
(* during a read or write, and unmounts by force: no handle, descriptor or *)
(* inode leaks or is let go of twice (yaffsfs_PutHandle,                   *)
(* yaffsfs_PutFileDes, yaffsfs_PutInode).                                  *)
THEOREM CountsAgree ==
  ASSUME "reuse" \notin Exposed
  PROVE  Spec => []TablesAgree
<1>1. FsInv => TablesAgree
  <2>1. SUFFICES ASSUME FsInv PROVE TablesAgree
    OBVIOUS
  <2>2. TableType /\ CountInv /\ HookInv
    BY <2>1 DEF FsInv, TableInv, TreeInv
  <2>3. ASSUME NEW h \in Slots
        PROVE  IF handle[h].use = 0 THEN ~open[h]
               ELSE /\ handle[h].use = (IF open[h] THEN 1 ELSE 0) +
                         Cardinality({t \in Tasks : task[t] # Idle /\ task[t].h = h})
                    /\ HandleToInode(h) # 0
    <3>1. handle[h].use \in Nat
      BY <2>2 DEF TableType, HandleType
    <3>2. CASE handle[h].use = 0
      BY <2>2, <3>2 DEF CountInv, HandleInv
    <3>3. CASE handle[h].use # 0
      <4>1. handle[h].use > 0
        BY <3>1, <3>3
      <4>2. HandleToInode(h) # 0
        BY <2>2, <4>1, HandleLeads, SizesAssumption DEF Slots
      <4>3. handle[h].use = Holders(h)
        BY <2>2, <4>1 DEF CountInv, HandleInv
      <4>4. QED
        BY <3>3, <4>2, <4>3 DEF Holders, Users
    <3>4. QED
      BY <3>2, <3>3
  <2>4. ASSUME NEW f \in Slots
        PROVE  fd[f].count = Cardinality({h \in Slots : HandleToFileDes(h) = f})
    <3>1. {h \in Slots : HandleToFileDes(h) = f} = HandlesOf(f)
      BY SizesAssumption DEF HandleToFileDes, HandlesOf, Slots
    <3>2. QED
      BY <2>2, <3>1 DEF CountInv, FdInv
  <2>5. ASSUME NEW i \in Slots
        PROVE  /\ inode[i].count = Cardinality({f \in Slots : fd[f].count > 0
                                                              /\ fd[f].inode = i})
               /\ inode[i].count > 0 <=> inode[i].obj # None
               /\ inode[i].obj # None => obj[inode[i].obj].inode = i
    BY <2>2 DEF CountInv, InodeInv, FdsOf, HookInv
  <2>6. QED
    BY <2>3, <2>4, <2>5 DEF TablesAgree
<1>2. QED
  BY <1>1, FsAlways, PTL

(* What is open is in memory, and what was unlinked while open lasts until *)
(* its last close and no longer (yaffsfs_ReleaseInode).                    *)
THEOREM OpenLasts ==
  ASSUME "reuse" \notin Exposed
  PROVE  Spec => []OpenKept
<1>1. FsInv => OpenKept
  BY DEF FsInv, TreeInv, HookInv, OpenKept
<1>2. QED
  BY <1>1, FsAlways, PTL

(* No sequence of opens, dups and closes leaves two descriptors on one     *)
(* object of which one does what the other does not share                  *)
(* (yaffs_open_sharing_reldir).                                            *)
THEOREM SharingLasts ==
  ASSUME "reuse" \notin Exposed
  PROVE  Spec => []SharingKept
<1>1. FsInv => SharingKept
  BY DEF FsInv, TableInv
<1>2. QED
  BY <1>1, FsAlways, PTL

(* A read or write that let go of the lock finds, when it has it again,    *)
(* the file it began on, or none: never another one (yaffsfs_do_read,      *)
(* yaffsfs_do_write).                                                      *)
THEOREM FileKept ==
  ASSUME "reuse" \notin Exposed
  PROVE  Spec => []KeepsItsFile
<1>1. FsInv => KeepsItsFile
  <2>1. SUFFICES ASSUME FsInv, NEW t \in Tasks, task[t] # Idle
                 PROVE  \/ Looked(task[t]) = None
                        \/ Looked(task[t]) = task[t].o /\ mounted
    BY DEF KeepsItsFile
  <2>2. TableType /\ CountInv /\ TaskInv /\ HookInv
    BY <2>1 DEF FsInv, TableInv, TreeInv
  <2>3. PICK r : r = task[t]
    OBVIOUS
  <2>4. r \in TaskType /\ r.h \in Slots /\ r.o \in Dirs
    BY <2>1, <2>2, <2>3, BusyTask DEF TableType
  <2>5. CASE handle[r.h].use = 0
    BY <2>2, <2>3, <2>4, <2>5, HandleLeads DEF Looked
  <2>6. CASE handle[r.h].use # 0
    <3>1. /\ handle[r.h].use > 0 /\ handle[r.h].fd = r.f
          /\ inode[fd[r.f].inode].obj = r.o
      BY <2>1, <2>2, <2>3, <2>6 DEF TaskInv
    <3>2. /\ HandleToInode(r.h) \in Slots /\ HandleToObject(r.h) = r.o
          /\ inode[HandleToInode(r.h)].obj = r.o
      BY <2>2, <2>4, <3>1, HandleLeads
    <3>3. mounted
      BY <2>2, <2>4, <3>2, NamedDirs DEF HookInv
    <3>4. QED
      BY <2>3, <3>2, <3>3 DEF Looked
  <2>7. QED
    BY <2>5, <2>6
<1>2. QED
  BY <1>1, FsAlways, PTL

LEMMA ScansAlways ==
  ASSUME "reuse" \notin Exposed, Closed
  PROVE  Spec => [](FsInv /\ ScanInv)
<1>1. Init => FsInv /\ ScanInv
  BY FsInit
<1>2. (FsInv /\ ScanInv) /\ [Next]_vars => (FsInv /\ ScanInv)'
  BY FsStep
<1>3. QED
  BY <1>1, <1>2, PTL DEF Spec

(* However entries are made, renamed and removed, a search refers to a     *)
(* directory in memory and to one of its entries; when no unmount and no   *)
(* removal takes the directory from under it, and no seek its place        *)
(* (yaffsfs_RemoveObjectCallback).                                         *)
THEOREM NothingHangs ==
  ASSUME "reuse" \notin Exposed, "hanging" \notin Exposed, "seekdir" \notin Exposed
  PROVE  Spec => []NoHangingPtr
<1>1. FsInv /\ ScanInv => NoHangingPtr
  <2>1. SUFFICES ASSUME FsInv, ScanInv PROVE NoHangingPtr
    OBVIOUS
  <2>2. ASSUME NEW d \in Dscs, dsc[d].inUse
        PROVE  /\ mounted /\ obj[dsc[d].dir].kind = "dir"
               /\ dsc[d].next \in ToSet(kids[dsc[d].dir]) \cup {None}
    BY <2>1, <2>2 DEF ScanInv, DirsInv, ScanAgree, Tree
  <2>3. \A f \in Slots : fd[f].isDir =>
          /\ v[f] \in Dscs /\ dsc[v[f]].inUse
          /\ \A g \in Slots : v[g] = v[f] => f = g
    BY <2>1 DEF ScanInv, OwnInv
  <2>4. QED
    BY <2>2, <2>3 DEF NoHangingPtr
<1>2. QED
  BY <1>1, ScansAlways, PTL DEF Closed

(* Under the same conditions a search returns what stayed in the directory *)
(* since it was rewound, each entry once and none left out.                *)
THEOREM ScansComplete ==
  ASSUME "reuse" \notin Exposed, "hanging" \notin Exposed, "seekdir" \notin Exposed
  PROVE  Spec => []ScanComplete
<1>1. FsInv /\ ScanInv => ScanComplete
  BY DEF ScanInv, ScanAgree, Tree, ScanComplete
<1>2. QED
  BY <1>1, ScansAlways, PTL DEF Closed
=============================================================================
