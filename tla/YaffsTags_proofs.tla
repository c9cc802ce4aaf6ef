-------------------------- MODULE YaffsTags_proofs --------------------------
(***************************************************************************)
(* What a reader of a chunk may trust, whichever tags and data were        *)
(* written and whichever two bits have changed since.                      *)
(*                                                                         *)
(* Both codes are linear: the code of an exclusive or is the exclusive or  *)
(* of the codes, so the difference between the code that was read and the  *)
(* one computed again depends on the bits that have changed alone.  One    *)
(* bit of data leaves exactly one bit in each pair of parities and is put  *)
(* right; two leave both or none, and one bit of data with one of code     *)
(* spoils a pair; bits of code alone never look like a bit of data.        *)
(***************************************************************************)
EXTENDS YaffsTags, FiniteSetTheorems, TLAPS

-----------------------------------------------------------------------------
(* Parity.                                                                 *)

(* The parity of an exclusive or.                                          *)
LEMMA OddXor ==
  ASSUME NEW A, NEW B, IsFiniteSet(A), IsFiniteSet(B)
  PROVE  /\ IsFiniteSet(Xor(A, B))
         /\ Odd(Xor(A, B)) <=> ~(Odd(A) <=> Odd(B))
<1> DEFINE x == Cardinality(A \ B)
           y == Cardinality(B \ A)
           z == Cardinality(A \cap B)
<1>1. /\ IsFiniteSet(A \ B) /\ IsFiniteSet(B \ A) /\ IsFiniteSet(A \cap B)
      /\ x \in Nat /\ y \in Nat /\ z \in Nat
  <2>1. IsFiniteSet(A \ B) /\ IsFiniteSet(B \ A) /\ IsFiniteSet(A \cap B)
    BY FS_Difference, FS_Intersection
  <2> QED BY <2>1, FS_CardinalityType
<1>2. Cardinality(A) = x + z
  <2>1. A = (A \ B) \cup (A \cap B) /\ (A \ B) \cap (A \cap B) = {}
    OBVIOUS
  <2>2. Cardinality((A \ B) \cup (A \cap B))
          = x + z - Cardinality((A \ B) \cap (A \cap B))
    BY <1>1, FS_Union
  <2>3. Cardinality(A) = x + z - 0
    BY <2>1, <2>2, FS_EmptySet
  <2> HIDE DEF x, z
  <2> QED BY <1>1, <2>3
<1>3. Cardinality(B) = y + z
  <2>1. B = (B \ A) \cup (A \cap B) /\ (B \ A) \cap (A \cap B) = {}
    OBVIOUS
  <2>2. Cardinality((B \ A) \cup (A \cap B))
          = y + z - Cardinality((B \ A) \cap (A \cap B))
    BY <1>1, FS_Union
  <2>3. Cardinality(B) = y + z - 0
    BY <2>1, <2>2, FS_EmptySet
  <2> HIDE DEF y, z
  <2> QED BY <1>1, <2>3
<1>4. IsFiniteSet(Xor(A, B)) /\ Cardinality(Xor(A, B)) = x + y
  <2>1. (A \ B) \cap (B \ A) = {}
    OBVIOUS
  <2>2. Cardinality((A \ B) \cup (B \ A))
          = x + y - Cardinality((A \ B) \cap (B \ A))
    BY <1>1, FS_Union
  <2>3. IsFiniteSet((A \ B) \cup (B \ A))
    BY <1>1, FS_Union
  <2> QED BY <1>1, <2>1, <2>2, <2>3, FS_EmptySet DEF Xor
<1> HIDE DEF x, y, z
<1> QED BY <1>1, <1>2, <1>3, <1>4 DEF Odd

LEMMA OddSmall ==
  /\ ~Odd({})
  /\ \A x : Odd({x})
<1>1. Cardinality({}) = 0 /\ \A x : Cardinality({x}) = 1
  BY FS_EmptySet, FS_Singleton
<1> QED BY <1>1 DEF Odd

(* Exclusive or with the same set on both sides.                           *)
LEMMA XorTwice ==
  ASSUME NEW A, NEW B, NEW C
  PROVE  /\ Xor(Xor(A, B), Xor(A, C)) = Xor(B, C)
         /\ Xor(Xor(A, B), B) = A
         /\ Xor(A, {}) = A /\ Xor({}, A) = A /\ Xor(A, A) = {}
         /\ Xor(A, B) = Xor(B, A)
BY DEF Xor

(* Membership in an exclusive or decides it.                               *)
LEMMA XorIs ==
  ASSUME NEW p, NEW q, NEW r, \A k : k \in r <=> ~(k \in p <=> k \in q)
  PROVE  r = Xor(p, q)
BY DEF Xor

(* A subset of Cardinality at most two.                                    *)
LEMMA SmallSet ==
  ASSUME NEW S, IsFiniteSet(S)
  PROVE  /\ Cardinality(S) \in Nat
         /\ Cardinality(S) <= 1 => (S = {} \/ \E x \in S : S = {x})
         /\ Cardinality(S) <= 2
            => S = {} \/ (\E x \in S : S = {x})
               \/ (\E x, y \in S : x # y /\ S = {x, y})
<1>1. Cardinality(S) \in Nat /\ (Cardinality(S) = 0 <=> S = {})
  BY FS_CardinalityType, FS_EmptySet
<1>2. \A T : IsFiniteSet(T) => (Cardinality(T) = 1 <=> \E x : T = {x})
  BY FS_Singleton
<1>3. ASSUME S # {}, Cardinality(S) <= 2
      PROVE  (\E x \in S : S = {x}) \/ (\E x, y \in S : x # y /\ S = {x, y})
  <2>1. PICK x \in S : TRUE
    BY <1>3
  <2>2. IsFiniteSet(S \ {x}) /\ Cardinality(S \ {x}) = Cardinality(S) - 1
    BY FS_RemoveElement
  <2>3. CASE S \ {x} = {}
    BY <2>3, <2>1
  <2>4. CASE S \ {x} # {}
    <3>1. Cardinality(S \ {x}) = 1
      <4>1. Cardinality(S \ {x}) \in Nat /\ Cardinality(S \ {x}) # 0
        BY <2>2, <2>4, FS_EmptySet, FS_CardinalityType
      <4> QED BY <2>2, <4>1, <1>1, <1>3
    <3>2. PICK y : S \ {x} = {y}
      BY <3>1, <2>2, <1>2
    <3> QED BY <3>2, <2>1
  <2> QED BY <2>3, <2>4
<1>4. ASSUME Cardinality(S) <= 1 PROVE S = {} \/ \E x \in S : S = {x}
  BY <1>1, <1>2, <1>4
<1> QED BY <1>1, <1>3, <1>4

(* Two different members.                                                  *)
LEMMA AtLeastTwo ==
  ASSUME NEW S, IsFiniteSet(S), NEW x \in S, NEW y \in S, x # y
  PROVE  Cardinality(S) \in Nat /\ Cardinality(S) >= 2
<1>1. Cardinality(S) \in Nat
  BY FS_CardinalityType
<1>2. Cardinality(S) # 0
  BY FS_EmptySet
<1>3. Cardinality(S) # 1
  BY FS_Singleton
<1> QED BY <1>1, <1>2, <1>3

LEMMA AtLeastOne ==
  ASSUME NEW S, IsFiniteSet(S), NEW x \in S
  PROVE  Cardinality(S) \in Nat /\ Cardinality(S) >= 1
BY FS_CardinalityType, FS_EmptySet

(* Bits tells the numbers of a byte apart.                                 *)
LEMMA BitsOfByte ==
  /\ \A i : Bits(i) \subseteq 0 .. 7
  /\ \A i, j \in 0 .. 255 : Bits(i) = Bits(j) => i = j
  /\ \A i \in 0 .. 15 : Bits(i) \subseteq 0 .. 3
  /\ \A b \in 0 .. 7 : Bits(b) \subseteq 0 .. 2
<1>1. \A i : Bits(i) \subseteq 0 .. 7
  BY DEF Bits
<1>2. \A n \in 0 .. 255 :
        /\ 0 \in Bits(n) <=> n % 2 = 1
        /\ 1 \in Bits(n) <=> (n \div 2) % 2 = 1
        /\ 2 \in Bits(n) <=> (n \div 4) % 2 = 1
        /\ 3 \in Bits(n) <=> (n \div 8) % 2 = 1
  BY DEF Bits
<1>3. \A n \in 0 .. 255 :
        /\ 4 \in Bits(n) <=> (n \div 16) % 2 = 1
        /\ 5 \in Bits(n) <=> (n \div 32) % 2 = 1
        /\ 6 \in Bits(n) <=> (n \div 64) % 2 = 1
        /\ 7 \in Bits(n) <=> (n \div 128) % 2 = 1
  BY DEF Bits
<1>4. ASSUME NEW i \in 0 .. 255, NEW j \in 0 .. 255, Bits(i) = Bits(j)
      PROVE  i = j
  <2>1. i \div 128 = j \div 128
    <3>1. i \div 128 \in 0 .. 1 /\ j \div 128 \in 0 .. 1
      OBVIOUS
    <3>2. (i \div 128) % 2 = 1 <=> (j \div 128) % 2 = 1
      BY <1>3, <1>4
    <3> QED BY <3>1, <3>2
  <2>2. i \div 64 = j \div 64
    <3>1. /\ i \div 64 = 2 * (i \div 128) + ((i \div 64) % 2)
          /\ j \div 64 = 2 * (j \div 128) + ((j \div 64) % 2)
          /\ (i \div 64) % 2 \in 0 .. 1 /\ (j \div 64) % 2 \in 0 .. 1
      OBVIOUS
    <3>2. (i \div 64) % 2 = 1 <=> (j \div 64) % 2 = 1
      BY <1>3, <1>4
    <3> QED BY <3>1, <3>2, <2>1
  <2>3. i \div 32 = j \div 32
    <3>1. /\ i \div 32 = 2 * (i \div 64) + ((i \div 32) % 2)
          /\ j \div 32 = 2 * (j \div 64) + ((j \div 32) % 2)
          /\ (i \div 32) % 2 \in 0 .. 1 /\ (j \div 32) % 2 \in 0 .. 1
      OBVIOUS
    <3>2. (i \div 32) % 2 = 1 <=> (j \div 32) % 2 = 1
      BY <1>3, <1>4
    <3> QED BY <3>1, <3>2, <2>2
  <2>4. i \div 16 = j \div 16
    <3>1. /\ i \div 16 = 2 * (i \div 32) + ((i \div 16) % 2)
          /\ j \div 16 = 2 * (j \div 32) + ((j \div 16) % 2)
          /\ (i \div 16) % 2 \in 0 .. 1 /\ (j \div 16) % 2 \in 0 .. 1
      OBVIOUS
    <3>2. (i \div 16) % 2 = 1 <=> (j \div 16) % 2 = 1
      BY <1>3, <1>4
    <3> QED BY <3>1, <3>2, <2>3
  <2>5. i \div 8 = j \div 8
    <3>1. /\ i \div 8 = 2 * (i \div 16) + ((i \div 8) % 2)
          /\ j \div 8 = 2 * (j \div 16) + ((j \div 8) % 2)
          /\ (i \div 8) % 2 \in 0 .. 1 /\ (j \div 8) % 2 \in 0 .. 1
      OBVIOUS
    <3>2. (i \div 8) % 2 = 1 <=> (j \div 8) % 2 = 1
      BY <1>2, <1>4
    <3> QED BY <3>1, <3>2, <2>4
  <2>6. i \div 4 = j \div 4
    <3>1. /\ i \div 4 = 2 * (i \div 8) + ((i \div 4) % 2)
          /\ j \div 4 = 2 * (j \div 8) + ((j \div 4) % 2)
          /\ (i \div 4) % 2 \in 0 .. 1 /\ (j \div 4) % 2 \in 0 .. 1
      OBVIOUS
    <3>2. (i \div 4) % 2 = 1 <=> (j \div 4) % 2 = 1
      BY <1>2, <1>4
    <3> QED BY <3>1, <3>2, <2>5
  <2>7. i \div 2 = j \div 2
    <3>1. /\ i \div 2 = 2 * (i \div 4) + ((i \div 2) % 2)
          /\ j \div 2 = 2 * (j \div 4) + ((j \div 2) % 2)
          /\ (i \div 2) % 2 \in 0 .. 1 /\ (j \div 2) % 2 \in 0 .. 1
      OBVIOUS
    <3>2. (i \div 2) % 2 = 1 <=> (j \div 2) % 2 = 1
      BY <1>2, <1>4
    <3> QED BY <3>1, <3>2, <2>6
  <2>8. i = j
    <3>1. /\ i = 2 * (i \div 2) + ((i) % 2)
          /\ j = 2 * (j \div 2) + ((j) % 2)
          /\ (i) % 2 \in 0 .. 1 /\ (j) % 2 \in 0 .. 1
      OBVIOUS
    <3>2. (i) % 2 = 1 <=> (j) % 2 = 1
      BY <1>2, <1>4
    <3> QED BY <3>1, <3>2, <2>7
  <2> QED BY <2>8
<1>5. \A i \in 0 .. 15 : Bits(i) \subseteq 0 .. 3
  BY <1>1, <1>3
<1>6. \A b \in 0 .. 7 : Bits(b) \subseteq 0 .. 2
  BY <1>1, <1>2, <1>3
<1> QED BY <1>1, <1>4, <1>5, <1>6

LEMMA NumberOfBits ==
  \A i \in 0 .. 255 : Number(Bits(i)) = i
BY BitsOfByte DEF Number

-----------------------------------------------------------------------------
(* The codes are linear.                                                   *)

Cells == (0 .. 255) \X (0 .. 7)

LEMMA CellsFinite ==
  /\ \A S : S \subseteq Cells => IsFiniteSet(S)
  /\ \A S : S \subseteq 0 .. 255 => IsFiniteSet(S)
<1>1. \A n \in Nat : IsFiniteSet(0 .. n)
  BY FS_Interval
<1>2. \A S : S \subseteq 0 .. 255 => IsFiniteSet(S)
  <2>1. IsFiniteSet(0 .. 255)
    BY <1>1
  <2> QED BY <2>1, FS_Subset
<1>3. IsFiniteSet(Cells)
  <2>1. IsFiniteSet(0 .. 255) /\ IsFiniteSet(0 .. 7)
    BY <1>1
  <2> QED BY <2>1, FS_Product DEF Cells
<1> QED BY <1>2, <1>3, FS_Subset

(* The sets whose parities the codes take: the ones of a byte, those in a  *)
(* column that has a bit and in one that has not, and the same of lines.   *)
InByte(d, i) == {x \in d : x[1] = i}
InCol(d, j) == {x \in d : j \in Bits(x[2])}
OffCol(d, j) == {x \in d : j \notin Bits(x[2])}
InLine(odd, k) == {i \in odd : k \in Bits(i)}
OffLine(odd, k) == {i \in odd : k \notin Bits(i)}

LEMMA ParityHas ==
  ASSUME NEW d
  PROVE  /\ \A i : i \in OddBytes(d) <=> Odd(InByte(d, i))
         /\ \A W, k : /\ k \in LineParity(d, W) <=> k \in W /\ Odd(InLine(d, k))
                      /\ k \in LineParityPrime(d, W)
                           <=> k \in W /\ Odd(OffLine(d, k))
         /\ ColParity(d) \subseteq 0 .. 5
         /\ 0 \in ColParity(d) <=> Odd(OffCol(d, 0))
         /\ 1 \in ColParity(d) <=> Odd(InCol(d, 0))
         /\ 2 \in ColParity(d) <=> Odd(OffCol(d, 1))
         /\ 3 \in ColParity(d) <=> Odd(InCol(d, 1))
         /\ 4 \in ColParity(d) <=> Odd(OffCol(d, 2))
         /\ 5 \in ColParity(d) <=> Odd(InCol(d, 2))
<1>1. \A i : i \in OddBytes(d) <=> Odd(InByte(d, i))
  <2>1. OddBytes(d) = {i \in {x[1] : x \in d} : Odd(InByte(d, i))}
    BY DEF OddBytes, InByte
  <2>2. ASSUME NEW i, Odd(InByte(d, i))
        PROVE  i \in {x[1] : x \in d}
    <3>1. InByte(d, i) # {}
      BY <2>2, OddSmall
    <3>2. PICK x : x \in InByte(d, i)
      BY <3>1
    <3> QED BY <3>2 DEF InByte
  <2> QED BY <2>1, <2>2
<1>2. \A W : /\ LineParity(d, W) = {k \in W : Odd(InLine(d, k))}
             /\ LineParityPrime(d, W) = {k \in W : Odd(OffLine(d, k))}
  BY DEF LineParity, LineParityPrime, InLine, OffLine
<1>3. ColParity(d) = {2 * k + 1 : k \in {j \in 0 .. 2 : Odd(InCol(d, j))}}
                     \cup {2 * k : k \in {j \in 0 .. 2 : Odd(OffCol(d, j))}}
  BY DEF ColParity, InCol, OffCol
<1>4. \A c : c \in ColParity(d)
               <=> \/ \E j \in 0 .. 2 : c = 2 * j + 1 /\ Odd(InCol(d, j))
                   \/ \E j \in 0 .. 2 : c = 2 * j /\ Odd(OffCol(d, j))
  BY <1>3
<1>5. \A j \in 0 .. 2 : j = 0 \/ j = 1 \/ j = 2
  OBVIOUS
<1>6. /\ ColParity(d) \subseteq 0 .. 5
      /\ 0 \in ColParity(d) <=> Odd(OffCol(d, 0))
      /\ 1 \in ColParity(d) <=> Odd(InCol(d, 0))
      /\ 2 \in ColParity(d) <=> Odd(OffCol(d, 1))
      /\ 3 \in ColParity(d) <=> Odd(InCol(d, 1))
      /\ 4 \in ColParity(d) <=> Odd(OffCol(d, 2))
      /\ 5 \in ColParity(d) <=> Odd(InCol(d, 2))
  BY <1>4, <1>5
<1> QED BY <1>1, <1>2, <1>6

LEMMA OddBytesXor ==
  ASSUME NEW a \in SUBSET Cells, NEW b \in SUBSET Cells
  PROVE  /\ OddBytes(Xor(a, b)) = Xor(OddBytes(a), OddBytes(b))
         /\ OddBytes(a) \subseteq 0 .. 255
<1>1. OddBytes(a) \subseteq 0 .. 255
  BY DEF OddBytes, Cells
<1>2. ASSUME NEW i
      PROVE  Odd(InByte(Xor(a, b), i))
               <=> ~(Odd(InByte(a, i)) <=> Odd(InByte(b, i)))
  <2>1. InByte(Xor(a, b), i) = Xor(InByte(a, i), InByte(b, i))
    BY DEF Xor, InByte
  <2>2. InByte(a, i) \subseteq Cells /\ InByte(b, i) \subseteq Cells
    BY DEF InByte
  <2> QED BY <2>1, <2>2, CellsFinite, OddXor
<1>3. \A i : i \in OddBytes(Xor(a, b))
               <=> ~((i \in OddBytes(a)) <=> (i \in OddBytes(b)))
  BY <1>2, ParityHas
<1> QED BY <1>1, <1>3, XorIs

LEMMA LineParityXor ==
  ASSUME NEW a \in SUBSET (0 .. 255), NEW b \in SUBSET (0 .. 255), NEW W
  PROVE  /\ LineParity(Xor(a, b), W) = Xor(LineParity(a, W), LineParity(b, W))
         /\ LineParityPrime(Xor(a, b), W)
              = Xor(LineParityPrime(a, W), LineParityPrime(b, W))
<1>1. ASSUME NEW k
      PROVE  /\ Odd(InLine(Xor(a, b), k))
                  <=> ~(Odd(InLine(a, k)) <=> Odd(InLine(b, k)))
             /\ Odd(OffLine(Xor(a, b), k))
                  <=> ~(Odd(OffLine(a, k)) <=> Odd(OffLine(b, k)))
  <2>1. /\ InLine(Xor(a, b), k) = Xor(InLine(a, k), InLine(b, k))
        /\ OffLine(Xor(a, b), k) = Xor(OffLine(a, k), OffLine(b, k))
    BY DEF Xor, InLine, OffLine
  <2>2. /\ InLine(a, k) \subseteq 0 .. 255 /\ InLine(b, k) \subseteq 0 .. 255
        /\ OffLine(a, k) \subseteq 0 .. 255 /\ OffLine(b, k) \subseteq 0 .. 255
    BY DEF InLine, OffLine
  <2>3. /\ IsFiniteSet(InLine(a, k)) /\ IsFiniteSet(InLine(b, k))
        /\ IsFiniteSet(OffLine(a, k)) /\ IsFiniteSet(OffLine(b, k))
    BY <2>2, CellsFinite
  <2> QED BY <2>1, <2>3, OddXor
<1>2. LineParity(Xor(a, b), W) = Xor(LineParity(a, W), LineParity(b, W))
  <2> DEFINE p == LineParity(a, W)
             q == LineParity(b, W)
             r == LineParity(Xor(a, b), W)
  <2>1. /\ r \subseteq W /\ p \subseteq W /\ q \subseteq W
        /\ \A k \in W : /\ k \in r <=> Odd(InLine(Xor(a, b), k))
                        /\ k \in p <=> Odd(InLine(a, k))
                        /\ k \in q <=> Odd(InLine(b, k))
    BY DEF LineParity, InLine
  <2> HIDE DEF p, q, r
  <2>2. r = Xor(p, q)
    BY <1>1, <2>1 DEF Xor
  <2> QED BY <2>2 DEF p, q, r
<1>3. LineParityPrime(Xor(a, b), W) = Xor(LineParityPrime(a, W), LineParityPrime(b, W))
  <2> DEFINE p == LineParityPrime(a, W)
             q == LineParityPrime(b, W)
             r == LineParityPrime(Xor(a, b), W)
  <2>1. /\ r \subseteq W /\ p \subseteq W /\ q \subseteq W
        /\ \A k \in W : /\ k \in r <=> Odd(OffLine(Xor(a, b), k))
                        /\ k \in p <=> Odd(OffLine(a, k))
                        /\ k \in q <=> Odd(OffLine(b, k))
    BY DEF LineParityPrime, OffLine
  <2> HIDE DEF p, q, r
  <2>2. r = Xor(p, q)
    BY <1>1, <2>1 DEF Xor
  <2> QED BY <2>2 DEF p, q, r
<1> QED BY <1>2, <1>3

LEMMA ColParityXor ==
  ASSUME NEW a \in SUBSET Cells, NEW b \in SUBSET Cells
  PROVE  ColParity(Xor(a, b)) = Xor(ColParity(a), ColParity(b))
<1>1. ASSUME NEW j
      PROVE  /\ Odd(InCol(Xor(a, b), j))
                  <=> ~(Odd(InCol(a, j)) <=> Odd(InCol(b, j)))
             /\ Odd(OffCol(Xor(a, b), j))
                  <=> ~(Odd(OffCol(a, j)) <=> Odd(OffCol(b, j)))
  <2>1. /\ InCol(Xor(a, b), j) = Xor(InCol(a, j), InCol(b, j))
        /\ OffCol(Xor(a, b), j) = Xor(OffCol(a, j), OffCol(b, j))
    BY DEF Xor, InCol, OffCol
  <2>2. /\ InCol(a, j) \subseteq Cells /\ InCol(b, j) \subseteq Cells
        /\ OffCol(a, j) \subseteq Cells /\ OffCol(b, j) \subseteq Cells
    BY DEF InCol, OffCol
  <2>3. /\ IsFiniteSet(InCol(a, j)) /\ IsFiniteSet(InCol(b, j))
        /\ IsFiniteSet(OffCol(a, j)) /\ IsFiniteSet(OffCol(b, j))
    BY <2>2, CellsFinite
  <2> QED BY <2>1, <2>3, OddXor
<1> DEFINE p == ColParity(a)
           q == ColParity(b)
           r == ColParity(Xor(a, b))
<1>2. \A c \in {0, 1, 2, 3, 4, 5} : c \in r <=> ~(c \in p <=> c \in q)
  BY <1>1, ParityHas
<1>3. p \subseteq 0 .. 5 /\ q \subseteq 0 .. 5 /\ r \subseteq 0 .. 5
  BY ParityHas
<1> HIDE DEF p, q, r
<1>4. \A c : c \in r <=> ~(c \in p <=> c \in q)
  <2>1. \A c : c \in 0 .. 5 => c \in {0, 1, 2, 3, 4, 5}
    OBVIOUS
  <2> TAKE c
  <2>2. CASE c \in 0 .. 5
    BY <1>2, <2>1, <2>2
  <2>3. CASE c \notin 0 .. 5
    BY <1>3, <2>3
  <2> QED BY <2>2, <2>3
<1>5. r = Xor(p, q)
  BY <1>4 DEF Xor
<1> QED BY <1>5 DEF p, q, r

(* Of each pair of columns the one that has the bit.                       *)
ColumnIs(c, b) ==
  /\ 0 \in c <=> 0 \notin Bits(b)
  /\ 1 \in c <=> 0 \in Bits(b)
  /\ 2 \in c <=> 1 \notin Bits(b)
  /\ 3 \in c <=> 1 \in Bits(b)
  /\ 4 \in c <=> 2 \notin Bits(b)
  /\ 5 \in c <=> 2 \in Bits(b)

(* One bit: in each pair of parities exactly the one that has it.          *)
LEMMA ParityOfOne ==
  ASSUME NEW i \in 0 .. 255, NEW b \in 0 .. 7, NEW W, NEW d, d = {<<i, b>>}
  PROVE  /\ OddBytes(d) = {i}
         /\ LineParity({i}, W) = W \cap Bits(i)
         /\ LineParityPrime({i}, W) = W \ Bits(i)
         /\ ColumnIs(ColParity(d), b)
<1>1. OddBytes(d) = {i}
  <2>1. \A n : InByte(d, n) = IF n = i THEN d ELSE {}
    BY DEF InByte
  <2>2. \A n : n \in OddBytes(d) <=> n = i
    <3>1. \A n : Odd(InByte(d, n)) <=> n = i
      BY <2>1, OddSmall
    <3> QED BY <3>1, ParityHas
  <2> QED BY <2>2
<1>2. \A k : /\ InLine({i}, k) = IF k \in Bits(i) THEN {i} ELSE {}
             /\ OffLine({i}, k) = IF k \in Bits(i) THEN {} ELSE {i}
  BY DEF InLine, OffLine
<1>3. \A k : /\ k \in LineParity({i}, W) <=> k \in W /\ k \in Bits(i)
             /\ k \in LineParityPrime({i}, W) <=> k \in W /\ k \notin Bits(i)
  <2>1. \A k : /\ Odd(InLine({i}, k)) <=> k \in Bits(i)
               /\ Odd(OffLine({i}, k)) <=> k \notin Bits(i)
    BY <1>2, OddSmall
  <2> QED BY <2>1, ParityHas
<1>4. \A j : /\ InCol(d, j) = IF j \in Bits(b) THEN d ELSE {}
             /\ OffCol(d, j) = IF j \in Bits(b) THEN {} ELSE d
  BY DEF InCol, OffCol
<1>5. \A j : /\ Odd(InCol(d, j)) <=> j \in Bits(b)
             /\ Odd(OffCol(d, j)) <=> j \notin Bits(b)
  BY <1>4, OddSmall
<1>8. /\ Odd(InCol(d, 0)) <=> 0 \in Bits(b)
      /\ Odd(OffCol(d, 0)) <=> 0 \notin Bits(b)
  BY <1>5
<1>9. Odd(InCol(d, 1)) <=> 1 \in Bits(b)
  BY <1>5, Zenon
<1>6. ColumnIs(ColParity(d), b)
  <2> DEFINE c == ColParity(d)
  <2>1. /\ 0 \in c <=> Odd(OffCol(d, 0))
        /\ 1 \in c <=> Odd(InCol(d, 0))
        /\ 2 \in c <=> Odd(OffCol(d, 1))
        /\ 3 \in c <=> Odd(InCol(d, 1))
        /\ 4 \in c <=> Odd(OffCol(d, 2))
        /\ 5 \in c <=> Odd(InCol(d, 2))
    BY ParityHas
  <2> HIDE DEF c
  <2>2. ColumnIs(c, b)
    BY <1>5, <2>1 DEF ColumnIs
  <2> QED BY <2>2 DEF c
<1>7. /\ LineParity({i}, W) = W \cap Bits(i)
      /\ LineParityPrime({i}, W) = W \ Bits(i)
  BY <1>3
<1> QED BY <1>1, <1>6, <1>7

-----------------------------------------------------------------------------
(* The code of the tags.  What it decides depends on the differences alone *)
(* between the code that was read and the one computed again.              *)

OtherResult(d, n_bytes, col, line, prime) ==
  IF col \cup line \cup prime = {} THEN [data |-> d, status |-> "ok"]
  ELSE IF line = Word \ prime /\ OneColumn(col)
  THEN IF \A i \in 0 .. n_bytes - 1 : Bits(i) # line
       THEN [data |-> d, status |-> "unfixed"]
       ELSE [data |-> Xor(d, {<<Number(line), Column(col)>>}),
             status |-> "fixed"]
  ELSE [data |-> d,
        status |-> IF Cardinality(line) + Cardinality(prime)
                      + Cardinality(col) = 1 THEN "fixed" ELSE "unfixed"]

LEMMA OtherResultIs ==
  ASSUME NEW d, NEW n_bytes, NEW read, NEW test
  PROVE  EccCorrectOther(d, n_bytes, read, test)
           = OtherResult(d, n_bytes, Xor(read.col, test.col),
                         Xor(read.line, test.line), Xor(read.prime, test.prime))
BY DEF EccCorrectOther, OtherResult

LEMMA OneColumnIs ==
  ASSUME NEW c
  PROVE  OneColumn(c) <=> /\ ~(0 \in c <=> 1 \in c)
                          /\ ~(2 \in c <=> 3 \in c)
                          /\ ~(4 \in c <=> 5 \in c)
<1>1. OneColumn(c) <=> \A k \in {0, 1, 2} : ~(2 * k \in c <=> 2 * k + 1 \in c)
  <2>1. 0 .. 2 = {0, 1, 2}
    OBVIOUS
  <2> QED BY <2>1 DEF OneColumn
<1>2. 2 * 0 = 0 /\ 2 * 1 = 2 /\ 2 * 2 = 4
  OBVIOUS
<1>3. 0 + 1 = 1 /\ 2 + 1 = 3 /\ 4 + 1 = 5
  OBVIOUS
<1> QED BY <1>1, <1>2, <1>3

(* The column of a single bit is found, even if bits of the code beyond    *)
(* the six have changed.                                                   *)
LEMMA ColumnOfOne ==
  ASSUME NEW c, NEW b \in 0 .. 7, ColumnIs(c, b)
  PROVE  OneColumn(c) /\ Column(c) = b
<1>1. OneColumn(c)
  BY OneColumnIs DEF ColumnIs
<1>2. {k \in 0 .. 2 : 2 * k + 1 \in c} = Bits(b)
  <2>1. Bits(b) \subseteq 0 .. 2
    BY BitsOfByte
  <2>2. \A k \in 0 .. 2 : 2 * k + 1 \in c <=> k \in Bits(b)
    <3> TAKE k \in 0 .. 2
    <3>1. (k = 0 /\ 2 * k + 1 = 1) \/ (k = 1 /\ 2 * k + 1 = 3)
          \/ (k = 2 /\ 2 * k + 1 = 5)
      OBVIOUS
    <3> QED BY <3>1 DEF ColumnIs
  <2> QED BY <2>1, <2>2
<1>3. Column(c) = Number(Bits(b))
  BY <1>2 DEF Column
<1> QED BY <1>1, <1>3, NumberOfBits

(* Two lines that differ leave at least two bits.                          *)
LEMMA TwoBitsDiffer ==
  ASSUME NEW line \in SUBSET Word, NEW prime \in SUBSET Word,
         NEW col \in SUBSET (0 .. 7), NEW k, NEW m, k # m,
         k \in line \cup prime, m \in line \cup prime
  PROVE  Cardinality(line) + Cardinality(prime) + Cardinality(col) # 1
<1>1. /\ line \subseteq 0 .. 255 /\ prime \subseteq 0 .. 255
      /\ col \subseteq 0 .. 255
  BY DEF Word
<1>2. IsFiniteSet(line) /\ IsFiniteSet(prime) /\ IsFiniteSet(col)
  BY <1>1, CellsFinite
<1>3. /\ Cardinality(line) \in Nat /\ Cardinality(prime) \in Nat
      /\ Cardinality(col) \in Nat
  BY <1>2, FS_CardinalityType
<1>4. CASE k \in line /\ m \in line
  <2>1. Cardinality(line) >= 2
    BY <1>2, <1>4, AtLeastTwo
  <2> QED BY <1>3, <2>1
<1>5. CASE k \in prime /\ m \in prime
  <2>1. Cardinality(prime) >= 2
    BY <1>2, <1>5, AtLeastTwo
  <2> QED BY <1>3, <2>1
<1>6. CASE (k \in line /\ m \in prime) \/ (m \in line /\ k \in prime)
  <2>1. Cardinality(line) >= 1 /\ Cardinality(prime) >= 1
    BY <1>2, <1>6, AtLeastOne
  <2> QED BY <1>3, <2>1
<1> QED BY <1>4, <1>5, <1>6

(* At most one bit of the code differs.                                    *)
AtMostOne(col, line, prime) ==
  \/ \E b : (col = {b} /\ line = {} /\ prime = {})
  \/ \E b : (col = {} /\ line = {b} /\ prime = {})
  \/ \E b : (col = {} /\ line = {} /\ prime = {b})
  \/ (col = {} /\ line = {} /\ prime = {})

(* No bit of the data differs.                                             *)
LEMMA OtherNoData ==
  ASSUME NEW d, NEW line \in SUBSET Word, NEW prime \in SUBSET Word,
         NEW col \in SUBSET (0 .. 7), NEW k \in Word, k \notin line \cup prime
  PROVE  /\ OtherResult(d, 16, col, line, prime).data = d
         /\ AtMostOne(col, line, prime)
            => OtherResult(d, 16, col, line, prime).status # "unfixed"
<1>1. line # Word \ prime
  OBVIOUS
<1>2. OtherResult(d, 16, col, line, prime)
        = IF col \cup line \cup prime = {} THEN [data |-> d, status |-> "ok"]
          ELSE [data |-> d,
                status |-> IF Cardinality(line) + Cardinality(prime)
                              + Cardinality(col) = 1
                           THEN "fixed" ELSE "unfixed"]
  BY <1>1 DEF OtherResult
<1>3. Cardinality({}) = 0 /\ \A b : Cardinality({b}) = 1
  BY FS_EmptySet, FS_Singleton
<1>4. ASSUME \/ \E b : (col = {b} /\ line = {} /\ prime = {})
             \/ \E b : (col = {} /\ line = {b} /\ prime = {})
             \/ \E b : (col = {} /\ line = {} /\ prime = {b})
      PROVE  Cardinality(line) + Cardinality(prime) + Cardinality(col) = 1
  <2>1. \/ Cardinality(col) = 1 /\ Cardinality(line) = 0
           /\ Cardinality(prime) = 0
        \/ Cardinality(col) = 0 /\ Cardinality(line) = 1
           /\ Cardinality(prime) = 0
        \/ Cardinality(col) = 0 /\ Cardinality(line) = 0
           /\ Cardinality(prime) = 1
    BY <1>3, <1>4
  <2> QED BY <2>1
<1> DEFINE r == OtherResult(d, 16, col, line, prime)
<1>5. r.data = d /\ (r.status = "unfixed" =>
                       /\ col \cup line \cup prime # {}
                       /\ Cardinality(line) + Cardinality(prime)
                            + Cardinality(col) # 1)
  BY <1>2
<1> HIDE DEF r
<1>6. (col = {} /\ line = {} /\ prime = {}) => r.status # "unfixed"
  BY <1>5
<1> QED BY <1>4, <1>5, <1>6 DEF r, AtMostOne

(* One bit of the data, and at most the two unused bits of the columns.    *)
LEMMA OtherOneData ==
  ASSUME NEW d0, NEW i \in 0 .. 15, NEW b \in 0 .. 7, NEW col,
         ColumnIs(col, b)
  PROVE  OtherResult(Xor(d0, {<<i, b>>}), 16, col, Word \cap Bits(i),
                     Word \ Bits(i)) = [data |-> d0, status |-> "fixed"]
<1> DEFINE line == Word \cap Bits(i)
           prime == Word \ Bits(i)
<1>1. line = Bits(i) /\ line = Word \ prime
  <2>1. Bits(i) \subseteq 0 .. 7
    BY BitsOfByte
  <2>2. Bits(i) \subseteq Word
    BY <2>1 DEF Word
  <2> QED BY <2>2
<1>2. OneColumn(col) /\ Column(col) = b
  BY ColumnOfOne
<1>3. col \cup line \cup prime # {}
  BY <1>1 DEF Word
<1>4. Number(line) = i
  BY <1>1, NumberOfBits
<1>5. i \in 0 .. 16 - 1
  OBVIOUS
<1>6. ~ \A n \in 0 .. 16 - 1 : Bits(n) # line
  BY <1>1, <1>5
<1>7. Xor(Xor(d0, {<<i, b>>}), {<<i, b>>}) = d0
  BY DEF Xor
<1> HIDE DEF line, prime
<1>8. OtherResult(Xor(d0, {<<i, b>>}), 16, col, line, prime)
        = [data |-> Xor(Xor(d0, {<<i, b>>}), {<<Number(line), Column(col)>>}),
           status |-> "fixed"]
  BY <1>1, <1>2, <1>3, <1>6 DEF OtherResult
<1> QED BY <1>2, <1>4, <1>7, <1>8 DEF line, prime

(* A pair with both bits or none, and at least two bits.                   *)
LEMMA OtherUnfixed ==
  ASSUME NEW d, NEW line, NEW prime, NEW col,
         line # Word \ prime \/ ~OneColumn(col),
         col \cup line \cup prime # {},
         Cardinality(line) + Cardinality(prime) + Cardinality(col) # 1
  PROVE  OtherResult(d, 16, col, line, prime).status = "unfixed"
BY DEF OtherResult

(* The differences of the code of the tags are those of the bits that have *)
(* changed.                                                                *)
LEMMA OtherDelta ==
  ASSUME NEW d \in SUBSET Cells, NEW D \in SUBSET Cells, NEW e
  PROVE  /\ Xor(Xor(EccCalcOther(d).col, e), EccCalcOther(Xor(d, D)).col)
              = Xor(e, ColParity(D))
         /\ Xor(Xor(EccCalcOther(d).line, e), EccCalcOther(Xor(d, D)).line)
              = Xor(e, LineParity(OddBytes(D), Word))
         /\ Xor(Xor(EccCalcOther(d).prime, e), EccCalcOther(Xor(d, D)).prime)
              = Xor(e, LineParityPrime(OddBytes(D), Word))
<1>1. \A x : /\ EccCalcOther(x).col = ColParity(x)
             /\ EccCalcOther(x).line = LineParity(OddBytes(x), Word)
             /\ EccCalcOther(x).prime = LineParityPrime(OddBytes(x), Word)
  BY DEF EccCalcOther
<1>2. /\ OddBytes(Xor(d, D)) = Xor(OddBytes(d), OddBytes(D))
      /\ OddBytes(d) \in SUBSET (0 .. 255) /\ OddBytes(D) \in SUBSET (0 .. 255)
  BY OddBytesXor
<1>3. /\ LineParity(OddBytes(Xor(d, D)), Word)
           = Xor(LineParity(OddBytes(d), Word), LineParity(OddBytes(D), Word))
      /\ LineParityPrime(OddBytes(Xor(d, D)), Word)
           = Xor(LineParityPrime(OddBytes(d), Word),
                 LineParityPrime(OddBytes(D), Word))
  BY <1>2, LineParityXor
<1>4. ColParity(Xor(d, D)) = Xor(ColParity(d), ColParity(D))
  BY ColParityXor
<1>5. \A a, c : Xor(Xor(a, e), Xor(a, c)) = Xor(e, c)
  BY XorTwice
<1> QED BY <1>1, <1>3, <1>4, <1>5

LEMMA ParityOfNone ==
  ASSUME NEW W
  PROVE  /\ OddBytes({}) = {} /\ ColParity({}) = {}
         /\ LineParity({}, W) = {} /\ LineParityPrime({}, W) = {}
<1>1. {} \in SUBSET Cells /\ {} \in SUBSET (0 .. 255) /\ Xor({}, {}) = {}
  BY DEF Xor
<1>2. OddBytes({}) = {}
  BY DEF OddBytes
<1>3. ColParity({}) = Xor(ColParity({}), ColParity({}))
  BY <1>1, ColParityXor
<1>4. /\ LineParity({}, W) = Xor(LineParity({}, W), LineParity({}, W))
      /\ LineParityPrime({}, W)
           = Xor(LineParityPrime({}, W), LineParityPrime({}, W))
  <2> DEFINE z == {}
  <2>1. z \in SUBSET (0 .. 255) /\ Xor(z, z) = z
    BY <1>1
  <2> HIDE DEF z
  <2>2. /\ LineParity(Xor(z, z), W) = Xor(LineParity(z, W), LineParity(z, W))
        /\ LineParityPrime(Xor(z, z), W)
             = Xor(LineParityPrime(z, W), LineParityPrime(z, W))
    BY <2>1, LineParityXor
  <2>3. /\ LineParity(z, W) = Xor(LineParity(z, W), LineParity(z, W))
        /\ LineParityPrime(z, W)
             = Xor(LineParityPrime(z, W), LineParityPrime(z, W))
    BY <2>1, <2>2
  <2> QED BY <2>3 DEF z
<1>5. \A S : Xor(S, S) = {}
  BY DEF Xor
<1> QED BY <1>2, <1>3, <1>4, <1>5

(* One bit of the data and one of the code: given up, unless the one of    *)
(* the code is not used.                                                   *)
LEMMA OtherDataAndLine ==
  ASSUME NEW d, NEW col \in SUBSET (0 .. 7), NEW m \in Word,
         NEW line \in SUBSET Word, NEW prime \in SUBSET Word,
         m \in line <=> m \in prime,
         \A k \in Word : k # m => k \in line \cup prime
  PROVE  OtherResult(d, 16, col, line, prime).status = "unfixed"
<1>3. line # Word \ prime
  OBVIOUS
<1>4. 0 \in Word /\ 1 \in Word /\ 2 \in Word
  BY DEF Word
<1>5. PICK k \in Word, n \in Word :
        k # n /\ k \in line \cup prime /\ n \in line \cup prime
  <2>1. CASE m = 0
    BY <1>4, <2>1
  <2>2. CASE m # 0
    <3>1. CASE m = 1
      BY <1>4, <2>2, <3>1
    <3>2. CASE m # 1
      BY <1>4, <2>2, <3>2
    <3> QED BY <3>1, <3>2
  <2> QED BY <2>1, <2>2
<1>6. Cardinality(line) + Cardinality(prime) + Cardinality(col) # 1
  BY <1>5, TwoBitsDiffer
<1>7. col \cup line \cup prime # {}
  BY <1>5
<1> QED BY <1>3, <1>6, <1>7, OtherUnfixed

(* The columns of bit b with that of one more place changed.               *)
ColumnSpoilt(col, b, c) ==
  \E C : /\ ColumnIs(C, b)
         /\ \A e : e \in col <=> (IF e = c THEN e \notin C ELSE e \in C)

LEMMA OtherDataAndColumn ==
  ASSUME NEW d, NEW b \in 0 .. 7, NEW c \in 0 .. 5,
         NEW col \in SUBSET (0 .. 7), ColumnSpoilt(col, b, c),
         NEW line \in SUBSET Word, NEW prime \in SUBSET Word,
         \A k \in Word : k \in line \cup prime
  PROVE  OtherResult(d, 16, col, line, prime).status = "unfixed"
<1>1. c = 0 \/ c = 1 \/ c = 2 \/ c = 3 \/ c = 4 \/ c = 5
  OBVIOUS
<1> PICK C : /\ ColumnIs(C, b)
             /\ \A e : e \in col <=> (IF e = c THEN e \notin C ELSE e \in C)
  BY DEF ColumnSpoilt
<1>2. 0 \in line \cup prime /\ 1 \in line \cup prime
  BY DEF Word
<1>3. ~OneColumn(col)
  BY <1>1, OneColumnIs DEF ColumnIs
<1>4. Cardinality(line) + Cardinality(prime) + Cardinality(col) # 1
  <2>1. 0 # 1
    OBVIOUS
  <2> QED BY <1>2, <2>1, TwoBitsDiffer
<1>5. col \cup line \cup prime # {}
  BY <1>2
<1> QED BY <1>3, <1>4, <1>5, OtherUnfixed

(* Two bits of the data: in each pair both parities differ or none.        *)
OfTwo(col, line, prime) ==
  \E i, j \in 0 .. 15, b, e \in 0 .. 7, C, G \in SUBSET (0 .. 5) :
    /\ i # j \/ b # e
    /\ ColumnIs(C, b) /\ ColumnIs(G, e) /\ col = Xor(C, G)
    /\ line = Xor(Word \cap Bits(i), Word \cap Bits(j))
    /\ prime = Xor(Word \ Bits(i), Word \ Bits(j))

LEMMA OtherTwoData ==
  ASSUME NEW d, NEW col, NEW line, NEW prime, OfTwo(col, line, prime)
  PROVE  OtherResult(d, 16, col, line, prime).status = "unfixed"
<1> PICK i \in 0 .. 15, j \in 0 .. 15, b \in 0 .. 7, e \in 0 .. 7,
         C \in SUBSET (0 .. 5), G \in SUBSET (0 .. 5) :
      /\ i # j \/ b # e
      /\ ColumnIs(C, b) /\ ColumnIs(G, e) /\ col = Xor(C, G)
      /\ line = Xor(Word \cap Bits(i), Word \cap Bits(j))
      /\ prime = Xor(Word \ Bits(i), Word \ Bits(j))
  BY DEF OfTwo
<1>1. col \in SUBSET (0 .. 7) /\ line \in SUBSET Word /\ prime = line
  BY DEF Xor
<1>2. \A k : k \in col <=> ~(k \in C <=> k \in G)
  BY DEF Xor
<1>3. \A k \in Word : k \in line <=> ~(k \in Bits(i) <=> k \in Bits(j))
  BY DEF Xor
<1>4. ~OneColumn(col)
  BY <1>2, OneColumnIs DEF ColumnIs
<1>5. /\ IsFiniteSet(line) /\ IsFiniteSet(col)
      /\ Cardinality(line) \in Nat /\ Cardinality(col) \in Nat
  <2>1. Word \subseteq 0 .. 255 /\ 0 .. 7 \subseteq 0 .. 255
    BY DEF Word
  <2>2. line \subseteq 0 .. 255 /\ col \subseteq 0 .. 255
    BY <1>1, <2>1
  <2> QED BY <2>2, CellsFinite, FS_CardinalityType
<1>6. CASE i # j
  <2>1. i \in 0 .. 255 /\ j \in 0 .. 255
    OBVIOUS
  <2>2. Bits(i) # Bits(j)
    BY <1>6, <2>1, BitsOfByte
  <2>3. Bits(i) \subseteq 0 .. 7 /\ Bits(j) \subseteq 0 .. 7
    BY BitsOfByte
  <2>4. Bits(i) \subseteq Word /\ Bits(j) \subseteq Word
    BY <2>3 DEF Word
  <2>5. PICK k \in Word : k \in line
    BY <1>3, <2>2, <2>4
  <2>6. Cardinality(line) >= 1
    BY <1>5, <2>5, AtLeastOne
  <2>7. Cardinality(line) + Cardinality(line) + Cardinality(col) # 1
    BY <1>5, <2>6
  <2>8. OtherResult(d, 16, col, line, prime).status = "unfixed"
    BY <1>1, <1>4, <2>5, <2>7, OtherUnfixed
  <2> QED BY <2>8
<1>7. CASE b # e
  <2>1. ~(0 \in Bits(b) <=> 0 \in Bits(e)) \/ ~(1 \in Bits(b) <=> 1 \in Bits(e))
        \/ ~(2 \in Bits(b) <=> 2 \in Bits(e))
    <3>1. b \in 0 .. 255 /\ e \in 0 .. 255
      OBVIOUS
    <3>2. Bits(b) # Bits(e)
      BY <1>7, <3>1, BitsOfByte
    <3>3. Bits(b) \subseteq 0 .. 2 /\ Bits(e) \subseteq 0 .. 2
      BY BitsOfByte
    <3>4. \A k \in 0 .. 2 : k = 0 \/ k = 1 \/ k = 2
      OBVIOUS
    <3> QED BY <3>2, <3>3, <3>4
  <2>2. PICK k \in col, n \in col : k # n
    <3>1. (0 \in col /\ 1 \in col) \/ (2 \in col /\ 3 \in col)
          \/ (4 \in col /\ 5 \in col)
      BY <1>2, <2>1 DEF ColumnIs
    <3> QED BY <3>1
  <2>3. Cardinality(col) >= 2
    BY <1>5, <2>2, AtLeastTwo
  <2>4. Cardinality(line) + Cardinality(line) + Cardinality(col) # 1
    BY <1>5, <2>3
  <2>5. OtherResult(d, 16, col, line, prime).status = "unfixed"
    BY <1>1, <1>4, <2>2, <2>4, OtherUnfixed
  <2> QED BY <2>5
<1> QED BY <1>6, <1>7

-----------------------------------------------------------------------------
(* The code of a block of data, in 24 bits.                                *)

EccResult(d, delta) ==
  LET line == {k \in 0 .. 7 : 2 * k + 1 \in delta}
      col == {c \in 0 .. 5 : 18 + c \in delta}
  IN IF delta = {} THEN [data |-> d, status |-> "ok"]
     ELSE IF /\ \A k \in 0 .. 7 : (2 * k \in delta) # (2 * k + 1 \in delta)
             /\ OneColumn(col)
     THEN [data |-> Xor(d, {<<Number(line), Column(col)>>}), status |-> "fixed"]
     ELSE [data |-> d,
           status |-> IF Cardinality(delta) = 1 THEN "fixed" ELSE "unfixed"]

LEMMA EccResultIs ==
  ASSUME NEW d, NEW read, NEW test
  PROVE  EccCorrect(d, read, test) = EccResult(d, Xor(read, test))
BY DEF EccCorrect, EccResult

Spread(L, P, C) ==
  {2 * k + 1 : k \in L} \cup {2 * k : k \in P} \cup {18 + c : c \in C}

Raw(d) ==
  Spread(LineParity(OddBytes(d), 0 .. 7), LineParityPrime(OddBytes(d), 0 .. 7),
         ColParity(d))

LEMMA SpreadHas ==
  ASSUME NEW L \in SUBSET (0 .. 7), NEW P \in SUBSET (0 .. 7),
         NEW C \in SUBSET (0 .. 5)
  PROVE  /\ Spread(L, P, C) \subseteq 0 .. 23
         /\ 16 \notin Spread(L, P, C) /\ 17 \notin Spread(L, P, C)
         /\ \A k \in 0 .. 7 : /\ 2 * k + 1 \in Spread(L, P, C) <=> k \in L
                              /\ 2 * k \in Spread(L, P, C) <=> k \in P
         /\ \A c \in 0 .. 5 : 18 + c \in Spread(L, P, C) <=> c \in C
<1>1. \A x : x \in Spread(L, P, C) <=> \/ \E k \in L : x = 2 * k + 1
                                       \/ \E k \in P : x = 2 * k
                                       \/ \E c \in C : x = 18 + c
  BY DEF Spread
<1>2. /\ \A k, m \in 0 .. 7 : /\ 2 * k + 1 = 2 * m + 1 => k = m
                              /\ 2 * k = 2 * m => k = m
                              /\ 2 * k # 2 * m + 1
      /\ \A c, e \in 0 .. 5 : 18 + c = 18 + e => c = e
      /\ \A k \in 0 .. 7 : /\ 2 * k \in 0 .. 15
                           /\ 2 * k + 1 \in 0 .. 15
      /\ \A c \in 0 .. 5 : 18 + c \in 18 .. 23
  OBVIOUS
<1>3. \A x \in 18 .. 23 : x \notin 0 .. 15
  OBVIOUS
<1>4. \A k \in 0 .. 7 : 2 * k + 1 \in Spread(L, P, C) <=> k \in L
  BY <1>1, <1>2, <1>3
<1>5. \A k \in 0 .. 7 : 2 * k \in Spread(L, P, C) <=> k \in P
  BY <1>1, <1>2, <1>3
<1>6. \A c \in 0 .. 5 : 18 + c \in Spread(L, P, C) <=> c \in C
  BY <1>1, <1>2, <1>3
<1>7. /\ Spread(L, P, C) \subseteq 0 .. 23
      /\ 16 \notin Spread(L, P, C) /\ 17 \notin Spread(L, P, C)
  BY <1>1, <1>2
<1> QED BY <1>4, <1>5, <1>6, <1>7

(* Every bit of the code is one of a line, one of a column or unused.      *)
LEMMA CodeBits ==
  \A x \in 0 .. 23 : \/ x = 16 \/ x = 17
                     \/ \E k \in 0 .. 7 : x = 2 * k \/ x = 2 * k + 1
                     \/ \E c \in 0 .. 5 : x = 18 + c
<1> TAKE x \in 0 .. 23
<1>1. CASE x <= 15
  <2>1. x \div 2 \in 0 .. 7 /\ (x = 2 * (x \div 2) \/ x = 2 * (x \div 2) + 1)
    BY <1>1
  <2> QED BY <2>1
<1>2. CASE x >= 18
  <2>1. x - 18 \in 0 .. 5 /\ x = 18 + (x - 18)
    BY <1>2
  <2> QED BY <2>1
<1> QED BY <1>1, <1>2

LEMMA SpreadXor ==
  ASSUME NEW L \in SUBSET (0 .. 7), NEW P \in SUBSET (0 .. 7),
         NEW C \in SUBSET (0 .. 5), NEW M \in SUBSET (0 .. 7),
         NEW Q \in SUBSET (0 .. 7), NEW D \in SUBSET (0 .. 5)
  PROVE  Spread(Xor(L, M), Xor(P, Q), Xor(C, D))
           = Xor(Spread(L, P, C), Spread(M, Q, D))
<1> DEFINE r == Spread(Xor(L, M), Xor(P, Q), Xor(C, D))
           p == Spread(L, P, C)
           q == Spread(M, Q, D)
<1>1. /\ r \subseteq 0 .. 23 /\ 16 \notin r /\ 17 \notin r
      /\ \A k \in 0 .. 7 : /\ 2 * k + 1 \in r <=> k \in Xor(L, M)
                           /\ 2 * k \in r <=> k \in Xor(P, Q)
      /\ \A c \in 0 .. 5 : 18 + c \in r <=> c \in Xor(C, D)
  <2>1. /\ Xor(L, M) \in SUBSET (0 .. 7) /\ Xor(P, Q) \in SUBSET (0 .. 7)
        /\ Xor(C, D) \in SUBSET (0 .. 5)
    BY DEF Xor
  <2> QED BY <2>1, SpreadHas
<1>2. /\ p \subseteq 0 .. 23 /\ 16 \notin p /\ 17 \notin p
      /\ \A k \in 0 .. 7 : /\ 2 * k + 1 \in p <=> k \in L
                           /\ 2 * k \in p <=> k \in P
      /\ \A c \in 0 .. 5 : 18 + c \in p <=> c \in C
  BY SpreadHas
<1>3. /\ q \subseteq 0 .. 23 /\ 16 \notin q /\ 17 \notin q
      /\ \A k \in 0 .. 7 : /\ 2 * k + 1 \in q <=> k \in M
                           /\ 2 * k \in q <=> k \in Q
      /\ \A c \in 0 .. 5 : 18 + c \in q <=> c \in D
  BY SpreadHas
<1> HIDE DEF p, q, r
<1>4. ASSUME NEW x \in 0 .. 23
      PROVE  x \in r <=> ~(x \in p <=> x \in q)
  <2>1. CASE x = 16 \/ x = 17
    BY <1>1, <1>2, <1>3, <2>1
  <2>2. CASE \E k \in 0 .. 7 : x = 2 * k
    BY <1>1, <1>2, <1>3, <2>2 DEF Xor
  <2>3. CASE \E k \in 0 .. 7 : x = 2 * k + 1
    BY <1>1, <1>2, <1>3, <2>3 DEF Xor
  <2>4. CASE \E c \in 0 .. 5 : x = 18 + c
    BY <1>1, <1>2, <1>3, <2>4 DEF Xor
  <2> QED BY <2>1, <2>2, <2>3, <2>4, CodeBits
<1>5. r = Xor(p, q)
  BY <1>1, <1>2, <1>3, <1>4 DEF Xor
<1> QED BY <1>5 DEF p, q, r

LEMMA RawXor ==
  ASSUME NEW a \in SUBSET Cells, NEW b \in SUBSET Cells
  PROVE  /\ Raw(Xor(a, b)) = Xor(Raw(a), Raw(b))
         /\ Raw(a) \subseteq 0 .. 23
         /\ EccCalc(a) = (0 .. 23) \ Raw(a)
<1> DEFINE W == 0 .. 7
<1>1. /\ OddBytes(Xor(a, b)) = Xor(OddBytes(a), OddBytes(b))
      /\ OddBytes(a) \in SUBSET (0 .. 255) /\ OddBytes(b) \in SUBSET (0 .. 255)
  BY OddBytesXor
<1>2. /\ LineParity(Xor(OddBytes(a), OddBytes(b)), W)
           = Xor(LineParity(OddBytes(a), W), LineParity(OddBytes(b), W))
      /\ LineParityPrime(Xor(OddBytes(a), OddBytes(b)), W)
           = Xor(LineParityPrime(OddBytes(a), W),
                 LineParityPrime(OddBytes(b), W))
  BY <1>1, LineParityXor
<1>3. ColParity(Xor(a, b)) = Xor(ColParity(a), ColParity(b))
  BY ColParityXor
<1>4. \A d : /\ LineParity(OddBytes(d), W) \in SUBSET W
             /\ LineParityPrime(OddBytes(d), W) \in SUBSET W
             /\ ColParity(d) \in SUBSET (0 .. 5)
  BY ParityHas DEF LineParity, LineParityPrime
<1>5. Raw(a) \subseteq 0 .. 23
  BY <1>4, SpreadHas DEF Raw
<1>6. Raw(Xor(a, b))
        = Spread(Xor(LineParity(OddBytes(a), W), LineParity(OddBytes(b), W)),
                 Xor(LineParityPrime(OddBytes(a), W),
                     LineParityPrime(OddBytes(b), W)),
                 Xor(ColParity(a), ColParity(b)))
  BY <1>1, <1>2, <1>3 DEF Raw
<1>7. Raw(Xor(a, b)) = Xor(Raw(a), Raw(b))
  BY <1>4, <1>6, SpreadXor DEF Raw
<1>8. EccCalc(a) = (0 .. 23) \ Raw(a)
  BY DEF EccCalc, Raw, Spread
<1> QED BY <1>5, <1>7, <1>8

(* The difference of the codes is that of the bits that have changed.      *)
LEMMA EccDelta ==
  ASSUME NEW d \in SUBSET Cells, NEW D \in SUBSET Cells,
         NEW E \in SUBSET (0 .. 23)
  PROVE  Xor(Xor(EccCalc(d), E), EccCalc(Xor(d, D))) = Xor(E, Raw(D))
<1>1. Xor(d, D) \in SUBSET Cells
  BY DEF Xor
<1>2. /\ EccCalc(d) = (0 .. 23) \ Raw(d) /\ Raw(d) \subseteq 0 .. 23
      /\ EccCalc(Xor(d, D)) = (0 .. 23) \ Raw(Xor(d, D))
      /\ Raw(Xor(d, D)) = Xor(Raw(d), Raw(D)) /\ Raw(D) \subseteq 0 .. 23
  BY <1>1, RawXor
<1> QED BY <1>2 DEF Xor

LEMMA RawOfNone == Raw({}) = {}
<1>1. {} \in SUBSET Cells /\ Xor({}, {}) = {}
  BY DEF Xor
<1>2. Raw({}) = Xor(Raw({}), Raw({}))
  BY <1>1, RawXor
<1> QED BY <1>2 DEF Xor

LEMMA RawOfOne ==
  ASSUME NEW i \in 0 .. 255, NEW b \in 0 .. 7, NEW d, d = {<<i, b>>}
  PROVE  /\ d \in SUBSET Cells
         /\ Raw(d) \subseteq 0 .. 23 /\ 16 \notin Raw(d) /\ 17 \notin Raw(d)
         /\ \A k \in 0 .. 7 : /\ 2 * k + 1 \in Raw(d) <=> k \in Bits(i)
                              /\ 2 * k \in Raw(d) <=> k \notin Bits(i)
         /\ \A c \in 0 .. 5 : 18 + c \in Raw(d) <=> c \in ColParity(d)
         /\ ColumnIs(ColParity(d), b) /\ ColParity(d) \subseteq 0 .. 5
<1>1. /\ OddBytes(d) = {i}
      /\ LineParity({i}, 0 .. 7) = (0 .. 7) \cap Bits(i)
      /\ LineParityPrime({i}, 0 .. 7) = (0 .. 7) \ Bits(i)
      /\ ColumnIs(ColParity(d), b)
  BY ParityOfOne
<1>2. ColParity(d) \in SUBSET (0 .. 5)
  BY ParityHas
<1> DEFINE L == (0 .. 7) \cap Bits(i)
           P == (0 .. 7) \ Bits(i)
           C == ColParity(d)
<1>3. Raw(d) = Spread(L, P, C)
  BY <1>1 DEF Raw
<1>4. L \in SUBSET (0 .. 7) /\ P \in SUBSET (0 .. 7) /\ C \in SUBSET (0 .. 5)
  BY <1>2
<1>5. d \in SUBSET Cells
  BY DEF Cells
<1>6. /\ \A k \in 0 .. 7 : (k \in L <=> k \in Bits(i))
      /\ \A k \in 0 .. 7 : (k \in P <=> k \notin Bits(i))
  OBVIOUS
<1> HIDE DEF L, P
<1>7. /\ Spread(L, P, C) \subseteq 0 .. 23
      /\ 16 \notin Spread(L, P, C) /\ 17 \notin Spread(L, P, C)
      /\ \A k \in 0 .. 7 : /\ 2 * k + 1 \in Spread(L, P, C) <=> k \in L
                           /\ 2 * k \in Spread(L, P, C) <=> k \in P
      /\ \A c \in 0 .. 5 : 18 + c \in Spread(L, P, C) <=> c \in C
  BY <1>4, SpreadHas
<1> QED BY <1>1, <1>2, <1>3, <1>5, <1>6, <1>7

LEMMA EccNoData ==
  ASSUME NEW d, NEW E \in SUBSET (0 .. 23), NEW k \in 0 .. 7,
         2 * k \notin E, 2 * k + 1 \notin E
  PROVE  /\ EccResult(d, E).data = d
         /\ (E = {} \/ \E x : E = {x}) => EccResult(d, E).status # "unfixed"
<1>1. ~ \A m \in 0 .. 7 : (2 * m \in E) # (2 * m + 1 \in E)
  OBVIOUS
<1>2. EccResult(d, E)
        = IF E = {} THEN [data |-> d, status |-> "ok"]
          ELSE [data |-> d, status |-> IF Cardinality(E) = 1 THEN "fixed"
                                       ELSE "unfixed"]
  BY <1>1 DEF EccResult
<1>3. \A x : Cardinality({x}) = 1
  BY FS_Singleton
<1>4. CASE E = {}
  BY <1>2, <1>4
<1>5. CASE E # {}
  <2>1. /\ EccResult(d, E).data = d
        /\ EccResult(d, E).status = IF Cardinality(E) = 1 THEN "fixed"
                                    ELSE "unfixed"
    <3>1. EccResult(d, E)
            = [data |-> d, status |-> IF Cardinality(E) = 1 THEN "fixed"
                                      ELSE "unfixed"]
      BY <1>2, <1>5
    <3> QED BY <3>1
  <2> QED BY <1>3, <1>5, <2>1
<1> QED BY <1>4, <1>5

LEMMA EccOneData ==
  ASSUME NEW d0, NEW i \in 0 .. 255, NEW b \in 0 .. 7, NEW D, D = {<<i, b>>},
         NEW E \in SUBSET {16, 17}
  PROVE  EccResult(Xor(d0, D), Xor(E, Raw(D))) = [data |-> d0, status |-> "fixed"]
<1> DEFINE delta == Xor(E, Raw(D))
           line == {k \in 0 .. 7 : 2 * k + 1 \in delta}
           col == {c \in 0 .. 5 : 18 + c \in delta}
<1>1. \A k \in 0 .. 7 : /\ 2 * k \in 0 .. 15 /\ 2 * k + 1 \in 0 .. 15
  OBVIOUS
<1>2. \A x \in 0 .. 15 \cup 18 .. 23 : x \in delta <=> x \in Raw(D)
  BY DEF Xor
<1>3. \A k \in 0 .. 7 : /\ 2 * k + 1 \in delta <=> k \in Bits(i)
                        /\ 2 * k \in delta <=> k \notin Bits(i)
  BY <1>1, <1>2, RawOfOne
<1>4. \A c \in 0 .. 5 : 18 + c \in delta <=> c \in ColParity(D)
  <2>1. \A c \in 0 .. 5 : 18 + c \in 18 .. 23
    OBVIOUS
  <2> QED BY <1>2, <2>1, RawOfOne
<1>5. col = ColParity(D) /\ ColumnIs(ColParity(D), b)
  BY <1>4, RawOfOne
<1>6. OneColumn(col) /\ Column(col) = b
  BY <1>5, ColumnOfOne
<1>7. line = Bits(i)
  <2>1. Bits(i) \subseteq 0 .. 7
    BY BitsOfByte
  <2> QED BY <1>3, <2>1
<1> HIDE DEF line
<1>8. Number(line) = i
  <2>1. Number(Bits(i)) = i
    BY NumberOfBits
  <2> QED BY <1>7, <2>1
<1>9. delta # {} /\ \A k \in 0 .. 7 : (2 * k \in delta) # (2 * k + 1 \in delta)
  <2>1. \A k \in 0 .. 7 : (2 * k \in delta) # (2 * k + 1 \in delta)
    BY <1>3
  <2>2. 0 \in 0 .. 7
    OBVIOUS
  <2> QED BY <2>1, <2>2
<1>10. Xor(Xor(d0, D), {<<i, b>>}) = d0
  BY DEF Xor
<1> USE DEF line
<1> HIDE DEF delta
<1>11. EccResult(Xor(d0, D), delta)
         = [data |-> Xor(Xor(d0, D), {<<Number(line), Column(col)>>}),
            status |-> "fixed"]
  BY <1>6, <1>9 DEF EccResult
<1> HIDE DEF line, col
<1> QED BY <1>6, <1>8, <1>10, <1>11 DEF delta

LEMMA EccUnfixed ==
  ASSUME NEW d, NEW delta \in SUBSET (0 .. 23), NEW x, NEW y, x # y,
         x \in delta, y \in delta,
         \/ \E k \in 0 .. 7 : (2 * k \in delta <=> 2 * k + 1 \in delta)
         \/ ~OneColumn({c \in 0 .. 5 : 18 + c \in delta})
  PROVE  EccResult(d, delta).status = "unfixed"
<1>1. ~(/\ \A k \in 0 .. 7 : (2 * k \in delta) # (2 * k + 1 \in delta)
        /\ OneColumn({c \in 0 .. 5 : 18 + c \in delta}))
  OBVIOUS
<1>2. Cardinality(delta) # 1
  <2>1. delta \subseteq 0 .. 255
    OBVIOUS
  <2>2. Cardinality(delta) \in Nat /\ Cardinality(delta) >= 2
    BY <2>1, CellsFinite, AtLeastTwo
  <2> QED BY <2>2
<1> QED BY <1>1, <1>2 DEF EccResult

LEMMA EccDataAndCode ==
  ASSUME NEW d, NEW i \in 0 .. 255, NEW b \in 0 .. 7, NEW D, D = {<<i, b>>},
         NEW m \in (0 .. 23) \ {16, 17}
  PROVE  EccResult(d, Xor({m}, Raw(D))).status = "unfixed"
<1> DEFINE delta == Xor({m}, Raw(D))
           col == {c \in 0 .. 5 : 18 + c \in delta}
<1>1. delta \in SUBSET (0 .. 23)
  BY RawOfOne DEF Xor
<1>2. \A z : z # m => (z \in delta <=> z \in Raw(D))
  BY DEF Xor
<1>3. m \in delta <=> m \notin Raw(D)
  BY DEF Xor
<1>4. (0 \in Raw(D) <=> 1 \notin Raw(D)) /\ (2 \in Raw(D) <=> 3 \notin Raw(D))
      /\ (4 \in Raw(D) <=> 5 \notin Raw(D))
  <2>1. /\ 2 * 0 = 0 /\ 2 * 0 + 1 = 1 /\ 2 * 1 = 2 /\ 2 * 1 + 1 = 3
        /\ 2 * 2 = 4 /\ 2 * 2 + 1 = 5 /\ 0 \in 0 .. 7 /\ 1 \in 0 .. 7
        /\ 2 \in 0 .. 7
    OBVIOUS
  <2>2. \A k \in 0 .. 7 : 2 * k \in Raw(D) <=> 2 * k + 1 \notin Raw(D)
    BY RawOfOne
  <2> QED BY <2>1, <2>2
<1> HIDE DEF delta
<1>5. \E x, y \in delta : x # y
  <2>1. CASE m \notin {0, 1, 2, 3}
    <3>1. (0 \in delta \/ 1 \in delta) /\ (2 \in delta \/ 3 \in delta)
      BY <1>2, <1>4, <2>1
    <3> QED BY <3>1
  <2>2. CASE m \in {0, 1}
    <3>1. (4 \in delta \/ 5 \in delta) /\ (2 \in delta \/ 3 \in delta)
      BY <1>2, <1>4, <2>2
    <3> QED BY <3>1
  <2>3. CASE m \in {2, 3}
    <3>1. (4 \in delta \/ 5 \in delta) /\ (0 \in delta \/ 1 \in delta)
      BY <1>2, <1>4, <2>3
    <3> QED BY <3>1
  <2> QED BY <2>1, <2>2, <2>3
<1>6. ASSUME NEW k \in 0 .. 7, m = 2 * k \/ m = 2 * k + 1
      PROVE  2 * k \in delta <=> 2 * k + 1 \in delta
  <2>1. 2 * k \in Raw(D) <=> 2 * k + 1 \notin Raw(D)
    BY RawOfOne
  <2>2. 2 * k # 2 * k + 1
    OBVIOUS
  <2> QED BY <1>2, <1>3, <1>6, <2>1, <2>2
<1>7. ASSUME NEW c \in 0 .. 5, m = 18 + c
      PROVE  ~OneColumn(col)
  <2>1. \A e \in 0 .. 5 : e \in col <=> (IF e = c THEN e \notin ColParity(D)
                                         ELSE e \in ColParity(D))
    <3>1. \A e \in 0 .. 5 : 18 + e \in Raw(D) <=> e \in ColParity(D)
      BY RawOfOne
    <3>2. \A e \in 0 .. 5 : 18 + e = m <=> e = c
      BY <1>7
    <3> QED BY <1>2, <1>3, <3>1, <3>2
  <2>2. ColumnIs(ColParity(D), b)
    BY RawOfOne
  <2>3. c = 0 \/ c = 1 \/ c = 2 \/ c = 3 \/ c = 4 \/ c = 5
    OBVIOUS
  <2> HIDE DEF col
  <2> QED BY <2>1, <2>2, <2>3, OneColumnIs DEF ColumnIs
<1>8. (\E k \in 0 .. 7 : (2 * k \in delta <=> 2 * k + 1 \in delta))
      \/ ~OneColumn(col)
  BY <1>6, <1>7, CodeBits
<1>9. EccResult(d, delta).status = "unfixed"
  BY <1>1, <1>5, <1>8, EccUnfixed
<1> QED BY <1>9 DEF delta

(* Two bits of the data: in each pair both parities differ or none.        *)
TwoCells(S) ==
  \E i, j \in 0 .. 255, b, e \in 0 .. 7 :
    (i # j \/ b # e) /\ S = {<<i, b>>, <<j, e>>}

LEMMA EccTwoData ==
  ASSUME NEW d, NEW S, TwoCells(S)
  PROVE  EccResult(d, Raw(S)).status = "unfixed"
<1> PICK i \in 0 .. 255, j \in 0 .. 255, b \in 0 .. 7, e \in 0 .. 7 :
      (i # j \/ b # e) /\ S = {<<i, b>>, <<j, e>>}
  BY DEF TwoCells
<1> DEFINE D == {<<i, b>>}
           F == {<<j, e>>}
           delta == Xor(Raw(D), Raw(F))
<1>1. S = Xor(D, F)
  BY DEF Xor
<1>2. D \in SUBSET Cells /\ F \in SUBSET Cells
  BY DEF Cells
<1>3. Raw(S) = delta
  BY <1>1, <1>2, RawXor
<1>4. \A k \in 0 .. 7 : /\ 2 * k + 1 \in Raw(D) <=> k \in Bits(i)
                        /\ 2 * k \in Raw(D) <=> k \notin Bits(i)
  BY RawOfOne
<1>5. \A k \in 0 .. 7 : /\ 2 * k + 1 \in Raw(F) <=> k \in Bits(j)
                        /\ 2 * k \in Raw(F) <=> k \notin Bits(j)
  BY RawOfOne
<1>6. /\ \A c \in 0 .. 5 : /\ 18 + c \in Raw(D) <=> c \in ColParity(D)
                           /\ 18 + c \in Raw(F) <=> c \in ColParity(F)
      /\ ColumnIs(ColParity(D), b) /\ ColumnIs(ColParity(F), e)
      /\ Raw(D) \subseteq 0 .. 23 /\ Raw(F) \subseteq 0 .. 23
  BY RawOfOne
<1>7. delta \in SUBSET (0 .. 23)
  BY <1>6 DEF Xor
<1>8. \A k \in 0 .. 7 :
        /\ 2 * k \in delta <=> ~(k \in Bits(i) <=> k \in Bits(j))
        /\ 2 * k + 1 \in delta <=> ~(k \in Bits(i) <=> k \in Bits(j))
  BY <1>4, <1>5 DEF Xor
<1>9. \A c \in 0 .. 5 : 18 + c \in delta
                          <=> ~(c \in ColParity(D) <=> c \in ColParity(F))
  BY <1>6 DEF Xor
<1> HIDE DEF delta, D, F
<1>10. 0 \in 0 .. 7 /\ (2 * 0 \in delta <=> 2 * 0 + 1 \in delta)
  BY <1>8
<1>11. CASE i # j
  <2>1. PICK k \in 0 .. 7 : ~(k \in Bits(i) <=> k \in Bits(j))
    <3>1. Bits(i) # Bits(j)
      BY <1>11, BitsOfByte
    <3>2. Bits(i) \subseteq 0 .. 7 /\ Bits(j) \subseteq 0 .. 7
      BY BitsOfByte
    <3> QED BY <3>1, <3>2
  <2>2. 2 * k \in delta /\ 2 * k + 1 \in delta /\ 2 * k # 2 * k + 1
    BY <1>8, <2>1
  <2>3. EccResult(d, delta).status = "unfixed"
    BY <1>7, <1>10, <2>2, EccUnfixed
  <2> QED BY <1>3, <2>3
<1>12. CASE b # e
  <2>1. ~(0 \in Bits(b) <=> 0 \in Bits(e)) \/ ~(1 \in Bits(b) <=> 1 \in Bits(e))
        \/ ~(2 \in Bits(b) <=> 2 \in Bits(e))
    <3>1. Bits(b) # Bits(e) /\ Bits(b) \subseteq 0 .. 2 /\ Bits(e) \subseteq 0 .. 2
      <4>1. b \in 0 .. 255 /\ e \in 0 .. 255
        OBVIOUS
      <4>2. Bits(b) # Bits(e)
        BY <1>12, <4>1, BitsOfByte
      <4>3. Bits(b) \subseteq 0 .. 2 /\ Bits(e) \subseteq 0 .. 2
        BY BitsOfByte
      <4> QED BY <4>2, <4>3
    <3>2. \A k \in 0 .. 2 : k = 0 \/ k = 1 \/ k = 2
      OBVIOUS
    <3> QED BY <3>1, <3>2
  <2>2. (18 \in delta /\ 19 \in delta) \/ (20 \in delta /\ 21 \in delta)
        \/ (22 \in delta /\ 23 \in delta)
    <3>1. /\ 18 + 0 = 18 /\ 18 + 1 = 19 /\ 18 + 2 = 20 /\ 18 + 3 = 21
          /\ 18 + 4 = 22 /\ 18 + 5 = 23 /\ 0 \in 0 .. 5 /\ 1 \in 0 .. 5
          /\ 2 \in 0 .. 5 /\ 3 \in 0 .. 5 /\ 4 \in 0 .. 5 /\ 5 \in 0 .. 5
      OBVIOUS
    <3>2. /\ 18 \in delta <=> ~(0 \in ColParity(D) <=> 0 \in ColParity(F))
          /\ 19 \in delta <=> ~(1 \in ColParity(D) <=> 1 \in ColParity(F))
          /\ 20 \in delta <=> ~(2 \in ColParity(D) <=> 2 \in ColParity(F))
          /\ 21 \in delta <=> ~(3 \in ColParity(D) <=> 3 \in ColParity(F))
          /\ 22 \in delta <=> ~(4 \in ColParity(D) <=> 4 \in ColParity(F))
          /\ 23 \in delta <=> ~(5 \in ColParity(D) <=> 5 \in ColParity(F))
      BY <1>9, <3>1
    <3> QED BY <1>6, <2>1, <3>2 DEF ColumnIs
  <2>3. EccResult(d, delta).status = "unfixed"
    <3>1. PICK x \in delta, y \in delta : x # y
      BY <2>2
    <3> QED BY <1>7, <1>10, <3>1, EccUnfixed
  <2> QED BY <1>3, <2>3
<1> QED BY <1>11, <1>12

-----------------------------------------------------------------------------
(* The page, read as cells and bits of its parts.                          *)

CellsOf(S, x, n) == {<<p[3], p[4]>> : p \in {q \in S : q[1] = x /\ q[2] = n}}
BitsOf(S, x, n) == {p[4] : p \in {q \in S : q[1] = x /\ q[2] = n}}

CodeParts == {"col", "line", "prime"}

(* Tags and their code after the bits F have changed.                      *)
TagsResult(d, F) ==
  LET D == CellsOf(F, "tags", 0)
      odd == OddBytes(D)
  IN OtherResult(Xor(d, D), 16, Xor(BitsOf(F, "col", 0), ColParity(D)),
                 Xor(BitsOf(F, "line", 0), LineParity(odd, Word)),
                 Xor(BitsOf(F, "prime", 0), LineParityPrime(odd, Word)))

LEMMA TagPlaceIs ==
  ASSUME NEW p \in TagPlaces \cup TagEccPlaces
  PROVE  /\ p = <<p[1], p[2], p[3], p[4]>>
         /\ p[2] = 0 /\ p[4] \in Word
         /\ p[1] = "tags" => p[3] \in 0 .. 15 /\ p[4] \in 0 .. 7
         /\ p[1] # "tags" => p[1] \in CodeParts /\ p[3] = 0
         /\ p[1] = "col" => p[4] \in 0 .. 7
BY DEF TagPlaces, TagEccPlaces, CodeParts, Word

(* What is read of one changed place and of two.                           *)
LEMMA ReadOne ==
  ASSUME NEW p, NEW x
  PROVE  /\ CellsOf({p}, x, 0) = IF p[1] = x /\ p[2] = 0 THEN {<<p[3], p[4]>>}
                                 ELSE {}
         /\ BitsOf({p}, x, 0) = IF p[1] = x /\ p[2] = 0 THEN {p[4]} ELSE {}
BY DEF CellsOf, BitsOf

(* Only bits of the code have changed.                                     *)
LEMMA TagsCodeAlone ==
  ASSUME NEW d, NEW F \in SUBSET (TagPlaces \cup TagEccPlaces),
         NEW p, NEW q, F \subseteq {p, q}, \A x \in F : x[1] # "tags"
  PROVE  /\ TagsResult(d, F).data = d
         /\ F \subseteq {p} => TagsResult(d, F).status # "unfixed"
<1> DEFINE col == BitsOf(F, "col", 0)
           line == BitsOf(F, "line", 0)
           prime == BitsOf(F, "prime", 0)
<1>1. TagsResult(d, F) = OtherResult(d, 16, col, line, prime)
  <2>1. CellsOf(F, "tags", 0) = {}
    BY DEF CellsOf
  <2>2. \A S : Xor(S, {}) = S
    BY DEF Xor
  <2>3. /\ OddBytes({}) = {} /\ ColParity({}) = {}
        /\ LineParity({}, Word) = {} /\ LineParityPrime({}, Word) = {}
    BY ParityOfNone
  <2> QED BY <2>1, <2>2, <2>3 DEF TagsResult
<1>2. /\ col \in SUBSET (0 .. 7) /\ line \in SUBSET Word
      /\ prime \in SUBSET Word
  <2>1. \A x \in F : /\ x[4] \in Word /\ (x[1] = "col" => x[4] \in 0 .. 7)
    BY TagPlaceIs
  <2> QED BY <2>1 DEF BitsOf
<1>3. line \cup prime \subseteq {p[4], q[4]}
  BY DEF BitsOf
<1>4. PICK k \in Word : k \notin line \cup prime
  <2>1. 0 \in Word /\ 1 \in Word /\ 2 \in Word
    BY DEF Word
  <2> QED BY <1>3, <2>1
<1>5. ASSUME F \subseteq {p}
      PROVE  AtMostOne(col, line, prime)
  <2>1. CASE F = {}
    BY <2>1 DEF BitsOf, AtMostOne
  <2>2. CASE F # {}
    <3>1. F = {p} /\ p[1] \in CodeParts /\ p[2] = 0
      BY <1>5, <2>2, TagPlaceIs
    <3>2. \A x : BitsOf(F, x, 0) = IF p[1] = x THEN {p[4]} ELSE {}
      BY <3>1, ReadOne
    <3>3. p[1] = "col" \/ p[1] = "line" \/ p[1] = "prime"
      BY <3>1 DEF CodeParts
    <3>4. CASE p[1] = "col"
      BY <3>2, <3>4 DEF AtMostOne
    <3>5. CASE p[1] = "line"
      BY <3>2, <3>5 DEF AtMostOne
    <3>6. CASE p[1] = "prime"
      BY <3>2, <3>6 DEF AtMostOne
    <3> QED BY <3>3, <3>4, <3>5, <3>6
  <2> QED BY <2>1, <2>2
<1> HIDE DEF col, line, prime
<1>6. /\ OtherResult(d, 16, col, line, prime).data = d
      /\ F \subseteq {p}
           => OtherResult(d, 16, col, line, prime).status # "unfixed"
  BY <1>2, <1>4, <1>5, OtherNoData
<1> QED BY <1>1, <1>6

(* One bit of the tags has changed, and perhaps one of the code.           *)
LEMMA TagsCodeOne ==
  ASSUME NEW d, NEW F \in SUBSET (TagPlaces \cup TagEccPlaces),
         NEW p \in F, p[1] = "tags", NEW q, F \subseteq {p, q},
         q \in F /\ q # p => q[1] # "tags"
  PROVE  /\ TagsResult(d, F).status # "unfixed" => TagsResult(d, F).data = d
         /\ F = {p} => TagsResult(d, F).status # "unfixed"
<1>1. PICK i \in 0 .. 15, b \in 0 .. 7 : i = p[3] /\ b = p[4] /\ p[2] = 0
  BY TagPlaceIs
<1>2. PICK D : D = {<<i, b>>}
  OBVIOUS
<1>3. CellsOf(F, "tags", 0) = D
  BY <1>1, <1>2 DEF CellsOf
<1>4. PICK C : C = ColParity(D)
  OBVIOUS
<1>5. /\ OddBytes(D) = {i} /\ LineParity({i}, Word) = Word \cap Bits(i)
      /\ LineParityPrime({i}, Word) = Word \ Bits(i) /\ ColumnIs(C, b)
  <2>1. i \in 0 .. 255
    OBVIOUS
  <2> QED BY <1>2, <1>4, <2>1, ParityOfOne
<1>6. C \in SUBSET (0 .. 5)
  BY <1>4, ParityHas
<1>7. PICK col, line, prime : /\ col = BitsOf(F, "col", 0)
                              /\ line = BitsOf(F, "line", 0)
                              /\ prime = BitsOf(F, "prime", 0)
  OBVIOUS
<1>8. TagsResult(d, F)
        = OtherResult(Xor(d, D), 16, Xor(col, C), Xor(line, Word \cap Bits(i)),
                      Xor(prime, Word \ Bits(i)))
  BY <1>3, <1>4, <1>5, <1>7 DEF TagsResult
<1>9. \A S : Xor({}, S) = S
  BY DEF Xor
<1>10. CASE col = {} /\ line = {} /\ prime = {}
  <2>1. TagsResult(d, F) = OtherResult(Xor(d, D), 16, C, Word \cap Bits(i),
                                       Word \ Bits(i))
    BY <1>8, <1>9, <1>10
  <2>2. TagsResult(d, F) = [data |-> d, status |-> "fixed"]
    BY <1>2, <1>5, <2>1, OtherOneData
  <2> QED BY <2>2
<1>11. CASE ~(col = {} /\ line = {} /\ prime = {})
  <2>1. q \in F /\ q # p /\ F = {p, q}
    <3>1. PICK x \in F : x[1] # "tags"
      BY <1>7, <1>11 DEF BitsOf
    <3> QED BY <3>1
  <2>2. F # {p}
    BY <2>1
  <2>3. PICK m : m = q[4]
    OBVIOUS
  <2>4. /\ q[1] \in CodeParts /\ q[2] = 0 /\ m \in Word
        /\ q[1] = "col" => m \in 0 .. 7
    BY <2>1, <2>3, TagPlaceIs
  <2>5. \A x \in CodeParts : BitsOf(F, x, 0) = IF q[1] = x THEN {m} ELSE {}
    BY <2>1, <2>3, <2>4 DEF BitsOf, CodeParts
  <2>6. /\ col = IF q[1] = "col" THEN {m} ELSE {}
        /\ line = IF q[1] = "line" THEN {m} ELSE {}
        /\ prime = IF q[1] = "prime" THEN {m} ELSE {}
    BY <1>7, <2>5 DEF CodeParts
  <2>7. C \in SUBSET (0 .. 7)
    BY <1>6
  <2>8. PICK L, P : L = Xor(line, Word \cap Bits(i))
                    /\ P = Xor(prime, Word \ Bits(i))
    OBVIOUS
  <2>9. L \in SUBSET Word /\ P \in SUBSET Word
    BY <2>4, <2>6, <2>8 DEF Xor
  <2>10. CASE q[1] = "line"
    <3>1. L = Xor({m}, Word \cap Bits(i)) /\ P = Word \ Bits(i) /\ Xor(col, C) = C
      BY <1>9, <2>6, <2>8, <2>10
    <3>2. TagsResult(d, F) = OtherResult(Xor(d, D), 16, C, L, P)
      BY <1>8, <2>8, <3>1
    <3>3. m \in L <=> m \in P
      BY <2>4, <3>1 DEF Xor
    <3>4. \A k \in Word : k # m => k \in L \cup P
      BY <3>1 DEF Xor
    <3>5. \A v : OtherResult(v, 16, C, L, P).status = "unfixed"
      BY <2>4, <2>7, <2>9, <3>3, <3>4, OtherDataAndLine
    <3> QED BY <2>2, <3>2, <3>5
  <2>11. CASE q[1] = "prime"
    <3>1. L = Word \cap Bits(i) /\ P = Xor({m}, Word \ Bits(i)) /\ Xor(col, C) = C
      BY <1>9, <2>6, <2>8, <2>11
    <3>2. TagsResult(d, F) = OtherResult(Xor(d, D), 16, C, L, P)
      BY <1>8, <2>8, <3>1
    <3>3. m \in L <=> m \in P
      BY <2>4, <3>1 DEF Xor
    <3>4. \A k \in Word : k # m => k \in L \cup P
      BY <3>1 DEF Xor
    <3>5. \A v : OtherResult(v, 16, C, L, P).status = "unfixed"
      BY <2>4, <2>7, <2>9, <3>3, <3>4, OtherDataAndLine
    <3> QED BY <2>2, <3>2, <3>5
  <2>12. CASE q[1] = "col"
    <3>1. col = {m} /\ L = Word \cap Bits(i) /\ P = Word \ Bits(i)
      BY <1>9, <2>6, <2>8, <2>12
    <3>2. PICK G : G = Xor(col, C)
      OBVIOUS
    <3>3. /\ TagsResult(d, F) = OtherResult(Xor(d, D), 16, G, L, P)
          /\ \A e : e \in G <=> (IF e = m THEN e \notin C ELSE e \in C)
      <4>1. TagsResult(d, F) = OtherResult(Xor(d, D), 16, G, L, P)
        BY <1>8, <2>8, <3>2
      <4>2. \A e : e \in G <=> (IF e = m THEN e \notin C ELSE e \in C)
        BY <3>1, <3>2 DEF Xor
      <4> QED BY <4>1, <4>2
    <3>5. CASE m \in 0 .. 5
      <4>1. G \in SUBSET (0 .. 7)
        BY <2>4, <2>7, <2>12, <3>3
      <4>2. \A k \in Word : k \in L \cup P
        BY <3>1
      <4>3. ColumnSpoilt(G, b, m)
        BY <1>5, <3>3 DEF ColumnSpoilt
      <4>4. \A v : OtherResult(v, 16, G, L, P).status = "unfixed"
        BY <2>9, <3>5, <4>1, <4>2, <4>3, OtherDataAndColumn
      <4> QED BY <2>2, <3>3, <4>4
    <3>4. CASE m \notin 0 .. 5
      <4>1. \A e \in 0 .. 5 : e \in G <=> e \in C
        BY <3>3, <3>4
      <4>2. ColumnIs(G, b)
        BY <1>5, <4>1 DEF ColumnIs
      <4>3. OtherResult(Xor(d, {<<i, b>>}), 16, G, Word \cap Bits(i),
                        Word \ Bits(i)) = [data |-> d, status |-> "fixed"]
        BY <4>2, OtherOneData
      <4>4. TagsResult(d, F) = [data |-> d, status |-> "fixed"]
        BY <1>2, <3>1, <3>3, <4>3
      <4> QED BY <4>4
    <3> QED BY <3>4, <3>5
  <2> QED BY <2>4, <2>10, <2>11, <2>12 DEF CodeParts
<1> QED BY <1>10, <1>11

(* Two bits of the tags have changed.                                      *)
LEMMA TagsCodeTwo ==
  ASSUME NEW d, NEW F \in SUBSET (TagPlaces \cup TagEccPlaces),
         NEW p \in F, NEW q \in F, p # q, F = {p, q},
         p[1] = "tags", q[1] = "tags"
  PROVE  TagsResult(d, F).status = "unfixed"
<1>1. PICK i \in 0 .. 15, b \in 0 .. 7 :
        i = p[3] /\ b = p[4] /\ p[2] = 0 /\ p = <<p[1], p[2], p[3], p[4]>>
  BY TagPlaceIs
<1>2. PICK j \in 0 .. 15, e \in 0 .. 7 :
        j = q[3] /\ e = q[4] /\ q[2] = 0 /\ q = <<q[1], q[2], q[3], q[4]>>
  BY TagPlaceIs
<1>3. <<i, b>> # <<j, e>>
  BY <1>1, <1>2
<1>4. PICK D, G : D = {<<i, b>>} /\ G = {<<j, e>>}
  OBVIOUS
<1>5. CellsOf(F, "tags", 0) = Xor(D, G)
  <2>1. CellsOf(F, "tags", 0) = {<<i, b>>, <<j, e>>}
    BY <1>1, <1>2 DEF CellsOf
  <2> QED BY <1>3, <1>4, <2>1 DEF Xor
<1>6. D \in SUBSET Cells /\ G \in SUBSET Cells
  BY <1>4 DEF Cells
<1>7. i \in 0 .. 255 /\ j \in 0 .. 255
  OBVIOUS
<1>8. PICK C, H : C = ColParity(D) /\ H = ColParity(G)
  OBVIOUS
<1>9. PICK a, c : a = {i} /\ c = {j}
  OBVIOUS
<1>10. /\ OddBytes(D) = a /\ LineParity(a, Word) = Word \cap Bits(i)
       /\ LineParityPrime(a, Word) = Word \ Bits(i) /\ ColumnIs(C, b)
  BY <1>4, <1>7, <1>8, <1>9, ParityOfOne
<1>11. /\ OddBytes(G) = c /\ LineParity(c, Word) = Word \cap Bits(j)
       /\ LineParityPrime(c, Word) = Word \ Bits(j) /\ ColumnIs(H, e)
  BY <1>4, <1>7, <1>8, <1>9, ParityOfOne
<1>12. C \in SUBSET (0 .. 5) /\ H \in SUBSET (0 .. 5)
  BY <1>8, ParityHas
<1>13. /\ BitsOf(F, "col", 0) = {} /\ BitsOf(F, "line", 0) = {}
       /\ BitsOf(F, "prime", 0) = {}
  BY DEF BitsOf
<1>14. OddBytes(Xor(D, G)) = Xor(a, c)
  BY <1>6, <1>10, <1>11, OddBytesXor
<1>15. ColParity(Xor(D, G)) = Xor(C, H)
  BY <1>6, <1>8, ColParityXor
<1>16. /\ LineParity(Xor(a, c), Word)
            = Xor(Word \cap Bits(i), Word \cap Bits(j))
       /\ LineParityPrime(Xor(a, c), Word)
            = Xor(Word \ Bits(i), Word \ Bits(j))
  <2>1. a \in SUBSET (0 .. 255) /\ c \in SUBSET (0 .. 255)
    BY <1>7, <1>9
  <2>2. /\ LineParity(Xor(a, c), Word)
             = Xor(LineParity(a, Word), LineParity(c, Word))
        /\ LineParityPrime(Xor(a, c), Word)
             = Xor(LineParityPrime(a, Word), LineParityPrime(c, Word))
    BY <2>1, LineParityXor
  <2> QED BY <1>10, <1>11, <2>2
<1>17. \A S : Xor({}, S) = S
  BY DEF Xor
<1>18. PICK col, line, prime :
         /\ col = Xor(C, H)
         /\ line = Xor(Word \cap Bits(i), Word \cap Bits(j))
         /\ prime = Xor(Word \ Bits(i), Word \ Bits(j))
  OBVIOUS
<1>19. TagsResult(d, F) = OtherResult(Xor(d, Xor(D, G)), 16, col, line, prime)
  BY <1>5, <1>13, <1>14, <1>15, <1>16, <1>17, <1>18 DEF TagsResult
<1>20. \A v : OtherResult(v, 16, col, line, prime).status = "unfixed"
  <2>1. i # j \/ b # e
    BY <1>3
  <2>2. OfTwo(col, line, prime)
    BY <1>10, <1>11, <1>12, <1>18, <2>1 DEF OfTwo
  <2> QED BY <2>2, OtherTwoData
<1> QED BY <1>19, <1>20

(* The tags: right unless given up, and never given up for one bit.        *)
LEMMA TagsCode ==
  ASSUME NEW d, NEW F \in SUBSET (TagPlaces \cup TagEccPlaces),
         IsFiniteSet(F), Cardinality(F) <= 2
  PROVE  /\ TagsResult(d, F).status # "unfixed" => TagsResult(d, F).data = d
         /\ Cardinality(F) <= 1 => TagsResult(d, F).status # "unfixed"
<1>1. CASE \A x \in F : x[1] # "tags"
  <2>1. \E p, q : F \subseteq {p, q} /\ (Cardinality(F) <= 1 => F \subseteq {p})
    <3>1. CASE Cardinality(F) <= 1
      <4>1. \E p : F \subseteq {p}
        BY <3>1, SmallSet
      <4> QED BY <4>1
    <3>2. CASE ~(Cardinality(F) <= 1)
      <4>1. \E p, q : F \subseteq {p, q}
        BY SmallSet
      <4> QED BY <3>2, <4>1
    <3> QED BY <3>1, <3>2
  <2>2. PICK p, q : F \subseteq {p, q} /\ (Cardinality(F) <= 1 => F \subseteq {p})
    BY <2>1
  <2> QED BY <1>1, <2>2, TagsCodeAlone
<1>2. CASE \E x \in F : x[1] = "tags"
  <2>1. PICK p \in F : p[1] = "tags"
    BY <1>2
  <2>2. CASE F = {p}
    BY <2>1, <2>2, TagsCodeOne
  <2>3. CASE F # {p}
    <3>1. Cardinality(F) \in Nat /\ ~(Cardinality(F) <= 1)
      BY <2>1, <2>3, SmallSet
    <3>2. \E x, y \in F : x # y /\ F = {x, y}
      BY <2>1, <2>3, SmallSet
    <3>3. PICK q \in F : q # p /\ F = {p, q}
      BY <2>1, <3>2
    <3>4. CASE q[1] = "tags"
      BY <2>1, <3>1, <3>3, <3>4, TagsCodeTwo
    <3>5. CASE q[1] # "tags"
      BY <2>1, <2>3, <3>1, <3>3, <3>5, TagsCodeOne
    <3> QED BY <3>4, <3>5
  <2> QED BY <2>2, <2>3
<1> QED BY <1>1, <1>2

(* A block of data after the bits F have changed.                          *)
DataResult(d, F, n) ==
  LET D == CellsOf(F, "data", n)
  IN EccResult(Xor(d, D), Xor(BitsOf(F, "ecc", n), Raw(D)))

LEMMA DataPlaceIs ==
  ASSUME NEW n, NEW p \in DataPlaces(n) \cup EccPlaces(n)
  PROVE  /\ p = <<p[1], p[2], p[3], p[4]>> /\ p[2] = n
         /\ p[1] = "data" => p[3] \in 0 .. 255 /\ p[4] \in 0 .. 7
         /\ p[1] # "data" => p[1] = "ecc" /\ p[3] = 0 /\ p[4] \in 0 .. 23
BY DataAssumption DEF DataPlaces, EccPlaces

(* Only bits of the code have changed.                                     *)
LEMMA DataCodeAlone ==
  ASSUME NEW d, NEW n, NEW F \in SUBSET (DataPlaces(n) \cup EccPlaces(n)),
         NEW p, NEW q, F \subseteq {p, q}, \A x \in F : x[1] # "data"
  PROVE  /\ DataResult(d, F, n).data = d
         /\ F \subseteq {p} => DataResult(d, F, n).status # "unfixed"
<1>1. PICK E : E = BitsOf(F, "ecc", n)
  OBVIOUS
<1>2. DataResult(d, F, n) = EccResult(d, E)
  <2>1. CellsOf(F, "data", n) = {}
    BY DEF CellsOf
  <2>2. \A S : Xor(S, {}) = S
    BY DEF Xor
  <2> QED BY <1>1, <2>1, <2>2, RawOfNone DEF DataResult
<1>3. E \in SUBSET (0 .. 23)
  <2>1. \A x \in F : x[4] \in 0 .. 23
    BY DataPlaceIs
  <2> QED BY <1>1, <2>1 DEF BitsOf
<1>4. E \subseteq {p[4], q[4]} /\ (F \subseteq {p} => E \subseteq {p[4]})
  BY <1>1 DEF BitsOf
<1>5. PICK k \in 0 .. 7 : 2 * k \notin E /\ 2 * k + 1 \notin E
  <2>1. \/ 0 \notin E /\ 1 \notin E
        \/ 2 \notin E /\ 3 \notin E
        \/ 4 \notin E /\ 5 \notin E
    BY <1>4
  <2>2. /\ 2 * 0 = 0 /\ 2 * 0 + 1 = 1 /\ 2 * 1 = 2 /\ 2 * 1 + 1 = 3
        /\ 2 * 2 = 4 /\ 2 * 2 + 1 = 5 /\ 0 \in 0 .. 7 /\ 1 \in 0 .. 7
        /\ 2 \in 0 .. 7
    OBVIOUS
  <2> QED BY <2>1, <2>2
<1>6. /\ EccResult(d, E).data = d
      /\ (E = {} \/ \E x : E = {x}) => EccResult(d, E).status # "unfixed"
  BY <1>3, <1>5, EccNoData
<1>7. F \subseteq {p} => E = {} \/ \E x : E = {x}
  BY <1>4
<1> QED BY <1>2, <1>6, <1>7

(* One bit of the data has changed, and perhaps one of the code.           *)
LEMMA DataCodeOne ==
  ASSUME NEW d, NEW n, NEW F \in SUBSET (DataPlaces(n) \cup EccPlaces(n)),
         NEW p \in F, p[1] = "data", NEW q, F \subseteq {p, q},
         q \in F /\ q # p => q[1] # "data"
  PROVE  /\ DataResult(d, F, n).status # "unfixed"
              => DataResult(d, F, n).data = d
         /\ F = {p} => DataResult(d, F, n).status # "unfixed"
<1>1. PICK i \in 0 .. 255, b \in 0 .. 7 : i = p[3] /\ b = p[4] /\ p[2] = n
  BY DataPlaceIs
<1>2. PICK D : D = {<<i, b>>}
  OBVIOUS
<1>3. CellsOf(F, "data", n) = D
  BY <1>1, <1>2 DEF CellsOf
<1>4. PICK E : E = BitsOf(F, "ecc", n)
  OBVIOUS
<1>5. DataResult(d, F, n) = EccResult(Xor(d, D), Xor(E, Raw(D)))
  BY <1>3, <1>4 DEF DataResult
<1>6. CASE E \subseteq {16, 17}
  <2>1. EccResult(Xor(d, D), Xor(E, Raw(D)))
          = [data |-> d, status |-> "fixed"]
    BY <1>2, <1>6, EccOneData
  <2> QED BY <1>5, <2>1
<1>7. CASE ~(E \subseteq {16, 17})
  <2>1. PICK x \in F : x[1] = "ecc" /\ x[4] \notin {16, 17}
    BY <1>4, <1>7 DEF BitsOf
  <2>2. q \in F /\ q # p /\ F = {p, q} /\ x = q
    BY <2>1
  <2>3. PICK m \in (0 .. 23) \ {16, 17} : m = q[4] /\ q[2] = n
    BY <2>1, <2>2, DataPlaceIs
  <2>4. E = {m}
    BY <1>4, <2>1, <2>2, <2>3 DEF BitsOf
  <2>5. \A v : EccResult(v, Xor({m}, Raw(D))).status = "unfixed"
    BY <1>2, EccDataAndCode
  <2> QED BY <1>5, <2>2, <2>4, <2>5
<1> QED BY <1>6, <1>7

(* Two bits of the data have changed.                                      *)
LEMMA DataCodeTwo ==
  ASSUME NEW d, NEW n, NEW F \in SUBSET (DataPlaces(n) \cup EccPlaces(n)),
         NEW p \in F, NEW q \in F, p # q, F = {p, q},
         p[1] = "data", q[1] = "data"
  PROVE  DataResult(d, F, n).status = "unfixed"
<1> p \in DataPlaces(n) \cup EccPlaces(n) /\ q \in DataPlaces(n) \cup EccPlaces(n)
  OBVIOUS
<1>1. PICK i \in 0 .. 255, b \in 0 .. 7 :
        i = p[3] /\ b = p[4] /\ p[2] = n /\ p = <<p[1], p[2], p[3], p[4]>>
  BY DataPlaceIs
<1>2. PICK j \in 0 .. 255, e \in 0 .. 7 :
        j = q[3] /\ e = q[4] /\ q[2] = n /\ q = <<q[1], q[2], q[3], q[4]>>
  <2>1. /\ q[3] \in 0 .. 255 /\ q[4] \in 0 .. 7 /\ q[2] = n
        /\ q = <<q[1], q[2], q[3], q[4]>>
    BY DataPlaceIs
  <2> QED BY <2>1
<1>3. i # j \/ b # e
  BY <1>1, <1>2
<1>4. PICK D : D = {<<i, b>>, <<j, e>>}
  OBVIOUS
<1>5. CellsOf(F, "data", n) = D
  BY <1>1, <1>2, <1>4 DEF CellsOf
<1>6. BitsOf(F, "ecc", n) = {}
  BY DEF BitsOf
<1>7. \A S : Xor({}, S) = S
  BY DEF Xor
<1>8. DataResult(d, F, n) = EccResult(Xor(d, D), Raw(D))
  BY <1>5, <1>6, <1>7 DEF DataResult
<1>9. \A v : EccResult(v, Raw(D)).status = "unfixed"
  <2>1. TwoCells(D)
    BY <1>3, <1>4 DEF TwoCells
  <2> QED BY <2>1, EccTwoData
<1> QED BY <1>8, <1>9

(* A block of data: right unless given up, and never given up for one bit. *)
LEMMA DataCode ==
  ASSUME NEW d, NEW n, NEW F \in SUBSET (DataPlaces(n) \cup EccPlaces(n)),
         IsFiniteSet(F), Cardinality(F) <= 2
  PROVE  /\ DataResult(d, F, n).status # "unfixed"
              => DataResult(d, F, n).data = d
         /\ Cardinality(F) <= 1 => DataResult(d, F, n).status # "unfixed"
<1>1. CASE \A x \in F : x[1] # "data"
  <2>1. \E p, q : F \subseteq {p, q} /\ (Cardinality(F) <= 1 => F \subseteq {p})
    <3>1. CASE Cardinality(F) <= 1
      <4>1. \E p : F \subseteq {p}
        BY <3>1, SmallSet
      <4> QED BY <4>1
    <3>2. CASE ~(Cardinality(F) <= 1)
      <4>1. \E p, q : F \subseteq {p, q}
        BY SmallSet
      <4> QED BY <3>2, <4>1
    <3> QED BY <3>1, <3>2
  <2>2. PICK p, q : F \subseteq {p, q} /\ (Cardinality(F) <= 1 => F \subseteq {p})
    BY <2>1
  <2> QED BY <1>1, <2>2, DataCodeAlone
<1>2. CASE \E x \in F : x[1] = "data"
  <2>1. PICK p \in F : p[1] = "data"
    BY <1>2
  <2>2. CASE F = {p}
    BY <2>1, <2>2, DataCodeOne
  <2>3. CASE F # {p}
    <3>1. Cardinality(F) \in Nat /\ ~(Cardinality(F) <= 1)
      BY <2>1, <2>3, SmallSet
    <3>2. \E x, y \in F : x # y /\ F = {x, y}
      BY <2>1, <2>3, SmallSet
    <3>3. PICK q \in F : q # p /\ F = {p, q}
      BY <2>1, <3>2
    <3>4. CASE q[1] = "data"
      BY <2>1, <3>1, <3>3, <3>4, DataCodeTwo
    <3>5. CASE q[1] # "data"
      BY <2>1, <2>3, <3>1, <3>3, <3>5, DataCodeOne
    <3> QED BY <3>4, <3>5
  <2> QED BY <2>2, <2>3
<1> QED BY <1>1, <1>2

-----------------------------------------------------------------------------
(* Packing and marshalling.                                                *)

Packed == [seq : SUBSET Word, obj_id : SUBSET Word, chunk_id : SUBSET Word,
           n_bytes : SUBSET Word]

LEMMA PackedType ==
  ASSUME NEW t \in Tags
  PROVE  PackTagsOnly(t) \in Packed /\ PackTagsOnly(t).seq = t.seq
<1>1. /\ t.seq \in SUBSET Word /\ t.obj_id \in SUBSET (0 .. 27)
      /\ t.chunk_id \in SUBSET (0 .. 27) /\ t.n_bytes \in SUBSET Word
      /\ t.parent \in SUBSET (0 .. 27) /\ t.type \in SUBSET (0 .. 3)
      /\ t.equiv \in SUBSET Word
  BY TagsAssumption DEF TagRecords
<1>2. 0 .. 27 \subseteq Word
  BY DEF Word
<1>3. CASE ~CheckTagsExtraPackable(t)
  BY <1>1, <1>2, <1>3 DEF PackTagsOnly, Packed
<1>4. CASE CheckTagsExtraPackable(t)
  <2> DEFINE o == (t.obj_id \ ExtraFlags) \cup {b + TypeShift : b \in t.type}
             c == {HeaderInfo} \cup t.parent
                  \cup (IF t.shrink THEN {Shrink} ELSE {})
                  \cup (IF t.shadows THEN {Shadows} ELSE {})
             n == IF t.type = TypeHardlink THEN t.equiv
                  ELSE IF t.type = TypeFile THEN t.size \cap Word ELSE {}
  <2>1. PackTagsOnly(t) = [seq |-> t.seq, obj_id |-> o, chunk_id |-> c,
                           n_bytes |-> n]
    BY <1>4 DEF PackTagsOnly
  <2>2. o \subseteq Word
    <3>1. \A b \in 0 .. 3 : b + TypeShift \in Word
      BY DEF TypeShift, Word
    <3> QED BY <1>1, <1>2, <3>1
  <2>3. c \subseteq Word
    <3>1. HeaderInfo \in Word /\ Shrink \in Word /\ Shadows \in Word
      BY DEF HeaderInfo, Shrink, Shadows, Word
    <3> QED BY <1>1, <1>2, <3>1
  <2>4. n \subseteq Word
    BY <1>1
  <2> HIDE DEF o, c, n
  <2> QED BY <1>1, <2>1, <2>2, <2>3, <2>4 DEF Packed
<1> QED BY <1>3, <1>4

(* Tags field by field: a record with an EXCEPT is compared in this form.  *)
TagFields(T) ==
  [used : T, seq : T, obj_id : T, chunk_id : T, n_bytes : T, extra : T,
   parent : T, shrink : T, shadows : T, type : T, equiv : T, size : T]

SameTags(t, u) ==
  /\ t.used = u.used /\ t.seq = u.seq /\ t.obj_id = u.obj_id
  /\ t.chunk_id = u.chunk_id /\ t.n_bytes = u.n_bytes /\ t.extra = u.extra
  /\ t.parent = u.parent /\ t.shrink = u.shrink /\ t.shadows = u.shadows
  /\ t.type = u.type /\ t.equiv = u.equiv /\ t.size = u.size

LEMMA SameFields ==
  ASSUME NEW T, NEW t \in TagFields(T), NEW u \in TagFields(T), SameTags(t, u)
  PROVE  t = u
BY DEF TagFields, SameTags

TagsWith(t, a, b) == [t EXCEPT !.n_bytes = {}, !.equiv = a, !.size = b]

(* Tags without their extra information, and with that of their type.      *)
LEMMA TagsExcept ==
  ASSUME NEW T, NEW t \in TagFields(T), {} \in T, FALSE \in T,
         NEW a \in T, NEW b \in T
  PROVE  /\ NoExtra(t)
              = [used |-> t.used, seq |-> t.seq, obj_id |-> t.obj_id,
                 chunk_id |-> t.chunk_id, n_bytes |-> t.n_bytes,
                 extra |-> FALSE, parent |-> {}, shrink |-> FALSE,
                 shadows |-> FALSE, type |-> {}, equiv |-> {}, size |-> {}]
         /\ TagsWith(t, a, b)
              = [used |-> t.used, seq |-> t.seq, obj_id |-> t.obj_id,
                 chunk_id |-> t.chunk_id, n_bytes |-> {}, extra |-> t.extra,
                 parent |-> t.parent, shrink |-> t.shrink,
                 shadows |-> t.shadows, type |-> t.type, equiv |-> a,
                 size |-> b]
<1> DEFINE bare == [used |-> t.used, seq |-> t.seq, obj_id |-> t.obj_id,
                    chunk_id |-> t.chunk_id, n_bytes |-> t.n_bytes,
                    extra |-> FALSE, parent |-> {}, shrink |-> FALSE,
                    shadows |-> FALSE, type |-> {}, equiv |-> {},
                    size |-> {}]
           kept == [used |-> t.used, seq |-> t.seq, obj_id |-> t.obj_id,
                    chunk_id |-> t.chunk_id, n_bytes |-> {},
                    extra |-> t.extra, parent |-> t.parent,
                    shrink |-> t.shrink, shadows |-> t.shadows,
                    type |-> t.type, equiv |-> a, size |-> b]
           put == TagsWith(t, a, b)
<1>1. bare \in TagFields(T) /\ kept \in TagFields(T)
  BY DEF TagFields
<1>2. NoExtra(t) \in TagFields(T)
  BY DEF TagFields, NoExtra
<1>3. put \in TagFields(T)
  BY DEF TagFields, TagsWith
<1>4. SameTags(NoExtra(t), bare)
  BY DEF TagFields, NoExtra, SameTags
<1>5. SameTags(put, kept)
  BY DEF TagFields, SameTags, TagsWith
<1>6. NoExtra(t) = bare
  BY <1>1, <1>2, <1>4, SameFields
<1>7. put = kept
  BY <1>1, <1>3, <1>5, SameFields
<1> QED BY <1>6, <1>7

(* What is packed is unpacked as what a reader is to learn.                *)
LEMMA UnpackPacked ==
  ASSUME NEW t \in Tags
  PROVE  /\ UnpackTagsOnly(PackTagsOnly(t)) = Stored(t)
         /\ Stored(t).used = TRUE
<1>1. t \in TagRecords /\ Cardinality(t.seq) <= 29
  BY TagsAssumption
<1>2. t.seq # Word
  <2>1. 0 \in Int /\ 31 \in Int /\ ~(0 > 31) /\ 31 - 0 + 1 = 32
    OBVIOUS
  <2>2. Cardinality(0 .. 31) = IF 0 > 31 THEN 0 ELSE 31 - 0 + 1
    BY <2>1, FS_Interval
  <2>3. Cardinality(0 .. 31) = 32
    BY <2>1, <2>2
  <2> QED BY <1>1, <2>3 DEF Word
<1>3. t = [used |-> TRUE, seq |-> t.seq, obj_id |-> t.obj_id,
           chunk_id |-> t.chunk_id, n_bytes |-> t.n_bytes, extra |-> t.extra,
           parent |-> t.parent, shrink |-> t.shrink, shadows |-> t.shadows,
           type |-> t.type, equiv |-> t.equiv, size |-> t.size]
  BY <1>1 DEF TagRecords
<1>4. /\ t.obj_id \in SUBSET (0 .. 27)
      /\ t.chunk_id \in SUBSET (0 .. 27) /\ t.parent \in SUBSET (0 .. 27)
      /\ t.type \in SUBSET (0 .. 3) /\ t.size \in SUBSET (0 .. 63)
      /\ t.extra \in BOOLEAN /\ t.shrink \in BOOLEAN /\ t.shadows \in BOOLEAN
  BY <1>1 DEF TagRecords
<1>5. CheckTagsExtraPackable(t)
        <=> /\ t.chunk_id = {} /\ t.extra
            /\ (t.type = TypeFile => \A b \in t.size : b < 31)
  <2>1. \A b \in t.size : b >= 31 <=> ~(b < 31)
    BY <1>4
  <2> QED BY <2>1 DEF CheckTagsExtraPackable
<1> DEFINE T == BOOLEAN \cup SUBSET Nat
<1>8. /\ t \in TagFields(T) /\ t.used = TRUE
      /\ {} \in T /\ FALSE \in T
  <2>1. /\ SUBSET Word \subseteq T /\ SUBSET (0 .. 27) \subseteq T
        /\ SUBSET (0 .. 3) \subseteq T /\ SUBSET (0 .. 63) \subseteq T
        /\ {TRUE} \subseteq T /\ BOOLEAN \subseteq T /\ {} \in T
    BY DEF Word
  <2> HIDE DEF T
  <2>2. t \in TagFields(T) /\ t.used = TRUE
    BY <1>1, <2>1 DEF TagRecords, TagFields
  <2> QED BY <2>1, <2>2
<1> HIDE DEF T
<1>6. CASE ~CheckTagsExtraPackable(t)
  <2>1. PackTagsOnly(t) = [seq |-> t.seq, obj_id |-> t.obj_id,
                           chunk_id |-> t.chunk_id, n_bytes |-> t.n_bytes]
    BY <1>6 DEF PackTagsOnly
  <2>2. HeaderInfo \notin t.chunk_id
    BY <1>4 DEF HeaderInfo
  <2>3. UnpackTagsOnly(PackTagsOnly(t))
          = [Zeroed EXCEPT !.used = TRUE, !.seq = t.seq, !.obj_id = t.obj_id,
                           !.chunk_id = t.chunk_id, !.n_bytes = t.n_bytes]
    BY <1>2, <2>1, <2>2 DEF UnpackTagsOnly
  <2>4. Stored(t) = NoExtra(t)
    BY <1>5, <1>6 DEF Stored
  <2>5. NoExtra(t)
          = [used |-> TRUE, seq |-> t.seq, obj_id |-> t.obj_id,
             chunk_id |-> t.chunk_id, n_bytes |-> t.n_bytes, extra |-> FALSE,
             parent |-> {}, shrink |-> FALSE, shadows |-> FALSE,
             type |-> {}, equiv |-> {}, size |-> {}]
    BY <1>8, TagsExcept
  <2>6. UnpackTagsOnly(PackTagsOnly(t)) = NoExtra(t)
    BY <2>3, <2>5 DEF Zeroed
  <2> QED BY <2>4, <2>5, <2>6
<1>7. CASE CheckTagsExtraPackable(t)
  <2> DEFINE o == (t.obj_id \ ExtraFlags) \cup {b + TypeShift : b \in t.type}
             c == {HeaderInfo} \cup t.parent
                  \cup (IF t.shrink THEN {Shrink} ELSE {})
                  \cup (IF t.shadows THEN {Shadows} ELSE {})
             n == IF t.type = TypeHardlink THEN t.equiv
                  ELSE IF t.type = TypeFile THEN t.size \cap Word ELSE {}
             type == {b - TypeShift : b \in o \cap ExtraFlags}
  <2>1. PackTagsOnly(t) = [seq |-> t.seq, obj_id |-> o, chunk_id |-> c,
                           n_bytes |-> n]
    BY <1>7 DEF PackTagsOnly
  <2>2. HeaderInfo \in c
    OBVIOUS
  <2>3. o \ ExtraFlags = t.obj_id /\ type = t.type
    <3>1. t.obj_id \cap ExtraFlags = {}
      BY <1>4 DEF ExtraFlags
    <3>2. \A b \in 0 .. 3 : b + TypeShift \in ExtraFlags
                            /\ (b + TypeShift) - TypeShift = b
      BY DEF ExtraFlags, TypeShift
    <3>3. {b + TypeShift : b \in t.type} \subseteq ExtraFlags
      BY <1>4, <3>2
    <3>4. o \cap ExtraFlags = {b + TypeShift : b \in t.type}
      BY <3>1, <3>3
    <3>5. type = t.type
      <4>1. type = {b - TypeShift : b \in {a + TypeShift : a \in t.type}}
        BY <3>4
      <4> QED BY <1>4, <3>2, <4>1
    <3>6. o \ ExtraFlags = t.obj_id
      BY <3>1, <3>3
    <3> QED BY <3>5, <3>6
  <2>4. /\ c \ ExtraFlags = t.parent
        /\ Shrink \in c <=> t.shrink
        /\ Shadows \in c <=> t.shadows
    <3>1. /\ HeaderInfo \in ExtraFlags /\ Shrink \in ExtraFlags
          /\ Shadows \in ExtraFlags /\ t.parent \cap ExtraFlags = {}
          /\ Shrink # HeaderInfo /\ Shadows # HeaderInfo /\ Shrink # Shadows
      BY <1>4 DEF HeaderInfo, Shrink, Shadows, ExtraFlags
    <3> QED BY <3>1
  <2>5. t.type = TypeFile => t.size \cap Word = t.size
    <3>1. \A b \in t.size : b < 31 => b \in Word
      BY <1>4 DEF Word
    <3> QED BY <1>5, <1>7, <3>1
  <2>6. TypeHardlink # TypeFile
    BY DEF TypeHardlink, TypeFile
  <2> HIDE DEF o, c, n, type
  <2>7. UnpackTagsOnly(PackTagsOnly(t))
          = [Zeroed EXCEPT !.used = TRUE, !.seq = t.seq, !.extra = TRUE,
             !.obj_id = t.obj_id, !.parent = t.parent, !.shrink = t.shrink,
             !.shadows = t.shadows, !.type = t.type,
             !.equiv = IF t.type = TypeHardlink THEN n ELSE {},
             !.size = IF t.type = TypeHardlink THEN {} ELSE n]
    <3>1. UnpackTagsOnly(PackTagsOnly(t))
            = [Zeroed EXCEPT !.used = TRUE, !.seq = t.seq, !.extra = TRUE,
               !.obj_id = o \ ExtraFlags, !.parent = c \ ExtraFlags,
               !.shrink = Shrink \in c, !.shadows = Shadows \in c,
               !.type = type,
               !.equiv = IF type = TypeHardlink THEN n ELSE {},
               !.size = IF type = TypeHardlink THEN {} ELSE n]
      BY <1>2, <2>1, <2>2 DEF UnpackTagsOnly, type
    <3>2. (Shrink \in c) = t.shrink /\ (Shadows \in c) = t.shadows
      BY <1>4, <2>4
    <3> QED BY <2>3, <2>4, <3>1, <3>2
  <2>8. /\ (IF t.type = TypeHardlink THEN n ELSE {})
             = (IF t.type = TypeHardlink THEN t.equiv ELSE {})
        /\ (IF t.type = TypeHardlink THEN {} ELSE n)
             = (IF t.type = TypeFile THEN t.size ELSE {})
    BY <2>5, <2>6 DEF n
  <2>9. Stored(t) = [t EXCEPT !.n_bytes = {},
                        !.equiv = IF t.type = TypeHardlink THEN @ ELSE {},
                        !.size = IF t.type = TypeFile THEN @ ELSE {}]
    BY <1>5, <1>7 DEF Stored
  <2> DEFINE a == IF t.type = TypeHardlink THEN t.equiv ELSE {}
             b == IF t.type = TypeFile THEN t.size ELSE {}
  <2>15. a \in T /\ b \in T
    BY <1>8 DEF TagFields
  <2>14. Stored(t) = TagsWith(t, a, b)
    BY <2>9 DEF TagsWith
  <2>10. t.chunk_id = {} /\ t.extra = TRUE
    BY <1>4, <1>5, <1>7
  <2>11. Stored(t)
           = [used |-> TRUE, seq |-> t.seq, obj_id |-> t.obj_id,
              chunk_id |-> {}, n_bytes |-> {}, extra |-> TRUE,
              parent |-> t.parent, shrink |-> t.shrink, shadows |-> t.shadows,
              type |-> t.type, equiv |-> a, size |-> b]
    <3> HIDE DEF a, b
    <3>1. TagsWith(t, a, b)
            = [used |-> t.used, seq |-> t.seq, obj_id |-> t.obj_id,
               chunk_id |-> t.chunk_id, n_bytes |-> {}, extra |-> t.extra,
               parent |-> t.parent, shrink |-> t.shrink,
               shadows |-> t.shadows, type |-> t.type, equiv |-> a,
               size |-> b]
      BY <1>8, <2>15, TagsExcept
    <3> QED BY <1>8, <2>14, <3>1, <2>10
  <2>12. UnpackTagsOnly(PackTagsOnly(t)) = Stored(t)
    <3>1. UnpackTagsOnly(PackTagsOnly(t))
            = [Zeroed EXCEPT !.used = TRUE, !.seq = t.seq, !.extra = TRUE,
               !.obj_id = t.obj_id, !.parent = t.parent, !.shrink = t.shrink,
               !.shadows = t.shadows, !.type = t.type, !.equiv = a, !.size = b]
      BY <2>7, <2>8
    <3> HIDE DEF a, b
    <3> QED BY <2>11, <3>1 DEF Zeroed
  <2> QED BY <2>11, <2>12
<1> QED BY <1>6, <1>7

(* The four words survive their way through the bytes.                     *)
LEMMA WordsOfBytes ==
  ASSUME NEW p \in Packed
  PROVE  /\ Words(Bytes(p)) = p
         /\ Bytes(p) \subseteq (0 .. 15) \X (0 .. 7)
<1> DEFINE Place(b, n) == <<4 * n + 3 - b \div 8, b % 8>>
           At(w, n) == {Place(b, n) : b \in w}
<1>1. p = [seq |-> p.seq, obj_id |-> p.obj_id, chunk_id |-> p.chunk_id,
           n_bytes |-> p.n_bytes]
      /\ p.seq \in SUBSET Word /\ p.obj_id \in SUBSET Word
      /\ p.chunk_id \in SUBSET Word /\ p.n_bytes \in SUBSET Word
  BY DEF Packed
<1>2. Bytes(p) = At(p.seq, 0) \cup At(p.obj_id, 1) \cup At(p.chunk_id, 2)
                 \cup At(p.n_bytes, 3)
  BY DEF Bytes
<1>3. \A d : Words(d) = [seq |-> {b \in Word : Place(b, 0) \in d},
                         obj_id |-> {b \in Word : Place(b, 1) \in d},
                         chunk_id |-> {b \in Word : Place(b, 2) \in d},
                         n_bytes |-> {b \in Word : Place(b, 3) \in d}]
  BY DEF Words
<1>4. \A b, a \in Word, n, m \in 0 .. 3 :
        /\ Place(b, n) = Place(a, m) => b = a /\ n = m
        /\ Place(b, n) \in (0 .. 15) \X (0 .. 7)
  <2> TAKE b, a \in Word, n, m \in 0 .. 3
  <2>1. /\ b \div 8 \in 0 .. 3 /\ b = 8 * (b \div 8) + (b % 8)
        /\ b % 8 \in 0 .. 7
    BY DEF Word
  <2>2. /\ a \div 8 \in 0 .. 3 /\ a = 8 * (a \div 8) + (a % 8)
        /\ a % 8 \in 0 .. 7
    BY DEF Word
  <2>3. \A x, y \in 0 .. 3 : 4 * n + 3 - x = 4 * m + 3 - y => x = y /\ n = m
    OBVIOUS
  <2>4. \A x \in 0 .. 3 : 4 * n + 3 - x \in 0 .. 15
    OBVIOUS
  <2> QED BY <2>1, <2>2, <2>3, <2>4
<1> HIDE DEF Place
<1>5. \A b \in Word : /\ Place(b, 0) \in Bytes(p) <=> b \in p.seq
                      /\ Place(b, 1) \in Bytes(p) <=> b \in p.obj_id
                      /\ Place(b, 2) \in Bytes(p) <=> b \in p.chunk_id
                      /\ Place(b, 3) \in Bytes(p) <=> b \in p.n_bytes
  <2>1. 0 \in 0 .. 3 /\ 1 \in 0 .. 3 /\ 2 \in 0 .. 3 /\ 3 \in 0 .. 3
    OBVIOUS
  <2>2. \A n \in 0 .. 3, w \in SUBSET Word, b \in Word, m \in 0 .. 3 :
          Place(b, m) \in At(w, n) <=> (m = n /\ b \in w)
    BY <1>4
  <2> HIDE DEF At
  <2> QED BY <1>1, <1>2, <2>1, <2>2
<1>6. /\ {b \in Word : Place(b, 0) \in Bytes(p)} = p.seq
      /\ {b \in Word : Place(b, 1) \in Bytes(p)} = p.obj_id
      /\ {b \in Word : Place(b, 2) \in Bytes(p)} = p.chunk_id
      /\ {b \in Word : Place(b, 3) \in Bytes(p)} = p.n_bytes
  BY <1>1, <1>5
<1>7. Words(Bytes(p)) = p
  BY <1>1, <1>3, <1>6
<1>8. Bytes(p) \subseteq (0 .. 15) \X (0 .. 7)
  <2>1. \A n \in 0 .. 3, w \in SUBSET Word : At(w, n) \subseteq (0 .. 15) \X (0 .. 7)
    BY <1>4
  <2>2. 0 \in 0 .. 3 /\ 1 \in 0 .. 3 /\ 2 \in 0 .. 3 /\ 3 \in 0 .. 3
    OBVIOUS
  <2> HIDE DEF At
  <2> QED BY <1>1, <1>2, <2>1, <2>2
<1> QED BY <1>7, <1>8

-----------------------------------------------------------------------------
(* The page and its places.                                                *)

TagParts == {"tags", "col", "line", "prime"}
DataParts == {"data", "ecc"}

LEMMA PlaceIs ==
  ASSUME NEW p \in Places
  PROVE  /\ p = <<p[1], p[2], p[3], p[4]>>
         /\ p[1] \in TagParts <=> p \in TagPlaces \cup TagEccPlaces
         /\ p[1] = "tags" <=> p \in TagPlaces
         /\ p[1] \in TagParts <=> p[2] = 0
         /\ p[1] \in DataParts
              <=> p[2] \in Blocks /\ p \in DataPlaces(p[2]) \cup EccPlaces(p[2])
         /\ p[1] = "tags" => p[3] \in 0 .. 15 /\ p[4] \in 0 .. 7
         /\ p[1] = "data" => p[3] \in DataBytes /\ p[4] \in 0 .. 7
         /\ p[1] = "col" => p[4] \in 0 .. 7
         /\ p[1] \in {"line", "prime"} => p[4] \in Word
         /\ p[1] = "ecc" => p[4] \in 0 .. 23
         /\ p[1] \notin {"tags", "data"} => p[3] = 0
<1>1. 0 \notin Blocks
  BY DataAssumption DEF Blocks
<1>2. CASE p \in TagPlaces
  BY <1>1, <1>2 DEF TagPlaces, TagEccPlaces, TagParts, DataParts
<1>3. CASE p \in TagEccPlaces
  BY <1>1, <1>3 DEF TagPlaces, TagEccPlaces, TagParts, DataParts
<1>4. CASE \E n \in Blocks : p \in DataPlaces(n)
  BY <1>1, <1>4 DEF TagPlaces, TagEccPlaces, TagParts, DataParts, DataPlaces
<1>5. CASE \E n \in Blocks : p \in EccPlaces(n)
  BY <1>1, <1>5 DEF TagPlaces, TagEccPlaces, TagParts, DataParts, EccPlaces
<1>6. \/ p \in TagPlaces \/ p \in TagEccPlaces
      \/ \E n \in Blocks : p \in DataPlaces(n)
      \/ \E n \in Blocks : p \in EccPlaces(n)
  BY DEF Places
<1> QED BY <1>2, <1>3, <1>4, <1>5, <1>6

(* The places there are.                                                   *)
LEMMA HasPlaces ==
  /\ \A i \in 0 .. 15, b \in 0 .. 7 : <<"tags", 0, i, b>> \in Places
  /\ \A b \in 0 .. 7 : <<"col", 0, 0, b>> \in Places
  /\ \A b \in Word : /\ <<"line", 0, 0, b>> \in Places
                     /\ <<"prime", 0, 0, b>> \in Places
  /\ \A n \in Blocks, i \in DataBytes, b \in 0 .. 7 :
       <<"data", n, i, b>> \in Places
  /\ \A n \in Blocks, b \in 0 .. 23 : <<"ecc", n, 0, b>> \in Places
BY DEF Places, TagPlaces, TagEccPlaces, DataPlaces, EccPlaces

(* What the code reads of a page, part by part.                            *)
LEMMA PageReads ==
  ASSUME page \subseteq Places
  PROVE  /\ TagBytes = CellsOf(page, "tags", 0)
         /\ Part("col") = BitsOf(page, "col", 0)
         /\ Part("line") = BitsOf(page, "line", 0)
         /\ Part("prime") = BitsOf(page, "prime", 0)
         /\ \A n : /\ DataBlock(n) = CellsOf(page, "data", n)
                   /\ EccBlock(n) = BitsOf(page, "ecc", n)
<1>1. page \cap TagPlaces = {q \in page : q[1] = "tags" /\ q[2] = 0}
  <2>1. \A q \in page : q \in TagPlaces <=> q[1] = "tags" /\ q[2] = 0
    BY PlaceIs DEF TagParts
  <2> QED BY <2>1
<1>2. TagBytes = CellsOf(page, "tags", 0)
  BY <1>1 DEF TagBytes, CellsOf
<1>3. \A x \in TagParts : {q \in page : q[1] = x}
                            = {q \in page : q[1] = x /\ q[2] = 0}
  BY PlaceIs
<1>4. \A x \in TagParts : Part(x) = BitsOf(page, x, 0)
  BY <1>3 DEF Part, BitsOf
<1>5. \A n : /\ DataBlock(n) = CellsOf(page, "data", n)
             /\ EccBlock(n) = BitsOf(page, "ecc", n)
  BY DEF DataBlock, EccBlock, CellsOf, BitsOf
<1> QED BY <1>2, <1>4, <1>5 DEF TagParts

(* Reading commutes with exclusive or.                                     *)
LEMMA ReadHas ==
  ASSUME NEW S \in SUBSET Places, NEW n
  PROVE  /\ \A x, i, b :
              <<i, b>> \in CellsOf(S, x, n) <=> <<x, n, i, b>> \in S
         /\ \A x, c : c \in CellsOf(S, x, n) => c = <<c[1], c[2]>>
         /\ \A x \in {"col", "line", "prime", "ecc"} : \A b :
              b \in BitsOf(S, x, n) <=> <<x, n, 0, b>> \in S
<1>1. \A p \in S : /\ p = <<p[1], p[2], p[3], p[4]>>
                   /\ p[1] \notin {"tags", "data"} => p[3] = 0
  BY PlaceIs
<1>2. ASSUME NEW x, NEW i, NEW b
      PROVE  <<i, b>> \in CellsOf(S, x, n) <=> <<x, n, i, b>> \in S
  <2>1. ASSUME <<i, b>> \in CellsOf(S, x, n)
        PROVE  <<x, n, i, b>> \in S
    <3>1. PICK p \in S : p[1] = x /\ p[2] = n /\ <<i, b>> = <<p[3], p[4]>>
      BY <2>1 DEF CellsOf
    <3>2. p = <<x, n, i, b>>
      BY <1>1, <3>1
    <3> QED BY <3>1, <3>2
  <2>2. ASSUME <<x, n, i, b>> \in S
        PROVE  <<i, b>> \in CellsOf(S, x, n)
    <3>1. PICK p : p = <<x, n, i, b>>
      OBVIOUS
    <3>2. p \in S /\ p[1] = x /\ p[2] = n /\ p[3] = i /\ p[4] = b
      BY <2>2, <3>1
    <3> QED BY <3>2 DEF CellsOf
  <2> QED BY <2>1, <2>2
<1>3. ASSUME NEW x \in {"col", "line", "prime", "ecc"}, NEW b
      PROVE  b \in BitsOf(S, x, n) <=> <<x, n, 0, b>> \in S
  <2>1. ASSUME b \in BitsOf(S, x, n)
        PROVE  <<x, n, 0, b>> \in S
    <3>1. PICK p \in S : p[1] = x /\ p[2] = n /\ b = p[4]
      BY <2>1 DEF BitsOf
    <3>2. p = <<x, n, 0, b>>
      BY <1>1, <3>1
    <3> QED BY <3>1, <3>2
  <2>2. ASSUME <<x, n, 0, b>> \in S
        PROVE  b \in BitsOf(S, x, n)
    <3>1. PICK p : p = <<x, n, 0, b>>
      OBVIOUS
    <3>2. p \in S /\ p[1] = x /\ p[2] = n /\ p[4] = b
      BY <2>2, <3>1
    <3> QED BY <3>2 DEF BitsOf
  <2> QED BY <2>1, <2>2
<1>4. \A x, c : c \in CellsOf(S, x, n) => c = <<c[1], c[2]>>
  BY DEF CellsOf
<1> QED BY <1>2, <1>3, <1>4

LEMMA ReadXor ==
  ASSUME NEW S \in SUBSET Places, NEW T \in SUBSET Places, NEW n
  PROVE  /\ \A x \in {"tags", "data"} :
              CellsOf(Xor(S, T), x, n) = Xor(CellsOf(S, x, n), CellsOf(T, x, n))
         /\ \A x \in {"col", "line", "prime", "ecc"} :
              BitsOf(Xor(S, T), x, n) = Xor(BitsOf(S, x, n), BitsOf(T, x, n))
<1>1. Xor(S, T) \in SUBSET Places
  BY DEF Xor
<1>2. \A p : p \in Xor(S, T) <=> ~(p \in S <=> p \in T)
  BY DEF Xor
<1>3. ASSUME NEW x \in {"tags", "data"}
      PROVE  CellsOf(Xor(S, T), x, n) = Xor(CellsOf(S, x, n), CellsOf(T, x, n))
  <2>1. ASSUME NEW c
        PROVE  c \in CellsOf(Xor(S, T), x, n)
                 <=> ~(c \in CellsOf(S, x, n) <=> c \in CellsOf(T, x, n))
    <3>1. CASE c = <<c[1], c[2]>>
      <4>1. PICK i, b : i = c[1] /\ b = c[2]
        OBVIOUS
      <4>2. c = <<i, b>>
        BY <3>1, <4>1
      <4>3. /\ c \in CellsOf(S, x, n) <=> <<x, n, i, b>> \in S
            /\ c \in CellsOf(T, x, n) <=> <<x, n, i, b>> \in T
            /\ c \in CellsOf(Xor(S, T), x, n) <=> <<x, n, i, b>> \in Xor(S, T)
        BY <1>1, <4>2, ReadHas
      <4> QED BY <1>2, <4>3
    <3>2. CASE c # <<c[1], c[2]>>
      BY <1>1, <3>2, ReadHas
    <3> QED BY <3>1, <3>2
  <2> QED BY <2>1, XorIs
<1>4. ASSUME NEW x \in {"col", "line", "prime", "ecc"}
      PROVE  BitsOf(Xor(S, T), x, n) = Xor(BitsOf(S, x, n), BitsOf(T, x, n))
  <2>1. ASSUME NEW b
        PROVE  b \in BitsOf(Xor(S, T), x, n)
                 <=> ~(b \in BitsOf(S, x, n) <=> b \in BitsOf(T, x, n))
    <3>1. /\ b \in BitsOf(S, x, n) <=> <<x, n, 0, b>> \in S
          /\ b \in BitsOf(T, x, n) <=> <<x, n, 0, b>> \in T
      BY ReadHas
    <3>2. b \in BitsOf(Xor(S, T), x, n) <=> <<x, n, 0, b>> \in Xor(S, T)
      BY <1>1, ReadHas
    <3> QED BY <1>2, <3>1, <3>2
  <2> QED BY <2>1, XorIs
<1> QED BY <1>3, <1>4

-----------------------------------------------------------------------------
(* What a chunk holds after it was written, and what is read of it after   *)
(* some of its bits have changed.                                          *)

TagCells(w) == Bytes(PackTagsOnly(w.tags))

Encoded(w) ==
  {p \in Places :
     \/ p[1] = "tags" /\ <<p[3], p[4]>> \in TagCells(w)
     \/ p[1] = "col" /\ p[4] \in EccCalcOther(TagCells(w)).col
     \/ p[1] = "line" /\ p[4] \in EccCalcOther(TagCells(w)).line
     \/ p[1] = "prime" /\ p[4] \in EccCalcOther(TagCells(w)).prime
     \/ p[1] = "data" /\ <<p[3], p[4]>> \in w.data[p[2]]
     \/ p[1] = "ecc" /\ p[4] \in EccCalc(w.data[p[2]])}

LEMMA WritingIs ==
  ASSUME NEW w \in Writings
  PROVE  /\ w = [tags |-> w.tags, data |-> w.data] /\ w.tags \in Tags
         /\ w.data = [n \in Blocks |-> w.data[n]]
         /\ \A n \in Blocks : w.data[n] \subseteq DataBytes \X (0 .. 7)
         /\ TagCells(w) \subseteq (0 .. 15) \X (0 .. 7)
         /\ EccCalcOther(TagCells(w)).col \subseteq 0 .. 5
         /\ EccCalcOther(TagCells(w)).line \subseteq Word
         /\ EccCalcOther(TagCells(w)).prime \subseteq Word
         /\ \A n \in Blocks : EccCalc(w.data[n]) \subseteq 0 .. 23
<1>1. /\ w = [tags |-> w.tags, data |-> w.data] /\ w.tags \in Tags
      /\ w.data \in [Blocks -> SUBSET (DataBytes \X (0 .. 7))]
  BY DEF Writings, Blocks
<1>2. /\ w.data = [n \in Blocks |-> w.data[n]]
      /\ \A n \in Blocks : w.data[n] \subseteq DataBytes \X (0 .. 7)
  BY <1>1
<1>3. TagCells(w) \subseteq (0 .. 15) \X (0 .. 7)
  BY <1>1, PackedType, WordsOfBytes DEF TagCells
<1>4. \A d : /\ EccCalcOther(d).col = ColParity(d)
             /\ EccCalcOther(d).line \subseteq Word
             /\ EccCalcOther(d).prime \subseteq Word
  BY DEF EccCalcOther, LineParity, LineParityPrime
<1>5. \A d : EccCalcOther(d).col \subseteq 0 .. 5
  BY <1>4, ParityHas
<1>6. \A d : EccCalc(d) \subseteq 0 .. 23
  BY DEF EccCalc
<1> QED BY <1>1, <1>2, <1>3, <1>4, <1>5, <1>6

(* The places of an encoded chunk, part by part.                           *)
LEMMA EncodedHas ==
  ASSUME NEW w \in Writings
  PROVE  /\ Encoded(w) \in SUBSET Places
         /\ \A i, b : <<"tags", 0, i, b>> \in Encoded(w)
                        <=> <<i, b>> \in TagCells(w)
         /\ \A b : <<"col", 0, 0, b>> \in Encoded(w)
                     <=> b \in EccCalcOther(TagCells(w)).col
         /\ \A b : <<"line", 0, 0, b>> \in Encoded(w)
                     <=> b \in EccCalcOther(TagCells(w)).line
         /\ \A b : <<"prime", 0, 0, b>> \in Encoded(w)
                     <=> b \in EccCalcOther(TagCells(w)).prime
         /\ \A n \in Blocks : \A i, b : <<"data", n, i, b>> \in Encoded(w)
                                        <=> <<i, b>> \in w.data[n]
         /\ \A n \in Blocks : \A b : <<"ecc", n, 0, b>> \in Encoded(w)
                                     <=> b \in EccCalc(w.data[n])
<1>1. PICK t, c, l, m : /\ t = TagCells(w) /\ c = EccCalcOther(TagCells(w)).col
                        /\ l = EccCalcOther(TagCells(w)).line
                        /\ m = EccCalcOther(TagCells(w)).prime
  OBVIOUS
<1>2. /\ t \subseteq (0 .. 15) \X (0 .. 7) /\ c \subseteq 0 .. 7
      /\ l \subseteq Word /\ m \subseteq Word
      /\ \A n \in Blocks : w.data[n] \subseteq DataBytes \X (0 .. 7)
      /\ \A n \in Blocks : EccCalc(w.data[n]) \subseteq 0 .. 23
  <2>1. 0 .. 5 \subseteq 0 .. 7
    OBVIOUS
  <2>2. c \subseteq 0 .. 5
    BY <1>1, WritingIs
  <2> QED BY <1>1, <2>1, <2>2, WritingIs
<1>3. \A p : p \in Encoded(w)
               <=> /\ p \in Places
                   /\ \/ p[1] = "tags" /\ <<p[3], p[4]>> \in t
                      \/ p[1] = "col" /\ p[4] \in c
                      \/ p[1] = "line" /\ p[4] \in l
                      \/ p[1] = "prime" /\ p[4] \in m
                      \/ p[1] = "data" /\ <<p[3], p[4]>> \in w.data[p[2]]
                      \/ p[1] = "ecc" /\ p[4] \in EccCalc(w.data[p[2]])
  BY <1>1 DEF Encoded
<1>4. ASSUME NEW i, NEW b
      PROVE  <<"tags", 0, i, b>> \in Encoded(w) <=> <<i, b>> \in t
  <2>1. PICK p : p = <<"tags", 0, i, b>>
    OBVIOUS
  <2>2. p[1] = "tags" /\ p[3] = i /\ p[4] = b
    BY <2>1
  <2>3. <<i, b>> \in t => p \in Places
    BY <1>2, <2>1, HasPlaces
  <2>4. p \in Encoded(w) <=> p \in Places /\ <<i, b>> \in t
    BY <1>3, <2>2
  <2> QED BY <2>1, <2>3, <2>4
<1>5. ASSUME NEW b
      PROVE  /\ <<"col", 0, 0, b>> \in Encoded(w) <=> b \in c
             /\ <<"line", 0, 0, b>> \in Encoded(w) <=> b \in l
             /\ <<"prime", 0, 0, b>> \in Encoded(w) <=> b \in m
  <2>1. PICK p, q, r : /\ p = <<"col", 0, 0, b>> /\ q = <<"line", 0, 0, b>>
                       /\ r = <<"prime", 0, 0, b>>
    OBVIOUS
  <2>2. /\ p[1] = "col" /\ p[4] = b /\ q[1] = "line" /\ q[4] = b
        /\ r[1] = "prime" /\ r[4] = b
    BY <2>1
  <2>3. /\ b \in c => p \in Places
        /\ b \in l => q \in Places
        /\ b \in m => r \in Places
    BY <1>2, <2>1, HasPlaces
  <2>4. /\ p \in Encoded(w) <=> p \in Places /\ b \in c
        /\ q \in Encoded(w) <=> q \in Places /\ b \in l
        /\ r \in Encoded(w) <=> r \in Places /\ b \in m
    BY <1>3, <2>2
  <2> QED BY <2>1, <2>3, <2>4
<1>6. ASSUME NEW n \in Blocks, NEW i, NEW b
      PROVE  <<"data", n, i, b>> \in Encoded(w) <=> <<i, b>> \in w.data[n]
  <2>1. PICK p : p = <<"data", n, i, b>>
    OBVIOUS
  <2>2. p[1] = "data" /\ p[2] = n /\ p[3] = i /\ p[4] = b
    BY <2>1
  <2>3. PICK d : d = w.data[n] /\ d \subseteq DataBytes \X (0 .. 7)
    BY <1>2
  <2>4. <<i, b>> \in d => p \in Places
    BY <2>1, <2>3, HasPlaces
  <2>5. p \in Encoded(w) <=> p \in Places /\ <<i, b>> \in d
    BY <1>3, <2>2, <2>3
  <2> QED BY <2>1, <2>3, <2>4, <2>5
<1>7. ASSUME NEW n \in Blocks, NEW b
      PROVE  <<"ecc", n, 0, b>> \in Encoded(w) <=> b \in EccCalc(w.data[n])
  <2>1. PICK p : p = <<"ecc", n, 0, b>>
    OBVIOUS
  <2>2. p[1] = "ecc" /\ p[2] = n /\ p[4] = b
    BY <2>1
  <2>3. PICK d : d = EccCalc(w.data[n]) /\ d \subseteq 0 .. 23
    BY <1>2
  <2>4. b \in d => p \in Places
    BY <2>1, <2>3, HasPlaces
  <2>5. p \in Encoded(w) <=> p \in Places /\ b \in d
    BY <1>3, <2>2, <2>3
  <2> QED BY <2>1, <2>3, <2>4, <2>5
<1>8. Encoded(w) \in SUBSET Places
  BY <1>3
<1> QED BY <1>1, <1>4, <1>5, <1>6, <1>7, <1>8

LEMMA ReadEncoded ==
  ASSUME NEW w \in Writings
  PROVE  /\ CellsOf(Encoded(w), "tags", 0) = TagCells(w)
         /\ BitsOf(Encoded(w), "col", 0) = EccCalcOther(TagCells(w)).col
         /\ BitsOf(Encoded(w), "line", 0) = EccCalcOther(TagCells(w)).line
         /\ BitsOf(Encoded(w), "prime", 0) = EccCalcOther(TagCells(w)).prime
         /\ \A n \in Blocks :
              /\ CellsOf(Encoded(w), "data", n) = w.data[n]
              /\ BitsOf(Encoded(w), "ecc", n) = EccCalc(w.data[n])
<1>1. PICK S : S = Encoded(w) /\ S \in SUBSET Places
  BY EncodedHas
<1>2. CellsOf(S, "tags", 0) = TagCells(w)
  <2>1. \A i, b : <<i, b>> \in CellsOf(S, "tags", 0) <=> <<i, b>> \in TagCells(w)
    BY <1>1, EncodedHas, ReadHas
  <2>2. \A k \in TagCells(w) : k = <<k[1], k[2]>>
    <3>1. TagCells(w) \subseteq (0 .. 15) \X (0 .. 7)
      BY WritingIs
    <3> QED BY <3>1
  <2>3. \A k \in CellsOf(S, "tags", 0) : k = <<k[1], k[2]>>
    BY <1>1, ReadHas
  <2> QED BY <2>1, <2>2, <2>3
<1>3. ASSUME NEW b
      PROVE  /\ b \in BitsOf(S, "col", 0) <=> b \in EccCalcOther(TagCells(w)).col
             /\ b \in BitsOf(S, "line", 0)
                  <=> b \in EccCalcOther(TagCells(w)).line
             /\ b \in BitsOf(S, "prime", 0)
                  <=> b \in EccCalcOther(TagCells(w)).prime
  <2>1. /\ b \in BitsOf(S, "col", 0) <=> <<"col", 0, 0, b>> \in S
        /\ b \in BitsOf(S, "line", 0) <=> <<"line", 0, 0, b>> \in S
        /\ b \in BitsOf(S, "prime", 0) <=> <<"prime", 0, 0, b>> \in S
    BY <1>1, ReadHas
  <2> QED BY <1>1, <2>1, EncodedHas
<1>4. ASSUME NEW n \in Blocks
      PROVE  /\ CellsOf(S, "data", n) = w.data[n]
             /\ BitsOf(S, "ecc", n) = EccCalc(w.data[n])
  <2>1. CellsOf(S, "data", n) = w.data[n]
    <3>1. \A i, b : <<i, b>> \in CellsOf(S, "data", n) <=> <<i, b>> \in w.data[n]
      BY <1>1, EncodedHas, ReadHas
    <3>2. \A k \in w.data[n] : k = <<k[1], k[2]>>
      <4>1. w.data[n] \subseteq DataBytes \X (0 .. 7)
        BY WritingIs
      <4> QED BY <4>1
    <3>3. \A k \in CellsOf(S, "data", n) : k = <<k[1], k[2]>>
      BY <1>1, ReadHas
    <3> QED BY <3>1, <3>2, <3>3
  <2>2. BitsOf(S, "ecc", n) = EccCalc(w.data[n])
    <3>1. ASSUME NEW b
          PROVE  b \in BitsOf(S, "ecc", n) <=> b \in EccCalc(w.data[n])
      <4>1. b \in BitsOf(S, "ecc", n) <=> <<"ecc", n, 0, b>> \in S
        BY <1>1, ReadHas
      <4> QED BY <1>1, <4>1, EncodedHas
    <3> QED BY <3>1
  <2> QED BY <2>1, <2>2
<1>5. /\ BitsOf(S, "col", 0) = EccCalcOther(TagCells(w)).col
      /\ BitsOf(S, "line", 0) = EccCalcOther(TagCells(w)).line
      /\ BitsOf(S, "prime", 0) = EccCalcOther(TagCells(w)).prime
  BY <1>3
<1> QED BY <1>1, <1>2, <1>4, <1>5

(* What the write puts on an erased page.                                  *)
LEMMA WriteEncodes ==
  ASSUME NEW t \in Tags, NEW d \in Datas, WriteChunk(t, d)
  PROVE  wrote' \in Writings /\ page' = Encoded(wrote')
<1> DEFINE Of(n) == {<<x[2], x[3]>> : x \in {y \in d : y[1] = n}}
           w == [tags |-> t, data |-> [n \in Blocks |-> Of(n)]]
<1>1. d \subseteq Blocks \X DataBytes \X (0 .. 7)
  BY DataAssumption DEF Blocks
<1>2. \A n \in Blocks : Of(n) \subseteq DataBytes \X (0 .. 7)
  BY <1>1
<1>3. w \in Writings
  BY <1>2 DEF Writings, Blocks
<1>4. w.tags = t /\ \A n \in Blocks : w.data[n] = Of(n)
  OBVIOUS
<1>5. /\ wrote' = w
      /\ page' = {<<"tags", 0, x[1], x[2]>> : x \in TagCells(w)}
                 \cup {<<"col", 0, 0, b>> : b \in EccCalcOther(TagCells(w)).col}
                 \cup {<<"line", 0, 0, b>> : b \in EccCalcOther(TagCells(w)).line}
                 \cup {<<"prime", 0, 0, b>> :
                         b \in EccCalcOther(TagCells(w)).prime}
                 \cup {<<"data", x[1], x[2], x[3]>> : x \in d}
                 \cup UNION {{<<"ecc", n, 0, b>> : b \in EccCalc(Of(n))}
                             : n \in Blocks}
  BY <1>4 DEF WriteChunk, TagCells
<1>6. \A x \in d : /\ x = <<x[1], x[2], x[3]>> /\ x[1] \in Blocks
                   /\ x[2] \in DataBytes /\ x[3] \in 0 .. 7
  BY <1>1
<1>7. \A n \in Blocks : \A i, b : <<i, b>> \in Of(n) <=> <<n, i, b>> \in d
  <2> TAKE n \in Blocks
  <2> TAKE i, b
  <2>1. ASSUME <<i, b>> \in Of(n)
        PROVE  <<n, i, b>> \in d
    <3>1. PICK x \in d : x[1] = n /\ <<i, b>> = <<x[2], x[3]>>
      BY <2>1
    <3> QED BY <1>6, <3>1
  <2>2. ASSUME <<n, i, b>> \in d
        PROVE  <<i, b>> \in Of(n)
    <3>1. PICK x : x = <<n, i, b>>
      OBVIOUS
    <3>2. x \in d /\ x[1] = n /\ x[2] = i /\ x[3] = b
      BY <2>2, <3>1
    <3> QED BY <3>2
  <2> QED BY <2>1, <2>2
<1> HIDE DEF Of, w
<1>8. PICK v, c, l, m : /\ v = TagCells(w) /\ c = EccCalcOther(TagCells(w)).col
                        /\ l = EccCalcOther(TagCells(w)).line
                        /\ m = EccCalcOther(TagCells(w)).prime
  OBVIOUS
<1>9. /\ v \subseteq (0 .. 15) \X (0 .. 7) /\ c \subseteq 0 .. 5
      /\ l \subseteq Word /\ m \subseteq Word
      /\ \A n \in Blocks : EccCalc(Of(n)) \subseteq 0 .. 23
  BY <1>3, <1>4, <1>8, WritingIs
<1>10. page' \subseteq Encoded(w)
  <2>1. \A x \in v : <<"tags", 0, x[1], x[2]>> \in Encoded(w)
    <3>1. \A x \in v : x = <<x[1], x[2]>>
      BY <1>9
    <3> QED BY <1>3, <1>8, <3>1, EncodedHas
  <2>2. /\ \A b \in c : <<"col", 0, 0, b>> \in Encoded(w)
        /\ \A b \in l : <<"line", 0, 0, b>> \in Encoded(w)
        /\ \A b \in m : <<"prime", 0, 0, b>> \in Encoded(w)
    BY <1>3, <1>8, EncodedHas
  <2>3. \A x \in d : <<"data", x[1], x[2], x[3]>> \in Encoded(w)
    <3>1. \A x \in d : <<x[2], x[3]>> \in w.data[x[1]] /\ x[1] \in Blocks
      BY <1>4, <1>6, <1>7
    <3> QED BY <1>3, <3>1, EncodedHas
  <2>4. \A n \in Blocks : \A b \in EccCalc(Of(n)) :
          <<"ecc", n, 0, b>> \in Encoded(w)
    BY <1>3, <1>4, EncodedHas
  <2> QED BY <1>5, <1>8, <2>1, <2>2, <2>3, <2>4
<1>11. Encoded(w) \subseteq page'
  <2> SUFFICES ASSUME NEW p \in Encoded(w)
               PROVE  p \in page'
    OBVIOUS
  <2>1. p \in Places /\ p = <<p[1], p[2], p[3], p[4]>>
    BY PlaceIs DEF Encoded
  <2>2. /\ \A x \in v : <<"tags", 0, x[1], x[2]>> \in page'
        /\ \A b \in c : <<"col", 0, 0, b>> \in page'
        /\ \A b \in l : <<"line", 0, 0, b>> \in page'
        /\ \A b \in m : <<"prime", 0, 0, b>> \in page'
        /\ \A x \in d : <<"data", x[1], x[2], x[3]>> \in page'
        /\ \A n \in Blocks : \A b \in EccCalc(Of(n)) :
             <<"ecc", n, 0, b>> \in page'
    BY <1>5, <1>8
  <2>3. /\ p[1] \in TagParts => p[2] = 0
        /\ p[1] \in DataParts => p[2] \in Blocks
        /\ p[1] \notin {"tags", "data"} => p[3] = 0
    BY <2>1, PlaceIs
  <2>4. CASE p[1] = "tags" /\ <<p[3], p[4]>> \in v
    <3>1. <<"tags", 0, p[3], p[4]>> \in page'
      BY <2>2, <2>4
    <3> QED BY <2>1, <2>3, <2>4, <3>1 DEF TagParts
  <2>5. CASE \/ p[1] = "col" /\ p[4] \in c
             \/ p[1] = "line" /\ p[4] \in l
             \/ p[1] = "prime" /\ p[4] \in m
    BY <2>1, <2>2, <2>3, <2>5 DEF TagParts
  <2>6. CASE p[1] = "data" /\ <<p[3], p[4]>> \in w.data[p[2]]
    <3>1. p[2] \in Blocks
      BY <2>3, <2>6 DEF DataParts
    <3>2. <<p[2], p[3], p[4]>> \in d
      BY <1>4, <1>7, <2>6, <3>1
    <3>3. <<"data", p[2], p[3], p[4]>> \in page'
      BY <2>2, <3>2
    <3> QED BY <2>1, <2>6, <3>3
  <2>7. CASE p[1] = "ecc" /\ p[4] \in EccCalc(w.data[p[2]])
    <3>1. p[2] \in Blocks /\ p[3] = 0
      BY <2>3, <2>7 DEF DataParts
    <3>2. <<"ecc", p[2], 0, p[4]>> \in page'
      BY <1>4, <2>2, <2>7, <3>1
    <3> QED BY <2>1, <2>7, <3>1, <3>2
  <2> QED BY <1>8, <2>4, <2>5, <2>6, <2>7 DEF Encoded
<1> QED BY <1>3, <1>5, <1>10, <1>11

-----------------------------------------------------------------------------
(* What is read of a written chunk.                                        *)

(* The changed places of the tags and of a block are those the codes of    *)
(* the tags and of the block answer for.                                   *)
LEMMA FlipsOf ==
  ASSUME flips \in SUBSET Places
  PROVE  /\ FlipsIn(TagParts, 0) \in SUBSET (TagPlaces \cup TagEccPlaces)
         /\ CellsOf(FlipsIn(TagParts, 0), "tags", 0) = CellsOf(flips, "tags", 0)
         /\ \A x \in {"col", "line", "prime"} :
              BitsOf(FlipsIn(TagParts, 0), x, 0) = BitsOf(flips, x, 0)
         /\ \A n \in Blocks :
              /\ FlipsIn(DataParts, n)
                   \in SUBSET (DataPlaces(n) \cup EccPlaces(n))
              /\ CellsOf(FlipsIn(DataParts, n), "data", n)
                   = CellsOf(flips, "data", n)
              /\ BitsOf(FlipsIn(DataParts, n), "ecc", n) = BitsOf(flips, "ecc", n)
<1>1. FlipsIn(TagParts, 0) \in SUBSET (TagPlaces \cup TagEccPlaces)
  BY PlaceIs DEF FlipsIn
<1>2. \A x \in TagParts : {q \in FlipsIn(TagParts, 0) : q[1] = x /\ q[2] = 0}
                            = {q \in flips : q[1] = x /\ q[2] = 0}
  BY DEF FlipsIn
<1>3. \A x \in TagParts :
        /\ CellsOf(FlipsIn(TagParts, 0), x, 0) = CellsOf(flips, x, 0)
        /\ BitsOf(FlipsIn(TagParts, 0), x, 0) = BitsOf(flips, x, 0)
  BY <1>2 DEF CellsOf, BitsOf
<1>4. ASSUME NEW n \in Blocks
      PROVE  /\ FlipsIn(DataParts, n)
                  \in SUBSET (DataPlaces(n) \cup EccPlaces(n))
             /\ CellsOf(FlipsIn(DataParts, n), "data", n)
                  = CellsOf(flips, "data", n)
             /\ BitsOf(FlipsIn(DataParts, n), "ecc", n) = BitsOf(flips, "ecc", n)
  <2>1. FlipsIn(DataParts, n) \in SUBSET (DataPlaces(n) \cup EccPlaces(n))
    <3>1. \A p \in FlipsIn(DataParts, n) :
            p \in Places /\ p[1] \in DataParts /\ p[2] = n
      BY DEF FlipsIn
    <3> QED BY <3>1, PlaceIs
  <2>2. \A x \in DataParts : {q \in FlipsIn(DataParts, n) : q[1] = x /\ q[2] = n}
                               = {q \in flips : q[1] = x /\ q[2] = n}
    BY DEF FlipsIn
  <2>3. \A x \in DataParts :
          /\ CellsOf(FlipsIn(DataParts, n), x, n) = CellsOf(flips, x, n)
          /\ BitsOf(FlipsIn(DataParts, n), x, n) = BitsOf(flips, x, n)
    BY <2>2 DEF CellsOf, BitsOf
  <2> QED BY <2>1, <2>3 DEF DataParts
<1> QED BY <1>1, <1>3, <1>4 DEF TagParts

TagsFix ==
  EccCorrectOther(TagBytes, 16,
                  [col |-> Part("col"), line |-> Part("line"),
                   prime |-> Part("prime")], EccCalcOther(TagBytes))

DataFix(n) == EccCorrect(DataBlock(n), EccBlock(n), EccCalc(DataBlock(n)))

(* The correction of the tags sees the bits that have changed alone.       *)
LEMMA TagsRead ==
  ASSUME NEW w \in Writings, flips \in SUBSET Places,
         page = Xor(Encoded(w), flips)
  PROVE  /\ TagBytes = Xor(TagCells(w), CellsOf(flips, "tags", 0))
         /\ TagsFix = TagsResult(TagCells(w), FlipsIn(TagParts, 0))
<1>1. page \subseteq Places /\ Encoded(w) \in SUBSET Places
  <2>1. Encoded(w) \in SUBSET Places
    BY EncodedHas
  <2> QED BY <2>1 DEF Xor
<1>2. PICK D, c, l, m : /\ D = CellsOf(flips, "tags", 0)
                        /\ c = BitsOf(flips, "col", 0)
                        /\ l = BitsOf(flips, "line", 0)
                        /\ m = BitsOf(flips, "prime", 0)
  OBVIOUS
<1>3. PICK d, e : d = TagCells(w) /\ e = EccCalcOther(d)
  OBVIOUS
<1>4. d \in SUBSET Cells /\ D \in SUBSET Cells
  <2>1. (0 .. 15) \X (0 .. 7) \subseteq Cells
    BY DEF Cells
  <2>2. d \in SUBSET Cells
    BY <1>3, <2>1, WritingIs
  <2>3. \A p \in flips : p[1] = "tags" => <<p[3], p[4]>> \in Cells
    BY <2>1, PlaceIs DEF Cells
  <2>4. D \in SUBSET Cells
    BY <1>2, <2>3 DEF CellsOf
  <2> QED BY <2>2, <2>4
<1>5. /\ TagBytes = Xor(d, D) /\ Part("col") = Xor(e.col, c)
      /\ Part("line") = Xor(e.line, l) /\ Part("prime") = Xor(e.prime, m)
  <2>1. /\ CellsOf(page, "tags", 0) = Xor(CellsOf(Encoded(w), "tags", 0), D)
        /\ BitsOf(page, "col", 0) = Xor(BitsOf(Encoded(w), "col", 0), c)
        /\ BitsOf(page, "line", 0) = Xor(BitsOf(Encoded(w), "line", 0), l)
        /\ BitsOf(page, "prime", 0) = Xor(BitsOf(Encoded(w), "prime", 0), m)
    BY <1>1, <1>2, ReadXor
  <2>2. /\ CellsOf(Encoded(w), "tags", 0) = d
        /\ BitsOf(Encoded(w), "col", 0) = e.col
        /\ BitsOf(Encoded(w), "line", 0) = e.line
        /\ BitsOf(Encoded(w), "prime", 0) = e.prime
    BY <1>3, ReadEncoded
  <2> QED BY <1>1, <2>1, <2>2, PageReads
<1>6. /\ Xor(Xor(e.col, c), EccCalcOther(Xor(d, D)).col)
           = Xor(c, ColParity(D))
      /\ Xor(Xor(e.line, l), EccCalcOther(Xor(d, D)).line)
           = Xor(l, LineParity(OddBytes(D), Word))
      /\ Xor(Xor(e.prime, m), EccCalcOther(Xor(d, D)).prime)
           = Xor(m, LineParityPrime(OddBytes(D), Word))
  BY <1>3, <1>4, OtherDelta
<1>7. TagsFix = OtherResult(Xor(d, D), 16, Xor(c, ColParity(D)),
                            Xor(l, LineParity(OddBytes(D), Word)),
                            Xor(m, LineParityPrime(OddBytes(D), Word)))
  <2>1. PICK read, test : /\ test = EccCalcOther(Xor(d, D))
                          /\ read = [col |-> Xor(e.col, c),
                                     line |-> Xor(e.line, l),
                                     prime |-> Xor(e.prime, m)]
    OBVIOUS
  <2>2. TagsFix = EccCorrectOther(Xor(d, D), 16, read, test)
    BY <1>5, <2>1 DEF TagsFix
  <2>3. /\ read.col = Xor(e.col, c) /\ read.line = Xor(e.line, l)
        /\ read.prime = Xor(e.prime, m)
    BY <2>1
  <2> QED BY <1>6, <2>1, <2>2, <2>3, OtherResultIs
<1>8. TagsResult(d, FlipsIn(TagParts, 0))
        = OtherResult(Xor(d, D), 16, Xor(c, ColParity(D)),
                      Xor(l, LineParity(OddBytes(D), Word)),
                      Xor(m, LineParityPrime(OddBytes(D), Word)))
  <2>1. PICK F : F = FlipsIn(TagParts, 0)
    OBVIOUS
  <2>2. /\ CellsOf(F, "tags", 0) = D /\ BitsOf(F, "col", 0) = c
        /\ BitsOf(F, "line", 0) = l /\ BitsOf(F, "prime", 0) = m
    BY <1>2, <2>1, FlipsOf
  <2> QED BY <2>1, <2>2 DEF TagsResult
<1> QED BY <1>2, <1>3, <1>5, <1>7, <1>8

(* And so does that of a block of data.                                    *)
LEMMA DataRead ==
  ASSUME NEW w \in Writings, flips \in SUBSET Places,
         page = Xor(Encoded(w), flips), NEW n \in Blocks
  PROVE  DataFix(n) = DataResult(w.data[n], FlipsIn(DataParts, n), n)
<1>1. page \subseteq Places /\ Encoded(w) \in SUBSET Places
  <2>1. Encoded(w) \in SUBSET Places
    BY EncodedHas
  <2> QED BY <2>1 DEF Xor
<1>2. PICK D, E, d : /\ D = CellsOf(flips, "data", n)
                     /\ E = BitsOf(flips, "ecc", n) /\ d = w.data[n]
  OBVIOUS
<1>3. d \in SUBSET Cells /\ D \in SUBSET Cells /\ E \in SUBSET (0 .. 23)
  <2>1. DataBytes \X (0 .. 7) \subseteq Cells
    BY DataAssumption DEF Cells
  <2>2. d \in SUBSET Cells
    BY <1>2, <2>1, WritingIs
  <2>3. \A p \in flips : /\ p[1] = "data" => <<p[3], p[4]>> \in Cells
                         /\ p[1] = "ecc" => p[4] \in 0 .. 23
    BY <2>1, PlaceIs
  <2>4. D \in SUBSET Cells /\ E \in SUBSET (0 .. 23)
    BY <1>2, <2>3 DEF CellsOf, BitsOf
  <2> QED BY <2>2, <2>4
<1>4. DataBlock(n) = Xor(d, D) /\ EccBlock(n) = Xor(EccCalc(d), E)
  <2>1. /\ CellsOf(page, "data", n) = Xor(CellsOf(Encoded(w), "data", n), D)
        /\ BitsOf(page, "ecc", n) = Xor(BitsOf(Encoded(w), "ecc", n), E)
    BY <1>1, <1>2, ReadXor
  <2>2. /\ CellsOf(Encoded(w), "data", n) = d
        /\ BitsOf(Encoded(w), "ecc", n) = EccCalc(d)
    BY <1>2, ReadEncoded
  <2> QED BY <1>1, <2>1, <2>2, PageReads
<1>5. DataFix(n) = EccResult(Xor(d, D), Xor(E, Raw(D)))
  <2>1. DataFix(n) = EccCorrect(Xor(d, D), Xor(EccCalc(d), E),
                                EccCalc(Xor(d, D)))
    BY <1>4 DEF DataFix
  <2>2. Xor(Xor(EccCalc(d), E), EccCalc(Xor(d, D))) = Xor(E, Raw(D))
    BY <1>3, EccDelta
  <2> QED BY <2>1, <2>2, EccResultIs
<1>6. DataResult(d, FlipsIn(DataParts, n), n)
        = EccResult(Xor(d, D), Xor(E, Raw(D)))
  <2>1. PICK F : F = FlipsIn(DataParts, n)
    OBVIOUS
  <2>2. CellsOf(F, "data", n) = D /\ BitsOf(F, "ecc", n) = E
    BY <1>2, <2>1, FlipsOf
  <2> QED BY <2>1, <2>2 DEF DataResult
<1> QED BY <1>2, <1>5, <1>6

(* No more places have changed than two, of any part.                      *)
FlipsKept ==
  /\ flips \subseteq Weak
  /\ IsFiniteSet(flips)
  /\ Cardinality(flips) <= MaxFlips

LEMMA FlipsFew ==
  ASSUME FlipsKept
  PROVE  /\ flips \in SUBSET Places
         /\ \A S \in SUBSET flips : /\ IsFiniteSet(S)
                                    /\ Cardinality(S) \in Nat
                                    /\ Cardinality(S) <= 2
<1>1. flips \in SUBSET Places /\ MaxFlips \in 0 .. 2
  BY FlipsAssumption DEF FlipsKept
<1>2. Cardinality(flips) \in Nat /\ Cardinality(flips) <= 2
  BY <1>1, FS_CardinalityType DEF FlipsKept
<1>3. \A S \in SUBSET flips : /\ IsFiniteSet(S) /\ Cardinality(S) \in Nat
                              /\ Cardinality(S) <= Cardinality(flips)
  BY FS_Subset, FS_CardinalityType DEF FlipsKept
<1> QED BY <1>1, <1>2, <1>3

(* Three zero bits are more than two changes can make one.                 *)
LEMMA ThreeZeroes ==
  ASSUME NEW s \in SUBSET Word, Cardinality(s) <= 29
  PROVE  \E a, b, c \in Word \ s : a # b /\ a # c /\ b # c
<1> DEFINE z == Word \ s
<1>1. IsFiniteSet(Word) /\ Cardinality(Word) = 32
  <2>1. 0 \in Int /\ 31 \in Int /\ ~(0 > 31) /\ 31 - 0 + 1 = 32
    OBVIOUS
  <2>2. /\ IsFiniteSet(0 .. 31)
        /\ Cardinality(0 .. 31) = IF 0 > 31 THEN 0 ELSE 31 - 0 + 1
    BY <2>1, FS_Interval
  <2> QED BY <2>1, <2>2 DEF Word
<1>2. IsFiniteSet(z) /\ IsFiniteSet(s) /\ Cardinality(s) \in Nat
  BY <1>1, FS_Subset, FS_CardinalityType
<1>3. Cardinality(z) \in Nat /\ Cardinality(z) >= 3
  <2>1. z \cup s = Word /\ z \cap s = {}
    OBVIOUS
  <2>2. Cardinality(z \cup s)
          = Cardinality(z) + Cardinality(s) - Cardinality(z \cap s)
    BY <1>2, FS_Union
  <2>3. Cardinality(z \cap s) = 0 /\ Cardinality(z) \in Nat
    BY <1>2, <2>1, FS_EmptySet, FS_CardinalityType
  <2>4. 32 = Cardinality(z) + Cardinality(s) - 0
    BY <1>1, <2>1, <2>2, <2>3
  <2>5. PICK k \in Nat, m \in Nat : k = Cardinality(z) /\ m = Cardinality(s)
    BY <1>2, <2>3
  <2>6. 32 = k + m - 0 /\ m <= 29
    BY <2>4, <2>5
  <2>7. k >= 3
    BY <2>6
  <2> QED BY <2>5, <2>7
<1> HIDE DEF z
<1>4. ASSUME NEW x, NEW y, z \subseteq {x, y}
      PROVE  FALSE
  <2>1. IsFiniteSet({x}) /\ Cardinality({x}) = 1
    BY FS_Singleton
  <2>2. Cardinality({x} \cup {y}) <= 2 /\ IsFiniteSet({x} \cup {y})
    BY <2>1, FS_AddElement
  <2>3. {x} \cup {y} = {x, y}
    OBVIOUS
  <2>4. Cardinality(z) <= Cardinality({x, y}) /\ Cardinality({x, y}) \in Nat
    BY <1>4, <2>2, <2>3, FS_Subset, FS_CardinalityType
  <2> QED BY <1>3, <2>2, <2>3, <2>4
<1>5. PICK a \in z : TRUE
  BY <1>4
<1>6. PICK b \in z : b # a
  BY <1>4
<1>7. PICK c \in z : c # a /\ c # b
  BY <1>4
<1> QED BY <1>5, <1>6, <1>7 DEF z

LEMMA SeqSurvives ==
  ASSUME NEW w \in Writings, FlipsKept, page = Xor(Encoded(w), flips)
  PROVE  Words(TagBytes).seq # Word
<1>1. w.tags \in Tags /\ w.tags \in TagRecords /\ Cardinality(w.tags.seq) <= 29
  BY WritingIs, TagsAssumption
<1>2. PICK s : s = w.tags.seq /\ s \in SUBSET Word
  BY <1>1 DEF TagRecords
<1>3. PICK P : P = PackTagsOnly(w.tags) /\ P \in Packed /\ P.seq = s
  <2>1. PackTagsOnly(w.tags).seq = w.tags.seq
    BY DEF PackTagsOnly
  <2> QED BY <1>1, <1>2, <2>1, PackedType
<1>4. flips \in SUBSET Places
  BY FlipsFew
<1> DEFINE Cell(b) == <<4 * 0 + 3 - b \div 8, b % 8>>
           Spot(b) == <<"tags", 0, 4 * 0 + 3 - b \div 8, b % 8>>
<1>5. \A d : Words(d).seq = {b \in Word : Cell(b) \in d}
  BY DEF Words
<1>6. \A b \in Word : Cell(b) \in TagCells(w) <=> b \in s
  <2>1. Words(Bytes(P)).seq = s
    BY <1>3, WordsOfBytes
  <2> QED BY <1>3, <1>5, <2>1 DEF TagCells
<1>7. \A a, b \in Word : Spot(a) = Spot(b) => a = b
  <2> TAKE a, b \in Word
  <2>1. /\ a \div 8 \in 0 .. 3 /\ a = 8 * (a \div 8) + (a % 8)
        /\ b \div 8 \in 0 .. 3 /\ b = 8 * (b \div 8) + (b % 8)
    BY DEF Word
  <2>2. \A x, y \in 0 .. 3 : 4 * 0 + 3 - x = 4 * 0 + 3 - y => x = y
    OBVIOUS
  <2>3. Spot(a) = Spot(b)
          => 4 * 0 + 3 - a \div 8 = 4 * 0 + 3 - b \div 8 /\ a % 8 = b % 8
    OBVIOUS
  <2>4. Spot(a) = Spot(b) => a \div 8 = b \div 8 /\ a % 8 = b % 8
    <3> HIDE DEF Spot
    <3> QED BY <2>1, <2>2, <2>3
  <2> HIDE DEF Spot
  <2> QED BY <2>1, <2>4
<1>8. \A b : Cell(b) \in CellsOf(flips, "tags", 0) <=> Spot(b) \in flips
  <2> TAKE b
  <2>1. PICK i, e : i = 4 * 0 + 3 - b \div 8 /\ e = b % 8
    OBVIOUS
  <2>2. <<i, e>> \in CellsOf(flips, "tags", 0) <=> <<"tags", 0, i, e>> \in flips
    BY <1>4, ReadHas
  <2> QED BY <2>1, <2>2
<1> HIDE DEF Cell, Spot
<1>9. TagBytes = Xor(TagCells(w), CellsOf(flips, "tags", 0))
  BY <1>4, TagsRead
<1>10. SUFFICES ASSUME Words(TagBytes).seq = Word
                PROVE  FALSE
  OBVIOUS
<1>11. \A b \in Word \ s : Spot(b) \in flips
  <2>1. \A b \in Word : Cell(b) \in TagBytes
    BY <1>5, <1>10
  <2>2. \A b \in Word \ s : Cell(b) \in CellsOf(flips, "tags", 0)
    BY <1>6, <1>9, <2>1 DEF Xor
  <2> QED BY <1>8, <2>2
<1>12. PICK a, b, c \in Word \ s : a # b /\ a # c /\ b # c
  BY <1>1, <1>2, ThreeZeroes
<1>13. /\ Spot(a) \in flips /\ Spot(b) \in flips /\ Spot(c) \in flips
       /\ Spot(a) # Spot(b) /\ Spot(a) # Spot(c) /\ Spot(b) # Spot(c)
  BY <1>7, <1>11, <1>12
<1>14. \/ flips = {} \/ (\E x \in flips : flips = {x})
       \/ (\E x, y \in flips : x # y /\ flips = {x, y})
  BY FlipsFew, SmallSet
<1> QED BY <1>13, <1>14

(* The tags of a written chunk: right unless given up, and never given up  *)
(* for one bit.                                                            *)
LEMMA TagsAnswer ==
  ASSUME NEW w \in Writings, FlipsKept, page = Xor(Encoded(w), flips)
  PROVE  /\ UnpackTags2.status # "unfixed"
              => UnpackTags2.tags = Stored(w.tags) /\ Stored(w.tags).used = TRUE
         /\ Cardinality(FlipsIn(TagParts, 0)) <= 1
              => UnpackTags2.status # "unfixed"
<1>1. UnpackTags2 = [tags |-> UnpackTagsOnly(Words(TagsFix.data)),
                     status |-> TagsFix.status]
  BY SeqSurvives DEF UnpackTags2, TagsFix
<1>2. PICK d, F : d = TagCells(w) /\ F = FlipsIn(TagParts, 0)
  OBVIOUS
<1>3. flips \in SUBSET Places /\ F \in SUBSET flips
  BY <1>2, FlipsFew DEF FlipsIn
<1>4. /\ F \in SUBSET (TagPlaces \cup TagEccPlaces)
      /\ IsFiniteSet(F) /\ Cardinality(F) <= 2
  BY <1>2, <1>3, FlipsOf, FlipsFew
<1>5. TagsFix = TagsResult(d, F)
  BY <1>2, <1>3, TagsRead
<1>6. /\ TagsFix.status # "unfixed" => TagsFix.data = d
      /\ Cardinality(F) <= 1 => TagsFix.status # "unfixed"
  BY <1>4, <1>5, TagsCode
<1>7. /\ UnpackTagsOnly(Words(d)) = Stored(w.tags)
      /\ Stored(w.tags).used = TRUE
  <2>1. w.tags \in Tags /\ d = Bytes(PackTagsOnly(w.tags))
    BY <1>2, WritingIs DEF TagCells
  <2>2. Words(d) = PackTagsOnly(w.tags)
    BY <2>1, PackedType, WordsOfBytes
  <2> QED BY <2>1, <2>2, UnpackPacked
<1> QED BY <1>1, <1>2, <1>6, <1>7

LEMMA DataAnswer ==
  ASSUME NEW w \in Writings, FlipsKept, page = Xor(Encoded(w), flips),
         NEW n \in Blocks
  PROVE  /\ DataFix(n).status # "unfixed" => DataFix(n).data = w.data[n]
         /\ Cardinality(FlipsIn(DataParts, n)) <= 1
              => DataFix(n).status # "unfixed"
<1>1. PICK F : F = FlipsIn(DataParts, n)
  OBVIOUS
<1>2. flips \in SUBSET Places /\ F \in SUBSET flips
  BY <1>1, FlipsFew DEF FlipsIn
<1>3. /\ F \in SUBSET (DataPlaces(n) \cup EccPlaces(n))
      /\ IsFiniteSet(F) /\ Cardinality(F) <= 2
  BY <1>1, <1>2, FlipsOf, FlipsFew
<1>4. DataFix(n) = DataResult(w.data[n], F, n)
  BY <1>1, <1>2, DataRead
<1> QED BY <1>1, <1>3, <1>4, DataCode

-----------------------------------------------------------------------------
(* An erased chunk.  The codes of no tags name lines of four bits, and the *)
(* code of an erased chunk all of them: two changed bits hide no more than *)
(* two of the difference.                                                  *)

LEMMA ErasedAnswer ==
  ASSUME FlipsKept, page = Xor(Places, flips)
  PROVE  UnpackTags2.status # "unfixed" => UnpackTags2.tags = Zeroed
<1>1. CASE Words(TagBytes).seq = Word
  BY <1>1 DEF UnpackTags2
<1>2. CASE Words(TagBytes).seq # Word
  <2>1. UnpackTags2.status = TagsFix.status
    BY <1>2 DEF UnpackTags2, TagsFix
  <2>2. flips \in SUBSET Places /\ page \subseteq Places
    BY FlipsFew DEF Xor
  <2>3. PICK d, col, line, prime :
          /\ d = TagBytes
          /\ col = Xor(Part("col"), EccCalcOther(TagBytes).col)
          /\ line = Xor(Part("line"), EccCalcOther(TagBytes).line)
          /\ prime = Xor(Part("prime"), EccCalcOther(TagBytes).prime)
    OBVIOUS
  <2>4. TagsFix = OtherResult(d, 16, col, line, prime)
    <3>1. PICK read : read = [col |-> Part("col"), line |-> Part("line"),
                              prime |-> Part("prime")]
      OBVIOUS
    <3>2. /\ read.col = Part("col") /\ read.line = Part("line")
          /\ read.prime = Part("prime")
      BY <3>1
    <3>3. TagsFix = EccCorrectOther(d, 16, read, EccCalcOther(TagBytes))
      BY <2>3, <3>1 DEF TagsFix
    <3> QED BY <2>3, <3>2, <3>3, OtherResultIs
  <2>5. EccCalcOther(TagBytes).line \subseteq 0 .. 3
    <3>1. OddBytes(TagBytes) \subseteq 0 .. 15
      <4>1. \A x \in TagBytes : x[1] \in 0 .. 15
        BY DEF TagBytes, TagPlaces
      <4> QED BY <4>1 DEF OddBytes
    <3>2. PICK odd : odd = OddBytes(TagBytes) /\ odd \in SUBSET (0 .. 15)
      BY <3>1
    <3>3. EccCalcOther(TagBytes).line = LineParity(odd, Word)
      BY <3>2 DEF EccCalcOther
    <3>4. \A k : k \in LineParity(odd, Word) => k \in 0 .. 3
      <4> SUFFICES ASSUME NEW k \in LineParity(odd, Word)
                   PROVE  k \in 0 .. 3
        OBVIOUS
      <4>1. Odd(InLine(odd, k))
        BY ParityHas
      <4>2. InLine(odd, k) # {}
        BY <4>1, OddSmall
      <4>3. PICK i \in odd : k \in Bits(i)
        BY <4>2 DEF InLine
      <4> QED BY <3>2, <4>3, BitsOfByte
    <3> QED BY <3>3, <3>4
  <2>6. \A b \in Word \ (0 .. 3) : b \notin line => <<"line", 0, 0, b>> \in flips
    <3> SUFFICES ASSUME NEW b \in Word, b \notin 0 .. 3, b \notin line
                 PROVE  <<"line", 0, 0, b>> \in flips
      OBVIOUS
    <3>1. b \notin Part("line")
      BY <2>3, <2>5 DEF Xor
    <3>2. <<"line", 0, 0, b>> \notin page
      BY <2>2, <3>1, PageReads, ReadHas
    <3> QED BY <3>2, HasPlaces DEF Xor
  <2>7. \E x, y \in line : x # y /\ x \in 4 .. 7
    <3>1. \/ flips = {} \/ (\E x \in flips : flips = {x})
          \/ (\E x, y \in flips : x # y /\ flips = {x, y})
      BY FlipsFew, SmallSet
    <3>2. PICK p, q : flips \subseteq {p, q}
      BY <3>1
    <3>3. \A b : <<"line", 0, 0, b>> \in flips => b = p[4] \/ b = q[4]
      BY <3>2
    <3>4. \A b \in 4 .. 7 : b \in Word /\ b \notin 0 .. 3
      BY DEF Word
    <3>5. \A b \in 4 .. 7 : b \in line \/ b = p[4] \/ b = q[4]
      BY <2>6, <3>3, <3>4
    <3>6. /\ 4 \in line \/ 4 = p[4] \/ 4 = q[4]
          /\ 5 \in line \/ 5 = p[4] \/ 5 = q[4]
          /\ 6 \in line \/ 6 = p[4] \/ 6 = q[4]
          /\ 7 \in line \/ 7 = p[4] \/ 7 = q[4]
      BY <3>5
    <3> QED BY <3>6
  <2>8. PICK x, y \in line : x # y /\ x \in 4 .. 7
    BY <2>7
  <2>9. IsFiniteSet(line) /\ IsFiniteSet(prime) /\ IsFiniteSet(col)
    <3>1. /\ Part("col") \subseteq Word /\ Part("line") \subseteq Word
          /\ Part("prime") \subseteq Word
      <4>1. \A p \in page : p[1] \in {"col", "line", "prime"} => p[4] \in Word
        BY <2>2, PlaceIs DEF Word
      <4> QED BY <4>1 DEF Part
    <3>2. \A v : /\ EccCalcOther(v).col \subseteq Word
                 /\ EccCalcOther(v).line \subseteq Word
                 /\ EccCalcOther(v).prime \subseteq Word
      <4>1. \A v : /\ EccCalcOther(v).col = ColParity(v)
                   /\ EccCalcOther(v).line \subseteq Word
                   /\ EccCalcOther(v).prime \subseteq Word
        BY DEF EccCalcOther, LineParity, LineParityPrime
      <4>2. 0 .. 5 \subseteq Word
        BY DEF Word
      <4> QED BY <4>1, <4>2, ParityHas
    <3>3. col \subseteq Word /\ line \subseteq Word /\ prime \subseteq Word
      BY <2>3, <3>1, <3>2 DEF Xor
    <3>4. IsFiniteSet(Word)
      <4>1. 0 \in Int /\ 31 \in Int
        OBVIOUS
      <4> QED BY <4>1, FS_Interval DEF Word
    <3> QED BY <3>3, <3>4, FS_Subset
  <2>10. Cardinality(line) + Cardinality(prime) + Cardinality(col) # 1
    <3>1. /\ Cardinality(line) \in Nat /\ Cardinality(line) >= 2
          /\ Cardinality(prime) \in Nat /\ Cardinality(col) \in Nat
      BY <2>8, <2>9, AtLeastTwo, FS_CardinalityType
    <3> QED BY <3>1
  <2>11. \A i \in 0 .. 16 - 1 : Bits(i) # line
    <3>1. \A i \in 0 .. 16 - 1 : i \in 0 .. 15
      OBVIOUS
    <3>2. x \notin 0 .. 3
      BY <2>8
    <3>3. \A i \in 0 .. 15 : x \notin Bits(i)
      BY <3>2, BitsOfByte
    <3> QED BY <2>8, <3>1, <3>3
  <2>12. col \cup line \cup prime # {}
    BY <2>8
  <2>13. OtherResult(d, 16, col, line, prime).status = "unfixed"
    BY <2>10, <2>11, <2>12 DEF OtherResult
  <2> QED BY <2>1, <2>4, <2>13
<1> QED BY <1>1, <1>2

-----------------------------------------------------------------------------
(* What the page holds at any time: what was written, but for the bits     *)
(* that have changed since.                                                *)
PageInv ==
  /\ wrote = Nothing \/ wrote \in Writings
  /\ FlipsKept
  /\ page = Xor(IF wrote = Nothing THEN Places ELSE Encoded(wrote), flips)

LEMMA XorEmpty ==
  ASSUME NEW S
  PROVE  Xor(S, {}) = S
BY DEF Xor

(* A write finds the page erased and unchanged.                            *)
LEMMA WriteUnchanged ==
  ASSUME PageInv, NEW t \in Tags, NEW d \in Datas, WriteChunk(t, d)
  PROVE  flips = {}
<1>1. wrote = Nothing /\ page = Places /\ page = Xor(Places, flips)
  BY DEF WriteChunk, PageInv
<1>2. flips \subseteq Places
  BY FlipsFew DEF PageInv
<1> QED BY <1>1, <1>2 DEF Xor

LEMMA PageInit == Init => PageInv
<1> SUFFICES ASSUME Init
             PROVE  PageInv
  OBVIOUS
<1>1. page = Places /\ wrote = Nothing /\ flips = {}
  BY DEF Init
<1>2. IsFiniteSet(flips) /\ Cardinality(flips) = 0
  BY <1>1, FS_EmptySet
<1>3. FlipsKept
  BY <1>1, <1>2, FlipsAssumption DEF FlipsKept
<1> QED BY <1>1, <1>3, XorEmpty DEF PageInv

LEMMA PageStep == PageInv /\ [Next]_vars => PageInv'
<1> SUFFICES ASSUME PageInv, [Next]_vars
             PROVE  PageInv'
  OBVIOUS
<1>1. ASSUME NEW t \in Tags, NEW d \in Datas, WriteChunk(t, d)
      PROVE  PageInv'
  <2>1. wrote' \in Writings /\ page' = Encoded(wrote')
    BY <1>1, WriteEncodes
  <2>2. flips' = flips /\ flips = {}
    BY <1>1, WriteUnchanged DEF WriteChunk
  <2>3. FlipsKept'
    BY <2>2 DEF PageInv, FlipsKept
  <2>4. wrote' # Nothing
    BY <2>1, DataAssumption
  <2>5. page' = Xor(Encoded(wrote'), flips')
    BY <2>1, <2>2, XorEmpty
  <2> QED BY <2>1, <2>3, <2>4, <2>5 DEF PageInv
<1>2. CASE ReadChunk
  BY <1>2 DEF ReadChunk, PageInv, FlipsKept
<1>3. ASSUME NEW p \in Weak, Flip(p)
      PROVE  PageInv'
  <2>1. /\ Cardinality(flips) < MaxFlips /\ p \notin flips /\ wrote' = wrote
        /\ page' = Xor(page, {p}) /\ flips' = flips \cup {p}
    BY <1>3 DEF Flip
  <2>2. FlipsKept'
    <3>1. IsFiniteSet(flips) /\ Cardinality(flips) \in Nat /\ MaxFlips \in Nat
      BY FS_CardinalityType, FlipsAssumption DEF PageInv, FlipsKept
    <3>2. /\ IsFiniteSet(flips \cup {p})
          /\ Cardinality(flips \cup {p}) = Cardinality(flips) + 1
      BY <2>1, <3>1, FS_AddElement
    <3>3. Cardinality(flips \cup {p}) <= MaxFlips
      BY <2>1, <3>1, <3>2
    <3> QED BY <2>1, <3>2, <3>3 DEF PageInv, FlipsKept
  <2>3. \A S : Xor(Xor(S, flips), {p}) = Xor(S, flips \cup {p})
    BY <2>1 DEF Xor
  <2>4. page' = Xor(IF wrote' = Nothing THEN Places ELSE Encoded(wrote'), flips')
    BY <2>1, <2>3 DEF PageInv
  <2> QED BY <2>1, <2>2, <2>4 DEF PageInv
<1>4. CASE Erase
  <2>1. page' = Places /\ wrote' = Nothing /\ flips' = {}
    BY <1>4 DEF Erase
  <2>2. IsFiniteSet(flips') /\ Cardinality(flips') = 0
    BY <2>1, FS_EmptySet
  <2>3. FlipsKept'
    BY <2>1, <2>2, FlipsAssumption DEF FlipsKept
  <2> QED BY <2>1, <2>3, XorEmpty DEF PageInv
<1>5. CASE UNCHANGED vars
  BY <1>5 DEF vars, PageInv, FlipsKept
<1> QED BY <1>1, <1>2, <1>3, <1>4, <1>5 DEF Next

(* The inductive invariant, which the theorems below rest on: a chunk holds *)
(* the packed tags and the data it was written with, and their codes, but  *)
(* for the two bits at most that have changed since it was erased.  The    *)
(* driver's write (yaffs_nand_tag_WriteChunk) computes both codes over     *)
(* what it writes.                                                         *)
LEMMA PageHolds == Spec => []PageInv
<1>1. Init => PageInv
  BY PageInit
<1>2. PageInv /\ [Next]_vars => PageInv'
  BY PageStep
<1> QED BY <1>1, <1>2, PTL DEF Spec

-----------------------------------------------------------------------------
(* What the driver returns.                                                *)

LEMMA PageIs ==
  ASSUME PageInv
  PROVE  /\ wrote # Nothing
              => wrote \in Writings /\ page = Xor(Encoded(wrote), flips)
         /\ wrote = Nothing => page = Xor(Places, flips)
BY DEF PageInv

(* The result of a read puts the two together.                             *)
LEMMA ReadGives ==
  ASSUME ReadChunk
  PROVE  /\ got'.tags = UnpackTags2.tags
         /\ got'.data = [n \in Blocks |-> DataFix(n).data]
         /\ got'.ecc_result # "unfixed" =>
              /\ UnpackTags2.status # "unfixed"
              /\ UnpackTags2.tags.used
                   => \A n \in Blocks : DataFix(n).status # "unfixed"
         /\ /\ UnpackTags2.status # "unfixed"
            /\ \A n \in Blocks : DataFix(n).status # "unfixed"
            => got'.ecc_result # "unfixed"
<1> DEFINE fix == [n \in Blocks |-> DataFix(n)]
           u == UnpackTags2
<1>1. NBlocks \in Blocks
  BY DataAssumption DEF Blocks
<1>2. EccStatus(fix) # "unfixed"
        <=> \A n \in Blocks : DataFix(n).status # "unfixed"
  BY <1>1 DEF EccStatus
<1>3. got' = [tags |-> u.tags, data |-> [n \in Blocks |-> fix[n].data],
              ecc_result |-> IF ~u.tags.used THEN u.status
                             ELSE IF "unfixed" \in {EccStatus(fix), u.status}
                             THEN "unfixed"
                             ELSE IF "fixed" \in {EccStatus(fix), u.status}
                             THEN "fixed" ELSE "ok"]
  BY DEF ReadChunk, DataFix
<1>4. \A n \in Blocks : fix[n] = DataFix(n)
  OBVIOUS
<1> HIDE DEF fix, u
<1>5. /\ got'.tags = u.tags /\ got'.data = [n \in Blocks |-> fix[n].data]
      /\ got'.ecc_result # "unfixed"
           => /\ u.status # "unfixed"
              /\ u.tags.used => EccStatus(fix) # "unfixed"
      /\ u.status # "unfixed" /\ EccStatus(fix) # "unfixed"
           => got'.ecc_result # "unfixed"
  BY <1>3
<1>6. [n \in Blocks |-> fix[n].data] = [n \in Blocks |-> DataFix(n).data]
  BY <1>4
<1> QED BY <1>2, <1>5, <1>6 DEF u

LEMMA TrustedInit == Init => TagsTrusted /\ DataTrusted
BY DEF Init, TagsTrusted, DataTrusted

(* A step other than a read forgets what was read.                         *)
LEMMA Forgotten ==
  ASSUME [Next]_vars, ~ReadChunk
  PROVE  got' = Nothing \/ UNCHANGED vars
BY DEF Next, WriteChunk, Flip, Erase

LEMMA TagsTrustedStep == PageInv /\ TagsTrusted /\ [Next]_vars => TagsTrusted'
<1> SUFFICES ASSUME PageInv, TagsTrusted, [Next]_vars
             PROVE  TagsTrusted'
  OBVIOUS
<1>1. CASE ReadChunk
  <2>1. UNCHANGED <<page, wrote, flips>>
    BY <1>1 DEF ReadChunk
  <2>2. FlipsKept
    BY DEF PageInv
  <2>3. \A parts, n : FlipsIn(parts, n)' = FlipsIn(parts, n)
    BY <2>1 DEF FlipsIn
  <2>4. Expected' = Expected
    BY <2>1 DEF Expected
  <2>5. CASE wrote = Nothing
    <3>1. UnpackTags2.status # "unfixed" => UnpackTags2.tags = Expected
      BY <2>2, <2>5, PageIs, ErasedAnswer DEF Expected
    <3>2. got'.ecc_result # "unfixed" => got'.tags = Expected
      BY <1>1, <3>1, ReadGives
    <3> QED BY <2>1, <2>4, <2>5, <3>2 DEF TagsTrusted
  <2>6. CASE wrote # Nothing
    <3>1. wrote \in Writings /\ page = Xor(Encoded(wrote), flips)
      BY <2>6, PageIs
    <3>2. /\ UnpackTags2.status # "unfixed" => UnpackTags2.tags = Expected
          /\ Cardinality(FlipsIn(TagParts, 0)) <= 1
               => UnpackTags2.status # "unfixed"
      BY <2>2, <2>6, <3>1, TagsAnswer DEF Expected
    <3>3. \A n \in Blocks : Cardinality(FlipsIn(DataParts, n)) <= 1
                              => DataFix(n).status # "unfixed"
      BY <2>2, <3>1, DataAnswer
    <3>4. got'.ecc_result # "unfixed" => got'.tags = Expected
      BY <1>1, <3>2, ReadGives
    <3>5. /\ Cardinality(FlipsIn(TagParts, 0)) <= 1
          /\ \A n \in Blocks : Cardinality(FlipsIn(DataParts, n)) <= 1
          => got'.ecc_result # "unfixed"
      BY <1>1, <3>2, <3>3, ReadGives
    <3>6. /\ Cardinality(FlipsIn(TagParts, 0)') <= 1
          /\ \A n \in Blocks : Cardinality(FlipsIn(DataParts, n)') <= 1
          => got'.ecc_result # "unfixed"
      BY <2>3, <3>5
    <3> QED BY <2>4, <3>4, <3>6 DEF TagsTrusted, TagParts, DataParts
  <2> QED BY <2>5, <2>6
<1>2. CASE ~ReadChunk
  <2>1. CASE got' = Nothing
    BY <2>1 DEF TagsTrusted
  <2>2. CASE UNCHANGED vars
    BY <2>2 DEF vars, TagsTrusted, Expected, FlipsIn
  <2> QED BY <1>2, <2>1, <2>2, Forgotten
<1> QED BY <1>1, <1>2

(* Tags the driver does not give as unfixed are those that were written,   *)
(* an erased chunk is not taken for a written one, and one changed bit of  *)
(* the tags with one of each block of data is always put right: for any    *)
(* tags, any data, any number of blocks and any two places that change     *)
(* (yaffs_unpack_tags2, yaffs_ecc_correct_other,                           *)
(* yaffs_nand_tag_ReadChunk).                                              *)
THEOREM TagsAlwaysTrusted == Spec => []TagsTrusted
<1>1. Init => TagsTrusted
  BY TrustedInit
<1>2. PageInv /\ TagsTrusted /\ [Next]_vars => TagsTrusted'
  BY TagsTrustedStep
<1> QED BY <1>1, <1>2, PageHolds, PTL DEF Spec

LEMMA DataTrustedStep == PageInv /\ DataTrusted /\ [Next]_vars => DataTrusted'
<1> SUFFICES ASSUME PageInv, DataTrusted, [Next]_vars
             PROVE  DataTrusted'
  OBVIOUS
<1>1. CASE ReadChunk
  <2>1. UNCHANGED <<page, wrote, flips>>
    BY <1>1 DEF ReadChunk
  <2>2. FlipsKept
    BY DEF PageInv
  <2> SUFFICES ASSUME wrote # Nothing, got'.ecc_result # "unfixed"
               PROVE  got'.data = wrote.data
    BY <2>1 DEF DataTrusted
  <2>3. wrote \in Writings /\ page = Xor(Encoded(wrote), flips)
    BY PageIs
  <2>4. UnpackTags2.status # "unfixed"
    BY <1>1, ReadGives
  <2>5. UnpackTags2.tags.used
    BY <2>2, <2>3, <2>4, TagsAnswer
  <2>6. \A n \in Blocks : DataFix(n).status # "unfixed"
    BY <1>1, <2>5, ReadGives
  <2>7. \A n \in Blocks : DataFix(n).data = wrote.data[n]
    BY <2>2, <2>3, <2>6, DataAnswer
  <2>8. got'.data = [n \in Blocks |-> DataFix(n).data]
    BY <1>1, ReadGives
  <2>9. wrote.data = [n \in Blocks |-> wrote.data[n]]
    BY <2>3, WritingIs
  <2> QED BY <2>7, <2>8, <2>9
<1>2. CASE ~ReadChunk
  <2>1. CASE got' = Nothing
    BY <2>1 DEF DataTrusted
  <2>2. CASE UNCHANGED vars
    BY <2>2 DEF vars, DataTrusted
  <2> QED BY <1>2, <2>1, <2>2, Forgotten
<1> QED BY <1>1, <1>2

(* Data the driver does not give as unfixed are those that were written,   *)
(* in every block of the chunk, whichever two bits of the page have        *)
(* changed (yaffs_ecc_correct over each 256 bytes, and the loop of         *)
(* yaffs_nand_tag_ReadChunk that ends at the first block it cannot fix).   *)
THEOREM DataAlwaysTrusted == Spec => []DataTrusted
<1>1. Init => DataTrusted
  BY TrustedInit
<1>2. PageInv /\ DataTrusted /\ [Next]_vars => DataTrusted'
  BY DataTrustedStep
<1> QED BY <1>1, <1>2, PageHolds, PTL DEF Spec
=============================================================================
