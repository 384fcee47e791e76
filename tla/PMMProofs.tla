------------------------------ MODULE PMMProofs ------------------------------
(***************************************************************************)
(* Proofs about PMM, for every number of regions and every memory map      *)
(* whose usable regions fill their bitmaps (NoPadding), with callers that  *)
(* free what they hold and, at the end, with callers that free anything.   *)
(***************************************************************************)
EXTENDS PMM, FiniteSetTheorems, WellFoundedInduction, TLAPS

NoPaddingAnywhere == \A map \in MemoryMaps : NoPadding(map)

\* Memory that is not usable stays marked as used.
ReservedMarked == \A r \in Regions : ~memmap[r].usable => bitmap[r] = Bits(memmap, r)

\* The regions pmm_alloc has looked at in this call have no free page.
ScannedExhausted ==
    scan \in 0 .. NumRegions =>
      \A k \in 0 .. scan - 1 : free_pages[(k + region_cache) % NumRegions] = 0

IndInv == /\ TypeOK
          /\ NoPadding(memmap)
          /\ ReservedMarked
          /\ CountsAgree
          /\ PagesConserved
          /\ HeldPagesManaged
          /\ ScannedExhausted

-----------------------------------------------------------------------------
(* Arithmetic.                                                             *)

\* A remainder is smaller than the divisor.
LEMMA ModuloRange == ASSUME NEW a \in Nat, NEW n \in Nat \ {0} PROVE a % n \in 0 .. n - 1
  BY SMT

\* A sum of two indices, taken modulo the number of elements, wraps once.
LEMMA ModuloWraps ==
    ASSUME NEW a \in Nat, NEW n \in Nat \ {0}, a < 2 * n
    PROVE  a % n = IF a < n THEN a ELSE a - n
  BY SMT

\* Every bit of a bitmap lies in one of its bytes.
LEMMA BitHasByte ==
    ASSUME NEW bytes \in Nat, NEW bit \in 0 .. bytes * BitsPerByte - 1
    PROVE  \E byte \in 0 .. bytes - 1 : bit \in ByteBits(byte)
  <1> DEFINE byte == bit \div BitsPerByte
  <1>1. BitsPerByte \in Nat \ {0} /\ bit \in Nat /\ bit < bytes * BitsPerByte
    BY SizesAssumption, SMT
  <1>2. byte \in Nat /\ byte * BitsPerByte <= bit /\ bit < byte * BitsPerByte + BitsPerByte
    BY <1>1, SMT
  <1>3. byte < bytes
    BY <1>1, <1>2, SMT
  <1>4. byte \in 0 .. bytes - 1
    BY <1>2, <1>3
  <1>5. bit \in ByteBits(byte)
    BY <1>1, <1>2 DEF ByteBits
  <1> QED
    BY <1>4, <1>5

\* A byte of a bitmap describes bits of that bitmap only.
LEMMA ByteInBitmap ==
    ASSUME NEW bytes \in Nat, NEW byte \in 0 .. bytes - 1
    PROVE  ByteBits(byte) \subseteq 0 .. bytes * BitsPerByte - 1
  <1>1. BitsPerByte \in Nat \ {0} /\ byte \in Nat /\ byte < bytes
    BY SizesAssumption
  <1>2. byte * BitsPerByte + BitsPerByte <= bytes * BitsPerByte
    BY <1>1, SMT
  <1>3. byte * BitsPerByte \in Nat /\ bytes * BitsPerByte \in Nat
    BY <1>1, SMT
  <1> QED
    BY <1>1, <1>2, <1>3 DEF ByteBits

\* The size of a bitmap is a number of bytes.
LEMMA BitmapSizeType ==
    ASSUME NEW map, IsMemoryMap(map), NEW r \in Regions
    PROVE  /\ BitmapSize(map, r) \in Nat
           /\ BitmapSize(map, r) * BitsPerByte \in Nat
           /\ map[r].base \in Nat
           /\ map[r].length \in Nat \ {0}
           /\ map[r].usable \in BOOLEAN
           /\ IsFiniteSet(Bits(map, r))
           /\ Bits(map, r) \subseteq Nat
  <1>1. map[r] \in Entry
    BY DEF IsMemoryMap
  <1>2. map[r].base \in Nat /\ map[r].length \in Nat \ {0} /\ map[r].usable \in BOOLEAN
    BY <1>1 DEF Entry
  <1>3. BitmapSize(map, r) \in Nat
    <2>1. BitsPerByte \in Nat \ {0} /\ map[r].length + BitsPerByte - 1 \in Nat
      BY <1>2, SizesAssumption
    <2> QED
      BY <2>1, SMT DEF BitmapSize, CeilDiv
  <1>4. BitmapSize(map, r) * BitsPerByte \in Nat
    BY <1>3, SizesAssumption
  <1>5. BitmapSize(map, r) * BitsPerByte - 1 \in Int
    BY <1>4
  <1>6. IsFiniteSet(Bits(map, r))
    BY <1>5, FS_Interval DEF Bits
  <1> QED
    BY <1>2, <1>3, <1>4, <1>6 DEF Bits
-----------------------------------------------------------------------------
(* Sums over the regions.                                                  *)

\* What holds of 0 and is passed on by each number holds up to n.
LEMMA UpTo ==
    ASSUME NEW n \in Nat, NEW T, 0 \in T, \A k \in 0 .. n - 1 : k \in T => k + 1 \in T
    PROVE  \A k \in 0 .. n : k \in T
  <1> SUFFICES ASSUME NEW k0 \in 0 .. n, k0 \notin T PROVE FALSE
    OBVIOUS
  <1> DEFINE Smaller == {ss \in Nat \X Nat : ss[1] < ss[2]}
             Others == {k \in 0 .. n : k \notin T}
  <1>1. IsWellFoundedOn(Smaller, Nat)
    BY NatLessThanWellFounded DEF OpToRel
  <1>2. \A a, b \in Nat : <<a, b>> \in Smaller <=> a < b
    OBVIOUS
  <1>3. Others \subseteq Nat /\ Others # {}
    OBVIOUS
  <1> HIDE DEF Smaller, Others
  <1>4. PICK k \in Others : \A j \in Others : ~(<<j, k>> \in Smaller)
    BY <1>1, <1>3, WFMin
  <1>5. k \in 0 .. n /\ k \notin T
    BY DEF Others
  <1>6. k - 1 \in 0 .. n - 1 /\ k - 1 \in Nat /\ k \in Nat
    BY <1>5
  <1>7. k - 1 \notin Others
    <2>1. PICK j : j = k - 1
      OBVIOUS
    <2>2. j \in Nat /\ j < k
      BY <1>6, <2>1
    <2>3. <<j, k>> \in Smaller
      BY <1>2, <1>6, <2>2
    <2> QED
      BY <1>4, <2>1, <2>3
  <1>8. k - 1 \in T
    BY <1>6, <1>7 DEF Others
  <1>9. (k - 1) + 1 = k
    BY <1>6
  <1> QED
    BY <1>5, <1>6, <1>8, <1>9

\* The sums of f over the first regions, up to n of them.
AreSums(f, n, s) == s = [k \in 0 .. n |-> IF k = 0 THEN 0 ELSE s[k - 1] + f[k - 1]]

LEMMA SumsExist ==
    ASSUME NEW f
    PROVE  \E s : AreSums(f, NumRegions, s)
  <1> DEFINE T == {n \in Nat : \E s : AreSums(f, n, s)}
  <1>1. 0 \in T
    <2>1. AreSums(f, 0, [k \in 0 .. 0 |-> 0])
      BY DEF AreSums
    <2> QED
      BY <2>1
  <1>2. ASSUME NEW n \in 0 .. NumRegions - 1, n \in T PROVE n + 1 \in T
    <2>1. PICK s : AreSums(f, n, s)
      BY <1>2
    <2>2. n \in Nat /\ n + 1 \in Nat
      BY NumRegionsAssumption
    <2>3. PICK t : t = [k \in 0 .. n + 1 |-> IF k = n + 1 THEN s[n] + f[n] ELSE s[k]]
      OBVIOUS
    <2>4. ASSUME NEW k \in 0 .. n + 1
          PROVE  t[k] = IF k = 0 THEN 0 ELSE t[k - 1] + f[k - 1]
      <3>1. CASE k = n + 1
        <4>1. k # 0 /\ k - 1 = n /\ n \in 0 .. n + 1 /\ n # n + 1
          BY <2>2, <3>1
        <4>2. t[k] = s[n] + f[n] /\ t[k - 1] = s[n]
          BY <2>3, <3>1, <4>1
        <4> QED
          BY <4>1, <4>2
      <3>2. CASE k # n + 1
        <4>1. k \in 0 .. n
          BY <2>2, <3>2
        <4>2. s[k] = IF k = 0 THEN 0 ELSE s[k - 1] + f[k - 1]
          BY <2>1, <4>1 DEF AreSums
        <4>3. t[k] = s[k]
          BY <2>3, <3>2
        <4>4. k # 0 => t[k - 1] = s[k - 1]
          BY <2>2, <2>3, <4>1
        <4> QED
          BY <4>2, <4>3, <4>4
      <3> QED
        BY <3>1, <3>2
    <2>5. AreSums(f, n + 1, t)
      BY <2>3, <2>4 DEF AreSums
    <2> QED
      BY <2>2, <2>5
  <1> HIDE DEF T
  <1>3. NumRegions \in T
    BY <1>1, <1>2, UpTo, NumRegionsAssumption
  <1> QED
    BY <1>3 DEF T

\* SumOf is the last of these sums.
LEMMA SumIsLast ==
    ASSUME NEW f
    PROVE  \E s : AreSums(f, NumRegions, s) /\ SumOf(f) = s[NumRegions]
  <1>1. PICK s : AreSums(f, NumRegions, s)
    BY SumsExist
  <1> QED
    BY <1>1, Zenon DEF SumOf, AreSums

\* What two successive sums have to do with each other.
LEMMA SumsStep ==
    ASSUME NEW f, NEW s, AreSums(f, NumRegions, s)
    PROVE  /\ s[0] = 0
           /\ \A k \in 0 .. NumRegions - 1 : k \in Regions /\ s[k + 1] = s[k] + f[k]
  <1>1. 0 \in 0 .. NumRegions
    BY NumRegionsAssumption
  <1>2. ASSUME NEW k \in 0 .. NumRegions - 1 PROVE s[k + 1] = s[k] + f[k]
    <2>1. k + 1 \in 0 .. NumRegions /\ k + 1 # 0 /\ (k + 1) - 1 = k
      BY NumRegionsAssumption
    <2>2. s[k + 1] = s[(k + 1) - 1] + f[(k + 1) - 1]
      BY <2>1 DEF AreSums
    <2> QED
      BY <2>1, <2>2
  <1> QED
    BY <1>1, <1>2 DEF AreSums, Regions

\* A sum of numbers is a number.
LEMMA SumType ==
    ASSUME NEW f \in [Regions -> Nat]
    PROVE  SumOf(f) \in Nat
  <1>1. PICK s : AreSums(f, NumRegions, s) /\ SumOf(f) = s[NumRegions]
    BY SumIsLast
  <1> DEFINE T == {k \in 0 .. NumRegions : s[k] \in Nat}
  <1>2. 0 \in T
    BY <1>1, SumsStep, NumRegionsAssumption
  <1>3. ASSUME NEW k \in 0 .. NumRegions - 1, k \in T PROVE k + 1 \in T
    <2>1. k + 1 \in 0 .. NumRegions
      BY NumRegionsAssumption
    <2>2. s[k + 1] = s[k] + f[k] /\ f[k] \in Nat /\ s[k] \in Nat
      BY <1>1, <1>3, SumsStep
    <2> QED
      BY <2>1, <2>2
  <1> HIDE DEF T
  <1>4. NumRegions \in T
    BY <1>2, <1>3, UpTo, NumRegionsAssumption
  <1> QED
    BY <1>1, <1>4 DEF T

\* A sum of multiples is a multiple of the sum.
LEMMA SumOfMultiples ==
    ASSUME NEW f \in [Regions -> Nat], NEW g \in [Regions -> Nat], NEW b \in Nat,
           \A r \in Regions : g[r] = f[r] * b
    PROVE  SumOf(g) = SumOf(f) * b
  <1>1. PICK s : AreSums(f, NumRegions, s) /\ SumOf(f) = s[NumRegions]
    BY SumIsLast
  <1>2. PICK t : AreSums(g, NumRegions, t) /\ SumOf(g) = t[NumRegions]
    BY SumIsLast
  <1> DEFINE T == {k \in 0 .. NumRegions : s[k] \in Nat /\ t[k] = s[k] * b}
  <1>3. 0 \in T
    BY <1>1, <1>2, SumsStep, NumRegionsAssumption
  <1>4. ASSUME NEW k \in 0 .. NumRegions - 1, k \in T PROVE k + 1 \in T
    <2>1. k + 1 \in 0 .. NumRegions /\ k \in Regions
      BY NumRegionsAssumption DEF Regions
    <2>2. s[k + 1] = s[k] + f[k] /\ t[k + 1] = t[k] + g[k]
      BY <1>1, <1>2, SumsStep
    <2>3. PICK x \in Nat : x = s[k] /\ t[k] = x * b
      BY <1>4
    <2>4. PICK y \in Nat : y = f[k] /\ g[k] = y * b
      BY <2>1
    <2>5. (x + y) * b = x * b + y * b /\ x + y \in Nat
      OBVIOUS
    <2> QED
      BY <2>1, <2>2, <2>3, <2>4, <2>5
  <1> HIDE DEF T
  <1>5. NumRegions \in T
    BY <1>3, <1>4, UpTo, NumRegionsAssumption
  <1> QED
    BY <1>1, <1>2, <1>5 DEF T

\* A quotient that is rounded up is a number.
LEMMA CeilDivType == ASSUME NEW a \in Nat, NEW b \in Nat \ {0} PROVE CeilDiv(a, b) \in Nat
  <1>1. a + b - 1 \in Nat
    OBVIOUS
  <1> QED
    BY <1>1, SMT DEF CeilDiv

\* A multiple needs no rounding.
LEMMA CeilDivOfMultiple ==
    ASSUME NEW a \in Nat, NEW b \in Nat \ {0}
    PROVE  CeilDiv(a * b, b) = a
  <1>1. PICK n \in Nat : n = a * b
    OBVIOUS
  <1>2. PICK q \in Nat : q = CeilDiv(n, b)
    BY <1>1, CeilDivType
  <1>3. q * b <= n + b - 1 /\ n + b - 1 < q * b + b
    <2>1. PICK m \in Nat : m = n + b - 1
      OBVIOUS
    <2>2. q = m \div b
      BY <1>2, <2>1 DEF CeilDiv
    <2>3. q * b <= m /\ m < q * b + b
      BY <2>2, SMT
    <2> QED
      BY <2>1, <2>3
  <1>4. ~(q < a)
    <2>1. ASSUME q + 1 <= a PROVE FALSE
      <3>1. (q + 1) * b <= a * b /\ (q + 1) * b = q * b + b
        BY <2>1, SMT
      <3> QED
        BY <1>1, <1>3, <3>1, SMT
    <2> QED
      BY <2>1
  <1>5. ~(a < q)
    <2>1. ASSUME a + 1 <= q PROVE FALSE
      <3>1. (a + 1) * b <= q * b /\ (a + 1) * b = a * b + b
        BY <2>1, SMT
      <3> QED
        BY <1>1, <1>3, <3>1, SMT
    <2> QED
      BY <2>1
  <1> QED
    BY <1>1, <1>2, <1>4, <1>5

\* pmm_init reserves a number of pages.
LEMMA RequiredPagesType ==
    ASSUME NEW map, IsMemoryMap(map)
    PROVE  RequiredPages(map) \in Nat
  <1>1. [r \in Regions |-> map[r].length] \in [Regions -> Nat]
    BY BitmapSizeType
  <1>2. PICK pages \in Nat : pages = SumOf([r \in Regions |-> map[r].length])
    BY <1>1, SumType
  <1>3. PICK bytes \in Nat : bytes = NumRegions * StructSize + CeilDiv(pages, BitsPerByte)
    <2>1. PICK structs \in Nat : structs = NumRegions * StructSize
      BY NumRegionsAssumption, SizesAssumption
    <2>2. PICK bitmaps \in Nat : bitmaps = CeilDiv(pages, BitsPerByte)
      BY CeilDivType, SizesAssumption
    <2> QED
      BY <2>1, <2>2
  <1>4. RequiredPages(map) = CeilDiv(bytes, PageSize)
    BY <1>2, <1>3 DEF RequiredPages
  <1> QED
    BY <1>4, CeilDivType, SizesAssumption
-----------------------------------------------------------------------------
(* Bits and frames.                                                        *)

\* Frames of different regions are different, and so are those of one region.
LEMMA FramesDiffer ==
    ASSUME IsMemoryMap(memmap),
           NEW r \in Regions, NEW a \in Nat, a < memmap[r].length,
           NEW s \in Regions, NEW b \in Nat, b < memmap[s].length,
           FrameOf(r, a) = FrameOf(s, b)
    PROVE  r = s /\ a = b
  <1>1. r \in Nat /\ s \in Nat
    BY NumRegionsAssumption DEF Regions
  <1>2. memmap[r].base \in Nat /\ memmap[s].base \in Nat
    BY BitmapSizeType
  <1>3. memmap[r].length \in Nat /\ memmap[s].length \in Nat
    BY BitmapSizeType
  <1>4. memmap[r].base + a = memmap[s].base + b
    BY DEF FrameOf
  <1>5. ~(r < s)
    <2>1. ASSUME r < s PROVE FALSE
      <3>1. memmap[r].base + memmap[r].length <= memmap[s].base
        BY <2>1 DEF IsMemoryMap
      <3> QED
        BY <3>1, <1>2, <1>3, <1>4
    <2> QED
      BY <2>1
  <1>6. ~(s < r)
    <2>1. ASSUME s < r PROVE FALSE
      <3>1. memmap[s].base + memmap[s].length <= memmap[r].base
        BY <2>1 DEF IsMemoryMap
      <3> QED
        BY <3>1, <1>2, <1>3, <1>4
    <2> QED
      BY <2>1
  <1>7. r = s
    BY <1>1, <1>5, <1>6
  <1> QED
    BY <1>2, <1>4, <1>7

\* A clear bit is a page of a usable region, and lies in bounds.
LEMMA FreeBitIsPage ==
    ASSUME TypeOK, NoPadding(memmap), ReservedMarked,
           NEW r \in Regions, NEW bit \in FreeBits(r)
    PROVE  /\ memmap[r].usable
           /\ bit \in Nat
           /\ bit < memmap[r].length
           /\ FrameOf(r, bit) \in Nat
           /\ FrameOf(r, bit) - memmap[r].base = bit
           /\ InBounds(r, FrameOf(r, bit))
           /\ FrameOf(r, bit) > 0
  <1>1. /\ IsMemoryMap(memmap)
        /\ memmap[r].base \in Nat
        /\ memmap[r].length \in Nat
        /\ Bits(memmap, r) \subseteq Nat
    BY BitmapSizeType DEF TypeOK
  <1>2. memmap[r].usable
    BY DEF ReservedMarked, FreeBits
  <1>3. bit \in Bits(memmap, r) /\ bit \in Nat
    BY <1>1 DEF FreeBits
  <1>4. BitmapSize(memmap, r) * BitsPerByte = memmap[r].length
    BY <1>2 DEF NoPadding
  <1>5. bit < memmap[r].length
    BY <1>1, <1>3, <1>4 DEF Bits
  <1>6. memmap[r].base > 0
    BY <1>1, <1>2 DEF IsMemoryMap
  <1> QED
    BY <1>1, <1>2, <1>3, <1>5, <1>6 DEF FrameOf, InBounds

\* A page of a usable region has a bit.
LEMMA PageHasBit ==
    ASSUME TypeOK, NoPadding(memmap), NEW r \in Regions, memmap[r].usable,
           NEW page \in Nat, page < memmap[r].length
    PROVE  page \in Bits(memmap, r)
  <1>1. BitmapSize(memmap, r) * BitsPerByte = memmap[r].length
    BY DEF NoPadding
  <1>2. memmap[r].length \in Nat
    BY BitmapSizeType DEF TypeOK
  <1> QED
    BY <1>1, <1>2 DEF Bits

\* The free frames are the frames of the clear bits.
LEMMA FreeFramesMeaning ==
    ASSUME NEW frame
    PROVE  frame \in FreeFrames
             <=> \E r \in Regions : \E page \in FreeBits(r) : frame = FrameOf(r, page)
  BY DEF FreeFrames

\* A frame is free exactly when its bit is clear.
LEMMA FreeFrameHasFreeBit ==
    ASSUME TypeOK, NoPadding(memmap), ReservedMarked,
           NEW r \in Regions, NEW page \in Nat, page < memmap[r].length
    PROVE  FrameOf(r, page) \in FreeFrames <=> page \in FreeBits(r)
  <1>1. ASSUME page \in FreeBits(r) PROVE FrameOf(r, page) \in FreeFrames
    BY <1>1, FreeFramesMeaning
  <1>2. ASSUME FrameOf(r, page) \in FreeFrames PROVE page \in FreeBits(r)
    <2>1. PICK s \in Regions : \E b \in FreeBits(s) : FrameOf(r, page) = FrameOf(s, b)
      BY <1>2, FreeFramesMeaning
    <2>2. PICK b \in FreeBits(s) : FrameOf(r, page) = FrameOf(s, b)
      BY <2>1
    <2>3. b \in Nat /\ b < memmap[s].length
      BY FreeBitIsPage
    <2>4. s = r /\ b = page
      BY <2>2, <2>3, FramesDiffer DEF TypeOK
    <2> QED
      BY <2>4
  <1> QED
    BY <1>1, <1>2

-----------------------------------------------------------------------------
(* What the two marking functions do to bits, counters and free frames.    *)

\* Marking a clear bit as used takes exactly that page.
LEMMA MarkUsedEffect ==
    ASSUME TypeOK, NoPadding(memmap), ReservedMarked, CountsAgree,
           NEW r \in Regions, NEW bit \in FreeBits(r),
           MarkPageUsed(r, FrameOf(r, bit)), UNCHANGED memmap
    PROVE  /\ \A s \in Regions : bitmap'[s] \subseteq Bits(memmap, s)
           /\ DOMAIN bitmap' = Regions
           /\ free_pages' \in [Regions -> Nat]
           /\ ReservedMarked'
           /\ CountsAgree'
           /\ FreeFrames' = FreeFrames \ {FrameOf(r, bit)}
  <1>0. IsMemoryMap(memmap) /\ DOMAIN bitmap = Regions /\ free_pages \in [Regions -> Nat]
          /\ \A s \in Regions : bitmap[s] \subseteq Bits(memmap, s)
    BY DEF TypeOK
  <1>1. memmap[r].usable /\ bit \in Nat /\ bit < memmap[r].length
          /\ FrameOf(r, bit) - memmap[r].base = bit /\ InBounds(r, FrameOf(r, bit))
    BY FreeBitIsPage
  <1>2. /\ bitmap' = [bitmap EXCEPT ![r] = @ \union {bit}]
        /\ free_pages' = [free_pages EXCEPT ![r] = @ - 1]
    BY <1>1 DEF MarkPageUsed
  <1>3. bit \in Bits(memmap, r) /\ bit \notin bitmap[r]
    BY DEF FreeBits
  <1>4. /\ \A s \in Regions : bitmap'[s] = IF s = r THEN bitmap[r] \union {bit} ELSE bitmap[s]
        /\ DOMAIN bitmap' = Regions
    BY <1>0, <1>2
  <1>5. \A s \in Regions : FreeBits(s)' = IF s = r THEN FreeBits(r) \ {bit} ELSE FreeBits(s)
    BY <1>4 DEF FreeBits
  <1>6. IsFiniteSet(FreeBits(r))
    <2>1. IsFiniteSet(Bits(memmap, r))
      BY <1>0, BitmapSizeType
    <2> QED
      BY <2>1, FS_Subset DEF FreeBits
  <1>7. Cardinality(FreeBits(r) \ {bit}) = Cardinality(FreeBits(r)) - 1
    BY <1>6, FS_RemoveElement
  <1>8. IsFiniteSet(FreeBits(r) \ {bit})
    BY <1>6, FS_RemoveElement
  <1>9. Cardinality(FreeBits(r) \ {bit}) \in Nat
    BY <1>8, FS_CardinalityType
  <1>10. free_pages[r] - 1 = Cardinality(FreeBits(r) \ {bit})
    BY <1>7 DEF CountsAgree
  <1>11. /\ free_pages' \in [Regions -> Nat]
         /\ \A s \in Regions : free_pages'[s] = IF s = r THEN free_pages[r] - 1 ELSE free_pages[s]
    BY <1>0, <1>2, <1>9, <1>10
  <1>12. CountsAgree'
    <2>1. ASSUME NEW s \in Regions PROVE free_pages'[s] = Cardinality(FreeBits(s)')
      <3>1. CASE s = r
        BY <3>1, <1>5, <1>10, <1>11
      <3>2. CASE s # r
        BY <3>2, <1>5, <1>11 DEF CountsAgree
      <3> QED
        BY <3>1, <3>2
    <2> QED
      BY <2>1 DEF CountsAgree
  <1>13. ReservedMarked'
    BY <1>1, <1>4 DEF ReservedMarked
  <1>14. \A s \in Regions : bitmap'[s] \subseteq Bits(memmap, s)
    BY <1>0, <1>3, <1>4
  <1>15. ASSUME NEW frame
         PROVE  frame \in FreeFrames' <=> frame \in FreeFrames /\ frame # FrameOf(r, bit)
    <2>1. frame \in FreeFrames'
            <=> \E s \in Regions : \E page \in FreeBits(s)' : frame = FrameOf(s, page)
      BY DEF FreeFrames, FrameOf
    <2>2. ASSUME NEW s \in Regions, NEW page \in FreeBits(s)', frame = FrameOf(s, page)
          PROVE  frame \in FreeFrames /\ frame # FrameOf(r, bit)
      <3>1. page \in FreeBits(s) /\ (s = r => page # bit)
        BY <2>2, <1>5
      <3>2. page \in Nat /\ page < memmap[s].length
        BY <3>1, FreeBitIsPage
      <3>3. frame # FrameOf(r, bit)
        BY <2>2, <3>1, <3>2, <1>0, <1>1, FramesDiffer
      <3> QED
        BY <2>2, <3>1, <3>3, FreeFramesMeaning
    <2>3. ASSUME frame \in FreeFrames, frame # FrameOf(r, bit)
          PROVE  \E s \in Regions : \E page \in FreeBits(s)' : frame = FrameOf(s, page)
      <3>1. PICK s \in Regions : \E page \in FreeBits(s) : frame = FrameOf(s, page)
        BY <2>3, FreeFramesMeaning
      <3>2. PICK page \in FreeBits(s) : frame = FrameOf(s, page)
        BY <3>1
      <3>3. page \in FreeBits(s)'
        BY <2>3, <3>2, <1>5
      <3> QED
        BY <3>2, <3>3
    <2> QED
      BY <2>1, <2>2, <2>3
  <1>16. FreeFrames' = FreeFrames \ {FrameOf(r, bit)}
    BY <1>15
  <1> QED
    BY <1>4, <1>11, <1>12, <1>13, <1>14, <1>16

\* Marking a used page of a usable region as free gives back exactly that page.
LEMMA MarkFreeEffect ==
    ASSUME TypeOK, NoPadding(memmap), ReservedMarked, CountsAgree,
           NEW r \in Regions, memmap[r].usable,
           NEW page \in Nat, page < memmap[r].length, page \notin FreeBits(r),
           MarkPageFree(r, FrameOf(r, page)), UNCHANGED memmap
    PROVE  /\ \A s \in Regions : bitmap'[s] \subseteq Bits(memmap, s)
           /\ DOMAIN bitmap' = Regions
           /\ free_pages' \in [Regions -> Nat]
           /\ ReservedMarked'
           /\ CountsAgree'
           /\ FreeFrames' = FreeFrames \union {FrameOf(r, page)}
  <1>0. IsMemoryMap(memmap) /\ DOMAIN bitmap = Regions /\ free_pages \in [Regions -> Nat]
          /\ \A s \in Regions : bitmap[s] \subseteq Bits(memmap, s)
    BY DEF TypeOK
  <1>1. memmap[r].base \in Nat /\ memmap[r].length \in Nat
    BY <1>0, BitmapSizeType
  <1>2. page \in Bits(memmap, r)
    BY PageHasBit
  <1>3. InBounds(r, FrameOf(r, page)) /\ FrameOf(r, page) - memmap[r].base = page
    BY <1>1 DEF InBounds, FrameOf
  <1>4. /\ bitmap' = [bitmap EXCEPT ![r] = @ \ {page}]
        /\ free_pages' = [free_pages EXCEPT ![r] = @ + 1]
    BY <1>3 DEF MarkPageFree
  <1>5. /\ \A s \in Regions : bitmap'[s] = IF s = r THEN bitmap[r] \ {page} ELSE bitmap[s]
        /\ DOMAIN bitmap' = Regions
    BY <1>0, <1>4
  <1>6. \A s \in Regions : FreeBits(s)' = IF s = r THEN FreeBits(r) \union {page} ELSE FreeBits(s)
    BY <1>2, <1>5 DEF FreeBits
  <1>7. IsFiniteSet(FreeBits(r))
    <2>1. IsFiniteSet(Bits(memmap, r))
      BY <1>0, BitmapSizeType
    <2> QED
      BY <2>1, FS_Subset DEF FreeBits
  <1>8. Cardinality(FreeBits(r) \union {page}) = Cardinality(FreeBits(r)) + 1
    BY <1>7, FS_AddElement
  <1>9. /\ free_pages' \in [Regions -> Nat]
        /\ \A s \in Regions : free_pages'[s] = IF s = r THEN free_pages[r] + 1 ELSE free_pages[s]
    BY <1>0, <1>4
  <1>10. CountsAgree'
    <2>1. ASSUME NEW s \in Regions PROVE free_pages'[s] = Cardinality(FreeBits(s)')
      <3>1. CASE s = r
        BY <3>1, <1>6, <1>8, <1>9 DEF CountsAgree
      <3>2. CASE s # r
        BY <3>2, <1>6, <1>9 DEF CountsAgree
      <3> QED
        BY <3>1, <3>2
    <2> QED
      BY <2>1 DEF CountsAgree
  <1>11. ReservedMarked'
    BY <1>5 DEF ReservedMarked
  <1>12. \A s \in Regions : bitmap'[s] \subseteq Bits(memmap, s)
    BY <1>0, <1>5
  <1>13. ASSUME NEW frame
         PROVE  frame \in FreeFrames' <=> frame \in FreeFrames \/ frame = FrameOf(r, page)
    <2>1. frame \in FreeFrames'
            <=> \E s \in Regions : \E p \in FreeBits(s)' : frame = FrameOf(s, p)
      BY DEF FreeFrames, FrameOf
    <2> QED
      BY <2>1, <1>6, FreeFramesMeaning
  <1>14. FreeFrames' = FreeFrames \union {FrameOf(r, page)}
    BY <1>13
  <1> QED
    BY <1>5, <1>9, <1>10, <1>11, <1>12, <1>14
-----------------------------------------------------------------------------
(* The state pmm_init leaves.                                              *)

\* A managed frame is a page of a usable region that the PMM does not occupy.
LEMMA ManagedMeaning ==
    ASSUME IsMemoryMap(memmap), NEW frame
    PROVE  frame \in ManagedFrames(memmap)
             <=> /\ frame \notin OwnFrames(memmap)
                 /\ \E r \in Regions : /\ memmap[r].usable
                                       /\ \E page \in Nat : /\ page < memmap[r].length
                                                            /\ frame = FrameOf(r, page)
  <1>1. \A r \in Regions : memmap[r].base \in Nat /\ memmap[r].length \in Nat
    BY BitmapSizeType
  <1>2. ASSUME NEW r \in Regions
        PROVE  frame \in memmap[r].base .. memmap[r].base + memmap[r].length - 1
                 <=> \E page \in Nat : page < memmap[r].length /\ frame = FrameOf(r, page)
    <2>1. ASSUME frame \in memmap[r].base .. memmap[r].base + memmap[r].length - 1
          PROVE  \E page \in Nat : page < memmap[r].length /\ frame = FrameOf(r, page)
      <3>1. /\ frame - memmap[r].base \in Nat
            /\ frame - memmap[r].base < memmap[r].length
            /\ frame = memmap[r].base + (frame - memmap[r].base)
        BY <1>1, <2>1
      <3> QED
        BY <3>1 DEF FrameOf
    <2>2. ASSUME NEW page \in Nat, page < memmap[r].length, frame = FrameOf(r, page)
          PROVE  frame \in memmap[r].base .. memmap[r].base + memmap[r].length - 1
      BY <1>1, <2>2 DEF FrameOf
    <2> QED
      BY <2>1, <2>2
  <1>3. frame \in ManagedFrames(memmap)
          <=> /\ frame \notin OwnFrames(memmap)
              /\ \E r \in Regions :
                   /\ memmap[r].usable
                   /\ frame \in memmap[r].base .. memmap[r].base + memmap[r].length - 1
    <2>1. frame \in UsableFrames(memmap)
            <=> \E r \in UsableRegions(memmap) : frame \in FramesOf(memmap, r)
      BY DEF UsableFrames
    <2> QED
      BY <2>1 DEF ManagedFrames, UsableRegions, FramesOf
  <1> QED
    BY <1>2, <1>3

\* The first suitable region exists when any region is suitable.
LEMMA HomeIsSuitable ==
    ASSUME NEW map, Suitable(map) # {}
    PROVE  Home(map) \in Suitable(map)
  <1>1. Suitable(map) \subseteq Nat
    BY NumRegionsAssumption DEF Suitable, Regions
  <1> DEFINE Smaller == {ss \in Nat \X Nat : ss[1] < ss[2]}
  <1>2. IsWellFoundedOn(Smaller, Nat)
    BY NatLessThanWellFounded DEF OpToRel
  <1>3. \A a, b \in Nat : <<a, b>> \in Smaller <=> a < b
    OBVIOUS
  <1> HIDE DEF Smaller
  <1>4. PICK r \in Suitable(map) : \A s \in Suitable(map) : ~(<<s, r>> \in Smaller)
    BY <1>1, <1>2, WFMin
  <1>5. \A s \in Suitable(map) : ~(s < r)
    BY <1>1, <1>3, <1>4, Zenon
  <1>6. \A s \in Suitable(map) : r <= s
    BY <1>1, <1>5
  <1> QED
    BY <1>6 DEF Home

\* Whatever pmm_init leaves behind satisfies the inductive invariant.
LEMMA InitIndInv == NoPaddingAnywhere /\ Init => IndInv
  <1> SUFFICES ASSUME NoPaddingAnywhere, Init PROVE IndInv
    OBVIOUS
  <1> DEFINE h == Home(memmap)
             n == RequiredPages(memmap)
  <1>1. memmap \in MemoryMaps /\ IsMemoryMap(memmap) /\ NoPadding(memmap) /\ n \in Nat
    BY MemoryMapsAssumption, RequiredPagesType DEF Init, NoPaddingAnywhere
  <1>2. h \in Regions /\ memmap[h].usable /\ n <= memmap[h].length
    <2>1. h \in Suitable(memmap)
      BY HomeIsSuitable DEF Init
    <2>2. memmap[h].length \in Nat
      BY <1>1, <2>1, BitmapSizeType DEF Suitable
    <2> QED
      BY <1>1, <2>1, <2>2 DEF Suitable
  <1> HIDE DEF h, n
  <1>3. \A r \in Regions : memmap[r].base \in Nat /\ memmap[r].length \in Nat \ {0}
                             /\ memmap[r].usable \in BOOLEAN
    BY <1>1, BitmapSizeType
  <1>4. \A r \in Regions : memmap[r].usable => Bits(memmap, r) = 0 .. memmap[r].length - 1
    BY <1>1 DEF NoPadding, Bits
  <1>5. /\ \A r \in Regions : bitmap[r] = IF ~memmap[r].usable THEN Bits(memmap, r)
                                          ELSE IF r = h THEN 0 .. n - 1 ELSE {}
        /\ \A r \in Regions : free_pages[r] = IF ~memmap[r].usable THEN 0
                                ELSE IF r = h THEN memmap[r].length - n ELSE memmap[r].length
        /\ DOMAIN bitmap = Regions /\ DOMAIN free_pages = Regions
    BY DEF Init, RegionBitmap, RegionFreePages, h, n
  <1>6. \A r \in Regions : FreeBits(r) = IF ~memmap[r].usable THEN {}
                             ELSE IF r = h THEN n .. memmap[r].length - 1
                             ELSE 0 .. memmap[r].length - 1
    <2> TAKE r \in Regions
    <2>1. CASE ~memmap[r].usable
      BY <2>1, <1>5 DEF FreeBits
    <2>2. CASE memmap[r].usable /\ r = h
      BY <2>2, <1>1, <1>2, <1>3, <1>4, <1>5 DEF FreeBits
    <2>3. CASE memmap[r].usable /\ r # h
      BY <2>3, <1>4, <1>5 DEF FreeBits
    <2> QED
      BY <1>3, <2>1, <2>2, <2>3
  <1>7. \A r \in Regions : bitmap[r] \subseteq Bits(memmap, r)
    <2> TAKE r \in Regions
    <2>1. CASE ~memmap[r].usable
      BY <2>1, <1>5
    <2>2. CASE memmap[r].usable /\ r = h
      <3>1. bitmap[r] = 0 .. n - 1 /\ Bits(memmap, r) = 0 .. memmap[r].length - 1
        BY <2>2, <1>4, <1>5
      <3> QED
        BY <2>2, <3>1, <1>1, <1>2, <1>3
    <2>3. CASE memmap[r].usable /\ r # h
      BY <2>3, <1>5
    <2> QED
      BY <1>3, <2>1, <2>2, <2>3
  <1>8. free_pages \in [Regions -> Nat]
    <2>1. \A r \in Regions : free_pages[r] \in Nat
      BY <1>1, <1>2, <1>3, <1>5
    <2>2. free_pages = [r \in Regions |-> free_pages[r]]
      BY DEF Init
    <2> QED
      BY <2>1, <2>2
  <1>9. CountsAgree
    <2>1. ASSUME NEW r \in Regions PROVE free_pages[r] = Cardinality(FreeBits(r))
      <3>1. CASE ~memmap[r].usable
        BY <3>1, <1>5, <1>6, FS_EmptySet
      <3>2. CASE memmap[r].usable /\ r = h
        <4>1. Cardinality(n .. memmap[r].length - 1) = memmap[r].length - n
          BY <3>2, <1>1, <1>2, <1>3, FS_Interval
        <4> QED
          BY <3>2, <4>1, <1>5, <1>6
      <3>3. CASE memmap[r].usable /\ r # h
        <4>1. Cardinality(0 .. memmap[r].length - 1) = memmap[r].length
          BY <3>3, <1>3, FS_Interval
        <4> QED
          BY <3>3, <4>1, <1>5, <1>6
      <3> QED
        BY <1>3, <3>1, <3>2, <3>3
    <2> QED
      BY <2>1 DEF CountsAgree
  <1>10. TypeOK
    <2>1. 0 \in Regions
      BY NumRegionsAssumption DEF Regions
    <2> QED
      BY <1>1, <1>5, <1>7, <1>8, <2>1 DEF Init, TypeOK, NULL
  <1>11. ReservedMarked
    BY <1>5 DEF ReservedMarked
  <1>12. PagesConserved
    <2>1. OwnFrames(memmap) = memmap[h].base .. memmap[h].base + n - 1
      BY DEF OwnFrames, h, n
    <2>2. ASSUME NEW frame PROVE frame \in FreeFrames <=> frame \in ManagedFrames(memmap)
      <3>1. ASSUME NEW r \in Regions, NEW page \in FreeBits(r), frame = FrameOf(r, page)
            PROVE  frame \in ManagedFrames(memmap)
        <4>1. memmap[r].usable /\ page \in Nat /\ page < memmap[r].length
          BY <3>1, <1>1, <1>10, <1>11, FreeBitIsPage
        <4>2. frame \notin OwnFrames(memmap)
          <5>1. ASSUME frame \in OwnFrames(memmap) PROVE FALSE
            <6>1. frame - memmap[h].base \in Nat /\ frame - memmap[h].base < n
                    /\ frame = memmap[h].base + (frame - memmap[h].base)
              BY <5>1, <2>1, <1>1, <1>2, <1>3
            <6>2. frame = FrameOf(h, frame - memmap[h].base)
              BY <6>1 DEF FrameOf
            <6>3. frame - memmap[h].base < memmap[h].length
              BY <6>1, <1>1, <1>2, <1>3
            <6>4. r = h /\ page = frame - memmap[h].base
              BY <3>1, <4>1, <6>1, <6>2, <6>3, <1>1, <1>2, FramesDiffer
            <6>5. page >= n
              BY <3>1, <4>1, <6>4, <1>1, <1>3, <1>6
            <6> QED
              BY <4>1, <6>1, <6>4, <6>5, <1>1
          <5> QED
            BY <5>1
        <4> QED
          BY <3>1, <4>1, <4>2, <1>1, ManagedMeaning
      <3>2. ASSUME frame \in ManagedFrames(memmap) PROVE frame \in FreeFrames
        <4>1. PICK r \in Regions : memmap[r].usable /\ \E page \in Nat :
                                     page < memmap[r].length /\ frame = FrameOf(r, page)
          BY <3>2, <1>1, ManagedMeaning
        <4>2. PICK page \in Nat : page < memmap[r].length /\ frame = FrameOf(r, page)
          BY <4>1
        <4>3. frame \notin OwnFrames(memmap)
          BY <3>2, <1>1, ManagedMeaning
        <4>4. r = h => page >= n
          <5>1. ASSUME r = h, page < n PROVE FALSE
            BY <5>1, <4>2, <4>3, <2>1, <1>1, <1>2, <1>3 DEF FrameOf
          <5> QED
            BY <5>1, <4>2, <1>1
        <4>5. page \in FreeBits(r)
          BY <4>1, <4>2, <4>4, <1>1, <1>3, <1>6
        <4> QED
          BY <4>2, <4>5, FreeFramesMeaning
      <3> QED
        BY <3>1, <3>2, FreeFramesMeaning
    <2>3. held = {}
      BY DEF Init
    <2>4. FreeFrames = ManagedFrames(memmap)
      BY <2>2
    <2> QED
      BY <2>3, <2>4 DEF PagesConserved
  <1>13. HeldPagesManaged /\ ScannedExhausted
    BY NumRegionsAssumption DEF Init, HeldPagesManaged, ScannedExhausted, Idle
  <1> QED
    BY <1>1, <1>9, <1>10, <1>11, <1>12, <1>13 DEF IndInv
-----------------------------------------------------------------------------
(* One lemma per action.                                                   *)

\* The loop of pmm_alloc indexes pmm_regions[] within its bounds.
LEMMA ScannedRegionType ==
    ASSUME TypeOK, Scanning
    PROVE  ScannedRegion \in Regions /\ scan \in Nat /\ scan < NumRegions
  <1>1. scan \in Nat /\ scan < NumRegions /\ region_cache \in Nat
    BY NumRegionsAssumption DEF TypeOK, Scanning, Idle, Regions
  <1>2. (scan + region_cache) % NumRegions \in 0 .. NumRegions - 1
    BY <1>1, NumRegionsAssumption, ModuloRange
  <1> QED
    BY <1>1, <1>2 DEF ScannedRegion, Regions

\* pmm_alloc is idle outside its loop.
LEMMA IdleIsNoIndex == Idle \notin 0 .. NumRegions /\ 0 \in 0 .. NumRegions
  BY NumRegionsAssumption DEF Idle

\* Entering pmm_alloc changes no page and no counter.
LEMMA AllocCallStep == IndInv /\ AllocCall => IndInv' /\ UNCHANGED <<FreeFrames, held, ptr>>
  <1> SUFFICES ASSUME IndInv, AllocCall PROVE IndInv' /\ UNCHANGED <<FreeFrames, held, ptr>>
    OBVIOUS
  <1>1. scan' = 0 /\ UNCHANGED <<memmap, bitmap, free_pages, region_cache, bitmap_cache, ptr, held>>
    BY DEF AllocCall
  <1>2. \A r \in Regions : FreeBits(r)' = FreeBits(r)
    BY <1>1 DEF FreeBits
  <1>3. FreeFrames' = FreeFrames
    BY <1>1, <1>2 DEF FreeFrames, FrameOf
  <1>4. TypeOK'
    BY <1>1, IdleIsNoIndex DEF IndInv, TypeOK
  <1>5. ScannedExhausted'
    BY <1>1 DEF ScannedExhausted
  <1>6. ReservedMarked' /\ CountsAgree' /\ PagesConserved' /\ HeldPagesManaged'
    BY <1>1, <1>2, <1>3 DEF IndInv, ReservedMarked, CountsAgree, PagesConserved, HeldPagesManaged
  <1> QED
    BY <1>1, <1>3, <1>4, <1>5, <1>6 DEF IndInv

\* A region that is skipped has a zero counter, so it joins the exhausted ones.
LEMMA SkipRegionStep == IndInv /\ SkipRegion => IndInv' /\ UNCHANGED <<FreeFrames, held, ptr>>
  <1> SUFFICES ASSUME IndInv, SkipRegion PROVE IndInv' /\ UNCHANGED <<FreeFrames, held, ptr>>
    OBVIOUS
  <1>1. /\ Scanning /\ free_pages[ScannedRegion] = 0 /\ scan' = scan + 1
        /\ UNCHANGED <<memmap, bitmap, free_pages, region_cache, bitmap_cache, ptr, held>>
    BY DEF SkipRegion
  <1>2. \A r \in Regions : FreeBits(r)' = FreeBits(r)
    BY <1>1 DEF FreeBits
  <1>3. FreeFrames' = FreeFrames
    BY <1>1, <1>2 DEF FreeFrames, FrameOf
  <1>4. scan \in Nat /\ scan < NumRegions
    BY <1>1, ScannedRegionType DEF IndInv
  <1>5. scan' \in 0 .. NumRegions
    BY <1>1, <1>4, NumRegionsAssumption
  <1>6. TypeOK'
    BY <1>1, <1>5 DEF IndInv, TypeOK
  <1>7. ScannedExhausted'
    <2>1. ASSUME NEW k \in 0 .. scan' - 1
          PROVE  free_pages'[(k + region_cache') % NumRegions] = 0
      <3>1. CASE k = scan
        BY <3>1, <1>1 DEF ScannedRegion
      <3>2. CASE k # scan
        <4>1. k \in 0 .. scan - 1
          BY <3>2, <1>1, <1>4
        <4>2. scan \in 0 .. NumRegions
          BY <1>4, NumRegionsAssumption
        <4> QED
          BY <4>1, <4>2, <1>1 DEF IndInv, ScannedExhausted
      <3> QED
        BY <3>1, <3>2
    <2> QED
      BY <2>1 DEF ScannedExhausted
  <1>8. ReservedMarked' /\ CountsAgree' /\ PagesConserved' /\ HeldPagesManaged'
    BY <1>1, <1>2, <1>3 DEF IndInv, ReservedMarked, CountsAgree, PagesConserved, HeldPagesManaged
  <1> QED
    BY <1>1, <1>3, <1>6, <1>7, <1>8 DEF IndInv

\* A page is taken: a managed one that nobody holds.
LEMMA TakePageStep ==
    IndInv /\ TakePage =>
      /\ IndInv'
      /\ ptr' \in FreeFrames /\ ptr' \notin held /\ ptr' # NULL
      /\ FreeFrames' = FreeFrames \ {ptr'}
      /\ held' = held \union {ptr'}
  <1> SUFFICES ASSUME IndInv, TakePage
               PROVE  /\ IndInv'
                      /\ ptr' \in FreeFrames /\ ptr' \notin held /\ ptr' # NULL
                      /\ FreeFrames' = FreeFrames \ {ptr'}
                      /\ held' = held \union {ptr'}
    OBVIOUS
  <1> DEFINE r == ScannedRegion
  <1>1. TypeOK /\ NoPadding(memmap) /\ ReservedMarked /\ CountsAgree /\ PagesConserved
          /\ HeldPagesManaged
    BY DEF IndInv
  <1>2. r \in Regions
    BY <1>1, ScannedRegionType DEF TakePage
  <1>3. PICK byte \in 0 .. BitmapSize(memmap, r) - 1 :
          /\ bitmap_cache' = byte
          /\ \E bit \in ByteBits(byte) :
               /\ IsFoundBit(r, byte, bit)
               /\ MarkPageUsed(r, FrameOf(r, bit))
               /\ ptr' = FrameOf(r, bit)
               /\ held' = held \union {FrameOf(r, bit)}
    BY DEF TakePage
  <1>4. PICK bit \in ByteBits(byte) :
          /\ IsFoundBit(r, byte, bit)
          /\ MarkPageUsed(r, FrameOf(r, bit))
          /\ ptr' = FrameOf(r, bit)
          /\ held' = held \union {FrameOf(r, bit)}
    BY <1>3
  <1>5. region_cache' = r /\ scan' = Idle /\ UNCHANGED memmap
    BY DEF TakePage
  <1> HIDE DEF r
  <1>6. BitmapSize(memmap, r) \in Nat
    BY <1>1, <1>2, BitmapSizeType DEF TypeOK
  <1>7. bit \in FreeBits(r)
    <2>1. bit \in Bits(memmap, r)
      BY <1>6, ByteInBitmap DEF Bits
    <2> QED
      BY <2>1, <1>4 DEF FreeBits, IsFoundBit
  <1>8. /\ \A s \in Regions : bitmap'[s] \subseteq Bits(memmap, s)
        /\ DOMAIN bitmap' = Regions
        /\ free_pages' \in [Regions -> Nat]
        /\ ReservedMarked'
        /\ CountsAgree'
        /\ FreeFrames' = FreeFrames \ {ptr'}
    BY <1>1, <1>2, <1>4, <1>5, <1>7, MarkUsedEffect
  <1>9. ptr' \in FreeFrames
    BY <1>2, <1>4, <1>7, FreeFramesMeaning
  <1>10. ptr' \in Nat /\ ptr' > 0
    BY <1>1, <1>2, <1>4, <1>7, FreeBitIsPage
  <1>11. ptr' \in ManagedFrames(memmap) /\ ptr' \notin held
    BY <1>1, <1>9 DEF PagesConserved
  <1>12. held' = held \union {ptr'}
    BY <1>4
  <1>13. TypeOK'
    <2>1. held' \in SUBSET Nat
      BY <1>1, <1>10, <1>12 DEF TypeOK
    <2>2. bitmap_cache' \in Nat
      BY <1>3, <1>6
    <2> QED
      BY <1>1, <1>2, <1>5, <1>8, <1>10, <2>1, <2>2 DEF TypeOK
  <1>14. PagesConserved' /\ HeldPagesManaged'
    BY <1>1, <1>5, <1>8, <1>11, <1>12 DEF PagesConserved, HeldPagesManaged
  <1>15. ScannedExhausted'
    BY <1>5, IdleIsNoIndex DEF ScannedExhausted
  <1> QED
    BY <1>1, <1>5, <1>8, <1>9, <1>10, <1>11, <1>12, <1>13, <1>14, <1>15 DEF IndInv, NULL

\* As counters and bitmaps agree, pmm_alloc never searches a bitmap in vain.
LEMMA FindNothingStep == IndInv => ~FindNothing
  <1> SUFFICES ASSUME IndInv, FindNothing PROVE FALSE
    OBVIOUS
  <1> DEFINE r == ScannedRegion
  <1>1. r \in Regions
    BY ScannedRegionType DEF FindNothing, IndInv
  <1>2. free_pages[r] # 0
          /\ \A byte \in 0 .. BitmapSize(memmap, r) - 1 : ByteFull(r, byte)
    BY DEF FindNothing
  <1> HIDE DEF r
  <1>3. Cardinality(FreeBits(r)) # 0
    BY <1>1, <1>2 DEF IndInv, CountsAgree
  <1>4. PICK bit : bit \in FreeBits(r)
    BY <1>3, FS_EmptySet
  <1>5. BitmapSize(memmap, r) \in Nat
    BY <1>1, BitmapSizeType DEF IndInv, TypeOK
  <1>6. PICK byte \in 0 .. BitmapSize(memmap, r) - 1 : bit \in ByteBits(byte)
    BY <1>4, <1>5, BitHasByte DEF FreeBits, Bits
  <1> QED
    BY <1>2, <1>4, <1>6 DEF ByteFull, FreeBits

\* When all regions have been looked at, none has a free page.
LEMMA AllScannedMeansFull ==
    ASSUME IndInv, scan = NumRegions
    PROVE  FreeFrames = {}
  <1>1. ASSUME NEW r \in Regions PROVE FreeBits(r) = {}
    <2>1. r \in Nat /\ r < NumRegions /\ region_cache \in Nat /\ region_cache < NumRegions
            /\ NumRegions \in Nat \ {0}
      BY NumRegionsAssumption DEF IndInv, TypeOK, Regions
    <2>2. \E k \in 0 .. NumRegions - 1 : (k + region_cache) % NumRegions = r
      <3>1. CASE region_cache <= r
        <4>1. r - region_cache \in 0 .. NumRegions - 1
          BY <2>1, <3>1
        <4>2. (r - region_cache) + region_cache = r
          BY <2>1
        <4>3. r % NumRegions = r
          BY <2>1, ModuloWraps
        <4> QED
          BY <4>1, <4>2, <4>3
      <3>2. CASE r < region_cache
        <4>1. r - region_cache + NumRegions \in 0 .. NumRegions - 1
          BY <2>1, <3>2
        <4>2. (r - region_cache + NumRegions) + region_cache = r + NumRegions
          BY <2>1
        <4>3. (r + NumRegions) % NumRegions = r
          <5>1. r + NumRegions \in Nat /\ r + NumRegions < 2 * NumRegions /\ ~(r + NumRegions < NumRegions)
            BY <2>1
          <5>2. (r + NumRegions) % NumRegions = (r + NumRegions) - NumRegions
            BY <2>1, <5>1, ModuloWraps
          <5> QED
            BY <2>1, <5>2
        <4> QED
          BY <4>1, <4>2, <4>3
      <3> QED
        BY <2>1, <3>1, <3>2
    <2>3. free_pages[r] = 0
      <3>1. \A k \in 0 .. NumRegions - 1 : free_pages[(k + region_cache) % NumRegions] = 0
        <4>1. NumRegions \in 0 .. NumRegions
          BY <2>1
        <4> QED
          BY <4>1 DEF IndInv, ScannedExhausted
      <3>2. PICK k \in 0 .. NumRegions - 1 : (k + region_cache) % NumRegions = r
        BY <2>2
      <3> QED
        BY <3>1, <3>2
    <2>4. IsFiniteSet(FreeBits(r))
      <3>1. IsFiniteSet(Bits(memmap, r))
        BY BitmapSizeType DEF IndInv, TypeOK
      <3> QED
        BY <3>1, FS_Subset DEF FreeBits
    <2> QED
      BY <2>3, <2>4, FS_EmptySet DEF IndInv, CountsAgree
  <1>2. ASSUME NEW frame \in FreeFrames PROVE FALSE
    BY <1>1, <1>2, FreeFramesMeaning
  <1> QED
    BY <1>2

\* The loop ends without a page only when all regions are exhausted.
LEMMA AllocNullStep ==
    IndInv /\ AllocNull => IndInv' /\ FreeFrames = {} /\ ptr' = NULL /\ UNCHANGED <<FreeFrames, held>>
  <1> SUFFICES ASSUME IndInv, AllocNull
               PROVE  IndInv' /\ FreeFrames = {} /\ ptr' = NULL /\ UNCHANGED <<FreeFrames, held>>
    OBVIOUS
  <1>1. /\ scan = NumRegions /\ scan' = Idle /\ ptr' = NULL
        /\ UNCHANGED <<memmap, bitmap, free_pages, region_cache, bitmap_cache, held>>
    BY DEF AllocNull
  <1>2. FreeFrames = {}
    BY <1>1, AllScannedMeansFull
  <1>3. \A r \in Regions : FreeBits(r)' = FreeBits(r)
    BY <1>1 DEF FreeBits
  <1>4. FreeFrames' = FreeFrames
    BY <1>1, <1>3 DEF FreeFrames, FrameOf
  <1>5. TypeOK'
    BY <1>1 DEF IndInv, TypeOK, NULL
  <1>6. ScannedExhausted'
    BY <1>1, IdleIsNoIndex DEF ScannedExhausted
  <1>7. ReservedMarked' /\ CountsAgree' /\ PagesConserved' /\ HeldPagesManaged'
    BY <1>1, <1>3, <1>4 DEF IndInv, ReservedMarked, CountsAgree, PagesConserved, HeldPagesManaged
  <1> QED
    BY <1>1, <1>2, <1>4, <1>5, <1>6, <1>7 DEF IndInv

\* A page that is held is given back, to the region it was taken from.
LEMMA FreeStep ==
    ASSUME IndInv, NEW frame \in held, PmmFree(frame)
    PROVE  /\ IndInv'
           /\ FreeFrames' = FreeFrames \union {frame}
           /\ held' = held \ {frame}
           /\ UNCHANGED <<ptr, scan>>
  <1>1. TypeOK /\ NoPadding(memmap) /\ ReservedMarked /\ CountsAgree /\ PagesConserved
          /\ HeldPagesManaged /\ IsMemoryMap(memmap)
    BY DEF IndInv, TypeOK
  <1>2. /\ held' = held \ {frame}
        /\ UNCHANGED <<memmap, region_cache, bitmap_cache, scan, ptr>>
        /\ scan = Idle
    BY DEF PmmFree
  <1>3. frame \in ManagedFrames(memmap) /\ frame \notin FreeFrames
    BY <1>1 DEF HeldPagesManaged, PagesConserved
  <1>4. PICK r \in Regions : memmap[r].usable /\ \E page \in Nat :
                               page < memmap[r].length /\ frame = FrameOf(r, page)
    BY <1>1, <1>3, ManagedMeaning
  <1>5. PICK page \in Nat : page < memmap[r].length /\ frame = FrameOf(r, page)
    BY <1>4
  <1>6. page \notin FreeBits(r)
    BY <1>1, <1>3, <1>5, FreeFrameHasFreeBit
  <1>7. \A s \in Regions : memmap[s].base \in Nat /\ memmap[s].length \in Nat
    BY <1>1, BitmapSizeType
  <1>8. r \in ContainingRegions(frame)
    BY <1>5, <1>7 DEF ContainingRegions, FrameOf
  <1>9. ASSUME NEW s \in ContainingRegions(frame) PROVE s = r
    <2>1. s \in Regions /\ memmap[s].base <= frame /\ frame < memmap[s].base + memmap[s].length
      BY DEF ContainingRegions
    <2>2. frame \in Nat
      BY <1>5, <1>7 DEF FrameOf
    <2>3. /\ frame - memmap[s].base \in Nat
          /\ frame - memmap[s].base < memmap[s].length
          /\ memmap[s].base + (frame - memmap[s].base) = frame
      BY <2>1, <2>2, <1>7
    <2>4. FrameOf(s, frame - memmap[s].base) = FrameOf(r, page)
      BY <2>3, <1>5 DEF FrameOf
    <2> QED
      BY <2>1, <2>3, <2>4, <1>1, <1>5, FramesDiffer
  <1>10. MarkPageFree(r, frame)
    BY <1>8, <1>9 DEF PmmFree
  <1>11. /\ \A s \in Regions : bitmap'[s] \subseteq Bits(memmap, s)
         /\ DOMAIN bitmap' = Regions
         /\ free_pages' \in [Regions -> Nat]
         /\ ReservedMarked'
         /\ CountsAgree'
         /\ FreeFrames' = FreeFrames \union {frame}
    BY <1>1, <1>2, <1>4, <1>5, <1>6, <1>10, MarkFreeEffect
  <1>12. TypeOK'
    BY <1>1, <1>2, <1>11 DEF TypeOK
  <1>13. PagesConserved' /\ HeldPagesManaged'
    BY <1>1, <1>2, <1>3, <1>11 DEF PagesConserved, HeldPagesManaged
  <1>14. ScannedExhausted'
    BY <1>2, IdleIsNoIndex DEF ScannedExhausted
  <1> QED
    BY <1>1, <1>2, <1>11, <1>12, <1>13, <1>14 DEF IndInv

\* The invariant speaks of the variables only.
LEMMA StutterStep == IndInv /\ UNCHANGED vars => IndInv' /\ UNCHANGED <<FreeFrames, held, ptr, scan>>
  <1> SUFFICES ASSUME IndInv, UNCHANGED vars
               PROVE  IndInv' /\ UNCHANGED <<FreeFrames, held, ptr, scan>>
    OBVIOUS
  <1>1. UNCHANGED <<memmap, bitmap, free_pages, region_cache, bitmap_cache, scan, ptr, held>>
    BY DEF vars
  <1>2. \A r \in Regions : FreeBits(r)' = FreeBits(r)
    BY <1>1 DEF FreeBits
  <1>3. FreeFrames' = FreeFrames
    BY <1>1, <1>2 DEF FreeFrames, FrameOf
  <1>4. TypeOK'
    BY <1>1 DEF IndInv, TypeOK
  <1>5. ScannedExhausted'
    BY <1>1 DEF IndInv, ScannedExhausted
  <1>6. ReservedMarked' /\ CountsAgree' /\ PagesConserved' /\ HeldPagesManaged'
    BY <1>1, <1>2, <1>3 DEF IndInv, ReservedMarked, CountsAgree, PagesConserved, HeldPagesManaged
  <1> QED
    BY <1>1, <1>3, <1>4, <1>5, <1>6 DEF IndInv
-----------------------------------------------------------------------------
(* The theorems.                                                           *)

\* Every step of the allocator preserves the inductive invariant.
LEMMA NextIndInv == IndInv /\ [Next]_vars => IndInv'
  <1> SUFFICES ASSUME IndInv, [Next]_vars PROVE IndInv'
    OBVIOUS
  <1>1. CASE AllocCall
    BY <1>1, AllocCallStep
  <1>2. CASE SkipRegion
    BY <1>2, SkipRegionStep
  <1>3. CASE TakePage
    BY <1>3, TakePageStep
  <1>4. CASE FindNothing
    BY <1>4, FindNothingStep
  <1>5. CASE AllocNull
    BY <1>5, AllocNullStep
  <1>6. CASE Free
    BY <1>6, FreeStep DEF Free
  <1>7. CASE UNCHANGED vars
    BY <1>7, StutterStep
  <1> QED
    BY <1>1, <1>2, <1>3, <1>4, <1>5, <1>6, <1>7 DEF Next, Alloc

\* The inductive invariant of pmm_init, pmm_alloc and pmm_free holds in every state.
THEOREM IndInvCorrect == NoPaddingAnywhere => (Spec => []IndInv)
  BY InitIndInv, NextIndInv, PTL DEF Spec

\* Type correctness: bitmaps, counters and caches keep their ranges.
THEOREM TypeCorrect == NoPaddingAnywhere => (Spec => []TypeOK)
  <1>1. IndInv => TypeOK
    BY DEF IndInv
  <1> QED
    BY <1>1, IndInvCorrect, PTL

\* The counters pmm_alloc trusts are the numbers of clear bits.
THEOREM CountsCorrect == NoPaddingAnywhere => (Spec => []CountsAgree)
  <1>1. IndInv => CountsAgree
    BY DEF IndInv
  <1> QED
    BY <1>1, IndInvCorrect, PTL

\* No page is lost and none is free and in use at once.
THEOREM ConservationCorrect == NoPaddingAnywhere => (Spec => []PagesConserved)
  <1>1. IndInv => PagesConserved
    BY DEF IndInv
  <1> QED
    BY <1>1, IndInvCorrect, PTL

\* Callers are given pages of usable memory outside the PMM's own data only.
THEOREM HeldPagesCorrect == NoPaddingAnywhere => (Spec => []HeldPagesManaged)
  <1>1. IndInv => HeldPagesManaged
    BY DEF IndInv
  <1> QED
    BY <1>1, IndInvCorrect, PTL

\* A return of pmm_alloc is the end of its loop, with a page or without.
LEMMA ReturnStep ==
    ASSUME IndInv, [Next]_vars, AllocReturns
    PROVE  TakePage \/ AllocNull
  <1>1. CASE AllocCall
    BY <1>1 DEF AllocCall, AllocReturns
  <1>2. CASE SkipRegion
    <2>1. scan' # Idle
      <3>1. scan \in Nat /\ scan < NumRegions /\ scan' = scan + 1
        BY <1>2, ScannedRegionType DEF SkipRegion, IndInv
      <3> QED
        BY <3>1, NumRegionsAssumption DEF Idle
    <2> QED
      BY <2>1 DEF AllocReturns
  <1>3. CASE FindNothing
    BY <1>3, FindNothingStep
  <1>4. CASE Free
    BY <1>4 DEF Free, PmmFree, AllocReturns
  <1>5. CASE UNCHANGED vars
    BY <1>5 DEF vars, AllocReturns
  <1> QED
    BY <1>1, <1>2, <1>3, <1>4, <1>5 DEF Next, Alloc

\* pmm_alloc never returns a page that somebody still holds.
THEOREM HandedOutOnceCorrect == NoPaddingAnywhere => (Spec => HandedOutOnce)
  <1>1. IndInv /\ [Next]_vars => [AllocReturns /\ ptr' # NULL => ptr' \notin held]_vars
    <2> SUFFICES ASSUME IndInv, [Next]_vars, AllocReturns, ptr' # NULL
                 PROVE  ptr' \notin held
      OBVIOUS
    <2>1. TakePage \/ AllocNull
      BY ReturnStep
    <2>2. ~AllocNull
      BY DEF AllocNull
    <2> QED
      BY <2>1, <2>2, TakePageStep
  <1> QED
    BY <1>1, IndInvCorrect, PTL DEF Spec, HandedOutOnce

\* pmm_alloc returns NULL only when no page is left.
THEOREM NullMeansNoMemoryCorrect == NoPaddingAnywhere => (Spec => NullMeansNoMemory)
  <1>1. IndInv /\ [Next]_vars => [AllocReturns /\ ptr' = NULL => FreeFrames = {}]_vars
    <2> SUFFICES ASSUME IndInv, [Next]_vars, AllocReturns, ptr' = NULL
                 PROVE  FreeFrames = {}
      OBVIOUS
    <2>1. TakePage \/ AllocNull
      BY ReturnStep
    <2>2. ~TakePage
      BY TakePageStep
    <2> QED
      BY <2>1, <2>2, AllocNullStep
  <1> QED
    BY <1>1, IndInvCorrect, PTL DEF Spec, NullMeansNoMemory

\* The bitmaps, counters and caches implement the abstract allocator: every step
\* of pmm_alloc and pmm_free is a step of it or changes nothing it speaks of.
THEOREM ImplementsAllocatorCorrect == NoPaddingAnywhere => (Spec => ImplementsAllocator)
  <1>1. IndInv /\ Init => Allocator!Init
    <2> SUFFICES ASSUME IndInv, Init PROVE Allocator!Init
      OBVIOUS
    <2>1. FreeFrames \in SUBSET Nat
      <3>1. ASSUME NEW frame \in FreeFrames PROVE frame \in Nat
        <4>1. PICK r \in Regions : \E page \in FreeBits(r) : frame = FrameOf(r, page)
          BY FreeFramesMeaning
        <4> QED
          BY <4>1, FreeBitIsPage DEF IndInv
      <3> QED
        BY <3>1
    <2> QED
      BY <2>1 DEF Init, Allocator!Init
  <1>2. IndInv /\ [Next]_vars => [Allocator!Next]_(Allocator!vars)
    <2> SUFFICES ASSUME IndInv, [Next]_vars PROVE [Allocator!Next]_(Allocator!vars)
      OBVIOUS
    <2>1. CASE AllocCall
      BY <2>1, AllocCallStep DEF Allocator!vars
    <2>2. CASE SkipRegion
      BY <2>2, SkipRegionStep DEF Allocator!vars
    <2>3. CASE TakePage
      BY <2>3, TakePageStep DEF Allocator!Next, Allocator!Alloc
    <2>4. CASE FindNothing
      BY <2>4, FindNothingStep
    <2>5. CASE AllocNull
      BY <2>5, AllocNullStep DEF Allocator!Next, Allocator!AllocNull
    <2>6. CASE Free
      <3>1. PICK frame \in held : PmmFree(frame)
        BY <2>6 DEF Free
      <3> QED
        BY <3>1, FreeStep DEF Allocator!Next, Allocator!Free
    <2>7. CASE UNCHANGED vars
      BY <2>7, StutterStep DEF Allocator!vars
    <2> QED
      BY <2>1, <2>2, <2>3, <2>4, <2>5, <2>6, <2>7 DEF Next, Alloc
  <1>3. NoPaddingAnywhere /\ Init => IndInv
    BY InitIndInv
  <1> QED
    BY <1>1, <1>2, <1>3, IndInvCorrect, PTL DEF Spec, ImplementsAllocator, Allocator!Spec

-----------------------------------------------------------------------------
(* The PMM's own data.                                                     *)

\* The pages that the structs and all bitmaps take, each bitmap rounded up to
\* whole bytes; pmm_init reserves those for the rounded sum.
DataPages(map) ==
    CeilDiv(NumRegions * StructSize + SumOf([r \in Regions |-> BitmapSize(map, r)]), PageSize)

\* Where the lengths are multiples of eight pages, the data fit: the rounding of
\* pmm_get_num_required_pages is then that of the bitmaps.
LEMMA WholeBytesFit ==
    ASSUME NEW map, IsMemoryMap(map), WholeBytes(map)
    PROVE  DataPages(map) <= RequiredPages(map)
  <1>1. PICK sizes \in [Regions -> Nat] : sizes = [r \in Regions |-> BitmapSize(map, r)]
    BY BitmapSizeType
  <1>2. PICK lengths \in [Regions -> Nat] : lengths = [r \in Regions |-> map[r].length]
    BY BitmapSizeType
  <1>3. \A r \in Regions : lengths[r] = sizes[r] * BitsPerByte
    BY <1>1, <1>2 DEF WholeBytes
  <1>4. BitsPerByte \in Nat \ {0} /\ BitsPerByte \in Nat
    BY SizesAssumption
  <1>5. SumOf(sizes) \in Nat /\ SumOf(lengths) = SumOf(sizes) * BitsPerByte
    BY <1>3, <1>4, SumType, SumOfMultiples
  <1>6. CeilDiv(SumOf(lengths), BitsPerByte) = SumOf(sizes)
    BY <1>4, <1>5, CeilDivOfMultiple
  <1>7. RequiredPages(map) = CeilDiv(NumRegions * StructSize + SumOf(sizes), PageSize)
    BY <1>2, <1>6 DEF RequiredPages
  <1>8. RequiredPages(map) \in Nat
    BY RequiredPagesType
  <1> QED
    BY <1>1, <1>7, <1>8 DEF DataPages

\* Rounding every region's length costs less than one unit for each.
LEMMA SumsRoundedUp ==
    ASSUME NEW f \in [Regions -> Nat], NEW g \in [Regions -> Nat], NEW b \in Nat,
           \A r \in Regions : f[r] * (b + 1) <= g[r] + b
    PROVE  SumOf(f) * (b + 1) <= SumOf(g) + NumRegions * b
  <1>1. PICK s : AreSums(f, NumRegions, s) /\ SumOf(f) = s[NumRegions]
    BY SumIsLast
  <1>2. PICK t : AreSums(g, NumRegions, t) /\ SumOf(g) = t[NumRegions]
    BY SumIsLast
  <1> DEFINE T == {k \in 0 .. NumRegions :
                     s[k] \in Nat /\ t[k] \in Nat /\ s[k] * (b + 1) <= t[k] + k * b}
  <1>3. 0 \in T
    BY <1>1, <1>2, SumsStep, NumRegionsAssumption
  <1>4. ASSUME NEW k \in 0 .. NumRegions - 1, k \in T PROVE k + 1 \in T
    <2>1. k + 1 \in 0 .. NumRegions /\ k \in Regions /\ k \in Nat
      BY NumRegionsAssumption DEF Regions
    <2>2. s[k + 1] = s[k] + f[k] /\ t[k + 1] = t[k] + g[k]
      BY <1>1, <1>2, SumsStep
    <2>3. PICK x \in Nat, y \in Nat : x = s[k] /\ y = t[k] /\ x * (b + 1) <= y + k * b
      BY <1>4
    <2>4. PICK u \in Nat, v \in Nat : u = f[k] /\ v = g[k] /\ u * (b + 1) <= v + b
      BY <2>1
    <2>5. (x + u) * (b + 1) <= (y + v) + (k + 1) * b
      <3>1. (x + u) * (b + 1) = x * (b + 1) + u * (b + 1) /\ (k + 1) * b = k * b + b
        BY <2>1, SMT
      <3>2. PICK p \in Nat, q \in Nat, m \in Nat :
              p = x * (b + 1) /\ q = u * (b + 1) /\ m = k * b
        BY <2>1
      <3> QED
        BY <2>3, <2>4, <3>1, <3>2
    <2> QED
      BY <2>1, <2>2, <2>3, <2>4, <2>5
  <1> HIDE DEF T
  <1>5. NumRegions \in T
    BY <1>3, <1>4, UpTo, NumRegionsAssumption
  <1> QED
    BY <1>1, <1>2, <1>5 DEF T

\* Both bounds of a quotient that is rounded up.
LEMMA CeilDivBounds ==
    ASSUME NEW a \in Nat, NEW b \in Nat \ {0}, NEW q \in Nat, q = CeilDiv(a, b)
    PROVE  a <= q * b /\ q * b <= a + b - 1
  <1>1. PICK m \in Nat : m = a + b - 1
    OBVIOUS
  <1>2. q = m \div b
    BY <1>1 DEF CeilDiv
  <1>3. q * b <= m /\ m < q * b + b
    BY <1>2, SMT
  <1>4. PICK n \in Nat : n = q * b
    OBVIOUS
  <1> QED
    BY <1>1, <1>3, <1>4

\* One bitmap for each region takes less than a byte more for each than one for all.
LEMMA BytesNearlyFit ==
    ASSUME NEW map, IsMemoryMap(map), NEW sizes \in Nat, NEW bytes \in Nat,
           sizes = SumOf([r \in Regions |-> BitmapSize(map, r)]),
           bytes = CeilDiv(SumOf([r \in Regions |-> map[r].length]), BitsPerByte)
    PROVE  sizes <= bytes + (NumRegions - 1)
  <1>1. PICK b \in Nat : b + 1 = BitsPerByte
    <2>1. BitsPerByte \in Nat /\ BitsPerByte - 1 \in Nat /\ (BitsPerByte - 1) + 1 = BitsPerByte
      BY SizesAssumption
    <2> QED
      BY <2>1
  <1> DEFINE f == [r \in Regions |-> BitmapSize(map, r)]
             g == [r \in Regions |-> map[r].length]
  <1>2. f \in [Regions -> Nat] /\ g \in [Regions -> Nat]
    BY BitmapSizeType
  <1>3. ASSUME NEW r \in Regions PROVE f[r] * (b + 1) <= g[r] + b
    <2>1. PICK len \in Nat, size \in Nat :
            len = map[r].length /\ size = BitmapSize(map, r) /\ size = CeilDiv(len, BitsPerByte)
      BY BitmapSizeType DEF BitmapSize
    <2>2. size * BitsPerByte <= len + BitsPerByte - 1
      BY <2>1, CeilDivBounds, SizesAssumption
    <2>3. len + (b + 1) - 1 = len + b
      OBVIOUS
    <2> QED
      BY <1>1, <2>1, <2>2, <2>3
  <1>4. PICK total \in Nat : total = SumOf(g)
    BY <1>2, SumType
  <1> HIDE DEF f, g
  <1>5. SumOf(f) * (b + 1) <= SumOf(g) + NumRegions * b
    BY <1>2, <1>3, SumsRoundedUp
  <1>6. sizes * (b + 1) <= total + NumRegions * b
    BY <1>4, <1>5 DEF f
  <1>7. total <= bytes * (b + 1)
    BY <1>1, <1>4, CeilDivBounds, SizesAssumption DEF g
  <1>8. NumRegions \in Nat /\ NumRegions - 1 \in Nat
    BY NumRegionsAssumption
  <1>9. ASSUME sizes > bytes + (NumRegions - 1) PROVE FALSE
    <2>1. sizes >= bytes + NumRegions
      BY <1>8, <1>9
    <2>2. PICK d \in Nat : sizes = bytes + NumRegions + d
      <3>1. sizes - (bytes + NumRegions) \in Nat
        BY <1>8, <2>1
      <3> QED
        BY <1>8, <3>1
    <2>3. sizes * (b + 1) = bytes * (b + 1) + NumRegions * b + NumRegions + d * (b + 1)
      <3>1. PICK n \in Nat : n = NumRegions
        BY <1>8
      <3>2. (bytes + n + d) * (b + 1) = bytes * (b + 1) + n * b + n + d * (b + 1)
        BY SMT
      <3> QED
        BY <2>2, <3>1, <3>2
    <2>4. PICK p \in Nat, q \in Nat, m \in Nat :
            p = bytes * (b + 1) /\ q = NumRegions * b /\ m = d * (b + 1)
      <3>1. bytes * (b + 1) \in Nat /\ NumRegions * b \in Nat /\ d * (b + 1) \in Nat
        BY <1>8
      <3> QED
        BY <3>1
    <2>5. p + q + NumRegions + m <= total + q /\ total <= p
      BY <1>6, <1>7, <2>3, <2>4
    <2> QED
      BY <1>8, <2>4, <2>5, NumRegionsAssumption
  <1> QED
    BY <1>8, <1>9

\* Some bytes more need at most the pages that hold those bytes alone.
LEMMA CeilDivOfSum ==
    ASSUME NEW x \in Nat, NEW y \in Nat, NEW z \in Nat, NEW b \in Nat \ {0}, z <= x + y
    PROVE  CeilDiv(z, b) <= CeilDiv(x, b) + CeilDiv(y, b)
  <1>1. PICK p \in Nat, q \in Nat, r \in Nat :
          p = CeilDiv(x, b) /\ q = CeilDiv(y, b) /\ r = CeilDiv(z, b)
    BY CeilDivType
  <1>2. x <= p * b /\ y <= q * b /\ r * b <= z + b - 1
    BY <1>1, CeilDivBounds
  <1>3. ASSUME r >= p + q + 1 PROVE FALSE
    <2>1. PICK d \in Nat : r = p + q + 1 + d
      <3>1. r - (p + q + 1) \in Nat
        BY <1>3
      <3> QED
        BY <3>1
    <2>2. r * b = p * b + q * b + b + d * b
      BY <2>1, SMT
    <2>3. PICK k \in Nat, m \in Nat, n \in Nat : k = p * b /\ m = q * b /\ n = d * b
      OBVIOUS
    <2> QED
      BY <1>2, <2>2, <2>3
  <1> QED
    BY <1>1, <1>3

\* All in all the data reach beyond what is reserved by the rounding, at most.
LEMMA DataNearlyFit ==
    ASSUME NEW map, IsMemoryMap(map)
    PROVE  /\ DataPages(map) \in Nat
           /\ RoundingPages \in Nat
           /\ DataPages(map) <= RequiredPages(map) + RoundingPages
  <1>1. [r \in Regions |-> BitmapSize(map, r)] \in [Regions -> Nat]
        /\ [r \in Regions |-> map[r].length] \in [Regions -> Nat]
    BY BitmapSizeType
  <1>2. PICK sizes \in Nat : sizes = SumOf([r \in Regions |-> BitmapSize(map, r)])
    BY <1>1, SumType
  <1>3. PICK pages \in Nat : pages = SumOf([r \in Regions |-> map[r].length])
    BY <1>1, SumType
  <1>4. PICK bytes \in Nat : bytes = CeilDiv(pages, BitsPerByte)
    BY CeilDivType, SizesAssumption
  <1>5. PICK structs \in Nat : structs = NumRegions * StructSize
    BY NumRegionsAssumption, SizesAssumption
  <1>6. NumRegions - 1 \in Nat
    BY NumRegionsAssumption
  <1>7. sizes <= bytes + (NumRegions - 1)
    BY <1>2, <1>3, <1>4, BytesNearlyFit
  <1>8. structs + sizes <= (structs + bytes) + (NumRegions - 1)
    BY <1>6, <1>7
  <1>9. CeilDiv(structs + sizes, PageSize)
          <= CeilDiv(structs + bytes, PageSize) + CeilDiv(NumRegions - 1, PageSize)
    <2>1. PICK x \in Nat, y \in Nat, z \in Nat :
            x = structs + bytes /\ y = NumRegions - 1 /\ z = structs + sizes
      BY <1>6
    <2>2. PageSize \in Nat \ {0} /\ z <= x + y
      BY <1>8, <2>1, SizesAssumption
    <2>3. CeilDiv(z, PageSize) <= CeilDiv(x, PageSize) + CeilDiv(y, PageSize)
      BY <2>2, CeilDivOfSum
    <2> QED
      BY <2>1, <2>3
  <1>10. /\ DataPages(map) = CeilDiv(structs + sizes, PageSize)
         /\ RequiredPages(map) = CeilDiv(structs + bytes, PageSize)
    BY <1>2, <1>3, <1>4, <1>5 DEF DataPages, RequiredPages
  <1>11. /\ CeilDiv(structs + sizes, PageSize) \in Nat
         /\ CeilDiv(NumRegions - 1, PageSize) \in Nat
         /\ CeilDiv(structs + bytes, PageSize) \in Nat
    <2>1. structs + sizes \in Nat /\ structs + bytes \in Nat /\ PageSize \in Nat \ {0}
      BY SizesAssumption
    <2> QED
      BY <1>6, <2>1, CeilDivType
  <1> QED
    BY <1>9, <1>10, <1>11 DEF RoundingPages

\* A page of the data outside the marked pages is one of the last, and there is
\* none where the lengths are whole bytes.
DataBeyondOwn(map) ==
    \A frame \in DataFrames(map) \ OwnFrames(map) :
        ~WholeBytes(map) /\ frame + RoundingPages \notin DataFrames(map)

LEMMA DataMeaning ==
    ASSUME NEW map \in MemoryMaps, Home(map) \in Regions
    PROVE  DataBeyondOwn(map)
  <1>1. IsMemoryMap(map)
    BY MemoryMapsAssumption
  <1>2. PICK base \in Nat : base = map[Home(map)].base
    BY <1>1, BitmapSizeType
  <1>3. PICK own \in Nat : own = RequiredPages(map)
    BY <1>1, RequiredPagesType
  <1>4. PICK data \in Nat, more \in Nat :
          data = DataPages(map) /\ more = RoundingPages /\ data <= own + more
    BY <1>1, <1>3, DataNearlyFit
  <1>5. DataFrames(map) = base .. base + data - 1
    BY <1>2, <1>4 DEF DataFrames, DataPages
  <1>6. OwnFrames(map) = base .. base + own - 1
    BY <1>2, <1>3 DEF OwnFrames
  <1>7. WholeBytes(map) => data <= own
    BY <1>1, <1>3, <1>4, WholeBytesFit
  <1>8. ASSUME NEW frame \in DataFrames(map) \ OwnFrames(map)
        PROVE  ~WholeBytes(map) /\ frame + RoundingPages \notin DataFrames(map)
    <2>1. frame \in Nat /\ frame >= base + own /\ frame <= base + data - 1
      BY <1>5, <1>6, <1>8
    <2>2. ~(frame + more <= base + data - 1)
      BY <1>4, <2>1
    <2> QED
      BY <1>4, <1>5, <1>7, <2>1, <2>2
  <1> QED
    BY <1>8 DEF DataBeyondOwn

\* Of the structs and the bitmaps nothing is handed out but the last pages, and
\* those only because each bitmap is rounded up by itself.
THEOREM DataProtectedCorrect == NoPaddingAnywhere => (Spec => []DataProtected)
  <1> DEFINE Beyond == DataBeyondOwn(memmap)
  <1>1. Init => Beyond
    <2> SUFFICES ASSUME Init PROVE Beyond
      OBVIOUS
    <2>1. memmap \in MemoryMaps /\ Suitable(memmap) # {}
      BY DEF Init
    <2>2. Home(memmap) \in Regions
      BY <2>1, HomeIsSuitable DEF Suitable
    <2> QED
      BY <2>1, <2>2, DataMeaning
  <1>2. Beyond /\ [Next]_vars => Beyond'
    <2>1. [Next]_vars => memmap' = memmap
      BY DEF Next, Alloc, AllocCall, SkipRegion, TakePage, FindNothing, AllocNull,
             Free, PmmFree, vars
    <2> QED
      BY <2>1 DEF DataBeyondOwn, DataFrames, OwnFrames, WholeBytes, BitmapSize, Home,
                  Suitable, RequiredPages
  <1>3. HeldPagesManaged /\ Beyond => DataProtected
    BY DEF HeldPagesManaged, ManagedFrames, DataProtected, DataBeyondOwn
  <1> HIDE DEF Beyond
  <1> QED
    BY <1>1, <1>2, <1>3, HeldPagesCorrect, PTL DEF Spec

\* None at all where the regions, reserved ones included, are multiples of eight
\* pages long.
THEOREM AlignedDataProtected ==
    (\A map \in MemoryMaps : WholeBytes(map))
      => (Spec => [](held \cap DataFrames(memmap) = {}))
  <1>1. (\A map \in MemoryMaps : WholeBytes(map)) => NoPaddingAnywhere
    BY DEF NoPaddingAnywhere, NoPadding, WholeBytes
  <1>2. (\A map \in MemoryMaps : WholeBytes(map)) /\ Init => WholeBytes(memmap)
    BY DEF Init
  <1>3. WholeBytes(memmap) /\ [Next]_vars => WholeBytes(memmap)'
    <2>1. [Next]_vars => memmap' = memmap
      BY DEF Next, Alloc, AllocCall, SkipRegion, TakePage, FindNothing, AllocNull,
             Free, PmmFree, vars
    <2> QED
      BY <2>1 DEF WholeBytes, BitmapSize
  <1>4. WholeBytes(memmap) /\ DataProtected => held \cap DataFrames(memmap) = {}
    BY DEF DataProtected
  <1> QED
    BY <1>1, <1>2, <1>3, <1>4, DataProtectedCorrect, PTL DEF Spec

-----------------------------------------------------------------------------
(* Careless callers, who free any page of the memory map.                  *)

\* The bits behind a region's last page stay set.
PaddingMarked == \A r \in Regions : \A bit \in FreeBits(r) : bit < memmap[r].length

CarelessInv == TypeOK /\ PaddingMarked /\ CountNeverTooSmall

LEMMA InitCarelessInv == NoPaddingAnywhere /\ Init => CarelessInv
  <1> SUFFICES ASSUME NoPaddingAnywhere, Init PROVE CarelessInv
    OBVIOUS
  <1>1. IndInv
    BY InitIndInv
  <1>2. ASSUME NEW r \in Regions
        PROVE  /\ \A bit \in FreeBits(r) : bit < memmap[r].length
               /\ free_pages[r] >= Cardinality(FreeBits(r))
    <2>1. free_pages[r] \in Nat /\ free_pages[r] = Cardinality(FreeBits(r))
      BY <1>1 DEF IndInv, TypeOK, CountsAgree
    <2>2. \A bit \in FreeBits(r) : bit < memmap[r].length
      BY <1>1, FreeBitIsPage DEF IndInv
    <2> QED
      BY <2>1, <2>2
  <1> QED
    BY <1>1, <1>2 DEF IndInv, CarelessInv, PaddingMarked, CountNeverTooSmall

\* A clear bit is a page of its region, reserved or not.
LEMMA ClearBitIsPage ==
    ASSUME CarelessInv, NEW r \in Regions, NEW bit \in FreeBits(r)
    PROVE  /\ bit \in Nat /\ bit < memmap[r].length
           /\ FrameOf(r, bit) \in Nat
           /\ FrameOf(r, bit) - memmap[r].base = bit
           /\ InBounds(r, FrameOf(r, bit))
  <1>1. /\ memmap[r].base \in Nat /\ memmap[r].length \in Nat
        /\ Bits(memmap, r) \subseteq Nat
    BY BitmapSizeType DEF CarelessInv, TypeOK
  <1>2. bit \in Nat /\ bit < memmap[r].length
    BY <1>1 DEF FreeBits, CarelessInv, PaddingMarked
  <1> QED
    BY <1>1, <1>2 DEF FrameOf, InBounds

\* The clear bits of a region can be counted.
LEMMA ClearBitsFinite ==
    ASSUME CarelessInv, NEW r \in Regions
    PROVE  IsFiniteSet(FreeBits(r)) /\ Cardinality(FreeBits(r)) \in Nat
  <1>1. IsFiniteSet(Bits(memmap, r))
    BY BitmapSizeType DEF CarelessInv, TypeOK
  <1>2. IsFiniteSet(FreeBits(r))
    BY <1>1, FS_Subset DEF FreeBits
  <1> QED
    BY <1>2, FS_CardinalityType

\* A page that is taken was clear, and no other bit changes; the counter, which had
\* counted it, is still large enough.
LEMMA CarelessTake ==
    ASSUME CarelessInv, TakePage
    PROVE  /\ CarelessInv'
           /\ ptr' \in FreeFrames
           /\ FreeFrames' = FreeFrames \ {ptr'}
  <1>1. PICK r \in Regions : r = ScannedRegion
    BY ScannedRegionType DEF TakePage, CarelessInv
  <1>2. PICK byte \in 0 .. BitmapSize(memmap, r) - 1 :
          /\ bitmap_cache' = byte
          /\ \E bit \in ByteBits(byte) :
               /\ IsFoundBit(r, byte, bit)
               /\ MarkPageUsed(r, FrameOf(r, bit))
               /\ ptr' = FrameOf(r, bit)
               /\ held' = held \union {FrameOf(r, bit)}
    BY <1>1 DEF TakePage
  <1>3. PICK bit \in ByteBits(byte) :
          /\ IsFoundBit(r, byte, bit)
          /\ MarkPageUsed(r, FrameOf(r, bit))
          /\ ptr' = FrameOf(r, bit)
          /\ held' = held \union {FrameOf(r, bit)}
    BY <1>2
  <1>4. region_cache' = r /\ scan' = Idle /\ UNCHANGED memmap
    BY <1>1 DEF TakePage
  <1>5. BitmapSize(memmap, r) \in Nat /\ IsMemoryMap(memmap)
    BY BitmapSizeType DEF CarelessInv, TypeOK
  <1>6. bit \in FreeBits(r)
    <2>1. bit \in Bits(memmap, r)
      BY <1>5, ByteInBitmap DEF Bits
    <2> QED
      BY <2>1, <1>3 DEF FreeBits, IsFoundBit
  <1>7. /\ bit \in Nat /\ bit < memmap[r].length /\ ptr' \in Nat
        /\ FrameOf(r, bit) - memmap[r].base = bit /\ InBounds(r, FrameOf(r, bit))
    BY <1>3, <1>6, ClearBitIsPage
  <1>8. /\ bitmap' = [bitmap EXCEPT ![r] = @ \union {bit}]
        /\ free_pages' = [free_pages EXCEPT ![r] = @ - 1]
    BY <1>3, <1>7 DEF MarkPageUsed
  <1>9. /\ \A s \in Regions : bitmap'[s] = IF s = r THEN bitmap[r] \union {bit} ELSE bitmap[s]
        /\ DOMAIN bitmap' = Regions
    BY <1>8 DEF CarelessInv, TypeOK
  <1>10. \A s \in Regions : FreeBits(s)' = IF s = r THEN FreeBits(r) \ {bit} ELSE FreeBits(s)
    BY <1>4, <1>9 DEF FreeBits
  <1>11. /\ Cardinality(FreeBits(r) \ {bit}) = Cardinality(FreeBits(r)) - 1
         /\ Cardinality(FreeBits(r)) \in Nat
         /\ Cardinality(FreeBits(r) \ {bit}) \in Nat
    <2>1. IsFiniteSet(FreeBits(r)) /\ Cardinality(FreeBits(r)) \in Nat
      BY ClearBitsFinite
    <2>2. /\ IsFiniteSet(FreeBits(r) \ {bit})
          /\ Cardinality(FreeBits(r) \ {bit}) = Cardinality(FreeBits(r)) - 1
      BY <1>6, <2>1, FS_RemoveElement
    <2> QED
      BY <2>1, <2>2, FS_CardinalityType
  <1>12. /\ free_pages[r] \in Nat /\ free_pages[r] >= Cardinality(FreeBits(r))
         /\ free_pages \in [Regions -> Nat]
    BY DEF CarelessInv, TypeOK, CountNeverTooSmall
  <1>13. free_pages[r] - 1 \in Nat /\ free_pages[r] - 1 >= Cardinality(FreeBits(r) \ {bit})
    BY <1>11, <1>12
  <1>14. /\ free_pages' \in [Regions -> Nat]
         /\ \A s \in Regions : free_pages'[s] = IF s = r THEN free_pages[r] - 1 ELSE free_pages[s]
    BY <1>8, <1>12, <1>13
  <1>15. TypeOK'
    <2>1. \A s \in Regions : bitmap'[s] \subseteq Bits(memmap, s)
      BY <1>6, <1>9 DEF CarelessInv, TypeOK, FreeBits
    <2>2. held' \in SUBSET Nat
      BY <1>3, <1>7 DEF CarelessInv, TypeOK
    <2>3. bitmap_cache' \in Nat
      BY <1>2, <1>5
    <2> QED
      BY <1>4, <1>5, <1>7, <1>9, <1>14, <2>1, <2>2, <2>3 DEF TypeOK
  <1>16. PaddingMarked'
    BY <1>4, <1>10 DEF CarelessInv, PaddingMarked
  <1>17. CountNeverTooSmall'
    <2>1. ASSUME NEW s \in Regions PROVE free_pages'[s] >= Cardinality(FreeBits(s)')
      <3>1. CASE s = r
        BY <3>1, <1>10, <1>13, <1>14
      <3>2. CASE s # r
        BY <3>2, <1>10, <1>14 DEF CarelessInv, CountNeverTooSmall
      <3> QED
        BY <3>1, <3>2
    <2> QED
      BY <2>1 DEF CountNeverTooSmall
  <1>18. ptr' \in FreeFrames
    BY <1>3, <1>6, FreeFramesMeaning
  <1>19. ASSUME NEW frame
         PROVE  frame \in FreeFrames' <=> frame \in FreeFrames /\ frame # ptr'
    <2>1. frame \in FreeFrames'
            <=> \E s \in Regions : \E page \in FreeBits(s)' : frame = FrameOf(s, page)
      BY <1>4 DEF FreeFrames, FrameOf
    <2>2. ASSUME NEW s \in Regions, NEW page \in FreeBits(s)', frame = FrameOf(s, page)
          PROVE  frame \in FreeFrames /\ frame # ptr'
      <3>1. page \in FreeBits(s) /\ (s = r => page # bit)
        BY <1>10
      <3>2. page \in Nat /\ page < memmap[s].length
        BY <3>1, ClearBitIsPage
      <3>3. frame # FrameOf(r, bit)
        BY <2>2, <3>1, <3>2, <1>5, <1>7, FramesDiffer
      <3> QED
        BY <2>2, <3>1, <3>3, <1>3, FreeFramesMeaning
    <2>3. ASSUME frame \in FreeFrames, frame # ptr'
          PROVE  \E s \in Regions : \E page \in FreeBits(s)' : frame = FrameOf(s, page)
      <3>1. PICK s \in Regions : \E page \in FreeBits(s) : frame = FrameOf(s, page)
        BY <2>3, FreeFramesMeaning
      <3>2. PICK page \in FreeBits(s) : frame = FrameOf(s, page)
        BY <3>1
      <3>3. page \in FreeBits(s)'
        BY <2>3, <3>2, <1>3, <1>10
      <3> QED
        BY <3>2, <3>3
    <2> QED
      BY <2>1, <2>2, <2>3
  <1> QED
    BY <1>15, <1>16, <1>17, <1>18, <1>19 DEF CarelessInv

\* A page that is freed, for the first time or again, clears at most one bit and is
\* counted once.
LEMMA CarelessFree ==
    ASSUME CarelessInv, NEW frame \in MappedFrames, PmmFree(frame)
    PROVE  CarelessInv'
  <1>1. /\ scan = Idle /\ held' = held \ {frame}
        /\ UNCHANGED <<memmap, region_cache, bitmap_cache, scan, ptr>>
    BY DEF PmmFree
  <1>2. CASE UNCHANGED <<bitmap, free_pages>>
    <2>1. \A s \in Regions : FreeBits(s)' = FreeBits(s)
      BY <1>1, <1>2 DEF FreeBits
    <2> QED
      BY <1>1, <1>2, <2>1 DEF CarelessInv, TypeOK, PaddingMarked, CountNeverTooSmall
  <1>3. ASSUME NEW r \in ContainingRegions(frame), MarkPageFree(r, frame)
        PROVE  CarelessInv'
    <2>1. r \in Regions /\ memmap[r].base <= frame /\ frame < memmap[r].base + memmap[r].length
      BY DEF ContainingRegions
    <2>2. memmap[r].base \in Nat /\ memmap[r].length \in Nat /\ frame \in Nat
      <3>1. \A s \in Regions : memmap[s].base \in Nat /\ memmap[s].length \in Nat
        BY BitmapSizeType DEF CarelessInv, TypeOK
      <3>2. PICK s \in Regions : frame \in memmap[s].base .. memmap[s].base + memmap[s].length - 1
        BY DEF MappedFrames, FramesOf
      <3> QED
        BY <2>1, <3>1, <3>2
    <2>3. PICK bit \in Nat : bit = frame - memmap[r].base /\ bit < memmap[r].length
      BY <2>1, <2>2
    <2>4. InBounds(r, frame)
      BY <2>1, <2>2 DEF InBounds
    <2>5. /\ bitmap' = [bitmap EXCEPT ![r] = @ \ {bit}]
          /\ free_pages' = [free_pages EXCEPT ![r] = @ + 1]
      BY <1>3, <2>3, <2>4 DEF MarkPageFree
    <2>6. /\ \A s \in Regions : bitmap'[s] = IF s = r THEN bitmap[r] \ {bit} ELSE bitmap[s]
          /\ DOMAIN bitmap' = Regions
      BY <2>5 DEF CarelessInv, TypeOK
    <2>7. /\ free_pages' \in [Regions -> Nat]
          /\ \A s \in Regions :
               free_pages'[s] = IF s = r THEN free_pages[r] + 1 ELSE free_pages[s]
          /\ free_pages[r] \in Nat
      BY <2>1, <2>5 DEF CarelessInv, TypeOK
    <2>8. /\ \A s \in Regions : s # r => FreeBits(s)' = FreeBits(s)
          /\ FreeBits(r)' \subseteq FreeBits(r) \union {bit}
      BY <1>1, <2>1, <2>6 DEF FreeBits
    <2>9. Cardinality(FreeBits(r)') <= Cardinality(FreeBits(r)) + 1
            /\ Cardinality(FreeBits(r)) \in Nat /\ Cardinality(FreeBits(r)') \in Nat
      <3>1. IsFiniteSet(FreeBits(r)) /\ Cardinality(FreeBits(r)) \in Nat
        BY <2>1, ClearBitsFinite
      <3>2. /\ IsFiniteSet(FreeBits(r) \union {bit})
            /\ Cardinality(FreeBits(r) \union {bit}) \in {Cardinality(FreeBits(r)),
                                                         Cardinality(FreeBits(r)) + 1}
        BY <3>1, FS_AddElement
      <3>3. /\ IsFiniteSet(FreeBits(r)')
            /\ Cardinality(FreeBits(r)') <= Cardinality(FreeBits(r) \union {bit})
        BY <2>8, <3>2, FS_Subset
      <3>4. Cardinality(FreeBits(r)') \in Nat
        BY <3>3, FS_CardinalityType
      <3> QED
        BY <3>1, <3>2, <3>3, <3>4
    <2>10. TypeOK'
      <3>1. \A s \in Regions : bitmap'[s] \subseteq Bits(memmap, s)
        BY <2>6 DEF CarelessInv, TypeOK
      <3> QED
        BY <1>1, <2>6, <2>7, <3>1 DEF CarelessInv, TypeOK
    <2>11. PaddingMarked'
      BY <1>1, <2>3, <2>8 DEF CarelessInv, PaddingMarked
    <2>12. CountNeverTooSmall'
      <3>1. free_pages[r] + 1 >= Cardinality(FreeBits(r)')
        BY <2>1, <2>7, <2>9 DEF CarelessInv, CountNeverTooSmall
      <3>2. ASSUME NEW s \in Regions PROVE free_pages'[s] >= Cardinality(FreeBits(s)')
        <4>1. CASE s = r
          BY <4>1, <2>7, <3>1
        <4>2. CASE s # r
          BY <4>2, <2>7, <2>8 DEF CarelessInv, CountNeverTooSmall
        <4> QED
          BY <4>1, <4>2
      <3> QED
        BY <3>2 DEF CountNeverTooSmall
    <2> QED
      BY <2>10, <2>11, <2>12 DEF CarelessInv
  <1> QED
    BY <1>2, <1>3 DEF PmmFree

\* The rest of pmm_alloc touches neither bitmaps nor counters.
LEMMA CarelessRest ==
    ASSUME CarelessInv, AllocCall \/ SkipRegion \/ FindNothing \/ AllocNull \/ UNCHANGED vars
    PROVE  CarelessInv'
  <1>1. UNCHANGED <<memmap, bitmap, free_pages, bitmap_cache, held>>
    BY DEF AllocCall, SkipRegion, FindNothing, AllocNull, vars
  <1>2. \A s \in Regions : FreeBits(s)' = FreeBits(s)
    BY <1>1 DEF FreeBits
  <1>3. ASSUME Scanning PROVE ScannedRegion \in Regions /\ scan + 1 \in 0 .. NumRegions
    <2>1. ScannedRegion \in Regions /\ scan \in Nat /\ scan < NumRegions
      BY <1>3, ScannedRegionType DEF CarelessInv
    <2> QED
      BY <2>1, NumRegionsAssumption
  <1>4. /\ scan' \in 0 .. NumRegions \/ scan' = Idle
        /\ region_cache' \in Regions
        /\ ptr' \in Nat
    <2>1. CASE AllocCall
      BY <2>1, IdleIsNoIndex DEF AllocCall, CarelessInv, TypeOK
    <2>2. CASE SkipRegion
      BY <2>2, <1>3 DEF SkipRegion, CarelessInv, TypeOK
    <2>3. CASE FindNothing
      BY <2>3, <1>3 DEF FindNothing, CarelessInv, TypeOK
    <2>4. CASE AllocNull
      BY <2>4 DEF AllocNull, CarelessInv, TypeOK, NULL
    <2>5. CASE UNCHANGED vars
      BY <2>5 DEF vars, CarelessInv, TypeOK
    <2> QED
      BY <2>1, <2>2, <2>3, <2>4, <2>5
  <1> QED
    BY <1>1, <1>2, <1>4 DEF CarelessInv, TypeOK, PaddingMarked, CountNeverTooSmall

LEMMA NextCarelessInv == CarelessInv /\ [Alloc \/ FreeAnything]_vars => CarelessInv'
  BY CarelessTake, CarelessFree, CarelessRest DEF Alloc, FreeAnything

LEMMA CarelessInvAlways == NoPaddingAnywhere => (CarelessSpec => []CarelessInv)
  BY InitCarelessInv, NextCarelessInv, PTL DEF CarelessSpec

\* Whatever is freed, and however often, no region with a free page is taken for full.
THEOREM CountNeverTooSmallCorrect == NoPaddingAnywhere => (CarelessSpec => []CountNeverTooSmall)
  <1>1. CarelessInv => CountNeverTooSmall
    BY DEF CarelessInv
  <1> QED
    BY <1>1, CarelessInvAlways, PTL

\* Whatever is freed, a page that pmm_alloc hands out had a clear bit, and that bit
\* alone is set.
THEOREM TakesOneFreePageCorrect == NoPaddingAnywhere => (CarelessSpec => TakesOneFreePage)
  <1>1. ASSUME CarelessInv, [Alloc \/ FreeAnything]_vars, AllocReturns, ptr' # NULL
        PROVE  ptr' \in FreeFrames /\ FreeFrames' = FreeFrames \ {ptr'}
    <2>1. CASE TakePage
      BY <2>1, <1>1, CarelessTake
    <2>2. ~AllocCall /\ ~(UNCHANGED vars) /\ ~FreeAnything
      BY <1>1 DEF AllocReturns, AllocCall, FreeAnything, PmmFree, vars
    <2>3. ~AllocNull
      BY <1>1 DEF AllocNull
    <2>4. ~SkipRegion /\ ~FindNothing
      <3>1. Scanning => scan \in Nat /\ scan < NumRegions
        BY <1>1, ScannedRegionType DEF CarelessInv
      <3>2. Scanning => scan + 1 # Idle
        BY <3>1, NumRegionsAssumption DEF Idle
      <3> QED
        BY <1>1, <3>2 DEF SkipRegion, FindNothing, AllocReturns
    <2> QED
      BY <1>1, <2>1, <2>2, <2>3, <2>4 DEF Alloc
  <1>2. CarelessInv /\ [Alloc \/ FreeAnything]_vars
          => [AllocReturns /\ ptr' # NULL => ptr' \in FreeFrames
                                             /\ FreeFrames' = FreeFrames \ {ptr'}]_vars
    BY <1>1
  <1> QED
    BY <1>2, CarelessInvAlways, PTL DEF CarelessSpec, TakesOneFreePage
==============================================================================
