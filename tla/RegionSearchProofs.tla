-------------------------- MODULE RegionSearchProofs --------------------------
(* Proofs about RegionSearch, for every number of regions and every table.   *)
EXTENDS RegionSearch, WellFoundedInduction, TLAPS

\* The window that is left always holds the region, and it has shrunk by at
\* least one element per iteration: so it is never empty and never used up.
Window(r) == /\ Contains(r)
             /\ lower_bound <= r
             /\ r <= upper_bound
             /\ upper_bound < TableSize
             /\ upper_bound - lower_bound + 1 + i <= TableSize

IndInv == /\ SearchTypeOK
          /\ status = Searching /\ Contained => \E r \in Indices : Window(r)
          /\ status = PMM_OK /\ Contained => region_index \in Indices /\ Contains(region_index)
          /\ status = PMM_ERROR_ADDRESS_NOT_FOUND => ~Contained

\* A remainder smaller than the divisor is the dividend itself.
LEMMA SmallModulo == ASSUME NEW a \in Nat, NEW p \in Nat, a < p PROVE a % p = a
  BY SMT

\* Half of a window's size leads from its lower bound into the window.
LEMMA MiddleInWindow ==
    ASSUME NEW l \in Nat, NEW u \in Nat, l <= u, u < SizeModulus, SizeModulus \in Nat
    PROVE  LET m == Plus(l, Minus(u, l) \div 2) IN m \in Nat /\ l <= m /\ m <= u
  BY DEF Plus, Minus

\* size_t arithmetic stays within size_t.
LEMMA SizeArithmetic ==
    ASSUME NEW a \in Sizes, NEW b \in Sizes
    PROVE  /\ Plus(a, b) \in Sizes
           /\ Minus(a, b) \in Sizes
           /\ Minus(a, b) \div 2 \in Sizes
  BY SearchAssumption DEF Sizes, Plus, Minus

\* What an iteration reads of the table when it searches an address a region
\* contains: the middle of the window is an element of the table.
LEMMA MiddleIsRegion ==
    ASSUME SearchTypeOK, NEW r \in Indices, Window(r)
    PROVE  /\ Middle \in Indices
           /\ Middle % Period = Middle
           /\ lower_bound <= Middle
           /\ Middle <= upper_bound
  <1>1. lower_bound \in Nat /\ upper_bound \in Nat /\ r \in Nat /\ i \in Nat
    BY SearchAssumption DEF SearchTypeOK, Sizes, Indices
  <1>2. lower_bound <= upper_bound /\ upper_bound < TableSize
    BY <1>1 DEF Window
  <1>3. upper_bound < SizeModulus /\ TableSize <= Period
    BY SearchAssumption, <1>1, <1>2
  <1>4. Middle \in Nat /\ lower_bound <= Middle /\ Middle <= upper_bound
    BY <1>1, <1>2, <1>3, SearchAssumption, MiddleInWindow DEF Middle
  <1>5. Middle \in Indices
    BY <1>1, <1>2, <1>4, SearchAssumption DEF Indices
  <1>6. Middle < Period
    BY <1>1, <1>2, <1>3, <1>4, SearchAssumption
  <1>7. Middle % Period = Middle
    BY <1>4, <1>6, SearchAssumption, SmallModulo
  <1> QED
    BY <1>4, <1>5, <1>7

\* Of two regions only one can contain an address, the other lies beside it.
LEMMA RegionsAreSorted ==
    ASSUME SearchTypeOK, NEW r \in Indices, NEW m \in Indices, Contains(r)
    PROVE  /\ regions[m].base > address => r < m
           /\ address > regions[m].base + regions[m].length - 1 => m < r
           /\ regions[m].base <= address /\ address <= regions[m].base + regions[m].length - 1
                => Contains(m)
  <1>1. r \in Nat /\ m \in Nat /\ address \in Nat
    BY SearchAssumption DEF Indices, SearchTypeOK
  <1>2. \A s \in Indices : regions[s].base \in Nat /\ regions[s].length \in Nat
    BY DEF SearchTypeOK, IsTable, TableEntry
  <1>3. m < r => regions[m].base + regions[m].length <= regions[r].base
    BY DEF SearchTypeOK, IsTable
  <1>4. r < m => regions[r].base + regions[r].length <= regions[m].base
    BY DEF SearchTypeOK, IsTable
  <1>5. regions[r].base <= address /\ address < regions[r].base + regions[r].length
    BY DEF Contains
  <1>6. regions[m].base > address => r < m
    <2>1. ASSUME regions[m].base > address, ~(r < m) PROVE FALSE
      <3>1. r = m \/ m < r
        BY <1>1, <2>1
      <3>2. CASE r = m
        BY <3>2, <1>1, <1>2, <1>5, <2>1
      <3>3. CASE m < r
        BY <3>3, <1>1, <1>2, <1>3, <1>5, <2>1
      <3> QED
        BY <3>1, <3>2, <3>3
    <2> QED
      BY <2>1
  <1>7. address > regions[m].base + regions[m].length - 1 => m < r
    <2>1. ASSUME address > regions[m].base + regions[m].length - 1, ~(m < r) PROVE FALSE
      <3>1. r = m \/ r < m
        BY <1>1, <2>1
      <3>2. CASE r = m
        BY <3>2, <1>1, <1>2, <1>5, <2>1
      <3>3. CASE r < m
        BY <3>3, <1>1, <1>2, <1>4, <1>5, <2>1
      <3> QED
        BY <3>1, <3>2, <3>3
    <2> QED
      BY <2>1
  <1>8. regions[m].base <= address /\ address <= regions[m].base + regions[m].length - 1
          => Contains(m)
    BY <1>1, <1>2 DEF Contains
  <1> QED
    BY <1>6, <1>7, <1>8

\* The search begins with the whole table as its window.
LEMMA InitIndInv == SearchInit => IndInv
  <1> SUFFICES ASSUME SearchInit PROVE IndInv
    OBVIOUS
  <1>1. SearchTypeOK
    BY SearchAssumption, TablesAssumption DEF SearchInit, SearchTypeOK, Sizes, Searching
  <1>2. ASSUME Contained PROVE \E r \in Indices : Window(r)
    <2>1. PICK r \in Indices : Contains(r)
      BY <1>2 DEF Contained
    <2>2. Window(r)
      BY <2>1, SearchAssumption DEF Window, SearchInit, Indices
    <2> QED
      BY <2>2
  <1> QED
    BY <1>1, <1>2 DEF IndInv, SearchInit, Searching, PMM_OK, PMM_ERROR_ADDRESS_NOT_FOUND

\* The bounds stay in their ranges.
LEMMA TypeStep == SearchTypeOK /\ [SearchNext]_searchVars => SearchTypeOK'
  <1> SUFFICES ASSUME SearchTypeOK, [SearchNext]_searchVars PROVE SearchTypeOK'
    OBVIOUS
  <1>1. 1 \in Sizes
    BY SearchAssumption DEF Sizes
  <1>2. Middle \in Sizes
    BY SizeArithmetic DEF Middle, SearchTypeOK
  <1>3. Plus(Middle, 1) \in Sizes /\ Minus(Middle, 1) \in Sizes
    BY <1>1, <1>2, SizeArithmetic
  <1>4. i < TableSize => i + 1 \in 0 .. TableSize
    BY SearchAssumption DEF SearchTypeOK
  <1>5. CASE GoBelow
    BY <1>2, <1>3, <1>4, <1>5 DEF GoBelow, Probing, SearchTypeOK
  <1>6. CASE GoAbove
    BY <1>2, <1>3, <1>4, <1>6 DEF GoAbove, Probing, SearchTypeOK
  <1>7. CASE Found
    BY <1>2, <1>4, <1>7 DEF Found, Probing, SearchTypeOK
  <1>8. CASE GiveUp
    BY <1>8 DEF GiveUp, SearchTypeOK
  <1>9. CASE UNCHANGED searchVars
    BY <1>9 DEF searchVars, SearchTypeOK
  <1> QED
    BY <1>5, <1>6, <1>7, <1>8, <1>9 DEF SearchNext

\* The numbers the window is made of.
LEMMA Numbers ==
    ASSUME SearchTypeOK, NEW r \in Indices
    PROVE  /\ r \in Nat /\ lower_bound \in Nat /\ upper_bound \in Nat
           /\ i \in Nat /\ TableSize \in Nat
  BY SearchAssumption DEF SearchTypeOK, Sizes, Indices

\* An iteration halves the window and keeps the region in it.
LEMMA WindowStep == IndInv /\ [SearchNext]_searchVars => IndInv'
  <1> SUFFICES ASSUME IndInv, [SearchNext]_searchVars PROVE IndInv'
    OBVIOUS
  <1>0. SearchTypeOK /\ SearchTypeOK'
    BY TypeStep DEF IndInv
  <1> USE DEF Searching, PMM_OK, PMM_ERROR_ADDRESS_NOT_FOUND
  <1>1. ASSUME UNCHANGED <<regions, address>>
        PROVE  /\ Contained' <=> Contained
               /\ \A r \in Indices : Contains(r)' <=> Contains(r)
    BY <1>1 DEF Contained, Contains
  <1>2. ASSUME NEW r \in Indices
        PROVE  /\ r \in Nat /\ lower_bound \in Nat /\ upper_bound \in Nat
               /\ i \in Nat /\ TableSize \in Nat
    BY <1>0, Numbers
  <1>3. CASE GoBelow
    <2>1. ASSUME Contained PROVE \E r \in Indices : Window(r)'
      <3>1. PICK r \in Indices : Window(r)
        BY <1>3, <2>1 DEF IndInv, GoBelow, Probing
      <3>2. Middle \in Indices /\ Middle % Period = Middle /\ lower_bound <= Middle
              /\ Middle <= upper_bound
        BY <1>0, <3>1, MiddleIsRegion
      <3>3. regions[Middle].base > address
        BY <1>3, <3>2 DEF GoBelow, Below
      <3>4. r < Middle
        BY <1>0, <3>1, <3>2, <3>3, RegionsAreSorted DEF Window
      <3>5. upper_bound' = Middle - 1
        BY <1>2, <1>3, <3>1, <3>2, <3>4 DEF GoBelow, Minus, Indices
      <3>6. Contains(r)'
        BY <1>1, <1>3, <3>1 DEF GoBelow, Probing, Window
      <3>7. Window(r)'
        BY <1>2, <1>3, <3>1, <3>2, <3>4, <3>5, <3>6 DEF GoBelow, Probing, Window, Indices
      <3> QED
        BY <3>7
    <2> QED
      BY <1>0, <1>1, <1>3, <2>1 DEF IndInv, GoBelow, Probing
  <1>4. CASE GoAbove
    <2>1. ASSUME Contained PROVE \E r \in Indices : Window(r)'
      <3>1. PICK r \in Indices : Window(r)
        BY <1>4, <2>1 DEF IndInv, GoAbove, Probing
      <3>2. Middle \in Indices /\ Middle % Period = Middle /\ lower_bound <= Middle
              /\ Middle <= upper_bound
        BY <1>0, <3>1, MiddleIsRegion
      <3>3. address > regions[Middle].base + regions[Middle].length - 1
        BY <1>4, <3>2 DEF GoAbove, Above
      <3>4. Middle < r
        BY <1>0, <3>1, <3>2, <3>3, RegionsAreSorted DEF Window
      <3>5. lower_bound' = Middle + 1
        BY <1>2, <1>4, <3>1, <3>2, <3>4, SearchAssumption DEF GoAbove, Plus, Indices
      <3>6. Contains(r)'
        BY <1>1, <1>4, <3>1 DEF GoAbove, Probing, Window
      <3>7. Window(r)'
        BY <1>2, <1>4, <3>1, <3>2, <3>4, <3>5, <3>6 DEF GoAbove, Probing, Window, Indices
      <3> QED
        BY <3>7
    <2> QED
      BY <1>0, <1>1, <1>4, <2>1 DEF IndInv, GoAbove, Probing
  <1>5. CASE Found
    <2>1. ASSUME Contained PROVE Middle \in Indices /\ Contains(Middle)
      <3>1. PICK r \in Indices : Window(r)
        BY <1>5, <2>1 DEF IndInv, Found, Probing
      <3>2. Middle \in Indices /\ Middle % Period = Middle
        BY <1>0, <3>1, MiddleIsRegion
      <3>3. regions[Middle].base <= address
              /\ address <= regions[Middle].base + regions[Middle].length - 1
        BY <1>5, <3>2 DEF Found, Inside
      <3> QED
        BY <1>0, <3>1, <3>2, <3>3, RegionsAreSorted DEF Window
    <2>2. region_index' = Middle /\ status' = PMM_OK /\ UNCHANGED <<regions, address>>
      BY <1>5 DEF Found, Probing
    <2>3. Contained' => region_index' \in Indices /\ Contains(region_index)'
      BY <1>1, <2>1, <2>2 DEF Contains
    <2> QED
      BY <1>0, <2>2, <2>3 DEF IndInv
  <1>6. CASE GiveUp
    <2>1. ASSUME Contained PROVE FALSE
      <3>1. PICK r \in Indices : Window(r)
        BY <1>6, <2>1 DEF IndInv, GiveUp
      <3>2. lower_bound <= r /\ r <= upper_bound /\ upper_bound - lower_bound + 1 + i <= TableSize
              /\ i = TableSize
        BY <1>6, <3>1 DEF Window, GiveUp
      <3> QED
        BY <1>2, <3>1, <3>2
    <2> QED
      BY <1>0, <1>1, <1>6, <2>1 DEF IndInv, GiveUp
  <1>7. CASE UNCHANGED searchVars
    <2>1. UNCHANGED <<regions, address, lower_bound, upper_bound, region_index, i, status>>
      BY <1>7 DEF searchVars
    <2>2. \A r \in Indices : Window(r)' <=> Window(r)
      BY <1>1, <2>1 DEF Window
    <2>3. Contains(region_index)' <=> Contains(region_index)
      BY <2>1 DEF Contains
    <2> QED
      BY <1>0, <1>1, <2>1, <2>2, <2>3 DEF IndInv
  <1> QED
    BY <1>3, <1>4, <1>5, <1>6, <1>7 DEF SearchNext

\* The inductive invariant of get_region_containing_page holds in every state.
THEOREM IndInvCorrect == SearchSpec => []IndInv
  BY InitIndInv, WindowStep, PTL DEF SearchSpec

\* Type correctness: the bounds and the index never leave size_t.
THEOREM TypeCorrect == SearchSpec => []SearchTypeOK
  <1>1. IndInv => SearchTypeOK
    BY DEF IndInv
  <1> QED
    BY <1>1, IndInvCorrect, PTL

\* get_region_containing_page finds the region of every address that has one,
\* whatever the number of regions and wherever the regions lie.
THEOREM SearchFindsRegion == SearchSpec => []FindsRegion
  <1>1. IndInv => FindsRegion
    BY DEF IndInv, FindsRegion
  <1> QED
    BY <1>1, IndInvCorrect, PTL

\* Searching such an address never reads outside the array of regions.
THEOREM SearchReadsTableOnly == SearchSpec => []ReadsTableOnly
  <1>1. IndInv => ReadsTableOnly
    BY MiddleIsRegion DEF IndInv, ReadsTableOnly
  <1> QED
    BY <1>1, IndInvCorrect, PTL

-----------------------------------------------------------------------------
(* Powers of two.                                                          *)

\* What holds of 0 and is passed on by each number holds up to n.
LEMMA UpTo ==
    ASSUME NEW n \in Nat, NEW T, 0 \in T, \A k \in 0 .. n - 1 : k \in T => k + 1 \in T
    PROVE  \A k \in 0 .. n : k \in T
  <1> SUFFICES ASSUME NEW k0 \in 0 .. n, k0 \notin T PROVE FALSE
    OBVIOUS
  <1> DEFINE Smaller == {ss \in Nat \X Nat : ss[1] < ss[2]}
             Others == {k \in 0 .. n : k \notin T}
  <1>1. IsWellFoundedOn(Smaller, Nat)
    BY NatLessThanWellFounded DEF OpToRel
  <1>2. \A a, b \in Nat : <<a, b>> \in Smaller <=> a < b
    OBVIOUS
  <1>3. Others \subseteq Nat /\ Others # {}
    OBVIOUS
  <1> HIDE DEF Smaller, Others
  <1>4. PICK k \in Others : \A j \in Others : ~(<<j, k>> \in Smaller)
    BY <1>1, <1>3, WFMin
  <1>5. k \in 0 .. n /\ k \notin T
    BY DEF Others
  <1>6. k - 1 \in 0 .. n - 1 /\ k - 1 \in Nat /\ k \in Nat
    BY <1>5
  <1>7. k - 1 \notin Others
    <2>1. PICK j : j = k - 1
      OBVIOUS
    <2>2. j \in Nat /\ j < k
      BY <1>6, <2>1
    <2>3. <<j, k>> \in Smaller
      BY <1>2, <1>6, <2>2
    <2> QED
      BY <1>4, <2>1, <2>3
  <1>8. k - 1 \in T
    BY <1>6, <1>7 DEF Others
  <1>9. (k - 1) + 1 = k
    BY <1>6
  <1> QED
    BY <1>5, <1>6, <1>8, <1>9

\* The powers of two up to the n-th.
ArePowers(p, n) == p = [k \in 0 .. n |-> IF k = 0 THEN 1 ELSE 2 * p[k - 1]]

LEMMA PowersExist == \E p : ArePowers(p, TableSize)
  <1> DEFINE T == {n \in Nat : \E p : ArePowers(p, n)}
  <1>1. 0 \in T
    <2>1. ArePowers([k \in 0 .. 0 |-> 1], 0)
      BY DEF ArePowers
    <2> QED
      BY <2>1
  <1>2. ASSUME NEW n \in 0 .. TableSize - 1, n \in T PROVE n + 1 \in T
    <2>1. PICK p : ArePowers(p, n)
      BY <1>2
    <2>2. n \in Nat /\ n + 1 \in Nat
      BY SearchAssumption
    <2>3. PICK q : q = [k \in 0 .. n + 1 |-> IF k = n + 1 THEN 2 * p[n] ELSE p[k]]
      OBVIOUS
    <2>4. ASSUME NEW k \in 0 .. n + 1
          PROVE  q[k] = IF k = 0 THEN 1 ELSE 2 * q[k - 1]
      <3>1. CASE k = n + 1
        <4>1. k # 0 /\ k - 1 = n /\ n \in 0 .. n + 1 /\ n # n + 1
          BY <2>2, <3>1
        <4>2. q[k] = 2 * p[n] /\ q[k - 1] = p[n]
          BY <2>3, <3>1, <4>1
        <4> QED
          BY <4>1, <4>2
      <3>2. CASE k # n + 1
        <4>1. k \in 0 .. n
          BY <2>2, <3>2
        <4>2. p[k] = IF k = 0 THEN 1 ELSE 2 * p[k - 1]
          BY <2>1, <4>1 DEF ArePowers
        <4>3. q[k] = p[k]
          BY <2>3, <3>2
        <4>4. k # 0 => q[k - 1] = p[k - 1]
          BY <2>2, <2>3, <4>1
        <4> QED
          BY <4>2, <4>3, <4>4
      <3> QED
        BY <3>1, <3>2
    <2>5. ArePowers(q, n + 1)
      BY <2>3, <2>4 DEF ArePowers
    <2> QED
      BY <2>2, <2>5
  <1> HIDE DEF T
  <1>3. TableSize \in T
    BY <1>1, <1>2, UpTo, SearchAssumption
  <1> QED
    BY <1>3 DEF T

\* Each power is twice the one before.
LEMMA PowersDouble ==
    /\ PowerOfTwo(0) = 1
    /\ \A k \in 0 .. TableSize - 1 : PowerOfTwo(k + 1) = 2 * PowerOfTwo(k)
  <1>1. PICK p : ArePowers(p, TableSize)
    BY PowersExist
  <1>2. PICK q : ArePowers(q, TableSize) /\ \A n : PowerOfTwo(n) = q[n]
    BY <1>1, Zenon DEF PowerOfTwo, ArePowers
  <1>3. 0 \in 0 .. TableSize
    BY SearchAssumption
  <1>4. ASSUME NEW k \in 0 .. TableSize - 1 PROVE q[k + 1] = 2 * q[k]
    <2>1. k + 1 \in 0 .. TableSize /\ k + 1 # 0 /\ (k + 1) - 1 = k
      BY SearchAssumption
    <2>2. q[k + 1] = 2 * q[(k + 1) - 1]
      BY <1>2, <2>1 DEF ArePowers
    <2> QED
      BY <2>1, <2>2
  <1>5. q[0] = 1
    BY <1>2, <1>3 DEF ArePowers
  <1> QED
    BY <1>2, <1>4, <1>5

\* Powers of two are positive numbers.
LEMMA PowerType == \A k \in 0 .. TableSize : PowerOfTwo(k) \in Nat \ {0}
  <1> DEFINE T == {k \in 0 .. TableSize : PowerOfTwo(k) \in Nat \ {0}}
  <1>1. 0 \in T
    BY PowersDouble, SearchAssumption
  <1>2. ASSUME NEW k \in 0 .. TableSize - 1, k \in T PROVE k + 1 \in T
    <2>1. k + 1 \in 0 .. TableSize
      BY SearchAssumption
    <2>2. PICK x \in Nat \ {0} : x = PowerOfTwo(k)
      BY <1>2
    <2>3. PowerOfTwo(k + 1) = 2 * x
      BY <2>2, PowersDouble
    <2> QED
      BY <2>1, <2>3
  <1> HIDE DEF T
  <1>3. \A k \in 0 .. TableSize : k \in T
    BY <1>1, <1>2, UpTo, SearchAssumption
  <1> QED
    BY <1>3 DEF T

-----------------------------------------------------------------------------
(* The search is logarithmic.                                              *)

\* What is left of the table after n iterations.
Halved(n, lower, upper) == PowerOfTwo(n) * (upper - lower + 1) <= TableSize

\* The window has been halved in each iteration.
HalvingInv ==
    Contained => /\ status = Searching => Halved(i, lower_bound, upper_bound)
                 /\ i > 0 => PowerOfTwo(i - 1) <= TableSize

\* Both halves of a window, without its middle, are at most half as long.
LEMMA HalvesAreHalf ==
    ASSUME NEW n \in 0 .. TableSize - 1, NEW l \in Nat, NEW u \in Nat, l <= u, Halved(n, l, u),
           NEW m \in Nat, m = l + (u - l) \div 2
    PROVE  /\ PowerOfTwo(n) <= TableSize
           /\ Halved(n + 1, l, m - 1)
           /\ Halved(n + 1, m + 1, u)
  <1>1. PICK p \in Nat \ {0} : p = PowerOfTwo(n)
    BY PowerType, SearchAssumption
  <1>2. PowerOfTwo(n + 1) = 2 * p
    BY <1>1, PowersDouble
  <1>3. PICK w \in Nat : w = u - l + 1
    OBVIOUS
  <1>4. p * w <= TableSize
    BY <1>1, <1>3 DEF Halved
  <1>5. PICK a \in Nat : a = (m - 1) - l + 1
    OBVIOUS
  <1>6. PICK b \in Nat : b = u - (m + 1) + 1
    OBVIOUS
  <1>7. 2 * a <= w /\ 2 * b <= w /\ 1 <= w
    BY <1>3, <1>5, <1>6
  <1>8. ASSUME NEW x \in Nat, 2 * x <= w PROVE (2 * p) * x <= TableSize
    <2>1. p * (2 * x) <= p * w
      BY <1>8, SMT
    <2>2. (2 * p) * x = p * (2 * x)
      BY SMT
    <2>3. PICK y \in Nat : y = p * (2 * x)
      OBVIOUS
    <2>4. PICK z \in Nat : z = p * w
      OBVIOUS
    <2> QED
      BY <1>4, <2>1, <2>2, <2>3, <2>4, SearchAssumption
  <1>9. p <= TableSize
    <2>1. p * 1 <= p * w /\ p * 1 = p
      BY <1>7, SMT
    <2>2. PICK z \in Nat : z = p * w
      OBVIOUS
    <2> QED
      BY <1>4, <2>1, <2>2, SearchAssumption
  <1> QED
    BY <1>1, <1>2, <1>5, <1>6, <1>7, <1>8, <1>9 DEF Halved

LEMMA HalvingInit == SearchInit => HalvingInv
  <1> SUFFICES ASSUME SearchInit PROVE HalvingInv
    OBVIOUS
  <1>1. PowerOfTwo(0) * ((TableSize - 1) - 0 + 1) <= TableSize
    BY PowersDouble, SearchAssumption
  <1> QED
    BY <1>1 DEF SearchInit, HalvingInv, Halved

\* An iteration halves the window once more.
LEMMA HalvingStep == IndInv /\ HalvingInv /\ [SearchNext]_searchVars => HalvingInv'
  <1> SUFFICES ASSUME IndInv, HalvingInv, [SearchNext]_searchVars PROVE HalvingInv'
    OBVIOUS
  <1> USE DEF Searching, PMM_OK, PMM_ERROR_ADDRESS_NOT_FOUND
  <1>1. UNCHANGED <<regions, address>> /\ (Contained' <=> Contained)
    BY DEF SearchNext, GoBelow, GoAbove, Found, GiveUp, Probing, searchVars, Contained, Contains
  <1> SUFFICES ASSUME Contained
               PROVE  /\ status' = Searching => Halved(i', lower_bound', upper_bound')
                      /\ i' > 0 => PowerOfTwo(i' - 1) <= TableSize
    BY <1>1 DEF HalvingInv, Halved, PowerOfTwo
  <1>2. CASE Probing
    <2>1. PICK r \in Indices : Window(r)
      BY <1>2 DEF IndInv, Probing
    <2>2. /\ lower_bound \in Nat /\ upper_bound \in Nat /\ lower_bound <= upper_bound
          /\ upper_bound < SizeModulus /\ SizeModulus \in Nat /\ i \in 0 .. TableSize - 1
      BY <1>2, <2>1, Numbers, SearchAssumption DEF IndInv, Window, Probing
    <2>3. Middle \in Nat /\ Middle = lower_bound + (upper_bound - lower_bound) \div 2
      BY <2>2 DEF Middle, Plus, Minus
    <2>4. Halved(i, lower_bound, upper_bound)
      BY <1>2 DEF HalvingInv, Probing
    <2>5. /\ PowerOfTwo(i) <= TableSize
          /\ Halved(i + 1, lower_bound, Middle - 1)
          /\ Halved(i + 1, Middle + 1, upper_bound)
      BY <2>2, <2>3, <2>4, HalvesAreHalf
    <2>6. i' = i + 1 /\ i' - 1 = i
      BY <1>2, <2>2 DEF Probing
    <2>7. SearchTypeOK /\ Middle \in Indices /\ Middle % Period = Middle
      BY <2>1, MiddleIsRegion DEF IndInv
    <2>8. CASE GoBelow
      <3>1. regions[Middle].base > address
        BY <2>7, <2>8 DEF GoBelow, Below
      <3>2. r < Middle /\ r \in Nat
        BY <2>1, <2>7, <3>1, RegionsAreSorted, Numbers DEF Window
      <3>3. upper_bound' = Middle - 1 /\ lower_bound' = lower_bound
        BY <2>3, <2>8, <3>2 DEF GoBelow, Minus
      <3> QED
        BY <2>5, <2>6, <3>3
    <2>9. CASE GoAbove
      <3>1. Middle <= upper_bound
        BY <2>1, MiddleIsRegion DEF IndInv
      <3>2. upper_bound < TableSize
        BY <2>1 DEF Window
      <3>3. lower_bound' = Middle + 1 /\ upper_bound' = upper_bound
        BY <2>2, <2>3, <2>9, <3>1, <3>2, SearchAssumption DEF GoAbove, Plus
      <3> QED
        BY <2>5, <2>6, <3>3
    <2>10. CASE Found
      BY <2>5, <2>6, <2>10 DEF Found
    <2>11. ~GiveUp /\ ~(UNCHANGED searchVars)
      <3>1. i \in Int /\ i + 1 # i /\ i # TableSize
        BY <2>2, SearchAssumption
      <3>2. ~(UNCHANGED searchVars)
        BY <2>6, <3>1 DEF searchVars
      <3> QED
        BY <3>1, <3>2 DEF GiveUp
    <2> QED
      BY <2>8, <2>9, <2>10, <2>11 DEF SearchNext
  <1>3. CASE ~Probing
    <2>1. /\ i' = i /\ lower_bound' = lower_bound /\ upper_bound' = upper_bound
          /\ status' = Searching => status = Searching
      BY <1>3 DEF SearchNext, GoBelow, GoAbove, Found, GiveUp, searchVars
    <2>2. /\ status = Searching => Halved(i, lower_bound, upper_bound)
          /\ i > 0 => PowerOfTwo(i - 1) <= TableSize
      BY DEF HalvingInv
    <2>3. i' > 0 => PowerOfTwo(i' - 1) <= TableSize
      BY <2>1, <2>2
    <2>4. status' = Searching => Halved(i', lower_bound', upper_bound')
      BY <2>1, <2>2, Zenon
    <2> QED
      BY <2>3, <2>4
  <1> QED
    BY <1>2, <1>3

\* The number of iterations is at most one more than the logarithm of the number of
\* regions, for every table and every address inside a region.
THEOREM SearchIsLogarithmic == SearchSpec => []LogarithmicSearch
  <1>1. HalvingInv => LogarithmicSearch
    BY DEF HalvingInv, LogarithmicSearch
  <1> QED
    BY <1>1, IndInvCorrect, HalvingInit, HalvingStep, PTL DEF SearchSpec
==============================================================================
