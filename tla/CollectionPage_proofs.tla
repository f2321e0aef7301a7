------------------------ MODULE CollectionPage_proofs -----------------------
(***************************************************************************)
(* Lemmas on the operators of CollectionPage: what a page covers, how far  *)
(* it reaches, and that the overlay's page always passes the adapter's     *)
(* check. Everything else about collection rests on them.                  *)
(***************************************************************************)
EXTENDS CollectionPage, FiniteSetTheorems, WellFoundedInduction, TLAPS

(* Every nonempty set of naturals has a least element. *)
LEMMA LeastElement ==
  ASSUME NEW S \in SUBSET Nat, S # {}
  PROVE  \E x \in S : \A y \in S : x <= y
<1>1. PICK x \in S : \A y \in S : <<y, x>> \notin OpToRel(<, Nat)
  BY NatLessThanWellFounded, WFMin, S # {}
<1>2. \A y \in S : ~(y < x)
  BY <1>1 DEF OpToRel
<1> QED
  BY <1>2

(* Max is the greatest element of a nonempty bounded set of naturals. *)
LEMMA MaxProperty ==
  ASSUME NEW S \in SUBSET Nat, S # {}, NEW n \in Nat, \A y \in S : y <= n
  PROVE  Max(S) \in S /\ \A y \in S : y <= Max(S)
<1> DEFINE T == {k \in Nat : \A y \in S : y <= k}
<1>1. T \in SUBSET Nat /\ n \in T
  OBVIOUS
<1>2. PICK k \in T : \A j \in T : k <= j
  <2> HIDE DEF T
  <2> QED
    BY <1>1, LeastElement
<1>3. k \in S
  <2>1. CASE k = 0
    <3>1. PICK y \in S : TRUE
      BY S # {}
    <3>2. y \in Nat /\ y <= 0
      BY <2>1, <1>2
    <3> QED
      BY <2>1, <3>2
  <2>2. CASE k # 0 /\ k \notin S
    <3>1. k - 1 \in Nat /\ \A y \in S : y \in Nat /\ y <= k /\ y # k
      BY <2>2, <1>2
    <3>2. \A y \in S : y <= k - 1
      BY <3>1
    <3>3. k - 1 \in T
      BY <3>1, <3>2
    <3>4. k <= k - 1 /\ k \in Nat
      BY <1>2, <3>3
    <3> QED
      BY <3>4
  <2> QED
    BY <2>1, <2>2
<1>4. \E x \in S : \A y \in S : x >= y
  BY <1>2, <1>3
<1> QED
  BY <1>4 DEF Max

(* The n smallest elements are elements, and whatever lies below one of them
   is among them.                                                           *)
LEMMA SmallestClosed ==
  ASSUME NEW S \in SUBSET Nat, NEW n \in Nat,
         NEW x \in Smallest(S, n), NEW y \in S, y < x
  PROVE  y \in Smallest(S, n)
<1> DEFINE lowX == {w \in S : w < x}
<1> DEFINE lowY == {w \in S : w < y}
<1>0. x \in S /\ x \in Nat /\ y \in Nat /\ \A w \in S : w \in Nat
  BY DEF Smallest
<1>1. lowX \in SUBSET Nat /\ \A w \in lowX : w <= x
  <2> SUFFICES ASSUME NEW w \in lowX PROVE w \in Nat /\ w <= x
    OBVIOUS
  <2> QED BY <1>0
<1>2. IsFiniteSet(lowX)
  <2> HIDE DEF lowX
  <2> QED BY <1>0, <1>1, FS_BoundedSetOfNaturals
<1>3. lowY \in SUBSET lowX
  <2> SUFFICES ASSUME NEW w \in lowY PROVE w \in lowX
    OBVIOUS
  <2> QED BY <1>0
<1>4. /\ IsFiniteSet(lowY)
      /\ Cardinality(lowY) <= Cardinality(lowX)
  BY <1>2, <1>3, FS_Subset
<1>5. Cardinality(lowX) \in Nat /\ Cardinality(lowY) \in Nat
  BY <1>2, <1>4, FS_CardinalityType
<1>6. Cardinality(lowX) < n
  BY DEF Smallest
<1> QED
  BY <1>4, <1>5, <1>6 DEF Smallest

(* A positive number of smallest elements of a nonempty set is nonempty. *)
LEMMA SmallestNonempty ==
  ASSUME NEW S \in SUBSET Nat, S # {}, NEW n \in Nat \ {0}
  PROVE  Smallest(S, n) # {}
<1>1. PICK x \in S : \A y \in S : x <= y
  BY LeastElement
<1>2. \A w \in S : w \in Nat /\ ~(w < x)
  BY <1>1
<1>3a. {w \in S : w < x} = {}
  BY <1>2
<1>3. Cardinality({w \in S : w < x}) = 0
  BY <1>3a, FS_EmptySet
<1> QED
  BY <1>3 DEF Smallest

(* At most n elements are selected, and exactly n when an element is left. *)
LEMMA SmallestCount ==
  ASSUME NEW S \in SUBSET Nat, NEW n \in Nat \ {0}, NEW b \in Nat,
         \A y \in S : y <= b
  PROVE  /\ IsFiniteSet(Smallest(S, n))
         /\ Cardinality(Smallest(S, n)) <= n
         /\ S # Smallest(S, n) => Cardinality(Smallest(S, n)) = n
<1> DEFINE ids == Smallest(S, n)
<1>0. ids \in SUBSET S /\ ids \in SUBSET Nat /\ \A w \in S : w \in Nat
  BY DEF Smallest
<1>1. IsFiniteSet(S) /\ IsFiniteSet(ids) /\ Cardinality(ids) \in Nat
  <2> HIDE DEF ids
  <2>1. IsFiniteSet(S)
    BY FS_BoundedSetOfNaturals
  <2>2. IsFiniteSet(ids)
    BY <2>1, <1>0, FS_Subset
  <2> QED BY <2>1, <2>2, FS_CardinalityType
<1>2. CASE ids = {}
  <2>1. Cardinality(ids) = 0
    BY <1>2, FS_EmptySet
  <2>2. S = {}
    BY <1>2, SmallestNonempty
  <2> QED BY <2>1, <2>2, <1>1, <1>2
<1>3. CASE ids # {}
  <2> DEFINE m == Max(ids)
  <2>1. m \in ids /\ \A y \in ids : y <= m
    <3>1. \A y \in ids : y <= b
      BY <1>0
    <3> HIDE DEF ids
    <3> QED BY <1>0, <1>3, <3>1, MaxProperty
  <2> HIDE DEF m
  <2> DEFINE low == {y \in S : y < m}
  <2>2. ids \ {m} = low
    <3>1. ASSUME NEW y \in ids, y # m PROVE y \in low
      BY <3>1, <2>1, <1>0
    <3>2. ASSUME NEW y \in low PROVE y \in ids /\ y # m
      <4>1. y \in S /\ y < m /\ y \in Nat /\ m \in Nat
        BY <1>0, <2>1
      <4>2. y \in ids
        BY <4>1, <2>1, SmallestClosed
      <4> QED BY <4>1, <4>2
    <3> QED BY <3>1, <3>2
  <2>3. Cardinality(low) < n
    BY <2>1 DEF Smallest
  <2>4. Cardinality(ids \ {m}) = Cardinality(ids) - 1
    <3> HIDE DEF ids
    <3> QED BY <1>1, <2>1, FS_RemoveElement
  <2>5. Cardinality(ids) <= n
    BY <2>2, <2>3, <2>4, <1>1
  <2>6. ASSUME S # ids PROVE Cardinality(ids) = n
    <3>1. S \ ids # {} /\ S \ ids \in SUBSET Nat
      BY <2>6, <1>0
    <3>2. PICK z \in S \ ids : \A y \in S \ ids : z <= y
      <4> HIDE DEF ids
      <4> QED BY <3>1, LeastElement
    <3> DEFINE lowZ == {y \in S : y < z}
    <3>3. lowZ \in SUBSET ids
      <4> SUFFICES ASSUME NEW y \in lowZ PROVE y \in ids
        OBVIOUS
      <4>1. y \in S /\ y < z /\ y \in Nat /\ z \in Nat
        BY <1>0
      <4> QED BY <4>1, <3>2
    <3>4. ~(Cardinality(lowZ) < n)
      BY <3>2 DEF Smallest
    <3>5. /\ Cardinality(lowZ) <= Cardinality(ids)
          /\ IsFiniteSet(lowZ)
      <4> HIDE DEF ids, lowZ
      <4> QED BY <3>3, <1>1, FS_Subset
    <3>6. Cardinality(lowZ) \in Nat
      BY <3>5, FS_CardinalityType
    <3> QED BY <3>4, <3>5, <3>6, <2>5, <1>1
  <2> QED BY <2>5, <2>6, <1>1
<1> QED BY <1>2, <1>3

-----------------------------------------------------------------------------
(* The boundary is the pinned one, or lies at the start or at a row the
   database has used.                                                        *)
LEMMA UpperBounds ==
  ASSUME NEW rows, DOMAIN rows \in SUBSET Nat,
         NEW n \in Nat, \A r \in DOMAIN rows : r <= n,
         NEW after \in Nat, NEW through \in Nat, through # 0 => through >= after
  PROVE  LET u == Upper(rows, after, through)
         IN  /\ u \in Nat /\ after <= u
             /\ through # 0 => u = through
             /\ through = 0 => u = after \/ u <= n
<1>1. CASE through # 0
  BY <1>1 DEF Upper
<1>2. CASE through = 0
  <2> DEFINE S == DOMAIN rows \cup {after}
             b == IF n < after THEN after ELSE n
  <2>1. S \in SUBSET Nat /\ S # {} /\ after \in S /\ b \in Nat /\ \A y \in S : y <= b
    OBVIOUS
  <2>2. Max(S) \in S /\ \A y \in S : y <= Max(S)
    <3> HIDE DEF S, b
    <3> QED BY <2>1, MaxProperty
  <2>3. Upper(rows, after, through) = Max(S)
    BY <1>2 DEF Upper
  <2>4. /\ Max(S) \in Nat
        /\ after <= Max(S)
        /\ Max(S) = after \/ Max(S) <= n
    <3> DEFINE u == Max(S)
    <3> HIDE DEF u
    <3>1. u \in DOMAIN rows \cup {after} /\ after <= u
      BY <2>1, <2>2 DEF u
    <3>2. u \in Nat /\ (u = after \/ u <= n)
      BY <3>1
    <3> QED BY <3>1, <3>2 DEF u
  <2> QED BY <2>3, <2>4, <1>2
<1> QED BY <1>1, <1>2

-----------------------------------------------------------------------------
(* What every page of every database satisfies: its bounds, that an incomplete
   page makes progress, that its rows are rows of the database past the start,
   and that no eligible row at or below the scanned position is left out.     *)
PageFacts(p, rows, after, through, notBefore) ==
  LET upper == Upper(rows, after, through)
  IN  /\ p.through = upper
      /\ p.complete \in BOOLEAN
      /\ p.scanned \in Nat /\ after <= p.scanned /\ p.scanned <= upper
      /\ p.complete <=> p.scanned = upper
      /\ ~p.complete => after < p.scanned
      /\ DOMAIN p.rows \subseteq DOMAIN rows
      /\ p.rows \in [DOMAIN p.rows -> {rows[r] : r \in DOMAIN p.rows}]
      /\ \A r \in DOMAIN p.rows :
           after < r /\ r <= p.scanned /\ p.rows[r] = rows[r]
           /\ (notBefore => Selectable(rows[r]))
      /\ \A r \in DOMAIN rows :
           after < r /\ r <= p.scanned /\ (notBefore => Selectable(rows[r]))
           => r \in DOMAIN p.rows

LEMMA ScanPageFacts ==
  ASSUME NEW rows, DOMAIN rows \in SUBSET Nat,
         NEW n \in Nat, \A r \in DOMAIN rows : r <= n,
         NEW after \in Nat, NEW through \in Nat, through # 0 => through >= after,
         NEW limit \in Nat \ {0}, NEW notBefore \in BOOLEAN
  PROVE  /\ PageFacts(ScanPage(rows, after, through, limit, notBefore),
                      rows, after, through, notBefore)
         /\ ValidPage(ScanPage(rows, after, through, limit, notBefore),
                      after, through, limit)
<1> DEFINE upper == Upper(rows, after, through)
           S     == Eligible(rows, after, upper, notBefore)
           ids   == Smallest(S, limit)
           last  == Max(ids \cup {after})
           rest  == Eligible(rows, last, upper, notBefore)
           more  == rest # {}
           p     == ScanPage(rows, after, through, limit, notBefore)
<1>1. /\ upper \in Nat /\ after <= upper /\ (through # 0 => upper = through)
  BY UpperBounds
<1> HIDE DEF upper
<1>2. /\ S = {r \in DOMAIN rows : after < r /\ r <= upper /\ (notBefore => Selectable(rows[r]))}
      /\ S \in SUBSET Nat /\ S \in SUBSET DOMAIN rows
      /\ \A r \in S : r \in Nat /\ after < r /\ r <= upper
  <2>1. S = {r \in DOMAIN rows : after < r /\ r <= upper /\ (notBefore => Selectable(rows[r]))}
    BY DEF Eligible, Window
  <2>2. \A r \in S : r \in DOMAIN rows /\ after < r /\ r <= upper
    <3> HIDE DEF S
    <3> QED BY <2>1
  <2>3. \A r \in DOMAIN rows : r \in Nat
    OBVIOUS
  <2> HIDE DEF S
  <2>4. S \in SUBSET Nat /\ S \in SUBSET DOMAIN rows
    BY <2>2, <2>3
  <2>5. \A r \in S : r \in Nat /\ after < r /\ r <= upper
    BY <2>2, <2>3
  <2> QED BY ONLY <2>1, <2>4, <2>5 DEF S
<1>3. ids \in SUBSET S
  BY DEF Smallest
<1>4. /\ IsFiniteSet(ids)
      /\ Cardinality(ids) <= limit
      /\ S # ids => Cardinality(ids) = limit
  <2> HIDE DEF S
  <2> QED BY <1>1, <1>2, SmallestCount
<1>5. /\ last \in Nat /\ last \in ids \cup {after} /\ after <= last /\ last <= upper
      /\ \A y \in ids : y <= last
  <2> DEFINE T == ids \cup {after}
  <2>1. T \in SUBSET Nat /\ T # {} /\ after \in T /\ \A y \in T : y <= upper
    BY <1>1, <1>2, <1>3
  <2>2. Max(T) \in T /\ \A y \in T : y <= Max(T)
    <3> HIDE DEF T
    <3> QED BY <2>1, <1>1, MaxProperty
  <2> QED BY <2>1, <2>2
<1>6. \A r \in S : r <= last => r \in ids
  <2> SUFFICES ASSUME NEW r \in S, r <= last PROVE r \in ids
    OBVIOUS
  <2>1. last \in ids
    BY <1>2, <1>5
  <2>2. CASE r = last
    BY <2>1, <2>2
  <2>3. CASE r < last
    <3> HIDE DEF S, last
    <3> QED BY <2>1, <2>3, <1>2, SmallestClosed
  <2> QED BY <2>2, <2>3, <1>2, <1>5
<1>7. rest = {r \in S : last < r}
  <2>1. rest = {r \in DOMAIN rows : last < r /\ r <= upper /\ (notBefore => Selectable(rows[r]))}
    BY DEF Eligible, Window
  <2> HIDE DEF last, rest, S
  <2> QED BY <2>1, <1>2, <1>5
<1> HIDE DEF last, rest, S
<1>8. rest = {} <=> S = ids
  <2> HIDE DEF ids
  <2>1. ASSUME rest = {} PROVE S \subseteq ids
    BY <2>1, <1>2, <1>5, <1>6, <1>7
  <2>2. ASSUME S = ids PROVE rest = {}
    BY <2>2, <1>2, <1>3, <1>5, <1>7
  <2> QED BY <2>1, <2>2, <1>3
<1>9. ASSUME rest # {} PROVE last \in ids /\ after < last /\ last < upper
  <2> HIDE DEF ids
  <2>1. PICK r \in S : last < r
    BY <1>7, <1>9
  <2>2. last < upper
    BY <2>1, <1>1, <1>2, <1>5
  <2>3. ids # {}
    BY <2>1, <1>2, SmallestNonempty DEF ids
  <2>4. PICK x \in ids : x \in Nat /\ after < x
    BY <2>3, <1>2, <1>3
  <2>5. after < last
    BY <2>4, <1>5
  <2> QED BY <2>2, <2>5, <1>5
<1>10. p = [rows |-> [r \in ids |-> rows[r]], through |-> upper,
            scanned |-> IF more THEN last ELSE upper, complete |-> ~more]
  BY DEF ScanPage, PageIDs, upper, last, rest, S
<1> HIDE DEF p, ids
<1>11. /\ DOMAIN p.rows = ids /\ \A r \in ids : p.rows[r] = rows[r]
       /\ p.rows = [r \in ids |-> rows[r]]
       /\ p.through = upper
       /\ p.complete \in BOOLEAN
       /\ p.complete <=> rest = {}
       /\ rest # {} => p.scanned = last
       /\ rest = {} => p.scanned = upper
  BY <1>10
<1>12. PageFacts(p, rows, after, through, notBefore)
  <2>0. p.through = upper /\ p.complete \in BOOLEAN /\ DOMAIN p.rows = ids
        /\ \A r \in ids : p.rows[r] = rows[r]
    BY <1>11
  <2>1. /\ p.scanned \in Nat /\ after <= p.scanned /\ p.scanned <= upper
        /\ p.complete <=> p.scanned = upper
        /\ ~p.complete => after < p.scanned
    BY <1>1, <1>5, <1>9, <1>11
  <2>2. /\ ids \subseteq DOMAIN rows
        /\ p.rows \in [ids -> {rows[r] : r \in ids}]
    BY <1>2, <1>3, <1>11
  <2>3. \A r \in ids : after < r /\ r <= p.scanned /\ (notBefore => Selectable(rows[r]))
    BY <1>1, <1>2, <1>3, <1>5, <1>11
  <2>4. ASSUME NEW r \in DOMAIN rows, after < r, r <= p.scanned,
               notBefore => Selectable(rows[r])
        PROVE  r \in ids
    <3>1. r \in Nat /\ r \in S
      BY <2>1, <2>4, <1>1, <1>2
    <3> QED BY <3>1, <2>4, <1>1, <1>5, <1>6, <1>8, <1>11
  <2>5. \A r \in DOMAIN rows : after < r /\ r <= p.scanned /\ (notBefore => Selectable(rows[r]))
                               => r \in ids
    BY <2>4
  <2>6. /\ DOMAIN p.rows \subseteq DOMAIN rows
        /\ p.rows \in [DOMAIN p.rows -> {rows[r] : r \in DOMAIN p.rows}]
    BY ONLY <2>0, <2>2
  <2>7. \A r \in DOMAIN p.rows : after < r /\ r <= p.scanned /\ p.rows[r] = rows[r]
           /\ (notBefore => Selectable(rows[r]))
    BY ONLY <2>0, <2>3
  <2>8. \A r \in DOMAIN rows : after < r /\ r <= p.scanned /\ (notBefore => Selectable(rows[r]))
                               => r \in DOMAIN p.rows
    BY ONLY <2>0, <2>5
  <2> QED BY ONLY <2>0, <2>1, <2>6, <2>7, <2>8 DEF PageFacts, upper
<1>13. ValidPage(p, after, through, limit)
  <2>1. \A r \in ids : after < r /\ r <= p.through
    BY <1>2, <1>3, <1>11
  <2>2. ASSUME ~p.complete
        PROVE  /\ Cardinality(ids) = limit
               /\ last \in ids /\ (\A r \in ids : r <= last)
               /\ last < p.through /\ p.scanned = last
    BY <2>2, <1>4, <1>5, <1>8, <1>9, <1>11
  <2>3. p.complete => p.scanned = p.through
    BY <1>11
  <2> QED BY <2>1, <2>2, <2>3, <1>1, <1>4, <1>11 DEF ValidPage
<1> QED BY <1>12, <1>13 DEF p
=============================================================================
