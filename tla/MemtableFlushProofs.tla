------------------------ MODULE MemtableFlushProofs ------------------------
EXTENDS MemtableFlush, FiniteSetTheorems, WellFoundedInduction, TLAPS

-----------------------------------------------------------------------------
(* Least and greatest members, positions and cells.                        *)

(* A set of naturals that is not empty has a least member, and Lowest is   *)
(* it.                                                                     *)
LEMMA LowestIn ==
    ASSUME NEW S, S \subseteq Nat, S # {}
    PROVE  Lowest(S) \in S /\ \A y \in S : Lowest(S) <= y
<1> DEFINE T == {0..x : x \in S}
<1>1. T \subseteq FiniteSubsetsOf(Nat) /\ T # {}
  <2>1. \A x \in S : 0..x \subseteq Nat /\ IsFiniteSet(0..x)
    BY FS_Interval
  <2> QED  BY <2>1 DEF FiniteSubsetsOf
<1>2. PICK A \in T : \A B \in T : ~(<<B, A>> \in StrictSubsetOrdering(Nat))
  <2>1. IsWellFoundedOn(StrictSubsetOrdering(Nat), FiniteSubsetsOf(Nat))
    BY FS_StrictSubsetOrderingWellFounded
  <2> HIDE DEF T
  <2> QED  BY <1>1, <2>1, WFMin
<1>3. PICK x \in S : A = 0..x
  BY <1>2
<1>4. ASSUME NEW y \in S, y < x PROVE FALSE
  <2>1. 0..y \in T /\ 0..y \in SUBSET Nat /\ 0..x \in SUBSET Nat
    BY <1>4
  <2>2. 0..y \subseteq 0..x
    BY <1>4
  <2>3. x \in 0..x /\ x \notin 0..y
    BY <1>4
  <2> HIDE DEF T
  <2>4. <<0..y, 0..x>> \in StrictSubsetOrdering(Nat)
    BY <2>1, <2>2, <2>3 DEF StrictSubsetOrdering
  <2> QED  BY <1>2, <1>3, <2>1, <2>4
<1>5. x \in S /\ \A y \in S : x <= y
  BY <1>4
<1> QED  BY <1>5 DEF Lowest

(* One that has a bound has a greatest member, and Highest is it.          *)
LEMMA HighestIn ==
    ASSUME NEW S, S \subseteq Nat, S # {}, NEW N \in Nat, \A x \in S : x <= N
    PROVE  Highest(S) \in S /\ \A y \in S : y <= Highest(S)
<1> DEFINE T == {N - x : x \in S}
<1>1. T \subseteq Nat /\ T # {}
  <2>1. \A x \in S : N - x \in Nat
    OBVIOUS
  <2> QED  BY <2>1
<1>2. Lowest(T) \in T /\ \A y \in T : Lowest(T) <= y
  BY <1>1, LowestIn
<1>3. PICK x \in S : Lowest(T) = N - x
  BY <1>2
<1>4. \A y \in S : N - x <= N - y
  BY <1>2, <1>3
<1>5. \A y \in S : y <= x
  BY <1>4
<1> QED  BY <1>5 DEF Highest

(* Positions less than a ring apart are in different cells.                *)
LEMMA CellsApart ==
    ASSUME NEW R \in Nat, R > 0, NEW a \in Int, NEW b \in Int, a < b, b - a < R
    PROVE  a % R # b % R
<1>1. a = R * (a \div R) + (a % R)
  OBVIOUS
<1>2. b = R * (b \div R) + (b % R)
  OBVIOUS
<1>3. a \div R \in Int /\ b \div R \in Int
  OBVIOUS
<1>4. PICK p \in Int, q \in Int : a = R * p + (a % R) /\ b = R * q + (b % R)
  BY <1>1, <1>2, <1>3
<1>5. ASSUME a % R = b % R PROVE FALSE
  <2>1. b - a = R * q - R * p
    <3>1. a % R \in Int /\ b % R \in Int  OBVIOUS
    <3>2. R * p \in Int /\ R * q \in Int  OBVIOUS
    <3> QED  BY <1>4, <1>5, <3>1, <3>2
  <2>2. R * q - R * p = R * (q - p)
    OBVIOUS
  <2>3. q - p <= 0 => R * (q - p) <= 0
    OBVIOUS
  <2>4. q - p >= 1 => R * (q - p) >= R
    OBVIOUS
  <2> QED  BY <2>1, <2>2, <2>3, <2>4
<1> QED  BY <1>5

(* A position has a cell.                                                  *)
LEMMA CellOf ==
    ASSUME NEW pos \in Nat
    PROVE  pos % RingSize \in 0..RingSize - 1
  BY ConstantsAssumption
-----------------------------------------------------------------------------
(* The invariant.                                                          *)

Active == {"cut", "snapped", "packed"}

Naming(h)  == {ino \in Inodes : content[ino] = h}
Holding(h) == {ino \in Inodes : frozen[ino] = h}
Count(h) == Cardinality(Naming(h)) + Cardinality(Holding(h))

(* One run at a time is before its publication, over records of the index, *)
(* and plans for every file that names one of them.                        *)
OneRun == \A a, b \in DOMAIN runs :
    runs[a].phase \in Active /\ runs[b].phase \in Active => a = b
RunTakes == \A b \in DOMAIN runs : runs[b].phase \in Active =>
    /\ runs[b].recs \subseteq DOMAIN index /\ runs[b].plan \subseteq runs[b].recs
    /\ runs[b].phase # "cut" => \A ino \in Inodes :
          content[ino] \in runs[b].recs => content[ino] \in runs[b].plan

(* Every published run has one batch in the queue, not done, and no other  *)
(* run has one.                                                            *)
Batched ==
    /\ \A b \in DOMAIN runs : runs[b].phase \in Active => \A k \in DOMAIN locating : locating[k].b # b
    /\ \A b \in DOMAIN runs : runs[b].phase \notin Active =>
          \E k \in DOMAIN locating : locating[k].b = b /\ ~locating[k].done
    /\ \A j, k \in DOMAIN locating : locating[j].b = locating[k].b => j = k

(* The runs are numbered below some bound, so a new number can be had.     *)
RunsBounded == \E N \in Nat :
    (\A b \in DOMAIN runs : b <= N) /\ (\A k \in DOMAIN locating : locating[k].b <= N)

(* The next handle is new: nothing names it, or has a row for it.          *)
Below ==
    /\ \A ino \in Inodes : content[ino] < nextHandle /\ frozen[ino] < nextHandle
    /\ \A h \in DOMAIN index : h < nextHandle
    /\ \A h \in Handles : handleLoc[h] # NoData \/ jHandles[h] # NoData => h < nextHandle
PlansBelow == \A b \in DOMAIN runs : \A h \in runs[b].plan : h < nextHandle

(* A frozen view names no record of the ring, and there is one only while  *)
(* a checkpoint renders it.                                                *)
FrozenOut ==
    /\ \A ino \in Inodes : frozen[ino] \notin DOMAIN index
    /\ ck \notin {"render", "sealed"} => frozen = NoView

(* Every extent is counted in one place, and the count is its references.  *)
Counted ==
    /\ \A h \in DOMAIN index : live[h] = Count(h) /\ (handleLoc[h] # NoData => locRefs[h] = 0)
    /\ \A h \in Handles \ DOMAIN index :
          live[h] = 0 /\ (handleLoc[h] # NoData => locRefs[h] = Count(h))

(* A checkpoint that holds the overlay's lock is in its second Flush, no   *)
(* writer waits, and a writer that waits has a handle to give out.         *)
LockHeld ==
    /\ locked => waiting = {} /\ ck \in {"pack", "locate", "drain", "flushed"}
    /\ waiting # {} => nextHandle <= MaxHandle /\ \E w \in Writers : waiting = {w}

MapInv  == MapTypes /\ Below /\ FrozenOut /\ Counted
RunInv  == PipeTypes /\ OneRun /\ RunTakes /\ PlansBelow /\ RunsBounded /\ Batched
WaitInv == WaitTypes /\ LockHeld
BookInv == RingTypes /\ MapInv /\ SendTypes /\ RunInv /\ WaitInv

-----------------------------------------------------------------------------
(* References.                                                             *)

LEMMA CountIsNat ==
    ASSUME NEW f, NEW h
    PROVE  /\ IsFiniteSet({ino \in Inodes : f[ino] = h})
           /\ Cardinality({ino \in Inodes : f[ino] = h}) \in Nat
<1>1. IsFiniteSet(Inodes)  BY ConstantsAssumption
<1> QED  BY <1>1, FS_Subset, FS_CardinalityType

(* A count of references is a number, before a step and after it.          *)
LEMMA CountsAreNat == \A h : Count(h) \in Nat /\ Count(h)' \in Nat
<1> TAKE h
<1>1. Cardinality(Naming(h)) \in Nat /\ Cardinality(Holding(h)) \in Nat
  BY CountIsNat DEF Naming, Holding
<1>2. Cardinality(Naming(h)') \in Nat /\ Cardinality(Holding(h)') \in Nat
  BY CountIsNat DEF Naming, Holding
<1> QED  BY <1>1, <1>2 DEF Count

(* One file names another extent.                                          *)
LEMMA Renamed ==
    ASSUME content \in [Inodes -> 0..MaxHandle], NEW ino \in Inodes, NEW h \in 0..MaxHandle,
           h # content[ino], content' = [content EXCEPT ![ino] = h], frozen' = frozen
    PROVE  \A x \in Handles :
              Count(x)' = Count(x) + (IF x = h THEN 1 ELSE 0) + Release1(content[ino])[x]
<1> TAKE x \in Handles
<1>1. IsFiniteSet(Naming(x)) /\ Cardinality(Naming(x)) \in Nat /\ Cardinality(Holding(x)) \in Nat
  BY CountIsNat DEF Naming, Holding
<1>2. Holding(x)' = Holding(x)
  BY DEF Holding
<1>3. Release1(content[ino])[x] = IF x = content[ino] THEN -1 ELSE 0
  BY DEF Release1
<1>4. CASE x = h
  <2>1. Naming(x)' = Naming(x) \cup {ino} /\ ino \notin Naming(x)
    BY <1>4 DEF Naming
  <2>2. Cardinality(Naming(x)') = Cardinality(Naming(x)) + 1
    BY <1>1, <2>1, FS_AddElement
  <2> QED  BY <1>1, <1>2, <1>3, <1>4, <2>2 DEF Count
<1>5. CASE x = content[ino]
  <2>1. Naming(x)' = Naming(x) \ {ino} /\ ino \in Naming(x)
    BY <1>5 DEF Naming
  <2>2. Cardinality(Naming(x)') = Cardinality(Naming(x)) - 1
    BY <1>1, <2>1, FS_RemoveElement
  <2> QED  BY <1>1, <1>2, <1>3, <1>5, <2>2 DEF Count
<1>6. CASE x # h /\ x # content[ino]
  <2>1. Naming(x)' = Naming(x)
    BY <1>6 DEF Naming
  <2> QED  BY <1>1, <1>2, <1>3, <1>6, <2>1 DEF Count
<1> QED  BY <1>4, <1>5, <1>6

(* An extent somebody names, or a view holds, is counted.                  *)
LEMMA Referenced ==
    ASSUME NEW ino \in Inodes
    PROVE  Count(content[ino]) > 0 /\ Count(frozen[ino]) > 0
<1>1. \A h : /\ IsFiniteSet(Naming(h)) /\ Cardinality(Naming(h)) \in Nat
             /\ IsFiniteSet(Holding(h)) /\ Cardinality(Holding(h)) \in Nat
  BY CountIsNat DEF Naming, Holding
<1>2. ino \in Naming(content[ino]) /\ ino \in Holding(frozen[ino])
  BY DEF Naming, Holding
<1>3. Cardinality(Naming(content[ino])) # 0 /\ Cardinality(Holding(frozen[ino])) # 0
  BY <1>1, <1>2, FS_EmptySet
<1> QED  BY <1>1, <1>3 DEF Count

(* An extent nobody names or holds counts nothing.                         *)
LEMMA Unnamed ==
    ASSUME NEW h, \A ino \in Inodes : content[ino] # h /\ frozen[ino] # h
    PROVE  Count(h) = 0
<1>1. Naming(h) = {} /\ Holding(h) = {}
  BY DEF Naming, Holding
<1> QED  BY <1>1, FS_EmptySet DEF Count

(* Deltas that are right for the references make counts that are right.    *)
Fits(dom, lv, d, n) ==
    /\ dom \subseteq Handles /\ lv \in [Handles -> Nat] /\ d \in [Handles -> Int]
    /\ n \in [Handles -> Nat]
    /\ handleLoc \in [Handles -> Bodies] /\ locRefs \in [Handles -> Nat]
    /\ \A h \in dom : lv[h] + d[h] = n[h] /\ (handleLoc[h] # NoData => locRefs[h] = 0)
    /\ \A h \in Handles \ dom :
          lv[h] = 0 /\ (handleLoc[h] # NoData => locRefs[h] + d[h] = n[h])

Fitted(dom, n) ==
    /\ live' \in [Handles -> Nat] /\ locRefs' \in [Handles -> Nat]
    /\ handleLoc' \in [Handles -> Bodies]
    /\ \A h \in dom : live'[h] = n[h] /\ (handleLoc'[h] # NoData => locRefs'[h] = 0)
    /\ \A h \in Handles \ dom : live'[h] = 0 /\ (handleLoc'[h] # NoData => locRefs'[h] = n[h])
    /\ \A h \in Handles : /\ handleLoc'[h] # NoData => handleLoc'[h] = handleLoc[h]
                          /\ h \in dom \/ n[h] > 0 => handleLoc'[h] = handleLoc[h]

(* Apply, given deltas that fit, leaves counts that are right.             *)
LEMMA Applied ==
    ASSUME NEW dom, NEW lv, NEW d, NEW n, Fits(dom, lv, d, n), Apply(dom, lv, d)
    PROVE  Fitted(dom, n)
<1>1. \A h \in dom : /\ live'[h] = n[h] /\ locRefs'[h] = locRefs[h] /\ handleLoc'[h] = handleLoc[h]
                     /\ handleLoc[h] # NoData => locRefs[h] = 0
  BY DEF Apply, Fits
<1>2. \A h \in Handles \ dom :
          /\ live'[h] = 0
          /\ handleLoc[h] = NoData => locRefs'[h] = locRefs[h] /\ handleLoc'[h] = NoData
          /\ handleLoc[h] # NoData => locRefs'[h] = n[h]
                /\ (handleLoc'[h] = handleLoc[h] \/ (handleLoc'[h] = NoData /\ n[h] = 0))
  BY DEF Apply, Fits
<1>3. /\ DOMAIN live' = Handles /\ DOMAIN locRefs' = Handles /\ DOMAIN handleLoc' = Handles
      /\ live' = [h \in Handles |-> live'[h]] /\ locRefs' = [h \in Handles |-> locRefs'[h]]
      /\ handleLoc' = [h \in Handles |-> handleLoc'[h]]
  BY DEF Apply
<1>4. \A h \in Handles : live'[h] \in Nat /\ locRefs'[h] \in Nat /\ handleLoc'[h] \in Bodies
  BY <1>1, <1>2 DEF Bodies, Fits
<1>5. dom \subseteq Handles
  BY DEF Fits
<1> QED  BY <1>1, <1>2, <1>3, <1>4, <1>5 DEF Fitted

(* Counts that fit the references of the next state are its books.         *)
LEMMA Recounted ==
    ASSUME NEW n, Fitted(DOMAIN index', n), \A x \in Handles : n[x] = Count(x)',
           DOMAIN index' \subseteq Handles
    PROVE  /\ Counted'
           /\ live' \in [Handles -> Nat] /\ locRefs' \in [Handles -> Nat]
           /\ handleLoc' \in [Handles -> Bodies]
           /\ \A x \in Handles : handleLoc'[x] # NoData => handleLoc[x] # NoData
<1>1. \A x \in Handles : handleLoc'[x] # NoData => handleLoc'[x] = handleLoc[x]
  BY DEF Fitted
<1>2. \A x \in DOMAIN index' : live'[x] = Count(x)' /\ (handleLoc'[x] # NoData => locRefs'[x] = 0)
  BY DEF Fitted
<1>3. \A x \in Handles \ DOMAIN index' :
          live'[x] = 0 /\ (handleLoc'[x] # NoData => locRefs'[x] = Count(x)')
  BY DEF Fitted
<1>4. Counted'
  BY <1>2, <1>3 DEF Counted
<1>5. \A x \in Handles : handleLoc'[x] # NoData => handleLoc[x] # NoData
  BY <1>1
<1> QED  BY <1>4, <1>5 DEF Fitted

-----------------------------------------------------------------------------
(* What a step leaves alone.                                               *)

LEMMA Members ==
    ASSUME NEW S, NEW s \in Seq(S)
    PROVE  Len(s) \in Nat /\ DOMAIN s = 1..Len(s) /\ \A k \in DOMAIN s : s[k] \in S
  OBVIOUS

(* The queue of batches, one by one.                                       *)
LEMMA Batch ==
    ASSUME locating \in Seq(Batches)
    PROVE  /\ Len(locating) \in Nat /\ DOMAIN locating = 1..Len(locating)
           /\ \A k \in DOMAIN locating : /\ locating[k] \in Batches /\ locating[k].b \in Nat
                                         /\ locating[k].to \in Nat /\ locating[k].done \in BOOLEAN
<1>1. \A k \in DOMAIN locating : locating[k] \in Batches
  BY Members
<1> QED  BY <1>1, Members DEF Batches

(* A step that leaves the ring alone keeps its types.                      *)
LEMMA RingStands ==
    ASSUME RingTypes, UNCHANGED <<cell, head, tail, seq, reclaimTo, reader>>
    PROVE  RingTypes'
  BY DEF RingTypes

(* A step that leaves the packs alone keeps their types.                   *)
LEMMA SendsStand ==
    ASSUME SendTypes, UNCHANGED <<packs, chunkLoc, jChunks>>
    PROVE  SendTypes'
  BY DEF SendTypes

(* A step that leaves the maps and the references alone keeps the books.   *)
LEMMA MapsStand ==
    ASSUME MapInv, UNCHANGED <<head, index, order, live, handleLoc, locRefs, content, frozen,
                               nextHandle, jHandles>>,
           ck' \in {"render", "sealed"} \/ frozen = NoView
    PROVE  MapInv'
<1>1. \A h : Count(h)' = Count(h)
  BY DEF Count, Naming, Holding
<1>2. Counted'
  BY <1>1 DEF MapInv, Counted
<1> QED  BY <1>2 DEF MapInv, MapTypes, Below, FrozenOut, NoView

(* A step that leaves the runs alone, and takes no record out of the       *)
(* index, keeps them.                                                      *)
LEMMA RunsStand ==
    ASSUME RunInv, UNCHANGED <<runs, packing, locating>>,
           head \in Nat, head' \in Nat, head <= head',
           Len(packs) \in Nat, Len(packs') \in Nat, Len(packs) <= Len(packs'),
           DOMAIN index \subseteq DOMAIN index', nextHandle \in Nat, nextHandle' \in Nat,
           nextHandle <= nextHandle', DOMAIN index \subseteq Handles,
           \A ino \in Inodes : content'[ino] = content[ino] \/ content'[ino] \notin DOMAIN index
    PROVE  RunInv'
<1>1. \A b \in DOMAIN runs : /\ runs[b].to \in Nat /\ runs[b].pack \in Nat
                             /\ runs[b].to <= head /\ runs[b].pack <= Len(packs)
                             /\ runs[b].plan \subseteq Nat
  BY DEF RunInv, PipeTypes, RunOf, Handles
<1>2. \A k \in DOMAIN locating : locating[k].to \in Nat /\ locating[k].to <= head
  BY Batch DEF RunInv, PipeTypes
<1>3. PipeTypes'
  <2>1. \A b \in DOMAIN runs : runs[b].to <= head' /\ runs[b].pack <= Len(packs')
    BY <1>1
  <2>2. \A k \in DOMAIN locating : locating[k].to <= head'
    BY <1>2
  <2> QED  BY <2>1, <2>2 DEF RunInv, PipeTypes
<1>4. OneRun' /\ RunsBounded' /\ Batched'
  BY DEF RunInv, OneRun, RunsBounded, Batched
<1>5. PlansBelow'
  BY <1>1 DEF RunInv, PlansBelow
<1>6. RunTakes'
  BY DEF RunInv, RunTakes
<1> QED  BY <1>3, <1>4, <1>5, <1>6 DEF RunInv

(* A new run.                                                              *)
LEMMA NewNumber ==
    ASSUME RunInv
    PROVE  NewRun \in Nat /\ NewRun \notin DOMAIN runs /\ \A k \in DOMAIN locating : locating[k].b # NewRun
<1> DEFINE S == {0} \cup DOMAIN runs \cup {locating[k].b : k \in DOMAIN locating}
<1>1. PICK N \in Nat : (\A b \in DOMAIN runs : b <= N) /\ (\A k \in DOMAIN locating : locating[k].b <= N)
  BY DEF RunInv, RunsBounded
<1>2. \A k \in DOMAIN locating : locating[k].b \in Nat
  BY Batch DEF RunInv, PipeTypes
<1>3. S \subseteq Nat /\ S # {} /\ \A x \in S : x <= N
  BY <1>1, <1>2 DEF RunInv, PipeTypes
<1>4. Highest(S) \in Nat /\ \A y \in S : y <= Highest(S)
  BY <1>3, HighestIn
<1>5. NewRun = 1 + Highest(S)
  BY DEF NewRun
<1>6. DOMAIN runs \subseteq S /\ \A k \in DOMAIN locating : locating[k].b \in S
  OBVIOUS
<1> HIDE DEF S
<1>7. \A y \in S : y # NewRun
  BY <1>3, <1>4, <1>5
<1>8. NewRun \in Nat
  BY <1>4, <1>5
<1> QED  BY <1>6, <1>7, <1>8, Zenon

(* A cut is a finite set of places of records of the index.                *)
LEMMA Places ==
    ASSUME NEW ix, NEW ord \in Seq(Handles), NEW hd, NEW distance
    PROVE  LET places == Cut(ix, ord, hd, distance) IN
           /\ places \subseteq 1..Len(ord) /\ IsFiniteSet(places)
           /\ Cardinality(places) \in 0..Len(ord)
           /\ places # {} => Highest(places) \in places
           /\ \A k \in places : ord[k] \in DOMAIN ix /\ ord[k] \in Handles
<1> DEFINE places == Cut(ix, ord, hd, distance)
<1>1. places \subseteq 1..Len(ord) /\ Len(ord) \in Nat
      /\ \A k \in places : ord[k] \in DOMAIN ix /\ ord[k] \in Handles
  BY DEF Cut
<1>2. IsFiniteSet(1..Len(ord)) /\ Cardinality(1..Len(ord)) = Len(ord)
  BY <1>1, FS_Interval
<1> HIDE DEF places
<1>3. IsFiniteSet(places) /\ Cardinality(places) \in Nat /\ Cardinality(places) <= Len(ord)
  BY <1>1, <1>2, FS_Subset, FS_CardinalityType
<1>4. places # {} => Highest(places) \in places
  <2>1. places \subseteq Nat /\ \A k \in places : k <= Len(ord)
    BY <1>1
  <2> QED  BY <1>1, <2>1, HighestIn
<1> QED  BY <1>1, <1>3, <1>4 DEF places

(* A run that is launched is the only one before its publication.          *)
LEMMA Launched ==
    ASSUME RunInv, NEW ix, NEW ord \in Seq(Handles), NEW hd \in Nat, NEW distance,
           DOMAIN ix \subseteq Handles, \A h \in DOMAIN ix : ix[h] \in 0..hd - 1,
           NEW places, places = Cut(ix, ord, hd, distance), places # {},
           ~packing, StartPack(places, ix, ord), head \in Nat, head <= hd,
           head' = hd, index' = ix, locating' = locating, packs' = packs,
           nextHandle \in Nat, nextHandle' \in Nat, nextHandle <= nextHandle'
    PROVE  RunInv'
<1> DEFINE r == [phase |-> "cut", recs |-> {ord[k] : k \in places}, cut |-> Cardinality(places),
                 to |-> ix[ord[Highest(places)]] + 1, plan |-> {},
                 loc |-> [h \in Handles |-> NoData], stored |-> {}, pack |-> 0]
<1>1. runs' = Extended(runs, NewRun, r) /\ packing' = TRUE
  BY DEF StartPack
<1>2. /\ places \subseteq 1..Len(ord) /\ Cardinality(places) \in Nat /\ Highest(places) \in places
      /\ \A k \in places : ord[k] \in DOMAIN ix /\ ord[k] \in Handles
  BY Places
<1>3. r.to \in Nat /\ r.to <= hd
  BY <1>2
<1>4. r \in RunOf
  <2>1. [h \in Handles |-> NoData] \in [Handles -> Bodies]
    BY DEF Bodies
  <2>2. r.recs \subseteq Handles
    BY <1>2
  <2> QED  BY <1>2, <1>3, <2>1, <2>2 DEF RunOf
<1>5. r.phase = "cut" /\ r.plan = {} /\ r.pack = 0 /\ r.recs \subseteq DOMAIN ix
  BY <1>2
<1> HIDE DEF r
<1>6. NewRun \in Nat /\ NewRun \notin DOMAIN runs /\ \A k \in DOMAIN locating : locating[k].b # NewRun
  BY NewNumber
<1>7. /\ DOMAIN runs' = DOMAIN runs \cup {NewRun} /\ runs'[NewRun] = r
      /\ \A b \in DOMAIN runs : runs'[b] = runs[b] /\ b # NewRun
      /\ runs' = [b \in DOMAIN runs' |-> runs'[b]]
  BY <1>1, <1>6 DEF Extended
<1>8. \A b \in DOMAIN runs : runs[b].phase \notin Active
  BY DEF RunInv, PipeTypes, Active
<1>9. PipeTypes'
  <2>1. /\ DOMAIN runs \subseteq Nat /\ runs \in [DOMAIN runs -> RunOf] /\ locating \in Seq(Batches)
        /\ \A b \in DOMAIN runs : runs[b].to <= head /\ runs[b].pack <= Len(packs) /\ runs[b].to \in Nat
        /\ \A k \in DOMAIN locating : locating[k].to <= head /\ locating[k].to \in Nat
    BY Batch DEF RunInv, PipeTypes, RunOf
  <2>2. \A b \in DOMAIN runs' : runs'[b] \in RunOf /\ runs'[b].to <= head' /\ runs'[b].pack <= Len(packs') /\ b \in Nat
    <3>1. CASE NewRun \in Nat /\ Len(packs) \in Nat
      BY <1>3, <1>4, <1>5, <1>6, <1>7, <2>1, <3>1
    <3> QED  BY <1>6, <3>1
  <2>3. packing' = (\E b \in DOMAIN runs' : runs'[b].phase \in {"cut", "snapped", "packed"})
    BY <1>1, <1>5, <1>7
  <2> QED  BY <1>7, <2>1, <2>2, <2>3 DEF PipeTypes
<1>10. OneRun' /\ RunTakes' /\ PlansBelow'
  BY <1>5, <1>7, <1>8 DEF RunInv, OneRun, RunTakes, PlansBelow, PipeTypes, RunOf, Handles
<1>11. RunsBounded'
  <2>1. PICK N \in Nat : (\A b \in DOMAIN runs : b <= N) /\ (\A k \in DOMAIN locating : locating[k].b <= N)
    BY DEF RunInv, RunsBounded
  <2>2. PICK M \in Nat : N <= M /\ NewRun <= M
    BY <1>6
  <2>3. (\A b \in DOMAIN runs' : b <= M) /\ (\A k \in DOMAIN locating' : locating'[k].b <= M)
    BY <1>7, <2>1, <2>2, Batch DEF RunInv, PipeTypes
  <2> QED  BY <2>3 DEF RunsBounded
<1>12. Batched'
  <2>1. Batched
    BY DEF RunInv
  <2> QED  BY <1>5, <1>6, <1>7, <2>1 DEF Batched, Active
<1> QED  BY <1>9, <1>10, <1>11, <1>12 DEF RunInv

-----------------------------------------------------------------------------
(* Steps of writers and readers.                                           *)

(* What the types say of single values.                                    *)
LEMMA Typed ==
    ASSUME BookInv
    PROVE  /\ head \in Nat /\ tail \in Nat /\ tail <= head /\ seq \in Nat /\ RingSize \in Nat /\ RingSize > 0
           /\ MaxHandle \in Nat /\ nextHandle \in Nat /\ reclaimTo \in Nat /\ reclaimTo <= head
           /\ Len(packs) \in Nat /\ DOMAIN packs = 1..Len(packs)
           /\ DOMAIN index \subseteq Handles /\ \A h \in DOMAIN index : index[h] \in 0..head - 1
           /\ order \in Seq(Handles) /\ Len(order) \in Nat /\ DOMAIN order = 1..Len(order)
           /\ NoData \notin Data
<1>1. /\ head \in Nat /\ tail \in Nat /\ tail <= head /\ seq \in Nat
      /\ reclaimTo \in Nat /\ reclaimTo <= head
  BY DEF BookInv, RingTypes
<1>2. /\ RingSize \in Nat /\ RingSize > 0 /\ MaxHandle \in Nat /\ NoData \notin Data
  BY ConstantsAssumption
<1>3. Len(packs) \in Nat /\ DOMAIN packs = 1..Len(packs)
  BY DEF BookInv, SendTypes
<1>4. /\ DOMAIN index \subseteq Handles /\ \A h \in DOMAIN index : index[h] \in 0..head - 1
      /\ order \in Seq(Handles) /\ Len(order) \in Nat /\ DOMAIN order = 1..Len(order)
      /\ nextHandle \in Nat
  BY <1>2 DEF BookInv, MapInv, MapTypes
<1> QED  BY <1>1, <1>2, <1>3, <1>4

(* A writer's turn: the overlay's lock is its own.                         *)
LEMMA WriterAlone ==
    ASSUME BookInv, NEW w \in Writers, w \in waiting \/ (OverlayFree /\ nextHandle <= MaxHandle)
    PROVE  ~locked /\ waiting \subseteq {w} /\ nextHandle \in Handles
<1>1. nextHandle \in Nat /\ nextHandle >= 1 /\ MaxHandle \in Nat
  BY ConstantsAssumption DEF BookInv, MapInv, MapTypes
<1>2. CASE w \in waiting
  BY <1>1, <1>2 DEF BookInv, WaitInv, LockHeld, WaitTypes, Handles
<1>3. CASE OverlayFree /\ nextHandle <= MaxHandle
  BY <1>1, <1>3 DEF OverlayFree, BookInv, WaitInv, WaitTypes, Handles
<1> QED  BY <1>2, <1>3

(* A write that has room (Write, appendLocked).                            *)
LEMMA PlaceStep ==
    ASSUME BookInv, NEW w \in Writers, NEW ino \in Inodes, NEW d \in Data, w \notin asleep,
           w \in waiting \/ (OverlayFree /\ nextHandle <= MaxHandle), Place(w, ino, d)
    PROVE  BookInv'
<1> DEFINE h   == nextHandle
           ix  == Extended(index, h, head)
           ord == Append(order, h)
           lv  == [live EXCEPT ![h] = @ + 1]
           dl  == Release1(content[ino])
<1>1. /\ head \in Nat /\ tail \in Nat /\ tail <= head /\ seq \in Nat /\ RingSize \in Nat /\ RingSize > 0
      /\ MaxHandle \in Nat /\ h \in Nat /\ reclaimTo \in Nat /\ reclaimTo <= head
      /\ DOMAIN index \subseteq Handles /\ \A x \in DOMAIN index : index[x] \in 0..head - 1
      /\ order \in Seq(Handles)
  BY Typed
<1>2. ~locked /\ waiting \subseteq {w} /\ h \in Handles /\ h \in 1..MaxHandle
  BY WriterAlone DEF Handles
<1>3. /\ head' = head + 1 /\ nextHandle' = h + 1 /\ index' = ix /\ order' = ord
      /\ content' = [content EXCEPT ![ino] = h] /\ frozen' = frozen /\ jHandles' = jHandles
      /\ ck' = ck /\ UNCHANGED <<locating, packs>>
  BY DEF Place, sends, disk, point
<1>4. /\ ~Full /\ cell' = [cell EXCEPT ![head % RingSize] = [h |-> h, d |-> d, seq |-> seq]]
      /\ seq' = seq + 1 /\ UNCHANGED <<tail, reclaimTo, reader>>
  BY DEF Place
<1>5. Apply(DOMAIN ix, lv, dl)
  BY DEF Place
<1>6. /\ written' = [written EXCEPT ![ino] = d] /\ waiting' = waiting \ {w}
      /\ UNCHANGED <<chunkLoc, flushErr, locateErr, packs, queueErr, jChunks, asleep, ck, locked,
                     faults, crashes>>
  BY DEF Place, errs, sends, disk, point
<1>7. \/ UNCHANGED <<packing, runs>>
      \/ /\ ~packing /\ Cut(ix, ord, head', Promotion) # {}
         /\ StartPack(Cut(ix, ord, head', Promotion), ix, ord)
  BY DEF Place
<1>8. /\ \A i \in Inodes : /\ content[i] \in Nat /\ frozen[i] \in Nat /\ content[i] < h /\ frozen[i] < h
                             /\ content[i] \in 0..MaxHandle
      /\ h \notin DOMAIN index /\ handleLoc[h] = NoData /\ jHandles[h] = NoData /\ live[h] = 0
      /\ \A x \in DOMAIN index : x < h
  <2>1. \A i \in Inodes : content[i] \in 0..MaxHandle /\ frozen[i] \in 0..MaxHandle
    BY DEF BookInv, MapInv, MapTypes
  <2>2. Below /\ Counted
    BY DEF BookInv, MapInv
  <2>3. h \notin DOMAIN index /\ handleLoc[h] = NoData /\ jHandles[h] = NoData
    BY <1>1, <1>2, <2>2 DEF Below
  <2> QED  BY <1>1, <1>2, <2>1, <2>2, <2>3 DEF Below, Counted
<1>9. /\ DOMAIN ix = DOMAIN index \cup {h} /\ ix[h] = head
      /\ \A x \in DOMAIN index : ix[x] = index[x]
      /\ ix = [x \in DOMAIN ix |-> ix[x]]
  BY <1>8 DEF Extended
<1>10. dl = Release1(content[ino]) /\ dl \in [Handles -> Int] /\ dl[h] = 0
  BY <1>2, <1>8 DEF Release1
<1>11. /\ lv \in [Handles -> Nat] /\ lv[h] = 1 /\ \A x \in Handles \ {h} : lv[x] = live[x]
  BY <1>2, <1>8 DEF BookInv, MapInv, MapTypes
<1>12. ord \in Seq(Handles)
  BY <1>1, <1>2
<1> HIDE DEF h, ix, ord, lv, dl
<1>13. RingTypes'
  <2>1. [h |-> h, d |-> d, seq |-> seq] \in Cells
    BY <1>1, <1>2 DEF Cells, Bodies
  <2>2. cell' \in [0..RingSize - 1 -> Cells]
    BY <1>4, <2>1 DEF BookInv, RingTypes
  <2>3. head' - tail' <= RingSize
    BY <1>1, <1>3, <1>4 DEF Full
  <2>4. reader' \in [Readers -> [pos : -1..head' - 1, h : 0..MaxHandle]]
    <3>1. \A r \in Readers : reader[r] \in [pos : -1..head - 1, h : 0..MaxHandle]
      BY DEF BookInv, RingTypes
    <3>2. \A r \in Readers : reader[r] \in [pos : -1..head' - 1, h : 0..MaxHandle]
      BY <1>1, <1>3, <3>1
    <3> QED  BY <1>4, <3>2 DEF BookInv, RingTypes
  <2> QED  BY <1>1, <1>3, <1>4, <2>2, <2>3, <2>4 DEF RingTypes
<1>14. SendTypes'
  BY <1>6, SendsStand DEF BookInv
<1>15. /\ \A x \in Handles : Count(x)' \in Nat /\ Count(x) \in Nat
       /\ \A x \in Handles : Count(x)' = Count(x) + (IF x = h THEN 1 ELSE 0) + dl[x]
       /\ Count(h) = 0
  <2>1. content \in [Inodes -> 0..MaxHandle] /\ h \in 0..MaxHandle /\ h # content[ino]
    BY <1>1, <1>2, <1>8 DEF BookInv, MapInv, MapTypes
  <2>2. Count(h) = 0
    <3>1. \A i \in Inodes : content[i] # h /\ frozen[i] # h
      BY <1>1, <1>8
    <3> QED  BY <3>1, Unnamed
  <2> QED  BY <1>3, <1>10, <2>1, <2>2, Renamed, CountsAreNat
<1> DEFINE n == [x \in Handles |-> Count(x)']
<1>22. n \in [Handles -> Nat] /\ \A x \in Handles : n[x] = Count(x)'
  BY <1>15
<1> HIDE DEF n
<1>16. Fits(DOMAIN ix, lv, dl, n)
  <2>1. \A x \in DOMAIN index : x \in Handles /\ x # h /\ live[x] = Count(x)
                                /\ (handleLoc[x] # NoData => locRefs[x] = 0)
    BY <1>1, <1>8 DEF BookInv, MapInv, Counted
  <2>2. \A x \in DOMAIN index : n[x] = live[x] + dl[x] /\ lv[x] = live[x]
    <3>1. \A x \in Handles : dl[x] \in Int
      BY <1>10
    <3> QED  BY <1>11, <1>15, <1>22, <2>1, <3>1
  <2>3. n[h] = lv[h] + dl[h]
    BY <1>2, <1>10, <1>11, <1>15, <1>22
  <2>4. \A x \in DOMAIN ix : lv[x] + dl[x] = n[x] /\ (handleLoc[x] # NoData => locRefs[x] = 0)
    BY <1>8, <1>9, <2>1, <2>2, <2>3
  <2>5. \A x \in Handles \ DOMAIN ix : lv[x] = 0 /\ (handleLoc[x] # NoData => locRefs[x] + dl[x] = n[x])
    BY <1>9, <1>10, <1>11, <1>15, <1>22 DEF BookInv, MapInv, Counted
  <2>6. DOMAIN ix \subseteq Handles /\ handleLoc \in [Handles -> Bodies] /\ locRefs \in [Handles -> Nat]
    BY <1>1, <1>2, <1>9 DEF BookInv, MapInv, MapTypes
  <2> QED  BY <1>10, <1>11, <1>22, <2>4, <2>5, <2>6 DEF Fits
<1>23. /\ Counted'
       /\ live' \in [Handles -> Nat] /\ locRefs' \in [Handles -> Nat]
       /\ handleLoc' \in [Handles -> Bodies]
       /\ \A x \in Handles : handleLoc'[x] # NoData => handleLoc[x] # NoData
  <2>1. Fitted(DOMAIN index', n)
    BY <1>3, <1>5, <1>16, Applied
  <2> QED  BY <1>1, <1>2, <1>3, <1>9, <1>22, <2>1, Recounted
<1>17. MapTypes'
  <2>1. ix \in [DOMAIN ix -> 0..head' - 1] /\ DOMAIN ix \subseteq Handles
    <3>1. \A x \in DOMAIN ix : ix[x] \in 0..head' - 1
      BY <1>1, <1>3, <1>9
    <3> QED  BY <1>1, <1>2, <1>9, <3>1
  <2>2. nextHandle' \in 1..MaxHandle + 1 /\ content' \in [Inodes -> 0..MaxHandle]
    <3>1. content \in [Inodes -> 0..MaxHandle]
      BY DEF BookInv, MapInv, MapTypes
    <3>2. h \in 1..MaxHandle /\ MaxHandle \in Nat
      BY <1>1, <1>2 DEF Handles
    <3>3. nextHandle' = h + 1 /\ content' = [content EXCEPT ![ino] = h]
      BY <1>3
    <3> QED  BY <3>1, <3>2, <3>3
  <2> QED  BY <1>3, <1>12, <1>23, <2>1, <2>2 DEF BookInv, MapInv, MapTypes
<1>18. Below'
  <2>1. \A i \in Inodes : content'[i] < h + 1 /\ frozen'[i] < h + 1
    <3>1. content'[ino] = h /\ \A i \in Inodes \ {ino} : content'[i] = content[i]
      BY <1>3 DEF BookInv, MapInv, MapTypes
    <3> QED  BY <1>1, <1>3, <1>8, <3>1
  <2>2. \A x \in DOMAIN index' : x < h + 1
    <3>1. \A x \in DOMAIN index : x \in Nat
      BY <1>1 DEF Handles
    <3> QED  BY <1>1, <1>3, <1>8, <1>9, <3>1
  <2>3. \A x \in Handles : handleLoc'[x] # NoData \/ jHandles'[x] # NoData => x < h + 1
    <3>1. \A x \in Handles : x \in Nat /\ (handleLoc[x] # NoData \/ jHandles[x] # NoData => x < h)
      BY DEF BookInv, MapInv, Below, Handles, h
    <3> QED  BY <1>1, <1>3, <1>23, <3>1
  <2> QED  BY <1>3, <2>1, <2>2, <2>3 DEF Below
<1>19. FrozenOut'
  <2>1. \A i \in Inodes : frozen[i] # h
    BY <1>1, <1>8
  <2> QED  BY <1>3, <1>9, <2>1 DEF BookInv, MapInv, FrozenOut, NoView
<1>20. RunInv'
  <2>1. /\ RunInv /\ DOMAIN index \subseteq DOMAIN index'
        /\ \A i \in Inodes : content'[i] = content[i] \/ content'[i] \notin DOMAIN index
    BY <1>3, <1>8, <1>9 DEF BookInv, MapInv, MapTypes
  <2>2. /\ nextHandle \in Nat /\ nextHandle' \in Nat /\ nextHandle <= nextHandle'
        /\ head' \in Nat /\ head <= head' /\ Len(packs) \in Nat
    BY <1>1, <1>3, Typed DEF h
  <2>3. CASE UNCHANGED <<packing, runs>>
    BY <1>1, <1>3, <2>1, <2>2, <2>3, RunsStand
  <2>4. CASE /\ ~packing /\ Cut(ix, ord, head', Promotion) # {}
             /\ StartPack(Cut(ix, ord, head', Promotion), ix, ord)
    <3>1. DOMAIN ix \subseteq Handles /\ \A x \in DOMAIN ix : ix[x] \in 0..head' - 1
      BY <1>1, <1>2, <1>3, <1>9
    <3> DEFINE places == Cut(ix, ord, head', Promotion)
               hd == head'
    <3>2. /\ places = Cut(ix, ord, hd, Promotion) /\ places # {} /\ StartPack(places, ix, ord)
          /\ hd \in Nat /\ head <= hd /\ head' = hd /\ \A x \in DOMAIN ix : ix[x] \in 0..hd - 1
      BY <2>2, <2>4, <3>1
    <3> HIDE DEF places, hd
    <3> QED  BY <1>1, <1>3, <1>12, <2>1, <2>2, <2>4, <3>1, <3>2, Launched
  <2> QED  BY <1>7, <2>3, <2>4
<1>21. WaitInv'
  <2>1. WaitTypes'
    BY <1>2, <1>6 DEF BookInv, WaitInv, WaitTypes, Bodies
  <2> QED  BY <1>2, <1>6, <2>1 DEF BookInv, WaitInv, LockHeld
<1> QED  BY <1>13, <1>14, <1>17, <1>18, <1>19, <1>20, <1>21, <1>23 DEF BookInv, MapInv


(* A write that must wait (appendLocked).                                  *)
LEMMA BlockStep ==
    ASSUME BookInv, NEW w \in Writers, w \in waiting \/ (OverlayFree /\ nextHandle <= MaxHandle),
           Block(w)
    PROVE  BookInv'
<1> DEFINE places == Cut(index, order, head, 0)
<1>1. ~locked /\ waiting \subseteq {w} /\ nextHandle \in Handles
  BY WriterAlone
<1>2. /\ UNCHANGED <<cell, head, tail, seq, reclaimTo, reader>>
      /\ UNCHANGED <<index, order, live, handleLoc, locRefs, content, frozen, nextHandle, jHandles>>
      /\ UNCHANGED <<packs, chunkLoc, jChunks, locating, ck, locked, flushErr, locateErr, queueErr>>
      /\ UNCHANGED <<written, faults, crashes>>
      /\ waiting' = waiting \cup {w} /\ asleep' = asleep \cup {w}
  BY DEF Block, ring, maps, errs, sends, disk, point, bounds
<1>3. \/ UNCHANGED <<packing, runs>>
      \/ ~packing /\ places # {} /\ StartPack(places, index, order)
  BY DEF Block
<1>9. places = Cut(index, order, head, 0)
  OBVIOUS
<1> HIDE DEF places
<1>4. RingTypes' /\ SendTypes'
  BY <1>2, RingStands, SendsStand DEF BookInv
<1>5. MapInv'
  BY <1>2, MapsStand DEF BookInv, MapInv, FrozenOut
<1>6. /\ head \in Nat /\ head' = head /\ Len(packs) \in Nat /\ packs' = packs /\ order \in Seq(Handles)
      /\ nextHandle \in Nat /\ nextHandle' = nextHandle /\ DOMAIN index \subseteq Handles
      /\ index' = index /\ content' = content /\ \A h \in DOMAIN index : index[h] \in 0..head - 1
  BY <1>2, Typed
<1>7. RunInv'
  <2>1. CASE UNCHANGED <<packing, runs>>
    BY <1>2, <1>6, <2>1, RunsStand DEF BookInv
  <2>2. CASE ~packing /\ places # {} /\ StartPack(places, index, order)
    <3>1. RunInv
      BY DEF BookInv
    <3>2. head <= head /\ nextHandle <= nextHandle
      BY <1>6
    <3> QED  BY <1>2, <1>6, <1>9, <2>2, <3>1, <3>2, Launched
  <2> QED  BY <1>3, <2>1, <2>2
<1>8. WaitInv'
  <2>1. WaitTypes'
    BY <1>2 DEF BookInv, WaitInv, WaitTypes
  <2>2. nextHandle <= MaxHandle /\ waiting' = {w}
    BY <1>1, <1>2 DEF Handles
  <2> QED  BY <1>1, <1>2, <2>1, <2>2 DEF BookInv, WaitInv, LockHeld
<1> QED  BY <1>4, <1>5, <1>7, <1>8 DEF BookInv

(* A write that fails (appendLocked).                                      *)
LEMMA RefuseStep ==
    ASSUME BookInv, NEW w \in Writers, w \notin asleep, Refuse(w)
    PROVE  BookInv'
<1>1. /\ UNCHANGED <<cell, head, tail, seq, reclaimTo, reader>>
      /\ UNCHANGED <<index, order, live, handleLoc, locRefs, content, frozen, nextHandle, jHandles>>
      /\ UNCHANGED <<packs, chunkLoc, jChunks, locating, runs, packing, ck, locked>>
      /\ UNCHANGED <<flushErr, locateErr, queueErr, written, faults, crashes, asleep>>
      /\ waiting' = waiting \ {w}
  BY DEF Refuse, ring, maps, errs, pipe, sends, disk, point, bounds
<1>2. RingTypes' /\ SendTypes'
  BY <1>1, RingStands, SendsStand DEF BookInv
<1>3. MapInv'
  BY <1>1, MapsStand DEF BookInv, MapInv, FrozenOut
<1>4. RunInv'
  BY <1>1, Typed, RunsStand DEF BookInv
<1>5. WaitInv'
  <2>2. WaitTypes'
    BY <1>1 DEF BookInv, WaitInv, WaitTypes
  <2> QED  BY <1>1, <2>2 DEF BookInv, WaitInv, LockHeld
<1> QED  BY <1>2, <1>3, <1>4, <1>5 DEF BookInv

(* A file is forgotten (Forget).                                           *)
LEMMA ForgetStep ==
    ASSUME BookInv, NEW ino \in Inodes, Forget(ino)
    PROVE  BookInv'
<1> DEFINE dl == Release1(content[ino])
<1>1. /\ UNCHANGED <<cell, head, tail, seq, reclaimTo, reader>>
      /\ UNCHANGED <<index, order, frozen, nextHandle, jHandles>>
      /\ UNCHANGED <<packs, chunkLoc, jChunks, locating, runs, packing, ck, locked>>
      /\ UNCHANGED <<flushErr, locateErr, queueErr, faults, crashes, asleep, waiting>>
      /\ written' = [written EXCEPT ![ino] = NoData]
      /\ content' = [content EXCEPT ![ino] = 0] /\ content[ino] # 0
      /\ Apply(DOMAIN index, live, dl)
  BY DEF Forget, ring, errs, pipe, sends, disk, point
<1>2. dl = Release1(content[ino]) /\ dl \in [Handles -> Int]
  BY DEF Release1
<1> HIDE DEF dl
<1>3. RingTypes' /\ SendTypes'
  BY <1>1, RingStands, SendsStand DEF BookInv
<1>4. /\ content \in [Inodes -> 0..MaxHandle] /\ 0 \in 0..MaxHandle /\ nextHandle \in Nat
      /\ nextHandle > 0 /\ DOMAIN index \subseteq Handles
  BY ConstantsAssumption DEF BookInv, MapInv, MapTypes
<1>14. \A x \in Handles : Count(x)' \in Nat /\ Count(x) \in Nat /\ Count(x)' = Count(x) + dl[x]
  <2>1. \A x \in Handles : Count(x)' \in Nat /\ Count(x) \in Nat
    BY CountsAreNat
  <2>2. \A x \in Handles : Count(x)' = Count(x) + (IF x = 0 THEN 1 ELSE 0) + dl[x]
    BY <1>1, <1>2, <1>4, Renamed
  <2>3. \A x \in Handles : dl[x] \in Int
    BY <1>2
  <2>4. \A x \in Handles : x # 0
    BY ConstantsAssumption DEF Handles
  <2> QED  BY <2>1, <2>2, <2>3, <2>4
<1> DEFINE n == [x \in Handles |-> Count(x)']
<1>15. n \in [Handles -> Nat] /\ \A x \in Handles : n[x] = Count(x)'
  BY <1>14
<1> HIDE DEF n
<1>5. /\ n \in [Handles -> Nat] /\ \A x \in Handles : n[x] = Count(x)' /\ Count(x) \in Nat
      /\ \A x \in Handles : n[x] = Count(x) + dl[x]
  BY <1>14, <1>15
<1>6. Fits(DOMAIN index, live, dl, n)
  <2>1. /\ live \in [Handles -> Nat] /\ handleLoc \in [Handles -> Bodies] /\ locRefs \in [Handles -> Nat]
    BY DEF BookInv, MapInv, MapTypes
  <2>2. \A x \in DOMAIN index : live[x] + dl[x] = n[x] /\ (handleLoc[x] # NoData => locRefs[x] = 0)
    BY <1>4, <1>5 DEF BookInv, MapInv, Counted
  <2>3. \A x \in Handles \ DOMAIN index :
            live[x] = 0 /\ (handleLoc[x] # NoData => locRefs[x] + dl[x] = n[x])
    BY <1>5 DEF BookInv, MapInv, Counted
  <2> QED  BY <1>2, <1>4, <1>5, <2>1, <2>2, <2>3 DEF Fits
<1>7. /\ Counted' /\ live' \in [Handles -> Nat] /\ locRefs' \in [Handles -> Nat]
      /\ handleLoc' \in [Handles -> Bodies]
      /\ \A x \in Handles : handleLoc'[x] # NoData => handleLoc[x] # NoData
  <2>1. Fitted(DOMAIN index', n)
    BY <1>1, <1>6, Applied
  <2> QED  BY <1>1, <1>4, <1>5, <2>1, Recounted
<1>8. \A i \in Inodes : content'[i] = content[i] \/ content'[i] = 0
  BY <1>1, <1>4
<1>9. MapTypes'
  <2>1. content' \in [Inodes -> 0..MaxHandle]
    BY <1>1, <1>4
  <2> QED  BY <1>1, <1>7, <2>1 DEF BookInv, MapInv, MapTypes
<1>10. Below'
  <2>1. Below
    BY DEF BookInv, MapInv
  <2>2. \A i \in Inodes : content'[i] < nextHandle
    BY <1>4, <1>8, <2>1 DEF Below
  <2> QED  BY <1>1, <1>7, <2>1, <2>2 DEF Below
<1>11. FrozenOut'
  BY <1>1 DEF BookInv, MapInv, FrozenOut, NoView
<1>12. RunInv'
  <2>1. 0 \notin DOMAIN index
    BY <1>4 DEF Handles
  <2>2. \A i \in Inodes : content'[i] = content[i] \/ content'[i] \notin DOMAIN index
    BY <1>8, <2>1
  <2> QED  BY <1>1, <2>2, Typed, RunsStand DEF BookInv
<1>13. WaitInv'
  BY <1>1 DEF BookInv, WaitInv, WaitTypes, LockHeld, Bodies
<1> QED  BY <1>3, <1>7, <1>9, <1>10, <1>11, <1>12, <1>13 DEF BookInv, MapInv

(* Where a reclaim may leave the tail.                                     *)
LEMMA Reclaimed ==
    ASSUME head \in Nat, tail \in 0..head, NEW to \in 0..head, NEW rd, Reclaim(to, rd),
           \A r \in Readers : rd[r].pos \in Int /\ rd[r].pos <= head
    PROVE  /\ tail' \in 0..head /\ (tail' = tail \/ tail' <= to)
           /\ \A r \in Readers : rd[r].pos >= 0 => tail' <= rd[r].pos \/ tail' = tail
           /\ (\A r \in Readers : rd[r].pos >= 0 => tail <= rd[r].pos) => tail <= tail'
<1>1. CASE to <= tail
  BY <1>1 DEF Reclaim
<1>2. CASE to > tail
  <2> DEFINE pins == {head} \cup {rd[r].pos : r \in {x \in Readers : rd[x].pos >= 0}}
  <2>1. pins \subseteq Nat /\ pins # {}
    <3>1. \A r \in Readers : rd[r].pos >= 0 => rd[r].pos \in Nat
      OBVIOUS
    <3> QED  BY <3>1
  <2>2. Lowest(pins) \in pins /\ \A y \in pins : Lowest(pins) <= y
    BY <2>1, LowestIn
  <2>3. OldestPin(rd) = Lowest(pins)
    BY DEF OldestPin
  <2> DEFINE p == Lowest(pins)
  <2>9. p \in pins /\ (\A y \in pins : p <= y) /\ OldestPin(rd) = p
    BY <2>2, <2>3
  <2> HIDE DEF p
  <2>10. p = head \/ \E r \in Readers : rd[r].pos >= 0 /\ p = rd[r].pos
    BY <2>9
  <2>11. p \in 0..head
    BY <2>10
  <2>12. \A r \in Readers : rd[r].pos >= 0 => p <= rd[r].pos
    <3>1. \A r \in Readers : rd[r].pos >= 0 => rd[r].pos \in pins
      OBVIOUS
    <3> HIDE DEF pins
    <3> QED  BY <2>9, <3>1
  <2>4. /\ OldestPin(rd) \in 0..head
        /\ \A r \in Readers : rd[r].pos >= 0 => OldestPin(rd) <= rd[r].pos
        /\ OldestPin(rd) = head \/ \E r \in Readers : rd[r].pos >= 0 /\ OldestPin(rd) = rd[r].pos
    BY <2>9, <2>10, <2>11, <2>12
  <2> HIDE DEF pins
  <2>5. tail' = Lowest({to, OldestPin(rd)})
    BY <1>2 DEF Reclaim
  <2>6. tail' \in {to, OldestPin(rd)} /\ tail' <= to /\ tail' <= OldestPin(rd)
    <3>1. {to, OldestPin(rd)} \subseteq Nat /\ {to, OldestPin(rd)} # {}
      BY <2>4
    <3> QED  BY <2>5, <3>1, LowestIn
  <2>7. ASSUME \A r \in Readers : rd[r].pos >= 0 => tail <= rd[r].pos
        PROVE  tail <= tail'
    <3>1. tail <= OldestPin(rd)
      BY <2>4, <2>7
    <3> QED  BY <1>2, <2>4, <2>6, <3>1
  <2>8. \A r \in Readers : rd[r].pos >= 0 => tail' <= rd[r].pos
    BY <2>4, <2>6
  <2> QED  BY <1>2, <2>4, <2>6, <2>7, <2>8
<1> QED  BY <1>1, <1>2

(* A reader resolves and pins (ReadAt).                                    *)
LEMMA BeginReadStep ==
    ASSUME BookInv, NEW r \in Readers, NEW ino \in Inodes, BeginRead(r, ino)
    PROVE  BookInv'
<1>1. /\ UNCHANGED <<cell, head, tail, seq, reclaimTo>>
      /\ UNCHANGED <<index, order, live, handleLoc, locRefs, content, frozen, nextHandle, jHandles>>
      /\ UNCHANGED <<packs, chunkLoc, jChunks, locating, runs, packing, ck, locked>>
      /\ UNCHANGED <<flushErr, locateErr, queueErr, written, faults, crashes, asleep, waiting>>
      /\ content[ino] \in DOMAIN index
      /\ reader' = [reader EXCEPT ![r] = [pos |-> index[content[ino]], h |-> content[ino]]]
  BY DEF BeginRead, ring, maps, errs, pipe, sends, disk, point, bounds
<1>2. index[content[ino]] \in -1..head - 1 /\ content[ino] \in 0..MaxHandle
  <2>1. index[content[ino]] \in 0..head - 1 /\ head \in Nat
    BY <1>1, Typed
  <2> QED  BY <2>1 DEF BookInv, MapInv, MapTypes
<1>3. RingTypes'
  BY <1>1, <1>2 DEF BookInv, RingTypes
<1>4. SendTypes' /\ MapInv'
  BY <1>1, SendsStand, MapsStand DEF BookInv, MapInv, FrozenOut
<1>5. RunInv'
  BY <1>1, Typed, RunsStand DEF BookInv
<1>6. WaitInv'
  BY <1>1 DEF BookInv, WaitInv, WaitTypes, LockHeld
<1> QED  BY <1>3, <1>4, <1>5, <1>6 DEF BookInv

(* A reader unpins, and the tail may move (unpin).                         *)
LEMMA EndReadStep ==
    ASSUME BookInv, NEW r \in Readers, EndRead(r)
    PROVE  BookInv'
<1>1. /\ UNCHANGED <<cell, head, seq, reclaimTo>>
      /\ UNCHANGED <<index, order, live, handleLoc, locRefs, content, frozen, nextHandle, jHandles>>
      /\ UNCHANGED <<packs, chunkLoc, jChunks, locating, runs, packing, ck, locked>>
      /\ UNCHANGED <<flushErr, locateErr, queueErr, written, faults, crashes, waiting>>
      /\ asleep' \in {{}, asleep} /\ Reclaim(reclaimTo, reader')
      /\ reader' = [reader EXCEPT ![r] = [pos |-> -1, h |-> 0]]
  BY DEF EndRead, ring, maps, errs, pipe, sends, disk, point, bounds
<1>2. /\ head \in Nat /\ tail \in 0..head /\ reclaimTo \in 0..head /\ MaxHandle \in Nat
      /\ reader \in [Readers -> [pos : -1..head - 1, h : 0..MaxHandle]]
  BY ConstantsAssumption DEF BookInv, RingTypes
<1>3. reader' \in [Readers -> [pos : -1..head - 1, h : 0..MaxHandle]]
  BY <1>1, <1>2
<1>4. tail' \in 0..head
  <2>1. \A x \in Readers : reader'[x].pos \in Int /\ reader'[x].pos <= head
    <3>1. \A x \in Readers : reader'[x].pos \in -1..head - 1
      BY <1>3
    <3> QED  BY <1>2, <3>1
  <2> QED  BY <1>1, <1>2, <2>1, Reclaimed
<1>5. RingTypes'
  BY <1>1, <1>2, <1>3, <1>4 DEF BookInv, RingTypes
<1>6. SendTypes' /\ MapInv'
  BY <1>1, SendsStand, MapsStand DEF BookInv, MapInv, FrozenOut
<1>7. RunInv'
  BY <1>1, Typed, RunsStand DEF BookInv
<1>8. WaitInv'
  BY <1>1 DEF BookInv, WaitInv, WaitTypes, LockHeld
<1> QED  BY <1>5, <1>6, <1>7, <1>8 DEF BookInv

-----------------------------------------------------------------------------
(* Steps of a run.                                                         *)

(* A run goes on, over the records it took.                                *)
LEMMA RunMoved ==
    ASSUME BookInv, NEW b \in DOMAIN runs, UNCHANGED <<head, index, content, nextHandle, locating, packing>>,
           DOMAIN runs' = DOMAIN runs, runs' = [x \in DOMAIN runs |-> runs'[x]],
           \A x \in DOMAIN runs \ {b} : runs'[x] = runs[x], runs'[b] \in RunOf,
           runs'[b].to = runs[b].to, runs'[b].recs = runs[b].recs,
           Len(packs') \in Nat, Len(packs) <= Len(packs'), runs'[b].pack <= Len(packs'),
           (runs'[b].phase \in Active) = (runs[b].phase \in Active),
           \A h \in runs'[b].plan : h < nextHandle,
           runs[b].phase \in Active => /\ runs'[b].plan \subseteq runs[b].recs
                                       /\ \A ino \in Inodes : content[ino] \in runs[b].recs =>
                                             content[ino] \in runs'[b].plan
    PROVE  RunInv'
<1>1. RunInv /\ Len(packs) \in Nat
  BY Typed DEF BookInv
<1>2. OneRun'
  BY <1>1 DEF RunInv, OneRun
<1>3. RunTakes'
  BY <1>1 DEF RunInv, RunTakes
<1>4. PlansBelow' /\ RunsBounded' /\ Batched'
  <2>1. \A x \in DOMAIN runs : (runs'[x].phase \in Active) = (runs[x].phase \in Active)
    OBVIOUS
  <2>2. Batched'
    BY <1>1, <2>1 DEF RunInv, Batched
  <2> QED  BY <1>1, <2>2 DEF RunInv, PlansBelow, RunsBounded
<1>5. PipeTypes'
  <2>1. \A x \in DOMAIN runs : runs'[x] \in RunOf /\ x \in Nat
    BY <1>1 DEF RunInv, PipeTypes
  <2>2. \A x \in DOMAIN runs : runs'[x].to <= head /\ runs'[x].pack <= Len(packs')
    <3>1. \A x \in DOMAIN runs : runs[x].to <= head /\ runs[x].pack <= Len(packs) /\ runs[x].pack \in Nat
      BY <1>1 DEF RunInv, PipeTypes, RunOf
    <3> QED  BY <1>1, <3>1
  <2>3. packing' = (\E x \in DOMAIN runs' : runs'[x].phase \in Active)
    <3>1. packing = (\E x \in DOMAIN runs : runs[x].phase \in Active)
      BY <1>1 DEF RunInv, PipeTypes, Active
    <3> QED  BY <3>1
  <2> QED  BY <1>1, <2>1, <2>2, <2>3 DEF RunInv, PipeTypes, Active
<1> QED  BY <1>2, <1>3, <1>4, <1>5 DEF RunInv

(* A run is over.                                                          *)
LEMMA RunGone ==
    ASSUME BookInv, NEW b \in DOMAIN runs, UNCHANGED <<head, index, content, nextHandle, packs>>,
           runs' = [x \in DOMAIN runs \ {b} |-> runs[x]], locating' \in Seq(Batches),
           \A k \in DOMAIN locating' : \E j \in DOMAIN locating :
              locating'[k].b = locating[j].b /\ locating'[k].to = locating[j].to,
           packing' = (packing /\ runs[b].phase \notin Active), Batched'
    PROVE  RunInv'
<1>1. RunInv /\ \A x \in DOMAIN runs' : x \in DOMAIN runs /\ x # b /\ runs'[x] = runs[x]
  BY DEF BookInv
<1>2. OneRun' /\ RunTakes' /\ PlansBelow' /\ RunsBounded'
  BY <1>1 DEF RunInv, OneRun, RunTakes, PlansBelow, RunsBounded
<1>3. PipeTypes'
  <2>1. packing' = (\E x \in DOMAIN runs' : runs'[x].phase \in Active)
    <3>1. packing = (\E x \in DOMAIN runs : runs[x].phase \in Active)
      BY <1>1 DEF RunInv, PipeTypes, Active
    <3> QED  BY <1>1, <3>1 DEF RunInv, OneRun
  <2>2. \A k \in DOMAIN locating' : locating'[k].to <= head
    BY <1>1 DEF RunInv, PipeTypes
  <2> QED  BY <1>1, <2>1, <2>2 DEF RunInv, PipeTypes, Active
<1> QED  BY <1>2, <1>3 DEF RunInv

(* A run looks which of its records are named (snapshot).                  *)
LEMMA SnapshotStep ==
    ASSUME BookInv, NEW b \in DOMAIN runs, Snapshot(b)
    PROVE  BookInv'
<1> DEFINE plan == {h \in runs[b].recs : \E ino \in Inodes : content[ino] = h}
<1>1. /\ UNCHANGED <<cell, head, tail, seq, reclaimTo, reader>>
      /\ UNCHANGED <<index, order, live, handleLoc, locRefs, content, frozen, nextHandle, jHandles>>
      /\ UNCHANGED <<packs, chunkLoc, jChunks, locating, packing, ck, locked>>
      /\ UNCHANGED <<flushErr, locateErr, queueErr, written, faults, crashes, asleep, waiting>>
      /\ runs[b].phase = "cut" /\ runs' = [runs EXCEPT ![b].phase = "snapped", ![b].plan = plan]
  BY DEF Snapshot, InRun, ring, maps, errs, sends, disk, point, bounds
<1>2. /\ runs[b] \in RunOf /\ runs[b].to <= head /\ runs[b].pack <= Len(packs)
      /\ runs[b].recs \subseteq DOMAIN index
      /\ runs = [x \in DOMAIN runs |-> runs[x]]
  BY <1>1 DEF BookInv, RunInv, PipeTypes, RunTakes, Active
<1>3. /\ plan \subseteq runs[b].recs
      /\ \A ino \in Inodes : content[ino] \in runs[b].recs => content[ino] \in plan
      /\ \A h \in plan : h < nextHandle
  BY <1>2 DEF BookInv, MapInv, Below
<1> HIDE DEF plan
<1>4. /\ runs'[b] = [runs[b] EXCEPT !.phase = "snapped", !.plan = plan]
      /\ DOMAIN runs' = DOMAIN runs /\ \A x \in DOMAIN runs \ {b} : runs'[x] = runs[x]
      /\ runs' = [x \in DOMAIN runs |-> runs'[x]]
  BY <1>1, <1>2
<1>5. /\ runs'[b] \in RunOf /\ runs'[b].phase = "snapped" /\ runs'[b].plan = plan
      /\ runs'[b].to = runs[b].to /\ runs'[b].recs = runs[b].recs /\ runs'[b].pack = runs[b].pack
  BY <1>2, <1>3, <1>4 DEF RunOf
<1>6. RunInv'
  <2>1. (runs'[b].phase \in Active) = (runs[b].phase \in Active)
    BY <1>1, <1>5 DEF Active
  <2>2. Len(packs') \in Nat /\ Len(packs) <= Len(packs')
    BY <1>1, Typed
  <2> QED  BY <1>1, <1>2, <1>3, <1>4, <1>5, <2>1, <2>2, RunMoved
<1>7. RingTypes' /\ SendTypes' /\ MapInv'
  BY <1>1, RingStands, SendsStand, MapsStand DEF BookInv, MapInv, FrozenOut
<1>8. WaitInv'
  BY <1>1 DEF BookInv, WaitInv, WaitTypes, LockHeld
<1> QED  BY <1>6, <1>7, <1>8 DEF BookInv

(* A run that fails leaves the maps as they are.                           *)
LEMMA FailFlushStep ==
    ASSUME BookInv, NEW b \in DOMAIN runs, runs[b].phase \in Active, FailFlush(b), faults' \in Nat,
           UNCHANGED <<cell, head, tail, seq, reclaimTo, reader>>,
           UNCHANGED <<index, order, live, handleLoc, locRefs, content, frozen, nextHandle, jHandles>>,
           UNCHANGED <<packs, chunkLoc, jChunks, locating, ck, locked>>,
           UNCHANGED <<locateErr, queueErr, written, crashes, waiting>>
    PROVE  BookInv'
<1>1. /\ flushErr' = TRUE /\ packing' = FALSE /\ asleep' = {}
      /\ runs' = [x \in DOMAIN runs \ {b} |-> runs[x]]
  BY DEF FailFlush
<1>2. RunInv'
  <2>1. Batched'
    BY <1>1 DEF BookInv, RunInv, Batched
  <2>2. \A k \in DOMAIN locating' : \E j \in DOMAIN locating :
            locating'[k].b = locating[j].b /\ locating'[k].to = locating[j].to
    OBVIOUS
  <2>3. locating' \in Seq(Batches)
    BY DEF BookInv, RunInv, PipeTypes
  <2>4. packing' = (packing /\ runs[b].phase \notin Active)
    BY <1>1
  <2> QED  BY <1>1, <2>1, <2>2, <2>3, <2>4, RunGone
<1>3. RingTypes' /\ SendTypes' /\ MapInv'
  BY RingStands, SendsStand, MapsStand DEF BookInv, MapInv, FrozenOut
<1>4. WaitInv'
  BY <1>1 DEF BookInv, WaitInv, WaitTypes, LockHeld
<1> QED  BY <1>2, <1>3, <1>4 DEF BookInv

(* A run chunks, and its pack is queued or refused.                        *)
LEMMA ChunkAndPackStep ==
    ASSUME BookInv, NEW b \in DOMAIN runs, ChunkAndPack(b)
    PROVE  BookInv'
<1> DEFINE loc    == [h \in Handles |-> IF h \in runs[b].plan THEN Payload(h) ELSE NoData]
           stored == {c \in Data : chunkLoc[c] = 0 /\ \E h \in runs[b].plan : loc[h] = c}
<1>1. /\ UNCHANGED <<cell, head, tail, seq, reclaimTo, reader>>
      /\ UNCHANGED <<index, order, live, handleLoc, locRefs, content, frozen, nextHandle, jHandles>>
      /\ UNCHANGED <<chunkLoc, jChunks, locating, ck, locked>>
      /\ UNCHANGED <<locateErr, queueErr, written, crashes, waiting>>
      /\ runs[b].phase = "snapped"
  BY DEF ChunkAndPack, InRun, ring, maps, disk, point
<1>2. \/ /\ UNCHANGED <<packs, packing, flushErr, asleep, faults>>
         /\ runs' = [runs EXCEPT ![b].phase = "packed", ![b].loc = loc]
      \/ /\ packs' = Append(packs, "queued") /\ UNCHANGED <<packing, flushErr, asleep, faults>>
         /\ runs' = [runs EXCEPT ![b].phase = "packed", ![b].loc = loc, ![b].stored = stored,
                                 ![b].pack = Len(packs')]
      \/ faults' \in {faults, faults + 1} /\ FailFlush(b) /\ UNCHANGED packs
  BY DEF ChunkAndPack, Fail
<1>3. /\ runs[b] \in RunOf /\ runs[b].to <= head /\ runs[b].pack <= Len(packs)
      /\ runs[b].plan \subseteq runs[b].recs /\ runs[b].recs \subseteq DOMAIN index
      /\ \A ino \in Inodes : content[ino] \in runs[b].recs => content[ino] \in runs[b].plan
      /\ \A h \in runs[b].plan : h < nextHandle
      /\ runs = [x \in DOMAIN runs |-> runs[x]]
  BY <1>1 DEF BookInv, RunInv, PipeTypes, RunTakes, PlansBelow, Active
<1>4. loc \in [Handles -> Bodies] /\ stored \subseteq Data
  <2>1. \A h \in DOMAIN index : At(index[h]).d \in Bodies
    <3>1. \A h \in DOMAIN index : index[h] \in Nat
      BY Typed
    <3>2. \A o \in 0..RingSize - 1 : cell[o].d \in Bodies
      BY DEF BookInv, RingTypes, Cells
    <3> QED  BY <3>1, <3>2, CellOf DEF At
  <2>2. \A h \in runs[b].plan : Payload(h) \in Bodies
    BY <1>3, <2>1 DEF Payload, Bodies
  <2> QED  BY <2>2 DEF Bodies
<1> HIDE DEF loc, stored
<1>5. RingTypes'
  BY <1>1, RingStands DEF BookInv
<1>6. MapInv'
  BY <1>1, MapsStand DEF BookInv, MapInv, FrozenOut
<1>7. ASSUME UNCHANGED <<packing, flushErr, asleep, faults>>, SendTypes',
             NEW st \in SUBSET Data, NEW pk \in Nat, pk <= Len(packs'), Len(packs) <= Len(packs'),
             runs' = [runs EXCEPT ![b] = [runs[b] EXCEPT !.phase = "packed", !.loc = loc,
                                                         !.stored = st, !.pack = pk]]
      PROVE  BookInv'
  <2>1. /\ runs'[b] = [runs[b] EXCEPT !.phase = "packed", !.loc = loc, !.stored = st, !.pack = pk]
        /\ DOMAIN runs' = DOMAIN runs /\ \A x \in DOMAIN runs \ {b} : runs'[x] = runs[x]
        /\ runs' = [x \in DOMAIN runs |-> runs'[x]]
    BY <1>3, <1>7
  <2>2. /\ runs'[b] \in RunOf /\ runs'[b].phase = "packed" /\ runs'[b].plan = runs[b].plan
        /\ runs'[b].to = runs[b].to /\ runs'[b].recs = runs[b].recs /\ runs'[b].pack = pk
    BY <1>3, <1>4, <2>1 DEF RunOf
  <2>3. (runs'[b].phase \in Active) = (runs[b].phase \in Active)
    BY <1>1, <2>2 DEF Active
  <2>4. Len(packs') \in Nat
    BY <1>7 DEF SendTypes
  <2>5. RunInv'
    BY <1>1, <1>3, <1>7, <2>1, <2>2, <2>3, <2>4, RunMoved
  <2>6. WaitInv'
    BY <1>1, <1>7 DEF BookInv, WaitInv, WaitTypes, LockHeld
  <2> QED  BY <1>5, <1>6, <1>7, <2>5, <2>6 DEF BookInv
<1>8. CASE /\ UNCHANGED <<packs, packing, flushErr, asleep, faults>>
           /\ runs' = [runs EXCEPT ![b].phase = "packed", ![b].loc = loc]
  <2>1. SendTypes' /\ Len(packs) <= Len(packs')
    BY <1>1, <1>8, SendsStand, Typed DEF BookInv
  <2>2. runs[b].stored \in SUBSET Data /\ runs[b].pack \in Nat
    BY <1>3 DEF RunOf
  <2>3. [runs[b] EXCEPT !.phase = "packed", !.loc = loc] =
        [runs[b] EXCEPT !.phase = "packed", !.loc = loc, !.stored = runs[b].stored, !.pack = runs[b].pack]
    BY <1>3 DEF RunOf
  <2>4. runs' = [runs EXCEPT ![b] = [runs[b] EXCEPT !.phase = "packed", !.loc = loc]]
    BY <1>3, <1>8
  <2> DEFINE st == runs[b].stored
             pk == runs[b].pack
  <2>5. runs' = [runs EXCEPT ![b] = [runs[b] EXCEPT !.phase = "packed", !.loc = loc, !.stored = st, !.pack = pk]]
    BY <2>3, <2>4
  <2>6. st \in SUBSET Data /\ pk \in Nat /\ pk <= Len(packs')
    BY <1>3, <1>8, <2>2
  <2> HIDE DEF st, pk
  <2> QED  BY <1>7, <1>8, <2>1, <2>5, <2>6
<1>9. CASE /\ packs' = Append(packs, "queued") /\ UNCHANGED <<packing, flushErr, asleep, faults>>
           /\ runs' = [runs EXCEPT ![b].phase = "packed", ![b].loc = loc, ![b].stored = stored,
                                   ![b].pack = Len(packs')]
  <2>1. Len(packs) \in Nat /\ Len(packs') = Len(packs) + 1
    BY <1>9, Typed DEF BookInv, SendTypes
  <2>2. SendTypes'
    <3>1. packs' \in Seq({"queued", "landed", "failed", "unsent"})
      BY <1>9 DEF BookInv, SendTypes
    <3>2. \A c \in Data : chunkLoc[c] \in 0..Len(packs') /\ jChunks[c] \in 0..Len(packs')
      BY <2>1 DEF BookInv, SendTypes
    <3> QED  BY <1>1, <3>1, <3>2 DEF BookInv, SendTypes
  <2>3. runs' = [runs EXCEPT ![b] = [runs[b] EXCEPT !.phase = "packed", !.loc = loc,
                                                    !.stored = stored, !.pack = Len(packs')]]
    BY <1>3, <1>9
  <2> DEFINE pk == Len(packs')
  <2>4. pk \in Nat /\ pk <= Len(packs') /\ stored \in SUBSET Data /\ Len(packs) <= Len(packs')
    BY <1>4, <2>1
  <2>5. runs' = [runs EXCEPT ![b] = [runs[b] EXCEPT !.phase = "packed", !.loc = loc, !.stored = stored, !.pack = pk]]
    BY <2>3
  <2> HIDE DEF pk
  <2> QED  BY <1>7, <1>9, <2>2, <2>4, <2>5
<1>10. CASE faults' \in {faults, faults + 1} /\ FailFlush(b) /\ UNCHANGED packs
  <2>1. faults' \in Nat /\ runs[b].phase \in Active
    BY <1>1, <1>10 DEF BookInv, WaitInv, WaitTypes, Active
  <2> QED  BY <1>1, <1>10, <2>1, FailFlushStep
<1> QED  BY <1>2, <1>8, <1>9, <1>10

(* A run publishes: its records pass from the ring to the location map.    *)
LEMMA PublishStep ==
    ASSUME BookInv, NEW b \in DOMAIN runs, Publish(b)
    PROVE  BookInv'
<1> DEFINE recs == runs[b].recs
           plan == runs[b].plan
           loc  == runs[b].loc
<1>1. /\ UNCHANGED <<cell, head, tail, seq, reclaimTo, reader>>
      /\ UNCHANGED <<content, frozen, nextHandle, jHandles>>
      /\ UNCHANGED <<packs, jChunks, ck, locked>>
      /\ UNCHANGED <<flushErr, locateErr, queueErr, written, faults, crashes, waiting>>
      /\ runs[b].phase = "packed" /\ packing' = FALSE /\ asleep' = {}
  BY DEF Publish, InRun, ring, errs, sends, disk, point, bounds
<1>2. /\ handleLoc' = [h \in Handles |-> IF h \notin plan THEN handleLoc[h]
                                         ELSE IF live[h] > 0 THEN loc[h] ELSE NoData]
      /\ locRefs' = [h \in Handles |-> IF h \in plan /\ live[h] > 0 THEN live[h] ELSE locRefs[h]]
      /\ index' = [h \in DOMAIN index \ recs |-> index[h]]
      /\ live' = [h \in Handles |-> IF h \in recs THEN 0 ELSE live[h]]
  BY DEF Publish
<1>3. /\ chunkLoc' = [c \in Data |-> IF c \in runs[b].stored THEN runs[b].pack ELSE chunkLoc[c]]
      /\ order' = SubSeq(order, runs[b].cut + 1, Len(order))
      /\ locating' = Append(locating, [b |-> b, to |-> runs[b].to, done |-> FALSE])
      /\ runs' = [runs EXCEPT ![b].phase = "published"]
  BY DEF Publish
<1>4. /\ runs[b] \in RunOf /\ runs[b].to <= head /\ runs[b].pack <= Len(packs)
      /\ plan \subseteq recs /\ recs \subseteq DOMAIN index /\ recs \subseteq Handles
      /\ \A ino \in Inodes : content[ino] \in recs => content[ino] \in plan
      /\ \A h \in plan : h < nextHandle
      /\ runs = [x \in DOMAIN runs |-> runs[x]] /\ b \in Nat
  BY <1>1 DEF BookInv, RunInv, PipeTypes, RunTakes, PlansBelow, Active, RunOf
<1>5. /\ runs[b].to \in Nat /\ runs[b].cut \in Nat /\ runs[b].pack \in Nat /\ loc \in [Handles -> Bodies]
  BY <1>4 DEF RunOf
<1> HIDE DEF recs, plan, loc
<1>6. /\ runs'[b] = [runs[b] EXCEPT !.phase = "published"]
      /\ DOMAIN runs' = DOMAIN runs /\ \A x \in DOMAIN runs \ {b} : runs'[x] = runs[x]
      /\ runs' = [x \in DOMAIN runs |-> runs'[x]]
  BY <1>3, <1>4
<1>7. /\ runs'[b] \in RunOf /\ runs'[b].phase = "published" /\ runs'[b].plan = plan
      /\ runs'[b].to = runs[b].to /\ runs'[b].recs = recs /\ runs'[b].pack = runs[b].pack
  BY <1>4, <1>6 DEF RunOf, recs, plan
<1>8. RingTypes'
  BY <1>1, RingStands DEF BookInv
<1>9. SendTypes'
  <2>1. \A c \in Data : chunkLoc'[c] \in 0..Len(packs)
    BY <1>3, <1>4, <1>5 DEF BookInv, SendTypes
  <2> QED  BY <1>1, <1>3, <2>1 DEF BookInv, SendTypes
<1>10. /\ live \in [Handles -> Nat] /\ locRefs \in [Handles -> Nat] /\ handleLoc \in [Handles -> Bodies]
       /\ DOMAIN index \subseteq Handles /\ index \in [DOMAIN index -> 0..head - 1]
       /\ order \in Seq(Handles)
  BY DEF BookInv, MapInv, MapTypes
<1>11. MapTypes'
  <2>1. live' \in [Handles -> Nat] /\ locRefs' \in [Handles -> Nat]
    BY <1>2, <1>10
  <2>2. handleLoc' \in [Handles -> Bodies]
    <3>1. \A h \in Handles : handleLoc'[h] \in Bodies
      BY <1>2, <1>5, <1>10 DEF Bodies
    <3> QED  BY <1>2, <3>1
  <2>3. order' \in Seq(Handles)
    <3>1. Len(order) \in Nat
      BY <1>10
    <3> QED  BY <1>3, <1>5, <1>10, <3>1
  <2>4. DOMAIN index' \subseteq Handles /\ index' \in [DOMAIN index' -> 0..head' - 1]
    BY <1>1, <1>2, <1>10
  <2> QED  BY <1>1, <2>1, <2>2, <2>3, <2>4 DEF BookInv, MapInv, MapTypes
<1>12. Below' /\ FrozenOut'
  <2>1. Below /\ FrozenOut
    BY DEF BookInv, MapInv
  <2>2. \A h \in Handles : handleLoc'[h] # NoData => h < nextHandle
    BY <1>2, <1>4, <2>1 DEF Below
  <2>3. Below'
    BY <1>1, <1>2, <2>1, <2>2 DEF Below
  <2> QED  BY <1>1, <1>2, <2>1, <2>3 DEF FrozenOut, NoView
<1>13. \A h \in Handles : live'[h] \in Nat /\ Count(h)' = Count(h) /\ Count(h) \in Nat
  <2>1. \A h : Count(h)' = Count(h)
    BY <1>1 DEF Count, Naming, Holding
  <2> QED  BY <1>2, <1>10, <2>1, CountsAreNat
<1>14. Counted'
  <2>1. Counted /\ FrozenOut
    BY DEF BookInv, MapInv
  <2>2. \A h \in DOMAIN index' : live'[h] = Count(h)' /\ (handleLoc'[h] # NoData => locRefs'[h] = 0)
    <3>1. TAKE h \in DOMAIN index'
    <3>2. h \in DOMAIN index /\ h \in Handles /\ h \notin recs /\ h \notin plan
      BY <1>2, <1>4, <1>10
    <3> QED  BY <1>2, <1>13, <2>1, <3>2 DEF Counted
  <2>3. \A h \in Handles \ DOMAIN index' :
            live'[h] = 0 /\ (handleLoc'[h] # NoData => locRefs'[h] = Count(h)')
    <3>1. TAKE h \in Handles \ DOMAIN index'
    <3>2. CASE h \notin DOMAIN index
      <4>1. h \notin recs /\ h \notin plan
        BY <1>4, <3>2
      <4> QED  BY <1>2, <1>13, <2>1, <3>2, <4>1 DEF Counted
    <3>3. CASE h \in plan
      <4>1. h \in DOMAIN index /\ h \in recs
        BY <1>4, <3>3
      <4> QED  BY <1>2, <1>10, <1>13, <2>1, <3>3, <4>1 DEF Counted
    <3>4. CASE h \in recs \ plan
      <4>1. h \in DOMAIN index
        BY <1>4, <3>4
      <4>2. \A ino \in Inodes : content[ino] # h /\ frozen[ino] # h
        BY <1>4, <2>1, <3>4, <4>1 DEF FrozenOut
      <4>3. Count(h) = 0
        BY <4>2, Unnamed
      <4> QED  BY <1>2, <1>13, <2>1, <3>4, <4>1, <4>3 DEF Counted
    <3> QED  BY <1>2, <1>4, <3>2, <3>3, <3>4
  <2> QED  BY <2>2, <2>3 DEF Counted
<1>15. /\ locating \in Seq(Batches) /\ Len(locating) \in Nat /\ DOMAIN locating = 1..Len(locating)
       /\ \A k \in DOMAIN locating : locating[k].to <= head /\ locating[k].b \in Nat
       /\ [b |-> b, to |-> runs[b].to, done |-> FALSE] \in Batches
  <2>1. locating \in Seq(Batches) /\ \A k \in DOMAIN locating : locating[k].to <= head
    BY DEF BookInv, RunInv, PipeTypes
  <2> QED  BY <1>4, <1>5, <2>1, Batch DEF Batches
<1>16. /\ locating' \in Seq(Batches) /\ Len(locating') = Len(locating) + 1
       /\ DOMAIN locating' = 1..Len(locating) + 1
       /\ \A k \in DOMAIN locating : locating'[k] = locating[k]
       /\ locating'[Len(locating) + 1] = [b |-> b, to |-> runs[b].to, done |-> FALSE]
  BY <1>3, <1>15
<1>17. \A x \in DOMAIN runs : x # b => runs[x].phase \notin Active
  BY <1>1 DEF BookInv, RunInv, OneRun, Active
<1>18. PipeTypes'
  <2>1. \A x \in DOMAIN runs : /\ runs'[x] \in RunOf /\ x \in Nat
                               /\ runs'[x].to <= head /\ runs'[x].pack <= Len(packs)
    BY <1>4, <1>6, <1>7 DEF BookInv, RunInv, PipeTypes
  <2>2. \A k \in DOMAIN locating' : locating'[k].to <= head
    BY <1>4, <1>15, <1>16
  <2>3. \A x \in DOMAIN runs' : runs'[x].phase \notin Active
    BY <1>6, <1>7, <1>17 DEF Active
  <2> QED  BY <1>1, <1>6, <1>16, <2>1, <2>2, <2>3 DEF PipeTypes, Active
<1>19. OneRun' /\ RunTakes' /\ PlansBelow'
  <2>1. \A x \in DOMAIN runs' : runs'[x].phase \notin Active
    BY <1>6, <1>7, <1>17 DEF Active
  <2>2. PlansBelow'
    BY <1>1, <1>4, <1>6, <1>7 DEF BookInv, RunInv, PlansBelow
  <2> QED  BY <2>1, <2>2 DEF OneRun, RunTakes
<1>20. RunsBounded'
  <2>1. PICK N \in Nat : (\A x \in DOMAIN runs : x <= N) /\ (\A k \in DOMAIN locating : locating[k].b <= N)
    BY DEF BookInv, RunInv, RunsBounded
  <2>2. (\A x \in DOMAIN runs' : x <= N) /\ (\A k \in DOMAIN locating' : locating'[k].b <= N)
    BY <1>6, <1>15, <1>16, <2>1
  <2> QED  BY <2>2 DEF RunsBounded
<1>21. Batched'
  <2>1. /\ \A k \in DOMAIN locating : locating[k].b # b
        /\ \A x \in DOMAIN runs : x # b =>
              \E k \in DOMAIN locating : locating[k].b = x /\ ~locating[k].done
        /\ \A j, k \in DOMAIN locating : locating[j].b = locating[k].b => j = k
    BY <1>1, <1>17 DEF BookInv, RunInv, Batched, Active
  <2>2. \A x \in DOMAIN runs : \E k \in DOMAIN locating' : locating'[k].b = x /\ ~locating'[k].done
    <3>1. locating'[Len(locating) + 1].b = b /\ ~locating'[Len(locating) + 1].done
      BY <1>16
    <3>2. Len(locating) + 1 \in DOMAIN locating' /\ DOMAIN locating \subseteq DOMAIN locating'
      BY <1>15, <1>16
    <3> QED  BY <1>16, <2>1, <3>1, <3>2
  <2>3. \A j, k \in DOMAIN locating' : locating'[j].b = locating'[k].b => j = k
    BY <1>15, <1>16, <2>1
  <2>4. \A x \in DOMAIN runs' : runs'[x].phase \notin Active
    BY <1>6, <1>7, <1>17 DEF Active
  <2> QED  BY <1>6, <2>2, <2>3, <2>4 DEF Batched
<1>22. WaitInv'
  BY <1>1 DEF BookInv, WaitInv, WaitTypes, LockHeld
<1> QED  BY <1>8, <1>9, <1>11, <1>12, <1>14, <1>18, <1>19, <1>20, <1>21, <1>22 DEF BookInv, MapInv, RunInv

(* An upload ends.                                                         *)
LEMMA UploadEndsStep ==
    ASSUME BookInv, NEW p \in DOMAIN packs, UploadEnds(p)
    PROVE  BookInv'
<1>1. /\ UNCHANGED <<cell, head, tail, seq, reclaimTo, reader>>
      /\ UNCHANGED <<index, order, live, handleLoc, locRefs, content, frozen, nextHandle, jHandles>>
      /\ UNCHANGED <<chunkLoc, jChunks, locating, runs, packing, ck, locked>>
      /\ UNCHANGED <<flushErr, locateErr, written, crashes, asleep, waiting>>
  BY DEF UploadEnds, ring, maps, errs, pipe, disk, point
<1>2. \/ packs' = [packs EXCEPT ![p] = "landed"] /\ UNCHANGED <<queueErr, faults>>
      \/ packs' = [packs EXCEPT ![p] = "failed"] /\ queueErr' = TRUE /\ faults' = faults + 1
  BY DEF UploadEnds, Fail
<1>3. packs' \in Seq({"queued", "landed", "failed", "unsent"}) /\ Len(packs') = Len(packs)
  <2>1. packs \in Seq({"queued", "landed", "failed", "unsent"})
    BY DEF BookInv, SendTypes
  <2>2. PICK s \in {"landed", "failed"} : packs' = [packs EXCEPT ![p] = s]
    BY <1>2
  <2>3. Len(packs) \in Nat /\ DOMAIN packs = 1..Len(packs) /\ packs = [x \in 1..Len(packs) |-> packs[x]]
    BY <2>1
  <2>4. packs' = [x \in 1..Len(packs) |-> IF x = p THEN s ELSE packs[x]]
    BY <2>2, <2>3
  <2>5. \A x \in 1..Len(packs) : packs[x] \in {"queued", "landed", "failed", "unsent"}
    BY <2>1, <2>3
  <2> QED  BY <2>2, <2>3, <2>4, <2>5
<1>4. SendTypes'
  BY <1>1, <1>3 DEF BookInv, SendTypes
<1>5. RingTypes' /\ MapInv'
  BY <1>1, RingStands, MapsStand DEF BookInv, MapInv, FrozenOut
<1>6. RunInv'
  BY <1>1, <1>3, Typed, RunsStand DEF BookInv
<1>7. WaitInv'
  <2>1. queueErr \in BOOLEAN /\ faults \in Nat
    BY DEF BookInv, WaitInv, WaitTypes
  <2>3. (queueErr' = queueErr \/ queueErr' = TRUE) /\ (faults' = faults \/ faults' = faults + 1)
    BY <1>2, Zenon
  <2>4. queueErr' \in BOOLEAN
    BY <2>1, <2>3, Zenon
  <2>5. faults' \in Nat
    BY <2>1, <2>3
  <2>2. queueErr' \in BOOLEAN /\ faults' \in Nat
    BY <2>4, <2>5
  <2> QED  BY <1>1, <2>2 DEF BookInv, WaitInv, WaitTypes, LockHeld
<1> QED  BY <1>4, <1>5, <1>6, <1>7 DEF BookInv

(* A location record is written, or is not.                                *)
LEMMA JournalStep ==
    ASSUME BookInv, NEW b \in DOMAIN runs, Journal(b)
    PROVE  BookInv'
<1>1. /\ UNCHANGED <<cell, head, tail, seq, reclaimTo, reader>>
      /\ UNCHANGED <<index, order, live, handleLoc, locRefs, content, frozen, nextHandle>>
      /\ UNCHANGED <<packs, chunkLoc, locating, packing, ck, locked>>
      /\ UNCHANGED <<flushErr, locateErr, queueErr, written, crashes, asleep, waiting>>
      /\ runs[b].phase = "published"
  BY DEF Journal, InRun, ring, maps, errs, sends, point
<1>2. \/ /\ jHandles' = [h \in Handles |-> IF h \in runs[b].plan THEN runs[b].loc[h] ELSE jHandles[h]]
         /\ jChunks' = [c \in Data |-> IF c \in runs[b].stored THEN runs[b].pack ELSE jChunks[c]]
         /\ runs' = [runs EXCEPT ![b].phase = "recorded"] /\ UNCHANGED faults
      \/ /\ UNCHANGED <<jHandles, jChunks>> /\ runs' = [runs EXCEPT ![b].phase = "unrecorded"]
         /\ faults' = faults + 1
  BY DEF Journal, Fail, disk
<1>3. /\ runs[b] \in RunOf /\ runs[b].to <= head /\ runs[b].pack <= Len(packs)
      /\ \A h \in runs[b].plan : h < nextHandle
      /\ runs = [x \in DOMAIN runs |-> runs[x]]
  BY <1>1 DEF BookInv, RunInv, PipeTypes, PlansBelow, RunOf
<1>4. PICK ph \in {"recorded", "unrecorded"} : runs' = [runs EXCEPT ![b].phase = ph]
  BY <1>2
<1>5. /\ runs'[b] = [runs[b] EXCEPT !.phase = ph]
      /\ DOMAIN runs' = DOMAIN runs /\ \A x \in DOMAIN runs \ {b} : runs'[x] = runs[x]
      /\ runs' = [x \in DOMAIN runs |-> runs'[x]]
  BY <1>3, <1>4
<1>6. /\ runs'[b] \in RunOf /\ runs'[b].phase = ph /\ runs'[b].plan = runs[b].plan
      /\ runs'[b].to = runs[b].to /\ runs'[b].recs = runs[b].recs /\ runs'[b].pack = runs[b].pack
  BY <1>3, <1>5 DEF RunOf
<1>7. RunInv'
  <2>1. runs'[b].phase \notin Active /\ runs[b].phase \notin Active
    BY <1>1, <1>6 DEF Active
  <2>2. Len(packs') \in Nat /\ Len(packs) <= Len(packs') /\ runs'[b].pack <= Len(packs')
    BY <1>1, <1>3, <1>6, Typed
  <2>3. (runs'[b].phase \in Active) = (runs[b].phase \in Active)
    BY <2>1
  <2>4. UNCHANGED <<head, index, content, nextHandle, locating, packing>>
    BY <1>1
  <2>5. \A h \in runs'[b].plan : h < nextHandle
    BY <1>3, <1>6
  <2> QED  BY <1>5, <1>6, <2>1, <2>2, <2>3, <2>4, <2>5, RunMoved
<1>8. jHandles' \in [Handles -> Bodies] /\ \A h \in Handles : jHandles'[h] # NoData => h < nextHandle
  <2>1. jHandles \in [Handles -> Bodies] /\ \A h \in Handles : jHandles[h] # NoData => h < nextHandle
    BY DEF BookInv, MapInv, MapTypes, Below
  <2>2. runs[b].loc \in [Handles -> Bodies]
    BY <1>3 DEF RunOf
  <2> QED  BY <1>2, <1>3, <2>1, <2>2
<1>9. SendTypes'
  <2>1. runs[b].pack \in 0..Len(packs)
    <3>1. runs[b].pack \in Nat
      BY <1>3 DEF RunOf
    <3> QED  BY <1>3, <3>1, Typed
  <2>2. jChunks' \in [Data -> 0..Len(packs)]
    BY <1>2, <2>1 DEF BookInv, SendTypes
  <2> QED  BY <1>1, <2>2 DEF BookInv, SendTypes
<1>10. MapInv'
  <2>1. \A h : Count(h)' = Count(h)
    BY <1>1 DEF Count, Naming, Holding
  <2>2. Counted'
    BY <1>1, <2>1 DEF BookInv, MapInv, Counted
  <2>3. Below' /\ FrozenOut'
    BY <1>1, <1>8 DEF BookInv, MapInv, Below, FrozenOut, NoView
  <2>4. MapTypes'
    BY <1>1, <1>8 DEF BookInv, MapInv, MapTypes
  <2> QED  BY <2>2, <2>3, <2>4 DEF MapInv
<1>11. RingTypes'
  BY <1>1, RingStands DEF BookInv
<1>12. WaitInv'
  BY <1>1, <1>2 DEF BookInv, WaitInv, WaitTypes, LockHeld
<1> QED  BY <1>7, <1>9, <1>10, <1>11, <1>12 DEF BookInv

-----------------------------------------------------------------------------
(* The queue of batches.                                                   *)

LEMMA Remainder ==
    ASSUME NEW T, NEW s \in Seq(T), NEW n \in 0..Len(s)
    PROVE  /\ SubSeq(s, n + 1, Len(s)) \in Seq(T) /\ Len(SubSeq(s, n + 1, Len(s))) = Len(s) - n
           /\ \A k \in 1..Len(s) - n : SubSeq(s, n + 1, Len(s))[k] = s[n + k]
<1>1. Len(s) \in Nat /\ n \in Nat
  OBVIOUS
<1>2. SubSeq(s, n + 1, Len(s)) \in Seq(T)
  BY <1>1
<1>3. Len(SubSeq(s, n + 1, Len(s))) = Len(s) - n
  BY <1>1
<1>4. \A k \in 1..Len(s) - n : SubSeq(s, n + 1, Len(s))[k] = s[n + k]
  BY <1>1
<1> QED  BY <1>2, <1>3, <1>4

(* The batches counted by DonePrefix are done, and are a prefix.           *)
LEMMA DonePrefixIs ==
    ASSUME NEW q \in Seq(Batches)
    PROVE  DonePrefix(q) \in 0..Len(q) /\ \A k \in 1..DonePrefix(q) : q[k].done
<1> DEFINE S == {n \in 0..Len(q) : \A k \in 1..n : q[k].done}
<1>1. Len(q) \in Nat
  OBVIOUS
<1>2. S \subseteq Nat /\ 0 \in S /\ \A x \in S : x <= Len(q)
  BY <1>1
<1>3. Highest(S) \in S
  <2> HIDE DEF S
  <2> QED  BY <1>1, <1>2, HighestIn
<1> QED  BY <1>3 DEF DonePrefix

(* Marking a batch keeps the queue, and marks no other.                    *)
LEMMA MarkedIs ==
    ASSUME locating \in Seq(Batches), NEW b
    PROVE  /\ Marked(b) \in Seq(Batches) /\ Len(Marked(b)) = Len(locating)
           /\ \A k \in 1..Len(locating) :
                 /\ Marked(b)[k].b = locating[k].b /\ Marked(b)[k].to = locating[k].to
                 /\ Marked(b)[k].done => locating[k].done \/ locating[k].b = b
                 /\ locating[k].b # b => Marked(b)[k] = locating[k]
<1>1. /\ Len(locating) \in Nat /\ DOMAIN locating = 1..Len(locating)
      /\ \A k \in DOMAIN locating : /\ locating[k] \in Batches /\ locating[k].b \in Nat
                                    /\ locating[k].to \in Nat /\ locating[k].done \in BOOLEAN
  BY Batch
<1> DEFINE e(k) == [locating[k] EXCEPT !.done = @ \/ locating[k].b = b]
<1>2. \A k \in 1..Len(locating) :
          /\ e(k) \in Batches /\ e(k).b = locating[k].b /\ e(k).to = locating[k].to
          /\ e(k).done => locating[k].done \/ locating[k].b = b
          /\ locating[k].b # b => e(k) = locating[k]
  <2> TAKE k \in 1..Len(locating)
  <2>1. /\ locating[k] \in Batches /\ locating[k].done \in BOOLEAN
    BY <1>1
  <2>2. e(k) = [b |-> locating[k].b, to |-> locating[k].to, done |-> (locating[k].done \/ locating[k].b = b)]
    BY <2>1 DEF Batches
  <2>3. locating[k] = [b |-> locating[k].b, to |-> locating[k].to, done |-> locating[k].done]
    BY <2>1 DEF Batches
  <2>4. e(k) \in Batches
    BY <1>1, <2>2 DEF Batches
  <2>5. locating[k].b # b => e(k) = locating[k]
    <3>1. ASSUME locating[k].b # b
          PROVE  (locating[k].done \/ locating[k].b = b) = locating[k].done
      BY <2>1, <3>1, Zenon
    <3> QED  BY <2>2, <2>3, <3>1
  <2> QED  BY <2>2, <2>4, <2>5
<1>3. Marked(b) = [k \in 1..Len(locating) |-> e(k)]
  BY <1>1 DEF Marked
<1> HIDE DEF e
<1>4. Marked(b) \in Seq(Batches) /\ Len(Marked(b)) = Len(locating)
  BY <1>1, <1>2, <1>3
<1> QED  BY <1>2, <1>3, <1>4

(* Removing a batch closes the queue over its place.                       *)
LEMMA WithoutIs ==
    ASSUME locating \in Seq(Batches), NEW i \in DOMAIN locating, NEW b, locating[i].b = b,
           \A j, k \in DOMAIN locating : locating[j].b = locating[k].b => j = k
    PROVE  /\ Without(b) \in Seq(Batches) /\ Len(Without(b)) = Len(locating) - 1
           /\ \A k \in 1..Len(locating) - 1 :
                 Without(b)[k] = IF k < i THEN locating[k] ELSE locating[k + 1]
<1>1. /\ Len(locating) \in Nat /\ DOMAIN locating = 1..Len(locating)
      /\ \A k \in DOMAIN locating : locating[k] \in Batches
  BY Batch
<1>2. i = CHOOSE k \in DOMAIN locating : locating[k].b = b
  OBVIOUS
<1>3. Without(b) = [k \in 1..Len(locating) - 1 |-> IF k < i THEN locating[k] ELSE locating[k + 1]]
  BY <1>2 DEF Without
<1>4. \A k \in 1..Len(locating) - 1 : (IF k < i THEN locating[k] ELSE locating[k + 1]) \in Batches
  BY <1>1
<1>5. Len(locating) - 1 \in Nat
  BY <1>1
<1> QED  BY <1>3, <1>4, <1>5

(* A batch whose record is durable: a prefix of the queue goes, and the    *)
(* tail may go to the end of it.                                           *)
LEMMA SettledDone ==
    ASSUME BookInv, NEW b \in DOMAIN runs, Settle(b), runs[b].phase = "recorded"
    PROVE  \E n \in 0..Len(locating) :
              /\ locating' \in Seq(Batches) /\ Len(locating') = Len(locating) - n
              /\ \A k \in 1..Len(locating) - n :
                    /\ locating'[k].b = locating[n + k].b /\ locating'[k].to = locating[n + k].to
                    /\ locating[n + k].b # b => locating'[k] = locating[n + k]
              /\ \A k \in 1..n : locating[k].done \/ locating[k].b = b
              /\ \A k \in 1..n : locating[k].to <= reclaimTo'
              /\ reclaimTo' = reclaimTo \/ \E k \in 1..n : reclaimTo' = locating[k].to
              /\ reclaimTo' \in 0..head /\ reclaimTo <= reclaimTo'
              /\ locateErr => n = 0
<1> DEFINE q == Marked(b)
           n == IF locateErr THEN 0 ELSE DonePrefix(q)
           S == {reclaimTo} \cup {q[k].to : k \in 1..n}
<1>1. /\ locating \in Seq(Batches) /\ reclaimTo \in 0..head /\ head \in Nat /\ locateErr \in BOOLEAN
      /\ \A k \in DOMAIN locating : locating[k].to <= head
  BY DEF BookInv, RunInv, PipeTypes, RingTypes, WaitInv, WaitTypes
<1>2. /\ Len(locating) \in Nat /\ DOMAIN locating = 1..Len(locating)
      /\ \A k \in DOMAIN locating : locating[k].to \in Nat
  BY <1>1, Batch
<1>3. /\ q \in Seq(Batches) /\ Len(q) = Len(locating)
      /\ \A k \in 1..Len(locating) :
                 /\ q[k].b = locating[k].b /\ q[k].to = locating[k].to
                 /\ q[k].done => locating[k].done \/ locating[k].b = b
                 /\ locating[k].b # b => q[k] = locating[k]
  BY <1>1, MarkedIs
<1>4. locating' = SubSeq(q, n + 1, Len(q)) /\ reclaimTo' = Highest(S)
  <2>1. (locateErr \/ ~(runs[b].phase = "recorded")) = locateErr
    BY <1>1
  <2> QED  BY <2>1 DEF Settle
<1> HIDE DEF q
<1>5. n \in 0..Len(locating) /\ (\A k \in 1..n : q[k].done) /\ (locateErr => n = 0)
  <2>1. DonePrefix(q) \in 0..Len(q) /\ \A k \in 1..DonePrefix(q) : q[k].done
    BY <1>3, DonePrefixIs
  <2> QED  BY <1>2, <1>3, <2>1
<1> HIDE DEF n
<1>6. S = {reclaimTo} \cup {locating[k].to : k \in 1..n}
  BY <1>2, <1>3, <1>5
<1> HIDE DEF S
<1>7. S \subseteq Nat /\ S # {} /\ \A x \in S : x <= head
  <2>1. \A k \in 1..n : locating[k].to \in Nat /\ locating[k].to <= head
    BY <1>1, <1>2, <1>5
  <2> QED  BY <1>1, <1>6, <2>1
<1>8. Highest(S) \in S /\ \A y \in S : y <= Highest(S)
  BY <1>1, <1>7, HighestIn
<1>9. /\ reclaimTo' = reclaimTo \/ \E k \in 1..n : reclaimTo' = locating[k].to
      /\ \A k \in 1..n : locating[k].to <= reclaimTo'
      /\ reclaimTo' \in 0..head /\ reclaimTo <= reclaimTo'
  <2>1. reclaimTo' \in S /\ \A y \in S : y <= reclaimTo'
    BY <1>4, <1>8
  <2>2. reclaimTo \in S /\ \A k \in 1..n : locating[k].to \in S
    BY <1>6
  <2>3. reclaimTo' = reclaimTo \/ \E k \in 1..n : reclaimTo' = locating[k].to
    BY <1>6, <2>1
  <2>4. reclaimTo' \in 0..head
    BY <1>1, <1>7, <2>1
  <2> QED  BY <2>1, <2>2, <2>3, <2>4
<1>10. /\ locating' \in Seq(Batches) /\ Len(locating') = Len(locating) - n
       /\ \A k \in 1..Len(locating) - n : locating'[k] = q[n + k]
  <2>1. n \in 0..Len(q)
    BY <1>3, <1>5
  <2> QED  BY <1>3, <1>4, <2>1, Remainder
<1>11. \A k \in 1..Len(locating) - n :
                    /\ locating'[k].b = locating[n + k].b /\ locating'[k].to = locating[n + k].to
                    /\ locating[n + k].b # b => locating'[k] = locating[n + k]
  <2>1. \A k \in 1..Len(locating) - n : n + k \in 1..Len(locating)
    BY <1>2, <1>5
  <2> QED  BY <1>3, <1>10, <2>1
<1>12. \A k \in 1..n : locating[k].done \/ locating[k].b = b
  BY <1>2, <1>3, <1>5
<1> QED  BY <1>5, <1>9, <1>10, <1>11, <1>12

(* One whose record failed leaves the queue, and the tail stays.           *)
LEMMA SettledFailed ==
    ASSUME BookInv, NEW b \in DOMAIN runs, Settle(b), runs[b].phase = "unrecorded"
    PROVE  \E i \in 1..Len(locating) :
              /\ locating[i].b = b
              /\ locating' \in Seq(Batches) /\ Len(locating') = Len(locating) - 1
              /\ \A k \in 1..Len(locating) - 1 :
                    locating'[k] = IF k < i THEN locating[k] ELSE locating[k + 1]
              /\ reclaimTo' = reclaimTo /\ locateErr' = TRUE
<1> DEFINE q == Without(b)
<1>1. /\ locating \in Seq(Batches) /\ reclaimTo \in 0..head /\ head \in Nat /\ Batched
  BY DEF BookInv, RunInv, PipeTypes, RingTypes
<1>2. /\ Len(locating) \in Nat /\ DOMAIN locating = 1..Len(locating)
  BY <1>1, Batch
<1>3. PICK i \in DOMAIN locating : locating[i].b = b
  BY <1>1 DEF Batched, Active
<1>4. /\ q \in Seq(Batches) /\ Len(q) = Len(locating) - 1
      /\ \A k \in 1..Len(locating) - 1 : q[k] = IF k < i THEN locating[k] ELSE locating[k + 1]
  BY <1>1, <1>3, WithoutIs DEF Batched
<1>5. /\ locating' = SubSeq(q, 0 + 1, Len(q)) /\ locateErr' = TRUE
      /\ reclaimTo' = Highest({reclaimTo} \cup {q[k].to : k \in 1..0})
  <2>1. runs[b].phase # "recorded"
    OBVIOUS
  <2> HIDE DEF q
  <2>2. (locateErr \/ ~(runs[b].phase = "recorded")) = TRUE
    BY <2>1
  <2> QED  BY <2>1, <2>2 DEF Settle, q
<1> HIDE DEF q
<1>6. {reclaimTo} \cup {q[k].to : k \in 1..0} = {reclaimTo}
  OBVIOUS
<1>7. reclaimTo' = reclaimTo
  <2>1. {reclaimTo} \subseteq Nat /\ {reclaimTo} # {} /\ \A x \in {reclaimTo} : x <= head
    BY <1>1
  <2>2. Highest({reclaimTo}) \in {reclaimTo}
    BY <1>1, <2>1, HighestIn
  <2> QED  BY <1>5, <1>6, <2>2
<1>8. locating' = q
  BY <1>2, <1>4, <1>5
<1> QED  BY <1>2, <1>3, <1>4, <1>5, <1>7, <1>8

(* A batch settles: its record is durable, or the tail is frozen.          *)
LEMMA SettleStep ==
    ASSUME BookInv, NEW b \in DOMAIN runs, Settle(b)
    PROVE  BookInv'
<1>1. /\ UNCHANGED <<cell, head, seq, reader>>
      /\ UNCHANGED <<index, order, live, handleLoc, locRefs, content, frozen, nextHandle, jHandles>>
      /\ UNCHANGED <<packs, chunkLoc, jChunks, packing, ck, locked>>
      /\ UNCHANGED <<queueErr, written, faults, crashes, waiting>> /\ asleep' = {}
      /\ runs' = [x \in DOMAIN runs \ {b} |-> runs[x]]
      /\ Reclaim(reclaimTo', reader)
  BY DEF Settle, ring, maps, sends, disk, point, bounds
<1>2. runs[b].phase \in {"recorded", "unrecorded"} /\ runs[b].phase \notin Active
  BY DEF Settle, InRun, Active
<1>3. /\ locating \in Seq(Batches) /\ Len(locating) \in Nat /\ DOMAIN locating = 1..Len(locating)
      /\ \A x \in DOMAIN runs : runs[x].phase \in Active => \A k \in 1..Len(locating) : locating[k].b # x
      /\ \A x \in DOMAIN runs : runs[x].phase \notin Active =>
            \E k \in 1..Len(locating) : locating[k].b = x /\ ~locating[k].done
      /\ \A j, k \in 1..Len(locating) : locating[j].b = locating[k].b => j = k
  BY Batch DEF BookInv, RunInv, PipeTypes, Batched
<1>9. \A x \in DOMAIN runs' : x \in DOMAIN runs /\ x # b /\ runs'[x] = runs[x]
  BY <1>1
<1>4. /\ locating' \in Seq(Batches) /\ reclaimTo' \in 0..head /\ Batched'
      /\ \A k \in DOMAIN locating' : \E j \in DOMAIN locating :
              locating'[k].b = locating[j].b /\ locating'[k].to = locating[j].to
  <2>1. CASE runs[b].phase = "recorded"
    <3>1. PICK n \in 0..Len(locating) :
              /\ locating' \in Seq(Batches) /\ Len(locating') = Len(locating) - n
              /\ \A k \in 1..Len(locating) - n :
                    /\ locating'[k].b = locating[n + k].b /\ locating'[k].to = locating[n + k].to
                    /\ locating[n + k].b # b => locating'[k] = locating[n + k]
              /\ \A k \in 1..n : locating[k].done \/ locating[k].b = b
              /\ reclaimTo' \in 0..head
      BY <2>1, SettledDone
    <3>2. /\ DOMAIN locating' = 1..Len(locating) - n /\ n \in Nat
          /\ \A k \in 1..Len(locating) - n : n + k \in 1..Len(locating)
      BY <1>3, <3>1
    <3>3. \A x \in DOMAIN runs : x # b /\ runs[x].phase \notin Active =>
              \E k \in 1..Len(locating) - n : locating'[k].b = x /\ ~locating'[k].done
      <4>1. TAKE x \in DOMAIN runs
      <4>2. HAVE x # b /\ runs[x].phase \notin Active
      <4>3. PICK k \in 1..Len(locating) : locating[k].b = x /\ ~locating[k].done
        BY <1>3, <4>2
      <4>4. k > n
        <5>1. k \in 1..n => locating[k].done \/ locating[k].b = b
          BY <3>1
        <5>2. k \notin 1..n
          BY <4>2, <4>3, <5>1
        <5> QED  BY <1>3, <3>2, <5>2
      <4>5. k - n \in 1..Len(locating) - n /\ n + (k - n) = k
        BY <1>3, <3>2, <4>4
      <4>6. locating'[k - n] = locating[k]
        BY <3>1, <4>2, <4>3, <4>5
      <4> QED  BY <4>3, <4>5, <4>6
    <3> DEFINE from(k) == n + k
    <3>6. \A k \in 1..Len(locating) - n : /\ from(k) \in 1..Len(locating)
             /\ locating'[k].b = locating[from(k)].b /\ locating'[k].to = locating[from(k)].to
      BY <3>1, <3>2
    <3>7. \A j, k \in 1..Len(locating) - n : from(j) = from(k) => j = k
      BY <3>2
    <3> HIDE DEF from
    <3>4. \A j, k \in 1..Len(locating) - n : locating'[j].b = locating'[k].b => j = k
      BY <1>3, <3>6, <3>7
    <3>8. \A x \in DOMAIN runs : runs[x].phase \in Active =>
              \A k \in 1..Len(locating) - n : locating'[k].b # x
      BY <1>3, <3>6
    <3>5. Batched'
      BY <1>9, <3>2, <3>3, <3>4, <3>8 DEF Batched
    <3> QED  BY <1>3, <3>1, <3>2, <3>5, <3>6
  <2>2. CASE runs[b].phase = "unrecorded"
    <3>1. PICK i \in 1..Len(locating) :
              /\ locating[i].b = b
              /\ locating' \in Seq(Batches) /\ Len(locating') = Len(locating) - 1
              /\ \A k \in 1..Len(locating) - 1 :
                    locating'[k] = IF k < i THEN locating[k] ELSE locating[k + 1]
              /\ reclaimTo' = reclaimTo
      BY <2>2, SettledFailed
    <3>2. DOMAIN locating' = 1..Len(locating) - 1
      BY <1>3, <3>1
    <3> DEFINE from(k) == IF k < i THEN k ELSE k + 1
    <3>3. \A k \in 1..Len(locating) - 1 : from(k) \in 1..Len(locating) /\ locating'[k] = locating[from(k)]
      BY <1>3, <3>1
    <3>4. \A x \in DOMAIN runs : x # b /\ runs[x].phase \notin Active =>
              \E k \in 1..Len(locating) - 1 : locating'[k].b = x /\ ~locating'[k].done
      <4>1. TAKE x \in DOMAIN runs
      <4>2. HAVE x # b /\ runs[x].phase \notin Active
      <4>3. PICK k \in 1..Len(locating) : locating[k].b = x /\ ~locating[k].done
        BY <1>3, <4>2
      <4>4. k # i
        BY <3>1, <4>2, <4>3
      <4>5. PICK j \in 1..Len(locating) - 1 : from(j) = k
        <5>1. CASE k < i
          BY <1>3, <5>1
        <5>2. CASE k > i
          <6>1. k - 1 \in 1..Len(locating) - 1 /\ ~(k - 1 < i) /\ (k - 1) + 1 = k
            BY <1>3, <5>2
          <6> QED  BY <6>1
        <5> QED  BY <1>3, <4>4, <5>1, <5>2
      <4> QED  BY <3>3, <4>3, <4>5
    <3>5. \A j, k \in 1..Len(locating) - 1 : locating'[j].b = locating'[k].b => j = k
      <4>1. \A j, k \in 1..Len(locating) - 1 : locating'[j].b = locating'[k].b => from(j) = from(k)
        <5> HIDE DEF from
        <5> QED  BY <1>3, <3>3
      <4>2. \A j, k \in 1..Len(locating) - 1 : from(j) = from(k) => j = k
        BY <1>3
      <4> QED  BY <4>1, <4>2
    <3> HIDE DEF from
    <3>8. \A x \in DOMAIN runs : runs[x].phase \in Active =>
              \A k \in 1..Len(locating) - 1 : locating'[k].b # x
      BY <1>3, <3>3
    <3>6. Batched'
      BY <1>9, <3>2, <3>4, <3>5, <3>8 DEF Batched
    <3>7. reclaimTo' \in 0..head
      <4>1. reclaimTo \in 0..head
        BY DEF BookInv, RingTypes
      <4> QED  BY <3>1, <4>1
    <3>9. \A k \in DOMAIN locating' : \E j \in DOMAIN locating :
              locating'[k].b = locating[j].b /\ locating'[k].to = locating[j].to
      <4>1. TAKE k \in DOMAIN locating'
      <4>2. from(k) \in DOMAIN locating /\ locating'[k] = locating[from(k)]
        BY <1>3, <3>2, <3>3
      <4> QED  BY <4>2
    <3> QED  BY <3>1, <3>6, <3>7, <3>9
  <2> QED  BY <1>2, <2>1, <2>2
<1>5. RunInv'
  <2>1. packing' = (packing /\ runs[b].phase \notin Active)
    <3>1. packing \in BOOLEAN
      BY DEF BookInv, RunInv, PipeTypes
    <3> QED  BY <1>1, <1>2, <3>1, Zenon
  <2> QED  BY <1>1, <1>4, <2>1, RunGone
<1>6. RingTypes'
  <2>1. /\ head \in Nat /\ tail \in 0..head
        /\ \A x \in Readers : reader[x].pos \in Int /\ reader[x].pos <= head
    <3>1. /\ head \in Nat /\ tail \in 0..head
          /\ \A x \in Readers : reader[x] \in [pos : -1..head - 1, h : 0..MaxHandle]
      BY DEF BookInv, RingTypes
    <3>2. \A x \in Readers : reader[x].pos \in -1..head - 1
      BY <3>1
    <3> QED  BY <3>1, <3>2
  <2> DEFINE to == reclaimTo'
  <2>2. to \in 0..head /\ Reclaim(to, reader)
    BY <1>1, <1>4
  <2> HIDE DEF to
  <2>3. tail' \in 0..head
    BY <2>1, <2>2, Reclaimed
  <2> QED  BY <1>1, <1>4, <2>3 DEF BookInv, RingTypes
<1>7. SendTypes' /\ MapInv'
  BY <1>1, SendsStand, MapsStand DEF BookInv, MapInv, FrozenOut
<1>8. WaitInv'
  <2>1. flushErr' \in BOOLEAN /\ locateErr' \in BOOLEAN
    <3>1. flushErr \in BOOLEAN /\ locateErr \in BOOLEAN
      BY DEF BookInv, WaitInv, WaitTypes
    <3>2. \/ flushErr' = flushErr /\ locateErr' = locateErr
          \/ flushErr' = TRUE /\ locateErr' = TRUE
      BY <3>1, Zenon DEF Settle
    <3> QED  BY <3>1, <3>2, Zenon
  <2> QED  BY <1>1, <2>1 DEF BookInv, WaitInv, WaitTypes, LockHeld
<1> QED  BY <1>5, <1>6, <1>7, <1>8 DEF BookInv

-----------------------------------------------------------------------------
(* Steps of a checkpoint, and of a crash.                                  *)

(* A turn of Flush ends, sleeps, or starts a run; it goes on to the queue  *)
(* of packs only when nothing is left to locate, and ends only when the    *)
(* ring is empty or holds nothing to cut.                                  *)
LEMMA FlushTurn ==
    ASSUME NEW at \in {"pack", "locate"}, NEW err, FlushFrom(at, err)
    PROVE  /\ ck' \in {"idle", "pack", "locate", "drain", "flushed"}
           /\ asleep' = asleep \/ asleep' = asleep \cup {"checkpoint"}
           /\ \/ UNCHANGED <<packing, runs>>
              \/ /\ ~packing /\ Cut(index, order, head, 0) # {}
                 /\ StartPack(Cut(index, order, head, 0), index, order)
           /\ ck' \in {"drain", "flushed"} =>
                 /\ UNCHANGED <<packing, runs>> /\ locating = << >>
                 /\ head = tail \/ Cut(index, order, head, 0) = {}
                 /\ ck' = "flushed" => ~packing
<1>1. CASE err
  BY <1>1 DEF FlushFrom
<1>2. CASE ~err
  <2>1. FlushOn(at)
    BY <1>2 DEF FlushFrom
  <2> QED  BY <2>1 DEF FlushOn, SleepAt
<1> QED  BY <1>1, <1>2

(* A turn of Flush.                                                        *)
LEMMA FlushStep ==
    ASSUME BookInv, Flush
    PROVE  BookInv'
<1> DEFINE places == Cut(index, order, head, 0)
<1>1. /\ UNCHANGED <<cell, head, tail, seq, reclaimTo, reader>>
      /\ UNCHANGED <<index, order, live, handleLoc, locRefs, content, frozen, nextHandle, jHandles>>
      /\ UNCHANGED <<packs, chunkLoc, jChunks, locating, waiting>>
      /\ UNCHANGED <<locateErr, queueErr, written, faults, crashes>>
  BY DEF Flush, ring, maps, sends, disk, bounds
<1>2. \E at \in {"pack", "locate"} : \E err : FlushFrom(at, err)
  BY DEF Flush, BeginFlush
<1>3. /\ ck' \in {"idle", "pack", "locate", "drain", "flushed"}
      /\ asleep' = asleep \/ asleep' = asleep \cup {"checkpoint"}
      /\ \/ UNCHANGED <<packing, runs>>
         \/ ~packing /\ places # {} /\ StartPack(places, index, order)
  BY <1>2, FlushTurn
<1>4. /\ ck \in {"idle", "flushed", "pack", "locate"}
      /\ flushErr' = FALSE \/ flushErr' = flushErr
      /\ \/ locked' = locked /\ ck = "idle"
         \/ waiting = {} /\ locked' = (ck' # "idle")
         \/ locked' = (locked /\ ck' # "idle")
  BY DEF Flush, BeginFlush
<1> HIDE DEF places
<1>5. RingTypes' /\ SendTypes'
  BY <1>1, RingStands, SendsStand DEF BookInv
<1>6. MapInv'
  <2>1. frozen = NoView
    BY <1>4 DEF BookInv, MapInv, FrozenOut
  <2> QED  BY <1>1, <2>1, MapsStand DEF BookInv
<1>7. /\ head \in Nat /\ Len(packs) \in Nat /\ order \in Seq(Handles)
      /\ nextHandle \in Nat /\ DOMAIN index \subseteq Handles
      /\ \A h \in DOMAIN index : index[h] \in 0..head - 1
  BY Typed
<1>8. RunInv'
  <2>1. CASE UNCHANGED <<packing, runs>>
    BY <1>1, <1>7, <2>1, RunsStand DEF BookInv
  <2>2. CASE ~packing /\ places # {} /\ StartPack(places, index, order)
    BY <1>1, <1>7, <2>2, Launched DEF BookInv, places
  <2> QED  BY <1>3, <2>1, <2>2
<1>9. WaitInv'
  <2>1. /\ locked \in BOOLEAN /\ flushErr \in BOOLEAN
        /\ locked => waiting = {} /\ ck \in {"pack", "locate", "drain", "flushed"}
    BY DEF BookInv, WaitInv, WaitTypes, LockHeld
  <2>2. locked' \in BOOLEAN /\ (locked' => waiting = {} /\ ck' # "idle")
    <3>1. CASE locked' = locked /\ ck = "idle"
      <4>1. ~locked
        BY <2>1, <3>1
      <4> QED  BY <2>1, <3>1, <4>1
    <3>2. CASE waiting = {} /\ locked' = (ck' # "idle")
      BY <3>2
    <3>3. CASE locked' = (locked /\ ck' # "idle")
      BY <2>1, <3>3
    <3> QED  BY <1>4, <3>1, <3>2, <3>3
  <2>3. flushErr' \in BOOLEAN
    BY <1>4, <2>1, Zenon
  <2>4. asleep' \subseteq waiting \cup {"checkpoint"}
    BY <1>3 DEF BookInv, WaitInv, WaitTypes
  <2>5. WaitTypes'
    BY <1>1, <1>3, <2>2, <2>3, <2>4 DEF BookInv, WaitInv, WaitTypes
  <2>6. LockHeld'
    BY <1>1, <1>3, <2>2 DEF BookInv, WaitInv, LockHeld
  <2> QED  BY <2>5, <2>6 DEF WaitInv
<1> QED  BY <1>5, <1>6, <1>8, <1>9 DEF BookInv

(* The queue is drained, or a pack failed.                                 *)
LEMMA DrainStep ==
    ASSUME BookInv, Drain
    PROVE  BookInv'
<1>1. /\ UNCHANGED <<cell, head, tail, seq, reclaimTo, reader>>
      /\ UNCHANGED <<index, order, live, handleLoc, locRefs, content, frozen, nextHandle, jHandles>>
      /\ UNCHANGED <<packs, chunkLoc, jChunks, locating, runs, packing, waiting, asleep>>
      /\ UNCHANGED <<flushErr, locateErr, queueErr, written, faults, crashes>>
  BY DEF Drain, ring, maps, errs, pipe, sends, disk, bounds
<1>2. ck = "drain" /\ ((ck' = "idle" /\ locked' = FALSE) \/ (ck' = "flushed" /\ locked' = locked))
  BY DEF Drain
<1>3. RingTypes' /\ SendTypes'
  BY <1>1, RingStands, SendsStand DEF BookInv
<1>4. MapInv'
  <2>1. frozen = NoView
    BY <1>2 DEF BookInv, MapInv, FrozenOut
  <2> QED  BY <1>1, <2>1, MapsStand DEF BookInv
<1>5. RunInv'
  BY <1>1, Typed, RunsStand DEF BookInv
<1>6. WaitInv'
  <2>1. CASE ck' = "idle" /\ locked' = FALSE
    BY <1>1, <2>1 DEF BookInv, WaitInv, WaitTypes, LockHeld
  <2>2. CASE ck' = "flushed" /\ locked' = locked
    BY <1>1, <2>2 DEF BookInv, WaitInv, WaitTypes, LockHeld
  <2> QED  BY <1>2, <2>1, <2>2
<1> QED  BY <1>3, <1>4, <1>5, <1>6 DEF BookInv

(* The seal has waited for the uplink.                                     *)
LEMMA FinishStep ==
    ASSUME BookInv, Finish
    PROVE  BookInv'
<1>1. /\ UNCHANGED <<cell, head, tail, seq, reclaimTo, reader>>
      /\ UNCHANGED <<index, order, live, handleLoc, locRefs, content, frozen, nextHandle, jHandles>>
      /\ UNCHANGED <<packs, chunkLoc, jChunks, locating, runs, packing, waiting, asleep>>
      /\ UNCHANGED <<flushErr, locateErr, queueErr, written, faults, crashes, locked>>
      /\ ck = "render" /\ ck' = "sealed"
  BY DEF Finish, ring, maps, errs, pipe, sends, disk, bounds
<1>2. RingTypes' /\ SendTypes' /\ MapInv'
  BY <1>1, RingStands, SendsStand, MapsStand DEF BookInv
<1>3. RunInv'
  BY <1>1, Typed, RunsStand DEF BookInv
<1>4. WaitInv'
  BY <1>1 DEF BookInv, WaitInv, WaitTypes, LockHeld
<1> QED  BY <1>2, <1>3, <1>4 DEF BookInv

(* What a view holds, as references.                                       *)
LEMMA HeldIs ==
    ASSUME NEW f, NEW h \in Handles
    PROVE  Held(f)[h] = Cardinality({ino \in Inodes : f[ino] = h}) /\ Held(f)[h] \in Nat
  BY CountIsNat DEF Held

(* The empty view holds nothing.                                           *)
LEMMA NothingHeld ==
    ASSUME NEW h \in Handles
    PROVE  Cardinality({ino \in Inodes : NoView[ino] = h}) = 0
<1>1. h # 0
  BY ConstantsAssumption DEF Handles
<1>2. {ino \in Inodes : NoView[ino] = h} = {}
  BY <1>1 DEF NoView
<1> QED  BY <1>2, FS_EmptySet

(* Freeze copies the content map and holds what it names.                  *)
LEMMA FreezeStep ==
    ASSUME BookInv, Freeze
    PROVE  BookInv'
<1>1. /\ UNCHANGED <<cell, head, tail, seq, reclaimTo, reader>>
      /\ UNCHANGED <<index, order, content, nextHandle, jHandles>>
      /\ UNCHANGED <<packs, chunkLoc, jChunks, locating, runs, packing, waiting, asleep>>
      /\ UNCHANGED <<flushErr, locateErr, queueErr, written, faults, crashes>>
      /\ ck = "flushed" /\ locked' = FALSE
  BY DEF Freeze, ring, errs, pipe, sends, disk, bounds
<1>2. \/ ck' = "idle" /\ UNCHANGED <<frozen, live, locRefs, handleLoc>>
      \/ /\ ~NamedInRing /\ ck' = "render" /\ frozen' = content
         /\ Apply(DOMAIN index, live, Held(content))
  BY DEF Freeze
<1>3. RingTypes' /\ SendTypes'
  BY <1>1, RingStands, SendsStand DEF BookInv
<1>4. RunInv'
  BY <1>1, Typed, RunsStand DEF BookInv
<1>5. WaitInv'
  <2>1. ck' \in {"idle", "render"}
    BY <1>2
  <2> QED  BY <1>1, <2>1 DEF BookInv, WaitInv, WaitTypes, LockHeld
<1>6. frozen = NoView
  BY <1>1 DEF BookInv, MapInv, FrozenOut
<1>7. CASE ck' = "idle" /\ UNCHANGED <<frozen, live, locRefs, handleLoc>>
  <2>1. MapInv'
    BY <1>1, <1>6, <1>7, MapsStand DEF BookInv
  <2> QED  BY <1>3, <1>4, <1>5, <2>1 DEF BookInv
<1>8. CASE /\ ~NamedInRing /\ ck' = "render" /\ frozen' = content
           /\ Apply(DOMAIN index, live, Held(content))
  <2> DEFINE dl == Held(content)
             n  == [x \in Handles |-> Count(x)']
  <2>1. /\ dl \in [Handles -> Int] /\ \A x \in Handles : dl[x] \in Int
        /\ \A x \in Handles : dl[x] = Cardinality(Naming(x))
    <3>1. \A x \in Handles : dl[x] = Cardinality(Naming(x)) /\ dl[x] \in Nat
      BY HeldIs DEF Naming
    <3>2. dl = [x \in Handles |-> dl[x]]
      BY DEF Held
    <3> HIDE DEF dl
    <3> QED  BY <3>1, <3>2
  <2>2. \A x \in Handles : Count(x) = Cardinality(Naming(x)) /\ Count(x)' = Count(x) + dl[x]
    <3>1. TAKE x \in Handles
    <3>2. Holding(x) = {ino \in Inodes : NoView[ino] = x} /\ Cardinality(Holding(x)) = 0
      BY <1>6, NothingHeld DEF Holding
    <3>3. Naming(x)' = Naming(x) /\ Holding(x)' = Naming(x)
      BY <1>1, <1>8 DEF Naming, Holding
    <3>4. Cardinality(Naming(x)) \in Nat
      BY CountIsNat DEF Naming
    <3> HIDE DEF dl
    <3> QED  BY <2>1, <3>2, <3>3, <3>4 DEF Count
  <2>3. \A x \in Handles : Count(x) \in Nat /\ Count(x)' \in Nat
    BY CountsAreNat
  <2>4. n \in [Handles -> Nat] /\ \A x \in Handles : n[x] = Count(x)'
    BY <2>3
  <2> HIDE DEF n
  <2>5. Apply(DOMAIN index, live, dl)
    BY <1>8
  <2> HIDE DEF dl
  <2>6. /\ live \in [Handles -> Nat] /\ handleLoc \in [Handles -> Bodies]
        /\ locRefs \in [Handles -> Nat] /\ DOMAIN index \subseteq Handles
        /\ content \in [Inodes -> 0..MaxHandle]
    BY DEF BookInv, MapInv, MapTypes
  <2>7. Fits(DOMAIN index, live, dl, n)
    <3>1. \A x \in DOMAIN index : live[x] + dl[x] = n[x] /\ (handleLoc[x] # NoData => locRefs[x] = 0)
      <4>1. TAKE x \in DOMAIN index
      <4>2. x \in Handles /\ ~(\E ino \in Inodes : content[ino] = x)
        BY <1>8, <2>6 DEF NamedInRing
      <4> QED  BY <2>2, <2>4, <4>2 DEF BookInv, MapInv, Counted
    <3>2. \A x \in Handles \ DOMAIN index :
            live[x] = 0 /\ (handleLoc[x] # NoData => locRefs[x] + dl[x] = n[x])
      BY <2>2, <2>4 DEF BookInv, MapInv, Counted
    <3> QED  BY <2>1, <2>4, <2>6, <3>1, <3>2 DEF Fits
  <2>8. /\ Counted' /\ live' \in [Handles -> Nat] /\ locRefs' \in [Handles -> Nat]
        /\ handleLoc' \in [Handles -> Bodies]
        /\ \A x \in Handles : handleLoc'[x] # NoData => handleLoc[x] # NoData
    <3>1. Fitted(DOMAIN index', n)
      BY <1>1, <2>5, <2>7, Applied
    <3> QED  BY <1>1, <2>4, <2>6, <3>1, Recounted
  <2>9. MapTypes'
    BY <1>1, <1>8, <2>6, <2>8 DEF BookInv, MapInv, MapTypes
  <2>10. Below'
    BY <1>1, <1>8, <2>8 DEF BookInv, MapInv, Below
  <2>11. FrozenOut'
    BY <1>1, <1>8 DEF FrozenOut, NamedInRing
  <2> QED  BY <1>3, <1>4, <1>5, <2>8, <2>9, <2>10, <2>11 DEF BookInv, MapInv
<1> QED  BY <1>2, <1>7, <1>8

(* Release drops what the view held.                                       *)
LEMMA ReleaseStep ==
    ASSUME BookInv, Release
    PROVE  BookInv'
<1> DEFINE dl == [h \in Handles |-> -Held(frozen)[h]]
           n  == [x \in Handles |-> Count(x)']
<1>1. /\ UNCHANGED <<cell, head, tail, seq, reclaimTo, reader>>
      /\ UNCHANGED <<index, order, content, nextHandle, jHandles>>
      /\ UNCHANGED <<packs, chunkLoc, jChunks, locating, runs, packing, waiting, asleep>>
      /\ UNCHANGED <<flushErr, locateErr, queueErr, written, faults, crashes, locked>>
      /\ ck \in {"render", "sealed"} /\ ck' = "idle" /\ frozen' = NoView
      /\ Apply(DOMAIN index, live, dl)
  BY DEF Release, ring, errs, pipe, sends, disk, bounds
<1>2. RingTypes' /\ SendTypes'
  BY <1>1, RingStands, SendsStand DEF BookInv
<1>3. RunInv'
  BY <1>1, Typed, RunsStand DEF BookInv
<1>4. WaitInv'
  BY <1>1 DEF BookInv, WaitInv, WaitTypes, LockHeld
<1>5. /\ dl \in [Handles -> Int] /\ \A x \in Handles : dl[x] = -Cardinality(Holding(x))
  <2>1. \A x \in Handles : Held(frozen)[x] = Cardinality(Holding(x)) /\ Held(frozen)[x] \in Nat
    BY HeldIs DEF Holding
  <2> QED  BY <2>1
<1> HIDE DEF dl
<1>6. \A x \in Handles : Count(x)' = Count(x) + dl[x]
  <2>1. TAKE x \in Handles
  <2>2. Cardinality(Holding(x)') = 0
    <3>1. Holding(x)' = {ino \in Inodes : NoView[ino] = x}
      BY <1>1 DEF Holding
    <3> QED  BY <3>1, NothingHeld
  <2>3. Naming(x)' = Naming(x)
    BY <1>1 DEF Naming
  <2>4. Cardinality(Naming(x)) \in Nat /\ Cardinality(Holding(x)) \in Nat
    BY CountIsNat DEF Naming, Holding
  <2> QED  BY <1>5, <2>2, <2>3, <2>4 DEF Count
<1>7. \A x \in Handles : Count(x) \in Nat /\ Count(x)' \in Nat
  BY CountsAreNat
<1>8. n \in [Handles -> Nat] /\ \A x \in Handles : n[x] = Count(x)'
  BY <1>7
<1> HIDE DEF n
<1>9. /\ live \in [Handles -> Nat] /\ handleLoc \in [Handles -> Bodies]
      /\ locRefs \in [Handles -> Nat] /\ DOMAIN index \subseteq Handles
  BY DEF BookInv, MapInv, MapTypes
<1>10. Fits(DOMAIN index, live, dl, n)
  <2>1. \A x \in DOMAIN index : live[x] + dl[x] = n[x] /\ (handleLoc[x] # NoData => locRefs[x] = 0)
    BY <1>6, <1>8, <1>9 DEF BookInv, MapInv, Counted
  <2>2. \A x \in Handles \ DOMAIN index :
          live[x] = 0 /\ (handleLoc[x] # NoData => locRefs[x] + dl[x] = n[x])
    BY <1>6, <1>8 DEF BookInv, MapInv, Counted
  <2> QED  BY <1>5, <1>8, <1>9, <2>1, <2>2 DEF Fits
<1>11. /\ Counted' /\ live' \in [Handles -> Nat] /\ locRefs' \in [Handles -> Nat]
       /\ handleLoc' \in [Handles -> Bodies]
       /\ \A x \in Handles : handleLoc'[x] # NoData => handleLoc[x] # NoData
  <2>1. Fitted(DOMAIN index', n)
    BY <1>1, <1>10, Applied
  <2> QED  BY <1>1, <1>8, <1>9, <2>1, Recounted
<1>12. frozen' \in [Inodes -> 0..MaxHandle] /\ \A i \in Inodes : frozen'[i] = 0
  BY <1>1, ConstantsAssumption DEF NoView
<1>13. 0 \notin DOMAIN index /\ 0 < nextHandle
  BY <1>9, ConstantsAssumption DEF Handles, BookInv, MapInv, MapTypes
<1>14. MapTypes'
  BY <1>1, <1>11, <1>12 DEF BookInv, MapInv, MapTypes
<1>15. Below'
  BY <1>1, <1>11, <1>12, <1>13 DEF BookInv, MapInv, Below
<1>16. FrozenOut'
  <2>1. NoView' = NoView
    BY DEF NoView
  <2> QED  BY <1>1, <1>12, <1>13, <2>1 DEF FrozenOut
<1> QED  BY <1>2, <1>3, <1>4, <1>11, <1>14, <1>15, <1>16 DEF BookInv, MapInv

(* What recovery's walk accepts: whole records of ascending sequence.      *)
LEMMA Walked ==
    ASSUME NEW cells
    PROVE  /\ Walk(cells) \in 0..RingSize /\ Walk(cells) \in Nat
           /\ \A k \in 0..Walk(cells) - 1 :
                 /\ cells[(tail + k) % RingSize].h # 0
                 /\ k > 0 => cells[(tail + k) % RingSize].seq > cells[(tail + (k - 1)) % RingSize].seq
           /\ \A n \in 0..RingSize :
                 (\A k \in 0..n - 1 :
                    /\ cells[(tail + k) % RingSize].h # 0
                    /\ k > 0 => cells[(tail + k) % RingSize].seq > cells[(tail + (k - 1)) % RingSize].seq)
                 => n <= Walk(cells)
<1> DEFINE C(k) == cells[(tail + k) % RingSize]
           whole(n) == \A k \in 0..n - 1 : C(k).h # 0 /\ (k > 0 => C(k).seq > C(k - 1).seq)
           S == {n \in 0..RingSize : whole(n)}
<1>1. RingSize \in Nat
  BY ConstantsAssumption
<1>2. S \subseteq Nat /\ 0 \in S /\ \A x \in S : x <= RingSize
  BY <1>1
<1>3. Walk(cells) = Highest(S)
  BY DEF Walk
<1>4. Highest(S) \in S /\ \A y \in S : y <= Highest(S)
  <2> HIDE DEF S
  <2> QED  BY <1>1, <1>2, HighestIn
<1>5. Walk(cells) \in 0..RingSize /\ whole(Walk(cells)) /\ \A n \in 0..RingSize : whole(n) => n <= Walk(cells)
  <2> HIDE DEF whole
  <2> QED  BY <1>3, <1>4
<1> QED  BY <1>1, <1>5

(* The state recovery makes of the cells it finds.                         *)
LEMMA Recovered ==
    ASSUME BookInv, NEW cells \in [0..RingSize - 1 -> Cells], Recover(cells), tail' = tail, reclaimTo' = 0,
           jHandles' = jHandles, frozen' = NoView, ck' = "idle",
           reader' = [r \in Readers |-> [pos |-> -1, h |-> 0]]
    PROVE  RingTypes' /\ MapInv'
<1> DEFINE n     == Walk(cells)
           C(k)  == cells[(tail + k) % RingSize]
           found == {C(k).h : k \in 0..n - 1}
           known == found \cup {h \in Handles : jHandles[h] # NoData}
           kept  == [ino \in Inodes |-> IF content[ino] \in known THEN content[ino] ELSE 0]
           refs  == [h \in Handles |-> Cardinality({ino \in Inodes : kept[ino] = h})]
<1>1. /\ tail \in Nat /\ RingSize \in Nat /\ RingSize > 0 /\ MaxHandle \in Nat
      /\ jHandles \in [Handles -> Bodies] /\ content \in [Inodes -> 0..MaxHandle]
  BY Typed DEF BookInv, MapInv, MapTypes
<1>2. n \in 0..RingSize /\ n \in Nat /\ \A k \in 0..n - 1 : C(k).h # 0
  BY Walked
<1>3. \A k \in 0..n - 1 : C(k) \in Cells
  <2>1. \A k \in 0..n - 1 : tail + k \in Nat
    BY <1>1, <1>2
  <2> HIDE DEF n
  <2> QED  BY <2>1, CellOf
<1>4. /\ cell' = cells /\ head' = tail + n
      /\ seq' = IF n = 0 THEN 1 ELSE C(n - 1).seq + 1
      /\ index' = [h \in found |-> tail + Highest({k \in 0..n - 1 : C(k).h = h})]
      /\ order' = [k \in 1..n |-> C(k - 1).h]
      /\ nextHandle' = 1 + Highest({0} \cup known)
      /\ content' = kept
      /\ live' = [h \in Handles |-> IF h \in found THEN refs[h] ELSE 0]
      /\ locRefs' = [h \in Handles |-> IF h \in found THEN 0 ELSE refs[h]]
      /\ handleLoc' = jHandles
  BY DEF Recover
<1> HIDE DEF n, C
<1>5. \A k \in 0..n - 1 : C(k).h \in Handles /\ C(k).seq \in Nat
  BY <1>1, <1>2, <1>3 DEF Cells, Handles
<1>6. found \subseteq Handles /\ known \subseteq Handles
  BY <1>5
<1>7. \A h \in found : Highest({k \in 0..n - 1 : C(k).h = h}) \in 0..n - 1
  <2>1. TAKE h \in found
  <2> DEFINE K == {k \in 0..n - 1 : C(k).h = h}
  <2>2. K \subseteq Nat /\ K # {} /\ \A x \in K : x <= n
    BY <1>2
  <2>3. K \subseteq 0..n - 1
    OBVIOUS
  <2> HIDE DEF K
  <2>4. Highest(K) \in K
    BY <1>2, <2>2, HighestIn
  <2> QED  BY <2>3, <2>4 DEF K
<1> HIDE DEF found
<1>8. RingTypes'
  <2>1. seq' \in Nat
    <3>1. n # 0 => n - 1 \in 0..n - 1
      BY <1>2
    <3> QED  BY <1>2, <1>4, <1>5, <3>1
  <2>2. head' \in Nat /\ tail' \in 0..head' /\ reclaimTo' \in 0..head'
    BY <1>1, <1>2, <1>4
  <2>3. reader' \in [Readers -> [pos : -1..head' - 1, h : 0..MaxHandle]]
    <3>1. \A x \in Nat : -1 \in -1..x - 1 /\ 0 \in 0..x
      OBVIOUS
    <3>2. [pos |-> -1, h |-> 0] \in [pos : -1..head' - 1, h : 0..MaxHandle]
      BY <1>1, <2>2, <3>1
    <3> QED  BY <3>2
  <2> QED  BY <1>4, <2>1, <2>2, <2>3 DEF RingTypes
<1>9. /\ Highest({0} \cup known) \in 0..MaxHandle /\ \A h \in known : h <= Highest({0} \cup known)
  <2> DEFINE T == {0} \cup known
  <2>1. T \subseteq 0..MaxHandle /\ 0 \in T /\ known \subseteq T
    BY <1>1, <1>6 DEF Handles
  <2> HIDE DEF T, known
  <2>4. T \subseteq Nat /\ T # {} /\ \A x \in T : x <= MaxHandle
    BY <1>1, <2>1
  <2>2. Highest(T) \in T /\ \A y \in T : y <= Highest(T)
    BY <1>1, <2>4, HighestIn
  <2>3. Highest(T) \in 0..MaxHandle /\ \A h \in known : h <= Highest(T)
    BY <2>1, <2>2
  <2> QED  BY <2>3 DEF T
<1>10. /\ found \subseteq known /\ \A h \in Handles : jHandles[h] # NoData => h \in known
  OBVIOUS
<1> HIDE DEF known
<1>11. nextHandle' \in 1..MaxHandle + 1 /\ \A h \in known : h < nextHandle'
  <2>1. \A h \in known : h \in Int
    BY <1>6 DEF Handles
  <2> DEFINE hi == Highest({0} \cup known)
  <2>2. nextHandle' = 1 + hi /\ hi \in 0..MaxHandle /\ \A h \in known : h <= hi
    BY <1>4, <1>9
  <2> HIDE DEF hi
  <2> QED  BY <1>1, <2>1, <2>2
<1>12. /\ kept \in [Inodes -> 0..MaxHandle]
       /\ \A ino \in Inodes : kept[ino] = 0 \/ kept[ino] \in known
  BY <1>1
<1>13. refs \in [Handles -> Nat] /\ \A h \in Handles : refs[h] = Cardinality({ino \in Inodes : kept[ino] = h})
  <2> HIDE DEF kept
  <2>1. \A h \in Handles : Cardinality({ino \in Inodes : kept[ino] = h}) \in Nat
    BY CountIsNat
  <2> QED  BY <2>1
<1> HIDE DEF kept, refs
<1>14. \A h \in Handles : Count(h)' = refs[h]
  <2>1. TAKE h \in Handles
  <2>2. Naming(h)' = {ino \in Inodes : kept[ino] = h}
    BY <1>4 DEF Naming
  <2>3. Holding(h)' = {ino \in Inodes : NoView[ino] = h}
    BY DEF Holding
  <2>4. Cardinality(Holding(h)') = 0
    BY <2>3, NothingHeld
  <2> QED  BY <1>13, <2>2, <2>4 DEF Count
<1>15. /\ DOMAIN index' = found /\ index' \in [found -> 0..head' - 1]
  <2> DEFINE top(h) == Highest({k \in 0..n - 1 : C(k).h = h})
  <2>1. index' = [h \in found |-> tail + top(h)] /\ \A h \in found : top(h) \in 0..n - 1
    BY <1>4, <1>7
  <2> HIDE DEF top
  <2>2. \A h \in found : tail + top(h) \in 0..head' - 1
    BY <1>1, <1>2, <1>4, <2>1
  <2> QED  BY <2>1, <2>2
<1>16. MapTypes'
  <2>1. order' \in Seq(Handles)
    <3>1. \A k \in 1..n : C(k - 1).h \in Handles
      <4>1. \A k \in 1..n : k - 1 \in 0..n - 1
        BY <1>2
      <4> QED  BY <1>5, <4>1
    <3> QED  BY <1>2, <1>4, <3>1
  <2>2. live' \in [Handles -> Nat] /\ locRefs' \in [Handles -> Nat]
    BY <1>4, <1>13
  <2>3. frozen' \in [Inodes -> 0..MaxHandle]
    BY <1>1 DEF NoView
  <2>4. MapTypes' = MapTypes'
    OBVIOUS
  <2> QED  BY <1>1, <1>4, <1>6, <1>11, <1>12, <1>15, <2>1, <2>2, <2>3 DEF MapTypes
<1>17. Below'
  <2>1. \A ino \in Inodes : content'[ino] < nextHandle' /\ frozen'[ino] < nextHandle'
    <3>1. nextHandle' > 0 /\ \A ino \in Inodes : kept[ino] < nextHandle'
      BY <1>1, <1>11, <1>12
    <3> QED  BY <1>4, <3>1 DEF NoView
  <2>2. \A h \in DOMAIN index' : h < nextHandle'
    BY <1>10, <1>11, <1>15
  <2>3. \A h \in Handles : handleLoc'[h] # NoData \/ jHandles'[h] # NoData => h < nextHandle'
    BY <1>4, <1>10, <1>11
  <2> QED  BY <2>1, <2>2, <2>3 DEF Below
<1>18. FrozenOut'
  <2>1. \A ino \in Inodes : frozen'[ino] = 0
    BY DEF NoView
  <2>2. 0 \notin found
    BY <1>1, <1>6 DEF Handles
  <2>3. NoView' = NoView
    BY DEF NoView
  <2> QED  BY <1>15, <2>1, <2>2, <2>3 DEF FrozenOut
<1>19. Counted'
  BY <1>4, <1>6, <1>14, <1>15 DEF Counted
<1> QED  BY <1>8, <1>16, <1>17, <1>18, <1>19 DEF MapInv

(* The cells recovery may find: as they were, with the record of the       *)
(* append that was cut off torn, or with it whole and nothing naming it.   *)
LEMMA CellsFound ==
    ASSUME BookInv, Crash
    PROVE  \E cells \in [0..RingSize - 1 -> Cells] :
              /\ Recover(cells)
              /\ \/ cells = cell
                 \/ ~Full /\ cells = [cell EXCEPT ![head % RingSize] = Empty]
                 \/ /\ ~Full /\ nextHandle <= MaxHandle
                    /\ \E d \in Data : cells = [cell EXCEPT ![head % RingSize] =
                                                  [h |-> nextHandle, d |-> d, seq |-> seq]]
<1>1. /\ cell \in [0..RingSize - 1 -> Cells] /\ seq \in Nat /\ head \in Nat /\ MaxHandle \in Nat
      /\ nextHandle \in 1..MaxHandle + 1
  BY ConstantsAssumption DEF BookInv, RingTypes, MapInv, MapTypes
<1>2. head % RingSize \in 0..RingSize - 1
  BY <1>1, CellOf
<1>3. Empty \in Cells
  BY <1>1 DEF Empty, Cells, Bodies
<1>4. CASE Recover(cell)
  BY <1>1, <1>4
<1>5. CASE ~Full /\ Recover([cell EXCEPT ![head % RingSize] = Empty])
  <2> DEFINE cells == [cell EXCEPT ![head % RingSize] = Empty]
  <2>1. cells \in [0..RingSize - 1 -> Cells]
    BY <1>1, <1>2, <1>3
  <2>2. Recover(cells) /\ ~Full /\ cells = [cell EXCEPT ![head % RingSize] = Empty]
    BY <1>5
  <2> HIDE DEF cells
  <2> QED  BY <2>1, <2>2
<1>6. ASSUME ~Full, nextHandle <= MaxHandle, NEW d \in Data,
             Recover([cell EXCEPT ![head % RingSize] = [h |-> nextHandle, d |-> d, seq |-> seq]])
      PROVE  \E cells \in [0..RingSize - 1 -> Cells] :
               /\ Recover(cells)
               /\ \E e \in Data : cells = [cell EXCEPT ![head % RingSize] =
                                                  [h |-> nextHandle, d |-> e, seq |-> seq]]
  <2> DEFINE cells == [cell EXCEPT ![head % RingSize] = [h |-> nextHandle, d |-> d, seq |-> seq]]
  <2>1. [h |-> nextHandle, d |-> d, seq |-> seq] \in Cells
    BY <1>1, <1>6 DEF Cells, Bodies
  <2>2. cells \in [0..RingSize - 1 -> Cells]
    BY <1>1, <1>2, <2>1
  <2>3. Recover(cells) /\ \E e \in Data : cells = [cell EXCEPT ![head % RingSize] =
                                                  [h |-> nextHandle, d |-> e, seq |-> seq]]
    BY <1>6
  <2> HIDE DEF cells
  <2> QED  BY <2>2, <2>3
<1>7. \/ Recover(cell)
      \/ ~Full /\ Recover([cell EXCEPT ![head % RingSize] = Empty])
      \/ /\ ~Full /\ nextHandle <= MaxHandle
         /\ \E d \in Data : Recover([cell EXCEPT ![head % RingSize] = [h |-> nextHandle, d |-> d, seq |-> seq]])
  BY DEF Crash
<1> QED  BY <1>4, <1>5, <1>6, <1>7

(* A crash and the recovery after it.                                      *)
LEMMA CrashStep ==
    ASSUME BookInv, Crash
    PROVE  BookInv'
<1>1. PICK cells \in [0..RingSize - 1 -> Cells] : Recover(cells)
  BY CellsFound
<1>2. /\ packing' = FALSE /\ runs' = << >> /\ locating' = << >> /\ reclaimTo' = 0
      /\ flushErr' = FALSE /\ locateErr' = FALSE /\ queueErr' = FALSE
      /\ packs' = [p \in DOMAIN packs |-> IF packs[p] = "queued" THEN "unsent" ELSE packs[p]]
      /\ reader' = [r \in Readers |-> [pos |-> -1, h |-> 0]]
      /\ waiting' = {} /\ asleep' = {} /\ ck' = "idle" /\ locked' = FALSE /\ frozen' = NoView
      /\ tail' = tail /\ jHandles' = jHandles /\ jChunks' = jChunks /\ written' = written
      /\ crashes' = crashes + 1 /\ (faults' = faults \/ faults' = faults + 1)
  BY DEF Crash, Fail, disk
<1>3. RingTypes' /\ MapInv'
  BY <1>1, <1>2, Recovered
<1>4. SendTypes'
  <2>1. chunkLoc' = jChunks
    BY <1>1 DEF Recover
  <2>2. packs' \in Seq({"queued", "landed", "failed", "unsent"}) /\ Len(packs') = Len(packs)
    <3>1. Len(packs) \in Nat /\ DOMAIN packs = 1..Len(packs)
      BY Typed
    <3>2. \A p \in DOMAIN packs : packs[p] \in {"queued", "landed", "failed", "unsent"}
      BY DEF BookInv, SendTypes
    <3>3. \A p \in 1..Len(packs) : (IF packs[p] = "queued" THEN "unsent" ELSE packs[p])
                                     \in {"queued", "landed", "failed", "unsent"}
      BY <3>1, <3>2
    <3> QED  BY <1>2, <3>1, <3>3
  <2> QED  BY <1>2, <2>1, <2>2 DEF BookInv, SendTypes
<1>5. RunInv'
  <2>1. DOMAIN runs' = {} /\ DOMAIN locating' = {} /\ locating' \in Seq(Batches)
    BY <1>2
  <2>2. PipeTypes'
    <3>1. runs' \in [DOMAIN runs' -> RunOf]
      BY <1>2
    <3>2. packing' = (\E b \in DOMAIN runs' : runs'[b].phase \in {"cut", "snapped", "packed"})
      BY <1>2, <2>1
    <3> QED  BY <2>1, <3>1, <3>2 DEF PipeTypes
  <2>3. OneRun' /\ RunTakes' /\ PlansBelow' /\ Batched'
    BY <2>1 DEF OneRun, RunTakes, PlansBelow, Batched
  <2>4. RunsBounded'
    BY <2>1 DEF RunsBounded
  <2> QED  BY <2>2, <2>3, <2>4 DEF RunInv
<1>6. WaitInv'
  <2>1. faults' \in Nat /\ crashes' \in Nat /\ written' \in [Inodes -> Bodies]
    BY <1>2 DEF BookInv, WaitInv, WaitTypes
  <2>2. WaitTypes'
    BY <1>2, <2>1 DEF WaitTypes
  <2> QED  BY <1>2, <2>2 DEF WaitInv, LockHeld
<1> QED  BY <1>3, <1>4, <1>5, <1>6 DEF BookInv

-----------------------------------------------------------------------------
(* The theorems about the books.                                           *)

LEMMA BookInit == ASSUME Init PROVE BookInv
<1>1. /\ cell = [o \in 0..RingSize - 1 |-> Empty] /\ head = 0 /\ tail = 0 /\ seq = 1
      /\ index = << >> /\ order = << >> /\ live = [h \in Handles |-> 0]
      /\ handleLoc = [h \in Handles |-> NoData] /\ locRefs = [h \in Handles |-> 0]
      /\ chunkLoc = [c \in Data |-> 0] /\ content = NoView /\ nextHandle = 1
      /\ packing = FALSE /\ runs = << >> /\ locating = << >> /\ reclaimTo = 0
      /\ flushErr = FALSE /\ locateErr = FALSE /\ packs = << >> /\ queueErr = FALSE
      /\ jHandles = [h \in Handles |-> NoData] /\ jChunks = [c \in Data |-> 0]
      /\ reader = [r \in Readers |-> [pos |-> -1, h |-> 0]]
      /\ waiting = {} /\ asleep = {} /\ ck = "idle" /\ locked = FALSE /\ frozen = NoView
      /\ written = [i \in Inodes |-> NoData] /\ faults = 0 /\ crashes = 0
  BY DEF Init
<1>2. RingSize \in Nat /\ MaxHandle \in Nat
  BY ConstantsAssumption
<1>3. RingTypes
  <2>1. Empty \in Cells
    BY <1>2 DEF Empty, Cells, Bodies
  <2>2. \A x \in Nat : -1 \in -1..x - 1 /\ 0 \in 0..x
    OBVIOUS
  <2>3. [pos |-> -1, h |-> 0] \in [pos : -1..head - 1, h : 0..MaxHandle]
    BY <1>1, <1>2, <2>2
  <2> QED  BY <1>1, <2>1, <2>3 DEF RingTypes
<1>4. MapTypes
  <2>1. index \in [DOMAIN index -> 0..head - 1] /\ DOMAIN index \subseteq Handles
    BY <1>1
  <2>2. NoView \in [Inodes -> 0..MaxHandle]
    BY <1>2 DEF NoView
  <2> QED  BY <1>1, <1>2, <2>1, <2>2 DEF MapTypes, Bodies
<1>5. SendTypes
  BY <1>1 DEF SendTypes
<1>6. Below /\ FrozenOut
  BY <1>1 DEF Below, FrozenOut, NoView
<1>7. Counted
  <2>1. \A h \in Handles \ DOMAIN index : live[h] = 0 /\ handleLoc[h] = NoData
    BY <1>1
  <2>2. DOMAIN index = {}
    BY <1>1
  <2> QED  BY <2>1, <2>2 DEF Counted
<1>8. RunInv
  <2>1. DOMAIN runs = {} /\ DOMAIN locating = {} /\ locating \in Seq(Batches)
    BY <1>1
  <2>2. PipeTypes
    <3>1. runs \in [DOMAIN runs -> RunOf]
      BY <1>1
    <3>2. packing = (\E b \in DOMAIN runs : runs[b].phase \in {"cut", "snapped", "packed"})
      BY <1>1, <2>1
    <3> QED  BY <2>1, <3>1, <3>2 DEF PipeTypes
  <2>3. OneRun /\ RunTakes /\ PlansBelow /\ Batched
    BY <2>1 DEF OneRun, RunTakes, PlansBelow, Batched
  <2>4. RunsBounded
    BY <2>1 DEF RunsBounded
  <2> QED  BY <2>2, <2>3, <2>4 DEF RunInv
<1>9. WaitInv
  BY <1>1 DEF WaitInv, WaitTypes, LockHeld, Bodies
<1> QED  BY <1>3, <1>4, <1>5, <1>6, <1>7, <1>8, <1>9 DEF BookInv, MapInv

(* Every step keeps the books.                                             *)
LEMMA BookStep == ASSUME BookInv, [Next]_vars PROVE BookInv'
<1>1. ASSUME NEW w \in Writers, Write(w) PROVE BookInv'
  BY <1>1, PlaceStep, BlockStep, RefuseStep DEF Write
<1>2. ASSUME NEW ino \in Inodes, Forget(ino) PROVE BookInv'
  BY <1>2, ForgetStep
<1>3. ASSUME NEW r \in Readers, EndRead(r) PROVE BookInv'
  BY <1>3, EndReadStep
<1>4. ASSUME NEW r \in Readers, NEW ino \in Inodes, BeginRead(r, ino) PROVE BookInv'
  BY <1>4, BeginReadStep
<1>5. ASSUME NEW b \in DOMAIN runs,
             Snapshot(b) \/ ChunkAndPack(b) \/ Publish(b) \/ Journal(b) \/ Settle(b)
      PROVE  BookInv'
  BY <1>5, SnapshotStep, ChunkAndPackStep, PublishStep, JournalStep, SettleStep
<1>6. ASSUME NEW p \in DOMAIN packs, UploadEnds(p) PROVE BookInv'
  BY <1>6, UploadEndsStep
<1>7. CASE Flush \/ Drain \/ Freeze \/ Finish \/ Release
  BY <1>7, FlushStep, DrainStep, FreezeStep, FinishStep, ReleaseStep
<1>8. CASE Crash
  BY <1>8, CrashStep
<1>9. CASE UNCHANGED vars
  <2>1. /\ UNCHANGED <<cell, head, tail, seq, reclaimTo, reader>>
        /\ UNCHANGED <<index, order, live, handleLoc, locRefs, content, frozen, nextHandle, jHandles>>
        /\ UNCHANGED <<packs, chunkLoc, jChunks, locating, runs, packing, ck, locked>>
        /\ UNCHANGED <<flushErr, locateErr, queueErr, written, faults, crashes, asleep, waiting>>
    BY <1>9 DEF vars, ring, maps, errs, pipe, sends, disk, point, bounds
  <2>2. RingTypes' /\ SendTypes' /\ MapInv'
    BY <2>1, RingStands, SendsStand, MapsStand DEF BookInv, MapInv, FrozenOut
  <2>3. RunInv'
    BY <2>1, Typed, RunsStand DEF BookInv
  <2>4. WaitInv'
    BY <2>1 DEF BookInv, WaitInv, WaitTypes, LockHeld
  <2> QED  BY <2>2, <2>3, <2>4 DEF BookInv
<1> QED  BY <1>1, <1>2, <1>3, <1>4, <1>5, <1>6, <1>7, <1>8, <1>9 DEF Next

(* The books are right in every state, for every ring, any number of       *)
(* files, writers and readers, any failures and any number of crashes.     *)
THEOREM BooksKept == Spec => []BookInv
<1>1. Init => BookInv
  BY BookInit
<1>2. BookInv /\ [Next]_vars => BookInv'
  BY BookStep
<1> QED  BY <1>1, <1>2, PTL DEF Spec

(* The state has its types.                                                *)
THEOREM TypeCorrect == Spec => []TypeOK
<1>1. BookInv => TypeOK
  BY DEF BookInv, MapInv, RunInv, WaitInv, TypeOK
<1> QED  BY <1>1, BooksKept, PTL

(* An entry is collected when its last reference goes, not before and not  *)
(* never, whatever writes, unlinks, runs, freezes, releases and crashes    *)
(* come between (applyLocked, publish, Freeze, Release, Recover).          *)
THEOREM CountsRight == Spec => []CountsAreReferences
<1>1. ASSUME BookInv PROVE CountsAreReferences
  <2>1. \A h \in Handles :
           Count(h) = Cardinality({ino \in Inodes : content[ino] = h})
                      + Cardinality({ino \in Inodes : ck \in {"render", "sealed"} /\ frozen[ino] = h})
    <3>1. TAKE h \in Handles
    <3>2. CASE ck \in {"render", "sealed"}
      <4>1. {ino \in Inodes : ck \in {"render", "sealed"} /\ frozen[ino] = h} = Holding(h)
        BY <3>2 DEF Holding
      <4> QED  BY <4>1 DEF Count, Naming
    <3>3. CASE ck \notin {"render", "sealed"}
      <4>1. {ino \in Inodes : ck \in {"render", "sealed"} /\ frozen[ino] = h} = {}
        BY <3>3
      <4>2. Holding(h) = {ino \in Inodes : NoView[ino] = h}
        BY <1>1, <3>3 DEF BookInv, MapInv, FrozenOut, Holding
      <4> QED  BY <4>1, <4>2, NothingHeld, FS_EmptySet DEF Count, Naming
    <3> QED  BY <3>2, <3>3
  <2>2. Counted /\ DOMAIN index \subseteq Handles
    BY <1>1, Typed DEF BookInv, MapInv
  <2> QED  BY <2>1, <2>2 DEF CountsAreReferences, Counted
<1> QED  BY <1>1, BooksKept, PTL

=============================================================================
