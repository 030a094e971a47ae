------------------------- MODULE MemtableRingProofs -------------------------
EXTENDS MemtableFlushProofs

-----------------------------------------------------------------------------
(* The order of the ring.  Recover rebuilds the index and the order from   *)
(* the cells, and the sequence starts again at 1, so a handle given out    *)
(* before a crash can be found in two cells after the second one: what     *)
(* follows is said of a ring that was recovered at most once.              *)

(* Every record of the index is in its cell, ahead of the tail and of      *)
(* whatever the tail may still move to.                                    *)
CellsStand == \A h \in DOMAIN index : tail <= index[h] /\ At(index[h]).h = h
TailBehind == \A h \in DOMAIN index :
    reclaimTo <= index[h] /\ \A k \in DOMAIN locating : locating[k].to <= index[h]

(* The order of the ring is the order of the positions, up to the head.    *)
Ordered(ix, ord, hd) ==
    /\ \A k \in DOMAIN ord : ord[k] \in DOMAIN ix /\ ix[ord[k]] = hd - Len(ord) + k - 1
    /\ \A h \in DOMAIN ix : \E k \in DOMAIN ord : ord[k] = h
InOrder == Ordered(index, order, head)

(* A run before its publication took the first records of the order.       *)
RunsFirst == \A b \in DOMAIN runs : runs[b].phase \in Active =>
    /\ runs[b].cut \in 1..Len(order) /\ runs[b].recs = {order[k] : k \in 1..runs[b].cut}
    /\ runs[b].to = head - Len(order) + runs[b].cut

(* A reader's record is in its cell, ahead of the tail.                    *)
Pinned == \A r \in Readers : reader[r].pos >= 0 =>
    reader[r].pos >= tail /\ At(reader[r].pos).h = reader[r].h

(* The second Flush of a checkpoint goes on to the queue of packs with     *)
(* nothing in the ring, and the overlay's lock keeps it so.                *)
Emptied == ck \in {"drain", "flushed"} /\ locked => DOMAIN index = {}

(* Before the first crash a handle is in one cell, and the next one in     *)
(* none: what the first recovery needs to find each record once.           *)
CellsDistinct ==
    /\ \A o, p \in 0..RingSize - 1 : cell[o].h # 0 /\ cell[o].h = cell[p].h => o = p
    /\ \A o \in 0..RingSize - 1 : cell[o].h < nextHandle

(* The records of the ring fit in it.                                      *)
Room == head - tail <= RingSize

Standing == CellsStand /\ TailBehind /\ InOrder /\ Pinned
Aligned  == Room /\ Standing /\ RunsFirst /\ Emptied
RingInv  == (crashes <= 1 => Aligned) /\ (crashes = 0 => CellsDistinct)

-----------------------------------------------------------------------------
(* Cuts.                                                                   *)

Prefix(places, ix, ord, hd) ==
    /\ Highest(places) \in 1..Len(ord) /\ places = 1..Highest(places)
    /\ Cardinality(places) = Highest(places)
    /\ ix[ord[Highest(places)]] + 1 = hd - Len(ord) + Highest(places)

(* What a run takes of an ordered ring is a prefix of it; with no distance *)
(* to keep it is everything.                                               *)
LEMMA CutIsPrefix ==
    ASSUME NEW ix, NEW ord \in Seq(Handles), NEW hd \in Nat, NEW distance \in Nat,
           Ordered(ix, ord, hd), NEW places, places = Cut(ix, ord, hd, distance)
    PROVE  /\ places # {} => Prefix(places, ix, ord, hd)
           /\ distance = 0 => places = 1..Len(ord)
<1>1. Len(ord) \in Nat /\ DOMAIN ord = 1..Len(ord)
  OBVIOUS
<1>2. \A k \in 1..Len(ord) : ord[k] \in DOMAIN ix /\ ix[ord[k]] = hd - Len(ord) + k - 1
  BY <1>1 DEF Ordered
<1>3. \A k : k \in places <=> k \in 1..Len(ord) /\ \A j \in 1..k : ix[ord[j]] + 1 <= AgeLine(hd, distance)
  <2>1. \A k \in 1..Len(ord) : \A j \in 1..k : ord[j] \in DOMAIN ix
    BY <1>1, <1>2
  <2> QED  BY <1>1, <1>2, <2>1 DEF Cut
<1>4. ASSUME places # {} PROVE Prefix(places, ix, ord, hd)
  <2> DEFINE m == Highest(places)
  <2>1. m \in places /\ \A k \in places : k <= m
    <3>1. places \subseteq Nat /\ \A k \in places : k <= Len(ord)
      BY <1>1, <1>3
    <3> QED  BY <1>1, <1>4, <3>1, HighestIn
  <2> HIDE DEF m
  <2>2. m \in 1..Len(ord) /\ \A j \in 1..m : ix[ord[j]] + 1 <= AgeLine(hd, distance)
    BY <1>3, <2>1
  <2>3. \A k \in 1..m : k \in places
    BY <1>1, <1>3, <2>2
  <2>4. \A k \in places : k \in 1..m
    BY <1>1, <1>3, <2>1, <2>2
  <2>5. places = 1..m
    BY <2>3, <2>4
  <2>6. Cardinality(1..m) = m
    BY <1>1, <2>2, FS_Interval
  <2>7. ix[ord[m]] + 1 = hd - Len(ord) + m
    BY <1>1, <1>2, <2>2
  <2> QED  BY <2>2, <2>5, <2>6, <2>7 DEF m, Prefix
<1>5. ASSUME distance = 0 PROVE places = 1..Len(ord)
  <2>1. AgeLine(hd, distance) = hd
    BY <1>5 DEF AgeLine
  <2>5. \A j \in 1..Len(ord) : ix[ord[j]] + 1 <= hd
    BY <1>1, <1>2
  <2>6. \A k \in 1..Len(ord) : \A j \in 1..k : j \in 1..Len(ord)
    BY <1>1
  <2>2. \A k \in 1..Len(ord) : \A j \in 1..k : ix[ord[j]] + 1 <= hd
    BY <2>5, <2>6
  <2>3. \A k \in 1..Len(ord) : k \in places
    BY <1>3, <2>1, <2>2
  <2>4. \A k \in places : k \in 1..Len(ord)
    BY <1>3
  <2> QED  BY <2>3, <2>4
<1> QED  BY <1>4, <1>5

(* Flush, and a writer that must wait, keep no distance.                   *)
LEMMA CutIsAll ==
    ASSUME NEW ix, NEW ord \in Seq(Handles), NEW hd \in Nat, Ordered(ix, ord, hd)
    PROVE  Cut(ix, ord, hd, 0) = 1..Len(ord)
<1> DEFINE places == Cut(ix, ord, hd, 0)
<1>1. PICK distance \in Nat : distance = 0
  OBVIOUS
<1>2. places = Cut(ix, ord, hd, distance)
  BY <1>1
<1> HIDE DEF places
<1>3. places = 1..Len(ord)
  BY <1>1, <1>2, CutIsPrefix
<1> QED  BY <1>3 DEF places

(* A run that is launched takes the first records.                         *)
LEMMA LaunchedFirst ==
    ASSUME BookInv, ~packing, InOrder', order' \in Seq(Handles), head' \in Nat,
           NEW distance \in Nat, NEW places, places = Cut(index', order', head', distance),
           places # {}, StartPack(places, index', order')
    PROVE  RunsFirst'
<1>1. \A b \in DOMAIN runs : runs[b].phase \notin Active
  BY DEF BookInv, RunInv, PipeTypes, Active
<1> DEFINE ix == index'  ord == order'  hd == head'
<1>2. /\ ord \in Seq(Handles) /\ hd \in Nat /\ Ordered(ix, ord, hd) /\ places = Cut(ix, ord, hd, distance)
      /\ StartPack(places, ix, ord)
  BY DEF InOrder
<1> HIDE DEF ix, ord, hd
<1>3. Prefix(places, ix, ord, hd)
  BY <1>2, CutIsPrefix
<1> DEFINE m == Highest(places)
           r == [phase |-> "cut", recs |-> {ord[k] : k \in places}, cut |-> Cardinality(places),
                 to |-> ix[ord[m]] + 1, plan |-> {},
                 loc |-> [h \in Handles |-> NoData], stored |-> {}, pack |-> 0]
<1>4. runs' = Extended(runs, NewRun, r)
  BY <1>2 DEF StartPack
<1>5. r.cut \in 1..Len(ord) /\ r.recs = {ord[k] : k \in 1..r.cut} /\ r.to = hd - Len(ord) + r.cut
  BY <1>3 DEF Prefix
<1> HIDE DEF r
<1>6. NewRun \notin DOMAIN runs
  BY NewNumber DEF BookInv
<1>7. /\ DOMAIN runs' = DOMAIN runs \cup {NewRun} /\ runs'[NewRun] = r
      /\ \A b \in DOMAIN runs : runs'[b] = runs[b]
  BY <1>4, <1>6 DEF Extended
<1>8. \A b \in DOMAIN runs' : runs'[b].phase \in Active => runs'[b] = r
  BY <1>1, <1>7
<1>9. \A b \in DOMAIN runs' : runs'[b].phase \in Active =>
          /\ runs'[b].cut \in 1..Len(ord) /\ runs'[b].recs = {ord[k] : k \in 1..runs'[b].cut}
          /\ runs'[b].to = hd - Len(ord) + runs'[b].cut
  BY <1>5, <1>8
<1> QED  BY <1>9 DEF RunsFirst, ord, hd

-----------------------------------------------------------------------------
(* What a step leaves alone.                                               *)

(* A step that moves nothing in the ring leaves its records standing.      *)
LEMMA StillStanding ==
    ASSUME Standing, UNCHANGED <<cell, head, tail, index, order, reclaimTo, locating, reader>>
    PROVE  Standing'
<1>1. CellsStand' /\ TailBehind'
  BY DEF Standing, CellsStand, TailBehind, At
<1>2. InOrder'
  BY DEF Standing, InOrder, Ordered
<1>3. Pinned'
  BY DEF Standing, Pinned, At
<1> QED  BY <1>1, <1>2, <1>3 DEF Standing

(* A step that starts no run leaves the records of each as they were.      *)
LEMMA StillFirst ==
    ASSUME RunsFirst, UNCHANGED <<head, order>>,
           \A x \in DOMAIN runs' : runs'[x].phase \in Active =>
              /\ x \in DOMAIN runs /\ runs[x].phase \in Active
              /\ runs'[x].cut = runs[x].cut /\ runs'[x].recs = runs[x].recs /\ runs'[x].to = runs[x].to
    PROVE  RunsFirst'
<1> SUFFICES ASSUME NEW b \in DOMAIN runs', runs'[b].phase \in Active
             PROVE  /\ runs'[b].cut \in 1..Len(order') /\ runs'[b].recs = {order'[k] : k \in 1..runs'[b].cut}
                    /\ runs'[b].to = head' - Len(order') + runs'[b].cut
  BY DEF RunsFirst
<1>1. /\ runs[b].cut \in 1..Len(order) /\ runs[b].recs = {order[k] : k \in 1..runs[b].cut}
      /\ runs[b].to = head - Len(order) + runs[b].cut
  BY DEF RunsFirst
<1> QED  BY <1>1

(* A step that moves the tail to the oldest of what it may pass and of     *)
(* what is pinned loses no record.                                         *)
LEMMA TailMoves ==
    ASSUME BookInv, Room, CellsStand, NEW to \in 0..head, \A h \in DOMAIN index : to <= index[h],
           NEW rd, Reclaim(to, rd), \A r \in Readers : rd[r].pos \in Int /\ rd[r].pos <= head,
           \A r \in Readers : rd[r].pos >= 0 => rd[r].pos >= tail /\ At(rd[r].pos).h = rd[r].h,
           UNCHANGED <<cell, head, index>>, reader' = rd
    PROVE  Room' /\ CellsStand' /\ Pinned'
<1>1. head \in Nat /\ tail \in Nat /\ tail \in 0..head /\ RingSize \in Nat
      /\ \A h \in DOMAIN index : index[h] \in Nat
  BY Typed
<1>2. /\ tail' \in 0..head /\ (tail' = tail \/ tail' <= to)
      /\ \A r \in Readers : rd[r].pos >= 0 => tail' <= rd[r].pos \/ tail' = tail
      /\ (\A r \in Readers : rd[r].pos >= 0 => tail <= rd[r].pos) => tail <= tail'
  BY <1>1, Reclaimed
<1>3. tail <= tail'
  <2>1. \A r \in Readers : rd[r].pos >= 0 => tail <= rd[r].pos
    BY <1>1
  <2> QED  BY <1>2, <2>1
<1>4. Room'
  <2>1. head' = head /\ head - tail <= RingSize /\ tail' \in Nat
    BY <1>1, <1>2 DEF Room
  <2>2. head - tail' <= RingSize
    BY <1>1, <1>3, <2>1
  <2> QED  BY <2>1, <2>2 DEF Room
<1>5. CellsStand'
  <2>1. \A h \in DOMAIN index : tail' <= index[h]
    BY <1>1, <1>2 DEF CellsStand
  <2> QED  BY <2>1 DEF CellsStand, At
<1>6. Pinned'
  <2>1. \A r \in Readers : rd[r].pos >= 0 => rd[r].pos >= tail'
    BY <1>1, <1>2
  <2> QED  BY <2>1 DEF Pinned, At
<1> QED  BY <1>4, <1>5, <1>6

-----------------------------------------------------------------------------
(* Steps of writers and readers.                                           *)

(* A write appends to the order, in a cell that holds none of the records  *)
(* ahead of the tail.                                                      *)
LEMMA PlaceAligned ==
    ASSUME BookInv, Aligned, NEW w \in Writers, NEW ino \in Inodes, NEW d \in Data,
           w \in waiting \/ (OverlayFree /\ nextHandle <= MaxHandle), Place(w, ino, d)
    PROVE  Aligned'
<1> DEFINE h == nextHandle
<1>1. /\ ~Full /\ head' = head + 1 /\ UNCHANGED <<tail, locating, reclaimTo, reader, locked, ck>>
      /\ cell' = [cell EXCEPT ![head % RingSize] = [h |-> h, d |-> d, seq |-> seq]]
      /\ index' = Extended(index, h, head) /\ order' = Append(order, h)
      /\ \/ UNCHANGED <<packing, runs>>
         \/ /\ ~packing /\ Cut(index', order', head', Promotion) # {}
            /\ StartPack(Cut(index', order', head', Promotion), index', order')
  BY DEF Place, point
<1>2. /\ head \in Nat /\ tail \in Nat /\ tail <= head /\ RingSize \in Nat /\ RingSize > 0
      /\ DOMAIN index \subseteq Handles /\ \A x \in DOMAIN index : index[x] \in 0..head - 1
      /\ order \in Seq(Handles) /\ Len(order) \in Nat /\ DOMAIN order = 1..Len(order)
      /\ reclaimTo \in Nat /\ reclaimTo <= head
  BY Typed
<1>3. ~locked /\ h \in Handles
  BY WriterAlone
<1>4. head - tail < RingSize
  BY <1>1, <1>2 DEF Full
<1>5. h \notin DOMAIN index
  <2>1. \A x \in DOMAIN index : x < nextHandle
    BY DEF BookInv, MapInv, Below
  <2>2. nextHandle \in Nat
    BY Typed
  <2> QED  BY <2>1, <2>2
<1>6. /\ DOMAIN index' = DOMAIN index \cup {h} /\ index'[h] = head
      /\ \A x \in DOMAIN index : index'[x] = index[x]
  BY <1>1, <1>5 DEF Extended
<1> HIDE DEF h
<1>7. /\ order' \in Seq(Handles) /\ Len(order') = Len(order) + 1 /\ order'[Len(order) + 1] = h
      /\ \A k \in 1..Len(order) : order'[k] = order[k]
      /\ DOMAIN order' = 1..Len(order) + 1
  BY <1>1, <1>2, <1>3
<1>8. cell \in [0..RingSize - 1 -> Cells]
  BY DEF BookInv, RingTypes
<1>9. \A pos \in tail..head - 1 : cell'[pos % RingSize] = cell[pos % RingSize]
  <2>1. TAKE pos \in tail..head - 1
  <2>2. pos \in Int /\ head \in Int /\ pos < head /\ head - pos < RingSize
    BY <1>2, <1>4
  <2>3. pos % RingSize # head % RingSize
    BY <1>2, <2>2, CellsApart
  <2>4. pos % RingSize \in 0..RingSize - 1
    BY <1>2, CellOf
  <2> QED  BY <1>1, <1>8, <2>3, <2>4
<1>10. cell'[head % RingSize].h = h
  <2>1. head % RingSize \in 0..RingSize - 1
    BY <1>2, CellOf
  <2>2. cell'[head % RingSize] = [h |-> h, d |-> d, seq |-> seq]
    BY <1>1, <1>8, <2>1
  <2> QED  BY <2>2
<1>11. Room'
  BY <1>1, <1>2, <1>4 DEF Room
<1>12. CellsStand'
  <2>1. \A x \in DOMAIN index : index[x] \in tail..head - 1 /\ cell[index[x] % RingSize].h = x
    BY <1>2 DEF Aligned, Standing, CellsStand, At
  <2>2. \A x \in DOMAIN index : tail <= index'[x] /\ cell'[index'[x] % RingSize].h = x
    BY <1>2, <1>6, <1>9, <2>1
  <2>3. tail <= index'[h] /\ cell'[index'[h] % RingSize].h = h
    BY <1>2, <1>6, <1>10
  <2> QED  BY <1>1, <1>6, <2>2, <2>3 DEF CellsStand, At
<1>13. TailBehind'
  <2>1. \A x \in DOMAIN index : reclaimTo <= index[x] /\ \A k \in DOMAIN locating : locating[k].to <= index[x]
    BY DEF Aligned, Standing, TailBehind
  <2>2. \A k \in DOMAIN locating : locating[k].to <= head
    BY DEF BookInv, RunInv, PipeTypes
  <2> QED  BY <1>1, <1>2, <1>6, <2>1, <2>2 DEF TailBehind
<1>14. InOrder'
  <2>1. /\ \A k \in 1..Len(order) : order[k] \in DOMAIN index /\ index[order[k]] = head - Len(order) + k - 1
        /\ \A x \in DOMAIN index : \E k \in 1..Len(order) : order[k] = x
    BY <1>2 DEF Aligned, Standing, InOrder, Ordered
  <2>2. \A k \in 1..Len(order) : order'[k] \in DOMAIN index' /\ index'[order'[k]] = head' - Len(order') + k - 1
    BY <1>1, <1>2, <1>6, <1>7, <2>1
  <2>3. order'[Len(order')] \in DOMAIN index' /\ index'[order'[Len(order')]] = head' - Len(order') + Len(order') - 1
    BY <1>1, <1>2, <1>6, <1>7
  <2>4. \A k \in DOMAIN order' : order'[k] \in DOMAIN index' /\ index'[order'[k]] = head' - Len(order') + k - 1
    <3>1. \A k \in DOMAIN order' : k \in 1..Len(order) \/ k = Len(order')
      BY <1>2, <1>7
    <3> QED  BY <2>2, <2>3, <3>1
  <2>5. \A x \in DOMAIN index' : \E k \in DOMAIN order' : order'[k] = x
    <3>1. \A x \in DOMAIN index : \E k \in DOMAIN order' : order'[k] = x
      <4>1. \A k \in 1..Len(order) : k \in DOMAIN order'
        BY <1>2, <1>7
      <4> QED  BY <1>7, <2>1, <4>1
    <3>2. \E k \in DOMAIN order' : order'[k] = h
      <4>1. Len(order) + 1 \in DOMAIN order'
        BY <1>2, <1>7
      <4> QED  BY <1>7, <4>1
    <3> QED  BY <1>6, <3>1, <3>2
  <2> QED  BY <2>4, <2>5 DEF InOrder, Ordered
<1>15. Pinned'
  <2>1. \A r \in Readers : reader[r].pos >= 0 =>
            reader[r].pos \in tail..head - 1 /\ cell[reader[r].pos % RingSize].h = reader[r].h
    <3>1. \A r \in Readers : reader[r] \in [pos : -1..head - 1, h : 0..MaxHandle]
      BY DEF BookInv, RingTypes
    <3>2. \A r \in Readers : reader[r].pos \in -1..head - 1
      BY <3>1
    <3> QED  BY <1>2, <3>2 DEF Aligned, Standing, Pinned, At
  <2>2. \A r \in Readers : reader[r].pos >= 0 =>
            reader[r].pos >= tail /\ cell'[reader[r].pos % RingSize].h = reader[r].h
    BY <1>2, <1>9, <2>1
  <2> QED  BY <1>1, <2>2 DEF Pinned, At
<1>16. RunsFirst'
  <2>1. CASE UNCHANGED <<packing, runs>>
    <3>1. \A b \in DOMAIN runs : runs[b].phase \in Active =>
            /\ runs[b].cut \in 1..Len(order) /\ runs[b].recs = {order[k] : k \in 1..runs[b].cut}
            /\ runs[b].to = head - Len(order) + runs[b].cut
      BY DEF Aligned, RunsFirst
    <3>2. \A c \in 1..Len(order) : {order'[k] : k \in 1..c} = {order[k] : k \in 1..c}
      <4>1. \A c \in 1..Len(order) : \A k \in 1..c : k \in 1..Len(order)
        BY <1>2
      <4> QED  BY <1>7, <4>1
    <3>3. \A b \in DOMAIN runs : runs[b].phase \in Active =>
            /\ runs[b].cut \in 1..Len(order') /\ runs[b].recs = {order'[k] : k \in 1..runs[b].cut}
            /\ runs[b].to = head' - Len(order') + runs[b].cut
      BY <1>1, <1>2, <1>7, <3>1, <3>2
    <3> QED  BY <2>1, <3>3 DEF RunsFirst
  <2>2. CASE /\ ~packing /\ Cut(index', order', head', Promotion) # {}
             /\ StartPack(Cut(index', order', head', Promotion), index', order')
    <3> DEFINE places == Cut(index', order', head', Promotion)
    <3>1. places # {} /\ StartPack(places, index', order') /\ head' \in Nat /\ Promotion \in Nat
      BY <1>1, <1>2, <2>2, ConstantsAssumption
    <3>2. places = Cut(index', order', head', Promotion)
      OBVIOUS
    <3> HIDE DEF places
    <3> QED  BY <1>7, <1>14, <2>2, <3>1, <3>2, LaunchedFirst
  <2> QED  BY <1>1, <2>1, <2>2
<1>17. Emptied'
  BY <1>1, <1>3 DEF Emptied
<1> QED  BY <1>11, <1>12, <1>13, <1>14, <1>15, <1>16, <1>17 DEF Aligned, Standing

(* A step that leaves the ring and the order alone, and starts no run.     *)
LEMMA Quiet ==
    ASSUME Aligned, UNCHANGED <<cell, head, tail, index, order, reclaimTo, locating, reader>>,
           \A x \in DOMAIN runs' : runs'[x].phase \in Active =>
              /\ x \in DOMAIN runs /\ runs[x].phase \in Active
              /\ runs'[x].cut = runs[x].cut /\ runs'[x].recs = runs[x].recs /\ runs'[x].to = runs[x].to,
           Emptied'
    PROVE  Aligned'
<1>1. Room'
  BY DEF Aligned, Room
<1>2. Standing'
  BY StillStanding DEF Aligned
<1>3. RunsFirst'
  BY StillFirst DEF Aligned
<1> QED  BY <1>1, <1>2, <1>3 DEF Aligned

(* A writer that must wait may start a run over everything.                *)
LEMMA BlockAligned ==
    ASSUME BookInv, Aligned, NEW w \in Writers,
           w \in waiting \/ (OverlayFree /\ nextHandle <= MaxHandle), Block(w)
    PROVE  Aligned'
<1>1. /\ UNCHANGED <<cell, head, tail, index, order, reclaimTo, locating, reader, ck, locked>>
      /\ \/ UNCHANGED <<packing, runs>>
         \/ /\ ~packing /\ Cut(index, order, head, 0) # {}
            /\ StartPack(Cut(index, order, head, 0), index, order)
  BY DEF Block, ring, maps, point
<1>2. Emptied'
  BY <1>1, WriterAlone DEF Emptied
<1>3. CASE UNCHANGED <<packing, runs>>
  BY <1>1, <1>2, <1>3, Quiet
<1>4. CASE ~packing /\ Cut(index, order, head, 0) # {} /\ StartPack(Cut(index, order, head, 0), index, order)
  <2>1. Standing' /\ Room'
    BY <1>1, StillStanding DEF Aligned, Room
  <2>2. order \in Seq(Handles) /\ head \in Nat
    BY Typed
  <2>3. RunsFirst'
    BY <1>1, <1>4, <2>1, <2>2, LaunchedFirst DEF Standing
  <2> QED  BY <1>2, <2>1, <2>3 DEF Aligned
<1> QED  BY <1>1, <1>3, <1>4

(* A reader resolves a record of the ring, and pins it.                    *)
LEMMA BeginReadAligned ==
    ASSUME BookInv, Aligned, NEW r \in Readers, NEW ino \in Inodes, BeginRead(r, ino)
    PROVE  Aligned'
<1>1. /\ UNCHANGED <<cell, head, tail, index, order, reclaimTo, locating, runs, ck, locked>>
      /\ content[ino] \in DOMAIN index
      /\ reader' = [reader EXCEPT ![r] = [pos |-> index[content[ino]], h |-> content[ino]]]
  BY DEF BeginRead, ring, maps, pipe, point
<1>2. DOMAIN reader = Readers
  BY DEF BookInv, RingTypes
<1>3. Pinned'
  <2>1. /\ reader'[r].pos = index[content[ino]] /\ reader'[r].h = content[ino]
        /\ \A x \in Readers : x # r => reader'[x] = reader[x]
    BY <1>1, <1>2
  <2>2. tail <= index[content[ino]] /\ At(index[content[ino]]).h = content[ino]
    BY <1>1 DEF Aligned, Standing, CellsStand
  <2>3. \A x \in Readers : reader'[x].pos >= 0 => reader'[x].pos >= tail /\ At(reader'[x].pos).h = reader'[x].h
    <3>1. TAKE x \in Readers
    <3>2. CASE x = r
      <4>1. index[content[ino]] \in Nat /\ tail \in Nat
        BY <1>1, Typed
      <4> QED  BY <2>1, <2>2, <3>2, <4>1
    <3>3. CASE x # r
      <4>1. reader'[x] = reader[x]
        BY <2>1, <3>3
      <4> QED  BY <4>1 DEF Aligned, Standing, Pinned
    <3> QED  BY <3>2, <3>3
  <2> QED  BY <1>1, <2>3 DEF Pinned, At
<1>4. CellsStand' /\ TailBehind' /\ InOrder' /\ Room'
  BY <1>1 DEF Aligned, Standing, CellsStand, TailBehind, InOrder, Ordered, Room, At
<1>5. RunsFirst' /\ Emptied'
  BY <1>1, StillFirst DEF Aligned, Emptied
<1> QED  BY <1>3, <1>4, <1>5 DEF Aligned, Standing

(* A reader unpins, and the tail moves no further than it may.             *)
LEMMA EndReadAligned ==
    ASSUME BookInv, Aligned, NEW r \in Readers, EndRead(r)
    PROVE  Aligned'
<1>1. /\ UNCHANGED <<cell, head, index, order, reclaimTo, locating, runs, ck, locked>>
      /\ reader' = [reader EXCEPT ![r] = [pos |-> -1, h |-> 0]] /\ Reclaim(reclaimTo, reader')
  BY DEF EndRead, ring, maps, pipe, point
<1>2. reader \in [Readers -> [pos : -1..head - 1, h : 0..MaxHandle]] /\ reclaimTo \in 0..head /\ head \in Nat
  BY DEF BookInv, RingTypes
<1> DEFINE rd == reader'
<1>3. /\ \A x \in Readers : rd[x].pos \in Int /\ rd[x].pos <= head
      /\ \A x \in Readers : rd[x].pos >= 0 => rd[x] = reader[x]
  <2>1. \A x \in Readers : reader[x].pos \in -1..head - 1
    BY <1>2
  <2>2. rd[r].pos = -1 /\ \A x \in Readers : x # r => rd[x] = reader[x]
    BY <1>1, <1>2
  <2> QED  BY <1>2, <2>1, <2>2
<1>4. \A x \in Readers : rd[x].pos >= 0 => rd[x].pos >= tail /\ At(rd[x].pos).h = rd[x].h
  BY <1>3 DEF Aligned, Standing, Pinned
<1>5. \A h \in DOMAIN index : reclaimTo <= index[h]
  BY DEF Aligned, Standing, TailBehind
<1>6. Reclaim(reclaimTo, rd) /\ reader' = rd
  BY <1>1
<1> HIDE DEF rd
<1>7. Room' /\ CellsStand' /\ Pinned'
  BY <1>1, <1>2, <1>3, <1>4, <1>5, <1>6, TailMoves DEF Aligned, Standing
<1>8. TailBehind' /\ InOrder'
  BY <1>1 DEF Aligned, Standing, TailBehind, InOrder, Ordered
<1>9. RunsFirst' /\ Emptied'
  BY <1>1, StillFirst DEF Aligned, Emptied
<1> QED  BY <1>7, <1>8, <1>9 DEF Aligned, Standing

-----------------------------------------------------------------------------
(* Steps of a run.                                                         *)

(* Before its publication a run moves nothing in the ring, and keeps the   *)
(* records it took.                                                        *)
LEMMA RunAligned ==
    ASSUME BookInv, Aligned, NEW b \in DOMAIN runs, Snapshot(b) \/ ChunkAndPack(b) \/ Journal(b)
    PROVE  Aligned'
<1>1. UNCHANGED <<cell, head, tail, index, order, reclaimTo, locating, reader, ck, locked>>
  BY DEF Snapshot, ChunkAndPack, Journal, ring, maps, pipe, point
<1>2. Emptied'
  BY <1>1 DEF Aligned, Emptied
<1>3. \A x \in DOMAIN runs : runs[x] \in RunOf
  BY DEF BookInv, RunInv, PipeTypes
<1>4. \A x \in DOMAIN runs' : x \in DOMAIN runs /\ (x # b => runs'[x] = runs[x])
  BY DEF Snapshot, ChunkAndPack, Journal, FailFlush
<1>5. b \in DOMAIN runs' /\ runs'[b].phase \in Active =>
          /\ runs[b].phase \in Active
          /\ runs'[b].cut = runs[b].cut /\ runs'[b].recs = runs[b].recs /\ runs'[b].to = runs[b].to
  <2>1. CASE Snapshot(b)
    BY <1>3, <2>1 DEF Snapshot, InRun, Active, RunOf
  <2>2. CASE ChunkAndPack(b)
    <3>1. runs[b].phase = "snapped"
      BY <2>2 DEF ChunkAndPack, InRun
    <3>2. b \in DOMAIN runs' =>
             runs'[b].cut = runs[b].cut /\ runs'[b].recs = runs[b].recs /\ runs'[b].to = runs[b].to
      BY <1>3, <2>2 DEF ChunkAndPack, FailFlush, RunOf
    <3> QED  BY <3>1, <3>2 DEF Active
  <2>3. CASE Journal(b)
    BY <1>3, <2>3 DEF Journal, InRun, Active, RunOf
  <2> QED  BY <2>1, <2>2, <2>3
<1>6. \A x \in DOMAIN runs' : runs'[x].phase \in Active =>
          /\ x \in DOMAIN runs /\ runs[x].phase \in Active
          /\ runs'[x].cut = runs[x].cut /\ runs'[x].recs = runs[x].recs /\ runs'[x].to = runs[x].to
  BY <1>4, <1>5
<1> QED  BY <1>1, <1>2, <1>6, Quiet

(* A publication takes the first records out of the order, and what is     *)
(* left is behind the tail it asks for.                                    *)
LEMMA PublishAligned ==
    ASSUME BookInv, Aligned, NEW b \in DOMAIN runs, Publish(b)
    PROVE  Aligned'
<1> DEFINE c == runs[b].cut
<1>1. /\ UNCHANGED <<cell, head, tail, reclaimTo, reader, ck, locked>> /\ runs[b].phase = "packed"
      /\ index' = [h \in DOMAIN index \ runs[b].recs |-> index[h]]
      /\ order' = SubSeq(order, c + 1, Len(order))
      /\ locating' = Append(locating, [b |-> b, to |-> runs[b].to, done |-> FALSE])
      /\ runs' = [runs EXCEPT ![b].phase = "published"]
  BY DEF Publish, InRun, ring, point
<1>2. /\ order \in Seq(Handles) /\ Len(order) \in Nat /\ DOMAIN order = 1..Len(order) /\ head \in Nat
      /\ \A h \in DOMAIN index : index[h] \in 0..head - 1
  BY Typed
<1>3. /\ c \in 1..Len(order) /\ runs[b].recs = {order[k] : k \in 1..c}
      /\ runs[b].to = head - Len(order) + c
  BY <1>1 DEF Aligned, RunsFirst, Active
<1>4. /\ \A k \in 1..Len(order) : order[k] \in DOMAIN index /\ index[order[k]] = head - Len(order) + k - 1
      /\ \A h \in DOMAIN index : \E k \in 1..Len(order) : order[k] = h
  BY <1>2 DEF Aligned, Standing, InOrder, Ordered
<1> HIDE DEF c
<1>5. /\ Len(order') = Len(order) - c /\ DOMAIN order' = 1..Len(order) - c
      /\ \A k \in 1..Len(order) - c : order'[k] = order[c + k]
  <2>1. c \in 0..Len(order)
    BY <1>2, <1>3
  <2>2. /\ order' \in Seq(Handles) /\ Len(order') = Len(order) - c
        /\ \A k \in 1..Len(order) - c : order'[k] = order[c + k]
    BY <1>1, <1>2, <2>1, Remainder
  <2> QED  BY <2>2
<1>6. \A k \in 1..Len(order) : order[k] \in runs[b].recs <=> k <= c
  <2>1. \A k, j \in 1..Len(order) : order[k] = order[j] => k = j
    BY <1>2, <1>4
  <2>2. \A k \in 1..c : k \in 1..Len(order)
    BY <1>2, <1>3
  <2>3. \A k \in 1..Len(order) : k <= c => order[k] \in runs[b].recs
    BY <1>3
  <2>4. \A k \in 1..Len(order) : order[k] \in runs[b].recs => k <= c
    <3>1. TAKE k \in 1..Len(order)
    <3>2. HAVE order[k] \in runs[b].recs
    <3>3. PICK j \in 1..c : order[k] = order[j]
      BY <1>3, <3>2
    <3> QED  BY <2>1, <2>2, <3>3
  <2> QED  BY <2>3, <2>4
<1>7. /\ DOMAIN index' = DOMAIN index \ runs[b].recs
      /\ \A h \in DOMAIN index' : index'[h] = index[h]
  BY <1>1
<1>8. InOrder'
  <2>1. \A k \in 1..Len(order) - c : c + k \in 1..Len(order) /\ ~(c + k <= c)
    BY <1>2, <1>3
  <2>2. \A k \in DOMAIN order' : order'[k] \in DOMAIN index' /\ index'[order'[k]] = head' - Len(order') + k - 1
    <3>1. TAKE k \in DOMAIN order'
    <3>2. /\ k \in Nat /\ order'[k] = order[c + k] /\ c + k \in 1..Len(order) /\ ~(c + k <= c)
      BY <1>5, <2>1
    <3>3. order'[k] \in DOMAIN index'
      BY <1>4, <1>6, <1>7, <3>2
    <3>4. index'[order'[k]] = head - Len(order) + (c + k) - 1
      BY <1>4, <1>7, <3>2, <3>3
    <3>5. head - Len(order) + (c + k) - 1 = head' - Len(order') + k - 1
      <4>1. c \in Nat /\ head' = head /\ Len(order') = Len(order) - c
        BY <1>1, <1>2, <1>3, <1>5
      <4> QED  BY <1>2, <3>2, <4>1
    <3> QED  BY <3>3, <3>4, <3>5
  <2>3. \A h \in DOMAIN index' : \E k \in DOMAIN order' : order'[k] = h
    <3>1. TAKE h \in DOMAIN index'
    <3>2. PICK j \in 1..Len(order) : order[j] = h
      BY <1>4, <1>7
    <3>3. j > c
      BY <1>2, <1>3, <1>6, <1>7, <3>2
    <3>4. j - c \in 1..Len(order) - c /\ c + (j - c) = j
      BY <1>2, <1>3, <3>3
    <3>5. order'[j - c] = order[j]
      BY <1>5, <3>4
    <3> QED  BY <1>5, <3>2, <3>4, <3>5
  <2> QED  BY <2>2, <2>3 DEF InOrder, Ordered
<1>9. TailBehind'
  <2>1. /\ locating \in Seq(Batches) /\ Len(locating) \in Nat /\ DOMAIN locating = 1..Len(locating)
    BY Batch DEF BookInv, RunInv, PipeTypes
  <2>2. \A k \in DOMAIN locating' : (k \in DOMAIN locating /\ locating'[k] = locating[k])
                                   \/ locating'[k].to = runs[b].to
    BY <1>1, <2>1
  <2>3. \A h \in DOMAIN index' : runs[b].to <= index[h]
    <3>1. TAKE h \in DOMAIN index'
    <3>2. PICK j \in 1..Len(order) : order[j] = h
      BY <1>4, <1>7
    <3>3. j > c
      BY <1>2, <1>3, <1>6, <1>7, <3>2
    <3> QED  BY <1>2, <1>3, <1>4, <3>2, <3>3
  <2>4. \A h \in DOMAIN index' :
            reclaimTo <= index[h] /\ \A k \in DOMAIN locating : locating[k].to <= index[h]
    BY <1>7 DEF Aligned, Standing, TailBehind
  <2> QED  BY <1>1, <1>7, <2>2, <2>3, <2>4 DEF TailBehind
<1>10. CellsStand' /\ Pinned' /\ Room' /\ Emptied'
  <2>1. CellsStand'
    BY <1>1, <1>7 DEF Aligned, Standing, CellsStand, At
  <2>2. Pinned' /\ Room'
    BY <1>1 DEF Aligned, Standing, Pinned, Room, At
  <2>3. Emptied'
    BY <1>1, <1>7 DEF Aligned, Emptied
  <2> QED  BY <2>1, <2>2, <2>3
<1>11. RunsFirst'
  <2>1. \A x \in DOMAIN runs' : runs'[x].phase \notin Active
    <3>1. \A x \in DOMAIN runs : x # b => runs[x].phase \notin Active
      BY <1>1 DEF BookInv, RunInv, OneRun, Active
    <3>2. runs'[b].phase = "published"
      <4>1. runs[b] \in RunOf
        BY DEF BookInv, RunInv, PipeTypes
      <4> QED  BY <1>1, <4>1 DEF RunOf
    <3> QED  BY <1>1, <3>1, <3>2 DEF Active
  <2> QED  BY <2>1 DEF RunsFirst
<1> QED  BY <1>8, <1>9, <1>10, <1>11 DEF Aligned, Standing

(* A batch settles: the tail may move to the end of the batches at the     *)
(* front of the queue, and no record of the index is behind any of them.   *)
LEMMA SettleAligned ==
    ASSUME BookInv, Aligned, NEW b \in DOMAIN runs, Settle(b)
    PROVE  Aligned'
<1>1. /\ UNCHANGED <<cell, head, index, order, reader, ck, locked>>
      /\ runs' = [x \in DOMAIN runs \ {b} |-> runs[x]] /\ Reclaim(reclaimTo', reader)
  BY DEF Settle, ring, maps, point
<1>2. /\ locating \in Seq(Batches) /\ Len(locating) \in Nat /\ DOMAIN locating = 1..Len(locating)
  BY Batch DEF BookInv, RunInv, PipeTypes
<1>3. \A h \in DOMAIN index :
          reclaimTo <= index[h] /\ \A k \in 1..Len(locating) : locating[k].to <= index[h]
  BY <1>2 DEF Aligned, Standing, TailBehind
<1>4. /\ reclaimTo' \in 0..head
      /\ reclaimTo' = reclaimTo \/ \E k \in 1..Len(locating) : reclaimTo' = locating[k].to
      /\ \A k \in DOMAIN locating' : \E j \in 1..Len(locating) : locating'[k].to = locating[j].to
  <2>1. CASE runs[b].phase = "recorded"
    <3>1. PICK n \in 0..Len(locating) :
              /\ locating' \in Seq(Batches) /\ Len(locating') = Len(locating) - n
              /\ \A k \in 1..Len(locating) - n : locating'[k].to = locating[n + k].to
              /\ reclaimTo' = reclaimTo \/ \E k \in 1..n : reclaimTo' = locating[k].to
              /\ reclaimTo' \in 0..head
      BY <2>1, SettledDone
    <3>2. \A k \in 1..n : k \in 1..Len(locating)
      BY <1>2
    <3>3. \A k \in 1..Len(locating) - n : n + k \in 1..Len(locating)
      BY <1>2
    <3>4. DOMAIN locating' = 1..Len(locating) - n
      BY <3>1
    <3> QED  BY <3>1, <3>2, <3>3, <3>4
  <2>2. CASE runs[b].phase = "unrecorded"
    <3>1. PICK i \in 1..Len(locating) :
              /\ locating' \in Seq(Batches) /\ Len(locating') = Len(locating) - 1
              /\ \A k \in 1..Len(locating) - 1 :
                    locating'[k] = IF k < i THEN locating[k] ELSE locating[k + 1]
              /\ reclaimTo' = reclaimTo
      BY <2>2, SettledFailed
    <3>2. DOMAIN locating' = 1..Len(locating) - 1
      BY <3>1
    <3>3. \A k \in 1..Len(locating) - 1 : k \in 1..Len(locating) /\ k + 1 \in 1..Len(locating)
      BY <1>2
    <3>4. reclaimTo \in 0..head
      BY DEF BookInv, RingTypes
    <3>5. \A k \in 1..Len(locating) - 1 : \E j \in 1..Len(locating) : locating'[k] = locating[j]
      BY <3>1, <3>3
    <3> QED  BY <3>1, <3>2, <3>4, <3>5
  <2> QED  BY <2>1, <2>2 DEF Settle, InRun
<1> DEFINE to == reclaimTo'
<1>5. to \in 0..head /\ Reclaim(to, reader) /\ \A h \in DOMAIN index : to <= index[h]
  BY <1>1, <1>3, <1>4
<1> HIDE DEF to
<1>6. \A r \in Readers : reader[r].pos \in Int /\ reader[r].pos <= head
  <2>1. \A r \in Readers : reader[r] \in [pos : -1..head - 1, h : 0..MaxHandle]
    BY DEF BookInv, RingTypes
  <2>2. \A r \in Readers : reader[r].pos \in -1..head - 1
    BY <2>1
  <2>3. head \in Nat
    BY Typed
  <2> QED  BY <2>2, <2>3
<1>7. Room' /\ CellsStand' /\ Pinned'
  <2>1. \A r \in Readers : reader[r].pos >= 0 => reader[r].pos >= tail /\ At(reader[r].pos).h = reader[r].h
    BY DEF Aligned, Standing, Pinned
  <2>2. reader' = reader /\ UNCHANGED <<cell, head, index>> /\ Room /\ CellsStand
    BY <1>1 DEF Aligned, Standing
  <2> QED  BY <1>5, <1>6, <2>1, <2>2, TailMoves
<1>8. TailBehind'
  <2>1. \A h \in DOMAIN index : reclaimTo' <= index[h] /\ \A k \in DOMAIN locating' : locating'[k].to <= index[h]
    BY <1>3, <1>4
  <2> QED  BY <1>1, <2>1 DEF TailBehind
<1>9. InOrder' /\ Emptied'
  BY <1>1 DEF Aligned, Standing, InOrder, Ordered, Emptied
<1>10. RunsFirst'
  <2>1. \A x \in DOMAIN runs' : x \in DOMAIN runs /\ runs'[x] = runs[x]
    BY <1>1
  <2> QED  BY <1>1, <2>1, StillFirst DEF Aligned
<1> QED  BY <1>7, <1>8, <1>9, <1>10 DEF Aligned, Standing

-----------------------------------------------------------------------------
(* Steps of a checkpoint.                                                  *)

(* A turn of Flush goes on with nothing in the ring: the head is at the    *)
(* tail, or there is nothing to cut.                                       *)
LEMMA FlushAligned ==
    ASSUME BookInv, Aligned, Flush
    PROVE  Aligned'
<1>1. /\ UNCHANGED <<cell, head, tail, index, order, reclaimTo, locating, reader>>
  BY DEF Flush, ring, maps
<1>2. PICK at \in {"pack", "locate"}, err \in {locateErr, flushErr} : FlushFrom(at, err)
  BY DEF Flush, BeginFlush
<1>3. /\ \/ UNCHANGED <<packing, runs>>
         \/ /\ ~packing /\ Cut(index, order, head, 0) # {}
            /\ StartPack(Cut(index, order, head, 0), index, order)
      /\ ck' \in {"drain", "flushed"} => head = tail \/ Cut(index, order, head, 0) = {}
  BY <1>2, FlushTurn
<1>4. /\ order \in Seq(Handles) /\ Len(order) \in Nat /\ DOMAIN order = 1..Len(order)
      /\ head \in Nat /\ tail \in Nat /\ \A h \in DOMAIN index : index[h] \in 0..head - 1
  BY Typed
<1>5. Emptied'
  <2>1. ASSUME head = tail PROVE DOMAIN index = {}
    <3>1. \A h \in DOMAIN index : tail <= index[h]
      BY DEF Aligned, Standing, CellsStand
    <3>2. \A h \in DOMAIN index : FALSE
      BY <1>4, <2>1, <3>1
    <3> QED  BY <3>2
  <2>2. ASSUME Cut(index, order, head, 0) = {} PROVE DOMAIN index = {}
    <3>1. Ordered(index, order, head)
      BY DEF Aligned, Standing, InOrder
    <3>2. DOMAIN order = {}
      BY <1>4, <2>2, <3>1, CutIsAll
    <3> QED  BY <3>1, <3>2 DEF Ordered
  <2> QED  BY <1>1, <1>3, <2>1, <2>2 DEF Emptied
<1>6. CASE UNCHANGED <<packing, runs>>
  BY <1>1, <1>5, <1>6, Quiet
<1>7. CASE ~packing /\ Cut(index, order, head, 0) # {} /\ StartPack(Cut(index, order, head, 0), index, order)
  <2>1. Standing' /\ Room'
    BY <1>1, StillStanding DEF Aligned, Room
  <2>2. RunsFirst'
    BY <1>1, <1>4, <1>7, <2>1, LaunchedFirst DEF Standing
  <2> QED  BY <1>5, <2>1, <2>2 DEF Aligned
<1> QED  BY <1>3, <1>6, <1>7

(* The other steps of a checkpoint, and those that fail or forget, move    *)
(* nothing in the ring.                                                    *)
LEMMA OtherAligned ==
    ASSUME BookInv, Aligned,
           \/ \E w \in Writers : Refuse(w)
           \/ \E ino \in Inodes : Forget(ino)
           \/ \E p \in DOMAIN packs : UploadEnds(p)
           \/ Drain \/ Freeze \/ Finish \/ Release \/ UNCHANGED vars
    PROVE  Aligned'
<1>1. UNCHANGED <<cell, head, tail, index, order, reclaimTo, locating, reader, runs>>
  <2>1. ASSUME NEW w \in Writers, Refuse(w)
        PROVE  UNCHANGED <<cell, head, tail, index, order, reclaimTo, locating, reader, runs>>
    BY <2>1 DEF Refuse, ring, maps, pipe
  <2>2. ASSUME NEW ino \in Inodes, Forget(ino)
        PROVE  UNCHANGED <<cell, head, tail, index, order, reclaimTo, locating, reader, runs>>
    BY <2>2 DEF Forget, ring, pipe
  <2>3. ASSUME NEW p \in DOMAIN packs, UploadEnds(p)
        PROVE  UNCHANGED <<cell, head, tail, index, order, reclaimTo, locating, reader, runs>>
    BY <2>3 DEF UploadEnds, ring, maps, pipe
  <2>4. CASE Drain \/ Freeze \/ Finish \/ Release
    BY <2>4 DEF Drain, Freeze, Finish, Release, ring, maps, pipe
  <2>5. CASE UNCHANGED vars
    BY <2>5 DEF vars, ring, maps, pipe
  <2> QED  BY <2>1, <2>2, <2>3, <2>4, <2>5
<1>2. \/ UNCHANGED <<ck, locked>>
      \/ ck = "drain" /\ ck' = "flushed" /\ locked' = locked
      \/ ck' \notin {"drain", "flushed"}
  <2>1. ASSUME NEW w \in Writers, Refuse(w) PROVE UNCHANGED <<ck, locked>>
    BY <2>1 DEF Refuse, point
  <2>2. ASSUME NEW ino \in Inodes, Forget(ino) PROVE UNCHANGED <<ck, locked>>
    BY <2>2 DEF Forget, point
  <2>3. ASSUME NEW p \in DOMAIN packs, UploadEnds(p) PROVE UNCHANGED <<ck, locked>>
    BY <2>3 DEF UploadEnds, point
  <2>4. CASE Drain
    BY <2>4 DEF Drain
  <2>5. CASE Freeze \/ Finish \/ Release
    BY <2>5 DEF Freeze, Finish, Release
  <2>6. CASE UNCHANGED vars
    BY <2>6 DEF vars, point
  <2> QED  BY <2>1, <2>2, <2>3, <2>4, <2>5, <2>6
<1>3. Emptied'
  BY <1>1, <1>2 DEF Aligned, Emptied
<1> QED  BY <1>1, <1>3, Quiet

-----------------------------------------------------------------------------
(* A crash, and the theorems.                                              *)

OnceEach(cells) ==
    \A o, p \in 0..RingSize - 1 : cells[o].h # 0 /\ cells[o].h = cells[p].h => o = p

(* A record that was torn, or one that was copied and not journaled,       *)
(* leaves every handle in one cell.                                        *)
LEMMA FoundOnce ==
    ASSUME BookInv, CellsDistinct, Crash
    PROVE  \E cells \in [0..RingSize - 1 -> Cells] : Recover(cells) /\ OnceEach(cells)
<1>1. PICK cells \in [0..RingSize - 1 -> Cells] :
          /\ Recover(cells)
          /\ \/ cells = cell
             \/ ~Full /\ cells = [cell EXCEPT ![head % RingSize] = Empty]
             \/ /\ ~Full /\ nextHandle <= MaxHandle
                /\ \E d \in Data : cells = [cell EXCEPT ![head % RingSize] =
                                              [h |-> nextHandle, d |-> d, seq |-> seq]]
  BY CellsFound
<1>2. /\ cell \in [0..RingSize - 1 -> Cells] /\ head \in Nat /\ nextHandle \in Nat
      /\ \A o \in 0..RingSize - 1 : cell[o].h < nextHandle
  BY Typed DEF BookInv, RingTypes, CellsDistinct
<1>3. CASE cells = cell
  BY <1>1, <1>3 DEF OnceEach, CellsDistinct
<1> DEFINE o1 == head % RingSize
<1>4. o1 \in 0..RingSize - 1
  BY <1>2, CellOf
<1>5. CASE cells = [cell EXCEPT ![o1] = Empty]
  <2>1. cells[o1].h = 0 /\ \A o \in 0..RingSize - 1 : o # o1 => cells[o] = cell[o]
    BY <1>2, <1>4, <1>5 DEF Empty
  <2> HIDE DEF o1
  <2>2. OnceEach(cells)
    BY <1>4, <2>1 DEF OnceEach, CellsDistinct
  <2> QED  BY <1>1, <2>2
<1>6. ASSUME NEW d \in Data, cells = [cell EXCEPT ![o1] = [h |-> nextHandle, d |-> d, seq |-> seq]]
      PROVE  OnceEach(cells)
  <2>1. cells[o1].h = nextHandle /\ \A o \in 0..RingSize - 1 : o # o1 => cells[o] = cell[o]
    BY <1>2, <1>4, <1>6
  <2>2. \A o \in 0..RingSize - 1 : o # o1 => cells[o].h # nextHandle
    BY <1>2, <2>1
  <2> HIDE DEF o1
  <2> QED  BY <1>4, <2>1, <2>2 DEF OnceEach, CellsDistinct
<1> QED  BY <1>1, <1>3, <1>5, <1>6

(* The first recovery finds each record once, and so its position.         *)
LEMMA CrashAligned ==
    ASSUME BookInv, CellsDistinct, Crash
    PROVE  Aligned'
<1>1. PICK cells \in [0..RingSize - 1 -> Cells] : Recover(cells) /\ OnceEach(cells)
  BY FoundOnce
<1> DEFINE n     == Walk(cells)
           C(k)  == cells[(tail + k) % RingSize]
           found == {C(k).h : k \in 0..n - 1}
<1>2. /\ cell' = cells /\ head' = tail + n
      /\ index' = [h \in found |-> tail + Highest({k \in 0..n - 1 : C(k).h = h})]
      /\ order' = [k \in 1..n |-> C(k - 1).h]
  BY <1>1 DEF Recover
<1>3. /\ tail' = tail /\ runs' = << >> /\ locating' = << >> /\ reclaimTo' = 0 /\ ck' = "idle"
      /\ reader' = [r \in Readers |-> [pos |-> -1, h |-> 0]]
  BY DEF Crash
<1>4. tail \in Nat /\ RingSize \in Nat /\ RingSize > 0
  BY Typed
<1>5. n \in 0..RingSize /\ n \in Nat /\ \A k \in 0..n - 1 : C(k).h # 0
  BY Walked
<1> HIDE DEF n
<1>6. \A j, k \in 0..n - 1 : C(j).h = C(k).h => j = k
  <2>1. \A k \in 0..n - 1 : (tail + k) % RingSize \in 0..RingSize - 1
    BY <1>4, <1>5, CellOf
  <2>2. \A j, k \in 0..n - 1 : j < k => (tail + j) % RingSize # (tail + k) % RingSize
    <3>1. TAKE j, k \in 0..n - 1
    <3>2. HAVE j < k
    <3>3. tail + j \in Int /\ tail + k \in Int /\ tail + j < tail + k /\ (tail + k) - (tail + j) < RingSize
      BY <1>4, <1>5, <3>2
    <3> QED  BY <1>4, <3>3, CellsApart
  <2>3. \A j, k \in 0..n - 1 : j < k \/ k < j \/ j = k
    BY <1>5
  <2>4. \A j, k \in 0..n - 1 : C(j).h = C(k).h => (tail + j) % RingSize = (tail + k) % RingSize
    BY <1>1, <1>5, <2>1 DEF OnceEach
  <2> QED  BY <2>2, <2>3, <2>4
<1> HIDE DEF C
<1>7. \A k \in 0..n - 1 : C(k).h \in DOMAIN index' /\ index'[C(k).h] = tail + k
  <2>1. TAKE k \in 0..n - 1
  <2> DEFINE S == {j \in 0..n - 1 : C(j).h = C(k).h}
  <2>2. S = {k}
    BY <1>6
  <2>3. Highest(S) \in S
    <3>1. S \subseteq Nat /\ S # {} /\ \A x \in S : x <= n
      BY <1>5, <2>2
    <3> HIDE DEF S
    <3> QED  BY <1>5, <3>1, HighestIn
  <2>4. Highest(S) = k
    <3> HIDE DEF S
    <3> QED  BY <2>2, <2>3
  <2>5. C(k).h \in found
    OBVIOUS
  <2>6. index'[C(k).h] = tail + Highest(S)
    BY <1>2, <2>5
  <2> HIDE DEF S
  <2> QED  BY <1>2, <2>4, <2>5, <2>6
<1>8. \A h \in DOMAIN index' : \E k \in 0..n - 1 : C(k).h = h
  BY <1>2
<1> HIDE DEF found
<1>9. Len(order') = n /\ DOMAIN order' = 1..n /\ \A k \in 1..n : order'[k] = C(k - 1).h
  BY <1>2, <1>5
<1>10. InOrder'
  <2>1. \A k \in DOMAIN order' : order'[k] \in DOMAIN index' /\ index'[order'[k]] = head' - Len(order') + k - 1
    <3>1. \A k \in 1..n : k - 1 \in 0..n - 1
      BY <1>5
    <3>2. \A k \in 1..n : order'[k] \in DOMAIN index' /\ index'[order'[k]] = tail + (k - 1)
      BY <1>7, <1>9, <3>1
    <3>3. \A k \in 1..n : head' - Len(order') + k - 1 = tail + (k - 1)
      BY <1>2, <1>4, <1>5, <1>9
    <3> QED  BY <1>9, <3>2, <3>3
  <2>2. \A h \in DOMAIN index' : \E k \in DOMAIN order' : order'[k] = h
    <3>1. TAKE h \in DOMAIN index'
    <3>2. PICK k \in 0..n - 1 : C(k).h = h
      BY <1>8
    <3>3. k + 1 \in 1..n /\ (k + 1) - 1 = k
      BY <1>5
    <3> QED  BY <1>9, <3>2, <3>3
  <2> QED  BY <2>1, <2>2 DEF InOrder, Ordered
<1>11. CellsStand'
  <2>1. \A h \in DOMAIN index' : tail <= index'[h] /\ cells[index'[h] % RingSize].h = h
    <3>1. TAKE h \in DOMAIN index'
    <3>2. PICK k \in 0..n - 1 : C(k).h = h
      BY <1>8
    <3>3. index'[h] = tail + k
      BY <1>7, <3>2
    <3> QED  BY <1>4, <1>5, <3>2, <3>3 DEF C
  <2> QED  BY <1>2, <1>3, <2>1 DEF CellsStand, At
<1>12. TailBehind'
  <2>1. \A h \in DOMAIN index' : 0 <= index'[h]
    <3>1. TAKE h \in DOMAIN index'
    <3>2. PICK k \in 0..n - 1 : C(k).h = h
      BY <1>8
    <3>3. index'[h] = tail + k
      BY <1>7, <3>2
    <3> QED  BY <1>4, <1>5, <3>3
  <2> QED  BY <1>3, <2>1 DEF TailBehind
<1>13. Room'
  BY <1>2, <1>3, <1>4, <1>5 DEF Room
<1>14. Pinned' /\ RunsFirst' /\ Emptied'
  <2>1. \A r \in Readers : reader'[r].pos = -1
    BY <1>3
  <2>2. DOMAIN runs' = {}
    BY <1>3
  <2> QED  BY <1>3, <2>1, <2>2 DEF Pinned, RunsFirst, Emptied
<1> QED  BY <1>10, <1>11, <1>12, <1>13, <1>14 DEF Aligned, Standing

(* Until a crash, a new handle goes into one cell.                         *)
LEMMA DistinctStep ==
    ASSUME BookInv, CellsDistinct, Next, ~Crash
    PROVE  CellsDistinct'
<1>1. /\ cell \in [0..RingSize - 1 -> Cells] /\ head \in Nat /\ nextHandle \in Nat /\ nextHandle > 0
      /\ \A o \in 0..RingSize - 1 : cell[o].h < nextHandle /\ cell[o].h \in Nat
  <2>1. /\ cell \in [0..RingSize - 1 -> Cells] /\ head \in Nat /\ nextHandle \in 1..MaxHandle + 1
        /\ MaxHandle \in Nat
    BY Typed DEF BookInv, RingTypes, MapInv, MapTypes
  <2>2. \A o \in 0..RingSize - 1 : cell[o] \in Cells
    BY <2>1
  <2> QED  BY <2>1, <2>2 DEF CellsDistinct, Cells
<1>2. ASSUME NEW w \in Writers, NEW ino \in Inodes, NEW d \in Data, Place(w, ino, d)
      PROVE  CellsDistinct'
  <2> DEFINE o1 == head % RingSize
  <2>1. /\ cell' = [cell EXCEPT ![o1] = [h |-> nextHandle, d |-> d, seq |-> seq]]
        /\ nextHandle' = nextHandle + 1
    BY <1>2 DEF Place
  <2>2. o1 \in 0..RingSize - 1
    BY <1>1, CellOf
  <2>3. cell'[o1].h = nextHandle /\ \A o \in 0..RingSize - 1 : o # o1 => cell'[o] = cell[o]
    BY <1>1, <2>1, <2>2
  <2> HIDE DEF o1
  <2>4. \A o \in 0..RingSize - 1 : cell'[o].h < nextHandle' /\ (o # o1 => cell'[o].h # nextHandle)
    BY <1>1, <2>1, <2>2, <2>3
  <2> QED  BY <2>2, <2>3, <2>4 DEF CellsDistinct
<1>3. CASE UNCHANGED <<cell, nextHandle>>
  BY <1>3 DEF CellsDistinct
<1>4. ASSUME NEW w \in Writers, Block(w) \/ Refuse(w) PROVE UNCHANGED <<cell, nextHandle>>
  BY <1>4 DEF Block, Refuse, ring, maps
<1>5. ASSUME NEW ino \in Inodes, Forget(ino) PROVE UNCHANGED <<cell, nextHandle>>
  BY <1>5 DEF Forget, ring
<1>6. ASSUME NEW r \in Readers, EndRead(r) \/ \E ino \in Inodes : BeginRead(r, ino)
      PROVE  UNCHANGED <<cell, nextHandle>>
  BY <1>6 DEF EndRead, BeginRead, ring, maps
<1>7. ASSUME NEW b \in DOMAIN runs, Snapshot(b) \/ ChunkAndPack(b) \/ Publish(b) \/ Journal(b) \/ Settle(b)
      PROVE  UNCHANGED <<cell, nextHandle>>
  BY <1>7 DEF Snapshot, ChunkAndPack, Publish, Journal, Settle, ring, maps
<1>8. ASSUME NEW p \in DOMAIN packs, UploadEnds(p) PROVE UNCHANGED <<cell, nextHandle>>
  BY <1>8 DEF UploadEnds, ring, maps
<1>9. CASE Flush \/ Drain \/ Freeze \/ Finish \/ Release
  BY <1>3, <1>9 DEF Flush, Drain, Freeze, Finish, Release, ring, maps
<1>10. ASSUME NEW w \in Writers, Write(w) PROVE CellsDistinct'
  <2>1. CASE \E ino \in Inodes, d \in Data : Place(w, ino, d)
    BY <1>2, <2>1
  <2>2. CASE Block(w) \/ Refuse(w)
    BY <1>3, <1>4, <2>2
  <2> QED  BY <1>10, <2>1, <2>2 DEF Write
<1> QED  BY <1>3, <1>5, <1>6, <1>7, <1>8, <1>9, <1>10 DEF Next

(* A step that is not a crash keeps the order of the ring.                 *)
LEMMA AlignedStep ==
    ASSUME BookInv, Aligned, Next, ~Crash
    PROVE  Aligned'
<1>1. ASSUME NEW w \in Writers, Write(w) PROVE Aligned'
  <2>1. w \in waiting \/ (OverlayFree /\ nextHandle <= MaxHandle)
    BY <1>1 DEF Write
  <2>2. CASE \E ino \in Inodes, d \in Data : Place(w, ino, d)
    BY <2>1, <2>2, PlaceAligned
  <2>3. CASE Block(w)
    BY <2>1, <2>3, BlockAligned
  <2>4. CASE Refuse(w)
    BY <2>4, OtherAligned
  <2> QED  BY <1>1, <2>2, <2>3, <2>4 DEF Write
<1>2. ASSUME NEW r \in Readers, EndRead(r) \/ \E ino \in Inodes : BeginRead(r, ino) PROVE Aligned'
  BY <1>2, EndReadAligned, BeginReadAligned
<1>3. ASSUME NEW b \in DOMAIN runs, Snapshot(b) \/ ChunkAndPack(b) \/ Publish(b) \/ Journal(b) \/ Settle(b)
      PROVE  Aligned'
  BY <1>3, RunAligned, PublishAligned, SettleAligned
<1>4. CASE Flush
  BY <1>4, FlushAligned
<1> QED  BY <1>1, <1>2, <1>3, <1>4, OtherAligned DEF Next

(* Only a crash counts as one.                                             *)
LEMMA CountedCrashes ==
    ASSUME Next, ~Crash
    PROVE  crashes' = crashes
<1>1. ASSUME NEW w \in Writers, Write(w) PROVE crashes' = crashes
  BY <1>1 DEF Write, Place, Block, Refuse, bounds
<1>2. ASSUME NEW ino \in Inodes, Forget(ino) PROVE crashes' = crashes
  BY <1>2 DEF Forget
<1>3. ASSUME NEW r \in Readers, EndRead(r) \/ \E ino \in Inodes : BeginRead(r, ino) PROVE crashes' = crashes
  BY <1>3 DEF EndRead, BeginRead, bounds
<1>4. ASSUME NEW b \in DOMAIN runs, Snapshot(b) \/ ChunkAndPack(b) \/ Publish(b) \/ Journal(b) \/ Settle(b)
      PROVE  crashes' = crashes
  BY <1>4 DEF Snapshot, ChunkAndPack, Publish, Journal, Settle, bounds
<1>5. ASSUME NEW p \in DOMAIN packs, UploadEnds(p) PROVE crashes' = crashes
  BY <1>5 DEF UploadEnds
<1>6. CASE Flush \/ Drain \/ Freeze \/ Finish \/ Release
  BY <1>6 DEF Flush, Drain, Freeze, Finish, Release, bounds
<1> QED  BY <1>1, <1>2, <1>3, <1>4, <1>5, <1>6 DEF Next

(* The ring is empty at first.                                             *)
LEMMA RingInit == ASSUME Init PROVE RingInv
<1>1. /\ cell = [o \in 0..RingSize - 1 |-> Empty] /\ head = 0 /\ tail = 0
      /\ index = << >> /\ order = << >> /\ nextHandle = 1 /\ runs = << >> /\ ck = "idle"
      /\ reader = [r \in Readers |-> [pos |-> -1, h |-> 0]]
  BY DEF Init
<1>2. DOMAIN index = {} /\ DOMAIN order = {} /\ DOMAIN runs = {} /\ RingSize \in Nat
      /\ \A r \in Readers : reader[r].pos = -1
  BY <1>1, ConstantsAssumption
<1>3. Standing
  BY <1>2 DEF Standing, CellsStand, TailBehind, InOrder, Ordered, Pinned
<1>4. RunsFirst /\ Emptied
  BY <1>1, <1>2 DEF RunsFirst, Emptied
<1>5. Room
  BY <1>1, <1>2 DEF Room
<1>6. CellsDistinct
  <2>1. \A o \in 0..RingSize - 1 : cell[o].h = 0
    BY <1>1 DEF Empty
  <2> QED  BY <1>1, <2>1 DEF CellsDistinct
<1> QED  BY <1>3, <1>4, <1>5, <1>6 DEF RingInv, Aligned

(* Every step keeps the ring; a crash keeps it once.                       *)
LEMMA RingStep == ASSUME BookInv, RingInv, [Next]_vars PROVE RingInv'
<1>1. crashes \in Nat
  BY DEF BookInv, WaitInv, WaitTypes
<1>2. CASE Crash
  <2>1. crashes' = crashes + 1
    BY <1>2 DEF Crash
  <2>2. ASSUME crashes = 0 PROVE Aligned'
    BY <1>2, <2>2, CrashAligned DEF RingInv
  <2>3. crashes' <= 1 => crashes = 0
    BY <1>1, <2>1
  <2>4. crashes' # 0
    BY <1>1, <2>1
  <2> QED  BY <2>2, <2>3, <2>4 DEF RingInv
<1>3. ASSUME Next, ~Crash PROVE RingInv'
  <2>1. crashes' = crashes
    BY <1>3, CountedCrashes
  <2>2. crashes <= 1 => Aligned'
    BY <1>3, AlignedStep DEF RingInv
  <2>3. crashes = 0 => CellsDistinct'
    BY <1>3, DistinctStep DEF RingInv
  <2> QED  BY <2>1, <2>2, <2>3 DEF RingInv
<1>4. CASE UNCHANGED vars
  <2>1. crashes' = crashes /\ UNCHANGED <<cell, nextHandle>>
    BY <1>4 DEF vars, bounds, ring, maps
  <2>2. Aligned => Aligned'
    BY <1>4, OtherAligned
  <2>3. CellsDistinct => CellsDistinct'
    BY <2>1 DEF CellsDistinct
  <2> QED  BY <2>1, <2>2, <2>3 DEF RingInv
<1> QED  BY <1>2, <1>3, <1>4

(* The ring is in order in every state of a session that was recovered at  *)
(* most once.                                                              *)
THEOREM RingKept == Spec => []RingInv
<1>1. Init => RingInv
  BY RingInit
<1>2. BookInv /\ RingInv /\ [Next]_vars => RingInv'
  BY RingStep
<1> QED  BY <1>1, <1>2, BooksKept, PTL DEF Spec

(* A reader's record, and the records a run is about to chunk, are still   *)
(* in their cells, whatever is appended and reclaimed meanwhile (Append,   *)
(* Reclaim, locatedLocked), in the first session and the one after its     *)
(* crash.                                                                  *)
THEOREM CellsHeld == Spec => [](crashes <= 1 => HeldCellsStay)
<1>1. ASSUME BookInv, RingInv, crashes <= 1 PROVE HeldCellsStay
  <2>1. Room /\ CellsStand /\ Pinned
    BY <1>1 DEF RingInv, Aligned, Standing
  <2>2. ASSUME NEW b \in DOMAIN runs, InRun(b, "snapped"), NEW h \in runs[b].plan
        PROVE  index[h] >= tail /\ At(index[h]).h = h
    <3>1. h \in DOMAIN index
      BY <1>1, <2>2 DEF BookInv, RunInv, RunTakes, InRun, Active
    <3>2. index[h] \in Nat /\ tail \in Nat
      BY <1>1, <3>1, Typed
    <3> QED  BY <2>1, <3>1, <3>2 DEF CellsStand
  <2> QED  BY <2>1, <2>2 DEF HeldCellsStay, Room, Pinned
<1> QED  BY <1>1, BooksKept, RingKept, PTL

(* A checkpoint never freezes a view of records that are still in the ring *)
(* (Flush under the overlay's lock, and the check in Freeze).              *)
THEOREM FreezeClean == Spec => [](crashes <= 1 => FreezeFindsNothing)
<1>1. ASSUME RingInv, crashes <= 1 PROVE FreezeFindsNothing
  BY <1>1 DEF RingInv, Aligned, Emptied, FreezeFindsNothing, NamedInRing
<1> QED  BY <1>1, RingKept, PTL
-----------------------------------------------------------------------------
(* The bodies.                                                             *)

(* Every cell that holds a record holds a body.                            *)
CellsFull == \A o \in 0..RingSize - 1 : cell[o].h # 0 => cell[o].d \in Data

(* A file's body is in its cell, or its extent has a chunk and the chunk a *)
(* pack; what a frozen view names has both.                                *)
Files == \A ino \in Inodes :
    /\ (content[ino] = 0) = (written[ino] = NoData)
    /\ content[ino] \in DOMAIN index => At(index[content[ino]]).d = written[ino]
    /\ content[ino] # 0 /\ content[ino] \notin DOMAIN index =>
          handleLoc[content[ino]] = written[ino] /\ chunkLoc[written[ino]] # 0
FrozenLocated == \A ino \in Inodes : frozen[ino] # 0 =>
    handleLoc[frozen[ino]] # NoData /\ chunkLoc[handleLoc[frozen[ino]]] # 0

(* A run that is about to publish has read its records right, and will     *)
(* have a pack for every chunk that had none.                              *)
CutRight(r) ==
    /\ r.stored # {} => r.pack # 0
    /\ r.phase \in {"cut", "snapped"} => r.stored = {}
    /\ r.phase = "packed" =>
          /\ \A h \in r.plan : /\ r.loc[h] = At(index[h]).d /\ r.loc[h] \in Data
                               /\ chunkLoc[r.loc[h]] # 0 \/ r.loc[h] \in r.stored
          /\ \A c \in r.stored : chunkLoc[c] = 0
PacksCut == \A b \in DOMAIN runs : CutRight(runs[b])

BodyInv == Files /\ FrozenLocated /\ PacksCut

(* What recovery needs.  The walk from the tail reaches the head.          *)
SeqAscends == \A pos \in tail..head - 1 :
    /\ At(pos).h # 0 /\ At(pos).seq < seq
    /\ pos + 1 < head => At(pos).seq < At(pos + 1).seq

(* Wherever a file's extent is found, in a cell, in a row of the journal   *)
(* or in a row about to be written, its body is the one last acknowledged. *)
CellsMatch == \A o \in 0..RingSize - 1, ino \in Inodes :
    content[ino] # 0 /\ cell[o].h = content[ino] => cell[o].d = written[ino]
RowsMatch == \A ino \in Inodes :
    content[ino] # 0 /\ jHandles[content[ino]] # NoData => jHandles[content[ino]] = written[ino]
Unrecorded == {b \in DOMAIN runs : runs[b].phase \in {"published", "unrecorded"}}
PlansMatch == \A b \in Unrecorded : \A ino \in Inodes :
    content[ino] # 0 /\ content[ino] \in runs[b].plan => runs[b].loc[content[ino]] = written[ino]

(* An extent that left the index has its rows, or a run that has not       *)
(* written them keeps the tail behind its record: none of the batches      *)
(* before that run in the queue reaches past it.                           *)
Blockers(pos) == {b \in Unrecorded : \E k \in DOMAIN locating :
    locating[k].b = b /\ \A j \in 1..k - 1 : locating[j].to <= pos}
InPlace(h, pos) == pos \in tail..head - 1 /\ reclaimTo <= pos /\ At(pos).h = h
RowDue(h) == \E pos \in tail..head - 1 :
    InPlace(h, pos) /\ (locateErr \/ \E b \in Blockers(pos) : h \in runs[b].plan)
ChunkDue(h, c) == \E pos \in tail..head - 1 :
    InPlace(h, pos) /\ (locateErr \/ \E b \in Blockers(pos) : c \in runs[b].stored)
Durable == \A ino \in Inodes : \A h \in Handles, c \in Data :
    content[ino] = h /\ h \notin DOMAIN index /\ written[ino] = c =>
       /\ jHandles[h] # NoData \/ RowDue(h)
       /\ jChunks[c] # 0 \/ ChunkDue(h, c)
ChunksDue == \A c \in Data : chunkLoc[c] # 0 =>
    jChunks[c] # 0 \/ locateErr \/ \E b \in Unrecorded : c \in runs[b].stored

(* Every chunk that has a pack has one that was sent, or still will be, by *)
(* the session that knows the chunk; its row is written when it was.       *)
PacksNamed ==
    /\ \A c \in Data : chunkLoc[c] # 0 => packs[chunkLoc[c]] # "unsent"
    /\ \A c \in Data : jChunks[c] # 0 => packs[jChunks[c]] \in {"landed", "failed"}
    /\ \A b \in DOMAIN runs : runs[b].pack # 0 => packs[runs[b].pack] # "unsent"

(* No upload has failed.                                                   *)
NoneFailed == \A p \in DOMAIN packs : packs[p] # "failed"

(* Every pack was sent by this session, and what is sealed landed.         *)
PacksSent == \A p \in DOMAIN packs : packs[p] # "unsent" /\ (packs[p] = "failed" => queueErr)

Recoverable == SeqAscends /\ CellsMatch /\ RowsMatch /\ PlansMatch /\ Durable /\ ChunksDue
FirstInv == Recoverable /\ PacksSent /\ SealedPacksLanded
LandsInv == BodyInv /\ (NoneFailed => SealedPacksLanded)
DataInv  == CellsFull /\ PacksNamed /\ (crashes <= 1 => LandsInv) /\ (crashes = 0 => FirstInv)
-----------------------------------------------------------------------------
(* Bodies: steps that move none.                                           *)

(* What is known of every run.                                             *)
LEMMA AnyRun ==
    ASSUME BookInv, NEW b \in DOMAIN runs
    PROVE  /\ runs[b] \in RunOf /\ runs[b].plan \subseteq Handles /\ runs[b].stored \subseteq Data
           /\ runs[b].loc \in [Handles -> Bodies] /\ runs[b].pack \in Nat /\ runs[b].pack <= Len(packs)
<1>1. runs[b] \in RunOf /\ runs[b].pack <= Len(packs)
  BY DEF BookInv, RunInv, PipeTypes
<1> QED  BY <1>1 DEF RunOf

(* A step that starts a run, or none, and leaves the others alone.         *)
NewOnly ==
    /\ \A x \in DOMAIN runs : x \in DOMAIN runs' /\ runs'[x] = runs[x]
    /\ \A x \in DOMAIN runs' \ DOMAIN runs : runs'[x].phase = "cut" /\ runs'[x].stored = {}

(* A run that is started is the only one that is new.                      *)
LEMMA Started ==
    ASSUME BookInv, NEW places, NEW ix, NEW ord, StartPack(places, ix, ord) \/ UNCHANGED <<packing, runs>>
    PROVE  NewOnly
<1>1. CASE UNCHANGED <<packing, runs>>
  BY <1>1 DEF NewOnly
<1>2. CASE StartPack(places, ix, ord)
  <2> DEFINE r == [phase |-> "cut", recs |-> {ord[k] : k \in places}, cut |-> Cardinality(places),
                   to |-> ix[ord[Highest(places)]] + 1, plan |-> {},
                   loc |-> [h \in Handles |-> NoData], stored |-> {}, pack |-> 0]
  <2>1. runs' = Extended(runs, NewRun, r)
    BY <1>2 DEF StartPack
  <2>2. r.phase = "cut" /\ r.stored = {}
    OBVIOUS
  <2> HIDE DEF r
  <2>3. NewRun \notin DOMAIN runs
    BY NewNumber DEF BookInv
  <2>4. /\ DOMAIN runs' = DOMAIN runs \cup {NewRun} /\ runs'[NewRun] = r
        /\ \A b \in DOMAIN runs : runs'[b] = runs[b]
    BY <2>1, <2>3 DEF Extended
  <2> QED  BY <2>2, <2>4 DEF NewOnly
<1> QED  BY <1>1, <1>2

(* What a run read of its records stays right if the cells of the records  *)
(* stay, and no chunk has lost or got a pack.                              *)
LEMMA CutsStill ==
    ASSUME BookInv, PacksCut, NewOnly, chunkLoc' = chunkLoc,
           \A h \in DOMAIN index : h \in DOMAIN index' /\ At(index[h]).d = cell'[index'[h] % RingSize].d
    PROVE  PacksCut'
<1>1. SUFFICES ASSUME NEW b \in DOMAIN runs'
               PROVE  CutRight(runs[b])'
  BY DEF PacksCut
<1>2. CASE b \notin DOMAIN runs
  BY <1>2 DEF NewOnly, CutRight
<1>3. CASE b \in DOMAIN runs
  <2>1. runs'[b] = runs[b] /\ CutRight(runs[b])
    BY <1>3 DEF NewOnly, PacksCut
  <2>2. runs[b].phase = "packed" => runs[b].plan \subseteq DOMAIN index
    BY <1>3 DEF BookInv, RunInv, RunTakes, Active
  <2>3. runs'[b].phase = "packed" => \A h \in runs'[b].plan :
            /\ runs'[b].loc[h] = cell'[index'[h] % RingSize].d /\ runs'[b].loc[h] \in Data
            /\ chunkLoc'[runs'[b].loc[h]] # 0 \/ runs'[b].loc[h] \in runs'[b].stored
    BY <2>1, <2>2 DEF CutRight
  <2>4. /\ runs'[b].stored # {} => runs'[b].pack # 0
        /\ runs'[b].phase \in {"cut", "snapped"} => runs'[b].stored = {}
        /\ runs'[b].phase = "packed" => \A c \in runs'[b].stored : chunkLoc'[c] = 0
    BY <2>1 DEF CutRight
  <2> QED  BY <2>3, <2>4 DEF CutRight, At
<1> QED  BY <1>2, <1>3

(* A step that moves no body.                                              *)
LEMMA BodyStill ==
    ASSUME BodyInv, UNCHANGED <<cell, index, content, written, frozen, handleLoc, chunkLoc>>,
           \A b \in DOMAIN runs' : CutRight(runs'[b])
    PROVE  BodyInv'
<1>1. Files' /\ FrozenLocated'
  BY DEF BodyInv, Files, FrozenLocated, At
<1>2. PacksCut'
  BY DEF PacksCut, CutRight, At
<1> QED  BY <1>1, <1>2 DEF BodyInv

(* The same, if it starts a run.                                           *)
LEMMA BodyQuiet ==
    ASSUME BodyInv, UNCHANGED <<cell, index, content, written, frozen, handleLoc, chunkLoc>>, NewOnly
    PROVE  BodyInv'
<1>1. \A b \in DOMAIN runs' : CutRight(runs'[b])
  <2>1. TAKE b \in DOMAIN runs'
  <2>2. CASE b \in DOMAIN runs
    BY <2>2 DEF NewOnly, BodyInv, PacksCut
  <2>3. CASE b \notin DOMAIN runs
    BY <2>3 DEF NewOnly, CutRight
  <2> QED  BY <2>2, <2>3
<1> QED  BY <1>1, BodyStill

(* A run reads its records in the ring, where they are until it publishes; *)
(* it has a pack if it has a chunk to place.                               *)
LEMMA BodyRun ==
    ASSUME BookInv, CellsStand, CellsFull, BodyInv, NEW b \in DOMAIN runs,
           Snapshot(b) \/ ChunkAndPack(b) \/ Journal(b) \/ Settle(b)
    PROVE  BodyInv'
<1>1. UNCHANGED <<cell, index, content, written, frozen, handleLoc, chunkLoc>>
  BY DEF Snapshot, ChunkAndPack, Journal, Settle, ring, maps, bounds
<1>2. /\ runs[b] \in RunOf /\ runs[b].plan \subseteq Handles /\ CutRight(runs[b])
      /\ \A x \in DOMAIN runs : CutRight(runs[x])
  BY AnyRun DEF BodyInv, PacksCut
<1>3. \A x \in DOMAIN runs' : x \in DOMAIN runs /\ (x # b => runs'[x] = runs[x])
  BY DEF Snapshot, ChunkAndPack, Journal, FailFlush, Settle
<1>4. b \in DOMAIN runs' => CutRight(runs'[b])
  <2>1. CASE Snapshot(b)
    BY <1>2, <2>1 DEF Snapshot, InRun, RunOf, CutRight
  <2>2. CASE Journal(b)
    BY <1>2, <2>2 DEF Journal, InRun, RunOf, CutRight
  <2>3. CASE Settle(b)
    BY <1>3, <2>3 DEF Settle
  <2>4. CASE ChunkAndPack(b)
    <3> DEFINE loc    == [h \in Handles |-> IF h \in runs[b].plan THEN Payload(h) ELSE NoData]
               stored == {c \in Data : chunkLoc[c] = 0 /\ \E h \in runs[b].plan : loc[h] = c}
    <3>1. /\ runs[b].phase = "snapped"
          /\ \/ /\ stored = {}
                /\ runs' = [runs EXCEPT ![b].phase = "packed", ![b].loc = loc]
             \/ /\ packs' = Append(packs, "queued")
                /\ runs' = [runs EXCEPT ![b].phase = "packed", ![b].loc = loc, ![b].stored = stored,
                                        ![b].pack = Len(packs')]
             \/ runs' = [x \in DOMAIN runs \ {b} |-> runs[x]]
      BY <2>4 DEF ChunkAndPack, InRun, FailFlush
    <3>2. runs[b].plan \subseteq DOMAIN index
      BY <3>1 DEF BookInv, RunInv, RunTakes, Active
    <3>3. \A h \in runs[b].plan : loc[h] = At(index[h]).d /\ loc[h] \in Data
      <4>1. TAKE h \in runs[b].plan
      <4>2. index[h] >= tail /\ At(index[h]).h = h /\ index[h] \in Nat
        BY <3>2, Typed DEF CellsStand
      <4>3. loc[h] = At(index[h]).d
        BY <1>2, <4>2 DEF Payload
      <4>4. index[h] % RingSize \in 0..RingSize - 1
        BY <4>2, CellOf
      <4>5. h # 0
        BY <1>2 DEF Handles
      <4> QED  BY <4>2, <4>3, <4>4, <4>5 DEF CellsFull, At
    <3>4. \A h \in runs[b].plan : chunkLoc[loc[h]] # 0 \/ loc[h] \in stored
      BY <3>3
    <3>5. \A c \in stored : chunkLoc[c] = 0
      OBVIOUS
    <3>6. runs[b].stored = {}
      BY <1>2, <3>1 DEF CutRight
    <3> HIDE DEF loc, stored
    <3>7. CASE stored = {} /\ runs' = [runs EXCEPT ![b].phase = "packed", ![b].loc = loc]
      <4>1. runs'[b].phase = "packed" /\ runs'[b].loc = loc /\ runs'[b].plan = runs[b].plan
            /\ runs'[b].stored = {}
        BY <1>2, <3>6, <3>7 DEF RunOf
      <4> QED  BY <3>3, <3>4, <3>7, <4>1 DEF CutRight
    <3>8. CASE /\ packs' = Append(packs, "queued")
               /\ runs' = [runs EXCEPT ![b].phase = "packed", ![b].loc = loc, ![b].stored = stored,
                                       ![b].pack = Len(packs')]
      <4>1. runs'[b].phase = "packed" /\ runs'[b].loc = loc /\ runs'[b].plan = runs[b].plan
            /\ runs'[b].stored = stored /\ runs'[b].pack = Len(packs')
        BY <1>2, <3>8 DEF RunOf
      <4>2. Len(packs') = Len(packs) + 1 /\ Len(packs) \in Nat
        BY <3>8, Typed DEF BookInv, SendTypes
      <4> QED  BY <3>3, <3>4, <3>5, <4>1, <4>2 DEF CutRight
    <3>9. CASE runs' = [x \in DOMAIN runs \ {b} |-> runs[x]]
      BY <3>9
    <3> QED  BY <3>1, <3>7, <3>8, <3>9
  <2> QED  BY <2>1, <2>2, <2>3, <2>4
<1>5. \A x \in DOMAIN runs' : CutRight(runs'[x])
  BY <1>2, <1>3, <1>4
<1> QED  BY <1>1, <1>5, BodyStill
-----------------------------------------------------------------------------
(* Bodies: steps that move one.                                            *)

(* What a file or a view names after a step has a count.                   *)
LEMMA NamedNext ==
    ASSUME NEW i \in Inodes, NEW x, content'[i] = x \/ frozen'[i] = x
    PROVE  Count(x)' > 0
<1>1. /\ IsFiniteSet(Naming(x)') /\ Cardinality(Naming(x)') \in Nat
      /\ IsFiniteSet(Holding(x)') /\ Cardinality(Holding(x)') \in Nat
  BY CountIsNat DEF Naming, Holding
<1>2. i \in Naming(x)' \/ i \in Holding(x)'
  BY DEF Naming, Holding
<1>3. Cardinality(Naming(x)') # 0 \/ Cardinality(Holding(x)') # 0
  BY <1>1, <1>2, FS_EmptySet
<1> QED  BY <1>1, <1>3 DEF Count

(* Apply drops no location whose count stays above zero.                   *)
LEMMA KeptLocation ==
    ASSUME BookInv, NEW dom, NEW lv, NEW d, Apply(dom, lv, d), NEW x \in Handles, x \notin dom,
           x \notin DOMAIN index, d[x] \in Int, d[x] # 0 => Count(x) + d[x] > 0
    PROVE  handleLoc'[x] = handleLoc[x]
<1>1. /\ handleLoc[x] # NoData => locRefs[x] = Count(x)
      /\ Count(x) \in Nat
  BY CountsAreNat DEF BookInv, MapInv, Counted
<1>2. handleLoc'[x] = IF d[x] # 0 /\ locRefs'[x] <= 0 THEN NoData ELSE handleLoc[x]
  BY DEF Apply
<1>3. handleLoc[x] # NoData => locRefs'[x] = locRefs[x] + d[x]
  BY DEF Apply
<1> QED  BY <1>1, <1>2, <1>3

(* A file that names another extent, or none, lets go of one location at   *)
(* most, and only if nothing else names it.                                *)
LEMMA OthersKept ==
    ASSUME BookInv, NEW ino \in Inodes, NEW to \in 0..MaxHandle, to # content[ino],
           content' = [content EXCEPT ![ino] = to], frozen' = frozen,
           NEW dom, NEW lv, Apply(dom, lv, Release1(content[ino])), DOMAIN index \subseteq dom,
           to \in dom \/ to = 0, NEW x \in Handles, x \notin dom,
           NEW i \in Inodes, content'[i] = x \/ frozen'[i] = x
    PROVE  handleLoc'[x] = handleLoc[x]
<1> DEFINE d == Release1(content[ino])
<1>1. content \in [Inodes -> 0..MaxHandle]
  BY DEF BookInv, MapInv, MapTypes
<1>2. Count(x)' = Count(x) + (IF x = to THEN 1 ELSE 0) + d[x]
  <2>1. \A y \in Handles :
            Count(y)' = Count(y) + (IF y = to THEN 1 ELSE 0) + Release1(content[ino])[y]
    BY <1>1, Renamed
  <2> QED  BY <2>1
<1>3. x # to
  BY ConstantsAssumption DEF Handles
<1>4. d[x] \in Int /\ Apply(dom, lv, d)
  BY DEF Release1
<1>5. Count(x)' > 0 /\ Count(x)' \in Nat /\ Count(x) \in Nat
  BY NamedNext, CountsAreNat
<1> HIDE DEF d
<1>6. Count(x) + d[x] > 0
  BY <1>2, <1>3, <1>4, <1>5
<1> QED  BY <1>4, <1>6, KeptLocation

(* A write: the body is in the cell at the head, and every other body      *)
(* where it was.                                                           *)
LEMMA BodyPlace ==
    ASSUME BookInv, Aligned, BodyInv, NEW w \in Writers, NEW ino \in Inodes, NEW d \in Data,
           w \in waiting \/ (OverlayFree /\ nextHandle <= MaxHandle), Place(w, ino, d)
    PROVE  BodyInv'
<1> DEFINE h == nextHandle
           lv == [live EXCEPT ![h] = @ + 1]
<1>1. /\ ~Full /\ chunkLoc' = chunkLoc /\ frozen' = frozen
      /\ cell' = [cell EXCEPT ![head % RingSize] = [h |-> h, d |-> d, seq |-> seq]]
      /\ index' = Extended(index, h, head)
      /\ Apply(DOMAIN index', lv, Release1(content[ino]))
      /\ content' = [content EXCEPT ![ino] = h] /\ written' = [written EXCEPT ![ino] = d]
  BY DEF Place
<1>2. NewOnly
  BY Started DEF Place
<1>3. /\ head \in Nat /\ tail \in Nat /\ tail <= head /\ RingSize \in Nat /\ RingSize > 0
      /\ DOMAIN index \subseteq Handles /\ \A x \in DOMAIN index : index[x] \in 0..head - 1
      /\ NoData \notin Data
  BY Typed
<1>4. h \in Handles /\ h # 0 /\ h \in 0..MaxHandle
  BY WriterAlone DEF Handles
<1>5. /\ \A i \in Inodes : content[i] # h /\ frozen[i] # h
      /\ h \notin DOMAIN index
  <2>1. /\ \A i \in Inodes : content[i] < nextHandle /\ frozen[i] < nextHandle
        /\ \A x \in DOMAIN index : x < nextHandle
    BY DEF BookInv, MapInv, Below
  <2>2. nextHandle \in Nat
    BY Typed
  <2> QED  BY <2>1, <2>2
<1>6. /\ DOMAIN index' = DOMAIN index \cup {h} /\ index'[h] = head
      /\ \A x \in DOMAIN index : index'[x] = index[x]
  BY <1>1, <1>5 DEF Extended
<1> HIDE DEF h, lv
<1>7. cell \in [0..RingSize - 1 -> Cells] /\ content \in [Inodes -> 0..MaxHandle] /\ DOMAIN written = Inodes
  BY DEF BookInv, RingTypes, MapInv, MapTypes, WaitInv, WaitTypes
<1>8. cell'[head % RingSize].d = d
  <2>1. head % RingSize \in 0..RingSize - 1
    BY <1>3, CellOf
  <2> QED  BY <1>1, <1>7, <2>1
<1>9. \A x \in DOMAIN index : At(index[x]).d = cell'[index'[x] % RingSize].d
  <2>1. TAKE x \in DOMAIN index
  <2>2. tail <= index[x] /\ index[x] \in 0..head - 1
    BY <1>3 DEF Aligned, Standing, CellsStand
  <2>3. head - index[x] < RingSize /\ index[x] < head
    BY <1>1, <1>3, <2>2 DEF Full
  <2>4. index[x] % RingSize # head % RingSize
    BY <1>3, <2>2, <2>3, CellsApart
  <2>5. index[x] % RingSize \in 0..RingSize - 1
    BY <2>2, CellOf
  <2>6. cell'[index[x] % RingSize] = cell[index[x] % RingSize]
    BY <1>1, <1>7, <2>4, <2>5
  <2> QED  BY <1>6, <2>6 DEF At
<1>10. \A x \in Handles : \A i \in Inodes :
          x \notin DOMAIN index' /\ (content'[i] = x \/ frozen'[i] = x) => handleLoc'[x] = handleLoc[x]
  <2>1. TAKE x \in Handles
  <2>2. TAKE i \in Inodes
  <2>3. HAVE x \notin DOMAIN index' /\ (content'[i] = x \/ frozen'[i] = x)
  <2> DEFINE dom == DOMAIN index'
  <2>4. /\ Apply(dom, lv, Release1(content[ino])) /\ DOMAIN index \subseteq dom /\ h \in dom /\ x \notin dom
        /\ h # content[ino]
    BY <1>1, <1>5, <1>6, <2>3
  <2> HIDE DEF dom
  <2> QED  BY <1>1, <1>4, <2>3, <2>4, OthersKept
<1>11. Files'
  <2>1. \A i \in Inodes : /\ content'[i] = IF i = ino THEN h ELSE content[i]
                          /\ written'[i] = IF i = ino THEN d ELSE written[i]
    BY <1>1, <1>7
  <2>2. SUFFICES ASSUME NEW i \in Inodes
        PROVE  /\ (content'[i] = 0) = (written'[i] = NoData)
               /\ content'[i] \in DOMAIN index' => cell'[index'[content'[i]] % RingSize].d = written'[i]
               /\ content'[i] # 0 /\ content'[i] \notin DOMAIN index' =>
                     handleLoc'[content'[i]] = written'[i] /\ chunkLoc'[written'[i]] # 0
    BY DEF Files, At
  <2>3. CASE i = ino
    <3>1. content'[i] = h /\ written'[i] = d
      BY <2>1, <2>3
    <3> QED  BY <1>3, <1>4, <1>6, <1>8, <3>1
  <2>4. CASE i # ino
    <3>1. content'[i] = content[i] /\ written'[i] = written[i]
      BY <2>1, <2>4
    <3>2. /\ (content[i] = 0) = (written[i] = NoData)
          /\ content[i] \in DOMAIN index => At(index[content[i]]).d = written[i]
          /\ content[i] # 0 /\ content[i] \notin DOMAIN index =>
                handleLoc[content[i]] = written[i] /\ chunkLoc[written[i]] # 0
      BY DEF BodyInv, Files
    <3>3. content[i] \in DOMAIN index' => content[i] \in DOMAIN index
      BY <1>5, <1>6
    <3>4. content[i] # 0 => content[i] \in Handles
      BY <1>7 DEF Handles
    <3>5. content[i] # 0 /\ content[i] \notin DOMAIN index' => handleLoc'[content[i]] = handleLoc[content[i]]
      BY <1>10, <3>1, <3>4
    <3>6. content[i] \in DOMAIN index' => cell'[index'[content[i]] % RingSize].d = written[i]
      BY <1>9, <3>2, <3>3
    <3>7. content[i] \notin DOMAIN index' => content[i] \notin DOMAIN index
      BY <1>6
    <3> QED  BY <1>1, <3>1, <3>2, <3>5, <3>6, <3>7
  <2> QED  BY <2>3, <2>4
<1>12. FrozenLocated'
  <2>1. SUFFICES ASSUME NEW i \in Inodes, frozen[i] # 0
                 PROVE  handleLoc'[frozen[i]] # NoData /\ chunkLoc[handleLoc'[frozen[i]]] # 0
    BY <1>1 DEF FrozenLocated
  <2>2. frozen[i] \in Handles /\ frozen[i] \notin DOMAIN index'
    <3>1. frozen[i] \in 0..MaxHandle /\ frozen[i] \notin DOMAIN index
      BY DEF BookInv, MapInv, MapTypes, FrozenOut
    <3> QED  BY <1>5, <1>6, <2>1, <3>1 DEF Handles
  <2>3. handleLoc'[frozen[i]] = handleLoc[frozen[i]]
    BY <1>1, <1>10, <2>2
  <2> QED  BY <2>1, <2>3 DEF BodyInv, FrozenLocated
<1>13. PacksCut'
  BY <1>1, <1>2, <1>6, <1>9, CutsStill DEF BodyInv
<1> QED  BY <1>11, <1>12, <1>13 DEF BodyInv

(* A step that leaves the cells, the index and the chunks alone, drops no  *)
(* location that is named after it, and names nothing new but what a       *)
(* checkpoint freezes.                                                     *)
LEMMA BodyKept ==
    ASSUME BookInv, BodyInv, NewOnly, UNCHANGED <<cell, index, chunkLoc>>,
           \A x \in Handles : \A i \in Inodes :
              x \notin DOMAIN index /\ (content'[i] = x \/ frozen'[i] = x) => handleLoc'[x] = handleLoc[x],
           \A i \in Inodes : \/ content'[i] = content[i] /\ written'[i] = written[i]
                             \/ content'[i] = 0 /\ written'[i] = NoData,
           \A i \in Inodes : frozen'[i] # 0 =>
              frozen'[i] = frozen[i] \/ (frozen'[i] = content[i] /\ content[i] \notin DOMAIN index)
    PROVE  BodyInv'
<1>1. /\ content \in [Inodes -> 0..MaxHandle] /\ frozen \in [Inodes -> 0..MaxHandle]
      /\ \A i \in Inodes : frozen[i] \notin DOMAIN index
      /\ DOMAIN index \subseteq Handles /\ 0 \notin Handles /\ \A x \in 0..MaxHandle : x # 0 => x \in Handles
  BY DEF BookInv, MapInv, MapTypes, FrozenOut, Handles
<1>2. \A i \in Inodes :
          /\ (content[i] = 0) = (written[i] = NoData)
          /\ content[i] \in DOMAIN index => At(index[content[i]]).d = written[i]
          /\ content[i] # 0 /\ content[i] \notin DOMAIN index =>
                handleLoc[content[i]] = written[i] /\ chunkLoc[written[i]] # 0
  BY DEF BodyInv, Files
<1>3. Files'
  <2>1. SUFFICES ASSUME NEW i \in Inodes
        PROVE  /\ (content'[i] = 0) = (written'[i] = NoData)
               /\ content'[i] \in DOMAIN index' => cell'[index'[content'[i]] % RingSize].d = written'[i]
               /\ content'[i] # 0 /\ content'[i] \notin DOMAIN index' =>
                     handleLoc'[content'[i]] = written'[i] /\ chunkLoc'[written'[i]] # 0
    BY DEF Files, At
  <2>2. CASE content'[i] = 0 /\ written'[i] = NoData
    BY <1>1, <2>2
  <2>3. CASE content'[i] = content[i] /\ written'[i] = written[i]
    <3>1. content[i] # 0 => content[i] \in Handles
      BY <1>1
    <3>2. content[i] # 0 /\ content[i] \notin DOMAIN index => handleLoc'[content[i]] = handleLoc[content[i]]
      BY <2>3, <3>1
    <3> QED  BY <1>2, <2>3, <3>2 DEF At
  <2> QED  BY <2>2, <2>3
<1>4. FrozenLocated'
  <2>1. SUFFICES ASSUME NEW i \in Inodes, frozen'[i] # 0
                 PROVE  handleLoc'[frozen'[i]] # NoData /\ chunkLoc[handleLoc'[frozen'[i]]] # 0
    BY DEF FrozenLocated
  <2>2. frozen'[i] \in Handles /\ frozen'[i] \notin DOMAIN index
    BY <1>1, <2>1
  <2>3. handleLoc'[frozen'[i]] = handleLoc[frozen'[i]]
    BY <2>2
  <2>4. CASE frozen'[i] = frozen[i]
    BY <2>1, <2>3, <2>4 DEF BodyInv, FrozenLocated
  <2>5. CASE frozen'[i] = content[i] /\ content[i] \notin DOMAIN index
    BY <1>2, <2>1, <2>3, <2>5
  <2> QED  BY <2>1, <2>4, <2>5
<1>5. PacksCut'
  <2>1. \A h \in DOMAIN index : h \in DOMAIN index' /\ At(index[h]).d = cell'[index'[h] % RingSize].d
    BY DEF At
  <2> QED  BY <2>1, CutsStill DEF BodyInv
<1> QED  BY <1>3, <1>4, <1>5 DEF BodyInv

(* A file is forgotten.                                                    *)
LEMMA BodyForget ==
    ASSUME BookInv, BodyInv, NEW ino \in Inodes, Forget(ino)
    PROVE  BodyInv'
<1> DEFINE dom == DOMAIN index
<1>1. /\ UNCHANGED <<cell, index, chunkLoc, frozen, runs>> /\ content[ino] # 0
      /\ content' = [content EXCEPT ![ino] = 0] /\ written' = [written EXCEPT ![ino] = NoData]
      /\ Apply(DOMAIN index, live, Release1(content[ino]))
  BY DEF Forget, ring, pipe
<1>2. content \in [Inodes -> 0..MaxHandle] /\ DOMAIN written = Inodes
  BY DEF BookInv, MapInv, MapTypes, WaitInv, WaitTypes
<1>3. PICK to \in 0..MaxHandle : to = 0
  BY Typed
<1>4. dom = DOMAIN index /\ Apply(dom, live, Release1(content[ino]))
  BY <1>1
<1> HIDE DEF dom
<1>5. \A x \in Handles : \A i \in Inodes :
          x \notin DOMAIN index /\ (content'[i] = x \/ frozen'[i] = x) => handleLoc'[x] = handleLoc[x]
  <2>1. TAKE x \in Handles
  <2>2. TAKE i \in Inodes
  <2>3. HAVE x \notin DOMAIN index /\ (content'[i] = x \/ frozen'[i] = x)
  <2>4. x \notin dom /\ DOMAIN index \subseteq dom /\ to # content[ino]
        /\ content' = [content EXCEPT ![ino] = to] /\ frozen' = frozen /\ (to \in dom \/ to = 0)
    BY <1>1, <1>3, <1>4, <2>3
  <2> QED  BY <1>3, <1>4, <2>3, <2>4, OthersKept
<1>6. \A i \in Inodes : \/ content'[i] = content[i] /\ written'[i] = written[i]
                        \/ content'[i] = 0 /\ written'[i] = NoData
  BY <1>1, <1>2
<1>7. NewOnly /\ \A i \in Inodes : frozen'[i] = frozen[i]
  BY <1>1 DEF NewOnly
<1> QED  BY <1>1, <1>5, <1>6, <1>7, BodyKept

(* A checkpoint freezes what files name, none of it in the ring.           *)
LEMMA BodyFreeze ==
    ASSUME BookInv, BodyInv, Freeze
    PROVE  BodyInv'
<1>1. /\ UNCHANGED <<cell, index, chunkLoc, content, runs, written>>
      /\ \/ UNCHANGED <<frozen, handleLoc>>
         \/ ~NamedInRing /\ frozen' = content /\ Apply(DOMAIN index, live, Held(content))
  BY DEF Freeze, ring, pipe, bounds
<1>2. NewOnly
  BY <1>1 DEF NewOnly
<1>3. CASE UNCHANGED <<frozen, handleLoc>>
  BY <1>1, <1>2, <1>3, BodyQuiet
<1>4. CASE ~NamedInRing /\ frozen' = content /\ Apply(DOMAIN index, live, Held(content))
  <2> DEFINE dom == DOMAIN index
             d   == Held(content)
  <2>1. \A x \in Handles : d[x] \in Nat
    BY CountIsNat DEF Held
  <2>2. Apply(dom, live, d) /\ dom = DOMAIN index
    BY <1>4
  <2> HIDE DEF dom, d
  <2>3. \A x \in Handles : x \notin DOMAIN index => handleLoc'[x] = handleLoc[x]
    <3>1. TAKE x \in Handles
    <3>2. HAVE x \notin DOMAIN index
    <3>3. d[x] \in Int /\ (d[x] # 0 => Count(x) + d[x] > 0)
      BY <2>1, CountsAreNat
    <3> QED  BY <2>2, <3>2, <3>3, KeptLocation
  <2>4. \A i \in Inodes : content[i] \notin DOMAIN index
    BY <1>4 DEF NamedInRing
  <2>5. \A i \in Inodes : frozen'[i] = content[i] /\ content'[i] = content[i] /\ written'[i] = written[i]
    BY <1>1, <1>4
  <2> QED  BY <1>1, <1>2, <2>3, <2>4, <2>5, BodyKept
<1> QED  BY <1>1, <1>3, <1>4

(* It lets its view go, and what files name keeps its location.            *)
LEMMA BodyRelease ==
    ASSUME BookInv, BodyInv, Release
    PROVE  BodyInv'
<1> DEFINE dom == DOMAIN index
           d   == [h \in Handles |-> -Held(frozen)[h]]
<1>1. /\ UNCHANGED <<cell, index, chunkLoc, content, runs, written>>
      /\ frozen' = NoView /\ Apply(dom, live, d)
  BY DEF Release, ring, pipe, bounds
<1>2. NewOnly
  BY <1>1 DEF NewOnly
<1>3. \A x \in Handles : d[x] = -Cardinality(Holding(x)) /\ Cardinality(Holding(x)) \in Nat
  BY CountIsNat DEF Held, Holding
<1>4. dom = DOMAIN index
  OBVIOUS
<1> HIDE DEF dom, d
<1>5. \A x \in Handles : \A i \in Inodes :
          x \notin DOMAIN index /\ (content'[i] = x \/ frozen'[i] = x) => handleLoc'[x] = handleLoc[x]
  <2>1. TAKE x \in Handles
  <2>2. TAKE i \in Inodes
  <2>3. HAVE x \notin DOMAIN index /\ (content'[i] = x \/ frozen'[i] = x)
  <2>4. content[i] = x
    BY <1>1, <2>3 DEF NoView, Handles
  <2>5. IsFiniteSet(Naming(x)) /\ Cardinality(Naming(x)) \in Nat /\ i \in Naming(x)
    BY <2>4, CountIsNat DEF Naming
  <2>6. Cardinality(Naming(x)) # 0
    BY <2>5, FS_EmptySet
  <2>7. d[x] \in Int /\ Count(x) + d[x] > 0
    BY <1>3, <2>5, <2>6 DEF Count
  <2> QED  BY <1>1, <1>4, <2>3, <2>7, KeptLocation
<1>6. \A i \in Inodes : frozen'[i] = 0 /\ content'[i] = content[i] /\ written'[i] = written[i]
  BY <1>1 DEF NoView
<1> QED  BY <1>1, <1>2, <1>5, <1>6, BodyKept

(* A publication gives every extent some file names the chunk that was     *)
(* read for it, and every chunk it placed its pack.                        *)
LEMMA BodyPublish ==
    ASSUME BookInv, BodyInv, NEW b \in DOMAIN runs, Publish(b)
    PROVE  BodyInv'
<1> DEFINE r == runs[b]
<1>1. /\ UNCHANGED <<cell, content, frozen, written>> /\ r.phase = "packed"
      /\ handleLoc' = [h \in Handles |-> IF h \notin r.plan THEN handleLoc[h]
                                         ELSE IF live[h] > 0 THEN r.loc[h] ELSE NoData]
      /\ chunkLoc' = [c \in Data |-> IF c \in r.stored THEN r.pack ELSE chunkLoc[c]]
      /\ index' = [h \in DOMAIN index \ r.recs |-> index[h]]
      /\ runs' = [runs EXCEPT ![b].phase = "published"]
  BY DEF Publish, InRun, ring, bounds
<1>2. /\ r.recs \subseteq DOMAIN index /\ r.plan \subseteq r.recs
      /\ \A i \in Inodes : content[i] \in r.recs => content[i] \in r.plan
  BY <1>1 DEF BookInv, RunInv, RunTakes, Active
<1>3. /\ r.stored # {} => r.pack # 0
      /\ \A h \in r.plan : /\ r.loc[h] = At(index[h]).d /\ r.loc[h] \in Data
                           /\ chunkLoc[r.loc[h]] # 0 \/ r.loc[h] \in r.stored
  BY <1>1 DEF BodyInv, PacksCut, CutRight
<1>4. /\ content \in [Inodes -> 0..MaxHandle] /\ frozen \in [Inodes -> 0..MaxHandle]
      /\ \A i \in Inodes : frozen[i] \notin DOMAIN index
      /\ DOMAIN index \subseteq Handles /\ \A x \in 0..MaxHandle : x # 0 => x \in Handles
      /\ handleLoc \in [Handles -> Bodies] /\ written \in [Inodes -> Bodies]
      /\ \A c \in Bodies : c # NoData => c \in Data
  BY DEF BookInv, MapInv, MapTypes, FrozenOut, Handles, WaitInv, WaitTypes, Bodies
<1>5. \A i \in Inodes : content[i] \in DOMAIN index => live[content[i]] > 0
  <2>1. \A x \in DOMAIN index : live[x] = Count(x)
    BY DEF BookInv, MapInv, Counted
  <2> QED  BY <2>1, Referenced
<1>6. runs'[b].phase = "published" /\ runs'[b].stored = r.stored /\ runs'[b].pack = r.pack
      /\ DOMAIN runs' = DOMAIN runs /\ \A x \in DOMAIN runs : x # b => runs'[x] = runs[x]
  BY <1>1, AnyRun DEF RunOf
<1> HIDE DEF r
<1>7. \A c \in Data : chunkLoc[c] # 0 \/ c \in r.stored => chunkLoc'[c] # 0
  BY <1>1, <1>3
<1>8. /\ DOMAIN index' = DOMAIN index \ r.recs
      /\ \A x \in DOMAIN index' : index'[x] = index[x]
  BY <1>1
<1>9. \A x \in Handles \ DOMAIN index : handleLoc'[x] = handleLoc[x]
  BY <1>1, <1>2
<1>10. Files'
  <2>1. SUFFICES ASSUME NEW i \in Inodes
        PROVE  /\ (content[i] = 0) = (written[i] = NoData)
               /\ content[i] \in DOMAIN index' => cell[index'[content[i]] % RingSize].d = written[i]
               /\ content[i] # 0 /\ content[i] \notin DOMAIN index' =>
                     handleLoc'[content[i]] = written[i] /\ chunkLoc'[written[i]] # 0
    BY <1>1 DEF Files, At
  <2>2. /\ (content[i] = 0) = (written[i] = NoData)
        /\ content[i] \in DOMAIN index => At(index[content[i]]).d = written[i]
        /\ content[i] # 0 /\ content[i] \notin DOMAIN index =>
              handleLoc[content[i]] = written[i] /\ chunkLoc[written[i]] # 0
    BY DEF BodyInv, Files
  <2>3. content[i] \in DOMAIN index' => cell[index'[content[i]] % RingSize].d = written[i]
    BY <1>8, <2>2 DEF At
  <2>4. ASSUME content[i] # 0, content[i] \notin DOMAIN index'
        PROVE  handleLoc'[content[i]] = written[i] /\ chunkLoc'[written[i]] # 0
    <3>1. written[i] \in Data /\ content[i] \in Handles
      BY <1>4, <2>2, <2>4
    <3>2. CASE content[i] \notin DOMAIN index
      BY <1>7, <1>9, <2>2, <2>4, <3>1, <3>2
    <3>3. CASE content[i] \in r.recs
      <4>1. content[i] \in r.plan /\ content[i] \in DOMAIN index
        BY <1>2, <3>3
      <4>2. handleLoc'[content[i]] = r.loc[content[i]]
        BY <1>1, <1>5, <3>1, <4>1
      <4>3. r.loc[content[i]] = written[i] /\ (chunkLoc[written[i]] # 0 \/ written[i] \in r.stored)
        BY <1>3, <2>2, <4>1
      <4> QED  BY <1>7, <3>1, <4>2, <4>3
    <3> QED  BY <1>8, <2>4, <3>2, <3>3
  <2> QED  BY <2>2, <2>3, <2>4
<1>11. FrozenLocated'
  <2>1. SUFFICES ASSUME NEW i \in Inodes, frozen[i] # 0
                 PROVE  handleLoc'[frozen[i]] # NoData /\ chunkLoc'[handleLoc'[frozen[i]]] # 0
    BY <1>1 DEF FrozenLocated
  <2>2. frozen[i] \in Handles \ DOMAIN index
    BY <1>4, <2>1
  <2>3. handleLoc[frozen[i]] # NoData /\ chunkLoc[handleLoc[frozen[i]]] # 0
    BY <2>1 DEF BodyInv, FrozenLocated
  <2>4. handleLoc[frozen[i]] \in Data
    BY <1>4, <2>2, <2>3
  <2> QED  BY <1>7, <1>9, <2>2, <2>3, <2>4
<1>12. PacksCut'
  <2>1. SUFFICES ASSUME NEW x \in DOMAIN runs' PROVE CutRight(runs[x])'
    BY <1>6 DEF PacksCut
  <2>2. runs'[x].phase \notin Active
    <3>1. x # b => runs[x].phase \notin Active
      BY <1>1 DEF r, BookInv, RunInv, OneRun, Active
    <3> QED  BY <1>6, <3>1 DEF Active
  <2>3. runs'[x].stored # {} => runs'[x].pack # 0
    BY <1>3, <1>6 DEF BodyInv, PacksCut, CutRight
  <2> QED  BY <2>2, <2>3 DEF CutRight, Active
<1> QED  BY <1>10, <1>11, <1>12 DEF BodyInv

(* A step that is not a crash keeps every body where reads find it.        *)
LEMMA BodyStep ==
    ASSUME BookInv, Aligned, CellsFull, BodyInv, Next, ~Crash
    PROVE  BodyInv'
<1>1. CellsStand
  BY DEF Aligned, Standing
<1>2. ASSUME UNCHANGED <<cell, index, content, written, frozen, handleLoc, chunkLoc, runs>> PROVE BodyInv'
  <2>1. NewOnly
    BY <1>2 DEF NewOnly
  <2> QED  BY <1>2, <2>1, BodyQuiet
<1>3. ASSUME NEW w \in Writers, Write(w) PROVE BodyInv'
  <2>1. w \in waiting \/ (OverlayFree /\ nextHandle <= MaxHandle)
    BY <1>3 DEF Write
  <2>2. CASE \E ino \in Inodes, d \in Data : Place(w, ino, d)
    BY <2>1, <2>2, BodyPlace
  <2>3. CASE Block(w)
    <3>1. UNCHANGED <<cell, index, content, written, frozen, handleLoc, chunkLoc>>
      BY <2>3 DEF Block, ring, maps, bounds
    <3>2. \/ UNCHANGED <<packing, runs>>
          \/ StartPack(Cut(index, order, head, 0), index, order)
      BY <2>3 DEF Block
    <3>3. NewOnly
      BY <3>2, Started
    <3> QED  BY <3>1, <3>3, BodyQuiet
  <2>4. CASE Refuse(w)
    BY <1>2, <2>4 DEF Refuse, ring, maps, pipe, bounds
  <2> QED  BY <1>3, <2>2, <2>3, <2>4 DEF Write
<1>4. ASSUME NEW ino \in Inodes, Forget(ino) PROVE BodyInv'
  BY <1>4, BodyForget
<1>5. ASSUME NEW r \in Readers, EndRead(r) \/ \E ino \in Inodes : BeginRead(r, ino) PROVE BodyInv'
  BY <1>2, <1>5 DEF EndRead, BeginRead, ring, maps, pipe, bounds
<1>6. ASSUME NEW b \in DOMAIN runs, Snapshot(b) \/ ChunkAndPack(b) \/ Publish(b) \/ Journal(b) \/ Settle(b)
      PROVE  BodyInv'
  BY <1>1, <1>6, BodyRun, BodyPublish
<1>7. ASSUME NEW p \in DOMAIN packs, UploadEnds(p) PROVE BodyInv'
  BY <1>2, <1>7 DEF UploadEnds, ring, maps, pipe
<1>8. CASE Flush
  <2>1. UNCHANGED <<cell, index, content, written, frozen, handleLoc, chunkLoc>>
    BY <1>8 DEF Flush, ring, maps, bounds
  <2>2. PICK at \in {"pack", "locate"}, err \in {locateErr, flushErr} : FlushFrom(at, err)
    BY <1>8 DEF Flush, BeginFlush
  <2>3. \/ UNCHANGED <<packing, runs>>
        \/ StartPack(Cut(index, order, head, 0), index, order)
    BY <2>2, FlushTurn
  <2>4. NewOnly
    BY <2>3, Started
  <2> QED  BY <2>1, <2>4, BodyQuiet
<1>9. CASE Drain \/ Finish
  BY <1>2, <1>9 DEF Drain, Finish, ring, maps, pipe, bounds
<1> QED  BY <1>3, <1>4, <1>5, <1>6, <1>7, <1>8, <1>9, BodyFreeze, BodyRelease DEF Next

(* A record is copied with a body, or not at all.                          *)
LEMMA FullStep ==
    ASSUME BookInv, CellsFull, [Next]_vars
    PROVE  CellsFull'
<1>1. cell \in [0..RingSize - 1 -> Cells] /\ head \in Nat /\ head % RingSize \in 0..RingSize - 1
  <2>1. head \in Nat
    BY Typed
  <2> QED  BY <2>1, CellOf DEF BookInv, RingTypes
<1> DEFINE o1 == head % RingSize
<1>2. ASSUME cell' = cell PROVE CellsFull'
  BY <1>2 DEF CellsFull
<1>3. ASSUME NEW h, NEW d \in Data, NEW s, cell' = [cell EXCEPT ![o1] = [h |-> h, d |-> d, seq |-> s]]
      PROVE  CellsFull'
  <2>1. cell'[o1].d = d /\ \A o \in 0..RingSize - 1 : o # o1 => cell'[o] = cell[o]
    BY <1>1, <1>3
  <2> HIDE DEF o1
  <2> QED  BY <2>1 DEF CellsFull
<1>4. ASSUME cell' = [cell EXCEPT ![o1] = Empty] PROVE CellsFull'
  <2>1. cell'[o1].h = 0 /\ \A o \in 0..RingSize - 1 : o # o1 => cell'[o] = cell[o]
    BY <1>1, <1>4 DEF Empty
  <2> HIDE DEF o1
  <2> QED  BY <2>1 DEF CellsFull
<1> HIDE DEF o1
<1>5. CASE Crash
  <2>1. \/ cell' = cell \/ cell' = [cell EXCEPT ![o1] = Empty]
        \/ \E d \in Data : cell' = [cell EXCEPT ![o1] = [h |-> nextHandle, d |-> d, seq |-> seq]]
    BY <1>5 DEF Crash, Recover, o1
  <2> QED  BY <1>2, <1>3, <1>4, <2>1
<1>6. ASSUME NEW w \in Writers, NEW ino \in Inodes, NEW d \in Data, Place(w, ino, d) PROVE CellsFull'
  <2>1. cell' = [cell EXCEPT ![o1] = [h |-> nextHandle, d |-> d, seq |-> seq]]
    BY <1>6 DEF Place, o1
  <2> QED  BY <1>3, <2>1
<1>7. ASSUME NEW w \in Writers, Write(w) PROVE CellsFull'
  BY <1>2, <1>6, <1>7 DEF Write, Block, Refuse, ring
<1>8. ASSUME NEW ino \in Inodes, Forget(ino) PROVE cell' = cell
  BY <1>8 DEF Forget, ring
<1>9. ASSUME NEW r \in Readers, EndRead(r) \/ \E ino \in Inodes : BeginRead(r, ino) PROVE cell' = cell
  BY <1>9 DEF EndRead, BeginRead, ring
<1>10. ASSUME NEW b \in DOMAIN runs, Snapshot(b) \/ ChunkAndPack(b) \/ Publish(b) \/ Journal(b) \/ Settle(b)
       PROVE  cell' = cell
  BY <1>10 DEF Snapshot, ChunkAndPack, Publish, Journal, Settle, ring
<1>11. ASSUME NEW p \in DOMAIN packs, UploadEnds(p) PROVE cell' = cell
  BY <1>11 DEF UploadEnds, ring
<1>12. ASSUME Flush \/ Drain \/ Freeze \/ Finish \/ Release \/ UNCHANGED vars PROVE cell' = cell
  BY <1>12 DEF Flush, Drain, Freeze, Finish, Release, ring, vars
<1> QED  BY <1>2, <1>5, <1>7, <1>8, <1>9, <1>10, <1>11, <1>12 DEF Next
-----------------------------------------------------------------------------
(* Bodies: the first crash.                                                *)

(* The walk over the cells that were left comes to the head.               *)
LEMMA WalksToHead ==
    ASSUME BookInv, Room, SeqAscends, NEW cells,
           \A pos \in tail..head - 1 : cells[pos % RingSize] = cell[pos % RingSize]
    PROVE  head - tail <= Walk(cells)
<1> DEFINE n == head - tail
<1>1. head \in Nat /\ tail \in Nat /\ tail <= head /\ RingSize \in Nat /\ n \in 0..RingSize
  BY Typed DEF Room
<1>2. \A pos \in tail..head - 1 :
          /\ cells[pos % RingSize].h # 0
          /\ pos > tail => cells[pos % RingSize].seq > cells[(pos - 1) % RingSize].seq
  <2>1. TAKE pos \in tail..head - 1
  <2>2. cells[pos % RingSize].h # 0
    BY DEF SeqAscends, At
  <2>3. ASSUME pos > tail PROVE cells[pos % RingSize].seq > cells[(pos - 1) % RingSize].seq
    <3> DEFINE prev == pos - 1
    <3>1. prev \in tail..head - 1 /\ prev + 1 < head /\ prev + 1 = pos /\ prev \in Nat /\ pos \in Nat
      BY <1>1, <2>3
    <3>2. /\ prev % RingSize \in 0..RingSize - 1 /\ pos % RingSize \in 0..RingSize - 1
          /\ cell \in [0..RingSize - 1 -> Cells]
      BY <3>1, CellOf DEF BookInv, RingTypes
    <3>3. cell[prev % RingSize].seq \in Nat /\ cell[pos % RingSize].seq \in Nat
      BY <3>2 DEF Cells
    <3> HIDE DEF prev
    <3>4. cell[prev % RingSize].seq < cell[(prev + 1) % RingSize].seq
      BY <3>1 DEF SeqAscends, At
    <3>5. cell[prev % RingSize].seq < cell[pos % RingSize].seq
      BY <3>1, <3>4
    <3>6. cells[prev % RingSize] = cell[prev % RingSize] /\ cells[pos % RingSize] = cell[pos % RingSize]
      BY <3>1
    <3>7. cells[pos % RingSize].seq > cells[prev % RingSize].seq
      BY <3>3, <3>5, <3>6
    <3> QED  BY <3>7 DEF prev
  <2> QED  BY <2>2, <2>3
<1>3. \A k \in 0..n - 1 :
          /\ cells[(tail + k) % RingSize].h # 0
          /\ k > 0 => cells[(tail + k) % RingSize].seq > cells[(tail + (k - 1)) % RingSize].seq
  <2>1. TAKE k \in 0..n - 1
  <2>2. tail + k \in tail..head - 1 /\ (k > 0 => tail + k > tail) /\ (tail + k) - 1 = tail + (k - 1)
    BY <1>1
  <2>3. /\ cells[(tail + k) % RingSize].h # 0
        /\ tail + k > tail => cells[(tail + k) % RingSize].seq > cells[((tail + k) - 1) % RingSize].seq
    BY <1>2, <2>2
  <2> QED  BY <2>2, <2>3
<1> HIDE DEF n
<1>4. n <= Walk(cells)
  BY <1>1, <1>3, Walked
<1> QED  BY <1>4 DEF n

(* The cells a crash leaves are those of the ring, and one more that no    *)
(* file names.                                                             *)
LEMMA CellsLeft ==
    ASSUME BookInv, Room, Crash
    PROVE  \E cells \in [0..RingSize - 1 -> Cells] :
              /\ Recover(cells)
              /\ \A pos \in tail..head - 1 : cells[pos % RingSize] = cell[pos % RingSize]
              /\ \A o \in 0..RingSize - 1 : \A ino \in Inodes :
                    content[ino] # 0 /\ cells[o].h = content[ino] => cells[o] = cell[o]
<1>1. PICK cells \in [0..RingSize - 1 -> Cells] :
          /\ Recover(cells)
          /\ \/ cells = cell
             \/ ~Full /\ cells = [cell EXCEPT ![head % RingSize] = Empty]
             \/ /\ ~Full /\ nextHandle <= MaxHandle
                /\ \E d \in Data : cells = [cell EXCEPT ![head % RingSize] =
                                              [h |-> nextHandle, d |-> d, seq |-> seq]]
  BY CellsFound
<1>2. /\ cell \in [0..RingSize - 1 -> Cells] /\ head \in Nat /\ tail \in Nat /\ tail <= head
      /\ RingSize \in Nat /\ RingSize > 0 /\ nextHandle \in Nat
  BY Typed DEF BookInv, RingTypes
<1>3. \A ino \in Inodes : content[ino] # nextHandle
  <2>1. \A ino \in Inodes : content[ino] < nextHandle
    BY DEF BookInv, MapInv, Below
  <2> QED  BY <1>2, <2>1
<1> DEFINE o1 == head % RingSize
<1>4. o1 \in 0..RingSize - 1
  BY <1>2, CellOf
<1>5. ASSUME NEW e, ~Full, cells = [cell EXCEPT ![o1] = e], e.h = 0 \/ e.h = nextHandle
      PROVE  /\ \A pos \in tail..head - 1 : cells[pos % RingSize] = cell[pos % RingSize]
             /\ \A o \in 0..RingSize - 1 : \A ino \in Inodes :
                   content[ino] # 0 /\ cells[o].h = content[ino] => cells[o] = cell[o]
  <2>1. \A pos \in tail..head - 1 : pos % RingSize # o1
    <3>1. TAKE pos \in tail..head - 1
    <3>2. pos \in Int /\ head \in Int /\ pos < head /\ head - pos < RingSize
      BY <1>2, <1>5 DEF Full
    <3> QED  BY <1>2, <3>2, CellsApart
  <2>2. cells[o1] = e /\ \A o \in 0..RingSize - 1 : o # o1 => cells[o] = cell[o]
    BY <1>2, <1>4, <1>5
  <2>3. \A pos \in tail..head - 1 : pos % RingSize \in 0..RingSize - 1
    BY <1>2, CellOf
  <2> HIDE DEF o1
  <2> QED  BY <1>3, <1>5, <2>1, <2>2, <2>3
<1>6. CASE cells = cell
  BY <1>1, <1>6
<1>7. CASE ~Full /\ cells = [cell EXCEPT ![o1] = Empty]
  <2>1. Empty.h = 0
    BY DEF Empty
  <2> HIDE DEF o1
  <2> QED  BY <1>1, <1>5, <1>7, <2>1
<1>8. ASSUME ~Full, NEW d \in Data, cells = [cell EXCEPT ![o1] = [h |-> nextHandle, d |-> d, seq |-> seq]]
      PROVE  /\ \A pos \in tail..head - 1 : cells[pos % RingSize] = cell[pos % RingSize]
             /\ \A o \in 0..RingSize - 1 : \A ino \in Inodes :
                   content[ino] # 0 /\ cells[o].h = content[ino] => cells[o] = cell[o]
  <2> DEFINE e == [h |-> nextHandle, d |-> d, seq |-> seq]
  <2>1. e.h = nextHandle /\ cells = [cell EXCEPT ![o1] = e]
    BY <1>8
  <2> HIDE DEF o1, e
  <2> QED  BY <1>5, <1>8, <2>1
<1> QED  BY <1>1, <1>6, <1>7, <1>8

(* The first recovery finds the body of every file, in its cell or by its  *)
(* rows in the journal.                                                    *)
LEMMA BodyCrash ==
    ASSUME BookInv, Aligned, CellsDistinct, BodyInv, FirstInv, Crash
    PROVE  BodyInv'
<1>1. PICK cells \in [0..RingSize - 1 -> Cells] :
          /\ Recover(cells)
          /\ \A pos \in tail..head - 1 : cells[pos % RingSize] = cell[pos % RingSize]
          /\ \A o \in 0..RingSize - 1 : \A ino \in Inodes :
                content[ino] # 0 /\ cells[o].h = content[ino] => cells[o] = cell[o]
  BY CellsLeft DEF Aligned
<1> DEFINE n     == Walk(cells)
           C(k)  == cells[(tail + k) % RingSize]
           found == {C(k).h : k \in 0..n - 1}
           known == found \cup {h \in Handles : jHandles[h] # NoData}
<1>2. /\ cell' = cells /\ handleLoc' = jHandles /\ chunkLoc' = jChunks /\ DOMAIN index' = found
      /\ content' = [ino \in Inodes |-> IF content[ino] \in known THEN content[ino] ELSE 0]
  BY <1>1 DEF Recover
<1>3. tail' = tail /\ runs' = << >> /\ frozen' = NoView /\ written' = written
  BY DEF Crash
<1>4. /\ head \in Nat /\ tail \in Nat /\ tail <= head /\ RingSize \in Nat /\ RingSize > 0
      /\ \A h \in DOMAIN index : index[h] \in 0..head - 1
  BY Typed
<1>5. head - tail <= n
  BY <1>1, WalksToHead DEF Aligned, FirstInv, Recoverable
<1>6. n \in Nat /\ \A k \in 0..n - 1 : C(k).h # 0
  BY Walked
<1> HIDE DEF n
<1>7. \A pos \in tail..head - 1 : At(pos).h \in found
  <2>1. TAKE pos \in tail..head - 1
  <2>2. pos - tail \in 0..n - 1 /\ tail + (pos - tail) = pos
    BY <1>4, <1>5, <1>6
  <2>3. C(pos - tail).h \in found
    BY <2>2
  <2>4. C(pos - tail) = cells[pos % RingSize]
    BY <2>2
  <2> HIDE DEF C, found
  <2> QED  BY <1>1, <2>3, <2>4 DEF At
<1>8. /\ content \in [Inodes -> 0..MaxHandle] /\ \A x \in 0..MaxHandle : x # 0 => x \in Handles
  BY DEF BookInv, MapInv, MapTypes, Handles
<1>9. 0 \notin found
  BY <1>6
<1> HIDE DEF C, found
<1>10. \A ino \in Inodes : content[ino] \in DOMAIN index => content[ino] \in found
  <2>1. \A h \in DOMAIN index : index[h] \in tail..head - 1 /\ At(index[h]).h = h
    BY <1>4 DEF Aligned, Standing, CellsStand
  <2> QED  BY <1>7, <2>1
<1>11. \A x : RowDue(x) => x \in found
  BY <1>7 DEF RowDue, InPlace
<1>12. \A x : \A c : ChunkDue(x, c) => x \in found
  BY <1>7 DEF ChunkDue, InPlace
<1>13. \A ino \in Inodes : content[ino] # 0 /\ content[ino] \notin found =>
           jHandles[content[ino]] = written[ino] /\ jHandles[content[ino]] # NoData /\ jChunks[written[ino]] # 0
  <2>1. TAKE ino \in Inodes
  <2>2. HAVE content[ino] # 0 /\ content[ino] \notin found
  <2>3. PICK x \in Handles, c \in Data : content[ino] = x /\ written[ino] = c
    <3>1. written[ino] \in Bodies /\ written[ino] # NoData
      BY <2>2 DEF BodyInv, Files, BookInv, WaitInv, WaitTypes
    <3> QED  BY <1>8, <2>2, <3>1 DEF Bodies
  <2>4. /\ jHandles[x] # NoData \/ RowDue(x)
        /\ jChunks[c] # 0 \/ ChunkDue(x, c)
    BY <1>10, <2>2, <2>3 DEF FirstInv, Recoverable, Durable
  <2>5. jHandles[x] # NoData /\ jChunks[c] # 0
    BY <1>11, <1>12, <2>2, <2>3, <2>4
  <2> QED  BY <2>2, <2>3, <2>5 DEF FirstInv, Recoverable, RowsMatch
<1>14. \A ino \in Inodes : content'[ino] = content[ino]
  <2>1. \A ino \in Inodes : content[ino] # 0 => content[ino] \in known
    BY <1>8, <1>13
  <2> QED  BY <1>2, <2>1
<1>15. CellsStand'
  BY CrashAligned DEF Aligned, Standing
<1>16. \A ino \in Inodes : content[ino] \in found => cells[index'[content[ino]] % RingSize].d = written[ino]
  <2>1. TAKE ino \in Inodes
  <2>2. HAVE content[ino] \in found
  <2> DEFINE x == content[ino]
             o == index'[x] % RingSize
  <2>3. cells[o].h = x /\ tail <= index'[x]
    BY <1>2, <1>3, <1>15, <2>2 DEF CellsStand, At
  <2>4. o \in 0..RingSize - 1
    <3>0. Next
      BY DEF Next
    <3>1. BookInv'
      BY <3>0, BookStep
    <3>2. index'[x] \in Nat
      BY <1>2, <2>2, <3>1 DEF BookInv, MapInv, MapTypes
    <3> QED  BY <3>2, CellOf
  <2>5. x # 0
    BY <1>9, <2>2
  <2> HIDE DEF o
  <2>6. cells[o] = cell[o]
    BY <1>1, <2>3, <2>4, <2>5
  <2>7. cells[o].d = written[ino]
    BY <2>3, <2>4, <2>5, <2>6 DEF FirstInv, Recoverable, CellsMatch
  <2> QED  BY <2>7 DEF o
<1>17. Files'
  <2>1. SUFFICES ASSUME NEW ino \in Inodes
        PROVE  /\ (content[ino] = 0) = (written[ino] = NoData)
               /\ content[ino] \in found => cells[index'[content[ino]] % RingSize].d = written[ino]
               /\ content[ino] # 0 /\ content[ino] \notin found =>
                     jHandles[content[ino]] = written[ino] /\ jChunks[written[ino]] # 0
    BY <1>2, <1>3, <1>14 DEF Files, At
  <2>2. (content[ino] = 0) = (written[ino] = NoData)
    BY DEF BodyInv, Files
  <2> QED  BY <1>13, <1>16, <2>2
<1>18. FrozenLocated' /\ PacksCut'
  <2>1. DOMAIN runs' = {} /\ \A ino \in Inodes : frozen'[ino] = 0
    BY <1>3 DEF NoView
  <2> QED  BY <2>1 DEF FrozenLocated, PacksCut
<1> QED  BY <1>17, <1>18 DEF BodyInv
-----------------------------------------------------------------------------
(* Before the first crash: what the recovery needs.                        *)

(* The tail only moves on, and no further than it may.                     *)
LEMMA TailForward ==
    ASSUME BookInv, Aligned, Next, ~Crash
    PROVE  /\ tail' \in Nat /\ tail <= tail'
           /\ tail' = tail \/ tail' <= reclaimTo'
<1>1. /\ head \in Nat /\ tail \in 0..head /\ tail \in Nat /\ reclaimTo \in 0..head
      /\ reader \in [Readers -> [pos : -1..head - 1, h : 0..MaxHandle]]
  BY Typed DEF BookInv, RingTypes
<1>2. \A r \in Readers : /\ reader[r].pos \in Int /\ reader[r].pos <= head
                         /\ reader[r].pos >= 0 => tail <= reader[r].pos
  <2>1. \A r \in Readers : reader[r].pos \in -1..head - 1
    BY <1>1
  <2> QED  BY <1>1, <2>1 DEF Aligned, Standing, Pinned
<1>3. ASSUME tail' = tail
      PROVE  tail' \in Nat /\ tail <= tail' /\ (tail' = tail \/ tail' <= reclaimTo')
  BY <1>1, <1>3
<1>4. ASSUME NEW rd, NEW to \in 0..head, Reclaim(to, rd), to = reclaimTo',
             \A r \in Readers : rd[r].pos \in Int /\ rd[r].pos <= head /\ (rd[r].pos >= 0 => tail <= rd[r].pos)
      PROVE  tail' \in Nat /\ tail <= tail' /\ (tail' = tail \/ tail' <= reclaimTo')
  <2>1. /\ tail' \in 0..head /\ (tail' = tail \/ tail' <= to)
        /\ (\A r \in Readers : rd[r].pos >= 0 => tail <= rd[r].pos) => tail <= tail'
    BY <1>1, <1>4, Reclaimed
  <2> QED  BY <1>1, <1>4, <2>1
<1>5. ASSUME NEW r \in Readers, EndRead(r)
      PROVE  tail' \in Nat /\ tail <= tail' /\ (tail' = tail \/ tail' <= reclaimTo')
  <2> DEFINE rd == reader'
  <2>1. reader' = [reader EXCEPT ![r] = [pos |-> -1, h |-> 0]] /\ Reclaim(reclaimTo, rd) /\ reclaimTo' = reclaimTo
    BY <1>5 DEF EndRead
  <2>2. \A x \in Readers : rd[x] = reader[x] \/ rd[x].pos = -1
    BY <1>1, <2>1
  <2> HIDE DEF rd
  <2>3. \A x \in Readers : rd[x].pos \in Int /\ rd[x].pos <= head /\ (rd[x].pos >= 0 => tail <= rd[x].pos)
    <3>1. -1 \in Int /\ -1 <= head /\ ~(-1 >= 0)
      BY <1>1
    <3>2. TAKE x \in Readers
    <3>3. CASE rd[x] = reader[x]
      BY <1>2, <3>3
    <3>4. CASE rd[x].pos = -1
      BY <3>1, <3>4
    <3> QED  BY <2>2, <3>3, <3>4
  <2> QED  BY <1>1, <1>4, <2>1, <2>3
<1>6. ASSUME NEW b \in DOMAIN runs, Settle(b)
      PROVE  tail' \in Nat /\ tail <= tail' /\ (tail' = tail \/ tail' <= reclaimTo')
  <2> DEFINE to == reclaimTo'
  <2>1. Reclaim(to, reader)
    BY <1>6 DEF Settle
  <2>2. to \in 0..head
    <3>1. CASE runs[b].phase = "recorded"
      BY <1>6, <3>1, SettledDone
    <3>2. CASE runs[b].phase = "unrecorded"
      BY <1>1, <1>6, <3>2, SettledFailed
    <3> QED  BY <1>6, <3>1, <3>2 DEF Settle, InRun
  <2>3. to = reclaimTo'
    OBVIOUS
  <2> HIDE DEF to
  <2> QED  BY <1>2, <1>4, <2>1, <2>2, <2>3
<1>7. ASSUME NEW w \in Writers, Write(w) PROVE tail' = tail
  BY <1>7 DEF Write, Place, Block, Refuse
<1>8. ASSUME NEW r \in Readers, NEW ino \in Inodes, BeginRead(r, ino) PROVE tail' = tail
  BY <1>8 DEF BeginRead
<1>9. ASSUME NEW b \in DOMAIN runs, Snapshot(b) \/ ChunkAndPack(b) \/ Publish(b) \/ Journal(b)
      PROVE  tail' = tail
  BY <1>9 DEF Snapshot, ChunkAndPack, Publish, Journal
<1>10. ASSUME NEW p \in DOMAIN packs, UploadEnds(p) PROVE tail' = tail
  BY <1>10 DEF UploadEnds
<1>11. ASSUME NEW ino \in Inodes, Forget(ino) PROVE tail' = tail
  BY <1>11 DEF Forget
<1>12. ASSUME Flush \/ Drain \/ Freeze \/ Finish \/ Release PROVE tail' = tail
  BY <1>12 DEF Flush, Drain, Freeze, Finish, Release
<1> QED  BY <1>3, <1>5, <1>6, <1>7, <1>8, <1>9, <1>10, <1>11, <1>12 DEF Next

(* The runs whose rows are not in the journal are the same.                *)
SameUnrecorded ==
    /\ Unrecorded' = Unrecorded
    /\ \A b \in Unrecorded : /\ runs'[b].plan = runs[b].plan /\ runs'[b].loc = runs[b].loc
                             /\ runs'[b].stored = runs[b].stored

(* A number between two others is in their range.                          *)
LEMMA Within ==
    ASSUME NEW a \in Nat, NEW p \in Nat, NEW b \in Nat, a <= p, p < b
    PROVE  p \in a..b - 1
  OBVIOUS

(* The tail stays behind a record that is in its place.                    *)
LEMMA StillInPlace ==
    ASSUME BookInv, NEW h, NEW pos \in Nat, InPlace(h, pos), tail' \in Nat, tail <= tail',
           tail' = tail \/ tail' <= reclaimTo', head' \in Nat, head <= head', reclaimTo' \in Nat,
           reclaimTo' <= pos,
           cell'[pos % RingSize] = cell[pos % RingSize]
    PROVE  InPlace(h, pos)' /\ pos \in tail'..head' - 1
<1>1. pos \in tail..head - 1 /\ reclaimTo <= pos /\ At(pos).h = h
  BY DEF InPlace
<1>2. head \in Nat /\ tail \in Nat
  BY Typed
<1>3. pos \in tail'..head' - 1
  <2>1. pos \in Int /\ tail <= pos /\ pos <= head - 1
    BY <1>1, <1>2
  <2>2. tail' <= pos
    BY <1>2, <2>1
  <2>3. pos < head'
    BY <1>2, <2>1
  <2> QED  BY <2>2, <2>3, Within
<1>4. cell'[pos % RingSize].h = h
  BY <1>1 DEF At
<1> QED  BY <1>3, <1>4 DEF InPlace, At

(* What was due before a step is due after it, if every place that a row   *)
(* is due from stays, with what makes it due.                              *)
LEMMA StillDue ==
    ASSUME BookInv, NEW h,
           \A pos \in tail..head - 1 : InPlace(h, pos) => pos \in tail'..head' - 1 /\ InPlace(h, pos)',
           locateErr => locateErr',
           \A pos \in tail..head - 1 : \A b \in Blockers(pos) : InPlace(h, pos) =>
              \/ locateErr'
              \/ /\ b \in Blockers(pos)'
                 /\ runs'[b].plan = runs[b].plan /\ runs'[b].stored = runs[b].stored
    PROVE  (RowDue(h) => RowDue(h)') /\ \A c : ChunkDue(h, c) => ChunkDue(h, c)'
<1>1. ASSUME RowDue(h) PROVE RowDue(h)'
  <2>1. PICK pos \in tail..head - 1 :
            InPlace(h, pos) /\ (locateErr \/ \E b \in Blockers(pos) : h \in runs[b].plan)
    BY <1>1 DEF RowDue
  <2>2. pos \in tail'..head' - 1 /\ InPlace(h, pos)'
    BY <2>1
  <2>3. locateErr' \/ \E b \in Blockers(pos)' : h \in runs'[b].plan
    BY <2>1
  <2> QED  BY <2>2, <2>3 DEF RowDue
<1>2. ASSUME NEW c, ChunkDue(h, c) PROVE ChunkDue(h, c)'
  <2>1. PICK pos \in tail..head - 1 :
            InPlace(h, pos) /\ (locateErr \/ \E b \in Blockers(pos) : c \in runs[b].stored)
    BY <1>2 DEF ChunkDue
  <2>2. pos \in tail'..head' - 1 /\ InPlace(h, pos)'
    BY <2>1
  <2>3. locateErr' \/ \E b \in Blockers(pos)' : c \in runs'[b].stored
    BY <2>1
  <2> QED  BY <2>2, <2>3 DEF ChunkDue
<1> QED  BY <1>1, <1>2

(* A step that leaves the ring's cells, the index, the rows and the queue  *)
(* of batches alone, and lets files go at most.                            *)
LEMMA RecoverableQuiet ==
    ASSUME BookInv, Recoverable, SameUnrecorded,
           UNCHANGED <<cell, head, seq, index, chunkLoc, jHandles, jChunks, locating, reclaimTo, locateErr>>,
           tail' \in Nat, tail <= tail', tail' = tail \/ tail' <= reclaimTo',
           \A i \in Inodes : \/ content'[i] = content[i] /\ written'[i] = written[i]
                             \/ content'[i] = 0
    PROVE  Recoverable'
<1>1. /\ head \in Nat /\ tail \in Nat /\ reclaimTo \in Nat
      /\ head' = head /\ reclaimTo' = reclaimTo /\ Unrecorded' = Unrecorded
  BY Typed DEF SameUnrecorded
<1>2. SeqAscends'
  <2>1. \A pos \in tail'..head' - 1 : pos \in tail..head - 1
    BY <1>1
  <2> QED  BY <1>1, <2>1 DEF Recoverable, SeqAscends, At
<1>3. CellsMatch' /\ RowsMatch'
  BY DEF Recoverable, CellsMatch, RowsMatch
<1>4. PlansMatch'
  <2>1. SUFFICES ASSUME NEW b \in Unrecorded, NEW i \in Inodes, content'[i] # 0, content'[i] \in runs'[b].plan
                 PROVE  runs'[b].loc[content'[i]] = written'[i]
    BY <1>1 DEF PlansMatch
  <2> QED  BY <2>1 DEF Recoverable, PlansMatch, SameUnrecorded
<1>5. \A h : (RowDue(h) => RowDue(h)') /\ \A c : ChunkDue(h, c) => ChunkDue(h, c)'
  <2>1. TAKE h
  <2>2. \A pos \in tail..head - 1 : InPlace(h, pos) => pos \in tail'..head' - 1 /\ InPlace(h, pos)'
    <3>1. \A pos \in tail..head - 1 : InPlace(h, pos) => reclaimTo' <= pos
      BY DEF InPlace
    <3>2. tail' = tail \/ tail' <= reclaimTo'
      OBVIOUS
    <3> QED  BY <1>1, <3>1, <3>2, StillInPlace
  <2>3. \A pos \in tail..head - 1 : \A b \in Blockers(pos) :
            /\ b \in Blockers(pos)'
            /\ runs'[b].plan = runs[b].plan /\ runs'[b].stored = runs[b].stored
    BY <1>1 DEF Blockers, SameUnrecorded
  <2> QED  BY <2>2, <2>3, StillDue
<1>6. Durable'
  <2>1. SUFFICES ASSUME NEW i \in Inodes, NEW h \in Handles, NEW c \in Data,
                        content'[i] = h, h \notin DOMAIN index, written'[i] = c
                 PROVE  /\ jHandles[h] # NoData \/ RowDue(h)'
                        /\ jChunks[c] # 0 \/ ChunkDue(h, c)'
    BY DEF Durable
  <2>2. content[i] = h /\ written[i] = c
    BY <2>1 DEF Handles
  <2>3. /\ jHandles[h] # NoData \/ RowDue(h)
        /\ jChunks[c] # 0 \/ ChunkDue(h, c)
    BY <2>1, <2>2 DEF Recoverable, Durable
  <2> QED  BY <1>5, <2>3
<1>7. ChunksDue'
  BY <1>1 DEF Recoverable, ChunksDue, SameUnrecorded
<1> QED  BY <1>2, <1>3, <1>4, <1>6, <1>7 DEF Recoverable

(* Starting a run touches none that waits for its rows.                    *)
LEMMA StartedSame == ASSUME NewOnly PROVE SameUnrecorded
<1>1. \A b \in Unrecorded : b \in DOMAIN runs' /\ runs'[b] = runs[b]
  BY DEF NewOnly, Unrecorded
<1>2. \A b \in DOMAIN runs' : runs'[b].phase \in {"published", "unrecorded"} =>
          b \in DOMAIN runs /\ runs'[b] = runs[b]
  BY DEF NewOnly
<1>3. Unrecorded' = Unrecorded
  BY <1>1, <1>2 DEF Unrecorded
<1> QED  BY <1>1, <1>3 DEF SameUnrecorded

(* A write: a new record at the head, for one file.                        *)
LEMMA RecoverablePlace ==
    ASSUME BookInv, Aligned, CellsDistinct, Recoverable, NEW w \in Writers, NEW ino \in Inodes,
           NEW d \in Data, w \in waiting \/ (OverlayFree /\ nextHandle <= MaxHandle), Place(w, ino, d)
    PROVE  Recoverable'
<1> DEFINE h == nextHandle
           o1 == head % RingSize
<1>1. /\ ~Full /\ head' = head + 1 /\ seq' = seq + 1
      /\ UNCHANGED <<tail, chunkLoc, locating, reclaimTo, locateErr, jHandles, jChunks>>
      /\ cell' = [cell EXCEPT ![o1] = [h |-> h, d |-> d, seq |-> seq]]
      /\ index' = Extended(index, h, head)
      /\ content' = [content EXCEPT ![ino] = h] /\ written' = [written EXCEPT ![ino] = d]
  BY DEF Place, errs, disk
<1>2. /\ head \in Nat /\ tail \in Nat /\ tail <= head /\ RingSize \in Nat /\ RingSize > 0 /\ h \in Nat
      /\ seq \in Nat /\ reclaimTo \in Nat /\ cell \in [0..RingSize - 1 -> Cells]
      /\ content \in [Inodes -> 0..MaxHandle] /\ DOMAIN written = Inodes
  BY Typed DEF BookInv, RingTypes, MapInv, MapTypes, WaitInv, WaitTypes
<1>3. NewOnly
  BY Started DEF Place
<1>4. SameUnrecorded
  BY <1>3, StartedSame
<1>5. h \in Handles /\ h # 0
  BY WriterAlone DEF Handles
<1>6. /\ \A i \in Inodes : content[i] # h
      /\ \A o \in 0..RingSize - 1 : cell[o].h # h
      /\ jHandles[h] = NoData
      /\ \A b \in DOMAIN runs : h \notin runs[b].plan
  <2>1. /\ \A i \in Inodes : content[i] < h
        /\ \A o \in 0..RingSize - 1 : cell[o].h < h
        /\ \A b \in DOMAIN runs : \A x \in runs[b].plan : x < h
        /\ jHandles[h] # NoData => h < h
    BY <1>5 DEF BookInv, MapInv, Below, RunInv, PlansBelow, CellsDistinct
  <2> QED  BY <1>2, <2>1
<1>7. \A i \in Inodes : /\ content'[i] = IF i = ino THEN h ELSE content[i]
                        /\ written'[i] = IF i = ino THEN d ELSE written[i]
  BY <1>1, <1>2
<1>8. DOMAIN index' = DOMAIN index \cup {h}
  BY <1>1 DEF Extended
<1>9. o1 \in 0..RingSize - 1
  BY <1>2, CellOf
<1>10. /\ cell'[o1] = [h |-> h, d |-> d, seq |-> seq]
       /\ \A o \in 0..RingSize - 1 : o # o1 => cell'[o] = cell[o]
  BY <1>1, <1>2, <1>9
<1>11. \A pos \in tail..head - 1 : cell'[pos % RingSize] = cell[pos % RingSize]
  <2>1. TAKE pos \in tail..head - 1
  <2>2. pos \in Int /\ head \in Int /\ pos < head /\ head - pos < RingSize
    BY <1>1, <1>2 DEF Full
  <2>3. pos % RingSize # o1
    BY <1>2, <2>2, CellsApart
  <2>4. pos % RingSize \in 0..RingSize - 1
    BY <1>2, CellOf
  <2> QED  BY <1>10, <2>3, <2>4
<1>12. SeqAscends'
  <2>1. SUFFICES ASSUME NEW pos \in tail..head
                 PROVE  /\ cell'[pos % RingSize].h # 0 /\ cell'[pos % RingSize].seq < seq + 1
                        /\ pos + 1 < head + 1 =>
                              cell'[pos % RingSize].seq < cell'[(pos + 1) % RingSize].seq
    <3>1. tail' = tail /\ head' - 1 = head
      BY <1>1, <1>2
    <3> QED  BY <1>1, <3>1 DEF SeqAscends, At
  <2>2. CASE pos = head
    BY <1>2, <1>5, <1>10, <2>2
  <2>3. CASE pos # head
    <3>1. pos \in tail..head - 1 /\ pos \in Nat /\ pos < head
      BY <1>2, <2>3
    <3>2. /\ cell[pos % RingSize].h # 0 /\ cell[pos % RingSize].seq < seq
          /\ pos + 1 < head => cell[pos % RingSize].seq < cell[(pos + 1) % RingSize].seq
      BY <3>1 DEF Recoverable, SeqAscends, At
    <3>3. cell[pos % RingSize].seq \in Nat
      <4>1. pos % RingSize \in 0..RingSize - 1
        BY <3>1, CellOf
      <4> QED  BY <1>2, <4>1 DEF Cells
    <3>4. ASSUME pos + 1 < head PROVE cell'[(pos + 1) % RingSize] = cell[(pos + 1) % RingSize]
      <4>1. pos + 1 \in tail..head - 1
        BY <1>2, <3>1, <3>4
      <4> QED  BY <1>11, <4>1
    <3>5. ASSUME ~(pos + 1 < head) PROVE cell'[(pos + 1) % RingSize].seq = seq
      <4>1. pos + 1 = head
        BY <1>2, <3>1, <3>5
      <4> QED  BY <1>10, <4>1
    <3>6. cell'[pos % RingSize] = cell[pos % RingSize]
      BY <1>11, <3>1
    <3> HIDE DEF h, o1
    <3> QED  BY <1>2, <3>2, <3>3, <3>4, <3>5, <3>6
  <2> QED  BY <2>2, <2>3
<1> HIDE DEF h, o1
<1>13. CellsMatch'
  <2>1. SUFFICES ASSUME NEW o \in 0..RingSize - 1, NEW i \in Inodes,
                        content'[i] # 0, cell'[o].h = content'[i]
                 PROVE  cell'[o].d = written'[i]
    BY DEF CellsMatch
  <2>2. CASE i = ino
    <3>1. o = o1
      BY <1>6, <1>7, <1>10, <2>1, <2>2
    <3> QED  BY <1>7, <1>10, <2>2, <3>1
  <2>3. CASE i # ino
    <3>1. o # o1
      BY <1>6, <1>7, <1>10, <2>1, <2>3
    <3> QED  BY <1>7, <1>10, <2>1, <2>3, <3>1 DEF Recoverable, CellsMatch
  <2> QED  BY <2>2, <2>3
<1>14. RowsMatch'
  BY <1>1, <1>6, <1>7 DEF Recoverable, RowsMatch
<1>15. PlansMatch'
  <2>1. SUFFICES ASSUME NEW b \in Unrecorded, NEW i \in Inodes, content'[i] # 0, content'[i] \in runs'[b].plan
                 PROVE  runs'[b].loc[content'[i]] = written'[i]
    BY <1>4 DEF PlansMatch, SameUnrecorded
  <2>2. runs'[b].plan = runs[b].plan /\ runs'[b].loc = runs[b].loc /\ b \in DOMAIN runs
    BY <1>4 DEF SameUnrecorded, Unrecorded
  <2>3. i # ino
    BY <1>6, <1>7, <2>1, <2>2
  <2> QED  BY <1>7, <2>1, <2>2, <2>3 DEF Recoverable, PlansMatch
<1>16. \A x : (RowDue(x) => RowDue(x)') /\ \A c : ChunkDue(x, c) => ChunkDue(x, c)'
  <2>1. TAKE x
  <2>2. \A pos \in tail..head - 1 : InPlace(x, pos) => pos \in tail'..head' - 1 /\ InPlace(x, pos)'
    <3>1. TAKE pos \in tail..head - 1
    <3>2. HAVE InPlace(x, pos)
    <3>3. /\ cell'[pos % RingSize] = cell[pos % RingSize] /\ reclaimTo' <= pos /\ reclaimTo' \in Nat
          /\ tail' \in Nat /\ tail <= tail' /\ tail' = tail /\ head' \in Nat /\ head <= head' /\ pos \in Nat
      BY <1>1, <1>2, <1>11, <3>2 DEF InPlace
    <3> QED  BY <3>2, <3>3, StillInPlace
  <2>3. \A pos \in tail..head - 1 : \A b \in Blockers(pos) :
            /\ b \in Blockers(pos)'
            /\ runs'[b].plan = runs[b].plan /\ runs'[b].stored = runs[b].stored
    BY <1>1, <1>4 DEF Blockers, SameUnrecorded
  <2> QED  BY <1>1, <2>2, <2>3, StillDue
<1>17. Durable'
  <2>1. SUFFICES ASSUME NEW i \in Inodes, NEW x \in Handles, NEW c \in Data,
                        content'[i] = x, x \notin DOMAIN index', written'[i] = c
                 PROVE  /\ jHandles[x] # NoData \/ RowDue(x)'
                        /\ jChunks[c] # 0 \/ ChunkDue(x, c)'
    BY <1>1 DEF Durable
  <2>2. content[i] = x /\ written[i] = c /\ x \notin DOMAIN index
    BY <1>7, <1>8, <2>1
  <2>3. /\ jHandles[x] # NoData \/ RowDue(x)
        /\ jChunks[c] # 0 \/ ChunkDue(x, c)
    BY <2>2 DEF Recoverable, Durable
  <2> QED  BY <1>16, <2>3
<1>18. ChunksDue'
  BY <1>1, <1>4 DEF Recoverable, ChunksDue, SameUnrecorded
<1> QED  BY <1>12, <1>13, <1>14, <1>15, <1>17, <1>18 DEF Recoverable

(* A publication: what left the index is due, from its place in the ring,  *)
(* until the rows of the run are written.                                  *)
LEMMA RecoverablePublish ==
    ASSUME BookInv, Aligned, BodyInv, Recoverable, NEW b \in DOMAIN runs, Publish(b)
    PROVE  Recoverable'
<1> DEFINE r == runs[b]
           L == Len(locating)
<1>1. /\ UNCHANGED <<cell, head, seq, tail, content, written, reclaimTo, locateErr, jHandles, jChunks>>
      /\ r.phase = "packed"
      /\ chunkLoc' = [c \in Data |-> IF c \in r.stored THEN r.pack ELSE chunkLoc[c]]
      /\ index' = [h \in DOMAIN index \ r.recs |-> index[h]]
      /\ locating' = Append(locating, [b |-> b, to |-> r.to, done |-> FALSE])
      /\ runs' = [runs EXCEPT ![b].phase = "published"]
  BY DEF Publish, InRun, ring, bounds, errs, disk
<1>2. /\ r.recs \subseteq DOMAIN index /\ r.plan \subseteq r.recs
      /\ \A i \in Inodes : content[i] \in r.recs => content[i] \in r.plan
  BY <1>1 DEF BookInv, RunInv, RunTakes, Active
<1>3. \A h \in r.plan : /\ r.loc[h] = At(index[h]).d /\ r.loc[h] \in Data
                        /\ chunkLoc[r.loc[h]] # 0 \/ r.loc[h] \in r.stored
  BY <1>1 DEF BodyInv, PacksCut, CutRight
<1>4. /\ DOMAIN runs' = DOMAIN runs /\ \A x \in DOMAIN runs : x # b => runs'[x] = runs[x]
      /\ runs'[b].phase = "published" /\ runs'[b].plan = r.plan /\ runs'[b].loc = r.loc
      /\ runs'[b].stored = r.stored
  BY <1>1, AnyRun DEF RunOf
<1>5. Unrecorded' = Unrecorded \cup {b} /\ b \notin Unrecorded
  BY <1>1, <1>4 DEF Unrecorded
<1>6. /\ L \in Nat /\ DOMAIN locating = 1..L /\ locating' \in Seq(Batches) /\ Len(locating') = L + 1
      /\ locating'[L + 1].b = b /\ \A k \in 1..L : locating'[k] = locating[k]
      /\ DOMAIN locating' = 1..L + 1
  <2>1. locating \in Seq(Batches) /\ L \in Nat /\ DOMAIN locating = 1..L
    BY Batch DEF BookInv, RunInv, PipeTypes
  <2>2. b \in Nat /\ r.to \in Nat
    BY AnyRun DEF BookInv, RunInv, PipeTypes, RunOf
  <2>3. [b |-> b, to |-> r.to, done |-> FALSE] \in Batches
    BY <2>2 DEF Batches
  <2> HIDE DEF r
  <2> QED  BY <1>1, <2>1, <2>3
<1>7. /\ head \in Nat /\ tail \in Nat /\ reclaimTo \in Nat
      /\ \A h \in DOMAIN index : index[h] \in tail..head - 1 /\ At(index[h]).h = h /\ reclaimTo <= index[h]
      /\ \A h \in DOMAIN index : \A k \in 1..L : locating[k].to <= index[h]
  <2>1. \A h \in DOMAIN index : index[h] \in 0..head - 1
    BY Typed
  <2>2. head \in Nat /\ tail \in Nat /\ reclaimTo \in Nat
    BY Typed
  <2>3. \A h \in DOMAIN index : tail <= index[h] /\ At(index[h]).h = h /\ reclaimTo <= index[h]
    BY DEF Aligned, Standing, CellsStand, TailBehind
  <2>4. \A h \in DOMAIN index : \A k \in 1..L : locating[k].to <= index[h]
    BY <1>6 DEF Aligned, Standing, TailBehind
  <2>5. \A h \in DOMAIN index : index[h] \in tail..head - 1
    BY <2>1, <2>2, <2>3
  <2> QED  BY <2>2, <2>3, <2>4, <2>5
<1> HIDE DEF r, L
<1>8. SeqAscends' /\ CellsMatch' /\ RowsMatch'
  BY <1>1 DEF Recoverable, SeqAscends, CellsMatch, RowsMatch, At
<1>9. PlansMatch'
  <2>1. SUFFICES ASSUME NEW x \in Unrecorded', NEW i \in Inodes, content[i] # 0, content[i] \in runs'[x].plan
                 PROVE  runs'[x].loc[content[i]] = written[i]
    BY <1>1 DEF PlansMatch
  <2>2. CASE x = b
    <3>1. content[i] \in r.plan /\ content[i] \in DOMAIN index
      BY <1>2, <1>4, <2>1, <2>2
    <3> QED  BY <1>3, <1>4, <2>2, <3>1 DEF BodyInv, Files
  <2>3. CASE x \in Unrecorded
    <3>1. x # b /\ x \in DOMAIN runs
      BY <1>5, <2>3 DEF Unrecorded
    <3> QED  BY <1>4, <2>1, <2>3, <3>1 DEF Recoverable, PlansMatch
  <2> QED  BY <1>5, <2>2, <2>3
<1>10. \A pos : \A x \in Blockers(pos) : /\ x \in Blockers(pos)'
                                        /\ runs'[x].plan = runs[x].plan /\ runs'[x].stored = runs[x].stored
  <2>1. TAKE pos
  <2>2. TAKE x \in Blockers(pos)
  <2>3. PICK k \in 1..L : locating[k].b = x /\ \A j \in 1..k - 1 : locating[j].to <= pos
    BY <1>6 DEF Blockers
  <2>4. k \in DOMAIN locating' /\ locating'[k].b = x /\ \A j \in 1..k - 1 : j \in 1..L /\ locating'[j].to <= pos
    BY <1>6, <2>3
  <2>5. x \in Unrecorded /\ x # b /\ x \in DOMAIN runs
    BY <1>5 DEF Blockers, Unrecorded
  <2> QED  BY <1>4, <1>5, <2>4, <2>5 DEF Blockers
<1>11. \A x : (RowDue(x) => RowDue(x)') /\ \A c : ChunkDue(x, c) => ChunkDue(x, c)'
  <2>1. TAKE x
  <2>2. \A pos \in tail..head - 1 : InPlace(x, pos) => pos \in tail'..head' - 1 /\ InPlace(x, pos)'
    BY <1>1 DEF InPlace, At
  <2> QED  BY <1>1, <1>10, <2>2, StillDue
<1>12. \A pos : (\A k \in 1..L : locating[k].to <= pos) => \A x \in Unrecorded' : x \in Blockers(pos)'
  <2>1. TAKE pos
  <2>2. HAVE \A k \in 1..L : locating[k].to <= pos
  <2>3. TAKE x \in Unrecorded'
  <2>4. PICK k \in DOMAIN locating' : locating'[k].b = x /\ k <= L + 1
    <3>1. CASE x = b
      <4>1. L + 1 \in DOMAIN locating' /\ L + 1 <= L + 1
        BY <1>6
      <4> QED  BY <1>6, <3>1, <4>1
    <3>2. CASE x \in Unrecorded
      <4>1. x \in DOMAIN runs /\ runs[x].phase \notin Active
        BY <3>2 DEF Unrecorded, Active
      <4>2. PICK k \in 1..L : locating[k].b = x
        BY <1>6, <4>1 DEF BookInv, RunInv, Batched
      <4>3. k \in DOMAIN locating' /\ k <= L + 1
        BY <1>6
      <4> QED  BY <1>6, <4>2, <4>3
    <3> QED  BY <1>5, <3>1, <3>2
  <2>5. \A j \in 1..k - 1 : j \in 1..L
    BY <1>6, <2>4
  <2>6. \A j \in 1..k - 1 : locating'[j].to <= pos
    BY <1>6, <2>2, <2>5
  <2> QED  BY <2>4, <2>6 DEF Blockers
<1>13. \A x \in r.plan : /\ RowDue(x)'
                         /\ \A c : locateErr \/ (\E a \in Unrecorded' : c \in runs'[a].stored) => ChunkDue(x, c)'
  <2>1. TAKE x \in r.plan
  <2>2. PICK pos : pos = index[x]
    OBVIOUS
  <2>3. pos \in tail..head - 1 /\ At(pos).h = x /\ reclaimTo <= pos /\ \A k \in 1..L : locating[k].to <= pos
    BY <1>2, <1>7, <2>2
  <2>4. pos \in tail'..head' - 1 /\ InPlace(x, pos)'
    BY <1>1, <2>3 DEF InPlace, At
  <2>5. \A a \in Unrecorded' : a \in Blockers(pos)'
    BY <1>12, <2>3
  <2>6. RowDue(x)'
    BY <1>4, <1>5, <2>4, <2>5 DEF RowDue
  <2>7. \A c : locateErr \/ (\E a \in Unrecorded' : c \in runs'[a].stored) => ChunkDue(x, c)'
    BY <1>1, <2>4, <2>5 DEF ChunkDue
  <2> QED  BY <2>6, <2>7
<1>14. ChunksDue'
  <2>1. SUFFICES ASSUME NEW c \in Data, chunkLoc'[c] # 0
                 PROVE  jChunks[c] # 0 \/ locateErr \/ \E x \in Unrecorded' : c \in runs'[x].stored
    BY <1>1 DEF ChunksDue
  <2>2. CASE c \in r.stored
    BY <1>4, <1>5, <2>2
  <2>3. CASE c \notin r.stored
    <3>1. chunkLoc[c] # 0
      BY <1>1, <2>1, <2>3
    <3>2. jChunks[c] # 0 \/ locateErr \/ \E x \in Unrecorded : c \in runs[x].stored
      BY <3>1 DEF Recoverable, ChunksDue
    <3>3. \A x \in Unrecorded : x \in Unrecorded' /\ runs'[x] = runs[x]
      BY <1>4, <1>5 DEF Unrecorded
    <3> QED  BY <3>2, <3>3
  <2> QED  BY <2>2, <2>3
<1>15. Durable'
  <2>1. SUFFICES ASSUME NEW i \in Inodes, NEW h \in Handles, NEW c \in Data,
                        content[i] = h, h \notin DOMAIN index', written[i] = c
                 PROVE  /\ jHandles[h] # NoData \/ RowDue(h)'
                        /\ jChunks[c] # 0 \/ ChunkDue(h, c)'
    BY <1>1 DEF Durable
  <2>2. CASE h \notin DOMAIN index
    <3>1. /\ jHandles[h] # NoData \/ RowDue(h)
          /\ jChunks[c] # 0 \/ ChunkDue(h, c)
      BY <2>1, <2>2 DEF Recoverable, Durable
    <3> QED  BY <1>11, <3>1
  <2>3. CASE h \in r.recs
    <3>1. h \in r.plan /\ h \in DOMAIN index
      BY <1>2, <2>1, <2>3
    <3>2. c = r.loc[h] /\ (chunkLoc[c] # 0 \/ c \in r.stored)
      BY <1>3, <2>1, <3>1 DEF BodyInv, Files
    <3>3. chunkLoc'[c] # 0
      <4>1. c \in r.stored => r.pack # 0
        BY DEF r, BodyInv, PacksCut, CutRight
      <4> QED  BY <1>1, <3>2, <4>1
    <3>4. jChunks[c] # 0 \/ locateErr \/ \E x \in Unrecorded' : c \in runs'[x].stored
      BY <1>1, <1>14, <3>3 DEF ChunksDue
    <3> QED  BY <1>13, <3>1, <3>4
  <2> QED  BY <1>1, <2>1, <2>2, <2>3
<1> QED  BY <1>8, <1>9, <1>14, <1>15 DEF Recoverable

(* The rows of a run are written, or are not: those written are right, and *)
(* what they were due for is done.                                         *)
LEMMA RecoverableJournal ==
    ASSUME BookInv, BodyInv, Recoverable, NEW b \in DOMAIN runs, Journal(b)
    PROVE  Recoverable'
<1> DEFINE r == runs[b]
<1>1. /\ UNCHANGED <<cell, head, seq, tail, index, content, written, chunkLoc, locating, reclaimTo, locateErr>>
      /\ r.phase = "published"
      /\ \/ /\ jHandles' = [h \in Handles |-> IF h \in r.plan THEN r.loc[h] ELSE jHandles[h]]
            /\ jChunks' = [c \in Data |-> IF c \in r.stored THEN r.pack ELSE jChunks[c]]
            /\ runs' = [runs EXCEPT ![b].phase = "recorded"]
         \/ UNCHANGED <<jHandles, jChunks>> /\ runs' = [runs EXCEPT ![b].phase = "unrecorded"]
  BY DEF Journal, InRun, ring, maps, errs, disk
<1>2. head \in Nat /\ tail \in Nat /\ reclaimTo \in Nat
  BY Typed
<1>3. b \in Unrecorded
  BY <1>1 DEF Unrecorded
<1>4. CASE UNCHANGED <<jHandles, jChunks>> /\ runs' = [runs EXCEPT ![b].phase = "unrecorded"]
  <2>1. /\ DOMAIN runs' = DOMAIN runs /\ \A x \in DOMAIN runs : x # b => runs'[x] = runs[x]
        /\ runs'[b].phase = "unrecorded" /\ runs'[b].plan = r.plan /\ runs'[b].loc = r.loc
        /\ runs'[b].stored = r.stored
    BY <1>4, AnyRun DEF RunOf
  <2>2. SameUnrecorded
    <3>1. Unrecorded' = Unrecorded
      BY <1>1, <2>1 DEF Unrecorded
    <3> QED  BY <2>1, <3>1 DEF SameUnrecorded, Unrecorded
  <2>3. tail' = tail /\ tail' \in Nat /\ tail <= tail'
    BY <1>1, <1>2
  <2>4. \A i \in Inodes : content'[i] = content[i] /\ written'[i] = written[i]
    BY <1>1
  <2> QED  BY <1>1, <1>4, <2>2, <2>3, <2>4, RecoverableQuiet
<1>5. CASE /\ jHandles' = [h \in Handles |-> IF h \in r.plan THEN r.loc[h] ELSE jHandles[h]]
           /\ jChunks' = [c \in Data |-> IF c \in r.stored THEN r.pack ELSE jChunks[c]]
           /\ runs' = [runs EXCEPT ![b].phase = "recorded"]
  <2>1. /\ DOMAIN runs' = DOMAIN runs /\ \A x \in DOMAIN runs : x # b => runs'[x] = runs[x]
        /\ runs'[b].phase = "recorded"
    BY <1>5, AnyRun DEF RunOf
  <2>2. Unrecorded' = Unrecorded \ {b} /\ \A x \in Unrecorded' : runs'[x] = runs[x]
    BY <2>1 DEF Unrecorded
  <2>3. r.stored # {} => r.pack # 0
    BY DEF BodyInv, PacksCut, CutRight
  <2>4. \A i \in Inodes : content[i] # 0 /\ content[i] \in r.plan => r.loc[content[i]] = written[i]
    BY <1>3 DEF Recoverable, PlansMatch
  <2>5. \A i \in Inodes : content[i] # 0 => written[i] # NoData
    BY DEF BodyInv, Files
  <2> HIDE DEF r
  <2>6. /\ \A h \in Handles : jHandles'[h] = IF h \in r.plan THEN r.loc[h] ELSE jHandles[h]
        /\ \A c \in Data : c \in r.stored \/ jChunks[c] # 0 => jChunks'[c] # 0
    BY <1>5, <2>3
  <2>7. SeqAscends' /\ CellsMatch'
    BY <1>1 DEF Recoverable, SeqAscends, CellsMatch, At
  <2>8. RowsMatch'
    <3>1. SUFFICES ASSUME NEW i \in Inodes, content[i] # 0, jHandles'[content[i]] # NoData
                   PROVE  jHandles'[content[i]] = written[i]
      BY <1>1 DEF RowsMatch
    <3>2. content[i] \in Handles
      BY <3>1 DEF BookInv, MapInv, MapTypes, Handles
    <3> QED  BY <2>4, <2>6, <3>1, <3>2 DEF Recoverable, RowsMatch
  <2>9. PlansMatch'
    BY <1>1, <2>2 DEF Recoverable, PlansMatch
  <2>10. \A pos : \A x \in Blockers(pos) : x = b \/ (x \in Blockers(pos)' /\ runs'[x] = runs[x])
    BY <1>1, <2>2 DEF Blockers
  <2>11. \A h : /\ RowDue(h) => RowDue(h)' \/ h \in r.plan
                /\ \A c : ChunkDue(h, c) => ChunkDue(h, c)' \/ c \in r.stored
    <3>1. TAKE h
    <3>2. \A pos \in tail..head - 1 : InPlace(h, pos) => pos \in tail'..head' - 1 /\ InPlace(h, pos)'
      BY <1>1 DEF InPlace, At
    <3>3. ASSUME RowDue(h), h \notin r.plan PROVE RowDue(h)'
      <4>1. PICK pos \in tail..head - 1 :
                InPlace(h, pos) /\ (locateErr \/ \E x \in Blockers(pos) : h \in runs[x].plan)
        BY <3>3 DEF RowDue
      <4>2. locateErr' \/ \E x \in Blockers(pos)' : h \in runs'[x].plan
        BY <1>1, <2>10, <3>3, <4>1 DEF r
      <4>3. pos \in tail'..head' - 1 /\ InPlace(h, pos)'
        BY <3>2, <4>1
      <4> QED  BY <4>2, <4>3 DEF RowDue
    <3>4. ASSUME NEW c, ChunkDue(h, c), c \notin r.stored PROVE ChunkDue(h, c)'
      <4>1. PICK pos \in tail..head - 1 :
                InPlace(h, pos) /\ (locateErr \/ \E x \in Blockers(pos) : c \in runs[x].stored)
        BY <3>4 DEF ChunkDue
      <4>2. locateErr' \/ \E x \in Blockers(pos)' : c \in runs'[x].stored
        BY <1>1, <2>10, <3>4, <4>1 DEF r
      <4>3. pos \in tail'..head' - 1 /\ InPlace(h, pos)'
        BY <3>2, <4>1
      <4> QED  BY <4>2, <4>3 DEF ChunkDue
    <3> QED  BY <3>3, <3>4
  <2>12. Durable'
    <3>1. SUFFICES ASSUME NEW i \in Inodes, NEW h \in Handles, NEW c \in Data,
                          content[i] = h, h \notin DOMAIN index, written[i] = c
                   PROVE  /\ jHandles'[h] # NoData \/ RowDue(h)'
                          /\ jChunks'[c] # 0 \/ ChunkDue(h, c)'
      BY <1>1 DEF Durable
    <3>2. /\ jHandles[h] # NoData \/ RowDue(h)
          /\ jChunks[c] # 0 \/ ChunkDue(h, c)
      BY <3>1 DEF Recoverable, Durable
    <3>3. h \in r.plan => jHandles'[h] # NoData
      <4>1. h # 0
        BY DEF Handles
      <4> QED  BY <2>4, <2>5, <2>6, <3>1, <4>1
    <3> QED  BY <2>6, <2>11, <3>2, <3>3
  <2>13. ChunksDue'
    <3>1. SUFFICES ASSUME NEW c \in Data, chunkLoc[c] # 0
                   PROVE  jChunks'[c] # 0 \/ locateErr \/ \E x \in Unrecorded' : c \in runs'[x].stored
      BY <1>1 DEF ChunksDue
    <3>2. jChunks[c] # 0 \/ locateErr \/ \E x \in Unrecorded : c \in runs[x].stored
      BY <3>1 DEF Recoverable, ChunksDue
    <3>3. \A x \in Unrecorded : x = b \/ (x \in Unrecorded' /\ runs'[x] = runs[x])
      BY <2>2
    <3>4. c \in runs[b].stored => jChunks'[c] # 0
      BY <2>6 DEF r
    <3> QED  BY <2>6, <3>2, <3>3, <3>4
  <2> QED  BY <2>7, <2>8, <2>9, <2>12, <2>13 DEF Recoverable
<1> QED  BY <1>1, <1>4, <1>5

(* A batch settles: what is due behind it stays due, because the tail does *)
(* not pass a batch that waits for its rows, or does not move again.       *)
LEMMA RecoverableSettle ==
    ASSUME BookInv, Recoverable, NEW b \in DOMAIN runs, Settle(b),
           tail' \in Nat, tail <= tail', tail' = tail \/ tail' <= reclaimTo'
    PROVE  Recoverable'
<1> DEFINE L == Len(locating)
<1>1. /\ UNCHANGED <<cell, head, seq, index, content, written, chunkLoc, jHandles, jChunks>>
      /\ runs[b].phase \in {"recorded", "unrecorded"}
      /\ locateErr' = (locateErr \/ runs[b].phase # "recorded")
      /\ runs' = [x \in DOMAIN runs \ {b} |-> runs[x]]
  BY DEF Settle, InRun, ring, maps, bounds, disk
<1>2. /\ L \in Nat /\ DOMAIN locating = 1..L /\ head \in Nat /\ tail \in Nat /\ reclaimTo \in Nat
  BY Batch, Typed DEF BookInv, RunInv, PipeTypes
<1>3. \A x \in DOMAIN runs' : x \in DOMAIN runs /\ x # b /\ runs'[x] = runs[x]
  BY <1>1
<1>4. \A x \in DOMAIN runs : x # b => x \in DOMAIN runs' /\ runs'[x] = runs[x]
  BY <1>1
<1>5. Unrecorded' = Unrecorded \ {b}
  BY <1>3, <1>4 DEF Unrecorded
<1>6. \A x \in Unrecorded : x # b => runs'[x] = runs[x]
  BY <1>4 DEF Unrecorded
<1>7. PICK to \in Nat : /\ to = reclaimTo'
                        /\ \A pos : \A x \in Blockers(pos) : reclaimTo <= pos /\ ~locateErr' =>
                              to <= pos /\ x \in Blockers(pos)'
                        /\ locateErr' => to = reclaimTo
  <2>1. CASE runs[b].phase = "unrecorded"
    <3>1. reclaimTo' = reclaimTo
      BY <2>1, SettledFailed
    <3> QED  BY <1>1, <1>2, <2>1, <3>1
  <2>2. CASE runs[b].phase = "recorded"
    <3>1. PICK n \in 0..L :
              /\ locating' \in Seq(Batches) /\ Len(locating') = L - n
              /\ \A k \in 1..L - n :
                    /\ locating'[k].b = locating[n + k].b /\ locating'[k].to = locating[n + k].to
              /\ \A k \in 1..n : locating[k].done \/ locating[k].b = b
              /\ reclaimTo' = reclaimTo \/ \E k \in 1..n : reclaimTo' = locating[k].to
              /\ reclaimTo' \in 0..head
              /\ locateErr => n = 0
      BY <2>2, SettledDone
    <3>2. locateErr' = locateErr
      BY <1>1, <2>2 DEF BookInv, WaitInv, WaitTypes
    <3>3. DOMAIN locating' = 1..L - n
      BY <3>1
    <3>4. b \notin Unrecorded
      BY <2>2 DEF Unrecorded
    <3> HIDE DEF L
    <3>5. ASSUME NEW pos, NEW x \in Blockers(pos), reclaimTo <= pos, ~locateErr'
          PROVE  reclaimTo' <= pos /\ x \in Blockers(pos)'
      <4>1. PICK k \in 1..L : locating[k].b = x /\ \A j \in 1..k - 1 : locating[j].to <= pos
        BY <1>2, <3>5 DEF Blockers
      <4>2. x \in Unrecorded /\ x # b /\ x \in DOMAIN runs /\ runs[x].phase \notin Active
        BY <3>4, <3>5 DEF Blockers, Unrecorded, Active
      <4>3. ~locating[k].done
        BY <1>2, <4>1, <4>2 DEF BookInv, RunInv, Batched
      <4>4. k > n
        BY <1>2, <3>1, <4>1, <4>2, <4>3
      <4>5. reclaimTo' <= pos
        <5>1. \A j \in 1..n : j \in 1..k - 1
          BY <1>2, <4>4
        <5> QED  BY <3>1, <3>5, <4>1, <5>1
      <4>6. k - n \in DOMAIN locating' /\ locating'[k - n].b = x
        <5>1. k - n \in 1..L - n /\ n + (k - n) = k
          BY <1>2, <4>4
        <5> QED  BY <3>1, <3>3, <4>1, <5>1
      <4>7. \A j \in 1..(k - n) - 1 : locating'[j].to <= pos
        <5>1. TAKE j \in 1..(k - n) - 1
        <5>2. j \in 1..L - n /\ n + j \in 1..k - 1
          BY <1>2, <4>4
        <5> QED  BY <3>1, <4>1, <5>2
      <4>8. x \in Unrecorded'
        BY <1>5, <4>2
      <4> QED  BY <4>5, <4>6, <4>7, <4>8 DEF Blockers
    <3>6. locateErr' => reclaimTo' = reclaimTo
      BY <3>1, <3>2
    <3>7. reclaimTo' \in Nat
      BY <1>2, <3>1
    <3> QED  BY <3>5, <3>6, <3>7
  <2> QED  BY <1>1, <2>1, <2>2
<1>8. SeqAscends'
  <2>1. \A pos \in tail'..head' - 1 : pos \in tail..head - 1
    BY <1>1, <1>2
  <2> QED  BY <1>1, <2>1 DEF Recoverable, SeqAscends, At
<1>9. CellsMatch' /\ RowsMatch'
  BY <1>1 DEF Recoverable, CellsMatch, RowsMatch
<1>10. PlansMatch'
  <2>1. SUFFICES ASSUME NEW x \in Unrecorded', NEW i \in Inodes, content[i] # 0, content[i] \in runs'[x].plan
                 PROVE  runs'[x].loc[content[i]] = written[i]
    BY <1>1 DEF PlansMatch
  <2>2. x \in Unrecorded /\ runs'[x] = runs[x]
    BY <1>5, <1>6
  <2> QED  BY <2>1, <2>2 DEF Recoverable, PlansMatch
<1>11. \A h, pos : InPlace(h, pos) /\ to <= pos => pos \in tail'..head' - 1 /\ InPlace(h, pos)'
  <2>1. TAKE h, pos
  <2>2. HAVE InPlace(h, pos) /\ to <= pos
  <2>3. pos \in Nat /\ head' \in Nat /\ head <= head' /\ reclaimTo' \in Nat /\ reclaimTo' <= pos
        /\ cell'[pos % RingSize] = cell[pos % RingSize]
    BY <1>1, <1>2, <1>7, <2>2 DEF InPlace
  <2> QED  BY <2>2, <2>3, StillInPlace
<1>12. \A h : /\ RowDue(h) => RowDue(h)'
              /\ \A c : ChunkDue(h, c) => ChunkDue(h, c)'
  <2>1. TAKE h
  <2>2. ASSUME NEW pos, InPlace(h, pos), locateErr'
        PROVE  pos \in tail'..head' - 1 /\ InPlace(h, pos)'
    <3>1. to <= pos
      BY <1>7, <2>2 DEF InPlace
    <3> QED  BY <1>11, <2>2, <3>1
  <2>3. ASSUME NEW pos, InPlace(h, pos), ~locateErr', NEW x \in Blockers(pos)
        PROVE  /\ pos \in tail'..head' - 1 /\ InPlace(h, pos)' /\ x \in Blockers(pos)'
               /\ runs'[x] = runs[x]
    <3>1. reclaimTo <= pos
      BY <2>3 DEF InPlace
    <3>2. to <= pos /\ x \in Blockers(pos)'
      BY <1>7, <2>3, <3>1
    <3>3. x \in Unrecorded /\ x # b
      BY <1>5, <2>3, <3>2 DEF Blockers
    <3> QED  BY <1>6, <1>11, <2>3, <3>2, <3>3
  <2>4. ASSUME RowDue(h) PROVE RowDue(h)'
    <3>1. PICK pos \in tail..head - 1 :
              InPlace(h, pos) /\ (locateErr \/ \E x \in Blockers(pos) : h \in runs[x].plan)
      BY <2>4 DEF RowDue
    <3>2. CASE locateErr'
      BY <2>2, <3>1, <3>2 DEF RowDue
    <3>3. CASE ~locateErr'
      <4>1. PICK x \in Blockers(pos) : h \in runs[x].plan
        BY <1>1, <3>1, <3>3
      <4> QED  BY <2>3, <3>1, <3>3, <4>1 DEF RowDue
    <3> QED  BY <3>2, <3>3
  <2>5. ASSUME NEW c, ChunkDue(h, c) PROVE ChunkDue(h, c)'
    <3>1. PICK pos \in tail..head - 1 :
              InPlace(h, pos) /\ (locateErr \/ \E x \in Blockers(pos) : c \in runs[x].stored)
      BY <2>5 DEF ChunkDue
    <3>2. CASE locateErr'
      BY <2>2, <3>1, <3>2 DEF ChunkDue
    <3>3. CASE ~locateErr'
      <4>1. PICK x \in Blockers(pos) : c \in runs[x].stored
        BY <1>1, <3>1, <3>3
      <4> QED  BY <2>3, <3>1, <3>3, <4>1 DEF ChunkDue
    <3> QED  BY <3>2, <3>3
  <2> QED  BY <2>4, <2>5
<1>13. Durable'
  <2>1. SUFFICES ASSUME NEW i \in Inodes, NEW h \in Handles, NEW c \in Data,
                        content[i] = h, h \notin DOMAIN index, written[i] = c
                 PROVE  /\ jHandles[h] # NoData \/ RowDue(h)'
                        /\ jChunks[c] # 0 \/ ChunkDue(h, c)'
    BY <1>1 DEF Durable
  <2> QED  BY <1>12, <2>1 DEF Recoverable, Durable
<1>14. ChunksDue'
  <2>1. SUFFICES ASSUME NEW c \in Data, chunkLoc[c] # 0
                 PROVE  jChunks[c] # 0 \/ locateErr' \/ \E x \in Unrecorded' : c \in runs'[x].stored
    BY <1>1 DEF ChunksDue
  <2>2. jChunks[c] # 0 \/ locateErr \/ \E x \in Unrecorded : c \in runs[x].stored
    BY <2>1 DEF Recoverable, ChunksDue
  <2>3. \A x \in Unrecorded : locateErr' \/ (x \in Unrecorded' /\ runs'[x] = runs[x])
    <3>1. b \in Unrecorded => locateErr'
      BY <1>1 DEF Unrecorded
    <3> QED  BY <1>5, <1>6, <3>1
  <2> QED  BY <1>1, <2>2, <2>3
<1> QED  BY <1>8, <1>9, <1>10, <1>13, <1>14 DEF Recoverable

(* A step that is not a crash keeps what the recovery needs.               *)
LEMMA RecoverableStep ==
    ASSUME BookInv, Aligned, CellsDistinct, BodyInv, Recoverable, Next, ~Crash
    PROVE  Recoverable'
<1>1. tail' \in Nat /\ tail <= tail' /\ (tail' = tail \/ tail' <= reclaimTo')
  BY TailForward
<1>2. ASSUME UNCHANGED <<cell, head, seq, index, chunkLoc, jHandles, jChunks, locating, reclaimTo, locateErr>>,
             \A i \in Inodes : \/ content'[i] = content[i] /\ written'[i] = written[i]
                               \/ content'[i] = 0,
             NewOnly
      PROVE  Recoverable'
  <2>1. SameUnrecorded
    BY <1>2, StartedSame
  <2> QED  BY <1>1, <1>2, <2>1, RecoverableQuiet
<1>3. ASSUME UNCHANGED <<cell, head, seq, index, chunkLoc, jHandles, jChunks, locating, reclaimTo, locateErr,
                         content, written, runs>>
      PROVE  Recoverable'
  <2>1. NewOnly /\ \A i \in Inodes : content'[i] = content[i] /\ written'[i] = written[i]
    BY <1>3 DEF NewOnly
  <2> QED  BY <1>2, <1>3, <2>1
<1>4. ASSUME NEW w \in Writers, Write(w) PROVE Recoverable'
  <2>1. w \in waiting \/ (OverlayFree /\ nextHandle <= MaxHandle)
    BY <1>4 DEF Write
  <2>2. CASE \E ino \in Inodes, d \in Data : Place(w, ino, d)
    BY <2>1, <2>2, RecoverablePlace
  <2>3. CASE Block(w)
    <3>1. UNCHANGED <<cell, head, seq, index, chunkLoc, jHandles, jChunks, locating, reclaimTo, locateErr,
                      content, written>>
      BY <2>3 DEF Block, ring, maps, bounds, disk, errs
    <3>2. \/ UNCHANGED <<packing, runs>>
          \/ StartPack(Cut(index, order, head, 0), index, order)
      BY <2>3 DEF Block
    <3>3. NewOnly
      BY <3>2, Started
    <3> QED  BY <1>2, <3>1, <3>3
  <2>4. CASE Refuse(w)
    BY <1>3, <2>4 DEF Refuse, ring, maps, pipe, bounds, disk, errs
  <2> QED  BY <1>4, <2>2, <2>3, <2>4 DEF Write
<1>5. ASSUME NEW ino \in Inodes, Forget(ino) PROVE Recoverable'
  <2>1. /\ UNCHANGED <<cell, head, seq, index, chunkLoc, jHandles, jChunks, locating, reclaimTo, locateErr, runs>>
        /\ content' = [content EXCEPT ![ino] = 0] /\ written' = [written EXCEPT ![ino] = NoData]
    BY <1>5 DEF Forget, ring, pipe, errs, disk
  <2>2. content \in [Inodes -> 0..MaxHandle] /\ DOMAIN written = Inodes
    BY DEF BookInv, MapInv, MapTypes, WaitInv, WaitTypes
  <2>3. \A i \in Inodes : \/ content'[i] = content[i] /\ written'[i] = written[i]
                          \/ content'[i] = 0
    BY <2>1, <2>2
  <2>4. NewOnly
    BY <2>1 DEF NewOnly
  <2> QED  BY <1>2, <2>1, <2>3, <2>4
<1>6. ASSUME NEW r \in Readers, EndRead(r) \/ \E ino \in Inodes : BeginRead(r, ino) PROVE Recoverable'
  BY <1>3, <1>6 DEF EndRead, BeginRead, ring, maps, pipe, bounds, disk, errs
<1>7. ASSUME NEW b \in DOMAIN runs, Snapshot(b) \/ ChunkAndPack(b) PROVE Recoverable'
  <2>1. UNCHANGED <<cell, head, seq, index, chunkLoc, jHandles, jChunks, locating, reclaimTo, locateErr,
                    content, written>>
    BY <1>7 DEF Snapshot, ChunkAndPack, ring, maps, errs, disk, bounds
  <2>2. /\ runs[b].phase \in Active /\ runs[b] \in RunOf
        /\ \A x \in DOMAIN runs : x # b => x \in DOMAIN runs' /\ runs'[x] = runs[x]
        /\ \A x \in DOMAIN runs' : x \in DOMAIN runs /\ (x # b => runs'[x] = runs[x])
        /\ b \in DOMAIN runs' => runs'[b].phase \in Active
    <3>1. runs[b] \in RunOf
      BY AnyRun
    <3>2. CASE Snapshot(b)
      BY <3>1, <3>2 DEF Snapshot, InRun, Active, RunOf
    <3>3. CASE ChunkAndPack(b)
      BY <3>1, <3>3 DEF ChunkAndPack, FailFlush, InRun, Active, RunOf
    <3> QED  BY <1>7, <3>1, <3>2, <3>3
  <2>3. SameUnrecorded
    <3>1. Unrecorded' = Unrecorded /\ b \notin Unrecorded
      BY <2>2 DEF Unrecorded, Active
    <3> QED  BY <2>2, <3>1 DEF SameUnrecorded, Unrecorded
  <2>4. \A i \in Inodes : content'[i] = content[i] /\ written'[i] = written[i]
    BY <2>1
  <2> QED  BY <1>1, <2>1, <2>3, <2>4, RecoverableQuiet
<1>8. ASSUME NEW b \in DOMAIN runs, Publish(b) \/ Journal(b) \/ Settle(b) PROVE Recoverable'
  BY <1>1, <1>8, RecoverablePublish, RecoverableJournal, RecoverableSettle
<1>9. ASSUME NEW p \in DOMAIN packs, UploadEnds(p) PROVE Recoverable'
  BY <1>3, <1>9 DEF UploadEnds, ring, maps, pipe, errs, disk
<1>10. CASE Flush
  <2>1. UNCHANGED <<cell, head, seq, index, chunkLoc, jHandles, jChunks, locating, reclaimTo, locateErr,
                    content, written>>
    BY <1>10 DEF Flush, ring, maps, bounds, disk
  <2>2. PICK at \in {"pack", "locate"}, err \in {locateErr, flushErr} : FlushFrom(at, err)
    BY <1>10 DEF Flush, BeginFlush
  <2>3. \/ UNCHANGED <<packing, runs>>
        \/ StartPack(Cut(index, order, head, 0), index, order)
    BY <2>2, FlushTurn
  <2>4. NewOnly
    BY <2>3, Started
  <2> QED  BY <1>2, <2>1, <2>4
<1>11. CASE Drain \/ Freeze \/ Finish \/ Release
  BY <1>3, <1>11 DEF Drain, Freeze, Finish, Release, ring, maps, pipe, bounds, disk, errs
<1> QED  BY <1>4, <1>5, <1>6, <1>7, <1>8, <1>9, <1>10, <1>11 DEF Next

-----------------------------------------------------------------------------
(* Before the first crash: what is sealed.                                 *)

(* A pack that was sent was sent for good, whether it landed or not, and   *)
(* one that failed has left the queue's error behind.                      *)
Forward ==
    /\ \A p \in DOMAIN packs :
          /\ p \in DOMAIN packs' /\ (packs[p] # "unsent" => packs'[p] # "unsent")
          /\ packs[p] \in {"landed", "failed"} => packs'[p] = packs[p]
    /\ \A p \in DOMAIN packs' : p \in DOMAIN packs \/ packs'[p] = "queued"

(* Every step but a crash goes forward.                                   *)
LEMMA PacksStep ==
    ASSUME BookInv, Next, ~Crash
    PROVE  Forward /\ (PacksSent => PacksSent')
<1> DEFINE Goal == Forward /\ (PacksSent => PacksSent')
<1>1. ASSUME UNCHANGED <<packs, queueErr>> PROVE Goal
  BY <1>1 DEF PacksSent, Forward
<1>2. ASSUME packs' = Append(packs, "queued"), queueErr' = queueErr PROVE Goal
  <2>1. packs \in Seq({"queued", "landed", "failed", "unsent"})
    BY DEF BookInv, SendTypes
  <2>2. /\ DOMAIN packs' = 1..Len(packs) + 1 /\ DOMAIN packs = 1..Len(packs) /\ Len(packs) \in Nat
        /\ packs'[Len(packs) + 1] = "queued" /\ \A p \in DOMAIN packs : packs'[p] = packs[p]
    BY <1>2, <2>1
  <2>3. \A p \in DOMAIN packs' : p \in DOMAIN packs \/ packs'[p] = "queued"
    BY <2>2
  <2>4. \A p \in DOMAIN packs : p \in DOMAIN packs'
    BY <2>2
  <2> QED  BY <1>2, <2>2, <2>3, <2>4 DEF PacksSent, Forward
<1>3. ASSUME NEW p \in DOMAIN packs, UploadEnds(p) PROVE Goal
  <2>1. packs[p] = "queued"
    BY <1>3 DEF UploadEnds, Queued
  <2>2. \/ packs' = [packs EXCEPT ![p] = "landed"] /\ queueErr' = queueErr
        \/ packs' = [packs EXCEPT ![p] = "failed"] /\ queueErr' = TRUE
    BY <1>3 DEF UploadEnds
  <2>3. DOMAIN packs' = DOMAIN packs /\ \A x \in DOMAIN packs : x # p => packs'[x] = packs[x]
    BY <2>2
  <2>4. packs'[p] = "landed" \/ (packs'[p] = "failed" /\ queueErr' = TRUE)
    BY <2>2
  <2> QED  BY <2>1, <2>2, <2>3, <2>4 DEF PacksSent, Forward
<1> HIDE DEF Goal
<1>4. ASSUME NEW w \in Writers, Write(w) PROVE UNCHANGED <<packs, queueErr>>
  BY <1>4 DEF Write, Place, Block, Refuse, sends
<1>5. ASSUME NEW ino \in Inodes, Forget(ino) PROVE UNCHANGED <<packs, queueErr>>
  BY <1>5 DEF Forget, sends
<1>6. ASSUME NEW r \in Readers, EndRead(r) \/ \E ino \in Inodes : BeginRead(r, ino)
      PROVE  UNCHANGED <<packs, queueErr>>
  BY <1>6 DEF EndRead, BeginRead, sends
<1>7. ASSUME NEW b \in DOMAIN runs, Snapshot(b) \/ Publish(b) \/ Journal(b) \/ Settle(b)
      PROVE  UNCHANGED <<packs, queueErr>>
  BY <1>7 DEF Snapshot, Publish, Journal, Settle, sends
<1>8. ASSUME NEW b \in DOMAIN runs, ChunkAndPack(b)
      PROVE  UNCHANGED <<packs, queueErr>> \/ (packs' = Append(packs, "queued") /\ queueErr' = queueErr)
  BY <1>8 DEF ChunkAndPack
<1>9. ASSUME Flush \/ Drain \/ Freeze \/ Finish \/ Release PROVE UNCHANGED <<packs, queueErr>>
  BY <1>9 DEF Flush, Drain, Freeze, Finish, Release, sends
<1>10. Goal
  BY <1>1, <1>2, <1>3, <1>4, <1>5, <1>6, <1>7, <1>8, <1>9 DEF Next
<1> QED  BY <1>10 DEF Goal

(* While a generation is sealed nothing it names changes its chunk, or the *)
(* pack of it.                                                             *)
LEMMA SealedStands ==
    ASSUME BookInv, BodyInv, BodyInv', Next, ~Crash, ck = "sealed", ck' = "sealed"
    PROVE  /\ frozen' = frozen
           /\ \A i \in Inodes : frozen[i] # 0 =>
                 /\ handleLoc'[frozen[i]] = handleLoc[frozen[i]]
                 /\ chunkLoc'[handleLoc[frozen[i]]] = chunkLoc[handleLoc[frozen[i]]]
<1> DEFINE Goal == /\ frozen' = frozen
                   /\ \A i \in Inodes : frozen[i] # 0 =>
                         /\ handleLoc'[frozen[i]] = handleLoc[frozen[i]]
                         /\ chunkLoc'[handleLoc[frozen[i]]] = chunkLoc[handleLoc[frozen[i]]]
<1>1. \A i \in Inodes : frozen[i] # 0 =>
          /\ frozen[i] \in Handles /\ frozen[i] \notin DOMAIN index
          /\ handleLoc[frozen[i]] \in Data /\ chunkLoc[handleLoc[frozen[i]]] # 0
  BY DEF BookInv, MapInv, MapTypes, FrozenOut, BodyInv, FrozenLocated, Handles, Bodies
<1>2. ASSUME frozen' = frozen, chunkLoc' = chunkLoc, NEW dom, NEW lv, NEW d, Apply(dom, lv, d) PROVE Goal
  <2>1. \A i \in Inodes : frozen[i] # 0 => handleLoc'[frozen[i]] # NoData
    BY <1>2 DEF BodyInv, FrozenLocated
  <2>2. \A h \in Handles : handleLoc'[h] = NoData \/ handleLoc'[h] = handleLoc[h]
    BY <1>2 DEF Apply
  <2> QED  BY <1>1, <1>2, <2>1, <2>2
<1>3. ASSUME UNCHANGED <<frozen, chunkLoc, handleLoc>> PROVE Goal
  BY <1>3
<1>4. ASSUME NEW b \in DOMAIN runs, Publish(b) PROVE Goal
  <2>1. /\ frozen' = frozen /\ runs[b].phase = "packed"
        /\ handleLoc' = [h \in Handles |-> IF h \notin runs[b].plan THEN handleLoc[h]
                                           ELSE IF live[h] > 0 THEN runs[b].loc[h] ELSE NoData]
        /\ chunkLoc' = [c \in Data |-> IF c \in runs[b].stored THEN runs[b].pack ELSE chunkLoc[c]]
    BY <1>4 DEF Publish, InRun
  <2>2. runs[b].plan \subseteq DOMAIN index
    BY <2>1 DEF BookInv, RunInv, RunTakes, Active
  <2>3. \A c \in runs[b].stored : chunkLoc[c] = 0
    BY <2>1 DEF BodyInv, PacksCut, CutRight
  <2> QED  BY <1>1, <2>1, <2>2, <2>3
<1> HIDE DEF Goal
<1>5. ASSUME NEW w \in Writers, NEW ino \in Inodes, NEW d \in Data, Place(w, ino, d) PROVE Goal
  <2>1. frozen' = frozen /\ chunkLoc' = chunkLoc
    BY <1>5 DEF Place
  <2>2. \E dom, lv, dl : Apply(dom, lv, dl)
    BY <1>5 DEF Place
  <2> QED  BY <1>2, <2>1, <2>2
<1>6. ASSUME NEW w \in Writers, Write(w) PROVE Goal
  <2>1. ASSUME Block(w) \/ Refuse(w) PROVE UNCHANGED <<frozen, chunkLoc, handleLoc>>
    BY <2>1 DEF Block, Refuse, maps
  <2> QED  BY <1>3, <1>5, <1>6, <2>1 DEF Write
<1>7. ASSUME NEW ino \in Inodes, Forget(ino) PROVE Goal
  <2>1. frozen' = frozen /\ chunkLoc' = chunkLoc
    BY <1>7 DEF Forget
  <2>2. \E dom, lv, dl : Apply(dom, lv, dl)
    BY <1>7 DEF Forget
  <2> QED  BY <1>2, <2>1, <2>2
<1>8. ASSUME NEW r \in Readers, EndRead(r) \/ \E ino \in Inodes : BeginRead(r, ino) PROVE Goal
  BY <1>3, <1>8 DEF EndRead, BeginRead, maps
<1>9. ASSUME NEW b \in DOMAIN runs, Snapshot(b) \/ ChunkAndPack(b) \/ Journal(b) \/ Settle(b) PROVE Goal
  BY <1>3, <1>9 DEF Snapshot, ChunkAndPack, Journal, Settle, maps
<1>10. ASSUME NEW p \in DOMAIN packs, UploadEnds(p) PROVE Goal
  BY <1>3, <1>10 DEF UploadEnds, maps
<1>11. ASSUME Flush \/ Drain \/ Finish PROVE Goal
  BY <1>3, <1>11 DEF Flush, Drain, Finish, maps
<1>12. ~Freeze /\ ~Release
  BY DEF Freeze, Release
<1>13. Goal
  BY <1>4, <1>6, <1>7, <1>8, <1>9, <1>10, <1>11, <1>12 DEF Next
<1> QED  BY <1>13 DEF Goal

(* Only Finish seals.                                                      *)
LEMMA OnlyFinishSeals ==
    ASSUME Next, ~Crash, ck' = "sealed"
    PROVE  ck = "sealed" \/ Finish
<1>1. ASSUME NEW w \in Writers, Write(w) PROVE ck' = ck
  BY <1>1 DEF Write, Place, Block, Refuse, point
<1>2. ASSUME NEW ino \in Inodes, Forget(ino) PROVE ck' = ck
  BY <1>2 DEF Forget, point
<1>3. ASSUME NEW r \in Readers, EndRead(r) \/ \E ino \in Inodes : BeginRead(r, ino) PROVE ck' = ck
  BY <1>3 DEF EndRead, BeginRead, point
<1>4. ASSUME NEW b \in DOMAIN runs, Snapshot(b) \/ ChunkAndPack(b) \/ Publish(b) \/ Journal(b) \/ Settle(b)
      PROVE  ck' = ck
  BY <1>4 DEF Snapshot, ChunkAndPack, Publish, Journal, Settle, point
<1>5. ASSUME NEW p \in DOMAIN packs, UploadEnds(p) PROVE ck' = ck
  BY <1>5 DEF UploadEnds, point
<1>6. ~Flush
  <2>1. ASSUME Flush PROVE ck' # "sealed"
    <3>1. BeginFlush \/ (ck \in {"pack", "locate"} /\ FlushFrom(ck, flushErr))
      BY <2>1 DEF Flush
    <3>2. \E at \in {"pack", "locate"}, err \in {flushErr, locateErr} : FlushFrom(at, err)
      BY <3>1 DEF BeginFlush
    <3> QED  BY <3>2, FlushTurn
  <2> QED  BY <2>1
<1>7. ~Drain /\ ~Freeze /\ ~Release
  BY DEF Drain, Freeze, Release
<1> QED  BY <1>1, <1>2, <1>3, <1>4, <1>5, <1>6, <1>7 DEF Next

(* A pack that a chunk names was not left behind by a session before it.   *)
LEMMA NamedStep ==
    ASSUME BookInv, PacksNamed, Next, ~Crash
    PROVE  PacksNamed'
<1> DEFINE Sent(p) == p # 0 => packs[p] # "unsent"
<1>1. Forward
  BY PacksStep
<1>2. \A p \in Nat : p <= Len(packs) => p = 0 \/ p \in DOMAIN packs
  BY DEF BookInv, SendTypes
<1>3. /\ chunkLoc \in [Data -> 0..Len(packs)] /\ jChunks \in [Data -> 0..Len(packs)]
      /\ Len(packs) \in Nat
      /\ \A b \in DOMAIN runs : runs[b].pack \in Nat /\ runs[b].pack <= Len(packs)
  BY AnyRun DEF BookInv, SendTypes
<1>4. /\ \A c \in Data : chunkLoc[c] # 0 => packs'[chunkLoc[c]] # "unsent"
      /\ \A c \in Data : jChunks[c] # 0 => packs'[jChunks[c]] \in {"landed", "failed"}
      /\ \A b \in DOMAIN runs : runs[b].pack # 0 => packs'[runs[b].pack] # "unsent"
  BY <1>1, <1>2, <1>3 DEF PacksNamed, Forward
<1>5. ASSUME UNCHANGED <<chunkLoc, jChunks>>,
             \A x \in DOMAIN runs' : \/ runs'[x].pack = 0
                                     \/ x \in DOMAIN runs /\ runs'[x].pack = runs[x].pack
                                     \/ packs'[runs'[x].pack] # "unsent"
      PROVE  PacksNamed'
  BY <1>4, <1>5 DEF PacksNamed
<1>6. ASSUME NEW places, NEW ix, NEW ord, UNCHANGED <<chunkLoc, jChunks>>,
             StartPack(places, ix, ord) \/ UNCHANGED <<packing, runs>>
      PROVE  PacksNamed'
  <2>1. CASE UNCHANGED <<packing, runs>>
    BY <1>5, <1>6, <2>1
  <2>2. CASE StartPack(places, ix, ord)
    <3>1. \A x \in DOMAIN runs' : runs'[x].pack = 0 \/ (x \in DOMAIN runs /\ runs'[x].pack = runs[x].pack)
      BY <2>2 DEF StartPack, Extended
    <3> QED  BY <1>5, <1>6, <3>1
  <2> QED  BY <1>6, <2>1, <2>2
<1>7. ASSUME NEW w \in Writers, Write(w) PROVE PacksNamed'
  <2>1. ASSUME NEW ino \in Inodes, NEW d \in Data, Place(w, ino, d) PROVE PacksNamed'
    <3>1. \E places, ix, ord : StartPack(places, ix, ord) \/ UNCHANGED <<packing, runs>>
      BY <2>1 DEF Place
    <3> QED  BY <1>6, <2>1, <3>1 DEF Place, disk
  <2>2. ASSUME Block(w) PROVE PacksNamed'
    <3>1. \E places, ix, ord : StartPack(places, ix, ord) \/ UNCHANGED <<packing, runs>>
      BY <2>2 DEF Block
    <3> QED  BY <1>6, <2>2, <3>1 DEF Block, disk, maps
  <2>3. ASSUME Refuse(w) PROVE PacksNamed'
    BY <1>5, <2>3 DEF Refuse, disk, maps, pipe
  <2> QED  BY <1>7, <2>1, <2>2, <2>3 DEF Write
<1>8. CASE Flush
  <2>1. BeginFlush \/ (ck \in {"pack", "locate"} /\ FlushFrom(ck, flushErr))
    BY <1>8 DEF Flush
  <2>2. \E at \in {"pack", "locate"}, err \in {flushErr, locateErr} : FlushFrom(at, err)
    BY <2>1 DEF BeginFlush
  <2>3. \E places, ix, ord : StartPack(places, ix, ord) \/ UNCHANGED <<packing, runs>>
    BY <2>2, FlushTurn
  <2> QED  BY <1>6, <1>8, <2>3 DEF Flush, disk, maps
<1>9. ASSUME NEW ino \in Inodes, Forget(ino) PROVE PacksNamed'
  BY <1>5, <1>9 DEF Forget, disk, pipe
<1>10. ASSUME NEW r \in Readers, EndRead(r) \/ \E ino \in Inodes : BeginRead(r, ino) PROVE PacksNamed'
  BY <1>5, <1>10 DEF EndRead, BeginRead, disk, pipe, maps
<1>11. ASSUME NEW p \in DOMAIN packs, UploadEnds(p) PROVE PacksNamed'
  BY <1>5, <1>11 DEF UploadEnds, disk, pipe, maps
<1>12. CASE Drain \/ Freeze \/ Finish \/ Release
  BY <1>5, <1>12 DEF Drain, Freeze, Finish, Release, disk, pipe, maps
<1>13. ASSUME NEW b \in DOMAIN runs, Snapshot(b) \/ ChunkAndPack(b) \/ Settle(b) PROVE PacksNamed'
  <2>1. UNCHANGED <<chunkLoc, jChunks>>
    BY <1>13 DEF Snapshot, ChunkAndPack, Settle, maps, disk
  <2>2. ASSUME Snapshot(b) \/ Settle(b)
        PROVE  \A x \in DOMAIN runs' : x \in DOMAIN runs /\ runs'[x].pack = runs[x].pack
    <3>1. ASSUME Snapshot(b), NEW x \in DOMAIN runs' PROVE x \in DOMAIN runs /\ runs'[x].pack = runs[x].pack
      BY <3>1, AnyRun DEF Snapshot, RunOf
    <3> QED  BY <2>2, <3>1 DEF Settle
  <2>3. ASSUME ChunkAndPack(b)
        PROVE  \A x \in DOMAIN runs' :
                  \/ x \in DOMAIN runs /\ runs'[x].pack = runs[x].pack
                  \/ packs'[runs'[x].pack] # "unsent"
    <3> DEFINE loc    == [h \in Handles |-> IF h \in runs[b].plan THEN Payload(h) ELSE NoData]
               stored == {c \in Data : chunkLoc[c] = 0 /\ \E h \in runs[b].plan : loc[h] = c}
               Same == \A x \in DOMAIN runs' : x \in DOMAIN runs /\ runs'[x].pack = runs[x].pack
               New  == \A x \in DOMAIN runs' : \/ x \in DOMAIN runs /\ runs'[x].pack = runs[x].pack
                                             \/ runs'[x].pack = Len(packs')
    <3>1. Same \/ (packs' = Append(packs, "queued") /\ New)
      <4>1. \/ runs' = [runs EXCEPT ![b].phase = "packed", ![b].loc = loc]
            \/ /\ packs' = Append(packs, "queued")
               /\ runs' = [runs EXCEPT ![b].phase = "packed", ![b].loc = loc, ![b].stored = stored,
                                       ![b].pack = Len(packs')]
            \/ runs' = [x \in DOMAIN runs \ {b} |-> runs[x]]
        BY <2>3 DEF ChunkAndPack, FailFlush
      <4> HIDE DEF loc, stored
      <4>2. CASE runs' = [runs EXCEPT ![b].phase = "packed", ![b].loc = loc]
        BY <4>2, AnyRun DEF RunOf
      <4>3. CASE /\ packs' = Append(packs, "queued")
                 /\ runs' = [runs EXCEPT ![b].phase = "packed", ![b].loc = loc, ![b].stored = stored,
                                         ![b].pack = Len(packs')]
        <5>1. New
          BY <4>3, AnyRun DEF RunOf
        <5> QED  BY <4>3, <5>1
      <4>4. CASE runs' = [x \in DOMAIN runs \ {b} |-> runs[x]]
        BY <4>4
      <4> QED  BY <4>1, <4>2, <4>3, <4>4
    <3> HIDE DEF loc, stored
    <3>2. packs' = Append(packs, "queued") => packs'[Len(packs')] = "queued"
      BY DEF BookInv, SendTypes
    <3> QED  BY <3>1, <3>2
  <2> QED  BY <1>5, <1>13, <2>1, <2>2, <2>3
<1>14. ASSUME NEW b \in DOMAIN runs, Publish(b) PROVE PacksNamed'
  <2>1. /\ chunkLoc' = [c \in Data |-> IF c \in runs[b].stored THEN runs[b].pack ELSE chunkLoc[c]]
        /\ jChunks' = jChunks
        /\ \A x \in DOMAIN runs' : x \in DOMAIN runs /\ runs'[x].pack = runs[x].pack
    BY <1>14 DEF Publish, disk
  <2> QED  BY <1>4, <2>1 DEF PacksNamed
<1>15. ASSUME NEW b \in DOMAIN runs, Journal(b) PROVE PacksNamed'
  <2>1. /\ chunkLoc' = chunkLoc /\ packs' = packs
        /\ \/ jChunks' = [c \in Data |-> IF c \in runs[b].stored THEN runs[b].pack ELSE jChunks[c]]
           \/ jChunks' = jChunks
    BY <1>15 DEF Journal, disk, maps, sends
  <2>3. \A x \in DOMAIN runs' : x \in DOMAIN runs /\ runs'[x].pack = runs[x].pack
    <3>1. ASSUME NEW ph, runs' = [runs EXCEPT ![b].phase = ph], NEW x \in DOMAIN runs'
          PROVE  x \in DOMAIN runs /\ runs'[x].pack = runs[x].pack
      BY <3>1, AnyRun DEF RunOf
    <3> QED  BY <1>15, <3>1 DEF Journal
  <2>2. runs[b].pack # 0 => packs[runs[b].pack] \in {"landed", "failed"}
    <3>1. runs[b].pack \notin Queued
      BY <1>15 DEF Journal
    <3>2. \A p \in DOMAIN packs : packs[p] \in {"queued", "landed", "failed", "unsent"}
      BY DEF BookInv, SendTypes
    <3> QED  BY <1>2, <1>3, <3>1, <3>2 DEF PacksNamed, Queued
  <2> QED  BY <1>4, <2>1, <2>2, <2>3 DEF PacksNamed
<1> QED  BY <1>7, <1>8, <1>9, <1>10, <1>11, <1>12, <1>13, <1>14, <1>15 DEF Next

(* The session after a crash knows the chunks that have rows.              *)
LEMMA NamedCrash ==
    ASSUME BookInv, PacksNamed, Crash
    PROVE  PacksNamed'
<1>1. /\ chunkLoc' = jChunks /\ jChunks' = jChunks /\ runs' = << >>
      /\ packs' = [p \in DOMAIN packs |-> IF packs[p] = "queued" THEN "unsent" ELSE packs[p]]
  BY DEF Crash, Recover, disk
<1>2. \A p \in Nat : p <= Len(packs) => p = 0 \/ p \in DOMAIN packs
  BY DEF BookInv, SendTypes
<1>3. jChunks \in [Data -> 0..Len(packs)] /\ Len(packs) \in Nat
  BY DEF BookInv, SendTypes
<1>4. \A c \in Data : jChunks[c] # 0 => packs'[jChunks[c]] \in {"landed", "failed"}
  BY <1>1, <1>2, <1>3 DEF PacksNamed
<1> QED  BY <1>1, <1>4 DEF PacksNamed

(* What is sealed landed, when it is sealed and from then on: no upload of *)
(* this session failed, by the queue's error, and none of a session before *)
(* it.                                                                     *)
LEMMA SealedStep ==
    ASSUME BookInv, BodyInv, BodyInv', PacksNamed, PacksSent \/ NoneFailed, SealedPacksLanded,
           Next, ~Crash
    PROVE  SealedPacksLanded'
<1>1. SUFFICES ASSUME ck' = "sealed", NEW i \in Inodes, frozen'[i] # 0
               PROVE  packs'[chunkLoc'[handleLoc'[frozen'[i]]]] = "landed"
  BY DEF SealedPacksLanded
<1>2. ASSUME frozen[i] # 0
      PROVE  /\ chunkLoc[handleLoc[frozen[i]]] \in DOMAIN packs
             /\ packs[chunkLoc[handleLoc[frozen[i]]]] # "unsent"
  <2>1. handleLoc[frozen[i]] \in Data /\ chunkLoc[handleLoc[frozen[i]]] # 0
    BY <1>2 DEF BookInv, MapInv, MapTypes, BodyInv, FrozenLocated, Handles, Bodies
  <2>2. /\ chunkLoc[handleLoc[frozen[i]]] \in 0..Len(packs)
        /\ packs \in Seq({"queued", "landed", "failed", "unsent"})
    BY <2>1 DEF BookInv, SendTypes
  <2> QED  BY <2>1, <2>2 DEF PacksNamed
<1>3. CASE ck = "sealed"
  <2>1. /\ frozen' = frozen /\ frozen[i] # 0
        /\ handleLoc'[frozen[i]] = handleLoc[frozen[i]]
        /\ chunkLoc'[handleLoc[frozen[i]]] = chunkLoc[handleLoc[frozen[i]]]
    BY <1>1, <1>3, SealedStands
  <2>2. packs[chunkLoc[handleLoc[frozen[i]]]] = "landed"
    BY <1>3, <2>1 DEF SealedPacksLanded
  <2> QED  BY <1>2, <2>1, <2>2, PacksStep DEF Forward
<1>4. CASE Finish
  <2>1. /\ ~queueErr /\ Queued = {}
        /\ frozen' = frozen /\ handleLoc' = handleLoc /\ chunkLoc' = chunkLoc /\ packs' = packs
    BY <1>4 DEF Finish, maps, sends
  <2>2. packs \in Seq({"queued", "landed", "failed", "unsent"})
    BY DEF BookInv, SendTypes
  <2>3. \A p \in DOMAIN packs : packs[p] \in {"queued", "landed", "failed", "unsent"}
    BY <2>2
  <2>4. \A p \in DOMAIN packs : packs[p] # "unsent" => packs[p] = "landed"
    BY <2>1, <2>3 DEF PacksSent, NoneFailed, Queued
  <2> QED  BY <1>1, <1>2, <2>1, <2>4
<1> QED  BY <1>1, <1>3, <1>4, OnlyFinishSeals

-----------------------------------------------------------------------------
(* The data invariant, and what it says.                                   *)

(* No file has a body at first.                                            *)
LEMMA DataInit == ASSUME Init PROVE DataInv
<1>1. /\ cell = [o \in 0..RingSize - 1 |-> Empty] /\ head = 0 /\ tail = 0 /\ index = << >>
      /\ content = NoView /\ frozen = NoView /\ written = [i \in Inodes |-> NoData]
      /\ chunkLoc = [c \in Data |-> 0] /\ jHandles = [h \in Handles |-> NoData]
      /\ runs = << >> /\ locating = << >> /\ packs = << >> /\ ck = "idle"
  BY DEF Init
<1>2. /\ DOMAIN index = {} /\ DOMAIN runs = {} /\ DOMAIN packs = {} /\ tail..head - 1 = {}
      /\ \A i \in Inodes : content[i] = 0 /\ frozen[i] = 0 /\ written[i] = NoData
      /\ \A o \in 0..RingSize - 1 : cell[o].h = 0
  BY <1>1 DEF NoView, Empty
<1>3. CellsFull
  BY <1>2 DEF CellsFull
<1>4. BodyInv
  BY <1>2 DEF BodyInv, Files, FrozenLocated, PacksCut
<1>5. SeqAscends /\ CellsMatch /\ RowsMatch
  BY <1>2 DEF SeqAscends, CellsMatch, RowsMatch
<1>6. PlansMatch
  BY <1>2 DEF PlansMatch
<1>7. Durable
  <2>1. \A h \in Handles : h # 0
    BY DEF Handles
  <2> QED  BY <1>2, <2>1 DEF Durable
<1>8. ChunksDue
  BY <1>1 DEF ChunksDue
<1>9. PacksSent /\ PacksNamed /\ SealedPacksLanded
  BY <1>1, <1>2 DEF PacksSent, PacksNamed, SealedPacksLanded, Init
<1> QED  BY <1>3, <1>4, <1>5, <1>6, <1>7, <1>8, <1>9 DEF DataInv, FirstInv, LandsInv, Recoverable

(* Every step keeps the bodies; a crash keeps them once.                   *)
LEMMA DataStep == ASSUME BookInv, RingInv, DataInv, [Next]_vars PROVE DataInv'
<1>1. crashes \in Nat
  BY DEF BookInv, WaitInv, WaitTypes
<1>2. CellsFull'
  BY FullStep DEF DataInv
<1>3. CASE Crash
  <2>1. crashes' = crashes + 1 /\ ck' = "idle"
    BY <1>3 DEF Crash
  <2>2. ASSUME crashes = 0 PROVE BodyInv'
    BY <1>3, <2>2, BodyCrash DEF RingInv, DataInv, LandsInv
  <2>3. crashes' # 0 /\ (crashes' <= 1 => crashes = 0)
    BY <1>1, <2>1
  <2>4. SealedPacksLanded'
    BY <2>1 DEF SealedPacksLanded
  <2>5. PacksNamed'
    BY <1>3, NamedCrash DEF DataInv
  <2> QED  BY <1>2, <2>2, <2>3, <2>4, <2>5 DEF DataInv, LandsInv
<1>4. ASSUME Next, ~Crash PROVE DataInv'
  <2>1. crashes' = crashes
    BY <1>4, CountedCrashes
  <2>2. PacksNamed'
    BY <1>4, NamedStep DEF DataInv
  <2>3. ASSUME crashes <= 1 PROVE BodyInv'
    BY <1>4, <2>3, BodyStep DEF RingInv, DataInv, LandsInv
  <2>4. ASSUME crashes <= 1, NoneFailed' PROVE SealedPacksLanded'
    <3>1. NoneFailed
      BY <1>4, <2>4, PacksStep DEF Forward, NoneFailed
    <3>2. BodyInv /\ SealedPacksLanded /\ PacksNamed
      BY <2>4, <3>1 DEF DataInv, LandsInv
    <3> QED  BY <1>4, <2>3, <2>4, <3>1, <3>2, SealedStep
  <2>5. ASSUME crashes = 0 PROVE FirstInv'
    <3>1. Aligned /\ CellsDistinct /\ BodyInv /\ BodyInv' /\ FirstInv /\ PacksNamed
      BY <1>1, <2>3, <2>5 DEF RingInv, DataInv, LandsInv
    <3>2. Recoverable'
      BY <1>4, <3>1, RecoverableStep DEF FirstInv
    <3>3. PacksSent'
      BY <1>4, <3>1, PacksStep DEF FirstInv
    <3>4. SealedPacksLanded'
      BY <1>4, <3>1, SealedStep DEF FirstInv
    <3> QED  BY <3>2, <3>3, <3>4 DEF FirstInv
  <2> QED  BY <1>2, <2>1, <2>2, <2>3, <2>4, <2>5 DEF DataInv, LandsInv
<1>5. CASE UNCHANGED vars
  <2>1. /\ UNCHANGED <<cell, head, tail, seq, index, content, written, frozen, handleLoc, chunkLoc>>
        /\ UNCHANGED <<runs, locating, reclaimTo, locateErr, queueErr, packs, jHandles, jChunks, ck, crashes>>
    BY <1>5 DEF vars, bounds, ring, maps, errs, pipe, sends, disk, point
  <2>2. BodyInv => BodyInv'
    BY <2>1 DEF BodyInv, Files, FrozenLocated, PacksCut, CutRight, At
  <2>3. Recoverable => Recoverable'
    <3>1. SameUnrecorded /\ head \in Nat /\ tail \in Nat
      BY <2>1 DEF SameUnrecorded, Unrecorded, BookInv, RingTypes
    <3>2. ASSUME Recoverable PROVE Recoverable'
      BY <2>1, <3>1, <3>2, RecoverableQuiet
    <3> QED  BY <3>2
  <2>4. /\ PacksSent => PacksSent'
        /\ SealedPacksLanded => SealedPacksLanded'
        /\ NoneFailed' => NoneFailed
        /\ PacksNamed => PacksNamed'
    BY <2>1 DEF PacksSent, SealedPacksLanded, NoneFailed, PacksNamed
  <2> QED  BY <1>2, <2>1, <2>2, <2>3, <2>4 DEF DataInv, LandsInv, FirstInv
<1> QED  BY <1>3, <1>4, <1>5

(* The body of every file is where reads and the recovery look for it, in  *)
(* every state of a session that was recovered at most once.               *)
THEOREM DataKept == Spec => []DataInv
<1>1. Init => DataInv
  BY DataInit
<1>2. BookInv /\ RingInv /\ DataInv /\ [Next]_vars => DataInv'
  BY DataStep
<1> QED  BY <1>1, <1>2, BooksKept, RingKept, PTL DEF Spec

(* An extent that was published is read from the pack of its chunk: only a *)
(* failed upload drops the local copy.                                     *)
LEMMA ReadInPack ==
    ASSUME BookInv, NoneFailed, NEW h \in Handles, h \notin DOMAIN index,
           handleLoc[h] # NoData, chunkLoc[handleLoc[h]] # 0
    PROVE  BytesOf(h) = handleLoc[h]
<1>1. handleLoc[h] \in Data
  BY DEF BookInv, MapInv, MapTypes, Bodies
<1>2. /\ chunkLoc[handleLoc[h]] \in 0..Len(packs)
      /\ packs \in Seq({"queued", "landed", "failed", "unsent"})
  BY <1>1 DEF BookInv, SendTypes
<1>3. chunkLoc[handleLoc[h]] \in DOMAIN packs
  BY <1>2
<1> QED  BY <1>3 DEF BytesOf, NoneFailed

(* A file reads as its last acknowledged body, in the session that wrote   *)
(* it and in the one that recovers it after its first crash, wherever the  *)
(* body has got to: in the ring, in a pack that was cut, or in one that is *)
(* only recorded in the journal (resolveLocked, publish, locatedLocked,    *)
(* Recover).                                                               *)
THEOREM BodiesRead == Spec => [](crashes <= 1 /\ NoneFailed => ReadsWhatWasWritten)
<1>1. ASSUME BookInv, DataInv, crashes <= 1, NoneFailed PROVE ReadsWhatWasWritten
  <2>1. SUFFICES ASSUME NEW i \in Inodes
                 PROVE  written[i] = IF content[i] = 0 THEN NoData ELSE BytesOf(content[i])
    BY DEF ReadsWhatWasWritten
  <2>2. /\ (content[i] = 0) = (written[i] = NoData)
        /\ content[i] \in DOMAIN index => At(index[content[i]]).d = written[i]
        /\ content[i] # 0 /\ content[i] \notin DOMAIN index =>
              handleLoc[content[i]] = written[i] /\ chunkLoc[written[i]] # 0
    BY <1>1 DEF DataInv, LandsInv, BodyInv, Files
  <2>3. CASE content[i] = 0
    BY <2>2, <2>3
  <2>4. CASE content[i] # 0 /\ content[i] \in DOMAIN index
    BY <2>2, <2>4 DEF BytesOf
  <2>5. CASE content[i] # 0 /\ content[i] \notin DOMAIN index
    <3>1. content[i] \in Handles
      BY <1>1, <2>5 DEF BookInv, MapInv, MapTypes, Handles
    <3>2. BytesOf(content[i]) = handleLoc[content[i]]
      BY <1>1, <2>2, <2>5, <3>1, ReadInPack
    <3> QED  BY <2>2, <2>5, <3>2
  <2> QED  BY <2>3, <2>4, <2>5
<1> QED  BY <1>1, BooksKept, DataKept, PTL

(* What a seal renders resolves until it is released, whatever is written, *)
(* forgotten, run and collected meanwhile (Freeze, applyLocked, publish).  *)
THEOREM FrozenResolves == Spec => [](crashes <= 1 /\ NoneFailed => FrozenViewResolves)
<1>1. ASSUME BookInv, DataInv, crashes <= 1, NoneFailed PROVE FrozenViewResolves
  <2>1. SUFFICES ASSUME NEW i \in Inodes, frozen[i] # 0 PROVE BytesOf(frozen[i]) # NoData
    BY DEF FrozenViewResolves
  <2>2. frozen[i] \in Handles /\ frozen[i] \notin DOMAIN index
    BY <1>1, <2>1 DEF BookInv, MapInv, MapTypes, FrozenOut, Handles
  <2>3. handleLoc[frozen[i]] # NoData /\ chunkLoc[handleLoc[frozen[i]]] # 0
    BY <1>1, <2>1 DEF DataInv, LandsInv, BodyInv, FrozenLocated
  <2> QED  BY <1>1, <2>2, <2>3, ReadInPack
<1> QED  BY <1>1, BooksKept, DataKept, PTL

(* A generation that is sealed names only packs that landed, in a session  *)
(* that did not crash whatever fails (Finish, enqueue, the queue's sticky  *)
(* error), and in the one after its crash unless an upload failed before   *)
(* it: the location record waits for the uploads, not for their success    *)
(* (runFlush).                                                             *)
THEOREM SealedLanded ==
    Spec => [](crashes <= 1 /\ (crashes = 0 \/ NoneFailed) => SealedPacksLanded)
<1>1. ASSUME DataInv, crashes <= 1, crashes = 0 \/ NoneFailed PROVE SealedPacksLanded
  BY <1>1 DEF DataInv, LandsInv, FirstInv
<1> QED  BY <1>1, DataKept, PTL
=============================================================================
