--------------------------- MODULE MemtableFlush ---------------------------
(***************************************************************************)
(* The write path of internal/memtable: a ring of extent records in a      *)
(* mapped file, pack runs that take the oldest records to packs, an upload *)
(* queue, the journal that records where they went, the checkpoint that    *)
(* flushes and freezes, readers that pin, and recovery of the state        *)
(* directory after the process died.                                       *)
(*                                                                         *)
(* Abstractions.  A record fills one cell, so the ring is RingSize cells   *)
(* and no pad is written at its seam.  A write replaces the whole body of  *)
(* an inode by one extent; an extent is one chunk, whose identity is its   *)
(* data; a run cuts at most one pack.  Handle 0 is "no handle" (the code   *)
(* counts from 0), pack 0 "no pack".  Files taken over from the base       *)
(* generation, and dedup against it, are left out.  The mapped ring, the   *)
(* journal and the local packs outlive the process, and only the process   *)
(* dies: a machine crash, which sync.go is about, is not modelled.         *)
(*                                                                         *)
(* The overlay calls Write and Forget, and the second half of a freeze,    *)
(* with its own lock held: so only one Write waits at a time, and the      *)
(* handle it took on entry is still the next one.  Reads are let in beside *)
(* it, as the store's own lock does.                                       *)
(***************************************************************************)
EXTENDS Integers, Sequences, FiniteSets

CONSTANTS Inodes,      \* files
          Data,        \* bodies a write may carry
          NoData,      \* no body: nothing written, or zeros
          Writers,     \* goroutines that write, one at a time
          Readers,     \* goroutines in Read
          RingSize,    \* cells of the ring
          Promotion,   \* distance behind the head at which a record is old
          PromoteAt,   \* old unclaimed records that start a run
          QueueMax,    \* packs cut and not sent before a cut must wait
          Workers,     \* packs in flight at once
          Faults,      \* kinds of failures: "pack", "upload", "located", "torn"
          MaxHandle,   \* bound: handles given out
          MaxCrashes,  \* bound: crashes
          MaxFaults    \* bound: failures

ASSUME ConstantsAssumption ==
  /\ IsFiniteSet(Inodes) /\ NoData \notin Data
  /\ RingSize \in Nat \ {0} /\ Promotion \in Nat /\ PromoteAt \in Nat \ {0}
  /\ QueueMax \in Nat /\ Workers \in Nat \ {0}
  /\ MaxHandle \in Nat /\ MaxCrashes \in Nat /\ MaxFaults \in Nat
  /\ Faults \subseteq {"pack", "upload", "located", "torn"}
  /\ "checkpoint" \notin Writers

VARIABLES
  cell, head, tail, seq,      \* the ring: cells, absolute positions, next sequence
  index, order, live,         \* records no run has published: position, ring order, references
  handleLoc, locRefs,         \* published extents: their chunk, references
  chunkLoc,                   \* the pack of each chunk
  content,                    \* the extent that is each file's body; also the operation log
  nextHandle,
  packing, runs,              \* a run has not published; the runs, by number
  locating, reclaimTo,        \* published batches without a durable record; where the tail may go
  flushErr, locateErr,
  packs, queueErr,            \* every pack cut, by its state; the queue's sticky error
  jHandles, jChunks,          \* the journal's location rows
  reader, waiting, asleep,    \* positions pinned; writers in appendLocked; who sleeps on cond
  ck, locked, frozen,         \* the checkpoint's point; it holds the overlay's lock; its view
  written, faults, crashes    \* history: last acknowledged body; bounds

ring   == <<cell, head, seq>>
maps   == <<index, order, live, handleLoc, locRefs, chunkLoc, content, nextHandle>>
errs   == <<flushErr, locateErr>>
pipe   == <<packing, runs, locating>>
sends  == <<packs, queueErr>>
disk   == <<jHandles, jChunks>>
point  == <<ck, locked>>
bounds == <<written, faults, crashes>>
vars   == <<ring, tail, maps, errs, pipe, reclaimTo, sends, disk, reader, waiting,
            asleep, point, frozen, bounds>>

Handles == 1..MaxHandle
Lowest(S) == CHOOSE x \in S : \A y \in S : x <= y
Highest(S) == CHOOSE x \in S : \A y \in S : y <= x
NoView == [i \in Inodes |-> 0]
Empty == [h |-> 0, d |-> NoData, seq |-> 0]
Extended(f, x, v) == [y \in DOMAIN f \cup {x} |-> IF y = x THEN v ELSE f[y]]

Init ==
  /\ cell = [o \in 0..RingSize - 1 |-> Empty] /\ head = 0 /\ tail = 0 /\ seq = 1
  /\ index = << >> /\ order = << >> /\ live = [h \in Handles |-> 0]
  /\ handleLoc = [h \in Handles |-> NoData] /\ locRefs = [h \in Handles |-> 0]
  /\ chunkLoc = [c \in Data |-> 0] /\ content = NoView /\ nextHandle = 1
  /\ packing = FALSE /\ runs = << >> /\ locating = << >> /\ reclaimTo = 0
  /\ flushErr = FALSE /\ locateErr = FALSE
  /\ packs = << >> /\ queueErr = FALSE
  /\ jHandles = [h \in Handles |-> NoData] /\ jChunks = [c \in Data |-> 0]
  /\ reader = [r \in Readers |-> [pos |-> -1, h |-> 0]]
  /\ waiting = {} /\ asleep = {} /\ ck = "idle" /\ locked = FALSE /\ frozen = NoView
  /\ written = [i \in Inodes |-> NoData] /\ faults = 0 /\ crashes = 0

-----------------------------------------------------------------------------
(* The ring. *)

At(pos) == cell[pos % RingSize]

Full == head - tail >= RingSize

\* The oldest pinned position, or the head.
OldestPin(rd) == Lowest({head} \cup {rd[r].pos : r \in {x \in Readers : rd[x].pos >= 0}})

(* Reclaim, wrong: the pins are not asked. *)
Reclaim_IgnoresPins(to, rd) == tail' = IF to > tail THEN to ELSE tail

\* Reclaim toward a position, no further than the oldest pin.
Reclaim(to, rd) ==
  tail' = IF to > tail THEN Lowest({to, OldestPin(rd)}) ELSE tail

-----------------------------------------------------------------------------
(* Reference counts, and what a run takes. *)

(* Apply, wrong: a handle published before is looked up by its location first. *)
Apply_LocationsFirst(dom, lv, d) ==
  LET published == {h \in Handles : handleLoc[h] # NoData} IN
  /\ live' = [h \in Handles |-> IF h \in dom \ published THEN lv[h] + d[h] ELSE lv[h]]
  /\ locRefs' = [h \in Handles |-> IF h \in published THEN locRefs[h] + d[h] ELSE locRefs[h]]
  /\ handleLoc' = [h \in Handles |->
       IF h \in published /\ d[h] # 0 /\ locRefs'[h] <= 0 THEN NoData ELSE handleLoc[h]]

\* Push reference deltas onto the handles of the ring (dom) and of the
\* location map; a published handle nobody names any more is dropped.
Apply(dom, lv, d) ==
  /\ live' = [h \in Handles |-> IF h \in dom THEN lv[h] + d[h] ELSE lv[h]]
  /\ locRefs' = [h \in Handles |->
       IF h \notin dom /\ handleLoc[h] # NoData THEN locRefs[h] + d[h] ELSE locRefs[h]]
  /\ handleLoc' = [h \in Handles |->
       IF h \notin dom /\ d[h] # 0 /\ locRefs'[h] <= 0 THEN NoData ELSE handleLoc[h]]

\* One reference to h less.
Release1(h) == [x \in Handles |-> IF x = h THEN -1 ELSE 0]

(* What a frozen view holds, wrong: nothing. *)
Held_Nothing(view) == [h \in Handles |-> 0]

\* The references a frozen view holds.
Held(view) == [h \in Handles |-> Cardinality({ino \in Inodes : view[ino] = h})]

\* Where a run of that distance ends.
AgeLine(hd, distance) == IF hd < distance THEN 0 ELSE hd - distance

\* What a run takes, as places of ring order: the records before the first
\* one that ends past the age line.
Cut(ix, ord, hd, distance) ==
  {k \in DOMAIN ord : /\ ord[k] \in DOMAIN ix
                      /\ \A j \in 1..k : ord[j] \in DOMAIN ix => ix[ord[j]] + 1 <= AgeLine(hd, distance)}

\* The span of the records a run would take: from the first record of ring
\* order no run has published, to the age line.
Promotable(ix, ord, hd, distance) ==
  LET own  == {k \in DOMAIN ord : ord[k] \in DOMAIN ix}
      from == IF own = {} THEN hd ELSE ix[ord[Lowest(own)]]
      to   == AgeLine(hd, distance)
  IN  IF from >= to THEN 0 ELSE to - from

\* The number of a run is above those in use.
NewRun == 1 + Highest({0} \cup DOMAIN runs \cup {locating[k].b : k \in DOMAIN locating})

\* Launch a run over the records at these places.
StartPack(places, ix, ord) ==
  /\ packing' = TRUE
  /\ runs' = Extended(runs, NewRun,
               [phase |-> "cut", recs |-> {ord[k] : k \in places}, cut |-> Cardinality(places),
                to |-> ix[ord[Highest(places)]] + 1, plan |-> {},
                loc |-> [h \in Handles |-> NoData], stored |-> {}, pack |-> 0])

-----------------------------------------------------------------------------
(* Write. *)

\* The record has room: append, index, replace the body, journal the
\* operation, and start a run if enough has grown old.
Place(w, ino, d) ==
  LET h   == nextHandle
      ix  == Extended(index, h, head)
      ord == Append(order, h)
  IN
  /\ ~Full
  /\ cell' = [cell EXCEPT ![head % RingSize] = [h |-> h, d |-> d, seq |-> seq]]
  /\ head' = head + 1 /\ seq' = seq + 1 /\ nextHandle' = h + 1
  /\ index' = ix /\ order' = ord
  /\ Apply(DOMAIN ix, [live EXCEPT ![h] = @ + 1], Release1(content[ino]))
  /\ content' = [content EXCEPT ![ino] = h]
  /\ written' = [written EXCEPT ![ino] = d]
  /\ waiting' = waiting \ {w}
  /\ IF Promotion > 0 /\ ~packing /\ Promotable(ix, ord, head', Promotion) >= PromoteAt
        /\ Cut(ix, ord, head', Promotion) # {}
     THEN StartPack(Cut(ix, ord, head', Promotion), ix, ord)
     ELSE UNCHANGED <<packing, runs>>
  /\ UNCHANGED <<tail, chunkLoc, locating, reclaimTo, errs, sends, disk, reader, asleep,
                 point, frozen, faults, crashes>>

\* No room: start a run over everything if none is in flight, and sleep.
Block(w) ==
  LET places == Cut(index, order, head, 0) IN
  /\ Full /\ ~flushErr /\ ~locateErr
  /\ IF ~packing /\ places # {} THEN StartPack(places, index, order) ELSE UNCHANGED <<packing, runs>>
  /\ waiting' = waiting \cup {w} /\ asleep' = asleep \cup {w}
  /\ UNCHANGED <<ring, tail, maps, locating, reclaimTo, errs, sends, disk, reader, point, frozen, bounds>>

\* No room, and the last run or a location record failed: the write fails.
Refuse(w) ==
  /\ Full /\ (flushErr \/ locateErr)
  /\ waiting' = waiting \ {w}
  /\ UNCHANGED <<ring, tail, maps, errs, pipe, reclaimTo, sends, disk, reader, asleep, point,
                 frozen, bounds>>

(* OverlayFree, wrong: a checkpoint does not hold the overlay's lock. *)
OverlayFree_Writers == waiting = {}

\* The overlay's lock is held by the write that waits, to the end of it, and
\* by a checkpoint while it freezes.
OverlayFree == waiting = {} /\ ~locked

Write(w) ==
  /\ w \notin asleep
  /\ w \in waiting \/ (OverlayFree /\ nextHandle <= MaxHandle)
  /\ \/ \E ino \in Inodes, d \in Data : Place(w, ino, d)
     \/ Block(w)
     \/ Refuse(w)

\* Forget a file (unlink, or the rebase after a seal).
Forget(ino) ==
  /\ OverlayFree /\ content[ino] # 0
  /\ Apply(DOMAIN index, live, Release1(content[ino]))
  /\ content' = [content EXCEPT ![ino] = 0]
  /\ written' = [written EXCEPT ![ino] = NoData]
  /\ UNCHANGED <<ring, tail, index, order, chunkLoc, nextHandle, pipe, reclaimTo, errs, sends,
                 disk, reader, waiting, asleep, point, frozen, faults, crashes>>

-----------------------------------------------------------------------------
(* Read: resolve under the lock, pin, copy outside it, unpin. *)

BeginRead(r, ino) ==
  /\ reader[r].pos < 0
  /\ content[ino] \in DOMAIN index
  /\ reader' = [reader EXCEPT ![r] = [pos |-> index[content[ino]], h |-> content[ino]]]
  /\ UNCHANGED <<ring, tail, maps, errs, pipe, reclaimTo, sends, disk, waiting, asleep, point,
                 frozen, bounds>>

EndRead(r) ==
  /\ reader[r].pos >= 0
  /\ reader' = [reader EXCEPT ![r] = [pos |-> -1, h |-> 0]]
  /\ Reclaim(reclaimTo, reader')
  /\ asleep' = IF reclaimTo > tail THEN {} ELSE asleep
  /\ UNCHANGED <<ring, maps, errs, pipe, reclaimTo, sends, disk, waiting, point, frozen, bounds>>

-----------------------------------------------------------------------------
(* A pack run: snapshot, chunk and pack, publish, wait for the uploads,    *)
(* journal, settle.  Only the first three exclude another run.             *)

InRun(b, phase) == b \in DOMAIN runs /\ runs[b].phase = phase
Fail(kind) == kind \in Faults /\ faults < MaxFaults /\ faults' = faults + 1

\* The records some file still names; the others died in the ring.
Snapshot(b) ==
  /\ InRun(b, "cut")
  /\ LET plan == {h \in runs[b].recs : \E ino \in Inodes : content[ino] = h}
     IN  runs' = [runs EXCEPT ![b].phase = "snapped", ![b].plan = plan]
  /\ UNCHANGED <<ring, tail, maps, errs, packing, locating, reclaimTo, sends, disk, reader,
                 waiting, asleep, point, frozen, bounds>>

\* What the run reads of a record: its payload, or zeros behind the tail.
Payload(h) == IF index[h] >= tail THEN At(index[h]).d ELSE NoData

Queued == {p \in DOMAIN packs : packs[p] = "queued"}

(* FailFlush, wrong: the run is still taken to be in flight. *)
FailFlush_Packing(b) ==
  /\ flushErr' = TRUE /\ UNCHANGED packing /\ asleep' = {}
  /\ runs' = [x \in DOMAIN runs \ {b} |-> runs[x]]

(* FailFlush, wrong: the error is not kept. *)
FailFlush_Silent(b) ==
  /\ packing' = FALSE /\ asleep' = {} /\ UNCHANGED flushErr
  /\ runs' = [x \in DOMAIN runs \ {b} |-> runs[x]]

\* failFlush: the records stay in the ring, for the next Flush.
FailFlush(b) ==
  /\ flushErr' = TRUE /\ packing' = FALSE /\ asleep' = {}
  /\ runs' = [x \in DOMAIN runs \ {b} |-> runs[x]]

\* Read the records outside the lock, skip the chunks already placed, cut
\* the pack, keep it locally and queue its upload.  The queue makes the run
\* wait when it is at its bound, and refuses it after an upload failed.
ChunkAndPack(b) ==
  LET loc    == [h \in Handles |-> IF h \in runs[b].plan THEN Payload(h) ELSE NoData]
      stored == {c \in Data : chunkLoc[c] = 0 /\ \E h \in runs[b].plan : loc[h] = c}
  IN
  /\ InRun(b, "snapped")
  /\ \/ /\ stored = {}
        /\ runs' = [runs EXCEPT ![b].phase = "packed", ![b].loc = loc]
        /\ UNCHANGED <<packs, packing, flushErr, asleep, faults>>
     \/ /\ stored # {} /\ ~queueErr
        /\ Queued = {} \/ Cardinality(Queued) < QueueMax
        /\ packs' = Append(packs, "queued")
        /\ runs' = [runs EXCEPT ![b].phase = "packed", ![b].loc = loc, ![b].stored = stored,
                                ![b].pack = Len(packs')]
        /\ UNCHANGED <<packing, flushErr, asleep, faults>>
     \/ /\ stored # {}
        /\ (queueErr /\ UNCHANGED faults) \/ Fail("pack")
        /\ FailFlush(b)
        /\ UNCHANGED packs
  /\ UNCHANGED <<ring, tail, maps, locateErr, locating, reclaimTo, queueErr, disk, reader,
                 waiting, point, frozen, written, crashes>>

\* Install the locations and drop the records from the index, at once; the
\* ring region is queued, not reclaimed.
Publish(b) ==
  LET r == runs[b] IN
  /\ InRun(b, "packed")
  /\ handleLoc' = [h \in Handles |-> IF h \notin r.plan THEN handleLoc[h]
                                     ELSE IF live[h] > 0 THEN r.loc[h] ELSE NoData]
  /\ locRefs' = [h \in Handles |-> IF h \in r.plan /\ live[h] > 0 THEN live[h] ELSE locRefs[h]]
  /\ chunkLoc' = [c \in Data |-> IF c \in r.stored THEN r.pack ELSE chunkLoc[c]]
  /\ index' = [h \in DOMAIN index \ r.recs |-> index[h]]
  /\ live' = [h \in Handles |-> IF h \in r.recs THEN 0 ELSE live[h]]
  /\ order' = SubSeq(order, r.cut + 1, Len(order))
  /\ locating' = Append(locating, [b |-> b, to |-> r.to, done |-> FALSE])
  /\ runs' = [runs EXCEPT ![b].phase = "published"]
  /\ packing' = FALSE /\ asleep' = {}
  /\ UNCHANGED <<ring, tail, content, nextHandle, errs, reclaimTo, sends, disk, reader, waiting,
                 point, frozen, bounds>>

\* A worker ends an upload; with several in flight they end out of order.
\* A failure is kept by the queue, and the local copy is dropped.
UploadEnds(p) ==
  /\ p \in Queued /\ Cardinality({x \in Queued : x < p}) < Workers
  /\ \/ packs' = [packs EXCEPT ![p] = "landed"] /\ UNCHANGED <<queueErr, faults>>
     \/ Fail("upload") /\ packs' = [packs EXCEPT ![p] = "failed"] /\ queueErr' = TRUE
  /\ UNCHANGED <<ring, tail, maps, errs, pipe, reclaimTo, disk, reader, waiting, asleep, point,
                 frozen, written, crashes>>

(* Journal, wrong: the location record does not wait for the uploads. *)
Journal_NoWait(b) ==
  /\ InRun(b, "published")
  /\ jHandles' = [h \in Handles |-> IF h \in runs[b].plan THEN runs[b].loc[h] ELSE jHandles[h]]
  /\ jChunks' = [c \in Data |-> IF c \in runs[b].stored THEN runs[b].pack ELSE jChunks[c]]
  /\ runs' = [runs EXCEPT ![b].phase = "recorded"]
  /\ UNCHANGED <<ring, tail, maps, errs, packing, locating, reclaimTo, sends, reader, waiting,
                 asleep, point, frozen, bounds>>

\* The uploads of the batch are over, and its location record is written,
\* or fails, outside the lock.
Journal(b) ==
  /\ InRun(b, "published") /\ runs[b].pack \notin Queued
  /\ \/ /\ jHandles' = [h \in Handles |-> IF h \in runs[b].plan THEN runs[b].loc[h] ELSE jHandles[h]]
        /\ jChunks' = [c \in Data |-> IF c \in runs[b].stored THEN runs[b].pack ELSE jChunks[c]]
        /\ runs' = [runs EXCEPT ![b].phase = "recorded"]
        /\ UNCHANGED faults
     \/ /\ Fail("located")
        /\ runs' = [runs EXCEPT ![b].phase = "unrecorded"]
        /\ UNCHANGED disk
  /\ UNCHANGED <<ring, tail, maps, errs, packing, locating, reclaimTo, sends, reader, waiting,
                 asleep, point, frozen, written, crashes>>

(* DonePrefix, wrong: one slow batch is passed. *)
DonePrefix_AnyDone(q) == Highest({0} \cup {k \in DOMAIN q : q[k].done})

\* The batches at the front of the queue whose records are durable.
DonePrefix(q) == Highest({n \in 0..Len(q) : \A k \in 1..n : q[k].done})

\* The queue after the batch of a run has its record, or has none.
Marked(b) == [k \in DOMAIN locating |-> [locating[k] EXCEPT !.done = @ \/ locating[k].b = b]]
Without(b) ==
  LET i == CHOOSE k \in DOMAIN locating : locating[k].b = b
  IN  [k \in 1..Len(locating) - 1 |-> IF k < i THEN locating[k] ELSE locating[k + 1]]

\* Settle a batch: its record is durable, and the tail may pass every
\* durable batch at the front; or it is not, and the tail is frozen.
Settle(b) ==
  LET ok   == runs[b].phase = "recorded"
      q    == IF ok THEN Marked(b) ELSE Without(b)
      lerr == locateErr \/ ~ok
      n    == IF lerr THEN 0 ELSE DonePrefix(q)
  IN
  /\ InRun(b, "recorded") \/ InRun(b, "unrecorded")
  /\ flushErr' = (flushErr \/ ~ok) /\ locateErr' = lerr
  /\ locating' = SubSeq(q, n + 1, Len(q))
  /\ reclaimTo' = Highest({reclaimTo} \cup {q[k].to : k \in 1..n})
  /\ Reclaim(reclaimTo', reader)
  /\ asleep' = {}
  /\ runs' = [x \in DOMAIN runs \ {b} |-> runs[x]]
  /\ UNCHANGED <<ring, maps, packing, sends, disk, reader, waiting, point, frozen, bounds>>

-----------------------------------------------------------------------------
(* A checkpoint: Flush, Freeze, Sealer.Finish, Release.                    *)

\* The checkpoint sleeps on the store's condition.
SleepAt(at) == ck' = at /\ asleep' = asleep \cup {"checkpoint"}

\* One turn of Flush's loop, with the lock held: wait for the run in flight,
\* wait for the location records, then drain the queue if the ring is empty
\* or start a run over what is left.
FlushOn(at) ==
  LET places == Cut(index, order, head, 0) IN
  \/ /\ at = "pack" /\ packing
     /\ SleepAt("pack") /\ UNCHANGED <<packing, runs>>
  \/ /\ ~(at = "pack" /\ packing)
     /\ \/ /\ locating # << >>
           /\ SleepAt("locate") /\ UNCHANGED <<packing, runs>>
        \/ /\ locating = << >> /\ head = tail
           /\ ck' = "drain" /\ UNCHANGED <<asleep, packing, runs>>
        \/ /\ locating = << >> /\ head # tail /\ packing
           /\ SleepAt("pack") /\ UNCHANGED <<packing, runs>>
        \/ /\ locating = << >> /\ head # tail /\ ~packing /\ places # {}
           /\ SleepAt("pack") /\ StartPack(places, index, order)
        \/ /\ locating = << >> /\ head # tail /\ ~packing /\ places = {}
           /\ ck' = "flushed" /\ UNCHANGED <<asleep, packing, runs>>

(* FlushFrom, wrong: a run that failed is tried again. *)
FlushFrom_Retries(at, err) ==
  IF err /\ locateErr THEN ck' = "idle" /\ UNCHANGED <<asleep, packing, runs>> ELSE FlushOn(at)

\* A run or a location record that failed ends the Flush.
FlushFrom(at, err) ==
  IF err THEN ck' = "idle" /\ UNCHANGED <<asleep, packing, runs>> ELSE FlushOn(at)

\* The beginning of Flush: a failed run is forgotten, a failed location
\* record is not.
BeginFlush ==
  /\ flushErr' = FALSE
  /\ FlushFrom("pack", locateErr)

\* The first Flush of a checkpoint runs with the mount serving, and the
\* second, by Freeze, under the overlay's lock.
Flush ==
  /\ "checkpoint" \notin asleep
  /\ \/ ck = "idle" /\ BeginFlush /\ UNCHANGED locked
     \/ ck = "flushed" /\ ~locked /\ waiting = {} /\ BeginFlush /\ locked' = (ck' # "idle")
     \/ /\ ck \in {"pack", "locate"} /\ FlushFrom(ck, flushErr) /\ UNCHANGED flushErr
        /\ locked' = (locked /\ ck' # "idle")
  /\ UNCHANGED <<ring, tail, maps, locateErr, locating, reclaimTo, sends, disk, reader, waiting,
                 frozen, bounds>>

\* The queue is drained, or a pack in it failed.
Drain ==
  /\ ck = "drain"
  /\ \/ queueErr /\ ck' = "idle" /\ locked' = FALSE
     \/ ~queueErr /\ Queued = {} /\ ck' = "flushed" /\ UNCHANGED locked
  /\ UNCHANGED <<ring, tail, maps, errs, pipe, reclaimTo, sends, disk, reader, waiting, asleep,
                 frozen, bounds>>

\* Some file names a record that no run has published.
NamedInRing == \E ino \in Inodes : content[ino] \in DOMAIN index

\* Copy the content map and hold a reference to everything it names, unless
\* it names a record that is still in the ring.
Freeze ==
  /\ ck = "flushed" /\ locked /\ locked' = FALSE
  /\ IF NamedInRing
     THEN ck' = "idle" /\ UNCHANGED <<frozen, live, locRefs, handleLoc>>
     ELSE /\ ck' = "render" /\ frozen' = content
          /\ Apply(DOMAIN index, live, Held(content))
  /\ UNCHANGED <<ring, tail, index, order, chunkLoc, content, nextHandle, errs, pipe, reclaimTo,
                 sends, disk, reader, waiting, asleep, bounds>>

(* Finish, wrong: the error of the queue is not asked. *)
Finish_IgnoresError ==
  /\ ck = "render" /\ Queued = {}
  /\ ck' = "sealed" /\ UNCHANGED locked
  /\ UNCHANGED <<ring, tail, maps, errs, pipe, reclaimTo, sends, disk, reader, waiting, asleep,
                 frozen, bounds>>

\* The seal waits for the uplink before it names the packs.
Finish ==
  /\ ck = "render" /\ ~queueErr /\ Queued = {}
  /\ ck' = "sealed" /\ UNCHANGED locked
  /\ UNCHANGED <<ring, tail, maps, errs, pipe, reclaimTo, sends, disk, reader, waiting, asleep,
                 frozen, bounds>>

\* The seal is done, or failed: by the uplink, or anywhere up to the flip.
Release ==
  /\ ck \in {"render", "sealed"}
  /\ Apply(DOMAIN index, live, [h \in Handles |-> -Held(frozen)[h]])
  /\ ck' = "idle" /\ frozen' = NoView /\ UNCHANGED locked
  /\ UNCHANGED <<ring, tail, index, order, chunkLoc, content, nextHandle, errs, pipe, reclaimTo,
                 sends, disk, reader, waiting, asleep, bounds>>

-----------------------------------------------------------------------------
(* The process dies, and the next one recovers the state directory.        *)

\* The run of cells OpenRing accepts: from the tail hint, as long as there
\* is a whole record and sequences ascend.  It starts the sequence at 1.
Walk(cells) ==
  LET C(k) == cells[(tail + k) % RingSize]
  IN  Highest({n \in 0..RingSize : \A k \in 0..n - 1 : C(k).h # 0 /\ (k > 0 => C(k).seq > C(k - 1).seq)})

Recover(cells) ==
  LET n     == Walk(cells)
      C(k)  == cells[(tail + k) % RingSize]
      found == {C(k).h : k \in 0..n - 1}
      known == found \cup {h \in Handles : jHandles[h] # NoData}
      kept  == [ino \in Inodes |-> IF content[ino] \in known THEN content[ino] ELSE 0]
      refs  == [h \in Handles |-> Cardinality({ino \in Inodes : kept[ino] = h})]
  IN
  /\ cell' = cells /\ head' = tail + n
  /\ seq' = IF n = 0 THEN 1 ELSE C(n - 1).seq + 1
  /\ index' = [h \in found |-> tail + Highest({k \in 0..n - 1 : C(k).h = h})]
  /\ order' = [k \in 1..n |-> C(k - 1).h]
  /\ nextHandle' = 1 + Highest({0} \cup known)
  /\ content' = kept
  /\ live' = [h \in Handles |-> IF h \in found THEN refs[h] ELSE 0]
  /\ locRefs' = [h \in Handles |-> IF h \in found THEN 0 ELSE refs[h]]
  /\ handleLoc' = jHandles /\ chunkLoc' = jChunks

\* The process may die between two steps, in the middle of copying a record
\* into the ring, or after the record and before its operation is journaled.
Crash ==
  /\ crashes < MaxCrashes /\ crashes' = crashes + 1
  /\ \/ Recover(cell) /\ UNCHANGED faults
     \/ ~Full /\ Fail("torn") /\ Recover([cell EXCEPT ![head % RingSize] = Empty])
     \/ /\ ~Full /\ nextHandle <= MaxHandle /\ UNCHANGED faults
        /\ \E d \in Data :
             Recover([cell EXCEPT ![head % RingSize] = [h |-> nextHandle, d |-> d, seq |-> seq]])
  /\ packing' = FALSE /\ runs' = << >> /\ locating' = << >> /\ reclaimTo' = 0
  /\ flushErr' = FALSE /\ locateErr' = FALSE
  /\ packs' = [p \in DOMAIN packs |-> IF packs[p] = "queued" THEN "unsent" ELSE packs[p]]
  /\ queueErr' = FALSE
  /\ reader' = [r \in Readers |-> [pos |-> -1, h |-> 0]]
  /\ waiting' = {} /\ asleep' = {}
  /\ ck' = "idle" /\ locked' = FALSE /\ frozen' = NoView
  /\ UNCHANGED <<tail, disk, written>>

-----------------------------------------------------------------------------
Next ==
  \/ \E w \in Writers : Write(w)
  \/ \E ino \in Inodes : Forget(ino)
  \/ \E r \in Readers : EndRead(r) \/ \E ino \in Inodes : BeginRead(r, ino)
  \/ \E b \in DOMAIN runs : Snapshot(b) \/ ChunkAndPack(b) \/ Publish(b) \/ Journal(b) \/ Settle(b)
  \/ \E p \in DOMAIN packs : UploadEnds(p)
  \/ Flush \/ Drain \/ Freeze \/ Finish \/ Release
  \/ Crash

Spec == Init /\ [][Next]_vars

\* The goroutines of a live process run: runs, workers and woken writers make
\* progress, readers finish, and a checkpoint that began goes on.  A woken
\* writer is in the queue of the mutex, while the next checkpoint, which would
\* clear the error the writer was woken for, is an interval away: hence the
\* strong fairness of its refusal.
RunStep == \E b \in DOMAIN runs :
             Snapshot(b) \/ ChunkAndPack(b) \/ Publish(b) \/ Journal(b) \/ Settle(b)
CheckpointStep == (ck # "idle" /\ Flush) \/ Drain \/ Freeze \/ Finish \/ Release
Fairness ==
  /\ WF_vars(RunStep)
  /\ WF_vars(\E p \in DOMAIN packs : UploadEnds(p))
  /\ \A r \in Readers : WF_vars(EndRead(r))
  /\ \A w \in Writers : /\ WF_vars(w \in waiting /\ Write(w))
                       /\ SF_vars(w \in waiting \ asleep /\ Refuse(w))
  /\ WF_vars(CheckpointStep)

FairSpec == Spec /\ Fairness

-----------------------------------------------------------------------------
(* Properties. *)

Bodies == Data \cup {NoData}
Cells  == [h : 0..MaxHandle, d : Bodies, seq : Nat]
RunOf  == [phase : {"cut", "snapped", "packed", "published", "recorded", "unrecorded"},
           recs : SUBSET Handles, cut : Nat, to : Nat, plan : SUBSET Handles,
           loc : [Handles -> Bodies], stored : SUBSET Data, pack : Nat]
Batches == [b : Nat, to : Nat, done : BOOLEAN]

RingTypes ==
  /\ cell \in [0..RingSize - 1 -> Cells]
  /\ head \in Nat /\ tail \in 0..head /\ seq \in Nat
  /\ reclaimTo \in 0..head
  /\ reader \in [Readers -> [pos : -1..head - 1, h : 0..MaxHandle]]

MapTypes ==
  /\ DOMAIN index \subseteq Handles /\ index \in [DOMAIN index -> 0..head - 1]
  /\ order \in Seq(Handles) /\ nextHandle \in 1..MaxHandle + 1
  /\ live \in [Handles -> Nat] /\ locRefs \in [Handles -> Nat]
  /\ handleLoc \in [Handles -> Bodies] /\ jHandles \in [Handles -> Bodies]
  /\ content \in [Inodes -> 0..MaxHandle] /\ frozen \in [Inodes -> 0..MaxHandle]

SendTypes ==
  /\ packs \in Seq({"queued", "landed", "failed", "unsent"})
  /\ chunkLoc \in [Data -> 0..Len(packs)] /\ jChunks \in [Data -> 0..Len(packs)]

PipeTypes ==
  /\ DOMAIN runs \subseteq Nat /\ runs \in [DOMAIN runs -> RunOf]
  /\ locating \in Seq(Batches)
  /\ \A b \in DOMAIN runs : runs[b].to <= head /\ runs[b].pack <= Len(packs)
  /\ \A k \in DOMAIN locating : locating[k].to <= head
  /\ packing = (\E b \in DOMAIN runs : runs[b].phase \in {"cut", "snapped", "packed"})

WaitTypes ==
  /\ flushErr \in BOOLEAN /\ locateErr \in BOOLEAN /\ queueErr \in BOOLEAN
  /\ waiting \subseteq Writers /\ asleep \subseteq waiting \cup {"checkpoint"}
  /\ ck \in {"idle", "pack", "locate", "drain", "flushed", "render", "sealed"} /\ locked \in BOOLEAN
  /\ written \in [Inodes -> Bodies] /\ faults \in Nat /\ crashes \in Nat

TypeOK == RingTypes /\ MapTypes /\ SendTypes /\ PipeTypes /\ WaitTypes

\* What a read of the extent answers: from the ring, or from the pack its
\* chunk is in, local or on the federation.
BytesOf(h) ==
  IF h \in DOMAIN index THEN At(index[h]).d
  ELSE IF handleLoc[h] # NoData /\ chunkLoc[handleLoc[h]] # 0
          /\ packs[chunkLoc[handleLoc[h]]] # "failed" THEN handleLoc[h]
  ELSE NoData

\* A file reads as its last acknowledged body, in the session that wrote it
\* and in the one that recovers it: no step of a run, of a checkpoint or of a
\* recovery loses a body (publish, locatedLocked, Recover), answers for it
\* with zeros or with another file's bytes (resolveLocked, OpenRing).
ReadsWhatWasWritten ==
  \A ino \in Inodes : written[ino] = IF content[ino] = 0 THEN NoData ELSE BytesOf(content[ino])

\* A frozen view resolves until it is released, whatever is written or
\* forgotten meanwhile (Freeze holds what it names, applyLocked counts it).
FrozenViewResolves ==
  ck \in {"render", "sealed"} => \A ino \in Inodes : frozen[ino] # 0 => BytesOf(frozen[ino]) # NoData

\* What a checkpoint freezes has left the ring: the second Flush, with the
\* overlay's lock held, ends with nothing a file names in it, although runs go
\* on and readers pin ("Saying so is better than freezing a view that resolves
\* to bytes nobody uploaded", Freeze).
FreezeFindsNothing == ck = "flushed" /\ locked => ~NamedInRing

\* The ring never holds more than its cells, and a reader's record, and the
\* records a run is about to chunk, are still in theirs: no append laps the
\* tail, and the tail never passes them (Append's fullness, Reclaim's clamp,
\* the prefix rule of locatedLocked).
HeldCellsStay ==
  /\ head - tail <= RingSize
  /\ \A r \in Readers : reader[r].pos >= 0 => reader[r].pos >= tail /\ At(reader[r].pos).h = reader[r].h
  /\ \A b \in DOMAIN runs : InRun(b, "snapped") =>
       \A h \in runs[b].plan : index[h] >= tail /\ At(index[h]).h = h

\* The counts by which entries are collected are the references that exist:
\* an extent is dropped when its last reference goes, not before and not
\* never (applyLocked, publish, Freeze, Release).
CountsAreReferences ==
  \A h \in Handles :
    LET named == Cardinality({ino \in Inodes : content[ino] = h})
        held  == Cardinality({ino \in Inodes : ck \in {"render", "sealed"} /\ frozen[ino] = h})
    IN  /\ h \in DOMAIN index => live[h] = named + held
        /\ h \notin DOMAIN index /\ handleLoc[h] # NoData => locRefs[h] = named + held

\* A generation that is sealed names only packs that landed: "a record naming
\* a pack that never left is one a LATER session would publish from, and that
\* generation would be signed and unreadable" (flush.go, runFlush).
SealedPacksLanded ==
  ck = "sealed" => \A ino \in Inodes : frozen[ino] # 0 =>
    packs[chunkLoc[handleLoc[frozen[ino]]]] = "landed"

\* A writer that waits for room is let in, or told why not (appendLocked):
\* every wake-up it needs is sent.
BlockedWriterReturns == \A w \in Writers : (w \in waiting) ~> (w \notin waiting)

\* A checkpoint that began ends, sealed or failed (Flush, drain).
CheckpointEnds == (ck # "idle") ~> (ck = "idle")
=============================================================================
