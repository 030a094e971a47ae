---------------------------- MODULE PackRetention ----------------------------
(***************************************************************************)
(* What keeps a pack alive: the branches and tags of a volume, the seals   *)
(* and repacks that move its heads, and the sweep that deletes what no     *)
(* root names (internal/retention, internal/repack, internal/publish and   *)
(* the condemned ledger of internal/superblock).                           *)
(*                                                                         *)
(* A generation names manifests, and a manifest names packs.  A seal cuts  *)
(* a pack and lists it; a repack copies what is still reachable out of old *)
(* packs and stops listing them.  What a generation stops listing it puts  *)
(* on its condemned ledger, for readers that are still on its parent.  The *)
(* last pack of a seal also carries a backup: a document with the seal's   *)
(* number that describes its parent.                                       *)
(*                                                                         *)
(* Nothing coordinates the sweep with anybody: it reads the roots, lists,  *)
(* reads the roots again and deletes, while the heads move.                *)
(*                                                                         *)
(* Abstractions: a chunk is a member of a small set, a manifest is the set *)
(* of packs it names (its name is a hash of them), one pack per seal and   *)
(* per repack, and index segments follow the rules of manifests and are    *)
(* left out.  A flip is atomic here; BranchFlip opens it.                  *)
(***************************************************************************)
EXTENDS Integers, Sequences, FiniteSets

CONSTANTS
    Branches,      \* branch names
    Trunk,         \* the branch the volume begins with
    Tags,          \* tag names a person may use
    Forked,        \* whether the volume begins with a second branch
    Sealed,        \* the branches that have a writer
    Deletable,     \* the branches that may be deleted
    Repacked,      \* the branches that are repacked
    Chunks,        \* what files are made of
    Grace,         \* Params.TGraceSeconds, one for the volume
    RetainK,       \* Params.RetainK
    LedgerRoom,    \* how many packs fit the condemned-pack ledger
    SealLimit,     \* how long a publish may take from upload to flip
    MaxPacks,      \* bound: packs cut
    MaxGens,       \* bound: generations built
    MaxTime        \* bound: the clock

ASSUME RetentionAssumption ==
    /\ Forked \in BOOLEAN
    /\ Trunk \in Branches
    /\ Sealed \subseteq Branches /\ Repacked \subseteq Branches /\ Deletable \subseteq Branches
    /\ Grace \in Nat \ {0} /\ RetainK \in Nat \ {0}
    /\ LedgerRoom \in Nat /\ SealLimit \in Nat
    /\ MaxPacks \in Nat /\ MaxGens \in Nat /\ MaxTime \in Nat

VARIABLES
    now,        \* the clock, in the unit of the ledger's stamps
    gens,       \* every generation built, in order
    packs,      \* every pack cut: its chunks, its backups, its time
    mtime,      \* every manifest uploaded, and when
    swept,      \* the packs and the manifests the sweep has deleted
    head,       \* refs/<branch>: a generation, 0 if there is none
    tag,        \* tags/<name>: a generation, 0 if there is none
    sidecar,    \* the dedup sidecar of the writer of each branch
    job,        \* the publish or the fork under way on each branch
    rewrite,    \* the repack under way
    sweep       \* the sweep under way

vars == <<now, gens, packs, mtime, swept, head, tag, sidecar, job, rewrite, sweep>>
work == <<job, rewrite>>

Pins == Tags \cup (Branches \X {"fork"})    \* a fork is pinned by a tag

Idle == [at |-> "idle"]

NoGen == 0

Nothing == [packs |-> {}, manifests |-> {}]

Named(doc) == UNION doc.manifests

(* A reader can serve all of a generation.                                 *)
Readable(g) ==
    /\ gens[g].manifests \cap swept.manifests = {}
    /\ gens[g].files \subseteq
          UNION {packs[p].chunks : p \in Named(gens[g]) \ swept.packs}

Line[g \in 0..Len(gens)] == IF g = NoGen THEN {} ELSE {g} \cup Line[gens[g].parent]

Heads == {head[b] : b \in Branches} \ {NoGen}
Roots == Heads \cup ({tag[t] : t \in Pins} \ {NoGen})

-----------------------------------------------------------------------------
(* The condemned ledger (superblock/condemn.go).                           *)

(* carryCondemned, wrong: the rows of the parent are not carried.          *)
CarryCondemned_Forgets(prev, dropped, listed, at) ==
    {[name |-> n, at |-> at] : n \in dropped \ listed}

(* A row already there keeps its stamp, a row past its window or listed    *)
(* again goes, and what is dropped now is stamped now.                     *)
CarryCondemned(prev, dropped, listed, at) ==
    LET kept == {r \in prev : r.name \notin listed /\ at - r.at < Grace}
    IN  kept \cup {[name |-> n, at |-> at] :
                      n \in (dropped \ listed) \ {r.name : r \in kept}}

-----------------------------------------------------------------------------
(* A document of a generation that lists these manifests and grows from    *)
(* "base": its two ledgers follow from what it stops listing.              *)
Document(base, number, branch, manifests, condemn, at) ==
    [number |-> number, branch |-> branch, created |-> at, manifests |-> manifests,
     condemned |-> CarryCondemned(base.condemned, condemn, UNION manifests, at),
     condemnedManifests |-> CarryCondemned(base.condemnedManifests,
                               base.manifests \ manifests, manifests, at)]

(* The backup a seal leaves in its last pack: its own number, its parent's *)
(* manifests.                                                              *)
Backup(base, branch, at) ==
    Document(base, base.number + 1, branch, base.manifests, {}, at)

Generation(doc, parent, kind, files) ==
    [number |-> doc.number, branch |-> doc.branch, created |-> doc.created,
     manifests |-> doc.manifests, condemned |-> doc.condemned,
     condemnedManifests |-> doc.condemnedManifests,
     parent |-> parent, kind |-> kind, files |-> files]

Uploaded(m, t) == [n \in {m} \cup DOMAIN mtime |-> IF n = m THEN t ELSE mtime[n]]

(* forkGeneration: the source's document under the next number, ledgers    *)
(* and Branch as they were.                                                *)
Fork(source, g, at) ==
    Generation([source EXCEPT !.number = @ + 1, !.created = at], g, "fork", source.files)

(* A volume the trunk has sealed three times: every chunk in the first     *)
(* pack, the manifests merged at the second, files dropped at the third.   *)
(* A forked one has a second branch cut from the first generation, and the *)
(* pin is released.                                                        *)
First  == Generation([number |-> 1, branch |-> Trunk, created |-> 1, manifests |-> {{1}},
                      condemned |-> {}, condemnedManifests |-> {}], NoGen, "seal", Chunks)
Second == Generation(Document(First, 2, Trunk, {{1, 2}}, {}, 1), 1, "seal", Chunks)
Third(files) == Generation(Document(Second, 3, Trunk, {{1, 2}, {3}}, {}, 1), 2, "seal", files)

Init ==
    /\ now = 1
    /\ \E files \in SUBSET Chunks :
          gens = IF Forked THEN <<First, Second, Fork(First, 1, 1)>>
                 ELSE <<First, Second, Third(files)>>
    /\ head = [b \in Branches |->
                 IF b = Trunk THEN (IF Forked THEN 2 ELSE 3)
                 ELSE IF Forked /\ b = CHOOSE x \in Branches : x # Trunk THEN 3 ELSE NoGen]
    /\ packs = LET one == [chunks |-> Chunks, backups |-> {}, born |-> 1]
                   holding(doc) == [chunks |-> {}, backups |-> {doc}, born |-> 1]
               IN  IF Forked THEN <<one, holding(Backup(First, Trunk, 1))>>
                   ELSE <<one, holding(Backup(First, Trunk, 1)), holding(Backup(Second, Trunk, 1))>>
    /\ mtime = [m \in {{1}, {1, 2}} \cup (IF Forked THEN {} ELSE {{3}}) |-> 1]
    /\ swept = Nothing
    /\ tag = [t \in Pins |-> NoGen]
    /\ sidecar = [b \in Branches |->
                    IF b # Trunk THEN [number |-> 0, chunks |-> {}]
                    ELSE [number |-> IF Forked THEN 2 ELSE 3, chunks |-> Chunks]]
    /\ job = [b \in Branches |-> Idle]
    /\ rewrite = Idle
    /\ sweep = Idle

-----------------------------------------------------------------------------
(* A seal (internal/publish).                                              *)

(* loadDedupIndex: the sidecar, if it was written for the parent.          *)
Seen(b) == IF sidecar[b].number = gens[head[b]].number THEN sidecar[b].chunks ELSE {}

(* A seal cuts its pack, with the chunks the volume lacks and the backup,  *)
(* and uploads its manifest, which may take over those of its parent.      *)
SealUpload(b) ==
    /\ job[b] = Idle /\ head[b] # NoGen
    /\ Len(packs) < MaxPacks
    /\ LET base == gens[head[b]]
           new  == Len(packs) + 1
       IN \E files \in SUBSET Chunks, merged \in {{}, base.manifests} :
            LET m == (UNION merged) \cup {new}
            IN  /\ packs' = Append(packs, [chunks |-> files \ (base.files \cup Seen(b)), born |-> now,
                                           backups |-> {Backup(base, b, now)}])
                /\ mtime' = Uploaded(m, now)
                /\ job' = [job EXCEPT ![b] =
                      [at |-> "seal", base |-> head[b], files |-> files, start |-> now,
                       seen |-> Seen(b) \cup files,
                       doc |-> Document(base, base.number + 1, b,
                                        (base.manifests \ merged) \cup {m}, {}, now)]]
    /\ UNCHANGED <<now, gens, swept, head, tag, sidecar, rewrite, sweep>>

(* The head is still the one a publish built on, and its packs are young.  *)
Current(j, b) == head[b] = j.base /\ now - j.start < SealLimit

(* The flip, and the sidecar after it.                                     *)
SealFlip(b) ==
    LET j == job[b] IN
    /\ j.at = "seal" /\ Current(j, b)
    /\ Len(gens) < MaxGens
    /\ gens' = Append(gens, Generation(j.doc, j.base, "seal", j.files))
    /\ head' = [head EXCEPT ![b] = Len(gens) + 1]
    /\ sidecar' = [sidecar EXCEPT ![b] = [number |-> j.doc.number, chunks |-> j.seen]]
    /\ job' = [job EXCEPT ![b] = Idle]
    /\ UNCHANGED <<now, packs, mtime, swept, tag, rewrite, sweep>>

(* A publish that is refused, or was given up.                             *)
SealEnds(b) ==
    /\ job[b] # Idle /\ ~ Current(job[b], b)
    /\ job' = [job EXCEPT ![b] = Idle]
    /\ UNCHANGED <<now, gens, packs, mtime, swept, head, tag, sidecar, rewrite, sweep>>

-----------------------------------------------------------------------------
(* A repack (internal/repack).                                             *)

Reachable == UNION {gens[g].files : g \in Roots}

(* The old packs that a live generation names.  Any of them may be below   *)
(* the live fraction: a pack holds its generation's catalogs too.          *)
Candidates ==
    {p \in UNION {Named(gens[g]) : g \in Roots} : now - packs[p].born >= Grace}

(* What the ledger still carries of the parent's rows.                     *)
Carried(g) == CarryCondemned(gens[g].condemned, {}, {}, now)

(* trimToLedger, wrong: what does not fit is condemned without a row.      *)
Fits_All(g, condemn) == condemn # {}

(* What one run may condemn: as much as there is room for.                 *)
Fits(g, condemn) ==
    condemn # {} /\ Cardinality(condemn) + Cardinality(Carried(g)) <= LedgerRoom

(* The sweep of the live set, the head it must still match, the plan.      *)
RepackPlan(b) ==
    /\ rewrite = Idle /\ head[b] # NoGen
    /\ \E condemn \in SUBSET Candidates :
          /\ Fits(head[b], condemn)
          /\ rewrite' = [at |-> "planned", branch |-> b, base |-> head[b],
                         condemn |-> condemn, live |-> Reachable]
    /\ UNCHANGED <<now, gens, packs, mtime, swept, head, tag, sidecar, job, sweep>>

(* worthCarrying: what the sweep reached, and every backup.                *)
RepackWrite ==
    LET r    == rewrite
        base == gens[r.base]
        new  == Len(packs) + 1
        m    == (Named(base) \ r.condemn) \cup {new}
    IN
    /\ r.at = "planned" /\ Len(packs) < MaxPacks
    /\ head[r.branch] = r.base
    /\ r.condemn \cap swept.packs = {}
    /\ packs' = Append(packs,
          [chunks  |-> r.live \cap UNION {packs[p].chunks : p \in r.condemn},
           backups |-> UNION {packs[p].backups : p \in r.condemn}, born |-> now])
    /\ mtime' = Uploaded(m, now)
    /\ rewrite' = [at |-> "written", branch |-> r.branch, base |-> r.base,
                   start |-> now, live |-> r.live,
                   doc |-> Document(base, base.number + 1, r.branch, {m}, r.condemn, now)]
    /\ UNCHANGED <<now, gens, swept, head, tag, sidecar, job, sweep>>

(* The sidecar of the parent, for the new number, cut to what is live.     *)
Restamped(side, r) == [number |-> r.doc.number, chunks |-> side.chunks \cap r.live]

(* The flip; the sidecar follows if it was the parent's and is at hand.    *)
RepackFlip ==
    LET r == rewrite
        b == r.branch
    IN
    /\ r.at = "written" /\ Current(r, b)
    /\ Len(gens) < MaxGens
    /\ gens' = Append(gens, Generation(r.doc, r.base, "repack", gens[r.base].files))
    /\ head' = [head EXCEPT ![b] = Len(gens) + 1]
    /\ \/ /\ sidecar[b].number = gens[r.base].number
          /\ sidecar' = [sidecar EXCEPT ![b] = Restamped(@, r)]
       \/ UNCHANGED sidecar
    /\ rewrite' = Idle
    /\ UNCHANGED <<now, packs, mtime, swept, tag, job, sweep>>

RepackEnds ==
    /\ \/ rewrite.at = "planned" /\ head[rewrite.branch] # rewrite.base
       \/ rewrite.at = "written" /\ ~ Current(rewrite, rewrite.branch)
    /\ rewrite' = Idle
    /\ UNCHANGED <<now, gens, packs, mtime, swept, head, tag, sidecar, job, sweep>>

-----------------------------------------------------------------------------
(* Branches and tags (cmd/pelfs/branch.go, tag.go).                        *)

(* createBranch: the head it is cut from is pinned by a tag first, which   *)
(* is all that happens when the flip fails.                                *)
(* Bound: a name that was sealed under once is not used again.             *)
CutBranch(b, from) ==
    LET pin == <<b, "fork">> IN
    /\ head[b] = NoGen /\ head[from] # NoGen
    /\ tag[pin] \in {NoGen, head[from]}
    /\ \A p \in 1..Len(packs) : \A d \in packs[p].backups : d.branch # b
    /\ tag' = [tag EXCEPT ![pin] = head[from]]
    /\ \/ /\ Len(gens) < MaxGens
          /\ gens' = Append(gens, Fork(gens[head[from]], head[from], now))
          /\ head' = [head EXCEPT ![b] = Len(gens) + 1]
       \/ UNCHANGED <<gens, head>>
    /\ UNCHANGED <<now, packs, mtime, swept, sidecar, job, rewrite, sweep>>

(* The last branch of a volume is not deleted.                             *)
DeleteBranch(b) ==
    /\ head[b] # NoGen /\ \E other \in Branches \ {b} : head[other] # NoGen
    /\ head' = [head EXCEPT ![b] = NoGen]
    /\ UNCHANGED <<now, gens, packs, mtime, swept, tag, sidecar, job, rewrite, sweep>>

CreateTag(t, b) ==
    /\ tag[t] = NoGen /\ head[b] # NoGen
    /\ tag' = [tag EXCEPT ![t] = head[b]]
    /\ UNCHANGED <<now, gens, packs, mtime, swept, head, sidecar, job, rewrite, sweep>>

DeleteTag(t) ==
    /\ tag[t] # NoGen
    /\ tag' = [tag EXCEPT ![t] = NoGen]
    /\ UNCHANGED <<now, gens, packs, mtime, swept, head, sidecar, job, rewrite, sweep>>

-----------------------------------------------------------------------------
(* The sweep (internal/retention).                                         *)

Existing == {p \in 1..Len(packs) : p \notin swept.packs}

Listed == {b \in Branches : head[b] # NoGen}

Numbered(docs, n) == {d \in docs : d.number = n}

(* One document per number is enough when its branch says so, or when the  *)
(* listing of the branches showed one.                                     *)
Complete(docs, b, want) ==
    \/ \A n \in want : \E d \in Numbered(docs, n) : d.branch = b
    \/ Cardinality(sweep.listed) = 1 /\ \A n \in want : Numbered(docs, n) # {}

(* scavengeBackups: pack trailers newest first, until that is enough.      *)
Scavenged(b, want) ==
    LET newer(p) == UNION {packs[q].backups : q \in {x \in Existing : x > p}}
    IN  UNION {packs[p].backups : p \in {x \in Existing : ~ Complete(newer(x), b, want)}}

(* Attribution, wrong: a number is taken for an identity.                  *)
Attributed_ByNumber(docs, b) ==
    IF docs = {} THEN {} ELSE {CHOOSE d \in docs : \A e \in docs : d.created >= e.created}

(* The documents that say they are this branch's, else every one.          *)
Attributed(docs, b) ==
    LET mine == {d \in docs : d.branch = b} IN IF mine # {} THEN mine ELSE docs

(* windowRoots: what stands for the RetainK - 1 generations below a head.  *)
WindowRoots(b) ==
    LET n    == gens[head[b]].number
        want == {x \in 1..n : x + RetainK >= n + 2}
        docs == Scavenged(b, want)
    IN  IF RetainK = 1 THEN {} ELSE UNION {Attributed(Numbered(docs, x), b) : x \in want}

(* windowFloor: the oldest root dates the window.                          *)
Floor(docs) ==
    IF docs = {} THEN 0 ELSE CHOOSE t \in {d.created : d \in docs} : \A d \in docs : t <= d.created

(* A row stands for the grace of its document, or as long as the window.   *)
Standing(rows, at, since) ==
    {r.name : r \in {x \in rows : at - x.at < Grace \/ (since # 0 /\ x.at >= since)}}

(* absorb: what one document keeps alive.                                  *)
Absorb(live, doc, since) ==
    [packs |-> live.packs \cup Named(doc) \cup Standing(doc.condemned, sweep.now, since),
     manifests |-> live.manifests \cup doc.manifests
                     \cup Standing(doc.condemnedManifests, sweep.now, since)]

Resolves(doc) == doc.manifests \cap swept.manifests = {}

Union(a, b) == [packs |-> a.packs \cup b.packs, manifests |-> a.manifests \cup b.manifests]

(* A head with its window, on top of what is live so far.                  *)
AbsorbBranch(live, b, docs) ==
    LET since == Floor(docs)
        roots == {d \in docs : Resolves(d)}
        all   == {Absorb(Nothing, d, since) : d \in roots}
    IN  Union(Absorb(live, gens[head[b]], since),
              [packs |-> UNION {x.packs : x \in all},
               manifests |-> UNION {x.manifests : x \in all}])

(* retainedSet begins by listing the branches.                             *)
SweepStart ==
    /\ sweep = Idle
    /\ sweep' = [at |-> "branches", pass |-> 1, now |-> now, live |-> Nothing,
                 listed |-> Listed, todo |-> Listed,
                 window |-> [b \in Branches |-> <<>>], doomed |-> Nothing]
    /\ UNCHANGED <<now, gens, packs, mtime, swept, head, tag, sidecar, work>>

(* A branch is read, and its window unless an earlier pass resolved it.    *)
SweepBranch(b) ==
    /\ sweep.at = "branches" /\ b \in sweep.todo
    /\ head[b] # NoGen /\ Resolves(gens[head[b]])
    /\ LET docs == IF sweep.window[b] = <<>> THEN WindowRoots(b) ELSE sweep.window[b][1]
       IN  sweep' = [sweep EXCEPT !.todo = @ \ {b}, !.window[b] = <<docs>>,
                                  !.live = AbsorbBranch(@, b, docs)]
    /\ UNCHANGED <<now, gens, packs, mtime, swept, head, tag, sidecar, work>>

(* Then the tags are listed, and read.                                     *)
SweepTags ==
    /\ sweep.at = "branches" /\ sweep.todo = {}
    /\ sweep' = [sweep EXCEPT !.at = "tags", !.todo = {t \in Pins : tag[t] # NoGen}]
    /\ UNCHANGED <<now, gens, packs, mtime, swept, head, tag, sidecar, work>>

SweepTag(t) ==
    /\ sweep.at = "tags" /\ t \in sweep.todo
    /\ tag[t] # NoGen /\ Resolves(gens[tag[t]])
    /\ sweep' = [sweep EXCEPT !.todo = @ \ {t}, !.live = Absorb(@, gens[tag[t]], 0)]
    /\ UNCHANGED <<now, gens, packs, mtime, swept, head, tag, sidecar, work>>

(* The age guard, wrong: an unnamed object is garbage at any age.          *)
Old_Any(born) == TRUE

(* created.After(cutoff) is young.                                         *)
Old(born) == sweep.now - born >= Grace

(* The listing: whatever no document names and is past the age guard.      *)
SweepScan ==
    /\ sweep.at = "tags" /\ sweep.todo = {} /\ sweep.pass = 1
    /\ LET doomed == [packs |-> {p \in Existing \ sweep.live.packs : Old(packs[p].born)},
                      manifests |-> {m \in (DOMAIN mtime \ swept.manifests) \ sweep.live.manifests :
                                        Old(mtime[m])}]
       IN  sweep' = IF doomed = Nothing THEN Idle
                    ELSE [sweep EXCEPT !.at = "branches", !.pass = 2, !.doomed = doomed,
                             !.live = Nothing, !.listed = Listed, !.todo = Listed]
    /\ UNCHANGED <<now, gens, packs, mtime, swept, head, tag, sidecar, work>>

(* The recompute: what a root names by now is spared.                      *)
SweepSpare ==
    /\ sweep.at = "tags" /\ sweep.todo = {} /\ sweep.pass = 2
    /\ LET doomed == [packs |-> sweep.doomed.packs \ sweep.live.packs,
                      manifests |-> sweep.doomed.manifests \ sweep.live.manifests]
       IN  sweep' = IF doomed = Nothing THEN Idle ELSE [at |-> "deletes", doomed |-> doomed]
    /\ UNCHANGED <<now, gens, packs, mtime, swept, head, tag, sidecar, work>>

(* finish: the packs one by one, then the manifests.                       *)
SweepDelete ==
    /\ sweep.at = "deletes"
    /\ LET d == sweep.doomed IN
       \E key \in {"packs", "manifests"} :
          /\ d[key] # {} /\ (key = "manifests" => d.packs = {})
          /\ \E x \in d[key] :
                /\ key = "packs" => \A y \in d.packs : x <= y
                /\ swept' = [swept EXCEPT ![key] = @ \cup {x}]
                /\ sweep' = LET left == [d EXCEPT ![key] = @ \ {x}]
                            IN IF left = Nothing THEN Idle ELSE [sweep EXCEPT !.doomed = left]
    /\ UNCHANGED <<now, gens, packs, mtime, head, tag, sidecar, work>>

(* A root that cannot be read, a delete that fails, a process that dies.   *)
SweepStops ==
    /\ sweep # Idle
    /\ sweep' = Idle
    /\ UNCHANGED <<now, gens, packs, mtime, swept, head, tag, sidecar, work>>

Tick ==
    /\ now < MaxTime
    /\ now' = now + 1
    /\ UNCHANGED <<gens, packs, mtime, swept, head, tag, sidecar, work, sweep>>

Publish(b) == SealUpload(b) \/ SealFlip(b) \/ SealEnds(b)
Repack == (\E b \in Repacked : RepackPlan(b)) \/ RepackWrite \/ RepackFlip \/ RepackEnds
GC == \/ SweepStart \/ SweepTags \/ SweepScan \/ SweepSpare \/ SweepDelete \/ SweepStops
      \/ (\E b \in Branches : SweepBranch(b)) \/ (\E t \in Pins : SweepTag(t))

Next ==
    \/ \E b \in Branches :
          \/ b \in Sealed /\ Publish(b)
          \/ \E from \in Branches : CutBranch(b, from)
          \/ \E t \in Tags : CreateTag(t, b)
    \/ \E b \in Deletable : DeleteBranch(b)
    \/ \E t \in Pins : DeleteTag(t)
    \/ Repack \/ GC \/ Tick

Spec == Init /\ [][Next]_vars

-----------------------------------------------------------------------------
(* Types.                                                                  *)

Rows(names) == SUBSET [name : names, at : Nat]

(* A document over the first n packs.                                      *)
Doc(n) == [number : Nat, branch : Branches, created : Nat, manifests : SUBSET SUBSET (1..n),
           condemned : Rows(1..n), condemnedManifests : Rows(SUBSET (1..n))]

Gen(n) == [number : Nat, branch : Branches, created : Nat, manifests : SUBSET SUBSET (1..n),
           condemned : Rows(1..n), condemnedManifests : Rows(SUBSET (1..n)),
           parent : Nat, kind : {"seal", "fork", "repack"}, files : SUBSET Chunks]

(* What is stored, what is being written, and what names it, are of their  *)
(* kinds: a document lists packs that were cut, a ref names a generation   *)
(* that was built.                                                         *)
RetentionTypeOK ==
    LET n == Len(packs) IN
    /\ now \in Nat
    /\ packs \in Seq([chunks : SUBSET Chunks, backups : SUBSET Doc(n), born : Nat])
    /\ gens \in Seq(Gen(n))
    /\ head \in [Branches -> 0..Len(gens)]
    /\ tag \in [Pins -> 0..Len(gens)]
    /\ sidecar \in [Branches -> [number : Nat, chunks : SUBSET Chunks]]
    /\ job \in [Branches -> [at : {"idle"}]
                   \cup [at : {"seal"}, base : 1..Len(gens), files : SUBSET Chunks, start : Nat,
                         seen : SUBSET Chunks, doc : Doc(n)]]
    /\ rewrite \in [at : {"idle"}]
          \cup [at : {"planned"}, branch : Branches, base : 1..Len(gens),
                condemn : SUBSET (1..n), live : SUBSET Chunks]
          \cup [at : {"written"}, branch : Branches, base : 1..Len(gens), start : Nat,
                live : SUBSET Chunks, doc : Doc(n)]

-----------------------------------------------------------------------------
(* Properties.                                                             *)

(* Retention and repacks agree with the heads: every root, a branch head   *)
(* or a tag, can be served whole.  A dedup row that resolves nowhere, a    *)
(* sweep that missed a root, a publish whose packs were swept while it ran *)
(* would each break it.  What RootsStay excepts takes more branches, or    *)
(* more time, than the runs have.                                          *)
RootsReadable == \A g \in Roots : Readable(g)

(* A reader keeps the generation it mounted for the grace window after its *)
(* successor is stamped, whatever was repacked, consolidated or swept.     *)
GraceHolds ==
    \A r \in Roots : \A g \in Line[r] :
        gens[g].parent # NoGen /\ now - gens[g].created < Grace => Readable(gens[g].parent)

(* The generations of a branch that the backups of its own line describe   *)
(* and that its retain window covers.                                      *)
Window(b) ==
    IF head[b] = NoGen THEN {}
    ELSE {gens[g].parent : g \in {x \in Line[head[b]] :
             /\ gens[x].kind = "seal" /\ gens[x].parent # NoGen
             /\ gens[x].number + RetainK >= gens[head[b]].number + 2}}

(* No step takes a generation inside a retain window away, however old and *)
(* however many branches have a generation of the same number.             *)
WindowKept == [][\A b \in Branches : \A g \in Window(b) : Readable(g) => Readable(g)']_vars

(* What a repack stops listing stays on its ledger for the whole window:   *)
(* the ledger of a head never holds more packs than the room there is.     *)
LedgerFits == \A g \in Roots : Cardinality(gens[g].condemned) <= LedgerRoom
=============================================================================
