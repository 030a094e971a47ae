------------------------- MODULE PackRetentionProofs --------------------------
(***************************************************************************)
(* Proofs about PackRetention: its type invariant, that the ledger of      *)
(* condemned packs fits its room, that every root can be served whole, and *)
(* that readers keep what they mounted for the grace window, for any       *)
(* branches, windows, clock and number of generations.                     *)
(*                                                                         *)
(* The room is measured when a repack is planned and filled when it is     *)
(* written, so the invariant follows the plan: what it condemns and what   *)
(* the ledger of its parent still carries fit together, and time only      *)
(* takes rows away.                                                        *)
(*                                                                         *)
(* A root stays whole for two reasons.  Its files are in the packs it      *)
(* names, although a seal leaves out what its sidecar knows and a repack   *)
(* moves chunks: both build on the head they flip.  And what it names is   *)
(* not swept: it is young, or the sweep finds it, in the root itself, or   *)
(* in the ledger of the head that stopped naming it since.                 *)
(*                                                                         *)
(* A reader's generation stays whole because what a line of parents has    *)
(* dropped in the window its last member still lists, or has on its        *)
(* ledger: a row stays, with its stamp, in every document that follows.    *)
(* The sweep stands by a row as long as readers need it, so it finds what  *)
(* a root owes them where it finds what the root names.                    *)
(***************************************************************************)
EXTENDS PackRetention, FiniteSetTheorems, WellFoundedInduction, TLAPS

(* A ledger within its room.                                               *)
Small(rows) == IsFiniteSet(rows) /\ Cardinality(rows) <= LedgerRoom

(* A plan whose rows will fit.                                             *)
PlanFits ==
    rewrite.at = "planned" =>
       /\ IsFiniteSet(rewrite.condemn) /\ IsFiniteSet(Carried(rewrite.base))
       /\ Cardinality(rewrite.condemn) + Cardinality(Carried(rewrite.base)) <= LedgerRoom

(* What is built, and what is about to be, is within its room.             *)
DocumentsFit ==
    /\ \A g \in 1..Len(gens) : Small(gens[g].condemned)
    /\ \A b \in Branches : job[b].at = "seal" => Small(job[b].doc.condemned)
    /\ rewrite.at = "written" => Small(rewrite.doc.condemned)

(* The inductive invariant.                                                *)
LedgerInv == RetentionTypeOK /\ PlanFits /\ DocumentsFit

-----------------------------------------------------------------------------
(* The ledger.                                                             *)

(* Stamping names makes as many rows as there are names, at most.          *)
LEMMA StampedCount ==
    ASSUME NEW names, IsFiniteSet(names), NEW at
    PROVE  LET rows == {[name |-> n, at |-> at] : n \in names}
           IN  IsFiniteSet(rows) /\ Cardinality(rows) <= Cardinality(names)
  <1> DEFINE rows == {[name |-> n, at |-> at] : n \in names}
             f == [n \in names |-> [name |-> n, at |-> at]]
  <1>1. f \in Surjection(names, rows)
    BY DEF Surjection
  <1> QED  BY <1>1, FS_Surjection

(* Carrying a ledger on keeps its rows and stamps what is dropped.         *)
LEMMA CarryCount ==
    ASSUME NEW prev, NEW dropped, NEW listed, NEW at,
           IsFiniteSet(dropped),
           IsFiniteSet({r \in prev : r.name \notin listed /\ at - r.at < Grace})
    PROVE  LET kept == {r \in prev : r.name \notin listed /\ at - r.at < Grace}
               rows == CarryCondemned(prev, dropped, listed, at)
           IN  /\ IsFiniteSet(rows)
               /\ Cardinality(rows) <= Cardinality(kept) + Cardinality(dropped)
  <1> DEFINE kept == {r \in prev : r.name \notin listed /\ at - r.at < Grace}
             names == (dropped \ listed) \ {r.name : r \in kept}
             new == {[name |-> n, at |-> at] : n \in names}
  <1>1. IsFiniteSet(names) /\ Cardinality(names) <= Cardinality(dropped)
    <2>1. names \in SUBSET dropped
      OBVIOUS
    <2> QED  BY <2>1, FS_Subset
  <1>2. IsFiniteSet(new) /\ Cardinality(new) <= Cardinality(names)
    <2> HIDE DEF names
    <2> QED  BY <1>1, StampedCount
  <1>3. CarryCondemned(prev, dropped, listed, at) = kept \cup new
    BY DEF CarryCondemned
  <1> HIDE DEF kept, names, new
  <1>4. IsFiniteSet(kept)
    BY DEF kept
  <1>5. /\ IsFiniteSet(kept \cup new)
        /\ Cardinality(kept \cup new)
              = Cardinality(kept) + Cardinality(new) - Cardinality(kept \cap new)
    BY <1>2, <1>4, FS_Union
  <1>6. IsFiniteSet(kept \cap new)
    <2>1. kept \cap new \in SUBSET kept
      OBVIOUS
    <2> QED  BY <2>1, <1>4, FS_Subset
  <1>7. /\ Cardinality(kept) \in Nat /\ Cardinality(new) \in Nat
        /\ Cardinality(kept \cap new) \in Nat
        /\ Cardinality(names) \in Nat /\ Cardinality(dropped) \in Nat
    BY <1>1, <1>2, <1>4, <1>6, FS_CardinalityType
  <1> QED  BY <1>1, <1>2, <1>3, <1>5, <1>7 DEF kept

(* A document that condemns nothing keeps its ledger within its room.      *)
LEMMA NothingCondemned ==
    ASSUME NEW prev, NEW listed, NEW at, Small(prev)
    PROVE  Small(CarryCondemned(prev, {}, listed, at))
  <1>1. CarryCondemned(prev, {}, listed, at) \in SUBSET prev
    BY DEF CarryCondemned
  <1>2. /\ IsFiniteSet(CarryCondemned(prev, {}, listed, at))
        /\ Cardinality(CarryCondemned(prev, {}, listed, at)) <= Cardinality(prev)
    BY <1>1, FS_Subset DEF Small
  <1>3. Cardinality(CarryCondemned(prev, {}, listed, at)) \in Nat /\ Cardinality(prev) \in Nat
    BY <1>2, FS_CardinalityType DEF Small
  <1> QED  BY <1>2, <1>3, RetentionAssumption DEF Small

(* The carried rows keep their kind.                                       *)
LEMMA CarryTypes ==
    ASSUME NEW names, NEW prev \in Rows(names), NEW dropped \in SUBSET names,
           NEW listed, NEW at \in Nat
    PROVE  CarryCondemned(prev, dropped, listed, at) \in Rows(names)
  BY DEF CarryCondemned, Rows

(* A document made from a document over the first n packs.                 *)
LEMMA DocumentTypes ==
    ASSUME NEW n \in Nat, NEW base \in Gen(n), NEW number \in Nat, NEW branch \in Branches,
           NEW manifests \in SUBSET SUBSET (1..n), NEW condemn \in SUBSET (1..n), NEW at \in Nat
    PROVE  Document(base, number, branch, manifests, condemn, at) \in Doc(n)
  <1>1. /\ base.condemned \in Rows(1..n) /\ base.manifests \in SUBSET SUBSET (1..n)
        /\ base.condemnedManifests \in Rows(SUBSET (1..n))
    BY DEF Gen
  <1>2. CarryCondemned(base.condemned, condemn, UNION manifests, at) \in Rows(1..n)
    BY <1>1, CarryTypes
  <1>3. base.manifests \ manifests \in SUBSET SUBSET (1..n)
    BY <1>1
  <1>4. CarryCondemned(base.condemnedManifests, base.manifests \ manifests, manifests, at)
           \in Rows(SUBSET (1..n))
    BY <1>1, <1>3, CarryTypes
  <1> QED  BY <1>2, <1>4 DEF Document, Doc

(* A document over the first packs is one over more of them.               *)
LEMMA Grown ==
    ASSUME NEW n \in Nat, NEW m \in Nat, n <= m
    PROVE  Doc(n) \subseteq Doc(m) /\ Gen(n) \subseteq Gen(m)
  <1>1. (1..n) \subseteq (1..m)
    OBVIOUS
  <1>2. SUBSET (1..n) \subseteq SUBSET (1..m) /\ SUBSET SUBSET (1..n) \subseteq SUBSET SUBSET (1..m)
    BY <1>1
  <1>3. Rows(1..n) \subseteq Rows(1..m) /\ Rows(SUBSET (1..n)) \subseteq Rows(SUBSET (1..m))
    BY <1>1, <1>2 DEF Rows
  <1> QED  BY <1>2, <1>3 DEF Doc, Gen

LEMMA GenerationTypes ==
    ASSUME NEW n \in Nat, NEW doc \in Doc(n) \cup Gen(n), NEW parent \in Nat,
           NEW kind \in {"seal", "fork", "repack"}, NEW files \in SUBSET Chunks
    PROVE  Generation(doc, parent, kind, files) \in Gen(n)
  BY DEF Generation, Doc, Gen

LEMMA ForkTypes ==
    ASSUME NEW n \in Nat, NEW source \in Gen(n), NEW g \in Nat, NEW at \in Nat
    PROVE  /\ Fork(source, g, at) \in Gen(n)
           /\ Fork(source, g, at).condemned = source.condemned
  BY DEF Fork, Generation, Gen

(* What the three first generations of a volume are.                       *)
LEMMA FirstTypes ==
    /\ First \in Gen(1) /\ First.condemned = {} /\ First.number = 1
    /\ Second \in Gen(2) /\ Second.condemned = {} /\ Second.number = 2
    /\ \A files \in SUBSET Chunks :
          Third(files) \in Gen(3) /\ Third(files).condemned = {}
  <1>1. First \in Gen(1) /\ First.condemned = {} /\ First.number = 1 /\ First.manifests = {{1}}
    BY RetentionAssumption DEF First, Generation, Gen, Rows, NoGen
  <1>2. First \in Gen(2)
    BY <1>1, Grown, 1 <= 2
  <1>3. Document(First, 2, Trunk, {{1, 2}}, {}, 1) \in Doc(2)
    BY <1>2, DocumentTypes, RetentionAssumption
  <1>4. /\ Second \in Gen(2) /\ Second.condemned = {} /\ Second.number = 2
        /\ Second.manifests = {{1, 2}}
    <2>1. Second \in Gen(2)
      BY <1>3, GenerationTypes DEF Second
    <2> QED  BY <2>1, <1>1 DEF Second, Generation, Document, CarryCondemned
  <1>5. Second \in Gen(3)
    BY <1>4, Grown, 2 <= 3
  <1>6. ASSUME NEW files \in SUBSET Chunks
        PROVE  Third(files) \in Gen(3) /\ Third(files).condemned = {}
    <2>1. Document(Second, 3, Trunk, {{1, 2}, {3}}, {}, 1) \in Doc(3)
      BY <1>5, DocumentTypes, RetentionAssumption
    <2>2. Third(files) \in Gen(3)
      BY <2>1, GenerationTypes DEF Third
    <2> QED  BY <2>2, <1>4 DEF Third, Generation, Document, CarryCondemned
  <1> QED  BY <1>1, <1>4, <1>6

(* The backup in the pack of a seal.                                       *)
LEMMA BackupTypes ==
    ASSUME NEW n \in Nat, NEW base \in Gen(n), NEW b \in Branches, NEW at \in Nat
    PROVE  Backup(base, b, at) \in Doc(n)
  <1>1. base.number + 1 \in Nat /\ base.manifests \in SUBSET SUBSET (1..n)
    BY DEF Gen
  <1> QED  BY <1>1, DocumentTypes DEF Backup

-----------------------------------------------------------------------------
(* The initial states.                                                     *)

LEMMA InitTypes == Init => LedgerInv
  <1> SUFFICES ASSUME Init PROVE LedgerInv
    OBVIOUS
  <1>1. PICK files \in SUBSET Chunks :
          gens = IF Forked THEN <<First, Second, Fork(First, 1, 1)>>
                 ELSE <<First, Second, Third(files)>>
    BY DEF Init
  <1>2. /\ First \in Gen(2) /\ Second \in Gen(2) /\ Fork(First, 1, 1) \in Gen(2)
        /\ Fork(First, 1, 1).condemned = {}
    <2>1. First \in Gen(2)
      BY FirstTypes, Grown, 1 <= 2
    <2> QED  BY <2>1, FirstTypes, ForkTypes
  <1>3. First \in Gen(3) /\ Second \in Gen(3)
    BY FirstTypes, Grown, 1 <= 3, 2 <= 3
  <1>4. Backup(First, Trunk, 1) \in Doc(2) /\ Backup(First, Trunk, 1) \in Doc(3)
          /\ Backup(Second, Trunk, 1) \in Doc(3)
    BY <1>2, <1>3, BackupTypes, RetentionAssumption
  <1>4a. /\ Small({}) /\ now \in Nat
        /\ tag \in [Pins -> 0..3] /\ sidecar \in [Branches -> [number : Nat, chunks : SUBSET Chunks]]
    <2>1. Small({})
      BY FS_EmptySet, RetentionAssumption DEF Small
    <2> QED  BY <2>1, RetentionAssumption DEF Init, NoGen
  <1>4b. head \in [Branches -> 0..3]
    BY RetentionAssumption DEF Init, NoGen
  <1>4c. rewrite.at = "idle" /\ rewrite \in [at : {"idle"}]
        /\ \A b \in Branches : job[b] \in [at : {"idle"}] /\ job[b].at = "idle"
    BY DEF Init, Idle
  <1>4d. job \in [Branches -> [at : {"idle"}]]
    BY <1>4c DEF Init
  <1>5. CASE Forked
    <2>1. gens = <<First, Second, Fork(First, 1, 1)>>
      BY <1>1, <1>5
    <2>2. packs = <<[chunks |-> Chunks, backups |-> {}, born |-> 1],
                    [chunks |-> {}, backups |-> {Backup(First, Trunk, 1)}, born |-> 1]>>
      BY <1>5 DEF Init
    <2>3. Len(gens) = 3 /\ Len(packs) = 2
      BY <2>1, <2>2
    <2>4. gens \in Seq(Gen(2)) /\ \A g \in 1..3 : gens[g].condemned = {}
      BY <2>1, <1>2, FirstTypes
    <2>5. packs \in Seq([chunks : SUBSET Chunks, backups : SUBSET Doc(2), born : Nat])
      BY <2>2, <1>4
    <2> QED  BY <2>3, <2>4, <2>5, <1>4a, <1>4b, <1>4c, <1>4d
             DEF LedgerInv, RetentionTypeOK, PlanFits, DocumentsFit
  <1>6. CASE ~Forked
    <2>1. gens = <<First, Second, Third(files)>>
      BY <1>1, <1>6
    <2>2. packs = <<[chunks |-> Chunks, backups |-> {}, born |-> 1],
                    [chunks |-> {}, backups |-> {Backup(First, Trunk, 1)}, born |-> 1],
                    [chunks |-> {}, backups |-> {Backup(Second, Trunk, 1)}, born |-> 1]>>
      BY <1>6 DEF Init
    <2>3. Len(gens) = 3 /\ Len(packs) = 3
      BY <2>1, <2>2
    <2>4. gens \in Seq(Gen(3)) /\ \A g \in 1..3 : gens[g].condemned = {}
      BY <2>1, <1>3, FirstTypes
    <2>5. packs \in Seq([chunks : SUBSET Chunks, backups : SUBSET Doc(3), born : Nat])
      BY <2>2, <1>4
    <2> QED  BY <2>3, <2>4, <2>5, <1>4a, <1>4b, <1>4c, <1>4d
             DEF LedgerInv, RetentionTypeOK, PlanFits, DocumentsFit
  <1> QED  BY <1>5, <1>6

-----------------------------------------------------------------------------
(* The steps.                                                              *)

(* A generation more.                                                      *)
LEMMA Built ==
    ASSUME LedgerInv, NEW g \in Gen(Len(packs)), Small(g.condemned), gens' = Append(gens, g)
    PROVE  /\ gens' \in Seq(Gen(Len(packs))) /\ Len(gens') = Len(gens) + 1
           /\ Len(gens) \in Nat
           /\ \A i \in 1..Len(gens) : gens'[i] = gens[i]
           /\ \A i \in 1..Len(gens') : Small(gens'[i].condemned)
  <1>1. gens \in Seq(Gen(Len(packs)))
    BY DEF LedgerInv, RetentionTypeOK
  <1>2. /\ gens' \in Seq(Gen(Len(packs))) /\ Len(gens') = Len(gens) + 1 /\ Len(gens) \in Nat
        /\ gens'[Len(gens) + 1] = g
        /\ \A i \in 1..Len(gens) : gens'[i] = gens[i]
    BY <1>1
  <1>3. ASSUME NEW i \in 1..Len(gens') PROVE Small(gens'[i].condemned)
    <2>1. CASE i = Len(gens) + 1
      BY <2>1, <1>2
    <2>2. CASE i \in 1..Len(gens)
      BY <2>2, <1>2 DEF LedgerInv, DocumentsFit
    <2> QED  BY <1>2, <2>1, <2>2
  <1> QED  BY <1>2, <1>3

(* A pack more: every document over the packs so far is one over them all. *)
LEMMA Cut ==
    ASSUME LedgerInv, NEW chunks \in SUBSET Chunks, NEW backups \in SUBSET Doc(Len(packs)),
           NEW born \in Nat,
           packs' = Append(packs, [chunks |-> chunks, born |-> born, backups |-> backups])
    PROVE  LET n == Len(packs) IN
           /\ n \in Nat /\ Len(packs') = n + 1
           /\ packs' \in Seq([chunks : SUBSET Chunks, backups : SUBSET Doc(n + 1), born : Nat])
           /\ gens \in Seq(Gen(n + 1))
           /\ Doc(n) \subseteq Doc(n + 1) /\ Gen(n) \subseteq Gen(n + 1)
  <1> DEFINE n == Len(packs)
             Pack(k) == [chunks : SUBSET Chunks, backups : SUBSET Doc(k), born : Nat]
  <1>1. packs \in Seq(Pack(n)) /\ gens \in Seq(Gen(n)) /\ n \in Nat
    BY DEF LedgerInv, RetentionTypeOK
  <1>2. Doc(n) \subseteq Doc(n + 1) /\ Gen(n) \subseteq Gen(n + 1)
    BY <1>1, Grown
  <1>3. packs \in Seq(Pack(n + 1))
    <2>1. Pack(n) \subseteq Pack(n + 1)
      BY <1>2
    <2> HIDE DEF n, Pack
    <2> QED  BY <1>1, <2>1
  <1>4. gens \in Seq(Gen(n + 1))
    <2> HIDE DEF n, Pack
    <2> QED  BY <1>1, <1>2
  <1>5. [chunks |-> chunks, born |-> born, backups |-> backups] \in Pack(n + 1)
    BY <1>2
  <1>6. packs' \in Seq(Pack(n + 1)) /\ Len(packs') = n + 1
    <2> HIDE DEF Pack
    <2> QED  BY <1>3, <1>5
  <1> QED  BY <1>1, <1>2, <1>4, <1>6

(* What a document lists is among the packs.                               *)
LEMMA NamedPacks ==
    ASSUME NEW n \in Nat, NEW g \in Gen(n)
    PROVE  Named(g) \in SUBSET (1..n)
  BY DEF Named, Gen

(* Time only takes rows away.                                              *)
LEMMA CarriedShrinks ==
    ASSUME NEW names, NEW prev \in Rows(names), NEW at \in Nat, NEW later \in Nat, at <= later,
           NEW listed
    PROVE  {r \in prev : r.name \notin listed /\ later - r.at < Grace}
             \in SUBSET CarryCondemned(prev, {}, {}, at)
  <1>1. ASSUME NEW r \in prev, later - r.at < Grace PROVE at - r.at < Grace
    BY <1>1, RetentionAssumption DEF Rows
  <1> QED  BY <1>1 DEF CarryCondemned

LEMMA SealUploadKeeps ==
    ASSUME LedgerInv, NEW b \in Branches, SealUpload(b)
    PROVE  LedgerInv'
  <1> DEFINE n == Len(packs)
             base == gens[head[b]]
             new == n + 1
  <1>1. /\ n \in Nat /\ now \in Nat /\ head[b] \in 1..Len(gens) /\ base \in Gen(n)
        /\ Small(base.condemned)
    BY DEF LedgerInv, RetentionTypeOK, SealUpload, NoGen, DocumentsFit
  <1>2. PICK files \in SUBSET Chunks, merged \in {{}, base.manifests} :
          LET m == (UNION merged) \cup {new}
          IN  /\ packs' = Append(packs, [chunks |-> files \ (base.files \cup Seen(b)), born |-> now,
                                         backups |-> {Backup(base, b, now)}])
              /\ job' = [job EXCEPT ![b] =
                    [at |-> "seal", base |-> head[b], files |-> files, start |-> now,
                     seen |-> Seen(b) \cup files,
                     doc |-> Document(base, base.number + 1, b,
                                      (base.manifests \ merged) \cup {m}, {}, now)]]
    BY DEF SealUpload
  <1> DEFINE m == (UNION merged) \cup {new}
             listed == (base.manifests \ merged) \cup {m}
             doc == Document(base, base.number + 1, b, listed, {}, now)
  <1>3. /\ n \in Nat /\ Len(packs') = n + 1
        /\ packs' \in Seq([chunks : SUBSET Chunks, backups : SUBSET Doc(n + 1), born : Nat])
        /\ gens \in Seq(Gen(n + 1))
        /\ Doc(n) \subseteq Doc(n + 1) /\ Gen(n) \subseteq Gen(n + 1)
    <2>1. files \ (base.files \cup Seen(b)) \in SUBSET Chunks
      OBVIOUS
    <2>2. {Backup(base, b, now)} \in SUBSET Doc(n)
      BY <1>1, BackupTypes
    <2> HIDE DEF base
    <2> QED  BY <1>1, <1>2, <2>1, <2>2, Cut
  <1>4. doc \in Doc(n + 1) /\ Small(doc.condemned)
    <2>1. base \in Gen(n + 1) /\ base.number + 1 \in Nat /\ base.manifests \in SUBSET SUBSET (1..n)
      <3>1. base \in Gen(n + 1)
        BY <1>1, <1>3
      <3>2. base \in Gen(n) => base.number \in Nat /\ base.manifests \in SUBSET SUBSET (1..n)
        BY DEF Gen
      <3> HIDE DEF n, base
      <3> QED  BY <1>1, <3>1, <3>2
    <2>2. listed \in SUBSET SUBSET (1..(n + 1))
      <3>1. m \in SUBSET (1..(n + 1))
        <4>1. merged \in SUBSET SUBSET (1..n)
          BY <1>2, <2>1
        <4> HIDE DEF n
        <4> QED  BY <1>1, <4>1
      <3>2. base.manifests \in SUBSET SUBSET (1..(n + 1))
        <4> HIDE DEF n, base
        <4> QED  BY <1>1, <2>1
      <3> HIDE DEF n, base, m
      <3> QED  BY <3>1, <3>2
    <2>3. doc \in Doc(n + 1)
      <3>1. n + 1 \in Nat /\ base.number + 1 \in Nat /\ now \in Nat
        BY <1>1, <2>1
      <3> HIDE DEF base, listed, n
      <3> QED  BY <2>1, <2>2, <3>1, DocumentTypes
    <2>4. doc.condemned = CarryCondemned(base.condemned, {}, UNION listed, now)
      BY DEF Document
    <2> HIDE DEF base, listed, n, doc
    <2> QED  BY <1>1, <2>3, <2>4, NothingCondemned
  <1>5. Seen(b) \in SUBSET Chunks
    BY DEF Seen, LedgerInv, RetentionTypeOK
  <1>6. RetentionTypeOK'
    <2> HIDE DEF doc, base, n
    <2>1. job'[b] \in [at : {"seal"}, base : 1..Len(gens), files : SUBSET Chunks, start : Nat,
                        seen : SUBSET Chunks, doc : Doc(n + 1)]
      BY <1>1, <1>2, <1>4, <1>5 DEF LedgerInv, RetentionTypeOK, doc
    <2>2. job' \in [Branches -> [at : {"idle"}]
                   \cup [at : {"seal"}, base : 1..Len(gens), files : SUBSET Chunks, start : Nat,
                         seen : SUBSET Chunks, doc : Doc(n + 1)]]
      BY <1>2, <1>3, <2>1 DEF LedgerInv, RetentionTypeOK, n
    <2>3. (1..n) \subseteq (1..(n + 1))
      BY <1>1
    <2>4. rewrite' \in [at : {"idle"}]
          \cup [at : {"planned"}, branch : Branches, base : 1..Len(gens),
                condemn : SUBSET (1..(n + 1)), live : SUBSET Chunks]
          \cup [at : {"written"}, branch : Branches, base : 1..Len(gens), start : Nat,
                live : SUBSET Chunks, doc : Doc(n + 1)]
      BY <1>3, <2>3 DEF LedgerInv, RetentionTypeOK, SealUpload, n
    <2> QED  BY <1>3, <2>2, <2>4 DEF LedgerInv, RetentionTypeOK, SealUpload
  <1>7. PlanFits'
    BY DEF LedgerInv, PlanFits, SealUpload, Carried
  <1>8. DocumentsFit'
    <2> HIDE DEF doc, base, n
    <2>1. job'[b].doc = doc /\ \A c \in Branches \ {b} : job'[c] = job[c]
      BY <1>2 DEF LedgerInv, RetentionTypeOK, doc
    <2> QED  BY <1>4, <2>1 DEF LedgerInv, DocumentsFit, SealUpload
  <1> QED  BY <1>6, <1>7, <1>8 DEF LedgerInv

(* A generation at the head of a branch, over packs that stay as they are. *)
LEMMA Advanced ==
    ASSUME LedgerInv, NEW b \in Branches, NEW g \in Gen(Len(packs)), Small(g.condemned),
           gens' = Append(gens, g), head' = [head EXCEPT ![b] = Len(gens) + 1],
           packs' = packs, now' = now,
           tag' \in [Pins -> 0..Len(gens)],
           sidecar' \in [Branches -> [number : Nat, chunks : SUBSET Chunks]],
           \/ job' = job
           \/ job' = [job EXCEPT ![b] = Idle],
           \/ rewrite' = rewrite
           \/ rewrite' = Idle
    PROVE  LedgerInv'
  <1> DEFINE n == Len(packs)
  <1>1. /\ gens' \in Seq(Gen(n)) /\ Len(gens') = Len(gens) + 1 /\ Len(gens) \in Nat
        /\ \A i \in 1..Len(gens) : gens'[i] = gens[i]
        /\ \A i \in 1..Len(gens') : Small(gens'[i].condemned)
    BY Built
  <1>2. (0..Len(gens)) \subseteq (0..Len(gens')) /\ (1..Len(gens)) \subseteq (1..Len(gens'))
    BY <1>1
  <1>3. head' \in [Branches -> 0..Len(gens')] /\ tag' \in [Pins -> 0..Len(gens')]
    <2>1. head \in [Branches -> 0..Len(gens)]
      BY DEF LedgerInv, RetentionTypeOK
    <2>2. Len(gens) + 1 \in 0..Len(gens')
      BY <1>1
    <2> QED  BY <1>2, <2>1, <2>2
  <1>4. job' \in [Branches -> [at : {"idle"}]
                 \cup [at : {"seal"}, base : 1..Len(gens'), files : SUBSET Chunks, start : Nat,
                       seen : SUBSET Chunks, doc : Doc(n)]]
    <2> DEFINE Job(k) == [at : {"idle"}]
                 \cup [at : {"seal"}, base : 1..k, files : SUBSET Chunks, start : Nat,
                       seen : SUBSET Chunks, doc : Doc(n)]
    <2>1. job \in [Branches -> Job(Len(gens))]
      BY DEF LedgerInv, RetentionTypeOK
    <2>2. Job(Len(gens)) \subseteq Job(Len(gens'))
      BY <1>2
    <2>3. Idle \in Job(Len(gens'))
      BY DEF Idle
    <2> HIDE DEF Job
    <2>4. job' \in [Branches -> Job(Len(gens'))]
      BY <2>1, <2>2, <2>3
    <2> QED  BY <2>4 DEF Job
  <1>5. rewrite' \in [at : {"idle"}]
          \cup [at : {"planned"}, branch : Branches, base : 1..Len(gens'),
                condemn : SUBSET (1..n), live : SUBSET Chunks]
          \cup [at : {"written"}, branch : Branches, base : 1..Len(gens'), start : Nat,
                live : SUBSET Chunks, doc : Doc(n)]
    BY <1>2 DEF LedgerInv, RetentionTypeOK, Idle
  <1>6. RetentionTypeOK'
    BY <1>1, <1>3, <1>4, <1>5 DEF LedgerInv, RetentionTypeOK
  <1>7. PlanFits'
    <2> SUFFICES ASSUME rewrite'.at = "planned" PROVE rewrite' = rewrite /\ PlanFits'
      BY DEF PlanFits
    <2>1. rewrite' = rewrite
      BY DEF Idle
    <2>2. rewrite.base \in 1..Len(gens)
      BY <2>1 DEF LedgerInv, RetentionTypeOK
    <2>3. Carried(rewrite.base)' = Carried(rewrite.base)
      BY <1>1, <2>1, <2>2 DEF Carried
    <2> QED  BY <2>1, <2>3 DEF LedgerInv, PlanFits
  <1>8. DocumentsFit'
    <2>1. \A c \in Branches : job'[c].at = "seal" => job'[c] = job[c]
      BY DEF LedgerInv, RetentionTypeOK, Idle
    <2>2. rewrite'.at = "written" => rewrite' = rewrite
      BY DEF Idle
    <2> QED  BY <1>1, <2>1, <2>2 DEF LedgerInv, DocumentsFit
  <1> QED  BY <1>6, <1>7, <1>8 DEF LedgerInv

LEMMA SealFlipKeeps ==
    ASSUME LedgerInv, NEW b \in Branches, SealFlip(b)
    PROVE  LedgerInv'
  <1> DEFINE j == job[b]
             g == Generation(j.doc, j.base, "seal", j.files)
  <1>1. /\ j \in [at : {"seal"}, base : 1..Len(gens), files : SUBSET Chunks, start : Nat,
                  seen : SUBSET Chunks, doc : Doc(Len(packs))]
        /\ Small(j.doc.condemned) /\ Len(packs) \in Nat
    BY DEF LedgerInv, RetentionTypeOK, DocumentsFit, SealFlip
  <1>2. j.doc \in Doc(Len(packs)) /\ j.base \in Nat /\ j.files \in SUBSET Chunks
    BY <1>1
  <1>3. g \in Gen(Len(packs)) /\ Small(g.condemned)
    <2>1. g \in Gen(Len(packs))
      BY <1>1, <1>2, GenerationTypes
    <2> QED  BY <1>1, <2>1 DEF Generation
  <1>4. sidecar' \in [Branches -> [number : Nat, chunks : SUBSET Chunks]]
    <2>1. j.doc.number \in Nat /\ j.seen \in SUBSET Chunks
      BY <1>1 DEF Doc
    <2> QED  BY <2>1 DEF LedgerInv, RetentionTypeOK, SealFlip
  <1>5. tag' \in [Pins -> 0..Len(gens)]
    BY DEF LedgerInv, RetentionTypeOK, SealFlip
  <1>6. /\ gens' = Append(gens, g) /\ head' = [head EXCEPT ![b] = Len(gens) + 1]
        /\ packs' = packs /\ now' = now /\ job' = [job EXCEPT ![b] = Idle] /\ rewrite' = rewrite
    BY DEF SealFlip
  <1> HIDE DEF g, j
  <1> QED  BY <1>3, <1>4, <1>5, <1>6, Advanced

LEMMA RepackFlipKeeps ==
    ASSUME LedgerInv, RepackFlip
    PROVE  LedgerInv'
  <1> DEFINE r == rewrite
             b == r.branch
             g == Generation(r.doc, r.base, "repack", gens[r.base].files)
  <1>1. /\ r \in [at : {"written"}, branch : Branches, base : 1..Len(gens), start : Nat,
                  live : SUBSET Chunks, doc : Doc(Len(packs))]
        /\ Small(r.doc.condemned) /\ Len(packs) \in Nat
    BY DEF LedgerInv, RetentionTypeOK, DocumentsFit, RepackFlip
  <1>2. r.doc \in Doc(Len(packs)) /\ r.base \in Nat /\ gens[r.base].files \in SUBSET Chunks
    <2>1. gens[r.base] \in Gen(Len(packs))
      BY <1>1 DEF LedgerInv, RetentionTypeOK
    <2>2. gens[r.base].files \in SUBSET Chunks
      BY <2>1 DEF Gen
    <2> QED  BY <1>1, <2>2
  <1>3. g \in Gen(Len(packs)) /\ Small(g.condemned)
    <2>1. g \in Gen(Len(packs))
      BY <1>1, <1>2, GenerationTypes
    <2> QED  BY <1>1, <2>1 DEF Generation
  <1>4. sidecar' \in [Branches -> [number : Nat, chunks : SUBSET Chunks]]
    <2>1. r.doc.number \in Nat
      BY <1>1 DEF Doc
    <2>2. sidecar \in [Branches -> [number : Nat, chunks : SUBSET Chunks]] /\ b \in Branches
      BY <1>1 DEF LedgerInv, RetentionTypeOK
    <2>3. Restamped(sidecar[b], r) \in [number : Nat, chunks : SUBSET Chunks]
      BY <2>1, <2>2 DEF Restamped
    <2>4. sidecar' = sidecar \/ sidecar' = [sidecar EXCEPT ![b] = Restamped(sidecar[b], r)]
      BY DEF RepackFlip
    <2> HIDE DEF r, b
    <2> QED  BY <2>2, <2>3, <2>4
  <1>5. tag' \in [Pins -> 0..Len(gens)]
    BY DEF LedgerInv, RetentionTypeOK, RepackFlip
  <1>6. /\ gens' = Append(gens, g) /\ head' = [head EXCEPT ![b] = Len(gens) + 1]
        /\ packs' = packs /\ now' = now /\ rewrite' = Idle /\ job' = job /\ b \in Branches
    BY <1>1 DEF RepackFlip
  <1> HIDE DEF g, r, b
  <1> QED  BY <1>3, <1>4, <1>5, <1>6, Advanced

LEMMA CutBranchKeeps ==
    ASSUME LedgerInv, NEW b \in Branches, NEW from \in Branches, CutBranch(b, from)
    PROVE  LedgerInv'
  <1> DEFINE source == gens[head[from]]
             g == Fork(source, head[from], now)
  <1>1. /\ head[from] \in 1..Len(gens) /\ now \in Nat /\ Len(packs) \in Nat
        /\ source \in Gen(Len(packs)) /\ Small(source.condemned)
    BY DEF LedgerInv, RetentionTypeOK, CutBranch, DocumentsFit, NoGen
  <1>2. g \in Gen(Len(packs)) /\ Small(g.condemned)
    <2>1. head[from] \in Nat
      BY <1>1
    <2>2. g \in Gen(Len(packs)) /\ g.condemned = source.condemned
      <3> HIDE DEF source
      <3> QED  BY <1>1, <2>1, ForkTypes
    <2> QED  BY <1>1, <2>2
  <1>3. tag' \in [Pins -> 0..Len(gens)]
    BY <1>1 DEF LedgerInv, RetentionTypeOK, CutBranch
  <1>4. /\ packs' = packs /\ now' = now /\ job' = job /\ rewrite' = rewrite
        /\ sidecar' \in [Branches -> [number : Nat, chunks : SUBSET Chunks]]
    BY DEF LedgerInv, RetentionTypeOK, CutBranch
  <1>5. CASE gens' = Append(gens, g) /\ head' = [head EXCEPT ![b] = Len(gens) + 1]
    <2> HIDE DEF g
    <2> QED  BY <1>2, <1>3, <1>4, <1>5, Advanced
  <1>6. CASE UNCHANGED <<gens, head>>
    BY <1>3, <1>4, <1>6
    DEF LedgerInv, RetentionTypeOK, PlanFits, DocumentsFit, Carried
  <1> QED  BY <1>5, <1>6 DEF CutBranch

LEMMA RepackPlanKeeps ==
    ASSUME LedgerInv, NEW b \in Repacked, RepackPlan(b)
    PROVE  LedgerInv'
  <1> DEFINE n == Len(packs)
  <1>1. PICK condemn \in SUBSET Candidates :
          /\ Fits(head[b], condemn)
          /\ rewrite' = [at |-> "planned", branch |-> b, base |-> head[b],
                         condemn |-> condemn, live |-> Reachable]
    BY DEF RepackPlan
  <1>2. head[b] \in 1..Len(gens) /\ b \in Branches /\ n \in Nat
    BY RetentionAssumption DEF LedgerInv, RetentionTypeOK, RepackPlan, NoGen
  <1>3. \A g \in Roots : g \in 1..Len(gens) /\ gens[g] \in Gen(n)
    BY DEF LedgerInv, RetentionTypeOK, Roots, Heads, NoGen
  <1>4. condemn \in SUBSET (1..n)
    <2>1. \A g \in Roots : Named(gens[g]) \in SUBSET (1..n)
      BY <1>2, <1>3, NamedPacks
    <2> QED  BY <2>1 DEF Candidates
  <1>5. Reachable \in SUBSET Chunks
    <2>1. \A g \in Roots : gens[g].files \in SUBSET Chunks
      BY <1>3 DEF Gen
    <2> QED  BY <2>1 DEF Reachable
  <1>6. IsFiniteSet(condemn)
    <2>1. IsFiniteSet(1..n)
      BY <1>2, FS_Interval
    <2> QED  BY <1>4, <2>1, FS_Subset
  <1>7. IsFiniteSet(Carried(head[b]))
    <2>1. Small(gens[head[b]].condemned)
      BY <1>2 DEF LedgerInv, DocumentsFit
    <2> QED  BY <2>1, NothingCondemned DEF Carried, Small
  <1>8. RetentionTypeOK'
    BY <1>1, <1>2, <1>4, <1>5 DEF LedgerInv, RetentionTypeOK, RepackPlan
  <1>9. PlanFits'
    <2>1. rewrite'.condemn = condemn /\ rewrite'.base = head[b]
      BY <1>1
    <2>2. Carried(head[b])' = Carried(head[b])
      BY DEF Carried, RepackPlan
    <2>3. Carried(rewrite.base)' = Carried(head[b])
      BY <2>1, <2>2 DEF Carried, RepackPlan
    <2> QED  BY <1>1, <1>6, <1>7, <2>1, <2>3 DEF PlanFits, Fits
  <1>10. DocumentsFit'
    BY <1>1 DEF LedgerInv, DocumentsFit, RepackPlan
  <1> QED  BY <1>8, <1>9, <1>10 DEF LedgerInv

LEMMA RepackWriteKeeps ==
    ASSUME LedgerInv, RepackWrite
    PROVE  LedgerInv'
  <1> DEFINE n == Len(packs)
             r == rewrite
             base == gens[r.base]
             m == (Named(base) \ r.condemn) \cup {n + 1}
             chunks == r.live \cap UNION {packs[p].chunks : p \in r.condemn}
             backups == UNION {packs[p].backups : p \in r.condemn}
             doc == Document(base, base.number + 1, r.branch, {m}, r.condemn, now)
  <1>1. /\ r \in [at : {"planned"}, branch : Branches, base : 1..Len(gens),
                  condemn : SUBSET (1..n), live : SUBSET Chunks]
        /\ n \in Nat /\ now \in Nat /\ base \in Gen(n)
    BY DEF LedgerInv, RetentionTypeOK, RepackWrite
  <1>2. backups \in SUBSET Doc(n) /\ chunks \in SUBSET Chunks
    <2>1. \A p \in 1..n : packs[p].backups \in SUBSET Doc(n)
      <3> DEFINE Pack == [chunks : SUBSET Chunks, backups : SUBSET Doc(n), born : Nat]
      <3>1. packs \in Seq(Pack)
        BY DEF LedgerInv, RetentionTypeOK
      <3>2. \A p \in 1..n : packs[p] \in Pack
        <4> HIDE DEF Pack
        <4> QED  BY <3>1
      <3> QED  BY <3>2
    <2>2. r.condemn \in SUBSET (1..n) /\ r.live \in SUBSET Chunks
      BY <1>1
    <2> HIDE DEF r, n
    <2> QED  BY <2>1, <2>2
  <1>3. /\ packs' = Append(packs, [chunks |-> chunks, born |-> now, backups |-> backups])
        /\ rewrite' = [at |-> "written", branch |-> r.branch, base |-> r.base,
                       start |-> now, live |-> r.live, doc |-> doc]
    BY DEF RepackWrite
  <1>4. /\ Len(packs') = n + 1
        /\ packs' \in Seq([chunks : SUBSET Chunks, backups : SUBSET Doc(n + 1), born : Nat])
        /\ gens \in Seq(Gen(n + 1))
        /\ Doc(n) \subseteq Doc(n + 1) /\ Gen(n) \subseteq Gen(n + 1)
    <2> HIDE DEF chunks, backups
    <2> QED  BY <1>1, <1>2, <1>3, Cut
  <1>5. doc \in Doc(n + 1)
    <2>1. base \in Gen(n + 1) /\ base.number + 1 \in Nat /\ Named(base) \in SUBSET (1..n)
      <3>1. base \in Gen(n) => base.number \in Nat
        BY DEF Gen
      <3> HIDE DEF base, n
      <3> QED  BY <1>1, <1>4, <3>1, NamedPacks
    <2>2. {m} \in SUBSET SUBSET (1..(n + 1)) /\ r.condemn \in SUBSET (1..(n + 1))
      <3> HIDE DEF base
      <3> QED  BY <1>1, <2>1
    <2>3. n + 1 \in Nat /\ r.branch \in Branches
      BY <1>1
    <2> HIDE DEF base, m, n, r
    <2> QED  BY <1>1, <2>1, <2>2, <2>3, DocumentTypes
  <1>6. Small(doc.condemned)
    <2> DEFINE kept == {x \in base.condemned : x.name \notin UNION {m} /\ now - x.at < Grace}
    <2>1. doc.condemned = CarryCondemned(base.condemned, r.condemn, UNION {m}, now)
      BY DEF Document
    <2>2. base.condemned \in Rows(1..n)
      <3>1. base \in Gen(n) => base.condemned \in Rows(1..n)
        BY DEF Gen
      <3> HIDE DEF base, n
      <3> QED  BY <1>1, <3>1
    <2>3. kept \in SUBSET Carried(r.base)
      <3>1. kept \in SUBSET CarryCondemned(base.condemned, {}, {}, now)
        <4> HIDE DEF base, m, n
        <4> QED  BY <1>1, <2>2, CarriedShrinks
      <3> QED  BY <3>1 DEF Carried
    <2>4. /\ IsFiniteSet(r.condemn) /\ IsFiniteSet(Carried(r.base))
          /\ Cardinality(r.condemn) + Cardinality(Carried(r.base)) <= LedgerRoom
      BY <1>1 DEF LedgerInv, PlanFits
    <2>5. IsFiniteSet(kept) /\ Cardinality(kept) <= Cardinality(Carried(r.base))
      <3> HIDE DEF kept, r
      <3> QED  BY <2>3, <2>4, FS_Subset
    <2>6. /\ IsFiniteSet(doc.condemned)
          /\ Cardinality(doc.condemned) <= Cardinality(kept) + Cardinality(r.condemn)
      <3> HIDE DEF base, m, r, doc
      <3> QED  BY <2>1, <2>4, <2>5, CarryCount
    <2>7. /\ Cardinality(kept) \in Nat /\ Cardinality(r.condemn) \in Nat
          /\ Cardinality(Carried(r.base)) \in Nat /\ Cardinality(doc.condemned) \in Nat
      <3> HIDE DEF kept, r, doc
      <3> QED  BY <2>4, <2>5, <2>6, FS_CardinalityType
    <2> HIDE DEF kept, r, doc
    <2> QED  BY <2>4, <2>5, <2>6, <2>7, RetentionAssumption DEF Small
  <1>7. RetentionTypeOK'
    <2>1. job \in [Branches -> [at : {"idle"}]
                   \cup [at : {"seal"}, base : 1..Len(gens), files : SUBSET Chunks, start : Nat,
                         seen : SUBSET Chunks, doc : Doc(n + 1)]]
      <3> DEFINE Job(k) == [at : {"idle"}]
                   \cup [at : {"seal"}, base : 1..Len(gens), files : SUBSET Chunks, start : Nat,
                         seen : SUBSET Chunks, doc : Doc(k)]
      <3>1. job \in [Branches -> Job(n)]
        BY DEF LedgerInv, RetentionTypeOK
      <3>2. Job(n) \subseteq Job(n + 1)
        BY <1>4
      <3> HIDE DEF Job, n
      <3>3. job \in [Branches -> Job(n + 1)]
        BY <3>1, <3>2
      <3> QED  BY <3>3 DEF Job
    <2>2. rewrite' \in [at : {"written"}, branch : Branches, base : 1..Len(gens), start : Nat,
                        live : SUBSET Chunks, doc : Doc(n + 1)]
      <3> HIDE DEF doc
      <3> QED  BY <1>1, <1>3, <1>5
    <2> HIDE DEF doc, n
    <2> QED  BY <1>1, <1>4, <2>1, <2>2 DEF LedgerInv, RetentionTypeOK, RepackWrite, n
  <1>8. PlanFits'
    BY <1>3 DEF PlanFits
  <1>9. DocumentsFit'
    <2>1. rewrite'.doc = doc
      BY <1>3
    <2> HIDE DEF doc
    <2> QED  BY <1>6, <2>1 DEF LedgerInv, DocumentsFit, RepackWrite
  <1> QED  BY <1>7, <1>8, <1>9 DEF LedgerInv

LEMMA TickKeeps ==
    ASSUME LedgerInv, Tick
    PROVE  LedgerInv'
  <1>1. RetentionTypeOK'
    BY DEF LedgerInv, RetentionTypeOK, Tick, work
  <1>2. PlanFits'
    <2> SUFFICES ASSUME rewrite.at = "planned" PROVE PlanFits'
      BY DEF PlanFits, Tick, work
    <2> DEFINE r == rewrite
               prev == gens[r.base].condemned
    <2>1. /\ prev \in Rows(1..Len(packs)) /\ now \in Nat /\ now + 1 \in Nat
          /\ r.base \in 1..Len(gens)
      <3>1. r.base \in 1..Len(gens) /\ gens[r.base] \in Gen(Len(packs)) /\ now \in Nat
        BY DEF LedgerInv, RetentionTypeOK
      <3> QED  BY <3>1 DEF Gen
    <2>2. Carried(r.base)' \in SUBSET Carried(r.base)
      <3>1. ASSUME NEW row \in CarryCondemned(prev, {}, {}, now + 1)
            PROVE  row \in CarryCondemned(prev, {}, {}, now)
        <4>1. row \in prev /\ (now + 1) - row.at < Grace
          <5> HIDE DEF prev
          <5> QED  BY Zenon DEF CarryCondemned
        <4>2. now - row.at < Grace
          <5>1. row.at \in Nat
            <6> HIDE DEF prev
            <6> QED  BY <2>1, <4>1 DEF Rows
          <5>2. Grace \in Nat
            BY RetentionAssumption
          <5> HIDE DEF prev
          <5> QED  BY <2>1, <4>1, <5>1, <5>2
        <4> HIDE DEF prev
        <4> QED  BY <4>1, <4>2 DEF CarryCondemned
      <3>2. Carried(r.base)' = CarryCondemned(prev, {}, {}, now + 1)
        BY DEF Carried, Tick, work
      <3> QED  BY <3>1, <3>2 DEF Carried
    <2>3. /\ IsFiniteSet(r.condemn) /\ IsFiniteSet(Carried(r.base))
          /\ Cardinality(r.condemn) + Cardinality(Carried(r.base)) <= LedgerRoom
      BY DEF LedgerInv, PlanFits
    <2>4. IsFiniteSet(Carried(r.base)') /\ Cardinality(Carried(r.base)') <= Cardinality(Carried(r.base))
      BY <2>2, <2>3, FS_Subset
    <2>5. /\ Cardinality(r.condemn) \in Nat /\ Cardinality(Carried(r.base)) \in Nat
          /\ Cardinality(Carried(r.base)') \in Nat
      BY <2>3, <2>4, FS_CardinalityType
    <2>6. rewrite' = rewrite
      BY DEF Tick, work
    <2> QED  BY <2>3, <2>4, <2>5, <2>6, RetentionAssumption DEF PlanFits
  <1>3. DocumentsFit'
    BY DEF LedgerInv, DocumentsFit, Tick, work
  <1> QED  BY <1>1, <1>2, <1>3 DEF LedgerInv

(* What changes neither the generations nor the work in hand.              *)
LEMMA OthersKeep ==
    ASSUME LedgerInv, now' = now, gens' = gens, packs' = packs, sidecar' = sidecar,
           \/ /\ rewrite' \in {rewrite, Idle} /\ job' = job
              /\ head' = head /\ tag' = tag
           \/ /\ rewrite' = rewrite /\ head' = head /\ tag' = tag
              /\ \E b \in Branches : job' = [job EXCEPT ![b] = Idle]
           \/ /\ rewrite' = rewrite /\ job' = job
              /\ head' \in [Branches -> 0..Len(gens)] /\ tag' \in [Pins -> 0..Len(gens)]
    PROVE  LedgerInv'
  <1>1. RetentionTypeOK'
    <2> DEFINE Job == [at : {"idle"}]
                   \cup [at : {"seal"}, base : 1..Len(gens), files : SUBSET Chunks, start : Nat,
                         seen : SUBSET Chunks, doc : Doc(Len(packs))]
    <2>1. job \in [Branches -> Job]
      BY DEF LedgerInv, RetentionTypeOK
    <2>2. Idle \in Job
      BY DEF Idle
    <2>3. job' \in [Branches -> Job]
      <3> HIDE DEF Job
      <3> QED  BY <2>1, <2>2
    <2>4. rewrite' = rewrite \/ rewrite' \in [at : {"idle"}]
      BY DEF Idle
    <2> QED  BY <2>3, <2>4 DEF LedgerInv, RetentionTypeOK
  <1>2. PlanFits'
    BY DEF LedgerInv, PlanFits, Carried, Idle
  <1>3. DocumentsFit'
    <2>1. \A c \in Branches : job'[c].at = "seal" => job'[c] = job[c]
      BY DEF LedgerInv, RetentionTypeOK, Idle
    <2> QED  BY <2>1 DEF LedgerInv, DocumentsFit, Idle
  <1> QED  BY <1>1, <1>2, <1>3 DEF LedgerInv

LEMMA StepKeeps == LedgerInv /\ [Next]_vars => LedgerInv'
  <1> SUFFICES ASSUME LedgerInv, [Next]_vars PROVE LedgerInv'
    OBVIOUS
  <1>1. ASSUME NEW b \in Branches, Publish(b) PROVE LedgerInv'
    <2>1. CASE SealEnds(b)
      BY <2>1, OthersKeep DEF SealEnds
    <2> QED  BY <1>1, <2>1, SealUploadKeeps, SealFlipKeeps DEF Publish
  <1>2. ASSUME NEW b \in Branches, NEW from \in Branches, CutBranch(b, from) PROVE LedgerInv'
    BY <1>2, CutBranchKeeps
  <1>3. ASSUME NEW t \in Tags, NEW b \in Branches, CreateTag(t, b) PROVE LedgerInv'
    <2>1. tag' \in [Pins -> 0..Len(gens)] /\ head' = head
      BY <1>3 DEF CreateTag, LedgerInv, RetentionTypeOK
    <2> QED  BY <1>3, <2>1, OthersKeep DEF CreateTag, LedgerInv, RetentionTypeOK
  <1>4. ASSUME NEW b \in Deletable, DeleteBranch(b) PROVE LedgerInv'
    <2>1. head' \in [Branches -> 0..Len(gens)] /\ tag' = tag
      <3>1. head \in [Branches -> 0..Len(gens)] /\ Len(gens) \in Nat
        BY DEF LedgerInv, RetentionTypeOK
      <3>2. head' = [head EXCEPT ![b] = 0] /\ tag' = tag /\ 0 \in 0..Len(gens)
        BY <1>4, <3>1 DEF DeleteBranch, NoGen
      <3> QED  BY <3>1, <3>2
    <2> QED  BY <1>4, <2>1, OthersKeep DEF DeleteBranch, LedgerInv, RetentionTypeOK
  <1>5. ASSUME NEW t \in Pins, DeleteTag(t) PROVE LedgerInv'
    <2>1. tag' \in [Pins -> 0..Len(gens)] /\ head' = head
      BY <1>5 DEF DeleteTag, LedgerInv, RetentionTypeOK, NoGen
    <2> QED  BY <1>5, <2>1, OthersKeep DEF DeleteTag, LedgerInv, RetentionTypeOK
  <1>6. CASE Repack
    <2>1. CASE RepackEnds
      BY <2>1, OthersKeep DEF RepackEnds
    <2> QED  BY <1>6, <2>1, RepackPlanKeeps, RepackWriteKeeps, RepackFlipKeeps DEF Repack
  <1>7. CASE GC
    <2>1. UNCHANGED <<now, gens, packs, head, tag, sidecar, job, rewrite>>
      BY <1>7 DEF GC, SweepStart, SweepBranch, SweepTags, SweepTag, SweepScan, SweepSpare,
                  SweepDelete, SweepStops, work
    <2> QED  BY <2>1, OthersKeep
  <1>8. CASE Tick
    BY <1>8, TickKeeps
  <1>9. CASE UNCHANGED vars
    BY <1>9, OthersKeep DEF vars
  <1> QED  BY <1>1, <1>2, <1>3, <1>4, <1>5, <1>6, <1>7, <1>8, <1>9 DEF Next

-----------------------------------------------------------------------------
(* The theorems.                                                           *)

(* Every document lists packs that were cut, every ref names a generation  *)
(* that was built, whatever is published, repacked, forked or deleted.     *)
THEOREM RetentionTypes == Spec => []RetentionTypeOK
  <1>1. LedgerInv => RetentionTypeOK
    BY DEF LedgerInv
  <1> QED  BY <1>1, InitTypes, StepKeeps, PTL DEF Spec

(* What a repack stops listing stays on the ledger of the head: no run     *)
(* condemns more than there is room for, so no row is pushed out, although *)
(* the room is measured when the run is planned and seals and time go on.  *)
THEOREM LedgersFit == Spec => []LedgerFits
  <1>1. LedgerInv => LedgerFits
    <2> SUFFICES ASSUME LedgerInv, NEW g \in Roots
                 PROVE  Cardinality(gens[g].condemned) <= LedgerRoom
      BY DEF LedgerFits
    <2>1. g \in 1..Len(gens)
      BY DEF LedgerInv, RetentionTypeOK, Roots, Heads, NoGen
    <2> QED  BY <2>1 DEF LedgerInv, DocumentsFit, Small
  <1> QED  BY <1>1, InitTypes, StepKeeps, PTL DEF Spec

-----------------------------------------------------------------------------
(* What the roots name is there.                                           *)
(*                                                                         *)
(* Packs and manifests go the same way: they are written, named, dropped,  *)
(* condemned and swept, so what is said of both is said once.              *)

Objects == {"packs", "manifests"}

(* What was ever written, and when.                                        *)
born == [packs |-> [p \in 1..Len(packs) |-> packs[p].born], manifests |-> mtime]

Lists(doc, key)  == IF key = "packs" THEN Named(doc) ELSE doc.manifests
Ledger(doc, key) == IF key = "packs" THEN doc.condemned ELSE doc.condemnedManifests

(* The chunks in the packs a document names.                               *)
Holding(ps, doc) == UNION {ps[p].chunks : p \in Named(doc)}

SealedOn(b) == \E p \in 1..Len(packs) : \E d \in packs[p].backups : d.branch = b

(* What is stored was written by now; a manifest names packs there are.    *)
StoreInv ==
    /\ DOMAIN mtime \subseteq SUBSET (1..Len(packs))
    /\ \A key \in Objects : \A x \in DOMAIN born[key] :
          born[key][x] \in Nat /\ born[key][x] <= now

(* A ledger never names what its own document lists.                       *)
RowsUnlisted(doc) == \A key \in Objects : \A r \in Ledger(doc, key) : r.name \notin Lists(doc, key)

(* A document over what is written ("w").                                  *)
Sound(w, doc) == RowsUnlisted(doc) /\ \A key \in Objects : Lists(doc, key) \subseteq DOMAIN w[key]

(* A document begun at "start" on a base: what it adds was written since,  *)
(* what it drops it condemns, and it carries the rows that are young.      *)
Follows(w, doc, base, start) ==
    /\ Sound(w, doc)
    /\ \A key \in Objects :
          /\ \A x \in Lists(doc, key) \ Lists(base, key) : w[key][x] >= start
          /\ \A x \in Lists(base, key) \ Lists(doc, key) :
                \E r \in Ledger(doc, key) : r.name = x /\ r.at >= start
          /\ \A r \in Ledger(base, key) :
                start - r.at < Grace => r.name \in Lists(doc, key) \/ r \in Ledger(doc, key)

DocsInv ==
    /\ \A g \in 1..Len(gens) : gens[g].number # 0 /\ Sound(born, gens[g])
    /\ \A b \in Branches : job[b].at = "seal" =>
          /\ Follows(born, job[b].doc, gens[job[b].base], job[b].start)
          /\ job[b].doc.number = gens[job[b].base].number + 1 /\ job[b].start <= now
    /\ rewrite.at = "written" =>
          /\ Follows(born, rewrite.doc, gens[rewrite.base], rewrite.start)
          /\ rewrite.doc.number = gens[rewrite.base].number + 1 /\ rewrite.start <= now

(* A generation follows its parent, and a publish its base, in time and in *)
(* what they drop and carry.                                               *)
LinesFollow ==
    /\ \A g \in 1..Len(gens) :
          /\ gens[g].parent \in 0..(g - 1) /\ gens[g].created <= now
          /\ gens[g].parent # NoGen =>
                /\ gens[gens[g].parent].created <= gens[g].created
                /\ Follows(born, gens[g], gens[gens[g].parent], gens[g].created)
    /\ \A b \in Branches : job[b].at = "seal" =>
          job[b].doc.created = job[b].start /\ gens[job[b].base].created <= job[b].start
    /\ rewrite.at = "written" =>
          rewrite.doc.created = rewrite.start /\ gens[rewrite.base].created <= rewrite.start

(* Files are in the packs of their generation, and so is what a sidecar    *)
(* or a seal takes for known; a repack copies what it must.                *)
FilesHeld == \A g \in 1..Len(gens) : gens[g].files \subseteq Holding(packs, gens[g])

JobsHeld ==
    \A b \in Branches : job[b].at = "seal" =>
       job[b].files \cup job[b].seen \subseteq Holding(packs, job[b].doc) /\ SealedOn(b)

RewriteHeld ==
    /\ rewrite.at \in {"planned", "written"} => gens[rewrite.base].files \subseteq rewrite.live
    /\ rewrite.at = "written" =>
          Holding(packs, gens[rewrite.base]) \cap rewrite.live \subseteq Holding(packs, rewrite.doc)

SidecarsHeld ==
    \A b \in Branches :
       /\ sidecar[b].number # 0 => SealedOn(b)
       /\ head[b] # NoGen =>
             /\ sidecar[b].number <= gens[head[b]].number
             /\ sidecar[b].number = gens[head[b]].number =>
                   sidecar[b].chunks \subseteq Holding(packs, gens[head[b]])

ContentInv == FilesHeld /\ JobsHeld /\ RewriteHeld /\ SidecarsHeld

(* What was swept was old, and no root names it.                           *)
SweptInv ==
    /\ DOMAIN swept = Objects
    /\ \A key \in Objects :
          /\ \A x \in swept[key] : x \in DOMAIN born[key] /\ now - born[key][x] >= Grace
          /\ \A g \in Roots : Lists(gens[g], key) \cap swept[key] = {}

(* Past the age guard of the sweep under way.                              *)
Aged(key, x) == x \in DOMAIN born[key] /\ sweep.now - born[key][x] >= Grace

(* Named by a document, or condemned so lately, when a sweep began "at",   *)
(* that the row will be carried until the sweep reads the head.            *)
Keeps(doc, at, key, x) ==
    \/ x \in Lists(doc, key)
    \/ \E r \in Ledger(doc, key) : r.name = x /\ at - r.at < SealLimit

(* Seen already, or still to be seen.                                      *)
Found(key, x) ==
    \/ x \in sweep.live[key]
    \/ \E a \in sweep.todo : Keeps(gens[head[a]], sweep.now, key, x)

SweepShape ==
    /\ sweep.at \in {"idle", "branches", "tags", "deletes"}
    /\ sweep.at \in {"branches", "tags"} =>
          /\ DOMAIN sweep = {"at", "pass", "now", "live", "listed", "todo", "window", "doomed"}
          /\ sweep.now \in Nat /\ sweep.now <= now /\ sweep.pass \in {1, 2}
          /\ sweep.pass = 2 => \A key \in Objects : \A x \in sweep.doomed[key] : Aged(key, x)
    /\ sweep.at = "branches" => sweep.todo \subseteq Branches
    /\ sweep.at = "deletes" => DOMAIN sweep = {"at", "doomed"}
    /\ sweep.at \in {"branches", "tags", "deletes"} => DOMAIN sweep.doomed = Objects

Passes == {1, 2}

(* In the safe pass, what is aged and named by a root has been found, or   *)
(* will be; and what is left to delete after it is aged, and no root       *)
(* names it.                                                               *)
BranchesFound(safe) ==
    sweep.at = "branches" /\ sweep.pass = safe => \A b \in Branches : head[b] # NoGen =>
       \A key \in Objects : \A x \in Lists(gens[head[b]], key) : Aged(key, x) => Found(key, x)

TagsFound(safe) ==
    sweep.at = "tags" /\ sweep.pass = safe => \A key \in Objects :
       /\ \A b \in Branches : head[b] # NoGen =>
             \A x \in Lists(gens[head[b]], key) : Aged(key, x) => x \in sweep.live[key]
       /\ \A t \in Pins \ sweep.todo : tag[t] # NoGen =>
             \A x \in Lists(gens[tag[t]], key) : Aged(key, x) => x \in sweep.live[key]

Decided(safe) ==
    \/ sweep.at = "deletes"
    \/ sweep.at \in {"branches", "tags"} /\ sweep.pass = 2 /\ safe = 1

Unnamed(doomed) ==
    \A key \in Objects :
       /\ \A x \in doomed[key] : x \in DOMAIN born[key] /\ now - born[key][x] >= Grace
       /\ \A g \in Roots : Lists(gens[g], key) \cap doomed[key] = {}

DoomedUnnamed(safe) == Decided(safe) => Unnamed(sweep.doomed)

SweepInv(safe) == SweepShape /\ BranchesFound(safe) /\ TagsFound(safe) /\ DoomedUnnamed(safe)

(* What the code does not enforce: while the safe pass has branches to     *)
(* read, none of these is deleted, and it is done with them before what is *)
(* condemned meanwhile ages out.                                           *)
SweepUndisturbed(safe) ==
    sweep.at = "branches" /\ sweep.pass = safe =>
       now - sweep.now <= Grace - SealLimit /\ \A b \in sweep.todo : head[b] # NoGen

RootsInv(safe) == LedgerInv /\ StoreInv /\ DocsInv /\ ContentInv /\ SweptInv /\ SweepInv(safe)

-----------------------------------------------------------------------------
(* Documents.                                                              *)

(* What is carried: nothing that is listed, everything that is dropped,    *)
(* and the young rows of the parent.                                       *)
LEMMA CarryKeeps ==
    ASSUME NEW prev, NEW dropped, NEW listed, NEW at
    PROVE  LET rows == CarryCondemned(prev, dropped, listed, at) IN
           /\ \A r \in rows : r.name \notin listed
           /\ \A x \in dropped \ listed : (\A r \in prev : r.name # x) =>
                 \E r \in rows : r.name = x /\ r.at = at
           /\ \A r \in prev : at - r.at < Grace => r.name \in listed \/ r \in rows
<1> DEFINE kept == {r \in prev : r.name \notin listed /\ at - r.at < Grace}
           new == {[name |-> n, at |-> at] : n \in (dropped \ listed) \ {r.name : r \in kept}}
<1>1. CarryCondemned(prev, dropped, listed, at) = kept \cup new
  BY DEF CarryCondemned
<1>2. \A r \in kept \cup new : r.name \notin listed
  OBVIOUS
<1>3. ASSUME NEW x \in dropped \ listed, \A r \in prev : r.name # x
      PROVE  \E r \in kept \cup new : r.name = x /\ r.at = at
  <2>1. x \in (dropped \ listed) \ {r.name : r \in kept}
    BY <1>3
  <2> DEFINE row == [name |-> x, at |-> at]
  <2>2. row \in new /\ row.name = x /\ row.at = at
    <3> HIDE DEF kept
    <3> QED  BY <2>1
  <2> HIDE DEF row, kept, new
  <2> QED  BY <2>2
<1>4. \A r \in prev : at - r.at < Grace => r.name \in listed \/ r \in kept
  OBVIOUS
<1> HIDE DEF kept, new
<1> QED  BY <1>1, <1>2, <1>3, <1>4

(* What carryCondemned makes of a base is a document that follows it.      *)
LEMMA DocumentFollows ==
    ASSUME NEW w, NEW base, NEW number, NEW branch, NEW manifests, NEW condemn, NEW at \in Nat,
           RowsUnlisted(base), Named(base) \subseteq (UNION manifests) \cup condemn,
           UNION manifests \subseteq DOMAIN w["packs"], manifests \subseteq DOMAIN w["manifests"],
           \A x \in (UNION manifests) \ Named(base) : w["packs"][x] >= at,
           \A x \in manifests \ base.manifests : w["manifests"][x] >= at
    PROVE  Follows(w, Document(base, number, branch, manifests, condemn, at), base, at)
<1> DEFINE doc == Document(base, number, branch, manifests, condemn, at)
<1>1. /\ Lists(doc, "packs") = UNION manifests /\ Lists(doc, "manifests") = manifests
      /\ Lists(base, "packs") = Named(base) /\ Lists(base, "manifests") = base.manifests
      /\ Ledger(base, "packs") = base.condemned /\ Ledger(base, "manifests") = base.condemnedManifests
  BY DEF Document, Lists, Ledger, Named
<1>2. /\ Ledger(doc, "packs") = CarryCondemned(base.condemned, condemn, UNION manifests, at)
      /\ Ledger(doc, "manifests") =
            CarryCondemned(base.condemnedManifests, base.manifests \ manifests, manifests, at)
  BY DEF Document, Ledger
<1>3. /\ \A r \in base.condemned : r.name \notin Named(base)
      /\ \A r \in base.condemnedManifests : r.name \notin base.manifests
  BY <1>1 DEF RowsUnlisted, Objects
<1> HIDE DEF doc
<1>4. /\ \A r \in Ledger(doc, "packs") : r.name \notin UNION manifests
      /\ \A x \in Named(base) \ UNION manifests :
            \E r \in Ledger(doc, "packs") : r.name = x /\ r.at = at
      /\ \A r \in base.condemned : at - r.at < Grace =>
            r.name \in UNION manifests \/ r \in Ledger(doc, "packs")
  <2>1. /\ \A r \in Ledger(doc, "packs") : r.name \notin UNION manifests
        /\ \A x \in condemn \ UNION manifests : (\A r \in base.condemned : r.name # x) =>
              \E r \in Ledger(doc, "packs") : r.name = x /\ r.at = at
        /\ \A r \in base.condemned : at - r.at < Grace =>
              r.name \in UNION manifests \/ r \in Ledger(doc, "packs")
    BY <1>2, CarryKeeps
  <2> QED  BY <1>3, <2>1
<1>5. /\ \A r \in Ledger(doc, "manifests") : r.name \notin manifests
      /\ \A x \in base.manifests \ manifests :
            \E r \in Ledger(doc, "manifests") : r.name = x /\ r.at = at
      /\ \A r \in base.condemnedManifests : at - r.at < Grace =>
            r.name \in manifests \/ r \in Ledger(doc, "manifests")
  <2>1. /\ \A r \in Ledger(doc, "manifests") : r.name \notin manifests
        /\ \A x \in (base.manifests \ manifests) \ manifests :
              (\A r \in base.condemnedManifests : r.name # x) =>
                 \E r \in Ledger(doc, "manifests") : r.name = x /\ r.at = at
        /\ \A r \in base.condemnedManifests : at - r.at < Grace =>
              r.name \in manifests \/ r \in Ledger(doc, "manifests")
    BY <1>2, CarryKeeps
  <2> QED  BY <1>3, <2>1
<1>6. RowsUnlisted(doc)
  BY <1>1, <1>4, <1>5 DEF RowsUnlisted, Objects
<1>7. Sound(w, doc)
  BY <1>1, <1>6 DEF Sound, Objects
<1>8. ASSUME NEW key \in Objects
      PROVE  /\ \A x \in Lists(doc, key) \ Lists(base, key) : w[key][x] >= at
             /\ \A x \in Lists(base, key) \ Lists(doc, key) :
                   \E r \in Ledger(doc, key) : r.name = x /\ r.at >= at
             /\ \A r \in Ledger(base, key) :
                   at - r.at < Grace => r.name \in Lists(doc, key) \/ r \in Ledger(doc, key)
  <2>1. CASE key = "packs"
    BY <1>1, <1>4, <2>1
  <2>2. CASE key = "manifests"
    BY <1>1, <1>5, <2>2
  <2> QED  BY <2>1, <2>2 DEF Objects
<1>9. Follows(w, doc, base, at)
  BY <1>7, <1>8 DEF Follows
<1> QED  BY <1>9 DEF doc

(* A generation lists what its document does.                              *)
LEMMA GenerationLists ==
    ASSUME NEW doc, NEW parent, NEW kind, NEW files
    PROVE  LET g == Generation(doc, parent, kind, files) IN
           /\ g.number = doc.number /\ g.files = files /\ Named(g) = Named(doc)
           /\ g.parent = parent /\ g.created = doc.created
           /\ \A key \in Objects : Lists(g, key) = Lists(doc, key) /\ Ledger(g, key) = Ledger(doc, key)
           /\ \A ps : Holding(ps, g) = Holding(ps, doc)
           /\ \A w : Sound(w, g) = Sound(w, doc)
           /\ \A w, base, start : Follows(w, doc, base, start) => Follows(w, g, base, start)
<1> DEFINE g == Generation(doc, parent, kind, files)
<1>1. /\ g.number = doc.number /\ g.files = files /\ g.manifests = doc.manifests
      /\ g.condemned = doc.condemned /\ g.condemnedManifests = doc.condemnedManifests
      /\ g.parent = parent /\ g.created = doc.created
  BY DEF Generation
<1> HIDE DEF g
<1>2. /\ Named(g) = Named(doc)
      /\ \A key \in Objects : Lists(g, key) = Lists(doc, key) /\ Ledger(g, key) = Ledger(doc, key)
  BY <1>1 DEF Named, Lists, Ledger
<1>3. \A ps : Holding(ps, g) = Holding(ps, doc)
  BY <1>2 DEF Holding
<1>4. \A w : Sound(w, g) = Sound(w, doc)
  BY <1>2 DEF Sound, RowsUnlisted
<1>5. \A w, base, start : Follows(w, doc, base, start) => Follows(w, g, base, start)
  BY <1>2, <1>4 DEF Follows
<1> QED  BY <1>1, <1>2, <1>3, <1>4, <1>5 DEF g

-----------------------------------------------------------------------------
(* What is written grows.                                                  *)

Grows(w, v) ==
    \A key \in Objects :
       /\ DOMAIN w[key] \subseteq DOMAIN v[key]
       /\ \A x \in DOMAIN w[key] : v[key][x] = w[key][x]

(* Documents stay what they are when more is written.                      *)
LEMMA SoundGrows ==
    ASSUME NEW w, NEW v, Grows(w, v), NEW doc, Sound(w, doc)
    PROVE  Sound(v, doc)
  BY DEF Grows, Sound

LEMMA FollowsGrows ==
    ASSUME NEW w, NEW v, Grows(w, v), NEW doc, NEW base, NEW start, Follows(w, doc, base, start)
    PROVE  Follows(v, doc, base, start)
<1>1. Sound(v, doc)
  BY SoundGrows DEF Follows
<1>2. ASSUME NEW key \in Objects, NEW x \in Lists(doc, key) \ Lists(base, key)
      PROVE  v[key][x] >= start
  <2>1. x \in DOMAIN w[key] /\ w[key][x] >= start
    BY <1>2 DEF Follows, Sound
  <2> QED  BY <2>1 DEF Grows
<1> QED  BY <1>1, <1>2 DEF Follows

(* A document's packs hold the same chunks when there are more packs.      *)
LEMMA HoldingGrows ==
    ASSUME NEW ps, NEW qs, NEW n, NEW doc, Named(doc) \subseteq 1..n,
           \A p \in 1..n : qs[p] = ps[p]
    PROVE  Holding(qs, doc) = Holding(ps, doc)
  BY DEF Holding

(* What is written, by kind.                                               *)
LEMMA Born ==
    /\ DOMAIN born["packs"] = 1..Len(packs) /\ born["manifests"] = mtime
    /\ \A p \in 1..Len(packs) : born["packs"][p] = packs[p].born
  BY DEF born

(* A pack is cut and a manifest that names it is uploaded, now.            *)
LEMMA Wrote ==
    ASSUME RetentionTypeOK, StoreInv,
           NEW chunks, NEW backups, NEW m \in SUBSET (1..(Len(packs) + 1)), Len(packs) + 1 \in m,
           packs' = Append(packs, [chunks |-> chunks, backups |-> backups, born |-> now]),
           mtime' = Uploaded(m, now), now' = now
    PROVE  /\ StoreInv' /\ Grows(born, born') /\ Len(packs') = Len(packs) + 1 /\ Len(packs) \in Nat
           /\ \A p \in 1..Len(packs) : packs'[p] = packs[p]
           /\ packs'[Len(packs) + 1] = [chunks |-> chunks, backups |-> backups, born |-> now]
           /\ DOMAIN born'["packs"] = 1..(Len(packs) + 1) /\ born'["packs"][Len(packs) + 1] = now
           /\ DOMAIN born'["manifests"] = {m} \cup DOMAIN mtime /\ born'["manifests"][m] = now
<1> DEFINE n == Len(packs)
           pack == [chunks |-> chunks, backups |-> backups, born |-> now]
<1>1. /\ n \in Nat /\ now \in Nat /\ pack.born = now
      /\ Len(packs') = n + 1 /\ packs'[n + 1] = pack /\ \A p \in 1..n : packs'[p] = packs[p]
  <2>1. packs \in Seq([chunks : SUBSET Chunks, backups : SUBSET Doc(n), born : Nat]) /\ now \in Nat
    BY DEF RetentionTypeOK
  <2>2. n \in Nat /\ pack.born = now
    BY <2>1
  <2> HIDE DEF pack
  <2> QED  BY <2>1, <2>2 DEF pack
<1>2. m \notin DOMAIN mtime
  <2>1. ~ (n + 1 \in 1..n)
    BY <1>1
  <2> QED  BY <2>1 DEF StoreInv
<1>3. /\ DOMAIN mtime' = {m} \cup DOMAIN mtime /\ mtime'[m] = now
      /\ \A x \in DOMAIN mtime : mtime'[x] = mtime[x]
  BY <1>2 DEF Uploaded
<1> HIDE DEF pack
<1>4. /\ DOMAIN born'["packs"] = 1..(n + 1) /\ born'["manifests"] = mtime'
      /\ \A p \in 1..(n + 1) : born'["packs"][p] = packs'[p].born
  BY <1>1 DEF born
<1>5. /\ born'["packs"][n + 1] = now /\ n + 1 \in 1..(n + 1) /\ 1..n \subseteq 1..(n + 1)
      /\ 1..(n + 1) = (1..n) \cup {n + 1}
      /\ \A p \in 1..n : born'["packs"][p] = born["packs"][p]
  <2>1. n + 1 \in 1..(n + 1) /\ 1..n \subseteq 1..(n + 1) /\ 1..(n + 1) = (1..n) \cup {n + 1}
    BY <1>1
  <2> QED  BY <1>1, <1>4, <2>1, Born
<1>6. Grows(born, born')
  <2>1. ASSUME NEW key \in Objects
        PROVE  /\ DOMAIN born[key] \subseteq DOMAIN born'[key]
               /\ \A x \in DOMAIN born[key] : born'[key][x] = born[key][x]
    <3>1. CASE key = "packs"
      BY <1>4, <1>5, <3>1, Born
    <3>2. CASE key = "manifests"
      BY <1>3, <1>4, <3>2, Born
    <3> QED  BY <3>1, <3>2 DEF Objects
  <2> QED  BY <2>1 DEF Grows
<1>7. StoreInv'
  <2>1. DOMAIN mtime' \subseteq SUBSET (1..Len(packs'))
    <3>1. \A x \in DOMAIN mtime : x \subseteq 1..(n + 1)
      BY <1>5 DEF StoreInv
    <3> HIDE DEF n
    <3> QED  BY <1>1, <1>3, <3>1 DEF n
  <2>2. ASSUME NEW key \in Objects, NEW x \in DOMAIN born'[key]
        PROVE  born'[key][x] \in Nat /\ born'[key][x] <= now'
    <3>1. CASE x \in DOMAIN born[key]
      BY <1>6, <3>1 DEF Grows, StoreInv
    <3>2. CASE x \notin DOMAIN born[key]
      <4>1. born'[key][x] = now
        <5>1. CASE key = "packs"
          BY <1>4, <1>5, <2>2, <3>2, <5>1, Born
        <5>2. CASE key = "manifests"
          BY <1>3, <1>4, <2>2, <3>2, <5>2, Born
        <5> QED  BY <5>1, <5>2 DEF Objects
      <4> QED  BY <1>1, <4>1
    <3> QED  BY <3>1, <3>2
  <2> QED  BY <2>1, <2>2 DEF StoreInv
<1> QED  BY <1>1, <1>3, <1>4, <1>5, <1>6, <1>7 DEF pack

-----------------------------------------------------------------------------
(* The swept and the sweep, where no generation, ref or sweep moves.       *)
LEMMA SweptGrows ==
    ASSUME NEW safe \in Passes,
           SweptInv, SweepInv(safe), Grows(born, born'), UNCHANGED <<now, gens, head, tag, swept, sweep>>,
           \A g \in 1..Len(gens) : Sound(born, gens[g]), RetentionTypeOK
    PROVE  SweptInv' /\ SweepInv(safe)'
<1>1. \A key \in Objects : \A x \in DOMAIN born[key] :
          x \in DOMAIN born'[key] /\ born'[key][x] = born[key][x]
  BY DEF Grows
<1>2. Roots' = Roots /\ Roots \subseteq 1..Len(gens)
  BY DEF Roots, Heads, NoGen, RetentionTypeOK
<1>3. SweptInv'
  BY <1>1, <1>2 DEF SweptInv
<1>4. \A g \in 1..Len(gens) : \A key \in Objects : Lists(gens[g], key) \subseteq DOMAIN born[key]
  BY DEF Sound
<1>5. /\ \A b \in Branches : head[b] # NoGen => head[b] \in 1..Len(gens)
      /\ \A t \in Pins : tag[t] # NoGen => tag[t] \in 1..Len(gens)
  BY DEF RetentionTypeOK, NoGen
<1>6. \A key \in Objects : \A x \in DOMAIN born[key] : Aged(key, x)' = Aged(key, x)
  BY <1>1 DEF Aged
<1>7. SweepShape'
  <2>1. \A key \in Objects : \A x : Aged(key, x) => Aged(key, x)'
    BY <1>6 DEF Aged
  <2> QED  BY <2>1 DEF SweepInv, SweepShape
<1>8. BranchesFound(safe)'
  BY <1>4, <1>5, <1>6 DEF SweepInv, BranchesFound, Found
<1>9. TagsFound(safe)'
  BY <1>4, <1>5, <1>6 DEF SweepInv, TagsFound
<1>10. DoomedUnnamed(safe)'
  BY <1>1, <1>2 DEF SweepInv, DoomedUnnamed, Unnamed, Decided
<1> QED  BY <1>3, <1>7, <1>8, <1>9, <1>10 DEF SweepInv

-----------------------------------------------------------------------------
(* The heads move.                                                         *)

(* A document that follows the head keeps, until the sweep reads it, what  *)
(* the head kept.                                                          *)
LEMMA KeepsOn ==
    ASSUME NEW w, NEW doc, NEW base, NEW start \in Nat, NEW at \in Nat, NEW time \in Nat,
           Follows(w, doc, base, start), start <= time, at <= time, time - start < SealLimit,
           time - at <= Grace - SealLimit,
           NEW key \in Objects, \A r \in Ledger(base, key) : r.at \in Nat,
           \A r \in Ledger(doc, key) : r.at \in Nat,
           NEW x, Keeps(base, at, key, x)
    PROVE  Keeps(doc, at, key, x)
<1>1. Grace \in Nat /\ SealLimit \in Nat
  BY RetentionAssumption
<1>2. CASE x \in Lists(base, key) /\ x \notin Lists(doc, key)
  <2>1. PICK r \in Ledger(doc, key) : r.name = x /\ r.at >= start
    BY <1>2 DEF Follows
  <2>2. r.at \in Nat
    OBVIOUS
  <2>3. at - r.at < SealLimit
    BY <1>1, <2>1, <2>2
  <2> QED  BY <2>1, <2>3 DEF Keeps
<1>3. CASE \E r \in Ledger(base, key) : r.name = x /\ at - r.at < SealLimit
  <2>1. PICK r \in Ledger(base, key) : r.name = x /\ at - r.at < SealLimit
    BY <1>3
  <2>2. r.at \in Nat
    OBVIOUS
  <2>3. start - r.at < Grace
    BY <1>1, <2>1, <2>2
  <2>4. r.name \in Lists(doc, key) \/ r \in Ledger(doc, key)
    BY <2>1, <2>3 DEF Follows
  <2> QED  BY <2>1, <2>4 DEF Keeps
<1> QED  BY <1>2, <1>3 DEF Keeps

(* Rows are stamped with times.                                            *)
LEMMA Stamped ==
    ASSUME NEW n, NEW d, d \in Doc(n) \/ d \in Gen(n)
    PROVE  \A key \in Objects : \A r \in Ledger(d, key) : r.at \in Nat
<1>1. d.condemned \in Rows(1..n) /\ d.condemnedManifests \in Rows(SUBSET (1..n))
  BY DEF Doc, Gen
<1>2. \A r \in d.condemned : r.at \in Nat
  BY <1>1 DEF Rows
<1>3. \A r \in d.condemnedManifests : r.at \in Nat
  BY <1>1 DEF Rows
<1> QED  BY <1>2, <1>3 DEF Ledger, Objects

(* A publish takes less than the grace: what it adds is past no age guard, *)
(* and what it drops is still on its ledger when the sweep reads it.       *)
LEMMA FlipSpares ==
    ASSUME NEW safe \in Passes,
           SealLimit <= Grace, RetentionTypeOK, StoreInv, SweptInv, SweepInv(safe), SweepUndisturbed(safe),
           \A g \in 1..Len(gens) : Sound(born, gens[g]),
           NEW b \in Branches, NEW doc \in Doc(Len(packs)), NEW start \in Nat, NEW kind, NEW files,
           head[b] # NoGen, start <= now, now - start < SealLimit,
           Follows(born, doc, gens[head[b]], start),
           gens' = Append(gens, Generation(doc, head[b], kind, files)),
           head' = [head EXCEPT ![b] = Len(gens) + 1],
           UNCHANGED <<now, packs, mtime, swept, tag, sweep>>
    PROVE  SweptInv' /\ SweepInv(safe)'
<1> DEFINE g == Generation(doc, head[b], kind, files)
           base == gens[head[b]]
           fresh == Len(gens) + 1
<1>1. /\ head[b] \in 1..Len(gens) /\ Len(gens) \in Nat /\ now \in Nat
      /\ Grace \in Nat /\ SealLimit \in Nat /\ Grace >= SealLimit
      /\ head \in [Branches -> 0..Len(gens)] /\ tag \in [Pins -> 0..Len(gens)]
      /\ \A i \in 1..Len(gens) : gens[i] \in Gen(Len(packs))
  <2>1. gens \in Seq(Gen(Len(packs))) /\ head \in [Branches -> 0..Len(gens)] /\ tag \in [Pins -> 0..Len(gens)]
        /\ now \in Nat
    BY DEF RetentionTypeOK
  <2>2. head[b] \in 0..Len(gens) /\ head[b] # 0
    BY <2>1 DEF NoGen
  <2>3. Grace \in Nat /\ SealLimit \in Nat
    BY RetentionAssumption
  <2> QED  BY <2>1, <2>2, <2>3
<1>2. /\ gens'[fresh] = g /\ Len(gens') = fresh /\ \A i \in 1..Len(gens) : gens'[i] = gens[i]
  <2>1. gens \in Seq(Gen(Len(packs)))
    BY DEF RetentionTypeOK
  <2> HIDE DEF g
  <2> QED  BY <2>1 DEF g
<1>3. \A key \in Objects : Lists(g, key) = Lists(doc, key) /\ Ledger(g, key) = Ledger(doc, key)
  BY GenerationLists
<1>4. born' = born
  BY DEF born
<1> HIDE DEF g
<1>5. /\ \A c \in Branches \ {b} : head'[c] = head[c] /\ (head[c] # NoGen => gens'[head[c]] = gens[head[c]])
      /\ \A t \in Pins : tag'[t] = tag[t] /\ (tag[t] # NoGen => gens'[tag[t]] = gens[tag[t]])
      /\ head'[b] = fresh /\ fresh # NoGen /\ gens'[head'[b]] = g
  BY <1>1, <1>2 DEF NoGen
<1>6. \A i \in Roots' : i = fresh \/ (i \in Roots /\ gens'[i] = gens[i])
  <2> SUFFICES ASSUME NEW i \in Roots', i # fresh PROVE i \in Roots /\ gens'[i] = gens[i]
    OBVIOUS
  <2>1. (\E c \in Branches : i = head'[c] /\ i # NoGen) \/ (\E t \in Pins : i = tag'[t] /\ i # NoGen)
    BY DEF Roots, Heads
  <2>2. CASE \E c \in Branches : i = head'[c] /\ i # NoGen
    <3>1. PICK c \in Branches : i = head'[c] /\ i # NoGen
      BY <2>2
    <3>2. c \in Branches \ {b}
      BY <1>5, <3>1
    <3>3. i = head[c] /\ gens'[i] = gens[i]
      BY <1>5, <3>1, <3>2
    <3> QED  BY <3>1, <3>3 DEF Roots, Heads
  <2>3. CASE \E t \in Pins : i = tag'[t] /\ i # NoGen
    <3>1. PICK t \in Pins : i = tag'[t] /\ i # NoGen
      BY <2>3
    <3>2. i = tag[t] /\ gens'[i] = gens[i]
      BY <1>5, <3>1
    <3> QED  BY <3>1, <3>2 DEF Roots, Heads
  <2> QED  BY <2>1, <2>2, <2>3
<1>7. head[b] \in Roots
  BY DEF Roots, Heads
<1>8. \A key \in Objects : \A x \in Lists(doc, key) :
          /\ x \in DOMAIN born[key] /\ born[key][x] \in Nat
          /\ x \in Lists(base, key) \/ now - born[key][x] < Grace
  <2> SUFFICES ASSUME NEW key \in Objects, NEW x \in Lists(doc, key)
               PROVE  /\ x \in DOMAIN born[key] /\ born[key][x] \in Nat
                      /\ x \in Lists(base, key) \/ now - born[key][x] < Grace
    OBVIOUS
  <2>1. x \in DOMAIN born[key] /\ born[key][x] \in Nat
    BY DEF Follows, Sound, StoreInv
  <2>2. ASSUME x \notin Lists(base, key) PROVE now - born[key][x] < Grace
    <3>1. born[key][x] >= start
      BY <2>2 DEF Follows
    <3> QED  BY <1>1, <2>1, <3>1
  <2> QED  BY <2>1, <2>2
<1> HIDE DEF base
<1>9. SweptInv'
  <2>1. ASSUME NEW key \in Objects, NEW x \in Lists(g, key), x \in swept[key] PROVE FALSE
    <3>1. x \in Lists(doc, key) /\ now - born[key][x] >= Grace
      BY <1>3, <2>1 DEF SweptInv
    <3>2. x \notin Lists(base, key)
      BY <1>7, <2>1 DEF SweptInv, base
    <3> QED  BY <1>1, <1>8, <3>1, <3>2
  <2>2. \A i \in Roots' : \A key \in Objects : Lists(gens'[i], key) \cap swept'[key] = {}
    BY <1>2, <1>6, <2>1 DEF SweptInv
  <2> QED  BY <1>4, <2>2 DEF SweptInv
<1>10. DoomedUnnamed(safe)'
  <2> SUFFICES ASSUME Decided(safe) PROVE DoomedUnnamed(safe)'
    BY DEF DoomedUnnamed, Unnamed, Decided
  <2>1. ASSUME NEW key \in Objects, NEW x \in Lists(g, key), x \in sweep.doomed[key] PROVE FALSE
    <3>1. x \in Lists(doc, key) /\ now - born[key][x] >= Grace
      BY <1>3, <2>1 DEF SweepInv, DoomedUnnamed, Unnamed, Decided
    <3>2. x \notin Lists(base, key)
      BY <1>7, <2>1 DEF SweepInv, DoomedUnnamed, Unnamed, Decided, base
    <3> QED  BY <1>1, <1>8, <3>1, <3>2
  <2>2. \A i \in Roots' : \A key \in Objects : Lists(gens'[i], key) \cap sweep'.doomed[key] = {}
    BY <1>2, <1>6, <2>1 DEF SweepInv, DoomedUnnamed, Unnamed, Decided
  <2> QED  BY <1>4, <2>2 DEF SweepInv, DoomedUnnamed, Unnamed, Decided
<1>11. ASSUME sweep.at \in {"branches", "tags"}, NEW key \in Objects, NEW x \in Lists(g, key), Aged(key, x)
       PROVE  x \in Lists(base, key)
  <2>1. sweep.now \in Nat /\ sweep.now <= now /\ sweep.now - born[key][x] >= Grace
    BY <1>11 DEF SweepInv, SweepShape, Aged
  <2> QED  BY <1>1, <1>3, <1>8, <1>11, <2>1
<1>12. SweepShape' /\ \A key \in Objects : \A x : Aged(key, x)' = Aged(key, x)
  BY <1>4 DEF SweepInv, SweepShape, Aged
<1>13. TagsFound(safe)'
  <2> SUFFICES ASSUME sweep.at = "tags", sweep.pass = safe, NEW key \in Objects
               PROVE  /\ \A c \in Branches : head'[c] # NoGen =>
                            \A x \in Lists(gens'[head'[c]], key) : Aged(key, x) => x \in sweep.live[key]
                      /\ \A t \in Pins \ sweep.todo : tag'[t] # NoGen =>
                            \A x \in Lists(gens'[tag'[t]], key) : Aged(key, x) => x \in sweep.live[key]
    BY <1>12 DEF TagsFound
  <2>1. \A x \in Lists(base, key) : Aged(key, x) => x \in sweep.live[key]
    BY DEF SweepInv, TagsFound, base
  <2>2. \A x \in Lists(g, key) : Aged(key, x) => x \in sweep.live[key]
    BY <1>11, <2>1
  <2>3. /\ \A c \in Branches : head[c] # NoGen =>
              \A x \in Lists(gens[head[c]], key) : Aged(key, x) => x \in sweep.live[key]
        /\ \A t \in Pins \ sweep.todo : tag[t] # NoGen =>
              \A x \in Lists(gens[tag[t]], key) : Aged(key, x) => x \in sweep.live[key]
    BY DEF SweepInv, TagsFound
  <2>4. ASSUME NEW c \in Branches, head'[c] # NoGen, NEW x \in Lists(gens'[head'[c]], key), Aged(key, x)
        PROVE  x \in sweep.live[key]
    <3>1. CASE c = b
      BY <1>5, <2>2, <2>4, <3>1
    <3>2. CASE c # b
      BY <1>5, <2>3, <2>4, <3>2
    <3> QED  BY <3>1, <3>2
  <2>5. ASSUME NEW t \in Pins \ sweep.todo, tag'[t] # NoGen, NEW x \in Lists(gens'[tag'[t]], key), Aged(key, x)
        PROVE  x \in sweep.live[key]
    BY <1>5, <2>3, <2>5
  <2> QED  BY <2>4, <2>5
<1>14. BranchesFound(safe)'
  <2> SUFFICES ASSUME sweep.at = "branches", sweep.pass = safe, NEW c \in Branches, head'[c] # NoGen,
                      NEW key \in Objects, NEW x \in Lists(gens'[head'[c]], key), Aged(key, x)
               PROVE  Found(key, x)'
    BY <1>12 DEF BranchesFound
  <2>1. Found(key, x)
    <3>1. CASE c = b
      <4>1. x \in Lists(base, key)
        BY <1>5, <1>11, <3>1
      <4> QED  BY <4>1 DEF SweepInv, BranchesFound, base
    <3>2. CASE c # b
      BY <1>5, <3>2 DEF SweepInv, BranchesFound
    <3> QED  BY <3>1, <3>2
  <2>2. ASSUME Keeps(base, sweep.now, key, x) PROVE Keeps(g, sweep.now, key, x)
    <3>1. /\ \A r \in Ledger(base, key) : r.at \in Nat
          /\ \A r \in Ledger(doc, key) : r.at \in Nat
      <4>1. base \in Gen(Len(packs))
        BY <1>1 DEF base
      <4> QED  BY <4>1, Stamped
    <3>2. /\ sweep.now \in Nat /\ sweep.now <= now /\ now - sweep.now <= Grace - SealLimit
          /\ Follows(born, doc, base, start)
      BY DEF SweepInv, SweepShape, SweepUndisturbed, base
    <3>3. Keeps(doc, sweep.now, key, x)
      BY <1>1, <2>2, <3>1, <3>2, KeepsOn
    <3> QED  BY <1>3, <3>3 DEF Keeps
  <2>3. CASE x \in sweep.live[key]
    BY <2>3 DEF Found
  <2>4. CASE \E a \in sweep.todo : Keeps(gens[head[a]], sweep.now, key, x)
    <3>1. PICK a \in sweep.todo : Keeps(gens[head[a]], sweep.now, key, x)
      BY <2>4
    <3>2. a \in Branches /\ head[a] # NoGen
      BY DEF SweepInv, SweepShape, SweepUndisturbed
    <3>3. Keeps(gens'[head'[a]], sweep.now, key, x)
      BY <1>5, <2>2, <3>1, <3>2 DEF base
    <3> QED  BY <3>3 DEF Found
  <2> QED  BY <2>1, <2>3, <2>4 DEF Found
<1> QED  BY <1>9, <1>10, <1>12, <1>13, <1>14 DEF SweepInv

(* Branches and tags come and go: what a ref names now some head named, or *)
(* the tag did.                                                            *)
LEMMA RefsSpare ==
    ASSUME NEW safe \in Passes,
           RetentionTypeOK, SweptInv, SweepInv(safe), SweepUndisturbed(safe), SweepUndisturbed(safe)',
           \A g \in 1..Len(gens) : gens'[g] = gens[g],
           head' \in [Branches -> Nat], tag' \in [Pins -> Nat],
           \A c \in Branches : head'[c] # NoGen => \E a \in Branches :
              /\ head[a] # NoGen
              /\ \A key \in Objects : Lists(gens'[head'[c]], key) = Lists(gens[head[a]], key),
           \A c \in Branches : head[c] = NoGen \/ head'[c] = NoGen \/ head'[c] = head[c],
           \A t \in Pins : tag'[t] \notin {NoGen, tag[t]} => \E a \in Branches : head[a] # NoGen /\ tag'[t] = head[a],
           UNCHANGED <<now, packs, mtime, swept, sweep>>
    PROVE  SweptInv' /\ SweepInv(safe)'
<1>1. /\ \A b \in Branches : head[b] # NoGen => head[b] \in 1..Len(gens)
      /\ \A t \in Pins : tag[t] # NoGen => tag[t] \in 1..Len(gens)
  BY DEF RetentionTypeOK, NoGen
<1>2. born' = born
  BY DEF born
<1>3. \A t \in Pins : tag'[t] # NoGen =>
          \/ tag'[t] = tag[t] /\ gens'[tag'[t]] = gens[tag[t]]
          \/ \E a \in Branches : head[a] # NoGen /\ gens'[tag'[t]] = gens[head[a]]
  BY <1>1
<1>4. \A i \in Roots' : \E j \in Roots : \A key \in Objects : Lists(gens'[i], key) = Lists(gens[j], key)
  <2> SUFFICES ASSUME NEW i \in Roots'
               PROVE  \E j \in Roots : \A key \in Objects : Lists(gens'[i], key) = Lists(gens[j], key)
    OBVIOUS
  <2>1. (\E c \in Branches : i = head'[c] /\ i # NoGen) \/ (\E t \in Pins : i = tag'[t] /\ i # NoGen)
    BY DEF Roots, Heads
  <2>2. CASE \E c \in Branches : i = head'[c] /\ i # NoGen
    <3>1. PICK c \in Branches : i = head'[c] /\ i # NoGen
      BY <2>2
    <3>2. PICK a \in Branches : /\ head[a] # NoGen
                               /\ \A key \in Objects :
                                     Lists(gens'[head'[c]], key) = Lists(gens[head[a]], key)
      BY <3>1
    <3>3. head[a] \in Roots
      BY <3>2 DEF Roots, Heads
    <3> QED  BY <3>1, <3>2, <3>3
  <2>3. CASE \E t \in Pins : i = tag'[t] /\ i # NoGen
    BY <1>3, <2>3 DEF Roots, Heads
  <2> QED  BY <2>1, <2>2, <2>3
<1>5. SweptInv'
  BY <1>2, <1>4 DEF SweptInv
<1>6. DoomedUnnamed(safe)'
  BY <1>2, <1>4 DEF SweepInv, DoomedUnnamed, Unnamed, Decided
<1>7. SweepShape' /\ \A key \in Objects : \A x : Aged(key, x)' = Aged(key, x)
  BY <1>2 DEF SweepInv, SweepShape, Aged
<1>8. TagsFound(safe)'
  <2> SUFFICES ASSUME sweep.at = "tags", sweep.pass = safe, NEW key \in Objects
               PROVE  /\ \A c \in Branches : head'[c] # NoGen =>
                            \A x \in Lists(gens'[head'[c]], key) : Aged(key, x) => x \in sweep.live[key]
                      /\ \A t \in Pins \ sweep.todo : tag'[t] # NoGen =>
                            \A x \in Lists(gens'[tag'[t]], key) : Aged(key, x) => x \in sweep.live[key]
    BY <1>7 DEF TagsFound
  <2>1. /\ \A a \in Branches : head[a] # NoGen =>
              \A x \in Lists(gens[head[a]], key) : Aged(key, x) => x \in sweep.live[key]
        /\ \A t \in Pins \ sweep.todo : tag[t] # NoGen =>
              \A x \in Lists(gens[tag[t]], key) : Aged(key, x) => x \in sweep.live[key]
    BY DEF SweepInv, TagsFound
  <2>2. ASSUME NEW t \in Pins \ sweep.todo, tag'[t] # NoGen, NEW x \in Lists(gens'[tag'[t]], key), Aged(key, x)
        PROVE  x \in sweep.live[key]
    BY <1>3, <2>1, <2>2
  <2> QED  BY <2>1, <2>2
<1>9. BranchesFound(safe)'
  <2> SUFFICES ASSUME sweep.at = "branches", sweep.pass = safe, NEW c \in Branches, head'[c] # NoGen,
                      NEW key \in Objects, NEW x \in Lists(gens'[head'[c]], key), Aged(key, x)
               PROVE  Found(key, x)'
    BY <1>7 DEF BranchesFound
  <2>1. Found(key, x)
    BY DEF SweepInv, BranchesFound
  <2>2. \A a \in sweep.todo : gens'[head'[a]] = gens[head[a]]
    BY <1>1 DEF SweepInv, SweepShape, SweepUndisturbed
  <2> QED  BY <2>1, <2>2 DEF Found
<1> QED  BY <1>5, <1>6, <1>7, <1>8, <1>9 DEF SweepInv

-----------------------------------------------------------------------------
(* Steps that write nothing.                                               *)

RootsCore(safe) == StoreInv /\ DocsInv /\ ContentInv /\ SweptInv /\ SweepInv(safe)

(* Works may end, a repack may be planned, branches go, time passes.       *)
LEMMA Quiet ==
    ASSUME RetentionTypeOK, StoreInv, DocsInv, ContentInv, UNCHANGED <<gens, packs, mtime, sidecar>>,
           now \in Nat, now' \in Nat, now <= now',
           \A b \in Branches : job'[b] \in {job[b], Idle},
           \A b \in Branches : head'[b] \in {head[b], NoGen},
           \/ rewrite' \in {rewrite, Idle}
           \/ rewrite'.at = "planned" /\ gens[rewrite'.base].files \subseteq rewrite'.live
    PROVE  StoreInv' /\ DocsInv' /\ ContentInv'
<1>1. born' = born
  BY DEF born
<1>2. StoreInv'
  BY <1>1 DEF StoreInv
<1>3. Idle.at # "seal" /\ Idle.at # "planned" /\ Idle.at # "written"
  BY DEF Idle
<1>4. \A b \in Branches : job'[b].at = "seal" => job'[b] = job[b]
  BY <1>3
<1>5. /\ rewrite'.at = "written" => rewrite' = rewrite
      /\ rewrite'.at = "planned" =>
            rewrite' = rewrite \/ gens[rewrite'.base].files \subseteq rewrite'.live
  BY <1>3
<1>6. DocsInv'
  <2>1. /\ \A b \in Branches : job[b].at = "seal" => job[b].start <= now'
        /\ rewrite.at = "written" => rewrite.start <= now'
    <3>1. /\ \A b \in Branches : job[b].at = "seal" => job[b].start \in Nat
          /\ rewrite.at = "written" => rewrite.start \in Nat
      BY <1>3 DEF RetentionTypeOK
    <3>2. \A i \in Nat : i <= now => i <= now'
      OBVIOUS
    <3> QED  BY <3>1, <3>2 DEF DocsInv
  <2> QED  BY <1>1, <1>4, <1>5, <2>1 DEF DocsInv
<1>7. \A b : SealedOn(b)' = SealedOn(b)
  BY DEF SealedOn
<1>8. FilesHeld'
  BY DEF ContentInv, FilesHeld
<1>9. JobsHeld'
  BY <1>4, <1>7 DEF ContentInv, JobsHeld
<1>10. RewriteHeld'
  BY <1>5 DEF ContentInv, RewriteHeld
<1>11. SidecarsHeld'
  <2>1. \A b \in Branches : head'[b] # NoGen => head'[b] = head[b]
    OBVIOUS
  <2> QED  BY <1>7, <2>1 DEF ContentInv, SidecarsHeld
<1> QED  BY <1>2, <1>6, <1>8, <1>9, <1>10, <1>11 DEF ContentInv

(* A seal or a repack that ends, a repack that is planned.                 *)
LEMMA WorkSpares ==
    ASSUME NEW safe \in Passes,
           RetentionTypeOK, RootsCore(safe), UNCHANGED <<now, gens, packs, mtime, swept, head, tag, sidecar, sweep>>,
           \A b \in Branches : job'[b] \in {job[b], Idle},
           \/ rewrite' \in {rewrite, Idle}
           \/ rewrite'.at = "planned" /\ gens[rewrite'.base].files \subseteq rewrite'.live
    PROVE  RootsCore(safe)'
<1>1. StoreInv' /\ DocsInv' /\ ContentInv'
  <2>1. now \in Nat /\ now' \in Nat /\ now <= now'
    BY DEF RetentionTypeOK
  <2>2. StoreInv /\ DocsInv /\ ContentInv
    BY DEF RootsCore
  <2> QED  BY <2>1, <2>2, Quiet
<1>2. Grows(born, born')
  BY DEF Grows, born
<1>3. SweptInv' /\ SweepInv(safe)'
  <2>1. SweptInv /\ SweepInv(safe) /\ \A g \in 1..Len(gens) : Sound(born, gens[g])
    BY DEF RootsCore, DocsInv
  <2> QED  BY <1>2, <2>1, SweptGrows
<1> QED  BY <1>1, <1>3 DEF RootsCore

LEMMA SealEndsSpares ==
    ASSUME NEW safe \in Passes,
           RetentionTypeOK, RootsCore(safe), NEW b \in Branches, SealEnds(b) PROVE RootsCore(safe)'
<1>1. \A c \in Branches : job'[c] \in {job[c], Idle}
  BY DEF SealEnds, RetentionTypeOK
<1> QED  BY <1>1, WorkSpares DEF SealEnds

LEMMA RepackEndsSpares ==
    ASSUME NEW safe \in Passes,
           RetentionTypeOK, RootsCore(safe), RepackEnds PROVE RootsCore(safe)'
<1>1. \A c \in Branches : job'[c] \in {job[c], Idle}
  BY DEF RepackEnds
<1> QED  BY <1>1, WorkSpares DEF RepackEnds

LEMMA RepackPlanSpares ==
    ASSUME NEW safe \in Passes,
           RetentionTypeOK, RootsCore(safe), NEW b \in Branches, RepackPlan(b) PROVE RootsCore(safe)'
<1>1. PICK condemn \in SUBSET Candidates :
         rewrite' = [at |-> "planned", branch |-> b, base |-> head[b],
                     condemn |-> condemn, live |-> Reachable]
  BY DEF RepackPlan
<1>2. rewrite'.at = "planned" /\ rewrite'.base = head[b] /\ rewrite'.live = Reachable
  BY <1>1
<1>3. head[b] \in Roots
  BY DEF RepackPlan, Roots, Heads
<1>4. gens[rewrite'.base].files \subseteq rewrite'.live
  BY <1>2, <1>3 DEF Reachable
<1>5. \A c \in Branches : job'[c] \in {job[c], Idle}
  BY DEF RepackPlan
<1> QED  BY <1>2, <1>4, <1>5, WorkSpares DEF RepackPlan

(* Time only makes things older.                                           *)
LEMMA TickSpares ==
    ASSUME NEW safe \in Passes,
           RetentionTypeOK, RootsCore(safe), Tick PROVE RootsCore(safe)'
<1>1. now \in Nat /\ now' = now + 1 /\ UNCHANGED <<gens, packs, mtime, swept, head, tag, sidecar, job, rewrite, sweep>>
  BY DEF RetentionTypeOK, Tick, work
<1>2. StoreInv' /\ DocsInv' /\ ContentInv'
  <2>1. StoreInv /\ DocsInv /\ ContentInv
    BY DEF RootsCore
  <2>2. now' \in Nat /\ now <= now'
    BY <1>1
  <2> QED  BY <1>1, <2>1, <2>2, Quiet
<1>3. born' = born /\ Roots' = Roots
  BY <1>1 DEF born, Roots, Heads
<1>4. \A key \in Objects : \A x \in DOMAIN born[key] :
          now - born[key][x] >= Grace => now' - born[key][x] >= Grace
  <2>1. \A i \in Nat, j \in Nat, n \in Nat : i - j >= n => (i + 1) - j >= n
    OBVIOUS
  <2> QED  BY <1>1, <2>1, RetentionAssumption DEF RootsCore, StoreInv
<1>5. SweptInv'
  BY <1>1, <1>3, <1>4 DEF RootsCore, SweptInv
<1>6. \A key \in Objects : \A x : Aged(key, x)' = Aged(key, x)
  BY <1>1, <1>3 DEF Aged
<1>7. SweepShape'
  <2>1. SweepShape
    BY DEF RootsCore, SweepInv
  <2>2. \A i \in Nat : i <= now => i <= now'
    BY <1>1
  <2> QED  BY <1>1, <1>6, <2>1, <2>2 DEF SweepShape
<1>8. BranchesFound(safe)' /\ TagsFound(safe)'
  BY <1>1, <1>6 DEF RootsCore, SweepInv, BranchesFound, TagsFound, Found
<1>9. DoomedUnnamed(safe)'
  BY <1>1, <1>3, <1>4 DEF RootsCore, SweepInv, DoomedUnnamed, Unnamed, Decided
<1> QED  BY <1>2, <1>5, <1>7, <1>8, <1>9 DEF RootsCore, SweepInv

-----------------------------------------------------------------------------
(* The sweep.                                                              *)

(* A step of the sweep: it may delete, and leaves the rest alone.          *)
LEMMA SweepWrites ==
    ASSUME NEW safe \in Passes,
           RetentionTypeOK, RootsCore(safe), UNCHANGED <<now, gens, packs, mtime, head, tag, sidecar, work>>,
           SweptInv', SweepInv(safe)'
    PROVE  RootsCore(safe)'
<1>1. now \in Nat /\ now' \in Nat /\ now <= now'
  BY DEF RetentionTypeOK
<1>2. StoreInv /\ DocsInv /\ ContentInv
  BY DEF RootsCore
<1>3. StoreInv' /\ DocsInv' /\ ContentInv'
  BY <1>1, <1>2, Quiet DEF work
<1> QED  BY <1>3 DEF RootsCore

(* What the sweep knows stays known when it deletes nothing.               *)
LEMMA SweptStays ==
    ASSUME SweptInv, UNCHANGED <<now, gens, packs, mtime, swept, head, tag>>
    PROVE  SweptInv' /\ born' = born /\ Roots' = Roots
<1>1. born' = born /\ Roots' = Roots
  BY DEF born, Roots, Heads
<1> QED  BY <1>1 DEF SweptInv

LEMMA IdleSweep ==
    ASSUME NEW safe \in Passes,
           sweep' = Idle PROVE SweepInv(safe)'
<1>1. sweep'.at = "idle"
  BY DEF Idle
<1> QED  BY <1>1 DEF SweepInv, SweepShape, BranchesFound, TagsFound, DoomedUnnamed, Unnamed, Decided

(* A pass begins: every head is still to be read.                          *)
LEMMA PassBegins ==
    ASSUME NEW safe \in Passes,
           NEW pass \in {1, 2}, NEW at \in Nat, NEW window, NEW doomed,
           DOMAIN doomed = Objects, at <= now,
           sweep' = [at |-> "branches", pass |-> pass, now |-> at, live |-> Nothing,
                     listed |-> Listed, todo |-> Listed, window |-> window, doomed |-> doomed],
           pass = 2 => \A key \in Objects : \A x \in doomed[key] :
                          x \in DOMAIN born[key] /\ at - born[key][x] >= Grace,
           pass = 2 /\ safe = 1 => Unnamed(doomed),
           UNCHANGED <<now, gens, packs, mtime, head, tag>>
    PROVE  SweepInv(safe)'
<1>1. /\ sweep'.at = "branches" /\ sweep'.pass = pass /\ sweep'.now = at
      /\ sweep'.todo = Listed /\ sweep'.doomed = doomed
      /\ DOMAIN sweep' = {"at", "pass", "now", "live", "listed", "todo", "window", "doomed"}
  OBVIOUS
<1>2. born' = born
  BY DEF born
<1>3. \A key \in Objects : \A x :
         Aged(key, x)' <=> x \in DOMAIN born[key] /\ at - born[key][x] >= Grace
  BY <1>1, <1>2 DEF Aged
<1>4. SweepShape'
  BY <1>1, <1>3 DEF SweepShape, Listed
<1>5. BranchesFound(safe)'
  <2> SUFFICES ASSUME NEW b \in Branches, head'[b] # NoGen, NEW key \in Objects,
                      NEW x \in Lists(gens'[head'[b]], key)
               PROVE  Found(key, x)'
    BY DEF BranchesFound
  <2>1. b \in sweep'.todo
    BY <1>1 DEF Listed
  <2>2. Keeps(gens'[head'[b]], sweep'.now, key, x)
    BY DEF Keeps
  <2> QED  BY <2>1, <2>2 DEF Found
<1>6. TagsFound(safe)' /\ DoomedUnnamed(safe)'
  <2>1. Roots' = Roots
    BY DEF Roots, Heads
  <2> QED  BY <1>1, <1>2, <2>1 DEF TagsFound, DoomedUnnamed, Unnamed, Decided
<1> QED  BY <1>4, <1>5, <1>6 DEF SweepInv

LEMMA SweepStartSpares ==
    ASSUME NEW safe \in Passes,
           RetentionTypeOK, RootsCore(safe), SweepStart PROVE RootsCore(safe)'
<1>1. /\ sweep' = [at |-> "branches", pass |-> 1, now |-> now, live |-> Nothing,
                   listed |-> Listed, todo |-> Listed,
                   window |-> [b \in Branches |-> <<>>], doomed |-> Nothing]
      /\ UNCHANGED <<now, gens, packs, mtime, swept, head, tag, sidecar, work>>
  BY DEF SweepStart
<1>2. now \in Nat /\ now <= now /\ DOMAIN Nothing = Objects
  BY DEF RetentionTypeOK, Nothing, Objects
<1>3. SweepInv(safe)'
  <2> DEFINE w == [b \in Branches |-> <<>>]
  <2>1. sweep' = [at |-> "branches", pass |-> 1, now |-> now, live |-> Nothing,
                  listed |-> Listed, todo |-> Listed, window |-> w, doomed |-> Nothing]
    BY <1>1
  <2> HIDE DEF w
  <2> QED  BY <1>1, <1>2, <2>1, PassBegins
<1>4. SweptInv'
  BY <1>1, SweptStays DEF RootsCore
<1> QED  BY <1>1, <1>3, <1>4, SweepWrites

LEMMA SweepStopsSpares ==
    ASSUME NEW safe \in Passes,
           RetentionTypeOK, RootsCore(safe), SweepStops PROVE RootsCore(safe)'
<1>1. SweptInv'
  BY SweptStays DEF RootsCore, SweepStops
<1> QED  BY <1>1, IdleSweep, SweepWrites DEF SweepStops

(* What is absorbed: what was live, and what a document keeps.             *)
LEMMA Absorbs ==
    ASSUME SealLimit <= Grace, NEW live, NEW n, NEW doc, doc \in Gen(n), NEW since, sweep.now \in Nat
    PROVE  \A key \in Objects :
              /\ live[key] \subseteq Absorb(live, doc, since)[key]
              /\ Lists(doc, key) \subseteq Absorb(live, doc, since)[key]
              /\ \A x : Keeps(doc, sweep.now, key, x) => x \in Absorb(live, doc, since)[key]
<1> DEFINE all == Absorb(live, doc, since)
<1>1. /\ all["packs"] = live.packs \cup Named(doc) \cup Standing(doc.condemned, sweep.now, since)
      /\ all["manifests"] = live.manifests \cup doc.manifests
                               \cup Standing(doc.condemnedManifests, sweep.now, since)
  BY DEF Absorb
<1> HIDE DEF all
<1>2. \A key \in Objects : \A r \in Ledger(doc, key) : sweep.now - r.at < SealLimit =>
         r.name \in Standing(Ledger(doc, key), sweep.now, since)
  <2>1. Grace \in Nat /\ SealLimit \in Nat
    BY RetentionAssumption
  <2>2. \A key \in Objects : \A r \in Ledger(doc, key) : r.at \in Nat
    BY Stamped
  <2>3. \A i \in Nat, j \in Nat : i - j < SealLimit => i - j < Grace
    BY <2>1
  <2>4. \A key \in Objects : \A r \in Ledger(doc, key) :
           sweep.now - r.at < SealLimit => sweep.now - r.at < Grace
    BY <2>2, <2>3
  <2> QED  BY <2>4 DEF Standing
<1>3. ASSUME NEW key \in Objects
      PROVE  all[key] = live[key] \cup Lists(doc, key) \cup Standing(Ledger(doc, key), sweep.now, since)
  BY <1>1 DEF Objects, Lists, Ledger
<1>4. ASSUME NEW key \in Objects
      PROVE  /\ live[key] \subseteq all[key] /\ Lists(doc, key) \subseteq all[key]
             /\ \A x : Keeps(doc, sweep.now, key, x) => x \in all[key]
  BY <1>2, <1>3 DEF Keeps
<1> QED  BY <1>4 DEF all

(* A branch is read: what its head keeps is live from then on.             *)
LEMMA SweepBranchSpares ==
    ASSUME NEW safe \in Passes,
           SealLimit <= Grace, RetentionTypeOK, RootsCore(safe), NEW b \in Branches, SweepBranch(b)
    PROVE  RootsCore(safe)'
<1>1. PICK docs : sweep' = [sweep EXCEPT !.todo = @ \ {b}, !.window[b] = <<docs>>,
                                         !.live = AbsorbBranch(@, b, docs)]
  BY DEF SweepBranch
<1>2. /\ sweep.at = "branches" /\ b \in sweep.todo /\ head[b] # NoGen
      /\ UNCHANGED <<now, gens, packs, mtime, swept, head, tag, sidecar, work>>
  BY DEF SweepBranch
<1>3. SweepShape /\ BranchesFound(safe) /\ DoomedUnnamed(safe)
  BY DEF RootsCore, SweepInv
<1>4. /\ DOMAIN sweep = {"at", "pass", "now", "live", "listed", "todo", "window", "doomed"}
      /\ sweep.now \in Nat
  BY <1>2, <1>3 DEF SweepShape
<1>5. /\ DOMAIN sweep' = DOMAIN sweep
      /\ sweep'.at = sweep.at /\ sweep'.pass = sweep.pass /\ sweep'.now = sweep.now
      /\ sweep'.doomed = sweep.doomed /\ sweep'.todo = sweep.todo \ {b}
      /\ sweep'.live = AbsorbBranch(sweep.live, b, docs)
  BY <1>1, <1>4
<1>6. SweptInv' /\ born' = born /\ Roots' = Roots
  BY <1>2, SweptStays DEF RootsCore
<1>7. \A key \in Objects : \A x : Aged(key, x)' = Aged(key, x)
  BY <1>5, <1>6 DEF Aged
<1>8. SweepShape'
  BY <1>2, <1>3, <1>5, <1>7 DEF SweepShape
<1>9. \A key \in Objects :
         /\ sweep.live[key] \subseteq sweep'.live[key]
         /\ \A x : Keeps(gens[head[b]], sweep.now, key, x) => x \in sweep'.live[key]
  <2> DEFINE one == Absorb(sweep.live, gens[head[b]], Floor(docs))
  <2>1. \A key \in Objects : one[key] \subseteq AbsorbBranch(sweep.live, b, docs)[key]
    BY DEF AbsorbBranch, Union, Objects
  <2>2. gens[head[b]] \in Gen(Len(packs))
    BY <1>2 DEF RetentionTypeOK, NoGen
  <2>3. \A key \in Objects :
           /\ sweep.live[key] \subseteq one[key]
           /\ \A x : Keeps(gens[head[b]], sweep.now, key, x) => x \in one[key]
    BY <1>4, <2>2, Absorbs
  <2> HIDE DEF one
  <2> QED  BY <1>5, <2>1, <2>3
<1>10. BranchesFound(safe)'
  <2> SUFFICES ASSUME sweep.pass = safe, NEW c \in Branches, head[c] # NoGen, NEW key \in Objects,
                      NEW x \in Lists(gens[head[c]], key), Aged(key, x)
               PROVE  Found(key, x)'
    BY <1>2, <1>5, <1>7 DEF BranchesFound
  <2>1. Found(key, x)
    BY <1>2, <1>3 DEF BranchesFound
  <2>2. CASE x \in sweep.live[key]
    BY <1>9, <2>2 DEF Found
  <2>3. CASE \E a \in sweep.todo : Keeps(gens[head[a]], sweep.now, key, x)
    <3>1. PICK a \in sweep.todo : Keeps(gens[head[a]], sweep.now, key, x)
      BY <2>3
    <3>2. CASE a = b
      BY <1>9, <3>1, <3>2 DEF Found
    <3>3. CASE a # b
      BY <1>2, <1>5, <3>1, <3>3 DEF Found
    <3> QED  BY <3>2, <3>3
  <2> QED  BY <2>1, <2>2, <2>3 DEF Found
<1>11. TagsFound(safe)' /\ DoomedUnnamed(safe)'
  BY <1>2, <1>3, <1>5, <1>6 DEF TagsFound, DoomedUnnamed, Unnamed, Decided
<1> QED  BY <1>2, <1>6, <1>8, <1>10, <1>11, SweepWrites DEF SweepInv

(* Every branch was read: what an aged name needs is live.                 *)
LEMMA SweepTagsSpares ==
    ASSUME NEW safe \in Passes,
           RetentionTypeOK, RootsCore(safe), SweepTags PROVE RootsCore(safe)'
<1>1. /\ sweep' = [sweep EXCEPT !.at = "tags", !.todo = {t \in Pins : tag[t] # NoGen}]
      /\ sweep.at = "branches" /\ sweep.todo = {}
      /\ UNCHANGED <<now, gens, packs, mtime, swept, head, tag, sidecar, work>>
  BY DEF SweepTags
<1>2. SweepShape /\ BranchesFound(safe) /\ DoomedUnnamed(safe)
  BY DEF RootsCore, SweepInv
<1>3. DOMAIN sweep = {"at", "pass", "now", "live", "listed", "todo", "window", "doomed"}
  BY <1>1, <1>2 DEF SweepShape
<1>4. /\ DOMAIN sweep' = DOMAIN sweep
      /\ sweep'.at = "tags" /\ sweep'.pass = sweep.pass /\ sweep'.now = sweep.now
      /\ sweep'.doomed = sweep.doomed /\ sweep'.todo = {t \in Pins : tag[t] # NoGen}
      /\ sweep'.live = sweep.live
  BY <1>1, <1>3
<1>5. SweptInv' /\ born' = born /\ Roots' = Roots
  BY <1>1, SweptStays DEF RootsCore
<1>6. \A key \in Objects : \A x : Aged(key, x)' = Aged(key, x)
  BY <1>4, <1>5 DEF Aged
<1>7. SweepShape'
  BY <1>1, <1>2, <1>4, <1>6 DEF SweepShape
<1>8. TagsFound(safe)'
  <2>1. sweep.pass = safe => \A b \in Branches : head[b] # NoGen => \A key \in Objects :
           \A x \in Lists(gens[head[b]], key) : Aged(key, x) => x \in sweep.live[key]
    BY <1>1, <1>2 DEF BranchesFound, Found
  <2>2. \A t \in Pins \ sweep'.todo : tag[t] = NoGen
    BY <1>4
  <2> QED  BY <1>1, <1>4, <1>6, <2>1, <2>2 DEF TagsFound
<1>9. BranchesFound(safe)' /\ DoomedUnnamed(safe)'
  BY <1>1, <1>2, <1>4, <1>5 DEF BranchesFound, DoomedUnnamed, Unnamed, Decided
<1> QED  BY <1>1, <1>5, <1>7, <1>8, <1>9, SweepWrites DEF SweepInv

LEMMA SweepTagSpares ==
    ASSUME NEW safe \in Passes,
           SealLimit <= Grace, RetentionTypeOK, RootsCore(safe), NEW t \in Pins, SweepTag(t)
    PROVE  RootsCore(safe)'
<1>1. /\ sweep' = [sweep EXCEPT !.todo = @ \ {t}, !.live = Absorb(@, gens[tag[t]], 0)]
      /\ sweep.at = "tags" /\ t \in sweep.todo /\ tag[t] # NoGen
      /\ UNCHANGED <<now, gens, packs, mtime, swept, head, tag, sidecar, work>>
  BY DEF SweepTag
<1>2. SweepShape /\ TagsFound(safe)
  BY DEF RootsCore, SweepInv
<1>3. /\ DOMAIN sweep = {"at", "pass", "now", "live", "listed", "todo", "window", "doomed"}
      /\ sweep.now \in Nat
  BY <1>1, <1>2 DEF SweepShape
<1>4. /\ DOMAIN sweep' = DOMAIN sweep
      /\ sweep'.at = "tags" /\ sweep'.pass = sweep.pass /\ sweep'.now = sweep.now
      /\ sweep'.doomed = sweep.doomed /\ sweep'.todo = sweep.todo \ {t}
      /\ sweep'.live = Absorb(sweep.live, gens[tag[t]], 0)
  BY <1>1, <1>3
<1>5. SweptInv' /\ born' = born /\ Roots' = Roots
  BY <1>1, SweptStays DEF RootsCore
<1>6. \A key \in Objects : \A x : Aged(key, x)' = Aged(key, x)
  BY <1>4, <1>5 DEF Aged
<1>7. SweepShape'
  BY <1>1, <1>2, <1>4, <1>6 DEF SweepShape
<1>8. \A key \in Objects : /\ sweep.live[key] \subseteq sweep'.live[key]
                           /\ Lists(gens[tag[t]], key) \subseteq sweep'.live[key]
  <2> DEFINE doc == gens[tag[t]]
  <2>1. doc \in Gen(Len(packs))
    BY <1>1 DEF RetentionTypeOK, NoGen
  <2>2. sweep'.live = Absorb(sweep.live, doc, 0)
    BY <1>4
  <2> HIDE DEF doc
  <2>3. \A key \in Objects : /\ sweep.live[key] \subseteq Absorb(sweep.live, doc, 0)[key]
                             /\ Lists(doc, key) \subseteq Absorb(sweep.live, doc, 0)[key]
    BY <1>3, <2>1, Absorbs
  <2> QED  BY <2>2, <2>3 DEF doc
<1>9. TagsFound(safe)'
  <2> SUFFICES ASSUME sweep.pass = safe, NEW key \in Objects
               PROVE  /\ \A b \in Branches : head[b] # NoGen =>
                            \A x \in Lists(gens[head[b]], key) : Aged(key, x) => x \in sweep'.live[key]
                      /\ \A u \in Pins \ sweep'.todo : tag[u] # NoGen =>
                            \A x \in Lists(gens[tag[u]], key) : Aged(key, x) => x \in sweep'.live[key]
    BY <1>1, <1>4, <1>6 DEF TagsFound
  <2>1. \A b \in Branches : head[b] # NoGen =>
           \A x \in Lists(gens[head[b]], key) : Aged(key, x) => x \in sweep'.live[key]
    BY <1>1, <1>2, <1>8 DEF TagsFound
  <2>2. ASSUME NEW u \in Pins \ sweep'.todo, tag[u] # NoGen,
               NEW x \in Lists(gens[tag[u]], key), Aged(key, x)
        PROVE  x \in sweep'.live[key]
    <3>1. CASE u = t
      BY <1>8, <2>2, <3>1
    <3>2. CASE u # t
      <4>1. u \in Pins \ sweep.todo
        BY <1>4, <2>2, <3>2
      <4> QED  BY <1>1, <1>2, <1>8, <2>2, <4>1 DEF TagsFound
    <3> QED  BY <3>1, <3>2
  <2> QED  BY <2>1, <2>2
<1>10. BranchesFound(safe)' /\ DoomedUnnamed(safe)'
  <2>1. DoomedUnnamed(safe)
    BY DEF RootsCore, SweepInv
  <2> QED  BY <1>1, <1>4, <1>5, <2>1 DEF BranchesFound, DoomedUnnamed, Unnamed, Decided
<1> QED  BY <1>1, <1>5, <1>7, <1>9, <1>10, SweepWrites DEF SweepInv

(* What the safe pass has not found, and is aged, no root names.           *)
LEMMA NotFound ==
    ASSUME NEW safe \in Passes,
           RetentionTypeOK, StoreInv, SweepShape, TagsFound(safe),
           sweep.at = "tags", sweep.todo = {}, sweep.pass = safe,
           NEW doomed, \A key \in Objects : \A x \in doomed[key] : Aged(key, x) /\ x \notin sweep.live[key]
    PROVE  Unnamed(doomed)
<1>1. ASSUME NEW key \in Objects, NEW x \in doomed[key]
      PROVE  x \in DOMAIN born[key] /\ now - born[key][x] >= Grace
  <2>1. x \in DOMAIN born[key] /\ sweep.now - born[key][x] >= Grace
    BY <1>1 DEF Aged
  <2>2. sweep.now \in Nat /\ sweep.now <= now /\ now \in Nat /\ born[key][x] \in Nat /\ Grace \in Nat
    BY <2>1, RetentionAssumption DEF SweepShape, RetentionTypeOK, StoreInv
  <2> QED  BY <2>1, <2>2
<1>2. ASSUME NEW g \in Roots, NEW key \in Objects, NEW x \in Lists(gens[g], key), x \in doomed[key]
      PROVE  FALSE
  <2>1. (\E b \in Branches : g = head[b] /\ head[b] # NoGen) \/ (\E t \in Pins : g = tag[t] /\ tag[t] # NoGen)
    BY DEF Roots, Heads
  <2>2. Aged(key, x) /\ x \notin sweep.live[key]
    BY <1>2
  <2>3. x \in sweep.live[key]
    BY <2>1, <2>2 DEF TagsFound
  <2> QED  BY <2>2, <2>3
<1> QED  BY <1>1, <1>2 DEF Unnamed

(* The listing takes what is aged; the second pass begins.                 *)
LEMMA SweepScanSpares ==
    ASSUME NEW safe \in Passes,
           RetentionTypeOK, RootsCore(safe), SweepScan
    PROVE  RootsCore(safe)'
<1> DEFINE doomed == [packs |-> {p \in Existing \ sweep.live.packs : Old(packs[p].born)},
                      manifests |-> {m \in (DOMAIN mtime \ swept.manifests) \ sweep.live.manifests :
                                        Old(mtime[m])}]
<1>1. /\ sweep.at = "tags" /\ sweep.todo = {} /\ sweep.pass = 1
      /\ sweep' = IF doomed = Nothing THEN Idle
                  ELSE [sweep EXCEPT !.at = "branches", !.pass = 2, !.doomed = doomed,
                           !.live = Nothing, !.listed = Listed, !.todo = Listed]
      /\ UNCHANGED <<now, gens, packs, mtime, swept, head, tag, sidecar, work>>
  BY DEF SweepScan
<1>2. SweepShape /\ TagsFound(safe) /\ StoreInv
  BY DEF RootsCore, SweepInv
<1>3. /\ DOMAIN sweep = {"at", "pass", "now", "live", "listed", "todo", "window", "doomed"}
      /\ sweep.now \in Nat /\ sweep.now <= now
  BY <1>1, <1>2 DEF SweepShape
<1>4. DOMAIN doomed = Objects
  BY DEF Objects
<1>5. \A key \in Objects : \A x \in doomed[key] : Aged(key, x) /\ x \notin sweep.live[key]
  BY Born DEF Objects, Old, Existing, Aged
<1>6. SweptInv'
  BY <1>1, SweptStays DEF RootsCore
<1> HIDE DEF doomed
<1>7. SweepInv(safe)'
  <2>1. CASE doomed = Nothing
    BY <1>1, <2>1, IdleSweep
  <2>2. CASE doomed # Nothing
    <3> DEFINE window == sweep.window
               at == sweep.now
    <3>1. sweep' = [at |-> "branches", pass |-> 2, now |-> at, live |-> Nothing,
                    listed |-> Listed, todo |-> Listed, window |-> window, doomed |-> doomed]
      BY <1>1, <1>3, <2>2
    <3>2. at \in Nat /\ at <= now
      BY <1>3
    <3>3. \A key \in Objects : \A x \in doomed[key] :
             x \in DOMAIN born[key] /\ at - born[key][x] >= Grace
      BY <1>5 DEF Aged
    <3>4. safe = 1 => Unnamed(doomed)
      BY <1>1, <1>2, <1>5, NotFound
    <3> HIDE DEF window, at
    <3> QED  BY <1>1, <1>4, <3>1, <3>2, <3>3, <3>4, PassBegins DEF Passes
  <2> QED  BY <2>1, <2>2
<1> QED  BY <1>1, <1>6, <1>7, SweepWrites

(* The recompute: no root names what is left to delete.                    *)
LEMMA SweepSpareSpares ==
    ASSUME NEW safe \in Passes,
           RetentionTypeOK, RootsCore(safe), SweepSpare
    PROVE  RootsCore(safe)'
<1> DEFINE doomed == [packs |-> sweep.doomed.packs \ sweep.live.packs,
                      manifests |-> sweep.doomed.manifests \ sweep.live.manifests]
<1>1. /\ sweep.at = "tags" /\ sweep.todo = {} /\ sweep.pass = 2
      /\ sweep' = IF doomed = Nothing THEN Idle ELSE [at |-> "deletes", doomed |-> doomed]
      /\ UNCHANGED <<now, gens, packs, mtime, swept, head, tag, sidecar, work>>
  BY DEF SweepSpare
<1>2. SweepShape /\ TagsFound(safe) /\ DoomedUnnamed(safe) /\ StoreInv
  BY DEF RootsCore, SweepInv
<1>3. SweptInv' /\ born' = born /\ Roots' = Roots
  BY <1>1, SweptStays DEF RootsCore
<1>4. DOMAIN doomed = Objects /\ \A key \in Objects : doomed[key] = sweep.doomed[key] \ sweep.live[key]
  BY DEF Objects
<1> HIDE DEF doomed
<1>5. Unnamed(doomed)
  <2>1. CASE safe = 2
    <3>1. \A key \in Objects : \A x \in doomed[key] : Aged(key, x) /\ x \notin sweep.live[key]
      BY <1>1, <1>2, <1>4 DEF SweepShape
    <3> QED  BY <1>1, <1>2, <2>1, <3>1, NotFound
  <2>2. CASE safe = 1
    <3>1. Unnamed(sweep.doomed)
      BY <1>1, <1>2, <2>2 DEF DoomedUnnamed, Unnamed, Decided
    <3> QED  BY <1>4, <3>1 DEF Unnamed
  <2> QED  BY <2>1, <2>2 DEF Passes
<1>6. SweepInv(safe)'
  <2>1. CASE doomed = Nothing
    BY <1>1, <2>1, IdleSweep
  <2>2. CASE doomed # Nothing
    <3>1. sweep'.at = "deletes" /\ sweep'.doomed = doomed /\ DOMAIN sweep' = {"at", "doomed"}
      BY <1>1, <2>2
    <3>2. SweepShape' /\ BranchesFound(safe)' /\ TagsFound(safe)'
      BY <1>4, <3>1 DEF SweepShape, BranchesFound, TagsFound
    <3>3. DoomedUnnamed(safe)'
      BY <1>1, <1>3, <1>5, <3>1 DEF DoomedUnnamed, Unnamed, Decided
    <3> QED  BY <3>2, <3>3 DEF SweepInv
  <2> QED  BY <2>1, <2>2
<1> QED  BY <1>1, <1>3, <1>6, SweepWrites

(* One more of the doomed is swept.                                        *)
LEMMA SweepDeleteSpares ==
    ASSUME NEW safe \in Passes,
           RetentionTypeOK, RootsCore(safe), SweepDelete PROVE RootsCore(safe)'
<1> DEFINE d == sweep.doomed
<1>0. PICK key \in Objects : \E x \in d[key] :
         /\ swept' = [swept EXCEPT ![key] = @ \cup {x}]
         /\ sweep' = LET left == [d EXCEPT ![key] = @ \ {x}]
                     IN IF left = Nothing THEN Idle ELSE [sweep EXCEPT !.doomed = left]
  BY DEF SweepDelete, Objects
<1>1. PICK x \in d[key] :
         /\ swept' = [swept EXCEPT ![key] = @ \cup {x}]
         /\ sweep' = LET left == [d EXCEPT ![key] = @ \ {x}]
                     IN IF left = Nothing THEN Idle ELSE [sweep EXCEPT !.doomed = left]
  BY <1>0
<1>2. sweep.at = "deletes" /\ UNCHANGED <<now, gens, packs, mtime, head, tag, sidecar, work>>
  BY DEF SweepDelete
<1>3. SweptInv /\ SweepShape /\ DoomedUnnamed(safe)
  BY DEF RootsCore, SweepInv
<1>4. DOMAIN swept = Objects /\ DOMAIN d = Objects /\ DOMAIN sweep = {"at", "doomed"}
  BY <1>2, <1>3 DEF SweptInv, SweepShape
<1>5. born' = born /\ Roots' = Roots
  BY <1>2 DEF born, Roots, Heads
<1>6. /\ \A k \in Objects : \A y \in d[k] : y \in DOMAIN born[k] /\ now - born[k][y] >= Grace
      /\ \A k \in Objects : \A g \in Roots : Lists(gens[g], k) \cap d[k] = {}
  BY <1>2, <1>3 DEF DoomedUnnamed, Unnamed, Decided
<1>7. DOMAIN swept' = Objects /\ \A k \in Objects : swept'[k] \subseteq swept[k] \cup d[k]
  BY <1>1, <1>4
<1>8. SweptInv'
  <2>1. ASSUME NEW k \in Objects, NEW y \in swept'[k]
        PROVE  /\ y \in DOMAIN born[k] /\ now - born[k][y] >= Grace
               /\ \A g \in Roots : y \notin Lists(gens[g], k)
    <3>1. y \in swept[k] \/ y \in d[k]
      BY <1>7, <2>1
    <3> HIDE DEF d
    <3> QED  BY <1>3, <1>6, <3>1 DEF SweptInv
  <2> QED  BY <1>2, <1>5, <1>7, <2>1 DEF SweptInv
<1> DEFINE left == [d EXCEPT ![key] = @ \ {x}]
<1>9. DOMAIN left = Objects /\ \A k \in Objects : left[k] \subseteq d[k]
  BY <1>4
<1>10. sweep' = IF left = Nothing THEN Idle ELSE [sweep EXCEPT !.doomed = left]
  BY <1>1
<1> HIDE DEF left, d
<1>11. SweepInv(safe)'
  <2>1. CASE left = Nothing
    BY <1>10, <2>1, IdleSweep
  <2>2. CASE left # Nothing
    <3>1. sweep'.at = "deletes" /\ sweep'.doomed = left /\ DOMAIN sweep' = {"at", "doomed"}
      BY <1>2, <1>4, <1>10, <2>2
    <3>2. SweepShape' /\ BranchesFound(safe)' /\ TagsFound(safe)'
      BY <1>9, <3>1 DEF SweepShape, BranchesFound, TagsFound
    <3>3. DoomedUnnamed(safe)'
      BY <1>2, <1>5, <1>6, <1>9, <3>1 DEF DoomedUnnamed, Unnamed, Decided
    <3> QED  BY <3>2, <3>3 DEF SweepInv
  <2> QED  BY <2>1, <2>2
<1> QED  BY <1>2, <1>8, <1>11, SweepWrites

-----------------------------------------------------------------------------
(* Packs are cut.                                                          *)

(* What holds of the generations and of what is under way holds when more  *)
(* is written.                                                             *)
LEMMA WorkGrows ==
    ASSUME RetentionTypeOK, DocsInv, ContentInv, Grows(born, born'),
           NEW n \in Nat, n = Len(packs), Len(packs') = n + 1, \A p \in 1..n : packs'[p] = packs[p],
           UNCHANGED <<gens, head, sidecar>>
    PROVE  /\ FilesHeld' /\ SidecarsHeld' /\ \A b : SealedOn(b) => SealedOn(b)'
           /\ \A g \in 1..Len(gens) : /\ gens[g].number # 0 /\ Sound(born', gens[g])
                                      /\ Holding(packs', gens[g]) = Holding(packs, gens[g])
           /\ \A b \in Branches : job[b].at = "seal" =>
                 /\ Follows(born', job[b].doc, gens[job[b].base], job[b].start)
                 /\ job[b].doc.number = gens[job[b].base].number + 1
                 /\ job[b].files \cup job[b].seen \subseteq Holding(packs', job[b].doc) /\ SealedOn(b)'
           /\ rewrite.at = "written" =>
                 /\ Follows(born', rewrite.doc, gens[rewrite.base], rewrite.start)
                 /\ rewrite.doc.number = gens[rewrite.base].number + 1
                 /\ Holding(packs', gens[rewrite.base]) \cap rewrite.live
                       \subseteq Holding(packs', rewrite.doc)
<1>1. \A g \in 1..Len(gens) : gens[g] \in Gen(n)
  BY DEF RetentionTypeOK
<1>2. \A g \in 1..Len(gens) : Holding(packs', gens[g]) = Holding(packs, gens[g])
  <2> SUFFICES ASSUME NEW g \in 1..Len(gens) PROVE Holding(packs', gens[g]) = Holding(packs, gens[g])
    OBVIOUS
  <2> DEFINE doc == gens[g]
  <2>1. Named(doc) \subseteq 1..n
    BY <1>1, NamedPacks
  <2> HIDE DEF doc
  <2>2. Holding(packs', doc) = Holding(packs, doc)
    BY <2>1, HoldingGrows
  <2> QED  BY <2>2 DEF doc
<1>3. \A doc \in Doc(n) : Holding(packs', doc) = Holding(packs, doc)
  <2> SUFFICES ASSUME NEW doc \in Doc(n) PROVE Holding(packs', doc) = Holding(packs, doc)
    OBVIOUS
  <2>1. Named(doc) \subseteq 1..n
    BY DEF Named, Doc
  <2> QED  BY <2>1 DEF Holding
<1>4. 1..n \subseteq 1..(n + 1)
  OBVIOUS
<1>5. \A b : SealedOn(b) => SealedOn(b)'
  BY <1>4 DEF SealedOn
<1>6. FilesHeld'
  BY <1>2 DEF ContentInv, FilesHeld
<1>7. SidecarsHeld'
  <2>1. \A b \in Branches : head[b] # NoGen => head[b] \in 1..Len(gens)
    BY DEF RetentionTypeOK, NoGen
  <2> QED  BY <1>2, <1>5, <2>1 DEF ContentInv, SidecarsHeld
<1>8. \A g \in 1..Len(gens) : gens[g].number # 0 /\ Sound(born', gens[g])
  BY SoundGrows DEF DocsInv
<1>9. ASSUME NEW b \in Branches, job[b].at = "seal"
      PROVE  /\ Follows(born', job[b].doc, gens[job[b].base], job[b].start)
             /\ job[b].doc.number = gens[job[b].base].number + 1
             /\ job[b].files \cup job[b].seen \subseteq Holding(packs', job[b].doc) /\ SealedOn(b)'
  <2> DEFINE doc == job[b].doc
             base == gens[job[b].base]
             start == job[b].start
  <2>1. Follows(born, doc, base, start) /\ doc.number = base.number + 1
    BY <1>9 DEF DocsInv
  <2>2. doc \in Doc(n)
    BY <1>9 DEF RetentionTypeOK, Idle
  <2>3. job[b].files \cup job[b].seen \subseteq Holding(packs, doc) /\ SealedOn(b)
    BY <1>9 DEF ContentInv, JobsHeld
  <2> HIDE DEF doc, base, start
  <2>4. Follows(born', doc, base, start)
    BY <2>1, FollowsGrows
  <2>5. Holding(packs', doc) = Holding(packs, doc)
    BY <1>3, <2>2
  <2> QED  BY <1>5, <2>1, <2>3, <2>4, <2>5 DEF doc, base, start
<1>10. ASSUME rewrite.at = "written"
       PROVE  /\ Follows(born', rewrite.doc, gens[rewrite.base], rewrite.start)
              /\ rewrite.doc.number = gens[rewrite.base].number + 1
              /\ Holding(packs', gens[rewrite.base]) \cap rewrite.live
                    \subseteq Holding(packs', rewrite.doc)
  <2> DEFINE doc == rewrite.doc
             base == gens[rewrite.base]
             start == rewrite.start
  <2>1. Follows(born, doc, base, start) /\ doc.number = base.number + 1
    BY <1>10 DEF DocsInv
  <2>2. doc \in Doc(n) /\ rewrite.base \in 1..Len(gens)
    BY <1>10 DEF RetentionTypeOK
  <2>3. Holding(packs, base) \cap rewrite.live \subseteq Holding(packs, doc)
    BY <1>10 DEF ContentInv, RewriteHeld
  <2>4. Holding(packs', base) = Holding(packs, base)
    BY <1>2, <2>2
  <2> HIDE DEF doc, base, start
  <2>5. Follows(born', doc, base, start)
    BY <2>1, FollowsGrows
  <2>6. Holding(packs', doc) = Holding(packs, doc)
    BY <1>3, <2>2
  <2> QED  BY <2>1, <2>3, <2>4, <2>5, <2>6 DEF doc, base, start
<1> QED  BY <1>2, <1>5, <1>6, <1>7, <1>8, <1>9, <1>10

(* A seal cuts a pack: with what the base and the sidecar hold, its pack   *)
(* makes its files whole.                                                  *)
LEMMA SealUploadSpares ==
    ASSUME NEW safe \in Passes,
           RetentionTypeOK, RootsCore(safe), NEW b \in Branches, SealUpload(b)
    PROVE  RootsCore(safe)'
<1> DEFINE n == Len(packs)
           base == gens[head[b]]
           backup == Backup(base, b, now)
<1>0. PICK files \in SUBSET Chunks : \E merged \in {{}, base.manifests} :
         LET m == (UNION merged) \cup {n + 1} IN
         /\ packs' = Append(packs, [chunks |-> files \ (base.files \cup Seen(b)), born |-> now,
                                    backups |-> {backup}])
         /\ mtime' = Uploaded(m, now)
         /\ job' = [job EXCEPT ![b] =
               [at |-> "seal", base |-> head[b], files |-> files, start |-> now,
                seen |-> Seen(b) \cup files,
                doc |-> Document(base, base.number + 1, b, (base.manifests \ merged) \cup {m}, {}, now)]]
  BY DEF SealUpload
<1>1. PICK merged \in {{}, base.manifests} :
         LET m == (UNION merged) \cup {n + 1} IN
         /\ packs' = Append(packs, [chunks |-> files \ (base.files \cup Seen(b)), born |-> now,
                                    backups |-> {backup}])
         /\ mtime' = Uploaded(m, now)
         /\ job' = [job EXCEPT ![b] =
               [at |-> "seal", base |-> head[b], files |-> files, start |-> now,
                seen |-> Seen(b) \cup files,
                doc |-> Document(base, base.number + 1, b, (base.manifests \ merged) \cup {m}, {}, now)]]
  BY <1>0
<1> DEFINE m == (UNION merged) \cup {n + 1}
           manifests == (base.manifests \ merged) \cup {m}
           doc == Document(base, base.number + 1, b, manifests, {}, now)
           chunks == files \ (base.files \cup Seen(b))
           seal == [at |-> "seal", base |-> head[b], files |-> files, start |-> now,
                    seen |-> Seen(b) \cup files, doc |-> doc]
<1>2. /\ packs' = Append(packs, [chunks |-> chunks, backups |-> {backup}, born |-> now])
      /\ mtime' = Uploaded(m, now) /\ job' = [job EXCEPT ![b] = seal]
      /\ UNCHANGED <<now, gens, swept, head, tag, sidecar, rewrite, sweep>>
  BY <1>1 DEF SealUpload
<1>3. /\ n \in Nat /\ now \in Nat /\ head[b] # NoGen /\ head[b] \in 1..Len(gens) /\ base \in Gen(n)
      /\ Named(base) \subseteq 1..n
  <2>1. n \in Nat /\ now \in Nat /\ head[b] # NoGen /\ head[b] \in 1..Len(gens) /\ base \in Gen(n)
    BY DEF RetentionTypeOK, SealUpload, NoGen
  <2> QED  BY <2>1, NamedPacks
<1>4. /\ StoreInv /\ DocsInv /\ ContentInv /\ SweptInv /\ SweepInv(safe)
      /\ \A g \in 1..Len(gens) : Sound(born, gens[g])
  BY DEF RootsCore, DocsInv
<1>5. /\ seal.at = "seal" /\ seal.base = head[b] /\ seal.files = files /\ seal.start = now
      /\ seal.seen = Seen(b) \cup files /\ seal.doc = doc
  OBVIOUS
<1>6. backup.branch = b
  BY DEF Backup, Document
<1>7. doc.number = base.number + 1 /\ doc.manifests = manifests
  BY DEF Document
<1>8. UNION manifests = Named(base) \cup {n + 1} /\ m \in SUBSET (1..(n + 1)) /\ n + 1 \in m
  <2>1. UNION manifests = Named(base) \cup {n + 1}
    BY DEF Named
  <2>2. m \subseteq UNION manifests
    OBVIOUS
  <2>3. UNION manifests \subseteq 1..(n + 1)
    <3>1. 1..n \subseteq 1..(n + 1) /\ n + 1 \in 1..(n + 1)
      BY <1>3
    <3> HIDE DEF n, m, manifests
    <3> QED  BY <1>3, <2>1, <3>1
  <2>4. m \in SUBSET (1..(n + 1))
    <3> HIDE DEF m, manifests
    <3> QED  BY <2>2, <2>3
  <2> QED  BY <2>1, <2>4
<1>9. manifests \subseteq base.manifests \cup {m}
  OBVIOUS
<1> DEFINE w == born'
<1>10. /\ StoreInv' /\ Grows(born, w) /\ Len(packs') = n + 1
       /\ \A p \in 1..n : packs'[p] = packs[p]
       /\ packs'[n + 1] = [chunks |-> chunks, backups |-> {backup}, born |-> now]
       /\ DOMAIN w["packs"] = 1..(n + 1) /\ w["packs"][n + 1] = now
       /\ DOMAIN w["manifests"] = {m} \cup DOMAIN mtime /\ w["manifests"][m] = now
  <2> HIDE DEF m, chunks, backup
  <2> QED  BY <1>2, <1>4, <1>8, Wrote
<1> HIDE DEF w, seal, backup, doc, manifests, m, chunks, base
<1>11. Follows(w, doc, base, now)
  <2>1. RowsUnlisted(base) /\ base.manifests \subseteq DOMAIN mtime
    BY <1>3, <1>4, Born DEF Sound, base, Lists, Objects
  <2>2. Named(base) \subseteq (UNION manifests) \cup {} /\ UNION manifests \subseteq DOMAIN w["packs"]
    <3>1. 1..n \subseteq 1..(n + 1) /\ n + 1 \in 1..(n + 1)
      BY <1>3
    <3> HIDE DEF n
    <3> QED  BY <1>3, <1>8, <1>10, <3>1
  <2>3. manifests \subseteq DOMAIN w["manifests"]
    BY <1>9, <1>10, <2>1
  <2>4. \A x \in (UNION manifests) \ Named(base) : w["packs"][x] >= now
    BY <1>3, <1>8, <1>10
  <2>5. \A x \in manifests \ base.manifests : w["manifests"][x] >= now
    BY <1>3, <1>9, <1>10
  <2> QED  BY <1>3, <2>1, <2>2, <2>3, <2>4, <2>5, DocumentFollows DEF doc
<1>12. Holding(packs', doc) = Holding(packs', base) \cup chunks
  <2>1. Named(doc) = Named(base) \cup {n + 1}
    BY <1>7, <1>8 DEF Named
  <2>2. packs'[n + 1].chunks = chunks
    BY <1>10
  <2> QED  BY <2>1, <2>2 DEF Holding
<1>13. /\ FilesHeld' /\ SidecarsHeld' /\ \A c : SealedOn(c) => SealedOn(c)'
       /\ \A g \in 1..Len(gens) : /\ gens[g].number # 0 /\ Sound(w, gens[g])
                                  /\ Holding(packs', gens[g]) = Holding(packs, gens[g])
       /\ \A c \in Branches : job[c].at = "seal" =>
             /\ Follows(w, job[c].doc, gens[job[c].base], job[c].start)
             /\ job[c].doc.number = gens[job[c].base].number + 1
             /\ job[c].files \cup job[c].seen \subseteq Holding(packs', job[c].doc) /\ SealedOn(c)'
       /\ rewrite.at = "written" =>
             /\ Follows(w, rewrite.doc, gens[rewrite.base], rewrite.start)
             /\ rewrite.doc.number = gens[rewrite.base].number + 1
             /\ Holding(packs', gens[rewrite.base]) \cap rewrite.live \subseteq Holding(packs', rewrite.doc)
  <2>1. Grows(born, born')
    BY <1>10 DEF w
  <2> HIDE DEF n
  <2>2. n = Len(packs)
    BY DEF n
  <2> QED  BY <1>2, <1>3, <1>4, <1>10, <2>1, <2>2, WorkGrows DEF w
<1>14. SealedOn(b)'
  <2>1. packs'[n + 1].backups = {backup} /\ n + 1 \in 1..Len(packs')
    BY <1>3, <1>10
  <2> QED  BY <1>6, <2>1 DEF SealedOn
<1>15. seal.files \cup seal.seen \subseteq Holding(packs', seal.doc)
  <2>1. base.files \subseteq Holding(packs, base)
    BY <1>3, <1>4 DEF ContentInv, FilesHeld, base
  <2>2. Seen(b) \subseteq Holding(packs, base)
    BY <1>3, <1>4 DEF ContentInv, SidecarsHeld, Seen, base
  <2>3. Holding(packs', base) = Holding(packs, base)
    BY <1>3, <1>13 DEF base
  <2>4. files \subseteq base.files \cup Seen(b) \cup chunks
    BY DEF chunks
  <2> QED  BY <1>5, <1>12, <2>1, <2>2, <2>3, <2>4
<1>16. job'[b] = seal /\ \A c \in Branches \ {b} : job'[c] = job[c]
  BY <1>2 DEF RetentionTypeOK
<1>17. DocsInv'
  <2>1. ASSUME NEW c \in Branches, job'[c].at = "seal"
        PROVE  /\ Follows(w, job'[c].doc, gens[job'[c].base], job'[c].start)
               /\ job'[c].doc.number = gens[job'[c].base].number + 1 /\ job'[c].start <= now
    <3>1. CASE c = b
      BY <1>3, <1>5, <1>7, <1>11, <1>16, <3>1 DEF base
    <3>2. CASE c # b
      BY <1>4, <1>13, <1>16, <2>1, <3>2 DEF DocsInv
    <3> QED  BY <3>1, <3>2
  <2> QED  BY <1>2, <1>4, <1>13, <2>1 DEF DocsInv, w
<1>18. JobsHeld'
  <2>1. ASSUME NEW c \in Branches, job'[c].at = "seal"
        PROVE  job'[c].files \cup job'[c].seen \subseteq Holding(packs', job'[c].doc) /\ SealedOn(c)'
    <3>1. CASE c = b
      BY <1>14, <1>15, <1>16, <3>1
    <3>2. CASE c # b
      BY <1>13, <1>16, <2>1, <3>2
    <3> QED  BY <3>1, <3>2
  <2> QED  BY <2>1 DEF JobsHeld
<1>19. RewriteHeld'
  BY <1>2, <1>4, <1>13 DEF ContentInv, RewriteHeld
<1>20. SweptInv' /\ SweepInv(safe)'
  <2>1. Grows(born, born')
    BY <1>10 DEF w
  <2> QED  BY <1>2, <1>4, <2>1, SweptGrows
<1> QED  BY <1>10, <1>13, <1>17, <1>18, <1>19, <1>20 DEF RootsCore, ContentInv

(* A repack cuts a pack: with what it keeps of the base it holds whatever  *)
(* is live.                                                                *)
LEMMA RepackWriteSpares ==
    ASSUME NEW safe \in Passes,
           RetentionTypeOK, RootsCore(safe), RepackWrite
    PROVE  RootsCore(safe)'
<1> DEFINE n == Len(packs)
           r == rewrite
           base == gens[r.base]
           m == (Named(base) \ r.condemn) \cup {n + 1}
           chunks == r.live \cap UNION {packs[p].chunks : p \in r.condemn}
           backups == UNION {packs[p].backups : p \in r.condemn}
           doc == Document(base, base.number + 1, r.branch, {m}, r.condemn, now)
<1>1. /\ packs' = Append(packs, [chunks |-> chunks, backups |-> backups, born |-> now])
      /\ mtime' = Uploaded(m, now)
      /\ rewrite' = [at |-> "written", branch |-> r.branch, base |-> r.base,
                     start |-> now, live |-> r.live, doc |-> doc]
      /\ UNCHANGED <<now, gens, swept, head, tag, sidecar, job, sweep>>
      /\ r.at = "planned"
  BY DEF RepackWrite
<1>2. /\ n \in Nat /\ now \in Nat /\ r.base \in 1..Len(gens) /\ base \in Gen(n)
      /\ r.condemn \subseteq 1..n /\ Named(base) \subseteq 1..n
  <2>1. n \in Nat /\ now \in Nat /\ r.base \in 1..Len(gens) /\ base \in Gen(n) /\ r.condemn \subseteq 1..n
    BY <1>1 DEF RetentionTypeOK, Idle
  <2> QED  BY <2>1, NamedPacks
<1>3. /\ StoreInv /\ DocsInv /\ ContentInv /\ SweptInv /\ SweepInv(safe)
      /\ \A g \in 1..Len(gens) : Sound(born, gens[g])
  BY DEF RootsCore, DocsInv
<1>4. doc.number = base.number + 1 /\ doc.manifests = {m} /\ Named(doc) = m
  BY DEF Document, Named
<1>5. m \in SUBSET (1..(n + 1)) /\ n + 1 \in m
  BY <1>2
<1>6. /\ rewrite'.at = "written" /\ rewrite'.base = r.base /\ rewrite'.live = r.live
      /\ rewrite'.start = now /\ rewrite'.doc = doc
  <2> HIDE DEF doc
  <2> QED  BY <1>1
<1> DEFINE w == born'
<1>7. /\ StoreInv' /\ Grows(born, w) /\ Len(packs') = n + 1
      /\ \A p \in 1..n : packs'[p] = packs[p]
      /\ packs'[n + 1] = [chunks |-> chunks, backups |-> backups, born |-> now]
      /\ DOMAIN w["packs"] = 1..(n + 1) /\ w["packs"][n + 1] = now
      /\ DOMAIN w["manifests"] = {m} \cup DOMAIN mtime /\ w["manifests"][m] = now
  <2> HIDE DEF m, chunks, backups
  <2> QED  BY <1>1, <1>3, <1>5, Wrote
<1> HIDE DEF w, doc, chunks, backups, base
<1>8. Follows(w, doc, base, now)
  <2> DEFINE manifests == {m}
  <2>1. RowsUnlisted(base)
    BY <1>2, <1>3 DEF Sound, base
  <2>2. UNION manifests = m /\ m = (Named(base) \ r.condemn) \cup {n + 1}
    OBVIOUS
  <2>3. Named(base) \subseteq (UNION manifests) \cup r.condemn
    BY <2>2
  <2>4. UNION manifests \subseteq DOMAIN w["packs"] /\ manifests \subseteq DOMAIN w["manifests"]
    <3> HIDE DEF m
    <3> QED  BY <1>5, <1>7, <2>2
  <2>5. \A x \in (UNION manifests) \ Named(base) : w["packs"][x] >= now
    BY <1>2, <1>7, <2>2
  <2>6. \A x \in manifests \ base.manifests : w["manifests"][x] >= now
    <3> HIDE DEF m
    <3> QED  BY <1>2, <1>7
  <2>7. doc = Document(base, base.number + 1, r.branch, manifests, r.condemn, now)
    BY DEF doc
  <2> HIDE DEF manifests
  <2> QED  BY <1>2, <2>1, <2>3, <2>4, <2>5, <2>6, <2>7, DocumentFollows
<1>9. /\ FilesHeld' /\ SidecarsHeld' /\ \A c : SealedOn(c) => SealedOn(c)'
      /\ \A g \in 1..Len(gens) : /\ gens[g].number # 0 /\ Sound(w, gens[g])
                                 /\ Holding(packs', gens[g]) = Holding(packs, gens[g])
      /\ \A c \in Branches : job[c].at = "seal" =>
            /\ Follows(w, job[c].doc, gens[job[c].base], job[c].start)
            /\ job[c].doc.number = gens[job[c].base].number + 1
            /\ job[c].files \cup job[c].seen \subseteq Holding(packs', job[c].doc) /\ SealedOn(c)'
  <2>1. Grows(born, born')
    BY <1>7 DEF w
  <2> HIDE DEF n
  <2>2. n = Len(packs)
    BY DEF n
  <2> QED  BY <1>1, <1>2, <1>3, <1>7, <2>1, <2>2, WorkGrows DEF w
<1>10. DocsInv'
  <2>1. now <= now
    BY <1>2
  <2> QED  BY <1>1, <1>3, <1>4, <1>6, <1>8, <1>9, <2>1 DEF DocsInv, w, base
<1>11. JobsHeld'
  BY <1>1, <1>9 DEF JobsHeld
<1>12. RewriteHeld'
  <2>1. base.files \subseteq r.live
    BY <1>1, <1>3 DEF ContentInv, RewriteHeld, base
  <2>2. ASSUME NEW c \in r.live, c \in Holding(packs', base) PROVE c \in Holding(packs', doc)
    <3>1. PICK p \in Named(base) : c \in packs'[p].chunks
      BY <2>2 DEF Holding
    <3>2. CASE p \in r.condemn
      <4>1. c \in chunks
        BY <1>2, <1>7, <3>1, <3>2 DEF chunks
      <4>2. packs'[n + 1].chunks = chunks
        BY <1>7
      <4> QED  BY <1>4, <1>5, <4>1, <4>2 DEF Holding
    <3>3. CASE p \notin r.condemn
      BY <1>4, <3>1, <3>3 DEF Holding
    <3> QED  BY <3>2, <3>3
  <2> QED  BY <1>1, <1>6, <2>1, <2>2 DEF RewriteHeld, base
<1>13. SweptInv' /\ SweepInv(safe)'
  <2>1. Grows(born, born')
    BY <1>7 DEF w
  <2> QED  BY <1>1, <1>3, <2>1, SweptGrows
<1> QED  BY <1>7, <1>9, <1>10, <1>11, <1>12, <1>13 DEF RootsCore, ContentInv

-----------------------------------------------------------------------------
(* Generations are built.                                                  *)

LEMMA Builds ==
    ASSUME RetentionTypeOK, StoreInv, DocsInv, ContentInv, NEW g, gens' = Append(gens, g),
           g.number # 0, Sound(born, g), g.files \subseteq Holding(packs, g),
           UNCHANGED <<now, packs, mtime>>,
           \A c \in Branches : job'[c] \in {job[c], Idle}, rewrite' \in {rewrite, Idle}
    PROVE  /\ StoreInv' /\ DocsInv' /\ FilesHeld' /\ JobsHeld' /\ RewriteHeld'
           /\ Len(gens) \in Nat /\ Len(gens') = Len(gens) + 1 /\ gens'[Len(gens) + 1] = g
           /\ \A i \in 1..Len(gens) : gens'[i] = gens[i]
           /\ \A b : SealedOn(b)' = SealedOn(b)
<1>1. /\ Len(gens) \in Nat /\ Len(gens') = Len(gens) + 1 /\ gens'[Len(gens) + 1] = g
      /\ \A i \in 1..Len(gens) : gens'[i] = gens[i]
  <2>1. gens \in Seq(Gen(Len(packs)))
    BY DEF RetentionTypeOK
  <2> QED  BY <2>1
<1>2. born' = born
  BY DEF born
<1>3. StoreInv' /\ \A b : SealedOn(b)' = SealedOn(b)
  BY <1>2 DEF StoreInv, SealedOn
<1>4. \A i \in 1..Len(gens') : i = Len(gens) + 1 \/ i \in 1..Len(gens)
  BY <1>1
<1>5. Idle.at # "seal" /\ Idle.at # "planned" /\ Idle.at # "written"
  BY DEF Idle
<1>6. /\ \A b \in Branches : job'[b].at = "seal" =>
            job'[b] = job[b] /\ job[b].base \in 1..Len(gens) /\ gens'[job[b].base] = gens[job[b].base]
      /\ rewrite'.at \in {"planned", "written"} =>
            rewrite' = rewrite /\ rewrite.base \in 1..Len(gens) /\ gens'[rewrite.base] = gens[rewrite.base]
  <2>1. \A b \in Branches : job'[b].at = "seal" => job'[b] = job[b] /\ job[b].base \in 1..Len(gens)
    BY <1>5 DEF RetentionTypeOK
  <2>2. rewrite'.at \in {"planned", "written"} => rewrite' = rewrite /\ rewrite.base \in 1..Len(gens)
    BY <1>5 DEF RetentionTypeOK
  <2> QED  BY <1>1, <2>1, <2>2
<1>7. DocsInv'
  BY <1>1, <1>2, <1>4, <1>6 DEF DocsInv
<1>8. FilesHeld'
  BY <1>1, <1>4 DEF ContentInv, FilesHeld
<1>9. JobsHeld'
  BY <1>3, <1>6 DEF ContentInv, JobsHeld
<1>10. RewriteHeld'
  BY <1>6 DEF ContentInv, RewriteHeld
<1> QED  BY <1>1, <1>3, <1>7, <1>8, <1>9, <1>10

(* A publish flips: the head names what was written for it.                *)
LEMMA Flips ==
    ASSUME NEW safe \in Passes,
           SealLimit <= Grace, RetentionTypeOK, RootsCore(safe), SweepUndisturbed(safe),
           NEW b \in Branches, NEW doc \in Doc(Len(packs)), NEW start \in Nat, NEW kind, NEW files,
           head[b] # NoGen, start <= now, now - start < SealLimit,
           Follows(born, doc, gens[head[b]], start), doc.number = gens[head[b]].number + 1,
           files \subseteq Holding(packs, doc),
           gens' = Append(gens, Generation(doc, head[b], kind, files)),
           head' = [head EXCEPT ![b] = Len(gens) + 1],
           UNCHANGED <<now, packs, mtime, swept, tag, sweep>>,
           \A c \in Branches : job'[c] \in {job[c], Idle}, rewrite' \in {rewrite, Idle},
           \A c \in Branches \ {b} : sidecar'[c] = sidecar[c],
           sidecar'[b].number # 0 => SealedOn(b),
           \/ sidecar'[b].number = doc.number /\ sidecar'[b].chunks \subseteq Holding(packs, doc)
           \/ sidecar'[b] = sidecar[b]
    PROVE  RootsCore(safe)'
<1> DEFINE g == Generation(doc, head[b], kind, files)
           base == gens[head[b]]
<1>1. /\ StoreInv /\ DocsInv /\ ContentInv /\ SweptInv /\ SweepInv(safe)
      /\ \A i \in 1..Len(gens) : Sound(born, gens[i])
  BY DEF RootsCore, DocsInv
<1>2. /\ head[b] \in 1..Len(gens) /\ base.number \in Nat /\ Len(gens) \in Nat
      /\ \A c \in Branches : head[c] # NoGen => head[c] \in 1..Len(gens)
      /\ head \in [Branches -> 0..Len(gens)] /\ sidecar[b].number \in Nat
  <2>1. /\ gens \in Seq(Gen(Len(packs))) /\ head \in [Branches -> 0..Len(gens)]
        /\ sidecar \in [Branches -> [number : Nat, chunks : SUBSET Chunks]]
    BY DEF RetentionTypeOK
  <2>2. Len(gens) \in Nat /\ \A c \in Branches : head[c] # NoGen => head[c] \in 1..Len(gens)
    BY <2>1 DEF NoGen
  <2>3. gens[head[b]] \in Gen(Len(packs))
    BY <2>1, <2>2
  <2>4. \A d \in Gen(Len(packs)) : d.number \in Nat
    BY DEF Gen
  <2> QED  BY <2>1, <2>2, <2>3, <2>4
<1>3. /\ g.number = doc.number /\ g.files = files
      /\ Holding(packs, g) = Holding(packs, doc) /\ Sound(born, g) = Sound(born, doc)
  BY GenerationLists
<1> HIDE DEF g, base
<1>4. Sound(born, doc) /\ doc.number # 0 /\ base.number < doc.number
  BY <1>2 DEF Follows, base
<1>5. /\ StoreInv' /\ DocsInv' /\ FilesHeld' /\ JobsHeld' /\ RewriteHeld'
      /\ gens'[Len(gens) + 1] = g /\ \A i \in 1..Len(gens) : gens'[i] = gens[i]
      /\ \A c : SealedOn(c)' = SealedOn(c)
  <2>1. gens' = Append(gens, g) /\ g.number # 0 /\ Sound(born, g) /\ g.files \subseteq Holding(packs, g)
    BY <1>3, <1>4 DEF g
  <2> QED  BY <1>1, <2>1, Builds
<1>6. SweptInv' /\ SweepInv(safe)'
  BY <1>1, FlipSpares
<1>7. SidecarsHeld'
  <2>1. ASSUME NEW c \in Branches
        PROVE  /\ sidecar'[c].number # 0 => SealedOn(c)
               /\ head'[c] # NoGen =>
                     /\ sidecar'[c].number <= gens'[head'[c]].number
                     /\ sidecar'[c].number = gens'[head'[c]].number =>
                           sidecar'[c].chunks \subseteq Holding(packs, gens'[head'[c]])
    <3>1. CASE c = b
      <4>1. head'[c] = Len(gens) + 1 /\ gens'[head'[c]] = g
        BY <1>2, <1>5, <3>1
      <4>2. CASE sidecar'[b].number = doc.number /\ sidecar'[b].chunks \subseteq Holding(packs, doc)
        BY <1>2, <1>3, <3>1, <4>1, <4>2 DEF base
      <4>3. CASE sidecar'[b] = sidecar[b]
        <5>1. sidecar[b].number <= base.number
          BY <1>1 DEF ContentInv, SidecarsHeld, base
        <5>2. sidecar[b].number < doc.number
          BY <1>2, <5>1 DEF base
        <5> QED  BY <1>2, <1>3, <3>1, <4>1, <4>3, <5>2 DEF base
      <4> QED  BY <4>2, <4>3
    <3>2. CASE c # b
      <4>1. head'[c] = head[c] /\ sidecar'[c] = sidecar[c]
        BY <1>2, <3>2
      <4>2. head[c] # NoGen => gens'[head[c]] = gens[head[c]]
        BY <1>2, <1>5
      <4> QED  BY <1>1, <4>1, <4>2 DEF ContentInv, SidecarsHeld
    <3> QED  BY <3>1, <3>2
  <2> QED  BY <1>5, <2>1 DEF SidecarsHeld
<1> QED  BY <1>5, <1>6, <1>7 DEF RootsCore, ContentInv

LEMMA SealFlipSpares ==
    ASSUME NEW safe \in Passes,
           SealLimit <= Grace, RetentionTypeOK, RootsCore(safe), SweepUndisturbed(safe),
           NEW b \in Branches, SealFlip(b)
    PROVE  RootsCore(safe)'
<1> DEFINE j == job[b]
           doc == j.doc
           start == j.start
           files == j.files
<1>1. /\ j.at = "seal" /\ head[b] = j.base /\ now - start < SealLimit
      /\ gens' = Append(gens, Generation(doc, j.base, "seal", files))
      /\ head' = [head EXCEPT ![b] = Len(gens) + 1]
      /\ sidecar' = [sidecar EXCEPT ![b] = [number |-> doc.number, chunks |-> j.seen]]
      /\ job' = [job EXCEPT ![b] = Idle]
      /\ UNCHANGED <<now, packs, mtime, swept, tag, rewrite, sweep>>
  BY DEF SealFlip, Current
<1>2. doc \in Doc(Len(packs)) /\ start \in Nat /\ j.base \in 1..Len(gens)
  BY <1>1 DEF RetentionTypeOK, Idle
<1>3. head[b] # NoGen
  BY <1>1, <1>2 DEF NoGen
<1>4. Follows(born, doc, gens[head[b]], start) /\ doc.number = gens[head[b]].number + 1
  BY <1>1 DEF RootsCore, DocsInv
<1>5. files \subseteq Holding(packs, doc) /\ j.seen \subseteq Holding(packs, doc) /\ SealedOn(b)
  BY <1>1 DEF RootsCore, ContentInv, JobsHeld
<1>6. /\ \A c \in Branches : job'[c] \in {job[c], Idle}
      /\ \A c \in Branches \ {b} : sidecar'[c] = sidecar[c]
      /\ sidecar'[b].number = doc.number /\ sidecar'[b].chunks = j.seen
  <2>1. sidecar \in [Branches -> [number : Nat, chunks : SUBSET Chunks]] /\ DOMAIN job = Branches
    BY DEF RetentionTypeOK
  <2> HIDE DEF doc
  <2> QED  BY <1>1, <2>1
<1>7. start <= now
  BY <1>1 DEF RootsCore, DocsInv
<1>8. gens' = Append(gens, Generation(doc, head[b], "seal", files))
  BY <1>1
<1>9. /\ head' = [head EXCEPT ![b] = Len(gens) + 1]
      /\ UNCHANGED <<now, packs, mtime, swept, tag, sweep>>
      /\ rewrite' \in {rewrite, Idle}
      /\ now - start < SealLimit
  BY <1>1
<1>10. \/ sidecar'[b].number = doc.number /\ sidecar'[b].chunks \subseteq Holding(packs, doc)
       \/ sidecar'[b] = sidecar[b]
  BY <1>5, <1>6
<1> HIDE DEF doc, start, files, j
<1>11. \A c \in Branches : job'[c] \in {job[c], Idle}
  BY <1>6
<1>12. \A c \in Branches \ {b} : sidecar'[c] = sidecar[c]
  BY <1>6
<1>13. files \subseteq Holding(packs, doc) /\ (sidecar'[b].number # 0 => SealedOn(b))
  BY <1>5
<1>14. doc \in Doc(Len(packs)) /\ start \in Nat
  BY <1>2
<1> QED  BY <1>3, <1>4, <1>7, <1>8, <1>9, <1>10, <1>11, <1>12, <1>13, <1>14, Flips

LEMMA RepackFlipSpares ==
    ASSUME NEW safe \in Passes,
           SealLimit <= Grace, RetentionTypeOK, RootsCore(safe), SweepUndisturbed(safe), RepackFlip
    PROVE  RootsCore(safe)'
<1> DEFINE r == rewrite
           b == r.branch
           base == gens[r.base]
           doc == r.doc
           start == r.start
           files == base.files
<1>1. /\ r.at = "written" /\ head[b] = r.base /\ now - start < SealLimit
      /\ gens' = Append(gens, Generation(doc, r.base, "repack", files))
      /\ head' = [head EXCEPT ![b] = Len(gens) + 1]
      /\ \/ /\ sidecar[b].number = base.number
            /\ sidecar' = [sidecar EXCEPT ![b] = Restamped(@, r)]
         \/ UNCHANGED sidecar
      /\ rewrite' = Idle
      /\ UNCHANGED <<now, packs, mtime, swept, tag, job, sweep>>
  BY DEF RepackFlip, Current
<1>2. doc \in Doc(Len(packs)) /\ start \in Nat /\ r.base \in 1..Len(gens) /\ b \in Branches
  BY <1>1 DEF RetentionTypeOK
<1>3. head[b] # NoGen
  BY <1>1, <1>2 DEF NoGen
<1>4. Follows(born, doc, gens[head[b]], start) /\ doc.number = gens[head[b]].number + 1
  BY <1>1 DEF RootsCore, DocsInv
<1>5. /\ files \subseteq r.live /\ Holding(packs, base) \cap r.live \subseteq Holding(packs, doc)
      /\ files \subseteq Holding(packs, base)
  BY <1>1, <1>2 DEF RootsCore, ContentInv, RewriteHeld, FilesHeld
<1>6. files \subseteq Holding(packs, doc)
  BY <1>5
<1>7. \A c \in Branches \ {b} : sidecar'[c] = sidecar[c]
  <2>1. DOMAIN sidecar = Branches
    BY DEF RetentionTypeOK
  <2> QED  BY <1>1, <2>1
<1>8. /\ sidecar'[b].number # 0 => SealedOn(b)
      /\ \/ sidecar'[b].number = doc.number /\ sidecar'[b].chunks \subseteq Holding(packs, doc)
         \/ sidecar'[b] = sidecar[b]
  <2>1. /\ sidecar[b].number # 0 => SealedOn(b)
        /\ sidecar[b].number = base.number => sidecar[b].chunks \subseteq Holding(packs, base)
    BY <1>1, <1>2, <1>3 DEF RootsCore, ContentInv, SidecarsHeld
  <2>2. CASE sidecar[b].number = base.number /\ sidecar' = [sidecar EXCEPT ![b] = Restamped(@, r)]
    <3>1. sidecar'[b] = Restamped(sidecar[b], r)
      BY <1>2, <2>2 DEF RetentionTypeOK
    <3>2. sidecar'[b].number = doc.number /\ sidecar'[b].chunks = sidecar[b].chunks \cap r.live
      BY <3>1 DEF Restamped
    <3>3. base.number # 0
      BY <1>2 DEF RootsCore, DocsInv
    <3> QED  BY <1>5, <2>1, <2>2, <3>2, <3>3
  <2>3. CASE UNCHANGED sidecar
    BY <2>1, <2>3
  <2> QED  BY <1>1, <2>2, <2>3
<1>9. \A c \in Branches : job'[c] \in {job[c], Idle}
  BY <1>1
<1>10. gens' = Append(gens, Generation(doc, head[b], "repack", files)) /\ start <= now
  BY <1>1 DEF RootsCore, DocsInv
<1> HIDE DEF doc, start, files, base, b
<1> QED  BY <1>1, <1>2, <1>3, <1>4, <1>6, <1>7, <1>8, <1>9, <1>10, Flips

-----------------------------------------------------------------------------
(* Branches and tags.                                                      *)

(* A branch is cut: its generation lists what the source lists, and no     *)
(* writer has a sidecar for it yet.                                        *)
LEMMA CutBranchSpares ==
    ASSUME NEW safe \in Passes,
           RetentionTypeOK, RootsCore(safe), SweepUndisturbed(safe), SweepUndisturbed(safe)',
           NEW b \in Branches, NEW from \in Branches, CutBranch(b, from)
    PROVE  RootsCore(safe)'
<1> DEFINE pin == <<b, "fork">>
           source == gens[head[from]]
           g == Fork(source, head[from], now)
<1>1. /\ head[b] = NoGen /\ head[from] # NoGen /\ ~ SealedOn(b)
      /\ tag' = [tag EXCEPT ![pin] = head[from]]
      /\ UNCHANGED <<now, packs, mtime, swept, sidecar, job, rewrite, sweep>>
  BY DEF CutBranch, SealedOn
<1>2. \/ gens' = Append(gens, g) /\ head' = [head EXCEPT ![b] = Len(gens) + 1]
      \/ gens' = gens /\ head' = head
  BY DEF CutBranch
<1>3. /\ StoreInv /\ DocsInv /\ ContentInv /\ SweptInv /\ SweepInv(safe)
      /\ \A i \in 1..Len(gens) : Sound(born, gens[i]) /\ gens[i].number # 0
  BY DEF RootsCore, DocsInv
<1>4. /\ gens \in Seq(Gen(Len(packs))) /\ head \in [Branches -> 0..Len(gens)]
      /\ tag \in [Pins -> 0..Len(gens)] /\ Len(gens) \in Nat /\ now \in Nat
      /\ \A c \in Branches : head[c] # NoGen => head[c] \in 1..Len(gens)
      /\ source \in Gen(Len(packs))
  <2>1. /\ gens \in Seq(Gen(Len(packs))) /\ head \in [Branches -> 0..Len(gens)]
        /\ tag \in [Pins -> 0..Len(gens)] /\ now \in Nat
    BY DEF RetentionTypeOK
  <2>2. Len(gens) \in Nat /\ \A c \in Branches : head[c] # NoGen => head[c] \in 1..Len(gens)
    BY <2>1 DEF NoGen
  <2>3. source \in Gen(Len(packs))
    BY <1>1, <2>1, <2>2
  <2> QED  BY <2>1, <2>2, <2>3
<1>5. /\ g.manifests = source.manifests /\ g.files = source.files /\ g.number = source.number + 1
      /\ g.condemned = source.condemned /\ g.condemnedManifests = source.condemnedManifests
  <2>1. source \in Gen(Len(packs))
    BY <1>4
  <2> HIDE DEF source
  <2> QED  BY <2>1 DEF Fork, Generation, Gen
<1>6. source.number \in Nat
  BY <1>4 DEF Gen
<1> HIDE DEF g
<1>7. tag' \in [Pins -> Nat]
  <2>1. tag \in [Pins -> Nat] /\ head[from] \in Nat
    BY <1>1, <1>4
  <2> HIDE DEF pin
  <2> QED  BY <1>1, <2>1
<1>8. /\ Named(g) = Named(source) /\ \A ps : Holding(ps, g) = Holding(ps, source)
      /\ \A key \in Objects : Lists(g, key) = Lists(source, key) /\ Ledger(g, key) = Ledger(source, key)
  BY <1>5 DEF Named, Holding, Lists, Ledger
<1>9. Sound(born, g) /\ g.number # 0 /\ g.files \subseteq Holding(packs, g)
  <2>1. Sound(born, source) /\ source.files \subseteq Holding(packs, source)
    BY <1>1, <1>3, <1>4 DEF ContentInv, FilesHeld
  <2>2. Sound(born, g)
    BY <1>8, <2>1 DEF Sound, RowsUnlisted
  <2> QED  BY <1>5, <1>6, <1>8, <2>1, <2>2
<1> HIDE DEF source
<1>10. CASE gens' = gens /\ head' = head
  <2>1. StoreInv' /\ DocsInv' /\ ContentInv'
    <3>1. now' \in Nat /\ now <= now'
      BY <1>1, <1>4
    <3> QED  BY <1>1, <1>3, <1>4, <1>10, <3>1, Quiet
  <2>2. SweptInv' /\ SweepInv(safe)'
    <3>1. head' \in [Branches -> Nat]
      BY <1>4, <1>10
    <3>2. \A c \in Branches : head'[c] # NoGen => \E a \in Branches :
             /\ head[a] # NoGen
             /\ \A key \in Objects : Lists(gens'[head'[c]], key) = Lists(gens[head[a]], key)
      BY <1>10
    <3>3. \A t \in Pins : tag'[t] \notin {NoGen, tag[t]} =>
             \E a \in Branches : head[a] # NoGen /\ tag'[t] = head[a]
      BY <1>1, <1>4
    <3> QED  BY <1>1, <1>3, <1>10, <1>7, <3>1, <3>2, <3>3, RefsSpare
  <2> QED  BY <2>1, <2>2 DEF RootsCore
<1>11. CASE gens' = Append(gens, g) /\ head' = [head EXCEPT ![b] = Len(gens) + 1]
  <2>1. /\ StoreInv' /\ DocsInv' /\ FilesHeld' /\ JobsHeld' /\ RewriteHeld'
        /\ gens'[Len(gens) + 1] = g /\ \A i \in 1..Len(gens) : gens'[i] = gens[i]
        /\ \A c : SealedOn(c)' = SealedOn(c)
    BY <1>1, <1>3, <1>9, <1>11, Builds
  <2>2. /\ head'[b] = Len(gens) + 1 /\ gens'[head'[b]] = g
        /\ \A c \in Branches \ {b} : head'[c] = head[c] /\ (head[c] # NoGen => gens'[head[c]] = gens[head[c]])
    BY <1>4, <1>11, <2>1
  <2>3. SidecarsHeld'
    <3>1. ASSUME NEW c \in Branches
          PROVE  /\ sidecar[c].number # 0 => SealedOn(c)
                 /\ head'[c] # NoGen =>
                       /\ sidecar[c].number <= gens'[head'[c]].number
                       /\ sidecar[c].number = gens'[head'[c]].number =>
                             sidecar[c].chunks \subseteq Holding(packs, gens'[head'[c]])
      <4>1. CASE c = b
        <5>1. sidecar[b].number = 0
          BY <1>1, <1>3 DEF ContentInv, SidecarsHeld
        <5>2. 0 <= g.number
          BY <1>5, <1>6
        <5> QED  BY <1>9, <2>2, <4>1, <5>1, <5>2
      <4>2. CASE c # b
        BY <1>3, <2>2, <4>2 DEF ContentInv, SidecarsHeld
      <4> QED  BY <4>1, <4>2
    <3> QED  BY <1>1, <2>1, <3>1 DEF SidecarsHeld
  <2>4. SweptInv' /\ SweepInv(safe)'
    <3>1. head' \in [Branches -> Nat]
      <4>1. head \in [Branches -> Nat]
        BY <1>4
      <4> QED  BY <1>4, <1>11, <4>1
    <3>2. \A c \in Branches : head'[c] # NoGen => \E a \in Branches :
             /\ head[a] # NoGen
             /\ \A key \in Objects : Lists(gens'[head'[c]], key) = Lists(gens[head[a]], key)
      <4> SUFFICES ASSUME NEW c \in Branches, head'[c] # NoGen
                   PROVE  \E a \in Branches :
                             /\ head[a] # NoGen
                             /\ \A key \in Objects : Lists(gens'[head'[c]], key) = Lists(gens[head[a]], key)
        OBVIOUS
      <4>1. CASE c = b
        BY <1>1, <1>8, <2>2, <4>1 DEF source
      <4>2. CASE c # b
        BY <2>2, <4>2
      <4> QED  BY <4>1, <4>2
    <3>3. \A t \in Pins : tag'[t] \notin {NoGen, tag[t]} =>
             \E a \in Branches : head[a] # NoGen /\ tag'[t] = head[a]
      BY <1>1, <1>4
    <3>4. \A c \in Branches : head[c] = NoGen \/ head'[c] = NoGen \/ head'[c] = head[c]
      BY <1>1, <2>2
    <3> QED  BY <1>1, <1>3, <1>7, <2>1, <3>1, <3>2, <3>3, <3>4, RefsSpare
  <2> QED  BY <2>1, <2>3, <2>4 DEF RootsCore, ContentInv
<1> QED  BY <1>2, <1>10, <1>11

(* A branch is deleted, a tag is made or deleted.                          *)
LEMMA RefsChangeSpares ==
    ASSUME NEW safe \in Passes,
           RetentionTypeOK, RootsCore(safe), SweepUndisturbed(safe), SweepUndisturbed(safe)',
           UNCHANGED <<now, gens, packs, mtime, swept, sidecar, job, rewrite, sweep>>,
           head' \in [Branches -> Nat], tag' \in [Pins -> Nat],
           \A c \in Branches : head'[c] \in {head[c], NoGen},
           \A t \in Pins : tag'[t] \notin {NoGen, tag[t]} =>
              \E a \in Branches : head[a] # NoGen /\ tag'[t] = head[a]
    PROVE  RootsCore(safe)'
<1>1. StoreInv /\ DocsInv /\ ContentInv /\ SweptInv /\ SweepInv(safe)
  BY DEF RootsCore
<1>2. StoreInv' /\ DocsInv' /\ ContentInv'
  <2>1. now \in Nat /\ now' \in Nat /\ now <= now'
    BY DEF RetentionTypeOK
  <2> QED  BY <1>1, <2>1, Quiet
<1>3. SweptInv' /\ SweepInv(safe)'
  <2>1. \A c \in Branches : head'[c] # NoGen => \E a \in Branches :
           /\ head[a] # NoGen
           /\ \A key \in Objects : Lists(gens'[head'[c]], key) = Lists(gens[head[a]], key)
    OBVIOUS
  <2>2. \A c \in Branches : head[c] = NoGen \/ head'[c] = NoGen \/ head'[c] = head[c]
    OBVIOUS
  <2> QED  BY <1>1, <2>1, <2>2, RefsSpare
<1> QED  BY <1>2, <1>3 DEF RootsCore

LEMMA DeleteBranchSpares ==
    ASSUME NEW safe \in Passes,
           RetentionTypeOK, RootsCore(safe), SweepUndisturbed(safe), SweepUndisturbed(safe)',
           NEW b \in Branches, DeleteBranch(b)
    PROVE  RootsCore(safe)'
<1>1. /\ head \in [Branches -> Nat] /\ tag \in [Pins -> Nat]
      /\ head' = [head EXCEPT ![b] = NoGen] /\ tag' = tag
  BY DEF RetentionTypeOK, DeleteBranch
<1>2. head' \in [Branches -> Nat] /\ \A c \in Branches : head'[c] \in {head[c], NoGen}
  BY <1>1 DEF NoGen
<1> QED  BY <1>1, <1>2, RefsChangeSpares DEF DeleteBranch

LEMMA CreateTagSpares ==
    ASSUME NEW safe \in Passes,
           RetentionTypeOK, RootsCore(safe), SweepUndisturbed(safe), SweepUndisturbed(safe)',
           NEW b \in Branches, NEW t \in Tags, CreateTag(t, b)
    PROVE  RootsCore(safe)'
<1>1. /\ head \in [Branches -> Nat] /\ tag \in [Pins -> Nat] /\ head[b] # NoGen
      /\ tag' = [tag EXCEPT ![t] = head[b]] /\ head' = head
  BY DEF RetentionTypeOK, CreateTag
<1>2. /\ tag' \in [Pins -> Nat]
      /\ \A p \in Pins : tag'[p] \notin {NoGen, tag[p]} =>
            \E a \in Branches : head[a] # NoGen /\ tag'[p] = head[a]
  BY <1>1
<1> QED  BY <1>1, <1>2, RefsChangeSpares DEF CreateTag

LEMMA DeleteTagSpares ==
    ASSUME NEW safe \in Passes,
           RetentionTypeOK, RootsCore(safe), SweepUndisturbed(safe), SweepUndisturbed(safe)',
           NEW t \in Pins, DeleteTag(t)
    PROVE  RootsCore(safe)'
<1>1. /\ head \in [Branches -> Nat] /\ tag \in [Pins -> Nat]
      /\ tag' = [tag EXCEPT ![t] = NoGen] /\ head' = head
  BY DEF RetentionTypeOK, DeleteTag
<1>2. /\ tag' \in [Pins -> Nat]
      /\ \A p \in Pins : tag'[p] \notin {NoGen, tag[p]} =>
            \E a \in Branches : head[a] # NoGen /\ tag'[p] = head[a]
  BY <1>1 DEF NoGen
<1> QED  BY <1>1, <1>2, RefsChangeSpares DEF DeleteTag

(* Every step, while no sweep is disturbed.                                *)
LEMMA StepSpares ==
    ASSUME NEW safe \in Passes,
           SealLimit <= Grace, RetentionTypeOK, RootsCore(safe), SweepUndisturbed(safe), SweepUndisturbed(safe)', [Next]_vars
    PROVE  RootsCore(safe)'
<1>1. ASSUME NEW b \in Branches, Publish(b) PROVE RootsCore(safe)'
  BY <1>1, SealUploadSpares, SealFlipSpares, SealEndsSpares DEF Publish
<1>2. ASSUME Repack PROVE RootsCore(safe)'
  <2>1. ASSUME NEW b \in Repacked, RepackPlan(b) PROVE RootsCore(safe)'
    BY <2>1, RepackPlanSpares, RetentionAssumption
  <2> QED  BY <1>2, <2>1, RepackWriteSpares, RepackFlipSpares, RepackEndsSpares DEF Repack
<1>3. ASSUME GC PROVE RootsCore(safe)'
  BY <1>3, SweepStartSpares, SweepTagsSpares, SweepScanSpares, SweepSpareSpares, SweepDeleteSpares,
     SweepStopsSpares, SweepBranchSpares, SweepTagSpares DEF GC
<1>4. CASE UNCHANGED vars
  <2>1. \A c \in Branches : job'[c] \in {job[c], Idle}
    BY <1>4 DEF vars
  <2> QED  BY <1>4, <2>1, WorkSpares DEF vars
<1>5. ASSUME NEW b \in Deletable, DeleteBranch(b) PROVE RootsCore(safe)'
  BY <1>5, DeleteBranchSpares, RetentionAssumption
<1>6. ASSUME NEW b \in Branches, NEW from \in Branches, CutBranch(b, from) PROVE RootsCore(safe)'
  BY <1>6, CutBranchSpares
<1>7. ASSUME NEW b \in Branches, NEW t \in Tags, CreateTag(t, b) PROVE RootsCore(safe)'
  BY <1>7, CreateTagSpares
<1>8. ASSUME NEW t \in Pins, DeleteTag(t) PROVE RootsCore(safe)'
  BY <1>8, DeleteTagSpares
<1> QED  BY <1>1, <1>2, <1>3, <1>4, <1>5, <1>6, <1>7, <1>8, TickSpares DEF Next

-----------------------------------------------------------------------------
(* The initial states.                                                     *)

(* The first generations of a volume, over what is written by then.        *)
LEMMA FirstDocuments ==
    /\ First.number = 1 /\ First.files = Chunks /\ Named(First) = {1} /\ First.manifests = {{1}}
    /\ First.condemned = {} /\ First.condemnedManifests = {}
    /\ Second.number = 2 /\ Second.files = Chunks /\ Named(Second) = {1, 2} /\ Second.manifests = {{1, 2}}
    /\ \A files : Third(files).number = 3 /\ Third(files).files = files /\ Named(Third(files)) = {1, 2, 3}
    /\ First.parent = NoGen /\ Second.parent = 1 /\ \A files : Third(files).parent = 2
    /\ First.created = 1 /\ Second.created = 1 /\ \A files : Third(files).created = 1
    /\ \A w :
          (\A key \in Objects : \A x \in DOMAIN w[key] : w[key][x] = 1) =>
             /\ {1, 2} \subseteq DOMAIN w["packs"] /\ {{1}, {1, 2}} \subseteq DOMAIN w["manifests"] =>
                   Sound(w, First) /\ Follows(w, Second, First, 1)
             /\ {1, 2, 3} \subseteq DOMAIN w["packs"] /\ {{1}, {1, 2}, {3}} \subseteq DOMAIN w["manifests"] =>
                   \A files : Follows(w, Third(files), Second, 1)
<1>1. /\ First.number = 1 /\ First.files = Chunks /\ Named(First) = {1} /\ First.manifests = {{1}}
      /\ First.condemned = {} /\ First.condemnedManifests = {}
      /\ First.parent = NoGen /\ First.created = 1
  BY DEF First, Generation, Named
<1> DEFINE two == Document(First, 2, Trunk, {{1, 2}}, {}, 1)
           three == Document(Second, 3, Trunk, {{1, 2}, {3}}, {}, 1)
<1>2. two.number = 2 /\ two.created = 1 /\ Named(two) = {1, 2} /\ two.manifests = {{1, 2}}
  BY DEF Document, Named
<1>3. three.number = 3 /\ three.created = 1 /\ Named(three) = {1, 2, 3} /\ three.manifests = {{1, 2}, {3}}
  BY DEF Document, Named
<1>4. Second.manifests = two.manifests
  BY DEF Second, Generation
<1>5. Second = Generation(two, 1, "seal", Chunks) /\ \A files : Third(files) = Generation(three, 2, "seal", files)
  BY DEF Second, Third
<1> HIDE DEF two, three
<1>6. /\ Second.number = 2 /\ Second.files = Chunks /\ Named(Second) = {1, 2} /\ Second.manifests = {{1, 2}}
      /\ Second.parent = 1 /\ Second.created = 1
      /\ \A w, base, start : Follows(w, two, base, start) => Follows(w, Second, base, start)
  BY <1>2, <1>4, <1>5, GenerationLists
<1>7. \A files : /\ Third(files).number = 3 /\ Third(files).files = files /\ Named(Third(files)) = {1, 2, 3}
                 /\ Third(files).parent = 2 /\ Third(files).created = 1
                 /\ \A w, base, start : Follows(w, three, base, start) => Follows(w, Third(files), base, start)
  BY <1>3, <1>5, GenerationLists
<1>8. ASSUME NEW w, \A key \in Objects : \A x \in DOMAIN w[key] : w[key][x] = 1,
             {1, 2} \subseteq DOMAIN w["packs"], {{1}, {1, 2}} \subseteq DOMAIN w["manifests"]
      PROVE  Sound(w, First) /\ Follows(w, Second, First, 1)
  <2>1. RowsUnlisted(First)
    BY <1>1 DEF RowsUnlisted, Ledger
  <2>2. Sound(w, First)
    BY <1>1, <1>8, <2>1 DEF Sound, Lists, Objects
  <2> DEFINE manifests == {{1, 2}}
  <2>3. UNION manifests = {1, 2} /\ manifests \subseteq DOMAIN w["manifests"]
    BY <1>8
  <2>4. /\ \A x \in DOMAIN w["packs"] : w["packs"][x] >= 1
        /\ \A x \in DOMAIN w["manifests"] : w["manifests"][x] >= 1
    BY <1>8 DEF Objects
  <2>5. Follows(w, two, First, 1)
    <3>1. two = Document(First, 2, Trunk, manifests, {}, 1)
      BY DEF two
    <3> HIDE DEF manifests
    <3>2. Named(First) \subseteq (UNION manifests) \cup {} /\ UNION manifests \subseteq DOMAIN w["packs"]
      BY <1>1, <1>8, <2>3
    <3>3. /\ \A x \in (UNION manifests) \ Named(First) : w["packs"][x] >= 1
          /\ \A x \in manifests \ First.manifests : w["manifests"][x] >= 1
      BY <2>3, <2>4, <3>2
    <3> QED  BY <2>1, <2>3, <3>1, <3>2, <3>3, DocumentFollows, 1 \in Nat
  <2> QED  BY <1>6, <2>2, <2>5
<1>9. ASSUME NEW w, \A key \in Objects : \A x \in DOMAIN w[key] : w[key][x] = 1,
             {1, 2, 3} \subseteq DOMAIN w["packs"], {{1}, {1, 2}, {3}} \subseteq DOMAIN w["manifests"],
             NEW files
      PROVE  Follows(w, Third(files), Second, 1)
  <2>1. RowsUnlisted(Second)
    <3>1. {1, 2} \subseteq DOMAIN w["packs"] /\ {{1}, {1, 2}} \subseteq DOMAIN w["manifests"]
      BY <1>9
    <3>2. Sound(w, Second)
      BY <1>8, <1>9, <3>1 DEF Follows
    <3> QED  BY <3>2 DEF Sound
  <2> DEFINE manifests == {{1, 2}, {3}}
  <2>2. UNION manifests = {1, 2, 3} /\ manifests \subseteq DOMAIN w["manifests"]
    BY <1>9
  <2>3. /\ \A x \in DOMAIN w["packs"] : w["packs"][x] >= 1
        /\ \A x \in DOMAIN w["manifests"] : w["manifests"][x] >= 1
    BY <1>9 DEF Objects
  <2>4. Follows(w, three, Second, 1)
    <3>1. three = Document(Second, 3, Trunk, manifests, {}, 1)
      BY DEF three
    <3> HIDE DEF manifests
    <3>2. Named(Second) \subseteq (UNION manifests) \cup {} /\ UNION manifests \subseteq DOMAIN w["packs"]
      BY <1>6, <1>9, <2>2
    <3>3. /\ \A x \in (UNION manifests) \ Named(Second) : w["packs"][x] >= 1
          /\ \A x \in manifests \ Second.manifests : w["manifests"][x] >= 1
      BY <2>2, <2>3, <3>2
    <3> QED  BY <2>1, <2>2, <3>1, <3>2, <3>3, DocumentFollows, 1 \in Nat
  <2> QED  BY <1>7, <2>4
<1> QED  BY <1>1, <1>6, <1>7, <1>8, <1>9

LEMMA InitSpares ==
    ASSUME NEW safe \in Passes, Init PROVE RootsCore(safe) /\ LinesFollow
<1>1. PICK files \in SUBSET Chunks :
        gens = IF Forked THEN <<First, Second, Fork(First, 1, 1)>>
               ELSE <<First, Second, Third(files)>>
  BY DEF Init
<1> DEFINE one == [chunks |-> Chunks, backups |-> {}, born |-> 1]
           holding(doc) == [chunks |-> {}, backups |-> {doc}, born |-> 1]
           last == IF Forked THEN 2 ELSE 3
<1>2. /\ now = 1 /\ swept = Nothing /\ rewrite = Idle /\ sweep = Idle
      /\ job = [b \in Branches |-> Idle]
      /\ mtime = [m \in {{1}, {1, 2}} \cup (IF Forked THEN {} ELSE {{3}}) |-> 1]
      /\ packs = IF Forked THEN <<one, holding(Backup(First, Trunk, 1))>>
                 ELSE <<one, holding(Backup(First, Trunk, 1)), holding(Backup(Second, Trunk, 1))>>
      /\ sidecar = [b \in Branches |->
                      IF b # Trunk THEN [number |-> 0, chunks |-> {}] ELSE [number |-> last, chunks |-> Chunks]]
      /\ head[Trunk] = last /\ \A b \in Branches : head[b] # NoGen => head[b] \in 1..3
  BY RetentionAssumption DEF Init, NoGen
<1>3. /\ Len(packs) = last /\ packs[1] = one /\ packs[2] = holding(Backup(First, Trunk, 1))
      /\ \A p \in 1..Len(packs) : packs[p].born = 1
  <2>1. 1..2 = {1, 2} /\ 1..3 = {1, 2, 3}
    OBVIOUS
  <2>2. CASE Forked
    <3> DEFINE p1 == one
               p2 == holding(Backup(First, Trunk, 1))
    <3>1. packs = <<p1, p2>> /\ last = 2 /\ p1.born = 1 /\ p2.born = 1
      BY <1>2, <2>2
    <3> HIDE DEF p1, p2
    <3>2. Len(packs) = 2 /\ packs[1] = p1 /\ packs[2] = p2
      BY <3>1
    <3> QED  BY <2>1, <3>1, <3>2 DEF p1, p2
  <2>3. CASE ~ Forked
    <3> DEFINE p1 == one
               p2 == holding(Backup(First, Trunk, 1))
               p3 == holding(Backup(Second, Trunk, 1))
    <3>1. packs = <<p1, p2, p3>> /\ last = 3 /\ p1.born = 1 /\ p2.born = 1 /\ p3.born = 1
      BY <1>2, <2>3
    <3> HIDE DEF p1, p2, p3
    <3>2. Len(packs) = 3 /\ packs[1] = p1 /\ packs[2] = p2 /\ packs[3] = p3
      BY <3>1
    <3> QED  BY <2>1, <3>1, <3>2 DEF p1, p2, p3
  <2> QED  BY <2>2, <2>3
<1>4. packs[1].chunks = Chunks /\ SealedOn(Trunk)
  <2>1. packs[1].chunks = Chunks /\ packs[2].backups = {Backup(First, Trunk, 1)} /\ 2 \in 1..Len(packs)
    BY <1>3
  <2>2. Backup(First, Trunk, 1).branch = Trunk
    BY DEF Backup, Document
  <2> QED  BY <2>1, <2>2 DEF SealedOn
<1>5. /\ \A key \in Objects : \A x \in DOMAIN born[key] : born[key][x] = 1
      /\ DOMAIN born["packs"] = 1..last
      /\ DOMAIN born["manifests"] = {{1}, {1, 2}} \cup (IF Forked THEN {} ELSE {{3}})
  <2> DEFINE names == {{1}, {1, 2}} \cup (IF Forked THEN {} ELSE {{3}})
  <2>1. DOMAIN born["packs"] = 1..last /\ \A p \in 1..last : born["packs"][p] = 1
    BY <1>3, Born
  <2>2. DOMAIN born["manifests"] = names /\ \A m \in names : born["manifests"][m] = 1
    <3>1. mtime = [m \in names |-> 1]
      BY <1>2
    <3> HIDE DEF names
    <3> QED  BY <3>1, Born
  <2> HIDE DEF last, names
  <2>3. \A key \in Objects : \A x \in DOMAIN born[key] : born[key][x] = 1
    <3>1. \A x \in DOMAIN born["packs"] : born["packs"][x] = 1
      BY <2>1
    <3>2. \A x \in DOMAIN born["manifests"] : born["manifests"][x] = 1
      BY <2>2
    <3> QED  BY <3>1, <3>2 DEF Objects
  <2> QED  BY <2>1, <2>2, <2>3 DEF names
<1> HIDE DEF one, holding
<1> DEFINE third == gens[3]
<1>6. gens = <<First, Second, third>> /\ third = IF Forked THEN Fork(First, 1, 1) ELSE Third(files)
  BY <1>1
<1>7. Len(gens) = 3 /\ gens[1] = First /\ gens[2] = Second /\ 1..Len(gens) = {1, 2, 3}
  <2> HIDE DEF third
  <2>1. Len(gens) = 3 /\ gens[1] = First /\ gens[2] = Second
    BY <1>6
  <2> QED  BY <2>1
<1> HIDE DEF third
<1>8. /\ Sound(born, First) /\ Sound(born, Second) /\ Sound(born, third)
      /\ Follows(born, Second, First, 1) /\ third.created = 1
      /\ \/ third.parent = 1 /\ Follows(born, third, First, 1)
         \/ third.parent = 2 /\ Follows(born, third, Second, 1)
      /\ 1 \in Named(First) /\ 1 \in Named(Second) /\ 1 \in Named(third)
      /\ third.number \in Nat \ {0} /\ third.files \subseteq Chunks /\ (~ Forked => third.number = 3)
  <2>1. /\ 1..last = IF Forked THEN {1, 2} ELSE {1, 2, 3}
        /\ {1, 2} \subseteq DOMAIN born["packs"] /\ {{1}, {1, 2}} \subseteq DOMAIN born["manifests"]
    <3>1. 1..2 = {1, 2} /\ 1..3 = {1, 2, 3}
      OBVIOUS
    <3>2. 1..last = IF Forked THEN {1, 2} ELSE {1, 2, 3}
      BY <3>1
    <3>3. {1, 2} \subseteq 1..last
      BY <3>2
    <3> HIDE DEF last
    <3> QED  BY <1>5, <3>2, <3>3
  <2>2. Sound(born, First) /\ Follows(born, Second, First, 1) /\ Sound(born, Second)
    BY <1>5, <2>1, FirstDocuments DEF Follows
  <2>3. CASE Forked
    <3>1. third = Fork(First, 1, 1)
      BY <1>6, <2>3
    <3>2. /\ third.manifests = First.manifests /\ third.number = First.number + 1 /\ third.files = First.files
          /\ third.condemned = First.condemned /\ third.condemnedManifests = First.condemnedManifests
          /\ third.parent = 1 /\ third.created = 1
      <4>1. First \in Gen(1)
        BY FirstTypes
      <4> QED  BY <3>1, <4>1 DEF Fork, Generation, Gen
    <3>3. Named(third) = Named(First) /\ Sound(born, third) = Sound(born, First)
      BY <3>2 DEF Named, Sound, RowsUnlisted, Lists, Ledger
    <3>4. \A key \in Objects : Lists(third, key) = Lists(First, key) /\ Ledger(third, key) = Ledger(First, key)
      BY <3>2, <3>3 DEF Lists, Ledger
    <3>5. Follows(born, third, First, 1)
      BY <2>2, <3>3, <3>4 DEF Follows
    <3> QED  BY <2>2, <2>3, <3>2, <3>3, <3>5, FirstDocuments
  <2>4. CASE ~ Forked
    <3>1. third = Third(files)
      BY <1>6, <2>4
    <3>2. {1, 2, 3} \subseteq DOMAIN born["packs"] /\ {{1}, {1, 2}, {3}} \subseteq DOMAIN born["manifests"]
      BY <1>5, <2>1, <2>4
    <3>3. Follows(born, Third(files), Second, 1) /\ Sound(born, Third(files))
      BY <1>5, <3>2, FirstDocuments DEF Follows
    <3> QED  BY <2>2, <2>4, <3>1, <3>3, FirstDocuments
  <2> QED  BY <2>3, <2>4
<1>9. /\ \A g \in 1..Len(gens) : /\ gens[g].number \in Nat \ {0} /\ Sound(born, gens[g])
                                 /\ gens[g].files \subseteq Chunks /\ Chunks \subseteq Holding(packs, gens[g])
      /\ gens[last].number = last /\ last \in 1..Len(gens) /\ last \in Nat \ {0}
  <2>1. gens[3] = third
    BY DEF third
  <2>2. \A d : 1 \in Named(d) => Chunks \subseteq Holding(packs, d)
    BY <1>4 DEF Holding
  <2>3. \A g \in 1..Len(gens) : gens[g] \in {First, Second, third}
    BY <1>7, <2>1
  <2>4. \A d \in {First, Second, third} :
           d.number \in Nat \ {0} /\ Sound(born, d) /\ d.files \subseteq Chunks /\ 1 \in Named(d)
    BY <1>8, FirstDocuments
  <2>5. gens[last].number = last
    BY <1>7, <1>8, <2>1, FirstDocuments
  <2> QED  BY <1>7, <2>2, <2>3, <2>4, <2>5
<1>10. Idle.at = "idle"
  BY DEF Idle
<1>11. StoreInv
  <2>1. \A m \in DOMAIN mtime : m \subseteq 1..Len(packs)
    BY <1>2, <1>3
  <2> QED  BY <1>2, <1>5, <2>1 DEF StoreInv
<1>12. DocsInv
  BY <1>2, <1>9, <1>10 DEF DocsInv
<1>13. ContentInv
  <2>1. FilesHeld /\ JobsHeld /\ RewriteHeld
    BY <1>2, <1>9, <1>10 DEF FilesHeld, JobsHeld, RewriteHeld
  <2>2. ASSUME NEW b \in Branches
        PROVE  /\ sidecar[b].number # 0 => SealedOn(b)
               /\ head[b] # NoGen =>
                     /\ sidecar[b].number <= gens[head[b]].number
                     /\ sidecar[b].number = gens[head[b]].number =>
                           sidecar[b].chunks \subseteq Holding(packs, gens[head[b]])
    <3>1. CASE b = Trunk
      <4>1. sidecar[b].number = last /\ sidecar[b].chunks = Chunks /\ head[b] = last
        BY <1>2, <3>1
      <4> HIDE DEF last
      <4> QED  BY <1>4, <1>9, <3>1, <4>1
    <3>2. CASE b # Trunk
      <4>1. sidecar[b].number = 0 /\ (head[b] # NoGen => head[b] \in 1..Len(gens))
        BY <1>2, <1>7, <3>2
      <4> QED  BY <1>9, <4>1
    <3> QED  BY <3>1, <3>2
  <2> QED  BY <2>1, <2>2 DEF ContentInv, SidecarsHeld
<1>14. SweptInv
  BY <1>2 DEF SweptInv, Nothing, Objects
<1>15. SweepInv(safe)
  BY <1>2, <1>10 DEF SweepInv, SweepShape, BranchesFound, TagsFound, DoomedUnnamed, Unnamed, Decided
<1>16. LinesFollow
  <2>1. gens[3] = third
    BY DEF third
  <2>2. ASSUME NEW g \in 1..Len(gens)
        PROVE  /\ gens[g].parent \in 0..(g - 1) /\ gens[g].created = 1
               /\ gens[g].parent # NoGen =>
                     gens[gens[g].parent].created = 1 /\ Follows(born, gens[g], gens[gens[g].parent], 1)
    <3>1. CASE g = 1
      BY <1>7, <3>1, FirstDocuments DEF NoGen
    <3>2. CASE g = 2
      BY <1>7, <1>8, <3>2, FirstDocuments
    <3>3. CASE g = 3
      BY <1>7, <1>8, <2>1, <3>3, FirstDocuments
    <3> QED  BY <1>7, <3>1, <3>2, <3>3
  <2> QED  BY <1>2, <1>10, <2>2 DEF LinesFollow
<1> QED  BY <1>11, <1>12, <1>13, <1>14, <1>15, <1>16 DEF RootsCore

-----------------------------------------------------------------------------
(* Results.                                                                *)

(* What is known when the first pass of every sweep is safe, or the second, *)
(* keeps every root readable, holds at first and is kept.                  *)
LEMMA InvReads ==
    ASSUME NEW safe \in Passes, RootsInv(safe)
    PROVE  RootsReadable
<1> SUFFICES ASSUME NEW g \in Roots PROVE Readable(g)
  BY DEF RootsReadable
<1>1. g \in 1..Len(gens)
  BY DEF RootsInv, LedgerInv, RetentionTypeOK, Roots, Heads, NoGen
<1>2. gens[g].files \subseteq Holding(packs, gens[g])
  BY <1>1 DEF RootsInv, ContentInv, FilesHeld
<1>3. Named(gens[g]) \cap swept["packs"] = {} /\ gens[g].manifests \cap swept["manifests"] = {}
  BY DEF RootsInv, SweptInv, Objects, Lists
<1>4. Named(gens[g]) \ swept.packs = Named(gens[g])
  BY <1>3
<1> QED  BY <1>2, <1>3, <1>4 DEF Readable, Holding

LEMMA InitInv ==
    ASSUME NEW safe \in Passes, Init
    PROVE  RootsInv(safe)
BY InitTypes, InitSpares DEF RootsInv, RootsCore

LEMMA StepInv ==
    ASSUME NEW safe \in Passes, SealLimit <= Grace, RootsInv(safe),
           SweepUndisturbed(safe), SweepUndisturbed(safe)', [Next]_vars
    PROVE  RootsInv(safe)'
<1>1. LedgerInv /\ RetentionTypeOK /\ RootsCore(safe)
  BY DEF RootsInv, RootsCore, LedgerInv
<1>2. LedgerInv'
  BY <1>1, StepKeeps
<1>3. RootsCore(safe)'
  BY <1>1, StepSpares
<1> QED  BY <1>2, <1>3 DEF RootsInv, RootsCore

(* Every root can be served whole, whatever is sealed, merged, repacked    *)
(* and swept at the same time, when the age guard of the sweep covers a    *)
(* publish and one of the two passes of the sweep is not outrun by the     *)
(* branches it has yet to read.                                            *)
THEOREM RootsStay ==
    ASSUME SealLimit <= Grace
    PROVE  Spec /\ ([]SweepUndisturbed(1) \/ []SweepUndisturbed(2)) => []RootsReadable
<1>0. 1 \in Passes /\ 2 \in Passes
  BY DEF Passes
<1>1. /\ RootsInv(1) => RootsReadable
      /\ RootsInv(2) => RootsReadable
  BY <1>0, InvReads
<1>2. /\ Init => RootsInv(1)
      /\ Init => RootsInv(2)
  BY <1>0, InitInv
<1>3. /\ RootsInv(1) /\ SweepUndisturbed(1) /\ SweepUndisturbed(1)' /\ [Next]_vars => RootsInv(1)'
      /\ RootsInv(2) /\ SweepUndisturbed(2) /\ SweepUndisturbed(2)' /\ [Next]_vars => RootsInv(2)'
  BY <1>0, StepInv
<1> QED  BY <1>1, <1>2, <1>3, PTL DEF Spec

-----------------------------------------------------------------------------
(* Lines of parents.                                                       *)

(* Induction up to a number, over a set.                                   *)
LEMMA UpTo ==
    ASSUME NEW N \in Nat, NEW S, 0 \in S, \A k \in 0..(N - 1) : k \in S => k + 1 \in S
    PROVE  \A k \in 0..N : k \in S
<1> DEFINE T == {0..x : x \in 0..N \ S}
<1> SUFFICES ASSUME T # {} PROVE FALSE
  OBVIOUS
<1>1. T \subseteq FiniteSubsetsOf(Nat)
  <2>1. \A x \in 0..N : 0..x \subseteq Nat /\ IsFiniteSet(0..x)
    BY FS_Interval
  <2> QED  BY <2>1 DEF FiniteSubsetsOf
<1>2. PICK A \in T : \A B \in T : ~(<<B, A>> \in StrictSubsetOrdering(Nat))
  <2>1. IsWellFoundedOn(StrictSubsetOrdering(Nat), FiniteSubsetsOf(Nat))
    BY FS_StrictSubsetOrderingWellFounded
  <2> HIDE DEF T
  <2> QED  BY <1>1, <2>1, WFMin
<1>3. PICK x \in 0..N \ S : A = 0..x
  BY <1>2
<1>4. x > 0 /\ x - 1 \in 0..(N - 1) /\ x - 1 + 1 = x
  BY <1>3
<1>5. x - 1 \in 0..N \ S
  BY <1>3, <1>4
<1>6. 0..(x - 1) \in T
  BY <1>5
<1>7. 0..(x - 1) \in SUBSET Nat /\ 0..x \in SUBSET Nat /\ 0..(x - 1) \subseteq 0..x
      /\ x \in 0..x /\ x \notin 0..(x - 1)
  BY <1>3, <1>4
<1> HIDE DEF T
<1>8. <<0..(x - 1), 0..x>> \in StrictSubsetOrdering(Nat)
  BY <1>7 DEF StrictSubsetOrdering
<1> QED  BY <1>2, <1>3, <1>6, <1>8

(* The lines of the generations "gs", up to the n-th of them.              *)
LinesTo(f, gs, n) == f = [g \in 0..n |-> IF g = NoGen THEN {} ELSE {g} \cup f[gs[g].parent]]

Elder(gs) == Len(gs) \in Nat /\ \A g \in 1..Len(gs) : gs[g].parent \in 0..(g - 1)

(* Parents come before their children, so that there are such lines,       *)
LEMMA HasLines ==
    ASSUME NEW gs, Elder(gs)
    PROVE  \E f : LinesTo(f, gs, Len(gs))
<1> DEFINE N == Len(gs)
           S == {n \in 0..N : \E f : LinesTo(f, gs, n)}
<1>1. N \in Nat /\ \A g \in 1..N : gs[g].parent \in 0..(g - 1)
  BY DEF Elder
<1> HIDE DEF N
<1>2. 0 \in S
  <2> DEFINE h == [g \in 0..0 |-> {}]
  <2>1. LinesTo(h, gs, 0)
    <3>1. \A g \in 0..0 : g = NoGen
      BY DEF NoGen
    <3> QED  BY <3>1 DEF LinesTo
  <2>2. \E f : LinesTo(f, gs, 0)
    BY <2>1
  <2> QED  BY <1>1, <2>2
<1>3. ASSUME NEW n \in 0..(N - 1), n \in S PROVE n + 1 \in S
  <2>1. PICK f : LinesTo(f, gs, n)
    BY <1>3
  <2> DEFINE h == [g \in 0..(n + 1) |-> IF g = n + 1 THEN {g} \cup f[gs[g].parent] ELSE f[g]]
  <2>2. ASSUME NEW g \in 0..(n + 1)
        PROVE  h[g] = IF g = NoGen THEN {} ELSE {g} \cup h[gs[g].parent]
    <3>1. CASE g = NoGen
      <4>1. h[g] = f[g] /\ g \in 0..n
        BY <1>1, <3>1 DEF NoGen
      <4> QED  BY <2>1, <3>1, <4>1 DEF LinesTo
    <3>2. CASE g # NoGen
      <4>1. g \in 1..N /\ gs[g].parent \in 0..(g - 1)
        BY <1>1, <3>2 DEF NoGen
      <4>2. gs[g].parent \in 0..n /\ gs[g].parent # n + 1
        BY <1>1, <4>1
      <4>3. h[gs[g].parent] = f[gs[g].parent]
        BY <4>2
      <4>4. CASE g = n + 1
        BY <3>2, <4>3, <4>4
      <4>5. CASE g # n + 1
        <5>1. g \in 0..n /\ h[g] = f[g]
          BY <4>5
        <5>2. f[g] = {g} \cup f[gs[g].parent]
          BY <2>1, <3>2, <5>1 DEF LinesTo
        <5> HIDE DEF h
        <5> QED  BY <3>2, <4>3, <5>1, <5>2
      <4> QED  BY <4>4, <4>5
    <3> QED  BY <3>1, <3>2
  <2>3. h = [g \in 0..(n + 1) |-> h[g]]
    OBVIOUS
  <2> HIDE DEF h
  <2>4. LinesTo(h, gs, n + 1)
    BY <2>2, <2>3 DEF LinesTo
  <2>5. n + 1 \in 0..N
    BY <1>1
  <2> QED  BY <2>4, <2>5
<1>4. N \in S
  <2> HIDE DEF S
  <2>1. N \in Nat /\ N \in 0..N
    BY <1>1
  <2>2. \A k \in 0..(N - 1) : k \in S => k + 1 \in S
    BY <1>3
  <2>3. \A k \in 0..N : k \in S
    BY <1>2, <2>1, <2>2, UpTo
  <2> QED  BY <2>1, <2>3
<1> QED  BY <1>4 DEF N

(* a line is a generation and the line of its parent,                      *)
LEMMA LineStep ==
    ASSUME NEW gs, Elder(gs), NEW f, LinesTo(f, gs, Len(gs))
    PROVE  f[NoGen] = {} /\ \A g \in 1..Len(gs) : f[g] = {g} \cup f[gs[g].parent]
<1>1. \A g \in 1..Len(gs) : g \in 0..Len(gs) /\ g # NoGen
  BY DEF Elder, NoGen
<1>2. NoGen \in 0..Len(gs)
  BY DEF Elder, NoGen
<1> QED  BY <1>1, <1>2 DEF LinesTo

(* of generations no younger than it,                                      *)
LEMMA LineBounds ==
    ASSUME NEW gs, Elder(gs), NEW f, LinesTo(f, gs, Len(gs))
    PROVE  \A g \in 1..Len(gs) : f[g] \subseteq 1..g
<1> DEFINE N == Len(gs)
           S == {n \in 0..N : \A g \in 1..n : f[g] \subseteq 1..g}
<1>1. N \in Nat /\ \A g \in 1..N : gs[g].parent \in 0..(g - 1)
  BY DEF Elder
<1>2. f[0] = {} /\ \A g \in 1..N : f[g] = {g} \cup f[gs[g].parent]
  BY LineStep DEF NoGen
<1> HIDE DEF N
<1>3. 0 \in S
  BY <1>1
<1>4. ASSUME NEW n \in 0..(N - 1), n \in S PROVE n + 1 \in S
  <2>1. n + 1 \in 1..N /\ n + 1 \in 0..N
    BY <1>1
  <2>2. f[gs[n + 1].parent] \subseteq 1..n
    <3>1. gs[n + 1].parent \in 0..n
      BY <1>1, <2>1
    <3> DEFINE h == gs[n + 1].parent
    <3>2. CASE h = 0
      BY <1>2, <3>2
    <3>3. CASE h # 0
      <4> HIDE DEF h
      <4>1. h \in 1..n
        BY <3>1, <3>3 DEF h
      <4>2. f[h] \subseteq 1..h /\ 1..h \subseteq 1..n
        BY <1>4, <4>1
      <4> QED  BY <4>2 DEF h
    <3> QED  BY <3>2, <3>3
  <2>3. f[n + 1] = {n + 1} \cup f[gs[n + 1].parent]
    BY <1>2, <2>1
  <2>4. 1..n \subseteq 1..(n + 1) /\ n + 1 \in 1..(n + 1)
    OBVIOUS
  <2>5. f[n + 1] \subseteq 1..(n + 1)
    BY <2>2, <2>3, <2>4
  <2>6. \A g \in 1..(n + 1) : g \in 1..n \/ g = n + 1
    OBVIOUS
  <2> QED  BY <1>4, <2>1, <2>5, <2>6
<1>5. N \in S
  <2> HIDE DEF S
  <2>1. N \in Nat /\ N \in 0..N
    BY <1>1
  <2>2. \A k \in 0..(N - 1) : k \in S => k + 1 \in S
    BY <1>4
  <2>3. \A k \in 0..N : k \in S
    BY <1>3, <2>1, <2>2, UpTo
  <2> QED  BY <2>1, <2>3
<1> QED  BY <1>5 DEF N

(* and stays what it is when more generations are built.                   *)
LEMMA LineStays ==
    ASSUME NEW gs, Elder(gs), NEW f, LinesTo(f, gs, Len(gs)),
           NEW hs, Elder(hs), NEW h, LinesTo(h, hs, Len(hs)),
           Len(gs) <= Len(hs), \A g \in 1..Len(gs) : hs[g] = gs[g]
    PROVE  \A g \in 0..Len(gs) : h[g] = f[g]
<1> DEFINE N == Len(gs)
           S == {n \in 0..N : \A g \in 0..n : h[g] = f[g]}
<1>1. N \in Nat /\ Len(hs) \in Nat /\ N <= Len(hs) /\ \A g \in 1..N : gs[g].parent \in 0..(g - 1)
  BY DEF Elder
<1>2. f[0] = {} /\ h[0] = {}
  BY LineStep DEF NoGen
<1>3. \A g \in 1..N : f[g] = {g} \cup f[gs[g].parent] /\ h[g] = {g} \cup h[gs[g].parent]
  <2>1. \A g \in 1..N : f[g] = {g} \cup f[gs[g].parent]
    BY LineStep
  <2>2. \A g \in 1..Len(hs) : h[g] = {g} \cup h[hs[g].parent]
    BY LineStep
  <2>3. 1..N \subseteq 1..Len(hs)
    BY <1>1
  <2> QED  BY <2>1, <2>2, <2>3
<1> HIDE DEF N
<1>4. 0 \in S
  <2>1. \A g \in 0..0 : g = 0
    OBVIOUS
  <2>2. \A g \in 0..0 : h[g] = f[g]
    BY <1>2, <2>1
  <2>3. 0 \in 0..N
    BY <1>1
  <2> QED  BY <2>2, <2>3
<1>5. ASSUME NEW n \in 0..(N - 1), n \in S PROVE n + 1 \in S
  <2>1. n + 1 \in 1..N /\ n + 1 \in 0..N
    BY <1>1
  <2>2. gs[n + 1].parent \in 0..n
    BY <1>1, <2>1
  <2>3. h[n + 1] = f[n + 1]
    <3>1. h[gs[n + 1].parent] = f[gs[n + 1].parent]
      BY <1>5, <2>2
    <3>2. f[n + 1] = {n + 1} \cup f[gs[n + 1].parent] /\ h[n + 1] = {n + 1} \cup h[gs[n + 1].parent]
      BY <1>3, <2>1
    <3> QED  BY <3>1, <3>2
  <2>4. \A g \in 0..(n + 1) : g \in 0..n \/ g = n + 1
    OBVIOUS
  <2> QED  BY <1>5, <2>1, <2>3, <2>4
<1>6. N \in S
  <2> HIDE DEF S
  <2>1. N \in Nat /\ N \in 0..N
    BY <1>1
  <2>2. \A k \in 0..(N - 1) : k \in S => k + 1 \in S
    BY <1>5
  <2>3. \A k \in 0..N : k \in S
    BY <1>4, <2>1, <2>2, UpTo
  <2> QED  BY <2>1, <2>3
<1> QED  BY <1>6 DEF N

(* The lines of the generations there are.                                 *)
LEMMA LineDef ==
    ASSUME Elder(gens)
    PROVE  LinesTo(Line, gens, Len(gens))
<1>1. Line = CHOOSE f : LinesTo(f, gens, Len(gens))
  BY DEF Line, LinesTo
<1>2. \E f : LinesTo(f, gens, Len(gens))
  BY HasLines
<1> QED  BY <1>1, <1>2

LEMMA LineDefNext ==
    ASSUME Elder(gens)'
    PROVE  LinesTo(Line, gens, Len(gens))'
<1> DEFINE gs == gens'
           f == Line'
<1>1. f = CHOOSE h : LinesTo(h, gs, Len(gs))
  BY DEF Line, LinesTo
<1>2. Elder(gs)
  OBVIOUS
<1> SUFFICES LinesTo(f, gs, Len(gs))
  OBVIOUS
<1> HIDE DEF gs, f
<1>3. \E h : LinesTo(h, gs, Len(gs))
  BY <1>2, HasLines
<1> QED  BY <1>1, <1>3

(* What is known of a generation's kind.                                   *)
LEMMA BuiltTypes ==
    ASSUME RetentionTypeOK
    PROVE  /\ Len(gens) \in Nat /\ now \in Nat
           /\ \A g \in 1..Len(gens) :
                 /\ gens[g] \in Gen(Len(packs)) /\ gens[g].created \in Nat
                 /\ \A key \in Objects : \A r \in Ledger(gens[g], key) : r.at \in Nat
<1>1. Len(gens) \in Nat /\ now \in Nat /\ \A g \in 1..Len(gens) : gens[g] \in Gen(Len(packs))
  BY DEF RetentionTypeOK
<1>2. \A d \in Gen(Len(packs)) : d.created \in Nat
  BY DEF Gen
<1>3. \A g \in 1..Len(gens) : \A key \in Objects : \A r \in Ledger(gens[g], key) : r.at \in Nat
  BY <1>1, Stamped
<1> QED  BY <1>1, <1>2, <1>3

(* What a generation dropped so lately that readers may still need it: the *)
(* names, with the time since when.                                        *)
Owing(gs, line, time, r, key) ==
    UNION {[name : Lists(gs[gs[g].parent], key), at : {gs[g].created}] :
              g \in {y \in line[r] : gs[y].parent # NoGen /\ time - gs[y].created < Grace}}

Owes(r, key) == Owing(gens, Line, now, r, key)

LEMMA OwingMember ==
    ASSUME NEW gs, NEW line, NEW time, NEW r, NEW key
    PROVE  /\ \A o \in Owing(gs, line, time, r, key) : \E g \in line[r] :
                 /\ gs[g].parent # NoGen /\ time - gs[g].created < Grace
                 /\ o.name \in Lists(gs[gs[g].parent], key) /\ o.at = gs[g].created
           /\ \A g \in line[r] : gs[g].parent # NoGen /\ time - gs[g].created < Grace =>
                 \A x \in Lists(gs[gs[g].parent], key) :
                    [name |-> x, at |-> gs[g].created] \in Owing(gs, line, time, r, key)
  BY DEF Owing

(* Kept by a document since "at": listed, or on its ledger.                *)
KeptSince(doc, key, x, at) ==
    x \in Lists(doc, key) \/ \E s \in Ledger(doc, key) : s.name = x /\ s.at >= at

(* What follows a base keeps what the base kept, while it is young.        *)
LEMMA KeptOn ==
    ASSUME NEW w, NEW doc, NEW base, NEW start \in Nat, NEW at \in Nat, at <= start, start - at < Grace,
           Follows(w, doc, base, start), NEW key \in Objects,
           \A s \in Ledger(base, key) : s.at \in Nat, \A s \in Ledger(doc, key) : s.at \in Nat,
           NEW x, KeptSince(base, key, x, at)
    PROVE  KeptSince(doc, key, x, at)
<1>1. Grace \in Nat
  BY RetentionAssumption
<1>2. CASE x \in Lists(base, key) /\ x \notin Lists(doc, key)
  <2>1. PICK s \in Ledger(doc, key) : s.name = x /\ s.at >= start
    BY <1>2 DEF Follows
  <2>2. s.at \in Nat
    OBVIOUS
  <2>3. s.at >= at
    BY <2>1, <2>2
  <2> QED  BY <2>1, <2>3 DEF KeptSince
<1>3. CASE \E s \in Ledger(base, key) : s.name = x /\ s.at >= at
  <2>1. PICK s \in Ledger(base, key) : s.name = x /\ s.at >= at
    BY <1>3
  <2>2. s.at \in Nat
    OBVIOUS
  <2>3. start - s.at < Grace
    BY <1>1, <2>1, <2>2
  <2>4. s.name \in Lists(doc, key) \/ s \in Ledger(doc, key)
    BY <2>3 DEF Follows
  <2> QED  BY <2>1, <2>4 DEF KeptSince
<1> QED  BY <1>2, <1>3 DEF KeptSince

LEMMA LineOrder ==
    ASSUME RetentionTypeOK, LinesFollow
    PROVE  Elder(gens) /\ Line[NoGen] = {}
           /\ \A g \in 1..Len(gens) : Line[g] = {g} \cup Line[gens[g].parent] /\ Line[g] \subseteq 1..g
<1>1. Elder(gens)
  BY BuiltTypes DEF Elder, LinesFollow
<1>2. LinesTo(Line, gens, Len(gens))
  BY <1>1, LineDef
<1> QED  BY <1>1, <1>2, LineStep, LineBounds

(* What any of a line dropped lately, its last keeps.                      *)
LEMMA LineKeeps ==
    ASSUME RetentionTypeOK, LinesFollow
    PROVE  \A r \in 1..Len(gens) : \A g \in Line[r] :
              /\ g \in 1..Len(gens) /\ gens[g].created <= gens[r].created
              /\ gens[g].parent # NoGen /\ now - gens[g].created < Grace =>
                    \A key \in Objects : \A x \in Lists(gens[gens[g].parent], key) :
                       KeptSince(gens[r], key, x, gens[g].created)
<1> DEFINE N == Len(gens)
           Kept(r, g) ==
              /\ g \in 1..N /\ gens[g].created <= gens[r].created
              /\ gens[g].parent # NoGen /\ now - gens[g].created < Grace =>
                    \A key \in Objects : \A x \in Lists(gens[gens[g].parent], key) :
                       KeptSince(gens[r], key, x, gens[g].created)
           S == {n \in 0..N : \A r \in 1..n : \A g \in Line[r] : Kept(r, g)}
<1>1. /\ N \in Nat /\ now \in Nat /\ Grace \in Nat
      /\ \A g \in 1..N :
            /\ gens[g].created \in Nat /\ gens[g].created <= now /\ gens[g].parent \in 0..(g - 1)
            /\ \A key \in Objects : \A s \in Ledger(gens[g], key) : s.at \in Nat
  BY BuiltTypes, RetentionAssumption DEF LinesFollow
<1>2. Line[NoGen] = {} /\ \A r \in 1..N : Line[r] = {r} \cup Line[gens[r].parent] /\ Line[r] \subseteq 1..r
  BY LineOrder
<1> HIDE DEF N
<1>3. ASSUME NEW n \in 0..(N - 1), n \in S PROVE n + 1 \in S
  <2>1. PICK r : r = n + 1
    OBVIOUS
  <2>2. r \in 1..N /\ r \in 0..N /\ \A i \in 1..r : i \in 1..n \/ i = r
    BY <1>1, <2>1
  <2>3. PICK h : h = gens[r].parent
    OBVIOUS
  <2>4. h \in 0..n
    BY <1>1, <2>1, <2>2, <2>3
  <2>5. ASSUME h # NoGen
        PROVE  /\ h \in 1..n /\ h \in 1..N /\ gens[h].created <= gens[r].created
               /\ Follows(born, gens[r], gens[h], gens[r].created)
    <3>1. h \in 1..n /\ h \in 1..N
      BY <1>1, <2>4, <2>5 DEF NoGen
    <3> QED  BY <2>2, <2>3, <2>5, <3>1 DEF LinesFollow, N
  <2>6. Kept(r, r)
    <3>1. ASSUME h # NoGen, NEW key \in Objects, NEW x \in Lists(gens[h], key)
          PROVE  KeptSince(gens[r], key, x, gens[r].created)
      BY <2>5, <3>1 DEF Follows, KeptSince
    <3>2. gens[r].created <= gens[r].created
      BY <1>1, <2>2
    <3> QED  BY <2>2, <2>3, <3>1, <3>2
  <2>7. ASSUME NEW g \in Line[h] PROVE Kept(r, g)
    <3>1. h # NoGen
      BY <1>2
    <3>2. Kept(h, g)
      <4>1. h \in 1..n
        BY <2>5, <3>1
      <4> HIDE DEF Kept
      <4> QED  BY <1>3, <4>1
    <3>3. g \in 1..N /\ gens[g].created <= gens[r].created
      BY <1>1, <2>2, <2>5, <3>1, <3>2
    <3>4. ASSUME gens[g].parent # NoGen, now - gens[g].created < Grace,
                 NEW key \in Objects, NEW x \in Lists(gens[gens[g].parent], key)
          PROVE  KeptSince(gens[r], key, x, gens[g].created)
      <4>1. KeptSince(gens[h], key, x, gens[g].created)
        BY <3>2, <3>4
      <4>2. gens[r].created - gens[g].created < Grace
        BY <1>1, <2>2, <3>3, <3>4
      <4>3. /\ gens[r].created \in Nat /\ gens[g].created \in Nat
            /\ \A s \in Ledger(gens[h], key) : s.at \in Nat
            /\ \A s \in Ledger(gens[r], key) : s.at \in Nat
        BY <1>1, <2>2, <2>5, <3>1, <3>3
      <4> QED  BY <2>5, <3>1, <3>3, <4>1, <4>2, <4>3, KeptOn
    <3> QED  BY <3>3, <3>4
  <2>8. \A i \in 1..r : \A g \in Line[i] : Kept(i, g)
    <3> SUFFICES ASSUME NEW i \in 1..r, NEW g \in Line[i] PROVE Kept(i, g)
      OBVIOUS
    <3>1. Line[r] = {r} \cup Line[h]
      BY <1>2, <2>2, <2>3
    <3> HIDE DEF Kept
    <3>2. CASE i \in 1..n
      BY <1>3, <3>2
    <3>3. CASE i = r
      BY <2>6, <2>7, <3>1, <3>3
    <3> QED  BY <2>2, <3>2, <3>3
  <2> HIDE DEF Kept
  <2> QED  BY <2>1, <2>2, <2>8
<1>4. N \in S
  <2> HIDE DEF Kept
  <2>1. 0 \in S
    BY <1>1
  <2> HIDE DEF S
  <2>2. N \in Nat /\ N \in 0..N
    BY <1>1
  <2>3. \A k \in 0..(N - 1) : k \in S => k + 1 \in S
    BY <1>3
  <2>4. \A k \in 0..N : k \in S
    BY <2>1, <2>2, <2>3, UpTo
  <2> QED  BY <2>2, <2>4
<1> QED  BY <1>4 DEF N

(* So what a root owes it lists, or has on its ledger, and it was written. *)
LEMMA OwesKept ==
    ASSUME RetentionTypeOK, LinesFollow, NEW r \in 1..Len(gens), NEW key \in Objects, NEW o \in Owes(r, key)
    PROVE  KeptSince(gens[r], key, o.name, o.at) /\ o.at \in Nat /\ now - o.at < Grace
<1>1. PICK g \in Line[r] : /\ gens[g].parent # NoGen /\ now - gens[g].created < Grace
                           /\ o.name \in Lists(gens[gens[g].parent], key) /\ o.at = gens[g].created
  BY OwingMember DEF Owes
<1>2. g \in 1..Len(gens) /\ KeptSince(gens[r], key, o.name, gens[g].created)
  BY <1>1, LineKeeps
<1> QED  BY <1>1, <1>2, BuiltTypes

LEMMA OwesWritten ==
    ASSUME RetentionTypeOK, LinesFollow, \A g \in 1..Len(gens) : Sound(born, gens[g]),
           NEW r \in 1..Len(gens), NEW key \in Objects, NEW o \in Owes(r, key)
    PROVE  o.name \in DOMAIN born[key]
<1>1. PICK g \in Line[r] : /\ gens[g].parent # NoGen /\ now - gens[g].created < Grace
                           /\ o.name \in Lists(gens[gens[g].parent], key) /\ o.at = gens[g].created
  BY OwingMember DEF Owes
<1>2. g \in 1..Len(gens)
  BY <1>1, LineKeeps
<1>3. gens[g].parent \in 1..Len(gens)
  BY <1>1, <1>2, BuiltTypes DEF LinesFollow, NoGen
<1> QED  BY <1>1, <1>3 DEF Sound

(* Nothing is built: time passes, a publish begins.                        *)
LEMMA LinesQuiet ==
    ASSUME RetentionTypeOK, LinesFollow, Grows(born, born'), gens' = gens, now' \in Nat, now <= now',
           \A b \in Branches : job'[b].at = "seal" =>
              \/ job'[b] = job[b]
              \/ job'[b].doc.created = job'[b].start /\ gens[job'[b].base].created <= job'[b].start,
           rewrite'.at = "written" =>
              \/ rewrite' = rewrite
              \/ rewrite'.doc.created = rewrite'.start /\ gens[rewrite'.base].created <= rewrite'.start
    PROVE  /\ LinesFollow'
           /\ \A r \in 1..Len(gens) : \A key \in Objects :
                 Owing(gens', Line', now', r, key) \subseteq Owes(r, key)
<1>1. /\ Len(gens) \in Nat /\ now \in Nat
      /\ \A g \in 1..Len(gens) : gens[g].created \in Nat /\ gens[g].created <= now'
  BY BuiltTypes DEF LinesFollow
<1>2. ASSUME NEW g \in 1..Len(gens), gens[g].parent # NoGen
      PROVE  Follows(born', gens[g], gens[gens[g].parent], gens[g].created)
  BY <1>2, FollowsGrows DEF LinesFollow
<1>3. LinesFollow'
  BY <1>1, <1>2 DEF LinesFollow
<1>4. Line' = Line
  BY DEF Line
<1>5. ASSUME NEW r \in 1..Len(gens), NEW key \in Objects, NEW o \in Owing(gens', Line', now', r, key)
      PROVE  o \in Owes(r, key)
  <2> DEFINE time == now'
  <2>1. o \in Owing(gens, Line, time, r, key)
    BY <1>4, <1>5
  <2>2. \A g \in Line[r] : time - gens[g].created < Grace => now - gens[g].created < Grace
    <3>1. \A g \in Line[r] : g \in 1..Len(gens)
      BY LineKeeps
    <3>2. Grace \in Nat
      BY RetentionAssumption
    <3> QED  BY <1>1, <3>1, <3>2
  <2> HIDE DEF time
  <2> QED  BY <2>1, <2>2 DEF Owing, Owes
<1> QED  BY <1>3, <1>5

(* A generation is built on one there was.                                 *)
LEMMA LinesBuild ==
    ASSUME RetentionTypeOK, LinesFollow, NEW g, NEW h \in 1..Len(gens), gens' = Append(gens, g),
           g.parent = h, g.created <= now, gens[h].created <= g.created,
           Follows(born, g, gens[h], g.created), UNCHANGED <<now, packs, mtime>>,
           \A c \in Branches : job'[c] \in {job[c], Idle}, rewrite' \in {rewrite, Idle}
    PROVE  /\ LinesFollow'
           /\ \A i \in 1..Len(gens) : \A key \in Objects :
                 Owing(gens', Line', now', i, key) = Owes(i, key)
           /\ \A key \in Objects : \A o \in Owing(gens', Line', now', Len(gens) + 1, key) :
                 o \in Owes(h, key) \/ o.name \in Lists(gens[h], key)
<1> DEFINE n == Len(gens)
<1>1. /\ n \in Nat /\ now \in Nat /\ Len(gens') = n + 1 /\ gens'[n + 1] = g
      /\ \A i \in 1..n : gens'[i] = gens[i]
  <2>1. gens \in Seq(Gen(Len(packs))) /\ now \in Nat
    BY DEF RetentionTypeOK
  <2> QED  BY <2>1
<1>2. \A i \in 1..n : /\ gens[i].parent \in 0..(i - 1) /\ gens[i].created <= now
                      /\ gens[i].parent # NoGen =>
                            /\ gens[i].parent \in 1..n
                            /\ gens[gens[i].parent].created <= gens[i].created
                            /\ Follows(born, gens[i], gens[gens[i].parent], gens[i].created)
  <2>1. \A i \in 1..n : gens[i].parent \in 0..(i - 1) /\ gens[i].parent # NoGen => gens[i].parent \in 1..n
    BY <1>1 DEF LinesFollow, NoGen
  <2> QED  BY <2>1 DEF LinesFollow
<1>3. born' = born
  BY DEF born
<1>4. h \in 0..n /\ \A i \in 1..(n + 1) : i \in 1..n \/ i = n + 1
  BY <1>1
<1>5. Idle.at # "seal" /\ Idle.at # "written"
  BY DEF Idle
<1>6. /\ \A b \in Branches : job'[b].at = "seal" =>
            job'[b] = job[b] /\ job[b].base \in 1..n /\ gens'[job[b].base] = gens[job[b].base]
      /\ rewrite'.at = "written" =>
            rewrite' = rewrite /\ rewrite.base \in 1..n /\ gens'[rewrite.base] = gens[rewrite.base]
  <2>1. \A b \in Branches : job'[b].at = "seal" => job'[b] = job[b] /\ job[b].base \in 1..n
    BY <1>5 DEF RetentionTypeOK
  <2>2. rewrite'.at = "written" => rewrite' = rewrite /\ rewrite.base \in 1..n
    BY <1>5 DEF RetentionTypeOK
  <2> QED  BY <1>1, <2>1, <2>2
<1>7. ASSUME NEW i \in 1..(n + 1)
      PROVE  /\ gens'[i].parent \in 0..(i - 1) /\ gens'[i].created <= now
             /\ gens'[i].parent # NoGen =>
                   /\ gens'[gens'[i].parent].created <= gens'[i].created
                   /\ Follows(born, gens'[i], gens'[gens'[i].parent], gens'[i].created)
  <2>1. CASE i \in 1..n
    BY <1>1, <1>2, <2>1
  <2>2. CASE i = n + 1
    <3>1. gens'[i] = g /\ gens'[h] = gens[h] /\ h \in 0..(i - 1)
      BY <1>1, <1>4, <2>2
    <3> QED  BY <3>1
  <2> QED  BY <1>4, <2>1, <2>2
<1>8. LinesFollow'
  <2>1. 1..Len(gens') = 1..(n + 1)
    BY <1>1
  <2> HIDE DEF n
  <2> QED  BY <1>3, <1>6, <1>7, <2>1 DEF LinesFollow
<1>9. /\ Elder(gens) /\ LinesTo(Line, gens, Len(gens))
      /\ Elder(gens)' /\ LinesTo(Line, gens, Len(gens))'
  <2>1. Elder(gens)
    BY LineOrder
  <2>2. Elder(gens)'
    <3>1. Len(gens') = n + 1 /\ n \in Nat
      BY <1>1
    <3>2. \A i \in 1..(n + 1) : gens'[i].parent \in 0..(i - 1)
      BY <1>7
    <3> HIDE DEF n
    <3>3. Len(gens') \in Nat /\ \A i \in 1..Len(gens') : gens'[i].parent \in 0..(i - 1)
      BY ONLY <3>1, <3>2
    <3> QED  BY ONLY <3>3 DEF Elder
  <2> QED  BY <2>1, <2>2, LineDef, LineDefNext
<1> DEFINE hs == gens'
           f == Line'
<1>10. Elder(hs) /\ LinesTo(f, hs, Len(hs)) /\ Len(hs) = n + 1
  BY <1>1, <1>9
<1>11. hs[n + 1] = g /\ \A i \in 1..n : hs[i] = gens[i]
  BY <1>1
<1> HIDE DEF hs, f
<1>12. \A i \in 0..n : f[i] = Line[i]
  <2>1. Len(gens) <= Len(hs)
    BY <1>1, <1>10
  <2>2. Elder(gens) /\ LinesTo(Line, gens, Len(gens))
    BY <1>9
  <2>3. \A i \in 1..Len(gens) : hs[i] = gens[i]
    BY <1>11
  <2>4. \A i \in 0..Len(gens) : f[i] = Line[i]
    BY <1>10, <2>1, <2>2, <2>3, LineStays
  <2> QED  BY <2>4
<1>13. f[n + 1] = {n + 1} \cup Line[h]
  <2>1. n + 1 \in 1..Len(hs)
    BY <1>1, <1>10
  <2>2. f[n + 1] = {n + 1} \cup f[hs[n + 1].parent]
    BY <1>10, <2>1, LineStep
  <2>3. f[h] = Line[h]
    BY <1>4, <1>12
  <2> QED  BY <1>11, <2>2, <2>3
<1>14. \A i \in 1..n : \A y \in Line[i] : y \in 1..n /\ hs[y] = gens[y]
                          /\ (gens[y].parent # NoGen => hs[gens[y].parent] = gens[gens[y].parent])
  <2>1. \A i \in 1..n : \A y \in Line[i] : y \in 1..n
    BY LineKeeps
  <2> QED  BY <1>2, <1>11, <2>1
<1>15. ASSUME NEW i \in 1..n, NEW key \in Objects
       PROVE  Owing(hs, f, now, i, key) = Owes(i, key)
  <2>1. f[i] = Line[i]
    BY <1>1, <1>12
  <2>2. {y \in f[i] : hs[y].parent # NoGen /\ now - hs[y].created < Grace}
           = {y \in Line[i] : gens[y].parent # NoGen /\ now - gens[y].created < Grace}
    BY <1>14, <2>1
  <2>3. \A y \in {y \in Line[i] : gens[y].parent # NoGen /\ now - gens[y].created < Grace} :
           [name : Lists(hs[hs[y].parent], key), at : {hs[y].created}]
              = [name : Lists(gens[gens[y].parent], key), at : {gens[y].created}]
    BY <1>14
  <2> QED  BY <2>2, <2>3 DEF Owing, Owes
<1>16. ASSUME NEW key \in Objects, NEW o \in Owing(hs, f, now, n + 1, key)
       PROVE  o \in Owes(h, key) \/ o.name \in Lists(gens[h], key)
  <2>1. o \in Owing(hs, f, now, h, key) \/ o.name \in Lists(hs[hs[n + 1].parent], key)
    <3>1. f[n + 1] = {n + 1} \cup f[h]
      BY <1>4, <1>12, <1>13
    <3> QED  BY <3>1 DEF Owing
  <2>2. Owing(hs, f, now, h, key) = Owes(h, key)
    BY <1>15
  <2> QED  BY <1>11, <2>1, <2>2
<1> QED  BY <1>8, <1>15, <1>16 DEF hs, f, n

-----------------------------------------------------------------------------
(* What is owed is not swept.                                              *)

Unowed(objects) ==
    \A key \in Objects : \A r \in Roots : \A o \in Owes(r, key) : o.name \notin objects[key]

(* Still to be seen, in a ledger that will be read while the row is young. *)
Sent(key, x, at) ==
    \E a \in sweep.todo : \E s \in Ledger(gens[head[a]], key) : s.name = x /\ s.at >= at

(* In the safe pass, what is aged and owed by a root has been found, or    *)
(* will be; and what is left to delete after it no root owes.              *)
BranchesOwe(safe) ==
    sweep.at = "branches" /\ sweep.pass = safe => \A b \in Branches : head[b] # NoGen =>
       \A key \in Objects : \A o \in Owes(head[b], key) :
          Aged(key, o.name) => Found(key, o.name) \/ Sent(key, o.name, o.at)

TagsOwe(safe) ==
    sweep.at = "tags" /\ sweep.pass = safe => \A key \in Objects :
       /\ \A b \in Branches : head[b] # NoGen =>
             \A o \in Owes(head[b], key) : Aged(key, o.name) => o.name \in sweep.live[key]
       /\ \A t \in Pins \ sweep.todo : tag[t] # NoGen =>
             \A o \in Owes(tag[t], key) : Aged(key, o.name) => o.name \in sweep.live[key]

DoomedUnowed(safe) == Decided(safe) => Unowed(sweep.doomed)

GraceCore(safe) == Unowed(swept) /\ BranchesOwe(safe) /\ TagsOwe(safe) /\ DoomedUnowed(safe)

(* Listed or owed by the head of a branch.                                 *)
Due(a, key, o) ==
    head[a] # NoGen /\ (o \in Owes(head[a], key) \/ o.name \in Lists(gens[head[a]], key))

LEMMA DueStays ==
    ASSUME NEW safe \in Passes, RetentionTypeOK, LinesFollow, SweptInv, SweepInv(safe), GraceCore(safe),
           \A g \in 1..Len(gens) : Sound(born, gens[g]),
           NEW a \in Branches, NEW key \in Objects, NEW o, Due(a, key, o)
    PROVE  /\ o.name \in DOMAIN born[key] /\ o.name \notin swept[key]
           /\ Decided(safe) => o.name \notin sweep.doomed[key]
           /\ sweep.at = "tags" /\ sweep.pass = safe /\ Aged(key, o.name) => o.name \in sweep.live[key]
           /\ sweep.at = "branches" /\ sweep.pass = safe /\ Aged(key, o.name) =>
                 \/ Found(key, o.name)
                 \/ Sent(key, o.name, o.at) /\ o.at \in Nat /\ now - o.at < Grace
<1>1. head[a] # NoGen /\ head[a] \in 1..Len(gens) /\ head[a] \in Roots
  BY DEF Due, Roots, Heads, RetentionTypeOK, NoGen
<1>2. CASE o.name \in Lists(gens[head[a]], key)
  <2>1. o.name \in DOMAIN born[key] /\ o.name \notin swept[key]
    BY <1>1, <1>2 DEF Sound, SweptInv
  <2>2. Decided(safe) => o.name \notin sweep.doomed[key]
    BY <1>1, <1>2 DEF SweepInv, DoomedUnnamed, Unnamed
  <2>3. sweep.at = "tags" /\ sweep.pass = safe /\ Aged(key, o.name) => o.name \in sweep.live[key]
    BY <1>1, <1>2 DEF SweepInv, TagsFound
  <2>4. sweep.at = "branches" /\ sweep.pass = safe /\ Aged(key, o.name) => Found(key, o.name)
    BY <1>1, <1>2 DEF SweepInv, BranchesFound
  <2> QED  BY <2>1, <2>2, <2>3, <2>4
<1>3. CASE o \in Owes(head[a], key)
  <2>1. o.name \in DOMAIN born[key] /\ o.at \in Nat /\ now - o.at < Grace
    BY <1>1, <1>3, OwesWritten, OwesKept
  <2>2. o.name \notin swept[key] /\ (Decided(safe) => o.name \notin sweep.doomed[key])
    BY <1>1, <1>3 DEF GraceCore, Unowed, DoomedUnowed
  <2>3. sweep.at = "tags" /\ sweep.pass = safe /\ Aged(key, o.name) => o.name \in sweep.live[key]
    BY <1>1, <1>3 DEF GraceCore, TagsOwe
  <2>4. sweep.at = "branches" /\ sweep.pass = safe /\ Aged(key, o.name) =>
           Found(key, o.name) \/ Sent(key, o.name, o.at)
    BY <1>1, <1>3 DEF GraceCore, BranchesOwe
  <2> QED  BY <2>1, <2>2, <2>3, <2>4
<1> QED  BY <1>2, <1>3 DEF Due

(* Roots move, packs are cut, time passes: what a root owes then some head *)
(* listed or owed, or the tag did.                                         *)
LEMMA OwesMove ==
    ASSUME NEW safe \in Passes, RetentionTypeOK, LinesFollow, SweptInv, SweepInv(safe), GraceCore(safe),
           \A g \in 1..Len(gens) : Sound(born, gens[g]),
           Grows(born, born'), UNCHANGED <<swept, sweep>>,
           \A b \in Branches : head'[b] # NoGen => \E a \in Branches : \A key \in Objects :
              \A o \in Owing(gens', Line', now', head'[b], key) : Due(a, key, o),
           \A t \in Pins : tag'[t] # NoGen =>
              \/ tag[t] # NoGen /\ \A key \in Objects :
                    \A o \in Owing(gens', Line', now', tag'[t], key) : o \in Owes(tag[t], key)
              \/ \E a \in Branches : \A key \in Objects :
                    \A o \in Owing(gens', Line', now', tag'[t], key) : Due(a, key, o),
           sweep.at = "branches" /\ sweep.pass = safe => \A key \in Objects : \A x :
              /\ Found(key, x) => Found(key, x)'
              /\ \A at \in Nat : Sent(key, x, at) /\ now - at < Grace => Found(key, x)' \/ Sent(key, x, at)'
    PROVE  GraceCore(safe)'
<1>1. \A key \in Objects : \A x \in DOMAIN born[key] : Aged(key, x)' = Aged(key, x)
  BY DEF Grows, Aged
<1>2. /\ \A b \in Branches : head[b] # NoGen => head[b] \in 1..Len(gens) /\ head[b] \in Roots
      /\ \A t \in Pins : tag[t] # NoGen => tag[t] \in 1..Len(gens) /\ tag[t] \in Roots
  BY DEF RetentionTypeOK, NoGen, Roots, Heads
<1>3. \A r, key : Owes(r, key)' = Owing(gens', Line', now', r, key)
  BY DEF Owes
<1>4. ASSUME NEW r \in Roots', NEW key \in Objects, NEW o \in Owing(gens', Line', now', r, key)
      PROVE  o.name \notin swept[key] /\ (Decided(safe) => o.name \notin sweep.doomed[key])
  <2>1. (\E b \in Branches : r = head'[b] /\ r # NoGen) \/ (\E t \in Pins : r = tag'[t] /\ r # NoGen)
    BY DEF Roots, Heads
  <2>2. (\E a \in Branches : Due(a, key, o)) \/ (\E t \in Pins : tag[t] # NoGen /\ o \in Owes(tag[t], key))
    BY <1>4, <2>1
  <2>3. CASE \E a \in Branches : Due(a, key, o)
    BY <2>3, DueStays
  <2>4. CASE \E t \in Pins : tag[t] # NoGen /\ o \in Owes(tag[t], key)
    BY <1>2, <2>4 DEF GraceCore, Unowed, DoomedUnowed
  <2> QED  BY <2>2, <2>3, <2>4
<1>5. Unowed(swept)'
  BY <1>4 DEF Unowed, Owes
<1>6. DoomedUnowed(safe)'
  BY <1>4 DEF DoomedUnowed, Unowed, Owes, Decided
<1>7. TagsOwe(safe)'
  <2> SUFFICES ASSUME sweep.at = "tags", sweep.pass = safe, NEW key \in Objects
               PROVE  /\ \A b \in Branches : head'[b] # NoGen =>
                            \A o \in Owing(gens', Line', now', head'[b], key) :
                               Aged(key, o.name)' => o.name \in sweep.live[key]
                      /\ \A t \in Pins \ sweep.todo : tag'[t] # NoGen =>
                            \A o \in Owing(gens', Line', now', tag'[t], key) :
                               Aged(key, o.name)' => o.name \in sweep.live[key]
    BY DEF TagsOwe, Owes, Aged
  <2>1. ASSUME NEW a \in Branches, NEW o, Due(a, key, o), Aged(key, o.name)' PROVE o.name \in sweep.live[key]
    <3>1. Aged(key, o.name)
      BY <1>1, <2>1, DueStays
    <3> QED  BY <2>1, <3>1, DueStays
  <2>2. ASSUME NEW t \in Pins \ sweep.todo, tag[t] # NoGen, NEW o \in Owes(tag[t], key), Aged(key, o.name)'
        PROVE  o.name \in sweep.live[key]
    <3>1. o.name \in DOMAIN born[key]
      BY <1>2, <2>2, OwesWritten
    <3>2. Aged(key, o.name)
      BY <1>1, <2>2, <3>1
    <3> QED  BY <2>2, <3>2 DEF GraceCore, TagsOwe
  <2> QED  BY <2>1, <2>2
<1>8. BranchesOwe(safe)'
  <2> SUFFICES ASSUME sweep.at = "branches", sweep.pass = safe, NEW b \in Branches, head'[b] # NoGen,
                      NEW key \in Objects, NEW o \in Owing(gens', Line', now', head'[b], key),
                      Aged(key, o.name)'
               PROVE  Found(key, o.name)' \/ Sent(key, o.name, o.at)'
    BY DEF BranchesOwe, Owes, Aged
  <2>1. PICK a \in Branches : Due(a, key, o)
    OBVIOUS
  <2>2. Aged(key, o.name)
    BY <1>1, <2>1, DueStays
  <2>3. Found(key, o.name) \/ (Sent(key, o.name, o.at) /\ o.at \in Nat /\ now - o.at < Grace)
    BY <2>1, <2>2, DueStays
  <2> QED  BY <2>3
<1> QED  BY <1>5, <1>6, <1>7, <1>8 DEF GraceCore

(* Nothing that the sweep reads moves: a publish ends or begins, a repack  *)
(* is planned or cuts its pack, time passes.                               *)
LEMMA OwesQuiet ==
    ASSUME NEW safe \in Passes, RetentionTypeOK, LinesFollow, SweptInv, SweepInv(safe), GraceCore(safe),
           \A g \in 1..Len(gens) : Sound(born, gens[g]),
           Grows(born, born'), UNCHANGED <<gens, head, tag, swept, sweep>>, now' \in Nat, now <= now',
           \A b \in Branches : job'[b].at = "seal" =>
              \/ job'[b] = job[b]
              \/ job'[b].doc.created = job'[b].start /\ gens[job'[b].base].created <= job'[b].start,
           rewrite'.at = "written" =>
              \/ rewrite' = rewrite
              \/ rewrite'.doc.created = rewrite'.start /\ gens[rewrite'.base].created <= rewrite'.start
    PROVE  LinesFollow' /\ GraceCore(safe)'
<1>1. /\ LinesFollow'
      /\ \A r \in 1..Len(gens) : \A key \in Objects :
            Owing(gens', Line', now', r, key) \subseteq Owes(r, key)
  BY LinesQuiet
<1>2. /\ \A b \in Branches : head[b] # NoGen => head[b] \in 1..Len(gens)
      /\ \A t \in Pins : tag[t] # NoGen => tag[t] \in 1..Len(gens)
  BY DEF RetentionTypeOK, NoGen
<1>3. \A b \in Branches : head'[b] # NoGen => \E a \in Branches : \A key \in Objects :
         \A o \in Owing(gens', Line', now', head'[b], key) : Due(a, key, o)
  BY <1>1, <1>2 DEF Due
<1>4. \A t \in Pins : tag'[t] # NoGen => tag[t] # NoGen /\ \A key \in Objects :
         \A o \in Owing(gens', Line', now', tag'[t], key) : o \in Owes(tag[t], key)
  BY <1>1, <1>2
<1>5. \A key \in Objects : \A x :
         /\ Found(key, x) => Found(key, x)'
         /\ \A at \in Nat : Sent(key, x, at) => Sent(key, x, at)'
  BY DEF Found, Sent
<1>6. GraceCore(safe)'
  BY <1>3, <1>4, <1>5, OwesMove
<1> QED  BY <1>1, <1>6

-----------------------------------------------------------------------------
(* Publishes and time.                                                     *)

LEMMA WorkOwes ==
    ASSUME NEW safe \in Passes, RetentionTypeOK, LinesFollow, RootsCore(safe), GraceCore(safe),
           UNCHANGED <<gens, packs, mtime, head, tag, swept, sweep>>, now' \in Nat, now <= now',
           \A b \in Branches : job'[b] \in {job[b], Idle},
           rewrite'.at = "written" => rewrite' = rewrite
    PROVE  LinesFollow' /\ GraceCore(safe)'
<1>1. Grows(born, born')
  BY DEF Grows, born
<1>2. SweptInv /\ SweepInv(safe) /\ \A g \in 1..Len(gens) : Sound(born, gens[g])
  BY DEF RootsCore, DocsInv
<1>3. \A b \in Branches : job'[b].at = "seal" => job'[b] = job[b]
  BY DEF Idle
<1> QED  BY <1>1, <1>2, <1>3, OwesQuiet

(* A pack is cut: what was written stays as it was.                        *)
LEMMA Uploads ==
    ASSUME RetentionTypeOK, StoreInv, NEW pack, packs' = Append(packs, pack),
           NEW m, Len(packs) + 1 \in m, mtime' = Uploaded(m, now)
    PROVE  Grows(born, born')
<1> DEFINE n == Len(packs)
<1>1. n \in Nat /\ Len(packs') = n + 1 /\ \A p \in 1..n : packs'[p] = packs[p]
  <2>1. packs \in Seq([chunks : SUBSET Chunks, backups : SUBSET Doc(n), born : Nat])
    BY DEF RetentionTypeOK
  <2> QED  BY <2>1
<1>2. m \notin DOMAIN mtime
  <2>1. ~ (n + 1 \in 1..n)
    BY <1>1
  <2> QED  BY <2>1 DEF StoreInv
<1>3. DOMAIN mtime \subseteq DOMAIN mtime' /\ \A x \in DOMAIN mtime : mtime'[x] = mtime[x]
  BY <1>2 DEF Uploaded
<1>4. /\ DOMAIN born["packs"] = 1..n /\ DOMAIN born'["packs"] = 1..(n + 1) /\ 1..n \subseteq 1..(n + 1)
      /\ \A p \in 1..n : born'["packs"][p] = born["packs"][p]
      /\ born["manifests"] = mtime /\ born'["manifests"] = mtime'
  BY <1>1 DEF born
<1>5. ASSUME NEW key \in Objects
      PROVE  /\ DOMAIN born[key] \subseteq DOMAIN born'[key]
             /\ \A x \in DOMAIN born[key] : born'[key][x] = born[key][x]
  <2>1. CASE key = "packs"
    BY <1>4, <2>1
  <2>2. CASE key = "manifests"
    BY <1>3, <1>4, <2>2
  <2> QED  BY <2>1, <2>2 DEF Objects
<1> QED  BY <1>5 DEF Grows

LEMMA SealUploadOwes ==
    ASSUME NEW safe \in Passes, RetentionTypeOK, LinesFollow, RootsCore(safe), GraceCore(safe),
           NEW b \in Branches, SealUpload(b)
    PROVE  LinesFollow' /\ GraceCore(safe)'
<1>1. PICK pack, m, j :
         /\ packs' = Append(packs, pack) /\ Len(packs) + 1 \in m /\ mtime' = Uploaded(m, now)
         /\ job' = [job EXCEPT ![b] = j]
         /\ j.base = head[b] /\ j.start = now /\ j.doc.created = now
  <2> DEFINE base == gens[head[b]]
             new == Len(packs) + 1
  <2>1. PICK files \in SUBSET Chunks, merged \in {{}, base.manifests} :
           LET m == (UNION merged) \cup {new}
           IN  /\ packs' = Append(packs, [chunks |-> files \ (base.files \cup Seen(b)), born |-> now,
                                          backups |-> {Backup(base, b, now)}])
               /\ mtime' = Uploaded(m, now)
               /\ job' = [job EXCEPT ![b] =
                     [at |-> "seal", base |-> head[b], files |-> files, start |-> now,
                      seen |-> Seen(b) \cup files,
                      doc |-> Document(base, base.number + 1, b,
                                       (base.manifests \ merged) \cup {m}, {}, now)]]
    BY DEF SealUpload
  <2> DEFINE m == (UNION merged) \cup {new}
             pack == [chunks |-> files \ (base.files \cup Seen(b)), born |-> now,
                      backups |-> {Backup(base, b, now)}]
             doc == Document(base, base.number + 1, b, (base.manifests \ merged) \cup {m}, {}, now)
             j == [at |-> "seal", base |-> head[b], files |-> files, start |-> now,
                   seen |-> Seen(b) \cup files, doc |-> doc]
  <2>2. doc.created = now
    BY DEF Document
  <2>3. j.base = head[b] /\ j.start = now /\ j.doc = doc
    BY DEF j
  <2>4. packs' = Append(packs, pack) /\ mtime' = Uploaded(m, now) /\ job' = [job EXCEPT ![b] = j]
    BY <2>1
  <2>5. Len(packs) + 1 \in m
    OBVIOUS
  <2> HIDE DEF m, pack, doc, j
  <2> QED  BY <2>2, <2>3, <2>4, <2>5
<1>2. UNCHANGED <<now, gens, swept, head, tag, sidecar, rewrite, sweep>> /\ head[b] # NoGen
  BY DEF SealUpload
<1>3. /\ StoreInv /\ SweptInv /\ SweepInv(safe) /\ \A g \in 1..Len(gens) : Sound(born, gens[g])
  BY DEF RootsCore, DocsInv
<1>4. Grows(born, born')
  BY <1>1, <1>3, Uploads
<1>5. head[b] \in 1..Len(gens) /\ now \in Nat /\ DOMAIN job = Branches
  BY <1>2 DEF RetentionTypeOK, NoGen
<1>6. \A c \in Branches : job'[c].at = "seal" =>
         \/ job'[c] = job[c]
         \/ job'[c].doc.created = job'[c].start /\ gens[job'[c].base].created <= job'[c].start
  <2>1. job'[b] = j /\ \A c \in Branches \ {b} : job'[c] = job[c]
    BY <1>1, <1>5
  <2>2. gens[head[b]].created <= now
    BY <1>5 DEF LinesFollow
  <2> QED  BY <1>1, <2>1, <2>2
<1>7. now' \in Nat /\ now <= now' /\ rewrite' = rewrite
  BY <1>2, <1>5
<1> QED  BY <1>2, <1>3, <1>4, <1>6, <1>7, OwesQuiet

LEMMA RepackWriteOwes ==
    ASSUME NEW safe \in Passes, RetentionTypeOK, LinesFollow, RootsCore(safe), GraceCore(safe), RepackWrite
    PROVE  LinesFollow' /\ GraceCore(safe)'
<1> DEFINE r == rewrite
           base == gens[r.base]
           new == Len(packs) + 1
           m == (Named(base) \ r.condemn) \cup {new}
           pack == [chunks  |-> r.live \cap UNION {packs[p].chunks : p \in r.condemn},
                    backups |-> UNION {packs[p].backups : p \in r.condemn}, born |-> now]
           doc == Document(base, base.number + 1, r.branch, {m}, r.condemn, now)
<1>1. /\ packs' = Append(packs, pack) /\ mtime' = Uploaded(m, now) /\ Len(packs) + 1 \in m
      /\ rewrite' = [at |-> "written", branch |-> r.branch, base |-> r.base,
                     start |-> now, live |-> r.live, doc |-> doc]
      /\ r.at = "planned" /\ UNCHANGED <<now, gens, swept, head, tag, sidecar, job, sweep>>
  BY DEF RepackWrite
<1>2. doc.created = now
  BY DEF Document
<1> HIDE DEF pack, doc, m
<1>3. rewrite'.base = r.base /\ rewrite'.start = now /\ rewrite'.doc = doc
  BY <1>1
<1>4. /\ StoreInv /\ SweptInv /\ SweepInv(safe) /\ \A g \in 1..Len(gens) : Sound(born, gens[g])
  BY DEF RootsCore, DocsInv
<1>5. Grows(born, born')
  BY <1>1, <1>4, Uploads
<1>6. r.base \in 1..Len(gens) /\ now \in Nat
  BY <1>1 DEF RetentionTypeOK
<1>7. rewrite'.doc.created = rewrite'.start /\ gens[rewrite'.base].created <= rewrite'.start
  BY <1>2, <1>3, <1>6 DEF LinesFollow
<1>8. now' \in Nat /\ now <= now' /\ job' = job
  BY <1>1, <1>6
<1> QED  BY <1>1, <1>4, <1>5, <1>7, <1>8, OwesQuiet

LEMMA TickOwes ==
    ASSUME NEW safe \in Passes, RetentionTypeOK, LinesFollow, RootsCore(safe), GraceCore(safe), Tick
    PROVE  LinesFollow' /\ GraceCore(safe)'
<1>1. now' \in Nat /\ now <= now'
  BY DEF RetentionTypeOK, Tick
<1>2. \A b \in Branches : job'[b] \in {job[b], Idle}
  BY DEF Tick, work
<1> QED  BY <1>1, <1>2, WorkOwes DEF Tick, work

LEMMA EndsOwe ==
    ASSUME NEW safe \in Passes, RetentionTypeOK, LinesFollow, RootsCore(safe), GraceCore(safe),
           \/ \E b \in Branches : SealEnds(b) \/ RepackPlan(b)
           \/ RepackEnds
           \/ UNCHANGED vars
    PROVE  LinesFollow' /\ GraceCore(safe)'
<1>1. /\ UNCHANGED <<now, gens, packs, mtime, swept, head, tag, sidecar, sweep>>
      /\ \A b \in Branches : job'[b] \in {job[b], Idle}
  BY DEF SealEnds, RepackPlan, RepackEnds, vars, RetentionTypeOK
<1>2. rewrite'.at = "written" => rewrite' = rewrite
  BY DEF SealEnds, RepackPlan, RepackEnds, vars, Idle
<1>3. now' \in Nat /\ now <= now'
  BY <1>1 DEF RetentionTypeOK
<1> QED  BY <1>1, <1>2, <1>3, WorkOwes

(* A publish flips: what its base owed or listed it owes at most, and the  *)
(* sweep finds in its ledger what it would have found in the base.         *)
LEMMA FlipOwes ==
    ASSUME NEW safe \in Passes,
           SealLimit <= Grace, RetentionTypeOK, LinesFollow, RootsCore(safe), GraceCore(safe),
           SweepUndisturbed(safe),
           NEW b \in Branches, NEW doc \in Doc(Len(packs)), NEW start \in Nat, NEW kind, NEW files,
           head[b] # NoGen, start <= now, now - start < SealLimit,
           Follows(born, doc, gens[head[b]], start),
           doc.created = start, gens[head[b]].created <= start,
           gens' = Append(gens, Generation(doc, head[b], kind, files)),
           head' = [head EXCEPT ![b] = Len(gens) + 1],
           UNCHANGED <<now, packs, mtime, swept, tag, sweep>>,
           \A c \in Branches : job'[c] \in {job[c], Idle}, rewrite' \in {rewrite, Idle}
    PROVE  LinesFollow' /\ GraceCore(safe)'
<1> DEFINE g == Generation(doc, head[b], kind, files)
           base == gens[head[b]]
           fresh == Len(gens) + 1
<1>1. /\ head[b] \in 1..Len(gens) /\ Len(gens) \in Nat /\ now \in Nat /\ base \in Gen(Len(packs))
      /\ Grace \in Nat /\ SealLimit \in Nat /\ Grace >= SealLimit
      /\ head \in [Branches -> 0..Len(gens)]
      /\ \A t \in Pins : tag[t] # NoGen => tag[t] \in 1..Len(gens)
      /\ \A c \in Branches : head[c] # NoGen => head[c] \in 1..Len(gens)
  <2>1. /\ gens \in Seq(Gen(Len(packs))) /\ now \in Nat
        /\ head \in [Branches -> 0..Len(gens)] /\ tag \in [Pins -> 0..Len(gens)]
    BY DEF RetentionTypeOK
  <2>2. Grace \in Nat /\ SealLimit \in Nat
    BY RetentionAssumption
  <2>3. Len(gens) \in Nat
    BY <2>1
  <2>4. /\ \A t \in Pins : tag[t] # NoGen => tag[t] \in 1..Len(gens)
        /\ \A c \in Branches : head[c] # NoGen => head[c] \in 1..Len(gens)
    BY <2>1, <2>3 DEF NoGen
  <2>5. base \in Gen(Len(packs))
    BY <2>1, <2>4
  <2> QED  BY <2>1, <2>2, <2>3, <2>4, <2>5
<1>2. /\ SweptInv /\ SweepInv(safe) /\ \A i \in 1..Len(gens) : Sound(born, gens[i])
  BY DEF RootsCore, DocsInv
<1>3. /\ g.parent = head[b] /\ g.created = start
      /\ \A key \in Objects : Lists(g, key) = Lists(doc, key) /\ Ledger(g, key) = Ledger(doc, key)
      /\ Sound(born, g) = Sound(born, doc)
  <2>1. g.parent = head[b] /\ g.created = doc.created
    BY DEF Generation
  <2> QED  BY <2>1, GenerationLists
<1> HIDE DEF g
<1>4. gens'[fresh] = g /\ \A i \in 1..Len(gens) : gens'[i] = gens[i]
  <2>1. gens \in Seq(Gen(Len(packs))) /\ gens' = Append(gens, g)
    BY DEF RetentionTypeOK, g
  <2> QED  BY <2>1
<1>5. Follows(born, g, base, start)
  BY <1>3 DEF Follows
<1>6. /\ LinesFollow'
      /\ \A i \in 1..Len(gens) : \A key \in Objects :
            Owing(gens', Line', now', i, key) = Owes(i, key)
      /\ \A key \in Objects : \A o \in Owing(gens', Line', now', fresh, key) :
            o \in Owes(head[b], key) \/ o.name \in Lists(gens[head[b]], key)
  <2>1. gens' = Append(gens, g)
    BY DEF g
  <2> QED  BY <1>1, <1>3, <1>5, <2>1, LinesBuild
<1>7. /\ \A c \in Branches \ {b} : head'[c] = head[c] /\ (head[c] # NoGen => gens'[head'[c]] = gens[head[c]])
      /\ head'[b] = fresh /\ gens'[head'[b]] = g
  BY <1>1, <1>4
<1>8. ASSUME NEW c \in Branches, head'[c] # NoGen
      PROVE  \E a \in Branches : \A key \in Objects :
                \A o \in Owing(gens', Line', now', head'[c], key) : Due(a, key, o)
  <2>1. CASE c = b
    BY <1>6, <1>7, <2>1 DEF Due
  <2>2. CASE c # b
    <3>1. head'[c] = head[c] /\ head[c] # NoGen /\ head[c] \in 1..Len(gens)
      BY <1>1, <1>7, <1>8, <2>2
    <3>2. \A key \in Objects : Owing(gens', Line', now', head'[c], key) = Owes(head[c], key)
      BY <1>6, <3>1
    <3> QED  BY <3>1, <3>2 DEF Due
  <2> QED  BY <2>1, <2>2
<1>9. \A t \in Pins : tag'[t] # NoGen => tag[t] # NoGen /\ \A key \in Objects :
         \A o \in Owing(gens', Line', now', tag'[t], key) : o \in Owes(tag[t], key)
  BY <1>1, <1>6
<1>10. ASSUME sweep.at = "branches", sweep.pass = safe, NEW key \in Objects, NEW x
       PROVE  /\ Found(key, x) => Found(key, x)'
              /\ \A at \in Nat : Sent(key, x, at) /\ now - at < Grace => Found(key, x)' \/ Sent(key, x, at)'
  <2>1. /\ \A r \in Ledger(base, key) : r.at \in Nat
        /\ \A r \in Ledger(doc, key) : r.at \in Nat
    BY <1>1, Stamped
  <2>2. /\ sweep.now \in Nat /\ sweep.now <= now /\ now - sweep.now <= Grace - SealLimit
        /\ \A a \in sweep.todo : a \in Branches /\ head[a] # NoGen
    BY <1>2, <1>10 DEF SweepInv, SweepShape, SweepUndisturbed
  <2>3. ASSUME Found(key, x) PROVE Found(key, x)'
    <3>1. CASE x \in sweep.live[key]
      BY <3>1 DEF Found
    <3>2. CASE \E a \in sweep.todo : Keeps(gens[head[a]], sweep.now, key, x)
      <4>1. PICK a \in sweep.todo : Keeps(gens[head[a]], sweep.now, key, x)
        BY <3>2
      <4>2. Keeps(gens'[head'[a]], sweep.now, key, x)
        <5>1. CASE a = b
          <6>1. Keeps(base, sweep.now, key, x)
            BY <4>1, <5>1
          <6> HIDE DEF base
          <6>2. Follows(born, doc, base, start)
            BY DEF base
          <6>3. Keeps(doc, sweep.now, key, x)
            BY <1>1, <2>1, <2>2, <6>1, <6>2, KeepsOn
          <6> QED  BY <1>3, <1>7, <5>1, <6>3 DEF Keeps
        <5>2. CASE a # b
          BY <1>7, <2>2, <4>1, <5>2
        <5> QED  BY <5>1, <5>2
      <4> QED  BY <4>1, <4>2 DEF Found
    <3> QED  BY <2>3, <3>1, <3>2 DEF Found
  <2>4. ASSUME NEW at \in Nat, Sent(key, x, at), now - at < Grace PROVE Found(key, x)' \/ Sent(key, x, at)'
    <3>1. PICK a \in sweep.todo : \E s \in Ledger(gens[head[a]], key) : s.name = x /\ s.at >= at
      BY <2>4 DEF Sent
    <3>2. PICK s \in Ledger(gens[head[a]], key) : s.name = x /\ s.at >= at
      BY <3>1
    <3>3. CASE a = b
      <4>1. s \in Ledger(base, key) /\ s.at \in Nat
        BY <2>1, <3>2, <3>3
      <4>2. start - s.at < Grace
        BY <1>1, <2>4, <3>2, <4>1
      <4>3. x \in Lists(doc, key) \/ s \in Ledger(doc, key)
        BY <3>2, <4>1, <4>2 DEF Follows
      <4>4. x \in Lists(gens'[head'[a]], key) \/ s \in Ledger(gens'[head'[a]], key)
        BY <1>3, <1>7, <3>3, <4>3
      <4>5. CASE x \in Lists(gens'[head'[a]], key)
        BY <3>1, <4>5 DEF Found, Keeps
      <4>6. CASE s \in Ledger(gens'[head'[a]], key)
        BY <3>1, <3>2, <4>6 DEF Sent
      <4> QED  BY <4>4, <4>5, <4>6
    <3>4. CASE a # b
      <4>1. gens'[head'[a]] = gens[head[a]]
        BY <1>7, <2>2, <3>1, <3>4
      <4> QED  BY <3>1, <3>2, <4>1 DEF Sent
    <3> QED  BY <3>3, <3>4
  <2> QED  BY <2>3, <2>4
<1>11. Grows(born, born')
  BY DEF Grows, born
<1>12. GraceCore(safe)'
  BY <1>2, <1>8, <1>9, <1>10, <1>11, OwesMove
<1> QED  BY <1>6, <1>12

LEMMA SealFlipOwes ==
    ASSUME NEW safe \in Passes,
           SealLimit <= Grace, RetentionTypeOK, LinesFollow, RootsCore(safe), GraceCore(safe),
           SweepUndisturbed(safe), NEW b \in Branches, SealFlip(b)
    PROVE  LinesFollow' /\ GraceCore(safe)'
<1> DEFINE j == job[b]
           doc == j.doc
           start == j.start
           files == j.files
<1>1. /\ j.at = "seal" /\ head[b] = j.base /\ now - start < SealLimit
      /\ gens' = Append(gens, Generation(doc, j.base, "seal", files))
      /\ head' = [head EXCEPT ![b] = Len(gens) + 1]
      /\ job' = [job EXCEPT ![b] = Idle]
      /\ UNCHANGED <<now, packs, mtime, swept, tag, rewrite, sweep>>
  BY DEF SealFlip, Current
<1>2. doc \in Doc(Len(packs)) /\ start \in Nat /\ j.base \in 1..Len(gens)
  BY <1>1 DEF RetentionTypeOK, Idle
<1>3. head[b] # NoGen
  BY <1>1, <1>2 DEF NoGen
<1>4. Follows(born, doc, gens[head[b]], start) /\ start <= now
  BY <1>1 DEF RootsCore, DocsInv
<1>5. doc.created = start /\ gens[head[b]].created <= start
  BY <1>1 DEF LinesFollow
<1>6. \A c \in Branches : job'[c] \in {job[c], Idle}
  BY <1>1 DEF RetentionTypeOK
<1>7. gens' = Append(gens, Generation(doc, head[b], "seal", files)) /\ rewrite' \in {rewrite, Idle}
  BY <1>1
<1> HIDE DEF j, doc, start, files
<1> QED  BY <1>1, <1>2, <1>3, <1>4, <1>5, <1>6, <1>7, FlipOwes

LEMMA RepackFlipOwes ==
    ASSUME NEW safe \in Passes,
           SealLimit <= Grace, RetentionTypeOK, LinesFollow, RootsCore(safe), GraceCore(safe),
           SweepUndisturbed(safe), RepackFlip
    PROVE  LinesFollow' /\ GraceCore(safe)'
<1> DEFINE r == rewrite
           b == r.branch
           doc == r.doc
           start == r.start
           files == gens[r.base].files
<1>1. /\ r.at = "written" /\ head[b] = r.base /\ now - start < SealLimit
      /\ gens' = Append(gens, Generation(doc, r.base, "repack", files))
      /\ head' = [head EXCEPT ![b] = Len(gens) + 1]
      /\ rewrite' = Idle
      /\ UNCHANGED <<now, packs, mtime, swept, tag, job, sweep>>
  BY DEF RepackFlip, Current
<1>2. doc \in Doc(Len(packs)) /\ start \in Nat /\ r.base \in 1..Len(gens) /\ b \in Branches
  BY <1>1 DEF RetentionTypeOK
<1>3. head[b] # NoGen
  BY <1>1, <1>2 DEF NoGen
<1>4. Follows(born, doc, gens[head[b]], start) /\ start <= now
  BY <1>1 DEF RootsCore, DocsInv
<1>5. doc.created = start /\ gens[head[b]].created <= start
  BY <1>1 DEF LinesFollow
<1>6. \A c \in Branches : job'[c] \in {job[c], Idle}
  BY <1>1
<1>7. gens' = Append(gens, Generation(doc, head[b], "repack", files)) /\ rewrite' \in {rewrite, Idle}
  BY <1>1
<1> HIDE DEF r, b, doc, start, files
<1> QED  BY <1>1, <1>2, <1>3, <1>4, <1>5, <1>6, <1>7, FlipOwes

-----------------------------------------------------------------------------
(* Refs.                                                                   *)

(* What a new ref owes some head owed, or listed.                          *)
LEMMA RefsOwe ==
    ASSUME NEW safe \in Passes,
           RetentionTypeOK, LinesFollow, RootsCore(safe), GraceCore(safe), SweepUndisturbed(safe),
           SweepUndisturbed(safe)', LinesFollow',
           \A i \in 1..Len(gens) : gens'[i] = gens[i],
           \A i \in 1..Len(gens) : \A key \in Objects : Owing(gens', Line', now', i, key) = Owes(i, key),
           \A c \in Branches : head'[c] # NoGen => \E a \in Branches : \A key \in Objects :
              \A o \in Owing(gens', Line', now', head'[c], key) : Due(a, key, o),
           \A c \in Branches : head[c] = NoGen \/ head'[c] = NoGen \/ head'[c] = head[c],
           \A t \in Pins : tag'[t] \notin {NoGen, tag[t]} => \E a \in Branches : head[a] # NoGen /\ tag'[t] = head[a],
           UNCHANGED <<now, packs, mtime, swept, sweep>>
    PROVE  LinesFollow' /\ GraceCore(safe)'
<1>1. /\ \A b \in Branches : head[b] # NoGen => head[b] \in 1..Len(gens)
      /\ \A t \in Pins : tag[t] # NoGen => tag[t] \in 1..Len(gens)
  BY DEF RetentionTypeOK, NoGen
<1>2. SweptInv /\ SweepInv(safe) /\ \A g \in 1..Len(gens) : Sound(born, gens[g])
  BY DEF RootsCore, DocsInv
<1>3. Grows(born, born')
  BY DEF Grows, born
<1>4. ASSUME NEW t \in Pins, tag'[t] # NoGen
      PROVE  \/ tag[t] # NoGen /\ \A key \in Objects :
                   \A o \in Owing(gens', Line', now', tag'[t], key) : o \in Owes(tag[t], key)
             \/ \E a \in Branches : \A key \in Objects :
                   \A o \in Owing(gens', Line', now', tag'[t], key) : Due(a, key, o)
  <2>1. CASE tag'[t] = tag[t]
    BY <1>1, <1>4, <2>1
  <2>2. CASE tag'[t] # tag[t]
    <3>1. PICK a \in Branches : head[a] # NoGen /\ tag'[t] = head[a]
      BY <1>4, <2>2
    <3>2. \A key \in Objects : Owing(gens', Line', now', tag'[t], key) = Owes(head[a], key)
      BY <1>1, <3>1
    <3> QED  BY <3>1, <3>2 DEF Due
  <2> QED  BY <2>1, <2>2
<1>5. ASSUME sweep.at = "branches", sweep.pass = safe, NEW key \in Objects, NEW x
      PROVE  /\ Found(key, x) => Found(key, x)'
             /\ \A at \in Nat : Sent(key, x, at) => Sent(key, x, at)'
  <2>1. \A a \in sweep.todo : gens'[head'[a]] = gens[head[a]]
    BY <1>1, <1>2, <1>5 DEF SweepInv, SweepShape, SweepUndisturbed
  <2> QED  BY <2>1 DEF Found, Sent
<1>6. GraceCore(safe)'
  BY <1>2, <1>3, <1>4, <1>5, OwesMove
<1> QED  BY <1>6

LEMMA RefsChangeOwe ==
    ASSUME NEW safe \in Passes,
           RetentionTypeOK, LinesFollow, RootsCore(safe), GraceCore(safe), SweepUndisturbed(safe),
           SweepUndisturbed(safe)',
           UNCHANGED <<now, gens, packs, mtime, swept, sidecar, job, rewrite, sweep>>,
           \A c \in Branches : head'[c] \in {head[c], NoGen},
           \A t \in Pins : tag'[t] \notin {NoGen, tag[t]} =>
              \E a \in Branches : head[a] # NoGen /\ tag'[t] = head[a]
    PROVE  LinesFollow' /\ GraceCore(safe)'
<1>1. Line' = Line /\ born' = born
  BY DEF Line, born
<1>2. LinesFollow'
  BY <1>1 DEF LinesFollow
<1>3. \A i \in 1..Len(gens) : \A key \in Objects : Owing(gens', Line', now', i, key) = Owes(i, key)
  BY <1>1 DEF Owes
<1>4. \A c \in Branches : head'[c] # NoGen => head'[c] = head[c] /\ head[c] # NoGen /\ head[c] \in 1..Len(gens)
  BY DEF RetentionTypeOK, NoGen
<1>5. \A c \in Branches : head'[c] # NoGen => \E a \in Branches : \A key \in Objects :
         \A o \in Owing(gens', Line', now', head'[c], key) : Due(a, key, o)
  BY <1>3, <1>4 DEF Due
<1>6. \A c \in Branches : head[c] = NoGen \/ head'[c] = NoGen \/ head'[c] = head[c]
  BY <1>4
<1> QED  BY <1>2, <1>3, <1>5, <1>6, RefsOwe

LEMMA DeleteBranchOwes ==
    ASSUME NEW safe \in Passes,
           RetentionTypeOK, LinesFollow, RootsCore(safe), GraceCore(safe), SweepUndisturbed(safe),
           SweepUndisturbed(safe)', NEW b \in Branches, DeleteBranch(b)
    PROVE  LinesFollow' /\ GraceCore(safe)'
<1>1. \A c \in Branches : head'[c] \in {head[c], NoGen}
  BY DEF RetentionTypeOK, DeleteBranch
<1> QED  BY <1>1, RefsChangeOwe DEF DeleteBranch

LEMMA TagsChangeOwe ==
    ASSUME NEW safe \in Passes,
           RetentionTypeOK, LinesFollow, RootsCore(safe), GraceCore(safe), SweepUndisturbed(safe),
           SweepUndisturbed(safe)',
           \/ \E t \in Tags, b \in Branches : CreateTag(t, b)
           \/ \E t \in Pins : DeleteTag(t)
    PROVE  LinesFollow' /\ GraceCore(safe)'
<1>1. /\ UNCHANGED <<now, gens, packs, mtime, swept, head, sidecar, job, rewrite, sweep>>
      /\ \A t \in Pins : tag'[t] \notin {NoGen, tag[t]} =>
            \E a \in Branches : head[a] # NoGen /\ tag'[t] = head[a]
  <2>1. tag \in [Pins -> 0..Len(gens)]
    BY DEF RetentionTypeOK
  <2>2. ASSUME NEW t \in Tags, NEW b \in Branches, CreateTag(t, b)
        PROVE  \A p \in Pins : tag'[p] \notin {NoGen, tag[p]} =>
                  \E a \in Branches : head[a] # NoGen /\ tag'[p] = head[a]
    BY <2>1, <2>2 DEF CreateTag
  <2>3. ASSUME NEW t \in Pins, DeleteTag(t)
        PROVE  \A p \in Pins : tag'[p] \in {NoGen, tag[p]}
    BY <2>1, <2>3 DEF DeleteTag
  <2> QED  BY <2>2, <2>3 DEF CreateTag, DeleteTag
<1> QED  BY <1>1, RefsChangeOwe

(* A branch is cut: it drops nothing.                                      *)
LEMMA CutBranchOwes ==
    ASSUME NEW safe \in Passes,
           RetentionTypeOK, LinesFollow, RootsCore(safe), GraceCore(safe), SweepUndisturbed(safe),
           SweepUndisturbed(safe)', NEW b \in Branches, NEW from \in Branches, CutBranch(b, from)
    PROVE  LinesFollow' /\ GraceCore(safe)'
<1> DEFINE pin == <<b, "fork">>
           source == gens[head[from]]
           g == Fork(source, head[from], now)
<1>1. /\ head[b] = NoGen /\ head[from] # NoGen
      /\ tag' = [tag EXCEPT ![pin] = head[from]]
      /\ UNCHANGED <<now, packs, mtime, swept, sidecar, job, rewrite, sweep>>
  BY DEF CutBranch
<1>2. \/ gens' = Append(gens, g) /\ head' = [head EXCEPT ![b] = Len(gens) + 1]
      \/ gens' = gens /\ head' = head
  BY DEF CutBranch
<1>3. /\ Len(gens) \in Nat /\ now \in Nat /\ head[from] \in 1..Len(gens) /\ source \in Gen(Len(packs))
      /\ head \in [Branches -> 0..Len(gens)] /\ tag \in [Pins -> 0..Len(gens)]
      /\ \A c \in Branches : head[c] # NoGen => head[c] \in 1..Len(gens)
  BY <1>1 DEF RetentionTypeOK, NoGen
<1>4. \A t \in Pins : tag'[t] \notin {NoGen, tag[t]} => \E a \in Branches : head[a] # NoGen /\ tag'[t] = head[a]
  BY <1>1, <1>3
<1>5. CASE gens' = gens /\ head' = head
  <2>1. \A c \in Branches : head'[c] \in {head[c], NoGen}
    BY <1>5
  <2> QED  BY <1>1, <1>4, <1>5, <2>1, RefsChangeOwe
<1>6. CASE gens' = Append(gens, g) /\ head' = [head EXCEPT ![b] = Len(gens) + 1]
  <2>1. /\ g.parent = head[from] /\ g.created = now
        /\ g.manifests = source.manifests /\ g.condemned = source.condemned
        /\ g.condemnedManifests = source.condemnedManifests
    <3>1. source \in Gen(Len(packs))
      BY <1>3
    <3> HIDE DEF source
    <3> QED  BY <3>1 DEF Fork, Generation, Gen
  <2>2. \A key \in Objects : Lists(g, key) = Lists(source, key) /\ Ledger(g, key) = Ledger(source, key)
    BY <2>1 DEF Named, Lists, Ledger
  <2>3. Follows(born, g, source, g.created)
    <3>1. Sound(born, source)
      BY <1>3 DEF RootsCore, DocsInv
    <3>2. Sound(born, g)
      BY <2>2, <3>1 DEF Sound, RowsUnlisted
    <3> HIDE DEF g, source
    <3> QED  BY <2>2, <3>2 DEF Follows
  <2>4. g.created <= now /\ source.created <= g.created
    BY <1>3, <2>1 DEF LinesFollow
  <2> HIDE DEF g
  <2>5. /\ LinesFollow'
        /\ \A i \in 1..Len(gens) : \A key \in Objects :
              Owing(gens', Line', now', i, key) = Owes(i, key)
        /\ \A key \in Objects : \A o \in Owing(gens', Line', now', Len(gens) + 1, key) :
              o \in Owes(head[from], key) \/ o.name \in Lists(gens[head[from]], key)
    <3>1. \A c \in Branches : job'[c] \in {job[c], Idle}
      BY <1>1
    <3>2. rewrite' \in {rewrite, Idle} /\ UNCHANGED <<now, packs, mtime>>
      BY <1>1
    <3> QED  BY <1>3, <1>6, <2>1, <2>3, <2>4, <3>1, <3>2, LinesBuild
  <2>6. \A i \in 1..Len(gens) : gens'[i] = gens[i]
    <3>1. gens \in Seq(Gen(Len(packs)))
      BY DEF RetentionTypeOK
    <3> QED  BY <1>6, <3>1
  <2>7. head'[b] = Len(gens) + 1 /\ \A c \in Branches \ {b} : head'[c] = head[c]
    BY <1>3, <1>6
  <2>8. ASSUME NEW c \in Branches, head'[c] # NoGen
        PROVE  \E a \in Branches : \A key \in Objects :
                  \A o \in Owing(gens', Line', now', head'[c], key) : Due(a, key, o)
    <3>1. CASE c = b
      BY <1>1, <2>5, <2>7, <3>1 DEF Due
    <3>2. CASE c # b
      <4>1. head'[c] = head[c] /\ head[c] # NoGen /\ head[c] \in 1..Len(gens)
        BY <1>3, <2>7, <2>8, <3>2
      <4>2. \A key \in Objects : Owing(gens', Line', now', head'[c], key) = Owes(head[c], key)
        BY <2>5, <4>1
      <4> QED  BY <4>1, <4>2 DEF Due
    <3> QED  BY <3>1, <3>2
  <2>9. \A c \in Branches : head[c] = NoGen \/ head'[c] = NoGen \/ head'[c] = head[c]
    BY <1>1, <2>7
  <2> QED  BY <1>1, <1>4, <2>5, <2>6, <2>8, <2>9, RefsOwe
<1> QED  BY <1>2, <1>5, <1>6

-----------------------------------------------------------------------------
(* The sweep, and what roots owe.                                          *)

(* The sweep builds nothing and moves no root.                             *)
LEMMA SweepLines ==
    ASSUME LinesFollow, UNCHANGED <<now, gens, packs, mtime, head, tag, sidecar, work>>
    PROVE  /\ LinesFollow' /\ born' = born /\ Roots' = Roots
           /\ \A r, key : Owes(r, key)' = Owes(r, key)
<1>1. born' = born /\ Roots' = Roots /\ Line' = Line /\ job' = job /\ rewrite' = rewrite
  BY DEF born, Roots, Heads, Line, work
<1>2. LinesFollow'
  BY <1>1 DEF LinesFollow
<1>3. \A r, key : Owes(r, key)' = Owes(r, key)
  BY <1>1 DEF Owes
<1> QED  BY <1>1, <1>2, <1>3

LEMMA IdleOwes ==
    ASSUME NEW safe \in Passes, Unowed(swept)', sweep' = Idle PROVE GraceCore(safe)'
<1>1. sweep'.at = "idle"
  BY DEF Idle
<1> QED  BY <1>1 DEF GraceCore, BranchesOwe, TagsOwe, DoomedUnowed, Decided

LEMMA SweptUnowed ==
    ASSUME LinesFollow, Unowed(swept), UNCHANGED <<now, gens, packs, mtime, swept, head, tag, sidecar, work>>
    PROVE  Unowed(swept)'
<1>1. Roots' = Roots /\ \A r, key : Owes(r, key)' = Owes(r, key)
  BY SweepLines
<1>2. \A key \in Objects : \A r \in Roots' : \A o \in Owes(r, key)' : o.name \notin swept[key]
  BY <1>1 DEF Unowed
<1> QED  BY <1>2 DEF Unowed

(* A pass begins: what a head owes it lists, or has on its ledger, and it  *)
(* is still to be read.                                                    *)
LEMMA PassOwes ==
    ASSUME NEW safe \in Passes, RetentionTypeOK, LinesFollow, Unowed(swept),
           NEW pass \in {1, 2}, NEW at, NEW window, NEW doomed,
           sweep' = [at |-> "branches", pass |-> pass, now |-> at, live |-> Nothing,
                     listed |-> Listed, todo |-> Listed, window |-> window, doomed |-> doomed],
           pass = 2 /\ safe = 1 => Unowed(doomed),
           UNCHANGED <<now, gens, packs, mtime, swept, head, tag, sidecar, work>>
    PROVE  GraceCore(safe)'
<1>1. /\ sweep'.at = "branches" /\ sweep'.pass = pass
      /\ sweep'.todo = Listed /\ sweep'.doomed = doomed
  OBVIOUS
<1>2. Roots' = Roots /\ \A r, key : Owes(r, key)' = Owes(r, key)
  BY SweepLines
<1>3. BranchesOwe(safe)'
  <2> SUFFICES ASSUME NEW b \in Branches, head'[b] # NoGen, NEW key \in Objects,
                      NEW o \in Owing(gens', Line', now', head'[b], key)
               PROVE  Found(key, o.name)' \/ Sent(key, o.name, o.at)'
    BY DEF BranchesOwe, Owes
  <2>1. head'[b] = head[b] /\ gens' = gens /\ head[b] \in 1..Len(gens) /\ o \in Owes(head[b], key)
    <3>1. head'[b] = head[b] /\ gens' = gens /\ head[b] \in 1..Len(gens)
      BY DEF RetentionTypeOK, NoGen
    <3>2. o \in Owing(gens', Line', now', head[b], key)
      BY <3>1
    <3> QED  BY <1>2, <3>1, <3>2 DEF Owes
  <2>2. b \in sweep'.todo
    BY <1>1 DEF Listed
  <2>3. KeptSince(gens[head[b]], key, o.name, o.at)
    BY <2>1, OwesKept
  <2>4. CASE o.name \in Lists(gens[head[b]], key)
    BY <2>1, <2>2, <2>4 DEF Found, Keeps
  <2>5. CASE \E s \in Ledger(gens[head[b]], key) : s.name = o.name /\ s.at >= o.at
    BY <2>1, <2>2, <2>5 DEF Sent
  <2> QED  BY <2>3, <2>4, <2>5 DEF KeptSince
<1>4. TagsOwe(safe)'
  BY <1>1 DEF TagsOwe
<1>5. DoomedUnowed(safe)'
  <2> SUFFICES ASSUME pass = 2, safe = 1
               PROVE  \A key \in Objects : \A r \in Roots' : \A o \in Owes(r, key)' : o.name \notin doomed[key]
    BY <1>1 DEF DoomedUnowed, Unowed, Decided, Owes
  <2> QED  BY <1>2 DEF Unowed
<1>6. Unowed(swept)'
  BY SweptUnowed
<1> QED  BY <1>3, <1>4, <1>5, <1>6 DEF GraceCore

LEMMA SweepStartOwes ==
    ASSUME NEW safe \in Passes, RetentionTypeOK, LinesFollow, RootsCore(safe), GraceCore(safe), SweepStart
    PROVE  LinesFollow' /\ GraceCore(safe)'
<1> DEFINE w == [b \in Branches |-> <<>>]
<1>1. /\ sweep' = [at |-> "branches", pass |-> 1, now |-> now, live |-> Nothing,
                   listed |-> Listed, todo |-> Listed, window |-> w, doomed |-> Nothing]
      /\ UNCHANGED <<now, gens, packs, mtime, swept, head, tag, sidecar, work>>
  BY DEF SweepStart
<1> HIDE DEF w
<1>2. Unowed(swept)
  BY DEF GraceCore
<1>3. LinesFollow'
  BY <1>1, SweepLines
<1>4. GraceCore(safe)'
  BY <1>1, <1>2, PassOwes
<1> QED  BY <1>3, <1>4

LEMMA SweepStopsOwes ==
    ASSUME NEW safe \in Passes, RetentionTypeOK, LinesFollow, RootsCore(safe), GraceCore(safe), SweepStops
    PROVE  LinesFollow' /\ GraceCore(safe)'
<1>1. sweep' = Idle /\ UNCHANGED <<now, gens, packs, mtime, swept, head, tag, sidecar, work>>
  BY DEF SweepStops
<1>2. Unowed(swept)'
  BY <1>1, SweptUnowed DEF GraceCore
<1> QED  BY <1>1, <1>2, SweepLines, IdleOwes

(* What is absorbed of a ledger: the rows that are in their window.        *)
LEMMA AbsorbsRows ==
    ASSUME NEW live, NEW doc, NEW since
    PROVE  \A key \in Objects :
              /\ live[key] \subseteq Absorb(live, doc, since)[key]
              /\ Lists(doc, key) \subseteq Absorb(live, doc, since)[key]
              /\ \A r \in Ledger(doc, key) : sweep.now - r.at < Grace => r.name \in Absorb(live, doc, since)[key]
<1> DEFINE all == Absorb(live, doc, since)
<1>1. /\ all["packs"] = live.packs \cup Named(doc) \cup Standing(doc.condemned, sweep.now, since)
      /\ all["manifests"] = live.manifests \cup doc.manifests
                               \cup Standing(doc.condemnedManifests, sweep.now, since)
  BY DEF Absorb
<1> HIDE DEF all
<1>2. \A key \in Objects : \A r \in Ledger(doc, key) : sweep.now - r.at < Grace =>
         r.name \in Standing(Ledger(doc, key), sweep.now, since)
  BY DEF Standing
<1>3. ASSUME NEW key \in Objects
      PROVE  all[key] = live[key] \cup Lists(doc, key) \cup Standing(Ledger(doc, key), sweep.now, since)
  BY <1>1 DEF Objects, Lists, Ledger
<1>4. ASSUME NEW key \in Objects
      PROVE  /\ live[key] \subseteq all[key] /\ Lists(doc, key) \subseteq all[key]
             /\ \A r \in Ledger(doc, key) : sweep.now - r.at < Grace => r.name \in all[key]
  BY <1>2, <1>3
<1> QED  BY <1>4 DEF all

(* A root is read: what it owes is live from then on.                      *)
LEMMA AbsorbsOwed ==
    ASSUME RetentionTypeOK, LinesFollow, NEW r \in 1..Len(gens), NEW live, NEW since,
           sweep.now \in Nat, sweep.now <= now
    PROVE  \A key \in Objects :
              /\ live[key] \subseteq Absorb(live, gens[r], since)[key]
              /\ \A o \in Owes(r, key) : o.name \in Absorb(live, gens[r], since)[key]
<1> DEFINE doc == gens[r]
<1>1. ASSUME NEW key \in Objects
      PROVE  /\ live[key] \subseteq Absorb(live, doc, since)[key]
             /\ \A o \in Owes(r, key) : o.name \in Absorb(live, doc, since)[key]
  <2>1. /\ live[key] \subseteq Absorb(live, doc, since)[key]
        /\ Lists(doc, key) \subseteq Absorb(live, doc, since)[key]
        /\ \A s \in Ledger(doc, key) : sweep.now - s.at < Grace => s.name \in Absorb(live, doc, since)[key]
    <3> HIDE DEF doc
    <3> QED  BY AbsorbsRows
  <2>2. ASSUME NEW o \in Owes(r, key) PROVE o.name \in Absorb(live, doc, since)[key]
    <3>1. KeptSince(doc, key, o.name, o.at) /\ o.at \in Nat /\ now - o.at < Grace
      BY <2>2, OwesKept
    <3>2. CASE o.name \in Lists(doc, key)
      BY <2>1, <3>2
    <3>3. CASE \E s \in Ledger(doc, key) : s.name = o.name /\ s.at >= o.at
      <4>1. PICK s \in Ledger(doc, key) : s.name = o.name /\ s.at >= o.at
        BY <3>3
      <4>2. s.at \in Nat /\ now \in Nat /\ Grace \in Nat
        BY <4>1, BuiltTypes, RetentionAssumption
      <4>3. sweep.now - s.at < Grace
        BY <3>1, <4>1, <4>2
      <4> QED  BY <2>1, <4>1, <4>3
    <3> QED  BY <3>1, <3>2, <3>3 DEF KeptSince
  <2> QED  BY <2>1, <2>2
<1> QED  BY <1>1

(* What is known of a name stays known while the sweep only reads.         *)
LEMMA SweepReads ==
    ASSUME LinesFollow, Unowed(swept),
           UNCHANGED <<now, gens, packs, mtime, swept, head, tag, sidecar, work>>, sweep'.now = sweep.now
    PROVE  /\ LinesFollow' /\ Unowed(swept)' /\ Roots' = Roots
           /\ \A key \in Objects : \A x : Aged(key, x)' = Aged(key, x)
           /\ \A r, key : Owing(gens', Line', now', r, key) = Owes(r, key)
<1>1. LinesFollow' /\ Roots' = Roots /\ born' = born /\ \A r, key : Owing(gens', Line', now', r, key) = Owes(r, key)
  BY SweepLines DEF Owes
<1>2. \A key \in Objects : \A x : Aged(key, x)' = Aged(key, x)
  BY <1>1 DEF Aged
<1> QED  BY <1>1, <1>2, SweptUnowed

(* A branch is read: what was to be seen of it is live.                    *)
LEMMA SweepBranchOwes ==
    ASSUME NEW safe \in Passes, RetentionTypeOK, LinesFollow, RootsCore(safe), GraceCore(safe),
           SealLimit <= Grace, NEW b \in Branches, SweepBranch(b)
    PROVE  LinesFollow' /\ GraceCore(safe)'
<1>1. PICK docs : sweep' = [sweep EXCEPT !.todo = @ \ {b}, !.window[b] = <<docs>>,
                                         !.live = AbsorbBranch(@, b, docs)]
  BY DEF SweepBranch
<1>2. /\ sweep.at = "branches" /\ b \in sweep.todo /\ head[b] # NoGen
      /\ UNCHANGED <<now, gens, packs, mtime, swept, head, tag, sidecar, work>>
  BY DEF SweepBranch
<1>3. SweepShape /\ BranchesOwe(safe) /\ DoomedUnowed(safe) /\ Unowed(swept)
  BY DEF RootsCore, SweepInv, GraceCore
<1>4. /\ DOMAIN sweep = {"at", "pass", "now", "live", "listed", "todo", "window", "doomed"}
      /\ sweep.now \in Nat /\ sweep.now <= now /\ sweep.todo \subseteq Branches
  BY <1>2, <1>3 DEF SweepShape
<1>5. /\ sweep'.at = sweep.at /\ sweep'.pass = sweep.pass /\ sweep'.now = sweep.now
      /\ sweep'.doomed = sweep.doomed /\ sweep'.todo = sweep.todo \ {b}
      /\ sweep'.live = AbsorbBranch(sweep.live, b, docs)
  BY <1>1, <1>4
<1>6. /\ LinesFollow' /\ Unowed(swept)' /\ Roots' = Roots
      /\ \A key \in Objects : \A x : Aged(key, x)' = Aged(key, x)
      /\ \A r, key : Owing(gens', Line', now', r, key) = Owes(r, key)
  BY <1>2, <1>3, <1>5, SweepReads
<1>7. head[b] \in 1..Len(gens)
  BY <1>2 DEF RetentionTypeOK, NoGen
<1> DEFINE doc == gens[head[b]]
<1>8. \A key \in Objects :
         /\ sweep.live[key] \subseteq sweep'.live[key]
         /\ \A x : Keeps(doc, sweep.now, key, x) => x \in sweep'.live[key]
         /\ \A s \in Ledger(doc, key) : sweep.now - s.at < Grace => s.name \in sweep'.live[key]
  <2> DEFINE one == Absorb(sweep.live, gens[head[b]], Floor(docs))
  <2>1. \A key \in Objects : one[key] \subseteq AbsorbBranch(sweep.live, b, docs)[key]
    BY DEF AbsorbBranch, Union, Objects
  <2>2. doc \in Gen(Len(packs))
    BY <1>7 DEF RetentionTypeOK
  <2>3. \A key \in Objects :
           /\ sweep.live[key] \subseteq one[key]
           /\ \A x : Keeps(doc, sweep.now, key, x) => x \in one[key]
           /\ \A s \in Ledger(doc, key) : sweep.now - s.at < Grace => s.name \in one[key]
    BY <1>4, <2>2, Absorbs, AbsorbsRows
  <2> HIDE DEF one
  <2> QED  BY <1>5, <2>1, <2>3
<1>9. BranchesOwe(safe)'
  <2> SUFFICES ASSUME sweep.pass = safe, NEW c \in Branches, head'[c] # NoGen, NEW key \in Objects,
                      NEW o \in Owing(gens', Line', now', head'[c], key), Aged(key, o.name)'
               PROVE  Found(key, o.name)' \/ Sent(key, o.name, o.at)'
    BY <1>5 DEF BranchesOwe, Owes, Aged
  <2>1. head'[c] = head[c] /\ head[c] \in 1..Len(gens) /\ gens' = gens
    BY <1>2 DEF RetentionTypeOK, NoGen
  <2>2. o \in Owing(gens', Line', now', head[c], key)
    BY <2>1
  <2>3. o \in Owes(head[c], key) /\ Aged(key, o.name)
    BY <1>6, <2>2
  <2>4. Found(key, o.name) \/ Sent(key, o.name, o.at)
    BY <1>2, <1>3, <2>1, <2>3 DEF BranchesOwe
  <2>5. CASE o.name \in sweep.live[key]
    BY <1>8, <2>5 DEF Found
  <2>6. CASE \E a \in sweep.todo : Keeps(gens[head[a]], sweep.now, key, o.name)
    <3>1. PICK a \in sweep.todo : Keeps(gens[head[a]], sweep.now, key, o.name)
      BY <2>6
    <3>2. CASE a = b
      BY <1>8, <3>1, <3>2 DEF Found
    <3>3. CASE a # b
      BY <1>2, <1>5, <3>1, <3>3 DEF Found
    <3> QED  BY <3>2, <3>3
  <2>7. CASE Sent(key, o.name, o.at)
    <3>1. PICK a \in sweep.todo : \E s \in Ledger(gens[head[a]], key) : s.name = o.name /\ s.at >= o.at
      BY <2>7 DEF Sent
    <3>2. PICK s \in Ledger(gens[head[a]], key) : s.name = o.name /\ s.at >= o.at
      BY <3>1
    <3>3. CASE a = b
      <4>1. o.at \in Nat /\ now - o.at < Grace
        BY <2>1, <2>3, OwesKept
      <4>2. s.at \in Nat /\ now \in Nat /\ Grace \in Nat
        BY <1>7, <3>2, <3>3, BuiltTypes, RetentionAssumption
      <4>3. sweep.now - s.at < Grace
        BY <1>4, <3>2, <4>1, <4>2
      <4> QED  BY <1>8, <3>2, <3>3, <4>3 DEF Found
    <3>4. CASE a # b
      BY <1>2, <1>5, <3>1, <3>2, <3>4 DEF Sent
    <3> QED  BY <3>3, <3>4
  <2> QED  BY <2>4, <2>5, <2>6, <2>7 DEF Found
<1>10. TagsOwe(safe)'
  BY <1>2, <1>5 DEF TagsOwe
<1>11. DoomedUnowed(safe)'
  <2> SUFFICES ASSUME sweep.pass = 2, safe = 1
               PROVE  \A key \in Objects : \A r \in Roots' : \A o \in Owing(gens', Line', now', r, key) :
                         o.name \notin sweep.doomed[key]
    BY <1>2, <1>5 DEF DoomedUnowed, Unowed, Decided, Owes
  <2>1. Unowed(sweep.doomed)
    BY <1>2, <1>3 DEF DoomedUnowed, Decided
  <2> QED  BY <1>6, <2>1 DEF Unowed
<1> QED  BY <1>6, <1>9, <1>10, <1>11 DEF GraceCore

(* Every branch was read: what an aged name needs is live.                 *)
LEMMA SweepTagsOwes ==
    ASSUME NEW safe \in Passes, RetentionTypeOK, LinesFollow, RootsCore(safe), GraceCore(safe), SweepTags
    PROVE  LinesFollow' /\ GraceCore(safe)'
<1>1. /\ sweep' = [sweep EXCEPT !.at = "tags", !.todo = {t \in Pins : tag[t] # NoGen}]
      /\ sweep.at = "branches" /\ sweep.todo = {}
      /\ UNCHANGED <<now, gens, packs, mtime, swept, head, tag, sidecar, work>>
  BY DEF SweepTags
<1>2. SweepShape /\ BranchesOwe(safe) /\ DoomedUnowed(safe) /\ Unowed(swept)
  BY DEF RootsCore, SweepInv, GraceCore
<1>3. DOMAIN sweep = {"at", "pass", "now", "live", "listed", "todo", "window", "doomed"}
  BY <1>1, <1>2 DEF SweepShape
<1>4. /\ sweep'.at = "tags" /\ sweep'.pass = sweep.pass /\ sweep'.now = sweep.now
      /\ sweep'.doomed = sweep.doomed /\ sweep'.todo = {t \in Pins : tag[t] # NoGen}
      /\ sweep'.live = sweep.live
  BY <1>1, <1>3
<1>5. /\ LinesFollow' /\ Unowed(swept)' /\ Roots' = Roots
      /\ \A key \in Objects : \A x : Aged(key, x)' = Aged(key, x)
      /\ \A r, key : Owing(gens', Line', now', r, key) = Owes(r, key)
  BY <1>1, <1>2, <1>4, SweepReads
<1>6. TagsOwe(safe)'
  <2>1. sweep.pass = safe => \A b \in Branches : head[b] # NoGen => \A key \in Objects :
           \A o \in Owes(head[b], key) : Aged(key, o.name) => o.name \in sweep.live[key]
    BY <1>1, <1>2 DEF BranchesOwe, Found, Sent
  <2> SUFFICES ASSUME sweep.pass = safe, NEW key \in Objects
               PROVE  /\ \A b \in Branches : head'[b] # NoGen =>
                            \A o \in Owing(gens', Line', now', head'[b], key) :
                               Aged(key, o.name)' => o.name \in sweep'.live[key]
                      /\ \A t \in Pins \ sweep'.todo : tag'[t] = NoGen
    BY <1>4 DEF TagsOwe, Owes, Aged
  <2>2. \A t \in Pins \ sweep'.todo : tag'[t] = NoGen
    BY <1>1, <1>4
  <2>3. ASSUME NEW b \in Branches, head'[b] # NoGen, NEW o \in Owing(gens', Line', now', head'[b], key),
               Aged(key, o.name)'
        PROVE  o.name \in sweep'.live[key]
    <3>1. head'[b] = head[b]
      BY <1>1
    <3>2. o \in Owing(gens', Line', now', head[b], key)
      BY <2>3, <3>1
    <3>3. o \in Owes(head[b], key) /\ Aged(key, o.name)
      BY <1>5, <2>3, <3>2
    <3> QED  BY <1>4, <2>1, <2>3, <3>1, <3>3
  <2> QED  BY <2>2, <2>3
<1>7. BranchesOwe(safe)'
  BY <1>4 DEF BranchesOwe
<1>8. DoomedUnowed(safe)'
  <2> SUFFICES ASSUME sweep.pass = 2, safe = 1
               PROVE  \A key \in Objects : \A r \in Roots' : \A o \in Owing(gens', Line', now', r, key) :
                         o.name \notin sweep.doomed[key]
    BY <1>4 DEF DoomedUnowed, Unowed, Decided, Owes
  <2>1. Unowed(sweep.doomed)
    BY <1>1, <1>2 DEF DoomedUnowed, Decided
  <2> QED  BY <1>5, <2>1 DEF Unowed
<1> QED  BY <1>5, <1>6, <1>7, <1>8 DEF GraceCore

LEMMA SweepTagOwes ==
    ASSUME NEW safe \in Passes, RetentionTypeOK, LinesFollow, RootsCore(safe), GraceCore(safe),
           NEW t \in Pins, SweepTag(t)
    PROVE  LinesFollow' /\ GraceCore(safe)'
<1>1. /\ sweep' = [sweep EXCEPT !.todo = @ \ {t}, !.live = Absorb(@, gens[tag[t]], 0)]
      /\ sweep.at = "tags" /\ t \in sweep.todo /\ tag[t] # NoGen
      /\ UNCHANGED <<now, gens, packs, mtime, swept, head, tag, sidecar, work>>
  BY DEF SweepTag
<1>2. SweepShape /\ TagsOwe(safe) /\ DoomedUnowed(safe) /\ Unowed(swept)
  BY DEF RootsCore, SweepInv, GraceCore
<1>3. /\ DOMAIN sweep = {"at", "pass", "now", "live", "listed", "todo", "window", "doomed"}
      /\ sweep.now \in Nat /\ sweep.now <= now
  BY <1>1, <1>2 DEF SweepShape
<1>4. /\ sweep'.at = "tags" /\ sweep'.pass = sweep.pass /\ sweep'.now = sweep.now
      /\ sweep'.doomed = sweep.doomed /\ sweep'.todo = sweep.todo \ {t}
      /\ sweep'.live = Absorb(sweep.live, gens[tag[t]], 0)
  BY <1>1, <1>3
<1>5. /\ LinesFollow' /\ Unowed(swept)' /\ Roots' = Roots
      /\ \A key \in Objects : \A x : Aged(key, x)' = Aged(key, x)
      /\ \A r, key : Owing(gens', Line', now', r, key) = Owes(r, key)
  BY <1>1, <1>2, <1>4, SweepReads
<1>6. \A key \in Objects : /\ sweep.live[key] \subseteq sweep'.live[key]
                           /\ \A o \in Owes(tag[t], key) : o.name \in sweep'.live[key]
  <2> DEFINE r == tag[t]
             live == sweep.live
  <2>1. r \in 1..Len(gens)
    BY <1>1 DEF RetentionTypeOK, NoGen
  <2>2. sweep'.live = Absorb(live, gens[r], 0)
    BY <1>4
  <2> HIDE DEF r, live
  <2>3. \A key \in Objects :
           /\ live[key] \subseteq Absorb(live, gens[r], 0)[key]
           /\ \A o \in Owes(r, key) : o.name \in Absorb(live, gens[r], 0)[key]
    BY <1>3, <2>1, AbsorbsOwed
  <2> QED  BY <2>2, <2>3 DEF r, live
<1>7. TagsOwe(safe)'
  <2> SUFFICES ASSUME sweep.pass = safe, NEW key \in Objects
               PROVE  /\ \A b \in Branches : head'[b] # NoGen =>
                            \A o \in Owing(gens', Line', now', head'[b], key) :
                               Aged(key, o.name)' => o.name \in sweep'.live[key]
                      /\ \A u \in Pins \ sweep'.todo : tag'[u] # NoGen =>
                            \A o \in Owing(gens', Line', now', tag'[u], key) :
                               Aged(key, o.name)' => o.name \in sweep'.live[key]
    BY <1>4 DEF TagsOwe, Owes, Aged
  <2>1. ASSUME NEW b \in Branches, head'[b] # NoGen, NEW o \in Owing(gens', Line', now', head'[b], key),
               Aged(key, o.name)'
        PROVE  o.name \in sweep'.live[key]
    <3>1. head'[b] = head[b]
      BY <1>1
    <3>2. o \in Owing(gens', Line', now', head[b], key)
      BY <2>1, <3>1
    <3>3. o \in Owes(head[b], key) /\ Aged(key, o.name)
      BY <1>5, <2>1, <3>2
    <3> QED  BY <1>1, <1>2, <1>6, <2>1, <3>1, <3>3 DEF TagsOwe
  <2>2. ASSUME NEW u \in Pins \ sweep'.todo, tag'[u] # NoGen, NEW o \in Owing(gens', Line', now', tag'[u], key),
               Aged(key, o.name)'
        PROVE  o.name \in sweep'.live[key]
    <3>1. tag'[u] = tag[u]
      BY <1>1
    <3>2. o \in Owing(gens', Line', now', tag[u], key)
      BY <2>2, <3>1
    <3>3. o \in Owes(tag[u], key) /\ Aged(key, o.name)
      BY <1>5, <2>2, <3>2
    <3>4. CASE u = t
      BY <1>6, <3>3, <3>4
    <3>5. CASE u # t
      <4>1. u \in Pins \ sweep.todo
        BY <1>4, <2>2, <3>5
      <4> QED  BY <1>1, <1>2, <1>6, <2>2, <3>1, <3>3, <4>1 DEF TagsOwe
    <3> QED  BY <3>4, <3>5
  <2> QED  BY <2>1, <2>2
<1>8. BranchesOwe(safe)'
  BY <1>4 DEF BranchesOwe
<1>9. DoomedUnowed(safe)'
  <2> SUFFICES ASSUME sweep.pass = 2, safe = 1
               PROVE  \A key \in Objects : \A r \in Roots' : \A o \in Owing(gens', Line', now', r, key) :
                         o.name \notin sweep.doomed[key]
    BY <1>4 DEF DoomedUnowed, Unowed, Decided, Owes
  <2>1. Unowed(sweep.doomed)
    BY <1>1, <1>2 DEF DoomedUnowed, Decided
  <2> QED  BY <1>5, <2>1 DEF Unowed
<1> QED  BY <1>5, <1>7, <1>8, <1>9 DEF GraceCore

(* What the safe pass has not found, and is aged, no root owes.            *)
LEMMA NotOwed ==
    ASSUME NEW safe \in Passes, TagsOwe(safe),
           sweep.at = "tags", sweep.todo = {}, sweep.pass = safe,
           NEW doomed, \A key \in Objects : \A x \in doomed[key] : Aged(key, x) /\ x \notin sweep.live[key]
    PROVE  Unowed(doomed)
<1> SUFFICES ASSUME NEW key \in Objects, NEW r \in Roots, NEW o \in Owes(r, key), o.name \in doomed[key]
             PROVE  FALSE
  BY DEF Unowed
<1>1. (\E b \in Branches : r = head[b] /\ head[b] # NoGen) \/ (\E t \in Pins : r = tag[t] /\ tag[t] # NoGen)
  BY DEF Roots, Heads
<1>2. Aged(key, o.name) /\ o.name \notin sweep.live[key]
  OBVIOUS
<1>3. o.name \in sweep.live[key]
  BY <1>1, <1>2 DEF TagsOwe
<1> QED  BY <1>2, <1>3

LEMMA SweepScanOwes ==
    ASSUME NEW safe \in Passes, RetentionTypeOK, LinesFollow, RootsCore(safe), GraceCore(safe), SweepScan
    PROVE  LinesFollow' /\ GraceCore(safe)'
<1> DEFINE doomed == [packs |-> {p \in Existing \ sweep.live.packs : Old(packs[p].born)},
                      manifests |-> {m \in (DOMAIN mtime \ swept.manifests) \ sweep.live.manifests :
                                        Old(mtime[m])}]
<1>1. /\ sweep.at = "tags" /\ sweep.todo = {} /\ sweep.pass = 1
      /\ sweep' = IF doomed = Nothing THEN Idle
                  ELSE [sweep EXCEPT !.at = "branches", !.pass = 2, !.doomed = doomed,
                           !.live = Nothing, !.listed = Listed, !.todo = Listed]
      /\ UNCHANGED <<now, gens, packs, mtime, swept, head, tag, sidecar, work>>
  BY DEF SweepScan
<1>2. SweepShape /\ TagsOwe(safe) /\ Unowed(swept)
  BY DEF RootsCore, SweepInv, GraceCore
<1>3. DOMAIN sweep = {"at", "pass", "now", "live", "listed", "todo", "window", "doomed"}
  BY <1>1, <1>2 DEF SweepShape
<1>4. \A key \in Objects : \A x \in doomed[key] : Aged(key, x) /\ x \notin sweep.live[key]
  BY Born DEF Objects, Old, Existing, Aged
<1> HIDE DEF doomed
<1>5. LinesFollow' /\ Unowed(swept)'
  BY <1>1, <1>2, SweepLines, SweptUnowed
<1>6. CASE doomed = Nothing
  BY <1>1, <1>5, <1>6, IdleOwes
<1>7. CASE doomed # Nothing
  <2> DEFINE window == sweep.window
             at == sweep.now
  <2>1. sweep' = [at |-> "branches", pass |-> 2, now |-> at, live |-> Nothing,
                  listed |-> Listed, todo |-> Listed, window |-> window, doomed |-> doomed]
    BY <1>1, <1>3, <1>7
  <2>2. safe = 1 => Unowed(doomed)
    BY <1>1, <1>2, <1>4, NotOwed
  <2> HIDE DEF window, at
  <2>3. GraceCore(safe)'
    BY <1>1, <1>2, <2>1, <2>2, PassOwes
  <2> QED  BY <1>5, <2>3
<1> QED  BY <1>6, <1>7

(* The recompute: no root owes what is left to delete.                     *)
LEMMA SweepSpareOwes ==
    ASSUME NEW safe \in Passes, RetentionTypeOK, LinesFollow, RootsCore(safe), GraceCore(safe), SweepSpare
    PROVE  LinesFollow' /\ GraceCore(safe)'
<1> DEFINE doomed == [packs |-> sweep.doomed.packs \ sweep.live.packs,
                      manifests |-> sweep.doomed.manifests \ sweep.live.manifests]
<1>1. /\ sweep.at = "tags" /\ sweep.todo = {} /\ sweep.pass = 2
      /\ sweep' = IF doomed = Nothing THEN Idle ELSE [at |-> "deletes", doomed |-> doomed]
      /\ UNCHANGED <<now, gens, packs, mtime, swept, head, tag, sidecar, work>>
  BY DEF SweepSpare
<1>2. SweepShape /\ TagsOwe(safe) /\ DoomedUnowed(safe) /\ Unowed(swept)
  BY DEF RootsCore, SweepInv, GraceCore
<1>3. \A key \in Objects : doomed[key] = sweep.doomed[key] \ sweep.live[key]
  BY DEF Objects
<1> HIDE DEF doomed
<1>4. LinesFollow' /\ Unowed(swept)' /\ Roots' = Roots /\ \A r, key : Owing(gens', Line', now', r, key) = Owes(r, key)
  BY <1>1, <1>2, SweepLines, SweptUnowed DEF Owes
<1>5. Unowed(doomed)
  <2>1. CASE safe = 2
    <3>1. \A key \in Objects : \A x \in doomed[key] : Aged(key, x) /\ x \notin sweep.live[key]
      BY <1>1, <1>2, <1>3 DEF SweepShape
    <3> QED  BY <1>1, <1>2, <2>1, <3>1, NotOwed
  <2>2. CASE safe = 1
    <3>1. Unowed(sweep.doomed)
      BY <1>1, <1>2, <2>2 DEF DoomedUnowed, Decided
    <3> QED  BY <1>3, <3>1 DEF Unowed
  <2> QED  BY <2>1, <2>2 DEF Passes
<1>6. CASE doomed = Nothing
  BY <1>1, <1>4, <1>6, IdleOwes
<1>7. CASE doomed # Nothing
  <2>1. sweep'.at = "deletes" /\ sweep'.doomed = doomed
    BY <1>1, <1>7
  <2>2. BranchesOwe(safe)' /\ TagsOwe(safe)'
    BY <2>1 DEF BranchesOwe, TagsOwe
  <2>3. DoomedUnowed(safe)'
    <3> SUFFICES \A key \in Objects : \A r \in Roots' : \A o \in Owing(gens', Line', now', r, key) :
                    o.name \notin doomed[key]
      BY <2>1 DEF DoomedUnowed, Unowed, Owes
    <3> QED  BY <1>4, <1>5 DEF Unowed
  <2> QED  BY <1>4, <2>2, <2>3 DEF GraceCore
<1> QED  BY <1>6, <1>7

(* One more of the doomed is swept: it is not owed.                        *)
LEMMA SweepDeleteOwes ==
    ASSUME NEW safe \in Passes, RetentionTypeOK, LinesFollow, RootsCore(safe), GraceCore(safe), SweepDelete
    PROVE  LinesFollow' /\ GraceCore(safe)'
<1> DEFINE d == sweep.doomed
<1>0. PICK key \in Objects : \E x \in d[key] :
         /\ swept' = [swept EXCEPT ![key] = @ \cup {x}]
         /\ sweep' = LET left == [d EXCEPT ![key] = @ \ {x}]
                     IN IF left = Nothing THEN Idle ELSE [sweep EXCEPT !.doomed = left]
  BY DEF SweepDelete, Objects
<1>1. PICK x \in d[key] :
         /\ swept' = [swept EXCEPT ![key] = @ \cup {x}]
         /\ sweep' = LET left == [d EXCEPT ![key] = @ \ {x}]
                     IN IF left = Nothing THEN Idle ELSE [sweep EXCEPT !.doomed = left]
  BY <1>0
<1>2. sweep.at = "deletes" /\ UNCHANGED <<now, gens, packs, mtime, head, tag, sidecar, work>>
  BY DEF SweepDelete
<1>3. SweptInv /\ SweepShape /\ DoomedUnowed(safe) /\ Unowed(swept)
  BY DEF RootsCore, SweepInv, GraceCore
<1>4. DOMAIN swept = Objects /\ DOMAIN d = Objects /\ DOMAIN sweep = {"at", "doomed"}
  BY <1>2, <1>3 DEF SweptInv, SweepShape
<1>5. LinesFollow' /\ Roots' = Roots /\ \A r, k : Owing(gens', Line', now', r, k) = Owes(r, k)
  BY <1>2, SweepLines DEF Owes
<1>6. Unowed(d)
  BY <1>2, <1>3 DEF DoomedUnowed, Decided
<1>7. \A k \in Objects : swept'[k] \subseteq swept[k] \cup d[k]
  BY <1>1, <1>4
<1> DEFINE left == [d EXCEPT ![key] = @ \ {x}]
<1>8. \A k \in Objects : left[k] \subseteq d[k]
  BY <1>4
<1>9. sweep' = IF left = Nothing THEN Idle ELSE [sweep EXCEPT !.doomed = left]
  BY <1>1
<1> HIDE DEF left, d
<1>10. Unowed(swept)'
  <2> SUFFICES \A k \in Objects : \A r \in Roots' : \A o \in Owing(gens', Line', now', r, k) : o.name \notin swept'[k]
    BY DEF Unowed, Owes
  <2> QED  BY <1>3, <1>5, <1>6, <1>7 DEF Unowed
<1>11. CASE left = Nothing
  BY <1>5, <1>9, <1>10, <1>11, IdleOwes
<1>12. CASE left # Nothing
  <2>1. sweep'.at = "deletes" /\ sweep'.doomed = left
    BY <1>2, <1>4, <1>9, <1>12
  <2>2. BranchesOwe(safe)' /\ TagsOwe(safe)'
    BY <2>1 DEF BranchesOwe, TagsOwe
  <2>3. DoomedUnowed(safe)'
    <3> SUFFICES \A k \in Objects : \A r \in Roots' : \A o \in Owing(gens', Line', now', r, k) :
                    o.name \notin left[k]
      BY <2>1 DEF DoomedUnowed, Unowed, Owes
    <3> QED  BY <1>5, <1>6, <1>8 DEF Unowed
  <2> QED  BY <1>5, <1>10, <2>2, <2>3 DEF GraceCore
<1> QED  BY <1>11, <1>12

(* Every step, while no sweep is disturbed.                                *)
LEMMA StepOwes ==
    ASSUME NEW safe \in Passes, SealLimit <= Grace, RetentionTypeOK, LinesFollow, RootsCore(safe), GraceCore(safe),
           SweepUndisturbed(safe), SweepUndisturbed(safe)', [Next]_vars
    PROVE  LinesFollow' /\ GraceCore(safe)'
<1> DEFINE Kept == LinesFollow' /\ GraceCore(safe)'
<1>1. ASSUME NEW b \in Branches, Publish(b) PROVE Kept
  BY <1>1, SealUploadOwes, SealFlipOwes, EndsOwe DEF Publish
<1>2. ASSUME Repack PROVE Kept
  <2>1. ASSUME NEW b \in Repacked, RepackPlan(b) PROVE Kept
    BY <2>1, EndsOwe, RetentionAssumption
  <2> QED  BY <1>2, <2>1, RepackWriteOwes, RepackFlipOwes, EndsOwe DEF Repack
<1>3. ASSUME GC PROVE Kept
  BY <1>3, SweepStartOwes, SweepTagsOwes, SweepScanOwes, SweepSpareOwes, SweepDeleteOwes,
     SweepStopsOwes, SweepBranchOwes, SweepTagOwes DEF GC
<1>4. CASE UNCHANGED vars
  BY <1>4, EndsOwe
<1>5. ASSUME NEW b \in Deletable, DeleteBranch(b) PROVE Kept
  BY <1>5, DeleteBranchOwes, RetentionAssumption
<1>6. ASSUME NEW b \in Branches, NEW from \in Branches, CutBranch(b, from) PROVE Kept
  BY <1>6, CutBranchOwes
<1>7. ASSUME NEW b \in Branches, NEW t \in Tags, CreateTag(t, b) PROVE Kept
  BY <1>7, TagsChangeOwe
<1>8. ASSUME NEW t \in Pins, DeleteTag(t) PROVE Kept
  BY <1>8, TagsChangeOwe
<1> QED  BY <1>1, <1>2, <1>3, <1>4, <1>5, <1>6, <1>7, <1>8, TickOwes DEF Next

-----------------------------------------------------------------------------
(* Readers keep what they mounted for the grace window.                    *)

GraceInv(safe) == RootsInv(safe) /\ LinesFollow /\ GraceCore(safe)

LEMMA GraceReads ==
    ASSUME NEW safe \in Passes, GraceInv(safe)
    PROVE  GraceHolds
<1>1. RetentionTypeOK /\ FilesHeld /\ LinesFollow /\ Unowed(swept)
  BY DEF GraceInv, RootsInv, LedgerInv, ContentInv, GraceCore
<1> SUFFICES ASSUME NEW r \in Roots, NEW g \in Line[r], gens[g].parent # NoGen, now - gens[g].created < Grace
             PROVE  Readable(gens[g].parent)
  BY DEF GraceHolds
<1> DEFINE h == gens[g].parent
<1>2. r \in 1..Len(gens)
  BY <1>1 DEF RetentionTypeOK, Roots, Heads, NoGen
<1>3. g \in 1..Len(gens) /\ Len(gens) \in Nat
  BY <1>1, <1>2, LineKeeps, BuiltTypes
<1>4. h \in 1..Len(gens)
  BY <1>1, <1>3 DEF LinesFollow, NoGen
<1>5. gens[h].files \subseteq Holding(packs, gens[h])
  BY <1>1, <1>4 DEF FilesHeld
<1>6. ASSUME NEW key \in Objects, NEW x \in Lists(gens[h], key) PROVE x \notin swept[key]
  <2> DEFINE o == [name |-> x, at |-> gens[g].created]
  <2>1. o \in Owes(r, key)
    BY OwingMember DEF Owes
  <2> QED  BY <1>1, <2>1 DEF Unowed
<1> HIDE DEF h
<1>7. Named(gens[h]) \cap swept.packs = {} /\ gens[h].manifests \cap swept.manifests = {}
  BY <1>6 DEF Objects, Lists
<1>8. Named(gens[h]) \ swept.packs = Named(gens[h])
  BY <1>7
<1>9. Readable(h)
  BY <1>5, <1>7, <1>8 DEF Readable, Holding
<1> QED  BY <1>9 DEF h

LEMMA GraceBegins ==
    ASSUME NEW safe \in Passes, Init
    PROVE  GraceInv(safe)
<1>1. swept = Nothing /\ sweep.at = "idle"
  BY DEF Init, Idle
<1>2. GraceCore(safe)
  BY <1>1 DEF GraceCore, Unowed, BranchesOwe, TagsOwe, DoomedUnowed, Decided, Nothing, Objects
<1> QED  BY <1>2, InitSpares, InitInv DEF GraceInv

LEMMA StepGrace ==
    ASSUME NEW safe \in Passes, SealLimit <= Grace, GraceInv(safe),
           SweepUndisturbed(safe), SweepUndisturbed(safe)', [Next]_vars
    PROVE  GraceInv(safe)'
<1>1. RetentionTypeOK /\ RootsCore(safe) /\ RootsInv(safe) /\ LinesFollow /\ GraceCore(safe)
  BY DEF GraceInv, RootsInv, RootsCore, LedgerInv
<1>2. RootsInv(safe)'
  BY <1>1, StepInv
<1>3. LinesFollow' /\ GraceCore(safe)'
  BY <1>1, StepOwes
<1> QED  BY <1>2, <1>3 DEF GraceInv

(* A reader keeps the generation it mounted for the grace window after its *)
(* successor is stamped, under every root and whatever is sealed, merged,  *)
(* repacked, cut, tagged and swept meanwhile, when the window covers a     *)
(* publish and one of the two passes of the sweep is not outrun by the     *)
(* branches it has yet to read.                                            *)
THEOREM GraceKept ==
    ASSUME SealLimit <= Grace
    PROVE  Spec /\ ([]SweepUndisturbed(1) \/ []SweepUndisturbed(2)) => []GraceHolds
<1>0. 1 \in Passes /\ 2 \in Passes
  BY DEF Passes
<1>1. /\ GraceInv(1) => GraceHolds
      /\ GraceInv(2) => GraceHolds
  BY <1>0, GraceReads
<1>2. /\ Init => GraceInv(1)
      /\ Init => GraceInv(2)
  BY <1>0, GraceBegins
<1>3. /\ GraceInv(1) /\ SweepUndisturbed(1) /\ SweepUndisturbed(1)' /\ [Next]_vars => GraceInv(1)'
      /\ GraceInv(2) /\ SweepUndisturbed(2) /\ SweepUndisturbed(2)' /\ [Next]_vars => GraceInv(2)'
  BY <1>0, StepGrace
<1> QED  BY <1>1, <1>2, <1>3, PTL DEF Spec

=============================================================================
