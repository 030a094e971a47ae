---------------------------- MODULE OverlayRebase ----------------------------
(***************************************************************************)
(* The overlay of a writable mount, its checkpoints and its rebases        *)
(* (internal/overlay, with the residency table and the swap of             *)
(* internal/genfs and the checkpoint of cmd/pelfs/mountgen.go).            *)
(*                                                                         *)
(* The mount serves a generation, the base, under tables of what the       *)
(* session changed.  A checkpoint freezes the merged view, publishes it,   *)
(* swaps the base for it and then drops the rows that have become          *)
(* redundant, a batch of inodes at a time, with users at work between any  *)
(* two of these steps.                                                     *)
(*                                                                         *)
(* Abstractions: a node is its type, what it holds and its link count (a   *)
(* directory's is a function of its names); attributes, extended           *)
(* attributes and content share one row; a table is a partial function; a  *)
(* modification sequence is before or since the last freeze; a batch is    *)
(* one inode; the seal publishes the whole frozen view.                    *)
(***************************************************************************)
EXTENDS Integers, FiniteSets, Sequences, Functions

CONSTANTS
    MaxInode,    \* bound: inode numbers
    Names,       \* names in a directory
    Data,        \* what a file may hold
    Trees,       \* the generations a session may start over
    MaxOps,      \* bound: operations of users
    MaxFaults,   \* bound: evictions, failures and crashes
    MaxGens      \* bound: generations

ASSUME OverlayAssumption ==
    {MaxInode, MaxOps, MaxFaults, MaxGens} \subseteq Nat /\ IsFiniteSet(Names)

VARIABLES
    row,         \* onode and ocontent: the inodes that differ from the base
    edge,        \* oedge: <<directory, name>> -> inode, 0 for a whiteout
    obase,       \* where the base has an inode that moved away
    recorded,    \* meta: the generation the tables are over
    fresh,       \* meta: the next inode number
    gens,        \* the generations published
    served,      \* the one the mount serves as its base
    res,         \* genfs: how each resident inode was reached
    prov,        \* how the base was descended to an inode, as remembered
    stamp,       \* modSeq: "before" or "since" the last freeze
    pending,     \* snapEdges: the namespace of the last freeze
    job,         \* the checkpoint under way
    state,       \* "up", "down" (crashed), "refused" (at reopening)
    torn,        \* history: "rebase", one was cut short or gave an inode up;
                 \* "stale", an inode was moved whose stored way to the base
                 \* was none; "short", the process died over a way without
                 \* its end
    ops,         \* bound: operations so far
    faults       \* bound: faults so far

tables   == <<row, edge, obase>>
memory   == <<res, prov>>
vars == <<tables, recorded, fresh, gens, served, memory, stamp, pending, job, state, torn,
          ops, faults>>

Inodes == 1..MaxInode
Root == 1

NoWhere == [x \in {} |-> x]    \* the empty table
NoNode == [type |-> "none", data |-> "none", links |-> 0]
Dir == [type |-> "dir", data |-> "none", links |-> 1]
File(d) == [type |-> "file", data |-> d, links |-> 1]

Idle == [at |-> "idle"]
Nothing == [names |-> {}, byInode |-> NoWhere]

Without(f, S) == Restrict(f, DOMAIN f \ S)
Over(f, g) == [x \in DOMAIN f \cup DOMAIN g |-> IF x \in DOMAIN f THEN f[x] ELSE g[x]]
Put(f, x, v) == Over([y \in {x} |-> v], f)

Slot == Inodes \X Names

Named(t, i) == {e \in DOMAIN t.names : t.names[e] = i}

IsNode(v) ==
    /\ v \in [type : {"dir", "file"}, data : {v.data}, links : Nat \ {0}]
    /\ v.type = "dir" => v.links = 1

(* A generation: names of directories in it, for all of it but the root;   *)
(* one for a directory, as many as are counted for a file; and everything  *)
(* is reached from the root.                                               *)
IsTree(t) ==
    /\ Root \in DOMAIN t.nodes /\ DOMAIN t.nodes \subseteq Inodes
    /\ \A i \in DOMAIN t.nodes : IsNode(t.nodes[i])
    /\ t.nodes[Root].type = "dir"
    /\ \A e \in DOMAIN t.names :
          /\ e \in Slot /\ e[1] \in DOMAIN t.nodes /\ t.nodes[e[1]].type = "dir"
          /\ t.names[e] \in DOMAIN t.nodes \ {Root}
    /\ \A i \in DOMAIN t.nodes \ {Root} : t.nodes[i].links = Cardinality(Named(t, i))
    /\ \A S \in SUBSET DOMAIN t.nodes :
          Root \in S /\ (\A e \in DOMAIN t.names : e[1] \in S => t.names[e] \in S)
             => S = DOMAIN t.nodes

ASSUME TreesAssumption ==
    \A t \in Trees : IsTree(t) /\ DOMAIN t.nodes = 1..Cardinality(DOMAIN t.nodes)

-----------------------------------------------------------------------------
(* The merged view.                                                        *)

Base == gens[served]

(* An inode with no row of its own may have a base half.                   *)
Backed(i) == i \in DOMAIN row => row[i].base

(* resolveLocked: a whiteout wins, then an edge, then the base.            *)
Entry(e) ==
    IF e \in DOMAIN edge THEN edge[e]
    ELSE IF Backed(e[1]) /\ e \in DOMAIN Base.names THEN Base.names[e] ELSE 0

(* attrsLocked: the row, else the base.                                    *)
Node(i) ==
    IF i \in DOMAIN row THEN row[i].node
    ELSE IF i \in DOMAIN Base.nodes THEN Base.nodes[i] ELSE NoNode

IsDir(i) == Node(i).type = "dir"

Children(S) == {Entry(e) : e \in (S \X Names)} \ {0}

Kids == [i \in Inodes |-> IF IsDir(i) THEN Children({i}) ELSE {}]

(* What is reached from i, given what is under each inode.                 *)
Reach(kids, i) ==
    LET down[k \in 0..MaxInode] ==
          IF k = 0 THEN {i} ELSE LET c == down[k - 1] IN c \cup UNION {kids[x] : x \in c}
    IN  down[MaxInode]

(* The inodes at or below i.                                               *)
Below(i) == Reach(Kids, i)

Live  == Below(Root)
Dirs  == {i \in Live : IsDir(i)}
Files == {i \in Live : Node(i).type = "file"}

View == LET live == Live
        IN  [names |-> [e \in {x \in {i \in live : IsDir(i)} \X Names : Entry(x) # 0} |-> Entry(e)],
             nodes |-> [i \in live |-> Node(i)]]

-----------------------------------------------------------------------------
(* Reaching the base.  genfs serves an inode only after a descent, and     *)
(* what it remembers of one may be evicted or lost in a swap.              *)

Ends(at) == [at |-> at, steps |-> NoWhere]

(* The last step to x in the base, from where the way that is remembered   *)
(* and the one that is stored lead to.                                     *)
Replay(x, known, stored) ==
    LET leads(w, f) == x \in DOMAIN f /\ w.at = "here" /\ f[x] \in DOMAIN Base.names
        by(w, f) == [at |-> IF Base.names[f[x]] = x THEN "here" ELSE "lost",
                     steps |-> Put(w.steps, Base.names[f[x]], f[x])]
    IN  IF known.at = "refused" THEN known
        ELSE IF leads(known, prov) /\ Base.names[prov[x]] = x THEN by(known, prov)
        ELSE IF x \notin DOMAIN obase THEN Ends("lost")
        ELSE IF leads(stored, obase) THEN by(stored, obase) ELSE Ends("refused")

(* ensureBaseLocked: an inode is "here", or "lost" when there is no way    *)
(* back to it, or the way is refused; and the steps taken in the base.     *)
Ensure(i) ==
    LET way[s \in (0..MaxInode) \X Inodes] ==
          LET ino == s[2]
              up(f) == IF ino \in DOMAIN f THEN way[<<s[1] - 1, f[ino][1]>>] ELSE Ends("lost")
          IN  IF ino = Root \/ ino \in DOMAIN res THEN Ends("here")
              ELSE IF s[1] = 0 THEN Ends("refused")
              ELSE Replay(ino, up(prov), up(obase))
    IN  way[<<MaxInode, i>>]

Here(i) == Ensure(i).at = "here"

(* An inode whose attributes can be answered, and one that can be listed.  *)
Answers(i) == i \in DOMAIN row \/ Here(i)
Lists(i) == Backed(i) => Here(i)

ViaBase(e) == e \notin DOMAIN edge /\ Backed(e[1]) /\ e \in DOMAIN Base.names

(* What resolving a name teaches of the base.                              *)
Learnt(e) ==
    IF ViaBase(e) THEN Put(Ensure(e[1]).steps, Base.names[e], e)
    ELSE IF Entry(e) \in Inodes \ DOMAIN row THEN Over(Ensure(Entry(e)).steps, Ensure(e[1]).steps)
    ELSE Ensure(e[1]).steps

Learn(steps) == res' = Over(steps, res) /\ prov' = Over(steps, prov)

(* The base halves a descent from the root by name reaches.                *)
Descended ==
    LET w[k \in 0..MaxInode] ==
          IF k = 0 THEN {i \in Live : Here(i)}
          ELSE LET c == w[k - 1] IN c \cup {Entry(e) : e \in {x \in c \X Names : ViaBase(x)}}
    IN  w[MaxInode]

AllServed ==
    LET reached == Descended
    IN  \A i \in Live \ reached : i \in DOMAIN row /\ ~(IsDir(i) /\ Backed(i))

-----------------------------------------------------------------------------
(* The operations of users (write.go).  Each is one transaction, under the *)
(* lock a rebase holds for the length of a batch.                          *)

Locked == job.at = "rebasing" /\ job.held

Operates == state = "up" /\ ~Locked /\ ops < MaxOps /\ ops' = ops + 1

Fault == faults < MaxFaults /\ faults' = faults + 1

(* bumpSeqLocked.                                                          *)
Touch(S) == stamp' = [i \in S \cup DOMAIN stamp |-> IF i \in S THEN "since" ELSE stamp[i]]

(* checkParentDirLocked, and what resolving in it takes.                   *)
Parent(p) == p \in Dirs /\ Answers(p) /\ Lists(p)

(* materializeAttrsLocked.                                                 *)
Materialized(i) == IF i \in DOMAIN row THEN row[i] ELSE [node |-> Node(i), base |-> TRUE]

(* The whiteout test, wrong: only the generation that is mounted counts.   *)
BaseHas_MountedOnly(e) == Backed(e[1]) /\ e \in DOMAIN Base.names

(* baseHasEdgeLocked: the base has the name, or is about to.               *)
BaseHas(e) == e \in pending.names \/ (Backed(e[1]) /\ e \in DOMAIN Base.names)

(* removeEdgeLocked.                                                       *)
EdgeGone(e, edges) ==
    IF e \in DOMAIN edge /\ ~BaseHas(e) THEN Without(edges, {e}) ELSE Put(edges, e, 0)

(* dropNodeRefLocked, wrong: a base node nobody touched keeps its count.   *)
RefDropped_NoHint(i) ==
    IF i \notin DOMAIN row THEN row
    ELSE IF row[i].node.links > 1 THEN [row EXCEPT ![i].node.links = @ - 1]
    ELSE Without(row, {i})

(* dropNodeRefLocked: the count shrinks, or the node goes.                 *)
RefDropped(i) ==
    IF Node(i).links > 1
    THEN Put(row, i, [Materialized(i) EXCEPT !.node.links = @ - 1])
    ELSE Without(row, {i})

(* emptyDirLocked.                                                         *)
EmptyDir(i) == Lists(i) /\ \A n \in Names : Entry(<<i, n>>) = 0

(* removeDirLocked, wrong: a whiteout is not taken for an edge.            *)
InDir_LiveOnly(i) == {e \in DOMAIN edge : e[1] = i /\ edge[e] # 0}

(* removeDirLocked, and the batches of a rebase.                           *)
InDir(i) == {e \in DOMAIN edge : e[1] = i}

(* persistChainLocked: the way to i in the base, up to a row there is.     *)
Step(i) == IF i \in DOMAIN prov THEN prov[i] ELSE res[i]
Steps == DOMAIN prov \cup DOMAIN res

Chain(i) ==
    LET c[k \in 0..MaxInode] == [x \in Inodes |->
          IF k = 0 \/ x = Root \/ x \in DOMAIN obase \/ x \notin Steps THEN NoWhere
          ELSE Put(c[k - 1][Step(x)[1]], x, Step(x))]
    IN  c[MaxInode][i]

Chained(i) == \A x \in DOMAIN Chain(i) \cup {i} :
                 \/ x = Root \/ x \in DOMAIN obase
                 \/ x \in Steps /\ (Step(x)[1] = Root \/ Step(x)[1] \in DOMAIN obase \cup Steps)

(* The way to i that is stored is none in the base, nor about to be one.   *)
Astray(i) ==
    /\ i \in DOMAIN obase \ DOMAIN pending.byInode
    /\ ~(obase[i] \in DOMAIN Base.names /\ Base.names[obase[i]] = i)

Unmoved == UNCHANGED <<recorded, gens, served, pending, job, state, torn, faults>>

(* Create, Mkdir: an inode number of its own, and an edge, over a whiteout *)
(* if there was one.                                                       *)
Create(p, n, node) ==
    /\ Operates /\ Parent(p) /\ Entry(<<p, n>>) = 0
    /\ fresh <= MaxInode
    /\ fresh' = fresh + 1
    /\ row' = Put(row, fresh, [node |-> node, base |-> FALSE])
    /\ edge' = Put(edge, <<p, n>>, fresh)
    /\ Touch({p, fresh})
    /\ Learn(Ensure(p).steps)
    /\ UNCHANGED obase /\ Unmoved

Write(i, d) ==
    /\ Operates /\ i \in Files /\ Answers(i)
    /\ row' = Put(row, i, [Materialized(i) EXCEPT !.node.data = d])
    /\ Touch({i})
    /\ Learn(IF i \in DOMAIN row THEN NoWhere ELSE Ensure(i).steps)
    /\ UNCHANGED <<edge, obase, fresh>> /\ Unmoved

Unlink(p, n) ==
    LET i == Entry(<<p, n>>) IN
    /\ Operates /\ Parent(p) /\ i \in Files
    /\ ViaBase(<<p, n>>) \/ Answers(i)
    /\ edge' = EdgeGone(<<p, n>>, edge)
    /\ row' = RefDropped(i)
    /\ Touch({p, i})
    /\ Learn(Learnt(<<p, n>>))
    /\ UNCHANGED <<obase, fresh>> /\ Unmoved

Rmdir(p, n) ==
    LET i == Entry(<<p, n>>) IN
    /\ Operates /\ Parent(p) /\ i \in Dirs \ {Root}
    /\ ViaBase(<<p, n>>) \/ Answers(i)
    /\ \A m \in Names : Entry(<<i, m>>) = 0
    /\ edge' = EdgeGone(<<p, n>>, Without(edge, InDir(i)))
    /\ row' = Without(row, {i})
    /\ Touch({p, i})
    /\ Learn(Learnt(<<p, n>>))
    /\ UNCHANGED <<obase, fresh>> /\ Unmoved

(* The destination is replaced, the source removed, the edge put; an inode *)
(* that leaves its place in the base has the way to it recorded first.     *)
Rename(p, n, q, m) ==
    LET from == <<p, n>>
        to   == <<q, m>>
        i    == Entry(from)
        j    == Entry(to)
        edges == IF j = 0 THEN edge
                 ELSE Without(edge, {to} \cup IF IsDir(j) THEN InDir(j) ELSE {})
    IN
    /\ Operates /\ Parent(p) /\ Parent(q) /\ from # to
    /\ i \in Live \ {Root} /\ (ViaBase(from) \/ Answers(i))
    /\ q \notin Below(i)
    /\ j # 0 => /\ j # i /\ Node(j).type = Node(i).type /\ (ViaBase(to) \/ Answers(j))
                /\ IsDir(j) => EmptyDir(j)
    /\ LET steps == Over(Learnt(from), Learnt(to))
       IN /\ Learn(steps)
          /\ from \in DOMAIN edge \/ Chained(i) \/ i \in DOMAIN steps
          /\ obase' = IF from \in DOMAIN edge \/ i \in DOMAIN obase THEN obase
                      ELSE Over(obase, Put(Chain(p), i, from))
    /\ edge' = Put(EdgeGone(from, edges), to, i)
    /\ row' = IF j = 0 THEN row ELSE IF IsDir(j) THEN Without(row, {j}) ELSE RefDropped(j)
    /\ Touch({p, q, i} \cup ({j} \ {0}))
    /\ torn' = torn \cup {w \in {"stale"} : from \notin DOMAIN edge /\ Astray(i)}
    /\ UNCHANGED <<recorded, fresh, gens, served, pending, job, state, faults>>

(* A link names its source by inode.                                       *)
Link(i, q, m) ==
    /\ Operates /\ i \in Files /\ Answers(i)
    /\ Parent(q) /\ Entry(<<q, m>>) = 0
    /\ LET steps == IF i \in DOMAIN row THEN NoWhere ELSE Ensure(i).steps
       IN Learn(Over(steps, Ensure(q).steps))
    /\ Materialized(i).base => Chained(i)
    /\ obase' = IF Materialized(i).base THEN Over(obase, Chain(i)) ELSE obase
    /\ row' = Put(row, i, [Materialized(i) EXCEPT !.node.links = @ + 1])
    /\ edge' = Put(edge, <<q, m>>, i)
    /\ Touch({i, q})
    /\ UNCHANGED fresh /\ Unmoved

(* A lookup of the kernel.                                                 *)
Look(p, n) ==
    /\ state = "up" /\ ~Locked /\ Parent(p) /\ Entry(<<p, n>>) # 0
    /\ Learnt(<<p, n>>) # NoWhere
    /\ Learn(Learnt(<<p, n>>))
    /\ UNCHANGED <<tables, recorded, fresh, gens, served, stamp, pending, job, state, torn,
                   ops, faults>>

(* MaxResident: the residency of an inode is let go.                       *)
Evict(i) ==
    /\ Fault /\ state = "up" /\ i \in DOMAIN res
    /\ res' = Without(res, {i})
    /\ UNCHANGED <<tables, recorded, fresh, gens, served, prov, stamp, pending, job, state, torn, ops>>

-----------------------------------------------------------------------------
(* A checkpoint (checkpoint and sealLocked of cmd/pelfs/mountgen.go).      *)

Dirty == DOMAIN row \cup {e[1] : e \in DOMAIN edge} \cup ({edge[e] : e \in DOMAIN edge} \ {0})

(* readEdgeMap, wrong: a whiteout is read as an edge.                      *)
Namespace_Whiteouts ==
    LET of(i) == {e \in DOMAIN edge : edge[e] = i}
    IN  [names  |-> DOMAIN edge,
         byInode |-> [i \in Range(edge) |->
                         CHOOSE e \in of(i) : \A f \in of(i) : f[1] <= e[1]]]

(* readEdgeMap: every name the overlay gives, and for each inode one edge. *)
Namespace ==
    LET names == {e \in DOMAIN edge : edge[e] # 0}
        of(i) == {e \in names : edge[e] = i}
    IN  [names  |-> names,
         byInode |-> [i \in {edge[e] : e \in names} |->
                         CHOOSE e \in of(i) : \A f \in of(i) : f[1] <= e[1]]]

(* The snapshot.  A new one retires the namespaces of those before it.     *)
Freeze ==
    /\ state = "up" /\ job = Idle
    /\ Dirty # {} /\ Len(gens) < MaxGens
    /\ job' = [at |-> "frozen", tree |-> View, walks |-> AllServed,
               scope |-> {i \in Dirs : Below(i) \cap Dirty # {}}]
    /\ pending' = Namespace
    /\ stamp' = [i \in DOMAIN stamp |-> "before"]
    /\ UNCHANGED <<tables, recorded, fresh, gens, served, memory, state, torn, ops, faults>>

(* The walk of a seal fails at a name it cannot resolve.                   *)
SealFails ==
    /\ state = "up" /\ job.at = "frozen"
    /\ IF job.walks THEN Fault ELSE UNCHANGED faults
    /\ job' = Idle
    /\ UNCHANGED <<tables, recorded, fresh, gens, served, memory, stamp, pending, state, torn, ops>>

(* ReaddirRetain: what the walk of a seal leaves resident.                 *)
Retained(dirs) ==
    LET seen == {e \in dirs \X Names : Backed(e[1]) /\ e \in DOMAIN Base.names}
    IN  [i \in {Base.names[e] : e \in seen} |-> CHOOSE e \in seen : Base.names[e] = i]

(* The new generation is published, after a walk of all directories or of  *)
(* those with something modified at or below them: the others may be       *)
(* carried over as they were published before.                             *)
Flip ==
    /\ state = "up" /\ job.at = "frozen" /\ job.walks
    /\ gens' = Append(gens, job.tree)
    /\ \E walked \in {job.scope, {i \in DOMAIN job.tree.nodes : job.tree.nodes[i].type = "dir"}} :
          res' = Over(Retained(walked), res)
    /\ job' = [at |-> "flipped"]
    /\ UNCHANGED <<tables, recorded, fresh, served, prov, stamp, pending, state, torn, ops, faults>>

(* What the swap finds again of the edges held, taken by the number of     *)
(* their parents: a parent must have been found before.                    *)
Redescended(base) ==
    LET held == {res[i] : i \in DOMAIN res} \cap DOMAIN base.names
        found[i \in Inodes] ==
            i = Root \/ \E e \in held : e[1] < i /\ base.names[e] = i /\ found[e[1]]
        kept == {e \in held : found[e[1]]}
        to(i) == {e \in kept : base.names[e] = i}
    IN  [i \in {base.names[e] : e \in kept} |->
            CHOOSE e \in to(i) : \A f \in to(i) : f[1] <= e[1]]

(* genfs.Swap: the base becomes the generation just published.             *)
Swap ==
    /\ state = "up" /\ job.at = "flipped"
    /\ served' = Len(gens)
    /\ res' = Redescended(gens[Len(gens)])
    /\ job' = [at |-> "swapped"]
    /\ UNCHANGED <<tables, recorded, fresh, gens, prov, stamp, pending, state, torn, ops, faults>>

(* The generation cannot be read: the mount stays on the one it serves.    *)
SwapFails ==
    /\ Fault /\ state = "up" /\ job.at = "flipped"
    /\ job' = Idle
    /\ UNCHANGED <<tables, recorded, fresh, gens, served, memory, stamp, pending, state, torn, ops>>

(* replaySnapshotNamespaceLocked: the frozen edges found in the new base,  *)
(* parents first; one whose parent is not resident is given up.            *)
Replayed ==
    LET edges == pending.byInode
        r[k \in 0..MaxInode] ==
          IF k = 0 THEN {Root} \cup (DOMAIN res \ DOMAIN edges)
          ELSE LET c == r[k - 1]
               IN  c \cup {i \in DOMAIN edges : /\ edges[i][1] \in c
                                              /\ edges[i] \in DOMAIN Base.names
                                              /\ Base.names[edges[i]] = i}
    IN  r[MaxInode] \cap DOMAIN edges

(* What the new base answers alone: nothing modified since the freeze,     *)
(* and nothing an earlier session left.                                    *)
Cleanable(blocked) == {i \in Dirty \ blocked : i \in DOMAIN stamp /\ stamp[i] = "before"}

(* Rebase up to its first transaction, which records the base before any   *)
(* row is dropped.  The lock is kept to the end of the first batch.        *)
RebaseStart ==
    LET edges == pending.byInode
        lost  == DOMAIN edges \ Replayed
        repin == Restrict(edges, Replayed)
        clean == Cleanable(lost \cup {edges[i][1] : i \in lost})
    IN
    /\ state = "up" /\ job.at = "swapped"
    /\ Learn(repin)
    /\ recorded' = served
    /\ job' = [at |-> "rebasing", clean |-> clean, cleaned |-> clean, todo |-> clean,
               lost |-> lost, held |-> TRUE]
    /\ torn' = torn \cup {w \in {"rebase"} : lost # {}}
    /\ UNCHANGED <<tables, fresh, gens, served, stamp, pending, state, ops, faults>>

(* The stamp is not looked at again, wrong.                                *)
Untouched_Trusted(i) == TRUE

Untouched(i) == i \in DOMAIN stamp /\ stamp[i] = "before"

(* rebaseBatchLocked: the rows of an inode, and the edges in it.           *)
Batch ==
    /\ state = "up" /\ job.at = "rebasing" /\ job.todo # {}
    /\ LET i == CHOOSE x \in job.todo : \A y \in job.todo : x <= y
           rest == job.todo \ {i}
       IN IF Untouched(i)
          THEN /\ row' = Without(row, {i})
               /\ edge' = Without(edge, InDir(i))
               /\ job' = [job EXCEPT !.todo = rest, !.held = (rest = {})]
          ELSE /\ job' = [job EXCEPT !.todo = rest, !.held = (rest = {}), !.clean = @ \ {i}]
               /\ UNCHANGED <<row, edge>>
    /\ UNCHANGED <<obase, recorded, fresh, gens, served, memory, stamp, pending, state, torn,
                   ops, faults>>

(* The last transaction, wrong: the ways into the old base are kept.       *)
Rechained_Kept(edges, gone) == obase

(* The last transaction: an inode a name of the overlay still gives has    *)
(* its place in the new base recorded, unless it was given up.             *)
Rechained(edges, gone) ==
    Over(Restrict(edges, DOMAIN edges \ ({Root} \cup gone \cup job.lost)), Without(obase, gone))

Finish ==
    LET edges  == pending.byInode
        named  == {edge[e] : e \in DOMAIN edge}
        parted == job.cleaned \ Dirty
    IN
    /\ state = "up" /\ job.at = "rebasing" /\ job.todo = {}
    /\ obase' = Rechained(edges, (job.clean \cap DOMAIN edges) \ named)
    /\ stamp' = [i \in DOMAIN stamp \ parted |-> IF i \in job.cleaned THEN "before" ELSE stamp[i]]
    /\ prov' = Without(prov, parted)
    /\ pending' = Nothing
    /\ job' = Idle
    /\ UNCHANGED <<row, edge, recorded, fresh, gens, served, res, state, torn, ops, faults>>

(* A transaction of the rebase fails: the rows not yet dropped stay.       *)
RebaseFails ==
    /\ Fault /\ state = "up" /\ job.at \in {"swapped", "rebasing"}
    /\ job' = Idle
    /\ torn' = torn \cup {"rebase"}
    /\ UNCHANGED <<tables, recorded, fresh, gens, served, memory, stamp, pending, state, ops>>

-----------------------------------------------------------------------------
(* Crashes.  The tables survive; the memory of the mount does not.         *)

Crash ==
    /\ Fault /\ state = "up"
    /\ state' = "down"
    /\ res' = NoWhere /\ prov' = NoWhere /\ stamp' = NoWhere
    /\ pending' = Nothing
    /\ job' = Idle
    /\ torn' = torn \cup {w \in {"rebase"} : job.at \in {"swapped", "rebasing"}}
                    \cup {w \in {"short"} : \E i \in DOMAIN obase :
                                                obase[i][1] \notin {Root} \cup DOMAIN obase}
    /\ UNCHANGED <<tables, recorded, fresh, gens, served, ops>>

(* overlay.Open over the head of the branch: refused unless the tables     *)
(* were recorded over it.                                                  *)
Reopen ==
    /\ state = "down"
    /\ IF recorded = Len(gens) THEN state' = "up" /\ served' = Len(gens)
       ELSE state' = "refused" /\ UNCHANGED served
    /\ UNCHANGED <<tables, recorded, fresh, gens, memory, stamp, pending, job, torn, ops, faults>>

-----------------------------------------------------------------------------
Init ==
    /\ \E t \in Trees : /\ gens = <<t>>
                        /\ fresh = 1 + Cardinality(DOMAIN t.nodes)
    /\ row = NoWhere /\ edge = NoWhere /\ obase = NoWhere
    /\ recorded = 1 /\ served = 1
    /\ res = NoWhere /\ prov = NoWhere /\ stamp = NoWhere
    /\ pending = Nothing /\ job = Idle
    /\ state = "up" /\ torn = {} /\ ops = 0 /\ faults = 0

Next ==
    \/ \E p \in Inodes, n \in Names :
         \/ \E node \in {Dir} \cup {File(d) : d \in Data} : Create(p, n, node)
         \/ Unlink(p, n)
         \/ Rmdir(p, n)
         \/ \E q \in Inodes, m \in Names : Rename(p, n, q, m)
         \/ \E i \in Inodes : Link(i, p, n)
         \/ Look(p, n)
    \/ \E i \in Inodes : (\E d \in Data : Write(i, d)) \/ Evict(i)
    \/ Freeze \/ SealFails \/ Flip \/ Swap \/ SwapFails
    \/ RebaseStart \/ Batch \/ Finish \/ RebaseFails
    \/ Crash \/ Reopen

Spec == Init /\ [][Next]_vars

-----------------------------------------------------------------------------
(* What must hold.                                                         *)

(* Every table maps what it should; the base is a generation published.    *)
TypeOK ==
    /\ \A i \in DOMAIN row : i \in Inodes /\ row[i].base \in BOOLEAN
    /\ \A e \in DOMAIN edge : e \in Slot /\ edge[e] \in Inodes \cup {0}
    /\ \A f \in {obase, res, prov, pending.byInode} : \A i \in DOMAIN f : i \in Inodes /\ f[i] \in Slot
    /\ \A i \in DOMAIN stamp : i \in Inodes /\ stamp[i] \in {"before", "since"}
    /\ recorded \in 1..Len(gens) /\ served \in 1..Len(gens)
    /\ fresh \in 1..(MaxInode + 1) /\ state \in {"up", "down", "refused"}
    /\ job.at \in {"idle", "frozen", "flipped", "swapped", "rebasing"}
    /\ torn \subseteq {"rebase", "stale", "short"} /\ ops \in 0..MaxOps /\ faults \in 0..MaxFaults

(* What users see is one tree that only their own operations change: a     *)
(* freeze, a seal, a swap of the base, each batch of a rebase, a crash and *)
(* a reopening leave every name, node and link count as it was.            *)
Mounted == INSTANCE MountedTree WITH tree <- View

ViewIsTree == Mounted!Moves

(* Every name of the tree can be resolved from the root down and every     *)
(* directory listed, so every seal can walk it, whatever was moved,        *)
(* swapped, dropped or lost before; the swap to the end of the replay, and *)
(* what follows a rebase that went wrong or a way that was not one (torn), *)
(* excepted.                                                               *)
NamesServed == state = "up" /\ job.at # "swapped" /\ torn = {} => AllServed

(* The chains of obase are persisted whole: an existing row implies a      *)
(* complete tail (persistChainLocked).                                     *)
ChainsWhole == \A i \in DOMAIN obase : obase[i][1] \in {Root} \cup DOMAIN obase

(* Rebase rewrites the ways to the base, since "a stale chain is an        *)
(* ErrStale after reopen" (rebase.go:248): no name is lost over one.       *)
StaleWaysRewritten ==
    state = "up" /\ job.at # "swapped" /\ torn \subseteq {"stale"} => AllServed

(* A file is counted as often as it is named, over every mixture of rows,  *)
(* generations and half-done rebases: the count is a stored number, and    *)
(* nothing recomputes it when a generation is sealed.                      *)
LinksCounted ==
    LET v == View
    IN  \A i \in DOMAIN v.nodes :
            v.nodes[i].type = "file" =>
                v.nodes[i].links = Cardinality({e \in DOMAIN v.names : v.names[e] = i})

(* A checkpoint that nothing was modified under, and that inherited        *)
(* nothing, leaves no rows: what it published is the base's alone to serve.*)
QuietCheckpointCleans ==
    [][job.at = "rebasing" /\ job'.at = "idle" /\ state' = "up" /\ "rebase" \notin torn' \cup torn
       /\ (\A i \in Dirty \cup job.cleaned : i \in DOMAIN stamp /\ stamp[i] = "before")
       => Dirty' = {}]_vars
=============================================================================
