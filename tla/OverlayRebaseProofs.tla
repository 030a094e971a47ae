------------------------ MODULE OverlayRebaseProofs -------------------------
(***************************************************************************)
(* The overlay under checkpoints, rebases and crashes implements one tree  *)
(* that only its users change, for any number of inodes, names,            *)
(* generations, operations and faults, over any trees.                     *)
(*                                                                         *)
(* In this order: the operations of a user on trees, and that each makes a *)
(* tree; what is reached in a tree, by induction over sets; the merged     *)
(* view as the tree that the tables and the base give; the inductive       *)
(* invariant; the operations of users; the steps of a checkpoint; what a   *)
(* quiet checkpoint leaves; and what the tables and the memory hold.       *)
(***************************************************************************)
EXTENDS OverlayRebase, FiniteSetTheorems, WellFoundedInduction, TLAPS

-----------------------------------------------------------------------------
(* Trees.  Each operation of a user makes a tree of a tree.                *)

(* What is known of a tree, part by part.                                  *)
Rooted(t) == Root \in DOMAIN t.nodes /\ DOMAIN t.nodes \subseteq Inodes /\ t.nodes[Root].type = "dir"
Sorted(t) == \A i \in DOMAIN t.nodes : IsNode(t.nodes[i])
Placed(t) == \A e \in DOMAIN t.names :
                /\ e \in Slot /\ e[1] \in DOMAIN t.nodes /\ t.nodes[e[1]].type = "dir"
                /\ t.names[e] \in DOMAIN t.nodes \ {Root}
Counted(t) == \A i \in DOMAIN t.nodes \ {Root} : t.nodes[i].links = Cardinality(Named(t, i))
Shut(t, S) == \A e \in DOMAIN t.names : e[1] \in S => t.names[e] \in S
Reached(t) == \A S \in SUBSET DOMAIN t.nodes : Root \in S /\ Shut(t, S) => S = DOMAIN t.nodes

LEMMA TreeParts ==
    ASSUME NEW t
    PROVE  IsTree(t) <=> Rooted(t) /\ Sorted(t) /\ Placed(t) /\ Counted(t) /\ Reached(t)
BY DEF IsTree, Rooted, Sorted, Placed, Counted, Reached, Shut

LEMMA SlotsFinite == IsFiniteSet(Slot)
<1>1. IsFiniteSet(Inodes)
  BY OverlayAssumption, FS_Interval DEF Inodes
<1> QED  BY <1>1, OverlayAssumption, FS_Product DEF Slot

LEMMA NamedFinite ==
    ASSUME NEW t, Placed(t), NEW i
    PROVE  IsFiniteSet(Named(t, i)) /\ Named(t, i) \subseteq Slot /\ Cardinality(Named(t, i)) \in Nat
<1>1. Named(t, i) \subseteq Slot
  BY DEF Named, Placed
<1> QED  BY <1>1, SlotsFinite, FS_Subset, FS_CardinalityType

(* What is counted once is named once.                                     *)
LEMMA OneName ==
    ASSUME NEW t, IsTree(t), NEW e \in DOMAIN t.names, NEW f \in DOMAIN t.names,
           t.names[e] = t.names[f], t.nodes[t.names[e]].links = 1
    PROVE  e = f
<1> DEFINE i == t.names[e]
<1>1. Placed(t) /\ Counted(t) /\ i \in DOMAIN t.nodes \ {Root}
  BY TreeParts DEF Placed
<1>2. IsFiniteSet(Named(t, i)) /\ Cardinality(Named(t, i)) = 1
  BY <1>1, NamedFinite DEF Counted
<1>3. PICK x : Named(t, i) = {x}
  BY <1>2, FS_Singleton
<1>4. e \in Named(t, i) /\ f \in Named(t, i)
  BY DEF Named
<1> QED  BY <1>3, <1>4

LEMMA DirsNamedOnce ==
    ASSUME NEW t, IsTree(t), NEW e \in DOMAIN t.names, NEW f \in DOMAIN t.names,
           t.names[e] = t.names[f], t.nodes[t.names[e]].type = "dir"
    PROVE  e = f
<1>1. t.nodes[t.names[e]].links = 1
  BY TreeParts DEF Placed, Sorted, IsNode
<1> QED  BY <1>1, OneName

(* No directory is named in itself.                                        *)
LEMMA NotInItself ==
    ASSUME NEW t, IsTree(t), NEW e \in DOMAIN t.names
    PROVE  t.names[e] # e[1]
<1> SUFFICES ASSUME t.names[e] = e[1] PROVE FALSE
  OBVIOUS
<1> DEFINE i == t.names[e]
           S == DOMAIN t.nodes \ {i}
<1>1. /\ Placed(t) /\ Reached(t) /\ Rooted(t)
      /\ i \in DOMAIN t.nodes \ {Root} /\ t.nodes[i].type = "dir"
  BY TreeParts DEF Placed
<1>2. Root \in S /\ S \in SUBSET DOMAIN t.nodes
  BY <1>1 DEF Rooted
<1>3. Shut(t, S)
  <2> SUFFICES ASSUME NEW f \in DOMAIN t.names, f[1] \in S PROVE t.names[f] \in S
    BY DEF Shut
  <2>1. f # e
    OBVIOUS
  <2>2. t.names[f] # i
    BY <1>1, <2>1, DirsNamedOnce
  <2> QED  BY <1>1, <2>2 DEF Placed
<1>4. S = DOMAIN t.nodes
  BY <1>1, <1>2, <1>3 DEF Reached
<1> QED  BY <1>1, <1>4

(* A new node with its first name.                                         *)
LEMMA Created ==
    ASSUME NEW t, IsTree(t), NEW e \in Slot \ DOMAIN t.names,
           e[1] \in DOMAIN t.nodes, t.nodes[e[1]].type = "dir",
           NEW i \in Inodes \ DOMAIN t.nodes, NEW node, IsNode(node), node.links = 1
    PROVE  IsTree([names |-> Mounted!Put(t.names, e, i), nodes |-> Mounted!Put(t.nodes, i, node)])
<1> DEFINE names == Mounted!Put(t.names, e, i)
           nodes == Mounted!Put(t.nodes, i, node)
           u == [names |-> names, nodes |-> nodes]
<1>1. Rooted(t) /\ Sorted(t) /\ Placed(t) /\ Counted(t) /\ Reached(t)
  BY TreeParts
<1>2. /\ DOMAIN names = DOMAIN t.names \cup {e} /\ names[e] = i
      /\ \A f \in DOMAIN t.names : f # e /\ names[f] = t.names[f]
      /\ DOMAIN nodes = DOMAIN t.nodes \cup {i} /\ nodes[i] = node
      /\ \A j \in DOMAIN t.nodes : j # i /\ nodes[j] = t.nodes[j]
  <2>1. /\ DOMAIN names = DOMAIN t.names \cup {e} /\ names[e] = i
        /\ \A f \in DOMAIN t.names \ {e} : names[f] = t.names[f]
    BY DEF Mounted!Put
  <2>2. /\ DOMAIN nodes = DOMAIN t.nodes \cup {i} /\ nodes[i] = node
        /\ \A j \in DOMAIN t.nodes \ {i} : nodes[j] = t.nodes[j]
    BY DEF Mounted!Put
  <2> HIDE DEF names, nodes
  <2> QED  BY <2>1, <2>2
<1>3. u.names = names /\ u.nodes = nodes
  OBVIOUS
<1> HIDE DEF names, nodes, u
<1>4. i # Root
  BY <1>1 DEF Rooted
<1>5. Rooted(u) /\ Sorted(u) /\ Placed(u)
  BY <1>1, <1>2, <1>3, <1>4 DEF Rooted, Sorted, Placed
<1>6. Counted(u)
  <2> SUFFICES ASSUME NEW j \in DOMAIN nodes \ {Root}
               PROVE  nodes[j].links = Cardinality(Named(u, j))
    BY <1>3 DEF Counted
  <2>1. CASE j = i
    <3>1. Named(u, j) = {e}
      BY <1>1, <1>2, <1>3, <2>1 DEF Named, Placed
    <3>2. Cardinality({e}) = 1
      BY FS_Singleton
    <3> QED  BY <1>2, <2>1, <3>1, <3>2
  <2>2. CASE j # i
    <3>1. Named(u, j) = Named(t, j)
      BY <1>2, <1>3, <2>2 DEF Named
    <3> QED  BY <1>1, <1>2, <2>2, <3>1 DEF Counted
  <2> QED  BY <2>1, <2>2
<1>7. Reached(u)
  <2> SUFFICES ASSUME NEW S \in SUBSET DOMAIN nodes, Root \in S, Shut(u, S)
               PROVE  S = DOMAIN nodes
    BY <1>3 DEF Reached
  <2>1. Shut(t, S \ {i})
    BY <1>1, <1>2, <1>3 DEF Shut, Placed
  <2>2. S \ {i} = DOMAIN t.nodes
    BY <1>1, <1>2, <1>4, <2>1 DEF Reached
  <2>3. i \in S
    BY <1>2, <1>3, <2>2 DEF Shut
  <2> QED  BY <1>2, <2>2, <2>3
<1>8. IsTree(u)
  BY <1>5, <1>6, <1>7, TreeParts
<1> QED  BY <1>8 DEF u, names, nodes

(* A node with something else in it.                                       *)
LEMMA Written ==
    ASSUME NEW t, IsTree(t), NEW i \in DOMAIN t.nodes, NEW d, t.nodes[i].type = "file"
    PROVE  IsTree([names |-> t.names, nodes |-> [t.nodes EXCEPT ![i].data = d]])
<1> DEFINE nodes == [t.nodes EXCEPT ![i].data = d]
           u == [names |-> t.names, nodes |-> nodes]
<1>1. Rooted(t) /\ Sorted(t) /\ Placed(t) /\ Counted(t) /\ Reached(t)
  BY TreeParts
<1>2. /\ DOMAIN nodes = DOMAIN t.nodes
      /\ \A j \in DOMAIN t.nodes \ {i} : nodes[j] = t.nodes[j]
      /\ nodes[i] = [t.nodes[i] EXCEPT !.data = d]
  OBVIOUS
<1>3. /\ u.names = t.names /\ u.nodes = nodes
      /\ \A j : Named(u, j) = Named(t, j)
  BY DEF Named
<1>4. IsNode(t.nodes[i])
  BY <1>1 DEF Sorted
<1> HIDE DEF nodes, u
<1>5. nodes[i].type = "file" /\ nodes[i].links = t.nodes[i].links /\ IsNode(nodes[i])
  BY <1>2, <1>4 DEF IsNode
<1>6. \A j \in DOMAIN nodes : nodes[j].type = t.nodes[j].type /\ nodes[j].links = t.nodes[j].links
  BY <1>2, <1>5
<1>7. Rooted(u) /\ Sorted(u) /\ Placed(u) /\ Counted(u)
  BY <1>1, <1>2, <1>3, <1>5, <1>6 DEF Rooted, Sorted, Placed, Counted
<1>8. Reached(u)
  BY <1>1, <1>2, <1>3 DEF Reached, Shut
<1>9. IsTree(u)
  BY <1>7, <1>8, TreeParts
<1> QED  BY <1>9 DEF u, nodes

(* One more name of a file.                                                *)
LEMMA Linked ==
    ASSUME NEW t, IsTree(t), NEW e \in Slot \ DOMAIN t.names,
           e[1] \in DOMAIN t.nodes, t.nodes[e[1]].type = "dir",
           NEW i \in DOMAIN t.nodes, t.nodes[i].type = "file"
    PROVE  IsTree([names |-> Mounted!Put(t.names, e, i),
                   nodes |-> [t.nodes EXCEPT ![i].links = @ + 1]])
<1> DEFINE names == Mounted!Put(t.names, e, i)
           nodes == [t.nodes EXCEPT ![i].links = @ + 1]
           u == [names |-> names, nodes |-> nodes]
<1>1. Rooted(t) /\ Sorted(t) /\ Placed(t) /\ Counted(t) /\ Reached(t)
  BY TreeParts
<1>2. /\ DOMAIN names = DOMAIN t.names \cup {e} /\ names[e] = i
      /\ \A f \in DOMAIN t.names : f # e /\ names[f] = t.names[f]
  <2>1. /\ DOMAIN names = DOMAIN t.names \cup {e} /\ names[e] = i
        /\ \A f \in DOMAIN t.names \ {e} : names[f] = t.names[f]
    BY DEF Mounted!Put
  <2> HIDE DEF names
  <2> QED  BY <2>1
<1>3. /\ DOMAIN nodes = DOMAIN t.nodes
      /\ \A j \in DOMAIN t.nodes \ {i} : nodes[j] = t.nodes[j]
      /\ nodes[i] = [t.nodes[i] EXCEPT !.links = @ + 1]
  OBVIOUS
<1>4. u.names = names /\ u.nodes = nodes
  OBVIOUS
<1>5. IsNode(t.nodes[i])
  BY <1>1 DEF Sorted
<1> HIDE DEF names, nodes, u
<1>6. nodes[i].type = "file" /\ nodes[i].links = t.nodes[i].links + 1 /\ IsNode(nodes[i])
  BY <1>3, <1>5 DEF IsNode
<1>7. \A j \in DOMAIN nodes : nodes[j].type = t.nodes[j].type
  BY <1>3, <1>6
<1>8. i # Root
  BY <1>1 DEF Rooted
<1>9. Rooted(u) /\ Sorted(u) /\ Placed(u)
  BY <1>1, <1>2, <1>3, <1>4, <1>6, <1>7, <1>8 DEF Rooted, Sorted, Placed
<1>10. Counted(u)
  <2> SUFFICES ASSUME NEW j \in DOMAIN nodes \ {Root}
               PROVE  nodes[j].links = Cardinality(Named(u, j))
    BY <1>4 DEF Counted
  <2>1. CASE j = i
    <3>1. Named(u, i) = Named(t, i) \cup {e} /\ e \notin Named(t, i)
      BY <1>2, <1>4 DEF Named
    <3>2. IsFiniteSet(Named(t, i))
      BY <1>1, NamedFinite
    <3>3. Cardinality(Named(u, i)) = Cardinality(Named(t, i)) + 1
      BY <3>1, <3>2, FS_AddElement
    <3> QED  BY <1>1, <1>3, <1>6, <1>8, <2>1, <3>3 DEF Counted
  <2>2. CASE j # i
    <3>1. Named(u, j) = Named(t, j)
      BY <1>2, <1>4, <2>2 DEF Named
    <3> QED  BY <1>1, <1>3, <2>2, <3>1 DEF Counted
  <2> QED  BY <2>1, <2>2
<1>11. Reached(u)
  <2> SUFFICES ASSUME NEW S \in SUBSET DOMAIN nodes, Root \in S, Shut(u, S)
               PROVE  S = DOMAIN nodes
    BY <1>4 DEF Reached
  <2>1. Shut(t, S)
    BY <1>2, <1>4 DEF Shut
  <2> QED  BY <1>1, <1>3, <2>1 DEF Reached
<1>12. IsTree(u)
  BY <1>9, <1>10, <1>11, TreeParts
<1> QED  BY <1>12 DEF u, names, nodes

(* A name less, and the node with its last one.                            *)
LEMMA Removed ==
    ASSUME NEW t, IsTree(t), NEW e \in DOMAIN t.names, Mounted!Removable(t, t.names[e])
    PROVE  IsTree([names |-> Mounted!Without(t.names, e),
                   nodes |-> Mounted!Dropped(t.nodes, t.names[e])])
<1> DEFINE i == t.names[e]
           names == Mounted!Without(t.names, e)
           nodes == Mounted!Dropped(t.nodes, i)
           u == [names |-> names, nodes |-> nodes]
<1>1. Rooted(t) /\ Sorted(t) /\ Placed(t) /\ Counted(t) /\ Reached(t)
  BY TreeParts
<1>2. /\ DOMAIN names = DOMAIN t.names \ {e}
      /\ \A f \in DOMAIN names : names[f] = t.names[f]
  BY DEF Mounted!Without, Mounted!Restrict
<1>3. u.names = names /\ u.nodes = nodes
  OBVIOUS
<1>4. i \in DOMAIN t.nodes \ {Root} /\ IsNode(t.nodes[i])
  BY <1>1 DEF Placed, Sorted
<1>5. \A f \in DOMAIN t.names : f[1] = i => t.nodes[i].type = "dir" /\ FALSE
  BY <1>1 DEF Mounted!Removable, Placed
<1>6. \A j : j # i => Named(u, j) = Named(t, j)
  <2> HIDE DEF names, nodes, i
  <2> SUFFICES ASSUME NEW j, j # i PROVE Named(u, j) = Named(t, j)
    OBVIOUS
  <2>1. t.names[e] = i
    BY DEF i
  <2> QED  BY <1>2, <1>3, <2>1 DEF Named
<1>7. Named(u, i) = Named(t, i) \ {e} /\ e \in Named(t, i)
  <2>1. t.names[e] = i
    OBVIOUS
  <2> HIDE DEF names, nodes, i
  <2> QED  BY <1>2, <1>3, <2>1 DEF Named
<1>8. Shut(t, DOMAIN t.nodes)
  BY <1>1 DEF Placed, Shut
<1>9. \A S : Shut(u, S) => Shut(t, S \cup {i})
  <2>1. t.names[e] = i
    OBVIOUS
  <2> HIDE DEF names, nodes, i
  <2> QED  BY <1>2, <1>3, <1>5, <2>1 DEF Shut
<1>10. CASE t.nodes[i].links > 1
  <2>1. /\ DOMAIN nodes = DOMAIN t.nodes
        /\ \A j \in DOMAIN t.nodes \ {i} : nodes[j] = t.nodes[j]
        /\ nodes[i] = [t.nodes[i] EXCEPT !.links = @ - 1]
    BY <1>4, <1>10 DEF Mounted!Dropped
  <2> HIDE DEF names, nodes, i, u
  <2>2. nodes[i].type = "file" /\ nodes[i].links = t.nodes[i].links - 1 /\ IsNode(nodes[i])
        /\ t.nodes[i].type = "file"
    BY <1>4, <1>10, <2>1 DEF IsNode
  <2>3. \A j \in DOMAIN nodes : nodes[j].type = t.nodes[j].type
    BY <2>1, <2>2
  <2>4. Rooted(u) /\ Sorted(u) /\ Placed(u)
    BY <1>1, <1>2, <1>3, <1>4, <2>1, <2>2, <2>3 DEF Rooted, Sorted, Placed
  <2>5. Counted(u)
    <3> SUFFICES ASSUME NEW j \in DOMAIN nodes \ {Root}
                 PROVE  nodes[j].links = Cardinality(Named(u, j))
      BY <1>3 DEF Counted
    <3>1. CASE j = i
      <4>1. IsFiniteSet(Named(t, i)) /\ Cardinality(Named(t, i)) \in Nat
        BY <1>1, NamedFinite
      <4>2. Cardinality(Named(u, i)) = Cardinality(Named(t, i)) - 1
        BY <1>7, <4>1, FS_RemoveElement
      <4> QED  BY <1>1, <1>4, <2>2, <3>1, <4>2 DEF Counted
    <3>2. CASE j # i
      BY <1>1, <1>6, <2>1, <3>2 DEF Counted
    <3> QED  BY <3>1, <3>2
  <2>6. Reached(u)
    <3> SUFFICES ASSUME NEW S \in SUBSET DOMAIN nodes, Root \in S, Shut(u, S)
                 PROVE  S = DOMAIN nodes
      BY <1>3 DEF Reached
    <3>1. S \cup {i} = DOMAIN t.nodes
      BY <1>1, <1>4, <1>9, <2>1 DEF Reached
    <3>2. PICK f \in Named(t, i) : f # e
      <4>1. IsFiniteSet(Named(t, i)) /\ Cardinality(Named(t, i)) > 1
        BY <1>1, <1>4, <1>10, NamedFinite DEF Counted
      <4>2. Named(t, i) # {e}
        BY <4>1, FS_Singleton
      <4> QED  BY <1>7, <4>2
    <3>3. f \in DOMAIN t.names /\ t.names[f] = i /\ f \in DOMAIN names /\ names[f] = i
      BY <1>2, <3>2 DEF Named
    <3>4. f[1] \in DOMAIN t.nodes /\ f[1] # i
      BY <1>1, <1>5, <3>3 DEF Placed
    <3>5. i \in S
      BY <1>3, <3>1, <3>3, <3>4 DEF Shut
    <3> QED  BY <2>1, <3>1, <3>5
  <2>7. IsTree(u)
    BY <2>4, <2>5, <2>6, TreeParts
  <2> QED  BY <2>7 DEF u, names, nodes, i
<1>11. CASE ~(t.nodes[i].links > 1)
  <2>1. /\ DOMAIN nodes = DOMAIN t.nodes \ {i}
        /\ \A j \in DOMAIN nodes : nodes[j] = t.nodes[j]
    BY <1>11 DEF Mounted!Dropped, Mounted!Without, Mounted!Restrict
  <2>2. t.nodes[i].links = 1
    BY <1>4, <1>11 DEF IsNode
  <2>3. \A f \in DOMAIN names : names[f] # i
    BY <1>2, <2>2, OneName
  <2> HIDE DEF names, nodes, i, u
  <2>4. Rooted(u) /\ Sorted(u) /\ Placed(u)
    BY <1>1, <1>2, <1>3, <1>4, <1>5, <2>1, <2>3 DEF Rooted, Sorted, Placed
  <2>5. Counted(u)
    BY <1>1, <1>3, <1>6, <2>1 DEF Counted
  <2>6. Reached(u)
    <3> SUFFICES ASSUME NEW S \in SUBSET DOMAIN nodes, Root \in S, Shut(u, S)
                 PROVE  S = DOMAIN nodes
      BY <1>3 DEF Reached
    <3>1. Shut(t, S \cup {i})
      BY <1>9
    <3>2. S \cup {i} \in SUBSET DOMAIN t.nodes /\ Root \in S \cup {i}
      BY <1>4, <2>1
    <3>3. S \cup {i} = DOMAIN t.nodes
      BY <1>1, <3>1, <3>2 DEF Reached
    <3> QED  BY <2>1, <3>3
  <2>7. IsTree(u)
    BY <2>4, <2>5, <2>6, TreeParts
  <2> QED  BY <2>7 DEF u, names, nodes, i
<1> QED  BY <1>10, <1>11

(* A name elsewhere, outside of what is moved.                             *)
LEMMA Moved ==
    ASSUME NEW t, IsTree(t), NEW from \in DOMAIN t.names, NEW to \in Slot \ DOMAIN t.names,
           to[1] \in DOMAIN t.nodes, t.nodes[to[1]].type = "dir",
           NEW R, t.names[from] \in R, Shut(t, R), to[1] \notin R
    PROVE  IsTree([names |-> Mounted!Put(Mounted!Without(t.names, from), to, t.names[from]),
                   nodes |-> t.nodes])
<1> DEFINE i == t.names[from]
           names == Mounted!Put(Mounted!Without(t.names, from), to, i)
           u == [names |-> names, nodes |-> t.nodes]
<1>1. Rooted(t) /\ Sorted(t) /\ Placed(t) /\ Counted(t) /\ Reached(t)
  BY TreeParts
<1>2. /\ DOMAIN names = (DOMAIN t.names \ {from}) \cup {to} /\ names[to] = i
      /\ \A f \in DOMAIN t.names \ {from} : names[f] = t.names[f]
  BY DEF Mounted!Put, Mounted!Without, Mounted!Restrict
<1>3. u.names = names /\ u.nodes = t.nodes /\ t.names[from] = i
  OBVIOUS
<1> HIDE DEF names, u, i
<1>4. i \in DOMAIN t.nodes \ {Root}
  BY <1>1, <1>3 DEF Placed
<1>5. Rooted(u) /\ Sorted(u) /\ Placed(u)
  BY <1>1, <1>2, <1>3, <1>4 DEF Rooted, Sorted, Placed
<1>6. Counted(u)
  <2> SUFFICES ASSUME NEW j \in DOMAIN t.nodes \ {Root}
               PROVE  t.nodes[j].links = Cardinality(Named(u, j))
    BY <1>3 DEF Counted
  <2>1. CASE j = i
    <3>1. Named(u, i) = (Named(t, i) \ {from}) \cup {to}
      BY <1>2, <1>3 DEF Named
    <3>2. from \in Named(t, i) /\ to \notin Named(t, i)
      BY <1>3 DEF Named
    <3>3. IsFiniteSet(Named(t, i)) /\ Cardinality(Named(t, i)) \in Nat
      BY <1>1, NamedFinite
    <3>4. /\ IsFiniteSet(Named(t, i) \ {from})
          /\ Cardinality(Named(t, i) \ {from}) = Cardinality(Named(t, i)) - 1
      BY <3>2, <3>3, FS_RemoveElement
    <3>5. Cardinality(Named(u, i)) = Cardinality(Named(t, i)) - 1 + 1
      BY <3>1, <3>2, <3>4, FS_AddElement
    <3> QED  BY <1>1, <2>1, <3>3, <3>5 DEF Counted
  <2>2. CASE j # i
    <3>1. Named(u, j) = Named(t, j)
      BY <1>2, <1>3, <2>2 DEF Named
    <3> QED  BY <1>1, <3>1 DEF Counted
  <2> QED  BY <2>1, <2>2
<1>7. Reached(u)
  <2> SUFFICES ASSUME NEW S \in SUBSET DOMAIN t.nodes, Root \in S, Shut(u, S)
               PROVE  S = DOMAIN t.nodes
    BY <1>3 DEF Reached
  <2> DEFINE X == {x \in DOMAIN t.nodes : x \in R}
  <2>1. Shut(t, S \cup X)
    BY <1>1, <1>2, <1>3, <1>4 DEF Shut, Placed
  <2>2. S \cup X = DOMAIN t.nodes
    BY <1>1, <2>1 DEF Reached
  <2>3. i \in S
    BY <1>2, <1>3, <2>2 DEF Shut
  <2>4. Shut(t, S)
    BY <1>2, <1>3, <2>3 DEF Shut
  <2> QED  BY <1>1, <2>4 DEF Reached
<1>8. IsTree(u)
  BY <1>5, <1>6, <1>7, TreeParts
<1> QED  BY <1>8 DEF u, names, i

(* A rename, over what it replaces.                                        *)
LEMMA Renamed ==
    ASSUME NEW t, IsTree(t), NEW from \in DOMAIN t.names, NEW to \in Slot, from # to,
           to[1] \in DOMAIN t.nodes, t.nodes[to[1]].type = "dir",
           NEW R, t.names[from] \in R, Shut(t, R), to[1] \notin R,
           to \in DOMAIN t.names => Mounted!Removable(t, t.names[to]) /\ t.names[to] # t.names[from]
    PROVE  IsTree([names |-> Mounted!Put(Mounted!Without(t.names, from), to, t.names[from]),
                   nodes |-> IF to \notin DOMAIN t.names THEN t.nodes
                             ELSE Mounted!Dropped(t.nodes, t.names[to])])
<1>1. CASE to \notin DOMAIN t.names
  BY <1>1, Moved
<1>2. CASE to \in DOMAIN t.names
  <2> DEFINE i == t.names[from]
             j == t.names[to]
             names == Mounted!Without(t.names, to)
             nodes == Mounted!Dropped(t.nodes, j)
             u == [names |-> names, nodes |-> nodes]
  <2>1. IsTree(u)
    BY <1>2, Removed
  <2>2. /\ DOMAIN names = DOMAIN t.names \ {to}
        /\ \A f \in DOMAIN names : names[f] = t.names[f]
    BY DEF Mounted!Without, Mounted!Restrict
  <2>3. u.names = names /\ u.nodes = nodes
    OBVIOUS
  <2>4. j # to[1] /\ j \in DOMAIN t.nodes /\ IsNode(t.nodes[j])
    <3>1. Placed(t) /\ Sorted(t)
      BY TreeParts
    <3> QED  BY <1>2, <3>1, NotInItself DEF Placed, Sorted
  <2>5. to[1] \in DOMAIN nodes /\ nodes[to[1]].type = "dir"
    BY <2>4 DEF Mounted!Dropped, Mounted!Without, Mounted!Restrict
  <2>6. from \in DOMAIN names /\ names[from] = i /\ i \in R
    BY <2>2
  <2>7. Shut(u, R)
    <3> HIDE DEF names, nodes
    <3> QED  BY <2>2, <2>3 DEF Shut
  <2> DEFINE v == Mounted!Put(Mounted!Without(names, from), to, i)
  <2>8. IsTree([names |-> v, nodes |-> nodes])
    <3> HIDE DEF names, nodes
    <3>1. from \in DOMAIN u.names /\ to \in Slot \ DOMAIN u.names /\ u.names[from] = i
      BY <2>2, <2>3, <2>6
    <3>2. to[1] \in DOMAIN u.nodes /\ u.nodes[to[1]].type = "dir" /\ u.names[from] \in R
      BY <2>3, <2>5, <2>6, <3>1
    <3>3. IsTree([names |-> Mounted!Put(Mounted!Without(u.names, from), to, u.names[from]),
                  nodes |-> u.nodes])
      <4> HIDE DEF u, i
      <4> QED  BY <2>1, <2>7, <3>1, <3>2, Moved
    <3> QED  BY <2>3, <3>1, <3>3
  <2>9. v = Mounted!Put(Mounted!Without(t.names, from), to, i)
    BY DEF Mounted!Put, Mounted!Without, Mounted!Restrict
  <2> HIDE DEF v
  <2> QED  BY <1>2, <2>8, <2>9
<1> QED  BY <1>1, <1>2

-----------------------------------------------------------------------------
(* What is reached.                                                        *)

(* Induction up to a number, over a set.                                   *)
LEMMA UpTo ==
    ASSUME NEW N \in Nat, NEW S, 0 \in S, \A k \in 0..(N - 1) : k \in S => k + 1 \in S
    PROVE  \A k \in 0..N : k \in S
<1> DEFINE T == {0..x : x \in 0..N \ S}
<1> SUFFICES ASSUME T # {} PROVE FALSE
  OBVIOUS
<1>1. T \subseteq FiniteSubsetsOf(Nat)
  <2>1. \A x \in 0..N : 0..x \subseteq Nat /\ IsFiniteSet(0..x)
    BY FS_Interval
  <2> QED  BY <2>1 DEF FiniteSubsetsOf
<1>2. PICK A \in T : \A B \in T : ~(<<B, A>> \in StrictSubsetOrdering(Nat))
  <2>1. IsWellFoundedOn(StrictSubsetOrdering(Nat), FiniteSubsetsOf(Nat))
    BY FS_StrictSubsetOrderingWellFounded
  <2> HIDE DEF T
  <2> QED  BY <1>1, <2>1, WFMin
<1>3. PICK x \in 0..N \ S : A = 0..x
  BY <1>2
<1>4. x > 0 /\ x - 1 \in 0..(N - 1) /\ x - 1 + 1 = x
  BY <1>3
<1>5. x - 1 \in 0..N \ S
  BY <1>3, <1>4
<1>6. 0..(x - 1) \in T
  BY <1>5
<1>7. 0..(x - 1) \in SUBSET Nat /\ 0..x \in SUBSET Nat /\ 0..(x - 1) \subseteq 0..x
      /\ x \in 0..x /\ x \notin 0..(x - 1)
  BY <1>3, <1>4
<1> HIDE DEF T
<1>8. <<0..(x - 1), 0..x>> \in StrictSubsetOrdering(Nat)
  BY <1>7 DEF StrictSubsetOrdering
<1> QED  BY <1>2, <1>3, <1>6, <1>8

(* What a step comes to, taken over and over from a.                       *)
Iterated(f, N, U, a, m) ==
    f \in [0..N -> U] /\ f = [k \in 0..N |-> IF k = 0 THEN a ELSE m[f[k - 1]]]

LEMMA Iterates ==
    ASSUME NEW N \in Nat, NEW U, NEW a \in U, NEW m \in [U -> U]
    PROVE  \E f : Iterated(f, N, U, a, m)
<1> DEFINE Is(f, n) == f \in [0..n -> U] /\ f = [k \in 0..n |-> IF k = 0 THEN a ELSE m[f[k - 1]]]
           S == {n \in 0..N : \E f : Is(f, n)}
<1>1. 0 \in S
  <2> DEFINE g == [k \in 0..0 |-> a]
  <2>1. Is(g, 0)
    <3>1. \A k \in 0..0 : k = 0
      OBVIOUS
    <3> QED  BY <3>1
  <2>2. \E f : Is(f, 0)
    BY <2>1
  <2> HIDE DEF Is
  <2> QED  BY <2>2
<1>2. ASSUME NEW n \in 0..(N - 1), n \in S PROVE n + 1 \in S
  <2>1. PICK f : Is(f, n)
    BY <1>2
  <2> DEFINE g == [k \in 0..(n + 1) |-> IF k = n + 1 THEN m[f[n]] ELSE f[k]]
  <2>2. \A k \in 0..(n + 1) : g[k] \in U /\ g[k] = IF k = 0 THEN a ELSE m[g[k - 1]]
    <3> SUFFICES ASSUME NEW k \in 0..(n + 1)
                 PROVE  g[k] \in U /\ g[k] = IF k = 0 THEN a ELSE m[g[k - 1]]
      OBVIOUS
    <3>1. CASE k = n + 1
      <4>1. g[k] = m[f[n]] /\ k # 0 /\ k - 1 = n /\ n # n + 1 /\ g[n] = f[n] /\ f[n] \in U
        BY <2>1, <3>1
      <4> QED  BY <4>1
    <3>2. CASE k # n + 1 /\ k # 0
      <4>1. k \in 0..n /\ k - 1 \in 0..n /\ g[k] = f[k] /\ g[k - 1] = f[k - 1]
        BY <3>2
      <4>2. f[k] = m[f[k - 1]] /\ f[k] \in U
        BY <2>1, <3>2, <4>1
      <4> QED  BY <3>2, <4>1, <4>2
    <3>3. CASE k = 0
      BY <2>1, <3>3
    <3> QED  BY <3>1, <3>2, <3>3
  <2>3. g = [k \in 0..(n + 1) |-> g[k]]
    OBVIOUS
  <2>4. Is(g, n + 1)
    <3> HIDE DEF g
    <3>1. g = [k \in 0..(n + 1) |-> IF k = 0 THEN a ELSE m[g[k - 1]]]
      BY <2>2, <2>3
    <3>2. g \in [0..(n + 1) -> U]
      BY <2>2, <2>3
    <3> QED  BY <3>1, <3>2
  <2>5. n + 1 \in 0..N
    OBVIOUS
  <2> HIDE DEF Is, g
  <2> QED  BY <2>4, <2>5
<1>3. N \in S
  <2> HIDE DEF S
  <2> QED  BY <1>1, <1>2, UpTo
<1> QED  BY <1>3 DEF Iterated

(* The steps of Reach, one after the other.                                *)
LEMMA Downwards ==
    ASSUME NEW kids \in [Inodes -> SUBSET Inodes], NEW i \in Inodes
    PROVE  \E f : /\ f = [k \in 0..MaxInode |->
                            IF k = 0 THEN {i} ELSE f[k - 1] \cup UNION {kids[x] : x \in f[k - 1]}]
                  /\ Reach(kids, i) = f[MaxInode]
<1> DEFINE More(c) == c \cup UNION {kids[x] : x \in c}
           m == [c \in SUBSET Inodes |-> More(c)]
           Is(f) == f = [k \in 0..MaxInode |-> IF k = 0 THEN {i} ELSE More(f[k - 1])]
<1>1. MaxInode \in Nat
  BY OverlayAssumption
<1>2. m \in [SUBSET Inodes -> SUBSET Inodes]
  OBVIOUS
<1>3. {i} \in SUBSET Inodes
  OBVIOUS
<1>4. PICK f : Iterated(f, MaxInode, SUBSET Inodes, {i}, m)
  <2> HIDE DEF m
  <2> QED  BY <1>1, <1>2, <1>3, Iterates
<1>5. Is(f)
  <2> HIDE DEF More
  <2>0. \A k \in 0..MaxInode : k # 0 => f[k - 1] \in SUBSET Inodes
    <3>1. f \in [0..MaxInode -> SUBSET Inodes]
      BY <1>4 DEF Iterated
    <3> HIDE DEF m
    <3> QED  BY <1>1, <3>1
  <2>1. \A k \in 0..MaxInode : k # 0 => m[f[k - 1]] = More(f[k - 1])
    BY <2>0
  <2> HIDE DEF m
  <2> QED  BY <1>4, <2>1 DEF Iterated
<1> DEFINE d == CHOOSE g : Is(g)
<1>6. Is(d)
  BY <1>5
<1>7. Reach(kids, i) = d[MaxInode]
  BY DEF Reach
<1> HIDE DEF d
<1> QED  BY <1>6, <1>7

(* What the tree has under an inode is in every closed set it is in.       *)
LEMMA UnderIs ==
    ASSUME NEW t, Placed(t), NEW i \in DOMAIN t.nodes, NEW R, i \in R, Shut(t, R)
    PROVE  \A x \in Mounted!Under(t, i) : x \in R
<1> DEFINE S == R \cap DOMAIN t.nodes
<1>1. S \in SUBSET DOMAIN t.nodes /\ i \in S
  OBVIOUS
<1>2. \A e \in DOMAIN t.names : e[1] \in S => t.names[e] \in S
  BY DEF Placed, Shut
<1> QED  BY <1>1, <1>2 DEF Mounted!Under

(* What is reached from i is the least set with i in it that has all that  *)
(* is under its members: no chain in it is longer than there are inodes.   *)
LEMMA ReachIs ==
    ASSUME NEW kids \in [Inodes -> SUBSET Inodes], NEW i \in Inodes
    PROVE  /\ i \in Reach(kids, i) /\ Reach(kids, i) \subseteq Inodes
           /\ \A x \in Reach(kids, i) : kids[x] \subseteq Reach(kids, i)
           /\ \A S : i \in S /\ (\A x \in S \cap Inodes : kids[x] \subseteq S) => Reach(kids, i) \subseteq S
<1> DEFINE More(c) == c \cup UNION {kids[x] : x \in c}
           N == MaxInode
<1>1. PICK f : /\ f = [k \in 0..N |-> IF k = 0 THEN {i} ELSE f[k - 1] \cup UNION {kids[x] : x \in f[k - 1]}]
               /\ Reach(kids, i) = f[N]
  BY Downwards
<1>2. N \in Nat
  BY OverlayAssumption
<1>3. f[0] = {i} /\ \A k \in 0..(N - 1) : f[k + 1] = More(f[k])
  <2>1. f[0] = {i}
    BY <1>1, <1>2
  <2>2. ASSUME NEW k \in 0..(N - 1) PROVE f[k + 1] = More(f[k])
    <3> DEFINE m == k + 1
    <3>1. m \in 0..N /\ m # 0 /\ m - 1 = k
      BY <1>2
    <3> HIDE DEF m
    <3>2. f[m] = f[m - 1] \cup UNION {kids[x] : x \in f[m - 1]}
      BY <1>1, <3>1
    <3> QED  BY <3>1, <3>2 DEF m
  <2> QED  BY <2>1, <2>2
<1>4. \A k \in 0..N : f[k] \subseteq Inodes /\ i \in f[k]
  <2> DEFINE S == {k \in Nat : f[k] \subseteq Inodes /\ i \in f[k]}
  <2>1. 0 \in S
    BY <1>3
  <2>2. ASSUME NEW k \in 0..(N - 1), k \in S PROVE k + 1 \in S
    <3>1. f[k + 1] = More(f[k]) /\ f[k] \subseteq Inodes /\ i \in f[k] /\ k + 1 \in Nat
      BY <1>3, <2>2
    <3>2. \A x \in f[k] : kids[x] \subseteq Inodes
      BY <3>1
    <3> QED  BY <3>1, <3>2
  <2> HIDE DEF S
  <2>3. \A k \in 0..N : k \in S
    BY <1>2, <2>1, <2>2, UpTo
  <2> QED  BY <2>3 DEF S
<1>5. ASSUME NEW S, i \in S, \A x \in S \cap Inodes : kids[x] \subseteq S
      PROVE  f[N] \subseteq S
  <2> DEFINE K == {k \in 0..N : f[k] \subseteq S}
  <2>1. 0 \in K
    BY <1>2, <1>3, <1>5
  <2>2. ASSUME NEW k \in 0..(N - 1), k \in K PROVE k + 1 \in K
    <3>1. f[k + 1] = More(f[k]) /\ f[k] \subseteq S /\ k + 1 \in 0..N /\ f[k] \subseteq Inodes
      BY <1>2, <1>3, <1>4, <2>2
    <3>2. \A x \in f[k] : kids[x] \subseteq S
      BY <1>5, <3>1
    <3> QED  BY <3>1, <3>2
  <2> HIDE DEF K
  <2>3. \A k \in 0..N : k \in K
    BY <1>2, <2>1, <2>2, UpTo
  <2> QED  BY <1>2, <2>3 DEF K
<1>6. More(f[N]) = f[N]
  <2> DEFINE K == {k \in 0..N : More(f[k]) = f[k] \/ Cardinality(f[k]) >= k + 1}
  <2>1. IsFiniteSet(Inodes) /\ Cardinality(Inodes) = N
    BY <1>2, FS_Interval DEF Inodes
  <2>2. \A k \in 0..N : IsFiniteSet(f[k]) /\ Cardinality(f[k]) \in Nat /\ Cardinality(f[k]) <= N
    BY <1>4, <2>1, FS_Subset, FS_CardinalityType
  <2>3. 0 \in K
    <3>1. Cardinality(f[0]) = 1
      BY <1>3, FS_Singleton
    <3> QED  BY <1>2, <3>1
  <2>4. ASSUME NEW k \in 0..(N - 1), k \in K PROVE k + 1 \in K
    <3>1. f[k + 1] = More(f[k]) /\ k + 1 \in 0..N /\ k \in 0..N
      BY <1>2, <1>3
    <3>2. CASE More(f[k]) = f[k]
      BY <3>1, <3>2
    <3>3. CASE More(f[k]) # f[k]
      <4>1. f[k] \subseteq f[k + 1] /\ f[k + 1] # f[k]
        BY <3>1, <3>3
      <4>2. Cardinality(f[k]) <= Cardinality(f[k + 1]) /\ Cardinality(f[k]) # Cardinality(f[k + 1])
        BY <2>2, <3>1, <4>1, FS_Subset
      <4>3. Cardinality(f[k]) >= k + 1
        BY <2>4, <3>3
      <4>4. Cardinality(f[k + 1]) >= k + 1 + 1
        <5> DEFINE a == Cardinality(f[k])
                   b == Cardinality(f[k + 1])
        <5>1. a \in Nat /\ b \in Nat
          BY <2>2, <3>1
        <5>4. k \in Nat
          BY <1>2
        <5>2. a <= b /\ a # b /\ a >= k + 1
          BY <4>2, <4>3
        <5> HIDE DEF a, b
        <5>3. b >= k + 1 + 1
          BY <5>1, <5>2, <5>4
        <5> QED  BY <5>3 DEF b
      <4> QED  BY <3>1, <4>4
    <3> QED  BY <3>2, <3>3
  <2>5. \A k \in 0..N : k \in K
    <3> HIDE DEF K
    <3> QED  BY <1>2, <2>3, <2>4, UpTo
  <2>6. N \in 0..N /\ ~(Cardinality(f[N]) >= N + 1)
    BY <1>2, <2>2
  <2> QED  BY <2>5, <2>6
<1>7. \A x \in f[N] : kids[x] \subseteq f[N]
  BY <1>6
<1>8. f[N] \subseteq Inodes /\ i \in f[N]
  BY <1>2, <1>4
<1> QED  BY <1>1, <1>5, <1>7, <1>8

(* What a tree has is what is reached in it from the root.                 *)
LEMMA TreeIsReached ==
    ASSUME NEW t, IsTree(t), NEW kids \in [Inodes -> SUBSET Inodes],
           \A i \in DOMAIN t.nodes : kids[i] = {t.names[e] : e \in {f \in DOMAIN t.names : f[1] = i}}
    PROVE  Reach(kids, Root) = DOMAIN t.nodes
<1>1. Rooted(t) /\ Placed(t) /\ Reached(t)
  BY TreeParts
<1>2. Root \in Inodes
  BY <1>1 DEF Rooted
<1> DEFINE R == Reach(kids, Root)
<1>3. /\ Root \in R /\ \A x \in R : kids[x] \subseteq R
      /\ \A S : Root \in S /\ (\A x \in S \cap Inodes : kids[x] \subseteq S) => R \subseteq S
  BY <1>2, ReachIs
<1> HIDE DEF R
<1>4. \A x \in DOMAIN t.nodes : kids[x] \subseteq DOMAIN t.nodes
  BY <1>1 DEF Placed
<1>5. R \subseteq DOMAIN t.nodes
  BY <1>1, <1>3, <1>4 DEF Rooted
<1>6. Shut(t, R)
  <2> SUFFICES ASSUME NEW e \in DOMAIN t.names, e[1] \in R PROVE t.names[e] \in R
    BY DEF Shut
  <2>1. t.names[e] \in kids[e[1]]
    BY <1>5
  <2> QED  BY <1>3, <2>1
<1>7. R = DOMAIN t.nodes
  BY <1>1, <1>3, <1>5, <1>6 DEF Reached
<1> QED  BY <1>7 DEF R

-----------------------------------------------------------------------------
(* The view.                                                               *)

IsTable(f) == f = [x \in DOMAIN f |-> f[x]]

(* A tree, and nothing beside it.                                          *)
Whole(t) == IsTree(t) /\ IsTable(t.names) /\ IsTable(t.nodes) /\ t = [names |-> t.names, nodes |-> t.nodes]

At(t, e) == IF e \in DOMAIN t.names THEN t.names[e] ELSE 0

EntriesTyped == \A e \in Slot : Entry(e) \in Inodes \cup {0}

LEMMA ViewParts ==
    /\ DOMAIN View.nodes = Live /\ \A i \in Live : View.nodes[i] = Node(i)
    /\ DOMAIN View.names = {e \in Dirs \X Names : Entry(e) # 0}
    /\ \A e \in DOMAIN View.names : View.names[e] = Entry(e)
    /\ IsTable(View.nodes) /\ IsTable(View.names) /\ View = [names |-> View.names, nodes |-> View.nodes]
<1> DEFINE names == [e \in {x \in {i \in Live : IsDir(i)} \X Names : Entry(x) # 0} |-> Entry(e)]
           nodes == [i \in Live |-> Node(i)]
<1>1. View = [names |-> names, nodes |-> nodes]
  BY DEF View
<1>2. View.names = names /\ View.nodes = nodes
  BY <1>1
<1>3. /\ DOMAIN nodes = Live /\ \A i \in Live : nodes[i] = Node(i)
      /\ DOMAIN names = {e \in Dirs \X Names : Entry(e) # 0}
      /\ \A e \in DOMAIN names : names[e] = Entry(e)
      /\ IsTable(nodes) /\ IsTable(names)
  BY DEF Dirs, IsTable
<1> HIDE DEF names, nodes
<1> QED  BY <1>1, <1>2, <1>3

(* The merged view is the tree whose nodes and names the tables and the    *)
(* base give; what they say beside it does not matter.                     *)
LEMMA ViewIs ==
    ASSUME NEW t, Whole(t), EntriesTyped,
           \A i \in DOMAIN t.nodes : Node(i) = t.nodes[i],
           \A i \in DOMAIN t.nodes : t.nodes[i].type = "dir" =>
               \A n \in Names : Entry(<<i, n>>) = At(t, <<i, n>>)
    PROVE  View = t
<1>1. Rooted(t) /\ Placed(t) /\ Sorted(t)
  BY TreeParts DEF Whole
<1>2. \A e \in DOMAIN t.names : /\ e \in Slot /\ e = <<e[1], e[2]>> /\ e[1] \in DOMAIN t.nodes
                                /\ e[2] \in Names /\ t.nodes[e[1]].type = "dir"
                                /\ Entry(e) = t.names[e] /\ t.names[e] \in Inodes
  BY <1>1 DEF Placed, Slot, At, Rooted
<1>3. Kids \in [Inodes -> SUBSET Inodes]
  BY DEF Kids, Children, EntriesTyped, Slot
<1>4. ASSUME NEW i \in DOMAIN t.nodes
      PROVE  Kids[i] = {t.names[e] : e \in {f \in DOMAIN t.names : f[1] = i}}
  <2>1. i \in Inodes /\ Node(i) = t.nodes[i] /\ IsNode(t.nodes[i])
    BY <1>1 DEF Rooted, Sorted
  <2>2. CASE t.nodes[i].type = "dir"
    <3>1. Kids[i] = {Entry(e) : e \in ({i} \X Names)} \ {0}
      BY <2>1, <2>2 DEF Kids, Children, IsDir
    <3>2. \A e \in {i} \X Names : e = <<i, e[2]>> /\ e[2] \in Names /\ e[1] = i
      OBVIOUS
    <3>3. \A e \in {i} \X Names : Entry(e) = At(t, e)
      BY <2>2, <3>2
    <3>4. \A e \in DOMAIN t.names : e[1] = i => e \in {i} \X Names
      BY <1>2
    <3>5. \A e \in DOMAIN t.names : t.names[e] # 0
      BY <1>2 DEF Inodes
    <3> QED  BY <3>1, <3>2, <3>3, <3>4, <3>5 DEF At
  <2>3. CASE t.nodes[i].type # "dir"
    BY <1>2, <2>1, <2>3 DEF Kids, IsDir
  <2> QED  BY <2>2, <2>3
<1>5. Live = DOMAIN t.nodes
  BY <1>3, <1>4, TreeIsReached DEF Live, Below, Whole
<1>6. Dirs = {i \in DOMAIN t.nodes : t.nodes[i].type = "dir"}
  BY <1>5 DEF Dirs, IsDir
<1>7. \A e \in Dirs \X Names : Entry(e) = At(t, e)
  <2> SUFFICES ASSUME NEW e \in Dirs \X Names PROVE Entry(e) = At(t, e)
    OBVIOUS
  <2>1. e = <<e[1], e[2]>> /\ e[1] \in Dirs /\ e[2] \in Names
    OBVIOUS
  <2> QED  BY <1>6, <2>1
<1>8. {e \in Dirs \X Names : Entry(e) # 0} = DOMAIN t.names
  <2>1. \A e \in DOMAIN t.names : e \in Dirs \X Names /\ Entry(e) # 0
    BY <1>2, <1>6 DEF Inodes
  <2> QED  BY <1>7, <2>1 DEF At
<1>9. View.names = t.names /\ View.nodes = t.nodes
  BY <1>2, <1>5, <1>8, ViewParts DEF Whole, IsTable
<1> QED  BY <1>9, ViewParts DEF Whole

(* The same of the view after a step.                                      *)
LEMMA ViewPartsNext ==
    /\ DOMAIN View'.nodes = Live' /\ \A i \in Live' : View'.nodes[i] = Node(i)'
    /\ DOMAIN View'.names = {e \in Dirs' \X Names : Entry(e)' # 0}
    /\ \A e \in DOMAIN View'.names : View'.names[e] = Entry(e)'
    /\ IsTable(View'.nodes) /\ IsTable(View'.names) /\ View' = [names |-> View'.names, nodes |-> View'.nodes]
<1> DEFINE names == [e \in {x \in {i \in Live' : IsDir(i)'} \X Names : Entry(x)' # 0} |-> Entry(e)']
           nodes == [i \in Live' |-> Node(i)']
<1>1. View' = [names |-> names, nodes |-> nodes]
  BY DEF View
<1>2. View'.names = names /\ View'.nodes = nodes
  BY <1>1
<1>3. /\ DOMAIN nodes = Live' /\ \A i \in Live' : nodes[i] = Node(i)'
      /\ DOMAIN names = {e \in Dirs' \X Names : Entry(e)' # 0}
      /\ \A e \in DOMAIN names : names[e] = Entry(e)'
      /\ IsTable(nodes) /\ IsTable(names)
  BY DEF Dirs, IsTable
<1> HIDE DEF names, nodes
<1> QED  BY <1>1, <1>2, <1>3

LEMMA ViewIsNext ==
    ASSUME NEW t, Whole(t), EntriesTyped',
           \A i \in DOMAIN t.nodes : Node(i)' = t.nodes[i],
           \A i \in DOMAIN t.nodes : t.nodes[i].type = "dir" =>
               \A n \in Names : Entry(<<i, n>>)' = At(t, <<i, n>>)
    PROVE  View' = t
<1>1. Rooted(t) /\ Placed(t) /\ Sorted(t)
  BY TreeParts DEF Whole
<1>2. \A e \in DOMAIN t.names : /\ e \in Slot /\ e = <<e[1], e[2]>> /\ e[1] \in DOMAIN t.nodes
                                /\ e[2] \in Names /\ t.nodes[e[1]].type = "dir"
                                /\ Entry(e)' = t.names[e] /\ t.names[e] \in Inodes
  BY <1>1 DEF Placed, Slot, At, Rooted
<1>3. Kids' \in [Inodes -> SUBSET Inodes]
  BY DEF Kids, Children, EntriesTyped, Slot
<1>4. ASSUME NEW i \in DOMAIN t.nodes
      PROVE  Kids'[i] = {t.names[e] : e \in {f \in DOMAIN t.names : f[1] = i}}
  <2>1. i \in Inodes /\ Node(i)' = t.nodes[i] /\ IsNode(t.nodes[i])
    BY <1>1 DEF Rooted, Sorted
  <2>2. CASE t.nodes[i].type = "dir"
    <3>1. Kids'[i] = {Entry(e)' : e \in ({i} \X Names)} \ {0}
      BY <2>1, <2>2 DEF Kids, Children, IsDir
    <3>2. \A e \in {i} \X Names : e = <<i, e[2]>> /\ e[2] \in Names /\ e[1] = i
      OBVIOUS
    <3>3. \A e \in {i} \X Names : Entry(e)' = At(t, e)
      BY <2>2, <3>2
    <3>4. \A e \in DOMAIN t.names : e[1] = i => e \in {i} \X Names
      BY <1>2
    <3>5. \A e \in DOMAIN t.names : t.names[e] # 0
      BY <1>2 DEF Inodes
    <3> QED  BY <3>1, <3>2, <3>3, <3>4, <3>5 DEF At
  <2>3. CASE t.nodes[i].type # "dir"
    BY <1>2, <2>1, <2>3 DEF Kids, IsDir
  <2> QED  BY <2>2, <2>3
<1>5. Live' = DOMAIN t.nodes
  BY <1>3, <1>4, TreeIsReached DEF Live, Below, Whole
<1>6. Dirs' = {i \in DOMAIN t.nodes : t.nodes[i].type = "dir"}
  BY <1>5 DEF Dirs, IsDir
<1>7. \A e \in Dirs' \X Names : Entry(e)' = At(t, e)
  <2> SUFFICES ASSUME NEW e \in Dirs' \X Names PROVE Entry(e)' = At(t, e)
    OBVIOUS
  <2>1. e = <<e[1], e[2]>> /\ e[1] \in Dirs' /\ e[2] \in Names
    OBVIOUS
  <2> QED  BY <1>6, <2>1
<1>8. {e \in Dirs' \X Names : Entry(e)' # 0} = DOMAIN t.names
  <2>1. \A e \in DOMAIN t.names : e \in Dirs' \X Names /\ Entry(e)' # 0
    BY <1>2, <1>6 DEF Inodes
  <2> QED  BY <1>7, <2>1 DEF At
<1>9. View'.names = t.names /\ View'.nodes = t.nodes
  BY <1>2, <1>5, <1>8, ViewPartsNext DEF Whole, IsTable
<1> QED  BY <1>9, ViewPartsNext DEF Whole

-----------------------------------------------------------------------------
(* The inductive invariant.                                                *)

IsRow(v) == v \in [node : {v.node}, base : BOOLEAN] /\ IsNode(v.node)

TablesTyped ==
    /\ \A i \in DOMAIN row : i \in Inodes /\ IsRow(row[i])
    /\ \A e \in DOMAIN edge : e \in Slot /\ edge[e] \in Inodes \cup {0}

IsRebase(j) ==
    j = [at |-> "rebasing", clean |-> j.clean, cleaned |-> j.cleaned, todo |-> j.todo,
         lost |-> j.lost, held |-> j.held]

GensTyped ==
    /\ \E S : gens \in Seq(S)
    /\ \A g \in 1..Len(gens) : IsTree(gens[g])
    /\ served \in 1..Len(gens) /\ recorded \in 1..served
    /\ job.at = "frozen" => IsTree(job.tree)
    /\ job.at \in {"swapped", "rebasing"} => served = Len(gens)
    /\ job.at = "rebasing" => IsRebase(job)

(* The next inode number was never given before.                           *)
Numbered ==
    /\ fresh \in Nat \ {0}
    /\ \A i \in DOMAIN View.nodes : i < fresh
    /\ \A e \in DOMAIN edge : e[1] < fresh

(* What the checkpoint under way publishes, or has published.              *)
Frozen == IF job.at = "frozen" THEN job.tree ELSE gens[Len(gens)]

(* Until the swap: whatever the tables leave to the base is the same in    *)
(* the generation that is about to replace it, and what that gives that    *)
(* the base does not, an unlink turns into a whiteout.                     *)
BaseAgrees ==
    job.at \in {"frozen", "flipped"} =>
       /\ \A i \in DOMAIN View.nodes \ DOMAIN row :
             i \in DOMAIN Frozen.nodes /\ Frozen.nodes[i] = View.nodes[i]
       /\ \A i \in DOMAIN View.nodes : View.nodes[i].type = "dir" /\ Backed(i) =>
             \A n \in Names : <<i, n>> \notin DOMAIN edge => At(Frozen, <<i, n>>) = At(View, <<i, n>>)
       /\ \A e \in DOMAIN Frozen.names : e \in pending.names \cup DOMAIN Base.names

(* Until the end of the rebase: an inode that was not modified since the   *)
(* freeze is as it was published.                                          *)
UntouchedPublished ==
    job.at \in {"frozen", "flipped", "swapped", "rebasing"} =>
       \A i \in DOMAIN View.nodes : Untouched(i) =>
          /\ i \in DOMAIN Frozen.nodes /\ Frozen.nodes[i] = View.nodes[i]
          /\ \A n \in Names : At(Frozen, <<i, n>>) = At(View, <<i, n>>)

OverlayInv ==
    /\ TablesTyped /\ GensTyped /\ Numbered
    /\ IsTree(View) /\ BaseAgrees /\ UntouchedPublished

(* What a directory says, and what a node is.                              *)
LEMMA EntriesAre ==
    ASSUME TablesTyped, GensTyped
    PROVE  EntriesTyped
<1>1. \A e \in DOMAIN Base.names : Base.names[e] \in Inodes
  <2>1. IsTree(Base)
    BY DEF GensTyped, Base
  <2> QED  BY <2>1, TreeParts DEF Placed, Rooted
<1> QED  BY <1>1 DEF EntriesTyped, Entry, TablesTyped

LEMMA EntriesAreNext ==
    ASSUME TablesTyped', GensTyped'
    PROVE  EntriesTyped'
<1>1. \A e \in DOMAIN Base'.names : Base'.names[e] \in Inodes
  <2>1. IsTree(Base')
    BY DEF GensTyped, Base
  <2> QED  BY <2>1, TreeParts DEF Placed, Rooted
<1> QED  BY <1>1 DEF EntriesTyped, Entry, TablesTyped

LEMMA ViewSays ==
    /\ Live = DOMAIN View.nodes /\ \A i \in Live : Node(i) = View.nodes[i]
    /\ Dirs = {i \in DOMAIN View.nodes : View.nodes[i].type = "dir"}
    /\ Files = {i \in DOMAIN View.nodes : View.nodes[i].type = "file"}
    /\ \A p \in Dirs, n \in Names : At(View, <<p, n>>) = Entry(<<p, n>>)
<1>1. Live = DOMAIN View.nodes /\ \A i \in Live : Node(i) = View.nodes[i]
  BY ViewParts
<1>2. Dirs = {i \in DOMAIN View.nodes : View.nodes[i].type = "dir"}
  BY <1>1 DEF Dirs, IsDir
<1>3. Files = {i \in DOMAIN View.nodes : View.nodes[i].type = "file"}
  BY <1>1 DEF Files
<1>4. \A p \in Dirs, n \in Names : At(View, <<p, n>>) = Entry(<<p, n>>)
  <2> SUFFICES ASSUME NEW p \in Dirs, NEW n \in Names PROVE At(View, <<p, n>>) = Entry(<<p, n>>)
    OBVIOUS
  <2>1. <<p, n>> \in Dirs \X Names
    OBVIOUS
  <2> QED  BY <2>1, ViewParts DEF At
<1> QED  BY <1>1, <1>2, <1>3, <1>4

(* What is below an inode is closed.                                       *)
LEMMA BelowIs ==
    ASSUME OverlayInv, NEW i \in DOMAIN View.nodes
    PROVE  i \in Below(i) /\ Shut(View, Below(i))
<1>1. EntriesTyped /\ Placed(View) /\ Rooted(View)
  BY EntriesAre, TreeParts DEF OverlayInv
<1>2. Kids \in [Inodes -> SUBSET Inodes]
  BY <1>1 DEF Kids, Children, EntriesTyped, Slot
<1>3. /\ i \in Below(i) /\ Below(i) \subseteq Inodes
      /\ \A x \in Below(i) : Kids[x] \subseteq Below(i)
  BY <1>1, <1>2, ReachIs DEF Below, Rooted
<1>4. ASSUME NEW e \in DOMAIN View.names, e[1] \in Below(i) PROVE View.names[e] \in Below(i)
  <2>1. e \in Dirs \X Names /\ Entry(e) # 0 /\ View.names[e] = Entry(e) /\ e[1] \in Inodes
    BY <1>3, <1>4, ViewParts
  <2>2. View.names[e] \in Children({e[1]}) /\ IsDir(e[1])
    <3>1. e \in {e[1]} \X Names
      BY <2>1
    <3>2. e[1] \in Dirs
      BY <2>1
    <3> QED  BY <2>1, <3>1, <3>2 DEF Children, Dirs
  <2>3. View.names[e] \in Kids[e[1]]
    BY <2>1, <2>2 DEF Kids
  <2> QED  BY <1>3, <1>4, <2>3
<1> QED  BY <1>3, <1>4 DEF Shut

(* An operation that makes a tree of the view, and modifies what it marks. *)
LEMMA UserKeeps ==
    ASSUME OverlayInv, UNCHANGED <<recorded, gens, served, pending, job>>,
           NEW u, IsTree(u), View' = u, TablesTyped',
           fresh' \in Nat \ {0}, \A i \in DOMAIN u.nodes : i < fresh', \A e \in DOMAIN edge' : e[1] < fresh',
           NEW S, Touch(S),
           \A i \in DOMAIN u.nodes \ S :
              /\ i \in DOMAIN View.nodes /\ u.nodes[i] = View.nodes[i]
              /\ \A n \in Names : At(u, <<i, n>>) = At(View, <<i, n>>),
           \A i \in DOMAIN u.nodes \ DOMAIN row' :
              i \in DOMAIN View.nodes \ DOMAIN row /\ u.nodes[i] = View.nodes[i],
           \A i \in DOMAIN u.nodes : u.nodes[i].type = "dir" /\ Backed(i)' =>
              /\ i \in DOMAIN View.nodes /\ View.nodes[i].type = "dir" /\ Backed(i)
              /\ \A n \in Names : <<i, n>> \notin DOMAIN edge' =>
                    \/ <<i, n>> \notin DOMAIN edge /\ At(u, <<i, n>>) = At(View, <<i, n>>)
                    \/ At(u, <<i, n>>) = 0 /\ ~BaseHas(<<i, n>>)
    PROVE  OverlayInv'
<1>1. GensTyped' /\ Numbered'
  BY DEF OverlayInv, GensTyped, Numbered
<1>2. Frozen' = Frozen /\ Base' = Base /\ job' = job /\ pending' = pending
  BY DEF Frozen, Base
<1>3. BaseAgrees'
  <2> SUFFICES ASSUME job.at \in {"frozen", "flipped"}
               PROVE  /\ \A i \in DOMAIN u.nodes \ DOMAIN row' :
                            i \in DOMAIN Frozen.nodes /\ Frozen.nodes[i] = u.nodes[i]
                      /\ \A i \in DOMAIN u.nodes : u.nodes[i].type = "dir" /\ Backed(i)' =>
                            \A n \in Names : <<i, n>> \notin DOMAIN edge' =>
                               At(Frozen, <<i, n>>) = At(u, <<i, n>>)
                      /\ \A e \in DOMAIN Frozen.names : e \in pending.names \cup DOMAIN Base.names
    BY <1>2 DEF BaseAgrees
  <2>1. /\ \A i \in DOMAIN View.nodes \ DOMAIN row :
              i \in DOMAIN Frozen.nodes /\ Frozen.nodes[i] = View.nodes[i]
        /\ \A i \in DOMAIN View.nodes : View.nodes[i].type = "dir" /\ Backed(i) =>
             \A n \in Names : <<i, n>> \notin DOMAIN edge => At(Frozen, <<i, n>>) = At(View, <<i, n>>)
        /\ \A e \in DOMAIN Frozen.names : e \in pending.names \cup DOMAIN Base.names
    BY DEF OverlayInv, BaseAgrees
  <2>2. ASSUME NEW i \in DOMAIN u.nodes, u.nodes[i].type = "dir", Backed(i)',
               NEW n \in Names, <<i, n>> \notin DOMAIN edge'
        PROVE  At(Frozen, <<i, n>>) = At(u, <<i, n>>)
    <3>1. i \in DOMAIN View.nodes /\ View.nodes[i].type = "dir" /\ Backed(i)
      BY <2>2
    <3>2. CASE <<i, n>> \notin DOMAIN edge /\ At(u, <<i, n>>) = At(View, <<i, n>>)
      BY <2>1, <3>1, <3>2
    <3>3. CASE At(u, <<i, n>>) = 0 /\ ~BaseHas(<<i, n>>)
      <4>1. <<i, n>> \notin pending.names \cup DOMAIN Base.names
        BY <3>1, <3>3 DEF BaseHas
      <4> QED  BY <2>1, <3>3, <4>1 DEF At
    <3> QED  BY <2>2, <3>2, <3>3
  <2> QED  BY <2>1, <2>2
<1>4. UntouchedPublished'
  <2> SUFFICES ASSUME job.at \in {"frozen", "flipped", "swapped", "rebasing"},
                      NEW i \in DOMAIN u.nodes, i \in DOMAIN stamp', stamp'[i] = "before"
               PROVE  /\ i \in DOMAIN Frozen.nodes /\ Frozen.nodes[i] = u.nodes[i]
                      /\ \A n \in Names : At(Frozen, <<i, n>>) = At(u, <<i, n>>)
    BY <1>2 DEF UntouchedPublished, Untouched
  <2>1. i \notin S /\ Untouched(i)
    BY DEF Touch, Untouched
  <2> QED  BY <2>1 DEF OverlayInv, UntouchedPublished
<1> QED  BY <1>1, <1>3, <1>4 DEF OverlayInv

-----------------------------------------------------------------------------
(* Each operation of a user is one of the tree's.                          *)

LEMMA Before ==
    ASSUME OverlayInv
    PROVE  /\ IsTree(View) /\ EntriesTyped /\ TablesTyped /\ IsTree(Base)
           /\ Rooted(View) /\ Placed(View) /\ Sorted(View)
           /\ \A i \in Dirs : /\ i \in DOMAIN View.nodes /\ i \in Inodes /\ View.nodes[i].type = "dir"
                              /\ \A n \in Names : At(View, <<i, n>>) = Entry(<<i, n>>)
           /\ \A i \in Files : i \in DOMAIN View.nodes /\ i \in Inodes /\ View.nodes[i].type = "file"
           /\ \A i \in DOMAIN View.nodes : /\ i \in Inodes /\ Node(i) = View.nodes[i] /\ IsNode(Node(i))
                                           /\ i < fresh
                                           /\ View.nodes[i].type = "dir" => i \in Dirs
                                           /\ View.nodes[i].type = "file" => i \in Files
<1>1. IsTree(View) /\ EntriesTyped /\ TablesTyped
  BY EntriesAre DEF OverlayInv
<1>2. IsTree(Base)
  BY DEF OverlayInv, GensTyped, Base
<1>3. Rooted(View) /\ Placed(View) /\ Sorted(View)
  BY <1>1, TreeParts
<1>4. \A i \in DOMAIN View.nodes : i < fresh
  BY DEF OverlayInv, Numbered
<1> QED  BY <1>1, <1>2, <1>3, <1>4, ViewSays DEF Rooted, Sorted

LEMMA SameRow ==
    ASSUME Base' = Base, NEW i, i \in DOMAIN row' <=> i \in DOMAIN row,
           i \in DOMAIN row => row'[i] = row[i]
    PROVE  Backed(i)' = Backed(i) /\ Node(i)' = Node(i)
BY DEF Backed, Node

LEMMA SameEntry ==
    ASSUME Base' = Base, NEW e, Backed(e[1])' = Backed(e[1]), e \in DOMAIN edge' <=> e \in DOMAIN edge,
           e \in DOMAIN edge => edge'[e] = edge[e]
    PROVE  Entry(e)' = Entry(e)
BY DEF Entry

LEMMA CreateMakes ==
    ASSUME OverlayInv, NEW p \in Inodes, NEW n \in Names,
           NEW node \in {Dir} \cup {File(d) : d \in Data}, Create(p, n, node)
    PROVE  OverlayInv' /\ Mounted!Next
<1>0. PICK k : k = fresh
  OBVIOUS
<1> DEFINE e == <<p, n>>
           names == Mounted!Put(View.names, e, k)
           nodes == Mounted!Put(View.nodes, k, node)
           u == [names |-> names, nodes |-> nodes]
<1>1. /\ p \in Dirs /\ Entry(e) = 0 /\ k <= MaxInode /\ fresh' = k + 1
      /\ row' = Put(row, k, [node |-> node, base |-> FALSE])
      /\ edge' = Put(edge, e, k)
      /\ Touch({p, k})
      /\ UNCHANGED <<recorded, gens, served, pending, job>>
  BY <1>0 DEF Create, Parent, Unmoved
<1>2. /\ p \in DOMAIN View.nodes /\ View.nodes[p].type = "dir"
      /\ e \in Slot /\ e \notin DOMAIN View.names
  BY <1>1, Before, ViewParts DEF Slot
<1>3. k \in Nat \ {0} /\ k \in Inodes /\ k \notin DOMAIN View.nodes
  BY <1>0, <1>1, OverlayAssumption DEF OverlayInv, Numbered, Inodes
<1>4. IsNode(node) /\ node.links = 1
  BY DEF IsNode, Dir, File
<1>5. IsTree(u)
  BY <1>2, <1>3, <1>4, Before, Created
<1>6. /\ DOMAIN names = DOMAIN View.names \cup {e} /\ names[e] = k
      /\ \A f \in DOMAIN View.names : f # e /\ names[f] = View.names[f]
      /\ DOMAIN nodes = DOMAIN View.nodes \cup {k} /\ nodes[k] = node
      /\ \A j \in DOMAIN View.nodes : j # k /\ nodes[j] = View.nodes[j]
      /\ IsTable(names) /\ IsTable(nodes)
  <2>1. /\ DOMAIN names = DOMAIN View.names \cup {e} /\ names[e] = k
        /\ \A f \in DOMAIN View.names \ {e} : names[f] = View.names[f]
        /\ IsTable(names)
    BY DEF Mounted!Put, IsTable
  <2>2. /\ DOMAIN nodes = DOMAIN View.nodes \cup {k} /\ nodes[k] = node
        /\ \A j \in DOMAIN View.nodes \ {k} : nodes[j] = View.nodes[j]
        /\ IsTable(nodes)
    BY DEF Mounted!Put, IsTable
  <2> HIDE DEF names, nodes
  <2> QED  BY <1>2, <1>3, <2>1, <2>2
<1>7. u.names = names /\ u.nodes = nodes /\ u = [names |-> u.names, nodes |-> u.nodes]
  OBVIOUS
<1>8. View' = u => Mounted!Create(View, View')
  BY <1>2, <1>3 DEF Mounted!Create, Mounted!Free, Mounted!Of, Slot, Mounted!Dir, Mounted!File, Dir, File
<1> HIDE DEF names, nodes, u
<1>9. /\ DOMAIN row' = DOMAIN row \cup {k} /\ row'[k] = [node |-> node, base |-> FALSE]
      /\ \A i \in DOMAIN row \ {k} : row'[i] = row[i]
      /\ DOMAIN edge' = DOMAIN edge \cup {e} /\ edge'[e] = k
      /\ \A f \in DOMAIN edge \ {e} : edge'[f] = edge[f]
  <2>1. /\ DOMAIN row' = DOMAIN row \cup {k} /\ row'[k] = [node |-> node, base |-> FALSE]
        /\ \A i \in DOMAIN row \ {k} : row'[i] = row[i]
    <3>1. row' = Put(row, k, [node |-> node, base |-> FALSE])
      BY <1>1
    <3> QED  BY <3>1 DEF Put, Over
  <2>2. /\ DOMAIN edge' = DOMAIN edge \cup {e} /\ edge'[e] = k
        /\ \A f \in DOMAIN edge \ {e} : edge'[f] = edge[f]
    <3>1. edge' = Put(edge, e, k)
      BY <1>1
    <3> HIDE DEF e
    <3> QED  BY <3>1 DEF Put, Over
  <2> QED  BY <2>1, <2>2
<1>10. TablesTyped'
  <2>1. IsRow([node |-> node, base |-> FALSE])
    BY <1>4 DEF IsRow
  <2>3. \A i \in DOMAIN row' : i \in Inodes /\ IsRow(row'[i])
    BY <1>3, <1>9, <2>1, Before DEF TablesTyped
  <2>2. \A f \in DOMAIN edge' : f \in Slot /\ edge'[f] \in Inodes \cup {0}
    BY <1>2, <1>3, <1>9, Before DEF TablesTyped
  <2> QED  BY <2>2, <2>3 DEF TablesTyped
<1>11. GensTyped' /\ Base' = Base
  BY <1>1 DEF OverlayInv, GensTyped, Base
<1>12. /\ ~Backed(k)'
       /\ \A i \in DOMAIN View.nodes : Backed(i)' = Backed(i) /\ Node(i)' = Node(i)
  <2>1. ~Backed(k)'
    BY <1>9 DEF Backed
  <2>2. \A i \in DOMAIN View.nodes : (i \in DOMAIN row' <=> i \in DOMAIN row)
                                    /\ (i \in DOMAIN row => row'[i] = row[i])
    BY <1>3, <1>9
  <2> QED  BY <1>11, <2>1, <2>2, SameRow
<1>13. /\ Node(k)' = node
       /\ \A m \in Names : Entry(<<k, m>>)' = 0
  <2>1. \A m \in Names : <<k, m>> \notin DOMAIN edge'
    BY <1>0, <1>2, <1>3, <1>9 DEF OverlayInv, Numbered
  <2>2. \A m \in Names : Entry(<<k, m>>)' = 0
    BY <1>12, <2>1 DEF Entry
  <2>3. Node(k)' = node
    BY <1>9 DEF Node
  <2> QED  BY <2>2, <2>3
<1>14. /\ Entry(e)' = k
       /\ \A i \in DOMAIN View.nodes, m \in Names : <<i, m>> # e => Entry(<<i, m>>)' = Entry(<<i, m>>)
  <2>1. Entry(e)' = k
    BY <1>9 DEF Entry
  <2> SUFFICES ASSUME NEW i \in DOMAIN View.nodes, NEW m \in Names, <<i, m>> # e
               PROVE  Entry(<<i, m>>)' = Entry(<<i, m>>)
    BY <2>1
  <2>2. /\ <<i, m>> \in DOMAIN edge' <=> <<i, m>> \in DOMAIN edge
        /\ <<i, m>> \in DOMAIN edge => edge'[<<i, m>>] = edge[<<i, m>>]
    BY <1>9
  <2>3. Backed(<<i, m>>[1])' = Backed(<<i, m>>[1])
    BY <1>12
  <2> QED  BY <1>11, <2>2, <2>3, SameEntry
<1>15. /\ \A m \in Names : At(u, <<k, m>>) = 0
       /\ At(u, e) = k
       /\ \A i \in DOMAIN View.nodes, m \in Names : <<i, m>> # e => At(u, <<i, m>>) = At(View, <<i, m>>)
  BY <1>2, <1>3, <1>6, <1>7, Before DEF At, Placed
<1>16. View' = u
  <2>1. \A i \in DOMAIN nodes : Node(i)' = nodes[i]
    <3>1. \A i \in DOMAIN View.nodes : Node(i)' = View.nodes[i]
      BY <1>12, Before
    <3> QED  BY <1>6, <1>13, <3>1
  <2>2. \A i \in DOMAIN nodes : nodes[i].type = "dir" =>
           \A m \in Names : Entry(<<i, m>>)' = At(u, <<i, m>>)
    <3>1. ASSUME NEW i \in DOMAIN View.nodes, View.nodes[i].type = "dir", NEW m \in Names
          PROVE  Entry(<<i, m>>)' = At(u, <<i, m>>)
      <4>1. Entry(<<i, m>>) = At(View, <<i, m>>)
        BY <3>1, Before
      <4> QED  BY <1>14, <1>15, <4>1
    <3> QED  BY <1>6, <1>13, <1>15, <3>1
  <2>3. EntriesTyped'
    BY <1>10, <1>11, EntriesAreNext
  <2> QED  BY <1>5, <1>6, <1>7, <2>1, <2>2, <2>3, ViewIsNext DEF Whole
<1>17. OverlayInv'
  <2>1. fresh' \in Nat \ {0} /\ \A i \in DOMAIN u.nodes : i < fresh'
    BY <1>0, <1>1, <1>3, <1>6, <1>7, Before DEF Inodes
  <2>2. \A f \in DOMAIN edge' : f[1] < fresh'
    <3>1. \A f \in DOMAIN edge : f \in Slot /\ f[1] < k
      BY <1>0, Before DEF OverlayInv, Numbered, TablesTyped
    <3>2. p < k
      BY <1>0, <1>2, Before
    <3> QED  BY <1>1, <1>3, <1>9, <3>1, <3>2 DEF Slot, Inodes
  <2>3. \A i \in DOMAIN u.nodes \ {p, k} :
              /\ i \in DOMAIN View.nodes /\ u.nodes[i] = View.nodes[i]
              /\ \A m \in Names : At(u, <<i, m>>) = At(View, <<i, m>>)
    BY <1>6, <1>7, <1>15
  <2>4. \A i \in DOMAIN u.nodes \ DOMAIN row' :
              i \in DOMAIN View.nodes \ DOMAIN row /\ u.nodes[i] = View.nodes[i]
    BY <1>6, <1>7, <1>9
  <2>5. \A i \in DOMAIN u.nodes : u.nodes[i].type = "dir" /\ Backed(i)' =>
              /\ i \in DOMAIN View.nodes /\ View.nodes[i].type = "dir" /\ Backed(i)
              /\ \A m \in Names : <<i, m>> \notin DOMAIN edge' =>
                    \/ <<i, m>> \notin DOMAIN edge /\ At(u, <<i, m>>) = At(View, <<i, m>>)
                    \/ At(u, <<i, m>>) = 0 /\ ~BaseHas(<<i, m>>)
    <3> SUFFICES ASSUME NEW i \in DOMAIN u.nodes, u.nodes[i].type = "dir", Backed(i)'
                 PROVE  /\ i \in DOMAIN View.nodes /\ View.nodes[i].type = "dir" /\ Backed(i)
                        /\ \A m \in Names : <<i, m>> \notin DOMAIN edge' =>
                             <<i, m>> \notin DOMAIN edge /\ At(u, <<i, m>>) = At(View, <<i, m>>)
      OBVIOUS
    <3>1. i \in DOMAIN View.nodes /\ View.nodes[i].type = "dir" /\ Backed(i)
      BY <1>6, <1>7, <1>12
    <3> QED  BY <1>9, <1>15, <3>1
  <2> QED  BY <1>1, <1>5, <1>10, <1>16, <2>1, <2>2, <2>3, <2>4, <2>5, UserKeeps
<1> QED  BY <1>8, <1>16, <1>17 DEF Mounted!Next

(* The row an inode gets when it is materialized.                          *)
LEMMA HalfIs ==
    ASSUME OverlayInv, NEW i \in DOMAIN View.nodes
    PROVE  \E b \in BOOLEAN : Materialized(i) = [node |-> View.nodes[i], base |-> b]
<1>1. Node(i) = View.nodes[i] /\ TablesTyped
  BY Before
<1>2. CASE i \in DOMAIN row
  <2>1. row[i].node = View.nodes[i]
    BY <1>1, <1>2 DEF Node
  <2>2. row[i] \in [node : {row[i].node}, base : BOOLEAN]
    BY <1>1, <1>2 DEF TablesTyped, IsRow
  <2> QED  BY <1>2, <2>1, <2>2 DEF Materialized
<1>3. CASE i \notin DOMAIN row
  BY <1>1, <1>3 DEF Materialized
<1> QED  BY <1>2, <1>3

LEMMA WriteMakes ==
    ASSUME OverlayInv, NEW i \in Inodes, NEW d \in Data, Write(i, d)
    PROVE  OverlayInv' /\ Mounted!Next
<1> DEFINE node == [View.nodes[i] EXCEPT !.data = d]
           nodes == [View.nodes EXCEPT ![i].data = d]
           u == [names |-> View.names, nodes |-> nodes]
<1>1. /\ i \in Files
      /\ row' = Put(row, i, [Materialized(i) EXCEPT !.node.data = d])
      /\ edge' = edge /\ fresh' = fresh
      /\ Touch({i})
      /\ UNCHANGED <<recorded, gens, served, pending, job>>
  BY DEF Write, Unmoved
<1>2. i \in DOMAIN View.nodes /\ View.nodes[i].type = "file" /\ IsNode(View.nodes[i])
  BY <1>1, Before
<1>3. IsTree(u)
  BY <1>2, Before, Written
<1>4. /\ DOMAIN nodes = DOMAIN View.nodes /\ nodes[i] = node
      /\ \A j \in DOMAIN View.nodes \ {i} : nodes[j] = View.nodes[j]
      /\ IsTable(nodes) /\ IsTable(View.names)
  BY <1>2, ViewParts DEF IsTable
<1>5. u.names = View.names /\ u.nodes = nodes /\ u = [names |-> u.names, nodes |-> u.nodes]
  OBVIOUS
<1>6. View' = u => Mounted!Write(View, View')
  <2>1. [View EXCEPT !.nodes[i].data = d] = u
    BY <1>2, ViewParts
  <2> QED  BY <1>2, <2>1 DEF Mounted!Write, Mounted!Of
<1>7. IsNode(node) /\ node.type = "file"
  BY <1>2 DEF IsNode
<1>8. PICK b \in BOOLEAN : [Materialized(i) EXCEPT !.node.data = d] = [node |-> node, base |-> b]
  BY <1>2, HalfIs
<1> HIDE DEF node, nodes, u
<1>9. /\ DOMAIN row' = DOMAIN row \cup {i} /\ row'[i] = [node |-> node, base |-> b]
      /\ \A j \in DOMAIN row \ {i} : row'[j] = row[j]
  <2>1. row' = Put(row, i, [node |-> node, base |-> b])
    BY <1>1, <1>8
  <2> QED  BY <2>1 DEF Put, Over
<1>10. TablesTyped'
  <2>1. IsRow([node |-> node, base |-> b])
    BY <1>7 DEF IsRow
  <2>2. \A j \in DOMAIN row' : j \in Inodes /\ IsRow(row'[j])
    BY <1>9, <2>1, Before DEF TablesTyped
  <2> QED  BY <1>1, <2>2, Before DEF TablesTyped
<1>11. GensTyped' /\ Base' = Base
  BY <1>1 DEF OverlayInv, GensTyped, Base
<1>12. /\ Node(i)' = node
       /\ \A j \in DOMAIN View.nodes \ {i} : Backed(j)' = Backed(j) /\ Node(j)' = Node(j)
  <2>1. Node(i)' = node
    BY <1>9 DEF Node
  <2>2. \A j \in DOMAIN View.nodes \ {i} : (j \in DOMAIN row' <=> j \in DOMAIN row)
                                        /\ (j \in DOMAIN row => row'[j] = row[j])
    BY <1>9
  <2> QED  BY <1>11, <2>1, <2>2, SameRow
<1>13. \A j \in DOMAIN View.nodes \ {i}, m \in Names : Entry(<<j, m>>)' = Entry(<<j, m>>)
  <2> SUFFICES ASSUME NEW j \in DOMAIN View.nodes \ {i}, NEW m \in Names
               PROVE  Entry(<<j, m>>)' = Entry(<<j, m>>)
    OBVIOUS
  <2>1. Backed(<<j, m>>[1])' = Backed(<<j, m>>[1])
    BY <1>12
  <2> QED  BY <1>1, <1>11, <2>1, SameEntry
<1>14. \A j, m : At(u, <<j, m>>) = At(View, <<j, m>>)
  BY <1>5 DEF At
<1>15. View' = u
  <2>1. \A j \in DOMAIN nodes : Node(j)' = nodes[j]
    <3>1. \A j \in DOMAIN View.nodes \ {i} : Node(j)' = View.nodes[j]
      BY <1>12, Before
    <3> QED  BY <1>4, <1>12, <3>1
  <2>2. ASSUME NEW j \in DOMAIN nodes, nodes[j].type = "dir", NEW m \in Names
        PROVE  Entry(<<j, m>>)' = At(u, <<j, m>>)
    <3>1. j \in DOMAIN View.nodes \ {i} /\ View.nodes[j].type = "dir"
      BY <1>4, <1>7, <2>2
    <3>2. Entry(<<j, m>>) = At(View, <<j, m>>)
      BY <3>1, Before
    <3> QED  BY <1>13, <1>14, <3>1, <3>2
  <2>3. EntriesTyped'
    BY <1>10, <1>11, EntriesAreNext
  <2> QED  BY <1>3, <1>4, <1>5, <2>1, <2>2, <2>3, ViewIsNext DEF Whole
<1>16. OverlayInv'
  <2>1. fresh' \in Nat \ {0} /\ \A j \in DOMAIN u.nodes : j < fresh'
    BY <1>1, <1>4, <1>5, Before DEF OverlayInv, Numbered
  <2>2. \A f \in DOMAIN edge' : f[1] < fresh'
    BY <1>1 DEF OverlayInv, Numbered
  <2>3. \A j \in DOMAIN u.nodes \ {i} :
              /\ j \in DOMAIN View.nodes /\ u.nodes[j] = View.nodes[j]
              /\ \A m \in Names : At(u, <<j, m>>) = At(View, <<j, m>>)
    BY <1>4, <1>5, <1>14
  <2>4. \A j \in DOMAIN u.nodes \ DOMAIN row' :
              j \in DOMAIN View.nodes \ DOMAIN row /\ u.nodes[j] = View.nodes[j]
    BY <1>4, <1>5, <1>9
  <2>5. ASSUME NEW j \in DOMAIN u.nodes, u.nodes[j].type = "dir", Backed(j)'
        PROVE  /\ j \in DOMAIN View.nodes /\ View.nodes[j].type = "dir" /\ Backed(j)
               /\ \A m \in Names : <<j, m>> \notin DOMAIN edge' =>
                      <<j, m>> \notin DOMAIN edge /\ At(u, <<j, m>>) = At(View, <<j, m>>)
    <3>1. j \in DOMAIN View.nodes \ {i} /\ View.nodes[j].type = "dir" /\ Backed(j)
      BY <1>4, <1>5, <1>7, <1>12, <2>5
    <3> QED  BY <1>1, <1>14, <3>1
  <2> QED  BY <1>1, <1>3, <1>10, <1>15, <2>1, <2>2, <2>3, <2>4, <2>5, UserKeeps
<1> QED  BY <1>6, <1>15, <1>16 DEF Mounted!Next

LEMMA LinkMakes ==
    ASSUME OverlayInv, NEW i \in Inodes, NEW q \in Inodes, NEW n \in Names, Link(i, q, n)
    PROVE  OverlayInv' /\ Mounted!Next
<1> DEFINE e == <<q, n>>
           node == [View.nodes[i] EXCEPT !.links = @ + 1]
           names == Mounted!Put(View.names, e, i)
           nodes == [View.nodes EXCEPT ![i].links = @ + 1]
           u == [names |-> names, nodes |-> nodes]
<1>1. /\ i \in Files /\ q \in Dirs /\ Entry(e) = 0
      /\ row' = Put(row, i, [Materialized(i) EXCEPT !.node.links = @ + 1])
      /\ edge' = Put(edge, e, i)
      /\ Touch({i, q})
      /\ UNCHANGED <<recorded, gens, served, pending, job, fresh>>
  BY DEF Link, Parent, Unmoved
<1>2. /\ i \in DOMAIN View.nodes /\ View.nodes[i].type = "file" /\ IsNode(View.nodes[i])
      /\ q \in DOMAIN View.nodes /\ View.nodes[q].type = "dir"
      /\ e \in Slot /\ e \notin DOMAIN View.names /\ q # i
  BY <1>1, Before, ViewParts DEF Slot
<1>3. IsTree(u)
  BY <1>2, Before, Linked
<1>4. /\ DOMAIN names = DOMAIN View.names \cup {e} /\ names[e] = i
      /\ \A f \in DOMAIN View.names : f # e /\ names[f] = View.names[f]
      /\ IsTable(names)
  <2>1. /\ DOMAIN names = DOMAIN View.names \cup {e} /\ names[e] = i
        /\ \A f \in DOMAIN View.names \ {e} : names[f] = View.names[f]
        /\ IsTable(names)
    BY DEF Mounted!Put, IsTable
  <2> HIDE DEF names
  <2> QED  BY <1>2, <2>1
<1>5. /\ DOMAIN nodes = DOMAIN View.nodes /\ nodes[i] = node
      /\ \A j \in DOMAIN View.nodes \ {i} : nodes[j] = View.nodes[j]
      /\ IsTable(nodes)
  BY <1>2 DEF IsTable
<1>6. u.names = names /\ u.nodes = nodes /\ u = [names |-> u.names, nodes |-> u.nodes]
  OBVIOUS
<1>7. View' = u => Mounted!Link(View, View')
  BY <1>2 DEF Mounted!Link, Mounted!Free, Mounted!Of, Slot
<1>8. IsNode(node) /\ node.type = "file"
  BY <1>2 DEF IsNode
<1>9. PICK b \in BOOLEAN : [Materialized(i) EXCEPT !.node.links = @ + 1] = [node |-> node, base |-> b]
  BY <1>2, HalfIs
<1> HIDE DEF node, names, nodes, u
<1>10. /\ DOMAIN row' = DOMAIN row \cup {i} /\ row'[i] = [node |-> node, base |-> b]
       /\ \A j \in DOMAIN row \ {i} : row'[j] = row[j]
       /\ DOMAIN edge' = DOMAIN edge \cup {e} /\ edge'[e] = i
       /\ \A f \in DOMAIN edge \ {e} : edge'[f] = edge[f]
  <2>1. /\ DOMAIN row' = DOMAIN row \cup {i} /\ row'[i] = [node |-> node, base |-> b]
        /\ \A j \in DOMAIN row \ {i} : row'[j] = row[j]
    <3>1. row' = Put(row, i, [node |-> node, base |-> b])
      BY <1>1, <1>9
    <3> QED  BY <3>1 DEF Put, Over
  <2>2. /\ DOMAIN edge' = DOMAIN edge \cup {e} /\ edge'[e] = i
        /\ \A f \in DOMAIN edge \ {e} : edge'[f] = edge[f]
    <3>1. edge' = Put(edge, e, i)
      BY <1>1
    <3> HIDE DEF e
    <3> QED  BY <3>1 DEF Put, Over
  <2> QED  BY <2>1, <2>2
<1>11. TablesTyped'
  <2>1. IsRow([node |-> node, base |-> b])
    BY <1>8 DEF IsRow
  <2>2. \A j \in DOMAIN row' : j \in Inodes /\ IsRow(row'[j])
    BY <1>10, <2>1, Before DEF TablesTyped
  <2>3. \A f \in DOMAIN edge' : f \in Slot /\ edge'[f] \in Inodes \cup {0}
    BY <1>2, <1>10, Before DEF TablesTyped
  <2> QED  BY <2>2, <2>3 DEF TablesTyped
<1>12. GensTyped' /\ Base' = Base
  BY <1>1 DEF OverlayInv, GensTyped, Base
<1>13. /\ Node(i)' = node
       /\ \A j \in DOMAIN View.nodes \ {i} : Backed(j)' = Backed(j) /\ Node(j)' = Node(j)
  <2>1. Node(i)' = node
    BY <1>10 DEF Node
  <2>2. \A j \in DOMAIN View.nodes \ {i} : (j \in DOMAIN row' <=> j \in DOMAIN row)
                                        /\ (j \in DOMAIN row => row'[j] = row[j])
    BY <1>10
  <2> QED  BY <1>12, <2>1, <2>2, SameRow
<1>14. /\ Entry(e)' = i
       /\ \A j \in DOMAIN View.nodes \ {i}, m \in Names : <<j, m>> # e => Entry(<<j, m>>)' = Entry(<<j, m>>)
  <2>1. Entry(e)' = i
    BY <1>10 DEF Entry
  <2> SUFFICES ASSUME NEW j \in DOMAIN View.nodes \ {i}, NEW m \in Names, <<j, m>> # e
               PROVE  Entry(<<j, m>>)' = Entry(<<j, m>>)
    BY <2>1
  <2>2. /\ <<j, m>> \in DOMAIN edge' <=> <<j, m>> \in DOMAIN edge
        /\ <<j, m>> \in DOMAIN edge => edge'[<<j, m>>] = edge[<<j, m>>]
    BY <1>10
  <2>3. Backed(<<j, m>>[1])' = Backed(<<j, m>>[1])
    BY <1>13
  <2> QED  BY <1>12, <2>2, <2>3, SameEntry
<1>15. /\ At(u, e) = i
       /\ \A j, m : <<j, m>> # e => At(u, <<j, m>>) = At(View, <<j, m>>)
  BY <1>4, <1>6 DEF At
<1>16. View' = u
  <2>1. \A j \in DOMAIN nodes : Node(j)' = nodes[j]
    <3>1. \A j \in DOMAIN View.nodes \ {i} : Node(j)' = View.nodes[j]
      BY <1>13, Before
    <3> QED  BY <1>5, <1>13, <3>1
  <2>2. ASSUME NEW j \in DOMAIN nodes, nodes[j].type = "dir", NEW m \in Names
        PROVE  Entry(<<j, m>>)' = At(u, <<j, m>>)
    <3>1. j \in DOMAIN View.nodes \ {i} /\ View.nodes[j].type = "dir"
      BY <1>5, <1>8, <2>2
    <3>2. Entry(<<j, m>>) = At(View, <<j, m>>)
      BY <3>1, Before
    <3> QED  BY <1>14, <1>15, <3>1, <3>2
  <2>3. EntriesTyped'
    BY <1>11, <1>12, EntriesAreNext
  <2> QED  BY <1>3, <1>4, <1>5, <1>6, <2>1, <2>2, <2>3, ViewIsNext DEF Whole
<1>17. OverlayInv'
  <2>1. fresh' \in Nat \ {0} /\ \A j \in DOMAIN u.nodes : j < fresh'
    BY <1>1, <1>5, <1>6, Before DEF OverlayInv, Numbered
  <2>2. \A f \in DOMAIN edge' : f[1] < fresh'
    <3>1. \A f \in DOMAIN edge : f[1] < fresh
      BY DEF OverlayInv, Numbered
    <3>2. q < fresh
      BY <1>2, Before
    <3> QED  BY <1>1, <1>10, <3>1, <3>2
  <2>3. \A j \in DOMAIN u.nodes \ {i, q} :
              /\ j \in DOMAIN View.nodes /\ u.nodes[j] = View.nodes[j]
              /\ \A m \in Names : At(u, <<j, m>>) = At(View, <<j, m>>)
    BY <1>5, <1>6, <1>15
  <2>4. \A j \in DOMAIN u.nodes \ DOMAIN row' :
              j \in DOMAIN View.nodes \ DOMAIN row /\ u.nodes[j] = View.nodes[j]
    BY <1>5, <1>6, <1>10
  <2>5. ASSUME NEW j \in DOMAIN u.nodes, u.nodes[j].type = "dir", Backed(j)'
        PROVE  /\ j \in DOMAIN View.nodes /\ View.nodes[j].type = "dir" /\ Backed(j)
               /\ \A m \in Names : <<j, m>> \notin DOMAIN edge' =>
                      <<j, m>> \notin DOMAIN edge /\ At(u, <<j, m>>) = At(View, <<j, m>>)
    <3>1. j \in DOMAIN View.nodes \ {i} /\ View.nodes[j].type = "dir" /\ Backed(j)
      BY <1>5, <1>6, <1>8, <1>13, <2>5
    <3> QED  BY <1>10, <1>15, <3>1
  <2> QED  BY <1>1, <1>3, <1>11, <1>16, <2>1, <2>2, <2>3, <2>4, <2>5, UserKeeps
<1> QED  BY <1>7, <1>16, <1>17 DEF Mounted!Next

(* The row of what loses a name.                                           *)
LEMMA RowLost ==
    ASSUME OverlayInv, NEW i \in DOMAIN View.nodes, Base' = Base,
           row' = IF View.nodes[i].type = "dir" THEN Without(row, {i}) ELSE RefDropped(i),
           NEW nodes, nodes = Mounted!Dropped(View.nodes, i)
    PROVE  /\ \A j \in DOMAIN row' : j \in Inodes /\ IsRow(row'[j])
           /\ \A j \in DOMAIN View.nodes \ {i} : Backed(j)' = Backed(j) /\ Node(j)' = Node(j)
           /\ \A j \in DOMAIN View.nodes \ {i} : j \in DOMAIN row' <=> j \in DOMAIN row
           /\ DOMAIN View.nodes \ {i} \subseteq DOMAIN nodes /\ DOMAIN nodes \subseteq DOMAIN View.nodes
           /\ \A j \in DOMAIN View.nodes \ {i} : nodes[j] = View.nodes[j]
           /\ i \in DOMAIN nodes => nodes[i].type = "file" /\ i \in DOMAIN row' /\ Node(i)' = nodes[i]
           /\ IsTable(nodes)
<1>1. /\ TablesTyped /\ i \in Inodes /\ Node(i) = View.nodes[i] /\ IsNode(View.nodes[i])
  BY Before
<1>2. CASE View.nodes[i].links > 1
  <2> DEFINE node == [View.nodes[i] EXCEPT !.links = @ - 1]
  <2>1. View.nodes[i].type = "file"
    BY <1>1, <1>2 DEF IsNode
  <2>2. IsNode(node) /\ node.type = "file"
    BY <1>1, <1>2, <2>1 DEF IsNode
  <2>3. PICK b \in BOOLEAN : [Materialized(i) EXCEPT !.node.links = @ - 1] = [node |-> node, base |-> b]
    BY HalfIs
  <2>4. nodes = [View.nodes EXCEPT ![i].links = @ - 1]
    BY <1>2 DEF Mounted!Dropped
  <2>5. /\ DOMAIN nodes = DOMAIN View.nodes /\ nodes[i] = node
        /\ \A j \in DOMAIN View.nodes \ {i} : nodes[j] = View.nodes[j]
        /\ IsTable(nodes)
    BY <2>4 DEF IsTable
  <2>6. row' = Put(row, i, [node |-> node, base |-> b])
    BY <1>1, <1>2, <2>1, <2>3 DEF RefDropped
  <2> HIDE DEF node
  <2>7. /\ DOMAIN row' = DOMAIN row \cup {i} /\ row'[i] = [node |-> node, base |-> b]
        /\ \A j \in DOMAIN row \ {i} : row'[j] = row[j]
    BY <2>6 DEF Put, Over
  <2>8. \A j \in DOMAIN row' : j \in Inodes /\ IsRow(row'[j])
    <3>1. IsRow([node |-> node, base |-> b])
      BY <2>2 DEF IsRow
    <3> QED  BY <1>1, <2>7, <3>1 DEF TablesTyped
  <2>9. \A j \in DOMAIN View.nodes \ {i} : (j \in DOMAIN row' <=> j \in DOMAIN row)
                                        /\ (j \in DOMAIN row => row'[j] = row[j])
    BY <2>7
  <2>10. \A j \in DOMAIN View.nodes \ {i} : Backed(j)' = Backed(j) /\ Node(j)' = Node(j)
    BY <2>9, SameRow
  <2>11. Node(i)' = node
    BY <2>7 DEF Node
  <2> QED  BY <2>2, <2>5, <2>7, <2>8, <2>9, <2>10, <2>11
<1>3. CASE ~(View.nodes[i].links > 1)
  <2>1. nodes = Mounted!Without(View.nodes, i)
    BY <1>3 DEF Mounted!Dropped
  <2>2. /\ DOMAIN nodes = DOMAIN View.nodes \ {i}
        /\ \A j \in DOMAIN View.nodes \ {i} : nodes[j] = View.nodes[j]
        /\ IsTable(nodes)
    BY <2>1 DEF Mounted!Without, Mounted!Restrict, IsTable
  <2>3. row' = Without(row, {i})
    BY <1>1, <1>3 DEF RefDropped
  <2>4. DOMAIN row' = DOMAIN row \ {i} /\ \A j \in DOMAIN row \ {i} : row'[j] = row[j]
    BY <2>3 DEF Without, Restrict
  <2>5. \A j \in DOMAIN row' : j \in Inodes /\ IsRow(row'[j])
    BY <1>1, <2>4 DEF TablesTyped
  <2>6. \A j \in DOMAIN View.nodes \ {i} : (j \in DOMAIN row' <=> j \in DOMAIN row)
                                        /\ (j \in DOMAIN row => row'[j] = row[j])
    BY <2>4
  <2>7. \A j \in DOMAIN View.nodes \ {i} : Backed(j)' = Backed(j) /\ Node(j)' = Node(j)
    BY <2>6, SameRow
  <2> QED  BY <2>2, <2>5, <2>6, <2>7
<1> QED  BY <1>2, <1>3

(* The edges once one is removed: a whiteout, or nothing where the base    *)
(* gives nothing.                                                          *)
LEMMA GoneIs ==
    ASSUME NEW e, NEW edges, NEW g, g = EdgeGone(e, edges)
    PROVE  /\ DOMAIN edges \ {e} \subseteq DOMAIN g /\ DOMAIN g \subseteq DOMAIN edges \cup {e}
           /\ \A f \in DOMAIN g \ {e} : g[f] = edges[f]
           /\ e \in DOMAIN g => g[e] = 0
           /\ e \notin DOMAIN g => ~BaseHas(e)
<1>1. CASE e \in DOMAIN edge /\ ~BaseHas(e)
  <2>1. g = Without(edges, {e})
    BY <1>1 DEF EdgeGone
  <2> QED  BY <1>1, <2>1 DEF Without, Restrict
<1>2. CASE ~(e \in DOMAIN edge /\ ~BaseHas(e))
  <2>1. g = Put(edges, e, 0)
    BY <1>2 DEF EdgeGone
  <2> QED  BY <1>2, <2>1 DEF Put, Over
<1> QED  BY <1>1, <1>2

LEMMA RemovalMakes ==
    ASSUME OverlayInv, NEW p \in Dirs, NEW n \in Names, NEW i, i = Entry(<<p, n>>), i # 0,
           View.nodes[i].type = "dir" => \A m \in Names : Entry(<<i, m>>) = 0,
           row' = IF View.nodes[i].type = "dir" THEN Without(row, {i}) ELSE RefDropped(i),
           edge' = EdgeGone(<<p, n>>, IF View.nodes[i].type = "dir" THEN Without(edge, InDir(i)) ELSE edge),
           Touch({p, i}), UNCHANGED <<recorded, gens, served, pending, job, fresh>>
    PROVE  OverlayInv' /\ Mounted!Next
<1> DEFINE e == <<p, n>>
           names == Mounted!Without(View.names, e)
           nodes == Mounted!Dropped(View.nodes, i)
           u == [names |-> names, nodes |-> nodes]
           edges == IF View.nodes[i].type = "dir" THEN Without(edge, InDir(i)) ELSE edge
<1>1. /\ p \in DOMAIN View.nodes /\ View.nodes[p].type = "dir" /\ p \in Inodes
      /\ e \in DOMAIN View.names /\ View.names[e] = i /\ e \in Slot
  BY Before, ViewParts DEF Slot
<1>2. i \in DOMAIN View.nodes /\ IsNode(View.nodes[i]) /\ p # i
  BY <1>1, Before, NotInItself DEF Placed
<1>3. Mounted!Removable(View, i)
  <2> SUFFICES ASSUME View.nodes[i].type = "dir", NEW f \in DOMAIN View.names, f[1] = i PROVE FALSE
    BY DEF Mounted!Removable
  <2>1. f \in Dirs \X Names /\ Entry(f) # 0
    BY ViewParts
  <2>2. f = <<i, f[2]>> /\ f[2] \in Names
    BY <2>1
  <2> QED  BY <2>1, <2>2
<1>4. IsTree(u)
  BY <1>1, <1>3, Before, Removed
<1>5. /\ DOMAIN names = DOMAIN View.names \ {e}
      /\ \A f \in DOMAIN names : names[f] = View.names[f]
      /\ IsTable(names)
  BY DEF Mounted!Without, Mounted!Restrict, IsTable
<1>6. u.names = names /\ u.nodes = nodes /\ u = [names |-> u.names, nodes |-> u.nodes]
  OBVIOUS
<1>7. View' = u => Mounted!Remove(View, View')
  BY <1>1, <1>3 DEF Mounted!Remove
<1>8. GensTyped' /\ Base' = Base
  BY DEF OverlayInv, GensTyped, Base
<1>9. /\ \A j \in DOMAIN row' : j \in Inodes /\ IsRow(row'[j])
      /\ \A j \in DOMAIN View.nodes \ {i} : Backed(j)' = Backed(j) /\ Node(j)' = Node(j)
      /\ \A j \in DOMAIN View.nodes \ {i} : j \in DOMAIN row' <=> j \in DOMAIN row
      /\ DOMAIN View.nodes \ {i} \subseteq DOMAIN nodes /\ DOMAIN nodes \subseteq DOMAIN View.nodes
      /\ \A j \in DOMAIN View.nodes \ {i} : nodes[j] = View.nodes[j]
      /\ i \in DOMAIN nodes => nodes[i].type = "file" /\ i \in DOMAIN row' /\ Node(i)' = nodes[i]
      /\ IsTable(nodes)
  BY <1>2, <1>8, RowLost
<1>10. /\ DOMAIN edges \ {e} \subseteq DOMAIN edge' /\ DOMAIN edge' \subseteq DOMAIN edges \cup {e}
       /\ \A f \in DOMAIN edge' \ {e} : edge'[f] = edges[f]
       /\ e \in DOMAIN edge' => edge'[e] = 0
       /\ e \notin DOMAIN edge' => ~BaseHas(e)
  <2>1. edge' = EdgeGone(e, edges)
    OBVIOUS
  <2> HIDE DEF edges, e
  <2> QED  BY <2>1, GoneIs
<1>11. /\ DOMAIN edges \subseteq DOMAIN edge /\ \A f \in DOMAIN edges : edges[f] = edge[f]
       /\ \A f \in DOMAIN edge : f[1] # i => f \in DOMAIN edges
  BY DEF Without, Restrict, InDir
<1> HIDE DEF names, nodes, u, edges
<1>12. TablesTyped'
  <2>1. \A f \in DOMAIN edge' : f \in Slot /\ edge'[f] \in Inodes \cup {0}
    BY <1>1, <1>10, <1>11, Before DEF TablesTyped
  <2> QED  BY <1>9, <2>1 DEF TablesTyped
<1>13. /\ Entry(e)' = 0
       /\ \A j \in DOMAIN View.nodes \ {i}, m \in Names : <<j, m>> # e => Entry(<<j, m>>)' = Entry(<<j, m>>)
  <2>1. Entry(e)' = 0
    <3>1. Backed(p)' = Backed(p)
      BY <1>1, <1>2, <1>9
    <3> QED  BY <1>8, <1>10, <3>1 DEF Entry, BaseHas
  <2> SUFFICES ASSUME NEW j \in DOMAIN View.nodes \ {i}, NEW m \in Names, <<j, m>> # e
               PROVE  Entry(<<j, m>>)' = Entry(<<j, m>>)
    BY <2>1
  <2>2. /\ <<j, m>> \in DOMAIN edge' <=> <<j, m>> \in DOMAIN edge
        /\ <<j, m>> \in DOMAIN edge => edge'[<<j, m>>] = edge[<<j, m>>]
    BY <1>10, <1>11
  <2>3. Backed(<<j, m>>[1])' = Backed(<<j, m>>[1])
    BY <1>9
  <2> QED  BY <1>8, <2>2, <2>3, SameEntry
<1>14. /\ At(u, e) = 0
       /\ \A j, m : <<j, m>> # e => At(u, <<j, m>>) = At(View, <<j, m>>)
  BY <1>5, <1>6 DEF At
<1>15. View' = u
  <2>1. \A j \in DOMAIN nodes : Node(j)' = nodes[j]
    <3>1. \A j \in DOMAIN View.nodes \ {i} : Node(j)' = View.nodes[j]
      BY <1>9, Before
    <3> QED  BY <1>9, <3>1
  <2>2. ASSUME NEW j \in DOMAIN nodes, nodes[j].type = "dir", NEW m \in Names
        PROVE  Entry(<<j, m>>)' = At(u, <<j, m>>)
    <3>1. j \in DOMAIN View.nodes \ {i} /\ View.nodes[j].type = "dir"
      BY <1>9, <2>2
    <3>2. Entry(<<j, m>>) = At(View, <<j, m>>)
      BY <3>1, Before
    <3> QED  BY <1>13, <1>14, <3>1, <3>2
  <2>3. EntriesTyped'
    BY <1>8, <1>12, EntriesAreNext
  <2> QED  BY <1>4, <1>5, <1>6, <1>9, <2>1, <2>2, <2>3, ViewIsNext DEF Whole
<1>16. OverlayInv'
  <2>1. fresh' \in Nat \ {0} /\ \A j \in DOMAIN u.nodes : j < fresh'
    BY <1>6, <1>9, Before DEF OverlayInv, Numbered
  <2>2. \A f \in DOMAIN edge' : f[1] < fresh'
    <3>1. \A f \in DOMAIN edge : f[1] < fresh
      BY DEF OverlayInv, Numbered
    <3>2. p < fresh
      BY <1>1, Before
    <3> QED  BY <1>10, <1>11, <3>1, <3>2
  <2>3. \A j \in DOMAIN u.nodes \ {p, i} :
              /\ j \in DOMAIN View.nodes /\ u.nodes[j] = View.nodes[j]
              /\ \A m \in Names : At(u, <<j, m>>) = At(View, <<j, m>>)
    BY <1>6, <1>9, <1>14
  <2>4. \A j \in DOMAIN u.nodes \ DOMAIN row' :
              j \in DOMAIN View.nodes \ DOMAIN row /\ u.nodes[j] = View.nodes[j]
    BY <1>6, <1>9
  <2>5. ASSUME NEW j \in DOMAIN u.nodes, u.nodes[j].type = "dir", Backed(j)'
        PROVE  /\ j \in DOMAIN View.nodes /\ View.nodes[j].type = "dir" /\ Backed(j)
               /\ \A m \in Names : <<j, m>> \notin DOMAIN edge' =>
                    \/ <<j, m>> \notin DOMAIN edge /\ At(u, <<j, m>>) = At(View, <<j, m>>)
                    \/ At(u, <<j, m>>) = 0 /\ ~BaseHas(<<j, m>>)
    <3>1. j \in DOMAIN View.nodes \ {i} /\ View.nodes[j].type = "dir" /\ Backed(j)
      BY <1>6, <1>9, <2>5
    <3> SUFFICES ASSUME NEW m \in Names, <<j, m>> \notin DOMAIN edge'
                 PROVE  \/ <<j, m>> \notin DOMAIN edge /\ At(u, <<j, m>>) = At(View, <<j, m>>)
                        \/ At(u, <<j, m>>) = 0 /\ ~BaseHas(<<j, m>>)
      BY <3>1
    <3>2. CASE <<j, m>> = e
      BY <1>10, <1>14, <3>2
    <3>3. CASE <<j, m>> # e
      BY <1>10, <1>11, <1>14, <3>1, <3>3
    <3> QED  BY <3>2, <3>3
  <2> QED  BY <1>4, <1>12, <1>15, <2>1, <2>2, <2>3, <2>4, <2>5, UserKeeps
<1> QED  BY <1>7, <1>15, <1>16 DEF Mounted!Next

LEMMA UnlinkMakes ==
    ASSUME OverlayInv, NEW p \in Inodes, NEW n \in Names, Unlink(p, n)
    PROVE  OverlayInv' /\ Mounted!Next
<1>1. PICK i : i = Entry(<<p, n>>)
  OBVIOUS
<1>2. /\ p \in Dirs /\ i \in Files /\ row' = RefDropped(i) /\ edge' = EdgeGone(<<p, n>>, edge)
      /\ Touch({p, i}) /\ UNCHANGED <<recorded, gens, served, pending, job, fresh>>
  BY <1>1 DEF Unlink, Parent, Unmoved
<1>3. i # 0 /\ View.nodes[i].type # "dir"
  BY <1>2, Before DEF Inodes
<1> QED  BY <1>1, <1>2, <1>3, RemovalMakes

LEMMA RmdirMakes ==
    ASSUME OverlayInv, NEW p \in Inodes, NEW n \in Names, Rmdir(p, n)
    PROVE  OverlayInv' /\ Mounted!Next
<1>1. PICK i : i = Entry(<<p, n>>)
  OBVIOUS
<1>2. /\ p \in Dirs /\ i \in Dirs /\ row' = Without(row, {i})
      /\ \A m \in Names : Entry(<<i, m>>) = 0
      /\ edge' = EdgeGone(<<p, n>>, Without(edge, InDir(i)))
      /\ Touch({p, i}) /\ UNCHANGED <<recorded, gens, served, pending, job, fresh>>
  BY <1>1 DEF Rmdir, Parent, Unmoved
<1>3. i # 0 /\ View.nodes[i].type = "dir"
  BY <1>2, Before DEF Inodes
<1> QED  BY <1>1, <1>2, <1>3, RemovalMakes

(* A rename: what it lands on goes with its edges, then the edge is moved. *)
LEMMA RenameMakes ==
    ASSUME OverlayInv, NEW p \in Inodes, NEW n \in Names, NEW q \in Inodes, NEW m \in Names,
           Rename(p, n, q, m)
    PROVE  OverlayInv' /\ Mounted!Next
<1>1. PICK i, j : i = Entry(<<p, n>>) /\ j = Entry(<<q, m>>)
  OBVIOUS
<1> DEFINE from == <<p, n>>
           to == <<q, m>>
           edges == IF j = 0 THEN edge ELSE Without(edge, {to} \cup IF IsDir(j) THEN InDir(j) ELSE {})
           gone == EdgeGone(from, edges)
           names == Mounted!Put(Mounted!Without(View.names, from), to, i)
           nodes == IF to \notin DOMAIN View.names THEN View.nodes
                    ELSE Mounted!Dropped(View.nodes, View.names[to])
           u == [names |-> names, nodes |-> nodes]
<1>2. /\ p \in Dirs /\ q \in Dirs /\ from # to
      /\ i \in Live \ {Root} /\ q \notin Below(i)
      /\ j # 0 => /\ j # i /\ Node(j).type = Node(i).type
                  /\ IsDir(j) => EmptyDir(j)
      /\ edge' = Put(gone, to, i)
      /\ row' = IF j = 0 THEN row ELSE IF IsDir(j) THEN Without(row, {j}) ELSE RefDropped(j)
      /\ Touch({p, q, i} \cup ({j} \ {0}))
      /\ UNCHANGED <<recorded, gens, served, pending, job, fresh>>
  BY <1>1 DEF Rename, Parent
<1>3. /\ p \in DOMAIN View.nodes /\ View.nodes[p].type = "dir"
      /\ q \in DOMAIN View.nodes /\ View.nodes[q].type = "dir"
      /\ i \in DOMAIN View.nodes /\ i # Root /\ i # 0
      /\ from \in Slot /\ to \in Slot
  BY <1>2, Before, ViewSays DEF Slot, Inodes
<1>4. from \in DOMAIN View.names /\ View.names[from] = i
  BY <1>1, <1>2, <1>3, ViewParts
<1>5. /\ to \in DOMAIN View.names <=> j # 0
      /\ j # 0 => View.names[to] = j
  BY <1>1, <1>2, <1>3, ViewParts
<1>6. j # 0 => /\ j \in DOMAIN View.nodes /\ j # i /\ j # p /\ j # q
               /\ View.nodes[j].type = View.nodes[i].type
               /\ IsDir(j) <=> View.nodes[j].type = "dir"
               /\ Mounted!Removable(View, j)
  <2> SUFFICES ASSUME j # 0
               PROVE  /\ j \in DOMAIN View.nodes /\ j # i /\ j # p /\ j # q
                      /\ View.nodes[j].type = View.nodes[i].type
                      /\ IsDir(j) <=> View.nodes[j].type = "dir"
                      /\ Mounted!Removable(View, j)
    OBVIOUS
  <2>1. j \in DOMAIN View.nodes /\ j # q
    BY <1>5, Before, NotInItself DEF Placed
  <2>2. j # i /\ Node(j) = View.nodes[j] /\ Node(i) = View.nodes[i]
    BY <1>2, <1>3, <2>1, Before
  <2>3. View.nodes[j].type = "dir" => \A x \in Names : Entry(<<j, x>>) = 0
    BY <1>2, <2>2 DEF IsDir, EmptyDir
  <2>4. j # p
    BY <1>1, <1>3, <2>3
  <2>5. Mounted!Removable(View, j)
    <3> SUFFICES ASSUME View.nodes[j].type = "dir", NEW f \in DOMAIN View.names, f[1] = j PROVE FALSE
      BY DEF Mounted!Removable
    <3>1. f \in Dirs \X Names /\ Entry(f) # 0
      BY ViewParts
    <3>2. f = <<j, f[2]>> /\ f[2] \in Names
      BY <3>1
    <3> QED  BY <2>3, <3>1, <3>2
  <2> QED  BY <1>2, <2>1, <2>2, <2>4, <2>5 DEF IsDir
<1>7. i \in Below(i) /\ Shut(View, Below(i))
  BY <1>3, BelowIs
<1>8. IsTree(u)
  <2>1. to[1] \notin Below(i) /\ to[1] \in DOMAIN View.nodes /\ View.nodes[to[1]].type = "dir"
    BY <1>2, <1>3
  <2>2. to \in DOMAIN View.names => Mounted!Removable(View, View.names[to])
                                    /\ View.names[to] # View.names[from]
    BY <1>4, <1>5, <1>6
  <2>3. View.names[from] \in Below(i)
    BY <1>4, <1>7
  <2>4. IsTree([names |-> Mounted!Put(Mounted!Without(View.names, from), to, View.names[from]),
                nodes |-> IF to \notin DOMAIN View.names THEN View.nodes
                          ELSE Mounted!Dropped(View.nodes, View.names[to])])
    <3> HIDE DEF from, to
    <3> QED  BY <1>2, <1>3, <1>4, <1>7, <2>1, <2>2, <2>3, Before, Renamed
  <2> QED  BY <1>4, <2>4
<1>9. /\ DOMAIN names = (DOMAIN View.names \ {from}) \cup {to} /\ names[to] = i
      /\ \A f \in DOMAIN View.names \ {from, to} : names[f] = View.names[f]
      /\ IsTable(names)
  <2> DEFINE less == Mounted!Without(View.names, from)
  <2>1. /\ DOMAIN less = DOMAIN View.names \ {from}
        /\ \A f \in DOMAIN less : less[f] = View.names[f]
    BY DEF Mounted!Without, Mounted!Restrict
  <2> HIDE DEF less, to, from
  <2>2. /\ DOMAIN names = DOMAIN less \cup {to} /\ names[to] = i
        /\ \A f \in DOMAIN less \ {to} : names[f] = less[f]
        /\ IsTable(names)
    BY DEF Mounted!Put, IsTable, less
  <2> QED  BY <2>1, <2>2
<1>10. u.names = names /\ u.nodes = nodes /\ u = [names |-> u.names, nodes |-> u.nodes]
  OBVIOUS
<1>11. View' = u => Mounted!Rename(View, View')
  <2>1. q \notin Mounted!Under(View, i)
    BY <1>2, <1>3, <1>7, Before, UnderIs
  <2>2. to \in Mounted!Of(View, "dir") \X Names /\ to[1] = q
    BY <1>3 DEF Mounted!Of
  <2>3. \/ j = 0 /\ to \notin DOMAIN View.names /\ nodes = View.nodes
        \/ /\ j # 0 /\ to \in DOMAIN View.names /\ View.names[to] = j
           /\ nodes = Mounted!Dropped(View.nodes, j)
    BY <1>5
  <2> HIDE DEF from, to, names, nodes
  <2>4. u.names = names /\ u.nodes = nodes
    OBVIOUS
  <2>5. names = Mounted!Put(Mounted!Without(View.names, from), to, i)
    BY DEF names
  <2> HIDE DEF u
  <2> SUFFICES ASSUME View' = u PROVE Mounted!Rename(View, u)
    OBVIOUS
  <2> QED  BY <1>4, <1>6, <2>1, <2>2, <2>3, <2>4, <2>5 DEF Mounted!Rename
<1>12. GensTyped' /\ Base' = Base
  BY <1>2 DEF OverlayInv, GensTyped, Base
(* What becomes of the nodes.                                              *)
<1>13. /\ \A k \in DOMAIN row' : k \in Inodes /\ IsRow(row'[k])
       /\ \A k \in DOMAIN View.nodes \ {j} : Backed(k)' = Backed(k) /\ Node(k)' = Node(k)
       /\ \A k \in DOMAIN View.nodes \ {j} : k \in DOMAIN row' <=> k \in DOMAIN row
       /\ DOMAIN View.nodes \ {j} \subseteq DOMAIN nodes /\ DOMAIN nodes \subseteq DOMAIN View.nodes
       /\ \A k \in DOMAIN View.nodes \ {j} : nodes[k] = View.nodes[k]
       /\ j \in DOMAIN nodes => nodes[j].type = "file" /\ j \in DOMAIN row' /\ Node(j)' = nodes[j]
       /\ IsTable(nodes)
  <2>1. CASE j = 0
    <3>1. nodes = View.nodes /\ row' = row /\ j \notin DOMAIN View.nodes
      BY <1>2, <1>5, <2>1, Before DEF Inodes
    <3>2. \A k \in DOMAIN View.nodes : Backed(k)' = Backed(k) /\ Node(k)' = Node(k)
      BY <1>12, <3>1, SameRow
    <3>3. \A k \in DOMAIN row' : k \in Inodes /\ IsRow(row'[k])
      BY <3>1, Before DEF TablesTyped
    <3>4. IsTable(View.nodes)
      BY ViewParts
    <3> HIDE DEF nodes
    <3> QED  BY <3>1, <3>2, <3>3, <3>4
  <2>2. CASE j # 0
    <3>1. nodes = Mounted!Dropped(View.nodes, j) /\ j \in DOMAIN View.nodes
      BY <1>5, <1>6, <2>2
    <3>2. row' = IF View.nodes[j].type = "dir" THEN Without(row, {j}) ELSE RefDropped(j)
      BY <1>2, <1>6, <2>2
    <3> HIDE DEF nodes
    <3> QED  BY <1>12, <3>1, <3>2, RowLost
  <2> QED  BY <2>1, <2>2
(* What becomes of the edges.                                              *)
<1>14. /\ DOMAIN edges \subseteq DOMAIN edge /\ \A f \in DOMAIN edges : edges[f] = edge[f]
       /\ \A f \in DOMAIN edge : f[1] # j /\ f # to => f \in DOMAIN edges
  BY DEF Without, Restrict, InDir
<1>15. /\ DOMAIN edges \ {from} \subseteq DOMAIN gone /\ DOMAIN gone \subseteq DOMAIN edges \cup {from}
       /\ \A f \in DOMAIN gone \ {from} : gone[f] = edges[f]
       /\ from \in DOMAIN gone => gone[from] = 0
       /\ from \notin DOMAIN gone => ~BaseHas(from)
  <2>1. gone = EdgeGone(from, edges)
    OBVIOUS
  <2> HIDE DEF gone, edges, from
  <2> QED  BY <2>1, GoneIs
<1>16. /\ DOMAIN edge' = DOMAIN gone \cup {to} /\ edge'[to] = i
       /\ \A f \in DOMAIN gone \ {to} : edge'[f] = gone[f]
  <2>1. edge' = Put(gone, to, i)
    BY <1>2
  <2> HIDE DEF gone, to
  <2> QED  BY <2>1 DEF Put, Over
<1> HIDE DEF names, nodes, u, edges, gone
<1>17. /\ DOMAIN edge' \subseteq DOMAIN edge \cup {from, to} /\ edge'[to] = i
       /\ \A f \in DOMAIN edge' \ {from, to} : edge'[f] = edge[f]
       /\ \A f \in DOMAIN edge \ {from, to} : f[1] # j => f \in DOMAIN edge'
       /\ to \in DOMAIN edge'
       /\ from \in DOMAIN edge' => edge'[from] = 0
       /\ from \notin DOMAIN edge' => ~BaseHas(from)
  <2>1. from # to
    BY <1>2
  <2> HIDE DEF from, to
  <2> QED  BY <1>14, <1>15, <1>16, <2>1
<1>18. TablesTyped'
  <2>1. \A f \in DOMAIN edge' : f \in Slot /\ edge'[f] \in Inodes \cup {0}
    <3>1. i \in Inodes
      BY <1>3, Before
    <3> QED  BY <1>3, <1>17, <3>1, Before DEF TablesTyped
  <2> QED  BY <1>13, <2>1 DEF TablesTyped
<1>19. /\ Entry(from)' = 0 /\ Entry(to)' = i
       /\ \A k \in DOMAIN View.nodes \ {j}, x \in Names :
             <<k, x>> # from /\ <<k, x>> # to => Entry(<<k, x>>)' = Entry(<<k, x>>)
  <2>1. Entry(from)' = 0
    <3>1. Backed(p)' = Backed(p)
      <4>1. p # j
        BY <1>6 DEF Inodes
      <4> QED  BY <1>3, <1>13, <4>1
    <3> QED  BY <1>12, <1>17, <3>1 DEF Entry, BaseHas
  <2>2. Entry(to)' = i
    BY <1>17 DEF Entry
  <2> SUFFICES ASSUME NEW k \in DOMAIN View.nodes \ {j}, NEW x \in Names, <<k, x>> # from, <<k, x>> # to
               PROVE  Entry(<<k, x>>)' = Entry(<<k, x>>)
    BY <2>1, <2>2
  <2>3. /\ <<k, x>> \in DOMAIN edge' <=> <<k, x>> \in DOMAIN edge
        /\ <<k, x>> \in DOMAIN edge => edge'[<<k, x>>] = edge[<<k, x>>]
    BY <1>17
  <2>4. Backed(<<k, x>>[1])' = Backed(<<k, x>>[1])
    BY <1>13
  <2> QED  BY <1>12, <2>3, <2>4, SameEntry
<1>20. /\ At(u, from) = 0 /\ At(u, to) = i
       /\ \A k, x : <<k, x>> # from /\ <<k, x>> # to => At(u, <<k, x>>) = At(View, <<k, x>>)
  <2>1. from # to
    BY <1>2
  <2>2. At(u, from) = 0 /\ At(u, to) = i
    <3> HIDE DEF from, to
    <3> QED  BY <1>9, <1>10, <2>1 DEF At
  <2> QED  BY <1>9, <1>10, <2>2 DEF At
<1>21. View' = u
  <2>1. \A k \in DOMAIN nodes : Node(k)' = nodes[k]
    <3>1. \A k \in DOMAIN View.nodes \ {j} : Node(k)' = View.nodes[k]
      BY <1>13, Before
    <3> QED  BY <1>13, <3>1
  <2>2. ASSUME NEW k \in DOMAIN nodes, nodes[k].type = "dir", NEW x \in Names
        PROVE  Entry(<<k, x>>)' = At(u, <<k, x>>)
    <3>1. k \in DOMAIN View.nodes \ {j} /\ View.nodes[k].type = "dir"
      BY <1>13, <2>2
    <3>2. Entry(<<k, x>>) = At(View, <<k, x>>)
      BY <3>1, Before
    <3>3. CASE <<k, x>> # from /\ <<k, x>> # to
      BY <1>19, <1>20, <3>1, <3>2, <3>3
    <3>4. CASE <<k, x>> = from
      BY <1>19, <1>20, <3>4
    <3>5. CASE <<k, x>> = to
      BY <1>19, <1>20, <3>5
    <3> QED  BY <3>3, <3>4, <3>5
  <2>3. EntriesTyped'
    BY <1>12, <1>18, EntriesAreNext
  <2> QED  BY <1>8, <1>9, <1>10, <1>13, <2>1, <2>2, <2>3, ViewIsNext DEF Whole
<1>22. OverlayInv'
  <2> DEFINE S == {p, q, i} \cup ({j} \ {0})
  <2>1. fresh' \in Nat \ {0} /\ \A k \in DOMAIN u.nodes : k < fresh'
    BY <1>2, <1>10, <1>13, Before DEF OverlayInv, Numbered
  <2>2. \A f \in DOMAIN edge' : f[1] < fresh'
    <3>1. \A f \in DOMAIN edge : f[1] < fresh
      BY DEF OverlayInv, Numbered
    <3>2. p < fresh /\ q < fresh
      BY <1>3, Before
    <3> QED  BY <1>2, <1>17, <3>1, <3>2
  <2>3. \A k \in DOMAIN u.nodes \ S :
              /\ k \in DOMAIN View.nodes /\ u.nodes[k] = View.nodes[k]
              /\ \A x \in Names : At(u, <<k, x>>) = At(View, <<k, x>>)
    <3>1. 0 \notin DOMAIN View.nodes
      BY Before DEF Inodes
    <3> QED  BY <1>10, <1>13, <1>20, <3>1
  <2>4. \A k \in DOMAIN u.nodes \ DOMAIN row' :
              k \in DOMAIN View.nodes \ DOMAIN row /\ u.nodes[k] = View.nodes[k]
    BY <1>10, <1>13
  <2>5. ASSUME NEW k \in DOMAIN u.nodes, u.nodes[k].type = "dir", Backed(k)'
        PROVE  /\ k \in DOMAIN View.nodes /\ View.nodes[k].type = "dir" /\ Backed(k)
               /\ \A x \in Names : <<k, x>> \notin DOMAIN edge' =>
                    \/ <<k, x>> \notin DOMAIN edge /\ At(u, <<k, x>>) = At(View, <<k, x>>)
                    \/ At(u, <<k, x>>) = 0 /\ ~BaseHas(<<k, x>>)
    <3>1. k \in DOMAIN View.nodes \ {j} /\ View.nodes[k].type = "dir" /\ Backed(k)
      BY <1>10, <1>13, <2>5
    <3> SUFFICES ASSUME NEW x \in Names, <<k, x>> \notin DOMAIN edge'
                 PROVE  \/ <<k, x>> \notin DOMAIN edge /\ At(u, <<k, x>>) = At(View, <<k, x>>)
                        \/ At(u, <<k, x>>) = 0 /\ ~BaseHas(<<k, x>>)
      BY <3>1
    <3>2. CASE <<k, x>> = from
      BY <1>17, <1>20, <3>2
    <3>3. CASE <<k, x>> # from
      BY <1>17, <1>20, <3>1, <3>3
    <3> QED  BY <3>2, <3>3
  <2>6. Touch(S)
    BY <1>2
  <2> HIDE DEF S
  <2> QED  BY <1>2, <1>8, <1>18, <1>21, <2>1, <2>2, <2>3, <2>4, <2>5, <2>6, UserKeeps
<1> QED  BY <1>11, <1>21, <1>22 DEF Mounted!Next

-----------------------------------------------------------------------------
(* The steps of a checkpoint leave the view as it was.                     *)

LEMMA WholeView ==
    ASSUME OverlayInv
    PROVE  Whole(View)
BY Before, ViewParts DEF Whole

LEMMA ViewStays ==
    ASSUME OverlayInv, TablesTyped', GensTyped',
           \A i \in DOMAIN View.nodes : Node(i)' = Node(i),
           \A i \in Dirs, n \in Names : Entry(<<i, n>>)' = Entry(<<i, n>>)
    PROVE  View' = View
<1>1. \A i \in DOMAIN View.nodes : Node(i)' = View.nodes[i]
  BY Before
<1>2. \A i \in DOMAIN View.nodes : View.nodes[i].type = "dir" =>
         \A n \in Names : Entry(<<i, n>>)' = At(View, <<i, n>>)
  BY Before
<1>3. EntriesTyped'
  BY EntriesAreNext
<1> QED  BY <1>1, <1>2, <1>3, WholeView, ViewIsNext

LEMMA ViewSame ==
    ASSUME OverlayInv, UNCHANGED <<row, edge>>, Base' = Base, GensTyped'
    PROVE  View' = View /\ TablesTyped' /\ \A i : Backed(i)' = Backed(i)
<1>1. \A i : Backed(i)' = Backed(i) /\ Node(i)' = Node(i)
  BY SameRow
<1>2. \A e : Entry(e)' = Entry(e)
  BY <1>1, SameEntry
<1>3. TablesTyped'
  BY Before DEF TablesTyped
<1> QED  BY <1>1, <1>2, <1>3, ViewStays

(* What is left to show of a step that leaves the view alone.              *)
LEMMA SystemKeeps ==
    ASSUME OverlayInv, View' = View, TablesTyped', GensTyped', BaseAgrees', UntouchedPublished',
           fresh' = fresh, DOMAIN edge' \subseteq DOMAIN edge
    PROVE  OverlayInv'
<1>1. Numbered'
  BY DEF OverlayInv, Numbered
<1>2. IsTree(View')
  BY DEF OverlayInv
<1> QED  BY <1>1, <1>2 DEF OverlayInv

(* No checkpoint is under way after it.                                    *)
LEMMA IdleKeeps ==
    ASSUME OverlayInv, UNCHANGED <<row, edge, gens, served, recorded, fresh>>, job' = Idle
    PROVE  OverlayInv' /\ View' = View
<1>1. job'.at = "idle"
  BY DEF Idle
<1>2. GensTyped' /\ Base' = Base
  BY <1>1 DEF OverlayInv, GensTyped, Base
<1>3. BaseAgrees' /\ UntouchedPublished'
  BY <1>1 DEF BaseAgrees, UntouchedPublished
<1> QED  BY <1>2, <1>3, ViewSame, SystemKeeps

(* Neither the tables, the base, the stamps nor the checkpoint are changed.*)
LEMMA MemoryKeeps ==
    ASSUME OverlayInv,
           UNCHANGED <<row, edge, gens, served, recorded, fresh, stamp, pending, job>>
    PROVE  OverlayInv' /\ View' = View
<1>1. GensTyped' /\ Base' = Base /\ Frozen' = Frozen
  BY DEF OverlayInv, GensTyped, Base, Frozen
<1>2. View' = View /\ TablesTyped' /\ \A i : Backed(i)' = Backed(i)
  BY <1>1, ViewSame
<1>3. BaseAgrees'
  BY <1>1, <1>2 DEF OverlayInv, BaseAgrees
<1>4. UntouchedPublished'
  BY <1>1, <1>2 DEF OverlayInv, UntouchedPublished, Untouched
<1> QED  BY <1>1, <1>2, <1>3, <1>4, SystemKeeps

LEMMA FreezeKeeps ==
    ASSUME OverlayInv, Freeze
    PROVE  OverlayInv' /\ View' = View
<1>1. /\ job'.at = "frozen" /\ job'.tree = View
      /\ pending' = Namespace
      /\ UNCHANGED <<row, edge, gens, served, recorded, fresh>>
  BY DEF Freeze, tables
<1>2. GensTyped' /\ Base' = Base
  BY <1>1, Before DEF OverlayInv, GensTyped, Base
<1>3. View' = View /\ TablesTyped'
  BY <1>1, <1>2, ViewSame
<1>4. Frozen' = View
  BY <1>1 DEF Frozen
<1>5. pending'.names = {e \in DOMAIN edge : edge[e] # 0}
  BY <1>1 DEF Namespace
<1>6. \A e \in DOMAIN View.names : e \in pending'.names \cup DOMAIN Base.names
  <2> SUFFICES ASSUME NEW e \in DOMAIN View.names PROVE e \in pending'.names \cup DOMAIN Base.names
    OBVIOUS
  <2>1. Entry(e) # 0
    BY ViewParts
  <2> QED  BY <1>5, <2>1 DEF Entry
<1>7. BaseAgrees'
  BY <1>2, <1>3, <1>4, <1>6 DEF BaseAgrees
<1>8. UntouchedPublished'
  BY <1>3, <1>4 DEF UntouchedPublished
<1> QED  BY <1>1, <1>2, <1>3, <1>7, <1>8, SystemKeeps

LEMMA FlipKeeps ==
    ASSUME OverlayInv, Flip
    PROVE  OverlayInv' /\ View' = View
<1>1. /\ job.at = "frozen" /\ job' = [at |-> "flipped"]
      /\ gens' = Append(gens, job.tree)
      /\ UNCHANGED <<row, edge, served, recorded, fresh, stamp, pending>>
  BY DEF Flip, tables
<1>2. PICK S : gens \in Seq(S)
  BY DEF OverlayInv, GensTyped
<1>3. /\ gens \in Seq(S \cup {job.tree}) /\ gens' \in Seq(S \cup {job.tree})
      /\ Len(gens) \in Nat /\ Len(gens') = Len(gens) + 1 /\ gens'[Len(gens) + 1] = job.tree
      /\ \A g \in 1..Len(gens) : gens'[g] = gens[g]
  BY <1>1, <1>2
<1>4. IsTree(job.tree) /\ served \in 1..Len(gens) /\ recorded \in 1..served
      /\ \A g \in 1..Len(gens) : IsTree(gens[g])
  BY <1>1 DEF OverlayInv, GensTyped
<1>5. job'.at = "flipped"
  BY <1>1
<1>6. GensTyped'
  <2>1. \A g \in 1..Len(gens') : IsTree(gens'[g])
    BY <1>3, <1>4
  <2>2. served' \in 1..Len(gens') /\ recorded' \in 1..served'
    BY <1>1, <1>3, <1>4
  <2> QED  BY <1>3, <1>5, <2>1, <2>2 DEF GensTyped
<1>7. Base' = Base
  BY <1>1, <1>3, <1>4 DEF Base
<1>8. Frozen' = Frozen
  <2>1. Frozen' = gens'[Len(gens')]
    BY <1>5 DEF Frozen
  <2> QED  BY <1>1, <1>3, <2>1 DEF Frozen
<1>9. View' = View /\ TablesTyped' /\ \A i : Backed(i)' = Backed(i)
  BY <1>1, <1>6, <1>7, ViewSame
<1>10. BaseAgrees'
  BY <1>1, <1>7, <1>8, <1>9 DEF OverlayInv, BaseAgrees
<1>11. UntouchedPublished'
  BY <1>1, <1>8, <1>9 DEF OverlayInv, UntouchedPublished, Untouched
<1> QED  BY <1>1, <1>6, <1>9, <1>10, <1>11, SystemKeeps

LEMMA SwapKeeps ==
    ASSUME OverlayInv, Swap
    PROVE  OverlayInv' /\ View' = View
<1>1. /\ job.at = "flipped" /\ job' = [at |-> "swapped"] /\ served' = Len(gens)
      /\ UNCHANGED <<row, edge, gens, recorded, fresh, stamp, pending>>
  BY DEF Swap, tables
<1>2. job'.at = "swapped"
  BY <1>1
<1>3. Len(gens) \in Nat
  BY DEF OverlayInv, GensTyped
<1>4. GensTyped'
  BY <1>1, <1>2, <1>3 DEF OverlayInv, GensTyped
<1>5. Base' = Frozen /\ Frozen' = Frozen
  BY <1>1, <1>2 DEF Base, Frozen
<1>6. \A i : Backed(i)' = Backed(i)
  BY <1>1 DEF Backed
<1>7. /\ \A i \in DOMAIN View.nodes \ DOMAIN row :
             i \in DOMAIN Frozen.nodes /\ Frozen.nodes[i] = View.nodes[i]
      /\ \A i \in DOMAIN View.nodes : View.nodes[i].type = "dir" /\ Backed(i) =>
             \A n \in Names : <<i, n>> \notin DOMAIN edge => At(Frozen, <<i, n>>) = At(View, <<i, n>>)
  BY <1>1 DEF OverlayInv, BaseAgrees
<1>8. \A i \in DOMAIN View.nodes : Node(i)' = Node(i)
  BY <1>1, <1>5, <1>7, Before DEF Node
<1>9. ASSUME NEW i \in Dirs, NEW n \in Names PROVE Entry(<<i, n>>)' = Entry(<<i, n>>)
  <2>1. Entry(<<i, n>>) = At(View, <<i, n>>) /\ i \in DOMAIN View.nodes /\ View.nodes[i].type = "dir"
    BY Before
  <2>2. CASE <<i, n>> \in DOMAIN edge
    BY <1>1, <2>2 DEF Entry
  <2>3. CASE <<i, n>> \notin DOMAIN edge /\ Backed(i)
    <3>1. Entry(<<i, n>>)' = At(Frozen, <<i, n>>)
      BY <1>1, <1>5, <1>6, <2>3 DEF Entry, At
    <3> QED  BY <1>7, <2>1, <2>3, <3>1
  <2>4. CASE <<i, n>> \notin DOMAIN edge /\ ~Backed(i)
    BY <1>1, <1>6, <2>4 DEF Entry
  <2> QED  BY <2>2, <2>3, <2>4
<1>10. TablesTyped'
  BY <1>1, Before DEF TablesTyped
<1>11. View' = View
  BY <1>4, <1>8, <1>9, <1>10, ViewStays
<1>12. BaseAgrees'
  BY <1>2 DEF BaseAgrees
<1>13. UntouchedPublished'
  BY <1>1, <1>5, <1>11 DEF OverlayInv, UntouchedPublished, Untouched
<1> QED  BY <1>1, <1>4, <1>10, <1>11, <1>12, <1>13, SystemKeeps

LEMMA RebaseStartKeeps ==
    ASSUME OverlayInv, RebaseStart
    PROVE  OverlayInv' /\ View' = View
<1>1. /\ job.at = "swapped" /\ recorded' = served
      /\ UNCHANGED <<row, edge, gens, served, fresh, stamp, pending>>
      /\ job'.at = "rebasing" /\ IsRebase(job')
  BY DEF RebaseStart, tables, IsRebase
<1>2. GensTyped' /\ Base' = Base /\ Frozen' = Frozen
  BY <1>1 DEF OverlayInv, GensTyped, Base, Frozen
<1>3. View' = View /\ TablesTyped'
  BY <1>1, <1>2, ViewSame
<1>4. BaseAgrees'
  BY <1>1 DEF BaseAgrees
<1>5. UntouchedPublished'
  BY <1>1, <1>2, <1>3 DEF OverlayInv, UntouchedPublished, Untouched
<1> QED  BY <1>1, <1>2, <1>3, <1>4, <1>5, SystemKeeps

LEMMA BatchKeeps ==
    ASSUME OverlayInv, Batch
    PROVE  OverlayInv' /\ View' = View
<1>1. PICK i : i = CHOOSE x \in job.todo : \A y \in job.todo : x <= y
  OBVIOUS
<1>2. /\ job.at = "rebasing" /\ UNCHANGED <<gens, served, recorded, fresh, stamp, pending>>
      /\ \/ Untouched(i) /\ row' = Without(row, {i}) /\ edge' = Without(edge, InDir(i))
         \/ UNCHANGED <<row, edge>>
  BY <1>1 DEF Batch
<1>3. job'.at = "rebasing" /\ IsRebase(job')
  <2>1. IsRebase(job)
    BY <1>2 DEF OverlayInv, GensTyped
  <2> QED  BY <1>2, <2>1 DEF Batch, IsRebase
<1>4. GensTyped' /\ Base' = Base /\ Frozen' = Frozen
  BY <1>2, <1>3 DEF OverlayInv, GensTyped, Base, Frozen
<1>5. View' = View /\ TablesTyped' /\ DOMAIN edge' \subseteq DOMAIN edge
  <2>1. CASE Untouched(i) /\ row' = Without(row, {i}) /\ edge' = Without(edge, InDir(i))
    <3>1. /\ DOMAIN row' = DOMAIN row \ {i} /\ \A j \in DOMAIN row' : row'[j] = row[j]
          /\ DOMAIN edge' = {e \in DOMAIN edge : e[1] # i} /\ \A e \in DOMAIN edge' : edge'[e] = edge[e]
      BY <2>1 DEF Without, Restrict, InDir
    <3>2. TablesTyped'
      BY <3>1, Before DEF TablesTyped
    <3>3. \A j : j # i => Backed(j)' = Backed(j) /\ Node(j)' = Node(j)
      BY <1>4, <3>1, SameRow
    <3>4. ASSUME i \in DOMAIN View.nodes
          PROVE  Node(i)' = Node(i) /\ \A n \in Names : Entry(<<i, n>>)' = At(View, <<i, n>>)
      <4>1. Base = Frozen
        BY <1>2 DEF Base, Frozen, OverlayInv, GensTyped
      <4>2. /\ i \in DOMAIN Base.nodes /\ Base.nodes[i] = View.nodes[i]
            /\ \A n \in Names : At(Base, <<i, n>>) = At(View, <<i, n>>)
        BY <1>2, <2>1, <3>4, <4>1 DEF OverlayInv, UntouchedPublished
      <4>3. Node(i)' = Node(i)
        BY <1>4, <3>1, <3>4, <4>2, Before DEF Node
      <4>4. ASSUME NEW n \in Names PROVE Entry(<<i, n>>)' = At(View, <<i, n>>)
        <5>1. Backed(i)' /\ <<i, n>> \notin DOMAIN edge'
          BY <3>1 DEF Backed
        <5>2. Entry(<<i, n>>)' = At(Base, <<i, n>>)
          BY <1>4, <5>1 DEF Entry, At
        <5> QED  BY <4>2, <5>2
      <4> QED  BY <4>3, <4>4
    <3>5. \A j \in DOMAIN View.nodes : Node(j)' = Node(j)
      BY <3>3, <3>4
    <3>6. ASSUME NEW j \in Dirs, NEW n \in Names PROVE Entry(<<j, n>>)' = Entry(<<j, n>>)
      <4>1. CASE j = i
        BY <3>4, <4>1, Before
      <4>2. CASE j # i
        <5>1. Backed(<<j, n>>[1])' = Backed(<<j, n>>[1])
          BY <3>3, <4>2
        <5>2. /\ <<j, n>> \in DOMAIN edge' <=> <<j, n>> \in DOMAIN edge
              /\ <<j, n>> \in DOMAIN edge => edge'[<<j, n>>] = edge[<<j, n>>]
          BY <3>1, <4>2
        <5> QED  BY <1>4, <5>1, <5>2, SameEntry
      <4> QED  BY <4>1, <4>2
    <3> QED  BY <1>4, <3>1, <3>2, <3>5, <3>6, ViewStays
  <2>2. CASE UNCHANGED <<row, edge>>
    BY <1>4, <2>2, ViewSame
  <2> QED  BY <1>2, <2>1, <2>2
<1>6. BaseAgrees'
  BY <1>3 DEF BaseAgrees
<1>7. UntouchedPublished'
  BY <1>2, <1>3, <1>4, <1>5 DEF OverlayInv, UntouchedPublished, Untouched
<1> QED  BY <1>2, <1>4, <1>5, <1>6, <1>7, SystemKeeps

LEMMA ReopenKeeps ==
    ASSUME OverlayInv, Reopen
    PROVE  OverlayInv' /\ View' = View
<1>1. /\ UNCHANGED <<row, edge, gens, recorded, fresh, stamp, pending, job>>
      /\ (recorded = Len(gens) /\ served' = Len(gens)) \/ served' = served
  BY DEF Reopen, tables
<1>2. served' = served
  BY <1>1 DEF OverlayInv, GensTyped
<1> QED  BY <1>1, <1>2, MemoryKeeps

LEMMA OverlayInvInit ==
    ASSUME Init
    PROVE  OverlayInv
<1>1. PICK t \in Trees : gens = <<t>> /\ fresh = 1 + Cardinality(DOMAIN t.nodes)
  BY DEF Init
<1>2. row = NoWhere /\ edge = NoWhere /\ recorded = 1 /\ served = 1 /\ job = Idle
  BY DEF Init
<1>3. IsTree(t) /\ DOMAIN t.nodes = 1..Cardinality(DOMAIN t.nodes)
  BY TreesAssumption
<1>4. DOMAIN row = {} /\ DOMAIN edge = {} /\ job.at = "idle"
  BY <1>2 DEF NoWhere, Idle
<1>5. TablesTyped
  BY <1>4 DEF TablesTyped
<1>6. GensTyped
  <2>1. gens \in Seq({t}) /\ Len(gens) = 1 /\ gens[1] = t
    BY <1>1
  <2> QED  BY <1>2, <1>3, <1>4, <2>1 DEF GensTyped
<1>7. Base = t
  BY <1>1, <1>2 DEF Base
<1> DEFINE v == [names |-> [e \in DOMAIN t.names |-> t.names[e]],
                 nodes |-> [i \in DOMAIN t.nodes |-> t.nodes[i]]]
<1>8. /\ DOMAIN v.names = DOMAIN t.names /\ \A e \in DOMAIN t.names : v.names[e] = t.names[e]
      /\ DOMAIN v.nodes = DOMAIN t.nodes /\ \A i \in DOMAIN t.nodes : v.nodes[i] = t.nodes[i]
      /\ IsTable(v.names) /\ IsTable(v.nodes) /\ v = [names |-> v.names, nodes |-> v.nodes]
  BY DEF IsTable
<1> HIDE DEF v
<1>9. \A i : Named(v, i) = Named(t, i)
  BY <1>8 DEF Named
<1>10. IsTree(v)
  BY <1>3, <1>8, <1>9 DEF IsTree
<1>11. View = v
  <2>1. \A i \in DOMAIN v.nodes : Node(i) = v.nodes[i]
    BY <1>4, <1>7, <1>8 DEF Node
  <2>2. \A i \in DOMAIN v.nodes, n \in Names : Entry(<<i, n>>) = At(v, <<i, n>>)
    BY <1>4, <1>7, <1>8 DEF Entry, Backed, At
  <2> QED  BY <1>5, <1>6, <1>8, <1>10, <2>1, <2>2, EntriesAre, ViewIs DEF Whole
<1>12. Numbered
  <2> DEFINE c == Cardinality(DOMAIN t.nodes)
  <2>1. IsFiniteSet(DOMAIN t.nodes)
    <3>1. IsFiniteSet(Inodes)
      BY OverlayAssumption, FS_Interval DEF Inodes
    <3> QED  BY <1>3, <3>1, FS_Subset DEF IsTree
  <2>2. c \in Nat
    BY <2>1, FS_CardinalityType
  <2>3. DOMAIN View.nodes = 1..c /\ fresh = 1 + c
    BY <1>1, <1>3, <1>8, <1>11
  <2> HIDE DEF c
  <2> QED  BY <1>4, <2>2, <2>3 DEF Numbered
<1>13. BaseAgrees /\ UntouchedPublished
  BY <1>4 DEF BaseAgrees, UntouchedPublished
<1> QED  BY <1>5, <1>6, <1>10, <1>11, <1>12, <1>13 DEF OverlayInv

LEMMA EveryStep ==
    ASSUME OverlayInv, [Next]_vars
    PROVE  OverlayInv' /\ (Mounted!Next \/ View' = View)
<1>1. CASE \E p \in Inodes, n \in Names :
              \/ \E node \in {Dir} \cup {File(d) : d \in Data} : Create(p, n, node)
              \/ Unlink(p, n)
              \/ Rmdir(p, n)
              \/ \E q \in Inodes, m \in Names : Rename(p, n, q, m)
              \/ \E i \in Inodes : Link(i, p, n)
  BY <1>1, CreateMakes, UnlinkMakes, RmdirMakes, RenameMakes, LinkMakes
<1>2. CASE \E i \in Inodes, d \in Data : Write(i, d)
  BY <1>2, WriteMakes
<1>3. CASE (\E p \in Inodes, n \in Names : Look(p, n)) \/ (\E i \in Inodes : Evict(i)) \/ UNCHANGED vars
  <2>1. UNCHANGED <<row, edge, gens, served, recorded, fresh, stamp, pending, job>>
    BY <1>3 DEF Look, Evict, vars, tables
  <2> QED  BY <2>1, MemoryKeeps
<1>4. CASE SealFails \/ SwapFails \/ Finish \/ RebaseFails \/ Crash
  <2>1. UNCHANGED <<row, edge, gens, served, recorded, fresh>> /\ job' = Idle
    BY <1>4 DEF SealFails, SwapFails, Finish, RebaseFails, Crash, tables
  <2> QED  BY <2>1, IdleKeeps
<1>5. CASE Freeze \/ Flip \/ Swap \/ RebaseStart \/ Batch \/ Reopen
  BY <1>5, FreezeKeeps, FlipKeeps, SwapKeeps, RebaseStartKeeps, BatchKeeps, ReopenKeeps
<1> QED  BY <1>1, <1>2, <1>3, <1>4, <1>5 DEF Next

(* The tables, the generations and the checkpoint under way always make a  *)
(* tree, and the generation a checkpoint publishes or has published agrees *)
(* with it wherever the tables leave the answer to it.                     *)
THEOREM OverlayInvariant == Spec => []OverlayInv
<1>1. Init => OverlayInv
  BY OverlayInvInit
<1>2. OverlayInv /\ [Next]_vars => OverlayInv'
  BY EveryStep
<1> QED  BY <1>1, <1>2, PTL DEF Spec

(* A file is counted as often as it is named, whatever its names and its   *)
(* count come from: rows, the base, or a rebase that is half done.         *)
THEOREM EveryNameCounted == Spec => []LinksCounted
<1>1. OverlayInv => LinksCounted
  <2> SUFFICES ASSUME OverlayInv, NEW i \in DOMAIN View.nodes, View.nodes[i].type = "file"
               PROVE  View.nodes[i].links = Cardinality({e \in DOMAIN View.names : View.names[e] = i})
    BY DEF LinksCounted
  <2>1. Counted(View) /\ i # Root
    BY Before, TreeParts DEF Rooted
  <2> QED  BY <2>1 DEF Counted, Named
<1> QED  BY <1>1, OverlayInvariant, PTL

(* The overlay, its checkpoints, rebases, crashes and reopenings implement *)
(* one tree that only the operations of its users change: each operation   *)
(* is one of the tree's, and every other step leaves the tree alone.       *)
THEOREM OverlayIsATree == Spec => ViewIsTree
<1>1. OverlayInv /\ [Next]_vars => [Mounted!Next]_View
  BY EveryStep
<1> QED  BY <1>1, OverlayInvariant, PTL DEF Spec, ViewIsTree, Mounted!Moves

-----------------------------------------------------------------------------
(* A checkpoint nothing was modified under leaves nothing behind.          *)

(* What the rebase has yet to drop: everything that is still as the freeze *)
(* found it, as long as nothing was given up.                              *)
Swept ==
    job.at = "rebasing" /\ "rebase" \notin torn =>
       /\ \A i \in DOMAIN row : Untouched(i) => i \in job.todo
       /\ \A e \in DOMAIN edge : Untouched(e[1]) => e[1] \in job.todo

LEMMA UserSweeps ==
    ASSUME Swept, UNCHANGED job, "rebase" \in torn <=> "rebase" \in torn', NEW S, Touch(S),
           \A i \in DOMAIN row' : i \in DOMAIN row \cup S,
           \A e \in DOMAIN edge' : e \in DOMAIN edge \/ e[1] \in S
    PROVE  Swept'
<1>1. \A i : (Untouched(i))' => Untouched(i) /\ i \notin S
  BY DEF Touch, Untouched
<1> QED  BY <1>1 DEF Swept

LEMMA RowsLess ==
    ASSUME NEW i
    PROVE  /\ \A j \in DOMAIN RefDropped(i) : j \in DOMAIN row \cup {i}
           /\ \A j \in DOMAIN Without(row, {i}) : j \in DOMAIN row
<1>1. \A j \in DOMAIN Without(row, {i}) : j \in DOMAIN row
  BY DEF Without, Restrict
<1>2. \A j \in DOMAIN RefDropped(i) : j \in DOMAIN row \cup {i}
  <2>1. CASE Node(i).links > 1
    <3> DEFINE v == [Materialized(i) EXCEPT !.node.links = @ - 1]
    <3>1. RefDropped(i) = Put(row, i, v)
      BY <2>1 DEF RefDropped
    <3> HIDE DEF v
    <3> QED  BY <3>1 DEF Put, Over
  <2>2. CASE ~(Node(i).links > 1)
    BY <1>1, <2>2 DEF RefDropped
  <2> QED  BY <2>1, <2>2
<1> QED  BY <1>1, <1>2

LEMMA OperationSweeps ==
    ASSUME Swept, NEW p \in Inodes, NEW n \in Names,
           \/ \E node \in {Dir} \cup {File(d) : d \in Data} : Create(p, n, node)
           \/ Unlink(p, n)
           \/ Rmdir(p, n)
           \/ \E q \in Inodes, m \in Names : Rename(p, n, q, m)
           \/ \E i \in Inodes : Link(i, p, n)
    PROVE  Swept'
<1> DEFINE e == <<p, n>>
<1>1. ASSUME NEW node, Create(p, n, node) PROVE Swept'
  <2>1. PICK k : k = fresh
    OBVIOUS
  <2>2. /\ row' = Put(row, k, [node |-> node, base |-> FALSE]) /\ edge' = Put(edge, e, k)
        /\ Touch({p, k}) /\ UNCHANGED <<job, torn>>
    BY <1>1, <2>1 DEF Create, Unmoved
  <2>3. \A i \in DOMAIN row' : i \in DOMAIN row \cup {p, k}
    <3>1. row' = Put(row, k, [node |-> node, base |-> FALSE])
      BY <2>2
    <3> QED  BY <3>1 DEF Put, Over
  <2>4. \A f \in DOMAIN edge' : f \in DOMAIN edge \/ f[1] \in {p, k}
    <3>1. edge' = Put(edge, e, k) /\ e[1] = p
      BY <2>2
    <3> HIDE DEF e
    <3> QED  BY <3>1 DEF Put, Over
  <2> QED  BY <2>2, <2>3, <2>4, UserSweeps
<1>2. ASSUME Unlink(p, n) \/ Rmdir(p, n) PROVE Swept'
  <2>1. PICK i : i = Entry(e)
    OBVIOUS
  <2>2. /\ row' = RefDropped(i) \/ row' = Without(row, {i})
        /\ \E g : edge' = EdgeGone(e, g) /\ (g = edge \/ g = Without(edge, InDir(i)))
        /\ Touch({p, i}) /\ UNCHANGED <<job, torn>>
    BY <1>2, <2>1 DEF Unlink, Rmdir, Unmoved
  <2>3. \A j \in DOMAIN row' : j \in DOMAIN row \cup {p, i}
    BY <2>2, RowsLess
  <2>4. \A f \in DOMAIN edge' : f \in DOMAIN edge \/ f[1] \in {p, i}
    <3>1. PICK g : edge' = EdgeGone(e, g) /\ (g = edge \/ g = Without(edge, InDir(i)))
      BY <2>2
    <3>2. \A f \in DOMAIN g : f \in DOMAIN edge
      BY <3>1 DEF Without, Restrict
    <3>3. e[1] = p
      OBVIOUS
    <3> HIDE DEF e
    <3>4. \A f \in DOMAIN edge' : f \in DOMAIN g \cup {e}
      BY <3>1, GoneIs
    <3> QED  BY <3>2, <3>3, <3>4
  <2> QED  BY <2>2, <2>3, <2>4, UserSweeps
<1>3. ASSUME NEW q \in Inodes, NEW m \in Names, Rename(p, n, q, m) PROVE Swept'
  <2>1. PICK i, j : i = Entry(e) /\ j = Entry(<<q, m>>)
    OBVIOUS
  <2> DEFINE to == <<q, m>>
             S == {p, q, i} \cup ({j} \ {0})
             g == IF j = 0 THEN edge ELSE Without(edge, {to} \cup IF IsDir(j) THEN InDir(j) ELSE {})
             h == EdgeGone(e, g)
  <2>2. /\ row' = IF j = 0 THEN row ELSE IF IsDir(j) THEN Without(row, {j}) ELSE RefDropped(j)
        /\ edge' = Put(h, to, i)
        /\ Touch(S) /\ UNCHANGED job
    BY <1>3, <2>1 DEF Rename
  <2>3. \A k \in DOMAIN row' : k \in DOMAIN row \cup S
    <3>1. /\ \A k \in DOMAIN RefDropped(j) : k \in DOMAIN row \cup {j}
          /\ \A k \in DOMAIN Without(row, {j}) : k \in DOMAIN row
      BY RowsLess
    <3>2. \/ row' = row
          \/ j # 0 /\ (row' = Without(row, {j}) \/ row' = RefDropped(j))
      BY <2>2
    <3>3. j # 0 => j \in S
      OBVIOUS
    <3> HIDE DEF S
    <3> QED  BY <3>1, <3>2, <3>3
  <2>4. \A f \in DOMAIN edge' : f \in DOMAIN edge \/ f[1] \in S
    <3>1. \A f \in DOMAIN g : f \in DOMAIN edge
      BY DEF Without, Restrict
    <3>2. e[1] \in S /\ to[1] \in S
      OBVIOUS
    <3>3. h = EdgeGone(e, g) /\ edge' = Put(h, to, i)
      BY <2>2
    <3> HIDE DEF e, to, g, h, S
    <3>4. \A f \in DOMAIN h : f \in DOMAIN g \cup {e}
      BY <3>3, GoneIs
    <3>5. \A f \in DOMAIN edge' : f \in DOMAIN h \cup {to}
      BY <3>3 DEF Put, Over
    <3> QED  BY <3>1, <3>2, <3>4, <3>5
  <2>5. Touch(S) /\ UNCHANGED job /\ ("rebase" \in torn <=> "rebase" \in torn')
    <3>1. torn' = torn \cup {w \in {"stale"} : e \notin DOMAIN edge /\ Astray(i)}
      BY <1>3, <2>1 DEF Rename
    <3> QED  BY <2>2, <3>1
  <2> HIDE DEF S
  <2> QED  BY <2>3, <2>4, <2>5, UserSweeps
<1>4. ASSUME NEW i \in Inodes, Link(i, p, n) PROVE Swept'
  <2> DEFINE v == [Materialized(i) EXCEPT !.node.links = @ + 1]
  <2>1. row' = Put(row, i, v) /\ edge' = Put(edge, e, i) /\ Touch({i, p}) /\ UNCHANGED <<job, torn>>
    BY <1>4 DEF Link, Unmoved
  <2>2. e[1] = p
    OBVIOUS
  <2> HIDE DEF v, e
  <2>3. \A j \in DOMAIN row' : j \in DOMAIN row \cup {i, p}
    BY <2>1 DEF Put, Over
  <2>4. \A f \in DOMAIN edge' : f \in DOMAIN edge \/ f[1] \in {i, p}
    BY <2>1, <2>2 DEF Put, Over
  <2> QED  BY <2>1, <2>3, <2>4, UserSweeps
<1> QED  BY <1>1, <1>2, <1>3, <1>4

LEMMA RebaseStartSweeps ==
    ASSUME RebaseStart
    PROVE  Swept'
<1> DEFINE edges == pending.byInode
           lost  == DOMAIN edges \ Replayed
           clean == Cleanable(lost \cup {edges[i][1] : i \in lost})
<1>1. /\ torn' = torn \cup {w \in {"rebase"} : lost # {}} /\ job'.todo = clean
      /\ UNCHANGED <<row, edge, stamp>>
  BY DEF RebaseStart, tables
<1>2. lost = {} => clean = {i \in Dirty : i \in DOMAIN stamp /\ stamp[i] = "before"}
  BY DEF Cleanable
<1> HIDE DEF lost, clean
<1>3. (\A i \in DOMAIN row : i \in Dirty) /\ \A e \in DOMAIN edge : e[1] \in Dirty
  BY DEF Dirty
<1>4. "rebase" \notin torn' => lost = {}
  BY <1>1
<1> QED  BY <1>1, <1>2, <1>3, <1>4 DEF Swept, Untouched

LEMMA BatchSweeps ==
    ASSUME OverlayInv, Swept, Batch
    PROVE  Swept'
<1>1. PICK i : i = CHOOSE x \in job.todo : \A y \in job.todo : x <= y
  OBVIOUS
<1>2. job.at = "rebasing" /\ IsRebase(job)
  BY DEF Batch, OverlayInv, GensTyped
<1>3. /\ UNCHANGED <<stamp, torn>> /\ job'.todo = job.todo \ {i}
      /\ \/ Untouched(i) /\ row' = Without(row, {i}) /\ edge' = Without(edge, InDir(i))
         \/ ~Untouched(i) /\ UNCHANGED <<row, edge>>
  BY <1>1, <1>2 DEF Batch, IsRebase
<1>4. /\ \A j \in DOMAIN row' : j \in DOMAIN row /\ (Untouched(j) => j # i)
      /\ \A e \in DOMAIN edge' : e \in DOMAIN edge /\ (Untouched(e[1]) => e[1] # i)
  BY <1>3 DEF Without, Restrict, InDir
<1>5. \A j : (Untouched(j))' = Untouched(j)
  BY <1>3 DEF Untouched
<1> QED  BY <1>2, <1>3, <1>4, <1>5 DEF Swept

LEMMA EveryStepSweeps ==
    ASSUME OverlayInv, Swept, [Next]_vars
    PROVE  Swept'
<1>1. CASE \E i \in Inodes, d \in Data : Write(i, d)
  <2>1. PICK i \in Inodes, d \in Data : Write(i, d)
    BY <1>1
  <2> DEFINE v == [Materialized(i) EXCEPT !.node.data = d]
  <2>2. row' = Put(row, i, v) /\ edge' = edge /\ Touch({i}) /\ UNCHANGED <<job, torn>>
    BY <2>1 DEF Write, Unmoved
  <2> HIDE DEF v
  <2>3. \A j \in DOMAIN row' : j \in DOMAIN row \cup {i}
    BY <2>2 DEF Put, Over
  <2> QED  BY <2>2, <2>3, UserSweeps
<1>2. CASE (\E p \in Inodes, n \in Names : Look(p, n)) \/ (\E i \in Inodes : Evict(i)) \/ Reopen
           \/ UNCHANGED vars
  <2>1. UNCHANGED <<row, edge, stamp, torn, job>>
    BY <1>2 DEF Look, Evict, Reopen, vars, tables
  <2> QED  BY <2>1 DEF Swept, Untouched
<1>3. CASE SealFails \/ SwapFails \/ Finish \/ RebaseFails \/ Crash \/ Freeze \/ Flip \/ Swap
  <2>1. job'.at # "rebasing"
    BY <1>3 DEF SealFails, SwapFails, Finish, RebaseFails, Crash, Freeze, Flip, Swap, Idle
  <2> QED  BY <2>1 DEF Swept
<1>4. CASE RebaseStart \/ Batch
  BY <1>4, RebaseStartSweeps, BatchSweeps
<1> QED  BY <1>1, <1>2, <1>3, <1>4, OperationSweeps DEF Next

(* A checkpoint under which nothing was modified, and that inherited and   *)
(* gave up nothing, ends with empty tables: the generation it published    *)
(* serves everything alone.                                                *)
THEOREM QuietCheckpointLeavesNothing == Spec => QuietCheckpointCleans
<1>1. Init => Swept
  BY DEF Init, Swept, Idle
<1>2. OverlayInv /\ Swept /\ [Next]_vars => Swept'
  BY EveryStepSweeps
<1>3. OverlayInv /\ Swept /\ [Next]_vars =>
        [job.at = "rebasing" /\ job'.at = "idle" /\ state' = "up" /\ "rebase" \notin torn' \cup torn
         /\ (\A i \in Dirty \cup job.cleaned : i \in DOMAIN stamp /\ stamp[i] = "before")
         => Dirty' = {}]_vars
  <2> SUFFICES ASSUME OverlayInv, Swept, Next, job.at = "rebasing", job'.at = "idle", state' = "up",
                      "rebase" \notin torn' \cup torn,
                      \A i \in Dirty \cup job.cleaned : i \in DOMAIN stamp /\ stamp[i] = "before"
               PROVE  Dirty' = {}
    OBVIOUS
  <2>1. Finish
    <3>1. job' # job
      OBVIOUS
    <3>2. ~Batch
      <4> SUFFICES ASSUME Batch PROVE FALSE
        OBVIOUS
      <4>1. IsRebase(job)
        BY DEF OverlayInv, GensTyped
      <4> QED  BY <4>1 DEF Batch, IsRebase
    <3>3. ~\E p \in Inodes, n \in Names :
             \/ \E node \in {Dir} \cup {File(d) : d \in Data} : Create(p, n, node)
             \/ Unlink(p, n)
             \/ Rmdir(p, n)
             \/ \E q \in Inodes, m \in Names : Rename(p, n, q, m)
             \/ \E i \in Inodes : Link(i, p, n)
             \/ Look(p, n)
      <4> SUFFICES ASSUME NEW p \in Inodes, NEW n \in Names,
                          \/ \E node \in {Dir} \cup {File(d) : d \in Data} : Create(p, n, node)
                          \/ Unlink(p, n)
                          \/ Rmdir(p, n)
                          \/ \E q \in Inodes, m \in Names : Rename(p, n, q, m)
                          \/ \E i \in Inodes : Link(i, p, n)
                          \/ Look(p, n)
                   PROVE  FALSE
        OBVIOUS
      <4>1. \A node : Create(p, n, node) => job' = job
        BY DEF Create, Unmoved
      <4>2. Unlink(p, n) \/ Rmdir(p, n) => job' = job
        BY DEF Unlink, Rmdir, Unmoved
      <4>3. \A q \in Inodes, m \in Names : Rename(p, n, q, m) => job' = job
        BY DEF Rename
      <4>4. \A i \in Inodes : Link(i, p, n) => job' = job
        BY DEF Link, Unmoved
      <4>5. Look(p, n) => job' = job
        BY DEF Look
      <4> QED  BY <3>1, <4>1, <4>2, <4>3, <4>4, <4>5
    <3>4. ~\E i \in Inodes : (\E d \in Data : Write(i, d)) \/ Evict(i)
      BY <3>1 DEF Write, Evict, Unmoved
    <3>5. ~(Freeze \/ SealFails \/ Flip \/ Swap \/ SwapFails)
      BY DEF Freeze, SealFails, Flip, Swap, SwapFails, Idle
    <3>6. ~(RebaseStart \/ RebaseFails \/ Crash \/ Reopen)
      BY <3>1 DEF RebaseStart, RebaseFails, Crash, Reopen
    <3> QED  BY <3>2, <3>3, <3>4, <3>5, <3>6 DEF Next
  <2>2. job.todo = {} /\ UNCHANGED <<row, edge>>
    BY <2>1 DEF Finish
  <2>3. Dirty' = Dirty
    BY <2>2 DEF Dirty
  <2>4. DOMAIN row = {} /\ DOMAIN edge = {}
    <3>1. (\A i \in DOMAIN row : i \in Dirty) /\ \A e \in DOMAIN edge : e[1] \in Dirty
      BY DEF Dirty
    <3> QED  BY <2>2, <3>1 DEF Swept, Untouched
  <2> QED  BY <2>3, <2>4 DEF Dirty
<1> QED  BY <1>1, <1>2, <1>3, OverlayInvariant, PTL DEF Spec, QuietCheckpointCleans

-----------------------------------------------------------------------------
(* What every table, every way and the memory of the mount hold.           *)

(* From inodes to slots: the way the base was, or is, descended.           *)
IsWay(f) == \A i \in DOMAIN f : i \in Inodes /\ f[i] \in Slot

(* Ways can be put over one another, extended and cut.                     *)
LEMMA WayParts ==
    /\ IsWay(NoWhere)
    /\ \A f, g : IsWay(f) /\ IsWay(g) => IsWay(Over(f, g))
    /\ \A f, x, v : IsWay(f) /\ x \in Inodes /\ v \in Slot => IsWay(Put(f, x, v))
    /\ \A f, S : IsWay(f) => IsWay(Without(f, S))
    /\ \A f, S : IsWay(f) /\ S \subseteq DOMAIN f => IsWay(Restrict(f, S))
<1>1. IsWay(NoWhere)
  BY DEF IsWay, NoWhere
<1>2. ASSUME NEW f, NEW g, IsWay(f), IsWay(g) PROVE IsWay(Over(f, g))
  BY <1>2 DEF IsWay, Over
<1>3. ASSUME NEW f, NEW x \in Inodes, NEW v \in Slot, IsWay(f) PROVE IsWay(Put(f, x, v))
  BY <1>3 DEF IsWay, Put, Over
<1>4. ASSUME NEW f, NEW S, IsWay(f) PROVE IsWay(Without(f, S))
  BY <1>4 DEF IsWay, Without, Restrict
<1>5. ASSUME NEW f, NEW S, IsWay(f), S \subseteq DOMAIN f PROVE IsWay(Restrict(f, S))
  BY <1>5 DEF IsWay, Restrict
<1> QED  BY <1>1, <1>2, <1>3, <1>4, <1>5

(* The base names inodes.                                                  *)
BaseTyped == \A e \in DOMAIN Base.names : e \in Slot /\ Base.names[e] \in Inodes

(* The ways of ensureBaseLocked, those of at most n steps.                 *)
UpFrom(w, s, f) == IF s[2] \in DOMAIN f THEN w[<<s[1] - 1, f[s[2]][1]>>] ELSE Ends("lost")
Turn(w, s) ==
    IF s[2] = Root \/ s[2] \in DOMAIN res THEN Ends("here")
    ELSE IF s[1] = 0 THEN Ends("refused")
    ELSE Replay(s[2], UpFrom(w, s, prov), UpFrom(w, s, obase))
WaysOf(w, n) == w = [s \in (0..n) \X Inodes |-> Turn(w, s)]

(* The ways are a function, though each is defined by others.              *)
LEMMA HasWays ==
    ASSUME IsWay(prov), IsWay(obase)
    PROVE  \E w : WaysOf(w, MaxInode)
<1> DEFINE S == {n \in 0..MaxInode : \E w : WaysOf(w, n)}
<1>0. MaxInode \in Nat
  BY OverlayAssumption
<1>1. 0 \in S
  <2> DEFINE w == [s \in (0..0) \X Inodes |-> Turn(NoWhere, s)]
  <2>1. ASSUME NEW s \in (0..0) \X Inodes PROVE w[s] = Turn(w, s)
    <3>1. s[1] = 0
      OBVIOUS
    <3>2. w[s] = Turn(NoWhere, s)
      OBVIOUS
    <3> HIDE DEF w
    <3> QED  BY <3>1, <3>2 DEF Turn
  <2>2. w = [s \in (0..0) \X Inodes |-> w[s]]
    OBVIOUS
  <2> HIDE DEF w
  <2>3. WaysOf(w, 0)
    BY <2>1, <2>2 DEF WaysOf
  <2> QED  BY <1>0, <2>3
<1>2. ASSUME NEW n \in 0..(MaxInode - 1), n \in S PROVE n + 1 \in S
  <2>1. PICK f : WaysOf(f, n)
    BY <1>2
  <2> DEFINE w == [s \in (0..(n + 1)) \X Inodes |-> Turn(f, s)]
  <2>2. ASSUME NEW s \in (0..(n + 1)) \X Inodes, s[1] # 0, NEW p, IsWay(p)
        PROVE  UpFrom(w, s, p) = UpFrom(f, s, p)
    <3> SUFFICES ASSUME s[2] \in DOMAIN p
                 PROVE  w[<<s[1] - 1, p[s[2]][1]>>] = f[<<s[1] - 1, p[s[2]][1]>>]
      BY DEF UpFrom
    <3> DEFINE t == <<s[1] - 1, p[s[2]][1]>>
    <3>1. p[s[2]][1] \in Inodes
      BY <2>2 DEF IsWay, Slot
    <3>2. s[1] - 1 \in 0..n
      BY <2>2
    <3>3. t \in (0..n) \X Inodes /\ t \in (0..(n + 1)) \X Inodes
      BY <3>1, <3>2
    <3> HIDE DEF t
    <3>4. w[t] = Turn(f, t)
      BY <3>3
    <3>5. f[t] = Turn(f, t)
      BY <2>1, <3>3 DEF WaysOf
    <3> QED  BY <3>4, <3>5 DEF t
  <2>3. ASSUME NEW s \in (0..(n + 1)) \X Inodes PROVE w[s] = Turn(w, s)
    <3>1. w[s] = Turn(f, s)
      OBVIOUS
    <3>2. s[1] # 0 => UpFrom(w, s, prov) = UpFrom(f, s, prov) /\ UpFrom(w, s, obase) = UpFrom(f, s, obase)
      BY <2>2
    <3> HIDE DEF w
    <3> QED  BY <3>1, <3>2 DEF Turn
  <2>4. w = [s \in (0..(n + 1)) \X Inodes |-> w[s]]
    OBVIOUS
  <2> HIDE DEF w
  <2>5. WaysOf(w, n + 1)
    BY <2>3, <2>4 DEF WaysOf
  <2> QED  BY <1>0, <2>5
<1>3. MaxInode \in S
  <2> HIDE DEF S
  <2> QED  BY <1>0, <1>1, <1>2, UpTo
<1> QED  BY <1>3

(* One step more is a step of the base.                                    *)
LEMMA ReplayTyped ==
    ASSUME IsWay(prov), IsWay(obase), BaseTyped, NEW x, NEW v, NEW w, IsWay(v.steps), IsWay(w.steps)
    PROVE  IsWay(Replay(x, v, w).steps)
<1>1. ASSUME NEW u, NEW f, IsWay(u.steps), IsWay(f), x \in DOMAIN f, f[x] \in DOMAIN Base.names
      PROVE  IsWay(Put(u.steps, Base.names[f[x]], f[x]))
  <2>1. Base.names[f[x]] \in Inodes /\ f[x] \in Slot
    BY <1>1 DEF BaseTyped
  <2> QED  BY <1>1, <2>1, WayParts
<1>2. IsWay(Ends("lost").steps) /\ IsWay(Ends("refused").steps)
  BY WayParts DEF Ends
<1> QED  BY <1>1, <1>2 DEF Replay

(* What a way to the base teaches is of the base.                          *)
LEMMA EnsureTyped ==
    ASSUME IsWay(prov), IsWay(obase), BaseTyped, NEW i \in Inodes
    PROVE  IsWay(Ensure(i).steps)
<1>0. MaxInode \in Nat
  BY OverlayAssumption
<1>1. Ensure(i) = (CHOOSE w : WaysOf(w, MaxInode))[<<MaxInode, i>>]
  BY DEF Ensure, WaysOf, Turn, UpFrom
<1>2. PICK w : w = CHOOSE v : WaysOf(v, MaxInode)
  OBVIOUS
<1>3. WaysOf(w, MaxInode)
  BY <1>2, HasWays
<1>4. \A k \in 0..MaxInode, x \in Inodes : w[<<k, x>>] = Turn(w, <<k, x>>)
  BY <1>3 DEF WaysOf
<1> DEFINE T == {k \in 0..MaxInode : \A x \in Inodes : IsWay(w[<<k, x>>].steps)}
<1>5. IsWay(Ends("lost").steps) /\ IsWay(Ends("refused").steps) /\ IsWay(Ends("here").steps)
  BY WayParts DEF Ends
<1>6. 0 \in T
  <2>1. \A x \in Inodes : Turn(w, <<0, x>>) = Ends("here") \/ Turn(w, <<0, x>>) = Ends("refused")
    BY DEF Turn
  <2> QED  BY <1>0, <1>4, <1>5, <2>1
<1>7. ASSUME NEW k \in 0..(MaxInode - 1), k \in T PROVE k + 1 \in T
  <2> SUFFICES ASSUME NEW x \in Inodes PROVE IsWay(Turn(w, <<k + 1, x>>).steps)
    BY <1>0, <1>4
  <2>1. ASSUME NEW p, IsWay(p) PROVE IsWay(UpFrom(w, <<k + 1, x>>, p).steps)
    <3>1. CASE x \in DOMAIN p
      <4>1. p[x][1] \in Inodes
        BY <2>1, <3>1 DEF IsWay, Slot
      <4>2. UpFrom(w, <<k + 1, x>>, p) = w[<<k, p[x][1]>>]
        BY <3>1 DEF UpFrom
      <4> QED  BY <1>7, <4>1, <4>2
    <3>2. CASE x \notin DOMAIN p
      BY <1>5, <3>2 DEF UpFrom
    <3> QED  BY <3>1, <3>2
  <2>2. IsWay(Replay(x, UpFrom(w, <<k + 1, x>>, prov), UpFrom(w, <<k + 1, x>>, obase)).steps)
    BY <2>1, ReplayTyped
  <2> QED  BY <1>5, <2>2 DEF Turn
<1>8. \A k \in 0..MaxInode : k \in T
  <2> HIDE DEF T
  <2> QED  BY <1>0, <1>6, <1>7, UpTo
<1>9. MaxInode \in T
  BY <1>0, <1>8
<1> QED  BY <1>1, <1>2, <1>9

(* The base is a tree.                                                     *)
LEMMA BaseIsTyped ==
    ASSUME OverlayInv
    PROVE  BaseTyped /\ EntriesTyped
<1>1. Rooted(Base) /\ Placed(Base) /\ EntriesTyped
  BY Before, TreeParts
<1> QED  BY <1>1 DEF BaseTyped, Rooted, Placed

(* What resolving a name teaches is of the base.                           *)
LEMMA LearntTyped ==
    ASSUME IsWay(prov), IsWay(obase), BaseTyped, EntriesTyped, NEW e \in Slot
    PROVE  IsWay(Learnt(e))
<1>1. e[1] \in Inodes /\ IsWay(Ensure(e[1]).steps)
  BY EnsureTyped DEF Slot
<1>2. CASE ViaBase(e)
  <2>1. Base.names[e] \in Inodes
    BY <1>2 DEF ViaBase, BaseTyped
  <2> QED  BY <1>1, <1>2, <2>1, WayParts DEF Learnt
<1>3. CASE ~ViaBase(e) /\ Entry(e) \in Inodes \ DOMAIN row
  <2>1. IsWay(Ensure(Entry(e)).steps)
    BY <1>3, EnsureTyped
  <2> QED  BY <1>1, <1>3, <2>1, WayParts DEF Learnt
<1>4. CASE ~ViaBase(e) /\ Entry(e) \notin Inodes \ DOMAIN row
  BY <1>1, <1>4 DEF Learnt
<1> QED  BY <1>2, <1>3, <1>4

(* The ways of persistChainLocked, those of at most n steps.               *)
ChainTurn(c, k) ==
    [x \in Inodes |->
        IF k = 0 \/ x = Root \/ x \in DOMAIN obase \/ x \notin Steps THEN NoWhere
        ELSE Put(c[k - 1][Step(x)[1]], x, Step(x))]
ChainsOf(c, n) == c = [k \in 0..n |-> ChainTurn(c, k)]

(* So are the chains.                                                      *)
LEMMA HasChains == \E c : ChainsOf(c, MaxInode)
<1> DEFINE S == {n \in 0..MaxInode : \E c : ChainsOf(c, n)}
<1>0. MaxInode \in Nat
  BY OverlayAssumption
<1>1. 0 \in S
  <2> DEFINE c == [k \in 0..0 |-> [x \in Inodes |-> NoWhere]]
  <2>1. \A k \in 0..0 : k = 0
    OBVIOUS
  <2>2. \A k \in 0..0 : c[k] = ChainTurn(c, k)
    <3>1. \A k \in 0..0 : c[k] = [x \in Inodes |-> NoWhere]
      OBVIOUS
    <3> HIDE DEF c
    <3> QED  BY <2>1, <3>1 DEF ChainTurn
  <2>3. c = [k \in 0..0 |-> c[k]]
    OBVIOUS
  <2> HIDE DEF c
  <2>4. ChainsOf(c, 0)
    BY <2>2, <2>3 DEF ChainsOf
  <2> QED  BY <1>0, <2>4
<1>2. ASSUME NEW n \in 0..(MaxInode - 1), n \in S PROVE n + 1 \in S
  <2>1. PICK f : ChainsOf(f, n)
    BY <1>2
  <2> DEFINE c == [k \in 0..(n + 1) |-> ChainTurn(f, k)]
  <2>2. ASSUME NEW k \in 0..(n + 1) PROVE c[k] = ChainTurn(c, k)
    <3>1. c[k] = ChainTurn(f, k)
      OBVIOUS
    <3>2. CASE k = 0
      <4> HIDE DEF c
      <4> QED  BY <3>1, <3>2 DEF ChainTurn
    <3>3. CASE k # 0
      <4>1. k - 1 \in 0..n /\ k - 1 \in 0..(n + 1)
        BY <3>3
      <4>2. c[k - 1] = ChainTurn(f, k - 1)
        BY <4>1
      <4>3. f[k - 1] = ChainTurn(f, k - 1)
        BY <2>1, <4>1 DEF ChainsOf
      <4> HIDE DEF c
      <4>4. c[k - 1] = f[k - 1]
        BY <4>2, <4>3
      <4> QED  BY <3>1, <4>4 DEF ChainTurn
    <3> QED  BY <3>2, <3>3
  <2>3. c = [k \in 0..(n + 1) |-> c[k]]
    OBVIOUS
  <2> HIDE DEF c
  <2>4. ChainsOf(c, n + 1)
    BY <2>2, <2>3 DEF ChainsOf
  <2> QED  BY <1>0, <2>4
<1>3. MaxInode \in S
  <2> HIDE DEF S
  <2> QED  BY <1>0, <1>1, <1>2, UpTo
<1> QED  BY <1>3

(* What persistChainLocked stores leads from inode to inode.               *)
LEMMA ChainTyped ==
    ASSUME IsWay(prov), IsWay(res), NEW i \in Inodes
    PROVE  IsWay(Chain(i))
<1>0. MaxInode \in Nat
  BY OverlayAssumption
<1>1. Chain(i) = (CHOOSE c : ChainsOf(c, MaxInode))[MaxInode][i]
  BY DEF Chain, ChainsOf, ChainTurn
<1>2. PICK c : c = CHOOSE d : ChainsOf(d, MaxInode)
  OBVIOUS
<1>3. ChainsOf(c, MaxInode)
  BY <1>2, HasChains
<1>4. \A k \in 0..MaxInode : c[k] = ChainTurn(c, k)
  BY <1>3 DEF ChainsOf
<1> DEFINE T == {k \in 0..MaxInode : \A x \in Inodes : IsWay(c[k][x])}
<1>5. 0 \in T
  <2>1. \A x \in Inodes : ChainTurn(c, 0)[x] = NoWhere
    BY DEF ChainTurn
  <2> QED  BY <1>0, <1>4, <2>1, WayParts
<1>6. ASSUME NEW k \in 0..(MaxInode - 1), k \in T PROVE k + 1 \in T
  <2> SUFFICES ASSUME NEW x \in Inodes PROVE IsWay(ChainTurn(c, k + 1)[x])
    BY <1>0, <1>4
  <2>1. ASSUME x \in Steps PROVE IsWay(Put(c[k][Step(x)[1]], x, Step(x)))
    <3>1. Step(x) \in Slot
      BY <2>1 DEF Step, Steps, IsWay
    <3>2. IsWay(c[k][Step(x)[1]])
      BY <1>6, <3>1 DEF Slot
    <3> QED  BY <3>1, <3>2, WayParts
  <2>2. \/ ChainTurn(c, k + 1)[x] = NoWhere
        \/ x \in Steps /\ ChainTurn(c, k + 1)[x] = Put(c[k][Step(x)[1]], x, Step(x))
    BY DEF ChainTurn
  <2> QED  BY <2>1, <2>2, WayParts
<1>7. \A k \in 0..MaxInode : k \in T
  <2> HIDE DEF T
  <2> QED  BY <1>0, <1>5, <1>6, UpTo
<1>8. MaxInode \in T
  BY <1>0, <1>7
<1> QED  BY <1>1, <1>2, <1>8

(* Of some slots, one is in the directory with the highest number.         *)
LEMMA Highest ==
    ASSUME NEW S \in SUBSET Slot, S # {}
    PROVE  \E e \in S : \A f \in S : f[1] <= e[1]
<1>0. MaxInode \in Nat /\ \A e \in S : e[1] \in 1..MaxInode
  BY OverlayAssumption DEF Slot, Inodes
<1> SUFFICES ASSUME \A e \in S : \E f \in S : ~(f[1] <= e[1]) PROVE FALSE
  OBVIOUS
<1> DEFINE T == {k \in 0..MaxInode : \E e \in S : e[1] > k}
<1>1. 0 \in T
  BY <1>0
<1>2. ASSUME NEW k \in 0..(MaxInode - 1), k \in T PROVE k + 1 \in T
  <2>1. PICK e \in S : e[1] > k
    BY <1>2
  <2>2. PICK f \in S : ~(f[1] <= e[1])
    OBVIOUS
  <2>3. f[1] > k + 1
    BY <1>0, <2>1, <2>2
  <2> QED  BY <1>0, <2>3
<1>3. MaxInode \in T
  <2> HIDE DEF T
  <2>1. MaxInode \in 0..MaxInode /\ \A k \in 0..(MaxInode - 1) : k \in T => k + 1 \in T
    BY <1>0, <1>2
  <2>2. \A k \in 0..MaxInode : k \in T
    BY <1>0, <1>1, <2>1, UpTo
  <2> QED  BY <2>1, <2>2
<1> QED  BY <1>0, <1>3

(* The frozen edge of an inode is an edge.                                 *)
LEMMA NamespaceTyped ==
    ASSUME TablesTyped
    PROVE  IsWay(Namespace.byInode)
<1> DEFINE names == {e \in DOMAIN edge : edge[e] # 0}
           of(i) == {e \in names : edge[e] = i}
<1> SUFFICES ASSUME NEW i \in {edge[e] : e \in names}
             PROVE  /\ i \in Inodes
                    /\ (CHOOSE e \in of(i) : \A f \in of(i) : f[1] <= e[1]) \in Slot
  BY DEF IsWay, Namespace
<1>1. i \in Inodes /\ of(i) # {} /\ of(i) \in SUBSET Slot
  BY DEF TablesTyped
<1> HIDE DEF of
<1> QED  BY <1>1, Highest

(* What a seal leaves resident was reached in the base.                    *)
LEMMA RetainedTyped ==
    ASSUME BaseTyped, NEW dirs
    PROVE  IsWay(Retained(dirs))
<1> DEFINE seen == {e \in dirs \X Names : Backed(e[1]) /\ e \in DOMAIN Base.names}
<1> SUFFICES ASSUME NEW i \in {Base.names[e] : e \in seen}
             PROVE  i \in Inodes /\ (CHOOSE e \in seen : Base.names[e] = i) \in Slot
  BY DEF IsWay, Retained
<1>1. \A e \in seen : e \in Slot /\ Base.names[e] \in Inodes
  BY DEF BaseTyped
<1>2. \E e \in seen : Base.names[e] = i
  OBVIOUS
<1> HIDE DEF seen
<1> QED  BY <1>1, <1>2

(* What a swap finds again, it finds in the generation it swaps in.        *)
LEMMA RedescendedTyped ==
    ASSUME NEW t, IsTree(t)
    PROVE  IsWay(Redescended(t))
<1>0. \A e \in DOMAIN t.names : e \in Slot /\ t.names[e] \in Inodes
  BY TreeParts DEF Rooted, Placed
<1> DEFINE held == {res[i] : i \in DOMAIN res} \cap DOMAIN t.names
<1>1. PICK found :
        found = CHOOSE g : g = [i \in Inodes |->
            i = Root \/ \E e \in held : e[1] < i /\ t.names[e] = i /\ g[e[1]]]
  OBVIOUS
<1> DEFINE kept == {e \in held : found[e[1]]}
           to(i) == {e \in kept : t.names[e] = i}
<1>2. Redescended(t) =
        [i \in {t.names[e] : e \in kept} |-> CHOOSE e \in to(i) : \A f \in to(i) : f[1] <= e[1]]
  BY <1>1 DEF Redescended
<1>3. \A e \in kept : e \in Slot /\ t.names[e] \in Inodes
  BY <1>0
<1> HIDE DEF kept
<1> SUFFICES ASSUME NEW i \in {t.names[e] : e \in kept}
             PROVE  /\ i \in Inodes
                    /\ (CHOOSE e \in to(i) : \A f \in to(i) : f[1] <= e[1]) \in Slot
  BY <1>2 DEF IsWay
<1>4. i \in Inodes /\ to(i) # {} /\ to(i) \in SUBSET Slot
  BY <1>3
<1> HIDE DEF to
<1> QED  BY <1>4, Highest

(* TypeOK, less what the inductive invariant of the view has already.      *)
MemoryTyped == IsWay(obase) /\ IsWay(res) /\ IsWay(prov) /\ IsWay(pending.byInode)
StampTyped == \A i \in DOMAIN stamp : i \in Inodes /\ stamp[i] \in {"before", "since"}
RangesTyped ==
    /\ fresh \in 1..(MaxInode + 1) /\ state \in {"up", "down", "refused"}
    /\ job.at \in {"idle", "frozen", "flipped", "swapped", "rebasing"}
    /\ torn \subseteq {"rebase", "stale", "short"} /\ ops \in 0..MaxOps /\ faults \in 0..MaxFaults
AllTyped == MemoryTyped /\ StampTyped /\ RangesTyped

(* This and the inductive invariant are what TypeOK says.                  *)
LEMMA TypesAre ==
    ASSUME OverlayInv
    PROVE  TypeOK <=> AllTyped
<1>1. (\A f \in {obase, res, prov, pending.byInode} : \A i \in DOMAIN f : i \in Inodes /\ f[i] \in Slot)
        <=> MemoryTyped
  BY DEF MemoryTyped, IsWay
<1>2. /\ \A i \in DOMAIN row : i \in Inodes /\ row[i].base \in BOOLEAN
      /\ \A e \in DOMAIN edge : e \in Slot /\ edge[e] \in Inodes \cup {0}
  BY DEF OverlayInv, TablesTyped, IsRow
<1>3. recorded \in 1..Len(gens) /\ served \in 1..Len(gens)
  <2>1. Len(gens) \in Nat /\ served \in 1..Len(gens) /\ recorded \in 1..served
    BY DEF OverlayInv, GensTyped
  <2> QED  BY <2>1
<1> QED  BY <1>1, <1>2, <1>3 DEF TypeOK, AllTyped, StampTyped, RangesTyped

(* What is touched is stamped, and nothing else is.                        *)
LEMMA StampsTouched ==
    ASSUME StampTyped, NEW S \in SUBSET Inodes, Touch(S)
    PROVE  StampTyped'
BY DEF StampTyped, Touch

(* What a user teaches of the base is of the base, and so is what a user   *)
(* leaves in the tables.                                                   *)
LEMMA UserTypes ==
    ASSUME AllTyped, ops < MaxOps, ops' = ops + 1, IsWay(obase'),
           NEW steps, IsWay(steps), Learn(steps), NEW S \in SUBSET Inodes, Touch(S),
           UNCHANGED <<pending, job, state, faults>>,
           torn' = torn \/ \E W \in SUBSET {"stale"} : torn' = torn \cup W,
           fresh' = fresh \/ (fresh <= MaxInode /\ fresh' = fresh + 1)
    PROVE  AllTyped'
<1>1. MemoryTyped'
  <2>1. IsWay(res') /\ IsWay(prov')
    BY WayParts DEF AllTyped, MemoryTyped, Learn
  <2> QED  BY <2>1 DEF AllTyped, MemoryTyped, IsWay
<1>2. StampTyped'
  BY StampsTouched DEF AllTyped
<1>3. RangesTyped'
  <2>1. MaxOps \in Nat /\ MaxInode \in Nat
    BY OverlayAssumption
  <2>2. fresh' \in 1..(MaxInode + 1) /\ ops' \in 0..MaxOps
    BY <2>1 DEF AllTyped, RangesTyped
  <2>3. torn' \subseteq {"rebase", "stale", "short"}
    BY DEF AllTyped, RangesTyped
  <2> QED  BY <2>2, <2>3 DEF AllTyped, RangesTyped
<1> QED  BY <1>1, <1>2, <1>3 DEF AllTyped

(* Every way, chain and name a user meets.                                 *)
LEMMA KnownWays ==
    ASSUME OverlayInv, AllTyped
    PROVE  /\ \A i \in Inodes : IsWay(Ensure(i).steps) /\ IsWay(Chain(i))
           /\ \A e \in Slot : IsWay(Learnt(e)) /\ Entry(e) \in Inodes \cup {0}
           /\ Dirs \subseteq Inodes /\ Files \subseteq Inodes
<1>1. BaseTyped /\ EntriesTyped
  BY BaseIsTyped
<1>2. IsWay(prov) /\ IsWay(obase) /\ IsWay(res)
  BY DEF AllTyped, MemoryTyped
<1>3. Dirs \subseteq Inodes /\ Files \subseteq Inodes
  BY Before
<1> QED  BY <1>1, <1>2, <1>3, EnsureTyped, ChainTyped, LearntTyped DEF EntriesTyped

(* The operations of users, one by one.                                    *)
LEMMA CreateTypes ==
    ASSUME OverlayInv, AllTyped, NEW p \in Inodes, NEW n \in Names, NEW node, Create(p, n, node)
    PROVE  AllTyped'
<1> DEFINE steps == Ensure(p).steps
           S == {p, fresh}
<1>1. /\ ops < MaxOps /\ ops' = ops + 1 /\ obase' = obase /\ Learn(steps) /\ Touch(S)
      /\ UNCHANGED <<pending, job, state, faults, torn>>
      /\ fresh <= MaxInode /\ fresh' = fresh + 1
  BY DEF Create, Operates, Unmoved
<1>2. IsWay(steps)
  BY KnownWays
<1>3. S \in SUBSET Inodes
  <2>1. fresh \in 1..(MaxInode + 1) /\ MaxInode \in Nat
    BY OverlayAssumption DEF AllTyped, RangesTyped
  <2> QED  BY <1>1, <2>1 DEF Inodes
<1> HIDE DEF steps, S
<1>4. IsWay(obase')
  BY <1>1 DEF AllTyped, MemoryTyped
<1> QED  BY <1>1, <1>2, <1>3, <1>4, UserTypes

LEMMA WriteTypes ==
    ASSUME OverlayInv, AllTyped, NEW i \in Inodes, NEW d, Write(i, d)
    PROVE  AllTyped'
<1> DEFINE steps == IF i \in DOMAIN row THEN NoWhere ELSE Ensure(i).steps
           S == {i}
<1>1. /\ ops < MaxOps /\ ops' = ops + 1 /\ obase' = obase /\ Learn(steps) /\ Touch(S)
      /\ UNCHANGED <<fresh, pending, job, state, faults, torn>>
  BY DEF Write, Operates, Unmoved
<1>2. IsWay(steps)
  BY KnownWays, WayParts
<1>3. S \in SUBSET Inodes
  OBVIOUS
<1> HIDE DEF steps, S
<1>4. IsWay(obase')
  BY <1>1 DEF AllTyped, MemoryTyped
<1> QED  BY <1>1, <1>2, <1>3, <1>4, UserTypes

LEMMA RemovalTypes ==
    ASSUME OverlayInv, AllTyped, NEW p \in Inodes, NEW n \in Names, Unlink(p, n) \/ Rmdir(p, n)
    PROVE  AllTyped'
<1> DEFINE i == Entry(<<p, n>>)
           steps == Learnt(<<p, n>>)
           S == {p, i}
<1>1. /\ ops < MaxOps /\ ops' = ops + 1 /\ obase' = obase /\ Learn(steps) /\ Touch(S)
      /\ UNCHANGED <<fresh, pending, job, state, faults, torn>>
      /\ i \in Dirs \cup Files
  BY DEF Unlink, Rmdir, Operates, Unmoved
<1>2. <<p, n>> \in Slot
  BY DEF Slot
<1>3. IsWay(steps) /\ i \in Inodes
  BY <1>1, <1>2, KnownWays
<1>4. S \in SUBSET Inodes
  BY <1>3
<1> HIDE DEF steps, S, i
<1>5. IsWay(obase')
  BY <1>1 DEF AllTyped, MemoryTyped
<1> QED  BY <1>1, <1>3, <1>4, <1>5, UserTypes

LEMMA RenameTypes ==
    ASSUME OverlayInv, AllTyped, NEW p \in Inodes, NEW n \in Names, NEW q \in Inodes, NEW m \in Names,
           Rename(p, n, q, m)
    PROVE  AllTyped'
<1> DEFINE from == <<p, n>>
           to == <<q, m>>
           i == Entry(from)
           j == Entry(to)
           steps == Over(Learnt(from), Learnt(to))
           S == {p, q, i} \cup ({j} \ {0})
           W == {w \in {"stale"} : from \notin DOMAIN edge /\ Astray(i)}
           ways == Over(obase, Put(Chain(p), i, from))
<1>1. /\ ops < MaxOps /\ ops' = ops + 1 /\ Learn(steps) /\ Touch(S)
      /\ UNCHANGED <<fresh, pending, job, state, faults>>
      /\ torn' = torn \cup W
      /\ i \in Live \ {Root}
      /\ obase' = obase \/ obase' = ways
  BY DEF Rename, Operates
<1>2. from \in Slot /\ to \in Slot
  BY DEF Slot
<1>3. IsWay(Learnt(from)) /\ IsWay(Learnt(to)) /\ IsWay(Chain(p)) /\ j \in Inodes \cup {0}
  BY <1>2, KnownWays
<1>4. i \in Inodes
  <2>1. i \in DOMAIN View.nodes
    BY <1>1 DEF View
  <2> QED  BY <2>1, Before
<1>5. IsWay(steps) /\ IsWay(ways)
  <2>1. IsWay(Put(Chain(p), i, from))
    BY <1>2, <1>3, <1>4, WayParts
  <2>2. IsWay(obase)
    BY DEF AllTyped, MemoryTyped
  <2> HIDE DEF from, to, i, j
  <2> QED  BY <1>3, <2>1, <2>2, WayParts
<1>6. S \in SUBSET Inodes
  BY <1>3, <1>4
<1>7. W \in SUBSET {"stale"}
  OBVIOUS
<1> HIDE DEF steps, S, i, j, W, ways, from, to
<1>8. IsWay(obase')
  BY <1>1, <1>5 DEF AllTyped, MemoryTyped
<1> QED  BY <1>1, <1>5, <1>6, <1>7, <1>8, UserTypes

LEMMA LinkTypes ==
    ASSUME OverlayInv, AllTyped, NEW i \in Inodes, NEW q \in Inodes, NEW m \in Names, Link(i, q, m)
    PROVE  AllTyped'
<1> DEFINE first == IF i \in DOMAIN row THEN NoWhere ELSE Ensure(i).steps
           steps == Over(first, Ensure(q).steps)
           S == {i, q}
<1>1. /\ ops < MaxOps /\ ops' = ops + 1 /\ Learn(steps) /\ Touch(S)
      /\ UNCHANGED <<fresh, pending, job, state, faults, torn>>
      /\ obase' = obase \/ obase' = Over(obase, Chain(i))
  BY DEF Link, Operates, Unmoved
<1>2. IsWay(first) /\ IsWay(Ensure(q).steps) /\ IsWay(Chain(i))
  BY KnownWays, WayParts
<1>3. IsWay(steps)
  <2> HIDE DEF first
  <2> QED  BY <1>2, WayParts
<1>4. S \in SUBSET Inodes
  OBVIOUS
<1>5. IsWay(obase')
  BY <1>1, <1>2, WayParts DEF AllTyped, MemoryTyped
<1> HIDE DEF steps, S
<1> QED  BY <1>1, <1>3, <1>4, <1>5, UserTypes

(* A step of the mount itself.                                             *)
LEMMA MountTypes ==
    ASSUME AllTyped, IsWay(obase'), IsWay(res'), IsWay(prov'), IsWay(pending.byInode'), StampTyped',
           UNCHANGED <<fresh, ops>>,
           state' = state \/ state' \in {"up", "down", "refused"},
           job' = job \/ job'.at \in {"idle", "frozen", "flipped", "swapped", "rebasing"},
           torn' = torn \/ torn' \subseteq torn \cup {"rebase", "short"},
           faults' = faults \/ Fault
    PROVE  AllTyped'
<1>1. MemoryTyped'
  BY DEF MemoryTyped, IsWay
<1>2. state' \in {"up", "down", "refused"} /\ fresh' \in 1..(MaxInode + 1) /\ ops' \in 0..MaxOps
  BY DEF AllTyped, RangesTyped
<1>3. job'.at \in {"idle", "frozen", "flipped", "swapped", "rebasing"}
  BY DEF AllTyped, RangesTyped
<1>4. torn' \subseteq {"rebase", "stale", "short"}
  BY DEF AllTyped, RangesTyped
<1>5. faults' \in 0..MaxFaults
  <2>1. faults \in 0..MaxFaults /\ MaxFaults \in Nat
    BY OverlayAssumption DEF AllTyped, RangesTyped
  <2> QED  BY <2>1 DEF Fault
<1> QED  BY <1>1, <1>2, <1>3, <1>4, <1>5 DEF AllTyped, RangesTyped

(* What a step leaves alone.                                               *)
LEMMA Kept ==
    ASSUME AllTyped
    PROVE  /\ obase' = obase => IsWay(obase')
           /\ res' = res => IsWay(res')
           /\ prov' = prov => IsWay(prov')
           /\ pending' = pending => IsWay(pending.byInode')
           /\ stamp' = stamp => StampTyped'
<1>1. IsWay(obase) /\ IsWay(res) /\ IsWay(prov) /\ IsWay(pending.byInode)
  BY DEF AllTyped, MemoryTyped
<1>2. stamp' = stamp => StampTyped'
  BY DEF AllTyped, StampTyped
<1> QED  BY <1>1, <1>2

LEMMA LookTypes ==
    ASSUME OverlayInv, AllTyped, NEW p \in Inodes, NEW n \in Names, Look(p, n)
    PROVE  AllTyped'
<1>1. UNCHANGED <<obase, pending, stamp, fresh, ops, state, job, torn, faults>> /\ Learn(Learnt(<<p, n>>))
  BY DEF Look, tables
<1>2. IsWay(Learnt(<<p, n>>))
  <2>1. <<p, n>> \in Slot
    BY DEF Slot
  <2> QED  BY <2>1, KnownWays
<1>3. IsWay(res) /\ IsWay(prov)
  BY DEF AllTyped, MemoryTyped
<1>4. IsWay(res') /\ IsWay(prov')
  BY <1>1, <1>2, <1>3, WayParts DEF Learn
<1> QED  BY <1>1, <1>4, Kept, MountTypes

LEMMA EvictTypes ==
    ASSUME AllTyped, NEW i \in Inodes, Evict(i)
    PROVE  AllTyped'
<1>1. UNCHANGED <<obase, prov, pending, stamp, fresh, ops, state, job, torn>> /\ Fault
      /\ res' = Without(res, {i})
  BY DEF Evict, tables
<1>2. IsWay(res')
  BY <1>1, WayParts DEF AllTyped, MemoryTyped
<1> QED  BY <1>1, <1>2, Kept, MountTypes

(* The steps of a checkpoint, and a crash.                                 *)
LEMMA FreezeTypes ==
    ASSUME OverlayInv, AllTyped, Freeze
    PROVE  AllTyped'
<1>1. UNCHANGED <<obase, res, prov, fresh, ops, state, torn, faults>> /\ pending' = Namespace
      /\ job'.at = "frozen" /\ stamp' = [i \in DOMAIN stamp |-> "before"]
  BY DEF Freeze, tables, memory
<1>2. IsWay(pending.byInode')
  BY <1>1, NamespaceTyped DEF OverlayInv
<1>3. StampTyped'
  BY <1>1 DEF AllTyped, StampTyped
<1> QED  BY <1>1, <1>2, <1>3, Kept, MountTypes

LEMMA SealAndSwapTypes ==
    ASSUME OverlayInv, AllTyped, SealFails \/ Flip \/ Swap \/ SwapFails \/ RebaseFails
    PROVE  AllTyped'
<1>1. UNCHANGED <<obase, prov, pending, stamp, fresh, ops, state>>
  BY DEF SealFails, Flip, Swap, SwapFails, RebaseFails, tables, memory
<1>2. job'.at \in {"idle", "frozen", "flipped", "swapped", "rebasing"}
  BY DEF SealFails, Flip, Swap, SwapFails, RebaseFails, Idle
<1>3. torn' = torn \/ torn' \subseteq torn \cup {"rebase", "short"}
  BY DEF SealFails, Flip, Swap, SwapFails, RebaseFails
<1>4. faults' = faults \/ Fault
  BY DEF SealFails, Flip, Swap, SwapFails, RebaseFails
<1>5. IsWay(res')
  <2>1. CASE Flip
    <3>1. PICK dirs : res' = Over(Retained(dirs), res)
      BY <2>1 DEF Flip
    <3>2. IsWay(Retained(dirs)) /\ IsWay(res)
      BY BaseIsTyped, RetainedTyped DEF AllTyped, MemoryTyped
    <3> QED  BY <3>1, <3>2, WayParts
  <2>2. CASE Swap
    <3>1. res' = Redescended(gens[Len(gens)])
      BY <2>2 DEF Swap
    <3>2. IsTree(gens[Len(gens)])
      <4>1. /\ Len(gens) \in Nat /\ served \in 1..Len(gens)
            /\ \A g \in 1..Len(gens) : IsTree(gens[g])
        BY DEF OverlayInv, GensTyped
      <4> QED  BY <4>1
    <3> QED  BY <3>1, <3>2, RedescendedTyped
  <2>3. CASE SealFails \/ SwapFails \/ RebaseFails
    BY <2>3, Kept DEF SealFails, SwapFails, RebaseFails, memory
  <2> QED  BY <2>1, <2>2, <2>3
<1> QED  BY <1>1, <1>2, <1>3, <1>4, <1>5, Kept, MountTypes

LEMMA RebaseStartTypes ==
    ASSUME AllTyped, RebaseStart
    PROVE  AllTyped'
<1> DEFINE edges == pending.byInode
           repin == Restrict(edges, Replayed)
<1>1. UNCHANGED <<obase, pending, stamp, fresh, ops, state, faults>> /\ Learn(repin)
      /\ job'.at = "rebasing" /\ torn' \subseteq torn \cup {"rebase", "short"}
  BY DEF RebaseStart, tables
<1>2. IsWay(edges) /\ IsWay(res) /\ IsWay(prov)
  BY DEF AllTyped, MemoryTyped
<1>3. Replayed \subseteq DOMAIN edges
  BY DEF Replayed
<1>4. IsWay(repin)
  <2> HIDE DEF edges
  <2> QED  BY <1>2, <1>3, WayParts
<1> HIDE DEF repin
<1>5. IsWay(res') /\ IsWay(prov')
  BY <1>1, <1>2, <1>4, WayParts DEF Learn
<1> QED  BY <1>1, <1>5, Kept, MountTypes

LEMMA BatchTypes ==
    ASSUME OverlayInv, AllTyped, Batch
    PROVE  AllTyped'
<1>1. UNCHANGED <<obase, res, prov, pending, stamp, fresh, ops, state, torn, faults>>
  BY DEF Batch, memory
<1>2. job'.at = "rebasing"
  <2>1. IsRebase(job)
    BY DEF Batch, OverlayInv, GensTyped
  <2> QED  BY <2>1 DEF Batch, IsRebase
<1> QED  BY <1>1, <1>2, Kept, MountTypes

LEMMA FinishTypes ==
    ASSUME AllTyped, Finish
    PROVE  AllTyped'
<1> DEFINE edges  == pending.byInode
           named  == {edge[e] : e \in DOMAIN edge}
           parted == job.cleaned \ Dirty
           gone   == (job.clean \cap DOMAIN edges) \ named
           some   == DOMAIN edges \ ({Root} \cup gone \cup job.lost)
<1>1. UNCHANGED <<res, fresh, ops, state, torn, faults>> /\ pending' = Nothing /\ job' = Idle
      /\ prov' = Without(prov, parted) /\ obase' = Over(Restrict(edges, some), Without(obase, gone))
      /\ stamp' = [i \in DOMAIN stamp \ parted |-> IF i \in job.cleaned THEN "before" ELSE stamp[i]]
  BY DEF Finish, Rechained
<1>2. IsWay(edges) /\ IsWay(obase) /\ IsWay(prov)
  BY DEF AllTyped, MemoryTyped
<1>3. StampTyped'
  <2> HIDE DEF parted
  <2> QED  BY <1>1 DEF AllTyped, StampTyped
<1>4. some \subseteq DOMAIN edges
  OBVIOUS
<1>5. job'.at = "idle" /\ IsWay(pending.byInode')
  BY <1>1, WayParts DEF Idle, Nothing
<1> HIDE DEF edges, parted, gone, some
<1>6. IsWay(obase')
  <2>1. IsWay(Restrict(edges, some)) /\ IsWay(Without(obase, gone))
    BY <1>2, <1>4, WayParts
  <2> QED  BY <1>1, <2>1, WayParts
<1>7. IsWay(prov')
  BY <1>1, <1>2, WayParts
<1> QED  BY <1>1, <1>3, <1>5, <1>6, <1>7, Kept, MountTypes

LEMMA CrashTypes ==
    ASSUME AllTyped, Crash \/ Reopen
    PROVE  AllTyped'
<1>1. CASE Crash
  <2>1. UNCHANGED <<obase, fresh, ops>> /\ Fault /\ state' = "down" /\ job' = Idle
        /\ res' = NoWhere /\ prov' = NoWhere /\ stamp' = NoWhere /\ pending' = Nothing
        /\ torn' \subseteq torn \cup {"rebase", "short"}
    BY <1>1 DEF Crash, tables
  <2>2. job'.at = "idle"
    BY <2>1 DEF Idle
  <2>3. IsWay(res') /\ IsWay(prov') /\ IsWay(pending.byInode')
    BY <2>1, WayParts DEF Nothing
  <2>4. StampTyped'
    BY <2>1 DEF StampTyped, NoWhere
  <2> QED  BY <2>1, <2>2, <2>3, <2>4, Kept, MountTypes
<1>2. CASE Reopen
  <2>1. UNCHANGED <<obase, res, prov, pending, stamp, fresh, ops, job, torn, faults>>
        /\ state' \in {"up", "down", "refused"}
    BY <1>2 DEF Reopen, tables, memory
  <2> QED  BY <2>1, Kept, MountTypes
<1> QED  BY <1>1, <1>2

(* What every table, every way and the memory of the mount hold is what    *)
(* they should, whatever users, checkpoints and crashes do.                *)
THEOREM OverlayTyped == Spec => []TypeOK
<1>1. Init => AllTyped
  <2> SUFFICES ASSUME Init PROVE AllTyped
    OBVIOUS
  <2>1. MaxInode \in Nat /\ MaxOps \in Nat /\ MaxFaults \in Nat
    BY OverlayAssumption
  <2>2. fresh \in 1..(MaxInode + 1)
    <3>1. PICK t \in Trees : fresh = 1 + Cardinality(DOMAIN t.nodes)
      BY DEF Init
    <3>2. DOMAIN t.nodes \subseteq Inodes
      BY TreesAssumption, TreeParts DEF Rooted
    <3>3. IsFiniteSet(Inodes) /\ Cardinality(Inodes) = MaxInode
      BY <2>1, FS_Interval DEF Inodes
    <3>4. Cardinality(DOMAIN t.nodes) \in Nat /\ Cardinality(DOMAIN t.nodes) <= MaxInode
      BY <3>2, <3>3, FS_Subset, FS_CardinalityType
    <3> QED  BY <2>1, <3>1, <3>4
  <2>3. MemoryTyped
    BY WayParts DEF Init, MemoryTyped, Nothing
  <2>4. StampTyped
    BY DEF Init, StampTyped, NoWhere
  <2>5. RangesTyped
    BY <2>1, <2>2 DEF Init, RangesTyped, Idle
  <2> QED  BY <2>3, <2>4, <2>5 DEF AllTyped
<1>2. OverlayInv /\ AllTyped /\ [Next]_vars => AllTyped'
  <2> SUFFICES ASSUME OverlayInv, AllTyped, [Next]_vars PROVE AllTyped'
    OBVIOUS
  <2>1. CASE UNCHANGED vars
    <3>1. UNCHANGED <<obase, res, prov, pending, stamp, fresh, ops, job, state, torn, faults>>
      BY <2>1 DEF vars, tables, memory
    <3> QED  BY <3>1, Kept, MountTypes
  <2>2. CASE \E p \in Inodes, n \in Names :
               \/ \E node \in {Dir} \cup {File(d) : d \in Data} : Create(p, n, node)
               \/ Unlink(p, n)
               \/ Rmdir(p, n)
               \/ \E q \in Inodes, m \in Names : Rename(p, n, q, m)
               \/ \E i \in Inodes : Link(i, p, n)
               \/ Look(p, n)
    BY <2>2, CreateTypes, RemovalTypes, RenameTypes, LinkTypes, LookTypes
  <2>3. CASE \E i \in Inodes : (\E d \in Data : Write(i, d)) \/ Evict(i)
    BY <2>3, WriteTypes, EvictTypes
  <2>4. CASE Freeze \/ SealFails \/ Flip \/ Swap \/ SwapFails
    BY <2>4, FreezeTypes, SealAndSwapTypes
  <2>5. CASE RebaseStart \/ Batch \/ Finish \/ RebaseFails
    BY <2>5, RebaseStartTypes, BatchTypes, FinishTypes, SealAndSwapTypes
  <2>6. CASE Crash \/ Reopen
    BY <2>6, CrashTypes
  <2> QED  BY <2>1, <2>2, <2>3, <2>4, <2>5, <2>6 DEF Next
<1>3. OverlayInv /\ AllTyped => TypeOK
  BY TypesAre
<1> QED  BY <1>1, <1>2, <1>3, OverlayInvariant, PTL DEF Spec

=============================================================================
