----------------------------- MODULE MountedTree -----------------------------
(***************************************************************************)
(* What a writable mount promises: one tree of names and nodes that only   *)
(* the operations of its users change.  Checkpoints, generations, rebases, *)
(* crashes and reopenings are not part of it.                              *)
(***************************************************************************)
EXTENDS Integers, Functions

CONSTANTS
    Inodes,    \* inode numbers
    Names,     \* names in a directory
    Data       \* what a file may hold

VARIABLE tree    \* names: <<directory, name>> -> inode; nodes: inode -> what it is

Dir == [type |-> "dir", data |-> "none", links |-> 1]
File(d) == [type |-> "file", data |-> d, links |-> 1]

Of(t, type) == {i \in DOMAIN t.nodes : t.nodes[i].type = type}
Free(t) == (Of(t, "dir") \X Names) \ DOMAIN t.names

Without(f, x) == Restrict(f, DOMAIN f \ {x})
Put(f, x, v) == [y \in DOMAIN f \cup {x} |-> IF y = x THEN v ELSE f[y]]

(* The inodes at or below i: those of every closed set that i is in.       *)
Under(t, i) ==
    {x \in DOMAIN t.nodes :
        \A S \in SUBSET DOMAIN t.nodes :
            i \in S /\ (\A e \in DOMAIN t.names : e[1] \in S => t.names[e] \in S) => x \in S}

Removable(t, i) == t.nodes[i].type = "dir" => \A e \in DOMAIN t.names : e[1] # i

(* A name of i goes: the node goes with the last one.                      *)
Dropped(nodes, i) ==
    IF nodes[i].links > 1 THEN [nodes EXCEPT ![i].links = @ - 1] ELSE Without(nodes, i)

Create(t, u) ==
    \E e \in Free(t), i \in Inodes \ DOMAIN t.nodes, node \in {Dir} \cup {File(d) : d \in Data} :
        u = [names |-> Put(t.names, e, i), nodes |-> Put(t.nodes, i, node)]

Write(t, u) ==
    \E i \in Of(t, "file"), d \in Data : u = [t EXCEPT !.nodes[i].data = d]

Remove(t, u) ==
    \E e \in DOMAIN t.names :
        /\ Removable(t, t.names[e])
        /\ u = [names |-> Without(t.names, e), nodes |-> Dropped(t.nodes, t.names[e])]

Link(t, u) ==
    \E e \in Free(t), i \in Of(t, "file") :
        u = [names |-> Put(t.names, e, i), nodes |-> [t.nodes EXCEPT ![i].links = @ + 1]]

(* A rename replaces what it lands on, and never loses what it moves.      *)
Rename(t, u) ==
    \E from \in DOMAIN t.names, to \in (Of(t, "dir") \X Names) :
        LET i == t.names[from] IN
        /\ u.names = Put(Without(t.names, from), to, i)
        /\ to[1] \notin Under(t, i)
        /\ IF to \notin DOMAIN t.names THEN u.nodes = t.nodes
           ELSE LET j == t.names[to] IN
                /\ j # i /\ t.nodes[j].type = t.nodes[i].type /\ Removable(t, j)
                /\ u.nodes = Dropped(t.nodes, j)

Next ==
    \E t \in {tree}, u \in {tree'} :
        t = u \/ Create(t, u) \/ Write(t, u) \/ Remove(t, u) \/ Link(t, u) \/ Rename(t, u)

Moves == [][Next]_tree
=============================================================================
