------------------------ MODULE SessionThreadsProofs ------------------------
(***************************************************************************)
(* The threads of a session, for any number of writes, repacks, foreign    *)
(* generations and faults: no acknowledged write is lost but in the two    *)
(* windows AcknowledgedIsKept names, a seal publishes all that the mount   *)
(* shows, and a session that holds its branch can publish.                 *)
(***************************************************************************)
EXTENDS SessionThreads, TLAPS

-----------------------------------------------------------------------------
(* The inductive invariant: where the threads are.                         *)

Generation == [parent : Nat, tree : SUBSET Int, root : Nat]
Known      == DOMAIN gens
InFlip     == {"put", "flipped", "following"}
InMutex    == {"checked", "leased", "swapped", "retired", "opened"}
Points     == InSeal \cup InMutex \cup {"off", "waiting", "claimed", "sealed"}

Plans == {Off} \cup [at : {"looked", "claimed", "rewriting", "compared"}, plan : Known]
               \cup [at : InFlip, plan : Known, gen : Known]

SessionTypeOK ==
    /\ frontend \in Frontends
    /\ gens \in Seq(Generation) /\ head \in [Branches -> Known]
    /\ branch \in Branches /\ anchor \in Known /\ base \in Known /\ torn \subseteq Known
    /\ rows \subseteq Nat /\ written \in Nat
    /\ mu \in Threads \cup {Free} /\ pc \in [Threads -> Points]
    /\ repack \in Plans

(* Whoever seals, and a switch past its check, has the mutex.              *)
MutexInv ==
    /\ \A t \in Sealers : pc[t] \in InSeal \cup {"sealed"} => mu = t
    /\ \A t \in Askers : pc[t] # "sealed"
    /\ pc["switch"] \in InMutex => mu = "switch"

(* Only a browse session switches, and never once its context has ended;   *)
(* it does not repack; the exit path seals after the drain.                *)
FrontendInv ==
    /\ repack # Off => ~Browse
    /\ pc["switch"] # "off" => Browse /\ ~Cancelled
    /\ pc["exit"] # "off" => phase = "drained"

(* A switch goes to another branch, at a generation it has fetched.        *)
MoveInv ==
    /\ pc["switch"] # "off" => move.to \in Branches \ {branch} \/ pc["switch"] = "opened"
    /\ pc["switch"] \in InMutex \cup {"waiting"} => move.gen \in Known

TypesInv == SessionTypeOK /\ MutexInv /\ FrontendInv /\ MoveInv

-----------------------------------------------------------------------------
(* What the trees contain.                                                 *)

(* A root names one tree, and the next generation's is new.                *)
RootInv ==
    /\ \A g \in Known : gens[g].root \in 1..Len(gens)
    /\ \A f, g \in Known : gens[f].root = gens[g].root => Tree(f) = Tree(g)

(* What a seal froze is in what it puts; and until it has put, the head it *)
(* overwrites has no write of this session that the anchor does not have.  *)
SealInv ==
    \A t \in Sealers :
       /\ pc[t] \in {"frozen", "compared", "put", "sealed"} => seal.snap \subseteq Nat
       /\ pc[t] = "compared" => (\A w \in Tree(head[branch]) : w > 0 => w \in Tree(anchor))
       /\ pc[t] \in {"put", "sealed"} => seal.gen \in Known /\ seal.snap \subseteq Tree(seal.gen)
       /\ pc[t] = "put" => Tree(anchor) \subseteq Tree(seal.gen)

(* What a repack rewrites, the session still grows from.                   *)
RepackInv == repack # Off => Tree(repack.plan) \subseteq Tree(anchor)

IsPublished(w) == (\E b \in Branches : w \in Tree(head[b])) \/ (\E g \in torn : w \in Tree(g))

(* The exit path retires what it has sealed and what came in since; a      *)
(* switch, what came in since its check.                                   *)
ExitInv ==
    /\ pc["exit"] \in {"frozen", "compared", "put", "sealed"} => rows \subseteq seal.snap \cup late
    /\ pc["exit"] = "sealed" => \A w \in seal.snap : w > 0 => IsPublished(w)

SwitchInv == pc["switch"] \in {"checked", "leased", "swapped"} => rows \subseteq late

KeptInv == ExitInv /\ SwitchInv /\ AcknowledgedIsKept

-----------------------------------------------------------------------------
(* Where the anchor, the base and the head are.                            *)

(* The base is within the anchor and the rows, but for a switch between    *)
(* its swap and its new anchor.                                            *)
Shown == ov = "open" => Tree(base) \subseteq Tree(anchor) \cup rows

ServedInv ==
    /\ pc["switch"] \in {"swapped", "retired", "opened"} => base = move.gen
    /\ pc["switch"] \notin {"swapped", "retired"} => Shown
    /\ pc["switch"] = "opened" => anchor = base

(* The session holds the lease of its branch until it has left; a branch   *)
(* that somebody else holds too was taken over.                            *)
LeaseInv ==
    /\ branch \in held \/ phase = "gone"
    /\ held \cap rival \subseteq lost
    /\ pc["switch"] \in {"leased", "swapped", "retired"} => move.to \in held

Excused == phase # "serving" \/ ov = "dead" \/ Fenced \/ behind \/ torn # {}
Putting == \E t \in Sealers : pc[t] = "put"
SameRoot(f, g) == gens[f].root = gens[g].root

(* The anchor is the head, but while a flip of the session is on its way:  *)
(* a seal's will be adopted because it is the head; a repack's, if the     *)
(* anchor has its root, which says that no seal came between.              *)
HeadInv ==
    ~Excused =>
    /\ repack.at \notin InFlip /\ ~Putting => anchor = head[branch]
    /\ Putting => head[branch] = seal.gen /\ (repack # Off => repack.plan # seal.gen)
    /\ repack.at \in {"put", "flipped"} /\ ~Putting =>
          anchor = head[branch] \/ (head[branch] = repack.gen /\ SameRoot(repack.gen, anchor))
    /\ repack.at = "following" /\ ~Putting =>
          IF SameRoot(repack.gen, anchor) THEN repack.gen = head[branch] ELSE anchor = head[branch]
    /\ repack.at = "following" /\ Putting =>
          (SameRoot(repack.gen, seal.gen) => repack.gen = seal.gen)

SessionInv ==
    /\ TypesInv /\ RootInv /\ SealInv /\ RepackInv /\ KeptInv /\ ServedInv /\ LeaseInv /\ HeadInv

-----------------------------------------------------------------------------
(* Generations.                                                            *)

(* A new generation leaves those before it alone.                          *)
Grown(T, r) ==
    /\ gens' \in Seq(Generation)
    /\ Known' = Known \cup {NewRoot} /\ NewRoot \notin Known /\ NewRoot \in Nat
    /\ \A g \in Known : gens'[g] = gens[g] /\ gens[g] \in Generation /\ g < NewRoot
    /\ gens'[NewRoot].tree = T /\ gens'[NewRoot].root = r /\ Len(gens') = NewRoot

(* Publishing appends a generation.                                        *)
LEMMA Publishing ==
  ASSUME gens \in Seq(Generation), NEW p \in Known, NEW T \in SUBSET Int, NEW r \in Nat,
         gens' = Published(p, T, r)
  PROVE  Grown(T, r)
<1>1. [parent |-> p, tree |-> T, root |-> r] \in Generation
  BY DEF Generation, Known
<1> QED
  BY <1>1 DEF Published, Known, NewRoot, Grown

(* What a known generation is.                                             *)
LEMMA GenerationType ==
  ASSUME SessionTypeOK, NEW g \in Known
  PROVE  /\ g \in Nat /\ gens[g] \in Generation /\ Tree(g) \subseteq Int /\ gens[g].root \in Nat
         /\ NewRoot \in Int /\ NewRoot \in Nat
<1>1. gens \in Seq(Generation)
  BY DEF SessionTypeOK
<1>2. gens[g] \in Generation /\ g \in Nat /\ NewRoot \in Nat
  BY <1>1 DEF Known, NewRoot
<1> QED
  BY <1>2 DEF Generation, Tree

(* The three steps that publish: another client adds a write of its own,   *)
LEMMA RivalGrows ==
  ASSUME SessionTypeOK, NEW b \in Branches, RivalSeals(b)
  PROVE  Grown(Tree(head[b]) \cup {-NewRoot}, NewRoot)
<1>1. head[b] \in Known
  BY DEF SessionTypeOK
<1>2. Tree(head[b]) \cup {-NewRoot} \in SUBSET Int
  BY <1>1, GenerationType
<1> QED
  BY <1>1, <1>2, GenerationType, Publishing DEF RivalSeals, SessionTypeOK

(* a seal what it froze,                                                   *)
LEMMA PutGrows ==
  ASSUME SessionTypeOK, SealInv, NEW t \in Sealers, Put(t)
  PROVE  Grown(Tree(anchor) \cup seal.snap, NewRoot)
<1>1. anchor \in Known /\ seal.snap \subseteq Int
  BY DEF SessionTypeOK, SealInv, Put
<1> QED
  BY <1>1, GenerationType, Publishing DEF Put, SessionTypeOK

(* A repack under way has planned from a known generation.                 *)
LEMMA PlanType ==
  ASSUME SessionTypeOK, repack # Off
  PROVE  repack.plan \in Known /\ (repack.at \in InFlip => repack.gen \in Known)
BY DEF SessionTypeOK, Plans, InFlip, Off

(* What is known stays known.                                              *)
LEMMA KnownStays ==
  ASSUME gens' = gens
  PROVE  Known' = Known
BY DEF Known

(* What a repack has planned stays known.                                  *)
LEMMA PlansStay ==
  ASSUME SessionTypeOK, repack' = repack, gens' = gens \/ Known \subseteq Known'
  PROVE  repack' \in Plans'
<1>1. repack \in Plans /\ Known \subseteq Known'
  BY DEF SessionTypeOK, Known
<1> QED
  BY <1>1 DEF Plans

(* and a repack nothing at all.                                            *)
LEMMA RepackGrows ==
  ASSUME SessionTypeOK, RepackPut
  PROVE  Grown(Tree(repack.plan), gens[repack.plan].root) /\ repack.plan \in Known /\ repack # Off
<1>1. repack # Off
  BY DEF Off, RepackPut
<1> QED
  BY <1>1, PlanType, GenerationType, Publishing DEF RepackPut, SessionTypeOK

-----------------------------------------------------------------------------
(* The steps.                                                              *)

(* Every step keeps the threads in their places.                           *)
LEMMA TypesStep ==
  ASSUME TypesInv, SealInv, [Next]_vars
  PROVE  TypesInv'
<1> USE PlansStay, KnownStays DEF TypesInv, SessionTypeOK, MutexInv, FrontendInv, MoveInv,
   Points, InMutex, InSeal, InFlip, Branches, Askers, Sealers, Threads, Free, Off, Browse,
   Cancelled, Goto, volume, lease, place, overlay, exit, browser, history
<1>1. ASSUME NEW b \in Branches, RivalSeals(b) PROVE TypesInv'
  <2>1. Grown(Tree(head[b]) \cup {-NewRoot}, NewRoot)
    BY <1>1, RivalGrows
  <2> QED
    BY <1>1, <2>1 DEF RivalSeals, Landed, NewRoot, Grown
<1>2. ASSUME Write
      PROVE  TypesInv'
  BY <1>2 DEF Write, Looked
<1>3. ASSUME (\E b \in Branches : Rival(b) /\ ~RivalSeals(b))
      PROVE  TypesInv'
  BY <1>3, ZenonT(60) DEF Rival, RivalTakes, RivalLeaves, Conflict
<1>4. ASSUME Tick \/ ButtonPublish \/ IdlePublish PROVE TypesInv'
  <2>1. ASSUME NEW t \in Askers, Ask(t), t = "page" => ~Cancelled PROVE TypesInv'
    BY <2>1 DEF Ask
  <2> QED
    BY <1>4, <2>1 DEF Tick, ButtonPublish, IdlePublish
<1>5. ASSUME Browser(Attach) \/ Browser(Detach) \/ Browser(WindowPasses)
      PROVE  TypesInv'
  BY <1>5, ZenonT(60) DEF Browser, Attach, Detach, WindowPasses
<1>6. ASSUME NEW t \in Sealers, Begin(t) PROVE TypesInv'
  <2> DEFINE Over == mu' = Free /\ pc' = [pc EXCEPT ![t] = "off"]
                     /\ phase' = IF t = "exit" THEN "closing" ELSE phase
             Entered == mu' = t /\ pc' = [pc EXCEPT ![t] = "fenced"] /\ phase' = phase
  <2>1. Over \/ Entered
    BY <1>6 DEF Begin, FailSeal, EndSeal
  <2>2. pc[t] \in {"off", "waiting"} /\ (t = "exit" => pc[t] = "waiting") /\ mu = Free
    BY <1>6 DEF Begin, Asked
  <2>3. UNCHANGED <<frontend, volume, lease, place, overlay, up, move, repack, torn>>
    BY <1>6 DEF Begin, FailSeal
  <2>4. SessionTypeOK'
    BY <2>1, <2>3
  <2>5. MutexInv'
    BY <2>1, <2>2
  <2>6. FrontendInv' /\ MoveInv'
    BY <2>1, <2>2, <2>3
  <2> QED
    BY <2>4, <2>5, <2>6
<1>7. ASSUME NEW t \in Sealers, Freeze(t)
      PROVE  TypesInv'
  BY <1>7, ZenonT(60) DEF Freeze, FailSeal, EndSeal
<1>8. ASSUME NEW t \in Sealers, Compare(t)
      PROVE  TypesInv'
  BY <1>8, ZenonT(60) DEF Compare, FailSeal, EndSeal
<1>9. ASSUME NEW t \in Sealers, Put(t) PROVE TypesInv'
  <2>1. Grown(Tree(anchor) \cup seal.snap, NewRoot)
    BY <1>9, PutGrows
  <2> QED
    BY <1>9, <2>1 DEF Put, Landed, NewRoot, Grown
<1>10. ASSUME NEW t \in Sealers, Finish(t) PROVE TypesInv'
  <2>1. anchor' \in Known /\ base' \in Known /\ rows' \subseteq Nat
    BY <1>10 DEF Finish, FailSeal, SealInv
  <2>2. CASE EndSeal(t)
    BY <1>10, <2>1, <2>2 DEF Finish, FailSeal, EndSeal
  <2>3. CASE t = "exit" /\ Goto(t, "sealed") /\ UNCHANGED <<phase, mu>>
    BY <1>10, <2>1, <2>3 DEF Finish, FailSeal, EndSeal
  <2> QED
    BY <1>10, <2>2, <2>3 DEF Finish, FailSeal
<1>11. ASSUME SwitchClaim
      PROVE  TypesInv'
  BY <1>11 DEF SwitchClaim, JobRunning
<1>12. ASSUME SwitchFetch
      PROVE  TypesInv'
  BY <1>12 DEF SwitchFetch
<1>13. ASSUME SwitchLock
      PROVE  TypesInv'
  BY <1>13 DEF SwitchLock, EndSwitch
<1>14. ASSUME SwitchLease
      PROVE  TypesInv'
  BY <1>14 DEF SwitchLease, EndSwitch
<1>15. ASSUME SwitchSwap
      PROVE  TypesInv'
  BY <1>15 DEF SwitchSwap, Abandon, EndSwitch
<1>16. ASSUME SwitchRetire
      PROVE  TypesInv'
  BY <1>16 DEF SwitchRetire
<1>17. ASSUME SwitchOpen
      PROVE  TypesInv'
  BY <1>17 DEF SwitchOpen, Abandon, EndSwitch
<1>18. ASSUME SwitchRelease
      PROVE  TypesInv'
  BY <1>18 DEF SwitchRelease, EndSwitch
<1>19. ASSUME RepackLook \/ RepackClaim \/ RepackFetch \/ RepackCompare \/ RepackVerify \/
             FollowAdopt \/ RepackDrop
      PROVE  TypesInv'
  BY <1>19 DEF Plans, RepackLook, RepackClaim, RepackFetch, RepackCompare, RepackVerify,
     StepRepack, FollowAdopt, RepackDrop
<1>20. ASSUME RepackPut PROVE TypesInv'
  <2>1. Grown(Tree(repack.plan), gens[repack.plan].root) /\ repack.plan \in Known /\ repack # Off
    BY <1>20, RepackGrows
  <2> QED
    BY <1>20, <2>1 DEF Plans, RepackPut, Landed, NewRoot, Grown
<1>21. ASSUME FollowFetch PROVE TypesInv'
  <2>1. repack # Off /\ repack.plan \in Known /\ repack.at \in InFlip
    BY <1>21, PlanType DEF FollowFetch
  <2>2. head[branch] \in Known
    OBVIOUS
  <2>3. repack' = [at |-> "following", plan |-> repack.plan, gen |-> head[branch]]
    BY <1>21, <2>1 DEF Plans, FollowFetch, StepRepack
  <2> QED
    BY <1>21, <2>1, <2>2, <2>3 DEF Plans, FollowFetch, StepRepack
<1>22. ASSUME BeginTeardown \/ ServerStops \/ StopSession
      PROVE  TypesInv'
  BY <1>22, ZenonT(60) DEF BeginTeardown, ServerStops, StepExit, StopSession, JobRunning
<1>23. ASSUME Drain \/ Retire
      PROVE  TypesInv'
  BY <1>23, ZenonT(60) DEF Drain, Retire, EndSeal
<1>24. ASSUME CloseOverlay \/ Leave
      PROVE  TypesInv'
  BY <1>24, ZenonT(60) DEF Plans, CloseOverlay, Leave
<1>25. CASE UNCHANGED vars
  BY <1>25 DEF vars
<1> QED
  BY <1>1, <1>2, <1>3, <1>4, <1>5, <1>6, <1>7, <1>8, <1>9, <1>10, <1>11, <1>12, <1>13, <1>14,
     <1>15, <1>16, <1>17, <1>18, <1>19, <1>20, <1>21, <1>22, <1>23, <1>24, <1>25
  DEF Next, Rival, Sealing, Switching, Repack, Exit

(* Every step keeps what a seal and a repack know of the trees.            *)
LEMMA SealStep ==
  ASSUME TypesInv, FrontendInv, RootInv, SealInv, RepackInv, [Next]_vars
  PROVE  SealInv' /\ RepackInv'
<1> USE DEF TypesInv, SessionTypeOK, MutexInv, SealInv, RepackInv, RootInv, Known, Points,
      Tree, SameRoot, InFlip, InSeal, Branches, Askers, Sealers, Threads, Free, Off, Goto,
      volume, lease, place, overlay, exit, browser, history
<1>1. ASSUME NEW b \in Branches, RivalSeals(b) PROVE SealInv' /\ RepackInv'
  <2>1. Grown(Tree(head[b]) \cup {-NewRoot}, NewRoot)
    BY <1>1, RivalGrows
  <2>2. UNCHANGED <<place, overlay, mu, history>>
    BY <1>1 DEF RivalSeals
  <2>3. UNCHANGED <<seal, pc, repack>> /\ head' = [head EXCEPT ![b] = NewRoot]
    BY <1>1 DEF RivalSeals, Landed, NewRoot
  <2> HIDE DEF Known, NewRoot
  <2>4. \A g \in Known : Tree(g)' = Tree(g) /\ g \in Known'
    BY <2>1 DEF Grown
  <2>5. \A w \in Tree(head[branch])' : w > 0 => w \in Tree(head[branch])
    <3>1. CASE b = branch
      <4>1. Tree(head[branch])' = Tree(head[branch]) \cup {-NewRoot}
        BY <2>1, <2>2, <2>3, <3>1 DEF Grown
      <4> QED
        BY <2>1, <4>1 DEF Grown
    <3>2. CASE b # branch
      BY <2>2, <2>3, <2>4, <3>2
    <3> QED
      BY <3>1, <3>2
  <2>6. RepackInv'
    BY <2>2, <2>3, <2>4, PlanType
  <2> QED
    BY <2>2, <2>3, <2>4, <2>5, <2>6
<1>2. ASSUME Write \/ (\E b \in Branches : Rival(b) /\ ~RivalSeals(b)) \/ Tick \/
             ButtonPublish \/ IdlePublish \/ Browser(Attach) \/ Browser(Detach) \/
             Browser(WindowPasses)
      PROVE  SealInv' /\ RepackInv'
  BY <1>2, SMTT(30) DEF Write, Looked, Rival, RivalTakes, RivalLeaves, Conflict, Tick,
     ButtonPublish, IdlePublish, Ask, Askers, Sealers, JobRunning, Browser, Attach, Detach,
     WindowPasses
<1>3. ASSUME NEW t \in Sealers, Begin(t) \/ Compare(t) \/ Finish(t)
      PROVE  SealInv' /\ RepackInv'
  BY <1>3 DEF Begin, Asked, FailSeal, EndSeal, NothingToSeal, Compare, Finish
<1>4. ASSUME NEW t \in Sealers, Freeze(t) PROVE SealInv' /\ RepackInv'
  <2>1. mu = t
    BY <1>4 DEF Freeze
  <2>2. RepackInv'
    BY <1>4 DEF Freeze, FailSeal, EndSeal
  <2>3. \A u \in Sealers : pc'[u] \in InSeal \cup {"sealed"} => u = t /\ pc'[u] = "frozen"
    BY <1>4, <2>1 DEF Freeze, FailSeal, EndSeal
  <2>4. (\E u \in Sealers : pc'[u] = "frozen") => seal'.snap = rows
    BY <1>4, <2>1 DEF Freeze, FailSeal, EndSeal
  <2>5. SealInv'
    BY <2>3, <2>4
  <2> QED
    BY <2>2, <2>5
<1>5. ASSUME NEW t \in Sealers, Put(t) PROVE SealInv' /\ RepackInv'
  <2>1. Grown(Tree(anchor) \cup seal.snap, NewRoot)
    BY <1>5, PutGrows
  <2>2. UNCHANGED <<anchor, repack>> /\ anchor \in Known /\ seal.snap \subseteq Nat /\ mu = t
    BY <1>5 DEF Put
  <2>3. /\ seal'.snap = seal.snap /\ seal'.gen = NewRoot
        /\ \A u \in Sealers : pc'[u] \in InSeal \cup {"sealed"} => u = t /\ pc'[u] = "put"
    BY <1>5, <2>2 DEF Put
  <2> HIDE DEF Known, NewRoot
  <2>4. \A g \in Known : Tree(g)' = Tree(g)
    BY <2>1 DEF Grown
  <2>5. gens'[NewRoot].tree = Tree(anchor) \cup seal.snap /\ NewRoot \in Known'
    BY <2>1 DEF Grown
  <2>6. SealInv'
    BY <2>2, <2>3, <2>4, <2>5
  <2>7. RepackInv'
    BY <2>2, <2>4, PlanType
  <2> QED
    BY <2>6, <2>7
<1>6. ASSUME SwitchClaim \/ SwitchFetch \/ SwitchLock \/ SwitchLease \/ SwitchSwap \/
             SwitchRetire \/ SwitchRelease
      PROVE  SealInv' /\ RepackInv'
  BY <1>6, SMTT(30) DEF SwitchClaim, JobRunning, SwitchFetch, SwitchLock, EndSwitch,
     SwitchLease, SwitchSwap, Abandon, SwitchRetire, SwitchRelease
<1>7. ASSUME SwitchOpen PROVE SealInv' /\ RepackInv'
  <2>1. repack = Off /\ \A t \in Sealers : pc'[t] \notin InSeal \cup {"sealed"}
    BY <1>7 DEF SwitchOpen, Abandon, EndSwitch, FrontendInv, InMutex
  <2>2. UNCHANGED <<repack>>
    BY <1>7 DEF SwitchOpen
  <2> QED
    BY <2>1, <2>2
<1>8. ASSUME RepackLook \/ RepackClaim \/ RepackFetch \/ RepackCompare \/ RepackVerify
      PROVE  SealInv' /\ RepackInv'
  BY <1>8, SMTT(30) DEF Plans, RepackLook, RepackClaim, RepackFetch, RepackCompare,
     RepackVerify, StepRepack
<1>9. ASSUME RepackPut PROVE SealInv' /\ RepackInv'
  <2>1. Grown(Tree(repack.plan), gens[repack.plan].root) /\ repack.plan \in Known /\ repack # Off
    BY <1>9, RepackGrows
  <2> HIDE DEF Known
  <2> QED
    BY <1>9, <2>1 DEF RepackPut, Landed, NewRoot, Grown
<1>10. ASSUME FollowFetch
      PROVE  SealInv' /\ RepackInv'
  BY <1>10, SMTT(30) DEF Plans, FollowFetch, StepRepack
<1>11. ASSUME FollowAdopt \/ RepackDrop
      PROVE  SealInv' /\ RepackInv'
  BY <1>11 DEF FollowAdopt, RepackDrop
<1>12. ASSUME BeginTeardown \/ ServerStops \/ StopSession \/ Drain \/ Retire \/ CloseOverlay
             \/ Leave
      PROVE  SealInv' /\ RepackInv'
  BY <1>12 DEF BeginTeardown, ServerStops, StepExit, StopSession, JobRunning, Drain, Retire,
     EndSeal, CloseOverlay, Leave
<1>13. CASE UNCHANGED vars
  BY <1>13 DEF vars
<1> QED
  BY <1>1, <1>2, <1>3, <1>4, <1>5, <1>6, <1>7, <1>8, <1>9, <1>10, <1>11, <1>12, <1>13
  DEF Next, Rival, Sealing, Switching, Repack, Exit

(* What is published stays published: under a seal of another client,      *)
LEMMA RivalKeeps ==
  ASSUME TypesInv, NEW b \in Branches, RivalSeals(b), NEW w \in Nat, IsPublished(w)
  PROVE  IsPublished(w)'
<1> USE DEF TypesInv, SessionTypeOK
<1>1. Grown(Tree(head[b]) \cup {-NewRoot}, NewRoot)
  BY RivalGrows
<1>2. head' = [head EXCEPT ![b] = NewRoot] /\ torn' = torn
  BY DEF RivalSeals, Landed, NewRoot, history
<1>3. \A g \in Known : Tree(g)' = Tree(g)
  BY <1>1 DEF Grown, Tree
<1>4. Tree(head[b]) \subseteq Tree(head[b])'
  BY <1>1, <1>2 DEF Grown, Tree
<1>5. \A c \in Branches : Tree(head[c]) \subseteq Tree(head[c])'
  BY <1>2, <1>3, <1>4
<1> QED
  BY <1>2, <1>3, <1>5 DEF IsPublished

(* under a seal of this session, which has in its anchor whatever of its   *)
(* own the head has,                                                       *)
LEMMA PutKeeps ==
  ASSUME TypesInv, SealInv, NEW t \in Sealers, Put(t), NEW w \in Nat, w > 0, IsPublished(w)
  PROVE  IsPublished(w)'
<1> USE DEF TypesInv, SessionTypeOK
<1>1. Grown(Tree(anchor) \cup seal.snap, NewRoot)
  BY PutGrows
<1>2. /\ head' = [head EXCEPT ![branch] = NewRoot]
      /\ torn' = torn /\ branch' = branch
  BY DEF Put, Landed, NewRoot, history, place
<1>3. \A g \in Known : Tree(g)' = Tree(g)
  BY <1>1 DEF Grown, Tree
<1>4. w \in Tree(head[branch]) => w \in Tree(head[branch])'
  <2>1. w \in Tree(head[branch]) => w \in Tree(anchor)
    BY DEF Put, SealInv
  <2> QED
    BY <1>1, <1>2, <2>1 DEF Grown, Tree
<1>5. \A c \in Branches \ {branch} : w \in Tree(head[c]) => w \in Tree(head[c])'
  BY <1>2, <1>3
<1> QED
  BY <1>2, <1>3, <1>4, <1>5 DEF IsPublished

(* and under the repack, which has it in its plan unless torn says so.     *)
LEMMA RepackKeeps ==
  ASSUME TypesInv, RepackPut, NEW w \in Nat, IsPublished(w)
  PROVE  IsPublished(w)'
<1> USE DEF TypesInv, SessionTypeOK
<1>1. Grown(Tree(repack.plan), gens[repack.plan].root) /\ repack.plan \in Known
  BY RepackGrows
<1>2. /\ head' = [head EXCEPT ![branch] = NewRoot]
      /\ torn' = torn \cup ({head[branch]} \ {repack.plan}) /\ branch' = branch
  BY DEF RepackPut, Landed, NewRoot, place
<1>3. \A g \in Known : Tree(g)' = Tree(g)
  BY <1>1 DEF Grown, Tree
<1>4. w \in Tree(head[branch]) => w \in Tree(head[branch])' \/ \E g \in torn' : w \in Tree(g)'
  <2>1. CASE head[branch] = repack.plan
    BY <1>1, <1>2, <2>1 DEF Grown, Tree
  <2>2. CASE head[branch] # repack.plan
    BY <1>2, <1>3, <2>2
  <2> QED
    BY <2>1, <2>2
<1>5. \A c \in Branches \ {branch} : w \in Tree(head[c]) => w \in Tree(head[c])'
  BY <1>2, <1>3
<1> QED
  BY <1>2, <1>3, <1>4, <1>5 DEF IsPublished

(* Every step keeps the acknowledged writes.                               *)
LEMMA KeptStep ==
  ASSUME TypesInv, FrontendInv, SealInv, KeptInv, [Next]_vars
  PROVE  KeptInv'
<1> USE DEF TypesInv, SessionTypeOK, MutexInv, KeptInv, ExitInv, SwitchInv,
      AcknowledgedIsKept, IsPublished, Known, Tree, InSeal, InMutex, Points, Branches,
      Askers, Sealers, Threads, Free, Off, Goto, volume, lease, place, overlay, exit,
      browser, history
<1>1. ASSUME NEW b \in Branches, RivalSeals(b) PROVE KeptInv'
  <2> HIDE DEF IsPublished, ExitInv, SwitchInv, AcknowledgedIsKept
  <2>1. \A w \in Nat : w > 0 /\ IsPublished(w) => IsPublished(w)'
    BY <1>1, RivalKeeps
  <2>2. UNCHANGED <<written, rows, late>>
    BY <1>1 DEF RivalSeals
  <2>3. ExitInv'
    BY <1>1, <2>1, <2>2 DEF RivalSeals, ExitInv, SealInv
  <2>4. SwitchInv'
    BY <1>1, <2>2 DEF RivalSeals, SwitchInv
  <2>5. AcknowledgedIsKept'
    BY <2>1, <2>2 DEF AcknowledgedIsKept, IsPublished
  <2> QED
    BY <2>3, <2>4, <2>5
<1>2. ASSUME Write
      PROVE  KeptInv'
  BY <1>2 DEF Write, Looked
<1>3. ASSUME (\E b \in Branches : Rival(b) /\ ~RivalSeals(b)) \/ Tick \/ ButtonPublish \/
             IdlePublish \/ Browser(Attach) \/ Browser(Detach) \/ Browser(WindowPasses)
      PROVE  KeptInv'
  BY <1>3 DEF Rival, RivalTakes, RivalLeaves, Conflict, Tick, ButtonPublish, IdlePublish, Ask,
     Askers, Sealers, JobRunning, Browser, Attach, Detach, WindowPasses
<1>4. ASSUME NEW t \in Sealers, Begin(t)
      PROVE  KeptInv'
  BY <1>4 DEF Begin, Asked, FailSeal, EndSeal, NothingToSeal
<1>5. ASSUME NEW t \in Sealers, Freeze(t)
      PROVE  KeptInv'
  BY <1>5 DEF Freeze, FailSeal, EndSeal
<1>6. ASSUME NEW t \in Sealers, Compare(t)
      PROVE  KeptInv'
  BY <1>6 DEF Compare, FailSeal, EndSeal
<1>7. ASSUME NEW t \in Sealers, Put(t) PROVE KeptInv'
  <2> HIDE DEF IsPublished, ExitInv, SwitchInv, AcknowledgedIsKept
  <2>1. \A w \in Nat : w > 0 /\ IsPublished(w) => IsPublished(w)'
    BY <1>7, PutKeeps
  <2>2. UNCHANGED <<written, rows, late>>
    BY <1>7 DEF Put
  <2>3. ExitInv'
    BY <1>7, <2>1, <2>2 DEF Put, ExitInv, SealInv
  <2>4. SwitchInv'
    BY <1>7, <2>2 DEF Put, SwitchInv
  <2>5. AcknowledgedIsKept'
    BY <2>1, <2>2 DEF AcknowledgedIsKept, IsPublished
  <2> QED
    BY <2>3, <2>4, <2>5
<1>8. ASSUME NEW t \in Sealers, Finish(t) PROVE KeptInv'
  <2>1. UNCHANGED <<gens, head, torn, written, late, branch>>
    BY <1>8 DEF Finish, FailSeal
  <2>2. \/ rows' = rows
        \/ rows' = rows \ seal.snap /\ head[branch] = seal.gen
    BY <1>8 DEF Finish, FailSeal
  <2>3. seal.gen \in Known /\ seal.snap \subseteq Tree(seal.gen)
    BY <1>8 DEF Finish, SealInv
  <2>4. AcknowledgedIsKept'
    BY <2>1, <2>2, <2>3
  <2>5. SwitchInv'
    BY <1>8, <2>1, <2>2 DEF Finish, FailSeal, EndSeal
  <2>6. CASE t = "exit" /\ pc'["exit"] = "sealed"
    <3>1. UNCHANGED <<rows, seal>> /\ head[branch] = seal.gen
      BY <1>8, <2>6 DEF Finish, FailSeal, EndSeal
    <3> QED
      BY <1>8, <2>1, <2>3, <2>4, <2>5, <2>6, <3>1 DEF Finish
  <2>7. CASE ~(t = "exit" /\ pc'["exit"] = "sealed")
    <3>1. pc'["exit"] \notin InSeal \cup {"sealed"}
      BY <1>8, <2>7 DEF Finish, FailSeal, EndSeal
    <3> QED
      BY <2>4, <2>5, <3>1
  <2> QED
    BY <2>6, <2>7
<1>9. ASSUME SwitchClaim \/ SwitchFetch \/ SwitchLock
      PROVE  KeptInv'
  BY <1>9 DEF SwitchClaim, JobRunning, SwitchFetch, SwitchLock, EndSwitch
<1>10. ASSUME SwitchLease \/ SwitchSwap
      PROVE  KeptInv'
  BY <1>10 DEF SwitchLease, EndSwitch, SwitchSwap, Abandon
<1>11. ASSUME SwitchRetire
      PROVE  KeptInv'
  BY <1>11 DEF SwitchRetire
<1>12. ASSUME SwitchOpen \/ SwitchRelease
      PROVE  KeptInv'
  BY <1>12 DEF SwitchOpen, Abandon, EndSwitch, SwitchRelease
<1>13. ASSUME RepackLook \/ RepackClaim \/ RepackFetch \/ RepackCompare \/ RepackVerify \/
             FollowFetch \/ FollowAdopt \/ RepackDrop
      PROVE  KeptInv'
  BY <1>13 DEF RepackLook, RepackClaim, RepackFetch, RepackCompare, RepackVerify, StepRepack,
     FollowFetch, FollowAdopt, RepackDrop
<1>14. ASSUME RepackPut PROVE KeptInv'
  <2> HIDE DEF IsPublished, ExitInv, SwitchInv, AcknowledgedIsKept
  <2>1. \A w \in Nat : w > 0 /\ IsPublished(w) => IsPublished(w)'
    BY <1>14, RepackKeeps
  <2>2. UNCHANGED <<written, rows, late>>
    BY <1>14 DEF RepackPut
  <2>3. ExitInv'
    BY <1>14, <2>1, <2>2 DEF RepackPut, ExitInv, SealInv
  <2>4. SwitchInv'
    BY <1>14, <2>2 DEF RepackPut, SwitchInv
  <2>5. AcknowledgedIsKept'
    BY <2>1, <2>2 DEF AcknowledgedIsKept, IsPublished
  <2> QED
    BY <2>3, <2>4, <2>5
<1>15. ASSUME BeginTeardown \/ ServerStops \/ StopSession \/ Drain
      PROVE  KeptInv'
  BY <1>15 DEF BeginTeardown, ServerStops, StepExit, StopSession, JobRunning, Drain
<1>16. ASSUME Retire PROVE KeptInv'
  <2>1. UNCHANGED <<gens, head, torn, written, late>> /\ rows' = {} /\ pc'["exit"] = "off"
    BY <1>16 DEF Retire, EndSeal
  <2>2. rows \subseteq seal.snap \cup late /\ \A w \in seal.snap : w > 0 => IsPublished(w)
    BY <1>16 DEF Retire
  <2>3. AcknowledgedIsKept'
    BY <2>1, <2>2
  <2>4. pc["switch"] \notin InMutex /\ pc'["switch"] = pc["switch"]
    BY <1>16 DEF Retire, EndSeal
  <2> QED
    BY <2>1, <2>3, <2>4
<1>17. ASSUME CloseOverlay \/ Leave
      PROVE  KeptInv'
  BY <1>17 DEF CloseOverlay, Leave
<1>18. CASE UNCHANGED vars
  BY <1>18 DEF vars
<1> QED
  BY <1>1, <1>2, <1>3, <1>4, <1>5, <1>6, <1>7, <1>8, <1>9, <1>10, <1>11, <1>12, <1>13, <1>14,
     <1>15, <1>16, <1>17, <1>18
  DEF Next, Rival, Sealing, Switching, Repack, Exit

(* Only these publish.                                                     *)
LEMMA WhoPublishes ==
  ASSUME [Next]_vars
  PROVE  \/ gens' = gens
         \/ \E b \in Branches : RivalSeals(b)
         \/ \E t \in Sealers : Put(t)
         \/ RepackPut
BY DEF Next, vars, volume, Write, Rival, Tick, ButtonPublish, IdlePublish, Ask, Browser, Begin,
   Sealing, Freeze, Compare, Finish, FailSeal, SwitchClaim, SwitchLock, Switching, SwitchFetch,
   SwitchLease, SwitchSwap, SwitchRetire, SwitchOpen, SwitchRelease, Repack, StepRepack,
   RepackLook, RepackClaim, RepackFetch, RepackCompare, RepackVerify, FollowFetch, FollowAdopt,
   RepackDrop, BeginTeardown, ServerStops, Exit, StepExit, StopSession, Drain, Retire,
   CloseOverlay, Leave

(* Every step keeps the roots.                                             *)
LEMMA RootStep ==
  ASSUME TypesInv, SealInv, RootInv, [Next]_vars
  PROVE  RootInv'
<1> USE DEF TypesInv, SessionTypeOK
<1>1. ASSUME NEW T, NEW r \in 1..NewRoot, Grown(T, r),
             \A g \in Known : gens[g].root = r => Tree(g) = T
      PROVE  RootInv'
  <2>1. /\ \A g \in Known : Tree(g)' = Tree(g) /\ gens'[g].root = gens[g].root
        /\ gens'[NewRoot].tree = T /\ gens'[NewRoot].root = r
    BY <1>1 DEF Grown, Tree
  <2>2. \A g \in Known' : gens'[g].root \in 1..Len(gens')
    <3>1. \A g \in Known : gens[g].root \in 1..NewRoot
      BY DEF RootInv, NewRoot
    <3> QED
      BY <1>1, <2>1, <3>1 DEF Grown
  <2>3. \A f, g \in Known : gens'[f].root = gens'[g].root => gens'[f].tree = gens'[g].tree
    BY <2>1 DEF RootInv, Tree
  <2>4. \A g \in Known : gens'[g].root = r => gens'[g].tree = T
    BY <1>1, <2>1 DEF Tree
  <2>5. Known' = Known \cup {NewRoot}
    BY <1>1 DEF Grown
  <2>6. \A f, g \in Known' : gens'[f].root = gens'[g].root => gens'[f].tree = gens'[g].tree
    BY <2>1, <2>3, <2>4, <2>5
  <2> QED
    BY <2>2, <2>6 DEF RootInv, Tree
<1>2. \A g \in Known : gens[g].root # NewRoot /\ NewRoot \in 1..NewRoot
  BY GenerationType DEF RootInv, NewRoot
<1>3. ASSUME NEW b \in Branches, RivalSeals(b) PROVE RootInv'
  BY <1>1, <1>2, <1>3, RivalGrows
<1>4. ASSUME NEW t \in Sealers, Put(t) PROVE RootInv'
  BY <1>1, <1>2, <1>4, PutGrows
<1>5. ASSUME RepackPut PROVE RootInv'
  <2>1. Grown(Tree(repack.plan), gens[repack.plan].root) /\ repack.plan \in Known
    BY <1>5, RepackGrows
  <2>2. gens[repack.plan].root \in 1..NewRoot
    BY <2>1, GenerationType DEF RootInv, NewRoot
  <2> QED
    BY <1>1, <2>1, <2>2 DEF RootInv
<1>6. ASSUME gens' = gens PROVE RootInv'
  BY <1>6 DEF RootInv, Known, Tree
<1> QED
  BY <1>3, <1>4, <1>5, <1>6, WhoPublishes

(* Every step keeps what is served within what the next seal publishes.    *)
LEMMA ServedStep ==
  ASSUME TypesInv, FrontendInv, MoveInv, SealInv, RootInv, ServedInv, [Next]_vars
  PROVE  ServedInv'
<1> USE DEF TypesInv, SessionTypeOK, MutexInv, FrontendInv, ServedInv, Shown, Tree, Known,
      InSeal, InMutex, Branches, Askers, Sealers, Threads, Free, Off, Goto, volume, lease,
      place, overlay, exit, browser, history
<1>1. ASSUME NEW b \in Branches, RivalSeals(b) PROVE ServedInv'
  <2>1. Grown(Tree(head[b]) \cup {-NewRoot}, NewRoot)
    BY <1>1, RivalGrows
  <2>2. UNCHANGED <<ov, rows, base, anchor, pc, move>>
    BY <1>1 DEF RivalSeals
  <2> HIDE DEF Known
  <2> QED
    BY <2>1, <2>2 DEF Grown
<1>2. ASSUME Write \/ (\E b \in Branches : Rival(b) /\ ~RivalSeals(b)) \/ Tick \/
             ButtonPublish \/ IdlePublish \/ Browser(Attach) \/ Browser(Detach) \/
             Browser(WindowPasses)
      PROVE  ServedInv'
  BY <1>2 DEF Write, Looked, Rival, RivalTakes, RivalLeaves, Conflict, Tick, ButtonPublish,
     IdlePublish, Ask, Askers, Sealers, JobRunning, Browser, Attach, Detach, WindowPasses
<1>3. ASSUME NEW t \in Sealers, Begin(t) \/ Freeze(t) \/ Compare(t)
      PROVE  ServedInv'
  BY <1>3 DEF Begin, Asked, FailSeal, EndSeal, NothingToSeal, Freeze, Compare
<1>4. ASSUME NEW t \in Sealers, Put(t) PROVE ServedInv'
  <2>1. Grown(Tree(anchor) \cup seal.snap, NewRoot)
    BY <1>4, PutGrows
  <2>2. UNCHANGED <<ov, rows, base, anchor, move>> /\ pc'["switch"] = pc["switch"]
    BY <1>4 DEF Put
  <2> HIDE DEF Known
  <2> QED
    BY <2>1, <2>2 DEF Grown
<1>5. ASSUME NEW t \in Sealers, Finish(t) PROVE ServedInv'
  <2>1. /\ UNCHANGED <<gens, head, ov, move>>
        /\ pc'["switch"] = pc["switch"] /\ pc["switch"] \notin InMutex
    BY <1>5 DEF Finish, FailSeal, EndSeal
  <2>2. \/ UNCHANGED <<anchor, base, rows>>
        \/ anchor' = seal.gen /\ UNCHANGED <<base, rows>>
        \/ anchor' = seal.gen /\ base' = seal.gen
    BY <1>5 DEF Finish, FailSeal
  <2>3. Tree(anchor) \subseteq Tree(seal.gen)
    BY <1>5 DEF Finish, SealInv
  <2> QED
    BY <2>1, <2>2, <2>3
<1>6. ASSUME SwitchClaim \/ SwitchFetch \/ SwitchLock \/ SwitchLease \/ SwitchSwap \/
             SwitchRetire \/ SwitchOpen \/ SwitchRelease
      PROVE  ServedInv'
  BY <1>6 DEF SwitchClaim, JobRunning, SwitchFetch, SwitchLock, EndSwitch, SwitchLease,
     SwitchSwap, Abandon, SwitchRetire, SwitchOpen, SwitchRelease
<1>7. ASSUME RepackLook \/ RepackClaim \/ RepackFetch \/ RepackCompare \/ RepackVerify \/
             FollowFetch \/ RepackDrop
      PROVE  ServedInv'
  BY <1>7 DEF RepackLook, RepackClaim, RepackFetch, RepackCompare, RepackVerify, StepRepack,
     FollowFetch, RepackDrop
<1>8. ASSUME RepackPut PROVE ServedInv'
  <2>1. Grown(Tree(repack.plan), gens[repack.plan].root)
    BY <1>8, RepackGrows
  <2>2. UNCHANGED <<ov, rows, base, anchor, pc, move>>
    BY <1>8 DEF RepackPut
  <2> HIDE DEF Known
  <2> QED
    BY <2>1, <2>2 DEF Grown
<1>9. ASSUME FollowAdopt PROVE ServedInv'
  <2>1. repack # Off /\ repack.gen \in Known
    BY <1>9, PlanType DEF FollowAdopt, InFlip
  <2>2. Tree(anchor') = Tree(anchor)
    BY <1>9, <2>1 DEF FollowAdopt, RootInv
  <2>3. pc["switch"] = "off"
    BY <2>1
  <2> QED
    BY <1>9, <2>2, <2>3 DEF FollowAdopt
<1>10. ASSUME BeginTeardown \/ ServerStops \/ StopSession \/ Drain \/ Retire \/ CloseOverlay
      PROVE  ServedInv'
  BY <1>10 DEF BeginTeardown, ServerStops, StepExit, StopSession, JobRunning, Drain, Retire,
     EndSeal, CloseOverlay
<1>11. ASSUME Leave PROVE ServedInv'
  <2>1. pc["switch"] = "off"
    BY <1>11 DEF Leave, Cancelled
  <2> QED
    BY <1>11, <2>1 DEF Leave
<1>12. CASE UNCHANGED vars
  BY <1>12 DEF vars
<1> QED
  BY <1>1, <1>2, <1>3, <1>4, <1>5, <1>6, <1>7, <1>8, <1>9, <1>10, <1>11, <1>12
  DEF Next, Rival, Sealing, Switching, Repack, Exit

(* Every step keeps the leases.                                            *)
LEMMA LeaseStep ==
  ASSUME TypesInv, LeaseInv, [Next]_vars
  PROVE  LeaseInv'
<1> USE DEF TypesInv, LeaseInv, MutexInv, FrontendInv, MoveInv, Cancelled, InSeal,
      InMutex, Branches, Askers, Sealers, Threads, Free, Off, Goto, volume, lease, place,
      overlay, exit, browser, history, SessionTypeOK
<1>1. ASSUME NEW b \in Branches, RivalSeals(b) PROVE LeaseInv'
  BY <1>1 DEF RivalSeals
<1>2. ASSUME Write \/ (\E b \in Branches : Rival(b) /\ ~RivalSeals(b)) \/ Tick \/
             ButtonPublish \/ IdlePublish \/ Browser(Attach) \/ Browser(Detach) \/
             Browser(WindowPasses)
      PROVE  LeaseInv'
  BY <1>2 DEF Write, Looked, Rival, RivalTakes, RivalLeaves, Conflict, Tick, ButtonPublish,
     IdlePublish, Ask, Askers, Sealers, JobRunning, Browser, Attach, Detach, WindowPasses
<1>3. ASSUME NEW t \in Sealers, Begin(t) \/ Freeze(t) \/ Compare(t) \/ Finish(t)
      PROVE  LeaseInv'
  BY <1>3 DEF Begin, Asked, FailSeal, EndSeal, NothingToSeal, Freeze, Compare, Finish
<1>4. ASSUME NEW t \in Sealers, Put(t) PROVE LeaseInv'
  BY <1>4 DEF Put, Landed, NewRoot
<1>5. ASSUME SwitchClaim \/ SwitchFetch \/ SwitchLock \/ SwitchLease \/ SwitchSwap \/
             SwitchRetire \/ SwitchOpen \/ SwitchRelease
      PROVE  LeaseInv'
  BY <1>5 DEF SwitchClaim, JobRunning, SwitchFetch, SwitchLock, EndSwitch, SwitchLease,
     SwitchSwap, Abandon, SwitchRetire, SwitchOpen, SwitchRelease
<1>6. ASSUME RepackLook \/ RepackClaim \/ RepackFetch \/ RepackCompare \/ RepackVerify \/
             FollowFetch \/ FollowAdopt \/ RepackDrop
      PROVE  LeaseInv'
  BY <1>6 DEF RepackLook, RepackClaim, RepackFetch, RepackCompare, RepackVerify, StepRepack,
     FollowFetch, FollowAdopt, RepackDrop
<1>7. ASSUME RepackPut PROVE LeaseInv'
  BY <1>7 DEF RepackPut, Landed, NewRoot
<1>8. ASSUME BeginTeardown \/ ServerStops \/ StopSession \/ Drain \/ Retire \/ CloseOverlay
             \/ Leave
      PROVE  LeaseInv'
  BY <1>8 DEF BeginTeardown, ServerStops, StepExit, StopSession, JobRunning, Drain, Retire,
     EndSeal, CloseOverlay, Leave
<1>9. CASE UNCHANGED vars
  BY <1>9 DEF vars
<1> QED
  BY <1>1, <1>2, <1>3, <1>4, <1>5, <1>6, <1>7, <1>8, <1>9
  DEF Next, Rival, Sealing, Switching, Repack, Exit

(* Every step keeps the anchor at the head, or knows why not.              *)
LEMMA HeadStep ==
  ASSUME TypesInv, SealInv, RootInv, LeaseInv, HeadInv, [Next]_vars
  PROVE  HeadInv'
<1> USE DEF TypesInv, SessionTypeOK, MutexInv, FrontendInv, HeadInv, Excused, Putting,
      SameRoot, Fenced, Known, InFlip, InSeal, InMutex, Branches, Askers, Sealers,
      Threads, Free, Off, Cancelled, Goto, volume, lease, place, overlay, exit, browser,
      history
<1>1. ASSUME NEW b \in Branches, RivalSeals(b) PROVE HeadInv'
  <2>1. Grown(Tree(head[b]) \cup {-NewRoot}, NewRoot)
    BY <1>1, RivalGrows
  <2>2. UNCHANGED <<phase, ov, behind, torn, repack, pc, seal, anchor, branch, lost>>
    BY <1>1 DEF RivalSeals
  <2>3. head' = [head EXCEPT ![b] = NewRoot]
    BY <1>1 DEF RivalSeals, Landed, NewRoot
  <2>4. b = branch /\ phase = "serving" => Fenced
    BY <1>1 DEF RivalSeals, LeaseInv
  <2> HIDE DEF Known
  <2> QED
    BY <2>1, <2>2, <2>3, <2>4, PlanType DEF Grown, SealInv
<1>2. ASSUME Write \/ (\E b \in Branches : Rival(b) /\ ~RivalSeals(b)) \/ Tick \/
             ButtonPublish \/ IdlePublish \/ Browser(Attach) \/ Browser(Detach) \/
             Browser(WindowPasses)
      PROVE  HeadInv'
  BY <1>2 DEF Write, Looked, Rival, RivalTakes, RivalLeaves, Conflict, Tick, ButtonPublish,
     IdlePublish, Ask, Askers, Sealers, JobRunning, Browser, Attach, Detach, WindowPasses
<1>3. ASSUME NEW t \in Sealers, Begin(t) \/ Freeze(t) \/ Compare(t) \/ Finish(t)
      PROVE  HeadInv'
  BY <1>3 DEF Begin, Asked, FailSeal, EndSeal, NothingToSeal, Freeze, Compare, Finish
<1>4. ASSUME NEW t \in Sealers, Put(t) PROVE HeadInv'
  <2>1. Grown(Tree(anchor) \cup seal.snap, NewRoot)
    BY <1>4, PutGrows
  <2>2. UNCHANGED <<phase, ov, behind, torn, repack, anchor, branch, lost>>
    BY <1>4 DEF Put
  <2>3. head' = [head EXCEPT ![branch] = NewRoot] /\ seal'.gen = NewRoot
    BY <1>4 DEF Put, Landed, NewRoot
  <2>4. Putting'
    BY <1>4 DEF Put
  <2>5. \A g \in Known : gens[g].root # NewRoot
    BY GenerationType DEF RootInv, NewRoot
  <2> HIDE DEF Known
  <2> QED
    BY <2>1, <2>2, <2>3, <2>4, <2>5, PlanType DEF Grown
<1>5. ASSUME SwitchClaim \/ SwitchFetch \/ SwitchLock \/ SwitchLease \/ SwitchRetire \/
             SwitchRelease
      PROVE  HeadInv'
  BY <1>5 DEF SwitchClaim, JobRunning, SwitchFetch, SwitchLock, EndSwitch, SwitchLease,
     SwitchRetire, SwitchRelease
<1>6. ASSUME SwitchSwap PROVE HeadInv'
  <2>1. Fenced => Fenced'
    BY <1>6 DEF SwitchSwap, Abandon, MoveInv
  <2>2. UNCHANGED <<gens, head, phase, ov, behind, torn, repack, seal, anchor, branch>>
    BY <1>6 DEF SwitchSwap
  <2>3. \A t \in Sealers : pc'[t] = pc[t]
    BY <1>6 DEF SwitchSwap, Abandon, EndSwitch
  <2> HIDE DEF Fenced
  <2> QED
    BY <2>1, <2>2, <2>3
<1>7. ASSUME SwitchOpen PROVE HeadInv'
  <2>1. repack' = Off /\ ~Putting'
    BY <1>7 DEF SwitchOpen, Abandon, EndSwitch
  <2>2. CASE ov' = "dead"
    BY <2>1, <2>2
  <2>3. CASE ov' # "dead"
    <3>1. /\ anchor' = move.gen /\ branch' = move.to
          /\ behind' = (head[move.to] # move.gen) /\ head' = head
      BY <1>7, <2>3 DEF SwitchOpen
    <3>2. behind' \/ anchor' = head'[branch']
      BY <3>1
    <3> QED
      BY <2>1, <3>2
  <2> QED
    BY <2>2, <2>3
<1>8. ASSUME RepackLook \/ RepackClaim \/ RepackFetch \/ RepackCompare \/ RepackVerify
      PROVE  HeadInv'
  BY <1>8 DEF Plans, RepackLook, RepackClaim, RepackFetch, RepackCompare, RepackVerify,
     StepRepack
<1>9. ASSUME RepackPut PROVE HeadInv'
  <2>1. Grown(Tree(repack.plan), gens[repack.plan].root) /\ repack.plan \in Known
    BY <1>9, RepackGrows
  <2>2. UNCHANGED <<phase, ov, behind, seal, pc, anchor, branch, lost>>
    BY <1>9 DEF RepackPut
  <2>3. /\ head' = [head EXCEPT ![branch] = NewRoot]
        /\ torn' = torn \cup ({head[branch]} \ {repack.plan})
        /\ repack' = [at |-> "put", plan |-> repack.plan, gen |-> NewRoot] /\ repack.at = "compared"
    BY <1>9 DEF RepackPut, Landed, NewRoot
  <2>4. Excused' \/ (~Excused /\ head[branch] = repack.plan)
    BY <2>2, <2>3
  <2>5. ~Excused' => ~Putting /\ anchor = head[branch]
    BY <2>3, <2>4
  <2> HIDE DEF Known
  <2> QED
    BY <2>1, <2>2, <2>3, <2>4, <2>5 DEF Grown
<1>10. ASSUME FollowFetch
      PROVE  HeadInv'
  BY <1>10 DEF FollowFetch, StepRepack
<1>11. ASSUME FollowAdopt
      PROVE  HeadInv'
  BY <1>11 DEF FollowAdopt
<1>12. ASSUME RepackDrop
      PROVE  HeadInv'
  BY <1>12 DEF RepackDrop
<1>13. ASSUME BeginTeardown \/ ServerStops \/ StopSession \/ Drain \/ Retire \/ CloseOverlay
             \/ Leave
      PROVE  HeadInv'
  BY <1>13 DEF BeginTeardown, ServerStops, StepExit, StopSession, JobRunning, Drain, Retire,
     EndSeal, CloseOverlay, Leave
<1>14. CASE UNCHANGED vars
  BY <1>14 DEF vars
<1> QED
  BY <1>1, <1>2, <1>3, <1>4, <1>5, <1>6, <1>7, <1>8, <1>9, <1>10, <1>11, <1>12, <1>13, <1>14
  DEF Next, Rival, Sealing, Switching, Repack, Exit

-----------------------------------------------------------------------------
(* The theorems.                                                           *)

(* The session starts with the invariant,                                  *)
LEMMA SessionInvInit ==
  ASSUME Init
  PROVE  SessionInv
<1> USE DEF Init, Off, Branches, Threads, Sealers, Askers, Free
<1>1. /\ gens \in Seq(Generation) /\ Known = {1} /\ Len(gens) = 1
      /\ gens[1].tree = {} /\ gens[1].root = 1
  BY DEF Generation, Known
<1>2. TypesInv
  BY <1>1 DEF TypesInv, SessionTypeOK, MutexInv, FrontendInv, MoveInv, Plans, Points, InSeal,
     InMutex
<1>3. RootInv /\ SealInv /\ RepackInv
  BY <1>1 DEF RootInv, SealInv, RepackInv, InSeal
<1>4. KeptInv /\ LeaseInv
  BY DEF KeptInv, ExitInv, SwitchInv, AcknowledgedIsKept, LeaseInv
<1>5. ServedInv /\ HeadInv
  BY <1>1 DEF ServedInv, Shown, Tree, HeadInv, Putting, InFlip
<1> QED
  BY <1>2, <1>3, <1>4, <1>5 DEF SessionInv

(* and keeps it.                                                           *)
LEMMA SessionInvStep ==
  ASSUME SessionInv, [Next]_vars
  PROVE  SessionInv'
<1> USE DEF SessionInv
<1>1. TypesInv' BY TypesStep
<1>2. RootInv' BY RootStep
<1>3. SealInv' /\ RepackInv' BY SealStep DEF TypesInv
<1>4. KeptInv' BY KeptStep DEF TypesInv
<1>5. ServedInv' BY ServedStep DEF TypesInv
<1>6. LeaseInv' BY LeaseStep
<1>7. HeadInv' BY HeadStep
<1> QED
  BY <1>1, <1>2, <1>3, <1>4, <1>5, <1>6, <1>7

(* The threads of a session stay in their places, for any bounds.          *)
LEMMA SessionInvariant == SessionSpec => []SessionInv
<1>1. Init => SessionInv
  BY SessionInvInit
<1>2. SessionInv /\ [Next]_vars => SessionInv'
  BY SessionInvStep
<1> QED
  BY <1>1, <1>2, PTL DEF SessionSpec

(* A write that was acknowledged is in the overlay or published, whichever *)
(* of the threads seal, switch, repack, fail or exit, but for the two      *)
(* windows the property names (sealLocked, switchBranch, sealAtExit).      *)
THEOREM AcknowledgedKept == SessionSpec => []AcknowledgedIsKept
<1>1. SessionInv => AcknowledgedIsKept
  BY DEF SessionInv, KeptInv
<1> QED
  BY <1>1, SessionInvariant, PTL

(* What the clients are shown is in what the next seal publishes: anchor   *)
(* and base never part, whoever moves them (sealLocked, followRepack,      *)
(* switchBranch).                                                          *)
THEOREM SealShowsAll == SessionSpec => []SealShowsWhatIsServed
<1>1. SessionInv => SealShowsWhatIsServed
  BY DEF SessionInv, TypesInv, MutexInv, InMutex, ServedInv, Shown, SealShowsWhatIsServed
<1> QED
  BY <1>1, SessionInvariant, PTL

(* A session that holds its branch has the head for its anchor, so its     *)
(* seals are not refused as conflicts with itself (sealLocked,             *)
(* followRepack).                                                          *)
THEOREM AnchorFollows == SessionSpec => []AnchorIsHead
<1>1. SessionInv => AnchorIsHead
  BY DEF SessionInv, HeadInv, Excused, Putting, InFlip, Threads, AnchorIsHead
<1> QED
  BY <1>1, SessionInvariant, PTL

=============================================================================
