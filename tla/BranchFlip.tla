------------------------------ MODULE BranchFlip ------------------------------
(***************************************************************************)
(* How a branch head moves: the object refs/<branch>, and the writers that *)
(* flip it (internal/publish/publish.go flip, internal/refs/refs.go Flip). *)
(*                                                                         *)
(* The store has no conditional Put, so a flip is check, then Put, then    *)
(* read back.  A sealer publishes with publish.flip (a writable mount, or  *)
(* a merge, graft or import): it compares the bytes of the head with the   *)
(* generation it grew from, and a mount keeps sealing on what it           *)
(* published.  A flipper is one command that publishes with refs.Flip      *)
(* (repack, fast-forward, branch, rotate, rescue): it compares the ETag of *)
(* the fetch its document was built on.  A generation is a number, minted  *)
(* when its document is built; every document, and its ETag, differs from  *)
(* every other.                                                            *)
(***************************************************************************)
EXTENDS Naturals, FiniteSets

CONSTANTS
    Sealers,      \* the writers that publish with publish.flip
    Flippers,     \* the writers that publish with refs.Flip
    MaxGen,       \* bound: how many generations are built
    ReadFaults,   \* whether a read or a stat of the head may fail
    PutFaults,    \* whether a Put may fail, before or after it landed
    ServesETags,  \* whether the origin serves ETags
    Deletes       \* whether the branch may be deleted

ASSUME FlipConstants ==
    /\ Sealers \cap Flippers = {}
    /\ MaxGen \in Nat \ {0}
    /\ ReadFaults \in BOOLEAN
    /\ PutFaults \in BOOLEAN
    /\ ServesETags \in BOOLEAN
    /\ Deletes \in BOOLEAN

VARIABLES
    ref,      \* the generation on refs/<branch>; 0 when it does not exist
    minted,   \* the last generation built
    at,       \* at[w]: where writer w is
    anchor,   \* anchor[w]: PrevRaw, the generation w grows from (0: none)
    etag,     \* etag[w]: expectETag, from the stat of the fetch (0: none)
    doc,      \* doc[w]: the generation w is flipping
    line,     \* history: line[g], the generations g is grown from, g included
    acked,    \* history: the generations whose flip returned success
    win,      \* history: win[w], what landed since w compared the head
    forsaken, \* history: what was overwritten, once acknowledged, by a Put
              \* whose check came first
    dropped   \* history: what a deletion of the branch took off it

headVars == <<ref, minted, line>>
histVars == <<acked, win, forsaken, dropped>>
flipVars == <<ref, minted, at, anchor, etag, doc, line, acked, win, forsaken, dropped>>

Writers == Sealers \cup Flippers
Gens    == 1..MaxGen

FlipTypeOK ==
    /\ minted \in 0..MaxGen
    /\ ref \in 0..minted
    /\ at \in [Writers -> {"idle", "stated", "ready", "checked", "put"}]
    /\ anchor \in [Writers -> 0..MaxGen]
    /\ etag \in [Writers -> 0..MaxGen]
    /\ doc \in [Writers -> 0..minted]
    /\ \A w \in Writers : doc[w] # 0 <=> at[w] \in {"checked", "put"}
    /\ line \in [0..MaxGen -> SUBSET Gens]
    /\ acked \in SUBSET Gens
    /\ win \in [Writers -> SUBSET Gens]
    /\ forsaken \in SUBSET Gens
    /\ dropped \in SUBSET Gens

(* The branch is yet to be created, or holds a first generation.           *)
FlipInit ==
    /\ ref \in {0, 1}
    /\ minted = ref
    /\ at = [w \in Writers |-> "idle"]
    /\ anchor = [w \in Writers |-> 0]
    /\ etag = [w \in Writers |-> 0]
    /\ doc = [w \in Writers |-> 0]
    /\ line = [g \in 0..MaxGen |-> IF g = 1 /\ ref = 1 THEN {1} ELSE {}]
    /\ acked = IF ref = 1 THEN {1} ELSE {}
    /\ win = [w \in Writers |-> {}]
    /\ forsaken = {}
    /\ dropped = {}

Move(w, point) == at' = [at EXCEPT ![w] = point]

Reads == IF ReadFaults THEN {"ok", "fault"} ELSE {"ok"}

-----------------------------------------------------------------------------
(* The fetch a document is built on.                                       *)

(* refs.read, first half: stat the head for its ETag, which a failed stat  *)
(* leaves empty.  A branch that does not exist is created, from nothing.   *)
FetchStat(w) ==
    /\ at[w] = "idle"
    /\ Move(w, IF ref = 0 THEN "ready" ELSE "stated")
    /\ \E read \in Reads :
          etag' = [etag EXCEPT ![w] = IF read = "ok" /\ ServesETags THEN ref ELSE 0]
    /\ UNCHANGED <<headVars, anchor, doc, histVars>>

(* refs.read, second half: read the bytes, which may be newer.  A mount    *)
(* keeps only the bytes.                                                   *)
FetchRead(w) ==
    /\ at[w] = "stated"
    /\ IF ref = 0
       THEN Move(w, "idle") /\ UNCHANGED anchor
       ELSE Move(w, "ready") /\ anchor' = [anchor EXCEPT ![w] = ref]
    /\ etag' = [etag EXCEPT ![w] = IF w \in Sealers \/ ref = 0 THEN 0 ELSE @]
    /\ UNCHANGED <<headVars, doc, histVars>>

-----------------------------------------------------------------------------
(* The flip.                                                               *)

(* publish.flip compares the bytes of the head.  With no Prev it wants no  *)
(* head; with one it refuses a different head, and tolerates any read that *)
(* fails, not only a missing head.                                         *)
SealCompareRefuses(w, read) ==
    IF anchor[w] = 0 THEN read = "ok" /\ ref # 0
    ELSE read = "ok" /\ ref # 0 /\ ref # anchor[w]

(* refs.Flip, wrong: only the presence of the head is checked.             *)
FlipCompareRefuses_NoETag(w, read) ==
    LET found == read = "ok" /\ ref # 0 IN found # (etag[w] # 0)

(* refs.Flip compares ETags, and refuses when the head cannot be statted.  *)
FlipCompareRefuses(w, read) ==
    LET found == read = "ok" /\ ref # 0 IN
    \/ found /\ etag[w] = 0
    \/ found /\ ServesETags /\ ref # etag[w]
    \/ ~found /\ etag[w] # 0

Refuses(w, read) ==
    IF w \in Sealers THEN SealCompareRefuses(w, read) ELSE FlipCompareRefuses(w, read)

(* The end of a flip, wrong: the document is left behind.                  *)
Over_KeepsDoc(w, grownFrom) ==
    /\ Move(w, IF w \in Sealers THEN "ready" ELSE "idle")
    /\ anchor' = [anchor EXCEPT ![w] = IF w \in Sealers THEN grownFrom ELSE 0]
    /\ etag' = [etag EXCEPT ![w] = 0]
    /\ UNCHANGED doc

(* The flip of w is over: a mount serves on and keeps its anchor, a        *)
(* command ends.                                                           *)
Over(w, grownFrom) ==
    /\ Move(w, IF w \in Sealers THEN "ready" ELSE "idle")
    /\ anchor' = [anchor EXCEPT ![w] = IF w \in Sealers THEN grownFrom ELSE 0]
    /\ etag' = [etag EXCEPT ![w] = 0]
    /\ doc' = [doc EXCEPT ![w] = 0]

CompareStale(w) ==
    /\ at[w] = "ready"
    /\ \E read \in Reads : Refuses(w, read)
    /\ Over(w, anchor[w])
    /\ UNCHANGED <<headVars, histVars>>

(* The document is built on the anchor and the check passes.               *)
Compare(w) ==
    /\ at[w] = "ready" /\ minted < MaxGen
    /\ \E read \in Reads : ~Refuses(w, read)
    /\ Move(w, "checked")
    /\ minted' = minted + 1
    /\ doc' = [doc EXCEPT ![w] = minted + 1]
    /\ line' = [line EXCEPT ![minted + 1] = line[anchor[w]] \cup {minted + 1}]
    /\ win' = [win EXCEPT ![w] = {}]
    /\ UNCHANGED <<ref, anchor, etag, acked, forsaken, dropped>>

(* The Put lands.  What landed since the check is overwritten unseen.      *)
Lands(w) ==
    /\ ref' = doc[w]
    /\ forsaken' = forsaken \cup ((win[w] \cap acked) \ line[doc[w]])
    /\ win' = [v \in Writers |-> IF v # w /\ at[v] = "checked" THEN win[v] \cup {doc[w]} ELSE {}]

Put(w) ==
    /\ at[w] = "checked"
    /\ Move(w, "put")
    /\ Lands(w)
    /\ UNCHANGED <<minted, line, anchor, etag, doc, acked, dropped>>

(* The Put fails: it never reached the origin, or it landed behind an      *)
(* error.                                                                  *)
PutFails(w) ==
    /\ PutFaults /\ at[w] = "checked"
    /\ Over(w, anchor[w])
    /\ \/ Lands(w)
       \/ win' = [win EXCEPT ![w] = {}] /\ UNCHANGED <<ref, forsaken>>
    /\ UNCHANGED <<minted, line, acked, dropped>>

(* VerifyPut, wrong: a success of the Put is taken for the last word.      *)
VerifyOk_Unread(w) ==
    /\ at[w] = "put"
    /\ Over(w, doc[w])
    /\ acked' = acked \cup {doc[w]}
    /\ UNCHANGED <<headVars, win, forsaken, dropped>>

(* VerifyPut reads this writer's bytes back: the flip succeeded, and a     *)
(* mount's next seal grows from what it published.                         *)
VerifyOk(w) ==
    /\ at[w] = "put" /\ ref = doc[w]
    /\ Over(w, doc[w])
    /\ acked' = acked \cup {doc[w]}
    /\ UNCHANGED <<headVars, win, forsaken, dropped>>

(* It reads other bytes (ErrClobbered), or cannot read: an error, and the  *)
(* anchor stays where it was.                                              *)
VerifyFails(w) ==
    /\ at[w] = "put"
    /\ ref # doc[w] \/ ReadFaults
    /\ Over(w, anchor[w])
    /\ UNCHANGED <<headVars, histVars>>

-----------------------------------------------------------------------------
(* The mount is unmounted, or the process dies where it stands.            *)
Quit(w) ==
    /\ at[w] # "idle"
    /\ Move(w, "idle")
    /\ anchor' = [anchor EXCEPT ![w] = 0]
    /\ etag' = [etag EXCEPT ![w] = 0]
    /\ doc' = [doc EXCEPT ![w] = 0]
    /\ win' = [win EXCEPT ![w] = {}]
    /\ UNCHANGED <<headVars, acked, forsaken, dropped>>

(* refs.DeleteBranch, by anybody.                                          *)
DeleteBranch ==
    /\ Deletes /\ ref # 0
    /\ ref' = 0
    /\ dropped' = dropped \cup line[ref]
    /\ UNCHANGED <<minted, line, at, anchor, etag, doc, acked, win, forsaken>>

Flip(w) == CompareStale(w) \/ Compare(w) \/ Put(w) \/ PutFails(w) \/ VerifyOk(w) \/ VerifyFails(w)

FlipNext ==
    \/ \E w \in Writers : FetchStat(w) \/ FetchRead(w) \/ Flip(w) \/ Quit(w)
    \/ DeleteBranch

FlipSpec == FlipInit /\ [][FlipNext]_flipVars

-----------------------------------------------------------------------------
(* Properties.                                                             *)

(* No acknowledged generation leaves the lineage of the head silently: it  *)
(* is an ancestor of the head, or the branch was deleted, or it landed and *)
(* was acknowledged between the check and the Put of one other flip.  What *)
(* is overwritten before it is read back is never acknowledged.            *)
AckedSurvives == acked \subseteq line[ref] \cup forsaken \cup dropped

(* A head that moves extends what it held, except over a generation that   *)
(* landed inside the window of the flip that moves it.                     *)
HeadExtends ==
    [][ref' # ref /\ ref' # 0 /\ ref # 0 =>
          \/ ref \in line[ref']
          \/ \E w \in Writers : at[w] = "checked" /\ ref' = doc[w] /\ ref \in win[w]]_flipVars

(* What publish.flip says of its compare: a missing head is tolerated, a   *)
(* different head means a concurrent writer won.                           *)
DifferentHeadRefused ==
    [][\A w \in Sealers :
          at[w] = "ready" /\ at'[w] = "checked" => ref = 0 \/ ref = anchor[w]]_flipVars
=============================================================================
