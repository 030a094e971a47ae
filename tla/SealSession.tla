----------------------------- MODULE SealSession -----------------------------
(***************************************************************************)
(* A writable mount that seals under its lease (cmd/pelfs/mountgen.go):    *)
(* the lease of WriteLease and the head of BranchFlip together.            *)
(*                                                                         *)
(* A session takes the lease, fetches the head, and serves.  A seal is     *)
(* Fence, then the freeze, the walk and the uploads, then the flip, all    *)
(* under the session's mutex; the renewal loop runs beside it, and nothing *)
(* looks at the lease again between Fence and the flip.                    *)
(***************************************************************************)
EXTENDS WriteLease

CONSTANT MaxGen    \* bound: how many generations are built

VARIABLES
    ref, minted, at, anchor, etag, doc, line,
    acked, win, forsaken, dropped,    \* see BranchFlip
    uncovered    \* history: a Put of the head landed while its writer was
                 \* not one that Fence would let through as it stands

B == INSTANCE BranchFlip WITH
        Sealers <- Sessions, Flippers <- {}, ReadFaults <- FALSE,
        PutFaults <- FALSE, ServesETags <- FALSE, Deletes <- FALSE

branchVars == <<ref, minted, at, anchor, etag, doc, line, acked, win, forsaken, dropped>>
sealVars   == <<branchVars, uncovered>>

(* A mount needs a branch to mount.                                        *)
SealInit == LeaseInit /\ B!FlipInit /\ ref # 0 /\ uncovered = FALSE

Awake(s, point) == call[s] = point /\ ~asleep[s]

-----------------------------------------------------------------------------
(* The mount fetches the head once it holds the lease.                     *)
FetchHead(s) ==
    /\ Awake(s, "held")
    /\ B!FetchStat(s) \/ B!FetchRead(s)
    /\ UNCHANGED <<leaseVars, uncovered>>

(* fenceSeal: the lease first, before anything is frozen or uploaded.      *)
FenceSeal(s) == at[s] = "ready" /\ Fence(s) /\ UNCHANGED sealVars

(* headIs: the guard compares the bytes of the head with the anchor.       *)
headIs(s) ==
    IF anchor[s] = 0 \/ ref = 0 THEN "error"
    ELSE IF ref = anchor[s] THEN "unchanged" ELSE "moved"

GuardHead(s) ==
    /\ RevalidateHead(s, headIs(s)) \/ VanishedHead(s, headIs(s))
    /\ UNCHANGED sealVars

(* The flip, wrong: the lease is trusted and the head is not compared.     *)
CompareHead_TrustsLease(s) ==
    /\ Awake(s, "sealing")
    /\ at[s] = "ready" /\ minted < MaxGen
    /\ at' = [at EXCEPT ![s] = "checked"]
    /\ minted' = minted + 1
    /\ doc' = [doc EXCEPT ![s] = minted + 1]
    /\ line' = [line EXCEPT ![minted + 1] = line[anchor[s]] \cup {minted + 1}]
    /\ win' = [win EXCEPT ![s] = {}]
    /\ UNCHANGED <<leaseVars, ref, anchor, etag, acked, forsaken, dropped, uncovered>>

(* The seal reaches the flip, and the head is still the anchor.            *)
CompareHead(s) ==
    /\ Awake(s, "sealing")
    /\ B!Compare(s)
    /\ UNCHANGED <<leaseVars, uncovered>>

(* The session as Fence would find it now, without a round trip.           *)
Covered(s) == SafelyFresh(s) /\ ~conflicted[s] /\ ~interrupted[s]

PutHead(s) ==
    /\ Awake(s, "sealing")
    /\ B!Put(s)
    /\ uncovered' = (uncovered \/ ~Covered(s))
    /\ UNCHANGED leaseVars

(* The seal is over: stale, verified, clobbered, or failed before it       *)
(* reached the flip.                                                       *)
SealEnds(s) ==
    /\ SealReturns(s)
    /\ \/ B!CompareStale(s) \/ B!VerifyOk(s) \/ B!VerifyFails(s)
       \/ at[s] = "ready" /\ UNCHANGED branchVars
    /\ UNCHANGED uncovered

(* The session ends: its anchor dies with it.                              *)
SessionEnds(s) ==
    /\ ReleaseStop(s) \/ Crash(s)
    /\ IF at[s] = "idle" THEN UNCHANGED branchVars ELSE B!Quit(s)
    /\ UNCHANGED uncovered

(* What the lease does that the head does not see.                         *)
LeaseOnly(s) ==
    /\ \/ Acquire(s) \/ renewOnce(s) \/ Revalidate(s)
       \/ ReleaseRead(s) \/ ReleaseDelete(s)
       \/ Sleep(s) \/ Wake(s) \/ SetClockBack(s)
    /\ UNCHANGED sealVars

SealNext ==
    \/ \E s \in Sessions :
          \/ FetchHead(s) \/ FenceSeal(s) \/ GuardHead(s)
          \/ CompareHead(s) \/ PutHead(s) \/ SealEnds(s)
          \/ SessionEnds(s) \/ LeaseOnly(s)
    \/ (OperatorDelete \/ Tick) /\ UNCHANGED sealVars

SealSpec == SealInit /\ [][SealNext]_<<leaseVars, sealVars>>

-----------------------------------------------------------------------------
(* Properties.                                                             *)

(* The head moves as BranchFlip says, whatever the lease does.             *)
HeadMovesByFlip == B!FlipSpec

(* The lease is what closes the window of the flip: nothing acknowledged   *)
(* is overwritten unless some Put landed after its session's lease had     *)
(* gone stale under it, or a record was forced.                            *)
LeaseClosesWindow == forsaken # {} => uncovered \/ forced

(* What refs says of the check-then-Put window: the advisory lease keeps   *)
(* concurrent writers out of even that window.                             *)
WindowExclusive == ~forced => forsaken = {}
=============================================================================
