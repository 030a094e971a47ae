--------------------------- MODULE SessionThreads ---------------------------
(***************************************************************************)
(* The threads of one writable session (cmd/pelfs): clients that write,    *)
(* the periodic checkpointer, the control socket, the idle sealer and the  *)
(* publish button of `pelfs browse`, its branch switch, the background     *)
(* repack, and the exit path.                                              *)
(*                                                                         *)
(* Everything that publishes through the session takes its mutex (mu) for  *)
(* the whole of a seal, grows from the anchor (sb/prevRaw) and moves it.   *)
(* The repack holds no lock while it works: it reads the anchor, flips the *)
(* ref on its own, and then moves the anchor (followRepack).  A client's   *)
(* write takes the overlay's lock and never the session's.                 *)
(*                                                                         *)
(* A tree is the set of the writes it contains: acknowledged writes of     *)
(* this session are numbered from 1, and a seal of somebody else adds a    *)
(* negative number.  A generation's root names its tree, so a repack keeps *)
(* it.  Left out, because other modules have them: how a lease is lost     *)
(* (WriteLease; here a takeover is noticed at once), Puts that fail        *)
(* (BranchFlip), rows rewritten under a seal (OverlayRebase), the sweep    *)
(* (PackRetention).  Also left out: --no-lease, --no-seal, read-only       *)
(* sessions, and the restart that resumes an overlay.                      *)
(***************************************************************************)
EXTENDS Integers, Sequences, FiniteSets

CONSTANTS
    Frontends,      \* which of "mount", "passed" (a descriptor) and "browse"
    Conflicts,      \* the frontends whose branch may be taken over
    PressureAt,     \* checkpointBytes and checkpointInodes, in writes
    MaxWrites,      \* bound: writes acknowledged, by frontend
    MaxRepacks,     \* bound: background repacks
    MaxForeign,     \* bound: generations of other clients
    MaxFaults       \* bound: uploads, swaps and fetches that fail

ASSUME SessionAssumption ==
    /\ Frontends \subseteq {"mount", "passed", "browse"}
    /\ Conflicts \subseteq Frontends
    /\ MaxWrites \in [Frontends -> Nat]
    /\ {PressureAt, MaxRepacks, MaxForeign, MaxFaults} \subseteq Nat

VARIABLES
    frontend,   \* what the session was started as
    gens,       \* every generation published: its parent, tree and root
    head,       \* refs/<branch>
    rival,      \* the branches another client holds
    held,       \* the branches whose lease this session took
    lost,       \* those it has been told another client took over
    branch,     \* the branch the session is on
    anchor,     \* the generation the next seal grows from
    base,       \* the generation genfs serves
    rows,       \* the writes the overlay has and the base does not
    written,    \* how many writes were acknowledged
    ov,         \* the overlay: "open", "closed", "spent", "none" while it is
                \* replaced, "dead" when that failed
    phase,      \* of the exit path
    up,         \* whether clients can still reach the filesystem
    ticking,    \* whether the checkpointer starts new checkpoints
    mu,         \* who holds the session's mutex
    pc,         \* where each thread is
    seal,       \* the seal under way: what it froze, what it published
    move,       \* the switch under way: to which branch, at which generation
    repack,     \* the background repack
    tabs,       \* whether a browser tab is attached
    quiet,      \* whether the quiet window has passed since tab and write
    late,       \* history: writes taken by an overlay after the look that
                \* decided to retire it
    torn,       \* history: the generations that the session's repack
                \* overwrote between its compare and its Put
    behind,     \* history: the anchor was left behind the head
    faults      \* how many faults there were

volume  == <<gens, head, rival>>
lease   == <<held, lost>>
place   == <<branch, anchor, base>>
overlay == <<rows, written, ov>>
exit    == <<phase, up>>
browser == <<tabs, quiet>>
history == <<late, torn, behind>>
vars == <<frontend, volume, lease, place, overlay, exit, ticking, mu, pc, seal, move,
          repack, browser, history, faults>>

Branches == {"main", "dev"}
Askers   == {"checkpointer", "control", "page"}
Sealers  == Askers \cup {"exit"}
Threads  == Sealers \cup {"switch"}
Free     == "free"
InSeal   == {"fenced", "frozen", "compared", "put"}
Off      == [at |-> "off"]

Tree(g)    == gens[g].tree
Browse     == frontend = "browse"
Cancelled  == phase \notin {"serving", "shutting"}      \* sessionCtx
JobRunning == pc["page"] # "off" \/ pc["switch"] # "off"
Repacking  == repack.at # "off" /\ repack.at # "looked"
Goto(t, l) == pc' = [pc EXCEPT ![t] = l]
Fault      == faults < MaxFaults /\ faults' = faults + 1

Published(parent, tree, root) ==
    Append(gens, [parent |-> parent, tree |-> tree, root |-> root])
Landed(b) == head' = [head EXCEPT ![b] = Len(gens) + 1]
NewRoot == Len(gens) + 1

Init ==
    /\ frontend \in Frontends
    /\ gens = <<[parent |-> 0, tree |-> {}, root |-> 1]>>
    /\ head = [b \in Branches |-> 1]
    /\ rival = {} /\ held = {"main"} /\ lost = {}
    /\ branch = "main" /\ anchor = 1 /\ base = 1
    /\ rows = {} /\ written = 0 /\ ov = "open"
    /\ phase = "serving" /\ up = TRUE /\ ticking = TRUE
    /\ mu = Free /\ pc = [t \in Threads |-> "off"]
    /\ seal = Off /\ move = Off /\ repack = Off
    /\ tabs \in (IF Browse THEN BOOLEAN ELSE {FALSE}) /\ quiet = FALSE
    /\ late = {} /\ torn = {} /\ behind = FALSE /\ faults = 0

-----------------------------------------------------------------------------
(* Clients and the volume's other writers.                                 *)

(* Whoever retires the overlay has looked at what is in it.                *)
Looked ==
    \/ pc["switch"] \in {"checked", "leased", "swapped"}
    \/ pc["exit"] \in {"frozen", "compared", "put", "sealed"}

Write ==
    /\ up /\ ov = "open" /\ written < MaxWrites[frontend]
    /\ written' = written + 1
    /\ rows' = rows \cup {written'}
    /\ late' = IF Looked THEN late \cup {written'} ELSE late
    /\ quiet' = FALSE
    /\ UNCHANGED <<frontend, volume, lease, place, ov, exit, ticking, mu, pc, seal, move,
                   repack, tabs, torn, behind, faults>>

RivalTakes(b) ==
    /\ b \notin rival \cup held /\ rival' = rival \cup {b}
    /\ UNCHANGED <<lease, ticking>>

RivalLeaves(b) == b \in rival /\ rival' = rival \ {b} /\ UNCHANGED <<lease, ticking>>

(* The renewal loop finds another client's record: OnConflict stops the    *)
(* checkpointer (haltCheckpointer), whatever branch the lease was for.     *)
Conflict(b) ==
    /\ frontend \in Conflicts /\ b \in held \ lost
    /\ lost' = lost \cup {b} /\ rival' = rival \cup {b} /\ ticking' = FALSE
    /\ UNCHANGED held

RivalSeals(b) ==
    /\ b \in rival /\ Cardinality(UNION {{n \in Tree(g) : n < 0} : g \in DOMAIN gens}) < MaxForeign
    /\ gens' = Published(head[b], Tree(head[b]) \cup {-NewRoot}, NewRoot) /\ Landed(b)
    /\ UNCHANGED <<frontend, rival, lease, place, overlay, exit, ticking, mu, pc, seal, move,
                   repack, browser, history, faults>>

(* Another branch matters to a session only while it moves there.          *)
Rival(b) ==
    /\ b = branch \/ move # Off
    /\ \/ RivalSeals(b)
       \/ /\ RivalTakes(b) \/ RivalLeaves(b) \/ Conflict(b)
          /\ UNCHANGED <<frontend, gens, head, place, overlay, exit, mu, pc, seal, move,
                         repack, browser, history, faults>>

-----------------------------------------------------------------------------
(* Who asks for a checkpoint.  An asker then waits for the mutex.          *)

Ask(t) ==
    /\ pc[t] = "off" /\ Goto(t, "waiting")
    /\ UNCHANGED <<frontend, volume, lease, place, overlay, exit, ticking, mu, seal, move,
                   repack, history, faults>>

(* The interval gives way to a repack, write pressure does not.            *)
Tick ==
    /\ ticking /\ ~Cancelled /\ rows # {}
    /\ ~Repacking \/ Cardinality(rows) >= PressureAt
    /\ Ask("checkpointer") /\ UNCHANGED browser

ButtonPublish == Browse /\ up /\ ~Cancelled /\ ~JobRunning /\ Ask("page") /\ UNCHANGED browser

(* Only what the write pressure would ask for.                             *)
Due_Pressure == ~tabs /\ quiet /\ Cardinality(rows) >= PressureAt /\ ov = "open"

(* idleSealer.due and claimIdleJob.                                        *)
Due == ~tabs /\ quiet /\ rows # {} /\ ov = "open"

IdlePublish ==
    /\ Browse /\ phase = "serving" /\ Due /\ ~JobRunning
    /\ Ask("page") /\ quiet' = FALSE /\ UNCHANGED tabs

Attach == ~tabs /\ tabs' = TRUE /\ quiet' = FALSE
Detach == tabs /\ tabs' = FALSE /\ UNCHANGED quiet
WindowPasses == ~tabs /\ ~quiet /\ quiet' = TRUE /\ UNCHANGED tabs

Browser(Event) ==
    /\ Browse /\ phase = "serving" /\ Event
    /\ UNCHANGED <<frontend, volume, lease, place, overlay, exit, ticking, mu, pc, seal, move,
                   repack, history, faults>>

-----------------------------------------------------------------------------
(* A seal: checkpoint or sealAtExit, and sealLocked under the mutex.       *)

(* An error that leaves the mutex locked.                                  *)
EndSeal_Locked(t) ==
    /\ mu' = (IF pc[t] = "frozen" THEN t ELSE Free) /\ seal' = Off /\ Goto(t, "off")
    /\ phase' = IF t = "exit" THEN "closing" ELSE phase

(* Whoever is refused, fails or is done.                                   *)
EndSeal(t) ==
    /\ mu' = Free /\ seal' = Off /\ Goto(t, "off")
    /\ phase' = IF t = "exit" THEN "closing" ELSE phase

FailSeal(t) ==
    /\ EndSeal(t)
    /\ UNCHANGED <<frontend, volume, lease, place, overlay, up, move, repack, browser,
                   history>>

(* Nothing to seal, no overlay to seal, or Fence refuses.                  *)
NothingToSeal == ov # "open" \/ rows = {}
Fenced == branch \in lost

(* Lock, look, fence.  The control socket asks at any time; the exit path  *)
(* when it has drained the checkpointer.                                   *)
Asked(t) == pc[t] = IF t = "control" THEN "off" ELSE "waiting"

Begin(t) ==
    /\ Asked(t) /\ phase # "gone" /\ mu = Free /\ UNCHANGED faults
    /\ \/ /\ NothingToSeal /\ FailSeal(t) /\ UNCHANGED ticking
       \/ /\ ~NothingToSeal /\ Fenced /\ FailSeal(t) /\ ticking' = FALSE
       \/ /\ ~NothingToSeal /\ ~Fenced
          /\ mu' = t /\ Goto(t, "fenced")
          /\ UNCHANGED <<frontend, volume, lease, place, overlay, exit, ticking, seal, move,
                         repack, browser, history>>

(* A checkpoint freezes a snapshot; the seal at exit walks the overlay as  *)
(* it stands.                                                              *)
Freeze(t) ==
    /\ pc[t] = "fenced" /\ UNCHANGED <<ticking, faults>>
    /\ \/ ov # "open" /\ FailSeal(t)
       \/ /\ ov = "open"
          /\ seal' = [at |-> "frozen", snap |-> rows] /\ Goto(t, "frozen")
          /\ UNCHANGED <<frontend, volume, lease, place, overlay, exit, mu, move, repack,
                         browser, history>>

(* Upload what was frozen, and compare the head with the anchor.           *)
Compare(t) ==
    /\ pc[t] = "frozen" /\ UNCHANGED ticking
    /\ \/ Fault /\ FailSeal(t)
       \/ head[branch] # anchor /\ FailSeal(t) /\ UNCHANGED faults
       \/ /\ head[branch] = anchor /\ Goto(t, "compared")
          /\ UNCHANGED <<frontend, volume, lease, place, overlay, exit, mu, seal, move, repack,
                         browser, history, faults>>

Put(t) ==
    /\ pc[t] = "compared"
    /\ gens' = Published(anchor, Tree(anchor) \cup seal.snap, NewRoot) /\ Landed(branch)
    /\ seal' = [at |-> "put", snap |-> seal.snap, gen |-> NewRoot] /\ Goto(t, "put")
    /\ UNCHANGED <<frontend, rival, lease, place, overlay, exit, ticking, mu, move, repack,
                   browser, history, faults>>

(* The anchor stays where it was.                                          *)
Finish_Stays(t) ==
    /\ pc[t] = "put" /\ EndSeal(t)
    /\ head[branch] = seal.gen => base' = seal.gen /\ rows' = rows \ seal.snap
    /\ head[branch] # seal.gen => UNCHANGED <<base, rows>>
    /\ UNCHANGED <<frontend, volume, lease, branch, anchor, written, ov, up, ticking, move,
                   repack, browser, history, faults>>

(* VerifyPut, the anchor, and for a checkpoint Swap and Rebase.            *)
Finish(t) ==
    /\ pc[t] = "put" /\ UNCHANGED <<ticking>>
    /\ \/ head[branch] # seal.gen /\ FailSeal(t) /\ UNCHANGED faults
       \/ /\ head[branch] = seal.gen /\ t # "exit"
          /\ anchor' = seal.gen /\ EndSeal(t)
          /\ \/ Fault /\ UNCHANGED <<base, rows>>
             \/ ov = "open" /\ base' = seal.gen /\ rows' = rows \ seal.snap /\ UNCHANGED faults
             \/ ov # "open" /\ base' = seal.gen /\ UNCHANGED <<rows, faults>>
          /\ UNCHANGED <<frontend, volume, lease, branch, written, ov, up, move, repack,
                         browser, history>>
       \/ /\ head[branch] = seal.gen /\ t = "exit"
          /\ anchor' = seal.gen /\ Goto(t, "sealed")
          /\ UNCHANGED <<frontend, volume, lease, branch, base, overlay, exit, mu, seal, move,
                         repack, browser, history, faults>>

Sealing(t) == Freeze(t) \/ Compare(t) \/ Put(t) \/ Finish(t)

-----------------------------------------------------------------------------
(* The branch switch of `pelfs browse` (serveSwitchBranch, switchBranch).  *)

EndSwitch == Goto("switch", "off") /\ move' = Off

(* The publish slot, and nothing staged as far as can be seen.             *)
SwitchClaim ==
    /\ Browse /\ up /\ ~Cancelled /\ ~JobRunning /\ rows = {} /\ ov \in {"open", "dead"}
    /\ Goto("switch", "claimed") /\ move' = [at |-> "on", to |-> CHOOSE b \in Branches : b # branch]
    /\ UNCHANGED <<frontend, volume, lease, place, overlay, exit, ticking, mu, seal, repack,
                   browser, history, faults>>

(* The target's head is fetched before the mutex is taken.                 *)
SwitchFetch ==
    /\ pc["switch"] = "claimed"
    /\ Goto("switch", "waiting") /\ move' = [at |-> "on", to |-> move.to, gen |-> head[move.to]]
    /\ UNCHANGED <<frontend, volume, lease, place, overlay, exit, ticking, mu, seal, repack,
                   browser, history, faults>>

(* Only the check of the handler.                                          *)
SwitchLock_Trusting ==
    /\ pc["switch"] = "waiting" /\ mu = Free
    /\ mu' = "switch" /\ Goto("switch", "checked")
    /\ UNCHANGED <<frontend, volume, lease, place, overlay, exit, ticking, seal, move, repack,
                   browser, history, faults>>

(* The staged check that decides.                                          *)
SwitchLock ==
    /\ pc["switch"] = "waiting" /\ mu = Free
    /\ \/ (rows # {} \/ ov = "spent") /\ EndSwitch /\ UNCHANGED mu
       \/ rows = {} /\ ov # "spent" /\ mu' = "switch" /\ Goto("switch", "checked") /\ UNCHANGED move
    /\ UNCHANGED <<frontend, volume, lease, place, overlay, exit, ticking, seal, repack, browser,
                   history, faults>>

(* A step failed before anything was destroyed: the new lease goes.        *)
Abandon ==
    /\ held' = held \ {move.to} /\ lost' = lost \ {move.to}
    /\ mu' = Free /\ EndSwitch

SwitchLease ==
    /\ pc["switch"] = "checked"
    /\ \/ /\ move.to \in rival /\ mu' = Free /\ EndSwitch /\ UNCHANGED lease
       \/ /\ move.to \notin rival /\ held' = held \cup {move.to}
          /\ Goto("switch", "leased") /\ UNCHANGED <<lost, mu, move>>
    /\ UNCHANGED <<frontend, volume, place, overlay, exit, ticking, seal, repack, browser,
                   history, faults>>

SwitchSwap ==
    /\ pc["switch"] = "leased"
    /\ \/ Fault /\ Abandon /\ UNCHANGED base
       \/ base' = move.gen /\ Goto("switch", "swapped") /\ UNCHANGED <<lease, mu, move, faults>>
    /\ UNCHANGED <<frontend, volume, branch, anchor, overlay, exit, ticking, seal, repack,
                   browser, history>>

(* The overlay, empty when it was looked at, is closed and retired.        *)
SwitchRetire ==
    /\ pc["switch"] = "swapped" /\ Goto("switch", "retired")
    /\ rows' = {} /\ ov' = IF ov = "open" THEN "none" ELSE ov
    /\ UNCHANGED <<frontend, volume, lease, place, written, exit, ticking, mu, seal, move,
                   repack, browser, history, faults>>

(* A new overlay over the new base, and the anchor; or no overlay, and the *)
(* session reads only from here on.                                        *)
SwitchOpen ==
    /\ pc["switch"] = "retired"
    /\ \/ /\ ov = "none" /\ ov' = "dead" /\ Fault /\ Abandon /\ UNCHANGED <<branch, anchor, behind>>
       \/ /\ ov' = IF ov = "none" THEN "open" ELSE ov
          /\ branch' = move.to /\ anchor' = move.gen
          /\ behind' = (head[move.to] # move.gen)
          /\ Goto("switch", "opened") /\ UNCHANGED <<lease, mu, move, faults>>
    /\ UNCHANGED <<frontend, volume, base, rows, written, exit, ticking, seal, repack, browser,
                   late, torn>>

(* The old branch's lease goes last.                                       *)
SwitchRelease ==
    /\ pc["switch"] = "opened"
    /\ held' = {branch} /\ lost' = lost \cap {branch} /\ mu' = Free /\ EndSwitch
    /\ UNCHANGED <<frontend, volume, place, overlay, exit, ticking, seal, repack, browser,
                   history, faults>>

Switching == SwitchFetch \/ SwitchLease \/ SwitchSwap \/ SwitchRetire \/ SwitchOpen \/ SwitchRelease

-----------------------------------------------------------------------------
(* The background repack of a mount (autoRepackOnce, Execute, Refs.Flip).  *)

StepRepack(next) ==
    /\ repack' = next
    /\ UNCHANGED <<frontend, volume, lease, place, overlay, exit, ticking, mu, pc, seal, move,
                   browser, history, faults>>

(* The head and the anchor, read under the mutex, and the fence.           *)
RepackLook ==
    /\ ~Browse /\ ~Cancelled /\ repack.at = "off" /\ mu = Free /\ ov = "open" /\ ~Fenced
    /\ Cardinality({g \in DOMAIN gens : gens[g].root # g}) < MaxRepacks
    /\ StepRepack([at |-> "looked", plan |-> anchor])

RepackClaim ==
    /\ repack.at = "looked" /\ mu = Free
    /\ StepRepack([repack EXCEPT !.at = "claimed"])

(* Execute fetches the head: its ETag, if it is the planned generation.    *)
RepackFetch ==
    /\ repack.at = "claimed" /\ ~Cancelled
    /\ StepRepack(IF head[branch] = repack.plan THEN [repack EXCEPT !.at = "rewriting"] ELSE Off)

(* Minutes later: the stat of Refs.Flip.                                   *)
RepackCompare ==
    /\ repack.at = "rewriting" /\ ~Cancelled
    /\ StepRepack(IF head[branch] = repack.plan THEN [repack EXCEPT !.at = "compared"] ELSE Off)

(* A Put that was sent may land whatever becomes of its context.           *)
RepackPut ==
    /\ repack.at = "compared"
    /\ gens' = Published(repack.plan, Tree(repack.plan), gens[repack.plan].root) /\ Landed(branch)
    /\ torn' = torn \cup ({head[branch]} \ {repack.plan})
    /\ repack' = [at |-> "put", plan |-> repack.plan, gen |-> NewRoot]
    /\ UNCHANGED <<frontend, rival, lease, place, overlay, exit, ticking, mu, pc, seal, move,
                   browser, late, behind, faults>>

RepackVerify ==
    /\ repack.at = "put" /\ ~Cancelled
    /\ StepRepack(IF head[branch] = repack.gen THEN [repack EXCEPT !.at = "flipped"] ELSE Off)

(* followRepack fetches, without the mutex ...                             *)
FollowFetch ==
    /\ repack.at = "flipped" /\ ~Cancelled
    /\ StepRepack([repack EXCEPT !.at = "following", !.gen = head[branch]])

(* Whatever was fetched.                                                   *)
FollowAdopt_Blind ==
    /\ repack.at = "following" /\ mu = Free /\ repack' = Off
    /\ anchor' = repack.gen
    /\ UNCHANGED <<frontend, volume, lease, branch, base, overlay, exit, ticking, mu, pc, seal,
                   move, browser, history, faults>>

(* ... and adopts what it fetched if that is the tree the session is on.   *)
FollowAdopt ==
    /\ repack.at = "following" /\ mu = Free /\ repack' = Off
    /\ anchor' = IF gens[repack.gen].root = gens[anchor].root THEN repack.gen ELSE anchor
    /\ UNCHANGED <<frontend, volume, lease, branch, base, overlay, exit, ticking, mu, pc, seal,
                   move, browser, history, faults>>

(* A request fails, or the session's context ends, and the run is dropped: *)
(* nobody joins it, and nobody follows what it had flipped.                *)
RepackDrop ==
    /\ repack.at \notin {"off", "following"} /\ repack' = Off
    /\ Fault \/ (Cancelled /\ UNCHANGED faults)
    /\ behind' = (behind \/ repack.at \in {"put", "flipped"})
    /\ UNCHANGED <<frontend, volume, lease, place, overlay, exit, ticking, mu, pc, seal, move,
                   browser, late, torn>>

Repack ==
    \/ RepackLook \/ RepackClaim \/ RepackFetch \/ RepackCompare \/ RepackPut \/ RepackVerify
    \/ FollowFetch \/ FollowAdopt \/ RepackDrop

-----------------------------------------------------------------------------
(* The exit path (the ends of runMountGen and runBrowse).                  *)

StepExit(next) ==
    /\ phase' = next
    /\ UNCHANGED <<frontend, volume, lease, place, overlay, up, mu, pc, seal, move, repack,
                   history, faults>>

(* beginTeardown and closeStreams: no tab is attached from here on, and a  *)
(* browse session takes no new automatic work.                             *)
BeginTeardown ==
    /\ phase = "serving" /\ StepExit("shutting") /\ UNCHANGED ticking
    /\ tabs' = FALSE /\ quiet' = FALSE

(* Unmounted, or the server has stopped.                                   *)
ServerStops ==
    /\ phase = "shutting" /\ up /\ up' = FALSE
    /\ UNCHANGED <<frontend, volume, lease, place, overlay, phase, ticking, mu, pc, seal, move,
                   repack, browser, history, faults>>

(* A mount waits for its server.  A signalled session on a descriptor does *)
(* not, and the web server is given five seconds.  The jobs of the page    *)
(* are waited for; then the session's context ends.                        *)
StopSession ==
    /\ phase = "shutting" /\ (frontend = "mount" => ~up) /\ ~JobRunning
    /\ StepExit("stopped") /\ ticking' = FALSE /\ UNCHANGED browser

(* drainCheckpoints.                                                       *)
Drain ==
    /\ phase = "stopped" /\ pc["checkpointer"] = "off" /\ phase' = "drained"
    /\ Goto("exit", "waiting")
    /\ UNCHANGED <<frontend, volume, lease, place, overlay, up, ticking, mu, seal, move, repack,
                   browser, history, faults>>

(* sealAtExit, sealed: the overlay is closed and retired.                  *)
Retire ==
    /\ pc["exit"] = "sealed" /\ EndSeal("exit")
    /\ ov' = "spent" /\ rows' = {}
    /\ UNCHANGED <<frontend, volume, lease, place, written, up, ticking, move, repack, browser,
                   history, faults>>

(* The deferred end: the overlay is closed, whoever is at it, and the      *)
(* lease is released.                                                      *)
CloseOverlay ==
    /\ phase = "closing" /\ phase' = "closed"
    /\ ov' = IF ov = "open" THEN "closed" ELSE ov
    /\ UNCHANGED <<frontend, volume, lease, place, rows, written, up, ticking, mu, pc, seal, move,
                   repack, browser, history, faults>>

(* The lease is released and the process ends: what was under way is gone. *)
Leave ==
    /\ phase = "closed" /\ phase' = "gone"
    /\ held' = {} /\ lost' = {} /\ up' = FALSE /\ mu' = Free
    /\ pc' = [t \in Threads |-> "off"] /\ seal' = Off /\ repack' = Off
    /\ UNCHANGED <<frontend, volume, place, overlay, ticking, move, browser, history, faults>>

Exit == StopSession \/ Drain \/ Retire \/ CloseOverlay \/ Leave

-----------------------------------------------------------------------------
Next ==
    \/ Write
    \/ \E b \in Branches : Rival(b)
    \/ Tick \/ ButtonPublish \/ IdlePublish
    \/ Browser(Attach) \/ Browser(Detach) \/ Browser(WindowPasses)
    \/ \E t \in Sealers : Begin(t) \/ Sealing(t)
    \/ SwitchClaim \/ SwitchLock \/ Switching
    \/ Repack
    \/ BeginTeardown \/ ServerStops \/ Exit

SessionSpec == Init /\ [][Next]_vars

(* A thread that runs goes on; sync.Mutex is handed to whoever has waited  *)
(* longest (a job of the page, of which there is one, and the checkpointer *)
(* or the exit path, of which one waits at a time); the sealer's ticker    *)
(* finds the publish slot free in the end.  Nothing is assumed of clients, *)
(* tabs, tickers, the control socket, repacks or the user.                 *)
LiveSpec ==
    /\ SessionSpec
    /\ SF_vars(Begin("page") \/ SwitchLock)
    /\ SF_vars(Begin("checkpointer") \/ Begin("exit"))
    /\ WF_vars(\E t \in Sealers : Sealing(t)) /\ WF_vars(Switching)
    /\ WF_vars(Browser(WindowPasses)) /\ SF_vars(IdlePublish)
    /\ WF_vars(ServerStops \/ Exit)

-----------------------------------------------------------------------------
(* A write that was acknowledged to a client is in the overlay or in a     *)
(* published tree, through seals that fail, switches, repacks and the      *)
(* exit.  It can get lost in two ways only: it came in after the look that *)
(* decided to retire the overlay, or the session's own repack overwrote    *)
(* its checkpoint.                                                         *)
AcknowledgedIsKept ==
    \A w \in 1..written :
        \/ w \in rows \cup late
        \/ \E b \in Branches : w \in Tree(head[b])
        \/ \E g \in torn : w \in Tree(g)

(* What a seal publishes contains all that the mount shows: whoever moved  *)
(* the anchor (a checkpoint, followRepack, a switch), nothing the clients  *)
(* were served is missing from the anchor and the overlay together.        *)
SealShowsWhatIsServed ==
    mu # "switch" /\ ov = "open" => Tree(base) \subseteq Tree(anchor) \cup rows

(* A session that holds its branch can publish: the anchor is the head,    *)
(* except while a flip of its own is being followed, after a repack nobody *)
(* followed, after a switch to a head that moved before it was leased, and *)
(* after its repack overwrote its checkpoint.                              *)
AnchorIsHead ==
    \/ phase # "serving" \/ ov = "dead" \/ Fenced
    \/ \E t \in Threads : pc[t] = "put"
    \/ repack.at \in {"put", "flipped", "following"}
    \/ behind \/ torn # {}
    \/ anchor = head[branch]

(* The exit path waits for the server, the page's jobs, the checkpointer   *)
(* and the mutex, and comes to its end whatever was refused or failed.     *)
ExitEnds == phase = "shutting" ~> phase = "gone"

(* Work left behind when the last tab goes is published without anybody    *)
(* asking, unless a tab comes back or the session has lost its branch.     *)
IdleSealHappens ==
    Browse /\ ~tabs /\ rows # {} /\ phase = "serving"
        ~> rows = {} \/ tabs \/ phase # "serving" \/ Fenced \/ behind

(* What switchBranch promises ("nothing can stage between it and the       *)
(* swap") and does not keep.                                               *)
NothingStrands ==
    \A w \in 1..written :
        \/ w \in rows
        \/ \E b \in Branches : w \in Tree(head[b])
        \/ \E g \in torn : w \in Tree(g)
=============================================================================
