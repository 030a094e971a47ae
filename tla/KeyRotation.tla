----------------------------- MODULE KeyRotation -----------------------------
(***************************************************************************)
(* Replacing the signing key of a volume, and the readers that follow.     *)
(*                                                                         *)
(* `pelfs rotate` (cmd/pelfs/rotate.go, internal/rotate) gives every       *)
(* branch two generations: one signed by the live key that announces a     *)
(* successor, then one signed by the successor.  When all branches have    *)
(* both it makes the successor the live key.  A run may be interrupted     *)
(* anywhere and is run again, or retracted with --abort; an ordinary seal  *)
(* that finds its head signed by the pending key promotes it (Reconcile).  *)
(* A client (internal/refs) keeps one pinned key for the volume and, per   *)
(* branch, the last generation it accepted.  Its pin moves to another key  *)
(* by one step only: from the announcement it has on record to the very    *)
(* next generation, signed by the announced key.                           *)
(*                                                                         *)
(* A branch here is the sequence of the documents it has held.  Flips are  *)
(* uncontended, because every writer holds the branch's lease              *)
(* (WriteLease, BranchFlip model the contended ones), so the parent hash   *)
(* of a document is that of the one before it.  Fetch is one step for one  *)
(* client: its two files are written in a row, and two processes of one    *)
(* state directory are not interleaved inside it.  Left out: unsigned      *)
(* volumes, --volume-pubkey, --branch, tags and dry runs.                  *)
(***************************************************************************)
EXTENDS Integers, Sequences

CONSTANTS
    NumBranches,    \* branches are numbered in the order they are listed
    Writer,         \* the client of the machine that has the key files
    Readers,        \* clients of other machines
    MaxKeys,        \* bound: keys ever generated, the first one included
    MaxStops,       \* bound: crashes and failed commands
    MaxMounts,      \* bound: sessions that mount for writing
    MaxSeals,       \* bound: seals
    MaxGens         \* bound: an announcement is published up to this generation

ASSUME RotationAssumption ==
    /\ NumBranches \in Nat \ {0} /\ MaxKeys \in Nat \ {0}
    /\ MaxStops \in Nat /\ MaxMounts \in Nat /\ MaxSeals \in Nat /\ MaxGens \in Nat
    /\ Writer \notin Readers

Branch  == 1..NumBranches
Clients == Readers \cup {Writer}
Key     == 1..MaxKeys
NoKey   == 0
KeyFile == Key \cup {NoKey}

(* What matters of a superblock: who signed it and whom it announces.      *)
Doc == [signer : Key, next : KeyFile]

VARIABLES
    line,       \* line[b][g]: generation g of branch b; the last one is its head
    live, pending,    \* the key files: <path> and <path>.next
    retired,    \* keys archived as <path>.retired-*
    minted,     \* how many keys were generated; they are numbered in order
    pin,        \* pin[c]: the volume key the client trusts, NoKey before first use
    last,       \* last[c][b]: the generation the client last accepted, 0 for none
    cmd,        \* the running rotate command
    sess,       \* sess[b]: the session that has b mounted for writing
    parted,     \* history: a command ended with one branch under the
                \* successor and another not
    stops, mounts, seals

keyFiles == <<live, pending, retired>>
trust    == <<pin, last>>
bounds   == <<mounts, seals>>
vars == <<line, keyFiles, minted, trust, cmd, sess, parted, stops, bounds>>

Points == {"idle", "survey", "keys", "fetch", "announce", "refetch", "execute",
           "retract", "archive", "rename", "discard"}
Kinds  == {"rotate", "announce", "abort"}
Idle   == [at |-> "idle", kind |-> "rotate", b |-> 1, live |-> NoKey, pending |-> NoKey]

(* A session: where its seal is, the generation it builds on, its key.     *)
Mounted(at, base, key) == [at |-> at, base |-> base, key |-> key]
Off == Mounted("off", 0, NoKey)

Commands == [at : Points, kind : Kinds, b : Branch, live : KeyFile, pending : KeyFile]
Sessions == [at : {"off", "on", "archive", "rename", "sign"}, base : Nat, key : KeyFile]

RotationTypeOK ==
    /\ line \in [Branch -> Seq(Doc)] /\ \A b \in Branch : line[b] # <<>>
    /\ live \in Key /\ pending \in KeyFile /\ retired \subseteq Key
    /\ minted \in Key
    /\ pin \in [Clients -> KeyFile]
    /\ last \in [Clients -> [Branch -> Nat]]
    /\ \A c \in Clients, b \in Branch : last[c][b] <= Len(line[b])
    /\ cmd \in Commands
    /\ sess \in [Branch -> Sessions]
    /\ \A b \in Branch : sess[b].base <= Len(line[b])
    /\ parted \in BOOLEAN
    /\ stops \in Nat /\ mounts \in Nat /\ seals \in Nat

Init ==
    /\ line = [b \in Branch |-> << [signer |-> 1, next |-> NoKey] >>]
    /\ live = 1 /\ pending = NoKey /\ retired = {} /\ minted = 1
    /\ pin = [c \in Clients |-> NoKey]
    /\ last = [c \in Clients |-> [b \in Branch |-> 0]]
    /\ cmd = Idle /\ sess = [b \in Branch |-> Off]
    /\ parted = FALSE /\ stops = 0 /\ mounts = 0 /\ seals = 0

-----------------------------------------------------------------------------
(* Trust: refs.Store.Fetch.                                                *)

HeadOf(b) == line[b][Len(line[b])]

(* superblock.VerifyChain from the record on file.  Generations never go   *)
(* back on a branch, so checkMonotonic refuses nothing here.               *)
Chains(c, b) ==
    /\ last[c][b] # 0
    /\ Len(line[b]) = last[c][b] + 1
    /\ line[b][last[c][b]].signer = pin[c]
    /\ line[b][last[c][b]].next = HeadOf(b).signer

(* The reader, wrong: the record of the branch decides, whatever the pin.  *)
Accepts_PerBranch(c, b) ==
    \/ pin[c] = NoKey
    \/ HeadOf(b).signer = pin[c]
    \/ Chains(c, b)
    \/ /\ last[c][b] # 0
       /\ HeadOf(b).signer = line[b][last[c][b]].signer

(* First use, the pin itself, or one step of custody.                      *)
Accepts(c, b) ==
    \/ pin[c] = NoKey
    \/ HeadOf(b).signer = pin[c]
    \/ Chains(c, b)

(* persist, wrong: a head that verifies directly is not recorded again.    *)
Persist_PinOnly(c, b) ==
    /\ pin' = [pin EXCEPT ![c] = HeadOf(b).signer]
    /\ last' = IF pin[c] = HeadOf(b).signer THEN last
               ELSE [last EXCEPT ![c][b] = Len(line[b])]

(* persist: the pin of the volume and the record of the branch.            *)
Persist(c, b) ==
    /\ pin' = [pin EXCEPT ![c] = HeadOf(b).signer]
    /\ last' = [last EXCEPT ![c][b] = Len(line[b])]

FetchOK(c, b) == Accepts(c, b) /\ Persist(c, b)

(* Any client reads a head: a mount, a refresh, a listing command.         *)
Look(c, b) ==
    /\ FetchOK(c, b)
    /\ UNCHANGED <<line, keyFiles, minted, cmd, sess, parted, stops, bounds>>

-----------------------------------------------------------------------------
(* Publishing and the key files.                                           *)

(* The next generation of a branch.  publish.Options never sets NextPub,   *)
(* so an ordinary seal drops an announcement.                              *)
Publish(b, key, next) ==
    line' = [line EXCEPT ![b] = Append(@, [signer |-> key, next |-> next])]

(* Promote, wrong: the old key is not archived before it is replaced.      *)
Archive_Skipped == UNCHANGED retired

(* Promote, its first half: the live key is archived beside itself.        *)
Archive == retired' = retired \cup {live}

(* Promote, its second half: the pending file takes the live one's place.  *)
Rename == live' = pending /\ pending' = NoKey

(* One branch is signed by the successor and another is not.               *)
Split == \E a, b \in Branch : HeadOf(a).signer = pending /\ HeadOf(b).signer # pending

-----------------------------------------------------------------------------
(* An ordinary writer: a session that mounts a branch and seals.           *)

NoLeases == cmd.at \in {"idle", "survey"}

Mount(b) ==
    /\ sess[b].at = "off" /\ NoLeases /\ mounts < MaxMounts
    /\ FetchOK(Writer, b)
    /\ sess' = [sess EXCEPT ![b] = Mounted("on", Len(line[b]), NoKey)]
    /\ mounts' = mounts + 1
    /\ UNCHANGED <<line, keyFiles, minted, cmd, parted, stops, seals>>

Parent(b) == line[b][sess[b].base]

(* Reconcile: the live key is not the head's and the pending one is.       *)
Reconciles(b) == live # Parent(b).signer /\ pending = Parent(b).signer

(* loadOrCreateSigningKey at the start of a seal.  When neither key is the *)
(* head's the seal is refused, and the session stays as it is.             *)
BeginSeal(b) ==
    /\ sess[b].at = "on" /\ seals < MaxSeals
    /\ \/ Reconciles(b) /\ sess' = [sess EXCEPT ![b] = Mounted("archive", @.base, NoKey)]
       \/ /\ ~Reconciles(b) /\ live = Parent(b).signer
          /\ sess' = [sess EXCEPT ![b] = Mounted("sign", @.base, live)]
    /\ seals' = seals + 1
    /\ UNCHANGED <<line, keyFiles, minted, trust, cmd, parted, stops, mounts>>

(* Promote inside Reconcile.  Two sessions may both be here; the one that  *)
(* finds the pending file gone fails its seal and keeps its session.       *)
SealArchive(b) ==
    /\ sess[b].at = "archive"
    /\ \/ pending # NoKey /\ Archive /\ sess' = [sess EXCEPT ![b] = Mounted("rename", @.base, NoKey)]
       \/ pending = NoKey /\ UNCHANGED retired /\ sess' = [sess EXCEPT ![b] = Mounted("on", @.base, NoKey)]
    /\ UNCHANGED <<line, live, pending, minted, trust, cmd, parted, stops, bounds>>

SealRename(b) ==
    /\ sess[b].at = "rename"
    /\ \/ /\ pending # NoKey /\ Rename
          /\ sess' = [sess EXCEPT ![b] = IF pending = Parent(b).signer
                                         THEN Mounted("sign", @.base, pending)
                                         ELSE Mounted("on", @.base, NoKey)]
       \/ /\ pending = NoKey /\ UNCHANGED <<live, pending>>
          /\ sess' = [sess EXCEPT ![b] = Mounted("on", @.base, NoKey)]
    /\ UNCHANGED <<line, retired, minted, trust, cmd, parted, stops, bounds>>

SealFlip(b) ==
    /\ sess[b].at = "sign"
    /\ Publish(b, sess[b].key, NoKey)
    /\ sess' = [sess EXCEPT ![b] = Mounted("on", Len(line[b]) + 1, NoKey)]
    /\ UNCHANGED <<keyFiles, minted, trust, cmd, parted, stops, bounds>>

Unmount(b) ==
    /\ sess[b].at = "on"
    /\ sess' = [sess EXCEPT ![b] = Off]
    /\ UNCHANGED <<line, keyFiles, minted, trust, cmd, parted, stops, bounds>>

-----------------------------------------------------------------------------
(* The rotate command.  A plain run, --announce-only, or --abort.          *)

At(point) == cmd.at = point
Goto(point) == cmd' = [cmd EXCEPT !.at = point]

(* The command ends, well or not: its leases are released.                 *)
End == cmd' = Idle /\ parted' = (parted \/ Split')

Start(kind) ==
    /\ At("idle")
    /\ cmd' = [Idle EXCEPT !.at = "survey", !.kind = kind]
    /\ UNCHANGED <<line, keyFiles, minted, trust, sess, parted, stops, bounds>>

(* pendingForkTags fetches every branch, before any lease and whatever     *)
(* comes of it.                                                            *)
Survey ==
    /\ At("survey") /\ cmd.live = NoKey
    /\ IF Accepts(Writer, cmd.b) THEN Persist(Writer, cmd.b) ELSE UNCHANGED trust
    /\ cmd' = IF cmd.b < NumBranches THEN [cmd EXCEPT !.b = @ + 1]
              ELSE [cmd EXCEPT !.live = live, !.b = 1]
    /\ UNCHANGED <<line, keyFiles, minted, sess, parted, stops, bounds>>

(* One lease per branch, or nothing is done.                               *)
TakeLeases ==
    /\ At("survey") /\ cmd.live # NoKey
    /\ UNCHANGED <<line, keyFiles, minted, trust, sess, stops, bounds>>
    /\ \/ (\A b \in Branch : sess[b].at = "off") /\ Goto("keys") /\ UNCHANGED parted
       \/ (\E b \in Branch : sess[b].at # "off") /\ End

(* Live and MintPending: an existing successor is adopted.                 *)
ReadKeys ==
    /\ At("keys")
    /\ \/ (cmd.kind = "abort" \/ pending # NoKey) /\ UNCHANGED <<pending, minted>>
       \/ /\ cmd.kind # "abort" /\ pending = NoKey /\ minted < MaxKeys
          /\ minted' = minted + 1 /\ pending' = minted + 1
    /\ cmd' = [cmd EXCEPT !.at = "fetch", !.live = live, !.pending = pending']
    /\ UNCHANGED <<line, live, retired, trust, sess, parted, stops, bounds>>

(* phaseOf, wrong: a pending file is taken for an announcement.            *)
Phase_ByFile(doc) ==
    IF cmd.pending # NoKey /\ doc.signer = cmd.pending THEN "executed"
    ELSE IF doc.signer # cmd.live THEN "refused"
    ELSE IF cmd.pending # NoKey THEN "announced" ELSE "fresh"

(* phaseOf, wrong: the live key is looked at first.                        *)
Phase_LiveFirst(doc) ==
    IF doc.signer # cmd.live THEN "refused"
    ELSE IF doc.next = NoKey THEN "fresh"
    ELSE IF doc.next = cmd.pending THEN "announced" ELSE "refused"

(* phaseOf: how far a branch has got, from its head and the two keys.      *)
Phase(doc) ==
    IF cmd.pending # NoKey /\ doc.signer = cmd.pending THEN "executed"
    ELSE IF doc.signer # cmd.live THEN "refused"
    ELSE IF doc.next = NoKey THEN "fresh"
    ELSE IF doc.next = cmd.pending THEN "announced" ELSE "refused"

(* What the command does to a branch it finds in some phase.               *)
StepFor(phase) ==
    IF cmd.kind = "abort"
    THEN CASE phase = "fresh" -> "next"      [] phase = "announced" -> "retract"
           [] OTHER -> "fail"
    ELSE CASE phase = "fresh" -> "announce"  [] phase = "announced" -> "execute"
           [] phase = "executed" -> "next"   [] OTHER -> "fail"

(* Execute, wrong: the successor is promoted as soon as one branch has it. *)
NextBranch_PromotesEarly ==
    IF cmd.b < NumBranches /\ cmd.at # "execute"
    THEN cmd' = [cmd EXCEPT !.at = "fetch", !.b = @ + 1] /\ UNCHANGED parted
    ELSE CASE cmd.kind = "rotate"   -> Goto("archive") /\ UNCHANGED parted
           [] cmd.kind = "abort"    -> Goto("discard") /\ UNCHANGED parted
           [] cmd.kind = "announce" -> End

(* After the last branch: promote, or not with --announce-only, or throw   *)
(* the successor away.                                                     *)
NextBranch ==
    IF cmd.b < NumBranches
    THEN cmd' = [cmd EXCEPT !.at = "fetch", !.b = @ + 1] /\ UNCHANGED parted
    ELSE CASE cmd.kind = "rotate"   -> Goto("archive") /\ UNCHANGED parted
           [] cmd.kind = "abort"    -> Goto("discard") /\ UNCHANGED parted
           [] cmd.kind = "announce" -> End

FetchBranch ==
    /\ At("fetch")
    /\ UNCHANGED <<line, keyFiles, minted, sess, stops, bounds>>
    /\ LET step == StepFor(Phase(HeadOf(cmd.b))) IN
       \/ ~Accepts(Writer, cmd.b) /\ End /\ UNCHANGED trust
       \/ FetchOK(Writer, cmd.b) /\ step = "fail" /\ End
       \/ FetchOK(Writer, cmd.b) /\ step = "next" /\ NextBranch
       \/ /\ FetchOK(Writer, cmd.b) /\ step \notin {"fail", "next"}
          /\ Goto(step) /\ UNCHANGED parted

Announce ==
    /\ At("announce") /\ Len(line[cmd.b]) < MaxGens
    /\ Publish(cmd.b, cmd.live, cmd.pending)
    /\ Goto("refetch")
    /\ UNCHANGED <<keyFiles, minted, trust, sess, parted, stops, bounds>>

(* The announcement is read back through the trust path.                   *)
Refetch ==
    /\ At("refetch")
    /\ UNCHANGED <<line, keyFiles, minted, sess, stops, bounds>>
    /\ \/ ~Accepts(Writer, cmd.b) /\ End /\ UNCHANGED trust
       \/ FetchOK(Writer, cmd.b) /\ cmd.kind = "announce" /\ NextBranch
       \/ FetchOK(Writer, cmd.b) /\ cmd.kind = "rotate" /\ Goto("execute") /\ UNCHANGED parted

(* The generation signed by the successor.  --announce-only gets here too, *)
(* for a branch it found announced already.                                *)
ExecuteBranch ==
    /\ At("execute")
    /\ Publish(cmd.b, cmd.pending, NoKey)
    /\ UNCHANGED <<keyFiles, minted, trust, sess, stops, bounds>>
    /\ NextBranch

(* --abort supersedes an announcement with an ordinary generation.         *)
Retract ==
    /\ At("retract")
    /\ Publish(cmd.b, cmd.live, NoKey)
    /\ UNCHANGED <<keyFiles, minted, trust, sess, stops, bounds>>
    /\ NextBranch

PromoteArchive ==
    /\ At("archive") /\ pending # NoKey /\ Archive /\ Goto("rename")
    /\ UNCHANGED <<line, live, pending, minted, trust, sess, parted, stops, bounds>>

PromoteRename ==
    /\ At("rename") /\ Rename
    /\ UNCHANGED <<line, retired, minted, trust, sess, stops, bounds>>
    /\ End

Discard ==
    /\ At("discard") /\ pending' = NoKey
    /\ UNCHANGED <<line, live, retired, minted, trust, sess, stops, bounds>>
    /\ End

-----------------------------------------------------------------------------
(* The command fails: a store that does not answer, a ^C.                  *)
Interrupt ==
    /\ ~At("idle") /\ stops < MaxStops /\ stops' = stops + 1
    /\ UNCHANGED <<line, keyFiles, minted, trust, sess, bounds>>
    /\ End

(* The machine goes down: sessions too.  Their leases expire.              *)
Crash ==
    /\ stops < MaxStops /\ stops' = stops + 1
    /\ \E b \in Branch : sess[b].at # "off"
    /\ sess' = [b \in Branch |-> Off]
    /\ UNCHANGED <<line, keyFiles, minted, trust, bounds>>
    /\ End

Step ==
    \/ Survey \/ TakeLeases \/ ReadKeys \/ FetchBranch \/ Announce \/ Refetch
    \/ ExecuteBranch \/ Retract \/ PromoteArchive \/ PromoteRename \/ Discard

Session(b) ==
    Mount(b) \/ BeginSeal(b) \/ SealArchive(b) \/ SealRename(b) \/ SealFlip(b) \/ Unmount(b)

Next ==
    \/ \E kind \in Kinds : Start(kind)
    \/ Step
    \/ \E b \in Branch : Session(b)
    \/ \E c \in Clients, b \in Branch : Look(c, b)
    \/ Interrupt \/ Crash

RotationSpec == Init /\ [][Next]_vars

(* "Resumable" is a claim about a command that is run again: it is started *)
(* again and goes on by itself, and sessions are unmounted in the end.     *)
LiveSpec ==
    /\ RotationSpec
    /\ WF_vars(Step) /\ SF_vars(Start("rotate"))
    /\ \A b \in Branch : /\ WF_vars(SealArchive(b) \/ SealRename(b) \/ SealFlip(b))
                         /\ WF_vars(Unmount(b))

-----------------------------------------------------------------------------
(* No key that some head is signed by or announces is ever lost: it is the *)
(* live key, the pending one or archived (keystate.go: Promote archives    *)
(* before it replaces, and --abort throws a successor away only when no    *)
(* branch refers to it).                                                   *)
KeysKept ==
    \A b \in Branch :
        {HeadOf(b).signer, HeadOf(b).next} \ {NoKey} \subseteq retired \cup {live, pending}

(* Every generation ever published can be reached from the one before it:  *)
(* signed by the same key, or by the one that generation announced.        *)
CustodyUnbroken ==
    \A b \in Branch : \A g \in 2..Len(line[b]) :
        line[b][g].signer \in {line[b][g - 1].signer, line[b][g - 1].next}

(* However often rotations, aborts and seals are interrupted, every branch *)
(* can be sealed again: its head is signed by the live key, or by the      *)
(* pending one, which the seal promotes (Reconcile's "a rotation           *)
(* interrupted anywhere").  Not so after a command has stopped between     *)
(* two branches.                                                           *)
HeadsSignable ==
    parted \/ \A b \in Branch : HeadOf(b).signer \in {live, pending}

(* The machine that rotates never locks itself out: it accepts the head of *)
(* every branch again once a run has left all of them under one key.       *)
WriterFollows == parted \/ Split \/ \A b \in Branch : Accepts(Writer, b)

(* A client that has left a key never trusts it again, whichever branch it *)
(* looks at: keys are numbered in the order they were made.                *)
PinNeverReturns == [][\A c \in Clients : pin'[c] >= pin[c]]_pin

(* A rotation that was interrupted is finished, or retracted, once it is   *)
(* run again.                                                              *)
RotationEnds == pending # NoKey ~> (pending = NoKey \/ parted)

(* What the code promises of any interruption and does not keep on a       *)
(* volume of two branches: the next seal can be signed.                    *)
AlwaysSignable == \A b \in Branch : HeadOf(b).signer \in {live, pending}

(* What --announce-only promises: the key does not change yet.             *)
AnnounceOnlyWaits ==
    [][cmd.kind = "announce" /\ cmd.at # "idle" =>
            \A b \in Branch : HeadOf(b)'.signer = HeadOf(b).signer]_vars
=============================================================================
