-------------------------- MODULE KeyRotationProofs --------------------------
(***************************************************************************)
(* What is proved of KeyRotation for any number of branches and clients.   *)
(*                                                                         *)
(* The invariants are not inductive alone.  What carries them is where the *)
(* command and the sessions stand: a session's parent is still the head, a *)
(* command past its leases works with the two key files as they are, and   *)
(* the branches before the one it is at are done.  The second half of a    *)
(* promotion is safe because every head is signed by the pending key       *)
(* there, unless a run has stopped between two branches.                   *)
(*                                                                         *)
(* The second part is about trust: keys only rise along the chain of a     *)
(* branch, so no pin returns; and the machine that rotates keeps up with   *)
(* its own command on every branch.                                        *)
(***************************************************************************)
EXTENDS KeyRotation, TLAPS

(* A session seals on the head, with the key that signed it, and promotes  *)
(* a pending key only when it is that one.                                 *)
SessionsCurrent ==
    \A b \in Branch : sess[b].at # "off" =>
        /\ sess[b].base = Len(line[b])
        /\ sess[b].at = "sign" => sess[b].key = HeadOf(b).signer
        /\ sess[b].at \in {"archive", "rename"} => pending \in {HeadOf(b).signer, NoKey}
        /\ sess[b].at = "rename" => live \in retired \/ pending = NoKey

(* A command past its leases is alone with the key files.                  *)
LeasesExclude == ~NoLeases => \A b \in Branch : sess[b].at = "off"

CommandKeys ==
    cmd.at \notin {"idle", "survey", "keys"} =>
        /\ cmd.live = live /\ cmd.pending = pending
        /\ cmd.kind # "abort" => pending # NoKey

(* The branch the command is at is in the phase its next step is for.      *)
CommandPhase ==
    /\ cmd.at = "announce" => cmd.kind # "abort" /\ HeadOf(cmd.b).signer = cmd.live
    /\ cmd.at = "retract" => cmd.kind = "abort" /\ HeadOf(cmd.b).signer = cmd.live
    /\ cmd.at \in {"refetch", "execute"} =>
            cmd.kind # "abort" /\ HeadOf(cmd.b).next = cmd.pending

Retracted(b) == HeadOf(b).signer = cmd.live /\ HeadOf(b).next = NoKey

(* The branches before it are done, and all of them at the end.            *)
CommandProgress ==
    /\ (cmd.kind = "rotate" /\ cmd.at \in {"fetch", "announce", "refetch", "execute"}) =>
            \A b \in 1..(cmd.b - 1) : HeadOf(b).signer = pending
    /\ (cmd.kind = "abort" /\ cmd.at \in {"fetch", "retract"}) =>
            \A b \in 1..(cmd.b - 1) : Retracted(b)
    /\ cmd.at \in {"archive", "rename"} =>
            cmd.kind = "rotate" /\ \A b \in Branch : HeadOf(b).signer = pending
    /\ cmd.at = "rename" => live \in retired
    /\ cmd.at = "discard" => \A b \in Branch : Retracted(b)
    /\ (cmd.at = "keys" \/ (cmd.at = "survey" /\ cmd.live # NoKey)) => cmd.b = 1

(* While no command holds the leases, branches differ only if one stopped. *)
PartedIsSplit == NoLeases => parted \/ ~Split

RotationInv ==
    /\ RotationTypeOK
    /\ SessionsCurrent
    /\ LeasesExclude
    /\ CommandKeys
    /\ CommandPhase
    /\ CommandProgress
    /\ PartedIsSplit
    /\ HeadsSignable
    /\ KeysKept
    /\ CustodyUnbroken

-----------------------------------------------------------------------------
(* Heads.                                                                  *)

(* The head of a branch is a document.                                     *)
LEMMA HeadIsDoc ==
    ASSUME RotationTypeOK, NEW b \in Branch
    PROVE  /\ HeadOf(b) \in Doc /\ HeadOf(b).signer \in Key /\ HeadOf(b).next \in KeyFile
           /\ Len(line[b]) \in Nat \ {0}
<1>1. line[b] \in Seq(Doc) /\ line[b] # <<>>
  BY DEF RotationTypeOK
<1>2. Len(line[b]) \in Nat \ {0} /\ line[b][Len(line[b])] \in Doc
  BY <1>1
<1> QED  BY <1>2 DEF HeadOf, Doc

(* Where no branch moves, no head does.                                    *)
LEMMA SameHeads ==
    ASSUME line' = line
    PROVE  /\ \A b \in Branch : HeadOf(b)' = HeadOf(b)
           /\ CustodyUnbroken => CustodyUnbroken'
  BY DEF HeadOf, CustodyUnbroken

(* A flip puts its document at the head of its branch and leaves every     *)
(* other document where it was.                                            *)
LEMMA Published ==
    ASSUME RotationTypeOK, NEW b \in Branch, NEW key \in Key, NEW next \in KeyFile,
           Publish(b, key, next)
    PROVE  /\ line' \in [Branch -> Seq(Doc)] /\ \A a \in Branch : line'[a] # <<>>
           /\ Len(line'[b]) = Len(line[b]) + 1
           /\ \A g \in 1..Len(line[b]) : line'[b][g] = line[b][g]
           /\ HeadOf(b)' = [signer |-> key, next |-> next]
           /\ \A a \in Branch \ {b} : line'[a] = line[a] /\ HeadOf(a)' = HeadOf(a)
           /\ \A a \in Branch : Len(line'[a]) \in Nat /\ Len(line[a]) <= Len(line'[a])
<1> DEFINE doc == [signer |-> key, next |-> next]
<1>1. doc \in Doc /\ line[b] \in Seq(Doc) /\ line \in [Branch -> Seq(Doc)]
  BY DEF Doc, RotationTypeOK
<1>2. line'[b] = Append(line[b], doc) /\ \A a \in Branch \ {b} : line'[a] = line[a]
  BY <1>1 DEF Publish
<1>3. /\ Append(line[b], doc) \in Seq(Doc) /\ Len(Append(line[b], doc)) = Len(line[b]) + 1
      /\ Append(line[b], doc)[Len(line[b]) + 1] = doc
      /\ \A g \in 1..Len(line[b]) : Append(line[b], doc)[g] = line[b][g]
      /\ Append(line[b], doc) # <<>>
  BY <1>1
<1>4. line' \in [Branch -> Seq(Doc)]
  BY <1>1, <1>3 DEF Publish
<1>5. HeadOf(b)' = doc /\ \A a \in Branch \ {b} : HeadOf(a)' = HeadOf(a)
  BY <1>2, <1>3 DEF HeadOf
<1>6. \A a \in Branch : line'[a] # <<>> /\ Len(line'[a]) \in Nat /\ Len(line[a]) <= Len(line'[a])
  <2> TAKE a \in Branch
  <2>1. CASE a = b  BY <2>1, <1>1, <1>2, <1>3
  <2>2. CASE a # b  BY <2>2, <1>1, <1>2 DEF RotationTypeOK
  <2> QED  BY <2>1, <2>2
<1> QED  BY <1>2, <1>3, <1>4, <1>5, <1>6

(* A document signed by the key of its parent, or by the one its parent    *)
(* announced, keeps custody.                                               *)
LEMMA CustodyStep ==
    ASSUME RotationTypeOK, CustodyUnbroken,
           NEW b \in Branch, NEW key \in Key, NEW next \in KeyFile, Publish(b, key, next),
           key \in {HeadOf(b).signer, HeadOf(b).next}
    PROVE  CustodyUnbroken'
<1> SUFFICES ASSUME NEW a \in Branch, NEW g \in 2..Len(line'[a])
             PROVE  line'[a][g].signer \in {line'[a][g - 1].signer, line'[a][g - 1].next}
  BY DEF CustodyUnbroken
<1>1. CASE a # b
  BY <1>1, Published DEF CustodyUnbroken
<1>2. CASE a = b /\ g <= Len(line[b])
  <2>1. g \in 2..Len(line[b]) /\ g \in 1..Len(line[b]) /\ g - 1 \in 1..Len(line[b])
    BY <1>2, HeadIsDoc
  <2> QED  BY <2>1, <1>2, Published DEF CustodyUnbroken
<1>3. CASE a = b /\ g > Len(line[b])
  <2>1. g = Len(line'[b]) /\ g - 1 = Len(line[b]) /\ g - 1 \in 1..Len(line[b])
    BY <1>3, Published, HeadIsDoc
  <2>2. line'[b][g] = [signer |-> key, next |-> next] /\ line'[b][g - 1] = HeadOf(b)
    BY <2>1, Published DEF HeadOf
  <2> QED  BY <2>2, <1>3
<1> QED  BY <1>1, <1>2, <1>3, Published, HeadIsDoc

-----------------------------------------------------------------------------
(* The steps.                                                              *)

(* What the invariant says of sessions, commands and keys.                 *)
StandingInv ==
    /\ SessionsCurrent /\ LeasesExclude /\ CommandKeys /\ CommandPhase /\ CommandProgress
    /\ PartedIsSplit /\ HeadsSignable /\ KeysKept

(* What a client has on file: part of the type invariant.                  *)
Trusting ==
    /\ pin \in [Clients -> KeyFile] /\ last \in [Clients -> [Branch -> Nat]]
    /\ \A d \in Clients, a \in Branch : last[d][a] <= Len(line[a])

(* What a fetch records is a key and a generation there is.                *)
LEMMA PersistType ==
    ASSUME RotationTypeOK, NEW c \in Clients, NEW b \in Branch, Persist(c, b)
    PROVE  /\ pin' \in [Clients -> KeyFile] /\ last' \in [Clients -> [Branch -> Nat]]
           /\ \A d \in Clients, a \in Branch : last'[d][a] <= Len(line[a])
           /\ line' = line => Trusting'
<1>1. HeadOf(b).signer \in KeyFile /\ Len(line[b]) \in Nat
  BY HeadIsDoc DEF KeyFile
<1>2. pin' \in [Clients -> KeyFile]
  BY <1>1 DEF RotationTypeOK, Persist
<1>3. last \in [Clients -> [Branch -> Nat]] /\ last' = [last EXCEPT ![c][b] = Len(line[b])]
  BY DEF RotationTypeOK, Persist
<1>4. last' \in [Clients -> [Branch -> Nat]]
  BY <1>1, <1>3
<1>5. ASSUME NEW d \in Clients, NEW a \in Branch PROVE last'[d][a] <= Len(line[a])
  <2>1. CASE d = c /\ a = b  BY <2>1, <1>1, <1>3
  <2>2. CASE ~(d = c /\ a = b)
    <3>1. last'[d][a] = last[d][a]  BY <2>2, <1>3
    <3> QED  BY <3>1 DEF RotationTypeOK
  <2> QED  BY <2>1, <2>2
<1> QED  BY <1>2, <1>4, <1>5 DEF Trusting

(* A session moves and the others stay.                                    *)
LEMMA MovedSession ==
    ASSUME RotationTypeOK, NEW b \in Branch, NEW r \in Sessions, r.base <= Len(line[b]),
           sess' = [sess EXCEPT ![b] = r]
    PROVE  /\ sess' \in [Branch -> Sessions] /\ sess'[b] = r
           /\ \A a \in Branch \ {b} : sess'[a] = sess[a]
           /\ \A a \in Branch : sess'[a].base <= Len(line[a])
<1>1. sess \in [Branch -> Sessions] /\ \A a \in Branch : sess[a].base <= Len(line[a])
  BY DEF RotationTypeOK
<1>2. sess'[b] = r /\ \A a \in Branch \ {b} : sess'[a] = sess[a]
  BY <1>1
<1> QED  BY <1>1, <1>2

(* The records a session goes through.                                     *)
LEMMA SessionRecords ==
    \A at \in {"off", "on", "archive", "rename", "sign"}, base \in Nat, key \in KeyFile :
        /\ Mounted(at, base, key) \in Sessions /\ Mounted(at, base, key).at = at
        /\ Mounted(at, base, key).base = base /\ Mounted(at, base, key).key = key
  BY DEF Mounted, Sessions

(* A session is typed and never ahead of its branch.                       *)
LEMMA SessionIsRecord ==
    ASSUME RotationTypeOK, NEW b \in Branch
    PROVE  sess[b].base \in Nat /\ sess[b].base <= Len(line[b])
  BY DEF RotationTypeOK, Sessions

(* Where neither a branch nor the command moves, and keys are only         *)
(* archived, what they say of each other stands.                           *)
LEMMA Unmoved ==
    ASSUME StandingInv, UNCHANGED <<line, cmd, live, pending, parted>>, retired \subseteq retired'
    PROVE  /\ CommandKeys' /\ CommandPhase' /\ CommandProgress' /\ PartedIsSplit'
           /\ HeadsSignable' /\ KeysKept'
<1>1. \A b : HeadOf(b)' = HeadOf(b)
  BY DEF HeadOf
<1>2. CommandKeys' /\ CommandPhase'
  BY DEF StandingInv, CommandKeys, CommandPhase, HeadOf
<1>3. CommandProgress'
  BY DEF StandingInv, CommandProgress, Retracted, HeadOf
<1>4. PartedIsSplit' /\ HeadsSignable' /\ KeysKept'
  BY DEF StandingInv, PartedIsSplit, NoLeases, Split, HeadsSignable, KeysKept, HeadOf
<1> QED  BY <1>2, <1>3, <1>4

(* Any client reads a head: trust is all that moves.                       *)
LEMMA LookStep ==
    ASSUME RotationTypeOK, StandingInv, NEW c \in Clients, NEW b \in Branch, Look(c, b)
    PROVE  RotationTypeOK' /\ StandingInv'
<1>1. UNCHANGED <<line, keyFiles, minted, cmd, sess, parted, stops, bounds>> /\ Persist(c, b)
  BY DEF Look, FetchOK
<1>2. Trusting'
  BY <1>1, PersistType
<1>3. RotationTypeOK'
  BY <1>1, <1>2 DEF RotationTypeOK, Trusting, keyFiles, bounds
<1>4. SessionsCurrent' /\ LeasesExclude'
  BY <1>1 DEF StandingInv, SessionsCurrent, LeasesExclude, NoLeases, HeadOf, keyFiles
<1> QED  BY <1>1, <1>3, <1>4, Unmoved DEF StandingInv, keyFiles

(* A session moves where no branch, no key file and no trust does.         *)
LEMMA SessionTyped ==
    ASSUME RotationTypeOK, NEW b \in Branch, NEW r \in Sessions, r.base <= Len(line[b]),
           sess' = [sess EXCEPT ![b] = r], UNCHANGED <<line, minted, cmd, parted, stops>>,
           live' \in Key, pending' \in KeyFile, retired' \subseteq Key, Trusting',
           mounts' \in Nat, seals' \in Nat
    PROVE  RotationTypeOK'
  BY MovedSession DEF RotationTypeOK, Trusting

(* Trust that stays is still typed.                                        *)
LEMMA SameTrust ==
    ASSUME RotationTypeOK, UNCHANGED <<line, trust>>
    PROVE  Trusting'
  BY DEF RotationTypeOK, Trusting, trust

(* Sessions come, go and begin to seal: no key file and no branch moves.   *)
LEMMA SessionStep ==
    ASSUME RotationTypeOK, StandingInv, NEW b \in Branch,
           Mount(b) \/ BeginSeal(b) \/ Unmount(b)
    PROVE  RotationTypeOK' /\ StandingInv'
<1>1. UNCHANGED <<line, live, pending, retired, minted, cmd, parted, stops>>
  BY DEF Mount, BeginSeal, Unmount, keyFiles
<1>2. /\ live \in Key /\ live \in KeyFile /\ pending \in KeyFile /\ retired \subseteq Key
      /\ mounts \in Nat /\ seals \in Nat /\ Len(line[b]) \in Nat
  BY HeadIsDoc DEF RotationTypeOK, KeyFile
<1>a. NoKey \in KeyFile /\ 0 \in Nat /\ 0 <= Len(line[b])
  BY <1>2 DEF KeyFile
<1>3. CASE Mount(b)
  <2>1. Persist(Writer, b) /\ NoLeases /\ sess' = [sess EXCEPT ![b] = Mounted("on", Len(line[b]), NoKey)]
        /\ mounts' \in Nat /\ seals' \in Nat
    BY <1>2, <1>3 DEF Mount, FetchOK
  <2>2. /\ Mounted("on", Len(line[b]), NoKey) \in Sessions
        /\ Mounted("on", Len(line[b]), NoKey).at = "on"
        /\ Mounted("on", Len(line[b]), NoKey).base = Len(line[b])
        /\ Mounted("on", Len(line[b]), NoKey).base <= Len(line[b])
    BY <1>2, <1>a, SessionRecords
  <2>3. Trusting'
    BY <1>1, <2>1, PersistType DEF Clients
  <2>4. RotationTypeOK'
    <3> DEFINE r == Mounted("on", Len(line[b]), NoKey)
    <3> HIDE DEF r
    <3>1. r \in Sessions /\ r.base <= Len(line[b]) /\ sess' = [sess EXCEPT ![b] = r]
      BY <2>1, <2>2 DEF r
    <3>2. /\ UNCHANGED <<line, minted, cmd, parted, stops>>
          /\ live' \in Key /\ pending' \in KeyFile /\ retired' \subseteq Key
          /\ mounts' \in Nat /\ seals' \in Nat
      BY <1>1, <1>2, <2>1
    <3> QED  BY <3>1, <3>2, <2>3, SessionTyped
  <2>5. SessionsCurrent'
    BY <1>1, <1>2, <2>1, <2>2, MovedSession DEF StandingInv, SessionsCurrent, HeadOf
  <2>6. LeasesExclude'
    BY <1>1, <2>1 DEF LeasesExclude, NoLeases
  <2> QED  BY <1>1, <2>4, <2>5, <2>6, Unmoved DEF StandingInv
<1>4. CASE BeginSeal(b)
  <2>1. sess[b].at = "on" /\ Parent(b) = HeadOf(b)
    BY <1>4 DEF StandingInv, SessionsCurrent, BeginSeal, Parent, HeadOf
  <2>2. UNCHANGED <<trust, mounts>> /\ seals' \in Nat
    BY <1>2, <1>4 DEF BeginSeal
  <2>3. \/ /\ sess' = [sess EXCEPT ![b] = Mounted("archive", sess[b].base, NoKey)]
           /\ pending = HeadOf(b).signer
        \/ /\ sess' = [sess EXCEPT ![b] = Mounted("sign", sess[b].base, live)]
           /\ live = HeadOf(b).signer
    BY <1>4, <2>1 DEF BeginSeal, Reconciles
  <2>4. PICK r \in Sessions :
            /\ sess' = [sess EXCEPT ![b] = r] /\ r.base = sess[b].base
            /\ \/ r.at = "archive" /\ pending = HeadOf(b).signer
               \/ r.at = "sign" /\ r.key = HeadOf(b).signer
    BY <1>2, <1>a, <2>3, SessionRecords, SessionIsRecord
  <2>5. RotationTypeOK'
    BY <1>1, <1>2, <2>2, <2>4, SessionIsRecord, SessionTyped, SameTrust
  <2>6. SessionsCurrent'
    <3>1. sess'[b] = r /\ \A a \in Branch \ {b} : sess'[a] = sess[a]
      BY <2>4, SessionIsRecord, MovedSession
    <3> QED  BY <3>1, <1>1, <2>1, <2>4 DEF StandingInv, SessionsCurrent, HeadOf
  <2>7. LeasesExclude'
    BY <1>1, <2>1 DEF StandingInv, LeasesExclude, NoLeases
  <2> QED  BY <1>1, <2>5, <2>6, <2>7, Unmoved DEF StandingInv
<1>5. CASE Unmount(b)
  <2>1. sess[b].at = "on" /\ sess' = [sess EXCEPT ![b] = Off] /\ UNCHANGED <<trust, mounts, seals>>
    BY <1>5 DEF Unmount, bounds
  <2>2. Off \in Sessions /\ Off.at = "off" /\ Off.base = 0
    BY <1>a, SessionRecords DEF Off
  <2>3. RotationTypeOK'
    BY <1>1, <1>2, <1>a, <2>1, <2>2, SessionTyped, SameTrust
  <2>4. SessionsCurrent'
    BY <1>1, <1>a, <2>1, <2>2, MovedSession DEF StandingInv, SessionsCurrent, HeadOf
  <2>5. LeasesExclude'
    BY <1>1, <2>1 DEF StandingInv, LeasesExclude, NoLeases
  <2> QED  BY <1>1, <2>3, <2>4, <2>5, Unmoved DEF StandingInv
<1> QED  BY <1>3, <1>4, <1>5

(* A session promotes: every head is signed by the pending key then, or    *)
(* the branches were parted before.                                        *)
LEMMA ReconcileStep ==
    ASSUME RotationTypeOK, StandingInv, NEW b \in Branch, SealArchive(b) \/ SealRename(b)
    PROVE  RotationTypeOK' /\ StandingInv'
<1>1. /\ live \in Key /\ live \in KeyFile /\ pending \in KeyFile /\ retired \subseteq Key
      /\ mounts \in Nat /\ seals \in Nat /\ Len(line[b]) \in Nat /\ NoKey \in KeyFile
  BY HeadIsDoc DEF RotationTypeOK, KeyFile
<1>2. NoLeases
  BY DEF StandingInv, LeasesExclude, SealArchive, SealRename
<1>3. CASE SealArchive(b)
  <2>1. UNCHANGED <<line, live, pending, minted, trust, cmd, parted, stops, mounts, seals>>
    BY <1>3 DEF SealArchive, bounds
  <2>2. retired \subseteq retired' /\ retired' \subseteq Key
    BY <1>1, <1>3 DEF SealArchive, Archive
  <2>3. PICK at \in {"rename", "on"} :
            /\ sess' = [sess EXCEPT ![b] = Mounted(at, sess[b].base, NoKey)]
            /\ at = "rename" => live \in retired'
    BY <1>3 DEF SealArchive, Archive
  <2>4. PICK r \in Sessions : sess' = [sess EXCEPT ![b] = r] /\ r.base = sess[b].base /\ r.at = at
    <3>1. Mounted(at, sess[b].base, NoKey) \in Sessions /\ Mounted(at, sess[b].base, NoKey).at = at
          /\ Mounted(at, sess[b].base, NoKey).base = sess[b].base
      BY <1>1, SessionRecords, SessionIsRecord
    <3> QED  BY <2>3, <3>1
  <2>5. RotationTypeOK'
    BY <1>1, <2>1, <2>2, <2>4, SessionIsRecord, SessionTyped, SameTrust
  <2>6. SessionsCurrent'
    <3>1. sess'[b] = r /\ \A a \in Branch \ {b} : sess'[a] = sess[a]
      BY <2>4, SessionIsRecord, MovedSession
    <3>2. /\ sess[b].base = Len(line[b]) /\ pending \in {HeadOf(b).signer, NoKey}
      BY <1>3 DEF SealArchive, StandingInv, SessionsCurrent
    <3> QED  BY <3>1, <3>2, <2>1, <2>2, <2>3, <2>4 DEF StandingInv, SessionsCurrent, HeadOf
  <2>7. LeasesExclude'
    BY <1>2, <2>1 DEF LeasesExclude, NoLeases
  <2> QED  BY <2>1, <2>2, <2>5, <2>6, <2>7, Unmoved DEF StandingInv
<1>4. CASE SealRename(b)
  <2>1. UNCHANGED <<line, retired, minted, trust, cmd, parted, stops, mounts, seals>>
    BY <1>4 DEF SealRename, bounds
  <2>2. sess[b].at = "rename" /\ Parent(b) = HeadOf(b)
    BY <1>4 DEF StandingInv, SessionsCurrent, SealRename, Parent, HeadOf
  <2>3. NoLeases'
    BY <1>2, <2>1 DEF NoLeases
  <2>4. \/ /\ pending # NoKey /\ pending = HeadOf(b).signer /\ live \in retired
           /\ live' = pending /\ pending' = NoKey
           /\ sess' = [sess EXCEPT ![b] = Mounted("sign", sess[b].base, pending)]
        \/ /\ pending = NoKey /\ UNCHANGED <<live, pending>>
           /\ sess' = [sess EXCEPT ![b] = Mounted("on", sess[b].base, NoKey)]
    BY <1>4, <2>2 DEF StandingInv, SessionsCurrent, SealRename, Rename
  <2>5. PICK r \in Sessions :
            /\ sess' = [sess EXCEPT ![b] = r] /\ r.base = sess[b].base
            /\ \/ r.at = "on"
               \/ r.at = "sign" /\ r.key = HeadOf(b).signer
    BY <1>1, <2>4, SessionRecords, SessionIsRecord
  <2>6. live' \in Key /\ pending' \in KeyFile
    BY <1>1, <2>4, HeadIsDoc
  <2>7. RotationTypeOK'
    BY <1>1, <2>1, <2>5, <2>6, SessionIsRecord, SessionTyped, SameTrust
  <2>8. SessionsCurrent'
    <3>1. sess'[b] = r /\ \A a \in Branch \ {b} : sess'[a] = sess[a]
      BY <2>5, SessionIsRecord, MovedSession
    <3>2. sess[b].base = Len(line[b]) /\ pending' \in {pending, NoKey} /\ (pending' # NoKey => live' = live)
      BY <2>2, <2>4 DEF StandingInv, SessionsCurrent
    <3> QED  BY <3>1, <3>2, <2>1, <2>5 DEF StandingInv, SessionsCurrent, HeadOf
  <2>9. LeasesExclude' /\ CommandKeys' /\ CommandPhase' /\ CommandProgress'
    BY <1>2, <2>1, <2>3
    DEF StandingInv, NoLeases, LeasesExclude, CommandKeys, CommandPhase, CommandProgress
  <2>10. PartedIsSplit' /\ HeadsSignable'
    <3>1. \A a \in Branch : HeadOf(a).signer \in Key /\ HeadOf(a).signer # NoKey
      BY HeadIsDoc DEF Key, NoKey
    <3>2. CASE pending = NoKey
      BY <3>2, <1>2, <2>1, <2>4 DEF StandingInv, PartedIsSplit, Split, HeadsSignable, HeadOf
    <3>3. CASE pending # NoKey
      <4>1. parted \/ \A a \in Branch : HeadOf(a).signer = pending
        BY <3>3, <1>2, <2>4 DEF StandingInv, PartedIsSplit, Split
      <4>2. \A a \in Branch : HeadOf(a)' = HeadOf(a)
        BY <2>1 DEF HeadOf
      <4> QED  BY <3>1, <3>3, <4>1, <4>2, <2>1, <2>4 DEF PartedIsSplit, Split, HeadsSignable
    <3> QED  BY <3>2, <3>3
  <2>11. KeysKept'
    BY <2>1, <2>4 DEF StandingInv, KeysKept, HeadOf
  <2> QED  BY <2>7, <2>8, <2>9, <2>10, <2>11 DEF StandingInv
<1> QED  BY <1>3, <1>4

(* A seal is published: its branch keeps its signer and drops what it      *)
(* announced.                                                              *)
LEMMA SealStep ==
    ASSUME RotationTypeOK, StandingInv, NEW b \in Branch, SealFlip(b)
    PROVE  RotationTypeOK' /\ StandingInv' /\ (CustodyUnbroken => CustodyUnbroken')
<1>1. /\ Publish(b, sess[b].key, NoKey) /\ NoKey \in KeyFile
      /\ sess[b].key = HeadOf(b).signer /\ sess[b].key \in Key
  BY HeadIsDoc DEF SealFlip, StandingInv, SessionsCurrent, KeyFile
<1> DEFINE r == Mounted("on", Len(line[b]) + 1, NoKey)
<1>a. /\ sess' = [sess EXCEPT ![b] = r]
      /\ UNCHANGED <<live, pending, retired, minted, trust, cmd, parted, stops, mounts, seals>>
  BY DEF SealFlip, keyFiles, bounds
<1>b. Len(line[b]) \in Nat /\ r \in Sessions /\ r.base = Len(line[b]) + 1 /\ r.at = "on"
  <2>1. Len(line[b]) \in Nat /\ Len(line[b]) + 1 \in Nat
    BY HeadIsDoc
  <2> QED  BY <1>1, <2>1, SessionRecords
<1>c. /\ sess' \in [Branch -> Sessions] /\ sess'[b] = r
      /\ \A a \in Branch \ {b} : sess'[a] = sess[a]
  BY <1>a, <1>b DEF RotationTypeOK
<1>d. /\ line' \in [Branch -> Seq(Doc)] /\ \A a \in Branch : line'[a] # <<>>
      /\ Len(line'[b]) = Len(line[b]) + 1
      /\ \A a \in Branch \ {b} : line'[a] = line[a] /\ HeadOf(a)' = HeadOf(a)
      /\ \A a \in Branch : Len(line'[a]) \in Nat /\ Len(line[a]) <= Len(line'[a])
  BY <1>1, Published
<1>e. \A a \in Branch : sess'[a].base <= Len(line'[a])
  BY <1>a, <1>b, <1>c, <1>d DEF RotationTypeOK
<1>f. \A c \in Clients, a \in Branch : last'[c][a] <= Len(line'[a])
  <2> TAKE c \in Clients, a \in Branch
  <2>1. last[c][a] \in Nat /\ last[c][a] <= Len(line[a]) /\ Len(line[a]) \in Nat
    BY HeadIsDoc DEF RotationTypeOK
  <2> QED  BY <2>1, <1>a, <1>d DEF trust
<1>2. RotationTypeOK'
  BY <1>a, <1>c, <1>d, <1>e, <1>f DEF RotationTypeOK, trust
<1>3. \A a \in Branch : HeadOf(a)'.signer = HeadOf(a).signer /\ HeadOf(a)'.next \in {HeadOf(a).next, NoKey}
  BY <1>1, Published
<1>4. NoLeases /\ NoLeases'
  BY DEF StandingInv, LeasesExclude, NoLeases, SealFlip
<1>5. SessionsCurrent'
  BY <1>a, <1>b, <1>c, <1>d DEF StandingInv, SessionsCurrent
<1>6. LeasesExclude' /\ CommandKeys' /\ CommandPhase' /\ CommandProgress'
  BY <1>a, <1>4
  DEF StandingInv, NoLeases, LeasesExclude, CommandKeys, CommandPhase, CommandProgress
<1>7. PartedIsSplit' /\ HeadsSignable' /\ KeysKept'
  BY <1>3, <1>4 DEF SealFlip, keyFiles, StandingInv, PartedIsSplit, Split, HeadsSignable, KeysKept
<1>8. CustodyUnbroken => CustodyUnbroken'
  BY <1>1, CustodyStep
<1> QED  BY <1>2, <1>5, <1>6, <1>7, <1>8 DEF StandingInv
-----------------------------------------------------------------------------
(* The steps of the command.                                               *)

(* The command goes to another of its points.                              *)
LEMMA Going ==
    ASSUME cmd \in Commands, NEW point \in Points, Goto(point)
    PROVE  /\ cmd' \in Commands /\ cmd'.at = point
           /\ cmd'.kind = cmd.kind /\ cmd'.b = cmd.b
           /\ cmd'.live = cmd.live /\ cmd'.pending = cmd.pending
  BY DEF Goto, Commands

(* A command that ends leaves nothing to be asked of it, but that branches *)
(* it has parted are known to be.                                          *)
LEMMA Ending ==
    ASSUME End
    PROVE  /\ cmd' \in Commands /\ cmd'.at = "idle" /\ NoLeases' /\ LeasesExclude'
           /\ CommandKeys' /\ CommandPhase' /\ CommandProgress' /\ PartedIsSplit'
           /\ (parted \in BOOLEAN => parted' \in BOOLEAN) /\ (parted => parted')
<1>1. cmd' = Idle /\ parted' = (parted \/ Split')
  BY DEF End
<1>2. Idle \in Commands /\ Idle.at = "idle" /\ Idle.live = NoKey
  BY RotationAssumption DEF Idle, Commands, Points, Kinds, Branch, KeyFile
<1>3. cmd'.at = "idle" /\ cmd'.live = NoKey /\ NoLeases'
  BY <1>1, <1>2 DEF NoLeases
<1> QED
  BY <1>1, <1>2, <1>3 DEF LeasesExclude, CommandKeys, CommandPhase, CommandProgress, PartedIsSplit

(* What comes after a branch.                                              *)
LEMMA Continuing ==
    ASSUME cmd \in Commands, NextBranch
    PROVE  /\ \/ End
              \/ /\ cmd' \in Commands /\ parted' = parted /\ cmd'.kind = cmd.kind
                 /\ cmd'.live = cmd.live /\ cmd'.pending = cmd.pending
                 /\ \/ cmd'.at = "fetch" /\ cmd'.b = cmd.b + 1
                    \/ cmd'.at = "archive" /\ cmd.kind = "rotate" /\ cmd.b = NumBranches
                    \/ cmd'.at = "discard" /\ cmd.kind = "abort" /\ cmd.b = NumBranches
<1>1. cmd.b \in 1..NumBranches /\ cmd.kind \in {"rotate", "announce", "abort"} /\ NumBranches \in Nat
  BY RotationAssumption DEF Commands, Branch, Kinds
<1>2. CASE cmd.b < NumBranches
  <2>1. cmd' = [cmd EXCEPT !.at = "fetch", !.b = @ + 1] /\ parted' = parted
    BY <1>2 DEF NextBranch
  <2>2. cmd.b + 1 \in Branch /\ "fetch" \in Points
    BY <1>1, <1>2 DEF Branch, Points
  <2> QED  BY <2>1, <2>2 DEF Commands
<1>3. CASE ~(cmd.b < NumBranches)
  <2>1. cmd.b = NumBranches /\ "archive" \in Points /\ "discard" \in Points
    BY <1>1, <1>3 DEF Points
  <2>2. \/ cmd.kind = "rotate" /\ Goto("archive") /\ parted' = parted
        \/ cmd.kind = "abort" /\ Goto("discard") /\ parted' = parted
        \/ End
    BY <1>1, <1>3 DEF NextBranch
  <2> QED  BY <2>1, <2>2, Going
<1> QED  BY <1>2, <1>3

(* Past its leases the command is alone: sessions stay off.                *)
LEMMA Alone ==
    ASSUME StandingInv, ~NoLeases, UNCHANGED sess
    PROVE  SessionsCurrent' /\ LeasesExclude'
  BY DEF StandingInv, LeasesExclude, SessionsCurrent

(* What each decision is taken on.                                         *)
LEMMA Deciding ==
    ASSUME cmd.kind \in Kinds, NEW doc, NEW step, step = StepFor(Phase(doc))
    PROVE  /\ step \in {"fail", "next", "announce", "execute", "retract"}
           /\ (step = "next" /\ cmd.kind = "abort") => doc.signer = cmd.live /\ doc.next = NoKey
           /\ (step = "next" /\ cmd.kind # "abort") => doc.signer = cmd.pending
           /\ step = "announce" => cmd.kind # "abort" /\ doc.signer = cmd.live
           /\ step = "execute" => cmd.kind # "abort" /\ doc.next = cmd.pending
           /\ step = "retract" => cmd.kind = "abort" /\ doc.signer = cmd.live
  BY DEF StepFor, Phase, Kinds

(* Where a step of the command moves no branch, no session and no count of *)
(* theirs, its types are those of what it does move.                       *)
LEMMA CommandTyped ==
    ASSUME RotationTypeOK, UNCHANGED <<line, sess, mounts, seals>>, Trusting',
           live' \in Key, pending' \in KeyFile, retired' \subseteq Key, minted' \in Key,
           cmd' \in Commands, parted' \in BOOLEAN, stops' \in Nat
    PROVE  RotationTypeOK'
  BY DEF RotationTypeOK, Trusting

(* Where heads and keys stay and keys are only archived, they can still    *)
(* be sealed.                                                              *)
LEMMA KeysStand ==
    ASSUME StandingInv, UNCHANGED <<line, live, pending>>, retired \subseteq retired',
           parted => parted'
    PROVE  HeadsSignable' /\ KeysKept'
  BY DEF StandingInv, HeadsSignable, KeysKept, HeadOf

(* Before the leases: heads are read, and nothing else happens.            *)
LEMMA SurveyStep ==
    ASSUME RotationTypeOK, StandingInv,
           (\E kind \in Kinds : Start(kind)) \/ Survey \/ TakeLeases
    PROVE  RotationTypeOK' /\ StandingInv'
<1>1. UNCHANGED <<line, live, pending, retired, minted, sess, stops, mounts, seals>> /\ NoLeases
  BY DEF Start, Survey, TakeLeases, keyFiles, bounds, At, NoLeases
<1>2. /\ cmd \in Commands /\ cmd.b \in 1..NumBranches /\ NumBranches \in Nat /\ 1 \in 1..NumBranches
      /\ live \in Key /\ live # NoKey /\ live \in KeyFile /\ pending \in KeyFile
      /\ retired \subseteq Key /\ minted \in Key /\ stops \in Nat /\ parted \in BOOLEAN
  BY RotationAssumption DEF RotationTypeOK, Commands, Branch, Key, KeyFile, NoKey
<1>3. SessionsCurrent'
  BY <1>1 DEF StandingInv, SessionsCurrent, HeadOf
<1>4. Trusting' /\ cmd' \in Commands
  <2>1. ASSUME NEW kind \in Kinds, Start(kind) PROVE Trusting' /\ cmd' \in Commands
    <3>1. cmd' \in Commands
      BY <1>2, <2>1 DEF Start, Idle, Commands, Points, Branch, KeyFile
    <3> QED  BY <2>1, <3>1, SameTrust DEF Start
  <2>2. ASSUME Survey PROVE Trusting' /\ cmd' \in Commands
    <3>1. cmd' \in Commands
      <4>1. CASE cmd.b < NumBranches
        <5>1. cmd.b + 1 \in Branch /\ cmd' = [cmd EXCEPT !.b = @ + 1]
          BY <1>2, <2>2, <4>1 DEF Survey, Branch
        <5> QED  BY <1>2, <5>1 DEF Commands
      <4>2. CASE ~(cmd.b < NumBranches)
        BY <1>2, <2>2, <4>2 DEF Survey, Commands, Branch
      <4> QED  BY <4>1, <4>2
    <3>2. Writer \in Clients /\ cmd.b \in Branch
      BY <1>2 DEF Clients, Branch
    <3>3. Persist(Writer, cmd.b) \/ UNCHANGED trust
      BY <2>2 DEF Survey
    <3> QED  BY <1>1, <3>1, <3>2, <3>3, SameTrust, PersistType
  <2>3. ASSUME TakeLeases PROVE Trusting' /\ cmd' \in Commands
    <3>1. UNCHANGED <<line, trust>> /\ (End \/ Goto("keys")) /\ "keys" \in Points
      BY <2>3 DEF TakeLeases, Points
    <3> QED  BY <1>2, <3>1, SameTrust, Ending, Going
  <2> QED  BY <2>1, <2>2, <2>3
<1>5. ASSUME End PROVE StandingInv' /\ parted' \in BOOLEAN
  BY <1>1, <1>2, <1>3, <1>5, Ending, KeysStand DEF StandingInv
<1>6. ASSUME ~End PROVE StandingInv' /\ parted' = parted
  <2>1. parted' = parted
    BY <1>6 DEF Start, Survey, TakeLeases
  <2>2. \/ cmd'.at = "survey" /\ (cmd'.live # NoKey => cmd'.b = 1)
        \/ cmd'.at = "keys" /\ cmd'.b = 1 /\ \A b \in Branch : sess[b].at = "off"
    <3>1. ASSUME NEW kind \in Kinds, Start(kind) PROVE cmd'.at = "survey" /\ cmd'.live = NoKey
      BY <3>1 DEF Start, Idle
    <3>2. ASSUME Survey PROVE cmd'.at = "survey" /\ (cmd'.live # NoKey => cmd'.b = 1)
      BY <1>2, <3>2 DEF Survey, At, Commands
    <3>3. ASSUME TakeLeases
          PROVE  cmd'.at = "keys" /\ cmd'.b = 1 /\ \A b \in Branch : sess[b].at = "off"
      <4>1. cmd.at = "survey" /\ cmd.live # NoKey /\ Goto("keys") /\ \A b \in Branch : sess[b].at = "off"
        BY <1>6, <3>3 DEF TakeLeases, At
      <4>2. cmd.b = 1
        BY <4>1 DEF StandingInv, CommandProgress
      <4> QED  BY <1>2, <4>1, <4>2, Going DEF Points
    <3> QED  BY <3>1, <3>2, <3>3
  <2>3. LeasesExclude'
    BY <1>1, <2>2 DEF LeasesExclude, NoLeases
  <2>4. CommandKeys' /\ CommandPhase' /\ CommandProgress'
    BY <2>2 DEF CommandKeys, CommandPhase, CommandProgress
  <2>5. PartedIsSplit'
    BY <1>1, <2>1 DEF StandingInv, PartedIsSplit, Split, HeadOf
  <2> QED  BY <1>1, <1>3, <2>1, <2>3, <2>4, <2>5, KeysStand DEF StandingInv
<1>7. RotationTypeOK'
  BY <1>1, <1>2, <1>4, <1>5, <1>6, CommandTyped
<1> QED  BY <1>5, <1>6, <1>7

(* The keys are read, and a successor is made where there is none.         *)
LEMMA ReadKeysStep ==
    ASSUME RotationTypeOK, StandingInv, ReadKeys
    PROVE  RotationTypeOK' /\ StandingInv'
<1>1. /\ cmd.at = "keys" /\ cmd.b = 1 /\ ~NoLeases
      /\ UNCHANGED <<line, live, retired, trust, sess, parted, stops, mounts, seals>>
  BY DEF ReadKeys, At, NoLeases, StandingInv, CommandProgress, bounds
<1>2. /\ cmd \in Commands /\ live \in Key /\ live \in KeyFile /\ pending \in KeyFile
      /\ retired \subseteq Key /\ minted \in Key /\ stops \in Nat /\ parted \in BOOLEAN
  BY DEF RotationTypeOK, Key, KeyFile
<1>3. /\ pending' \in KeyFile /\ minted' \in Key /\ (pending # NoKey => pending' = pending)
      /\ (cmd.kind # "abort" => pending' # NoKey)
  BY <1>2, RotationAssumption DEF ReadKeys, Key, KeyFile, NoKey
<1>4. /\ cmd' \in Commands /\ cmd'.at = "fetch" /\ cmd'.kind = cmd.kind /\ cmd'.b = 1
      /\ cmd'.live = live /\ cmd'.pending = pending'
  BY <1>1, <1>2, <1>3 DEF ReadKeys, Commands, Points
<1>5. RotationTypeOK'
  BY <1>1, <1>2, <1>3, <1>4, SameTrust, CommandTyped
<1>6. SessionsCurrent' /\ LeasesExclude'
  BY <1>1, Alone
<1>7. CommandKeys' /\ CommandPhase' /\ CommandProgress' /\ PartedIsSplit'
  BY <1>1, <1>3, <1>4 DEF CommandKeys, CommandPhase, CommandProgress, PartedIsSplit, NoLeases
<1>8. HeadsSignable' /\ KeysKept'
  <2>1. \A b \in Branch : HeadOf(b)' = HeadOf(b) /\ HeadOf(b).signer # NoKey
    BY <1>1, HeadIsDoc DEF HeadOf, Key, NoKey
  <2> QED  BY <1>1, <1>3, <2>1 DEF StandingInv, HeadsSignable, KeysKept
<1> QED  BY <1>5, <1>6, <1>7, <1>8 DEF StandingInv

(* A branch is done, and the command goes on: where the head it leaves     *)
(* behind is the one its kind leaves, the progress made stands.            *)
LEMMA BranchDone ==
    ASSUME cmd \in Commands, StandingInv, NextBranch, ~End, UNCHANGED <<live, pending>>,
           cmd.at \in {"fetch", "refetch", "execute", "retract"},
           NEW a \in Branch, a = cmd.b, \A b \in Branch \ {a} : HeadOf(b)' = HeadOf(b),
           cmd.kind = "rotate" => HeadOf(a)'.signer = pending /\ cmd.at # "retract",
           cmd.kind = "abort" =>
               /\ HeadOf(a)'.signer = live /\ HeadOf(a)'.next = NoKey
               /\ cmd.at \in {"fetch", "retract"}
    PROVE  /\ cmd' \in Commands /\ parted' = parted
           /\ CommandKeys' /\ CommandPhase' /\ CommandProgress' /\ PartedIsSplit'
<1>1. /\ cmd' \in Commands /\ parted' = parted /\ cmd'.kind = cmd.kind
      /\ cmd'.live = cmd.live /\ cmd'.pending = cmd.pending
      /\ \/ cmd'.at = "fetch" /\ cmd'.b = cmd.b + 1
         \/ cmd'.at = "archive" /\ cmd.kind = "rotate" /\ cmd.b = NumBranches
         \/ cmd'.at = "discard" /\ cmd.kind = "abort" /\ cmd.b = NumBranches
  BY Continuing
<1>2. cmd.b \in 1..NumBranches /\ NumBranches \in Nat /\ cmd'.b \in 1..NumBranches
  BY <1>1, RotationAssumption DEF Commands, Branch
<1>3. cmd.live = live /\ cmd.pending = pending /\ (cmd.kind # "abort" => pending # NoKey)
  BY DEF StandingInv, CommandKeys
<1>4. CommandKeys' /\ CommandPhase' /\ PartedIsSplit'
  BY <1>1, <1>3 DEF CommandKeys, CommandPhase, PartedIsSplit, NoLeases
<1>5. ASSUME cmd.kind = "rotate" PROVE \A b \in 1..a : HeadOf(b)'.signer = pending
  <2> TAKE b \in 1..a
  <2>1. CASE b = a  BY <2>1, <1>5
  <2>2. CASE b # a
    <3>1. b \in 1..(cmd.b - 1) /\ b \in Branch
      BY <1>2, <2>2 DEF Branch
    <3>2. HeadOf(b).signer = pending
      BY <3>1, <1>5 DEF StandingInv, CommandProgress
    <3> QED  BY <3>1, <3>2, <2>2
  <2> QED  BY <2>1, <2>2
<1>6. ASSUME cmd.kind = "abort" PROVE \A b \in 1..a : Retracted(b)'
  <2> TAKE b \in 1..a
  <2>1. CASE b = a
    BY <1>1, <1>3, <1>6, <2>1 DEF Retracted
  <2>2. CASE b # a
    <3>1. b \in 1..(cmd.b - 1) /\ b \in Branch
      BY <1>2, <2>2 DEF Branch
    <3>2. Retracted(b) /\ HeadOf(b)' = HeadOf(b)
      BY <3>1, <2>2, <1>6 DEF StandingInv, CommandProgress
    <3> QED  BY <3>2, <1>1 DEF Retracted
  <2> QED  BY <2>1, <2>2
<1>7. CommandProgress'
  BY <1>1, <1>2, <1>5, <1>6 DEF CommandProgress, Branch
<1> QED  BY <1>1, <1>4, <1>7

(* A branch is fetched and judged.                                         *)
LEMMA FetchStep ==
    ASSUME RotationTypeOK, StandingInv, FetchBranch \/ Refetch
    PROVE  RotationTypeOK' /\ StandingInv'
<1>1. /\ UNCHANGED <<line, live, pending, retired, minted, sess, stops, mounts, seals>>
      /\ ~NoLeases /\ cmd.at \in {"fetch", "refetch"}
  BY DEF FetchBranch, Refetch, At, NoLeases, keyFiles, bounds
<1>2. /\ cmd \in Commands /\ cmd.b \in Branch /\ cmd.kind \in Kinds
      /\ live \in Key /\ pending \in KeyFile /\ retired \subseteq Key /\ minted \in Key
      /\ stops \in Nat /\ parted \in BOOLEAN
  BY DEF RotationTypeOK, Commands
<1>3. cmd.live = live /\ cmd.pending = pending /\ (cmd.kind # "abort" => pending # NoKey)
  BY <1>1 DEF StandingInv, CommandKeys
<1>4. SessionsCurrent'
  BY <1>1, Alone
<1>5. Trusting'
  <2>1. Writer \in Clients /\ (Persist(Writer, cmd.b) \/ UNCHANGED trust)
    BY DEF FetchBranch, Refetch, FetchOK, Clients
  <2> QED  BY <1>1, <1>2, <2>1, SameTrust, PersistType
<1>6. \A b \in Branch : HeadOf(b)' = HeadOf(b)
  BY <1>1 DEF HeadOf
<1>7. CASE End
  <2>1. RotationTypeOK'
    BY <1>1, <1>2, <1>5, <1>7, Ending, CommandTyped
  <2> QED  BY <1>1, <1>4, <1>7, <2>1, Ending, KeysStand DEF StandingInv
<1>8. CASE ~End
  <2>1. PICK a \in Branch : a = cmd.b
    BY <1>2
  <2>2. /\ cmd' \in Commands /\ parted' = parted
        /\ CommandKeys' /\ CommandPhase' /\ CommandProgress' /\ PartedIsSplit'
    <3>1. CASE FetchBranch
      <4> DEFINE step == StepFor(Phase(HeadOf(cmd.b)))
      <4> HIDE DEF step
      <4>1. /\ step \in {"fail", "next", "announce", "execute", "retract"}
            /\ (step = "next" /\ cmd.kind = "abort") => HeadOf(a).signer = live /\ HeadOf(a).next = NoKey
            /\ (step = "next" /\ cmd.kind # "abort") => HeadOf(a).signer = pending
            /\ step = "announce" => cmd.kind # "abort" /\ HeadOf(a).signer = live
            /\ step = "execute" => cmd.kind # "abort" /\ HeadOf(a).next = pending
            /\ step = "retract" => cmd.kind = "abort" /\ HeadOf(a).signer = live
        BY <1>2, <1>3, <2>1, Deciding DEF step
      <4>2. cmd.at = "fetch"
        BY <3>1 DEF FetchBranch, At
      <4>3. \/ step = "next" /\ NextBranch
            \/ step \in {"announce", "execute", "retract"} /\ Goto(step) /\ parted' = parted
        BY <1>8, <3>1, <4>1 DEF FetchBranch, step
      <4>4. CASE step = "next" /\ NextBranch
        <5>1. /\ cmd.kind = "rotate" => HeadOf(a)'.signer = pending /\ cmd.at # "retract"
              /\ cmd.kind = "abort" =>
                    /\ HeadOf(a)'.signer = live /\ HeadOf(a)'.next = NoKey
                    /\ cmd.at \in {"fetch", "retract"}
          BY <1>6, <4>1, <4>2, <4>4
        <5> QED  BY <1>1, <1>2, <1>6, <1>8, <2>1, <4>2, <4>4, <5>1, BranchDone
      <4>5. CASE step \in {"announce", "execute", "retract"} /\ Goto(step) /\ parted' = parted
        <5>1. /\ cmd' \in Commands /\ cmd'.at = step /\ cmd'.kind = cmd.kind /\ cmd'.b = cmd.b
              /\ cmd'.live = cmd.live /\ cmd'.pending = cmd.pending
          BY <1>2, <4>5, Going DEF Points
        <5>2. CommandKeys' /\ PartedIsSplit'
          BY <1>1, <1>3, <4>5, <5>1 DEF CommandKeys, PartedIsSplit, NoLeases
        <5>3. CommandPhase'
          <6>1. HeadOf(cmd.b)' = HeadOf(a)
            BY <1>1, <2>1, <5>1 DEF HeadOf
          <6> QED  BY <1>3, <4>1, <4>5, <5>1, <6>1 DEF CommandPhase
        <5>4. CommandProgress'
          <6>1. cmd.kind = "rotate" => \A b \in 1..(cmd.b - 1) : HeadOf(b).signer = pending
            BY <4>2 DEF StandingInv, CommandProgress
          <6>2. cmd.kind = "abort" => \A b \in 1..(cmd.b - 1) : Retracted(b)
            BY <4>2 DEF StandingInv, CommandProgress
          <6> QED  BY <1>1, <4>5, <5>1, <6>1, <6>2 DEF CommandProgress, Retracted, HeadOf
        <5> QED  BY <4>5, <5>1, <5>2, <5>3, <5>4
      <4> QED  BY <4>3, <4>4, <4>5
    <3>2. CASE Refetch
      <4>1. cmd.at = "refetch" /\ HeadOf(a).next = pending
        BY <1>3, <2>1, <3>2 DEF Refetch, At, StandingInv, CommandPhase
      <4>2. \/ cmd.kind = "announce" /\ NextBranch
            \/ cmd.kind = "rotate" /\ Goto("execute") /\ parted' = parted
        BY <1>8, <3>2 DEF Refetch
      <4>3. CASE cmd.kind = "announce" /\ NextBranch
        BY <1>1, <1>2, <1>6, <1>8, <2>1, <4>1, <4>3, BranchDone
      <4>4. CASE cmd.kind = "rotate" /\ Goto("execute") /\ parted' = parted
        <5>1. /\ cmd' \in Commands /\ cmd'.at = "execute" /\ cmd'.kind = "rotate" /\ cmd'.b = cmd.b
              /\ cmd'.live = cmd.live /\ cmd'.pending = cmd.pending
          BY <1>2, <4>4, Going DEF Points
        <5>2. CommandKeys' /\ PartedIsSplit'
          BY <1>1, <1>3, <4>4, <5>1 DEF CommandKeys, PartedIsSplit, NoLeases
        <5>3. CommandPhase'
          <6>1. HeadOf(cmd.b)' = HeadOf(a)
            BY <1>1, <2>1, <5>1 DEF HeadOf
          <6> QED  BY <1>3, <4>1, <5>1, <6>1 DEF CommandPhase
        <5>4. CommandProgress'
          <6>1. \A b \in 1..(cmd.b - 1) : HeadOf(b).signer = pending
            BY <4>1, <4>4 DEF StandingInv, CommandProgress
          <6> QED  BY <1>1, <5>1, <6>1 DEF CommandProgress, HeadOf
        <5> QED  BY <4>4, <5>1, <5>2, <5>3, <5>4
      <4> QED  BY <4>2, <4>3, <4>4
    <3> QED  BY <3>1, <3>2
  <2>3. RotationTypeOK'
    BY <1>1, <1>2, <1>5, <2>2, CommandTyped
  <2>4. LeasesExclude'
    BY <1>1, Alone
  <2> QED  BY <1>1, <1>4, <2>2, <2>3, <2>4, KeysStand DEF StandingInv
<1> QED  BY <1>7, <1>8

(* The types, where the command publishes.                                 *)
LEMMA PublishTyped ==
    ASSUME RotationTypeOK, NEW b \in Branch, NEW key \in Key, NEW next \in KeyFile,
           Publish(b, key, next), cmd' \in Commands, parted' \in BOOLEAN,
           UNCHANGED <<keyFiles, minted, trust, sess, stops, bounds>>
    PROVE  RotationTypeOK'
<1>1. /\ line' \in [Branch -> Seq(Doc)] /\ \A a \in Branch : line'[a] # <<>>
      /\ \A a \in Branch : Len(line'[a]) \in Nat /\ Len(line[a]) <= Len(line'[a])
  BY Published
<1>2. \A c \in Clients, a \in Branch : last'[c][a] <= Len(line'[a])
  <2> TAKE c \in Clients, a \in Branch
  <2>1. last[c][a] \in Nat /\ last[c][a] <= Len(line[a]) /\ Len(line[a]) \in Nat
    BY HeadIsDoc DEF RotationTypeOK
  <2> QED  BY <2>1, <1>1 DEF trust
<1>3. \A a \in Branch : sess'[a].base <= Len(line'[a])
  <2> TAKE a \in Branch
  <2>1. sess[a].base \in Nat /\ sess[a].base <= Len(line[a]) /\ Len(line[a]) \in Nat
    BY HeadIsDoc, SessionIsRecord
  <2> QED  BY <2>1, <1>1
<1> QED  BY <1>1, <1>2, <1>3 DEF RotationTypeOK, keyFiles, trust, bounds

(* The three generations the command publishes.                            *)
LEMMA PublishStep ==
    ASSUME RotationTypeOK, StandingInv, Announce \/ ExecuteBranch \/ Retract
    PROVE  RotationTypeOK' /\ StandingInv' /\ (CustodyUnbroken => CustodyUnbroken')
<1>1. /\ UNCHANGED <<keyFiles, minted, trust, sess, stops, bounds>>
      /\ UNCHANGED <<live, pending, retired>>
      /\ cmd.at \in {"announce", "execute", "retract"} /\ ~NoLeases
  BY DEF Announce, ExecuteBranch, Retract, At, NoLeases, keyFiles
<1>2. /\ cmd \in Commands /\ cmd.b \in Branch /\ live \in Key /\ live \in KeyFile
      /\ pending \in KeyFile /\ NoKey \in KeyFile /\ parted \in BOOLEAN
  BY DEF RotationTypeOK, Commands, KeyFile
<1>3. cmd.live = live /\ cmd.pending = pending /\ (cmd.kind # "abort" => pending # NoKey)
  BY <1>1 DEF StandingInv, CommandKeys
<1>4. PICK a \in Branch : a = cmd.b
  BY <1>2
<1>5. PICK key \in Key, next \in KeyFile :
          /\ Publish(a, key, next) /\ key \in {HeadOf(a).signer, HeadOf(a).next}
          /\ key \in {live, pending} /\ next \in {live, pending, NoKey}
          /\ cmd.at = "announce" => next = pending /\ cmd.kind # "abort"
          /\ cmd.at = "execute" => key = pending /\ cmd.kind # "abort"
          /\ cmd.at = "retract" => key = live /\ next = NoKey /\ cmd.kind = "abort"
  <2>1. CASE Announce
    <3>1. cmd.at = "announce" /\ Publish(a, live, pending) /\ HeadOf(a).signer = live /\ cmd.kind # "abort"
      BY <1>3, <1>4, <2>1 DEF Announce, At, StandingInv, CommandPhase
    <3> QED  BY <1>2, <3>1
  <2>2. CASE ExecuteBranch
    <3>1. cmd.at = "execute" /\ Publish(a, pending, NoKey) /\ HeadOf(a).next = pending /\ cmd.kind # "abort"
      BY <1>3, <1>4, <2>2 DEF ExecuteBranch, At, StandingInv, CommandPhase
    <3>2. pending \in Key
      BY <1>2, <1>3, <3>1 DEF KeyFile
    <3> QED  BY <1>2, <3>1, <3>2
  <2>3. CASE Retract
    <3>1. cmd.at = "retract" /\ Publish(a, live, NoKey) /\ HeadOf(a).signer = live /\ cmd.kind = "abort"
      BY <1>3, <1>4, <2>3 DEF Retract, At, StandingInv, CommandPhase
    <3> QED  BY <1>2, <3>1
  <2> QED  BY <2>1, <2>2, <2>3
<1>6. /\ HeadOf(a)' = [signer |-> key, next |-> next]
      /\ \A b \in Branch \ {a} : line'[b] = line[b] /\ HeadOf(b)' = HeadOf(b)
  BY <1>5, Published
<1>7. SessionsCurrent' /\ LeasesExclude'
  BY <1>1, Alone
<1>8. HeadsSignable' /\ KeysKept'
  <2>1. HeadOf(a)'.signer = key /\ HeadOf(a)'.next = next
    BY <1>6
  <2>2. KeysKept'
    BY <1>1, <1>5, <1>6, <2>1 DEF StandingInv, KeysKept
  <2>3. parted => parted'
    <3>1. CASE NextBranch  BY <1>2, <3>1, Continuing, Ending
    <3>2. CASE Announce  BY <3>2 DEF Announce
    <3> QED  BY <3>1, <3>2 DEF ExecuteBranch, Retract
  <2>4. HeadsSignable'
    BY <1>1, <1>5, <1>6, <2>1, <2>3 DEF StandingInv, HeadsSignable
  <2> QED  BY <2>2, <2>4
<1>9. /\ cmd' \in Commands /\ parted' \in BOOLEAN
      /\ CommandKeys' /\ CommandPhase' /\ CommandProgress' /\ PartedIsSplit'
  <2>1. CASE End
    BY <1>2, <2>1, Ending
  <2>2. CASE ~End /\ cmd.at = "announce"
    <3>1. Goto("refetch") /\ parted' = parted
      BY <2>2 DEF Announce, ExecuteBranch, Retract, At
    <3>2. /\ cmd' \in Commands /\ cmd'.at = "refetch" /\ cmd'.kind = cmd.kind /\ cmd'.b = cmd.b
          /\ cmd'.live = cmd.live /\ cmd'.pending = cmd.pending
      BY <1>2, <3>1, Going DEF Points
    <3>3. CommandKeys' /\ PartedIsSplit'
      BY <1>1, <1>3, <3>2 DEF CommandKeys, PartedIsSplit, NoLeases
    <3>4. CommandPhase'
      <4>1. HeadOf(cmd.b)'.next = pending
        BY <1>4, <1>5, <1>6, <2>2, <3>2 DEF HeadOf
      <4> QED  BY <1>3, <1>5, <2>2, <3>2, <4>1 DEF CommandPhase
    <3>5. CommandProgress'
      <4>1. cmd.kind = "rotate" => \A b \in 1..(cmd.b - 1) : HeadOf(b).signer = pending
        BY <2>2 DEF StandingInv, CommandProgress
      <4>2. \A b \in 1..(cmd.b - 1) : HeadOf(b)' = HeadOf(b)
        <5>1. \A b \in 1..(cmd.b - 1) : b \in Branch \ {a}
          BY <1>2, <1>4, RotationAssumption DEF Branch
        <5> QED  BY <5>1, <1>6
      <4>3. cmd'.kind = "rotate" => \A b \in 1..(cmd'.b - 1) : HeadOf(b)'.signer = pending'
        BY <1>1, <3>2, <4>1, <4>2
      <4> QED  BY <3>2, <4>3 DEF CommandProgress
    <3> QED  BY <1>2, <3>1, <3>2, <3>3, <3>4, <3>5
  <2>3. CASE ~End /\ cmd.at # "announce"
    <3>1. NextBranch
      BY <2>3 DEF Announce, ExecuteBranch, Retract, At
    <3>2. /\ cmd.kind = "rotate" => HeadOf(a)'.signer = pending /\ cmd.at # "retract"
          /\ cmd.kind = "abort" =>
                /\ HeadOf(a)'.signer = live /\ HeadOf(a)'.next = NoKey
                /\ cmd.at \in {"fetch", "retract"}
      BY <1>1, <1>5, <1>6, <2>3
    <3>3. cmd.at \in {"fetch", "refetch", "execute", "retract"}
      BY <1>1, <2>3
    <3> QED  BY <1>1, <1>2, <1>4, <1>6, <2>3, <3>1, <3>2, <3>3, BranchDone
  <2> QED  BY <2>1, <2>2, <2>3
<1>10. RotationTypeOK'
  BY <1>1, <1>5, <1>9, PublishTyped
<1>11. CustodyUnbroken => CustodyUnbroken'
  BY <1>5, CustodyStep
<1> QED  BY <1>7, <1>8, <1>9, <1>10, <1>11 DEF StandingInv

(* The successor takes the live key's place, or is thrown away.            *)
LEMMA PromoteStep ==
    ASSUME RotationTypeOK, StandingInv, PromoteArchive \/ PromoteRename \/ Discard
    PROVE  RotationTypeOK' /\ StandingInv'
<1>1. UNCHANGED <<line, minted, trust, sess, stops, mounts, seals>> /\ ~NoLeases
  BY DEF PromoteArchive, PromoteRename, Discard, At, NoLeases, bounds
<1>2. /\ cmd \in Commands /\ live \in Key /\ live \in KeyFile /\ pending \in KeyFile
      /\ NoKey \in KeyFile /\ retired \subseteq Key /\ minted \in Key /\ stops \in Nat
      /\ parted \in BOOLEAN
  BY DEF RotationTypeOK, KeyFile
<1>3. \A b \in Branch : HeadOf(b)' = HeadOf(b) /\ HeadOf(b).signer # NoKey
  BY <1>1, HeadIsDoc DEF HeadOf, Key, NoKey
<1>4. SessionsCurrent' /\ LeasesExclude'
  BY <1>1, Alone
<1>5. CASE PromoteArchive
  <2>1. /\ cmd.at = "archive" /\ Goto("rename") /\ retired' = retired \cup {live}
        /\ UNCHANGED <<live, pending, parted>>
    BY <1>5 DEF PromoteArchive, Archive, At
  <2>2. /\ cmd' \in Commands /\ cmd'.at = "rename" /\ cmd'.kind = cmd.kind
        /\ cmd'.live = cmd.live /\ cmd'.pending = cmd.pending
    BY <1>2, <2>1, Going DEF Points
  <2>3. RotationTypeOK'
    BY <1>1, <1>2, <2>1, <2>2, SameTrust, CommandTyped
  <2>4. CommandKeys' /\ CommandPhase' /\ PartedIsSplit'
    BY <2>1, <2>2 DEF StandingInv, CommandKeys, CommandPhase, PartedIsSplit, NoLeases
  <2>5. CommandProgress'
    BY <1>3, <2>1, <2>2 DEF StandingInv, CommandProgress
  <2> QED  BY <1>1, <1>4, <2>1, <2>3, <2>4, <2>5, KeysStand DEF StandingInv
<1>6. CASE PromoteRename
  <2>1. /\ live' = pending /\ pending' = NoKey /\ retired' = retired /\ End
        /\ pending # NoKey /\ live \in retired /\ \A b \in Branch : HeadOf(b).signer = pending
    BY <1>6 DEF PromoteRename, Rename, At, StandingInv, CommandKeys, CommandProgress
  <2>2. RotationTypeOK'
    BY <1>1, <1>2, <2>1, SameTrust, Ending, CommandTyped DEF KeyFile
  <2>3. HeadsSignable' /\ KeysKept'
    BY <1>3, <2>1 DEF StandingInv, HeadsSignable, KeysKept
  <2> QED  BY <1>4, <2>1, <2>2, <2>3, Ending DEF StandingInv
<1>7. CASE Discard
  <2>1. pending' = NoKey /\ UNCHANGED <<live, retired>> /\ End /\ cmd.at = "discard"
    BY <1>7 DEF Discard, At
  <2>2. \A b \in Branch : HeadOf(b).signer = live /\ HeadOf(b).next = NoKey
    BY <2>1 DEF StandingInv, CommandKeys, CommandProgress, Retracted
  <2>3. RotationTypeOK'
    BY <1>1, <1>2, <2>1, SameTrust, Ending, CommandTyped
  <2>4. HeadsSignable' /\ KeysKept'
    BY <1>3, <2>1, <2>2 DEF HeadsSignable, KeysKept
  <2> QED  BY <1>4, <2>1, <2>3, <2>4, Ending DEF StandingInv
<1> QED  BY <1>5, <1>6, <1>7

(* The command fails or the machine goes down: files and heads stay.       *)
LEMMA StopStep ==
    ASSUME RotationTypeOK, StandingInv, Interrupt \/ Crash
    PROVE  RotationTypeOK' /\ StandingInv'
<1>1. /\ UNCHANGED <<line, live, pending, retired, minted, trust, mounts, seals>> /\ End
      /\ stops \in Nat /\ stops' = stops + 1
      /\ (sess' = sess \/ sess' = [b \in Branch |-> Off])
  BY DEF Interrupt, Crash, keyFiles, bounds, RotationTypeOK
<1>2. /\ cmd' \in Commands /\ LeasesExclude' /\ CommandKeys' /\ CommandPhase'
      /\ CommandProgress' /\ PartedIsSplit' /\ parted' \in BOOLEAN
  BY <1>1, Ending DEF RotationTypeOK
<1>3. HeadsSignable' /\ KeysKept'
  BY <1>1, KeysStand, Ending
<1>4. sess' \in [Branch -> Sessions] /\ \A b \in Branch : sess'[b].base <= Len(line[b])
  <2>1. Off \in Sessions /\ Off.base = 0
    BY SessionRecords DEF Off, KeyFile
  <2>2. CASE sess' = sess  BY <2>2 DEF RotationTypeOK
  <2>3. CASE sess' = [b \in Branch |-> Off]
    <3>1. \A b \in Branch : Len(line[b]) \in Nat
      BY HeadIsDoc
    <3> QED  BY <2>1, <2>3, <3>1
  <2> QED  BY <1>1, <2>2, <2>3
<1>5. Trusting'
  BY <1>1, SameTrust
<1>6. RotationTypeOK'
  BY <1>1, <1>2, <1>4, <1>5 DEF RotationTypeOK, Trusting
<1>7. SessionsCurrent'
  <2>1. Off.at = "off"
    BY SessionRecords DEF Off, KeyFile
  <2>2. CASE sess' = sess  BY <1>1, <2>2 DEF StandingInv, SessionsCurrent, HeadOf
  <2>3. CASE sess' = [b \in Branch |-> Off]  BY <2>1, <2>3 DEF SessionsCurrent
  <2> QED  BY <1>1, <2>2, <2>3
<1> QED  BY <1>2, <1>3, <1>6, <1>7 DEF StandingInv

-----------------------------------------------------------------------------
(* The theorems.                                                           *)

(* A new volume: one generation per branch, and one key.                   *)
LEMMA RotationStarts == Init => RotationInv
<1> SUFFICES ASSUME Init PROVE RotationInv
  OBVIOUS
<1> DEFINE doc == [signer |-> 1, next |-> NoKey]
<1>1. /\ 1 \in Key /\ 1 \in KeyFile /\ NoKey \in KeyFile /\ doc \in Doc /\ 1 # NoKey
      /\ doc.signer = 1 /\ doc.next = NoKey /\ << doc >> \in Seq(Doc) /\ Len(<< doc >>) = 1 /\ << doc >>[1] = doc /\ << doc >> # <<>>
  BY RotationAssumption DEF Key, KeyFile, NoKey, Doc
<1>2. /\ \A b \in Branch : line[b] = << doc >>
      /\ line \in [Branch -> Seq(Doc)] /\ \A b \in Branch : line[b] # <<>>
  BY <1>1 DEF Init
<1>3. \A b \in Branch : HeadOf(b).signer = 1 /\ HeadOf(b).next = NoKey /\ Len(line[b]) = 1
  <2> TAKE b \in Branch
  <2>1. HeadOf(b) = doc /\ Len(line[b]) = 1
    BY <1>1, <1>2 DEF HeadOf
  <2> QED  BY <2>1
<1>4. Off \in Sessions /\ Off.base = 0 /\ Off.at = "off" /\ Idle \in Commands
      /\ Idle.at = "idle" /\ Idle.live = NoKey
  BY <1>1, SessionRecords, RotationAssumption DEF Off, Idle, Commands, Points, Kinds, Branch
<1>5. RotationTypeOK
  <2>1. \A b \in Branch : sess[b] = Off /\ sess[b].base <= Len(line[b])
    BY <1>3, <1>4 DEF Init
  <2>2. \A c \in Clients, b \in Branch : last[c][b] = 0 /\ last[c][b] <= Len(line[b])
    BY <1>3 DEF Init
  <2> QED  BY <1>1, <1>2, <1>4, <2>1, <2>2 DEF Init, RotationTypeOK
<1>6. SessionsCurrent /\ LeasesExclude /\ CommandKeys /\ CommandPhase /\ CommandProgress
  BY <1>4 DEF Init, SessionsCurrent, LeasesExclude, CommandKeys, CommandPhase, CommandProgress, NoLeases
<1>7. PartedIsSplit /\ HeadsSignable /\ KeysKept
  BY <1>1, <1>3 DEF Init, PartedIsSplit, Split, HeadsSignable, KeysKept
<1>8. CustodyUnbroken
  BY <1>3 DEF CustodyUnbroken
<1> QED  BY <1>5, <1>6, <1>7, <1>8 DEF RotationInv

(* Every step keeps the invariant.                                         *)
LEMMA RotationKeeps == RotationInv /\ [Next]_vars => RotationInv'
<1> SUFFICES ASSUME RotationInv, [Next]_vars PROVE RotationInv'
  OBVIOUS
<1>1. RotationTypeOK /\ StandingInv /\ CustodyUnbroken
  BY DEF RotationInv, StandingInv
<1> SUFFICES RotationTypeOK' /\ StandingInv' /\ CustodyUnbroken'
  BY DEF RotationInv, StandingInv
<1>2. ASSUME NEW kind \in Kinds, Start(kind) PROVE RotationTypeOK' /\ StandingInv' /\ line' = line
  BY <1>1, <1>2, SurveyStep DEF Start
<1>3. ASSUME Step PROVE RotationTypeOK' /\ StandingInv' /\ CustodyUnbroken'
  <2>1. CASE Survey \/ TakeLeases
    <3>1. line' = line  BY <2>1 DEF Survey, TakeLeases
    <3> QED  BY <1>1, <2>1, <3>1, SurveyStep, SameHeads
  <2>2. CASE ReadKeys
    <3>1. line' = line  BY <2>2 DEF ReadKeys
    <3> QED  BY <1>1, <2>2, <3>1, ReadKeysStep, SameHeads
  <2>3. CASE FetchBranch \/ Refetch
    <3>1. line' = line  BY <2>3 DEF FetchBranch, Refetch
    <3> QED  BY <1>1, <2>3, <3>1, FetchStep, SameHeads
  <2>4. CASE Announce \/ ExecuteBranch \/ Retract
    BY <1>1, <2>4, PublishStep
  <2>5. CASE PromoteArchive \/ PromoteRename \/ Discard
    <3>1. line' = line  BY <2>5 DEF PromoteArchive, PromoteRename, Discard
    <3> QED  BY <1>1, <2>5, <3>1, PromoteStep, SameHeads
  <2> QED  BY <1>3, <2>1, <2>2, <2>3, <2>4, <2>5 DEF Step
<1>4. ASSUME NEW b \in Branch, Session(b) PROVE RotationTypeOK' /\ StandingInv' /\ CustodyUnbroken'
  <2>1. CASE Mount(b) \/ BeginSeal(b) \/ Unmount(b)
    <3>1. line' = line  BY <2>1 DEF Mount, BeginSeal, Unmount
    <3> QED  BY <1>1, <2>1, <3>1, SessionStep, SameHeads
  <2>2. CASE SealArchive(b) \/ SealRename(b)
    <3>1. line' = line  BY <2>2 DEF SealArchive, SealRename
    <3> QED  BY <1>1, <2>2, <3>1, ReconcileStep, SameHeads
  <2>3. CASE SealFlip(b)
    BY <1>1, <2>3, SealStep
  <2> QED  BY <1>4, <2>1, <2>2, <2>3 DEF Session
<1>5. ASSUME NEW c \in Clients, NEW b \in Branch, Look(c, b)
      PROVE  RotationTypeOK' /\ StandingInv' /\ CustodyUnbroken'
  <2>1. line' = line  BY <1>5 DEF Look
  <2> QED  BY <1>1, <1>5, <2>1, LookStep, SameHeads
<1>6. ASSUME Interrupt \/ Crash PROVE RotationTypeOK' /\ StandingInv' /\ CustodyUnbroken'
  <2>1. line' = line  BY <1>6 DEF Interrupt, Crash
  <2> QED  BY <1>1, <1>6, <2>1, StopStep, SameHeads
<1>7. ASSUME UNCHANGED vars PROVE RotationTypeOK' /\ StandingInv' /\ CustodyUnbroken'
  <2>1. UNCHANGED <<line, live, pending, retired, minted, trust, cmd, sess, parted, stops, mounts, seals>>
    BY <1>7 DEF vars, keyFiles, bounds
  <2>2. RotationTypeOK'
    BY <1>1, <2>1 DEF RotationTypeOK, trust
  <2>3. SessionsCurrent' /\ LeasesExclude'
    BY <1>1, <2>1 DEF StandingInv, SessionsCurrent, LeasesExclude, NoLeases, HeadOf
  <2> QED  BY <1>1, <2>1, <2>2, <2>3, Unmoved, SameHeads DEF StandingInv
<1> QED  BY <1>1, <1>2, <1>3, <1>4, <1>5, <1>6, <1>7, SameHeads DEF Next

(* The conjuncts of the invariant, always.                                 *)
LEMMA RotationHolds == RotationSpec => []RotationInv
  BY RotationStarts, RotationKeeps, PTL DEF RotationSpec

(* Heads are documents, no client records a generation there is not, and   *)
(* no session builds ahead of its branch, whatever is interrupted.         *)
THEOREM RotationTypes == RotationSpec => []RotationTypeOK
  BY RotationHolds, PTL DEF RotationInv

(* Every generation is signed by the key of the one before it, or by the   *)
(* key that one announced: rotation, retraction and seals never break the  *)
(* chain a client follows.                                                 *)
THEOREM Custody == RotationSpec => []CustodyUnbroken
  BY RotationHolds, PTL DEF RotationInv

(* No key a head is signed by, or announces, is ever deleted.              *)
THEOREM KeysAreKept == RotationSpec => []KeysKept
  BY RotationHolds, PTL DEF RotationInv

(* Unless a command stopped between two branches, every head is signed by  *)
(* the live key or the pending one.                                        *)
THEOREM Signable == RotationSpec => []HeadsSignable
  BY RotationHolds, PTL DEF RotationInv

-----------------------------------------------------------------------------
(* Keys rise: what is announced is newer than who announces it.            *)

Rising == live <= minted /\ (pending # NoKey => live < pending /\ pending <= minted)
NextAbove ==
    \A b \in Branch : \A g \in 1..Len(line[b]) :
        line[b][g].next # NoKey => line[b][g].signer < line[b][g].next
AscendInv == Rising /\ NextAbove

(* A document that announces nothing, or a key above its own, may be put.  *)
LEMMA AboveStep ==
    ASSUME RotationTypeOK, NextAbove, NEW b \in Branch, NEW key \in Key, NEW next \in KeyFile,
           Publish(b, key, next), next # NoKey => key < next
    PROVE  NextAbove'
<1> SUFFICES ASSUME NEW a \in Branch, NEW g \in 1..Len(line'[a])
             PROVE  line'[a][g].next # NoKey => line'[a][g].signer < line'[a][g].next
  BY DEF NextAbove
<1>1. CASE a # b
  BY <1>1, Published DEF NextAbove
<1>2. CASE a = b /\ g \in 1..Len(line[b])
  BY <1>2, Published DEF NextAbove
<1>3. CASE a = b /\ g \notin 1..Len(line[b])
  <2>1. g = Len(line'[b])
    BY <1>3, Published, HeadIsDoc
  <2>2. line'[b][g] = [signer |-> key, next |-> next]
    BY <2>1, Published DEF HeadOf
  <2> QED  BY <2>2, <1>3
<1> QED  BY <1>1, <1>2, <1>3

(* A successor is minted above every key there is, and takes the live      *)
(* key's place or goes.                                                    *)
LEMMA AscendStep == ASSUME RotationInv, AscendInv, [Next]_vars PROVE AscendInv'
<1>1. /\ RotationTypeOK /\ SessionsCurrent /\ CommandKeys /\ CommandPhase
      /\ live \in Nat /\ pending \in Nat /\ minted \in Nat /\ NoKey = 0 /\ NoKey \in KeyFile
      /\ live \in Key /\ pending \in KeyFile
  BY DEF RotationInv, RotationTypeOK, Key, KeyFile, NoKey
<1>2. ASSUME UNCHANGED <<line, live, pending, minted>> PROVE AscendInv'
  BY <1>2 DEF AscendInv, Rising, NextAbove
<1>3. ASSUME UNCHANGED <<line, minted>>, Rename \/ (pending' = NoKey /\ live' = live), pending # NoKey \/ ~Rename
      PROVE  AscendInv'
  BY <1>1, <1>3 DEF AscendInv, Rising, NextAbove, Rename
<1>4. ASSUME NEW b \in Branch, NEW key \in Key, NEW next \in KeyFile, Publish(b, key, next),
             next # NoKey => key < next, UNCHANGED <<live, pending, minted>>
      PROVE  AscendInv'
  BY <1>1, <1>4, AboveStep DEF AscendInv, Rising
<1>5. ASSUME Step PROVE AscendInv'
  <2>1. CASE Survey \/ TakeLeases \/ FetchBranch \/ Refetch \/ PromoteArchive
    BY <1>2, <2>1 DEF Survey, TakeLeases, FetchBranch, Refetch, PromoteArchive, keyFiles
  <2>2. CASE ReadKeys
    <3>1. UNCHANGED <<line, live>>
      BY <2>2 DEF ReadKeys
    <3>2. \/ UNCHANGED <<pending, minted>>
          \/ minted' = minted + 1 /\ pending' = minted + 1
      BY <2>2 DEF ReadKeys
    <3> QED  BY <1>1, <3>1, <3>2 DEF AscendInv, Rising, NextAbove
  <2>3. CASE Announce \/ ExecuteBranch \/ Retract
    <3>1. cmd.b \in Branch /\ cmd.live = live /\ cmd.pending = pending
          /\ UNCHANGED <<live, pending, minted>>
      BY <1>1, <2>3 DEF RotationTypeOK, Commands, CommandKeys, Announce, ExecuteBranch, Retract, At, keyFiles
    <3>2. CASE Announce
      BY <1>1, <1>4, <3>1, <3>2 DEF Announce, AscendInv, Rising
    <3>3. CASE Retract
      BY <1>1, <1>4, <3>1, <3>3 DEF Retract
    <3>4. CASE ExecuteBranch
      <4>1. pending # NoKey
        BY <1>1, <3>1, <3>4 DEF ExecuteBranch, At, CommandKeys, CommandPhase
      <4>2. pending \in Key
        BY <1>1, <4>1 DEF KeyFile
      <4> QED  BY <1>1, <1>4, <3>1, <3>4, <4>2 DEF ExecuteBranch
    <3> QED  BY <2>3, <3>2, <3>3, <3>4
  <2>4. CASE PromoteRename
    <3>1. pending # NoKey
      <4>1. cmd.kind # "abort" /\ cmd.at = "rename"
        BY <2>4 DEF PromoteRename, At, RotationInv, CommandProgress
      <4> QED  BY <1>1, <4>1 DEF CommandKeys
    <3> QED  BY <1>3, <2>4, <3>1 DEF PromoteRename
  <2>5. CASE Discard
    <3>1. UNCHANGED <<line, minted, live>> /\ pending' = NoKey
      BY <2>5 DEF Discard
    <3> QED  BY <1>1, <3>1 DEF AscendInv, Rising, NextAbove
  <2> QED  BY <1>5, <2>1, <2>2, <2>3, <2>4, <2>5 DEF Step
<1>6. ASSUME NEW b \in Branch, Session(b) PROVE AscendInv'
  <2>1. CASE Mount(b) \/ BeginSeal(b) \/ Unmount(b) \/ SealArchive(b)
    BY <1>2, <2>1 DEF Mount, BeginSeal, Unmount, SealArchive, keyFiles
  <2>2. CASE SealRename(b)
    <3>1. UNCHANGED <<line, minted>> /\ ((pending # NoKey /\ Rename) \/ UNCHANGED <<live, pending>>)
      BY <2>2 DEF SealRename
    <3> QED  BY <1>2, <1>3, <3>1
  <2>3. CASE SealFlip(b)
    <3>1. /\ Publish(b, sess[b].key, NoKey) /\ sess[b].key = HeadOf(b).signer
          /\ UNCHANGED <<live, pending, minted>>
      BY <1>1, <2>3 DEF SealFlip, SessionsCurrent, keyFiles
    <3> QED  BY <1>1, <1>4, <3>1, HeadIsDoc
  <2> QED  BY <1>6, <2>1, <2>2, <2>3 DEF Session
<1>7. ASSUME (\E kind \in Kinds : Start(kind)) \/ (\E c \in Clients, b \in Branch : Look(c, b))
             \/ Interrupt \/ Crash \/ UNCHANGED vars
      PROVE  AscendInv'
  BY <1>2, <1>7 DEF Start, Look, Interrupt, Crash, vars, keyFiles
<1> QED  BY <1>5, <1>6, <1>7 DEF Next

(* Trust moves only where a head is accepted, and is kept then.            *)
LEMMA TrustMoves ==
    ASSUME RotationInv, [Next]_vars
    PROVE  \/ UNCHANGED trust
           \/ \E c \in Clients, b \in Branch : Accepts(c, b) /\ Persist(c, b)
<1> DEFINE Goal == \/ UNCHANGED trust
                   \/ \E c \in Clients, b \in Branch : Accepts(c, b) /\ Persist(c, b)
<1>1. Writer \in Clients
  BY DEF Clients
<1>2. ASSUME Step PROVE Goal
  <2>1. CASE Survey \/ FetchBranch \/ Refetch
    <3>1. UNCHANGED trust \/ (Accepts(Writer, cmd.b) /\ Persist(Writer, cmd.b))
      BY <2>1 DEF Survey, FetchBranch, Refetch, FetchOK
    <3> QED  BY <1>1, <3>1 DEF RotationInv, RotationTypeOK, Commands
  <2>2. CASE TakeLeases \/ ReadKeys \/ Announce \/ ExecuteBranch \/ Retract \/ PromoteArchive
             \/ PromoteRename \/ Discard
    BY <2>2 DEF TakeLeases, ReadKeys, Announce, ExecuteBranch, Retract, PromoteArchive, PromoteRename, Discard
  <2> QED  BY <1>2, <2>1, <2>2 DEF Step
<1>3. ASSUME NEW b \in Branch, Session(b) PROVE Goal
  <2>1. CASE Mount(b)
    BY <1>1, <2>1 DEF Mount, FetchOK
  <2>2. CASE ~Mount(b)
    BY <1>3, <2>2 DEF Session, BeginSeal, SealArchive, SealRename, SealFlip, Unmount
  <2> QED  BY <2>1, <2>2
<1>4. ASSUME NEW c \in Clients, NEW b \in Branch, Look(c, b) PROVE Goal
  BY <1>4 DEF Look, FetchOK
<1>5. ASSUME (\E kind \in Kinds : Start(kind)) \/ Interrupt \/ Crash \/ UNCHANGED vars PROVE Goal
  BY <1>5 DEF Start, Interrupt, Crash, vars
<1> HIDE DEF Goal
<1>6. Goal
  BY <1>2, <1>3, <1>4, <1>5 DEF Next
<1> QED  BY <1>6 DEF Goal

(* A head a client accepts is signed by its pin or by a newer key.         *)
LEMMA AcceptsRise ==
    ASSUME RotationTypeOK, NextAbove, NEW c \in Clients, NEW b \in Branch, Accepts(c, b)
    PROVE  HeadOf(b).signer >= pin[c]
<1>1. HeadOf(b).signer \in Nat /\ HeadOf(b).signer # NoKey /\ pin[c] \in Nat /\ NoKey = 0
  BY HeadIsDoc DEF Key, KeyFile, NoKey, RotationTypeOK
<1>2. CASE pin[c] = NoKey \/ HeadOf(b).signer = pin[c]
  BY <1>1, <1>2
<1>3. CASE Chains(c, b)
  <2>1. last[c][b] \in 1..Len(line[b])
    BY <1>3, HeadIsDoc DEF Chains, RotationTypeOK
  <2>2. line[b][last[c][b]].next # NoKey =>
            line[b][last[c][b]].signer < line[b][last[c][b]].next
    BY <2>1 DEF NextAbove
  <2>3. line[b][last[c][b]].signer = pin[c] /\ line[b][last[c][b]].next = HeadOf(b).signer
    BY <1>3 DEF Chains
  <2>4. pin[c] < HeadOf(b).signer
    BY <1>1, <2>2, <2>3
  <2> QED  BY <1>1, <2>4
<1> QED  BY <1>2, <1>3 DEF Accepts

(* A client that has left a key never trusts it again, whichever branch it *)
(* looks at, however rotations, aborts and seals come between: the chain   *)
(* of a branch only leads to newer keys (Store.Fetch, VerifyChain).        *)
THEOREM PinsRise == RotationSpec => PinNeverReturns
<1>1. Init => AscendInv
  <2>1. ASSUME Init PROVE AscendInv
    <3>1. /\ live = 1 /\ minted = 1 /\ pending = NoKey
          /\ \A b \in Branch : line[b] = << [signer |-> 1, next |-> NoKey] >>
      BY <2>1 DEF Init
    <3> QED  BY <3>1 DEF AscendInv, Rising, NextAbove
  <2> QED  BY <2>1
<1>2. RotationInv /\ AscendInv /\ [Next]_vars => AscendInv'
  BY AscendStep
<1>3. RotationInv /\ AscendInv /\ [Next]_vars => [\A c \in Clients : pin'[c] >= pin[c]]_pin
  <2> SUFFICES ASSUME RotationInv, AscendInv, [Next]_vars, pin' # pin, NEW d \in Clients
               PROVE  pin'[d] >= pin[d]
    OBVIOUS
  <2>1. PICK c \in Clients, b \in Branch : Accepts(c, b) /\ Persist(c, b)
    BY TrustMoves DEF trust
  <2>2. RotationTypeOK /\ NextAbove
    BY DEF RotationInv, AscendInv
  <2>3. pin \in [Clients -> KeyFile] /\ pin' = [pin EXCEPT ![c] = HeadOf(b).signer]
    BY <2>1, <2>2 DEF RotationTypeOK, Persist
  <2>4. CASE d = c
    BY <2>1, <2>2, <2>3, <2>4, AcceptsRise
  <2>5. CASE d # c
    <3>1. pin'[d] = pin[d] /\ pin[d] \in Nat
      BY <2>3, <2>5 DEF KeyFile, Key, NoKey
    <3> QED  BY <3>1
  <2> QED  BY <2>4, <2>5
<1> QED  BY <1>1, <1>2, <1>3, RotationHolds, PTL DEF RotationSpec, PinNeverReturns

-----------------------------------------------------------------------------
(* The writer's own trust.  Its pin is on one key for the whole volume     *)
(* while the command moves the branches one by one.                        *)

(* Each head is signed by its pin, or one step of custody from what it     *)
(* accepted there; or its pin is ahead, on the successor of another.       *)
Follows(b) ==
    \/ HeadOf(b).signer = pin[Writer]
    \/ Chains(Writer, b)
    \/ pin[Writer] = pending /\ HeadOf(b).signer # pending
Following ==
    /\ pin[Writer] <= minted
    /\ pin[Writer] # NoKey => \A b \in Branch : Follows(b)
    /\ pin[Writer] = pending /\ pending # NoKey => \E b \in Branch : HeadOf(b).signer = pending

(* While branches differ, and where the command writes, the pin is one of  *)
(* the two keys; what the command is about to execute it has read; and a   *)
(* session is on a branch of the pin.                                      *)
Current == pin[Writer] \in {live, pending} \ {NoKey}
Writing ==
    /\ Split \/ cmd.at \in {"announce", "refetch", "execute", "retract"} => Current
    /\ cmd.at \in {"refetch", "execute"} => HeadOf(cmd.b).signer = live
    /\ cmd.at = "execute" => last[Writer][cmd.b] = Len(line[cmd.b])
Sealing == \A b \in Branch : sess[b].at # "off" => HeadOf(b).signer = pin[Writer]

WriterInv == Following /\ Writing /\ Sealing
FollowInv == AscendInv /\ (parted \/ WriterInv)

(* The two keys, and the heads, while no command stopped half-way.         *)
LEMMA TwoKeys ==
    ASSUME RotationInv, Rising, ~parted
    PROVE  /\ live \in Nat \ {NoKey} /\ pending \in Nat /\ minted \in Nat /\ live <= minted
           /\ pending # NoKey => live < pending /\ pending <= minted
           /\ pending = NoKey => ~Split
           /\ \A b \in Branch : /\ HeadOf(b).signer \in {live, pending} \ {NoKey}
                                /\ HeadOf(b).signer <= minted
           /\ NoLeases => \A a, b \in Branch : HeadOf(a).signer = HeadOf(b).signer
<1>1. /\ live \in Nat \ {NoKey} /\ pending \in Nat /\ minted \in Nat /\ live <= minted
      /\ pending # NoKey => live < pending /\ pending <= minted
  BY DEF RotationInv, RotationTypeOK, Rising, Key, KeyFile, NoKey
<1>2. \A b \in Branch : HeadOf(b).signer \in {live, pending} \ {NoKey}
  BY HeadIsDoc DEF RotationInv, HeadsSignable, Key, NoKey
<1>3. NoLeases => \A a, b \in Branch : HeadOf(a).signer = HeadOf(b).signer
  BY <1>2 DEF RotationInv, PartedIsSplit, Split
<1> QED  BY <1>1, <1>2, <1>3 DEF Split

(* Where the branches, the keys and the writer's own trust stay.           *)
LEMMA FollowingStays ==
    ASSUME Following, UNCHANGED <<line, live, pending, minted>>,
           pin'[Writer] = pin[Writer], last'[Writer] = last[Writer]
    PROVE  Following'
  BY DEF Following, Follows, Chains, HeadOf

(* The writer accepts a head: its pin is on the key of it.                 *)
LEMMA WriterReads ==
    ASSUME RotationInv, AscendInv, ~parted, Following, Split => Current,
           NEW b \in Branch, Accepts(Writer, b), Persist(Writer, b),
           UNCHANGED <<line, live, pending, minted>>
    PROVE  /\ Following' /\ Current' /\ pin'[Writer] = HeadOf(b).signer
           /\ last'[Writer][b] = Len(line[b])
           /\ \A a \in Branch : last[Writer][a] = Len(line[a]) => last'[Writer][a] = Len(line[a])
<1>1. /\ Writer \in Clients /\ pin \in [Clients -> KeyFile] /\ last \in [Clients -> [Branch -> Nat]]
      /\ RotationTypeOK
  BY DEF RotationInv, RotationTypeOK, Clients
<1>2. /\ pin'[Writer] = HeadOf(b).signer /\ last'[Writer][b] = Len(line[b])
      /\ \A a \in Branch \ {b} : last'[Writer][a] = last[Writer][a]
  BY <1>1 DEF Persist
<1>3. \A a \in Branch : HeadOf(a)' = HeadOf(a)
  BY DEF HeadOf
<1>4. /\ live \in Nat \ {NoKey} /\ pending \in Nat
      /\ pending # NoKey => live < pending
      /\ pending = NoKey => ~Split
      /\ \A a \in Branch : HeadOf(a).signer \in {live, pending} \ {NoKey} /\ HeadOf(a).signer <= minted
  BY TwoKeys DEF AscendInv
<1>5. Current'
  BY <1>2, <1>4 DEF Current
<1>6. ASSUME NEW a \in Branch PROVE Follows(a)'
  <2>1. CASE HeadOf(a).signer = HeadOf(b).signer
    BY <1>2, <1>3, <2>1 DEF Follows
  <2>2. CASE HeadOf(b).signer = pending /\ HeadOf(a).signer # pending
    BY <1>2, <1>3, <2>2 DEF Follows
  <2>3. CASE HeadOf(b).signer # pending /\ HeadOf(a).signer = pending
    <3>1. Current /\ pending # NoKey /\ HeadOf(b).signer = live
      BY <1>4, <2>3 DEF Split
    <3>2. HeadOf(b).signer >= pin[Writer]
      BY <1>1, AcceptsRise DEF AscendInv
    <3>3. pin[Writer] = live
      BY <1>4, <3>1, <3>2 DEF Current
    <3>4. Chains(Writer, a)
      BY <1>4, <2>3, <3>1, <3>3 DEF Following, Follows
    <3>5. last'[Writer][a] = last[Writer][a] /\ pin'[Writer] = pin[Writer] /\ a # b
      BY <1>2, <2>3, <3>1, <3>3
    <3> QED  BY <1>3, <3>4, <3>5 DEF Chains, Follows
  <2> QED  BY <1>4, <2>1, <2>2, <2>3
<1>7. Following'
  BY <1>2, <1>3, <1>4, <1>6 DEF Following
<1> QED  BY <1>2, <1>5, <1>7

(* A generation of one of the two keys is put on a branch that the writer  *)
(* follows with its pin, or is one step from.                              *)
LEMMA WriterPuts ==
    ASSUME RotationInv, Following, pin[Writer] # NoKey,
           NEW b \in Branch, NEW key \in Key, NEW next \in KeyFile, Publish(b, key, next),
           UNCHANGED <<live, pending, minted, trust>>,
           HeadOf(b).signer = pending => key = pending,
           \/ pin[Writer] = key
           \/ pin[Writer] = pending /\ key # pending
           \/ /\ pin[Writer] = HeadOf(b).signer /\ last[Writer][b] = Len(line[b])
              /\ HeadOf(b).next = key
    PROVE  Following'
<1>1. RotationTypeOK
  BY DEF RotationInv
<1>2. /\ HeadOf(b)'.signer = key /\ Len(line'[b]) = Len(line[b]) + 1
      /\ \A g \in 1..Len(line[b]) : line'[b][g] = line[b][g]
      /\ \A a \in Branch \ {b} : line'[a] = line[a] /\ HeadOf(a)' = HeadOf(a)
  <2>1. HeadOf(b)' = [signer |-> key, next |-> next]
    BY <1>1, Published
  <2> QED  BY <1>1, <2>1, Published
<1>3. Follows(b)'
  <2>1. CASE pin[Writer] = key \/ (pin[Writer] = pending /\ key # pending)
    BY <1>2, <2>1 DEF Follows, trust
  <2>2. CASE /\ pin[Writer] = HeadOf(b).signer /\ last[Writer][b] = Len(line[b])
             /\ HeadOf(b).next = key
    <3>1. Len(line[b]) \in 1..Len(line[b]) /\ Len(line[b]) # 0
      BY <1>1, HeadIsDoc
    <3>2. line'[b][Len(line[b])] = HeadOf(b)
      BY <1>2, <3>1 DEF HeadOf
    <3> QED  BY <1>2, <2>2, <3>1, <3>2 DEF Follows, Chains, trust
  <2> QED  BY <2>1, <2>2
<1>4. \A a \in Branch \ {b} : Follows(a)'
  BY <1>2 DEF Following, Follows, Chains, trust
<1>5. ASSUME NEW a \in Branch, HeadOf(a).signer = pending PROVE HeadOf(a)'.signer = pending
  BY <1>2, <1>5
<1>6. /\ pin'[Writer] <= minted'
      /\ pin'[Writer] = pending' /\ pending' # NoKey => \E a \in Branch : HeadOf(a)'.signer = pending'
  BY <1>5 DEF Following, trust
<1> QED  BY <1>3, <1>4, <1>6 DEF Following

(* The successor takes the live key's place, or is discarded, when every   *)
(* head is signed by one key.                                              *)
LEMMA WriterPromotes ==
    ASSUME RotationInv, AscendInv, ~parted, Following, UNCHANGED <<line, trust, minted>>,
           \/ Rename /\ pending # NoKey /\ \A b \in Branch : HeadOf(b).signer = pending
           \/ live' = live /\ pending' = NoKey /\ \A b \in Branch : HeadOf(b).signer = live
    PROVE  Following' /\ ~Split'
<1>1. /\ live \in Nat \ {NoKey} /\ pending \in Nat /\ (pending # NoKey => live < pending)
      /\ \A b \in Branch : HeadOf(b).signer # NoKey
  BY TwoKeys DEF AscendInv
<1>2. pending' = NoKey /\ \A b \in Branch : HeadOf(b)' = HeadOf(b)
  BY DEF Rename, HeadOf
<1>3. ASSUME pin[Writer] # NoKey, NEW b \in Branch PROVE HeadOf(b).signer = pin[Writer] \/ Chains(Writer, b)
  <2>1. Follows(b)
    BY <1>3 DEF Following
  <2>2. ~(pin[Writer] = pending /\ HeadOf(b).signer # pending)
    BY <1>1, <1>3 DEF Following
  <2> QED  BY <2>1, <2>2 DEF Follows
<1>4. pin[Writer] # NoKey => \A b \in Branch : Follows(b)'
  BY <1>2, <1>3 DEF Follows, Chains, trust
<1>5. Following'
  BY <1>2, <1>4 DEF Following, trust
<1> QED  BY <1>1, <1>2, <1>5 DEF Split

(* Where all of it holds, and no command has stopped half-way.             *)
Sound == RotationInv /\ AscendInv /\ WriterInv /\ ~parted

WritePoints == {"announce", "refetch", "execute", "retract"}

(* A step that moves neither a branch, nor a key, nor the writer's trust.  *)
LEMMA WriterQuiet ==
    ASSUME Sound, UNCHANGED <<line, live, pending, minted>>,
           pin'[Writer] = pin[Writer], last'[Writer] = last[Writer],
           cmd' = cmd \/ cmd'.at \notin WritePoints,
           \A b \in Branch : sess'[b].at # "off" => sess[b].at # "off"
    PROVE  WriterInv'
<1>1. Following'
  BY FollowingStays DEF Sound, WriterInv
<1>2. \A b : HeadOf(b)' = HeadOf(b)
  BY DEF HeadOf
<1>3. Split' = Split /\ Current' = Current
  BY <1>2 DEF Split, Current
<1>4. Writing'
  <2>1. CASE cmd' = cmd
    BY <1>2, <1>3, <2>1 DEF Sound, WriterInv, Writing
  <2>2. CASE cmd'.at \notin WritePoints
    BY <1>3, <2>2 DEF Sound, WriterInv, Writing, WritePoints
  <2> QED  BY <2>1, <2>2
<1>5. Sealing'
  BY <1>2 DEF Sound, WriterInv, Sealing
<1> QED  BY <1>1, <1>4, <1>5 DEF WriterInv

(* The writer accepts a head, and the command goes where it may.           *)
LEMMA WriterLooks ==
    ASSUME Sound, NEW b \in Branch, Accepts(Writer, b), Persist(Writer, b),
           UNCHANGED <<line, live, pending, minted>>,
           cmd'.at \in {"refetch", "execute"} => HeadOf(cmd'.b).signer = live,
           cmd'.at = "execute" =>
               cmd'.b \in Branch /\ (cmd'.b = b \/ last[Writer][cmd'.b] = Len(line[cmd'.b])),
           NoLeases \/ \A a \in Branch : sess'[a].at = "off"
    PROVE  WriterInv'
<1>1. /\ Following' /\ Current' /\ pin'[Writer] = HeadOf(b).signer
      /\ last'[Writer][b] = Len(line[b])
      /\ \A a \in Branch : last[Writer][a] = Len(line[a]) => last'[Writer][a] = Len(line[a])
  BY WriterReads DEF Sound, WriterInv, Writing
<1>2. \A a : HeadOf(a)' = HeadOf(a)
  BY DEF HeadOf
<1>3. Writing'
  <2>1. HeadOf(cmd.b)'.signer = HeadOf(cmd'.b).signer
    BY DEF HeadOf
  <2>2. cmd'.at = "execute" => last'[Writer][cmd'.b] = Len(line'[cmd'.b])
    BY <1>1
  <2> QED  BY <1>1, <2>1, <2>2 DEF Writing
<1>4. Sealing'
  <2>1. NoLeases => \A a \in Branch : HeadOf(a).signer = HeadOf(b).signer
    BY TwoKeys DEF Sound, AscendInv
  <2> QED  BY <1>1, <1>2, <2>1 DEF Sealing
<1> QED  BY <1>1, <1>3, <1>4 DEF WriterInv

(* Before the leases, and the keys of a command.                           *)
LEMMA WriterSurveys ==
    ASSUME Sound, (\E kind \in Kinds : Start(kind)) \/ Survey \/ TakeLeases \/ ReadKeys
    PROVE  WriterInv'
<1>1. cmd \in Commands /\ cmd.b \in Branch
  BY DEF Sound, RotationInv, RotationTypeOK, Commands
<1>2. ASSUME NEW kind \in Kinds, Start(kind) PROVE WriterInv'
  <2>1. cmd'.at \notin WritePoints
    BY <1>2 DEF Start, Idle, WritePoints
  <2> QED  BY <1>2, <2>1, WriterQuiet DEF Start, keyFiles, trust
<1>3. CASE Survey
  <2>1. UNCHANGED <<line, live, pending, minted, sess>> /\ cmd'.at = "survey" /\ NoLeases
    BY <1>1, <1>3 DEF Survey, keyFiles, At, Commands, NoLeases
  <2>2. CASE Accepts(Writer, cmd.b)
    BY <1>1, <1>3, <2>1, <2>2, WriterLooks DEF Survey
  <2>3. CASE ~Accepts(Writer, cmd.b)
    <3>1. pin' = pin /\ last' = last
      BY <1>3, <2>3 DEF Survey, trust
    <3> QED  BY <2>1, <3>1, WriterQuiet DEF WritePoints
  <2> QED  BY <2>2, <2>3
<1>4. CASE TakeLeases
  <2>1. UNCHANGED <<line, live, pending, minted, sess, pin, last>>
    BY <1>4 DEF TakeLeases, keyFiles, trust
  <2>2. cmd'.at = "keys" \/ cmd'.at = "idle"
    BY <1>1, <1>4 DEF TakeLeases, Goto, End, Idle, Commands
  <2> QED  BY <2>1, <2>2, WriterQuiet DEF WritePoints
<1>5. CASE ReadKeys
  <2>1. /\ UNCHANGED <<line, live, trust, sess>> /\ cmd'.at = "fetch"
        /\ UNCHANGED <<pending, minted>> \/ (pending = NoKey /\ minted' = minted + 1 /\ pending' = minted + 1)
    BY <1>1, <1>5 DEF ReadKeys, Commands
  <2>2. CASE UNCHANGED <<pending, minted>>
    BY <2>1, <2>2, WriterQuiet DEF WritePoints, trust
  <2>3. CASE pending = NoKey /\ minted' = minted + 1 /\ pending' = minted + 1
    <3>1. /\ pin[Writer] \in Nat /\ pin[Writer] <= minted /\ minted \in Nat
      BY TwoKeys DEF Sound, RotationInv, RotationTypeOK, KeyFile, Key, NoKey, Clients, WriterInv, Following, AscendInv
    <3>2. \A b \in Branch : HeadOf(b)' = HeadOf(b) /\ HeadOf(b).signer \in Nat /\ HeadOf(b).signer <= minted
      <4>1. \A b \in Branch : HeadOf(b).signer <= minted
        BY TwoKeys DEF Sound, AscendInv
      <4>2. \A b \in Branch : HeadOf(b).signer \in Nat
        BY HeadIsDoc DEF Sound, RotationInv, Key
      <4> QED  BY <2>1, <4>1, <4>2 DEF HeadOf
    <3>3. ASSUME pin[Writer] # NoKey, NEW b \in Branch PROVE Follows(b)'
      <4>1. HeadOf(b).signer = pin[Writer] \/ Chains(Writer, b)
        BY <2>3, <3>3 DEF Sound, WriterInv, Following, Follows
      <4> QED  BY <2>1, <4>1 DEF Follows, Chains, HeadOf, trust
    <3>4. Following'
      <4>1. pin'[Writer] = pin[Writer]
        BY <2>1 DEF trust
      <4>2. pin'[Writer] <= minted' /\ pin'[Writer] # pending'
        BY <2>3, <3>1, <4>1
      <4> QED  BY <3>3, <4>1, <4>2 DEF Following
    <3>5. ~Split'
      <4>1. \A b \in Branch : HeadOf(b)'.signer # pending'
        BY <2>3, <3>1, <3>2
      <4> QED  BY <4>1 DEF Split
    <3>6. Writing' /\ Sealing'
      BY <2>1, <3>2, <3>5 DEF Writing, Sealing, Sound, WriterInv, trust
    <3> QED  BY <3>4, <3>6 DEF WriterInv
  <2> QED  BY <2>1, <2>2, <2>3
<1> QED  BY <1>2, <1>3, <1>4, <1>5

(* After a branch the command reads another, or is through.                *)
LEMMA NextIsNoWrite ==
    ASSUME cmd \in Commands, NextBranch \/ End
    PROVE  cmd'.at \notin WritePoints
<1>1. CASE End
  BY <1>1, Ending DEF WritePoints
<1>2. CASE NextBranch /\ ~End
  BY <1>2, Continuing DEF WritePoints
<1> QED  BY <1>1, <1>2

(* A branch is fetched: what the command executes it has just read.        *)
LEMMA WriterFetches ==
    ASSUME Sound, FetchBranch \/ Refetch
    PROVE  WriterInv'
<1>1. /\ cmd \in Commands /\ cmd.b \in Branch /\ cmd.at \in {"fetch", "refetch"} /\ cmd.live = live
      /\ UNCHANGED <<line, live, pending, minted, sess>> /\ \A a \in Branch : sess'[a].at = "off"
  <2>1. cmd \in Commands /\ cmd.b \in Branch /\ cmd.at \in {"fetch", "refetch"}
    BY DEF Sound, RotationInv, RotationTypeOK, Commands, FetchBranch, Refetch, At
  <2>2. UNCHANGED <<line, live, pending, minted, sess>>
    BY DEF FetchBranch, Refetch, keyFiles
  <2>3. cmd.live = live /\ \A a \in Branch : sess[a].at = "off"
    BY <2>1 DEF Sound, RotationInv, CommandKeys, LeasesExclude, NoLeases
  <2> QED  BY <2>1, <2>2, <2>3
<1>2. CASE ~Accepts(Writer, cmd.b)
  <2>1. End /\ UNCHANGED trust
    BY <1>2 DEF FetchBranch, Refetch, FetchOK
  <2> QED  BY <1>1, <2>1, NextIsNoWrite, WriterQuiet DEF trust
<1>3. CASE Accepts(Writer, cmd.b)
  <2>1. Persist(Writer, cmd.b)
    BY <1>3 DEF FetchBranch, Refetch, FetchOK
  <2>2. /\ cmd'.at \in {"refetch", "execute"} => HeadOf(cmd'.b).signer = live
        /\ cmd'.at = "execute" => cmd'.b = cmd.b
    <3>1. CASE End \/ NextBranch
      BY <1>1, <3>1, NextIsNoWrite DEF WritePoints
    <3>2. CASE Refetch /\ Goto("execute")
      <4>1. cmd'.b = cmd.b /\ HeadOf(cmd.b).signer = live
        BY <1>1, <3>2, Going DEF Points, Refetch, At, Sound, WriterInv, Writing
      <4> QED  BY <4>1
    <3>3. CASE FetchBranch /\ ~End /\ ~NextBranch
      <4>1. PICK step : step = StepFor(Phase(HeadOf(cmd.b))) /\ step \notin {"fail", "next"} /\ Goto(step)
        BY <1>3, <3>3 DEF FetchBranch
      <4>2. /\ step \in {"announce", "execute", "retract"}
            /\ step = "execute" => HeadOf(cmd.b).signer = cmd.live
        BY <1>1, <4>1 DEF StepFor, Phase, Commands, Kinds
      <4>3. cmd'.at = step /\ cmd'.b = cmd.b
        BY <1>1, <4>1, <4>2, Going DEF Points
      <4> QED  BY <1>1, <4>2, <4>3
    <3> QED  BY <1>3, <3>1, <3>2, <3>3 DEF FetchBranch, Refetch
  <2> QED  BY <1>1, <1>3, <2>1, <2>2, WriterLooks
<1> QED  BY <1>2, <1>3

(* The command puts a generation on a branch.                              *)
LEMMA WriterPublishes ==
    ASSUME Sound, Announce \/ ExecuteBranch \/ Retract
    PROVE  WriterInv'
<1>1. /\ cmd \in Commands /\ cmd.b \in Branch /\ cmd.at \in {"announce", "execute", "retract"}
      /\ UNCHANGED <<live, pending, minted, trust, sess>> /\ ~NoLeases
  BY DEF Sound, RotationInv, RotationTypeOK, Commands, Announce, ExecuteBranch, Retract, At, NoLeases, keyFiles
<1>2. /\ cmd.live = live /\ cmd.pending = pending /\ (cmd.kind # "abort" => pending # NoKey)
      /\ \A a \in Branch : sess[a].at = "off"
  BY <1>1 DEF Sound, RotationInv, CommandKeys, LeasesExclude
<1>3. PICK b \in Branch : b = cmd.b
  BY <1>1
<1>4. /\ live \in Key /\ pending \in KeyFile /\ NoKey \in KeyFile /\ live # pending
      /\ pending # NoKey => pending \in Key
  <2>1. live \in Key /\ pending \in KeyFile
    BY DEF Sound, RotationInv, RotationTypeOK
  <2>2. live # NoKey /\ live \in Nat /\ (pending # NoKey => live < pending)
    BY TwoKeys DEF Sound, AscendInv
  <2> QED  BY <2>1, <2>2 DEF KeyFile
<1>5. Current /\ HeadOf(b).signer = live
      /\ (cmd.at = "execute" => last[Writer][b] = Len(line[b]) /\ HeadOf(b).next = pending /\ pending # NoKey)
  <2>1. Current /\ (cmd.at = "execute" => HeadOf(b).signer = live /\ last[Writer][b] = Len(line[b]))
    BY <1>1, <1>3 DEF Sound, WriterInv, Writing
  <2>2. /\ cmd.at # "execute" => HeadOf(b).signer = live
        /\ cmd.at = "execute" => HeadOf(b).next = pending /\ pending # NoKey
    BY <1>1, <1>2, <1>3 DEF Sound, RotationInv, CommandPhase
  <2> QED  BY <2>1, <2>2
<1>6. PICK key \in Key, next \in KeyFile :
          /\ Publish(b, key, next)
          /\ key = live \/ (cmd.at = "execute" /\ key = pending)
          /\ cmd.at = "announce" => key = live
  <2>1. CASE Announce
    <3>1. Publish(b, live, pending)
      BY <1>2, <1>3, <2>1 DEF Announce
    <3> QED  BY <1>4, <3>1
  <2>2. CASE Retract
    <3>1. Publish(b, live, NoKey) /\ cmd.at = "retract"
      BY <1>2, <1>3, <2>2 DEF Retract, At
    <3> QED  BY <1>4, <3>1
  <2>3. CASE ExecuteBranch
    <3>1. Publish(b, pending, NoKey) /\ cmd.at = "execute"
      BY <1>2, <1>3, <2>3 DEF ExecuteBranch, At
    <3> QED  BY <1>4, <1>5, <3>1
  <2> QED  BY <2>1, <2>2, <2>3
<1>7. Following'
  <2>1. pin[Writer] # NoKey /\ pin[Writer] \in {live, pending}
    BY <1>5 DEF Current
  <2>2. \/ pin[Writer] = key
        \/ pin[Writer] = pending /\ key # pending
        \/ /\ pin[Writer] = HeadOf(b).signer /\ last[Writer][b] = Len(line[b])
           /\ HeadOf(b).next = key
    BY <1>4, <1>5, <1>6, <2>1
  <2>3. HeadOf(b).signer = pending => key = pending
    BY <1>4, <1>5
  <2> QED  BY <1>1, <1>6, <2>1, <2>2, <2>3, WriterPuts DEF Sound, WriterInv
<1>8. Writing'
  <2>1. Current'
    BY <1>1, <1>5 DEF Current, trust
  <2>2. CASE cmd.at = "announce"
    <3>1. Goto("refetch")
      BY <2>2 DEF Announce, ExecuteBranch, Retract, At
    <3>2. cmd'.at = "refetch" /\ cmd'.b = cmd.b
      BY <1>1, <3>1, Going DEF Points
    <3>3. HeadOf(b)'.signer = live
      <4>1. HeadOf(b)' = [signer |-> key, next |-> next] /\ key = live
        BY <1>6, <2>2, Published DEF Sound, RotationInv
      <4> QED  BY <4>1
    <3>4. HeadOf(cmd.b)'.signer = live'
      BY <1>1, <1>3, <3>2, <3>3 DEF HeadOf
    <3> QED  BY <2>1, <3>2, <3>4 DEF Writing
  <2>3. CASE cmd.at # "announce"
    <3>1. cmd'.at \notin WritePoints
      BY <1>1, <2>3, NextIsNoWrite DEF Announce, ExecuteBranch, Retract, At
    <3> QED  BY <2>1, <3>1 DEF Writing, WritePoints
  <2> QED  BY <2>2, <2>3
<1>9. Sealing'
  BY <1>1, <1>2 DEF Sealing
<1> QED  BY <1>7, <1>8, <1>9 DEF WriterInv

(* The command makes the successor the live key, or throws it away.        *)
LEMMA WriterConcludes ==
    ASSUME Sound, PromoteArchive \/ PromoteRename \/ Discard
    PROVE  WriterInv'
<1>1. cmd \in Commands /\ UNCHANGED <<line, minted, trust, sess>> /\ ~NoLeases
  BY DEF Sound, RotationInv, RotationTypeOK, PromoteArchive, PromoteRename, Discard, At, NoLeases
<1>2. \A a \in Branch : sess[a].at = "off"
  BY <1>1 DEF Sound, RotationInv, LeasesExclude
<1>3. CASE PromoteArchive
  <2>1. UNCHANGED <<live, pending>> /\ cmd'.at = "rename"
    BY <1>1, <1>3, Going DEF PromoteArchive, Points
  <2> QED  BY <1>1, <2>1, WriterQuiet DEF WritePoints, trust
<1>4. CASE PromoteRename \/ Discard
  <2>1. End
    BY <1>4 DEF PromoteRename, Discard
  <2>2. \/ Rename /\ pending # NoKey /\ \A b \in Branch : HeadOf(b).signer = pending
        \/ live' = live /\ pending' = NoKey /\ \A b \in Branch : HeadOf(b).signer = live
    <3>1. CASE PromoteRename
      <4>1. cmd.at = "rename" /\ Rename
        BY <3>1 DEF PromoteRename, At
      <4>2. pending # NoKey /\ \A b \in Branch : HeadOf(b).signer = pending
        BY <4>1 DEF Sound, RotationInv, CommandKeys, CommandProgress
      <4> QED  BY <4>1, <4>2
    <3>2. CASE Discard
      <4>1. cmd.at = "discard" /\ live' = live /\ pending' = NoKey
        BY <3>2 DEF Discard, At
      <4>2. \A b \in Branch : HeadOf(b).signer = live
        BY <4>1 DEF Sound, RotationInv, CommandKeys, CommandProgress, Retracted
      <4> QED  BY <4>1, <4>2
    <3> QED  BY <1>4, <3>1, <3>2
  <2>3. Following' /\ ~Split'
    BY <1>1, <2>2, WriterPromotes DEF Sound, WriterInv
  <2>4. cmd'.at = "idle"
    BY <2>1, Ending
  <2>5. Sealing'
    BY <1>1, <1>2 DEF Sealing
  <2> QED  BY <2>3, <2>4, <2>5 DEF WriterInv, Writing
<1> QED  BY <1>3, <1>4

(* A session promotes the key of its head, and seals with it.              *)
LEMMA WriterSeals ==
    ASSUME Sound, NEW b \in Branch, Session(b)
    PROVE  WriterInv'
<1>1. /\ RotationTypeOK /\ sess \in [Branch -> Sessions]
      /\ live \in KeyFile /\ pending \in KeyFile /\ NoKey \in KeyFile
      /\ Len(line[b]) \in Nat /\ sess[b].base \in Nat
  BY HeadIsDoc, SessionIsRecord DEF Sound, RotationInv, RotationTypeOK, KeyFile
<1>2. CASE Mount(b)
  <2>1. /\ Accepts(Writer, b) /\ Persist(Writer, b) /\ NoLeases
        /\ UNCHANGED <<line, live, pending, minted, cmd>>
    BY <1>2 DEF Mount, FetchOK, keyFiles
  <2>2. cmd'.at \in {"idle", "survey"}
    BY <2>1 DEF NoLeases
  <2> QED  BY <2>1, <2>2, WriterLooks
<1>3. CASE BeginSeal(b) \/ Unmount(b) \/ SealArchive(b)
  <2>1. /\ UNCHANGED <<line, live, pending, minted, pin, last, cmd>>
        /\ sess[b].at # "off" /\ \E r : sess' = [sess EXCEPT ![b] = r]
    BY <1>3 DEF BeginSeal, Unmount, SealArchive, keyFiles, trust
  <2>2. \A a \in Branch : sess'[a].at # "off" => sess[a].at # "off"
    BY <1>1, <2>1
  <2> QED  BY <2>1, <2>2, WriterQuiet
<1>4. CASE SealRename(b)
  <2>1. /\ UNCHANGED <<line, minted, pin, last, cmd>>
        /\ sess[b].at # "off" /\ \E r : sess' = [sess EXCEPT ![b] = r]
        /\ (pending # NoKey /\ Rename) \/ UNCHANGED <<live, pending>>
    BY <1>4 DEF SealRename, trust
  <2>2. \A a \in Branch : sess'[a].at # "off" => sess[a].at # "off"
    BY <1>1, <2>1
  <2>3. CASE UNCHANGED <<live, pending>>
    BY <2>1, <2>2, <2>3, WriterQuiet
  <2>4. CASE pending # NoKey /\ Rename
    <3>1. pending = HeadOf(b).signer /\ NoLeases
      BY <1>4, <2>1, <2>4 DEF SealRename, Sound, RotationInv, SessionsCurrent, LeasesExclude
    <3>2. \A a \in Branch : HeadOf(a).signer = pending
      BY <3>1, TwoKeys DEF Sound, AscendInv
    <3>3. Following' /\ ~Split'
      BY <2>1, <2>4, <3>2, WriterPromotes DEF Sound, WriterInv, trust
    <3>4. Writing'
      BY <2>1, <3>1, <3>3 DEF Writing, NoLeases
    <3>5. Sealing'
      BY <2>1, <2>2 DEF Sound, WriterInv, Sealing, HeadOf
    <3> QED  BY <3>3, <3>4, <3>5 DEF WriterInv
  <2> QED  BY <2>1, <2>3, <2>4
<1>5. CASE SealFlip(b)
  <2>1. PICK key \in Key :
            /\ Publish(b, key, NoKey) /\ key = HeadOf(b).signer /\ key = pin[Writer]
            /\ UNCHANGED <<live, pending, minted, trust, cmd>> /\ NoLeases
            /\ sess[b].at # "off" /\ \E r : sess' = [sess EXCEPT ![b] = r]
    <3>1. sess[b].at = "sign" /\ Publish(b, sess[b].key, NoKey)
          /\ UNCHANGED <<live, pending, minted, trust, cmd>>
          /\ \E r : sess' = [sess EXCEPT ![b] = r]
      BY <1>5 DEF SealFlip, keyFiles
    <3>2. sess[b].key = HeadOf(b).signer /\ HeadOf(b).signer = pin[Writer] /\ NoLeases
      BY <3>1 DEF Sound, RotationInv, SessionsCurrent, LeasesExclude, WriterInv, Sealing
    <3>3. HeadOf(b).signer \in Key
      BY <1>1, HeadIsDoc
    <3> QED  BY <3>1, <3>2, <3>3
  <2>2. pin[Writer] # NoKey
    BY <2>1 DEF Key, NoKey
  <2>3. Following'
    BY <1>1, <2>1, <2>2, WriterPuts DEF Sound, WriterInv
  <2>4. \A a \in Branch : HeadOf(a)'.signer = HeadOf(a).signer
    <3>1. /\ HeadOf(b)' = [signer |-> key, next |-> NoKey]
          /\ \A a \in Branch \ {b} : HeadOf(a)' = HeadOf(a)
      BY <1>1, <2>1, Published
    <3>2. HeadOf(b)'.signer = HeadOf(b).signer
      BY <2>1, <3>1
    <3> QED  BY <3>1, <3>2
  <2>5. Writing'
    <3>1. Split' => Split
      BY <2>1, <2>4 DEF Split
    <3> QED  BY <2>1, <3>1 DEF Sound, WriterInv, Writing, Current, NoLeases, trust
  <2>6. Sealing'
    <3>1. \A a \in Branch : sess'[a].at # "off" => sess[a].at # "off"
      BY <1>1, <2>1
    <3> QED  BY <2>1, <2>4, <3>1 DEF Sound, WriterInv, Sealing, trust
  <2> QED  BY <2>3, <2>5, <2>6 DEF WriterInv
<1> QED  BY <1>2, <1>3, <1>4, <1>5 DEF Session

(* Any client reads a head, or the machine or the command stops.           *)
LEMMA WriterWatches ==
    ASSUME Sound,
           \/ \E c \in Clients, b \in Branch : Look(c, b)
           \/ Interrupt \/ Crash \/ UNCHANGED vars
    PROVE  WriterInv'
<1>1. cmd.b \in Branch /\ sess \in [Branch -> Sessions]
      /\ pin \in [Clients -> KeyFile] /\ last \in [Clients -> [Branch -> Nat]]
  BY DEF Sound, RotationInv, RotationTypeOK, Commands
<1>2. ASSUME NEW c \in Clients, NEW b \in Branch, Look(c, b) PROVE WriterInv'
  <2>1. /\ UNCHANGED <<line, live, pending, minted, cmd, sess>>
        /\ Accepts(c, b) /\ Persist(c, b)
    BY <1>2 DEF Look, FetchOK, keyFiles
  <2>2. CASE c = Writer
    <3>1. /\ cmd.at \in {"refetch", "execute"} => HeadOf(cmd.b).signer = live
          /\ cmd.at = "execute" => last[Writer][cmd.b] = Len(line[cmd.b])
      BY DEF Sound, WriterInv, Writing
    <3>2. NoLeases \/ \A a \in Branch : sess[a].at = "off"
      BY DEF Sound, RotationInv, LeasesExclude
    <3> QED  BY <1>1, <2>1, <2>2, <3>1, <3>2, WriterLooks
  <2>3. CASE c # Writer
    <3>1. pin'[Writer] = pin[Writer] /\ last'[Writer] = last[Writer]
      BY <1>1, <2>1, <2>3 DEF Persist, Clients
    <3> QED  BY <2>1, <3>1, WriterQuiet
  <2> QED  BY <2>2, <2>3
<1>3. CASE Interrupt \/ Crash
  <2>1. UNCHANGED <<line, live, pending, minted, pin, last>> /\ End
        /\ (sess' = sess \/ sess' = [b \in Branch |-> Off])
    BY <1>3 DEF Interrupt, Crash, keyFiles, trust
  <2>2. cmd'.at = "idle" /\ Off.at = "off"
    BY <2>1, Ending, SessionRecords DEF Off, KeyFile
  <2>3. \A b \in Branch : sess'[b].at # "off" => sess[b].at # "off"
    BY <2>1, <2>2
  <2> QED  BY <2>1, <2>2, <2>3, WriterQuiet DEF WritePoints
<1>4. CASE UNCHANGED vars
  BY <1>4, WriterQuiet DEF vars, keyFiles, trust
<1> QED  BY <1>2, <1>3, <1>4

(* What a command has parted stays known.                                  *)
LEMMA PartedStays == ASSUME RotationInv, [Next]_vars PROVE parted => parted'
<1>1. cmd \in Commands
  BY DEF RotationInv, RotationTypeOK
<1>2. CASE End
  BY <1>2, Ending
<1>3. CASE NextBranch
  BY <1>1, <1>2, <1>3, Continuing
<1>4. CASE ~End /\ ~NextBranch
  BY <1>4 DEF Next, Start, Step, Survey, TakeLeases, ReadKeys, FetchBranch, Announce, Refetch, ExecuteBranch,
     Retract, PromoteArchive, PromoteRename, Discard, Session, Mount, BeginSeal, SealArchive,
     SealRename, SealFlip, Unmount, Look, Interrupt, Crash, vars
<1> QED  BY <1>2, <1>3, <1>4

(* Every step keeps it.                                                    *)
LEMMA FollowStep == ASSUME RotationInv, FollowInv, [Next]_vars PROVE FollowInv'
<1>1. AscendInv'
  BY AscendStep DEF FollowInv
<1>2. CASE parted'
  BY <1>1, <1>2 DEF FollowInv
<1>3. CASE ~parted'
  <2>1. Sound
    BY <1>3, PartedStays DEF FollowInv, Sound
  <2>2. WriterInv'
    <3>1. CASE (\E kind \in Kinds : Start(kind)) \/ Survey \/ TakeLeases \/ ReadKeys
      BY <2>1, <3>1, WriterSurveys
    <3>2. CASE FetchBranch \/ Refetch
      BY <2>1, <3>2, WriterFetches
    <3>3. CASE Announce \/ ExecuteBranch \/ Retract
      BY <2>1, <3>3, WriterPublishes
    <3>4. CASE PromoteArchive \/ PromoteRename \/ Discard
      BY <2>1, <3>4, WriterConcludes
    <3>5. CASE \E b \in Branch : Session(b)
      BY <2>1, <3>5, WriterSeals
    <3>6. CASE \/ \E c \in Clients, b \in Branch : Look(c, b)
               \/ Interrupt \/ Crash \/ UNCHANGED vars
      BY <2>1, <3>6, WriterWatches
    <3> QED  BY <3>1, <3>2, <3>3, <3>4, <3>5, <3>6 DEF Next, Step
  <2> QED  BY <1>1, <2>2 DEF FollowInv
<1> QED  BY <1>2, <1>3

(* A volume is begun under one key that no client has pinned.              *)
LEMMA FollowStarts == Init => FollowInv
<1> SUFFICES ASSUME Init PROVE FollowInv
  OBVIOUS
<1>1. /\ live = 1 /\ minted = 1 /\ pending = NoKey
      /\ \A b \in Branch : line[b] = << [signer |-> 1, next |-> NoKey] >> /\ sess[b] = Off
      /\ pin[Writer] = NoKey /\ cmd = Idle
  BY DEF Init, Clients
<1>2. \A b \in Branch : HeadOf(b).signer = 1
  BY <1>1 DEF HeadOf
<1>3. Off.at = "off" /\ Idle.at = "idle"
  BY SessionRecords DEF Off, KeyFile, Idle
<1>4. AscendInv
  BY <1>1 DEF AscendInv, Rising, NextAbove
<1>5. Following /\ Writing /\ Sealing
  BY <1>1, <1>2, <1>3 DEF Following, Writing, Sealing, Split, NoKey
<1> QED  BY <1>4, <1>5 DEF FollowInv, WriterInv

(* The machine that rotates never locks itself out: once a run has left    *)
(* all heads under one key it accepts every one of them, whatever it read  *)
(* on which branch before (rotate.go fetches, announces and reads back     *)
(* through the same trust path).                                           *)
THEOREM WriterKeepsUp == RotationSpec => []WriterFollows
<1>1. RotationInv /\ FollowInv /\ [Next]_vars => FollowInv'
  BY FollowStep
<1>2. RotationInv /\ FollowInv => WriterFollows
  <2> SUFFICES ASSUME RotationInv, FollowInv, ~parted, ~Split, NEW b \in Branch
               PROVE  Accepts(Writer, b)
    BY DEF WriterFollows
  <2>1. CASE pin[Writer] = NoKey
    BY <2>1 DEF Accepts
  <2>2. CASE pin[Writer] # NoKey
    <3>1. Follows(b) /\ (pin[Writer] = pending => \E a \in Branch : HeadOf(a).signer = pending)
      BY <2>2 DEF FollowInv, WriterInv, Following
    <3> QED  BY <3>1 DEF Follows, Accepts, Split
  <2> QED  BY <2>1, <2>2
<1> QED  BY <1>1, <1>2, FollowStarts, RotationHolds, PTL DEF RotationSpec

=============================================================================
