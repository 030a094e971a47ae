------------------------------ MODULE WriteLease ------------------------------
(***************************************************************************)
(* The advisory write lease of one branch (internal/lease/lease.go).       *)
(*                                                                         *)
(* One object, meta/lease-<branch>.json, names the holder of the branch.   *)
(* The store has no compare-and-swap, so acquisition is write-then-read-   *)
(* back, renewal is read-then-write, and every store operation of a        *)
(* session may interleave with every operation of the others.  A session   *)
(* has two threads: the caller (Acquire, Fence, Release) and the renewal   *)
(* loop.  A machine may sleep: a sleeping session takes no step and its    *)
(* monotonic clock stands still.  Its wall clock may be set back.          *)
(***************************************************************************)
EXTENDS Integers, FiniteSets

CONSTANTS
    Sessions,      \* session ids; a session id is used by one mount only
    Stealers,      \* the sessions run with --steal-lease
    NoLease,       \* the lease object does not exist
    TTL,           \* opts.TTL, in ticks
    PutLag,        \* bound: ticks between a Put landing and its answer
    MaxTime,       \* bound: the origin's clock stops here
    MaxStep,       \* bound: how far a wall clock is set back
    StealAttempts, \* attempts of a stealing acquisition (4 in the code)
    Faults,        \* whether the federation may fail a read or a Put
    Operator       \* whether a person may delete the lease object by hand

ASSUME LeaseConstants ==
    /\ Stealers \subseteq Sessions
    /\ NoLease \notin [session : Sessions, stamp : Nat]
    /\ TTL \in Nat \ {0}
    /\ PutLag \in Nat /\ PutLag < TTL
    /\ MaxTime \in Nat
    /\ MaxStep \in Nat
    /\ StealAttempts \in Nat \ {0}
    /\ Faults \in BOOLEAN
    /\ Operator \in BOOLEAN

VARIABLES
    lobj,        \* the lease object: NoLease, or the record on it
    now,         \* the origin's clock, which acquirers agree with
    asleep,      \* asleep[s]: the machine of s is suspended
    call,        \* call[s]: where the caller's thread of s is
    loop,        \* loop[s]: where the renewal loop of s is
    tries,       \* tries[s]: acquisition attempts left
    conflicted,  \* Lease.conflicted
    interrupted, \* Lease.interrupted
    renewed,     \* Lease.renewedAt, in true time
    slept,       \* ticks the machine of s slept since renewed[s]
    setBack,     \* how far the wall clock of s was set back since then
    landedAt,    \* landedAt[x]: when the Put of thread x landed
    stale,       \* history: thread x is about to write or delete, and the
                 \* object changed after x looked at it
    forced,      \* history: a record was stolen, or changed unseen
    usurped,     \* history: s was displaced, and neither checked the head
                 \* since nor was about to write its lease back
    disturbed    \* history: the object was written by another, or the head
                 \* was found moved, since s acquired

objVars   == <<lobj, stale, forced>>
clockVars == <<now, asleep, slept, setBack>>
flagVars  == <<conflicted, interrupted>>
histVars  == <<usurped, disturbed>>
leaseVars == <<lobj, now, asleep, call, loop, tries, conflicted, interrupted,
               renewed, slept, setBack, landedAt, stale, forced, usurped, disturbed>>

Threads == Sessions \X {"call", "loop"}

CallPoints ==
    {"off", "acqRead", "acqWrite", "acqAck", "acqVerify", "held", "sealing",
     "fenRead", "fenHead", "fenWrite", "fenAck",
     "vanHead", "vanWrite", "vanAck", "vanVerify",
     "relRead", "relDelete", "gone"}

LoopPoints == {"idle", "write", "ack", "stopped"}

Record == [session : Sessions, stamp : Nat]

LeaseTypeOK ==
    /\ lobj \in Record \cup {NoLease}
    /\ now \in Nat
    /\ asleep \in [Sessions -> BOOLEAN]
    /\ call \in [Sessions -> CallPoints]
    /\ loop \in [Sessions -> LoopPoints]
    /\ tries \in [Sessions -> Nat]
    /\ conflicted \in [Sessions -> BOOLEAN]
    /\ interrupted \in [Sessions -> BOOLEAN]
    /\ renewed \in [Sessions -> Nat]
    /\ slept \in [Sessions -> Nat]
    /\ setBack \in [Sessions -> Nat]
    /\ landedAt \in [Threads -> Nat]
    /\ stale \in [Threads -> BOOLEAN]
    /\ forced \in BOOLEAN
    /\ usurped \in [Sessions -> BOOLEAN]
    /\ disturbed \in [Sessions -> BOOLEAN]

LeaseInit ==
    /\ lobj = NoLease
    /\ now = 0
    /\ asleep = [s \in Sessions |-> FALSE]
    /\ call = [s \in Sessions |-> "off"]
    /\ loop = [s \in Sessions |-> "stopped"]
    /\ tries = [s \in Sessions |-> 0]
    /\ conflicted = [s \in Sessions |-> FALSE]
    /\ interrupted = [s \in Sessions |-> FALSE]
    /\ renewed = [s \in Sessions |-> 0]
    /\ slept = [s \in Sessions |-> 0]
    /\ setBack = [s \in Sessions |-> 0]
    /\ landedAt = [x \in Threads |-> 0]
    /\ stale = [x \in Threads |-> FALSE]
    /\ forced = FALSE
    /\ usurped = [s \in Sessions |-> FALSE]
    /\ disturbed = [s \in Sessions |-> FALSE]

-----------------------------------------------------------------------------
(* What the code computes from the record and the clocks.                  *)

(* isLive: the freshest stamp plus the TTL is still ahead.  The stamp is   *)
(* the later of the object's mtime and the holder's Renewed.               *)
isLive(rec) == rec # NoLease /\ now < rec.stamp + TTL

(* whose, wrong: only the write this session saw acknowledged is its own.  *)
Mine_ByETag(s) ==
    lobj # NoLease /\ lobj.session = s /\ (call[s] = "acqVerify" \/ lobj.stamp = renewed[s])

(* whose: the record on the object decides, never its ETag.                *)
Mine(s)   == lobj # NoLease /\ lobj.session = s
Others(s) == lobj # NoLease /\ ~Mine(s)

(* The two readings of the time since renewedAt: the monotonic clock       *)
(* misses what the machine slept, the wall clock what it was set back.     *)
monotonic(s) == now - renewed[s] - slept[s]
wall(s)      == now - renewed[s] - setBack[s]

(* gapSince, wrong: one clock alone.                                       *)
gapSince_MonotonicOnly(s) == monotonic(s)
gapSince_WallOnly(s)      == wall(s)

(* gapSince: the larger of the two clocks' answers.                        *)
gapSince(s) == IF monotonic(s) > wall(s) THEN monotonic(s) ELSE wall(s)

(* The freshness test of Fence, boundary included.                         *)
fresh(s) == gapSince(s) <= TTL

(* Between a successful Acquire and Release, a session has a Lease.        *)
HasLease(s) ==
    call[s] \in {"held", "sealing", "fenRead", "fenHead", "fenWrite", "fenAck",
                 "vanHead", "vanWrite", "vanAck", "vanVerify"}

(* resolveVanished has compared the head and writes the lease back.        *)
Retaking(s) == call[s] \in {"vanWrite", "vanAck", "vanVerify"}

-----------------------------------------------------------------------------
(* The store as lease.go uses it.  A read is seen, or fails.  A Put fails  *)
(* before it reaches the origin, or lands and is answered later: with      *)
(* success, or with an error ("a 5xx from in front of an origin that       *)
(* already wrote").                                                        *)

Answers == IF Faults THEN {"ok", "error"} ELSE {"ok"}

(* The thread x has just looked at the object.                             *)
Look(x) == stale' = [stale EXCEPT ![x] = FALSE] /\ UNCHANGED <<lobj, forced>>

(* The thread is between a look at the object and a write to it.           *)
Decided(s, thread) ==
    \/ thread = "call" /\ call[s] \in {"acqWrite", "fenHead", "fenWrite",
                                       "vanHead", "vanWrite", "relDelete"}
    \/ thread = "loop" /\ loop[s] = "write"

(* The object changes at the hand of thread x, or of a person.             *)
Changed(x) == stale' = [y \in Threads |-> y # x /\ Decided(y[1], y[2])]

(* A change made by s through its thread x is forced when the object       *)
(* changed after x looked at it and is not s's own record.                 *)
Unseen(s, x) == stale[x] /\ ~Mine(s)

(* The record of s lands on the object.                                    *)
Land(s, x) ==
    /\ lobj' = [session |-> s, stamp |-> now]
    /\ Changed(x)
    /\ forced' = (forced \/ Unseen(s, x) \/ (s \in Stealers /\ isLive(lobj) /\ Others(s)))

(* write, first half: the Put of this session's record lands, or fails.    *)
Send(s, x, answer) ==
    IF answer = "ok"
    THEN /\ Land(s, x)
         /\ landedAt' = [landedAt EXCEPT ![x] = now]
         /\ disturbed' = [t \in Sessions |-> disturbed[t] \/ t # s]
    ELSE UNCHANGED <<objVars, landedAt, disturbed>>

(* write, second half: renewedAt moves when success is acknowledged.       *)
Acknowledge(s, answer) ==
    IF answer = "ok"
    THEN /\ renewed' = [renewed EXCEPT ![s] = now]
         /\ slept' = [slept EXCEPT ![s] = 0]
         /\ setBack' = [setBack EXCEPT ![s] = 0]
    ELSE UNCHANGED <<renewed, slept, setBack>>

Answered(x) == landedAt' = [landedAt EXCEPT ![x] = 0]

markLost(s)        == conflicted' = [conflicted EXCEPT ![s] = TRUE]
markInterrupted(s) == interrupted' = [interrupted EXCEPT ![s] = TRUE]

Goto(s, point) == call' = [call EXCEPT ![s] = point]

-----------------------------------------------------------------------------
(* Acquire.                                                                *)

(* checkVolumeLease: a live v0.1.0 lease on the whole volume refuses the   *)
(* acquisition; whether there is one is up to that client.  The read       *)
(* that follows it starts the acquisition proper.                          *)
checkVolumeLease(s) ==
    /\ call[s] = "off" /\ ~asleep[s]
    /\ \E volumeFree \in BOOLEAN : Goto(s, IF volumeFree THEN "acqRead" ELSE "gone")
    /\ tries' = [tries EXCEPT ![s] = IF s \in Stealers THEN StealAttempts ELSE 1]
    /\ UNCHANGED <<objVars, clockVars, loop, flagVars, renewed, landedAt, histVars>>

(* Refuse a live lease of somebody else, unless stealing.                  *)
AcquireRead(s) ==
    /\ call[s] = "acqRead" /\ ~asleep[s]
    /\ \E answer \in Answers :
          Goto(s, IF answer = "error" \/ (isLive(lobj) /\ s \notin Stealers)
                  THEN "gone" ELSE "acqWrite")
    /\ Look(<<s, "call">>)
    /\ UNCHANGED <<clockVars, loop, tries, flagVars, renewed, landedAt, histVars>>

AcquireWrite(s) ==
    /\ call[s] = "acqWrite" /\ ~asleep[s]
    /\ \E answer \in Answers :
          /\ Send(s, <<s, "call">>, answer)
          /\ Goto(s, IF answer = "ok" THEN "acqAck" ELSE "gone")
    /\ tries' = [tries EXCEPT ![s] = @ - 1]
    /\ UNCHANGED <<clockVars, loop, flagVars, renewed, usurped>>

AcquireAck(s) ==
    /\ call[s] = "acqAck" /\ ~asleep[s]
    /\ Answered(<<s, "call">>)
    /\ \E answer \in Answers :
          /\ Acknowledge(s, answer)
          /\ Goto(s, IF answer = "ok" THEN "acqVerify" ELSE "gone")
    /\ UNCHANGED <<objVars, now, asleep, loop, tries, flagVars, histVars>>

(* Whose lease is taken from it when s acquires one.                       *)
Displaced(s) == {t \in Sessions \ {s} : HasLease(t) /\ ~Retaking(t)}

(* The read-back, wrong: a lost race is always tried again.                *)
AcquireVerify_KeepsTrying(s) ==
    /\ call[s] = "acqVerify" /\ ~asleep[s]
    /\ Look(<<s, "call">>)
    /\ IF Mine(s)
       THEN /\ Goto(s, "held")
            /\ loop' = [loop EXCEPT ![s] = "idle"]
            /\ usurped' = [t \in Sessions |-> usurped[t] \/ t \in Displaced(s)]
            /\ disturbed' = [disturbed EXCEPT ![s] = FALSE]
       ELSE Goto(s, IF Others(s) THEN "acqWrite" ELSE "gone") /\ UNCHANGED <<loop, histVars>>
    /\ UNCHANGED <<clockVars, tries, flagVars, renewed, landedAt>>

(* The read-back: ours starts the renewal loop; a record that is not ours  *)
(* loses, and only a steal tries again.                                    *)
AcquireVerify(s) ==
    /\ call[s] = "acqVerify" /\ ~asleep[s]
    /\ Look(<<s, "call">>)
    /\ \E answer \in Answers :
          IF answer = "ok" /\ Mine(s)
          THEN /\ Goto(s, "held")
               /\ loop' = [loop EXCEPT ![s] = "idle"]
               /\ usurped' = [t \in Sessions |-> usurped[t] \/ t \in Displaced(s)]
               /\ disturbed' = [disturbed EXCEPT ![s] = FALSE]
          ELSE /\ Goto(s, IF answer = "ok" /\ Others(s) /\ tries[s] > 0 THEN "acqWrite" ELSE "gone")
               /\ UNCHANGED <<loop, histVars>>
    /\ UNCHANGED <<clockVars, tries, flagVars, renewed, landedAt>>

-----------------------------------------------------------------------------
(* The renewal loop: renewOnce in two store operations.                    *)

(* renewOnce, wrong: reclaim a missing object without remembering it.      *)
RenewRead_SilentReclaim(s) ==
    /\ loop[s] = "idle" /\ ~asleep[s]
    /\ Look(<<s, "loop">>)
    /\ \E answer \in Answers :
          IF answer = "error" THEN UNCHANGED <<loop, flagVars>>
          ELSE IF Others(s)
          THEN loop' = [loop EXCEPT ![s] = "stopped"] /\ markLost(s) /\ UNCHANGED interrupted
          ELSE loop' = [loop EXCEPT ![s] = "write"] /\ UNCHANGED flagVars
    /\ UNCHANGED <<clockVars, call, tries, renewed, landedAt, histVars>>

(* renewOnce, wrong: another's record is left for the next tick.           *)
RenewRead_Retries(s) ==
    /\ loop[s] = "idle" /\ ~asleep[s]
    /\ Look(<<s, "loop">>)
    /\ IF Others(s) THEN UNCHANGED <<loop, flagVars>>
       ELSE /\ loop' = [loop EXCEPT ![s] = "write"]
            /\ IF lobj = NoLease THEN markInterrupted(s) ELSE UNCHANGED interrupted
            /\ UNCHANGED conflicted
    /\ UNCHANGED <<clockVars, call, tries, renewed, landedAt, histVars>>

(* The check of renewOnce.  Another's record ends the loop, a missing      *)
(* object is remembered, an unreadable one decides nothing.                *)
RenewRead(s) ==
    /\ loop[s] = "idle" /\ ~asleep[s]
    /\ Look(<<s, "loop">>)
    /\ \E answer \in Answers :
          \/ answer = "error" /\ UNCHANGED <<loop, flagVars>>
          \/ /\ answer = "ok" /\ Others(s)
             /\ loop' = [loop EXCEPT ![s] = "stopped"]
             /\ markLost(s) /\ UNCHANGED interrupted
          \/ /\ answer = "ok" /\ lobj = NoLease
             /\ loop' = [loop EXCEPT ![s] = "write"]
             /\ markInterrupted(s) /\ UNCHANGED conflicted
          \/ /\ answer = "ok" /\ Mine(s)
             /\ loop' = [loop EXCEPT ![s] = "write"]
             /\ UNCHANGED flagVars
    /\ UNCHANGED <<clockVars, call, tries, renewed, landedAt, histVars>>

RenewWrite(s) ==
    /\ loop[s] = "write" /\ ~asleep[s]
    /\ \E answer \in Answers :
          /\ Send(s, <<s, "loop">>, answer)
          /\ loop' = [loop EXCEPT ![s] = IF answer = "ok" THEN "ack" ELSE "idle"]
    /\ UNCHANGED <<clockVars, call, tries, flagVars, renewed, usurped>>

RenewAck(s) ==
    /\ loop[s] = "ack" /\ ~asleep[s]
    /\ loop' = [loop EXCEPT ![s] = "idle"]
    /\ Answered(<<s, "loop">>)
    /\ \E answer \in Answers : Acknowledge(s, answer)
    /\ UNCHANGED <<objVars, now, asleep, call, tries, flagVars, histVars>>

-----------------------------------------------------------------------------
(* Fence, which every operation that flips the branch calls first.         *)

FencePassed(s)  == Goto(s, "sealing")
FenceRefused(s) == Goto(s, "held")

Fence(s) ==
    /\ call[s] = "held" /\ ~asleep[s]
    /\ \/ conflicted[s] /\ FenceRefused(s)
       \/ ~conflicted[s] /\ ~interrupted[s] /\ fresh(s) /\ FencePassed(s)
       \/ ~conflicted[s] /\ (interrupted[s] \/ ~fresh(s)) /\ Goto(s, "fenRead")
    /\ UNCHANGED <<objVars, clockVars, loop, tries, flagVars, renewed, landedAt, histVars>>

(* revalidate: the renewal check, made now.                                *)
RevalidateRead(s) ==
    /\ call[s] = "fenRead" /\ ~asleep[s]
    /\ Look(<<s, "call">>)
    /\ \E answer \in Answers :
          \/ answer = "error" /\ FenceRefused(s) /\ UNCHANGED flagVars
          \/ /\ answer = "ok" /\ Others(s)
             /\ markLost(s) /\ FenceRefused(s) /\ UNCHANGED interrupted
          \/ /\ answer = "ok" /\ lobj = NoLease
             /\ markInterrupted(s) /\ Goto(s, "vanHead") /\ UNCHANGED conflicted
          \/ /\ answer = "ok" /\ Mine(s)
             /\ Goto(s, IF interrupted[s] THEN "fenHead" ELSE "fenWrite")
             /\ UNCHANGED flagVars
    /\ UNCHANGED <<clockVars, loop, tries, renewed, landedAt, histVars>>

(* What the caller's Guard may answer about the branch head.               *)
GuardAnswers == {"unchanged", "moved"} \cup (IF Faults THEN {"error"} ELSE {})

(* clearInterrupted: the head decides whether an absence was harmless.     *)
clearInterrupted(s, answer, next) ==
    \/ /\ answer = "unchanged"
       /\ interrupted' = [interrupted EXCEPT ![s] = FALSE]
       /\ usurped' = [usurped EXCEPT ![s] = FALSE]
       /\ Goto(s, next) /\ UNCHANGED <<conflicted, disturbed>>
    \/ /\ answer = "moved"
       /\ markLost(s) /\ FenceRefused(s)
       /\ disturbed' = [disturbed EXCEPT ![s] = TRUE]
       /\ UNCHANGED <<interrupted, usurped>>
    \/ answer = "error" /\ FenceRefused(s) /\ UNCHANGED <<flagVars, histVars>>

RevalidateHead(s, answer) ==
    /\ call[s] = "fenHead" /\ ~asleep[s]
    /\ clearInterrupted(s, answer, "fenWrite")
    /\ UNCHANGED <<objVars, clockVars, loop, tries, renewed, landedAt>>

RevalidateWrite(s) ==
    /\ call[s] = "fenWrite" /\ ~asleep[s]
    /\ \E answer \in Answers :
          /\ Send(s, <<s, "call">>, answer)
          /\ IF answer = "ok" THEN Goto(s, "fenAck") ELSE FenceRefused(s)
    /\ UNCHANGED <<clockVars, loop, tries, flagVars, renewed, usurped>>

RevalidateAck(s) ==
    /\ call[s] = "fenAck" /\ ~asleep[s]
    /\ Answered(<<s, "call">>)
    /\ \E answer \in Answers :
          /\ Acknowledge(s, answer)
          /\ IF answer = "ok" THEN FencePassed(s) ELSE FenceRefused(s)
    /\ UNCHANGED <<objVars, now, asleep, loop, tries, flagVars, histVars>>

(* resolveVanished: head, then write, then read back.                      *)
VanishedHead(s, answer) ==
    /\ call[s] = "vanHead" /\ ~asleep[s]
    /\ clearInterrupted(s, answer, "vanWrite")
    /\ UNCHANGED <<objVars, clockVars, loop, tries, renewed, landedAt>>

VanishedWrite(s) ==
    /\ call[s] = "vanWrite" /\ ~asleep[s]
    /\ \E answer \in Answers :
          /\ Send(s, <<s, "call">>, answer)
          /\ IF answer = "ok" THEN Goto(s, "vanAck") ELSE FenceRefused(s)
    /\ UNCHANGED <<clockVars, loop, tries, flagVars, renewed, usurped>>

VanishedAck(s) ==
    /\ call[s] = "vanAck" /\ ~asleep[s]
    /\ Answered(<<s, "call">>)
    /\ \E answer \in Answers :
          /\ Acknowledge(s, answer)
          /\ IF answer = "ok" THEN Goto(s, "vanVerify") ELSE FenceRefused(s)
    /\ UNCHANGED <<objVars, now, asleep, loop, tries, flagVars, histVars>>

VanishedVerify(s) ==
    /\ call[s] = "vanVerify" /\ ~asleep[s]
    /\ Look(<<s, "call">>)
    /\ \E answer \in Answers :
          \/ /\ answer = "ok" /\ Mine(s)
             /\ interrupted' = [interrupted EXCEPT ![s] = FALSE]
             /\ FencePassed(s) /\ UNCHANGED conflicted
          \/ /\ answer = "ok" /\ Others(s)
             /\ markLost(s) /\ FenceRefused(s) /\ UNCHANGED interrupted
          \/ (answer = "error" \/ lobj = NoLease) /\ FenceRefused(s) /\ UNCHANGED flagVars
    /\ UNCHANGED <<clockVars, loop, tries, renewed, landedAt, histVars>>

(* The fenced operation is over, whatever came of it.                      *)
SealReturns(s) ==
    /\ call[s] = "sealing" /\ ~asleep[s]
    /\ Goto(s, "held")
    /\ UNCHANGED <<objVars, clockVars, loop, tries, flagVars, renewed, landedAt, histVars>>

-----------------------------------------------------------------------------
(* Release.                                                                *)

(* Stop the loop and join it: a renewal under way finishes first.          *)
ReleaseStop(s) ==
    /\ call[s] = "held" /\ ~asleep[s] /\ loop[s] \in {"idle", "stopped"}
    /\ loop' = [loop EXCEPT ![s] = "stopped"]
    /\ Goto(s, IF conflicted[s] THEN "gone" ELSE "relRead")
    /\ UNCHANGED <<objVars, clockVars, tries, flagVars, renewed, landedAt, histVars>>

ReleaseRead(s) ==
    /\ call[s] = "relRead" /\ ~asleep[s]
    /\ Look(<<s, "call">>)
    /\ \E answer \in Answers : Goto(s, IF answer = "ok" /\ Mine(s) THEN "relDelete" ELSE "gone")
    /\ UNCHANGED <<clockVars, loop, tries, flagVars, renewed, landedAt, histVars>>

(* The object leaves the store, at the hand of thread x of s.              *)
ReleaseDelete(s) ==
    /\ call[s] = "relDelete" /\ ~asleep[s]
    /\ Goto(s, "gone")
    /\ \E answer \in Answers :
          IF answer = "error" THEN UNCHANGED objVars
          ELSE /\ lobj' = NoLease
               /\ Changed(<<s, "call">>)
               /\ forced' = (forced \/ Unseen(s, <<s, "call">>))
    /\ UNCHANGED <<clockVars, loop, tries, flagVars, renewed, landedAt, histVars>>

-----------------------------------------------------------------------------
(* The environment.                                                        *)

(* A process dies where it stands, with its memory; its record stays on    *)
(* the object until it expires.                                            *)
Crash(s) ==
    /\ call[s] \notin {"off", "gone"}
    /\ Goto(s, "gone")
    /\ loop' = [loop EXCEPT ![s] = "stopped"]
    /\ tries' = [tries EXCEPT ![s] = 0]
    /\ conflicted' = [conflicted EXCEPT ![s] = FALSE]
    /\ interrupted' = [interrupted EXCEPT ![s] = FALSE]
    /\ renewed' = [renewed EXCEPT ![s] = 0]
    /\ slept' = [slept EXCEPT ![s] = 0]
    /\ setBack' = [setBack EXCEPT ![s] = 0]
    /\ asleep' = [asleep EXCEPT ![s] = FALSE]
    /\ usurped' = [usurped EXCEPT ![s] = FALSE]
    /\ disturbed' = [disturbed EXCEPT ![s] = FALSE]
    /\ UNCHANGED <<objVars, now, landedAt>>

Sleep(s) ==
    /\ call[s] \notin {"off", "gone"} /\ ~asleep[s]
    /\ asleep' = [asleep EXCEPT ![s] = TRUE]
    /\ UNCHANGED <<objVars, now, slept, setBack, call, loop, tries, flagVars, renewed, landedAt, histVars>>

Wake(s) ==
    /\ asleep[s]
    /\ asleep' = [asleep EXCEPT ![s] = FALSE]
    /\ UNCHANGED <<objVars, now, slept, setBack, call, loop, tries, flagVars, renewed, landedAt, histVars>>

(* The wall clock of s is set back, by NTP or by hand.                     *)
SetClockBack(s) ==
    /\ HasLease(s)
    /\ \E d \in 1..MaxStep :
          /\ setBack[s] + d <= MaxStep
          /\ setBack' = [setBack EXCEPT ![s] = @ + d]
    /\ UNCHANGED <<objVars, now, asleep, slept, call, loop, tries, flagVars, renewed, landedAt, histVars>>

(* A person clears a lease that has expired.                               *)
OperatorDelete ==
    /\ Operator /\ lobj # NoLease /\ ~isLive(lobj)
    /\ lobj' = NoLease
    /\ Changed(<<>>)
    /\ UNCHANGED <<forced, clockVars, call, loop, tries, flagVars, renewed, landedAt, histVars>>

(* The Put of thread x has landed and is not answered yet.                 *)
Unanswered(s, thread) ==
    \/ thread = "call" /\ call[s] \in {"acqAck", "fenAck", "vanAck"}
    \/ thread = "loop" /\ loop[s] = "ack"

(* Time passes; the monotonic clock of a suspended machine stands still.   *)
Tick ==
    /\ now < MaxTime
    /\ \A x \in Threads : Unanswered(x[1], x[2]) => now < landedAt[x] + PutLag
    /\ now' = now + 1
    /\ slept' = [s \in Sessions |-> IF asleep[s] THEN slept[s] + 1 ELSE slept[s]]
    /\ UNCHANGED <<objVars, asleep, setBack, call, loop, tries, flagVars, renewed, landedAt, histVars>>

-----------------------------------------------------------------------------
Acquire(s) == checkVolumeLease(s) \/ AcquireRead(s) \/ AcquireWrite(s) \/ AcquireAck(s) \/ AcquireVerify(s)
renewOnce(s) == RenewRead(s) \/ RenewWrite(s) \/ RenewAck(s)
Release(s) == ReleaseStop(s) \/ ReleaseRead(s) \/ ReleaseDelete(s)
Revalidate(s) ==
    \/ RevalidateRead(s) \/ RevalidateWrite(s) \/ RevalidateAck(s)
    \/ VanishedWrite(s) \/ VanishedAck(s) \/ VanishedVerify(s)

LeaseNext ==
    \/ \E s \in Sessions :
          \/ Acquire(s) \/ renewOnce(s) \/ Fence(s) \/ Revalidate(s)
          \/ \E answer \in GuardAnswers : RevalidateHead(s, answer) \/ VanishedHead(s, answer)
          \/ SealReturns(s) \/ Release(s) \/ Crash(s) \/ Sleep(s) \/ Wake(s) \/ SetClockBack(s)
    \/ OperatorDelete
    \/ Tick

LeaseSpec == LeaseInit /\ [][LeaseNext]_leaseVars

(* The renewal ticker fires again and again while the machine is awake,    *)
(* and a machine that sleeps wakes up.                                     *)
LeaseFairSpec ==
    /\ LeaseSpec
    /\ \A s \in Sessions : /\ WF_leaseVars(Wake(s))
                           /\ SF_leaseVars(RenewRead(s))
                           /\ SF_leaseVars(RenewWrite(s))
                           /\ SF_leaseVars(RenewAck(s))

-----------------------------------------------------------------------------
(* Properties.                                                             *)

(* At most one of the two clocks of s has lied since its last renewal.     *)
HonestClock(s) == slept[s] = 0 \/ setBack[s] = 0

(* A session that may take its lease to be live: Fence would not make a    *)
(* round trip, with the time a Put may have been on its way taken off.     *)
SafelyFresh(s) == HasLease(s) /\ HonestClock(s) /\ gapSince(s) + PutLag < TTL

(* Unless a lease was stolen or a record was overwritten in the read-to-   *)
(* write window lease.go accepts, no two sessions are fresh at once: the   *)
(* age Fence measures never outlives the age Acquire of another measures.  *)
LeaseExclusion ==
    ~forced => \A s, t \in Sessions : SafelyFresh(s) /\ SafelyFresh(t) => s = t

(* Fence never lets a session publish after another acquired the branch    *)
(* from it, gone again or not, unless the head was compared since.  Apart  *)
(* from the same exceptions, what can go unnoticed is a takeover in the    *)
(* last PutLag ticks of the freshness test, one the renewal loop finds     *)
(* while a Fence is already past its own look (InterruptedBlocksPublish),  *)
(* and one that comes and goes while resolveVanished writes the lease      *)
(* back, whose end clears what the loop has latched meanwhile.             *)
TakeoverNoticed ==
    [][\A s \in Sessions :
          call[s] # "sealing" /\ call'[s] = "sealing" =>
             \/ ~usurped[s]
             \/ forced
             \/ interrupted[s]
             \/ call[s] = "held" /\ ~SafelyFresh(s)]_leaseVars

(* What markInterrupted warns: once the object was found missing, nothing  *)
(* is published until the head has been checked.                           *)
InterruptedBlocksPublish ==
    [][\A s \in Sessions :
          call[s] # "sealing" /\ call'[s] = "sealing" => ~interrupted'[s]]_leaseVars

(* A session never reports a conflict against itself: a lost lease means   *)
(* that another session wrote the object or that the head moved, however   *)
(* many of its own Puts failed after they had landed.                      *)
ConflictIsReal == \A s \in Sessions : conflicted[s] => disturbed[s]

(* A holder whose object carries another's record finds out: the renewal   *)
(* loop reports the loss, unless the session ends or overwrites it first.  *)
LossIsNoticed ==
    \A s \in Sessions :
       HasLease(s) /\ Others(s)
          ~> conflicted[s] \/ interrupted[s] \/ Mine(s) \/ ~HasLease(s)
=============================================================================
