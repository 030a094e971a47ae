-------------------------- MODULE SealSessionProofs --------------------------
(***************************************************************************)
(* A session that seals under its lease implements both parts it is made   *)
(* of, the lease and the flip, and its lease closes the window of its      *)
(* flip: for any number of sessions, any TTL, stealers, failing stores,    *)
(* sleeping machines and clocks set back.  The theorems of the lease       *)
(* itself (WriteLease, LeaseSpec) come first, and those of the session     *)
(* (SealSession, SealSpec) rest on them.                                   *)
(***************************************************************************)
EXTENDS SealSession, TLAPS

-----------------------------------------------------------------------------
(* THE LEASE ALONE: type correctness and exclusion, for any number of      *)
(* sessions, any TTL, any bound on the clock and any set of stealers.      *)
(* The inductive invariant.                                                *)

(* Only a stealing acquisition has attempts left after its first Put.      *)
TriesInv ==
    \A s \in Sessions :
       /\ call[s] \in {"acqRead", "acqWrite"} => tries[s] >= 1
       /\ s \notin Stealers /\ call[s] \in {"acqRead", "acqWrite"} => tries[s] = 1
       /\ s \notin Stealers /\ call[s] \in {"acqAck", "acqVerify"} => tries[s] = 0

(* The renewal loop runs only inside a lease.                              *)
LoopInv == \A s \in Sessions : loop[s] # "stopped" => HasLease(s)

(* Stamps are in the past.                                                 *)
PastInv ==
    /\ \A s \in Sessions : renewed[s] <= now
    /\ \A x \in Threads : landedAt[x] <= now

(* What a thread that looked and has not written yet still knows.          *)
Knows(s, k) ==
    Decided(s, k) /\ ~stale[<<s, k>>] =>
       /\ k = "call" /\ call[s] = "acqWrite" => Mine(s) \/ ~isLive(lobj) \/ s \in Stealers
       /\ k = "call" /\ call[s] \in {"fenHead", "fenWrite", "relDelete"} => Mine(s)
       /\ k = "call" /\ call[s] \in {"vanHead", "vanWrite"} => lobj = NoLease
       /\ k = "loop" => Mine(s) \/ lobj = NoLease

DecidedInv == \A s \in Sessions, k \in {"call", "loop"} : Knows(s, k)

(* A record that landed is there until its Put is answered.                *)
PendingInv ==
    ~forced =>
       \A s \in Sessions, k \in {"call", "loop"} :
          Unanswered(s, k) =>
             /\ Mine(s)
             /\ landedAt[<<s, k>>] <= lobj.stamp
             /\ now <= landedAt[<<s, k>>] + PutLag

(* A session whose renewal is younger than the TTL, less the time a Put    *)
(* may be on its way, has its record on the object.                        *)
Claims(s) == call[s] = "acqVerify" \/ HasLease(s)

ClaimInv ==
    ~forced =>
       \A s \in Sessions :
          Claims(s) /\ now + PutLag < renewed[s] + TTL =>
             Mine(s) /\ renewed[s] <= lobj.stamp + PutLag

LeaseInv ==
    LeaseTypeOK /\ TriesInv /\ LoopInv /\ PastInv /\ DecidedInv /\ PendingInv /\ ClaimInv

-----------------------------------------------------------------------------

(* The store operations keep the types of what they change.                *)
LEMMA ChangedType ==
  ASSUME NEW x, Changed(x)
  PROVE  stale' \in [Threads -> BOOLEAN]
  BY DEF Changed, Decided

(* The first half of a write keeps the types of what it changes.         *)
LEMMA SendType ==
  ASSUME LeaseTypeOK, NEW s \in Sessions, NEW x \in Threads, NEW answer, Send(s, x, answer)
  PROVE  /\ lobj' \in Record \cup {NoLease}
         /\ stale' \in [Threads -> BOOLEAN]
         /\ forced' \in BOOLEAN
         /\ landedAt' \in [Threads -> Nat]
         /\ disturbed' \in [Sessions -> BOOLEAN]
<1>1. CASE answer = "ok"
  <2>1. stale' \in [Threads -> BOOLEAN]
    BY <1>1, ChangedType DEF Send, Land
  <2>2. forced' \in BOOLEAN
    BY <1>1 DEF Send, Land, Unseen, isLive, Others, Mine, LeaseTypeOK
  <2>3. lobj' \in Record \cup {NoLease} /\ landedAt' \in [Threads -> Nat]
    BY <1>1 DEF Send, Land, Record, LeaseTypeOK
  <2>4. disturbed' \in [Sessions -> BOOLEAN]
    BY <1>1 DEF Send, LeaseTypeOK
  <2> QED
    BY <2>1, <2>2, <2>3, <2>4
<1>2. CASE answer # "ok"
  BY <1>2 DEF Send, objVars, LeaseTypeOK
<1> QED
  BY <1>1, <1>2

(* So does its second half.                                              *)
LEMMA AcknowledgeType ==
  ASSUME LeaseTypeOK, NEW s \in Sessions, NEW answer, Acknowledge(s, answer)
  PROVE  /\ renewed' \in [Sessions -> Nat]
         /\ slept' \in [Sessions -> Nat]
         /\ setBack' \in [Sessions -> Nat]
  BY DEF Acknowledge, LeaseTypeOK

(* Every step keeps the type invariant.                                  *)
LEMMA TypeStep == LeaseTypeOK /\ TriesInv /\ LeaseNext => LeaseTypeOK'
<1> SUFFICES ASSUME LeaseTypeOK, TriesInv, LeaseNext PROVE LeaseTypeOK'
  OBVIOUS
<1> USE LeaseConstants DEF LeaseTypeOK, TriesInv, Threads, CallPoints, LoopPoints, Record,
      objVars, clockVars, flagVars, histVars, Goto, Look, Answered, markLost, markInterrupted, FencePassed, FenceRefused
<1>1. ASSUME NEW s \in Sessions, checkVolumeLease(s) PROVE LeaseTypeOK'
  BY <1>1 DEF checkVolumeLease
<1>2. ASSUME NEW s \in Sessions, AcquireRead(s) PROVE LeaseTypeOK'
  BY <1>2 DEF AcquireRead
<1>3. ASSUME NEW s \in Sessions, AcquireWrite(s) PROVE LeaseTypeOK'
  BY <1>3, SendType DEF AcquireWrite
<1>4. ASSUME NEW s \in Sessions, AcquireAck(s) PROVE LeaseTypeOK'
  BY <1>4, AcknowledgeType DEF AcquireAck
<1>5. ASSUME NEW s \in Sessions, AcquireVerify(s) PROVE LeaseTypeOK'
  <2>1. PICK answer \in Answers :
           IF answer = "ok" /\ Mine(s)
           THEN /\ Goto(s, "held")
                /\ loop' = [loop EXCEPT ![s] = "idle"]
                /\ usurped' = [t \in Sessions |-> usurped[t] \/ t \in Displaced(s)]
                /\ disturbed' = [disturbed EXCEPT ![s] = FALSE]
           ELSE /\ Goto(s, IF answer = "ok" /\ Others(s) /\ tries[s] > 0
                           THEN "acqWrite" ELSE "gone")
                /\ UNCHANGED <<loop, histVars>>
    BY <1>5 DEF AcquireVerify
  <2>2. usurped' \in [Sessions -> BOOLEAN] /\ disturbed' \in [Sessions -> BOOLEAN]
    <3>1. CASE answer = "ok" /\ Mine(s)
      <4>1. usurped' = [t \in Sessions |-> usurped[t] \/ t \in Displaced(s)]
        BY <2>1, <3>1
      <4>2. ASSUME NEW t \in Sessions
            PROVE  (usurped[t] \/ (t # s /\ HasLease(t))) \in BOOLEAN
        BY DEF HasLease
      <4> QED
        BY <2>1, <3>1, <4>1, <4>2
    <3>2. CASE ~(answer = "ok" /\ Mine(s))
      BY <2>1, <3>2
    <3> QED
      BY <3>1, <3>2
  <2>3. call' \in [Sessions -> CallPoints] /\ loop' \in [Sessions -> LoopPoints]
    BY <2>1
  <2>4. Look(<<s, "call">>) /\ UNCHANGED <<clockVars, tries, flagVars, renewed, landedAt>>
    BY <1>5 DEF AcquireVerify
  <2> QED
    BY <2>2, <2>3, <2>4
<1>6. ASSUME NEW s \in Sessions, RenewRead(s) PROVE LeaseTypeOK'
  BY <1>6 DEF RenewRead
<1>7. ASSUME NEW s \in Sessions, RenewWrite(s) PROVE LeaseTypeOK'
  BY <1>7, SendType DEF RenewWrite
<1>8. ASSUME NEW s \in Sessions, RenewAck(s) PROVE LeaseTypeOK'
  BY <1>8, AcknowledgeType DEF RenewAck
<1>9. ASSUME NEW s \in Sessions, Fence(s) PROVE LeaseTypeOK'
  BY <1>9 DEF Fence
<1>10. ASSUME NEW s \in Sessions, RevalidateRead(s) PROVE LeaseTypeOK'
  BY <1>10 DEF RevalidateRead
<1>11. ASSUME NEW s \in Sessions, RevalidateWrite(s) PROVE LeaseTypeOK'
  BY <1>11, SendType DEF RevalidateWrite
<1>12. ASSUME NEW s \in Sessions, RevalidateAck(s) PROVE LeaseTypeOK'
  BY <1>12, AcknowledgeType DEF RevalidateAck
<1>13. ASSUME NEW s \in Sessions, VanishedWrite(s) PROVE LeaseTypeOK'
  BY <1>13, SendType DEF VanishedWrite
<1>14. ASSUME NEW s \in Sessions, VanishedAck(s) PROVE LeaseTypeOK'
  BY <1>14, AcknowledgeType DEF VanishedAck
<1>15. ASSUME NEW s \in Sessions, VanishedVerify(s) PROVE LeaseTypeOK'
  BY <1>15 DEF VanishedVerify
<1>16. ASSUME NEW s \in Sessions, SealReturns(s) PROVE LeaseTypeOK'
  BY <1>16 DEF SealReturns
<1>17. ASSUME NEW s \in Sessions, ReleaseStop(s) PROVE LeaseTypeOK'
  BY <1>17 DEF ReleaseStop
<1>18. ASSUME NEW s \in Sessions, ReleaseRead(s) PROVE LeaseTypeOK'
  BY <1>18 DEF ReleaseRead
<1>19. ASSUME NEW s \in Sessions, ReleaseDelete(s) PROVE LeaseTypeOK'
  BY <1>19, ChangedType DEF ReleaseDelete, Unseen, Mine
<1>20. ASSUME NEW s \in Sessions, Crash(s) PROVE LeaseTypeOK'
  BY <1>20 DEF Crash
<1>21. ASSUME NEW s \in Sessions, Sleep(s) PROVE LeaseTypeOK'
  BY <1>21 DEF Sleep
<1>22. ASSUME NEW s \in Sessions, Wake(s) PROVE LeaseTypeOK'
  BY <1>22 DEF Wake
<1>23. ASSUME NEW s \in Sessions, SetClockBack(s) PROVE LeaseTypeOK'
  BY <1>23 DEF SetClockBack
<1>24. ASSUME NEW s \in Sessions, NEW answer \in GuardAnswers,
             RevalidateHead(s, answer) \/ VanishedHead(s, answer)
      PROVE LeaseTypeOK'
  BY <1>24 DEF RevalidateHead, VanishedHead, clearInterrupted
<1>25. CASE OperatorDelete
  BY <1>25, ChangedType DEF OperatorDelete, Unseen, Mine
<1>26. CASE Tick
  BY <1>26 DEF Tick
<1> QED
  BY <1>1, <1>2, <1>3, <1>4, <1>5, <1>6, <1>7, <1>8, <1>9, <1>10, <1>11, <1>12, <1>13, <1>14, <1>15, <1>16, <1>17, <1>18, <1>19, <1>20, <1>21, <1>22, <1>23, <1>24, <1>25, <1>26 DEF LeaseNext, Acquire, renewOnce, Revalidate, Release

(* Every step keeps the budget of an acquisition: a retry has one to spend.*)
LEMMA TriesStep == LeaseInv /\ LeaseTypeOK' /\ LeaseNext => TriesInv'
<1> SUFFICES ASSUME LeaseInv, LeaseTypeOK', LeaseNext PROVE TriesInv'
  OBVIOUS
<1> USE LeaseConstants DEF LeaseInv, LeaseTypeOK, Threads, Record, objVars, clockVars,
      flagVars, histVars, Goto, Look, FencePassed, FenceRefused, TriesInv
<1>1. ASSUME NEW s \in Sessions, checkVolumeLease(s) PROVE TriesInv'
  BY <1>1 DEF checkVolumeLease
<1>2. ASSUME NEW s \in Sessions, AcquireRead(s) PROVE TriesInv'
  BY <1>2 DEF AcquireRead
<1>3. ASSUME NEW s \in Sessions, AcquireWrite(s) PROVE TriesInv'
  BY <1>3 DEF AcquireWrite
<1>4. ASSUME NEW s \in Sessions, AcquireAck(s) PROVE TriesInv'
  BY <1>4 DEF AcquireAck
<1>5. ASSUME NEW s \in Sessions, AcquireVerify(s) PROVE TriesInv'
  BY <1>5 DEF AcquireVerify
<1>6. ASSUME NEW s \in Sessions, RenewRead(s) PROVE TriesInv'
  BY <1>6 DEF RenewRead
<1>7. ASSUME NEW s \in Sessions, RenewWrite(s) PROVE TriesInv'
  BY <1>7 DEF RenewWrite
<1>8. ASSUME NEW s \in Sessions, RenewAck(s) PROVE TriesInv'
  BY <1>8 DEF RenewAck
<1>9. ASSUME NEW s \in Sessions, Fence(s) PROVE TriesInv'
  BY <1>9 DEF Fence
<1>10. ASSUME NEW s \in Sessions, RevalidateRead(s) PROVE TriesInv'
  BY <1>10 DEF RevalidateRead
<1>11. ASSUME NEW s \in Sessions, RevalidateWrite(s) PROVE TriesInv'
  BY <1>11 DEF RevalidateWrite
<1>12. ASSUME NEW s \in Sessions, RevalidateAck(s) PROVE TriesInv'
  BY <1>12 DEF RevalidateAck
<1>13. ASSUME NEW s \in Sessions, VanishedWrite(s) PROVE TriesInv'
  BY <1>13 DEF VanishedWrite
<1>14. ASSUME NEW s \in Sessions, VanishedAck(s) PROVE TriesInv'
  BY <1>14 DEF VanishedAck
<1>15. ASSUME NEW s \in Sessions, VanishedVerify(s) PROVE TriesInv'
  BY <1>15 DEF VanishedVerify
<1>16. ASSUME NEW s \in Sessions, SealReturns(s) PROVE TriesInv'
  BY <1>16 DEF SealReturns
<1>17. ASSUME NEW s \in Sessions, ReleaseStop(s) PROVE TriesInv'
  BY <1>17 DEF ReleaseStop
<1>18. ASSUME NEW s \in Sessions, ReleaseRead(s) PROVE TriesInv'
  BY <1>18 DEF ReleaseRead
<1>19. ASSUME NEW s \in Sessions, ReleaseDelete(s) PROVE TriesInv'
  BY <1>19 DEF ReleaseDelete
<1>20. ASSUME NEW s \in Sessions, Crash(s) PROVE TriesInv'
  BY <1>20 DEF Crash
<1>21. ASSUME NEW s \in Sessions, Sleep(s) PROVE TriesInv'
  BY <1>21 DEF Sleep
<1>22. ASSUME NEW s \in Sessions, Wake(s) PROVE TriesInv'
  BY <1>22 DEF Wake
<1>23. ASSUME NEW s \in Sessions, SetClockBack(s) PROVE TriesInv'
  BY <1>23 DEF SetClockBack
<1>24. ASSUME NEW s \in Sessions, NEW answer \in GuardAnswers,
             RevalidateHead(s, answer) \/ VanishedHead(s, answer)
      PROVE TriesInv'
  BY <1>24 DEF RevalidateHead, VanishedHead, clearInterrupted
<1>25. CASE OperatorDelete
  BY <1>25 DEF OperatorDelete
<1>26. CASE Tick
  BY <1>26 DEF Tick
<1> QED
  BY <1>1, <1>2, <1>3, <1>4, <1>5, <1>6, <1>7, <1>8, <1>9, <1>10, <1>11, <1>12, <1>13, <1>14, <1>15, <1>16, <1>17, <1>18, <1>19, <1>20, <1>21, <1>22, <1>23, <1>24, <1>25, <1>26 DEF LeaseNext, Acquire, renewOnce, Revalidate, Release

(* Every step keeps the renewal loop to sessions that hold a lease.      *)
LEMMA LoopStep == LeaseInv /\ LeaseTypeOK' /\ LeaseNext => LoopInv'
<1> SUFFICES ASSUME LeaseInv, LeaseTypeOK', LeaseNext PROVE LoopInv'
  OBVIOUS
<1> USE LeaseConstants DEF LeaseInv, LeaseTypeOK, Threads, Record, objVars, clockVars,
      flagVars, histVars, Goto, Look, FencePassed, FenceRefused, LoopInv, HasLease
<1>1. ASSUME NEW s \in Sessions, checkVolumeLease(s) PROVE LoopInv'
  BY <1>1 DEF checkVolumeLease
<1>2. ASSUME NEW s \in Sessions, AcquireRead(s) PROVE LoopInv'
  BY <1>2 DEF AcquireRead
<1>3. ASSUME NEW s \in Sessions, AcquireWrite(s) PROVE LoopInv'
  BY <1>3 DEF AcquireWrite
<1>4. ASSUME NEW s \in Sessions, AcquireAck(s) PROVE LoopInv'
  BY <1>4 DEF AcquireAck
<1>5. ASSUME NEW s \in Sessions, AcquireVerify(s) PROVE LoopInv'
  BY <1>5 DEF AcquireVerify
<1>6. ASSUME NEW s \in Sessions, RenewRead(s) PROVE LoopInv'
  BY <1>6 DEF RenewRead
<1>7. ASSUME NEW s \in Sessions, RenewWrite(s) PROVE LoopInv'
  BY <1>7 DEF RenewWrite
<1>8. ASSUME NEW s \in Sessions, RenewAck(s) PROVE LoopInv'
  BY <1>8 DEF RenewAck
<1>9. ASSUME NEW s \in Sessions, Fence(s) PROVE LoopInv'
  BY <1>9 DEF Fence
<1>10. ASSUME NEW s \in Sessions, RevalidateRead(s) PROVE LoopInv'
  BY <1>10 DEF RevalidateRead
<1>11. ASSUME NEW s \in Sessions, RevalidateWrite(s) PROVE LoopInv'
  BY <1>11 DEF RevalidateWrite
<1>12. ASSUME NEW s \in Sessions, RevalidateAck(s) PROVE LoopInv'
  BY <1>12 DEF RevalidateAck
<1>13. ASSUME NEW s \in Sessions, VanishedWrite(s) PROVE LoopInv'
  BY <1>13 DEF VanishedWrite
<1>14. ASSUME NEW s \in Sessions, VanishedAck(s) PROVE LoopInv'
  BY <1>14 DEF VanishedAck
<1>15. ASSUME NEW s \in Sessions, VanishedVerify(s) PROVE LoopInv'
  BY <1>15 DEF VanishedVerify
<1>16. ASSUME NEW s \in Sessions, SealReturns(s) PROVE LoopInv'
  BY <1>16 DEF SealReturns
<1>17. ASSUME NEW s \in Sessions, ReleaseStop(s) PROVE LoopInv'
  BY <1>17 DEF ReleaseStop
<1>18. ASSUME NEW s \in Sessions, ReleaseRead(s) PROVE LoopInv'
  BY <1>18 DEF ReleaseRead
<1>19. ASSUME NEW s \in Sessions, ReleaseDelete(s) PROVE LoopInv'
  BY <1>19 DEF ReleaseDelete
<1>20. ASSUME NEW s \in Sessions, Crash(s) PROVE LoopInv'
  BY <1>20 DEF Crash
<1>21. ASSUME NEW s \in Sessions, Sleep(s) PROVE LoopInv'
  BY <1>21 DEF Sleep
<1>22. ASSUME NEW s \in Sessions, Wake(s) PROVE LoopInv'
  BY <1>22 DEF Wake
<1>23. ASSUME NEW s \in Sessions, SetClockBack(s) PROVE LoopInv'
  BY <1>23 DEF SetClockBack
<1>24. ASSUME NEW s \in Sessions, NEW answer \in GuardAnswers,
             RevalidateHead(s, answer) \/ VanishedHead(s, answer)
      PROVE LoopInv'
  BY <1>24 DEF RevalidateHead, VanishedHead, clearInterrupted
<1>25. CASE OperatorDelete
  BY <1>25 DEF OperatorDelete
<1>26. CASE Tick
  BY <1>26 DEF Tick
<1> QED
  BY <1>1, <1>2, <1>3, <1>4, <1>5, <1>6, <1>7, <1>8, <1>9, <1>10, <1>11, <1>12, <1>13, <1>14, <1>15, <1>16, <1>17, <1>18, <1>19, <1>20, <1>21, <1>22, <1>23, <1>24, <1>25, <1>26 DEF LeaseNext, Acquire, renewOnce, Revalidate, Release

(* A Put that lands is stamped with the present.                           *)
LEMMA SendPast ==
  ASSUME LeaseTypeOK, PastInv, NEW s \in Sessions, NEW x \in Threads, NEW answer,
         Send(s, x, answer)
  PROVE  \A y \in Threads : landedAt'[y] <= now
  BY DEF Send, LeaseTypeOK, PastInv

(* Every step keeps what is remembered of the clocks in the past.        *)
LEMMA PastStep == LeaseInv /\ LeaseTypeOK' /\ LeaseNext => PastInv'
<1> SUFFICES ASSUME LeaseInv, LeaseTypeOK', LeaseNext PROVE PastInv'
  OBVIOUS
<1> USE LeaseConstants DEF LeaseInv, LeaseTypeOK, Threads, Record, objVars, clockVars,
      flagVars, histVars, Goto, Look, FencePassed, FenceRefused, PastInv, Acknowledge, Answered
<1>1. ASSUME NEW s \in Sessions, checkVolumeLease(s) PROVE PastInv'
  BY <1>1 DEF checkVolumeLease
<1>2. ASSUME NEW s \in Sessions, AcquireRead(s) PROVE PastInv'
  BY <1>2 DEF AcquireRead
<1>3. ASSUME NEW s \in Sessions, AcquireWrite(s) PROVE PastInv'
  BY <1>3, SendPast DEF AcquireWrite
<1>4. ASSUME NEW s \in Sessions, AcquireAck(s) PROVE PastInv'
  BY <1>4 DEF AcquireAck
<1>5. ASSUME NEW s \in Sessions, AcquireVerify(s) PROVE PastInv'
  BY <1>5 DEF AcquireVerify
<1>6. ASSUME NEW s \in Sessions, RenewRead(s) PROVE PastInv'
  BY <1>6 DEF RenewRead
<1>7. ASSUME NEW s \in Sessions, RenewWrite(s) PROVE PastInv'
  BY <1>7, SendPast DEF RenewWrite
<1>8. ASSUME NEW s \in Sessions, RenewAck(s) PROVE PastInv'
  BY <1>8 DEF RenewAck
<1>9. ASSUME NEW s \in Sessions, Fence(s) PROVE PastInv'
  BY <1>9 DEF Fence
<1>10. ASSUME NEW s \in Sessions, RevalidateRead(s) PROVE PastInv'
  BY <1>10 DEF RevalidateRead
<1>11. ASSUME NEW s \in Sessions, RevalidateWrite(s) PROVE PastInv'
  BY <1>11, SendPast DEF RevalidateWrite
<1>12. ASSUME NEW s \in Sessions, RevalidateAck(s) PROVE PastInv'
  BY <1>12 DEF RevalidateAck
<1>13. ASSUME NEW s \in Sessions, VanishedWrite(s) PROVE PastInv'
  BY <1>13, SendPast DEF VanishedWrite
<1>14. ASSUME NEW s \in Sessions, VanishedAck(s) PROVE PastInv'
  BY <1>14 DEF VanishedAck
<1>15. ASSUME NEW s \in Sessions, VanishedVerify(s) PROVE PastInv'
  BY <1>15 DEF VanishedVerify
<1>16. ASSUME NEW s \in Sessions, SealReturns(s) PROVE PastInv'
  BY <1>16 DEF SealReturns
<1>17. ASSUME NEW s \in Sessions, ReleaseStop(s) PROVE PastInv'
  BY <1>17 DEF ReleaseStop
<1>18. ASSUME NEW s \in Sessions, ReleaseRead(s) PROVE PastInv'
  BY <1>18 DEF ReleaseRead
<1>19. ASSUME NEW s \in Sessions, ReleaseDelete(s) PROVE PastInv'
  BY <1>19 DEF ReleaseDelete
<1>20. ASSUME NEW s \in Sessions, Crash(s) PROVE PastInv'
  BY <1>20 DEF Crash
<1>21. ASSUME NEW s \in Sessions, Sleep(s) PROVE PastInv'
  BY <1>21 DEF Sleep
<1>22. ASSUME NEW s \in Sessions, Wake(s) PROVE PastInv'
  BY <1>22 DEF Wake
<1>23. ASSUME NEW s \in Sessions, SetClockBack(s) PROVE PastInv'
  BY <1>23 DEF SetClockBack
<1>24. ASSUME NEW s \in Sessions, NEW answer \in GuardAnswers,
             RevalidateHead(s, answer) \/ VanishedHead(s, answer)
      PROVE PastInv'
  BY <1>24 DEF RevalidateHead, VanishedHead, clearInterrupted
<1>25. CASE OperatorDelete
  BY <1>25 DEF OperatorDelete
<1>26. CASE Tick
  BY <1>26 DEF Tick
<1> QED
  BY <1>1, <1>2, <1>3, <1>4, <1>5, <1>6, <1>7, <1>8, <1>9, <1>10, <1>11, <1>12, <1>13, <1>14, <1>15, <1>16, <1>17, <1>18, <1>19, <1>20, <1>21, <1>22, <1>23, <1>24, <1>25, <1>26 DEF LeaseNext, Acquire, renewOnce, Revalidate, Release

(* What a landing may rest on: unless it is forced, the record it replaces *)
(* is the session's own or is not live.                                    *)
LEMMA LandUnforced ==
  ASSUME LeaseInv, NEW s \in Sessions, NEW k \in {"call", "loop"}, Decided(s, k),
         call[s] \notin {"fenHead", "vanHead", "relDelete"} \/ k = "loop",
         Land(s, <<s, k>>), ~forced'
  PROVE  ~forced /\ (Mine(s) \/ ~isLive(lobj))
<1> USE DEF LeaseInv, LeaseTypeOK, Threads
<1>1. ~forced /\ ~Unseen(s, <<s, k>>) /\ ~(s \in Stealers /\ isLive(lobj) /\ Others(s))
  BY DEF Land
<1>2. CASE stale[<<s, k>>]
  BY <1>1, <1>2 DEF Unseen
<1>3. CASE ~stale[<<s, k>>]
  <2>1. CASE k = "loop"
    BY <1>1, <1>3, <2>1 DEF DecidedInv, Knows, Decided, isLive
  <2>2. CASE k = "call" /\ call[s] = "acqWrite"
    BY <1>1, <1>3, <2>2 DEF DecidedInv, Knows, Decided, Others, isLive
  <2>3. CASE k = "call" /\ call[s] # "acqWrite"
    BY <1>1, <1>3, <2>3 DEF DecidedInv, Knows, Decided, isLive
  <2> QED
    BY <2>1, <2>2, <2>3
<1> QED
  BY <1>2, <1>3

(* A claim, and a Put waiting for its answer, rest on a live record.       *)
LEMMA ClaimLive ==
  ASSUME LeaseInv, ~forced, NEW s \in Sessions,
         \/ Claims(s) /\ now + PutLag < renewed[s] + TTL
         \/ \E k \in {"call", "loop"} : Unanswered(s, k)
  PROVE  Mine(s) /\ isLive(lobj)
<1> USE LeaseConstants DEF LeaseInv, LeaseTypeOK, Threads, Record
<1>1. CASE Claims(s) /\ now + PutLag < renewed[s] + TTL
  BY <1>1 DEF ClaimInv, Mine, isLive
<1>2. ASSUME NEW k \in {"call", "loop"}, Unanswered(s, k)
      PROVE  Mine(s) /\ isLive(lobj)
  <2>1. Mine(s) /\ landedAt[<<s, k>>] <= lobj.stamp /\ now <= landedAt[<<s, k>>] + PutLag
    BY <1>2 DEF PendingInv
  <2>2. landedAt[<<s, k>>] \in Nat /\ lobj.stamp \in Nat
    BY <2>1 DEF Mine
  <2> QED
    BY <2>1, <2>2 DEF Mine, isLive
<1> QED
  BY <1>1, <1>2

(* A landing keeps the three invariants about the object, whatever the     *)
(* other threads do not do in the same step.                               *)
LEMMA LandInv ==
  ASSUME LeaseInv, LeaseTypeOK', now' = now, renewed' = renewed,
         NEW s \in Sessions, NEW k \in {"call", "loop"}, Decided(s, k),
         call[s] \notin {"fenHead", "vanHead", "relDelete"} \/ k = "loop",
         Send(s, <<s, k>>, "ok"),
         \A t \in Sessions, j \in {"call", "loop"} :
            /\ Unanswered(t, j)' => Unanswered(t, j) \/ (t = s /\ j = k)
            /\ Decided(t, j)' => Decided(t, j) /\ (t # s \/ j # k),
         \A t \in Sessions : Claims(t)' => Claims(t)
  PROVE  DecidedInv' /\ PendingInv' /\ ClaimInv'
<1> USE LeaseConstants DEF LeaseInv, LeaseTypeOK, Threads, Record
<1>1. /\ Land(s, <<s, k>>)
      /\ lobj' = [session |-> s, stamp |-> now]
      /\ landedAt' = [landedAt EXCEPT ![<<s, k>>] = now]
      /\ ~forced' => ~forced /\ (Mine(s) \/ ~isLive(lobj))
  BY LandUnforced DEF Send, Land
<1>2. DecidedInv'
  <2>1. ASSUME NEW t \in Sessions, NEW j \in {"call", "loop"}, Decided(t, j)'
        PROVE  stale'[<<t, j>>]
    BY <1>1, <2>1 DEF Land, Changed
  <2> QED
    BY <2>1 DEF DecidedInv, Knows, Decided
<1>3. ASSUME ~forced', NEW t \in Sessions, t # s
      PROVE  /\ \A j \in {"call", "loop"} : ~Unanswered(t, j)
             /\ ~(Claims(t) /\ now + PutLag < renewed[t] + TTL)
  BY <1>1, <1>3, ClaimLive DEF Mine
<1>4. PendingInv'
  <2> SUFFICES ASSUME ~forced', NEW t \in Sessions, NEW j \in {"call", "loop"}, Unanswered(t, j)'
               PROVE  /\ Mine(t)'
                      /\ landedAt'[<<t, j>>] <= lobj'.stamp
                      /\ now <= landedAt'[<<t, j>>] + PutLag
    BY DEF PendingInv
  <2>1. t = s
    BY <1>3
  <2>2. Mine(t)' /\ lobj'.stamp = now
    BY <1>1, <2>1 DEF Mine
  <2>3. landedAt'[<<t, j>>] \in Nat /\ landedAt'[<<t, j>>] <= now
    BY <1>1 DEF PastInv
  <2>4. CASE j = k
    BY <1>1, <2>1, <2>2, <2>4
  <2>5. CASE j # k
    <3>1. Unanswered(t, j) /\ landedAt'[<<t, j>>] = landedAt[<<t, j>>]
      BY <1>1, <2>5
    <3> QED
      BY <1>1, <2>2, <2>3, <3>1 DEF PendingInv
  <2> QED
    BY <2>4, <2>5
<1>5. ClaimInv'
  <2> SUFFICES ASSUME ~forced', NEW t \in Sessions, Claims(t)',
                      now + PutLag < renewed[t] + TTL
               PROVE  Mine(t)' /\ renewed[t] <= lobj'.stamp + PutLag
    BY DEF ClaimInv
  <2>1. t = s
    BY <1>3
  <2>2. Mine(t)' /\ lobj'.stamp = now
    BY <1>1, <2>1 DEF Mine
  <2>3. renewed[t] <= now
    BY DEF PastInv
  <2> QED
    BY <2>2, <2>3
<1> QED
  BY <1>2, <1>4, <1>5

(* A step of thread k of s that leaves the object and the clock alone need *)
(* only account for what this thread knows.                                *)
LEMMA KnowsInv ==
  ASSUME LeaseInv, UNCHANGED <<lobj, now>>,
         NEW s \in Sessions, NEW k \in {"call", "loop"},
         stale' = stale \/ stale' = [stale EXCEPT ![<<s, k>>] = FALSE],
         \A t \in Sessions, j \in {"call", "loop"} :
            (t # s \/ j # k) /\ Decided(t, j)' => Decided(t, j),
         \A t \in Sessions \ {s} : call'[t] = call[t],
         k = "loop" => call'[s] = call[s],
         Knows(s, k)'
  PROVE  DecidedInv'
<1> SUFFICES ASSUME NEW t \in Sessions, NEW j \in {"call", "loop"}, t # s \/ j # k
             PROVE  Knows(t, j)'
  BY DEF DecidedInv
<1>1. Knows(t, j)
  BY DEF LeaseInv, DecidedInv
<1>2. stale'[<<t, j>>] = stale[<<t, j>>]
  BY DEF LeaseInv, LeaseTypeOK, Threads
<1>3. j = "call" => call'[t] = call[t]
  OBVIOUS
<1> QED
  BY <1>1, <1>2, <1>3 DEF Knows, Mine, isLive

(* A step that changes neither the object nor the stamps, starts no claim  *)
(* and sends no Put, keeps the pending Puts and the claims.                *)
LEMMA QuietInv ==
  ASSUME LeaseInv, UNCHANGED <<lobj, forced, now, renewed, landedAt>>,
         \A t \in Sessions : Claims(t)' => Claims(t),
         \A t \in Sessions, j \in {"call", "loop"} : Unanswered(t, j)' => Unanswered(t, j)
  PROVE  PendingInv' /\ ClaimInv'
  BY DEF LeaseInv, PendingInv, ClaimInv, Mine

(* An answer keeps them too: the record that landed is still there, and    *)
(* not older than PutLag.                                                  *)
LEMMA AnswerInv ==
  ASSUME LeaseInv, LeaseTypeOK', UNCHANGED <<lobj, forced, now>>,
         NEW s \in Sessions, NEW k \in {"call", "loop"}, Unanswered(s, k),
         NEW answer, Acknowledge(s, answer), Answered(<<s, k>>),
         ~Unanswered(s, k)',
         \A t \in Sessions : Claims(t)' => Claims(t) \/ (t = s /\ answer = "ok"),
         \A t \in Sessions, j \in {"call", "loop"} : Unanswered(t, j)' => Unanswered(t, j)
  PROVE  PendingInv' /\ ClaimInv'
<1> USE LeaseConstants DEF LeaseInv, LeaseTypeOK, Threads, Record
<1>1. PendingInv'
  <2> SUFFICES ASSUME ~forced, NEW t \in Sessions, NEW j \in {"call", "loop"}, Unanswered(t, j)'
               PROVE  /\ Mine(t)'
                      /\ landedAt'[<<t, j>>] <= lobj'.stamp
                      /\ now <= landedAt'[<<t, j>>] + PutLag
    BY DEF PendingInv
  <2>1. Unanswered(t, j) /\ <<t, j>> # <<s, k>>
    OBVIOUS
  <2>2. landedAt'[<<t, j>>] = landedAt[<<t, j>>]
    BY <2>1 DEF Answered
  <2>3. Mine(t) /\ landedAt[<<t, j>>] <= lobj.stamp /\ now <= landedAt[<<t, j>>] + PutLag
    BY <2>1 DEF PendingInv
  <2> QED
    BY <2>2, <2>3 DEF Mine
<1>2. ClaimInv'
  <2> SUFFICES ASSUME ~forced, NEW t \in Sessions, Claims(t)',
                      now + PutLag < renewed'[t] + TTL
               PROVE  Mine(t)' /\ renewed'[t] <= lobj'.stamp + PutLag
    BY DEF ClaimInv
  <2>1. CASE t = s /\ answer = "ok"
    <3>1. Mine(s) /\ landedAt[<<s, k>>] <= lobj.stamp /\ now <= landedAt[<<s, k>>] + PutLag
      BY DEF PendingInv
    <3>2. renewed'[s] = now /\ lobj.stamp \in Nat /\ landedAt[<<s, k>>] \in Nat
      BY <2>1, <3>1 DEF Acknowledge, Mine
    <3> QED
      BY <2>1, <3>1, <3>2 DEF Mine
  <2>2. CASE ~(t = s /\ answer = "ok")
    <3>1. Claims(t) /\ renewed'[t] = renewed[t]
      BY <2>2 DEF Acknowledge
    <3> QED
      BY <3>1 DEF ClaimInv, Mine
  <2> QED
    BY <2>1, <2>2
<1> QED
  BY <1>1, <1>2

(* The three invariants about the object are kept by every step.           *)
LEMMA ObjectStep ==
  LeaseInv /\ LeaseTypeOK' /\ LeaseNext => DecidedInv' /\ PendingInv' /\ ClaimInv'
<1> DEFINE ObjectInv == DecidedInv /\ PendingInv /\ ClaimInv
<1> SUFFICES ASSUME LeaseInv, LeaseTypeOK', LeaseNext PROVE ObjectInv'
  OBVIOUS
<1> USE DEF LeaseTypeOK, Threads, objVars, clockVars, flagVars, histVars, Goto,
      FencePassed, FenceRefused
<1>1. ASSUME NEW s \in Sessions, checkVolumeLease(s) PROVE ObjectInv'
  <2>1. DecidedInv'
    <3>1. Knows(s, "call")'
      BY <1>1 DEF LeaseInv, DecidedInv, Knows, Decided, Look, checkVolumeLease, Mine, Others, isLive
    <3> QED
      BY <1>1, <3>1, KnowsInv DEF Look, checkVolumeLease, Decided
  <2>2. PendingInv' /\ ClaimInv'
    BY <1>1, QuietInv DEF Look, checkVolumeLease, Claims, HasLease, Unanswered
  <2> QED
    BY <2>1, <2>2
<1>2. ASSUME NEW s \in Sessions, AcquireRead(s) PROVE ObjectInv'
  <2>1. DecidedInv'
    <3>1. Knows(s, "call")'
      BY <1>2 DEF LeaseInv, DecidedInv, Knows, Decided, Look, AcquireRead, Mine, Others, isLive
    <3> QED
      BY <1>2, <3>1, KnowsInv DEF Look, AcquireRead, Decided
  <2>2. PendingInv' /\ ClaimInv'
    BY <1>2, QuietInv DEF Look, AcquireRead, Claims, HasLease, Unanswered
  <2> QED
    BY <2>1, <2>2
<1>3. ASSUME NEW s \in Sessions, AcquireWrite(s) PROVE ObjectInv'
  <2>1. CASE Send(s, <<s, "call">>, "ok") /\ call'[s] = "acqAck"
    BY <1>3, <2>1, LandInv DEF AcquireWrite, Claims, HasLease, Unanswered, Decided
  <2>2. CASE UNCHANGED <<objVars, landedAt>> /\ call'[s] = "gone"
    <3>1. DecidedInv'
      <4>1. Knows(s, "call")'
        BY <1>3, <2>2 DEF Knows, Decided, AcquireWrite
      <4> QED
        BY <1>3, <2>2, <4>1, KnowsInv DEF Decided, AcquireWrite
    <3> QED
      BY <1>3, <2>2, <3>1, QuietInv DEF AcquireWrite, Claims, HasLease, Unanswered
  <2> QED
    BY <1>3, <2>1, <2>2 DEF AcquireWrite, Send, Answers
<1>4. ASSUME NEW s \in Sessions, AcquireAck(s) PROVE ObjectInv'
  <2>1. DecidedInv'
    <3>1. Knows(s, "call")'
      BY <1>4 DEF LeaseInv, DecidedInv, Knows, Decided, Look, AcquireAck, Mine, Others, isLive
    <3> QED
      BY <1>4, <3>1, KnowsInv DEF Look, AcquireAck, Decided
  <2>2. PICK answer \in Answers :
           /\ Acknowledge(s, answer)
           /\ call' = [call EXCEPT ![s] = IF answer = "ok" THEN "acqVerify" ELSE "gone"]
    BY <1>4 DEF AcquireAck
  <2>3. /\ UNCHANGED <<lobj, forced, now, loop>>
        /\ Answered(<<s, "call">>) /\ Unanswered(s, "call")
    BY <1>4 DEF AcquireAck, Unanswered
  <2>4. ~Unanswered(s, "call")'
    BY <2>2 DEF Unanswered
  <2>5. \A t \in Sessions : Claims(t)' => Claims(t) \/ (t = s /\ answer = "ok")
    BY <1>4, <2>2 DEF AcquireAck, Claims, HasLease
  <2>6. \A t \in Sessions, j \in {"call", "loop"} : Unanswered(t, j)' => Unanswered(t, j)
    BY <2>2, <2>3 DEF Unanswered
  <2>7. PendingInv' /\ ClaimInv'
    BY <2>2, <2>3, <2>4, <2>5, <2>6, AnswerInv
  <2> QED
    BY <2>1, <2>7
<1>5. ASSUME NEW s \in Sessions, AcquireVerify(s) PROVE ObjectInv'
  <2>1. DecidedInv'
    <3>1. Knows(s, "call")'
      BY <1>5 DEF LeaseInv, DecidedInv, Knows, Decided, Look, AcquireVerify, Mine, Others, isLive, TriesInv
    <3>2. DecidedInv'
      <4>1. \/ call' = [call EXCEPT ![s] = "held"] /\ loop' = [loop EXCEPT ![s] = "idle"]
            \/ call' = [call EXCEPT ![s] = "gone"] /\ loop' = loop
            \/ call' = [call EXCEPT ![s] = "acqWrite"] /\ loop' = loop
        BY <1>5 DEF AcquireVerify
      <4>2. /\ UNCHANGED <<lobj, now>>
            /\ stale' = [stale EXCEPT ![<<s, "call">>] = FALSE]
        BY <1>5 DEF AcquireVerify, Look
      <4>3. \A t \in Sessions, j \in {"call", "loop"} :
               (t # s \/ j # "call") /\ Decided(t, j)' => Decided(t, j)
        BY <4>1 DEF Decided
      <4>4. \A t \in Sessions \ {s} : call'[t] = call[t]
        BY <4>1
      <4> QED
        BY <3>1, <4>2, <4>3, <4>4, KnowsInv
    <3> QED
      BY <3>2
  <2>2. PendingInv' /\ ClaimInv'
    BY <1>5, QuietInv DEF Look, AcquireVerify, Claims, HasLease, Unanswered
  <2> QED
    BY <2>1, <2>2
<1>6. ASSUME NEW s \in Sessions, RenewRead(s) PROVE ObjectInv'
  <2>1. DecidedInv'
    <3>1. Knows(s, "loop")'
      BY <1>6 DEF LeaseInv, DecidedInv, Knows, Decided, Look, RenewRead, Mine, Others, isLive
    <3>2. /\ UNCHANGED <<lobj, now, call>>
          /\ stale' = [stale EXCEPT ![<<s, "loop">>] = FALSE]
          /\ \A t \in Sessions \ {s} : loop'[t] = loop[t]
      BY <1>6 DEF RenewRead, Look
    <3> QED
      BY <3>1, <3>2, KnowsInv DEF Decided
  <2>2. PendingInv' /\ ClaimInv'
    BY <1>6, QuietInv DEF Look, RenewRead, Claims, HasLease, Unanswered
  <2> QED
    BY <2>1, <2>2
<1>7. ASSUME NEW s \in Sessions, RenewWrite(s) PROVE ObjectInv'
  <2>1. CASE Send(s, <<s, "loop">>, "ok") /\ loop'[s] = "ack"
    BY <1>7, <2>1, LandInv DEF RenewWrite, Claims, HasLease, Unanswered, Decided
  <2>2. CASE UNCHANGED <<objVars, landedAt>> /\ loop'[s] = "idle"
    <3>1. DecidedInv'
      <4>1. Knows(s, "loop")'
        BY <1>7, <2>2 DEF Knows, Decided, RenewWrite
      <4> QED
        BY <1>7, <2>2, <4>1, KnowsInv DEF Decided, RenewWrite
    <3> QED
      BY <1>7, <2>2, <3>1, QuietInv DEF RenewWrite, Claims, HasLease, Unanswered
  <2> QED
    BY <1>7, <2>1, <2>2 DEF RenewWrite, Send, Answers
<1>8. ASSUME NEW s \in Sessions, RenewAck(s) PROVE ObjectInv'
  <2>1. DecidedInv'
    <3>1. Knows(s, "loop")'
      BY <1>8 DEF LeaseInv, DecidedInv, Knows, Decided, Look, RenewAck, Mine, Others, isLive
    <3> QED
      BY <1>8, <3>1, KnowsInv DEF Look, RenewAck, Decided
  <2>2. PICK answer \in Answers : Acknowledge(s, answer) /\ (answer # "ok" => ~Claims(s)' \/ Claims(s))
    BY <1>8 DEF RenewAck, Claims, HasLease
  <2>3. PendingInv' /\ ClaimInv'
    BY <1>8, <2>2, AnswerInv DEF RenewAck, Claims, HasLease, Unanswered
  <2> QED
    BY <2>1, <2>3
<1>9. ASSUME NEW s \in Sessions, Fence(s) PROVE ObjectInv'
  <2>1. DecidedInv'
    <3>1. Knows(s, "call")'
      BY <1>9 DEF LeaseInv, DecidedInv, Knows, Decided, Look, Fence, Mine, Others, isLive
    <3> QED
      BY <1>9, <3>1, KnowsInv DEF Look, Fence, Decided
  <2>2. PendingInv' /\ ClaimInv'
    BY <1>9, QuietInv DEF Look, Fence, Claims, HasLease, Unanswered
  <2> QED
    BY <2>1, <2>2
<1>10. ASSUME NEW s \in Sessions, RevalidateRead(s) PROVE ObjectInv'
  <2>1. DecidedInv'
    <3>1. Knows(s, "call")'
      BY <1>10 DEF LeaseInv, DecidedInv, Knows, Decided, Look, RevalidateRead, Mine, Others, isLive
    <3> QED
      BY <1>10, <3>1, KnowsInv DEF Look, RevalidateRead, Decided
  <2>2. PendingInv' /\ ClaimInv'
    BY <1>10, QuietInv DEF Look, RevalidateRead, Claims, HasLease, Unanswered
  <2> QED
    BY <2>1, <2>2
<1>11. ASSUME NEW s \in Sessions, RevalidateWrite(s) PROVE ObjectInv'
  <2>1. CASE Send(s, <<s, "call">>, "ok") /\ call'[s] = "fenAck"
    <3>1. /\ UNCHANGED <<now, renewed, loop>> /\ Decided(s, "call")
          /\ call[s] \notin {"fenHead", "vanHead", "relDelete"}
          /\ call' = [call EXCEPT ![s] = "fenAck"]
      BY <1>11, <2>1 DEF RevalidateWrite, Decided
    <3>2. \A t \in Sessions, j \in {"call", "loop"} :
             /\ Unanswered(t, j)' => Unanswered(t, j) \/ (t = s /\ j = "call")
             /\ Decided(t, j)' => Decided(t, j) /\ (t # s \/ j # "call")
      BY <3>1 DEF Unanswered, Decided
    <3>3. \A t \in Sessions : Claims(t)' => Claims(t)
      BY <1>11, <3>1 DEF RevalidateWrite, Claims, HasLease
    <3> QED
      BY <2>1, <3>1, <3>2, <3>3, LandInv
  <2>2. CASE UNCHANGED <<objVars, landedAt>> /\ call'[s] = "held"
    <3>1. DecidedInv'
      <4>1. Knows(s, "call")'
        BY <1>11, <2>2 DEF Knows, Decided, RevalidateWrite
      <4> QED
        BY <1>11, <2>2, <4>1, KnowsInv DEF Decided, RevalidateWrite
    <3> QED
      BY <1>11, <2>2, <3>1, QuietInv DEF RevalidateWrite, Claims, HasLease, Unanswered
  <2> QED
    BY <1>11, <2>1, <2>2 DEF RevalidateWrite, Send, Answers
<1>12. ASSUME NEW s \in Sessions, RevalidateAck(s) PROVE ObjectInv'
  <2>1. DecidedInv'
    <3>1. Knows(s, "call")'
      BY <1>12 DEF LeaseInv, DecidedInv, Knows, Decided, Look, RevalidateAck, Mine, Others, isLive
    <3> QED
      BY <1>12, <3>1, KnowsInv DEF Look, RevalidateAck, Decided
  <2>2. PICK answer \in Answers :
           /\ Acknowledge(s, answer)
           /\ call' = [call EXCEPT ![s] = IF answer = "ok" THEN "sealing" ELSE "held"]
    BY <1>12 DEF RevalidateAck
  <2>3. /\ UNCHANGED <<lobj, forced, now, loop>>
        /\ Answered(<<s, "call">>) /\ Unanswered(s, "call")
    BY <1>12 DEF RevalidateAck, Unanswered
  <2>4. ~Unanswered(s, "call")'
    BY <2>2 DEF Unanswered
  <2>5. \A t \in Sessions : Claims(t)' => Claims(t) \/ (t = s /\ answer = "ok")
    BY <1>12, <2>2 DEF RevalidateAck, Claims, HasLease
  <2>6. \A t \in Sessions, j \in {"call", "loop"} : Unanswered(t, j)' => Unanswered(t, j)
    BY <2>2, <2>3 DEF Unanswered
  <2>7. PendingInv' /\ ClaimInv'
    BY <2>2, <2>3, <2>4, <2>5, <2>6, AnswerInv
  <2> QED
    BY <2>1, <2>7
<1>13. ASSUME NEW s \in Sessions, VanishedWrite(s) PROVE ObjectInv'
  <2>1. CASE Send(s, <<s, "call">>, "ok") /\ call'[s] = "vanAck"
    <3>1. /\ UNCHANGED <<now, renewed, loop>> /\ Decided(s, "call")
          /\ call[s] \notin {"fenHead", "vanHead", "relDelete"}
          /\ call' = [call EXCEPT ![s] = "vanAck"]
      BY <1>13, <2>1 DEF VanishedWrite, Decided
    <3>2. \A t \in Sessions, j \in {"call", "loop"} :
             /\ Unanswered(t, j)' => Unanswered(t, j) \/ (t = s /\ j = "call")
             /\ Decided(t, j)' => Decided(t, j) /\ (t # s \/ j # "call")
      BY <3>1 DEF Unanswered, Decided
    <3>3. \A t \in Sessions : Claims(t)' => Claims(t)
      BY <1>13, <3>1 DEF VanishedWrite, Claims, HasLease
    <3> QED
      BY <2>1, <3>1, <3>2, <3>3, LandInv
  <2>2. CASE UNCHANGED <<objVars, landedAt>> /\ call'[s] = "held"
    <3>1. DecidedInv'
      <4>1. Knows(s, "call")'
        BY <1>13, <2>2 DEF Knows, Decided, VanishedWrite
      <4> QED
        BY <1>13, <2>2, <4>1, KnowsInv DEF Decided, VanishedWrite
    <3> QED
      BY <1>13, <2>2, <3>1, QuietInv DEF VanishedWrite, Claims, HasLease, Unanswered
  <2> QED
    BY <1>13, <2>1, <2>2 DEF VanishedWrite, Send, Answers
<1>14. ASSUME NEW s \in Sessions, VanishedAck(s) PROVE ObjectInv'
  <2>1. DecidedInv'
    <3>1. Knows(s, "call")'
      BY <1>14 DEF LeaseInv, DecidedInv, Knows, Decided, Look, VanishedAck, Mine, Others, isLive
    <3> QED
      BY <1>14, <3>1, KnowsInv DEF Look, VanishedAck, Decided
  <2>2. PICK answer \in Answers :
           /\ Acknowledge(s, answer)
           /\ call' = [call EXCEPT ![s] = IF answer = "ok" THEN "vanVerify" ELSE "held"]
    BY <1>14 DEF VanishedAck
  <2>3. /\ UNCHANGED <<lobj, forced, now, loop>>
        /\ Answered(<<s, "call">>) /\ Unanswered(s, "call")
    BY <1>14 DEF VanishedAck, Unanswered
  <2>4. ~Unanswered(s, "call")'
    BY <2>2 DEF Unanswered
  <2>5. \A t \in Sessions : Claims(t)' => Claims(t) \/ (t = s /\ answer = "ok")
    BY <1>14, <2>2 DEF VanishedAck, Claims, HasLease
  <2>6. \A t \in Sessions, j \in {"call", "loop"} : Unanswered(t, j)' => Unanswered(t, j)
    BY <2>2, <2>3 DEF Unanswered
  <2>7. PendingInv' /\ ClaimInv'
    BY <2>2, <2>3, <2>4, <2>5, <2>6, AnswerInv
  <2> QED
    BY <2>1, <2>7
<1>15. ASSUME NEW s \in Sessions, VanishedVerify(s) PROVE ObjectInv'
  <2>1. DecidedInv'
    <3>1. Knows(s, "call")'
      BY <1>15 DEF LeaseInv, DecidedInv, Knows, Decided, Look, VanishedVerify, Mine, Others, isLive
    <3> QED
      BY <1>15, <3>1, KnowsInv DEF Look, VanishedVerify, Decided
  <2>2. PendingInv' /\ ClaimInv'
    BY <1>15, QuietInv DEF Look, VanishedVerify, Claims, HasLease, Unanswered
  <2> QED
    BY <2>1, <2>2
<1>16. ASSUME NEW s \in Sessions, SealReturns(s) PROVE ObjectInv'
  <2>1. DecidedInv'
    <3>1. Knows(s, "call")'
      BY <1>16 DEF LeaseInv, DecidedInv, Knows, Decided, Look, SealReturns, Mine, Others, isLive
    <3> QED
      BY <1>16, <3>1, KnowsInv DEF Look, SealReturns, Decided
  <2>2. PendingInv' /\ ClaimInv'
    BY <1>16, QuietInv DEF Look, SealReturns, Claims, HasLease, Unanswered
  <2> QED
    BY <2>1, <2>2
<1>17. ASSUME NEW s \in Sessions, ReleaseStop(s) PROVE ObjectInv'
  <2>1. DecidedInv'
    <3>1. Knows(s, "call")'
      BY <1>17 DEF LeaseInv, DecidedInv, Knows, Decided, Look, ReleaseStop, Mine, Others, isLive
    <3> QED
      BY <1>17, <3>1, KnowsInv DEF Look, ReleaseStop, Decided
  <2>2. PendingInv' /\ ClaimInv'
    BY <1>17, QuietInv DEF Look, ReleaseStop, Claims, HasLease, Unanswered
  <2> QED
    BY <2>1, <2>2
<1>18. ASSUME NEW s \in Sessions, ReleaseRead(s) PROVE ObjectInv'
  <2>1. DecidedInv'
    <3>1. Knows(s, "call")'
      BY <1>18 DEF LeaseInv, DecidedInv, Knows, Decided, Look, ReleaseRead, Mine, Others, isLive
    <3> QED
      BY <1>18, <3>1, KnowsInv DEF Look, ReleaseRead, Decided
  <2>2. PendingInv' /\ ClaimInv'
    BY <1>18, QuietInv DEF Look, ReleaseRead, Claims, HasLease, Unanswered
  <2> QED
    BY <2>1, <2>2
<1>19. ASSUME NEW s \in Sessions, ReleaseDelete(s) PROVE ObjectInv'
  <2>1. CASE UNCHANGED objVars
    BY <1>19, <2>1, QuietInv DEF LeaseInv, DecidedInv, Knows, Decided, ReleaseDelete, Claims, HasLease, Unanswered, Mine, isLive
  <2>2. CASE /\ lobj' = NoLease
             /\ Changed(<<s, "call">>)
             /\ forced' = (forced \/ Unseen(s, <<s, "call">>))
    <3>1. ~forced' => ~forced /\ Mine(s)
      BY <1>19, <2>2 DEF ReleaseDelete, Unseen, LeaseInv, DecidedInv, Knows, Decided
    <3>2. DecidedInv'
      BY <1>19, <2>2 DEF ReleaseDelete, Changed, Decided, Knows, DecidedInv
    <3>3. ~forced' => \A t \in Sessions : ~Claims(t)' \/ ~(now + PutLag < renewed[t] + TTL)
      BY <1>19, <3>1, ClaimLive DEF ReleaseDelete, Claims, HasLease, Mine
    <3>4. ~forced' => \A t \in Sessions, j \in {"call", "loop"} : ~Unanswered(t, j)'
      BY <1>19, <3>1, ClaimLive DEF ReleaseDelete, Mine, Unanswered, LeaseInv, LoopInv, HasLease
    <3> QED
      BY <1>19, <3>2, <3>3, <3>4 DEF PendingInv, ClaimInv, ReleaseDelete
  <2> QED
    BY <1>19, <2>1, <2>2 DEF ReleaseDelete
<1>20. ASSUME NEW s \in Sessions, Crash(s) PROVE ObjectInv'
  <2>1. DecidedInv'
    BY <1>20 DEF LeaseInv, DecidedInv, Knows, Decided, Crash, Mine, isLive
  <2>2. PendingInv'
    BY <1>20 DEF LeaseInv, PendingInv, Crash, Mine, Unanswered
  <2>3. ClaimInv'
    BY <1>20 DEF LeaseInv, ClaimInv, Crash, Mine, Claims, HasLease
  <2> QED
    BY <2>1, <2>2, <2>3
<1>21. ASSUME NEW s \in Sessions, Sleep(s) PROVE ObjectInv'
  <2>1. DecidedInv'
    <3>1. Knows(s, "call")'
      BY <1>21 DEF LeaseInv, DecidedInv, Knows, Decided, Look, Sleep, Mine, Others, isLive
    <3> QED
      BY <1>21, <3>1, KnowsInv DEF Look, Sleep, Decided
  <2>2. PendingInv' /\ ClaimInv'
    BY <1>21, QuietInv DEF Look, Sleep, Claims, HasLease, Unanswered
  <2> QED
    BY <2>1, <2>2
<1>22. ASSUME NEW s \in Sessions, Wake(s) PROVE ObjectInv'
  <2>1. DecidedInv'
    <3>1. Knows(s, "call")'
      BY <1>22 DEF LeaseInv, DecidedInv, Knows, Decided, Look, Wake, Mine, Others, isLive
    <3> QED
      BY <1>22, <3>1, KnowsInv DEF Look, Wake, Decided
  <2>2. PendingInv' /\ ClaimInv'
    BY <1>22, QuietInv DEF Look, Wake, Claims, HasLease, Unanswered
  <2> QED
    BY <2>1, <2>2
<1>23. ASSUME NEW s \in Sessions, SetClockBack(s) PROVE ObjectInv'
  <2>1. DecidedInv'
    <3>1. Knows(s, "call")'
      BY <1>23 DEF LeaseInv, DecidedInv, Knows, Decided, Look, SetClockBack, Mine, Others, isLive
    <3> QED
      BY <1>23, <3>1, KnowsInv DEF Look, SetClockBack, Decided
  <2>2. PendingInv' /\ ClaimInv'
    BY <1>23, QuietInv DEF Look, SetClockBack, Claims, HasLease, Unanswered
  <2> QED
    BY <2>1, <2>2
<1>24. ASSUME NEW s \in Sessions, NEW answer \in GuardAnswers,
             RevalidateHead(s, answer) \/ VanishedHead(s, answer)
      PROVE ObjectInv'
  <2>1. DecidedInv'
    <3>1. Knows(s, "call")'
      BY <1>24 DEF LeaseInv, DecidedInv, Knows, Decided, RevalidateHead, VanishedHead,
         clearInterrupted, Mine, isLive
    <3> QED
      BY <1>24, <3>1, KnowsInv DEF Decided, RevalidateHead, VanishedHead, clearInterrupted
  <2>2. PendingInv' /\ ClaimInv'
    BY <1>24, QuietInv DEF RevalidateHead, VanishedHead, clearInterrupted, Claims, HasLease, Unanswered
  <2> QED
    BY <2>1, <2>2
<1>25. CASE OperatorDelete
  <2>1. DecidedInv'
    BY <1>25 DEF OperatorDelete, Changed, Decided, Knows, DecidedInv
  <2>2. ~forced => \A t \in Sessions : ~Claims(t)' \/ ~(now + PutLag < renewed[t] + TTL)
    BY <1>25, ClaimLive DEF OperatorDelete, Claims, HasLease
  <2>3. ~forced => \A t \in Sessions, j \in {"call", "loop"} : ~Unanswered(t, j)'
    BY <1>25, ClaimLive DEF OperatorDelete, Unanswered
  <2> QED
    BY <1>25, <2>1, <2>2, <2>3 DEF PendingInv, ClaimInv, OperatorDelete
<1>26. CASE Tick
  <2>1. DecidedInv'
    <3>1. ~isLive(lobj) => ~isLive(lobj)'
      BY <1>26, LeaseConstants DEF LeaseInv, Tick, isLive, Record
    <3>2. UNCHANGED <<lobj, stale, call, loop>>
      BY <1>26 DEF Tick
    <3>3. ASSUME NEW t \in Sessions, NEW j \in {"call", "loop"}
          PROVE  Knows(t, j)'
      <4>1. Knows(t, j)
        BY DEF LeaseInv, DecidedInv
      <4> QED
        BY <3>1, <3>2, <4>1 DEF Knows, Decided, Mine
    <3> QED
      BY <3>3 DEF DecidedInv
  <2>2. PendingInv'
    <3> SUFFICES ASSUME ~forced, NEW t \in Sessions, NEW j \in {"call", "loop"}, Unanswered(t, j)
                 PROVE  /\ Mine(t) /\ landedAt[<<t, j>>] <= lobj.stamp
                        /\ now + 1 <= landedAt[<<t, j>>] + PutLag
      BY <1>26 DEF PendingInv, Tick, Mine, Unanswered
    <3>1. Mine(t) /\ landedAt[<<t, j>>] <= lobj.stamp
      BY DEF LeaseInv, PendingInv
    <3>2. now < landedAt[<<t, j>>] + PutLag
      BY <1>26 DEF Tick
    <3> QED
      BY <3>1, <3>2, LeaseConstants DEF LeaseInv
  <2>3. ClaimInv'
    BY <1>26, LeaseConstants DEF LeaseInv, ClaimInv, Tick, Mine, Claims, HasLease
  <2> QED
    BY <2>1, <2>2, <2>3
<1> QED
  BY <1>1, <1>2, <1>3, <1>4, <1>5, <1>6, <1>7, <1>8, <1>9, <1>10, <1>11, <1>12, <1>13, <1>14, <1>15, <1>16, <1>17, <1>18, <1>19, <1>20, <1>21, <1>22, <1>23, <1>24, <1>25, <1>26 DEF LeaseNext, Acquire, renewOnce, Revalidate, Release

-----------------------------------------------------------------------------
(* The theorems.                                                           *)

(* The first states satisfy the invariant.                               *)
LEMMA InitInv == LeaseInit => LeaseInv
<1> SUFFICES ASSUME LeaseInit PROVE LeaseInv
  OBVIOUS
<1> USE DEF LeaseInit
<1>1. LeaseTypeOK
  BY DEF LeaseTypeOK, CallPoints, LoopPoints
<1>2. TriesInv /\ LoopInv /\ PastInv
  BY DEF TriesInv, LoopInv, PastInv
<1>3. DecidedInv
  BY DEF DecidedInv, Knows, Decided
<1>4. PendingInv /\ ClaimInv
  BY DEF PendingInv, Unanswered, ClaimInv, Claims, HasLease
<1> QED
  BY <1>1, <1>2, <1>3, <1>4 DEF LeaseInv

(* A step that changes nothing keeps it.                                 *)
LEMMA StutterInv == LeaseInv /\ UNCHANGED leaseVars => LeaseInv'
  BY DEF LeaseInv, leaseVars, LeaseTypeOK, TriesInv, LoopInv, PastInv, DecidedInv, Knows,
     Decided, PendingInv, Unanswered, ClaimInv, Claims, HasLease, Mine, isLive

(* Every step keeps the invariant.                                       *)
LEMMA LeaseInvStep ==
  ASSUME LeaseInv, [LeaseNext]_leaseVars
  PROVE  LeaseInv'
<1>1. CASE LeaseNext
  <2>1. LeaseTypeOK'
    BY <1>1, TypeStep DEF LeaseInv
  <2> QED
    BY <1>1, <2>1, TriesStep, LoopStep, PastStep, ObjectStep DEF LeaseInv
<1> QED
  BY <1>1, StutterInv

(* LeaseInv is an inductive invariant of every behaviour of the lease.     *)
THEOREM LeaseInvariant == LeaseSpec => []LeaseInv
<1>1. LeaseInv /\ [LeaseNext]_leaseVars => LeaseInv'
  BY LeaseInvStep
<1> QED
  BY <1>1, InitInv, PTL DEF LeaseSpec

(* Type correctness: every variable of the lease keeps its type.           *)
THEOREM LeaseTypeCorrect == LeaseSpec => []LeaseTypeOK
  BY LeaseInvariant, PTL DEF LeaseInv

(* Exclusion: whatever the number of sessions, the TTL, the faults of the  *)
(* store, sleeping machines and set-back clocks, two sessions whose leases *)
(* are fresh by Fence's own measure (less PutLag) are one session, unless  *)
(* a record was stolen or overwritten unseen.                              *)
THEOREM LeaseExclusive == LeaseSpec => []LeaseExclusion
<1>1. LeaseInv => LeaseExclusion
  <2> SUFFICES ASSUME LeaseInv, ~forced, NEW s \in Sessions, NEW t \in Sessions,
                      SafelyFresh(s), SafelyFresh(t)
               PROVE  s = t
    BY DEF LeaseExclusion
  <2>1. ASSUME NEW u \in Sessions, SafelyFresh(u) PROVE Mine(u)
    <3>1. now + PutLag < renewed[u] + TTL
      BY <2>1, LeaseConstants DEF LeaseInv, LeaseTypeOK, SafelyFresh, HonestClock, gapSince,
         monotonic, wall
    <3> QED
      BY <2>1, <3>1 DEF LeaseInv, ClaimInv, Claims, SafelyFresh
  <2> QED
    BY <2>1 DEF Mine
<1> QED
  BY <1>1, LeaseInvariant, PTL
-----------------------------------------------------------------------------
(* Takeovers and conflicts.                                                *)

Leaving(s) == call[s] \in {"relRead", "relDelete", "gone"}

(* Only who has a lease is displaced from one.                             *)
UsurpedInv == \A s \in Sessions : usurped[s] => HasLease(s) \/ Leaving(s)

(* A session that was displaced has found its object missing, or it has    *)
(* written nothing since, and what it is about to write it decided before. *)
Noticed(s) ==
    \/ interrupted[s]
    \/ ~Mine(s) /\ \A k \in {"call", "loop"} : Decided(s, k) => stale[<<s, k>>]

NoticedInv ==
    ~forced => \A s \in Sessions : HasLease(s) /\ usurped[s] => ~Retaking(s) /\ Noticed(s)

(* Another's record got onto the object by its own write.                  *)
ConflictInv ==
    \A s \in Sessions :
       /\ HasLease(s) /\ Others(s) => disturbed[s]
       /\ conflicted[s] => disturbed[s] /\ (HasLease(s) \/ Leaving(s))

TakeoverInv == UsurpedInv /\ NoticedInv /\ ConflictInv

(* Every step keeps that only holders are displaced.                       *)
LEMMA UsurpedStep == LeaseInv /\ TakeoverInv /\ LeaseTypeOK' /\ LeaseNext => UsurpedInv'
<1> SUFFICES ASSUME LeaseInv, TakeoverInv, LeaseTypeOK', LeaseNext, NEW t \in Sessions, usurped'[t]
  PROVE  (HasLease(t) \/ Leaving(t))'
  BY DEF UsurpedInv
<1> USE DEF LeaseInv, LeaseTypeOK, TakeoverInv, UsurpedInv, NoticedInv, ConflictInv, Threads, objVars, clockVars, flagVars, histVars,
      Goto, Look, FencePassed, FenceRefused, markLost, markInterrupted, HasLease, Leaving, Mine, Others
<1>1. ASSUME NEW s \in Sessions, checkVolumeLease(s) PROVE (HasLease(t) \/ Leaving(t))'
  BY <1>1 DEF checkVolumeLease
<1>2. ASSUME NEW s \in Sessions, AcquireRead(s) PROVE (HasLease(t) \/ Leaving(t))'
  BY <1>2 DEF AcquireRead
<1>3. ASSUME NEW s \in Sessions, AcquireWrite(s) PROVE (HasLease(t) \/ Leaving(t))'
  BY <1>3 DEF AcquireWrite, Send, Land, Changed, Answers, Unseen
<1>4. ASSUME NEW s \in Sessions, AcquireAck(s) PROVE (HasLease(t) \/ Leaving(t))'
  BY <1>4 DEF AcquireAck
<1>5. ASSUME NEW s \in Sessions, AcquireVerify(s) PROVE (HasLease(t) \/ Leaving(t))'
  BY <1>5 DEF AcquireVerify, Displaced
<1>6. ASSUME NEW s \in Sessions, RenewRead(s) PROVE (HasLease(t) \/ Leaving(t))'
  BY <1>6 DEF RenewRead
<1>7. ASSUME NEW s \in Sessions, RenewWrite(s) PROVE (HasLease(t) \/ Leaving(t))'
  BY <1>7 DEF RenewWrite, Send, Land, Changed, Answers, Unseen
<1>8. ASSUME NEW s \in Sessions, RenewAck(s) PROVE (HasLease(t) \/ Leaving(t))'
  BY <1>8 DEF RenewAck
<1>9. ASSUME NEW s \in Sessions, Fence(s) PROVE (HasLease(t) \/ Leaving(t))'
  BY <1>9 DEF Fence
<1>10. ASSUME NEW s \in Sessions, RevalidateRead(s) PROVE (HasLease(t) \/ Leaving(t))'
  BY <1>10 DEF RevalidateRead
<1>11. ASSUME NEW s \in Sessions, NEW answer, RevalidateHead(s, answer) PROVE (HasLease(t) \/ Leaving(t))'
  BY <1>11 DEF RevalidateHead, clearInterrupted
<1>12. ASSUME NEW s \in Sessions, RevalidateWrite(s) PROVE (HasLease(t) \/ Leaving(t))'
  BY <1>12 DEF RevalidateWrite, Send, Land, Changed, Answers, Unseen
<1>13. ASSUME NEW s \in Sessions, RevalidateAck(s) PROVE (HasLease(t) \/ Leaving(t))'
  BY <1>13 DEF RevalidateAck
<1>14. ASSUME NEW s \in Sessions, NEW answer, VanishedHead(s, answer) PROVE (HasLease(t) \/ Leaving(t))'
  BY <1>14 DEF VanishedHead, clearInterrupted
<1>15. ASSUME NEW s \in Sessions, VanishedWrite(s) PROVE (HasLease(t) \/ Leaving(t))'
  BY <1>15 DEF VanishedWrite, Send, Land, Changed, Answers, Unseen
<1>16. ASSUME NEW s \in Sessions, VanishedAck(s) PROVE (HasLease(t) \/ Leaving(t))'
  BY <1>16 DEF VanishedAck
<1>17. ASSUME NEW s \in Sessions, VanishedVerify(s) PROVE (HasLease(t) \/ Leaving(t))'
  BY <1>17 DEF VanishedVerify
<1>18. ASSUME NEW s \in Sessions, SealReturns(s) PROVE (HasLease(t) \/ Leaving(t))'
  BY <1>18 DEF SealReturns
<1>19. ASSUME NEW s \in Sessions, ReleaseStop(s) PROVE (HasLease(t) \/ Leaving(t))'
  BY <1>19 DEF ReleaseStop
<1>20. ASSUME NEW s \in Sessions, ReleaseRead(s) PROVE (HasLease(t) \/ Leaving(t))'
  BY <1>20 DEF ReleaseRead
<1>21. ASSUME NEW s \in Sessions, ReleaseDelete(s) PROVE (HasLease(t) \/ Leaving(t))'
  BY <1>21 DEF ReleaseDelete, Changed, Unseen
<1>22. ASSUME NEW s \in Sessions, Crash(s) PROVE (HasLease(t) \/ Leaving(t))'
  BY <1>22 DEF Crash
<1>23. ASSUME NEW s \in Sessions, Sleep(s) PROVE (HasLease(t) \/ Leaving(t))'
  BY <1>23 DEF Sleep
<1>24. ASSUME NEW s \in Sessions, Wake(s) PROVE (HasLease(t) \/ Leaving(t))'
  BY <1>24 DEF Wake
<1>25. ASSUME NEW s \in Sessions, SetClockBack(s) PROVE (HasLease(t) \/ Leaving(t))'
  BY <1>25 DEF SetClockBack
<1>26. CASE OperatorDelete
  BY <1>26 DEF OperatorDelete, Changed
<1>27. CASE Tick
  BY <1>27 DEF Tick
<1> QED
  BY <1>1, <1>2, <1>3, <1>4, <1>5, <1>6, <1>7, <1>8, <1>9, <1>10, <1>11, <1>12, <1>13, <1>14, <1>15, <1>16, <1>17, <1>18, <1>19, <1>20, <1>21, <1>22, <1>23, <1>24, <1>25, <1>26, <1>27
     DEF LeaseNext, Acquire, renewOnce, Revalidate, Release

(* Every step keeps that conflicts are real.                               *)
LEMMA ConflictStep == LeaseInv /\ TakeoverInv /\ LeaseTypeOK' /\ LeaseNext => ConflictInv'
<1> SUFFICES ASSUME LeaseInv, TakeoverInv, LeaseTypeOK', LeaseNext, NEW t \in Sessions
  PROVE  /\ HasLease(t)' /\ Others(t)' => disturbed'[t]
         /\ conflicted'[t] => disturbed'[t] /\ (HasLease(t)' \/ Leaving(t)')
  BY DEF ConflictInv
<1> USE DEF LeaseInv, LeaseTypeOK, TakeoverInv, UsurpedInv, NoticedInv, ConflictInv, Threads, objVars, clockVars, flagVars, histVars,
      Goto, Look, FencePassed, FenceRefused, markLost, markInterrupted, HasLease, Leaving, Mine, Others
<1>1. ASSUME NEW s \in Sessions, checkVolumeLease(s) PROVE (HasLease(t)' /\ Others(t)' => disturbed'[t]) /\ (conflicted'[t] => disturbed'[t] /\ (HasLease(t)' \/ Leaving(t)'))
  BY <1>1 DEF checkVolumeLease
<1>2. ASSUME NEW s \in Sessions, AcquireRead(s) PROVE (HasLease(t)' /\ Others(t)' => disturbed'[t]) /\ (conflicted'[t] => disturbed'[t] /\ (HasLease(t)' \/ Leaving(t)'))
  BY <1>2 DEF AcquireRead
<1>3. ASSUME NEW s \in Sessions, AcquireWrite(s) PROVE (HasLease(t)' /\ Others(t)' => disturbed'[t]) /\ (conflicted'[t] => disturbed'[t] /\ (HasLease(t)' \/ Leaving(t)'))
  BY <1>3 DEF AcquireWrite, Send, Land, Changed, Answers, Unseen
<1>4. ASSUME NEW s \in Sessions, AcquireAck(s) PROVE (HasLease(t)' /\ Others(t)' => disturbed'[t]) /\ (conflicted'[t] => disturbed'[t] /\ (HasLease(t)' \/ Leaving(t)'))
  BY <1>4 DEF AcquireAck
<1>5. ASSUME NEW s \in Sessions, AcquireVerify(s) PROVE (HasLease(t)' /\ Others(t)' => disturbed'[t]) /\ (conflicted'[t] => disturbed'[t] /\ (HasLease(t)' \/ Leaving(t)'))
  BY <1>5 DEF AcquireVerify, Displaced
<1>6. ASSUME NEW s \in Sessions, RenewRead(s) PROVE (HasLease(t)' /\ Others(t)' => disturbed'[t]) /\ (conflicted'[t] => disturbed'[t] /\ (HasLease(t)' \/ Leaving(t)'))
  BY <1>6 DEF RenewRead, LoopInv
<1>7. ASSUME NEW s \in Sessions, RenewWrite(s) PROVE (HasLease(t)' /\ Others(t)' => disturbed'[t]) /\ (conflicted'[t] => disturbed'[t] /\ (HasLease(t)' \/ Leaving(t)'))
  BY <1>7 DEF RenewWrite, Send, Land, Changed, Answers, Unseen
<1>8. ASSUME NEW s \in Sessions, RenewAck(s) PROVE (HasLease(t)' /\ Others(t)' => disturbed'[t]) /\ (conflicted'[t] => disturbed'[t] /\ (HasLease(t)' \/ Leaving(t)'))
  BY <1>8 DEF RenewAck
<1>9. ASSUME NEW s \in Sessions, Fence(s) PROVE (HasLease(t)' /\ Others(t)' => disturbed'[t]) /\ (conflicted'[t] => disturbed'[t] /\ (HasLease(t)' \/ Leaving(t)'))
  BY <1>9 DEF Fence
<1>10. ASSUME NEW s \in Sessions, RevalidateRead(s) PROVE (HasLease(t)' /\ Others(t)' => disturbed'[t]) /\ (conflicted'[t] => disturbed'[t] /\ (HasLease(t)' \/ Leaving(t)'))
  BY <1>10 DEF RevalidateRead
<1>11. ASSUME NEW s \in Sessions, NEW answer, RevalidateHead(s, answer) PROVE (HasLease(t)' /\ Others(t)' => disturbed'[t]) /\ (conflicted'[t] => disturbed'[t] /\ (HasLease(t)' \/ Leaving(t)'))
  BY <1>11 DEF RevalidateHead, clearInterrupted
<1>12. ASSUME NEW s \in Sessions, RevalidateWrite(s) PROVE (HasLease(t)' /\ Others(t)' => disturbed'[t]) /\ (conflicted'[t] => disturbed'[t] /\ (HasLease(t)' \/ Leaving(t)'))
  BY <1>12 DEF RevalidateWrite, Send, Land, Changed, Answers, Unseen
<1>13. ASSUME NEW s \in Sessions, RevalidateAck(s) PROVE (HasLease(t)' /\ Others(t)' => disturbed'[t]) /\ (conflicted'[t] => disturbed'[t] /\ (HasLease(t)' \/ Leaving(t)'))
  BY <1>13 DEF RevalidateAck
<1>14. ASSUME NEW s \in Sessions, NEW answer, VanishedHead(s, answer) PROVE (HasLease(t)' /\ Others(t)' => disturbed'[t]) /\ (conflicted'[t] => disturbed'[t] /\ (HasLease(t)' \/ Leaving(t)'))
  BY <1>14 DEF VanishedHead, clearInterrupted
<1>15. ASSUME NEW s \in Sessions, VanishedWrite(s) PROVE (HasLease(t)' /\ Others(t)' => disturbed'[t]) /\ (conflicted'[t] => disturbed'[t] /\ (HasLease(t)' \/ Leaving(t)'))
  BY <1>15 DEF VanishedWrite, Send, Land, Changed, Answers, Unseen
<1>16. ASSUME NEW s \in Sessions, VanishedAck(s) PROVE (HasLease(t)' /\ Others(t)' => disturbed'[t]) /\ (conflicted'[t] => disturbed'[t] /\ (HasLease(t)' \/ Leaving(t)'))
  BY <1>16 DEF VanishedAck
<1>17. ASSUME NEW s \in Sessions, VanishedVerify(s) PROVE (HasLease(t)' /\ Others(t)' => disturbed'[t]) /\ (conflicted'[t] => disturbed'[t] /\ (HasLease(t)' \/ Leaving(t)'))
  BY <1>17 DEF VanishedVerify
<1>18. ASSUME NEW s \in Sessions, SealReturns(s) PROVE (HasLease(t)' /\ Others(t)' => disturbed'[t]) /\ (conflicted'[t] => disturbed'[t] /\ (HasLease(t)' \/ Leaving(t)'))
  BY <1>18 DEF SealReturns
<1>19. ASSUME NEW s \in Sessions, ReleaseStop(s) PROVE (HasLease(t)' /\ Others(t)' => disturbed'[t]) /\ (conflicted'[t] => disturbed'[t] /\ (HasLease(t)' \/ Leaving(t)'))
  BY <1>19 DEF ReleaseStop
<1>20. ASSUME NEW s \in Sessions, ReleaseRead(s) PROVE (HasLease(t)' /\ Others(t)' => disturbed'[t]) /\ (conflicted'[t] => disturbed'[t] /\ (HasLease(t)' \/ Leaving(t)'))
  BY <1>20 DEF ReleaseRead
<1>21. ASSUME NEW s \in Sessions, ReleaseDelete(s) PROVE (HasLease(t)' /\ Others(t)' => disturbed'[t]) /\ (conflicted'[t] => disturbed'[t] /\ (HasLease(t)' \/ Leaving(t)'))
  BY <1>21 DEF ReleaseDelete, Changed, Unseen
<1>22. ASSUME NEW s \in Sessions, Crash(s) PROVE (HasLease(t)' /\ Others(t)' => disturbed'[t]) /\ (conflicted'[t] => disturbed'[t] /\ (HasLease(t)' \/ Leaving(t)'))
  BY <1>22 DEF Crash
<1>23. ASSUME NEW s \in Sessions, Sleep(s) PROVE (HasLease(t)' /\ Others(t)' => disturbed'[t]) /\ (conflicted'[t] => disturbed'[t] /\ (HasLease(t)' \/ Leaving(t)'))
  BY <1>23 DEF Sleep
<1>24. ASSUME NEW s \in Sessions, Wake(s) PROVE (HasLease(t)' /\ Others(t)' => disturbed'[t]) /\ (conflicted'[t] => disturbed'[t] /\ (HasLease(t)' \/ Leaving(t)'))
  BY <1>24 DEF Wake
<1>25. ASSUME NEW s \in Sessions, SetClockBack(s) PROVE (HasLease(t)' /\ Others(t)' => disturbed'[t]) /\ (conflicted'[t] => disturbed'[t] /\ (HasLease(t)' \/ Leaving(t)'))
  BY <1>25 DEF SetClockBack
<1>26. CASE OperatorDelete
  BY <1>26 DEF OperatorDelete, Changed
<1>27. CASE Tick
  BY <1>27 DEF Tick
<1> QED
  BY <1>1, <1>2, <1>3, <1>4, <1>5, <1>6, <1>7, <1>8, <1>9, <1>10, <1>11, <1>12, <1>13, <1>14, <1>15, <1>16, <1>17, <1>18, <1>19, <1>20, <1>21, <1>22, <1>23, <1>24, <1>25, <1>26, <1>27
     DEF LeaseNext, Acquire, renewOnce, Revalidate, Release

(* A write or a deletion by a thread that has decided: either the thread   *)
(* had looked since its session was displaced, or it is forced.            *)
LEMMA ChangeNoticed ==
  ASSUME LeaseInv, NEW s \in Sessions, NEW k \in {"call", "loop"}, Decided(s, k),
         Changed(<<s, k>>), forced \/ Unseen(s, <<s, k>>) => forced',
         lobj' = NoLease \/ lobj'.session = s,
         UNCHANGED interrupted,
         NEW t \in Sessions, ~forced', ~Retaking(t), Noticed(t), Retaking(t)' => Retaking(t),
         \A j \in {"call", "loop"} : Decided(t, j)' => Decided(t, j) /\ (t # s \/ j # k)
  PROVE  ~Retaking(t)' /\ Noticed(t)'
<1> USE DEF LeaseInv, LeaseTypeOK, Noticed, Threads
<1>1. ~Retaking(t) /\ Noticed(t) /\ (Mine(s) \/ ~stale[<<s, k>>])
  BY DEF Unseen
<1>2. \A j \in {"call", "loop"} : Decided(t, j)' => stale'[<<t, j>>]
  BY DEF Changed
<1>3. CASE t = s
  BY <1>1, <1>3
<1>4. CASE t # s
  <2>1. ~Mine(t)'
    BY <1>4 DEF Mine
  <2> QED
    BY <1>1, <1>2, <2>1
<1> QED
  BY <1>3, <1>4

(* What a session is owed by a takeover lasts until it compares the head.  *)
LEMMA NoticedKept ==
  ASSUME LeaseInv, LeaseTypeOK', LeaseNext, ~forced', NEW t \in Sessions,
         HasLease(t), HasLease(t)', ~Retaking(t), Noticed(t),
         call[t] \notin {"fenHead", "vanHead"} \/ usurped'[t]
  PROVE  ~Retaking(t)' /\ Noticed(t)'
<1> USE DEF LeaseInv, LeaseTypeOK, Threads, objVars, clockVars, flagVars, histVars,
      Goto, Look, FencePassed, FenceRefused, markLost, markInterrupted, HasLease, Leaving, Mine, Others, Noticed, Retaking, Decided,
      DecidedInv, Knows
<1>1. ASSUME NEW s \in Sessions, checkVolumeLease(s) PROVE ~Retaking(t)' /\ Noticed(t)'
  BY <1>1 DEF checkVolumeLease
<1>2. ASSUME NEW s \in Sessions, AcquireRead(s) PROVE ~Retaking(t)' /\ Noticed(t)'
  BY <1>2 DEF AcquireRead
<1>3. ASSUME NEW s \in Sessions, AcquireWrite(s) PROVE ~Retaking(t)' /\ Noticed(t)'
  <2>1. CASE Send(s, <<s, "call">>, "ok")
    <3>1. /\ Decided(s, "call") /\ Changed(<<s, "call">>)
          /\ (forced \/ Unseen(s, <<s, "call">>) => forced')
          /\ lobj' = [session |-> s, stamp |-> now]
      BY <1>3, <2>1 DEF AcquireWrite, Send, Land
    <3>2. /\ UNCHANGED interrupted
          /\ Retaking(t)' => Retaking(t)
          /\ \A j \in {"call", "loop"} : Decided(t, j)' => Decided(t, j) /\ (t # s \/ j # "call")
      BY <1>3, <2>1 DEF AcquireWrite, Send
    <3> QED
      BY <3>1, <3>2, ChangeNoticed
  <2>2. CASE UNCHANGED <<objVars, landedAt, disturbed>>
    BY <1>3, <2>2 DEF AcquireWrite
  <2> QED
    BY <1>3, <2>1, <2>2 DEF AcquireWrite, Send, Answers
<1>4. ASSUME NEW s \in Sessions, AcquireAck(s) PROVE ~Retaking(t)' /\ Noticed(t)'
  BY <1>4 DEF AcquireAck
<1>5. ASSUME NEW s \in Sessions, AcquireVerify(s) PROVE ~Retaking(t)' /\ Noticed(t)'
  BY <1>5 DEF AcquireVerify, Displaced
<1>6. ASSUME NEW s \in Sessions, RenewRead(s) PROVE ~Retaking(t)' /\ Noticed(t)'
  BY <1>6 DEF RenewRead
<1>7. ASSUME NEW s \in Sessions, RenewWrite(s) PROVE ~Retaking(t)' /\ Noticed(t)'
  <2>1. CASE Send(s, <<s, "loop">>, "ok")
    <3>1. /\ Decided(s, "loop") /\ Changed(<<s, "loop">>)
          /\ (forced \/ Unseen(s, <<s, "loop">>) => forced')
          /\ lobj' = [session |-> s, stamp |-> now]
      BY <1>7, <2>1 DEF RenewWrite, Send, Land
    <3>2. /\ UNCHANGED interrupted
          /\ Retaking(t)' => Retaking(t)
          /\ \A j \in {"call", "loop"} : Decided(t, j)' => Decided(t, j) /\ (t # s \/ j # "loop")
      BY <1>7, <2>1 DEF RenewWrite, Send
    <3> QED
      BY <3>1, <3>2, ChangeNoticed
  <2>2. CASE UNCHANGED <<objVars, landedAt, disturbed>>
    BY <1>7, <2>2 DEF RenewWrite
  <2> QED
    BY <1>7, <2>1, <2>2 DEF RenewWrite, Send, Answers
<1>8. ASSUME NEW s \in Sessions, RenewAck(s) PROVE ~Retaking(t)' /\ Noticed(t)'
  BY <1>8 DEF RenewAck
<1>9. ASSUME NEW s \in Sessions, Fence(s) PROVE ~Retaking(t)' /\ Noticed(t)'
  BY <1>9 DEF Fence
<1>10. ASSUME NEW s \in Sessions, RevalidateRead(s) PROVE ~Retaking(t)' /\ Noticed(t)'
  BY <1>10 DEF RevalidateRead
<1>11. ASSUME NEW s \in Sessions, NEW answer, RevalidateHead(s, answer) PROVE ~Retaking(t)' /\ Noticed(t)'
  BY <1>11 DEF RevalidateHead, clearInterrupted
<1>12. ASSUME NEW s \in Sessions, RevalidateWrite(s) PROVE ~Retaking(t)' /\ Noticed(t)'
  <2>1. CASE Send(s, <<s, "call">>, "ok")
    <3>1. /\ Decided(s, "call") /\ Changed(<<s, "call">>)
          /\ (forced \/ Unseen(s, <<s, "call">>) => forced')
          /\ lobj' = [session |-> s, stamp |-> now]
      BY <1>12, <2>1 DEF RevalidateWrite, Send, Land
    <3>2. /\ UNCHANGED interrupted
          /\ Retaking(t)' => Retaking(t)
          /\ \A j \in {"call", "loop"} : Decided(t, j)' => Decided(t, j) /\ (t # s \/ j # "call")
      BY <1>12, <2>1 DEF RevalidateWrite, Send
    <3> QED
      BY <3>1, <3>2, ChangeNoticed
  <2>2. CASE UNCHANGED <<objVars, landedAt, disturbed>>
    BY <1>12, <2>2 DEF RevalidateWrite
  <2> QED
    BY <1>12, <2>1, <2>2 DEF RevalidateWrite, Send, Answers
<1>13. ASSUME NEW s \in Sessions, RevalidateAck(s) PROVE ~Retaking(t)' /\ Noticed(t)'
  BY <1>13 DEF RevalidateAck
<1>14. ASSUME NEW s \in Sessions, NEW answer, VanishedHead(s, answer) PROVE ~Retaking(t)' /\ Noticed(t)'
  BY <1>14 DEF VanishedHead, clearInterrupted
<1>15. ASSUME NEW s \in Sessions, VanishedWrite(s) PROVE ~Retaking(t)' /\ Noticed(t)'
  BY <1>15 DEF VanishedWrite, Send, Land, Changed, Answers, Unseen
<1>16. ASSUME NEW s \in Sessions, VanishedAck(s) PROVE ~Retaking(t)' /\ Noticed(t)'
  BY <1>16 DEF VanishedAck
<1>17. ASSUME NEW s \in Sessions, VanishedVerify(s) PROVE ~Retaking(t)' /\ Noticed(t)'
  BY <1>17 DEF VanishedVerify
<1>18. ASSUME NEW s \in Sessions, SealReturns(s) PROVE ~Retaking(t)' /\ Noticed(t)'
  BY <1>18 DEF SealReturns
<1>19. ASSUME NEW s \in Sessions, ReleaseStop(s) PROVE ~Retaking(t)' /\ Noticed(t)'
  BY <1>19 DEF ReleaseStop
<1>20. ASSUME NEW s \in Sessions, ReleaseRead(s) PROVE ~Retaking(t)' /\ Noticed(t)'
  BY <1>20 DEF ReleaseRead
<1>21. ASSUME NEW s \in Sessions, ReleaseDelete(s) PROVE ~Retaking(t)' /\ Noticed(t)'
  <2>1. CASE Changed(<<s, "call">>) /\ lobj' = NoLease /\ forced' = (forced \/ Unseen(s, <<s, "call">>))
    <3>1. /\ Decided(s, "call") /\ Changed(<<s, "call">>)
          /\ (forced \/ Unseen(s, <<s, "call">>) => forced')
      BY <1>21, <2>1 DEF ReleaseDelete
    <3>2. /\ UNCHANGED interrupted
          /\ Retaking(t)' => Retaking(t)
          /\ \A j \in {"call", "loop"} : Decided(t, j)' => Decided(t, j) /\ (t # s \/ j # "call")
      BY <1>21, <2>1 DEF ReleaseDelete
    <3> QED
      BY <2>1, <3>1, <3>2, ChangeNoticed
  <2>2. CASE UNCHANGED objVars
    BY <1>21, <2>2 DEF ReleaseDelete
  <2> QED
    BY <1>21, <2>1, <2>2 DEF ReleaseDelete
<1>22. ASSUME NEW s \in Sessions, Crash(s) PROVE ~Retaking(t)' /\ Noticed(t)'
  BY <1>22 DEF Crash
<1>23. ASSUME NEW s \in Sessions, Sleep(s) PROVE ~Retaking(t)' /\ Noticed(t)'
  BY <1>23 DEF Sleep
<1>24. ASSUME NEW s \in Sessions, Wake(s) PROVE ~Retaking(t)' /\ Noticed(t)'
  BY <1>24 DEF Wake
<1>25. ASSUME NEW s \in Sessions, SetClockBack(s) PROVE ~Retaking(t)' /\ Noticed(t)'
  BY <1>25 DEF SetClockBack
<1>26. CASE OperatorDelete
  BY <1>26 DEF OperatorDelete, Changed
<1>27. CASE Tick
  BY <1>27 DEF Tick
<1> QED
  BY <1>1, <1>2, <1>3, <1>4, <1>5, <1>6, <1>7, <1>8, <1>9, <1>10, <1>11, <1>12, <1>13, <1>14, <1>15, <1>16, <1>17, <1>18, <1>19, <1>20, <1>21, <1>22, <1>23, <1>24, <1>25, <1>26, <1>27
     DEF LeaseNext, Acquire, renewOnce, Revalidate, Release

(* How a session comes to be displaced.                                    *)
LEMMA DisplacedStep ==
  ASSUME LeaseInv, TakeoverInv, LeaseNext, NEW t \in Sessions, usurped'[t], HasLease(t)'
  PROVE  \/ HasLease(t) /\ usurped[t]
         \/ \E s \in Sessions : AcquireVerify(s) /\ Mine(s) /\ t \in Displaced(s)
<1> DEFINE Owed == \/ HasLease(t) /\ usurped[t]
                   \/ \E s \in Sessions : AcquireVerify(s) /\ Mine(s) /\ t \in Displaced(s)
<1> USE DEF LeaseInv, LeaseTypeOK, TakeoverInv, UsurpedInv, Leaving, HasLease, objVars, clockVars,
      flagVars, histVars, Goto, FencePassed, FenceRefused
<1>1. ASSUME NEW s \in Sessions, Acquire(s) PROVE Owed
  <2>1. CASE AcquireVerify(s)
    BY <2>1 DEF AcquireVerify
  <2> QED
    BY <1>1, <2>1 DEF Acquire, checkVolumeLease, AcquireRead, AcquireWrite, AcquireAck
<1>2. ASSUME NEW s \in Sessions, renewOnce(s) PROVE Owed
  BY <1>2 DEF renewOnce, RenewRead, RenewWrite, RenewAck
<1>3. ASSUME NEW s \in Sessions, Fence(s) PROVE Owed
  BY <1>3 DEF Fence
<1>4. ASSUME NEW s \in Sessions, Revalidate(s) PROVE Owed
  BY <1>4 DEF Revalidate, RevalidateRead, RevalidateWrite, RevalidateAck, VanishedWrite,
     VanishedAck, VanishedVerify
<1>5. ASSUME NEW s \in Sessions, NEW answer, RevalidateHead(s, answer) \/ VanishedHead(s, answer)
      PROVE  Owed
  BY <1>5 DEF RevalidateHead, VanishedHead, clearInterrupted
<1>6. ASSUME NEW s \in Sessions, SealReturns(s) \/ Release(s) PROVE Owed
  BY <1>6 DEF SealReturns, Release, ReleaseStop, ReleaseRead, ReleaseDelete
<1>7. ASSUME NEW s \in Sessions, Crash(s) \/ Sleep(s) \/ Wake(s) \/ SetClockBack(s) PROVE Owed
  BY <1>7 DEF Crash, Sleep, Wake, SetClockBack
<1>8. CASE OperatorDelete \/ Tick
  BY <1>8 DEF OperatorDelete, Tick
<1> QED
  BY <1>1, <1>2, <1>3, <1>4, <1>5, <1>6, <1>7, <1>8 DEF LeaseNext

(* What was forced stays so.                                               *)
LEMMA ForcedStays == LeaseNext /\ forced => forced'
<1> SUFFICES ASSUME LeaseNext, forced PROVE forced'
  OBVIOUS
<1> USE DEF objVars, Look, Send, Land
<1>1. ASSUME NEW s \in Sessions, Acquire(s) PROVE forced'
  BY <1>1 DEF Acquire, checkVolumeLease, AcquireRead, AcquireWrite, AcquireAck, AcquireVerify
<1>2. ASSUME NEW s \in Sessions, renewOnce(s) PROVE forced'
  BY <1>2 DEF renewOnce, RenewRead, RenewWrite, RenewAck
<1>3. ASSUME NEW s \in Sessions, Revalidate(s) PROVE forced'
  BY <1>3 DEF Revalidate, RevalidateRead, RevalidateWrite, RevalidateAck, VanishedWrite,
     VanishedAck, VanishedVerify
<1>4. ASSUME NEW s \in Sessions, NEW answer, RevalidateHead(s, answer) \/ VanishedHead(s, answer)
      PROVE  forced'
  BY <1>4 DEF RevalidateHead, VanishedHead
<1>5. ASSUME NEW s \in Sessions, Fence(s) \/ SealReturns(s) \/ Release(s) PROVE forced'
  BY <1>5 DEF Fence, SealReturns, Release, ReleaseStop, ReleaseRead, ReleaseDelete
<1>6. ASSUME NEW s \in Sessions, Crash(s) \/ Sleep(s) \/ Wake(s) \/ SetClockBack(s) PROVE forced'
  BY <1>6 DEF Crash, Sleep, Wake, SetClockBack
<1>7. CASE OperatorDelete \/ Tick
  BY <1>7 DEF OperatorDelete, Tick
<1> QED
  BY <1>1, <1>2, <1>3, <1>4, <1>5, <1>6, <1>7 DEF LeaseNext

(* Whose record is on the object, the others have decided before it was.   *)
LEMMA OthersAreBlind ==
  ASSUME LeaseInv, NEW s \in Sessions, NEW t \in Sessions, s # t, Mine(s), HasLease(t)
  PROVE  Noticed(t)
  BY DEF LeaseInv, LeaseTypeOK, DecidedInv, Knows, Decided, Noticed, Mine, HasLease

(* Every step keeps that takeovers are noticed.                            *)
LEMMA NoticedStep == LeaseInv /\ TakeoverInv /\ LeaseTypeOK' /\ LeaseNext => NoticedInv'
<1> SUFFICES ASSUME LeaseInv, TakeoverInv, LeaseTypeOK', LeaseNext, ~forced',
                    NEW t \in Sessions, HasLease(t)', usurped'[t]
             PROVE  ~Retaking(t)' /\ Noticed(t)'
  BY DEF NoticedInv
<1>1. CASE HasLease(t) /\ usurped[t] /\ ~forced
  BY <1>1, NoticedKept DEF TakeoverInv, NoticedInv
<1>2. ASSUME NEW s \in Sessions, AcquireVerify(s), Mine(s), t \in Displaced(s)
      PROVE  ~Retaking(t)' /\ Noticed(t)'
  <2>1. Noticed(t) /\ HasLease(t) /\ s # t /\ ~Retaking(t)
    BY <1>2, OthersAreBlind DEF Displaced
  <2> QED
    BY <1>2, <2>1 DEF AcquireVerify, Look, Goto, Noticed, Retaking, Decided, Mine, LeaseInv,
       LeaseTypeOK, Threads, flagVars
<1>3. ~forced
  BY ForcedStays
<1> QED
  BY <1>1, <1>2, <1>3, DisplacedStep

(* Conflicts and takeovers, as an invariant of every behaviour.            *)
LEMMA TakeoverInvariant == LeaseSpec => []TakeoverInv
<1>1. LeaseInit => TakeoverInv
  BY DEF LeaseInit, TakeoverInv, UsurpedInv, NoticedInv, ConflictInv, HasLease
<1>2. LeaseInv /\ LeaseInv' /\ TakeoverInv /\ [LeaseNext]_leaseVars => TakeoverInv'
  <2>1. ASSUME LeaseInv, LeaseInv', TakeoverInv, LeaseNext PROVE TakeoverInv'
    BY <2>1, UsurpedStep, NoticedStep, ConflictStep DEF TakeoverInv, LeaseInv
  <2>2. ASSUME TakeoverInv, UNCHANGED leaseVars PROVE TakeoverInv'
    BY <2>2 DEF TakeoverInv, UsurpedInv, NoticedInv, ConflictInv, leaseVars, HasLease, Leaving,
       Retaking, Noticed, Decided, Mine, Others
  <2> QED
    BY <2>1, <2>2
<1> QED
  BY <1>1, <1>2, LeaseInvariant, PTL DEF LeaseSpec

(* No session reports a conflict with itself: when it says that its lease  *)
(* is lost, another session wrote the object or the head moved, whatever   *)
(* became of its own Puts.                                                 *)
THEOREM ConflictsAreReal == LeaseSpec => []ConflictIsReal
<1>1. TakeoverInv => ConflictIsReal
  BY DEF TakeoverInv, ConflictInv, ConflictIsReal
<1> QED
  BY <1>1, TakeoverInvariant, PTL

(* Three steps let a session publish.                                      *)
LEMMA PublishStep ==
  ASSUME LeaseTypeOK, LeaseNext, NEW s \in Sessions, call[s] # "sealing", call'[s] = "sealing"
  PROVE  Fence(s) \/ RevalidateAck(s) \/ VanishedVerify(s)
<1> USE DEF LeaseTypeOK, objVars, clockVars, flagVars, histVars, Goto, FencePassed, FenceRefused
<1>1. ASSUME NEW t \in Sessions, Acquire(t) PROVE FALSE
  BY <1>1 DEF Acquire, checkVolumeLease, AcquireRead, AcquireWrite, AcquireAck, AcquireVerify
<1>2. ASSUME NEW t \in Sessions, renewOnce(t) PROVE FALSE
  BY <1>2 DEF renewOnce, RenewRead, RenewWrite, RenewAck
<1>3. ASSUME NEW t \in Sessions, Fence(t) PROVE t = s
  BY <1>3 DEF Fence
<1>4. ASSUME NEW t \in Sessions, Revalidate(t) PROVE RevalidateAck(s) \/ VanishedVerify(s)
  BY <1>4 DEF Revalidate, RevalidateRead, RevalidateWrite, RevalidateAck, VanishedWrite,
     VanishedAck, VanishedVerify
<1>5. ASSUME NEW t \in Sessions, NEW answer, RevalidateHead(t, answer) \/ VanishedHead(t, answer)
      PROVE  FALSE
  BY <1>5 DEF RevalidateHead, VanishedHead, clearInterrupted
<1>6. ASSUME NEW t \in Sessions, SealReturns(t) \/ Release(t) PROVE FALSE
  BY <1>6 DEF SealReturns, Release, ReleaseStop, ReleaseRead, ReleaseDelete
<1>7. ASSUME NEW t \in Sessions, Crash(t) \/ Sleep(t) \/ Wake(t) \/ SetClockBack(t) PROVE FALSE
  BY <1>7 DEF Crash, Sleep, Wake, SetClockBack
<1>8. CASE OperatorDelete \/ Tick
  BY <1>8 DEF OperatorDelete, Tick
<1> QED
  BY <1>1, <1>2, <1>3, <1>4, <1>5, <1>6, <1>7, <1>8 DEF LeaseNext

(* What is fresh by Fence's measure, less PutLag, is younger than the TTL. *)
LEMMA FreshIsYoung ==
  ASSUME LeaseInv, NEW s \in Sessions, SafelyFresh(s)
  PROVE  now + PutLag < renewed[s] + TTL
  BY LeaseConstants DEF LeaseInv, LeaseTypeOK, SafelyFresh, HonestClock, gapSince, monotonic, wall

(* Fence lets nobody publish after a takeover it has not noticed, but in   *)
(* the cases that TakeoverNoticed names: for any number of sessions, and   *)
(* with a person who clears expired leases.                                *)
THEOREM TakeoversNoticed == LeaseSpec => TakeoverNoticed
<1> DEFINE Publishes(s) == call[s] # "sealing" /\ call'[s] = "sealing"
           Excused(s) == ~usurped[s] \/ forced \/ interrupted[s] \/ (call[s] = "held" /\ ~SafelyFresh(s))
<1>1. ASSUME LeaseInv, TakeoverInv, LeaseNext, NEW s \in Sessions, Publishes(s)
      PROVE  Excused(s)
  <2> SUFFICES ASSUME usurped[s], ~forced, ~interrupted[s]
               PROVE  call[s] = "held" /\ ~SafelyFresh(s)
    OBVIOUS
  <2>1. HasLease(s) => ~Retaking(s) /\ ~Mine(s)
    BY <1>1 DEF TakeoverInv, NoticedInv, Noticed
  <2>2. CASE Fence(s)
    <3>1. call[s] = "held"
      BY <2>2 DEF Fence
    <3>2. ~SafelyFresh(s)
      BY <1>1, <2>1, <3>1, FreshIsYoung DEF LeaseInv, ClaimInv, Claims, HasLease
    <3> QED
      BY <3>1, <3>2
  <2>3. CASE RevalidateAck(s)
    BY <1>1, <2>1, <2>3 DEF RevalidateAck, LeaseInv, PendingInv, Unanswered, HasLease
  <2>4. CASE VanishedVerify(s)
    BY <2>1, <2>4 DEF VanishedVerify, HasLease, Retaking
  <2> QED
    BY <1>1, <2>2, <2>3, <2>4, PublishStep DEF LeaseInv
<1>2. LeaseInv /\ TakeoverInv /\ [LeaseNext]_leaseVars =>
        [\A s \in Sessions :
           call[s] # "sealing" /\ call'[s] = "sealing" =>
              \/ ~usurped[s]
              \/ forced
              \/ interrupted[s]
              \/ call[s] = "held" /\ ~SafelyFresh(s)]_leaseVars
  BY <1>1
<1> QED
  BY <1>2, LeaseInvariant, TakeoverInvariant, PTL DEF LeaseSpec, TakeoverNoticed

-----------------------------------------------------------------------------
(* THE SESSION: the inductive invariant.                                   *)

Flipping(s) == at[s] \in {"checked", "put"}
Fencing(s)  == call[s] \in {"fenRead", "fenHead", "fenWrite", "fenAck",
                            "vanHead", "vanWrite", "vanAck", "vanVerify"}

SealTypeOK ==
    /\ minted \in Nat
    /\ at \in [Sessions -> {"idle", "stated", "ready", "checked", "put"}]
    /\ anchor \in [Sessions -> Nat]
    /\ doc \in [Sessions -> Nat]
    /\ win \in [Sessions -> SUBSET Nat]

(* Where the session is in its seal and where it is in its flip.           *)
PointsInv ==
    \A s \in Sessions :
       /\ Flipping(s) => call[s] = "sealing" /\ doc[s] # 0
       /\ Fencing(s) => at[s] = "ready"

(* There is a head, and whoever serves has read one.                       *)
HeadInv ==
    /\ ref \in Nat \ {0}
    /\ \A s \in Sessions : at[s] = "ready" \/ Flipping(s) => anchor[s] # 0

(* While every Put was covered by its session's lease, a session that      *)
(* something landed over, between its compare and its Put, has lost its    *)
(* lease and is owed the notice of it.                                     *)
WindowInv ==
    ~forced /\ ~uncovered =>
       /\ forsaken = {}
       /\ \A s \in Sessions : at[s] = "checked" /\ win[s] # {} => Noticed(s)

SealInv == SealTypeOK /\ PointsInv /\ HeadInv

-----------------------------------------------------------------------------
(* The parts.                                                              *)

(* The guard of a session that fences always has an answer.                *)
LEMMA GuardAnswersHead ==
  ASSUME SealInv, NEW s \in Sessions, Fencing(s)
  PROVE  headIs(s) \in GuardAnswers
  BY DEF SealInv, PointsInv, HeadInv, headIs, GuardAnswers, Fencing

(* Every step of the session is a step of the lease, or leaves it alone.   *)
LEMMA LeaseStep ==
  ASSUME SealInv, [SealNext]_<<leaseVars, sealVars>>
  PROVE  [LeaseNext]_leaseVars
<1>1. ASSUME NEW s \in Sessions, FetchHead(s) \/ CompareHead(s) \/ PutHead(s)
      PROVE  UNCHANGED leaseVars
  BY <1>1 DEF FetchHead, CompareHead, PutHead
<1>2. ASSUME NEW s \in Sessions, GuardHead(s) PROVE LeaseNext
  <2>1. Fencing(s)
    BY <1>2 DEF GuardHead, RevalidateHead, VanishedHead, Fencing
  <2> QED
    BY <1>2, <2>1, GuardAnswersHead DEF GuardHead, LeaseNext
<1>3. ASSUME NEW s \in Sessions, FenceSeal(s) \/ SealEnds(s) \/ SessionEnds(s) \/ LeaseOnly(s)
      PROVE  LeaseNext
  BY <1>3 DEF FenceSeal, SealEnds, SessionEnds, LeaseOnly, LeaseNext, Release
<1>4. CASE (OperatorDelete \/ Tick) /\ UNCHANGED sealVars
  BY <1>4 DEF LeaseNext
<1>5. CASE UNCHANGED <<leaseVars, sealVars>>
  BY <1>5
<1> QED
  BY <1>1, <1>2, <1>3, <1>4, <1>5 DEF SealNext

(* Every step of the session is a step of the flip, or leaves it alone.    *)
LEMMA FlipStep ==
  ASSUME [SealNext]_<<leaseVars, sealVars>>
  PROVE  [B!FlipNext]_(B!flipVars)
<1> USE DEF sealVars, branchVars, B!flipVars, B!FlipNext, B!Flip, B!Writers
<1>1. ASSUME NEW s \in Sessions, FetchHead(s) \/ CompareHead(s) \/ PutHead(s) PROVE B!FlipNext
  BY <1>1 DEF FetchHead, CompareHead, PutHead
<1>2. ASSUME NEW s \in Sessions, FenceSeal(s) \/ GuardHead(s) \/ LeaseOnly(s)
      PROVE  UNCHANGED B!flipVars
  BY <1>2 DEF FenceSeal, GuardHead, LeaseOnly
<1>3. ASSUME NEW s \in Sessions, SealEnds(s) \/ SessionEnds(s)
      PROVE  [B!FlipNext]_(B!flipVars)
  BY <1>3 DEF SealEnds, SessionEnds
<1>4. CASE (OperatorDelete \/ Tick) /\ UNCHANGED sealVars
  BY <1>4
<1>5. CASE UNCHANGED <<leaseVars, sealVars>>
  BY <1>5
<1> QED
  BY <1>1, <1>2, <1>3, <1>4, <1>5 DEF SealNext

(* The head moves as BranchFlip says, whatever the lease does.             *)
THEOREM HeadFlips == SealSpec => HeadMovesByFlip
<1>1. SealInit => B!FlipInit
  BY DEF SealInit
<1>2. [SealNext]_<<leaseVars, sealVars>> => [B!FlipNext]_(B!flipVars)
  BY FlipStep
<1> QED
  BY <1>1, <1>2, PTL DEF SealSpec, HeadMovesByFlip, B!FlipSpec

-----------------------------------------------------------------------------
(* The invariant.                                                          *)

(* The lease alone neither ends a seal nor starts a fence.                 *)
LEMMA LeaseOnlyPoints ==
  ASSUME LeaseTypeOK, NEW s \in Sessions, LeaseOnly(s), NEW t \in Sessions
  PROVE  /\ call[t] = "sealing" => call'[t] = "sealing"
         /\ Fencing(t)' => Fencing(t)
<1> USE DEF LeaseTypeOK, Fencing, objVars, clockVars, flagVars, histVars, Goto, FencePassed,
      FenceRefused
<1>1. CASE Acquire(s)
  BY <1>1 DEF Acquire, checkVolumeLease, AcquireRead, AcquireWrite, AcquireAck, AcquireVerify
<1>2. CASE renewOnce(s)
  BY <1>2 DEF renewOnce, RenewRead, RenewWrite, RenewAck
<1>3. CASE Revalidate(s)
  BY <1>3 DEF Revalidate, RevalidateRead, RevalidateWrite, RevalidateAck, VanishedWrite,
     VanishedAck, VanishedVerify
<1>4. CASE ReleaseRead(s) \/ ReleaseDelete(s) \/ Sleep(s) \/ Wake(s) \/ SetClockBack(s)
  BY <1>4 DEF ReleaseRead, ReleaseDelete, Sleep, Wake, SetClockBack
<1> QED
  BY <1>1, <1>2, <1>3, <1>4 DEF LeaseOnly

(* The end of a flip leaves the writer ready to serve.                     *)
LEMMA OverSeal ==
  ASSUME SealTypeOK, NEW s \in Sessions, NEW g \in Nat, B!Over(s, g)
  PROVE  /\ at' = [at EXCEPT ![s] = "ready"] /\ anchor' = [anchor EXCEPT ![s] = g]
         /\ doc' = [doc EXCEPT ![s] = 0]
  BY DEF SealTypeOK, B!Over, B!Move

(* Every step keeps where the sessions are, and that there is a head.      *)
LEMMA SealInvStep ==
  ASSUME LeaseTypeOK, SealInv, [SealNext]_<<leaseVars, sealVars>>
  PROVE  SealInv'
<1> USE DEF SealInv, SealTypeOK, PointsInv, HeadInv, Flipping, Awake, B!headVars, B!histVars,
      B!Move, B!Writers, Goto, objVars, clockVars, flagVars, histVars, leaseVars
<1>1. ASSUME NEW s \in Sessions, FetchHead(s) PROVE SealInv'
  BY <1>1 DEF FetchHead, B!FetchStat, B!FetchRead, Fencing
<1>2. ASSUME NEW s \in Sessions, FenceSeal(s) PROVE SealInv'
  BY <1>2 DEF FenceSeal, Fence, FencePassed, FenceRefused, Fencing, LeaseTypeOK, sealVars, branchVars
<1>3. ASSUME NEW s \in Sessions, GuardHead(s) PROVE SealInv'
  BY <1>3 DEF GuardHead, RevalidateHead, VanishedHead, clearInterrupted, FenceRefused, Fencing,
     LeaseTypeOK, sealVars, branchVars
<1>4. ASSUME NEW s \in Sessions, CompareHead(s) PROVE SealInv'
  BY <1>4 DEF CompareHead, B!Compare, Fencing
<1>5. ASSUME NEW s \in Sessions, PutHead(s) PROVE SealInv'
  BY <1>5 DEF PutHead, B!Put, B!Lands, Fencing
<1>6. ASSUME NEW s \in Sessions, SealEnds(s) PROVE SealInv'
  <2>1. call[s] = "sealing" /\ call' = [call EXCEPT ![s] = "held"] /\ UNCHANGED <<ref, minted>>
    BY <1>6 DEF SealEnds, SealReturns, branchVars, B!CompareStale, B!VerifyOk, B!VerifyFails
  <2>2. CASE at[s] = "ready" /\ UNCHANGED branchVars
    BY <2>1, <2>2 DEF branchVars, Fencing, LeaseTypeOK
  <2>3. CASE B!CompareStale(s) \/ B!VerifyOk(s) \/ B!VerifyFails(s)
    <3>1. PICK g \in Nat \ {0} : B!Over(s, g) /\ UNCHANGED win
      BY <2>3 DEF B!CompareStale, B!VerifyOk, B!VerifyFails
    <3>2. /\ at' = [at EXCEPT ![s] = "ready"] /\ anchor' = [anchor EXCEPT ![s] = g]
          /\ doc' = [doc EXCEPT ![s] = 0]
      BY <3>1, OverSeal
    <3> QED
      BY <2>1, <3>1, <3>2 DEF Fencing, LeaseTypeOK
  <2> QED
    BY <1>6, <2>2, <2>3 DEF SealEnds
<1>7. ASSUME NEW s \in Sessions, SessionEnds(s) PROVE SealInv'
  <2>1. /\ call[s] = "held" \/ call'[s] = "gone"
        /\ ~Fencing(s)' /\ \A t \in Sessions \ {s} : call'[t] = call[t]
    BY <1>7 DEF SessionEnds, ReleaseStop, Crash, Fencing, LeaseTypeOK
  <2>2. CASE B!Quit(s)
    BY <2>1, <2>2 DEF B!Quit, Fencing
  <2>3. CASE at[s] = "idle" /\ UNCHANGED branchVars
    BY <2>1, <2>3 DEF branchVars, Fencing
  <2> QED
    BY <1>7, <2>2, <2>3 DEF SessionEnds
<1>8. ASSUME NEW s \in Sessions, LeaseOnly(s) PROVE SealInv'
  BY <1>8, LeaseOnlyPoints DEF LeaseOnly, sealVars, branchVars
<1>9. CASE (OperatorDelete \/ Tick) /\ UNCHANGED sealVars
  BY <1>9 DEF OperatorDelete, Tick, sealVars, branchVars, Fencing
<1>10. CASE UNCHANGED <<leaseVars, sealVars>>
  BY <1>10 DEF sealVars, branchVars, Fencing
<1> QED
  BY <1>1, <1>2, <1>3, <1>4, <1>5, <1>6, <1>7, <1>8, <1>9, <1>10 DEF SealNext

-----------------------------------------------------------------------------
(* The window.                                                             *)

(* A Put of the head moves nothing of the lease; what it does to the       *)
(* others that have compared is to land over them.                         *)
LEMMA PutWindow ==
  ASSUME LeaseInv, SealInv, WindowInv, NEW s \in Sessions, PutHead(s), ~forced', ~uncovered'
  PROVE  /\ forsaken' = {}
         /\ \A t \in Sessions : at'[t] = "checked" => Noticed(t)'
<1>1. /\ at[s] = "checked" /\ at' = [at EXCEPT ![s] = "put"] /\ UNCHANGED leaseVars
      /\ ~forced /\ ~uncovered /\ Covered(s) /\ B!Lands(s)
  BY DEF PutHead, B!Put, B!Move, leaseVars
<1>2. HasLease(s) /\ Mine(s) /\ ~interrupted[s]
  BY <1>1, FreshIsYoung DEF Covered, SafelyFresh, LeaseInv, ClaimInv, Claims
<1>3. ~Noticed(s)
  BY <1>2 DEF Noticed
<1>4. win[s] = {} /\ forsaken = {}
  BY <1>1, <1>3 DEF WindowInv
<1>5. forsaken' = {}
  BY <1>1, <1>4 DEF B!Lands
<1>6. ASSUME NEW t \in Sessions, at'[t] = "checked" PROVE Noticed(t)'
  <2>1. t # s /\ at[t] = "checked"
    BY <1>1, <1>6 DEF SealInv, SealTypeOK
  <2>2. HasLease(t)
    BY <2>1 DEF SealInv, PointsInv, Flipping, HasLease
  <2>3. Noticed(t)
    BY <1>2, <2>1, <2>2, OthersAreBlind
  <2> QED
    BY <1>1, <2>3 DEF Noticed, Mine, Decided, leaseVars
<1> QED
  BY <1>5, <1>6

(* What the other steps do to a window: they open it, or leave it alone.   *)
LEMMA WindowStays ==
  ASSUME SealInv, [SealNext]_<<leaseVars, sealVars>>, \A s \in Sessions : ~PutHead(s)
  PROVE  /\ UNCHANGED <<forsaken, uncovered>>
         /\ \A t \in Sessions :
               at'[t] = "checked" /\ win'[t] # {} => at[t] = "checked" /\ win[t] # {}
<1> DEFINE Stays == /\ UNCHANGED <<forsaken, uncovered>>
                    /\ \A t \in Sessions :
                          at'[t] = "checked" /\ win'[t] # {} => at[t] = "checked" /\ win[t] # {}
<1> USE DEF SealInv, SealTypeOK, B!headVars, B!histVars, B!Move, B!Writers
<1>1. ASSUME NEW s \in Sessions, FetchHead(s) PROVE Stays
  BY <1>1 DEF FetchHead, B!FetchStat, B!FetchRead
<1>2. ASSUME NEW s \in Sessions, CompareHead(s) PROVE Stays
  BY <1>2 DEF CompareHead, B!Compare
<1>3. ASSUME NEW s \in Sessions, SealEnds(s) PROVE Stays
  BY <1>3 DEF SealEnds, B!CompareStale, B!VerifyOk, B!VerifyFails, B!Over, branchVars
<1>4. ASSUME NEW s \in Sessions, SessionEnds(s) PROVE Stays
  BY <1>4 DEF SessionEnds, B!Quit, branchVars
<1>5. ASSUME NEW s \in Sessions, FenceSeal(s) \/ GuardHead(s) \/ LeaseOnly(s) PROVE Stays
  BY <1>5 DEF FenceSeal, GuardHead, LeaseOnly, sealVars, branchVars
<1>6. CASE UNCHANGED sealVars
  BY <1>6 DEF sealVars, branchVars
<1> QED
  BY <1>1, <1>2, <1>3, <1>4, <1>5, <1>6 DEF SealNext

(* Every step keeps the windows of the seals covered by the leases.        *)
LEMMA WindowStep ==
  ASSUME LeaseInv, LeaseInv', SealInv, SealInv', WindowInv, [SealNext]_<<leaseVars, sealVars>>
  PROVE  WindowInv'
<1>1. ASSUME NEW s \in Sessions, PutHead(s) PROVE WindowInv'
  BY <1>1, PutWindow DEF WindowInv
<1>2. CASE \A s \in Sessions : ~PutHead(s)
  <2> SUFFICES ASSUME ~forced', ~uncovered'
               PROVE  /\ forsaken' = {}
                      /\ \A t \in Sessions : at'[t] = "checked" /\ win'[t] # {} => Noticed(t)'
    BY DEF WindowInv
  <2>1. /\ UNCHANGED <<forsaken, uncovered>>
        /\ \A t \in Sessions :
              at'[t] = "checked" /\ win'[t] # {} => at[t] = "checked" /\ win[t] # {}
    BY <1>2, WindowStays
  <2>2. LeaseNext \/ UNCHANGED leaseVars
    BY LeaseStep
  <2>3. ~forced
    BY <2>2, ForcedStays DEF leaseVars
  <2>4. ASSUME NEW t \in Sessions, at'[t] = "checked", win'[t] # {} PROVE Noticed(t)'
    <3>1. Noticed(t) /\ call[t] = "sealing" /\ call'[t] = "sealing"
      BY <2>1, <2>3, <2>4 DEF WindowInv, SealInv, PointsInv, Flipping
    <3>2. CASE LeaseNext
      BY <3>1, <3>2, NoticedKept DEF HasLease, Retaking, LeaseInv
    <3>3. CASE UNCHANGED leaseVars
      BY <3>1, <3>3 DEF Noticed, Mine, Decided, leaseVars
    <3> QED
      BY <2>2, <3>2, <3>3
  <2> QED
    BY <2>1, <2>3, <2>4 DEF WindowInv
<1> QED
  BY <1>1, <1>2

-----------------------------------------------------------------------------
(* The theorems.                                                           *)

(* The invariants of a sealing session hold first and always.              *)
LEMMA SealInvariant == SealSpec => [](LeaseInv /\ SealInv /\ WindowInv)
<1>1. SealInit => LeaseInv /\ SealInv /\ WindowInv
  <2> SUFFICES ASSUME SealInit PROVE SealInv /\ WindowInv
    BY InitInv DEF SealInit
  <2> QED
    BY DEF SealInit, LeaseInit, B!FlipInit, B!Writers, SealInv, SealTypeOK, PointsInv, HeadInv,
       Flipping, Fencing, WindowInv
<1>2. ASSUME LeaseInv, SealInv, WindowInv, [SealNext]_<<leaseVars, sealVars>>
      PROVE  LeaseInv' /\ SealInv' /\ WindowInv'
  <2>1. LeaseInv'
    BY <1>2, LeaseStep, LeaseInvStep
  <2>2. SealInv'
    BY <1>2, SealInvStep DEF LeaseInv
  <2>3. WindowInv'
    BY <1>2, <2>1, <2>2, WindowStep
  <2> QED
    BY <2>1, <2>2, <2>3
<1> QED
  BY <1>1, <1>2, PTL DEF SealSpec

(* The composite implements the lease: what is proved of LeaseSpec holds   *)
(* of a session that seals.                                                *)
THEOREM SealImplementsLease == SealSpec => LeaseSpec
<1>1. SealInv /\ [SealNext]_<<leaseVars, sealVars>> => [LeaseNext]_leaseVars
  BY LeaseStep
<1>2. SealInit => LeaseInit
  BY DEF SealInit
<1> QED
  BY <1>1, <1>2, SealInvariant, PTL DEF SealSpec, LeaseSpec

(* The lease closes the window of the flip: nothing acknowledged is ever   *)
(* overwritten unseen, unless a Put landed when its session's lease was no *)
(* longer one that Fence would let pass, or a record was forced.           *)
THEOREM WindowClosed == SealSpec => []LeaseClosesWindow
<1>1. WindowInv => LeaseClosesWindow
  BY DEF WindowInv, LeaseClosesWindow
<1> QED
  BY <1>1, SealInvariant, PTL

(* A session that seals never reports a conflict with itself.              *)
THEOREM SealConflictsAreReal == SealSpec => []ConflictIsReal
  BY SealImplementsLease, ConflictsAreReal, PTL
=============================================================================
