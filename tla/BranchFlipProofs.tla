--------------------------- MODULE BranchFlipProofs ---------------------------
(***************************************************************************)
(* Proofs about BranchFlip: its type invariant, and for a store whose      *)
(* reads do not fail, that no acknowledged generation silently leaves the  *)
(* lineage of the head, whatever the writers, their number and their mix.  *)
(***************************************************************************)
EXTENDS BranchFlip, TLAPS

(* A line begins with its own generation; nothing is grown from nothing.   *)
LinesRooted ==
    /\ line[0] = {}
    /\ \A g \in 1..minted : g \in line[g]

(* A document under flip extends the anchor it was built on.               *)
DocsGrow ==
    \A w \in Writers :
       /\ anchor[w] <= minted /\ etag[w] <= minted
       /\ doc[w] # 0 => line[doc[w]] = line[anchor[w]] \cup {doc[w]}

(* A document that has not landed is known to its writer alone.            *)
DocsUnseen ==
    \A w \in Writers : at[w] = "checked" =>
       /\ ref # doc[w]
       /\ \A v \in Writers : /\ etag[v] # doc[w]
                             /\ v # w => doc[v] # doc[w]

(* The ETag of a flipper is never newer than the bytes it read.            *)
ETagsAgree ==
    /\ ~ServesETags => \A w \in Writers : etag[w] = 0
    /\ \A w \in Flippers :
          at[w] = "ready" /\ etag[w] # 0 /\ etag[w] = ref => anchor[w] = ref

(* Since the check of a flip, the head and what was acknowledged are in    *)
(* the line the flip extends, or landed in its window.                     *)
WindowsTracked ==
    \A w \in Writers : at[w] = "checked" =>
       /\ ref \in {0} \cup line[anchor[w]] \cup win[w]
       /\ acked \subseteq line[anchor[w]] \cup win[w] \cup forsaken \cup dropped

(* The inductive invariant.                                                *)
FlipInv ==
    /\ FlipTypeOK /\ LinesRooted /\ DocsGrow /\ DocsUnseen /\ ETagsAgree
    /\ WindowsTracked /\ AckedSurvives

-----------------------------------------------------------------------------
(* Type correctness.                                                       *)

(* The documents in hand match the points the writers are at, after the    *)
(* end of a flip.                                                          *)
LEMMA OverTypes ==
    ASSUME FlipTypeOK, NEW w \in Writers, NEW g \in 0..MaxGen, Over(w, g)
    PROVE  /\ at' \in [Writers -> {"idle", "stated", "ready", "checked", "put"}]
           /\ anchor' \in [Writers -> 0..MaxGen]
           /\ etag' \in [Writers -> 0..MaxGen]
           /\ doc' \in [Writers -> 0..minted]
           /\ \A v \in Writers : doc'[v] # 0 <=> at'[v] \in {"checked", "put"}
<1>1. MaxGen \in Nat /\ minted \in Nat
  BY FlipConstants DEF FlipTypeOK
<1> QED
  BY <1>1 DEF FlipTypeOK, Over, Move

(* A Put that lands keeps the histories in range.                          *)
LEMMA LandsTypes ==
    ASSUME FlipTypeOK, NEW w \in Writers, at[w] = "checked", Lands(w)
    PROVE  /\ ref' \in 0..minted
           /\ win' \in [Writers -> SUBSET Gens]
           /\ forsaken' \in SUBSET Gens
<1>1. doc[w] \in 0..minted /\ doc[w] # 0 /\ minted \in 0..MaxGen /\ MaxGen \in Nat
  BY FlipConstants DEF FlipTypeOK
<1>2. doc[w] \in Gens
  BY <1>1 DEF Gens
<1>3. ref' \in 0..minted
  BY <1>1 DEF Lands
<1>4. win' \in [Writers -> SUBSET Gens]
  BY <1>2 DEF Lands, FlipTypeOK
<1>5. forsaken' \in SUBSET Gens
  BY DEF Lands, FlipTypeOK
<1> QED
  BY <1>3, <1>4, <1>5

(* Every step preserves the type invariant.                                *)
LEMMA FlipTypeStep ==
    ASSUME FlipTypeOK, [FlipNext]_flipVars
    PROVE  FlipTypeOK'
<1> USE DEF Gens
<1>0. MaxGen \in Nat /\ minted \in 0..MaxGen /\ minted \in Nat /\ ref \in 0..MaxGen
  BY FlipConstants DEF FlipTypeOK
<1>1. ASSUME NEW w \in Writers, FetchStat(w) PROVE FlipTypeOK'
  <2> DEFINE p == IF ref = 0 THEN "ready" ELSE "stated"
  <2>1. /\ at[w] = "idle" /\ at' = [at EXCEPT ![w] = p]
        /\ UNCHANGED <<ref, minted, line, anchor, doc, acked, win, forsaken, dropped>>
    BY <1>1 DEF FetchStat, Move, headVars, histVars
  <2>2. PICK e \in 0..MaxGen : etag' = [etag EXCEPT ![w] = e]
    <3>1. PICK read \in Reads :
             etag' = [etag EXCEPT ![w] = IF read = "ok" /\ ServesETags THEN ref ELSE 0]
      BY <1>1 DEF FetchStat
    <3> DEFINE e == IF read = "ok" /\ ServesETags THEN ref ELSE 0
    <3>2. e \in 0..MaxGen
      BY <1>0
    <3> QED
      BY <3>1, <3>2
  <2>3. etag' \in [Writers -> 0..MaxGen]
    BY <2>2 DEF FlipTypeOK
  <2>4. p \in {"ready", "stated"}
    OBVIOUS
  <2>5. /\ at' \in [Writers -> {"idle", "stated", "ready", "checked", "put"}]
        /\ \A v \in Writers : doc'[v] # 0 <=> at'[v] \in {"checked", "put"}
    BY <2>1, <2>4 DEF FlipTypeOK
  <2> QED
    BY <2>1, <2>3, <2>5 DEF FlipTypeOK
<1>2. ASSUME NEW w \in Writers, FetchRead(w) PROVE FlipTypeOK'
  <2>1. at[w] = "stated" /\ UNCHANGED <<ref, minted, line, doc, acked, win, forsaken, dropped>>
    BY <1>2 DEF FetchRead, headVars, histVars
  <2>2. PICK p \in {"idle", "ready"} : at' = [at EXCEPT ![w] = p]
    BY <1>2 DEF FetchRead, Move
  <2>3. anchor' \in [Writers -> 0..MaxGen]
    BY <1>0, <1>2 DEF FetchRead, FlipTypeOK
  <2>4. etag' \in [Writers -> 0..MaxGen]
    BY <1>0, <1>2 DEF FetchRead, FlipTypeOK
  <2>5. /\ at' \in [Writers -> {"idle", "stated", "ready", "checked", "put"}]
        /\ \A v \in Writers : doc'[v] # 0 <=> at'[v] \in {"checked", "put"}
    BY <2>1, <2>2 DEF FlipTypeOK
  <2> QED
    BY <2>1, <2>3, <2>4, <2>5 DEF FlipTypeOK
<1>3. ASSUME NEW w \in Writers, CompareStale(w) PROVE FlipTypeOK'
  <2>1. Over(w, anchor[w]) /\ anchor[w] \in 0..MaxGen
    BY <1>3 DEF CompareStale, FlipTypeOK
  <2> QED
    BY <1>3, <2>1, OverTypes DEF CompareStale, FlipTypeOK, headVars, histVars
<1>4. ASSUME NEW w \in Writers, Compare(w) PROVE FlipTypeOK'
  <2>1. minted + 1 \in 1..MaxGen /\ minted' = minted + 1
    BY <1>0, <1>4 DEF Compare
  <2>2. line' \in [0..MaxGen -> SUBSET Gens]
    BY <1>0, <1>4, <2>1 DEF Compare, FlipTypeOK
  <2>3. /\ doc' \in [Writers -> 0..minted']
        /\ \A v \in Writers : doc'[v] # 0 <=> at'[v] \in {"checked", "put"}
    BY <1>0, <1>4, <2>1 DEF Compare, FlipTypeOK, Move
  <2> QED
    BY <1>0, <1>4, <2>1, <2>2, <2>3 DEF Compare, FlipTypeOK, Move
<1>5. ASSUME NEW w \in Writers, Put(w) PROVE FlipTypeOK'
  <2>1. at[w] = "checked" /\ Lands(w)
    BY <1>5 DEF Put
  <2> QED
    BY <1>5, <2>1, LandsTypes DEF Put, FlipTypeOK, Move
<1>6. ASSUME NEW w \in Writers, PutFails(w) PROVE FlipTypeOK'
  <2>1. at[w] = "checked" /\ Over(w, anchor[w]) /\ anchor[w] \in 0..MaxGen
    BY <1>6 DEF PutFails, FlipTypeOK
  <2>2. /\ ref' \in 0..minted
        /\ win' \in [Writers -> SUBSET Gens]
        /\ forsaken' \in SUBSET Gens
    BY <1>6, <2>1, LandsTypes DEF PutFails, FlipTypeOK
  <2> QED
    BY <1>6, <2>1, <2>2, OverTypes DEF PutFails, FlipTypeOK
<1>7. ASSUME NEW w \in Writers, VerifyOk(w) PROVE FlipTypeOK'
  <2>1. Over(w, doc[w]) /\ doc[w] \in 0..MaxGen /\ doc[w] \in Gens
    BY <1>0, <1>7 DEF VerifyOk, FlipTypeOK
  <2> QED
    BY <1>7, <2>1, OverTypes DEF VerifyOk, FlipTypeOK, headVars
<1>8. ASSUME NEW w \in Writers, VerifyFails(w) PROVE FlipTypeOK'
  <2>1. Over(w, anchor[w]) /\ anchor[w] \in 0..MaxGen
    BY <1>8 DEF VerifyFails, FlipTypeOK
  <2> QED
    BY <1>8, <2>1, OverTypes DEF VerifyFails, FlipTypeOK, headVars, histVars
<1>9. ASSUME NEW w \in Writers, Quit(w) PROVE FlipTypeOK'
  BY <1>0, <1>9 DEF Quit, FlipTypeOK, Move, headVars
<1>10. CASE DeleteBranch
  <2>1. line[ref] \in SUBSET Gens
    BY <1>0 DEF FlipTypeOK
  <2>2. ref' \in 0..minted'
    BY <1>0, <1>10 DEF DeleteBranch
  <2> QED
    BY <1>10, <2>1, <2>2 DEF DeleteBranch, FlipTypeOK
<1>11. CASE UNCHANGED flipVars
  BY <1>11 DEF flipVars, FlipTypeOK
<1> QED
  BY <1>1, <1>2, <1>3, <1>4, <1>5, <1>6, <1>7, <1>8, <1>9, <1>10, <1>11 DEF FlipNext, Flip

(* The first states have their types.                                      *)
LEMMA FlipTypeInit == FlipInit => FlipTypeOK
<1>1. MaxGen \in Nat \ {0}
  BY FlipConstants
<1> QED
  BY <1>1 DEF FlipInit, FlipTypeOK, Gens

(* The types of the head, of the writers and of the histories, with a      *)
(* document in hand exactly between the check and the read-back.           *)
THEOREM FlipTypeCorrect == FlipSpec => []FlipTypeOK
<1>1. FlipInit => FlipTypeOK
  BY FlipTypeInit
<1>2. FlipTypeOK /\ [FlipNext]_flipVars => FlipTypeOK'
  BY FlipTypeStep
<1> QED
  BY <1>1, <1>2, PTL DEF FlipSpec

-----------------------------------------------------------------------------
(* No acknowledged generation leaves the lineage silently.                 *)

(* A check that passes, when reads do not fail, found the head equal to    *)
(* the anchor or found none.                                               *)
LEMMA CompareFindsAnchor ==
    ASSUME FlipTypeOK, ETagsAgree, ReadFaults = FALSE,
           NEW w \in Writers, Compare(w)
    PROVE  ref = 0 \/ ref = anchor[w]
<1>1. at[w] = "ready" /\ ~Refuses(w, "ok")
  BY DEF Compare, Reads
<1>2. CASE w \in Sealers
  BY <1>1, <1>2 DEF Refuses, SealCompareRefuses
<1>3. CASE w \notin Sealers
  <2>1. w \in Flippers /\ ~FlipCompareRefuses(w, "ok")
    BY <1>1, <1>3 DEF Refuses, Writers
  <2>2. ref = 0 \/ (etag[w] # 0 /\ (ServesETags => ref = etag[w]))
    BY <2>1 DEF FlipCompareRefuses
  <2>3. etag[w] # 0 => ServesETags
    BY DEF ETagsAgree
  <2> QED
    BY <1>1, <2>1, <2>2, <2>3 DEF ETagsAgree
<1> QED
  BY <1>2, <1>3

(* A fetch changes nothing the flips under way rely on.                    *)
LEMMA FetchInv ==
    ASSUME FlipInv, FlipTypeOK', NEW w \in Writers, FetchStat(w) \/ FetchRead(w)
    PROVE  FlipInv'
<1> USE DEF FlipInv
<1>1. /\ at[w] \in {"idle", "stated"} /\ at'[w] # "checked" /\ at'[w] # "put"
      /\ \A v \in Writers \ {w} : at'[v] = at[v] /\ anchor'[v] = anchor[v] /\ etag'[v] = etag[v]
      /\ doc[w] = 0 /\ anchor'[w] \in {0, ref, anchor[w]} /\ etag'[w] \in {0, ref, etag[w]}
      /\ UNCHANGED <<headVars, doc, histVars>>
  <2>1. at[w] \in {"idle", "stated"} /\ UNCHANGED <<headVars, doc, histVars>>
    BY DEF FetchStat, FetchRead
  <2>2. doc[w] = 0
    BY <2>1 DEF FlipTypeOK
  <2>3. at'[w] \in {"idle", "stated", "ready"} /\ \A v \in Writers \ {w} : at'[v] = at[v]
    BY DEF FetchStat, FetchRead, Move, FlipTypeOK
  <2>4. anchor'[w] \in {0, ref, anchor[w]} /\ \A v \in Writers \ {w} : anchor'[v] = anchor[v]
    BY DEF FetchStat, FetchRead, FlipTypeOK
  <2>5. etag'[w] \in {0, ref, etag[w]} /\ \A v \in Writers \ {w} : etag'[v] = etag[v]
    BY DEF FetchStat, FetchRead, FlipTypeOK
  <2> QED
    BY <2>1, <2>2, <2>3, <2>4, <2>5
<1>2. LinesRooted' /\ AckedSurvives'
  BY <1>1 DEF LinesRooted, AckedSurvives, headVars, histVars
<1>3. DocsGrow'
  <2> SUFFICES ASSUME NEW v \in Writers
               PROVE  /\ anchor'[v] <= minted' /\ etag'[v] <= minted'
                      /\ doc'[v] # 0 => line'[doc'[v]] = line'[anchor'[v]] \cup {doc'[v]}
    BY DEF DocsGrow
  <2>1. ref <= minted /\ 0 <= minted /\ anchor[v] <= minted /\ etag[v] <= minted
    BY FlipConstants DEF FlipTypeOK, DocsGrow
  <2>2. CASE v = w
    BY <1>1, <2>1, <2>2 DEF headVars
  <2>3. CASE v # w
    BY <1>1, <2>1, <2>3 DEF headVars, DocsGrow
  <2> QED
    BY <2>2, <2>3
<1>4. DocsUnseen'
  BY <1>1 DEF DocsUnseen, headVars, FlipTypeOK
<1>5. ETagsAgree'
  <2>1. ~ServesETags => etag'[w] = 0
    BY DEF FetchStat, FetchRead, ETagsAgree, FlipTypeOK
  <2>2. ASSUME at'[w] = "ready", etag'[w] # 0, etag'[w] = ref'
        PROVE  anchor'[w] = ref'
    <3>1. CASE FetchStat(w)
      BY <1>1, <2>2, <3>1 DEF FetchStat, Move, FlipTypeOK, headVars
    <3>2. CASE FetchRead(w)
      BY <1>1, <2>2, <3>2 DEF FetchRead, Move, FlipTypeOK, headVars
    <3> QED
      BY <3>1, <3>2
  <2> QED
    BY <1>1, <2>1, <2>2 DEF ETagsAgree, Writers, headVars
<1>6. WindowsTracked'
  BY <1>1 DEF WindowsTracked, headVars, histVars
<1> QED
  BY <1>2, <1>3, <1>4, <1>5, <1>6

(* The end of a flip, landed or not, forgets what the writer had in hand   *)
(* and leaves the other writers what they rely on.                         *)
LEMMA OverInv ==
    ASSUME FlipInv, NEW w \in Writers, NEW g \in 0..minted,
           at[w] # "idle", at[w] # "stated",
           at'[w] \in {"idle", "ready"}, w \in Flippers => at'[w] = "idle",
           anchor'[w] \in {0, g}, etag'[w] = 0, doc'[w] = 0,
           \A v \in Writers \ {w} : /\ at'[v] = at[v] /\ anchor'[v] = anchor[v]
                                   /\ etag'[v] = etag[v] /\ doc'[v] = doc[v],
           UNCHANGED <<minted, line>>,
           ref' = ref \/ (at[w] = "checked" /\ ref' = doc[w])
    PROVE  LinesRooted' /\ DocsGrow' /\ DocsUnseen' /\ ETagsAgree'
<1> USE DEF FlipInv
<1>1. LinesRooted'
  BY DEF LinesRooted
<1>2. DocsGrow'
  <2> SUFFICES ASSUME NEW v \in Writers
               PROVE  /\ anchor'[v] <= minted' /\ etag'[v] <= minted'
                      /\ doc'[v] # 0 => line'[doc'[v]] = line'[anchor'[v]] \cup {doc'[v]}
    BY DEF DocsGrow
  <2>1. 0 <= minted /\ g <= minted
    BY FlipConstants DEF FlipTypeOK
  <2>2. CASE v = w
    BY <2>1, <2>2
  <2>3. CASE v # w
    BY <2>3 DEF DocsGrow
  <2> QED
    BY <2>2, <2>3
<1>3. DocsUnseen'
  <2> SUFFICES ASSUME NEW v \in Writers, at'[v] = "checked"
               PROVE  /\ ref' # doc'[v]
                      /\ \A u \in Writers : etag'[u] # doc'[v] /\ (u # v => doc'[u] # doc'[v])
    BY DEF DocsUnseen
  <2>1. v # w /\ at[v] = "checked" /\ doc'[v] = doc[v] /\ doc[v] # 0
    BY DEF FlipTypeOK
  <2>2. ref' # doc[v]
    BY <2>1 DEF DocsUnseen
  <2>3. ASSUME NEW u \in Writers PROVE etag'[u] # doc[v] /\ (u # v => doc'[u] # doc[v])
    BY <2>1 DEF DocsUnseen
  <2> QED
    BY <2>1, <2>2, <2>3
<1>4. ETagsAgree'
  <2>1. ~ServesETags => \A v \in Writers : etag'[v] = 0
    BY DEF ETagsAgree
  <2>2. ASSUME NEW v \in Flippers, at'[v] = "ready", etag'[v] # 0, etag'[v] = ref'
        PROVE  anchor'[v] = ref'
    <3>1. v # w /\ v \in Writers /\ at[v] = "ready" /\ etag'[v] = etag[v] /\ anchor'[v] = anchor[v]
      BY <2>2 DEF Writers
    <3>2. at[w] = "checked" => etag[v] # doc[w]
      BY <3>1 DEF DocsUnseen
    <3> QED
      BY <2>2, <3>1, <3>2 DEF ETagsAgree
  <2> QED
    BY <2>1, <2>2 DEF ETagsAgree
<1> QED
  BY <1>1, <1>2, <1>3, <1>4

(* What Over leaves behind.                                                *)
LEMMA OverEffect ==
    ASSUME FlipTypeOK, NEW w \in Writers, NEW g, Over(w, g)
    PROVE  /\ at'[w] \in {"idle", "ready"} /\ (w \in Flippers => at'[w] = "idle")
           /\ anchor'[w] \in {0, g} /\ etag'[w] = 0 /\ doc'[w] = 0
           /\ \A v \in Writers \ {w} : /\ at'[v] = at[v] /\ anchor'[v] = anchor[v]
                                     /\ etag'[v] = etag[v] /\ doc'[v] = doc[v]
<1>1. w \in Flippers => w \notin Sealers
  BY FlipConstants
<1>2. at'[w] \in {"idle", "ready"} /\ (w \in Flippers => at'[w] = "idle")
  BY <1>1 DEF Over, Move, FlipTypeOK
<1>3. anchor'[w] \in {0, g} /\ etag'[w] = 0 /\ doc'[w] = 0
  BY DEF Over, FlipTypeOK
<1>4. \A v \in Writers \ {w} : /\ at'[v] = at[v] /\ anchor'[v] = anchor[v]
                            /\ etag'[v] = etag[v] /\ doc'[v] = doc[v]
  BY DEF Over, Move, FlipTypeOK
<1> QED
  BY <1>2, <1>3, <1>4

(* A Put that lands: the window of every other flip under way holds it,    *)
(* and what it overwrites unseen, once acknowledged, is on record.         *)
LEMMA LandsInv ==
    ASSUME FlipInv, NEW w \in Writers, at[w] = "checked", Lands(w),
           UNCHANGED <<line, acked, dropped>>,
           at'[w] # "checked",
           \A v \in Writers \ {w} : at'[v] = at[v] /\ anchor'[v] = anchor[v]
    PROVE  WindowsTracked' /\ AckedSurvives'
<1> USE DEF FlipInv
<1>1. forsaken \subseteq forsaken' /\ ref' = doc[w]
  BY DEF Lands
<1>2. WindowsTracked'
  <2> SUFFICES ASSUME NEW v \in Writers, at'[v] = "checked"
               PROVE  /\ ref' \in {0} \cup line'[anchor'[v]] \cup win'[v]
                      /\ acked' \subseteq line'[anchor'[v]] \cup win'[v] \cup forsaken' \cup dropped'
    BY DEF WindowsTracked
  <2>1. v # w /\ at[v] = "checked" /\ anchor'[v] = anchor[v]
    OBVIOUS
  <2>2. win'[v] = win[v] \cup {doc[w]}
    BY <2>1 DEF Lands
  <2>3. acked \subseteq line[anchor[v]] \cup win[v] \cup forsaken \cup dropped
    BY <2>1 DEF WindowsTracked
  <2> QED
    BY <1>1, <2>1, <2>2, <2>3
<1>3. AckedSurvives'
  <2>1. line[doc[w]] = line[anchor[w]] \cup {doc[w]}
    BY DEF DocsGrow, FlipTypeOK
  <2>2. acked \subseteq line[anchor[w]] \cup win[w] \cup forsaken \cup dropped
    BY DEF WindowsTracked
  <2>3. forsaken' = forsaken \cup ((win[w] \cap acked) \ line[doc[w]])
    BY DEF Lands
  <2> QED
    BY <1>1, <2>1, <2>2, <2>3 DEF AckedSurvives
<1> QED
  BY <1>2, <1>3

(* The end of a flip that moved nothing.                                   *)
LEMMA UnmovedInv ==
    ASSUME FlipInv, FlipTypeOK', NEW w \in Writers,
           at'[w] # "checked",
           \A v \in Writers \ {w} : /\ at'[v] = at[v] /\ anchor'[v] = anchor[v]
                                   /\ win'[v] = win[v],
           UNCHANGED <<ref, line, acked, forsaken, dropped>>
    PROVE  WindowsTracked' /\ AckedSurvives'
BY DEF FlipInv, WindowsTracked, AckedSurvives

(* A check that passes opens a window in which nothing has landed yet.     *)
LEMMA CompareInv ==
    ASSUME FlipInv, FlipTypeOK', ReadFaults = FALSE, NEW w \in Writers, Compare(w)
    PROVE  FlipInv'
<1> USE DEF FlipInv
<1> DEFINE m == minted + 1
<1>0. minted \in Nat /\ ref \in 0..minted /\ anchor[w] \in 0..minted /\ doc[w] = 0 /\ m \in 1..MaxGen
  <2>1. MaxGen \in Nat /\ minted \in 0..MaxGen /\ minted < MaxGen /\ at[w] = "ready"
    BY FlipConstants DEF FlipTypeOK, Compare
  <2>2. doc[w] = 0 /\ ref \in 0..minted
    BY <2>1 DEF FlipTypeOK
  <2>3. anchor[w] \in 0..minted
    BY <2>1 DEF FlipTypeOK, DocsGrow
  <2> QED
    BY <2>1, <2>2, <2>3
<1>1. /\ at'[w] = "checked" /\ doc'[w] = m /\ win'[w] = {} /\ minted' = m
      /\ \A v \in Writers \ {w} : at'[v] = at[v] /\ doc'[v] = doc[v] /\ win'[v] = win[v]
      /\ line' = [line EXCEPT ![m] = line[anchor[w]] \cup {m}]
      /\ UNCHANGED <<ref, anchor, etag, acked, forsaken, dropped>>
  BY DEF Compare, Move, FlipTypeOK
<1>2. line'[m] = line[anchor[w]] \cup {m} /\ \A g \in 0..minted : line'[g] = line[g]
  BY <1>0, <1>1 DEF FlipTypeOK
<1>3. \A v \in Writers : anchor[v] \in 0..minted /\ doc[v] \in 0..minted /\ etag[v] \in 0..minted
  BY <1>0 DEF FlipTypeOK, DocsGrow
<1>4. LinesRooted'
  <2>1. line'[0] = {}
    BY <1>0, <1>2 DEF LinesRooted
  <2>2. ASSUME NEW g \in 1..m PROVE g \in line'[g]
    BY <1>0, <1>2 DEF LinesRooted
  <2> QED
    BY <1>1, <2>1, <2>2 DEF LinesRooted
<1>5. DocsGrow'
  <2> SUFFICES ASSUME NEW v \in Writers
               PROVE  /\ anchor'[v] <= minted' /\ etag'[v] <= minted'
                      /\ doc'[v] # 0 => line'[doc'[v]] = line'[anchor'[v]] \cup {doc'[v]}
    BY DEF DocsGrow
  <2>1. anchor'[v] <= minted' /\ etag'[v] <= minted'
    BY <1>0, <1>1, <1>3
  <2>2. CASE v = w
    BY <1>0, <1>1, <1>2, <2>1, <2>2
  <2>3. CASE v # w
    <3>1. doc'[v] = doc[v] /\ anchor'[v] = anchor[v]
      BY <1>1, <2>3
    <3>2. line'[doc[v]] = line[doc[v]] /\ line'[anchor[v]] = line[anchor[v]]
      BY <1>2, <1>3
    <3>3. doc[v] # 0 => line[doc[v]] = line[anchor[v]] \cup {doc[v]}
      BY DEF DocsGrow
    <3> QED
      BY <2>1, <3>1, <3>2, <3>3
  <2> QED
    BY <2>2, <2>3
<1>6. DocsUnseen'
  <2> SUFFICES ASSUME NEW v \in Writers, at'[v] = "checked"
               PROVE  /\ ref' # doc'[v]
                      /\ \A u \in Writers : etag'[u] # doc'[v] /\ (u # v => doc'[u] # doc'[v])
    BY DEF DocsUnseen
  <2>1. \A g \in 0..minted : g # m
    BY <1>0
  <2>2. CASE v = w
    BY <1>0, <1>1, <1>3, <2>1, <2>2
  <2>3. CASE v # w
    BY <1>1, <1>3, <2>1, <2>3 DEF DocsUnseen
  <2> QED
    BY <2>2, <2>3
<1>7. ETagsAgree'
  <2>1. \A v \in Writers : at'[v] = "ready" => at[v] = "ready"
    BY <1>1
  <2> QED
    BY <1>1, <2>1 DEF ETagsAgree, Writers
<1>8. WindowsTracked'
  <2> SUFFICES ASSUME NEW v \in Writers, at'[v] = "checked"
               PROVE  /\ ref' \in {0} \cup line'[anchor'[v]] \cup win'[v]
                      /\ acked' \subseteq line'[anchor'[v]] \cup win'[v] \cup forsaken' \cup dropped'
    BY DEF WindowsTracked
  <2>1. line'[anchor[v]] = line[anchor[v]]
    BY <1>2, <1>3
  <2>2. CASE v = w
    <3>1. ref = 0 \/ ref = anchor[w]
      BY CompareFindsAnchor
    <3>2. ref # 0 => ref \in line[ref]
      BY <1>0 DEF LinesRooted
    <3>3. acked \subseteq line[anchor[w]] \cup forsaken \cup dropped
      BY <3>1 DEF AckedSurvives, LinesRooted
    <3> QED
      BY <1>1, <2>1, <2>2, <3>1, <3>2, <3>3
  <2>3. CASE v # w
    BY <1>1, <2>1, <2>3 DEF WindowsTracked
  <2> QED
    BY <2>2, <2>3
<1>9. AckedSurvives'
  BY <1>0, <1>1, <1>2 DEF AckedSurvives
<1> QED
  BY <1>4, <1>5, <1>6, <1>7, <1>8, <1>9

(* A success read back: what is acknowledged is the head.                  *)
LEMMA VerifyOkInv ==
    ASSUME FlipInv, FlipTypeOK', NEW w \in Writers, VerifyOk(w)
    PROVE  FlipInv'
<1> USE DEF FlipInv
<1>1. /\ at[w] = "put" /\ ref = doc[w] /\ doc[w] # 0 /\ doc[w] \in 0..minted
      /\ acked' = acked \cup {doc[w]} /\ Over(w, doc[w])
      /\ UNCHANGED <<ref, minted, line, win, forsaken, dropped>>
  BY DEF VerifyOk, FlipTypeOK, headVars
<1>2. /\ at'[w] \in {"idle", "ready"} /\ (w \in Flippers => at'[w] = "idle")
      /\ anchor'[w] \in {0, doc[w]} /\ etag'[w] = 0 /\ doc'[w] = 0
      /\ \A v \in Writers \ {w} : /\ at'[v] = at[v] /\ anchor'[v] = anchor[v]
                                /\ etag'[v] = etag[v] /\ doc'[v] = doc[v]
  BY <1>1, OverEffect
<1>3. LinesRooted' /\ DocsGrow' /\ DocsUnseen' /\ ETagsAgree'
  BY <1>1, <1>2, OverInv
<1>4. WindowsTracked'
  <2> SUFFICES ASSUME NEW v \in Writers, at'[v] = "checked"
               PROVE  /\ ref' \in {0} \cup line'[anchor'[v]] \cup win'[v]
                      /\ acked' \subseteq line'[anchor'[v]] \cup win'[v] \cup forsaken' \cup dropped'
    BY DEF WindowsTracked
  <2>1. v # w /\ at[v] = "checked" /\ anchor'[v] = anchor[v]
    BY <1>2
  <2> QED
    BY <1>1, <2>1 DEF WindowsTracked
<1>5. AckedSurvives'
  BY <1>1 DEF AckedSurvives, LinesRooted
<1> QED
  BY <1>3, <1>4, <1>5

(* Every step preserves the invariant, when reads do not fail.             *)
LEMMA FlipInvStep ==
    ASSUME FlipInv, ReadFaults = FALSE, [FlipNext]_flipVars
    PROVE  FlipInv'
<1>0. FlipTypeOK /\ FlipTypeOK'
  BY FlipTypeStep DEF FlipInv
<1>g. \A w \in Writers : anchor[w] \in 0..minted
  BY FlipConstants DEF FlipInv, FlipTypeOK, DocsGrow
<1>1. ASSUME NEW w \in Writers, FetchStat(w) \/ FetchRead(w) PROVE FlipInv'
  BY <1>0, <1>1, FetchInv
<1>2. ASSUME NEW w \in Writers, CompareStale(w) PROVE FlipInv'
  <2>1. /\ at[w] = "ready" /\ Over(w, anchor[w])
        /\ UNCHANGED <<ref, minted, line, acked, win, forsaken, dropped>>
    BY <1>2 DEF CompareStale, headVars, histVars
  <2>2. LinesRooted' /\ DocsGrow' /\ DocsUnseen' /\ ETagsAgree'
    BY <1>0, <1>g, <2>1, OverEffect, OverInv
  <2>3. WindowsTracked' /\ AckedSurvives'
    BY <1>0, <2>1, OverEffect, UnmovedInv
  <2> QED
    BY <1>0, <2>2, <2>3 DEF FlipInv
<1>3. ASSUME NEW w \in Writers, Compare(w) PROVE FlipInv'
  BY <1>0, <1>3, CompareInv
<1>4. ASSUME NEW w \in Writers, Put(w) PROVE FlipInv'
  <2>1. /\ at[w] = "checked" /\ at' = [at EXCEPT ![w] = "put"] /\ Lands(w) /\ ref' = doc[w]
        /\ UNCHANGED <<minted, line, anchor, etag, doc, acked, dropped>>
    BY <1>4 DEF Put, Move, Lands
  <2>2. at'[w] = "put" /\ \A v \in Writers \ {w} : at'[v] = at[v]
    BY <1>0, <2>1 DEF FlipTypeOK
  <2>3. WindowsTracked' /\ AckedSurvives'
    BY <2>1, <2>2, LandsInv
  <2>4. LinesRooted' /\ DocsGrow'
    BY <2>1 DEF FlipInv, LinesRooted, DocsGrow
  <2>5. DocsUnseen'
    BY <2>1, <2>2 DEF FlipInv, DocsUnseen
  <2>6. ETagsAgree'
    BY <2>1, <2>2 DEF FlipInv, ETagsAgree, DocsUnseen, Writers
  <2> QED
    BY <1>0, <2>3, <2>4, <2>5, <2>6 DEF FlipInv
<1>5. ASSUME NEW w \in Writers, PutFails(w) PROVE FlipInv'
  <2>1. /\ at[w] = "checked" /\ Over(w, anchor[w])
        /\ UNCHANGED <<minted, line, acked, dropped>>
    BY <1>5 DEF PutFails
  <2>2. at'[w] # "checked" /\ \A v \in Writers \ {w} : at'[v] = at[v] /\ anchor'[v] = anchor[v]
    BY <1>0, <2>1, OverEffect
  <2>3. CASE Lands(w)
    <3>1. ref' = doc[w]
      BY <2>3 DEF Lands
    <3>2. LinesRooted' /\ DocsGrow' /\ DocsUnseen' /\ ETagsAgree'
      BY <1>0, <1>g, <2>1, <3>1, OverEffect, OverInv
    <3>3. WindowsTracked' /\ AckedSurvives'
      BY <2>1, <2>2, <2>3, LandsInv
    <3> QED
      BY <1>0, <3>2, <3>3 DEF FlipInv
  <2>4. CASE win' = [win EXCEPT ![w] = {}] /\ UNCHANGED <<ref, forsaken>>
    <3>1. \A v \in Writers \ {w} : win'[v] = win[v]
      BY <1>0, <2>4 DEF FlipTypeOK
    <3>2. LinesRooted' /\ DocsGrow' /\ DocsUnseen' /\ ETagsAgree'
      BY <1>0, <1>g, <2>1, <2>4, OverEffect, OverInv
    <3>3. WindowsTracked' /\ AckedSurvives'
      BY <1>0, <2>1, <2>2, <2>4, <3>1, UnmovedInv
    <3> QED
      BY <1>0, <3>2, <3>3 DEF FlipInv
  <2> QED
    BY <1>5, <2>3, <2>4 DEF PutFails
<1>6. ASSUME NEW w \in Writers, VerifyOk(w) PROVE FlipInv'
  BY <1>0, <1>6, VerifyOkInv
<1>7. ASSUME NEW w \in Writers, VerifyFails(w) PROVE FlipInv'
  <2>1. /\ at[w] = "put" /\ Over(w, anchor[w])
        /\ UNCHANGED <<ref, minted, line, acked, win, forsaken, dropped>>
    BY <1>7 DEF VerifyFails, headVars, histVars
  <2>2. LinesRooted' /\ DocsGrow' /\ DocsUnseen' /\ ETagsAgree'
    BY <1>0, <1>g, <2>1, OverEffect, OverInv
  <2>3. WindowsTracked' /\ AckedSurvives'
    BY <1>0, <2>1, OverEffect, UnmovedInv
  <2> QED
    BY <1>0, <2>2, <2>3 DEF FlipInv
<1>8. ASSUME NEW w \in Writers, Quit(w) PROVE FlipInv'
  <2>1. /\ at[w] # "idle" /\ at'[w] = "idle" /\ anchor'[w] = 0 /\ etag'[w] = 0 /\ doc'[w] = 0
        /\ \A v \in Writers \ {w} : /\ at'[v] = at[v] /\ anchor'[v] = anchor[v]
                                  /\ etag'[v] = etag[v] /\ doc'[v] = doc[v] /\ win'[v] = win[v]
        /\ UNCHANGED <<ref, minted, line, acked, forsaken, dropped>>
    BY <1>0, <1>8 DEF Quit, Move, FlipTypeOK, headVars
  <2>2. LinesRooted' /\ DocsGrow'
    <3>1. LinesRooted'
      BY <2>1 DEF FlipInv, LinesRooted
    <3>2. 0 <= minted
      BY <1>0, FlipConstants DEF FlipTypeOK
    <3>3. ASSUME NEW v \in Writers
          PROVE  /\ anchor'[v] <= minted' /\ etag'[v] <= minted'
                 /\ doc'[v] # 0 => line'[doc'[v]] = line'[anchor'[v]] \cup {doc'[v]}
      <4>1. CASE v = w
        BY <2>1, <3>2, <4>1
      <4>2. CASE v # w
        BY <2>1, <4>2 DEF FlipInv, DocsGrow
      <4> QED
        BY <4>1, <4>2
    <3> QED
      BY <3>1, <3>3 DEF DocsGrow
  <2>3. DocsUnseen'
    BY <1>0, <2>1 DEF FlipInv, FlipTypeOK, DocsUnseen
  <2>4. ETagsAgree'
    BY <2>1 DEF FlipInv, ETagsAgree, Writers
  <2>5. WindowsTracked' /\ AckedSurvives'
    BY <1>0, <2>1, UnmovedInv
  <2> QED
    BY <1>0, <2>2, <2>3, <2>4, <2>5 DEF FlipInv
<1>9. CASE DeleteBranch
  <2>1. /\ ref' = 0 /\ dropped' = dropped \cup line[ref]
        /\ UNCHANGED <<minted, line, at, anchor, etag, doc, acked, win, forsaken>>
    BY <1>9 DEF DeleteBranch
  <2>2. LinesRooted' /\ DocsGrow' /\ ETagsAgree'
    BY <2>1 DEF FlipInv, LinesRooted, DocsGrow, ETagsAgree
  <2>3. DocsUnseen'
    BY <1>0, <2>1 DEF FlipInv, FlipTypeOK, DocsUnseen
  <2>4. WindowsTracked'
    BY <2>1 DEF FlipInv, WindowsTracked
  <2>5. AckedSurvives'
    BY <2>1 DEF FlipInv, AckedSurvives
  <2> QED
    BY <1>0, <2>2, <2>3, <2>4, <2>5 DEF FlipInv
<1>10. CASE UNCHANGED flipVars
  BY <1>0, <1>10 DEF flipVars, FlipInv, LinesRooted, DocsGrow, DocsUnseen, ETagsAgree, WindowsTracked, AckedSurvives
<1> QED
  BY <1>1, <1>2, <1>3, <1>4, <1>5, <1>6, <1>7, <1>8, <1>9, <1>10 DEF FlipNext, Flip

(* The first states satisfy the invariant.                                 *)
LEMMA FlipInvInit == FlipInit => FlipInv
<1> SUFFICES ASSUME FlipInit PROVE FlipInv
  OBVIOUS
<1>1. FlipTypeOK /\ MaxGen \in Nat \ {0}
  BY FlipTypeInit, FlipConstants
<1>2. LinesRooted /\ DocsGrow
  BY <1>1 DEF FlipInit, LinesRooted, DocsGrow
<1>3. DocsUnseen /\ WindowsTracked
  BY DEF FlipInit, DocsUnseen, WindowsTracked
<1>4. ETagsAgree
  BY DEF FlipInit, ETagsAgree, Writers
<1>5. AckedSurvives
  BY <1>1 DEF FlipInit, AckedSurvives
<1> QED
  BY <1>1, <1>2, <1>3, <1>4, <1>5 DEF FlipInv

(* When reads do not fail, an acknowledged generation stays an ancestor of *)
(* the head, unless the branch is deleted or one other flip had checked    *)
(* the head before it landed: for every number and mix of writers, with    *)
(* Puts that fail, ETags or none.                                          *)
THEOREM AckedAlwaysSurvives == ReadFaults = FALSE /\ FlipSpec => []AckedSurvives
<1> SUFFICES ASSUME ReadFaults = FALSE PROVE FlipSpec => []AckedSurvives
  OBVIOUS
<1>1. FlipInit => FlipInv
  BY FlipInvInit
<1>2. FlipInv /\ [FlipNext]_flipVars => FlipInv'
  BY FlipInvStep
<1>3. FlipInv => AckedSurvives
  BY DEF FlipInv
<1> QED
  BY <1>1, <1>2, <1>3, PTL DEF FlipSpec

(* A Put that lands extends the head it replaces, or replaces a generation *)
(* that landed in the window of its own flip.                              *)
LEMMA LandsExtends ==
    ASSUME FlipInv, NEW w \in Writers, at[w] = "checked", Lands(w), ref # 0,
           UNCHANGED line
    PROVE  ref \in line[ref'] \/ (ref' = doc[w] /\ ref \in win[w])
<1>1. ref' = doc[w] /\ doc[w] # 0
  BY DEF Lands, FlipInv, FlipTypeOK
<1>2. line[doc[w]] = line[anchor[w]] \cup {doc[w]}
  BY <1>1 DEF FlipInv, DocsGrow
<1>3. ref \in line[anchor[w]] \cup win[w]
  BY DEF FlipInv, WindowsTracked
<1> QED
  BY <1>1, <1>2, <1>3

(* When reads do not fail, a head that moves extends what it held, except  *)
(* over a generation that landed in the window of the flip that moves it.  *)
THEOREM HeadAlwaysExtends == ReadFaults = FALSE /\ FlipSpec => HeadExtends
<1> SUFFICES ASSUME ReadFaults = FALSE PROVE FlipSpec => HeadExtends
  OBVIOUS
<1> DEFINE Extends ==
       ref' # ref /\ ref' # 0 /\ ref # 0 =>
          \/ ref \in line[ref']
          \/ \E w \in Writers : at[w] = "checked" /\ ref' = doc[w] /\ ref \in win[w]
<1>1. FlipInit => FlipInv
  BY FlipInvInit
<1>2. FlipInv /\ [FlipNext]_flipVars => FlipInv'
  BY FlipInvStep
<1>3. FlipInv /\ [FlipNext]_flipVars => [Extends]_flipVars
  <2> SUFFICES ASSUME FlipInv, FlipNext, ref' # ref, ref' # 0, ref # 0
               PROVE  Extends
    BY DEF flipVars
  <2>1. PICK w \in Writers : Put(w) \/ PutFails(w)
    BY DEF FlipNext, Flip, FetchStat, FetchRead, CompareStale, Compare, VerifyOk,
           VerifyFails, Quit, DeleteBranch, headVars
  <2>2. at[w] = "checked" /\ Lands(w) /\ UNCHANGED line
    BY <2>1 DEF Put, PutFails
  <2> QED
    BY <2>2, LandsExtends
<1>4. FlipSpec => [][Extends]_flipVars
  BY <1>1, <1>2, <1>3, PTL DEF FlipSpec
<1> QED
  BY <1>4 DEF HeadExtends
=============================================================================
