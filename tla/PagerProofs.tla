----------------------------- MODULE PagerProofs -----------------------------
(***************************************************************************)
(* Proofs about Pager for every number of pages, buffers and references:   *)
(* the inductive invariant IInv, the invariants and action properties that *)
(* follow from it, and that Pager implements PageStore.                    *)
(***************************************************************************)
EXTENDS Pager, FiniteSetTheorems, TLAPS

(* Clients pin buffers, not pages without one.                              *)
PinsHaveBuffers == Pinned \subseteq Cached

(* Without lazy mode no page is ever weak.                                  *)
EagerNoWeak == ~bLazyMode => listWeakPages = <<>>

(* getPage extends the file for the page, so getBuf has nothing to extend.  *)
PagesCovered == status = "open" => \A p \in mapPages : SizeArg(p) <= filePages

(* The next pager on the file starts from nothing.                          *)
StoppedIsEmpty ==
  status # "open" => /\ mapPages = {}
                     /\ listWeakPages = <<>>
                     /\ pagesCached = 0
                     /\ \A p \in PageIDs : /\ iBufRefCount[p] = 0
                                           /\ pBuf[p] = Null
                                           /\ ~bDirty[p]

IInv == /\ TypeOK
        /\ WeakListExact
        /\ QuotaExact
        /\ ValidCountExact
        /\ PinsHaveBuffers
        /\ EagerNoWeak
        /\ PagesCovered
        /\ StoppedIsEmpty

USE BoundsAssumption, WordAssumption, ContentsAssumption

-----------------------------------------------------------------------------
(* Lemmas about the operators *)

(* noMoreWeakPage removes exactly the given page from a weak list that has  *)
(* it once, and keeps the order of the others.                              *)
LEMMA RemoveFirstRemoves ==
  ASSUME NEW S, NEW s \in Seq(S), NEW e \in ToSet(s), IsInjective(s)
  PROVE  /\ RemoveFirst(s, e) \in Seq(S)
         /\ IsInjective(RemoveFirst(s, e))
         /\ ToSet(RemoveFirst(s, e)) = ToSet(s) \ {e}
<1> DEFINE I == {i \in 1 .. Len(s) : s[i] = e}
<1>1. PICK k \in 1 .. Len(s) : s[k] = e /\ \A j \in 1 .. Len(s) : s[j] = e => j = k
  BY DEF ToSet, IsInjective
<1> DEFINE t == RemoveFirst(s, e)
<1>2. I = {k}
  BY <1>1
<1>3. Min(I) = k
  BY <1>2 DEF Min
<1>4. RemoveFirst(s, e) = SubSeq(s, 1, k - 1) \o SubSeq(s, k + 1, Len(s))
  BY <1>1, <1>2, <1>3 DEF RemoveFirst, RemoveAt, SelectInSeq
<1>5. /\ t \in Seq(S) /\ Len(t) = Len(s) - 1
      /\ \A i \in 1 .. Len(s) - 1 : t[i] = IF i < k THEN s[i] ELSE s[i + 1]
  <2> DEFINE l == SubSeq(s, 1, k - 1)
             r == SubSeq(s, k + 1, Len(s))
  <2>1. l \in Seq(S) /\ Len(l) = k - 1 /\ \A i \in 1 .. k - 1 : l[i] = s[i]
    BY <1>1
  <2>2. r \in Seq(S) /\ Len(r) = Len(s) - k /\ \A i \in 1 .. Len(s) - k : r[i] = s[k + i]
    BY <1>1
  <2>3. t = l \o r
    BY <1>4
  <2> HIDE DEF l, r, t
  <2>4. t \in Seq(S) /\ Len(t) = Len(s) - 1
    BY <1>1, <2>1, <2>2, <2>3
  <2>5. \A i \in 1 .. Len(s) - 1 : (l \o r)[i] = IF i < k THEN s[i] ELSE s[i + 1]
    <3>1. \A i \in 1 .. k - 1 : (l \o r)[i] = l[i]
      BY <1>1, <2>1, <2>2
    <3>2. \A i \in k .. Len(s) - 1 : (l \o r)[i] = r[i - (k - 1)]
      BY <1>1, <2>1, <2>2
    <3>3. \A i \in k .. Len(s) - 1 : i - (k - 1) \in 1 .. Len(s) - k /\ k + (i - (k - 1)) = i + 1
      BY <1>1
    <3> QED BY <1>1, <2>1, <2>2, <3>1, <3>2, <3>3, SMTT(30)
  <2> QED BY <2>3, <2>4, <2>5
<1> HIDE DEF I, t
<1>6. Len(s) - 1 \in Nat /\ DOMAIN t = 1 .. Len(s) - 1 /\ Len(s) \in Nat /\ DOMAIN s = 1 .. Len(s)
  BY <1>1, <1>5
<1>7. IsInjective(t)
  <2> SUFFICES ASSUME NEW i \in DOMAIN t, NEW j \in DOMAIN t, t[i] = t[j]
               PROVE  i = j
    BY DEF IsInjective
  <2> DEFINE at(n) == IF n < k THEN n ELSE n + 1
  <2>1. /\ at(i) \in DOMAIN s /\ t[i] = s[at(i)]
        /\ at(j) \in DOMAIN s /\ t[j] = s[at(j)]
    BY <1>1, <1>5, <1>6
  <2>2. at(i) = at(j)
    BY <2>1 DEF IsInjective
  <2> QED BY <1>1, <1>6, <2>2
<1>8. \A i \in DOMAIN t : t[i] \in ToSet(s) \ {e}
  BY <1>1, <1>5, <1>6 DEF ToSet
<1>9. ASSUME NEW j \in DOMAIN s, s[j] # e
       PROVE  \E i \in DOMAIN t : t[i] = s[j]
  <2>1. CASE j < k
    BY <1>1, <1>5, <1>6, <2>1
  <2>2. CASE j > k
    <3>1. j - 1 \in DOMAIN t /\ t[j - 1] = s[j]
      BY <1>1, <1>5, <1>6, <2>2
    <3> QED BY <3>1
  <2> QED BY <1>1, <1>5, <1>6, <1>9, <2>1, <2>2
<1>10. ToSet(t) = ToSet(s) \ {e}
  BY <1>8, <1>9 DEF ToSet
<1> QED BY <1>5, <1>7, <1>10 DEF t

(* The cached pages are finitely many.                                      *)
LEMMA CachedFinite == IsFiniteSet(Cached) /\ Cardinality(Cached) \in Nat
<1>1. IsFiniteSet(PageIDs)
  BY FS_Interval DEF PageIDs
<1>2. Cached \in SUBSET PageIDs
  BY DEF Cached
<1> QED BY <1>1, <1>2, FS_Subset, FS_CardinalityType

(* makeSureAtLeastFileSize never shortens the file, and asking again for    *)
(* what the file covers changes nothing.                                    *)
LEMMA ExtendedGrows ==
  ASSUME TypeOK, NEW p \in PageIDs
  PROVE  /\ SizeArg(p) \in Int
         /\ Extended(p) \in Nat
         /\ Extended(p) >= filePages
         /\ Extended(p) >= SizeArg(p)
         /\ SizeArg(p) <= filePages => Extended(p) = filePages
BY DEF TypeOK, PageIDs, SizeArg, Extended

(* Writing pages back puts contents into the file: every dirty page of S    *)
(* has a buffer.                                                            *)
LEMMA WrittenBackType ==
  ASSUME TypeOK, NEW S, \A p \in PageIDs : p \in S /\ bDirty[p] => pBuf[p] # Null
  PROVE  WrittenBack(S) \in [PageIDs -> Contents]
BY DEF TypeOK, WrittenBack

(* Every end of the pager leaves the invariant's empty state.               *)
LEMMA StopStep ==
  ASSUME IInv, NEW end \in Ends, Stop(end),
         file' \in [PageIDs -> Contents], filePages' \in Nat
  PROVE  IInv'
<1>1. TypeOK'
  <2>1. mapPages' = {} /\ listWeakPages' = <<>> /\ pagesCached' = 0 /\ status' = end
    BY DEF Stop
  <2>2. <<>> \in Seq(PageIDs)
    OBVIOUS
  <2> QED BY <2>1, <2>2 DEF IInv, TypeOK, Stop, config
<1>2. Cached' = {} /\ Pinned' = {} /\ Weak' = {} /\ status' # "open"
  BY DEF Stop, Cached, Pinned, Weak, Ends, ToSet
<1>3. Cardinality(Cached') = 0
  BY <1>2, FS_EmptySet
<1>4. WeakListExact'
  BY <1>2 DEF WeakListExact, Stop, IsInjective
<1>5. QuotaExact'
  BY <1>1, <1>3 DEF QuotaExact, Stop, TypeOK
<1>6. ValidCountExact' /\ PinsHaveBuffers' /\ PagesCovered'
  BY <1>2 DEF ValidCountExact, PinsHaveBuffers, PagesCovered
<1>7. EagerNoWeak' /\ StoppedIsEmpty'
  BY DEF EagerNoWeak, StoppedIsEmpty, Stop
<1> QED BY <1>1, <1>4, <1>5, <1>6, <1>7 DEF IInv

-----------------------------------------------------------------------------
(* One lemma for each action: it preserves IInv *)

(* The constructor: an empty cache on the file as it is.                    *)
LEMMA OpenStep == ASSUME IInv, Open PROVE IInv'
<1>1. TypeOK'
  BY DEF IInv, TypeOK, Open, cache, fileVars
<1>2. Cached' = Cached /\ Pinned' = Pinned /\ Weak' = Weak
  BY DEF Open, cache, Cached, Pinned, Weak
<1>3. WeakListExact'
  BY <1>2 DEF IInv, WeakListExact, Open, cache
<1>4. pagesCached = 0 /\ mapPages = {} /\ listWeakPages = <<>> /\ Cached = {}
  BY DEF IInv, StoppedIsEmpty, Open, Cached
<1>5. QuotaExact'
  BY <1>1, <1>2, <1>4 DEF IInv, QuotaExact, TypeOK, Open, cache
<1>6. ValidCountExact' /\ PinsHaveBuffers' /\ PagesCovered' /\ EagerNoWeak' /\ StoppedIsEmpty'
  BY <1>2, <1>4 DEF IInv, ValidCountExact, PinsHaveBuffers, PagesCovered, EagerNoWeak,
                    StoppedIsEmpty, Open, cache, fileVars
<1> QED BY <1>1, <1>3, <1>5, <1>6 DEF IInv

(* getPage: the file grows to the page, no buffer changes.                  *)
LEMMA GetPageStep == ASSUME IInv, NEW p \in PageIDs, GetPage(p) PROVE IInv'
<1> USE DEF GetPage, cache, config
<1>1. /\ Extended(p) \in Nat /\ Extended(p) >= filePages /\ Extended(p) >= SizeArg(p)
      /\ \A q \in PageIDs : SizeArg(q) \in Int
  BY ExtendedGrows DEF IInv
<1>2. TypeOK'
  BY <1>1 DEF IInv, TypeOK
<1>3. Cached' = Cached /\ Pinned' = Pinned /\ Weak' = Weak
  BY DEF Cached, Pinned, Weak
<1>4. WeakListExact' /\ QuotaExact' /\ PinsHaveBuffers' /\ EagerNoWeak' /\ StoppedIsEmpty'
  BY <1>3 DEF IInv, WeakListExact, QuotaExact, PinsHaveBuffers, EagerNoWeak, StoppedIsEmpty
<1>5. ValidCountExact'
  BY <1>1, <1>3, SMTT(30) DEF IInv, TypeOK, ValidCountExact, Cached, PageIDs
<1>6. PagesCovered'
  BY <1>1 DEF IInv, TypeOK, PagesCovered
<1> QED BY <1>2, <1>4, <1>5, <1>6 DEF IInv

(* WriteBackAll, Modify, MarkDirty, WriteBack and ReleaseBufShared change   *)
(* none of the sets and counts IInv relates.                                *)
LEMMA QuietStep ==
  ASSUME IInv, TypeOK', status = "open",
         Cached' = Cached, Pinned' = Pinned,
         UNCHANGED <<mapPages, listWeakPages, pagesCached, config, maxValidPages,
                     filePages, status>>
  PROVE  IInv'
<1>1. WeakListExact'
  BY DEF IInv, WeakListExact, Weak
<1>2. QuotaExact' /\ ValidCountExact' /\ PinsHaveBuffers'
  BY DEF IInv, QuotaExact, ValidCountExact, PinsHaveBuffers, config
<1>3. PagesCovered' /\ EagerNoWeak' /\ StoppedIsEmpty'
  BY DEF IInv, PagesCovered, EagerNoWeak, StoppedIsEmpty, config, SizeArg
<1> QED BY <1>1, <1>2, <1>3 DEF IInv

(* writeBackAll: clean buffers, nothing else changes.                       *)
LEMMA WriteBackAllStep == ASSUME IInv, WriteBackAll PROVE IInv'
<1>1. file' \in [PageIDs -> Contents]
  BY WrittenBackType DEF IInv, WriteBackAll, NoneLoading
<1>2. TypeOK'
  BY <1>1 DEF IInv, TypeOK, WriteBackAll, cache, config
<1>3. Cached' = Cached /\ Pinned' = Pinned
  BY DEF WriteBackAll, cache, Cached, Pinned
<1> QED BY <1>2, <1>3, QuietStep DEF WriteBackAll, cache

(* A store into a buffer the client holds.                                  *)
LEMMA ModifyStep ==
  ASSUME IInv, NEW p \in PageIDs, NEW c \in Contents, Modify(p, c) PROVE IInv'
<1>1. TypeOK'
  BY DEF IInv, TypeOK, Modify, config, fileVars
<1>2. Cached' = Cached
  BY DEF IInv, TypeOK, PinsHaveBuffers, Modify, Cached
<1>3. Pinned' = Pinned
  BY DEF Modify, Pinned
<1> QED BY <1>1, <1>2, <1>3, QuietStep DEF Modify, fileVars

(* markDirty.                                                               *)
LEMMA MarkDirtyStep == ASSUME IInv, NEW p \in PageIDs, MarkDirty(p) PROVE IInv'
<1>1. TypeOK'
  BY DEF IInv, TypeOK, MarkDirty, cache, config, fileVars
<1>2. Cached' = Cached /\ Pinned' = Pinned
  BY DEF MarkDirty, cache, Cached, Pinned
<1> QED BY <1>1, <1>2, QuietStep DEF MarkDirty, cache, fileVars

(* writeBack of one page.                                                   *)
LEMMA WriteBackStep == ASSUME IInv, NEW p \in PageIDs, WriteBack(p) PROVE IInv'
<1>1. TypeOK'
  BY DEF IInv, TypeOK, WriteBack, cache, config
<1>2. Cached' = Cached /\ Pinned' = Pinned
  BY DEF WriteBack, cache, Cached, Pinned
<1> QED BY <1>1, <1>2, QuietStep DEF WriteBack, cache

(* releaseBuf while another client holds the buffer.                        *)
LEMMA ReleaseBufSharedStep ==
  ASSUME IInv, NEW p \in PageIDs, ReleaseBufShared(p) PROVE IInv'
<1>1. TypeOK'
  BY DEF IInv, TypeOK, ReleaseBufShared, cache, config, fileVars
<1>2. Cached' = Cached /\ Pinned' = Pinned
  BY DEF IInv, TypeOK, ReleaseBufShared, cache, Cached, Pinned
<1> QED BY <1>1, <1>2, QuietStep DEF ReleaseBufShared, cache, fileVars

(* getBuf of a cached page: a weak page leaves the weak list.               *)
LEMMA GetBufHitStep == ASSUME IInv, NEW p \in PageIDs, GetBufHit(p) PROVE IInv'
<1> USE DEF GetBufHit, config, fileVars
<1>1. /\ p \in Cached
      /\ Cached' = Cached
      /\ Pinned' = Pinned \cup {p}
  BY DEF IInv, TypeOK, Cached, Pinned
<1>2. /\ listWeakPages' \in Seq(PageIDs)
      /\ IsInjective(listWeakPages')
      /\ Weak' = Weak \ {p}
  <2>1. CASE bLazyMode /\ iBufRefCount[p] = 0
    <3>1. p \in Weak
      BY <1>1, <2>1 DEF IInv, WeakListExact, Pinned
    <3> QED BY <2>1, <3>1, RemoveFirstRemoves DEF IInv, TypeOK, WeakListExact, Weak
  <2>2. CASE ~(bLazyMode /\ iBufRefCount[p] = 0)
    <3>1. p \notin Weak
      <4>1. CASE bLazyMode
        BY <2>2, <4>1 DEF IInv, TypeOK, WeakListExact, Pinned
      <4>2. CASE ~bLazyMode
        BY <4>2 DEF IInv, EagerNoWeak, Weak, ToSet
      <4> QED BY <4>1, <4>2
    <3> QED BY <2>2, <3>1 DEF IInv, TypeOK, WeakListExact, Weak
  <2> QED BY <2>1, <2>2
<1>3. TypeOK'
  BY <1>2 DEF IInv, TypeOK
<1>4. WeakListExact' /\ PinsHaveBuffers'
  BY <1>1, <1>2 DEF IInv, WeakListExact, PinsHaveBuffers
<1>5. QuotaExact' /\ ValidCountExact' /\ PagesCovered' /\ StoppedIsEmpty'
  BY <1>1 DEF IInv, QuotaExact, ValidCountExact, PagesCovered, StoppedIsEmpty, SizeArg
<1>6. EagerNoWeak'
  BY DEF IInv, EagerNoWeak
<1> QED BY <1>3, <1>4, <1>5, <1>6 DEF IInv

(* getBuf within the quota: one more buffer, pinned.                        *)
LEMMA GetBufLoadStep == ASSUME IInv, NEW p \in PageIDs, GetBufLoad(p) PROVE IInv'
<1> USE DEF GetBufLoad, Misses, config
<1>1. Extended(p) = filePages
  BY ExtendedGrows DEF IInv, PagesCovered
<1>2. TypeOK'
  BY <1>1 DEF IInv, TypeOK
<1>3. /\ p \notin Cached /\ p \notin Pinned
      /\ Cached' = Cached \cup {p}
      /\ Pinned' = Pinned \cup {p}
      /\ Weak' = Weak
  BY DEF IInv, TypeOK, PinsHaveBuffers, Cached, Pinned, Weak
<1>4. WeakListExact' /\ PinsHaveBuffers'
  BY <1>3 DEF IInv, WeakListExact, PinsHaveBuffers
<1>5. QuotaExact'
  <2>1. Cardinality(Cached') = Cardinality(Cached) + 1
    BY <1>3, CachedFinite, FS_AddElement
  <2> QED BY <2>1 DEF IInv, TypeOK, QuotaExact, Full
<1>6. ValidCountExact' /\ PagesCovered' /\ EagerNoWeak' /\ StoppedIsEmpty'
  BY <1>1, <1>3 DEF IInv, ValidCountExact, PagesCovered, EagerNoWeak, StoppedIsEmpty, SizeArg
<1> QED BY <1>2, <1>4, <1>5, <1>6 DEF IInv

(* The victim is a cached page that nobody pins.                            *)
LEMMA VictimIsWeak ==
  ASSUME IInv, listWeakPages # <<>>
  PROVE  /\ Head(listWeakPages) \in PageIDs
         /\ Head(listWeakPages) \in Cached \ Pinned
         /\ Head(listWeakPages) \in Weak
<1>1. Len(listWeakPages) >= 1 /\ Head(listWeakPages) = listWeakPages[1]
      /\ 1 \in DOMAIN listWeakPages
  BY DEF IInv, TypeOK
<1> QED BY <1>1 DEF IInv, TypeOK, WeakListExact, Weak, ToSet

(* getBuf at the quota: the head of the weak list gives up its buffer.      *)
LEMMA GetBufEvictStep == ASSUME IInv, NEW p \in PageIDs, GetBufEvict(p) PROVE IInv'
<1> DEFINE v == Head(listWeakPages)
<1> USE DEF GetBufEvict, Misses, config
<1>1. Extended(p) = filePages
  BY ExtendedGrows DEF IInv, PagesCovered
<1>2. v \in PageIDs /\ v \in Cached \ Pinned /\ v # p
  BY VictimIsWeak DEF Cached
<1>3. /\ listWeakPages' \in Seq(PageIDs)
      /\ IsInjective(listWeakPages')
      /\ Weak' = Weak \ {v}
  BY VictimIsWeak, RemoveFirstRemoves DEF IInv, TypeOK, WeakListExact, Weak
<1>4. file' \in [PageIDs -> Contents]
  BY <1>2, WrittenBackType DEF IInv, Cached
<1>5. TypeOK'
  <2>1. /\ pBuf' \in [PageIDs -> Contents \cup {Null}]
        /\ bDirty' \in [PageIDs -> BOOLEAN]
        /\ iBufRefCount' \in [PageIDs -> 0 .. MaxRefs]
    BY DEF IInv, TypeOK
  <2>2. pagesCached' \in Int /\ filePages' \in Nat
    BY <1>1 DEF IInv, TypeOK
  <2> QED BY <1>3, <1>4, <2>1, <2>2 DEF IInv, TypeOK
<1>6. /\ p \notin Cached /\ p \notin Pinned
      /\ Cached' = (Cached \ {v}) \cup {p}
      /\ Pinned' = Pinned \cup {p}
  BY <1>2 DEF IInv, TypeOK, PinsHaveBuffers, Cached, Pinned
<1>7. WeakListExact' /\ PinsHaveBuffers'
  BY <1>2, <1>3, <1>6 DEF IInv, WeakListExact, PinsHaveBuffers
<1>8. QuotaExact'
  <2>1. Cardinality(Cached \ {v}) = Cardinality(Cached) - 1 /\ IsFiniteSet(Cached \ {v})
    BY <1>2, CachedFinite, FS_RemoveElement
  <2>2. Cardinality(Cached') = Cardinality(Cached \ {v}) + 1
    BY <1>6, <2>1, FS_AddElement
  <2> QED BY <2>1, <2>2, CachedFinite DEF IInv, TypeOK, QuotaExact
<1>9. EagerNoWeak'
  BY DEF IInv, EagerNoWeak
<1>10. ValidCountExact' /\ PagesCovered' /\ StoppedIsEmpty'
  BY <1>1, <1>6 DEF IInv, ValidCountExact, PagesCovered, StoppedIsEmpty, SizeArg
<1> QED BY <1>5, <1>7, <1>8, <1>9, <1>10 DEF IInv

(* The actions that end the pager: what they write are contents.            *)
LEMMA EndStep ==
  ASSUME IInv,
         \/ Close
         \/ \E q \in PageIDs : CloseDies(q) \/ GetBufNoVictim(q) \/ GetBufShortRead(q)
         \/ \E q \in 0 .. MaxId + 1 : Kill(q)
  PROVE  IInv'
<1>1. TypeOK /\ filePages \in Nat /\ file \in [PageIDs -> Contents]
  BY DEF IInv, TypeOK
<1>2. ASSUME NEW S, S = {} \/ NoneLoading
      PROVE  WrittenBack(S) \in [PageIDs -> Contents]
  BY <1>1, <1>2, WrittenBackType DEF NoneLoading
<1>3. CASE Close
  BY <1>1, <1>2, <1>3, StopStep DEF Close, Ends
<1>4. ASSUME NEW q \in PageIDs, CloseDies(q) PROVE IInv'
  BY <1>1, <1>2, <1>4, StopStep DEF CloseDies, Ends
<1>5. ASSUME NEW q \in PageIDs, GetBufNoVictim(q) PROVE IInv'
  BY <1>1, <1>5, StopStep DEF GetBufNoVictim, Ends, fileVars
<1>6. ASSUME NEW q \in PageIDs, GetBufShortRead(q) PROVE IInv'
  <2>1. filePages' \in Nat
    BY <1>1, <1>6, ExtendedGrows DEF GetBufShortRead
  <2>2. file' \in [PageIDs -> Contents]
    <3>1. CASE Full
      <4>1. Head(listWeakPages) \in Cached
        BY <1>6, <3>1, VictimIsWeak DEF GetBufShortRead
      <4> QED BY <1>1, <1>6, <3>1, <4>1, WrittenBackType DEF GetBufShortRead, Cached
    <3>2. CASE ~Full
      BY <1>1, <1>6, <3>2 DEF GetBufShortRead
    <3> QED BY <3>1, <3>2
  <2> QED BY <1>6, <2>1, <2>2, StopStep DEF GetBufShortRead, Ends
<1>7. ASSUME NEW q \in 0 .. MaxId + 1, Kill(q) PROVE IInv'
  <2>1. 0 .. q - 1 = {} \/ NoneLoading
    BY <1>7 DEF Kill
  <2> QED BY <1>1, <1>2, <1>7, <2>1, StopStep DEF Kill, Ends
<1> QED BY <1>3, <1>4, <1>5, <1>6, <1>7

(* The last releaseBuf in lazy mode: the page becomes weak.                 *)
LEMMA ReleaseBufWeakStep ==
  ASSUME IInv, NEW p \in PageIDs, ReleaseBufWeak(p) PROVE IInv'
<1> USE DEF ReleaseBufWeak, config, fileVars
<1>1. /\ p \in Cached /\ p \in Pinned
      /\ Cached' = Cached
      /\ Pinned' = Pinned \ {p}
  BY DEF IInv, TypeOK, PinsHaveBuffers, Cached, Pinned
<1>2. listWeakPages \in Seq(PageIDs) /\ IsInjective(listWeakPages) /\ p \notin Weak
  BY <1>1 DEF IInv, TypeOK, WeakListExact
<1>3. /\ listWeakPages' \in Seq(PageIDs)
      /\ Len(listWeakPages') = Len(listWeakPages) + 1
      /\ listWeakPages'[Len(listWeakPages) + 1] = p
      /\ \A i \in 1 .. Len(listWeakPages) : listWeakPages'[i] = listWeakPages[i]
  BY <1>2
<1>4. IsInjective(listWeakPages')
  <2> SUFFICES ASSUME NEW i \in DOMAIN listWeakPages', NEW j \in DOMAIN listWeakPages',
                      listWeakPages'[i] = listWeakPages'[j]
               PROVE  i = j
    BY DEF IsInjective
  <2>1. \A n \in 1 .. Len(listWeakPages) : listWeakPages[n] # p
    BY <1>2 DEF Weak, ToSet
  <2> QED BY <1>2, <1>3, <2>1 DEF IsInjective
<1>5. Weak' = Weak \cup {p}
  <2>1. \A i \in DOMAIN listWeakPages' : listWeakPages'[i] \in Weak \cup {p}
    BY <1>2, <1>3 DEF Weak, ToSet
  <2>2. p \in Weak'
    BY <1>2, <1>3 DEF Weak, ToSet
  <2>3. \A i \in DOMAIN listWeakPages : listWeakPages[i] \in Weak'
    BY <1>2, <1>3 DEF Weak, ToSet
  <2> QED BY <2>1, <2>2, <2>3 DEF Weak, ToSet
<1>6. TypeOK'
  BY <1>3 DEF IInv, TypeOK
<1>7. WeakListExact' /\ PinsHaveBuffers'
  BY <1>1, <1>4, <1>5 DEF IInv, WeakListExact, PinsHaveBuffers
<1>8. QuotaExact' /\ ValidCountExact' /\ PagesCovered' /\ StoppedIsEmpty' /\ EagerNoWeak'
  BY <1>1 DEF IInv, QuotaExact, ValidCountExact, PagesCovered, StoppedIsEmpty, EagerNoWeak, SizeArg
<1> QED BY <1>6, <1>7, <1>8 DEF IInv

(* The last releaseBuf without lazy mode: the buffer is freed.              *)
LEMMA ReleaseBufFreeStep ==
  ASSUME IInv, NEW p \in PageIDs, ReleaseBufFree(p) PROVE IInv'
<1> USE DEF ReleaseBufFree, config
<1>1. /\ p \in Cached /\ p \in Pinned
      /\ Cached' = Cached \ {p}
      /\ Pinned' = Pinned \ {p}
      /\ Weak' = Weak /\ Weak = {}
  BY DEF IInv, TypeOK, PinsHaveBuffers, EagerNoWeak, Cached, Pinned, Weak, ToSet
<1>2. file' \in [PageIDs -> Contents]
  BY <1>1, WrittenBackType DEF IInv, Cached
<1>3. TypeOK'
  <2>1. /\ pBuf' \in [PageIDs -> Contents \cup {Null}]
        /\ bDirty' \in [PageIDs -> BOOLEAN]
        /\ iBufRefCount' \in [PageIDs -> 0 .. MaxRefs]
        /\ pagesCached' \in Int
    BY DEF IInv, TypeOK
  <2> QED BY <1>2, <2>1 DEF IInv, TypeOK
<1>4. WeakListExact' /\ PinsHaveBuffers'
  BY <1>1 DEF IInv, WeakListExact, PinsHaveBuffers
<1>5. QuotaExact'
  <2>1. Cardinality(Cached') = Cardinality(Cached) - 1
    BY <1>1, CachedFinite, FS_RemoveElement
  <2> QED BY <2>1, CachedFinite DEF IInv, TypeOK, QuotaExact
<1>6. ValidCountExact' /\ PagesCovered' /\ StoppedIsEmpty' /\ EagerNoWeak'
  BY <1>1 DEF IInv, ValidCountExact, PagesCovered, StoppedIsEmpty, EagerNoWeak, SizeArg
<1> QED BY <1>3, <1>4, <1>5, <1>6 DEF IInv

-----------------------------------------------------------------------------
(* The invariant and its consequences *)

(* A new file and no pager.                                                 *)
LEMMA InitIInv == Init => IInv
<1> SUFFICES ASSUME Init PROVE IInv
  OBVIOUS
<1>1. Cached = {} /\ Pinned = {} /\ Weak = {} /\ IsInjective(listWeakPages)
  BY DEF Init, Cached, Pinned, Weak, ToSet, IsInjective
<1>2. TypeOK
  <2>1. <<>> \in Seq(PageIDs)
    OBVIOUS
  <2> QED BY <2>1 DEF Init, TypeOK, Ends
<1>3. Cardinality(Cached) = 0
  BY <1>1, FS_EmptySet
<1> QED BY <1>1, <1>2, <1>3 DEF Init, IInv, WeakListExact, QuotaExact, ValidCountExact,
           PinsHaveBuffers, EagerNoWeak, PagesCovered, StoppedIsEmpty

(* Every method, and the end of the process, keeps the invariant.           *)
LEMMA NextIInv == IInv /\ [Next]_vars => IInv'
<1> SUFFICES ASSUME IInv, [Next]_vars PROVE IInv'
  OBVIOUS
<1>1. CASE UNCHANGED vars
  BY <1>1 DEF vars, IInv, TypeOK, WeakListExact, QuotaExact, ValidCountExact,
     PinsHaveBuffers, EagerNoWeak, PagesCovered, StoppedIsEmpty, Cached, Pinned, Weak, SizeArg
<1>2. CASE Open
  BY <1>2, OpenStep
<1>3. CASE WriteBackAll
  BY <1>3, WriteBackAllStep
<1>4. CASE Close
  BY <1>4, EndStep
<1>5. CASE \E q \in 0 .. MaxId + 1 : Kill(q)
  BY <1>5, EndStep
<1>6. ASSUME NEW p \in PageIDs, CloseDies(p) \/ GetBufNoVictim(p) \/ GetBufShortRead(p)
      PROVE  IInv'
  BY <1>6, EndStep
<1>7. ASSUME NEW p \in PageIDs, GetPage(p) PROVE IInv'
  BY <1>7, GetPageStep
<1>8. ASSUME NEW p \in PageIDs, GetBufHit(p) PROVE IInv'
  BY <1>8, GetBufHitStep
<1>9. ASSUME NEW p \in PageIDs, GetBufLoad(p) PROVE IInv'
  BY <1>9, GetBufLoadStep
<1>10. ASSUME NEW p \in PageIDs, GetBufEvict(p) PROVE IInv'
  BY <1>10, GetBufEvictStep
<1>11. ASSUME NEW p \in PageIDs, MarkDirty(p) PROVE IInv'
  BY <1>11, MarkDirtyStep
<1>12. ASSUME NEW p \in PageIDs, WriteBack(p) PROVE IInv'
  BY <1>12, WriteBackStep
<1>13. ASSUME NEW p \in PageIDs, ReleaseBufShared(p) PROVE IInv'
  BY <1>13, ReleaseBufSharedStep
<1>14. ASSUME NEW p \in PageIDs, ReleaseBufWeak(p) PROVE IInv'
  BY <1>14, ReleaseBufWeakStep
<1>15. ASSUME NEW p \in PageIDs, ReleaseBufFree(p) PROVE IInv'
  BY <1>15, ReleaseBufFreeStep
<1>16. ASSUME NEW p \in PageIDs, NEW c \in Contents, Modify(p, c) PROVE IInv'
  BY <1>16, ModifyStep
<1> QED BY <1>1, <1>2, <1>3, <1>4, <1>5, <1>6, <1>7, <1>8, <1>9, <1>10, <1>11, <1>12,
           <1>13, <1>14, <1>15, <1>16 DEF Next

(* IInv holds in every reachable state.                                     *)
THEOREM Invariance == Spec => []IInv
BY InitIInv, NextIInv, PTL DEF Spec

(* Every variable keeps its type; in particular no reference count becomes  *)
(* negative and no buffer holds anything but contents.                      *)
THEOREM TypeCorrect == Spec => []TypeOK
<1>1. IInv => TypeOK
  BY DEF IInv
<1> QED BY <1>1, Invariance, PTL

(* The weak list is exact: the assertions of noMoreWeakPage and of          *)
(* becomeVictim never fail, for any number of pages and buffers.            *)
THEOREM WeakListTheorem == Spec => []WeakListExact
<1>1. IInv => WeakListExact
  BY DEF IInv
<1> QED BY <1>1, Invariance, PTL

(* The pager never holds more buffers than maxPages and counts them         *)
(* exactly.                                                                 *)
THEOREM QuotaTheorem == Spec => []QuotaExact
<1>1. IInv => QuotaExact
  BY DEF IInv
<1> QED BY <1>1, Invariance, PTL

(* getValidPageCount tells the length of the file, and what is cached lies  *)
(* inside it.                                                               *)
THEOREM ValidCountTheorem == Spec => []ValidCountExact
<1>1. IInv => ValidCountExact
  BY DEF IInv
<1> QED BY <1>1, Invariance, PTL

-----------------------------------------------------------------------------
(* Action properties *)

(* What changes the buffer of a page that stays pinned is a client's store. *)
LEMMA PinnedStep ==
  ASSUME IInv, [Next]_vars
  PROVE  \A p \in PageIDs :
           p \in Pinned /\ p \in Pinned' /\ pBuf'[p] # pBuf[p]
             => \E c \in Contents : pBuf' = [pBuf EXCEPT ![p] = c]
<1> SUFFICES ASSUME NEW p \in PageIDs, p \in Pinned, p \in Pinned', pBuf'[p] # pBuf[p]
             PROVE  \E c \in Contents : pBuf' = [pBuf EXCEPT ![p] = c]
  OBVIOUS
<1>1. p \in Cached /\ pBuf \in [PageIDs -> Contents \cup {Null}]
  BY DEF IInv, PinsHaveBuffers, TypeOK
<1>2. ~ (Close \/ \E q \in 0 .. MaxId + 1 : Kill(q))
  BY DEF Close, Kill, Stop, Pinned
<1>3. ~ \E q \in PageIDs : CloseDies(q) \/ GetBufNoVictim(q) \/ GetBufShortRead(q)
  BY DEF CloseDies, GetBufNoVictim, GetBufShortRead, Stop, Pinned
<1>4. ASSUME NEW q \in PageIDs, GetBufLoad(q) PROVE FALSE
  BY <1>1, <1>4 DEF GetBufLoad, Misses, Cached
<1>5. ASSUME NEW q \in PageIDs, GetBufEvict(q) PROVE FALSE
  <2>1. Head(listWeakPages) \in PageIDs \ Pinned
    BY <1>5, VictimIsWeak DEF GetBufEvict
  <2>2. p # Head(listWeakPages) /\ p # q
    BY <1>1, <1>5, <2>1 DEF GetBufEvict, Misses, Cached
  <2> QED BY <1>1, <1>5, <2>2 DEF GetBufEvict
<1>6. ASSUME NEW q \in PageIDs, ReleaseBufFree(q) PROVE FALSE
  BY <1>1, <1>6 DEF ReleaseBufFree, IInv, TypeOK, Pinned
<1>7. ASSUME NEW q \in PageIDs, NEW c \in Contents, Modify(q, c)
      PROVE  \E d \in Contents : pBuf' = [pBuf EXCEPT ![p] = d]
  BY <1>1, <1>7 DEF Modify
<1> QED BY <1>2, <1>3, <1>4, <1>5, <1>6, <1>7 DEF Next, vars, Open, WriteBackAll, GetPage,
           GetBufHit, MarkDirty, WriteBack, ReleaseBufShared, ReleaseBufWeak, cache

(* A buffer in use is never taken away or read again.                       *)
THEOREM PinnedTheorem == Spec => PinnedUndisturbed
<1> DEFINE A == \A p \in PageIDs :
                  p \in Pinned /\ p \in Pinned' /\ pBuf'[p] # pBuf[p]
                    => \E c \in Contents : pBuf' = [pBuf EXCEPT ![p] = c]
<1>1. IInv /\ [Next]_vars => [A]_vars
  BY PinnedStep
<1>2. Spec => [][A]_vars
  BY <1>1, Invariance, PTL DEF Spec
<1> QED BY <1>2 DEF PinnedUndisturbed

(* The assertion of findVictim fails only when every buffer is pinned and   *)
(* there are as many as the pager may have.                                 *)
LEMMA NoVictimStep ==
  ASSUME IInv, [Next]_vars, status = "open", status' = "noVictim"
  PROVE  Cached = Pinned /\ Cardinality(Pinned) = maxPages
<1>1. \E p \in PageIDs : GetBufNoVictim(p)
  BY DEF Next, vars, Open, WriteBackAll, Close, CloseDies, Kill, GetPage, GetBufHit, GetBufLoad,
     GetBufEvict, GetBufShortRead, MarkDirty, WriteBack, ReleaseBufShared, ReleaseBufWeak,
     ReleaseBufFree, Modify, Stop
<1>2. Full /\ listWeakPages = <<>>
  BY <1>1 DEF GetBufNoVictim
<1>3. Cached = Pinned
  <2>1. Weak = {}
    BY <1>2 DEF Weak, ToSet
  <2> QED BY <2>1 DEF IInv, WeakListExact, PinsHaveBuffers
<1> QED BY <1>2, <1>3, CachedFinite DEF IInv, TypeOK, QuotaExact, Full

(* The pager runs out of buffers only by its clients' doing.                *)
THEOREM NoVictimTheorem == Spec => NoVictimOnlyIfAllPinned
<1> DEFINE A == status = "open" /\ status' = "noVictim"
                  => Cached = Pinned /\ Cardinality(Pinned) = maxPages
<1>1. IInv /\ [Next]_vars => [A]_vars
  BY NoVictimStep
<1>2. Spec => [][A]_vars
  BY <1>1, Invariance, PTL DEF Spec
<1> QED BY <1>2 DEF NoVictimOnlyIfAllPinned

-----------------------------------------------------------------------------
(* Refinement: how the steps of Pager change what PageStore sees *)

(* The mapping sends the initial states of Pager to those of PageStore.     *)
LEMMA InitMaps == Init => Store!Init
BY DEF Init, Store!Init, Pinned, StoreView, DirtyPages, StoreStatus

(* The store is up exactly while a pager is open.                           *)
LEMMA UpMaps == (status = "open" => StoreStatus = "up") /\ (status # "open" => StoreStatus # "up")
BY DEF StoreStatus

(* A page that leaves the cache settles: if it is dirty its buffer is       *)
(* written first, else the client's view falls back to the file.            *)
LEMMA SettleMaps ==
  ASSUME TypeOK, NEW v \in PageIDs, pBuf[v] # Null,
         file' = WrittenBack({v}),
         bDirty' = [bDirty EXCEPT ![v] = FALSE],
         pBuf'[v] = Null,
         \A p \in PageIDs \ {v} : (IF pBuf'[p] = Null THEN file[p] ELSE pBuf'[p]) = StoreView[p]
  PROVE  Store!Settle({v})
<1>1. \A p \in PageIDs : p \in {v} \cap DirtyPages <=> p = v /\ bDirty[v]
  BY DEF DirtyPages
<1>2. file' = [p \in PageIDs |-> IF p \in {v} \cap DirtyPages THEN StoreView[p] ELSE file[p]]
  BY <1>1 DEF WrittenBack, StoreView
<1>3. StoreView' = [p \in PageIDs |-> IF p \in {v} \ DirtyPages THEN file[p] ELSE StoreView[p]]
  BY DEF WrittenBack, StoreView, DirtyPages, TypeOK
<1>4. DirtyPages' = DirtyPages \ {v}
  BY DEF DirtyPages, TypeOK
<1> QED BY <1>2, <1>3, <1>4 DEF Store!Settle

(* A step the page store does not see.                                      *)
LEMMA SettleNothing ==
  ASSUME TypeOK, StoreView' = StoreView, DirtyPages' = DirtyPages, file' = file
  PROVE  Store!Settle({})
BY DEF Store!Settle, StoreView, DirtyPages, TypeOK

(* Stopping after the dirty pages of S are written: the client's view is    *)
(* the file.                                                                *)
LEMMA StopMaps ==
  ASSUME TypeOK, NEW S, NEW end \in Ends, Stop(end), file' = WrittenBack(S),
         \A p \in S : p \in PageIDs /\ bDirty[p] => pBuf[p] # Null
  PROVE  /\ StoreView' = file' /\ DirtyPages' = {} /\ Pinned' = {}
         /\ file' = [p \in PageIDs |-> IF p \in S \cap DirtyPages THEN StoreView[p] ELSE file[p]]
         /\ StoreStatus' = IF end \in {"closed", "pinnedAtClose"} THEN "closed" ELSE "crashed"
<1>1. file' = [p \in PageIDs |-> IF p \in S \cap DirtyPages THEN StoreView[p] ELSE file[p]]
  BY DEF WrittenBack, StoreView, DirtyPages
<1>2. file' = [p \in PageIDs |-> file'[p]]
  BY DEF WrittenBack
<1>3. StoreView' = file'
  BY <1>2 DEF Stop, StoreView
<1>4. DirtyPages' = {} /\ Pinned' = {}
  BY DEF Stop, DirtyPages, Pinned
<1> QED BY <1>1, <1>3, <1>4 DEF Stop, StoreStatus, Ends

(* The destructor that returns has written every dirty page.                *)
LEMMA CloseMaps == ASSUME IInv, Close PROVE Store!Shutdown
<1> DEFINE end == IF Pinned = {} THEN "closed" ELSE "pinnedAtClose"
<1>1. TypeOK /\ end \in Ends /\ Stop(end) /\ file' = WrittenBack(PageIDs) /\ status = "open"
      /\ \A p \in PageIDs : bDirty[p] => pBuf[p] # Null
  BY DEF IInv, Close, Ends, NoneLoading
<1> HIDE DEF end
<1>2. /\ StoreView' = file' /\ DirtyPages' = {} /\ Pinned' = {}
      /\ file' = [p \in PageIDs |-> IF p \in PageIDs \cap DirtyPages THEN StoreView[p] ELSE file[p]]
      /\ StoreStatus' = IF end \in {"closed", "pinnedAtClose"} THEN "closed" ELSE "crashed"
  BY <1>1, StopMaps
<1>3. StoreStatus = "up" /\ StoreStatus' = "closed"
  BY <1>1, <1>2 DEF StoreStatus, end
<1>4. StoreView' = [p \in PageIDs |-> IF p \in PageIDs \ DirtyPages THEN file[p] ELSE StoreView[p]]
  <2>1. \A p \in PageIDs : (p \in PageIDs \cap DirtyPages) <=> ~(p \in PageIDs \ DirtyPages)
    OBVIOUS
  <2> QED BY <1>2, <2>1
<1>5. DirtyPages' = DirtyPages \ PageIDs
  BY <1>2 DEF DirtyPages
<1> QED BY <1>2, <1>3, <1>4, <1>5 DEF Store!Shutdown, Store!Settle

(* Every other end is a crash that leaves some of the marked pages written. *)
LEMMA CrashMaps ==
  ASSUME IInv, status = "open",
         NEW S, NEW end \in Ends \ {"closed", "pinnedAtClose"}, Stop(end), file' = WrittenBack(S),
         \A p \in S : p \in PageIDs /\ bDirty[p] => pBuf[p] # Null
  PROVE  \E T \in SUBSET DirtyPages : Store!Die(T)
<1>1. /\ StoreView' = file' /\ DirtyPages' = {} /\ Pinned' = {}
      /\ file' = [p \in PageIDs |-> IF p \in S \cap DirtyPages THEN StoreView[p] ELSE file[p]]
      /\ StoreStatus' = "crashed"
  BY StopMaps DEF IInv
<1>2. StoreStatus = "up"
  BY DEF StoreStatus
<1>3. Store!Die(S \cap DirtyPages)
  BY <1>1, <1>2 DEF Store!Die
<1> QED BY <1>3, S \cap DirtyPages \in SUBSET DirtyPages

(* However the process ends, some of the dirty pages have been written.     *)
LEMMA EndMaps ==
  ASSUME IInv,
         \/ \E q \in PageIDs : CloseDies(q) \/ GetBufNoVictim(q) \/ GetBufShortRead(q)
         \/ \E q \in 0 .. MaxId + 1 : Kill(q)
  PROVE  \E T \in SUBSET DirtyPages : Store!Die(T)
<1>1. ASSUME NEW q \in PageIDs, CloseDies(q)
      PROVE  \E T \in SUBSET DirtyPages : Store!Die(T)
  BY <1>1, CrashMaps DEF CloseDies, NoneLoading, Ends
<1>2. file = WrittenBack({})
  BY DEF IInv, TypeOK, WrittenBack
<1>3. ASSUME NEW q \in PageIDs, GetBufNoVictim(q)
      PROVE  \E T \in SUBSET DirtyPages : Store!Die(T)
  BY <1>2, <1>3, CrashMaps DEF GetBufNoVictim, Misses, fileVars, Ends
<1>4. ASSUME NEW q \in PageIDs, GetBufShortRead(q)
      PROVE  \E T \in SUBSET DirtyPages : Store!Die(T)
  <2>1. CASE Full
    <3>1. Head(listWeakPages) \in Cached
      BY <1>4, <2>1, VictimIsWeak DEF GetBufShortRead
    <3> QED BY <1>4, <2>1, <3>1, CrashMaps DEF GetBufShortRead, Misses, Cached, Ends
  <2>2. CASE ~Full
    BY <1>2, <1>4, <2>2, CrashMaps DEF GetBufShortRead, Misses, Ends
  <2> QED BY <2>1, <2>2
<1>5. ASSUME NEW q \in 0 .. MaxId + 1, Kill(q)
      PROVE  \E T \in SUBSET DirtyPages : Store!Die(T)
  <2>1. \A p \in 0 .. q - 1 : p \in PageIDs /\ bDirty[p] => pBuf[p] # Null
    BY <1>5 DEF Kill, NoneLoading
  <2> QED BY <1>5, <2>1, CrashMaps DEF Kill, Ends
<1> QED BY <1>1, <1>3, <1>4, <1>5

-----------------------------------------------------------------------------
(* Refinement: the steps of an open pager *)

(* The constructor starts from what the file says.                          *)
LEMMA OpenMaps == ASSUME IInv, Open PROVE Store!Startup
BY UpMaps DEF Open, cache, fileVars, Store!Startup, StoreView, DirtyPages, StoreStatus, Pinned

(* Dirty pages written, whichever method writes them.                       *)
LEMMA FlushMaps ==
  ASSUME IInv, NEW S \in SUBSET PageIDs, status = "open", S \subseteq Cached,
         file' = [p \in PageIDs |-> IF p \in S THEN pBuf[p] ELSE file[p]],
         bDirty' = [p \in PageIDs |-> IF p \in S THEN FALSE ELSE bDirty[p]],
         UNCHANGED <<pBuf, iBufRefCount, status>>
  PROVE  Store!Flush(S)
<1>1. StoreView' = StoreView /\ DirtyPages' = DirtyPages \ S /\ Pinned' = Pinned
  BY DEF StoreView, DirtyPages, Pinned, Cached
<1>2. file' = [p \in PageIDs |-> IF p \in S THEN StoreView[p] ELSE file[p]]
  BY DEF StoreView, Cached
<1> QED BY <1>1, <1>2, UpMaps DEF Store!Flush, StoreStatus

(* writeBackAll.                                                            *)
LEMMA WriteBackAllMaps == ASSUME IInv, WriteBackAll PROVE \E S \in SUBSET PageIDs : Store!Flush(S)
<1>1. DirtyPages \in SUBSET PageIDs /\ DirtyPages \subseteq Cached
  BY DEF DirtyPages, Cached, WriteBackAll, NoneLoading
<1>2. file' = [p \in PageIDs |-> IF p \in DirtyPages THEN pBuf[p] ELSE file[p]]
  BY DEF WriteBackAll, WrittenBack, DirtyPages
<1>3. bDirty' = [p \in PageIDs |-> IF p \in DirtyPages THEN FALSE ELSE bDirty[p]]
  BY DEF WriteBackAll, DirtyPages, IInv, TypeOK
<1>4. Store!Flush(DirtyPages)
  BY <1>1, <1>2, <1>3, FlushMaps DEF WriteBackAll, cache
<1> QED BY <1>1, <1>4

(* writeBack of one page.                                                   *)
LEMMA WriteBackMaps ==
  ASSUME IInv, NEW p \in PageIDs, WriteBack(p)
  PROVE  \E S \in SUBSET PageIDs : Store!Flush(S)
<1>1. /\ file' = [q \in PageIDs |-> IF q \in {p} THEN pBuf[q] ELSE file[q]]
      /\ bDirty' = [q \in PageIDs |-> IF q \in {p} THEN FALSE ELSE bDirty[q]]
      /\ {p} \subseteq Cached
  BY DEF WriteBack, IInv, TypeOK, Cached
<1>2. Store!Flush({p})
  BY <1>1, FlushMaps DEF WriteBack, cache
<1> QED BY <1>2

(* A store of a client changes the view of its page only.                   *)
LEMMA ModifyMaps ==
  ASSUME IInv, NEW p \in PageIDs, NEW c \in Contents, Modify(p, c)
  PROVE  Store!Modify(p, c)
<1>1. /\ \A q \in PageIDs : pBuf'[q] = IF q = p THEN c ELSE pBuf[q]
      /\ file' = file /\ c # Null
  BY DEF Modify, fileVars, IInv, TypeOK
<1>2. StoreView' = [q \in PageIDs |-> IF q = p THEN c ELSE StoreView[q]]
  BY <1>1 DEF StoreView
<1>3. StoreView' = [StoreView EXCEPT ![p] = c]
  BY <1>2 DEF StoreView
<1> QED BY <1>3, UpMaps DEF Modify, fileVars, Store!Modify, DirtyPages, StoreStatus, Pinned

(* markDirty.                                                               *)
LEMMA MarkDirtyMaps == ASSUME IInv, NEW p \in PageIDs, MarkDirty(p) PROVE Store!Mark(p)
<1>1. DirtyPages' = DirtyPages \cup {p}
  BY DEF MarkDirty, DirtyPages, IInv, TypeOK
<1> QED BY <1>1, UpMaps DEF MarkDirty, cache, fileVars, Store!Mark, StoreView, StoreStatus, Pinned

(* Steps that PageStore does not see.                                       *)
LEMMA HiddenMaps ==
  ASSUME UNCHANGED <<pBuf, bDirty, iBufRefCount, file, status>>
  PROVE  UNCHANGED Store!vars
BY DEF Store!vars, StoreView, DirtyPages, StoreStatus, Pinned

(* releaseBuf while another client holds the buffer.                        *)
LEMMA ReleaseBufSharedMaps ==
  ASSUME IInv, NEW p \in PageIDs, ReleaseBufShared(p)
  PROVE  UNCHANGED Store!vars
<1>1. Pinned' = Pinned
  BY DEF ReleaseBufShared, Pinned, IInv, TypeOK
<1> QED BY <1>1 DEF ReleaseBufShared, cache, fileVars, Store!vars, StoreView, DirtyPages, StoreStatus

(* The last releaseBuf in lazy mode: the buffer stays.                      *)
LEMMA ReleaseBufWeakMaps ==
  ASSUME IInv, NEW p \in PageIDs, ReleaseBufWeak(p)
  PROVE  Store!Unpin(p)
<1>1. Pinned' = Pinned \ {p} /\ p \in Pinned
  BY DEF ReleaseBufWeak, Pinned, IInv, TypeOK
<1>2. /\ StoreView' = StoreView /\ DirtyPages' = DirtyPages /\ file' = file
      /\ StoreStatus' = StoreStatus /\ StoreStatus = "up"
  BY DEF ReleaseBufWeak, fileVars, StoreView, DirtyPages, StoreStatus
<1>3. Store!Settle({})
  BY <1>2, SettleNothing DEF IInv
<1> QED BY <1>1, <1>2, <1>3 DEF Store!Unpin

(* The last releaseBuf without lazy mode: the page settles.                 *)
LEMMA ReleaseBufFreeMaps ==
  ASSUME IInv, NEW p \in PageIDs, ReleaseBufFree(p)
  PROVE  Store!Unpin(p)
<1>1. Pinned' = Pinned \ {p} /\ p \in Pinned /\ p \in Cached
  BY DEF ReleaseBufFree, Pinned, IInv, TypeOK, PinsHaveBuffers
<1>2. StoreStatus' = StoreStatus /\ StoreStatus = "up"
  BY DEF ReleaseBufFree, StoreStatus
<1>3. /\ pBuf'[p] = Null
      /\ \A q \in PageIDs \ {p} : (IF pBuf'[q] = Null THEN file[q] ELSE pBuf'[q]) = StoreView[q]
  BY DEF ReleaseBufFree, StoreView, IInv, TypeOK
<1>4. Store!Settle({p})
  BY <1>1, <1>3, SettleMaps DEF ReleaseBufFree, IInv, Cached
<1> QED BY <1>1, <1>2, <1>4 DEF Store!Unpin

(* getBuf of a cached page.                                                 *)
LEMMA GetBufHitMaps ==
  ASSUME IInv, NEW p \in PageIDs, GetBufHit(p)
  PROVE  Store!Pin(p) \/ UNCHANGED Store!vars
<1>1. /\ StoreView' = StoreView /\ DirtyPages' = DirtyPages /\ file' = file
      /\ StoreStatus' = StoreStatus /\ StoreStatus = "up"
      /\ Pinned' = Pinned \cup {p}
  BY DEF GetBufHit, fileVars, StoreView, DirtyPages, StoreStatus, Pinned, IInv, TypeOK
<1>2. CASE p \in Pinned
  <2>1. Pinned' = Pinned
    BY <1>1, <1>2
  <2> QED BY <1>1, <2>1 DEF Store!vars
<1>3. CASE p \notin Pinned
  <2>1. Store!Settle({})
    BY <1>1, SettleNothing DEF IInv
  <2> QED BY <1>1, <1>3, <2>1 DEF Store!Pin
<1> QED BY <1>2, <1>3

(* getBuf that loads the page: the client sees the file.                    *)
LEMMA GetBufLoadMaps ==
  ASSUME IInv, NEW p \in PageIDs, GetBufLoad(p)
  PROVE  Store!Pin(p)
<1>1. p \notin Pinned /\ Pinned' = Pinned \cup {p}
  BY DEF GetBufLoad, Misses, Pinned, Cached, IInv, TypeOK, PinsHaveBuffers
<1>2. /\ DirtyPages' = DirtyPages /\ file' = file
      /\ StoreStatus' = StoreStatus /\ StoreStatus = "up"
  BY DEF GetBufLoad, Misses, DirtyPages, StoreStatus
<1>3. StoreView' = StoreView
  BY DEF GetBufLoad, Misses, StoreView, IInv, TypeOK
<1>4. Store!Settle({})
  BY <1>2, <1>3, SettleNothing DEF IInv
<1> QED BY <1>1, <1>2, <1>4 DEF Store!Pin

(* getBuf that evicts: the victim settles.                                  *)
LEMMA GetBufEvictMaps ==
  ASSUME IInv, NEW p \in PageIDs, GetBufEvict(p)
  PROVE  Store!Pin(p)
<1> DEFINE v == Head(listWeakPages)
<1>1. v \in PageIDs /\ v \in Cached /\ v \notin Pinned /\ v # p
  BY VictimIsWeak DEF GetBufEvict, Misses, Cached
<1>2. p \notin Pinned /\ Pinned' = Pinned \cup {p}
  BY DEF GetBufEvict, Misses, Pinned, Cached, IInv, TypeOK, PinsHaveBuffers
<1>3. StoreStatus' = StoreStatus /\ StoreStatus = "up"
  BY DEF GetBufEvict, Misses, StoreStatus
<1>4. /\ pBuf'[v] = Null
      /\ \A q \in PageIDs \ {v} : (IF pBuf'[q] = Null THEN file[q] ELSE pBuf'[q]) = StoreView[q]
  BY <1>1 DEF GetBufEvict, Misses, StoreView, IInv, TypeOK
<1>5. file' = WrittenBack({v}) /\ bDirty' = [bDirty EXCEPT ![v] = FALSE]
  BY DEF GetBufEvict
<1> HIDE DEF v
<1>6. Store!Settle({v})
  BY <1>1, <1>4, <1>5, SettleMaps DEF IInv, Cached
<1>7. {v} \in SUBSET (PageIDs \ Pinned')
  BY <1>1, <1>2
<1> QED BY <1>2, <1>3, <1>6, <1>7 DEF Store!Pin

(* Every step of Pager is a step of PageStore or leaves it unchanged.       *)
LEMMA NextMaps == IInv /\ [Next]_vars => [Store!Next]_(Store!vars)
<1> SUFFICES ASSUME IInv, [Next]_vars PROVE Store!Next \/ UNCHANGED Store!vars
  OBVIOUS
<1>1. CASE UNCHANGED vars
  BY <1>1, HiddenMaps DEF vars
<1>2. CASE Open
  BY <1>2, OpenMaps DEF Store!Next
<1>3. CASE WriteBackAll
  BY <1>3, WriteBackAllMaps DEF Store!Next
<1>4. CASE Close
  BY <1>4, CloseMaps DEF Store!Next
<1>5. CASE \/ \E q \in PageIDs : CloseDies(q) \/ GetBufNoVictim(q) \/ GetBufShortRead(q)
           \/ \E q \in 0 .. MaxId + 1 : Kill(q)
  BY <1>5, EndMaps DEF Store!Next
<1>6. ASSUME NEW p \in PageIDs, GetPage(p) PROVE UNCHANGED Store!vars
  BY <1>6, HiddenMaps DEF GetPage, cache
<1>7. ASSUME NEW p \in PageIDs, GetBufHit(p) PROVE Store!Next \/ UNCHANGED Store!vars
  BY <1>7, GetBufHitMaps DEF Store!Next
<1>8. ASSUME NEW p \in PageIDs, GetBufLoad(p) \/ GetBufEvict(p) PROVE Store!Next
  BY <1>8, GetBufLoadMaps, GetBufEvictMaps DEF Store!Next
<1>9. ASSUME NEW p \in PageIDs, MarkDirty(p) PROVE Store!Next
  BY <1>9, MarkDirtyMaps DEF Store!Next
<1>10. ASSUME NEW p \in PageIDs, WriteBack(p) PROVE Store!Next
  BY <1>10, WriteBackMaps DEF Store!Next
<1>11. ASSUME NEW p \in PageIDs, ReleaseBufShared(p) PROVE UNCHANGED Store!vars
  BY <1>11, ReleaseBufSharedMaps
<1>12. ASSUME NEW p \in PageIDs, ReleaseBufWeak(p) \/ ReleaseBufFree(p) PROVE Store!Next
  BY <1>12, ReleaseBufWeakMaps, ReleaseBufFreeMaps DEF Store!Next
<1>13. ASSUME NEW p \in PageIDs, NEW c \in Contents, Modify(p, c) PROVE Store!Next
  BY <1>13, ModifyMaps DEF Store!Next
<1> QED BY <1>1, <1>2, <1>3, <1>4, <1>5, <1>6, <1>7, <1>8, <1>9, <1>10, <1>11, <1>12, <1>13
        DEF Next

(* The cache of the code, with its weak list, quota, lazy and eager modes,  *)
(* crashes and reopening, promises what PageStore says: a marked change is  *)
(* never lost but by a crash, and a pinned page changes only by its client. *)
THEOREM Refinement == Spec => ImplementsPageStore
<1>1. Spec => [][Store!Next]_(Store!vars)
  BY NextMaps, Invariance, PTL DEF Spec
<1> QED BY InitMaps, <1>1, PTL DEF Spec, ImplementsPageStore, Store!Spec
=============================================================================
