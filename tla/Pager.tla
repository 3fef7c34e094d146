-------------------------------- MODULE Pager --------------------------------
(***************************************************************************)
(* src/src/Pager: the cache of the pages of one file.  A Page object gets  *)
(* a buffer when a client pins it (getBuf) and keeps it while the          *)
(* reference count is positive.  In lazy mode a released page becomes      *)
(* "weak": it keeps its buffer until the pager is full and takes the       *)
(* buffer of the page at the head of the weak list.  Otherwise it gives    *)
(* the buffer back at once.                                                *)
(*                                                                         *)
(* Every BOOST_ASSERT ends the process.  Those a legal client can reach    *)
(* are values of `status'; that the others never fail is what WeakListExact *)
(* and QuotaExact say.                                                     *)
(***************************************************************************)
EXTENDS Integers, SequencesExt

CONSTANTS MaxId,      \* bound: the pages are 0..MaxId
          MaxMaxPages,\* bound: a pager is created with 1..MaxMaxPages buffers
          MaxRefs,    \* bound: pins one page may have at once
          HalfWord,   \* number of pages in 2^31 bytes: 2^19 in the program
          Contents,   \* what a page may hold
          ZeroPage,   \* the content ftruncate gives a new page
          Null        \* pBuf == nullptr

PageIDs == 0 .. MaxId

ASSUME BoundsAssumption ==
  /\ MaxId \in Nat /\ MaxMaxPages \in Nat \ {0} /\ MaxRefs \in Nat \ {0}

(* Ids whose byte offset wraps around 2^32 are not modelled: the file       *)
(* cannot grow past HalfWord - 1 pages (see SizeArg).                       *)
ASSUME WordAssumption == HalfWord \in Nat \ {0} /\ MaxId < 2 * HalfWord

ASSUME ContentsAssumption == ZeroPage \in Contents /\ Null \notin Contents

VARIABLES mapPages,      \* the Page objects that exist
          iBufRefCount,  \* [PageIDs -> Nat]
          pBuf,          \* [PageIDs -> Contents \cup {Null}]
          bDirty,        \* [PageIDs -> BOOLEAN]
          listWeakPages, \* sequence of page ids, the next victim first
          pagesCached,   \* buffers in use, as the pager counts them
          maxPages,      \* buffers allowed: constructor argument
          bLazyMode,     \* constructor argument
          maxValidPages, \* what getValidPageCount answers
          file,          \* [PageIDs -> Contents]: the file, ZeroPage past its end
          filePages,     \* length of the file in pages
          status         \* "open", or how the pager ended

vars == <<mapPages, iBufRefCount, pBuf, bDirty, listWeakPages, pagesCached,
          maxPages, bLazyMode, maxValidPages, file, filePages, status>>

config == <<maxPages, bLazyMode>>
cache  == <<pBuf, listWeakPages, pagesCached>>
fileVars == <<file, filePages>>

(* The values of status when the pager is not open.                         *)
(*   closed         the destructor ran to its end                           *)
(*   pinnedAtClose  ~Page found a pinned buffer, after the write backs      *)
(*   deadPerfMon    the destructor died using the deleted PagerPerfMon      *)
(*   noVictim       findVictim found the weak list empty                    *)
(*   shortRead      getBuf read less than a page                            *)
(*   killed         the process was stopped                                 *)
Ends == {"closed", "pinnedAtClose", "deadPerfMon", "noVictim", "shortRead", "killed"}

TypeOK ==
  /\ mapPages \in SUBSET PageIDs
  /\ iBufRefCount \in [PageIDs -> 0 .. MaxRefs]
  /\ pBuf \in [PageIDs -> Contents \cup {Null}]
  /\ bDirty \in [PageIDs -> BOOLEAN]
  /\ listWeakPages \in Seq(PageIDs)
  /\ pagesCached \in Int
  /\ maxPages \in 1 .. MaxMaxPages
  /\ bLazyMode \in BOOLEAN
  /\ maxValidPages \in Nat
  /\ file \in [PageIDs -> Contents]
  /\ filePages \in Nat
  /\ status \in Ends \cup {"open"}

-----------------------------------------------------------------------------
(* Helpers *)

Cached == {p \in PageIDs : pBuf[p] # Null}
Pinned == {p \in PageIDs : iBufRefCount[p] > 0}
Weak   == ToSet(listWeakPages)

(* (id + 1) * PAGER_PAGE_SIZE is unsigned and passed as int: from HalfWord  *)
(* pages on it is negative and asks for nothing.                            *)
SizeArg(p) == IF p + 1 < HalfWord THEN p + 1 ELSE p + 1 - 2 * HalfWord

(* FileUtils::makeSureAtLeastFileSize: the pages of the file afterwards.    *)
Extended(p) == IF filePages < SizeArg(p) THEN SizeArg(p) ELSE filePages

(* The file after the dirty pages of S are written.                         *)
WrittenBack(S) ==
  [p \in PageIDs |-> IF p \in S /\ bDirty[p] THEN pBuf[p] ELSE file[p]]

(* Process memory is gone: what every end of the pager has in common.       *)
Stop(end) ==
  /\ status' = end
  /\ mapPages' = {}
  /\ iBufRefCount' = [p \in PageIDs |-> 0]
  /\ pBuf' = [p \in PageIDs |-> Null]
  /\ bDirty' = [p \in PageIDs |-> FALSE]
  /\ listWeakPages' = <<>>
  /\ pagesCached' = 0
  /\ UNCHANGED <<config, maxValidPages>>

Init ==
  /\ mapPages = {}
  /\ iBufRefCount = [p \in PageIDs |-> 0]
  /\ pBuf = [p \in PageIDs |-> Null]
  /\ bDirty = [p \in PageIDs |-> FALSE]
  /\ listWeakPages = <<>>
  /\ pagesCached = 0
  /\ maxPages \in 1 .. MaxMaxPages
  /\ bLazyMode \in BOOLEAN
  /\ maxValidPages = 0
  /\ file = [p \in PageIDs |-> ZeroPage]
  /\ filePages = 0
  /\ status = "closed"

-----------------------------------------------------------------------------
(* Pager's constructor, getPage and destructor *)

(* Pager::Pager: nothing is cached; the length of the file is the number of *)
(* valid pages.                                                             *)
Open ==
  /\ status # "open"
  /\ status' = "open"
  /\ maxPages' \in 1 .. MaxMaxPages
  /\ bLazyMode' \in BOOLEAN
  /\ maxValidPages' = filePages
  /\ UNCHANGED <<mapPages, iBufRefCount, bDirty, cache, fileVars>>

(* Mutant: the new length of the file is not noted.                         *)
GetPageKeepsCount(p) ==
  /\ status = "open"
  /\ p \notin mapPages
  /\ mapPages' = mapPages \cup {p}
  /\ filePages' = Extended(p)
  /\ UNCHANGED <<iBufRefCount, bDirty, cache, config, maxValidPages, file, status>>

(* Pager::getPage for an id without a Page object; for one that has it,     *)
(* getPage changes nothing.                                                 *)
GetPage(p) ==
  /\ status = "open"
  /\ p \notin mapPages
  /\ mapPages' = mapPages \cup {p}
  /\ filePages' = Extended(p)
  /\ maxValidPages' = filePages'
  /\ UNCHANGED <<iBufRefCount, bDirty, cache, config, file, status>>

(* Pages are marked before they have a buffer only by                       *)
(* RecordManager::deleteRecord, which pins the page before anything else    *)
(* uses the pager as a whole.                                               *)
NoneLoading == \A p \in PageIDs : bDirty[p] => pBuf[p] # Null

WriteBackAll ==
  /\ status = "open"
  /\ NoneLoading
  /\ file' = WrittenBack(PageIDs)
  /\ bDirty' = [p \in PageIDs |-> FALSE]
  /\ UNCHANGED <<mapPages, iBufRefCount, cache, config, maxValidPages, filePages, status>>

(* ~Pager with a PagerPerfMon that, though deleted, still answers.          *)
Close ==
  /\ status = "open"
  /\ NoneLoading
  /\ file' = WrittenBack(PageIDs)
  /\ Stop(IF Pinned = {} THEN "closed" ELSE "pinnedAtClose")
  /\ UNCHANGED filePages

(* ~Pager deletes pPerfMon and then writes back, which counts the write in  *)
(* pPerfMon.  The other outcome of that use after free: the process dies    *)
(* in the count of page q, the dirty pages up to q being written.           *)
CloseDies(q) ==
  /\ status = "open"
  /\ NoneLoading
  /\ bDirty[q]
  /\ file' = WrittenBack(0 .. q)
  /\ Stop("deadPerfMon")
  /\ UNCHANGED filePages

(* The program is stopped from outside, perhaps in the middle of writing    *)
(* all pages back, the pages below q being done.                            *)
Kill(q) ==
  /\ status = "open"
  /\ q > 0 => NoneLoading
  /\ file' = WrittenBack(0 .. q - 1)
  /\ Stop("killed")
  /\ UNCHANGED filePages

-----------------------------------------------------------------------------
(* Page::getBuf *)

(* Mutant: a hit leaves the page in the weak list.                          *)
GetBufHitStaysWeak(p) ==
  /\ status = "open"
  /\ p \in mapPages /\ pBuf[p] # Null
  /\ iBufRefCount[p] < MaxRefs
  /\ iBufRefCount' = [iBufRefCount EXCEPT ![p] = @ + 1]
  /\ UNCHANGED <<mapPages, bDirty, cache, config, maxValidPages, fileVars, status>>

(* The page has its buffer already: one more reference, and the page is no  *)
(* longer weak.                                                             *)
GetBufHit(p) ==
  /\ status = "open"
  /\ p \in mapPages /\ pBuf[p] # Null
  /\ iBufRefCount[p] < MaxRefs
  /\ iBufRefCount' = [iBufRefCount EXCEPT ![p] = @ + 1]
  /\ listWeakPages' = IF bLazyMode /\ iBufRefCount[p] = 0
                        THEN RemoveFirst(listWeakPages, p) ELSE listWeakPages
  /\ UNCHANGED <<mapPages, pBuf, bDirty, pagesCached, config, maxValidPages, fileVars, status>>

Misses(p) == status = "open" /\ p \in mapPages /\ pBuf[p] = Null
Full == pagesCached >= maxPages

(* A buffer is left in the quota.                                           *)
GetBufLoad(p) ==
  /\ Misses(p) /\ ~Full
  /\ p < Extended(p)
  /\ filePages' = Extended(p)
  /\ pagesCached' = pagesCached + 1
  /\ pBuf' = [pBuf EXCEPT ![p] = file[p]]
  /\ iBufRefCount' = [iBufRefCount EXCEPT ![p] = 1]
  /\ UNCHANGED <<mapPages, bDirty, listWeakPages, config, maxValidPages, file, status>>

(* Mutant: the victim's buffer is not handed back to the quota.             *)
GetBufEvictKeepsQuota(p) ==
  /\ Misses(p) /\ Full /\ listWeakPages # <<>>
  /\ p < Extended(p)
  /\ LET v == Head(listWeakPages) IN
       /\ file' = WrittenBack({v})
       /\ pBuf' = [pBuf EXCEPT ![v] = Null, ![p] = file[p]]
       /\ bDirty' = [bDirty EXCEPT ![v] = FALSE]
       /\ listWeakPages' = RemoveFirst(listWeakPages, v)
  /\ pagesCached' = pagesCached + 1
  /\ filePages' = Extended(p)
  /\ iBufRefCount' = [iBufRefCount EXCEPT ![p] = 1]
  /\ UNCHANGED <<mapPages, config, maxValidPages, status>>

(* Mutant: the victim is freed without being written.                       *)
GetBufEvictForgets(p) ==
  /\ Misses(p) /\ Full /\ listWeakPages # <<>>
  /\ p < Extended(p)
  /\ LET v == Head(listWeakPages) IN
       /\ UNCHANGED file
       /\ pBuf' = [pBuf EXCEPT ![v] = Null, ![p] = file[p]]
       /\ bDirty' = [bDirty EXCEPT ![v] = FALSE]
       /\ listWeakPages' = RemoveFirst(listWeakPages, v)
  /\ pagesCached' = pagesCached - 1 + 1
  /\ filePages' = Extended(p)
  /\ iBufRefCount' = [iBufRefCount EXCEPT ![p] = 1]
  /\ UNCHANGED <<mapPages, config, maxValidPages, status>>

(* needOnePageQuota takes the buffer of the first weak page, which is       *)
(* written first if it is dirty (becomeVictim).                             *)
GetBufEvict(p) ==
  /\ Misses(p) /\ Full /\ listWeakPages # <<>>
  /\ p < Extended(p)
  /\ LET v == Head(listWeakPages) IN
       /\ file' = WrittenBack({v})
       /\ pBuf' = [pBuf EXCEPT ![v] = Null, ![p] = file[p]]
       /\ bDirty' = [bDirty EXCEPT ![v] = FALSE]
       /\ listWeakPages' = RemoveFirst(listWeakPages, v)
  /\ pagesCached' = pagesCached - 1 + 1
  /\ filePages' = Extended(p)
  /\ iBufRefCount' = [iBufRefCount EXCEPT ![p] = 1]
  /\ UNCHANGED <<mapPages, config, maxValidPages, status>>

(* findVictim asserts that there is a weak page.                            *)
GetBufNoVictim(p) ==
  /\ Misses(p) /\ Full /\ listWeakPages = <<>>
  /\ Stop("noVictim")
  /\ UNCHANGED fileVars

(* The page lies behind the end of a file that could not be extended.       *)
GetBufShortRead(p) ==
  /\ Misses(p) /\ (Full => listWeakPages # <<>>)
  /\ p >= Extended(p)
  /\ file' = IF Full THEN WrittenBack({Head(listWeakPages)}) ELSE file
  /\ filePages' = Extended(p)
  /\ Stop("shortRead")

-----------------------------------------------------------------------------
(* The rest of Page, and what clients do with the buffer *)

(* A client that holds the buffer writes into it.                           *)
Modify(p, c) ==
  /\ status = "open"
  /\ p \in Pinned
  /\ pBuf' = [pBuf EXCEPT ![p] = c]
  /\ UNCHANGED <<mapPages, iBufRefCount, bDirty, listWeakPages, pagesCached,
                 config, maxValidPages, fileVars, status>>

(* Page::markDirty, of a page with a buffer or without.                     *)
MarkDirty(p) ==
  /\ status = "open"
  /\ p \in mapPages
  /\ bDirty' = [bDirty EXCEPT ![p] = TRUE]
  /\ UNCHANGED <<mapPages, iBufRefCount, cache, config, maxValidPages, fileVars, status>>

(* Page::writeBack, called by a client: the dirty flag is not asked.        *)
WriteBack(p) ==
  /\ status = "open"
  /\ p \in mapPages /\ pBuf[p] # Null
  /\ file' = [file EXCEPT ![p] = pBuf[p]]
  /\ bDirty' = [bDirty EXCEPT ![p] = FALSE]
  /\ UNCHANGED <<mapPages, iBufRefCount, cache, config, maxValidPages, filePages, status>>

(* Mutant: a buffer nobody holds is released.                               *)
ReleaseBufUnheld(p) ==
  /\ status = "open"
  /\ iBufRefCount[p] # 1
  /\ iBufRefCount' = [iBufRefCount EXCEPT ![p] = @ - 1]
  /\ UNCHANGED <<mapPages, bDirty, cache, config, maxValidPages, fileVars, status>>

(* Mutant: any release makes the page weak.                                 *)
ReleaseBufSharedWeak(p) ==
  /\ status = "open"
  /\ iBufRefCount[p] > 1
  /\ iBufRefCount' = [iBufRefCount EXCEPT ![p] = @ - 1]
  /\ listWeakPages' = IF bLazyMode THEN Append(listWeakPages, p) ELSE listWeakPages
  /\ UNCHANGED <<mapPages, pBuf, bDirty, pagesCached, config, maxValidPages, fileVars, status>>

(* Page::releaseBuf, while other references remain.                         *)
ReleaseBufShared(p) ==
  /\ status = "open"
  /\ iBufRefCount[p] > 1
  /\ iBufRefCount' = [iBufRefCount EXCEPT ![p] = @ - 1]
  /\ UNCHANGED <<mapPages, bDirty, cache, config, maxValidPages, fileVars, status>>

(* Mutant: the released page is not listed as weak.                         *)
ReleaseBufUnlisted(p) ==
  /\ status = "open" /\ bLazyMode
  /\ iBufRefCount[p] = 1
  /\ iBufRefCount' = [iBufRefCount EXCEPT ![p] = 0]
  /\ UNCHANGED <<mapPages, bDirty, cache, config, maxValidPages, fileVars, status>>

(* The last reference goes, in lazy mode: the page becomes weak.            *)
ReleaseBufWeak(p) ==
  /\ status = "open" /\ bLazyMode
  /\ iBufRefCount[p] = 1
  /\ iBufRefCount' = [iBufRefCount EXCEPT ![p] = 0]
  /\ listWeakPages' = Append(listWeakPages, p)
  /\ UNCHANGED <<mapPages, pBuf, bDirty, pagesCached, config, maxValidPages, fileVars, status>>

(* The last reference goes, without lazy mode: becomeVictim.                *)
ReleaseBufFree(p) ==
  /\ status = "open" /\ ~bLazyMode
  /\ iBufRefCount[p] = 1
  /\ iBufRefCount' = [iBufRefCount EXCEPT ![p] = 0]
  /\ file' = WrittenBack({p})
  /\ pBuf' = [pBuf EXCEPT ![p] = Null]
  /\ bDirty' = [bDirty EXCEPT ![p] = FALSE]
  /\ pagesCached' = pagesCached - 1
  /\ UNCHANGED <<mapPages, listWeakPages, config, maxValidPages, filePages, status>>

Next ==
  \/ Open
  \/ WriteBackAll
  \/ Close
  \/ \E q \in 0 .. MaxId + 1 : Kill(q)
  \/ \E p \in PageIDs :
       \/ CloseDies(p)
       \/ GetPage(p)
       \/ GetBufHit(p)
       \/ GetBufLoad(p)
       \/ GetBufEvict(p)
       \/ GetBufNoVictim(p)
       \/ GetBufShortRead(p)
       \/ MarkDirty(p)
       \/ WriteBack(p)
       \/ ReleaseBufShared(p)
       \/ ReleaseBufWeak(p)
       \/ ReleaseBufFree(p)
       \/ \E c \in Contents : Modify(p, c)

Spec == Init /\ [][Next]_vars

-----------------------------------------------------------------------------
(* Properties *)

(* The weak list names each cached page that nobody pins, once, and nothing *)
(* else: the victim taken from it is never in use, and the assertion of     *)
(* noMoreWeakPage that the page is listed never fails.                      *)
WeakListExact ==
  /\ IsInjective(listWeakPages)
  /\ Weak = Cached \ Pinned

(* pagesCached counts the buffers that exist, and they never exceed the     *)
(* limit the pager was created with, whatever the order of hits, misses,    *)
(* evictions and releases.                                                  *)
QuotaExact ==
  /\ pagesCached = Cardinality(Cached)
  /\ pagesCached <= maxPages

(* getValidPageCount is the length of the file although getBuf extends the  *)
(* file as well as getPage, and a page whose buffer was read lies inside    *)
(* the file.                                                                *)
ValidCountExact ==
  status = "open" => /\ maxValidPages = filePages
                     /\ \A p \in Cached : p < filePages

(* The buffer of a page in use is neither taken away nor read again: only   *)
(* its own client's store changes it, until the last release.               *)
PinnedUndisturbed ==
  [][\A p \in PageIDs :
       p \in Pinned /\ p \in Pinned' /\ pBuf'[p] # pBuf[p]
         => \E c \in Contents : pBuf' = [pBuf EXCEPT ![p] = c]]_vars

(* The pager gives up for want of a buffer only when clients pin as many    *)
(* pages as it may cache.                                                   *)
NoVictimOnlyIfAllPinned ==
  [][status = "open" /\ status' = "noVictim"
       => Cached = Pinned /\ Cardinality(Pinned) = maxPages]_vars

(* The pages as clients see them, those marked, and the abstract status.    *)
StoreView == [p \in PageIDs |-> IF pBuf[p] = Null THEN file[p] ELSE pBuf[p]]
DirtyPages == {p \in PageIDs : bDirty[p]}
StoreStatus == IF status = "open" THEN "up"
               ELSE IF status \in {"closed", "pinnedAtClose"} THEN "closed" ELSE "crashed"

Store == INSTANCE PageStore WITH store <- StoreView, disk <- file, marked <- DirtyPages,
                                 pinned <- Pinned, status <- StoreStatus

(* The cache is invisible but for unmarked changes: pinned pages stay, what *)
(* is marked is in the file when its page has left the cache or the pager   *)
(* is closed, through every eviction, write back, crash and reopening.      *)
ImplementsPageStore == Store!Spec

(* test/TestPager.cpp, "All open dirty pages should be saved when pager     *)
(* closed": however ~Pager ends, the marked pages are in the file.          *)
DirtySavedAtClose ==
  [][status = "open" /\ status' \in {"closed", "pinnedAtClose", "deadPerfMon"}
       => \A p \in PageIDs : bDirty[p] => file'[p] = pBuf[p]]_vars
=============================================================================
