---------------------------- MODULE RecordManager ----------------------------
(***************************************************************************)
(* src/src/RecordManage/RecordManager.cpp on the file of one table or      *)
(* index.  Page 1 and every (DicSize + 1)th page after it are dictionary   *)
(* pages: one byte for each data page that follows, bit 0 "holds records   *)
(* of variable length", bit 1 "full".  A data page is divided into blocks. *)
(* Blocks of a fixed page have a header of 1 byte and a list links the     *)
(* free ones; blocks of a variable page have a header of 3 bytes and are   *)
(* searched from the start of the page.                                    *)
(*                                                                         *)
(* The program's PAGER_PAGE_SIZE is both PageSize and DicSize here.        *)
(***************************************************************************)
EXTENDS Integers, SequencesExt

CONSTANTS PageSize,   \* bytes in a page
          DicSize,    \* data pages one dictionary page describes
          MaxPage,    \* bound: the last page the file may get
          Lens,       \* the possible td->len: bytes of a fixed record
          FixedRecs,  \* records that embed gives the length td->len
          VarRecs,    \* records with a string longer than DEFAULT_VARCHAR_LEN
          VarLen,     \* [VarRecs -> Nat]: their length
          NoRec       \* content of a free block

ASSUME SizesAssumption ==
  /\ PageSize \in Nat /\ PageSize > 7
  /\ DicSize \in Nat \ {0}
  /\ MaxPage \in Nat \ {0}   \* a file has pages 0 and 1 from the start

ASSUME RecordsAssumption ==
  /\ \A n \in Lens : n \in Nat /\ n >= 4   \* a column of fixed length has 5 bytes
  /\ FixedRecs \cap VarRecs = {} /\ NoRec \notin FixedRecs \cup VarRecs
  /\ VarLen \in [VarRecs -> Nat]

Recs == FixedRecs \cup VarRecs

IsDicPage(p) == p % (DicSize + 1) = 1
DataPages == {p \in 2 .. MaxPage : ~IsDicPage(p)}

VARIABLES len,     \* td->len
          pages,   \* length of the file: getValidPageCount
          dic,     \* [DataPages -> [var : BOOLEAN, full : BOOLEAN]]
          data,    \* [DataPages -> [free, blocks]]: see FreshPage
          status   \* "alive", or how the process died

vars == <<len, pages, dic, data, status>>

Length(r) == IF r \in FixedRecs THEN len ELSE VarLen[r]

(* How the process can die: in the assertion of tryInsert on blocks that    *)
(* are too short, by using the null result of tryInsert, by writing outside *)
(* a dictionary page, or in a walk that leaves its page.                    *)
Ends == {"slackAssert", "nullLocation", "wildWrite", "strayed"}

-----------------------------------------------------------------------------
(* Blocks.  A page maps the offset of each block to its header and content; *)
(* `free' is the list that starts at the page's first two bytes.            *)

FreeBlock(n) == [used |-> FALSE, len |-> n, rec |-> NoRec]
UsedBlock(r) == [used |-> TRUE, len |-> Length(r), rec |-> r]

Put(f, k, v) == [x \in DOMAIN f \cup {k} |-> IF x = k THEN v ELSE f[x]]

NoPage == [free |-> <<>>, blocks |-> [b \in {} |-> FreeBlock(0)]]

(* What insert writes into a new page: one free block over all of it.       *)
FreshPage(fixed) ==
  IF fixed THEN [free |-> <<2>>, blocks |-> [b \in {2} |-> FreeBlock(PageSize - 7)]]
           ELSE [free |-> <<>>, blocks |-> [b \in {0} |-> FreeBlock(PageSize - 3)]]

(* tryInsert on a fixed page looks at the first free block only.            *)
HeadLen(d) == d.blocks[Head(d.free)].len
FixedFits(d, n)  == d.free # <<>> /\ HeadLen(d) >= n
FixedSlack(d, n) == d.free # <<>> /\ HeadLen(d) < n /\ Head(d.free) + 1 + n < PageSize

(* Mutants: the header of the block split off is counted with the link;     *)
(* a block of the right length stays in the list.                           *)
FixedInsertWideHeader(d, r) ==
  LET b == Head(d.free)
      n == Length(r)
      rest == b + 1 + n
  IN  IF HeadLen(d) = n
        THEN [free |-> Tail(d.free), blocks |-> Put(d.blocks, b, UsedBlock(r))]
        ELSE [free |-> <<rest>> \o Tail(d.free),
              blocks |-> Put(Put(d.blocks, b, UsedBlock(r)), rest, FreeBlock(HeadLen(d) - 5 - n))]

FixedInsertKeepsBlock(d, r) ==
  LET b == Head(d.free)
      n == Length(r)
      rest == b + 1 + n
  IN  IF HeadLen(d) = n
        THEN [free |-> d.free, blocks |-> Put(d.blocks, b, UsedBlock(r))]
        ELSE [free |-> <<rest>> \o Tail(d.free),
              blocks |-> Put(Put(d.blocks, b, UsedBlock(r)), rest, FreeBlock(HeadLen(d) - 1 - n))]

(* A block of the right length is taken, a longer one is split.             *)
FixedInsert(d, r) ==
  LET b == Head(d.free)
      n == Length(r)
      rest == b + 1 + n
  IN  IF HeadLen(d) = n
        THEN [free |-> Tail(d.free), blocks |-> Put(d.blocks, b, UsedBlock(r))]
        ELSE [free |-> <<rest>> \o Tail(d.free),
              blocks |-> Put(Put(d.blocks, b, UsedBlock(r)), rest, FreeBlock(HeadLen(d) - 1 - n))]

(* tryInsert on a variable page takes the first block of the same length or *)
(* with room for one more header.                                           *)
VarFits(d, n) ==
  {b \in DOMAIN d.blocks : /\ b + 3 < PageSize
                           /\ ~d.blocks[b].used
                           /\ d.blocks[b].len >= n + 3 \/ d.blocks[b].len = n}

(* Mutants: a block of the same length is split as well; the header of the  *)
(* block split off is not counted.                                          *)
VarInsertSplitsAll(d, r) ==
  LET n == Length(r)
      b == Min(VarFits(d, n))
      m == d.blocks[b].len
  IN  [free |-> <<>>,
       blocks |-> Put(Put(d.blocks, b, UsedBlock(r)), b + 3 + n, FreeBlock(m - n - 3))]

VarInsertFreeHeader(d, r) ==
  LET n == Length(r)
      b == Min(VarFits(d, n))
      m == d.blocks[b].len
      taken == Put(d.blocks, b, UsedBlock(r))
  IN  [free |-> <<>>,
       blocks |-> IF m >= n + 3 THEN Put(taken, b + 3 + n, FreeBlock(m - n)) ELSE taken]

VarInsert(d, r) ==
  LET n == Length(r)
      b == Min(VarFits(d, n))
      m == d.blocks[b].len
      taken == Put(d.blocks, b, UsedBlock(r))
  IN  [free |-> <<>>,
       blocks |-> IF m >= n + 3 THEN Put(taken, b + 3 + n, FreeBlock(m - n - 3)) ELSE taken]

Fits(d, r) == IF r \in FixedRecs THEN FixedFits(d, Length(r)) ELSE VarFits(d, Length(r)) # {}
Slack(d, r) == r \in FixedRecs /\ FixedSlack(d, Length(r))
Target(d, r) == IF r \in FixedRecs THEN Head(d.free) ELSE Min(VarFits(d, Length(r)))
TryInsert(d, r) == IF r \in FixedRecs THEN FixedInsert(d, r) ELSE VarInsert(d, r)

(* The blocks of B in the order they come to stand in the free list when    *)
(* select meets them in the order of the page: the last one first.          *)
Descending(B) ==
  CHOOSE s \in [1 .. Cardinality(B) -> B] : \A i, j \in DOMAIN s : i < j => s[i] > s[j]

(* Mutant: the freed blocks of a fixed page are not listed.                 *)
FreedUnlisted(d, fixed, B) ==
  [free   |-> d.free,
   blocks |-> [b \in DOMAIN d.blocks |->
                 IF b \in B THEN FreeBlock(IF fixed THEN len ELSE d.blocks[b].len)
                            ELSE d.blocks[b]]]

(* delOneRecord for each block of B: a block of a fixed page is pushed on   *)
(* the free list with length td->len.                                       *)
Freed(d, fixed, B) ==
  [free   |-> IF fixed THEN Descending(B) \o d.free ELSE <<>>,
   blocks |-> [b \in DOMAIN d.blocks |->
                 IF b \in B THEN FreeBlock(IF fixed THEN len ELSE d.blocks[b].len)
                            ELSE d.blocks[b]]]

-----------------------------------------------------------------------------
(* The file *)

File == [pages |-> pages, dic |-> dic, data |-> data]

(* Mutant: the next page is used although it is a dictionary page.          *)
NewPageAnywhere(n) == n

(* The page insert adds to a file of n pages: a dictionary page is skipped. *)
NewPage(n) == IF IsDicPage(n) THEN n + 1 ELSE n

(* Mutant: the kind of the new page is not noted.                           *)
NewEntryUnset(e, fixed) == e

(* The dictionary entry of a new page, e being what the file holds there.   *)
NewEntry(e, fixed) == IF fixed THEN e ELSE [var |-> TRUE, full |-> FALSE]

(* RecordManager::insert on file f: the file it leaves, the location it     *)
(* returns and how it ends.  The pages of the record's kind that are not    *)
(* marked full are tried in order; those without room get the mark.  When   *)
(* all fail the record goes to a new page, and the result of that attempt   *)
(* is used unseen.                                                          *)
InsertInto(f, r) ==
  LET fixed == r \in FixedRecs
      open == {p \in DataPages : p < f.pages /\ f.dic[p].var = ~fixed /\ ~f.dic[p].full}
      hits == {p \in open : Fits(f.data[p], r) \/ Slack(f.data[p], r)}
      new  == hits = {}
      page == IF new THEN NewPage(f.pages) ELSE Min(hits)
      d    == IF new THEN FreshPage(fixed) ELSE f.data[page]
      failed == {p \in open : new \/ p < page}
      end  == IF Fits(d, r) THEN "alive" ELSE IF Slack(d, r) THEN "slackAssert" ELSE "nullLocation"
  IN  [file |->
         [pages |-> IF new THEN page + 1 ELSE f.pages,
          dic   |-> [p \in DataPages |->
                       IF new /\ p = page THEN NewEntry(f.dic[p], fixed)
                       ELSE IF p \in failed THEN [f.dic[p] EXCEPT !.full = TRUE] ELSE f.dic[p]],
          data  |-> [p \in DataPages |->
                       IF p # page THEN f.data[p]
                       ELSE IF end = "alive" THEN TryInsert(d, r) ELSE d]],
       loc  |-> IF end = "alive" THEN <<page, Target(d, r)>> ELSE <<>>,
       end  |-> end]

(* Bound: a record that needs a page after MaxPage is not inserted.         *)
Bounded(f) == f.pages <= MaxPage + 1

Becomes(f) == pages' = f.pages /\ dic' = f.dic /\ data' = f.data

(* The live records, those select reads where it finds a used block.  A     *)
(* location is a page and the offset of a block.                            *)
Locations == DataPages \X (0 .. PageSize - 1)
Live == {l \in Locations : /\ l[2] \in DOMAIN data[l[1]].blocks
                           /\ data[l[1]].blocks[l[2]].used}

(* Where select goes on after the block at b.  The walk over a fixed page   *)
(* ends only with the page, 4 bytes after the last block.  Those bytes stay *)
(* 0: free blocks of length 0 to select, and the walk takes them one by     *)
(* one.  At the last two its header reaches over the end of the buffer;     *)
(* the bytes there are 0 or as good as, see Strays for what else.           *)
After(p, b) == b + (IF dic[p].var THEN 3 ELSE 1) + data[p].blocks[b].len

Init ==
  /\ len \in Lens
  /\ pages = 2
  /\ dic = [p \in DataPages |-> [var |-> FALSE, full |-> FALSE]]
  /\ data = [p \in DataPages |-> NoPage]
  /\ status = "alive"

(* RecordManager::insert, which returns or dies.                            *)
Insert(r) ==
  /\ status = "alive"
  /\ LET res == InsertInto(File, r) IN
       /\ Bounded(res.file)
       /\ Becomes(res.file)
       /\ status' = res.end
  /\ UNCHANGED len

(* RecordManager::deleteRecord.  What it does, one time in five, to the     *)
(* mark of a full page it does to a copy of the dictionary's byte.          *)
DeleteRecord(l) ==
  /\ status = "alive"
  /\ l \in Live
  /\ data' = [data EXCEPT ![l[1]] = Freed(@, ~dic[l[1]].var, {l[2]})]
  /\ UNCHANGED <<len, pages, dic, status>>

(* What del does to the pages when S are the records its checker selects.   *)
Deleted(S) == [p \in DataPages |-> Freed(data[p], ~dic[p].var, {l[2] : l \in {m \in S : m[1] = p}})]

(* del finds the entry of page p at offset p - 2 of the dictionary page.    *)
(* For a page of the first dictionary page it is the right one.  For the    *)
(* others it lies outside the buffer, which is read, and written if bit 1   *)
(* happens to be set.                                                       *)
Wild(p) == p - 2 >= DicSize
Unmarked(S) ==
  [p \in DataPages |-> IF ~Wild(p) /\ \E l \in S : l[1] = p THEN [dic[p] EXCEPT !.full = FALSE]
                                                            ELSE dic[p]]

(* RecordManager::del, of the records S.                                    *)
Del(S) ==
  /\ status = "alive"
  /\ S \subseteq Live
  /\ data' = Deleted(S)
  /\ dic' = Unmarked(S)
  /\ UNCHANGED <<len, pages, status>>

(* The same, until the write for a record w of S misses the buffer.         *)
DelWild(S, w) ==
  /\ status = "alive"
  /\ S \subseteq Live /\ w \in S /\ Wild(w[1])
  /\ \A l \in S : l[1] < w[1] \/ (l[1] = w[1] /\ l[2] <= w[2])
  /\ data' = Deleted(S)
  /\ dic' = Unmarked(S)
  /\ status' = "wildWrite"
  /\ UNCHANGED <<len, pages>>

(* The walk of select over a fixed page p takes bytes behind the buffer for *)
(* a length.  They are what malloc left there: a negative length sends the  *)
(* walk to bytes that are no header.  In del, which walks as well, S is     *)
(* what it has removed by then.                                             *)
Strays(S, p) ==
  /\ status = "alive"
  /\ p < pages /\ ~dic[p].var
  /\ S \subseteq Live /\ \A l \in S : l[1] <= p
  /\ data' = Deleted(S)
  /\ dic' = Unmarked(S)
  /\ status' = "strayed"
  /\ UNCHANGED <<len, pages>>

(* RecordManager::updateOneRecord and, for one record, update: in place if  *)
(* the old and the new record are fixed.                                    *)
UpdateInPlace(l, r) ==
  /\ status = "alive"
  /\ l \in Live
  /\ ~dic[l[1]].var /\ r \in FixedRecs
  /\ data' = [data EXCEPT ![l[1]].blocks[l[2]].rec = r]
  /\ UNCHANGED <<len, pages, dic, status>>

(* Otherwise the record is deleted and inserted anew.                       *)
UpdateMoves(l, r) ==
  /\ status = "alive"
  /\ l \in Live
  /\ dic[l[1]].var \/ r \in VarRecs
  /\ LET res == InsertInto([File EXCEPT !.data[l[1]] = Freed(@, ~dic[l[1]].var, {l[2]})], r) IN
       /\ Bounded(res.file)
       /\ Becomes(res.file)
       /\ status' = res.end
  /\ UNCHANGED len

(* RecordManager::updateRecordNoResize: for variable pages only.            *)
UpdateRecordNoResize(l, r) ==
  /\ status = "alive"
  /\ l \in Live
  /\ dic[l[1]].var
  /\ r \in VarRecs /\ Length(r) = data[l[1]].blocks[l[2]].len
  /\ data' = [data EXCEPT ![l[1]].blocks[l[2]].rec = r]
  /\ UNCHANGED <<len, pages, dic, status>>

Next ==
  \/ \E r \in Recs : Insert(r)
  \/ \E S \in SUBSET Live :
       \/ Del(S)
       \/ \E w \in S : DelWild(S, w)
       \/ \E p \in DataPages : Strays(S, p)
  \/ \E l \in Live :
       \/ DeleteRecord(l)
       \/ \E r \in Recs : \/ UpdateInPlace(l, r)
                          \/ UpdateMoves(l, r)
                          \/ UpdateRecordNoResize(l, r)

Spec == Init /\ [][Next]_vars

-----------------------------------------------------------------------------
(* Properties *)

Blocks == [used : BOOLEAN, len : 0 .. PageSize, rec : Recs \cup {NoRec}]

TypeOK ==
  /\ len \in Lens
  /\ pages \in 2 .. MaxPage + 1
  /\ dic \in [DataPages -> [var : BOOLEAN, full : BOOLEAN]]
  /\ DOMAIN data = DataPages
  /\ \A p \in DataPages :
       /\ DOMAIN data[p] = {"free", "blocks"}
       /\ data[p].free \in Seq(0 .. PageSize - 1)
       /\ DOMAIN data[p].blocks \subseteq 0 .. PageSize - 1
       /\ \A b \in DOMAIN data[p].blocks : data[p].blocks[b] \in Blocks
  /\ status \in Ends \cup {"alive"}

InFile == {p \in DataPages : p < pages}

(* The blocks of a page follow one another without gap or overlap, from its *)
(* first block to its end, whatever was split, freed and filled again: for  *)
(* a fixed page, an end four bytes before that of the page.                 *)
PagesTiled ==
  \A p \in InFile :
    LET B == DOMAIN data[p].blocks
        var == dic[p].var
        end == IF var THEN PageSize ELSE PageSize - 4
    IN  /\ (IF var THEN 0 ELSE 2) \in B
        /\ \A b \in B : /\ After(p, b) \in B \cup {end}
                        /\ \A c \in B : c <= b \/ c >= After(p, b)

(* The list of a fixed page links every free block once, and all but the    *)
(* last, the rest of the page, have exactly the length of a record: the     *)
(* page is full only if its first free block is too short.                  *)
FreeListExact ==
  \A p \in InFile :
    LET d == data[p] IN
      ~dic[p].var =>
        /\ IsInjective(d.free)
        /\ ToSet(d.free) = {b \in DOMAIN d.blocks : ~d.blocks[b].used}
        /\ \A i \in 1 .. Len(d.free) - 1 : d.blocks[d.free[i]].len = len

(* A page holds only records of the kind its dictionary entry says, so that *)
(* select, del and the updates read each with the right header.             *)
KindMatches ==
  \A p \in InFile, b \in 0 .. PageSize - 1 :
    b \in DOMAIN data[p].blocks /\ data[p].blocks[b].used
      => (data[p].blocks[b].rec \in VarRecs <=> dic[p].var)

(* Whether the rest of a fixed page, after as many records as it holds, is  *)
(* too short for a record and too long for the assertion.                   *)
BadLen(n) == (PageSize - 7) % (n + 1) \in (n - 3) .. (n - 1)

(* tryInsert's assertion on short blocks (line 41) fails only in tables     *)
(* whose record length divides the page badly, whatever was deleted and     *)
(* updated before.                                                          *)
SlackAssertOnlyIfBadLen == status = "slackAssert" => BadLen(len)

Records == [l \in Live |-> data[l[1]].blocks[l[2]].rec]

Store == INSTANCE RecordStore WITH records <- Records, alive <- (status = "alive")

(* Every record stays where insert said it is, with its content, until it   *)
(* is itself deleted or updated, and no location is given twice.            *)
ImplementsRecordStore == Store!Spec

(* An insert that returns has added its record at a location where none     *)
(* lived: it is neither lost, in a page that is never read, nor put over    *)
(* another one.                                                             *)
InsertAddsRecord ==
  [][\A r \in Recs : Insert(r) => status' # "alive" \/ \E l \in Locations : Store!Insert(l, r)]_vars

(* tryInsert, line 41: BOOST_ASSERT that a free block too short for the     *)
(* record reaches to the end of the page.                                   *)
ShortBlockOnlyAtEnd == status # "slackAssert"

(* Model.md, line 13: of a fixed page, bit 1 says 0 "has room", 1 "full".   *)
FullMeansFull ==
  \A p \in InFile : dic[p].full /\ ~dic[p].var => ~FixedFits(data[p], len)
=============================================================================
