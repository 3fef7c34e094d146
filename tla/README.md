# tinydbpp in TLA+

tinydbpp is a small relational database in C++: SQL statements on tables, each
kept in one file of 4096-byte pages, with B-trees as indexes.  These modules
model it from the page cache up to the statements and check that each layer keeps
what it promises to the one above, on small instances, and prove it for every size
and number.  Line numbers refer to the files under `src/src`.

## The system

One process, one thread.  What looks concurrent is the interleaving of nested
calls: several pins on pages of one file, callbacks during a traversal, an
index that calls the record manager that calls the pager.  A crash can come
between any two writes.

| Component | State | Operations | Talks to | Hard about it |
|---|---|---|---|---|
| `Pager`, `Page` (`Pager/`) | `Page` objects, buffers, reference counts, dirty flags, weak list, quota, length of the file | `getPage`, `getBuf`, `releaseBuf`, `markDirty`, `writeBack`, `writeBackAll`, constructor, destructor | the file; callers hold raw buffers | which page gives up its buffer; dirty pages on every way out of the cache; the count of buffers kept in three places; destruction and crashes |
| `PagerPerfMon` | counters | `inc...`, `report` | called by `Page` | lifetime inside `~Pager` |
| `FileUtils` | files and directories | sizes, extension, creation, deletion, listing | the file system | extension of a file by page number (32-bit sizes); deletion of files that are open |
| `RecordManager` | dictionary pages, data pages divided into blocks, free lists | `insert`, `del`, `deleteRecord`, `update`, `updateOneRecord`, `updateRecordNoResize`, `select`, `getRecord` | `Pager`; callbacks of its callers | reuse of blocks, full marks, dictionary pages in the middle of the file, records that do not fit |
| `BTree` (`BTree/BTree.h`) | nodes and data, both records of the index file; root location in page 0 | `insert`, `get`, `update`, `updateNoResize`, `remove`, `traverse` | `RecordManager` | splits that cascade, parent locations stored in children, data that moves, removal without rebalancing |
| `BTreePlus` | for each key a list of record locations | `insert`, `get`, `update`, `remove`, `traverse` | `BTree`, `RecordManager` | lists that go stale or outgrow a page |
| `TableDescription` | rows, which columns have an index | `insertInTable`, `updateItems`, `deleteAndCollect...`, `select...` | `RecordManager`, `BTreePlus` | row and index entries changed one by one; failures half way; stale entries; foreign keys |
| `TableManager` | name of the database, `table_map` of descriptions | `buildTable`, `dropTable`, `changeDB`, `getTableDescription`, index files | files | descriptions that outlive their files, files that outlive their tables |
| Statements, where clauses (`Parser/AST/Nodes.*`) | none between statements | `exec`, `getChecker`, the nested loop over the tables of a SELECT | `TableManager` | conditions that are dropped or applied to the wrong column |
| Lexer, parser | none | grammar | generated code | nothing the models reach |
| Command line, GUI | none | read, `exec`, print | the parser | pure input and output |

What makes each component correct:

- **Pager**: a buffer in use is never taken; the weak list is exactly what may
  be taken; the quota is exact; a marked change reaches the file before its
  buffer goes; after a crash every page in the file is some whole version.
- **RecordManager**: blocks tile their page; the free list is exact; a record
  stays where it was put, with its content, until it is deleted or updated; a
  location lives once; every page holds what its dictionary entry says.
- **BTree**: search and traversal agree; stored parents are right; no record of
  the file is leaked or referred to twice; leaves have one depth; the tree is a
  map from keys to data.
- **BTreePlus**: the list of a key is the set of its live records.
- **Tables**: every index in use has every row; a statement takes out and puts
  back exactly the rows it should; UNIQUE holds although indexes have stale
  entries, as long as the column keeps its own; a statement that has begun ends.
- **Catalog**: what memory says about tables and indexes agrees with the files; no
  index outlives its table.
- **Where clauses**: the rows selected are those that satisfy all conditions, and
  their columns have the right labels.

`PROJECT.json` lists the hazards, each at the line where it bites, with the
properties that would notice.

## Plan

In order of what everything else rests on:

1. done: `Pager`, with `PageStore` above it, refinement checked and proved.
2. done: `RecordManager`, with `RecordStore` above it, refinement checked and
   proved.
3. done: `BTree` on what `RecordStore` promises, with `KeyMap` above it,
   refinement checked and proved.
4. done: `TableIndex`: rows, their locations and the lists of `BTreePlus`, the
   statements that change them, with `TableStore` above, refinement checked and
   proved.
5. done: `WhereClause`: how SELECT is answered, against what its clause means; its
   invariants proved.
6. done: `Catalog`: databases, table files, index files, descriptions in memory,
   deaths in the middle of CREATE and DROP TABLE, restarts; its invariants proved.
7. left: composition, one record operation as its sequence of pager calls (pin,
   change, mark, unpin), with crashes between write backs.  The code has no log and
   no recovery, so what could be stated is what a crash may leave, not that it
   leaves anything usable.

Theorems: every invariant, action property and refinement that a passing run checks
is proved, see Proofs; what is left is liveness, which only TLC can check.

## Modules

| Module | Role |
|---|---|
| `PageStore` | abstract: an array of pages that survives its cache |
| `Pager` | the cache, one action per method and branch that changes state |
| `MCPager` | instance for TLC |
| `PagerProofs` | inductive invariant, invariants, action properties, refinement of `PageStore` |
| `RecordStore` | abstract: records at locations |
| `RecordManager` | dictionary, blocks, free lists of one file |
| `MCRecordManager` | instances for TLC |
| `RecordManagerProofs` | inductive invariant, invariants, action property, refinement of `RecordStore` |
| `KeyMap` | abstract: a map from keys to data |
| `BTree` | nodes and data as records of one index file |
| `MCBTree` | instances for TLC |
| `BTreeLemmas` | inductive invariant; searches, changes of an entry and splits in any tree |
| `BTreeProofs` | each operation keeps the invariant; invariants, refinement of `KeyMap` |
| `Places` | sets of numbers in order, lists without some of their elements |
| `TableStore` | abstract: a bag of rows, put and taken by statements |
| `TableIndex` | rows and indexes of one table, statements row by row |
| `MCTableIndex` | instances for TLC |
| `TableIndexProofs` | inductive invariant, invariants, action property, refinement of `TableStore` |
| `WhereClause` | a SELECT and its answer |
| `MCWhereClause` | the queries, tables and indexes for TLC |
| `WhereClauseProofs` | inductive invariant, invariants |
| `Catalog` | files, directories and descriptions |
| `MCCatalog` | instance for TLC |
| `CatalogProofs` | inductive invariant, invariants |
| `DataLemmas` | facts about numbers, sets and lists that several proofs use |

Each layer stands on the abstract specification of the one below instead of on
its details: `BTree` and `TableIndex` put records where `RecordStore` allows,
`TableIndex` takes an index for the map that `KeyMap` is, `Catalog` looks at files
only as existing or not.

A call that answers with an exception, or returns without changing state, is
not a step unless a statement in progress ends with it.  A `BOOST_ASSERT` that
legal calls can reach, a null dereference and an access outside a buffer are steps
that set `status`; after them the process is gone.  For `RecordManager`, `BTree`
and `TableIndex` that is the end of the behaviour, and a behaviour of
`WhereClause` is one query, so their configurations say `CHECK_DEADLOCK FALSE`.
`Pager` and `Catalog` may be opened again on the same files, so there deadlock is
checked.

### Pager

The variables carry the names of the fields (`mapPages`, `iBufRefCount`, `pBuf`,
`bDirty`, `listWeakPages`, `pagesCached`, `maxPages`, `bLazyMode`,
`maxValidPages`), and `file`, `filePages` are the file.  `getBuf` is five actions,
one per way through it: the page has a buffer (`GetBufHit`), the quota allows
one (`GetBufLoad`), the head of the weak list gives up its own
(`GetBufEvict`), there is no weak page (`GetBufNoVictim`), the page lies behind
the end of the file (`GetBufShortRead`).  `releaseBuf` is three
(`ReleaseBufShared`, `ReleaseBufWeak` in lazy mode, `ReleaseBufFree` otherwise).
`Modify` is what a client does to a buffer it holds.  `Open` and `Close` are
constructor and destructor; `Kill(q)` stops the process, in the middle of
`writeBackAll` for `q > 0`.

Details that matter: `SizeArg` keeps the conversion of a 32-bit unsigned size to
`int`, so that a file cannot grow past 2^31 bytes; the destructor deletes the
performance monitor before the write backs that use it, and the use after free
is modelled by both of its outcomes (`Close`, `CloseDies`).  The order of write
backs is that of the page ids (`std::map`).  Content of a page is one of a few
values: the pager never looks at it.

### RecordManager

`data[p]` maps the offset of each block to its header (used, length) and content,
and has the free list of a fixed page.  `dic[p]` are the two bits of the
page's dictionary entry.  `InsertInto` is all of `insert`: the pages of the
record's kind not marked full are tried in order, each failed one gets the mark,
then a new page is taken, skipping a dictionary page.  `UpdateMoves` deletes and
inserts as `updateOneRecord` does.  `Del` takes the set of records its checker
selects; `DelWild` is the same up to the first access outside the dictionary
buffer.  `select` changes nothing: its result is `Live`.  It goes from block to block
(`After`); in a fixed page it walks past the last one,
through the four bytes that `insert` leaves at the end of the page.  Those are 0, so it
takes each for the header of a free block of length 0, but the lengths of the last two lie
behind the buffer.  Buffers come from `malloc`, and the two bytes read are padding or another
chunk's header: taken as 0, the walk ends where it should; taken for a negative length,
it goes on where no header is, and `Strays` ends the model there, alone or in the middle of
a `del`.  `update` with a
callback is used by tests only, one record at a time, and is `UpdateInPlace` or
`UpdateMoves`.  Record bytes are values with a length.  `PAGER_PAGE_SIZE` is split
into `PageSize` (bytes of a page) and `DicSize` (entries of a dictionary page), so
that the second dictionary page comes within a few pages instead of 4096.

`Freed` takes the set of the blocks freed in one page at once.  The code frees them
from the front and puts each at the head of the free list, so the list begins with
them in descending order (`Descending`), before what it had.

The random decision of `deleteRecord` (one time in five) only concerns a local
copy of the dictionary byte, so it does not appear.

### BTree

`heap` maps locations to records: free, data, or a node with its keys, children
and the stored location of its parent.  `root` is the root location of page 0.
`SplitNode` is `Node::splitNode` with all it calls, up to a new root: a function over
the path from the root to the leaf, as a node is split after its child, `SplitBelow` a
parent or `SplitRoot`, the two branches of the code; for a moved
inner node it tells the children (`updateParentLoc`).  `insertDataFrom` is one
action, as nothing can come between.  `deleteNode` is four actions: the leaf keeps
entries; the last entry of a root leaf; the leaf is empty and its parent can do
without it; it cannot, and the process dies in `BOOST_ASSERT(false)`.

The record manager below is what `RecordStore` promises: a new record lies where
no other lives.  Where exactly is a parameter (`DataPlace`, `NodePlace`): the
tree only compares locations.  `Room` bounds the file: an insertion is made while
there is a free location for its data, for a node on each level and for a new root.
An update frees the old block first and may get it
back or not; both are tried (`Places`).  Sizes of blocks are left out:
nodes have one size and are written in place.

`TraverseMoves` is a traversal whose callback changes data: `traverseLeafNode`
drops the new location (`BTree/BTree.h:744`), so the leaf refers to a freed record
and the tree is "dangling".  `RemoveDies` is the `BOOST_ASSERT(false)` of
`deleteNode` (`BTree/BTree.h:681`).  Both are ends of the model that only calls
from tests reach: `BTreePlus` neither changes data in a traversal nor removes a key.

### TableIndex

`heap[l]` is the block at location `l`, in use or not, with the row read there;
`index[c]` maps each value to its list (`BTreePlus`); `files` are the columns with
an index file, `flag` is `col_has_index`.  Freeing a block leaves its row to be
read, except for the first column (`FreedRow`: the length and the free list
overwrite its four bytes and spare its null byte).  The junk there is supposed to
differ from the values of queries.  So the first column is an int and is not named
gender: of a varchar its length would be overwritten, and `read`
(`RecordManage/TableManager.cpp:38`) might end the process or find the other columns elsewhere.

`Freeing` is the loop that reads the blocks of a list and frees those that meet the
clause, one by one, in closed form.  `Met` are the blocks freed in the end.  A list
with stale entries may have a block twice; at its second place (`Again`) the block
is read after it was freed at the first, with junk in its first column, and if it
meets the clause even so it is freed twice.  The loop changes only blocks that it
frees, so every other place of the list is read as it was before the loop.  `SelectUseIndex` is a set,
as its callers ask only whether it is empty.  `CreateIndex` appends to each list
all locations of a value at once, in the order of the scan.

INSERT is `BeginInsert` and then one step a row, `PutNew` or `RefuseNew`;
UPDATE is `BeginUpdate`, which takes all rows out, and then `PutChanged`,
`PutBackup` or `DoubleFault` a row, as `updateItems` does.  `Verdict` is the loop
of checks of `insertInTable`; `CheckKills` is its null pointer, for a row of INSERT, a
changed row or an old one that is put back.  `Delete` and `BeginUpdate` choose between
`TakeItems` (`deleteAndCollectItems`, every index is told) and `TakeUseIndex`
(`deleteAndCollectUseIndex`, only the one used is told).  `CreateIndex`,
`DropIndex` and `Reopen` are what statements and restarts do to the flags: DROP
INDEX looks for the file in the wrong directory, so the file stays and is an index
again after a restart.  `ParentChanges` stands for statements on the table that
foreign keys refer to; it is supposed to have its index on `id`.

Ends of the process: `noParent` (a foreign key to no table), `setNull`
(`BOOST_ASSERT(0)` in `toString`), `listFull` (a list outgrows a page), `keyNotFound`
(`KeyNotFound` is no `runtime_error`, nothing catches it), `doubleFree`.  A
`DoubleFault` is caught and answered, with the rest of the rows lost.

The abstract `TableStore` knows rows only.  A DELETE takes out rows that meet its
clause and no others: all of them as long as no index was dropped; after a drop, perhaps
fewer, as the index found again misses what came in between.  `ImplementsTableStore`
says that each step is one of the table's; `TakesByClause` ties a statement to its own
clause: `Delete(w)` is `TableStore!Delete(w)` unless the process ends, not that of another
clause, and so is the first half of an UPDATE.

### WhereClause

A behaviour is one query, out of `Queries`, the SELECT branch of `Statement::exec`.
`stack` has the calls of `dfs` in progress, `ans` the rows found, `assigned_table` is
the array of the code from which the labels are made, and `answer` is how the statement
ended.  `Call` is a call of `dfs` up to its loop: it chooses a table and its rows with
`NextTable` (`getNextAssignTableName`), `Selected` (`selectUseIndex` and
`selectUseChecker`) and `Checker` (`getChecker`).  `Begin` is the first call;
`VisitRow` takes the next row of the innermost call, puts it into the conditions
(`Assign`, which drops the `Settled` and has the others `Turned`) and calls again;
`AddRow` is the same for the last table, which adds to `ans`; `Return` leaves a call
that has no row left, `Finish` the outermost, and labels the answer (`Values` is
`getSelector`).  What the properties compare with, `Meaning`, is written from SQL and
not from the code: all combinations of rows on which all conditions are true.

A clause names columns that exist (`Known`).  A name without a table occurs only if
FROM has one table: with several, `assign` and `getNextAssignTableName` take such a name for a
column of whichever table is at hand.

The code departs from it in ways the model keeps and the properties name as their
premises.  `getChecker` keeps the last of several conditions on one column and
passes over a comparison with NULL (`Plain`): an answer to such clauses has too many
rows, never too few (`NeverMisses`).  It looks for the name of a table in that of the
column and finds the end of a longer name; then a condition is applied to a wrong table
and rows are missed.  `Named` excludes this for both sides of a condition, as `assign`
brings the right side to the left: with FROM a, b, ab and WHERE a.1 = ab.2, the row of a
leaves a condition on ab.2, which the name of b ends.  SELECT * over
several tables dereferences a null pointer when a table is never reached
(`EndsOnlyIfEmpty`).  A projection answers with the first columns of the table, as many as
were asked for (`Values`): the k-th label of a table stands over its k-th column
(`LabelsFit`), which is the column it names only for `FirstColumns` and not in general
(`LabelsRight`, see Findings).  With more columns asked for than the table has, one of them
twice, the selector reads behind the row; such queries are left out (`Chosen`).

The rows of a table come in the same order by an index and by a scan, and an
index is supposed to be right: when it is not, is `TableIndex`'s subject.

### Catalog

`disk[db]` maps the file names of a directory to the columns written in them; a
name is a table and a column, 0 for the table's own file.  `table_map` is the
sequence of descriptions in memory, each with `col_has_index` and whether it is
`gone`: it holds open a file that was deleted, and works on that one even when
there is a new file of the name.  The loop of `dropTable` skips the element after
each erased one (`table_map.erase(iter++)`, `RecordManage/TableManager.cpp:335`), so
of several elements to drop in a row it erases the first, the third and so on:
`Erased` is the set of their places, `Remaining` the list without them.  It runs
past the end if the last is erased (`PastEnd`, `DropTableDies`).  So DROP TABLE of a table with an index can leave a gone
description, which a new table of that name then uses; `CurrentWithoutIndexes`
says that it takes an index, and `torn` records an index made through one.
Without a database DROP TABLE finds no directory to list and throws; `eval` answers that
and nothing has changed, so it is no step.
`CreateTableKilled` and `DropTableKilled` stop the process when any of the files
have been made or deleted.  `Adding` makes files and leaves those that are
there as they are, as `setupBTree` does.  `UseIndex` is `TheBTree`, with its null pointer when
the file is missing.  `indexed`, `dropped` and `torn` are history.

## Runs

| Run | Shows | Bounds |
|---|---|---|
| `pager` | `TypeOK`, `WeakListExact`, `QuotaExact`, `ValidCountExact`, `PinnedUndisturbed`, `NoVictimOnlyIfAllPinned`, `ImplementsPageStore` | pages 0 to 3, 1 or 2 buffers, up to 2 pins a page, 2 contents; page 3 has a size beyond `int` |
| `pager_close` | violated: `DirtySavedAtClose` | the same |
| `record` | `TypeOK`, `PagesTiled`, `FreeListExact`, `KindMatches`, `SlackAssertOnlyIfBadLen`, `ImplementsRecordStore`, `InsertAddsRecord` | 22-byte pages, two fixed records of 5 or 6 bytes, variable ones of 6, 10 and 17; pages up to 4, two dictionary pages of one entry |
| `record_assert` | violated: `ShortBlockOnlyAtEnd` | one fixed record; pages up to 5, dictionary pages of two entries |
| `record_full_bit` | violated: `FullMeansFull` | as `record_assert` |
| `btree` | `TypeOK`, `TraversalIsSearch`, `ParentLinks`, `HeapExact`, `Balanced` | 5 keys, ranks 2 and 3 |
| `btree_map` | `ImplementsKeyMap` | 4 keys, 2 data (symmetric: the tree never looks at them), ranks 2 and 3 |
| `table` | `TypeOK`, `IndexComplete`, `OneIndexExact`, `UniqueUnlessDropped`, `DoubleFreeOnlyIfStale`, `FaultExplained`, `StatementEnds`, `ImplementsTableStore`, `TakesByClause` | 2 columns, values 1, 2 and null, 3 blocks, lists of 2 entries, 5 schemas |
| `table_select` | violated: `IndexSelectsAsScan` | as `table` |
| `where` | `SelectsMeaning`, `NeverMisses`, `OneOrder`, `LabelsFit`, `EndsOnlyIfEmpty` | 1 to 3 tables, up to 2 conditions, values 1, 2 and null, up to 4 rows a table, 3 sets of indexes |
| `where_labels` | violated: `LabelsRight` | the same |
| `catalog` | `TypeOK`, `MemoryMatchesDisk`, `CurrentWithoutIndexes`, `IndexHasTable` | 2 databases, tables `b` and `ab`, 2 columns |

Why the bounds are enough to meet the cases:

- Pager: with 3 usable pages and 2 buffers every order of hit, miss, eviction and
  reload of a dirty page occurs, with both pages pinned and with two pins on one;
  one buffer makes every miss an eviction.  Page 3 cannot be created, as page
  2^19 of the program cannot.
- RecordManager: a fixed page of 22 bytes holds two records of either length,
  with a rest of 3 bytes (trips the assertion) or 1 (does not).  A variable page
  holds two small blocks or a small and a large one; the record of 17 bytes does
  not fit an empty page by 2 bytes.  The file reaches a page behind the second
  dictionary page.  Values are small, the arithmetic of the code is kept.
- BTree: ranks 2 and 3 are those of `test/TestBTree.cpp`.  Five keys fill three
  levels, so splits of leaf, inner node and root occur, and removal down to
  minimal inner nodes.  The program's ranks, 26 and 50, differ in one respect:
  a split leaves an inner node with 25 children, below `BRankMin`; `Balanced`
  therefore asks only for the smallest number that a split or a removal leaves.
  In `MCBTree` the data of key `k` lie at location `k` or at one spare location,
  and nodes take the first location behind those.  Locations enter the code's
  decisions only through equality, so this loses no case except reuse of a
  node's block for data, which `record` covers.

- TableIndex: two columns are what it takes for an index that is told and one that
  is not; the schemas (`MCSchemas`) are a key with a second index created later, a
  key dropped and created again, a column named gender with an index dropped and
  created, two indexes without a key, and a foreign key.  Two rows fill a list, a
  third is one too many; an UPDATE may have up to three rows to put back, an INSERT
  two.  The clauses are a scan, one condition on either column and one on both, so that a
  clause of two conditions is served by an index on either of them, with rows that meet only
  that one.
  A block freed is the first to be taken again (`MCRowPlace`), so stale entries come to
  refer to new rows.  The client creates or drops only the indexes its schema names, each
  dropped once.
- WhereClause: three tables are the least for a condition to be handed on twice by
  `assign`; two conditions the least for `getChecker` to forget one.  Joins are
  checked over all orders of FROM and every choice of the one table that has an
  index.  The tables have rows with equal values, NULLs and no rows at all.
- Catalog: the name `ab` ends in `b`, the case that the file names of DROP TABLE
  and the suffix search meet; table `b` has a key or not, and two columns that may
  get an index, so up to five descriptions are in memory.  Nothing is created in
  the second database: it is there to change to and come back from.

Each property of a passing run has a mutant, defined beside the operator it
changes and marked `Mutant:`, a plausible bug under which TLC finds the property
violated.  Mutants are not part of any specification.

Fairness: `TableIndex!Spec` has `WF_vars(Step)`, where `Step` is what the process does
by itself once a statement has begun.  The code justifies it: the loops of
`insertInTable`'s caller and of `updateItems` run in the one thread, without
waiting for anything.  With it `StatementEnds` says that each statement is answered
or ends the process.  There is no fairness for the client: nothing obliges it to
make another call.  Nor is there any in `WhereClause`, where no property says that a query
is answered.  In the other modules every call is one step, a terminating computation,
and there is nothing to be fair about.

## Findings

- `pager_close`: `~Pager` deletes the performance monitor and then writes back the
  dirty pages, each of which counts its write in it (`Pager/Pager.cpp:48-50`,
  `Pager/Page.cpp:54`).  If the process dies there, dirty pages are lost.
- `record_assert`: the blocks of a fixed page end 4 bytes before the page does,
  but the assertion in `tryInsert` (`RecordManage/RecordManager.cpp:41`) supposes
  they reach its end.  It fails for record lengths that leave a rest 1, 2 or 3
  bytes shorter than a record: `BadLen`.  One int column is such a table.
- `record_full_bit`: `deleteRecord` clears the full mark in a local copy
  (`RecordManage/RecordManager.cpp:340`); space freed through an index is never
  used again.
- `table_select`: DELETE and UPDATE through an index remove the locations from that
  index only (`RecordManage/TableManager.cpp:197`); a SELECT through another finds
  rows that were deleted.  `DoubleFreeOnlyIfStale`, `OneIndexExact` and
  `FaultExplained` bound what else comes of it: with one index that was never
  dropped there are no stale entries, no double free and no row lost to them.
- `where_labels`: the selector of a projection returns `item[j]` instead of
  `item[offsets[i][j]]` (`Parser/AST/Nodes.h:263`): SELECT of the second column answers with the
  first under the second's name.

Two more can be read off the models and have no run of their own:

- `select` walks a fixed page to its end, not to the end of its blocks
  (`RecordManage/RecordManager.cpp:288`): it takes four headers where there are none, and reads
  the length of the last two from behind the buffer (`Strays`).
- A unique column is checked only through its index
  (`RecordManage/TableManager.cpp:111`).  DROP INDEX takes the index of a key as any other; from
  then on duplicates are accepted, and they stay when the index is found again: a table with a
  key, INSERT, DROP INDEX on the key, the same INSERT.  `UniqueUnlessDropped` says that nothing
  else makes a column lose its uniqueness.

## Proofs

What the passing runs check on small instances is proved, but for liveness, for every
value of the constants that meets the assumptions below: every number of pages, blocks,
records, columns, tables and databases, all ranks of a B-tree, every set of keys,
clauses, schemas, queries and contents.

| Module | Theorem | States |
|---|---|---|
| `PagerProofs` | `Invariance` | `Spec => []IInv` |
| | `TypeCorrect`, `WeakListTheorem`, `QuotaTheorem`, `ValidCountTheorem` | `TypeOK`, `WeakListExact`, `QuotaExact`, `ValidCountExact` |
| | `PinnedTheorem`, `NoVictimTheorem` | the action properties `PinnedUndisturbed`, `NoVictimOnlyIfAllPinned` |
| | `Refinement` | `ImplementsPageStore` |
| `RecordManagerProofs` | `Invariance` | `Spec => []IInv` |
| | `TypeCorrectness`, `TilingIsKept`, `FreeListIsExact`, `KindsMatch`, `SlackAssertion` | `TypeOK`, `PagesTiled`, `FreeListExact`, `KindMatches`, `SlackAssertOnlyIfBadLen` |
| | `InsertTheorem` | the action property `InsertAddsRecord` |
| | `Refinement` | `ImplementsRecordStore` |
| `BTreeProofs` | `Invariance` | `Spec => []IInv` |
| | `Types`, `Parents`, `EqualDepth`, `Exact`, `TraversalSearches` | `TypeOK`, `ParentLinks`, `Balanced`, `HeapExact`, `TraversalIsSearch` |
| | `Refinement` | `ImplementsKeyMap` |
| `TableIndexProofs` | `Invariance` | `Spec => []IInv` |
| | `TypeCorrectness`, `IndexesAreComplete`, `OnlyIndexIsExact`, `UniqueUnlessIndexDropped`, `DoubleFreeIsExplained` | `TypeOK`, `IndexComplete`, `OneIndexExact`, `UniqueUnlessDropped`, `DoubleFreeOnlyIfStale` |
| | `FaultIsExplained`, `ClauseDecides` | the action properties `FaultExplained`, `TakesByClause` |
| | `Refinement` | `ImplementsTableStore` |
| `WhereClauseProofs` | `Invariance` | `Spec => []IInv` |
| | `MeaningIsSelected`, `NothingIsMissed`, `TablesInOneOrder`, `LabelsFitValues`, `EndsAreEmpty` | `SelectsMeaning`, `NeverMisses`, `OneOrder`, `LabelsFit`, `EndsOnlyIfEmpty` |
| `CatalogProofs` | `Invariance` | `Spec => []IInv` |
| | `TypeCorrectness`, `MemoryIsCurrent`, `NoneGone`, `IndexesAreOwned` | `TypeOK`, `MemoryMatchesDisk`, `CurrentWithoutIndexes`, `IndexHasTable` |

Each of the inductive invariants is called `IInv`.  A module of theorems has the
lemmas about the operators first, then one lemma per action or per group of actions
that do the same to the state, then the initial states, the next-state relation
and the theorems.  `DataLemmas` has what several of them use: least numbers, lists
without repetition, sets in order (`Ordered`, `Descending`), lists without some of
their elements (`ElementsAt`), lists put one after the other (`FlattenSeq`).  Its facts that need induction over numbers take it
in the form `NatInductionSet`: a set of numbers that has 0 and with each number the
next one has them all.

### Assumptions

All are named in the modules that declare the constants, and TLC evaluates them in
the runs.

- `Pager`: `BoundsAssumption`, `WordAssumption`, `ContentsAssumption`.
- `RecordManager`: `SizesAssumption`: a page has more than 7 bytes, as an empty fixed
  page has 7 of header and links; a dictionary page has at least one entry; pages
  0 and 1 are there from the start.  `RecordsAssumption`: a record of a table has at
  least 4 bytes, as many as the length and the link of a free block take behind its
  header; a column of fixed length has 5.
- `BTree`: `RankAssumption` (ranks are numbers, `BRankMin` is at least half of
  `BRankMax`, as the constructor asserts at `BTree/BTree.h:541`, and a full node has two
  keys or more, so that both parts of a split leaf have one), `KeysAssumption` (keys are integers), `LocAssumption`,
  `PlaceAssumption` (a record is put to a free location).
- `TableIndex`: `ValsAssumption`, `PlaceAssumption` (a row is put into a block that is
  free), `SchemasAssumption` (a unique column is never null, since it is the key;
  the first column is not named gender, which is a varchar),
  `StatementsAssumption` (an INSERT has a row, SET gives a column a value),
  `BoundAssumption`.
- `WhereClause`: `NamesAssumption` (tables have a number of columns, the empty name
  is no table's), `QueriesAssumption` (the tables and columns a query names exist, no
  table is twice in FROM, no more columns are selected of a table than it has,
  the rows have the columns of their table).
- `Catalog`: `NamesAssumption`, `SchemasAssumption` (keys are columns),
  `NoDirAssumption` (`NoDir` is none of the directories).

### Pager

The invariants are not inductive by themselves, for four reasons, each a conjunct of
`IInv`.  `PinsHaveBuffers`: a release must act on a cached page, or the weak list
would get one without a buffer.  `EagerNoWeak`: without lazy mode nothing is weak,
or a release that frees at once would leave a dead entry.  `PagesCovered`: `getPage`
has extended the file as far as `getBuf` would, or `maxValidPages` would lag
behind.  `StoppedIsEmpty`: the next pager on the file starts from nothing.
The core is the weak list: `RemoveFirstRemoves` shows that taking a listed page
out removes it and nothing else, and `QuotaExact` follows step by step from the
cardinality of `Cached`; with the quota full and the weak list empty,
`WeakListExact` makes every cached page pinned, which is `NoVictimTheorem`.
There is one lemma per action for `IInv`, and one per action for the
refinement, where evictions and eager releases map to `Settle`: a marked page is
written, an unmarked change forgotten.

### RecordManager

`IInv` speaks of one page at a time (`PageOK`), so that an operation is shown to keep
it page by page: `Tiled`, `Listing` and `Holds` are `PagesTiled`, `FreeListExact` and
`KindMatches` of one page.  They are not inductive.  `Regular` is missing: blocks of
a fixed page lie at multiples of a record with its header, and a free block of
another length ends where the page ends.  Without it, a block freed with length
`td->len` might not have had that length, and the tiling would be lost.  It is also
what the theorem on the assertion of `tryInsert` rests on: the rest of a page is
then the remainder of a division (`RestIsUnique`), whatever was deleted in between.
The second thing missing is that there is nothing behind the end of the file:
a new fixed page keeps the dictionary entry it finds there (`NewEntry`), and it must
not be that of a variable page.

`InsertIntoShape` splits `insert` into its ways out: an old page, a new one,
an end of the process.  `FixedInsertOK`, `VarInsertOK` and `FreedOK` show that the page
operations keep `PageOK`; `FreedUses`, `InsertView` and their like show for the
refinement which records they add and take.

### BTree

`TraversalIsSearch`, `Balanced` and `HeapExact` speak of whole subtrees, through the recursive
functions `Nodes`, `Traversal`, `Heights` and `PathTo`.  What an operation does is local: a split
changes three nodes and tells some children.  So `IInv` says that there are a height
`ht[l]` and a set of keys `K[l]` for each node `l` that fit node by node (`NodeOK`):
a leaf has height 0 and the keys written in it; the children of an inner node know it
as their parent, are one lower, have between them all its keys, each with keys between the
separators at its place (`ChildOK`); every node but the root is a child of the
one it names (`Tree`).  `KeysFit` and `KidsFit` bound the lists.  `Filled` and `DataOK` relate
leaves and data: no leaf is empty, and the data records are those that leaves
refer to, each for one key.  `Filled` holds as long as the process lives, `DataOK` unless a traversal
lost data; both are needed because deletion frees what it finds at the
location it reads in the leaf.

The checked invariants are not inductive.  `TraversalIsSearch` speaks of the keys that are
there: it does not say that the separators of a node ascend, which decides where the next key
goes and whether a split cuts at the right place.  `ParentLinks` needs that no node is
a child twice, `Balanced` that a leaf that is removed is one, and has no key.

`BTreeLemmas` has what holds of any tree, up to the split of the root; `BTreeProofs` the
operations.

- An operation begins with a search.  `Way` says that a path is that of
  `searchNode`, and `SearchFinds` that it ends at the one leaf that may hold the key, so
  that what the leaf says of the key is what the file says (`Entries`).
  `LeafChangeTree` is the lemma of all changes of one entry: the key sets along the
  way change with it and the tree remains.
- A split is `Splits` below a parent: heights stay, the right part takes the keys from
  the separator on (`HtSplit`, `KeysSplit`).  `SplitLeft`, `SplitRight`, `SplitParent` and `SplitOther`
  show `NodeOK` for each kind of node.  The split of the root is the same with
  a new root above it that has no key yet (`ToppedTree`), so nothing is
  proved twice.  `ClimbStep` goes up the path: at each level the file is a tree with at
  most one node too full, the next one on the path; at the root none is left.
- Removal of an empty leaf keeps heights and key sets, since its set is empty
  (`DropTree`); that the parent keeps `LeastKids` children is the check of `deleteNode`.
- The recursive functions go down the tree.  `RecursionExists` says that one whose value at
  a node depends only on lower nodes exists, so that it is what its definition says,
  and `HeightInduction` is induction on the height.  With them `NodesAreAll` says that all
  nodes are reached from the root, `HeightsAre` that `Heights` is `ht`,
  `TraversalLists` that the lists of the children, one after the other, ascend.
- Each lemma of an action also says what it did to the entries: `Put`, `Taken` or, for a
  traversal that moves data, `Loses`.  `StepPuts` and `StepTakes` turn this into steps of
  `KeyMap`.

`IInv` quantifies over heights and key sets, which TLC cannot enumerate; what it says
of them is checked by the run `btree` through the invariants that follow from it.

### TableIndex

The four conjuncts of `IInv` that no run names, and why they are needed:

- `RoomLeft`: there is a free block for each row of the statement in progress;
  otherwise `Put` would be given none.
- `FilesUsed`: a column without a file has no entries, so CREATE INDEX begins
  with an empty index, and an index that was never dropped is in use.
- `RowsChecked`: the rows in the table, and those an UPDATE took out, have passed the
  checks once.  This is why a row that cannot be changed can be put back.
- `PendingDistinct`: rows that an UPDATE has still to put back differ from each other
  and from those in the table, in each unique column that it does not set.  Without
  it a row put back might meet another one, and `UniqueUnlessDropped` and
  `FaultExplained` would not follow.

TLC agrees that `IInv` holds in all states of the run `table`.  For the step,
`FreeingFacts` says what the loop over a list of locations does: unless a block is
freed twice, all that are freed were in use and the rows collected are theirs; and
none is freed twice if the list has no location twice and meets only blocks in use.
`TakesFacts` applies it to the scan and to each index; `TookFacts` is the lemma of
DELETE and of the first half of UPDATE, `PutFacts` that of each row put,
`CreateIndexFacts` that of CREATE INDEX, and `HeapKept` does for all statements that
change neither rows nor lists.  `FaultIsExplained` argues from the verdict:
a row put back that is refused has met another one in a unique column, through an
index that is exact as long as it is the only one.

The refinement counts rows.  `BagMore` says that a row put adds one to its count,
`BagTaken` that what a statement took out it took from the counts: the places
in the list of rows taken correspond one to one to the blocks freed.  When an index
was dropped, a statement may take fewer rows than meet its clause, and `TableStore`
allows that too.  `ClauseDecides` is the half of this argument that speaks of one statement and its
clause.

### WhereClause

The argument is that all a call of `dfs` works on is a function of the query and of
the rows chosen in the calls around it.  `of` is such a choice, a row for each table
of a set; `Bound` is what `assign` has made of a condition once the rows are put into
it, `Conds` the conditions of a call, `TablesLeft` its tables.  `CondsStep` and
`TablesStep` say that `assign`, and erasing the table just taken, lead from the
conditions and tables of a call to those of the calls in it.  `BoundHolds` is the
other half: when all tables of a condition have a row, what the condition has become
is true in the last of the rows just if the condition is true of them all, whichever
side was put in first and with the operator turned around or not.  `SelectedFacts`
combines them with `getChecker` and the index: a row that the clause means is among
those a call lists, and if the clause is `Plain` a row listed makes the conditions
true that its table completes.

`SameNext` is why `assigned_table` can be written once for each level: which table
is next depends on the names in the conditions and on their operators, not on the
values put into them.  `OrderKept` makes that an invariant: what `assigned_table` says
of a level is what `getNextAssignTableName` would choose there for any rows of the
tables before it.  `CallOK` is what is known of a call on the stack, with the labels
its row already fits; `Within` relates it to the calls in it, which is why no row is
found twice.  `Covered` says where a row that the clause means can be: found, waiting
in one of the calls, or, before the first call, nowhere yet.

`Ready` is what has to hold for a call to begin.  `BeginReady` and `VisitedReady` show
it for the first call and for each row gone into, `CallKeeps` that a call that begins
so keeps the invariant, `AddRowKeeps` the same for a row of the last table.  At the end
the stack is empty, so a row that is meant was found; `MeaningIsSelected` then counts by
the bijection from places in the answer to the rows that the clause means.

### Catalog

`IInv` says of each directory that an index file has no columns (`DirOK`) and that
none is there before one was made (`Plain`), and of each description that it fits
the directory (`Fits`): if it is not gone, as `MemoryMatchesDisk` says; before there is an
index it is not gone, and it is that of a table.  This last one is what
`CurrentWithoutIndexes` needs: without indexes DROP TABLE of `t` has one element at most
to erase (`OnlyOneErased`), and skipping the next does no harm.  `OwnedDropped` shows
that DROP TABLE takes a table only together with all of its indexes.

### Only model-checked

`StatementEnds`, which depends on fairness: liveness is out of the proof system's
reach.  Findings are counterexamples that TLC finds; there is nothing to prove about them.

## Not modelled

`update` and `traverse` of `BTreePlus`: only tests call them.
`writeBackTableDescription` and `parseIndex`: nothing calls them.
`LIKE` and columns of type varchar: they take the way of the other comparisons, and
what a pattern matches is up to `std::regex`; a varchar as first column of a table with
indexes, see `TableIndex`.  Answers in JSON and their wording.
A crash between a row and its index entries: no code recovers from it.
`PagerPerfMon` beyond its lifetime: counters that only a report reads.
Lexer, parser, command line and GUI: no state, or only input and output.
The walk of `select` as single steps: the callbacks of `del` work on index files
only, so `del` is one action; `update` with a callback, which may insert into the
file it walks, is called by tests only.
Writes of a page are taken as whole; a torn page is not modelled, nor are failures
of the file system other than a short read.
