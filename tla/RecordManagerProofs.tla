------------------------- MODULE RecordManagerProofs -------------------------
(***************************************************************************)
(* Proofs about RecordManager for every size of pages and dictionary       *)
(* pages, every set of records and every length of a table's records: the  *)
(* layout of pages, by an inductive invariant that is stated page by page; *)
(* that an insert that returns has added its record; and that the records  *)
(* are those of RecordStore, as blocks split off never lie on a record and *)
(* the page an insert adds was empty.                                      *)
(***************************************************************************)
EXTENDS RecordManager, DataLemmas

Offsets == 0 .. PageSize - 1
Pages == [free : Seq(Offsets), blocks : UNION {[B -> Blocks] : B \in SUBSET Offsets}]

(* The blocks of page d, with headers of h bytes, tile it from first to end. *)
Tiled(d, h, first, end) ==
  /\ first \in DOMAIN d.blocks
  /\ \A b \in DOMAIN d.blocks :
       /\ b + h + d.blocks[b].len \in DOMAIN d.blocks \cup {end}
       /\ \A c \in DOMAIN d.blocks : c <= b \/ c >= b + h + d.blocks[b].len

(* The free list of a fixed page of records of n bytes.                     *)
Listing(d, n) ==
  /\ IsInjective(d.free)
  /\ ToSet(d.free) = {b \in DOMAIN d.blocks : ~d.blocks[b].used}
  /\ \A i \in 1 .. Len(d.free) - 1 : d.blocks[d.free[i]].len = n

(* Blocks lie at multiples of a record with its header; only the rest of    *)
(* the page may be a free block of another length.                          *)
Regular(d, n) ==
  /\ \A b \in DOMAIN d.blocks : \E k \in Nat : b = k * (n + 1) + 2
  /\ \A b \in DOMAIN d.blocks :
       IF d.blocks[b].used THEN d.blocks[b].len = n
       ELSE d.blocks[b].len = n \/ b + 1 + d.blocks[b].len = PageSize - 4

Holds(d, recs) == \A b \in DOMAIN d.blocks : d.blocks[b].used => d.blocks[b].rec \in recs

FixedOK(d, n) ==
  d \in Pages /\ Tiled(d, 1, 2, PageSize - 4) /\ Listing(d, n) /\ Regular(d, n) /\ Holds(d, FixedRecs)

VarOK(d) == d \in Pages /\ Tiled(d, 3, 0, PageSize) /\ Holds(d, VarRecs)

PageOK(d, var, n) == IF var THEN VarOK(d) ELSE FixedOK(d, n)

(* Whether page d has a record at b; page e is page d with record r added   *)
(* at b.                                                                    *)
Used(d, b) == b \in DOMAIN d.blocks /\ d.blocks[b].used

Adds(d, e, b, r) ==
  /\ b \in Offsets /\ ~Used(d, b)
  /\ Used(e, b) /\ e.blocks[b].rec = r
  /\ \A c \in Offsets \ {b} : /\ Used(e, c) <=> Used(d, c)
                              /\ Used(d, c) => e.blocks[c] = d.blocks[c]

Entries == [var : BOOLEAN, full : BOOLEAN]

(* A file of a table with records of n bytes.  Behind its end there is      *)
(* nothing: NewEntry relies on it for the kind of a new page.               *)
FileOK(f, n) ==
  /\ f.pages \in 2 .. MaxPage + 1
  /\ f.dic \in [DataPages -> Entries]
  /\ f.data \in [DataPages -> Pages]
  /\ \A p \in DataPages : p < f.pages => PageOK(f.data[p], f.dic[p].var, n)
  /\ \A p \in DataPages : p >= f.pages => f.data[p] = NoPage /\ ~f.dic[p].var /\ ~f.dic[p].full

IInv ==
  /\ len \in Lens
  /\ FileOK(File, len)
  /\ status \in Ends \cup {"alive"}
  /\ SlackAssertOnlyIfBadLen

USE SizesAssumption, RecordsAssumption

-----------------------------------------------------------------------------
(* Lemmas about the operators *)

(* What Descending lists is the set it is given, once.                      *)
LEMMA DescendingLists ==
  ASSUME NEW B \in SUBSET Offsets
  PROVE  /\ Descending(B) \in Seq(Offsets)
         /\ IsInjective(Descending(B))
         /\ ToSet(Descending(B)) = B
<1> DEFINE s == Descending(B)
           n == Cardinality(B)
<1>1. IsFiniteSet(B) /\ n \in Nat /\ B \in SUBSET Nat
  <2>1. IsFiniteSet(Offsets)
    BY FS_Interval DEF Offsets
  <2>2. IsFiniteSet(B)
    BY <2>1, FS_Subset
  <2> QED BY <2>2, FS_CardinalityType DEF Offsets
<1>2. s \in [1 .. n -> B] /\ \A i, j \in DOMAIN s : i < j => s[i] > s[j]
  <2>1. \E t \in [1 .. n -> B] : \A i, j \in DOMAIN t : i < j => t[i] > t[j]
    BY <1>1, DescendingExists
  <2> QED BY <2>1 DEF Descending
<1> HIDE DEF s
<1>3. IsInjective(s)
  <2>1. ASSUME NEW i \in 1 .. n, NEW j \in 1 .. n, s[i] = s[j] PROVE i = j
    <3>1. s[i] \in Nat /\ s[j] \in Nat
      BY <1>1, <1>2
    <3>2. ~ (i < j) /\ ~ (j < i)
      BY <1>2, <2>1, <3>1
    <3> QED BY <1>1, <3>2
  <2> QED BY <1>2, <2>1 DEF IsInjective
<1>4. \A b \in B : \E i \in 1 .. n : s[i] = b
  BY <1>1, <1>2, <1>3, InjectiveIsOnto
<1>5. ToSet(s) = B
  BY <1>2, <1>4 DEF ToSet
<1>6. s \in Seq(Offsets)
  <2>1. s \in [1 .. n -> Offsets]
    BY <1>2
  <2> HIDE DEF n
  <2> QED BY <1>1, <2>1
<1> QED BY <1>3, <1>5, <1>6 DEF s

(* What a page is made of.                                                  *)
LEMMA PageFields ==
  ASSUME NEW d \in Pages
  PROVE  /\ d.free \in Seq(Offsets)
         /\ DOMAIN d.blocks \in SUBSET Offsets
         /\ d.blocks \in [DOMAIN d.blocks -> Blocks]
         /\ \A b \in DOMAIN d.blocks :
              /\ b \in Nat /\ b < PageSize
              /\ d.blocks[b].len \in Nat /\ d.blocks[b].len <= PageSize
              /\ d.blocks[b].used \in BOOLEAN
<1>1. PICK B \in SUBSET Offsets : d.blocks \in [B -> Blocks]
  BY DEF Pages
<1>2. DOMAIN d.blocks = B
  BY <1>1
<1>3. \A b \in B : d.blocks[b] \in Blocks
  BY <1>1
<1> QED BY <1>1, <1>2, <1>3 DEF Pages, Blocks, Offsets

(* A page is made of a free list and blocks.                                *)
LEMMA PageOfFields ==
  ASSUME NEW s \in Seq(Offsets), NEW B \in SUBSET Offsets, NEW f \in [B -> Blocks]
  PROVE  [free |-> s, blocks |-> f] \in Pages
BY DEF Pages

(* The headers insert and delete write.                                     *)
LEMMA BlockTypes ==
  /\ \A n \in 0 .. PageSize : FreeBlock(n) \in Blocks
  /\ \A r \in Recs : Length(r) \in 0 .. PageSize => UsedBlock(r) \in Blocks
BY DEF FreeBlock, UsedBlock, Blocks

(* The tiling depends on the lengths of the blocks only.                    *)
LEMMA TilingKept ==
  ASSUME NEW d, NEW e, NEW h, NEW first, NEW end, Tiled(d, h, first, end),
         DOMAIN e.blocks = DOMAIN d.blocks,
         \A b \in DOMAIN d.blocks : e.blocks[b].len = d.blocks[b].len
  PROVE  Tiled(e, h, first, end)
BY DEF Tiled

(* The page e is d with block b cut to n bytes and the rest a block of its  *)
(* own, with a header of h bytes.                                           *)
IsSplit(d, e, h, b, n, rest) ==
  /\ b \in DOMAIN d.blocks /\ n \in Nat /\ d.blocks[b].len >= n + h
  /\ rest = b + h + n /\ rest \notin DOMAIN d.blocks
  /\ DOMAIN e.blocks = DOMAIN d.blocks \cup {rest}
  /\ e.blocks[b].len = n
  /\ e.blocks[rest].len = d.blocks[b].len - n - h
  /\ \A c \in DOMAIN d.blocks \ {b} : e.blocks[c].len = d.blocks[c].len

(* Splitting a block keeps the tiling.                                      *)
LEMMA TilingSplit ==
  ASSUME NEW d \in Pages, NEW e, NEW h \in Nat, NEW first, NEW end \in Nat, Tiled(d, h, first, end),
         NEW b, NEW n, NEW rest, IsSplit(d, e, h, b, n, rest)
  PROVE  Tiled(e, h, first, end)
<1> USE DEF IsSplit
<1> DEFINE B == DOMAIN d.blocks
           m == d.blocks[b].len
           L(c) == d.blocks[c].len
<1>1. \A c \in B : c \in Nat /\ L(c) \in Nat
  BY PageFields
<1>2. /\ first \in B
      /\ \A c \in B : c + h + L(c) \in B \cup {end}
      /\ \A c, x \in B : x <= c \/ x >= c + h + L(c)
  BY DEF Tiled
<1>3. first \in DOMAIN e.blocks
  BY <1>2
<1>4. ASSUME NEW c \in B \ {b}
      PROVE  /\ c + h + e.blocks[c].len \in DOMAIN e.blocks \cup {end}
             /\ \A x \in DOMAIN e.blocks : x <= c \/ x >= c + h + e.blocks[c].len
  <2>1. rest <= c \/ rest >= c + h + L(c)
    <3>1. b \in Nat /\ m \in Nat /\ c \in Nat /\ L(c) \in Nat /\ m >= n + h
      BY <1>1
    <3>2. (c <= b \/ c >= b + h + m) /\ (b <= c \/ b >= c + h + L(c)) /\ c # b
      BY <1>2, <1>4
    <3> HIDE DEF m, L
    <3> QED BY <3>1, <3>2
  <2> QED BY <1>2, <1>4, <2>1
<1>5. /\ b + h + e.blocks[b].len \in DOMAIN e.blocks \cup {end}
      /\ \A x \in DOMAIN e.blocks : x <= b \/ x >= b + h + e.blocks[b].len
  BY <1>1, <1>2
<1>6. /\ rest + h + e.blocks[rest].len = b + h + m
      /\ \A x \in DOMAIN e.blocks : x <= rest \/ x >= b + h + m
  BY <1>1, <1>2
<1>7. rest + h + e.blocks[rest].len \in DOMAIN e.blocks \cup {end}
  BY <1>2, <1>6
<1> QED BY <1>3, <1>4, <1>5, <1>6, <1>7 DEF Tiled

(* A new page is one free block.                                            *)
LEMMA FreshPageOK ==
  ASSUME NEW n \in Lens, NEW fixed \in BOOLEAN
  PROVE  FreshPage(fixed) \in Pages /\ PageOK(FreshPage(fixed), ~fixed, n)
<1>1. CASE fixed
  <2> DEFINE d == FreshPage(TRUE)
  <2>1. /\ d.free = <<2>> /\ DOMAIN d.blocks = {2}
        /\ d.blocks = [b \in {2} |-> FreeBlock(PageSize - 7)]
        /\ d.blocks[2] = FreeBlock(PageSize - 7)
        /\ ~d.blocks[2].used /\ d.blocks[2].len = PageSize - 7
    BY DEF FreshPage, FreeBlock
  <2>2. d \in Pages
    <3>1. d.blocks \in [{2} -> Blocks]
      <4>1. FreeBlock(PageSize - 7) \in Blocks
        BY BlockTypes
      <4> QED BY <2>1, <4>1
    <3>2. <<2>> \in Seq(Offsets) /\ {2} \in SUBSET Offsets
      BY DEF Offsets
    <3>3. d = [free |-> <<2>>, blocks |-> d.blocks]
      BY <2>1 DEF FreshPage
    <3> HIDE DEF d
    <3>4. [free |-> <<2>>, blocks |-> d.blocks] \in Pages
      BY <3>1, <3>2, PageOfFields
    <3> QED BY <3>3, <3>4
  <2> HIDE DEF d
  <2>3. Tiled(d, 1, 2, PageSize - 4)
    BY <2>1 DEF Tiled
  <2>4. Listing(d, n)
    BY <2>1 DEF Listing, IsInjective, ToSet
  <2>5. Regular(d, n)
    <3>1. 0 \in Nat /\ 2 = 0 * (n + 1) + 2
      OBVIOUS
    <3> QED BY <2>1, <3>1 DEF Regular
  <2>6. Holds(d, FixedRecs)
    BY <2>1 DEF Holds
  <2> QED BY <1>1, <2>2, <2>3, <2>4, <2>5, <2>6 DEF PageOK, FixedOK, d
<1>2. CASE ~fixed
  <2> DEFINE d == FreshPage(FALSE)
  <2>1. /\ d.free = <<>> /\ DOMAIN d.blocks = {0}
        /\ d.blocks = [b \in {0} |-> FreeBlock(PageSize - 3)]
        /\ ~d.blocks[0].used /\ d.blocks[0].len = PageSize - 3
    BY DEF FreshPage, FreeBlock
  <2>2. d \in Pages
    <3>1. d.blocks \in [{0} -> Blocks]
      <4>1. FreeBlock(PageSize - 3) \in Blocks
        BY BlockTypes
      <4> QED BY <2>1, <4>1
    <3>2. <<>> \in Seq(Offsets) /\ {0} \in SUBSET Offsets
      BY DEF Offsets
    <3>3. d = [free |-> <<>>, blocks |-> d.blocks]
      BY <2>1 DEF FreshPage
    <3> HIDE DEF d
    <3>4. [free |-> <<>>, blocks |-> d.blocks] \in Pages
      BY <3>1, <3>2, PageOfFields
    <3> QED BY <3>3, <3>4
  <2> HIDE DEF d
  <2>3. Tiled(d, 3, 0, PageSize)
    BY <2>1 DEF Tiled
  <2>4. Holds(d, VarRecs)
    BY <2>1 DEF Holds
  <2> QED BY <1>2, <2>2, <2>3, <2>4 DEF PageOK, VarOK, d
<1> QED BY <1>1, <1>2

(* The first free block of a fixed page.                                    *)
LEMMA FreeHead ==
  ASSUME len \in Lens, NEW d, FixedOK(d, len), d.free # <<>>
  PROVE  /\ Head(d.free) \in DOMAIN d.blocks /\ ~d.blocks[Head(d.free)].used
         /\ HeadLen(d) = d.blocks[Head(d.free)].len
         /\ HeadLen(d) # len => /\ Tail(d.free) = <<>>
                                /\ ToSet(d.free) = {Head(d.free)}
                                /\ Head(d.free) + 1 + HeadLen(d) = PageSize - 4
<1>1. d \in Pages /\ Listing(d, len) /\ Regular(d, len) /\ d.free \in Seq(Offsets)
  BY PageFields DEF FixedOK
<1>2. Head(d.free) \in ToSet(d.free)
  BY <1>1, TailOfList DEF Listing
<1>3. Head(d.free) \in DOMAIN d.blocks /\ ~d.blocks[Head(d.free)].used
  BY <1>1, <1>2 DEF Listing
<1>4. ASSUME HeadLen(d) # len
      PROVE  Tail(d.free) = <<>> /\ ToSet(d.free) = {Head(d.free)}
  <2>1. \A i \in 1 .. Len(d.free) - 1 : d.blocks[d.free[i]].len = len
    BY <1>1 DEF Listing
  <2>2. ~ (1 \in 1 .. Len(d.free) - 1)
    <3>1. Head(d.free) = d.free[1]
      BY <1>1
    <3> QED BY <1>4, <2>1, <3>1 DEF HeadLen
  <2>3. \A i \in 1 .. Len(d.free) - 1 : FALSE
    <3>1. Len(d.free) \in Nat
      BY <1>1
    <3> QED BY <2>2, <3>1
  <2> QED BY <1>1, <2>3, SingleElement
<1>5. HeadLen(d) # len => Head(d.free) + 1 + HeadLen(d) = PageSize - 4
  BY <1>1, <1>3 DEF Regular, HeadLen
<1> QED BY <1>3, <1>4, <1>5 DEF HeadLen

(* tryInsert on a fixed page.                                               *)
LEMMA FixedInsertOK ==
  ASSUME len \in Lens, NEW d, FixedOK(d, len), NEW r \in FixedRecs, FixedFits(d, len)
  PROVE  FixedOK(FixedInsert(d, r), len) /\ Adds(d, FixedInsert(d, r), Head(d.free), r)
<1> DEFINE b == Head(d.free)
           B == DOMAIN d.blocks
           m == d.blocks[b].len
           rest == b + 1 + len
           e == FixedInsert(d, r)
           u == UsedBlock(r)
<1>1. /\ len \in Nat /\ Length(r) = len /\ HeadLen(d) = m /\ m >= len
      /\ b \in B /\ ~d.blocks[b].used
      /\ d \in Pages /\ Tiled(d, 1, 2, PageSize - 4) /\ Listing(d, len) /\ Regular(d, len)
      /\ Holds(d, FixedRecs) /\ d.free # <<>>
  BY FreeHead DEF FixedFits, FixedOK, Length
<1>2. /\ d.free \in Seq(Offsets) /\ B \in SUBSET Offsets /\ d.blocks \in [B -> Blocks]
      /\ \A c \in B : c \in Nat /\ d.blocks[c].len \in Nat /\ d.blocks[c].used \in BOOLEAN
      /\ m <= PageSize
      /\ b \in Nat /\ m \in Nat /\ b + 1 + m <= PageSize /\ rest \in Nat
  <2>1. /\ d.free \in Seq(Offsets) /\ B \in SUBSET Offsets /\ d.blocks \in [B -> Blocks]
        /\ \A c \in B : c \in Nat /\ c < PageSize /\ d.blocks[c].len \in Nat /\ d.blocks[c].used \in BOOLEAN
        /\ m <= PageSize
    BY <1>1, PageFields
  <2>2. b + 1 + m \in B \cup {PageSize - 4}
    BY <1>1 DEF Tiled
  <2>3. b \in Nat /\ b < PageSize /\ m \in Nat
    BY <1>1, <2>1
  <2>4. \A c \in B : c <= PageSize
    BY <2>1
  <2> HIDE DEF b, m, B
  <2>5. b + 1 + m <= PageSize
    BY <2>2, <2>4
  <2> QED BY <1>1, <2>1, <2>3, <2>5
<1>3. u \in Blocks /\ u.used /\ u.len = len /\ u.rec = r
  <2>1. Length(r) \in 0 .. PageSize
    BY <1>1, <1>2
  <2> QED BY <1>1, <2>1, BlockTypes DEF UsedBlock, Recs
<1>4. m = d.blocks[b].len /\ rest = b + 1 + len
  OBVIOUS
<1>5. CASE m = len
  <2>1. /\ e.free = Tail(d.free)
        /\ e.blocks = Put(d.blocks, b, u)
        /\ e = [free |-> e.free, blocks |-> e.blocks]
    BY <1>1, <1>5 DEF FixedInsert
  <2>2. /\ DOMAIN e.blocks = B /\ e.blocks[b] = u
        /\ \A c \in B \ {b} : e.blocks[c] = d.blocks[c]
        /\ \A c \in B : e.blocks[c].len = d.blocks[c].len
        /\ e.blocks \in [B -> Blocks]
    <3>1. B \cup {b} = B
      BY <1>1
    <3>2. /\ e.blocks \in [B -> Blocks] /\ DOMAIN e.blocks = B /\ e.blocks[b] = u
          /\ \A c \in B \ {b} : e.blocks[c] = d.blocks[c]
      <4> HIDE DEF e, B, b, u
      <4>1. /\ Put(d.blocks, b, u) \in [B \cup {b} -> Blocks]
            /\ DOMAIN Put(d.blocks, b, u) = B \cup {b}
            /\ Put(d.blocks, b, u)[b] = u
            /\ \A c \in B \ {b} : Put(d.blocks, b, u)[c] = d.blocks[c]
        BY <1>2, <1>3 DEF Put
      <4> QED BY <2>1, <3>1, <4>1
    <3> QED BY <1>3, <1>5, <3>2
  <2>3. /\ e.free \in Seq(Offsets) /\ IsInjective(e.free) /\ ToSet(e.free) = ToSet(d.free) \ {b}
        /\ Len(e.free) = Len(d.free) - 1 /\ Len(d.free) \in Nat
        /\ \A i \in 1 .. Len(d.free) - 1 : e.free[i] = d.free[i + 1]
    <3>1. IsInjective(d.free)
      BY <1>1 DEF Listing
    <3> HIDE DEF e
    <3>2. /\ Tail(d.free) \in Seq(Offsets)
          /\ Len(Tail(d.free)) = Len(d.free) - 1 /\ Len(d.free) \in Nat
          /\ \A i \in 1 .. Len(d.free) - 1 : Tail(d.free)[i] = d.free[i + 1]
          /\ IsInjective(Tail(d.free))
          /\ ToSet(Tail(d.free)) = ToSet(d.free) \ {Head(d.free)}
      BY <1>1, <1>2, <3>1, TailOfList
    <3> QED BY <2>1, <3>2
  <2> HIDE DEF e
  <2>4. e \in Pages
    <3>1. [free |-> e.free, blocks |-> e.blocks] \in Pages
      BY <1>2, <2>2, <2>3, PageOfFields
    <3> QED BY <2>1, <3>1
  <2>5. Tiled(e, 1, 2, PageSize - 4)
    BY <1>1, <2>2, TilingKept
  <2>6. Listing(e, len)
    <3>1. ToSet(e.free) = {c \in DOMAIN e.blocks : ~e.blocks[c].used}
      BY <1>1, <1>3, <2>2, <2>3 DEF Listing
    <3>2. ASSUME NEW i \in 1 .. Len(e.free) - 1 PROVE e.blocks[e.free[i]].len = len
      <4>1. i \in 1 .. Len(d.free) - 1 /\ i + 1 \in 1 .. Len(d.free) - 1
        BY <2>3
      <4>2. e.free[i] = d.free[i + 1] /\ d.blocks[d.free[i + 1]].len = len
        BY <1>1, <2>3, <4>1 DEF Listing
      <4>3. d.free[i + 1] \in B
        <5>1. i + 1 \in DOMAIN d.free
          BY <1>2, <2>3, <4>1
        <5> QED BY <1>1, <5>1 DEF Listing, ToSet
      <4> QED BY <2>2, <4>2, <4>3
    <3> QED BY <2>3, <3>1, <3>2 DEF Listing
  <2>7. Regular(e, len)
    BY <1>1, <1>3, <2>2 DEF Regular
  <2>8. Holds(e, FixedRecs)
    BY <1>1, <1>3, <2>2 DEF Holds
  <2>9. Adds(d, e, b, r)
    BY <1>1, <1>2, <1>3, <2>2 DEF Adds, Used
  <2> QED BY <2>4, <2>5, <2>6, <2>7, <2>8, <2>9 DEF FixedOK, e
<1>6. CASE m # len
  <2>1. Tail(d.free) = <<>> /\ ToSet(d.free) = {b} /\ b + 1 + m = PageSize - 4
    <3>1. HeadLen(d) # len
      BY <1>1, <1>6
    <3>2. /\ Tail(d.free) = <<>> /\ ToSet(d.free) = {Head(d.free)}
          /\ Head(d.free) + 1 + HeadLen(d) = PageSize - 4
      BY <1>1, <3>1, FreeHead
    <3> QED BY <1>1, <3>2
  <2> HIDE DEF m, rest
  <2>2. m >= len + 1 /\ m - len - 1 \in 0 .. PageSize /\ m - len - 1 = m - 1 - len
    BY <1>1, <1>2, <1>6
  <2>3. rest \notin B /\ rest \in Offsets
    <3>1. \A c \in B : c <= b \/ c >= b + 1 + m
      BY <1>1, <1>4 DEF Tiled
    <3>2. rest > b /\ rest < b + 1 + m /\ rest \in Nat /\ rest < PageSize
      <4>1. len \in Nat /\ b \in Nat /\ m \in Nat /\ m >= len + 1 /\ b + 1 + m <= PageSize
            /\ rest = b + 1 + len
        BY <1>1, <1>2, <1>4, <2>2
      <4> HIDE DEF b
      <4> QED BY <4>1
    <3>3. rest \in Offsets
      BY <3>2 DEF Offsets
    <3>4. ~ (rest <= b) /\ ~ (rest >= b + 1 + m)
      BY <1>2, <3>2
    <3> QED BY <3>1, <3>3, <3>4
  <2>4. /\ e.free = <<rest>>
        /\ e.blocks = Put(Put(d.blocks, b, u), rest, FreeBlock(m - len - 1))
        /\ e = [free |-> e.free, blocks |-> e.blocks]
    <3>1. HeadLen(d) # len /\ m - 1 - len = m - len - 1 /\ <<rest>> \o <<>> = <<rest>>
      BY <1>1, <1>6, <2>2
    <3>2. e = [free |-> <<rest>> \o <<>>,
               blocks |-> Put(Put(d.blocks, b, u), rest, FreeBlock(m - 1 - len))]
      BY <1>1, <1>4, <2>1, <3>1 DEF FixedInsert
    <3> HIDE DEF e
    <3> QED BY <3>1, <3>2
  <2>5. FreeBlock(m - len - 1) \in Blocks
    BY <2>2, BlockTypes
  <2>6. /\ DOMAIN e.blocks = B \cup {rest} /\ e.blocks[b] = u
        /\ e.blocks[rest] = FreeBlock(m - len - 1)
        /\ \A c \in B \ {b} : e.blocks[c] = d.blocks[c]
        /\ e.blocks \in [B \cup {rest} -> Blocks]
    <3> DEFINE g == Put(d.blocks, b, u)
    <3>1. B \cup {b} = B /\ b # rest
      BY <1>1, <2>3
    <3>2. g \in [B -> Blocks] /\ g[b] = u /\ \A c \in B \ {b} : g[c] = d.blocks[c]
      <4> HIDE DEF B, b, u
      <4>1. /\ g \in [B \cup {b} -> Blocks] /\ g[b] = u
            /\ \A c \in B \ {b} : g[c] = d.blocks[c]
        BY <1>2, <1>3 DEF Put
      <4> QED BY <3>1, <4>1
    <3> HIDE DEF g, e
    <3>3. /\ DOMAIN e.blocks = B \cup {rest} /\ e.blocks[rest] = FreeBlock(m - len - 1)
          /\ \A c \in B \ {rest} : e.blocks[c] = g[c]
          /\ e.blocks \in [B \cup {rest} -> Blocks]
      <4>1. e.blocks = Put(g, rest, FreeBlock(m - len - 1))
        BY <2>4 DEF g
      <4> DEFINE v == FreeBlock(m - len - 1)
      <4> HIDE DEF v, B
      <4>2. v \in Blocks
        BY <2>5 DEF v
      <4>3. /\ Put(g, rest, v) \in [B \cup {rest} -> Blocks]
            /\ DOMAIN Put(g, rest, v) = B \cup {rest}
            /\ Put(g, rest, v)[rest] = v
            /\ \A c \in B \ {rest} : Put(g, rest, v)[c] = g[c]
        BY <3>2, <4>2 DEF Put
      <4> QED BY <4>1, <4>3 DEF v
    <3>4. \A c \in B : c # rest
      BY <2>3
    <3> QED BY <1>1, <3>2, <3>3, <3>4
  <2>7. ~e.blocks[rest].used /\ e.blocks[rest].len = m - len - 1
    BY <2>6 DEF FreeBlock
  <2> HIDE DEF e
  <2>8. e \in Pages
    <3>1. <<rest>> \in Seq(Offsets) /\ B \cup {rest} \in SUBSET Offsets
      BY <1>2, <2>3
    <3>2. [free |-> <<rest>>, blocks |-> e.blocks] \in Pages
      BY <2>6, <3>1, PageOfFields
    <3> QED BY <2>4, <3>2
  <2>9. Tiled(e, 1, 2, PageSize - 4)
    <3> USE DEF rest, m
    <3>1. PageSize - 4 \in Nat /\ 1 \in Nat /\ m >= len + 1
      BY <2>2
    <3>2. IsSplit(d, e, 1, b, len, rest)
      BY <1>1, <1>3, <2>3, <2>6, <2>7, <3>1 DEF IsSplit
    <3> HIDE DEF rest
    <3> QED BY <1>1, <1>3, <3>1, <3>2, TilingSplit
  <2>10. Listing(e, len)
    <3>1. ToSet(e.free) = {rest} /\ Len(e.free) = 1 /\ IsInjective(e.free)
      BY <2>4 DEF ToSet, IsInjective
    <3>2. {c \in DOMAIN e.blocks : ~e.blocks[c].used} = {rest}
      BY <1>1, <1>3, <2>1, <2>6, <2>7 DEF Listing
    <3> QED BY <3>1, <3>2 DEF Listing
  <2>11. Regular(e, len)
    <3>1. \E k \in Nat : rest = k * (len + 1) + 2
      <4>1. PICK k \in Nat : b = k * (len + 1) + 2
        BY <1>1 DEF Regular
      <4>2. rest = (k + 1) * (len + 1) + 2
        BY <1>1, <1>4, <4>1
      <4> QED BY <4>2
    <3>2. rest + 1 + e.blocks[rest].len = PageSize - 4
      <4>1. rest + 1 + (m - len - 1) = b + 1 + m
        <5>1. len \in Nat /\ b \in Nat /\ m \in Nat /\ rest = b + 1 + len
          BY <1>1, <1>2, <1>4
        <5> HIDE DEF b
        <5> QED BY <5>1
      <4> QED BY <2>1, <2>7, <4>1
    <3> QED BY <1>1, <1>3, <2>6, <2>7, <3>1, <3>2 DEF Regular
  <2>12. Holds(e, FixedRecs)
    BY <1>1, <1>3, <2>6, <2>7 DEF Holds
  <2>13. Adds(d, e, b, r)
    BY <1>1, <1>2, <1>3, <2>3, <2>6, <2>7 DEF Adds, Used
  <2> QED BY <2>8, <2>9, <2>10, <2>11, <2>12, <2>13 DEF FixedOK, e
<1> QED BY <1>5, <1>6

(* tryInsert on a variable page.                                            *)
LEMMA VarInsertOK ==
  ASSUME NEW d, VarOK(d), NEW r \in VarRecs, VarFits(d, Length(r)) # {}
  PROVE  VarOK(VarInsert(d, r)) /\ Adds(d, VarInsert(d, r), Min(VarFits(d, Length(r))), r)
<1> DEFINE n == Length(r)
           b == Min(VarFits(d, n))
           B == DOMAIN d.blocks
           m == d.blocks[b].len
           rest == b + 3 + n
           e == VarInsert(d, r)
           u == UsedBlock(r)
           f == d.blocks
<1>1. n \in Nat /\ d \in Pages /\ Tiled(d, 3, 0, PageSize) /\ Holds(d, VarRecs)
  BY DEF Length, VarOK
<1>2. /\ B \in SUBSET Offsets /\ f \in [B -> Blocks]
      /\ \A c \in B : c \in Nat /\ c < PageSize /\ f[c].len \in Nat /\ f[c].used \in BOOLEAN
                      /\ f[c].len <= PageSize
  BY <1>1, PageFields
<1>3. b \in B /\ ~f[b].used /\ (m >= n + 3 \/ m = n)
  <2>1. VarFits(d, n) \in SUBSET Nat
    BY <1>2 DEF VarFits
  <2>2. b \in VarFits(d, n)
    <3> HIDE DEF n
    <3> QED BY <2>1, MinIsLeast, n = Length(r) DEF n
  <2> HIDE DEF b
  <2> QED BY <2>2 DEF VarFits
<1>4. /\ b \in Nat /\ m \in Nat /\ m <= PageSize /\ b + 3 + m <= PageSize
      /\ \A c \in B : c <= b \/ c >= b + 3 + m
  <2>1. b + 3 + m \in B \cup {PageSize} /\ \A c \in B : c <= b \/ c >= b + 3 + m
    BY <1>1, <1>3 DEF Tiled
  <2> HIDE DEF b, B, n, m
  <2> QED BY <1>2, <1>3, <2>1 DEF m
<1>5. u \in Blocks /\ u.used /\ u.len = n /\ u.rec = r
  <2>1. Length(r) \in 0 .. PageSize
    <3> HIDE DEF b, m
    <3> QED BY <1>1, <1>3, <1>4
  <2> QED BY <2>1, BlockTypes DEF UsedBlock, Recs
<1>6. /\ e.free = <<>> /\ e = [free |-> e.free, blocks |-> e.blocks]
      /\ e.blocks = IF m >= n + 3 THEN Put(Put(f, b, u), rest, FreeBlock(m - n - 3)) ELSE Put(f, b, u)
  BY DEF VarInsert
<1> DEFINE g == Put(f, b, u)
<1>7. /\ g \in [B -> Blocks] /\ g[b] = u
      /\ \A c \in B \ {b} : g[c] = f[c]
  <2> HIDE DEF b, u, f
  <2> QED BY <1>2, <1>3, <1>5 DEF Put, f
<1>8. CASE ~ (m >= n + 3)
  <2>1. e.blocks = g /\ m = n
    BY <1>3, <1>6, <1>8
  <2> HIDE DEF e, g, u, n, m, b
  <2>2. e \in Pages
    <3>1. [free |-> <<>>, blocks |-> g] \in Pages
      <4> <<>> \in Seq(Offsets) OBVIOUS
      <4> QED BY <1>2, <1>7, PageOfFields
    <3> QED BY <1>6, <2>1, <3>1
  <2>3. Tiled(e, 3, 0, PageSize)
    <3>1. DOMAIN e.blocks = B /\ \A c \in B : e.blocks[c].len = f[c].len
      BY <1>5, <1>7, <2>1 DEF m
    <3> QED BY <1>1, <3>1, TilingKept
  <2>4. Holds(e, VarRecs)
    BY <1>1, <1>5, <1>7, <2>1 DEF Holds
  <2>5. Adds(d, e, b, r)
    BY <1>2, <1>3, <1>5, <1>7, <2>1 DEF Adds, Used
  <2> QED BY <2>2, <2>3, <2>4, <2>5 DEF VarOK, e, b, n
<1>9. CASE m >= n + 3
  <2> DEFINE k == m - n - 3
             v == FreeBlock(k)
  <2>1. e.blocks = Put(g, rest, v)
    BY <1>6, <1>9
  <2>2. rest \in Nat /\ rest > b /\ rest < b + 3 + m /\ k \in 0 .. PageSize /\ rest < PageSize
    <3> HIDE DEF b, m, n
    <3> QED BY <1>1, <1>4, <1>9
  <2>3. v \in Blocks /\ ~v.used /\ v.len = k
    <3> HIDE DEF k
    <3>1. v \in Blocks
      BY <2>2, BlockTypes
    <3> QED BY <3>1 DEF FreeBlock
  <2>4. rest \notin B /\ rest \in Offsets
    <3> HIDE DEF rest, b, m
    <3> QED BY <1>4, <2>2 DEF Offsets
  <2> HIDE DEF e, g, u, v, k
  <2>5. /\ e.blocks \in [B \cup {rest} -> Blocks] /\ DOMAIN e.blocks = B \cup {rest}
        /\ e.blocks[rest] = v
        /\ \A c \in B : e.blocks[c] = g[c]
    <3> HIDE DEF rest, B
    <3> QED BY <1>7, <2>1, <2>3, <2>4 DEF Put
  <2>6. e.blocks[b] = u /\ \A c \in B \ {b} : e.blocks[c] = f[c]
    BY <1>3, <1>7, <2>5
  <2>7. e \in Pages
    <3>1. <<>> \in Seq(Offsets) /\ B \cup {rest} \in SUBSET Offsets
      BY <1>2, <2>4
    <3>2. [free |-> <<>>, blocks |-> e.blocks] \in Pages
      BY <2>5, <3>1, PageOfFields
    <3> QED BY <1>6, <3>2
  <2>8. Tiled(e, 3, 0, PageSize)
    <3>1. d.blocks[b].len >= n + 3 /\ e.blocks[b].len = n /\ e.blocks[rest].len = d.blocks[b].len - n - 3
          /\ \A c \in B \ {b} : e.blocks[c].len = d.blocks[c].len
      BY <1>5, <1>9, <2>3, <2>5, <2>6 DEF k
    <3>2. IsSplit(d, e, 3, b, n, rest)
      BY <1>1, <1>3, <2>4, <2>5, <3>1 DEF IsSplit
    <3>3. PageSize \in Nat /\ 3 \in Nat
      OBVIOUS
    <3> HIDE DEF n, b, rest
    <3> QED BY <1>1, <1>3, <3>2, <3>3, TilingSplit
  <2>9. Holds(e, VarRecs)
    BY <1>1, <1>5, <2>3, <2>5, <2>6 DEF Holds
  <2>10. Adds(d, e, b, r)
    BY <1>2, <1>3, <1>5, <2>3, <2>4, <2>5, <2>6 DEF Adds, Used
  <2> QED BY <2>7, <2>8, <2>9, <2>10 DEF VarOK, e
<1> QED BY <1>8, <1>9

(* delOneRecord for records of one page.                                    *)
LEMMA FreedOK ==
  ASSUME len \in Lens, NEW d, NEW var \in BOOLEAN, PageOK(d, var, len),
         NEW B \in SUBSET {b \in DOMAIN d.blocks : d.blocks[b].used}
  PROVE  PageOK(Freed(d, ~var, B), var, len)
<1> DEFINE D == DOMAIN d.blocks
           e == Freed(d, ~var, B)
<1>1. d \in Pages /\ D \in SUBSET Offsets /\ d.blocks \in [D -> Blocks] /\ d.free \in Seq(Offsets)
      /\ \A b \in D : d.blocks[b].len \in Nat /\ d.blocks[b].len <= PageSize /\ d.blocks[b].used \in BOOLEAN
  <2>1. d \in Pages
    BY DEF PageOK, FixedOK, VarOK
  <2> QED BY <2>1, PageFields
<1>2. len \in Nat
  OBVIOUS
<1>3. ~var => \A b \in B : d.blocks[b].len = len
  BY DEF PageOK, FixedOK, Regular
<1>4. /\ DOMAIN e.blocks = D
      /\ \A b \in B : e.blocks[b] = FreeBlock(d.blocks[b].len)
      /\ \A b \in D \ B : e.blocks[b] = d.blocks[b]
  BY <1>3 DEF Freed
<1>5. \A b \in B : ~e.blocks[b].used /\ e.blocks[b].len = d.blocks[b].len
  <2>1. \A n : ~FreeBlock(n).used /\ FreeBlock(n).len = n
    BY DEF FreeBlock
  <2> HIDE DEF e
  <2> QED BY <1>4, <2>1
<1>6. /\ e = [free |-> e.free, blocks |-> e.blocks]
      /\ ~var => e.free = Descending(B) \o d.free
      /\ var => e.free = <<>>
      /\ \E F : e.blocks = [b \in D |-> F[b]]
  <2> DEFINE g == [b \in DOMAIN d.blocks |->
                    IF b \in B THEN FreeBlock(IF ~var THEN len ELSE d.blocks[b].len)
                               ELSE d.blocks[b]]
             t == IF ~var THEN Descending(B) \o d.free ELSE <<>>
  <2>1. e = [free |-> t, blocks |-> g]
    BY DEF Freed
  <2>2. \E F : g = [b \in D |-> F[b]]
    <3>1. g = [b \in D |-> g[b]]
      OBVIOUS
    <3> QED BY <3>1
  <2> HIDE DEF g, e, D
  <2> QED BY <2>1, <2>2
<1> HIDE DEF e
<1>7. e.blocks \in [D -> Blocks]
  <2>1. \A b \in D : e.blocks[b] \in Blocks
    <3>1. \A b \in B : e.blocks[b] \in Blocks
      BY <1>1, <1>4, BlockTypes
    <3> QED BY <1>1, <1>4, <3>1
  <2>2. PICK F : e.blocks = [b \in D |-> F[b]]
    BY <1>6
  <2> HIDE DEF D
  <2> QED BY <2>1, <2>2
<1>8. \A b \in D : e.blocks[b].len = d.blocks[b].len
  BY <1>4, <1>5
<1>9. \A b \in D : e.blocks[b].used => d.blocks[b].used /\ e.blocks[b] = d.blocks[b]
  BY <1>4, <1>5
<1>10. CASE var
  <2>1. e \in Pages
    <3>1. <<>> \in Seq(Offsets)
      OBVIOUS
    <3>2. [free |-> <<>>, blocks |-> e.blocks] \in Pages
      BY <1>1, <1>7, <3>1, PageOfFields
    <3>3. e.free = <<>>
      BY <1>6, <1>10
    <3> QED BY <1>6, <3>2, <3>3
  <2>2. Tiled(e, 3, 0, PageSize)
    BY <1>4, <1>8, <1>10, TilingKept DEF PageOK, VarOK
  <2>3. Holds(e, VarRecs)
    BY <1>4, <1>9, <1>10 DEF PageOK, VarOK, Holds
  <2> QED BY <1>10, <2>1, <2>2, <2>3 DEF PageOK, VarOK, e
<1>11. CASE ~var
  <2>0. Tiled(d, 1, 2, PageSize - 4) /\ Listing(d, len) /\ Regular(d, len) /\ Holds(d, FixedRecs)
    BY <1>11 DEF PageOK, FixedOK
  <2> DEFINE s == Descending(B)
  <2>1. s \in Seq(Offsets) /\ IsInjective(s) /\ ToSet(s) = B
    <3> B \in SUBSET Offsets BY <1>1
    <3> QED BY DescendingLists
  <2>2. ToSet(s) \cap ToSet(d.free) = {}
    BY <2>0, <2>1 DEF Listing
  <2> HIDE DEF s
  <2>3. e.free = s \o d.free
    BY <1>6, <1>11 DEF s
  <2>4. s \o d.free \in Seq(Offsets) /\ IsInjective(s \o d.free) /\ ToSet(s \o d.free) = B \cup ToSet(d.free)
    BY <1>1, <2>0, <2>1, <2>2, ConcatOfLists DEF Listing
  <2>5. e \in Pages
    <3>1. [free |-> e.free, blocks |-> e.blocks] \in Pages
      BY <1>1, <1>7, <2>3, <2>4, PageOfFields
    <3> QED BY <1>6, <3>1
  <2>6. Tiled(e, 1, 2, PageSize - 4)
    BY <1>4, <1>8, <2>0, TilingKept
  <2>7. Listing(e, len)
    <3>1. ToSet(e.free) = {b \in DOMAIN e.blocks : ~e.blocks[b].used}
      BY <1>4, <1>5, <2>0, <2>3, <2>4 DEF Listing
    <3>2. ASSUME NEW i \in 1 .. Len(e.free) - 1 PROVE e.blocks[e.free[i]].len = len
      <4> DEFINE t == d.free
      <4>1. /\ Len(s) \in Nat /\ Len(t) \in Nat /\ Len(e.free) = Len(s) + Len(t)
            /\ DOMAIN s = 1 .. Len(s)
        BY <1>1, <2>1, <2>3
      <4>2. CASE i <= Len(s)
        <5>1. e.free[i] = s[i] /\ i \in DOMAIN s
          BY <1>1, <2>1, <2>3, <4>1, <4>2
        <5>2. s[i] \in B
          BY <2>1, <5>1 DEF ToSet
        <5> QED BY <1>3, <1>5, <1>11, <5>1, <5>2
      <4>3. CASE i > Len(s)
        <5>1. e.free[i] = t[i - Len(s)] /\ i - Len(s) \in 1 .. Len(t) - 1 /\ i - Len(s) \in DOMAIN t
          BY <1>1, <2>1, <2>3, <4>1, <4>3
        <5>2. d.blocks[t[i - Len(s)]].len = len
          BY <2>0, <5>1 DEF Listing
        <5>3. t[i - Len(s)] \in D
          BY <2>0, <5>1 DEF Listing, ToSet
        <5> QED BY <1>8, <5>1, <5>2, <5>3
      <4> QED BY <4>1, <4>2, <4>3
    <3> QED BY <2>3, <2>4, <3>1, <3>2 DEF Listing
  <2>8. Regular(e, len)
    <3>1. ASSUME NEW b \in D
          PROVE  IF e.blocks[b].used THEN e.blocks[b].len = len
                 ELSE e.blocks[b].len = len \/ b + 1 + e.blocks[b].len = PageSize - 4
      BY <1>4, <1>5, <1>8, <1>9, <1>11, <1>3, <2>0 DEF Regular
    <3> QED BY <1>4, <2>0, <3>1 DEF Regular
  <2>9. Holds(e, FixedRecs)
    BY <1>4, <1>9, <2>0 DEF Holds
  <2> QED BY <1>11, <2>5, <2>6, <2>7, <2>8, <2>9 DEF PageOK, FixedOK, e
<1> QED BY <1>10, <1>11

(* The assertion of tryInsert on a short block: the block is the rest of    *)
(* the page, and how long that is the page and the record alone decide.     *)
LEMMA SlackIsBadLen ==
  ASSUME len \in Lens, NEW d, FixedOK(d, len), FixedSlack(d, len)
  PROVE  BadLen(len)
<1> DEFINE b == Head(d.free)
           L == HeadLen(d)
<1>1. len \in Nat /\ len >= 4 /\ L < len /\ b + 1 + len < PageSize /\ d.free # <<>>
  BY DEF FixedSlack
<1>2. b \in DOMAIN d.blocks /\ L = d.blocks[b].len
  BY <1>1, FreeHead
<1>3. L \in Nat /\ b \in Nat
  BY <1>2, PageFields DEF FixedOK
<1>4. b + 1 + L = PageSize - 4
  <2>1. HeadLen(d) # len
    BY <1>1, <1>3
  <2> QED BY <1>1, <2>1, FreeHead
<1>5. PICK k \in Nat : b = k * (len + 1) + 2
  BY <1>2 DEF FixedOK, Regular
<1> HIDE DEF b, L
<1>6. L \in len - 3 .. len - 1 /\ L \in 0 .. (len + 1) - 1
  BY <1>1, <1>3, <1>4
<1>7. PageSize - 7 = k * (len + 1) + L
  <2> DEFINE z == k * (len + 1)
  <2>1. z \in Nat
    BY <1>1
  <2> HIDE DEF z
  <2>2. b = z + 2
    BY <1>5 DEF z
  <2>3. PageSize - 7 = z + L
    BY <1>3, <1>4, <2>1, <2>2
  <2> QED BY <2>3 DEF z
<1>8. (k * (len + 1) + L) % (len + 1) = L
  <2> DEFINE q == len + 1
  <2>1. q \in Nat /\ L \in 0 .. q - 1
    BY <1>1, <1>6
  <2> HIDE DEF q
  <2>2. (k * q + L) % q = L
    BY <2>1, RestIsUnique
  <2> QED BY <2>2 DEF q
<1> QED BY <1>6, <1>7, <1>8 DEF BadLen

(* A record rewritten in place.                                             *)
LEMMA RecSetOK ==
  ASSUME len \in Lens, NEW d, NEW var \in BOOLEAN, PageOK(d, var, len),
         NEW b \in DOMAIN d.blocks, d.blocks[b].used,
         NEW r \in Recs, r \in VarRecs <=> var
  PROVE  PageOK([d EXCEPT !.blocks[b].rec = r], var, len)
<1> DEFINE D == DOMAIN d.blocks
           e == [d EXCEPT !.blocks[b].rec = r]
           u == [d.blocks[b] EXCEPT !.rec = r]
<1>1. d \in Pages /\ D \in SUBSET Offsets /\ d.blocks \in [D -> Blocks] /\ d.free \in Seq(Offsets)
  <2>1. d \in Pages
    BY DEF PageOK, FixedOK, VarOK
  <2> QED BY <2>1, PageFields
<1>2. u \in Blocks /\ u.used = d.blocks[b].used /\ u.len = d.blocks[b].len /\ u.rec = r
  <2>1. d.blocks[b] \in Blocks
    BY <1>1
  <2> QED BY <2>1 DEF Blocks
<1>3. /\ e = [free |-> d.free, blocks |-> e.blocks] /\ e.free = d.free
      /\ e.blocks = [d.blocks EXCEPT ![b] = u]
  <2>1. PICK t, F : d = [free |-> t, blocks |-> F]
    BY <1>1 DEF Pages
  <2> DEFINE g == [d.blocks EXCEPT ![b] = u]
  <2>2. e = [d EXCEPT !.blocks = g]
    OBVIOUS
  <2> HIDE DEF e, g
  <2>3. e = [free |-> t, blocks |-> g]
    BY <2>1, <2>2
  <2>4. d.free = t
    BY <2>1
  <2>5. e.blocks = g /\ e.free = t
    BY <2>3
  <2> QED BY <2>3, <2>4, <2>5 DEF g
<1> HIDE DEF e, u
<1>4. /\ e.blocks \in [D -> Blocks] /\ DOMAIN e.blocks = D /\ e.blocks[b] = u
      /\ \A c \in D \ {b} : e.blocks[c] = d.blocks[c]
  BY <1>1, <1>2, <1>3
<1>5. \A c \in D : e.blocks[c].len = d.blocks[c].len /\ e.blocks[c].used = d.blocks[c].used
  BY <1>2, <1>4
<1>6. e \in Pages
  <2>1. [free |-> d.free, blocks |-> e.blocks] \in Pages
    BY <1>1, <1>4, PageOfFields
  <2> QED BY <1>3, <2>1
<1>7. CASE var
  <2>1. Tiled(e, 3, 0, PageSize)
    BY <1>4, <1>5, <1>7, TilingKept DEF PageOK, VarOK
  <2>2. Holds(e, VarRecs)
    BY <1>2, <1>4, <1>5, <1>7 DEF PageOK, VarOK, Holds
  <2> QED BY <1>6, <1>7, <2>1, <2>2 DEF PageOK, VarOK, e
<1>8. CASE ~var
  <2>0. Tiled(d, 1, 2, PageSize - 4) /\ Listing(d, len) /\ Regular(d, len) /\ Holds(d, FixedRecs)
    BY <1>8 DEF PageOK, FixedOK
  <2>1. Tiled(e, 1, 2, PageSize - 4)
    BY <1>4, <1>5, <2>0, TilingKept
  <2>2. Listing(e, len)
    <3>1. ToSet(e.free) = {c \in DOMAIN e.blocks : ~e.blocks[c].used}
      BY <1>3, <1>4, <1>5, <2>0 DEF Listing
    <3>2. ASSUME NEW i \in 1 .. Len(e.free) - 1 PROVE e.blocks[e.free[i]].len = len
      <4>1. i \in DOMAIN d.free /\ i \in 1 .. Len(d.free) - 1
        BY <1>1, <1>3
      <4>2. d.free[i] \in D
        BY <2>0, <4>1 DEF Listing, ToSet
      <4> QED BY <1>3, <1>5, <2>0, <4>1, <4>2 DEF Listing
    <3> QED BY <1>3, <2>0, <3>1, <3>2 DEF Listing
  <2>3. Regular(e, len)
    BY <1>4, <1>5, <2>0 DEF Regular
  <2>4. Holds(e, FixedRecs)
    <3>1. r \in FixedRecs
      BY <1>8 DEF Recs
    <3> QED BY <1>2, <1>4, <1>5, <2>0, <3>1 DEF Holds
  <2> QED BY <1>6, <1>8, <2>1, <2>2, <2>3, <2>4 DEF PageOK, FixedOK, e
<1> QED BY <1>7, <1>8

(* Two dictionary pages never follow one another.                           *)
LEMMA NewPageIsData ==
  ASSUME NEW n \in Nat
  PROVE  NewPage(n) \in Nat /\ n <= NewPage(n) /\ ~IsDicPage(NewPage(n))
         /\ \A p \in Nat : n <= p /\ p < NewPage(n) => IsDicPage(p)
<1> DEFINE m == DicSize + 1
<1>1. m \in Nat /\ m >= 2
  OBVIOUS
<1>2. ASSUME n % m = 1 PROVE (n + 1) % m # 1
  <2> DEFINE a == n \div m
             b == (n + 1) \div m
  <2> SUFFICES ASSUME (n + 1) % m = 1 PROVE FALSE
    OBVIOUS
  <2>1. a \in Int /\ b \in Int /\ n = m * a + (n % m) /\ n + 1 = m * b + ((n + 1) % m)
    <3> HIDE DEF m
    <3> QED BY <1>1
  <2> HIDE DEF a, b, m
  <2> DEFINE e == b - a
  <2>2. e \in Int /\ m * e = 1
    BY <1>1, <1>2, <2>1
  <2> HIDE DEF e
  <2>3. CASE e >= 1
    <3>1. m * e >= m
      BY <1>1, <2>2, <2>3
    <3> QED BY <1>1, <2>2, <3>1
  <2>4. CASE e <= 0
    <3>1. m * e <= 0
      BY <1>1, <2>2, <2>4
    <3> QED BY <2>2, <3>1
  <2> QED BY <2>2, <2>3, <2>4
<1>3. CASE IsDicPage(n)
  <2>1. NewPage(n) = n + 1
    BY <1>3 DEF NewPage
  <2>2. ~IsDicPage(n + 1)
    BY <1>2, <1>3 DEF IsDicPage
  <2>3. \A p \in Nat : n <= p /\ p < n + 1 => p = n
    OBVIOUS
  <2> QED BY <1>3, <2>1, <2>2, <2>3
<1>4. CASE ~IsDicPage(n)
  BY <1>4 DEF NewPage
<1> QED BY <1>3, <1>4

(* How insert leaves a file f: one page d of the record's kind, an old one  *)
(* or a fresh one behind the end, is tried and written back; of the         *)
(* dictionary only entries inside the file change.                          *)
InsertedAt(f, r, res, var, page, d) ==
  /\ PageOK(d, var, len)
  /\ \/ page < f.pages /\ d = f.data[page] /\ f.dic[page].var = var
     \/ page >= f.pages /\ d = FreshPage(~var)
  /\ res.file.pages \in 2 .. MaxPage + 1 /\ page < res.file.pages
  /\ \A p \in DataPages : p < f.pages => p < res.file.pages
  /\ \A p \in DataPages : p < res.file.pages => p < f.pages \/ p = page
  /\ res.file.dic \in [DataPages -> Entries]
  /\ res.file.dic[page].var = var
  /\ \A p \in DataPages \ {page} : /\ res.file.dic[p].var = f.dic[p].var
                                   /\ p >= f.pages => ~res.file.dic[p].full
  /\ res.file.data = [f.data EXCEPT ![page] = IF res.end = "alive" THEN TryInsert(d, r) ELSE d]
  /\ res.end = IF Fits(d, r) THEN "alive"
               ELSE IF Slack(d, r) THEN "slackAssert" ELSE "nullLocation"
  /\ res.end = "alive" => res.loc = <<page, Target(d, r)>>

(* insert leaves a file like that.                                          *)
LEMMA InsertIntoShape ==
  ASSUME len \in Lens, NEW f, FileOK(f, len), NEW r \in Recs, Bounded(InsertInto(f, r).file),
         NEW res, res = InsertInto(f, r), NEW var, var = (r \in VarRecs)
  PROVE  \E page \in DataPages, d \in Pages : InsertedAt(f, r, res, var, page, d)
<1> DEFINE fixed == r \in FixedRecs
           open == {p \in DataPages : p < f.pages /\ f.dic[p].var = ~fixed /\ ~f.dic[p].full}
           hits == {p \in open : Fits(f.data[p], r) \/ Slack(f.data[p], r)}
           new  == hits = {}
           page == IF new THEN NewPage(f.pages) ELSE Min(hits)
           d    == IF new THEN FreshPage(fixed) ELSE f.data[page]
           failed == {p \in open : new \/ p < page}
           end  == IF Fits(d, r) THEN "alive" ELSE IF Slack(d, r) THEN "slackAssert" ELSE "nullLocation"
           count == IF new THEN page + 1 ELSE f.pages
           D == [p \in DataPages |->
                  IF new /\ p = page THEN NewEntry(f.dic[p], fixed)
                  ELSE IF p \in failed THEN [f.dic[p] EXCEPT !.full = TRUE] ELSE f.dic[p]]
           E == [p \in DataPages |->
                  IF p # page THEN f.data[p]
                  ELSE IF end = "alive" THEN TryInsert(d, r) ELSE d]
           L == IF end = "alive" THEN <<page, Target(d, r)>> ELSE <<>>
<1>1. res = [file |-> [pages |-> count, dic |-> D, data |-> E], loc |-> L, end |-> end]
  BY DEF InsertInto
<1>2. /\ res.file.pages = count /\ res.file.dic = D /\ res.file.data = E
      /\ res.loc = L /\ res.end = end
  <2> HIDE DEF count, D, E, L, end
  <2> QED BY <1>1
<1>3. var = ~fixed /\ var \in BOOLEAN /\ fixed \in BOOLEAN
  BY DEF Recs
<1>4. /\ f.pages \in 2 .. MaxPage + 1 /\ f.dic \in [DataPages -> Entries] /\ f.data \in [DataPages -> Pages]
      /\ \A p \in DataPages : p < f.pages => PageOK(f.data[p], f.dic[p].var, len)
      /\ \A p \in DataPages : p >= f.pages => ~f.dic[p].var /\ ~f.dic[p].full
  BY DEF FileOK
<1>5. count <= MaxPage + 1
  BY <1>2 DEF Bounded
<1>6. \A p \in DataPages : p \in Nat /\ p >= 2 /\ p <= MaxPage /\ ~IsDicPage(p)
  BY DEF DataPages
<1> HIDE DEF fixed
<1>7. /\ open \subseteq DataPages
      /\ \A p \in open : p < f.pages /\ f.dic[p].var = var
      /\ hits \subseteq open /\ failed \subseteq open
  BY <1>3
<1> HIDE DEF open, hits, failed
<1>8. /\ page \in DataPages
      /\ new => page >= f.pages /\ count = page + 1 /\ \A p \in Nat : f.pages <= p /\ p < page => IsDicPage(p)
      /\ ~new => page \in open /\ count = f.pages
  <2>1. CASE new
    <3>1. page = NewPage(f.pages) /\ count = page + 1
      BY <2>1
    <3> HIDE DEF page, count
    <3>2. page \in Nat /\ f.pages <= page /\ ~IsDicPage(page)
          /\ \A p \in Nat : f.pages <= p /\ p < page => IsDicPage(p)
      <4> f.pages \in Nat BY <1>4
      <4> QED BY <3>1, NewPageIsData
    <3>3. page \in 2 .. MaxPage
      BY <1>4, <1>5, <3>1, <3>2
    <3> QED BY <2>1, <3>1, <3>2, <3>3 DEF DataPages
  <2>2. CASE ~new
    <3>1. hits \in SUBSET Nat /\ hits # {}
      BY <1>6, <1>7, <2>2
    <3>2. Min(hits) \in hits
      BY <3>1, MinIsLeast
    <3> QED BY <1>7, <2>2, <3>2
  <2> QED BY <2>1, <2>2
<1> DEFINE isnew == new
<1>9. /\ isnew => d = FreshPage(fixed)
      /\ ~isnew => d = f.data[page]
  OBVIOUS
<1>10. isnew \in BOOLEAN
  OBVIOUS
<1>11. \A p \in DataPages :
         /\ isnew /\ p = page => D[p] = NewEntry(f.dic[p], fixed)
         /\ ~(isnew /\ p = page) /\ p \in failed => D[p] = [f.dic[p] EXCEPT !.full = TRUE]
         /\ ~(isnew /\ p = page) /\ p \notin failed => D[p] = f.dic[p]
  <2> HIDE DEF page, failed
  <2> QED OBVIOUS
<1>12. D = [p \in DataPages |-> D[p]]
  <2> HIDE DEF page, failed
  <2> QED OBVIOUS
<1>13. E = [f.data EXCEPT ![page] = IF end = "alive" THEN TryInsert(d, r) ELSE d]
  <2> HIDE DEF page, end, d
  <2> QED BY <1>4, <1>8
<1>14. new = isnew
  OBVIOUS
<1> HIDE DEF D, d, page, count, isnew
<1>15. PageOK(d, var, len) /\ d \in Pages
  <2>1. CASE isnew
    <3>1. d = FreshPage(fixed)
      BY <1>9, <2>1
    <3> QED BY <1>3, <3>1, FreshPageOK
  <2>2. CASE ~isnew
    <3>1. page \in DataPages /\ page < f.pages /\ f.dic[page].var = var /\ d = f.data[page]
      BY <1>7, <1>8, <1>9, <1>14, <2>2
    <3>2. PageOK(f.data[page], f.dic[page].var, len) /\ f.data[page] \in Pages
      BY <1>4, <3>1
    <3> QED BY <3>1, <3>2
  <2> QED BY <2>1, <2>2
<1>16. \/ page < f.pages /\ d = f.data[page] /\ f.dic[page].var = var
       \/ page >= f.pages /\ d = FreshPage(~var)
  <2>1. CASE isnew
    BY <1>3, <1>8, <1>9, <1>14, <2>1
  <2>2. CASE ~isnew
    BY <1>7, <1>8, <1>9, <1>14, <2>2
  <2> QED BY <2>1, <2>2
<1>17. \A p \in DataPages : D[p] \in Entries
  <2>1. ASSUME NEW p \in DataPages PROVE D[p] \in Entries
    <3>1. f.dic[p] \in Entries
      BY <1>4
    <3>2. [f.dic[p] EXCEPT !.full = TRUE] \in Entries /\ NewEntry(f.dic[p], fixed) \in Entries
      BY <3>1 DEF Entries, NewEntry
    <3> QED BY <1>11, <3>1, <3>2
  <2> QED BY <2>1
<1>18. D \in [DataPages -> Entries]
  BY <1>12, <1>17
<1>19. D[page].var = var
  <2>1. CASE isnew
    <3>1. ~f.dic[page].var
      BY <1>4, <1>8, <1>14, <2>1
    <3>2. D[page] = NewEntry(f.dic[page], fixed)
      BY <1>8, <1>11, <2>1
    <3>3. f.dic[page].var \in BOOLEAN
      BY <1>4, <1>8 DEF Entries
    <3>4. CASE fixed
      <4>1. D[page] = f.dic[page] /\ var = FALSE
        BY <1>3, <3>2, <3>4 DEF NewEntry
      <4> QED BY <3>1, <3>3, <4>1
    <3>5. CASE ~fixed
      <4>1. D[page] = [var |-> TRUE, full |-> FALSE] /\ var = TRUE
        BY <1>3, <3>2, <3>5 DEF NewEntry
      <4>2. D[page].var = TRUE
        BY <4>1
      <4> QED BY <4>1, <4>2, Zenon
    <3> QED BY <3>4, <3>5
  <2>2. CASE ~isnew
    <3>1. f.dic[page] \in Entries /\ f.dic[page].var = var
      BY <1>4, <1>7, <1>8, <1>14, <2>2
    <3>2. [f.dic[page] EXCEPT !.full = TRUE].var = f.dic[page].var
      BY <3>1 DEF Entries
    <3> QED BY <1>8, <1>11, <2>2, <3>1, <3>2
  <2> QED BY <2>1, <2>2
<1>20. ASSUME NEW p \in DataPages \ {page}
       PROVE  D[p].var = f.dic[p].var /\ (p >= f.pages => ~D[p].full)
  <2>1. f.dic[p] \in Entries /\ (p >= f.pages => ~f.dic[p].full)
    BY <1>4
  <2>2. [f.dic[p] EXCEPT !.full = TRUE].var = f.dic[p].var
    BY <2>1 DEF Entries
  <2>3. p \in failed => ~(p >= f.pages)
    BY <1>4, <1>6, <1>7
  <2> QED BY <1>11, <2>1, <2>2, <2>3
<1>21. /\ count \in 2 .. MaxPage + 1 /\ page < count
       /\ \A p \in DataPages : p < f.pages => p < count
       /\ \A p \in DataPages : p < count => p < f.pages \/ p = page
  <2>1. CASE isnew
    <3>1. count = page + 1 /\ page \in Nat /\ page >= f.pages /\ f.pages \in Nat /\ f.pages >= 2
      <4>1. count = page + 1 /\ page >= f.pages /\ page \in DataPages
        BY <1>8, <1>14, <2>1
      <4>2. page \in Nat
        BY <1>6, <4>1
      <4>3. f.pages \in Nat /\ f.pages >= 2
        BY <1>4
      <4> QED BY <4>1, <4>2, <4>3
    <3>2. ASSUME NEW p \in DataPages, p < count PROVE p < f.pages \/ p = page
      <4>1. p \in Nat /\ (f.pages <= p /\ p < page => IsDicPage(p)) /\ ~IsDicPage(p)
        BY <1>6, <1>8, <1>14, <2>1
      <4> QED BY <3>1, <3>2, <4>1
    <3>3. ASSUME NEW p \in DataPages, p < f.pages PROVE p < count
      <4>1. p \in Nat
        BY <1>6
      <4> QED BY <3>1, <3>3, <4>1
    <3> QED BY <1>5, <3>1, <3>2, <3>3
  <2>2. CASE ~isnew
    BY <1>4, <1>7, <1>8, <1>14, <2>2
  <2> QED BY <2>1, <2>2
<1> DEFINE G == IF end = "alive" THEN TryInsert(d, r) ELSE d
<1>22. res.end = "alive" => res.loc = <<page, Target(d, r)>>
  BY <1>2
<1>23. res.end = IF Fits(d, r) THEN "alive" ELSE IF Slack(d, r) THEN "slackAssert" ELSE "nullLocation"
  BY <1>2
<1>24. res.file.data = [f.data EXCEPT ![page] = IF res.end = "alive" THEN TryInsert(d, r) ELSE d]
  BY <1>2, <1>13
<1> HIDE DEF E, end, L
<1>25. InsertedAt(f, r, res, var, page, d)
  BY <1>2, <1>15, <1>16, <1>18, <1>19, <1>20, <1>21, <1>22, <1>23, <1>24 DEF InsertedAt
<1> QED BY <1>8, <1>15, <1>25

(* tryInsert on a page of the record's kind.                                *)
LEMMA TryInsertOK ==
  ASSUME len \in Lens, NEW r \in Recs, NEW var \in BOOLEAN, var = (r \in VarRecs),
         NEW d, PageOK(d, var, len)
  PROVE  /\ Fits(d, r) => PageOK(TryInsert(d, r), var, len) /\ Adds(d, TryInsert(d, r), Target(d, r), r)
         /\ Slack(d, r) => BadLen(len)
<1>1. CASE var
  <2>1. r \in VarRecs /\ r \notin FixedRecs
    BY <1>1
  <2> QED BY <1>1, <2>1, VarInsertOK DEF PageOK, Fits, Slack, TryInsert, Target
<1>2. CASE ~var
  <2>1. r \in FixedRecs /\ Length(r) = len
    BY <1>2 DEF Recs, Length
  <2>2. FixedOK(d, len)
    BY <1>2 DEF PageOK
  <2>3. Fits(d, r) => FixedFits(d, len)
    BY <2>1 DEF Fits
  <2>4. Slack(d, r) => FixedSlack(d, len)
    BY <2>1 DEF Slack
  <2>5. TryInsert(d, r) = FixedInsert(d, r)
    BY <2>1 DEF TryInsert
  <2>6. Fits(d, r) => FixedOK(FixedInsert(d, r), len) /\ Adds(d, FixedInsert(d, r), Head(d.free), r)
    BY <2>1, <2>2, <2>3, FixedInsertOK
  <2>7. Slack(d, r) => BadLen(len)
    BY <2>2, <2>4, SlackIsBadLen
  <2>8. Target(d, r) = Head(d.free)
    BY <2>1 DEF Target
  <2> QED BY <1>2, <2>5, <2>6, <2>7, <2>8 DEF PageOK
<1> QED BY <1>1, <1>2

(* insert keeps a file as it should be, however it ends.                    *)
LEMMA InsertIntoOK ==
  ASSUME len \in Lens, NEW f, FileOK(f, len), NEW r \in Recs, Bounded(InsertInto(f, r).file),
         NEW res, res = InsertInto(f, r)
  PROVE  /\ FileOK(res.file, len)
         /\ res.end \in Ends \cup {"alive"}
         /\ res.end = "slackAssert" => BadLen(len)
<1> DEFINE var == r \in VarRecs
<1>2. var \in BOOLEAN /\ var = (r \in VarRecs)
  OBVIOUS
<1> HIDE DEF var
<1>1. PICK page \in DataPages, d \in Pages : InsertedAt(f, r, res, var, page, d)
  BY <1>2, InsertIntoShape
<1> DEFINE e == IF res.end = "alive" THEN TryInsert(d, r) ELSE d
<1> USE DEF InsertedAt
<1>3. /\ res.end = "alive" => Fits(d, r)
      /\ res.end = "slackAssert" => Slack(d, r)
      /\ res.end \in Ends \cup {"alive"}
  BY <1>1 DEF Ends
<1>4. PageOK(e, var, len) /\ (res.end = "slackAssert" => BadLen(len))
  BY <1>1, <1>2, <1>3, TryInsertOK, ZenonT(40)
<1>5. e \in Pages
  BY <1>4 DEF PageOK, FixedOK, VarOK
<1> HIDE DEF e
<1>6. res.file.data = [f.data EXCEPT ![page] = e]
  BY <1>1 DEF e
<1>7. /\ f.pages \in 2 .. MaxPage + 1 /\ f.data \in [DataPages -> Pages]
      /\ \A p \in DataPages : p < f.pages => PageOK(f.data[p], f.dic[p].var, len)
      /\ \A p \in DataPages : p >= f.pages => f.data[p] = NoPage /\ ~f.dic[p].var /\ ~f.dic[p].full
      /\ \A p \in DataPages : p \in Nat
  BY DEF FileOK, DataPages
<1>8. /\ res.file.data \in [DataPages -> Pages] /\ res.file.data[page] = e
      /\ \A p \in DataPages \ {page} : res.file.data[p] = f.data[p]
  BY <1>5, <1>6, <1>7
<1>9. ASSUME NEW p \in DataPages, p < res.file.pages
      PROVE  PageOK(res.file.data[p], res.file.dic[p].var, len)
  <2>1. CASE p = page
    BY <1>1, <1>4, <1>8, <2>1
  <2>2. CASE p # page
    BY <1>1, <1>7, <1>8, <1>9, <2>2
  <2> QED BY <2>1, <2>2
<1>10. ASSUME NEW p \in DataPages, p >= res.file.pages
       PROVE  res.file.data[p] = NoPage /\ ~res.file.dic[p].var /\ ~res.file.dic[p].full
  <2>1. p # page /\ p >= f.pages
    BY <1>1, <1>7, <1>10
  <2> QED BY <1>1, <1>7, <1>8, <2>1
<1> QED BY <1>1, <1>3, <1>4, <1>8, <1>9, <1>10 DEF FileOK

(* delOneRecord leaves the pages of the file in order and those behind its  *)
(* end, which hold no record, alone.                                        *)
LEMMA FreedInFile ==
  ASSUME len \in Lens, NEW f, FileOK(f, len), NEW p \in DataPages,
         NEW B \in SUBSET {b \in DOMAIN f.data[p].blocks : f.data[p].blocks[b].used},
         NEW e, e = Freed(f.data[p], ~f.dic[p].var, B)
  PROVE  /\ e \in Pages
         /\ p < f.pages => PageOK(e, f.dic[p].var, len)
         /\ p >= f.pages => e = NoPage
<1>1. f.dic[p].var \in BOOLEAN
  BY DEF FileOK, Entries
<1>2. CASE p < f.pages
  <2>1. PageOK(e, f.dic[p].var, len)
    BY <1>1, <1>2, FreedOK DEF FileOK
  <2>2. e \in Pages
    BY <2>1 DEF PageOK, FixedOK, VarOK
  <2>3. ~(p >= f.pages)
    BY <1>2 DEF FileOK, DataPages
  <2> QED BY <1>2, <2>1, <2>2, <2>3
<1>3. CASE p >= f.pages
  <2> DEFINE d == f.data[p]
  <2>1. d = NoPage /\ ~f.dic[p].var /\ ~(p < f.pages)
    BY <1>3 DEF FileOK, DataPages
  <2>2. d.free = <<>> /\ DOMAIN d.blocks = {} /\ B = {}
    BY <2>1 DEF NoPage
  <2>3. Descending({}) = <<>>
    <3> DEFINE s == Descending({})
    <3>1. s \in Seq(Offsets) /\ ToSet(s) = {}
      <4> {} \in SUBSET Offsets OBVIOUS
      <4> QED BY DescendingLists
    <3> HIDE DEF s
    <3>2. ASSUME s # <<>> PROVE FALSE
      <4>1. 1 \in DOMAIN s
        BY <3>1, <3>2
      <4> QED BY <3>1, <4>1 DEF ToSet
    <3> QED BY <3>2 DEF s
  <2>4. e = [free |-> Descending({}) \o <<>>, blocks |-> [b \in {} |-> FreeBlock(len)]]
    BY <2>1, <2>2 DEF Freed
  <2>5. <<>> \o <<>> = <<>>
    OBVIOUS
  <2>6. [b \in {} |-> FreeBlock(len)] = [b \in {} |-> FreeBlock(0)]
    OBVIOUS
  <2>7. e = NoPage
    BY <2>3, <2>4, <2>5, <2>6 DEF NoPage
  <2>8. d \in Pages
    BY DEF FileOK
  <2> QED BY <2>1, <2>7, <2>8
<1>4. p \in Int /\ f.pages \in Int
  BY DEF FileOK, DataPages
<1> QED BY <1>2, <1>3, <1>4

-----------------------------------------------------------------------------
(* The steps *)

(* What the invariant says of a live record.                                *)
LEMMA LiveFacts ==
  ASSUME IInv, NEW l \in Live
  PROVE  /\ l \in DataPages \X Offsets /\ l[1] \in DataPages /\ l[2] \in Offsets
         /\ l[2] \in DOMAIN data[l[1]].blocks /\ data[l[1]].blocks[l[2]].used
         /\ l[1] < pages
         /\ PageOK(data[l[1]], dic[l[1]].var, len)
         /\ dic[l[1]].var \in BOOLEAN
<1>1. /\ l \in DataPages \X Offsets /\ l[1] \in DataPages /\ l[2] \in Offsets
      /\ l[2] \in DOMAIN data[l[1]].blocks /\ data[l[1]].blocks[l[2]].used
  BY DEF Live, Locations, Offsets
<1>2. /\ pages \in 2 .. MaxPage + 1 /\ dic \in [DataPages -> Entries]
      /\ \A p \in DataPages : p < pages => PageOK(data[p], dic[p].var, len)
      /\ \A p \in DataPages : p >= pages => data[p] = NoPage
  BY DEF IInv, FileOK, File
<1>3. l[1] < pages
  <2>1. DOMAIN NoPage.blocks = {}
    BY DEF NoPage
  <2>2. ~(l[1] >= pages)
    BY <1>1, <1>2, <2>1
  <2>3. l[1] \in Int
    BY <1>1 DEF DataPages
  <2> QED BY <1>2, <2>2, <2>3
<1>4. dic[l[1]].var \in BOOLEAN
  BY <1>1, <1>2 DEF Entries
<1> QED BY <1>1, <1>2, <1>3, <1>4

(* The fields of the file.                                                  *)
LEMMA FileFields ==
  /\ File.pages = pages /\ File.dic = dic /\ File.data = data
  /\ File'.pages = pages' /\ File'.dic = dic' /\ File'.data = data'
BY DEF File

(* Any change of pages that leaves those of the file in order, with what it *)
(* does to the marks "full" inside the file.                                *)
LEMMA PagesChanged ==
  ASSUME IInv, len' = len, pages' = pages, status' \in Ends \cup {"alive"}, status' # "slackAssert",
         dic' \in [DataPages -> Entries],
         data' \in [DataPages -> Pages],
         \A p \in DataPages : dic'[p].var = dic[p].var /\ (p >= pages => ~dic'[p].full),
         \A p \in DataPages : p < pages => PageOK(data'[p], dic[p].var, len),
         \A p \in DataPages : p >= pages => data'[p] = NoPage
  PROVE  IInv'
<1>1. FileOK(File', len')
  BY FileFields DEF FileOK, IInv
<1>2. SlackAssertOnlyIfBadLen'
  BY DEF SlackAssertOnlyIfBadLen
<1> QED BY <1>1, <1>2 DEF IInv

(* An insert into a file that is in order.                                  *)
LEMMA InsertStep ==
  ASSUME IInv, NEW f, FileOK(f, len), NEW r \in Recs, NEW res, res = InsertInto(f, r),
         Bounded(res.file), Becomes(res.file), status' = res.end, len' = len
  PROVE  IInv'
<1>1. /\ FileOK(res.file, len) /\ res.end \in Ends \cup {"alive"}
      /\ res.end = "slackAssert" => BadLen(len)
  BY InsertIntoOK DEF IInv
<1>2. FileOK(File', len')
  BY <1>1, FileFields DEF FileOK, Becomes
<1>3. SlackAssertOnlyIfBadLen'
  BY <1>1 DEF SlackAssertOnlyIfBadLen, BadLen
<1> QED BY <1>1, <1>2, <1>3 DEF IInv

(* The pages without the record at l.                                       *)
FreedOne(D, l) == D = [data EXCEPT ![l[1]] = Freed(@, ~dic[l[1]].var, {l[2]})]

(* Freeing one record.                                                      *)
LEMMA OneFreed ==
  ASSUME IInv, NEW l \in Live, NEW D, FreedOne(D, l)
  PROVE  /\ D \in [DataPages -> Pages]
         /\ \A p \in DataPages : p < pages => PageOK(D[p], dic[p].var, len)
         /\ \A p \in DataPages : p >= pages => D[p] = NoPage
<1>1. len \in Lens /\ FileOK(File, len)
  BY DEF IInv
<1>2. /\ data \in [DataPages -> Pages] /\ pages \in Int
      /\ \A p \in DataPages : p < pages => PageOK(data[p], dic[p].var, len)
      /\ \A p \in DataPages : p >= pages => data[p] = NoPage
      /\ \A p \in DataPages : p \in Int
  BY <1>1, FileFields DEF FileOK, DataPages
<1> DEFINE q == l[1]
           e == Freed(data[q], ~dic[q].var, {l[2]})
<1>3. q \in DataPages /\ {l[2]} \in SUBSET {b \in DOMAIN data[q].blocks : data[q].blocks[b].used}
      /\ q < pages
  BY LiveFacts
<1>4. e \in Pages /\ PageOK(e, dic[q].var, len)
  BY <1>1, <1>3, FreedInFile, FileFields
<1> HIDE DEF e
<1>5. D = [data EXCEPT ![q] = e]
  BY DEF e, FreedOne
<1> HIDE DEF q
<1>6. D \in [DataPages -> Pages] /\ D[q] = e /\ \A p \in DataPages \ {q} : D[p] = data[p]
  <2>1. data \in [DataPages -> Pages] /\ q \in DataPages /\ e \in Pages
    BY <1>2, <1>3, <1>4
  <2>2. Replaces(D, data, DataPages, Pages, q, e)
    BY <1>5, <2>1 DEF Replaces
  <2> QED BY <2>2, ReplacedFacts
<1>7. ASSUME NEW p \in DataPages
      PROVE  (p < pages => PageOK(D[p], dic[p].var, len)) /\ (p >= pages => D[p] = NoPage)
  <2>1. CASE p = q
    <3>1. q \in Int /\ ~(q >= pages)
      BY <1>2, <1>3
    <3> QED BY <1>4, <1>6, <2>1, <3>1
  <2>2. CASE p # q
    BY <1>2, <1>6, <2>2
  <2> QED BY <2>1, <2>2
<1> QED BY <1>6, <1>7

(* Freeing the records del selects.                                         *)
LEMMA ManyFreed ==
  ASSUME IInv, NEW S \in SUBSET Live
  PROVE  /\ Deleted(S) \in [DataPages -> Pages]
         /\ \A p \in DataPages : p < pages => PageOK(Deleted(S)[p], dic[p].var, len)
         /\ \A p \in DataPages : p >= pages => Deleted(S)[p] = NoPage
         /\ Unmarked(S) \in [DataPages -> Entries]
         /\ \A p \in DataPages : /\ Unmarked(S)[p].var = dic[p].var
                                 /\ p >= pages => ~Unmarked(S)[p].full
<1>1. len \in Lens /\ FileOK(File, len)
  BY DEF IInv
<1>2. ASSUME NEW p \in DataPages
      PROVE  /\ Deleted(S)[p] \in Pages
             /\ p < pages => PageOK(Deleted(S)[p], dic[p].var, len)
             /\ p >= pages => Deleted(S)[p] = NoPage
  <2> DEFINE B == {l[2] : l \in {m \in S : m[1] = p}}
             e == Freed(data[p], ~dic[p].var, B)
  <2>1. B \in SUBSET {b \in DOMAIN data[p].blocks : data[p].blocks[b].used}
    <3>1. ASSUME NEW l \in S, l[1] = p PROVE l[2] \in DOMAIN data[p].blocks /\ data[p].blocks[l[2]].used
      <4>1. l \in Live
        OBVIOUS
      <4> QED BY <3>1, <4>1, LiveFacts
    <3> QED BY <3>1
  <2>2. Deleted(S)[p] = e
    BY DEF Deleted
  <2> HIDE DEF B
  <2>3. e \in Pages /\ (p < pages => PageOK(e, dic[p].var, len)) /\ (p >= pages => e = NoPage)
    BY <1>1, <2>1, FreedInFile, FileFields
  <2> QED BY <2>2, <2>3
<1>3. ASSUME NEW p \in DataPages
      PROVE  /\ Unmarked(S)[p] \in Entries
             /\ Unmarked(S)[p].var = dic[p].var
             /\ p >= pages => ~Unmarked(S)[p].full
  <2>1. dic[p] \in Entries /\ (p >= pages => ~dic[p].full)
    BY <1>1, FileFields DEF FileOK
  <2>2. Unmarked(S)[p] = dic[p] \/ Unmarked(S)[p] = [dic[p] EXCEPT !.full = FALSE]
    BY DEF Unmarked
  <2>3. /\ [dic[p] EXCEPT !.full = FALSE] \in Entries
        /\ [dic[p] EXCEPT !.full = FALSE].var = dic[p].var
        /\ ~[dic[p] EXCEPT !.full = FALSE].full
    BY <2>1 DEF Entries
  <2> QED BY <2>1, <2>2, <2>3
<1>4. Deleted(S) \in [DataPages -> Pages]
  <2>1. \E F : Deleted(S) = [p \in DataPages |-> F[p]]
    <3> DEFINE F == Deleted(S)
    <3>1. F = [p \in DataPages |-> F[p]]
      BY DEF Deleted
    <3> QED BY <3>1
  <2>2. PICK F : Deleted(S) = [p \in DataPages |-> F[p]]
    BY <2>1
  <2> QED BY <1>2, <2>2
<1>5. Unmarked(S) \in [DataPages -> Entries]
  <2>1. \E F : Unmarked(S) = [p \in DataPages |-> F[p]]
    <3> DEFINE F == Unmarked(S)
    <3>1. F = [p \in DataPages |-> F[p]]
      BY DEF Unmarked
    <3> QED BY <3>1
  <2>2. PICK F : Unmarked(S) = [p \in DataPages |-> F[p]]
    BY <2>1
  <2> QED BY <1>3, <2>2
<1> QED BY <1>2, <1>3, <1>4, <1>5

(* The record at l is rewritten in place.                                   *)
SetOne(l, r) == data' = [data EXCEPT ![l[1]].blocks[l[2]].rec = r]

(* Rewriting one record.                                                    *)
LEMMA OneSet ==
  ASSUME IInv, NEW l \in Live, NEW r \in Recs, (r \in VarRecs) <=> dic[l[1]].var,
         SetOne(l, r),
         UNCHANGED <<len, pages, dic, status>>
  PROVE  IInv'
<1>1. len \in Lens /\ FileOK(File, len) /\ status \in Ends \cup {"alive"} /\ SlackAssertOnlyIfBadLen
  BY DEF IInv
<1>2. /\ data \in [DataPages -> Pages] /\ pages \in Int /\ dic \in [DataPages -> Entries]
      /\ \A p \in DataPages : p < pages => PageOK(data[p], dic[p].var, len)
      /\ \A p \in DataPages : p >= pages => data[p] = NoPage /\ ~dic[p].full /\ ~dic[p].var
      /\ \A p \in DataPages : p \in Int
      /\ pages \in 2 .. MaxPage + 1
  BY <1>1, FileFields DEF FileOK, DataPages
<1> DEFINE q == l[1]
           b == l[2]
           e == [data[q] EXCEPT !.blocks[b].rec = r]
<1>3. /\ q \in DataPages /\ b \in DOMAIN data[q].blocks /\ data[q].blocks[b].used
      /\ q < pages /\ PageOK(data[q], dic[q].var, len) /\ dic[q].var \in BOOLEAN
  BY LiveFacts
<1>4. data' = [data EXCEPT ![q] = e]
  BY DEF SetOne
<1>5. PageOK(e, dic[q].var, len)
  BY <1>1, <1>3, RecSetOK
<1>6. e \in Pages
  BY <1>5 DEF PageOK, FixedOK, VarOK
<1> HIDE DEF e, q
<1>7. data' \in [DataPages -> Pages] /\ data'[q] = e /\ \A p \in DataPages \ {q} : data'[p] = data[p]
  <2>1. data \in [DataPages -> Pages] /\ q \in DataPages
    BY <1>2, <1>3
  <2>2. Replaces(data', data, DataPages, Pages, q, e)
    BY <1>4, <1>6, <2>1 DEF Replaces
  <2> QED BY <2>2, ReplacedFacts
<1>8. /\ \A p \in DataPages : p < pages => PageOK(data'[p], dic[p].var, len)
      /\ \A p \in DataPages : p >= pages => data'[p] = NoPage
  BY <1>2, <1>3, <1>5, <1>7
<1>9. FileOK(File', len')
  <2>1. File'.pages = pages /\ File'.dic = dic /\ File'.data = data' /\ len' = len
    BY FileFields
  <2>2. dic' = dic
    OBVIOUS
  <2> DEFINE g == File'
  <2>3. g.pages = pages /\ g.dic = dic /\ g.data = data'
    BY <2>1
  <2> HIDE DEF g
  <2>4. FileOK(g, len)
    BY <1>2, <1>7, <1>8, <2>3 DEF FileOK
  <2> QED BY <2>1, <2>4 DEF g
<1>10. SlackAssertOnlyIfBadLen'
  BY <1>1 DEF SlackAssertOnlyIfBadLen
<1> QED BY <1>1, <1>9, <1>10 DEF IInv

(* Inductiveness, action by action.                                         *)
LEMMA InitOK == Init => IInv
<1> SUFFICES ASSUME Init PROVE IInv
  OBVIOUS
<1>1. NoPage \in Pages
  <2>1. <<>> \in Seq(Offsets) /\ {} \in SUBSET Offsets /\ [b \in {} |-> FreeBlock(0)] \in [{} -> Blocks]
    OBVIOUS
  <2> HIDE DEF FreeBlock
  <2> QED BY <2>1, PageOfFields DEF NoPage
<1>2. /\ dic \in [DataPages -> Entries]
      /\ \A p \in DataPages : ~dic[p].var /\ ~dic[p].full /\ data[p] = NoPage
      /\ data \in [DataPages -> Pages]
  BY <1>1 DEF Init, Entries
<1>3. \A p \in DataPages : p >= 2 /\ p \in Int
  BY DEF DataPages
<1>4. pages = 2 /\ MaxPage + 1 >= 1
  BY DEF Init
<1>5. MaxPage >= 1
  OBVIOUS
<1>6. FileOK(File, len)
  BY <1>2, <1>3, <1>4, <1>5, FileFields DEF FileOK
<1> QED BY <1>6 DEF Init, IInv, SlackAssertOnlyIfBadLen

(* Every call keeps the invariant.                                          *)
LEMMA StepOK == IInv /\ [Next]_vars => IInv'
<1> SUFFICES ASSUME IInv, [Next]_vars PROVE IInv'
  OBVIOUS
<1>0. /\ len \in Lens /\ FileOK(File, len) /\ status \in Ends \cup {"alive"} /\ SlackAssertOnlyIfBadLen
      /\ pages \in 2 .. MaxPage + 1 /\ dic \in [DataPages -> Entries]
      /\ data \in [DataPages -> Pages]
      /\ \A p \in DataPages : p >= pages => ~dic[p].full
  BY FileFields DEF IInv, FileOK
<1>1. ASSUME NEW r \in Recs, Insert(r) PROVE IInv'
  <2> DEFINE res == InsertInto(File, r)
  <2>1. Bounded(res.file) /\ Becomes(res.file) /\ status' = res.end /\ len' = len
    BY <1>1 DEF Insert
  <2> HIDE DEF res
  <2> QED BY <1>0, <2>1, InsertStep DEF res
<1>2. ASSUME NEW S \in SUBSET Live, Del(S) PROVE IInv'
  <2>1. /\ data' = Deleted(S) /\ dic' = Unmarked(S) /\ len' = len /\ pages' = pages
        /\ status' = "alive"
    BY <1>2 DEF Del
  <2> QED BY <2>1, ManyFreed, PagesChanged
<1>3. ASSUME NEW S \in SUBSET Live, NEW w \in S, DelWild(S, w) PROVE IInv'
  <2>1. /\ data' = Deleted(S) /\ dic' = Unmarked(S) /\ len' = len /\ pages' = pages
        /\ status' = "wildWrite"
    BY <1>3 DEF DelWild
  <2>2. status' \in Ends \cup {"alive"} /\ status' # "slackAssert"
    BY <2>1 DEF Ends
  <2> QED BY <2>1, <2>2, ManyFreed, PagesChanged
<1>9. ASSUME NEW S \in SUBSET Live, NEW p \in DataPages, Strays(S, p) PROVE IInv'
  <2>1. /\ data' = Deleted(S) /\ dic' = Unmarked(S) /\ len' = len /\ pages' = pages
        /\ status' = "strayed"
    BY <1>9 DEF Strays
  <2>2. status' \in Ends \cup {"alive"} /\ status' # "slackAssert"
    BY <2>1 DEF Ends
  <2> QED BY <2>1, <2>2, ManyFreed, PagesChanged
<1>4. ASSUME NEW l \in Live, DeleteRecord(l) PROVE IInv'
  <2>1. /\ data' = [data EXCEPT ![l[1]] = Freed(@, ~dic[l[1]].var, {l[2]})]
        /\ dic' = dic /\ len' = len /\ pages' = pages /\ status' = "alive"
    BY <1>4 DEF DeleteRecord
  <2>2. /\ data' \in [DataPages -> Pages]
        /\ \A p \in DataPages : p < pages => PageOK(data'[p], dic[p].var, len)
        /\ \A p \in DataPages : p >= pages => data'[p] = NoPage
    <3>1. FreedOne(data', l)
      BY <2>1 DEF FreedOne
    <3> QED BY <3>1, OneFreed
  <2> QED BY <1>0, <2>1, <2>2, PagesChanged
<1>5. ASSUME NEW l \in Live, NEW r \in Recs, UpdateInPlace(l, r) PROVE IInv'
  <2>1. /\ ~dic[l[1]].var /\ r \in FixedRecs
        /\ data' = [data EXCEPT ![l[1]].blocks[l[2]].rec = r]
        /\ UNCHANGED <<len, pages, dic, status>>
    BY <1>5 DEF UpdateInPlace
  <2>2. (r \in VarRecs) <=> dic[l[1]].var
    BY <2>1
  <2>3. SetOne(l, r) /\ UNCHANGED <<len, pages, dic, status>> /\ r \in Recs
    BY <2>1 DEF SetOne
  <2> QED BY <2>2, <2>3, OneSet
<1>6. ASSUME NEW l \in Live, NEW r \in Recs, UpdateMoves(l, r) PROVE IInv'
  <2> DEFINE D == [data EXCEPT ![l[1]] = Freed(@, ~dic[l[1]].var, {l[2]})]
             f == [File EXCEPT !.data[l[1]] = Freed(@, ~dic[l[1]].var, {l[2]})]
             res == InsertInto(f, r)
  <2>1. Bounded(res.file) /\ Becomes(res.file) /\ status' = res.end /\ len' = len
    BY <1>6 DEF UpdateMoves
  <2>2. f = [pages |-> pages, dic |-> dic, data |-> D]
    BY DEF File
  <2>3. /\ D \in [DataPages -> Pages]
        /\ \A p \in DataPages : p < pages => PageOK(D[p], dic[p].var, len)
        /\ \A p \in DataPages : p >= pages => D[p] = NoPage
    <3>1. FreedOne(D, l)
      BY DEF FreedOne
    <3> HIDE DEF D
    <3> QED BY <3>1, OneFreed
  <2> HIDE DEF f, D
  <2>4. f.pages = pages /\ f.dic = dic /\ f.data = D
    BY <2>2
  <2>5. FileOK(f, len)
    BY <1>0, <2>3, <2>4, FileFields DEF FileOK
  <2> HIDE DEF res
  <2> QED BY <2>1, <2>5, InsertStep DEF res
<1>7. ASSUME NEW l \in Live, NEW r \in Recs, UpdateRecordNoResize(l, r) PROVE IInv'
  <2>1. /\ dic[l[1]].var /\ r \in VarRecs
        /\ data' = [data EXCEPT ![l[1]].blocks[l[2]].rec = r]
        /\ UNCHANGED <<len, pages, dic, status>>
    BY <1>7 DEF UpdateRecordNoResize
  <2>2. SetOne(l, r) /\ UNCHANGED <<len, pages, dic, status>> /\ (r \in VarRecs <=> dic[l[1]].var)
    BY <2>1 DEF SetOne
  <2> QED BY <2>2, OneSet
<1>8. CASE UNCHANGED vars
  <2>1. len' = len /\ pages' = pages /\ dic' = dic /\ data' = data /\ status' = status
    BY <1>8 DEF vars
  <2>2. FileOK(File', len')
    BY <1>0, <2>1, FileFields DEF FileOK
  <2>3. SlackAssertOnlyIfBadLen'
    BY <1>0, <2>1 DEF SlackAssertOnlyIfBadLen, BadLen
  <2> QED BY <1>0, <2>1, <2>2, <2>3 DEF IInv
<1> QED BY <1>1, <1>2, <1>3, <1>4, <1>5, <1>6, <1>7, <1>8, <1>9 DEF Next

(* What the invariant says of pages implies the properties the runs check.  *)
LEMMA InvariantImplies ==
  ASSUME IInv
  PROVE  TypeOK /\ PagesTiled /\ FreeListExact /\ KindMatches /\ SlackAssertOnlyIfBadLen
<1>1. /\ len \in Lens /\ status \in Ends \cup {"alive"} /\ SlackAssertOnlyIfBadLen
      /\ pages \in 2 .. MaxPage + 1 /\ dic \in [DataPages -> Entries] /\ data \in [DataPages -> Pages]
      /\ \A p \in DataPages : p < pages => PageOK(data[p], dic[p].var, len)
      /\ \A p \in DataPages : p >= pages => data[p] = NoPage
  BY FileFields DEF IInv, FileOK
<1>2. TypeOK
  <2>1. ASSUME NEW p \in DataPages
        PROVE  /\ DOMAIN data[p] = {"free", "blocks"}
               /\ data[p].free \in Seq(0 .. PageSize - 1)
               /\ DOMAIN data[p].blocks \subseteq 0 .. PageSize - 1
               /\ \A b \in DOMAIN data[p].blocks : data[p].blocks[b] \in Blocks
    <3>1. data[p] \in Pages
      BY <1>1
    <3>2. DOMAIN data[p] = {"free", "blocks"}
      BY <3>1 DEF Pages
    <3> QED BY <3>1, <3>2, PageFields DEF Offsets
  <2> QED BY <1>1, <2>1 DEF TypeOK, Entries
<1>3. ASSUME NEW p \in InFile
      PROVE  p \in DataPages /\ PageOK(data[p], dic[p].var, len) /\ dic[p].var \in BOOLEAN
  BY <1>1 DEF InFile, Entries
<1>4. PagesTiled
  <2>1. ASSUME NEW p \in InFile, dic[p].var
        PROVE  /\ 0 \in DOMAIN data[p].blocks
               /\ \A b \in DOMAIN data[p].blocks :
                    /\ b + 3 + data[p].blocks[b].len \in DOMAIN data[p].blocks \cup {PageSize}
                    /\ \A c \in DOMAIN data[p].blocks : c <= b \/ c >= b + 3 + data[p].blocks[b].len
    BY <1>3, <2>1 DEF PageOK, VarOK, Tiled
  <2>2. ASSUME NEW p \in InFile, ~dic[p].var
        PROVE  /\ 2 \in DOMAIN data[p].blocks
               /\ \A b \in DOMAIN data[p].blocks :
                    /\ b + 1 + data[p].blocks[b].len \in DOMAIN data[p].blocks \cup {PageSize - 4}
                    /\ \A c \in DOMAIN data[p].blocks : c <= b \/ c >= b + 1 + data[p].blocks[b].len
    BY <1>3, <2>2 DEF PageOK, FixedOK, Tiled
  <2> QED BY <2>1, <2>2 DEF PagesTiled, After
<1>5. FreeListExact
  BY <1>3 DEF FreeListExact, PageOK, FixedOK, Listing
<1>6. KindMatches
  <2>1. ASSUME NEW p \in InFile, NEW b \in DOMAIN data[p].blocks, data[p].blocks[b].used
        PROVE  data[p].blocks[b].rec \in VarRecs <=> dic[p].var
    BY <1>3, <2>1 DEF PageOK, FixedOK, VarOK, Holds
  <2> QED BY <2>1 DEF KindMatches
<1> QED BY <1>1, <1>2, <1>4, <1>5, <1>6

-----------------------------------------------------------------------------
(* The theorems *)

(* The invariant holds in every reachable state.                            *)
THEOREM Invariance == Spec => []IInv
<1>1. Init => IInv
  BY InitOK
<1>2. IInv /\ [Next]_vars => IInv'
  BY StepOK
<1> QED BY <1>1, <1>2, PTL DEF Spec

(* Pages, dictionary and free lists keep their shape.                       *)
THEOREM TypeCorrectness == Spec => []TypeOK
<1>1. IInv => TypeOK
  BY InvariantImplies
<1> QED BY <1>1, Invariance, PTL

(* The blocks of every page tile it, whatever was split, freed and filled:  *)
(* up to its end, or for a fixed page up to four bytes before it.           *)
THEOREM TilingIsKept == Spec => []PagesTiled
<1>1. IInv => PagesTiled
  BY InvariantImplies
<1> QED BY <1>1, Invariance, PTL

(* The free list of a fixed page links exactly its free blocks, all but the *)
(* last one of a record's length.                                           *)
THEOREM FreeListIsExact == Spec => []FreeListExact
<1>1. IInv => FreeListExact
  BY InvariantImplies
<1> QED BY <1>1, Invariance, PTL

(* Records are on pages of their kind only.                                 *)
THEOREM KindsMatch == Spec => []KindMatches
<1>1. IInv => KindMatches
  BY InvariantImplies
<1> QED BY <1>1, Invariance, PTL

(* The assertion in tryInsert can fail only for lengths of records that     *)
(* divide the page badly.                                                   *)
THEOREM SlackAssertion == Spec => []SlackAssertOnlyIfBadLen
<1>1. IInv => SlackAssertOnlyIfBadLen
  BY InvariantImplies
<1> QED BY <1>1, Invariance, PTL
-----------------------------------------------------------------------------
(* Refinement of RecordStore *)

(* The records on the pages D, and what they hold.                          *)
LiveIn(D) == {l \in Locations : Used(D[l[1]], l[2])}
View(D) == [l \in LiveIn(D) |-> D[l[1]].blocks[l[2]].rec]

(* The same after S has gone and after record r has come to l.              *)
Less(D, S) == [k \in LiveIn(D) \ S |-> View(D)[k]]
More(D, l, r) == [k \in LiveIn(D) \cup {l} |-> IF k = l THEN r ELSE View(D)[k]]

-----------------------------------------------------------------------------
(* The mapping *)

(* The abstract records of this state and of the next.                      *)
LEMMA MappedState ==
  /\ Live = LiveIn(data) /\ Records = View(data) /\ DOMAIN Records = Live
  /\ Live' = LiveIn(data') /\ Records' = View(data')
<1>1. Live = LiveIn(data) /\ Live' = LiveIn(data')
  BY DEF Live, LiveIn, Used
<1> QED BY <1>1 DEF Records, View

(* The records are those in the used blocks.                                *)
LEMMA ViewFacts ==
  ASSUME NEW D
  PROVE  /\ DOMAIN View(D) = LiveIn(D)
         /\ LiveIn(D) \subseteq Locations
         /\ \A l \in LiveIn(D) : View(D)[l] = D[l[1]].blocks[l[2]].rec
BY DEF View, LiveIn

(* A location is a page and an offset.                                      *)
LEMMA LocationFacts ==
  /\ \A l \in Locations : l[1] \in DataPages /\ l[2] \in Offsets /\ l = <<l[1], l[2]>>
  /\ \A p \in DataPages, b \in Offsets :
       <<p, b>> \in Locations /\ <<p, b>>[1] = p /\ <<p, b>>[2] = b
BY DEF Locations, Offsets

(* Views are equal if the same places hold the same records.                *)
LEMMA SameView ==
  ASSUME NEW D, NEW E,
         \A p \in DataPages, b \in Offsets :
           /\ Used(D[p], b) <=> Used(E[p], b)
           /\ Used(D[p], b) => E[p].blocks[b].rec = D[p].blocks[b].rec
  PROVE  View(D) = View(E) /\ LiveIn(D) = LiveIn(E)
<1>1. LiveIn(D) = LiveIn(E)
  BY LocationFacts DEF LiveIn
<1>2. \A l \in LiveIn(D) : D[l[1]].blocks[l[2]].rec = E[l[1]].blocks[l[2]].rec
  BY LocationFacts DEF LiveIn
<1> QED BY <1>1, <1>2 DEF View

-----------------------------------------------------------------------------
(* The operators on a file *)

(* Freed takes away the records it is given and nothing else.               *)
LEMMA FreedUses ==
  ASSUME NEW d, NEW fixed, NEW B, NEW b
  PROVE  /\ Used(Freed(d, fixed, B), b) <=> Used(d, b) /\ b \notin B
         /\ Used(Freed(d, fixed, B), b) => Freed(d, fixed, B).blocks[b] = d.blocks[b]
<1> DEFINE e == Freed(d, fixed, B)
<1>1. /\ DOMAIN e.blocks = DOMAIN d.blocks
      /\ \A c \in DOMAIN d.blocks : c \in B => ~e.blocks[c].used
      /\ \A c \in DOMAIN d.blocks : c \notin B => e.blocks[c] = d.blocks[c]
  BY DEF Freed, FreeBlock
<1> HIDE DEF e
<1>2. /\ Used(e, b) <=> Used(d, b) /\ b \notin B
      /\ Used(e, b) => e.blocks[b] = d.blocks[b]
  BY <1>1 DEF Used
<1> QED BY <1>2 DEF e

(* Pages E are pages D without the records of S.                            *)
FreedFrom(D, E, S) ==
  \A p \in DataPages, b \in Offsets :
    /\ Used(E[p], b) <=> Used(D[p], b) /\ <<p, b>> \notin S
    /\ Used(E[p], b) => E[p].blocks[b] = D[p].blocks[b]

(* The view of pages from which the records of S are freed.                 *)
LEMMA FreedView ==
  ASSUME NEW D, NEW E, NEW S, FreedFrom(D, E, S)
  PROVE  View(E) = Less(D, S) /\ LiveIn(E) = LiveIn(D) \ S
<1> USE DEF FreedFrom
<1>1. LiveIn(E) = LiveIn(D) \ S
  BY LocationFacts DEF LiveIn
<1>2. \A l \in LiveIn(E) : E[l[1]].blocks[l[2]].rec = D[l[1]].blocks[l[2]].rec
  BY LocationFacts DEF LiveIn
<1>3. \A l \in LiveIn(E) : View(D)[l] = D[l[1]].blocks[l[2]].rec
  BY <1>1, ViewFacts
<1> QED BY <1>1, <1>2, <1>3 DEF View, Less

(* What del leaves.                                                         *)
LEMMA DeletedView ==
  ASSUME NEW S \in SUBSET Live
  PROVE  View(Deleted(S)) = Less(data, S) /\ LiveIn(Deleted(S)) = Live \ S
<1>1. S \in SUBSET LiveIn(data) /\ S \in SUBSET Locations
  BY MappedState, ViewFacts
<1>2. ASSUME NEW p \in DataPages, NEW b \in Offsets
      PROVE  /\ Used(Deleted(S)[p], b) <=> Used(data[p], b) /\ <<p, b>> \notin S
             /\ Used(Deleted(S)[p], b) => Deleted(S)[p].blocks[b] = data[p].blocks[b]
  <2> DEFINE B == {l[2] : l \in {m \in S : m[1] = p}}
  <2>1. Deleted(S)[p] = Freed(data[p], ~dic[p].var, B)
    BY DEF Deleted
  <2>2. b \in B <=> <<p, b>> \in S
    <3>1. ASSUME b \in B PROVE <<p, b>> \in S
      <4>1. PICK l \in S : l[1] = p /\ l[2] = b
        BY <3>1
      <4>2. l = <<p, b>>
        BY <1>1, <4>1, LocationFacts
      <4> QED BY <4>1, <4>2
    <3>2. ASSUME <<p, b>> \in S PROVE b \in B
      BY <3>2, LocationFacts
    <3> QED BY <3>1, <3>2
  <2> HIDE DEF B
  <2> QED BY <2>1, <2>2, FreedUses
<1>3. FreedFrom(data, Deleted(S), S)
  BY <1>2 DEF FreedFrom
<1> QED BY <1>3, FreedView, MappedState

(* What deleteRecord leaves.                                                *)
LEMMA OneFreedView ==
  ASSUME IInv, NEW l \in Live,
         NEW D, D = [data EXCEPT ![l[1]] = Freed(@, ~dic[l[1]].var, {l[2]})]
  PROVE  View(D) = Less(data, {l}) /\ LiveIn(D) = Live \ {l}
<1>1. {l} \in SUBSET LiveIn(data) /\ l \in Locations /\ DOMAIN data = DataPages
  BY MappedState, ViewFacts, FileFields DEF IInv, FileOK
<1>2. ASSUME NEW p \in DataPages, NEW b \in Offsets
      PROVE  /\ Used(D[p], b) <=> Used(data[p], b) /\ <<p, b>> \notin {l}
             /\ Used(D[p], b) => D[p].blocks[b] = data[p].blocks[b]
  <2>1. CASE p = l[1]
    <3>1. D[p] = Freed(data[p], ~dic[p].var, {l[2]})
      BY <1>1, <2>1
    <3>2. b \in {l[2]} <=> <<p, b>> = l
      BY <1>1, <2>1, LocationFacts
    <3>3. b \in {l[2]} <=> <<p, b>> \in {l}
      BY <3>2
    <3> QED BY <3>1, <3>3, FreedUses
  <2>2. CASE p # l[1]
    <3>1. D[p] = data[p]
      BY <1>1, <2>2
    <3>2. <<p, b>> # l
      BY <1>1, <2>2, LocationFacts
    <3> QED BY <3>1, <3>2
  <2> QED BY <2>1, <2>2
<1> DEFINE S == {l}
<1>3. FreedFrom(data, D, S)
  BY <1>2 DEF FreedFrom
<1> HIDE DEF S
<1>4. View(D) = Less(data, S) /\ LiveIn(D) = LiveIn(data) \ S
  BY <1>3, FreedView
<1> QED BY <1>4, MappedState DEF S

(* insert adds its record where none was, or leaves the records alone.      *)
LEMMA InsertView ==
  ASSUME len \in Lens, NEW f, FileOK(f, len), NEW r \in Recs, Bounded(InsertInto(f, r).file),
         NEW res, res = InsertInto(f, r)
  PROVE  /\ res.end = "alive" => \E l \in Locations : /\ l \notin LiveIn(f.data)
                                                      /\ View(res.file.data) = More(f.data, l, r)
         /\ res.end # "alive" => View(res.file.data) = View(f.data)
<1> DEFINE var == r \in VarRecs
<1>1. var \in BOOLEAN /\ var = (r \in VarRecs)
  OBVIOUS
<1> HIDE DEF var
<1>2. PICK page \in DataPages, d \in Pages : InsertedAt(f, r, res, var, page, d)
  BY <1>1, InsertIntoShape
<1> DEFINE D == f.data
           E == res.file.data
<1>3. /\ D \in [DataPages -> Pages]
      /\ E = [D EXCEPT ![page] = IF res.end = "alive" THEN TryInsert(d, r) ELSE d]
      /\ res.end = "alive" => Fits(d, r)
      /\ PageOK(d, var, len)
  BY <1>2 DEF InsertedAt, FileOK
<1>4. \A b \in Offsets : /\ Used(d, b) <=> Used(D[page], b)
                         /\ Used(d, b) => D[page].blocks[b] = d.blocks[b]
  <2>1. CASE d = D[page]
    BY <2>1
  <2>2. CASE page >= f.pages /\ d = FreshPage(~var)
    <3>1. D[page] = NoPage
      BY <2>2 DEF FileOK
    <3>2. \A b \in Offsets : ~Used(D[page], b)
      BY <3>1 DEF NoPage, Used
    <3>3. \A b \in Offsets : ~Used(d, b)
      BY <2>2 DEF Used, FreshPage, FreeBlock
    <3> QED BY <3>2, <3>3
  <2> QED BY <1>2, <2>1, <2>2 DEF InsertedAt
<1>5. /\ E[page] = IF res.end = "alive" THEN TryInsert(d, r) ELSE d
      /\ \A p \in DataPages \ {page} : E[p] = D[p]
  BY <1>3
<1>6. ASSUME res.end # "alive" PROVE View(E) = View(D)
  <2>1. E[page] = d
    BY <1>5, <1>6
  <2>2. ASSUME NEW p \in DataPages, NEW b \in Offsets
        PROVE  /\ Used(E[p], b) <=> Used(D[p], b)
               /\ Used(E[p], b) => D[p].blocks[b].rec = E[p].blocks[b].rec
    <3>1. CASE p = page
      BY <1>4, <2>1, <3>1
    <3>2. CASE p # page
      BY <1>5, <3>2
    <3> QED BY <3>1, <3>2
  <2> HIDE DEF D, E
  <2> QED BY <2>2, SameView
<1>7. ASSUME res.end = "alive"
      PROVE  \E l \in Locations : l \notin LiveIn(D) /\ View(E) = More(D, l, r)
  <2> DEFINE t == Target(d, r)
             l == <<page, t>>
             e == TryInsert(d, r)
  <2>1. E[page] = e
    BY <1>5, <1>7
  <2>2. Adds(d, e, t, r)
    BY <1>1, <1>3, <1>7, TryInsertOK
  <2> HIDE DEF e, t
  <2>3. l \in Locations /\ l[1] = page /\ l[2] = t /\ t \in Offsets
    BY <2>2, LocationFacts DEF Adds
  <2>4. l \notin LiveIn(D)
    BY <1>4, <2>2, <2>3 DEF Adds, LiveIn
  <2>5. ASSUME NEW p \in DataPages, NEW b \in Offsets, <<p, b>> # l
        PROVE  /\ Used(E[p], b) <=> Used(D[p], b)
               /\ Used(D[p], b) => E[p].blocks[b].rec = D[p].blocks[b].rec
    <3>1. CASE p = page
      <4>1. b \in Offsets \ {t}
        BY <2>5, <3>1
      <4>2. /\ Used(e, b) <=> Used(d, b)
            /\ Used(d, b) => e.blocks[b] = d.blocks[b]
        BY <2>2, <4>1 DEF Adds
      <4> QED BY <1>4, <2>1, <3>1, <4>2
    <3>2. CASE p # page
      BY <1>5, <3>2
    <3> QED BY <3>1, <3>2
  <2>6. Used(E[page], t) /\ E[page].blocks[t].rec = r
    BY <2>1, <2>2 DEF Adds
  <2> HIDE DEF D, E
  <2>7. LiveIn(E) = LiveIn(D) \cup {l}
    <3>1. ASSUME NEW k \in Locations PROVE k \in LiveIn(E) <=> k \in LiveIn(D) \cup {l}
      <4>1. CASE k = l
        BY <2>3, <2>6, <4>1 DEF LiveIn
      <4>2. CASE k # l
        <5>1. k[1] \in DataPages /\ k[2] \in Offsets /\ <<k[1], k[2]>> # l
          BY <4>2, LocationFacts
        <5> QED BY <2>5, <4>2, <5>1 DEF LiveIn
      <4> QED BY <4>1, <4>2
    <3> QED BY <2>3, <3>1, ViewFacts
  <2>8. ASSUME NEW k \in LiveIn(E)
        PROVE  View(E)[k] = IF k = l THEN r ELSE View(D)[k]
    <3>1. View(E)[k] = E[k[1]].blocks[k[2]].rec /\ k \in Locations
      BY ViewFacts
    <3>2. CASE k = l
      BY <2>3, <2>6, <3>1, <3>2
    <3>3. CASE k # l
      <4>1. k \in LiveIn(D)
        BY <2>7, <3>3
      <4>2. k[1] \in DataPages /\ k[2] \in Offsets /\ <<k[1], k[2]>> # l
        BY <3>1, <3>3, LocationFacts
      <4>3. E[k[1]].blocks[k[2]].rec = D[k[1]].blocks[k[2]].rec
        BY <2>5, <4>1, <4>2 DEF LiveIn
      <4>4. View(D)[k] = D[k[1]].blocks[k[2]].rec
        BY <4>1, ViewFacts
      <4> QED BY <3>1, <3>3, <4>3, <4>4
    <3> QED BY <3>2, <3>3
  <2>9. View(E) = More(D, l, r)
    <3>1. View(E) = [k \in LiveIn(E) |-> View(E)[k]]
      BY DEF View
    <3> HIDE DEF l
    <3> QED BY <2>7, <2>8, <3>1 DEF More
  <2> QED BY <2>3, <2>4, <2>9
<1> QED BY <1>6, <1>7

-----------------------------------------------------------------------------
(* The steps *)

(* What a step of the abstract store needs of the records.                  *)
LEMMA StoreDelete ==
  ASSUME status = "alive", NEW S \in SUBSET Live, Records' = Less(data, S)
  PROVE  Store!Delete(S)
<1>1. Records' = [k \in DOMAIN Records \ S |-> Records[k]]
  BY MappedState DEF Less
<1>2. (status = "alive") /\ (status = "alive")' \in BOOLEAN /\ S \subseteq DOMAIN Records
  BY MappedState
<1> QED BY <1>1, <1>2 DEF Store!Delete

(* What it takes to be an insertion of the abstract store.                  *)
LEMMA StoreInsert ==
  ASSUME status = "alive", status' = "alive", NEW l, l \notin Live, NEW r, Records' = More(data, l, r)
  PROVE  Store!Insert(l, r)
<1>1. Records' = [k \in (DOMAIN Records \ {}) \cup {l} |-> IF k = l THEN r ELSE Records[k]]
  BY MappedState DEF More
<1>2. Records' = Store!Moved({}, l, r)
  BY <1>1 DEF Store!Moved
<1> QED BY <1>2, MappedState DEF Store!Insert

(* What it takes to be an update of the abstract store.                     *)
LEMMA StoreUpdate ==
  ASSUME status = "alive", status' = "alive", NEW l \in Live, NEW m, m = l \/ m \notin Live, NEW r,
         Records' = [k \in (Live \ {l}) \cup {m} |-> IF k = m THEN r ELSE Records[k]]
  PROVE  Store!Update(l, m, r)
<1>1. Records' = Store!Moved({l}, m, r)
  BY MappedState DEF Store!Moved
<1> QED BY <1>1, MappedState DEF Store!Update

(* insert: a record is added, or the process dies and nothing has changed.  *)
LEMMA InsertMaps ==
  ASSUME IInv, NEW r \in Recs, Insert(r)
  PROVE  /\ status' = "alive" => \E l \in Locations : Store!Insert(l, r)
         /\ status' # "alive" => Store!Delete({})
<1> DEFINE res == InsertInto(File, r)
<1>1. /\ Bounded(res.file) /\ data' = res.file.data /\ status' = res.end /\ status = "alive"
  BY DEF Insert, Becomes
<1>2. len \in Lens /\ FileOK(File, len)
  BY DEF IInv
<1> HIDE DEF res
<1>3. /\ res.end = "alive" => \E l \in Locations : /\ l \notin LiveIn(data)
                                                   /\ View(data') = More(data, l, r)
      /\ res.end # "alive" => View(data') = View(data)
  BY <1>1, <1>2, InsertView, FileFields DEF res
<1>4. ASSUME status' = "alive" PROVE \E l \in Locations : Store!Insert(l, r)
  <2>1. PICK l \in Locations : l \notin LiveIn(data) /\ View(data') = More(data, l, r)
    BY <1>1, <1>3, <1>4
  <2>2. l \notin Live /\ Records' = More(data, l, r)
    BY <2>1, MappedState
  <2> QED BY <1>1, <1>4, <2>2, StoreInsert
<1>5. ASSUME status' # "alive" PROVE Store!Delete({})
  <2>1. View(data') = View(data)
    BY <1>1, <1>3, <1>5
  <2>2. View(data) = Less(data, {})
    BY DEF View, Less
  <2>3. Records' = Less(data, {}) /\ {} \in SUBSET Live
    BY <2>1, <2>2, MappedState
  <2> QED BY <1>1, <2>3, StoreDelete
<1> QED BY <1>4, <1>5

(* An update that moves the record, or dies after taking it away.           *)
LEMMA UpdateMovesMaps ==
  ASSUME IInv, NEW l \in Live, NEW r \in Recs, UpdateMoves(l, r)
  PROVE  Store!Delete({l}) \/ \E m \in Locations : Store!Update(l, m, r)
<1> DEFINE D == [data EXCEPT ![l[1]] = Freed(@, ~dic[l[1]].var, {l[2]})]
           f == [File EXCEPT !.data[l[1]] = Freed(@, ~dic[l[1]].var, {l[2]})]
           res == InsertInto(f, r)
<1>1. Bounded(res.file) /\ data' = res.file.data /\ status' = res.end /\ status = "alive"
  BY DEF UpdateMoves, Becomes
<1>2. f = [pages |-> pages, dic |-> dic, data |-> D]
  BY DEF File
<1>3. /\ D \in [DataPages -> Pages]
      /\ \A p \in DataPages : p < pages => PageOK(D[p], dic[p].var, len)
      /\ \A p \in DataPages : p >= pages => D[p] = NoPage
  <2>1. FreedOne(D, l)
    BY DEF FreedOne
  <2> HIDE DEF D
  <2> QED BY <2>1, OneFreed
<1>4. View(D) = Less(data, {l}) /\ LiveIn(D) = Live \ {l}
  BY OneFreedView
<1> HIDE DEF f, D
<1>5. f.pages = pages /\ f.dic = dic /\ f.data = D
  BY <1>2
<1>6. FileOK(f, len) /\ len \in Lens
  BY <1>3, <1>5, FileFields DEF FileOK, IInv
<1> HIDE DEF res
<1>7. /\ res.end = "alive" => \E m \in Locations : m \notin LiveIn(D) /\ View(data') = More(D, m, r)
      /\ res.end # "alive" => View(data') = View(D)
  BY <1>1, <1>5, <1>6, InsertView DEF res
<1>8. CASE res.end = "alive"
  <2>1. PICK m \in Locations : m \notin LiveIn(D) /\ View(data') = More(D, m, r)
    BY <1>7, <1>8
  <2>2. m = l \/ m \notin Live
    BY <1>4, <2>1
  <2>3. \A k \in LiveIn(D) : View(D)[k] = Records[k]
    BY <1>4, MappedState DEF Less
  <2>4. More(D, m, r) = [k \in (Live \ {l}) \cup {m} |-> IF k = m THEN r ELSE Records[k]]
    BY <1>4, <2>1, <2>3 DEF More
  <2>5. Records' = [k \in (Live \ {l}) \cup {m} |-> IF k = m THEN r ELSE Records[k]]
    BY <2>1, <2>4, MappedState
  <2>6. Store!Update(l, m, r)
    BY <1>1, <1>8, <2>2, <2>5, StoreUpdate
  <2> QED BY <2>6
<1>9. CASE res.end # "alive"
  <2>1. Records' = Less(data, {l}) /\ {l} \in SUBSET Live
    BY <1>4, <1>7, <1>9, MappedState
  <2> QED BY <1>1, <2>1, StoreDelete
<1> QED BY <1>8, <1>9

(* A record rewritten where it is.                                          *)
LEMMA SetMaps ==
  ASSUME IInv, status = "alive", status' = "alive", NEW l \in Live, NEW r \in Recs,
         data' = [data EXCEPT ![l[1]].blocks[l[2]].rec = r]
  PROVE  Store!Update(l, l, r)
<1> DEFINE q == l[1]
           b == l[2]
           e == [data[q] EXCEPT !.blocks[b].rec = r]
<1>1. /\ data \in [DataPages -> Pages] /\ q \in DataPages /\ b \in Offsets /\ l = <<q, b>>
      /\ b \in DOMAIN data[q].blocks /\ data[q].blocks[b].used
  BY FileFields, LiveFacts, LocationFacts DEF IInv, FileOK, Live
<1>2. data' = [data EXCEPT ![q] = e]
  OBVIOUS
<1>3. /\ DOMAIN e.blocks = DOMAIN data[q].blocks
      /\ e.blocks[b].used /\ e.blocks[b].rec = r
      /\ \A c \in DOMAIN data[q].blocks \ {b} : e.blocks[c] = data[q].blocks[c]
  <2>1. data[q] \in Pages
    BY <1>1
  <2>2. PICK s, F : data[q] = [free |-> s, blocks |-> F]
    BY <2>1 DEF Pages
  <2>3. F = data[q].blocks /\ F \in [DOMAIN F -> Blocks]
    BY <2>1, <2>2, PageFields
  <2>4. PICK u : u = F[b] /\ u \in Blocks
    BY <1>1, <2>3
  <2>5. [u EXCEPT !.rec = r].used = u.used /\ [u EXCEPT !.rec = r].rec = r
    BY <2>4 DEF Blocks
  <2>6. e = [free |-> s, blocks |-> [F EXCEPT ![b] = [u EXCEPT !.rec = r]]]
    BY <2>2, <2>4
  <2>7. e.blocks = [F EXCEPT ![b] = [u EXCEPT !.rec = r]]
    BY <2>6
  <2> HIDE DEF e
  <2> QED BY <1>1, <2>3, <2>4, <2>5, <2>7
<1> HIDE DEF e, q, b
<1>4. data'[q] = e /\ \A p \in DataPages \ {q} : data'[p] = data[p]
  BY <1>1, <1>2
<1>5. ASSUME NEW p \in DataPages, NEW c \in Offsets
      PROVE  /\ Used(data'[p], c) <=> Used(data[p], c)
             /\ <<p, c>> # l /\ Used(data[p], c) => data'[p].blocks[c].rec = data[p].blocks[c].rec
  <2>1. CASE p = q /\ c = b
    BY <1>1, <1>3, <1>4, <2>1 DEF Used
  <2>2. CASE p = q /\ c # b
    <3>1. Used(e, c) <=> Used(data[q], c)
      BY <1>3, <2>2 DEF Used
    <3>2. Used(data[q], c) => e.blocks[c] = data[q].blocks[c]
      BY <1>3, <2>2 DEF Used
    <3>3. data'[p] = e /\ data[p] = data[q]
      BY <1>4, <2>2
    <3> QED BY <3>1, <3>2, <3>3
  <2>3. CASE p # q
    BY <1>4, <2>3
  <2> QED BY <2>1, <2>2, <2>3
<1>6. Live' = Live
  BY <1>5, LocationFacts, MappedState DEF LiveIn
<1>7. Records' = [k \in (Live \ {l}) \cup {l} |-> IF k = l THEN r ELSE Records[k]]
  <2>1. Records' = [k \in Live |-> data'[k[1]].blocks[k[2]].rec]
    BY <1>6, MappedState DEF View
  <2>2. ASSUME NEW k \in Live PROVE data'[k[1]].blocks[k[2]].rec = IF k = l THEN r ELSE Records[k]
    <3>1. k \in Locations /\ k[1] \in DataPages /\ k[2] \in Offsets /\ k = <<k[1], k[2]>>
          /\ Used(data[k[1]], k[2])
      BY LocationFacts, MappedState DEF LiveIn
    <3>2. CASE k = l
      BY <1>1, <1>3, <1>4, <3>2 DEF q, b
    <3>3. CASE k # l
      <4>1. Records[k] = data[k[1]].blocks[k[2]].rec
        BY DEF Records
      <4> QED BY <1>5, <3>1, <3>3, <4>1
    <3> QED BY <3>2, <3>3
  <2>3. (Live \ {l}) \cup {l} = Live
    OBVIOUS
  <2> QED BY <2>1, <2>2, <2>3
<1> QED BY <1>7, StoreUpdate

-----------------------------------------------------------------------------
(* The theorems *)

(* The mapping sends the initial states of RecordManager to RecordStore's.  *)
LEMMA InitMaps == Init => Store!Init
<1> SUFFICES ASSUME Init PROVE Store!Init
  OBVIOUS
<1>1. Live = {}
  BY DEF Init, NoPage, Live, Locations
<1>2. Records = [l \in {} |-> l]
  BY <1>1 DEF Records
<1> QED BY <1>2 DEF Init, Store!Init

(* Every step of RecordManager is a step of RecordStore.                    *)
LEMMA NextMaps == IInv /\ [Next]_vars => [Store!Next]_(Store!vars)
<1> SUFFICES ASSUME IInv, [Next]_vars PROVE Store!Next \/ UNCHANGED Store!vars
  OBVIOUS
<1>1. ASSUME NEW S \in SUBSET Live, Store!Delete(S) PROVE Store!Next
  BY <1>1, MappedState DEF Store!Next
<1>2. ASSUME NEW l \in Live, NEW m \in Locations, NEW r \in Recs, Store!Update(l, m, r) PROVE Store!Next
  BY <1>2, MappedState DEF Store!Next
<1>3. ASSUME NEW r \in Recs, Insert(r) PROVE Store!Next
  <2>1. CASE status' = "alive"
    BY <1>3, <2>1, InsertMaps DEF Store!Next
  <2>2. CASE status' # "alive"
    BY <1>1, <1>3, <2>2, InsertMaps
  <2> QED BY <2>1, <2>2
<1>4. ASSUME NEW S \in SUBSET Live,
             Del(S) \/ (\E w \in S : DelWild(S, w)) \/ (\E p \in DataPages : Strays(S, p))
      PROVE  Store!Next
  <2>1. data' = Deleted(S) /\ status = "alive"
    BY <1>4 DEF Del, DelWild, Strays
  <2>2. Records' = Less(data, S)
    BY <2>1, DeletedView, MappedState
  <2> QED BY <1>1, <2>1, <2>2, StoreDelete
<1>5. ASSUME NEW l \in Live, DeleteRecord(l) PROVE Store!Next
  <2>1. data' = [data EXCEPT ![l[1]] = Freed(@, ~dic[l[1]].var, {l[2]})] /\ status = "alive"
    BY <1>5 DEF DeleteRecord
  <2>2. Records' = Less(data, {l}) /\ {l} \in SUBSET Live
    BY <2>1, OneFreedView, MappedState
  <2> QED BY <1>1, <2>1, <2>2, StoreDelete
<1>6. ASSUME NEW l \in Live, NEW r \in Recs, UpdateInPlace(l, r) \/ UpdateRecordNoResize(l, r)
      PROVE  Store!Next
  <2>1. /\ data' = [data EXCEPT ![l[1]].blocks[l[2]].rec = r]
        /\ status = "alive" /\ status' = "alive"
    BY <1>6 DEF UpdateInPlace, UpdateRecordNoResize
  <2>2. Store!Update(l, l, r) /\ l \in Locations
    BY <2>1, SetMaps DEF Live
  <2> QED BY <1>2, <2>2
<1>7. ASSUME NEW l \in Live, NEW r \in Recs, UpdateMoves(l, r) PROVE Store!Next
  <2>1. {l} \in SUBSET Live
    OBVIOUS
  <2> QED BY <1>1, <1>2, <1>7, <2>1, UpdateMovesMaps
<1>8. CASE UNCHANGED vars
  <2>1. data' = data /\ status' = status
    BY <1>8 DEF vars
  <2>2. Records' = Records
    BY <2>1, MappedState
  <2> QED BY <2>1, <2>2 DEF Store!vars
<1> QED BY <1>3, <1>4, <1>5, <1>6, <1>7, <1>8 DEF Next

(* The record manager keeps what RecordStore promises: a record stays where *)
(* insert put it, with its content, until it is itself deleted or updated,  *)
(* and no location is given twice, however the process ends.                *)
THEOREM Refinement == Spec => ImplementsRecordStore
<1>1. Spec => [][Store!Next]_(Store!vars)
  BY NextMaps, Invariance, PTL DEF Spec
<1> QED BY InitMaps, <1>1, PTL DEF Spec, ImplementsRecordStore, Store!Spec

(* An insert that returns has added its record where none lived.            *)
THEOREM InsertTheorem == Spec => InsertAddsRecord
<1> DEFINE A == \A r \in Recs : Insert(r) => status' # "alive" \/ \E l \in Locations : Store!Insert(l, r)
<1>1. IInv /\ [Next]_vars => [A]_vars
  BY InsertMaps
<1>2. Spec => [][A]_vars
  BY <1>1, Invariance, PTL DEF Spec
<1> QED BY <1>2 DEF InsertAddsRecord
=============================================================================
