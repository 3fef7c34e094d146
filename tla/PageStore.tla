------------------------------ MODULE PageStore ------------------------------
(***************************************************************************)
(* What tinydbpp's page cache promises to the layers above it: an array of *)
(* pages that survives the cache.  A client pins a page, changes it, marks *)
(* it and unpins it.  Marked changes reach the disk before the page leaves *)
(* the cache, and no later than the shutdown; unmarked ones may be lost as *)
(* soon as nobody pins the page.  Module Pager implements this module.     *)
(***************************************************************************)

CONSTANTS PageIDs,    \* the pages of one file
          Contents,   \* what a page may hold
          ZeroPage    \* the content of a page the file was just extended with

VARIABLES store,      \* [PageIDs -> Contents]: the pages as clients see them
          disk,       \* [PageIDs -> Contents]: the pages in the file
          marked,     \* pages whose last change must not be lost
          pinned,     \* pages some client is using
          status      \* "up", "closed" or "crashed"

vars == <<store, disk, marked, pinned, status>>

Init == /\ store = [p \in PageIDs |-> ZeroPage]
        /\ disk = store
        /\ marked = {}
        /\ pinned = {}
        /\ status = "closed"

(* The pages of S leave the cache: the marked ones are written first, the   *)
(* changes of the others are forgotten.                                     *)
Settle(S) ==
  /\ disk' = [p \in PageIDs |-> IF p \in S \cap marked THEN store[p] ELSE disk[p]]
  /\ store' = [p \in PageIDs |-> IF p \in S \ marked THEN disk[p] ELSE store[p]]
  /\ marked' = marked \ S

(* The pages of S are saved, marked or not, and stay where they are.        *)
Flush(S) ==
  /\ status = "up"
  /\ disk' = [p \in PageIDs |-> IF p \in S THEN store[p] ELSE disk[p]]
  /\ marked' = marked \ S
  /\ UNCHANGED <<store, pinned, status>>

Startup == /\ status # "up"
           /\ status' = "up"
           /\ UNCHANGED <<store, disk, marked, pinned>>

(* Pinning a page may push unpinned ones out of the cache.                  *)
Pin(p) == /\ status = "up"
          /\ p \notin pinned
          /\ pinned' = pinned \cup {p}
          /\ \E S \in SUBSET (PageIDs \ pinned') : Settle(S)
          /\ UNCHANGED status

(* An unpinned page may leave the cache at once, or later.                  *)
Unpin(p) == /\ status = "up"
            /\ p \in pinned
            /\ pinned' = pinned \ {p}
            /\ \E S \in {{}, {p}} : Settle(S)
            /\ UNCHANGED status

Modify(p, c) == /\ status = "up"
                /\ p \in pinned
                /\ store' = [store EXCEPT ![p] = c]
                /\ UNCHANGED <<disk, marked, pinned, status>>

Mark(p) == /\ status = "up"
           /\ marked' = marked \cup {p}
           /\ UNCHANGED <<store, disk, pinned, status>>

(* An orderly shutdown saves every marked page.                             *)
Shutdown == /\ status = "up"
            /\ Settle(PageIDs)
            /\ pinned' = {}
            /\ status' = "closed"

(* A process that dies leaves any number of the marked pages on the disk.   *)
Die(S) == /\ status = "up"
          /\ disk' = [p \in PageIDs |-> IF p \in S THEN store[p] ELSE disk[p]]
          /\ store' = disk'
          /\ marked' = {}
          /\ pinned' = {}
          /\ status' = "crashed"

Next == \/ Startup
        \/ Shutdown
        \/ \E S \in SUBSET PageIDs : Flush(S)
        \/ \E S \in SUBSET marked : Die(S)
        \/ \E p \in PageIDs : \/ Pin(p)
                              \/ Unpin(p)
                              \/ Mark(p)
                              \/ \E c \in Contents : Modify(p, c)

Spec == Init /\ [][Next]_vars
=============================================================================
