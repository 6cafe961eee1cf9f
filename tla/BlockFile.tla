------------------------------ MODULE BlockFile ------------------------------
(***************************************************************************)
(* cBlockFile (db/blockfile.cpp, db/block.h): a file of fixed-size blocks  *)
(* read and written through NumPages pages in memory.  GetBlock returns a  *)
(* pointer into a page; the caller changes the bytes through it and calls  *)
(* SetDirty.  Pages are evicted by the smallest timestamp; the clock is an *)
(* unsigned counter that wraps, and when it does every timestamp is reset. *)
(***************************************************************************)
EXTENDS Integers

CONSTANTS
    Content,     \* what one block may hold
    Zeroes,      \* BLOCK_SIZE zero bytes
    NumPages,    \* mNumPages
    ClockMod,    \* 2^32 in the code: mTimer is a uint32
    NoPage,      \* the caller holds no page pointer
    MaxBlocks    \* bound on the length of the archive

ASSUME BlockFileAssumption ==
    /\ Zeroes \in Content
    /\ NumPages \in Nat /\ NumPages >= 2   \* asserted in GetBlock
    /\ ClockMod \in Nat /\ ClockMod >= 2
    /\ MaxBlocks \in Nat /\ MaxBlocks >= 1
    /\ NoPage \notin 0 .. NumPages - 1

VARIABLES
    phase,          \* "new", "open" or "closed": mpArchive and the object's life
    disk,           \* the archive: block number -> Content
    mNumBlocks,
    mTimer,
    mvPagedBlocks,  \* page index -> [num, data, dirty, time]
    held            \* the page GetBlock or CreateBlock returned last, or NoPage

vars == <<phase, disk, mNumBlocks, mTimer, mvPagedBlocks, held>>

INVALID_NUM == -1
Pages == 0 .. NumPages - 1
Blocks == 0 .. mNumBlocks - 1
Page == [num : -1 .. MaxBlocks - 1, data : Content, dirty : BOOLEAN, time : 0 .. ClockMod - 1]

FreshPage == [num |-> INVALID_NUM, data |-> Zeroes, dirty |-> FALSE, time |-> 0]

\* A block file is constructed without an archive; the archive it will be
\* given holds any number of whole blocks.
Init ==
    /\ phase = "new"
    /\ \E n \in 0 .. MaxBlocks : disk \in [0 .. n - 1 -> Content]
    /\ mNumBlocks = -1
    /\ mTimer = 0
    /\ mvPagedBlocks = [p \in Pages |-> FreshPage]
    /\ held = NoPage

-----------------------------------------------------------------------------
(* Opening and closing *)

Archives == UNION {[0 .. n - 1 -> Content] : n \in 0 .. MaxBlocks}
Length(d) == CHOOSE n \in 0 .. MaxBlocks : DOMAIN d = 0 .. n - 1

\* Open: an empty archive is grown to one block, with whatever page 0 holds.
\* The pages themselves are resized, not reset.
OpenOn(d) ==
    /\ LET grown == IF Length(d) = 0 THEN [b \in {0} |-> mvPagedBlocks[0].data] ELSE d
       IN  /\ disk' = grown
           /\ mNumBlocks' = IF Length(d) = 0 THEN 1 ELSE Length(d)
    /\ phase' = "open"
    /\ UNCHANGED <<mTimer, mvPagedBlocks, held>>

Open == phase = "new" /\ OpenOn(disk)

\* FlushBlock: a page that is bound to a block and dirty is written.
MustWrite(pg) == pg.num # INVALID_NUM /\ pg.dirty
NoWriteBack(d, pg) == d         \* variant: eviction forgets the dirty page

WriteBack(d, pg) == IF MustWrite(pg) THEN [d EXCEPT ![pg.num] = pg.data] ELSE d
Cleaned(pg) == IF MustWrite(pg) THEN [pg EXCEPT !.dirty = FALSE] ELSE pg

FlushOnly(ps) ==
    /\ disk' = [b \in DOMAIN disk |->
                  IF \E p \in ps : MustWrite(mvPagedBlocks[p]) /\ mvPagedBlocks[p].num = b
                  THEN mvPagedBlocks[CHOOSE p \in ps :
                          MustWrite(mvPagedBlocks[p]) /\ mvPagedBlocks[p].num = b].data
                  ELSE disk[b]]
    /\ mvPagedBlocks' = [p \in Pages |-> IF p \in ps THEN Cleaned(mvPagedBlocks[p])
                                                      ELSE mvPagedBlocks[p]]

FlushAllButFirst(k) == FlushOnly(1 .. k - 1)    \* variant: an off-by-one

\* The first k pages are flushed.
FlushPages(k) == FlushOnly(0 .. k - 1)

Flush ==
    /\ phase = "open"
    /\ FlushPages(NumPages)
    /\ UNCHANGED <<phase, mNumBlocks, mTimer, held>>

\* Close flushes and deletes the archive; pages and clock stay as they are.
Close ==
    /\ phase = "open"
    /\ FlushPages(NumPages)
    /\ phase' = "closed"
    /\ held' = NoPage
    /\ UNCHANGED <<mNumBlocks, mTimer>>

-----------------------------------------------------------------------------
(* Paging *)


Tick == IF mTimer + 1 = ClockMod THEN 0 ELSE mTimer + 1
Aged == IF Tick = 0 THEN [p \in Pages |-> [mvPagedBlocks[p] EXCEPT !.time = 0]]
                    ELSE mvPagedBlocks

IsLatest(p) == \A q \in Pages : Aged[q].time <= Aged[p].time   \* variant

\* The page whose timestamp is smallest; the first of them when several are.
IsEarliest(p) ==
    /\ \A q \in Pages : Aged[p].time <= Aged[q].time
    /\ \A q \in Pages : q < p => Aged[p].time < Aged[q].time

IsHit(b) == \E p \in Pages : mvPagedBlocks[p].num = b

\* GetBlock on the archive d finds block b in memory ...
Hit(d, b) ==
    \E p \in Pages :
        /\ mvPagedBlocks[p].num = b
        /\ \A q \in Pages : q < p => mvPagedBlocks[q].num # b
        /\ mvPagedBlocks' = [Aged EXCEPT ![p].time = Tick]
        /\ disk' = d
        /\ mTimer' = Tick
        /\ held' = p

\* ... or evicts the earliest page, writing it if it is dirty, and reads b.
Miss(d, b) ==
    /\ ~IsHit(b)
    /\ \E p \in Pages :
        /\ IsEarliest(p)
        /\ disk' = WriteBack(d, Aged[p])
        /\ mvPagedBlocks' = [Aged EXCEPT ![p] =
                               [num |-> b, data |-> disk'[b], dirty |-> FALSE, time |-> Tick]]
        /\ mTimer' = Tick
        /\ held' = p

GetBlock(b) ==
    /\ phase = "open"
    /\ b \in Blocks
    /\ Hit(disk, b) \/ Miss(disk, b)
    /\ UNCHANGED <<phase, mNumBlocks>>

\* CreateBlock writes zero bytes behind the last block and pages them in.
Extended == [b \in 0 .. mNumBlocks |-> IF b = mNumBlocks THEN Zeroes ELSE disk[b]]

CreateBlock ==
    /\ phase = "open"
    /\ mNumBlocks < MaxBlocks
    /\ mNumBlocks' = mNumBlocks + 1
    /\ Hit(Extended, mNumBlocks) \/ Miss(Extended, mNumBlocks)
    /\ UNCHANGED phase

ModifyQuietly(c) ==             \* variant: SetDirty is forgotten
    /\ phase = "open"
    /\ held # NoPage
    /\ mvPagedBlocks' = [mvPagedBlocks EXCEPT ![held].data = c]
    /\ UNCHANGED <<phase, disk, mNumBlocks, mTimer, held>>

\* What callers do with the pointer: change the bytes and call SetDirty.
Modify(c) ==
    /\ phase = "open"
    /\ held # NoPage
    /\ mvPagedBlocks' = [mvPagedBlocks EXCEPT ![held].data = c, ![held].dirty = TRUE]
    /\ UNCHANGED <<phase, disk, mNumBlocks, mTimer, held>>

-----------------------------------------------------------------------------
(* eArchive: a write of the archive fails.  The exception leaves GetBlock  *)
(* or Flush between two steps, and the caller has no pointer.              *)

EvictionFails(n) ==
    /\ mNumBlocks' = n
    /\ \E p \in Pages : IsEarliest(p) /\ MustWrite(Aged[p])
    /\ mvPagedBlocks' = Aged
    /\ mTimer' = Tick
    /\ held' = NoPage
    /\ UNCHANGED phase

GetBlockFails(b) ==
    /\ phase = "open"
    /\ b \in Blocks
    /\ ~IsHit(b)
    /\ EvictionFails(mNumBlocks)
    /\ UNCHANGED disk

\* The new block has been written and counted when the eviction fails.
CreateBlockFails ==
    /\ phase = "open"
    /\ mNumBlocks < MaxBlocks
    /\ disk' = Extended
    /\ ~IsHit(mNumBlocks)
    /\ EvictionFails(mNumBlocks + 1)

FlushFails(k) ==
    /\ phase = "open"
    /\ MustWrite(mvPagedBlocks[k])
    /\ FlushPages(k)
    /\ held' = NoPage
    /\ UNCHANGED <<phase, mNumBlocks, mTimer>>

Next ==
    \/ Open
    \/ Flush
    \/ Close
    \/ CreateBlock
    \/ CreateBlockFails
    \/ \E b \in 0 .. MaxBlocks - 1 : GetBlock(b) \/ GetBlockFails(b)
    \/ \E c \in Content : Modify(c)
    \/ \E k \in Pages : FlushFails(k)

Spec == Init /\ [][Next]_vars

-----------------------------------------------------------------------------
(* Properties *)

\* Type correctness of the object and of the archive behind it.
TypeOK ==
    /\ phase \in {"new", "open", "closed"}
    /\ mNumBlocks \in -1 .. MaxBlocks
    /\ disk \in Archives
    /\ mTimer \in 0 .. ClockMod - 1
    /\ mvPagedBlocks \in [Pages -> Page]
    /\ held \in Pages \cup {NoPage}

\* No block is in two pages: two copies would diverge (blockfile.cpp GetBlock
\* searches every page before it pages a block in).
OneCopy ==
    \A p, q \in Pages : mvPagedBlocks[p].num = mvPagedBlocks[q].num
                          => p = q \/ mvPagedBlocks[p].num = INVALID_NUM

\* A page that will not be written back when it is evicted holds what the
\* archive holds.
CleanMatchesDisk ==
    \A p \in Pages :
        LET pg == mvPagedBlocks[p]
        IN  phase = "open" /\ pg.num # INVALID_NUM /\ ~pg.dirty
            => pg.num \in DOMAIN disk /\ pg.data = disk[pg.num]

\* The pages and the archive together are one consistent file.
Coherent == OneCopy /\ CleanMatchesDisk

\* The page the caller has just been given survives the next GetBlock: with
\* two pages or more, a pointer outlives one further request.  When the clock
\* has just wrapped every timestamp is 0 and the order of use is lost: then
\* the first page is evicted, whoever holds it, and no other page is.
MostRecentKept ==
    [][held # NoPage /\ mTimer' # mTimer /\ (mTimer' > 1 \/ held # 0)
         => mvPagedBlocks'[held].num = mvPagedBlocks[held].num]_vars

\* What a reader of the block file sees.
Contents ==
    [b \in DOMAIN disk |->
        IF phase = "open" /\ IsHit(b)
        THEN mvPagedBlocks[CHOOSE p \in Pages : mvPagedBlocks[p].num = b].data
        ELSE disk[b]]

\* After Flush the archive alone is the file: cFCODatabaseFile::Write flushes
\* and then copies the bytes out of the archive.
FlushReachesDisk == [][Flush => disk' = Contents]_vars

\* Whatever is evicted, wrapped, flushed, closed or interrupted by a failing
\* write, the caller sees an array of blocks that only he changes.
Store == INSTANCE BlockStore
            WITH NoBlock <- INVALID_NUM,
                 blocks  <- Contents,
                 current <- IF held = NoPage THEN INVALID_NUM ELSE mvPagedBlocks[held].num
ImplementsBlockStore == Store!Spec

-----------------------------------------------------------------------------
(* A further history of the class, which breaks coherence.                 *)

\* The read of the new page fails after SetBlockNum: the page is bound to b
\* with the bytes of the block that was just paged out.
ReadFails(b) ==
    /\ phase = "open"
    /\ b \in Blocks
    /\ ~IsHit(b)
    /\ \E p \in Pages :
        /\ IsEarliest(p)
        /\ disk' = WriteBack(disk, Aged[p])
        /\ mvPagedBlocks' = [Aged EXCEPT ![p] = [Cleaned(Aged[p]) EXCEPT !.num = b]]
    /\ mTimer' = Tick
    /\ held' = NoPage
    /\ UNCHANGED <<phase, mNumBlocks>>

ReadFailureSpec == Init /\ [][Next \/ \E b \in 0 .. MaxBlocks - 1 : ReadFails(b)]_vars

=============================================================================
