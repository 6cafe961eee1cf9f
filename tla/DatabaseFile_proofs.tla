-------------------------- MODULE DatabaseFile_proofs --------------------------
(***************************************************************************)
(* The two layers of a database file.  BlockFile: the page cache is        *)
(* coherent for every number of pages, every clock width and every         *)
(* sequence of calls and write failures, and a page pointer outlives one   *)
(* further request, but for that into the first page when the clock wraps. *)
(* BlockRecordFile: every record is kept at its address, byte for byte,    *)
(* and the blocks stay sound, for every size of a block, of an index       *)
(* entry, of the records and of the file, whatever is added and removed,   *)
(* and also when a block was created that could not be paged in.           *)
(***************************************************************************)
EXTENDS BlockFile, BlockRecordFile, WellFoundedInduction, TLAPS

-----------------------------------------------------------------------------
(***************************************************************************)
(* BlockFile.                                                              *)
(***************************************************************************)

\* The archive has the length the block file remembers.
Sized == phase # "new" => mNumBlocks \in Nat /\ disk \in [0 .. mNumBlocks - 1 -> Content]

\* Before Open nothing has been paged in.
Untouched == phase = "new" => /\ held = NoPage
                              /\ mvPagedBlocks = [p \in Pages |-> FreshPage]

\* Pages are bound to blocks that exist, and only bound pages are dirty.
Bound ==
    \A p \in Pages : /\ mvPagedBlocks[p].num < mNumBlocks \/ mvPagedBlocks[p].num = INVALID_NUM
                     /\ mvPagedBlocks[p].dirty => mvPagedBlocks[p].num # INVALID_NUM

\* The page that was returned last carries the time of the clock, and no
\* other page does unless the clock stands at 0, where it wrapped.
Recent ==
    held # NoPage =>
        /\ phase = "open"
        /\ mvPagedBlocks[held].num # INVALID_NUM
        /\ mvPagedBlocks[held].time = mTimer
        /\ mTimer > 0 => \A p \in Pages : p # held => mvPagedBlocks[p].time < mTimer

\* No timestamp lies in the future.
Past == \A p \in Pages : mvPagedBlocks[p].time <= mTimer

IInv == TypeOK /\ OneCopy /\ CleanMatchesDisk /\ Sized /\ Untouched /\ Bound /\ Recent /\ Past

-----------------------------------------------------------------------------
(* Lemmas about the operators of BlockFile *)

LEMMA TickType == TypeOK => Tick \in 0 .. ClockMod - 1
  BY BlockFileAssumption DEF TypeOK, Tick

\* Resetting the timestamps touches nothing else, and afterwards every page is
\* older than the new time - or as old, when the new time is 0.
LEMMA AgedPages ==
  ASSUME TypeOK, Past
  PROVE  /\ Aged \in [Pages -> Page]
         /\ \A p \in Pages : /\ Aged[p].num = mvPagedBlocks[p].num
                             /\ Aged[p].data = mvPagedBlocks[p].data
                             /\ Aged[p].dirty = mvPagedBlocks[p].dirty
                             /\ Aged[p].time <= Tick
                             /\ Tick > 0 => Aged[p].time < Tick
  <1>1. CASE Tick = 0
    <2>1. Aged = [p \in Pages |-> [mvPagedBlocks[p] EXCEPT !.time = 0]]
      BY <1>1 DEF Aged
    <2>2. 0 \in 0 .. ClockMod - 1
      BY BlockFileAssumption
    <2>. QED BY <1>1, <2>1, <2>2 DEF TypeOK, Page
  <1>2. CASE Tick # 0
    <2>1. Aged = mvPagedBlocks
      BY <1>2 DEF Aged
    <2>2. Tick = mTimer + 1 /\ mTimer \in Nat
      BY <1>2 DEF Tick, TypeOK
    <2>3. \A p \in Pages : mvPagedBlocks[p].time \in Nat /\ mvPagedBlocks[p].time <= mTimer
      BY DEF TypeOK, Past, Page
    <2>. QED BY <2>1, <2>2, <2>3 DEF TypeOK
  <1>. QED BY <1>1, <1>2

\* The length of an archive is the number of its blocks.
LEMMA LengthOf ==
  ASSUME NEW n \in 0 .. MaxBlocks, NEW d \in [0 .. n - 1 -> Content]
  PROVE  Length(d) = n
  <1>1. \A m \in 0 .. MaxBlocks : DOMAIN d = 0 .. m - 1 => m = n
    <2>. SUFFICES ASSUME NEW m \in 0 .. MaxBlocks, 0 .. n - 1 = 0 .. m - 1
                  PROVE  m = n
      OBVIOUS
    <2>1. ~(n < m)
      <3>1. n < m => n \in 0 .. m - 1 /\ n \notin 0 .. n - 1
        BY BlockFileAssumption
      <3>. QED BY <3>1
    <2>2. ~(m < n)
      <3>1. m < n => m \in 0 .. n - 1 /\ m \notin 0 .. m - 1
        BY BlockFileAssumption
      <3>. QED BY <3>1
    <2>. QED BY <2>1, <2>2, BlockFileAssumption
  <1>2. DOMAIN d = 0 .. n - 1
    OBVIOUS
  <1>. QED BY <1>1, <1>2 DEF Length

\* A page is bound to a block of the file or to none.
LEMMA BoundBlock ==
  ASSUME TypeOK, Bound, NEW p \in Pages, mvPagedBlocks[p].num # INVALID_NUM
  PROVE  mvPagedBlocks[p].num \in 0 .. mNumBlocks - 1
  <1>1. mvPagedBlocks[p].num \in -1 .. MaxBlocks - 1 /\ mNumBlocks \in Int
    BY BlockFileAssumption DEF TypeOK, Page
  <1>2. mvPagedBlocks[p].num < mNumBlocks
    BY DEF Bound
  <1>. QED BY <1>1, <1>2, BlockFileAssumption DEF INVALID_NUM

-----------------------------------------------------------------------------
(* Paging *)

\* The situation in which GetBlock looks for block b: an open, coherent file
\* whose archive d has n blocks, the first mNumBlocks of them as before.
Paging(d, n, b) ==
    /\ IInv
    /\ phase = "open"
    /\ n \in 1 .. MaxBlocks /\ mNumBlocks <= n
    /\ d \in [0 .. n - 1 -> Content]
    /\ \A i \in 0 .. mNumBlocks - 1 : d[i] = disk[i]
    /\ b \in 0 .. n - 1

\* A hit changes timestamps only.
LEMMA HitKeepsInv ==
  ASSUME NEW d, NEW n, NEW b, Paging(d, n, b), Hit(d, b), phase' = phase, mNumBlocks' = n
  PROVE  IInv'
  <1>0. PICK p \in Pages : /\ mvPagedBlocks[p].num = b
                           /\ mvPagedBlocks' = [Aged EXCEPT ![p].time = Tick]
                           /\ disk' = d /\ mTimer' = Tick /\ held' = p
    BY DEF Hit
  <1>1. /\ TypeOK /\ Past /\ Bound /\ n \in Nat /\ b \in Nat /\ b # INVALID_NUM
        /\ Tick \in 0 .. ClockMod - 1
    BY TickType, BlockFileAssumption DEF Paging, IInv, INVALID_NUM
  <1>2. /\ mvPagedBlocks' \in [Pages -> Page]
        /\ mvPagedBlocks'[p].time = Tick
        /\ \A q \in Pages : /\ mvPagedBlocks'[q].num = mvPagedBlocks[q].num
                            /\ mvPagedBlocks'[q].data = mvPagedBlocks[q].data
                            /\ mvPagedBlocks'[q].dirty = mvPagedBlocks[q].dirty
                            /\ mvPagedBlocks'[q].time <= Tick
                            /\ q # p /\ Tick > 0 => mvPagedBlocks'[q].time < Tick
    BY <1>0, <1>1, AgedPages DEF Page
  <1>3. TypeOK'
    <2>1. disk' \in Archives
      BY <1>0, BlockFileAssumption DEF Paging, Archives
    <2>. QED BY <1>0, <1>1, <1>2, <2>1, BlockFileAssumption DEF TypeOK, Paging
  <1>4. OneCopy'
    BY <1>2 DEF Paging, IInv, OneCopy
  <1>5. CleanMatchesDisk'
    <2>. SUFFICES ASSUME NEW q \in Pages, mvPagedBlocks[q].num # INVALID_NUM,
                         ~mvPagedBlocks[q].dirty
                  PROVE  /\ mvPagedBlocks[q].num \in DOMAIN d
                         /\ mvPagedBlocks[q].data = d[mvPagedBlocks[q].num]
      BY <1>0, <1>2 DEF CleanMatchesDisk
    <2>1. mvPagedBlocks[q].num \in 0 .. mNumBlocks - 1
      BY <1>1, BoundBlock
    <2>2. mvPagedBlocks[q].data = disk[mvPagedBlocks[q].num]
      BY DEF Paging, IInv, CleanMatchesDisk
    <2>. QED BY <1>1, <2>1, <2>2, BlockFileAssumption DEF Paging, IInv, TypeOK
  <1>6. Sized' /\ Untouched'
    BY <1>0, <1>1 DEF Paging, Sized, Untouched
  <1>7. Bound'
    BY <1>1, <1>2 DEF Paging, IInv, Bound, TypeOK, Page, INVALID_NUM
  <1>8. Recent' /\ Past'
    BY <1>0, <1>1, <1>2 DEF Paging, Recent, Past
  <1>. QED BY <1>3, <1>4, <1>5, <1>6, <1>7, <1>8 DEF IInv

\* A miss: the dirty page reaches the archive before its page is bound to b,
\* and no other page is bound to either block.
LEMMA MissKeepsInv ==
  ASSUME NEW d, NEW n, NEW b, Paging(d, n, b), Miss(d, b), phase' = phase, mNumBlocks' = n
  PROVE  IInv'
  <1>0. PICK p \in Pages :
           /\ disk' = WriteBack(d, Aged[p])
           /\ mvPagedBlocks' = [Aged EXCEPT ![p] =
                                  [num |-> b, data |-> disk'[b], dirty |-> FALSE, time |-> Tick]]
           /\ mTimer' = Tick /\ held' = p
    BY DEF Miss
  <1>1. /\ TypeOK /\ Past /\ Bound /\ OneCopy /\ n \in Nat /\ b \in Nat /\ b # INVALID_NUM
        /\ Tick \in 0 .. ClockMod - 1 /\ b \in -1 .. MaxBlocks - 1
    BY TickType, BlockFileAssumption DEF Paging, IInv, INVALID_NUM
  <1>2. \A q \in Pages : mvPagedBlocks[q].num # b
    BY DEF Miss, IsHit
  <1>3. /\ disk' \in [0 .. n - 1 -> Content]
        /\ \A i \in 0 .. n - 1 : disk'[i] = IF MustWrite(mvPagedBlocks[p]) /\ i = mvPagedBlocks[p].num
                                           THEN mvPagedBlocks[p].data ELSE d[i]
    <2>1. Aged[p].num = mvPagedBlocks[p].num /\ Aged[p].data = mvPagedBlocks[p].data
          /\ Aged[p].dirty = mvPagedBlocks[p].dirty
      BY <1>1, AgedPages
    <2>2. mvPagedBlocks[p].data \in Content
      BY <1>1 DEF TypeOK, Page
    <2>3. CASE MustWrite(mvPagedBlocks[p])
      <3>1. disk' = [d EXCEPT ![mvPagedBlocks[p].num] = mvPagedBlocks[p].data]
        BY <1>0, <2>1, <2>3 DEF WriteBack, MustWrite
      <3>. QED BY <2>2, <2>3, <3>1 DEF Paging
    <2>4. CASE ~MustWrite(mvPagedBlocks[p])
      <3>1. disk' = d
        BY <1>0, <2>1, <2>4 DEF WriteBack, MustWrite
      <3>. QED BY <2>4, <3>1 DEF Paging
    <2>. QED BY <2>3, <2>4
  <1>4. disk'[b] \in Content
    BY <1>3 DEF Paging
  <1>5. /\ mvPagedBlocks' \in [Pages -> Page]
        /\ mvPagedBlocks'[p].num = b /\ mvPagedBlocks'[p].data = disk'[b]
        /\ ~mvPagedBlocks'[p].dirty /\ mvPagedBlocks'[p].time = Tick
        /\ \A q \in Pages : q # p => /\ mvPagedBlocks'[q].num = mvPagedBlocks[q].num
                                     /\ mvPagedBlocks'[q].data = mvPagedBlocks[q].data
                                     /\ mvPagedBlocks'[q].dirty = mvPagedBlocks[q].dirty
                                     /\ mvPagedBlocks'[q].time <= Tick
                                     /\ Tick > 0 => mvPagedBlocks'[q].time < Tick
    <2>1. [num |-> b, data |-> disk'[b], dirty |-> FALSE, time |-> Tick] \in Page
      BY <1>1, <1>4 DEF Page
    <2>. QED BY <1>0, <1>1, <2>1, AgedPages
  <1>6. TypeOK'
    <2>1. disk' \in Archives
      BY <1>3, BlockFileAssumption DEF Paging, Archives
    <2>. QED BY <1>0, <1>1, <1>5, <2>1, BlockFileAssumption DEF TypeOK, Paging
  <1>7. OneCopy'
    <2>. SUFFICES ASSUME NEW q \in Pages, NEW r \in Pages,
                         mvPagedBlocks'[q].num = mvPagedBlocks'[r].num
                  PROVE  q = r \/ mvPagedBlocks'[q].num = INVALID_NUM
      BY DEF OneCopy
    <2>1. CASE q = p \/ r = p
      BY <1>2, <1>5, <2>1
    <2>2. CASE q # p /\ r # p
      BY <1>1, <1>5, <2>2 DEF OneCopy
    <2>. QED BY <2>1, <2>2
  <1>8. CleanMatchesDisk'
    <2>. SUFFICES ASSUME NEW q \in Pages, mvPagedBlocks'[q].num # INVALID_NUM,
                         ~mvPagedBlocks'[q].dirty
                  PROVE  /\ mvPagedBlocks'[q].num \in DOMAIN disk'
                         /\ mvPagedBlocks'[q].data = disk'[mvPagedBlocks'[q].num]
      BY DEF CleanMatchesDisk
    <2>1. CASE q = p
      BY <1>3, <1>5, <2>1 DEF Paging
    <2>2. CASE q # p
      <3>1. mvPagedBlocks[q].num \in 0 .. mNumBlocks - 1
        BY <1>1, <1>5, <2>2, BoundBlock
      <3>2. mvPagedBlocks[q].data = disk[mvPagedBlocks[q].num]
        BY <1>5, <2>2 DEF Paging, IInv, CleanMatchesDisk
      <3>3. mvPagedBlocks[q].num # mvPagedBlocks[p].num \/ ~MustWrite(mvPagedBlocks[p])
        BY <1>1, <1>5, <2>2 DEF OneCopy, MustWrite
      <3>4. mNumBlocks \in Int /\ mNumBlocks <= n
        BY <1>1, BlockFileAssumption DEF TypeOK, Paging
      <3>5. mvPagedBlocks[q].num \in 0 .. n - 1
        BY <1>1, <3>1, <3>4
      <3>6. disk'[mvPagedBlocks[q].num] = d[mvPagedBlocks[q].num]
        BY <1>3, <3>3, <3>5
      <3>. QED BY <1>3, <1>5, <2>2, <3>1, <3>2, <3>5, <3>6 DEF Paging
    <2>. QED BY <2>1, <2>2
  <1>9. Sized' /\ Untouched'
    BY <1>0, <1>1, <1>3 DEF Paging, Sized, Untouched
  <1>10. Bound'
    <2>1. b < n
      BY <1>1 DEF Paging
    <2>2. \A q \in Pages : mvPagedBlocks[q].num \in Int
      BY <1>1, BlockFileAssumption DEF TypeOK, Page
    <2>3. mNumBlocks \in Int /\ mNumBlocks <= n
      BY <1>1, BlockFileAssumption DEF TypeOK, Paging
    <2>. QED BY <1>1, <1>5, <2>1, <2>2, <2>3 DEF Bound
  <1>11. Recent' /\ Past'
    BY <1>0, <1>1, <1>5 DEF Paging, Recent, Past
  <1>. QED BY <1>6, <1>7, <1>8, <1>9, <1>10, <1>11 DEF IInv

\* An eviction that fails leaves every page and block as it was.
LEMMA FailedEvictionKeepsInv ==
  ASSUME NEW n, IInv, phase = "open", n \in 1 .. MaxBlocks, mNumBlocks <= n, EvictionFails(n),
         disk' \in [0 .. n - 1 -> Content],
         \A i \in 0 .. mNumBlocks - 1 : disk'[i] = disk[i]
  PROVE  IInv'
  <1>0. phase' = phase /\ mNumBlocks' = n /\ mvPagedBlocks' = Aged /\ mTimer' = Tick /\ held' = NoPage
    BY DEF EvictionFails
  <1>1. TypeOK /\ Past /\ Bound /\ OneCopy /\ n \in Nat /\ Tick \in 0 .. ClockMod - 1
    BY TickType, BlockFileAssumption DEF IInv
  <1>2. /\ mvPagedBlocks' \in [Pages -> Page]
        /\ \A q \in Pages :
             /\ mvPagedBlocks'[q].num = mvPagedBlocks[q].num
             /\ mvPagedBlocks'[q].data = mvPagedBlocks[q].data
             /\ mvPagedBlocks'[q].dirty = mvPagedBlocks[q].dirty
             /\ mvPagedBlocks'[q].time <= Tick
    BY <1>0, <1>1, AgedPages
  <1>3. TypeOK'
    <2>1. disk' \in Archives
      BY BlockFileAssumption DEF Archives
    <2>. QED BY <1>0, <1>1, <1>2, <2>1, BlockFileAssumption DEF TypeOK
  <1>4. OneCopy'
    BY <1>1, <1>2 DEF OneCopy
  <1>5. CleanMatchesDisk'
    <2>. SUFFICES ASSUME NEW q \in Pages, mvPagedBlocks[q].num # INVALID_NUM,
                         ~mvPagedBlocks[q].dirty
                  PROVE  /\ mvPagedBlocks[q].num \in DOMAIN disk'
                         /\ mvPagedBlocks[q].data = disk'[mvPagedBlocks[q].num]
      BY <1>2 DEF CleanMatchesDisk
    <2>1. mvPagedBlocks[q].num \in 0 .. mNumBlocks - 1
      BY <1>1, BoundBlock
    <2>2. mvPagedBlocks[q].data = disk[mvPagedBlocks[q].num]
      BY DEF IInv, CleanMatchesDisk
    <2>. QED BY <1>1, <2>1, <2>2, BlockFileAssumption DEF TypeOK
  <1>6. Sized' /\ Untouched'
    BY <1>0, <1>1 DEF Sized, Untouched
  <1>7. Bound'
    BY <1>0, <1>1, <1>2, BlockFileAssumption DEF Bound, TypeOK, Page
  <1>8. Recent' /\ Past'
    BY <1>0, <1>2 DEF Recent, Past
  <1>. QED BY <1>3, <1>4, <1>5, <1>6, <1>7, <1>8 DEF IInv

-----------------------------------------------------------------------------
(* Flushing *)

\* What the archive holds after some of the pages have been flushed: because
\* no block is in two pages, each block has one source.
LEMMA FlushedDisk ==
  ASSUME IInv, phase = "open", NEW ps \in SUBSET Pages, FlushOnly(ps)
  PROVE  /\ disk' \in [0 .. mNumBlocks - 1 -> Content]
         /\ \A q \in Pages :
              mvPagedBlocks[q].num # INVALID_NUM =>
                disk'[mvPagedBlocks[q].num] = IF q \in ps /\ mvPagedBlocks[q].dirty
                                              THEN mvPagedBlocks[q].data
                                              ELSE disk[mvPagedBlocks[q].num]
         /\ \A b \in 0 .. mNumBlocks - 1 :
              (\A q \in Pages : mvPagedBlocks[q].num # b) => disk'[b] = disk[b]
  <1>. DEFINE Source(b) == CHOOSE p \in ps : MustWrite(mvPagedBlocks[p]) /\ mvPagedBlocks[p].num = b
              Has(b) == \E p \in ps : MustWrite(mvPagedBlocks[p]) /\ mvPagedBlocks[p].num = b
  <1>1. /\ mNumBlocks \in Nat /\ disk \in [0 .. mNumBlocks - 1 -> Content]
        /\ disk' = [b \in 0 .. mNumBlocks - 1 |->
                      IF Has(b) THEN mvPagedBlocks[Source(b)].data ELSE disk[b]]
    BY DEF FlushOnly, IInv, Sized
  <1>2. \A b : Has(b) => /\ Source(b) \in Pages
                         /\ mvPagedBlocks[Source(b)].num = b
                         /\ MustWrite(mvPagedBlocks[Source(b)])
    OBVIOUS
  <1>3. \A p \in Pages : mvPagedBlocks[p].data \in Content
    BY DEF IInv, TypeOK, Page
  <1>4. disk' \in [0 .. mNumBlocks - 1 -> Content]
    BY <1>1, <1>2, <1>3
  <1>5. ASSUME NEW q \in Pages, mvPagedBlocks[q].num # INVALID_NUM
        PROVE  disk'[mvPagedBlocks[q].num] = IF q \in ps /\ mvPagedBlocks[q].dirty
                                             THEN mvPagedBlocks[q].data
                                             ELSE disk[mvPagedBlocks[q].num]
    <2>1. mvPagedBlocks[q].num \in 0 .. mNumBlocks - 1
      BY <1>5, BoundBlock DEF IInv
    <2>2. Has(mvPagedBlocks[q].num) => Source(mvPagedBlocks[q].num) = q
      BY <1>2, <1>5 DEF IInv, OneCopy
    <2>3. Has(mvPagedBlocks[q].num) <=> q \in ps /\ mvPagedBlocks[q].dirty
      BY <1>2, <1>5, <2>2 DEF MustWrite
    <2>. QED BY <1>1, <2>1, <2>2, <2>3
  <1>6. ASSUME NEW b \in 0 .. mNumBlocks - 1, \A q \in Pages : mvPagedBlocks[q].num # b
        PROVE  disk'[b] = disk[b]
    <2>1. ~Has(b)
      BY <1>6
    <2>. QED BY <1>1, <2>1
  <1>. QED BY <1>4, <1>5, <1>6

LEMMA FlushKeepsInv ==
  ASSUME IInv, phase = "open", NEW ps \in SUBSET Pages, FlushOnly(ps),
         mNumBlocks' = mNumBlocks, mTimer' = mTimer,
         \/ phase' = "open" /\ held' \in {held, NoPage}
         \/ phase' = "closed" /\ held' = NoPage
  PROVE  IInv'
  <1>1. /\ TypeOK /\ Past /\ Bound /\ OneCopy /\ Recent
        /\ mNumBlocks \in Nat /\ mNumBlocks \in 0 .. MaxBlocks
    BY DEF IInv, Sized, TypeOK
  <1>2. /\ mvPagedBlocks' \in [Pages -> Page]
        /\ \A q \in Pages :
             /\ mvPagedBlocks'[q].num = mvPagedBlocks[q].num
             /\ mvPagedBlocks'[q].data = mvPagedBlocks[q].data
             /\ mvPagedBlocks'[q].time = mvPagedBlocks[q].time
             /\ mvPagedBlocks'[q].dirty <=> mvPagedBlocks[q].dirty /\ q \notin ps
    <2>1. \A q \in Pages : mvPagedBlocks[q].dirty => mvPagedBlocks[q].num # INVALID_NUM
      BY <1>1 DEF Bound
    <2>2. mvPagedBlocks' = [p \in Pages |-> IF p \in ps THEN Cleaned(mvPagedBlocks[p])
                                                        ELSE mvPagedBlocks[p]]
      BY DEF FlushOnly
    <2>. QED BY <1>1, <2>1, <2>2 DEF Cleaned, MustWrite, TypeOK, Page
  <1>3. TypeOK'
    <2>1. disk' \in Archives
      BY <1>1, FlushedDisk DEF Archives
    <2>. QED BY <1>1, <1>2, <2>1 DEF TypeOK
  <1>4. OneCopy'
    BY <1>1, <1>2 DEF OneCopy
  <1>5. CleanMatchesDisk'
    <2>. SUFFICES ASSUME NEW q \in Pages, mvPagedBlocks[q].num # INVALID_NUM,
                         q \in ps \/ ~mvPagedBlocks[q].dirty
                  PROVE  /\ mvPagedBlocks[q].num \in DOMAIN disk'
                         /\ mvPagedBlocks[q].data = disk'[mvPagedBlocks[q].num]
      BY <1>2 DEF CleanMatchesDisk
    <2>1. mvPagedBlocks[q].num \in 0 .. mNumBlocks - 1
      BY <1>1, BoundBlock
    <2>2. ~mvPagedBlocks[q].dirty => mvPagedBlocks[q].data = disk[mvPagedBlocks[q].num]
      BY DEF IInv, CleanMatchesDisk
    <2>. QED BY <2>1, <2>2, FlushedDisk
  <1>6. Sized' /\ Untouched'
    BY <1>1, FlushedDisk DEF Sized, Untouched
  <1>7. Bound'
    BY <1>1, <1>2 DEF Bound
  <1>8. Recent'
    <2>1. held # NoPage => held \in Pages
      BY <1>1 DEF TypeOK
    <2>2. CASE held' = NoPage
      BY <2>2 DEF Recent
    <2>3. CASE held' = held /\ held # NoPage /\ phase' = "open"
      BY <1>1, <1>2, <2>1, <2>3 DEF Recent
    <2>. QED BY <2>2, <2>3
  <1>9. Past'
    BY <1>1, <1>2 DEF Past
  <1>. QED BY <1>3, <1>4, <1>5, <1>6, <1>7, <1>8, <1>9 DEF IInv

-----------------------------------------------------------------------------
(* The remaining steps *)

LEMMA OpenKeepsInv == IInv /\ Open => IInv'
  <1>. SUFFICES ASSUME IInv, Open PROVE IInv'
    OBVIOUS
  <1>1. /\ held = NoPage /\ TypeOK /\ 0 \in Pages
        /\ \A p \in Pages : mvPagedBlocks[p] = FreshPage
    BY BlockFileAssumption DEF IInv, Untouched, Open, Pages
  <1>0. phase' = "open" /\ UNCHANGED <<mTimer, mvPagedBlocks, held>>
    BY DEF Open, OpenOn
  <1>2. PICK n \in 0 .. MaxBlocks : disk \in [0 .. n - 1 -> Content]
    BY <1>1 DEF TypeOK, Archives
  <1>3. Length(disk) = n
    BY <1>2, LengthOf
  <1>4. \E m \in 1 .. MaxBlocks : mNumBlocks' = m /\ disk' \in [0 .. m - 1 -> Content]
    <2>1. CASE n = 0
      <3>1. disk' = [b \in {0} |-> Zeroes] /\ mNumBlocks' = 1
        BY <1>1, <1>3, <2>1 DEF Open, OpenOn, FreshPage
      <3>2. {0} = 0 .. 1 - 1
        OBVIOUS
      <3>. QED BY <3>1, <3>2, BlockFileAssumption
    <2>2. CASE n # 0
      <3>1. disk' = disk /\ mNumBlocks' = n
        BY <1>3, <2>2 DEF Open, OpenOn
      <3>. QED BY <1>2, <2>2, <3>1, BlockFileAssumption
    <2>. QED BY <2>1, <2>2
  <1>5. TypeOK'
    <2>1. disk' \in Archives
      BY <1>4, BlockFileAssumption DEF Archives
    <2>2. mNumBlocks' \in -1 .. MaxBlocks
      BY <1>4, BlockFileAssumption
    <2>3. mTimer \in 0 .. ClockMod - 1 /\ mvPagedBlocks \in [Pages -> Page]
          /\ held \in Pages \cup {NoPage}
      BY <1>1 DEF TypeOK
    <2>. QED BY <1>0, <2>1, <2>2, <2>3 DEF TypeOK
  <1>6. \A p \in Pages : /\ mvPagedBlocks'[p].num = INVALID_NUM
                         /\ ~mvPagedBlocks'[p].dirty
                         /\ mvPagedBlocks'[p].time = 0
    BY <1>0, <1>1 DEF FreshPage
  <1>7. OneCopy' /\ CleanMatchesDisk' /\ Bound'
    BY <1>6 DEF OneCopy, CleanMatchesDisk, Bound
  <1>8. Sized' /\ Untouched' /\ Recent'
    BY <1>0, <1>1, <1>4 DEF Sized, Untouched, Recent
  <1>9. Past'
    <2>1. mTimer \in Nat
      BY <1>1, BlockFileAssumption DEF TypeOK
    <2>. QED BY <1>0, <1>6, <2>1 DEF Past
  <1>. QED BY <1>5, <1>7, <1>8, <1>9 DEF IInv

LEMMA ModifyKeepsInv ==
  ASSUME IInv, NEW c \in Content, Modify(c)
  PROVE  IInv'
  <1>1. /\ held \in Pages /\ mvPagedBlocks \in [Pages -> Page] /\ held # NoPage
        /\ mvPagedBlocks[held].num # INVALID_NUM
    BY DEF Modify, IInv, TypeOK, Recent
  <1>2. /\ mvPagedBlocks' \in [Pages -> Page]
        /\ mvPagedBlocks'[held].dirty
        /\ \A q \in Pages :
             /\ mvPagedBlocks'[q].num = mvPagedBlocks[q].num
             /\ mvPagedBlocks'[q].time = mvPagedBlocks[q].time
             /\ q # held => /\ mvPagedBlocks'[q].data = mvPagedBlocks[q].data
                            /\ mvPagedBlocks'[q].dirty = mvPagedBlocks[q].dirty
    BY <1>1 DEF Modify, Page
  <1>3. UNCHANGED <<phase, disk, mNumBlocks, mTimer, held>> /\ phase = "open"
    BY DEF Modify
  <1>4. TypeOK' /\ OneCopy' /\ Sized' /\ Untouched' /\ Past'
    BY <1>2, <1>3 DEF IInv, TypeOK, OneCopy, Sized, Untouched, Past
  <1>5. CleanMatchesDisk'
    BY <1>2, <1>3 DEF IInv, CleanMatchesDisk
  <1>6. Bound' /\ Recent'
    BY <1>1, <1>2, <1>3 DEF IInv, Bound, Recent
  <1>. QED BY <1>4, <1>5, <1>6 DEF IInv

LEMMA InitEstablishesInv == Init => IInv
  <1>. SUFFICES ASSUME Init PROVE IInv
    OBVIOUS
  <1>1. disk \in Archives
    BY DEF Init, Archives
  <1>2. FreshPage \in Page /\ 0 \in 0 .. ClockMod - 1 /\ -1 \in -1 .. MaxBlocks
    BY BlockFileAssumption DEF FreshPage, Page, INVALID_NUM
  <1>3. \A p \in Pages : mvPagedBlocks[p] = FreshPage
    BY DEF Init
  <1>4. TypeOK
    BY <1>1, <1>2, BlockFileAssumption DEF Init, TypeOK
  <1>. QED BY <1>3, <1>4
           DEF Init, IInv, OneCopy, CleanMatchesDisk, Sized, Untouched, Bound, Recent, Past,
               FreshPage, INVALID_NUM

LEMMA GetBlockKeepsInv ==
  ASSUME IInv, NEW b \in Int, GetBlock(b) \/ GetBlockFails(b)
  PROVE  IInv'
  <1>1. /\ phase = "open" /\ b \in 0 .. mNumBlocks - 1
        /\ mNumBlocks \in Nat /\ disk \in [0 .. mNumBlocks - 1 -> Content]
    BY DEF GetBlock, GetBlockFails, Blocks, IInv, Sized
  <1>2. mNumBlocks \in 1 .. MaxBlocks
    BY <1>1, BlockFileAssumption DEF IInv, TypeOK
  <1>3. Paging(disk, mNumBlocks, b)
    BY <1>1, <1>2 DEF Paging
  <1>4. CASE GetBlock(b)
    BY <1>3, <1>4, HitKeepsInv, MissKeepsInv DEF GetBlock
  <1>5. CASE GetBlockFails(b)
    BY <1>1, <1>2, <1>5, FailedEvictionKeepsInv DEF GetBlockFails
  <1>. QED BY <1>4, <1>5

LEMMA ExtendedArchive ==
  ASSUME IInv, phase = "open", mNumBlocks < MaxBlocks
  PROVE  Paging(Extended, mNumBlocks + 1, mNumBlocks)
  <1>1. mNumBlocks \in Nat /\ disk \in [0 .. mNumBlocks - 1 -> Content]
    BY DEF IInv, Sized
  <1>2. (mNumBlocks + 1) - 1 = mNumBlocks
    BY <1>1
  <1>3. Extended \in [0 .. mNumBlocks -> Content]
    BY <1>1, BlockFileAssumption DEF Extended
  <1>4. \A i \in 0 .. mNumBlocks - 1 : Extended[i] = disk[i]
    BY <1>1 DEF Extended
  <1>. QED BY <1>1, <1>2, <1>3, <1>4, BlockFileAssumption DEF Paging

LEMMA CreateBlockKeepsInv ==
  ASSUME IInv, CreateBlock \/ CreateBlockFails
  PROVE  IInv'
  <1>1. Paging(Extended, mNumBlocks + 1, mNumBlocks)
    BY ExtendedArchive DEF CreateBlock, CreateBlockFails
  <1>2. CASE CreateBlock
    BY <1>1, <1>2, HitKeepsInv, MissKeepsInv DEF CreateBlock
  <1>3. CASE CreateBlockFails
    BY <1>1, <1>3, FailedEvictionKeepsInv DEF CreateBlockFails, Paging
  <1>. QED BY <1>2, <1>3

LEMMA NextKeepsInv == IInv /\ [Next]_vars => IInv'
  <1>. SUFFICES ASSUME IInv, [Next]_vars PROVE IInv'
    OBVIOUS
  <1>1. CASE Open
    BY <1>1, OpenKeepsInv
  <1>2. CASE Flush
    <2>1. 0 .. NumPages - 1 \in SUBSET Pages
      BY DEF Pages
    <2>. QED BY <1>2, <2>1, FlushKeepsInv DEF Flush, FlushPages
  <1>3. CASE Close
    <2>1. 0 .. NumPages - 1 \in SUBSET Pages
      BY DEF Pages
    <2>. QED BY <1>3, <2>1, FlushKeepsInv DEF Close, FlushPages
  <1>4. CASE CreateBlock \/ CreateBlockFails
    BY <1>4, CreateBlockKeepsInv
  <1>5. CASE \E b \in 0 .. MaxBlocks - 1 : GetBlock(b) \/ GetBlockFails(b)
    BY <1>5, GetBlockKeepsInv
  <1>6. CASE \E c \in Content : Modify(c)
    BY <1>6, ModifyKeepsInv
  <1>7. CASE \E k \in Pages : FlushFails(k)
    <2>1. PICK k \in Pages : FlushFails(k)
      BY <1>7
    <2>2. 0 .. k - 1 \in SUBSET Pages
      BY BlockFileAssumption DEF Pages
    <2>. QED BY <2>1, <2>2, FlushKeepsInv DEF FlushFails, FlushPages
  <1>8. CASE UNCHANGED vars
    BY <1>8 DEF vars, IInv, TypeOK, OneCopy, CleanMatchesDisk, Sized, Untouched, Bound, Recent,
                Past
  <1>. QED BY <1>1, <1>2, <1>3, <1>4, <1>5, <1>6, <1>7, <1>8 DEF Next

-----------------------------------------------------------------------------
(* Theorems *)

LEMMA Invariance == Spec => []IInv
  BY InitEstablishesInv, NextKeepsInv, PTL DEF Spec

\* Every field of the block file and of its pages keeps its type, the clock
\* its width and the archive a whole number of blocks (blockfile.cpp).
THEOREM TypeCorrect == Spec => []TypeOK
  <1>1. IInv => TypeOK
    BY DEF IInv
  <1>. QED BY <1>1, Invariance, PTL

\* However blocks are requested, changed, evicted, flushed and created, and
\* whichever writes fail, no block has two copies and a page that would be
\* dropped without a write agrees with the archive (GetBlock, FlushBlock).
THEOREM CacheCoherent == Spec => []Coherent
  <1>1. IInv => Coherent
    BY DEF IInv, Coherent
  <1>. QED BY <1>1, Invariance, PTL

\* GetBlock and CreateBlock never evict the page whose pointer was handed out
\* last, unless the clock stands at 0 or 1 after it wrapped and that page is
\* the first.
THEOREM PointerOutlivesOneRequest == Spec => MostRecentKept
  <1>1. IInv /\ [Next]_vars =>
          [held # NoPage /\ mTimer' # mTimer /\ (mTimer' > 1 \/ held # 0)
             => mvPagedBlocks'[held].num = mvPagedBlocks[held].num]_vars
    <2>. SUFFICES ASSUME IInv, Next, held # NoPage, mTimer' # mTimer, mTimer' > 1 \/ held # 0
                  PROVE  mvPagedBlocks'[held].num = mvPagedBlocks[held].num
      BY DEF vars
    <2>1. /\ TypeOK /\ Past /\ held \in Pages /\ mvPagedBlocks \in [Pages -> Page]
          /\ mTimer \in Nat
      BY BlockFileAssumption DEF IInv, TypeOK
    <2>2. ASSUME NEW d, NEW b, Hit(d, b)
          PROVE  mvPagedBlocks'[held].num = mvPagedBlocks[held].num
      BY <2>1, <2>2, AgedPages DEF Hit, Page
    <2>3. ASSUME NEW d, NEW b, Miss(d, b)
          PROVE  mvPagedBlocks'[held].num = mvPagedBlocks[held].num
      <3>1. PICK p \in Pages :
              /\ IsEarliest(p)
              /\ mvPagedBlocks' = [Aged EXCEPT ![p] =
                    [num |-> b, data |-> disk'[b], dirty |-> FALSE, time |-> Tick]]
              /\ mTimer' = Tick
        BY <2>3 DEF Miss
      <3>2. CASE mTimer' > 1
        <4>1. Aged = mvPagedBlocks /\ mTimer > 0
          BY <2>1, <3>1, <3>2 DEF Tick, Aged
        <4>2. PICK q \in Pages : q # held
          BY <2>1, BlockFileAssumption DEF Pages
        <4>3. mvPagedBlocks[q].time < mTimer /\ mvPagedBlocks[held].time = mTimer
          BY <4>1, <4>2 DEF IInv, Recent
        <4>4. mvPagedBlocks[p].time <= mvPagedBlocks[q].time
          BY <3>1, <4>1, <4>2 DEF IsEarliest
        <4>5. mvPagedBlocks[q].time \in Int /\ mvPagedBlocks[p].time \in Int
          BY <2>1, <4>2 DEF Page
        <4>6. p # held
          BY <2>1, <4>3, <4>4, <4>5
        <4>. QED BY <2>1, <3>1, <4>1, <4>6
      <3>3. CASE mTimer' <= 1 /\ held # 0
        <4>1. Tick \in {0, 1} /\ 0 \in Pages
          BY <2>1, <3>1, <3>3, BlockFileAssumption DEF Tick, Pages
        <4>2. \A q \in Pages : Aged[q].time = 0 /\ Aged[q].num = mvPagedBlocks[q].num
          BY <2>1, <4>1, AgedPages DEF Page
        <4>3. p = 0
          BY <3>1, <4>1, <4>2 DEF IsEarliest, Pages
        <4>. QED BY <2>1, <3>1, <3>3, <4>2, <4>3, AgedPages
      <3>. QED BY <2>1, <3>1, <3>2, <3>3, TickType
    <2>4. CASE \E b \in 0 .. MaxBlocks - 1 : GetBlock(b) \/ GetBlockFails(b)
      BY <2>1, <2>2, <2>3, <2>4, AgedPages DEF GetBlock, GetBlockFails, EvictionFails
    <2>5. CASE CreateBlock \/ CreateBlockFails
      BY <2>1, <2>2, <2>3, <2>5, AgedPages DEF CreateBlock, CreateBlockFails, EvictionFails
    <2>. QED BY <2>4, <2>5 DEF Next, Open, OpenOn, Flush, Close, Modify, FlushFails
  <1>. QED BY <1>1, Invariance, PTL DEF Spec, MostRecentKept

-----------------------------------------------------------------------------
(***************************************************************************)
(* BlockFile implements BlockStore: whatever the pages do, callers see an  *)
(* array of blocks of which they change one at a time.  What is seen of a  *)
(* block is the page it is in, if it is in one, and the archive otherwise. *)
(***************************************************************************)

\* The block that the caller may change, as BlockStore has it.
CurrentBlock == IF held = NoPage THEN INVALID_NUM ELSE mvPagedBlocks[held].num

\* The content c is what pages over an archive d of n blocks show.
Shows(c, d, n, pages) ==
    /\ c \in [0 .. n - 1 -> Content]
    /\ \A p \in Pages : pages[p].num # INVALID_NUM => c[pages[p].num] = pages[p].data
    /\ \A b \in 0 .. n - 1 : (\A p \in Pages : pages[p].num # b) => c[b] = d[b]

-----------------------------------------------------------------------------
(* Lemmas about Contents *)

\* Without pages, what is seen is the archive.
LEMMA ContentsOnDisk == IInv /\ phase # "open" => Contents = disk
  BY DEF Contents, IInv, TypeOK, Archives

\* With pages, every block has one source.
LEMMA ContentsShown ==
  IInv /\ phase = "open" => Shows(Contents, disk, mNumBlocks, mvPagedBlocks)
  <1>. SUFFICES ASSUME IInv, phase = "open"
                PROVE  Shows(Contents, disk, mNumBlocks, mvPagedBlocks)
    OBVIOUS
  <1>. DEFINE PageOf(b) == CHOOSE p \in Pages : mvPagedBlocks[p].num = b
  <1>1. /\ mNumBlocks \in Nat /\ disk \in [0 .. mNumBlocks - 1 -> Content]
        /\ TypeOK /\ Bound /\ OneCopy
    BY DEF IInv, Sized
  <1>2. Contents = [b \in 0 .. mNumBlocks - 1 |->
                      IF IsHit(b) THEN mvPagedBlocks[PageOf(b)].data ELSE disk[b]]
    BY <1>1 DEF Contents
  <1>3. \A b : IsHit(b) => PageOf(b) \in Pages /\ mvPagedBlocks[PageOf(b)].num = b
    BY DEF IsHit
  <1>4. \A p \in Pages : mvPagedBlocks[p].data \in Content
    BY <1>1 DEF TypeOK, Page
  <1>5. Contents \in [0 .. mNumBlocks - 1 -> Content]
    BY <1>1, <1>2, <1>3, <1>4
  <1>6. ASSUME NEW p \in Pages, mvPagedBlocks[p].num # INVALID_NUM
        PROVE  Contents[mvPagedBlocks[p].num] = mvPagedBlocks[p].data
    <2>1. mvPagedBlocks[p].num \in 0 .. mNumBlocks - 1
      BY <1>1, <1>6, BoundBlock
    <2>2. IsHit(mvPagedBlocks[p].num)
      BY DEF IsHit
    <2>3. PageOf(mvPagedBlocks[p].num) = p
      BY <1>1, <1>3, <1>6, <2>2 DEF OneCopy
    <2>. QED BY <1>2, <2>1, <2>2, <2>3
  <1>7. ASSUME NEW b \in 0 .. mNumBlocks - 1, \A p \in Pages : mvPagedBlocks[p].num # b
        PROVE  Contents[b] = disk[b]
    BY <1>2, <1>7 DEF IsHit
  <1>. QED BY <1>5, <1>6, <1>7 DEF Shows

LEMMA ContentsOnDiskNext == IInv' /\ phase' # "open" => Contents' = disk'
  <1>1. (IInv /\ phase # "open" => Contents = disk)'
    BY ContentsOnDisk, PTL
  <1>. QED BY <1>1

LEMMA ContentsShownNext ==
  IInv' /\ phase' = "open" => Shows(Contents', disk', mNumBlocks', mvPagedBlocks')
  <1>1. (IInv /\ phase = "open" => Shows(Contents, disk, mNumBlocks, mvPagedBlocks))'
    BY ContentsShown, PTL
  <1>. QED BY <1>1

\* Pages and archive determine what they show.
LEMMA ShownOnce ==
  ASSUME NEW n \in Nat, NEW d, NEW pages, NEW c, NEW e,
         Shows(c, d, n, pages), Shows(e, d, n, pages)
  PROVE  c = e
  <1>1. ASSUME NEW b \in 0 .. n - 1 PROVE c[b] = e[b]
    <2>1. CASE \E p \in Pages : pages[p].num = b
      BY <1>1, <2>1 DEF Shows, INVALID_NUM
    <2>2. CASE \A p \in Pages : pages[p].num # b
      BY <2>2 DEF Shows
    <2>. QED BY <2>1, <2>2
  <1>. QED BY <1>1 DEF Shows

-----------------------------------------------------------------------------
(* Lemmas about paging and flushing *)

\* Finding block b in memory or paging it in changes nothing that is seen, and
\* gives the caller b.
LEMMA PagingShows ==
  ASSUME NEW d, NEW n, NEW b, NEW c, Paging(d, n, b), Hit(d, b) \/ Miss(d, b),
         phase' = phase, mNumBlocks' = n, Shows(c, d, n, mvPagedBlocks)
  PROVE  Contents' = c /\ CurrentBlock' = b
  <1>1. IInv' /\ phase' = "open"
    BY HitKeepsInv, MissKeepsInv DEF Paging
  <1>2. /\ TypeOK /\ Past /\ Bound /\ OneCopy /\ n \in Nat /\ b \in Nat
        /\ b # INVALID_NUM /\ n \in 1 .. MaxBlocks /\ mNumBlocks <= n /\ b \in 0 .. n - 1
        /\ d \in [0 .. n - 1 -> Content]
    BY BlockFileAssumption DEF Paging, IInv, INVALID_NUM
  <1>3. Shows(Contents', disk', n, mvPagedBlocks')
    BY <1>1, ContentsShownNext
  <1>4. /\ Aged \in [Pages -> Page]
        /\ \A p \in Pages : /\ Aged[p].num = mvPagedBlocks[p].num
                            /\ Aged[p].data = mvPagedBlocks[p].data
                            /\ Aged[p].dirty = mvPagedBlocks[p].dirty
    BY <1>2, AgedPages
  <1>5. CASE Hit(d, b)
    <2>1. PICK p \in Pages : /\ mvPagedBlocks[p].num = b
                            /\ mvPagedBlocks' = [Aged EXCEPT ![p].time = Tick]
                            /\ disk' = d /\ held' = p
      BY <1>5 DEF Hit
    <2>2. \A q \in Pages : /\ mvPagedBlocks'[q].num = mvPagedBlocks[q].num
                           /\ mvPagedBlocks'[q].data = mvPagedBlocks[q].data
      BY <1>4, <2>1 DEF Page
    <2>3. Shows(c, disk', n, mvPagedBlocks')
      BY <2>1, <2>2 DEF Shows
    <2>4. Contents' = c
      BY <1>2, <1>3, <2>3, ShownOnce
    <2>5. p # NoPage
      BY BlockFileAssumption DEF Pages
    <2>. QED BY <2>1, <2>2, <2>4, <2>5 DEF CurrentBlock
  <1>6. CASE Miss(d, b)
    <2>1. PICK p \in Pages :
             /\ disk' = WriteBack(d, Aged[p])
             /\ mvPagedBlocks' = [Aged EXCEPT ![p] =
                                    [num |-> b, data |-> disk'[b], dirty |-> FALSE, time |-> Tick]]
             /\ held' = p
      BY <1>6 DEF Miss
    <2>2. /\ mvPagedBlocks'[p].num = b /\ mvPagedBlocks'[p].data = disk'[b]
          /\ \A q \in Pages : q # p => /\ mvPagedBlocks'[q].num = mvPagedBlocks[q].num
                                       /\ mvPagedBlocks'[q].data = mvPagedBlocks[q].data
      BY <1>4, <2>1
    <2>3. \A q \in Pages : mvPagedBlocks[q].num # b
      BY <1>6 DEF Miss, IsHit
    <2>4. \A i \in 0 .. n - 1 : disk'[i] = IF MustWrite(mvPagedBlocks[p]) /\ i = mvPagedBlocks[p].num
                                           THEN mvPagedBlocks[p].data ELSE d[i]
      BY <1>2, <1>4, <2>1 DEF WriteBack, MustWrite
    <2>5. disk'[b] = c[b]
      BY <1>2, <2>3, <2>4 DEF Shows
    <2>6. \A q \in Pages : mvPagedBlocks'[q].num # INVALID_NUM
                            => c[mvPagedBlocks'[q].num] = mvPagedBlocks'[q].data
      BY <2>2, <2>5 DEF Shows
    <2>7. ASSUME NEW i \in 0 .. n - 1, \A q \in Pages : mvPagedBlocks'[q].num # i
          PROVE  c[i] = disk'[i]
      <3>1. CASE i = mvPagedBlocks[p].num
        <4>1. mvPagedBlocks[p].num # INVALID_NUM
          BY <3>1 DEF INVALID_NUM
        <4>2. c[i] = mvPagedBlocks[p].data
          BY <3>1, <4>1 DEF Shows
        <4>3. CASE MustWrite(mvPagedBlocks[p])
          BY <2>4, <3>1, <4>2, <4>3
        <4>4. CASE ~MustWrite(mvPagedBlocks[p])
          <5>1. /\ mvPagedBlocks[p].num \in 0 .. mNumBlocks - 1
                /\ mvPagedBlocks[p].data = disk[mvPagedBlocks[p].num]
            BY <1>2, <4>1, <4>4, BoundBlock DEF MustWrite, Paging, IInv, CleanMatchesDisk
          <5>2. d[i] = disk[i]
            BY <3>1, <5>1 DEF Paging
          <5>. QED BY <2>4, <3>1, <4>2, <4>4, <5>1, <5>2
        <4>. QED BY <4>3, <4>4
      <3>2. CASE i # mvPagedBlocks[p].num
        BY <2>2, <2>4, <2>7, <3>2 DEF Shows
      <3>. QED BY <3>1, <3>2
    <2>8. Shows(c, disk', n, mvPagedBlocks')
      BY <2>6, <2>7 DEF Shows
    <2>9. Contents' = c
      BY <1>2, <1>3, <2>8, ShownOnce
    <2>10. p # NoPage
      BY BlockFileAssumption DEF Pages
    <2>. QED BY <2>1, <2>2, <2>9, <2>10 DEF CurrentBlock
  <1>. QED BY <1>5, <1>6

\* Flushing any pages changes nothing that is seen.
LEMMA FlushShows ==
  ASSUME IInv, phase = "open", NEW ps \in SUBSET Pages, FlushOnly(ps),
         mNumBlocks' = mNumBlocks, IInv', phase' = "open"
  PROVE  /\ Contents' = Contents
         /\ \A q \in Pages : mvPagedBlocks'[q].num = mvPagedBlocks[q].num
  <1>1. Shows(Contents, disk, mNumBlocks, mvPagedBlocks)
        /\ Shows(Contents', disk', mNumBlocks, mvPagedBlocks') /\ mNumBlocks \in Nat
    BY ContentsShown, ContentsShownNext DEF IInv, Sized
  <1>2. \A q \in Pages : /\ mvPagedBlocks'[q].num = mvPagedBlocks[q].num
                         /\ mvPagedBlocks'[q].data = mvPagedBlocks[q].data
    BY DEF FlushOnly, Cleaned, IInv, TypeOK, Page
  <1>3. \A b \in 0 .. mNumBlocks - 1 :
          (\A q \in Pages : mvPagedBlocks[q].num # b) => disk'[b] = disk[b]
    BY FlushedDisk
  <1>4. Shows(Contents, disk', mNumBlocks, mvPagedBlocks')
    BY <1>1, <1>2, <1>3 DEF Shows
  <1>. QED BY <1>1, <1>2, <1>4, ShownOnce

\* Once everything is flushed, the archive is what was seen.
LEMMA FlushedIsContents ==
  ASSUME IInv, phase = "open", FlushPages(NumPages)
  PROVE  disk' = Contents
  <1>1. /\ Shows(Contents, disk, mNumBlocks, mvPagedBlocks) /\ mNumBlocks \in Nat
        /\ TypeOK /\ Bound
    BY ContentsShown DEF IInv, Sized
  <1>2. Pages = 0 .. NumPages - 1 /\ Pages \in SUBSET Pages
    BY DEF Pages
  <1>3. FlushOnly(Pages)
    BY <1>2 DEF FlushPages
  <1>4. disk' \in [0 .. mNumBlocks - 1 -> Content]
    BY <1>2, <1>3, FlushedDisk
  <1>5. ASSUME NEW b \in 0 .. mNumBlocks - 1 PROVE disk'[b] = Contents[b]
    <2>1. CASE \E p \in Pages : mvPagedBlocks[p].num = b
      <3>1. PICK p \in Pages : mvPagedBlocks[p].num = b
        BY <2>1
      <3>2. b # INVALID_NUM
        BY DEF INVALID_NUM
      <3>3. Contents[b] = mvPagedBlocks[p].data
        BY <1>1, <3>1, <3>2 DEF Shows
      <3>4. disk'[b] = IF mvPagedBlocks[p].dirty THEN mvPagedBlocks[p].data ELSE disk[b]
        BY <1>2, <1>3, <3>1, <3>2, FlushedDisk
      <3>5. ~mvPagedBlocks[p].dirty => mvPagedBlocks[p].data = disk[b]
        BY <3>1, <3>2 DEF IInv, CleanMatchesDisk
      <3>. QED BY <3>3, <3>4, <3>5
    <2>2. CASE \A p \in Pages : mvPagedBlocks[p].num # b
      BY <1>1, <1>2, <1>3, <2>2, FlushedDisk DEF Shows
    <2>. QED BY <2>1, <2>2
  <1>. QED BY <1>1, <1>4, <1>5 DEF Shows

-----------------------------------------------------------------------------
(* Steps *)

\* The number of blocks that are seen is the number of blocks.
LEMMA SizeShown ==
  IInv /\ phase = "open" => Store!Size = mNumBlocks /\ DOMAIN Contents = 0 .. mNumBlocks - 1
  <1>. SUFFICES ASSUME IInv, phase = "open"
                PROVE  Store!Size = mNumBlocks /\ DOMAIN Contents = 0 .. mNumBlocks - 1
    OBVIOUS
  <1>1. Contents \in [0 .. mNumBlocks - 1 -> Content] /\ mNumBlocks \in 0 .. MaxBlocks
    BY ContentsShown, BlockFileAssumption DEF Shows, IInv, Sized, TypeOK
  <1>2. Length(Contents) = mNumBlocks
    BY <1>1, LengthOf
  <1>. QED BY <1>1, <1>2 DEF Length, Store!Size

LEMMA OpenRefines == IInv /\ IInv' /\ Open => Store!Open
  <1>. SUFFICES ASSUME IInv, IInv', Open PROVE Store!Open
    OBVIOUS
  <1>1. /\ phase = "new" /\ phase' = "open" /\ held = NoPage /\ held' = held /\ 0 \in Pages
        /\ \A p \in Pages : mvPagedBlocks[p] = FreshPage
        /\ mvPagedBlocks' = mvPagedBlocks
    BY BlockFileAssumption DEF Open, OpenOn, IInv, Untouched, Pages
  <1>2. Contents = disk
    BY <1>1, ContentsOnDisk
  <1>3. Contents' = disk'
    <2>1. Shows(Contents', disk', mNumBlocks', mvPagedBlocks') /\ mNumBlocks' \in Nat
          /\ disk' \in [0 .. mNumBlocks' - 1 -> Content]
      BY <1>1, ContentsShownNext DEF IInv, Sized
    <2>2. \A p \in Pages : mvPagedBlocks'[p].num = INVALID_NUM
      BY <1>1 DEF FreshPage
    <2>3. Shows(disk', disk', mNumBlocks', mvPagedBlocks')
      BY <2>1, <2>2 DEF Shows
    <2>. QED BY <2>1, <2>3, ShownOnce
  <1>4. disk' = IF Length(disk) = 0 THEN [b \in {0} |-> Zeroes] ELSE disk
    BY <1>1 DEF Open, OpenOn, FreshPage
  <1>5. Store!Size = Length(disk)
    BY <1>2 DEF Store!Size, Length
  <1>. QED BY <1>1, <1>2, <1>3, <1>4, <1>5 DEF Store!Open

LEMMA GetBlockRefines ==
  ASSUME IInv, NEW b \in Int, GetBlock(b)
  PROVE  Store!Access(b) /\ b \in DOMAIN Contents
  <1>1. /\ phase = "open" /\ b \in 0 .. mNumBlocks - 1 /\ mNumBlocks \in 1 .. MaxBlocks
        /\ disk \in [0 .. mNumBlocks - 1 -> Content]
    BY BlockFileAssumption DEF GetBlock, Blocks, IInv, Sized, TypeOK
  <1>2. Paging(disk, mNumBlocks, b) /\ Shows(Contents, disk, mNumBlocks, mvPagedBlocks)
    BY <1>1, ContentsShown DEF Paging
  <1>3. Contents' = Contents /\ CurrentBlock' = b
    BY <1>2, PagingShows DEF GetBlock
  <1>. QED BY <1>1, <1>3, SizeShown DEF Store!Access, CurrentBlock

\* What is seen of the file that CreateBlock has extended.
LEMMA ExtendedShown ==
  ASSUME IInv, phase = "open", mNumBlocks < MaxBlocks,
         NEW c, c = [b \in 0 .. mNumBlocks |-> IF b = mNumBlocks THEN Zeroes ELSE Contents[b]]
  PROVE  Shows(c, Extended, mNumBlocks + 1, mvPagedBlocks)
  <1>1. /\ Shows(Contents, disk, mNumBlocks, mvPagedBlocks) /\ mNumBlocks \in Nat
        /\ TypeOK /\ Bound
    BY ContentsShown DEF IInv, Sized
  <1>2. (mNumBlocks + 1) - 1 = mNumBlocks
    BY <1>1
  <1>3. c \in [0 .. mNumBlocks -> Content]
    BY <1>1, BlockFileAssumption DEF Shows
  <1>4. ASSUME NEW p \in Pages, mvPagedBlocks[p].num # INVALID_NUM
        PROVE  c[mvPagedBlocks[p].num] = mvPagedBlocks[p].data
    <2>1. mvPagedBlocks[p].num \in 0 .. mNumBlocks - 1
      BY <1>1, <1>4, BoundBlock
    <2>. QED BY <1>1, <1>4, <2>1 DEF Shows
  <1>5. ASSUME NEW b \in 0 .. mNumBlocks, \A p \in Pages : mvPagedBlocks[p].num # b
        PROVE  c[b] = Extended[b]
    <2>1. b # mNumBlocks => b \in 0 .. mNumBlocks - 1
      BY <1>1
    <2>. QED BY <1>1, <1>5, <2>1 DEF Shows, Extended
  <1>. QED BY <1>2, <1>3, <1>4, <1>5 DEF Shows

LEMMA CreateBlockRefines == IInv /\ CreateBlock => Store!Create
  <1>. SUFFICES ASSUME IInv, CreateBlock PROVE Store!Create
    OBVIOUS
  <1>. DEFINE c == [b \in 0 .. mNumBlocks |-> IF b = mNumBlocks THEN Zeroes ELSE Contents[b]]
  <1>1. phase = "open" /\ mNumBlocks < MaxBlocks
    BY DEF CreateBlock
  <1>2. Shows(c, Extended, mNumBlocks + 1, mvPagedBlocks)
    BY <1>1, ExtendedShown
  <1>3. Paging(Extended, mNumBlocks + 1, mNumBlocks)
    BY <1>1, ExtendedArchive
  <1>. HIDE DEF c
  <1>4. Contents' = c /\ CurrentBlock' = mNumBlocks
    BY <1>2, <1>3, PagingShows DEF CreateBlock
  <1>5. Store!Size = mNumBlocks
    BY <1>1, SizeShown
  <1>. QED BY <1>1, <1>4, <1>5 DEF Store!Create, CurrentBlock, c

LEMMA CreateBlockFailsRefines == IInv /\ IInv' /\ CreateBlockFails => Store!Create
  <1>. SUFFICES ASSUME IInv, IInv', CreateBlockFails PROVE Store!Create
    OBVIOUS
  <1>. DEFINE c == [b \in 0 .. mNumBlocks |-> IF b = mNumBlocks THEN Zeroes ELSE Contents[b]]
  <1>1. /\ phase = "open" /\ mNumBlocks < MaxBlocks /\ phase' = "open"
        /\ mNumBlocks' = mNumBlocks + 1 /\ mvPagedBlocks' = Aged /\ held' = NoPage
        /\ disk' = Extended /\ mNumBlocks \in Nat
    BY DEF CreateBlockFails, EvictionFails, IInv, Sized
  <1>2. Shows(c, Extended, mNumBlocks + 1, mvPagedBlocks)
    BY <1>1, ExtendedShown
  <1>. HIDE DEF c
  <1>3. Shows(c, disk', mNumBlocks', mvPagedBlocks')
    BY <1>1, <1>2, AgedPages DEF Shows, IInv
  <1>4. Contents' = c
    BY <1>1, <1>3, ContentsShownNext, ShownOnce
  <1>5. Store!Size = mNumBlocks
    BY <1>1, SizeShown
  <1>. QED BY <1>1, <1>4, <1>5 DEF Store!Create, c

LEMMA GetBlockFailsRefines ==
  ASSUME IInv, IInv', NEW b \in Int, GetBlockFails(b)
  PROVE  Store!Release
  <1>1. /\ phase = "open" /\ phase' = "open" /\ mNumBlocks' = mNumBlocks /\ disk' = disk
        /\ mvPagedBlocks' = Aged /\ held' = NoPage /\ mNumBlocks \in Nat
    BY DEF GetBlockFails, EvictionFails, IInv, Sized
  <1>2. Shows(Contents, disk', mNumBlocks', mvPagedBlocks')
    BY <1>1, AgedPages, ContentsShown DEF Shows, IInv
  <1>3. Contents' = Contents
    BY <1>1, <1>2, ContentsShownNext, ShownOnce
  <1>. QED BY <1>1, <1>3 DEF Store!Release

LEMMA ModifyRefines ==
  ASSUME IInv, IInv', NEW c \in Content, Modify(c)
  PROVE  Store!Change(c)
  <1>1. /\ phase = "open" /\ phase' = "open" /\ disk' = disk /\ mNumBlocks' = mNumBlocks
        /\ held' = held /\ held # NoPage /\ held \in Pages /\ mNumBlocks \in Nat
        /\ mvPagedBlocks[held].num # INVALID_NUM
    BY DEF Modify, IInv, TypeOK, Sized, Recent
  <1>2. \A q \in Pages : /\ mvPagedBlocks'[q].num = mvPagedBlocks[q].num
                         /\ mvPagedBlocks'[q].data = IF q = held THEN c ELSE mvPagedBlocks[q].data
    BY <1>1 DEF Modify, IInv, TypeOK, Page
  <1>3. mvPagedBlocks[held].num \in 0 .. mNumBlocks - 1
    BY <1>1, BoundBlock DEF IInv
  <1>. DEFINE e == [Contents EXCEPT ![mvPagedBlocks[held].num] = c]
  <1>4. Shows(e, disk', mNumBlocks', mvPagedBlocks')
    <2>1. Shows(Contents, disk, mNumBlocks, mvPagedBlocks)
      BY <1>1, ContentsShown
    <2>2. e \in [0 .. mNumBlocks' - 1 -> Content]
      BY <1>1, <2>1 DEF Shows
    <2>3. ASSUME NEW p \in Pages, mvPagedBlocks[p].num # INVALID_NUM
          PROVE  e[mvPagedBlocks[p].num] = mvPagedBlocks'[p].data
      <3>1. mvPagedBlocks[p].num \in 0 .. mNumBlocks - 1
        BY <2>3, BoundBlock DEF IInv
      <3>2. p # held => mvPagedBlocks[p].num # mvPagedBlocks[held].num
        BY <1>1, <2>3 DEF IInv, OneCopy
      <3>. QED BY <1>1, <1>2, <1>3, <2>1, <2>3, <3>1, <3>2 DEF Shows
    <2>4. ASSUME NEW b \in 0 .. mNumBlocks - 1, \A p \in Pages : mvPagedBlocks[p].num # b
          PROVE  e[b] = disk[b]
      BY <1>1, <2>1, <2>4 DEF Shows
    <2>. QED BY <1>1, <1>2, <2>2, <2>3, <2>4 DEF Shows
  <1>. HIDE DEF e
  <1>5. Contents' = e
    BY <1>1, <1>4, ContentsShownNext, ShownOnce
  <1>6. CurrentBlock = mvPagedBlocks[held].num /\ CurrentBlock' = CurrentBlock
        /\ CurrentBlock # INVALID_NUM
    BY <1>1, <1>2 DEF CurrentBlock
  <1>. QED BY <1>5, <1>6 DEF Store!Change, CurrentBlock, e

LEMMA FlushRefines == IInv /\ IInv' /\ Flush => UNCHANGED Store!vars
  <1>. SUFFICES ASSUME IInv, IInv', Flush PROVE UNCHANGED Store!vars
    OBVIOUS
  <1>1. /\ phase = "open" /\ phase' = "open" /\ mNumBlocks' = mNumBlocks /\ held' = held
        /\ Pages \in SUBSET Pages /\ FlushOnly(Pages)
    BY DEF Flush, FlushPages, Pages
  <1>2. Contents' = Contents /\ \A q \in Pages : mvPagedBlocks'[q].num = mvPagedBlocks[q].num
    BY <1>1, FlushShows
  <1>3. CurrentBlock' = CurrentBlock
    BY <1>1, <1>2 DEF CurrentBlock, IInv, TypeOK
  <1>. QED BY <1>2, <1>3 DEF Store!vars, CurrentBlock

LEMMA CloseRefines == IInv /\ IInv' /\ Close => Store!Release
  <1>. SUFFICES ASSUME IInv, IInv', Close PROVE Store!Release
    OBVIOUS
  <1>1. phase = "open" /\ phase' # "open" /\ held' = NoPage /\ FlushPages(NumPages)
    BY DEF Close
  <1>2. Contents' = Contents
    BY <1>1, FlushedIsContents, ContentsOnDiskNext
  <1>. QED BY <1>1, <1>2 DEF Store!Release

LEMMA FlushFailsRefines ==
  ASSUME IInv, IInv', NEW k \in Pages, FlushFails(k)
  PROVE  Store!Release
  <1>1. /\ phase = "open" /\ phase' = "open" /\ mNumBlocks' = mNumBlocks /\ held' = NoPage
        /\ 0 .. k - 1 \in SUBSET Pages /\ FlushOnly(0 .. k - 1)
    BY BlockFileAssumption DEF FlushFails, FlushPages, Pages
  <1>. QED BY <1>1, FlushShows DEF Store!Release

-----------------------------------------------------------------------------
(* Theorems *)

LEMMA InitRefines == Init => Store!Init
  <1>. SUFFICES ASSUME Init PROVE Store!Init
    OBVIOUS
  <1>1. Contents = disk
    BY InitEstablishesInv, ContentsOnDisk DEF Init
  <1>. QED BY <1>1 DEF Init, Store!Init

LEMMA NextRefines == IInv /\ IInv' /\ [Next]_vars => [Store!Next]_(Store!vars)
  <1>. SUFFICES ASSUME IInv, IInv', [Next]_vars PROVE [Store!Next]_(Store!vars)
    OBVIOUS
  <1>1. CASE Open
    BY <1>1, OpenRefines DEF Store!Next
  <1>2. CASE Flush
    BY <1>2, FlushRefines
  <1>3. CASE Close
    BY <1>3, CloseRefines DEF Store!Next
  <1>4. CASE CreateBlock
    BY <1>4, CreateBlockRefines DEF Store!Next
  <1>5. CASE CreateBlockFails
    BY <1>5, CreateBlockFailsRefines DEF Store!Next
  <1>6. CASE \E b \in 0 .. MaxBlocks - 1 : GetBlock(b) \/ GetBlockFails(b)
    <2>1. PICK b \in Int : GetBlock(b) \/ GetBlockFails(b)
      BY <1>6
    <2>2. CASE GetBlock(b)
      BY <2>2, GetBlockRefines DEF Store!Next
    <2>3. CASE GetBlockFails(b)
      BY <2>3, GetBlockFailsRefines DEF Store!Next
    <2>. QED BY <2>1, <2>2, <2>3
  <1>7. CASE \E c \in Content : Modify(c)
    BY <1>7, ModifyRefines DEF Store!Next
  <1>8. CASE \E k \in Pages : FlushFails(k)
    BY <1>8, FlushFailsRefines DEF Store!Next
  <1>9. CASE UNCHANGED vars
    BY <1>9 DEF vars, Store!vars, Contents, IsHit
  <1>. QED BY <1>1, <1>2, <1>3, <1>4, <1>5, <1>6, <1>7, <1>8, <1>9 DEF Next

\* For every number of pages, width of the clock and length of the file, and
\* whichever writes fail, a caller of cBlockFile sees a growing array of blocks
\* of which he changes the one he was given last (blockfile.h).
THEOREM BlockFileIsBlockStore == Spec => ImplementsBlockStore
  BY InitRefines, NextRefines, Invariance, PTL DEF Spec, ImplementsBlockStore, Store!Spec

\* After a Flush that does not fail the archive alone holds what callers saw,
\* which is what cFCODatabaseFile::Write copies out of it.
THEOREM FlushCompletesArchive == Spec => FlushReachesDisk
  <1>1. IInv /\ [Next]_vars => [Flush => disk' = Contents]_vars
    BY FlushedIsContents DEF Flush
  <1>. QED BY <1>1, Invariance, PTL DEF Spec, FlushReachesDisk

-----------------------------------------------------------------------------
(***************************************************************************)
(* BlockRecordFile.                                                        *)
(***************************************************************************)

Entry == [off : Int, used : BOOLEAN]

(* Where the data of slot i begins.                                         *)
Below(ix, i) == IF i = 0 THEN 0 ELSE ix[i - 1].off

(* The entries of n slots: data in slot order, an unused slot empty, a used *)
(* one not smaller than a word, and the top slot used.                      *)
Ordered(ix, n) ==
  /\ \A i \in 0 .. n - 1 : ix[i] \in Entry
  /\ \A i \in 0 .. n : \A j \in 0 .. n : i <= j => Below(ix, i) <= Below(ix, j)
  /\ \A i \in 0 .. n - 1 :
       IF ix[i].used THEN ix[i].off >= Below(ix, i) + WordSize ELSE ix[i].off = Below(ix, i)
  /\ n # 0 => ix[n - 1].used

(* The index of n slots, with its guard, does not reach the data.           *)
Fits(n, top) == HeaderSize + (n + 1) * IndexSize + top <= BlockSize

(* A block that was initialised: header, index and gap are as AddItem and   *)
(* DeleteItem leave them.  That there are no more than MaxRecords slots     *)
(* has to be carried along: slots are not given up below a used one.        *)
Sound(blk) ==
  /\ blk.numItems \in 0 .. MaxRecords
  /\ blk = Sealed(blk.index, blk.numItems, blk.mem)
  /\ Ordered(blk.index, blk.numItems)
  /\ Fits(blk.numItems, Below(blk.index, blk.numItems))

(* What the slots of an index hold: their bytes, or nothing.  (A set tells *)
(* a record from no record whatever NoAddr is.)                             *)
Bytes(ix, mem, i) == [j \in 1 .. ix[i].off - Below(ix, i) |-> mem[ix[i].off - j + 1]]
Held(ix, n, mem) ==
  [i \in Slots |-> IF i \in 0 .. n - 1 /\ ix[i].used THEN {Bytes(ix, mem, i)} ELSE {}]

Holds(blk) == [i \in Slots |-> IF IsItemValid(blk, blk.numItems, i)
                              THEN {ItemData(blk, i)} ELSE {}]

(* What the blocks of a file hold, and what a slot can hold.                *)
FileHolds(bs) == [b \in 0 .. MaxRecordBlocks - 1 |->
                    IF b \in DOMAIN bs THEN Holds(bs[b]) ELSE [i \in Slots |-> {}]]
Cells == {{}} \cup {{p} : p \in Payload}

(* Between calls: the blocks are sound, but for those that could not be     *)
(* paged in, which no array object stands for until the next Open.          *)
RecordFileInv ==
  /\ mbOpen \in BOOLEAN
  /\ NumBlocks \in 0 .. MaxRecordBlocks /\ DOMAIN blocks = 0 .. NumBlocks - 1
  /\ NumArrays \in 0 .. NumBlocks /\ DOMAIN mvBlocks = 0 .. NumArrays - 1
  /\ mLastAddedTo \in -1 .. MaxRecordBlocks - 1
  /\ IF mbOpen THEN mLastAddedTo \in DOMAIN mvBlocks ELSE NumArrays = 0
  /\ \A b \in DOMAIN blocks : blocks[b] = BlankBlock \/ Sound(blocks[b])
  /\ mbOpen => \A b \in DOMAIN blocks \ DOMAIN mvBlocks : blocks[b] = BlankBlock
  /\ \A b \in DOMAIN mvBlocks : mvBlocks[b] \in {Unloaded, Loaded(blocks[b])}
  /\ FileHolds(blocks) \in [0 .. MaxRecordBlocks - 1 -> [Slots -> Cells]]

-----------------------------------------------------------------------------
(* Least and greatest elements.                                             *)

LEMMA LeastOf ==
  ASSUME NEW S \in SUBSET Nat, S # {}
  PROVE  Min(S) \in S /\ \A k \in S : Min(S) <= k
<1>. DEFINE less == {ss \in Nat \X Nat : ss[1] < ss[2]}
<1>1. IsWellFoundedOn(less, Nat)
  BY NatLessThanWellFounded, Zenon DEF OpToRel
<1>2. PICK m \in S : \A k \in S : ~ (<<k, m>> \in less)
  <2>. HIDE DEF less
  <2>. QED BY <1>1, WFMin
<1>3. ASSUME NEW k \in S PROVE m <= k
  <2>1. k \in Nat /\ m \in Nat
    OBVIOUS
  <2>2. k < m => <<k, m>> \in less
    BY <2>1
  <2>. QED BY <1>2, <2>1, <2>2
<1>. QED
  BY <1>3 DEF Min

LEMMA GreatestOf ==
  ASSUME NEW n \in Nat, NEW S \in SUBSET 0 .. n, S # {}
  PROVE  Max(S) \in S /\ \A k \in S : k <= Max(S)
<1>. DEFINE T == {n - k : k \in S}
<1>0. \A k \in S : k \in 0 .. n /\ n - k \in Nat
  OBVIOUS
<1>1. T \in SUBSET Nat /\ T # {}
  BY <1>0
<1>2. Min(T) \in T /\ \A k \in T : Min(T) <= k
  BY <1>1, LeastOf
<1>3. PICK m \in S : Min(T) = n - m
  BY <1>2
<1>4. \A k \in S : n - k \in T /\ k \in Int
  OBVIOUS
<1>5. \A k \in S : k <= m
  <2>. HIDE DEF T
  <2>. QED BY <1>0, <1>2, <1>3, <1>4
<1>. QED
  BY <1>5 DEF Max

LEMMA MaxWithZero ==
  ASSUME NEW x \in Int
  PROVE  Max({0, x}) = IF x < 0 THEN 0 ELSE x
BY DEF Max

(* No more records than fit in with their entries.                          *)
LEMMA RecordsFit ==
  ASSUME RecordFileAssumption, NEW n \in Nat, n * IndexSize + n * WordSize <= BlockSize
  PROVE  n \in 0 .. MaxRecords
<1>. DEFINE w == IndexSize + WordSize
<1>1. BlockSize \in Nat /\ IndexSize \in Nat \ {0} /\ WordSize \in Nat \ {0} /\ w \in Nat \ {0}
  BY DEF RecordFileAssumption, BlockRecordArrayAssumption
<1>2. n * w <= BlockSize
  BY <1>1
<1>3. n <= BlockSize \div w
  <2>. HIDE DEF w
  <2>1. BlockSize \div w \in Int /\ BlockSize < w * (BlockSize \div w) + w
    BY <1>1
  <2>2. n * w < w * ((BlockSize \div w) + 1)
    BY <1>1, <1>2, <2>1
  <2>. QED BY <1>1, <2>1, <2>2
<1>. QED
  BY <1>3, <1>1 DEF MaxRecords

-----------------------------------------------------------------------------
(* Sealed: the layout that every operation on a block ends with.            *)

LEMMA ConstantsAreNat ==
  ASSUME RecordFileAssumption
  PROVE  /\ BlockSize \in Nat /\ HeaderSize \in Nat /\ Margin \in Nat
         /\ IndexSize \in Nat \ {0} /\ WordSize \in Nat \ {0}
         /\ Margin >= IndexSize /\ MaxDataSize \in Nat
         /\ BlockSize > HeaderSize + 2 * IndexSize + Margin
         /\ MaxRecordBlocks \in Nat \ {0} /\ MaxRecords \in Int
<1>1. \A x \in Int, y \in Nat \ {0} : x \div y \in Int
  OBVIOUS
<1>2. IndexSize + WordSize \in Nat \ {0} /\ BlockSize \in Int
  BY DEF RecordFileAssumption, BlockRecordArrayAssumption
<1>3. MaxRecords \in Int
  BY <1>1, <1>2 DEF MaxRecords
<1>. QED
  BY <1>3 DEF RecordFileAssumption, BlockRecordArrayAssumption, MaxDataSize

LEMMA SealedFields ==
  ASSUME NEW ix, NEW n \in Nat, NEW mem
  PROVE  LET r == Sealed(ix, n, mem)
         IN  /\ r.numItems = n
             /\ r.space = FreeSpace(n, Below(ix, n))
             /\ DOMAIN r.index = 0 .. n /\ r.index[n] = Guard
             /\ \A i \in 0 .. n - 1 : r.index[i] = ix[i]
             /\ \A i \in 0 .. n : Below(r.index, i) = Below(ix, i)
             /\ \A i \in 0 .. n : OffsetBelow(r, i) = Below(ix, i)
             /\ \A o \in 1 .. BlockSize :
                  r.mem[o] = IF o <= Below(ix, n) THEN mem[o] ELSE ZeroByte
<1>. DEFINE top == IF n = 0 THEN 0 ELSE ix[n - 1].off
            index == [i \in 0 .. n |-> IF i = n THEN Guard ELSE ix[i]]
            bytes == [o \in 1 .. BlockSize |-> IF o <= top THEN mem[o] ELSE ZeroByte]
<1>1. Sealed(ix, n, mem) = [numItems |-> n, space |-> FreeSpace(n, top), index |-> index, mem |-> bytes]
  BY DEF Sealed
<1>2. top = Below(ix, n)
  BY DEF Below
<1>3. \A i \in 0 .. n : Below(index, i) = Below(ix, i)
  <2>1. \A i \in 0 .. n : i # 0 => i - 1 \in 0 .. n /\ i - 1 # n
    OBVIOUS
  <2>. QED BY <2>1 DEF Below
<1>4. \A blk, i : OffsetBelow(blk, i) = Below(blk.index, i)
  BY DEF OffsetBelow, Below
<1>. HIDE DEF top
<1>. QED
  BY <1>1, <1>2, <1>3, <1>4

(* Below is determined by the entries below.                                *)
LEMMA SameBelow ==
  ASSUME NEW ix, NEW jx, NEW n \in Nat, \A i \in 0 .. n - 1 : jx[i] = ix[i]
  PROVE  \A i \in 0 .. n : Below(jx, i) = Below(ix, i)
<1>1. \A i \in 0 .. n : i # 0 => i - 1 \in 0 .. n - 1
  OBVIOUS
<1>. QED
  BY <1>1 DEF Below

LEMMA SealedSound ==
  ASSUME RecordFileAssumption, NEW ix, NEW n \in 0 .. MaxRecords, NEW mem,
         Ordered(ix, n), Fits(n, Below(ix, n))
  PROVE  Sound(Sealed(ix, n, mem))
<1>. DEFINE r == Sealed(ix, n, mem)
<1>0. n \in Nat
  OBVIOUS
<1>1. /\ r.numItems = n
      /\ \A i \in 0 .. n - 1 : r.index[i] = ix[i]
      /\ \A i \in 0 .. n : Below(r.index, i) = Below(ix, i)
      /\ \A o \in 1 .. BlockSize : r.mem[o] = IF o <= Below(ix, n) THEN mem[o] ELSE ZeroByte
  BY <1>0, SealedFields
<1>2. r = Sealed(r.index, n, r.mem)
  <2>1. Below(r.index, n) = Below(ix, n)
    BY <1>0, <1>1
  <2>2. (IF n = 0 THEN 0 ELSE r.index[n - 1].off) = Below(ix, n)
    BY <2>1 DEF Below
  <2>3. (IF n = 0 THEN 0 ELSE ix[n - 1].off) = Below(ix, n)
    BY DEF Below
  <2>4. [i \in 0 .. n |-> IF i = n THEN Guard ELSE r.index[i]]
          = [i \in 0 .. n |-> IF i = n THEN Guard ELSE ix[i]]
    BY <1>0, <1>1
  <2>5. [o \in 1 .. BlockSize |-> IF o <= Below(ix, n) THEN r.mem[o] ELSE ZeroByte]
          = [o \in 1 .. BlockSize |-> IF o <= Below(ix, n) THEN mem[o] ELSE ZeroByte]
    BY <1>1
  <2>6. ASSUME NEW jx, NEW m, (IF n = 0 THEN 0 ELSE jx[n - 1].off) = Below(ix, n)
        PROVE  Sealed(jx, n, m)
          = [numItems |-> n, space |-> FreeSpace(n, Below(ix, n)),
             index |-> [i \in 0 .. n |-> IF i = n THEN Guard ELSE jx[i]],
             mem |-> [o \in 1 .. BlockSize |-> IF o <= Below(ix, n) THEN m[o] ELSE ZeroByte]]
    <3>. DEFINE top == IF n = 0 THEN 0 ELSE jx[n - 1].off
    <3>1. Sealed(jx, n, m)
          = [numItems |-> n, space |-> FreeSpace(n, top),
             index |-> [i \in 0 .. n |-> IF i = n THEN Guard ELSE jx[i]],
             mem |-> [o \in 1 .. BlockSize |-> IF o <= top THEN m[o] ELSE ZeroByte]]
      BY DEF Sealed
    <3>2. top = Below(ix, n)
      BY <2>6
    <3>. HIDE DEF top
    <3>. QED BY <3>1, <3>2
  <2>7. Sealed(r.index, n, r.mem)
          = [numItems |-> n, space |-> FreeSpace(n, Below(ix, n)),
             index |-> [i \in 0 .. n |-> IF i = n THEN Guard ELSE r.index[i]],
             mem |-> [o \in 1 .. BlockSize |-> IF o <= Below(ix, n) THEN r.mem[o] ELSE ZeroByte]]
    <3>. HIDE DEF r
    <3>. QED BY <2>2, <2>6
  <2>8. r = [numItems |-> n, space |-> FreeSpace(n, Below(ix, n)),
             index |-> [i \in 0 .. n |-> IF i = n THEN Guard ELSE ix[i]],
             mem |-> [o \in 1 .. BlockSize |-> IF o <= Below(ix, n) THEN mem[o] ELSE ZeroByte]]
    BY <2>3, <2>6
  <2>. QED
    <3>. HIDE DEF r
    <3>. QED BY <2>4, <2>5, <2>7, <2>8, Zenon
<1>3. Ordered(r.index, n)
  <2>. HIDE DEF r
  <2>. QED BY <1>0, <1>1 DEF Ordered
<1>4. Fits(n, Below(r.index, n))
  BY <1>0, <1>1
<1>5. Sound(r)
  <2>. HIDE DEF r
  <2>. QED BY <1>1, <1>2, <1>3, <1>4 DEF Sound
<1>. QED
  BY <1>5

(* The bytes of a slot lie below the top.                                   *)
LEMMA BytesBelowTop ==
  ASSUME NEW ix, NEW n \in Nat, Ordered(ix, n), NEW i \in 0 .. n - 1
  PROVE  /\ Below(ix, i + 1) = ix[i].off
         /\ ix[i].off \in Int /\ Below(ix, i) \in Nat
         /\ Below(ix, i) <= ix[i].off
         /\ Below(ix, n) \in Int /\ ix[i].off <= Below(ix, n)
<1>1. i + 1 \in 0 .. n /\ i \in 0 .. n /\ n \in 0 .. n /\ i + 1 # 0 /\ (i + 1) - 1 = i
  OBVIOUS
<1>2. Below(ix, i + 1) = ix[i].off
  BY <1>1, Zenon DEF Below
<1>3. \A k \in 0 .. n : Below(ix, k) \in Int
  BY DEF Below, Ordered, Entry
<1>4. Below(ix, 0) = 0
  BY DEF Below
<1>5. Below(ix, 0) <= Below(ix, i) /\ Below(ix, i) <= Below(ix, i + 1) /\ Below(ix, i + 1) <= Below(ix, n)
  BY <1>1 DEF Ordered
<1>. QED
  BY <1>1, <1>2, <1>3, <1>4, <1>5

LEMMA SealedHolds ==
  ASSUME RecordFileAssumption, NEW ix, NEW n \in Nat, NEW mem,
         Ordered(ix, n), Fits(n, Below(ix, n))
  PROVE  Holds(Sealed(ix, n, mem)) = Held(ix, n, mem)
<1>. DEFINE r == Sealed(ix, n, mem)
<1>1. /\ r.numItems = n
      /\ \A i \in 0 .. n - 1 : r.index[i] = ix[i]
      /\ \A i \in 0 .. n : OffsetBelow(r, i) = Below(ix, i)
      /\ \A o \in 1 .. BlockSize : r.mem[o] = IF o <= Below(ix, n) THEN mem[o] ELSE ZeroByte
  BY SealedFields
<1>2. ASSUME NEW i \in 0 .. n - 1
      PROVE  ItemData(r, i) = Bytes(ix, mem, i)
  <2>1. /\ ix[i].off \in Int /\ Below(ix, i) \in Nat /\ Below(ix, i) <= ix[i].off
        /\ Below(ix, n) \in Int /\ ix[i].off <= Below(ix, n)
    BY BytesBelowTop
  <2>2. Below(ix, n) <= BlockSize
    <3>1. (n + 1) * IndexSize \in Nat
      BY ConstantsAreNat
    <3>. QED BY <2>1, <3>1, ConstantsAreNat DEF Fits
  <2>3. OffsetBelow(r, i) = Below(ix, i) /\ r.index[i].off = ix[i].off
    BY <1>1
  <2>4. ASSUME NEW j \in 1 .. ix[i].off - Below(ix, i)
        PROVE  r.mem[ix[i].off - j + 1] = mem[ix[i].off - j + 1]
    <3>1. /\ ix[i].off - j + 1 \in 1 .. BlockSize
          /\ ix[i].off - j + 1 <= Below(ix, n)
      BY <2>1, <2>2, ConstantsAreNat
    <3>. QED BY <1>1, <3>1
  <2>. HIDE DEF r
  <2>. QED BY <2>3, <2>4 DEF ItemData, ItemSize, Bytes
<1>3. \A i \in Slots : IsItemValid(r, r.numItems, i) <=> i \in 0 .. n - 1 /\ ix[i].used
  BY <1>1 DEF IsItemValid
<1>4. Holds(r) = Held(ix, n, mem)
  <2>. HIDE DEF r
  <2>. QED BY <1>2, <1>3 DEF Holds, Held
<1>. QED
  BY <1>4

-----------------------------------------------------------------------------
(* Adding an item                                                           *)

(* Slots that are all used take up a word each.                             *)
LEMMA UsedSlotsTakeRoom ==
  ASSUME RecordFileAssumption, NEW ix, NEW n \in Nat, Ordered(ix, n),
         \A i \in 0 .. n - 1 : ix[i].used
  PROVE  n * WordSize <= Below(ix, n)
<1>. DEFINE Short == {k \in 0 .. n : Below(ix, k) < k * WordSize}
<1>1. \A k \in 0 .. n : Below(ix, k) \in Int
  BY DEF Below, Ordered, Entry
<1>2. WordSize \in Nat
  BY ConstantsAreNat
<1>3. Short = {}
  <2>. SUFFICES ASSUME Short # {} PROVE FALSE
    OBVIOUS
  <2>1. PICK m \in Short : \A k \in Short : m <= k
    <3>1. Short \in SUBSET Nat
      OBVIOUS
    <3>. HIDE DEF Short
    <3>. QED BY <3>1, LeastOf
  <2>2. m \in 0 .. n /\ Below(ix, m) < m * WordSize
    OBVIOUS
  <2>3. m # 0
    BY <1>2, <2>2 DEF Below
  <2>4. m - 1 \in 0 .. n - 1 /\ m - 1 \in 0 .. n /\ m - 1 < m
    BY <2>2, <2>3
  <2>5. Below(ix, m - 1) >= (m - 1) * WordSize
    <3>1. m - 1 \notin Short
      <4>. HIDE DEF Short
      <4>. QED BY <2>1, <2>2, <2>4
    <3>2. ~ (Below(ix, m - 1) < (m - 1) * WordSize)
      BY <2>4, <3>1
    <3>3. (m - 1) * WordSize \in Int
      BY <1>2, <2>2
    <3>. QED BY <1>1, <2>4, <3>2, <3>3
  <2>6. Below(ix, m) = ix[m - 1].off
    BY <2>3 DEF Below
  <2>7. ix[m - 1].off >= Below(ix, m - 1) + WordSize
    BY <2>4 DEF Ordered
  <2>8. (m - 1) * WordSize + WordSize = m * WordSize
    BY <1>2, <2>2
  <2>9. (m - 1) * WordSize \in Int /\ m * WordSize \in Int
    BY <1>2, <2>2
  <2>. QED BY <1>1, <1>2, <2>2, <2>4, <2>5, <2>6, <2>7, <2>8, <2>9
<1>4. n \in 0 .. n /\ n \notin Short
  BY <1>3
<1>5. n * WordSize \in Int
  BY <1>2
<1>. QED
  BY <1>1, <1>4, <1>5

(* The slot that is filled, and what the entries become.                    *)
Grown(ix, n, s, size, jx, m) ==
  /\ m = IF s = n THEN n + 1 ELSE n
  /\ jx[s] = [off |-> Below(ix, s) + size, used |-> TRUE]
  /\ \A j \in 0 .. s - 1 : jx[j] = ix[j]
  /\ \A j \in s + 1 .. m - 1 : jx[j] = [ix[j] EXCEPT !.off = @ + size]

LEMMA GrownBelow ==
  ASSUME NEW ix, NEW n \in Nat, Ordered(ix, n), NEW s \in 0 .. n, s < n => ~ ix[s].used,
         NEW size \in Nat, NEW jx, NEW m, Grown(ix, n, s, size, jx, m)
  PROVE  /\ m \in Nat /\ n <= m
         /\ \A k \in 0 .. s : Below(jx, k) = Below(ix, k)
         /\ \A k \in s + 1 .. m : Below(jx, k) = Below(ix, IF s = n THEN n ELSE k) + size
<1>1. m \in Nat /\ n <= m /\ s \in Nat /\ s <= n /\ m <= n + 1
  BY DEF Grown
<1>2. ASSUME NEW k \in 0 .. s
      PROVE  Below(jx, k) = Below(ix, k)
  <2>1. k # 0 => k - 1 \in 0 .. s - 1
    BY <1>1
  <2>. QED BY <2>1 DEF Below, Grown
<1>3. ASSUME NEW k \in s + 1 .. m
      PROVE  Below(jx, k) = Below(ix, IF s = n THEN n ELSE k) + size
  <2>1. k # 0 /\ k - 1 \in Nat
    BY <1>1
  <2>2. CASE k = s + 1
    <3>1. Below(jx, k) = jx[s].off
      BY <1>1, <2>1, <2>2 DEF Below
    <3>2. Below(jx, k) = Below(ix, s) + size
      BY <3>1 DEF Grown
    <3>3. s < n => Below(ix, s + 1) = Below(ix, s)
      <4>1. s < n => s \in 0 .. n - 1
        BY <1>1
      <4>2. s < n => ix[s].off = Below(ix, s)
        BY <4>1 DEF Ordered
      <4>3. s + 1 # 0 /\ (s + 1) - 1 = s
        BY <1>1
      <4>. QED BY <4>2, <4>3 DEF Below
    <3>. QED BY <1>1, <2>2, <3>2, <3>3
  <2>3. CASE k # s + 1
    <3>1. s # n /\ k - 1 \in s + 1 .. m - 1 /\ k - 1 \in 0 .. n - 1 /\ m = n
      BY <1>1, <2>3 DEF Grown
    <3>2. jx[k - 1] = [ix[k - 1] EXCEPT !.off = @ + size]
      BY <3>1 DEF Grown
    <3>3. ix[k - 1] \in Entry
      BY <3>1 DEF Ordered
    <3>4. jx[k - 1].off = ix[k - 1].off + size
      BY <3>2, <3>3 DEF Entry
    <3>. QED BY <2>1, <3>1, <3>4 DEF Below
  <2>. QED BY <2>2, <2>3
<1>. QED
  BY <1>1, <1>2, <1>3

LEMMA GrownOrdered ==
  ASSUME RecordFileAssumption,
         NEW ix, NEW n \in Nat, Ordered(ix, n), NEW s \in 0 .. n, s < n => ~ ix[s].used,
         NEW size \in Nat, size >= WordSize, NEW jx, NEW m, Grown(ix, n, s, size, jx, m)
  PROVE  Ordered(jx, m)
<1>0. WordSize \in Nat /\ size \in Nat
  BY ConstantsAreNat
<1>1. /\ m \in Nat /\ n <= m
      /\ \A k \in 0 .. s : Below(jx, k) = Below(ix, k)
      /\ \A k \in s + 1 .. m : Below(jx, k) = Below(ix, IF s = n THEN n ELSE k) + size
  BY GrownBelow
<1>2. s \in Nat /\ s <= n /\ m <= n + 1 /\ (s = n => m = n + 1) /\ (s # n => m = n)
  BY DEF Grown
<1>3. \A k \in 0 .. n : Below(ix, k) \in Int
  BY DEF Below, Ordered, Entry
<1>4. ASSUME NEW j \in s + 1 .. m - 1
      PROVE  /\ j \in 0 .. n - 1 /\ ix[j] \in Entry /\ jx[j] \in Entry
             /\ jx[j].off = ix[j].off + size /\ jx[j].used = ix[j].used
  <2>1. j \in 0 .. n - 1
    BY <1>1, <1>2
  <2>2. jx[j] = [ix[j] EXCEPT !.off = @ + size] /\ ix[j] \in Entry
    BY <2>1 DEF Grown, Ordered
  <2>. QED BY <2>1, <2>2 DEF Entry
<1>5. jx[s] = [off |-> Below(ix, s) + size, used |-> TRUE] /\ jx[s] \in Entry
  BY <1>2, <1>3 DEF Grown, Entry
<1>6. \A j \in 0 .. s - 1 : j \in 0 .. n - 1 /\ jx[j] = ix[j] /\ jx[j] \in Entry
  BY <1>2 DEF Grown, Ordered
<1>7. \A i \in 0 .. m - 1 : i \in 0 .. s - 1 \/ i = s \/ i \in s + 1 .. m - 1
  BY <1>1, <1>2
<1>8. \A i \in 0 .. m - 1 : jx[i] \in Entry
  BY <1>4, <1>5, <1>6, <1>7
<1>9. ASSUME NEW i \in 0 .. m, NEW j \in 0 .. m, i <= j
      PROVE  Below(jx, i) <= Below(jx, j)
  <2>. DEFINE Old(k) == IF s = n /\ k > s THEN n ELSE k
  <2>1. \A k \in 0 .. m : /\ Old(k) \in 0 .. n
                          /\ Below(jx, k) = Below(ix, Old(k)) + IF k <= s THEN 0 ELSE size
    <3>. SUFFICES ASSUME NEW k \in 0 .. m
                  PROVE  /\ Old(k) \in 0 .. n
                         /\ Below(jx, k) = Below(ix, Old(k)) + IF k <= s THEN 0 ELSE size
      OBVIOUS
    <3>1. CASE k <= s
      BY <1>1, <1>2, <1>3, <3>1
    <3>2. CASE ~ (k <= s)
      BY <1>1, <1>2, <3>2
    <3>. QED BY <3>1, <3>2
  <2>2. Old(i) <= Old(j)
    BY <1>1, <1>2, <1>9
  <2>3. Below(ix, Old(i)) <= Below(ix, Old(j))
    <3>. HIDE DEF Old
    <3>. QED BY <2>1, <2>2 DEF Ordered
  <2>4. Below(ix, Old(i)) \in Int /\ Below(ix, Old(j)) \in Int
    BY <1>3, <2>1
  <2>. HIDE DEF Old
  <2>. QED BY <1>0, <1>2, <1>9, <2>1, <2>3, <2>4
<1>10. ASSUME NEW i \in 0 .. m - 1
       PROVE  IF jx[i].used THEN jx[i].off >= Below(jx, i) + WordSize
              ELSE jx[i].off = Below(jx, i)
  <2>1. CASE i \in 0 .. s - 1
    <3>1. i \in 0 .. n - 1 /\ i \in 0 .. s /\ jx[i] = ix[i]
      BY <1>2, <1>6, <2>1
    <3>. QED BY <1>1, <3>1 DEF Ordered
  <2>2. CASE i = s
    <3>1. Below(jx, s) = Below(ix, s) /\ Below(ix, s) \in Int
      BY <1>1, <1>2, <1>3
    <3>2. jx[i].used /\ jx[i].off = Below(ix, s) + size
      BY <1>5, <2>2
    <3>. QED BY <1>0, <2>2, <3>1, <3>2
  <2>3. CASE i \in s + 1 .. m - 1
    <3>1. /\ i \in 0 .. n - 1 /\ ix[i] \in Entry
          /\ jx[i].off = ix[i].off + size /\ jx[i].used = ix[i].used
      BY <1>4, <2>3
    <3>2. s # n /\ i \in s + 1 .. m
      BY <1>2, <2>3
    <3>3. Below(jx, i) = Below(ix, i) + size
      BY <1>1, <3>2
    <3>4. IF ix[i].used THEN ix[i].off >= Below(ix, i) + WordSize ELSE ix[i].off = Below(ix, i)
      BY <3>1 DEF Ordered
    <3>5. Below(ix, i) \in Int /\ ix[i].off \in Int
      BY <1>3, <3>1 DEF Entry
    <3>. QED BY <1>0, <3>1, <3>3, <3>4, <3>5
  <2>. QED BY <1>7, <2>1, <2>2, <2>3
<1>11. ASSUME m # 0 PROVE jx[m - 1].used
  <2>1. CASE s = n
    BY <1>2, <1>5, <2>1
  <2>2. CASE s # n
    <3>1. ix[n - 1].used /\ m = n /\ s < n
      BY <1>2, <2>2 DEF Ordered
    <3>2. n - 1 \in s + 1 .. m - 1
      BY <1>2, <3>1
    <3>. QED BY <1>4, <3>1, <3>2
  <2>. QED BY <2>1, <2>2
<1>. QED
  BY <1>8, <1>9, <1>10, <1>11 DEF Ordered

(* The bytes when a record is put in above an offset.                       *)
Filled(mem, below, p) ==
  [o \in 1 .. BlockSize |->
     IF o \in below + 1 .. below + Len(p) THEN p[below + Len(p) - o + 1]
     ELSE MovedUp(mem, below, Len(p))[o]]

(* Where a byte of a slot lies, and of what is moved.                       *)
LEMMA ByteInSlot ==
  ASSUME NEW off \in Int, NEW below \in Nat, NEW k \in 1 .. off - below
  PROVE  off - k + 1 \in Nat /\ off - k + 1 \in below + 1 .. off
OBVIOUS

LEMMA ByteMoved ==
  ASSUME NEW off \in Int, NEW k \in Int, NEW size \in Int
  PROVE  ((off + size) - k + 1) - size = off - k + 1 /\ (off + size) - k + 1 = (off - k + 1) + size
OBVIOUS

LEMMA ByteIndex ==
  ASSUME NEW off \in Int, NEW k \in Int
  PROVE  off - (off - k + 1) + 1 = k
OBVIOUS

(* The slot filled holds the record; the others hold what they held.        *)
LEMMA GrownHolds ==
  ASSUME RecordFileAssumption, NEW p \in Payload,
         NEW ix, NEW n \in Nat, Ordered(ix, n), NEW s \in 0 .. n, s < n => ~ ix[s].used,
         NEW jx, NEW m, Grown(ix, n, s, Len(p), jx, m), s \in Slots,
         Below(jx, m) <= BlockSize, NEW mem
  PROVE  Held(jx, m, Filled(mem, Below(ix, s), p)) = [Held(ix, n, mem) EXCEPT ![s] = {p}]
<1>. DEFINE size == Len(p)
            below == Below(ix, s)
            mem2 == Filled(mem, below, p)
<1>0. BlockSize \in Nat /\ WordSize \in Nat /\ size \in Nat /\ size >= WordSize
  BY ConstantsAreNat DEF RecordFileAssumption
<1>1. /\ m \in Nat /\ n <= m
      /\ \A k \in 0 .. s : Below(jx, k) = Below(ix, k)
      /\ \A k \in s + 1 .. m : Below(jx, k) = Below(ix, IF s = n THEN n ELSE k) + size
  BY <1>0, GrownBelow
<1>2. s \in Nat /\ s <= n /\ m <= n + 1 /\ (s = n => m = n + 1) /\ (s # n => m = n)
  BY DEF Grown
<1>3. Ordered(jx, m)
  BY <1>0, GrownOrdered
<1>4. below \in Nat
  <2>1. \A k \in 0 .. n : Below(ix, k) \in Int
    BY DEF Below, Ordered, Entry
  <2>2. Below(ix, 0) = 0 /\ 0 \in 0 .. n
    BY DEF Below
  <2>3. Below(ix, 0) <= Below(ix, s)
    BY <1>2, <2>2 DEF Ordered
  <2>. QED BY <2>1, <2>2, <2>3
<1>5. \A o \in 1 .. BlockSize :
        mem2[o] = IF o \in below + 1 .. below + size THEN p[below + size - o + 1]
                  ELSE IF o <= below + size THEN mem[o] ELSE mem[o - size]
  BY DEF Filled, MovedUp
<1>. HIDE DEF mem2
<1>6. \A i \in 0 .. m - 1 :
        /\ jx[i].off \in Int /\ Below(jx, i) \in Nat
        /\ Below(jx, i) <= jx[i].off /\ jx[i].off <= BlockSize
  <2>1. \A i \in 0 .. m - 1 :
        /\ jx[i].off \in Int /\ Below(jx, i) \in Nat /\ Below(jx, m) \in Int
        /\ Below(jx, i) <= jx[i].off /\ jx[i].off <= Below(jx, m)
    BY <1>1, <1>3, BytesBelowTop
  <2>. QED BY <1>0, <2>1
<1>7. ASSUME NEW i \in 0 .. s - 1
      PROVE  i \in 0 .. n - 1 /\ jx[i] = ix[i] /\ Bytes(jx, mem2, i) = Bytes(ix, mem, i)
  <2>1. i \in 0 .. n - 1 /\ i \in 0 .. m - 1 /\ i \in 0 .. s /\ jx[i] = ix[i]
    BY <1>1, <1>2 DEF Grown
  <2>2. Below(jx, i) = Below(ix, i)
    BY <1>1, <2>1
  <2>3. jx[i].off <= below
    <3>1. i + 1 \in 0 .. s /\ i + 1 \in 0 .. n /\ s \in 0 .. n /\ i + 1 <= s /\ i + 1 # 0
      BY <1>2
    <3>2. Below(ix, i + 1) <= Below(ix, s)
      BY <3>1 DEF Ordered
    <3>3. Below(ix, i + 1) = ix[i].off
      BY <2>1, BytesBelowTop
    <3>. QED BY <2>1, <3>2, <3>3
  <2>4. ASSUME NEW k \in 1 .. jx[i].off - Below(jx, i)
        PROVE  mem2[jx[i].off - k + 1] = mem[jx[i].off - k + 1]
    <3>0. /\ jx[i].off \in Int /\ Below(jx, i) \in Nat /\ Below(jx, i) <= jx[i].off
          /\ jx[i].off <= BlockSize
      BY <1>6, <2>1
    <3>. DEFINE at == jx[i].off - k + 1
    <3>1. at \in Nat /\ at \in Below(jx, i) + 1 .. jx[i].off
      BY <3>0, ByteInSlot
    <3>2. at \in 1 .. BlockSize /\ at <= below /\ at <= below + size
      <4>. HIDE DEF below, at, size
      <4>. QED BY <1>0, <1>4, <2>3, <3>0, <3>1
    <3>3. at \notin below + 1 .. below + size
      <4>. HIDE DEF below, at, size
      <4>. QED BY <1>4, <3>1, <3>2
    <3>. QED BY <1>5, <3>2, <3>3
  <2>. HIDE DEF below
  <2>. QED BY <2>1, <2>2, <2>4 DEF Bytes
<1>8. ASSUME NEW i \in s + 1 .. m - 1
      PROVE  /\ i \in 0 .. n - 1 /\ jx[i].used = ix[i].used
             /\ Bytes(jx, mem2, i) = Bytes(ix, mem, i)
  <2>1. i \in 0 .. n - 1 /\ i \in 0 .. m - 1 /\ s # n /\ i \in s + 1 .. m
    BY <1>1, <1>2
  <2>2. jx[i] = [ix[i] EXCEPT !.off = @ + size] /\ ix[i] \in Entry
    BY <2>1 DEF Grown, Ordered
  <2>3. jx[i].off = ix[i].off + size /\ jx[i].used = ix[i].used /\ ix[i].off \in Int
    BY <2>2 DEF Entry
  <2>4. Below(jx, i) = Below(ix, i) + size
    BY <1>1, <2>1
  <2>5. Below(ix, i) >= below /\ Below(ix, i) \in Nat
    <3>1. i \in 0 .. n /\ s \in 0 .. n /\ s <= i
      BY <1>2, <2>1
    <3>2. Below(ix, s) <= Below(ix, i)
      BY <3>1 DEF Ordered
    <3>3. Below(ix, i) \in Nat
      BY <2>1, BytesBelowTop
    <3>. QED BY <1>4, <3>2, <3>3
  <2>6. jx[i].off - Below(jx, i) = ix[i].off - Below(ix, i)
    BY <1>0, <2>3, <2>4, <2>5
  <2>7. ASSUME NEW k \in 1 .. ix[i].off - Below(ix, i)
        PROVE  mem2[jx[i].off - k + 1] = mem[ix[i].off - k + 1]
    <3>. DEFINE at == ix[i].off - k + 1
    <3>1. at \in Nat /\ at \in Below(ix, i) + 1 .. ix[i].off
      BY <2>3, <2>5, ByteInSlot
    <3>2. jx[i].off - k + 1 = at + size /\ (at + size) - size = at
      <4>1. k \in Int /\ size \in Int
        BY <1>0
      <4>2. ((ix[i].off + size) - k + 1) - size = at /\ (ix[i].off + size) - k + 1 = at + size
        BY <2>3, <4>1, ByteMoved
      <4>. HIDE DEF at, size
      <4>. QED BY <2>3, <4>2
    <3>3. ix[i].off + size <= BlockSize
      BY <1>6, <2>1, <2>3
    <3>4. at <= ix[i].off /\ below < at
      <4>. HIDE DEF below, at
      <4>. QED BY <1>4, <2>3, <2>5, <3>1
    <3>5. /\ at + size \in 1 .. BlockSize /\ ~ (at + size <= below + size)
          /\ at + size \notin below + 1 .. below + size
      <4>. HIDE DEF below, at, size
      <4>. QED BY <1>0, <1>4, <2>3, <3>1, <3>3, <3>4
    <3>6. mem2[at + size] = mem[at]
      <4>. HIDE DEF at, size, below
      <4>. QED BY <1>0, <1>4, <1>5, <3>2, <3>5
    <3>. HIDE DEF size
    <3>. QED BY <3>2, <3>6
  <2>8. Bytes(jx, mem2, i) = Bytes(ix, mem, i)
    <3>. HIDE DEF below, size
    <3>. QED BY <2>6, <2>7 DEF Bytes
  <2>. QED BY <2>1, <2>3, <2>8
<1>9. s \in 0 .. m - 1 /\ jx[s].used /\ Bytes(jx, mem2, s) = p
  <2>1. s \in 0 .. m - 1
    BY <1>1, <1>2
  <2>2. jx[s].used /\ jx[s].off = below + size
    BY DEF Grown
  <2>3. Below(jx, s) = below
    BY <1>1, <1>2
  <2>4. below + size <= BlockSize
    BY <1>6, <2>1, <2>2
  <2>5. jx[s].off - Below(jx, s) = size
    BY <1>0, <1>4, <2>2, <2>3
  <2>6. ASSUME NEW k \in 1 .. size
        PROVE  mem2[jx[s].off - k + 1] = p[k]
    <3>. DEFINE at == (below + size) - k + 1
    <3>0. below + size \in Nat /\ (below + size) - below = size
      BY <1>0, <1>4
    <3>1. at \in Nat /\ at \in below + 1 .. below + size
      <4>1. k \in 1 .. (below + size) - below
        BY <3>0
      <4>. QED BY <1>4, <3>0, <4>1, ByteInSlot
    <3>2. at \in 1 .. BlockSize
      <4>. HIDE DEF below, at, size
      <4>. QED BY <1>0, <1>4, <2>4, <3>0, <3>1
    <3>3. mem2[at] = p[(below + size) - at + 1]
      <4>. HIDE DEF below, at, size
      <4>. QED BY <1>0, <1>4, <1>5, <3>1, <3>2
    <3>4. (below + size) - at + 1 = k
      BY <3>0, ByteIndex
    <3>. HIDE DEF below, size
    <3>. QED BY <2>2, <3>3, <3>4
  <2>7. Bytes(jx, mem2, s) = [k \in 1 .. size |-> p[k]]
    <3>. HIDE DEF below, size
    <3>. QED BY <2>5, <2>6 DEF Bytes
  <2>8. p = [k \in 1 .. size |-> p[k]]
    BY DEF RecordFileAssumption
  <2>. QED BY <2>1, <2>2, <2>7, <2>8
<1>10. ASSUME NEW i \in Slots, i # s
       PROVE  Held(jx, m, mem2)[i] = Held(ix, n, mem)[i]
  <2>1. i \in Nat
    BY DEF Slots
  <2>2. CASE i \in 0 .. s - 1
    <3>1. i \in 0 .. m - 1 /\ i \in 0 .. n - 1
      BY <1>1, <1>2, <1>7, <2>2
    <3>2. jx[i].used = ix[i].used /\ Bytes(jx, mem2, i) = Bytes(ix, mem, i)
      BY <1>7, <2>2
    <3>. QED BY <3>1, <3>2, Zenon DEF Held
  <2>3. CASE i \in s + 1 .. m - 1
    <3>1. i \in 0 .. m - 1 /\ i \in 0 .. n - 1
      BY <1>1, <1>2, <1>8, <2>3
    <3>2. jx[i].used = ix[i].used /\ Bytes(jx, mem2, i) = Bytes(ix, mem, i)
      BY <1>8, <2>3
    <3>. QED BY <3>1, <3>2, Zenon DEF Held
  <2>4. CASE i \notin 0 .. s - 1 /\ i \notin s + 1 .. m - 1
    <3>1. i \notin 0 .. m - 1 /\ i \notin 0 .. n - 1
      BY <1>1, <1>2, <1>10, <2>1, <2>4
    <3>. QED BY <3>1 DEF Held
  <2>. QED BY <2>2, <2>3, <2>4
<1>11. Held(jx, m, mem2)[s] = {p}
  BY <1>9 DEF Held
<1>12. Held(jx, m, mem2) = [Held(ix, n, mem) EXCEPT ![s] = {p}]
  <2>1. Held(jx, m, mem2) = [i \in Slots |-> Held(jx, m, mem2)[i]]
    BY DEF Held
  <2>2. [Held(ix, n, mem) EXCEPT ![s] = {p}] = [i \in Slots |-> IF i = s THEN {p} ELSE Held(ix, n, mem)[i]]
    BY DEF Held
  <2>. QED BY <1>10, <1>11, <2>1, <2>2
<1>. QED
  BY <1>12 DEF mem2

(* AddItem fills the first unused slot, or a new one.                       *)
LEMMA FirstUnused ==
  ASSUME NEW blk, NEW n \in Nat
  PROVE  LET s == SlotFor(blk, n)
         IN  /\ s \in 0 .. n
             /\ s < n => ~ blk.index[s].used
             /\ s = n => \A i \in 0 .. n - 1 : blk.index[i].used
             /\ Max({n - 1, s}) = IF s = n THEN n ELSE n - 1
             /\ Max({n, s + 1}) = IF s = n THEN n + 1 ELSE n
<1>. DEFINE S == {i \in 0 .. n - 1 : ~ blk.index[i].used} \cup {n}
            s == SlotFor(blk, n)
<1>1. S \in SUBSET Nat /\ S # {} /\ s = Min(S)
  BY DEF SlotFor
<1>2. s \in S /\ \A k \in S : s <= k
  <2>. HIDE DEF S
  <2>. QED BY <1>1, LeastOf
<1>3. s \in 0 .. n /\ (s < n => ~ blk.index[s].used)
  BY <1>2
<1>4. ASSUME s = n, NEW i \in 0 .. n - 1 PROVE blk.index[i].used
  <2>1. ~ (s <= i)
    BY <1>4
  <2>. QED BY <1>2, <2>1
<1>5. \A x \in Int, y \in Int : Max({x, y}) = IF x < y THEN y ELSE x
  BY DEF Max
<1>6. Max({n - 1, s}) = IF s = n THEN n ELSE n - 1
  <2>1. s \in Int /\ n - 1 \in Int /\ (n - 1 < s <=> s = n)
    BY <1>3
  <2>. HIDE DEF s
  <2>. QED BY <1>5, <2>1
<1>7. Max({n, s + 1}) = IF s = n THEN n + 1 ELSE n
  <2>1. s + 1 \in Int /\ (n < s + 1 <=> s = n)
    BY <1>3
  <2>. HIDE DEF s
  <2>. QED BY <1>5, <2>1
<1>. QED
  BY <1>3, <1>4, <1>6, <1>7

(* A sound block with room takes the record: an unused slot holds it then.  *)
LEMMA SoundFields ==
  ASSUME RecordFileAssumption, NEW blk, Sound(blk)
  PROVE  /\ blk.numItems \in Nat /\ blk.numItems \in 0 .. MaxRecords
         /\ Below(blk.index, blk.numItems) \in Nat
         /\ blk.space = FreeSpace(blk.numItems, Below(blk.index, blk.numItems))
         /\ Holds(blk) = Held(blk.index, blk.numItems, blk.mem)
<1>. DEFINE n == blk.numItems
            ix == blk.index
<1>1. n \in Nat /\ n \in 0 .. MaxRecords
  BY DEF Sound
<1>2. blk = Sealed(ix, n, blk.mem) /\ Ordered(ix, n) /\ Fits(n, Below(ix, n))
  BY DEF Sound
<1>3. blk.space = FreeSpace(n, Below(ix, n))
  <2>1. Sealed(ix, n, blk.mem).space = FreeSpace(n, Below(ix, n))
    BY <1>1, SealedFields
  <2>. QED BY <1>2, <2>1
<1>4. Holds(blk) = Held(ix, n, blk.mem)
  <2>1. Holds(Sealed(ix, n, blk.mem)) = Held(ix, n, blk.mem)
    BY <1>1, <1>2, SealedHolds
  <2>. QED BY <1>2, <2>1
<1>5. Below(ix, n) \in Nat
  <2>1. CASE n = 0
    BY <2>1 DEF Below
  <2>2. CASE n # 0
    <3>1. n - 1 \in 0 .. n - 1
      BY <1>1, <2>2
    <3>2. Below(ix, n - 1) \in Nat /\ Below(ix, n) \in Int /\ ix[n - 1].off <= Below(ix, n)
          /\ Below(ix, n - 1) <= ix[n - 1].off /\ ix[n - 1].off \in Int
      BY <1>1, <1>2, <3>1, BytesBelowTop
    <3>. HIDE DEF n, ix
    <3>. QED BY <3>2
  <2>. QED BY <2>1, <2>2
<1>. QED
  BY <1>1, <1>3, <1>4, <1>5

LEMMA ItemAdded ==
  ASSUME RecordFileAssumption, NEW blk, Sound(blk), NEW p \in Payload, blk.space >= Len(p)
  PROVE  LET r == AddItem(blk, blk.numItems, p)
         IN  /\ Sound(r)
             /\ \E s \in Slots : Holds(blk)[s] = {} /\ Holds(r) = [Holds(blk) EXCEPT ![s] = {p}]
<1>. DEFINE n == blk.numItems
            ix == blk.index
            s == SlotFor(blk, n)
            size == Len(p)
            m == Max({n, s + 1})
            jx == [j \in 0 .. Max({n - 1, s}) |->
                     IF j = s THEN [off |-> Below(ix, s) + size, used |-> TRUE]
                     ELSE IF j > s THEN [ix[j] EXCEPT !.off = @ + size] ELSE ix[j]]
            mem2 == Filled(blk.mem, Below(ix, s), p)
<1>1. /\ size \in Nat /\ size >= WordSize /\ WordSize \in Nat \ {0} /\ IndexSize \in Nat
      /\ HeaderSize \in Nat /\ Margin \in Nat /\ Margin >= IndexSize /\ BlockSize \in Nat
  BY ConstantsAreNat DEF RecordFileAssumption
<1>2. /\ n \in Nat /\ n \in 0 .. MaxRecords /\ Below(ix, n) \in Nat
      /\ blk.space = FreeSpace(n, Below(ix, n)) /\ Holds(blk) = Held(ix, n, blk.mem)
      /\ Ordered(ix, n)
  BY SoundFields DEF Sound
<1>3. /\ s \in 0 .. n /\ (s < n => ~ ix[s].used)
      /\ (s = n => \A i \in 0 .. n - 1 : ix[i].used)
      /\ Max({n - 1, s}) = IF s = n THEN n ELSE n - 1
      /\ m = IF s = n THEN n + 1 ELSE n
  BY <1>2, FirstUnused
<1>4. AddItem(blk, n, p) = Sealed(jx, m, mem2)
  <2>1. OffsetBelow(blk, s) = Below(ix, s)
    BY DEF OffsetBelow, Below
  <2>2. AddItem(blk, n, p) =
          Sealed([j \in 0 .. Max({n - 1, s}) |->
                     IF j = s THEN [off |-> OffsetBelow(blk, s) + size, used |-> TRUE]
                     ELSE IF j > s THEN [ix[j] EXCEPT !.off = @ + size] ELSE ix[j]],
                 m, Filled(blk.mem, OffsetBelow(blk, s), p))
    BY DEF AddItem, Filled
  <2>. QED
    <3>. HIDE DEF s, n, m, ix, size
    <3>. QED BY <2>1, <2>2
<1>5. Grown(ix, n, s, size, jx, m) /\ m \in Nat
  <2>1. \A j \in 0 .. s : j \in 0 .. Max({n - 1, s})
    BY <1>2, <1>3
  <2>2. \A j \in s + 1 .. m - 1 : j \in 0 .. Max({n - 1, s}) /\ j # s /\ j > s
    BY <1>2, <1>3
  <2>3. \A j \in 0 .. s - 1 : j # s /\ ~ (j > s) /\ j \in 0 .. s
    BY <1>2, <1>3
  <2>4. s \in 0 .. s
    BY <1>3
  <2>5. jx[s] = [off |-> Below(ix, s) + size, used |-> TRUE]
    <3>. HIDE DEF s, n, m, ix, size
    <3>. QED BY <2>1, <2>4
  <2>6. \A j \in 0 .. s - 1 : jx[j] = ix[j]
    <3>. HIDE DEF s, n, m, ix, size
    <3>. QED BY <2>1, <2>3
  <2>7. \A j \in s + 1 .. m - 1 : jx[j] = [ix[j] EXCEPT !.off = @ + size]
    <3>. HIDE DEF s, n, m, ix, size
    <3>. QED BY <2>2
  <2>. HIDE DEF s, n, m, ix, size, jx
  <2>. QED BY <1>2, <1>3, <2>5, <2>6, <2>7 DEF Grown
<1>6. Below(jx, m) = Below(ix, n) + size
  <2>1. \A k \in s + 1 .. m : Below(jx, k) = Below(ix, IF s = n THEN n ELSE k) + size
    <3>. HIDE DEF s, n, m, ix, jx, size
    <3>. QED BY <1>1, <1>2, <1>3, <1>5, GrownBelow
  <2>2. m \in s + 1 .. m /\ (s # n => m = n)
    BY <1>2, <1>3, <1>5
  <2>. HIDE DEF s, n, m, ix, jx, size
  <2>. QED BY <2>1, <2>2
<1>7. Ordered(jx, m)
  <2>. HIDE DEF s, n, m, ix, jx, size
  <2>. QED BY <1>1, <1>2, <1>3, <1>5, GrownOrdered
<1>8. BlockSize - HeaderSize - (n + 1) * IndexSize - Margin - Below(ix, n) >= size
  <2>. DEFINE room == BlockSize - HeaderSize - (n + 1) * IndexSize - Margin - Below(ix, n)
  <2>1. room \in Int
    BY <1>1, <1>2
  <2>2. blk.space = Max({0, room})
    BY <1>2 DEF FreeSpace
  <2>3. Max({0, room}) = IF room < 0 THEN 0 ELSE room
    <3>. HIDE DEF room
    <3>. QED BY <2>1, MaxWithZero
  <2>4. (IF room < 0 THEN 0 ELSE room) >= size
    <3>. HIDE DEF room
    <3>. QED BY <2>2, <2>3
  <2>5. room >= size
    <3>. HIDE DEF room, size
    <3>. QED BY <1>1, <2>1, <2>4
  <2>. QED BY <2>5
<1>9. Fits(m, Below(jx, m))
  <2>1. (m + 1) * IndexSize <= (n + 1) * IndexSize + IndexSize
    <3>1. CASE m = n
      BY <1>1, <1>2, <3>1
    <3>2. CASE m = n + 1
      <4>1. (n + 1 + 1) * IndexSize = (n + 1) * IndexSize + IndexSize
        BY <1>1, <1>2
      <4>2. (n + 1 + 1) * IndexSize \in Int
        BY <1>1, <1>2
      <4>. HIDE DEF n, m, s
      <4>. QED BY <3>2, <4>1, <4>2
    <3>. QED BY <1>3, <3>1, <3>2
  <2>2. (m + 1) * IndexSize \in Int /\ (n + 1) * IndexSize \in Int
    BY <1>1, <1>2, <1>5
  <2>. HIDE DEF s, n, m, ix, jx, size
  <2>. QED BY <1>1, <1>2, <1>6, <1>8, <2>1, <2>2 DEF Fits
<1>10. m \in 0 .. MaxRecords
  <2>1. CASE s # n
    BY <1>2, <1>3, <2>1
  <2>2. CASE s = n
    <3>1. m = n + 1
      BY <1>3, <2>2
    <3>2. n * WordSize <= Below(ix, n)
      <4>. HIDE DEF s, n, m, ix, jx, size
      <4>. QED BY <1>2, <1>3, <2>2, UsedSlotsTakeRoom
    <3>3. (n + 1) * WordSize = n * WordSize + WordSize /\ n * WordSize \in Int
      BY <1>1, <1>2
    <3>4. (n + 1) * IndexSize \in Nat
      BY <1>1, <1>2
    <3>5. (n + 1) * IndexSize + (n + 1) * WordSize <= BlockSize
      <4>. HIDE DEF s, n, m, ix, jx, size
      <4>. QED BY <1>1, <1>2, <1>8, <3>2, <3>3, <3>4
    <3>6. m * IndexSize + m * WordSize <= BlockSize
      <4>. HIDE DEF s, n, m, ix, jx, size
      <4>. QED BY <3>1, <3>5
    <3>. HIDE DEF s, n, m, ix, jx, size
    <3>. QED BY <1>5, <3>6, RecordsFit
  <2>. QED BY <2>1, <2>2
<1>11. Sound(Sealed(jx, m, mem2)) /\ Holds(Sealed(jx, m, mem2)) = Held(jx, m, mem2)
  <2>. HIDE DEF s, n, m, ix, jx, size, mem2
  <2>. QED BY <1>5, <1>7, <1>9, <1>10, SealedSound, SealedHolds
<1>12. s \in Slots /\ Held(ix, n, blk.mem)[s] = {}
  <2>1. s \in Slots
    <3>. USE ConstantsAreNat
    <3>. HIDE DEF s, n, m, ix, jx, size
    <3>. QED BY <1>2, <1>3, <1>10 DEF Slots
  <2>2. ~ (s \in 0 .. n - 1 /\ ix[s].used)
    <3>. HIDE DEF s, n, m, ix, jx, size
    <3>. QED BY <1>2, <1>3
  <2>. HIDE DEF s, n, m, ix, jx, size
  <2>. QED BY <2>1, <2>2 DEF Held
<1>13. Held(jx, m, mem2) = [Held(ix, n, blk.mem) EXCEPT ![s] = {p}]
  <2>1. Below(jx, m) <= BlockSize
    <3>1. (m + 1) * IndexSize \in Nat
      BY <1>1, <1>5
    <3>2. Below(jx, m) \in Int
      <4>. HIDE DEF s, n, m, ix, jx, size
      <4>. QED BY <1>1, <1>2, <1>6
    <3>. HIDE DEF s, n, m, ix, jx, size
    <3>. QED BY <1>1, <1>9, <3>1, <3>2 DEF Fits
  <2>2. Held(jx, m, Filled(blk.mem, Below(ix, s), p)) = [Held(ix, n, blk.mem) EXCEPT ![s] = {p}]
    <3>. DEFINE mem == blk.mem
    <3>1. n \in Nat /\ Ordered(ix, n)
      BY <1>2
    <3>2. s \in 0 .. n /\ (s < n => ~ ix[s].used) /\ s \in Slots
      BY <1>3, <1>12
    <3>3. Grown(ix, n, s, Len(p), jx, m)
      BY <1>5
    <3>. HIDE DEF s, n, m, ix, jx, mem
    <3>4. Held(jx, m, Filled(mem, Below(ix, s), p)) = [Held(ix, n, mem) EXCEPT ![s] = {p}]
      BY <2>1, <3>1, <3>2, <3>3, GrownHolds
    <3>. QED BY <3>4 DEF mem
  <2>. QED BY <2>2
<1>14. /\ Sound(AddItem(blk, n, p)) /\ Holds(blk)[s] = {}
       /\ Holds(AddItem(blk, n, p)) = [Holds(blk) EXCEPT ![s] = {p}]
  <2>. HIDE DEF s, n, m, ix, jx, size, mem2
  <2>. QED BY <1>2, <1>4, <1>7, <1>11, <1>12, <1>13
<1>. QED
  BY <1>12, <1>14

-----------------------------------------------------------------------------
(* Removing an item                                                         *)

(* What is left when the top slot goes ends in a used slot, and no used one *)
(* goes with it.                                                            *)
LEMMA TopDropped ==
  ASSUME NEW blk, NEW n \in Nat \ {0}
  PROVE  LET m == SlotsBelowTop(blk, n)
         IN  /\ m \in 0 .. n - 1
             /\ m # 0 => blk.index[m - 1].used
             /\ \A k \in m .. n - 2 : ~ blk.index[k].used
<1>. DEFINE Left == {k \in 0 .. n - 2 : blk.index[k].used}
            S == {0} \cup {j + 1 : j \in Left}
            m == SlotsBelowTop(blk, n)
<1>1. S \in SUBSET (0 .. n - 1) /\ S # {} /\ m = Max(S) /\ n - 1 \in Nat
  BY DEF SlotsBelowTop
<1>2. m \in S /\ \A k \in S : k <= m
  <2>. HIDE DEF S
  <2>. QED BY <1>1, GreatestOf
<1>3. m \in 0 .. n - 1
  BY <1>1, <1>2, Zenon
<1>4. ASSUME m # 0 PROVE blk.index[m - 1].used
  <2>1. PICK j \in Left : m = j + 1
    BY <1>2, <1>4
  <2>2. m - 1 = j
    BY <2>1
  <2>. QED BY <2>1, <2>2
<1>5. ASSUME NEW k \in m .. n - 2, blk.index[k].used PROVE FALSE
  <2>1. k \in Left
    BY <1>3, <1>5
  <2>2. k + 1 \in S
    BY <2>1
  <2>3. k + 1 <= m
    <3>. HIDE DEF S
    <3>. QED BY <1>2, <2>2
  <2>. QED BY <1>3, <2>3
<1>. QED
  BY <1>3, <1>4, <1>5

(* The entries when slot i, below the top, goes.                            *)
Shrunk(ix, n, i, jx) ==
  /\ jx[i] = [off |-> Below(ix, i), used |-> FALSE]
  /\ \A j \in 0 .. i - 1 : jx[j] = ix[j]
  /\ \A j \in i + 1 .. n - 1 : jx[j] = [ix[j] EXCEPT !.off = @ - (ix[i].off - Below(ix, i))]

(* The bytes when those above a slot move back.                             *)
Emptied(mem, below, size) ==
  [o \in 1 .. BlockSize |-> IF o <= below \/ o + size > BlockSize THEN mem[o] ELSE mem[o + size]]

LEMMA ShrunkFields ==
  ASSUME NEW ix, NEW n \in Nat, Ordered(ix, n), NEW i \in 0 .. n - 1,
         NEW jx, Shrunk(ix, n, i, jx), NEW size, size = ix[i].off - Below(ix, i)
  PROVE  /\ size \in Nat /\ i \in Nat
         /\ \A k \in 0 .. n : Below(ix, k) \in Nat
         /\ Below(ix, i + 1) = Below(ix, i) + size
         /\ \A k \in 0 .. i : Below(jx, k) = Below(ix, k)
         /\ \A k \in i + 1 .. n : Below(jx, k) = Below(ix, k) - size
         /\ \A j \in i + 1 .. n - 1 :
              /\ j \in 0 .. n - 1 /\ ix[j] \in Entry /\ jx[j] \in Entry
              /\ jx[j].off = ix[j].off - size /\ jx[j].used = ix[j].used
<1>1. \A k \in 0 .. n - 1 : ix[k].off \in Int /\ Below(ix, k) \in Nat /\ Below(ix, k) <= ix[k].off
                           /\ Below(ix, k + 1) = ix[k].off
  BY BytesBelowTop
<1>2. ix[i].off \in Int /\ Below(ix, i) \in Nat /\ Below(ix, i) <= ix[i].off
      /\ Below(ix, i + 1) = ix[i].off
  BY <1>1
<1>3. size \in Nat /\ i \in Nat /\ Below(ix, i + 1) = Below(ix, i) + size
  BY <1>2
<1>4. ASSUME NEW k \in 0 .. n PROVE Below(ix, k) \in Nat
  <2>1. CASE k \in 0 .. n - 1
    BY <1>1, <2>1
  <2>2. CASE k = n
    <3>1. n - 1 \in 0 .. n - 1 /\ (n - 1) + 1 = n
      OBVIOUS
    <3>2. Below(ix, n) = ix[n - 1].off /\ ix[n - 1].off \in Nat
      <4>1. ix[n - 1].off \in Int /\ Below(ix, n - 1) \in Nat /\ Below(ix, n - 1) <= ix[n - 1].off
            /\ Below(ix, (n - 1) + 1) = ix[n - 1].off
        BY <1>1, <3>1
      <4>. QED BY <3>1, <4>1
    <3>. QED BY <2>2, <3>2
  <2>. QED BY <2>1, <2>2
<1>5. ASSUME NEW j \in i + 1 .. n - 1
      PROVE  /\ j \in 0 .. n - 1 /\ ix[j] \in Entry /\ jx[j] \in Entry
             /\ jx[j].off = ix[j].off - size /\ jx[j].used = ix[j].used
  <2>1. j \in 0 .. n - 1
    OBVIOUS
  <2>2. jx[j] = [ix[j] EXCEPT !.off = @ - size] /\ ix[j] \in Entry
    BY <2>1 DEF Shrunk, Ordered
  <2>. QED BY <1>3, <2>1, <2>2 DEF Entry
<1>6. ASSUME NEW k \in 0 .. i PROVE Below(jx, k) = Below(ix, k)
  <2>1. k # 0 => k - 1 \in 0 .. i - 1
    OBVIOUS
  <2>. QED BY <2>1 DEF Below, Shrunk
<1>7. ASSUME NEW k \in i + 1 .. n PROVE Below(jx, k) = Below(ix, k) - size
  <2>1. k # 0 /\ k - 1 \in Nat /\ Below(jx, k) = jx[k - 1].off /\ Below(ix, k) = ix[k - 1].off
    <3>1. k # 0 /\ k - 1 \in Nat
      OBVIOUS
    <3>. QED BY <3>1 DEF Below
  <2>2. CASE k = i + 1
    <3>1. k - 1 = i
      BY <2>2
    <3>2. jx[i].off = Below(ix, i)
      BY DEF Shrunk
    <3>. QED BY <1>2, <2>1, <3>1, <3>2
  <2>3. CASE k # i + 1
    <3>1. k - 1 \in i + 1 .. n - 1
      BY <2>3
    <3>. QED BY <1>5, <2>1, <3>1
  <2>. QED BY <2>2, <2>3
<1>. QED
  BY <1>3, <1>4, <1>5, <1>6, <1>7

LEMMA ShrunkOrdered ==
  ASSUME RecordFileAssumption, NEW ix, NEW n \in Nat, Ordered(ix, n), NEW i \in 0 .. n - 1,
         i + 1 # n, NEW jx, Shrunk(ix, n, i, jx)
  PROVE  Ordered(jx, n) /\ Below(jx, n) <= Below(ix, n)
<1>. DEFINE size == ix[i].off - Below(ix, i)
<1>0. WordSize \in Nat
  BY ConstantsAreNat
<1>1. /\ size \in Nat /\ i \in Nat
      /\ \A k \in 0 .. n : Below(ix, k) \in Nat
      /\ Below(ix, i + 1) = Below(ix, i) + size
      /\ \A k \in 0 .. i : Below(jx, k) = Below(ix, k)
      /\ \A k \in i + 1 .. n : Below(jx, k) = Below(ix, k) - size
      /\ \A j \in i + 1 .. n - 1 :
           /\ j \in 0 .. n - 1 /\ ix[j] \in Entry /\ jx[j] \in Entry
           /\ jx[j].off = ix[j].off - size /\ jx[j].used = ix[j].used
  BY ShrunkFields
<1>. HIDE DEF size
<1>2. \A j \in 0 .. i - 1 : j \in 0 .. n - 1 /\ jx[j] = ix[j]
  BY DEF Shrunk
<1>3. \A j \in 0 .. n - 1 : j \in 0 .. i - 1 \/ j = i \/ j \in i + 1 .. n - 1
  BY <1>1
<1>4. jx[i] = [off |-> Below(ix, i), used |-> FALSE] /\ jx[i] \in Entry
  BY <1>1 DEF Shrunk, Entry
<1>5. \A j \in 0 .. n - 1 : jx[j] \in Entry
  BY <1>1, <1>2, <1>3, <1>4 DEF Ordered
<1>6. ASSUME NEW j \in 0 .. n, NEW k \in 0 .. n, j <= k
      PROVE  Below(jx, j) <= Below(jx, k)
  <2>1. Below(ix, j) <= Below(ix, k) /\ Below(ix, j) \in Nat /\ Below(ix, k) \in Nat
    BY <1>1, <1>6 DEF Ordered
  <2>2. CASE k <= i
    BY <1>1, <1>6, <2>1, <2>2
  <2>3. CASE j > i
    <3>1. j \in i + 1 .. n /\ k \in i + 1 .. n
      BY <1>1, <1>6, <2>3
    <3>. QED BY <1>1, <2>1, <3>1
  <2>4. CASE j <= i /\ k > i
    <3>1. j \in 0 .. i /\ k \in i + 1 .. n /\ i \in 0 .. n /\ i + 1 \in 0 .. n /\ i + 1 <= k
      BY <1>1, <1>6, <2>4
    <3>2. Below(ix, j) <= Below(ix, i) /\ Below(ix, i + 1) <= Below(ix, k)
          /\ Below(ix, i) \in Nat
      BY <1>1, <2>4, <3>1 DEF Ordered
    <3>3. Below(jx, j) = Below(ix, j) /\ Below(jx, k) = Below(ix, k) - size
      BY <1>1, <3>1
    <3>. QED BY <1>1, <2>1, <3>2, <3>3
  <2>. QED BY <1>1, <2>2, <2>3, <2>4
<1>7. ASSUME NEW j \in 0 .. n - 1
      PROVE  IF jx[j].used THEN jx[j].off >= Below(jx, j) + WordSize
             ELSE jx[j].off = Below(jx, j)
  <2>0. IF ix[j].used THEN ix[j].off >= Below(ix, j) + WordSize ELSE ix[j].off = Below(ix, j)
    BY DEF Ordered
  <2>1. CASE j \in 0 .. i - 1
    <3>1. j \in 0 .. i /\ jx[j] = ix[j]
      BY <1>2, <2>1
    <3>2. Below(jx, j) = Below(ix, j)
      BY <1>1, <3>1
    <3>. QED BY <2>0, <3>1, <3>2
  <2>2. CASE j = i
    <3>1. Below(jx, i) = Below(ix, i)
      BY <1>1
    <3>. QED BY <1>4, <2>2, <3>1
  <2>3. CASE j \in i + 1 .. n - 1
    <3>1. /\ ix[j] \in Entry /\ jx[j].off = ix[j].off - size /\ jx[j].used = ix[j].used
      BY <1>1, <2>3
    <3>2. Below(jx, j) = Below(ix, j) - size /\ Below(ix, j) \in Nat
      BY <1>1, <2>3
    <3>3. ix[j].off \in Int
      BY <3>1 DEF Entry
    <3>. QED BY <1>0, <1>1, <2>0, <3>1, <3>2, <3>3
  <2>. QED BY <1>3, <2>1, <2>2, <2>3
<1>8. n - 1 \in i + 1 .. n - 1 /\ n \in i + 1 .. n /\ n \in 0 .. n
  BY <1>1
<1>9. n # 0 => jx[n - 1].used
  <2>1. jx[n - 1].used = ix[n - 1].used
    BY <1>1, <1>8
  <2>. QED BY <2>1 DEF Ordered
<1>10. Below(jx, n) <= Below(ix, n)
  <2>1. Below(jx, n) = Below(ix, n) - size /\ Below(ix, n) \in Nat
    BY <1>1, <1>8
  <2>. QED BY <1>1, <2>1
<1>. QED
  BY <1>5, <1>6, <1>7, <1>9, <1>10 DEF Ordered

LEMMA ShrunkHolds ==
  ASSUME RecordFileAssumption, NEW ix, NEW n \in Nat, Ordered(ix, n), NEW i \in 0 .. n - 1,
         i + 1 # n, i \in Slots, NEW jx, Shrunk(ix, n, i, jx), Below(ix, n) <= BlockSize, NEW mem
  PROVE  Held(jx, n, Emptied(mem, Below(ix, i), ix[i].off - Below(ix, i)))
           = [Held(ix, n, mem) EXCEPT ![i] = {}]
<1>. DEFINE size == ix[i].off - Below(ix, i)
            below == Below(ix, i)
            mem2 == Emptied(mem, below, size)
<1>0. BlockSize \in Nat
  BY ConstantsAreNat
<1>1. /\ size \in Nat /\ i \in Nat
      /\ \A k \in 0 .. n : Below(ix, k) \in Nat
      /\ Below(ix, i + 1) = Below(ix, i) + size
      /\ \A k \in 0 .. i : Below(jx, k) = Below(ix, k)
      /\ \A k \in i + 1 .. n : Below(jx, k) = Below(ix, k) - size
      /\ \A j \in i + 1 .. n - 1 :
           /\ j \in 0 .. n - 1 /\ ix[j] \in Entry /\ jx[j] \in Entry
           /\ jx[j].off = ix[j].off - size /\ jx[j].used = ix[j].used
  BY ShrunkFields
<1>2. \A o \in 1 .. BlockSize :
        mem2[o] = IF o <= below \/ o + size > BlockSize THEN mem[o] ELSE mem[o + size]
  BY DEF Emptied
<1>3. i \in 0 .. n /\ below \in Nat
  BY <1>1
<1>. HIDE DEF size, mem2
<1>4. \A j \in 0 .. n - 1 :
        /\ ix[j].off \in Int /\ Below(ix, j) \in Nat
        /\ Below(ix, j) <= ix[j].off /\ ix[j].off <= BlockSize
  <2>1. \A j \in 0 .. n - 1 :
        /\ ix[j].off \in Int /\ Below(ix, j) \in Nat /\ Below(ix, n) \in Int
        /\ Below(ix, j) <= ix[j].off /\ ix[j].off <= Below(ix, n)
    BY BytesBelowTop
  <2>. QED BY <1>0, <2>1
<1>5. ASSUME NEW j \in 0 .. i - 1
      PROVE  j \in 0 .. n - 1 /\ jx[j].used = ix[j].used /\ Bytes(jx, mem2, j) = Bytes(ix, mem, j)
  <2>1. j \in 0 .. n - 1 /\ j \in 0 .. i /\ jx[j] = ix[j]
    BY <1>1 DEF Shrunk
  <2>2. Below(jx, j) = Below(ix, j)
    BY <1>1, <2>1
  <2>3. /\ ix[j].off \in Int /\ Below(ix, j) \in Nat
        /\ Below(ix, j) <= ix[j].off /\ ix[j].off <= BlockSize
    BY <1>4, <2>1
  <2>4. ix[j].off <= below
    <3>1. j + 1 \in 0 .. n /\ j + 1 <= i
      BY <1>1
    <3>2. Below(ix, j + 1) <= Below(ix, i)
      BY <1>3, <3>1 DEF Ordered
    <3>3. Below(ix, j + 1) = ix[j].off
      BY <2>1, BytesBelowTop
    <3>. QED BY <3>2, <3>3
  <2>5. ASSUME NEW k \in 1 .. ix[j].off - Below(ix, j)
        PROVE  mem2[ix[j].off - k + 1] = mem[ix[j].off - k + 1]
    <3>. DEFINE at == ix[j].off - k + 1
    <3>1. at \in Nat /\ at \in Below(ix, j) + 1 .. ix[j].off
      BY <2>3, ByteInSlot
    <3>2. at \in 1 .. BlockSize /\ at <= below
      <4>. HIDE DEF below, at
      <4>. QED BY <1>0, <1>3, <2>3, <2>4, <3>1
    <3>3. mem2[at] = mem[at]
      <4>. HIDE DEF below, at
      <4>. QED BY <1>2, <3>2
    <3>. QED BY <3>3
  <2>6. Bytes(jx, mem2, j) = Bytes(ix, mem, j)
    <3>. HIDE DEF below
    <3>. QED BY <2>1, <2>2, <2>5 DEF Bytes
  <2>. QED BY <2>1, <2>6
<1>6. ASSUME NEW j \in i + 1 .. n - 1
      PROVE  j \in 0 .. n - 1 /\ jx[j].used = ix[j].used /\ Bytes(jx, mem2, j) = Bytes(ix, mem, j)
  <2>1. j \in 0 .. n - 1 /\ j \in i + 1 .. n
    BY <1>1
  <2>2. Below(jx, j) = Below(ix, j) - size /\ jx[j].off = ix[j].off - size /\ jx[j].used = ix[j].used
    BY <1>1, <2>1
  <2>3. /\ ix[j].off \in Int /\ Below(ix, j) \in Nat
        /\ Below(ix, j) <= ix[j].off /\ ix[j].off <= BlockSize
    BY <1>4, <2>1
  <2>4. below + size <= Below(ix, j)
    <3>1. i + 1 \in 0 .. n /\ j \in 0 .. n /\ i + 1 <= j
      BY <1>1
    <3>2. Below(ix, i + 1) <= Below(ix, j)
      BY <3>1 DEF Ordered
    <3>. QED BY <1>1, <3>2
  <2>5. jx[j].off - Below(jx, j) = ix[j].off - Below(ix, j)
    BY <1>1, <2>2, <2>3
  <2>6. ASSUME NEW k \in 1 .. ix[j].off - Below(ix, j)
        PROVE  mem2[jx[j].off - k + 1] = mem[ix[j].off - k + 1]
    <3>. DEFINE at == jx[j].off - k + 1
    <3>1. jx[j].off \in Int /\ Below(jx, j) \in Nat
      <4>. HIDE DEF below
      <4>. QED BY <1>1, <1>3, <2>2, <2>3, <2>4
    <3>2. at \in Nat /\ at \in Below(jx, j) + 1 .. jx[j].off
      <4>1. k \in 1 .. jx[j].off - Below(jx, j)
        BY <2>5
      <4>. QED BY <3>1, <4>1, ByteInSlot
    <3>3. at + size = ix[j].off - k + 1
      <4>1. k \in Int /\ (jx[j].off + size) - k + 1 = at + size
        BY <1>1, <3>1, ByteMoved
      <4>2. jx[j].off + size = ix[j].off
        BY <1>1, <2>2, <2>3
      <4>. QED BY <4>1, <4>2
    <3>4. at \in 1 .. BlockSize /\ ~ (at <= below) /\ ~ (at + size > BlockSize)
      <4>1. below < at /\ at <= jx[j].off
        <5>. HIDE DEF below, at
        <5>. QED BY <1>1, <1>3, <2>2, <2>3, <2>4, <3>1, <3>2
      <4>2. jx[j].off + size = ix[j].off
        BY <1>1, <2>2, <2>3
      <4>. HIDE DEF below, at
      <4>. QED BY <1>0, <1>1, <1>3, <2>3, <3>1, <3>2, <4>1, <4>2
    <3>5. mem2[at] = mem[at + size]
      <4>. HIDE DEF below, at
      <4>. QED BY <1>2, <3>4
    <3>. QED BY <3>3, <3>5
  <2>7. Bytes(jx, mem2, j) = Bytes(ix, mem, j)
    <3>. HIDE DEF below
    <3>. QED BY <2>5, <2>6 DEF Bytes
  <2>. QED BY <2>1, <2>2, <2>7
<1>7. ASSUME NEW j \in Slots, j # i
      PROVE  Held(jx, n, mem2)[j] = Held(ix, n, mem)[j]
  <2>1. CASE j \in 0 .. n - 1
    <3>1. jx[j].used = ix[j].used /\ Bytes(jx, mem2, j) = Bytes(ix, mem, j)
      <4>1. j \in 0 .. i - 1 \/ j \in i + 1 .. n - 1
        BY <1>1, <1>7, <2>1
      <4>. QED BY <1>5, <1>6, <4>1
    <3>. QED BY <2>1, <3>1, Zenon DEF Held
  <2>2. CASE j \notin 0 .. n - 1
    BY <2>2 DEF Held
  <2>. QED BY <2>1, <2>2
<1>8. Held(jx, n, mem2)[i] = {}
  <2>1. ~ jx[i].used
    BY DEF Shrunk
  <2>. QED BY <2>1 DEF Held
<1>9. Held(jx, n, mem2) = [Held(ix, n, mem) EXCEPT ![i] = {}]
  <2>1. Held(jx, n, mem2) = [j \in Slots |-> Held(jx, n, mem2)[j]]
    BY DEF Held
  <2>2. [Held(ix, n, mem) EXCEPT ![i] = {}] = [j \in Slots |-> IF j = i THEN {} ELSE Held(ix, n, mem)[j]]
    BY DEF Held
  <2>. QED BY <1>7, <1>8, <2>1, <2>2
<1>. QED
  BY <1>9 DEF mem2, size

LEMMA ItemDeleted ==
  ASSUME RecordFileAssumption, NEW blk, Sound(blk), NEW i, IsItemValid(blk, blk.numItems, i)
  PROVE  LET r == DeleteItem(blk, blk.numItems, i)
         IN  Sound(r) /\ i \in Slots /\ Holds(r) = [Holds(blk) EXCEPT ![i] = {}]
<1>. DEFINE n == blk.numItems
            ix == blk.index
            mem == blk.mem
<1>1. /\ n \in Nat /\ n \in 0 .. MaxRecords /\ Below(ix, n) \in Nat
      /\ Holds(blk) = Held(ix, n, mem) /\ Ordered(ix, n) /\ Fits(n, Below(ix, n))
  BY SoundFields DEF Sound
<1>2. i \in 0 .. n - 1 /\ ix[i].used
  BY DEF IsItemValid
<1>3. i \in Slots
  BY <1>1, <1>2, ConstantsAreNat DEF Slots
<1>4. ASSUME NEW m \in 0 .. n, NEW top \in Int, top <= Below(ix, n)
      PROVE  Fits(m, top)
  <2>1. (m + 1) * IndexSize <= (n + 1) * IndexSize
    <3>1. (n - m) * IndexSize \in Nat
      BY <1>1, ConstantsAreNat
    <3>2. (n + 1) * IndexSize = (m + 1) * IndexSize + (n - m) * IndexSize
      BY <1>1, ConstantsAreNat
    <3>3. (m + 1) * IndexSize \in Int
      BY <1>1, ConstantsAreNat
    <3>. HIDE DEF n
    <3>. QED BY <3>1, <3>2, <3>3
  <2>2. (m + 1) * IndexSize \in Int /\ (n + 1) * IndexSize \in Int
    BY <1>1, ConstantsAreNat
  <2>. HIDE DEF n, ix
  <2>. QED BY <1>1, <1>4, <2>1, <2>2, ConstantsAreNat DEF Fits
<1>5. Below(ix, n) <= BlockSize
  <2>1. (n + 1) * IndexSize \in Nat
    BY <1>1, ConstantsAreNat
  <2>. HIDE DEF n, ix
  <2>. QED BY <1>1, <2>1, ConstantsAreNat DEF Fits
<1>6. CASE i + 1 = n
  <2>. DEFINE m == SlotsBelowTop(blk, n)
  <2>1. /\ m \in 0 .. n - 1
        /\ m # 0 => ix[m - 1].used
        /\ \A k \in m .. n - 2 : ~ ix[k].used
    <3>1. n \in Nat \ {0}
      BY <1>1, <1>2
    <3>. QED BY <3>1, TopDropped
  <2>2. DeleteItem(blk, n, i) = Sealed(ix, m, mem)
    BY <1>6 DEF DeleteItem
  <2>. HIDE DEF m, n, ix, mem
  <2>3. Ordered(ix, m)
    BY <1>1, <2>1 DEF Ordered
  <2>4. m \in 0 .. MaxRecords /\ m \in Nat /\ m \in 0 .. n
    BY <1>1, <2>1, ConstantsAreNat
  <2>5. Below(ix, m) \in Int /\ Below(ix, m) <= Below(ix, n)
    <3>1. Below(ix, m) <= Below(ix, n)
      BY <1>1, <2>4 DEF Ordered
    <3>2. Below(ix, m) \in Int
      BY <2>3, <2>4 DEF Below, Ordered, Entry
    <3>. QED BY <3>1, <3>2
  <2>6. Fits(m, Below(ix, m))
    BY <1>4, <2>4, <2>5
  <2>7. Sound(Sealed(ix, m, mem)) /\ Holds(Sealed(ix, m, mem)) = Held(ix, m, mem)
    BY <2>3, <2>4, <2>6, SealedSound, SealedHolds
  <2>8. ASSUME NEW j \in Slots
        PROVE  Held(ix, m, mem)[j] = IF j = i THEN {} ELSE Held(ix, n, mem)[j]
    <3>1. j \in 0 .. m - 1 => j \in 0 .. n - 1 /\ j # i
      BY <1>1, <1>6, <2>1
    <3>2. j \in 0 .. n - 1 /\ j \notin 0 .. m - 1 /\ j # i => ~ ix[j].used
      <4>1. j \in 0 .. n - 1 /\ j \notin 0 .. m - 1 /\ j # i => j \in m .. n - 2
        BY <1>1, <1>2, <1>6, <2>1
      <4>. QED BY <2>1, <4>1
    <3>. QED BY <3>1, <3>2, Zenon DEF Held
  <2>9. Held(ix, m, mem) = [Held(ix, n, mem) EXCEPT ![i] = {}]
    <3>1. Held(ix, m, mem) = [j \in Slots |-> Held(ix, m, mem)[j]]
      BY DEF Held
    <3>2. [Held(ix, n, mem) EXCEPT ![i] = {}] = [j \in Slots |-> IF j = i THEN {} ELSE Held(ix, n, mem)[j]]
      BY DEF Held
    <3>. QED BY <2>8, <3>1, <3>2
  <2>10. Sound(DeleteItem(blk, n, i)) /\ Holds(DeleteItem(blk, n, i)) = [Holds(blk) EXCEPT ![i] = {}]
    BY <1>1, <2>2, <2>7, <2>9
  <2>. QED BY <1>3, <2>10 DEF n
<1>7. CASE i + 1 # n
  <2>. DEFINE below == Below(ix, i)
              size == ix[i].off - below
              jx == [j \in 0 .. n - 1 |->
                       IF j = i THEN [off |-> below, used |-> FALSE]
                       ELSE IF j > i THEN [ix[j] EXCEPT !.off = @ - size] ELSE ix[j]]
              mem2 == Emptied(mem, below, size)
  <2>1. DeleteItem(blk, n, i) = Sealed(jx, n, mem2)
    <3>1. OffsetBelow(blk, i) = below
      BY DEF OffsetBelow, Below
    <3>2. ~ (i + 1 = n)
      BY <1>7
    <3>3. DeleteItem(blk, n, i) =
            Sealed([j \in 0 .. n - 1 |->
                       IF j = i THEN [off |-> OffsetBelow(blk, i), used |-> FALSE]
                       ELSE IF j > i THEN [ix[j] EXCEPT !.off = @ - (ix[i].off - OffsetBelow(blk, i))]
                       ELSE ix[j]],
                   n, Emptied(mem, OffsetBelow(blk, i), ix[i].off - OffsetBelow(blk, i)))
      BY <3>2 DEF DeleteItem, Emptied
    <3>. HIDE DEF n, ix, mem, below
    <3>. QED BY <3>1, <3>3
  <2>2. Shrunk(ix, n, i, jx)
    <3>1. \A j \in 0 .. i - 1 : j \in 0 .. n - 1 /\ j # i /\ ~ (j > i)
      BY <1>1, <1>2
    <3>2. \A j \in i + 1 .. n - 1 : j \in 0 .. n - 1 /\ j # i /\ j > i
      BY <1>1, <1>2
    <3>3. jx[i] = [off |-> Below(ix, i), used |-> FALSE]
      <4>. HIDE DEF n, ix
      <4>. QED BY <1>2
    <3>4. \A j \in 0 .. i - 1 : jx[j] = ix[j]
      <4>. HIDE DEF n, ix, size, below
      <4>. QED BY <3>1
    <3>5. \A j \in i + 1 .. n - 1 : jx[j] = [ix[j] EXCEPT !.off = @ - size]
      <4>. HIDE DEF n, ix, size, below
      <4>. QED BY <3>2
    <3>. HIDE DEF jx, n, ix
    <3>. QED BY <3>3, <3>4, <3>5 DEF Shrunk
  <2>. HIDE DEF n, ix, mem, jx
  <2>3. Ordered(jx, n) /\ Below(jx, n) <= Below(ix, n)
    BY <1>1, <1>2, <1>7, <2>2, ShrunkOrdered
  <2>4. Below(jx, n) \in Int /\ n \in 0 .. n
    BY <1>1, <2>3 DEF Below, Ordered, Entry
  <2>5. Fits(n, Below(jx, n))
    BY <1>4, <2>3, <2>4
  <2>6. Held(jx, n, mem2) = [Held(ix, n, mem) EXCEPT ![i] = {}]
    BY <1>1, <1>2, <1>3, <1>5, <1>7, <2>2, ShrunkHolds
  <2>7. Sound(Sealed(jx, n, mem2)) /\ Holds(Sealed(jx, n, mem2)) = Held(jx, n, mem2)
    <3>. HIDE DEF mem2
    <3>. QED BY <1>1, <2>3, <2>5, SealedSound, SealedHolds
  <2>8. Sound(DeleteItem(blk, n, i)) /\ Holds(DeleteItem(blk, n, i)) = [Holds(blk) EXCEPT ![i] = {}]
    <3>. HIDE DEF mem2
    <3>. QED BY <1>1, <2>1, <2>6, <2>7
  <2>. QED BY <1>3, <2>8 DEF n
<1>. QED
  BY <1>6, <1>7

-----------------------------------------------------------------------------
(* Changing an item, and a new block                                        *)

(* The bytes of two slots lie apart.                                        *)
LEMMA SlotsApart ==
  ASSUME NEW ix, NEW n \in Nat, Ordered(ix, n), NEW i \in 0 .. n - 1, NEW j \in 0 .. n - 1, i # j,
         NEW o \in Below(ix, j) + 1 .. ix[j].off
  PROVE  o \notin Below(ix, i) + 1 .. ix[i].off
<1>1. /\ Below(ix, i + 1) = ix[i].off /\ Below(ix, j + 1) = ix[j].off
      /\ ix[i].off \in Int /\ ix[j].off \in Int /\ Below(ix, i) \in Nat /\ Below(ix, j) \in Nat
  BY BytesBelowTop
<1>2. i \in 0 .. n /\ j \in 0 .. n /\ i + 1 \in 0 .. n /\ j + 1 \in 0 .. n
  OBVIOUS
<1>3. CASE i < j
  <2>1. i + 1 <= j
    BY <1>3
  <2>2. Below(ix, i + 1) <= Below(ix, j)
    BY <1>2, <2>1 DEF Ordered
  <2>. QED BY <1>1, <2>2
<1>4. CASE j < i
  <2>1. j + 1 <= i
    BY <1>4
  <2>2. Below(ix, j + 1) <= Below(ix, i)
    BY <1>2, <2>1 DEF Ordered
  <2>. QED BY <1>1, <2>2
<1>. QED
  BY <1>3, <1>4

LEMMA ItemWritten ==
  ASSUME RecordFileAssumption, NEW blk, Sound(blk), NEW i, IsItemValid(blk, blk.numItems, i),
         NEW p \in Payload, Len(p) = ItemSize(blk, i)
  PROVE  LET r == WriteItem(blk, i, p)
         IN  /\ Sound(r) /\ i \in Slots /\ Holds(r) = [Holds(blk) EXCEPT ![i] = {p}]
             /\ Loaded(r) = Loaded(blk)
<1>. DEFINE n == blk.numItems
            ix == blk.index
            mem == blk.mem
            size == ix[i].off - Below(ix, i)
            mem2 == [o \in 1 .. BlockSize |-> IF o \in Below(ix, i) + 1 .. ix[i].off
                                             THEN p[ix[i].off - o + 1] ELSE mem[o]]
            r == WriteItem(blk, i, p)
<1>1. /\ n \in Nat /\ n \in 0 .. MaxRecords /\ Below(ix, n) \in Nat
      /\ Holds(blk) = Held(ix, n, mem) /\ Ordered(ix, n) /\ Fits(n, Below(ix, n))
      /\ blk = Sealed(ix, n, mem)
  BY SoundFields DEF Sound
<1>2. i \in 0 .. n - 1 /\ ix[i].used
  BY DEF IsItemValid
<1>3. i \in Slots
  BY <1>1, <1>2, ConstantsAreNat DEF Slots
<1>4. /\ \A j \in 0 .. n - 1 :
           /\ ix[j].off \in Int /\ Below(ix, j) \in Nat
           /\ Below(ix, j) <= ix[j].off /\ ix[j].off <= Below(ix, n)
  BY <1>1, BytesBelowTop
<1>5. Below(ix, n) <= BlockSize /\ BlockSize \in Nat
  <2>1. (n + 1) * IndexSize \in Nat
    BY <1>1, ConstantsAreNat
  <2>2. n \in Nat /\ Below(ix, n) \in Nat /\ Fits(n, Below(ix, n))
    BY <1>1
  <2>3. ASSUME NEW k \in Nat, NEW t \in Nat, HeaderSize + k + t <= BlockSize
        PROVE  t <= BlockSize
    BY <2>3, ConstantsAreNat
  <2>4. HeaderSize + (n + 1) * IndexSize + Below(ix, n) <= BlockSize
    BY <2>2 DEF Fits
  <2>. HIDE DEF n, ix
  <2>. QED BY <2>1, <2>2, <2>3, <2>4, ConstantsAreNat
<1>6. r = [blk EXCEPT !.mem = mem2]
  <2>1. OffsetBelow(blk, i) = Below(ix, i)
    BY DEF OffsetBelow, Below
  <2>2. WriteItem(blk, i, p) = [blk EXCEPT !.mem =
          [o \in 1 .. BlockSize |-> IF o \in OffsetBelow(blk, i) + 1 .. ix[i].off
                                   THEN p[ix[i].off - o + 1] ELSE mem[o]]]
    BY DEF WriteItem
  <2>. HIDE DEF ix, mem
  <2>. QED BY <2>1, <2>2
<1>7. r = Sealed(ix, n, mem2)
  <2>. DEFINE top == IF n = 0 THEN 0 ELSE ix[n - 1].off
              index == [k \in 0 .. n |-> IF k = n THEN Guard ELSE ix[k]]
              bytes(m) == [o \in 1 .. BlockSize |-> IF o <= top THEN m[o] ELSE ZeroByte]
  <2>1. top = Below(ix, n)
    BY DEF Below
  <2>2. \A m : Sealed(ix, n, m) = [numItems |-> n, space |-> FreeSpace(n, top),
                                  index |-> index, mem |-> bytes(m)]
    BY DEF Sealed
  <2>3. mem = bytes(mem)
    <3>1. Sealed(ix, n, mem).mem = bytes(mem)
      <4>. HIDE DEF bytes, index, ix, n, mem
      <4>. QED BY <2>2
    <3>2. blk.mem = bytes(mem)
      <4>. HIDE DEF bytes, index, ix, n, mem
      <4>. QED BY <1>1, <3>1
    <3>. QED BY <3>2
  <2>4. mem2 = bytes(mem2)
    <3>1. ASSUME NEW o \in 1 .. BlockSize, ~ (o <= top)
          PROVE  mem2[o] = ZeroByte
      <4>1. ix[i].off \in Int /\ Below(ix, i) \in Nat /\ ix[i].off <= top
        BY <1>2, <1>4, <2>1
      <4>2. o \notin Below(ix, i) + 1 .. ix[i].off
        <5>. HIDE DEF top, ix
        <5>. QED BY <1>1, <2>1, <3>1, <4>1
      <4>3. mem[o] = ZeroByte
        <5>1. bytes(mem)[o] = ZeroByte
          BY <3>1
        <5>. HIDE DEF mem, bytes
        <5>. QED BY <2>3, <5>1
      <4>. QED BY <4>2, <4>3
    <3>2. mem2 = [o \in 1 .. BlockSize |-> mem2[o]]
      OBVIOUS
    <3>. HIDE DEF mem2, top
    <3>. QED BY <3>1, <3>2
  <2>5. blk = [numItems |-> n, space |-> FreeSpace(n, top), index |-> index, mem |-> bytes(mem)]
    <3>. HIDE DEF bytes, index, ix, n, mem, top
    <3>. QED BY <1>1, <2>2
  <2>6. r = [numItems |-> n, space |-> FreeSpace(n, top), index |-> index, mem |-> mem2]
    <3>1. \A a, b, c, d, e : [[numItems |-> a, space |-> b, index |-> c, mem |-> d] EXCEPT !.mem = e]
                               = [numItems |-> a, space |-> b, index |-> c, mem |-> e]
      OBVIOUS
    <3>. HIDE DEF bytes, index, ix, n, mem, mem2, top, r
    <3>. QED BY <1>6, <2>5, <3>1
  <2>7. Sealed(ix, n, mem2) = [numItems |-> n, space |-> FreeSpace(n, top),
                               index |-> index, mem |-> bytes(mem2)]
    <3>. HIDE DEF bytes, index, ix, n, mem, mem2, top
    <3>. QED BY <2>2
  <2>. HIDE DEF bytes, index, ix, n, mem, mem2, top, r
  <2>. QED BY <2>4, <2>6, <2>7
<1>8. Sound(r) /\ Holds(r) = Held(ix, n, mem2)
  <2>. HIDE DEF ix, n, mem, mem2, r
  <2>. QED BY <1>1, <1>7, SealedSound, SealedHolds
<1>9. size = Len(p) /\ size \in Nat /\ p = [k \in 1 .. size |-> p[k]]
  <2>1. ItemSize(blk, i) = size
    BY DEF ItemSize, OffsetBelow, Below
  <2>2. size = Len(p)
    BY <2>1
  <2>3. size \in Nat
    BY <1>2, <1>4
  <2>4. p = [k \in 1 .. Len(p) |-> p[k]]
    BY DEF RecordFileAssumption
  <2>. HIDE DEF size
  <2>. QED BY <2>2, <2>3, <2>4
<1>10. \A o \in 1 .. BlockSize : mem2[o] = IF o \in Below(ix, i) + 1 .. ix[i].off
                                         THEN p[ix[i].off - o + 1] ELSE mem[o]
  OBVIOUS
<1>. HIDE DEF n, ix, mem, mem2
<1>11. Bytes(ix, mem2, i) = p
  <2>0. ix[i].off \in Int /\ Below(ix, i) \in Nat /\ ix[i].off <= BlockSize
    BY <1>1, <1>2, <1>4, <1>5
  <2>1. ASSUME NEW k \in 1 .. size
        PROVE  mem2[ix[i].off - k + 1] = p[k]
    <3>. DEFINE at == ix[i].off - k + 1
    <3>1. at \in Nat /\ at \in Below(ix, i) + 1 .. ix[i].off
      BY <2>0, ByteInSlot
    <3>2. at \in 1 .. BlockSize
      <4>. HIDE DEF at
      <4>. QED BY <1>5, <2>0, <3>1
    <3>3. mem2[at] = p[ix[i].off - at + 1]
      <4>. HIDE DEF at
      <4>. QED BY <1>10, <3>1, <3>2
    <3>4. ix[i].off - at + 1 = k
      BY <2>0, ByteIndex
    <3>. HIDE DEF at
    <3>5. mem2[at] = p[k]
      BY <3>3, <3>4
    <3>. QED BY <3>5 DEF at
  <2>2. Bytes(ix, mem2, i) = [k \in 1 .. size |-> p[k]]
    BY <2>1 DEF Bytes
  <2>. QED BY <1>9, <2>2
<1>12. ASSUME NEW j \in 0 .. n - 1, j # i
       PROVE  Bytes(ix, mem2, j) = Bytes(ix, mem, j)
  <2>0. ix[j].off \in Int /\ Below(ix, j) \in Nat /\ ix[j].off <= BlockSize
    BY <1>1, <1>4, <1>5
  <2>1. ASSUME NEW k \in 1 .. ix[j].off - Below(ix, j)
        PROVE  mem2[ix[j].off - k + 1] = mem[ix[j].off - k + 1]
    <3>. DEFINE at == ix[j].off - k + 1
    <3>1. at \in Nat /\ at \in Below(ix, j) + 1 .. ix[j].off
      BY <2>0, ByteInSlot
    <3>2. at \in 1 .. BlockSize
      <4>. HIDE DEF at
      <4>. QED BY <1>5, <2>0, <3>1
    <3>3. at \notin Below(ix, i) + 1 .. ix[i].off
      <4>. HIDE DEF at
      <4>. QED BY <1>1, <1>2, <1>12, <3>1, SlotsApart
    <3>4. mem2[at] = mem[at]
      <4>. HIDE DEF at
      <4>. QED BY <1>10, <3>2, <3>3
    <3>. QED BY <3>4
  <2>. QED BY <2>1 DEF Bytes
<1>13. Held(ix, n, mem2) = [Held(ix, n, mem) EXCEPT ![i] = {p}]
  <2>1. \A j \in Slots : Held(ix, n, mem2)[j] = IF j = i THEN {p} ELSE Held(ix, n, mem)[j]
    BY <1>2, <1>11, <1>12 DEF Held
  <2>2. Held(ix, n, mem2) = [j \in Slots |-> Held(ix, n, mem2)[j]]
    BY DEF Held
  <2>3. [Held(ix, n, mem) EXCEPT ![i] = {p}] = [j \in Slots |-> IF j = i THEN {p} ELSE Held(ix, n, mem)[j]]
    BY DEF Held
  <2>. QED BY <2>1, <2>2, <2>3
<1>14. Loaded(r) = Loaded(blk)
  <2>1. r.numItems = n /\ r.space = FreeSpace(n, Below(ix, n))
    BY <1>1, <1>7, SealedFields
  <2>2. blk.numItems = n /\ blk.space = FreeSpace(n, Below(ix, n))
    BY SoundFields DEF n, ix
  <2>. HIDE DEF r
  <2>. QED BY <2>1, <2>2 DEF Loaded
<1>15. Holds(r) = [Holds(blk) EXCEPT ![i] = {p}]
  <2>. HIDE DEF r
  <2>. QED BY <1>1, <1>8, <1>13
<1>. QED
  BY <1>3, <1>8, <1>14, <1>15

(* A block that was just initialised holds nothing and has room for all.    *)
LEMMA NewBlockSound ==
  ASSUME RecordFileAssumption
  PROVE  /\ Sound(InitNewBlock) /\ InitNewBlock.numItems = 0
         /\ InitNewBlock.space = MaxDataSize
         /\ Holds(InitNewBlock) = [i \in Slots |-> {}]
<1>. DEFINE mem == [o \in 1 .. BlockSize |-> ZeroByte]
<1>1. Ordered(<<>>, 0)
  BY DEF Ordered, Below
<1>2. Below(<<>>, 0) = 0
  BY DEF Below
<1>3. Fits(0, 0)
  BY ConstantsAreNat DEF Fits
<1>4. 0 \in 0 .. MaxRecords
  <2>1. 0 * IndexSize + 0 * WordSize <= BlockSize
    BY ConstantsAreNat
  <2>. QED BY <2>1, RecordsFit
<1>5. /\ Sound(Sealed(<<>>, 0, mem)) /\ Holds(Sealed(<<>>, 0, mem)) = Held(<<>>, 0, mem)
  <2>. HIDE DEF mem
  <2>. QED BY <1>1, <1>2, <1>3, <1>4, SealedSound, SealedHolds
<1>6. Held(<<>>, 0, mem) = [i \in Slots |-> {}]
  <2>1. \A i : i \notin 0 .. 0 - 1
    OBVIOUS
  <2>. HIDE DEF mem
  <2>. QED BY <2>1 DEF Held
<1>7. FreeSpace(0, 0) = MaxDataSize
  <2>. DEFINE room == BlockSize - HeaderSize - (0 + 1) * IndexSize - Margin - 0
  <2>1. room = MaxDataSize /\ room \in Nat
    BY ConstantsAreNat DEF MaxDataSize
  <2>2. Max({0, room}) = IF room < 0 THEN 0 ELSE room
    <3>. HIDE DEF room
    <3>. QED BY <2>1, MaxWithZero
  <2>3. FreeSpace(0, 0) = Max({0, room})
    BY DEF FreeSpace
  <2>. HIDE DEF room
  <2>. QED BY <2>1, <2>2, <2>3
<1>8. Sealed(<<>>, 0, mem).numItems = 0 /\ Sealed(<<>>, 0, mem).space = FreeSpace(0, 0)
  BY <1>2, SealedFields
<1>. QED
  BY <1>5, <1>6, <1>7, <1>8 DEF InitNewBlock

(* A sound block passes the test that Open applies to the first one.        *)
LEMMA SoundIsValid ==
  ASSUME RecordFileAssumption, NEW blk, Sound(blk)
  PROVE  /\ IsClassValid(blk, blk.numItems, blk.space) /\ IndexClearOfData(blk)
         /\ DOMAIN blk.index = 0 .. blk.numItems
         /\ \A i \in DOMAIN blk.index : blk.index[i].off \in -1 .. BlockSize
         /\ blk.space \in 0 .. MaxDataSize
<1>. DEFINE n == blk.numItems
            ix == blk.index
            top == Below(ix, n)
<1>0. /\ BlockSize \in Nat /\ HeaderSize \in Nat /\ Margin \in Nat /\ IndexSize \in Nat \ {0}
      /\ WordSize \in Nat \ {0} /\ MaxDataSize \in Nat /\ MaxRecords \in Int
  BY ConstantsAreNat
<1>1. /\ n \in Nat /\ n \in 0 .. MaxRecords /\ top \in Nat
      /\ blk.space = FreeSpace(n, top) /\ Ordered(ix, n) /\ Fits(n, top)
  BY SoundFields DEF Sound
<1>2. DOMAIN ix = 0 .. n /\ ix[n] = Guard
  <2>1. DOMAIN Sealed(ix, n, blk.mem).index = 0 .. n /\ Sealed(ix, n, blk.mem).index[n] = Guard
    BY <1>1, SealedFields
  <2>2. blk = Sealed(ix, n, blk.mem)
    BY DEF Sound
  <2>. QED BY <2>1, <2>2
<1>3. \A i : OffsetBelow(blk, i) = Below(ix, i)
  BY DEF OffsetBelow, Below
<1>4. (n + 1) * IndexSize \in Nat /\ n * IndexSize \in Nat
      /\ (n + 1) * IndexSize = n * IndexSize + IndexSize
  BY <1>0, <1>1
<1>5. HeaderSize + (n + 1) * IndexSize + top <= BlockSize
  BY <1>1 DEF Fits
<1>6. top <= BlockSize
  <2>. HIDE DEF n, top
  <2>. QED BY <1>0, <1>1, <1>4, <1>5
<1>7. \A i \in 0 .. n - 1 :
        /\ ix[i].off \in Int /\ Below(ix, i) \in Nat /\ Below(ix, i) <= ix[i].off /\ ix[i].off <= top
  BY <1>1, BytesBelowTop
<1>8. blk.space \in 0 .. MaxDataSize
  <2>. DEFINE room == BlockSize - HeaderSize - (n + 1) * IndexSize - Margin - top
  <2>1. FreeSpace(n, top) = Max({0, room})
    BY DEF FreeSpace
  <2>2. room \in Int /\ room <= MaxDataSize
    <3>1. MaxDataSize = BlockSize - IndexSize - HeaderSize - Margin
      BY DEF MaxDataSize
    <3>. HIDE DEF n, top
    <3>. QED BY <1>0, <1>1, <1>4, <3>1
  <2>. HIDE DEF room
  <2>3. Max({0, room}) = IF room < 0 THEN 0 ELSE room
    BY <2>2, MaxWithZero
  <2>4. Max({0, room}) \in 0 .. MaxDataSize
    BY <1>0, <2>2, <2>3
  <2>. QED BY <1>1, <2>1, <2>4
<1>9. \A i \in 0 .. n : ix[i].off \in -1 .. BlockSize
  <2>1. ix[n].off = -1
    BY <1>2 DEF Guard
  <2>2. ASSUME NEW i \in 0 .. n - 1 PROVE ix[i].off \in -1 .. BlockSize
    <3>1. ix[i].off \in Int /\ Below(ix, i) \in Nat /\ Below(ix, i) <= ix[i].off /\ ix[i].off <= top
      BY <1>7
    <3>. HIDE DEF n, ix, top
    <3>. QED BY <1>0, <1>1, <1>6, <3>1
  <2>3. \A i \in 0 .. n : i = n \/ i \in 0 .. n - 1
    BY <1>1
  <2>4. -1 \in -1 .. BlockSize
    BY <1>0
  <2>. QED BY <2>1, <2>2, <2>3, <2>4
<1>10. IsClassValid(blk, n, blk.space)
  <2>1. n # 0 => ix[n - 1].used /\ ix[n - 1].off # -1
    <3>1. n # 0 => n - 1 \in 0 .. n - 1
      BY <1>1
    <3>2. n # 0 => ix[n - 1].used
      BY <1>1 DEF Ordered
    <3>3. n # 0 => ix[n - 1].off \in Nat
      BY <1>7, <3>1
    <3>. QED BY <3>2, <3>3
  <2>2. \A i \in 0 .. n - 1 : ix[i].off >= OffsetBelow(blk, i)
    BY <1>3, <1>7
  <2>3. ix[n].off = -1
    BY <1>2 DEF Guard
  <2>4. HeaderSize + n * IndexSize < BlockSize - TopOffset(blk, n)
    <3>1. TopOffset(blk, n) = top
      BY <1>3 DEF TopOffset
    <3>. HIDE DEF n, top
    <3>. QED BY <1>0, <1>1, <1>4, <1>5, <3>1
  <2>. QED BY <1>1, <1>8, <2>1, <2>2, <2>3, <2>4 DEF IsClassValid
<1>11. IndexClearOfData(blk)
  <2>1. TopOffset(blk, n) = top
    BY <1>3 DEF TopOffset
  <2>2. HeaderSize + (n + 1) * IndexSize <= BlockSize - top
    <3>. HIDE DEF n, top
    <3>. QED BY <1>0, <1>1, <1>4, <1>5
  <2>. QED BY <2>1, <2>2 DEF IndexClearOfData
<1>. QED
  BY <1>2, <1>8, <1>9, <1>10, <1>11

(* A block that could not be paged in has no room and holds nothing.        *)
LEMMA BlankBlockHoldsNothing ==
  /\ Holds(BlankBlock) = [i \in Slots |-> {}]
  /\ BlankBlock.space = 0 /\ BlankBlock.numItems = 0
  /\ \A i : ~ IsItemValid(BlankBlock, BlankBlock.numItems, i)
<1>1. BlankBlock.numItems = 0 /\ BlankBlock.space = 0
  BY DEF BlankBlock
<1>2. \A i : ~ IsItemValid(BlankBlock, 0, i)
  BY DEF IsItemValid
<1>. QED
  BY <1>1, <1>2 DEF Holds

-----------------------------------------------------------------------------
(* The file.  A step changes what one slot holds, or nothing.               *)

Effect ==
  \/ FileHolds(blocks') = FileHolds(blocks)
  \/ \E b \in 0 .. MaxRecordBlocks - 1, i \in Slots, v \in Cells :
       FileHolds(blocks') = [FileHolds(blocks) EXCEPT ![b] = [@ EXCEPT ![i] = v]]

LEMMA OneCount ==
  ASSUME MaxRecordBlocks \in Nat, NEW D, NEW k \in 0 .. MaxRecordBlocks, D = 0 .. k - 1
  PROVE  (CHOOSE j \in 0 .. MaxRecordBlocks : D = 0 .. j - 1) = k
<1>1. ASSUME NEW j \in 0 .. MaxRecordBlocks, D = 0 .. j - 1 PROVE j = k
  <2>1. CASE j < k
    <3>1. j \in 0 .. k - 1 /\ j \notin 0 .. j - 1
      BY <2>1
    <3>. QED BY <1>1, <3>1
  <2>2. CASE k < j
    <3>1. k \in 0 .. j - 1 /\ k \notin 0 .. k - 1
      BY <2>2
    <3>. QED BY <1>1, <3>1
  <2>. QED BY <2>1, <2>2
<1>. QED
  BY <1>1

LEMMA Counted ==
  ASSUME RecordFileAssumption
  PROVE  /\ \A k \in 0 .. MaxRecordBlocks : DOMAIN blocks' = 0 .. k - 1 => NumBlocks' = k
         /\ \A k \in 0 .. MaxRecordBlocks : DOMAIN mvBlocks' = 0 .. k - 1 => NumArrays' = k
<1>1. MaxRecordBlocks \in Nat
  BY ConstantsAreNat
<1>2. ASSUME NEW k \in 0 .. MaxRecordBlocks, DOMAIN blocks' = 0 .. k - 1 PROVE NumBlocks' = k
  BY <1>1, <1>2, OneCount DEF NumBlocks
<1>3. ASSUME NEW k \in 0 .. MaxRecordBlocks, DOMAIN mvBlocks' = 0 .. k - 1 PROVE NumArrays' = k
  BY <1>1, <1>3, OneCount DEF NumArrays
<1>. QED
  BY <1>2, <1>3

(* The object of a block is as the block's header says.                     *)
LEMMA ArrayIsHeader ==
  ASSUME RecordFileInv, NEW b \in DOMAIN mvBlocks
  PROVE  Array(b) = Loaded(blocks[b])
<1>1. mvBlocks[b] = Unloaded \/ mvBlocks[b] = Loaded(blocks[b])
  BY DEF RecordFileInv
<1>2. ~ Unloaded.init /\ Loaded(blocks[b]).init
  BY DEF Unloaded, Loaded
<1>. QED
  BY <1>1, <1>2 DEF Array

(* The invariant after a step, from what the step does.                     *)
LEMMA InvFrom ==
  ASSUME RecordFileAssumption, RecordFileInv, mbOpen' \in BOOLEAN,
         NEW nb \in 0 .. MaxRecordBlocks, NEW na \in 0 .. nb,
         DOMAIN blocks' = 0 .. nb - 1, DOMAIN mvBlocks' = 0 .. na - 1,
         mLastAddedTo' \in -1 .. MaxRecordBlocks - 1,
         IF mbOpen' THEN mLastAddedTo' \in DOMAIN mvBlocks' ELSE na = 0,
         \A b \in DOMAIN blocks' : blocks'[b] = BlankBlock \/ Sound(blocks'[b]),
         mbOpen' => \A b \in DOMAIN blocks' \ DOMAIN mvBlocks' : blocks'[b] = BlankBlock,
         \A b \in DOMAIN mvBlocks' : mvBlocks'[b] \in {Unloaded, Loaded(blocks'[b])},
         Effect
  PROVE  RecordFileInv'
<1>1. NumBlocks' = nb
  BY Counted
<1>2. na \in 0 .. MaxRecordBlocks
  BY ConstantsAreNat
<1>3. NumArrays' = na
  BY <1>2, Counted
<1>4. FileHolds(blocks') \in [0 .. MaxRecordBlocks - 1 -> [Slots -> Cells]]
  <2>1. FileHolds(blocks) \in [0 .. MaxRecordBlocks - 1 -> [Slots -> Cells]]
    BY DEF RecordFileInv
  <2>2. CASE FileHolds(blocks') = FileHolds(blocks)
    BY <2>1, <2>2
  <2>3. CASE \E b \in 0 .. MaxRecordBlocks - 1, i \in Slots, v \in Cells :
               FileHolds(blocks') = [FileHolds(blocks) EXCEPT ![b] = [@ EXCEPT ![i] = v]]
    <3>1. PICK b \in 0 .. MaxRecordBlocks - 1, i \in Slots, v \in Cells :
               FileHolds(blocks') = [FileHolds(blocks) EXCEPT ![b] = [@ EXCEPT ![i] = v]]
      BY <2>3
    <3>2. [FileHolds(blocks)[b] EXCEPT ![i] = v] \in [Slots -> Cells]
      BY <2>1
    <3>. QED BY <2>1, <3>1, <3>2
  <2>. QED BY <2>2, <2>3 DEF Effect
<1>. QED
  BY <1>1, <1>3, <1>4 DEF RecordFileInv

LEMMA OpenKeeps ==
  RecordFileAssumption /\ RecordFileInv /\ OpenRecordFile => RecordFileInv' /\ Effect
<1>. SUFFICES ASSUME RecordFileAssumption, RecordFileInv, OpenRecordFile PROVE RecordFileInv' /\ Effect
  OBVIOUS
<1>1. mbOpen' = TRUE /\ mLastAddedTo' = 0
  BY DEF OpenRecordFile
<1>2. MaxRecordBlocks \in Nat /\ 0 \in 0 .. MaxRecordBlocks - 1 /\ 1 \in 0 .. MaxRecordBlocks /\ 0 \in -1 .. MaxRecordBlocks - 1
  BY ConstantsAreNat
<1>3. CASE DOMAIN blocks = {}
  <2>1. blocks' = [b \in {0} |-> InitNewBlock] /\ mvBlocks' = [b \in {0} |-> Loaded(InitNewBlock)]
    BY <1>3 DEF OpenRecordFile
  <2>2. DOMAIN blocks' = {0} /\ DOMAIN mvBlocks' = {0} /\ blocks'[0] = InitNewBlock
        /\ mvBlocks'[0] = Loaded(InitNewBlock)
    BY <2>1
  <2>3. {0} = 0 .. 1 - 1 /\ 1 \in 0 .. 1
    OBVIOUS
  <2>4. FileHolds(blocks') = FileHolds(blocks)
    BY <1>3, <2>2, NewBlockSound DEF FileHolds
  <2>5. Effect
    BY <2>4 DEF Effect
  <2>6. Sound(blocks'[0])
    BY <2>2, NewBlockSound
  <2>. QED BY <1>1, <1>2, <2>2, <2>3, <2>5, <2>6, InvFrom
<1>4. CASE DOMAIN blocks # {}
  <2>1. blocks' = blocks /\ mvBlocks' = [b \in DOMAIN blocks |-> IF b = 0 THEN Loaded(blocks[0]) ELSE Unloaded]
    BY <1>4 DEF OpenRecordFile
  <2>2. NumBlocks \in 0 .. MaxRecordBlocks /\ DOMAIN blocks = 0 .. NumBlocks - 1
    BY DEF RecordFileInv
  <2>3. NumBlocks \in 0 .. NumBlocks /\ 0 \in DOMAIN blocks
    BY <1>4, <2>2
  <2>4. Effect
    BY <2>1 DEF Effect
  <2>5. \A b \in DOMAIN blocks' : blocks'[b] = BlankBlock \/ Sound(blocks'[b])
    BY <2>1 DEF RecordFileInv
  <2>6. DOMAIN blocks' = 0 .. NumBlocks - 1 /\ DOMAIN mvBlocks' = 0 .. NumBlocks - 1
    BY <2>1, <2>2
  <2>7. \A b \in DOMAIN mvBlocks' : mvBlocks'[b] \in {Unloaded, Loaded(blocks'[b])}
    BY <2>1
  <2>8. mLastAddedTo' \in DOMAIN mvBlocks' /\ DOMAIN blocks' \ DOMAIN mvBlocks' = {}
    BY <1>1, <2>1, <2>3
  <2>. QED BY <1>1, <1>2, <2>2, <2>3, <2>4, <2>5, <2>6, <2>7, <2>8, InvFrom
<1>. QED
  BY <1>3, <1>4

LEMMA CloseKeeps ==
  RecordFileAssumption /\ RecordFileInv /\ CloseRecordFile => RecordFileInv' /\ Effect
<1>. SUFFICES ASSUME RecordFileAssumption, RecordFileInv, CloseRecordFile PROVE RecordFileInv' /\ Effect
  OBVIOUS
<1>1. mbOpen' = FALSE /\ mLastAddedTo' = -1 /\ blocks' = blocks /\ mvBlocks' = <<>>
  BY DEF CloseRecordFile
<1>2. -1 \in -1 .. MaxRecordBlocks - 1
  BY ConstantsAreNat
<1>3. DOMAIN mvBlocks' = {} /\ DOMAIN mvBlocks' = 0 .. 0 - 1
  BY <1>1
<1>4. NumBlocks \in 0 .. MaxRecordBlocks /\ DOMAIN blocks' = 0 .. NumBlocks - 1
      /\ \A b \in DOMAIN blocks' : blocks'[b] = BlankBlock \/ Sound(blocks'[b])
  BY <1>1 DEF RecordFileInv
<1>5. 0 \in 0 .. NumBlocks
  BY <1>4
<1>6. Effect
  BY <1>1 DEF Effect
<1>. QED BY <1>1, <1>2, <1>3, <1>4, <1>5, <1>6, InvFrom

(* One block of the file becomes another that differs in one slot.          *)
LEMMA OneBlockChanged ==
  ASSUME RecordFileAssumption, RecordFileInv, NEW b \in DOMAIN blocks, NEW blk, Sound(blk),
         NEW i \in Slots, NEW v \in Cells, Holds(blk) = [Holds(blocks[b]) EXCEPT ![i] = v],
         blocks' = [blocks EXCEPT ![b] = blk]
  PROVE  /\ Effect /\ DOMAIN blocks' = DOMAIN blocks /\ blocks'[b] = blk
         /\ \A c \in DOMAIN blocks : c # b => blocks'[c] = blocks[c]
         /\ \A c \in DOMAIN blocks' : blocks'[c] = BlankBlock \/ Sound(blocks'[c])
<1>1. DOMAIN blocks' = DOMAIN blocks /\ blocks'[b] = blk
      /\ \A c \in DOMAIN blocks : c # b => blocks'[c] = blocks[c]
  OBVIOUS
<1>2. \A c \in DOMAIN blocks' : blocks'[c] = BlankBlock \/ Sound(blocks'[c])
  BY <1>1 DEF RecordFileInv
<1>3. b \in 0 .. MaxRecordBlocks - 1
  <2>1. NumBlocks \in 0 .. MaxRecordBlocks /\ DOMAIN blocks = 0 .. NumBlocks - 1
    BY DEF RecordFileInv
  <2>2. MaxRecordBlocks \in Nat
    BY ConstantsAreNat
  <2>3. b \in 0 .. NumBlocks - 1
    BY <2>1
  <2>. QED BY <2>1, <2>2, <2>3
<1>4. FileHolds(blocks') = [FileHolds(blocks) EXCEPT ![b] = [@ EXCEPT ![i] = v]]
  <2>1. ASSUME NEW c \in 0 .. MaxRecordBlocks - 1
        PROVE  FileHolds(blocks')[c] = IF c = b THEN [Holds(blocks[b]) EXCEPT ![i] = v] ELSE FileHolds(blocks)[c]
    BY <1>1 DEF FileHolds
  <2>2. FileHolds(blocks)[b] = Holds(blocks[b])
    BY <1>3 DEF FileHolds
  <2>3. FileHolds(blocks') = [c \in 0 .. MaxRecordBlocks - 1 |-> FileHolds(blocks')[c]]
    BY DEF FileHolds
  <2>4. [FileHolds(blocks) EXCEPT ![b] = [@ EXCEPT ![i] = v]]
          = [c \in 0 .. MaxRecordBlocks - 1 |-> IF c = b THEN [FileHolds(blocks)[b] EXCEPT ![i] = v]
                                         ELSE FileHolds(blocks)[c]]
    BY DEF FileHolds
  <2>. QED BY <2>1, <2>2, <2>3, <2>4
<1>5. Effect
  <2>1. \E c \in 0 .. MaxRecordBlocks - 1, k \in Slots, w \in Cells :
          FileHolds(blocks') = [FileHolds(blocks) EXCEPT ![c] = [@ EXCEPT ![k] = w]]
    <3>. WITNESS b \in 0 .. MaxRecordBlocks - 1, i \in Slots, v \in Cells
    <3>. QED BY <1>4
  <2>. QED BY <2>1 DEF Effect
<1>. QED
  BY <1>1, <1>2, <1>5

(* Where there is room there is a sound block.                              *)
LEMMA RoomIsSound ==
  ASSUME RecordFileAssumption, RecordFileInv, NEW p \in Payload,
         NEW b \in DOMAIN mvBlocks, HasRoom(b, p)
  PROVE  b \in DOMAIN blocks /\ Sound(blocks[b]) /\ blocks[b].space >= Len(p)
         /\ Array(b).numItems = blocks[b].numItems
<1>1. b \in DOMAIN blocks
  BY DEF RecordFileInv
<1>2. Array(b) = Loaded(blocks[b])
  BY ArrayIsHeader
<1>3. blocks[b].space >= Len(p) /\ Array(b).numItems = blocks[b].numItems
  BY <1>2 DEF HasRoom, Loaded
<1>4. Len(p) \in Nat /\ Len(p) >= 1
  BY ConstantsAreNat DEF RecordFileAssumption
<1>5. blocks[b] # BlankBlock
  <2>1. blocks[b] = BlankBlock => blocks[b].space = 0
    BY BlankBlockHoldsNothing
  <2>. QED BY <1>3, <1>4, <2>1
<1>. QED
  BY <1>1, <1>3, <1>5 DEF RecordFileInv

LEMMA RoomFound ==
  ASSUME RecordFileInv, mbOpen, NEW p \in Payload, RoomExists(p)
  PROVE  RoomFor(p) \in DOMAIN mvBlocks /\ HasRoom(RoomFor(p), p)
<1>1. CASE HasRoom(mLastAddedTo, p)
  BY <1>1 DEF RoomFor, RecordFileInv
<1>2. CASE ~ HasRoom(mLastAddedTo, p)
  <2>. DEFINE S == {b \in DOMAIN mvBlocks : HasRoom(b, p)}
  <2>1. S \in SUBSET Nat /\ S # {}
    BY DEF RecordFileInv, RoomExists
  <2>2. Min(S) \in S /\ \A k \in S : Min(S) <= k
    <3>. HIDE DEF S
    <3>. QED BY <2>1, LeastOf
  <2>3. \A c \in DOMAIN mvBlocks : c < Min(S) => ~ HasRoom(c, p)
    <3>1. \A c \in DOMAIN mvBlocks : c \in Int
      BY DEF RecordFileInv
    <3>2. Min(S) \in Int
      BY <2>2, <3>1
    <3>. QED BY <2>2, <3>1, <3>2
  <2>4. FirstWithRoom(p) \in DOMAIN mvBlocks /\ HasRoom(FirstWithRoom(p), p)
    <3>1. \E b \in DOMAIN mvBlocks : HasRoom(b, p) /\ \A c \in DOMAIN mvBlocks : c < b => ~ HasRoom(c, p)
      BY <2>2, <2>3
    <3>. QED BY <3>1 DEF FirstWithRoom
  <2>. QED BY <1>2, <2>4 DEF RoomFor
<1>. QED
  BY <1>1, <1>2

(* The objects that were looked at are loaded.                              *)
LEMMA SearchedArrays ==
  ASSUME RecordFileInv, NEW p
  PROVE  /\ DOMAIN Searched(p) = DOMAIN mvBlocks
         /\ \A c \in DOMAIN mvBlocks : Searched(p)[c] \in {Unloaded, Loaded(blocks[c])}
<1>1. ASSUME NEW c \in DOMAIN mvBlocks
      PROVE  Searched(p)[c] = Array(c) \/ Searched(p)[c] = mvBlocks[c]
  BY DEF Searched
<1>2. \A c \in DOMAIN mvBlocks : Array(c) = Loaded(blocks[c]) /\ mvBlocks[c] \in {Unloaded, Loaded(blocks[c])}
  BY ArrayIsHeader DEF RecordFileInv
<1>. QED
  BY <1>1, <1>2 DEF Searched

LEMMA AddItemWhereRoomKeeps ==
  ASSUME RecordFileAssumption, RecordFileInv, NEW p \in Payload, AddItemWhereRoom(p)
  PROVE  RecordFileInv' /\ Effect
<1>. DEFINE b == RoomFor(p)
            blk == AddItem(blocks[b], Array(b).numItems, p)
<1>1. /\ mbOpen /\ mbOpen' = mbOpen /\ RoomExists(p)
      /\ blocks' = [blocks EXCEPT ![b] = blk]
      /\ mvBlocks' = [Searched(p) EXCEPT ![b] = Loaded(blk)]
      /\ mLastAddedTo' = b
  BY DEF AddItemWhereRoom
<1>2. b \in DOMAIN mvBlocks /\ HasRoom(b, p)
  BY <1>1, RoomFound
<1>3. b \in DOMAIN blocks /\ Sound(blocks[b]) /\ blocks[b].space >= Len(p)
      /\ Array(b).numItems = blocks[b].numItems
  <2>. HIDE DEF b
  <2>. QED BY <1>2, RoomIsSound
<1>4. /\ Sound(blk)
      /\ \E s \in Slots : Holds(blocks[b])[s] = {} /\ Holds(blk) = [Holds(blocks[b]) EXCEPT ![s] = {p}]
  <2>. HIDE DEF b
  <2>. QED BY <1>3, ItemAdded
<1>5. PICK s \in Slots : Holds(blk) = [Holds(blocks[b]) EXCEPT ![s] = {p}]
  BY <1>4
<1>6. {p} \in Cells
  BY DEF Cells
<1>. HIDE DEF b, blk
<1>7. /\ Effect /\ DOMAIN blocks' = DOMAIN blocks /\ blocks'[b] = blk
      /\ \A c \in DOMAIN blocks : c # b => blocks'[c] = blocks[c]
      /\ \A c \in DOMAIN blocks' : blocks'[c] = BlankBlock \/ Sound(blocks'[c])
  BY <1>1, <1>3, <1>4, <1>5, <1>6, OneBlockChanged
<1>8. /\ NumBlocks \in 0 .. MaxRecordBlocks /\ DOMAIN blocks = 0 .. NumBlocks - 1
      /\ NumArrays \in 0 .. NumBlocks /\ DOMAIN mvBlocks = 0 .. NumArrays - 1
      /\ \A c \in DOMAIN blocks \ DOMAIN mvBlocks : blocks[c] = BlankBlock
      /\ mbOpen' \in BOOLEAN
  BY <1>1 DEF RecordFileInv
<1>9. DOMAIN mvBlocks' = DOMAIN mvBlocks /\ mLastAddedTo' \in DOMAIN mvBlocks'
  BY <1>1, <1>2, SearchedArrays
<1>10. ASSUME NEW c \in DOMAIN mvBlocks'
       PROVE  mvBlocks'[c] \in {Unloaded, Loaded(blocks'[c])}
  <2>1. CASE c = b
    BY <1>1, <1>2, <1>7, <2>1, SearchedArrays
  <2>2. CASE c # b
    <3>1. mvBlocks'[c] = Searched(p)[c] /\ c \in DOMAIN mvBlocks /\ c \in DOMAIN blocks
      BY <1>1, <1>8, <1>9, <2>2, SearchedArrays
    <3>2. Searched(p)[c] \in {Unloaded, Loaded(blocks[c])}
      BY <3>1, SearchedArrays
    <3>. QED BY <1>7, <2>2, <3>1, <3>2
  <2>. QED BY <2>1, <2>2
<1>11. \A c \in DOMAIN blocks' \ DOMAIN mvBlocks' : blocks'[c] = BlankBlock
  BY <1>2, <1>7, <1>8, <1>9
<1>12. mLastAddedTo' \in -1 .. MaxRecordBlocks - 1
  BY <1>1, <1>2, <1>8, ConstantsAreNat
<1>13. DOMAIN blocks' = 0 .. NumBlocks - 1 /\ DOMAIN mvBlocks' = 0 .. NumArrays - 1
  BY <1>7, <1>8, <1>9
<1>. QED
  BY <1>1, <1>7, <1>8, <1>9, <1>10, <1>11, <1>12, <1>13, InvFrom

(* The file grows by a block that is zero: it holds nothing.                *)
LEMMA GrownFileHolds ==
  ASSUME RecordFileAssumption, RecordFileInv, NumBlocks < MaxRecordBlocks, NEW bs,
         bs = [b \in 0 .. NumBlocks |-> IF b = NumBlocks THEN BlankBlock ELSE blocks[b]]
  PROVE  /\ FileHolds(bs) = FileHolds(blocks)
         /\ NumBlocks + 1 \in 0 .. MaxRecordBlocks /\ DOMAIN bs = 0 .. (NumBlocks + 1) - 1
         /\ \A b \in DOMAIN bs : bs[b] = BlankBlock \/ Sound(bs[b])
         /\ \A b \in DOMAIN blocks : b \in DOMAIN bs /\ bs[b] = blocks[b]
         /\ \A b \in DOMAIN bs : b \notin DOMAIN blocks => bs[b] = BlankBlock
<1>1. NumBlocks \in 0 .. MaxRecordBlocks /\ DOMAIN blocks = 0 .. NumBlocks - 1 /\ MaxRecordBlocks \in Nat
  BY ConstantsAreNat DEF RecordFileInv
<1>2. NumBlocks + 1 \in 0 .. MaxRecordBlocks /\ DOMAIN bs = 0 .. (NumBlocks + 1) - 1
  BY <1>1
<1>3. \A b \in DOMAIN bs : b = NumBlocks \/ b \in DOMAIN blocks
  BY <1>1
<1>4. /\ \A b \in DOMAIN blocks : b \in DOMAIN bs /\ bs[b] = blocks[b]
      /\ NumBlocks \notin DOMAIN blocks /\ bs[NumBlocks] = BlankBlock
  BY <1>1
<1>5. \A b \in DOMAIN bs : bs[b] = BlankBlock \/ Sound(bs[b])
  BY <1>3, <1>4 DEF RecordFileInv
<1>6. FileHolds(bs) = FileHolds(blocks)
  <2>1. ASSUME NEW b \in 0 .. MaxRecordBlocks - 1
        PROVE  FileHolds(bs)[b] = FileHolds(blocks)[b]
    <3>1. CASE b \in DOMAIN blocks
      BY <1>4, <3>1 DEF FileHolds
    <3>2. CASE b \notin DOMAIN blocks
      <4>1. b \in DOMAIN bs => bs[b] = BlankBlock
        BY <1>3, <1>4, <3>2
      <4>. QED BY <3>2, <4>1, BlankBlockHoldsNothing DEF FileHolds
    <3>. QED BY <3>1, <3>2
  <2>2. FileHolds(bs) = [b \in 0 .. MaxRecordBlocks - 1 |-> FileHolds(bs)[b]]
        /\ FileHolds(blocks) = [b \in 0 .. MaxRecordBlocks - 1 |-> FileHolds(blocks)[b]]
    BY DEF FileHolds
  <2>. QED BY <2>1, <2>2
<1>. QED
  BY <1>2, <1>3, <1>4, <1>5, <1>6

LEMMA AddItemFailsKeeps ==
  ASSUME RecordFileAssumption, RecordFileInv, NEW p \in Payload, AddItemFails(p)
  PROVE  RecordFileInv' /\ Effect
<1>1. /\ mbOpen /\ mbOpen' = mbOpen /\ mLastAddedTo' = mLastAddedTo /\ NumBlocks < MaxRecordBlocks
      /\ blocks' = [b \in 0 .. NumBlocks |-> IF b = NumBlocks THEN BlankBlock ELSE blocks[b]]
      /\ mvBlocks' = Searched(p)
  BY DEF AddItemFails
<1>2. /\ FileHolds(blocks') = FileHolds(blocks)
      /\ NumBlocks + 1 \in 0 .. MaxRecordBlocks /\ DOMAIN blocks' = 0 .. (NumBlocks + 1) - 1
      /\ \A b \in DOMAIN blocks' : blocks'[b] = BlankBlock \/ Sound(blocks'[b])
      /\ \A b \in DOMAIN blocks : b \in DOMAIN blocks' /\ blocks'[b] = blocks[b]
      /\ \A b \in DOMAIN blocks' : b \notin DOMAIN blocks => blocks'[b] = BlankBlock
  <2>. DEFINE bs == [b \in 0 .. NumBlocks |-> IF b = NumBlocks THEN BlankBlock ELSE blocks[b]]
  <2>1. /\ FileHolds(bs) = FileHolds(blocks)
        /\ NumBlocks + 1 \in 0 .. MaxRecordBlocks /\ DOMAIN bs = 0 .. (NumBlocks + 1) - 1
        /\ \A b \in DOMAIN bs : bs[b] = BlankBlock \/ Sound(bs[b])
        /\ \A b \in DOMAIN blocks : b \in DOMAIN bs /\ bs[b] = blocks[b]
        /\ \A b \in DOMAIN bs : b \notin DOMAIN blocks => bs[b] = BlankBlock
    BY <1>1, GrownFileHolds
  <2>2. blocks' = bs
    BY <1>1
  <2>. HIDE DEF bs
  <2>. QED BY <2>1, <2>2
<1>3. /\ NumBlocks \in 0 .. MaxRecordBlocks /\ DOMAIN blocks = 0 .. NumBlocks - 1
      /\ NumArrays \in 0 .. NumBlocks /\ DOMAIN mvBlocks = 0 .. NumArrays - 1
      /\ \A c \in DOMAIN blocks \ DOMAIN mvBlocks : blocks[c] = BlankBlock
      /\ mbOpen' \in BOOLEAN /\ mLastAddedTo \in DOMAIN mvBlocks /\ mLastAddedTo \in -1 .. MaxRecordBlocks - 1
  BY <1>1 DEF RecordFileInv
<1>4. DOMAIN mvBlocks' = DOMAIN mvBlocks /\ NumArrays \in 0 .. NumBlocks + 1
      /\ \A c \in DOMAIN mvBlocks : c \in DOMAIN blocks
  BY <1>1, <1>3, SearchedArrays
<1>5. ASSUME NEW c \in DOMAIN mvBlocks'
      PROVE  mvBlocks'[c] \in {Unloaded, Loaded(blocks'[c])}
  BY <1>1, <1>2, <1>4, SearchedArrays
<1>6. \A c \in DOMAIN blocks' \ DOMAIN mvBlocks' : blocks'[c] = BlankBlock
  BY <1>2, <1>3, <1>4
<1>7. Effect
  BY <1>2 DEF Effect
<1>8. DOMAIN mvBlocks' = 0 .. NumArrays - 1 /\ mLastAddedTo' \in DOMAIN mvBlocks'
      /\ mLastAddedTo' \in -1 .. MaxRecordBlocks - 1
  BY <1>1, <1>3, <1>4
<1>. QED
  BY <1>1, <1>2, <1>3, <1>4, <1>5, <1>6, <1>7, <1>8, InvFrom

LEMMA AddItemInNewBlockKeeps ==
  ASSUME RecordFileAssumption, RecordFileInv, NEW p \in Payload, AddItemInNewBlock(p)
  PROVE  RecordFileInv' /\ Effect
<1>. DEFINE bs == [b \in 0 .. NumBlocks |-> IF b = NumBlocks THEN BlankBlock ELSE blocks[b]]
            na == NumArrays
            blk == AddItem(InitNewBlock, 0, p)
<1>1. /\ mbOpen /\ mbOpen' = mbOpen /\ mLastAddedTo' = na /\ NumBlocks < MaxRecordBlocks
      /\ blocks' = [bs EXCEPT ![na] = blk]
      /\ mvBlocks' = [c \in 0 .. na |-> IF c = na THEN Loaded(blk) ELSE Searched(p)[c]]
  BY DEF AddItemInNewBlock, NewArray
<1>2. /\ FileHolds(bs) = FileHolds(blocks)
      /\ NumBlocks + 1 \in 0 .. MaxRecordBlocks /\ DOMAIN bs = 0 .. (NumBlocks + 1) - 1
      /\ \A b \in DOMAIN bs : bs[b] = BlankBlock \/ Sound(bs[b])
      /\ \A b \in DOMAIN blocks : b \in DOMAIN bs /\ bs[b] = blocks[b]
      /\ \A b \in DOMAIN bs : b \notin DOMAIN blocks => bs[b] = BlankBlock
  BY <1>1, GrownFileHolds
<1>3. /\ NumBlocks \in 0 .. MaxRecordBlocks /\ DOMAIN blocks = 0 .. NumBlocks - 1
      /\ na \in 0 .. NumBlocks /\ DOMAIN mvBlocks = 0 .. na - 1
      /\ \A c \in DOMAIN blocks \ DOMAIN mvBlocks : blocks[c] = BlankBlock
      /\ mbOpen' \in BOOLEAN /\ MaxRecordBlocks \in Nat
  BY <1>1, ConstantsAreNat DEF RecordFileInv
<1>4. /\ Sound(blk)
      /\ \E s \in Slots : Holds(blk) = [Holds(InitNewBlock) EXCEPT ![s] = {p}]
  <2>1. InitNewBlock.space >= Len(p)
    BY NewBlockSound, ConstantsAreNat DEF RecordFileAssumption
  <2>2. /\ Sound(AddItem(InitNewBlock, InitNewBlock.numItems, p))
        /\ \E s \in Slots : /\ Holds(InitNewBlock)[s] = {}
                           /\ Holds(AddItem(InitNewBlock, InitNewBlock.numItems, p))
                                = [Holds(InitNewBlock) EXCEPT ![s] = {p}]
    BY <2>1, NewBlockSound, ItemAdded
  <2>. QED BY <2>2, NewBlockSound
<1>5. PICK s \in Slots : Holds(blk) = [Holds(InitNewBlock) EXCEPT ![s] = {p}]
  BY <1>4
<1>. HIDE DEF bs, na, blk
<1>6. /\ na \in DOMAIN bs /\ na \in 0 .. MaxRecordBlocks - 1 /\ na \notin DOMAIN mvBlocks
      /\ na + 1 \in 0 .. NumBlocks + 1 /\ na \in -1 .. MaxRecordBlocks - 1
  BY <1>1, <1>2, <1>3
<1>7. bs[na] = BlankBlock
  BY <1>2, <1>3, <1>6
<1>8. /\ DOMAIN blocks' = DOMAIN bs /\ blocks'[na] = blk
      /\ \A c \in DOMAIN bs : c # na => blocks'[c] = bs[c]
  BY <1>1, <1>6
<1>9. FileHolds(blocks') = [FileHolds(blocks) EXCEPT ![na] = [@ EXCEPT ![s] = {p}]]
  <2>1. FileHolds(bs)[na] = Holds(InitNewBlock)
    BY <1>6, <1>7, BlankBlockHoldsNothing, NewBlockSound DEF FileHolds
  <2>2. ASSUME NEW c \in 0 .. MaxRecordBlocks - 1
        PROVE  FileHolds(blocks')[c] = IF c = na THEN [FileHolds(bs)[na] EXCEPT ![s] = {p}]
                                       ELSE FileHolds(bs)[c]
    BY <1>5, <1>6, <1>8, <2>1 DEF FileHolds
  <2>3. FileHolds(blocks') = [c \in 0 .. MaxRecordBlocks - 1 |-> FileHolds(blocks')[c]]
    BY DEF FileHolds
  <2>4. [FileHolds(bs) EXCEPT ![na] = [@ EXCEPT ![s] = {p}]]
          = [c \in 0 .. MaxRecordBlocks - 1 |-> IF c = na THEN [FileHolds(bs)[na] EXCEPT ![s] = {p}]
                                         ELSE FileHolds(bs)[c]]
    BY DEF FileHolds
  <2>5. FileHolds(blocks') = [FileHolds(bs) EXCEPT ![na] = [@ EXCEPT ![s] = {p}]]
    BY <2>2, <2>3, <2>4
  <2>. QED BY <1>2, <2>5
<1>10. Effect
  <2>1. {p} \in Cells
    BY DEF Cells
  <2>. QED BY <1>6, <1>9, <2>1 DEF Effect
<1>11. \A c \in DOMAIN blocks' : blocks'[c] = BlankBlock \/ Sound(blocks'[c])
  BY <1>2, <1>4, <1>8
<1>12. DOMAIN mvBlocks' = 0 .. na /\ na \in DOMAIN mvBlocks' /\ DOMAIN mvBlocks' = 0 .. (na + 1) - 1
  BY <1>1, <1>3
<1>13. ASSUME NEW c \in DOMAIN mvBlocks'
       PROVE  mvBlocks'[c] \in {Unloaded, Loaded(blocks'[c])}
  <2>1. CASE c = na
    BY <1>1, <1>8, <1>12, <2>1
  <2>2. CASE c # na
    <3>1. c \in DOMAIN mvBlocks /\ c \in DOMAIN blocks
      BY <1>3, <1>12, <2>2
    <3>2. mvBlocks'[c] = Searched(p)[c] /\ Searched(p)[c] \in {Unloaded, Loaded(blocks[c])}
      BY <1>1, <1>12, <2>2, <3>1, SearchedArrays
    <3>3. blocks'[c] = blocks[c]
      BY <1>2, <1>8, <2>2, <3>1
    <3>. QED BY <3>2, <3>3
  <2>. QED BY <2>1, <2>2
<1>14. ASSUME NEW c \in DOMAIN blocks' \ DOMAIN mvBlocks' PROVE blocks'[c] = BlankBlock
  <2>1. c \in DOMAIN bs /\ c # na /\ c \notin DOMAIN mvBlocks
    BY <1>3, <1>8, <1>12, <1>14
  <2>2. bs[c] = BlankBlock
    BY <1>2, <1>3, <2>1
  <2>. QED BY <1>8, <2>1, <2>2
<1>15. DOMAIN blocks' = 0 .. (NumBlocks + 1) - 1
  BY <1>2, <1>8
<1>. QED
  BY <1>1, <1>2, <1>3, <1>6, <1>10, <1>11, <1>12, <1>13, <1>14, <1>15, InvFrom

(* Only an initialised block has a valid slot.                              *)
LEMMA ValidIsSound ==
  ASSUME RecordFileInv, NEW b \in DOMAIN mvBlocks, NEW i, IsValidAddr(b, i)
  PROVE  /\ b \in DOMAIN blocks /\ Sound(blocks[b])
         /\ Array(b) = Loaded(blocks[b]) /\ Array(b).numItems = blocks[b].numItems
         /\ IsItemValid(blocks[b], blocks[b].numItems, i)
<1>1. b \in DOMAIN blocks
  BY DEF IsValidAddr
<1>2. Array(b) = Loaded(blocks[b])
  BY <1>1, ArrayIsHeader
<1>3. Array(b).numItems = blocks[b].numItems
  BY <1>2 DEF Loaded
<1>4. IsItemValid(blocks[b], blocks[b].numItems, i)
  BY <1>3 DEF IsValidAddr
<1>5. blocks[b] # BlankBlock
  BY <1>4, BlankBlockHoldsNothing
<1>. QED
  BY <1>1, <1>2, <1>3, <1>4, <1>5 DEF RecordFileInv

(* Steps that change one block, and its object or that of no block.         *)
LEMMA OneBlockKeeps ==
  ASSUME RecordFileAssumption, RecordFileInv, mbOpen, UNCHANGED <<mbOpen, mLastAddedTo>>,
         NEW b \in DOMAIN mvBlocks, NEW blk, Sound(blk),
         NEW i \in Slots, NEW v \in Cells, Holds(blk) = [Holds(blocks[b]) EXCEPT ![i] = v],
         blocks' = [blocks EXCEPT ![b] = blk],
         mvBlocks' = [mvBlocks EXCEPT ![b] = Loaded(blk)]
  PROVE  RecordFileInv' /\ Effect
<1>1. /\ NumBlocks \in 0 .. MaxRecordBlocks /\ DOMAIN blocks = 0 .. NumBlocks - 1
      /\ NumArrays \in 0 .. NumBlocks /\ DOMAIN mvBlocks = 0 .. NumArrays - 1
      /\ \A c \in DOMAIN blocks \ DOMAIN mvBlocks : blocks[c] = BlankBlock
      /\ mbOpen' \in BOOLEAN /\ mLastAddedTo \in DOMAIN mvBlocks /\ mLastAddedTo \in -1 .. MaxRecordBlocks - 1
      /\ \A c \in DOMAIN mvBlocks : mvBlocks[c] \in {Unloaded, Loaded(blocks[c])}
  BY DEF RecordFileInv
<1>2. b \in DOMAIN blocks
  BY <1>1
<1>3. /\ Effect /\ DOMAIN blocks' = DOMAIN blocks /\ blocks'[b] = blk
      /\ \A c \in DOMAIN blocks : c # b => blocks'[c] = blocks[c]
      /\ \A c \in DOMAIN blocks' : blocks'[c] = BlankBlock \/ Sound(blocks'[c])
  BY <1>2, OneBlockChanged
<1>4. DOMAIN mvBlocks' = DOMAIN mvBlocks
  OBVIOUS
<1>5. ASSUME NEW c \in DOMAIN mvBlocks'
      PROVE  mvBlocks'[c] \in {Unloaded, Loaded(blocks'[c])}
  <2>1. CASE c = b
    BY <1>3, <2>1
  <2>2. CASE c # b
    <3>1. c \in DOMAIN mvBlocks /\ c \in DOMAIN blocks /\ mvBlocks'[c] = mvBlocks[c]
      BY <1>1, <1>4, <2>2
    <3>. QED BY <1>1, <1>3, <2>2, <3>1
  <2>. QED BY <2>1, <2>2
<1>6. \A c \in DOMAIN blocks' \ DOMAIN mvBlocks' : blocks'[c] = BlankBlock
  BY <1>1, <1>3, <1>4
<1>7. /\ DOMAIN blocks' = 0 .. NumBlocks - 1 /\ DOMAIN mvBlocks' = 0 .. NumArrays - 1
      /\ mbOpen' /\ mLastAddedTo' \in DOMAIN mvBlocks' /\ mLastAddedTo' \in -1 .. MaxRecordBlocks - 1
  BY <1>1, <1>3, <1>4
<1>. QED
  BY <1>1, <1>3, <1>5, <1>6, <1>7, InvFrom

LEMMA RemoveItemKeeps ==
  ASSUME RecordFileAssumption, RecordFileInv, NEW b \in DOMAIN mvBlocks, NEW i, RemoveItem(b, i)
  PROVE  RecordFileInv' /\ Effect
<1>. DEFINE blk == DeleteItem(blocks[b], Array(b).numItems, i)
<1>1. /\ mbOpen /\ UNCHANGED <<mbOpen, mLastAddedTo>> /\ IsValidAddr(b, i)
      /\ blocks' = [blocks EXCEPT ![b] = blk] /\ mvBlocks' = [mvBlocks EXCEPT ![b] = Loaded(blk)]
  BY DEF RemoveItem
<1>2. /\ Sound(blocks[b])
      /\ Array(b).numItems = blocks[b].numItems
      /\ IsItemValid(blocks[b], blocks[b].numItems, i)
  BY <1>1, ValidIsSound
<1>3. Sound(blk) /\ i \in Slots /\ Holds(blk) = [Holds(blocks[b]) EXCEPT ![i] = {}]
  BY <1>2, ItemDeleted
<1>4. {} \in Cells
  BY DEF Cells
<1>. HIDE DEF blk
<1>. QED
  BY <1>1, <1>2, <1>3, <1>4, OneBlockKeeps

LEMMA WriteDataKeeps ==
  ASSUME RecordFileAssumption, RecordFileInv, NEW b \in DOMAIN mvBlocks, NEW i, NEW p \in Payload,
         WriteData(b, i, p)
  PROVE  RecordFileInv' /\ Effect
<1>. DEFINE blk == WriteItem(blocks[b], i, p)
<1>1. /\ mbOpen /\ UNCHANGED <<mbOpen, mLastAddedTo>> /\ IsValidAddr(b, i)
      /\ Len(p) = ItemSize(blocks[b], i)
      /\ blocks' = [blocks EXCEPT ![b] = blk] /\ mvBlocks' = [mvBlocks EXCEPT ![b] = Array(b)]
  BY DEF WriteData
<1>2. /\ Sound(blocks[b]) /\ Array(b) = Loaded(blocks[b])
      /\ IsItemValid(blocks[b], blocks[b].numItems, i)
  BY <1>1, ValidIsSound
<1>3. /\ Sound(blk) /\ i \in Slots /\ Holds(blk) = [Holds(blocks[b]) EXCEPT ![i] = {p}]
      /\ Loaded(blk) = Loaded(blocks[b])
  BY <1>1, <1>2, ItemWritten
<1>4. {p} \in Cells
  BY DEF Cells
<1>. HIDE DEF blk
<1>. QED
  BY <1>1, <1>2, <1>3, <1>4, OneBlockKeeps

-----------------------------------------------------------------------------
(* The theorems                                                             *)

LEMMA InitKeeps ==
  ASSUME RecordFileAssumption, RecordFileInit
  PROVE  RecordFileInv /\ FileHolds(blocks) = [b \in 0 .. MaxRecordBlocks - 1 |-> [i \in Slots |-> {}]]
<1>1. DOMAIN blocks = {} /\ DOMAIN mvBlocks = {} /\ {} = 0 .. 0 - 1
  BY DEF RecordFileInit
<1>2. 0 \in 0 .. MaxRecordBlocks /\ MaxRecordBlocks \in Nat /\ 0 \in 0 .. 0 /\ -1 \in -1 .. MaxRecordBlocks - 1
  BY ConstantsAreNat
<1>3. NumBlocks = 0 /\ NumArrays = 0
  <2>1. NumBlocks = 0
    BY <1>1, <1>2, OneCount DEF NumBlocks
  <2>2. NumArrays = 0
    BY <1>1, <1>2, OneCount DEF NumArrays
  <2>. QED BY <2>1, <2>2
<1>4. FileHolds(blocks) = [b \in 0 .. MaxRecordBlocks - 1 |-> [i \in Slots |-> {}]]
  BY <1>1 DEF FileHolds
<1>5. FileHolds(blocks) \in [0 .. MaxRecordBlocks - 1 -> [Slots -> Cells]]
  BY <1>4 DEF Cells
<1>6. mbOpen = FALSE /\ mLastAddedTo = -1
  BY DEF RecordFileInit
<1>. QED
  BY <1>1, <1>2, <1>3, <1>4, <1>5, <1>6 DEF RecordFileInv

LEMMA StepKeeps ==
  ASSUME RecordFileAssumption, RecordFileInv, [RecordFileNext]_recordVars
  PROVE  RecordFileInv' /\ Effect
<1>1. CASE OpenRecordFile
  BY <1>1, OpenKeeps
<1>2. CASE CloseRecordFile
  BY <1>2, CloseKeeps
<1>3. ASSUME NEW p \in Payload, AddItemWhereRoom(p) \/ AddItemInNewBlock(p) \/ AddItemFails(p)
      PROVE  RecordFileInv' /\ Effect
  BY <1>3, AddItemWhereRoomKeeps, AddItemInNewBlockKeeps, AddItemFailsKeeps
<1>4. ASSUME NEW b \in DOMAIN mvBlocks, NEW i \in Slots,
             RemoveItem(b, i) \/ \E p \in Payload : WriteData(b, i, p)
      PROVE  RecordFileInv' /\ Effect
  BY <1>4, RemoveItemKeeps, WriteDataKeeps
<1>5. CASE UNCHANGED recordVars
  <2>1. blocks' = blocks /\ mvBlocks' = mvBlocks /\ mbOpen' = mbOpen /\ mLastAddedTo' = mLastAddedTo
    BY <1>5 DEF recordVars
  <2>2. NumBlocks' = NumBlocks /\ NumArrays' = NumArrays
    BY <2>1 DEF NumBlocks, NumArrays
  <2>. QED BY <2>1, <2>2 DEF RecordFileInv, Effect
<1>. QED
  BY <1>1, <1>2, <1>3, <1>4, <1>5 DEF RecordFileNext

LEMMA InvImpliesSound ==
  ASSUME RecordFileAssumption, RecordFileInv
  PROVE  RecordBlocksSound
<1>1. RecordFileTypeOK
  <2>1. ASSUME NEW b \in DOMAIN blocks
        PROVE  /\ DOMAIN blocks[b].index = 0 .. blocks[b].numItems
               /\ \A i \in DOMAIN blocks[b].index : blocks[b].index[i].off \in -1 .. BlockSize
               /\ blocks[b].space \in 0 .. MaxDataSize
    <3>1. CASE blocks[b] = BlankBlock
      <4>1. /\ BlankBlock.index = [i \in {0} |-> [off |-> 0, used |-> FALSE]]
            /\ BlankBlock.numItems = 0 /\ BlankBlock.space = 0
        BY DEF BlankBlock
      <4>2. DOMAIN BlankBlock.index = {0} /\ BlankBlock.index[0].off = 0 /\ {0} = 0 .. 0
        BY <4>1
      <4>3. 0 \in -1 .. BlockSize /\ 0 \in 0 .. MaxDataSize
        BY ConstantsAreNat
      <4>. QED BY <3>1, <4>1, <4>2, <4>3
    <3>2. CASE Sound(blocks[b])
      BY <3>2, SoundIsValid
    <3>. QED BY <3>1, <3>2 DEF RecordFileInv
  <2>2. DOMAIN mvBlocks \subseteq DOMAIN blocks
    BY DEF RecordFileInv
  <2>3. /\ mbOpen \in BOOLEAN /\ mLastAddedTo \in -1 .. MaxRecordBlocks - 1
        /\ mbOpen => mLastAddedTo \in DOMAIN mvBlocks
    BY DEF RecordFileInv
  <2>. QED BY <2>1, <2>2, <2>3 DEF RecordFileTypeOK
<1>2. ObjectsMatchHeaders
  <2>1. ~ Unloaded.init
    BY DEF Unloaded
  <2>. QED BY <2>1 DEF ObjectsMatchHeaders, RecordFileInv
<1>3. BlocksStayValid
  BY SoundIsValid DEF BlocksStayValid, RecordFileInv
<1>. QED
  BY <1>1, <1>2, <1>3 DEF RecordBlocksSound

(* Whatever is added, removed, changed, closed and opened, the objects in   *)
(* memory agree with the headers in the file, every initialised block       *)
(* passes the test that the debug build asserts, and no index reaches into  *)
(* the data.                                                                *)
THEOREM RecordBlocksStaySound == RecordFileAssumption => (RecordFileSpec => []RecordBlocksSound)
<1>. SUFFICES ASSUME RecordFileAssumption PROVE RecordFileSpec => []RecordBlocksSound
  OBVIOUS
<1>1. RecordFileInit => RecordFileInv
  BY InitKeeps
<1>2. RecordFileInv /\ [RecordFileNext]_recordVars => RecordFileInv'
  BY StepKeeps
<1>3. RecordFileInv => RecordBlocksSound
  BY InvImpliesSound
<1>. QED
  BY <1>1, <1>2, <1>3, PTL DEF RecordFileSpec

-----------------------------------------------------------------------------
(* What the file holds is the store of RecordStore.                         *)

RecordIn(cell) == IF cell = {} THEN NoAddr ELSE CHOOSE p \in cell : TRUE

LEMMA RecordInCell ==
  ASSUME RecordFileAssumption, NEW cell \in Cells
  PROVE  \/ cell = {} /\ RecordIn(cell) = NoAddr
         \/ RecordIn(cell) \in Payload /\ RecordIn(cell) # NoAddr /\ cell = {RecordIn(cell)}
<1>1. CASE cell = {}
  BY <1>1 DEF RecordIn
<1>2. ASSUME NEW p \in Payload, cell = {p}
      PROVE  RecordIn(cell) \in Payload /\ RecordIn(cell) # NoAddr /\ cell = {RecordIn(cell)}
  <2>1. (CHOOSE q \in {p} : TRUE) = p /\ {p} # {}
    OBVIOUS
  <2>2. RecordIn(cell) = p
    BY <1>2, <2>1 DEF RecordIn
  <2>3. NoAddr \notin Payload
    BY DEF RecordFileAssumption
  <2>. QED BY <1>2, <2>2, <2>3
<1>. QED
  BY <1>1, <1>2 DEF Cells

LEMMA RecordsHeld ==
  Records = [a \in Addresses |-> RecordIn(FileHolds(blocks)[a[1]][a[2]])]
<1>1. ASSUME NEW a \in Addresses
      PROVE  Records[a] = RecordIn(FileHolds(blocks)[a[1]][a[2]])
  <2>1. a[1] \in 0 .. MaxRecordBlocks - 1 /\ a[2] \in Slots
    BY DEF Addresses
  <2>2. CASE a[1] \in DOMAIN blocks /\ IsItemValid(blocks[a[1]], blocks[a[1]].numItems, a[2])
    <3>1. FileHolds(blocks)[a[1]][a[2]] = {ItemData(blocks[a[1]], a[2])}
      BY <2>1, <2>2 DEF FileHolds, Holds
    <3>2. Records[a] = ItemData(blocks[a[1]], a[2])
      BY <2>2 DEF Records
    <3>3. \A d : RecordIn({d}) = d
      BY DEF RecordIn
    <3>. QED BY <3>1, <3>2, <3>3
  <2>3. CASE ~ (a[1] \in DOMAIN blocks /\ IsItemValid(blocks[a[1]], blocks[a[1]].numItems, a[2]))
    <3>1. FileHolds(blocks)[a[1]][a[2]] = {}
      BY <2>1, <2>3 DEF FileHolds, Holds
    <3>2. Records[a] = NoAddr
      BY <2>3 DEF Records
    <3>. QED BY <3>1, <3>2 DEF RecordIn
  <2>. QED BY <2>2, <2>3
<1>2. Records = [a \in Addresses |-> Records[a]]
  BY DEF Records
<1>. QED
  BY <1>1, <1>2

LEMMA RecordsHeldAfter ==
  Records' = [a \in Addresses |-> RecordIn(FileHolds(blocks')[a[1]][a[2]])]
<1>1. (Records = [a \in Addresses |-> RecordIn(FileHolds(blocks)[a[1]][a[2]])])'
  BY RecordsHeld, PTL
<1>. QED
  BY <1>1

(* The value of one address changes, or none does.                          *)
LEMMA EffectIsStep ==
  ASSUME RecordFileAssumption, RecordFileInv, Effect
  PROVE  Abstract!Next \/ UNCHANGED Records
<1>1. Records = [a \in Addresses |-> RecordIn(FileHolds(blocks)[a[1]][a[2]])]
  BY RecordsHeld
<1>2. Records' = [a \in Addresses |-> RecordIn(FileHolds(blocks')[a[1]][a[2]])]
  BY RecordsHeldAfter
<1>3. CASE FileHolds(blocks') = FileHolds(blocks)
  BY <1>1, <1>2, <1>3
<1>4. ASSUME NEW b \in 0 .. MaxRecordBlocks - 1, NEW i \in Slots, NEW v \in Cells,
             FileHolds(blocks') = [FileHolds(blocks) EXCEPT ![b] = [@ EXCEPT ![i] = v]]
      PROVE  Abstract!Next \/ UNCHANGED Records
  <2>. DEFINE a == <<b, i>>
  <2>1. a \in Addresses /\ a[1] = b /\ a[2] = i
    BY DEF Addresses
  <2>2. FileHolds(blocks) \in [0 .. MaxRecordBlocks - 1 -> [Slots -> Cells]]
    BY DEF RecordFileInv
  <2>3. FileHolds(blocks')[b][i] = v
    BY <1>4, <2>2
  <2>4. ASSUME NEW c \in Addresses, c # a
        PROVE  FileHolds(blocks')[c[1]][c[2]] = FileHolds(blocks)[c[1]][c[2]]
    <3>1. c = <<c[1], c[2]>> /\ c[1] \in 0 .. MaxRecordBlocks - 1 /\ c[2] \in Slots
      BY DEF Addresses
    <3>2. c[1] # b \/ c[2] # i
      BY <2>4, <3>1
    <3>. QED BY <1>4, <2>2, <3>1, <3>2
  <2>5. Records' = [Records EXCEPT ![a] = RecordIn(v)]
    <3>1. Records'[a] = RecordIn(v)
      BY <1>2, <2>1, <2>3
    <3>2. \A c \in Addresses : c # a => Records'[c] = Records[c]
      BY <1>1, <1>2, <2>4
    <3>3. /\ Records = [c \in Addresses |-> Records[c]]
          /\ Records' = [c \in Addresses |-> Records'[c]]
      BY <1>1, <1>2
    <3>. HIDE DEF a
    <3>. QED BY <2>1, <3>1, <3>2, <3>3
  <2>6. FileHolds(blocks)[b][i] \in Cells /\ Records[a] = RecordIn(FileHolds(blocks)[b][i])
    BY <1>1, <2>1, <2>2
  <2>7. Records[a] = NoAddr \/ (Records[a] \in Payload /\ Records[a] # NoAddr)
    <3>. DEFINE w == FileHolds(blocks)[b][i]
    <3>1. RecordIn(w) = NoAddr \/ (RecordIn(w) \in Payload /\ RecordIn(w) # NoAddr)
      <4>1. w \in Cells
        BY <2>6
      <4>. HIDE DEF w
      <4>. QED BY <4>1, RecordInCell
    <3>. QED BY <2>6, <3>1
  <2>8. RecordIn(v) = NoAddr \/ RecordIn(v) \in Payload
    BY RecordInCell
  <2>9. CASE RecordIn(v) = Records[a]
    BY <1>1, <2>1, <2>5, <2>9
  <2>10. CASE RecordIn(v) # Records[a]
    <3>1. a \in Abstract!Touched
      BY <2>1, <2>3, <2>10, <1>2 DEF Abstract!Touched
    <3>2. CASE RecordIn(v) = NoAddr
      <4>1. Abstract!Remove(a)
        BY <2>5, <2>10, <3>2 DEF Abstract!Remove
      <4>. QED BY <3>1, <4>1 DEF Abstract!Next
    <3>3. CASE RecordIn(v) \in Payload /\ Records[a] = NoAddr
      <4>1. Abstract!Add(a, RecordIn(v))
        BY <2>5, <3>3 DEF Abstract!Add
      <4>. QED BY <3>1, <3>3, <4>1 DEF Abstract!Next
    <3>4. CASE RecordIn(v) \in Payload /\ Records[a] # NoAddr
      <4>1. Abstract!Rewrite(a, RecordIn(v))
        BY <2>5, <3>4 DEF Abstract!Rewrite
      <4>. QED BY <3>1, <3>4, <4>1 DEF Abstract!Next
    <3>. QED BY <2>8, <3>2, <3>3, <3>4
  <2>. QED BY <2>9, <2>10
<1>. QED
  BY <1>3, <1>4 DEF Effect

(* A record keeps its address and its bytes while others are added, removed *)
(* and rewritten, the file is closed and opened again, or a block is made   *)
(* that cannot be paged in: the file of blocks implements the store of      *)
(* records.                                                                 *)
THEOREM RecordFileIsRecordStore == RecordFileAssumption => (RecordFileSpec => ImplementsRecordStore)
<1>. SUFFICES ASSUME RecordFileAssumption PROVE RecordFileSpec => ImplementsRecordStore
  OBVIOUS
<1>1. RecordFileInit => RecordFileInv
  BY InitKeeps
<1>2. RecordFileInv /\ [RecordFileNext]_recordVars => RecordFileInv'
  BY StepKeeps
<1>3. RecordFileInit => Abstract!Init
  <2>. SUFFICES ASSUME RecordFileInit PROVE Abstract!Init
    OBVIOUS
  <2>1. FileHolds(blocks) = [b \in 0 .. MaxRecordBlocks - 1 |-> [i \in Slots |-> {}]]
    BY InitKeeps
  <2>2. \A a \in Addresses : FileHolds(blocks)[a[1]][a[2]] = {}
    BY <2>1 DEF Addresses
  <2>3. RecordIn({}) = NoAddr
    BY DEF RecordIn
  <2>. QED BY <2>2, <2>3, RecordsHeld DEF Abstract!Init
<1>4. RecordFileInv /\ [RecordFileNext]_recordVars => [Abstract!Next]_Records
  BY StepKeeps, EffectIsStep
<1>. QED
  BY <1>1, <1>2, <1>3, <1>4, PTL DEF RecordFileSpec, ImplementsRecordStore, Abstract!Spec
================================================================================
