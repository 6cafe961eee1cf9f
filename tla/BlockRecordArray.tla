-------------------------- MODULE BlockRecordArray --------------------------
(***************************************************************************)
(* cBlockRecordArray (db/blockrecordarray.cpp): the layout of one block    *)
(* that holds records.  Behind a header comes the index, one entry per     *)
(* slot and a guard entry; the data is packed against the end of the block *)
(* in slot order, so that slot i occupies the offsets (counted from the    *)
(* end, 1 being the last byte) above the offset of slot i - 1 up to its    *)
(* own.  A slot that was freed below the top keeps the offset of the slot  *)
(* below it, is marked unused, and is the first to be filled again.        *)
(*                                                                         *)
(* Bytes of the gap between index and data are never read, and are kept    *)
(* zero.                                                                   *)
(***************************************************************************)
EXTENDS Integers, Sequences, FiniteSetsExt

CONSTANTS
    BlockSize,    \* cBlockFile::BLOCK_SIZE
    HeaderSize,   \* sizeof(tHeader)
    IndexSize,    \* sizeof(tRecordIndex)
    WordSize,     \* sizeof(uint32)
    Margin        \* MARGIN

\* What the layout needs; assumed where the constants are given.
BlockRecordArrayAssumption ==
    /\ {BlockSize, HeaderSize, IndexSize, WordSize, Margin} \subseteq Nat \ {0}
    /\ Margin >= IndexSize
    /\ BlockSize > HeaderSize + 2 * IndexSize + Margin

MaxRecords == BlockSize \div (IndexSize + WordSize)
MaxDataSize == BlockSize - IndexSize - HeaderSize - Margin

ZeroByte == "0"

\* A block: [numItems, space] is the header, index the slots and the guard
\* behind them, mem the bytes by their offset from the end of the block.
Guard == [off |-> -1, used |-> FALSE]

OffsetBelow(blk, i) == IF i = 0 THEN 0 ELSE blk.index[i - 1].off
TopOffset(blk, n) == OffsetBelow(blk, n)

\* UpdateFreeSpace: room is left for the entry one more item would need.
SpaceForgettingIndex(n, top) ==       \* variant: the new entry is forgotten
    Max({0, BlockSize - HeaderSize - n * IndexSize - Margin - top})

FreeSpace(n, top) == Max({0, BlockSize - HeaderSize - (n + 1) * IndexSize - Margin - top})

\* UpdateFreeSpace, WriteHeaderInfo, and the guard entry behind the last slot.
Sealed(index, n, mem) ==
    LET top == IF n = 0 THEN 0 ELSE index[n - 1].off
    IN  [numItems |-> n,
         space    |-> FreeSpace(n, top),
         index    |-> [i \in 0 .. n |-> IF i = n THEN Guard ELSE index[i]],
         mem      |-> [o \in 1 .. BlockSize |-> IF o <= top THEN mem[o] ELSE ZeroByte]]

InitNewBlock == Sealed(<<>>, 0, [o \in 1 .. BlockSize |-> ZeroByte])

\* What CreateBlock leaves in the file: zero bytes, with no guard entry.
BlankBlock == [numItems |-> 0, space |-> 0,
               index |-> [i \in {0} |-> [off |-> 0, used |-> FALSE]],
               mem |-> [o \in 1 .. BlockSize |-> ZeroByte]]

\* The slot AddItem fills: the first unused one, or a new one at the top.
SlotFor(blk, n) == Min({i \in 0 .. n - 1 : ~blk.index[i].used} \cup {n})

NotMoved(mem, below, size) == mem     \* variant: the memmove is forgotten

\* memmove: the bytes above an offset move away from the end of the block.
MovedUp(mem, below, size) ==
    [o \in 1 .. BlockSize |-> IF o <= below + size THEN mem[o] ELSE mem[o - size]]

\* AddItem, for a block of n slots: the new data fills the room below the
\* data of the slots above its own.
AddItem(blk, n, p) ==
    LET i == SlotFor(blk, n)
        below == OffsetBelow(blk, i)
        size == Len(p)
    IN  Sealed([j \in 0 .. Max({n - 1, i}) |->
                   IF j = i THEN [off |-> below + size, used |-> TRUE]
                   ELSE IF j > i THEN [blk.index[j] EXCEPT !.off = @ + size]
                   ELSE blk.index[j]],
               Max({n, i + 1}),
               [o \in 1 .. BlockSize |->
                   IF o \in below + 1 .. below + size THEN p[below + size - o + 1]
                   ELSE MovedUp(blk.mem, below, size)[o]])

KeepUnusedTop(blk, n) == n - 1        \* variant: unused slots stay on top

\* The slots that remain when the top slot is deleted: unused ones below it
\* go with it.
SlotsBelowTop(blk, n) ==
    Max({0} \cup {j + 1 : j \in {k \in 0 .. n - 2 : blk.index[k].used}})

\* DeleteItem, for a block of n slots.  The top slot is simply dropped; for
\* any other the data above it moves back, and the slot becomes unused.
DeleteItem(blk, n, i) ==
    IF i + 1 = n
    THEN Sealed(blk.index, SlotsBelowTop(blk, n), blk.mem)
    ELSE LET below == OffsetBelow(blk, i)
             size == blk.index[i].off - below
         IN  Sealed([j \in 0 .. n - 1 |->
                        IF j = i THEN [off |-> below, used |-> FALSE]
                        ELSE IF j > i THEN [blk.index[j] EXCEPT !.off = @ - size]
                        ELSE blk.index[j]],
                    n,
                    [o \in 1 .. BlockSize |->
                        IF o <= below \/ o + size > BlockSize THEN blk.mem[o]
                        ELSE blk.mem[o + size]])

\* GetDataForReading and GetDataForWriting: the bytes of slot i.
ItemSize(blk, i) == blk.index[i].off - OffsetBelow(blk, i)
ItemData(blk, i) == [j \in 1 .. ItemSize(blk, i) |-> blk.mem[blk.index[i].off - j + 1]]
WriteItem(blk, i, p) ==
    [blk EXCEPT !.mem = [o \in 1 .. BlockSize |->
        IF o \in OffsetBelow(blk, i) + 1 .. blk.index[i].off
        THEN p[blk.index[i].off - o + 1] ELSE @[o]]]

IsItemValid(blk, n, i) == i \in 0 .. n - 1 /\ blk.index[i].used

\* IsClassValid, with the in-memory number of items and space of the object.
IsClassValid(blk, n, space) ==
    /\ n \in 0 .. MaxRecords
    /\ space \in 0 .. MaxDataSize
    /\ n # 0 => blk.index[n - 1].used /\ blk.index[n - 1].off # -1
    /\ \A i \in 0 .. n - 1 : blk.index[i].off >= OffsetBelow(blk, i)
    /\ blk.index[n].off = -1
    /\ HeaderSize + n * IndexSize < BlockSize - TopOffset(blk, n)
=============================================================================
