--------------------------- MODULE BlockRecordFile ---------------------------
(***************************************************************************)
(* cBlockRecordFile (db/blockrecordfile.cpp): records of any size spread   *)
(* over the blocks of a block file.  Each block has a cBlockRecordArray    *)
(* object that is loaded from the block's header when it is first needed.  *)
(* The block file is the BlockStore that BlockFile is shown to implement.  *)
(***************************************************************************)
EXTENDS BlockRecordArray

CONSTANTS
    Payload,          \* the records: nonempty sequences of bytes
    MaxRecordBlocks,  \* bound on the number of blocks
    NoAddr            \* no record at this address

VARIABLES
    mbOpen,
    blocks,         \* block number -> block, the block file
    mvBlocks,       \* block number -> [init, numItems, space]
    mLastAddedTo

recordVars == <<mbOpen, blocks, mvBlocks, mLastAddedTo>>

\* AddItem asserts that a record fits into an empty block and is not empty;
\* MAX_RECORDS takes a uint32 for the least there is.
RecordFileAssumption ==
    /\ BlockRecordArrayAssumption
    /\ MaxRecordBlocks \in Nat \ {0}
    /\ NoAddr \notin Payload
    /\ \A p \in Payload : /\ Len(p) \in WordSize .. MaxDataSize
                         /\ p = [k \in 1 .. Len(p) |-> p[k]]

NumBlocks == CHOOSE k \in 0 .. MaxRecordBlocks : DOMAIN blocks = 0 .. k - 1
NumArrays == CHOOSE k \in 0 .. MaxRecordBlocks : DOMAIN mvBlocks = 0 .. k - 1

Unloaded == [init |-> FALSE, numItems |-> 0, space |-> -1]
Loaded(blk) == [init |-> TRUE, numItems |-> blk.numItems, space |-> blk.space]

\* util_InitBlockArray: the object of block b as it is once it is needed.
Array(b) == IF mvBlocks[b].init THEN mvBlocks[b] ELSE Loaded(blocks[b])

\* A new database starts with an empty archive.
RecordFileInit ==
    /\ mbOpen = FALSE
    /\ blocks = <<>>
    /\ mvBlocks = <<>>
    /\ mLastAddedTo = -1

\* Open and OpenImpl: an empty archive gets one initialised block; an old one
\* is accepted if its first block is valid, and no other block is looked at.
OpenRecordFile ==
    /\ ~mbOpen
    /\ IF DOMAIN blocks = {}
       THEN /\ blocks' = [b \in {0} |-> InitNewBlock]
            /\ mvBlocks' = [b \in {0} |-> Loaded(InitNewBlock)]
       ELSE /\ IsClassValid(blocks[0], blocks[0].numItems, blocks[0].space)
            /\ mvBlocks' = [b \in DOMAIN blocks |->
                              IF b = 0 THEN Loaded(blocks[0]) ELSE Unloaded]
            /\ UNCHANGED blocks
    /\ mLastAddedTo' = 0
    /\ mbOpen' = TRUE

CloseRecordFile ==
    /\ mbOpen
    /\ mbOpen' = FALSE
    /\ mvBlocks' = <<>>
    /\ mLastAddedTo' = -1          \* the next Open is another object's
    /\ UNCHANGED blocks

-----------------------------------------------------------------------------
(* Adding *)

HasRoom(b, p) == Array(b).space >= Len(p)

\* The blocks FindRoomForData looks at, in order, up to the one it returns.
FirstWithRoom(p) == CHOOSE b \in DOMAIN mvBlocks :
                       HasRoom(b, p) /\ \A c \in DOMAIN mvBlocks : c < b => ~HasRoom(c, p)

RoomExists(p) == \E b \in DOMAIN mvBlocks : HasRoom(b, p)

RoomFor(p) == IF HasRoom(mLastAddedTo, p) THEN mLastAddedTo ELSE FirstWithRoom(p)

\* The objects after the search; objects that were looked at are loaded.
Searched(p) ==
    [b \in DOMAIN mvBlocks |->
        IF \/ b = mLastAddedTo
           \/ ~HasRoom(mLastAddedTo, p) /\ (RoomExists(p) => b <= FirstWithRoom(p))
        THEN Array(b) ELSE mvBlocks[b]]

AddItemWhereRoom(p) ==
    /\ mbOpen
    /\ RoomExists(p)
    /\ LET b == RoomFor(p)
           blk == AddItem(blocks[b], Array(b).numItems, p)
       IN  /\ blocks' = [blocks EXCEPT ![b] = blk]
           /\ mvBlocks' = [Searched(p) EXCEPT ![b] = Loaded(blk)]
           /\ mLastAddedTo' = b
    /\ UNCHANGED mbOpen

\* cnt: the block that the array object pushed behind the others stands for.
NewArray == NumArrays

\* No room anywhere: a block is created and the array object behind the last
\* one is initialised.
AddItemInNewBlock(p) ==
    /\ mbOpen
    /\ ~RoomExists(p)
    /\ NumBlocks < MaxRecordBlocks
    /\ LET grown == [b \in 0 .. NumBlocks |-> IF b = NumBlocks THEN BlankBlock ELSE blocks[b]]
           blk == AddItem(InitNewBlock, 0, p)
       IN  /\ blocks' = [grown EXCEPT ![NewArray] = blk]
           /\ mvBlocks' = [b \in 0 .. NumArrays |->
                             IF b = NumArrays THEN Loaded(blk) ELSE Searched(p)[b]]
           /\ mLastAddedTo' = NewArray
    /\ UNCHANGED mbOpen

\* CreateBlock has grown the file when paging the new block in throws.
AddItemFails(p) ==
    /\ mbOpen
    /\ ~RoomExists(p)
    /\ NumBlocks < MaxRecordBlocks
    /\ blocks' = [b \in 0 .. NumBlocks |-> IF b = NumBlocks THEN BlankBlock ELSE blocks[b]]
    /\ mvBlocks' = Searched(p)
    /\ UNCHANGED <<mbOpen, mLastAddedTo>>

-----------------------------------------------------------------------------
(* Removing and changing the record at slot i of block b *)

IsValidAddr(b, i) == b \in DOMAIN blocks /\ IsItemValid(blocks[b], Array(b).numItems, i)

RemoveFromFileOnly(b, i) ==           \* variant: the object keeps its old counts
    /\ mbOpen
    /\ IsValidAddr(b, i)
    /\ blocks' = [blocks EXCEPT ![b] = DeleteItem(@, Array(b).numItems, i)]
    /\ UNCHANGED <<mbOpen, mvBlocks, mLastAddedTo>>

RemoveItem(b, i) ==
    /\ mbOpen
    /\ IsValidAddr(b, i)
    /\ LET blk == DeleteItem(blocks[b], Array(b).numItems, i)
       IN  /\ blocks' = [blocks EXCEPT ![b] = blk]
           /\ mvBlocks' = [mvBlocks EXCEPT ![b] = Loaded(blk)]
    /\ UNCHANGED <<mbOpen, mLastAddedTo>>

\* GetDataForWriting, and the caller writes a record of the same size.
WriteData(b, i, p) ==
    /\ mbOpen
    /\ IsValidAddr(b, i)
    /\ Len(p) = ItemSize(blocks[b], i)
    /\ blocks' = [blocks EXCEPT ![b] = WriteItem(@, i, p)]
    /\ mvBlocks' = [mvBlocks EXCEPT ![b] = Array(b)]
    /\ UNCHANGED <<mbOpen, mLastAddedTo>>

Slots == 0 .. MaxRecords

\* Callers have the addresses AddItem gave them, in blocks that have an array
\* object; the test of an address looks at the number of blocks alone.
RecordFileNext ==
    \/ OpenRecordFile
    \/ CloseRecordFile
    \/ \E p \in Payload : AddItemWhereRoom(p) \/ AddItemInNewBlock(p) \/ AddItemFails(p)
    \/ \E b \in DOMAIN mvBlocks, i \in Slots :
          RemoveItem(b, i) \/ \E p \in Payload : WriteData(b, i, p)

RecordFileSpec == RecordFileInit /\ [][RecordFileNext]_recordVars

-----------------------------------------------------------------------------
(* Properties *)

\* The record at an address, as GetDataForReading would return it.
Addresses == (0 .. MaxRecordBlocks - 1) \X Slots
Records == [a \in Addresses |->
               IF /\ a[1] \in DOMAIN blocks
                  /\ IsItemValid(blocks[a[1]], blocks[a[1]].numItems, a[2])
               THEN ItemData(blocks[a[1]], a[2])
               ELSE NoAddr]

\* Type correctness.  Every offset lies inside the block, and mLastAddedTo of
\* an open file names a block that has an array object: FindRoomForData indexes
\* the vector with it before anything else.
RecordFileTypeOK ==
    /\ mbOpen \in BOOLEAN
    /\ mLastAddedTo \in -1 .. MaxRecordBlocks - 1
    /\ mbOpen => mLastAddedTo \in DOMAIN mvBlocks
    /\ DOMAIN mvBlocks \subseteq DOMAIN blocks
    /\ \A b \in DOMAIN blocks :
         /\ DOMAIN blocks[b].index = 0 .. blocks[b].numItems
         /\ \A i \in DOMAIN blocks[b].index : blocks[b].index[i].off \in -1 .. BlockSize
         /\ blocks[b].space \in 0 .. MaxDataSize

\* The objects in memory agree with the headers in the file, so that a file
\* that is closed and opened again is the same file.
ObjectsMatchHeaders ==
    \A b \in DOMAIN mvBlocks : mvBlocks[b].init => mvBlocks[b] = Loaded(blocks[b])

\* The guard entry that AddItem writes behind the index never lands in data:
\* the free space is computed for one more entry, and the guard is another.
IndexClearOfData(blk) ==
    HeaderSize + (blk.numItems + 1) * IndexSize <= BlockSize - TopOffset(blk, blk.numItems)

\* A block that has been initialised passes the test Open applies to the first
\* block - the debug build asserts it of every block after every operation -
\* and its index and its data stay apart.
BlocksStayValid ==
    \A b \in DOMAIN blocks :
        LET blk == blocks[b]
        IN  blk # BlankBlock => IsClassValid(blk, blk.numItems, blk.space) /\ IndexClearOfData(blk)

\* Whatever is added, removed and changed, closed and opened again.
RecordBlocksSound == RecordFileTypeOK /\ ObjectsMatchHeaders /\ BlocksStayValid

\* Adding, removing and changing records never moves or alters another one,
\* whether the file was closed and opened in between or a block could not be
\* paged in.
Abstract == INSTANCE RecordStore WITH Addr <- Addresses, None <- NoAddr, store <- Records
ImplementsRecordStore == Abstract!Spec
=============================================================================
