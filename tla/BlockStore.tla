----------------------------- MODULE BlockStore -----------------------------
(***************************************************************************)
(* What cBlockFile promises to the classes above it (blockfile.h): a       *)
(* growing array of blocks, of which one at a time - the block that was    *)
(* returned last - may be changed.  Nothing here knows that there is a     *)
(* cache: BlockFile is shown to implement this module.                     *)
(***************************************************************************)
EXTENDS Naturals

CONSTANTS
    Content,     \* what one block may hold
    Zeroes,      \* the content of a freshly created block
    NoBlock,     \* no block is held by the caller
    MaxBlocks    \* bound on the length of the file

VARIABLES
    blocks,      \* block number -> Content
    current      \* the block the caller may read and change, or NoBlock

vars == <<blocks, current>>

Size == CHOOSE n \in 0 .. MaxBlocks : DOMAIN blocks = 0 .. n - 1

Init ==
    /\ \E n \in 0 .. MaxBlocks : blocks \in [0 .. n - 1 -> Content]
    /\ current = NoBlock

\* A new, empty file is given one empty block; an old one is taken as it is.
Open ==
    /\ current = NoBlock
    /\ blocks' = IF Size = 0 THEN [b \in {0} |-> Zeroes] ELSE blocks
    /\ UNCHANGED current

Access(b) ==
    /\ current' = b
    /\ UNCHANGED blocks

Change(c) ==
    /\ current # NoBlock
    /\ blocks' = [blocks EXCEPT ![current] = c]
    /\ UNCHANGED current

\* The caller gets the new block unless an error hides it from him.
Create ==
    /\ Size < MaxBlocks
    /\ blocks' = [b \in 0 .. Size |-> IF b = Size THEN Zeroes ELSE blocks[b]]
    /\ current' \in {Size, NoBlock}

Release ==
    /\ current' = NoBlock
    /\ UNCHANGED blocks

Next ==
    \/ Open
    \/ Create
    \/ Release
    \/ \E b \in DOMAIN blocks : Access(b)
    \/ \E c \in Content : Change(c)

Spec == Init /\ [][Next]_vars
=============================================================================
