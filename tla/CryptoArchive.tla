---------------------------- MODULE CryptoArchive ----------------------------
(***************************************************************************)
(* How the text of a signed or a compressed file reaches the disk and      *)
(* comes back: Write hands bytes to a Deflator, which passes its codes on  *)
(* to cCryptoSink, which gathers them into blocks, each of which the       *)
(* cipher turns into one of the file.  cCryptoSource takes whole blocks    *)
(* only; the Inflator leaves what it has made of them in a cByteQueue, and *)
(* Read pumps until the queue holds enough.  In between the file may lose  *)
(* its end.  A byte of the text is the position it was written at; the     *)
(* Deflator and the Inflator are the compression library's, and they hold  *)
(* back as much as they like.                                              *)
(***************************************************************************)
EXTENDS Integers, Sequences, SequencesExt, FiniteSetsExt

CONSTANTS
    BlockSize,      \* GetBlockSizePlain, which the blocks in the file have too
    NodeSize,       \* bytes that a node of a cByteQueue has room for
    MaxWritten,     \* bound: bytes of the text
    MaxCount        \* bound: bytes that one Write or Read is asked for

VARIABLES
    action,     \* mAction of the archive that is in use
    written,    \* bytes written so far
    deflating,  \* codes that the Deflator has not passed on
    block,      \* mpBuffer of the sink, as far as it is used
    file,       \* the codes in the file
    torn,       \* the file has lost its end
    taken,      \* codes of the file that the source has taken
    inflating,  \* codes that the Inflator has not given on
    afterEnd,   \* the Inflator has seen the end
    nodes,      \* the queue: a sequence of its nodes
    count,      \* its mCurrentSize
    wanted,     \* bytes the Read under way is asked for, or 0
    got,        \* what all the Reads have returned
    outcome     \* "short" or "failed" once a Read has been

vars == <<action, written, deflating, block, file, torn, taken,
          inflating, afterEnd, nodes, count, wanted, got, outcome>>
onRead == <<taken, inflating, afterEnd, nodes, count, wanted, got, outcome>>
onWrite == <<written, deflating, block, file, torn>>

\* Codes: a byte of the text, the end of the stream, one of RandomizeBytes.
End   == 0
Noise == -1

Least(m, n) == IF m < n THEN m ELSE n

-----------------------------------------------------------------------------
(* cByteQueue *)

Node(bytes)  == [bytes |-> bytes, head |-> 0]
CurrentSize(node) == Len(node.bytes) - node.head
UsedUp(node) == node.head = NodeSize

Cut(s, size) == [i \in 1 .. (Len(s) + size - 1) \div size |->
                    SubSeq(s, (i - 1) * size + 1, Least(i * size, Len(s)))]

\* Put fills the last node and goes on in new ones.
Put(queue, s) ==
    LET room == NodeSize - Len(Last(queue).bytes)
        more == Cut(SubSeq(s, room + 1, Len(s)), NodeSize)
    IN  [queue EXCEPT ![Len(queue)].bytes = @ \o SubSeq(s, 1, Least(room, Len(s)))]
            \o [i \in DOMAIN more |-> Node(more[i])]

\* What Get takes out of the i-th node when it is asked for n bytes.
From(queue, i, n) ==
    LET before == MapThenSumSet(LAMBDA j : CurrentSize(queue[j]), 1 .. i - 1)
    IN  IF before >= n THEN 0 ELSE Least(CurrentSize(queue[i]), n - before)

Gotten(queue, n) ==
    FlattenSeq([i \in DOMAIN queue |->
        SubSeq(queue[i].bytes, queue[i].head + 1, queue[i].head + From(queue, i, n))])

\* Nodes that are used up go, except for the last one.
Rest(queue, n) ==
    LET moved == [i \in DOMAIN queue |-> [queue[i] EXCEPT !.head = @ + From(queue, i, n)]]
        kept  == {i \in DOMAIN moved : i = Len(moved) \/ ~UsedUp(moved[i])}
    IN  SubSeq(moved, CHOOSE i \in kept : \A j \in kept : i <= j, Len(moved))

-----------------------------------------------------------------------------
(* Writing *)

\* cCryptoSink::Put: each block that is full goes to the file.
Sink(codes) ==
    LET all  == block \o codes
        full == Len(all) - (Len(all) % BlockSize)
    IN  [blocks |-> SubSeq(all, 1, full), block |-> SubSeq(all, full + 1, Len(all))]

\* Variant: what did not fill a block stays in the buffer.
PaddedNot(rest) == <<>>

\* cCryptoSink::InputFinished: a block that is not full is filled up with random bytes.
Padded(rest) ==
    IF rest = <<>> THEN <<>> ELSE rest \o [i \in 1 .. BlockSize - Len(rest) |-> Noise]

Init ==
    /\ action = "unknown"
    /\ written = 0 /\ deflating = <<>> /\ block = <<>> /\ file = <<>> /\ torn = FALSE
    /\ taken = 0 /\ inflating = <<>> /\ afterEnd = FALSE
    /\ nodes = <<Node(<<>>)>> /\ count = 0
    /\ wanted = 0 /\ got = <<>> /\ outcome = "none"

Write(n) ==
    /\ action \in {"unknown", "writing"}
    /\ written + n <= MaxWritten
    /\ action' = "writing"
    /\ written' = written + n
    /\ LET codes == deflating \o [i \in 1 .. n |-> written + i]
       IN  \E k \in 0 .. Len(codes) :
             LET sunk == Sink(SubSeq(codes, 1, k))
             IN  /\ deflating' = SubSeq(codes, k + 1, Len(codes))
                 /\ block' = sunk.block
                 /\ file' = file \o sunk.blocks
    /\ UNCHANGED <<torn, onRead>>

Finish ==
    /\ action = "writing"
    /\ action' = "finished"
    /\ LET sunk == Sink(deflating \o <<End>>)
       IN  file' = file \o sunk.blocks \o Padded(sunk.block)
    /\ deflating' = <<>> /\ block' = <<>>
    /\ UNCHANGED <<written, torn, onRead>>

\* The machine stops before all of the file is on the disk, or the disk is full.
Tear ==
    /\ action = "finished" /\ ~torn
    /\ \E k \in 0 .. Len(file) - 1 : file' = SubSeq(file, 1, k)
    /\ torn' = TRUE
    /\ UNCHANGED <<action, written, deflating, block, onRead>>

-----------------------------------------------------------------------------
(* Reading, by another archive that stands at the beginning of the file *)

Read(n) ==
    /\ action \in {"finished", "reading"} /\ wanted = 0 /\ outcome # "failed"
    /\ action' = "reading"
    /\ wanted' = n
    /\ outcome' = "none"
    /\ UNCHANGED <<onWrite, taken, inflating, afterEnd, nodes, count, got>>

\* The Inflator gives on what the first k codes stand for, and nothing behind the end.
Inflate(codes, k) ==
    LET now   == SubSeq(codes, 1, k)
        ended == End \in ToSet(now)
        bytes == IF ended THEN SubSeq(now, 1, SelectInSeq(now, LAMBDA c : c = End) - 1) ELSE now
    IN  /\ afterEnd' = (afterEnd \/ ended)
        /\ inflating' = IF ended THEN <<>> ELSE SubSeq(codes, k + 1, Len(codes))
        /\ nodes' = Put(nodes, bytes)
        /\ count' = count + Len(bytes)

Pump ==
    /\ wanted > count /\ taken + BlockSize <= Len(file)
    /\ taken' = taken + BlockSize
    /\ LET codes == IF afterEnd THEN <<>>
                    ELSE inflating \o SubSeq(file, taken + 1, taken + BlockSize)
       IN  \E k \in 0 .. Len(codes) : Inflate(codes, k)
    /\ UNCHANGED <<onWrite, action, wanted, got, outcome>>

\* No whole block is left: the Inflator is told, and throws when it is inside a part of
\* the stream whose end is not there.
Dry == wanted > count /\ taken + BlockSize > Len(file) /\ outcome = "none"

InputFinished ==
    /\ Dry
    /\ Inflate(inflating, Len(inflating))
    /\ UNCHANGED <<onWrite, action, taken, wanted, got>>
    /\ outcome' = IF count' < wanted THEN "short" ELSE outcome

UnexpectedEnd ==
    /\ Dry
    /\ inflating # <<>> /\ End \notin ToSet(inflating)
    /\ outcome' = "failed" /\ wanted' = 0
    /\ UNCHANGED <<onWrite, action, taken, inflating, afterEnd, nodes, count, got>>

Deliver ==
    /\ wanted > 0 /\ (wanted <= count \/ outcome = "short")
    /\ got' = got \o Gotten(nodes, wanted)
    /\ nodes' = Rest(nodes, wanted)
    /\ count' = count - Len(Gotten(nodes, wanted))
    /\ wanted' = 0
    /\ UNCHANGED <<onWrite, action, taken, inflating, afterEnd, outcome>>

Next ==
    \/ \E n \in 1 .. MaxCount : Write(n) \/ Read(n)
    \/ Finish \/ Tear \/ Pump \/ InputFinished \/ UnexpectedEnd \/ Deliver

Spec == Init /\ [][Next]_vars

-----------------------------------------------------------------------------
\* Whatever the sizes of the writes, of the reads, of the blocks and of the nodes are,
\* the reads give the text from its beginning, in order and nothing else; one is short
\* only when all of it was given, or, like one that fails, when the file is torn.
ReadsWhatWasWritten ==
    /\ written >= Len(got) /\ \A i \in DOMAIN got : got[i] = i
    /\ outcome = "short" /\ wanted = 0 => Len(got) = written \/ torn
    /\ outcome = "failed" => torn
=============================================================================
