----------------------------- MODULE Signatures -----------------------------
(* The properties of one object are calculated (fs/fspropcalc.cpp): a stat, *)
(* then the hashes of the text of a file, read in blocks (fco/signature.cpp *)
(* over core/archive.cpp), or of a link, while others write the object.     *)
(* The hash functions are those of core/{crc32,md5,sha,haval}.cpp.          *)
(*                                                                          *)
(* A text is a sequence of bytes; what a hash function is given in units is *)
(* kept as the sequence of these, so that two digests are equal only if the *)
(* units are.  The bytes that hold the length of a text are one symbol.     *)
EXTENDS Integers, FiniteSets, SequencesExt, TLC

CONSTANTS SUGGESTED_BLOCK_SIZE,
          UnitSize, HavalUnitSize,   \* 64 and 128 bytes in the code
          TW_PATH_SIZE, MaxPathSize, \* a link is read into the first, at most the second
          Lengths,                   \* of the texts there are to begin with
          MaxLength,                 \* bound: length of a text
          MaxWrites,                 \* bound: writes that are no appending
          Asked,                     \* the properties a rule may ask for
          Elsewhere                  \* the text of the file a link leads to

Algorithms == {"CRC32", "MD5", "SHA", "HAVAL"}

ASSUME SignaturesAssumption ==
  /\ UnitSize \in Nat /\ UnitSize > 1 /\ HavalUnitSize \in Nat /\ HavalUnitSize > 2
  /\ SUGGESTED_BLOCK_SIZE \in Nat \ {0}
  /\ SUGGESTED_BLOCK_SIZE % UnitSize = 0 /\ SUGGESTED_BLOCK_SIZE % HavalUnitSize = 0
  /\ TW_PATH_SIZE \in Nat /\ MaxPathSize \in Nat
  /\ MaxLength \in Nat /\ Lengths \subseteq 0 .. MaxLength
  /\ \A props \in Asked : props \subseteq Algorithms \cup {"SIZE"}
  /\ Elsewhere \in Seq(STRING)

VARIABLES file,        \* the object: its type and its text
          type,        \* the type the iterator took it for
          propsToCheck, direct,
          at,          \* where VisitFSObject is
          stat,        \* the size property, -1 when it is not set
          bufferSize,  \* of the buffer a link is read into
          archive,     \* what is read: its size, and its text if it is not the file's
          taken,       \* the text read so far
          context,     \* of each signature
          defined,     \* the hashes the property set has
          failed,      \* an error went to the bucket
          writes, still, grown  \* what was done to the object since the iterator
                                \* looked at it, and since it was opened

hashVars == <<file, type, propsToCheck, direct, at, stat, bufferSize, archive, taken, context,
          defined, failed, writes, still, grown>>

Hashes == propsToCheck \cap Algorithms

-----------------------------------------------------------------------------
(* The hash functions.  A context counts the bytes, keeps those of the last *)
(* unit and what the compression was given.                                 *)
Fresh == [count |-> 0, in |-> <<>>, hashed |-> <<>>]

Length(n)  == <<ToString(n)>>
Padding(n) == [i \in 1 .. n |-> IF i = 1 THEN "80" ELSE "00"]
Units(text, from, size, n) == [k \in 1 .. n |-> SubSeq(text, from + (k - 1) * size + 1, from + k * size)]

(* Variant: only what was hashed is reset.                                  *)
StartedKeepingCount(c) == [c EXCEPT !.hashed = <<>>]

(* MD5Init, shsInit, haval_start and crcInit leave the bytes of the last    *)
(* unit as they are.                                                        *)
Started(c) == [count |-> 0, in |-> c.in, hashed |-> <<>>]

crcUpdate(c, bytes) == [count |-> c.count + Len(bytes), in |-> c.in, hashed |-> c.hashed \o bytes]
crcFinit(c) == IF c.count = 0 THEN c ELSE [c EXCEPT !.hashed = @ \o Length(c.count)]

MD5Update(c, bytes) ==
  LET all == SubSeq(c.in, 1, c.count % UnitSize) \o bytes
      n   == Len(all) \div UnitSize
  IN [count  |-> c.count + Len(bytes),
      in     |-> SubSeq(all, n * UnitSize + 1, Len(all)),
      hashed |-> c.hashed \o Units(all, 0, UnitSize, n)]

(* Variant: one byte too little is left for the length.                     *)
MD5FinalTight(c) ==
  LET room   == UnitSize - 1
      mdi    == c.count % UnitSize
      padded == MD5Update(c, Padding((IF mdi =< room THEN room ELSE UnitSize + room) - mdi))
  IN [padded EXCEPT !.hashed = Append(@, SubSeq(padded.in, 1, room) \o Length(c.count))]

MD5Final(c) ==
  LET room   == UnitSize - 1
      mdi    == c.count % UnitSize
      padded == MD5Update(c, Padding((IF mdi < room THEN room ELSE UnitSize + room) - mdi))
  IN [padded EXCEPT !.hashed = Append(@, SubSeq(padded.in, 1, room) \o Length(c.count))]

(* What a call leaves over overwrites what the last one left: only the last *)
(* call may be given a part of a unit.                                      *)
shsUpdate(c, bytes) ==
  LET n    == Len(bytes) \div UnitSize
      rest == SubSeq(bytes, n * UnitSize + 1, Len(bytes))
  IN [count  |-> c.count + Len(bytes),
      in     |-> rest \o SubSeq(c.in, Len(rest) + 1, Len(c.in)),
      hashed |-> c.hashed \o Units(bytes, 0, UnitSize, n)]

shsFinal(c) ==
  LET room  == UnitSize - 1
      in    == SubSeq(c.in, 1, c.count % UnitSize) \o Padding(1)
      full  == in \o [i \in 1 .. UnitSize - Len(in) |-> "00"]
      zeros == [i \in 1 .. room |-> "00"]
  IN [c EXCEPT !.hashed = @ \o IF Len(in) > room
                               THEN <<full, zeros \o Length(c.count)>>
                               ELSE <<SubSeq(full, 1, room) \o Length(c.count)>>]

haval_hash(c, bytes) ==
  LET rmd_len  == c.count % HavalUnitSize
      fill_len == HavalUnitSize - rmd_len
      kept     == SubSeq(c.in, 1, rmd_len)
      n        == (Len(bytes) - fill_len) \div HavalUnitSize
      count    == c.count + Len(bytes)
  IN IF rmd_len + Len(bytes) >= HavalUnitSize
     THEN [count  |-> count,
           in     |-> SubSeq(bytes, fill_len + n * HavalUnitSize + 1, Len(bytes)),
           hashed |-> c.hashed \o <<kept \o SubSeq(bytes, 1, fill_len)>> \o Units(bytes, fill_len, HavalUnitSize, n)]
     ELSE [count |-> count, in |-> kept \o bytes, hashed |-> c.hashed]

(* The state is cleared at the end; the digest is kept elsewhere.           *)
haval_end(c) ==
  LET room    == HavalUnitSize - 2
      rmd_len == c.count % HavalUnitSize
      padded  == haval_hash(c, Padding((IF rmd_len < room THEN room ELSE HavalUnitSize + room) - rmd_len))
      ended   == haval_hash(padded, <<"version">> \o Length(c.count))
  IN [Fresh EXCEPT !.hashed = ended.hashed]

Update(a, c, bytes) == CASE a = "CRC32" -> crcUpdate(c, bytes)
                         [] a = "MD5"   -> MD5Update(c, bytes)
                         [] a = "SHA"   -> shsUpdate(c, bytes)
                         [] a = "HAVAL" -> haval_hash(c, bytes)

Finit(a, c) == CASE a = "CRC32" -> crcFinit(c)
                 [] a = "MD5"   -> MD5Final(c)
                 [] a = "SHA"   -> shsFinal(c)
                 [] a = "HAVAL" -> haval_end(c)

-----------------------------------------------------------------------------
Closed == [size |-> 0, text |-> <<>>]

(* A signature that siggen has used for another file, or a new one.         *)
Used(a) == Finit(a, Update(a, Fresh, [i \in 1 .. UnitSize + 1 |-> "x"]))

HashInit ==
  /\ \E n \in Lengths, t \in {"file", "link"} :
       /\ t = "link" => n > 0
       /\ file = [type |-> t, text |-> [i \in 1 .. n |-> "o"]]
  /\ type = file.type
  /\ propsToCheck \in Asked /\ direct \in BOOLEAN
  /\ at = "stat" /\ stat = -1 /\ bufferSize = TW_PATH_SIZE
  /\ archive = Closed /\ taken = <<>>
  /\ context \in {[a \in Algorithms |-> Fresh], [a \in Algorithms |-> Used(a)]}
  /\ defined = {} /\ failed = FALSE
  /\ writes = 0 /\ still = TRUE /\ grown = FALSE

(* AddPropCalcError, and the hashes that cannot be calculated are undefined.*)
Failed == /\ at' = "done" /\ failed' = TRUE /\ defined' = defined \ Hashes

DoStat ==
  /\ at = "stat"
  /\ \/ /\ "SIZE" \notin propsToCheck                \* NeedsStat
        /\ at' = "hash" /\ UNCHANGED <<stat, failed, defined>>
     \/ /\ "SIZE" \in propsToCheck
        /\ at' = "hash" /\ stat' = Len(file.text) /\ UNCHANGED <<failed, defined>>
     \/ "SIZE" \in propsToCheck /\ Failed /\ UNCHANGED stat
  /\ UNCHANGED <<file, type, propsToCheck, direct, bufferSize, archive, taken, context, writes, still, grown>>

NothingToHash ==
  /\ at = "hash" /\ Hashes = {} /\ at' = "done"
  /\ UNCHANGED <<file, type, propsToCheck, direct, stat, bufferSize, archive, taken, context,
                 defined, failed, writes, still, grown>>

(* readlink fills the buffer at most: a full one is read again into one     *)
(* twice the size, up to a limit.                                           *)
GetSymLinkStr ==
  /\ at = "hash" /\ Hashes # {} /\ type = "link"
  /\ LET rtn == IF Len(file.text) < bufferSize THEN Len(file.text) ELSE bufferSize
     IN \/ /\ file.type = "link" /\ rtn = bufferSize /\ bufferSize < MaxPathSize
           /\ bufferSize' = 2 * bufferSize /\ UNCHANGED <<at, archive, failed, defined>>
        \/ /\ \/ file.type # "link"
              \/ rtn = bufferSize /\ bufferSize >= MaxPathSize
           /\ Failed /\ UNCHANGED <<bufferSize, archive>>
        \/ /\ file.type = "link" /\ rtn < bufferSize
           /\ archive' = [size |-> rtn, text |-> SubSeq(file.text, 1, rtn)]
           /\ at' = "init" /\ UNCHANGED <<bufferSize, failed, defined>>
  /\ UNCHANGED <<file, type, propsToCheck, direct, stat, taken, context, writes, still, grown>>

(* An archive takes the size of its file when it is opened.  What has       *)
(* become a link is followed.                                               *)
DoOpen ==
  /\ at = "hash" /\ Hashes # {} /\ type = "file"
  /\ \/ Failed /\ UNCHANGED <<archive, grown>>
     \/ /\ at' = "init" /\ UNCHANGED <<failed, defined>>
        /\ IF file.type = "link"
           THEN archive' = [size |-> Len(Elsewhere), text |-> Elsewhere] /\ UNCHANGED grown
           ELSE archive' = [size |-> Len(file.text), text |-> <<>>] /\ grown' = TRUE
  /\ UNCHANGED <<file, type, propsToCheck, direct, stat, bufferSize, taken, context, writes, still>>

(* CalculateSignatures, up to its loop.                                     *)
InitSignatures ==
  /\ at = "init" /\ at' = "read"
  /\ defined' = Hashes
  /\ context' = [a \in Algorithms |-> IF a \in Hashes THEN Started(context[a]) ELSE context[a]]
  /\ UNCHANGED <<file, type, propsToCheck, direct, stat, bufferSize, archive, taken, failed, writes, still, grown>>

(* What can be read at the moment, and whether no more than the size at the *)
(* opening is.                                                              *)
Content == IF type = "file" /\ file.type = "file" THEN file.text ELSE archive.text
Bounded == ~(direct /\ type = "file")
UpTo(end) == SubSeq(Content, Len(taken) + 1, IF end < Len(Content) THEN end ELSE Len(Content))

(* Variant: whatever the archive, up to the end there is now.               *)
ReadOn(count) == UpTo(Len(taken) + count)

(* cFileArchive::Read and cMemoryArchive::Read.                             *)
Read(count) == UpTo(IF Bounded /\ Len(taken) + count > archive.size THEN archive.size ELSE Len(taken) + count)

HashBlock ==
  /\ at = "read"
  /\ LET piece == Read(SUGGESTED_BLOCK_SIZE)
         last  == Len(piece) < SUGGESTED_BLOCK_SIZE
     IN /\ taken' = taken \o piece
        /\ context' = [a \in Algorithms |->
                         IF a \notin Hashes THEN context[a]
                         ELSE IF last THEN Finit(a, Update(a, context[a], piece))
                         ELSE Update(a, context[a], piece)]
        /\ at' = IF last THEN "done" ELSE at
  /\ UNCHANGED <<file, type, propsToCheck, direct, stat, bufferSize, archive, defined, failed, writes, still, grown>>

ReadFails ==
  /\ at = "read" /\ type = "file" /\ Failed
  /\ UNCHANGED <<file, type, propsToCheck, direct, stat, bufferSize, archive, taken, context, writes, still, grown>>

HashStep == DoStat \/ NothingToHash \/ GetSymLinkStr \/ DoOpen \/ InitSignatures \/ HashBlock \/ ReadFails

-----------------------------------------------------------------------------
(* Others write to the object until it is done with.                        *)
TouchObject == /\ at # "done" /\ still' = FALSE
               /\ UNCHANGED <<type, propsToCheck, direct, at, stat, bufferSize, archive, taken, context, defined, failed>>

AppendTo == /\ file.type = "file" /\ Len(file.text) < MaxLength
            /\ file' = [file EXCEPT !.text = Append(@, "n")]
            /\ UNCHANGED <<writes, grown>> /\ TouchObject

Overwrite == /\ file.type = "file" /\ writes < MaxWrites
             /\ \E n \in {m \in Lengths : m <= Len(file.text)} : file' = [file EXCEPT !.text = [i \in 1 .. n |-> "n"]]
             /\ writes' = writes + 1 /\ grown' = FALSE /\ TouchObject

(* Another object gets the name.  An opened file is not reached by this.    *)
Replace == /\ at \in {"stat", "hash"} /\ writes < MaxWrites
           /\ \E t \in {"file", "link"}, n \in Lengths \ {0} :
                file' = [type |-> t, text |-> [i \in 1 .. n |-> "n"]]
           /\ writes' = writes + 1 /\ UNCHANGED grown /\ TouchObject

HashDisturbed == AppendTo \/ Overwrite \/ Replace

HashNext == HashStep \/ HashDisturbed

HashSpec == HashInit /\ [][HashNext]_hashVars

HashFinished == at = "done"

-----------------------------------------------------------------------------
(* What the digests are: of the text, a bit, zeros up to a unit's end but   *)
(* for the trailer, and the trailer with the text's length.                 *)
Padded(text, size, trailer) ==
  LET k == CHOOSE n \in 1 .. size : (Len(text) + n + Len(trailer)) % size = 0
      all == text \o Padding(k) \o trailer
  IN Units(all, 0, size, Len(all) \div size)

DigestOf(a, text) ==
  CASE a = "CRC32" -> text \o IF text = <<>> THEN <<>> ELSE Length(Len(text))
    [] a \in {"MD5", "SHA"} -> Padded(text, UnitSize, Length(Len(text)))
    [] a = "HAVAL" -> Padded(text, HavalUnitSize, <<"version">> \o Length(Len(text)))

Hashed == HashFinished /\ ~failed /\ Hashes # {}

(* In whatever pieces a text was read, and whatever its signatures were     *)
(* used for before, every digest of an entry is of that one text; and an    *)
(* entry has all the hashes it was asked for or, with an error, none.       *)
DigestsAsRead ==
  HashFinished =>
    /\ defined = IF failed THEN {} ELSE Hashes
    /\ Hashed => \A a \in Hashes : context[a].hashed = DigestOf(a, taken)

(* An object that nobody touched is in the entry whole, its size and its    *)
(* text of one moment; a file that only grew since it was opened is hashed  *)
(* as it was then or, if it is read directly, with a part of what was       *)
(* added.                                                                   *)
EntryWasThere ==
  Hashed =>
    /\ still => taken = file.text /\ type = file.type /\ stat \in {-1, Len(taken)}
    /\ grown => /\ IsPrefix(taken, file.text)
                /\ IF direct THEN Len(taken) >= archive.size ELSE Len(taken) = archive.size

(* Every digest is of the one text that was read, and the entry shows an    *)
(* untouched object as it was.                                              *)
DigestsOfText == DigestsAsRead /\ EntryWasThere
=============================================================================
