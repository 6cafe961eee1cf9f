------------------------- MODULE Installation_proofs -------------------------
(***************************************************************************)
(* Whatever commands are run, refused or killed, and however many: what a  *)
(* file held when the last command began is in the file or in its backup.  *)
(* The commands that encrypt and decrypt in place are the exception.       *)
(***************************************************************************)
EXTENDS Installation, SequenceTheorems, TLAPS

-----------------------------------------------------------------------------
(* What a sequence of steps does to a file f *)

IsSequence(s) == \E S : s \in Seq(S)
BackupSteps == {"unlink", "copy"}
WriteSteps  == {"truncate", "write"}

\* Nothing is done to f or to its backup.
Leaves(s, f) ==
    /\ IsSequence(s)
    /\ \A i \in 1 .. Len(s) : s[i].file = f => s[i].do \notin BackupSteps \cup WriteSteps

Backs(s, f) == \E i \in 1 .. Len(s) : s[i].file = f /\ s[i].do = "copy"

\* No backup is touched once the file is, and none removed once it is made.
InOrder(s, f) ==
    \A i, j \in 1 .. Len(s) :
        i < j /\ s[i].file = f /\ s[j].file = f
        => /\ s[j].do \in BackupSteps => s[i].do \notin WriteSteps
           /\ s[j].do = "unlink" => s[i].do # "copy"

\* The file is touched only after its backup has been made.
CopiedFirst(s, f) ==
    \A i \in 1 .. Len(s) :
        s[i].file = f /\ s[i].do \in WriteSteps
        => \E j \in 1 .. i - 1 : s[j].file = f /\ s[j].do = "copy"

Careful(s, f) == IsSequence(s) /\ InOrder(s, f) /\ CopiedFirst(s, f)

\* The file is overwritten and its backup left alone.
OnlyWrites(s, f) ==
    /\ IsSequence(s)
    /\ \A i \in 1 .. Len(s) : s[i].file = f => s[i].do \notin BackupSteps

-----------------------------------------------------------------------------
(* Lemmas about sequences of steps *)

\* The elements of a concatenation are those of its parts.
LEMMA Concatenated ==
  ASSUME NEW s, NEW t, IsSequence(s), IsSequence(t)
  PROVE  /\ IsSequence(s \o t)
         /\ Len(s) \in Nat /\ Len(t) \in Nat /\ Len(s \o t) = Len(s) + Len(t)
         /\ \A i \in 1 .. Len(s) : (s \o t)[i] = s[i]
         /\ \A i \in 1 .. Len(t) : (s \o t)[Len(s) + i] = t[i]
         /\ \A i \in 1 .. Len(s \o t) : i > Len(s) => /\ i - Len(s) \in 1 .. Len(t)
                                                      /\ (s \o t)[i] = t[i - Len(s)]
  <1>1. PICK S : s \in Seq(S)
    BY DEF IsSequence
  <1>2. PICK T : t \in Seq(T)
    BY DEF IsSequence
  <1>3. s \in Seq(S \cup T) /\ t \in Seq(S \cup T)
    <2>1. \A i \in 1 .. Len(s) : s[i] \in S
      BY <1>1, ElementOfSeq
    <2>2. \A i \in 1 .. Len(t) : t[i] \in T
      BY <1>2, ElementOfSeq
    <2>3. s \in [1 .. Len(s) -> S] /\ Len(s) \in Nat
      BY <1>1, LenProperties
    <2>4. t \in [1 .. Len(t) -> T] /\ Len(t) \in Nat
      BY <1>2, LenProperties
    <2>5. s \in [1 .. Len(s) -> S \cup T] /\ t \in [1 .. Len(t) -> S \cup T]
      BY <2>3, <2>4
    <2>. QED BY <2>3, <2>4, <2>5, SeqDef
  <1>4. s \o t \in Seq(S \cup T)
    BY <1>3, ConcatProperties
  <1>5. Len(s) \in Nat /\ Len(t) \in Nat /\ Len(s \o t) = Len(s) + Len(t)
        /\ \A i \in 1 .. Len(s) + Len(t) : (s \o t)[i] = IF i <= Len(s) THEN s[i]
                                                         ELSE t[i - Len(s)]
    BY <1>3, ConcatProperties, LenProperties
  <1>6. IsSequence(s \o t)
    BY <1>4 DEF IsSequence
  <1>. QED BY <1>5, <1>6

LEMMA LeavesIsCareful ==
  ASSUME NEW s, NEW f, Leaves(s, f)
  PROVE  Careful(s, f) /\ OnlyWrites(s, f)
  BY DEF Leaves, Careful, OnlyWrites, InOrder, CopiedFirst, BackupSteps, WriteSteps

LEMMA LeavesBoth ==
  ASSUME NEW s, NEW t, NEW f, Leaves(s, f), Leaves(t, f)
  PROVE  Leaves(s \o t, f)
  BY Concatenated DEF Leaves

LEMMA WritesAfter ==
  ASSUME NEW s, NEW t, NEW f, Leaves(s, f), OnlyWrites(t, f)
  PROVE  OnlyWrites(s \o t, f)
  BY Concatenated DEF Leaves, OnlyWrites

\* A sequence that leaves a file alone may come first.
LEMMA CarefulAfter ==
  ASSUME NEW s, NEW t, NEW f, Leaves(s, f), Careful(t, f)
  PROVE  Careful(s \o t, f) /\ (Backs(t, f) => Backs(s \o t, f))
  <1>1. IsSequence(s) /\ IsSequence(t)
    BY DEF Leaves, Careful
  <1>2. InOrder(s \o t, f)
    <2>. SUFFICES ASSUME NEW i \in 1 .. Len(s \o t), NEW j \in 1 .. Len(s \o t), i < j,
                         (s \o t)[i].file = f, (s \o t)[j].file = f
                  PROVE  /\ (s \o t)[j].do \in BackupSteps => (s \o t)[i].do \notin WriteSteps
                         /\ (s \o t)[j].do = "unlink" => (s \o t)[i].do # "copy"
      BY DEF InOrder
    <2>1. CASE i <= Len(s)
      BY <1>1, <2>1, Concatenated DEF Leaves, BackupSteps, WriteSteps
    <2>2. CASE i > Len(s)
      <3>1. /\ i - Len(s) \in 1 .. Len(t) /\ j - Len(s) \in 1 .. Len(t) /\ i - Len(s) < j - Len(s)
            /\ (s \o t)[i] = t[i - Len(s)] /\ (s \o t)[j] = t[j - Len(s)]
        BY <1>1, <2>2, Concatenated
      <3>. QED BY <3>1 DEF Careful, InOrder
    <2>. QED BY <1>1, <2>1, <2>2, Concatenated
  <1>3. CopiedFirst(s \o t, f)
    <2>. SUFFICES ASSUME NEW i \in 1 .. Len(s \o t), (s \o t)[i].file = f,
                         (s \o t)[i].do \in WriteSteps
                  PROVE  \E j \in 1 .. i - 1 : (s \o t)[j].file = f /\ (s \o t)[j].do = "copy"
      BY DEF CopiedFirst
    <2>1. i > Len(s)
      BY <1>1, Concatenated DEF Leaves
    <2>2. i - Len(s) \in 1 .. Len(t) /\ (s \o t)[i] = t[i - Len(s)]
      BY <1>1, <2>1, Concatenated
    <2>3. PICK k \in 1 .. (i - Len(s)) - 1 : t[k].file = f /\ t[k].do = "copy"
      BY <2>2 DEF Careful, CopiedFirst
    <2>4. k \in 1 .. Len(t) /\ Len(s) + k \in 1 .. i - 1
      BY <1>1, <2>2, Concatenated
    <2>5. (s \o t)[Len(s) + k] = t[k]
      BY <1>1, <2>4, Concatenated
    <2>. QED BY <2>3, <2>4, <2>5
  <1>4. ASSUME Backs(t, f) PROVE Backs(s \o t, f)
    <2>1. PICK k \in 1 .. Len(t) : t[k].file = f /\ t[k].do = "copy"
      BY <1>4 DEF Backs
    <2>2. Len(s) + k \in 1 .. Len(s \o t) /\ (s \o t)[Len(s) + k] = t[k]
      BY <1>1, Concatenated
    <2>. QED BY <2>1, <2>2 DEF Backs
  <1>. QED BY <1>1, <1>2, <1>3, <1>4, Concatenated DEF Careful

\* And one that only overwrites it may follow where it is backed up; one that
\* leaves it alone may follow anyway.
LEMMA CarefulBefore ==
  ASSUME NEW s, NEW t, NEW f, Careful(s, f), OnlyWrites(t, f), Backs(s, f) \/ Leaves(t, f)
  PROVE  Careful(s \o t, f) /\ (Backs(s, f) => Backs(s \o t, f))
  <1>1. IsSequence(s) /\ IsSequence(t)
    BY DEF OnlyWrites, Careful
  <1>2. InOrder(s \o t, f)
    <2>. SUFFICES ASSUME NEW i \in 1 .. Len(s \o t), NEW j \in 1 .. Len(s \o t), i < j,
                         (s \o t)[i].file = f, (s \o t)[j].file = f
                  PROVE  /\ (s \o t)[j].do \in BackupSteps => (s \o t)[i].do \notin WriteSteps
                         /\ (s \o t)[j].do = "unlink" => (s \o t)[i].do # "copy"
      BY DEF InOrder
    <2>1. CASE j <= Len(s)
      <3>1. /\ i \in 1 .. Len(s) /\ j \in 1 .. Len(s)
            /\ (s \o t)[i] = s[i] /\ (s \o t)[j] = s[j]
        BY <1>1, <2>1, Concatenated
      <3>. QED BY <3>1 DEF Careful, InOrder
    <2>2. CASE j > Len(s)
      BY <1>1, <2>2, Concatenated DEF OnlyWrites, BackupSteps
    <2>. QED BY <1>1, <2>1, <2>2, Concatenated
  <1>3. CopiedFirst(s \o t, f)
    <2>. SUFFICES ASSUME NEW i \in 1 .. Len(s \o t), (s \o t)[i].file = f,
                         (s \o t)[i].do \in WriteSteps
                  PROVE  \E j \in 1 .. i - 1 : (s \o t)[j].file = f /\ (s \o t)[j].do = "copy"
      BY DEF CopiedFirst
    <2>1. CASE i <= Len(s)
      <3>1. i \in 1 .. Len(s) /\ (s \o t)[i] = s[i]
        BY <1>1, <2>1, Concatenated
      <3>2. PICK k \in 1 .. i - 1 : s[k].file = f /\ s[k].do = "copy"
        BY <3>1 DEF Careful, CopiedFirst
      <3>3. k \in 1 .. Len(s)
        BY <1>1, <3>1, Concatenated
      <3>. QED BY <1>1, <3>2, <3>3, Concatenated
    <2>2. CASE i > Len(s)
      <3>1. Backs(s, f)
        BY <1>1, <2>2, Concatenated DEF Leaves
      <3>2. PICK k \in 1 .. Len(s) : s[k].file = f /\ s[k].do = "copy"
        BY <3>1 DEF Backs
      <3>3. k \in 1 .. i - 1
        BY <1>1, <2>2, Concatenated
      <3>. QED BY <1>1, <3>2, <3>3, Concatenated
    <2>. QED BY <1>1, <2>1, <2>2, Concatenated
  <1>4. ASSUME Backs(s, f) PROVE Backs(s \o t, f)
    <2>1. PICK k \in 1 .. Len(s) : s[k].file = f /\ s[k].do = "copy"
      BY <1>4 DEF Backs
    <2>2. k \in 1 .. Len(s \o t) /\ (s \o t)[k] = s[k]
      BY <1>1, Concatenated
    <2>. QED BY <2>1, <2>2 DEF Backs
  <1>. QED BY <1>1, <1>2, <1>3, <1>4, Concatenated DEF Careful

-----------------------------------------------------------------------------
(* The parts that commands are made of *)

LEMMA HarmlessStep ==
  ASSUME NEW f, NEW st, st.do \in {"ask", "reread"}
  PROVE  Leaves(<<st>>, f)
  <1>1. <<st>> \in Seq({st}) /\ Len(<<st>>) = 1 /\ <<st>>[1] = st
    OBVIOUS
  <1>2. IsSequence(<<st>>)
    BY <1>1 DEF IsSequence
  <1>3. \A i \in 1 .. Len(<<st>>) : <<st>>[i] = st
    BY <1>1
  <1>. QED BY <1>2, <1>3 DEF Leaves, BackupSteps, WriteSteps

LEMMA NoSteps ==
  ASSUME NEW f
  PROVE  Leaves(<<>>, f)
  <1>1. <<>> \in Seq({}) /\ Len(<<>>) = 0
    OBVIOUS
  <1>. QED BY <1>1 DEF Leaves, IsSequence

LEMMA AskPart ==
  ASSUME NEW f
  PROVE  Leaves(Ask, f) /\ \A e : Leaves(AskIf(e), f)
  BY HarmlessStep, NoSteps DEF Ask, AskIf, Step

LEMMA RereadPart ==
  ASSUME NEW f, NEW g
  PROVE  Leaves(<<Step("reread", g, Absent)>>, f)
  BY HarmlessStep DEF Step

LEMMA BackupPart ==
  ASSUME NEW f, NEW g
  PROVE  /\ Careful(BackupFile(g), f)
         /\ g = f => Backs(BackupFile(g), f)
         /\ g # f => Leaves(BackupFile(g), f)
  <1>. DEFINE u == Step("unlink", g, Absent)
              v == Step("copy", g, Absent)
  <1>1. /\ BackupFile(g) \in Seq({u, v}) /\ Len(BackupFile(g)) = 2
        /\ BackupFile(g)[1] = u /\ BackupFile(g)[2] = v
    BY DEF BackupFile
  <1>2. u.file = g /\ u.do = "unlink" /\ v.file = g /\ v.do = "copy"
    BY DEF Step
  <1>. HIDE DEF u, v
  <1>3. IsSequence(BackupFile(g))
    BY <1>1 DEF IsSequence
  <1>4. \A i \in 1 .. Len(BackupFile(g)) : i = 1 \/ i = 2
    BY <1>1
  <1>. QED BY <1>1, <1>2, <1>3, <1>4
           DEF Careful, InOrder, CopiedFirst, Backs, Leaves, BackupSteps, WriteSteps

LEMMA WritePart ==
  ASSUME NEW f, NEW g, NEW c
  PROVE  /\ OnlyWrites(WriteObject(g, c), f)
         /\ g # f => Leaves(WriteObject(g, c), f)
  <1>. DEFINE u == Step("truncate", g, c)
              v == Step("write", g, c)
  <1>1. /\ WriteObject(g, c) \in Seq({u, v}) /\ Len(WriteObject(g, c)) = 2
        /\ WriteObject(g, c)[1] = u /\ WriteObject(g, c)[2] = v
    BY DEF WriteObject
  <1>2. u.file = g /\ u.do = "truncate" /\ v.file = g /\ v.do = "write"
    BY DEF Step
  <1>. HIDE DEF u, v
  <1>3. IsSequence(WriteObject(g, c))
    BY <1>1 DEF IsSequence
  <1>4. \A i \in 1 .. Len(WriteObject(g, c)) : i = 1 \/ i = 2
    BY <1>1
  <1>. QED BY <1>1, <1>2, <1>3, <1>4 DEF OnlyWrites, Leaves, BackupSteps, WriteSteps

LEMMA OverwritePart ==
  ASSUME NEW f, NEW g, NEW c
  PROVE  /\ Careful(Overwrite(g, c), f)
         /\ g # f => Leaves(Overwrite(g, c), f)
  <1>1. CASE g = f
    BY <1>1, BackupPart, WritePart, CarefulBefore DEF Overwrite
  <1>2. CASE g # f
    BY <1>2, BackupPart, WritePart, LeavesBoth, LeavesIsCareful DEF Overwrite
  <1>. QED BY <1>1, <1>2

-----------------------------------------------------------------------------
(* The commands *)

LEMMA GenerateDatabaseCareful ==
  ASSUME NEW f, NEW e, NEW c
  PROVE  Careful(AskIf(e) \o Overwrite("db", c), f)
  BY AskPart, OverwritePart, CarefulAfter

LEMMA DatabaseOverwrittenCareful ==
  ASSUME NEW f, NEW fits
  PROVE  /\ Careful(DatabaseOverwritten(fits), f)
         /\ f # "db" => Leaves(DatabaseOverwritten(fits), f)
  <1>. DEFINE e == disk["db"].key # Unsigned
              c == Sealed(disk["db"].text, "db", e)
  <1>1. DatabaseOverwritten(fits) = Ask \o (IF fits THEN AskIf(e) \o Overwrite("db", c) ELSE <<>>)
    BY DEF DatabaseOverwritten
  <1>. HIDE DEF e, c
  <1>2. Careful(AskIf(e) \o Overwrite("db", c), f)
    BY GenerateDatabaseCareful
  <1>3. f # "db" => Leaves(AskIf(e) \o Overwrite("db", c), f)
    BY AskPart, OverwritePart, LeavesBoth
  <1>. QED BY <1>1, <1>2, <1>3, AskPart, NoSteps, CarefulAfter, LeavesBoth, LeavesIsCareful

LEMMA CheckCareful ==
  ASSUME NEW f, NEW e, NEW c, NEW update, NEW fits
  PROVE  Careful(AskIf(e) \o Overwrite("report", c)
                          \o (IF update THEN DatabaseOverwritten(fits) ELSE <<>>), f)
  <1>. DEFINE r == AskIf(e) \o Overwrite("report", c)
              d == IF update THEN DatabaseOverwritten(fits) ELSE <<>>
  <1>1. /\ Careful(r, f)
        /\ f # "report" => Leaves(r, f)
    BY AskPart, OverwritePart, CarefulAfter, LeavesBoth
  <1>2. Careful(d, f) /\ (f # "db" => Leaves(d, f))
    BY DatabaseOverwrittenCareful, NoSteps, LeavesIsCareful
  <1>. HIDE DEF r, d
  <1>3. Careful(r \o d, f)
    <2>1. CASE f = "report"
      BY <1>1, <1>2, <2>1, CarefulBefore, LeavesIsCareful
    <2>2. CASE f # "report"
      BY <1>1, <1>2, <2>2, CarefulAfter
    <2>. QED BY <2>1, <2>2
  <1>. QED BY <1>3 DEF r, d

LEMMA UpdatedFilesCareful ==
  ASSUME NEW f, NEW policy, NEW encPol, NEW encDb
  PROVE  Careful(UpdatedFiles(policy, encPol, encDb), f)
  <1>. DEFINE b == BackupFile("pol")
              w == WriteObject("pol", Sealed(policy, "pol", encPol))
              d == Overwrite("db", Sealed(policy, "db", encDb))
              a == Ask \o AskIf(encPol \/ encDb)
  <1>1. UpdatedFiles(policy, encPol, encDb) = a \o b \o Ask \o w \o d
    BY DEF UpdatedFiles, Overwrite
  <1>2. Leaves(a, f) /\ Leaves(Ask, f)
    BY AskPart, LeavesBoth
  <1>3. /\ Careful(b, f)
        /\ f = "pol" => Backs(b, f)
        /\ f # "pol" => Leaves(b, f)
    BY BackupPart
  <1>4. OnlyWrites(w, f) /\ (f # "pol" => Leaves(w, f))
    BY WritePart
  <1>5. Careful(d, f) /\ (f # "db" => Leaves(d, f))
    BY OverwritePart
  <1>. HIDE DEF a, b, w, d
  <1>6. CASE f = "pol"
    <2>1. Careful(a \o b, f) /\ Backs(a \o b, f)
      BY <1>2, <1>3, <1>6, CarefulAfter
    <2>2. Careful(a \o b \o Ask, f) /\ Backs(a \o b \o Ask, f)
      BY <1>2, <2>1, CarefulBefore, LeavesIsCareful
    <2>3. Careful(a \o b \o Ask \o w, f)
      BY <1>4, <2>2, CarefulBefore
    <2>. QED BY <1>1, <1>5, <1>6, <2>3, CarefulBefore, LeavesIsCareful
  <1>7. CASE f # "pol"
    <2>1. Leaves(a \o b \o Ask \o w, f)
      BY <1>2, <1>3, <1>4, <1>7, LeavesBoth
    <2>. QED BY <1>1, <1>5, <2>1, CarefulAfter
  <1>. QED BY <1>6, <1>7

LEMMA GenerateKeyCareful ==
  ASSUME NEW f, NEW g, NEW pair, NEW pass
  PROVE  /\ Careful(GenerateKeyOf(g, pair, pass), f)
         /\ f # g => Leaves(GenerateKeyOf(g, pair, pass), f)
  BY AskPart, OverwritePart, CarefulAfter, LeavesBoth DEF GenerateKeyOf

LEMMA ChangePassphraseCareful ==
  ASSUME NEW f, NEW g, NEW pass
  PROVE  /\ Careful(ChangePassphraseOf(g, pass), f)
         /\ f # g => Leaves(ChangePassphraseOf(g, pass), f)
  <1>. DEFINE b == BackupFile(g)
              r == <<Step("reread", g, Absent)>>
              w == WriteObject(g, [disk[g] EXCEPT !.pass = pass])
              t == IF IsWhole(disk, g) THEN Ask \o w ELSE <<>>
  <1>1. ChangePassphraseOf(g, pass) = b \o r \o t
    BY DEF ChangePassphraseOf
  <1>2. Leaves(r, f) /\ Leaves(Ask, f) /\ Leaves(<<>>, f)
    BY RereadPart, AskPart, NoSteps
  <1>3. /\ Careful(b, f)
        /\ f = g => Backs(b, f)
        /\ f # g => Leaves(b, f)
    BY BackupPart
  <1>4. OnlyWrites(w, f) /\ (f # g => Leaves(w, f))
    BY WritePart
  <1>5. Ask \o w = t \/ t = <<>>
    OBVIOUS
  <1>. HIDE DEF b, r, w, t
  <1>6. CASE f = g
    <2>1. Careful(b \o r, f) /\ Backs(b \o r, f)
      BY <1>2, <1>3, <1>6, CarefulBefore, LeavesIsCareful
    <2>2. OnlyWrites(t, f)
      BY <1>2, <1>4, <1>5, WritesAfter, LeavesIsCareful
    <2>. QED BY <1>1, <1>6, <2>1, <2>2, CarefulBefore
  <1>7. CASE f # g
    <2>1. Leaves(b \o r \o t, f)
      BY <1>2, <1>3, <1>4, <1>5, <1>7, LeavesBoth
    <2>. QED BY <1>1, <1>7, <2>1, LeavesIsCareful
  <1>. QED BY <1>6, <1>7

\* The site key and the local key, each or both.
LEMMA KeysCareful ==
  ASSUME NEW f, NEW site, NEW local, NEW s, NEW t,
         Careful(s, f), f # "site" => Leaves(s, f),
         Careful(t, f), f # "local" => Leaves(t, f)
  PROVE  Careful((IF site THEN s ELSE <<>>) \o (IF local THEN t ELSE <<>>), f)
  <1>. DEFINE a == IF site THEN s ELSE <<>>
              b == IF local THEN t ELSE <<>>
  <1>1. /\ Careful(a, f) /\ (f # "site" => Leaves(a, f))
        /\ Careful(b, f) /\ (f # "local" => Leaves(b, f))
    BY NoSteps, LeavesIsCareful
  <1>. HIDE DEF a, b
  <1>2. Careful(a \o b, f)
    <2>1. CASE f = "site"
      BY <1>1, <2>1, CarefulBefore, LeavesIsCareful
    <2>2. CASE f # "site"
      BY <1>1, <2>2, CarefulAfter
    <2>. QED BY <2>1, <2>2
  <1>. QED BY <1>2 DEF a, b

-----------------------------------------------------------------------------
(* The invariant *)

\* While there are steps left that touch the backup of f, f itself is as it was;
\* once there is none, the backup is what f was, or will be made before f is
\* touched.
Covered(f) ==
    /\ before[f] \in {disk[f], bak[f]}
    /\ InOrder(todo, f)
    /\ \A i \in 1 .. Len(todo) :
          todo[i].file = f /\ todo[i].do \in BackupSteps => disk[f] = before[f]
    /\ \/ /\ bak[f] = before[f]
          /\ \A i \in 1 .. Len(todo) : todo[i].file = f => todo[i].do # "unlink"
       \/ CopiedFirst(todo, f)

IInv ==
    /\ disk = [f \in Files |-> disk[f]] /\ bak = [f \in Files |-> bak[f]]
    /\ op \notin {"Encrypt", "RemoveEncryption"} =>
         /\ IsSequence(todo)
         /\ \A f \in Files : IsWhole(before, f) => Covered(f)

\* A command begins with files that are as they were, and is careful with each.
LEMMA BeginKeepsInv ==
  ASSUME IInv, NEW name, NEW able, NEW steps, Begin(name, able, steps),
         name \notin {"Encrypt", "RemoveEncryption"} => \A f : Careful(steps, f)
  PROVE  IInv'
  <1>1. /\ disk' = disk /\ bak' = bak /\ before' = disk /\ op' = name
        /\ todo' = IF able THEN steps ELSE <<>>
    BY DEF Begin
  <1>2. ASSUME name \notin {"Encrypt", "RemoveEncryption"}
        PROVE  IsSequence(todo') /\ \A f \in Files : Covered(f)'
    <2>1. \A f : Careful(todo', f)
      BY <1>1, <1>2, NoSteps, LeavesIsCareful
    <2>. QED BY <1>1, <2>1 DEF Careful, Covered
  <1>. QED BY <1>1, <1>2 DEF IInv

\* A command that gives up has no steps left.
LEMMA GiveUpKeepsInv ==
  ASSUME IInv, NEW how, GiveUp(how)
  PROVE  IInv'
  <1>1. UNCHANGED <<disk, bak, before, op>> /\ todo' = <<>>
    BY DEF GiveUp
  <1>2. \A f : Careful(<<>>, f)
    BY NoSteps, LeavesIsCareful
  <1>3. Len(<<>>) = 0
    OBVIOUS
  <1>. QED BY <1>1, <1>2, <1>3 DEF IInv, Covered, Careful, IsWhole

\* What is true of the steps that are left when the first has been taken.
LEMMA Remaining ==
  ASSUME NEW s, IsSequence(s), s # <<>>
  PROVE  /\ IsSequence(Tail(s)) /\ Head(s) = s[1]
         /\ Len(s) \in Nat /\ Len(s) > 0 /\ Len(Tail(s)) = Len(s) - 1
         /\ \A i \in 1 .. Len(Tail(s)) : i + 1 \in 1 .. Len(s) /\ Tail(s)[i] = s[i + 1]
  <1>1. PICK S : s \in Seq(S)
    BY DEF IsSequence
  <1>2. /\ Tail(s) \in Seq(S) /\ Head(s) = s[1] /\ Len(Tail(s)) = Len(s) - 1
        /\ \A i \in 1 .. Len(Tail(s)) : Tail(s)[i] = s[i + 1]
    BY <1>1, HeadTailProperties
  <1>3. Len(s) \in Nat /\ Len(s) > 0
    BY <1>1, EmptySeq, LenProperties
  <1>. QED BY <1>2, <1>3 DEF IsSequence

LEMMA RemainingInOrder ==
  ASSUME NEW s, NEW f, IsSequence(s), s # <<>>, InOrder(s, f)
  PROVE  /\ InOrder(Tail(s), f)
         /\ \A i \in 1 .. Len(Tail(s)) :
               Head(s).file = f /\ Tail(s)[i].file = f =>
                 /\ Head(s).do \in WriteSteps => Tail(s)[i].do \notin BackupSteps
                 /\ Head(s).do = "copy" => Tail(s)[i].do # "unlink"
         /\ CopiedFirst(s, f) /\ (Head(s).file = f => Head(s).do # "copy")
               => CopiedFirst(Tail(s), f)
         /\ CopiedFirst(s, f) /\ Head(s).file = f => Head(s).do \notin WriteSteps
  <1>1. InOrder(Tail(s), f)
    BY Remaining DEF InOrder
  <1>2. ASSUME NEW i \in 1 .. Len(Tail(s)), Head(s).file = f, Tail(s)[i].file = f
        PROVE  /\ Head(s).do \in WriteSteps => Tail(s)[i].do \notin BackupSteps
               /\ Head(s).do = "copy" => Tail(s)[i].do # "unlink"
    <2>1. 1 \in 1 .. Len(s) /\ i + 1 \in 1 .. Len(s) /\ 1 < i + 1
          /\ Head(s) = s[1] /\ Tail(s)[i] = s[i + 1]
      BY Remaining
    <2>. QED BY <1>2, <2>1 DEF InOrder
  <1>3. ASSUME CopiedFirst(s, f), Head(s).file = f => Head(s).do # "copy"
        PROVE  CopiedFirst(Tail(s), f)
    <2>. SUFFICES ASSUME NEW i \in 1 .. Len(Tail(s)), Tail(s)[i].file = f,
                         Tail(s)[i].do \in WriteSteps
                  PROVE  \E j \in 1 .. i - 1 : Tail(s)[j].file = f /\ Tail(s)[j].do = "copy"
      BY DEF CopiedFirst
    <2>1. i + 1 \in 1 .. Len(s) /\ Tail(s)[i] = s[i + 1] /\ i \in Nat
      BY Remaining
    <2>2. PICK k \in 1 .. (i + 1) - 1 : s[k].file = f /\ s[k].do = "copy"
      BY <1>3, <2>1 DEF CopiedFirst
    <2>3. k # 1
      BY <1>3, <2>2, Remaining
    <2>4. k - 1 \in 1 .. i - 1 /\ k - 1 \in 1 .. Len(Tail(s)) /\ (k - 1) + 1 = k
      BY <2>1, <2>2, <2>3, Remaining
    <2>5. Tail(s)[k - 1] = s[k]
      BY <2>4, Remaining
    <2>. QED BY <2>2, <2>4, <2>5
  <1>4. ASSUME CopiedFirst(s, f), Head(s).file = f PROVE Head(s).do \notin WriteSteps
    <2>1. 1 \in 1 .. Len(s) /\ Head(s) = s[1] /\ 1 .. 1 - 1 = {}
      BY Remaining
    <2>. QED BY <1>4, <2>1 DEF CopiedFirst
  <1>. QED BY <1>1, <1>2, <1>3, <1>4

\* A step on the file f, or on another one.
LEMMA StepKeepsCovered ==
  ASSUME NEW f, IsWhole(before, f), Covered(f), IsSequence(todo), todo # <<>>,
         todo' = Tail(todo), before' = before,
         Head(todo).file # f \/ Head(todo).do \notin BackupSteps \cup WriteSteps
            => disk'[f] = disk[f] /\ bak'[f] = bak[f],
         Head(todo).file = f /\ Head(todo).do = "unlink" => disk'[f] = disk[f],
         Head(todo).file = f /\ Head(todo).do = "copy" /\ disk[f] # Absent
            => disk'[f] = disk[f] /\ bak'[f] = disk[f],
         Head(todo).file = f /\ Head(todo).do \in WriteSteps => bak'[f] = bak[f]
  PROVE  Covered(f)'
  <1>1. /\ InOrder(todo, f) /\ before[f] # Absent /\ before[f] \in {disk[f], bak[f]}
        /\ \/ /\ bak[f] = before[f]
              /\ \A i \in 1 .. Len(todo) : todo[i].file = f => todo[i].do # "unlink"
           \/ CopiedFirst(todo, f)
        /\ \A i \in 1 .. Len(todo) :
              todo[i].file = f /\ todo[i].do \in BackupSteps => disk[f] = before[f]
    BY DEF Covered, IsWhole
  <1>2. /\ 1 \in 1 .. Len(todo) /\ Head(todo) = todo[1]
        /\ \A i \in 1 .. Len(todo') : i + 1 \in 1 .. Len(todo) /\ todo'[i] = todo[i + 1]
    BY Remaining
  <1>3. InOrder(todo', f)
    BY <1>1, RemainingInOrder
  <1>4. CASE Head(todo).file # f \/ Head(todo).do \notin BackupSteps \cup WriteSteps
    <2>1. disk'[f] = disk[f] /\ bak'[f] = bak[f] /\ before'[f] = before[f]
      BY <1>4
    <2>2. CopiedFirst(todo, f) => CopiedFirst(todo', f)
      BY <1>1, <1>4, RemainingInOrder DEF BackupSteps
    <2>. QED BY <1>1, <1>2, <1>3, <2>1, <2>2 DEF Covered
  <1>5. CASE Head(todo).file = f /\ Head(todo).do = "unlink"
    <2>1. disk[f] = before[f] /\ disk'[f] = disk[f] /\ before'[f] = before[f]
      BY <1>1, <1>2, <1>5 DEF BackupSteps
    <2>2. CopiedFirst(todo, f)
      BY <1>1, <1>2, <1>5
    <2>3. CopiedFirst(todo', f)
      BY <1>1, <1>5, <2>2, RemainingInOrder
    <2>. QED BY <1>3, <2>1, <2>3 DEF Covered
  <1>6. CASE Head(todo).file = f /\ Head(todo).do = "copy"
    <2>1. disk[f] = before[f] /\ before'[f] = before[f]
      BY <1>1, <1>2, <1>6 DEF BackupSteps
    <2>2. disk'[f] = before[f] /\ bak'[f] = before[f]
      BY <1>1, <1>6, <2>1
    <2>3. \A i \in 1 .. Len(todo') : todo'[i].file = f => todo'[i].do # "unlink"
      BY <1>1, <1>6, RemainingInOrder
    <2>. QED BY <1>3, <2>1, <2>2, <2>3 DEF Covered
  <1>7. CASE Head(todo).file = f /\ Head(todo).do \in WriteSteps
    <2>1. bak'[f] = bak[f] /\ before'[f] = before[f]
      BY <1>7
    <2>2. ~CopiedFirst(todo, f)
      BY <1>1, <1>7, RemainingInOrder
    <2>3. \A i \in 1 .. Len(todo') : todo'[i].file = f => todo'[i].do \notin BackupSteps
      BY <1>1, <1>7, RemainingInOrder
    <2>. QED BY <1>1, <1>3, <2>1, <2>2, <2>3 DEF Covered, BackupSteps
  <1>. QED BY <1>4, <1>5, <1>6, <1>7 DEF BackupSteps, WriteSteps

LEMMA StepKeepsInv ==
  ASSUME IInv, \/ Asked \/ UnlinkBackup \/ CopyToBackup \/ ReadAgain \/ Truncate \/ WriteOut
  PROVE  IInv'
  <1>. DEFINE g == Head(todo).file
  <1>1. todo # <<>> /\ todo' = Tail(todo) /\ before' = before /\ op' = op
    BY DEF Asked, UnlinkBackup, CopyToBackup, ReadAgain, Truncate, WriteOut, At, GoOn
  <1>2. disk' = [f \in Files |-> disk'[f]] /\ bak' = [f \in Files |-> bak'[f]]
    BY DEF Asked, UnlinkBackup, CopyToBackup, ReadAgain, Truncate, WriteOut, IInv
  <1>3. ASSUME op \notin {"Encrypt", "RemoveEncryption"}, NEW f \in Files, IsWhole(before, f)
        PROVE  Covered(f)'
    <2>1. Covered(f) /\ IsSequence(todo)
      BY <1>3 DEF IInv
    <2>2. /\ Asked \/ ReadAgain => /\ UNCHANGED <<disk, bak>>
                                   /\ Head(todo).do \in {"ask", "reread"}
          /\ UnlinkBackup => /\ disk' = disk /\ Head(todo).do = "unlink"
                             /\ f # g => bak'[f] = bak[f]
          /\ CopyToBackup => /\ disk' = disk /\ Head(todo).do = "copy"
                             /\ f # g => bak'[f] = bak[f]
                             /\ f = g /\ disk[f] # Absent => bak'[f] = disk[f]
          /\ Truncate \/ WriteOut => /\ bak' = bak /\ Head(todo).do \in WriteSteps
                                     /\ f # g => disk'[f] = disk[f]
      BY <1>3 DEF Asked, UnlinkBackup, CopyToBackup, ReadAgain, Truncate, WriteOut, At, IInv,
                  WriteSteps
    <2>. QED BY <1>1, <1>3, <2>1, <2>2, StepKeepsCovered DEF BackupSteps, WriteSteps
  <1>4. op \notin {"Encrypt", "RemoveEncryption"} => IsSequence(todo')
    BY <1>1, Remaining DEF IInv
  <1>. QED BY <1>1, <1>2, <1>3, <1>4 DEF IInv, IsWhole

LEMMA InitEstablishesInv == Init => IInv
  <1>. SUFFICES ASSUME Init PROVE IInv
    OBVIOUS
  <1>1. before = disk /\ todo = <<>> /\ bak = [f \in Files |-> Absent]
    BY DEF Init
  <1>2. disk = [f \in Files |-> disk[f]]
    BY DEF Init, Files, KeyFiles, Signed
  <1>3. IsSequence(todo) /\ \A f : Careful(todo, f)
    BY <1>1, NoSteps, LeavesIsCareful DEF Leaves
  <1>4. Len(todo) = 0
    BY <1>1
  <1>. QED BY <1>1, <1>2, <1>3, <1>4 DEF IInv, Covered, Careful

LEMMA TripwireKeepsInv == IInv /\ Tripwire => IInv'
  <1>. SUFFICES ASSUME IInv, Tripwire PROVE IInv'
    OBVIOUS
  <1>1. CASE \E enc \in BOOLEAN : GenerateDatabase(enc)
    BY <1>1, BeginKeepsInv, GenerateDatabaseCareful DEF GenerateDatabase
  <1>2. CASE \E objects, enc, update, fits \in BOOLEAN : Check(objects, enc, update, fits)
    BY <1>2, BeginKeepsInv, CheckCareful DEF Check
  <1>3. CASE \E fits \in BOOLEAN : UpdateDatabase(fits)
    BY <1>3, BeginKeepsInv, DatabaseOverwrittenCareful DEF UpdateDatabase
  <1>4. CASE \E policy \in Policies, header \in BOOLEAN : UpdatePolicy(policy, header)
    BY <1>4, BeginKeepsInv, UpdatedFilesCareful DEF UpdatePolicy
  <1>. QED BY <1>1, <1>2, <1>3, <1>4 DEF Tripwire

LEMMA TwadminKeepsInv == IInv /\ Twadmin => IInv'
  <1>. SUFFICES ASSUME IInv, Twadmin PROVE IInv'
    OBVIOUS
  <1>1. ASSUME NEW g, NEW e, NEW c, NEW f PROVE Careful(AskIf(e) \o Overwrite(g, c), f)
    BY AskPart, OverwritePart, CarefulAfter
  <1>2. CASE \E enc, same \in BOOLEAN : CreateConfig(enc, same)
    BY <1>1, <1>2, BeginKeepsInv DEF CreateConfig
  <1>3. CASE \E policy \in Policies, enc \in BOOLEAN : CreatePolicy(policy, enc)
    BY <1>1, <1>3, BeginKeepsInv DEF CreatePolicy
  <1>4. CASE \E site, local \in BOOLEAN, pass \in Passphrases : GenerateKeys(site, local, pass)
    <2>1. PICK site \in BOOLEAN, local \in BOOLEAN, pass \in Passphrases :
             GenerateKeys(site, local, pass)
      BY <1>4
    <2>. DEFINE s == GenerateKeyOf("site", pairs + 1, pass)
                last == pairs + (IF site THEN 1 ELSE 0) + (IF local THEN 1 ELSE 0)
                t == GenerateKeyOf("local", last, pass)
    <2>2. Begin("GenerateKeys", TRUE,
                (IF site THEN s ELSE <<>>) \o (IF local THEN t ELSE <<>>))
      BY <2>1 DEF GenerateKeys
    <2>3. \A f : /\ Careful(s, f) /\ (f # "site" => Leaves(s, f))
                 /\ Careful(t, f) /\ (f # "local" => Leaves(t, f))
      BY GenerateKeyCareful
    <2>. HIDE DEF s, t
    <2>4. \A f : Careful((IF site THEN s ELSE <<>>) \o (IF local THEN t ELSE <<>>), f)
      BY <2>3, KeysCareful
    <2>. QED BY <2>2, <2>4, BeginKeepsInv
  <1>5. CASE \E site, local \in BOOLEAN, pass \in Passphrases : ChangePassphrases(site, local, pass)
    <2>1. PICK site \in BOOLEAN, local \in BOOLEAN, pass \in Passphrases :
             ChangePassphrases(site, local, pass)
      BY <1>5
    <2>. DEFINE s == ChangePassphraseOf("site", pass)
                t == ChangePassphraseOf("local", pass)
                able == /\ site => disk["site"] # Absent
                        /\ local => disk["local"] # Absent
    <2>2. Begin("ChangePassphrases", able,
                (IF site THEN s ELSE <<>>) \o (IF local THEN t ELSE <<>>))
      BY <2>1 DEF ChangePassphrases
    <2>3. \A f : /\ Careful(s, f) /\ (f # "site" => Leaves(s, f))
                 /\ Careful(t, f) /\ (f # "local" => Leaves(t, f))
      BY ChangePassphraseCareful
    <2>. HIDE DEF s, t, able
    <2>4. \A f : Careful((IF site THEN s ELSE <<>>) \o (IF local THEN t ELSE <<>>), f)
      BY <2>3, KeysCareful
    <2>. QED BY <2>2, <2>4, BeginKeepsInv
  <1>6. CASE \E f, g \in Signed : Encrypt(f, g) \/ RemoveEncryption(f, g)
    BY <1>6, BeginKeepsInv DEF Encrypt, RemoveEncryption
  <1>. QED BY <1>2, <1>3, <1>4, <1>5, <1>6 DEF Twadmin

LEMMA NextKeepsInv == IInv /\ [Next]_vars => IInv'
  <1>. SUFFICES ASSUME IInv, [Next]_vars PROVE IInv'
    OBVIOUS
  <1>1. CASE Tripwire
    BY <1>1, TripwireKeepsInv
  <1>2. CASE Twadmin
    BY <1>2, TwadminKeepsInv
  <1>3. CASE Refused \/ ReadFails \/ Finish \/ Killed
    BY <1>3, GiveUpKeepsInv DEF Refused, ReadFails, Finish, Killed
  <1>4. CASE Asked \/ UnlinkBackup \/ CopyToBackup \/ ReadAgain \/ Truncate \/ WriteOut
    BY <1>4, StepKeepsInv
  <1>5. CASE UNCHANGED vars
    BY <1>5 DEF vars, IInv, Covered, IsWhole
  <1>. QED BY <1>1, <1>2, <1>3, <1>4, <1>5 DEF Next, Steps

-----------------------------------------------------------------------------
(* Theorem *)

\* However many commands are run on however many policies, passphrases and keys,
\* and wherever each of them is refused or killed, what a file held when the last
\* one began is in the file or in its backup; twadmin --encrypt and
\* --remove-encryption excepted (BackupFile before every WriteObject).
THEOREM OldContentSurvives == Spec => []OldContentKept
  <1>1. IInv => OldContentKept
    BY DEF IInv, OldContentKept, KeptOf, Covered
  <1>. QED BY <1>1, InitEstablishesInv, NextKeepsInv, PTL DEF Spec

-----------------------------------------------------------------------------
(* What the commands leave of the files.  A command asks, and may then be  *)
(* refused, only between files; what it writes to a file is fixed when it  *)
(* begins; and a file that it has truncated it writes at once.             *)

Sound(s) ==
    /\ IsSequence(s)
    /\ \A i \in 1 .. Len(s) :
          /\ s[i].file \in Files
          /\ s[i].do = "write" => s[i].new \in Contents(s[i].file)
          /\ s[i].do = "truncate" =>
               i + 1 \in 1 .. Len(s) /\ s[i + 1].do = "write" /\ s[i + 1].file = s[i].file

\* What is written to which file.
Written(s) == {<<s[i].file, s[i].new>> : i \in {k \in 1 .. Len(s) : s[k].do = "write"}}

Asking == {"ask", "reread"}
Asks(s) == \E i \in 1 .. Len(s) : s[i].do \in Asking

\* The command asks nothing after it has written a file, unless it is in F.
Settled(s, F) ==
    \A i, j \in 1 .. Len(s) : i < j /\ s[i].do = "write" /\ s[j].do \in Asking => s[i].file \in F

\* The content c of the file f serves as the one on the disk d did: a key is the key
\* that it was, and what could be read still can.
Serves(d, f, c) ==
    IF f \in KeyFiles
    THEN IsWhole(d, f) => c \in Contents(f) /\ c.pair = d[f].pair
    ELSE Opens(d, f, d) =>
           /\ c \in Contents(f)
           /\ c.key # Unsigned => IsWhole(d, KeyFileOf(f)) /\ c.key = d[KeyFileOf(f)].pair

\* The content c of f is for the given policy, and can be read with the key on the disk d.
Fits(d, f, c, policy) ==
    /\ c \in Contents(f) /\ c.text = policy
    /\ c.key # Unsigned => c.key = d[KeyFileOf(f)].pair

\* The file was truncated by the last step, and the next one writes it.
Truncated(f) == todo # <<>> /\ Head(todo).do = "write" /\ Head(todo).file = f

OnDisk(d) ==
    /\ d = [f \in Files |-> d[f]]
    /\ \A f \in Files : d[f] \in Contents(f) \cup {Absent, Damaged}

Typed == OnDisk(disk) /\ OnDisk(before) /\ pairs \in 2 .. MaxPairs

Planned ==
    /\ Sound(todo) /\ Settled(todo, DoneWith(op))
    /\ status # "running" => todo = <<>>

\* What has been written and what is as it was.
Untouched ==
    status # "killed" =>
      \A f \in Files : disk[f] # before[f] =>
        /\ IsWhole(disk, f) \/ Truncated(f)
        /\ Asks(todo) \/ status = "refused" => f \in DoneWith(op)

Serving ==
    IF op = "GenerateKeys"
    THEN /\ \A w \in Written(todo) : w[1] \in KeyFiles
         /\ \A f \in Signed : disk[f] = before[f]
    ELSE /\ \A w \in Written(todo) : Serves(before, w[1], w[2])
         /\ status # "killed" => \A f \in Files : Serves(before, f, disk[f]) \/ Truncated(f)

Updating ==
    op = "UpdatePolicy" /\ status \in {"running", "done"} =>
      /\ \A w \in Written(todo) : w[1] \notin KeyFiles
      /\ IsWhole(disk, "site") /\ IsWhole(disk, "local")
      /\ \E policy \in Policies : \A f \in {"pol", "db"} :
           /\ \A w \in Written(todo) : w[1] = f => Fits(disk, f, w[2], policy)
           /\ (\E w \in Written(todo) : w[1] = f) \/ Fits(disk, f, disk[f], policy)

FInv == Typed /\ Planned /\ Untouched /\ Serving /\ Updating

-----------------------------------------------------------------------------
(* Lemmas about sequences of steps, once more *)

\* A sequence made of two has what both have.
LEMMA Joined ==
  ASSUME NEW s, NEW t, Sound(s), Sound(t)
  PROVE  /\ Sound(s \o t)
         /\ Written(s \o t) = Written(s) \cup Written(t)
         /\ Asks(s \o t) <=> Asks(s) \/ Asks(t)
  <1>1. IsSequence(s) /\ IsSequence(t)
    BY DEF Sound
  <1>. DEFINE st == s \o t
  <1>2. /\ IsSequence(st) /\ Len(s) \in Nat /\ Len(t) \in Nat /\ Len(st) = Len(s) + Len(t)
        /\ \A i \in 1 .. Len(s) : st[i] = s[i]
        /\ \A i \in 1 .. Len(t) : st[Len(s) + i] = t[i]
        /\ \A i \in 1 .. Len(st) : i > Len(s) => i - Len(s) \in 1 .. Len(t) /\ st[i] = t[i - Len(s)]
    BY <1>1, Concatenated
  <1>. HIDE DEF st
  <1>3. \A i \in 1 .. Len(s) : i \in 1 .. Len(st) /\ i + 1 \in Int
    BY <1>2
  <1>4. \A i \in 1 .. Len(t) : Len(s) + i \in 1 .. Len(st)
    BY <1>2
  <1>5. Sound(st)
    <2>. SUFFICES ASSUME NEW i \in 1 .. Len(st)
                  PROVE  /\ st[i].file \in Files
                         /\ st[i].do = "write" => st[i].new \in Contents(st[i].file)
                         /\ st[i].do = "truncate" => /\ i + 1 \in 1 .. Len(st)
                                                     /\ st[i + 1].do = "write"
                                                     /\ st[i + 1].file = st[i].file
      BY <1>2 DEF Sound
    <2>1. CASE i <= Len(s)
      <3>1. i \in 1 .. Len(s) /\ st[i] = s[i]
        BY <1>2, <2>1
      <3>2. ASSUME i + 1 \in 1 .. Len(s)
            PROVE  i + 1 \in 1 .. Len(st) /\ st[i + 1] = s[i + 1]
        BY <1>2, <1>3, <3>2
      <3>. QED BY <3>1, <3>2 DEF Sound
    <2>2. CASE i > Len(s)
      <3>1. i - Len(s) \in 1 .. Len(t) /\ st[i] = t[i - Len(s)]
        BY <1>2, <2>2
      <3>2. ASSUME i - Len(s) + 1 \in 1 .. Len(t)
            PROVE  i + 1 \in 1 .. Len(st) /\ st[i + 1] = t[i - Len(s) + 1]
        BY <1>2, <2>2, <3>2
      <3>. QED BY <3>1, <3>2 DEF Sound
    <2>. QED BY <1>2, <2>1, <2>2
  <1>6. Written(st) = Written(s) \cup Written(t)
    BY <1>2, <1>3, <1>4 DEF Written
  <1>7. Asks(st) <=> Asks(s) \/ Asks(t)
    <2>1. ASSUME Asks(st) PROVE Asks(s) \/ Asks(t)
      <3>1. PICK i \in 1 .. Len(st) : st[i].do \in Asking
        BY <2>1 DEF Asks
      <3>2. CASE i <= Len(s)
        BY <1>2, <3>1, <3>2 DEF Asks
      <3>3. CASE i > Len(s)
        BY <1>2, <3>1, <3>3 DEF Asks
      <3>. QED BY <1>2, <3>2, <3>3
    <2>2. Asks(s) => Asks(st)
      BY <1>2, <1>3 DEF Asks
    <2>3. Asks(t) => Asks(st)
      BY <1>2, <1>4 DEF Asks
    <2>. QED BY <2>1, <2>2, <2>3
  <1>. QED BY <1>5, <1>6, <1>7 DEF st

LEMMA JoinedSettled ==
  ASSUME NEW s, NEW t, NEW F, Sound(s), Sound(t), Settled(s, F), Settled(t, F),
         Asks(t) => \A w \in Written(s) : w[1] \in F
  PROVE  Settled(s \o t, F)
  <1>1. IsSequence(s) /\ IsSequence(t)
    BY DEF Sound
  <1>. DEFINE st == s \o t
  <1>2. /\ Len(s) \in Nat /\ Len(t) \in Nat /\ Len(st) = Len(s) + Len(t)
        /\ \A i \in 1 .. Len(s) : st[i] = s[i]
        /\ \A i \in 1 .. Len(st) : i > Len(s) => i - Len(s) \in 1 .. Len(t) /\ st[i] = t[i - Len(s)]
    BY <1>1, Concatenated
  <1>. HIDE DEF st
  <1>. SUFFICES ASSUME NEW i \in 1 .. Len(st), NEW j \in 1 .. Len(st), i < j,
                       st[i].do = "write", st[j].do \in Asking
                PROVE  st[i].file \in F
    BY DEF Settled, st
  <1>3. CASE j <= Len(s)
    BY <1>2, <1>3 DEF Settled
  <1>4. CASE i <= Len(s) /\ j > Len(s)
    <2>1. Asks(t)
      BY <1>2, <1>4 DEF Asks
    <2>2. i \in 1 .. Len(s) /\ s[i].do = "write" /\ st[i] = s[i]
      BY <1>2, <1>4
    <2>3. <<s[i].file, s[i].new>> \in Written(s)
      BY <2>2 DEF Written
    <2>. QED BY <2>1, <2>2, <2>3
  <1>5. CASE i > Len(s)
    <2>1. /\ i - Len(s) \in 1 .. Len(t) /\ st[i] = t[i - Len(s)]
          /\ j - Len(s) \in 1 .. Len(t) /\ st[j] = t[j - Len(s)]
          /\ i - Len(s) < j - Len(s)
      BY <1>2, <1>5
    <2>. QED BY <2>1 DEF Settled
  <1>. QED BY <1>2, <1>3, <1>4, <1>5

\* A sequence that writes nothing.
Silent(s) == Sound(s) /\ Written(s) = {}

LEMMA SilentSettled ==
  ASSUME NEW s, NEW F, Sound(s), Silent(s) \/ ~Asks(s)
  PROVE  Settled(s, F)
  <1>1. \A i \in 1 .. Len(s) : s[i].do = "write" => <<s[i].file, s[i].new>> \in Written(s)
    BY DEF Written
  <1>. QED BY <1>1 DEF Silent, Settled, Asks

LEMMA EmptySilent == Silent(<<>>) /\ ~Asks(<<>>)
  <1>1. IsSequence(<<>>) /\ 1 .. Len(<<>>) = {}
    BY NoSteps DEF Leaves
  <1>. QED BY <1>1 DEF Silent, Sound, Written, Asks

LEMMA AskSilent ==
  /\ Silent(Ask)
  /\ \A e : Silent(AskIf(e))
  <1>. DEFINE u == Step("ask", "db", Absent)
  <1>1. Ask \in Seq({u}) /\ Len(Ask) = 1 /\ Ask[1] = u /\ u.file = "db" /\ u.do = "ask"
    BY DEF Ask, Step
  <1>. HIDE DEF u
  <1>2. Silent(Ask)
    BY <1>1 DEF Silent, Sound, Written, IsSequence, Files, Signed
  <1>. QED BY <1>2, EmptySilent DEF AskIf

LEMMA RereadSilent ==
  ASSUME NEW f \in Files
  PROVE  Silent(<<Step("reread", f, Absent)>>)
  <1>. DEFINE u == Step("reread", f, Absent)
              s == <<u>>
  <1>1. s \in Seq({u}) /\ Len(s) = 1 /\ s[1] = u /\ u.file = f /\ u.do = "reread"
    BY DEF Step
  <1>. HIDE DEF u, s
  <1>2. Silent(s)
    BY <1>1 DEF Silent, Sound, Written, IsSequence
  <1>. QED BY <1>2 DEF u, s

LEMMA BackupSilent ==
  ASSUME NEW f \in Files
  PROVE  Silent(BackupFile(f)) /\ ~Asks(BackupFile(f))
  <1>. DEFINE u == Step("unlink", f, Absent)
              v == Step("copy", f, Absent)
  <1>1. /\ BackupFile(f) \in Seq({u, v}) /\ Len(BackupFile(f)) = 2
        /\ BackupFile(f)[1] = u /\ BackupFile(f)[2] = v
        /\ u.file = f /\ u.do = "unlink" /\ v.file = f /\ v.do = "copy"
    BY DEF BackupFile, Step
  <1>. HIDE DEF u, v
  <1>2. \A i \in 1 .. Len(BackupFile(f)) : i = 1 \/ i = 2
    BY <1>1
  <1>. QED BY <1>1, <1>2 DEF Silent, Sound, Written, Asks, Asking, IsSequence

\* A file is written in one go.
LEMMA WriteSound ==
  ASSUME NEW f \in Files, NEW c \in Contents(f)
  PROVE  /\ Sound(WriteObject(f, c)) /\ Written(WriteObject(f, c)) = {<<f, c>>}
         /\ ~Asks(WriteObject(f, c))
  <1>. DEFINE u == Step("truncate", f, c)
              v == Step("write", f, c)
              s == WriteObject(f, c)
  <1>1. /\ s \in Seq({u, v}) /\ Len(s) = 2 /\ s[1] = u /\ s[2] = v
        /\ u.file = f /\ u.do = "truncate" /\ v.file = f /\ v.do = "write" /\ v.new = c
    BY DEF WriteObject, Step
  <1>. HIDE DEF u, v, s
  <1>2. 1 .. Len(s) = {1, 2} /\ 1 + 1 = 2
    BY <1>1
  <1>3. Sound(s)
    BY <1>1, <1>2 DEF Sound, IsSequence
  <1>4. Written(s) = {<<f, c>>} /\ ~Asks(s)
    BY <1>1, <1>2 DEF Written, Asks, Asking
  <1>. QED BY <1>3, <1>4 DEF s

LEMMA OverwriteSound ==
  ASSUME NEW f \in Files, NEW c \in Contents(f)
  PROVE  /\ Sound(Overwrite(f, c)) /\ Written(Overwrite(f, c)) = {<<f, c>>}
         /\ ~Asks(Overwrite(f, c))
  BY WriteSound, BackupSilent, Joined DEF Overwrite, Silent

-----------------------------------------------------------------------------
(* The commands, once more *)

LEMMA FilesAre ==
  /\ KeyFiles \subseteq Files /\ Signed \subseteq Files /\ KeyFiles \cap Signed = {}
  /\ \A f \in Signed : KeyFileOf(f) \in KeyFiles
  /\ KeyFileOf("cfg") = "site" /\ KeyFileOf("pol") = "site"
  /\ KeyFileOf("db") = "local" /\ KeyFileOf("report") = "local"
  /\ {"cfg", "pol", "db", "report"} \subseteq Signed /\ {"site", "local"} = KeyFiles
  BY DEF Files, KeyFiles, Signed, KeyFileOf

\* What a file on the disk holds if it is whole.
LEMMA WholeFile ==
  ASSUME NEW d, OnDisk(d), NEW f \in Files, IsWhole(d, f)
  PROVE  /\ d[f] \in Contents(f)
         /\ f \in KeyFiles => d[f] \in [pair : Pairs, pass : Passphrases]
         /\ f \in Signed => d[f] \in [text : Text(f), key : Pairs \cup {Unsigned}]
  <1>1. d[f] \in Contents(f)
    BY DEF OnDisk, IsWhole
  <1>. QED BY <1>1, FilesAre DEF Contents

LEMMA WholeContent ==
  ASSUME NEW f \in Files, NEW c \in Contents(f)
  PROVE  c \notin {Absent, Damaged}
  BY InstallationAssumption DEF InstallationAssumption

\* A text that is signed with the key that is there, or not signed.
LEMMA SealedServes ==
  ASSUME OnDisk(disk), NEW f \in Signed, NEW text \in Text(f), NEW enc \in BOOLEAN,
         enc => ReadKey(KeyFileOf(f))
  PROVE  /\ Sealed(text, f, enc) \in Contents(f)
         /\ Serves(disk, f, Sealed(text, f, enc))
         /\ Fits(disk, f, Sealed(text, f, enc), text)
  <1>. DEFINE k == KeyFileOf(f)
              c == Sealed(text, f, enc)
  <1>1. k \in KeyFiles /\ k \in Files /\ f \in Files /\ f \notin KeyFiles
    BY FilesAre
  <1>2. enc => IsWhole(disk, k) /\ disk[k].pair \in Pairs
    BY <1>1, WholeFile DEF ReadKey
  <1>3. c.text = text /\ c.key = (IF enc THEN disk[k].pair ELSE Unsigned)
        /\ c = [text |-> c.text, key |-> c.key]
    BY DEF Sealed
  <1>4. c \in Contents(f)
    BY <1>1, <1>2, <1>3 DEF Contents
  <1>. HIDE DEF c
  <1>. QED BY <1>1, <1>2, <1>3, <1>4 DEF Serves, Fits, c

\* What a command plans to write serves, and its questions come between files.
Fulfils(name, d, steps) ==
    /\ Sound(steps) /\ Settled(steps, DoneWith(name))
    /\ IF name = "GenerateKeys" THEN \A w \in Written(steps) : w[1] \in KeyFiles
       ELSE \A w \in Written(steps) : Serves(d, w[1], w[2])
    /\ name = "UpdatePolicy" =>
         /\ \A w \in Written(steps) : w[1] \notin KeyFiles
         /\ IsWhole(d, "site") /\ IsWhole(d, "local")
         /\ \E policy \in Policies : \A f \in {"pol", "db"} :
              /\ \A w \in Written(steps) : w[1] = f => Fits(d, f, w[2], policy)
              /\ \E w \in Written(steps) : w[1] = f

\* A question, and then one file.
LEMMA OneFileFulfils ==
  ASSUME OnDisk(disk), NEW f \in Signed, NEW text \in Text(f), NEW enc \in BOOLEAN,
         enc => ReadKey(KeyFileOf(f))
  PROVE  LET s == AskIf(enc) \o Overwrite(f, Sealed(text, f, enc))
         IN  /\ Sound(s) /\ \A F : Settled(s, F)
             /\ \A w \in Written(s) : w[1] = f /\ Serves(disk, f, w[2])
  <1>. DEFINE c == Sealed(text, f, enc)
  <1>1. f \in Files /\ c \in Contents(f) /\ Serves(disk, f, c)
    BY FilesAre, SealedServes
  <1>. HIDE DEF c
  <1>2. Sound(Overwrite(f, c)) /\ Written(Overwrite(f, c)) = {<<f, c>>} /\ ~Asks(Overwrite(f, c))
    BY <1>1, OverwriteSound
  <1>3. Silent(AskIf(enc)) /\ Sound(AskIf(enc)) /\ Written(AskIf(enc)) = {}
    BY AskSilent DEF Silent
  <1>4. /\ Sound(AskIf(enc) \o Overwrite(f, c))
        /\ Written(AskIf(enc) \o Overwrite(f, c)) = {<<f, c>>}
    BY <1>2, <1>3, Joined
  <1>5. ASSUME NEW F PROVE Settled(AskIf(enc) \o Overwrite(f, c), F)
    BY <1>2, <1>3, SilentSettled, JoinedSettled
  <1>. QED BY <1>1, <1>4, <1>5 DEF c

LEMMA DatabaseOverwrittenServes ==
  ASSUME OnDisk(disk), CanRead("db"), NEW fits
  PROVE  /\ Sound(DatabaseOverwritten(fits)) /\ \A F : Settled(DatabaseOverwritten(fits), F)
         /\ \A w \in Written(DatabaseOverwritten(fits)) : w[1] = "db" /\ Serves(disk, "db", w[2])
  <1>. DEFINE enc == disk["db"].key # Unsigned
              s == AskIf(enc) \o Overwrite("db", Sealed(disk["db"].text, "db", enc))
              t == IF fits THEN s ELSE <<>>
  <1>1. DatabaseOverwritten(fits) = Ask \o t
    BY DEF DatabaseOverwritten
  <1>2. enc \in BOOLEAN /\ disk["db"].text \in Text("db") /\ ReadKey(KeyFileOf("db")) /\ "db" \in Signed
    BY FilesAre, WholeFile DEF CanRead, Opens
  <1>3. /\ Sound(s) /\ \A F : Settled(s, F)
        /\ \A w \in Written(s) : w[1] = "db" /\ Serves(disk, "db", w[2])
    BY <1>2, OneFileFulfils
  <1>. HIDE DEF s
  <1>4. /\ Sound(t) /\ \A F : Settled(t, F)
        /\ \A w \in Written(t) : w[1] = "db" /\ Serves(disk, "db", w[2])
    BY <1>3, EmptySilent, SilentSettled DEF Silent
  <1>. HIDE DEF t
  <1>5. Sound(Ask) /\ Written(Ask) = {} /\ \A F : Settled(Ask, F)
    BY AskSilent, SilentSettled DEF Silent
  <1>. QED BY <1>1, <1>4, <1>5, Joined, JoinedSettled

LEMMA GenerateDatabaseFulfils ==
  ASSUME OnDisk(disk), NEW enc \in BOOLEAN, CanRead("pol"), enc => ReadKey("local")
  PROVE  Fulfils("GenerateDatabase", disk,
                 AskIf(enc) \o Overwrite("db", Sealed(disk["pol"].text, "db", enc)))
  <1>1. disk["pol"].text \in Text("db") /\ "db" \in Signed /\ KeyFileOf("db") = "local"
    BY FilesAre, WholeFile DEF CanRead, Opens, Text
  <1>. QED BY <1>1, OneFileFulfils DEF Fulfils

LEMMA CheckFulfils ==
  ASSUME OnDisk(disk), NEW name \in {"Check", "CheckObjects"}, NEW enc \in BOOLEAN,
         NEW update, NEW fits, CanRead("db")
  PROVE  Fulfils(name, disk,
                 AskIf(enc) \o Overwrite("report", Sealed(disk["db"].text, "report", enc))
                            \o (IF update THEN DatabaseOverwritten(fits) ELSE <<>>))
  <1>. DEFINE r == AskIf(enc) \o Overwrite("report", Sealed(disk["db"].text, "report", enc))
              t == IF update THEN DatabaseOverwritten(fits) ELSE <<>>
  <1>1. disk["db"].text \in Text("report") /\ "report" \in Signed /\ ReadKey(KeyFileOf("report"))
    BY FilesAre, WholeFile DEF CanRead, Opens, Text
  <1>2. /\ Sound(r) /\ \A F : Settled(r, F)
        /\ \A w \in Written(r) : w[1] = "report" /\ Serves(disk, "report", w[2])
    BY <1>1, OneFileFulfils
  <1>. HIDE DEF r
  <1>3. /\ Sound(t) /\ \A F : Settled(t, F)
        /\ \A w \in Written(t) : w[1] = "db" /\ Serves(disk, "db", w[2])
    BY DatabaseOverwrittenServes, EmptySilent, SilentSettled DEF Silent
  <1>. HIDE DEF t
  <1>4. "report" \in DoneWith(name)
    BY DEF DoneWith
  <1>5. Sound(r \o t) /\ Settled(r \o t, DoneWith(name)) /\ Written(r \o t) = Written(r) \cup Written(t)
    BY <1>2, <1>3, <1>4, Joined, JoinedSettled
  <1>6. Fulfils(name, disk, r \o t)
    BY <1>2, <1>3, <1>5 DEF Fulfils
  <1>. QED BY <1>6 DEF r, t

LEMMA UpdateDatabaseFulfils ==
  ASSUME OnDisk(disk), NEW fits, CanRead("db")
  PROVE  Fulfils("UpdateDatabase", disk, DatabaseOverwritten(fits))
  BY DatabaseOverwrittenServes DEF Fulfils

LEMMA UpdatePolicyFulfils ==
  ASSUME OnDisk(disk), NEW policy \in Policies, NEW encPol \in BOOLEAN, CanRead("db"), ReadKey("site")
  PROVE  Fulfils("UpdatePolicy", disk, UpdatedFiles(policy, encPol, disk["db"].key # Unsigned))
  <1>. DEFINE encDb == disk["db"].key # Unsigned
              p == Sealed(policy, "pol", encPol)
              d == Sealed(policy, "db", encDb)
              a == Ask \o AskIf(encPol \/ encDb) \o BackupFile("pol") \o Ask
              u == WriteObject("pol", p)
              v == Overwrite("db", d)
  <1>1. UpdatedFiles(policy, encPol, encDb) = a \o u \o v
    BY DEF UpdatedFiles
  <1>2. encDb \in BOOLEAN /\ policy \in Text("pol") /\ policy \in Text("db")
        /\ ReadKey(KeyFileOf("pol")) /\ ReadKey(KeyFileOf("db"))
        /\ {"pol", "db"} \subseteq Signed /\ {"pol", "db"} \subseteq Files
        /\ "pol" \notin KeyFiles /\ "db" \notin KeyFiles
    BY FilesAre DEF CanRead, Text
  <1>3. /\ p \in Contents("pol") /\ Serves(disk, "pol", p) /\ Fits(disk, "pol", p, policy)
        /\ d \in Contents("db") /\ Serves(disk, "db", d) /\ Fits(disk, "db", d, policy)
    BY <1>2, SealedServes
  <1>. HIDE DEF p, d
  <1>4. Sound(a) /\ Written(a) = {}
    BY <1>2, AskSilent, BackupSilent, Joined DEF Silent
  <1>5. /\ Sound(u) /\ Written(u) = {<<"pol", p>>} /\ ~Asks(u)
        /\ Sound(v) /\ Written(v) = {<<"db", d>>} /\ ~Asks(v)
    BY <1>2, <1>3, WriteSound, OverwriteSound
  <1>6. \A F : Settled(a, F) /\ Settled(u, F) /\ Settled(v, F)
    BY <1>4, <1>5, SilentSettled DEF Silent
  <1>. HIDE DEF a, u, v
  <1>7. Sound(a \o u) /\ Written(a \o u) = {<<"pol", p>>} /\ \A F : Settled(a \o u, F)
    BY <1>4, <1>5, <1>6, Joined, JoinedSettled
  <1>8. Sound(a \o u \o v) /\ Written(a \o u \o v) = {<<"pol", p>>, <<"db", d>>}
        /\ \A F : Settled(a \o u \o v, F)
    BY <1>5, <1>6, <1>7, Joined, JoinedSettled
  <1>9. IsWhole(disk, "site") /\ IsWhole(disk, "local")
    BY FilesAre DEF CanRead, ReadKey
  <1>. DEFINE s == a \o u \o v
  <1>10. /\ \A w \in Written(s) : w[1] \notin KeyFiles /\ Serves(disk, w[1], w[2])
         /\ \A f \in {"pol", "db"} :
              /\ \A w \in Written(s) : w[1] = f => Fits(disk, f, w[2], policy)
              /\ \E w \in Written(s) : w[1] = f
    BY <1>2, <1>3, <1>8
  <1>11. Sound(s) /\ Settled(s, DoneWith("UpdatePolicy"))
    BY <1>8
  <1>. HIDE DEF s
  <1>12. Fulfils("UpdatePolicy", disk, s)
    BY <1>9, <1>10, <1>11 DEF Fulfils
  <1>. QED BY <1>1, <1>12 DEF s

LEMMA CreateConfigFulfils ==
  ASSUME OnDisk(disk), NEW enc \in BOOLEAN, ReadKey("site")
  PROVE  Fulfils("CreateConfig", disk, AskIf(enc) \o Overwrite("cfg", Sealed("settings", "cfg", enc)))
  <1>1. "settings" \in Text("cfg") /\ "cfg" \in Signed /\ KeyFileOf("cfg") = "site"
    BY FilesAre DEF Text
  <1>. QED BY <1>1, OneFileFulfils DEF Fulfils

LEMMA CreatePolicyFulfils ==
  ASSUME OnDisk(disk), NEW policy \in Policies, NEW enc \in BOOLEAN, enc => ReadKey("site")
  PROVE  Fulfils("CreatePolicy", disk, AskIf(enc) \o Overwrite("pol", Sealed(policy, "pol", enc)))
  <1>1. policy \in Text("pol") /\ "pol" \in Signed /\ KeyFileOf("pol") = "site"
    BY FilesAre DEF Text
  <1>. QED BY <1>1, OneFileFulfils DEF Fulfils

\* The site key is written before the local one is asked for.
LEMMA KeysSettled ==
  ASSUME NEW s, NEW t, NEW name \in {"GenerateKeys", "ChangePassphrases"},
         Sound(s), \A F : Settled(s, F), \A w \in Written(s) : w[1] = "site",
         Sound(t), \A F : Settled(t, F)
  PROVE  /\ Sound(s \o t) /\ Settled(s \o t, DoneWith(name))
         /\ Written(s \o t) = Written(s) \cup Written(t)
  <1>1. "site" \in DoneWith(name)
    BY DEF DoneWith
  <1>. QED BY <1>1, Joined, JoinedSettled

LEMMA GenerateKeySound ==
  ASSUME NEW f \in KeyFiles, NEW pair \in Pairs, NEW pass \in Passphrases
  PROVE  /\ Sound(GenerateKeyOf(f, pair, pass)) /\ \A F : Settled(GenerateKeyOf(f, pair, pass), F)
         /\ \A w \in Written(GenerateKeyOf(f, pair, pass)) : w[1] = f
  <1>. DEFINE c == [pair |-> pair, pass |-> pass]
  <1>1. f \in Files /\ c \in Contents(f)
    BY FilesAre DEF Contents
  <1>. HIDE DEF c
  <1>2. Sound(Overwrite(f, c)) /\ Written(Overwrite(f, c)) = {<<f, c>>} /\ ~Asks(Overwrite(f, c))
    BY <1>1, OverwriteSound
  <1>3. Silent(Ask) /\ Sound(Ask) /\ Written(Ask) = {}
    BY AskSilent DEF Silent
  <1>4. /\ Sound(Ask \o Overwrite(f, c)) /\ Written(Ask \o Overwrite(f, c)) = {<<f, c>>}
        /\ \A F : Settled(Ask \o Overwrite(f, c), F)
    BY <1>2, <1>3, SilentSettled, Joined, JoinedSettled
  <1>. QED BY <1>4 DEF GenerateKeyOf, c

LEMMA GenerateKeysFulfils ==
  ASSUME NEW site \in BOOLEAN, NEW local \in BOOLEAN, NEW pass \in Passphrases, pairs \in 2 .. MaxPairs,
         NEW last \in pairs + 1 .. MaxPairs
  PROVE  Fulfils("GenerateKeys", disk,
                 (IF site THEN GenerateKeyOf("site", pairs + 1, pass) ELSE <<>>) \o
                 (IF local THEN GenerateKeyOf("local", last, pass) ELSE <<>>))
  <1>. DEFINE s == IF site THEN GenerateKeyOf("site", pairs + 1, pass) ELSE <<>>
              t == IF local THEN GenerateKeyOf("local", last, pass) ELSE <<>>
  <1>1. pairs + 1 \in Pairs /\ last \in Pairs /\ {"site", "local"} \subseteq KeyFiles
    BY InstallationAssumption, FilesAre DEF InstallationAssumption, Pairs
  <1>2. Sound(s) /\ (\A F : Settled(s, F)) /\ \A w \in Written(s) : w[1] = "site"
    BY <1>1, GenerateKeySound, EmptySilent, SilentSettled DEF Silent
  <1>3. Sound(t) /\ (\A F : Settled(t, F)) /\ \A w \in Written(t) : w[1] = "local"
    BY <1>1, GenerateKeySound, EmptySilent, SilentSettled DEF Silent
  <1>. HIDE DEF s, t
  <1>4. Sound(s \o t) /\ Settled(s \o t, DoneWith("GenerateKeys"))
        /\ Written(s \o t) = Written(s) \cup Written(t)
    BY <1>2, <1>3, KeysSettled
  <1>5. Fulfils("GenerateKeys", disk, s \o t)
    BY <1>1, <1>2, <1>3, <1>4 DEF Fulfils
  <1>. QED BY <1>5 DEF s, t

\* Another passphrase leaves the key what it is.
LEMMA ChangePassphraseServes ==
  ASSUME OnDisk(disk), NEW f \in KeyFiles, NEW pass \in Passphrases
  PROVE  /\ Sound(ChangePassphraseOf(f, pass)) /\ \A F : Settled(ChangePassphraseOf(f, pass), F)
         /\ \A w \in Written(ChangePassphraseOf(f, pass)) : w[1] = f /\ Serves(disk, f, w[2])
  <1>. DEFINE c == [disk[f] EXCEPT !.pass = pass]
              b == BackupFile(f) \o <<Step("reread", f, Absent)>>
              t == IF IsWhole(disk, f) THEN Ask \o WriteObject(f, c) ELSE <<>>
  <1>1. ChangePassphraseOf(f, pass) = b \o t
    BY DEF ChangePassphraseOf
  <1>2. f \in Files
    BY FilesAre
  <1>3. Sound(b) /\ Written(b) = {}
    BY <1>2, BackupSilent, RereadSilent, Joined DEF Silent
  <1>4. /\ Sound(t) /\ \A F : Settled(t, F)
        /\ \A w \in Written(t) : w[1] = f /\ Serves(disk, f, w[2])
    <2>1. CASE IsWhole(disk, f)
      <3>1. disk[f] \in [pair : Pairs, pass : Passphrases]
        BY <1>2, <2>1, WholeFile
      <3>2. c \in [pair : Pairs, pass : Passphrases] /\ c.pair = disk[f].pair
        BY <3>1
      <3>3. c \in Contents(f) /\ Serves(disk, f, c)
        BY <3>2 DEF Contents, Serves
      <3>. HIDE DEF c
      <3>4. /\ Sound(WriteObject(f, c)) /\ Written(WriteObject(f, c)) = {<<f, c>>}
            /\ ~Asks(WriteObject(f, c))
        BY <1>2, <3>3, WriteSound
      <3>5. Silent(Ask) /\ Sound(Ask) /\ Written(Ask) = {}
        BY AskSilent DEF Silent
      <3>6. /\ Sound(Ask \o WriteObject(f, c)) /\ Written(Ask \o WriteObject(f, c)) = {<<f, c>>}
            /\ \A F : Settled(Ask \o WriteObject(f, c), F)
        BY <3>4, <3>5, SilentSettled, Joined, JoinedSettled
      <3>. QED BY <2>1, <3>3, <3>6
    <2>2. CASE ~IsWhole(disk, f)
      BY <2>2, EmptySilent, SilentSettled DEF Silent
    <2>. QED BY <2>1, <2>2
  <1>. HIDE DEF b, t
  <1>5. \A F : Settled(b, F)
    BY <1>3, SilentSettled DEF Silent
  <1>. QED BY <1>1, <1>3, <1>4, <1>5, Joined, JoinedSettled

LEMMA ChangePassphrasesFulfils ==
  ASSUME OnDisk(disk), NEW site \in BOOLEAN, NEW local \in BOOLEAN, NEW pass \in Passphrases
  PROVE  Fulfils("ChangePassphrases", disk,
                 (IF site THEN ChangePassphraseOf("site", pass) ELSE <<>>) \o
                 (IF local THEN ChangePassphraseOf("local", pass) ELSE <<>>))
  <1>. DEFINE s == IF site THEN ChangePassphraseOf("site", pass) ELSE <<>>
              t == IF local THEN ChangePassphraseOf("local", pass) ELSE <<>>
  <1>1. {"site", "local"} \subseteq KeyFiles
    BY FilesAre
  <1>2. /\ Sound(s) /\ \A F : Settled(s, F)
        /\ \A w \in Written(s) : w[1] = "site" /\ Serves(disk, "site", w[2])
    BY <1>1, ChangePassphraseServes, EmptySilent, SilentSettled DEF Silent
  <1>3. /\ Sound(t) /\ \A F : Settled(t, F)
        /\ \A w \in Written(t) : w[1] = "local" /\ Serves(disk, "local", w[2])
    BY <1>1, ChangePassphraseServes, EmptySilent, SilentSettled DEF Silent
  <1>. HIDE DEF s, t
  <1>4. Sound(s \o t) /\ Settled(s \o t, DoneWith("ChangePassphrases"))
        /\ Written(s \o t) = Written(s) \cup Written(t)
    BY <1>2, <1>3, KeysSettled
  <1>5. Fulfils("ChangePassphrases", disk, s \o t)
    BY <1>2, <1>3, <1>4 DEF Fulfils
  <1>. QED BY <1>5 DEF s, t

\* Signed files that are written in place, in any order.
LEMMA EncryptedServes ==
  ASSUME OnDisk(disk), NEW f \in Signed
  PROVE  /\ Sound(Encrypted(f)) /\ Settled(Encrypted(f), Signed)
         /\ \A w \in Written(Encrypted(f)) : w[1] = f /\ Serves(disk, f, w[2])
  <1>. DEFINE c == Sealed(disk[f].text, f, TRUE)
  <1>1. CASE IsWhole(disk, f) /\ disk[f].key = Unsigned /\ ReadKey(KeyFileOf(f))
    <2>1. f \in Files /\ disk[f].text \in Text(f)
      BY <1>1, FilesAre, WholeFile
    <2>2. c \in Contents(f) /\ Serves(disk, f, c)
      BY <1>1, <2>1, SealedServes
    <2>3. Encrypted(f) = Ask \o WriteObject(f, c)
      BY <1>1 DEF Encrypted
    <2>. HIDE DEF c
    <2>4. Sound(WriteObject(f, c)) /\ Written(WriteObject(f, c)) = {<<f, c>>} /\ ~Asks(WriteObject(f, c))
      BY <2>1, <2>2, WriteSound
    <2>5. Silent(Ask) /\ Sound(Ask) /\ Written(Ask) = {}
      BY AskSilent DEF Silent
    <2>6. /\ Sound(Ask \o WriteObject(f, c)) /\ Written(Ask \o WriteObject(f, c)) = {<<f, c>>}
          /\ Settled(Ask \o WriteObject(f, c), Signed)
      BY <2>4, <2>5, SilentSettled, Joined, JoinedSettled
    <2>. QED BY <2>2, <2>3, <2>6
  <1>2. CASE ~(IsWhole(disk, f) /\ disk[f].key = Unsigned /\ ReadKey(KeyFileOf(f)))
    <2>1. Encrypted(f) = <<>>
      BY <1>2 DEF Encrypted
    <2>. QED BY <2>1, EmptySilent, SilentSettled DEF Silent
  <1>. QED BY <1>1, <1>2

LEMMA DecryptedServes ==
  ASSUME OnDisk(disk), NEW f \in Signed
  PROVE  /\ Sound(Decrypted(f)) /\ Settled(Decrypted(f), Signed)
         /\ \A w \in Written(Decrypted(f)) : w[1] = f /\ Serves(disk, f, w[2])
  <1>. DEFINE c == Sealed(disk[f].text, f, FALSE)
              r == <<Step("reread", KeyFileOf(f), Absent)>>
              a == IF f = "cfg" => CanRead(f) THEN Ask ELSE <<>>
              t == IF CanRead(f) THEN WriteObject(f, c) ELSE <<>>
  <1>1. CASE ~IsWhole(disk, f) \/ disk[f].key = Unsigned
    <2>1. Decrypted(f) = <<>>
      BY <1>1 DEF Decrypted
    <2>. QED BY <2>1, EmptySilent, SilentSettled DEF Silent
  <1>2. CASE ~(~IsWhole(disk, f) \/ disk[f].key = Unsigned)
    <2>1. Decrypted(f) = r \o a \o t
      BY <1>2 DEF Decrypted
    <2>2. KeyFileOf(f) \in Files /\ f \in Files /\ disk[f].text \in Text(f)
      BY <1>2, FilesAre, WholeFile
    <2>3. c \in Contents(f) /\ Serves(disk, f, c)
      BY <2>2, SealedServes
    <2>. HIDE DEF c
    <2>4. Sound(r) /\ Written(r) = {} /\ Sound(a) /\ Written(a) = {}
      BY <2>2, RereadSilent, AskSilent, EmptySilent DEF Silent
    <2>5. Sound(t) /\ (\A w \in Written(t) : w[1] = f /\ Serves(disk, f, w[2])) /\ ~Asks(t)
      BY <2>2, <2>3, WriteSound, EmptySilent DEF Silent
    <2>. HIDE DEF r, a, t
    <2>6. Sound(r \o a) /\ Written(r \o a) = {}
      BY <2>4, Joined
    <2>7. Settled(r \o a, Signed) /\ Settled(t, Signed)
      BY <2>5, <2>6, SilentSettled DEF Silent
    <2>8. Sound(r \o a \o t) /\ Written(r \o a \o t) = Written(t) /\ Settled(r \o a \o t, Signed)
      BY <2>5, <2>6, <2>7, Joined, JoinedSettled
    <2>. QED BY <2>1, <2>5, <2>8
  <1>. QED BY <1>1, <1>2

LEMMA TwoFilesFulfil ==
  ASSUME NEW name \in {"Encrypt", "RemoveEncryption"}, NEW s, NEW t,
         Sound(s), Settled(s, Signed), \A w \in Written(s) : w[1] \in Signed /\ Serves(disk, w[1], w[2]),
         Sound(t), Settled(t, Signed), \A w \in Written(t) : w[1] \in Signed /\ Serves(disk, w[1], w[2])
  PROVE  Fulfils(name, disk, s \o t)
  <1>1. DoneWith(name) = Signed
    BY DEF DoneWith
  <1>2. Sound(s \o t) /\ Settled(s \o t, Signed) /\ Written(s \o t) = Written(s) \cup Written(t)
    BY Joined, JoinedSettled
  <1>. QED BY <1>1, <1>2 DEF Fulfils

LEMMA EncryptFulfils ==
  ASSUME OnDisk(disk), NEW f \in Signed, NEW g \in Signed
  PROVE  /\ Fulfils("Encrypt", disk, Encrypted(f) \o (IF g = f THEN <<>> ELSE Encrypted(g)))
         /\ Fulfils("RemoveEncryption", disk, Decrypted(f) \o (IF g = f THEN <<>> ELSE Decrypted(g)))
  <1>1. Sound(<<>>) /\ Written(<<>>) = {} /\ Settled(<<>>, Signed)
    BY EmptySilent, SilentSettled DEF Silent
  <1>2. Fulfils("Encrypt", disk, Encrypted(f) \o (IF g = f THEN <<>> ELSE Encrypted(g)))
    BY <1>1, EncryptedServes, TwoFilesFulfil
  <1>3. Fulfils("RemoveEncryption", disk, Decrypted(f) \o (IF g = f THEN <<>> ELSE Decrypted(g)))
    BY <1>1, DecryptedServes, TwoFilesFulfil
  <1>. QED BY <1>2, <1>3

-----------------------------------------------------------------------------
(* The invariant, once more *)

\* A command begins with files that are as they were.
LEMMA BeginKeepsFiles ==
  ASSUME FInv, NEW name, NEW able \in BOOLEAN, NEW steps, Begin(name, able, steps), pairs' \in 2 .. MaxPairs,
         able => Fulfils(name, disk, steps)
  PROVE  FInv'
  <1>1. /\ disk' = disk /\ before' = disk /\ op' = name
        /\ todo' = (IF able THEN steps ELSE <<>>)
        /\ status' = (IF able THEN "running" ELSE "refused")
    BY DEF Begin
  <1>2. OnDisk(disk)
    BY DEF FInv, Typed
  <1>3. Typed'
    BY <1>1, <1>2 DEF Typed, OnDisk
  <1>4. Sound(<<>>) /\ Written(<<>>) = {} /\ \A F : Settled(<<>>, F)
    BY EmptySilent, SilentSettled DEF Silent
  <1>5. Planned'
    <2>1. Sound(todo') /\ Settled(todo', DoneWith(op'))
      BY <1>1, <1>4 DEF Fulfils
    <2>2. status' # "running" => todo' = <<>>
      BY <1>1
    <2>. QED BY <2>1, <2>2 DEF Planned
  <1>6. Untouched'
    BY <1>1 DEF Untouched
  <1>7. \A f \in Files : Serves(disk, f, disk[f])
    BY <1>2, WholeFile, FilesAre DEF Serves, Opens, Files
  <1>8. Serving'
    <2>1. \A w \in Written(todo') : IF name = "GenerateKeys" THEN w[1] \in KeyFiles
                                                            ELSE Serves(disk, w[1], w[2])
      BY <1>1, <1>4 DEF Fulfils
    <2>. QED BY <1>1, <1>7, <2>1 DEF Serving
  <1>9. Updating'
    <2>. SUFFICES ASSUME op' = "UpdatePolicy", status' \in {"running", "done"}
                  PROVE  Updating'
      BY DEF Updating
    <2>1. Fulfils("UpdatePolicy", disk, todo')
      BY <1>1
    <2>. QED BY <1>1, <2>1 DEF Updating, Fulfils
  <1>. QED BY <1>3, <1>5, <1>6, <1>8, <1>9 DEF FInv

\* A command that gives up was not in the middle of a file, unless it was killed.
LEMMA GiveUpKeepsFiles ==
  ASSUME FInv, status = "running", NEW how, GiveUp(how),
         \/ how = "refused" /\ todo # <<>> /\ Head(todo).do \in Asking
         \/ how = "done" /\ todo = <<>>
         \/ how = "killed"
  PROVE  FInv'
  <1>1. UNCHANGED <<disk, before, op, pairs>> /\ todo' = <<>> /\ status' = how
    BY DEF GiveUp
  <1>2. Typed'
    BY <1>1 DEF FInv, Typed, OnDisk
  <1>3. Sound(<<>>) /\ Written(<<>>) = {} /\ \A F : Settled(<<>>, F)
    BY EmptySilent, SilentSettled DEF Silent
  <1>4. Planned'
    BY <1>1, <1>3 DEF Planned
  <1>5. how # "killed" => \A f : ~Truncated(f)
    BY DEF Truncated, Asking
  <1>6. how = "refused" => Asks(todo)
    <2>1. todo # <<>> => 1 \in 1 .. Len(todo) /\ Head(todo) = todo[1]
      BY Remaining DEF FInv, Planned, Sound
    <2>. QED BY <2>1 DEF Asks
  <1>7. Untouched'
    <2>. SUFFICES ASSUME how # "killed", NEW f \in Files, disk[f] # before[f]
                  PROVE  IsWhole(disk, f) /\ (how = "refused" => f \in DoneWith(op))
      BY <1>1, <1>3, EmptySilent DEF Untouched, IsWhole
    <2>. QED BY <1>5, <1>6 DEF FInv, Untouched
  <1>8. Serving'
    BY <1>1, <1>3, <1>5 DEF FInv, Serving
  <1>9. Updating'
    <2>. SUFFICES ASSUME op = "UpdatePolicy", how = "done"
                  PROVE  Updating'
      BY <1>1 DEF Updating, GiveUp
    <2>1. todo = <<>> /\ Written(todo') = Written(todo)
      BY <1>1
    <2>. QED BY <1>1, <1>3, <2>1 DEF FInv, Updating, IsWhole
  <1>. QED BY <1>2, <1>4, <1>7, <1>8, <1>9 DEF FInv

\* What is left to write when the first step has been taken.
LEMMA RemainingSound ==
  ASSUME NEW s, Sound(s), s # <<>>
  PROVE  /\ Sound(Tail(s)) /\ \A F : Settled(s, F) => Settled(Tail(s), F)
         /\ Head(s).file \in Files
         /\ Asks(Tail(s)) => Asks(s)
         /\ Written(s) = Written(Tail(s)) \cup
               (IF Head(s).do = "write" THEN {<<Head(s).file, Head(s).new>>} ELSE {})
         /\ Head(s).do = "write" => /\ Head(s).new \in Contents(Head(s).file)
                                    /\ \A F : Settled(s, F) /\ Asks(Tail(s)) => Head(s).file \in F
         /\ Head(s).do = "truncate" =>
              /\ Tail(s) # <<>> /\ Head(Tail(s)).do = "write" /\ Head(Tail(s)).file = Head(s).file
              /\ \A F : Settled(s, F) /\ Asks(Tail(s)) => Head(s).file \in F
  <1>1. IsSequence(s)
    BY DEF Sound
  <1>. DEFINE t == Tail(s)
  <1>2. /\ IsSequence(t) /\ Head(s) = s[1] /\ Len(s) \in Nat /\ Len(s) > 0 /\ Len(t) = Len(s) - 1
        /\ \A i \in 1 .. Len(t) : i + 1 \in 1 .. Len(s) /\ t[i] = s[i + 1]
    BY <1>1, Remaining
  <1>3. \A i \in 1 .. Len(s) : i # 1 => i - 1 \in 1 .. Len(t) /\ t[i - 1] = s[i]
    BY <1>2
  <1>4. t # <<>> => Head(t) = t[1] /\ 1 \in 1 .. Len(t)
    BY <1>2, Remaining
  <1>5. Len(t) > 0 => t # <<>>
    <2>1. PICK S : t \in Seq(S)
      BY <1>2 DEF IsSequence
    <2>2. t = <<>> => Len(t) = 0
      BY <2>1, EmptySeq
    <2>. QED BY <1>2, <2>2
  <1>. HIDE DEF t
  <1>6. Sound(t)
    <2>. SUFFICES ASSUME NEW i \in 1 .. Len(t)
                  PROVE  /\ t[i].file \in Files
                         /\ t[i].do = "write" => t[i].new \in Contents(t[i].file)
                         /\ t[i].do = "truncate" => /\ i + 1 \in 1 .. Len(t)
                                                    /\ t[i + 1].do = "write"
                                                    /\ t[i + 1].file = t[i].file
      BY <1>2 DEF Sound
    <2>1. i + 1 \in 1 .. Len(s) /\ t[i] = s[i + 1]
      BY <1>2
    <2>2. ASSUME i + 1 + 1 \in 1 .. Len(s)
          PROVE  i + 1 \in 1 .. Len(t) /\ t[i + 1] = s[i + 1 + 1]
      BY <1>2, <2>2
    <2>. QED BY <2>1, <2>2 DEF Sound
  <1>7. ASSUME NEW F, Settled(s, F) PROVE Settled(t, F)
    <2>. SUFFICES ASSUME NEW i \in 1 .. Len(t), NEW j \in 1 .. Len(t), i < j,
                         t[i].do = "write", t[j].do \in Asking
                  PROVE  t[i].file \in F
      BY DEF Settled
    <2>1. i + 1 \in 1 .. Len(s) /\ j + 1 \in 1 .. Len(s) /\ i + 1 < j + 1
          /\ t[i] = s[i + 1] /\ t[j] = s[j + 1]
      BY <1>2
    <2>. QED BY <1>7, <2>1 DEF Settled
  <1>8. Asks(t) => \E j \in 1 .. Len(s) : j > 1 /\ s[j].do \in Asking
    BY <1>2 DEF Asks
  <1>9. 1 \in 1 .. Len(s) /\ s[1].file \in Files
        /\ (s[1].do = "write" => s[1].new \in Contents(s[1].file))
        /\ (s[1].do = "truncate" => 2 \in 1 .. Len(s) /\ s[2].do = "write" /\ s[2].file = s[1].file)
    BY <1>2 DEF Sound
  <1>10. Written(s) = Written(t) \cup
               (IF Head(s).do = "write" THEN {<<Head(s).file, Head(s).new>>} ELSE {})
    <2>1. ASSUME NEW i \in 1 .. Len(t), t[i].do = "write"
          PROVE  <<t[i].file, t[i].new>> \in Written(s)
      BY <1>2, <2>1 DEF Written
    <2>2. ASSUME NEW i \in 1 .. Len(s), s[i].do = "write", i # 1
          PROVE  <<s[i].file, s[i].new>> \in Written(t)
      BY <1>3, <2>2 DEF Written
    <2>3. s[1].do = "write" => <<s[1].file, s[1].new>> \in Written(s)
      BY <1>9 DEF Written
    <2>4. Written(t) \subseteq Written(s)
      BY <2>1 DEF Written
    <2>5. \A w \in Written(s) : w \in Written(t) \/ (s[1].do = "write" /\ w = <<s[1].file, s[1].new>>)
      BY <2>2 DEF Written
    <2>. QED BY <1>2, <2>3, <2>4, <2>5
  <1>11. ASSUME NEW F, Settled(s, F), Asks(t), s[1].do \in {"write", "truncate"}
         PROVE  s[1].file \in F
    <2>1. PICK j \in 1 .. Len(s) : j > 1 /\ s[j].do \in Asking
      BY <1>8, <1>11
    <2>2. CASE s[1].do = "write"
      BY <1>9, <1>11, <2>1, <2>2 DEF Settled
    <2>3. CASE s[1].do = "truncate"
      <3>1. j # 2
        BY <1>9, <2>1, <2>3 DEF Asking
      <3>2. 2 < j
        BY <2>1, <3>1
      <3>. QED BY <1>9, <1>11, <2>1, <2>3, <3>2 DEF Settled
    <2>. QED BY <1>11, <2>2, <2>3
  <1>12. Head(s).do = "truncate" => t # <<>> /\ Head(t).do = "write" /\ Head(t).file = Head(s).file
    <2>1. 2 \in 1 .. Len(s) => 1 \in 1 .. Len(t) /\ t[1] = s[2]
      BY <1>2
    <2>. QED BY <1>2, <1>4, <1>5, <1>9, <2>1
  <1>13. Asks(t) => Asks(s)
    BY <1>8 DEF Asks
  <1>. QED BY <1>2, <1>6, <1>7, <1>9, <1>10, <1>11, <1>12, <1>13 DEF t

\* A step that touches no file.
LEMMA QuietStepKeepsFiles ==
  ASSUME FInv, status = "running", todo # <<>>, Head(todo).do \notin WriteSteps, disk' = disk, GoOn
  PROVE  FInv'
  <1>1. /\ todo' = Tail(todo) /\ UNCHANGED <<before, op, status, pairs>>
        /\ Sound(todo) /\ Settled(todo, DoneWith(op))
    BY DEF GoOn, FInv, Planned
  <1>2. /\ Sound(todo') /\ Settled(todo', DoneWith(op)) /\ Written(todo') = Written(todo)
        /\ Asks(todo') => Asks(todo)
    <2>1. /\ Sound(Tail(todo)) /\ Settled(Tail(todo), DoneWith(op))
          /\ Asks(Tail(todo)) => Asks(todo)
          /\ Written(todo) = Written(Tail(todo)) \cup
                (IF Head(todo).do = "write" THEN {<<Head(todo).file, Head(todo).new>>} ELSE {})
      BY <1>1, RemainingSound
    <2>. QED BY <1>1, <2>1 DEF WriteSteps
  <1>3. \A f : ~Truncated(f)
    BY DEF Truncated, WriteSteps
  <1>4. Typed'
    BY <1>1 DEF FInv, Typed, OnDisk
  <1>5. Planned'
    BY <1>1, <1>2 DEF Planned
  <1>6. Untouched'
    <2>1. \A f \in Files : disk[f] # before[f] =>
             IsWhole(disk, f) /\ (Asks(todo) => f \in DoneWith(op))
      BY <1>3 DEF FInv, Untouched
    <2>. QED BY <1>1, <1>2, <2>1 DEF Untouched, IsWhole
  <1>7. Serving'
    BY <1>1, <1>2, <1>3 DEF FInv, Serving
  <1>8. Updating'
    BY <1>1, <1>2 DEF FInv, Updating, IsWhole
  <1>. QED BY <1>4, <1>5, <1>6, <1>7, <1>8 DEF FInv

LEMMA TruncateKeepsFiles ==
  ASSUME FInv, Truncate
  PROVE  FInv'
  <1>0. PICK g : g = Head(todo).file
    OBVIOUS
  <1>1. /\ todo # <<>> /\ Head(todo).do = "truncate" /\ status = "running"
        /\ todo' = Tail(todo) /\ UNCHANGED <<before, op, status, pairs>>
        /\ disk' = [disk EXCEPT ![g] = Damaged]
        /\ Sound(todo) /\ Settled(todo, DoneWith(op))
    BY <1>0 DEF Truncate, At, GoOn, FInv, Planned
  <1>2. /\ Sound(todo') /\ Settled(todo', DoneWith(op)) /\ g \in Files
        /\ Written(todo') = Written(todo)
        /\ Asks(todo') => Asks(todo) /\ g \in DoneWith(op)
        /\ todo' # <<>> /\ Head(todo').do = "write" /\ Head(todo').file = g
    <2>1. /\ Sound(Tail(todo)) /\ Settled(Tail(todo), DoneWith(op)) /\ g \in Files
          /\ Asks(Tail(todo)) => Asks(todo)
          /\ Written(todo) = Written(Tail(todo)) \cup
                (IF Head(todo).do = "write" THEN {<<Head(todo).file, Head(todo).new>>} ELSE {})
          /\ Tail(todo) # <<>> /\ Head(Tail(todo)).do = "write" /\ Head(Tail(todo)).file = g
          /\ Asks(Tail(todo)) => g \in DoneWith(op)
      BY <1>0, <1>1, RemainingSound
    <2>. QED BY <1>1, <2>1
  <1>3. (\A f : ~Truncated(f)) /\ Truncated(g)'
    BY <1>0, <1>1, <1>2 DEF Truncated
  <1>4. disk'[g] = Damaged /\ \A f \in Files : f # g => disk'[f] = disk[f]
    BY <1>1, <1>2 DEF FInv, Typed, OnDisk
  <1>5. Typed'
    <2>1. disk' = [f \in Files |-> disk'[f]]
      BY <1>1 DEF FInv, Typed, OnDisk
    <2>. QED BY <1>1, <1>2, <1>4, <2>1 DEF FInv, Typed, OnDisk
  <1>6. Planned'
    BY <1>1, <1>2 DEF Planned
  <1>7. Untouched'
    <2>. SUFFICES ASSUME NEW f \in Files, disk'[f] # before[f]
                  PROVE  /\ IsWhole(disk', f) \/ Truncated(f)'
                         /\ Asks(todo') => f \in DoneWith(op)
      BY <1>1 DEF Untouched
    <2>1. CASE f = g
      BY <1>2, <1>3, <2>1
    <2>2. CASE f # g
      BY <1>1, <1>2, <1>3, <1>4, <2>2 DEF FInv, Untouched, IsWhole
    <2>. QED BY <2>1, <2>2
  <1>8. Serving'
    <2>1. CASE op = "GenerateKeys"
      <3>1. \E w \in Written(todo) : w[1] = g
        <4>1. <<Head(todo').file, Head(todo').new>> \in Written(todo')
          BY <1>2, RemainingSound
        <4>. QED BY <1>2, <4>1
      <3>2. g \notin Signed
        BY <2>1, <3>1, FilesAre DEF FInv, Serving
      <3>. QED BY <1>1, <1>2, <1>4, <2>1, <3>2, FilesAre DEF FInv, Serving
    <2>2. CASE op # "GenerateKeys"
      BY <1>1, <1>2, <1>3, <1>4, <2>2 DEF FInv, Serving
    <2>. QED BY <2>1, <2>2
  <1>9. Updating'
    <2>. SUFFICES ASSUME op = "UpdatePolicy"
                  PROVE  Updating'
      BY <1>1 DEF Updating
    <2>1. /\ \A w \in Written(todo) : w[1] \notin KeyFiles
          /\ IsWhole(disk, "site") /\ IsWhole(disk, "local")
      BY <1>1 DEF FInv, Updating
    <2>2. PICK policy \in Policies : \A f \in {"pol", "db"} :
             /\ \A w \in Written(todo) : w[1] = f => Fits(disk, f, w[2], policy)
             /\ (\E w \in Written(todo) : w[1] = f) \/ Fits(disk, f, disk[f], policy)
      BY <1>1 DEF FInv, Updating
    <2>3. \E w \in Written(todo) : w[1] = g
      <3>1. <<Head(todo').file, Head(todo').new>> \in Written(todo')
        BY <1>2, RemainingSound
      <3>. QED BY <1>2, <3>1
    <2>4. disk'["site"] = disk["site"] /\ disk'["local"] = disk["local"]
      BY <1>4, <2>1, <2>3, FilesAre
    <2>5. \A f \in {"pol", "db"} : \A c : Fits(disk, f, c, policy) => Fits(disk', f, c, policy)
      BY <2>4, FilesAre DEF Fits
    <2>6. \A f \in {"pol", "db"} : f \in Files
      BY FilesAre
    <2>7. \A f \in {"pol", "db"} :
             /\ \A w \in Written(todo') : w[1] = f => Fits(disk', f, w[2], policy)
             /\ (\E w \in Written(todo') : w[1] = f) \/ Fits(disk', f, disk'[f], policy)
      BY <1>2, <1>4, <2>2, <2>3, <2>5, <2>6
    <2>. QED BY <1>2, <2>1, <2>4, <2>7 DEF Updating, IsWhole
  <1>. QED BY <1>5, <1>6, <1>7, <1>8, <1>9 DEF FInv

LEMMA WriteOutKeepsFiles ==
  ASSUME FInv, WriteOut
  PROVE  FInv'
  <1>0. PICK g, c : g = Head(todo).file /\ c = Head(todo).new
    OBVIOUS
  <1>1. /\ todo # <<>> /\ Head(todo).do = "write" /\ status = "running"
        /\ todo' = Tail(todo) /\ UNCHANGED <<before, op, status, pairs>>
        /\ disk' = [disk EXCEPT ![g] = c]
        /\ Sound(todo) /\ Settled(todo, DoneWith(op))
    BY <1>0 DEF WriteOut, At, GoOn, FInv, Planned
  <1>2. /\ Sound(todo') /\ Settled(todo', DoneWith(op)) /\ g \in Files /\ c \in Contents(g)
        /\ Written(todo) = Written(todo') \cup {<<g, c>>}
        /\ Asks(todo') => Asks(todo) /\ g \in DoneWith(op)
    BY <1>0, <1>1, RemainingSound
  <1>w. \E w \in Written(todo) : w[1] = g /\ w[2] = c
    <2>1. <<g, c>>[1] = g /\ <<g, c>>[2] = c
      OBVIOUS
    <2>2. <<g, c>> \in Written(todo)
      BY <1>2
    <2>. QED BY <2>1, <2>2
  <1>3. \A f : Truncated(f) => f = g
    BY <1>0 DEF Truncated
  <1>4. disk'[g] = c /\ \A f \in Files : f # g => disk'[f] = disk[f]
    BY <1>1, <1>2 DEF FInv, Typed, OnDisk
  <1>5. Typed'
    <2>1. disk' = [f \in Files |-> disk'[f]]
      BY <1>1 DEF FInv, Typed, OnDisk
    <2>. QED BY <1>1, <1>2, <1>4, <2>1 DEF FInv, Typed, OnDisk
  <1>6. Planned'
    BY <1>1, <1>2 DEF Planned
  <1>7. Untouched'
    <2>. SUFFICES ASSUME NEW f \in Files, disk'[f] # before[f]
                  PROVE  /\ IsWhole(disk', f)
                         /\ Asks(todo') => f \in DoneWith(op)
      BY <1>1 DEF Untouched
    <2>1. CASE f = g
      BY <1>2, <1>4, <2>1, WholeContent DEF IsWhole
    <2>2. CASE f # g
      BY <1>1, <1>2, <1>3, <1>4, <2>2 DEF FInv, Untouched, IsWhole
    <2>. QED BY <2>1, <2>2
  <1>8. Serving'
    <2>1. CASE op = "GenerateKeys"
      <3>1. g \notin Signed
        BY <1>2, <1>w, <2>1, FilesAre DEF FInv, Serving
      <3>. QED BY <1>1, <1>2, <1>4, <2>1, <3>1, FilesAre DEF FInv, Serving
    <2>2. CASE op # "GenerateKeys"
      <3>1. Serves(before, g, c)
        BY <1>2, <1>w, <2>2 DEF FInv, Serving
      <3>. QED BY <1>1, <1>2, <1>3, <1>4, <2>2, <3>1 DEF FInv, Serving
    <2>. QED BY <2>1, <2>2
  <1>9. Updating'
    <2>. SUFFICES ASSUME op = "UpdatePolicy"
                  PROVE  Updating'
      BY <1>1 DEF Updating
    <2>1. /\ \A w \in Written(todo) : w[1] \notin KeyFiles
          /\ IsWhole(disk, "site") /\ IsWhole(disk, "local")
      BY <1>1 DEF FInv, Updating
    <2>2. PICK policy \in Policies : \A f \in {"pol", "db"} :
             /\ \A w \in Written(todo) : w[1] = f => Fits(disk, f, w[2], policy)
             /\ (\E w \in Written(todo) : w[1] = f) \/ Fits(disk, f, disk[f], policy)
      BY <1>1 DEF FInv, Updating
    <2>3. disk'["site"] = disk["site"] /\ disk'["local"] = disk["local"]
      BY <1>2, <1>4, <1>w, <2>1, FilesAre
    <2>4. \A f \in {"pol", "db"} : \A x : Fits(disk, f, x, policy) => Fits(disk', f, x, policy)
      BY <2>3, FilesAre DEF Fits
    <2>5. \A f \in {"pol", "db"} : f \in Files
      BY FilesAre
    <2>6. \A f \in {"pol", "db"} :
             /\ \A w \in Written(todo') : w[1] = f => Fits(disk', f, w[2], policy)
             /\ (\E w \in Written(todo') : w[1] = f) \/ Fits(disk', f, disk'[f], policy)
      <3>. SUFFICES ASSUME NEW f \in {"pol", "db"}
                    PROVE  /\ \A w \in Written(todo') : w[1] = f => Fits(disk', f, w[2], policy)
                           /\ (\E w \in Written(todo') : w[1] = f) \/ Fits(disk', f, disk'[f], policy)
        OBVIOUS
      <3>1. CASE f = g
        BY <1>2, <1>4, <1>w, <2>2, <2>4, <3>1
      <3>2. CASE f # g
        BY <1>2, <1>4, <2>2, <2>4, <2>5, <3>2
      <3>. QED BY <3>1, <3>2
    <2>. QED BY <1>2, <2>1, <2>3, <2>6 DEF Updating, IsWhole
  <1>. QED BY <1>5, <1>6, <1>7, <1>8, <1>9 DEF FInv

LEMMA TripwireKeepsFiles == FInv /\ Tripwire => FInv'
  <1>. SUFFICES ASSUME FInv, Tripwire PROVE FInv'
    OBVIOUS
  <1>1. OnDisk(disk) /\ pairs \in 2 .. MaxPairs
    BY DEF FInv, Typed
  <1>2. CASE \E enc \in BOOLEAN : GenerateDatabase(enc)
    BY <1>1, <1>2, BeginKeepsFiles, GenerateDatabaseFulfils DEF GenerateDatabase
  <1>3. CASE \E objects, enc, update, fits \in BOOLEAN : Check(objects, enc, update, fits)
    <2>1. PICK objects \in BOOLEAN, enc \in BOOLEAN, update \in BOOLEAN, fits \in BOOLEAN :
             Check(objects, enc, update, fits)
      BY <1>3
    <2>. DEFINE name == IF objects THEN "CheckObjects" ELSE "Check"
                able == /\ CfgInSync /\ CanRead("db")
                        /\ ~objects => VerifyPolicy
                steps == AskIf(enc) \o Overwrite("report", Sealed(disk["db"].text, "report", enc))
                            \o (IF update THEN DatabaseOverwritten(fits) ELSE <<>>)
    <2>2. Begin(name, able, steps) /\ pairs' = pairs
      BY <2>1 DEF Check
    <2>3. name \in {"Check", "CheckObjects"} /\ able \in BOOLEAN /\ (able => CanRead("db"))
      OBVIOUS
    <2>. HIDE DEF name, able
    <2>4. able => Fulfils(name, disk, steps)
      BY <1>1, <2>3, CheckFulfils
    <2>. HIDE DEF steps
    <2>. QED BY <1>1, <2>2, <2>3, <2>4, BeginKeepsFiles
  <1>4. CASE \E fits \in BOOLEAN : UpdateDatabase(fits)
    BY <1>1, <1>4, BeginKeepsFiles, UpdateDatabaseFulfils DEF UpdateDatabase
  <1>5. CASE \E policy \in Policies, header \in BOOLEAN : UpdatePolicy(policy, header)
    <2>1. PICK policy \in Policies, header \in BOOLEAN : UpdatePolicy(policy, header)
      BY <1>5
    <2>. DEFINE encPol == IF IsWhole(disk, "pol") THEN disk["pol"].key # Unsigned
                          ELSE disk["pol"] = Damaged => header
                able == CfgInSync /\ CanRead("db") /\ ReadKey("site")
                steps == UpdatedFiles(policy, encPol, disk["db"].key # Unsigned)
    <2>2. Begin("UpdatePolicy", able, steps) /\ pairs' = pairs
      BY <2>1 DEF UpdatePolicy
    <2>3. encPol \in BOOLEAN /\ able \in BOOLEAN /\ (able => CanRead("db") /\ ReadKey("site"))
      OBVIOUS
    <2>. HIDE DEF encPol, able
    <2>4. able => Fulfils("UpdatePolicy", disk, steps)
      BY <1>1, <2>3, UpdatePolicyFulfils
    <2>. HIDE DEF steps
    <2>. QED BY <1>1, <2>2, <2>3, <2>4, BeginKeepsFiles
  <1>. QED BY <1>2, <1>3, <1>4, <1>5 DEF Tripwire

LEMMA TwadminKeepsFiles == FInv /\ Twadmin => FInv'
  <1>. SUFFICES ASSUME FInv, Twadmin PROVE FInv'
    OBVIOUS
  <1>1. OnDisk(disk) /\ pairs \in 2 .. MaxPairs
    BY DEF FInv, Typed
  <1>2. CASE \E enc, same \in BOOLEAN : CreateConfig(enc, same)
    BY <1>1, <1>2, BeginKeepsFiles, CreateConfigFulfils DEF CreateConfig
  <1>3. CASE \E policy \in Policies, enc \in BOOLEAN : CreatePolicy(policy, enc)
    BY <1>1, <1>3, BeginKeepsFiles, CreatePolicyFulfils DEF CreatePolicy
  <1>4. CASE \E site, local \in BOOLEAN, pass \in Passphrases : GenerateKeys(site, local, pass)
    <2>1. PICK site \in BOOLEAN, local \in BOOLEAN, pass \in Passphrases :
             GenerateKeys(site, local, pass)
      BY <1>4
    <2>. DEFINE last == pairs + (IF site THEN 1 ELSE 0) + (IF local THEN 1 ELSE 0)
                steps == (IF site THEN GenerateKeyOf("site", pairs + 1, pass) ELSE <<>>) \o
                         (IF local THEN GenerateKeyOf("local", last, pass) ELSE <<>>)
    <2>2. Begin("GenerateKeys", TRUE, steps) /\ pairs' = last /\ last \in pairs + 1 .. MaxPairs
      BY <2>1 DEF GenerateKeys
    <2>. HIDE DEF last
    <2>3. pairs' \in 2 .. MaxPairs
      BY <1>1, <2>2, InstallationAssumption DEF InstallationAssumption
    <2>4. Fulfils("GenerateKeys", disk, steps)
      BY <1>1, <2>2, GenerateKeysFulfils
    <2>. HIDE DEF steps
    <2>. QED BY <2>2, <2>3, <2>4, BeginKeepsFiles
  <1>5. CASE \E site, local \in BOOLEAN, pass \in Passphrases : ChangePassphrases(site, local, pass)
    <2>1. PICK site \in BOOLEAN, local \in BOOLEAN, pass \in Passphrases :
             ChangePassphrases(site, local, pass)
      BY <1>5
    <2>. DEFINE able == /\ site => disk["site"] # Absent
                        /\ local => disk["local"] # Absent
                steps == (IF site THEN ChangePassphraseOf("site", pass) ELSE <<>>) \o
                         (IF local THEN ChangePassphraseOf("local", pass) ELSE <<>>)
    <2>2. Begin("ChangePassphrases", able, steps) /\ pairs' = pairs /\ able \in BOOLEAN
      BY <2>1 DEF ChangePassphrases
    <2>3. Fulfils("ChangePassphrases", disk, steps)
      BY <1>1, ChangePassphrasesFulfils
    <2>. HIDE DEF able, steps
    <2>. QED BY <1>1, <2>2, <2>3, BeginKeepsFiles
  <1>6. CASE \E f, g \in Signed : Encrypt(f, g) \/ RemoveEncryption(f, g)
    BY <1>1, <1>6, BeginKeepsFiles, EncryptFulfils DEF Encrypt, RemoveEncryption
  <1>. QED BY <1>2, <1>3, <1>4, <1>5, <1>6 DEF Twadmin

LEMMA InitEstablishesFiles == Init => FInv
  <1>. SUFFICES ASSUME Init PROVE FInv
    OBVIOUS
  <1>1. before = disk /\ todo = <<>> /\ op = "setup" /\ status = "done" /\ pairs = 2
    BY DEF Init
  <1>2. OnDisk(disk)
    <2>1. PICK pass \in Passphrases, policy \in Policies, enc \in BOOLEAN, db \in BOOLEAN :
             disk = [site   |-> [pair |-> 1, pass |-> pass],
                     local  |-> [pair |-> 2, pass |-> pass],
                     cfg    |-> [text |-> "settings", key |-> 1],
                     pol    |-> [text |-> policy, key |-> IF enc THEN 1 ELSE Unsigned],
                     db     |-> IF db THEN [text |-> policy, key |-> IF enc THEN 2 ELSE Unsigned]
                                ELSE Absent,
                     report |-> Absent]
      BY DEF Init
    <2>2. disk = [f \in Files |-> disk[f]]
      BY <2>1 DEF Files, KeyFiles, Signed
    <2>3. {1, 2} \subseteq Pairs
      BY InstallationAssumption DEF InstallationAssumption, Pairs
    <2>4. disk["site"] \in Contents("site") /\ disk["local"] \in Contents("local")
      BY <2>1, <2>3, FilesAre DEF Contents
    <2>5. /\ disk["cfg"] \in Contents("cfg") /\ disk["pol"] \in Contents("pol")
          /\ disk["db"] \in Contents("db") \cup {Absent} /\ disk["report"] = Absent
      BY <2>1, <2>3, FilesAre DEF Contents, Text
    <2>6. \A f \in Files : f \in {"site", "local", "cfg", "pol", "db", "report"}
      BY DEF Files, KeyFiles, Signed
    <2>. QED BY <2>2, <2>4, <2>5, <2>6 DEF OnDisk
  <1>3. Typed
    BY <1>1, <1>2, InstallationAssumption DEF Typed, InstallationAssumption
  <1>4. Sound(<<>>) /\ Written(<<>>) = {} /\ \A F : Settled(<<>>, F)
    BY EmptySilent, SilentSettled DEF Silent
  <1>5. \A f \in Files : Serves(disk, f, disk[f])
    BY <1>2, WholeFile, FilesAre DEF Serves, Opens, Files
  <1>6. Planned /\ Untouched /\ Serving /\ Updating
    BY <1>1, <1>4, <1>5 DEF Planned, Untouched, Serving, Updating
  <1>. QED BY <1>3, <1>6 DEF FInv

LEMMA NextKeepsFiles == FInv /\ [Next]_vars => FInv'
  <1>. SUFFICES ASSUME FInv, [Next]_vars PROVE FInv'
    OBVIOUS
  <1>1. CASE Tripwire
    BY <1>1, TripwireKeepsFiles
  <1>2. CASE Twadmin
    BY <1>2, TwadminKeepsFiles
  <1>3. CASE Refused \/ ReadFails \/ Finish \/ Killed
    BY <1>3, GiveUpKeepsFiles DEF Refused, ReadFails, Finish, Killed, At, Asking
  <1>4. CASE Asked \/ UnlinkBackup \/ CopyToBackup \/ ReadAgain
    BY <1>4, QuietStepKeepsFiles DEF Asked, UnlinkBackup, CopyToBackup, ReadAgain, At, WriteSteps
  <1>5. CASE Truncate \/ WriteOut
    BY <1>5, TruncateKeepsFiles, WriteOutKeepsFiles
  <1>6. CASE UNCHANGED vars
    BY <1>6 DEF vars, FInv, Typed, OnDisk, Planned, Untouched, Serving, Updating, IsWhole, Truncated
  <1>. QED BY <1>1, <1>2, <1>3, <1>4, <1>5, <1>6 DEF Next, Steps

LEMMA FilesInvariant == Spec => []FInv
  BY InitEstablishesFiles, NextKeepsFiles, PTL DEF Spec

-----------------------------------------------------------------------------
(* Theorems *)

\* A command that refuses, wherever it does, leaves every file as it was except for
\* those it was done with, and of these none is half written (the passphrases are asked
\* for before the files are written).
THEOREM RefusalLeavesFiles == Spec => []RefusedLeavesFiles
  <1>1. FInv => RefusedLeavesFiles
    <2>. SUFFICES ASSUME FInv, status = "refused", NEW f \in Files, disk[f] # before[f]
                  PROVE  f \in DoneWith(op) /\ IsWhole(disk, f)
      BY DEF RefusedLeavesFiles
    <2>1. ~Truncated(f)
      BY DEF FInv, Planned, Truncated
    <2>. QED BY <2>1 DEF FInv, Untouched
  <1>. QED BY <1>1, FilesInvariant, PTL

\* What could be read before a command still can when it has ended; after new keys were
\* made, with the key in the backup.
THEOREM WhatOpenedOpens == Spec => []StillOpens
  <1>1. FInv /\ OldContentKept => StillOpens
    <2>. SUFFICES ASSUME FInv, OldContentKept, status \in {"done", "refused"},
                         NEW f \in Signed, Opens(before, f, before)
                  PROVE  \/ Opens(disk, f, disk)
                         \/ op = "GenerateKeys" /\ Opens(disk, f, bak)
      BY DEF StillOpens
    <2>. DEFINE k == KeyFileOf(f)
    <2>1. f \in Files /\ k \in Files /\ k \in KeyFiles /\ f \notin KeyFiles
      BY FilesAre
    <2>2. CASE op = "GenerateKeys"
      <3>1. disk[f] = before[f]
        BY <2>2 DEF FInv, Serving
      <3>2. IsWhole(before, k) => before[k] \in {disk[k], bak[k]}
        BY <2>1, <2>2 DEF OldContentKept, KeptOf
      <3>. QED BY <2>2, <3>1, <3>2 DEF Opens, IsWhole
    <2>3. CASE op # "GenerateKeys"
      <3>1. \A g \in Files : Serves(before, g, disk[g])
        BY <2>3 DEF FInv, Planned, Serving, Truncated
      <3>2. /\ disk[f] \in Contents(f)
            /\ disk[f].key # Unsigned => IsWhole(before, k) /\ disk[f].key = before[k].pair
        BY <2>1, <3>1 DEF Serves
      <3>3. IsWhole(before, k) => disk[k] \in Contents(k) /\ disk[k].pair = before[k].pair
        BY <2>1, <3>1 DEF Serves
      <3>. QED BY <2>1, <3>2, <3>3, WholeContent DEF Opens, IsWhole
    <2>. QED BY <2>2, <2>3
  <1>. QED BY <1>1, FilesInvariant, OldContentSurvives, PTL

\* An update of the policy that ends well leaves a policy file and a database that can
\* both be read and are of one policy, whatever was there before.
THEOREM PolicyUpdateChecks == Spec => []UpdatedPolicyChecks
  <1>1. FInv => UpdatedPolicyChecks
    <2>. SUFFICES ASSUME FInv, op = "UpdatePolicy", status = "done"
                  PROVE  CanRead("db") /\ VerifyPolicy
      BY DEF UpdatedPolicyChecks
    <2>1. todo = <<>> /\ Written(todo) = {}
      BY EmptySilent DEF FInv, Planned, Silent
    <2>2. PICK policy \in Policies : \A f \in {"pol", "db"} : Fits(disk, f, disk[f], policy)
      BY <2>1 DEF FInv, Updating
    <2>3. IsWhole(disk, "site") /\ IsWhole(disk, "local")
      BY DEF FInv, Updating
    <2>4. \A f \in {"pol", "db"} : IsWhole(disk, f)
      BY <2>2, WholeContent, FilesAre DEF Fits, IsWhole
    <2>. QED BY <2>2, <2>3, <2>4, FilesAre DEF CanRead, ReadKey, Opens, VerifyPolicy, Fits
  <1>. QED BY <1>1, FilesInvariant, PTL
=============================================================================
