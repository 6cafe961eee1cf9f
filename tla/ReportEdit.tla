----------------------------- MODULE ReportEdit -----------------------------
(* The user's edit of a report before the database is updated from it       *)
(* (cTextReportViewer::DisplayReportAndHaveUserUpdateIt,                    *)
(* tw/textreportviewer.cpp): the report is printed into a file with a       *)
(* checked box before every object, the user changes the file in an editor, *)
(* and what he left unchecked is taken out of the report.  The report is    *)
(* that of one section: for each rule the names of the objects added,       *)
(* removed and changed.                                                     *)
EXTENDS Integers, SequencesExt, FiniteSets

CONSTANTS Reports,    \* the reports that may be edited
          Foreign,    \* a name that is in none of them
          MaxEdits    \* changes the user makes to the file

Lists == {"added", "removed", "changed"}

\* Reports \subseteq Seq([Lists -> Seq(Seq(0 .. 255))]), no name twice in one

VARIABLES given,    \* the report as it was
          report,   \* the report
          stage,    \* "print", "edit", "read", "remove" and, at the end, "done",
                    \*   "corrupt" or "failed"
          heading,  \* the line of the section is in the file, before the boxes
          lines,    \* the lines with a box: what is in it, what follows it, and
                    \*   the name the user means, if he means one
          at,       \* the line read last
          list,     \* mFCOsRemoveFromReport
          edits     \* how often the user has changed the file

vars == <<given, report, stage, heading, lines, at, list, edits>>

Unmeant == <<-1>>

Init == /\ given \in Reports /\ report = given
        /\ stage = "print" /\ heading = FALSE /\ lines = <<>>
        /\ at = 0 /\ list = {} /\ edits = 0

-----------------------------------------------------------------------------
(* cDisplayEncoder (core/displayencoder.cpp) and the display strings of     *)
(* names made with it (fs/fsnametranslator.cpp), with the flag ROUNDTRIP:   *)
(* what is shown to the user has one printable line for every name, and the *)
(* name can be read back from it.  A string is a sequence of the codes of   *)
(* its characters, each of one byte.                                        *)

Newline == 10
Quote   == 34
Escape  == 92
HexMark == 120

IsPrintable(c) == c \in 32 .. 126

HexDigit(v) == IF v < 10 THEN 48 + v ELSE 87 + v
HexDigits == {HexDigit(v) : v \in 0 .. 15}
HexValue(c) == CHOOSE v \in 0 .. 15 : HexDigit(v) = c

(* Variant: the escape character stands for itself.                         *)
EncodeCharUnescaped(c) ==
  CASE ~IsPrintable(c) -> <<Escape, HexMark, HexDigit(c \div 16), HexDigit(c % 16)>>
    [] c = Quote       -> <<Escape, c>>
    [] OTHER           -> <<c>>
EncodeChar(c) ==
  CASE ~IsPrintable(c)       -> <<Escape, HexMark, HexDigit(c \div 16), HexDigit(c % 16)>>
    [] c \in {Escape, Quote} -> <<Escape, c>>
    [] OTHER                 -> <<c>>

Encode(s) == FlattenSeq([i \in DOMAIN s |-> EncodeChar(s[i])])

(* An escape without what must follow it is refused.  Of the two characters *)
(* of a number the second may be anything: the number ends before it.       *)
Bad == [ok |-> FALSE, text |-> <<>>]
Decode(s) ==
  LET from[i \in Nat] ==
        LET take(n, c) == [ok |-> from[i + n].ok, text |-> <<c>> \o from[i + n].text]
            there(k) == i + k <= Len(s)
        IN CASE ~there(0)          -> [ok |-> TRUE, text |-> <<>>]
             [] there(0) /\ s[i] # Escape -> take(1, s[i])
             [] there(1) /\ s[i] = Escape /\ s[i + 1] \in {Escape, Quote} -> take(2, s[i + 1])
             [] there(3) /\ s[i] = Escape /\ s[i + 1] = HexMark /\ s[i + 2] \in HexDigits ->
                  take(4, IF s[i + 3] \in HexDigits
                          THEN 16 * HexValue(s[i + 2]) + HexValue(s[i + 3])
                          ELSE HexValue(s[i + 2]))
             [] OTHER -> Bad
  IN from[1]

ToStringDisplay(name) == <<Quote>> \o Encode(name) \o <<Quote>>

(* A single quote is its own first and last character.                      *)
DisplayStringToFCOName(s) ==
  IF s # <<>> /\ Head(s) = Quote /\ Last(s) = Quote THEN Decode(SubSeq(s, 2, Len(s) - 1)) ELSE Bad

-----------------------------------------------------------------------------
(* The names in the order they are printed, and the lines for them.         *)
NamesOf(r) == FlattenSeq([k \in DOMAIN r |-> r[k].added \o r[k].removed \o r[k].changed])
BallotLine(n) == [box |-> "x", text |-> ToStringDisplay(n), meant |-> n]

PrintTextReport ==
  /\ stage = "print" /\ stage' = "edit"
  /\ heading' = TRUE
  /\ lines' = [i \in DOMAIN NamesOf(report) |-> BallotLine(NamesOf(report)[i])]
  /\ list' = ToSet(NamesOf(report))
  /\ UNCHANGED <<given, report, at, edits>>

-----------------------------------------------------------------------------
(* The user.  A box of another content than x is not checked; a line that   *)
(* no longer begins with a box is as good as deleted.                       *)
Mark(i)   == \E b \in {"x", "X", " "} : lines' = [lines EXCEPT ![i].box = b]
Delete(i) == lines' = RemoveAt(lines, i)
Repeat(i) == lines' = Append(lines, lines[i])
Cut(i)    == \E n \in 0 .. Len(lines[i].text) - 1 :
               lines' = [lines EXCEPT ![i].text = SubSeq(@, 1, n), ![i].meant = Unmeant]
Rename(i) == lines' = [lines EXCEPT ![i] = [BallotLine(Foreign) EXCEPT !.box = lines[i].box]]

Edit == /\ stage = "edit" /\ edits < MaxEdits
        /\ edits' = edits + 1
        /\ \/ heading' = FALSE /\ UNCHANGED lines
           \/ /\ UNCHANGED heading
              /\ \E i \in DOMAIN lines : Mark(i) \/ Delete(i) \/ Repeat(i) \/ Cut(i) \/ Rename(i)
        /\ UNCHANGED <<given, report, stage, at, list>>

(* LaunchEditorOnFile: the editor may end with an error.                    *)
LaunchFails == /\ stage = "edit" /\ stage' = "failed"
               /\ UNCHANGED <<given, report, heading, lines, at, list, edits>>
Launched == /\ stage = "edit" /\ stage' = "read"
            /\ UNCHANGED <<given, report, heading, lines, at, list, edits>>

-----------------------------------------------------------------------------
(* Variant: only the box as it was printed is a checked one.                *)
IsCheckedLower(l) == l.box = "x"
IsChecked(l) == l.box \in {"x", "X"}

(* GetBallotInfo for the next line: a box that belongs to no section, a     *)
(* name that cannot be read, or that is not in the list any more.           *)
GetFCONameFromBallotLine(l) ==
  IF Quote \in ToSet(l.text) THEN DisplayStringToFCOName(l.text) ELSE Bad
Wrong(l) == \/ ~heading
            \/ /\ IsChecked(l)
               /\ \/ ~GetFCONameFromBallotLine(l).ok
                  \/ GetFCONameFromBallotLine(l).text \notin list
Reading == stage = "read" /\ at < Len(lines)
Line == lines[at + 1]

BallotCorrupt == /\ Reading /\ Wrong(Line) /\ stage' = "corrupt"
                 /\ UNCHANGED <<given, report, heading, lines, at, list, edits>>

(* Variant: a checked name stays in the list.                               *)
GetBallotInfoKeeping ==
  /\ Reading /\ ~Wrong(Line) /\ at' = at + 1
  /\ UNCHANGED <<given, report, stage, heading, lines, list, edits>>
GetBallotInfo ==
  /\ Reading /\ ~Wrong(Line) /\ at' = at + 1
  /\ list' = IF IsChecked(Line) THEN list \ {GetFCONameFromBallotLine(Line).text} ELSE list
  /\ UNCHANGED <<given, report, stage, heading, lines, edits>>
ReadEnds ==
  /\ stage = "read" /\ at = Len(lines) /\ stage' = "remove"
  /\ UNCHANGED <<given, report, heading, lines, at, list, edits>>

-----------------------------------------------------------------------------
(* The walk over the changed objects for one name.  After an erasure the    *)
(* iterator is at the next object, which the loop then steps over; from the *)
(* end of the list it steps to the first one.                               *)
EraseChanged(changed, n) ==
  LET walk[s \in Seq(Seq(0 .. 255)) \X Nat] ==
        LET l == s[1]  i == s[2]
            erased == RemoveAt(l, i)
        IN CASE i > Len(l) -> l
             [] i \in DOMAIN l /\ l[i] # n -> walk[<<l, i + 1>>]
             [] i \in DOMAIN l /\ l[i] = n -> walk[<<erased, IF i = Len(l) THEN 1 ELSE i + 1>>]
  IN walk[<<changed, 1>>]

Erase(rule) ==
  [added   |-> SelectSeq(rule.added, LAMBDA n : n \notin list),
   removed |-> SelectSeq(rule.removed, LAMBDA n : n \notin list),
   changed |-> FoldSet(LAMBDA n, l : EraseChanged(l, n), rule.changed, list)]

RemoveFCOsFromReport ==
  /\ stage = "remove"
  /\ report' = [k \in DOMAIN report |-> Erase(report[k])]
  /\ stage' = IF Len(NamesOf(report)) - Len(NamesOf(report')) = Cardinality(list)
              THEN "done" ELSE "corrupt"
  /\ UNCHANGED <<given, heading, lines, at, list, edits>>

Next == \/ PrintTextReport
        \/ Edit \/ LaunchFails \/ Launched
        \/ BallotCorrupt \/ GetBallotInfo \/ ReadEnds
        \/ RemoveFCOsFromReport

Spec == Init /\ [][Next]_vars

-----------------------------------------------------------------------------
(* Properties *)

(* What the user left checked, by the lines as he meant them.               *)
MeantChecked == {i \in DOMAIN lines : lines[i].box # " "}
Meant == {lines[i].meant : i \in MeantChecked}
Sensible == /\ heading \/ lines = <<>>
            /\ Meant \subseteq ToSet(NamesOf(given))
            /\ Cardinality(Meant) = Cardinality(MeantChecked)

(* A file that still makes sense is understood, whatever the names are made *)
(* of: the report keeps exactly what is checked in it, in its order.  One   *)
(* that does not is refused before anything is taken out of the report: a   *)
(* line cut short is never taken for another object's.                      *)
EditAsMarked ==
  LET kept(names) == SelectSeq(names, LAMBDA n : n \in Meant)
  IN /\ stage \in {"done", "corrupt"} => (stage = "done" <=> Sensible)
     /\ stage = "done" =>
          report = [k \in DOMAIN given |-> [l \in Lists |-> kept(given[k][l])]]
     /\ stage # "done" => report = given
=============================================================================
