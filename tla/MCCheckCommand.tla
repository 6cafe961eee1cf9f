---------------------------- MODULE MCCheckCommand ----------------------------
(* A check of two rules, with one address of both, one of the second only,  *)
(* and a global list that repeats one of them.  Both rules are checked,     *)
(* one, none, or three objects of which one is in no rule.  Or the edit of  *)
(* a report by which an interactive check ends: there the names are those   *)
(* the display encoding treats in different ways.                           *)
EXTENDS CheckCommand

VARIABLES what,
          given, edited, stage, heading, lines, line, unread, edits  \* of ReportEdit

TwoRules  == <<"r1", "r2">>
Addresses == [r1 |-> <<"root">>, r2 |-> <<"root", "ops">>]
Global    == <<"ops", "root", "ops">>
SomeChecks == {<<"r1", "r2">>, <<"r2">>, <<>>, <<"r1", NoRule, "r1">>}
SomeFindings == {{}, {"added", "changed"}}

One(n) == <<[added |-> <<n>>, removed |-> <<>>, changed |-> <<>>]>>
Chars == {97, 10, 34, 92, 120}
Awkward == UNION {[1 .. n -> Chars] : n \in 1 .. 2} \cup {<<92, 120, 48, 97>>}
TwoSpecs == <<[added |-> <<<<97>>, <<92>>>>, removed |-> <<<<10>>>>, changed |-> <<>>],
              [added |-> <<>>, removed |-> <<>>,
               changed |-> <<<<92, 120, 48, 97>>, <<97, 34>>, <<34>>>>]>>

R == INSTANCE ReportEdit WITH report <- edited, at <- line, list <- unread, Foreign <- <<98>>, MaxEdits <- 2,
                              Reports <- {One(n) : n \in Awkward} \cup {TwoSpecs}

editVars == <<given, edited, stage, heading, lines, line, unread, edits>>

InteractiveInit ==
  \/ /\ what = "check" /\ Init
     /\ given = <<>> /\ edited = <<>> /\ stage = "failed" /\ heading = FALSE
     /\ lines = <<>> /\ line = 0 /\ unread = {} /\ edits = 0
  \/ what = "edit" /\ R!Init /\ Init /\ asked = <<>>

Check     == what = "check" /\ CommandStep /\ UNCHANGED <<what, editVars>>
MailServer == what = "check" /\ ServerSteps /\ UNCHANGED <<what, editVars>>
EditStep  == what = "edit" /\ R!Next /\ UNCHANGED <<what, allVars>>

InteractiveNext == Check \/ MailServer \/ EditStep

InteractiveSpec == InteractiveInit /\ [][InteractiveNext]_<<what, editVars, allVars>>
                     /\ WF_<<what, editVars, allVars>>(Check)

(* The check alone.                                                         *)
CheckSpec == what = "check" /\ InteractiveSpec

(* ReportEdit: the report keeps what is left checked in the file.           *)
EditAsMarked == what = "edit" => R!EditAsMarked

(* CheckCommand: the command ends, if every call it makes returns.          *)
CheckEnds == what = "check" => Ends
=============================================================================
