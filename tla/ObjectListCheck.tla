-------------------------- MODULE ObjectListCheck --------------------------
(* cIntegrityCheck::ExecuteOnObjectList (tripwire/integritycheck.cpp): a    *)
(* check of the objects named on the command line, each in the rule that    *)
(* contains it and for itself, with nothing below it.                       *)
EXTENDS IntegrityCheck

CONSTANT Lists   \* what may be named

VARIABLES asked,     \* what was named
          fcoNames   \* what is still to be checked

listVars == <<vars, asked, fcoNames>>

(* The flags that it is given are not kept: mFlags stays as the constructor *)
(* left it.                                                                 *)
Plain == INSTANCE FcoReport WITH Flags <- {}

ListInit == Init /\ asked \in Lists /\ fcoNames = asked

-----------------------------------------------------------------------------
NoRuleFor(p) == \A s \in specs : ~SpecContainsFCO(s, p)

Checked == /\ fcoNames' = Tail(fcoNames)
           /\ UNCHANGED <<specs, todo, db, was, walk, opening, asked>>

(* eICFCONotInSpec.                                                         *)
NotInSpec == /\ fcoNames # <<>> /\ NoRuleFor(Head(fcoNames))
             /\ errors' = errors \cup {<<<<>>, Head(fcoNames)>>}
             /\ UNCHANGED <<fs, faults, touched, spec, report>>
             /\ Checked

(* eICFCONotInDb.                                                           *)
NotInDb(s) == LET p == Head(fcoNames)
              IN /\ fcoNames # <<>> /\ SpecContainsFCO(s, p)
                 /\ ~HasFCOData(db, p)
                 /\ LogError(s, p, FALSE)
                 /\ spec' = s
                 /\ UNCHANGED <<fs, faults, touched, report>>
                 /\ Checked

(* What is compared: the object as the iterator finds it, that seeks to it  *)
(* as to a start point, so that no other file system is crossed into.       *)
CompareListed(s, p) ==
  LET old == db.data[p]
      new == CalcProps(fs[p], s.props)
      differing == Plain!CompareFCOs(s, old, new)
  IN report' = IF differing = {} THEN report
               ELSE report \cup {Entry(s, "changed", p, old, new, differing)}

(* Variant: an object that is gone is passed over.                          *)
ComparedIfThere(s, works) ==
  LET p == Head(fcoNames)
      there == works /\ p \in DOMAIN fs
  IN /\ fcoNames # <<>> /\ SpecContainsFCO(s, p) /\ HasFCOData(db, p)
     /\ Call(works)
     /\ LogError(s, p, works)
     /\ IF there THEN CompareListed(s, p) ELSE UNCHANGED report
     /\ spec' = s
     /\ Checked
(* What cannot be looked at is not compared.                                *)
Compared(s, works) ==
  LET p == Head(fcoNames)
      there == works /\ p \in DOMAIN fs
  IN /\ fcoNames # <<>> /\ SpecContainsFCO(s, p) /\ HasFCOData(db, p)
     /\ Call(works)
     /\ LogError(s, p, there)
     /\ IF there THEN CompareListed(s, p) ELSE UNCHANGED report
     /\ spec' = s
     /\ Checked

ListStep == \/ NotInSpec
            \/ \E s \in specs : NotInDb(s) \/ \E works \in BOOLEAN : Compared(s, works)

ListDisturbed == /\ fcoNames # <<>> /\ Disturb
                 /\ UNCHANGED <<specs, todo, spec, db, was, walk, opening, report, errors,
                                asked, fcoNames>>

-----------------------------------------------------------------------------
(* What a check of everything, without the flags, would say of p.           *)
Whole(p) == UNION {Plain!Expected(fs, was, s, p) : s \in {r \in specs : Reaches(r, p)}}

(* Of each object that is named and that nothing happens to, a check of the *)
(* list says what a check of everything would say, where that is a change   *)
(* or nothing; for one that was added or removed, that is in no rule, or    *)
(* that a call failed for, there is an error instead.  The exception is a   *)
(* mount point, which the database has without its properties.              *)
ListedAsInWhole ==
  fcoNames = <<>> => \A p \in ToSet(asked) \ (touched \cup Mounts) :
    LET said == {e \in report : e.path = p}
        excused == \E r \in Path \cup {<<>>} : <<r, p>> \in errors
    IN IF excused THEN said \subseteq Whole(p)
                       /\ (faults > 0 \/ \A e \in Whole(p) : e.kind # "changed")
                  ELSE said = Whole(p)
=============================================================================
