----------------------------- MODULE GenerateDb -----------------------------
(* cGenerateDb (tripwire/generatedb.cpp): walks down from the start point   *)
(* of every rule and enters what it finds into an empty database.  Objects  *)
(* are looked at one after the other while the file system changes.         *)
EXTENDS FileSystem

CONSTANTS FileSystems,  \* what the file system may be at the beginning
          Policies

VARIABLES specs,    \* the rules, specList
          todo,     \* those still to be processed
          spec,     \* the one being processed
          db,       \* the database
          walk,     \* the directories being processed, innermost last: the
                    \*   name of each and the names of the peers still to come
          opening,  \* the directory to descend into next: of length one or none
          errors    \* names of the objects for which an error was reported

vars == <<fs, faults, touched, specs, todo, spec, db, walk, opening, errors>>

(* What the file system and the policy may be.                              *)
GenerateAssumption ==
  /\ \A f \in FileSystems : TreeAssumption(f)
  /\ \A policy \in Policies : PolicyAssumption(policy) /\ DataAssumption(policy)

Top      == walk[Len(walk)]
Advanced == [walk EXCEPT ![Len(walk)].names = Tail(@)]
Here     == Append(Top.dir, Head(Top.names))
Idle     == walk = <<>> /\ opening = <<>>
Finished == todo = {} /\ Idle

Init == /\ fs \in FileSystems
        /\ faults = 0 /\ touched = {}
        /\ \E policy \in Policies : specs = CreateFCOSpecs(policy)
        /\ todo = specs
        /\ spec \in specs
        /\ db = EmptyDb
        /\ walk = <<>> /\ opening = <<>>
        /\ errors = {}

(* The object at p as the iterator fills it in.                             *)
Look(s, p, works) == IF works THEN InitializeTypeInfo(fs, s, p) ELSE InvalidObject
Report(p, works) == errors' = IF works /\ p \in DOMAIN fs THEN errors ELSE errors \cup {p}

(* A directory gets a child array and is descended into.                    *)
Descend(d, p, o) == IF o.type = "dir"
                    THEN db' = AddChildArray(d, p) /\ opening' = <<p>>
                    ELSE db' = d /\ opening' = <<>>

(* The start point of the next rule, in any order: the order of a canonical *)
(* iterator begins with the address of the helper's type.  An object that   *)
(* cannot be looked at is not entered.                                      *)
ProcessSpec(s, works) ==
  LET p == s.start
      o == Look(s, p, works)
  IN /\ Idle /\ s \in todo
     /\ Call(works)
     /\ spec' = s /\ todo' = todo \ {s}
     /\ Report(p, works)
     /\ IF o = InvalidObject
        THEN UNCHANGED <<db, opening>>
        ELSE Descend(SetFCOData(CreatePath(db, p), p, CalcProps(o, s.props)), p, o)
     /\ UNCHANGED <<specs, walk>>

(* The names in the directory are read.                                     *)
OpenDir(works) ==
  /\ opening # <<>>
  /\ Call(works)
  /\ LET p == opening[1]
         readable == works /\ IsDir(fs, p)
     IN /\ walk' = Append(walk, [dir   |-> p,
                                 names |-> IF readable THEN GetChildrenNames(fs, p) ELSE <<>>])
        /\ errors' = IF readable THEN errors ELSE errors \cup {p}
  /\ opening' = <<>>
  /\ UNCHANGED <<specs, todo, spec, db>>

AtObject == opening = <<>> /\ walk # <<>> /\ Top.names # <<>>

(* Variant: the loop goes round without a step to the next object.          *)
SkipNothing == /\ AtObject /\ ShouldStopDescent(spec, Here) /\ UNCHANGED vars
SkipObject == /\ AtObject /\ ShouldStopDescent(spec, Here)
              /\ walk' = Advanced
              /\ UNCHANGED <<fs, faults, touched, specs, todo, spec, db, opening, errors>>

(* Variant: the walk of a directory ends with its first object.             *)
ProcessObjectAsLast(works) ==
  LET p == Here
      o == Look(spec, p, works)
  IN /\ AtObject /\ ~ShouldStopDescent(spec, p)
     /\ Call(works)
     /\ Report(p, works)
     /\ walk' = [walk EXCEPT ![Len(walk)].names = <<>>]
     /\ Descend(AddFCO(db, p, CalcProps(o, spec.props)), p, o)
     /\ UNCHANGED <<specs, todo, spec>>
(* An object below the start point is entered even when nothing could be    *)
(* learnt of it: CreateFCO passes on what InitializeTypeInfo left.          *)
ProcessObject(works) ==
  LET p == Here
      o == Look(spec, p, works)
  IN /\ AtObject /\ ~ShouldStopDescent(spec, p)
     /\ Call(works)
     /\ Report(p, works)
     /\ walk' = Advanced
     /\ Descend(AddFCO(db, p, CalcProps(o, spec.props)), p, o)
     /\ UNCHANGED <<specs, todo, spec>>

(* Variant: an empty child array stays.                                     *)
LeaveDirAsIs == /\ opening = <<>> /\ walk # <<>> /\ Top.names = <<>>
                /\ walk' = Front(walk)
                /\ UNCHANGED <<fs, faults, touched, specs, todo, spec, db, opening, errors>>
(* The directory is done: if nothing was entered into its child array, the  *)
(* array goes.                                                              *)
LeaveDir == /\ opening = <<>> /\ walk # <<>> /\ Top.names = <<>>
            /\ walk' = Front(walk)
            /\ db' = IF CanRemoveChildArray(db, Top.dir) THEN RemoveChildArray(db, Top.dir) ELSE db
            /\ UNCHANGED <<fs, faults, touched, specs, todo, spec, opening, errors>>

Disturbed == ~Finished /\ Disturb
             /\ UNCHANGED <<specs, todo, spec, db, walk, opening, errors>>

Step == \/ \E works \in BOOLEAN : \/ \E s \in todo : ProcessSpec(s, works)
                                  \/ OpenDir(works)
                                  \/ ProcessObject(works)
        \/ SkipObject
        \/ LeaveDir

Next == Step \/ Disturbed

Spec == Init /\ [][Next]_vars /\ WF_vars(Step)

-----------------------------------------------------------------------------
TypeOK == /\ IsTree(fs) /\ DOMAIN fs \subseteq Path /\ \A p \in DOMAIN fs : fs[p] \in Object
          /\ todo \subseteq specs /\ spec \in specs
          /\ Entries(db) \subseteq Path /\ Rooted(db)
          /\ \A n \in 1..Len(walk) : walk[n].dir \in Path
          /\ \A e \in errors : \E s \in specs : Reaches(s, e)
          /\ touched \subseteq Path

(* An object that was there, or not there, all the time is recorded as it   *)
(* is, whatever happens elsewhere meanwhile, unless an error was reported   *)
(* for it or for a directory above it: whatever order the rules come in,    *)
(* each object gets the properties of the one rule it is in.                *)
UntouchedRecorded ==
  Finished => \A s \in specs, p \in Path :
    /\ Reaches(s, p) /\ p \notin touched
    /\ \A e \in errors : AtOrAbove(e, p) => e \notin DOMAIN fs \cup touched
    => IF Seen(fs, s, p) THEN HasFCOData(db, p) /\ db.data[p] = FcoOf(fs, s, p)
                         ELSE ~HasFCOData(db, p)

(* The database holds nothing outside the rules, no empty child array and   *)
(* no entry without data or children, though start points below others may  *)
(* have been entered first and directories have gone away.                  *)
NothingUseless == Finished => /\ \A p \in Contents(db) : \E s \in specs : Reaches(s, p)
                              /\ Tidy(db)

(* A database that was generated is what it should be, and no more.         *)
GeneratedIsSnapshot == UntouchedRecorded /\ NothingUseless

(* The walk ends.                                                           *)
Ends == <>Finished
=============================================================================
