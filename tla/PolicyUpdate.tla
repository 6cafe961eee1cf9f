---------------------------- MODULE PolicyUpdate ----------------------------
(* cPolicyUpdate (tripwire/policyupdate.cpp): takes a database that was     *)
(* made under one policy over to another.  An integrity check under the new *)
(* policy, with flags that make it rewrite the objects as it goes, gives a  *)
(* report; what it says of objects that both policies watch is a conflict;  *)
(* all of it is applied by cUpdateDb; and what no rule of the new policy    *)
(* contains is pruned.                                                      *)
EXTENDS IntegrityCheck

(* The flags that Execute gives its check; NoData is no FCO.                *)
ASSUME PolicyUpdateAssumption ==
  /\ Flags = {"COMPARE_VALID_PROPS_ONLY", "INVALIDATE_EXTRA_DB_PROPS", "SET_NEW_PROPS"}
  /\ \A policy \in Policies : DataAssumption(policy)

VARIABLES oldSpecs,   \* mOldPolicy; mNewPolicy is specs
          phase,      \* what Execute is doing
          conflicts,  \* names for which a conflict was reported
          pending, current, refused   \* of cUpdateDb

ownVars == <<oldSpecs, phase, conflicts>>
allVars == <<vars, ownVars, pending, current, refused>>

Update == INSTANCE UpdateDb WITH ReplaceProps <- TRUE, Ignorable <- {{}},
            UpdateTrees <- FileSystems, UpdatePolicies <- Policies,
            rules <- specs, reported <- fs, updated <- db

PUInit == /\ Init
          /\ \E oldPolicy \in Policies, before \in FileSystems :
               /\ oldSpecs = CreateFCOSpecs(oldPolicy)
               /\ db = DbOf(Snapshot(before, oldSpecs))
          /\ phase = "check"
          /\ conflicts = {}
          /\ pending = {} /\ current = spec.start /\ refused = {}

Check == /\ phase = "check" /\ ~Finished
         /\ Step
         /\ UNCHANGED <<ownVars, pending, current, refused>>

(* util_FCOInSpecList.                                                      *)
FCOInSpecList(rules, p) == \E s \in rules : SpecContainsFCO(s, p)

(* Variant: every entry of the report is a conflict.                        *)
AnyEntryConflicts(e) == TRUE
Conflicting(e) == CASE e.kind = "added"   -> FCOInSpecList(oldSpecs, e.path)
                    [] e.kind = "removed" -> FCOInSpecList(specs, e.path)
                    [] e.kind = "changed" -> TRUE

ReportConflicts == /\ phase = "check" /\ Finished
                   /\ conflicts' = {e.path : e \in {f \in report : Conflicting(f)}}
                   /\ phase' = "update"
                   /\ pending' = report
                   /\ UNCHANGED <<vars, oldSpecs, current, refused>>

ApplyReport == /\ phase = "update" /\ pending # {}
               /\ Update!UpdateStep
               /\ UNCHANGED <<fs, faults, touched, specs, todo, spec, was, walk, opening, report,
                              errors, ownVars>>

(* Variant: an entry below which nothing is left is kept.                   *)
PrunedKeepingEntries(d) ==
  [d EXCEPT !.data = [p \in Entries(d) |->
                        IF FCOInSpecList(specs, p) THEN d.data[p] ELSE NoData]]
(* util_PruneExtraObjects, children first: data outside the rules goes, and *)
(* with it entries that have neither data nor, any longer, children.  An    *)
(* entry with data keeps its child array, though it may be empty now.       *)
Pruned(d) ==
  LET kept == {p \in Contents(d) : FCOInSpecList(specs, p)}
      stay == UNION {PathsTo(p) : p \in kept}
  IN [data   |-> [p \in stay |-> IF p \in kept THEN d.data[p] ELSE NoData],
      arrays |-> {a \in d.arrays : a = <<>> \/ a \in kept \/ \E p \in stay : Above(a, p)}]

Prune == /\ phase = "update" /\ pending = {}
         /\ db' = Pruned(db)
         /\ phase' = "done"
         /\ UNCHANGED <<fs, faults, touched, specs, todo, spec, was, walk, opening, report,
                        errors, oldSpecs, conflicts, pending, current, refused>>

DisturbedUpdate == /\ phase = "check" /\ Disturbed
                   /\ UNCHANGED <<ownVars, pending, current, refused>>

PUNext == Check \/ ReportConflicts \/ ApplyReport \/ Prune \/ DisturbedUpdate

PUSpec == PUInit /\ [][PUNext]_allVars

-----------------------------------------------------------------------------
AtRest == phase = "done" /\ faults = 0

(* The database is left as the new policy would have made it: what it       *)
(* watches has the properties it asks for, and nothing else is there.       *)
DbUnderNewPolicy ==
  AtRest => LET fcos == Snapshot(fs, specs)
            IN /\ Contents(db) = DOMAIN fcos
               /\ \A p \in Contents(db) : db.data[p] = fcos[p]

(* Nothing of the report is refused: the objects that the check rewrites in *)
(* the database are those it puts in the report.                            *)
NothingRefused == refused = {}

(* The objects that a conflict is reported for are those that both policies *)
(* watch and that are not as they were in what both ask for.                *)
ConflictsRight ==
  AtRest => conflicts =
    {p \in Path : \E s \in specs :
       /\ Reaches(s, p)
       /\ \E t \in oldSpecs :
            /\ Reaches(t, p)
            /\ IF HasFCOData(was, p)
               THEN \/ ~Seen(fs, s, p)
                    \/ \E x \in DOMAIN FcoOf(fs, s, p) \cap DOMAIN was.data[p] :
                         FcoOf(fs, s, p)[x] # was.data[p][x]
               ELSE Seen(fs, s, p)}

(* The entries stay a tree, and none is left for nothing, though its child  *)
(* array may be one that lost its children to the new policy.               *)
NoUselessEntries ==
  /\ Rooted(db)
  /\ phase = "done" => \A p \in Entries(db) : HasFCOData(db, p) \/ Children(db, p) # {}

(* What nothing happened to in the meantime is in the end as the new policy *)
(* would have it, whatever happened to the rest, unless an error was        *)
(* reported for a directory above it.                                       *)
UntouchedTakenOver ==
  phase = "done" => \A s \in specs, p \in Path :
    /\ Reaches(s, p) /\ p \notin touched
    /\ \A e \in Path : <<s.start, e>> \in errors /\ AtOrAbove(e, p)
                         => e \notin DOMAIN fs \cup touched
    => IF Seen(fs, s, p) THEN HasFCOData(db, p) /\ db.data[p] = FcoOf(fs, s, p)
                         ELSE ~HasFCOData(db, p)

(* The conflicts are those that both policies watch; the update refuses no  *)
(* entry of its own check; what nothing happens to ends as the new policy   *)
(* would have it, and no entry stays for nothing.                           *)
TakenOverTidily == ConflictsRight /\ NothingRefused /\ UntouchedTakenOver /\ NoUselessEntries

=============================================================================
