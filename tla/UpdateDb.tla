------------------------------ MODULE UpdateDb ------------------------------
(* cUpdateDb (tripwire/updatedb.cpp): applies the entries of a report to    *)
(* the database.  The report may be of an earlier day than the database,    *)
(* and the user may have struck entries out of it: an entry that does not   *)
(* fit is refused, and the others are applied.                              *)
EXTENDS FcoReport

CONSTANTS ReplaceProps,  \* FLAG_REPLACE_PROPS
          UpdateTrees,   \* what the file system may be when a report is made
          UpdatePolicies,
          Ignorable      \* sets of properties that the check may leave out

ASSUME UpdateAssumption ==
  /\ ReplaceProps \in BOOLEAN
  /\ \A f \in UpdateTrees : TreeAssumption(f)
  /\ \A policy \in UpdatePolicies : PolicyAssumption(policy) /\ DataAssumption(policy)

VARIABLES rules,    \* the rules of the report
          reported, \* the file system when the report was made
          was,      \* the database before the update
          updated,  \* the database
          report,   \* the entries to apply
          pending,  \* those not applied yet
          current,  \* the rule whose entries are being applied
          refused   \* names for which an error was added to the bucket

ownVars == <<updated, pending, current, refused>>
updateVars == <<rules, reported, was, report, ownVars>>

(* TrimPropsFromSpecs: the check ignores some properties (--ignore).        *)
Trimmed(ss, ignored) == {[s EXCEPT !.props = @ \ ignored] : s \in ss}

UpdateInit ==
  /\ reported \in UpdateTrees
  /\ \E policy \in UpdatePolicies : rules = CreateFCOSpecs(policy)
  /\ \E before \in UpdateTrees, ignored \in Ignorable :
       report \in SUBSET Difference(reported, DbOf(Snapshot(before, rules)), Trimmed(rules, ignored))
  /\ \E now \in UpdateTrees : was = DbOf(Snapshot(now, rules))
  /\ updated = was
  /\ pending = report
  /\ current \in {s.start : s \in rules}
  /\ refused = {}

(* Rules come one after the other; within one, what was added before what   *)
(* was removed before what was changed.                                     *)
Rank == [added |-> 1, removed |-> 2, changed |-> 3]
IsNext(e) == /\ e \in pending
             /\ \A f \in pending : /\ f.rule = current => e.rule = current
                                   /\ f.rule = e.rule => Rank[e.kind] =< Rank[f.kind]
Take(e) == IsNext(e) /\ pending' = pending \ {e} /\ current' = e.rule

Refuse(e) == refused' = refused \cup {e.path} /\ UNCHANGED updated
Apply(d)  == updated' = d /\ UNCHANGED refused

(* Variant: whatever the database has under the name is replaced.           *)
AddOver(e) == /\ e.kind = "added" /\ Take(e)
              /\ Apply(SetFCOData(CreatePath(updated, e.path), e.path, e.new))
AddFCOOf(e) == /\ e.kind = "added" /\ Take(e)
               /\ IF HasFCOData(updated, e.path) THEN Refuse(e)
                  ELSE Apply(SetFCOData(CreatePath(updated, e.path), e.path, e.new))

RemoveFCOOf(e) == /\ e.kind = "removed" /\ Take(e)
                  /\ IF HasFCOData(updated, e.path) THEN Apply(RemoveFCOFromDb(updated, e.path))
                                               ELSE Refuse(e)

(* The new FCO, with what only the one in the database has unless           *)
(* properties are to be replaced.                                           *)
NewData(e) == IF ReplaceProps THEN e.new ELSE AddProps(e.new, updated.data[e.path])
ChangeFCOOf(e) ==
  /\ e.kind = "changed" /\ Take(e)
  /\ IF HasFCOData(updated, e.path) /\ Differing(e.old, updated.data[e.path], DOMAIN e.old) = {}
     THEN Apply(SetFCOData(updated, e.path, NewData(e)))
     ELSE Refuse(e)

UpdateStep == \E e \in pending : AddFCOOf(e) \/ RemoveFCOOf(e) \/ ChangeFCOOf(e)
UpdateNext == UpdateStep /\ UNCHANGED <<rules, reported, was, report>>

UpdateSpec == UpdateInit /\ [][UpdateNext]_updateVars

-----------------------------------------------------------------------------
UpdateFinished == pending = {}

UpdateTypeOK == /\ Rooted(updated)
                /\ pending \subseteq report
                /\ refused \subseteq {e.path : e \in report}

(* Whether the database bears out what an entry says there was before.      *)
Fits(e) ==
  CASE e.kind = "added"   -> ~HasFCOData(was, e.path)
    [] e.kind = "removed" -> HasFCOData(was, e.path)
    [] e.kind = "changed" -> /\ HasFCOData(was, e.path)
                             /\ \A x \in DOMAIN e.old :
                                  x \in DOMAIN was.data[e.path] /\ was.data[e.path][x] = e.old[x]

(* The entries that fit are applied and the others refused, in whatever     *)
(* order they come: removing one object neither takes another with it nor   *)
(* makes room for one that should be refused.  What the report does not     *)
(* speak of stays as it was.                                                *)
FitsAppliedOthersRefused ==
  UpdateFinished =>
    /\ refused = {e.path : e \in {f \in report : ~Fits(f)}}
    /\ \A p \in Path :
         LET applied == {e \in report : e.path = p /\ Fits(e)}
         IN IF applied = {}
            THEN /\ HasFCOData(updated, p) = HasFCOData(was, p)
                 /\ HasFCOData(was, p) => updated.data[p] = was.data[p]
            ELSE \A e \in applied :
                   IF e.kind = "removed" THEN ~HasFCOData(updated, p)
                   ELSE /\ HasFCOData(updated, p)
                        /\ \A x \in DOMAIN e.new : updated.data[p][x] = e.new[x]
                        /\ ~ReplaceProps /\ e.kind = "changed" =>
                              DOMAIN updated.data[p] = DOMAIN e.new \cup DOMAIN was.data[p]

(* Exactly the entries that fit are applied, to a database whose entries   *)
(* hang together throughout.                                                *)
EntriesApplied == UpdateTypeOK /\ FitsAppliedOthersRefused

(* An integrity check and an update from its whole report make the database *)
(* that would be generated anew, entry by entry: the parents that became    *)
(* empty went with the last object below them.                              *)
UpdateIsGenerate == UpdateFinished /\ report = Difference(reported, was, rules) =>
                      updated = DbOf(Snapshot(reported, rules)) /\ refused = {}
=============================================================================
