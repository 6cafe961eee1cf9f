-------------------------- MODULE MCIntegrityCheck --------------------------
(* A policy update, an integrity check, and a check of listed objects, over *)
(* a tree three levels deep.  For the check by itself, and for that of a    *)
(* list, another file system is mounted in the tree, directories are        *)
(* compared loosely, and the database was made under the same policy; both  *)
(* have variables, and constants, of their own.  What a behaviour has no    *)
(* use for stays as a command with nothing to do has it.                    *)
EXTENDS PolicyUpdate

CONSTANTS Commands,
          CheckFlags, CheckLooseDirProps, CheckMounts, CheckPolicies,
          CheckTrees, CheckFaults, ListTrees, ListFaults, ListsToCheck

VARIABLES fs2, faults2, touched2, specs2, todo2, spec2, db2, was2, walk2,
          opening2, report2, errors2,   \* those of a check
          asked, fcoNames               \* of one of listed objects

checkVars  == <<fs2, faults2, touched2, specs2, todo2, spec2, db2, was2, walk2, opening2,
                report2, errors2>>
listVars   == <<asked, fcoNames>>
mcVars     == <<allVars, checkVars, listVars>>

Checking == INSTANCE IntegrityCheck
              WITH Flags <- CheckFlags, LooseDirProps <- CheckLooseDirProps, Mounts <- CheckMounts,
                   MaxFaults <- CheckFaults, FileSystems <- CheckTrees,
                   Policies <- CheckPolicies, SamePolicy <- TRUE,
                   fs <- fs2, faults <- faults2, touched <- touched2, specs <- specs2,
                   todo <- todo2, spec <- spec2, db <- db2, was <- was2, walk <- walk2,
                   opening <- opening2, report <- report2, errors <- errors2
Listed == INSTANCE ObjectListCheck
            WITH Flags <- CheckFlags, LooseDirProps <- CheckLooseDirProps, Mounts <- CheckMounts,
                 MaxFaults <- ListFaults, FileSystems <- ListTrees, Lists <- ListsToCheck,
                 Policies <- CheckPolicies, SamePolicy <- TRUE,
                 fs <- fs2, faults <- faults2, touched <- touched2, specs <- specs2,
                 todo <- todo2, spec <- spec2, db <- db2, was <- was2, walk <- walk2,
                 opening <- opening2, report <- report2, errors <- errors2

NoUpdate == /\ fs = <<>> /\ faults = 0 /\ touched = {}
            /\ specs = {} /\ todo = {} /\ spec = <<>>
            /\ db = EmptyDb /\ was = EmptyDb /\ walk = <<>> /\ opening = <<>>
            /\ report = {} /\ errors = {}
            /\ oldSpecs = {} /\ phase = "none" /\ conflicts = {}
            /\ pending = {} /\ current = <<>> /\ refused = {}
NoCheck == /\ fs2 = <<>> /\ faults2 = 0 /\ touched2 = {}
           /\ specs2 = {} /\ todo2 = {} /\ spec2 = <<>>
           /\ db2 = EmptyDb /\ was2 = EmptyDb /\ walk2 = <<>> /\ opening2 = <<>>
           /\ report2 = {} /\ errors2 = {}
NoList == asked = <<>> /\ fcoNames = <<>>

CheckInit ==
  \/ "check" \in Commands /\ Checking!Init /\ NoList /\ NoUpdate
  \/ "list" \in Commands /\ Listed!ListInit /\ NoUpdate
  \/ "policy update" \in Commands /\ PUInit /\ NoCheck /\ NoList

CheckStep      == asked = <<>> /\ Checking!Step /\ UNCHANGED <<allVars, listVars>>
DisturbedCheck == asked = <<>> /\ Checking!Disturbed /\ UNCHANGED <<allVars, listVars>>

CheckList     == Listed!ListStep /\ UNCHANGED allVars
DisturbedList == Listed!ListDisturbed /\ UNCHANGED allVars

UpdatePolicy == PUNext /\ UNCHANGED <<checkVars, listVars>>

CheckNext == CheckStep \/ DisturbedCheck \/ CheckList \/ DisturbedList \/ UpdatePolicy

(* The command goes on, in whichever of its parts it is.                    *)
Command == \/ CheckStep \/ CheckList
           \/ /\ Check \/ ReportConflicts \/ ApplyReport \/ Prune
              /\ UNCHANGED <<checkVars, listVars>>

CheckSpec == CheckInit /\ [][CheckNext]_mcVars /\ WF_mcVars(Command)

-----------------------------------------------------------------------------
(* IntegrityCheck and ObjectListCheck: every difference is reported, and    *)
(* once, nothing that could not be looked at without an error, and a check  *)
(* of listed objects says of them what a check of everything would.         *)
CheckAndListRight == /\ asked = <<>> => Checking!ReportsRight /\ Checking!PhantomHasError
                     /\ Listed!ListedAsInWhole

(* The commands end, whatever the file system does.                         *)
CommandsEnd == <>(/\ Finished /\ phase \in {"none", "done"}
                  /\ fcoNames = <<>> /\ (asked = <<>> => Checking!Finished))

-----------------------------------------------------------------------------
Paths == {<<1>>, <<1, 1>>, <<1, 2>>, <<1, 1, 1>>}
Mounted == {<<1, 2>>}

File(v) == [type |-> "file", version |-> v]
Objects == {[type |-> "dir", version |-> 0], File(0), File(1)}
AllTrees == {f \in UNION {[ps -> Objects] : ps \in SUBSET Paths} : IsTree(f)}
(* The innermost object is a file, in two versions; the others come in one. *)
Trees == {f \in AllTrees : \A p \in DOMAIN f : IF p = <<1, 1, 1>> THEN f[p].type = "file"
                                                                 ELSE f[p].version = 0}
(* For the check, those that have a directory, if anything, where the other *)
(* file system is mounted.                                                  *)
TreesToCheck == {f \in Trees : <<1, 2>> \in DOMAIN f => f[<<1, 2>>].type = "dir"}
(* For a list, those of which an inner object is a directory;               *)
TreesOfLists == {f \in TreesToCheck : <<1, 1>> \in DOMAIN f => f[<<1, 1>>].type = "dir"}
(* for the update, those with a directory outermost and a file at most      *)
(* beside the inner directory.                                              *)
SomeTrees == {f \in Trees : /\ <<1>> \in DOMAIN f /\ f[<<1>>].type = "dir"
                            /\ <<1, 2>> \in DOMAIN f => f[<<1, 2>>].type = "file"}

Rule(d, ps) == [depth |-> d, props |-> ps]
(* One rule; a rule in a rule with an exclusion; a rule of its start point  *)
(* alone far below another; a limit of the depth.                           *)
PoliciesToCheck ==
  {Policy(<<1>> :> Rule(-1, {"a"}), {}),
   Policy(<<1>> :> Rule(-1, {"a"}) @@ <<1, 1>> :> Rule(-1, {"b"}), {<<1, 1, 1>>}),
   Policy(<<1>> :> Rule(-1, {"a"}) @@ <<1, 1, 1>> :> Rule(0, {"a", "b"}), {}),
   Policy(<<1>> :> Rule(1, {"a"}) @@ <<1, 1, 1>> :> Rule(-1, {"b"}), {<<1, 2>>})}
(* For the update, without a limit of the depth,                            *)
SomePolicies ==
  {Policy(<<1>> :> Rule(-1, {"a"}), {}),
   Policy(<<1>> :> Rule(-1, {"a", "b"}) @@ <<1, 1, 1>> :> Rule(0, {"a"}), {<<1, 2>>}),
   Policy(<<1>> :> Rule(0, {"a"}) @@ <<1, 1>> :> Rule(-1, {"b"}), {})}
(* and with one.                                                            *)
DepthPolicies ==
  {Policy(<<1>> :> Rule(-1, {"a"}), {}), Policy(<<1>> :> Rule(1, {"a"}), {})}
(* An object; one twice; two in one order and the other.                    *)
SomeLists == {<<p>> : p \in Paths} \cup
             {<<<<1, 1, 1>>, <<1, 1, 1>>>>, <<<<1>>, <<1, 1, 1>>>>, <<<<1, 1, 1>>, <<1>>>>}
=============================================================================
