----------------------------- MODULE MCWriteDb -----------------------------
(* The two commands that fill a database, over a tree three levels deep: a  *)
(* behaviour generates one from the file system, in which another file      *)
(* system is mounted, or updates one from a report.  Or it looks closer at  *)
(* what these two take as one step: it calculates the properties of one     *)
(* object, follows its properties through any sequence of commands, or      *)
(* makes a report of objects, writes it and reads it again.                 *)
EXTENDS GenerateDb, UpdateDb, FsPropSet, Signatures

VARIABLES command,
          phase, heap, mAddedList, toCheck, found, mSpecList, lost, stream, written   \* of ReportObjects

O == INSTANCE ReportObjects WITH Rule <- <<1, 2>>, Name <- {1, 2}, MaxFound <- 3,
                                 todo <- toCheck, was <- written

ASSUME PartsAssumption == GenerateAssumption /\ PropAssumption

treeVars     == <<vars, updateVars>>
objectVars   == <<phase, heap, mAddedList, toCheck, found, mSpecList, lost, stream, written>>
allVars      == <<command, treeVars, hashVars, propVars, objectVars>>

NoGenerate == /\ fs = <<>> /\ faults = 0 /\ touched = {}
              /\ specs = {} /\ todo = {} /\ spec = <<>> /\ db = EmptyDb
              /\ walk = <<>> /\ opening = <<>> /\ errors = {}
NoUpdate   == /\ rules = {} /\ reported = <<>> /\ was = EmptyDb /\ updated = EmptyDb
              /\ report = {} /\ pending = {} /\ refused = {} /\ current = <<>>
NoTree     == NoGenerate /\ NoUpdate
NoHash     == /\ file = [type |-> "file", text |-> <<>>] /\ propsToCheck = {"SIZE"} /\ direct = FALSE
              /\ context = [a \in Algorithms |-> Fresh]
              /\ HashInit
NoProps    == disk = [stat |-> 1, hashes |-> 1] /\ policy = StatProp /\ PropInit

WriteInit ==
  /\ O!Init
  /\ \/ command = "generate" /\ NoHash /\ NoUpdate /\ Init /\ NoProps
     \/ command = "update" /\ NoHash /\ NoGenerate /\ UpdateInit /\ NoProps
     \/ command = "hash" /\ NoTree /\ HashInit /\ NoProps
     \/ command = "properties" /\ NoHash /\ NoTree /\ PropInit
     \/ command = "report" /\ NoHash /\ NoTree /\ NoProps

GenerateAll == command = "generate" /\ Step /\ UNCHANGED <<command, updateVars, hashVars, propVars, objectVars>>
Disturbance == command = "generate" /\ Disturbed /\ UNCHANGED <<command, updateVars, hashVars, propVars, objectVars>>
UpdateAll == command = "update" /\ UpdateNext /\ UNCHANGED <<command, vars, hashVars, propVars, objectVars>>
HashText == command = "hash" /\ HashNext /\ UNCHANGED <<command, treeVars, propVars, objectVars>>
Props == command = "properties" /\ PropNext /\ UNCHANGED <<command, treeVars, hashVars, objectVars>>
ReportOf == command = "report" /\ O!Next /\ UNCHANGED <<command, treeVars, hashVars, propVars>>

WriteNext == GenerateAll \/ Disturbance \/ UpdateAll \/ HashText \/ Props \/ ReportOf

WriteSpec == WriteInit /\ [][WriteNext]_allVars /\ WF_allVars(GenerateAll) /\ WF_allVars(UpdateAll)

CommandFinished == CASE command = "generate" -> Finished
                     [] command = "update"   -> UpdateFinished
                     [] OTHER                -> TRUE

-----------------------------------------------------------------------------
(* ReportObjects: an object lives as long as somebody owns it.              *)
ReferencesOwned == O!ReferencesOwned

(* ReportObjects: a report says what it said when it was written.           *)
ReportReadBack == O!ReportReadBack

(* Both commands on the database end, whatever the file system does.        *)
CommandEnds == <>CommandFinished

-----------------------------------------------------------------------------
Paths == {<<1>>, <<1, 1>>, <<1, 2>>, <<1, 1, 1>>}
Mounted == {<<1, 2>>}

Dir  == [type |-> "dir", version |-> 0]
File == [type |-> "file", version |-> 0]
Objects == {Dir, File, [type |-> "file", version |-> 1]}
AllTrees == {f \in UNION {[ps -> {Dir, File}] : ps \in SUBSET Paths} : IsTree(f)}

(* For the update: a directory outermost and a file at most beside the      *)
(* inner directory.                                                         *)
SomeTrees == {f \in UNION {[ps -> Objects] : ps \in SUBSET Paths} :
                /\ IsTree(f)
                /\ <<1>> \in DOMAIN f /\ f[<<1>>].type = "dir"
                /\ <<1, 2>> \in DOMAIN f => f[<<1, 2>>] = File}
MayIgnore == {{}, {"a"}}

SomeHashes == {{"CRC32", "MD5", "SHA", "HAVAL", "SIZE"}, {"MD5", "SIZE"}, {"SIZE"}, {"CRC32", "SHA"}}
OtherText  == <<"e", "e", "e">>

SomeProps == SUBSET {"SIZE", "MD5", "SHA"}

Rule(d, ps) == [depth |-> d, props |-> ps]
(* One rule; a rule in a rule; a rule of its start point alone far below    *)
(* another; a limit of the depth; an exclusion.                             *)
FourPolicies ==
  {Policy(<<1>> :> Rule(-1, {"a"}), {}),
   Policy(<<1>> :> Rule(-1, {"a"}) @@ <<1, 1>> :> Rule(-1, {"b"}), {<<1, 1, 1>>}),
   Policy(<<1>> :> Rule(-1, {"a"}) @@ <<1, 1, 1>> :> Rule(0, {"a", "b"}), {}),
   Policy(<<1>> :> Rule(1, {"a"}) @@ <<1, 1, 1>> :> Rule(-1, {"b"}), {<<1, 2>>})}
ThreePolicies ==
  {Policy(<<1>> :> Rule(-1, {"a"}), {}),
   Policy(<<1>> :> Rule(-1, {"a"}) @@ <<1, 1, 1>> :> Rule(0, {"a", "b"}), {}),
   Policy(<<1, 1>> :> Rule(1, {"a"}) @@ <<1>> :> Rule(0, {"b"}), {})}
=============================================================================
