----------------------------- MODULE FileSystem -----------------------------
(* The file system changes while Tripwire runs: a name that was read from a *)
(* directory may be gone when the object is looked at, and any system call  *)
(* may fail.                                                                *)
EXTENDS FcoDatabase

CONSTANT MaxFaults   \* bound on changes and failed calls in a run

ASSUME FileSystemAssumption == MaxFaults \in Nat

VARIABLES fs,       \* the file system
          faults,   \* changes and failed calls so far
          touched   \* names of the objects that were changed

(* A system call fails, or it does not.                                     *)
Call(works) == /\ works \/ faults < MaxFaults
               /\ faults' = IF works THEN faults ELSE faults + 1
               /\ UNCHANGED <<fs, touched>>

Touch(p) == /\ faults < MaxFaults
            /\ faults' = faults + 1
            /\ touched' = touched \cup {p}

CreateObject(p) == /\ p \in Path \ DOMAIN fs
                   /\ Len(p) = 1 \/ IsDir(fs, Front(p))
                   /\ \E o \in Object : fs' = [q \in DOMAIN fs \cup {p} |->
                                                 IF q = p THEN o ELSE fs[q]]
                   /\ Touch(p)
ChangeObject(p) == /\ p \in DOMAIN fs
                   /\ \E o \in Object \ {fs[p]} :
                        /\ o.type = "dir" \/ ChildrenIn(fs, p) = {}
                        /\ fs' = [fs EXCEPT ![p] = o]
                   /\ Touch(p)
RemoveObject(p) == /\ p \in DOMAIN fs /\ ChildrenIn(fs, p) = {}
                   /\ fs' = [q \in DOMAIN fs \ {p} |-> fs[q]]
                   /\ Touch(p)
Disturb == \E p \in Path : CreateObject(p) \/ ChangeObject(p) \/ RemoveObject(p)
=============================================================================
