----------------------------- MODULE FcoReport -----------------------------
(* The entries of a report (tw/fcoreport.cpp) and the comparison of FCOs    *)
(* from which the integrity check makes them (tripwire/integritycheck.cpp). *)
EXTENDS FcoDatabase

CONSTANTS Flags,          \* the flags the check is executed with
          LooseDirProps   \* GetLooseDirMask: not compared in directories

ASSUME FlagsAssumption ==
  Flags \subseteq {"LOOSE_DIR", "COMPARE_VALID_PROPS_ONLY", "INVALIDATE_EXTRA_DB_PROPS", "SET_NEW_PROPS"}

(* An entry of the report: for rule s, of kind "added", "removed" or        *)
(* "changed", with the FCOs of the two sides and the properties that differ.*)
Entry(s, kind, p, old, new, props) ==
  [rule |-> s.start, kind |-> kind, path |-> p, old |-> old, new |-> new, props |-> props]
Added(s, p, new)   == Entry(s, "added", p, NoData, new, {})
Removed(s, p, old) == Entry(s, "removed", p, old, NoData, {})

(* CompareFCOs: the properties to compare, and those that differ.           *)
PropsToCheck(s, old, new) ==
  LET valid == IF "COMPARE_VALID_PROPS_ONLY" \in Flags
               THEN DOMAIN old \cap DOMAIN new ELSE DOMAIN old \cup DOMAIN new
      loose == IF "LOOSE_DIR" \in Flags /\ IsDirectory(old) /\ IsDirectory(new)
               THEN LooseDirProps ELSE {}
  IN (valid \cap s.props) \ loose
CompareFCOs(s, old, new) == Differing(old, new, PropsToCheck(s, old, new))

(* Variant: properties the new policy does not ask for are kept.            *)
AdjustedKeepingAll(s, old, new) ==
  IF "SET_NEW_PROPS" \in Flags THEN AddProps(old, new) ELSE old
(* The database's FCO as a policy update leaves it: without what the new    *)
(* policy does not ask for, with what the old one did not.                  *)
Adjusted(s, old, new) ==
  LET kept == IF "INVALIDATE_EXTRA_DB_PROPS" \in Flags THEN KeepProps(old, s.props) ELSE old
  IN IF "SET_NEW_PROPS" \in Flags THEN AddProps(kept, new) ELSE kept

(* What a check of the file system f against db has to say of p for rule s, *)
(* and of all that the rules reach, when nothing changes.                   *)
Expected(f, db, s, p) ==
  LET new == FcoOf(f, s, p)
      old == db.data[p]
  IN IF ~Seen(f, s, p)
     THEN IF HasFCOData(db, p) THEN {Removed(s, p, old)} ELSE {}
     ELSE IF ~HasFCOData(db, p) THEN {Added(s, p, new)}
     ELSE IF CompareFCOs(s, old, new) = {} THEN {}
     ELSE {Entry(s, "changed", p, Adjusted(s, old, new), new, CompareFCOs(s, old, new))}
Difference(f, db, specs) ==
  UNION {UNION {Expected(f, db, s, p) : p \in {q \in Path : Reaches(s, q)}} : s \in specs}
=============================================================================
