------------------------------ MODULE FsPropSet ------------------------------
(* The properties of one object in the database, through any sequence of    *)
(* the commands that write its entry: which are valid and which of them are *)
(* undefined (cFSPropSet, fs/fspropset.cpp, with the accessors of           *)
(* fco/propset.h).  A set of properties is a cFCOPropVector                 *)
(* (fco/fcopropvector.cpp), whose operators are those of sets.              *)
CONSTANTS StatProp,       \* the properties that stat tells
          Hash,           \* those that are calculated from the object's text
          Value,          \* what they may be
          Undefined,      \* cFCOUndefinedProp::GetInstance(), of a type of its own
          Never,          \* a value as it is constructed
          PropPolicies    \* the sets of properties that a policy may ask for

VARIABLES disk,      \* the object: what stat tells and what its hashes would be
          policy,    \* the properties the policy in force asks for
          entry,     \* the property set of the object in the database
          measured,  \* of each property, what was measured when it was last recorded
          threw      \* the properties the last command failed for with an internal error

propVars == <<disk, policy, entry, measured, threw>>

Prop == StatProp \cup Hash

PropAssumption == /\ StatProp \cap Hash = {} /\ PropPolicies \subseteq SUBSET Prop
                  /\ Undefined \notin Value /\ Never \notin Value \cup {Undefined}

(* Objects without hashes are directories, devices, and files that cannot   *)
(* be read.                                                                 *)
Disks == [stat : Value, hashes : Value \cup {Undefined}]

Xor(a, b) == (a \ b) \cup (b \ a)

-----------------------------------------------------------------------------
(* An object is hashed for what is asked.  What stat tells is in it since   *)
(* the iterator made it (InitializeTypeInfo sets all of it), and the        *)
(* calculator leaves what is valid (PROP_LEAVE, which no command changes):  *)
(* its own stat, which could fail, is never made.  The object that the      *)
(* iterator could not stat is FcoDatabase's InvalidObject.                  *)
CalcPropSet(props) ==
  LET undefined == IF disk.hashes = Undefined THEN props \cap Hash ELSE {}
  IN [valid |-> props, undefined |-> undefined,
      value |-> [x \in Prop |-> IF x \in undefined \/ x \notin props THEN Never
                                ELSE IF x \in Hash THEN disk.hashes ELSE disk.stat]]

GetPropAt(ps, x) == IF x \in ps.undefined THEN Undefined ELSE ps.value[x]

(* Only values that are valid and defined are assigned; both vectors are as *)
(* they were.                                                               *)
Copied(ps) == [valid |-> ps.valid, undefined |-> ps.undefined,
               value |-> [x \in Prop |-> IF x \in ps.valid \ ps.undefined THEN ps.value[x] ELSE Never]]

(* The same are written, and read again into a new set.                     *)
Stored(ps) == Copied(ps)

(* Nothing is done about mUndefinedProps.                                   *)
InvalidateProps(ps, props) ==
  [valid |-> Xor(ps.valid, ps.valid \cap props), undefined |-> ps.undefined, value |-> ps.value]

(* The value is copied into what GetPropAt returns.  Where the property is  *)
(* still marked undefined that is the one undefined property there is,      *)
(* whose Copy throws.                                                       *)
CopyThrows(ps, from, props) ==
  {x \in props : x \in ps.undefined /\ GetPropAt(from, x) # Undefined}
(* Variant: that the source is undefined is not copied.                     *)
CopyPropsDefined(ps, from, props) ==
  [valid     |-> ps.valid \cup props,
   undefined |-> ps.undefined \ props,
   value     |-> [x \in Prop |-> IF x \in props THEN from.value[x] ELSE ps.value[x]]]
CopyProps(ps, from, props) ==
  LET undefined == {x \in props : GetPropAt(from, x) = Undefined}
  IN [valid     |-> ps.valid \cup props,
      undefined |-> (ps.undefined \ props) \cup undefined,
      value     |-> [x \in Prop |-> IF x \in props \ undefined THEN from.value[x] ELSE ps.value[x]]]

(* cFCOCompare: the properties, among those given, that differ.             *)
DifferingProps(old, new, props) ==
  {x \in props : ~(x \in old.valid /\ x \in new.valid /\ GetPropAt(old, x) = GetPropAt(new, x))}

-----------------------------------------------------------------------------
Record(props) == [x \in Prop |-> IF x \in props THEN GetPropAt(CalcPropSet(props), x) ELSE measured[x]]

PropInit == /\ disk \in Disks /\ policy \in PropPolicies
            /\ entry = Stored(CalcPropSet(policy))
            /\ measured = [x \in Prop |-> IF x \in policy THEN GetPropAt(entry, x) ELSE Never]
            /\ threw = {}

ChangeDisk == disk' \in Disks /\ UNCHANGED <<policy, entry, measured, threw>>

(* A check that was told to ignore some properties, and an update of the    *)
(* database with its report: what is valid in the old FCO only is folded    *)
(* into the new one.                                                        *)
UpdateEntry(ignored) ==
  LET asked == policy \ ignored
      new   == CalcPropSet(asked)
      fold  == Xor(entry.valid, new.valid) \cap entry.valid
  IN /\ threw' = {}
     /\ IF DifferingProps(entry, new, (entry.valid \cup new.valid) \cap asked) = {}
        THEN UNCHANGED <<entry, measured>>
        ELSE /\ entry' = Stored(CopyProps(Copied(new), entry, fold))
             /\ measured' = Record(asked)
     /\ UNCHANGED <<disk, policy>>

TrimmedTo(props) == InvalidateProps(entry, Xor(entry.valid \cap props, entry.valid))
(* An update of the policy: the entry loses what the new policy does not    *)
(* ask for, gets what the old did not, and is replaced where the object has *)
(* changed; unless that is refused, in secure mode, or an internal error    *)
(* ends the command before it writes the database.                          *)
TakeOver(props, secure) ==
  LET new       == CalcPropSet(props)
      conflicts == DifferingProps(entry, new, entry.valid \cap new.valid \cap props)
      added     == Xor(entry.valid \cap props, new.valid)
      fails     == CopyThrows(TrimmedTo(props), new, added)
      refused   == fails # {} \/ (secure /\ conflicts # {})
  IN /\ threw' = fails
     /\ IF refused THEN UNCHANGED <<policy, entry, measured>>
        ELSE /\ policy' = props
             /\ entry' = Stored(IF conflicts = {} THEN CopyProps(TrimmedTo(props), new, added) ELSE new)
             /\ measured' = Record(IF conflicts = {} THEN added ELSE props)
     /\ UNCHANGED disk

(* A new database, under any policy.                                        *)
Generate(props) == /\ policy' = props
                   /\ entry' = Stored(CalcPropSet(props))
                   /\ measured' = Record(props)
                   /\ threw' = {} /\ UNCHANGED disk

PropNext == \/ ChangeDisk
            \/ \E props \in PropPolicies : Generate(props)
            \/ \E ignored \in SUBSET Prop : UpdateEntry(ignored)
            \/ \E props \in PropPolicies, secure \in BOOLEAN : TakeOver(props, secure)

-----------------------------------------------------------------------------
PropSpec == PropInit /\ [][PropNext]_propVars

(* Whatever sequence of commands wrote it, the entry has the properties     *)
(* that the policy asks for, and says of each what was measured when it was *)
(* last recorded, that it had no value included.  A command fails only for  *)
(* a property that was once recorded as undefined and then given up.        *)
EntryIsAsMeasured ==
  /\ entry.valid = policy
  /\ \A x \in entry.valid : GetPropAt(entry, x) = measured[x]
  /\ threw \subseteq {x \in Prop \ policy : measured[x] = Undefined}
=============================================================================
