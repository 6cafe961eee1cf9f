----------------------------- MODULE PolicyText -----------------------------
(* What the text of a policy means (man/man4/twpolicy.4): a text is a       *)
(* sequence of statements, and which of them are read, what a variable is   *)
(* worth and which rules there are is said of the text as a whole, by       *)
(* looking around in it.  The parser, PolicyLanguage, reads it from front   *)
(* to back and never sees what follows.                                     *)
EXTENDS FcoSpec

CONSTANTS AttrName,    \* attributes a rule may have
          Prop,        \* letters that stand for properties
          Predefined,  \* a variable that is defined before the text is read
          Relative,    \* any name that does not begin with a slash
          Undefined    \* what a variable without a value is worth

(* An operand is a name written out, a variable, $(V), or a variable in a   *)
(* quoted string, "$(V)".                                                   *)
Plain(name)   == [via |-> "plain", of |-> name]
Token(var)    == [via |-> "token", of |-> var]
Quoted(var)   == [via |-> "quoted", of |-> var]

(* The statements.  Of the names after @@ifhost only this matters: whether  *)
(* one is the name of this host.                                            *)
IfHost(here)        == [kind |-> "ifhost", here |-> here]
Directive(kind)     == [kind |-> kind]
Section(name)       == [kind |-> "section", name |-> name]
Scope(attrs)        == [kind |-> "scope", attrs |-> attrs]
Assign(var, value)  == [kind |-> "assign", var |-> var, value |-> value]
Rule(name, mask, attrs) == [kind |-> "rule", name |-> name, mask |-> mask, attrs |-> attrs]
Omit(name)          == [kind |-> "omit", name |-> name]

-----------------------------------------------------------------------------
(* Attributes are a function from some of their names to their values.      *)
ValidAttrs(attrs) == DOMAIN attrs \subseteq AttrName

(* The mask of a rule: letters that turn properties on after "+" and at the *)
(* start, off after "-".  The last time a property is named counts.         *)
ValidMask(mask) == Range(mask) \subseteq Prop \cup {"+", "-"}
SignAt(mask, i) == LET signs == {j \in 1..i : mask[j] \in {"+", "-"}}
                   IN IF signs = {} THEN "+" ELSE mask[Max(signs)]
PropsOf(mask)   == {p \in Prop : \E i \in DOMAIN mask :
                      /\ mask[i] = p /\ SignAt(mask, i) = "+"
                      /\ \A j \in DOMAIN mask : mask[j] = p => j <= i}

-----------------------------------------------------------------------------
(* Nesting.  Level counts the blocks that are open before a statement, and  *)
(* an opening encloses a statement when the level stays above its own up to *)
(* there.                                                                   *)
Openings(t) == {i \in DOMAIN t : t[i].kind \in {"ifhost", "scope"}}
Closings(t) == {i \in DOMAIN t : t[i].kind \in {"endif", "close"}}
Level(t, i) == Cardinality({j \in Openings(t) : j < i}) - Cardinality({j \in Closings(t) : j < i})
Enclosing(t, i) ==
  {j \in Openings(t) : j < i /\ \A k \in (j + 1)..i : Level(t, k) > Level(t, j)}
Innermost(t, i) == Max(Enclosing(t, i) \cup {0})
ElsesOf(t, j)   == {k \in DOMAIN t : t[k].kind = "else" /\ Innermost(t, k) = j}

(* The section GLOBAL may begin inside of a block, but no block ends in it. *)
WellNested(t, i) ==
  LET j == Innermost(t, i) IN
  CASE t[i].kind = "close"   -> j # 0 /\ t[j].kind = "scope"
    [] t[i].kind = "endif"   -> j # 0 /\ t[j].kind = "ifhost"
    [] t[i].kind = "else"    -> j # 0 /\ t[j].kind = "ifhost" /\ Min(ElsesOf(t, j)) = i
    [] t[i].kind = "section" -> j = 0 \/ t[i].name = "GLOBAL"
    [] OTHER                 -> TRUE

-----------------------------------------------------------------------------
(* The section a statement is in; without a directive it is FS.  Sections   *)
(* of other systems are skipped.                                            *)
SectionOf(t, i) == LET s == {j \in 1..(i - 1) : t[j].kind = "section"}
                   IN IF s = {} THEN "FS" ELSE t[Max(s)].name
InGlobal(t, i)  == SectionOf(t, i) = "GLOBAL"

(* A statement is read when every @@ifhost around it says so, before its    *)
(* @@else or after it, and its section is one of this system.               *)
IsRead(t, i) ==
  /\ SectionOf(t, i) \in {"FS", "GLOBAL"}
  /\ \A j \in Enclosing(t, i) :
       t[j].kind = "ifhost" => (t[j].here <=> \A k \in ElsesOf(t, j) : i <= k)

(* What an operand is worth at a statement.  A predefined variable cannot   *)
(* be hidden, a variable of the section hides one of the global section,    *)
(* and of several assignments the last before the statement counts.  In the *)
(* global section a quoted string is taken as it stands, and is no name.    *)
RECURSIVE Worth(_, _, _)
Worth(t, i, x) ==
  LET assigned(global) == {j \in 1..(i - 1) : /\ t[j].kind = "assign" /\ t[j].var = x.of
                                              /\ IsRead(t, j) /\ InGlobal(t, j) = global}
      last(js) == Worth(t, Max(js), t[Max(js)].value)
  IN CASE x.via = "plain"                        -> x.of
       [] x.via # "plain" /\ InGlobal(t, i)      -> Relative
       [] x.via # "plain" /\ x.of = Predefined   -> Relative
       [] x.via # "plain" /\ assigned(FALSE) # {} -> last(assigned(FALSE))
       [] x.via # "plain" /\ assigned(TRUE) # {}  -> last(assigned(TRUE))
       [] OTHER                                  -> Undefined

-----------------------------------------------------------------------------
NamesAt(t, i) == t[i].kind \in {"rule", "omit"} /\ IsRead(t, i)
NameAt(t, i)  == Worth(t, i, t[i].name)

(* Something of the section was read before.                                *)
SectionBegun(t, i) == \E j \in 1..(i - 1) :
  \/ t[j].kind = "section" /\ t[j].name = "FS"
  \/ t[j].kind \in {"assign", "rule", "omit"} /\ IsRead(t, j) /\ ~InGlobal(t, j)

(* What makes a statement wrong whether it is read or not ...               *)
Malformed(t, i) ==
  \/ ~WellNested(t, i)
  \/ t[i].kind \in {"scope", "rule"} /\ ~ValidAttrs(t[i].attrs)
  \/ InGlobal(t, i) /\ t[i].kind \notin {"assign", "section", "empty"}
  \/ InGlobal(t, i) /\ t[i].kind = "assign" /\ t[i].value.via = "token"
  \/ t[i].kind = "section" /\ t[i].name = "FS" /\ SectionBegun(t, i)
(* ... and only when it is.                                                 *)
Refused(t, i, parseOnly) ==
  /\ IsRead(t, i)
  /\ \/ t[i].kind = "error" /\ ~parseOnly
     \/ t[i].kind = "assign" /\ ~InGlobal(t, i)
          /\ (t[i].var = Predefined \/ Worth(t, i, t[i].value) = Undefined)
     \/ t[i].kind = "rule" /\ ~ValidMask(t[i].mask)
     \/ NamesAt(t, i)
          /\ \/ NameAt(t, i) \in {Undefined, Relative}
             \/ \E j \in 1..(i - 1) : NamesAt(t, j) /\ NameAt(t, j) = NameAt(t, i)

RulesOf(t) == {i \in DOMAIN t : t[i].kind = "rule" /\ IsRead(t, i)}
OmitsOf(t) == {i \in DOMAIN t : t[i].kind = "omit" /\ IsRead(t, i)}

Wrong(t, i, parseOnly) == Malformed(t, i) \/ Refused(t, i, parseOnly)
Finished(t)            == Cardinality(Openings(t)) = Cardinality(Closings(t))

(* The attributes of a rule are its own and those of the scopes around it:  *)
(* the innermost counts, but the addresses of mail add up.                  *)
GivenAt(t, i, attr) ==
  {j \in Enclosing(t, i) \cup {i} : t[j].kind \in {"scope", "rule"} /\ attr \in DOMAIN t[j].attrs}
RecurseAt(t, i) == LET given == GivenAt(t, i, "recurse")
                   IN IF given = {} THEN RecurseInfinite ELSE t[Max(given)].attrs["recurse"]
MailAt(t, i) == UNION {t[j].attrs["emailto"] : j \in GivenAt(t, i, "emailto")}

(* The rules a text stands for, each with those its mail goes to.           *)
RuleAt(t, name) == CHOOSE i \in RulesOf(t) : NameAt(t, i) = name
PolicyOf(t) ==
  Policy([name \in {NameAt(t, i) : i \in RulesOf(t)} |->
            [depth |-> RecurseAt(t, RuleAt(t, name)), props |-> PropsOf(t[RuleAt(t, name)].mask)]],
         {NameAt(t, i) : i \in OmitsOf(t)})
SpecsOf(t) == {[spec |-> s, mail |-> MailAt(t, RuleAt(t, s.start))] :
                 s \in CreateFCOSpecs(PolicyOf(t))}
=============================================================================
