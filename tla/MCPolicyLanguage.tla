-------------------------- MODULE MCPolicyLanguage --------------------------
(* The policy language and the names it is about.  A behaviour reads a      *)
(* policy, of one of four kinds: directives around rules, sections and      *)
(* variables, attributes of scopes, and names that lie inside each other;   *)
(* or it makes, changes and compares cFCOName objects that share their      *)
(* lists and nodes.                                                         *)
EXTENDS PolicyLanguage, TLC

CONSTANTS Handles, Texts, Parts, Slash, LowerChar, DoubleSlash, HeapOrders, MaxLen, NoName,
          UseOf   \* what a behaviour may do: read "text", use "names"

VARIABLES use,
          pathName, sensitive, lists, nodes, table, heap, cleared

N == INSTANCE FcoName

nameVars == <<pathName, sensitive, lists, nodes, table, heap, cleared>>

LanguageInit ==
  /\ use \in UseOf
  /\ ParserInit /\ N!Init
  /\ use = "names" => theme = "names" /\ ~parseOnly
  /\ use = "text" => heap = CHOOSE h \in HeapOrders : TRUE

LanguageNext ==
  /\ UNCHANGED use
  /\ \/ use = "text"  /\ ParserNext /\ UNCHANGED nameVars
     \/ use = "names" /\ N!Next     /\ UNCHANGED parserVars

LanguageSpec == LanguageInit /\ [][LanguageNext]_<<use, parserVars, nameVars>>

(* FcoName: every count is the number of references, and what two names are *)
(* to each other by the addresses of their nodes they are by their strings. *)
NodesShared == N!CountsExact /\ N!ComparisonsRight

(* FcoName: objects that share lists and nodes are values.                  *)
ImplementsNameValues == N!ImplementsNameValues

-----------------------------------------------------------------------------
Symmetry == Permutations(Handles)

(* Characters are "/", "a" and "A".                                         *)
TwoTexts == {<<"/", "a">>, <<"A", "/", "/", "a", "/">>}
TwoParts == {<<"a">>, <<"A">>}
ToLower  == [c \in {"a", "A"} |-> "a"]
(* The addresses of three nodes, in the order they are created.             *)
TwoHeaps == {<<1, 2, 3>>, <<2, 3, 1>>}

Paths == {<<>>, <<1>>, <<2>>, <<1, 1>>, <<1, 2>>, <<1, 1, 1>>}
SomeDepths == {-1, 0, 1}

NoAttrs == <<>>
Recurse(d) == "recurse" :> d
Mail(m)    == "emailto" :> {m}
Mask       == <<"p">>

TheThemes == {"directives", "sections", "attributes", "names"}
TheStatements ==
  [th \in TheThemes |->
    CASE th = "directives" ->
           {IfHost(TRUE), IfHost(FALSE), Directive("else"), Directive("endif"), Directive("error"),
            Rule(Plain(<<1>>), Mask, NoAttrs), Rule(Quoted("A"), Mask, NoAttrs),
            Rule(Plain(<<2>>), <<"x">>, NoAttrs)}
      [] th = "sections" ->
           {Section("FS"), Section("NT"), Section("GLOBAL"), IfHost(FALSE), Directive("endif"),
            Assign("A", Plain(<<1>>)), Assign("A", Plain(<<2>>)), Assign("H", Plain(<<2>>)),
            Rule(Token("A"), Mask, NoAttrs), Rule(Quoted("H"), Mask, NoAttrs)}
      [] th = "attributes" ->
           {Scope(Recurse(0)), Scope(Mail("x")), Scope("bad" :> 0), Directive("close"),
            Section("FS"), Rule(Plain(<<1>>), <<"p", "i", "-", "p">>, Mail("y")),
            Rule(Plain(<<2>>), <<"-", "p", "+", "p">>, Recurse(1)), Directive("end")}
      [] th = "names" ->
           {Rule(Plain(<<1>>), Mask, NoAttrs), Rule(Plain(<<1, 1>>), Mask, Recurse(1)),
            Rule(Plain(<<1, 1, 1>>), Mask, NoAttrs), Omit(Plain(<<1, 1>>)), Omit(Plain(<<1, 2>>)),
            Assign("A", Token("H")), Omit(Quoted("A")), Directive("empty")}]
TextLengths == [th \in TheThemes |-> IF th = "directives" THEN 6 ELSE 5]
=============================================================================
