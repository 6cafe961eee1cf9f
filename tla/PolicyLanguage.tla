--------------------------- MODULE PolicyLanguage ---------------------------
(* The parser of the policy language (parser/policy.y, parser/tokens.l,     *)
(* twparser/parserhelper.cpp, genreparseinfo.cpp and parserobjects.cpp).    *)
(* The text is read one statement a step and never looked back at; what has *)
(* to be known of it is kept in the preprocessor's stack, the scopes, the   *)
(* symbol tables and the lists of the section.  At the end Finit makes a    *)
(* rule of each start point and gives it its stop points.                   *)
(*                                                                          *)
(* The lexer is one token ahead of the grammar in one place: the names      *)
(* after @@ifhost may go on with "||", so that the first token of the block *)
(* is read before the block is entered.                                     *)
EXTENDS StopPoints, PolicyText

CONSTANTS Themes,     \* the sets of statements texts are made of, by name
          Statements, \* [Themes -> sets of statements]
          MaxText     \* bound: statements in a text, by theme

VARIABLES theme,         \* which statements this text is made of
          text,          \* what was read so far
          parseOnly,     \* mfParseOnly: Check, not Execute
          inGlobals,     \* the lexer's start condition
          nesting,       \* what the grammar has open
          acceptStack,   \* mStateStack: STATE_ACCEPT is TRUE
          ignoreSection, \* mfIgnoreSection
          scopes,        \* mScopedAttrs: the attributes of each open scope
          info,          \* the cGenreParseInfo of the section, or NoInfo
          globals,       \* mGlobalVarTable
          phase,         \* "parse" and "build", or how it ended
          building,      \* the rule that is made and the stop point it is given
          specs          \* the rules that were made

ruleVars  == <<set, clone, added>>
buildVars == <<building, specs>>
fixed     == <<theme, parseOnly>>
textVars  == <<inGlobals, nesting, acceptStack, ignoreSection, scopes, info, globals>>
parserVars == <<fixed, text, textVars, phase, buildVars, ruleVars>>

NoInfo  == [vars |-> <<>>, rules |-> <<>>, stops |-> <<>>, made |-> FALSE]
NewInfo == [NoInfo EXCEPT !.made = TRUE]

ParserInit ==
  /\ theme \in Themes /\ parseOnly \in BOOLEAN
  /\ text = <<>> /\ inGlobals = FALSE /\ nesting = <<>>
  /\ acceptStack = <<TRUE>> /\ ignoreSection = FALSE /\ scopes = <<>>
  /\ info = NoInfo /\ globals = <<>>
  /\ phase = "parse" /\ building = [rule |-> 1, stop |-> 0] /\ specs = {}
  /\ Init

-----------------------------------------------------------------------------
(* cPreprocessor.                                                           *)
GetState     == Last(acceptStack) /\ ~ignoreSection
GetLastState == acceptStack[Len(acceptStack) - 1]

(* The state in which the first token of a statement is read: after         *)
(* @@ifhost, that around the block.                                         *)
LexState ==
  IF text # <<>> /\ Last(text).kind = "ifhost"
  THEN GetLastState /\ ~ignoreSection
  ELSE GetState

(* LookupVariable: predefined, of the section, global.                      *)
LookupVariable(var) ==
  CASE var = Predefined         -> Relative
    [] var # Predefined /\ var \in DOMAIN info.vars -> info.vars[var]
    [] var # Predefined /\ var \notin DOMAIN info.vars /\ var \in DOMAIN globals -> globals[var]
    [] OTHER                    -> Undefined

(* What an operand reads as in a state that accepts.  A variable that is    *)
(* not substituted stays as it is written: no name.                         *)
ReadOperand(x, accepts) == CASE x.via = "plain" -> x.of
                             [] x.via # "plain" /\ accepts -> LookupVariable(x.of)
                             [] OTHER -> Relative

MergeNoOverwrite(own, outer) ==
  [a \in DOMAIN own \cup DOMAIN outer |->
     IF a \notin DOMAIN own THEN outer[a]
     ELSE IF a = "emailto" /\ a \in DOMAIN outer THEN own[a] \cup outer[a]
     ELSE own[a]]
GetGlobalAttrList == IF scopes = <<>> THEN <<>> ELSE Last(scopes)

RecurseOf(attrs) == IF "recurse" \in DOMAIN attrs THEN attrs["recurse"] ELSE RecurseInfinite
MailOf(attrs)    == IF "emailto" \in DOMAIN attrs THEN attrs["emailto"] ELSE {}

(* A letter at a time, with the mode that the last sign set.                *)
CreatePropVector(mask) ==
  FoldLeft(LAMBDA v, c : CASE c \in {"+", "-"} -> [v EXCEPT !.on = (c = "+")]
                           [] c \in Prop -> [v EXCEPT !.props = IF v.on THEN @ \cup {c} ELSE @ \ {c}],
           [on |-> TRUE, props |-> {}], mask).props

RulePointAlreadyDefined(name) == \E k \in DOMAIN info.stops : info.stops[k] = name

-----------------------------------------------------------------------------
(* The grammar and, in the global section, the lexer.                       *)
Open(kinds) == nesting # <<>> /\ Last(nesting) \in kinds
Grammatical(s) ==
  IF inGlobals
  THEN s.kind \in {"section", "empty"} \/ (s.kind = "assign" /\ s.value.via # "token")
  ELSE /\ s.kind = "else"  => Open({"ifhost"})
       /\ s.kind = "endif" => Open({"ifhost", "else"})
       /\ s.kind = "close" => Open({"scope"})

Refuse == /\ phase' = "refused"
          /\ UNCHANGED <<textVars, buildVars, ruleVars>>
SyntaxError(s) == ~Grammatical(s) /\ Refuse

(* All that a statement may change of what is kept while the text is read.  *)
Keeps(v) == /\ phase' = "parse"
            /\ UNCHANGED <<v, buildVars, ruleVars>>

ReadIfHost(s) ==
  /\ s.kind = "ifhost" /\ Grammatical(s)
  /\ nesting' = Append(nesting, "ifhost")
  /\ acceptStack' = Append(acceptStack, GetState /\ s.here)
  /\ Keeps(<<inGlobals, ignoreSection, scopes, info, globals>>)

(* Variant: @@else turns around what an @@ifhost in skipped text says too.  *)
ReadElseOfAny(s) ==
  /\ s.kind = "else" /\ Grammatical(s)
  /\ nesting' = [nesting EXCEPT ![Len(nesting)] = "else"]
  /\ acceptStack' = [acceptStack EXCEPT ![Len(acceptStack)] = ~@]
  /\ Keeps(<<inGlobals, ignoreSection, scopes, info, globals>>)
ReadElse(s) ==
  /\ s.kind = "else" /\ Grammatical(s)
  /\ nesting' = [nesting EXCEPT ![Len(nesting)] = "else"]
  /\ acceptStack' = IF GetLastState THEN [acceptStack EXCEPT ![Len(acceptStack)] = ~@]
                                    ELSE acceptStack
  /\ Keeps(<<inGlobals, ignoreSection, scopes, info, globals>>)

ReadEndIf(s) ==
  /\ s.kind = "endif" /\ Grammatical(s)
  /\ nesting' = Front(nesting) /\ acceptStack' = Front(acceptStack)
  /\ Keeps(<<inGlobals, ignoreSection, scopes, info, globals>>)

(* @@section GLOBAL is the lexer's own: the parser does not come to know.   *)
SectionGlobal(s) ==
  /\ s.kind = "section" /\ s.name = "GLOBAL" /\ ~inGlobals
  /\ inGlobals' = TRUE
  /\ Keeps(<<nesting, acceptStack, ignoreSection, scopes, info, globals>>)
(* Every other section, and GLOBAL too when the lexer is in it already.     *)
AtTop == Len(acceptStack) = 1 /\ scopes = <<>>
SetSection(s) ==
  /\ s.kind = "section" /\ (s.name = "GLOBAL" => inGlobals)
  /\ \/ /\ AtTop /\ s.name = "FS" /\ ~info.made
        /\ info' = NewInfo /\ ignoreSection' = FALSE /\ inGlobals' = FALSE
        /\ Keeps(<<nesting, acceptStack, scopes, globals>>)
     \/ /\ AtTop /\ s.name # "FS"
        /\ ignoreSection' = TRUE /\ inGlobals' = FALSE
        /\ Keeps(<<nesting, acceptStack, scopes, info, globals>>)
     \/ (~AtTop \/ (s.name = "FS" /\ info.made)) /\ Refuse

ErrorDirective(s) ==
  /\ s.kind = "error" /\ Grammatical(s)
  /\ \/ GetState /\ ~parseOnly /\ Refuse
     \/ ~(GetState /\ ~parseOnly) /\ Keeps(textVars)

EmptyStatement(s) == s.kind = "empty" /\ Keeps(textVars)

PushScope(s) ==
  /\ s.kind = "scope" /\ Grammatical(s)
  /\ \/ /\ ValidAttrs(s.attrs)
        /\ nesting' = Append(nesting, "scope")
        /\ scopes' = Append(scopes, MergeNoOverwrite(s.attrs, GetGlobalAttrList))
        /\ Keeps(<<inGlobals, acceptStack, ignoreSection, info, globals>>)
     \/ ~ValidAttrs(s.attrs) /\ Refuse

PopScope(s) ==
  /\ s.kind = "close" /\ Grammatical(s)
  /\ nesting' = Front(nesting) /\ scopes' = Front(scopes)
  /\ Keeps(<<inGlobals, acceptStack, ignoreSection, info, globals>>)

(* Assignments, in the global section and outside of it.                    *)
Set(table, var, value) == [v \in DOMAIN table \cup {var} |-> IF v = var THEN value ELSE table[v]]
GetGenreInfo == [info EXCEPT !.made = TRUE]

GlobalAssignment(s) ==
  /\ s.kind = "assign" /\ inGlobals /\ Grammatical(s)
  /\ globals' = IF GetState THEN Set(globals, s.var, ReadOperand(s.value, FALSE)) ELSE globals
  /\ Keeps(<<inGlobals, nesting, acceptStack, ignoreSection, scopes, info>>)
Assignment(s) ==
  /\ s.kind = "assign" /\ ~inGlobals
  /\ LET value   == ReadOperand(s.value, GetState)
         refused == GetState /\ (value = Undefined \/ s.var = Predefined)
     IN \/ refused /\ Refuse
        \/ /\ ~refused
           /\ info' = IF GetState THEN [GetGenreInfo EXCEPT !.vars = Set(@, s.var, value)]
                                    ELSE info
           /\ Keeps(<<inGlobals, nesting, acceptStack, ignoreSection, scopes, globals>>)

(* Rules, and names that "!" excludes.  The name of a rule is the first     *)
(* token of its statement, what follows "!" is not.  A variable in a quoted *)
(* string is substituted when the token is read.                            *)
AddRule(name, mask, attrs) ==
  [GetGenreInfo EXCEPT !.rules = Append(@, [name |-> name, props |-> CreatePropVector(mask),
                                            attrs |-> attrs]),
                       !.stops = Append(@, name)]
RuleStatement(s) ==
  /\ s.kind = "rule" /\ Grammatical(s)
  /\ LET quoted  == s.name.via = "quoted"
         name    == ReadOperand(s.name, IF quoted THEN LexState ELSE GetState)
         refused == \/ name = Undefined \/ ~ValidAttrs(s.attrs)
                    \/ /\ GetState
                       /\ name = Relative \/ RulePointAlreadyDefined(name) \/ ~ValidMask(s.mask)
     IN \/ refused /\ Refuse
        \/ /\ ~refused
           /\ info' = IF GetState
                        THEN AddRule(name, s.mask, MergeNoOverwrite(s.attrs, GetGlobalAttrList))
                        ELSE IF quoted /\ LexState THEN GetGenreInfo ELSE info
           /\ Keeps(<<inGlobals, nesting, acceptStack, ignoreSection, scopes, globals>>)

OmitStatement(s) ==
  /\ s.kind = "omit" /\ Grammatical(s)
  /\ LET name    == ReadOperand(s.name, GetState)
         refused == GetState /\ (name \in {Undefined, Relative} \/ RulePointAlreadyDefined(name))
     IN \/ refused /\ Refuse
        \/ /\ ~refused
           /\ info' = IF GetState THEN [GetGenreInfo EXCEPT !.stops = Append(@, name)] ELSE info
           /\ Keeps(<<inGlobals, nesting, acceptStack, ignoreSection, scopes, globals>>)

(* The end of the file, or @@end: Finit.  A check of the syntax ends here.  *)
Finit ==
  /\ phase' = IF nesting # <<>> THEN "unfinished" ELSE IF parseOnly THEN "accepted" ELSE "build"
  /\ UNCHANGED <<textVars, buildVars, ruleVars>>
EndDirective(s) == s.kind = "end" /\ Grammatical(s) /\ Finit
EndOfFile == /\ phase = "parse" /\ Finit
             /\ UNCHANGED <<fixed, text>>

ReadStatement(s) ==
  /\ phase = "parse" /\ Len(text) < MaxText[theme]
  /\ text' = Append(text, s) /\ UNCHANGED fixed
  /\ \/ SyntaxError(s) \/ ReadIfHost(s) \/ ReadElse(s) \/ ReadEndIf(s) \/ SectionGlobal(s) \/ SetSection(s)
     \/ ErrorDirective(s) \/ EmptyStatement(s) \/ PushScope(s) \/ PopScope(s)
     \/ GlobalAssignment(s) \/ Assignment(s) \/ RuleStatement(s) \/ OmitStatement(s)
     \/ EndDirective(s)

-----------------------------------------------------------------------------
(* CreateFCOSpecs: a rule at a time, a stop point at a time.                *)
ParsedRule  == info.rules[building.rule]
ParsedDepth == RecurseOf(ParsedRule.attrs)
MakingRule  == phase = "build" /\ building.rule <= Len(info.rules)
Building    == UNCHANGED <<fixed, text, textVars>>
NextPart    == building' = [building EXCEPT !.stop = @ + 1] /\ UNCHANGED <<specs, phase>>

GiveStopPoint ==
  /\ MakingRule /\ building.stop < Len(info.stops)
  /\ LET p == info.stops[building.stop + 1]
     IN IF ParsedDepth # 0 /\ Above(ParsedRule.name, p) THEN Add(p) ELSE UNCHANGED ruleVars
  /\ NextPart /\ Building
GiveDepth ==
  /\ MakingRule /\ building.stop = Len(info.stops)
  /\ SetRecurseDepth(ParsedDepth)
  /\ NextPart /\ Building
GiveStartPoint ==
  /\ MakingRule /\ building.stop = Len(info.stops) + 1
  /\ SetStartPoint(ParsedRule.name)
  /\ NextPart /\ Building
StoreSpec ==
  /\ MakingRule /\ building.stop = Len(info.stops) + 2
  /\ specs' = specs \cup {[spec |-> [start |-> set.start, depth |-> set.depth, stops |-> set.stops,
                                     props |-> ParsedRule.props \cup {"type"}],
                           mail |-> MailOf(ParsedRule.attrs)]}
  /\ building' = [rule |-> building.rule + 1, stop |-> 0]
  /\ set' = [start |-> <<>>, stops |-> {}, depth |-> RecurseInfinite]
  /\ added' = {}
  /\ UNCHANGED <<clone, phase>> /\ Building
EndOfRules ==
  /\ phase = "build" /\ building.rule > Len(info.rules)
  /\ phase' = IF info.rules = <<>> THEN "no rules" ELSE "accepted"
  /\ UNCHANGED <<buildVars, ruleVars>> /\ Building

ParserNext == \/ \E s \in Statements[theme] : ReadStatement(s)
              \/ EndOfFile
              \/ GiveStopPoint \/ GiveDepth \/ GiveStartPoint \/ StoreSpec \/ EndOfRules
ParserSpec == ParserInit /\ [][ParserNext]_parserVars

-----------------------------------------------------------------------------
(* Where the parser is known to read something else than what is meant: the *)
(* name in quotes that begins a skipped block is substituted all the same,  *)
(* and the section GLOBAL that follows a skipped one is skipped with it,    *)
(* and that follows another GLOBAL is taken for one of another system.      *)
ReadAhead(t) == \E i \in 2..Len(t) :
  /\ t[i].kind = "rule" /\ t[i].name.via = "quoted" /\ t[i - 1].kind = "ifhost"
  /\ IsRead(t, i - 1) /\ ~t[i - 1].here
GlobalMissed(t) == \E i \in DOMAIN t :
  t[i].kind = "section" /\ t[i].name = "GLOBAL" /\ SectionOf(t, i) # "FS"

(* The outcome is what the text means as a whole: it is refused at the      *)
(* first statement that is wrong and at no other, and the rules are those   *)
(* it stands for, each with its stop points, its depth and its mail.        *)
AsMeant ==
  LET right == {i \in DOMAIN text : ~Wrong(text, i, parseOnly)}
  IN CASE phase = "refused"    -> right = DOMAIN text \ {Len(text)}
       [] phase = "unfinished" -> right = DOMAIN text /\ ~Finished(text)
       [] phase = "no rules"   -> /\ right = DOMAIN text /\ Finished(text)
                                  /\ ~parseOnly /\ RulesOf(text) = {}
       [] phase = "accepted"   -> /\ right = DOMAIN text /\ Finished(text)
                                  /\ ~parseOnly => specs = SpecsOf(text) /\ specs # {}
       [] OTHER -> TRUE
ParsesAsMeant == ~ReadAhead(text) /\ ~GlobalMissed(text) => AsMeant

(* "Allow conditional interpretation of the policy file": what is skipped   *)
(* is of no account.  It is not so for the first name of a block.           *)
SkippedIsSkipped == ~GlobalMissed(text) => AsMeant
=============================================================================
