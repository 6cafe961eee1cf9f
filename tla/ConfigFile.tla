---------------------------- MODULE ConfigFile ----------------------------
(* cConfigFile: the text of the configuration, read line by line into a     *)
(* table.  $(name) in a value gives way to what the name is worth when the  *)
(* line is read.  What the text means (man/man4/twconfig.4), which of its   *)
(* lines may stand there and what a key is worth, is said of it as a whole. *)
(* Text is a sequence of characters and of words that need not be told      *)
(* apart further.                                                           *)
EXTENDS Naturals, SequencesExt

CONSTANTS Machine, Today,  \* what HOSTNAME and DATE are worth
          Mandatory,       \* the keys that must be there: POLFILE, DBFILE, ...
          Wrong,           \* no text
          ConfigTexts      \* the texts of configurations

VARIABLES text,     \* the lines of the file
          line,     \* mnLine, the line that is read next
          table,    \* mStringHashTable, as pairs of a key and its value
          config    \* "reading", "read" or the error that is thrown

configVars == <<text, line, table, config>>

Comment           == [kind |-> "comment"]
NoEquals          == [kind |-> "noeq"]
Line(key, pieces) == [kind |-> "pair", key |-> key, pieces |-> pieces]

(* What a value is written of: a word, a variable, or a lone "$".           *)
Word(w)   == [is |-> "word", of |-> w]
Var(name) == [is |-> "var", of |-> name]
Dollar    == [is |-> "dollar", of |-> "$"]

Predefined == [HOSTNAME |-> Machine, DATE |-> Today]

Join(a, b) == IF Wrong \in {a, b} THEN Wrong ELSE a \o b

-----------------------------------------------------------------------------
KeyLines(t)            == {i \in DOMAIN t : t[i].kind = "pair"}
LinesFor(t, key, upTo) == {i \in KeyLines(t) : i <= upTo /\ t[i].key = key}
Latest(lines)          == CHOOSE i \in lines : \A j \in lines : j <= i

(* A variable in a line is worth what the last line for it further up says. *)
Meanings(t) ==
  LET meaning[i \in KeyLines(t)] ==
        LET above(name) == LinesFor(t, name, i - 1)
            worth(piece) ==
              CASE piece.is # "var" -> <<piece.of>>
                [] piece.is = "var" /\ piece.of \in DOMAIN Predefined -> Predefined[piece.of]
                [] piece.is = "var" /\ piece.of \notin DOMAIN Predefined /\ above(piece.of) # {} ->
                     meaning[Latest(above(piece.of))]
                [] OTHER -> Wrong
        IN FoldLeft(LAMBDA a, piece : Join(a, worth(piece)), <<>>, t[i].pieces)
  IN meaning

(* A key is worth what its last line says, nothing when it has none.        *)
Worth(t, key) == LET lines == LinesFor(t, key, Len(t))
                 IN IF lines = {} THEN <<>> ELSE Meanings(t)[Latest(lines)]

Sound(t) ==
  /\ \A i \in DOMAIN t : t[i].kind # "noeq"
  /\ \A i \in KeyLines(t) : t[i].key \notin {""} \cup DOMAIN Predefined /\ Meanings(t)[i] # Wrong
  /\ \A key \in Mandatory : Worth(t, key) # <<>>

(* A "$" that begins no variable is not part of the language.               *)
InLanguage(t) == \A i \in KeyLines(t) : Dollar \notin Range(t[i].pieces)

-----------------------------------------------------------------------------
(* The characters of a value, with the words that need not be told apart.   *)
Written(piece) == IF piece.is = "var" THEN <<"$", "(", piece.of, ")">> ELSE <<piece.of>>
ValueText(l)   == FlattenSeq([i \in DOMAIN l.pieces |-> Written(l.pieces[i])])

ConfigInit == text \in ConfigTexts /\ line = 1 /\ table = <<>> /\ config = "reading"

IsPredefinedVar(name) == name \in {<<v>> : v \in DOMAIN Predefined}

(* The table finds a key as it was inserted last.                           *)
Find(key) == {i \in DOMAIN table : <<table[i].key>> = key}
ValueOf(key) == table[CHOOSE i \in Find(key) : TRUE].val
Insert(t, key, val) == Append(SelectSeq(t, LAMBDA e : e.key # key), [key |-> key, val |-> val])

WorthOf(name) == CASE IsPredefinedVar(name) -> Predefined[name[1]]
                   [] ~IsPredefinedVar(name) /\ Find(name) # {} -> ValueOf(name)
                   [] OTHER -> Wrong

(* DoVarSubst: "$(" up to the next ")" gives way to what the name between   *)
(* them is worth.  A "$" before anything else is lost, and that character,  *)
(* even another "$", is kept as it is.                                      *)
DoVarSubst(s) ==
  LET from[i \in 1 .. Len(s) + 2] ==
        CASE i > Len(s) -> <<>>
          [] i <= Len(s) /\ s[i] # "$" -> Join(<<s[i]>>, from[i + 1])
          [] i = Len(s) /\ s[i] = "$" -> <<>>
          [] i < Len(s) /\ s[i] = "$" /\ s[i + 1] # "(" -> Join(<<s[i + 1]>>, from[i + 2])
          [] OTHER ->
               LET ends == {j \in i + 2 .. Len(s) : s[j] = ")"}
                   end  == CHOOSE j \in ends : \A k \in ends : j <= k
               IN IF ends = {} THEN Wrong
                  ELSE Join(WorthOf(SubSeq(s, i + 2, end - 1)), from[end + 1])
  IN from[1]

Raise(error) == config' = error /\ UNCHANGED <<text, line, table>>

ReadLine ==
  /\ config = "reading" /\ line <= Len(text)
  /\ LET l == text[line] IN
     \/ /\ l.kind = "comment"
        /\ line' = line + 1 /\ UNCHANGED <<text, table, config>>
     \/ l.kind = "noeq" /\ Raise("NoEq")
     \/ l.kind = "pair" /\ l.key = "" /\ Raise("NoKey")
     \/ l.kind = "pair" /\ IsPredefinedVar(<<l.key>>) /\ Raise("AssignToPredefVar")
     \/ /\ l.kind = "pair" /\ l.key # "" /\ ~IsPredefinedVar(<<l.key>>)
        /\ LET val == DoVarSubst(ValueText(l)) IN
           IF val = Wrong THEN Raise("BadValue")
           ELSE table' = Insert(table, l.key, val) /\ line' = line + 1 /\ UNCHANGED <<text, config>>

CheckThatAllMandatoryKeyWordsExists ==
  /\ config = "reading" /\ line > Len(text)
  /\ Raise(IF \A key \in Mandatory : Find(<<key>>) # {} /\ ValueOf(<<key>>) # <<>>
           THEN "read" ELSE "MissReqKey")

ReadString == ReadLine \/ CheckThatAllMandatoryKeyWordsExists

-----------------------------------------------------------------------------
(* A configuration is read when it is sound, and then every key is worth    *)
(* what the text as a whole says.                                           *)
ReadsAsMeant ==
  InLanguage(text) /\ config # "reading" =>
    /\ config = "read" <=> Sound(text)
    /\ config = "read" => {<<e.key, e.val>> : e \in Range(table)}
                             = {<<text[i].key, Worth(text, text[i].key)>> : i \in KeyLines(text)}
=============================================================================
