---------------------------- MODULE CommandLine ----------------------------
(* The command lines the four programs understand: the switches of every    *)
(* mode, how many words each takes, which must not come together and which  *)
(* need another, and the mode that the first words of a command line ask    *)
(* for.  cCmdLineParser reads the words of a line from first to last: behind*)
(* a switch come the words it takes, and behind the last switch those that  *)
(* belong to no switch, whose id is PARAMS here in every mode.              *)
EXTENDS Naturals, SequencesExt

-----------------------------------------------------------------------------
(* A switch is known by a letter, by a word, or by both; it takes "none",   *)
(* "one" or "many" of the words that follow it.                             *)
Arg(id, takes, words) == [id |-> id, takes |-> takes, words |-> words]

(* A mode: its switches, the words it takes behind the last of them, the    *)
(* pairs that exclude each other and the pairs of which the first needs the *)
(* second.  A mode that says nothing of words behind the switches takes     *)
(* none.                                                                    *)
Mode(args, last, apart, needs) ==
  [args |-> args, last |-> last, apart |-> apart, needs |-> needs, often |-> {}]

-----------------------------------------------------------------------------
(* tripwire                                                                 *)
Common ==
  {Arg("HELP", "none", {"-?", "--help"}), Arg("MODE", "one", {"-m"}),
   Arg("VERBOSE", "none", {"-v", "--verbose"}), Arg("SILENT", "none", {"-s", "--silent", "--quiet"}),
   Arg("LOCAL_PASSPHRASE", "one", {"-P", "--local-passphrase"}),
   Arg("POL_FILE", "one", {"-p", "--polfile"}), Arg("CFG_FILE", "one", {"-c", "--cfgfile"}),
   Arg("SITE_KEY_FILE", "one", {"-S", "--site-keyfile"}),
   Arg("LOCAL_KEY_FILE", "one", {"-L", "--local-keyfile"}),
   Arg("DB_FILE", "one", {"-d", "--dbfile"}), Arg("REPORT_FILE", "one", {"-r", "--twrfile"})}
CommonApart == {<<"VERBOSE", "SILENT">>}

DbInit ==
  Mode(Common \cup {Arg("MODE_INIT", "none", {"--init"}), Arg("NO_ENCRYPT", "none", {"-e", "--no-encryption"})},
       "none",
       CommonApart \cup {<<"NO_ENCRYPT", "LOCAL_PASSPHRASE">>, <<"NO_ENCRYPT", "LOCAL_KEY_FILE">>}, {})

IntegrityChecking ==
  Mode(Common \cup
       {Arg("MODE_CHECK", "none", {"--check"}), Arg("INTER_UPDATE", "none", {"-I", "--interactive"}),
        Arg("EDITOR", "one", {"-V", "--visual"}), Arg("NO_TTY", "none", {"-n", "--no-tty-output"}),
        Arg("MAIL_REPORT", "none", {"-M", "--email-report"}), Arg("IGNORE_PROP", "one", {"-i", "--ignore"}),
        Arg("ENCRYPT_REPORT", "none", {"-E", "--signed-report"}),
        Arg("SEVERITY_LEVEL", "one", {"-l", "--severity"}), Arg("RULE_NAME", "one", {"-R", "--rule-name"}),
        Arg("GENRE_NAME", "one", {"-x", "--section"}), Arg("HEXADECIMAL", "none", {"-h", "--hexadecimal"}),
        Arg("REPORTLEVEL", "one", {"-t", "--email-report-level"})},
       "many",
       CommonApart \cup {<<"SEVERITY_LEVEL", "RULE_NAME">>},
       {<<"REPORTLEVEL", "MAIL_REPORT">>, <<"EDITOR", "INTER_UPDATE">>})

DbUpdate ==
  Mode(Common \cup
       {Arg("MODE_UPDATE_DB", "none", {"--update"}), Arg("ACCEPT_ALL", "none", {"-a", "--accept-all"}),
        Arg("SECURE_MODE", "one", {"-Z", "--secure-mode"}), Arg("EDITOR", "one", {"-V", "--visual"})},
       "none", CommonApart \cup {<<"ACCEPT_ALL", "EDITOR">>}, {})

PolUpdate ==
  Mode(Common \cup
       {Arg("MODE_UPDATE_POL", "none", {"--update-policy"}),
        Arg("SITE_PASSPHRASE", "one", {"-Q", "--site-passphrase"}),
        Arg("SECURE_MODE", "one", {"-Z", "--secure-mode"})},
       "one", CommonApart, {})

TestMode ==
  Mode(Common \cup {Arg("MODE_TEST", "none", {"--test"}), Arg("TEST_EMAIL", "one", {"-e", "--email"})},
       "none", CommonApart, {<<"MODE_TEST", "TEST_EMAIL">>})

(* A mode that explains others may be told "-m" as often as one likes.      *)
HelpOf(args) == [Mode(args \cup {Arg("MODE_HELP", "many", {"-?", "--help"}), Arg("MODE", "many", {"-m"}),
                                 Arg("MODE_HELP_ALL", "many", {"--all"})}, "none", {}, {})
                   EXCEPT !.often = {"MODE"}]
TripwireHelp ==
  HelpOf({Arg("MODE_INIT", "many", {"-i", "--init"}), Arg("MODE_CHECK", "many", {"-c", "--check"}),
          Arg("MODE_UPDATE_DB", "many", {"-u", "--update"}),
          Arg("MODE_UPDATE_POL", "many", {"-p", "--update-policy"}),
          Arg("MODE_TEST", "many", {"-t", "--test"}),
          Arg("MODE_EXPLORE", "many", {"--explore"}), Arg("MODE_DEBUG", "many", {"--verify"})})

-----------------------------------------------------------------------------
(* twadmin                                                                  *)
AdminCommon ==
  {Arg("HELP", "none", {"-?", "--help"}), Arg("MODE", "one", {"-m"}),
   Arg("VERBOSE", "none", {"-v", "--verbose"}), Arg("SILENT", "none", {"-s", "--silent", "--quiet"}),
   Arg("CFG_FILE", "one", {"-c", "--cfgfile"}), Arg("POL_FILE", "one", {"-p", "--polfile"})}
SiteKeyFile     == Arg("SITE_KEY_FILE", "one", {"-S", "--site-keyfile"})
LocalKeyFile    == Arg("LOCAL_KEY_FILE", "one", {"-L", "--local-keyfile"})
SitePassphrase  == Arg("SITEPASSPHRASE", "one", {"-Q", "--site-passphrase"})
LocalPassphrase == Arg("LOCALPASSPHRASE", "one", {"-P", "--local-passphrase"})
BothKeys        == {SiteKeyFile, LocalKeyFile, SitePassphrase, LocalPassphrase}

Create(id, word) ==
  Mode(AdminCommon \cup {Arg(id, "none", {word}), Arg("PASSPHRASE", "one", {"-Q", "--site-passphrase"}),
                         SiteKeyFile, Arg("NO_ENCRYPTION", "none", {"-e", "--no-encryption"})},
       "one",
       CommonApart \cup {<<"NO_ENCRYPTION", "SITE_KEY_FILE">>, <<"NO_ENCRYPTION", "PASSPHRASE">>}, {})
CreateCfg == Create("MODE_CREATE_CONFIG", "--create-cfgfile")
CreatePol == Create("MODE_CREATE_POLICY", "--create-polfile")
PrintCfg  == Mode(AdminCommon \cup {Arg("MODE_PRINT_CONFIG", "none", {"--print-cfgfile"})},
                  "none", CommonApart, {})
PrintPol  == Mode(AdminCommon \cup {Arg("MODE_PRINT_POLICY", "none", {"--print-polfile"}), SiteKeyFile},
                  "none", CommonApart, {})
(* No switch of this mode is a KEY_FILE: two of its exclusions are idle.    *)
RemoveEncryption ==
  Mode(AdminCommon \cup BothKeys \cup {Arg("MODE_REMOVE_ENCRYPTION", "none", {"--remove-encryption"})},
       "many", CommonApart \cup {<<"KEY_FILE", "LOCAL_KEY_FILE">>, <<"KEY_FILE", "SITEPASSPHRASE">>}, {})
Encrypt  == Mode(AdminCommon \cup BothKeys \cup {Arg("MODE_ENCRYPT", "none", {"--encrypt"})},
                 "many", CommonApart, {})
Examine  == Mode(AdminCommon \cup {SiteKeyFile, LocalKeyFile, Arg("MODE_EXAMINE", "none", {"--examine"})},
                 "many", CommonApart, {})
GenerateKeys ==
  Mode(AdminCommon \cup BothKeys \cup {Arg("MODE_GENERATE_KEYS", "none", {"--generate-keys"}),
                                       Arg("KEY_SIZE", "one", {"-K", "--key-size"})},
       "none", CommonApart, {})
ChangePassphrases ==
  Mode(AdminCommon \cup BothKeys \cup
       {Arg("MODE_CHANGE_PASSPHRASES", "none", {"--change-passphrases"}),
        Arg("SITEPASSPHRASEOLD", "one", {"--site-passphrase-old"}),
        Arg("LOCALPASSPHRASEOLD", "one", {"--local-passphrase-old"})},
       "none", CommonApart, {})
AdminHelp ==
  HelpOf({Arg("MODE_CREATE_CONFIG", "many", {"-F", "--create-cfgfile"}),
          Arg("MODE_PRINT_CONFIG", "many", {"-f", "--print-cfgfile"}),
          Arg("MODE_CREATE_POLICY", "many", {"-P", "--create-polfile"}),
          Arg("MODE_PRINT_POLICY", "many", {"-p", "--print-polfile"}),
          Arg("MODE_REMOVE_ENCRYPTION", "many", {"-R", "--remove-encryption"}),
          Arg("MODE_ENCRYPT", "many", {"-E", "--encrypt"}), Arg("MODE_EXAMINE", "many", {"-e", "--examine"}),
          Arg("MODE_GENERATE_KEYS", "many", {"-G", "--generate-keys"}),
          Arg("MODE_CHANGE_PASSPHRASES", "many", {"-C", "--change-passphrases"})})

-----------------------------------------------------------------------------
(* twprint and siggen                                                       *)
PrintCommon ==
  {Arg("HELP", "none", {"-?", "--help"}), Arg("MODE", "one", {"-m"}),
   Arg("MODE_DBPRINT", "none", {"--print-dbfile"}), Arg("MODE_REPORTPRINT", "none", {"--print-report"}),
   Arg("VERBOSE", "none", {"-v", "--verbose"}), Arg("SILENT", "none", {"-s", "--silent", "--quiet"}),
   Arg("CFG_FILE", "one", {"-c", "--cfgfile"}), LocalKeyFile, SiteKeyFile,
   Arg("PASSPHRASE", "one", {"-P", "--passphrase"}), Arg("HEXADECIMAL", "none", {"-h", "--hexadecimal"})}
PrintReport == Mode(PrintCommon \cup {Arg("REPORT_FILE", "one", {"-r", "--twrfile"}),
                                      Arg("REPORTLEVEL", "one", {"-t", "--report-level"})},
                    "many", CommonApart, {})
PrintDb     == Mode(PrintCommon \cup {Arg("DB_FILE", "one", {"-d", "--dbfile"}),
                                      Arg("REPORTLEVEL", "one", {"-t", "--output-level"})},
                    "many", CommonApart, {})
PrintHelp   == HelpOf({Arg("MODE_REPORTPRINT", "many", {"-r", "--print-report"}),
                       Arg("MODE_DBPRINT", "many", {"-d", "--print-dbfile"})})
Siggen ==
  Mode({Arg("HELP", "none", {"-?", "--help"}), Arg("CRC32", "none", {"-C", "--CRC32"}),
        Arg("MD5", "none", {"-M", "--MD5"}), Arg("SHA", "none", {"-S", "--SHA"}),
        Arg("HAVAL", "none", {"-H", "--HAVAL"}), Arg("ALL", "none", {"-a", "--all"}),
        Arg("HEX", "none", {"-h", "--hexadecimal"}), Arg("TERSE", "none", {"-t", "--terse"})},
       "many", {}, {})

-----------------------------------------------------------------------------
(* The modes of each program, by the word and by the letter behind "-m"     *)
(* that asks for them.                                                      *)
Asked(word, letter, mode) == [word |-> word, letter |-> letter, mode |-> mode]
ModesOf ==
  [tripwire |->
     {Asked("--init", "i", DbInit), Asked("--check", "c", IntegrityChecking), Asked("--update", "u", DbUpdate),
      Asked("--update-policy", "p", PolUpdate), Asked("--test", "t", TestMode),
      Asked("--help", "", TripwireHelp), Asked("-?", "", TripwireHelp)},
   twadmin |->
     {Asked("--create-cfgfile", "F", CreateCfg), Asked("--print-cfgfile", "f", PrintCfg),
      Asked("--create-polfile", "P", CreatePol), Asked("--print-polfile", "p", PrintPol),
      Asked("--remove-encryption", "R", RemoveEncryption), Asked("--encrypt", "E", Encrypt),
      Asked("--examine", "e", Examine), Asked("--generate-keys", "G", GenerateKeys),
      Asked("--change-passphrases", "C", ChangePassphrases)},
   twprint |->
     {Asked("--print-dbfile", "d", PrintDb), Asked("--print-report", "r", PrintReport),
      Asked("--help", "", PrintHelp), Asked("-?", "", PrintHelp)}]

AskedFor(program, argv) ==
  {a \in ModesOf[program] : IF argv[1] = "-m" THEN Len(argv) > 1 /\ a.letter # "" /\ argv[2] = a.letter
                                              ELSE argv[1] = a.word}

(* The mode a command line asks for, as a set: empty when there is none or  *)
(* only the version is asked for.  twadmin looks for a plea for help in     *)
(* every word, siggen has one mode.                                         *)
GetMode(program, argv) ==
  CASE argv \in {<<>>, <<"--version">>} -> {}
    [] program = "siggen" /\ argv # <<>> -> IF argv[1] = "--version" THEN {} ELSE {Siggen}
    [] program = "twadmin" /\ argv \notin {<<>>, <<"-m">>}
         /\ (\E i \in DOMAIN argv : argv[i] \in {"--help", "-?"}) -> {AdminHelp}
    [] OTHER -> {a.mode : a \in AskedFor(program, argv)}

-----------------------------------------------------------------------------
(* The parser                                                               *)
CONSTANTS Switches,   \* words that begin with "-"
          GivenTo     \* program -> the command lines it is given

VARIABLES program, argv,
          at,        \* i, the word that is read next
          pCurArg,   \* the last switch, "" when there was none
          mArgData,  \* what was read: ids and the words that belong to them
          finals,    \* bProcessedFinalParams
          parsed     \* "reading", "accepted" or the error that is thrown

lineVars == <<program, argv, at, pCurArg, mArgData, finals, parsed>>

IsSwitch(word) == word \in Switches

mode == CHOOSE m \in GetMode(program, argv) : TRUE

LineInit ==
  /\ program \in DOMAIN GivenTo /\ argv \in GivenTo[program]
  /\ at = 1 /\ pCurArg = "" /\ mArgData = <<>> /\ finals = FALSE
  /\ parsed = IF GetMode(program, argv) = {} THEN "no mode" ELSE "reading"

ArgInList(id, data) == \E i \in DOMAIN data : data[i].id = id

(* An argument that is known by this word.                                  *)
Lookup(word) == {a \in mode.args : word \in a.words}

Throw(error) == parsed' = error /\ UNCHANGED <<program, argv, at, pCurArg, mArgData, finals>>

Take(id, params) ==
  /\ mArgData' = Append(mArgData, [id |-> id, params |-> params])
  /\ UNCHANGED <<program, argv, finals, parsed>>

Reading == parsed = "reading" /\ at <= Len(argv)

(* A word from i on that is no switch, or none when the line ends.          *)
IsParam(i) == i <= Len(argv) /\ ~IsSwitch(argv[i])

UnknownSwitch == Reading /\ IsSwitch(argv[at]) /\ Lookup(argv[at]) = {} /\ Throw("InvalidArg")

SwitchOf(arg) == IsSwitch(argv[at]) /\ arg \in Lookup(argv[at])

Again(arg) == ArgInList(arg.id, mArgData) /\ arg.id \notin mode.often

RepeatedSwitch == Reading /\ \E arg \in mode.args : SwitchOf(arg) /\ Again(arg) /\ Throw("MultiArg")

(* A switch that takes no words: those that follow must be the last words,  *)
(* with no switch behind them.                                              *)
PlainSwitch(arg) ==
  IF IsParam(at + 1) /\ \E j \in at + 2 .. Len(argv) : IsSwitch(argv[j])
  THEN Throw("BadParam")
  ELSE Take(arg.id, <<>>) /\ at' = at + 1 /\ pCurArg' = argv[at]

(* If it took the next word whatever that is.                               *)
SwitchWithOneAny(arg) ==
  IF at + 1 <= Len(argv)
  THEN Take(arg.id, <<argv[at + 1]>>) /\ at' = at + 2 /\ pCurArg' = argv[at]
  ELSE Throw("BadParam")

SwitchWithOne(arg) ==
  IF IsParam(at + 1)
  THEN Take(arg.id, <<argv[at + 1]>>) /\ at' = at + 2 /\ pCurArg' = argv[at]
  ELSE Throw("BadParam")

SwitchWithMany(arg) ==
  \E end \in at .. Len(argv) :
    /\ \A i \in at + 1 .. end : IsParam(i)
    /\ ~IsParam(end + 1)
    /\ Take(arg.id, SubSeq(argv, at + 1, end)) /\ at' = end + 1 /\ pCurArg' = argv[at]

Switch ==
  Reading /\ \E arg \in mode.args :
    /\ SwitchOf(arg) /\ ~Again(arg)
    /\ \/ arg.takes = "none" /\ PlainSwitch(arg)
       \/ arg.takes = "one" /\ SwitchWithOne(arg)
       \/ arg.takes = "many" /\ SwitchWithMany(arg)

(* Words that belong to no switch; they reach to the end of the line.       *)
FinalParams ==
  /\ Reading /\ ~IsSwitch(argv[at])
  /\ IF mode.last = "none" \/ (mode.last = "one" /\ at # Len(argv)) THEN Throw("BadParam")
     ELSE IF \E i \in at .. Len(argv) : IsSwitch(argv[i])
     THEN Throw(IF pCurArg = "" THEN "BadSwitchPos" ELSE "BadArgParam")
     ELSE /\ mArgData' = Append(mArgData, [id |-> "PARAMS", params |-> SubSeq(argv, at, Len(argv))])
          /\ finals' = TRUE /\ at' = Len(argv) + 1
          /\ UNCHANGED <<program, argv, pCurArg, parsed>>

(* At the end of the line: were words missing, what was given apart, and    *)
(* what needs what.                                                         *)
TestMutEx == \A pair \in mode.apart : ~(ArgInList(pair[1], mArgData) /\ ArgInList(pair[2], mArgData))
TestDependency == \A pair \in mode.needs : ArgInList(pair[1], mArgData) => ArgInList(pair[2], mArgData)

Missing == ~finals /\ mode.last = "one"

EndOfLine ==
  /\ parsed = "reading" /\ at > Len(argv)
  /\ \/ Missing /\ Throw("BadParam")
     \/ ~Missing /\ ~TestMutEx /\ Throw("MutEx")
     \/ ~Missing /\ TestMutEx /\ ~TestDependency /\ Throw("Dependency")
     \/ ~Missing /\ TestMutEx /\ TestDependency /\ Throw("accepted")

Parse == UnknownSwitch \/ RepeatedSwitch \/ Switch \/ FinalParams \/ EndOfLine

-----------------------------------------------------------------------------
(* What a command line means, said of the whole of it: every switch has the *)
(* words up to the next one, and only the last may have more than it takes, *)
(* which then are those of no switch.                                       *)
Heads == {i \in DOMAIN argv : IsSwitch(argv[i])}
WordsOf(i) ==
  LET next == {j \in Heads : j > i} \cup {Len(argv) + 1}
  IN SubSeq(argv, i + 1, (CHOOSE j \in next : \A k \in next : j <= k) - 1)
Own(arg, words)  == CASE arg.takes = "none" -> <<>>
                      [] arg.takes = "one"  -> SubSeq(words, 1, 1)
                      [] arg.takes = "many" -> words
ArgAt(i) == CHOOSE arg \in mode.args : argv[i] \in arg.words
Left(i)  == LET words == WordsOf(i) IN SubSeq(words, Len(Own(ArgAt(i), words)) + 1, Len(words))
LastHead == CHOOSE i \in Heads : \A j \in Heads : j <= i
OfNone   == IF Heads = {} THEN argv ELSE Left(LastHead)
IsGiven(id) == \E i \in Heads : ArgAt(i).id = id

WellFormed ==
  /\ \A i \in Heads : \E arg \in mode.args : argv[i] \in arg.words
  /\ Heads = {} \/ IsSwitch(argv[1])
  /\ \A i \in Heads : /\ ArgAt(i).takes = "one" => WordsOf(i) # <<>>
                      /\ i # LastHead => Left(i) = <<>>
                      /\ \A j \in Heads \ {i} : ArgAt(i).id = ArgAt(j).id => ArgAt(i).id \in mode.often
  /\ mode.last = "none" => OfNone = <<>>
  /\ mode.last = "one" => Len(OfNone) = 1
  /\ \A pair \in mode.apart : ~(IsGiven(pair[1]) /\ IsGiven(pair[2]))
  /\ \A pair \in mode.needs : IsGiven(pair[1]) => IsGiven(pair[2])

(* What is read: the switches with their own words, in their order, and the *)
(* words of none.                                                           *)
Grouped ==
  [i \in 1 .. Cardinality(Heads) |->
     LET h == SetToSortSeq(Heads, <)[i] IN [id |-> ArgAt(h).id, params |-> Own(ArgAt(h), WordsOf(h))]]
  \o IF OfNone = <<>> THEN <<>> ELSE <<[id |-> "PARAMS", params |-> OfNone]>>

(* A command line is accepted when it is well formed, and then every word   *)
(* has gone where it belongs; otherwise it is refused.                      *)
ParsesAsGrouped ==
  parsed \notin {"reading", "no mode"} =>
    /\ parsed = "accepted" <=> WellFormed
    /\ parsed = "accepted" => mArgData = Grouped
=============================================================================
