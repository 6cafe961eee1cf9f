-------------------------- MODULE MCInstalledFiles --------------------------
(* The commands on the files of an installation; or the text of one of      *)
(* these files on its way through the archive: what Damaged stands for      *)
(* there is a file that lost its end here; or the start of a command, which *)
(* reads its command line and the configuration file.                       *)
EXTENDS Installation, ConfigFile, TLC

CONSTANTS p1, p2, w1, w2

VARIABLES what,
          action, written, deflating, block, file, torn, taken,  \* of CryptoArchive
          inflating, afterEnd, nodes, count, wanted, got, outcome,
          program, argv, at, pCurArg, mArgData, finals, parsed,
          phase, saved, settings, editor   \* of Startup, with those of ConfigFile

(* Two policies that may be told apart, and two passphrases.                *)
TwoPolicies    == {p1, p2}
TwoPassphrases == {w1, w2}
Interchangeable == Permutations(TwoPolicies) \cup Permutations(TwoPassphrases)

-----------------------------------------------------------------------------
(* For the start: every command line of a few words in every mode, with one *)
(* configuration, and a few command lines with every configuration of a few *)
(* lines.                                                                   *)
SomeSwitches == {"-m", "-?", "--help", "--version", "-zz", "-", "-v", "-s", "--quiet", "-e", "-L", "-P",
  "--local-passphrase", "-Q", "--site-passphrase", "-I", "-V", "-l", "-R", "-t", "-M", "-a", "-Z", "-p", "-r",
  "--init", "--check", "--update", "--update-policy", "--test", "--create-cfgfile", "--remove-encryption",
  "--encrypt", "--change-passphrases", "--site-passphrase-old", "--print-cfgfile", "--print-report",
  "--all", "-S", "-C", "-h", "-f"}

(* The first words of a command line and those that may follow.             *)
From(first, more, most) == {first \o rest : rest \in UNION {[1 .. n -> more] : n \in 0 .. most}}

TheLines ==
  [tripwire |->
     From(<<"--init">>, {"-e", "-P", "-L", "x", "-v", "-s"}, 4)
       \cup From(<<"-m", "c">>, {"-I", "-V", "-l", "-R", "x", ""}, 4)
       \cup From(<<"--check">>, {"-M", "-t", "2", "-r", "", "--check"}, 4)
       \cup From(<<"--update">>, {"-a", "-V", "-Z", "low", "-zz"}, 3)
       \cup From(<<"--update-policy">>, {"-Q", "--site-passphrase", "--local-passphrase", "x", "-p"}, 4)
       \cup From(<<"--test">>, {"-e", "x", "-s"}, 3) \cup From(<<"-m", "t">>, {"-e", "x"}, 2)
       \cup From(<<"--help">>, {"-m", "x", "--all", "--check"}, 3)
       \cup From(<<>>, {"-m", "x", "--init", "-?", "--version"}, 2),
   twadmin |->
     From(<<"--create-cfgfile">>, {"-e", "-Q", "-S", "x", "--help"}, 4)
       \cup From(<<"-m", "R">>, {"-L", "-Q", "x", "-v", "--quiet"}, 4)
       \cup From(<<"--change-passphrases">>, {"--site-passphrase-old", "-P", "x", "-"}, 3)
       \cup From(<<"-m">>, {"E", "f", "x", "-?", "-f"}, 2),
   twprint |-> From(<<"--print-report">>, {"-t", "-r", "x", "-h"}, 4) \cup From(<<"-m", "d">>, {"-P", "x"}, 3),
   siggen  |-> From(<<>>, {"-a", "-C", "x", "-t", "-?", "--version"}, 3)]

FewLines ==
     {<<"--check">>, <<"--check", "-p", "x", "-I">>, <<"--check", "-M">>, <<"--check", "-P", "x">>,
      <<"--update-policy", "-Q", "x", "x">>, <<"--update", "-r", "", "-a">>, <<"--update">>}

Usual == <<Line("POLFILE", <<Word("/e"), Var("HOSTNAME")>>), Line("DBFILE", <<Word("d")>>),
           Line("REPORTFILE", <<Word("/r"), Var("DATE")>>), Line("SITEKEYFILE", <<Var("POLFILE"), Word("s")>>),
           Line("LOCALKEYFILE", <<Word("/l")>>)>>
Mailing == <<Line("LATEPROMPTING", <<Word("true")>>), Line("MAILMETHOD", <<Word("SENDMAIL")>>),
             Line("MAILPROGRAM", <<Word("m")>>), Line("EDITOR", <<Word("v")>>)>>

SomePieces == {Word("/a"), Var("A"), Var("HOSTNAME"), Word("("), Dollar}
SomeLines  == {Comment, NoEquals, Line("", <<>>), Line("DATE", <<Word("x")>>), Line("EDITOR", <<>>),
               Line("LATEPROMPTING", <<Word("TRUE")>>), Line("LATEPROMPTING", <<Word("no")>>),
               Line("EMAILREPORTLEVEL", <<Word("9")>>)}
              \cup {Line(key, pieces) : key \in {"A", "DBFILE"},
                                        pieces \in UNION {[1 .. n -> SomePieces] : n \in 0 .. 2}}
ManyTexts == {Usual \o more : more \in UNION {[1 .. n -> SomeLines] : n \in 1 .. 2}}
               \cup {first \o SubSeq(Usual, k, 5) : first \in {<<l>> : l \in SomeLines}, k \in 1 .. 2}

TheTexts  == {Usual \o Mailing, Usual} \cup ManyTexts
TheMachine == <<"h">>
TheDay     == <<"d1", "d2">>
TheKeys    == {"POLFILE", "DBFILE", "REPORTFILE", "SITEKEYFILE", "LOCALKEYFILE"}

S == INSTANCE Startup WITH
       Switches <- SomeSwitches, GivenTo <- TheLines,
       Absolute <- {"/e", "/r", "/l", "/a", "/exe", "/cwd"}, ExeDir <- <<"/exe">>, Cwd <- <<"/cwd">>,
       Environment <- {<<>>, <<"vi">>}, BadSeverities <- {"9x"}

startVars == <<program, argv, at, pCurArg, mArgData, finals, parsed, text, line, table, config,
               phase, saved, settings, editor>>

(* Either the command line or the configuration is one of a few.            *)
StartInit ==
  \/ text \in {Usual \o Mailing, Usual} /\ S!StartInit
  \/ program = "tripwire" /\ argv \in FewLines /\ editor = <<"vi">> /\ S!StartInit

(* When this is not what is looked at.                                      *)
NoStart == program = "siggen" /\ argv = <<>> /\ text = Usual /\ editor = <<>> /\ S!StartInit
-----------------------------------------------------------------------------
A == INSTANCE CryptoArchive WITH BlockSize <- 3, NodeSize <- 2, MaxWritten <- 7, MaxCount <- 4

archiveVars == <<action, written, deflating, block, file, torn, taken,
                 inflating, afterEnd, nodes, count, wanted, got, outcome>>

FilesInit ==
  /\ what \in {"commands", "archive", "startup"} /\ Init /\ A!Init
  /\ what # "commands" => disk.db = Absent /\ disk.pol.key = Unsigned
  /\ IF what = "startup" THEN StartInit ELSE NoStart

Commands == what = "commands" /\ Next /\ UNCHANGED <<what, archiveVars, startVars>>
Archive  == what = "archive" /\ A!Next /\ UNCHANGED <<what, vars, startVars>>
Starting == what = "startup" /\ S!StartNext /\ UNCHANGED <<what, vars, archiveVars>>

FilesNext == Commands \/ Archive \/ Starting

FilesSpec == FilesInit /\ [][FilesNext]_<<what, vars, archiveVars, startVars>>

(* CryptoArchive: the reads give what the writes were given.                *)
ReadsWhatWasWritten == A!ReadsWhatWasWritten

(* CommandLine: a command line is accepted when it is well formed, and then *)
(* every word has gone where it belongs.                                    *)
ParsesAsGrouped == what = "startup" => S!ParsesAsGrouped

(* Startup: what a command starts with is what it was told.                 *)
StartsAsTold == what = "startup" => S!StartsAsTold
=============================================================================
