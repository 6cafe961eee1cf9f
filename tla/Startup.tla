------------------------------ MODULE Startup ------------------------------
(* tripwire from its first instruction to the one of its mode: the words of *)
(* the command line, a copy of them for the reports, the configuration, and *)
(* the settings that the mode takes from both.  The other programs are      *)
(* followed as far as the command line.                                     *)
EXTENDS CommandLine, ConfigFile

CONSTANTS Absolute,       \* text that begins with a slash
          ExeDir, Cwd,    \* where names in the configuration and on the command line begin
          Environment,    \* the editors VISUAL and EDITOR may name, <<>> when they name none
          BadSeverities   \* words that begin with a digit and are no number

VARIABLES phase,    \* "parse", "config", "init", "executing", "helped" or "refused"
          saved,    \* mstrCmdLine
          settings, \* the data of the mode
          editor    \* the editor of the environment

startVars == <<lineVars, configVars, phase, saved, settings, editor>>

NoSettings == <<>>

StartInit ==
  /\ LineInit /\ ConfigInit /\ editor \in Environment
  /\ phase = "parse" /\ saved = <<>> /\ settings = NoSettings

ReadWords ==
  /\ phase = "parse" /\ Parse
  /\ UNCHANGED <<configVars, phase, saved, settings, editor>>

-----------------------------------------------------------------------------
(* util_GetWholeCmdLine: the word behind a passphrase switch is wiped, and  *)
(* behind any word that begins as its letter does: of those that get here   *)
(* there are no others.                                                     *)
Stars == "*****"
TakesPassphraseShort == {"-P", "-Q"}   \* if only the letters were looked for
TakesPassphrase      == {"-P", "-Q", "--local-passphrase", "--site-passphrase"}
WholeCmdLine ==
  LET copy[i \in 0 .. Len(argv)] ==
        IF i = 0 THEN <<>>
        ELSE Append(copy[i - 1], IF i > 1 /\ argv[i - 1] \in TakesPassphrase /\ copy[i - 1][i - 1] # Stars
                                 THEN Stars ELSE argv[i])
  IN copy[Len(argv)]

GivenArgs(id) == {i \in DOMAIN mArgData : mArgData[i].id = id}
Has(id)       == GivenArgs(id) # {}
ParamOf(id)   == mArgData[CHOOSE i \in GivenArgs(id) : TRUE].params[1]

(* Only tripwire goes on from here in this module.                          *)
Parsed ==
  /\ phase = "parse" /\ program = "tripwire" /\ parsed # "reading"
  /\ IF parsed # "accepted" THEN phase' = "refused" /\ UNCHANGED saved
     ELSE /\ saved' = WholeCmdLine
          /\ phase' = CASE Has("HELP") -> "helped"
                        [] mode = TripwireHelp -> "executing"
                        [] OTHER -> "config"
  /\ UNCHANGED <<lineVars, configVars, settings, editor>>

ReadConfig ==
  /\ phase = "config" /\ config = "reading" /\ ReadString
  /\ UNCHANGED <<lineVars, phase, saved, settings, editor>>

OpenConfigFile ==
  /\ phase = "config" /\ config # "reading"
  /\ phase' = IF config = "read" THEN "init" ELSE "refused"
  /\ UNCHANGED <<lineVars, configVars, saved, settings, editor>>

-----------------------------------------------------------------------------
(* The files a mode works with: their keys and their switches.              *)
SwitchFor == [POLFILE |-> "POL_FILE", DBFILE |-> "DB_FILE", REPORTFILE |-> "REPORT_FILE",
              SITEKEYFILE |-> "SITE_KEY_FILE", LOCALKEYFILE |-> "LOCAL_KEY_FILE"]

AsText(word) == IF word = "" THEN <<>> ELSE <<word>>
FullPath(path, from) == IF path = <<>> \/ path[1] \in Absolute THEN path ELSE from \o path

Lookup1(key) == IF Find(<<key>>) = {} THEN <<>> ELSE ValueOf(<<key>>)
IsTrue(val)  == val \in {<<"true">>, <<"TRUE">>}
Levels       == {"0", "1", "2", "3", "4"}
Methods      == {<<"SENDMAIL">>, <<"SMTP">>}

(* FillOutConfigInfo, and FillOutCmdLineInfo over it: what the command line *)
(* gives takes the place of what the configuration gives.                   *)
FillOutConfigInfo ==
  [files  |-> [key \in DOMAIN SwitchFor |-> FullPath(Lookup1(key), ExeDir)],
   late   |-> IsTrue(Lookup1("LATEPROMPTING")),
   method |-> Lookup1("MAILMETHOD"),
   editor |-> Lookup1("EDITOR")]

FillOutCmdLineInfo(data) ==
  [data EXCEPT
     !.files = [key \in DOMAIN @ |-> FullPath(IF Has(SwitchFor[key]) THEN AsText(ParamOf(SwitchFor[key])) ELSE @[key],
                                              Cwd)],
     !.late  = @ /\ ~Has("LOCAL_PASSPHRASE")]

Interactive == (mode = IntegrityChecking /\ Has("INTER_UPDATE")) \/ (mode = DbUpdate /\ ~Has("ACCEPT_ALL"))

(* What the Init of each mode adds: an editor from the command line or, if  *)
(* there is none and one is needed, from the environment.                   *)
OwnSettings(data) ==
  LET named == IF Has("EDITOR") THEN AsText(ParamOf("EDITOR")) ELSE data.editor
  IN [data EXCEPT !.editor = IF Interactive /\ named = <<>> THEN editor ELSE named,
                  !.late = @ /\ ~Has("SITE_PASSPHRASE")]

NeededFiles == IF mode = TestMode THEN {}
               ELSE {"LOCALKEYFILE", "SITEKEYFILE", "POLFILE", "DBFILE"}
                      \cup (IF mode \in {IntegrityChecking, DbUpdate} THEN {"REPORTFILE"} ELSE {})
Mails == (mode = IntegrityChecking /\ Has("MAIL_REPORT")) \/ mode = TestMode

ReadsLevel    == Find(<<"EMAILREPORTLEVEL">>) # {} => Lookup1("EMAILREPORTLEVEL") \in {<<l>> : l \in Levels}
ValidWords    == /\ Has("REPORTLEVEL") => ParamOf("REPORTLEVEL") \in Levels
                 /\ Has("SECURE_MODE") => ParamOf("SECURE_MODE") \in {"high", "low"}
                 /\ Has("SEVERITY_LEVEL") => ParamOf("SEVERITY_LEVEL") \notin BadSeverities
Required(data) ==
  /\ \A key \in NeededFiles : data.files[key] # <<>>
  /\ Interactive => data.editor # <<>>
  /\ mode = TestMode => Has("TEST_EMAIL")
  /\ mode = IntegrityChecking /\ Has("MAIL_REPORT") => ~Has("PARAMS")
  /\ Mails => data.method \in Methods
  /\ mode = IntegrityChecking /\ Mails /\ data.method = <<"SENDMAIL">> => Lookup1("MAILPROGRAM") # <<>>

InitMode ==
  /\ phase = "init"
  /\ LET data == OwnSettings(FillOutCmdLineInfo(FillOutConfigInfo))
     IN IF ReadsLevel /\ ValidWords /\ Required(data)
        THEN phase' = "executing" /\ settings' = data
        ELSE phase' = "refused" /\ UNCHANGED settings
  /\ UNCHANGED <<lineVars, configVars, saved, editor>>

StartNext == ReadWords \/ Parsed \/ ReadConfig \/ OpenConfigFile \/ InitMode

-----------------------------------------------------------------------------
WordAfter(id) == argv[(CHOOSE i \in Heads : ArgAt(i).id = id) + 1]
Configured(key) == Worth(text, key)

(* A command works with the files the command line names, seen from where   *)
(* it is run, and for the others with those of the configuration, seen from *)
(* where the program is; none of those it needs is missing.  It prompts     *)
(* late only when the configuration says so and no passphrase was given.    *)
SettingsAsTold ==
  phase = "executing" /\ settings # NoSettings =>
    /\ \A key \in DOMAIN SwitchFor :
         settings.files[key] = IF IsGiven(SwitchFor[key]) THEN FullPath(AsText(WordAfter(SwitchFor[key])), Cwd)
                                                          ELSE FullPath(Configured(key), ExeDir)
    /\ \A key \in NeededFiles : settings.files[key] # <<>>
    /\ settings.late <=> /\ IsTrue(Configured("LATEPROMPTING"))
                         /\ ~IsGiven("LOCAL_PASSPHRASE") /\ ~IsGiven("SITE_PASSPHRASE")
    /\ Interactive => settings.editor # <<>>

(* A sound configuration lacks no file a mode needs: the mode is refused    *)
(* for one only when the command line names it "".                          *)
RefusedForWords ==
  phase = "refused" /\ parsed = "accepted" /\ config = "read" =>
    \/ \E key \in NeededFiles : IsGiven(SwitchFor[key]) /\ WordAfter(SwitchFor[key]) = ""
    \/ ~ValidWords \/ ~ReadsLevel
    \/ mode = TestMode /\ ~IsGiven("TEST_EMAIL")
    \/ Interactive /\ editor = <<>>
    \/ Mails /\ (Configured("MAILMETHOD") \notin Methods \/ Configured("MAILPROGRAM") = <<>>
                 \/ (mode = IntegrityChecking /\ OfNone # <<>>))

(* The copy of the command line that goes into the reports shows every word *)
(* but the passphrases.                                                     *)
PassphrasesMasked ==
  saved # <<>> =>
    \A i \in DOMAIN argv :
      saved[i] = IF i > 1 /\ i - 1 \in Heads /\ ArgAt(i - 1).id \in {"LOCAL_PASSPHRASE", "SITE_PASSPHRASE"}
                 THEN Stars ELSE argv[i]

(* What a command starts with is what it was told.                          *)
StartsAsTold == ReadsAsMeant /\ (InLanguage(text) => SettingsAsTold /\ RefusedForWords) /\ PassphrasesMasked
=============================================================================
