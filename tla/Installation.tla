---------------------------- MODULE Installation ----------------------------
(***************************************************************************)
(* The files of an installation and the commands of tripwire and twadmin   *)
(* that rewrite them.  A command reads what it needs, works in memory, and *)
(* then overwrites its files one after the other, each in place: it copies *)
(* the file to its backup, truncates it and streams the new content into   *)
(* it.  Nothing is renamed into place and nothing is locked; the program   *)
(* may be killed between any two of these steps.                           *)
(***************************************************************************)
EXTENDS Integers, Sequences

CONSTANTS
    Policies,       \* what a policy file may say
    Passphrases,    \* what a private key may be protected with
    Absent,         \* there is no such file
    Damaged,        \* a file of which only a part was written: no reader takes it
    MaxCommands,    \* bound: commands run
    MaxPairs        \* bound: key pairs ever made

VARIABLES
    disk,       \* [Files -> Absent, Damaged or a content]
    bak,        \* the same of each file's backup
    before,     \* disk when the last command began
    op,         \* the name of that command
    todo,       \* the steps it still has to take
    status,     \* "running", "done", "refused" or "killed"
    pairs,      \* key pairs made so far
    commands    \* commands run so far

vars == <<disk, bak, before, op, todo, status, pairs, commands>>

KeyFiles == {"site", "local"}
Signed   == {"cfg", "pol", "db", "report"}
Files    == KeyFiles \cup Signed

\* A signed file holds a text, and the pair that it was signed with or 0.
Unsigned == 0
Pairs    == 1 .. MaxPairs

\* The text of a policy, of a database or of a report: the policy it was made for.
Text(f)  == IF f = "cfg" THEN {"settings"} ELSE Policies
Contents(f) == IF f \in KeyFiles THEN [pair : Pairs, pass : Passphrases]
                                 ELSE [text : Text(f), key : Pairs \cup {Unsigned}]

KeyFileOf(f) == IF f \in {"cfg", "pol"} THEN "site" ELSE "local"

\* A key file can be told from none and from part of one, and so can a signed file;
\* the setup makes two key pairs.
ASSUME InstallationAssumption ==
    /\ \A f \in Files : {Absent, Damaged} \cap Contents(f) = {}
    /\ MaxPairs \in Nat \ {0, 1}

IsWhole(d, f) == d[f] \notin {Absent, Damaged}

\* The file f can be read with the key file k of the disk d.
Opens(d, f, k) == IsWhole(d, f) /\ (d[f].key # Unsigned => IsWhole(k, KeyFileOf(f))
                                       /\ d[f].key = k[KeyFileOf(f)].pair)

ReadKey(f)     == IsWhole(disk, f)
CanRead(f)     == ReadKey(KeyFileOf(f)) /\ Opens(disk, f, disk)

\* VerifyCfgSiteKey: every tripwire command first reads the configuration.
CfgInSync == Opens(disk, "cfg", disk)

\* What f is to hold: signed with the key on disk when enc.
Sealed(text, f, enc) ==
    [text |-> text, key |-> IF enc THEN disk[KeyFileOf(f)].pair ELSE Unsigned]

-----------------------------------------------------------------------------
(* The steps of commands *)

Step(do, f, c) == [do |-> do, file |-> f, new |-> c]

\* A point where the command may end without having gone on: a passphrase is asked for,
\* a check in secure mode fails, the editor does not start, the user says no.
Ask == <<Step("ask", "db", Absent)>>
AskIf(enc) == IF enc THEN Ask ELSE <<>>

BackupFile(f) == <<Step("unlink", f, Absent), Step("copy", f, Absent)>>
WriteObject(f, c) == <<Step("truncate", f, c), Step("write", f, c)>>

\* Variant: the backup comes too late.
BackupAfter(f, c) == WriteObject(f, c) \o BackupFile(f)
Overwrite(f, c) == BackupFile(f) \o WriteObject(f, c)

\* A command that refuses at once takes no step.
Begin(name, able, steps) ==
    /\ status # "running" /\ commands < MaxCommands
    /\ commands' = commands + 1
    /\ op' = name
    /\ before' = disk
    /\ todo' = IF able THEN steps ELSE <<>>
    /\ status' = IF able THEN "running" ELSE "refused"
    /\ UNCHANGED <<disk, bak>>

-----------------------------------------------------------------------------
(* tripwire *)

GenerateDatabase(enc) ==
    /\ UNCHANGED pairs
    /\ Begin("GenerateDatabase",
             /\ CfgInSync /\ CanRead("pol")
             /\ enc => ReadKey("local"),
             AskIf(enc) \o Overwrite("db", Sealed(disk["pol"].text, "db", enc)))

\* The policy file and the database were made for the same policy.
VerifyPolicy == CanRead("pol") /\ disk["pol"].text = disk["db"].text

\* The end of an update: the user edits the report and leaves something in it or not.
DatabaseOverwritten(fits) ==
    LET enc == disk["db"].key # Unsigned
    IN  Ask \o (IF fits THEN AskIf(enc) \o Overwrite("db", Sealed(disk["db"].text, "db", enc))
                        ELSE <<>>)

\* --check, of the whole policy or of a list of objects, then --interactive or not.
Check(objects, enc, update, fits) ==
    /\ UNCHANGED pairs
    /\ Begin(IF objects THEN "CheckObjects" ELSE "Check",
             /\ CfgInSync /\ CanRead("db")
             /\ ~objects => VerifyPolicy,
             AskIf(enc) \o Overwrite("report", Sealed(disk["db"].text, "report", enc))
                        \o (IF update THEN DatabaseOverwritten(fits) ELSE <<>>))

UpdateDatabase(fits) ==
    /\ UNCHANGED pairs
    /\ Begin("UpdateDatabase", CfgInSync /\ CanRead("db") /\ CanRead("report"),
             DatabaseOverwritten(fits))

\* Variants: the local passphrase is asked for when the policy file is written; the
\* database keeps the rules it had.
UpdatedFilesAskingLate(policy, encPol, encDb) ==
    Ask \o AskIf(encPol) \o Overwrite("pol", Sealed(policy, "pol", encPol))
        \o AskIf(encDb) \o Overwrite("db", Sealed(policy, "db", encDb))
UpdatedFilesOldRules(policy, encPol, encDb) ==
    Ask \o AskIf(encPol \/ encDb)
        \o Overwrite("pol", Sealed(policy, "pol", encPol))
        \o Overwrite("db", Sealed(disk["db"].text, "db", encDb))

\* UpdatePolicyFile reads the text of the policy again when the backup is made; that it
\* is the text that was parsed at the start is assumed.
UpdatedFiles(policy, encPol, encDb) ==
    Ask \o AskIf(encPol \/ encDb)
        \o BackupFile("pol") \o Ask \o WriteObject("pol", Sealed(policy, "pol", encPol))
        \o Overwrite("db", Sealed(policy, "db", encDb))

\* A policy file that cannot be examined is written encrypted; of a damaged one the
\* header may still tell.
UpdatePolicy(policy, header) ==
    /\ UNCHANGED pairs
    /\ Begin("UpdatePolicy", CfgInSync /\ CanRead("db") /\ ReadKey("site"),
             UpdatedFiles(policy,
                          IF IsWhole(disk, "pol") THEN disk["pol"].key # Unsigned
                          ELSE disk["pol"] = Damaged => header,
                          disk["db"].key # Unsigned))

-----------------------------------------------------------------------------
(* twadmin *)

\* The new configuration names the site key file; the key given must be that key.
CreateConfig(enc, same) ==
    /\ UNCHANGED pairs
    /\ Begin("CreateConfig", ReadKey("site") /\ (enc => same),
             AskIf(enc) \o Overwrite("cfg", Sealed("settings", "cfg", enc)))

CreatePolicy(policy, enc) ==
    /\ UNCHANGED pairs
    /\ Begin("CreatePolicy", enc => ReadKey("site"),
             AskIf(enc) \o Overwrite("pol", Sealed(policy, "pol", enc)))

\* Variant: no backup.
GenerateKeyNoBackup(f, pair, pass) == Ask \o WriteObject(f, [pair |-> pair, pass |-> pass])
\* The site key first; the local key is asked for when the site key is already replaced.
GenerateKeyOf(f, pair, pass) == Ask \o Overwrite(f, [pair |-> pair, pass |-> pass])

GenerateKeys(site, local, pass) ==
    LET last == pairs + (IF site THEN 1 ELSE 0) + (IF local THEN 1 ELSE 0)
    IN  /\ last \in pairs + 1 .. MaxPairs
        /\ pairs' = last
        /\ Begin("GenerateKeys", TRUE,
                 (IF site THEN GenerateKeyOf("site", pairs + 1, pass) ELSE <<>>) \o
                 (IF local THEN GenerateKeyOf("local", last, pass) ELSE <<>>))

\* The backup is made before the key file is read and the old passphrase tried.
ChangePassphraseOf(f, pass) ==
    BackupFile(f) \o <<Step("reread", f, Absent)>>
        \o (IF IsWhole(disk, f) THEN Ask \o WriteObject(f, [disk[f] EXCEPT !.pass = pass])
                                ELSE <<>>)

ChangePassphrases(site, local, pass) ==
    /\ UNCHANGED pairs
    /\ site \/ local
    /\ Begin("ChangePassphrases",
             /\ site => disk["site"] # Absent
             /\ local => disk["local"] # Absent,
             (IF site THEN ChangePassphraseOf("site", pass) ELSE <<>>) \o
             (IF local THEN ChangePassphraseOf("local", pass) ELSE <<>>))

\* Files that are no good are left out, and so are those whose key file is none.
Encrypted(f) ==
    IF IsWhole(disk, f) /\ disk[f].key = Unsigned /\ ReadKey(KeyFileOf(f))
    THEN Ask \o WriteObject(f, Sealed(disk[f].text, f, TRUE)) ELSE <<>>

\* A key file that cannot be read ends the command; a file it does not open is left out.
Decrypted(f) ==
    IF ~IsWhole(disk, f) \/ disk[f].key = Unsigned THEN <<>>
    ELSE <<Step("reread", KeyFileOf(f), Absent)>>
         \o (IF f = "cfg" => CanRead(f) THEN Ask ELSE <<>>)
         \o (IF CanRead(f) THEN WriteObject(f, Sealed(disk[f].text, f, FALSE)) ELSE <<>>)

Encrypt(f, g) ==
    /\ UNCHANGED pairs
    /\ Begin("Encrypt", TRUE, Encrypted(f) \o (IF g = f THEN <<>> ELSE Encrypted(g)))

RemoveEncryption(f, g) ==
    /\ UNCHANGED pairs
    /\ Begin("RemoveEncryption", TRUE, Decrypted(f) \o (IF g = f THEN <<>> ELSE Decrypted(g)))

-----------------------------------------------------------------------------
(* The steps a command takes once it has begun *)

At(do) == status = "running" /\ todo # <<>> /\ Head(todo).do = do

GoOn == /\ todo' = Tail(todo)
        /\ UNCHANGED <<before, op, status, pairs, commands>>

GiveUp(how) == /\ status' = how
               /\ todo' = <<>>
               /\ UNCHANGED <<disk, bak, before, op, pairs, commands>>

Asked   == At("ask") /\ UNCHANGED <<disk, bak>> /\ GoOn
Refused == At("ask") /\ GiveUp("refused")

\* BackupFile does nothing when there is no file.
UnlinkBackup ==
    /\ At("unlink")
    /\ bak' = IF disk[Head(todo).file] = Absent THEN bak
              ELSE [bak EXCEPT ![Head(todo).file] = Damaged]
    /\ UNCHANGED disk
    /\ GoOn

CopyToBackup ==
    /\ At("copy")
    /\ bak' = IF disk[Head(todo).file] = Absent THEN bak
              ELSE [bak EXCEPT ![Head(todo).file] = disk[Head(todo).file]]
    /\ UNCHANGED disk
    /\ GoOn

ReadAgain == At("reread") /\ ReadKey(Head(todo).file) /\ UNCHANGED <<disk, bak>> /\ GoOn
ReadFails == At("reread") /\ ~ReadKey(Head(todo).file) /\ GiveUp("refused")

Truncate ==
    /\ At("truncate")
    /\ disk' = [disk EXCEPT ![Head(todo).file] = Damaged]
    /\ UNCHANGED bak
    /\ GoOn

WriteOut ==
    /\ At("write")
    /\ disk' = [disk EXCEPT ![Head(todo).file] = Head(todo).new]
    /\ UNCHANGED bak
    /\ GoOn

Finish == status = "running" /\ todo = <<>> /\ GiveUp("done")

\* The process is killed, the machine stops or the disk is full, before any step.
Killed == status = "running" /\ todo # <<>> /\ GiveUp("killed")

-----------------------------------------------------------------------------
\* An installation as the setup left it: keys, a configuration and a policy, and maybe a
\* database; what is signed is signed with the installed keys.
Init ==
    /\ \E pass \in Passphrases, policy \in Policies, enc \in BOOLEAN, db \in BOOLEAN :
          disk = [site   |-> [pair |-> 1, pass |-> pass],
                  local  |-> [pair |-> 2, pass |-> pass],
                  cfg    |-> [text |-> "settings", key |-> 1],
                  pol    |-> [text |-> policy, key |-> IF enc THEN 1 ELSE Unsigned],
                  db     |-> IF db THEN [text |-> policy, key |-> IF enc THEN 2 ELSE Unsigned]
                             ELSE Absent,
                  report |-> Absent]
    /\ bak = [f \in Files |-> Absent]
    /\ before = disk
    /\ op = "setup" /\ todo = <<>> /\ status = "done"
    /\ pairs = 2 /\ commands = 0

Tripwire ==
    \/ \E enc \in BOOLEAN : GenerateDatabase(enc)
    \/ \E objects, enc, update, fits \in BOOLEAN : Check(objects, enc, update, fits)
    \/ \E fits \in BOOLEAN : UpdateDatabase(fits)
    \/ \E policy \in Policies, header \in BOOLEAN : UpdatePolicy(policy, header)

Twadmin ==
    \/ \E enc, same \in BOOLEAN : CreateConfig(enc, same)
    \/ \E policy \in Policies, enc \in BOOLEAN : CreatePolicy(policy, enc)
    \/ \E site, local \in BOOLEAN, pass \in Passphrases :
          \/ GenerateKeys(site, local, pass)
          \/ ChangePassphrases(site, local, pass)
    \/ \E f, g \in Signed : Encrypt(f, g) \/ RemoveEncryption(f, g)

Steps == \/ Asked \/ Refused \/ UnlinkBackup \/ CopyToBackup
         \/ ReadAgain \/ ReadFails \/ Truncate \/ WriteOut \/ Finish \/ Killed

Next == Tripwire \/ Twadmin \/ Steps

Spec == Init /\ [][Next]_vars

-----------------------------------------------------------------------------
(* Properties *)

\* What a file held when the last command began.
KeptOf(f) == IsWhole(before, f) => before[f] \in {disk[f], bak[f]}

\* Whenever a command that makes backups is stopped, what a file held before it is
\* still there, in the file or in its backup.
OldContentKept ==
    op \notin {"Encrypt", "RemoveEncryption"} => \A f \in Files : KeptOf(f)

\* The same of every command, as the manual has it.
EveryOverwriteBackedUp == \A f \in Files : KeptOf(f)

\* A command that refuses leaves every file as it was, except for those it is done with:
\* a check's report, the site key when the local key is refused, files of a list.
DoneWith(command) ==
    CASE command \in {"Check", "CheckObjects"}              -> {"report"}
      [] command \in {"GenerateKeys", "ChangePassphrases"}  -> {"site"}
      [] command \in {"Encrypt", "RemoveEncryption"}        -> Signed
      [] OTHER                                              -> {}
RefusedLeavesFiles ==
    status = "refused" =>
        \A f \in Files : disk[f] # before[f] => f \in DoneWith(op) /\ IsWhole(disk, f)

\* Once a command has ended, what could be read before still can: with the key that is
\* there, or, after new keys were made, with the one in the backup.
StillOpens ==
    status \in {"done", "refused"} =>
        \A f \in Signed : Opens(before, f, before) =>
            \/ Opens(disk, f, disk)
            \/ op = "GenerateKeys" /\ Opens(disk, f, bak)

\* A policy update that ends well leaves a policy file and a database that a check
\* accepts, whatever an earlier one that was stopped left of them.
UpdatedPolicyChecks ==
    op = "UpdatePolicy" /\ status = "done" => CanRead("db") /\ VerifyPolicy
=============================================================================
