# A TLA+ model of Open Source Tripwire

Tripwire keeps a database of the properties of files, compares the file system
with it under a policy, reports what was added, removed and changed, and brings
the database up to date from the report or for a new policy. This directory
holds TLA+ modules that follow its code, TLC configurations that check them on
small instances, and proofs that TLAPS checks for every instance. Paths such as
`db/blockfile.cpp` are below `src/src/`.

`PROJECT.json` lists the components, the runs, the lines of code behind every
definition (`map`), deliberate errors that the properties catch (`mutants`;
where such an error needs a definition of its own, the module has it under
"Variant"), the hazards of the code with the properties that guard against
them, and the disagreements found between code and documentation.

Contents: 1 the system, 2 the modules, 3 what the runs show, 4 what is proved,
5 disagreements and observations, 6 the plan.

## 1. The system

Everything runs in one thread of one process per command. What makes the code
hard is not threads but: cached copies of what is on disk, pointers and iterators
that outlive changes made through others, objects with several owners, walks over
a file system that changes under them, text that is read once from front to back,
two or three descriptions of the same set of objects that must agree, other
processes (a mail server, an editor), and files that are overwritten in place.

```
  command line, configuration         core/cmdlineparser.cpp, tw/configfile.cpp
     |
  tripwire, twadmin commands          tripwire/twcmdline.cpp, twadmin/twadmincl.cpp
     |-- policy text -> rules            parser/, twparser, fco/fcospec*.cpp
     |-- walks and updates               tripwire/{generatedb,integritycheck,updatedb,policyupdate}.cpp
     |     |-- file system               fs/fsdatasourceiter.cpp
     |     |     `-- one object          fs/fspropcalc.cpp, fco/signature.cpp, core/{md5,sha,haval,crc32}.cpp
     |     `-- database of objects       tw/dbdatasource.cpp, tripwire/tripwireutil.cpp
     |            `-- tree of entries    db/hierdatabase.cpp
     |                  `-- records      db/blockrecordfile.cpp, db/blockrecordarray.cpp
     |                        `-- pages  db/blockfile.cpp, over an archive (core/archive.cpp)
     |-- report                          tw/fcoreport.cpp, fco/fcosetimpl.cpp, core/serializerimpl.cpp
     |     |-- edited by the user        tw/textreportviewer.cpp, core/displayencoder.cpp
     |     `-- mailed                    tripwire/{mailmessage,smtpmailmessage,pipedmailmessage}.cpp
     `-- files: keys, configuration, policy, database, report
           |                             tw/twutil.cpp, util/fileutil.cpp, twcrypto/keyfile.cpp
           `-- compressed and signed     twcrypto/cryptoarchive.cpp, bytequeue.cpp
  names of everything                 fco/fconame.cpp, fco/fconametbl.cpp
```

| component | state | operations | what is hard | what must be right |
|---|---|---|---|---|
| command line (`core/cmdlineparser`) | words, switches read so far | Parse, Init of every mode | which words belong to which switch | accepted exactly when well formed; every word goes where it belongs |
| configuration (`tw/configfile`) | lines, table of keys | ReadString, DoVarSubst | variables mean what they are worth at that line | the table is what the text says |
| start (`tripwire/tripwiremain`, `twcmdline`) | copy of the command line, settings of the mode | main, `FillOut...Info`, `Init` | settings from four sources override each other | what a command starts with is what it was told; no passphrase is in the copy |
| policy parser (`twparser`, `parser`) | preprocessor's stack, scopes, symbols, lists | one statement after the other, Finit | what comes later is not known yet; the lexer is a token ahead | the rules are those of the text read as a whole |
| names (`fco/fconame*`) | lists and nodes that names share, counts, the table | every call on a name | copy on write; comparison by address | a name is a value of its own; no leak, nothing freed too early |
| rules (`fco/fcospechelper`, `twparser/parserhelper`) | start point, stop points, recurse depth, mask | Add, SetStartPoint, Clone, ContainsFCO, ShouldStopDescent | stop points arrive in any order; two answers to "is it in the rule?" | the region of a rule is what the policy says |
| block file (`db/blockfile`) | archive, number of blocks, pages with block number, dirty flag and time, a clock that wraps | Open, Close, GetBlock, CreateBlock, Flush, SetDirty | eviction of a page a caller holds; failing writes and reads; the clock wraps | callers see one array of blocks; a page handed out survives one more request; Flush leaves the archive complete |
| record file (`db/blockrecord*`) | blocks with slots, offsets and packed data; an object per block, loaded when needed | Open, Close, AddItem, RemoveItem, GetDataForReading/Writing | data moves when slots are freed and filled; sizes to the last byte; a block creation that fails half way | a record keeps address and bytes; headers and objects agree |
| hierarchical database (`db/hierdatabase`) | linked lists of entries in records; iterators with a copy of one array | SeekTo, Descend, Ascend, CreateEntry, DeleteEntry, child arrays, data | copies of iterators while the tree changes; sorted insertion; addresses found through a cached neighbour | the records are a tree of sorted lists; each call changes one entry |
| database of objects (`tw/dbdatasource`, `tripwireutil`) | entries with an object or none | CreatePath, AddFCO, SetFCOData, RemoveFCOFromDb, child arrays | parents without data; removal that cascades upward | no entry for nothing, none lost |
| file system (`fs`) | directories, devices | stat, readdir, CalcProps | changes during the walk, failing calls, mount points | an object that cannot be seen gives an error, not a lie |
| properties of an object in the database (`fs/fspropset`, `fco/fcopropvector`) | values, which are valid, which undefined | InvalidateProps, CopyProps, copy, Read, Write | marks that outlive the property they are about | an entry says what was measured |
| one object (`fs/fspropcalc`, `fco/signature`) | what was stat'ed, opened and read; a context for each hash | VisitFSObject | writes between stat, open and each block; lengths at the edge of a unit; signatures used again | every digest is of the one text read; an entry shows an object that was there |
| generation (`generatedb`) | remaining rules, stack of iterators, database, errors | Execute, util_ProcessDir | rules inside rules in any order | the database is the snapshot |
| integrity check (`integritycheck`) | the same and a report | Execute, ExecuteOnObjectList, ProcessDir, Added/Removed/Changed | merging two sorted sequences; adjusting the objects it reports | each difference is reported once |
| report (`tw/fcoreport`, `fco/fcoset*`, `core/serializerimpl`) | nodes, sets, counts of references, the table of a serializer | AddSpec, AddChangedFCO, Insert, Remove, Read, Write | objects with several owners; read in the order it was written | nothing held is freed; a report says what it said |
| update (`updatedb`) | database, entries still to apply, errors | Execute | a report that is older than the database | what fits is applied, nothing else |
| policy update (`policyupdate`) | the check's state, both policies, conflicts | Execute, pruning | a check that rewrites the database, then an update from its report | the database is as the new policy would have made it |
| check command (`twcmdline`, `twcmdlineutil`) | report, chain of error buckets, mails, exit status | cTWModeIC::Execute, EmailReport | everything that can fail between the check and the report file | the status tells what the report holds; errors are under their rule |
| mail (`*mailmessage`) | the conversation with a server | Send of one message | answers late, in pieces or never | the command goes on; what was not sent is said |
| edit of a report (`tw/textreportviewer`) | a text file with a box before each object | print, edit, read, remove | names with any characters, lines the user spoils | what is left unchecked goes, nothing else |
| the files (`tw/twutil`, `util/fileutil`, `twcrypto/keyfile`) | key files, configuration, policy, database, report, their backups | commands of tripwire and twadmin | truncation in place, refusals half way, kills | old content is kept; what could be read still can |
| signed archives (`twcrypto/cryptoarchive`, `bytequeue`) | blocks, a queue of bytes, what the library holds back | Write, Finish, Read | text that ends anywhere in a block, reads that end anywhere in a node | it comes back as it was written |

### Not modelled
`cryptlib` (third-party), the tables that yacc and lex generate, the text layout of
reports and databases and the interactive explorers of `tw`, the string encoder of
`util`, conversions between character sets and error texts of `core`, one line to
syslog, the tests, the installer (which gives `Installation` its initial state),
templates and manuals: conversions, output and data without a state over time. They
are two thirds of the repository's lines, which is why the map covers the core
logic and not most of the lines. Of the modelled components, what is left out is
said with each module below.

## 2. The modules

Six abstract specifications or meanings stand beside the detailed ones, and where
layers lie on each other the upper one is built on the abstract lower one, so that
each step of the tower is checked once:

```
 BlockStore  <== BlockFile           (ImplementsBlockStore)
     ^ used by
 RecordStore <== BlockRecordFile     (ImplementsRecordStore)  uses BlockRecordArray
     ^ used by
 HierTree    <== HierDatabase        (ImplementsHierTree)             } MCDatabase
     ^ used by
 FcoDatabase, over FcoSpec (rules)
     ^ GenerateDb (over FileSystem), UpdateDb (over FcoReport)        } MCWriteDb
     ^ IntegrityCheck (over both), PolicyUpdate (+ UpdateDb)          } MCIntegrityCheck
     ^ ObjectListCheck                                                } MCIntegrityCheck
 one step of these, closer: Signatures, FsPropSet, ReportObjects      } MCWriteDb

 PolicyText  <== PolicyLanguage      (ParsesAsMeant)   over StopPoints, FcoSpec
 NameValues  <== FcoName             (ImplementsNameValues)           } MCPolicyLanguage

 CommandLine, ConfigFile (ReadsAsMeant), both under Startup
 CryptoArchive; Installation: the files and the commands              } MCInstalledFiles

 MailMessage -- CheckCommand; ReportEdit                              } MCCheckCommand
```

An MC module may hold several state machines that have nothing in common but the run:
a variable that never changes, or the initial state, says which of them a behaviour
drives, and the others stay as they are.

### BlockFile, BlockStore
`disk` is the archive, `mvPagedBlocks`, `mTimer`, `mNumBlocks` the members of
those names, `held` the page whose pointer the caller received last (GetBlock and
CreateBlock return pointers into pages that the caller writes through). Open,
GetBlock, CreateBlock, Flush and Close are one action each; `Modify` is the caller
writing through the pointer and calling `SetDirty`. A write that throws is
`GetBlockFails`, `CreateBlockFails` or `FlushFails`: the pages written so far are
clean, the clock has moved on, the rest is as it was. `BlockStore` knows no cache:
an array of blocks of which one may be changed. A block's content is one value.

### BlockRecordArray, BlockRecordFile, RecordStore
A block is kept to the byte: slots with offsets from the end of the block, the
guard entry behind the last slot, the packed data. `AddItem` moves the bytes above
the slot it fills (`MovedUp` is the memmove) and shifts their offsets; `DeleteItem`
gives up all unused slots at the top. The record file picks the block it added to
last, or the first with room, or creates one; `AddItemFails` is the block that was
created in the file while the pointer to it was lost. `RecordStore` is a function
from addresses to records.

### HierDatabase, HierTree
The record file is a function from addresses to nodes: array headers, entries,
data. An iterator is a record of the array header, the address, the entries it
loaded, its place and its path. The program hands iterators down its recursions by
value, so the state has a stack of them: `EnterDirectory` and `EnterFCO` push the
copies that `integritycheck.cpp` makes, `Return` drops them, and what the inner one
changes the outer does not hear of. `checked` records which objects
a check has already rewritten, since no client rewrites the same one twice.
Freed addresses are handed out again.

### FcoSpec, StopPoints
A rule is `[start, depth, stops, props]`, names are sequences. `CreateFCOSpecs` is
the policy parser's translation: every start point and every `!` name of the policy
below a rule's start point becomes a stop point of it. `StopPoints` is the class
`cFCOSpecStopPointSet` as a state machine, with `added` recording everything it was
ever given.

### PolicyText, PolicyLanguage
`PolicyText` says of a text as a whole, by looking around in it, which statements are
read, what a variable is worth and which rules there are, or that the text is
refused. `PolicyLanguage` is the lexer, grammar and helper: one statement a step,
with the preprocessor's stack, the scopes of attributes, the symbol tables of
sections and the lists; `Finit` makes the rules through `StopPoints`. The lexer's
look-ahead behind `@@ifhost` is part of it. Left out: escapes in strings, names put
together of several strings, `@@print`, sections of other systems than the one at
hand.

### NameValues, FcoName
`FcoName` has a table of counted nodes (a string and, case-insensitively, the node of
its lower-case form), counted lists of nodes and the names that share them. Every
call is an action: constructors, assignment, Push, Pop, Clear, destruction and
comparison. The order of nodes is that of their addresses, which the heap chooses
(`HeapOrders`). `NameValues` has a sequence for each name and shares nothing.

### FcoDatabase, FileSystem
The file system is a function from names to `[type, version]`; the version stands
for every property other than the type. `Disturb` creates, changes or removes an
object between two steps of a walk, and any call may fail; both count towards
`MaxFaults`. `FcoDatabase` has the operators of the database that the walks use,
over the two parts of `HierTree`: an FCO is a function from valid properties to
values. In a walk one object is stat'ed, hashed and compared in one step; an object
that is changed while it is being read is one that was touched during the run, of
which nothing is claimed there. `Signatures` looks into that step.

### Signatures
The properties of one object: stat (`DoStat`), then the hashes of a file read in
blocks or of a link, while others append to the object, write it anew or put another
in its place. Each hash function is kept to the byte up to its compression: the
count, the bytes of the last unit, the padding, the place for the length; what the
compression was given is a sequence, so that two digests are equal only if that is.
Signature objects may have been used before, as in siggen. A read is bounded by the
size the archive took when it was opened, or not at all with direct I/O. A read takes
its block at one moment; what stdio read ahead is not modelled, nor the 32 bits of
the lengths and the text of a digest.

### GenerateDb, IntegrityCheck
The recursion over directories is the stack `walk`. `ProcessSpec` enters a rule,
`OpenDir` reads a directory (it may fail or be gone by now), `ProcessObject`,
`AddedObject`, `RemovedObject`, `ComparedObject`, `SkipObject` treat one name,
`LeaveDir` returns. `FcoReport` has what is common to whoever makes or uses
reports: the entries, `CompareFCOs` with its flags, and `Expected`, the reference
definition of what a check has to say about one object if nothing changes.

### ObjectListCheck
`ExecuteOnObjectList`, the check of the objects that the command line names: one name
a step, in the rule that contains it, in no directory below it. `NotInSpec`, `NotInDb`
and `Compared` are its three ends. It keeps none of the flags it is given, and its
iterator takes the device of the object itself as its own. Each name is looked at
by one rule: `SpecContainsFCO` holds of one at most.

### FsPropSet
The property set of one object in the database as any sequence of commands leaves it:
generations, updates of the database after a check that may have ignored some
properties, updates of the policy in either security mode, while the object changes,
loses what can be hashed or gets it back. `entry` has the two vectors and the values
of `cFSPropSet`; `measured` remembers of each property what it was when it was last
recorded, and `threw` what the last command failed for. A vector of properties is a
set; that `cFCOPropVector` holds more than 32 bits in another way is left out, since
there are twenty. `CalcPropSet` cannot fail on `stat`: the iterator has set all fifteen
properties that `NeedsStat` asks about (`fs/fsdatasourceiter.cpp:229-280`) before
`VisitFSObject` sees the object, and the collision action is `PROP_LEAVE` in every
command (only the tests set it), so that the `stat` at `fs/fspropcalc.cpp:443` is not
reached. An object that the iterator could not stat keeps its type and nothing else;
that is `InvalidObject` in the walks, and not here.

### UpdateDb, PolicyUpdate
`UpdateDb` applies the entries of a `report`, rule by rule, added before removed
before changed, in any order among these: `was` is the database before, `updated` the
one it writes (`mDb`), `rules` and `reported` the rules and the file system the
report was made from. `PolicyUpdate` extends `IntegrityCheck`
(flags COMPARE_VALID_PROPS_ONLY, INVALIDATE_EXTRA_DB_PROPS, SET_NEW_PROPS),
reports conflicts, instantiates `UpdateDb` to apply the report, then prunes.

### ReportObjects
The objects behind a report and who owns them: rules and attributes from the parser
to the list and from the list to the nodes, objects made by the check, put into the
sets of a node, released; the editor's removals; the serializer that writes an object
once and then its index, and reads it back in another process. `lost` holds the
references the code is known to drop (section 5). `heap` is every object ever made
with its count. That one object is written twice does not occur in the program, where
each rule has attributes of its own.

### CheckCommand, MailMessage
`tripwire --check` from its first check to its exit status: each rule's walk, with the
queue of its errors spliced into the chain of buckets and taken out again; the
mails; the report file; the update that an interactive check goes on with; the
status. `MailMessage` is one message, as a conversation in which the client takes one
`recv` for one answer and the server may answer in pieces, late or never or end the
connection, or a mail program that may fail. Connecting, sending and running the mail
program are calls with no limit of time (the comment at
`tripwire/smtpmailmessage.cpp:126` has that as something to be done): their returns
(`OpenConnection`, `SendString`, `PipeMail`) are steps of the other side, in `ServerSteps`,
and `result = "calling"` is the state in between. Only `select` gives up by itself
(`TimeOut`). `brokenOff` and `told` remember what happened to messages, apart from the
flag `mailed`, which is what `EmailReport` makes of it. What a walk finds is a set of
kinds of violation.

### ReportEdit
The report is printed with a checked box before each object, the user edits lines of
the file, the file is read line by line, and what is unchecked is removed from the
list of each rule through the iterator the loop is walking with. Names are encoded
and decoded byte by byte, for one-byte characters.

### CommandLine, ConfigFile, Startup
`CommandLine` has the table of the switches of every mode of `tripwire`, `twadmin`,
`twprint` and `siggen`, and parses word by word; `Grouped` and `WellFormed`
say for the line as a whole how words belong together. `ConfigFile` says for a
configuration as a whole what each key is worth (`Meanings`, `Worth`, `Sound`), and
reads it line by line.
`Startup` is `main` of `tripwire`: the command line, the copy of it for the
reports with the passphrases starred out, the configuration, and what `Init` of the
mode makes of the four sources of a setting. Left out: SMTPHOST, SMTPPORT,
MAILNOVIOLATIONS and the other keys that turn something on or off, the directory for
temporary files, which file `-c` names, the normalisation in FullPath (a full path is
a name with its directory before it), modes of DEBUG builds. The error tests of a
mode's Init are one condition: which of several errors is named is not said.

### Installation
Each file is absent, damaged (truncated, partly written) or holds a content, and so
does its backup. A command reads what it needs in `Begin` and leaves a list of steps
to take: ask for a passphrase (may be refused), unlink and copy the backup, read a key
file again, truncate, write. It can be refused where the code asks or verifies, and
killed before any step. Which files a command touches, and in which order, is that
of `twcmdline.cpp` and `twadmincl.cpp`.

### CryptoArchive
A text on its way through deflator, sink, blocks, source, inflator, byte queue and
back, written and read in pieces of any size, with the end of the file lost or not.
The compression library may hold back as much as it likes; a byte of the text is the
position it was written at.

## 3. What the runs show

| run | instance | shows |
|---|---|---|
| `db` | pages: 2 over 3 blocks, 2 contents, clock modulo 4. Records: blocks of 13 words, records of one and two words, 3 blocks. Tree: 3 names, depth 2, 4 records besides the root | no block in two pages, clean pages equal the archive (`Coherent`); the page returned last survives the next request, but for the first page when the clock has just wrapped (`MostRecentKept`); Flush leaves the whole content in the archive (`FlushReachesDisk`); callers see an array of blocks (`ImplementsBlockStore`). Block objects equal headers, blocks stay valid to the guard entry (`RecordBlocksSound`); records keep address and bytes through deletion, refilling, reopening and failed creations (`ImplementsRecordStore`). The records are a tree of sorted lists with one owner each, and every iterator copy on the stack agrees with the disk but for what it may miss (`TreeWellFormed`); each call changes one entry (`ImplementsHierTree`) |
| `write_db` | every tree of 4 names in 3 levels with a mount point, 4 policies, 2 faults; for the update three policies and objects of two versions; one object of up to 9 bytes read in blocks of 4; one entry with three properties under every policy; two rules, two names, three objects looked at | untouched objects are recorded as they are by the one rule they are in, and nothing useless stays (`GeneratedIsSnapshot`); fitting entries of a report are applied, others refused, nothing else changes (`EntriesApplied`); a whole report gives the database that generation would (`UpdateIsGenerate`); both end (`CommandEnds`). Every digest is of the one text that was read, and all or none are there; size, text and type of an untouched object are of one moment; a file that grew is hashed as it was at the opening or, read directly, with a part of what was added; (`DigestsOfText`); through any sequence of commands an entry has the properties of its policy and says of each what was last measured (`EntryIsAsMeasured`). Each object has exactly the references somebody holds (`ReferencesOwned`); a report that is read says what it said (`ReportReadBack`) |
| `integrity_check` | every pair of such trees, loose directories, 2 faults; lists of one or two names over the trees with a directory inside, 1 fault; for the policy update every pair of trees and of 4 policies, 1 fault | the report says of each untouched object exactly its difference, of none twice; a check of listed objects says of each of them what a check of everything would, if that is a change or nothing, and leaves an error otherwise; nothing is made up without an error beside it (`ReportsRight` and `PhantomHasError` in a policy update, `CheckAndListRight` in the check by itself and that of a list); the database ends as under the new policy (`DbUnderNewPolicy`); the conflicts are those both policies watch, and the update refuses nothing, loses nothing and keeps nothing useless (`TakenOverTidily`); all end (`CommandsEnd`) |
| `policy_language` | every text of up to five statements (six of directives) out of four sets; three names, two texts, two orders of the heap | stop points stay unrelated (`StopsUnrelated`), the region is what was given (`StopsAsGiven`), a walk never leaves what ContainsFCO says (`WalkStaysInside`); the parser accepts what it should and makes the rules that the text as a whole means (`ParsesAsMeant`); counts are the references, and comparing addresses is comparing strings (`NodesShared`); names are values (`ImplementsNameValues`) |
| `installation` | every 3 commands, 2 policies, 2 passphrases, refused or killed anywhere; texts of up to 7 bytes over blocks of 3 and nodes of 2; every command line of up to 4 words after the mode with two configurations, 7 command lines with every configuration of five usual lines and one or two others | old content is in the file or its backup until the next command (`OldContentKept`); a refusal leaves files as they were (`RefusedLeavesFiles`); what could be read still can (`StillOpens`); a policy update repairs what a killed one left (`UpdatedPolicyChecks`); reads give what was written (`ReadsWhatWasWritten`); a command line is accepted when it is well formed, and its words go where they belong (`ParsesAsGrouped`); what a command starts with is what it was told, and no passphrase is in its copy of the command line (`StartsAsTold`) |
| `check_command` | two rules or a list of three objects, one error of the walks, every behaviour of the server for each message; reports of names of up to two awkward characters, two changes by the user | every error of a walk is in the report under its own rule, once and in order (`ErrorsUnderTheirRule`); a status without the error bit means that the report was written, that no `Send` was left by an error, and that the report has every rule that was to be checked or the program's queue the exception that cut the check short, and its other bits are the violations in the file (`StatusTellsReport`; it says nothing of a `Send` that returned false, which the code does not notice, see section 5); if the status means that mail was sent, everybody whose rules have violations and every global address was sent one that the server took, unless an answer came late or in pieces, or the report could not be read or the host name not found (`QuietMeansTold`); exactly what is unchecked goes (`EditAsMarked`); the command ends, unless from some moment on it is in one call that the other side does not let return (`CheckEnds`) |
| `block_file_read_failure` | as `db`, and the read of a page may throw | **violated** (`CleanMatchesDisk`): the page keeps the new block number with the old block's bytes, and the next request for it returns them |
| `policy_update_depth` | a new policy with a limit of the depth | **violated** (`DbUnderNewPolicy`): pruning asks ContainsFCO, which does not know the depth, so objects below the limit stay |
| `policy_language_skipped` | directives and a quoted name | **violated** (`SkippedIsSkipped`): the first token of a block for another host is read ahead and its variables are looked up, so that skipped text refuses the policy |
| `installation_encrypt` | one command | **violated** (`EveryOverwriteBackedUp`): `twadmin --encrypt` and `--remove-encryption` truncate files with no backup, against `twfiles.5` |
| `check_mail` | as `check_command` | **violated** (`MailFailureKeepsReport`): a connection that is reset while the server is answering throws what nobody catches before the report is written |
| `check_interactive` | as `check_command` | **violated** (`StatusTellsChanges`): the status is made from the report after the user edited it |

### Bounds, and why they are enough
* Two pages are the least the code allows and make every request an eviction when
  three blocks exist; a clock of four values wraps within a behaviour as short as
  five requests. (The proofs hold for any numbers.)
* A block of 13 words holds two records, or three if each has one word, so that a slot is freed and filled
  again under another one, a block is full to the last byte, and all three blocks are
  needed.
* Three names give an entry with neighbours on both sides, which insertion and
  deletion treat apart; four records are few enough that freed addresses are reused
  at once; two levels give every pair of outer and inner iterator.
* Three levels of names are the least in which a rule lies inside a rule with a
  directory between; the trees include every shape over them, in `integrity_check` with a
  file innermost. `MaxFaults = 2` allows
  two changes, two failed calls, or one of each at any two moments; one in the policy
  update, whose state is larger.
* Units of 2 and 4 bytes in blocks of 4 stand for 64 and 128 in 4096: a block is a
  whole number of units, and lengths of 0, 1, 3, 4, 8 and 9 leave every remainder,
  among them those at which the length no longer fits the last unit, and end a text
  with a full block. A text grows to 9 bytes at most, so that reading it directly
  ends; nothing is claimed of that.
* Three objects looked at are enough for one name added twice, an old and a new
  version, and an object that cannot be made again; two rules for one that is trimmed.
* The sequences of commands on one property set are not bounded: its state is finite.
  One property of `stat` and two hashes let one hash be given up and the other kept.
* Lists of two names have an object twice, and an object with one above it in both
  orders; names do not influence each other otherwise.
* Texts of a policy are long enough for an `@@ifhost` with both branches around a
  statement and one behind it, for a section that is begun, left and begun again, and
  for two scopes one in the other; for rules below, above and beside each other.
* Three names are two that share and a third that is compared with both.
* Three commands are one that breaks off, one that runs on what it left, and one that
  reads the result. `MaxPairs` bounds key pairs made and is reached only by
  GenerateKeys twice.
* Seven bytes through blocks of three leave every remainder; nodes of two are used up
  by single reads and shared by others; four bytes at once reach over two nodes.
* A command line of four words behind the mode has a switch with its word between two
  others. Each of the switches that a mode treats in a way of its own is in a set.
* Symmetric are the addresses of entries (`db`), the handles of names
  (`policy_language`), policies and passphrases (`installation`). The runs with a
  liveness property use no symmetry.

### Fairness
The program is one thread that no lock holds up, so its own next step is weakly
fair: `GenerateAll` and `Update` in `write_db`, `Command` (the next step of the check, of
the check of a list or of the policy update) in `integrity_check`, `CommandStep` in
`check_command`. Nothing is assumed of
the others: `Disturbed` (the file system) happens or not within `MaxFaults`, the mail
server answers or not, lets a call return or not, the user edits the report or not.
`CommandStep` has of the mail what the client does by itself: it starts a message, takes
what has arrived, gives up a `select` after sixty seconds, and comes back from a `send`
on a connection that was reset. The returns of `connect`, of the look-up of the server's
name, of `send` on a connection that stands and of the mail program are in `ServerSteps`,
for which no fairness is stated; `CheckEnds` therefore says that the command ends or is
held for ever in one of these calls (`Held`), and so that nothing else holds it up. Both
happen: a peer that lets nothing return keeps the command, and its report, for ever.
The other modules state no fairness, since the caller is free to make no further
call; of a direct read of a file that grows for ever no end is claimed. Deadlock is
not checked in runs whose system ends (a walk that is finished, a closed block file,
the last command).

### Assumptions
* One command at a time. No file is locked (`tripwire/twcmdline.cpp:1766` reads the
  database that is written at the end), and two commands at once can lose an update.
* The text given to a policy update is not edited while it runs:
  `UpdatePolicyFile` (`tw/twutil.cpp:447`) reads it a second time.
* `OldContentKept` reaches to the next command and no further. A change of
  passphrases that is killed while it writes and then run again copies the damaged
  key file over the only whole backup before it finds out
  (`twadmin/twadmincl.cpp:2340`).
* An error of a write is noticed when the write is made. `cFile::Close` ignores what
  `fclose` returns, so a backup (or a file) whose last buffered bytes could not be
  written would be taken for whole; the model has no such step, and `OldContentKept`
  says nothing of a disk that fills up there.
* What the tree wrote can be read again. An entry that cannot be read ends the list
  in memory (`db/hierdatabase.cpp:294`), and one created behind it would take the rest
  off the list; the tree is modelled over records that keep their bytes, which
  `ImplementsRecordStore` shows of them.
* Names are compared as the file system gives them; letters of equal case, except in
  `FcoName`, where both kinds of comparison are modelled.

## 4. What is proved

**DatabaseFile_proofs** has the two layers of a database file. Of `BlockFile`, for every number of pages (at least two), width of the clock
(at least two values), file length and set of contents:
`TypeCorrect` (`Spec => []TypeOK`), `CacheCoherent` (`Spec => []Coherent`) and
`PointerOutlivesOneRequest` (`Spec => MostRecentKept`). Coherence alone is not
inductive. The invariant `IInv` adds that the archive has the remembered length
(`Sized`), that nothing is paged in before Open (`Untouched`), that bound pages are of
existing blocks and only bound pages are dirty (`Bound`: otherwise an unbound dirty
page would never be written), that no timestamp is later than the clock (`Past`) and
that the page returned last alone carries the clock's time unless it stands at zero
(`Recent`: this is why eviction, which takes a least timestamp, cannot take it). At the
wrap and at the request after it all timestamps are zero, and eviction takes the first
page: so the theorem excepts that page, at these two moments, and nothing else. There
is a lemma for a hit, a miss, a failed eviction and a flush of any set of pages; the
actions are instances of those.

It proves from that invariant
`BlockFileIsBlockStore` (`Spec => ImplementsBlockStore`) and `FlushCompletesArchive`
(`Spec => FlushReachesDisk`). What callers see, `Contents`, is described by `Shows`:
the data of the page a block is in, and the archive for blocks in no page. Pages and
archive determine it (`ShownOnce`), so that a step's effect is found by checking that
the content it should have is still shown: unchanged by a hit, a miss, a flush and a
failure, extended by CreateBlock, changed in the held block by Modify.

Of `BlockRecordFile`, for every size of a block, a header, an index entry, a word
and a margin, any set of records and any number of blocks: `RecordBlocksStaySound`
(`RecordFileSpec => []RecordBlocksSound`) and `RecordFileIsRecordStore`
(`RecordFileSpec => ImplementsRecordStore`). The invariant `RecordFileInv` says that a block is
blank, and then was created when it could not be paged in and has no object until the
next Open, or `Sound`: header, index and gap are what `Sealed` makes of its slots
and bytes, the offsets ascend, an unused slot is empty and a used one holds a word at
least, the top slot is used, and index and data fit. That there are at most `MaxRecords`
slots has to be proved of the block that AddItem leaves, since the free space leaves room for the
next entry and not for a smallest record behind it; it follows because the top is used
and slots below it are filled first (`UsedSlotsTakeRoom`, `FirstUnused`: an unused slot
is taken before a new one is made, so that when the top slot is new all below are used).
What a block holds is a function of its slots (`Holds`); the lemmas on a grown, a shrunk and
a rewritten index say that exactly one slot of it changes (`ItemAdded`, `ItemDeleted`,
`ItemWritten`), byte by byte for those that were moved, and `Effect` says so of the file.
A step of the file is then one of `RecordStore` at that address.

**RulesAndProperties_proofs** has the two sides of a rule. Of `StopPoints`, for every set
of names: `StopPointsUnrelated`,
`RegionAsGiven` and `WalkKeepsToRegion` (`Spec => []WalkStaysInside`). The invariant
says of every name, not only of those below the start point, that it is at or below a kept stop point exactly when it is at or below
one that was given (`SameRegion`), because the start point can be moved up
later. It rests on two lemmas: that "at or above" is a partial order of
names, and that the prefixes of one name are related.

Of `FsPropSet`, for every set of properties, of values and of policies:
`EntrySaysWhatWasMeasured` (`PropSpec => []EntryIsAsMeasured`). The invariant adds
what becomes of the marks that nobody reads (`MarksRemembered`): a property marked
undefined that is no longer valid was undefined when it was last recorded. That is
why an update fails only over such a property. There is a lemma for a calculation, a
copy, CopyProps, a record and the trimming, and one for each command.

Of `Signatures`, for texts, blocks, units and buffers of any size, any number of writes by
others at any moment and signatures that were used for another text or not:
`DigestsAreOfTheText` (`HashSpec => []DigestsOfText`). A context keeps a text (`Kept`) when
the text is whole units and a rest, the compression has been given exactly these units, the
rest is where the count says, and the count is the length. Each update keeps the text with
what was added (`MD5UpdateKeeps`, `haval_hashKeeps`; `shsUpdateKeeps` only when what came
before is whole units), a start keeps the empty text whatever the bytes of the last unit are
(`StartedKeeps`), and the end gives the padded text (`MD5FinalDigests`, `shsFinalDigests`,
`haval_endDigests`, by a lemma each on a rest that leaves room for the length and one that
does not). `HashInv` adds that all blocks but the last are whole (`Hashing`), so that the
last call alone may have a part of a unit. For the text itself it says that what was read of
a file that only grew is its start, no longer than the archive's size unless read directly
(`ReadsFile`, `PieceGoesOn`), that a link's text was taken whole (`ReadsLink`), and that an
object nobody touched has the type the iterator saw (`Untouched`).

**Installation_proofs**, for every number of commands, policies, passphrases and
keys: `OldContentSurvives` (`Spec => []OldContentKept`). The invariant `Covered(f)`
looks ahead at the steps a command still has to take: while one of them touches the
backup of `f`, `f` is as it was; and either the backup is already what `f` was and stays, or
each step that touches `f` comes after one that copies it. That the steps of every
command are so ordered (`Careful`) is put together from its parts: a lemma for asking,
backing up, overwriting, and two for joining sequences. The encrypting and decrypting
commands are the exception, and the run `installation_encrypt` shows that they are one.

`RefusalLeavesFiles` (`RefusedLeavesFiles`), `WhatOpenedOpens` (`StillOpens`) and
`PolicyUpdateChecks` (`UpdatedPolicyChecks`) share an invariant, `FInv`, which looks
ahead in the same way. `Planned`: a step that truncates a file is followed by the one
that writes it, and no passphrase is asked for once a file has been touched that the
command is not done with by then. `Untouched`: what has not been reached is as it was,
and nothing is half written but between those two steps. `Serving`: whatever is or
will be written over a file that could be opened can be opened with the key it is
opened with now; key files keep their pairs except in GenerateKeys, which leaves the
signed files alone and the old key in the backup (this part rests on
`OldContentSurvives`). `Updating`: the policy and the database an update has written or
has still to write are of one policy. Of a killed command the invariant says nothing,
and no command relies on what an earlier one left.

**CheckCommand_proofs**, for every list of rules, every table of addresses, every set of
findings, any number of errors and every behaviour of the mail server:
`ErrorsSorted` (`Spec => []ErrorsUnderTheirRule`), `StatusTellsTruth`
(`Spec => []StatusTellsReport`) and `NobodyForgotten` (`Spec => []QuietMeansTold`). For
the first the invariant has the shape of the chain (`Chained`: between two walks the
bucket of the check is chained to the queue of the program, during one to the queue of
the rule and through that to the program's; after an exception it is left as it was and
no rule may be left to walk) and the numbers of the errors (`Numbered`). A chain is the
least set closed under `child`, so that no induction is needed. For the second it says
what the report has at each phase (`Walked`, `Saved`, which ties the flag `mailed` to
`brokenOff`): what is proved is about the messages that an error broke off; one that
`Send` gave up by returning false is no part of it, since the code does not look at that
result and the status does not tell (section 5). For the third it says who still
is among the recipients (`Telling`) and where client and server are in their
conversation (`MailInv`): as long as every answer came in one piece and in time, the
client is never more than one answer behind, so that a last "ok" is the server's answer
to the text. Messages that `Send` gave up are excepted here too, and so are those with a
late answer or one in pieces, after which the client may take any answer for any other.

**HierDatabase_proofs** has the tree that is kept in the records, for any addresses,
names, payloads and depth, and any stack of iterators: `TreeStaysWellFormed`
(`TreeSpec => []TreeWellFormed`) and `RecordsAreTheTree` (`TreeSpec => ImplementsHierTree`).
Records only imply which list an array has and where it lies, by chains of links; so the
invariant names both. `TreeInv` says that there are an `L`, the addresses of the entries of
each array, and a `P`, its path, for which `TreeHolds`: the links follow `L` in the order of
the names, each entry is in one list, each child array lies below the entry that has it, at
that entry's path, and each payload has one entry (`Forest`); each iterator is in the array
of its path and its copies are those of the list, but for data that was rewritten by the
check of that object (`Fits`); and iterators further down the stack are in arrays above, but
for the copy that `ProcessChangedFCO` makes of its caller's (`Nested`). The last two are why
an address that is taken from the copy of the entry before (`CurrentAddr`) is the entry's
own (`CurrentFacts`), and why a change through the top iterator leaves the others fitting:
an edit changes one array and its links, and that array is above none of them. With `L` and
`P` named no fact about chains needs an induction, except that reading a list follows it
(`ReadsSegments`, `ListRead`), by the smallest length for which it would not. For the
refinement `PlacedIs` and `DataRead` say that what is read from the root down is each
entry of `L` at its place in `P`; then each operation is shown to add, drop or
change one of these places (`OneMoreShown`, `OneLessShown`, `OneShownOtherwise`), and
all others to leave what is seen as it was.

**FcoDatabase_proofs** has what the walks over objects rest on: names are ordered by "at
or above" and each has one child of the name above it on the way down; what a directory
holds comes in ascending order; a snapshot is a tree of entries. `OneRuleReaches` is of
interest by itself: the rules made of a policy divide the objects among them. A rule's
stop points cover all start points below its own, though `AddTo` drops those that others
cover, and so the walk of the outer rule ends where the inner one begins. Of databases it
has what each operation does to the FCOs (`SameBut` one name, or `Same`) and to the shape
(`IsDb`: every entry hangs from the array of an entry; `Tidy`). The climb of
`RemoveFCOFromDb` is a fold; that it leaves no array empty (`ClimbFacts`) is proved by a
least turn of the loop for which it fails, with the one place where an array may still be
empty moving up (`TidyBut`). A tidy database is known by its FCOs (`SameTidy`): an entry is
there because it is one or has one below it, which the longest name below it shows.

**WriteDb_proofs** has the two ways in which the entries of a database come about. Of
`GenerateDb`, for every tree over any names, every policy, any mounts, every
order of the rules and any number of changes and of failing calls at any moment:
`TypeCorrect` (`Spec => []TypeOK`) and `GeneratesSnapshot`
(`Spec => []GeneratedIsSnapshot`, that is `UntouchedRecorded` and `NothingUseless`).
The invariant follows the walk as that of `IntegrityCheck` does, with one side to walk:
of what is still to come the database has nothing, of the rest it has what is right
(`Right`: an object that nothing happened to, with no error at or above it, is recorded as
it is, or is not there). Two rules do not disturb each other since no object is reached by
two (`OneRuleReaches`), and since entering a start point below another
(`CreateAndSet`) makes entries without data above it, which are filled in later or stay
because something hangs from them. For `NothingUseless` the invariant says (`Shape`) that
an array without children is one of a directory on the stack or about to be opened. It
also says that such a directory is an entry with data and an array (`DirOK`): that
is why `LeaveDir` may drop the array and leave the entry, and why what is entered below it
hangs from something even when the directory itself is gone by then. `GenerateAssumption`
says of each file system it may start from that it is a tree, and of each policy what
the parser lets through. TLC checked the invariant on the instance of `write_db` before
it was proved.

Of `UpdateDb`, for every policy, any trees for the time of the report, of the
database it was made from and of the database it is applied to, any part of the report,
any ignored properties and all flags: `UpdateTypeCorrect`, `AppliesWhatFits`
(`UpdateSpec => []EntriesApplied`) and `UpdatesAsGenerated`
(`UpdateSpec => []UpdateIsGenerate`). What is said of the end of an update follows from
what holds after any part of it (`UpdateInv`):
under every name that no fitting entry has been taken for, the database is as it was
before (`Untouched`), under the others it has what the entry says (`Applied`), and it is
tidy. An entry is judged by the database it meets, and that this is as if it were judged
by the one before the update is because no two entries are of one name
(`OneRuleReaches`) and no step disturbs another name, the removal of parents included
(`RemovedFromDb`); so the order of rules and kinds, which the guard `IsNext` has, is not
needed. From a whole report the update makes a tidy database with the FCOs of the
snapshot, and so the snapshot itself. `UpdatesAsGenerated` assumes that the check compares
all properties of directories: with `LOOSE_DIR` some differences are not reported, and the
database keeps what a generation would not.

**IntegrityCheck_proofs**, for every tree over any names, every policy and the one the
database was made under, all flags, loose properties and mounts, any number of
changes and of failing calls at any moment: `TypeCorrect` (`Spec => []TypeOK`),
`ReportIsRight` (`Spec => []ReportsRight`: `UntouchedReported` and `ReportedOnce`) and
`NoPhantomWithoutError` (`Spec => []PhantomHasError`). None is inductive, since they
speak of what a finished walk has done. `IInv` follows the walk. Of each object that a
rule reaches it says (`Status`): before the rule's turn it is not in the report and
the database has it unchanged (`Fresh`); while it is still to come, on the side of the
database or of the file system (`OldToCome`, `NewToCome`: below a directory to be opened,
or at or below a name left in a directory being merged), it is `Fresh`, and if it is to
come on one side only then the other has nothing of it (`Awaited`); otherwise it is
reported as it should be (`Right`). The walk can only drop an object from a side, without
reporting it, when that side has nothing of it, when it was touched, or when an error at
or above it is recorded, and each step's lemma shows that. Two further parts make this
inductive. `Nested`: each directory on the stack lies below a name that the one outside
it has already passed, so that taking a name from the innermost changes nothing for the
rest. `WalkOK`: names still to come are sorted, those of the database are its entries,
those of the file system are there or were touched. The merge compares only heads, so
that being sorted is what makes a name that comes first on one side absent on the other
(`MergeFacts`). `ReportedOnce` follows because a step reports only what is `Fresh`, and
because no object is reached by two rules. The invariant was checked by TLC over the
instance of the run before it was proved. The flags of a policy update are included: the
database then has of each object that was dealt with what the adjustment leaves
(`RightFco`), what an entry of the report says there was is what the database has now, and
every object of the database is as it was or adjusted to something that was looked at
(`Fitting`). The check by itself does not need these two; the update of a policy does.

The second part of the module continues with policy updates, for all file systems,
mounts and pairs of policies, any number of changes and of failing calls during the check:
`TakesOverWhatIsUntouched` (`PUSpec => []` of `NothingRefused`, `UntouchedTakenOver` and
`NoUselessEntries`), `RewritingCheckIsRight` (`ReportsRight` and `PhantomHasError` of a
check that rewrites the database as it goes), `LeavesNewDatabase`
(`PUSpec => []DbUnderNewPolicy`) and `TakesOverTidily` (`PUSpec => []TakenOverTidily`).
Until the check is through `PUInv` is the invariant of the check. From then on it says that
each entry still to be applied says of the database what is true of it (`Ready`), and that
every name without such an entry already has its `Result`. Both hold at the start:
what is in the report is there because both sides differ in properties that both have, and
where they do not differ the adjusted object is the one the new policy asks for
(`AdjustedAlike`). Both are kept since no two entries are of one name and an applied
entry changes its own name only (`AppliedTo`), so nothing is refused. Pruning takes nothing
that a rule reaches, because a rule contains what it reaches (`ReachedIsContained`). The
converse is false with a limit of the depth, as the run `policy_update_depth` shows, and is
what `NoDepthLimit` is assumed for in the last two theorems: no rule has another depth
than zero or unlimited. `Undisturbed` is why "nothing happened" can be said as `faults = 0`.

The assumptions are those in `ASSUME` of `BlockFile`, `HierDatabase` (the root has an
address, the null link is none, names are numbers, an entry without data is told from every
payload), `StopPoints`, `Installation` (an
absent or damaged file is told from one with a content; there are two pairs of keys to
begin with) and `CheckCommand` (rules are told from the buckets that are no rules),
`PropAssumption` of `FsPropSet`, `SignaturesAssumption` of `Signatures` (a block is whole
units of either size, as 4096 bytes are of 64 and 128, and a unit is larger than what
is kept at its end for the length), `FileTreeAssumption`, `GenerateAssumption` and
`CheckAssumption` (finitely many names, none of them empty; a file system is a tree; a
policy has finitely many rules and exclusions, and a depth that is a number or
unlimited, which is what the parser lets through, `twparser/parserobjects.cpp:259`),
`UpdateAssumption` and `PolicyUpdateAssumption` (the same of the file systems and policies
of an update, that an entry without data is told from every FCO, and, of a policy update,
the three flags its check is given), and `RecordFileAssumption` of
`BlockRecordFile` (a record fits an empty block and is no smaller than a word, which
`AddItem` asserts and `MAX_RECORDS` supposes; the margin is at least an index entry);
the passing runs evaluate them.

**Only model-checked** is everything else in the table of the runs:
the check of a list and what is done with a report, the policy language and
names, the command line and the configuration, the editor of a report and archives.
Liveness under fairness and ENABLED are out of the prover's reach, and so is what a
recursive function computes for all inputs (the prover has no induction over data):
`ListFrom`, the parsers and the folds stay with TLC for that reason. Two are
exceptions, because a smallest counterexample can be named instead: the fold over a
set that makes the stop points of a rule covers what it is given (`FoldCovers`), and
following the links of an array reads its list (`ListRead`). Modules that are proved about declare no RECURSIVE operators, with which the
prover loses its arithmetic.

## 5. Disagreements and observations without a run

What was met while reading, and is either outside the models or not a claim that a
run could refute. Places are under `src/src/`.

Policy language and names
* A section GLOBAL behind a skipped section, or behind another GLOBAL, is itself
  skipped. `@@end` and `@@print` inside GLOBAL are syntax errors. An attribute that is
  not known refuses the policy even in text for another host. `twpolicy.4` says that
  any other argument "will cause an error" where the code warns.
* Property masks: the search for the next delimiter ignores `+` and `-` unless an `&`
  follows.
* The mail addresses of a rule are added to those of the scopes around it; of every
  other attribute the innermost value counts. `PolicyText` says so as well.
* Assigning a `cFCOName` to itself, and `cFCOSetImpl::operator=`
  (`fco/fcosetimpl.cpp:83`), which adds to what the set holds and counts a reference
  of an object that `insert` then refuses, have no caller that would notice.
* `cFCOSpecStopPointSet::Clone` and `Write` drop the recurse depth, so that the rules
  of a report have none. `StopPoints` models Clone so.

Databases and walks
* A `cBlockFile` that is closed and opened again on another archive would keep its
  pages; no client does, and `Open` is modelled for a new object only.
* A comment in `fs/fsdatasourceiter.cpp` (line 219) says that an object of another file
  system is not created; it is, without a type, and entered into the database. The
  walks model this.
* `InvalidateProps` leaves the mark that a property is undefined, and `Write` stores
  it. When a later policy asks for the property again and it now has a value,
  `CopyProps` copies that into the one undefined property, whose `Copy` throws
  INTERNAL_ERROR (`fco/fcoundefprop.cpp:126`). So: hashes of an object that has none
  (a directory, a file that cannot be read) are recorded; a policy update gives them
  up; the object becomes one with hashes; a policy update that asks for them again
  ends with an internal error, and does each time until another change of the object
  is accepted or the database is made anew. `FsPropSet` has this as `CopyThrows`,
  and `threw` is not always empty: TLC needs four states for it. `RemoveItem` in
  `CopyProps` never removes anything.
* `ExecuteOnObjectList` says of an object that was removed that it cannot be
  stat'ed and not that it was removed, of one that was added that the database does
  not have it, and ignores `--loose-directories`. It reports a mount point that is
  named as changed though nothing happened: a walk enters it without its properties,
  since it is on another device than the start point, and the list takes its device
  as the iterator's own. `ListedAsInWhole` excepts mount points. An object given twice on the command line, as `obj` and as
  `obj/`, is put into the report twice, whose edit then fails.
* References: the early return of `ProcessChangedFCO` (`tripwire/integritycheck.cpp:174`)
  does not release the old object, and `cFCOSpecListAddedIter::Remove` releases neither
  rule nor attributes, although an object "will delete itself when it runs out of
  owners". `ReportObjects` keeps both in `lost`, and `ReferencesOwned` says that
  nothing else is left.
* `textreportviewer.cpp:1098` erases from the list it walks; `ReportEdit` models it.

The check command and its mail
* "If any sort of exception escapes the IC, make sure it goes in the report": it goes
  to the program's queue only. The manual (`man/man8/tripwire.8:567`) gives the 8 of the
  exit status as "Error(s) occurred during the check"; it is set when mail fails and never
  by errors of a walk or by an exception that ends the walks before all rules are
  checked. `ExitStatus` has it so: a check that could not read a directory may end with 0.
  The manual's lines for 2 and 4 both say "modified".
* `EmailReport` is said to return false "if any send operation failed"
  (`tripwire/twcmdlineutil.cpp:659`). `EmailReportTo` does not look at what `Send` returns
  (line 615), which is false when `gethostname` fails and nothing is sent
  (`tripwire/smtpmailmessage.cpp:339`), and when the report cannot be read back and the
  message goes without it (line 405): in both cases the status has no 8. `MailHasEnded`
  has it so (`mailed` depends on "thrown" alone, not on "unsent"), and the properties of
  `check_command` claim nothing of these messages.
* A comment in `EmailReport` promises a `return false` that no path takes. A passphrase
  that is refused after the mails were sent loses the report.
* SMTP: the client is to "see if the last command we sent was accepted"
  (`tripwire/smtpmailmessage.cpp:467`); after a minute of silence it reads a buffer that
  nothing was written to in this call (line 515), and goes on if an earlier answer is
  still there. An answer in two pieces puts the client one answer behind for good; QUIT
  has no line end; an exception skips `CloseConnection`.

Command line, configuration, files
* `tripwire --check -m u` runs the check and ignores the second mode. `-m t` does not
  ask for TEST_EMAIL as `--test` does (`Init` refuses later).
* `TestDependency` asks the finished iterator for its word when two switches need each
  other and only the second is there; no mode registers such a pair. `twadmin --remove-encryption` registers one mutual
  exclusion twice (`twadmin/twadmincl.cpp:954`). A comment says that three switches
  exclude each other where two do. `-P` is said to be valid with `-I` or `-E` only.
* LATEPROMPTING and LOOSEDIRECTORYCHECKING are compared without regard to case, and the
  manual says otherwise. A `$` not before `(` is lost. SMTPPORT above 32767 is refused.
  `twprint` does not make SITEKEYFILE a full path.
* `cFileUtil::BackupFile` says it renames and may return false; it copies, and returns
  true or throws.
* The refusals in `twadmin --create-cfgfile` (`twadmin/twadmincl.cpp:455`) return
  false, which the caller takes for exit status 0.

Archives, hashes, containers
* A bulk Get of `cByteQueue` keeps its last node even when that is used up. After a Put
  that opened the next node, Get of one byte and Peek find the used-up one at the head
  and return nothing, and the size goes down all the same. Archives only use bulk Get. `cFileArchive::Read` without a destination reads into four bytes whatever
  the count. A maximal size is enforced in DEBUG builds only. When the disk is full the
  destructor of the archive writes once more.
* `EOF` is not thrown by `cCryptoArchive::Read` as its header says; the count is short.
* `shsUpdate` loses a partial unit that more text follows, and `iSignature::Update` says
  that it takes "data of any size". All callers pass whole units but for the last.
  `Signatures` has exactly those callers.
* `crc32` counts the length in 32 bits, so that from 4 GB on the result differs from
  POSIX `cksum`. A direct read drops the bound that the size at the opening sets.
* A link whose text is too long is reported with the error of a call that succeeded.
* `cHashTable::Remove` looks at the head of a chain only and drops all of it; only the
  table's own tests call it.

## 6. Plan

Done: block file, record file, tree, rules, generation, check, update, policy update,
files; policy language, names, check command with mail and editor, archives, command
line, configuration, hashing, references and serialising of a report, property sets, the check of listed objects. Next, by
importance:

1. Theorems: `ReadsWhatWasWritten` for every size of block; `ReferencesOwned`;
   `ReportReadBack`; `NodesShared`.
2. Several policy updates in a row over a tree, each from what the last left
   (`FsPropSet` has that for one object).
3. The hash table, the remaining archives, and the text of a
   report as far as `twprint` promises to show all of it.

The map will stay below a third of the repository's lines: two thirds of them are
`cryptlib`, generated tables, layout of text, conversions and tests, which have no state
over time to model.
