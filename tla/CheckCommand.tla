---------------------------- MODULE CheckCommand ----------------------------
(* tripwire --check from its beginning to its exit status                   *)
(* (cTWModeIC::Execute, tripwire/twcmdline.cpp): the rules are walked, with *)
(* the errors of each walk handed along a chain of buckets; the report is   *)
(* mailed to whom it concerns (cTWCmdLineUtil::EmailReport) and only then   *)
(* written; the user may update the database from it; and the exit status   *)
(* is made from the report.  What a walk finds in the file system is        *)
(* IntegrityCheck's; here it is only which kinds of violation.              *)
EXTENDS MailMessage, SequencesExt, FiniteSets, TLC

CONSTANTS Rules,            \* the rules of the policy, in the list's order
          NoRule,           \* the rule of an object that no rule contains
          EmailTo,          \* for each rule its emailto addresses
          GlobalEmail,      \* GLOBALEMAIL of the configuration file
          MailNoViolations, \* MAILNOVIOLATIONS
          Findings,         \* sets of kinds of violation a walk may find
          Checks,           \* what may be checked: the rules that are left of
                            \*   the list, or the rules of a list of objects
          MaxErrors         \* errors that walks add

Rule  == ToSet(Rules)
Buckets == Rule \cup {NoRule}    \* those that can be chained to others
Kinds == {"added", "removed", "changed"}

ASSUME CheckCommandAssumption ==
  /\ NoRule \notin Rule /\ (Rule \cup {NoRule}) \cap {"queue", "none", "escaped"} = {}
  /\ EmailTo \in [Rule -> Seq(STRING)] /\ GlobalEmail \in Seq(STRING)
  /\ Findings \subseteq SUBSET Kinds
  /\ Checks \subseteq Seq(Rule \cup {NoRule})

VARIABLES phase,      \* "start", "walk", "mail", "save", "update" or "end"
          byEmail, interactive,  \* of the command line, chosen when they matter
          method,     \* MAILMETHOD: "smtp" or "pipe"
          todo,       \* the rules still to be walked
          inWalk,     \* the rule of the first of them is being walked
          child,      \* the bucket that each bucket is chained to: the pass-
                      \*   through bucket of the check is NoRule's
          queue,      \* the errors in the program's queue
          general,    \* those in the report's own queue
          report,     \* for each rule in the report, in the order added: the
                      \*   rule, the kinds found and the errors in its queue
          round,      \* addresses of the "rules", or the "global" ones
          recipients, \* those still to be mailed in this round
          mailed,     \* EmailReport's result so far
          saved,      \* what the report file holds: of length one or none
          status,     \* the exit status: kinds and "error"
          asked,      \* the rules that were to be walked
          occurred,   \* what went wrong in the walks: <<rule, number>>
          told,       \* <<round, address>> that nobody need wonder about
          brokenOff   \* an error has left some Send

walkVars == <<todo, inWalk, child, queue, general, report, occurred>>
postVars == <<round, recipients, mailed, told, brokenOff>>
options  == <<byEmail, interactive, method, asked>>
endVars  == <<saved, status>>
checkVars == <<phase, options, walkVars, postVars, endVars>>
allVars   == <<checkVars, mailVars>>

Init == /\ NoMail
        /\ phase = "start"
        /\ byEmail = FALSE /\ interactive = FALSE /\ method = "pipe"
        /\ asked \in Checks
        /\ todo = asked /\ inWalk = FALSE
        /\ child = [b \in Buckets |-> IF b = NoRule THEN "queue" ELSE "none"]
        /\ queue = <<>> /\ general = <<>> /\ report = <<>>
        /\ round = "rules" /\ recipients = <<>> /\ mailed = TRUE
        /\ saved = <<>> /\ status = {}
        /\ occurred = <<>> /\ told = {} /\ brokenOff = FALSE

\* A fatal error: nothing more is done.
Fails == phase' = "end" /\ status' = {"error"}

-----------------------------------------------------------------------------
(* The report's entries, one for each rule.                                 *)
Reported == {report[k].rule : k \in DOMAIN report}
Place(r) == CHOOSE k \in DOMAIN report : report[k].rule = r
AddSpec(r) == IF r \in Reported THEN report
              ELSE Append(report, [rule |-> r, found |-> {}, errors |-> <<>>])
FoundBy(rules) == UNION {report[k].found : k \in {j \in DOMAIN report : report[j].rule \in rules}}

(* cErrorBucket::AddError from the bucket of the check: each bucket on the  *)
(* chain takes the error and hands it on.                                   *)
Chain == {b \in Buckets \cup {"queue"} :
            \A chained \in SUBSET (Buckets \cup {"queue", "none"}) :
              {child[NoRule]} \cup {child[c] : c \in Buckets \cap chained} \subseteq chained
                => b \in chained}
AddError(e) ==
  /\ queue' = IF "queue" \in Chain THEN Append(queue, e) ELSE queue
  /\ report' = [k \in DOMAIN report |->
                  IF report[k].rule \in Chain
                  THEN [report[k] EXCEPT !.errors = Append(@, e)] ELSE report[k]]
  /\ occurred' = Append(occurred, e)

-----------------------------------------------------------------------------
(* The report file cannot be written, the keys, the database or the policy  *)
(* cannot be read, the passphrase is wrong or the policy is not the         *)
(* database's.                                                              *)
CannotStart == /\ phase = "start" /\ Fails
               /\ UNCHANGED <<options, walkVars, postVars, saved, mailVars>>
Start == /\ phase = "start" /\ phase' = "walk"
         /\ UNCHANGED <<options, walkVars, postVars, endVars, mailVars>>

(* cIntegrityCheck::Execute and ExecuteOnObjectList, for the next rule or   *)
(* object: the queue of its rule in the report is put between the bucket of *)
(* the check and its child.                                                 *)
BeginRule ==
  /\ phase = "walk" /\ ~inWalk /\ todo # <<>> /\ Head(todo) # NoRule
  /\ report' = AddSpec(Head(todo))
  /\ child' = [child EXCEPT ![Head(todo)] = child[NoRule], ![NoRule] = Head(todo)]
  /\ inWalk' = TRUE
  /\ UNCHANGED <<phase, options, todo, queue, general, occurred, postVars, endVars, mailVars>>

(* ExecuteOnObjectList: an object outside all rules is an error of the      *)
(* program and of the report as a whole.                                    *)
NotInSpec ==
  /\ phase = "walk" /\ ~inWalk /\ todo # <<>> /\ Head(todo) = NoRule
  /\ LET e == <<NoRule, Len(occurred)>>
     IN AddError(e) /\ general' = Append(general, e)
  /\ todo' = Tail(todo)
  /\ UNCHANGED <<phase, options, inWalk, child, postVars, endVars, mailVars>>

WalkError ==
  /\ phase = "walk" /\ inWalk /\ Len(occurred) < MaxErrors
  /\ AddError(<<Head(todo), Len(occurred)>>)
  /\ UNCHANGED <<phase, options, todo, inWalk, child, general, postVars, endVars, mailVars>>

Find(r, kinds) == report' = [report EXCEPT ![Place(r)].found = @ \cup kinds]

(* Variant: the bucket of the check stays chained to the rule's queue.      *)
EndRuleChained(kinds) ==
  /\ phase = "walk" /\ inWalk
  /\ Find(Head(todo), kinds)
  /\ todo' = Tail(todo) /\ inWalk' = FALSE
  /\ UNCHANGED <<phase, options, child, queue, general, occurred, postVars, endVars, mailVars>>
EndRule(kinds) ==
  /\ phase = "walk" /\ inWalk
  /\ Find(Head(todo), kinds)
  /\ child' = [child EXCEPT ![NoRule] = child[Head(todo)], ![Head(todo)] = "none"]
  /\ todo' = Tail(todo) /\ inWalk' = FALSE
  /\ UNCHANGED <<phase, options, queue, general, occurred, postVars, endVars, mailVars>>

(* An exception leaves the walk: it is added to the program's queue, no     *)
(* other rule is walked, and the command goes on with what it has.          *)
Escape(kinds) ==
  /\ phase = "walk" /\ inWalk
  /\ LET e == <<"escaped", Len(occurred)>>
     IN queue' = Append(queue, e) /\ occurred' = Append(occurred, e)
  /\ Find(Head(todo), kinds)
  /\ todo' = <<>> /\ inWalk' = FALSE
  /\ UNCHANGED <<phase, options, child, general, postVars, endVars, mailVars>>

-----------------------------------------------------------------------------
(* Who gets mail: each address once, those of the rules in the report's     *)
(* order, the global ones from the last to the first.                       *)
EachOnce(addresses, mentions) ==
  LET first(a) == CHOOSE i \in DOMAIN mentions :
                    mentions[i] = a /\ \A j \in 1 .. i - 1 : mentions[j] # a
  IN {s \in SeqOf(addresses, Cardinality(addresses)) :
        /\ ToSet(s) = addresses
        /\ \A i, j \in DOMAIN s : i < j => first(s[i]) < first(s[j])}
GetEmailRecipients ==
  EachOnce(UNION {ToSet(EmailTo[r]) : r \in Reported},
           FlattenSeq([k \in DOMAIN report |-> EmailTo[report[k].rule]]))
GetGlobalEmailRecipients == EachOnce(ToSet(GlobalEmail), Reverse(GlobalEmail))

EndWalk ==
  /\ phase = "walk" /\ ~inWalk /\ todo = <<>>
  /\ \/ /\ phase' = "save"
        /\ UNCHANGED <<byEmail, method, recipients>>
     \/ /\ phase' = "mail"
        /\ byEmail' = TRUE /\ method' \in {"smtp", "pipe"}
        /\ recipients' \in GetEmailRecipients
  /\ UNCHANGED <<interactive, asked, walkVars, round, mailed, told, brokenOff, endVars, mailVars>>

(* EmailReportTo: the part of the report that concerns an address, unless   *)
(* there is no violation in it.                                             *)
RulesOf(rnd, a) == {r \in Reported : rnd = "global" \/ a \in ToSet(EmailTo[r])}
Concerned(rnd, a) == FoundBy(RulesOf(rnd, a)) # {} \/ MailNoViolations

SkipRecipient ==
  /\ phase = "mail" /\ recipients # <<>> /\ ~Concerned(round, Head(recipients))
  /\ recipients' = Tail(recipients)
  /\ UNCHANGED <<phase, options, walkVars, round, mailed, told, brokenOff, endVars, mailVars>>

(* The message under way; neither end of it touches the command.  A call    *)
(* returns when the other side lets it, or when the connection is reset.    *)
Sending == phase = "mail" /\ recipients # <<>> /\ Concerned(round, Head(recipients))
Send == /\ Sending
        /\ BeginMail \/ GetAcknowledgement \/ (link = "reset" /\ SendString)
        /\ UNCHANGED checkVars
ServerSteps == /\ Sending
               /\ \/ method = "smtp" /\ (Server \/ OpenConnection \/ SendString)
                  \/ method = "pipe" /\ PipeMail
               /\ UNCHANGED checkVars

(* Send has ended, whatever it returned; an eError is caught and makes the  *)
(* result false, and the next address is tried all the same.                *)
MailHasEnded ==
  /\ Sending /\ result \in {"sent", "unsent", "thrown"}
  /\ brokenOff' = (brokenOff \/ result = "thrown")
  /\ told' = IF accepted \/ ~prompt \/ result = "unsent"
             THEN told \cup {<<round, Head(recipients)>>} ELSE told
  /\ recipients' = Tail(recipients)
  /\ Discard
  /\ UNCHANGED <<phase, options, walkVars, round, endVars>>
(* Variant: the last of them decides.                                       *)
MailEndsForgiving == MailHasEnded /\ mailed' = (result # "thrown")
MailEnds == MailHasEnded /\ mailed' = (mailed /\ result # "thrown")
(* Another exception is not caught by the command; main is left with the    *)
(* status of an error.                                                      *)
MailDies ==
  /\ Sending /\ result = "died"
  /\ Fails
  /\ Discard
  /\ UNCHANGED <<options, walkVars, postVars, saved>>

(* Variant: the global addresses are mailed even so, and only they count.   *)
NextRoundForgetting ==
  /\ phase = "mail" /\ recipients = <<>>
  /\ IF round = "rules"
     THEN /\ round' = "global" /\ recipients' \in GetGlobalEmailRecipients
          /\ mailed' = TRUE
          /\ UNCHANGED phase
     ELSE phase' = "save" /\ UNCHANGED <<round, recipients, mailed>>
  /\ UNCHANGED <<options, walkVars, told, brokenOff, endVars, mailVars>>
NextRound ==
  /\ phase = "mail" /\ recipients = <<>>
  /\ IF round = "rules" /\ mailed
     THEN /\ round' = "global" /\ recipients' \in GetGlobalEmailRecipients
          /\ UNCHANGED phase
     ELSE phase' = "save" /\ UNCHANGED <<round, recipients>>
  /\ UNCHANGED <<options, walkVars, mailed, told, brokenOff, endVars, mailVars>>

-----------------------------------------------------------------------------
(* The passphrase asked for late, the backup or the writing may fail.       *)
SaveReport ==
  /\ phase = "save"
  /\ \/ Fails /\ UNCHANGED <<interactive, saved>>
     \/ /\ phase' = "update" /\ interactive' \in BOOLEAN
        /\ saved' = <<report>>
        /\ UNCHANGED status
  /\ UNCHANGED <<byEmail, method, asked, walkVars, postVars, mailVars>>

GetICReturnValue(r) == UNION {r[k].found : k \in DOMAIN r}

(* The user strikes entries in the report (DisplayReportAndHaveUserUpdateIt *)
(* changes the one in memory), and the database is updated with the rest:   *)
(* the editor, an entry that does not fit or the passphrase may make that   *)
(* fail, and its status is then the command's.                              *)
Strike == \E left \in [DOMAIN report -> SUBSET Kinds] :
            /\ \A k \in DOMAIN report : left[k] \subseteq report[k].found
            /\ report' = [k \in DOMAIN report |-> [report[k] EXCEPT !.found = left[k]]]
UpdateFails == /\ phase = "update" /\ interactive
               /\ Fails
               /\ UNCHANGED <<options, walkVars, postVars, saved, mailVars>>

ExitStatus(r) == GetICReturnValue(r) \cup (IF byEmail /\ ~mailed THEN {"error"} ELSE {})
Finish ==
  /\ phase = "update"
  /\ IF interactive THEN Strike ELSE UNCHANGED report
  /\ status' = ExitStatus(report')
  /\ phase' = "end"
  /\ UNCHANGED <<options, todo, inWalk, child, queue, general, occurred, postVars, saved, mailVars>>

-----------------------------------------------------------------------------
CommandStep ==
  \/ CannotStart \/ Start
  \/ BeginRule \/ NotInSpec \/ WalkError
  \/ \E kinds \in Findings : EndRule(kinds) \/ Escape(kinds)
  \/ EndWalk
  \/ SkipRecipient \/ Send \/ MailEnds \/ MailDies \/ NextRound
  \/ SaveReport \/ UpdateFails \/ Finish

Next == CommandStep \/ ServerSteps

(* The command goes on; the server and the mail program need not do         *)
(* anything, nor let a call return.                                         *)
Spec == Init /\ [][Next]_allVars /\ WF_allVars(CommandStep)

-----------------------------------------------------------------------------
(* Properties *)

(* "associate the error bucket to this current spec in the report": every   *)
(* error of a walk is in the program's queue, and in the report under its   *)
(* own rule and no other, or under the report itself if the object is of no *)
(* rule, once and in order.  A rule that is come to again has one entry.    *)
ErrorsUnderTheirRule ==
  LET HasThoseOf(errors, r) ==
        /\ ToSet(errors) = {e \in ToSet(occurred) : e[1] = r}
        /\ \A i, j \in DOMAIN errors : i < j => errors[i][2] < errors[j][2]
  IN /\ IsInjective([k \in DOMAIN report |-> report[k].rule])
     /\ queue = occurred
     /\ HasThoseOf(general, NoRule)
     /\ \A k \in DOMAIN report : HasThoseOf(report[k].errors, report[k].rule)

Escaped == \E k \in DOMAIN occurred : occurred[k][1] = "escaped"

KindsIn(r) == UNION {r[k].found : k \in DOMAIN r}

(* A status without the bit of an error means that the report was written,  *)
(* that it has every rule that was to be checked, unless the queue of the   *)
(* program has an exception that cut the check short, and that no mail, of  *)
(* all that were tried, was broken off by an error; without an update the   *)
(* other bits are the kinds of violation in the file.                       *)
StatusTellsReport ==
  phase = "end" /\ "error" \notin status =>
    /\ saved # <<>>
    /\ ~brokenOff
    /\ \/ \E k \in DOMAIN queue : queue[k][1] = "escaped"
       \/ ToSet(asked) \ {NoRule} \subseteq {saved[1][k].rule : k \in DOMAIN saved[1]}
    /\ ~interactive => status = KindsIn(saved[1])

(* If that status was to mean that mail was sent, then everybody whose      *)
(* rules have violations and every global address has been sent mail: the   *)
(* server took it, unless one of its answers came late or in pieces, or the *)
(* client did not know the name of its own host or could not read the       *)
(* report back.                                                             *)
QuietMeansTold ==
  phase = "end" /\ "error" \notin status /\ byEmail =>
    /\ \A k \in DOMAIN saved[1] : saved[1][k].found # {} =>
         \A a \in ToSet(EmailTo[saved[1][k].rule]) : <<"rules", a>> \in told
    /\ KindsIn(saved[1]) # {} => {"global"} \X ToSet(GlobalEmail) \subseteq told

(* The command ends, whatever the server answers or does not, unless from   *)
(* some moment on it is in one call that the other side does not let        *)
(* return: no answer is waited for longer than a minute.                    *)
Ends == <>(phase = "end") \/ <>[]Held

(* "we want to continue from email errors, so make them non-fatal": once    *)
(* the mails have begun, only the writing of the report can keep it from    *)
(* being written.                                                           *)
MailFailureKeepsReport == [][phase = "mail" => phase' # "end"]_allVars

(* "exits 0 if no changes are detected.  Otherwise the exit value is a bit  *)
(* mask": a command that ends without an error tells by its status what its *)
(* check found.                                                             *)
StatusTellsChanges ==
  phase = "end" /\ "error" \notin status => status = KindsIn(saved[1])
=============================================================================
