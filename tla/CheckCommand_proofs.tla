-------------------------- MODULE CheckCommand_proofs --------------------------
(* Theorems about CheckCommand: that the errors of every walk are kept in   *)
(* their place, and what an exit status without the bit of an error tells   *)
(* of the report and of the mail, for every list of rules, addresses,       *)
(* findings and errors and whatever the mail server does.                   *)
EXTENDS CheckCommand, TLAPS
-----------------------------------------------------------------------------
(* The invariant *)

Errors  == (Buckets \cup {"escaped"}) \X Nat
Entries == [rule : Rule, found : SUBSET Kinds, errors : Seq(Errors)]

Typed ==
  /\ phase \in {"start", "walk", "mail", "save", "update", "end"}
  /\ inWalk \in BOOLEAN /\ mailed \in BOOLEAN
  /\ todo \in Seq(Buckets)
  /\ child \in [Buckets -> Buckets \cup {"queue", "none"}]
  /\ queue \in Seq(Errors) /\ general \in Seq(Errors) /\ occurred \in Seq(Errors)
  /\ report \in Seq(Entries)
  /\ round \in {"rules", "global"} /\ recipients \in Seq(STRING)

(* While a rule is walked the bucket of the check is chained to its queue,  *)
(* and that to the queue of the program; between two rules the first is     *)
(* chained to the last.  An exception leaves the chain as it is, and no     *)
(* rule to be walked.                                                       *)
Chained ==
  /\ inWalk => /\ phase = "walk" /\ todo # <<>>
               /\ Head(todo) \in Reported
               /\ child[NoRule] = Head(todo) /\ child[Head(todo)] = "queue"
  /\ ~inWalk /\ todo # <<>> => child[NoRule] = "queue"

(* The errors are numbered, and those of a rule are not there before it.    *)
Numbered ==
  \A k \in DOMAIN occurred :
    /\ occurred[k][2] = k - 1
    /\ occurred[k][1] \in Reported \cup {NoRule, "escaped"}

HasThoseOf(errors, all, r) ==
  /\ ToSet(errors) = {e \in ToSet(all) : e[1] = r}
  /\ \A i, j \in DOMAIN errors : i < j => errors[i][2] < errors[j][2]
Sorted ==
  /\ IsInjective([k \in DOMAIN report |-> report[k].rule])
  /\ queue = occurred
  /\ HasThoseOf(general, occurred, NoRule)
  /\ \A k \in DOMAIN report : HasThoseOf(report[k].errors, occurred, report[k].rule)

ErrorInv == Typed /\ Chained /\ Numbered /\ Sorted

(* Rules are dropped only by an exception, and the mails begin when none is *)
(* left.                                                                    *)
Walked ==
  /\ ~Escaped => ToSet(asked) \ {NoRule} \subseteq Reported \cup ToSet(todo)
  /\ phase \in {"mail", "save", "update"} => todo = <<>>

Saved ==
  /\ phase = "update" => saved = <<report>>
  /\ phase = "mail" => byEmail
  /\ ~byEmail => mailed
  /\ mailed => ~brokenOff

StatusInv == Walked /\ Saved /\ StatusTellsReport

(* The conversation with the server, as long as every answer comes in one   *)
(* piece and in time: the answer to the command sent last has not been      *)
(* given, or it is the only one on its way, or it was lost for good.  Before *)
(* the next command is sent it has been given and received.  An "ok" to the *)
(* last command means that the message was taken.                           *)
InStep ==
  \/ served = at - 1 /\ replies = <<>>
  \/ /\ served = at /\ Len(replies) = 1
     /\ Head(replies) = "ok" /\ at = LastCommand => accepted
  \/ served = at /\ replies = <<>> /\ link = "reset"
MailInv ==
  /\ at \in Nat /\ served \in Nat /\ replies \in Seq({"ok", "bad"})
  /\ result = "none" => at = 0 /\ served = 0 /\ replies = <<>>
  /\ result = "open" /\ prompt => InStep
  /\ result = "calling" /\ prompt =>
       served = at /\ replies = <<>> /\ (at = LastCommand => accepted)
  /\ result = "sent" /\ prompt => accepted

(* Whoever has to be told was told, or is among rest, or a mail has failed. *)
RulesTold(rest) ==
  \A k \in DOMAIN report : report[k].found # {} =>
    \A a \in ToSet(EmailTo[report[k].rule]) : <<"rules", a>> \in told \/ a \in rest
GlobalTold(rest) ==
  KindsIn(report) # {} =>
    \A a \in ToSet(GlobalEmail) : <<"global", a>> \in told \/ a \in rest
Telling ==
  /\ phase \in {"start", "walk"} => ~byEmail /\ round = "rules"
  /\ phase = "mail" /\ mailed =>
       IF round = "rules" THEN RulesTold(ToSet(recipients))
                          ELSE RulesTold({}) /\ GlobalTold(ToSet(recipients))
  /\ phase \in {"save", "update"} /\ mailed /\ byEmail => RulesTold({}) /\ GlobalTold({})

ToldInv == MailInv /\ Telling /\ QuietMeansTold

-----------------------------------------------------------------------------
(* Sequences *)

LEMMA HeadTail ==
  ASSUME NEW S, NEW s \in Seq(S), s # <<>>
  PROVE  /\ Head(s) \in S /\ Tail(s) \in Seq(S)
         /\ ToSet(s) = {Head(s)} \cup ToSet(Tail(s))
  <1>1. Head(s) \in S /\ Tail(s) \in Seq(S) /\ Head(s) = s[1] /\ Len(s) \in Nat \ {0}
    OBVIOUS
  <1>2. Len(Tail(s)) = Len(s) - 1 /\ \A i \in 1 .. Len(s) - 1 : Tail(s)[i] = s[i + 1]
    OBVIOUS
  <1>3. DOMAIN s = 1 .. Len(s) /\ DOMAIN Tail(s) = 1 .. Len(s) - 1
    BY <1>1, <1>2
  <1>4. ASSUME NEW x \in ToSet(s) PROVE x \in {Head(s)} \cup ToSet(Tail(s))
    <2>1. PICK i \in 1 .. Len(s) : x = s[i]
      BY <1>3 DEF ToSet
    <2>2. CASE i = 1
      BY <2>1, <2>2, <1>1
    <2>3. CASE i # 1
      <3>1. i - 1 \in 1 .. Len(s) - 1 /\ Tail(s)[i - 1] = s[i]
        BY <2>3, <1>1, <1>2
      <3>. QED BY <3>1, <2>1, <1>3 DEF ToSet
    <2>. QED BY <2>2, <2>3
  <1>5. ASSUME NEW x \in ToSet(Tail(s)) PROVE x \in ToSet(s)
    <2>1. PICK i \in 1 .. Len(s) - 1 : x = Tail(s)[i]
      BY <1>3 DEF ToSet
    <2>2. i + 1 \in 1 .. Len(s) /\ x = s[i + 1]
      BY <2>1, <1>1, <1>2
    <2>. QED BY <2>2, <1>3 DEF ToSet
  <1>6. Head(s) \in ToSet(s)
    BY <1>1, <1>3 DEF ToSet
  <1>. QED BY <1>1, <1>4, <1>5, <1>6

LEMMA NothingListed == ToSet(<<>>) = {}
  BY DEF ToSet

LEMMA Appended ==
  ASSUME NEW S, NEW s \in Seq(S), NEW e \in S
  PROVE  /\ Append(s, e) \in Seq(S) /\ DOMAIN s = 1 .. Len(s) /\ Len(s) \in Nat
         /\ DOMAIN Append(s, e) = 1 .. Len(s) + 1
         /\ Append(s, e)[Len(s) + 1] = e
         /\ \A i \in 1 .. Len(s) : Append(s, e)[i] = s[i]
         /\ ToSet(Append(s, e)) = ToSet(s) \cup {e}
  <1>1. /\ Append(s, e) \in Seq(S) /\ DOMAIN s = 1 .. Len(s) /\ Len(s) \in Nat
        /\ DOMAIN Append(s, e) = 1 .. Len(s) + 1
        /\ Append(s, e)[Len(s) + 1] = e
        /\ \A i \in 1 .. Len(s) : Append(s, e)[i] = s[i]
    OBVIOUS
  <1>2. ToSet(Append(s, e)) = {Append(s, e)[i] : i \in 1 .. Len(s) + 1}
    BY <1>1 DEF ToSet
  <1>3. ToSet(s) = {s[i] : i \in 1 .. Len(s)}
    BY <1>1 DEF ToSet
  <1>4. 1 .. Len(s) + 1 = (1 .. Len(s)) \cup {Len(s) + 1}
    BY <1>1
  <1>. QED BY <1>1, <1>2, <1>3, <1>4

-----------------------------------------------------------------------------
(* The conversation with the mail server *)

LEMMA SixCommands == LastCommand = 6
  BY DEF LastCommand, Commands

LEMMA MailBegins == NoMail => MailInv
  BY DEF NoMail, MailInv

LEMMA DiscardKeepsMail == Discard => MailInv'
  BY DEF Discard, MailInv

LEMMA ServerKeepsMail ==
  ASSUME MailInv, Server
  PROVE  MailInv'
  <1>1. CASE Answer
    <2>. USE <1>1
    <2>1. PICK ok \in BOOLEAN, pieces \in 1 .. 2 :
            LET good == ok /\ ~refused
            IN  /\ replies' = replies \o [k \in 1 .. pieces |-> IF good THEN "ok" ELSE "bad"]
                /\ accepted' = (good /\ served + 1 = LastCommand)
                /\ prompt' = (prompt /\ pieces = 1)
      BY DEF Answer
    <2> DEFINE word == IF ok /\ ~refused THEN "ok" ELSE "bad"
               answer == [k \in 1 .. pieces |-> word]
    <2>2. /\ result \in {"open", "calling"} /\ served < at /\ served' = served + 1
          /\ UNCHANGED <<result, at, attached, link>>
      BY DEF Answer
    <2>3. answer \in Seq({"ok", "bad"}) /\ replies' = replies \o answer
      BY <2>1
    <2>4. replies' \in Seq({"ok", "bad"}) /\ served' \in Nat /\ at' \in Nat
      BY <2>2, <2>3 DEF MailInv
    <2>5. ASSUME prompt' PROVE result = "open" /\ InStep'
      <3>1. prompt /\ pieces = 1
        BY <2>1, <2>5
      <3>2. result = "open" /\ served = at - 1 /\ replies = <<>>
        BY <3>1, <2>2 DEF MailInv, InStep
      <3>3. replies' = answer /\ Len(answer) = 1 /\ Head(answer) = word
        BY <3>1, <3>2, <2>3
      <3>4. served' = at'
        BY <3>2, <2>2 DEF MailInv
      <3>5. word = "ok" /\ at' = LastCommand => accepted'
        BY <2>1, <3>4, <2>2
      <3>. QED BY <3>2, <3>3, <3>4, <3>5 DEF InStep
    <2>. QED BY <2>2, <2>4, <2>5 DEF MailInv
  <1>2. CASE EndConnection
    <2>1. /\ result \in {"open", "calling"} /\ replies' \in {<<>>, replies}
          /\ replies' # replies => link' = "reset" /\ replies' = <<>>
          /\ UNCHANGED <<result, at, attached, prompt, serverVars>> /\ link = "up"
      BY <1>2 DEF EndConnection
    <2>2. replies' \in Seq({"ok", "bad"})
      <3>1. <<>> \in Seq({"ok", "bad"}) /\ replies \in Seq({"ok", "bad"})
        BY DEF MailInv
      <3>. QED BY <3>1, <2>1, Zenon
    <2>3. InStep => InStep'
      <3>1. CASE replies' = replies
        BY <3>1, <2>1 DEF InStep, serverVars
      <3>2. CASE replies' # replies
        BY <3>2, <2>1 DEF InStep, serverVars
      <3>. QED BY <3>1, <3>2
    <2>. QED BY <2>1, <2>2, <2>3 DEF MailInv, serverVars
  <1>. QED BY <1>1, <1>2 DEF Server

\* What a code does to the invariant, when nothing is left to be received.
LEMMA DecodeKeepsMail ==
  ASSUME MailInv, result = "open", NEW code, Decode(code), UNCHANGED serverVars,
         replies' \in Seq({"ok", "bad"}),
         prompt' => prompt /\ replies' = <<>>
                    /\ (code = "ok" => served = at /\ (at = LastCommand => accepted))
  PROVE  MailInv'
  <1>1. CASE code = "ok"
    <2>1. /\ result' \in {"calling", "unsent", "thrown"}
          /\ UNCHANGED at
      BY <1>1 DEF Decode, Proceed
    <2>. QED BY <1>1, <2>1 DEF MailInv, serverVars
  <1>2. CASE code # "ok"
    BY <1>2 DEF Decode, MailInv, serverVars
  <1>. QED BY <1>1, <1>2

LEMMA ClientKeepsMail ==
  ASSUME MailInv, BeginMail \/ OpenConnection \/ SendString \/ GetAcknowledgement \/ PipeMail
  PROVE  MailInv'
  <1>1. CASE OpenConnection
    BY <1>1 DEF OpenConnection, MailInv, InStep, serverVars
  <1>2. CASE Receive
    <2>1. PICK n \in 1 .. Len(replies) : replies' = SubSeq(replies, n + 1, Len(replies))
      BY <1>2 DEF Receive
    <2>2. /\ result = "open" /\ replies # <<>> /\ Decode(Head(replies))
          /\ UNCHANGED <<link, prompt, serverVars>>
      BY <1>2 DEF Receive
    <2>3. replies \in Seq({"ok", "bad"}) /\ replies' \in Seq({"ok", "bad"})
      BY <2>1 DEF MailInv
    <2>4. ASSUME prompt'
          PROVE  /\ prompt /\ replies' = <<>>
                 /\ Head(replies) = "ok" => served = at /\ (at = LastCommand => accepted)
      <3>1. prompt /\ InStep
        BY <2>2, <2>4 DEF MailInv
      <3>2. served = at /\ Len(replies) = 1 /\ (Head(replies) = "ok" /\ at = LastCommand => accepted)
        BY <3>1, <2>2 DEF InStep
      <3>3. Len(replies') = 0
        BY <3>2, <2>1, <2>3
      <3>. QED BY <3>1, <3>2, <3>3, <2>3
    <2>. QED BY <2>2, <2>3, <2>4, DecodeKeepsMail
  <1>3. CASE TimeOut
    <2>1. PICK stale \in {"ok", "bad"} : Decode(stale)
      BY <1>3 DEF TimeOut
    <2>. QED BY <1>3, <2>1, DecodeKeepsMail DEF TimeOut, MailInv
  <1>4. CASE ReceiveEnd
    BY <1>4, DecodeKeepsMail DEF ReceiveEnd, MailInv
  <1>5. CASE ReceiveError
    BY <1>5 DEF ReceiveError, MailInv, serverVars
  <1>6. CASE PipeMail
    BY <1>6 DEF PipeMail, MailInv
  <1>7. CASE BeginMail
    BY <1>7, SixCommands DEF BeginMail, MailInv, serverVars
  <1>8. CASE SendString
    BY <1>8 DEF SendString, CloseConnection, MailInv, InStep, serverVars
  <1>. QED BY <1>1, <1>2, <1>3, <1>4, <1>5, <1>6, <1>7, <1>8 DEF GetAcknowledgement

-----------------------------------------------------------------------------
(* The chain of buckets *)

LEMMA NoRuleApart ==
  /\ NoRule \notin Rule /\ NoRule \notin {"queue", "none", "escaped"}
  /\ \A r \in Rule : r \notin {"queue", "none", "escaped"}
  BY CheckCommandAssumption

LEMMA ChainOfCheck ==
  ASSUME child[NoRule] = "queue"
  PROVE  Chain = {"queue"}
  <1>1. "queue" \in Chain
    BY DEF Chain
  <1>2. ASSUME NEW b \in Chain PROVE b = "queue"
    <2>1. Buckets \cap {"queue"} = {}
      BY NoRuleApart DEF Buckets
    <2>2. {child[NoRule]} \cup {child[c] : c \in Buckets \cap {"queue"}} \subseteq {"queue"}
      BY <2>1
    <2>3. {"queue"} \in SUBSET (Buckets \cup {"queue", "none"})
      OBVIOUS
    <2>. QED BY <2>2, <2>3 DEF Chain
  <1>. QED BY <1>1, <1>2

LEMMA ChainOfWalk ==
  ASSUME NEW r \in Rule, child[NoRule] = r, child[r] = "queue"
  PROVE  Chain = {r, "queue"}
  <1>1. r \in Buckets
    BY DEF Buckets
  <1>2. "queue" \in Chain /\ r \in Chain
    BY <1>1 DEF Chain
  <1>3. ASSUME NEW b \in Chain PROVE b \in {r, "queue"}
    <2>1. Buckets \cap {r, "queue"} = {r}
      BY <1>1, NoRuleApart DEF Buckets
    <2>2. {child[NoRule]} \cup {child[c] : c \in Buckets \cap {r, "queue"}} \subseteq {r, "queue"}
      BY <2>1
    <2>3. {r, "queue"} \in SUBSET (Buckets \cup {"queue", "none"})
      BY <1>1
    <2>. QED BY <2>2, <2>3 DEF Chain
  <1>. QED BY <1>2, <1>3

-----------------------------------------------------------------------------
(* The report *)

LEMMA Entry ==
  ASSUME Typed
  PROVE  /\ Len(report) \in Nat /\ DOMAIN report = 1 .. Len(report)
         /\ \A k \in DOMAIN report : report[k] \in Entries
         /\ \A k \in DOMAIN report : /\ report[k].rule \in Rule /\ report[k].rule \in Reported
                                     /\ report[k].found \subseteq Kinds
                                     /\ report[k].errors \in Seq(Errors)
         /\ Reported \subseteq Rule
  <1>1. Len(report) \in Nat /\ DOMAIN report = 1 .. Len(report) /\ report \in Seq(Entries)
    BY DEF Typed
  <1>2. \A k \in DOMAIN report : report[k] \in Entries
    BY <1>1
  <1>3. \A k \in DOMAIN report : /\ report[k].rule \in Rule /\ report[k].rule \in Reported
                                 /\ report[k].found \subseteq Kinds
                                 /\ report[k].errors \in Seq(Errors)
    BY <1>2 DEF Entries, Reported
  <1>. QED BY <1>1, <1>2, <1>3 DEF Reported

\* A step that changes no more of the report than what was found.
SameButFound ==
  /\ report' \in Seq(Entries) /\ DOMAIN report' = DOMAIN report
  /\ \A k \in DOMAIN report : /\ report'[k].rule = report[k].rule
                              /\ report'[k].errors = report[k].errors

LEMMA FoundIsNoneOfReported == SameButFound => Reported' = Reported
  BY DEF SameButFound, Reported

LEMMA FindChangesFound ==
  ASSUME Typed, NEW r \in Reported, NEW kinds \in Findings, Find(r, kinds)
  PROVE  SameButFound
  <1>1. Place(r) \in DOMAIN report /\ kinds \subseteq Kinds
    BY CheckCommandAssumption DEF Place, Reported
  <1> DEFINE p == Place(r)
             old == report[p]
             new == [old EXCEPT !.found = @ \cup kinds]
  <1>2. old \in Entries /\ new \in Entries /\ new.rule = old.rule /\ new.errors = old.errors
    BY <1>1, Entry DEF Entries
  <1>3. report' = [report EXCEPT ![p] = new]
    BY DEF Find
  <1>4. report \in Seq(Entries)
    BY DEF Typed
  <1>. HIDE DEF p, new
  <1>5. report' \in Seq(Entries) /\ DOMAIN report' = DOMAIN report
    BY <1>1, <1>2, <1>3, <1>4 DEF p
  <1>. QED BY <1>1, <1>2, <1>3, <1>5 DEF SameButFound, p

LEMMA StrikeChangesFound ==
  ASSUME Typed, Strike
  PROVE  SameButFound
  <1>1. PICK left \in [DOMAIN report -> SUBSET Kinds] :
          report' = [k \in DOMAIN report |-> [report[k] EXCEPT !.found = left[k]]]
    BY DEF Strike
  <1>2. \A k \in DOMAIN report :
          LET new == [report[k] EXCEPT !.found = left[k]]
          IN new \in Entries /\ new.rule = report[k].rule /\ new.errors = report[k].errors
    BY Entry DEF Entries
  <1>3. DOMAIN report' = 1 .. Len(report) /\ Len(report) \in Nat
    BY <1>1, Entry
  <1>4. \A k \in DOMAIN report : report'[k] = [report[k] EXCEPT !.found = left[k]]
    BY <1>1
  <1>5. \A k \in 1 .. Len(report) : report'[k] \in Entries
    BY <1>2, <1>4, Entry
  <1>6. report' = [k \in 1 .. Len(report) |-> report'[k]]
    BY <1>1, <1>3
  <1>7. report' \in Seq(Entries)
    BY <1>3, <1>5, <1>6
  <1>. QED BY <1>2, <1>4, <1>7, <1>3, Entry DEF SameButFound

LEMMA AddSpecAdds ==
  ASSUME Typed, NEW r \in Rule, report' = AddSpec(r)
  PROVE  /\ report' \in Seq(Entries) /\ Reported' = Reported \cup {r}
         /\ DOMAIN report \subseteq DOMAIN report'
         /\ \A k \in DOMAIN report : report'[k] = report[k]
         /\ \A k \in DOMAIN report' \ DOMAIN report :
              /\ k = Len(report) + 1 /\ r \notin Reported
              /\ report'[k] = [rule |-> r, found |-> {}, errors |-> <<>>]
  <1>1. CASE r \in Reported
    BY <1>1 DEF AddSpec, Typed, Reported
  <1>2. CASE r \notin Reported
    <2> DEFINE e == [rule |-> r, found |-> {}, errors |-> <<>>]
    <2>1. e \in Entries
      BY DEF Entries
    <2>2. report' = Append(report, e) /\ report \in Seq(Entries)
      BY <1>2 DEF AddSpec, Typed
    <2>. HIDE DEF e
    <2>3. /\ report' \in Seq(Entries) /\ DOMAIN report = 1 .. Len(report) /\ Len(report) \in Nat
          /\ DOMAIN report' = 1 .. Len(report) + 1 /\ report'[Len(report) + 1] = e
          /\ \A i \in 1 .. Len(report) : report'[i] = report[i]
      BY <2>1, <2>2, Appended
    <2>4. \A k \in DOMAIN report' : k \notin DOMAIN report => k = Len(report) + 1
      BY <2>3
    <2>5. DOMAIN report \subseteq DOMAIN report' /\ Len(report) + 1 \in DOMAIN report'
      BY <2>3
    <2>6. e.rule = r
      BY DEF e
    <2>7. Reported' = Reported \cup {r}
      BY <2>3, <2>4, <2>5, <2>6 DEF Reported
    <2>. QED BY <1>2, <2>3, <2>4, <2>5, <2>7 DEF e
  <1>. QED BY <1>1, <1>2

-----------------------------------------------------------------------------
(* The errors *)

LEMMA OneErrorMore ==
  ASSUME NEW all \in Seq(Errors), NEW errors \in Seq(Errors), NEW r, NEW q \in Buckets \cup {"escaped"},
         HasThoseOf(errors, all, r), \A k \in DOMAIN all : all[k][2] = k - 1
  PROVE  LET e == <<q, Len(all)>>
         IN /\ e \in Errors
            /\ q = r => HasThoseOf(Append(errors, e), Append(all, e), r)
            /\ q # r => HasThoseOf(errors, Append(all, e), r)
  <1> DEFINE e == <<q, Len(all)>>
  <1>1. e \in Errors /\ e[1] = q /\ e[2] = Len(all)
    BY DEF Errors
  <1>. HIDE DEF e
  <1>2. /\ ToSet(Append(all, e)) = ToSet(all) \cup {e} /\ ToSet(Append(errors, e)) = ToSet(errors) \cup {e}
        /\ DOMAIN errors = 1 .. Len(errors) /\ Len(errors) \in Nat
        /\ DOMAIN Append(errors, e) = 1 .. Len(errors) + 1 /\ Append(errors, e)[Len(errors) + 1] = e
        /\ \A i \in 1 .. Len(errors) : Append(errors, e)[i] = errors[i]
    BY <1>1, Appended
  <1>3. ASSUME q = r PROVE HasThoseOf(Append(errors, e), Append(all, e), r)
    <2>1. ToSet(Append(errors, e)) = {x \in ToSet(Append(all, e)) : x[1] = r}
      BY <1>1, <1>2, <1>3 DEF HasThoseOf
    <2>2. \A x \in ToSet(all) : x[2] < Len(all) /\ x[2] \in Nat
      <3>1. Len(all) \in Nat /\ DOMAIN all = 1 .. Len(all)
        OBVIOUS
      <3>. QED BY <3>1 DEF ToSet
    <2>3. \A i \in 1 .. Len(errors) : errors[i] \in ToSet(all)
      BY <1>2 DEF HasThoseOf, ToSet
    <2>4. ASSUME NEW i \in 1 .. Len(errors) + 1, NEW j \in 1 .. Len(errors) + 1, i < j
          PROVE  Append(errors, e)[i][2] < Append(errors, e)[j][2]
      <3>1. i \in 1 .. Len(errors) /\ Append(errors, e)[i] = errors[i]
        BY <2>4, <1>2
      <3>2. CASE j = Len(errors) + 1
        BY <3>1, <3>2, <1>2, <1>1, <2>2, <2>3
      <3>3. CASE j # Len(errors) + 1
        <4>1. j \in 1 .. Len(errors) /\ Append(errors, e)[j] = errors[j]
          BY <3>3, <1>2
        <4>. QED BY <4>1, <3>1, <2>4, <1>2 DEF HasThoseOf
      <3>. QED BY <3>2, <3>3
    <2>. QED BY <2>1, <2>4, <1>2 DEF HasThoseOf
  <1>4. ASSUME q # r PROVE HasThoseOf(errors, Append(all, e), r)
    BY <1>1, <1>2, <1>4 DEF HasThoseOf
  <1>. QED BY <1>1, <1>3, <1>4 DEF e

LEMMA NumberedOnceMore ==
  ASSUME Typed, Numbered, NEW q \in Reported' \cup {NoRule, "escaped"},
         occurred' = Append(occurred, <<q, Len(occurred)>>), Reported \subseteq Reported',
         <<q, Len(occurred)>> \in Errors
  PROVE  Numbered' /\ occurred' \in Seq(Errors)
  <1> DEFINE e == <<q, Len(occurred)>>
  <1>1. e[1] = q /\ e[2] = Len(occurred) /\ e \in Errors /\ occurred \in Seq(Errors)
    BY DEF Typed
  <1>. HIDE DEF e
  <1>2. /\ occurred' \in Seq(Errors) /\ DOMAIN occurred = 1 .. Len(occurred) /\ Len(occurred) \in Nat
        /\ DOMAIN occurred' = 1 .. Len(occurred) + 1 /\ occurred'[Len(occurred) + 1] = e
        /\ \A i \in 1 .. Len(occurred) : occurred'[i] = occurred[i]
    BY <1>1, Appended DEF e
  <1>3. ASSUME NEW k \in DOMAIN occurred'
        PROVE  occurred'[k][2] = k - 1 /\ occurred'[k][1] \in Reported' \cup {NoRule, "escaped"}
    <2>1. CASE k \in DOMAIN occurred
      BY <2>1, <1>2 DEF Numbered
    <2>2. CASE k = Len(occurred) + 1
      BY <2>2, <1>1, <1>2
    <2>. QED BY <2>1, <2>2, <1>2
  <1>. QED BY <1>2, <1>3 DEF Numbered

\* The chain from the bucket of the check: of all the rules at most r is on it, and the
\* program's queue is.
LEMMA AddErrorPuts ==
  ASSUME Typed, Numbered, Sorted, NEW r \in Buckets, Chain \ {r} = {"queue"}, r \in Rule => r \in Chain,
         r \in Reported \cup {NoRule}, AddError(<<r, Len(occurred)>>),
         general' = IF r = NoRule THEN Append(general, <<r, Len(occurred)>>) ELSE general
  PROVE  /\ Numbered' /\ Sorted' /\ Reported' = Reported
         /\ queue' \in Seq(Errors) /\ general' \in Seq(Errors) /\ occurred' \in Seq(Errors)
         /\ report' \in Seq(Entries) /\ DOMAIN report' = DOMAIN report
         /\ \A k \in DOMAIN report : report'[k].rule = report[k].rule /\ report'[k].found = report[k].found
  <1> DEFINE e == <<r, Len(occurred)>>
             new(k) == [report[k] EXCEPT !.errors = Append(@, e)]
  <1>1. /\ occurred \in Seq(Errors) /\ general \in Seq(Errors) /\ report \in Seq(Entries)
        /\ \A k \in DOMAIN occurred : occurred[k][2] = k - 1
        /\ Len(occurred) \in Nat
    BY DEF Typed, Numbered
  <1>2. e \in Errors
    BY <1>1 DEF Errors
  <1>3. /\ queue' = Append(queue, e) /\ occurred' = Append(occurred, e)
        /\ report' = [k \in DOMAIN report |-> IF report[k].rule \in Chain THEN new(k) ELSE report[k]]
    BY DEF AddError
  <1>. HIDE DEF e
  <1>4. \A k \in DOMAIN report :
          /\ report[k].rule \in Chain <=> report[k].rule = r
          /\ new(k) \in Entries /\ new(k).rule = report[k].rule /\ new(k).found = report[k].found
          /\ new(k).errors = Append(report[k].errors, e)
    <2>. TAKE k \in DOMAIN report
    <2>1. report[k] \in Entries /\ report[k].rule \in Rule /\ report[k].errors \in Seq(Errors)
      BY Entry
    <2>2. report[k].rule \in Chain <=> report[k].rule = r
      BY <2>1, NoRuleApart
    <2>3. Append(report[k].errors, e) \in Seq(Errors)
      BY <2>1, <1>2
    <2>. QED BY <2>1, <2>2, <2>3 DEF Entries
  <1>5. /\ DOMAIN report' = DOMAIN report
        /\ \A k \in DOMAIN report :
             /\ report'[k] \in Entries
             /\ report'[k].rule = report[k].rule /\ report'[k].found = report[k].found
             /\ report'[k].errors = IF report[k].rule = r THEN Append(report[k].errors, e) ELSE report[k].errors
    <2>. HIDE DEF new
    <2>1. ASSUME NEW k \in DOMAIN report
          PROVE  report'[k] = IF report[k].rule = r THEN new(k) ELSE report[k]
      BY <1>3, <1>4
    <2>2. DOMAIN report' = DOMAIN report
      BY <1>3
    <2>3. \A k \in DOMAIN report : report[k] \in Entries
      BY Entry
    <2>. QED BY <2>1, <2>2, <2>3, <1>4
  <1>6. report' \in Seq(Entries)
    <2>1. report' = [k \in 1 .. Len(report) |-> report'[k]] /\ Len(report) \in Nat
      BY <1>3, <1>5, Entry
    <2>. QED BY <2>1, <1>5, Entry
  <1>7. Reported' = Reported
    BY <1>5 DEF Reported
  <1>8. Numbered' /\ occurred' \in Seq(Errors)
    BY <1>2, <1>3, <1>7, NumberedOnceMore DEF e
  <1>9. queue' \in Seq(Errors) /\ general' \in Seq(Errors)
    BY <1>1, <1>2, <1>3, Appended DEF Typed, e
  <1>10. ASSUME NEW errors \in Seq(Errors), NEW q, HasThoseOf(errors, occurred, q)
         PROVE  HasThoseOf(IF q = r THEN Append(errors, e) ELSE errors, occurred', q)
    BY <1>1, <1>3, <1>10, OneErrorMore DEF e
  <1>11. Sorted'
    <2>1. IsInjective([k \in DOMAIN report' |-> report'[k].rule])
      BY <1>5 DEF Sorted, IsInjective
    <2>2. queue' = occurred'
      BY <1>3 DEF Sorted
    <2>3. HasThoseOf(general', occurred', NoRule)
      BY <1>1, <1>10 DEF Sorted, e
    <2>4. \A k \in DOMAIN report' : HasThoseOf(report'[k].errors, occurred', report'[k].rule)
      BY <1>5, <1>10, Entry DEF Sorted
    <2>. QED BY <2>1, <2>2, <2>3, <2>4 DEF Sorted
  <1>. QED BY <1>5, <1>6, <1>7, <1>8, <1>9, <1>11

-----------------------------------------------------------------------------
(* The errors, over the steps of the command *)

LEMMA ErrorsBegin == Init => ErrorInv
  <1>. SUFFICES ASSUME Init PROVE ErrorInv
    OBVIOUS
  <1>1. asked \in Seq(Buckets) /\ todo = asked
    BY CheckCommandAssumption DEF Init, Buckets
  <1>2. Typed
    <2>1. child \in [Buckets -> Buckets \cup {"queue", "none"}]
      BY DEF Init
    <2>2. phase = "start" /\ inWalk = FALSE /\ mailed = TRUE /\ round = "rules"
      BY DEF Init
    <2>3. queue = <<>> /\ general = <<>> /\ occurred = <<>> /\ report = <<>> /\ recipients = <<>>
      BY DEF Init
    <2>4. /\ queue \in Seq(Errors) /\ general \in Seq(Errors) /\ occurred \in Seq(Errors)
          /\ report \in Seq(Entries) /\ recipients \in Seq(STRING)
      BY <2>3
    <2>. QED BY <1>1, <2>1, <2>2, <2>4 DEF Typed
  <1>3. Chained
    BY DEF Init, Chained, Buckets
  <1>4. Numbered /\ Sorted
    BY NothingListed DEF Init, Numbered, Sorted, HasThoseOf, IsInjective
  <1>. QED BY <1>2, <1>3, <1>4 DEF ErrorInv

LEMMA OnceEach ==
  ASSUME NEW A, NEW m, NEW s \in EachOnce(A, m)
  PROVE  s \in Seq(A) /\ ToSet(s) = A
  <1>1. PICK n \in 0 .. Cardinality(A) : s \in [1 .. n -> A]
    BY DEF EachOnce, SeqOf
  <1>. QED BY <1>1 DEF EachOnce

\* The steps after the walks, and those of the server.
LEMMA ErrorsElsewhere ==
  ASSUME ErrorInv, UNCHANGED walkVars, inWalk => phase' = "walk", mailed' \in BOOLEAN, round' \in {"rules", "global"},
         phase' \in {"start", "walk", "mail", "save", "update", "end"}, recipients' \in Seq(STRING)
  PROVE  ErrorInv' /\ Reported' = Reported
  <1>1. Reported' = Reported
    BY DEF Reported, walkVars
  <1>2. Typed'
    BY DEF Typed, ErrorInv, walkVars
  <1>3. Chained' /\ Numbered' /\ Sorted'
    BY <1>1 DEF ErrorInv, Chained, Numbered, Sorted, walkVars
  <1>. QED BY <1>1, <1>2, <1>3 DEF ErrorInv

LEMMA ErrorsByOthers ==
  ASSUME ErrorInv,
         \/ CannotStart \/ Start \/ EndWalk \/ SkipRecipient \/ Send \/ MailEnds \/ MailDies
         \/ NextRound \/ SaveReport \/ UpdateFails \/ ServerSteps \/ UNCHANGED allVars
  PROVE  ErrorInv' /\ Reported' = Reported /\ UNCHANGED walkVars
  <1>. USE DEF walkVars, postVars, checkVars, endVars
  <1>0. /\ inWalk => phase = "walk"
        /\ phase \in {"start", "walk", "mail", "save", "update", "end"}
        /\ mailed \in BOOLEAN /\ round \in {"rules", "global"} /\ recipients \in Seq(STRING)
    BY DEF ErrorInv, Chained, Typed
  <1>1. CASE CannotStart
    BY <1>1, <1>0, ErrorsElsewhere DEF CannotStart, Fails
  <1>2. CASE Start
    BY <1>2, <1>0, ErrorsElsewhere DEF Start
  <1>3. CASE EndWalk
    <2>1. \A r \in Rule : EmailTo[r] \in Seq(STRING)
      BY CheckCommandAssumption
    <2>2. \A s \in Seq(STRING) : ToSet(s) \subseteq STRING
      BY DEF ToSet
    <2>3. Reported \subseteq Rule
      BY Entry DEF ErrorInv
    <2>4. UNION {ToSet(EmailTo[r]) : r \in Reported} \subseteq STRING
      BY <2>1, <2>2, <2>3
    <2>5. \A s \in GetEmailRecipients : s \in Seq(STRING)
      BY <2>4, OnceEach DEF GetEmailRecipients
    <2>6. recipients' \in Seq(STRING) /\ phase' \in {"save", "mail"} /\ ~inWalk
      BY <1>3, <1>0, <2>5 DEF EndWalk
    <2>. QED BY <1>3, <1>0, <2>6, ErrorsElsewhere DEF EndWalk
  <1>4. CASE SkipRecipient
    <2>1. recipients' \in Seq(STRING)
      BY <1>4, <1>0, HeadTail DEF SkipRecipient
    <2>. QED BY <1>4, <1>0, <2>1, ErrorsElsewhere DEF SkipRecipient
  <1>5. CASE Send
    BY <1>5, <1>0, ErrorsElsewhere DEF Send
  <1>6. CASE MailEnds
    <2>1. recipients' \in Seq(STRING) /\ mailed' \in BOOLEAN
      BY <1>6, <1>0, HeadTail DEF MailEnds, MailHasEnded, Sending
    <2>. QED BY <1>6, <1>0, <2>1, ErrorsElsewhere DEF MailEnds, MailHasEnded
  <1>7. CASE MailDies
    BY <1>7, <1>0, ErrorsElsewhere DEF MailDies, Fails, Sending
  <1>8. CASE NextRound
    <2>1. ToSet(GlobalEmail) \subseteq STRING
      BY CheckCommandAssumption DEF ToSet
    <2>2. \A s \in GetGlobalEmailRecipients : s \in Seq(STRING)
      BY <2>1, OnceEach DEF GetGlobalEmailRecipients
    <2>3. recipients' \in Seq(STRING) /\ phase' \in {"save", "mail"} /\ ~inWalk
      BY <1>8, <1>0, <2>2 DEF NextRound
    <2>. QED BY <1>8, <1>0, <2>3, ErrorsElsewhere DEF NextRound
  <1>9. CASE SaveReport
    BY <1>9, <1>0, ErrorsElsewhere DEF SaveReport, Fails
  <1>10. CASE UpdateFails
    BY <1>10, <1>0, ErrorsElsewhere DEF UpdateFails, Fails
  <1>11. CASE ServerSteps
    BY <1>11, <1>0, ErrorsElsewhere DEF ServerSteps
  <1>12. CASE UNCHANGED allVars
    BY <1>12, <1>0, ErrorsElsewhere DEF allVars
  <1>. QED BY <1>1, <1>2, <1>3, <1>4, <1>5, <1>6, <1>7, <1>8, <1>9, <1>10, <1>11, <1>12

LEMMA OnlyFoundChanges ==
  ASSUME ErrorInv, SameButFound, UNCHANGED <<queue, general, occurred>>
  PROVE  Numbered' /\ Sorted' /\ Reported' = Reported
  <1>1. Reported' = Reported
    BY FoundIsNoneOfReported
  <1>2. Numbered'
    BY <1>1 DEF ErrorInv, Numbered
  <1>3. IsInjective([k \in DOMAIN report' |-> report'[k].rule])
    BY DEF ErrorInv, Sorted, SameButFound, IsInjective
  <1>4. Sorted'
    BY <1>3 DEF ErrorInv, Sorted, SameButFound
  <1>. QED BY <1>1, <1>2, <1>4

LEMMA ErrorsByBeginRule ==
  ASSUME ErrorInv, BeginRule
  PROVE  /\ ErrorInv' /\ Reported' = Reported \cup {Head(todo)}
  <1>. USE DEF ErrorInv
  <1>1. /\ phase = "walk" /\ ~inWalk /\ inWalk' = TRUE /\ todo # <<>> /\ Head(todo) # NoRule
        /\ report' = AddSpec(Head(todo))
        /\ child' = [child EXCEPT ![Head(todo)] = child[NoRule], ![NoRule] = Head(todo)]
        /\ UNCHANGED <<phase, todo, queue, general, occurred, mailed, round, recipients>>
    BY DEF BeginRule, postVars
  <1>2. PICK r : r = Head(todo)
    OBVIOUS
  <1>3. r \in Rule /\ r \in Buckets /\ NoRule \in Buckets /\ r # NoRule
    BY <1>1, <1>2, HeadTail DEF Typed, Buckets
  <1>4. /\ report' \in Seq(Entries) /\ Reported' = Reported \cup {r}
        /\ DOMAIN report \subseteq DOMAIN report'
        /\ \A k \in DOMAIN report : report'[k] = report[k]
        /\ \A k \in DOMAIN report' \ DOMAIN report :
             /\ k = Len(report) + 1 /\ r \notin Reported
             /\ report'[k] = [rule |-> r, found |-> {}, errors |-> <<>>]
    BY <1>1, <1>2, <1>3, AddSpecAdds
  <1>5. child[NoRule] = "queue" /\ child \in [Buckets -> Buckets \cup {"queue", "none"}]
    BY <1>1 DEF Chained, Typed
  <1>6. /\ child' \in [Buckets -> Buckets \cup {"queue", "none"}]
        /\ child'[NoRule] = r /\ child'[r] = "queue"
    BY <1>1, <1>2, <1>3, <1>5
  <1>7. Typed'
    BY <1>1, <1>4, <1>6 DEF Typed
  <1>8. Chained'
    BY <1>1, <1>2, <1>4, <1>6 DEF Chained
  <1>9. Numbered'
    BY <1>1, <1>4 DEF Numbered
  <1>10. Sorted'
    <2>1. IsInjective([k \in DOMAIN report' |-> report'[k].rule])
      <3>1. ASSUME NEW k \in DOMAIN report', NEW l \in DOMAIN report', report'[k].rule = report'[l].rule
            PROVE  k = l
        <4>1. CASE k \in DOMAIN report /\ l \in DOMAIN report
          BY <3>1, <4>1, <1>4 DEF Sorted, IsInjective
        <4>2. CASE k \notin DOMAIN report /\ l \notin DOMAIN report
          BY <4>2, <1>4
        <4>3. \A i \in DOMAIN report : report'[i].rule \in Reported
          BY <1>4, Entry
        <4>4. \A i \in DOMAIN report' \ DOMAIN report : report'[i].rule \notin Reported
          BY <1>4
        <4>. QED BY <3>1, <4>1, <4>2, <4>3, <4>4
      <3>. QED BY <3>1 DEF IsInjective
    <2>2. ASSUME NEW k \in DOMAIN report' PROVE HasThoseOf(report'[k].errors, occurred', report'[k].rule)
      <3>1. CASE k \in DOMAIN report
        BY <3>1, <1>1, <1>4 DEF Sorted
      <3>2. CASE k \notin DOMAIN report
        <4>1. report'[k].rule = r /\ report'[k].errors = <<>> /\ r \notin Reported
          BY <3>2, <1>4
        <4>2. \A e \in ToSet(occurred) : e[1] # r
          BY <4>1, <1>3, NoRuleApart DEF Numbered, ToSet
        <4>. QED BY <4>1, <4>2, <1>1, NothingListed DEF HasThoseOf
      <3>. QED BY <3>1, <3>2
    <2>. QED BY <1>1, <2>1, <2>2 DEF Sorted
  <1>. QED BY <1>2, <1>4, <1>7, <1>8, <1>9, <1>10

LEMMA ErrorsByNotInSpec ==
  ASSUME ErrorInv, NotInSpec
  PROVE  ErrorInv' /\ Reported' = Reported
  <1>. USE DEF ErrorInv
  <1>1. /\ phase = "walk" /\ ~inWalk /\ todo # <<>> /\ todo' = Tail(todo)
        /\ AddError(<<NoRule, Len(occurred)>>)
        /\ general' = Append(general, <<NoRule, Len(occurred)>>)
        /\ UNCHANGED <<phase, inWalk, child, mailed, round, recipients>>
    BY DEF NotInSpec, postVars
  <1>2. child[NoRule] = "queue"
    BY <1>1 DEF Chained
  <1>3. Chain = {"queue"} /\ NoRule \in Buckets /\ NoRule \notin Rule /\ NoRule # "queue"
    BY <1>2, ChainOfCheck, NoRuleApart DEF Buckets
  <1>4. /\ Numbered' /\ Sorted' /\ Reported' = Reported
        /\ queue' \in Seq(Errors) /\ general' \in Seq(Errors) /\ occurred' \in Seq(Errors)
        /\ report' \in Seq(Entries)
    BY <1>1, <1>3, AddErrorPuts
  <1>5. todo' \in Seq(Buckets)
    BY <1>1, HeadTail DEF Typed
  <1>6. Typed' /\ Chained'
    BY <1>1, <1>2, <1>4, <1>5 DEF Typed, Chained
  <1>. QED BY <1>4, <1>6

LEMMA ErrorsByWalkError ==
  ASSUME ErrorInv, WalkError
  PROVE  ErrorInv' /\ Reported' = Reported
  <1>. USE DEF ErrorInv
  <1>1. /\ phase = "walk" /\ inWalk /\ AddError(<<Head(todo), Len(occurred)>>)
        /\ UNCHANGED <<phase, inWalk, todo, child, general, mailed, round, recipients>>
    BY DEF WalkError, postVars
  <1>2. Head(todo) \in Reported /\ child[NoRule] = Head(todo) /\ child[Head(todo)] = "queue"
    BY <1>1 DEF Chained
  <1>3. PICK r : r = Head(todo)
    OBVIOUS
  <1>4. r \in Rule /\ r \in Buckets /\ r # NoRule /\ r # "queue"
    BY <1>2, <1>3, Entry, NoRuleApart DEF Buckets
  <1>5. Chain = {r, "queue"}
    BY <1>2, <1>3, <1>4, ChainOfWalk
  <1>6. /\ Numbered' /\ Sorted' /\ Reported' = Reported
        /\ queue' \in Seq(Errors) /\ general' \in Seq(Errors) /\ occurred' \in Seq(Errors)
        /\ report' \in Seq(Entries)
    BY <1>1, <1>2, <1>3, <1>4, <1>5, AddErrorPuts
  <1>7. Typed' /\ Chained'
    BY <1>1, <1>6 DEF Typed, Chained
  <1>. QED BY <1>6, <1>7

LEMMA ErrorsByEndRule ==
  ASSUME ErrorInv, NEW kinds \in Findings, EndRule(kinds)
  PROVE  ErrorInv' /\ Reported' = Reported /\ SameButFound
  <1>. USE DEF ErrorInv
  <1>1. /\ phase = "walk" /\ inWalk /\ Find(Head(todo), kinds)
        /\ child' = [child EXCEPT ![NoRule] = child[Head(todo)], ![Head(todo)] = "none"]
        /\ todo' = Tail(todo) /\ inWalk' = FALSE
        /\ UNCHANGED <<phase, queue, general, occurred, mailed, round, recipients>>
    BY DEF EndRule, postVars
  <1>2. /\ Head(todo) \in Reported /\ child[NoRule] = Head(todo) /\ child[Head(todo)] = "queue"
        /\ todo # <<>>
    BY <1>1 DEF Chained
  <1>3. PICK r : r = Head(todo)
    OBVIOUS
  <1>4. r \in Rule /\ r \in Buckets /\ r # NoRule /\ NoRule \in Buckets
    BY <1>2, <1>3, Entry, NoRuleApart DEF Buckets
  <1>5. SameButFound
    BY <1>1, <1>2, FindChangesFound
  <1>6. Numbered' /\ Sorted' /\ Reported' = Reported
    BY <1>1, <1>5, OnlyFoundChanges
  <1>7. child' \in [Buckets -> Buckets \cup {"queue", "none"}] /\ child'[NoRule] = "queue"
    <2>1. child \in [Buckets -> Buckets \cup {"queue", "none"}]
      BY DEF Typed
    <2>. QED BY <2>1, <1>1, <1>2, <1>3, <1>4
  <1>8. todo' \in Seq(Buckets)
    BY <1>1, <1>2, HeadTail DEF Typed
  <1>9. report' \in Seq(Entries)
    BY <1>5 DEF SameButFound
  <1>10. Typed' /\ Chained'
    BY <1>1, <1>7, <1>8, <1>9 DEF Typed, Chained
  <1>. QED BY <1>5, <1>6, <1>10

LEMMA ErrorsByEscape ==
  ASSUME ErrorInv, NEW kinds \in Findings, Escape(kinds)
  PROVE  ErrorInv' /\ Reported' = Reported /\ SameButFound
  <1>. USE DEF ErrorInv
  <1> DEFINE e == <<"escaped", Len(occurred)>>
  <1>1. /\ phase = "walk" /\ inWalk /\ Find(Head(todo), kinds)
        /\ queue' = Append(queue, e) /\ occurred' = Append(occurred, e)
        /\ todo' = <<>> /\ inWalk' = FALSE
        /\ UNCHANGED <<phase, child, general, mailed, round, recipients>>
    BY DEF Escape, postVars
  <1>2. Head(todo) \in Reported
    BY <1>1 DEF Chained
  <1>3. SameButFound /\ Reported' = Reported
    BY <1>1, <1>2, FindChangesFound, FoundIsNoneOfReported
  <1>4. /\ \A errors \in Seq(Errors) : \A r \in Rule \cup {NoRule} :
             HasThoseOf(errors, occurred, r) => HasThoseOf(errors, occurred', r)
        /\ e \in Errors
    <2>1. occurred \in Seq(Errors) /\ \A k \in DOMAIN occurred : occurred[k][2] = k - 1
      BY DEF Typed, Numbered
    <2>2. e \in Errors
      BY <2>1 DEF Errors
    <2>3. ASSUME NEW errors \in Seq(Errors), NEW r \in Rule \cup {NoRule}, HasThoseOf(errors, occurred, r)
          PROVE  HasThoseOf(errors, occurred', r)
      <3>1. r # "escaped"
        BY NoRuleApart
      <3>. QED BY <3>1, <2>1, <2>3, <1>1, OneErrorMore
    <2>. QED BY <2>2, <2>3
  <1>5. Numbered' /\ occurred' \in Seq(Errors)
    BY <1>1, <1>3, <1>4, NumberedOnceMore
  <1>6. queue' \in Seq(Errors)
    BY <1>1, <1>4, Appended DEF Typed
  <1>7. Sorted'
    <2>1. IsInjective([k \in DOMAIN report' |-> report'[k].rule])
      BY <1>3 DEF Sorted, SameButFound, IsInjective
    <2>2. queue' = occurred'
      BY <1>1 DEF Sorted
    <2>3. HasThoseOf(general', occurred', NoRule)
      BY <1>1, <1>4 DEF Sorted, Typed
    <2>4. \A k \in DOMAIN report' : HasThoseOf(report'[k].errors, occurred', report'[k].rule)
      BY <1>3, <1>4, Entry DEF Sorted, SameButFound
    <2>. QED BY <2>1, <2>2, <2>3, <2>4 DEF Sorted
  <1>8. report' \in Seq(Entries)
    BY <1>3 DEF SameButFound
  <1>9. Typed' /\ Chained'
    <2>1. todo' \in Seq(Buckets) /\ todo' = <<>>
      BY <1>1
    <2>. QED BY <2>1, <1>1, <1>5, <1>6, <1>8 DEF Typed, Chained
  <1>. QED BY <1>3, <1>5, <1>7, <1>9

LEMMA ErrorsByFinish ==
  ASSUME ErrorInv, Finish
  PROVE  ErrorInv' /\ Reported' = Reported /\ SameButFound
  <1>. USE DEF ErrorInv
  <1>1. /\ phase = "update" /\ phase' = "end"
        /\ IF interactive THEN Strike ELSE UNCHANGED report
        /\ UNCHANGED <<todo, inWalk, child, queue, general, occurred, mailed, round, recipients>>
    BY DEF Finish, postVars
  <1>2. SameButFound
    BY <1>1, StrikeChangesFound DEF Typed, SameButFound
  <1>3. Numbered' /\ Sorted' /\ Reported' = Reported
    BY <1>1, <1>2, OnlyFoundChanges
  <1>4. report' \in Seq(Entries)
    BY <1>2 DEF SameButFound
  <1>5. Typed' /\ Chained'
    BY <1>1, <1>4 DEF Typed, Chained
  <1>. QED BY <1>2, <1>3, <1>5

LEMMA ErrorsStep == ErrorInv /\ [Next]_allVars => ErrorInv'
  BY ErrorsByBeginRule, ErrorsByNotInSpec, ErrorsByWalkError, ErrorsByEndRule, ErrorsByEscape,
     ErrorsByFinish, ErrorsByOthers DEF Next, CommandStep

LEMMA ErrorsInvariant == Spec => []ErrorInv
  BY ErrorsBegin, ErrorsStep, PTL DEF Spec

-----------------------------------------------------------------------------
(* What the exit status says of the report *)

\* An exception that is once in the list stays there.
LEMMA EscapedStays ==
  ASSUME Typed, Escaped,
         \/ UNCHANGED occurred
         \/ \E e \in Errors : occurred' = Append(occurred, e)
  PROVE  Escaped'
  <1>1. occurred \in Seq(Errors)
    BY DEF Typed
  <1>2. CASE UNCHANGED occurred
    BY <1>2 DEF Escaped
  <1>3. ASSUME NEW e \in Errors, occurred' = Append(occurred, e) PROVE Escaped'
    <2>1. \A k \in DOMAIN occurred : k \in DOMAIN occurred' /\ occurred'[k] = occurred[k]
      BY <1>1, <1>3, Appended
    <2>. QED BY <2>1 DEF Escaped
  <1>. QED BY <1>2, <1>3

LEMMA AddErrorAppends ==
  ASSUME Typed, NEW r \in Buckets, AddError(<<r, Len(occurred)>>)
  PROVE  \E e \in Errors : occurred' = Append(occurred, e)
  <1>1. <<r, Len(occurred)>> \in Errors
    BY DEF Typed, Errors
  <1>. QED BY <1>1 DEF AddError

LEMMA WalkedByWalks ==
  ASSUME ErrorInv, Walked,
         \/ BeginRule \/ NotInSpec \/ WalkError
         \/ \E kinds \in Findings : EndRule(kinds) \/ Escape(kinds)
  PROVE  Walked'
  <1>1. Typed /\ phase = "walk" /\ phase' = "walk" /\ asked' = asked
    BY DEF ErrorInv, BeginRule, NotInSpec, WalkError, EndRule, Escape, options
  <1>2. CASE BeginRule
    <2>1. todo' = todo /\ occurred' = occurred /\ Reported \subseteq Reported'
      BY <1>2, ErrorsByBeginRule DEF BeginRule
    <2>. QED BY <1>1, <2>1 DEF Walked, Escaped
  <1>3. CASE NotInSpec
    <2>1. NoRule \in Buckets
      BY DEF Buckets
    <2>2. Escaped => Escaped'
      BY <1>1, <1>3, <2>1, AddErrorAppends, EscapedStays DEF NotInSpec
    <2>3. todo # <<>> /\ Head(todo) = NoRule /\ todo' = Tail(todo) /\ todo \in Seq(Buckets)
      BY <1>1, <1>3 DEF NotInSpec, Typed
    <2>4. ToSet(todo) = {NoRule} \cup ToSet(todo')
      BY <2>3, HeadTail
    <2>5. Reported' = Reported
      BY <1>3, ErrorsByNotInSpec
    <2>. QED BY <1>1, <2>2, <2>4, <2>5 DEF Walked
  <1>4. CASE WalkError
    <2>1. Head(todo) \in Buckets
      BY <1>4, Entry DEF WalkError, ErrorInv, Chained, Buckets
    <2>2. Escaped => Escaped'
      BY <1>1, <1>4, <2>1, AddErrorAppends, EscapedStays DEF WalkError
    <2>. QED BY <1>1, <1>4, <2>2, ErrorsByWalkError DEF WalkError, Walked
  <1>5. ASSUME NEW kinds \in Findings, EndRule(kinds) PROVE Walked'
    <2>1. todo # <<>> /\ Head(todo) \in Reported /\ todo' = Tail(todo) /\ occurred' = occurred
      BY <1>5 DEF EndRule, ErrorInv, Chained
    <2>2. ToSet(todo) = {Head(todo)} \cup ToSet(todo')
      BY <1>1, <2>1, HeadTail DEF Typed
    <2>3. Reported' = Reported
      BY <1>5, ErrorsByEndRule
    <2>. QED BY <1>1, <2>1, <2>2, <2>3 DEF Walked, Escaped
  <1>6. ASSUME NEW kinds \in Findings, Escape(kinds) PROVE Walked'
    <2>1. occurred' = Append(occurred, <<"escaped", Len(occurred)>>) /\ occurred \in Seq(Errors)
      BY <1>1, <1>6 DEF Escape, Typed
    <2>2. <<"escaped", Len(occurred)>> \in Errors
      BY <2>1 DEF Errors
    <2>3. Len(occurred) + 1 \in DOMAIN occurred' /\ occurred'[Len(occurred) + 1][1] = "escaped"
      BY <2>1, <2>2, Appended
    <2>4. Escaped'
      BY <2>3 DEF Escaped
    <2>. QED BY <1>1, <2>4 DEF Walked
  <1>. QED BY <1>2, <1>3, <1>4, <1>5, <1>6

LEMMA StatusBegins == Init => StatusInv
  BY DEF Init, StatusInv, Walked, Saved, StatusTellsReport

LEMMA StatusByWalks ==
  ASSUME ErrorInv, StatusInv,
         \/ BeginRule \/ NotInSpec \/ WalkError
         \/ \E kinds \in Findings : EndRule(kinds) \/ Escape(kinds)
  PROVE  StatusInv'
  <1>1. phase' = "walk" /\ UNCHANGED <<byEmail, mailed, brokenOff>>
    BY DEF BeginRule, NotInSpec, WalkError, EndRule, Escape, options, postVars
  <1>. QED BY <1>1, WalkedByWalks DEF StatusInv, Saved, StatusTellsReport

LEMMA StatusByFinish ==
  ASSUME ErrorInv, StatusInv, Finish
  PROVE  StatusInv'
  <1>1. /\ phase = "update" /\ phase' = "end" /\ status' = ExitStatus(report')
        /\ UNCHANGED <<asked, todo, occurred, queue, saved, mailed, brokenOff, byEmail, interactive>>
        /\ ~interactive => report' = report
    BY DEF Finish, options, postVars
  <1>2. Reported' = Reported
    BY ErrorsByFinish
  <1>3. Walked'
    BY <1>1, <1>2 DEF StatusInv, Walked, Escaped
  <1>4. Saved'
    BY <1>1 DEF StatusInv, Saved
  <1>5. saved' = <<report>> /\ saved'[1] = report /\ saved' # <<>>
    BY <1>1 DEF StatusInv, Saved
  <1>6. StatusTellsReport'
    <2>. SUFFICES ASSUME "error" \notin status'
                  PROVE  /\ saved' # <<>> /\ ~brokenOff'
                         /\ \/ \E k \in DOMAIN queue' : queue'[k][1] = "escaped"
                            \/ ToSet(asked') \ {NoRule}
                                 \subseteq {saved'[1][k].rule : k \in DOMAIN saved'[1]}
                         /\ ~interactive' => status' = KindsIn(saved'[1])
      BY <1>1 DEF StatusTellsReport
    <2>1. byEmail => mailed
      BY <1>1 DEF ExitStatus
    <2>2. ~brokenOff'
      BY <1>1, <2>1 DEF StatusInv, Saved
    <2>3. {saved'[1][k].rule : k \in DOMAIN saved'[1]} = Reported
      BY <1>5 DEF Reported
    <2>4. \/ \E k \in DOMAIN queue' : queue'[k][1] = "escaped"
          \/ ToSet(asked') \ {NoRule} \subseteq Reported
      BY <1>1, NothingListed DEF StatusInv, Walked, Escaped, ErrorInv, Sorted
    <2>5. ~interactive' => status' = KindsIn(saved'[1])
      BY <1>1, <1>5, <2>1 DEF ExitStatus, GetICReturnValue, KindsIn
    <2>. QED BY <1>5, <2>2, <2>3, <2>4, <2>5
  <1>. QED BY <1>3, <1>4, <1>6 DEF StatusInv

LEMMA StatusByOthers ==
  ASSUME ErrorInv, StatusInv,
         \/ CannotStart \/ Start \/ EndWalk \/ SkipRecipient \/ Send \/ MailEnds \/ MailDies
         \/ NextRound \/ SaveReport \/ UpdateFails \/ ServerSteps \/ UNCHANGED allVars
  PROVE  StatusInv'
  <1>1. Reported' = Reported /\ UNCHANGED <<todo, occurred, queue, report>>
    BY ErrorsByOthers DEF walkVars
  <1>2. asked' = asked
    BY DEF CannotStart, Start, EndWalk, SkipRecipient, Send, MailEnds, MailHasEnded, MailDies, NextRound,
           SaveReport, UpdateFails, ServerSteps, allVars, checkVars, options
  <1>3. phase' \in {"mail", "save", "update"} => phase \in {"mail", "save", "update"} \/ todo = <<>>
    BY DEF CannotStart, Start, EndWalk, SkipRecipient, Send, MailEnds, MailHasEnded, MailDies, NextRound, Fails,
           SaveReport, UpdateFails, ServerSteps, allVars, checkVars
  <1>4. Walked'
    BY <1>1, <1>2, <1>3 DEF StatusInv, Walked, Escaped
  <1>5. Saved'
    <2>1. CASE EndWalk
      BY <2>1 DEF EndWalk, StatusInv, Saved
    <2>2. CASE SaveReport
      BY <1>1, <2>2 DEF SaveReport, StatusInv, Saved, Fails, postVars
    <2>3. CASE MailEnds
      BY <2>3 DEF MailEnds, MailHasEnded, Sending, StatusInv, Saved, options
    <2>4. CASE CannotStart \/ Start \/ SkipRecipient \/ Send \/ MailDies
               \/ NextRound \/ UpdateFails \/ ServerSteps \/ UNCHANGED allVars
      <3>1. /\ UNCHANGED <<byEmail, mailed, brokenOff, saved>>
            /\ phase' \in {"mail", "update"} => phase' = phase
        BY <2>4 DEF CannotStart, Start, SkipRecipient, Send, MailDies, NextRound, Fails, Sending,
             UpdateFails, ServerSteps, allVars, checkVars, options, postVars, endVars
      <3>. QED BY <3>1, <1>1 DEF StatusInv, Saved
    <2>. QED BY <2>1, <2>2, <2>3, <2>4
  <1>6. StatusTellsReport'
    <2>1. CASE ServerSteps \/ UNCHANGED allVars
      BY <2>1, <1>1 DEF ServerSteps, allVars, checkVars, options, postVars, endVars,
                        StatusInv, StatusTellsReport
    <2>2. CASE CannotStart \/ Start \/ EndWalk \/ SkipRecipient \/ Send \/ MailEnds \/ MailDies
               \/ NextRound \/ SaveReport \/ UpdateFails
      <3>1. phase' = "end" => status' = {"error"}
        BY <2>2 DEF CannotStart, Start, EndWalk, SkipRecipient, Send, MailEnds, MailHasEnded, MailDies, NextRound,
             Fails, Sending, SaveReport, UpdateFails, checkVars, options, endVars
      <3>. QED BY <3>1 DEF StatusTellsReport
    <2>. QED BY <2>1, <2>2
  <1>. QED BY <1>4, <1>5, <1>6 DEF StatusInv

LEMMA StatusStep == ErrorInv /\ StatusInv /\ [Next]_allVars => StatusInv'
  BY StatusByWalks, StatusByFinish, StatusByOthers DEF Next, CommandStep

LEMMA StatusInvariant == Spec => []StatusInv
  BY StatusBegins, StatusStep, ErrorsInvariant, PTL DEF Spec

-----------------------------------------------------------------------------
(* What it says of the mail *)

LEMMA MailStep ==
  ASSUME MailInv, [Next]_allVars
  PROVE  MailInv'
  <1>1. CASE ServerSteps
    BY <1>1, ServerKeepsMail, ClientKeepsMail DEF ServerSteps
  <1>2. CASE Send
    BY <1>2, ClientKeepsMail DEF Send
  <1>3. CASE MailEnds \/ MailDies
    BY <1>3, DiscardKeepsMail DEF MailEnds, MailHasEnded, MailDies
  <1>4. ASSUME UNCHANGED mailVars PROVE MailInv'
    BY <1>4 DEF mailVars, MailInv, InStep
  <1>5. CASE \/ CannotStart \/ Start \/ BeginRule \/ NotInSpec \/ WalkError
             \/ \E kinds \in Findings : EndRule(kinds) \/ Escape(kinds)
             \/ EndWalk \/ SkipRecipient \/ NextRound \/ SaveReport \/ UpdateFails \/ Finish
             \/ UNCHANGED allVars
    BY <1>4, <1>5 DEF CannotStart, Start, BeginRule, NotInSpec, WalkError, EndRule, Escape, EndWalk,
                      SkipRecipient, NextRound, SaveReport, UpdateFails, Finish, allVars
  <1>. QED BY <1>1, <1>2, <1>3, <1>5 DEF Next, CommandStep

\* An address that does not concern anybody has no rule with a violation.
LEMMA UnconcernedHasNothing ==
  ASSUME NEW a, ~Concerned(round, a)
  PROVE  /\ \A k \in DOMAIN report : a \in ToSet(EmailTo[report[k].rule]) => report[k].found = {}
         /\ round = "global" => KindsIn(report) = {}
  <1>1. FoundBy(RulesOf(round, a)) = {}
    BY DEF Concerned
  <1>2. ASSUME NEW k \in DOMAIN report, report[k].rule \in RulesOf(round, a)
        PROVE  report[k].found = {}
    BY <1>1, <1>2 DEF FoundBy
  <1>3. \A k \in DOMAIN report : report[k].rule \in Reported
    BY DEF Reported
  <1>4. \A k \in DOMAIN report : a \in ToSet(EmailTo[report[k].rule]) => report[k].found = {}
    BY <1>2, <1>3 DEF RulesOf
  <1>5. ASSUME round = "global" PROVE KindsIn(report) = {}
    BY <1>2, <1>3, <1>5 DEF RulesOf, KindsIn
  <1>. QED BY <1>4, <1>5

\* The head of the recipients is dealt with: told, or not concerned.
LEMMA HeadDealtWith ==
  ASSUME ErrorInv, Telling, phase = "mail", mailed, recipients # <<>>, recipients' = Tail(recipients),
         UNCHANGED <<phase, mailed, round, report>>, told \subseteq told',
         <<round, Head(recipients)>> \in told' \/ ~Concerned(round, Head(recipients))
  PROVE  Telling'
  <1>1. ToSet(recipients) = {Head(recipients)} \cup ToSet(recipients')
    BY HeadTail DEF ErrorInv, Typed
  <1>2. CASE round = "rules"
    <2>1. ASSUME NEW k \in DOMAIN report, report[k].found # {}, NEW a \in ToSet(EmailTo[report[k].rule])
          PROVE  <<"rules", a>> \in told' \/ a \in ToSet(recipients')
      <3>1. <<"rules", a>> \in told \/ a \in ToSet(recipients)
        BY <1>2, <2>1 DEF Telling, RulesTold
      <3>2. CASE a = Head(recipients)
        BY <1>2, <2>1, <3>2, UnconcernedHasNothing
      <3>. QED BY <3>1, <3>2, <1>1
    <2>. QED BY <1>2, <2>1 DEF Telling, RulesTold
  <1>3. CASE round # "rules"
    <2>1. RulesTold({})'
      BY <1>3 DEF Telling, RulesTold
    <2>2. ASSUME KindsIn(report) # {}, NEW a \in ToSet(GlobalEmail)
          PROVE  <<"global", a>> \in told' \/ a \in ToSet(recipients')
      <3>1. <<"global", a>> \in told \/ a \in ToSet(recipients)
        BY <1>3, <2>2 DEF Telling, GlobalTold
      <3>2. CASE a = Head(recipients)
        BY <1>3, <2>2, <3>2, UnconcernedHasNothing DEF ErrorInv, Typed
      <3>. QED BY <3>1, <3>2, <1>1
    <2>3. GlobalTold(ToSet(recipients))'
      BY <2>2 DEF GlobalTold
    <2>. QED BY <1>3, <2>1, <2>3 DEF Telling
  <1>. QED BY <1>2, <1>3

LEMMA ToldByMailEnds ==
  ASSUME ErrorInv, MailInv, Telling, MailEnds
  PROVE  Telling'
  <1>1. /\ phase = "mail" /\ recipients # <<>> /\ recipients' = Tail(recipients)
        /\ result \in {"sent", "unsent", "thrown"} /\ mailed' = (mailed /\ result # "thrown")
        /\ told' = IF accepted \/ ~prompt \/ result = "unsent"
                   THEN told \cup {<<round, Head(recipients)>>} ELSE told
        /\ UNCHANGED <<phase, round, report>>
    BY DEF MailEnds, MailHasEnded, Sending, walkVars
  <1>2. CASE mailed'
    <2>1. mailed /\ result \in {"sent", "unsent"} /\ mailed' = mailed
      BY <1>1, <1>2 DEF ErrorInv, Typed
    <2>2. accepted \/ ~prompt \/ result = "unsent"
      BY <2>1 DEF MailInv
    <2>. QED BY <1>1, <2>1, <2>2, HeadDealtWith
  <1>3. CASE ~mailed'
    BY <1>1, <1>3 DEF Telling
  <1>. QED BY <1>2, <1>3

LEMMA ToldByEndWalk ==
  ASSUME ErrorInv, Telling, EndWalk
  PROVE  Telling'
  <1>1. ~byEmail /\ round = "rules" /\ UNCHANGED <<round, report, mailed, told>>
    BY DEF EndWalk, Telling, walkVars
  <1>2. CASE phase' = "save"
    <2>1. byEmail' = byEmail
      BY <1>2 DEF EndWalk
    <2>. QED BY <1>1, <1>2, <2>1 DEF Telling
  <1>3. CASE phase' = "mail"
    <2>1. ToSet(recipients') = UNION {ToSet(EmailTo[r]) : r \in Reported}
      BY <1>3, OnceEach DEF EndWalk, GetEmailRecipients
    <2>2. RulesTold(ToSet(recipients))'
      BY <1>1, <2>1 DEF RulesTold, Reported
    <2>. QED BY <1>1, <1>3, <2>2 DEF Telling
  <1>. QED BY <1>2, <1>3 DEF EndWalk

LEMMA ToldByNextRound ==
  ASSUME ErrorInv, Telling, NextRound
  PROVE  Telling'
  <1>1. phase = "mail" /\ recipients = <<>> /\ UNCHANGED <<report, told, mailed, byEmail>>
    BY DEF NextRound, walkVars, options
  <1>2. CASE round = "rules" /\ mailed
    <2>1. round' = "global" /\ phase' = "mail" /\ ToSet(recipients') = ToSet(GlobalEmail)
      BY <1>1, <1>2, OnceEach DEF NextRound, GetGlobalEmailRecipients
    <2>2. RulesTold({})'
      BY <1>1, <1>2, NothingListed DEF Telling, RulesTold
    <2>3. GlobalTold(ToSet(recipients))'
      BY <2>1 DEF GlobalTold
    <2>. QED BY <2>1, <2>2, <2>3 DEF Telling
  <1>3. CASE ~(round = "rules" /\ mailed)
    <2>1. phase' = "save"
      BY <1>3 DEF NextRound
    <2>2. ASSUME mailed' PROVE RulesTold({})' /\ GlobalTold({})'
      <3>1. RulesTold({}) /\ GlobalTold(ToSet(recipients))
        BY <1>1, <1>3, <2>2 DEF Telling
      <3>. QED BY <3>1, <1>1, NothingListed DEF RulesTold, GlobalTold
    <2>. QED BY <2>1, <2>2 DEF Telling
  <1>. QED BY <1>2, <1>3

LEMMA ToldByOthers ==
  ASSUME ErrorInv, Telling,
         \/ CannotStart \/ Start \/ BeginRule \/ NotInSpec \/ WalkError
         \/ \E kinds \in Findings : EndRule(kinds) \/ Escape(kinds)
         \/ Send \/ MailDies \/ SaveReport \/ UpdateFails \/ Finish
         \/ ServerSteps \/ UNCHANGED allVars
  PROVE  Telling'
  <1>1. CASE CannotStart \/ MailDies \/ UpdateFails \/ Finish
    BY <1>1 DEF CannotStart, MailDies, UpdateFails, Finish, Fails, Telling
  <1>2. CASE \/ Start \/ BeginRule \/ NotInSpec \/ WalkError
             \/ \E kinds \in Findings : EndRule(kinds) \/ Escape(kinds)
    <2>1. phase' = "walk" /\ phase \in {"start", "walk"} /\ UNCHANGED <<byEmail, round>>
      BY <1>2 DEF Start, BeginRule, NotInSpec, WalkError, EndRule, Escape, options, postVars
    <2>. QED BY <2>1 DEF Telling
  <1>3. CASE SaveReport
    <2>1. /\ phase = "save" /\ phase' \in {"update", "end"}
          /\ UNCHANGED <<byEmail, mailed, report, told>>
      BY <1>3 DEF SaveReport, Fails, walkVars, postVars
    <2>. QED BY <2>1 DEF Telling, RulesTold, GlobalTold
  <1>4. CASE Send \/ ServerSteps \/ UNCHANGED allVars
    <2>1. UNCHANGED <<phase, byEmail, mailed, report, told, round, recipients>>
      BY <1>4 DEF Send, ServerSteps, allVars, checkVars, walkVars, postVars, options
    <2>. QED BY <2>1 DEF Telling, RulesTold, GlobalTold
  <1>. QED BY <1>1, <1>2, <1>3, <1>4

LEMMA TellingStep ==
  ASSUME ErrorInv, MailInv, Telling, [Next]_allVars
  PROVE  Telling'
  <1>1. CASE SkipRecipient
    <2>1. /\ phase = "mail" /\ recipients # <<>> /\ recipients' = Tail(recipients)
          /\ ~Concerned(round, Head(recipients))
          /\ UNCHANGED <<phase, mailed, round, report, told>>
      BY <1>1 DEF SkipRecipient, walkVars
    <2>2. CASE mailed
      BY <2>1, <2>2, HeadDealtWith
    <2>3. CASE ~mailed
      BY <2>1, <2>3 DEF Telling
    <2>. QED BY <2>2, <2>3
  <1>. QED BY <1>1, ToldByMailEnds, ToldByEndWalk, ToldByNextRound, ToldByOthers DEF Next, CommandStep

LEMMA QuietStep ==
  ASSUME ErrorInv, StatusInv, Telling, QuietMeansTold, [Next]_allVars
  PROVE  QuietMeansTold'
  <1>1. CASE Finish
    <2>1. /\ phase = "update" /\ status' = ExitStatus(report')
          /\ UNCHANGED <<saved, told, byEmail, mailed>>
      BY <1>1 DEF Finish, options, postVars
    <2>2. saved = <<report>> /\ saved'[1] = report
      BY <2>1 DEF StatusInv, Saved
    <2>. SUFFICES ASSUME "error" \notin status', byEmail'
                  PROVE  /\ \A k \in DOMAIN saved'[1] : saved'[1][k].found # {} =>
                              \A a \in ToSet(EmailTo[saved'[1][k].rule]) : <<"rules", a>> \in told'
                         /\ KindsIn(saved'[1]) # {} => {"global"} \X ToSet(GlobalEmail) \subseteq told'
      BY DEF QuietMeansTold
    <2>3. mailed /\ byEmail
      BY <2>1 DEF ExitStatus
    <2>4. RulesTold({}) /\ GlobalTold({})
      BY <2>1, <2>3 DEF Telling
    <2>. QED BY <2>1, <2>2, <2>4 DEF RulesTold, GlobalTold
  <1>2. CASE ServerSteps \/ UNCHANGED allVars
    BY <1>2 DEF ServerSteps, allVars, checkVars, options, postVars, endVars, QuietMeansTold
  <1>3. CASE \/ CannotStart \/ Start \/ BeginRule \/ NotInSpec \/ WalkError
             \/ \E kinds \in Findings : EndRule(kinds) \/ Escape(kinds)
             \/ EndWalk \/ SkipRecipient \/ Send \/ MailEnds \/ MailDies
             \/ NextRound \/ SaveReport \/ UpdateFails
    <2>1. phase' = "end" => status' = {"error"}
      BY <1>3 DEF CannotStart, Start, BeginRule, NotInSpec, WalkError, EndRule, Escape, EndWalk,
           SkipRecipient, Send, MailEnds, MailHasEnded, MailDies, NextRound, Fails, Sending, SaveReport,
           UpdateFails, checkVars, options, endVars
    <2>. QED BY <2>1 DEF QuietMeansTold
  <1>. QED BY <1>1, <1>2, <1>3 DEF Next, CommandStep

LEMMA ToldBegins == Init => ToldInv
  BY MailBegins DEF Init, ToldInv, Telling, QuietMeansTold

LEMMA ToldInvariant == Spec => []ToldInv
  <1>1. ErrorInv /\ StatusInv /\ ToldInv /\ [Next]_allVars => ToldInv'
    BY MailStep, TellingStep, QuietStep DEF ToldInv
  <1>. QED BY <1>1, ToldBegins, ErrorsInvariant, StatusInvariant, PTL DEF Spec

-----------------------------------------------------------------------------
(* Theorems *)

(* However many rules are walked, whichever of them are come to again and   *)
(* whatever errors and exceptions occur, each error is once in the queue of *)
(* the program and in that of its own rule, and in no other.                *)
THEOREM ErrorsSorted == Spec => []ErrorsUnderTheirRule
  <1>1. ErrorInv => ErrorsUnderTheirRule
    BY DEF ErrorInv, Sorted, HasThoseOf, ErrorsUnderTheirRule
  <1>. QED BY <1>1, ErrorsInvariant, PTL

(* An exit status without the bit of an error means that the report was     *)
(* written, that it has every rule that was to be checked unless the queue  *)
(* of the program has the exception that cut the check short, that no Send  *)
(* was left by an error, and without an update that the bits are what the   *)
(* file says.                                                               *)
THEOREM StatusTellsTruth == Spec => []StatusTellsReport
  <1>1. StatusInv => StatusTellsReport
    BY DEF StatusInv
  <1>. QED BY <1>1, StatusInvariant, PTL

(* Nor need anybody who should have had mail wonder about it, whatever the  *)
(* server did, but for answers that come late or in pieces and for a Send   *)
(* that returns false.                                                      *)
THEOREM NobodyForgotten == Spec => []QuietMeansTold
  <1>1. ToldInv => QuietMeansTold
    BY DEF ToldInv
  <1>. QED BY <1>1, ToldInvariant, PTL
=============================================================================
