----------------------------- MODULE MailMessage -----------------------------
(* Sending one message: cSMTPMailMessage (tripwire/smtpmailmessage.cpp), a  *)
(* conversation with a server over a connection, and cPipedMailMessage      *)
(* (tripwire/pipedmailmessage.cpp), a mail program that is run.  The server *)
(* takes commands in order and answers each of them, but an answer may come *)
(* in two pieces, late or never, and the connection may end at any moment.  *)
(* The client waits for one piece of an answer after each command, and not  *)
(* for ever; for the return of the calls that connect, that send, and that  *)
(* run the program it waits as long as the other side takes.                *)
EXTENDS Naturals, Sequences

VARIABLES result,   \* "none": no message, "calling": in a call that the other
                    \*   side has to let return, "open": waiting for an answer,
                    \*   "sent": Send returned true, "unsent": it returned false,
                    \*   "thrown": an eError left it, "died": another exception
          at,       \* the command whose answer the client waits for
          attached, \* the report could be read and is part of the message
          served,   \* the commands the server has answered
          replies,  \* the pieces of answers on their way
          link,     \* "up", "shut" (by the server) or "reset"
          refused,  \* the server has answered a command with an error
          accepted, \* the server or the mail program has taken the message
          prompt    \* every answer so far has come in one piece and in time

serverVars == <<served, refused, accepted>>
mailVars == <<result, at, attached, served, replies, link, refused, accepted, prompt>>

Commands == <<"greeting", "HELO", "MAIL", "RCPT", "DATA", "text">>
LastCommand == Len(Commands)

NoMail ==
  /\ result = "none" /\ at = 0 /\ attached = TRUE
  /\ served = 0 /\ replies = <<>> /\ link = "up"
  /\ refused = FALSE /\ accepted = FALSE /\ prompt = TRUE

MailDone == result \in {"sent", "unsent", "thrown", "died"}

\* The call under way need not return: a server reads no more and holds the
\* connection open, a name server or a host is silent, a program runs on.
Held == result = "calling" /\ link # "reset"

\* The next message is another object's.
Discard ==
  /\ result' = "none" /\ at' = 0 /\ attached' = TRUE
  /\ served' = 0 /\ replies' = <<>> /\ link' = "up"
  /\ refused' = FALSE /\ accepted' = FALSE /\ prompt' = TRUE

-----------------------------------------------------------------------------
(* The server.                                                              *)

\* After a refusal nothing else is accepted in this conversation.
Answer ==
  /\ result \in {"open", "calling"} /\ link = "up" /\ served < at
  /\ \E ok \in BOOLEAN, pieces \in 1 .. 2 :
       LET good == ok /\ ~refused
       IN  /\ replies' = replies \o [k \in 1 .. pieces |-> IF good THEN "ok" ELSE "bad"]
           /\ refused' = ~good
           /\ accepted' = (good /\ served + 1 = LastCommand)
           /\ prompt' = (prompt /\ pieces = 1)
  /\ served' = served + 1
  /\ UNCHANGED <<result, at, attached, link>>

\* The server closes the connection, or it is reset: what was not received
\* yet is lost then.
EndConnection ==
  /\ result \in {"open", "calling"} /\ at > 0 /\ link = "up"
  /\ \E how \in {"shut", "reset"} :
       /\ link' = how
       /\ replies' = IF how = "reset" THEN <<>> ELSE replies
  /\ UNCHANGED <<result, at, attached, prompt, serverVars>>

Server == Answer \/ EndConnection

-----------------------------------------------------------------------------
(* cSMTPMailMessage.                                                        *)

\* Send: the name of the server is looked up, or the program is started.
BeginMail ==
  /\ result = "none" /\ result' = "calling"
  /\ UNCHANGED <<at, attached, replies, link, prompt, serverVars>>

\* OpenConnection: the name cannot be resolved, nobody listens, or somebody
\* does.
OpenConnection ==
  /\ result = "calling" /\ at = 0
  /\ \/ result' = "thrown" /\ UNCHANGED at
     \/ result' = "open" /\ at' = 1
  /\ UNCHANGED <<attached, replies, link, prompt, serverVars>>

\* The answer was taken for a good one: the next command is to be sent, the
\* text with whatever of the report can be read, QUIT after that.  The name of
\* the host may be unknown when HELO needs it; closing the connection may fail.
Proceed ==
  /\ \/ result' = "calling"
     \/ Commands[at] = "greeting" /\ result' \in {"unsent", "thrown"}
  /\ IF Commands[at] = "DATA" THEN attached' \in BOOLEAN ELSE UNCHANGED attached
  /\ UNCHANGED at

\* The socket is closed, which may fail; Send tells of what could not be read.
CloseConnection == result' \in {IF attached THEN "sent" ELSE "unsent", "thrown"}

\* SendString: send returns, with what nobody looks at, and the answer is
\* waited for, but not after QUIT.
SendString ==
  /\ result = "calling" /\ at > 0
  /\ IF at = LastCommand
     THEN CloseConnection /\ UNCHANGED at
     ELSE result' = "open" /\ at' = at + 1
  /\ UNCHANGED <<attached, replies, link, prompt, serverVars>>

\* The number of the answer is 0 when there is none.
Decode(code) ==
  IF code = "ok" THEN Proceed ELSE result' = "thrown" /\ UNCHANGED <<at, attached>>

\* recv takes what has arrived; the number at its beginning counts.
Receive ==
  /\ result = "open" /\ replies # <<>>
  /\ \E n \in 1 .. Len(replies) : replies' = SubSeq(replies, n + 1, Len(replies))
  /\ Decode(Head(replies))
  /\ UNCHANGED <<link, prompt, serverVars>>

\* Variant: the client waits for another minute.
TimeOutAgain ==
  /\ result = "open" /\ replies = <<>> /\ link = "up"
  /\ prompt' = FALSE
  /\ UNCHANGED <<result, at, attached, replies, link, serverVars>>
\* Nothing for sixty seconds: sRecvString has not been written to, and what it
\* holds from an earlier call is decoded.
TimeOut ==
  /\ result = "open" /\ replies = <<>> /\ link = "up"
  /\ \E stale \in {"ok", "bad"} : Decode(stale)
  /\ prompt' = FALSE
  /\ UNCHANGED <<replies, link, serverVars>>

\* recv returns 0.
ReceiveEnd ==
  /\ result = "open" /\ replies = <<>> /\ link = "shut"
  /\ Decode("bad")
  /\ UNCHANGED <<replies, link, prompt, serverVars>>

\* recv returns -1, and std::string(sTempString, -1) throws a length_error.
ReceiveError ==
  /\ result = "open" /\ link = "reset"
  /\ result' = "died"
  /\ UNCHANGED <<at, attached, replies, link, prompt, serverVars>>

GetAcknowledgement == Receive \/ TimeOut \/ ReceiveEnd \/ ReceiveError

-----------------------------------------------------------------------------
(* cPipedMailMessage: the program cannot be started or ends with an error,  *)
(* or it takes the message, with the report or, if that cannot be read,     *)
(* without, and ends.                                                       *)
PipeMail ==
  /\ result = "calling" /\ at = 0
  /\ \/ /\ result' = "thrown"
        /\ UNCHANGED <<attached, accepted>>
     \/ /\ result' = "sent"
        /\ attached' \in BOOLEAN
        /\ accepted' = TRUE
  /\ UNCHANGED <<at, served, replies, link, refused, prompt>>
=============================================================================
