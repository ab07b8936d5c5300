-------------------------------- MODULE Relayer --------------------------------
(***************************************************************************)
(* The relayer's HTTP handlers and the database they share                 *)
(* (packages/relayer/src: handler.rs, mail.rs, dkim.rs, prove.rs and       *)
(* model.rs).  A handler is a sequence of steps, one for every await that  *)
(* reads or writes shared state; handlers interleave at these steps, and   *)
(* the client of a handler may disconnect (axum drops the task) or its     *)
(* process may crash between any two of them.                              *)
(*                                                                         *)
(* The database, the mail server, DNS, the oracle and the prover are       *)
(* external: what they may do wrong is chosen by Faults.                   *)
(***************************************************************************)
EXTENDS ChainClient

CONSTANTS
    Requests,        \* the ids that create_request returns, one for each submitted body
    SubmitReplica,   \* SubmitReplica[r]: the process that handles the submission of r
    UsesChain,       \* the requests whose body names a chain and a DKIM contract
    UnknownId, NoId, \* what a mail may carry instead of the id of a request
    Pollers,         \* the calls of the status endpoint
    PollReplica      \* PollReplica[q]: the process that handles status call q

ASSUME RequestAssumption ==
    /\ SubmitReplica \in [Requests -> Replicas]
    /\ PollReplica \in [Pollers -> Replicas]
    /\ UsesChain \subseteq Requests
    /\ UnknownId \notin Requests /\ NoId \notin Requests

VARIABLES
    rows,       \* rows[r]: the status column of request r, or NoRow
    expected,   \* the requests with a row in expected_replies
    saved,      \* the rows of email_auth_messages: for which request, by which handler
    mails,      \* the mails given to the mail server
    submitPc,   \* where the handler of r's submission is
    receivePc,  \* where handler c of an inbound mail is
    email,      \* email[c]: the request id and the DKIM key of the mail c handles
    query,      \* query[q]: a status call, and what it has read
    up          \* the processes that serve

dbVars == <<rows, expected, saved>>
relayerVars == <<dbVars, mails, submitPc, receivePc, email, query, up>>
vars == <<chainVars, relayerVars>>

NoRow == "no row"
Statuses == {"Request received", "Email sent", "Email response received", "Proving",
             "Performing on chain transaction", "Finished"}
Answered == {"200", "400", "500", "dropped"}
NoMail == [request |-> NoId, key |-> NoKey]
NoQuery == [pc |-> "idle", request |-> NoId, status |-> NoRow, response |-> FALSE]

Init ==
    /\ ChainInit
    /\ rows = [r \in Requests |-> NoRow]
    /\ expected = {}
    /\ saved = {}
    /\ mails = {}
    /\ submitPc = [r \in Requests |-> "idle"]
    /\ receivePc = [c \in Callers |-> "idle"]
    /\ email = [c \in Callers |-> NoMail]
    /\ query = [q \in Pollers |-> NoQuery]
    /\ up = {}

\* A call to an external service works, fails, or works and its answer is lost.
Outcomes(fault) ==
    {[ok |-> TRUE, applied |-> TRUE]} \union
    IF fault \in Faults THEN [ok : {FALSE}, applied : BOOLEAN] ELSE {}

AddIf(set, x, outcome) == IF outcome.applied THEN set \union {x} ELSE set

\* The template of a mail, a file of its own for each kind, may be missing or not render:
\* then no mail is sent.
render_html(template) == IF template \in Faults THEN [ok : {FALSE}, applied : {FALSE}] ELSE {}

send_email(template) == render_html(template) \union Outcomes("smtp")

\* UPDATE requests SET status WHERE id: no error when there is no such row.
update_request(id, status, outcome) ==
    rows' = [r \in Requests |->
                IF r = id /\ rows[r] # NoRow /\ outcome.applied THEN status ELSE rows[r]]

\* Mutation: two arguments are swapped.
MailSwapped(kind, r, by) == [kind |-> kind, request |-> by, by |-> r]

\* Every mail names the handler that sent it; a Command mail is sent by the submission.
Mail(kind, r, by) == [kind |-> kind, request |-> r, by |-> by]

-------------------------------------------------------------------------------
\* submit_handler, for the body that becomes request r

SubmitGoto(r, pc) == submitPc' = [submitPc EXCEPT ![r] = pc]

create_request(r) ==
    /\ SubmitReplica[r] \in up
    /\ submitPc[r] = "idle"
    /\ \E outcome \in Outcomes("db") :
        /\ rows' = [rows EXCEPT ![r] = IF outcome.applied THEN "Request received" ELSE @]
        /\ SubmitGoto(r, IF outcome.ok THEN "mail" ELSE "500")
    /\ UNCHANGED <<chainVars, expected, saved, mails, receivePc, email, query, up>>

\* Mutation: the mail server's answer is not looked at.
SendCommandUnchecked(r) ==
    /\ submitPc[r] = "mail"
    /\ \E outcome \in send_email("commandTemplate") :
        mails' = AddIf(mails, Mail("Command", r, r), outcome)
    /\ SubmitGoto(r, "expect")
    /\ UNCHANGED <<chainVars, dbVars, receivePc, email, query, up>>

\* Mutation: the mail is sent without ExpectsReply.
SendCommandNoReply(r) ==
    /\ submitPc[r] = "mail"
    /\ \E outcome \in send_email("commandTemplate") :
        /\ mails' = AddIf(mails, Mail("Command", r, r), outcome)
        /\ SubmitGoto(r, IF outcome.ok THEN "sent" ELSE "500")
    /\ UNCHANGED <<chainVars, dbVars, receivePc, email, query, up>>

SendCommand(r) ==
    /\ submitPc[r] = "mail"
    /\ \E outcome \in send_email("commandTemplate") :
        /\ mails' = AddIf(mails, Mail("Command", r, r), outcome)
        /\ SubmitGoto(r, IF outcome.ok THEN "expect" ELSE "500")
    /\ UNCHANGED <<chainVars, dbVars, receivePc, email, query, up>>

insert_expected_reply(r) ==
    /\ submitPc[r] = "expect"
    /\ \E outcome \in Outcomes("db") :
        /\ expected' = AddIf(expected, r, outcome)
        /\ SubmitGoto(r, IF outcome.ok THEN "sent" ELSE "500")
    /\ UNCHANGED <<chainVars, rows, saved, mails, receivePc, email, query, up>>

MarkSent(r) ==
    /\ submitPc[r] = "sent"
    /\ \E outcome \in Outcomes("db") :
        /\ update_request(r, "Email sent", outcome)
        /\ SubmitGoto(r, IF outcome.ok THEN "200" ELSE "500")
    /\ UNCHANGED <<chainVars, expected, saved, mails, receivePc, email, query, up>>

SubmitStep(r) ==
    SendCommand(r) \/ insert_expected_reply(r) \/ MarkSent(r)

-------------------------------------------------------------------------------
\* receive_email_handler

Goto(c, pc) == receivePc' = [receivePc EXCEPT ![c] = pc]

FailTo(c, pc, faults) == faults \intersect Faults # {} /\ Goto(c, pc)

CommandMailed(id) == \E mail \in mails : mail.kind = "Command" /\ mail.request = id

\* The mail server delivers a mail: a reply to a Command mail (any number of them), or
\* a mail with an id that no request has, or none.
Receive(c, id, key) ==
    /\ ReplicaOf[c] \in up
    /\ receivePc[c] = "idle"
    /\ id \in Requests => CommandMailed(id)
    /\ email' = [email EXCEPT ![c] = [request |-> id, key |-> key]]
    /\ Goto(c, IF id = NoId THEN "400" ELSE "received")
    /\ UNCHANGED <<chainVars, dbVars, mails, submitPc, query, up>>

MarkReceived(c) ==
    /\ receivePc[c] = "received"
    /\ \E outcome \in Outcomes("db") :
        /\ update_request(email[c].request, "Email response received", outcome)
        /\ Goto(c, IF outcome.ok THEN "parse" ELSE "500")
    /\ UNCHANGED <<chainVars, expected, saved, mails, submitPc, email, query, up>>

ParseMail(c) ==
    /\ receivePc[c] = "parse"
    /\ Goto(c, "ack") \/ FailTo(c, "500", {"email"})
    /\ UNCHANGED <<chainVars, dbVars, mails, submitPc, email, query, up>>

\* An Ack that cannot be sent is logged and forgotten; nothing depends on it, so it is
\* not recorded in `mails`.
SendAck(c) ==
    /\ receivePc[c] = "ack"
    /\ Goto(c, "load")
    /\ UNCHANGED <<chainVars, dbVars, mails, submitPc, email, query, up>>

HasRow(id) == id \in Requests /\ rows[id] # NoRow

\* Mutation: a request without a chain is an error.
LoadNeedsChain(c) ==
    /\ receivePc[c] = "load"
    /\ IF ~HasRow(email[c].request) THEN Goto(c, "500")
       ELSE Goto(c, IF email[c].request \in UsesChain THEN "check" ELSE "error")
    /\ UNCHANGED <<chainVars, dbVars, mails, submitPc, email, query, up>>

\* ChainClient::setup: the chain has no configuration, or not a valid one.
SetupFails(c) == FailTo(c, "error", {"config"})

\* get_request, and handle_email up to its first look at the chain.
LoadRequest(c) ==
    /\ receivePc[c] = "load"
    /\ \/ ~HasRow(email[c].request) /\ Goto(c, "500")
       \/ FailTo(c, "500", {"db"})
       \/ HasRow(email[c].request) /\ FailTo(c, "error", {"email"})
       \/ HasRow(email[c].request) /\ email[c].request \in UsesChain /\ SetupFails(c)
       \/ /\ HasRow(email[c].request)
          /\ Goto(c, IF email[c].request \in UsesChain THEN "check" ELSE "params")
    /\ UNCHANGED <<chainVars, dbVars, mails, submitPc, email, query, up>>

\* Mutation: a node that cannot be asked counts as a yes.
CheckFailsOpen(c) ==
    /\ receivePc[c] = "check"
    /\ \/ Goto(c, IF KeyRegistered(email[c].key) THEN "params" ELSE "oracle")
       \/ FailTo(c, "params", {"rpc"})
    /\ UNCHANGED <<chainVars, dbVars, mails, submitPc, email, query, up>>

\* check_and_update_dkim asks whether the key is registered; the answer is not asked for again.
CheckKey(c) ==
    /\ receivePc[c] = "check"
    /\ \/ Goto(c, IF KeyRegistered(email[c].key) THEN "params" ELSE "oracle")
       \/ FailTo(c, "error", {"rpc"})
    /\ UNCHANGED <<chainVars, dbVars, mails, submitPc, email, query, up>>

\* The oracle signs the key it finds in DNS now, which need not be the key of the mail.
OracleKeys(key) == IF "rotation" \in Faults THEN Keys ELSE {key}

\* There is no agent, no wallet or no answer, or the answer is no hexadecimal number.
OracleFails(c) == FailTo(c, "error", {"oracle"})

\* The hash in the answer has not 32 bytes: the task panics, without an Error mail.
Panics(c) == FailTo(c, "dropped", {"malformed"})

AskOracle(c) ==
    /\ receivePc[c] = "oracle"
    /\ \/ Goto(c, "register") /\ \E key \in OracleKeys(email[c].key) : Lock(c, key)
       \/ (OracleFails(c) \/ Panics(c)) /\ UNCHANGED chainVars
    /\ UNCHANGED <<dbVars, mails, submitPc, email, query, up>>

\* Mutation: a failed registration is only logged.
RegisterUnchecked(c) ==
    /\ receivePc[c] = "register"
    /\ ChainStep(c)
    /\ Goto(c, IF chainPc'[c] \in {"lock", "filled", "pending"} THEN "register" ELSE "params")
    /\ UNCHANGED <<dbVars, mails, submitPc, email, query, up>>

RegisterKey(c) ==
    /\ receivePc[c] = "register"
    /\ ChainStep(c)
    /\ Goto(c, CASE chainPc'[c] = "done" -> "params"
                 [] chainPc'[c] \in {"alreadySet", "nonceConflict", "failed", "abandoned"} -> "error"
                 [] OTHER -> "register")
    /\ UNCHANGED <<dbVars, mails, submitPc, email, query, up>>

\* get_encoded_command_params, then generate_email_proof's status update.
MarkProving(c) ==
    /\ receivePc[c] = "params"
    /\ \/ FailTo(c, "error", {"email"}) /\ UNCHANGED rows
       \/ \E outcome \in Outcomes("db") :
            /\ update_request(email[c].request, "Proving", outcome)
            /\ Goto(c, IF outcome.ok THEN "prove" ELSE "error")
    /\ UNCHANGED <<chainVars, expected, saved, mails, submitPc, email, query, up>>

\* Mutation: the message is returned without being saved.
ProveWithoutSave(c) ==
    /\ receivePc[c] = "prove"
    /\ Goto(c, "finish") \/ FailTo(c, "error", {"prover", "email"})
    /\ UNCHANGED <<chainVars, dbVars, mails, submitPc, email, query, up>>

Prove(c) ==
    /\ receivePc[c] = "prove"
    /\ Goto(c, "save") \/ FailTo(c, "error", {"prover", "email"})
    /\ UNCHANGED <<chainVars, dbVars, mails, submitPc, email, query, up>>

\* Mutation: a failed insert is only logged.
SaveUnchecked(c) ==
    /\ receivePc[c] = "save"
    /\ \E outcome \in Outcomes("db") :
        saved' = AddIf(saved, [request |-> email[c].request, by |-> c], outcome)
    /\ Goto(c, "finish")
    /\ UNCHANGED <<chainVars, rows, expected, mails, submitPc, email, query, up>>

save(c) ==
    /\ receivePc[c] = "save"
    /\ \E outcome \in Outcomes("db") :
        /\ saved' = AddIf(saved, [request |-> email[c].request, by |-> c], outcome)
        /\ Goto(c, IF outcome.ok THEN "finish" ELSE "error")
    /\ UNCHANGED <<chainVars, rows, expected, mails, submitPc, email, query, up>>

\* Mutation: the update asks for the status that this handler has written.
FinishIfProving(c) ==
    /\ receivePc[c] = "finish"
    /\ \E outcome \in Outcomes("db") :
        LET proving == rows[email[c].request] = "Proving" IN
        /\ rows' = IF proving /\ outcome.applied
                   THEN [rows EXCEPT ![email[c].request] = "Finished"] ELSE rows
        /\ Goto(c, IF proving /\ outcome.ok THEN "complete" ELSE "error")
    /\ UNCHANGED <<chainVars, expected, saved, mails, submitPc, email, query, up>>

\* The Completion's address and subject were read once before, in receive_email_handler.
MarkFinished(c) ==
    /\ receivePc[c] = "finish"
    /\ \E outcome \in Outcomes("db") :
        /\ update_request(email[c].request, "Finished", outcome)
        /\ Goto(c, IF outcome.ok THEN "complete" ELSE "error")
    /\ UNCHANGED <<chainVars, expected, saved, mails, submitPc, email, query, up>>

\* Mutation: an error is logged and not reported.
SendCompletionOnly(c) ==
    /\ receivePc[c] \in {"complete", "error"}
    /\ \E outcome \in send_email("answerTemplate") :
        mails' = IF receivePc[c] = "complete"
                 THEN AddIf(mails, Mail("Completion", email[c].request, c), outcome) ELSE mails
    /\ Goto(c, "200")
    /\ UNCHANGED <<chainVars, dbVars, submitPc, email, query, up>>

\* The Completion mail, or the Error mail for an error of handle_email; the handler
\* answers 200 after both, sent or not.
SendResult(c) ==
    /\ receivePc[c] \in {"complete", "error"}
    /\ \E outcome \in send_email("answerTemplate") :
        mails' = AddIf(mails, Mail(IF receivePc[c] = "complete" THEN "Completion" ELSE "Error",
                                   email[c].request, c), outcome)
    /\ Goto(c, "200")
    /\ UNCHANGED <<chainVars, dbVars, submitPc, email, query, up>>

ReceiveStep(c) ==
    \/ MarkReceived(c) \/ ParseMail(c) \/ SendAck(c) \/ LoadRequest(c)
    \/ CheckKey(c) \/ AskOracle(c) \/ RegisterKey(c)
    \/ MarkProving(c) \/ Prove(c) \/ save(c) \/ MarkFinished(c) \/ SendResult(c)

-------------------------------------------------------------------------------
\* get_status_handler: the row first, the response in a second query

ReadRow(q, r) ==
    /\ PollReplica[q] \in up
    /\ query[q].pc = "idle"
    /\ \/ /\ rows[r] # NoRow
          /\ query' = [query EXCEPT ![q] =
                 [NoQuery EXCEPT !.pc = "row", !.request = r, !.status = rows[r]]]
       \/ /\ rows[r] = NoRow \/ "db" \in Faults
          /\ query' = [query EXCEPT ![q] = [NoQuery EXCEPT !.pc = "500", !.request = r]]
    /\ UNCHANGED <<chainVars, dbVars, mails, submitPc, receivePc, email, up>>

ReadResponse(q) ==
    /\ query[q].pc = "row"
    /\ \/ query' = [query EXCEPT ![q].pc = "200",
                                 ![q].response = \E s \in saved : s.request = query[q].request]
       \/ "db" \in Faults /\ query' = [query EXCEPT ![q].pc = "500"]
    /\ UNCHANGED <<chainVars, dbVars, mails, submitPc, receivePc, email, up>>

-------------------------------------------------------------------------------
\* Processes that start and end, and tasks that end early

\* A process serves once it has a configuration and a connection to the database.  It
\* takes nothing up again of what the one before it was doing.
main(p) ==
    /\ p \notin up
    /\ up' = up \union {p}
    /\ UNCHANGED <<chainVars, dbVars, mails, submitPc, receivePc, email, query>>

\* The handlers of the submissions R, of the mails C and of the status calls Q are
\* dropped where they wait.
Drop(R, C, Q) ==
    /\ submitPc' = [r \in Requests |->
           IF r \in R /\ submitPc[r] \notin {"idle"} \union Answered THEN "dropped" ELSE submitPc[r]]
    /\ receivePc' = [c \in Callers |->
           IF c \in C /\ receivePc[c] \notin {"idle"} \union Answered THEN "dropped" ELSE receivePc[c]]
    /\ query' = [q \in Pollers |->
           IF q \in Q /\ query[q].pc = "row" THEN [NoQuery EXCEPT !.pc = "dropped"] ELSE query[q]]
    /\ UNCHANGED <<dbVars, mails, email>>

Disconnect ==
    /\ "disconnect" \in Faults
    /\ \/ \E r \in Requests : Drop({r}, {}, {}) /\ UNCHANGED chainVars
       \/ \E c \in Callers : Drop({}, {c}, {}) /\ DropCaller(c)
       \/ \E q \in Pollers : Drop({}, {}, {q}) /\ UNCHANGED chainVars
    /\ UNCHANGED up

Crash(p) ==
    /\ "crash" \in Faults
    /\ p \in up
    /\ up' = up \ {p}
    /\ Drop({r \in Requests : SubmitReplica[r] = p}, {c \in Callers : ReplicaOf[c] = p},
            {q \in Pollers : PollReplica[q] = p})
    /\ DropProcess(p)

MineOne(c) == Mine(c) /\ UNCHANGED relayerVars

Next ==
    \/ \E r \in Requests : create_request(r) \/ SubmitStep(r)
    \/ \E c \in Callers :
        \/ \E id \in Requests \union {UnknownId, NoId}, key \in Keys : Receive(c, id, key)
        \/ ReceiveStep(c)
        \/ MineOne(c)
    \/ \E q \in Pollers : ReadResponse(q) \/ \E r \in Requests : ReadRow(q, r)
    \/ Disconnect
    \/ \E p \in Replicas : main(p) \/ Crash(p)

Spec == Init /\ [][Next]_vars

\* The executor runs every task that can proceed, and the chain includes what it accepted.
Fairness ==
    /\ \A r \in Requests : WF_vars(SubmitStep(r))
    /\ \A c \in Callers : WF_vars(ReceiveStep(c)) /\ WF_vars(MineOne(c))
    /\ \A q \in Pollers : WF_vars(ReadResponse(q))

FairSpec == Spec /\ Fairness
-------------------------------------------------------------------------------
\* Properties

TypeOK ==
    /\ ChainTypeOK
    /\ rows \in [Requests -> Statuses \union {NoRow}]
    /\ expected \subseteq Requests
    /\ saved \subseteq [request : Requests, by : Callers]
    /\ \A mail \in mails :
        /\ mail.kind \in {"Command", "Completion", "Error"}
        /\ mail.request \in Requests
    /\ submitPc \in [Requests -> {"idle", "mail", "expect", "sent"} \union Answered]
    /\ receivePc \in [Callers ->
           {"idle", "received", "parse", "ack", "load", "check", "oracle", "register", "params",
            "prove", "save", "finish", "complete", "error"} \union Answered]
    /\ email \in [Callers -> [request : Requests \union {UnknownId, NoId}, key : Keys \union {NoKey}]]
    /\ query \in [Pollers -> [pc : {"idle", "row", "200", "500", "dropped"}, request : Requests \union {NoId},
                              status : Statuses \union {NoRow}, response : BOOLEAN]]
    /\ up \subseteq Replicas

Saved(r) == \E s \in saved : s.request = r
Mailed(kind, r) == \E mail \in mails : mail.kind = kind /\ mail.request = r

\* The key that c's response rests on: the one c registered, or found registered.
RestsOn(c) == IF txKey[c] = NoKey THEN email[c].key ELSE txKey[c]
KeyVouched(c) == email[c].request \in UsesChain => RestsOn(c) \in onChain

\* No status is reached before the work it names is done, whatever fails and whoever
\* else works on the request: "Email sent" only when the mail is out and its reply is
\* expected, "Email response received" only after a reply arrived, "Proving" only when
\* some handler found or made the key registered, "Finished" only with a saved response.
StatusIsEarned ==
    \A r \in Requests :
        LET replies == {c \in Callers : email[c].request = r} IN
        CASE rows[r] = "Email sent" -> Mailed("Command", r) /\ r \in expected
          [] rows[r] = "Email response received" -> Mailed("Command", r) /\ replies # {}
          [] rows[r] = "Proving" -> \E c \in replies : KeyVouched(c)
          [] rows[r] = "Finished" -> Saved(r)
          [] OTHER -> TRUE

\* A response is saved only by a handler that found its mail's key in the registry, or
\* registered the key that the oracle returned for it (handle_email calls
\* check_and_update_dkim before get_email_auth_msg).
SavedIsVouched == \A s \in saved : KeyVouched(s.by) /\ email[s.by].request = s.request

\* A sender who is told that the request is complete can fetch the response, and a
\* handler that completes sends no Error mail.
CompletionIsTrue ==
    \A mail \in mails : mail.kind = "Completion" =>
        /\ [request |-> mail.request, by |-> mail.by] \in saved
        /\ Mail("Error", mail.request, mail.by) \notin mails

\* To its clients the relayer is RelayerPromise, whatever its handlers, its tables and the
\* chain go through: an invitation, a key, a response and a completion notice are each
\* one step, in this order, and a later reply, failure or crash neither withdraws one nor
\* changes the key that a response rests on (receive_email_handler, handle_email).
Promise ==
    INSTANCE RelayerPromise WITH
        Registering <- UsesChain,
        invited <- {r \in Requests : Mailed("Command", r)},
        registered <- onChain,
        responses <- {[request |-> s.request, key |-> RestsOn(s.by)] : s \in saved},
        told <- {r \in Requests : Mailed("Completion", r)}

RefinesRelayerPromise == Promise!Spec

\* Between the two queries of get_status_handler the request moves on; an answer that
\* says "Finished" still carries the response.
FinishedAnswerHasResponse ==
    \A q \in Pollers :
        query[q].pc = "200" /\ query[q].status = "Finished" => query[q].response

\* A submission that was answered 200 ("email sent") did send the mail, and its reply is
\* expected; the request never looks new again.
SubmittedIsMailed ==
    \A r \in Requests : submitPc[r] = "200" =>
        /\ Mailed("Command", r)
        /\ r \in expected
        /\ rows[r] \notin {NoRow, "Request received"}

\* Only the database's failures make the relayer report an error for what it has done: a
\* sender with an Error mail has no response saved by the same handler, unless an insert
\* lost its answer or the status update behind it failed (mail.rs:385-388); a client whose
\* submission was answered 500 has not made the relayer mail its command, unless a call to
\* the database failed behind the mail (mail.rs:129-136) or the mail server's answer was lost.
ErrorMeansNothingDone ==
    /\ "db" \notin Faults =>
           \A mail \in mails : mail.kind = "Error" =>
               [request |-> mail.request, by |-> mail.by] \notin saved
    /\ {"db", "smtp"} \intersect Faults = {} =>
           \A r \in Requests : submitPc[r] = "500" => ~Mailed("Command", r)

\* dkim.rs:143, "Checks and updates the DKIM for a given email": a response is saved with the
\* key of the email it was made of in the registry.
EmailKeyIsRegistered ==
    \A s \in saved : s.request \in UsesChain => email[s.by].key \in onChain

\* model.rs:16, "The current status of the request": once a response is saved and no
\* handler works on the request any more, its status is "Finished".
Working(r) ==
    \/ submitPc[r] \notin {"idle"} \union Answered
    \/ \E c \in Callers : email[c].request = r /\ receivePc[c] \notin Answered

StatusIsCurrent == \A r \in Requests : Saved(r) /\ ~Working(r) => rows[r] = "Finished"

\* Every mail the relayer takes on is answered or given up with its task, even if a
\* handler ahead of it at SHARED_MUTEX fails, panics or goes away.
EveryMailIsAnswered ==
    \A c \in Callers : receivePc[c] = "received" ~> receivePc[c] \in Answered

\* The sender of a reply to a request hears of its end, also when confirmations get
\* lost and on a process that was started again, unless the handler's own task is
\* dropped: its process is killed, or it panics on the oracle's answer (dkim.rs:240).
IsReply(c) == receivePc[c] = "received" /\ email[c].request \in Requests
Dropped(c) == receivePc[c] = "dropped"

ReplyIsReported ==
    \A c \in Callers :
        IsReply(c) ~>
            Dropped(c) \/ \E mail \in mails : mail.by = c /\ mail.kind \in {"Completion", "Error"}

\* ... and gets a response, unless registering the key failed: a confirmation was lost
\* (chain.rs:79-82), an earlier transaction, whose handler is gone, has its nonce, or
\* another handler registered the same key between this one's check and its transaction
\* (dkim.rs:178-188 is not asked again after the mutex is taken).
ReplySucceeds ==
    \A c \in Callers :
        IsReply(c) ~> \/ Dropped(c) \/ Saved(email[c].request)
                      \/ chainPc[c] \in {"alreadySet", "nonceConflict", "abandoned"}
===============================================================================
