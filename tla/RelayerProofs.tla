----------------------------- MODULE RelayerProofs -----------------------------
(***************************************************************************)
(* What the relayer's handlers guarantee for any number of requests, mails,*)
(* status calls, keys and processes, under every fault.                    *)
(*                                                                         *)
(* None of the safety invariants is inductive: a row says "Proving" long   *)
(* after the handler that wrote it went on, or was dropped.  RelayerInv    *)
(* says for every pc of a handler what it has achieved so far (SubmitInv,  *)
(* ReceiveInv), for every row, response, mail and answer which handler     *)
(* vouches for it (StatusInv, SavedInv, MailInv, QueryInv), and below them *)
(* that the chain client's state is in order (ChainInv).  The proof that a *)
(* step keeps it has two halves: no step takes back what a handler has     *)
(* achieved (Forward), and the one step that writes a variable is entitled *)
(* to what it writes (the StepInv lemmas).                                 *)
(***************************************************************************)
EXTENDS Relayer, ChainClientProofs

\* Where a handler may still come to ask for its key to be registered.
BeforeCheck == {"idle", "received", "parse", "ack", "load", "check", "oracle"}

\* The handler is past the check of its key, and the key it rests on is registered.
Vouched(c) == receivePc[c] \notin BeforeCheck \union {"register"} /\ KeyVouched(c)

\* What a submission has done by the time it is at a pc: the row, the mail, the
\* expected reply, and a status of its own before it answers 200.
SubmitInv ==
    \A r \in Requests :
        /\ submitPc[r] \in {"mail", "expect", "sent", "200"} => rows[r] # NoRow
        /\ submitPc[r] \in {"expect", "sent", "200"} => Mailed("Command", r)
        /\ submitPc[r] \in {"sent", "200"} => r \in expected
        /\ submitPc[r] = "idle" => rows[r] = NoRow
        /\ submitPc[r] = "200" => rows[r] # "Request received"

\* What a mail's handler has done: the mail is a reply to one that was sent, the handler
\* is inside the chain client exactly while it registers, a request that is worked on has
\* an id, its key is vouched for behind the check, and finishing has a saved response.
ReceiveInv ==
    \A c \in Callers :
        /\ receivePc[c] # "idle" /\ email[c].request \in Requests =>
               Mailed("Command", email[c].request)
        /\ receivePc[c] # "idle" => email[c].key \in Keys
        /\ receivePc[c] \in BeforeCheck => chainPc[c] = "idle"
        /\ receivePc[c] = "register" <=> chainPc[c] \in {"lock", "filled", "pending"}
        /\ receivePc[c] \in {"check", "oracle", "register", "params", "prove", "save", "finish",
                             "complete", "error"} => email[c].request \in Requests
        /\ receivePc[c] \in {"params", "prove", "save", "finish", "complete"} => KeyVouched(c)
        /\ receivePc[c] \in {"finish", "complete"} => [request |-> email[c].request, by |-> c] \in saved

\* Whoever wrote a status had done its work, and the work is still there.
StatusInv ==
    \A r \in Requests :
        /\ rows[r] = "Email sent" => Mailed("Command", r) /\ r \in expected
        /\ rows[r] = "Email response received" =>
               \E c \in Callers : email[c].request = r /\ receivePc[c] # "idle"
        /\ rows[r] = "Proving" => \E c \in Callers : email[c].request = r /\ Vouched(c)
        /\ rows[r] = "Finished" => Saved(r)

\* Every response was saved by a handler behind its check, for its own mail's request.
SavedInv ==
    \A s \in saved : Vouched(s.by) /\ email[s.by].request = s.request

\* A Completion or Error mail is the last thing its handler did.
MailInv ==
    \A mail \in mails : mail.kind # "Command" =>
        /\ mail.by \in Callers
        /\ receivePc[mail.by] = "200"
        /\ email[mail.by].request = mail.request

\* A status call that read "Finished" in its first query finds the response in the second.
QueryInv ==
    \A q \in Pollers :
        /\ query[q].pc = "row" /\ query[q].status = "Finished" => Saved(query[q].request)
        /\ query[q].pc = "200" /\ query[q].status = "Finished" => query[q].response

\* The inductive invariant.
RelayerInv ==
    /\ ChainInv
    /\ TypeOK
    /\ SubmitInv
    /\ ReceiveInv
    /\ StatusInv
    /\ SavedInv
    /\ MailInv
    /\ CompletionIsTrue
    /\ QueryInv

-------------------------------------------------------------------------------
\* Who writes what

\* The steps that end tasks early.
Dropping == Disconnect \/ \E p \in Replicas : Crash(p)

\* A call that is reported to work has worked.
LEMMA OutcomeFacts ==
    /\ \A fault : \A o \in Outcomes(fault) : o.ok \in BOOLEAN /\ o.applied \in BOOLEAN /\ (o.ok => o.applied)
    /\ \A template : \A o \in send_email(template) : o.ok \in BOOLEAN /\ o.applied \in BOOLEAN /\ (o.ok => o.applied)
  <1>1. ASSUME NEW fault, NEW o \in Outcomes(fault)
        PROVE  o.ok \in BOOLEAN /\ o.applied \in BOOLEAN /\ (o.ok => o.applied)
    <2>1. CASE o = [ok |-> TRUE, applied |-> TRUE]
      BY <2>1
    <2>2. CASE o \in [ok : {FALSE}, applied : BOOLEAN]
      BY <2>2
    <2> QED
      BY <2>1, <2>2 DEF Outcomes
  <1>2. ASSUME NEW template, NEW o \in render_html(template)
        PROVE  o.ok \in BOOLEAN /\ o.applied \in BOOLEAN /\ (o.ok => o.applied)
    BY DEF render_html
  <1> QED
    BY <1>1, <1>2 DEF send_email

\* What AddIf adds, and when.
LEMMA AddIfFacts ==
    ASSUME NEW S, NEW x, NEW o
    PROVE  /\ S \subseteq AddIf(S, x, o)
           /\ \A y \in AddIf(S, x, o) : y \in S \/ (y = x /\ o.applied)
           /\ o.applied => x \in AddIf(S, x, o)
  BY DEF AddIf

\* The steps that write a status.
LEMMA RowsWriters ==
    ASSUME [Next]_vars
    PROVE  \/ UNCHANGED rows
           \/ \E r \in Requests : create_request(r) \/ MarkSent(r)
           \/ \E c \in Callers : MarkReceived(c) \/ MarkProving(c) \/ MarkFinished(c)
  BY DEF Next, vars, relayerVars, dbVars, SubmitStep, ReceiveStep, SendCommand, insert_expected_reply,
         Receive, ParseMail, SendAck, LoadRequest, CheckKey, AskOracle, RegisterKey, Prove, save,
         SendResult, ReadRow, ReadResponse, main, Disconnect, Crash, Drop, MineOne

\* The step that expects a reply.
LEMMA ExpectedWriters ==
    ASSUME [Next]_vars
    PROVE  UNCHANGED expected \/ \E r \in Requests : insert_expected_reply(r)
  BY DEF Next, vars, relayerVars, dbVars, SubmitStep, ReceiveStep, create_request, SendCommand, MarkSent,
         Receive, MarkReceived, ParseMail, SendAck, LoadRequest, CheckKey, AskOracle, RegisterKey, MarkProving,
         Prove, save, MarkFinished, SendResult, ReadRow, ReadResponse, main, Disconnect, Crash, Drop, MineOne

\* The step that saves a response.
LEMMA SavedWriters ==
    ASSUME [Next]_vars
    PROVE  UNCHANGED saved \/ \E c \in Callers : save(c)
  BY DEF Next, vars, relayerVars, dbVars, SubmitStep, ReceiveStep, create_request, SendCommand, MarkSent,
         insert_expected_reply,
         Receive, MarkReceived, ParseMail, SendAck, LoadRequest, CheckKey, AskOracle, RegisterKey, MarkProving,
         Prove, MarkFinished, SendResult, ReadRow, ReadResponse, main, Disconnect, Crash, Drop, MineOne

\* The steps that send a mail that is recorded.
LEMMA MailsWriters ==
    ASSUME [Next]_vars
    PROVE  \/ UNCHANGED mails
           \/ \E r \in Requests : SendCommand(r)
           \/ \E c \in Callers : SendResult(c)
  BY DEF Next, vars, relayerVars, dbVars, SubmitStep, ReceiveStep, create_request, MarkSent,
         insert_expected_reply,
         Receive, MarkReceived, ParseMail, SendAck, LoadRequest, CheckKey, AskOracle, RegisterKey, MarkProving,
         Prove, save, MarkFinished, ReadRow, ReadResponse, main, Disconnect, Crash, Drop, MineOne

\* The steps that move a submission.
LEMMA SubmitWriters ==
    ASSUME [Next]_vars
    PROVE  \/ UNCHANGED submitPc
           \/ \E r \in Requests : create_request(r) \/ SubmitStep(r)
           \/ Dropping
  BY DEF Next, vars, relayerVars, Dropping, ReceiveStep,
         Receive, MarkReceived, ParseMail, SendAck, LoadRequest, CheckKey, AskOracle, RegisterKey, MarkProving,
         Prove, save, MarkFinished, SendResult, ReadRow, ReadResponse, main, MineOne

\* The steps that move a handler of a mail.
LEMMA ReceiveWriters ==
    ASSUME [Next]_vars
    PROVE  \/ UNCHANGED <<receivePc, email>>
           \/ \E c \in Callers :
                  \/ ReceiveStep(c)
                  \/ \E id \in Requests \union {UnknownId, NoId}, key \in Keys : Receive(c, id, key)
           \/ Dropping
  BY DEF Next, vars, relayerVars, Dropping, SubmitStep, create_request, SendCommand, MarkSent,
         insert_expected_reply, ReadRow, ReadResponse, main, MineOne

\* The steps that move a status call.
LEMMA QueryWriters ==
    ASSUME [Next]_vars
    PROVE  \/ UNCHANGED query
           \/ \E q \in Pollers : ReadResponse(q) \/ \E r \in Requests : ReadRow(q, r)
           \/ Dropping
  BY DEF Next, vars, relayerVars, Dropping, SubmitStep, create_request, SendCommand, MarkSent,
         insert_expected_reply, ReceiveStep,
         Receive, MarkReceived, ParseMail, SendAck, LoadRequest, CheckKey, AskOracle, RegisterKey, MarkProving,
         Prove, save, MarkFinished, SendResult, main, MineOne

\* The steps that touch the chain client or the chain.
LEMMA ChainWriters ==
    ASSUME [Next]_vars
    PROVE  \/ UNCHANGED chainVars
           \/ \E c \in Callers : AskOracle(c) \/ RegisterKey(c) \/ MineOne(c)
           \/ Dropping
  BY DEF Next, vars, Dropping, SubmitStep, create_request, SendCommand, MarkSent,
         insert_expected_reply, ReceiveStep,
         Receive, MarkReceived, ParseMail, SendAck, LoadRequest, CheckKey, MarkProving,
         Prove, save, MarkFinished, SendResult, ReadRow, ReadResponse, main

\* What is dropped is at the handlers' awaits; the mutex goes with them.
LEMMA DroppingIs ==
    ASSUME Dropping
    PROVE  /\ \E R, C, Q : Drop(R, C, Q)
           /\ ChainMove
  BY DEF Dropping, Disconnect, Crash, ChainMove

\* Every step of the relayer is a step of the chain client, or none.
LEMMA RelayerIsChainMove == ASSUME ReceiveInv, [Next]_vars PROVE ChainMove
  <1>1. ASSUME NEW c \in Callers, AskOracle(c) \/ RegisterKey(c) \/ MineOne(c) PROVE ChainMove
    <2>1. CASE AskOracle(c)
      <3>1. CASE UNCHANGED chainVars
        BY <3>1 DEF ChainMove
      <3>2. CASE \E key \in OracleKeys(email[c].key) : Lock(c, key)
        <4>1. OracleKeys(email[c].key) \subseteq Keys
          BY <2>1 DEF AskOracle, ReceiveInv, OracleKeys
        <4> QED
          BY <3>2, <4>1 DEF ChainMove
      <3> QED
        BY <2>1, <3>1, <3>2 DEF AskOracle
    <2>2. CASE RegisterKey(c)
      BY <2>2 DEF RegisterKey, ChainMove
    <2>3. CASE MineOne(c)
      BY <2>3 DEF MineOne, ChainMove
    <2> QED
      BY <1>1, <2>1, <2>2, <2>3
  <1> QED
    BY <1>1, ChainWriters, DroppingIs DEF ChainMove

-------------------------------------------------------------------------------
\* What a step never undoes

\* The mails, the rows, the saved responses and the keys of the registry only grow in
\* number; a handler goes forward, keeps its mail, and asks for one key at most.
Forward ==
    /\ mails \subseteq mails'
    /\ saved \subseteq saved'
    /\ expected \subseteq expected'
    /\ onChain \subseteq onChain'
    /\ \A r \in Requests : rows[r] # NoRow => rows'[r] # NoRow
    /\ \A c \in Callers :
        /\ receivePc[c] # "idle" => receivePc'[c] # "idle" /\ email'[c] = email[c]
        /\ receivePc[c] \notin BeforeCheck => receivePc'[c] \notin BeforeCheck /\ txKey'[c] = txKey[c]
        /\ receivePc[c] \notin BeforeCheck \union {"register"} =>
               receivePc'[c] \notin BeforeCheck \union {"register"}
        /\ receivePc[c] = "200" => receivePc'[c] = "200"

\* The tables, the mails and the registered keys only grow.
LEMMA ForwardSets ==
    ASSUME TypeOK, ReceiveInv, [Next]_vars
    PROVE  /\ mails \subseteq mails'
           /\ saved \subseteq saved'
           /\ expected \subseteq expected'
           /\ onChain \subseteq onChain'
           /\ \A r \in Requests : rows[r] # NoRow => rows'[r] # NoRow
  <1>1. mails \subseteq mails'
    BY MailsWriters DEF SendCommand, SendResult, AddIf
  <1>2. saved \subseteq saved'
    BY SavedWriters DEF save, AddIf
  <1>3. expected \subseteq expected'
    BY ExpectedWriters DEF insert_expected_reply, AddIf
  <1>4. onChain \subseteq onChain'
    BY RelayerIsChainMove
       DEF ChainMove, ChainStep, FillTransaction, SendTransaction, Confirm, RpcFails, ConfirmationFails,
           Mine, Lock, DropCaller, DropProcess, GiveUp, chainVars
  <1>5. ASSUME NEW r \in Requests, rows[r] # NoRow PROVE rows'[r] # NoRow
    <2>1. ASSUME NEW s \in Requests, create_request(s) PROVE rows'[r] # NoRow
      BY <1>5, <2>1 DEF create_request, TypeOK, Statuses, NoRow
    <2>2. ASSUME NEW id, NEW status \in Statuses, NEW outcome, update_request(id, status, outcome)
          PROVE  rows'[r] # NoRow
      BY <1>5, <2>2 DEF update_request, Statuses, NoRow
    <2>3. ASSUME NEW s \in Requests, MarkSent(s) PROVE rows'[r] # NoRow
      BY <2>2, <2>3 DEF MarkSent, Statuses
    <2>4. ASSUME NEW c \in Callers, MarkReceived(c) \/ MarkProving(c) \/ MarkFinished(c)
          PROVE  rows'[r] # NoRow
      BY <1>5, <2>2, <2>4 DEF MarkReceived, MarkProving, MarkFinished, Statuses
    <2> QED
      BY <1>5, <2>1, <2>3, <2>4, RowsWriters
  <1> QED
    BY <1>1, <1>2, <1>3, <1>4, <1>5

\* What the pc of one handler can do in one step.
Advances(old, new) ==
    /\ old # "idle" => new # "idle"
    /\ old \notin BeforeCheck => new \notin BeforeCheck
    /\ old \notin BeforeCheck \union {"register"} => new \notin BeforeCheck \union {"register"}
    /\ old = "200" => new = "200"

\* A dropped task leaves its place for good, and the tables as they are.
LEMMA DropAdvances ==
    ASSUME TypeOK, Dropping, NEW c \in Callers
    PROVE  /\ receivePc'[c] = receivePc[c] \/ (receivePc'[c] = "dropped" /\ receivePc[c] \notin Answered)
           /\ UNCHANGED <<rows, expected, saved, mails, email>>
  BY DroppingIs DEF Drop, dbVars, Answered

\* A handler's own step takes it forward and leaves the others where they are.
LEMMA StepAdvances ==
    ASSUME TypeOK, NEW c \in Callers, ReceiveStep(c)
    PROVE  /\ Advances(receivePc[c], receivePc'[c])
           /\ \A d \in Callers \ {c} : receivePc'[d] = receivePc[d]
           /\ UNCHANGED email
  <1> USE DEF TypeOK, Goto, FailTo, Advances, BeforeCheck
  <1>1. CASE MarkReceived(c)
    BY <1>1 DEF MarkReceived
  <1>2. CASE ParseMail(c) \/ SendAck(c)
    BY <1>2 DEF ParseMail, SendAck
  <1>3. CASE LoadRequest(c)
    BY <1>3 DEF LoadRequest, SetupFails
  <1>4. CASE CheckKey(c)
    BY <1>4 DEF CheckKey
  <1>5. CASE AskOracle(c)
    BY <1>5 DEF AskOracle, OracleFails, Panics
  <1>6. CASE RegisterKey(c)
    BY <1>6 DEF RegisterKey
  <1>7. CASE MarkProving(c)
    BY <1>7 DEF MarkProving
  <1>8. CASE Prove(c) \/ save(c)
    BY <1>8 DEF Prove, save
  <1>9. CASE MarkFinished(c)
    BY <1>9 DEF MarkFinished
  <1>10. CASE SendResult(c)
    BY <1>10 DEF SendResult
  <1> QED
    BY <1>1, <1>2, <1>3, <1>4, <1>5, <1>6, <1>7, <1>8, <1>9, <1>10 DEF ReceiveStep

\* So every step takes every handler forward, and none changes a mail that is handled.
LEMMA CallersAdvance ==
    ASSUME TypeOK, ReceiveInv, [Next]_vars, NEW c \in Callers
    PROVE  /\ Advances(receivePc[c], receivePc'[c])
           /\ receivePc[c] # "idle" => email'[c] = email[c]
  <1>1. CASE Dropping
    BY <1>1, DropAdvances DEF Advances, BeforeCheck, Answered
  <1>2. ASSUME NEW d \in Callers, ReceiveStep(d)
        PROVE  Advances(receivePc[c], receivePc'[c]) /\ email'[c] = email[c]
    BY <1>2, StepAdvances DEF Advances
  <1>3. ASSUME NEW d \in Callers, NEW id, NEW key, Receive(d, id, key)
        PROVE  /\ Advances(receivePc[c], receivePc'[c])
               /\ receivePc[c] # "idle" => email'[c] = email[c]
    BY <1>3 DEF Receive, Goto, TypeOK, Advances, BeforeCheck
  <1>4. CASE UNCHANGED <<receivePc, email>>
    BY <1>4 DEF Advances
  <1> QED
    BY <1>1, <1>2, <1>3, <1>4, ReceiveWriters

\* The key a caller asks for is settled when it asks for it.
LEMMA TxKeySettled ==
    ASSUME ChainTypeOK, ReceiveInv, [Next]_vars, NEW c \in Callers, receivePc[c] \notin BeforeCheck
    PROVE  txKey'[c] = txKey[c]
  <1>1. ASSUME NEW d \in Callers, AskOracle(d) PROVE txKey'[c] = txKey[c]
    BY <1>1 DEF AskOracle, Lock, ChainTypeOK, BeforeCheck, chainVars
  <1>2. ASSUME NEW d \in Callers, RegisterKey(d) \/ MineOne(d) PROVE UNCHANGED txKey
    BY <1>2 DEF RegisterKey, MineOne, ChainStep, FillTransaction, SendTransaction, Confirm, RpcFails,
                ConfirmationFails, Mine
  <1>3. CASE Dropping
    BY <1>3 DEF Dropping, Disconnect, Crash, DropCaller, DropProcess, GiveUp, chainVars
  <1> QED
    BY <1>1, <1>2, <1>3, ChainWriters DEF chainVars

\* No step takes anything back.
LEMMA RelayerGoesForward ==
    ASSUME TypeOK, ReceiveInv, [Next]_vars
    PROVE  Forward
  <1>1. ChainTypeOK
    BY DEF TypeOK
  <1> QED
    BY <1>1, ForwardSets, CallersAdvance, TxKeySettled DEF Forward, Advances

\* So what was vouched for stays vouched for, and so on.
LEMMA Kept ==
    ASSUME Forward
    PROVE  /\ \A kind, r : Mailed(kind, r) => Mailed(kind, r)'
           /\ \A r : Saved(r) => Saved(r)'
           /\ \A c \in Callers : receivePc[c] \notin BeforeCheck /\ KeyVouched(c) => KeyVouched(c)'
           /\ \A c \in Callers : Vouched(c) => Vouched(c)'
  <1>1. \A kind, r : Mailed(kind, r) => Mailed(kind, r)'
    BY DEF Forward, Mailed
  <1>2. \A r : Saved(r) => Saved(r)'
    BY DEF Forward, Saved
  <1>3. ASSUME NEW c \in Callers, receivePc[c] \notin BeforeCheck, KeyVouched(c) PROVE KeyVouched(c)'
    BY <1>3 DEF Forward, KeyVouched, RestsOn, BeforeCheck
  <1>4. ASSUME NEW c \in Callers, Vouched(c) PROVE Vouched(c)'
    BY <1>3, <1>4 DEF Forward, Vouched
  <1> QED
    BY <1>1, <1>2, <1>3, <1>4

-------------------------------------------------------------------------------
\* Each part of the invariant is kept by every step

\* The sets of TypeOK, by name.
SubmitPcs == {"idle", "mail", "expect", "sent"} \union Answered
ReceivePcs ==
    {"idle", "received", "parse", "ack", "load", "check", "oracle", "register", "params",
     "prove", "save", "finish", "complete", "error"} \union Answered
Queries == [pc : {"idle", "row", "200", "500", "dropped"}, request : Requests \union {NoId},
            status : Statuses \union {NoRow}, response : BOOLEAN]

\* The rows keep their type.
LEMMA TypeOfRows ==
    ASSUME TypeOK, [Next]_vars
    PROVE  rows' \in [Requests -> Statuses \union {NoRow}]
  <1>1. ASSUME NEW r \in Requests, create_request(r) PROVE rows' \in [Requests -> Statuses \union {NoRow}]
    <2>1. "Request received" \in Statuses
      BY DEF Statuses
    <2> QED
      BY <1>1, <2>1 DEF create_request, TypeOK
  <1>2. ASSUME NEW id, NEW status \in Statuses, NEW outcome, update_request(id, status, outcome)
        PROVE  rows' \in [Requests -> Statuses \union {NoRow}]
    BY <1>2 DEF update_request, TypeOK
  <1>3. ASSUME NEW r \in Requests, MarkSent(r) PROVE rows' \in [Requests -> Statuses \union {NoRow}]
    BY <1>2, <1>3 DEF MarkSent, Statuses
  <1>4. ASSUME NEW c \in Callers, MarkReceived(c) \/ MarkProving(c) \/ MarkFinished(c)
        PROVE  rows' \in [Requests -> Statuses \union {NoRow}]
    BY <1>2, <1>4 DEF MarkReceived, MarkProving, MarkFinished, Statuses, TypeOK
  <1> QED
    BY <1>1, <1>3, <1>4, RowsWriters DEF TypeOK

\* The expected replies, the responses and the mails keep their types.
LEMMA TypeOfSets ==
    ASSUME TypeOK, ReceiveInv, [Next]_vars
    PROVE  /\ expected' \subseteq Requests
           /\ saved' \subseteq [request : Requests, by : Callers]
           /\ \A mail \in mails' : mail.kind \in {"Command", "Completion", "Error"} /\ mail.request \in Requests
  <1>1. expected' \subseteq Requests
    BY ExpectedWriters DEF insert_expected_reply, AddIf, TypeOK
  <1>2. saved' \subseteq [request : Requests, by : Callers]
    <2>1. ASSUME NEW c \in Callers, save(c) PROVE saved' \subseteq [request : Requests, by : Callers]
      <3>1. email[c].request \in Requests
        BY <2>1 DEF save, ReceiveInv
      <3> QED
        BY <2>1, <3>1 DEF save, AddIf, TypeOK
    <2> QED
      BY <2>1, SavedWriters DEF TypeOK
  <1>3. ASSUME NEW mail \in mails'
        PROVE  mail.kind \in {"Command", "Completion", "Error"} /\ mail.request \in Requests
    <2>1. CASE mail \in mails
      BY <2>1 DEF TypeOK
    <2>2. ASSUME mail \notin mails, NEW r \in Requests, SendCommand(r)
          PROVE  mail = Mail("Command", r, r)
      BY <2>2 DEF SendCommand, AddIf
    <2>3. ASSUME mail \notin mails, NEW c \in Callers, SendResult(c)
          PROVE  /\ email[c].request \in Requests
                 /\ \E kind \in {"Completion", "Error"} : mail = Mail(kind, email[c].request, c)
      BY <2>3 DEF SendResult, AddIf, ReceiveInv
    <2> QED
      BY <2>1, <2>2, <2>3, MailsWriters DEF Mail
  <1> QED
    BY <1>1, <1>2, <1>3

\* The pcs of the submissions keep their type.
LEMMA TypeOfSubmit ==
    ASSUME TypeOK, [Next]_vars
    PROVE  submitPc' \in [Requests -> SubmitPcs]
  <1> USE DEF TypeOK, SubmitPcs, Answered
  <1>1. ASSUME NEW r \in Requests, create_request(r) \/ SubmitStep(r)
        PROVE  submitPc' \in [Requests -> SubmitPcs]
    BY <1>1 DEF create_request, SubmitStep, SendCommand, insert_expected_reply, MarkSent, SubmitGoto
  <1>2. CASE Dropping
    BY <1>2, DroppingIs DEF Drop
  <1> QED
    BY <1>1, <1>2, SubmitWriters

\* The handlers' pcs and mails keep their types.
LEMMA TypeOfReceive ==
    ASSUME TypeOK, [Next]_vars
    PROVE  /\ receivePc' \in [Callers -> ReceivePcs]
           /\ email' \in [Callers -> [request : Requests \union {UnknownId, NoId}, key : Keys \union {NoKey}]]
  <1> USE DEF TypeOK, ReceivePcs, Answered
  <1>1. ASSUME NEW c \in Callers, ReceiveStep(c)
        PROVE  receivePc' \in [Callers -> ReceivePcs] /\ UNCHANGED email
    <2>1. UNCHANGED email
      BY <1>1, StepAdvances
    <2>2. ASSUME NEW pc \in ReceivePcs, Goto(c, pc) PROVE receivePc' \in [Callers -> ReceivePcs]
      BY <2>2 DEF Goto
    <2>3. \E pc \in ReceivePcs : Goto(c, pc)
      BY <1>1 DEF ReceiveStep, MarkReceived, ParseMail, SendAck, LoadRequest, CheckKey, AskOracle,
                  RegisterKey, MarkProving, Prove, save, MarkFinished, SendResult, FailTo, SetupFails,
                  OracleFails, Panics
    <2> QED
      BY <2>1, <2>2, <2>3
  <1>2. ASSUME NEW c \in Callers, NEW id \in Requests \union {UnknownId, NoId}, NEW key \in Keys,
               Receive(c, id, key)
        PROVE  /\ receivePc' \in [Callers -> ReceivePcs]
               /\ email' \in [Callers -> [request : Requests \union {UnknownId, NoId},
                                          key : Keys \union {NoKey}]]
    BY <1>2 DEF Receive, Goto
  <1>3. CASE Dropping
    BY <1>3, DroppingIs DEF Drop
  <1> QED
    BY <1>1, <1>2, <1>3, ReceiveWriters

\* The status calls keep their type.
LEMMA TypeOfQuery ==
    ASSUME TypeOK, [Next]_vars
    PROVE  query' \in [Pollers -> Queries]
  <1>1. query \in [Pollers -> Queries]
    BY DEF TypeOK, Queries
  <1>2. NoQuery \in Queries
    BY DEF NoQuery, Queries
  <1>3. ASSUME NEW q \in Pollers, NEW r \in Requests, ReadRow(q, r) PROVE query' \in [Pollers -> Queries]
    <2>1. \/ query' = [query EXCEPT ![q] = [NoQuery EXCEPT !.pc = "row", !.request = r, !.status = rows[r]]]
          \/ query' = [query EXCEPT ![q] = [NoQuery EXCEPT !.pc = "500", !.request = r]]
      BY <1>3 DEF ReadRow
    <2>2. rows[r] \in Statuses \union {NoRow}
      BY DEF TypeOK
    <2>3. [NoQuery EXCEPT !.pc = "row", !.request = r, !.status = rows[r]] \in Queries
      BY <2>2, <1>2 DEF Queries
    <2>4. [NoQuery EXCEPT !.pc = "500", !.request = r] \in Queries
      BY <1>2 DEF Queries
    <2> QED
      BY <1>1, <2>1, <2>3, <2>4
  <1>4. ASSUME NEW q \in Pollers, ReadResponse(q) PROVE query' \in [Pollers -> Queries]
    BY <1>1, <1>4 DEF ReadResponse, Queries
  <1>5. CASE Dropping
    <2>1. [NoQuery EXCEPT !.pc = "dropped"] \in Queries
      BY <1>2 DEF Queries
    <2> QED
      BY <1>1, <1>5, <2>1, DroppingIs DEF Drop
  <1> QED
    BY <1>1, <1>3, <1>4, <1>5, QueryWriters

\* The serving processes are processes.
LEMMA TypeOfUp ==
    ASSUME TypeOK, [Next]_vars
    PROVE  up' \subseteq Replicas
  BY DEF TypeOK, Next, vars, relayerVars, SubmitStep, create_request, SendCommand, MarkSent,
         insert_expected_reply, ReceiveStep,
         Receive, MarkReceived, ParseMail, SendAck, LoadRequest, CheckKey, AskOracle, RegisterKey, MarkProving,
         Prove, save, MarkFinished, SendResult, ReadRow, ReadResponse, main, Disconnect, Crash, MineOne

\* A row is created by its submission and updated only afterwards.
LEMMA RowChanges ==
    ASSUME TypeOK, [Next]_vars, NEW r \in Requests
    PROVE  \/ rows'[r] = rows[r]
           \/ create_request(r)
           \/ rows[r] # NoRow /\ rows'[r] \notin {NoRow, "Request received"}
  <1>1. ASSUME NEW s \in Requests, create_request(s) PROVE rows'[r] = rows[r] \/ create_request(r)
    BY <1>1 DEF create_request, TypeOK
  <1>2. ASSUME NEW id, NEW status, NEW outcome, status \notin {NoRow, "Request received"},
               update_request(id, status, outcome)
        PROVE  rows'[r] = rows[r] \/ (rows[r] # NoRow /\ rows'[r] \notin {NoRow, "Request received"})
    BY <1>2 DEF update_request
  <1>3. ASSUME NEW s \in Requests, MarkSent(s)
        PROVE  rows'[r] = rows[r] \/ (rows[r] # NoRow /\ rows'[r] \notin {NoRow, "Request received"})
    BY <1>2, <1>3 DEF MarkSent, NoRow
  <1>4. ASSUME NEW c \in Callers, MarkReceived(c) \/ MarkProving(c) \/ MarkFinished(c)
        PROVE  rows'[r] = rows[r] \/ (rows[r] # NoRow /\ rows'[r] \notin {NoRow, "Request received"})
    <2>1. CASE MarkReceived(c)
      BY <2>1 DEF MarkReceived, update_request, NoRow
    <2>2. CASE MarkProving(c)
      BY <2>2 DEF MarkProving, update_request, NoRow
    <2>3. CASE MarkFinished(c)
      BY <2>3 DEF MarkFinished, update_request, NoRow
    <2> QED
      BY <1>4, <2>1, <2>2, <2>3
  <1> QED
    BY <1>1, <1>3, <1>4, RowsWriters

\* The submissions: a pc is reached by the step that does its work.
LEMMA SubmitStepInv ==
    ASSUME TypeOK, ReceiveInv, SubmitInv, [Next]_vars
    PROVE  SubmitInv'
  <1> DEFINE Fine(r) ==
        /\ submitPc[r] \in {"mail", "expect", "sent", "200"} => rows[r] # NoRow
        /\ submitPc[r] \in {"expect", "sent", "200"} => Mailed("Command", r)
        /\ submitPc[r] \in {"sent", "200"} => r \in expected
        /\ submitPc[r] = "idle" => rows[r] = NoRow
        /\ submitPc[r] = "200" => rows[r] # "Request received"
  <1>1. SUFFICES ASSUME NEW r \in Requests PROVE Fine(r)'
    BY DEF SubmitInv
  <1>2. Fine(r)
    BY DEF SubmitInv
  <1>3. Forward
    BY RelayerGoesForward
  <1>4. /\ Mailed("Command", r) => Mailed("Command", r)'
        /\ r \in expected => r \in expected'
        /\ rows[r] # NoRow => rows'[r] # NoRow
    BY <1>3, Kept DEF Forward
  <1>5. ASSUME create_request(r) PROVE Fine(r)'
    <2>1. PICK o \in Outcomes("db") :
            /\ rows' = [rows EXCEPT ![r] = IF o.applied THEN "Request received" ELSE @]
            /\ SubmitGoto(r, IF o.ok THEN "mail" ELSE "500")
      BY <1>5 DEF create_request
    <2>2. o.ok => o.applied
      BY OutcomeFacts
    <2>3. \/ submitPc'[r] = "mail" /\ rows'[r] = "Request received"
          \/ submitPc'[r] = "500"
      BY <2>1, <2>2 DEF SubmitGoto, TypeOK
    <2> QED
      BY <2>3 DEF NoRow
  <1>6. ASSUME SendCommand(r) PROVE Fine(r)'
    <2>1. PICK o \in send_email("commandTemplate") :
            /\ mails' = AddIf(mails, Mail("Command", r, r), o)
            /\ SubmitGoto(r, IF o.ok THEN "expect" ELSE "500")
      BY <1>6 DEF SendCommand
    <2>2. o.ok => Mail("Command", r, r) \in mails'
      BY <2>1, OutcomeFacts, AddIfFacts
    <2>3. o.ok => Mailed("Command", r)'
      BY <2>2 DEF Mailed, Mail
    <2>4. submitPc[r] = "mail" /\ submitPc'[r] = IF o.ok THEN "expect" ELSE "500"
      BY <1>6, <2>1 DEF SendCommand, SubmitGoto, TypeOK
    <2> QED
      BY <1>2, <1>4, <2>3, <2>4
  <1>7. ASSUME insert_expected_reply(r) PROVE Fine(r)'
    <2>1. PICK o \in Outcomes("db") :
            /\ expected' = AddIf(expected, r, o)
            /\ SubmitGoto(r, IF o.ok THEN "sent" ELSE "500")
      BY <1>7 DEF insert_expected_reply
    <2>2. o.ok => r \in expected'
      BY <2>1, OutcomeFacts, AddIfFacts
    <2>3. submitPc[r] = "expect" /\ submitPc'[r] = IF o.ok THEN "sent" ELSE "500"
      BY <1>7, <2>1 DEF insert_expected_reply, SubmitGoto, TypeOK
    <2> QED
      BY <1>2, <1>4, <2>2, <2>3
  <1>8. ASSUME MarkSent(r) PROVE Fine(r)'
    <2>1. PICK o \in Outcomes("db") :
            /\ update_request(r, "Email sent", o)
            /\ SubmitGoto(r, IF o.ok THEN "200" ELSE "500")
      BY <1>8 DEF MarkSent
    <2>2. submitPc[r] = "sent" /\ submitPc'[r] = IF o.ok THEN "200" ELSE "500"
      BY <1>8, <2>1 DEF MarkSent, SubmitGoto, TypeOK
    <2>3. o.ok => rows'[r] = "Email sent"
      BY <1>2, <2>1, <2>2, OutcomeFacts DEF update_request
    <2> QED
      BY <1>2, <1>4, <2>2, <2>3
  <1>9. ASSUME submitPc'[r] = submitPc[r], ~create_request(r) PROVE Fine(r)'
    BY <1>2, <1>4, <1>9, RowChanges
  <1>10. ASSUME submitPc'[r] = "dropped" PROVE Fine(r)'
    BY <1>10
  <1>11. CASE Dropping
    <2>1. submitPc'[r] = submitPc[r] \/ submitPc'[r] = "dropped"
      BY <1>11, DroppingIs DEF Drop
    <2> QED
      BY <1>5, <1>9, <1>10, <2>1
  <1>12. ASSUME NEW s \in Requests, s # r, create_request(s) \/ SubmitStep(s) PROVE submitPc'[r] = submitPc[r]
    BY <1>12 DEF create_request, SubmitStep, SendCommand, insert_expected_reply, MarkSent, SubmitGoto, TypeOK
  <1> HIDE DEF Fine
  <1> QED
    BY <1>5, <1>6, <1>7, <1>8, <1>9, <1>11, <1>12, SubmitWriters DEF SubmitStep

\* A handler's place in the chain client is moved by its own steps, or dropped with it.
LEMMA ChainPcWriters ==
    ASSUME ChainTypeOK, [Next]_vars, NEW c \in Callers
    PROVE  chainPc'[c] = chainPc[c] \/ AskOracle(c) \/ RegisterKey(c) \/ Dropping
  <1>1. ASSUME NEW d \in Callers, AskOracle(d), d # c PROVE chainPc'[c] = chainPc[c]
    BY <1>1 DEF AskOracle, Lock, ChainTypeOK, chainVars
  <1>2. ASSUME NEW d \in Callers, RegisterKey(d), d # c PROVE chainPc'[c] = chainPc[c]
    BY <1>2 DEF RegisterKey, ChainStep, FillTransaction, SendTransaction, Confirm, RpcFails,
                ConfirmationFails, Return, ChainTypeOK
  <1>3. ASSUME NEW d \in Callers, MineOne(d) PROVE chainPc'[c] = chainPc[c]
    BY <1>3 DEF MineOne, Mine
  <1> QED
    BY <1>1, <1>2, <1>3, ChainWriters DEF chainVars

\* The handlers of mails, action by action.
LEMMA ReceiveStepInv ==
    ASSUME ChainInv, TypeOK, ReceiveInv, [Next]_vars
    PROVE  ReceiveInv'
  <1> DEFINE Fine(c) ==
        /\ receivePc[c] # "idle" /\ email[c].request \in Requests =>
               Mailed("Command", email[c].request)
        /\ receivePc[c] # "idle" => email[c].key \in Keys
        /\ receivePc[c] \in BeforeCheck => chainPc[c] = "idle"
        /\ receivePc[c] = "register" <=> chainPc[c] \in {"lock", "filled", "pending"}
        /\ receivePc[c] \in {"check", "oracle", "register", "params", "prove", "save", "finish",
                             "complete", "error"} => email[c].request \in Requests
        /\ receivePc[c] \in {"params", "prove", "save", "finish", "complete"} => KeyVouched(c)
        /\ receivePc[c] \in {"finish", "complete"} => [request |-> email[c].request, by |-> c] \in saved
  <1>1. SUFFICES ASSUME NEW c \in Callers PROVE Fine(c)'
    BY DEF ReceiveInv
  <1>2. Fine(c)
    BY DEF ReceiveInv
  <1>3. Forward
    BY RelayerGoesForward
  <1>4. /\ \A r : Mailed("Command", r) => Mailed("Command", r)'
        /\ receivePc[c] \in {"params", "prove", "save", "finish", "complete"} /\ KeyVouched(c) => KeyVouched(c)'
        /\ saved \subseteq saved'
        /\ receivePc[c] # "idle" => email'[c] = email[c]
    BY <1>3, Kept DEF Forward, BeforeCheck
  <1>5. /\ ChainInv' /\ ChainTypeOK /\ receivePc' \in [Callers -> ReceivePcs]
        /\ txKey[c] = NoKey <=> chainPc[c] = "idle"
    BY RelayerIsChainMove, ChainMoveInv, TypeOfReceive, KeyAssumption DEF ChainInv, KeyInv
  <1>6. ASSUME receivePc'[c] = receivePc[c], email'[c] = email[c], chainPc'[c] = chainPc[c] PROVE Fine(c)'
    BY <1>2, <1>4, <1>6 DEF BeforeCheck
  \* The handler's own steps that leave the chain client alone.
  <1>7. ASSUME receivePc[c] # "idle", receivePc'[c] # "idle", chainPc'[c] = chainPc[c],
               receivePc'[c] = "register" <=> receivePc[c] = "register",
               receivePc'[c] \in BeforeCheck => receivePc[c] \in BeforeCheck,
               receivePc'[c] \in {"check", "oracle", "register", "params", "prove", "save", "finish",
                                 "complete", "error"} => email[c].request \in Requests,
               receivePc'[c] \in {"params", "prove", "save", "finish", "complete"} => KeyVouched(c)',
               receivePc'[c] \in {"finish", "complete"} => [request |-> email[c].request, by |-> c] \in saved'
        PROVE  Fine(c)'
    BY <1>2, <1>4, <1>7
  <1>8. ASSUME NEW id \in Requests \union {UnknownId, NoId}, NEW key \in Keys, Receive(c, id, key)
        PROVE  Fine(c)'
    <2>1. /\ receivePc[c] = "idle" /\ receivePc'[c] \in {"400", "received"}
          /\ email'[c] = [request |-> id, key |-> key]
          /\ chainPc'[c] = chainPc[c]
          /\ id \in Requests => CommandMailed(id)
          /\ UNCHANGED mails
      BY <1>8 DEF Receive, Goto, TypeOK, chainVars
    <2>2. id \in Requests => Mailed("Command", id)'
      BY <2>1 DEF CommandMailed, Mailed
    <2> QED
      BY <1>2, <2>1, <2>2 DEF BeforeCheck
  <1>9. ASSUME MarkReceived(c) \/ ParseMail(c) \/ SendAck(c) PROVE Fine(c)'
    <2>1. /\ receivePc[c] \in {"received", "parse", "ack"}
          /\ receivePc'[c] \in {"parse", "ack", "load", "500"}
          /\ chainPc'[c] = chainPc[c]
      BY <1>9 DEF MarkReceived, ParseMail, SendAck, Goto, FailTo, TypeOK, chainVars
    <2> QED
      BY <1>7, <2>1 DEF BeforeCheck
  <1>10. ASSUME LoadRequest(c) PROVE Fine(c)'
    <2>1. /\ receivePc[c] = "load" /\ chainPc'[c] = chainPc[c] /\ UNCHANGED email
          /\ \/ receivePc'[c] = "500"
             \/ receivePc'[c] \in {"error", "check"} /\ email[c].request \in Requests
             \/ receivePc'[c] = "params" /\ email[c].request \in Requests \ UsesChain
      BY <1>10 DEF LoadRequest, SetupFails, HasRow, Goto, FailTo, TypeOK, chainVars
    <2>2. receivePc'[c] = "params" => KeyVouched(c)'
      BY <2>1 DEF KeyVouched, RestsOn
    <2> QED
      BY <1>7, <2>1, <2>2 DEF BeforeCheck
  <1>11. ASSUME CheckKey(c) PROVE Fine(c)'
    <2>1. /\ receivePc[c] = "check" /\ UNCHANGED <<chainVars, email>>
          /\ receivePc'[c] \in {"params", "oracle", "error"}
          /\ receivePc'[c] = "params" => email[c].key \in onChain
      BY <1>11 DEF CheckKey, KeyRegistered, Goto, FailTo, TypeOK
    <2>2. receivePc'[c] = "params" => KeyVouched(c)'
      BY <1>2, <1>5, <2>1 DEF KeyVouched, RestsOn, BeforeCheck, chainVars
    <2> QED
      BY <1>2, <1>7, <2>1, <2>2 DEF BeforeCheck, chainVars
  <1>12. ASSUME AskOracle(c) PROVE Fine(c)'
    <2>1. /\ receivePc[c] = "oracle" /\ UNCHANGED <<email, saved, mails>>
          /\ \/ receivePc'[c] = "register" /\ chainPc'[c] = "lock"
             \/ receivePc'[c] \in {"error", "dropped"} /\ chainPc'[c] = chainPc[c]
      BY <1>5, <1>12 DEF AskOracle, Lock, OracleFails, Panics, FailTo, Goto, TypeOK, ChainTypeOK, chainVars, dbVars
    <2>2. CASE receivePc'[c] = "register" /\ chainPc'[c] = "lock"
      BY <1>2, <1>4, <2>1, <2>2 DEF BeforeCheck
    <2>3. CASE receivePc'[c] \in {"error", "dropped"} /\ chainPc'[c] = chainPc[c]
      BY <1>2, <1>7, <2>1, <2>3 DEF BeforeCheck
    <2> QED
      BY <2>1, <2>2, <2>3
  <1>13. ASSUME RegisterKey(c) PROVE Fine(c)'
    <2>1. /\ receivePc[c] = "register" /\ UNCHANGED <<email, saved, mails>> /\ ChainStep(c)
          /\ Goto(c, CASE chainPc'[c] = "done" -> "params"
                       [] chainPc'[c] \in {"alreadySet", "nonceConflict", "failed", "abandoned"} -> "error"
                       [] OTHER -> "register")
      BY <1>13 DEF RegisterKey, dbVars
    <2>2. chainPc'[c] \in ChainPcs \ {"idle"}
      BY <1>5, <2>1 DEF ChainTypeOK, ChainPcs, ChainStep, FillTransaction, SendTransaction, Confirm, RpcFails,
                     ConfirmationFails, Return
    <2>3. CASE chainPc'[c] = "done"
      <3>1. receivePc'[c] = "params"
        BY <2>1, <2>3 DEF Goto, TypeOK
      <3>2. txKey'[c] \in onChain' /\ txKey'[c] # NoKey
        BY <1>5, <2>3, KeyAssumption DEF ChainInv, KeyInv
      <3>3. KeyVouched(c)'
        BY <3>2 DEF KeyVouched, RestsOn
      <3> QED
        BY <1>2, <1>4, <2>1, <2>3, <3>1, <3>3 DEF BeforeCheck
    <2>4. CASE chainPc'[c] \in {"alreadySet", "nonceConflict", "failed", "abandoned"}
      <3>1. receivePc'[c] = "error"
        BY <2>1, <2>4 DEF Goto, TypeOK
      <3> QED
        BY <1>2, <1>4, <2>1, <2>4, <3>1 DEF BeforeCheck
    <2>5. CASE chainPc'[c] \in {"lock", "filled", "pending"}
      <3>1. receivePc'[c] = "register"
        BY <2>1, <2>5 DEF Goto, TypeOK
      <3> QED
        BY <1>2, <1>4, <2>1, <2>5, <3>1 DEF BeforeCheck
    <2> QED
      BY <2>2, <2>3, <2>4, <2>5 DEF ChainPcs
  <1>14. ASSUME MarkProving(c) \/ Prove(c) PROVE Fine(c)'
    <2>1. /\ receivePc[c] \in {"params", "prove"} /\ chainPc'[c] = chainPc[c]
          /\ receivePc'[c] \in {"prove", "save", "error"}
      BY <1>14 DEF MarkProving, Prove, Goto, FailTo, TypeOK, chainVars
    <2> QED
      BY <1>2, <1>4, <1>7, <2>1 DEF BeforeCheck
  <1>15. ASSUME save(c) PROVE Fine(c)'
    <2>1. PICK o \in Outcomes("db") :
            /\ saved' = AddIf(saved, [request |-> email[c].request, by |-> c], o)
            /\ Goto(c, IF o.ok THEN "finish" ELSE "error")
      BY <1>15 DEF save
    <2>2. /\ receivePc[c] = "save" /\ chainPc'[c] = chainPc[c]
          /\ receivePc'[c] = IF o.ok THEN "finish" ELSE "error"
      BY <1>15, <2>1 DEF save, Goto, TypeOK, chainVars
    <2>3. o.ok => [request |-> email[c].request, by |-> c] \in saved'
      BY <2>1, OutcomeFacts, AddIfFacts
    <2> QED
      BY <1>2, <1>4, <1>7, <2>2, <2>3 DEF BeforeCheck
  <1>16. ASSUME MarkFinished(c) PROVE Fine(c)'
    <2>1. /\ receivePc[c] = "finish" /\ chainPc'[c] = chainPc[c]
          /\ receivePc'[c] \in {"complete", "error"}
      BY <1>16 DEF MarkFinished, Goto, TypeOK, chainVars
    <2> QED
      BY <1>2, <1>4, <1>7, <2>1 DEF BeforeCheck
  <1>17. ASSUME SendResult(c) PROVE Fine(c)'
    <2>1. /\ receivePc[c] \in {"complete", "error"} /\ chainPc'[c] = chainPc[c]
          /\ receivePc'[c] = "200"
      BY <1>17 DEF SendResult, Goto, TypeOK, chainVars
    <2> QED
      BY <1>7, <2>1 DEF BeforeCheck
  <1>18. CASE Dropping
    <2>1. PICK C : /\ receivePc'[c] = IF c \in C /\ receivePc[c] \notin {"idle"} \union Answered
                                      THEN "dropped" ELSE receivePc[c]
                   /\ c \in C /\ InCall(c) => chainPc'[c] \in {"failed", "abandoned"}
                   /\ ~(c \in C /\ InCall(c)) => chainPc'[c] = chainPc[c]
                   /\ UNCHANGED email
      <3> DEFINE Is(C) == /\ receivePc'[c] = IF c \in C /\ receivePc[c] \notin {"idle"} \union Answered
                                            THEN "dropped" ELSE receivePc[c]
                          /\ c \in C /\ InCall(c) => chainPc'[c] \in {"failed", "abandoned"}
                          /\ ~(c \in C /\ InCall(c)) => chainPc'[c] = chainPc[c]
                          /\ UNCHANGED email
      <3>1. ASSUME NEW R, NEW C, NEW Q, Drop(R, C, Q), (C = {} /\ UNCHANGED chainVars) \/ GiveUp(C)
            PROVE  Is(C)
        BY <3>1 DEF Drop, GiveUp, InCall, chainVars
      <3>2. CASE Disconnect
        BY <3>1, <3>2 DEF Disconnect, DropCaller
      <3>3. ASSUME NEW p \in Replicas, Crash(p) PROVE \E C : Is(C)
        BY <3>1, <3>3 DEF Crash, DropProcess
      <3> QED
        BY <1>18, <3>2, <3>3 DEF Dropping
    <2>2. CASE c \in C /\ InCall(c)
      BY <1>2, <1>4, <2>1, <2>2 DEF InCall, Answered, BeforeCheck
    <2>3. CASE ~(c \in C /\ InCall(c))
      <3>1. CASE receivePc'[c] = receivePc[c]
        BY <1>6, <2>1, <2>3, <3>1
      <3>2. CASE receivePc'[c] = "dropped" /\ c \in C /\ receivePc[c] # "idle"
        BY <1>2, <1>7, <2>1, <2>3, <3>2 DEF BeforeCheck, InCall
      <3> QED
        BY <2>1, <3>1, <3>2
    <2> QED
      BY <2>2, <2>3
  <1>19. ASSUME NEW d \in Callers, d # c,
                ReceiveStep(d) \/ \E id \in Requests \union {UnknownId, NoId}, key \in Keys : Receive(d, id, key)
         PROVE  receivePc'[c] = receivePc[c] /\ email'[c] = email[c]
    BY <1>19, StepAdvances DEF Receive, Goto, TypeOK
  <1>20. CASE receivePc'[c] = receivePc[c] /\ email'[c] = email[c]
    BY <1>5, <1>6, <1>12, <1>13, <1>18, <1>20, ChainPcWriters
  <1> HIDE DEF Fine
  <1> QED
    BY <1>8, <1>9, <1>10, <1>11, <1>12, <1>13, <1>14, <1>15, <1>16, <1>17, <1>18, <1>19, <1>20,
       ReceiveWriters DEF ReceiveStep

\* A status is written by a handler whose pc earns it (update_request, model.rs:111).
LEMMA StatusStepInv ==
    ASSUME TypeOK, SubmitInv, ReceiveInv, StatusInv, [Next]_vars
    PROVE  StatusInv'
  <1> DEFINE Fine(r) ==
        /\ rows[r] = "Email sent" => Mailed("Command", r) /\ r \in expected
        /\ rows[r] = "Email response received" =>
               \E c \in Callers : email[c].request = r /\ receivePc[c] # "idle"
        /\ rows[r] = "Proving" => \E c \in Callers : email[c].request = r /\ Vouched(c)
        /\ rows[r] = "Finished" => Saved(r)
  <1>1. SUFFICES ASSUME NEW r \in Requests PROVE Fine(r)'
    BY DEF StatusInv
  <1>2. Fine(r)
    BY DEF StatusInv
  <1>3. Forward
    BY RelayerGoesForward
  <1>4. /\ Mailed("Command", r) => Mailed("Command", r)'
        /\ r \in expected => r \in expected'
        /\ Saved(r) => Saved(r)'
        /\ \A c \in Callers : receivePc[c] # "idle" => receivePc'[c] # "idle" /\ email'[c] = email[c]
        /\ \A c \in Callers : Vouched(c) => Vouched(c)' /\ receivePc[c] # "idle"
    BY <1>3, Kept DEF Forward, Vouched, BeforeCheck
  <1>5. ASSUME rows'[r] = rows[r] PROVE Fine(r)'
    BY <1>2, <1>4, <1>5
  <1>6. ASSUME NEW s \in Requests, create_request(s) PROVE Fine(r)'
    <2>1. rows'[r] = rows[r] \/ rows'[r] = "Request received"
      BY <1>6 DEF create_request, TypeOK
    <2> QED
      BY <1>5, <2>1
  <1>7. ASSUME NEW s \in Requests, MarkSent(s) PROVE Fine(r)'
    <2>1. rows'[r] = rows[r] \/ (s = r /\ rows'[r] = "Email sent")
      BY <1>7 DEF MarkSent, update_request
    <2>2. Mailed("Command", s) /\ s \in expected
      BY <1>7 DEF MarkSent, SubmitInv
    <2> QED
      BY <1>4, <1>5, <2>1, <2>2
  <1>8. ASSUME NEW c \in Callers, MarkReceived(c) PROVE Fine(r)'
    <2>1. rows'[r] = rows[r] \/ (email[c].request = r /\ rows'[r] = "Email response received")
      BY <1>8 DEF MarkReceived, update_request
    <2>2. receivePc[c] # "idle"
      BY <1>8 DEF MarkReceived
    <2> QED
      BY <1>4, <1>5, <2>1, <2>2
  <1>9. ASSUME NEW c \in Callers, MarkProving(c) PROVE Fine(r)'
    <2>1. rows'[r] = rows[r] \/ (email[c].request = r /\ rows'[r] = "Proving")
      BY <1>9 DEF MarkProving, update_request
    <2>2. receivePc[c] = "params" /\ KeyVouched(c)
      BY <1>9 DEF MarkProving, ReceiveInv
    <2>3. Vouched(c)
      BY <2>2 DEF Vouched, BeforeCheck
    <2> QED
      BY <1>4, <1>5, <2>1, <2>3
  <1>10. ASSUME NEW c \in Callers, MarkFinished(c) PROVE Fine(r)'
    <2>1. rows'[r] = rows[r] \/ (email[c].request = r /\ rows'[r] = "Finished")
      BY <1>10 DEF MarkFinished, update_request
    <2>2. [request |-> email[c].request, by |-> c] \in saved
      BY <1>10 DEF MarkFinished, ReceiveInv
    <2>3. Saved(email[c].request)
      BY <2>2 DEF Saved
    <2> QED
      BY <1>4, <1>5, <2>1, <2>3
  <1> HIDE DEF Fine
  <1> QED
    BY <1>5, <1>6, <1>7, <1>8, <1>9, <1>10, RowsWriters

\* A response is saved by a handler at "save", behind its check.
LEMMA SavedStepInv ==
    ASSUME TypeOK, ReceiveInv, SavedInv, [Next]_vars
    PROVE  SavedInv'
  <1>1. Forward
    BY RelayerGoesForward
  <1>2. SUFFICES ASSUME NEW s \in saved' PROVE Vouched(s.by)' /\ email'[s.by].request = s.request
    BY DEF SavedInv
  <1>3. CASE s \in saved
    <2>1. s.by \in Callers /\ Vouched(s.by) /\ email[s.by].request = s.request
      BY <1>3 DEF SavedInv, TypeOK
    <2>2. receivePc[s.by] # "idle"
      BY <2>1 DEF Vouched, BeforeCheck
    <2> QED
      BY <1>1, <2>1, <2>2, Kept DEF Forward
  <1>4. ASSUME s \notin saved, NEW c \in Callers, save(c)
        PROVE  Vouched(s.by)' /\ email'[s.by].request = s.request
    <2>1. s = [request |-> email[c].request, by |-> c]
      BY <1>4 DEF save, AddIf
    <2>2. receivePc[c] = "save" /\ KeyVouched(c)
      BY <1>4 DEF save, ReceiveInv
    <2>3. Vouched(c) /\ receivePc[c] # "idle"
      BY <2>2 DEF Vouched, BeforeCheck
    <2> QED
      BY <1>1, <2>1, <2>3, Kept DEF Forward
  <1> QED
    BY <1>3, <1>4, SavedWriters

\* A result is mailed by a handler that ends with it (SendResult).
LEMMA MailStepInv ==
    ASSUME TypeOK, ReceiveInv, MailInv, CompletionIsTrue, [Next]_vars
    PROVE  MailInv' /\ CompletionIsTrue'
  <1>1. Forward
    BY RelayerGoesForward
  <1>2. ASSUME NEW mail \in mails, mail.kind # "Command"
        PROVE  mail.by \in Callers /\ receivePc'[mail.by] = "200" /\ email'[mail.by].request = mail.request
    BY <1>1, <1>2 DEF MailInv, Forward
  <1>3. CASE UNCHANGED mails
    BY <1>1, <1>2, <1>3 DEF MailInv, CompletionIsTrue, Forward
  <1>4. ASSUME NEW r \in Requests, SendCommand(r) PROVE MailInv' /\ CompletionIsTrue'
    <2>1. \A mail \in mails' : mail \in mails \/ mail = Mail("Command", r, r)
      BY <1>4 DEF SendCommand, AddIf
    <2>2. \A mail \in mails' : mail.kind # "Command" => mail \in mails
      BY <2>1 DEF Mail
    <2>3. \A s, by : Mail("Error", s, by) \in mails' => Mail("Error", s, by) \in mails
      BY <2>2 DEF Mail
    <2> QED
      BY <1>1, <1>2, <2>2, <2>3 DEF MailInv, CompletionIsTrue, Forward
  <1>5. ASSUME NEW c \in Callers, SendResult(c) PROVE MailInv' /\ CompletionIsTrue'
    <2> DEFINE new == Mail(IF receivePc[c] = "complete" THEN "Completion" ELSE "Error", email[c].request, c)
    <2>1. /\ receivePc[c] \in {"complete", "error"} /\ receivePc'[c] = "200" /\ UNCHANGED <<saved, email>>
          /\ \A mail \in mails' : mail \in mails \/ mail = new
      BY <1>5 DEF SendResult, Goto, AddIf, TypeOK, dbVars
    <2>2. \A mail \in mails : mail.kind # "Command" => mail.by # c
      BY <2>1 DEF MailInv
    <2>3. MailInv'
      BY <1>2, <2>1 DEF MailInv, Mail
    <2>4. ASSUME NEW mail \in mails', mail.kind = "Completion"
          PROVE  /\ [request |-> mail.request, by |-> mail.by] \in saved
                 /\ Mail("Error", mail.request, mail.by) \notin mails'
      <3>1. CASE mail \in mails
        <4>1. Mail("Error", mail.request, mail.by) # new
          BY <2>2, <2>4, <3>1 DEF Mail
        <4> QED
          BY <2>1, <2>4, <3>1, <4>1 DEF CompletionIsTrue
      <3>2. CASE mail = new
        <4>1. receivePc[c] = "complete" /\ mail.request = email[c].request /\ mail.by = c
          BY <2>4, <3>2 DEF Mail
        <4>2. [request |-> email[c].request, by |-> c] \in saved
          BY <4>1 DEF ReceiveInv
        <4>3. Mail("Error", mail.request, c) \notin mails
          BY <2>2 DEF Mail
        <4>4. Mail("Error", mail.request, c) # new
          BY <4>1 DEF Mail
        <4> QED
          BY <2>1, <4>1, <4>2, <4>3, <4>4
      <3> QED
        BY <2>1, <3>1, <3>2
    <2> QED
      BY <2>1, <2>3, <2>4 DEF CompletionIsTrue
  <1> QED
    BY <1>3, <1>4, <1>5, MailsWriters

\* What a status call saw is still so: responses are never deleted.
LEMMA QueryStepInv ==
    ASSUME TypeOK, ReceiveInv, StatusInv, QueryInv, [Next]_vars
    PROVE  QueryInv'
  <1> DEFINE Fine(q) ==
        /\ query[q].pc = "row" /\ query[q].status = "Finished" => Saved(query[q].request)
        /\ query[q].pc = "200" /\ query[q].status = "Finished" => query[q].response
  <1>1. SUFFICES ASSUME NEW q \in Pollers PROVE Fine(q)'
    BY DEF QueryInv
  <1>2. Fine(q)
    BY DEF QueryInv
  <1>3. \A r : Saved(r) => Saved(r)'
    BY RelayerGoesForward, Kept
  <1>4. ASSUME query'[q] = query[q] PROVE Fine(q)'
    BY <1>2, <1>3, <1>4
  <1>5. ASSUME NEW r \in Requests, ReadRow(q, r) PROVE Fine(q)'
    <2>1. \/ query'[q].pc = "row" /\ query'[q].request = r /\ query'[q].status = rows[r]
          \/ query'[q].pc = "500"
      <3>1. query \in [Pollers -> Queries]
        BY DEF TypeOK, Queries
      <3>2. \/ query'[q] = [NoQuery EXCEPT !.pc = "row", !.request = r, !.status = rows[r]]
            \/ query'[q] = [NoQuery EXCEPT !.pc = "500", !.request = r]
        BY <1>5, <3>1 DEF ReadRow
      <3> QED
        BY <3>2 DEF NoQuery
    <2>2. rows[r] = "Finished" => Saved(r)
      BY DEF StatusInv
    <2> QED
      BY <1>3, <2>1, <2>2
  <1>6. ASSUME ReadResponse(q) PROVE Fine(q)'
    <2>1. query[q] \in Queries /\ DOMAIN query = Pollers
      BY DEF TypeOK, Queries
    <2>2. \/ query' = [query EXCEPT ![q].pc = "200",
                                  ![q].response = \E s \in saved : s.request = query[q].request]
          \/ query' = [query EXCEPT ![q].pc = "500"]
      BY <1>6 DEF ReadResponse
    <2>3. ASSUME query' = [query EXCEPT ![q].pc = "200",
                                      ![q].response = \E s \in saved : s.request = query[q].request],
                 query'[q].status = "Finished"
          PROVE  query'[q].response
      <3>1. query'[q].status = query[q].status
        BY <2>1, <2>3 DEF Queries
      <3>2. \E s \in saved : s.request = query[q].request
        BY <1>2, <1>6, <2>3, <3>1 DEF ReadResponse, Saved
      <3>3. query'[q].response = TRUE
        BY <2>1, <2>3, <3>2 DEF Queries
      <3> QED
        BY <3>3
    <2>4. query'[q].pc \in {"200", "500"}
      BY <2>1, <2>2 DEF Queries
    <2> QED
      BY <2>1, <2>2, <2>3, <2>4 DEF Queries
  <1>7. ASSUME NEW p \in Pollers, p # q, ReadResponse(p) \/ \E r \in Requests : ReadRow(p, r)
        PROVE  query'[q] = query[q]
    BY <1>7 DEF ReadResponse, ReadRow, TypeOK
  <1>8. CASE Dropping
    <2>1. query'[q] = query[q] \/ query'[q].pc = "dropped"
      BY <1>8, DroppingIs DEF Drop, NoQuery
    <2> QED
      BY <1>4, <2>1
  <1> HIDE DEF Fine
  <1> QED
    BY <1>4, <1>5, <1>6, <1>7, <1>8, QueryWriters

-------------------------------------------------------------------------------
\* The invariant, and what follows from it

\* The initial state satisfies the invariant.
LEMMA RelayerInitInv == Init => RelayerInv /\ NonceInv
  <1> SUFFICES ASSUME Init PROVE RelayerInv /\ NonceInv
    OBVIOUS
  <1>1. ChainInv /\ NonceInv
    BY ChainInitInv DEF Init
  <1>2. TypeOK
    <2>1. NoMail \in [request : Requests \union {UnknownId, NoId}, key : Keys \union {NoKey}]
      BY DEF NoMail
    <2>2. NoQuery \in [pc : {"idle", "row", "200", "500", "dropped"}, request : Requests \union {NoId},
                       status : Statuses \union {NoRow}, response : BOOLEAN]
      BY DEF NoQuery
    <2> QED
      BY <1>1, <2>1, <2>2 DEF Init, ChainInv, TypeOK
  <1>3. SubmitInv
    BY DEF Init, SubmitInv
  <1>4. ReceiveInv
    BY DEF Init, ChainInit, ReceiveInv, BeforeCheck
  <1>5. StatusInv
    BY DEF Init, StatusInv, NoRow
  <1>6. SavedInv /\ MailInv /\ CompletionIsTrue
    BY DEF Init, SavedInv, MailInv, CompletionIsTrue
  <1>7. QueryInv
    BY DEF Init, QueryInv, NoQuery
  <1> QED
    BY <1>1, <1>2, <1>3, <1>4, <1>5, <1>6, <1>7 DEF RelayerInv

\* Every step keeps the invariant.
LEMMA RelayerNextInv == RelayerInv /\ [Next]_vars => RelayerInv'
  <1> SUFFICES ASSUME RelayerInv, [Next]_vars PROVE RelayerInv'
    OBVIOUS
  <1>1. /\ ChainInv /\ TypeOK /\ SubmitInv /\ ReceiveInv /\ StatusInv /\ SavedInv
        /\ MailInv /\ CompletionIsTrue /\ QueryInv
    BY DEF RelayerInv
  <1>2. ChainInv'
    BY <1>1, RelayerIsChainMove, ChainMoveInv
  <1>3. TypeOK'
    BY <1>1, <1>2, TypeOfRows, TypeOfSets, TypeOfSubmit, TypeOfReceive, TypeOfQuery, TypeOfUp
       DEF ChainInv, TypeOK, SubmitPcs, ReceivePcs, Queries
  <1>4. SubmitInv'
    BY <1>1, SubmitStepInv
  <1>5. ReceiveInv'
    BY <1>1, ReceiveStepInv
  <1>6. StatusInv'
    BY <1>1, StatusStepInv
  <1>7. SavedInv'
    BY <1>1, SavedStepInv
  <1>8. MailInv' /\ CompletionIsTrue'
    BY <1>1, MailStepInv
  <1>9. QueryInv'
    BY <1>1, QueryStepInv
  <1> QED
    BY <1>2, <1>3, <1>4, <1>5, <1>6, <1>7, <1>8, <1>9 DEF RelayerInv

\* The invariant holds in every reachable state.
THEOREM RelayerInvariance == Spec => []RelayerInv
  BY RelayerInitInv, RelayerNextInv, PTL DEF Spec

\* The types of the tables, the mails, the handlers and the chain client.
THEOREM TypeCorrect == Spec => []TypeOK
  <1>1. RelayerInv => TypeOK
    BY DEF RelayerInv
  <1> QED
    BY <1>1, RelayerInvariance, PTL

\* No row shows a status before the work it names is done (model.rs, update_request).
THEOREM StatusEarned == Spec => []StatusIsEarned
  <1>1. RelayerInv => StatusIsEarned
    <2> SUFFICES ASSUME RelayerInv, NEW r \in Requests
                 PROVE  /\ rows[r] = "Email sent" => Mailed("Command", r) /\ r \in expected
                        /\ rows[r] = "Email response received" =>
                               Mailed("Command", r) /\ {c \in Callers : email[c].request = r} # {}
                        /\ rows[r] = "Proving" =>
                               \E c \in {d \in Callers : email[d].request = r} : KeyVouched(c)
                        /\ rows[r] = "Finished" => Saved(r)
      BY DEF StatusIsEarned
    <2>1. StatusInv /\ ReceiveInv
      BY DEF RelayerInv
    <2>2. ASSUME rows[r] = "Email response received"
          PROVE  Mailed("Command", r) /\ {c \in Callers : email[c].request = r} # {}
      <3>1. PICK c \in Callers : email[c].request = r /\ receivePc[c] # "idle"
        BY <2>1, <2>2 DEF StatusInv
      <3> QED
        BY <2>1, <3>1 DEF ReceiveInv
    <2>3. ASSUME rows[r] = "Proving"
          PROVE  \E c \in {d \in Callers : email[d].request = r} : KeyVouched(c)
      BY <2>1, <2>3 DEF StatusInv, Vouched
    <2> QED
      BY <2>1, <2>2, <2>3 DEF StatusInv
  <1> QED
    BY <1>1, RelayerInvariance, PTL

\* A response is saved only after its mail's key was found or made a registered one
\* (mail.rs, handle_email).
THEOREM SavedVouched == Spec => []SavedIsVouched
  <1>1. RelayerInv => SavedIsVouched
    BY DEF RelayerInv, SavedInv, Vouched, SavedIsVouched
  <1> QED
    BY <1>1, RelayerInvariance, PTL

\* A Completion mail is true, and its handler sends no Error mail (handler.rs,
\* receive_email_handler).
THEOREM CompletionTrue == Spec => []CompletionIsTrue
  <1>1. RelayerInv => CompletionIsTrue
    BY DEF RelayerInv
  <1> QED
    BY <1>1, RelayerInvariance, PTL

\* A status call that answers "Finished" carries the response, although it reads the
\* two in two queries (handler.rs, get_status_handler).
THEOREM FinishedHasResponse == Spec => []FinishedAnswerHasResponse
  <1>1. RelayerInv => FinishedAnswerHasResponse
    BY DEF RelayerInv, QueryInv, FinishedAnswerHasResponse
  <1> QED
    BY <1>1, RelayerInvariance, PTL

\* A submission that was answered 200 is out, expected and no longer new (handler.rs,
\* submit_handler).
THEOREM SubmittedMailed == Spec => []SubmittedIsMailed
  <1>1. RelayerInv => SubmittedIsMailed
    BY DEF RelayerInv, SubmitInv, SubmittedIsMailed
  <1> QED
    BY <1>1, RelayerInvariance, PTL

\* The one process's mutex leaves one way to a nonce conflict, with all the handlers
\* around it: a transaction that its own handler gave up on (chain.rs:66).
THEOREM RelayerConflicts ==
    ASSUME OneProcess PROVE Spec => []ConflictNeedsAbandonedTransaction
  <1>1. RelayerInv /\ NonceInv /\ [Next]_vars => NonceInv'
    BY RelayerIsChainMove, NonceMoveInv DEF RelayerInv
  <1>2. NonceInv => ConflictNeedsAbandonedTransaction
    BY DEF NonceInv
  <1> QED
    BY <1>1, <1>2, RelayerInitInv, RelayerInvariance, PTL DEF Spec

-------------------------------------------------------------------------------
\* What an error says

\* A handler that saved a response goes on to its end without an error, and a command is
\* mailed by the step that takes its submission beyond "mail".
ErrorInv ==
    /\ "db" \notin Faults =>
           /\ \A s \in saved : receivePc[s.by] \in {"finish", "complete", "200", "dropped"}
           /\ \A mail \in mails : mail.kind = "Error" =>
                  [request |-> mail.request, by |-> mail.by] \notin saved
    /\ {"db", "smtp"} \intersect Faults = {} =>
           \A r \in Requests : submitPc[r] \in {"idle", "mail", "500"} => ~Mailed("Command", r)

\* A call that nothing can happen to works, and a mail that does not render is not sent.
LEMMA NoFaultFacts ==
    /\ "db" \notin Faults => \A o \in Outcomes("db") : o.ok /\ o.applied
    /\ "smtp" \notin Faults =>
           \A template : \A o \in send_email(template) : o.ok \in BOOLEAN /\ (o.applied => o.ok)
  <1>1. ASSUME NEW fault, fault \notin Faults PROVE Outcomes(fault) = {[ok |-> TRUE, applied |-> TRUE]}
    BY <1>1 DEF Outcomes
  <1>2. \A o \in {[ok |-> TRUE, applied |-> TRUE]} : o.ok /\ o.applied
    OBVIOUS
  <1>3. \A template : \A o \in render_html(template) : o.ok = FALSE /\ o.applied = FALSE
    BY DEF render_html
  <1> QED
    BY <1>1, <1>2, <1>3, OutcomeFacts DEF send_email

\* A handler that has saved goes forward to its end, or is dropped.
LEMMA SavedGoesOn ==
    ASSUME TypeOK, "db" \notin Faults, [Next]_vars, NEW c \in Callers,
           receivePc[c] \in {"finish", "complete", "200", "dropped"}
    PROVE  receivePc'[c] \in {"finish", "complete", "200", "dropped"}
  <1>1. ASSUME ReceiveStep(c) PROVE receivePc'[c] \in {"finish", "complete", "200", "dropped"}
    <2>1. CASE MarkFinished(c)
      <3>1. PICK o \in Outcomes("db") : Goto(c, IF o.ok THEN "complete" ELSE "error")
        BY <2>1 DEF MarkFinished
      <3> QED
        BY <3>1, NoFaultFacts DEF Goto, TypeOK
    <2>2. CASE SendResult(c)
      BY <2>2 DEF SendResult, Goto, TypeOK
    <2> QED
      BY <1>1, <2>1, <2>2
         DEF ReceiveStep, MarkReceived, ParseMail, SendAck, LoadRequest, CheckKey, AskOracle, RegisterKey,
             MarkProving, Prove, save
  <1>2. ASSUME NEW d \in Callers, d # c, ReceiveStep(d) PROVE receivePc'[c] = receivePc[c]
    BY <1>2, StepAdvances
  <1>3. ASSUME NEW d \in Callers, NEW id, NEW key, Receive(d, id, key) PROVE receivePc'[c] = receivePc[c]
    BY <1>3 DEF Receive, Goto, TypeOK
  <1>4. CASE Dropping
    BY <1>4, DropAdvances
  <1> QED
    BY <1>1, <1>2, <1>3, <1>4, ReceiveWriters

LEMMA ErrorReceiveInv ==
    ASSUME RelayerInv, ErrorInv, [Next]_vars, "db" \notin Faults
    PROVE  /\ \A s \in saved' : receivePc'[s.by] \in {"finish", "complete", "200", "dropped"}
           /\ \A mail \in mails' : mail.kind = "Error" =>
                  [request |-> mail.request, by |-> mail.by] \notin saved'
  <1>1. TypeOK /\ ReceiveInv /\ MailInv
    BY DEF RelayerInv
  <1>2. /\ \A s \in saved : s.by \in Callers /\ receivePc[s.by] \in {"finish", "complete", "200", "dropped"}
        /\ \A mail \in mails : mail.kind = "Error" =>
               [request |-> mail.request, by |-> mail.by] \notin saved
    BY <1>1 DEF ErrorInv, TypeOK
  <1>3. \A s \in saved : receivePc'[s.by] \in {"finish", "complete", "200", "dropped"}
    BY <1>1, <1>2, SavedGoesOn
  <1>4. ASSUME NEW c \in Callers, save(c)
        PROVE  /\ \A s \in saved' : receivePc'[s.by] \in {"finish", "complete", "200", "dropped"}
               /\ \A mail \in mails' : mail.kind = "Error" =>
                      [request |-> mail.request, by |-> mail.by] \notin saved'
    <2>1. /\ receivePc[c] = "save" /\ UNCHANGED mails
          /\ \A s \in saved' : s \in saved \/ s = [request |-> email[c].request, by |-> c]
      BY <1>4 DEF save, AddIf
    <2>2. PICK o \in Outcomes("db") : Goto(c, IF o.ok THEN "finish" ELSE "error")
      BY <1>4 DEF save
    <2>3. receivePc'[c] = "finish"
      BY <1>1, <2>2, NoFaultFacts DEF Goto, TypeOK
    <2>4. \A mail \in mails : mail.kind = "Error" => mail.by # c
      BY <1>1, <2>1 DEF MailInv
    <2> QED
      BY <1>2, <1>3, <2>1, <2>3, <2>4
  <1>5. ASSUME UNCHANGED saved, NEW mail \in mails', mail.kind = "Error"
        PROVE  [request |-> mail.request, by |-> mail.by] \notin saved
    <2>1. CASE mail \in mails
      BY <1>2, <1>5, <2>1
    <2>2. ASSUME NEW r \in Requests, SendCommand(r) PROVE mail \in mails
      BY <1>5, <2>2 DEF SendCommand, AddIf, Mail
    <2>3. ASSUME NEW c \in Callers, SendResult(c), mail \notin mails
          PROVE  [request |-> mail.request, by |-> mail.by] \notin saved
      <3>1. mail.by = c /\ receivePc[c] = "error"
        BY <1>5, <2>3 DEF SendResult, AddIf, Mail
      <3> QED
        BY <1>2, <3>1
    <2> QED
      BY <2>1, <2>2, <2>3, MailsWriters
  <1> QED
    BY <1>3, <1>4, <1>5, SavedWriters

LEMMA ErrorSubmitInv ==
    ASSUME RelayerInv, ErrorInv, [Next]_vars, {"db", "smtp"} \intersect Faults = {},
           NEW r \in Requests, submitPc'[r] \in {"idle", "mail", "500"}
    PROVE  ~Mailed("Command", r)'
  <1>1. TypeOK /\ "db" \notin Faults /\ "smtp" \notin Faults
    BY DEF RelayerInv
  <1>2. submitPc[r] \in {"idle", "mail", "500"} => ~Mailed("Command", r)
    BY DEF ErrorInv
  <1>3. ASSUME SendCommand(r) PROVE ~Mailed("Command", r)'
    <2>1. PICK o \in send_email("commandTemplate") :
            /\ mails' = AddIf(mails, Mail("Command", r, r), o)
            /\ SubmitGoto(r, IF o.ok THEN "expect" ELSE "500")
      BY <1>3 DEF SendCommand
    <2>2. ~o.ok
      BY <1>1, <2>1, NoFaultFacts DEF SubmitGoto, TypeOK
    <2>3. mails' = mails
      BY <1>1, <2>1, <2>2, NoFaultFacts, OutcomeFacts DEF AddIf
    <2>4. submitPc[r] = "mail"
      BY <1>3 DEF SendCommand
    <2> QED
      BY <1>2, <2>3, <2>4 DEF Mailed
  <1>4. ASSUME ~SendCommand(r) PROVE Mailed("Command", r)' => Mailed("Command", r)
    <2>1. ASSUME NEW s \in Requests, s # r, SendCommand(s), NEW mail \in mails', mail.request = r PROVE mail \in mails
      BY <2>1 DEF SendCommand, AddIf, Mail
    <2>2. ASSUME NEW c \in Callers, SendResult(c), NEW mail \in mails', mail.kind = "Command" PROVE mail \in mails
      BY <2>2 DEF SendResult, AddIf, Mail
    <2> QED
      BY <1>4, <2>1, <2>2, MailsWriters DEF Mailed
  <1>5. ASSUME ~SendCommand(r) PROVE submitPc[r] \in {"idle", "mail", "500"}
    <2>1. ASSUME create_request(r) PROVE submitPc[r] = "idle"
      BY <2>1 DEF create_request
    <2>2. ASSUME insert_expected_reply(r) \/ MarkSent(r) PROVE FALSE
      <3>1. PICK o \in Outcomes("db") : submitPc'[r] = (IF o.ok THEN "sent" ELSE "500") \/ submitPc'[r] = (IF o.ok THEN "200" ELSE "500")
        BY <1>1, <2>2 DEF insert_expected_reply, MarkSent, SubmitGoto, TypeOK
      <3>2. o.ok
        BY <1>1, NoFaultFacts
      <3> QED
        BY <3>1, <3>2
    <2>3. ASSUME NEW s \in Requests, s # r, create_request(s) \/ SubmitStep(s) PROVE submitPc'[r] = submitPc[r]
      BY <1>1, <2>3 DEF create_request, SubmitStep, SendCommand, insert_expected_reply, MarkSent, SubmitGoto, TypeOK
    <2>4. CASE Dropping
      <3>1. submitPc'[r] = submitPc[r] \/ submitPc'[r] = "dropped"
        BY <2>4, DroppingIs DEF Drop
      <3> QED
        BY <3>1
    <2> QED
      BY <1>5, <2>1, <2>2, <2>3, <2>4, SubmitWriters DEF SubmitStep
  <1> QED
    BY <1>2, <1>3, <1>4, <1>5

\* While the database answers, an error is never reported for work that was done
\* (handler.rs, receive_email_handler and submit_handler).
THEOREM ErrorsAreTrue == Spec => []ErrorMeansNothingDone
  <1>1. Init => ErrorInv
    BY DEF Init, ErrorInv, Mailed
  <1>2. RelayerInv /\ ErrorInv /\ [Next]_vars => ErrorInv'
    BY ErrorReceiveInv, ErrorSubmitInv DEF ErrorInv
  <1>3. ErrorInv => ErrorMeansNothingDone
    BY DEF ErrorInv, ErrorMeansNothingDone
  <1> QED
    BY <1>1, <1>2, <1>3, RelayerInvariance, PTL DEF Spec

-------------------------------------------------------------------------------
\* The promise to the clients

\* The steps that a client may see.
LEMMA VisibleSteps ==
    ASSUME [Next]_vars
    PROVE  \/ UNCHANGED <<mails, saved, onChain>>
           \/ \E r \in Requests : SendCommand(r)
           \/ \E c \in Callers : SendResult(c) \/ save(c) \/ MineOne(c)
  <1>1. ASSUME NEW c \in Callers, AskOracle(c) \/ RegisterKey(c)
        PROVE  UNCHANGED <<mails, saved, onChain>>
    BY <1>1 DEF AskOracle, RegisterKey, dbVars, chainVars, Lock, ChainStep, FillTransaction,
                SendTransaction, Confirm, RpcFails, ConfirmationFails
  <1>2. Dropping => UNCHANGED <<mails, saved, onChain>>
    BY DEF Dropping, Disconnect, Crash, Drop, DropCaller, DropProcess, GiveUp, dbVars, chainVars
  <1>3. UNCHANGED onChain \/ \E c \in Callers : MineOne(c)
    BY <1>1, <1>2, ChainWriters DEF chainVars
  <1>4. ASSUME NEW c \in Callers, MineOne(c) PROVE UNCHANGED <<mails, saved>>
    BY <1>4 DEF MineOne, relayerVars, dbVars
  <1>5. ASSUME NEW r \in Requests, SendCommand(r) PROVE UNCHANGED <<saved, onChain>>
    BY <1>5 DEF SendCommand, dbVars, chainVars
  <1>6. ASSUME NEW c \in Callers, SendResult(c) PROVE UNCHANGED <<saved, onChain>>
    BY <1>6 DEF SendResult, dbVars, chainVars
  <1>7. ASSUME NEW c \in Callers, save(c) PROVE UNCHANGED <<mails, onChain>>
    BY <1>7 DEF save, chainVars
  <1> QED
    BY <1>3, <1>4, <1>5, <1>6, <1>7, MailsWriters, SavedWriters

\* The abstract state, as the refinement mapping of Relayer gives it.
Invited == {r \in Requests : Mailed("Command", r)}
Told == {r \in Requests : Mailed("Completion", r)}
Responses == {[request |-> s.request, key |-> RestsOn(s.by)] : s \in saved}

\* The keys that the saved responses rest on are settled.
LEMMA RestsOnSettled ==
    ASSUME TypeOK, Forward, SavedInv, NEW s \in saved
    PROVE  RestsOn(s.by)' = RestsOn(s.by)
  BY DEF TypeOK, Forward, SavedInv, Vouched, RestsOn, BeforeCheck

\* So the abstract responses change only when a response is saved.
LEMMA ResponsesSettled ==
    ASSUME TypeOK, Forward, SavedInv, UNCHANGED saved
    PROVE  UNCHANGED Responses
  BY RestsOnSettled DEF Responses

\* Every step of the relayer is one of the promise's, or the client does not see it.
LEMMA PromiseStep ==
    ASSUME RelayerInv, [Next]_vars
    PROVE  [Promise!Next]_Promise!vars
  <1> DEFINE Same == UNCHANGED <<Invited, onChain, Responses, Told>>
  <1>0. /\ TypeOK /\ ReceiveInv /\ SavedInv /\ Forward /\ onChain' \subseteq Keys
    BY RelayerGoesForward, RelayerNextInv DEF RelayerInv, TypeOK, ChainTypeOK
  <1>1. Same => UNCHANGED Promise!vars
    BY DEF Promise!vars, Invited, Told, Responses
  <1>2. UNCHANGED mails => UNCHANGED <<Invited, Told>>
    BY DEF Invited, Told, Mailed
  <1>3. CASE UNCHANGED <<mails, saved, onChain>>
    BY <1>0, <1>1, <1>2, <1>3, ResponsesSettled
  <1>4. ASSUME NEW r \in Requests, SendCommand(r) PROVE [Promise!Next]_Promise!vars
    <2>1. UNCHANGED <<onChain, Responses>>
      BY <1>0, <1>4, ResponsesSettled DEF SendCommand, dbVars, chainVars
    <2>2. mails' = mails \/ mails' = mails \union {Mail("Command", r, r)}
      BY <1>4 DEF SendCommand, AddIf
    <2>3. ASSUME mails' = mails \union {Mail("Command", r, r)}
          PROVE  Told' = Told /\ Invited' = Invited \union {r}
      <3>1. Mail("Command", r, r).kind = "Command" /\ Mail("Command", r, r).request = r
        BY DEF Mail
      <3>2. \A kind, s : Mailed(kind, s)' <=> Mailed(kind, s) \/ (kind = "Command" /\ s = r)
        BY <2>3, <3>1 DEF Mailed
      <3> QED
        BY <3>2 DEF Told, Invited
    <2>4. CASE Told' = Told /\ Invited' = Invited \union {r} /\ r \notin Invited
      <3>1. Promise!Invite(r)
        BY <2>1, <2>4 DEF Promise!Invite, Invited, Told, Responses
      <3> QED
        BY <3>1 DEF Promise!Next
    <2> QED
      BY <1>1, <1>2, <2>1, <2>2, <2>3, <2>4
  <1>5. ASSUME NEW c \in Callers, SendResult(c) PROVE [Promise!Next]_Promise!vars
    <2> DEFINE r == email[c].request
    <2>1. UNCHANGED <<onChain, Responses>>
      BY <1>0, <1>5, ResponsesSettled DEF SendResult, dbVars, chainVars
    <2>2. \/ mails' = mails
          \/ mails' = mails \union {Mail("Error", r, c)}
          \/ receivePc[c] = "complete" /\ mails' = mails \union {Mail("Completion", r, c)}
      BY <1>5 DEF SendResult, AddIf
    <2>3. ASSUME mails' = mails \union {Mail("Error", r, c)}
          PROVE  Told' = Told /\ Invited' = Invited
      <3>1. Mail("Error", r, c).kind = "Error"
        BY DEF Mail
      <3>2. \A kind \in {"Command", "Completion"} : \A s : Mailed(kind, s)' <=> Mailed(kind, s)
        BY <2>3, <3>1 DEF Mailed
      <3> QED
        BY <3>2 DEF Told, Invited
    <2>4. ASSUME mails' = mails \union {Mail("Completion", r, c)}, receivePc[c] = "complete"
          PROVE  /\ Told' = Told \union {r}
                 /\ Invited' = Invited
                 /\ r \in Requests
                 /\ \E response \in Responses : response.request = r
      <3>1. Mail("Completion", r, c).kind = "Completion" /\ Mail("Completion", r, c).request = r
        BY DEF Mail
      <3>2. \A kind, s : Mailed(kind, s)' <=> Mailed(kind, s) \/ (kind = "Completion" /\ s = r)
        BY <2>4, <3>1 DEF Mailed
      <3>3. r \in Requests /\ [request |-> r, by |-> c] \in saved
        BY <1>0, <2>4 DEF ReceiveInv
      <3>4. [request |-> r, key |-> RestsOn(c)] \in Responses
        BY <3>3 DEF Responses
      <3> QED
        BY <3>2, <3>3, <3>4 DEF Told, Invited
    <2>5. CASE /\ Told' = Told \union {r}
               /\ Invited' = Invited
               /\ r \in Requests
               /\ \E response \in Responses : response.request = r
               /\ r \notin Told
      <3>1. Promise!Tell(r)
        BY <2>1, <2>5 DEF Promise!Tell, Invited, Told, Responses
      <3> QED
        BY <2>5, <3>1 DEF Promise!Next
    <2> HIDE DEF r
    <2> QED
      BY <1>1, <1>2, <2>1, <2>2, <2>3, <2>4, <2>5
  <1>6. ASSUME NEW c \in Callers, save(c) PROVE [Promise!Next]_Promise!vars
    <2> DEFINE s == [request |-> email[c].request, by |-> c]
               response == [request |-> email[c].request, key |-> RestsOn(c)]
    <2>1. UNCHANGED <<onChain, Invited, Told>> /\ receivePc[c] = "save" /\ UNCHANGED <<txKey, email>>
      BY <1>2, <1>6 DEF save, chainVars
    <2>2. saved' = saved \/ saved' = saved \union {s}
      BY <1>6 DEF save, AddIf
    <2>3. CASE saved' = saved
      BY <1>0, <1>1, <2>1, <2>3, ResponsesSettled
    <2>4. CASE saved' = saved \union {s} /\ response \notin Responses
      <3>1. Responses' = Responses \union {response}
        <4>1. \A d : RestsOn(d)' = RestsOn(d)
          BY <2>1 DEF RestsOn
        <4>2. s.request = response.request /\ s.by = c
          OBVIOUS
        <4> QED
          BY <2>4, <4>1, <4>2 DEF Responses
      <3>2. /\ email[c].request \in Requests /\ Mailed("Command", email[c].request)
            /\ email[c].key \in Keys /\ KeyVouched(c)
        BY <1>0, <2>1 DEF ReceiveInv
      <3>3. RestsOn(c) \in Keys
        BY <1>0, <3>2 DEF RestsOn, TypeOK, ChainTypeOK
      <3>4. PICK x : x = response
        OBVIOUS
      <3>5. x \in Promise!Response
        BY <3>2, <3>3, <3>4 DEF Promise!Response
      <3>6. Promise!Respond(x)
        BY <2>1, <2>4, <3>1, <3>2, <3>4
           DEF Promise!Respond, Invited, Told, Responses, KeyVouched
      <3> QED
        BY <3>5, <3>6 DEF Promise!Next
    <2>5. CASE saved' = saved \union {s} /\ response \in Responses
      <3>1. Responses' = Responses
        <4>1. \A d : RestsOn(d)' = RestsOn(d)
          BY <2>1 DEF RestsOn
        <4>2. s.request = response.request /\ s.by = c
          OBVIOUS
        <4> QED
          BY <2>5, <4>1, <4>2 DEF Responses
      <3> QED
        BY <1>1, <2>1, <3>1
    <2> QED
      BY <2>2, <2>3, <2>4, <2>5
  <1>7. ASSUME NEW c \in Callers, MineOne(c) PROVE [Promise!Next]_Promise!vars
    <2>1. UNCHANGED <<Invited, Told, Responses>> /\ onChain' = onChain \union {txKey[c]}
      BY <1>0, <1>2, <1>7, ResponsesSettled DEF MineOne, Mine, relayerVars, dbVars
    <2>2. CASE txKey[c] \notin onChain
      <3>1. Promise!Register(txKey[c])
        BY <2>1, <2>2 DEF Promise!Register, Invited, Told, Responses
      <3>2. txKey[c] \in Keys
        BY <1>0, <2>1
      <3> QED
        BY <3>1, <3>2 DEF Promise!Next
    <2> QED
      BY <1>1, <2>1, <2>2
  <1> QED
    BY <1>3, <1>4, <1>5, <1>6, <1>7, VisibleSteps

\* To its clients the relayer, with all its handlers, processes, failures and retries, is
\* RelayerPromise (handler.rs, receive_email_handler; mail.rs, handle_email).
THEOREM Refinement == Spec => RefinesRelayerPromise
  <1>1. Init => Promise!Init
    BY DEF Init, ChainInit, Promise!Init, Mailed
  <1>2. RelayerInv /\ [Next]_vars => [Promise!Next]_Promise!vars
    BY PromiseStep
  <1> QED
    BY <1>1, <1>2, RelayerInvariance, PTL DEF Spec, RefinesRelayerPromise, Promise!Spec
===============================================================================
