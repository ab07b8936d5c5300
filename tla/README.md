# TLA+ models of email-tx-builder

This directory specifies the contracts, the relayer and the command path of this
repository in TLA+, checks them with TLC on small instances and proves the main
results about the contracts, the relayer and the conversions between them for every instance with TLAPS. `PROJECT.json` lists the
runs, the correspondence of every definition to lines of the source, and the hazards
the properties are aimed at.

## The system

A client submits a request to the **relayer**. The relayer stores it, mails a command
to a user and waits for the reply. The reply is DKIM-signed by the user's mail domain;
the relayer makes sure that the domain's key is in the **DKIM registry** on chain (asking
an oracle for a signed key if it is not), has a **prover** run the **email circuit** on
the reply, and stores the resulting `EmailAuthMsg`. The client fetches that message and
presents it to **EmailAuth** (one-time authorization for a controller contract) or to an
**EmailSigner** (ERC-1271 signature). Both ask a registry and a **Verifier**.

| Component | State | Operations | Interacts with |
| --- | --- | --- | --- |
| `EmailAuth.sol` | owner, code, controller, account salt, registry, verifier, templates, `lastTimestamp`, `usedNullifiers`, check flag | initialize, init/update registry and verifier, insert/update/delete template, `authEmail`, `setTimestampCheckEnabled`, ownership, upgrade | called by its controller; calls a registry, a Verifier, `CommandUtils` |
| `ECDSAOwnedDKIMRegistry.sol` | owner, code, signer, keys, revoked hashes | set, revoke (anyone, with a signature), `changeSigner`, ownership, upgrade | the oracle signs for it; asked by EmailAuth and EmailSigner |
| `EmailSigner.sol`, `EmailSignerFactory.sol` | per clone: salt, registry, verifier, template id | deploy, initialize, `verifyEmail`, `isValidSignature` | calls a registry, a Verifier, `CommandUtils` |
| `CommandUtils`, `StringUtils`, `DecimalUtils` | none | expected command, prefix, parameter extraction, decimals | called by the contracts |
| `Verifier.sol`, `Groth16Verifier.sol` | owner, code, address of the Groth16 verifier | `verifyEmailProof`, update, upgrade | called by the contracts |
| circuits | none | mask the command, pack the public signals, hash the salt and the nullifier | their signals are read by relayer and Verifier |
| relayer `handler.rs`, `mail.rs` | tasks, one per HTTP call | submit, receive email, status, account salt, health | database, mail server, prover, chain, oracle |
| relayer `model.rs` | tables `requests`, `expected_replies`, `email_auth_messages` | create, update status, get, insert | shared by all tasks of all processes |
| relayer `command.rs`, `prove.rs` | none | fill the template in, read the parameters off the reply, ask for the proof, unmask the command | mail, prover, the contracts' `CommandUtils` |
| relayer `main.rs`, `config.rs`, `route.rs` | which processes serve; the configuration | start, route a call to its handler | all of the relayer |
| deployment scripts | none | deploy proxies, hand over, renounce, upgrade, change the signer | one transaction per contract and step |
| relayer `chain.rs`, `dkim.rs`, `statics.rs` | `SHARED_MUTEX`, one per process; one Ethereum account for all | check key, register key | node, oracle |

What is hard here: handlers interleave at every `await` on shared rows; a client may
disconnect or a process die anywhere, and nothing resumes a request; each external call
may fail before or after its effect; transactions outlive the task that sent them; anyone
may present an email, a proof or a registry signature again, in any order and with freely
chosen surroundings; owner, controller, signer and registries change between
presentations; and a command is masked, packed, unpacked, printed and compared by four
programs in three languages.

What makes each component correct: EmailAuth never authorizes twice or out of order, and
nobody can retarget a renounced one; the registry obeys its current signer only and a
revoked key stays dead; a signer speaks for one account; printing is unambiguous; the
Verifier's signals are the circuit's; the relayer's statuses, mails and answers are true,
and each reply gets an answer.

## Modules

| Module | Models |
| --- | --- |
| `CommandUtils`, `DecimalUtils` | the libraries, as operators and recursive functions |
| `EmailAuth` (extends `CommandUtils`) | one account's `EmailAuth` contract |
| `OneTimeAuthorization` | what EmailAuth promises its controller, as an abstract specification |
| `ECDSAOwnedDKIMRegistry` | the registry with the `DKIMRegistry` it owns |
| `EmailSigner` (extends `CommandUtils`, instance of the registry) | the factory, its clones, other clones, and the registry they ask |
| `Verifier` | the administration of `Verifier.sol`: owner, code, Groth16 verifier |
| `Deployment` (extends the registry, instances of `Verifier` and `EmailAuth`) | one registry, one Verifier and one account's EmailAuth that asks them |
| `CommandSignals` | the command through circuit, relayer and Verifier |
| `RelayerCommand` (extends `CommandUtils`) | the command from the request through mail, reply and parameters to `authEmail` |
| `ChainClient` | the chain account, its mutex and its transactions |
| `Relayer` (extends `ChainClient`) | handlers, database, mails |
| `RelayerPromise` | what the relayer promises its clients, as an abstract specification |
| `*Proofs` | theorems about the module of that name |
| `MC*` | constants and bounds of the runs |

**Contracts.** A transaction is atomic, so a public function is one action, a `require`
is a conjunct of its guard, and a revert is an action that is not enabled. `sender` ranges
over accounts. View functions are operators. `EmailAuth` adds the history variable
`authed`, the events with the timestamp of the message and whether it was compared;
the registry adds `everSet` (keys ever set) and `signatures` (what has been signed off
chain; it only grows, and every element can be presented at any time, so replay costs no
extra action). An upgrade changes `implementation`, the address of the proxy's code; what
is proved is about proxies whose code stays one of this repository's versions, so the
upgrade matters for who may do it. Groth16, ECDSA and hashes are ideal: a Groth16 verifier
accepts a set of proofs, a signature is recovered to its signer, hashes do not collide (`HashAssumption`).
In `EmailAuth` alone, registries (`registered`) and verifiers (`accepts`) answer
differently from one moment to the next, without any rule. `Deployment` replaces these
two by what the deployed registry and Verifier answer: `registered` is computed from the
registry's storage, `accepts` from the Groth16 verifier that the Verifier has now. Each
step is a transaction of one of the three contracts. Registries that the account's owner
may choose instead call every key valid. In `EmailSigner` the caller chooses template id, parameters and skipped prefix freely
around each proof.

**Texts.** A text is a sequence of tokens, each a run of bytes that the code does not
take apart. A template entry is a matcher or a literal text. Two loops occur again and again and are
stated once: `Joined` puts texts in a row with blanks between them (the contract's expected command, the request's
template), `Without` leaves tokens or empty words out (`replace`, `split_whitespace`, the masked command). In `DecimalUtils` a number is
its digits and a byte that was never written is `NUL`. The loop that writes one index
after another is stated per index: what it leaves at index i depends on whether a non-zero
decimal lies to the right of i.

**Signals.** A byte is a number below `Base`, and a field element is the number that the packed bytes make in
that base, modulo `Prime`. `Prime` is at least twice as large as any packed number and a number of
one byte more (`SizeAssumption`); the real one, 48 times 256^31, has 32 bytes. Each byte of a command
belongs to the code with its prefix, to an address, to neither, or to both: then the
circuit subtracts it twice, the "byte" is negative, and the field wraps around the prime.
The relayer unpacks one byte more than the circuit packed, drops NULs (`WithoutNULs`), stops at a zero
field, and fails on what is not UTF-8 (the byte `NotInUTF8` stands for all such).

**Commands.** A request names a template and texts for its parameters. `MailedCommand` is
the loop of `parse_command_template`, which searches from the beginning for the next pair
of braces for every parameter, so that it also replaces braces in a parameter before.
The reply is the subject and the quoted command, perhaps with a soft line break in it.
`BeginRequest` takes up a request with a subject, with or without code, folded or not (`EmptyRequests`), and `AskEntry` and `AskParam`
write its template and parameters. `Addresses` are the tokens that the circuit's regex masks as email addresses.
`get_encoded_command_params` looks for the template in the words of the whole mail; where
it matches more than once, the choice is the external library's, and the model takes
each. What the contract then compares with is `CommandUtils`' expected command.

**Relayer.** One action per `await` that touches shared state; the parts between awaits
belong to the action before them. `submitPc[r]` and `receivePc[c]` are the places where
the handler of submission r and of inbound mail c wait; "200", "400" and "500" are answers and
"dropped" a task that ended early. `Faults` says what may go wrong: `db` and `smtp` (the
call fails, with or without its effect), `commandTemplate` and
`answerTemplate` (a mail that does not render), `email`
(a mail that cannot be parsed or whose parameters do not fit), `config` (the request's
chain is not configured, or not validly), `rpc`, `confirmation`, `oracle`, `rotation` (the
oracle signs another key), `malformed` (its key hash has another length: the task panics),
`prover`, `disconnect` (a dropped task) and `crash` (a process ends with all its tasks).
Processes start with `main`, also after a crash; handlers and status calls begin only in a
process that is `up`, and a new process takes up nothing that an old one left. A mail handler
calls `set_dkim_public_key_hash` as `RegisterKey`, which takes the steps of `ChainClient`:
queue for the mutex, fill in gas and nonce, send, wait for the confirmation. The queue is
first-in first-out as tokio documents it. A dropped task leaves it (`DropCaller`), a killed
process takes it along (`DropProcess`), and neither takes back a transaction: its caller
is then "abandoned", like one whose confirmation fails, and not "failed". Ack mails are not
recorded, as nothing depends on them. The relayer calls a registry of another type than
`ECDSAOwnedDKIMRegistry` (`UserOverridableDKIMRegistry`, not in this repository); it is
modelled from `chain.rs` as a set of keys that only grows.

## Runs

| Run | Bounds | Shows |
| --- | --- | --- |
| `email_auth` | 2 accounts, 2 registries, 1 verifier that may come to refuse proofs, 2 implementations, 2 templates, 4 emails (a tie, one without a timestamp, one proven twice), 11 messages of which several must be refused | `RefinesPromise`, `UsedIsAuthed`, `LastTimestampIsLatestChecked`, `RenouncedIsFrozen` |
| `deployment` | registry and Verifier with 2 accounts as owners and signers, 2 domains with one hash, 3 signatures; 2 Groth16 verifiers, one of which accepts nothing; 1 user, 1 email, 1 other registry | `NeverRevived`, `OnlySignerDecides`, `RevokedNeverAuthorizes`, `RenouncedDeploymentIsFixed` |
| `email_signer` | 2 salts, a clone elsewhere, a stranger's registry, 3 emails and a forged one, 4 parameter lists that fit or not, 3 registry signatures | `FactorySignersAreBound`, `OneSignerPerProof`, `OneHashPerProof`, `RevokedIsNeverAccepted` |
| `conversions` | numbers of up to 5 digits over 0, 1, 9 with up to 5 decimals; templates of up to 3 entries; requests with up to one word and two matchers in any order and up to two parameters, with fewer and more parameters than matchers, with blanks, braces, addresses (alone and at the end of a word, in parameters and in the template) and other spellings of a number, with and without a code, subject and line break | `DecimalReadsBack`, `DecimalIsCanonical`, `ParamReadsBack`, `AmbiguityNeedsTwoStrings`, `QuotedReplyAuthenticates`, `CommandHasItsParameters`, `AuthorizedAsAsked` |
| `command_signals` | bytes of 4 values, commands of up to 5 bytes in fields of 4, texts of up to 6 | `ProofVerifiesUnlessGap`, `VerifiedTextIsTyped`, `AcceptedTextIsMasked` |
| `relayer_safety` | 1 request, 2 concurrent replies, 2 keys, 1 process, every fault | `StatusIsEarned`, `SavedIsVouched`, `CompletionIsTrue`, `FinishedAnswerHasResponse`, `SubmittedIsMailed`, `ConflictNeedsAbandonedTransaction` |
| `relayer_live` | 2 requests (one without a chain), 2 replies, 1 key, confirmations fail, the process crashes and starts again, a task panics, a submission fails | `ErrorMeansNothingDone`, `RefinesRelayerPromise`, `EveryMailIsAnswered`, `ReplyIsReported`, `ReplySucceeds` |

Why these bounds are enough to meet the hard cases: replay and ordering need two emails
and the third and fourth add a tie and a missing timestamp; a revived key needs SET,
REVOKE and the old SET, which 3 signatures allow, and a second domain shows that a
revocation is global; interference between handlers needs two; a field of NULs, a full
one and one with a single byte all fit into 5 bytes of 4-byte fields, and so does a borrow that runs
through several bytes; the decimals cover a number shorter, as long
and longer than its fraction. One verifier is enough in `email_auth`, as what it accepts may change under the contract
just as if it were replaced, and `RenouncedFrozen` is proved for any number; in
`deployment` the timestamp check stays on (constraint `CheckStaysOn`), as `email_auth` covers it, and one
hash in two domains makes a revocation for one domain reach the other.
`MaxSignatures` (constraints `SignaturesBounded`),
`MaxDigits`, `MaxDecimal` and `MaxEntries` are the explicit bounds; logs are bounded because each email
enters once. The contracts do not restrict who may be which role, so symmetry over accounts,
registries, verifiers, domains, hashes, mail handlers (of one process) and keys is sound; it is used in
safety runs only. Runs disable the deadlock check only where the system or the
enumeration of inputs comes to an end.

Five runs are expected to find a violation. Each checks a sentence of the documentation
that the code does not honour:

| Run | Sentence | What happens |
| --- | --- | --- |
| `decimal_zero` | "human readable string" (`DecimalUtils.sol:9`) | `uintToDecimalString(0)` contains NUL bytes |
| `chain_replicas` | "Mutex is used to prevent nonce conflicts." (`chain.rs:66`) | two processes use the same nonce; the autoscaler allows ten (`kubernetes/relayer.yml:157`) |
| `relayer_status` | "The current status of the request." (`model.rs:16`) | a late "Email sent", or a second reply, overwrites "Finished" |
| `relayer_key` | "Checks and updates the DKIM for a given email." (`dkim.rs:143`) | the oracle finds a newer key in DNS; that one is registered, and the response is saved although the email's own key is not |
| `revocation_domain` | "Revokes a DKIM public key hash for a domain name" (`ECDSAOwnedDKIMRegistry.sol:93`) | a hash set for two domains is revoked for one and falls for both |

Even with one process the mutex does not exclude a conflict: a handler that gives up on
the confirmation releases it with a transaction still pending.
`ConflictNeedsAbandonedTransaction` says that this is the only way. `ReplySucceeds` likewise
names the one failure that remains when all services work: the registration fails because its confirmation got lost or because another handler registered the
key between the check (`dkim.rs:178`) and the transaction.

The other properties of these parts take the found behaviour as it is: `NeverRevived` and `OnlySignerDecides` let a revocation
reach every domain, `SavedIsVouched` and `RefinesRelayerPromise` speak of the key that the handler found registered or that the oracle
returned (`RestsOn`), and `CommandHasItsParameters` and `AuthorizedAsAsked` except a parameter with a brace that another one follows.

An Error mail may follow a saved response, when recording "Finished" fails, and a submission may be answered 500 after its mail is out, when
recording the expected reply or the status fails. `ErrorMeansNothingDone` says that the database's failures (for the
submission also a lost answer of the mail server) are the only way to either: `relayer_live` checks it where neither fails, the theorem
`ErrorsAreTrue` holds under every set of faults.

`QuotedReplyAuthenticates` and `AuthorizedAsAsked` state what they need, and each condition is one that
the code does not check: a parameter that the contract prints differently from how the request writes
it (`007`, an address in another letter case than the others) gives a reply that is proven,
saved and called finished, and that no contract will accept, and so does an email address in a word of the template, which is
masked in the command; an address in a parameter is masked too, so that `x:a@b` was asked and `x:`, if the reply says that somewhere, is
authorized; a template that
matches elsewhere in the mail may take the wrong words; and with a parameter missing the user is mailed
the placeholder itself, which a `{string}` then authorizes. `CommandHasItsParameters` says where the mailed command
has the request's parameters at all: for every number of them, unless one with a brace is followed by another. That one
replaces the braces, its own placeholder stays, and the user is asked to confirm a command that nobody submitted
(`handler.rs:163` promises the template "with the provided parameters").

Smaller divergences, without a run: `lastTimestamp` is not always "the latest `timestamp` in the verified `EmailAuthMsg`" (`contracts/README.md:110`),
as it stays behind while the check is off, which step 7 of the same README says; `isValidSignature` reverts where its comment
promises `bytes4(0)` (`EmailSigner.sol:143`); `config.example.json` spells `dkim_canisterId` and `wallet_canisterId`
where `config.rs:37` reads camelCase names; `updated_at` and `has_reply` are never written after
insertion (`model.rs:20`, `model.rs:34`); `extractCommandParamByIndex` panics where its comment promises an
empty string (`CommandUtils.sol:166`); the event `EmailSignerDeployed` carries the hash of
the salt under the name `accountSalt` (`EmailSignerFactory.sol:67`).

## Fairness

Only `relayer_live` assumes any: weak fairness of each handler's next step, of each
status call, and of the mining of each transaction. The executor polls every task that
is ready, database, mail server, oracle and prover answer, and the chain includes what it accepted. Nothing makes
clients submit, mails arrive, users poll or a process start again. The run leaves out the faults for which
the property is false by design (an Error mail that the mail server refuses), and keeps lost
confirmations, crashes and panics, as they must not block the queue for the others;
`ReplyIsReported` and `ReplySucceeds` except the replies whose own task is dropped.

## Proofs

`tlapm` checks them for all values of the constants, from the named assumptions in the
modules (addresses differ from `address(0)`, timestamps are naturals, hashes do not collide,
a number is printed in digits and not like another one, the field's prime has room for the packed bytes, a command holds no NUL).
TLC evaluates these assumptions in the runs.

* `EmailAuthProofs`: `Invariance` proves the inductive invariant `IInv`, which adds to the
  type invariant that `usedNullifiers` is the set of logged emails and that `lastTimestamp` bounds the compared ones and
  is one of them. Both are needed: the guard of `authEmail` looks at these two variables only, and the promise speaks of
  the log. From it follow `TypeCorrect`, `UsedAreAuthed`, `LatestChecked`, the refinement
  `Refinement` (each `authEmail` maps to `Authorize`, everything else stutters), and `RenouncedFrozen`. What the abstract
  specification is for, that its log has no email twice and that the ordered entries are in order, is `LogCorrect`, by
  induction on the log's growth; `NoReplayInOrder` carries it down.
* `ECDSAOwnedDKIMRegistryProofs`: the invariant says that a key is recorded exactly when it was ever set, so a key
  that was set and is not valid is revoked, and revocation is never undone
  (`RevocationIsFinal`); `SignerDecides` follows from the guards of the two operations.
* `DeploymentProofs`: the invariant adds to the typing of the log that what a call of `revokeDKIMPublicKeyHash`
  revoked is revoked still: `EmailAuth` stores nothing of the registry, so this one fact, read through `DKIMKeyValid`
  at the moment of `authEmail`, gives `RevokedNever`. `RenouncedFixed` needs no invariant: each contract's guards
  close when its owner is `address(0)`. Assumed: `address(0)` sends no transaction, and the deployed registry is one
  of those the account may be given.
* `EmailSignerProofs`: the clone at a predicted address is initialized in the transaction that creates it
  (`FactoryBound`); as the predicted addresses of two salts differ, no other step reaches it. `OneSigner`: acceptance implies that the
  proof's salt is the clone's. `RevocationEnds` takes the registry's invariant and its lemma on which steps touch the keys from
  `ECDSAOwnedDKIMRegistryProofs` through an instance: a factory signer asks that registry (`FactoryBound`), so a message accepted
  after a step has a key that is valid after it, and a revoked one is not. `OneHash` is about texts alone: the template's recursive
  command is written out (`ExpectedSignHash`), and two rests of one masked command, behind two skipped prefixes, cannot
  both be commands, since the longer one would hold the word `signHash` among its digits (`OneSkip`).
* `ChainClientProofs`: the inductive invariant is that the queue is a lock. It holds the callers inside the call,
  each once (`MutexInv`), so that `RemoveFirst` lets exactly the returning caller out, and whoever is past "lock" is its head; a caller inside the call has
  a key (`KeyInv`). With one process (`OneProcess`, a hypothesis of the theorem and of none of the others) `NonceInv` says what is pending: every transaction
  in the mempool has a caller that is "pending", of which there is at most one, or "abandoned", and the nonce of whoever holds the mutex is free unless an
  abandoned transaction took it. This gives `ChainConflicts`; `chain_replicas` shows that the hypothesis is needed.
* `RelayerProofs`: none of the relayer's safety properties is inductive, as a row says "Proving" long after the handler
  that wrote it went on or was dropped. `RelayerInv` says for every pc of a handler what it has achieved by then (`SubmitInv`, `ReceiveInv`) and for every
  row, response, mail and status call which handler vouches for it (`StatusInv`, `SavedInv`, `MailInv`, `QueryInv`), on top of
  the chain client's invariant (each step of the relayer is one of `ChainMove`, or none). Two halves: no step takes back
  what a handler has achieved (`RelayerGoesForward`: mails, responses and keys only grow, a handler's mail and key are settled), and the step
  that writes a variable is entitled to what it writes (the `StepInv` lemmas). `TypeCorrect`, `StatusEarned`, `SavedVouched`,
  `CompletionTrue`, `FinishedHasResponse`, `SubmittedMailed`, `RelayerConflicts` follow, `ErrorsAreTrue` with a small invariant of its own (`ErrorInv`: without failures of
  the database a handler that saved goes on to its end, `SavedGoesOn`), and so does `Refinement`: `SendCommand` maps to `Invite`, `Mine` to `Register`,
  `save` to `Respond`, a Completion mail to `Tell`, every other step stutters, and no step changes the key that an earlier response rests on.
  These hold for any number of processes (but `RelayerConflicts`), requests, replies and status calls, under every set of faults.
* `CommandSignalsProofs`: packing is a recursive function, so the proofs go by induction; the induction is over sets of naturals
  (`Induction`, from the well-foundedness of <), and `Recursion` shows once that a function defined step by step exists.
  A field of bytes is below `Prime`, so its bytes are the digits of the number and equal fields hold equal bytes
  (`PackingInjective`). With the callers' length check this is `AcceptedIsMasked`, of any proof and any email without an overlap,
  and `TextIsMasked`. The relayer's `BytesOf` undoes the packing (`FieldUnpacks`), so it reads back a command whose NULs are all
  behind its last byte (`CommandReadsBack`). An overlap leaves a negative byte, which borrows from the byte behind it (`Borrow`):
  the last of them is in front of a masked byte, a NUL, that the text would have to replace by the highest byte, and no text holds that;
  at the end of a field the borrow would have to come from `Prime`, which is too large for it. So nothing is masked twice where a proof
  verifies (`NothingMaskedTwice`), and `VerifiesUnlessGap` and `TextIsTyped` follow. The invariant is what an email's command looks like (`IsCommand`).
* `ConversionsProofs`: what `uintToDecimalString` leaves at each index is the numeral's byte there (`PrintedIsNumeral`): the loop's flag
  says that a decimal to the right is not zero, and the bytes that were written are the first ones, so that counting them cuts the text
  at its last significant decimal. The numeral has one point at the right place (`PointOfNumeral`), its parts are
  canonical, and padded with zeros and stripped they are the number (`NumeralReadsBack`): `PrintedCorrect`,
  for every positive number and number of decimals, and from it `ReadsBack` and `Canonical`.

  Commands are loops over texts, so each loop is shown once to be what it makes of nothing and of one more element (`JoinedAppend`,
  `SplitAppend`, `WithoutAppend`), and what follows about rows of texts is by induction over sequences (`SeqInduction`, again over a set of naturals).
  The inductive invariants are `TemplateWritten` (a parameter of the matcher's kind for each matcher) and `RequestWritten`
  (entries, parameters and subject are what the constants offer).
  `ParamReads`: a row of texts without blanks is split into these texts (`SplitRow`), and what follows an entry does not change the words before it.
  `Unambiguous`: printed texts other than strings have one part each, so two lists with one string print the same number of parts only if the
  strings have as many, and then the rows agree entry by entry (`RowTells`).
  `ParametersPlaced`, `QuotedAuthenticates` and `AuthorizedAsked` follow the mail: when j parameters are filled in, the text is the row of the
  words, these parameters and the placeholders that are left (`FilledIs`), since no text in front of the first placeholder has a brace;
  `ReplyWords` says that the reply's words are those of its subject, of that row and of the code, wherever the line break is.
  From a quoted mail the words at the end of the subject match (`QuotedWords`), so the one match there is, is this one, and the
  contract prints the row again; this takes a template without addresses (`LiteralKept`). Conversely, what the contract accepts prints as the masked row; this has as many words as entries
  only if each entry contributes one (`CountLeast`), so each value prints as what masking leaves of its parameter's word (`MaskedWord`) and, the printing being undone by the encoding, is the encoding of that.

The assumptions about commands are the named ones of `MCConversions`: blank, line break, addresses and what the code writes are different tokens
(`TokenAssumption`); a contract prints texts, different ones for different parameters, and only a `{string}` prints a blank (`TemplateAssumption`, `PrintAssumption`);
the words of a request's template have no blank, line break or brace and its parameters and subject no line break (`RequestAssumption`; addresses may
stand anywhere in them); a contract prints an encoded word as one word, and what it prints, if it is a word of a masked mail, encodes the same value (`EncodingAssumption`: `007` may
print as `7`, but `7` is then what `007` encodes to). The bounds of the run (`MaxEntries`, `MaxWords`, `MaxMatchers`, `MaxParams`) are constants, so the theorems
hold for templates and requests of any length.

Only model-checked: the liveness of `relayer_live`, which is beyond the prover. Every invariant and action property of a passing run is a theorem.

## Not modelled

Groth16 and the arithmetic of the circuits beyond masking and packing, DKIM itself, the
generated regexes and verifiers, and the other circuit templates: arithmetic that a model checker cannot enumerate.
Code other than this repository's behind a proxy, which may do anything. The ZKsync
factories, which only compute an address and make a system call; in the scripts, the reading of the environment. The relayer's reading of
`config.json` and its `account_salt` and `health_check` handlers, which keep no state; the
wording of mails; `hexToBytes` and the other helpers of `StringUtils` that the contracts
here do not call. The uint8 counters of `CommandUtils` revert at 256 template entries,
far beyond what a command holds.

## Plan

Done: `CommandUtils`, `DecimalUtils`, `EmailAuth` with its promise, the registry, the
signers, the Verifier and their composition, `CommandSignals`, `RelayerCommand`, `ChainClient`,
`Relayer` with its promise, and proofs of every invariant and action property that the passing runs check.

Open: a composition of `RelayerCommand` with `CommandSignals` at the level of bytes, so that the masked command of a proof is
computed from the reply instead of from its tokens.
