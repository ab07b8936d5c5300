--------------------------- MODULE EmailAuthProofs ---------------------------
(***************************************************************************)
(* What EmailAuth.tla states, proved for all values of the constants.      *)
(*                                                                         *)
(* The inductive invariant is Inv.  TypeOK alone does not carry over       *)
(* authEmail, whose event holds the account salt: only an initialized      *)
(* contract has a controller and a salt.  Neither does the refinement:     *)
(* what the contract remembers (usedNullifiers, lastTimestamp) has to be   *)
(* related to the history of its events.                                   *)
(***************************************************************************)
EXTENDS EmailAuth, TLAPS

\* Before initialize there is no controller and hence nobody who can act as one.
OnlyInitializedActs ==
    /\ ~initialized => controller = NoAddr
    /\ ~initialized => owner = NoAddr
    /\ initialized => accountSalt \in Salts

Inv ==
    /\ TypeOK
    /\ OnlyInitializedActs
    /\ UsedIsAuthed
    /\ LastTimestampIsLatestChecked

-------------------------------------------------------------------------------

\* The contract starts with an empty log and nothing used.
LEMMA InitInv == Init => Inv
  <1> SUFFICES ASSUME Init PROVE Inv
    OBVIOUS
  <1>1. TypeOK
    <2>1. commandTemplates \in [TemplateIds -> Templates \union {NoTemplate}]
      BY DEF Init
    <2>2. authed \in Seq(Event)
      BY DEF Init
    <2>3. lastTimestamp \in Timestamps
      BY TimestampAssumption DEF Init
    <2> QED
      BY <2>1, <2>2, <2>3 DEF Init, outside, TypeOK
  <1>2. OnlyInitializedActs
    BY DEF Init, OnlyInitializedActs
  <1>3. UsedIsAuthed
    BY DEF Init, UsedIsAuthed
  <1>4. LastTimestampIsLatestChecked
    BY DEF Init, LastTimestampIsLatestChecked
  <1> QED
    BY <1>1, <1>2, <1>3, <1>4 DEF Inv

\* Every function but authEmail leaves `spent` alone, and with it the two
\* invariants about the history.
LEMMA SpentUnchanged ==
    ASSUME UsedIsAuthed, LastTimestampIsLatestChecked, UNCHANGED spent
    PROVE  UsedIsAuthed' /\ LastTimestampIsLatestChecked'
  BY DEF spent, UsedIsAuthed, LastTimestampIsLatestChecked, Place

\* authEmail by an initialized contract's controller keeps the invariant.
LEMMA AuthEmailInv ==
    ASSUME Inv, NEW sender \in Accounts, NEW msg \in Msgs, authEmail(sender, msg)
    PROVE  Inv'
  <1> DEFINE n == msg.proof.emailNullifier
             event == EmailAuthed(msg)
  <1>1. /\ n \in Nullifiers
        /\ msg.proof.timestamp \in Timestamps
        /\ msg.proof.isCodeExist \in BOOLEAN
        /\ msg.templateId \in TemplateIds
        /\ <<msg.proof.domainName, msg.proof.publicKeyHash>> \in Keys
    BY MsgAssumption DEF IsProof
  <1>2. initialized /\ accountSalt \in Salts
    BY AddressAssumption DEF Inv, OnlyInitializedActs, authEmail, onlyController
  <1>3. msg.proof.accountSalt \in Salts
    BY <1>2 DEF authEmail
  <1>4. event \in Event
    BY <1>1, <1>3 DEF EmailAuthed, Event, Inv, TypeOK
  <1>5. authed \in Seq(Event) /\ authed' = Append(authed, event)
    BY DEF Inv, TypeOK, authEmail
  <1>6. /\ Len(authed') = Len(authed) + 1
        /\ authed'[Len(authed) + 1] = event
        /\ \A i \in 1..Len(authed) : authed'[i] = authed[i]
    BY <1>4, <1>5
  <1>7. TypeOK'
    <2>1. authed' \in Seq(Event)
      BY <1>4, <1>5
    <2>2. lastTimestamp' \in Timestamps
      BY <1>1 DEF authEmail, NextTimestamp, Inv, TypeOK
    <2>3. usedNullifiers' \in [Nullifiers -> BOOLEAN]
      BY DEF authEmail, NextUsedNullifiers, Inv, TypeOK
    <2> QED
      BY <2>1, <2>2, <2>3 DEF authEmail, Inv, TypeOK, config, trust, outside
  <1>8. OnlyInitializedActs'
    BY DEF authEmail, Inv, OnlyInitializedActs, config
  <1>9. UsedIsAuthed'
    <2> SUFFICES ASSUME NEW m \in Nullifiers
                 PROVE  usedNullifiers'[m] <=>
                            \E i \in 1..Len(authed') : authed'[i].emailNullifier = m
      BY DEF UsedIsAuthed
    <2>1. usedNullifiers'[m] <=> m = n \/ usedNullifiers[m]
      BY <1>1 DEF authEmail, NextUsedNullifiers, Inv, outside, TypeOK
    <2>2. event.emailNullifier = n
      BY DEF EmailAuthed
    <2>3. usedNullifiers[m] <=> \E i \in 1..Len(authed) : authed[i].emailNullifier = m
      BY DEF Inv, UsedIsAuthed
    <2>4. CASE m = n
      BY <2>1, <2>2, <2>4, <1>5, <1>6
    <2>5. CASE m # n
      BY <2>1, <2>2, <2>3, <2>5, <1>5, <1>6
    <2> QED
      BY <2>4, <2>5
  <1>10. LastTimestampIsLatestChecked'
    <2>1. lastTimestamp \in Nat /\ lastTimestamp' \in Nat /\ lastTimestamp <= lastTimestamp'
      <3> DEFINE ts == msg.proof.timestamp
      <3>1. lastTimestamp \in Nat /\ ts \in Nat /\ timestampCheckEnabled \in BOOLEAN
        BY <1>1, TimestampAssumption DEF Inv, outside, TypeOK
      <3>2. timestampCheckEnabled /\ ts # 0 => ts > lastTimestamp
        BY <3>1 DEF authEmail, TimestampFresh
      <3>3. lastTimestamp' = IF timestampCheckEnabled /\ ts # 0 THEN ts ELSE lastTimestamp
        BY DEF authEmail, NextTimestamp
      <3> QED
        BY <3>1, <3>2, <3>3
    <2>2. Place(event) \in Nat /\ Place(event) <= lastTimestamp'
      BY <1>1, <2>1, TimestampAssumption
         DEF authEmail, NextTimestamp, EmailAuthed, Place, Inv, TypeOK
    <2>3. lastTimestamp' # lastTimestamp => Place(event) = lastTimestamp'
      BY DEF authEmail, NextTimestamp, EmailAuthed, Place
    <2>4. \A i \in 1..Len(authed) : Place(authed[i]) \in Nat /\ Place(authed[i]) <= lastTimestamp
      <3>1. \A i \in 1..Len(authed) : authed[i] \in Event
        BY <1>5
      <3>2. \A e \in Event : Place(e) \in Nat
        BY TimestampAssumption DEF Place, Event
      <3> QED
        BY <3>1, <3>2 DEF Inv, LastTimestampIsLatestChecked
    <2>5. \A i \in 1..Len(authed') : Place(authed'[i]) <= lastTimestamp'
      <3> SUFFICES ASSUME NEW i \in 1..Len(authed')
                   PROVE  Place(authed'[i]) <= lastTimestamp'
        OBVIOUS
      <3>1. CASE i = Len(authed) + 1
        BY <1>6, <2>2, <3>1
      <3>2. CASE i # Len(authed) + 1
        <4>1. i \in 1..Len(authed)
          BY <1>5, <1>6, <3>2
        <4> QED
          BY <1>6, <2>1, <2>4, <4>1
      <3> QED
        BY <3>1, <3>2
    <2>6. lastTimestamp' # 0 => \E i \in 1..Len(authed') : Place(authed'[i]) = lastTimestamp'
      <3>1. CASE lastTimestamp' = lastTimestamp
        BY <1>5, <1>6, <3>1 DEF Inv, LastTimestampIsLatestChecked
      <3>2. CASE lastTimestamp' # lastTimestamp
        BY <1>5, <1>6, <2>3, <3>2
      <3> QED
        BY <3>1, <3>2
    <2> QED
      BY <2>5, <2>6 DEF LastTimestampIsLatestChecked, Place
  <1> QED
    BY <1>7, <1>8, <1>9, <1>10 DEF Inv

-------------------------------------------------------------------------------

\* Every step of the contract or of its surroundings keeps the invariant.
LEMMA NextInv == Inv /\ [Next]_vars => Inv'
  <1> SUFFICES ASSUME Inv, [Next]_vars
               PROVE  Inv'
    OBVIOUS
  <1> USE DEF Inv
  <1>1. CASE UNCHANGED vars
    <2>1. TypeOK'
      BY <1>1 DEF vars, config, trust, spent, outside, TypeOK
    <2>2. OnlyInitializedActs'
      BY <1>1 DEF vars, config, OnlyInitializedActs
    <2> QED
      BY <1>1, <2>1, <2>2, SpentUnchanged DEF vars
  <1>2. ASSUME NEW initialOwner \in Accounts, NEW controllerAddr \in Accounts,
               NEW salt \in Salts, initialize(initialOwner, salt, controllerAddr)
        PROVE  Inv'
    <2>1. TypeOK'
      BY <1>2 DEF initialize, trust, spent, outside, TypeOK
    <2>2. OnlyInitializedActs'
      BY <1>2 DEF initialize, OnlyInitializedActs
    <2> QED
      BY <1>2, <2>1, <2>2, SpentUnchanged DEF initialize
  <1>3. ASSUME NEW sender \in Accounts, ByOwner(sender)
        PROVE  Inv'
    <2>1. ASSUME NEW newOwner \in Accounts, transferOwnership(sender, newOwner)
          PROVE  Inv'
      <3>1. TypeOK'
        BY <2>1 DEF transferOwnership, trust, spent, outside, TypeOK
      <3>2. OnlyInitializedActs'
        BY <2>1, AddressAssumption DEF transferOwnership, onlyOwner, OnlyInitializedActs
      <3> QED
        BY <2>1, <3>1, <3>2, SpentUnchanged DEF transferOwnership
    <2>2. ASSUME renounceOwnership(sender)
          PROVE  Inv'
      <3>1. TypeOK'
        BY <2>2 DEF renounceOwnership, trust, spent, outside, TypeOK
      <3>2. OnlyInitializedActs'
        BY <2>2 DEF renounceOwnership, OnlyInitializedActs
      <3> QED
        BY <2>2, <3>1, <3>2, SpentUnchanged DEF renounceOwnership
    <2>3. ASSUME NEW r \in Registries, updateDKIMRegistry(sender, r)
          PROVE  Inv'
      <3>1. TypeOK'
        BY <2>3 DEF updateDKIMRegistry, config, spent, outside, TypeOK
      <3>2. OnlyInitializedActs'
        BY <2>3 DEF updateDKIMRegistry, config, OnlyInitializedActs
      <3> QED
        BY <2>3, <3>1, <3>2, SpentUnchanged DEF updateDKIMRegistry
    <2>4. ASSUME NEW v \in Verifiers, updateVerifier(sender, v)
          PROVE  Inv'
      <3>1. TypeOK'
        BY <2>4 DEF updateVerifier, config, spent, outside, TypeOK
      <3>2. OnlyInitializedActs'
        BY <2>4 DEF updateVerifier, config, OnlyInitializedActs
      <3> QED
        BY <2>4, <3>1, <3>2, SpentUnchanged DEF updateVerifier
    <2>5. ASSUME NEW i \in Implementations, upgradeToAndCall(sender, i)
          PROVE  Inv'
      <3>1. TypeOK'
        BY <2>5 DEF upgradeToAndCall, trust, spent, outside, TypeOK
      <3>2. OnlyInitializedActs'
        BY <2>5 DEF upgradeToAndCall, OnlyInitializedActs
      <3> QED
        BY <2>5, <3>1, <3>2, SpentUnchanged DEF upgradeToAndCall
    <2> QED
      BY <1>3, <2>1, <2>2, <2>3, <2>4, <2>5 DEF ByOwner
  <1>4. ASSUME NEW sender \in Accounts, ByController(sender)
        PROVE  Inv'
    <2>1. ASSUME NEW r \in Registries, initDKIMRegistry(sender, r)
          PROVE  Inv'
      <3>1. TypeOK'
        BY <2>1 DEF initDKIMRegistry, config, spent, outside, TypeOK
      <3>2. OnlyInitializedActs'
        BY <2>1 DEF initDKIMRegistry, config, OnlyInitializedActs
      <3> QED
        BY <2>1, <3>1, <3>2, SpentUnchanged DEF initDKIMRegistry
    <2>2. ASSUME NEW v \in Verifiers, initVerifier(sender, v)
          PROVE  Inv'
      <3>1. TypeOK'
        BY <2>2 DEF initVerifier, config, spent, outside, TypeOK
      <3>2. OnlyInitializedActs'
        BY <2>2 DEF initVerifier, config, OnlyInitializedActs
      <3> QED
        BY <2>2, <3>1, <3>2, SpentUnchanged DEF initVerifier
    <2>3. ASSUME NEW id \in TemplateIds, NEW template \in Templates \union {NoTemplate},
                 SetTemplate(id, template)
          PROVE  Inv'
      <3>1. TypeOK'
        BY <2>3 DEF SetTemplate, config, trust, spent, outside, TypeOK
      <3>2. OnlyInitializedActs'
        BY <2>3 DEF SetTemplate, config, OnlyInitializedActs
      <3> QED
        BY <2>3, <3>1, <3>2, SpentUnchanged DEF SetTemplate
    <2>4. ASSUME NEW id \in TemplateIds, NEW template \in Templates,
                 insertCommandTemplate(sender, id, template)
          PROVE  Inv'
      BY <2>3, <2>4 DEF insertCommandTemplate
    <2>5. ASSUME NEW id \in TemplateIds, NEW template \in Templates,
                 updateCommandTemplate(sender, id, template)
          PROVE  Inv'
      BY <2>3, <2>5 DEF updateCommandTemplate
    <2>6. ASSUME NEW id \in TemplateIds, deleteCommandTemplate(sender, id)
          PROVE  Inv'
      BY <2>3, <2>6 DEF deleteCommandTemplate
    <2>7. ASSUME NEW msg \in Msgs, authEmail(sender, msg)
          PROVE  Inv'
      BY <2>7, AuthEmailInv
    <2>8. ASSUME NEW enabled \in BOOLEAN, setTimestampCheckEnabled(sender, enabled)
          PROVE  Inv'
      <3>1. TypeOK'
        BY <2>8 DEF setTimestampCheckEnabled, config, trust, spent, outside, TypeOK
      <3>2. OnlyInitializedActs'
        BY <2>8 DEF setTimestampCheckEnabled, config, OnlyInitializedActs
      <3> QED
        BY <2>8, <3>1, <3>2, SpentUnchanged DEF setTimestampCheckEnabled
    <2> QED
      BY <1>4, <2>1, <2>2, <2>4, <2>5, <2>6, <2>7, <2>8 DEF ByController
  <1>5. ASSUME NEW r \in Registries, NEW keys \in SUBSET Keys, RegistryChanges(r, keys)
        PROVE  Inv'
    <2>1. TypeOK'
      BY <1>5 DEF RegistryChanges, config, trust, spent, outside, TypeOK
    <2>2. OnlyInitializedActs'
      BY <1>5 DEF RegistryChanges, config, OnlyInitializedActs
    <2> QED
      BY <1>5, <2>1, <2>2, SpentUnchanged DEF RegistryChanges
  <1>6. ASSUME NEW v \in Verifiers, NEW proofs \in ProofSets, VerifierChanges(v, proofs)
        PROVE  Inv'
    <2>1. TypeOK'
      BY <1>6 DEF VerifierChanges, config, trust, spent, TypeOK
    <2>2. OnlyInitializedActs'
      BY <1>6 DEF VerifierChanges, config, OnlyInitializedActs
    <2> QED
      BY <1>6, <2>1, <2>2, SpentUnchanged DEF VerifierChanges
  <1> QED
    BY <1>1, <1>2, <1>3, <1>4, <1>5, <1>6 DEF Next, ByAnyone, Outside

\* In every reachable state, whatever the senders do: the types are right, the
\* used nullifiers are those of the accepted emails, and lastTimestamp is the
\* latest timestamp that was checked.
THEOREM Invariance == Spec => []Inv
  BY InitInv, NextInv, PTL DEF Spec

\* The types of the contract's storage.
THEOREM TypeCorrect == Spec => []TypeOK
  <1>1. Inv => TypeOK
    BY DEF Inv
  <1> QED
    BY <1>1, Invariance, PTL

\* The nullifiers that authEmail refuses are those of the emails it accepted.
THEOREM UsedAreAuthed == Spec => []UsedIsAuthed
  <1>1. Inv => UsedIsAuthed
    BY DEF Inv
  <1> QED
    BY <1>1, Invariance, PTL

\* Whatever setTimestampCheckEnabled does, lastTimestamp stays the latest
\* timestamp that authEmail compared.
THEOREM LatestChecked == Spec => []LastTimestampIsLatestChecked
  <1>1. Inv => LastTimestampIsLatestChecked
    BY DEF Inv
  <1> QED
    BY <1>1, Invariance, PTL

-------------------------------------------------------------------------------

\* The refinement mapping of EmailAuth's Promise: the log seen by a controller.
Log == [i \in 1..Len(authed) |->
           [emailNullifier |-> authed[i].emailNullifier, place |-> Place(authed[i])]]

\* A step that authorizes no email is a stutter of the abstract log.
LEMMA LogUnchanged == UNCHANGED spent => UNCHANGED Log
  BY DEF spent, Log, Place

\* authEmail appends one acceptable entry to the abstract log.
LEMMA AuthEmailAuthorizes ==
    ASSUME Inv, NEW sender \in Accounts, NEW msg \in Msgs, authEmail(sender, msg)
    PROVE  Promise!Next
  <1> DEFINE event == EmailAuthed(msg)
             entry == [emailNullifier |-> event.emailNullifier, place |-> Place(event)]
  <1>1. /\ event.emailNullifier = msg.proof.emailNullifier
        /\ event.timestamp = msg.proof.timestamp
        /\ event.checked = timestampCheckEnabled
    BY DEF EmailAuthed
  <1>2. /\ msg.proof.emailNullifier \in Nullifiers
        /\ msg.proof.timestamp \in Timestamps
    BY MsgAssumption DEF IsProof
  <1>3. entry \in [emailNullifier : Nullifiers, place : Timestamps]
    BY <1>1, <1>2, TimestampAssumption DEF Place
  <1>4. /\ authed \in Seq(Event)
        /\ authed' = Append(authed, event)
        /\ Len(authed) \in Nat
    BY DEF Inv, TypeOK, authEmail
  <1>5. /\ Len(authed') = Len(authed) + 1
        /\ authed'[Len(authed) + 1] = event
        /\ \A i \in 1..Len(authed) : authed'[i] = authed[i]
    BY <1>4
  <1>6. Log \in Seq([emailNullifier : Nullifiers, place : Timestamps]) /\ Len(Log) = Len(authed)
    <2>1. \A i \in 1..Len(authed) : authed[i] \in Event
      BY <1>4
    <2>2. \A e \in Event : e.emailNullifier \in Nullifiers /\ Place(e) \in Timestamps
      BY TimestampAssumption DEF Event, Place
    <2> QED
      BY <1>4, <2>1, <2>2 DEF Log
  <1>7. Log' = Append(Log, entry)
    <2>1. Append(Log, entry) =
              [i \in 1..(Len(authed) + 1) |-> IF i = Len(authed) + 1 THEN entry ELSE Log[i]]
      BY <1>3, <1>4, <1>6
    <2>2. \A i \in 1..Len(authed) :
              Log[i] = [emailNullifier |-> authed'[i].emailNullifier, place |-> Place(authed'[i])]
      BY <1>5 DEF Log
    <2>3. Log' = [i \in 1..(Len(authed) + 1) |->
                     [emailNullifier |-> authed'[i].emailNullifier, place |-> Place(authed'[i])]]
      BY <1>5 DEF Log, Place
    <2>4. entry = [emailNullifier |-> authed'[Len(authed) + 1].emailNullifier,
                   place |-> Place(authed'[Len(authed) + 1])]
      BY <1>5
    <2> QED
      BY <1>4, <2>1, <2>2, <2>3, <2>4
  <1>8. \A i \in 1..Len(Log) :
            /\ Log[i].emailNullifier # entry.emailNullifier
            /\ entry.place # 0 => Log[i].place < entry.place
    <2> SUFFICES ASSUME NEW i \in 1..Len(authed)
                 PROVE  /\ Log[i].emailNullifier # entry.emailNullifier
                        /\ entry.place # 0 => Log[i].place < entry.place
      BY <1>6
    <2>1. Log[i].emailNullifier = authed[i].emailNullifier /\ Log[i].place = Place(authed[i])
      BY DEF Log
    <2>2. ~ usedNullifiers[msg.proof.emailNullifier]
      BY <1>2 DEF authEmail, NullifierUnused
    <2>3. authed[i].emailNullifier # msg.proof.emailNullifier
      BY <1>2, <2>2 DEF Inv, UsedIsAuthed
    <2>4. Place(authed[i]) <= lastTimestamp
      BY DEF Inv, LastTimestampIsLatestChecked
    <2>5. entry.place # 0 => timestampCheckEnabled /\ entry.place = msg.proof.timestamp
      BY <1>1 DEF Place
    <2>6. entry.place # 0 => lastTimestamp < entry.place
      <3>1. timestampCheckEnabled \in BOOLEAN /\ lastTimestamp \in Nat
            /\ msg.proof.timestamp \in Nat
        BY <1>2, TimestampAssumption DEF Inv, outside, TypeOK
      <3>2. timestampCheckEnabled /\ msg.proof.timestamp # 0 => msg.proof.timestamp > lastTimestamp
        BY <3>1 DEF authEmail, TimestampFresh
      <3> QED
        BY <2>5, <3>1, <3>2
    <2>7. lastTimestamp \in Nat /\ Place(authed[i]) \in Nat /\ entry.place \in Nat
      <3>1. authed[i] \in Event
        BY <1>4
      <3> QED
        BY <1>3, <3>1, TimestampAssumption DEF Inv, TypeOK, Event, Place
    <2> QED
      BY <1>1, <2>1, <2>3, <2>4, <2>6, <2>7
  <1>9. entry \in Promise!Entry
    BY <1>3 DEF Promise!Entry
  <1> HIDE DEF entry
  <1> QED
    BY <1>7, <1>8, <1>9
       DEF Promise!Next, Promise!Authorize, Promise!Acceptable, Promise!Unordered, Log

\* No other function touches the log.
LEMMA OtherStepsStutter ==
    ASSUME [Next]_vars
    PROVE  \/ UNCHANGED spent
           \/ \E sender \in Accounts, msg \in Msgs : authEmail(sender, msg)
  <1>1. ASSUME NEW sender \in Accounts, ByOwner(sender)
        PROVE  UNCHANGED spent
    BY <1>1 DEF ByOwner, transferOwnership, renounceOwnership, updateDKIMRegistry, updateVerifier,
                upgradeToAndCall
  <1>2. ASSUME NEW sender \in Accounts, ByController(sender)
        PROVE  UNCHANGED spent \/ \E msg \in Msgs : authEmail(sender, msg)
    BY <1>2 DEF ByController, initDKIMRegistry, initVerifier, insertCommandTemplate,
                updateCommandTemplate, deleteCommandTemplate, SetTemplate,
                setTimestampCheckEnabled
  <1>3. ByAnyone \/ Outside \/ UNCHANGED vars => UNCHANGED spent
    BY DEF ByAnyone, initialize, Outside, RegistryChanges, VerifierChanges, vars
  <1> QED
    BY <1>1, <1>2, <1>3 DEF Next

\* EmailAuth implements the one-time authorizer: no controller, owner, registry
\* or order of calls makes authEmail accept an email twice or out of order.
THEOREM Refinement == Spec => RefinesPromise
  <1>1. Init => Promise!Init
    <2> SUFFICES ASSUME Init PROVE Log = <<>>
      BY DEF Promise!Init, Log
    <2>1. 1..Len(authed) = {}
      BY DEF Init
    <2> QED
      BY <2>1 DEF Log
  <1>2. Inv /\ [Next]_vars => [Promise!Next]_Log
    BY AuthEmailAuthorizes, OtherStepsStutter, LogUnchanged
  <1> QED
    BY <1>1, <1>2, Invariance, PTL DEF Spec, RefinesPromise, Promise!Spec, Log

\* What the abstract log promises, of a sequence of entries.
Distinct(entries) ==
    \A i, j \in 1..Len(entries) :
        entries[i].emailNullifier = entries[j].emailNullifier => i = j

Ordered(entries) ==
    \A i, j \in 1..Len(entries) :
        i < j /\ entries[i].place # 0 /\ entries[j].place # 0 => entries[i].place < entries[j].place

OneTime(entries) == entries \in Seq(Promise!Entry) /\ Distinct(entries) /\ Ordered(entries)

\* An acceptable entry may be appended without breaking either promise.
LEMMA AcceptableKeepsOrder ==
    ASSUME NEW entries, OneTime(entries), NEW entry \in Promise!Entry,
           \A i \in 1..Len(entries) :
               /\ entries[i].emailNullifier # entry.emailNullifier
               /\ entry.place # 0 => entries[i].place < entry.place
    PROVE  OneTime(Append(entries, entry))
  <1> DEFINE longer == Append(entries, entry)
  <1>1. entries \in Seq(Promise!Entry) /\ longer \in Seq(Promise!Entry)
    BY DEF OneTime
  <1>2. /\ Len(entries) \in Nat
        /\ Len(longer) = Len(entries) + 1
        /\ longer[Len(entries) + 1] = entry
        /\ \A i \in 1..Len(entries) : longer[i] = entries[i]
    BY <1>1
  <1> HIDE DEF longer
  <1>3. \A i \in 1..Len(longer) : i = Len(entries) + 1 \/ i \in 1..Len(entries)
    BY <1>2
  <1>4. Distinct(longer)
    <2> SUFFICES ASSUME NEW i \in 1..Len(longer), NEW j \in 1..Len(longer),
                        longer[i].emailNullifier = longer[j].emailNullifier
                 PROVE  i = j
      BY DEF Distinct
    <2>1. CASE i \in 1..Len(entries) /\ j \in 1..Len(entries)
      BY <1>2, <2>1 DEF OneTime, Distinct
    <2>2. CASE i = Len(entries) + 1 \/ j = Len(entries) + 1
      BY <1>2, <1>3, <2>2
    <2> QED
      BY <1>3, <2>1, <2>2
  <1>5. Ordered(longer)
    <2> SUFFICES ASSUME NEW i \in 1..Len(longer), NEW j \in 1..Len(longer), i < j,
                        longer[i].place # 0, longer[j].place # 0
                 PROVE  longer[i].place < longer[j].place
      BY DEF Ordered
    <2>1. i \in 1..Len(entries)
      BY <1>2, <1>3
    <2>2. CASE j \in 1..Len(entries)
      BY <1>2, <2>1, <2>2 DEF OneTime, Ordered
    <2>3. CASE j = Len(entries) + 1
      BY <1>2, <2>1, <2>3
    <2> QED
      BY <1>3, <2>2, <2>3
  <1> QED
    BY <1>1, <1>4, <1>5 DEF OneTime, longer

\* The abstract specification has the two properties it is for: no email authorizes
\* twice, and the ordered ones are accepted in their order.
THEOREM LogCorrect == Promise!Spec => [](Promise!AtMostOnce /\ Promise!InOrder)
  <1>1. Promise!Init => OneTime(Log)
    <2> SUFFICES ASSUME Log = <<>> PROVE OneTime(Log)
      BY DEF Promise!Init, Log
    <2> QED
      BY DEF OneTime, Distinct, Ordered
  <1>2. OneTime(Log) /\ [Promise!Next]_Log => OneTime(Log)'
    <2>1. ASSUME OneTime(Log), NEW entry \in Promise!Entry, Promise!Authorize(entry)
          PROVE  OneTime(Log)'
      <3>1. Log' = Append(Log, entry)
        BY <2>1 DEF Promise!Authorize, Log
      <3>2. \A i \in 1..Len(Log) :
                /\ Log[i].emailNullifier # entry.emailNullifier
                /\ entry.place # 0 => Log[i].place < entry.place
        BY <2>1 DEF Promise!Authorize, Promise!Acceptable, Promise!Unordered, Log
      <3>3. OneTime(Append(Log, entry))
        BY <2>1, <3>2, AcceptableKeepsOrder
      <3> QED
        BY <3>1, <3>3
    <2>2. ASSUME OneTime(Log), UNCHANGED Log PROVE OneTime(Log)'
      BY <2>2
    <2> QED
      BY <2>1, <2>2 DEF Promise!Next
  <1>3. OneTime(Log) => Promise!AtMostOnce /\ Promise!InOrder
    BY DEF OneTime, Distinct, Ordered, Log, Promise!AtMostOnce, Promise!InOrder, Promise!Unordered
  <1> QED
    BY <1>1, <1>2, <1>3, PTL DEF Promise!Spec, Log

\* What the refinement is for: EmailAuth inherits from the abstract log that no
\* email authorizes twice, and that checked emails are accepted in their order.
THEOREM NoReplayInOrder == Spec => [](Promise!AtMostOnce /\ Promise!InOrder)
  BY LogCorrect, Refinement, PTL DEF RefinesPromise

\* Nobody changes what a renounced contract trusts.
THEOREM RenouncedFrozen == Spec => RenouncedIsFrozen
  <1> DEFINE Frozen ==
          initialized /\ owner = NoAddr =>
              /\ UNCHANGED config
              /\ dkim # NoAddr => UNCHANGED dkim
              /\ verifier # NoAddr => UNCHANGED verifier
  <1>1. ASSUME NEW sender \in Accounts, ByOwner(sender)
        PROVE  Frozen
    BY <1>1, AddressAssumption
       DEF ByOwner, transferOwnership, renounceOwnership, updateDKIMRegistry, updateVerifier,
           upgradeToAndCall, onlyOwner
  <1>2. ASSUME NEW sender \in Accounts, ByController(sender)
        PROVE  Frozen
    BY <1>2 DEF ByController, initDKIMRegistry, initVerifier, insertCommandTemplate,
                updateCommandTemplate, deleteCommandTemplate, SetTemplate, authEmail,
                setTimestampCheckEnabled, config, trust
  <1>3. ByAnyone => Frozen
    BY DEF ByAnyone, initialize
  <1>4. Outside \/ UNCHANGED vars => Frozen
    BY DEF Outside, RegistryChanges, VerifierChanges, vars, config, trust
  <1>5. [Next]_vars => [Frozen]_vars
    BY <1>1, <1>2, <1>3, <1>4 DEF Next
  <1> QED
    BY <1>5, PTL DEF Spec, RenouncedIsFrozen
===============================================================================
