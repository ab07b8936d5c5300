------------------------------ MODULE MCEmailAuth ------------------------------
(***************************************************************************)
(* Constants of the runs of EmailAuth: two emails whose timestamps are     *)
(* equal, a later one with a prefix before the command, one without a      *)
(* timestamp, one email proven twice, and messages that must be refused.   *)
(***************************************************************************)
EXTENDS EmailAuth, TLC

MCSpace == " "

\* Parameters are words of calldata ([word |-> n], an address or an integer) or
\* strings ([string |-> text]).
MCShown(kind, param, stringCase) ==
    CASE kind = "string"  -> param.string
      [] kind = "ethAddr" -> <<CASE stringCase = 0 -> "0xAb" [] stringCase = 1 -> "0xab"
                                 [] stringCase = 2 -> "0xAB">>
      [] OTHER            -> <<ToString(param.word)>>

MCDecodable(kind, param) ==
    IF kind = "string" THEN "string" \in DOMAIN param ELSE "word" \in DOMAIN param

Literal(token) == [kind |-> "literal", text |-> <<token>>]
Matcher(kind)  == [kind |-> kind]

SendTemplate == <<Literal("Send"), Matcher("uint")>>
ToTemplate   == <<Literal("To"), Matcher("ethAddr")>>

MCTemplates == {SendTemplate, ToTemplate}

MCKeys == {<<"a.com", "k1">>, <<"a.com", "k2">>}
OneKey == {<<"a.com", "k1">>}

Proof(nullifier, timestamp, key, command, salt, isCodeExist) ==
    [ domainName |-> "a.com", publicKeyHash |-> key, emailNullifier |-> nullifier,
      timestamp |-> timestamp, maskedCommand |-> command, accountSalt |-> salt,
      isCodeExist |-> isCodeExist ]

Msg(id, params, skipped, proof) ==
    [ templateId |-> id, commandParams |-> params, skippedCommandPrefix |-> skipped,
      proof |-> proof ]

Send5 == <<"Send", " ", "5">>

Email1     == Proof("n1", 1, "k1", Send5, "salt", TRUE)
Email1Bare == Proof("n1", 1, "k1", Send5, "salt", FALSE)     \* the same email, proven again
Email2     == Proof("n2", 2, "k1", <<"Re:", " ">> \o Send5, "salt", FALSE)
EmailNoTs  == Proof("n3", 0, "k1", <<"To", " ", "0xAB">>, "salt", FALSE)
EmailTie   == Proof("n4", 1, "k1", Send5, "salt", FALSE)     \* as old as Email1
EmailOther == Proof("n4", 1, "k1", Send5, "other", FALSE)    \* another account's
EmailUnproven == Proof("n4", 3, "k1", Send5, "salt", FALSE)  \* no verifier accepts it

Five == <<[word |-> 5]>>

MCMsgs ==
    { Msg(1, Five, 0, Email1), Msg(1, Five, 0, Email1Bare), Msg(1, Five, 2, Email2),
      Msg(1, Five, 0, EmailNoTs), Msg(1, Five, 0, EmailTie),
      Msg(1, Five, 0, EmailOther), Msg(1, Five, 0, EmailUnproven),
      Msg(1, <<>>, 0, Email2),            \* too few parameters
      Msg(1, Five, 0, Email2),            \* the prefix is not skipped
      Msg(1, Five, 5, Email2),            \* nothing but the prefix bound is wrong
      Msg(1, <<[string |-> <<"5">>]>>, 0, Email1) }  \* a parameter that does not decode

Proven == {Email1, Email1Bare, Email2, EmailNoTs, EmailTie, EmailOther}

\* A verifier may come to refuse a proof that it accepted.
MCProofSets == {Proven, Proven \ {Email1, EmailNoTs}}

MCCommandBytes == [v \in Verifiers |-> 5]

\* No definition above tells one account, one registry, one verifier or one
\* implementation from another.
Symmetry == Permutations(Accounts) \union Permutations(Registries)
                \union Permutations(Verifiers) \union Permutations(Implementations)
===============================================================================
