----------------------------- MODULE MCEmailSigner -----------------------------
(***************************************************************************)
(* Constants of the runs of EmailSigner: two accounts, one clone outside   *)
(* the factory, a registry of a stranger that calls every key valid, and   *)
(* emails that sign 5 and 50, one of them after a quoted older command.    *)
(* At most MaxSignatures signatures of the registry's signer are issued.   *)
(***************************************************************************)
EXTENDS EmailSigner, TLC

CONSTANT MaxSignatures

MCSpace == " "

Decimal(n) == IF n = 50 THEN <<"5", "0">> ELSE <<ToString(n)>>

MCShown(kind, param, stringCase) == Decimal(param.word)
MCDecodable(kind, param) == "word" \in DOMAIN param

Sign5  == <<"signHash", " ", "5">>
Sign50 == <<"signHash", " ", "5", "0">>

Proof(hash, salt, command, id) ==
    [ domainName |-> "d", publicKeyHash |-> hash, accountSalt |-> salt,
      maskedCommand |-> command, emailNullifier |-> id ]

Emails ==
    { Proof("h1", "s1", Sign5, "n1"), Proof("h1", "s2", Sign50, "n2"),
      Proof("h2", "s1", Sign5 \o <<" ">> \o Sign50, "n3") }

Forged == Proof("h1", "s1", Sign50, "n4")

MCParams == {<<>>, <<[word |-> 5]>>, <<[word |-> 50]>>, <<[word |-> 5], [word |-> 50]>>,
             <<[string |-> "5"]>>}

MCMsgs ==
    [ templateId : {"t1", "t2", "t3"},
      commandParams : {p \in MCParams : p # <<>> /\ "word" \in DOMAIN p[1]},
      skippedCommandPrefix : {0, 4}, proof : Emails \union {Forged} ]
    \union
    [ templateId : {"t1"}, commandParams : MCParams,
      skippedCommandPrefix : {0, 8}, proof : Emails ]

MCPredicted == [s1 |-> "clone1", s2 |-> "clone2"]
MCTemplateIdOf == [s1 |-> "t1", s2 |-> "t2"]

MCForeignKeys == [r \in Registries \ {dkimRegistry} |-> {"d"} \X Hashes]
MCAccepts == [v \in Verifiers |-> Emails]
MCCommandBytes == [v \in Verifiers |-> 8]

SignaturesBounded == Cardinality(signatures) <= MaxSignatures
===============================================================================
