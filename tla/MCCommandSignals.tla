--------------------------- MODULE MCCommandSignals ---------------------------
(***************************************************************************)
(* A behaviour writes the command of an email byte by byte, and a text     *)
(* that somebody may put into a proof of it.  A byte has four values, the  *)
(* last of which stands for 0xFF, and four of them fill a field: a command *)
(* has a full field, or one of NULs, in front of a field with one byte,    *)
(* and a borrow can run through a field.                                   *)
(***************************************************************************)
EXTENDS CommandSignals, FiniteSets

CONSTANTS
    TypedBytes,      \* bytes of a command that are plain, or both code and address
    SecretBytes,     \* bytes of a code or an address
    TextBytes        \* bytes of a text that is passed off for a command

ASSUME BytesAssumption ==
    /\ TypedBytes \union SecretBytes \subseteq Bytes \ {NUL, NotInUTF8}
    /\ TextBytes \subseteq Bytes
    /\ {1, 2} \subseteq Bytes      \* the domain's

VARIABLES mail, text
vars == <<mail, text>>

Init ==
    /\ mail = [ domain |-> <<1, 2>>, publicKeyHash |-> 1, nullifier |-> 2, timestamp |-> 3,
                command |-> <<>>, accountSalt |-> 4 ]
    /\ text = <<>>

\* An address may begin inside the code (the code's last digits are its first letters),
\* never inside the code's prefix, and goes on behind it.
Follows(part) ==
    LET last == IF mail.command = <<>> THEN "plain" ELSE mail.command[Len(mail.command)].part
    IN  /\ part = "both" => last \in {"code", "both"}
        /\ last = "both" => part \in {"both", "address"}

WriteByte(byte, part) ==
    /\ text = <<>>
    /\ Len(mail.command) < COMMAND_BYTES
    /\ Follows(part)
    /\ mail' = [mail EXCEPT !.command = Append(@, [byte |-> byte, part |-> part])]
    /\ UNCHANGED text

Overlap == \E i \in 1..Len(mail.command) : mail.command[i].part = "both"

\* The text may be longer than the command field.
WriteText(byte) ==
    /\ ~Overlap
    /\ Len(text) < COMMAND_BYTES + 1
    /\ text' = Append(text, byte)
    /\ UNCHANGED mail

Next ==
    \/ \E byte \in TypedBytes, part \in {"plain", "both"} : WriteByte(byte, part)
    \/ \E byte \in SecretBytes, part \in {"code", "address"} : WriteByte(byte, part)
    \/ \E byte \in TextBytes : WriteText(byte)

Spec == Init /\ [][Next]_vars

-------------------------------------------------------------------------------

command == mail.command

\* An address that began inside the code has not ended yet.
Unfinished == command # <<>> /\ command[Len(command)].part = "both"

\* The relayer returns a proof of the email, and the contracts accept it.
Verifies ==
    LET proof == email_proof(mail) IN IsText(proof.maskedCommand) /\ Accepted(proof, mail)

\* The relayer's proof verifies exactly when nothing is kept after something masked and
\* nothing is masked twice: get_masked_command closes the gap that the circuit leaves, so
\* an address or a code in the middle of a command makes a proof that the Verifier
\* refuses, and an address that overlaps the code (email_auth_template.circom:162) leaves
\* the range of a byte, which neither a borrow nor the field's modulus makes up for.  The
\* code that mail.rs appends, after the whole command, does no harm.
ProofVerifiesUnlessGap ==
    ~Unfinished =>
        (Verifies <=>
            \A i, j \in 1..Len(command) :
                /\ command[i].part # "both"
                /\ command[i].part # "plain" /\ command[j].part = "plain" => j < i)

\* Where it verifies, authEmail compares the template with the command as the sender
\* wrote it, up to the code or address at its end.
VerifiedTextIsTyped ==
    Verifies /\ ~Unfinished =>
        email_proof(mail).maskedCommand =
            [i \in 1..Cardinality({k \in 1..Len(command) : command[k].part = "plain"}) |->
                command[i].byte]

\* Nobody can pass off another text for a command without overlap: an accepted proof holds
\* the masked bytes of the circuit, and differs from them by NULs at the end at most.
\* The Verifier does not look beyond COMMAND_BYTES; its callers' length checks do
\* (EmailAuth.sol:213, EmailSigner.sol:106).
AcceptedTextIsMasked ==
    LET proof == [email_proof(mail) EXCEPT !.maskedCommand = text] IN
    ~Overlap /\ Accepted(proof, mail) =>
        Pad(text, COMMAND_BYTES + 1) = Pad(masked_command_bytes(command), COMMAND_BYTES + 1)
===============================================================================
