---------------------------- MODULE CommandSignals ----------------------------
(***************************************************************************)
(* How the command of an email travels from the circuit through the        *)
(* relayer to the Verifier contract.  The circuit masks the account code   *)
(* and the email addresses in it and packs the bytes into field elements,  *)
(* its public signals; the relayer reads a text out of the signals; the    *)
(* Verifier packs that text again, and the proof is accepted only if the   *)
(* result is the circuit's signals (Groth16 is external).                  *)
(*                                                                         *)
(* A field element is a number modulo Prime that packs FieldBytes bytes,   *)
(* lowest first.  Bytes pack one to one; what is no byte does not.         *)
(***************************************************************************)
EXTENDS Integers, Sequences

CONSTANTS
    Base,            \* the values of a byte: 256
    FieldBytes,      \* the bytes packed into a field element: 31
    Prime,           \* the order of the circuit's field, a number of FieldBytes + 1 bytes
                     \* (48 times 256^31)
    DOMAIN_BYTES,    \* 255
    COMMAND_BYTES    \* 605

\* Base^k, how many texts of k bytes there are.
Power[k \in 0..(FieldBytes + 1)] == IF k = 0 THEN 1 ELSE Base * Power[k - 1]

ASSUME SizeAssumption ==
    /\ Base \in Nat \ {0, 1}
    /\ FieldBytes \in Nat \ {0}
    /\ DOMAIN_BYTES \in Nat \ {0}
    /\ COMMAND_BYTES \in Nat \ {0}
    /\ Prime \in (2 * Power[FieldBytes])..(Power[FieldBytes + 1] - 1)

Bytes == 0..(Base - 1)
NUL == 0
NotInUTF8 == Base - 1       \* the byte 0xFF, which no text holds

\* compute_ints_size, and numFields in _packBytes2Fields.
FieldsFor(size) == (size + FieldBytes - 1) \div FieldBytes

DOMAIN_FIELDS == FieldsFor(DOMAIN_BYTES)
COMMAND_FIELDS == FieldsFor(COMMAND_BYTES)

\* Field number f of packed bytes; there are NULs behind the last one.
Field(bytes, f) ==
    LET from[j \in 1..(FieldBytes + 1)] ==
            LET idx == (f - 1) * FieldBytes + j IN
            IF j > FieldBytes THEN 0
            ELSE (IF idx <= Len(bytes) THEN bytes[idx] ELSE NUL) + Base * from[j + 1]
    IN  from[1] % Prime

-------------------------------------------------------------------------------
\* The circuit

\* Mutation: the code is revealed.
CodeShown(command) ==
    [i \in 1..COMMAND_BYTES |->
        IF i <= Len(command) /\ command[i].part # "address" THEN command[i].byte ELSE NUL]

\* command_all is a sequence of bytes, each with the part of the command it belongs to:
\* the code with its prefix, an address, both, or neither ("plain").  What both regexes
\* reveal is subtracted twice.  SelectRegexReveal pads with NULs.
masked_command_bytes(command) ==
    [i \in 1..COMMAND_BYTES |->
        IF i > Len(command) THEN NUL
        ELSE CASE command[i].part = "plain" -> command[i].byte
               [] command[i].part = "both"  -> -command[i].byte
               [] OTHER                     -> NUL]

\* Bytes2Ints of a padded array.
Bytes2Ints(bytes) == [f \in 1..FieldsFor(Len(bytes)) |-> Field(bytes, f)]

Pad(text, size) == [i \in 1..size |-> IF i <= Len(text) THEN text[i] ELSE NUL]

\* The outputs of the template, in the order of their declarations.
CircuitSignals(mail) ==
    Bytes2Ints(Pad(mail.domain, DOMAIN_BYTES))
    \o <<mail.publicKeyHash, mail.nullifier, mail.timestamp>>
    \o Bytes2Ints(masked_command_bytes(mail.command))
    \o <<mail.accountSalt,
         IF \E i \in 1..Len(mail.command) : mail.command[i].part = "code" THEN 1 ELSE 0>>

-------------------------------------------------------------------------------
\* The relayer

\* u256_to_bytes32_little: one byte more than the circuit packs.
BytesOf(signal) == [j \in 1..(FieldBytes + 1) |-> (signal \div Power[j - 1]) % Base]

WithoutNULs(bytes) ==
    LET kept[i \in 0..Len(bytes)] ==
            IF i = 0 THEN <<>>
            ELSE IF bytes[i] = NUL THEN kept[i - 1] ELSE Append(kept[i - 1], bytes[i])
    IN  kept[Len(bytes)]

\* The bytes of the fields in front of the first zero field, without the NULs.
get_masked_command(signals, start) ==
    LET fields == SubSeq(signals, start, start + COMMAND_FIELDS - 1)
        kept[f \in 0..Len(fields)] ==
            IF f = 0 THEN <<>>
            ELSE IF \E g \in 1..f : fields[g] = 0 THEN kept[f - 1]
            ELSE kept[f - 1] \o WithoutNULs(BytesOf(fields[f]))
    IN  kept[Len(fields)]

\* String::from_utf8 of those bytes; otherwise no proof is returned.
IsText(bytes) == \A i \in 1..Len(bytes) : bytes[i] # NotInUTF8

\* Mutation: the command is read from one signal too early.
OffByOne(mail) ==
    LET signals == CircuitSignals(mail) IN
    [ domainName     |-> mail.domain,
      publicKeyHash  |-> signals[DOMAIN_FIELDS + 1],
      emailNullifier |-> signals[DOMAIN_FIELDS + 2],
      timestamp      |-> signals[DOMAIN_FIELDS + 3],
      maskedCommand  |-> get_masked_command(signals, DOMAIN_FIELDS + 3),
      accountSalt    |-> signals[COMMAND_FIELDS + DOMAIN_FIELDS + 4],
      isCodeExist    |-> signals[COMMAND_FIELDS + DOMAIN_FIELDS + 5] = 1 ]

\* The EmailProof that generate_email_proof returns; the domain is read off the email.
email_proof(mail) ==
    LET signals == CircuitSignals(mail) IN
    [ domainName     |-> mail.domain,
      publicKeyHash  |-> signals[DOMAIN_FIELDS + 1],
      emailNullifier |-> signals[DOMAIN_FIELDS + 2],
      timestamp      |-> signals[DOMAIN_FIELDS + 3],
      maskedCommand  |-> get_masked_command(signals, DOMAIN_FIELDS + 4),
      accountSalt    |-> signals[COMMAND_FIELDS + DOMAIN_FIELDS + 4],
      isCodeExist    |-> signals[COMMAND_FIELDS + DOMAIN_FIELDS + 5] = 1 ]

-------------------------------------------------------------------------------
\* The contracts

\* Bytes beyond the padded size are not packed.
_packBytes2Fields(bytes, paddedSize) ==
    LET packed == IF Len(bytes) > paddedSize THEN SubSeq(bytes, 1, paddedSize) ELSE bytes
    IN  [f \in 1..FieldsFor(paddedSize) |-> Field(packed, f)]

\* pubSignals of verifyEmailProof.
pubSignals(proof) ==
    _packBytes2Fields(proof.domainName, DOMAIN_BYTES)
    \o <<proof.publicKeyHash, proof.emailNullifier, proof.timestamp>>
    \o _packBytes2Fields(proof.maskedCommand, COMMAND_BYTES)
    \o <<proof.accountSalt, IF proof.isCodeExist THEN 1 ELSE 0>>

\* Mutation: one byte more passes.
LengthOffByOne(maskedCommand) == Len(maskedCommand) <= COMMAND_BYTES + 1

\* The bound that the callers of verifyEmailProof put on maskedCommand.
LengthChecked(maskedCommand) == Len(maskedCommand) <= COMMAND_BYTES

\* The contracts take this proof for this email's (Groth16 is sound and complete).
Accepted(proof, mail) ==
    LengthChecked(proof.maskedCommand) /\ pubSignals(proof) = CircuitSignals(mail)
===============================================================================
