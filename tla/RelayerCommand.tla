---------------------------- MODULE RelayerCommand ----------------------------
(***************************************************************************)
(* The command on its way through the relayer: relayer/src/command.rs and  *)
(* the mails of mail.rs.  A request names a template and its parameters as *)
(* texts; the relayer fills the template in and mails the result; in the   *)
(* reply it looks for the template again, encodes what it finds there, and *)
(* hands it to the controller, for the contract to print and compare.      *)
(*                                                                         *)
(* Texts, tokens and template entries are those of CommandUtils; a literal *)
(* entry is one word.                                                      *)
(***************************************************************************)
EXTENDS CommandUtils

CONSTANTS
    Encoded(_, _),    \* Encoded(kind, word): the parameter that a word encodes as a value of the kind
    IsValue(_, _),    \* IsValue(kind, word): the word has the form of such a value
    Addresses,        \* the tokens that are email addresses
    SoftBreak,        \* the token "=\r\n", a line break that a mail program put in
    CodeToken         \* an account code in hexadecimal

-------------------------------------------------------------------------------
\* The mail with the command

\* The template as the request has it: a text with a placeholder for each matcher.
TemplateText(template) ==
    Joined([i \in 1..Len(template) |->
        IF IsMatcher(template[i]) THEN <<"{", template[i].kind, "}">> ELSE template[i].text])

\* The first place of a token in a text from a place on: none or one.
FirstPlace(text, token, from) ==
    {i \in from..Len(text) : text[i] = token /\ \A j \in from..(i - 1) : text[j] # token}

\* The text with what stands from its first "{" to the next "}" replaced, if it has both.
Replaced(text, value) ==
    LET braces == {place \in (1..Len(text)) \X (1..Len(text)) :
                       /\ place[1] \in FirstPlace(text, "{", 1)
                       /\ place[2] \in FirstPlace(text, "}", place[1])}
    IN  IF braces = {} THEN text
        ELSE LET found == CHOOSE place \in braces : TRUE IN
             SubSeq(text, 1, found[1] - 1) \o value \o SubSeq(text, found[2] + 1, Len(text))

\* Mutation: the parameters are taken from the last to the first.
FromTheLast(text, params) ==
    LET parsed[i \in 0..Len(params)] ==
            IF i = 0 THEN text ELSE Replaced(parsed[i - 1], params[Len(params) + 1 - i])
    IN  parsed[Len(params)]

\* Each parameter replaces the placeholder that is first by then, in whatever the
\* parameters before it have left.
parse_command_template(text, params) ==
    LET parsed[i \in 0..Len(params)] ==
            IF i = 0 THEN text ELSE Replaced(parsed[i - 1], params[i])
    IN  parsed[Len(params)]

\* The command of the mail, and with it that of a reply that quotes it.
MailedCommand(request) ==
    parse_command_template(TemplateText(request.template), request.params)
    \o (IF request.codeExists THEN <<Space, "Code", Space, CodeToken>> ELSE <<>>)

-------------------------------------------------------------------------------
\* The reply

\* A sequence without its elements in `dropped`.
Without(sequence, dropped) ==
    LET kept[i \in 0..Len(sequence)] ==
            IF i = 0 THEN <<>>
            ELSE IF sequence[i] \in dropped THEN kept[i - 1] ELSE Append(kept[i - 1], sequence[i])
    IN  kept[Len(sequence)]

\* Mutation: the soft line breaks stay.
BreaksLeft(email) == email

\* email.replace("=\r\n", "").
CleanedEmail(email) == Without(email, {SoftBreak})

\* split_whitespace.
WordsOf(text) == Without(splitString(text, Space), {<<>>})

\* The places of the email's words where the template's words match.
MatchingPlaces(words, template) ==
    {p \in 1..(Len(words) - Len(template) + 1) :
        \A i \in 1..Len(template) :
            LET word == words[p + i - 1] IN
            IF IsMatcher(template[i]) THEN IsValue(template[i].kind, word)
            ELSE word = template[i].text}

MatcherEntries(template) == {i \in 1..Len(template) : IsMatcher(template[i])}

\* The entry of the template that is its matcher number n (from 1).
MatcherEntry(template, n) ==
    CHOOSE i \in MatcherEntries(template) : ParamIndex(template, i) = n

\* extract_template_vals_from_command at place p of the email, encoded.
EncodedAt(words, template, p) ==
    [n \in 1..Cardinality(MatcherEntries(template)) |->
        LET i == MatcherEntry(template, n) IN Encoded(template[i].kind, words[p + i - 1])]

\* What get_encoded_command_params may return: the whole mail is searched, and which of
\* several places is taken is the library's choice.  Empty: it fails.
get_encoded_command_params(email, template) ==
    LET words == WordsOf(CleanedEmail(email))
    IN  {EncodedAt(words, template, p) : p \in MatchingPlaces(words, template)}

\* The masked command of a verified proof (see CommandSignals): the command without the
\* code and the addresses.
MaskedCommand(parsed) == Without(parsed, Addresses)

\* No proof verifies for a command with something behind an address.
ProofVerifies(parsed) ==
    \A i, j \in 1..Len(parsed) : parsed[i] \in Addresses /\ parsed[j] \notin Addresses => j < i

\* authEmail accepts the message that get_email_auth_msg makes of a reply with these
\* values; skipped_command_prefix is 0.
Authenticates(values, parsed, template) ==
    /\ ProofVerifies(parsed)
    /\ IsExpectedCommand(removePrefix(MaskedCommand(parsed), 0), values, template)
===============================================================================
