---------------------------- MODULE MCConversions ----------------------------
(***************************************************************************)
(* The conversions of libraries/DecimalUtils.sol and CommandUtils.sol over *)
(* bounded inputs, and a command on its way from a request through the     *)
(* relayer to the contract.  A behaviour either writes a number digit by   *)
(* digit, or a template with its parameters, or a request.                 *)
(***************************************************************************)
EXTENDS RelayerCommand, DecimalUtils

CONSTANTS
    MaxDigits, MaxDecimal, MaxEntries,
    MaxWords, MaxMatchers, MaxParams,   \* of a request
    ParamsOf(_),      \* ParamsOf(kind): parameters for a matcher of this kind
    Literals,         \* literal entries of a contract's template
    AskedMatchers,    \* matchers of a request's template
    Words,            \* literal words of a request's template
    AskedParams,      \* parameters of a request
    EmptyRequests     \* requests with neither template nor parameters yet: whether the mail
                      \* has a code, whether a mail program folds the reply, its subject

Tokens == STRING
Text == Seq(Tokens)
Holds(text, token) == \E i \in 1..Len(text) : text[i] = token
HasBlank(text) == Holds(text, Space)

ASSUME BoundsAssumption ==
    {MaxDigits, MaxDecimal, MaxEntries, MaxWords, MaxMatchers, MaxParams} \subseteq Nat

\* The blank, the soft line break, addresses and what the code writes are distinct tokens.
ASSUME TokenAssumption ==
    LET written == Matchers \union {"{", "}", "Code", CodeToken} IN
    /\ {Space, SoftBreak} \union Addresses \union written \subseteq Tokens
    /\ Space # SoftBreak
    /\ {Space, SoftBreak} \intersect Addresses = {}
    /\ ({Space, SoftBreak} \union Addresses) \intersect written = {}

\* A contract prints texts.
ASSUME TemplateAssumption ==
    /\ Literals \subseteq Text
    /\ \A kind \in Matchers, stringCase \in StringCases :
           \A param \in ParamsOf(kind) : Shown(kind, param, stringCase) \in Text

\* They tell the parameter, and only a {string} has blanks.
ASSUME PrintAssumption ==
    \A kind \in Matchers, stringCase \in StringCases :
        /\ \A param, other \in ParamsOf(kind) :
               Shown(kind, param, stringCase) = Shown(kind, other, stringCase) => param = other
        /\ \A param \in ParamsOf(kind) :
               kind # "string" => ~HasBlank(Shown(kind, param, stringCase))

RequestTexts == AskedParams \union {request.subject : request \in EmptyRequests}

ASSUME RequestAssumption ==
    /\ AskedMatchers \subseteq Matchers
    /\ EmptyRequests \subseteq [template : {<<>>}, params : {<<>>}, codeExists : BOOLEAN,
                                folded : BOOLEAN, subject : Text]
    /\ \A word \in Words :
           /\ word \in Text \ {<<>>}
           /\ \A token \in {Space, SoftBreak, "{"} : ~Holds(word, token)
    /\ \A text \in RequestTexts : text \in Text /\ ~Holds(text, SoftBreak)

\* The words that a mail may consist of.
MailWords ==
    Words \union {<<"{", kind, "}">> : kind \in Matchers} \union {<<"Code">>, <<CodeToken>>}
    \union UNION {{WordsOf(text)[i] : i \in 1..Len(WordsOf(text))} : text \in RequestTexts}

\* What the circuit leaves of them.
MaskedWords == {Without(word, Addresses) : word \in MailWords}

\* A contract prints an encoded word as one word, and what it prints, if a masked mail can
\* say it, encodes the same value.
ASSUME EncodingAssumption ==
    \A kind \in AskedMatchers, word \in MailWords : IsValue(kind, word) =>
        /\ Decodable(kind, Encoded(kind, word))
        /\ \A stringCase \in StringCases :
               LET printed == Shown(kind, Encoded(kind, word), stringCase) IN
               /\ printed \in Text \ {<<>>} /\ ~HasBlank(printed)
               /\ printed \in MaskedWords => Encoded(kind, printed) = Encoded(kind, word)

-------------------------------------------------------------------------------
\* The values of the constants in the runs

MCSpace == " "

\* A parameter is its own text, but for numbers with decimals and for addresses.
MCShown(kind, param, stringCase) ==
    CASE kind = "decimals" -> uintToDecimalString(param, 18)
      [] kind = "ethAddr"  -> param \o <<CASE stringCase = 0 -> "Ab" [] stringCase = 1 -> "ab"
                                           [] stringCase = 2 -> "AB">>
      [] OTHER             -> param

MCDecodable(kind, param) == TRUE

Zeros(n) == [i \in 1..n |-> "0"]

StripLeadingZeros(s) ==
    LET nonZero == {i \in 1..Len(s) : s[i] # "0"}
        first == CHOOSE i \in nonZero : \A j \in nonZero : i <= j
    IN  IF nonZero = {} THEN <<"0">> ELSE SubSeq(s, first, Len(s))

\* The place of the point in a text, one past its end if it has none.
PointOf(s) == CHOOSE i \in 1..(Len(s) + 1) : (i <= Len(s) /\ s[i] = ".") \/ (i = Len(s) + 1 /\ "." \notin {s[j] : j \in 1..Len(s)})

IntegerPart(s) == SubSeq(s, 1, PointOf(s) - 1)
Fraction(s) == SubSeq(s, PointOf(s) + 1, Len(s))

IsNumeral(s) == s # <<>> /\ \A i \in 1..Len(s) : s[i] \in Digits

\* The words that a matcher stands for; an address is "0x" and its letters in some case.
MCIsValue(kind, word) ==
    CASE kind = "uint"     -> IsNumeral(word)
      [] kind = "decimals" -> /\ IsNumeral(IntegerPart(word))
                              /\ PointOf(word) <= Len(word) => IsNumeral(Fraction(word))
      [] kind = "ethAddr"  -> Len(word) = 2 /\ word[1] = "0x"
      [] OTHER             -> word # <<>>

\* relayer_utils encodes decimals as an integer with 18 places.
MCEncoded(kind, word) ==
    CASE kind = "uint"     -> StripLeadingZeros(word)
      [] kind = "decimals" -> StripLeadingZeros(IntegerPart(word) \o Fraction(word)
                                                    \o Zeros(18 - Len(Fraction(word))))
      [] kind = "ethAddr"  -> <<"0x">>
      [] OTHER             -> word

MCAddresses == {"a@b"}

\* Some parameters of each kind; the strings have blanks at every place.
MCParamsOf(kind) ==
    CASE kind = "string"   -> {<<>>, <<"a">>, <<"a", " ">>, <<" ", "a">>, <<"a", " ", "a">>}
      [] kind = "uint"     -> {<<"0">>, <<"1", "0">>}
      [] kind = "int"      -> {<<"1">>, <<"-", "1">>}
      [] kind = "decimals" -> {<<"0">>, <<"1">>, <<"1", "0">>}
      [] kind = "ethAddr"  -> {<<"0x">>}

MCLiterals == {<<"a">>, <<"to", " ", "a">>}
MCAskedMatchers == {"uint", "decimals", "string", "ethAddr"}
MCWords == {<<"Send">>, <<"x:", "a@b">>}

\* The parameters of a request: numbers as the contract prints them or not, an address
\* in two letter cases of which one is nobody's, a text of two words, a placeholder, and
\* an email address, alone and at the end of a word.
MCAskedParams == { <<"5">>, <<"0", "5">>, <<"1", ".", "5">>, <<"1", ".", "5", "0">>, <<"0">>,
                   <<"0x", "Ab">>, <<"0x", "AB">>, <<"0x", "aB">>,
                   <<"a">>, <<"a", " ", "a">>, <<"{", "uint", "}">>, <<"a@b">>, <<"x:", "a@b">> }

\* A plain request, one whose mail has a code and whose reply is folded, and one whose
\* reply has a subject that looks like two commands.
MCEmptyRequests ==
    { [template |-> <<>>, params |-> <<>>, codeExists |-> FALSE, folded |-> FALSE, subject |-> <<"Re:">>],
      [template |-> <<>>, params |-> <<>>, codeExists |-> TRUE,  folded |-> TRUE,  subject |-> <<"Re:">>],
      [template |-> <<>>, params |-> <<>>, codeExists |-> FALSE, folded |-> FALSE,
       subject |-> <<"Send", " ", "5", " ", "Send", " ", "x:">>] }

-------------------------------------------------------------------------------

Entries == [kind : Matchers] \union [kind : {"literal"}, text : Literals]
RequestEntries == [kind : AskedMatchers] \union [kind : {"literal"}, text : Words]

VARIABLES digits, decimal, template, params, request

vars == <<digits, decimal, template, params, request>>

NoRequest == [template |-> <<>>, params |-> <<>>, codeExists |-> FALSE, folded |-> FALSE, subject |-> <<>>]

Init ==
    /\ digits = <<>>
    /\ decimal \in 0..MaxDecimal
    /\ template = <<>>
    /\ params = <<>>
    /\ request = NoRequest

\* Strings.toString prints no leading zero.
AppendDigit(digit) ==
    /\ template = <<>>
    /\ request = NoRequest
    /\ Len(digits) < MaxDigits
    /\ digits # <<"0">>
    /\ digits' = Append(digits, digit)
    /\ UNCHANGED <<decimal, template, params, request>>

AppendLiteral(entry) ==
    /\ template' = Append(template, entry)
    /\ UNCHANGED params

AppendMatcher(entry, param) ==
    /\ template' = Append(template, entry)
    /\ params' = Append(params, param)

AppendEntry(entry) ==
    /\ digits = <<>>
    /\ decimal = 0
    /\ Len(template) < MaxEntries
    /\ request = NoRequest
    /\ \/ ~IsMatcher(entry) /\ AppendLiteral(entry)
       \/ IsMatcher(entry) /\ \E param \in ParamsOf(entry.kind) : AppendMatcher(entry, param)
    /\ UNCHANGED <<digits, decimal, request>>

BeginRequest(empty) ==
    /\ digits = <<>> /\ decimal = 0 /\ template = <<>>
    /\ request = NoRequest
    /\ request' = empty
    /\ UNCHANGED <<digits, decimal, template, params>>

\* The request's template is written before its parameters.
AskEntry(entry) ==
    LET asked == Append(request.template, entry)
        matchers == Cardinality(MatcherEntries(asked))
    IN  /\ request # NoRequest
        /\ request.params = <<>>
        /\ matchers <= MaxMatchers /\ Len(asked) <= matchers + MaxWords
        /\ request' = [request EXCEPT !.template = asked]
        /\ UNCHANGED <<digits, decimal, template, params>>

\* Any number of parameters, whatever the template.
AskParam(param) ==
    /\ request.template # <<>>
    /\ Len(request.params) < MaxParams
    /\ request' = [request EXCEPT !.params = Append(@, param)]
    /\ UNCHANGED <<digits, decimal, template, params>>

Next ==
    \/ \E digit \in {"0", "1", "9"} : AppendDigit(digit)
    \/ \E entry \in Entries : AppendEntry(entry)
    \/ \E empty \in EmptyRequests : BeginRequest(empty)
    \/ \E entry \in RequestEntries : AskEntry(entry)
    \/ \E param \in AskedParams : AskParam(param)

Spec == Init /\ [][Next]_vars

-------------------------------------------------------------------------------
\* DecimalUtils

Printed == uintToDecimalString(digits, decimal)

\* The text is a numeral that a reader takes for the number: integer part, point and
\* fraction, padded to `places` places, are its digits again.
ReadsAs(text, number, places) ==
    /\ Len(Fraction(text)) <= places
    /\ StripLeadingZeros(IntegerPart(text) \o Fraction(text)
                             \o Zeros(places - Len(Fraction(text)))) = number

\* The only numeral for its value that the sender of an email writes: digits only, no
\* fraction that ends in a zero, no bare point, no needless zero in front.
IsCanonical(text) ==
    LET whole == IntegerPart(text)
        fraction == Fraction(text)
    IN  /\ IsNumeral(whole) /\ (whole[1] = "0" => Len(whole) = 1)
        /\ IF fraction = <<>> THEN Len(text) = Len(whole)
           ELSE IsNumeral(fraction) /\ fraction[Len(fraction)] # "0"

\* Every positive number is printed (CommandUtils.sol:125) as a numeral that reads back ...
DecimalReadsBack == digits \notin {<<>>, <<"0">>} => ReadsAs(Printed, digits, decimal)

\* ... and as the canonical one for it.
DecimalIsCanonical == digits \notin {<<>>, <<"0">>} => IsCanonical(Printed)

\* DecimalUtils.sol:9, "Convert uint256 to human readable string with decimal places":
\* the text holds digits and a point only.
HumanReadable ==
    digits # <<>> => \A i \in 1..Len(Printed) : Printed[i] \in Digits \union {"."}

-------------------------------------------------------------------------------
\* CommandUtils

Command(stringCase) == computeExpectedCommand(params, template, stringCase)

\* A parameter is read back from the command that was computed with it
\* (extractCommandParamByIndex, CommandUtils.sol:167), in whatever letter case, as long
\* as neither it nor an entry before it holds a blank; it never panics then.
ParamReadsBack ==
    \A i \in 1..Len(template), stringCase \in StringCases :
        LET TextOf(j) == EntryText(params, template, j, stringCase) IN
        IsMatcher(template[i]) /\ (\A j \in 1..i : ~HasBlank(TextOf(j))) =>
            extractCommandParamByIndex(template, Command(stringCase), ParamIndex(template, i) - 1)
                = [panics |-> FALSE, text |-> TextOf(i)]

\* The lists with one more parameter of the kind.
OneMore(lists, kind) == {Append(list, param) : list \in lists, param \in ParamsOf(kind)}

\* The parameter lists that the template accepts.
OtherParams ==
    LET upTo[i \in 0..Len(template)] ==
            IF i = 0 THEN {<<>>}
            ELSE IF IsMatcher(template[i]) THEN OneMore(upTo[i - 1], template[i].kind)
            ELSE upTo[i - 1]
    IN  upTo[Len(template)]

\* authEmail compares whole commands, so the parameters are what the email says only if
\* no others print the same command.  They are, unless the template has two strings: a
\* blank in one of them may then belong to the other.
AmbiguityNeedsTwoStrings ==
    Cardinality({i \in 1..Len(template) : template[i].kind = "string"}) <= 1 =>
        \A stringCase \in StringCases :
            LET command == Command(stringCase) IN
            \A other \in OtherParams :
                computeExpectedCommand(other, template, stringCase) = command => other = params

-------------------------------------------------------------------------------
\* RelayerCommand

Parsed == parse_command_template(TemplateText(request.template), request.params)

\* The reply, as a text to search: the subject and the quoted command.
ReplyText ==
    LET quoted == MailedCommand(request)
        middle == (Len(quoted) + 1) \div 2
    IN  request.subject \o <<Space>>
        \o (IF request.folded
            THEN SubSeq(quoted, 1, middle) \o <<SoftBreak>> \o SubSeq(quoted, middle + 1, Len(quoted))
            ELSE quoted)

Values == get_encoded_command_params(ReplyText, request.template)
Authentic(values) == Authenticates(values, Parsed, request.template)

AskedKind(n) == request.template[MatcherEntry(request.template, n)].kind
MatcherCount == Cardinality(MatcherEntries(request.template))

\* The parameter is one word of the right form that is no placeholder and no email
\* address, and that the contract prints for its value.
Regular(n, stringCase) ==
    LET word == request.params[n] IN
    /\ WordsOf(word) = <<word>>
    /\ \A i \in 1..Len(word) : word[i] # "{" /\ word[i] \notin Addresses
    /\ IsValue(AskedKind(n), word)
    /\ Shown(AskedKind(n), Encoded(AskedKind(n), word), stringCase) = word

\* A reply that quotes the mailed command authorizes it (EmailAuth.sol:189), with a code
\* or without, folded or not, if there is a parameter for each matcher, the contract
\* prints each of them, in one letter case for all, as the request writes it, no word of
\* the template holds an address, and the template matches nowhere else in the mail.
QuotedReplyAuthenticates ==
    LET regular == \E stringCase \in StringCases : \A n \in 1..MatcherCount : Regular(n, stringCase)
        literals == {request.template[i].text :
                        i \in (1..Len(request.template)) \ MatcherEntries(request.template)}
    IN  (/\ Len(request.params) >= MatcherCount
         /\ regular
         /\ \A text \in literals, address \in Addresses : ~Holds(text, address)
         /\ Cardinality(MatchingPlaces(WordsOf(CleanedEmail(ReplyText)), request.template)) <= 1)
        => Values # {} /\ \A values \in Values : Authentic(values)

\* What a request asks for at matcher number n: its parameter, or the placeholder if it has
\* none.
Asked(n) == IF n <= Len(request.params) THEN request.params[n] ELSE <<"{", AskedKind(n), "}">>

\* No parameter that another one follows brings a brace.
Unbraced == \A n \in 1..(Len(request.params) - 1) : ~Holds(request.params[n], "{")

\* handler.rs:163, "Parse the command template with the provided parameters": whatever the
\* parameters, too few or too many of them, the mail's command has each at its own
\* matcher's place and a matcher without one keeps its placeholder, although each is put
\* where the first brace is by then.  A parameter with a brace that another one follows is
\* excepted: the next one replaces it.
CommandHasItsParameters ==
    Unbraced =>
        Parsed = Joined([i \in 1..Len(request.template) |->
            IF IsMatcher(request.template[i]) THEN Asked(ParamIndex(request.template, i))
            ELSE request.template[i].text])

\* What a reply authorizes are the request's parameters, in their order, none of them
\* altered on the way through mail, relayer and contract but for the addresses in it,
\* which the circuit masks: a parameter "x:a@b" authorizes "x:" (the reply must say that
\* somewhere, as in its subject).  A {string} that the request has no parameter for
\* authorizes its own placeholder.  The exception is that of CommandHasItsParameters.
AuthorizedAsAsked ==
    Unbraced =>
        \A values \in Values : Authentic(values) =>
            \A n \in 1..MatcherCount :
                values[n] = Encoded(AskedKind(n), Without(Asked(n), Addresses))
===============================================================================
