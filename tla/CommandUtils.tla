----------------------------- MODULE CommandUtils -----------------------------
(***************************************************************************)
(* The library libraries/CommandUtils.sol: how the command that an email   *)
(* must contain is computed from a template and parameters, and how a      *)
(* parameter is read back from a command.                                  *)
(*                                                                         *)
(* A text (a Solidity string) is a sequence of tokens.  A token stands for *)
(* a run of bytes that the code never takes apart, so a length or a skip   *)
(* counts tokens where the code counts bytes; the blank that separates the *)
(* words of a command is the token Space.  A template is a sequence of     *)
(* entries, each a matcher ("{uint}", "{string}", ...) or a literal text.  *)
(***************************************************************************)
EXTENDS Integers, Sequences, FiniteSets

CONSTANTS
    Space,            \* the token " "
    Shown(_, _, _),   \* Shown(kind, param, stringCase): the text a matcher of this kind prints
    Decodable(_, _)   \* Decodable(kind, param): abi.decode of param as that kind does not revert

\* The five matchers of a template, by the name between their braces.
Matchers == {"string", "uint", "int", "decimals", "ethAddr"}

\* The letter cases an address may be printed in: checksummed, lower, upper.
StringCases == 0..2

IsMatcher(entry) == entry.kind \in Matchers

\* Mutation: nextParamIndex is not advanced.
NeverAdvanced(template, i) == 1

\* nextParamIndex when entry i, a matcher, is reached (counted from 1).
ParamIndex(template, i) == Cardinality({j \in 1..i : IsMatcher(template[j])})

\* Every matcher of the template finds a parameter that decodes: without one
\* commandParams[nextParamIndex] or abi.decode reverts.
ParamsFit(commandParams, template) ==
    \A i \in 1..Len(template) :
        IsMatcher(template[i]) =>
            /\ ParamIndex(template, i) <= Len(commandParams)
            /\ Decodable(template[i].kind, commandParams[ParamIndex(template, i)])

\* What entry i of the template contributes to the command.
EntryText(commandParams, template, i, stringCase) ==
    IF IsMatcher(template[i])
    THEN Shown(template[i].kind, commandParams[ParamIndex(template, i)], stringCase)
    ELSE template[i].text

\* The texts with a blank between them.
Joined(texts) ==
    LET n == Len(texts)
        joined[i \in 0..n] ==
            IF i = 0 THEN <<>>
            ELSE joined[i - 1] \o (IF i > 1 THEN <<Space>> ELSE <<>>) \o texts[i]
    IN  joined[n]

computeExpectedCommand(commandParams, template, stringCase) ==
    Joined([i \in 1..Len(template) |-> EntryText(commandParams, template, i, stringCase)])

\* The parameters and the template print the text in one of the three letter cases.
IsExpectedCommand(text, commandParams, template) ==
    /\ ParamsFit(commandParams, template)
    /\ \E stringCase \in StringCases :
           computeExpectedCommand(commandParams, template, stringCase) = text

\* A text without its first numBytes tokens; reverts unless numBytes <= Len(str).
removePrefix(str, numBytes) == SubSeq(str, numBytes + 1, Len(str))

\* StringUtils.splitString: one part more than there are delimiters.
splitString(str, delimiter) ==
    LET parts[i \in 0..Len(str)] ==
            IF i = 0 THEN << <<>> >>
            ELSE LET before == parts[i - 1] IN
                 IF str[i] = delimiter THEN Append(before, <<>>)
                 ELSE [before EXCEPT ![Len(before)] = Append(@, str[i])]
    IN  parts[Len(str)]

\* Mutation: the count starts at one.
CountsFromOne(template, paramIndex) ==
    {i \in 1..Len(template) : IsMatcher(template[i]) /\ ParamIndex(template, i) = paramIndex}

\* The entries of the template that are its matcher number paramIndex (from 0):
\* one, or none where the code returns type(uint256).max.
getParamWordIndex(template, paramIndex) ==
    {i \in 1..Len(template) : IsMatcher(template[i]) /\ ParamIndex(template, i) = paramIndex + 1}

\* The index of the word is that of the entry; an index beyond the last word of
\* the command panics.
extractCommandParamByIndex(template, command, paramIndex) ==
    LET words == splitString(command, Space)
        found == getParamWordIndex(template, paramIndex)
        wordIndex == CHOOSE i \in found : TRUE
    IN  IF found = {} THEN [panics |-> FALSE, text |-> <<>>]
        ELSE IF wordIndex > Len(words) THEN [panics |-> TRUE, text |-> <<>>]
        ELSE [panics |-> FALSE, text |-> words[wordIndex]]
===============================================================================
