------------------------- MODULE OneTimeAuthorization -------------------------
(***************************************************************************)
(* What EmailAuth promises the controller that calls it, without templates,*)
(* keys, proofs or roles: a growing log of authorizations in which no      *)
(* email appears twice and the emails whose timestamp was checked appear   *)
(* in the order in which they were sent.                                   *)
(***************************************************************************)
EXTENDS Integers, Sequences

CONSTANTS
    Nullifiers,       \* the emails, by their nullifier
    Places            \* the places an email may have in the order

VARIABLE log          \* the authorizations so far, oldest first

Unordered == 0        \* the place of an email whose timestamp was not checked

\* An authorization: the email, and its place in the order or Unordered.
Entry == [emailNullifier : Nullifiers, place : Places]

Init == log = <<>>

\* The email was never authorized before and, if it has a place in the order,
\* it comes after every other email that has one.
Acceptable(entry) ==
    \A i \in 1..Len(log) :
        /\ log[i].emailNullifier # entry.emailNullifier
        /\ entry.place # Unordered => log[i].place < entry.place

Authorize(entry) == Acceptable(entry) /\ log' = Append(log, entry)

Next == \E entry \in Entry : Authorize(entry)

Spec == Init /\ [][Next]_log

-------------------------------------------------------------------------------

\* No email authorizes anything twice.
AtMostOnce ==
    \A i, j \in 1..Len(log) :
        log[i].emailNullifier = log[j].emailNullifier => i = j

\* The emails that have a place in the order are in order.
InOrder ==
    \A i, j \in 1..Len(log) :
        i < j /\ log[i].place # Unordered /\ log[j].place # Unordered
            => log[i].place < log[j].place
===============================================================================
