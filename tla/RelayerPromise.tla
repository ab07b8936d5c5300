---------------------------- MODULE RelayerPromise ----------------------------
(***************************************************************************)
(* What the relayer promises those who submit requests and those who answer*)
(* its mails, without handlers, processes, statuses or nonces: a request's *)
(* sender is invited first; a response rests on a key that was registered  *)
(* before it, and stays as it is; "complete" is told only of a request     *)
(* that has a response by then; and nothing is taken back.                 *)
(***************************************************************************)
CONSTANTS
    Requests,
    Registering,     \* the requests that name a contract to register their keys with
    Keys

VARIABLES
    invited,         \* the requests whose Command mail is out
    registered,      \* the keys the contract holds
    responses,       \* the responses given: to which request, resting on which key
    told             \* the requests whose sender was told of completion

vars == <<invited, registered, responses, told>>

Response == [request : Requests, key : Keys]

Init ==
    /\ invited = {}
    /\ registered = {}
    /\ responses = {}
    /\ told = {}

Invite(r) ==
    /\ r \notin invited
    /\ invited' = invited \union {r}
    /\ UNCHANGED <<registered, responses, told>>

Register(key) ==
    /\ key \notin registered
    /\ registered' = registered \union {key}
    /\ UNCHANGED <<invited, responses, told>>

Respond(response) ==
    /\ response.request \in Registering => response.key \in registered
    /\ response.request \in invited
    /\ response \notin responses
    /\ responses' = responses \union {response}
    /\ UNCHANGED <<invited, registered, told>>

Tell(r) ==
    /\ \E response \in responses : response.request = r
    /\ r \notin told
    /\ told' = told \union {r}
    /\ UNCHANGED <<invited, registered, responses>>

Next ==
    \/ \E r \in Requests : Invite(r) \/ Tell(r)
    \/ \E key \in Keys : Register(key)
    \/ \E response \in Response : Respond(response)

Spec == Init /\ [][Next]_vars
===============================================================================
