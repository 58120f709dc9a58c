------------------------------ MODULE RestApiInv ------------------------------
(***************************************************************************)
(* The inductive invariant behind AnswersAreTrue, ShowsOwnRushes and the   *)
(* refinement of RestPromise, of which RestApiProofs makes use.            *)
(***************************************************************************)
EXTENDS RestApiProps

RestTypes ==
    /\ pc \in [Requests -> Places]
    /\ status \in [Requests -> Codes \cup {None}]
    /\ ran \in [Requests -> {<<>>, <<"ok">>, <<"raised">>}]
    /\ asked \subseteq Requests
    /\ DOMAIN path = Requests /\ DOMAIN tenant = Requests /\ DOMAIN context = Requests
    /\ DOMAIN action = Requests /\ DOMAIN message = Requests /\ DOMAIN told = Requests
    /\ DOMAIN result = Requests /\ DOMAIN owner = Requests /\ DOMAIN body = Requests
    /\ \A r \in Requests : input[r].user \in Users

EngineRoutes == {"echo", "get_list", "create_rush", "delete_rush"}

\* From the authentication on, the tenant a request acts for is its user's.
TenantOK(r) ==
    /\ pc[r] = "context" => tenant[r] \in MemberOf[UserOf(r)]
    /\ pc[r] = "resource" \/ r \in asked => context[r] \in MemberOf[UserOf(r)]

\* What was asked of the engines is what the route and the context say.
MessageOK(r) ==
    /\ r \in asked => /\ pc[r] \in {"call", "done"}
                      /\ action[r] \in EngineRoutes
                      /\ message[r] = RequestTo(r, action[r])
    /\ pc[r] = "call" => r \in asked
    /\ ran[r] # <<>> => r \in asked

\* A rush is listed for the tenant of the request that made it, and a list
\* that was returned is of one tenant.
RushOK(r) ==
    /\ owner[r] # None => ran[r] # <<>> /\ owner[r] = context[r]
    /\ r \in asked /\ action[r] = "get_list" /\ ran[r] = <<"ok">> /\ result[r].result =>
          \A i \in result[r].of : i \in asked /\ context[i] = context[r]

\* The response says what is known.
StatusOK(r) ==
    /\ pc[r] = "done" <=> status[r] # None
    /\ status[r] = 200 => r \in asked /\ ran[r] = <<"ok">> /\ body[r] = result[r]
    /\ status[r] \in {300, 401, 404} => r \notin asked
    /\ status[r] = 400 /\ r \in asked =>
          ran[r] = <<"raised">> /\ result[r] = BuiltIn("TypeError")

RequestOK(r) == TenantOK(r) /\ MessageOK(r) /\ RushOK(r) /\ StatusOK(r)

RestInv == RestTypes /\ \A r \in Requests : RequestOK(r)
=============================================================================
