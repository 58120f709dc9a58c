----------------------------- MODULE RestApiProps -----------------------------
(***************************************************************************)
(* What must hold of RestApi.                                              *)
(***************************************************************************)
EXTENDS RestApi, FiniteSets

Places == {"negotiate", "authenticate", "context", "resource", "call", "done"}
Codes  == {200, 300, 400, 401, 404, 500, 503}

\* Every variable keeps its type, and what a request has sent to the engines is
\* what its route and its context say.
TypeOK ==
    /\ pc \in [Requests -> Places]
    /\ status \in [Requests -> Codes \cup {None}]
    /\ asked \subseteq Requests
    /\ told \in [Requests -> {"none", "result", "failure", "nothing"}]
    /\ \A r \in Requests : /\ Len(ran[r]) <= 1
                           /\ (status[r] # None) = (pc[r] = "done")
                           /\ r \in asked => message[r] = RequestTo(r, action[r])

\* A success tells what this request's own run returned, and a bad request that
\* an engine has dealt with is one whose run raised a TypeError: Resource takes
\* it for the handler's own (wsgi.py, Resource.__call__).
AnswersAreTrue ==
    \A r \in Requests :
        /\ status[r] = 200 => ran[r] = <<"ok">> /\ body[r] = result[r]
        /\ status[r] = 400 /\ r \in asked =>
              ran[r] = <<"raised">> /\ result[r] = BuiltIn("TypeError")

\* The list a user is shown has the rushes of one tenant, and one he is a member
\* of, however the requests of several tenants interleave.
ShowsOwnRushes ==
    \A r \in Requests :
        (status[r] = 200 /\ action[r] = "get_list" /\ body[r].result) =>
            \A i \in body[r].of : /\ context[i] = context[r]
                                  /\ context[i] \in MemberOf[UserOf(r)]

Said(r) ==
    CASE status[r] = None            -> None
      [] status[r] = 200             -> "result"
      [] status[r] \in {300, 401, 404} -> "refused"
      [] OTHER                       -> "error"

Promise == INSTANCE RestPromise WITH
    user    <- [r \in Requests |-> UserOf(r)],
    carried <- {r \in Requests : ran[r] # <<>>},
    said    <- [r \in Requests |-> Said(r)]

\* The API keeps RestPromise: nobody acts for a tenant he is no member of, a
\* request refused was not and will not be carried out, a success was, and every
\* request gets an answer, also when no engine takes its call.
KeepsRestPromise == Promise!Spec
=============================================================================
