-------------------------------- MODULE RestApi --------------------------------
(***************************************************************************)
(* A request to the REST API, from the version negotiation through the     *)
(* authentication and the controller to an engine, and back as a status.   *)
(* The API process serves each request in a green thread, which yields     *)
(* while it talks to Keystone and while it waits for an engine.  The rpc   *)
(* layer is what RpcPromise says of it; what an engine does in Heat and in *)
(* the database is RushEngine's, here a rush is listed for a tenant or it  *)
(* is not.                                                                 *)
(*                                                                         *)
(* A path is the sequence of its segments, "" for what follows a trailing  *)
(* slash.  The rush a request starts goes by the name of the request.      *)
(***************************************************************************)
EXTENDS RpcMessages

CONSTANTS
    Requests,
    Users,
    MemberOf,     \* the tenants Keystone knows each user in
    VersionIn,    \* the version version_uri_regex finds in a segment, or None
    Settings,     \* the deployments and loads of this instance
    Raises        \* what a method may raise outside its own try

ASSUME RestAssumption ==
    /\ None \notin Requests \cup Nat \cup {"result", "refused", "error"}
    /\ \A u \in Users : None \notin MemberOf[u]
    /\ \A s \in Settings : /\ s.pipeline \in {"standalone", "keystone"}
                            /\ \A load \in s.loads, r \in Requests : load[r].user \in Users

VARIABLES
    pipeline,   \* the flavor of paste_deploy
    callbacks,  \* what the engine's RpcDispatcher has
    input,      \* what each request is
    pc,         \* where it is
    path,       \* PATH_INFO
    tenant,     \* the X-Tenant-Id the authentication has confirmed
    context,    \* req.context.tenant_id
    action,     \* the route's action
    message,    \* what was sent to the engines
    asked, ran, told,   \* RpcPromise
    result,     \* what the run returned or raised
    owner,      \* the tenant a rush is listed for
    status,     \* the response, None before it
    body        \* and what it carries

Rpc == INSTANCE RpcPromise WITH Calls <- Requests

config     == <<pipeline, callbacks, input>>
engineVars == <<ran, result, owner>>
answerVars == <<told, status, body>>
vars == <<config, pc, path, tenant, context, action, message, asked, engineVars, answerVars>>

UserOf(r) == input[r].user

Init ==
    /\ \E s \in Settings :
          /\ pipeline = s.pipeline /\ callbacks = s.callbacks
          /\ input \in s.loads
    /\ pc = [r \in Requests |-> "negotiate"]
    /\ path = [r \in Requests |-> input[r].path]
    /\ tenant = [r \in Requests |-> None]
    /\ context = [r \in Requests |-> None]
    /\ action = [r \in Requests |-> None]
    /\ message = [r \in Requests |-> None]
    /\ Rpc!Init
    /\ result = [r \in Requests |-> None]
    /\ owner = [r \in Requests |-> None]
    /\ status = [r \in Requests |-> None]
    /\ body = [r \in Requests |-> None]

Versions == "versions"   \* the body of versions.Controller

GoTo(r, where) == pc' = [pc EXCEPT ![r] = where] /\ UNCHANGED <<status, body>>

\* A mutant of Respond: Middleware goes on after process_request's response.
Respond_goes_on(r, code, what) ==
    /\ status' = [status EXCEPT ![r] = code]
    /\ body' = [body EXCEPT ![r] = what]
    /\ pc' = [pc EXCEPT ![r] = IF @ = "negotiate" THEN "authenticate" ELSE "done"]

Respond(r, code, what) ==
    /\ status' = [status EXCEPT ![r] = code]
    /\ body' = [body EXCEPT ![r] = what]
    /\ pc' = [pc EXCEPT ![r] = "done"]
-----------------------------------------------------------------------------
(* The middleware. *)

Current == <<1, 0>>

\* The media type application/vnd.openstack.images-; without a version in it
\* the request goes on, with any other media type the versions are shown.
AcceptedVersion(accept) ==
    CASE ~accept.images                -> None
      [] VersionIn[accept.rest] = None -> Current
      [] OTHER                         -> VersionIn[accept.rest]

Negotiate(r) ==
    /\ pc[r] = "negotiate"
    /\ LET first == Head(path[r])
           inUri == VersionIn[first]
       IN  \/ /\ first # "versions" /\ inUri = Current
              /\ path' = [path EXCEPT ![r] = Tail(@)]
              /\ GoTo(r, "authenticate")
           \/ /\ first # "versions" /\ inUri = None
              /\ AcceptedVersion(input[r].accept) = Current
              /\ GoTo(r, "authenticate")
              /\ UNCHANGED path
           \/ /\ \/ first = "versions"
                 \/ inUri \notin {None, Current}
                 \/ inUri = None /\ AcceptedVersion(input[r].accept) # Current
              /\ Respond(r, 300, Versions)
              /\ UNCHANGED path
    /\ UNCHANGED <<config, tenant, context, action, message, asked, told, engineVars>>

\* The tenant is the path's first segment; Keystone lets the user in, does not,
\* or fails in a way that is not caught.
AuthPassword(r) ==
    /\ pipeline = "standalone" /\ pc[r] = "authenticate"
    /\ IF path[r] = <<>> THEN Respond(r, 500, "error") /\ UNCHANGED tenant
       ELSE \/ /\ Head(path[r]) \in MemberOf[UserOf(r)]
               /\ tenant' = [tenant EXCEPT ![r] = Head(path[r])]
               /\ GoTo(r, "context")
            \/ /\ Head(path[r]) \notin MemberOf[UserOf(r)]
               /\ Respond(r, 401, "error") /\ UNCHANGED tenant
            \/ /\ Head(path[r]) # ""
               /\ Respond(r, 500, "error") /\ UNCHANGED tenant
    /\ UNCHANGED <<config, path, context, action, message, asked, told, engineVars>>

\* keystoneclient's auth_token: the tenant is the token's.
AuthToken(r) ==
    /\ pipeline = "keystone" /\ pc[r] = "authenticate"
    /\ \/ /\ input[r].token \in MemberOf[UserOf(r)]
          /\ tenant' = [tenant EXCEPT ![r] = input[r].token]
          /\ GoTo(r, "context")
       \/ /\ input[r].token \notin MemberOf[UserOf(r)]
          /\ Respond(r, 401, "error") /\ UNCHANGED tenant
       \/ Respond(r, 503, "error") /\ UNCHANGED tenant
    /\ UNCHANGED <<config, path, context, action, message, asked, told, engineVars>>

\* A mutant of MakeContext: the tenant of the path.
MakeContext_from_path(r) ==
    /\ pc[r] = "context"
    /\ context' = [context EXCEPT ![r] = IF path[r] = <<>> THEN None ELSE Head(path[r])]
    /\ GoTo(r, "resource")
    /\ UNCHANGED <<config, path, tenant, action, message, asked, told, engineVars>>

MakeContext(r) ==
    /\ pc[r] = "context"
    /\ context' = [context EXCEPT ![r] = tenant[r]]
    /\ GoTo(r, "resource")
    /\ UNCHANGED <<config, path, tenant, action, message, asked, told, engineVars>>
-----------------------------------------------------------------------------
(* The router, the resource and its controller. *)

Route(method, rest, name) == [method |-> method, rest |-> rest, action |-> name]

\* In the mapper's order; a rest of None is a rush's id.
Routes == << Route("GET", <<"rushes", "echo">>, "echo"),
             Route("GET", <<"rushes">>, "get_list"),
             Route("PUT", <<"rushes">>, "create_rush"),
             Route("DELETE", <<"rushes", None>>, "delete_rush"),
             Route("GET", <<"rushes", None>>, "get_rush") >>

Matches(route, segments) ==
    /\ Len(segments) = Len(route.rest) + 1
    /\ \A i \in 1..Len(segments) : segments[i] # ""
    /\ \A i \in 1..Len(route.rest) : route.rest[i] \in {segments[i + 1], None}

Matching(r) ==
    {i \in DOMAIN Routes : Routes[i].method = input[r].method /\ Matches(Routes[i], path[r])}

\* JSONRequestDeserializer: what starts as an object is parsed.
Deserialized(r) == IF input[r].body \in {"full", "part"} THEN {"body"} ELSE {}
Unparsable(r)   == input[r].body = "broken"

TenantLocal(r) == context[r] = Head(path[r])

\* What the handler's exception comes to, if it raises one before it asks an
\* engine.  A body that is not taken is a TypeError, and so is get_rush's call
\* of EngineClient with three arguments where it takes one; create_rush takes
\* the body's keys unseen, a KeyError.
HandlerFails(r, name) ==
    CASE ~TenantLocal(r)                                        -> 401
      [] name # "create_rush" /\ Deserialized(r) # {}           -> 400
      [] name = "get_rush"                                      -> 400
      [] name = "create_rush" /\ input[r].body # "full"         -> 500
      [] OTHER                                                  -> None

EngineMethod(name) ==
    CASE name = "create_rush" -> "start_rush_stack"
      [] name = "delete_rush" -> "stop_rush_stack"
      [] OTHER                -> name

\* EngineClient and RpcProxy.call.
RequestTo(r, name) ==
    SerializeMsg(MakeMsg(EngineMethod(name),
        [tenant_id |-> context[r],
         rush_id |-> IF name = "delete_rush" THEN Last(path[r]) ELSE None],
        Current, context[r]))

NotSent == UNCHANGED <<message, asked, ran, told>>

\* Deserialized, handed to the controller's method and on to the engines.
Resource(r) ==
    /\ pc[r] = "resource"
    /\ \/ Matching(r) = {} /\ Respond(r, 404, "error") /\ NotSent /\ UNCHANGED action
       \/ \E i \in Matching(r) :
             LET name == Routes[i].action
                 fails == IF Unparsable(r) THEN 400 ELSE HandlerFails(r, name)
             IN  /\ \A j \in Matching(r) : i <= j
                 /\ action' = [action EXCEPT ![r] = name]
                 /\ IF fails # None THEN Respond(r, fails, "error") /\ NotSent
                    ELSE /\ GoTo(r, "call")
                         /\ message' = [message EXCEPT ![r] = RequestTo(r, name)]
                         /\ Rpc!Ask(r)
    /\ UNCHANGED <<config, path, tenant, context, result, owner>>
-----------------------------------------------------------------------------
(* An engine. *)

Returns(r, what) ==
    /\ ran' = [ran EXCEPT ![r] = <<"ok">>]
    /\ result' = [result EXCEPT ![r] = what]

RaisesWith(r, failure) ==
    /\ ran' = [ran EXCEPT ![r] = <<"raised">>]
    /\ result' = [result EXCEPT ![r] = failure]
    /\ UNCHANGED owner

No == [result |-> FALSE]
Yes(what) == [result |-> TRUE, of |-> what]

\* A mutant of GetList: the rushes of every tenant.
GetList_all(r, t) ==
    /\ Returns(r, Yes({i \in Requests : owner[i] # None}))
    /\ UNCHANGED owner

GetList(r, t) ==
    /\ \/ Returns(r, Yes({i \in Requests : owner[i] = t}))
       \/ Returns(r, No)
    /\ UNCHANGED owner

StartRushStack(r, t) ==
    \/ Returns(r, Yes(r)) /\ owner' = [owner EXCEPT ![r] = t]
    \/ Returns(r, No) /\ UNCHANGED owner

\* The first query is outside the try.
StopRushStack(r, t, i) ==
    \/ /\ i \in Requests /\ owner[i] = t
       /\ Returns(r, Yes(i))
       /\ owner' = [owner EXCEPT ![i] = None]
    \/ Returns(r, No) /\ UNCHANGED owner
    \/ \E failure \in Raises : RaisesWith(r, failure)

Dispatch(r, msg) ==
    IF Chosen(callbacks, msg) = <<>> THEN RaisesWith(r, NotDispatched(callbacks, msg))
    ELSE CASE msg.method = "echo"     -> Returns(r, Yes("echo")) /\ UNCHANGED owner
           [] msg.method = "get_list" -> GetList(r, msg.args.tenant_id)
           [] msg.method = "start_rush_stack" -> StartRushStack(r, msg.args.tenant_id)
           [] msg.method = "stop_rush_stack" ->
                 StopRushStack(r, msg.args.tenant_id, msg.args.rush_id)

EngineRuns(r) ==
    /\ message[r] # None /\ Readable(message[r])
    /\ Rpc!Run(r)
    /\ Dispatch(r, DeserializeMsg(message[r]))
    /\ UNCHANGED <<config, pc, path, tenant, context, action, message, asked, status, body>>
-----------------------------------------------------------------------------
(* Back in the API. *)

Tell(r, what) == Rpc!Tell(r) /\ told' = [told EXCEPT ![r] = what]

\* A mutant of HearResult: the result of any call of its method.
HearResult_of_another(r) ==
    /\ pc[r] = "call" /\ ran[r] = <<"ok">>
    /\ Tell(r, "result")
    /\ \E c \in asked : /\ ran[c] = <<"ok">> /\ action[c] = action[r]
                        /\ Respond(r, 200, result[c])
    /\ UNCHANGED <<config, path, tenant, context, action, message, result, owner>>

\* A result of False is a success of HTTP's too.
HearResult(r) ==
    /\ pc[r] = "call" /\ ran[r] = <<"ok">>
    /\ Tell(r, "result")
    /\ Respond(r, 200, result[r])
    /\ UNCHANGED <<config, path, tenant, context, action, message, result, owner>>

\* The engine's own TypeError is a bad request to Resource.
HearFailure(r) ==
    /\ pc[r] = "call" /\ ran[r] = <<"raised">>
    /\ Tell(r, "failure")
    /\ Respond(r, IF DeserializeRemoteException(result[r]) = BuiltIn("TypeError")
                  THEN 400 ELSE 500, "error")
    /\ UNCHANGED <<config, path, tenant, context, action, message, result, owner>>

\* A mutant of HearNothing: a timeout is reported as not found.
HearNothing_404(r) ==
    /\ pc[r] = "call"
    /\ Tell(r, "nothing")
    /\ Respond(r, 404, "error")
    /\ UNCHANGED <<config, path, tenant, context, action, message, result, owner>>

\* A mutant of HearNothing: the waiter's timeout is not raised.
HearNothing_no_timeout(r) ==
    /\ pc[r] = "call" /\ ran[r] # <<>>
    /\ Tell(r, "nothing")
    /\ Respond(r, 500, "error")
    /\ UNCHANGED <<config, path, tenant, context, action, message, result, owner>>

\* Timeout, with the topic and the method; Resource does not catch it.
HearNothing(r) ==
    /\ pc[r] = "call"
    /\ Tell(r, "nothing")
    /\ Respond(r, 500, "error")
    /\ UNCHANGED <<config, path, tenant, context, action, message, result, owner>>

Serve(r) ==
    \/ Negotiate(r) \/ AuthPassword(r) \/ AuthToken(r) \/ MakeContext(r)
    \/ Resource(r) \/ HearResult(r) \/ HearFailure(r) \/ HearNothing(r)

Next == \E r \in Requests : Serve(r) \/ EngineRuns(r)

Spec == Init /\ [][Next]_vars

\* Every green thread goes on: Keystone answers or its client gives up, and a
\* call times out.
FairSpec == Spec /\ \A r \in Requests : WF_vars(Serve(r))
=============================================================================
