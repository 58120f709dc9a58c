----------------------------- MODULE RestApiProofs -----------------------------
(***************************************************************************)
(* What is proved of RestApi, for any requests, users, tenants, pipelines  *)
(* and engines: the types, that answers are true, that a list shows one    *)
(* tenant's rushes, and that the API keeps the safety part of RestPromise. *)
(***************************************************************************)
EXTENDS RestApiInv, TLAPS

LEMMA NoneIsApart ==
  /\ None \notin Codes
  /\ None # "result" /\ None # "refused" /\ None # "error"
  /\ 200 # None /\ 300 # None /\ 400 # None /\ 401 # None /\ 404 # None
  /\ 500 # None /\ 503 # None
BY RestAssumption DEF Codes

\* A step of one request leaves the others alone, but for the rushes it stops.
Spares(r) ==
    /\ UNCHANGED input
    /\ asked \subseteq asked' /\ asked' \subseteq asked \cup {r}
    /\ \A i \in asked : context'[i] = context[i]
    /\ \A q \in Requests \ {r} :
          /\ pc'[q] = pc[q] /\ path'[q] = path[q] /\ tenant'[q] = tenant[q]
          /\ context'[q] = context[q] /\ action'[q] = action[q] /\ message'[q] = message[q]
          /\ ran'[q] = ran[q] /\ result'[q] = result[q]
          /\ status'[q] = status[q] /\ body'[q] = body[q]
          /\ owner'[q] \in {owner[q], None}

LEMMA OthersKept ==
  ASSUME RestInv, NEW r \in Requests, Spares(r), NEW q \in Requests \ {r}
  PROVE  RequestOK(q)'
<1>1. RequestOK(q)
  BY DEF RestInv
<1>2. /\ q \in asked' <=> q \in asked
      /\ pc'[q] = pc[q] /\ path'[q] = path[q] /\ tenant'[q] = tenant[q]
      /\ context'[q] = context[q] /\ action'[q] = action[q] /\ message'[q] = message[q]
      /\ ran'[q] = ran[q] /\ result'[q] = result[q]
      /\ status'[q] = status[q] /\ body'[q] = body[q]
      /\ owner'[q] \in {owner[q], None}
      /\ input' = input
  BY DEF Spares
<1>3. TenantOK(q)'
  BY <1>1, <1>2 DEF RequestOK, TenantOK, UserOf
<1>4. \A name : RequestTo(q, name)' = RequestTo(q, name)
  BY <1>2 DEF RequestTo
<1>5. MessageOK(q)'
  BY <1>1, <1>2, <1>4 DEF RequestOK, MessageOK
<1>6. RushOK(q)'
  <2>1. owner'[q] # None => ran'[q] # <<>> /\ owner'[q] = context'[q]
    BY <1>1, <1>2 DEF RequestOK, RushOK
  <2>2. \A i \in asked : i \in asked' /\ context'[i] = context[i]
    BY DEF Spares
  <2>3. ASSUME q \in asked', action'[q] = "get_list", ran'[q] = <<"ok">>, result'[q].result,
               NEW i \in result'[q].of
        PROVE  i \in asked' /\ context'[i] = context'[q]
    <3>1. i \in asked /\ context[i] = context[q]
      BY <1>1, <1>2, <2>3 DEF RequestOK, RushOK
    <3> QED BY <1>2, <2>2, <3>1
  <2> QED BY <2>1, <2>3 DEF RushOK
<1>7. StatusOK(q)'
  BY <1>1, <1>2 DEF RequestOK, StatusOK
<1> QED BY <1>3, <1>5, <1>6, <1>7 DEF RequestOK

LEMMA StepKeeps ==
  ASSUME RestInv, NEW r \in Requests, Spares(r), RestTypes', RequestOK(r)'
  PROVE  RestInv'
BY OthersKept DEF RestInv
-----------------------------------------------------------------------------
LEMMA InitRest == Init => RestInv
<1> SUFFICES ASSUME Init PROVE RestInv
  OBVIOUS
<1>1. RestTypes
  <2>1. \A r \in Requests : input[r].user \in Users
    BY RestAssumption DEF Init
  <2>2. ran = [r \in Requests |-> <<>>] /\ asked = {} /\ told = [r \in Requests |-> "none"]
    BY DEF Init, Rpc!Init
  <2> QED BY <2>1, <2>2 DEF Init, RestTypes, Places
<1>2. ASSUME NEW r \in Requests PROVE RequestOK(r)
  <2>1. /\ pc[r] = "negotiate" /\ owner[r] = None /\ status[r] = None
        /\ ran[r] = <<>> /\ asked = {}
    BY DEF Init, Rpc!Init
  <2>2. TenantOK(r) /\ MessageOK(r)
    BY <2>1 DEF TenantOK, MessageOK
  <2>3. RushOK(r)
    BY <2>1 DEF RushOK
  <2>4. StatusOK(r)
    BY <2>1, NoneIsApart DEF StatusOK
  <2> QED BY <2>2, <2>3, <2>4 DEF RequestOK
<1> QED BY <1>1, <1>2 DEF RestInv

LEMMA NegotiateKeeps ==
  ASSUME RestInv, NEW r \in Requests, Negotiate(r)
  PROVE  RestInv'
<1> USE DEF RestInv, config, engineVars
<1>1. /\ pc[r] = "negotiate"
      /\ UNCHANGED <<input, tenant, context, action, message, asked, told, ran, result, owner>>
      /\ \/ path' = [path EXCEPT ![r] = Tail(@)] \/ path' = path
      /\ \/ GoTo(r, "authenticate")
         \/ Respond(r, 300, Versions)
  BY DEF Negotiate
<1>2. r \notin asked
  BY <1>1 DEF RequestOK, MessageOK
<1>3. RestTypes'
  BY <1>1 DEF RestTypes, GoTo, Respond, Places, Codes
<1>4. Spares(r)
  BY <1>1 DEF Spares, GoTo, Respond, RestTypes
<1>5. RequestOK(r)'
  BY <1>1, <1>2, NoneIsApart DEF RequestOK, TenantOK, MessageOK, RushOK, StatusOK, GoTo,
     Respond, RestTypes
<1> QED BY <1>3, <1>4, <1>5, StepKeeps

LEMMA AuthPasswordKeeps ==
  ASSUME RestInv, NEW r \in Requests, AuthPassword(r)
  PROVE  RestInv'
<1> USE DEF RestInv, config, engineVars
<1>1. /\ pc[r] = "authenticate"
      /\ UNCHANGED <<input, path, context, action, message, asked, told, ran, result, owner>>
      /\ \/ /\ Head(path[r]) \in MemberOf[UserOf(r)]
            /\ tenant' = [tenant EXCEPT ![r] = Head(path[r])]
            /\ GoTo(r, "context")
         \/ Respond(r, 401, "error") /\ UNCHANGED tenant
         \/ Respond(r, 500, "error") /\ UNCHANGED tenant
  BY DEF AuthPassword
<1>2. r \notin asked
  BY <1>1 DEF RequestOK, MessageOK
<1>3. RestTypes'
  BY <1>1 DEF RestTypes, GoTo, Respond, Places, Codes
<1>4. Spares(r)
  BY <1>1 DEF Spares, GoTo, Respond, RestTypes
<1>5. RequestOK(r)'
  BY <1>1, <1>2, NoneIsApart DEF RequestOK, TenantOK, MessageOK, RushOK, StatusOK, GoTo,
     Respond, RestTypes, UserOf
<1> QED BY <1>3, <1>4, <1>5, StepKeeps

LEMMA AuthTokenKeeps ==
  ASSUME RestInv, NEW r \in Requests, AuthToken(r)
  PROVE  RestInv'
<1> USE DEF RestInv, config, engineVars
<1>1. /\ pc[r] = "authenticate"
      /\ UNCHANGED <<input, path, context, action, message, asked, told, ran, result, owner>>
      /\ \/ /\ input[r].token \in MemberOf[UserOf(r)]
            /\ tenant' = [tenant EXCEPT ![r] = input[r].token]
            /\ GoTo(r, "context")
         \/ Respond(r, 401, "error") /\ UNCHANGED tenant
         \/ Respond(r, 503, "error") /\ UNCHANGED tenant
  BY DEF AuthToken
<1>2. r \notin asked
  BY <1>1 DEF RequestOK, MessageOK
<1>3. RestTypes'
  BY <1>1 DEF RestTypes, GoTo, Respond, Places, Codes
<1>4. Spares(r)
  BY <1>1 DEF Spares, GoTo, Respond, RestTypes
<1>5. RequestOK(r)'
  BY <1>1, <1>2, NoneIsApart DEF RequestOK, TenantOK, MessageOK, RushOK, StatusOK, GoTo,
     Respond, RestTypes, UserOf
<1> QED BY <1>3, <1>4, <1>5, StepKeeps

LEMMA MakeContextKeeps ==
  ASSUME RestInv, NEW r \in Requests, MakeContext(r)
  PROVE  RestInv'
<1> USE DEF RestInv, config, engineVars
<1>1. /\ pc[r] = "context"
      /\ context' = [context EXCEPT ![r] = tenant[r]]
      /\ GoTo(r, "resource")
      /\ UNCHANGED <<input, path, tenant, action, message, asked, told, ran, result, owner>>
  BY DEF MakeContext
<1>2. r \notin asked /\ ran[r] = <<>> /\ owner[r] = None
  BY <1>1 DEF RequestOK, MessageOK, RushOK
<1>3. RestTypes'
  BY <1>1 DEF RestTypes, GoTo, Places
<1>4. Spares(r)
  BY <1>1, <1>2 DEF Spares, GoTo, RestTypes
<1>5. RequestOK(r)'
  <2>1. TenantOK(r)'
    BY <1>1, <1>2 DEF RequestOK, TenantOK, GoTo, RestTypes, UserOf
  <2>2. MessageOK(r)' /\ RushOK(r)'
    BY <1>1, <1>2 DEF MessageOK, RushOK, GoTo, RestTypes
  <2>3. StatusOK(r)'
    BY <1>1, <1>2 DEF RequestOK, StatusOK, GoTo, RestTypes
  <2> QED BY <2>1, <2>2, <2>3 DEF RequestOK
<1> QED BY <1>3, <1>4, <1>5, StepKeeps

\* A request is refused, or asked of the engines as one of four methods.
LEMMA ResourceKeeps ==
  ASSUME RestInv, NEW r \in Requests, Resource(r)
  PROVE  RestInv'
<1> USE DEF RestInv, config
<1>1. /\ pc[r] = "resource"
      /\ UNCHANGED <<input, path, tenant, context, result, owner>>
  BY DEF Resource
<1>2. /\ r \notin asked /\ ran[r] = <<>> /\ owner[r] = None
      /\ status[r] = None /\ context[r] \in MemberOf[UserOf(r)]
  BY <1>1 DEF RequestOK, MessageOK, RushOK, StatusOK, TenantOK
<1>3. CASE /\ \E code \in {400, 401, 404, 500} : Respond(r, code, "error")
           /\ UNCHANGED <<message, asked, ran, told>>
           /\ action' = action \/ \E name : action' = [action EXCEPT ![r] = name]
  <2>1. RestTypes'
    BY <1>1, <1>3 DEF RestTypes, Respond, Places, Codes
  <2>2. Spares(r)
    BY <1>1, <1>3 DEF Spares, Respond, RestTypes
  <2>3. RequestOK(r)'
    BY <1>1, <1>2, <1>3, NoneIsApart DEF RequestOK, TenantOK, MessageOK, RushOK, StatusOK,
       Respond, RestTypes
  <2> QED BY <2>1, <2>2, <2>3, StepKeeps
<1>4. ASSUME NEW name \in EngineRoutes,
             action' = [action EXCEPT ![r] = name],
             GoTo(r, "call"),
             message' = [message EXCEPT ![r] = RequestTo(r, name)],
             Rpc!Ask(r)
      PROVE  RestInv'
  <2>1. asked' = asked \cup {r} /\ UNCHANGED <<ran, told>>
    BY <1>4 DEF Rpc!Ask
  <2>2. RestTypes'
    BY <1>1, <1>4, <2>1 DEF RestTypes, GoTo, Places
  <2>3. Spares(r)
    BY <1>1, <1>4, <2>1 DEF Spares, GoTo, RestTypes
  <2>4. RequestOK(r)'
    <3>1. TenantOK(r)'
      BY <1>1, <1>2, <1>4, <2>1 DEF TenantOK, GoTo, RestTypes, UserOf
    <3>2. MessageOK(r)'
      <4>1. RequestTo(r, name)' = RequestTo(r, name)
        BY <1>1 DEF RequestTo
      <4>2. pc'[r] = "call" /\ action'[r] = name /\ message'[r] = RequestTo(r, name)
        BY <1>4 DEF GoTo, RestTypes
      <4> QED BY <1>2, <2>1, <4>1, <4>2 DEF MessageOK
    <3>3. RushOK(r)'
      <4>1. owner'[r] = None /\ ran'[r] = <<>>
        BY <1>1, <1>2, <2>1
      <4>2. ran'[r] # <<"ok">>
        BY <4>1
      <4> QED BY <4>1, <4>2 DEF RushOK
    <3>4. StatusOK(r)'
      BY <1>2, <1>4, NoneIsApart DEF StatusOK, GoTo, RestTypes
    <3> QED BY <3>1, <3>2, <3>3, <3>4 DEF RequestOK
  <2> QED BY <2>2, <2>3, <2>4, StepKeeps
<1>5. CASE Matching(r) = {} /\ Respond(r, 404, "error") /\ NotSent /\ UNCHANGED action
  BY <1>3, <1>5 DEF NotSent
<1>6. ASSUME NEW i \in Matching(r),
             LET name == Routes[i].action
                 fails == IF Unparsable(r) THEN 400 ELSE HandlerFails(r, name)
             IN  /\ \A j \in Matching(r) : i <= j
                 /\ action' = [action EXCEPT ![r] = name]
                 /\ IF fails # None THEN Respond(r, fails, "error") /\ NotSent
                    ELSE /\ GoTo(r, "call")
                         /\ message' = [message EXCEPT ![r] = RequestTo(r, name)]
                         /\ Rpc!Ask(r)
      PROVE  RestInv'
  <2> DEFINE name == Routes[i].action
             fails == IF Unparsable(r) THEN 400 ELSE HandlerFails(r, name)
  <2>1. name \in EngineRoutes \cup {"get_rush"}
    <3>1. i \in 1 .. 5
      BY DEF Matching, Routes
    <3> QED BY <3>1 DEF Routes, Route, EngineRoutes
  <2>2. fails \in {400, 401, 500, None} /\ (fails = None => name # "get_rush")
    BY NoneIsApart DEF HandlerFails
  <2>3. /\ action' = [action EXCEPT ![r] = name]
        /\ IF fails # None THEN Respond(r, fails, "error") /\ NotSent
           ELSE /\ GoTo(r, "call")
                /\ message' = [message EXCEPT ![r] = RequestTo(r, name)]
                /\ Rpc!Ask(r)
    BY <1>6
  <2> HIDE DEF name, fails
  <2>4. CASE fails # None
    <3>1. \E code \in {400, 401, 404, 500} : Respond(r, code, "error")
      BY <2>2, <2>3, <2>4
    <3> QED BY <1>3, <2>3, <2>4, <3>1 DEF NotSent
  <2>5. CASE fails = None
    <3>1. name \in EngineRoutes
      BY <2>1, <2>2, <2>5
    <3> QED BY <1>4, <2>3, <2>5, <3>1
  <2> QED BY <2>4, <2>5
<1> QED BY <1>5, <1>6 DEF Resource
-----------------------------------------------------------------------------
\* A rush is made for the tenant t, or one of t's is removed, or none changes.
ForTenant(r, t) ==
    \/ UNCHANGED owner
    \/ owner' = [owner EXCEPT ![r] = t]
    \/ \E i \in Requests : owner[i] = t /\ owner' = [owner EXCEPT ![i] = None]

\* What an engine that takes up a request may do.
LEMMA EngineOutcome ==
  ASSUME RestInv, NEW r \in Requests, EngineRuns(r)
  PROVE  /\ r \in asked /\ ran[r] = <<>>
         /\ context[r] \in MemberOf[UserOf(r)] /\ context[r] # None
         /\ \/ ran' = [ran EXCEPT ![r] = <<"ok">>]
            \/ ran' = [ran EXCEPT ![r] = <<"raised">>]
         /\ \E what : result' = [result EXCEPT ![r] = what]
         /\ ForTenant(r, context[r])
         /\ action[r] = "get_list" /\ ran' = [ran EXCEPT ![r] = <<"ok">>] =>
               \E what \in {Yes({i \in Requests : owner[i] = context[r]}), No} :
                  result' = [result EXCEPT ![r] = what]
<1> USE DEF RestInv
<1> DEFINE t   == context[r]
           msg == DeserializeMsg(message[r])
<1>1. r \in asked /\ ran[r] = <<>> /\ Dispatch(r, msg)
  BY DEF EngineRuns, Rpc!Run
<1>2. t \in MemberOf[UserOf(r)] /\ t # None
  BY <1>1, RestAssumption DEF RequestOK, TenantOK, UserOf, RestTypes
<1>3. /\ action[r] \in EngineRoutes
      /\ msg.method = EngineMethod(action[r]) /\ msg.args.tenant_id = t
  <2>1. action[r] \in EngineRoutes /\ message[r] = RequestTo(r, action[r])
    BY <1>1 DEF RequestOK, MessageOK
  <2>2. DeserializeMsg(RequestTo(r, action[r])).method = EngineMethod(action[r])
    BY DEF RequestTo, DeserializeMsg, SerializeMsg, MakeMsg
  <2>3. DeserializeMsg(RequestTo(r, action[r])).args.tenant_id = context[r]
    BY DEF RequestTo, DeserializeMsg, SerializeMsg, MakeMsg
  <2> QED BY <2>1, <2>2, <2>3
<1>4. /\ action[r] = "get_list" => msg.method = "get_list"
      /\ msg.method \in {"echo", "get_list", "start_rush_stack", "stop_rush_stack"}
  BY <1>3 DEF EngineMethod, EngineRoutes
<1> HIDE DEF msg, t
<1>5. ASSUME NEW f, RaisesWith(r, f)
      PROVE  /\ ran' = [ran EXCEPT ![r] = <<"raised">>]
             /\ \E what : result' = [result EXCEPT ![r] = what]
             /\ UNCHANGED owner
  BY <1>5 DEF RaisesWith
<1>6. ASSUME NEW w, Returns(r, w)
      PROVE  /\ ran' = [ran EXCEPT ![r] = <<"ok">>]
             /\ result' = [result EXCEPT ![r] = w]
  BY <1>6 DEF Returns
<1>7. ran' = [ran EXCEPT ![r] = <<"raised">>] => ran' # [ran EXCEPT ![r] = <<"ok">>]
  <2>1. r \in DOMAIN ran
    BY DEF RestTypes
  <2>2. <<"raised">> # <<"ok">>
    OBVIOUS
  <2> QED BY <2>1, <2>2
<1>8. CASE \E f : RaisesWith(r, f)
  BY <1>1, <1>2, <1>5, <1>7, <1>8 DEF ForTenant, t
<1>9. CASE msg.method = "echo" /\ Returns(r, Yes("echo")) /\ UNCHANGED owner
  BY <1>1, <1>2, <1>4, <1>6, <1>9 DEF ForTenant, t
<1>10. CASE GetList(r, t)
  BY <1>1, <1>2, <1>6, <1>10 DEF ForTenant, GetList, t
<1>11. CASE msg.method = "start_rush_stack" /\ StartRushStack(r, t)
  BY <1>1, <1>2, <1>4, <1>6, <1>11 DEF ForTenant, StartRushStack, t
<1>12. CASE /\ msg.method = "stop_rush_stack"
            /\ StopRushStack(r, t, msg.args.rush_id)
            /\ ~ \E f : RaisesWith(r, f)
  BY <1>1, <1>2, <1>4, <1>6, <1>12 DEF ForTenant, StopRushStack, t
<1> QED BY <1>1, <1>3, <1>4, <1>8, <1>9, <1>10, <1>11, <1>12 DEF Dispatch

LEMMA EngineRunsKeeps ==
  ASSUME RestInv, NEW r \in Requests, EngineRuns(r)
  PROVE  RestInv'
<1> USE DEF RestInv, config
<1>1. UNCHANGED <<input, pc, path, tenant, context, action, message, asked, status, body, told>>
  BY DEF EngineRuns, Rpc!Run
<1>2. /\ r \in asked /\ ran[r] = <<>> /\ context[r] # None
      /\ \E what : result' = [result EXCEPT ![r] = what]
      /\ ForTenant(r, context[r])
  BY EngineOutcome
<1>3. PICK how \in {"ok", "raised"} : ran' = [ran EXCEPT ![r] = <<how>>]
  BY EngineOutcome
<1>4. ran'[r] = <<how>> /\ ran'[r] # <<>>
  BY <1>3 DEF RestTypes
<1>5. RestTypes'
  BY <1>1, <1>2, <1>3 DEF RestTypes, ForTenant
<1>6. Spares(r)
  BY <1>1, <1>2, <1>3 DEF Spares, RestTypes, ForTenant
<1>7. TenantOK(r)' /\ MessageOK(r)'
  <2>1. TenantOK(r)'
    BY <1>1 DEF RequestOK, TenantOK, UserOf
  <2>2. MessageOK(r)'
    <3>1. \A name : RequestTo(r, name)' = RequestTo(r, name)
      BY <1>1 DEF RequestTo
    <3> QED BY <1>1, <1>2, <3>1 DEF RequestOK, MessageOK
  <2> QED BY <2>1, <2>2
<1>8. RushOK(r)'
  <2>1. owner[r] = None
    BY <1>2 DEF RequestOK, RushOK
  <2>2. owner'[r] # None => ran'[r] # <<>> /\ owner'[r] = context'[r]
    BY <1>1, <1>2, <1>4, <2>1 DEF ForTenant, RestTypes
  <2>3. ASSUME action'[r] = "get_list", ran'[r] = <<"ok">>, result'[r].result,
               NEW i \in result'[r].of
        PROVE  i \in asked' /\ context'[i] = context'[r]
    <3>1. how = "ok"
      BY <1>4, <2>3
    <3>2. PICK what \in {Yes({j \in Requests : owner[j] = context[r]}), No} :
             result' = [result EXCEPT ![r] = what]
      BY <1>1, <1>3, <2>3, <3>1, EngineOutcome
    <3>3. result'[r] = what
      BY <3>2 DEF RestTypes
    <3>4. what.result /\ i \in what.of
      BY <2>3, <3>3
    <3>5. what = Yes({j \in Requests : owner[j] = context[r]})
      BY <3>2, <3>4 DEF No
    <3>6. i \in Requests /\ owner[i] = context[r]
      BY <3>4, <3>5 DEF Yes
    <3>7. i \in asked /\ context[i] = context[r]
      BY <1>2, <3>6 DEF RequestOK, RushOK, MessageOK
    <3> QED BY <1>1, <3>7
  <2> QED BY <2>2, <2>3 DEF RushOK
<1>9. StatusOK(r)'
  <2>1. ran[r] # <<"ok">> /\ ran[r] # <<"raised">>
    BY <1>2
  <2>2. status[r] \notin {200, 300, 400, 401, 404}
    BY <1>2, <2>1 DEF RequestOK, StatusOK
  <2>3. pc[r] = "done" <=> status[r] # None
    BY DEF RequestOK, StatusOK
  <2> QED BY <1>1, <2>2, <2>3 DEF StatusOK
<1> QED BY <1>5, <1>6, <1>7, <1>8, <1>9, StepKeeps DEF RequestOK

\* The answer to a call is what came of it, or that nothing is known.
LEMMA RemoteTypeError ==
  ASSUME NEW f, DeserializeRemoteException(f) = BuiltIn("TypeError")
  PROVE  f = BuiltIn("TypeError")
BY DEF DeserializeRemoteException, BuiltIn, OfRpc

LEMMA HearKeeps ==
  ASSUME RestInv, NEW r \in Requests, HearResult(r) \/ HearFailure(r) \/ HearNothing(r)
  PROVE  RestInv'
<1> USE DEF RestInv, config
<1> DEFINE Heard(code, what) ==
        /\ pc[r] = "call" /\ Respond(r, code, what)
        /\ code = 200 => ran[r] = <<"ok">> /\ what = result[r]
        /\ code = 400 => ran[r] = <<"raised">> /\ result[r] = BuiltIn("TypeError")
        /\ DOMAIN told' = Requests
        /\ UNCHANGED <<input, path, tenant, context, action, message, asked, ran, result, owner>>
<1>0. \E code \in {200, 400, 500}, what \in {result[r], "error"} : Heard(code, what)
  <2>1. CASE HearResult(r)
    <3>1. Heard(200, result[r])
      BY <2>1 DEF HearResult, Tell, Rpc!Tell, RestTypes
    <3> QED BY <3>1
  <2>2. CASE HearFailure(r)
    <3>1. /\ pc[r] = "call" /\ ran[r] = <<"raised">> /\ DOMAIN told' = Requests
          /\ UNCHANGED <<input, path, tenant, context, action, message, asked, ran, result, owner>>
      BY <2>2 DEF HearFailure, Tell, Rpc!Tell, RestTypes
    <3>2. \/ Respond(r, 400, "error") /\ result[r] = BuiltIn("TypeError")
          \/ Respond(r, 500, "error")
      BY <2>2, RemoteTypeError DEF HearFailure
    <3>3. Heard(400, "error") \/ Heard(500, "error")
      BY <3>1, <3>2
    <3> QED BY <3>3
  <2>3. CASE HearNothing(r)
    <3>1. Heard(500, "error")
      BY <2>3 DEF HearNothing, Tell, Rpc!Tell, RestTypes
    <3> QED BY <3>1
  <2> QED BY <2>1, <2>2, <2>3
<1>1. PICK code \in {200, 400, 500}, what \in {result[r], "error"} : Heard(code, what)
  BY <1>0
<1>2. r \in asked
  BY <1>1 DEF RequestOK, MessageOK
<1>3. RestTypes'
  BY <1>1 DEF RestTypes, Respond, Places, Codes
<1>4. Spares(r)
  BY <1>1 DEF Spares, Respond, RestTypes
<1>5. pc'[r] = "done" /\ status'[r] = code /\ body'[r] = what
  BY <1>1 DEF Respond, RestTypes
<1>6. TenantOK(r)'
  BY <1>1, <1>5 DEF RequestOK, TenantOK, UserOf
<1>7. MessageOK(r)'
  <2>1. \A name : RequestTo(r, name)' = RequestTo(r, name)
    BY <1>1 DEF RequestTo
  <2> QED BY <1>1, <1>5, <2>1 DEF RequestOK, MessageOK
<1>8. RushOK(r)'
  BY <1>1 DEF RequestOK, RushOK
<1>9. StatusOK(r)'
  BY <1>1, <1>2, <1>5, NoneIsApart DEF StatusOK
<1> QED BY <1>3, <1>4, <1>6, <1>7, <1>8, <1>9, StepKeeps DEF RequestOK

LEMMA RestInvariant == Spec => []RestInv
<1>1. RestInv /\ [Next]_vars => RestInv'
  <2> SUFFICES ASSUME RestInv, [Next]_vars PROVE RestInv'
    OBVIOUS
  <2>1. ASSUME NEW r \in Requests, Serve(r) PROVE RestInv'
    BY <2>1, NegotiateKeeps, AuthPasswordKeeps, AuthTokenKeeps, MakeContextKeeps,
       ResourceKeeps, HearKeeps DEF Serve
  <2>2. ASSUME NEW r \in Requests, EngineRuns(r) PROVE RestInv'
    BY <2>2, EngineRunsKeeps
  <2>3. CASE UNCHANGED vars
    <3>1. /\ input' = input /\ asked' = asked /\ context' = context /\ path' = path
          /\ pc' = pc /\ tenant' = tenant /\ action' = action /\ message' = message
          /\ ran' = ran /\ told' = told /\ result' = result /\ owner' = owner
          /\ status' = status /\ body' = body
      BY <2>3 DEF vars, config, engineVars, answerVars
    <3>2. RestTypes'
      BY <3>1 DEF RestInv, RestTypes
    <3>3. ASSUME NEW r \in Requests PROVE RequestOK(r)'
      <4>1. RequestOK(r)
        BY DEF RestInv
      <4>2. \A name : RequestTo(r, name)' = RequestTo(r, name)
        BY <3>1 DEF RequestTo
      <4> QED BY <3>1, <4>1, <4>2 DEF RequestOK, TenantOK, MessageOK, RushOK, StatusOK, UserOf
    <3> QED BY <3>2, <3>3 DEF RestInv
  <2> QED BY <2>1, <2>2, <2>3 DEF Next
<1> QED BY <1>1, InitRest, PTL DEF Spec

\* What a caller is told is one of the answers of the rpc layer.
ToldType == told \in [Requests -> {"none", "result", "failure", "nothing"}]

LEMMA InitTold == Init => ToldType
BY DEF Init, Rpc!Init, ToldType

LEMMA NextTold == ToldType /\ [Next]_vars => ToldType'
<1> SUFFICES ASSUME ToldType, [Next]_vars PROVE ToldType'
  OBVIOUS
<1>1. ASSUME NEW r \in Requests, HearResult(r) \/ HearFailure(r) \/ HearNothing(r) PROVE ToldType'
  BY <1>1 DEF HearResult, HearFailure, HearNothing, Tell, ToldType
<1>2. \/ UNCHANGED told
      \/ \E r \in Requests : HearResult(r) \/ HearFailure(r) \/ HearNothing(r)
  <2>1. ASSUME NEW r \in Requests, EngineRuns(r) PROVE UNCHANGED told
    BY <2>1 DEF EngineRuns, Rpc!Run
  <2>2. ASSUME NEW r \in Requests, Negotiate(r) \/ AuthPassword(r) \/ AuthToken(r) PROVE UNCHANGED told
    BY <2>2 DEF Negotiate, AuthPassword, AuthToken, answerVars
  <2>3. ASSUME NEW r \in Requests, MakeContext(r) PROVE UNCHANGED told
    BY <2>3 DEF MakeContext, answerVars
  <2>4. ASSUME NEW r \in Requests, Resource(r) PROVE UNCHANGED told
    BY <2>4 DEF Resource, NotSent, Rpc!Ask, answerVars
  <2>5. CASE UNCHANGED vars
    BY <2>5 DEF vars, answerVars
  <2> QED BY <2>1, <2>2, <2>3, <2>4, <2>5 DEF Next, Serve
<1> QED BY <1>1, <1>2 DEF ToldType

\* A request is answered when it is done and not before, it runs at most once,
\* and what an engine is asked is what its route and its context say, for any
\* requests (wsgi.py:569-607, rpc/client.py:41-94, proxy.py:88-130).
THEOREM RestTypeCorrect == Spec => []TypeOK
<1>1. RestInv /\ ToldType => TypeOK
  <2> SUFFICES ASSUME RestInv, ToldType, NEW r \in Requests
               PROVE  /\ Len(ran[r]) <= 1
                      /\ (status[r] # None) = (pc[r] = "done")
                      /\ r \in asked => message[r] = RequestTo(r, action[r])
    BY DEF RestInv, RestTypes, ToldType, TypeOK
  <2>1. ran[r] \in {<<>>, <<"ok">>, <<"raised">>}
    BY DEF RestInv, RestTypes
  <2>2. Len(<<>>) <= 1 /\ Len(<<"ok">>) <= 1 /\ Len(<<"raised">>) <= 1
    OBVIOUS
  <2>3. Len(ran[r]) <= 1
    BY <2>1, <2>2, Zenon
  <2>4. (status[r] # None) = (pc[r] = "done")
    BY DEF RestInv, RequestOK, StatusOK
  <2>5. r \in asked => message[r] = RequestTo(r, action[r])
    BY DEF RestInv, RequestOK, MessageOK
  <2> QED BY <2>3, <2>4, <2>5
<1> QED BY <1>1, RestInvariant, InitTold, NextTold, PTL DEF Spec

\* A 200 is the result of the request's own run, and a 400 for a request that an
\* engine was asked is the engine's TypeError, for any number of requests, with
\* whatever engines and failures (wsgi.py:588-607, rpc/common.py:341-380).
THEOREM AnswersToldTrue == Spec => []AnswersAreTrue
<1>1. RestInv => AnswersAreTrue
  BY DEF RestInv, RequestOK, StatusOK, AnswersAreTrue
<1> QED BY <1>1, RestInvariant, PTL

\* A user is shown the rushes of one tenant, one of his own, whoever starts and
\* stops what for which tenants meanwhile (common/context.py, api/v1/util.py).
THEOREM ListsAreOwn == Spec => []ShowsOwnRushes
<1>1. RestInv => ShowsOwnRushes
  BY DEF RestInv, RequestOK, StatusOK, RushOK, TenantOK, ShowsOwnRushes
<1> QED BY <1>1, RestInvariant, PTL
-----------------------------------------------------------------------------
\* A step of the API goes on with a request or answers it, and changes nothing
\* the engines have done.
LEMMA ServeShape ==
  ASSUME NEW r \in Requests, Serve(r), RestInv
  PROVE  /\ UNCHANGED <<input, ran, owner>>
         /\ pc[r] # "done"
         /\ \/ UNCHANGED status
            \/ \E code \in Codes : status' = [status EXCEPT ![r] = code]
<1> USE DEF GoTo, Respond, config, engineVars, Codes
<1>1. CASE Negotiate(r)
  BY <1>1 DEF Negotiate
<1>2. CASE AuthPassword(r)
  <2>1. pc[r] = "authenticate" /\ UNCHANGED <<input, ran, owner>>
    BY <1>2 DEF AuthPassword
  <2>2. \/ GoTo(r, "context") \/ Respond(r, 401, "error") \/ Respond(r, 500, "error")
    <3> USE <1>2 DEF AuthPassword
    <3>1. CASE path[r] = <<>>
      BY <3>1
    <3>2. CASE path[r] # <<>>
      BY <3>2
    <3> QED BY <3>1, <3>2
  <2> QED BY <2>1, <2>2
<1>3. CASE AuthToken(r)
  BY <1>3 DEF AuthToken
<1>4. CASE MakeContext(r)
  BY <1>4 DEF MakeContext
<1>5. CASE Resource(r)
  <2>1. pc[r] = "resource" /\ UNCHANGED <<input, owner>> /\ UNCHANGED ran
    BY <1>5 DEF Resource, NotSent, Rpc!Ask
  <2>2. CASE Respond(r, 404, "error")
    BY <2>1, <2>2
  <2>3. ASSUME NEW i \in Matching(r), NEW fails,
               fails = (IF Unparsable(r) THEN 400 ELSE HandlerFails(r, Routes[i].action)),
               IF fails # None THEN Respond(r, fails, "error") ELSE GoTo(r, "call")
        PROVE  UNCHANGED status \/ \E code \in Codes : status' = [status EXCEPT ![r] = code]
    <3>1. fails \in {400, 401, 500, None}
      BY <2>3 DEF HandlerFails
    <3> QED BY <2>3, <3>1
  <2>4. \/ Respond(r, 404, "error")
        \/ \E i \in Matching(r) :
              LET fails == IF Unparsable(r) THEN 400 ELSE HandlerFails(r, Routes[i].action)
              IN  IF fails # None THEN Respond(r, fails, "error") ELSE GoTo(r, "call")
    BY <1>5 DEF Resource
  <2> QED BY <2>1, <2>2, <2>3, <2>4
<1>6. CASE HearResult(r)
  BY <1>6 DEF HearResult, Tell, Rpc!Tell
<1>7. CASE HearFailure(r)
  <2>1. pc[r] = "call" /\ UNCHANGED <<input, ran, owner>>
    BY <1>7 DEF HearFailure, Tell, Rpc!Tell
  <2>2. Respond(r, 400, "error") \/ Respond(r, 500, "error")
    BY <1>7 DEF HearFailure
  <2> QED BY <2>1, <2>2
<1>8. CASE HearNothing(r)
  BY <1>8 DEF HearNothing, Tell, Rpc!Tell
<1> QED BY <1>1, <1>2, <1>3, <1>4, <1>5, <1>6, <1>7, <1>8 DEF Serve

Mapped == <<[r \in Requests |-> UserOf(r)], owner, {r \in Requests : ran[r] # <<>>},
            [r \in Requests |-> Said(r)]>>

LEMMA ServeRefines ==
  ASSUME RestInv, RestInv', NEW r \in Requests, Serve(r)
  PROVE  Promise!Answer(r) \/ UNCHANGED Mapped
<1>1. UNCHANGED <<input, ran, owner>> /\ pc[r] # "done"
  BY ServeShape
<1>2. /\ [q \in Requests |-> UserOf(q)]' = [q \in Requests |-> UserOf(q)]
      /\ {q \in Requests : ran[q] # <<>>}' = {q \in Requests : ran[q] # <<>>}
  BY <1>1 DEF UserOf
<1>3. CASE UNCHANGED status
  BY <1>1, <1>2, <1>3 DEF Mapped, Said
<1>4. ASSUME NEW code \in Codes, status' = [status EXCEPT ![r] = code]
      PROVE  Promise!Answer(r)
  <2>1. Said(r) = None
    <3>1. status[r] = None
      BY <1>1 DEF RestInv, RequestOK, StatusOK
    <3> QED BY <3>1, NoneIsApart DEF Said
  <2>2. status'[r] = code /\ \A q \in Requests \ {r} : status'[q] = status[q]
    BY <1>4 DEF RestInv, RestTypes
  <2>3. Said(r)' \in {"result", "refused", "error"}
    BY <2>2, NoneIsApart DEF Said, Codes
  <2>4. Said(r)' = "result" => ran[r] # <<>>
    <3>1. Said(r)' = "result" => status'[r] = 200
      BY <2>2, NoneIsApart DEF Said, Codes
    <3>2. status'[r] = 200 => ran'[r] = <<"ok">>
      BY DEF RestInv, RequestOK, StatusOK
    <3>3. <<"ok">> # <<>>
      OBVIOUS
    <3> QED BY <1>1, <3>1, <3>2, <3>3
  <2>5. Said(r)' = "refused" => ran[r] = <<>>
    <3>1. Said(r)' = "refused" => status'[r] \in {300, 401, 404}
      BY <2>2, NoneIsApart DEF Said, Codes
    <3>2. status'[r] \in {300, 401, 404} => ran'[r] = <<>>
      BY DEF RestInv, RequestOK, StatusOK, MessageOK
    <3> QED BY <1>1, <3>1, <3>2
  <2>6. [q \in Requests |-> Said(q)]' = [[q \in Requests |-> Said(q)] EXCEPT ![r] = Said(r)']
    <3>1. \A q \in Requests \ {r} : Said(q)' = Said(q)
      BY <2>2 DEF Said
    <3> QED BY <3>1
  <2> QED
    BY <1>1, <1>2, <2>1, <2>3, <2>4, <2>5, <2>6 DEF Promise!Answer, Promise!Answers
<1> QED BY <1>3, <1>4, ServeShape

LEMMA EngineRefines ==
  ASSUME RestInv, NEW r \in Requests, EngineRuns(r)
  PROVE  Promise!CarryOut(r)
<1> DEFINE t == context[r]
<1>1. UNCHANGED <<input, status>>
  BY DEF EngineRuns, config
<1>2. /\ r \in asked /\ ran[r] = <<>> /\ t \in MemberOf[UserOf(r)] /\ ForTenant(r, t)
  BY EngineOutcome
<1>3. PICK how \in {"ok", "raised"} : ran' = [ran EXCEPT ![r] = <<how>>]
  BY EngineOutcome
<1>4. {q \in Requests : ran[q] # <<>>}' = {q \in Requests : ran[q] # <<>>} \cup {r}
  <2>1. ran'[r] = <<how>> /\ \A q \in Requests \ {r} : ran'[q] = ran[q]
    BY <1>3 DEF RestInv, RestTypes
  <2>2. ran'[r] # <<>>
    BY <2>1
  <2> QED BY <2>1, <2>2
<1>5. /\ [q \in Requests |-> UserOf(q)]' = [q \in Requests |-> UserOf(q)]
      /\ [q \in Requests |-> Said(q)]' = [q \in Requests |-> Said(q)]
  BY <1>1 DEF UserOf, Said
<1>6. Said(r) # "refused"
  <2>1. status[r] \notin {300, 401, 404}
    BY <1>2 DEF RestInv, RequestOK, StatusOK
  <2> QED BY <2>1, NoneIsApart DEF Said
<1>7. owner[r] = None
  BY <1>2 DEF RestInv, RequestOK, RushOK
<1>8. \/ UNCHANGED owner
      \/ \E u \in MemberOf[UserOf(r)] :
            \/ owner[r] = None /\ owner' = [owner EXCEPT ![r] = u]
            \/ \E i \in Requests : owner[i] = u /\ owner' = [owner EXCEPT ![i] = None]
  BY <1>2, <1>7 DEF ForTenant
<1> QED BY <1>2, <1>4, <1>5, <1>6, <1>8 DEF Promise!CarryOut

\* The API keeps the safety part of RestPromise, for any requests, users and
\* engines: each request is carried out at most once, for a tenant of its user's
\* and no other; one that was refused never is, and one that succeeded was.
THEOREM RestKeepsSafety == Spec => Promise!Safety
<1>1. Init => Promise!Init
  <2> SUFFICES ASSUME Init PROVE Promise!Init
    OBVIOUS
  <2>1. RestInv
    BY InitRest
  <2>2. [r \in Requests |-> UserOf(r)] \in [Requests -> Users]
    BY <2>1 DEF RestInv, RestTypes, UserOf
  <2>3. \A r \in Requests : status[r] = None /\ ran[r] = <<>>
    BY DEF Init, Rpc!Init
  <2>4. \A r \in Requests : Said(r) = None
    BY <2>3, NoneIsApart DEF Said
  <2>5. owner = [r \in Requests |-> None]
    BY DEF Init
  <2> QED BY <2>2, <2>3, <2>4, <2>5 DEF Promise!Init
<1>2. RestInv /\ RestInv' /\ [Next]_vars => [Promise!Next]_Mapped
  <2> SUFFICES ASSUME RestInv, RestInv', [Next]_vars PROVE [Promise!Next]_Mapped
    OBVIOUS
  <2>1. ASSUME NEW r \in Requests, Serve(r) PROVE [Promise!Next]_Mapped
    BY <2>1, ServeRefines DEF Promise!Next
  <2>2. ASSUME NEW r \in Requests, EngineRuns(r) PROVE [Promise!Next]_Mapped
    BY <2>2, EngineRefines DEF Promise!Next
  <2>3. CASE UNCHANGED vars
    BY <2>3 DEF vars, config, engineVars, answerVars, Mapped, UserOf, Said
  <2> QED BY <2>1, <2>2, <2>3 DEF Next
<1>3. Spec => [][Promise!Next]_Mapped
  BY <1>2, RestInvariant, PTL DEF Spec
<1> QED BY <1>1, <1>3, PTL DEF Spec, Promise!Safety, Mapped
=============================================================================
