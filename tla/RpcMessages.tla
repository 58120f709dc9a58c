------------------------------ MODULE RpcMessages ------------------------------
(***************************************************************************)
(* What travels between RpcProxy and RpcDispatcher: a message with the     *)
(* version of the API it asks for and the caller's context, in an          *)
(* envelope; and, on the way back, an exception that becomes one of the    *)
(* caller's process.  A version is a pair <<major, minor>>.                *)
(***************************************************************************)
EXTENDS Naturals, Sequences, SequencesExt

CONSTANTS
    None,
    AllowedModules,     \* conf.allowed_rpc_exception_modules
    Importable          \* the classes this process can import and construct

VersionIsCompatible(imp, version) ==
    /\ version[1] = imp[1]
    /\ version[2] <= imp[2]

EnvelopeVersion == <<2, 0>>
SerializeMsg(rawMsg) == [version |-> EnvelopeVersion, message |-> rawMsg]

\* A message in an envelope of a version this process does not know is lost.
Readable(msg) == VersionIsCompatible(EnvelopeVersion, msg.version)
DeserializeMsg(msg) == msg.message

MakeMsg(method, args, version, context) ==
    [method |-> method, namespace |-> None, args |-> args, version |-> version,
     context |-> context]

(* The dispatcher: callbacks, in order, each with a namespace, the version of
   its API and its methods. *)

Compatible(callback, msg) ==
    /\ callback.namespace = msg.namespace
    /\ VersionIsCompatible(callback.version,
                           IF msg.version = None THEN <<1, 0>> ELSE msg.version)

Chosen(callbacks, msg) ==
    SelectSeq(callbacks, LAMBDA c : Compatible(c, msg) /\ msg.method \in c.methods)

BuiltIn(class) == [module |-> "exceptions", class |-> class]
OfRpc(class)   == [module |-> "rpc.common", class |-> class]

NotDispatched(callbacks, msg) ==
    IF \E c \in Range(callbacks) : Compatible(c, msg)
    THEN BuiltIn("AttributeError") ELSE OfRpc("UnsupportedRpcVersion")

\* The reply names the class and its module; the caller builds the same
\* exception if it may and can, and a RemoteError otherwise.
DeserializeRemoteException(failure) ==
    IF failure.module \in AllowedModules /\ failure.class \in Importable
    THEN failure ELSE OfRpc("RemoteError")
=============================================================================
