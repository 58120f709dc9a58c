------------------------------ MODULE RestPromise ------------------------------
(***************************************************************************)
(* What the REST API promises: a request is carried out at most once, for  *)
(* a tenant its user is a member of and for no other, and an answer that   *)
(* says it was carried out, or that it was refused, is right.  A server    *)
(* error says nothing.  Every request is answered in the end.              *)
(***************************************************************************)
CONSTANTS Requests, Users, MemberOf, None

VARIABLES
    user,     \* whose request each is
    owner,    \* the tenant the rush made by each request is listed for
    carried,  \* the requests an engine has carried out
    said      \* what each request was answered

Answers == {"result", "refused", "error"}

Init ==
    /\ user \in [Requests -> Users]
    /\ owner = [r \in Requests |-> None]
    /\ carried = {}
    /\ said = [r \in Requests |-> None]

\* A rush is made or removed for its user's tenant, or nothing changes.
CarryOut(r) ==
    /\ r \notin carried /\ said[r] # "refused"
    /\ carried' = carried \cup {r}
    /\ \/ UNCHANGED owner
       \/ \E t \in MemberOf[user[r]] :
             \/ owner[r] = None /\ owner' = [owner EXCEPT ![r] = t]
             \/ \E i \in Requests : /\ owner[i] = t
                                    /\ owner' = [owner EXCEPT ![i] = None]
    /\ UNCHANGED <<user, said>>

Answer(r) ==
    /\ said[r] = None
    /\ \E a \in Answers :
          /\ a = "result" => r \in carried
          /\ a = "refused" => r \notin carried
          /\ said' = [said EXCEPT ![r] = a]
    /\ UNCHANGED <<user, owner, carried>>

Next == \E r \in Requests : CarryOut(r) \/ Answer(r)

\* Every request is answered, also when nobody carries it out.
AllAnswered == \A r \in Requests : <>(said[r] # None)

Safety == Init /\ [][Next]_<<user, owner, carried, said>>

Spec == Safety /\ AllAnswered
=============================================================================
