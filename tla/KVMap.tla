-------------------------------- MODULE KVMap --------------------------------
(***************************************************************************)
(* What KVStore promises its callers (spec.md 4.D): a map from keys to     *)
(* values.  A client calls Put(key, value) or Delete(key); the call either *)
(* takes effect at one instant and returns nil, or returns an error and    *)
(* leaves the map as it was.  Get is not a step here: it reads the map.    *)
(***************************************************************************)
CONSTANTS Keys, Vals, NotFound, Clients

VARIABLES
    store,     \* key -> value, NotFound for a key that is absent
    pending    \* client -> the set holding its call in progress, {} if none

Requests == [op : {"put"}, key : Keys, val : Vals]
             \cup [op : {"delete"}, key : Keys, val : {NotFound}]

\* The map after a call takes effect.
Apply(m, r) == [m EXCEPT ![r.key] = IF r.op = "put" THEN r.val ELSE NotFound]

Init ==
    /\ store = [k \in Keys |-> NotFound]
    /\ pending = [c \in Clients |-> {}]

Call(c) ==
    /\ pending[c] = {}
    /\ \E r \in Requests : pending' = [pending EXCEPT ![c] = {r}]
    /\ UNCHANGED store

\* The call takes effect and returns nil.
Commit(c) ==
    /\ \E r \in pending[c] : store' = Apply(store, r)
    /\ pending' = [pending EXCEPT ![c] = {}]

\* The call returns an error without effect.
Abort(c) ==
    /\ pending[c] # {}
    /\ pending' = [pending EXCEPT ![c] = {}]
    /\ UNCHANGED store

Next == \E c \in Clients : Call(c) \/ Commit(c) \/ Abort(c)

Spec == Init /\ [][Next]_<<store, pending>>
=============================================================================
