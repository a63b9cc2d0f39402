--------------------------- MODULE StreamDirectory ---------------------------
(***************************************************************************)
(* What the multicast layer promises to the rest of the server: a          *)
(* directory from stream keys to the endpoint (multicast address and port) *)
(* the stream is sent to, with the audience of each stream.                *)
(*                                                                         *)
(* An endpoint never belongs to two streams at once, and the directory     *)
(* forgets a stream by itself only when nobody is listening to it.         *)
(* MulticastManager is shown to implement this specification.              *)
(***************************************************************************)
CONSTANTS StreamKeys, Addresses, Ports, Viewers

VARIABLES
    endpoint,   \* stream key -> <<address, port>>, for the streams listed
    audience    \* stream key -> set of viewers, for the same streams

dirVars == <<endpoint, audience>>

Listed == DOMAIN endpoint

DirInit ==
    /\ endpoint = [k \in {} |-> <<>>]
    /\ audience = [k \in {} |-> {}]

(* The endpoint is used by no other stream, in either of its components.   *)
Vacant(k, a, p) ==
    \A other \in Listed \ {k} : endpoint[other][1] # a /\ endpoint[other][2] # p

(* A stream is published, or published again at a new endpoint.            *)
Publish(k, a, p) ==
    /\ Vacant(k, a, p)
    /\ endpoint' = [s \in Listed \cup {k} |-> IF s = k THEN <<a, p>> ELSE endpoint[s]]
    /\ audience' = [s \in Listed \cup {k} |-> IF s = k THEN {} ELSE audience[s]]

Forget(K) ==
    /\ endpoint' = [s \in Listed \ K |-> endpoint[s]]
    /\ audience' = [s \in Listed \ K |-> audience[s]]

Withdraw(k) == k \in Listed /\ Forget({k})

Join(k, v) ==
    /\ k \in Listed
    /\ audience' = [audience EXCEPT ![k] = @ \cup {v}]
    /\ UNCHANGED endpoint

Leave(k, v) ==
    /\ k \in Listed
    /\ audience' = [audience EXCEPT ![k] = @ \ {v}]
    /\ UNCHANGED endpoint

(* Silent viewers drop out; a stream may be dropped with them, and only    *)
(* when that leaves it without an audience.                                *)
Expire(gone, K) ==
    /\ K \subseteq Listed
    /\ \A s \in K : audience[s] \subseteq gone[s]
    /\ endpoint' = [s \in Listed \ K |-> endpoint[s]]
    /\ audience' = [s \in Listed \ K |-> audience[s] \ gone[s]]

DirNext ==
    \/ \E k \in StreamKeys, a \in Addresses, p \in Ports : Publish(k, a, p)
    \/ \E k \in StreamKeys : Withdraw(k)
    \/ \E k \in StreamKeys, v \in Viewers : Join(k, v) \/ Leave(k, v)
    \/ \E gone \in [Listed -> SUBSET Viewers], K \in SUBSET StreamKeys : Expire(gone, K)

DirSpec == DirInit /\ [][DirNext]_dirVars
-----------------------------------------------------------------------------
(* Every listed stream has an endpoint and an audience.                    *)
DirTypeOK ==
    /\ Listed \subseteq StreamKeys
    /\ endpoint \in [Listed -> Addresses \X Ports]
    /\ audience \in [Listed -> SUBSET Viewers]

(* No two streams are sent to one address, nor on one port.                *)
EndpointsApart ==
    \A j, k \in Listed :
        endpoint[j][1] = endpoint[k][1] \/ endpoint[j][2] = endpoint[k][2] => j = k
=============================================================================
