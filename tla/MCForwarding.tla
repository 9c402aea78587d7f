---------------------------- MODULE MCForwarding -----------------------------
(***************************************************************************)
(* Instances of Forwarding for TLC.                                        *)
(***************************************************************************)
EXTENDS Forwarding

CONSTANTS d1, d2, any

(***************************************************************************)
(* The first of the requests that are not for the dummy key goes to d1:    *)
(* the receivers differ in nothing else, so that every other routing is    *)
(* one of these with d1 and d2 exchanged.                                  *)
(***************************************************************************)
Hashed == {r \in [Requests -> Receivers] : r[BatchSize] = d1}

(***************************************************************************)
(* The first request is for the dummy key: it is the one that all others   *)
(* can overtake, and another request is in its batch.  The next batch has  *)
(* a request for each receiver.                                            *)
(***************************************************************************)
WithDummy ==
    {r \in [Requests -> Receivers \cup {Any}] :
        /\ {x \in Requests : r[x] = Any} = {BatchSize}
        /\ r[BatchSize + 1] = d1
        /\ {r[x] : x \in Batch({2})} = Receivers}

MCRoutes == Hashed \cup WithDummy

==============================================================================
