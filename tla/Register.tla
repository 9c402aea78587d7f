------------------------------- MODULE Register -------------------------------
(***************************************************************************)
(* What the proxy promises its clients: every key is an atomic register.   *)
(* A request takes effect at one point between its invocation and its      *)
(* answer; a get returns the last value put before that point.  The value  *)
(* of a put is the put itself, so that every written value is unique.      *)
(***************************************************************************)
CONSTANTS Keys, Puts, Gets, NoVal, InitVal

Requests == Puts \cup Gets

Statuses == {"idle", "invoked", "applied", "answered"}

VARIABLES reg,      \* the value of every key
          status,   \* the progress of every request
          key,      \* the key of every request
          result    \* the value a get returns, once it has taken effect

vars == <<reg, status, key, result>>

Init ==
    /\ reg = [k \in Keys |-> InitVal]
    /\ status = [o \in Requests |-> "idle"]
    /\ key \in [Requests -> Keys]
    /\ result = [o \in Requests |-> NoVal]

Invoke(o) ==
    /\ status[o] = "idle"
    /\ status' = [status EXCEPT ![o] = "invoked"]
    /\ UNCHANGED <<reg, key, result>>

Apply(o) ==
    /\ status[o] = "invoked"
    /\ status' = [status EXCEPT ![o] = "applied"]
    /\ IF o \in Puts
       THEN reg' = [reg EXCEPT ![key[o]] = o] /\ UNCHANGED result
       ELSE result' = [result EXCEPT ![o] = reg[key[o]]] /\ UNCHANGED reg
    /\ UNCHANGED key

Answer(o) ==
    /\ status[o] = "applied"
    /\ status' = [status EXCEPT ![o] = "answered"]
    /\ UNCHANGED <<reg, key, result>>

Next == \E o \in Requests : Invoke(o) \/ Apply(o) \/ Answer(o)

Spec == Init /\ [][Next]_vars

===============================================================================
