--------------------------------- MODULE Redis ---------------------------------
(***************************************************************************)
(* The key-value store as the initializer and the baseline proxies use it. *)
(* One Redis server: it runs its commands one at a time.  Names are those  *)
(* of labels, or of keys for the encryption-only proxy; the clients see    *)
(* values only encrypted, and here a value stands for all its ciphertexts. *)
(***************************************************************************)
EXTENDS Naturals, Sequences

CONSTANT
  Initial            \* the random value that every label is created with

VARIABLE
  kv                 \* what the server stores: name -> value

\* m with m[x] set to v, as std::map::operator[].
Assign(m, x, v) == [y \in DOMAIN m \cup {x} |-> IF y = x THEN v ELSE m[y]]

(***************************************************************************)
(* MSET with the names of the sequence s of [label, plaintext] records:    *)
(* the last value given for a name stays.                                  *)
(***************************************************************************)
MSet(store, s) ==
  LET named(x) == {n \in DOMAIN s : s[n].label = x}
      last(x) == CHOOSE n \in named(x) : \A m \in named(x) : m <= n
  IN  [x \in DOMAIN store \cup {s[n].label : n \in DOMAIN s} |->
         IF named(x) = {} THEN store[x] ELSE s[last(x)].plaintext]

(***************************************************************************)
(* redis::put_batch with one and the same value for all names.             *)
(***************************************************************************)
put_batch(names) ==
  kv' = [x \in DOMAIN kv \cup names |-> IF x \in names THEN Initial ELSE kv[x]]
=============================================================================
