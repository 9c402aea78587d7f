------------------------------ MODULE MCBaseline ------------------------------
EXTENDS Baseline

CONSTANTS w1, w2

get(k) == [key |-> <<k>>, put |-> FALSE]
put(k) == [key |-> <<k>>, put |-> TRUE]
MCKeys == {<<1>>, <<2>>, <<3>>}
MCDummyKey == <<10>>
MCFakeId == -1995

Config(mode, trace_, workers, storage, security, depth, max) ==
  [mode |-> mode, trace |-> trace_, workers |-> workers, storage_batch_size |-> storage,
   security_batch_size |-> security, queue_depth |-> depth, max_requests |-> max]

\* Two pancake workers on one label; security batches of two; enc workers one
\* by one and in batches; a client that ends its three calls; and a trace for
\* which ceil can be rounded either way.
MCConfigs == {
  Config("pancake", <<get(1), put(1), get(1), get(2)>>, {w1, w2}, 1, 1, 2, 3),
  Config("pancake", <<put(1), get(1), get(2)>>, {w1}, 2, 2, 2, 2),
  Config("pancake", <<get(1), get(1), get(1), get(1), get(2), get(3)>>, {w1}, 1, 1, 1, 0),
  Config("enc", <<put(1), put(2), put(1), get(1)>>, {w1}, 1, 1, 3, 5),
  Config("enc", <<put(1), get(1)>>, {w1, w2}, 2, 1, 4, 4),
  Config("enc", <<put(1), get(1), get(1)>>, {w1, w2}, 1, 1, 2, 4),
  Config("enc", <<get(1), put(1)>>, {w1}, 1, 1, 1, 6)
}
MCTraces == {c.trace : c \in MCConfigs}
=============================================================================
