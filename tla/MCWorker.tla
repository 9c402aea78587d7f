------------------------------ MODULE MCWorker ------------------------------
(* Two connections of one worker, of every kind and with every pair of peers. *)
EXTENDS Worker

MCConns   == 1 .. 2
MCStrings == {"k", "$ts$"}
=============================================================================
