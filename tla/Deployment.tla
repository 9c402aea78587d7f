----------------------------- MODULE Deployment -----------------------------
(***************************************************************************)
(* How the processes of a deployment get connected, and how the manager    *)
(* reconnects them: the start of the L3, L2 and L1 processes in the order  *)
(* of the scripts, the reverse connections that carry acknowledgements     *)
(* (manager -s), and the failure of a node (manager -f, -k) with the steps *)
(* the manager takes afterwards.  A connection is the worker it leads to,  *)
(* but one along a chain, which carries acknowledgements back, is the      *)
(* worker that opened it and how often it had opened one.                  *)
(*                                                                         *)
(* The manager is a new process on every invocation.  It knows nothing but *)
(* the hosts file, so its steps are fixed when it starts: a sequence of    *)
(* sets of calls, the calls of a set being made by threads that are joined *)
(* before the next set.                                                    *)
(***************************************************************************)
EXTENDS Integers, Sequences, SequencesExt, FiniteSets

CONSTANTS
  Hosts,          \* the hosts file: <<[type, hostname, row, column, num_workers], ...>>
  L3_NUM_CORES,   \* processes of an L3 host
  MaxInvocations  \* bound: manager processes run one after another

VARIABLES
  proc,      \* proc[i]: "off", "up", "failed" (threw while starting) or "dead"
  killed,    \* processes to which the kill message is on its way
  role, next_, opened,  \* chain module of each worker: its successor, and how
                        \* often it has opened the connection to one
  prev_,                \* the connection of its first chain request
  l2_iface_, l3_iface_, ack_iface_,  \* per worker: connections by column, << >> if not created
  manager,   \* "none", "running", "done" or "threw"
  todo,      \* what the running manager has yet to do
  wired,     \* manager -s has finished
  invoked,   \* number of manager processes so far
  failed     \* instances the manager was told to fail

chain == << role, next_, opened, prev_ >>
links == << l2_iface_, l3_iface_, ack_iface_ >>
vars  == << proc, killed, chain, links, manager, todo, wired, invoked, failed >>

(***************************************************************************)
(* host_info: look-ups in the hosts file.  An instance is its line.        *)
(***************************************************************************)
Inst       == DOMAIN Hosts
Workers    == UNION {{i} \X (1 .. Hosts[i].num_workers) : i \in Inst}
Nil        == << 0, 0 >>

get_hosts_by_type(type) == {i \in Inst : Hosts[i].type = type}

ColumnsOf(type) == {Hosts[i].column : i \in get_hosts_by_type(type)}

Replicas ==
  [type \in {"L1", "L2", "L3"} |->
     [column \in ColumnsOf(type) |->
        SetToSortSeq({i \in get_hosts_by_type(type) : Hosts[i].column = column},
                     LAMBDA i, j : Hosts[i].row < Hosts[j].row)]]

get_replicas(type, column) == Replicas[type][column]

get_num_columns(type) == Cardinality(ColumnsOf(type))

Columns(type) == [c \in 1 .. get_num_columns(type) |-> c - 1]

\* Mutant: a column counts for one, however many workers it has.
get_base_idx_Columns(i) ==
  Cardinality({j \in get_hosts_by_type(Hosts[i].type) :
                 Hosts[j].row = Hosts[i].row /\ Hosts[j].column < Hosts[i].column})

get_base_idx(i) ==
  MapThenSumSet(LAMBDA j : Hosts[j].num_workers,
                {j \in get_hosts_by_type(Hosts[i].type) :
                   Hosts[j].row = Hosts[i].row /\ Hosts[j].column < Hosts[i].column})

FirstReplicas == [type \in DOMAIN Replicas |->
                    [n \in DOMAIN Columns(type) |-> Head(get_replicas(type, n - 1))]]
LastReplicas  == [type \in DOMAIN Replicas |->
                    [n \in DOMAIN Columns(type) |-> Last(get_replicas(type, n - 1))]]

Heads(type) == FirstReplicas[type]
Tails(type) == LastReplicas[type]

WorkersOf(i) == [k \in 1 .. Hosts[i].num_workers |-> << i, k >>]

Up(w)        == proc[w[1]] = "up"

(***************************************************************************)
(* The order of init_exp.sh, run_l2.sh and run_l1.sh: L3, then the rows of *)
(* L2 and then those of L1, the last row first.  The sleeps between them   *)
(* are taken to be long enough.                                            *)
(***************************************************************************)
Rows(type) == Cardinality({Hosts[i].row : i \in get_hosts_by_type(type)})

\* Mutant: the first row first.
Stage_FirstRow(i) ==
  CASE Hosts[i].type = "L3" -> 0
    [] Hosts[i].type = "L2" -> 1 + Hosts[i].row
    [] Hosts[i].type = "L1" -> 1 + Rows("L2") + Hosts[i].row

Stage(i) ==
  CASE Hosts[i].type = "L3" -> 0
    [] Hosts[i].type = "L2" -> Rows("L2") - Hosts[i].row
    [] Hosts[i].type = "L1" -> Rows("L2") + Rows("L1") - Hosts[i].row

(***************************************************************************)
(* l2proxy_interface::connect, l3proxy_interface::connect: column by       *)
(* column to the first replica; the first one that does not answer throws, *)
(* which leaves the columns before it.                                     *)
(***************************************************************************)
connect(type) ==
  LET dead == {n \in DOMAIN Heads(type) : proc[Heads(type)[n]] # "up"}
      upto == IF dead = {} THEN get_num_columns(type) ELSE Min(dead) - 1
  IN  [n \in 1 .. upto |-> WorkersOf(Heads(type)[n])]

\* The constructor of reverse_connector: no connection yet.
reverse_connector(type) ==
  [n \in DOMAIN Columns(type) |-> [k \in 1 .. Hosts[Tails(type)[n]].num_workers |-> Nil]]

is_head(r) == r \in {"head", "singleton"}
is_tail(r) == r \in {"tail", "singleton"}

RoleAt(n, len) ==
  CASE len = 1             -> "singleton"
    [] len > 1 /\ n = 1    -> "head"
    [] len > 1 /\ n = len  -> "tail"
    [] OTHER               -> "mid"

(***************************************************************************)
(* chain_module::setup with the setup_callback of L1 or L2, on the workers *)
(* ws: r and nx give their new roles and successors; next_ is closed, and  *)
(* opened again even if the successor is the same one.  A neighbour that   *)
(* is gone makes setup throw, which leaves what was done before it.        *)
(***************************************************************************)
NeedsL2(w, r) == Hosts[w[1]].type = "L1" /\ is_tail(r) /\ l2_iface_[w] = << >>
NeedsL3(w, r) == Hosts[w[1]].type = "L2" /\ is_tail(r) /\ l3_iface_[w] = << >>

NextUp(nx) == nx = Nil \/ Up(nx)

setup_throws(w, r, nx) ==
  \/ ~ NextUp(nx)
  \/ NeedsL2(w, r) /\ Len(connect("L2")) < get_num_columns("L2")
  \/ NeedsL3(w, r) /\ Len(connect("L3")) < get_num_columns("L3")

setup(ws, r, nx) ==
  /\ role'  = [w \in Workers |-> IF w \in ws THEN r ELSE role[w]]
  /\ next_' = [w \in Workers |-> IF w \notin ws THEN next_[w]
                                 ELSE IF NextUp(nx[w]) THEN nx[w] ELSE Nil]
  /\ opened' = [w \in Workers |-> IF w \in ws /\ next_'[w] # Nil THEN opened[w] + 1 ELSE opened[w]]
  /\ l2_iface_' = [w \in Workers |-> IF w \in ws /\ NextUp(nx[w]) /\ NeedsL2(w, r)
                                     THEN connect("L2") ELSE l2_iface_[w]]
  /\ l3_iface_' = [w \in Workers |-> IF w \in ws /\ NextUp(nx[w]) /\ NeedsL3(w, r)
                                     THEN connect("L3") ELSE l3_iface_[w]]
  /\ ack_iface_' =
       [w \in Workers |->
          IF w \in ws /\ Hosts[w[1]].type = "L2" /\ is_head(r) /\ ack_iface_[w] = << >>
             /\ ~ setup_throws(w, r, nx[w])
          THEN reverse_connector("L1") ELSE ack_iface_[w]]

-----------------------------------------------------------------------------
Init ==
  /\ proc    = [i \in Inst |-> "off"]
  /\ killed  = {}
  /\ role    = [w \in Workers |-> "none"]
  /\ next_   = [w \in Workers |-> Nil]
  /\ opened  = [w \in Workers |-> 0]
  /\ prev_   = [w \in Workers |-> [from |-> Nil, no |-> 0]]
  /\ l2_iface_  = [w \in Workers |-> << >>]
  /\ l3_iface_  = [w \in Workers |-> << >>]
  /\ ack_iface_ = [w \in Workers |-> << >>]
  /\ manager = "none"
  /\ todo    = << >>
  /\ wired   = FALSE
  /\ invoked = 0
  /\ failed  = {}

(***************************************************************************)
(* l1_main, l2_main, l3_main: init_proxy of each worker, then its server.  *)
(* An exception of init_proxy ends the process.                            *)
(***************************************************************************)
StartChain(i) ==
  LET reps == get_replicas(Hosts[i].type, Hosts[i].column)
      n    == CHOOSE m \in DOMAIN reps : reps[m] = i
      r    == RoleAt(n, Len(reps))
      succ == {j \in Range(reps) : Hosts[j].row = Hosts[i].row + 1}
      nx   == [w \in Range(WorkersOf(i)) |->
                 IF succ = {} THEN Nil ELSE << CHOOSE j \in succ : TRUE, w[2] >>]
      bad  == \E w \in Range(WorkersOf(i)) : setup_throws(w, r, nx[w])
  IN  /\ proc' = [proc EXCEPT ![i] = IF bad THEN "failed" ELSE "up"]
      /\ setup(Range(WorkersOf(i)), r, nx)

StartL3(i) ==
  /\ proc' = [proc EXCEPT ![i] = "up"]
  /\ ack_iface_' = [w \in Workers |-> IF w[1] = i THEN reverse_connector("L2") ELSE ack_iface_[w]]
  /\ UNCHANGED << role, next_, opened, l2_iface_, l3_iface_ >>

Start(i) ==
  /\ proc[i] = "off"
  /\ \A j \in Inst : Stage(j) < Stage(i) => proc[j] # "off"
  /\ IF Hosts[i].type = "L3" THEN StartL3(i) ELSE StartChain(i)
  /\ UNCHANGED << killed, prev_, manager, todo, wired, invoked, failed >>

\* l1_handler, l2_handler::chain_request: the first one sets prev_.
ChainRequest(w) ==
  /\ wired /\ Up(w)
  /\ next_[w] # Nil /\ Up(next_[w])
  /\ prev_[next_[w]].from = Nil
  /\ prev_' = [prev_ EXCEPT ![next_[w]] = [from |-> w, no |-> opened[w]]]
  /\ UNCHANGED << proc, killed, role, next_, opened, links, manager, todo, wired, invoked, failed >>

-----------------------------------------------------------------------------
(***************************************************************************)
(* proxy_manager: the calls it makes, as sets of calls made in parallel.   *)
(***************************************************************************)
Rpc(op, w) == [op |-> op, w |-> w, nx |-> Nil, r |-> "none", type |-> "none", column |-> 0, to |-> << >>]

Each(i, F(_)) == [k \in 1 .. Hosts[i].num_workers |-> {F(<< i, k >>)}]
All(i, F(_))  == << {F(w) : w \in Range(WorkersOf(i))} >>

Concat(seqs) == FoldLeft(LAMBDA acc, s : acc \o s, << >>, seqs)

\* target 0 stands for nullptr.
update_connections(i, type, column, target) ==
  Each(i, LAMBDA w : [Rpc("update_connections", w) EXCEPT
                        !.type = type, !.column = column,
                        !.to = IF target = 0 THEN << >> ELSE WorkersOf(target)])

setup_chain(i, r, nx) ==
  All(i, LAMBDA w : [Rpc("setup_chain", w) EXCEPT
                       !.r = r, !.nx = IF nx = 0 THEN Nil ELSE << nx, w[2] >>])

resend_pending(i, nx) ==
  (IF nx = 0 THEN << >> ELSE << {Rpc("fetch_seq", << nx, w[2] >>) : w \in Range(WorkersOf(i))} >>)
  \o All(i, LAMBDA w : Rpc("resend_pending", w))

selective_resend_pending(i, column) ==
  Each(i, LAMBDA w : [Rpc("selective_resend_pending", w) EXCEPT !.column = column])

crash_host(i) == << {Rpc("kill", << i, 1 >>)} >>

setup_reverse_connections ==
  Concat([n \in DOMAIN Heads("L3") |->
    Concat([m \in DOMAIN Tails("L2") |->
      update_connections(Heads("L3")[n], "L2", m - 1, Tails("L2")[m])])])
  \o
  Concat([n \in DOMAIN Heads("L2") |->
    Concat([m \in DOMAIN Tails("L1") |->
      update_connections(Heads("L2")[n], "L1", m - 1, Tails("L1")[m])])])

(***************************************************************************)
(* fail_node, by the layer of the failed instance.                         *)
(***************************************************************************)
get_idx(i, reps)  == CHOOSE n \in DOMAIN reps : reps[n] = i
Fixed(i)          == SelectSeq(get_replicas(Hosts[i].type, Hosts[i].column), LAMBDA j : j # i)
After(reps, n)    == IF n = Len(reps) THEN 0 ELSE reps[n + 1]

\* Mutants: the successor looked up in the old chain; the chain's end missed.
RepairPredecessor_Old(i) ==
  LET reps == get_replicas(Hosts[i].type, Hosts[i].column)
      idx  == get_idx(i, reps)
      p    == reps[idx - 1]
  IN  setup_chain(p, RoleAt(get_idx(p, Fixed(i)), Len(Fixed(i))), After(reps, get_idx(p, reps)))
      \o resend_pending(p, After(reps, get_idx(p, reps)))

RepairPredecessor_Mid(i) ==
  LET reps == get_replicas(Hosts[i].type, Hosts[i].column)
      p    == reps[get_idx(i, reps) - 1]
      n    == get_idx(p, Fixed(i))
  IN  setup_chain(p, IF n = 1 THEN "head" ELSE "mid", After(Fixed(i), n))
      \o resend_pending(p, After(Fixed(i), n))

RepairPredecessor(i) ==
  LET reps == get_replicas(Hosts[i].type, Hosts[i].column)
      p    == reps[get_idx(i, reps) - 1]
      n    == get_idx(p, Fixed(i))
  IN  setup_chain(p, RoleAt(n, Len(Fixed(i))), After(Fixed(i), n))
      \o resend_pending(p, After(Fixed(i), n))

\* Mutant: the L1 tails resend before they are updated.
PromoteL2Head_ResendFirst(i) ==
  LET head == Head(Fixed(i))
  IN  setup_chain(head, RoleAt(1, Len(Fixed(i))), After(Fixed(i), 1))
      \o Concat([n \in DOMAIN Tails("L1") |-> resend_pending(Tails("L1")[n], 0)])
      \o Concat([n \in DOMAIN Tails("L1") |->
           update_connections(Tails("L1")[n], "L2", Hosts[i].column, head)])

PromoteL2Head(i) ==
  LET head == Head(Fixed(i))
  IN  setup_chain(head, RoleAt(1, Len(Fixed(i))), After(Fixed(i), 1))
      \o Concat([n \in DOMAIN Tails("L1") |->
           update_connections(Tails("L1")[n], "L2", Hosts[i].column, head)])
      \o Concat([n \in DOMAIN Tails("L1") |-> resend_pending(Tails("L1")[n], 0)])

RemoveL3(i) ==
  Concat([n \in DOMAIN Tails("L2") |->
    update_connections(Tails("L2")[n], "L3", Hosts[i].column, 0)])
  \o Concat([n \in DOMAIN Tails("L2") |->
       selective_resend_pending(Tails("L2")[n], Hosts[i].column)])

fail_node(i) ==
  LET first == Hosts[i].type # "L3" /\ Head(get_replicas(Hosts[i].type, Hosts[i].column)) = i
  IN  crash_host(i) \o
      CASE Hosts[i].type \in {"L1", "L2"} /\ ~ first -> RepairPredecessor(i)
        [] Hosts[i].type = "L1" /\ first             -> << >>
        [] Hosts[i].type = "L2" /\ first             -> PromoteL2Head(i)
        [] Hosts[i].type = "L3"                      -> RemoveL3(i)

OnHost(hostname)    == SelectSeq([i \in Inst |-> i], LAMBDA i : Hosts[i].hostname = hostname)
fail_host(hostname) == Concat([n \in DOMAIN OnHost(hostname) |-> fail_node(OnHost(hostname)[n])])

(***************************************************************************)
(* manager_main.  init opens a connection to every worker and throws if    *)
(* one does not answer.                                                    *)
(***************************************************************************)
Invoke(plan, who) ==
  /\ manager # "running" /\ manager # "threw"
  /\ invoked < MaxInvocations
  /\ invoked' = invoked + 1
  /\ IF \E i \in Inst : proc[i] # "up"
     THEN manager' = "threw" /\ UNCHANGED << todo, failed >>
     ELSE manager' = "running" /\ todo' = plan /\ failed' = failed \cup who
  /\ UNCHANGED << proc, killed, chain, links, wired >>

ManagerSetup ==
  /\ ~ wired
  /\ \A i \in Inst : proc[i] # "off"
  /\ Invoke(setup_reverse_connections, {})

\* No instance is failed twice; of an L3 host the first process is named, because
\* remove_connection takes its siblings too.
Failable == {i \in Inst \ failed : Hosts[i].type = "L3" => Hosts[i].column % L3_NUM_CORES = 0}

Plan == [i \in Inst |-> fail_node(i)]

ManagerFailNode ==
  /\ wired
  /\ \E i \in Failable : Invoke(Plan[i], {i})

\* Of a host with one process.
ManagerFailHost ==
  /\ wired
  /\ \E h \in {Hosts[i].hostname : i \in Inst} :
       Len(OnHost(h)) = 1 /\ OnHost(h)[1] \in Failable
       /\ Invoke(fail_host(h), Range(OnHost(h)))

(***************************************************************************)
(* update_connections of l1_proxy, l2_proxy, l3_proxy: who accepts it, and *)
(* what it does.                                                           *)
(***************************************************************************)
update_throws(c) ==
  LET t == Hosts[c.w[1]].type
  IN  ~ \/ t = "L1" /\ c.type = "L2" /\ is_tail(role[c.w]) /\ l2_iface_[c.w] # << >>
        \/ t = "L2" /\ c.type = "L3" /\ is_tail(role[c.w]) /\ l3_iface_[c.w] # << >>
             /\ c.column < Len(l3_iface_[c.w])
        \/ t = "L2" /\ c.type = "L1" /\ is_head(role[c.w]) /\ ack_iface_[c.w] # << >>
        \/ t = "L3" /\ c.type = "L2"
      \/ \E n \in DOMAIN c.to : ~ Up(c.to[n])

remove_connection(cols, column) ==
  SubSeq(cols, 1, column) \o SubSeq(cols, column + L3_NUM_CORES + 1, Len(cols))

update(c) ==
  /\ l2_iface_' = IF Hosts[c.w[1]].type = "L1"
                  THEN [l2_iface_ EXCEPT ![c.w][c.column + 1] = c.to] ELSE l2_iface_
  /\ l3_iface_' = IF c.type = "L3"
                  THEN [l3_iface_ EXCEPT ![c.w] = remove_connection(@, c.column)] ELSE l3_iface_
  /\ ack_iface_' = IF c.type # "L3" /\ Hosts[c.w[1]].type # "L1"
                   THEN [ack_iface_ EXCEPT ![c.w][c.column + 1] = c.to] ELSE ack_iface_

Throws(c) ==
  \/ ~ Up(c.w)
  \/ c.op = "setup_chain" /\ setup_throws(c.w, c.r, c.nx)
  \/ c.op = "update_connections" /\ update_throws(c)
  \/ c.op = "selective_resend_pending" /\ ~ is_tail(role[c.w])

(***************************************************************************)
(* One call of the manager.  An exception, also one the worker's handler   *)
(* threw, ends the manager.  The kill message has no reply.                *)
(***************************************************************************)
Handle(c) ==
  /\ IF c.op = "setup_chain" /\ Up(c.w) THEN setup({c.w}, c.r, [w \in {c.w} |-> c.nx])
     ELSE IF c.op = "update_connections" /\ ~ Throws(c) THEN update(c) /\ UNCHANGED << role, next_, opened >>
     ELSE UNCHANGED << role, next_, opened, links >>
  /\ killed' = IF c.op = "kill" THEN killed \cup {c.w[1]} ELSE killed

Step ==
  /\ manager = "running"
  /\ todo # << >>
  /\ \E c \in Head(todo) :
       /\ Handle(c)
       /\ manager' = IF Throws(c) THEN "threw" ELSE manager
       /\ todo' = IF Head(todo) = {c} THEN Tail(todo) ELSE << Head(todo) \ {c} >> \o Tail(todo)
  /\ UNCHANGED << proc, prev_, wired, invoked, failed >>

ManagerExit ==
  /\ manager = "running"
  /\ todo = << >>
  /\ manager' = "done"
  /\ wired' = TRUE
  /\ UNCHANGED << proc, killed, chain, links, todo, invoked, failed >>

\* external_ack with the reserved number: the process exits.
Die(i) ==
  /\ i \in killed /\ proc[i] = "up"
  /\ proc' = [proc EXCEPT ![i] = "dead"]
  /\ UNCHANGED << killed, chain, links, manager, todo, wired, invoked, failed >>

Next ==
  \/ \E i \in Inst : Start(i) \/ Die(i)
  \/ \E w \in Workers : ChainRequest(w)
  \/ ManagerSetup
  \/ ManagerFailNode
  \/ ManagerFailHost
  \/ Step
  \/ ManagerExit

(***************************************************************************)
(* The manager keeps running, and a process handles the messages it gets.  *)
(***************************************************************************)
Spec ==
  /\ Init /\ [][Next]_vars
  /\ WF_vars(Step) /\ WF_vars(ManagerExit)
  /\ \A i \in Inst : WF_vars(Die(i))

-----------------------------------------------------------------------------
(***************************************************************************)
(* Started in the order of the scripts, no process meets a neighbour that  *)
(* is not there yet (init_proxy connects without a retry, and an exception *)
(* ends the process).                                                      *)
(***************************************************************************)
StartsClean == \A i \in Inst : proc[i] # "failed"

Alive(i) == proc[i] = "up" /\ i \notin failed
AliveReplicas(type, column) == SelectSeq(get_replicas(type, column), Alive)

ChainLinked(type, column) ==
  LET s == AliveReplicas(type, column)
  IN  \A n \in DOMAIN s : \A w \in Range(WorkersOf(s[n])) :
        /\ next_[w] = IF n = Len(s) THEN Nil ELSE << s[n + 1], w[2] >>
        /\ is_head(role[w]) = (n = 1)
        /\ is_tail(role[w]) = (n = Len(s))

SameHost(i, j) == Hosts[i].hostname = Hosts[j].hostname

(***************************************************************************)
(* When the manager has finished, with -s or with the failure of a node    *)
(* other than the first replica of an L1 column (for which fail_node does  *)
(* nothing), a request has a way through live processes: every chain links *)
(* its live replicas, with the roles that fit, every L1 tail knows the     *)
(* live head of each L2 column, and every L2 tail the L3 servers of all    *)
(* hosts but the failed one, in order.                                     *)
(***************************************************************************)
RequestPath ==
  manager = "done" /\ Cardinality(failed) <= 1 /\ failed \cap Range(Heads("L1")) = {} =>
    /\ \A type \in {"L1", "L2"} : \A c \in Range(Columns(type)) : ChainLinked(type, c)
    /\ \A c \in Range(Columns("L1")) : \A w \in Range(WorkersOf(Last(AliveReplicas("L1", c)))) :
         l2_iface_[w] = [n \in DOMAIN Columns("L2") |->
                           WorkersOf(Head(AliveReplicas("L2", n - 1)))]
    /\ \A c \in Range(Columns("L2")) : \A w \in Range(WorkersOf(Last(AliveReplicas("L2", c)))) :
         l3_iface_[w] = SelectSeq([n \in DOMAIN Heads("L3") |-> WorkersOf(Heads("L3")[n])],
                                  LAMBDA ws : \A i \in failed : ~ SameHost(ws[1][1], i))

(***************************************************************************)
(* Once manager -s has run, an acknowledgement that is routed by the       *)
(* number a tail put into its request (l1_idx, l2_idx: get_base_idx plus   *)
(* the worker) finds the connection to that very worker in client_arr_,    *)
(* and one that goes back along a chain goes over the connection on which  *)
(* the requests come now, unless one of the two ends has failed: fail_node *)
(* repairs the way of requests only.  The new tail of a column, or the new *)
(* head of an L2 column, is on no way back; and the successor of that new  *)
(* head answers on the connection that setup has closed (the TODO in       *)
(* chain_request), although both are alive.                                *)
(***************************************************************************)
client_arr_(w) == Concat(ack_iface_[w])

idx_ == [i \in Inst |-> get_base_idx(i)]

\* The second replica of an L2 column, when the first has failed.
Promoted(i) == \E f \in failed \cap Range(Heads("L2")) : i = Head(Fixed(f))

AckRoute ==
  wired =>
    /\ failed \cap Range(Heads("L2")) = {} =>
       \A w \in Workers : Alive(w[1]) /\ ack_iface_[w] # << >> =>
         LET arr == client_arr_(w)
         IN  \A t \in Range(Tails(IF Hosts[w[1]].type = "L3" THEN "L2" ELSE "L1")) :
               \A k \in 1 .. Hosts[t].num_workers : arr[idx_[t] + k] = << t, k >>
    /\ \A w \in Workers : LET p == prev_[w] IN
         p.from # Nil /\ Alive(w[1]) /\ Alive(p.from[1]) /\ ~ Promoted(p.from[1])
           => next_[p.from] = w /\ opened[p.from] = p.no

(***************************************************************************)
(* A worker is asked to send pending requests again only when none of the  *)
(* connections it sends them on leads to the failed process: successor and *)
(* L2 or L3 connections are replaced first, at every worker.               *)
(***************************************************************************)
Targets(w) ==
  CASE next_[w] # Nil                                 -> {next_[w]}
    [] next_[w] = Nil /\ Hosts[w[1]].type = "L1"      -> UNION {Range(s) : s \in Range(l2_iface_[w])}
    [] OTHER                                          -> UNION {Range(s) : s \in Range(l3_iface_[w])}

ResendsReachLive ==
  manager = "running" /\ todo # << >> /\ Cardinality(failed) = 1 =>
    \A c \in Head(todo) : c.op \in {"resend_pending", "selective_resend_pending"} =>
      \A x \in Targets(c.w) : x[1] \notin failed

(***************************************************************************)
(* A manager that starts while no process is missing runs to its end: none *)
(* of its calls finds a process gone or is refused by the worker's handler *)
(* (a role or an interface that the earlier calls have not yet given it).  *)
(***************************************************************************)
ManagerCompletes ==
  (manager = "running" /\ Cardinality(failed) <= 1) ~> (manager = "done" \/ Cardinality(failed) > 1)

=============================================================================
