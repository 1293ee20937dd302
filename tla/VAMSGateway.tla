----------------------------- MODULE VAMSGateway -----------------------------
(***************************************************************************)
(* gateway/server.py: the registry of neuron nodes, kept in memory, fed by *)
(* signed heartbeats and read by GET /nodes.  Of a NodeInfo, the profile   *)
(* fields and the counters are abstracted; a refused heartbeat changes     *)
(* nothing and is not a step.                                              *)
(***************************************************************************)
EXTENDS Naturals, Sequences, FiniteSets

CONSTANTS
  Nodes,          \* node ids
  Keys,           \* public keys
  NoKey,          \* public_key = ""
  Absent,         \* a payload without the field
  Unregistered,
  MAX_NODES,
  NODE_TIMEOUT,
  RETENTION       \* after so long offline, cleanup_offline_nodes forgets

ASSUME GatewayConstants ==
  /\ NoKey \notin Keys /\ Absent \notin Keys /\ NoKey # Absent
  /\ MAX_NODES \in Nat
  /\ NODE_TIMEOUT \in Nat /\ RETENTION \in Nat
  /\ NODE_TIMEOUT <= RETENTION

VARIABLES
  nodes,          \* nodes[n]: the NodeInfo, or Unregistered
  order           \* the order the dict iterates in

gatewayVars == <<nodes, order>>

\* now - last_seen; past RETENTION it no longer matters.
MaxAge   == RETENTION + 1
NodeInfo == [public_key : Keys \cup {NoKey}, age : 0..MaxAge]

ASSUME UnregisteredIsNoNode == Unregistered \notin NodeInfo

GatewayTypeOK ==
  /\ nodes \in [Nodes -> NodeInfo \cup {Unregistered}]
  /\ order \in Seq(Nodes)
  /\ {order[i] : i \in DOMAIN order} = {n \in Nodes : nodes[n] # Unregistered}
  /\ Len(order) = Cardinality({n \in Nodes : nodes[n] # Unregistered})
  /\ Len(order) <= MAX_NODES

GatewayInit ==
  /\ nodes = [n \in Nodes |-> Unregistered]
  /\ order = <<>>

IsRegistered(n) == nodes[n] # Unregistered
is_online(n)    == IsRegistered(n) /\ nodes[n].age < NODE_TIMEOUT
Offline         == {n \in Nodes : IsRegistered(n) /\ ~is_online(n)}

HasKey(n) == IsRegistered(n) /\ nodes[n].public_key # NoKey

\* The key a heartbeat is verified with: the stored one comes first.
KeyFor(n, carried) == IF HasKey(n) THEN nodes[n].public_key ELSE carried

\* Mutant: a full registry forgets the longest unseen node, online or not.
MakesRoomAnyhow(n) ==
  IF IsRegistered(n) \/ Len(order) < MAX_NODES THEN {{}}
  ELSE {{m} : m \in {m \in Nodes : IsRegistered(m) /\ \A o \in Nodes :
                       IsRegistered(o) => nodes[o].age <= nodes[m].age}}

\* Mutant: one node more than the registry holds.
MakesRoomLate(n) == IF Len(order) <= MAX_NODES THEN {{}} ELSE {}

\* What may be evicted so that n enters; nothing to choose is a 429.
MakesRoom(n) ==
  IF IsRegistered(n) \/ Len(order) < MAX_NODES THEN {{}}
  ELSE {{m} : m \in {m \in Offline : \A o \in Offline :
                                       nodes[o].age <= nodes[m].age}}

\* n is seen now; its key is stored once.
Seen(n, carried) ==
  [public_key |-> IF HasKey(n) THEN nodes[n].public_key
                  ELSE IF carried = Absent THEN NoKey ELSE carried,
   age        |-> 0]

\* The order without those that are gone, which keeps the order of the others.
Remaining(gone) ==
  LET kept    == {i \in DOMAIN order : order[i] \notin gone}
      rank(i) == Cardinality({j \in kept : j <= i})
  IN  [k \in 1..Cardinality(kept) |-> order[CHOOSE i \in kept : rank(i) = k]]

Heartbeat(n, signer, carried) ==
  /\ KeyFor(n, carried) \in {NoKey, signer}
  /\ \E evicted \in MakesRoom(n) :
       /\ nodes' = [m \in Nodes |-> IF m = n THEN Seen(n, carried)
                                    ELSE IF m \in evicted THEN Unregistered
                                    ELSE nodes[m]]
       /\ order' = IF IsRegistered(n) THEN order
                   ELSE Append(Remaining(evicted), n)

\* Time passes.
Age ==
  /\ nodes' = [n \in Nodes |->
       IF IsRegistered(n) /\ nodes[n].age < MaxAge
       THEN [nodes[n] EXCEPT !.age = @ + 1] ELSE nodes[n]]
  /\ UNCHANGED order

cleanup_offline_nodes ==
  LET offline_keys == {n \in Nodes : IsRegistered(n) /\ nodes[n].age > RETENTION}
  IN  /\ offline_keys # {}
      /\ nodes' = [n \in Nodes |-> IF n \in offline_keys THEN Unregistered
                                   ELSE nodes[n]]
      /\ order' = Remaining(offline_keys)

\* The process stops and starts: the registry was in memory.
RestartGateway == nodes' = [n \in Nodes |-> Unregistered] /\ order' = <<>>

\* GET /nodes.
list_nodes ==
  [i \in DOMAIN order |-> [node_id |-> order[i], is_online |-> is_online(order[i])]]

GatewayStep ==
  \/ \E n \in Nodes, signer \in Keys, carried \in Keys \cup {NoKey, Absent} :
       Heartbeat(n, signer, carried)
  \/ Age
  \/ cleanup_offline_nodes
  \/ RestartGateway

(***************************************************************************)
(* A node that is online keeps its place in the registry, whatever other   *)
(* nodes arrive at a full registry and whenever the cleanup runs, and      *)
(* keeps the key its heartbeats are verified with; only a restart of the   *)
(* gateway, which forgets every node, ends that.  A failure would let a    *)
(* working node vanish from /nodes, or lock it out.                        *)
(***************************************************************************)
OnlineIsKept ==
  [][ \/ RestartGateway
      \/ \A n \in Nodes : is_online(n) =>
           /\ nodes'[n] # Unregistered
           /\ HasKey(n) => nodes'[n].public_key = nodes[n].public_key ]_gatewayVars
=============================================================================
