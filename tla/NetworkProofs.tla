---------------------------- MODULE NetworkProofs ----------------------------
(***************************************************************************)
(* For any number of wallet servers, blocks and outages: the network is a  *)
(* star around the miner, so that a block is only ever asked for from a    *)
(* client that has it and serves it.                                       *)
(***************************************************************************)
EXTENDS Network, TLAPS

NetTypes ==
  /\ up \subseteq Node /\ greeted \subseteq Wallets /\ outages \in 0..MaxOutages
  /\ height \in [Node -> 0..MaxHeight] /\ peers \in [Node -> SUBSET Node]
  /\ msgs \subseteq [from : Node, to : Node, hash : Hash]
  /\ resolving \subseteq [node : Wallets, hash : 1..MaxHeight, src : {Miner}]

\* The two ends of a connection: the miner and a wallet server.
Ends(n, p) == (n = Miner /\ p \in Wallets) \/ (n \in Wallets /\ p = Miner)

\* Whom a client knows and talks to is at the other end.
Star ==
  /\ \A n \in Node : \A p \in peers[n] : Ends(n, p)
  /\ \A x \in msgs : Ends(x.from, x.to)

\* Nobody is ahead of the miner.
MinerLeads ==
  /\ \A n \in Node : height[n] <= height[Miner]
  /\ \A r \in resolving : r.hash <= height[Miner]

OncePerHash == \A q, r \in resolving : q.node = r.node /\ q.hash = r.hash => q = r

NetInv == NetTypes /\ Star /\ MinerLeads /\ OncePerHash /\ AnnouncedIsRecorded

-------------------------------------------------------------------------------

\* Nobody has heard of anything.
LEMMA NetInitially == NetInit => NetInv
  BY NetworkAssumption
  DEF NetInit, NetInv, NetTypes, Star, Ends, MinerLeads, OncePerHash, AnnouncedIsRecorded, Node

\* Announcements go from their sender to the peers it has.
LEMMA BcastInv ==
  ASSUME NetInv, NEW n \in Node, NEW h \in Hash
  PROVE  /\ Bcast(n, h) \subseteq [from : Node, to : Node, hash : Hash]
         /\ \A x \in Bcast(n, h) : x.from = n /\ x.hash = h /\ Ends(x.from, x.to)
  BY DEF NetInv, NetTypes, Star, Bcast

\* A call adds its caller, at the other end of the connection.
LEMMA CalledInv ==
  ASSUME NetInv, NEW n \in Node, NEW p \in Node, Ends(n, p), Called(n, p)
  PROVE  /\ peers' \in [Node -> SUBSET Node]
         /\ \A m \in Node : \A q \in peers'[m] : Ends(m, q)
  BY DEF NetInv, NetTypes, Star, Called, Ends

\* The miner gets ahead, and announces what it has written.
LEMMA MineInv == ASSUME NetInv, NEW n \in Node, Mine(n) PROVE NetInv'
<1>1. /\ n = Miner /\ height[n] < MaxHeight /\ height' = [height EXCEPT ![n] = @ + 1]
      /\ msgs' = msgs \cup Bcast(n, height[n] + 1)
      /\ UNCHANGED <<up, peers, resolving, greeted, outages>>
  BY DEF Mine
<1>2. height[n] + 1 \in 1..MaxHeight /\ height[n] + 1 \in Hash /\ Miner \in Node
  BY <1>1, NetworkAssumption DEF NetInv, NetTypes, Hash, Node
<1>3. /\ height' \in [Node -> 0..MaxHeight] /\ height'[Miner] = height[Miner] + 1
      /\ \A p \in Node : height'[p] <= height'[Miner] /\ height[p] <= height'[p]
  BY <1>1, <1>2, NetworkAssumption DEF NetInv, NetTypes, MinerLeads
<1>4. NetTypes'
  BY <1>1, <1>2, <1>3, BcastInv DEF NetInv, NetTypes
<1>5. Star'
  BY <1>1, <1>2, BcastInv DEF NetInv, Star, Ends
<1>6. MinerLeads' /\ OncePerHash'
  <2>1. \A r \in resolving : r.hash \in Int /\ height[Miner] \in Int
    BY <1>2 DEF NetInv, NetTypes
  <2> QED BY <1>1, <1>3, <2>1 DEF NetInv, MinerLeads, OncePerHash
<1>7. AnnouncedIsRecorded'
  <2> SUFFICES ASSUME NEW x \in msgs', x.hash \in 1..MaxHeight PROVE x.hash <= height'[x.from]
    BY DEF AnnouncedIsRecorded
  <2>1. CASE x \in msgs
    <3>1. x.from \in Node /\ x.hash <= height[x.from] /\ height[x.from] \in Int
      BY <2>1 DEF NetInv, NetTypes, AnnouncedIsRecorded
    <3> QED BY <1>3, <3>1
  <2>2. CASE x \in Bcast(n, height[n] + 1)
    BY <1>1, <1>2, <1>3, <2>2, BcastInv
  <2> QED BY <1>1, <2>1, <2>2
<1> QED BY <1>4, <1>5, <1>6, <1>7 DEF NetInv

\* Hellos and transactions are announcements of no block.
LEMMA TalkInv ==
  ASSUME NetInv, NEW w \in Node, SayHello(w) \/ SendTxn(w) PROVE NetInv'
<1>1. PICK h \in {Hello, ATxn} :
        /\ msgs' = msgs \cup Bcast(w, h) /\ greeted' \subseteq Wallets
        /\ UNCHANGED <<up, peers, height, resolving, outages>>
  BY DEF SayHello, SendTxn, NetInv, NetTypes
<1>2. h \in Hash /\ h \notin 1..MaxHeight
  BY NetworkAssumption DEF Hash, Hello, ATxn
<1> QED BY <1>1, <1>2, BcastInv
        DEF NetInv, NetTypes, Star, Ends, MinerLeads, OncePerHash, AnnouncedIsRecorded

\* A wallet server resolves what the miner has announced; the miner has every
\* block that a wallet server announces.
LEMMA DeliverInv == ASSUME NetInv, NEW x \in msgs, Deliver(x) PROVE NetInv'
<1> DEFINE r == [node |-> x.to, hash |-> x.hash, src |-> x.from]
<1>1. /\ msgs' = msgs \ {x} /\ Called(x.to, x.from)
      /\ UNCHANGED <<up, height, greeted, outages>>
      /\ \/ resolving' = resolving
         \/ /\ x.hash \notin {Hello, ATxn} /\ ~(x.hash <= height[x.to])
            /\ ~InFrontier(x.to, x.hash) /\ resolving' = resolving \cup {r}
  BY DEF Deliver
<1>2. /\ x.from \in Node /\ x.to \in Node /\ x.hash \in Hash /\ Ends(x.from, x.to)
      /\ Ends(x.to, x.from)
  BY DEF NetInv, NetTypes, Star, Ends
<1>3. peers' \in [Node -> SUBSET Node] /\ \A n \in Node : \A q \in peers'[n] : Ends(n, q)
  BY <1>1, <1>2, CalledInv
<1>4. ASSUME resolving' # resolving
      PROVE  /\ r \in [node : Wallets, hash : 1..MaxHeight, src : {Miner}]
             /\ r.hash <= height[Miner] /\ ~InFrontier(x.to, x.hash)
             /\ resolving' = resolving \cup {r}
  <2>1. x.hash \in 1..MaxHeight
    BY <1>1, <1>2, <1>4 DEF Hash
  <2>2. x.hash <= height[x.from] /\ x.hash \in Int /\ height[x.from] \in Int /\ height[x.to] \in Int
    BY <1>2, <2>1 DEF NetInv, NetTypes, AnnouncedIsRecorded
  <2>3. x.to # Miner
    BY <1>1, <1>2, <1>4, <2>2 DEF NetInv, MinerLeads
  <2>4. x.from = Miner /\ x.to \in Wallets
    BY <1>2, <2>3 DEF Ends
  <2> QED BY <1>1, <1>4, <2>1, <2>2, <2>4
<1>5. NetTypes'
  BY <1>1, <1>3, <1>4 DEF NetInv, NetTypes
<1>6. Star' /\ AnnouncedIsRecorded'
  BY <1>1, <1>3 DEF NetInv, Star, AnnouncedIsRecorded, Ends
<1>7. MinerLeads'
  BY <1>1, <1>4 DEF NetInv, MinerLeads
<1>8. OncePerHash'
  BY <1>4 DEF NetInv, OncePerHash, InFrontier
<1> QED BY <1>5, <1>6, <1>7, <1>8 DEF NetInv

\* A block is recorded with those below it; the miner has it, and what is
\* announced of it.
LEMMA ResolveInv == ASSUME NetInv, NEW r \in resolving, Resolve(r) PROVE NetInv'
<1>1. /\ resolving' = resolving \ {r} /\ Called(r.src, r.node)
      /\ UNCHANGED <<up, greeted, outages>>
      /\ \/ UNCHANGED <<height, msgs>>
         \/ /\ r.hash > height[r.node] /\ height' = [height EXCEPT ![r.node] = r.hash]
            /\ msgs' = msgs \cup Bcast(r.node, r.hash)
  BY DEF Resolve
<1>2. /\ r.node \in Wallets /\ r.src = Miner /\ r.hash \in 1..MaxHeight
      /\ r.hash <= height[Miner]
  BY DEF NetInv, NetTypes, MinerLeads
<1>3. r.node \in Node /\ Miner \in Node /\ r.node # Miner /\ r.hash \in Hash /\ Ends(r.src, r.node)
  BY <1>2, NetworkAssumption DEF Node, Hash, Ends
<1>4. peers' \in [Node -> SUBSET Node] /\ \A n \in Node : \A q \in peers'[n] : Ends(n, q)
  BY <1>1, <1>2, <1>3, CalledInv
<1>5. /\ height' \in [Node -> 0..MaxHeight] /\ height'[Miner] = height[Miner]
      /\ \A n \in Node : height'[n] <= height'[Miner] /\ height[n] <= height'[n]
      /\ \A n \in Node : height[n] \in Int /\ height'[n] \in Int
  BY <1>1, <1>2, <1>3, NetworkAssumption DEF NetInv, NetTypes, MinerLeads
<1>6. NetTypes' /\ Star'
  BY <1>1, <1>3, <1>4, <1>5, BcastInv DEF NetInv, NetTypes, Star, Ends
<1>7. MinerLeads' /\ OncePerHash'
  BY <1>1, <1>5 DEF NetInv, MinerLeads, OncePerHash
<1>8. AnnouncedIsRecorded'
  <2> SUFFICES ASSUME NEW x \in msgs', x.hash \in 1..MaxHeight PROVE x.hash <= height'[x.from]
    BY DEF AnnouncedIsRecorded
  <2>1. CASE x \in msgs
    <3>1. x.from \in Node /\ x.hash <= height[x.from]
      BY <2>1 DEF NetInv, NetTypes, AnnouncedIsRecorded
    <3> QED BY <1>5, <3>1
  <2>2. CASE x \notin msgs
    <3>1. x \in Bcast(r.node, r.hash) /\ height' = [height EXCEPT ![r.node] = r.hash]
      BY <1>1, <2>2
    <3>2. x.from = r.node /\ x.hash = r.hash
      BY <1>3, <3>1, BcastInv
    <3>3. height'[r.node] = r.hash
      BY <1>3, <3>1 DEF NetInv, NetTypes
    <3> QED BY <1>2, <3>2, <3>3
  <2> QED BY <2>1, <2>2
<1> QED BY <1>6, <1>7, <1>8 DEF NetInv

\* What fails, and outages, only take away.
LEMMA FaultInv ==
  ASSUME NetInv,
         \/ \E x \in msgs : DialFails(x)
         \/ \E r \in resolving : ResolveFails(r)
         \/ \E n \in Node : Outage(n) \/ Reachable(n)
  PROVE  NetInv'
<1>1. ASSUME NEW x \in msgs, DialFails(x) PROVE NetInv'
  <2>1. /\ msgs' = msgs \ {x} /\ peers' = [peers EXCEPT ![x.from] = @ \ {x.to}]
        /\ UNCHANGED <<up, height, resolving, greeted, outages>>
    BY <1>1 DEF DialFails
  <2>2. peers' \in [Node -> SUBSET Node] /\ \A n \in Node : peers'[n] \subseteq peers[n]
    BY <2>1 DEF NetInv, NetTypes
  <2> QED BY <2>1, <2>2 DEF NetInv, NetTypes, Star, Ends, MinerLeads, OncePerHash, AnnouncedIsRecorded
<1>2. ASSUME NEW r \in resolving, ResolveFails(r) PROVE NetInv'
  <2>1. /\ resolving' = resolving \ {r} /\ (Called(r.src, r.node) \/ UNCHANGED peers)
        /\ UNCHANGED <<up, height, msgs, greeted, outages>>
    BY <1>2 DEF ResolveFails
  <2>2. r.node \in Node /\ r.src \in Node /\ Ends(r.src, r.node)
    BY DEF NetInv, NetTypes, Node, Ends
  <2>3. peers' \in [Node -> SUBSET Node] /\ \A n \in Node : \A q \in peers'[n] : Ends(n, q)
    BY <2>1, <2>2, CalledInv DEF NetInv, NetTypes, Star
  <2> QED BY <2>1, <2>3 DEF NetInv, NetTypes, Star, Ends, MinerLeads, OncePerHash, AnnouncedIsRecorded
<1>3. ASSUME NEW n \in Node, Outage(n) \/ Reachable(n) PROVE NetInv'
  <2>1. up' \subseteq Node /\ outages' \in 0..MaxOutages
    BY <1>3, NetworkAssumption DEF Outage, Reachable, NetInv, NetTypes
  <2>2. UNCHANGED <<peers, height, msgs, resolving, greeted>>
    BY <1>3 DEF Outage, Reachable
  <2> QED BY <2>1, <2>2 DEF NetInv, NetTypes, Star, Ends, MinerLeads, OncePerHash, AnnouncedIsRecorded
<1> QED BY <1>1, <1>2, <1>3

\* The star and its order survive every step.
LEMMA NetStep == NetInv /\ [NetNext]_netVars => NetInv'
<1>1. ASSUME NetInv, UNCHANGED netVars PROVE NetInv'
  BY <1>1 DEF netVars, NetInv, NetTypes, Star, Ends, MinerLeads, OncePerHash, AnnouncedIsRecorded
<1> QED BY <1>1, MineInv, TalkInv, DeliverInv, ResolveInv, FaultInv DEF NetNext

-------------------------------------------------------------------------------

\* Types, and one resolution at a time for each hash (client.go:117-134).
THEOREM NetTypesHold == NetSpec => []NetTypeOK
<1>1. NetInv => NetTypeOK
  BY NetworkAssumption DEF NetInv, NetTypes, Star, Ends, OncePerHash, NetTypeOK
<1> QED BY NetInitially, NetStep, <1>1, PTL DEF NetSpec

\* Whoever is asked for a block has it and serves it, with any number of wallet
\* servers, though these announce blocks they do not serve (block.go:356).
THEOREM FetchesFind == NetSpec => []NoFutileFetch
<1>1. NetInv => NoFutileFetch
  BY DEF NetInv, NetTypes, MinerLeads, NoFutileFetch, Serves
<1> QED BY NetInitially, NetStep, <1>1, PTL DEF NetSpec

\* An announcement follows the write of the block (client.go:231-243).
THEOREM AnnouncementsAreTrue == NetSpec => []AnnouncedIsRecorded
<1>1. NetInv => AnnouncedIsRecorded
  BY DEF NetInv
<1> QED BY NetInitially, NetStep, <1>1, PTL DEF NetSpec
===============================================================================
