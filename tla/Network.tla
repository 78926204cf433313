-------------------------------- MODULE Network --------------------------------
(***************************************************************************)
(* Clients and what they know of each other.  A wallet server is started   *)
(* with the address of the miner and says hello to it; everybody else      *)
(* learns an address when it is called.  A block hash is announced to all  *)
(* peers, each by a goroutine of its own, and fetched from the one that    *)
(* announced it; who cannot be dialled is forgotten.  The chain has no     *)
(* forks here (module Client has them): a block is its height, and a       *)
(* client has recorded the blocks up to some height.                       *)
(***************************************************************************)
EXTENDS Integers, FiniteSets

CONSTANTS
  Miner,       \* the miner, a client that stores blocks
  Wallets,     \* the clients of wallet servers, which store headers only
  MaxHeight,   \* bound: blocks that are mined
  MaxOutages   \* bound: how often a client becomes unreachable

ASSUME NetworkAssumption == Miner \notin Wallets /\ MaxHeight \in Nat /\ MaxOutages \in Nat

Node == Wallets \cup {Miner}
Hello == 0              \* SHA256Sum{}
ATxn == -1              \* the hash of a transaction
Hash == {ATxn, Hello} \cup 1..MaxHeight

VARIABLES
  up,         \* clients that can be dialled
  peers,      \* peerDB of each client
  height,     \* the last block of each client, 0 for none
  msgs,       \* announcements whose sender has not dialled yet
  resolving,  \* goroutines that AddOrOrphan runs in
  greeted,    \* wallet servers whose five seconds are over
  outages

netVars == <<up, peers, height, msgs, resolving, greeted, outages>>

NetInit ==
  /\ up \in {Node, Wallets}
  /\ peers = [n \in Node |-> IF n \in Wallets THEN {Miner} ELSE {}]
  /\ height = [n \in Node |-> 0]
  /\ msgs = {} /\ resolving = {} /\ greeted = {} /\ outages = 0

\* Mutant: the list of peers ends before its last entry.
BcastToOne(n, h) == {[from |-> n, to |-> p, hash |-> h] : p \in {q \in peers[n] : peers[n] = {q}}}

\* The announcements that BcastBlock and BcastTxn start.
Bcast(n, h) == {[from |-> n, to |-> p, hash |-> h] : p \in peers[n]}

\* Mutant: the announcement leaves before the block is written.
MineUnwritten(n) ==
  /\ n = Miner /\ n \in up /\ height[n] < MaxHeight
  /\ msgs' = msgs \cup Bcast(n, height[n] + 1)
  /\ \E h \in {height[n], height[n] + 1} : height' = [height EXCEPT ![n] = h]
  /\ UNCHANGED <<up, peers, resolving, greeted, outages>>

\* AdoptMinedBlock.
Mine(n) ==
  /\ n = Miner /\ n \in up /\ height[n] < MaxHeight
  /\ height' = [height EXCEPT ![n] = @ + 1]
  /\ msgs' = msgs \cup Bcast(n, height[n] + 1)
  /\ UNCHANGED <<up, peers, resolving, greeted, outages>>

\* NewWalletServer, five seconds after its start.
SayHello(w) ==
  /\ w \in Wallets \ greeted
  /\ greeted' = greeted \cup {w} /\ msgs' = msgs \cup Bcast(w, Hello)
  /\ UNCHANGED <<up, peers, height, resolving, outages>>

\* AdoptTxn, when the wallet server has signed.
SendTxn(w) ==
  /\ w \in Wallets /\ w \in up
  /\ msgs' = msgs \cup Bcast(w, ATxn)
  /\ UNCHANGED <<up, peers, height, resolving, greeted, outages>>

\* Mutant: the server stores its own address.
CalledSelf(n, caller) == peers' = [peers EXCEPT ![n] = @ \cup {n}]

\* HandleRPC puts the caller into peerDB of who is called.
Called(n, caller) == peers' = [peers EXCEPT ![n] = @ \cup {caller}]

InFrontier(n, h) == \E r \in resolving : r.node = n /\ r.hash = h

\* sendBcast reaches the peer: HandleRPC, then the run loop, which resolves a
\* hash that is neither recorded nor being resolved.
Deliver(x) ==
  /\ x.from \in up /\ x.to \in up /\ msgs' = msgs \ {x} /\ Called(x.to, x.from)
  /\ resolving' = IF x.hash \in {Hello, ATxn} \/ x.hash <= height[x.to] \/ InFrontier(x.to, x.hash)
                  THEN resolving
                  ELSE resolving \cup {[node |-> x.to, hash |-> x.hash, src |-> x.from]}
  /\ UNCHANGED <<up, height, greeted, outages>>

\* sendBcast cannot dial the peer, and deletes it.
DialFails(x) ==
  /\ ~(x.from \in up /\ x.to \in up)
  /\ msgs' = msgs \ {x}
  /\ peers' = [peers EXCEPT ![x.from] = @ \ {x.to}]
  /\ UNCHANGED <<up, height, resolving, greeted, outages>>

Serves(r) == r.src = Miner /\ r.hash <= height[r.src]

\* AddOrOrphan fetches the block and those below it from who announced it,
\* records them and announces the block; one already recorded is refused.
Resolve(r) ==
  /\ r.node \in up /\ r.src \in up /\ Serves(r)
  /\ resolving' = resolving \ {r}
  /\ Called(r.src, r.node)
  /\ IF r.hash > height[r.node]
     THEN height' = [height EXCEPT ![r.node] = r.hash] /\ msgs' = msgs \cup Bcast(r.node, r.hash)
     ELSE UNCHANGED <<height, msgs>>
  /\ UNCHANGED <<up, greeted, outages>>

\* Nobody to dial, or a client that does not serve blocks: the hash leaves the
\* frontier, and is tried again only when it is announced again.
ResolveFails(r) ==
  /\ ~(r.node \in up /\ r.src \in up /\ Serves(r))
  /\ resolving' = resolving \ {r}
  /\ IF {r.node, r.src} \subseteq up THEN Called(r.src, r.node) ELSE UNCHANGED peers
  /\ UNCHANGED <<up, height, msgs, greeted, outages>>

\* A client is unreachable for a while; it keeps running and its databases.
Outage(n) ==
  /\ n \in up /\ outages < MaxOutages
  /\ up' = up \ {n} /\ outages' = outages + 1
  /\ UNCHANGED <<peers, height, msgs, resolving, greeted>>

Reachable(n) ==
  /\ n \notin up /\ up' = up \cup {n}
  /\ UNCHANGED <<peers, height, msgs, resolving, greeted, outages>>

NetNext ==
  \/ \E n \in Node : Mine(n) \/ SayHello(n) \/ SendTxn(n) \/ Outage(n) \/ Reachable(n)
  \/ \E x \in msgs : Deliver(x) \/ DialFails(x)
  \/ \E r \in resolving : Resolve(r) \/ ResolveFails(r)

\* Goroutines run, an unreachable client is reached again, the miner mines.
NetFairness ==
  /\ \A n \in Node : WF_netVars(Mine(n)) /\ WF_netVars(SayHello(n)) /\ WF_netVars(Reachable(n))
  /\ \A n, p \in Node, h \in Hash :
       LET x == [from |-> n, to |-> p, hash |-> h]
           r == [node |-> n, hash |-> h, src |-> p]
       IN  /\ WF_netVars(x \in msgs /\ (Deliver(x) \/ DialFails(x)))
           /\ WF_netVars(r \in resolving /\ (Resolve(r) \/ ResolveFails(r)))

NetSpec == NetInit /\ [][NetNext]_netVars /\ NetFairness

-------------------------------------------------------------------------------

NetTypeOK ==
  /\ up \subseteq Node /\ greeted \subseteq Wallets /\ outages \in 0..MaxOutages
  /\ height \in [Node -> 0..MaxHeight]
  /\ \A n \in Node : peers[n] \subseteq Node \ {n}
  /\ msgs \subseteq [from : Node, to : Node, hash : Hash]
  /\ \A q, r \in resolving : q.node = r.node /\ q.hash = r.hash => q = r

\* A block is asked for only from a client that has it and serves it, although
\* a wallet server announces what it cannot serve (LoadBlock, block.go:356):
\* the only peer of a wallet server is the miner, which has the block.
NoFutileFetch == \A r \in resolving : Serves(r)

\* An announcement is about a block its sender has recorded (BcastBlock after
\* WriteBlock, client.go:231-243), so that whoever asks for it gets it.
AnnouncedIsRecorded ==
  \A x \in msgs : x.hash \in 1..MaxHeight => x.hash <= height[x.from]

\* A wallet server the miner knows gets every block that is still to come.
KeepsUp ==
  \A w \in Wallets :
    (w \in peers[Miner] /\ height[Miner] < MaxHeight) ~> (height[w] = MaxHeight)
===============================================================================
