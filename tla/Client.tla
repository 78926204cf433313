-------------------------------- MODULE Client --------------------------------
(***************************************************************************)
(* One OZcoin client: the run loop with its frontier, the goroutines it    *)
(* spawns for block hashes, transaction hashes, mined blocks and signed    *)
(* transactions, and the databases they write.  The goroutines take turns  *)
(* by receiving a signal on startChan.  Every database write is a step of  *)
(* its own, because RPC handlers read the databases at any time, a write   *)
(* may fail and the process may die between two of them.                   *)
(***************************************************************************)
EXTENDS Blocks, Naturals, FiniteSets

CONSTANTS
  Type,     \* "BLOCKCHAIN_CLIENT" or "SVP_CLIENT"
  Announced, \* the blocks whose hashes peers may announce
  Mine,     \* the blocks this node's miner may find, if it is a miner's client
  Signing   \* the transactions the wallet server may sign, if it is the server's client

ASSUME ClientAssumption ==
  /\ Type \in {"BLOCKCHAIN_CLIENT", "SVP_CLIENT"}
  /\ Announced \subseteq Block /\ Mine \subseteq Block /\ Signing \subseteq Txn

VARIABLES
  headerDB, blockDB, mapDB, pimgDB, txnPoolDB,   \* LevelDB stores
  orphanHeaderDB, orphanBlockDB,
  lastHeader,   \* LastHeader, in memory only
  frontier,     \* hashes being resolved, local to run
  senders,      \* goroutines blocked in startChan <- SIGNAL
  pc, at,       \* per goroutine: where it is, and the block of its inner frame
  posting,      \* Wallet.NewBlock goroutines with a POST under way
  told,         \* blocks the wallet server has answered for
  sent,         \* hashes broadcast to the peers so far
  minted,       \* hashes that came in from the miner and the wallet so far
  expired       \* blocks more than two hours old

disk == <<headerDB, blockDB, mapDB, pimgDB, txnPoolDB, orphanHeaderDB, orphanBlockDB>>
sched == <<frontier, senders>>
wallet == <<posting, told>>
world == <<sent, minted, expired>>
vars == <<disk, lastHeader, sched, pc, at, wallet, world>>

(* A goroutine is named by the function it runs and the hash it is for.   *)
BlockOp == [call : {"AddOrOrphan"}, hash : Announced] \cup [call : {"AdoptMinedBlock"}, hash : Mine]
TxnOp == [call : {"AddToTxnPool"}, hash : Txn] \cup [call : {"AdoptTxn"}, hash : Signing]
Op == BlockOp \cup TxnOp

AddOrOrphan(b) == [call |-> "AddOrOrphan", hash |-> b]
AdoptMinedBlock(b) == [call |-> "AdoptMinedBlock", hash |-> b]
AddToTxnPool(t) == [call |-> "AddToTxnPool", hash |-> t]
AdoptTxn(t) == [call |-> "AdoptTxn", hash |-> t]

\* Steps of AddOrOrphanHelper and AdoptMinedBlock before ExtendMainChain ...
Deciding == {"resolve", "reject", "orphan", "mined"}
\* ... of ExtendMainChain and WriteBlock, in the order of the code ...
Extending == {"verify", "header", "block", "preimages", "map", "pool", "head"}
\* ... and after it; "submit" is the body of the two transaction handlers.
Ending == {"adopted", "bcast", "finish"}
PC == {"idle", "wait", "submit"} \cup Deciding \cup Extending \cup Ending

Holding(o) == pc[o] \notin {"idle", "wait"}

-------------------------------------------------------------------------------
Init ==
  /\ headerDB = {} /\ blockDB = {} /\ pimgDB = {} /\ txnPoolDB = {}
  /\ mapDB = [k \in Output \cup Preimage |-> NoHash]
  /\ orphanHeaderDB = {} /\ orphanBlockDB = {}
  /\ lastHeader = NoHead
  /\ frontier = {} /\ senders = 1
  /\ pc = [o \in Op |-> "idle"] /\ at = [o \in Op |-> NoHash]
  /\ posting = {} /\ told = {} /\ sent = {} /\ minted = {} /\ expired = {}

Goto(o, l) == pc' = [pc EXCEPT ![o] = l]
Enter(o, b, l) == Goto(o, l) /\ at' = [at EXCEPT ![o] = b]

-------------------------------------------------------------------------------
(* The run loop.                                                           *)

\* Mutant: the run loop offers a signal for every goroutine it spawns.
SpawnWithSignal(o) ==
  /\ pc[o] = "idle"
  /\ frontier' = frontier \cup {o.hash} /\ senders' = senders + 1
  /\ Goto(o, "wait")
  /\ UNCHANGED <<disk, lastHeader, at, wallet, sent, expired>>

\* A hash the run loop accepts: put into the frontier, its goroutine spawned.
Spawn(o) ==
  /\ pc[o] = "idle"
  /\ frontier' = frontier \cup {o.hash}
  /\ Goto(o, "wait")
  /\ UNCHANGED <<disk, lastHeader, senders, at, wallet, sent, expired>>

\* FilterBlock: only headerDB can make a block known, because the getters of
\* the side and orphan databases unmarshal into a nil pointer and always fail.
FilterBlock(b) == b \in headerDB

\* Peers know a block of this node's miner only after it was broadcast.
RecvBlockHash(b) ==
  /\ b \in Mine => b \in sent
  /\ b \notin frontier /\ ~FilterBlock(b)
  /\ Spawn(AddOrOrphan(b)) /\ UNCHANGED minted

\* FilterTxn: the pool is keyed by transaction hash; the second lookup is for
\* the transaction's hash among the preimages.
FilterTxn(t) == t \in txnPoolDB \/ t \in pimgDB

RecvTxnHash(t) ==
  /\ t \in Signing => t \in sent
  /\ t \notin frontier /\ ~FilterTxn(t)
  /\ Spawn(AddToTxnPool(t)) /\ UNCHANGED minted

\* A block from the miner: a nonce is found once, so a block comes once.
RecvBlock(b) ==
  /\ b \notin minted
  /\ Spawn(AdoptMinedBlock(b)) /\ minted' = minted \cup {b}

\* A transaction from the wallet's signer, fresh randomness each time.
RecvTxn(t) ==
  /\ t \notin minted
  /\ Spawn(AdoptTxn(t)) /\ minted' = minted \cup {t}

\* Mutant: startChan is closed, so that every receiver goes on at once.
StartFromClosed(o) ==
  /\ pc[o] = "wait" /\ senders > 0
  /\ IF o.call = "AddOrOrphan" THEN Enter(o, o.hash, "resolve")
     ELSE IF o.call = "AdoptMinedBlock" THEN Enter(o, o.hash, "mined")
     ELSE Goto(o, "submit") /\ UNCHANGED at
  /\ UNCHANGED <<disk, lastHeader, sched, wallet, world>>

\* One blocked sender meets one blocked receiver on startChan.
Start(o) ==
  /\ pc[o] = "wait" /\ senders > 0
  /\ senders' = senders - 1
  /\ IF o.call = "AddOrOrphan" THEN Enter(o, o.hash, "resolve")
     ELSE IF o.call = "AdoptMinedBlock" THEN Enter(o, o.hash, "mined")
     ELSE Goto(o, "submit") /\ UNCHANGED at
  /\ UNCHANGED <<disk, lastHeader, frontier, wallet, world>>

\* Mutant: the next sender is spawned, the hash stays in the frontier.
DoneNotForgotten(o) ==
  /\ pc[o] = "finish"
  /\ senders' = senders + 1 /\ Enter(o, NoHash, "idle")
  /\ UNCHANGED <<disk, lastHeader, frontier, wallet, world>>

\* doneChan: the run loop forgets the hash and spawns the next sender.
Done(o) ==
  /\ pc[o] = "finish"
  /\ frontier' = frontier \ {o.hash} /\ senders' = senders + 1
  /\ Enter(o, NoHash, "idle")
  /\ UNCHANGED <<disk, lastHeader, wallet, world>>

-------------------------------------------------------------------------------
(* AddOrOrphanHelper.  at[o] is the block of the innermost call; the call  *)
(* below it is for the block on the way to o.hash whose PrevHash is at[o]. *)

ValidHeader(b) == b \notin expired
Stored(b) == Type = "BLOCKCHAIN_CLIENT" /\ b \in blockDB

\* Mutant: a client without a head takes any block.
ExtendsMainOrEmpty(b) == Prev[b] = lastHeader \/ Prev[b] = NoHash \/ lastHeader = NoHead

ExtendsMain(b) == Prev[b] = lastHeader \/ Prev[b] = NoHash

Caller(o) == CHOOSE c \in Ancestors[o.hash] : Prev[c] = at[o]

Unchanged(o) == UNCHANGED <<disk, lastHeader, sched, wallet, world>>

\* Mutant: the error return forgets to signal completion.
FetchFailsSilently(o) ==
  /\ pc[o] = "resolve" /\ ~Stored(at[o])
  /\ Enter(o, NoHash, "idle") /\ Unchanged(o)

\* LoadOrFetchBlock fails: not stored, and the peer does not serve it.
FetchFails(o) ==
  /\ pc[o] = "resolve" /\ ~Stored(at[o])
  /\ Goto(o, "finish") /\ UNCHANGED at /\ Unchanged(o)

\* ValidHeader or PrevalidBlock is false.
ResolveInvalid(o) ==
  /\ pc[o] = "resolve" /\ ~(ValidHeader(at[o]) /\ at[o] \in WellFormed)
  /\ Goto(o, "reject") /\ UNCHANGED at /\ Unchanged(o)

Resolvable(o) == pc[o] = "resolve" /\ ValidHeader(at[o]) /\ at[o] \in WellFormed

ResolveMain(o) ==
  /\ Resolvable(o) /\ ExtendsMain(at[o])
  /\ Goto(o, "verify") /\ UNCHANGED at /\ Unchanged(o)

\* The parent is in the main database: ExtendSideChain.  Its first call,
\* FindForkPaths, reads the side header database and always fails, and with it
\* every caller.
ResolveSide(o) ==
  /\ Resolvable(o) /\ ~ExtendsMain(at[o]) /\ Prev[at[o]] \in headerDB
  /\ Goto(o, "finish") /\ UNCHANGED at /\ Unchanged(o)

\* The parent is unknown: call AddOrOrphanHelper for it.
ResolveParent(o) ==
  /\ Resolvable(o) /\ ~ExtendsMain(at[o]) /\ Prev[at[o]] \notin headerDB
  /\ Enter(o, Prev[at[o]], "resolve") /\ Unchanged(o)

\* Return (false, nil): the outermost call is done, any other call's caller
\* puts its own header and block into the orphan databases and returns the same.
Reject(o) ==
  /\ pc[o] = "reject"
  /\ IF at[o] = o.hash
     THEN Goto(o, "finish") /\ UNCHANGED <<at, orphanHeaderDB>>
     ELSE /\ orphanHeaderDB' = orphanHeaderDB \cup {Caller(o)}
          /\ Enter(o, Caller(o), "orphan")
  /\ UNCHANGED <<headerDB, blockDB, mapDB, pimgDB, txnPoolDB, orphanBlockDB,
                 lastHeader, sched, wallet, world>>

PutOrphanBlock(o) ==
  /\ pc[o] = "orphan"
  /\ orphanBlockDB' = IF Type = "BLOCKCHAIN_CLIENT"
                      THEN orphanBlockDB \cup {at[o]} ELSE orphanBlockDB
  /\ Goto(o, "reject") /\ UNCHANGED at
  /\ UNCHANGED <<headerDB, blockDB, mapDB, pimgDB, txnPoolDB, orphanHeaderDB,
                 lastHeader, sched, wallet, world>>

\* Mutant: a mined block is adopted although the head has moved on.
CheckMinedStale(o) ==
  /\ pc[o] = "mined"
  /\ Goto(o, IF ValidHeader(at[o]) /\ at[o] \in WellFormed THEN "verify" ELSE "finish")
  /\ UNCHANGED at /\ Unchanged(o)

\* AdoptMinedBlock: a block that is not a first block must extend LastHeader.
CheckMined(o) ==
  /\ pc[o] = "mined"
  /\ Goto(o, IF /\ at[o] \in SeqZero \/ Prev[at[o]] = lastHeader
                /\ ValidHeader(at[o]) /\ at[o] \in WellFormed
             THEN "verify" ELSE "finish")
  /\ UNCHANGED at /\ Unchanged(o)

-------------------------------------------------------------------------------
(* ExtendMainChain.                                                        *)

\* Mutant: no look-up of the preimage.
VerifyTxnNoPreimage(t) == (\A i \in Inputs[t] : mapDB[i] # NoHash) /\ t \in Signed

\* Each transaction is checked against the databases alone, not against the
\* other transactions of its block.
VerifyTxn(t) ==
  /\ Pimg[t] \notin pimgDB
  /\ \A i \in Inputs[t] : mapDB[i] # NoHash
  /\ t \in Signed

VerifyTxns(b) == b \in RightCoinbase /\ \A t \in Txns[b] : VerifyTxn(t)

PostValidBlock(b) == b \in RightDifficulty /\ VerifyTxns(b)

\* FindOutput returns neither an output nor an error when the output cannot be
\* loaded and no peer has it; VerifyTxn dereferences it if it is mapped.
Loadable(i) == Stored(mapDB[i]) /\ i \in OutputsOf(mapDB[i])
NilOutput(b) == \E t \in Txns[b] : \E i \in Inputs[t] :
                  Pimg[t] \notin pimgDB /\ mapDB[i] # NoHash /\ ~Loadable(i)

Verify(o) ==
  /\ pc[o] = "verify"
  /\ Goto(o, IF PostValidBlock(at[o]) THEN "header" ELSE "reject")
  /\ UNCHANGED at /\ Unchanged(o)

\* Mutant: no block is written, whatever the client's type.
PutHeaderOnly(o) ==
  /\ pc[o] = "header"
  /\ headerDB' = headerDB \cup {at[o]}
  /\ Goto(o, "preimages")
  /\ UNCHANGED <<blockDB, mapDB, pimgDB, txnPoolDB, orphanHeaderDB, orphanBlockDB,
                 lastHeader, sched, at, wallet, world>>

\* Mutant: the wallet is told before the block is written.
PutHeaderTells(o) ==
  /\ pc[o] = "header"
  /\ headerDB' = headerDB \cup {at[o]}
  /\ posting' = IF Type = "SVP_CLIENT" THEN posting \cup {at[o]} ELSE posting
  /\ Goto(o, IF Type = "BLOCKCHAIN_CLIENT" THEN "block" ELSE "preimages")
  /\ UNCHANGED <<blockDB, mapDB, pimgDB, txnPoolDB, orphanHeaderDB, orphanBlockDB,
                 lastHeader, sched, at, told, world>>

PutHeader(o) ==
  /\ pc[o] = "header"
  /\ headerDB' = headerDB \cup {at[o]}
  /\ Goto(o, IF Type = "BLOCKCHAIN_CLIENT" THEN "block" ELSE "preimages")
  /\ UNCHANGED <<blockDB, mapDB, pimgDB, txnPoolDB, orphanHeaderDB, orphanBlockDB,
                 lastHeader, sched, at, wallet, world>>

PutBlock(o) ==
  /\ pc[o] = "block"
  /\ blockDB' = blockDB \cup {at[o]}
  /\ Goto(o, "preimages")
  /\ UNCHANGED <<headerDB, mapDB, pimgDB, txnPoolDB, orphanHeaderDB, orphanBlockDB,
                 lastHeader, sched, at, wallet, world>>

PutPreimages(o) ==
  /\ pc[o] = "preimages"
  /\ pimgDB' = pimgDB \cup PimgsOf(at[o])
  /\ Goto(o, "map")
  /\ UNCHANGED <<headerDB, blockDB, mapDB, txnPoolDB, orphanHeaderDB, orphanBlockDB,
                 lastHeader, sched, at, wallet, world>>

PutMapToBlock(o) ==
  /\ pc[o] = "map"
  /\ mapDB' = [k \in DOMAIN mapDB |-> IF k \in MapKeys(at[o]) THEN at[o] ELSE mapDB[k]]
  /\ Goto(o, "pool")
  /\ UNCHANGED <<headerDB, blockDB, pimgDB, txnPoolDB, orphanHeaderDB, orphanBlockDB,
                 lastHeader, sched, at, wallet, world>>

\* The batch deletes by preimage from a pool keyed by transaction hash.
PoolDelete(o) ==
  /\ pc[o] = "pool"
  /\ txnPoolDB' = txnPoolDB \ PimgsOf(at[o])
  /\ Goto(o, "head")
  /\ UNCHANGED <<headerDB, blockDB, mapDB, pimgDB, orphanHeaderDB, orphanBlockDB,
                 lastHeader, sched, at, wallet, world>>

\* The wallet's goroutine is spawned and LastHeader assigned.
SetHead(o) ==
  /\ pc[o] = "head"
  /\ posting' = IF Type = "SVP_CLIENT" THEN posting \cup {at[o]} ELSE posting
  /\ lastHeader' = at[o]
  /\ Goto(o, "adopted")
  /\ UNCHANGED <<disk, sched, at, told, world>>

\* Mutant: the error of a write is logged and the handler goes on.
WriteFailsIgnored(o) ==
  /\ pc[o] \in {"header", "block", "preimages", "map", "pool"}
  /\ Goto(o, "head") /\ UNCHANGED at /\ Unchanged(o)

\* A write returns an error: the handler gives up, what was written stays.
WriteFails(o) ==
  /\ pc[o] \in {"reject", "orphan", "header", "block", "preimages", "map", "pool", "submit"}
  /\ Goto(o, "finish") /\ UNCHANGED at /\ Unchanged(o)

\* Return (true, nil): the outermost call broadcasts; any other call's caller
\* looks its parent up again and extends the main chain.
Adopted(o) ==
  /\ pc[o] = "adopted"
  /\ IF at[o] = o.hash THEN Goto(o, "bcast") /\ UNCHANGED at
     ELSE Enter(o, Caller(o), IF at[o] \in headerDB THEN "verify" ELSE "finish")
  /\ Unchanged(o)

-------------------------------------------------------------------------------
(* The transaction handlers, and the broadcast all four handlers share.    *)

Acceptable(t) == t \in ValidTxn \cup ValidCoinbaseTxn

SubmitTxn(o) ==
  /\ pc[o] = "submit" /\ Acceptable(o.hash)
  /\ txnPoolDB' = txnPoolDB \cup {o.hash}
  /\ Goto(o, "bcast")
  /\ UNCHANGED <<headerDB, blockDB, mapDB, pimgDB, orphanHeaderDB, orphanBlockDB,
                 lastHeader, sched, at, wallet, world>>

\* Not valid or, unless the transaction came with the call, neither in the
\* pool (LoadTxn; a transaction's hash is never in mapDB) nor served by the peer.
SubmitFails(o) ==
  /\ pc[o] = "submit"
  /\ ~Acceptable(o.hash) \/ (o.call = "AddToTxnPool" /\ o.hash \notin txnPoolDB)
  /\ Goto(o, "finish") /\ UNCHANGED at /\ Unchanged(o)

Bcast(o) ==
  /\ pc[o] = "bcast"
  /\ sent' = sent \cup {o.hash}
  /\ Goto(o, "finish")
  /\ UNCHANGED <<disk, lastHeader, sched, at, wallet, minted, expired>>

-------------------------------------------------------------------------------
(* The world around the client.                                            *)

WalletAnswers(b) ==
  /\ b \in posting /\ posting' = posting \ {b} /\ told' = told \cup {b}
  /\ UNCHANGED <<disk, lastHeader, sched, pc, at, world>>

\* The POST fails; it is not repeated.
WalletLost(b) ==
  /\ b \in posting /\ posting' = posting \ {b}
  /\ UNCHANGED <<disk, lastHeader, sched, pc, at, told, world>>

\* Two hours after Header.Time the block no longer passes ValidHeader.
Expire(b) ==
  /\ b \notin expired /\ expired' = expired \cup {b}
  /\ UNCHANGED <<disk, lastHeader, sched, pc, at, wallet, sent, minted>>

\* The process dies and is started again on the same databases.
Restart ==
  /\ lastHeader' = NoHead /\ frontier' = {} /\ senders' = 1
  /\ pc' = [o \in Op |-> "idle"] /\ at' = [o \in Op |-> NoHash]
  /\ posting' = {}
  /\ UNCHANGED <<disk, told, world>>

\* The nil dereference in VerifyTxn takes the process down.
VerifyPanics(o) ==
  pc[o] = "verify" /\ at[o] \in RightDifficulty /\ NilOutput(at[o]) /\ Restart

-------------------------------------------------------------------------------
\* What the run loop receives from peers, and from the node's own miner and
\* wallet.
FromPeers == (\E b \in Announced : RecvBlockHash(b)) \/ (\E t \in Txn : RecvTxnHash(t))
FromNode == (\E b \in Mine : RecvBlock(b)) \/ (\E t \in Signing : RecvTxn(t))

\* A step of the goroutine that holds the signal, when no write fails.
Work(o) ==
  \/ FetchFails(o) \/ ResolveInvalid(o) \/ ResolveMain(o) \/ ResolveSide(o)
  \/ ResolveParent(o) \/ Reject(o) \/ PutOrphanBlock(o) \/ CheckMined(o)
  \/ Verify(o) \/ PutHeader(o) \/ PutBlock(o) \/ PutPreimages(o) \/ PutMapToBlock(o)
  \/ PoolDelete(o) \/ SetHead(o) \/ Adopted(o)
  \/ SubmitTxn(o) \/ SubmitFails(o) \/ Bcast(o)

Wallet == \E b \in Block : WalletAnswers(b) \/ WalletLost(b)

Turns == \E o \in Op : Start(o) \/ Work(o) \/ Done(o)

\* What happens without faults: no crash, no failed write, no block too old.
Steady == FromPeers \/ FromNode \/ Wallet \/ Turns

Faults ==
  \/ Restart
  \/ \E b \in Block : Expire(b)
  \/ \E o \in Op : WriteFails(o) \/ VerifyPanics(o)

Next == Steady \/ Faults

Spec == Init /\ [][Next]_vars

(* Every spawned goroutine goes on: a step that only depends on this       *)
(* process is taken, an RPC returns, and since a Go channel serves its     *)
(* waiting receivers in order of arrival, each waiting goroutine gets the  *)
(* signal if it is sent again and again.  The run loop's select picks at   *)
(* random among what is ready, so a message on doneChan is received.       *)
Fairness ==
  \A o \in Op : WF_vars(Work(o)) /\ WF_vars(Done(o)) /\ SF_vars(Start(o))

SteadySpec == Init /\ [][Steady]_vars /\ Fairness

\* A network that announces every block until it is recorded, and serves every
\* block that is asked for again and again.
Served(o, b) == at[o] = b /\ (ResolveMain(o) \/ ResolveParent(o))

ServedSpec ==
  /\ SteadySpec
  /\ \A b \in Announced : WF_vars(RecvBlockHash(b))
  /\ \A o \in BlockOp, b \in Block : SF_vars(Served(o, b))

-------------------------------------------------------------------------------
(* Properties.                                                             *)

Weight(b) == Cardinality(Ancestors[b])
Live(o) == pc[o] # "idle"

\* The state has the types of the declarations in client.go and db.go.
TypeOK ==
  /\ headerDB \subseteq Block /\ blockDB \subseteq Block
  /\ mapDB \in [Output \cup Preimage -> Block \cup {NoHash}]
  /\ pimgDB \subseteq Preimage /\ txnPoolDB \subseteq Txn
  /\ orphanHeaderDB \subseteq Block /\ orphanBlockDB \subseteq Block
  /\ lastHeader \in Block \cup {NoHead}
  /\ frontier \subseteq Block \cup Txn /\ senders \in {0, 1}
  /\ pc \in [Op -> PC] /\ at \in [Op -> Block \cup {NoHash}]
  /\ posting \subseteq Block /\ told \subseteq Block
  /\ sent \subseteq Block \cup Txn /\ minted \subseteq Mine \cup Signing
  /\ expired \subseteq Block

\* The signal of startChan is never lost and never duplicated: either a sender
\* offers it or exactly one goroutine works, through every error return,
\* recursion and restart (run, client.go:111-113 and 165-168; "Wait to make
\* chain operations atomic", consensus.go:18).
OneSignal ==
  /\ \A o, p \in Op : Holding(o) /\ Holding(p) => o = p
  /\ senders = 0 <=> \E o \in Op : Holding(o)

\* The frontier is exactly the set of hashes with a goroutine: no hash is
\* resolved twice at a time, none is forgotten while it is, and none stays
\* behind to be ignored for ever (client.go:121, 133, 167).
FrontierExact ==
  /\ frontier = {o.hash : o \in {p \in Op : Live(p)}}
  /\ \A o, p \in Op : Live(o) /\ Live(p) /\ o.hash = p.hash => o = p

\* Wherever the recursion of AddOrOrphanHelper stands, its block lies on the
\* path below the hash it was started for, so the frames it returns through
\* are the blocks between the two (consensus.go:87-88).
OnPath == \A o \in BlockOp : Holding(o) => at[o] \in Ancestors[o.hash]

\* Headers are adopted parents first: the chain below a header in headerDB is
\* in headerDB, which NthAncestorHeader walks (chain.go:99-121).
HeadersClosed == \A b \in headerDB : Ancestors[b] \subseteq headerDB

\* The chain below LastHeader was written completely: its headers, its blocks
\* if this client stores blocks, its preimages and a map entry for everything
\* in it; a failed write or a crash half-way never leaves a head with a hole
\* (ExtendMainChain and WriteBlock, consensus.go:136-157).
HeadComplete ==
  \A b \in ChainOf(lastHeader) :
    /\ b \in headerDB /\ PimgsOf(b) \subseteq pimgDB
    /\ Type = "BLOCKCHAIN_CLIENT" => b \in blockDB
    /\ \A k \in MapKeys(b) : mapDB[k] # NoHash

\* Two blocks of the chain below LastHeader never spend the same preimage, for
\* any interleaving of announcements, forks, failed writes and restarts
\* (VerifyTxn, txn.go:350-361, reads pimgDB long before WriteBlock adds to it).
NoDoubleSpend ==
  \A b, c \in ChainOf(lastHeader) : b # c => PimgsOf(b) \cap PimgsOf(c) = {}

\* A blockchain client can load every output its map names, so VerifyTxn never
\* dereferences the nil that FindOutput returns (block before preimages before
\* map in WriteBlock, block.go:256-290; txn.go:367-386).
MappedIsStored ==
  Type = "BLOCKCHAIN_CLIENT" =>
    \A k \in DOMAIN mapDB : mapDB[k] # NoHash =>
       mapDB[k] \in blockDB /\ k \in MapKeys(mapDB[k])

\* A blockchain client serves what it announces: LoadBlock or GetTxnPool finds
\* every hash it has ever broadcast, also after a restart (consensus.go:29-31,
\* gossip.go:220 and 263).
SentIsServed ==
  Type = "BLOCKCHAIN_CLIENT" => sent \subseteq blockDB \cup txnPoolDB

\* The wallet hears only of blocks that are recorded in full, whatever becomes
\* of LastHeader or of the process afterwards (consensus.go:147-157).
WalletHearsRecorded ==
  \A b \in posting \cup told : /\ b \in headerDB /\ PimgsOf(b) \subseteq pimgDB
                             /\ \A k \in MapKeys(b) : mapDB[k] # NoHash

\* While a goroutine of this client extends the chain with a block, nothing it
\* decided on changes: LastHeader still is the parent and no preimage of the
\* block was recorded by anyone else (consensus.go:70-157 reads, then writes).
\* When the recursion comes back from an adopted parent, the parent is the head
\* and in headerDB: the code after the second GetHeader, up to "THIS SHOULD
\* NEVER HAPPEN", is never reached (consensus.go:110-123).
DecisionHolds ==
  \A o \in BlockOp :
    /\ pc[o] \in Extending => ExtendsMain(at[o])
    /\ pc[o] \in {"header", "block", "preimages"} => PimgsOf(at[o]) \cap pimgDB = {}
    /\ pc[o] = "adopted" => at[o] = lastHeader /\ at[o] \in headerDB

\* The client implements the ledger of module Ledger, LastHeader being its tip.
L == INSTANCE Ledger WITH tip <- lastHeader
ImplementsLedger == L!Spec

\* Every hash accepted into the frontier is resolved: the handler ends, however
\* it fails, and the hash may be announced again (doneChan, client.go:165-168).
Resolved == \A h \in Block \cup Txn : h \in frontier ~> h \notin frontier

\* The chain with the most work becomes the main chain and stays it, if its last
\* block is announced again and again and its blocks are served: "If this new
\* chain is heavier than the main chain, the main chain is swapped for the side
\* chain" (consensus.go:162-165).  All blocks are of INITIAL_DIFFICULTY.
HeaviestWins ==
  \A b \in Block : (\A c \in Block \ {b} : Weight(c) < Weight(b)) => <>[](lastHeader = b)
===============================================================================
