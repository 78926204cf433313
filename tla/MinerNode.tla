------------------------------- MODULE MinerNode -------------------------------
(***************************************************************************)
(* A mining node: the client of module Client together with the goroutine  *)
(* of Miner.run, which mines a first block of its own, writes it and       *)
(* LastHeader without waiting for the signal on startChan, and then builds *)
(* block templates from the transaction pool and sends the blocks it finds *)
(* to the run loop.  LastHeader is a struct of several words that the      *)
(* goroutines share without a lock: what a racing access can see or leave  *)
(* behind is a choice here, NoHead standing for a mixture of two headers,  *)
(* whose hash is nobody's PrevHash.                                        *)
(***************************************************************************)
EXTENDS Client

CONSTANT Own   \* first blocks this miner may mine, one for each start of the process

\* GenesisBlock has a coinbase only.  Blocks that are found build on a header,
\* and a first block is never broadcast: others reach it by the recursion.
ASSUME MinerAssumption ==
  /\ Own \subseteq Block /\ \A b \in Own : Prev[b] = NoHash /\ Txns[b] = {}
  /\ \A b \in Mine \cup Announced : Prev[b] # NoHash

VARIABLES
  run,      \* where Miner.run is
  genesis,  \* the first block of this start of the process
  last,     \* the header Miner.run last built a template on
  template, \* PrevHash and transactions of the block being mined
  due       \* updateTime has fired

miner == <<run, genesis, last, template, due>>
nodeVars == <<vars, miner>>

Nothing == [prev |-> NoHash, txns |-> {}]

MinerInit ==
  run = "genesis" /\ genesis = NoHash /\ last = NoHash /\ template = Nothing /\ due = FALSE

-------------------------------------------------------------------------------
(* Start-up: WriteBlock and the first assignment of LastHeader, next to     *)
(* whatever the client's goroutines do for peers by then.                   *)

\* Mutant: the first block is not written.
GenesisNotPut(b) ==
  /\ run = "genesis" /\ b \notin blockDB
  /\ genesis' = b /\ run' = "map"
  /\ UNCHANGED <<disk, lastHeader, sched, pc, at, wallet, world, last, template, due>>

GenesisPutBlock(b) ==
  /\ run = "genesis" /\ b \notin blockDB
  /\ genesis' = b /\ blockDB' = blockDB \cup {b}
  /\ run' = "map"
  /\ UNCHANGED <<headerDB, mapDB, pimgDB, txnPoolDB, orphanHeaderDB, orphanBlockDB,
                 lastHeader, sched, pc, at, wallet, world, last, template, due>>

GenesisPutMap ==
  /\ run = "map"
  /\ mapDB' = [k \in DOMAIN mapDB |-> IF k \in MapKeys(genesis) THEN genesis ELSE mapDB[k]]
  /\ run' = "assign"
  /\ UNCHANGED <<headerDB, blockDB, pimgDB, txnPoolDB, orphanHeaderDB, orphanBlockDB,
                 lastHeader, sched, pc, at, wallet, world, genesis, last, template, due>>

\* The assignment begins: until it ends, other goroutines may read a mixture.
AssignHead ==
  /\ run = "assign" /\ lastHeader' = NoHead /\ run' = "assigning"
  /\ UNCHANGED <<disk, sched, pc, at, wallet, world, genesis, last, template, due>>

\* It ends.  If SetHead has run in between, either value or a mixture remains.
HeadAssigned ==
  /\ run = "assigning"
  /\ lastHeader' \in {genesis, lastHeader, NoHead}
  /\ lastHeader = NoHead => lastHeader' = genesis
  /\ run' = "first"
  /\ UNCHANGED <<disk, sched, pc, at, wallet, world, genesis, last, template, due>>

-------------------------------------------------------------------------------
(* The mining loop.                                                         *)

HeadMoves == \E o \in BlockOp : pc[o] = "head"

\* What a read of LastHeader sees while SetHead may be under way: the old
\* header, the new one or a mixture; words seen new stay new.
HeadReads(seen) ==
  LET coming == {at[o] : o \in {p \in BlockOp : pc[p] = "head"}}
  IN IF ~HeadMoves THEN {lastHeader}
     ELSE CASE seen \in coming -> {seen}
            [] seen = NoHead   -> {NoHead} \cup coming
            [] OTHER           -> {lastHeader, NoHead} \cup coming

\* Mutant: the loop does not look at LastHeader again.
NoticeFirstHead(h) ==
  /\ h \in HeadReads(last) /\ run = "first"
  /\ last' = h /\ run' = "rebuild"
  /\ UNCHANGED <<vars, genesis, template, due>>

\* Before the loop, and when LastHeader differs from the header of the template:
\* remember its hash ...
NoticeHead(h) ==
  /\ h \in HeadReads(last)
  /\ run = "first" \/ (run = "mine" /\ ~due /\ h # last)
  /\ last' = h /\ run' = "rebuild"
  /\ UNCHANGED <<vars, genesis, template, due>>

\* Mutant: transactions of the pool are not verified again.
TxnsUnverified == txnPoolDB \cap ValidTxn

TxnsFromPool == {t \in txnPoolDB \cap ValidTxn : VerifyTxn(t)}

\* Mutant: the header is remembered after NewBlock, not before.
RebuildThenNotice(h) ==
  /\ run = "rebuild" /\ h \in HeadReads(last)
  /\ template' = [prev |-> h, txns |-> TxnsFromPool]
  /\ run' = "mine" /\ last' \in HeadReads(h)
  /\ UNCHANGED <<vars, genesis, due>>

\* ... and read it again for NewBlock, which takes whatever is in the pool and
\* verifies.
Rebuild(h) ==
  /\ run = "rebuild" /\ h \in HeadReads(last)
  /\ template' = [prev |-> h, txns |-> TxnsFromPool]
  /\ run' = "mine"
  /\ UNCHANGED <<vars, genesis, last, due>>

\* A nonce is found; the run loop takes the block from BlockChan.
Found(b) ==
  /\ run = "mine" /\ ~due
  /\ Prev[b] = template.prev /\ Txns[b] = template.txns
  /\ RecvBlock(b) /\ UNCHANGED miner

\* The timer is reset before the wallet server is asked for a signature, so
\* that it may fire again before the answer.
TimerFires == ~due /\ run \notin {"genesis", "map"} /\ due' = TRUE /\ UNCHANGED <<vars, run, genesis, last, template>>

\* The select prefers a timer that has fired to the default case.  The template
\* gets a new time; the loop waits for the answer.
AskForSignature ==
  /\ run = "mine" /\ due /\ run' = "ask" /\ due' = FALSE
  /\ UNCHANGED <<vars, genesis, last, template>>

SignatureAnswered == run = "ask" /\ run' = "mine" /\ UNCHANGED <<vars, genesis, last, template, due>>

-------------------------------------------------------------------------------
Mining ==
  \/ \E b \in Own : GenesisPutBlock(b)
  \/ GenesisPutMap \/ AssignHead \/ HeadAssigned
  \/ \E h \in Block \cup {NoHead} : NoticeHead(h) \/ Rebuild(h)
  \/ \E b \in Mine : Found(b)
  \/ AskForSignature \/ SignatureAnswered

\* The process of the miner and of its client are one.
NodeRestart ==
  /\ Restart
  /\ run' = "genesis" /\ genesis' = NoHash /\ last' = NoHash /\ template' = Nothing /\ due' = FALSE

NodeInit == Init /\ MinerInit

\* The wallet server answers before the timer fires again.
NodeSteady == Mining \/ (run # "ask" /\ TimerFires) \/ ((FromPeers \/ Turns) /\ UNCHANGED miner)

NodeNext ==
  \/ NodeSteady \/ NodeRestart \/ TimerFires
  \/ (\E b \in Block : Expire(b)) /\ UNCHANGED miner
  \/ (\E o \in Op : WriteFails(o)) /\ UNCHANGED miner

NodeSpec == NodeInit /\ [][NodeNext]_nodeVars

\* The miner's goroutine runs on, and keeps finding nonces; thirty seconds are
\* long enough for the default case to look at LastHeader.
NodeFairness ==
  Fairness /\ WF_nodeVars(Mining) /\ SF_nodeVars(\E h \in Block \cup {NoHead} : NoticeHead(h))
NodeSteadySpec == NodeInit /\ [][NodeSteady]_nodeVars /\ NodeFairness

-------------------------------------------------------------------------------
(* Properties.                                                              *)

MinerTypeOK ==
  /\ TypeOK
  /\ run \in {"genesis", "map", "assign", "assigning", "first", "rebuild", "mine", "ask"}
  /\ genesis \in Own \cup {NoHash} /\ last \in Block \cup {NoHead, NoHash}
  /\ template \in [prev : Block \cup {NoHash, NoHead}, txns : SUBSET Txn]
  /\ due \in BOOLEAN

\* The chain of h starts with a first block of this node that has been adopted
\* once more: Miner.run does not put it into headerDB, so the recursion of
\* AddOrOrphanHelper makes it the head again, and then what builds on it.
Revisited(h) == ChainOf(h) \cap Own \cap headerDB # {}

\* A template is not stuck on a header LastHeader never was or has left: once an
\* assignment of LastHeader is over, either the loop sees a reason to rebuild or
\* it mines on the head, although it reads LastHeader twice without a lock, while
\* it may be half assigned (miner.go:69-73).  The exception are headers that can
\* leave LastHeader between the two reads and come back to it, so that the loop
\* sees no difference.
TemplateOnHead ==
  run = "mine" /\ last = lastHeader /\ ~HeadMoves /\ ~Revisited(lastHeader) =>
    template.prev = lastHeader

\* Transactions that stay in the pool after they were recorded are "benign" and
\* not "added to successive blocks" (README.md:28-30): what is mined on the head
\* spends nothing the chain below it has spent.
PoolIsBenign ==
  run = "mine" /\ template.prev = lastHeader =>
    \A t \in template.txns : Pimg[t] \notin SpentOn(lastHeader)

\* The miner follows the head: it comes to mine on whatever header stays the
\* head, with the same exception (miner.go:69-74).
MinerFollows ==
  \A b \in Block : (run = "mine" /\ lastHeader = b) ~>
                     (lastHeader # b \/ Revisited(b) \/ (run = "mine" /\ template.prev = b))

\* "Let I be the set of all spent preimages. Return 1 if I in I" (the one-time
\* property, whitepaper/zerosum.tex:291-294): each preimage is spent by one
\* transaction of the chain below LastHeader.
SpentOnce ==
  \A b, c \in ChainOf(lastHeader) : \A t \in Txns[b] : \A u \in Txns[c] :
    Pimg[t] = Pimg[u] => b = c /\ t = u
===============================================================================
