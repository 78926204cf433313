----------------------------- MODULE ClientProofs -----------------------------
(***************************************************************************)
(* Proofs about Client, for every set of blocks and transactions, both     *)
(* client types and any number of goroutines.                              *)
(***************************************************************************)
EXTENDS Client, TLAPS

USE DEF AddOrOrphan, AdoptMinedBlock, AddToTxnPool, AdoptTxn

(***************************************************************************)
(* Where a goroutine can be: the steps of the block handlers belong to     *)
(* block goroutines, whose block lies on the path below their hash.        *)
(***************************************************************************)
InBlock == Deciding \cup Extending \cup {"adopted"}

Frames ==
  /\ \A o \in Op : /\ pc[o] \in InBlock => o \in BlockOp
                   /\ pc[o] = "submit" => o \in TxnOp
  /\ OnPath

TypeInv == TypeOK /\ OneSignal /\ Frames

-------------------------------------------------------------------------------
(* A goroutine's hash is a block or a transaction.                         *)
LEMMA OpHash ==
  /\ \A o \in Op : o.hash \in Block \cup Txn
  /\ \A o \in BlockOp : o \in Op /\ o.hash \in Block
  /\ \A o \in TxnOp : o \in Op /\ o.hash \in Txn
  /\ \A b \in Announced : AddOrOrphan(b) \in BlockOp
  /\ \A b \in Mine : AdoptMinedBlock(b) \in BlockOp
  /\ \A t \in Txn : AddToTxnPool(t) \in TxnOp
  /\ \A t \in Signing : AdoptTxn(t) \in TxnOp
BY ClientAssumption DEF Op, BlockOp, TxnOp

(* The paths: a block is on its own path, a path below a path is part of   *)
(* it, and so is the parent of a block that is not a first block.          *)
LEMMA Paths ==
  ASSUME NEW b \in Block
  PROVE  /\ b \in Ancestors[b] /\ Ancestors[b] \subseteq Block
         /\ \A a \in Ancestors[b] :
              Ancestors[a] \subseteq Ancestors[b]
              /\ (Prev[a] # NoHash => Prev[a] \in Ancestors[b])
<1>1. Ancestors[b] \subseteq Block BY ChainAssumption
<1>2. \A x \in Block : x \in Ancestors[x] BY ChainAssumption
<1>3. ASSUME NEW a \in Ancestors[b], Prev[a] # NoHash PROVE Prev[a] \in Ancestors[b]
  <2>1. a \in Block /\ Ancestors[a] \subseteq Ancestors[b] BY <1>1, ChainAssumption
  <2>2. Prev[a] \in Block BY <2>1, <1>3, BlocksAssumption
  <2>3. Ancestors[a] = {a} \cup Ancestors[Prev[a]] BY <2>1, <1>3, ChainAssumption
  <2>4. Prev[a] \in Ancestors[Prev[a]] BY <2>2, <1>2
  <2> QED BY <2>1, <2>3, <2>4
<1> QED BY <1>1, <1>2, <1>3, ChainAssumption

(* A call of AddOrOrphanHelper that is not the outermost one has a caller, *)
(* for the block above it on the path.                                     *)
LEMMA CallerOnPath ==
  ASSUME NEW o \in BlockOp, at[o] \in Ancestors[o.hash], at[o] # o.hash
  PROVE  /\ Caller(o) \in Ancestors[o.hash] /\ Caller(o) \in Block
         /\ Prev[Caller(o)] = at[o]
<1>1. o.hash \in Block BY OpHash
<1>2. \E c \in Ancestors[o.hash] : Prev[c] = at[o] BY <1>1, ChainAssumption
<1>3. Ancestors[o.hash] \subseteq Block BY <1>1, ChainAssumption
<1> QED BY <1>2, <1>3 DEF Caller

-------------------------------------------------------------------------------
(* Type correctness.                                                       *)
LEMMA TypeInit == Init => TypeInv
BY OpHash DEF Init, TypeInv, TypeOK, OneSignal, Holding, Frames, OnPath, PC, InBlock, Deciding, Extending

(* What the steps of a working goroutine have in common: it goes to a place *)
(* l with block b in its inner frame, keeps the signal and stays on its path. *)
Frame == pc \in [Op -> PC] /\ at \in [Op -> Block \cup {NoHash}] /\ OneSignal /\ Frames

LEMMA Works ==
  ASSUME Frame, NEW o \in Op, Holding(o), UNCHANGED senders,
         NEW l \in PC \ {"idle", "wait"}, Goto(o, l),
         l \in InBlock => o \in BlockOp, l # "submit",
         \/ UNCHANGED at
         \/ \E b \in Block : b \in Ancestors[o.hash] /\ at' = [at EXCEPT ![o] = b]
  PROVE  Frame'
<1>1. pc' \in [Op -> PC] /\ at' \in [Op -> Block \cup {NoHash}]
  BY DEF Frame, Goto
<1>2. /\ pc'[o] = l /\ \A p \in Op \ {o} : pc'[p] = pc[p] /\ ~Holding(p) /\ at'[p] = at[p]
  BY DEF Frame, OneSignal, Goto
<1>3. OneSignal'
  BY <1>2 DEF Frame, OneSignal, Holding
<1>4. o \in BlockOp => at'[o] \in Ancestors[o.hash]
  BY DEF Frame, Frames, OnPath
<1>5. Frames'
  BY <1>2, <1>4, OpHash DEF Frame, Frames, OnPath, Holding, InBlock, Deciding, Extending
<1> QED BY <1>1, <1>3, <1>5 DEF Frame

(* The databases and the rest of the state keep their types.               *)
Stores ==
  /\ headerDB \subseteq Block /\ blockDB \subseteq Block
  /\ mapDB \in [Output \cup Preimage -> Block \cup {NoHash}]
  /\ pimgDB \subseteq Preimage /\ txnPoolDB \subseteq Txn
  /\ orphanHeaderDB \subseteq Block /\ orphanBlockDB \subseteq Block
  /\ lastHeader \in Block \cup {NoHead}
  /\ frontier \subseteq Block \cup Txn /\ senders \in {0, 1}
  /\ posting \subseteq Block /\ told \subseteq Block
  /\ sent \subseteq Block \cup Txn /\ minted \subseteq Mine \cup Signing
  /\ expired \subseteq Block

LEMMA TypeSplit == /\ TypeInv <=> Stores /\ Frame
                   /\ TypeInv' <=> Stores' /\ Frame'
BY DEF TypeInv, TypeOK, Stores, Frame

LEMMA WorkFrame ==
  ASSUME Frame, NEW o \in Op, Work(o) \/ WriteFails(o)
  PROVE  Frame'
<1> USE DEF PC, InBlock, Deciding, Extending, Ending, Holding, Unchanged, sched, Enter
<1>1. ASSUME pc[o] \in InBlock
      PROVE  /\ o \in BlockOp /\ at[o] \in Ancestors[o.hash] /\ Ancestors[o.hash] \subseteq Block
             /\ Prev[at[o]] # NoHash => Prev[at[o]] \in Ancestors[o.hash]
             /\ at[o] # o.hash => Caller(o) \in Ancestors[o.hash]
  <2>1. o \in BlockOp /\ o.hash \in Block /\ at[o] \in Ancestors[o.hash]
    BY <1>1, OpHash DEF Frame, Frames, OnPath
  <2> QED BY <2>1, Paths, CallerOnPath
<1>2. CASE FetchFails(o) \/ ResolveInvalid(o) \/ ResolveMain(o) \/ ResolveSide(o)
  BY <1>2, <1>1, Works DEF FetchFails, ResolveInvalid, ResolveMain, ResolveSide, Resolvable
<1>3. CASE ResolveParent(o)
  BY <1>3, <1>1, Works DEF ResolveParent, Resolvable, ExtendsMain
<1>4. CASE Reject(o)
  BY <1>4, <1>1, Works DEF Reject
<1>5. CASE PutOrphanBlock(o)
  BY <1>5, <1>1, Works DEF PutOrphanBlock
<1>6. CASE CheckMined(o) \/ Verify(o)
  BY <1>6, <1>1, Works DEF CheckMined, Verify
<1>7. CASE PutHeader(o)
  BY <1>7, <1>1, Works DEF PutHeader
<1>8. CASE PutBlock(o) \/ PutPreimages(o) \/ PutMapToBlock(o) \/ PoolDelete(o)
  BY <1>8, <1>1, Works DEF PutBlock, PutPreimages, PutMapToBlock, PoolDelete
<1>9. CASE SetHead(o)
  BY <1>9, <1>1, Works DEF SetHead
<1>10. CASE Adopted(o)
  BY <1>10, <1>1, Works DEF Adopted
<1>11. CASE SubmitTxn(o) \/ SubmitFails(o) \/ Bcast(o) \/ WriteFails(o)
  BY <1>11, Works DEF SubmitTxn, SubmitFails, Bcast, WriteFails
<1> QED
  BY <1>2, <1>3, <1>4, <1>5, <1>6, <1>7, <1>8, <1>9, <1>10, <1>11 DEF Work

(* The steps that start, end or kill goroutines.                            *)
LEMMA SpawnFrame ==
  ASSUME Frame, NEW o \in Op, pc[o] = "idle", Goto(o, "wait"), UNCHANGED <<senders, at>>
  PROVE  Frame'
BY OpHash DEF Frame, OneSignal, Frames, OnPath, Goto, Holding, PC, InBlock, Deciding, Extending

LEMMA StartFrame ==
  ASSUME Frame, senders \in {0, 1}, NEW o \in Op, Start(o)
  PROVE  Frame' /\ senders' = 0
<1>1. senders = 1 /\ senders' = 0 /\ \A p \in Op : ~Holding(p)
  BY DEF Start, Frame, OneSignal
<1>2. /\ o \in BlockOp => o.hash \in Block /\ o.hash \in Ancestors[o.hash]
      /\ o.call \in {"AddOrOrphan", "AdoptMinedBlock"} => o \in BlockOp
      /\ o.call \notin {"AddOrOrphan", "AdoptMinedBlock"} => o \in TxnOp
  BY OpHash, Paths DEF Op, BlockOp, TxnOp
<1>3. /\ pc' \in [Op -> PC] /\ at' \in [Op -> Block \cup {NoHash}]
      /\ \A p \in Op \ {o} : pc'[p] = pc[p] /\ at'[p] = at[p]
      /\ \/ o \in BlockOp /\ pc'[o] \in {"resolve", "mined"} /\ at'[o] = o.hash
         \/ o \in TxnOp /\ o \notin BlockOp /\ pc'[o] = "submit"
  <2>1. TxnOp \cap BlockOp = {}
    BY DEF TxnOp, BlockOp
  <2> QED BY <1>2, <2>1 DEF Start, Frame, Enter, Goto, PC, Deciding
<1>4. OneSignal'
  BY <1>1, <1>3 DEF OneSignal, Holding
<1>5. Frames'
  BY <1>1, <1>2, <1>3, OpHash
  DEF Frame, Frames, OnPath, Holding, InBlock, Deciding, Extending
<1> QED BY <1>1, <1>3, <1>4, <1>5 DEF Frame

LEMMA DoneFrame ==
  ASSUME Frame, senders \in {0, 1}, NEW o \in Op, Done(o)
  PROVE  Frame' /\ senders' = 1
<1>1. senders' = 1 /\ \A p \in Op \ {o} : ~Holding(p)
  BY DEF Done, Frame, OneSignal, Holding
<1>2. /\ pc' \in [Op -> PC] /\ at' \in [Op -> Block \cup {NoHash}]
      /\ pc'[o] = "idle" /\ \A p \in Op \ {o} : pc'[p] = pc[p]
  BY DEF Done, Frame, Enter, Goto, PC
<1>3. \A p \in Op : ~(Holding(p))'
  BY <1>1, <1>2 DEF Holding
<1> QED
  BY <1>1, <1>2, <1>3, OpHash
  DEF Frame, OneSignal, Frames, OnPath, Holding, InBlock, Deciding, Extending

LEMMA RestartFrame == Restart => Frame' /\ senders' = 1
BY OpHash DEF Restart, Frame, OneSignal, Frames, OnPath, Holding, PC, InBlock, Deciding,
   Extending

(* A working goroutine writes blocks, preimages and hashes into the stores. *)
LEMMA WorkStores ==
  ASSUME Stores, Frame, NEW o \in Op, Work(o) \/ WriteFails(o)
  PROVE  Stores'
<1> USE DEF disk, sched, wallet, world, Unchanged
<1>1. ASSUME pc[o] \in InBlock
      PROVE  /\ at[o] \in Block /\ o.hash \in Block
             /\ at[o] # o.hash => Caller(o) \in Block
  <2>1. o \in BlockOp /\ o.hash \in Block /\ at[o] \in Ancestors[o.hash]
    BY <1>1, OpHash DEF Frame, Frames, OnPath, Holding, InBlock, Deciding, Extending
  <2> QED BY <2>1, Paths, CallerOnPath
<1>2. CASE \/ FetchFails(o) \/ ResolveInvalid(o) \/ ResolveMain(o) \/ ResolveSide(o)
           \/ ResolveParent(o) \/ CheckMined(o) \/ Verify(o) \/ Adopted(o)
           \/ SubmitFails(o) \/ WriteFails(o)
  BY <1>2 DEF FetchFails, ResolveInvalid, ResolveMain, ResolveSide, ResolveParent,
     CheckMined, Verify, Adopted, SubmitFails, WriteFails, Stores
<1>3. CASE Reject(o) \/ PutOrphanBlock(o) \/ PutHeader(o) \/ PutBlock(o)
  BY <1>3, <1>1
  DEF Reject, PutOrphanBlock, PutHeader, PutBlock, Stores, InBlock, Deciding, Extending
<1>4. CASE PutPreimages(o)
  <2>1. PimgsOf(at[o]) \subseteq Preimage
    BY <1>4, <1>1, BlocksAssumption DEF PutPreimages, PimgsOf, InBlock, Deciding, Extending
  <2> QED BY <1>4, <2>1 DEF PutPreimages, Stores
<1>5. CASE PutMapToBlock(o)
  BY <1>5, <1>1 DEF PutMapToBlock, Stores, InBlock, Deciding, Extending
<1>6. CASE PoolDelete(o) \/ SetHead(o)
  BY <1>6, <1>1 DEF PoolDelete, SetHead, Stores, InBlock, Deciding, Extending
<1>7. CASE SubmitTxn(o)
  BY <1>7, OpHash DEF SubmitTxn, Stores, Frame, Frames
<1>8. CASE Bcast(o)
  BY <1>8, OpHash DEF Bcast, Stores
<1> QED
  BY <1>2, <1>3, <1>4, <1>5, <1>6, <1>7, <1>8 DEF Work

-------------------------------------------------------------------------------
LEMMA TypeStep == TypeInv /\ [Next]_vars => TypeInv'
<1> SUFFICES ASSUME Stores, Frame, [Next]_vars PROVE Stores' /\ Frame'
  BY TypeSplit
<1> USE DEF disk, sched, wallet, world
<1>1. ASSUME NEW b \in Announced, RecvBlockHash(b) PROVE Stores' /\ Frame'
  BY <1>1, OpHash, SpawnFrame DEF RecvBlockHash, Spawn, Stores
<1>2. ASSUME NEW b \in Mine, RecvBlock(b) PROVE Stores' /\ Frame'
  BY <1>2, OpHash, SpawnFrame DEF RecvBlock, Spawn, Stores
<1>3. ASSUME NEW t \in Txn, RecvTxnHash(t) PROVE Stores' /\ Frame'
  BY <1>3, OpHash, SpawnFrame DEF RecvTxnHash, Spawn, Stores
<1>4. ASSUME NEW t \in Signing, RecvTxn(t) PROVE Stores' /\ Frame'
  BY <1>4, OpHash, SpawnFrame DEF RecvTxn, Spawn, Stores
<1>5. ASSUME NEW b \in Block, WalletAnswers(b) \/ WalletLost(b) \/ Expire(b)
      PROVE  Stores' /\ Frame'
  BY <1>5 DEF WalletAnswers, WalletLost, Expire, Stores, Frame, OneSignal, Frames, OnPath,
              Holding
<1>6. ASSUME Restart PROVE Stores' /\ Frame'
  BY <1>6, RestartFrame DEF Restart, Stores
<1>7. ASSUME UNCHANGED vars PROVE Stores' /\ Frame'
  BY <1>7 DEF vars, Stores, Frame, OneSignal, Frames, OnPath, Holding
<1>8. ASSUME NEW o \in Op, Start(o) PROVE Stores' /\ Frame'
  BY <1>8, StartFrame DEF Start, Stores
<1>9. ASSUME NEW o \in Op, Done(o) PROVE Stores' /\ Frame'
  BY <1>9, DoneFrame DEF Done, Stores
<1>10. ASSUME NEW o \in Op, Work(o) \/ WriteFails(o) PROVE Stores' /\ Frame'
  <2>1. Frame'
    BY <1>10, WorkFrame
  <2>2. Stores'
    BY <1>10, WorkStores
  <2> QED BY <2>1, <2>2
<1>11. ASSUME NEW o \in Op, VerifyPanics(o) PROVE Stores' /\ Frame'
  BY <1>6, <1>11 DEF VerifyPanics
<1> QED
  BY <1>1, <1>2, <1>3, <1>4, <1>5, <1>6, <1>7, <1>8, <1>9, <1>10, <1>11
  DEF Next, Steady, Faults, FromPeers, FromNode, Turns, Wallet

LEMMA TypeAlways == Spec => []TypeInv
BY TypeInit, TypeStep, PTL DEF Spec

(* The innermost block of a block handler is on the path below its hash.    *)
LEMMA AtOnPath ==
  ASSUME TypeInv, NEW o \in Op, pc[o] \in InBlock
  PROVE  /\ o \in BlockOp /\ o.hash \in Block /\ at[o] \in Block
         /\ at[o] \in Ancestors[o.hash] /\ Holding(o)
         /\ at[o] # o.hash => Caller(o) \in Ancestors[o.hash] /\ Prev[Caller(o)] = at[o]
<1>1. o \in BlockOp /\ o.hash \in Block /\ at[o] \in Ancestors[o.hash] /\ Holding(o)
  BY OpHash DEF TypeInv, Frames, OnPath, Holding, InBlock, Deciding, Extending
<1> QED BY <1>1, Paths, CallerOnPath

(* The variables keep the types of the declarations in client.go and db.go. *)
THEOREM TypeCorrect == Spec => []TypeOK
<1>1. TypeInv => TypeOK
  BY DEF TypeInv
<1> QED BY <1>1, TypeAlways, PTL

(* The signal on startChan is neither lost nor duplicated, so at most one   *)
(* goroutine works on the chain at a time, through every error return,      *)
(* recursion, failed write and restart (client.go:111-113, 165-168).        *)
THEOREM SignalIsUnique == Spec => []OneSignal
<1>1. TypeInv => OneSignal
  BY DEF TypeInv
<1> QED BY <1>1, TypeAlways, PTL

(* The recursion of AddOrOrphanHelper stays on the path below its hash      *)
(* (consensus.go:87-88).                                                    *)
THEOREM RecursionOnPath == Spec => []OnPath
<1>1. TypeInv => OnPath
  BY DEF TypeInv, Frames
<1> QED BY <1>1, TypeAlways, PTL
===============================================================================
