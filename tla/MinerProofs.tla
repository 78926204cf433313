------------------------------ MODULE MinerProofs -----------------------------
(***************************************************************************)
(* Proofs about a mining node: the client next to Miner.run, which writes  *)
(* LastHeader and the databases without the signal.  What ClientChainProofs *)
(* shows of LastHeader does not hold here; what is recorded still is, and   *)
(* the template is about it.                                               *)
(***************************************************************************)
EXTENDS MinerNode, ClientProofs

USE DEF AddOrOrphan, AdoptMinedBlock, AddToTxnPool, AdoptTxn

StartingUp == run \in {"genesis", "map", "assign", "assigning"}

MinerTypes ==
  /\ run \in {"genesis", "map", "assign", "assigning", "first", "rebuild", "mine", "ask"}
  /\ genesis \in Own \cup {NoHash} /\ last \in Block \cup {NoHead, NoHash}
  /\ template \in [prev : Block \cup {NoHash, NoHead}, txns : SUBSET Txn]
  /\ due \in BOOLEAN
  /\ run \in {"map", "assign", "assigning"} => genesis \in Own
  /\ run \in {"rebuild", "mine", "ask"} => last # NoHash

(* The chain of a header is recorded, own first blocks apart, and all that *)
(* it spends.                                                              *)
Known(h) == ChainOf(h) \subseteq headerDB \cup Own /\ SpentOn(h) \subseteq pimgDB

(* What the goroutine with the signal knows of its block.  It builds on a  *)
(* known chain, whatever Miner.run has done to LastHeader since, and is    *)
(* not below the head, unless it is an own first block.                    *)
Climb(o) ==
  /\ pc[o] = "mined" => at[o] \in Mine
  /\ pc[o] = "resolve" /\ Prev[at[o]] = NoHash => at[o] \notin headerDB
  /\ pc[o] \in Extending =>
       Known(Prev[at[o]]) /\ (at[o] \in Own \/ at[o] \notin ChainOf(lastHeader))
  /\ pc[o] \in {"block", "preimages", "map", "pool", "head", "adopted"} => at[o] \in headerDB
  /\ pc[o] \in {"preimages", "map"} => (Type = "BLOCKCHAIN_CLIENT" => at[o] \in blockDB)
  /\ pc[o] \in {"map", "pool", "head"} => PimgsOf(at[o]) \subseteq pimgDB
  /\ pc[o] = "adopted" => Known(at[o]) /\ lastHeader \in {at[o], NoHead} \cup Own

StoreInv ==
  /\ Known(lastHeader)
  /\ MappedIsStored /\ (run = "map" => genesis \in blockDB)
  /\ \A t \in template.txns : Pimg[t] \notin SpentOn(template.prev)

(* A header that cannot come back to LastHeader: it has left it, and nobody *)
(* works on it or below it.                                                 *)
Gone(h) ==
  /\ ChainOf(h) \subseteq headerDB \cup Own /\ lastHeader \notin ChainOf(h)
  /\ \A o \in BlockOp : pc[o] \in Extending \cup {"adopted"} /\ at[o] \in ChainOf(h) => at[o] \in Own

LeftBehind(h) ==
  IF h = NoHead THEN lastHeader # NoHead \/ HeadMoves
  ELSE Gone(h) \/ Revisited(h) \/ (h = lastHeader /\ HeadMoves)

Coming == {at[o] : o \in {p \in BlockOp : pc[p] = "head"}}

TemplateInv ==
  /\ run = "rebuild" => last \in {lastHeader} \cup Coming \/ LeftBehind(last)
  /\ run \in {"mine", "ask"} => template.prev = last \/ LeftBehind(last)

MinerInv == TypeInv /\ MinerTypes /\ StoreInv /\ TemplateInv /\ \A o \in BlockOp : Climb(o)

Climbs == \A o \in BlockOp : Climb(o)

-------------------------------------------------------------------------------
(* Chains.                                                                  *)
LEMMA NoChain ==
  /\ ChainOf(NoHash) = {} /\ ChainOf(NoHead) = {}
  /\ SpentOn(NoHash) = {} /\ SpentOn(NoHead) = {}
BY BlocksAssumption DEF ChainOf, SpentOn

LEMMA ChainNext ==
  ASSUME NEW b \in Block
  PROVE  /\ ChainOf(b) = {b} \cup ChainOf(Prev[b]) /\ b \notin ChainOf(Prev[b])
         /\ SpentOn(b) = PimgsOf(b) \cup SpentOn(Prev[b])
         /\ \A a \in ChainOf(b) : a \in Block /\ (Prev[a] # NoHash => Prev[a] \in ChainOf(b))
<1>1. Ancestors[b] = {b} \cup IF Prev[b] = NoHash THEN {} ELSE Ancestors[Prev[b]]
  BY ChainAssumption
<1>2. Prev[b] # NoHash => b \notin Ancestors[Prev[b]]
  BY ChainAssumption
<1>3. Prev[b] \in Block \cup {NoHash} /\ NoHash \notin Block
  BY BlocksAssumption
<1>4. ChainOf(b) = {b} \cup ChainOf(Prev[b]) /\ b \notin ChainOf(Prev[b])
  BY <1>1, <1>2, <1>3 DEF ChainOf
<1>5. SpentOn(b) = PimgsOf(b) \cup SpentOn(Prev[b])
  BY <1>4 DEF SpentOn
<1> QED BY <1>4, <1>5, Paths DEF ChainOf

LEMMA OwnChain ==
  ASSUME NEW b \in Own
  PROVE  b \in Block /\ ChainOf(b) = {b} /\ SpentOn(b) = {} /\ PimgsOf(b) = {}
<1>1. b \in Block /\ Prev[b] = NoHash /\ PimgsOf(b) = {}
  BY MinerAssumption DEF PimgsOf
<1> QED BY <1>1, ChainNext, NoChain

(* A block on a known chain, recorded with its preimages, is known.         *)
LEMMA KnownNext ==
  ASSUME NEW b \in Block, Known(Prev[b]), b \in headerDB, PimgsOf(b) \subseteq pimgDB
  PROVE  Known(b)
BY ChainNext DEF Known

-------------------------------------------------------------------------------
(* What a goroutine knows, step by step.                                    *)
Charged == {"resolve", "mined", "adopted"} \cup Extending

LEMMA ClimbFree ==
  ASSUME NEW o \in BlockOp, pc'[o] \notin Charged
  PROVE  Climb(o)'
BY DEF Climb, Charged, Extending

LEMMA ClimbSame ==
  ASSUME NEW o \in BlockOp, Climb(o), pc'[o] = pc[o], at'[o] = at[o],
         UNCHANGED <<headerDB, blockDB, pimgDB, lastHeader>>
  PROVE  Climb(o)'
BY DEF Climb, Known

LEMMA ClimbOnly ==
  ASSUME TypeInv', NEW o \in Op, Holding(o)', o \in BlockOp => Climb(o)'
  PROVE  Climbs'
<1> SUFFICES ASSUME NEW p \in BlockOp, p # o PROVE Climb(p)'
  BY DEF Climbs
<1>1. ~Holding(p)'
  BY OpHash DEF TypeInv, OneSignal
<1> QED BY <1>1, ClimbFree DEF Holding, Charged, Extending

LEMMA ClimbStart ==
  ASSUME TypeInv, TypeInv', NEW o \in Op, Start(o)
  PROVE  Climbs'
<1>1. pc \in [Op -> PC] /\ at \in [Op -> Block \cup {NoHash}]
  BY DEF TypeInv, TypeOK
<1>2. Holding(o)'
  BY <1>1 DEF Start, Enter, Goto, Holding
<1>3. o \in BlockOp => \/ pc'[o] = "resolve" /\ at'[o] = o.hash /\ o.hash \in Announced
                       \/ pc'[o] = "mined" /\ at'[o] = o.hash /\ o.hash \in Mine
  BY <1>1 DEF Start, Enter, Goto, BlockOp
<1>4. o \in BlockOp => Climb(o)'
  BY <1>3, MinerAssumption DEF Climb, Extending
<1> QED BY <1>2, <1>4, ClimbOnly

LEMMA ClimbWork ==
  ASSUME TypeInv, TypeInv', Climbs, Known(lastHeader), NEW o \in Op, Work(o) \/ WriteFails(o)
  PROVE  Climbs'
<1> USE DEF Goto, Enter, Unchanged, disk
<1>0. pc \in [Op -> PC] /\ at \in [Op -> Block \cup {NoHash}]
  BY DEF TypeInv, TypeOK
<1>1. ASSUME pc[o] \in InBlock
      PROVE  /\ o \in BlockOp /\ at[o] \in Block /\ Climb(o)
             /\ at[o] # o.hash => Caller(o) \in Block /\ Prev[Caller(o)] = at[o]
  BY <1>1, AtOnPath, Paths DEF Climbs
<1>2. CASE \/ FetchFails(o) \/ ResolveInvalid(o) \/ ResolveSide(o) \/ Reject(o)
           \/ PutOrphanBlock(o) \/ SubmitTxn(o) \/ SubmitFails(o) \/ Bcast(o) \/ WriteFails(o)
  <2>1. pc'[o] \in {"finish", "reject", "orphan", "bcast"}
    BY <1>0, <1>2 DEF FetchFails, ResolveInvalid, ResolveSide, Reject, PutOrphanBlock, SubmitTxn,
       SubmitFails, Bcast, WriteFails
  <2>2. Holding(o)' /\ (o \in BlockOp => Climb(o)')
    BY <2>1, ClimbFree DEF Holding, Charged, Extending
  <2> QED BY <2>2, ClimbOnly
<1>3. CASE ResolveMain(o)
  <2>1. /\ pc[o] = "resolve" /\ pc'[o] = "verify" /\ at'[o] = at[o]
        /\ Prev[at[o]] = lastHeader \/ Prev[at[o]] = NoHash
        /\ UNCHANGED <<headerDB, blockDB, pimgDB, lastHeader>>
    BY <1>0, <1>3 DEF ResolveMain, Resolvable, ExtendsMain
  <2>2. o \in BlockOp /\ at[o] \in Block /\ Climb(o)
    BY <1>1, <2>1 DEF InBlock, Deciding
  <2>3. Known(Prev[at[o]])
    BY <2>1, NoChain DEF Known
  <2>4. at[o] \in Own \/ at[o] \notin ChainOf(lastHeader)
    <3>1. CASE Prev[at[o]] = lastHeader
      BY <3>1, <2>2, ChainNext
    <3>2. CASE Prev[at[o]] = NoHash
      BY <3>2, <2>1, <2>2 DEF Climb, Known
    <3> QED BY <2>1, <3>1, <3>2
  <2>5. Climb(o)' /\ Holding(o)'
    BY <2>1, <2>3, <2>4 DEF Climb, Known, Holding, Extending
  <2> QED BY <2>5, ClimbOnly
<1>4. CASE ResolveParent(o)
  <2>1. pc'[o] = "resolve" /\ at'[o] = Prev[at[o]] /\ at'[o] \notin headerDB'
    BY <1>0, <1>4 DEF ResolveParent, Resolvable
  <2>2. Climb(o)' /\ Holding(o)'
    BY <2>1 DEF Climb, Holding, Extending
  <2> QED BY <2>2, ClimbOnly
<1>5. CASE CheckMined(o)
  <2>1. /\ pc[o] = "mined" /\ at'[o] = at[o] /\ UNCHANGED <<headerDB, blockDB, pimgDB, lastHeader>>
        /\ \/ pc'[o] = "finish"
           \/ /\ pc'[o] = "verify" /\ at[o] \in WellFormed
              /\ at[o] \in SeqZero \/ Prev[at[o]] = lastHeader
    BY <1>0, <1>5 DEF CheckMined
  <2>2. o \in BlockOp /\ at[o] \in Block /\ Climb(o)
    BY <1>1, <2>1 DEF InBlock, Deciding
  <2>3. CASE pc'[o] = "finish"
    BY <2>3, ClimbFree, ClimbOnly DEF Charged, Extending, Holding
  <2>4. CASE pc'[o] = "verify" /\ at[o] \in WellFormed /\ (at[o] \in SeqZero \/ Prev[at[o]] = lastHeader)
    <3>1. Prev[at[o]] = lastHeader
      BY <2>1, <2>2, <2>4, BlocksAssumption, MinerAssumption DEF Climb
    <3>2. at[o] \notin ChainOf(lastHeader)
      BY <3>1, <2>2, ChainNext
    <3>3. Climb(o)' /\ Holding(o)'
      BY <2>1, <2>4, <3>1, <3>2 DEF Climb, Known, Holding, Extending
    <3> QED BY <3>3, ClimbOnly
  <2> QED BY <2>1, <2>3, <2>4
<1>6. CASE Verify(o)
  <2>1. /\ pc[o] = "verify" /\ pc'[o] \in {"header", "reject"} /\ at'[o] = at[o]
        /\ UNCHANGED <<headerDB, blockDB, pimgDB, lastHeader>>
    BY <1>0, <1>6 DEF Verify
  <2>2. o \in BlockOp /\ Climb(o)
    BY <1>1, <2>1 DEF InBlock, Extending
  <2>3. Climb(o)' /\ Holding(o)'
    BY <2>1, <2>2 DEF Climb, Known, Holding, Extending
  <2> QED BY <2>3, ClimbOnly
<1>7. CASE PutHeader(o) \/ PutBlock(o) \/ PutPreimages(o) \/ PutMapToBlock(o) \/ PoolDelete(o)
  <2>1. pc[o] \in InBlock /\ at' = at /\ lastHeader' = lastHeader
    BY <1>7 DEF PutHeader, PutBlock, PutPreimages, PutMapToBlock, PoolDelete, InBlock, Extending
  <2>2. o \in BlockOp /\ Climb(o)
    BY <1>1, <2>1
  <2>3. CASE PutHeader(o)
    <3>1. Climb(o)' /\ Holding(o)'
      BY <1>0, <2>1, <2>2, <2>3 DEF PutHeader, Climb, Known, Holding, Extending
    <3> QED BY <3>1, ClimbOnly
  <2>4. CASE PutBlock(o)
    <3>1. Climb(o)' /\ Holding(o)'
      BY <1>0, <2>1, <2>2, <2>4 DEF PutBlock, Climb, Known, Holding, Extending
    <3> QED BY <3>1, ClimbOnly
  <2>5. CASE PutPreimages(o)
    <3>1. Climb(o)' /\ Holding(o)'
      BY <1>0, <2>1, <2>2, <2>5 DEF PutPreimages, Climb, Known, Holding, Extending
    <3> QED BY <3>1, ClimbOnly
  <2>6. CASE PutMapToBlock(o) \/ PoolDelete(o)
    <3>1. Climb(o)' /\ Holding(o)'
      BY <1>0, <2>1, <2>2, <2>6 DEF PutMapToBlock, PoolDelete, Climb, Known, Holding, Extending
    <3> QED BY <3>1, ClimbOnly
  <2> QED BY <1>7, <2>3, <2>4, <2>5, <2>6
<1>8. CASE SetHead(o)
  <2>1. /\ pc[o] = "head" /\ pc'[o] = "adopted" /\ at' = at /\ lastHeader' = at[o]
        /\ UNCHANGED <<headerDB, pimgDB>>
    BY <1>0, <1>8 DEF SetHead
  <2>2. o \in BlockOp /\ at[o] \in Block /\ Climb(o)
    BY <1>1, <2>1 DEF InBlock, Extending
  <2>3. Known(at[o]) /\ at[o] \in headerDB
    BY <2>1, <2>2, KnownNext DEF Climb, Extending
  <2>4. Climb(o)' /\ Holding(o)'
    BY <2>1, <2>3 DEF Climb, Known, Holding, Extending
  <2> QED BY <2>4, ClimbOnly
<1>9. CASE Adopted(o)
  <2>1. /\ pc[o] = "adopted" /\ UNCHANGED <<headerDB, blockDB, pimgDB, lastHeader>>
        /\ \/ pc'[o] \in {"bcast", "finish"}
           \/ pc'[o] = "verify" /\ at'[o] = Caller(o) /\ at[o] # o.hash
    BY <1>0, <1>9 DEF Adopted
  <2>2. o \in BlockOp /\ at[o] \in Block /\ Climb(o)
    BY <1>1, <2>1 DEF InBlock
  <2>3. CASE pc'[o] \in {"bcast", "finish"}
    BY <2>3, ClimbFree, ClimbOnly DEF Charged, Extending, Holding
  <2>4. CASE pc'[o] = "verify" /\ at'[o] = Caller(o) /\ at[o] # o.hash
    <3>1. Caller(o) \in Block /\ Prev[Caller(o)] = at[o]
      BY <1>1, <2>1, <2>4 DEF InBlock
    <3>2. Known(at[o]) /\ lastHeader \in {at[o], NoHead} \cup Own
      BY <2>1, <2>2 DEF Climb
    <3>3. Caller(o) \in Own \/ Caller(o) \notin ChainOf(lastHeader)
      BY <3>1, <3>2, ChainNext, NoChain, OwnChain
    <3>4. Climb(o)' /\ Holding(o)'
      BY <2>1, <2>4, <3>1, <3>2, <3>3 DEF Climb, Known, Holding, Extending
    <3> QED BY <3>4, ClimbOnly
  <2> QED BY <2>1, <2>3, <2>4
<1> QED
  BY <1>2, <1>3, <1>4, <1>5, <1>6, <1>7, <1>8, <1>9 DEF Work

-------------------------------------------------------------------------------
(* What is recorded.                                                        *)
LEMMA StoreGrows ==
  ASSUME StoreInv, UNCHANGED <<mapDB, lastHeader, template>>,
         headerDB \subseteq headerDB', blockDB \subseteq blockDB', pimgDB \subseteq pimgDB',
         run' = "map" => genesis' \in blockDB'
  PROVE  StoreInv'
<1>1. Known(lastHeader)'
  BY DEF StoreInv, Known
<1>2. MappedIsStored'
  BY DEF StoreInv, MappedIsStored
<1> QED BY <1>1, <1>2 DEF StoreInv

(* The header a goroutine is about to make the head is known.               *)
LEMMA ComingKnown ==
  ASSUME TypeInv, Climbs, NEW o \in Op, pc[o] = "head"
  PROVE  o \in BlockOp /\ at[o] \in Block /\ at[o] \in headerDB /\ Known(at[o])
<1>1. o \in BlockOp /\ at[o] \in Block /\ Climb(o)
  BY AtOnPath DEF InBlock, Extending, Climbs
<1> QED BY <1>1, KnownNext DEF Climb, Extending

(* Map entries for the keys of a stored block.                              *)
LEMMA MapStored ==
  ASSUME MappedIsStored, UNCHANGED blockDB, NEW b \in Block,
         Type = "BLOCKCHAIN_CLIENT" => b \in blockDB,
         mapDB' = [k \in DOMAIN mapDB |-> IF k \in MapKeys(b) THEN b ELSE mapDB[k]]
  PROVE  MappedIsStored'
BY DEF MappedIsStored

LEMMA StoreWork ==
  ASSUME TypeInv, StoreInv, Climbs, UNCHANGED miner,
         NEW o \in Op, Work(o) \/ WriteFails(o) \/ Start(o)
  PROVE  StoreInv'
<1> USE DEF Goto, Enter, Unchanged, disk, miner
<1>1. run' = "map" => genesis' \in blockDB
  BY DEF StoreInv
<1>2. CASE \/ FetchFails(o) \/ ResolveInvalid(o) \/ ResolveMain(o) \/ ResolveSide(o)
           \/ ResolveParent(o) \/ CheckMined(o) \/ Verify(o) \/ Adopted(o) \/ WriteFails(o)
  BY <1>1, <1>2, StoreGrows DEF FetchFails, ResolveInvalid, ResolveMain, ResolveSide, ResolveParent,
     CheckMined, Verify, Adopted, WriteFails
<1>3. CASE \/ Reject(o) \/ PutOrphanBlock(o) \/ PutHeader(o) \/ PutBlock(o) \/ PutPreimages(o)
           \/ PoolDelete(o)
  BY <1>1, <1>3, StoreGrows DEF Reject, PutOrphanBlock, PutHeader, PutBlock, PutPreimages, PoolDelete
<1>4. CASE SubmitTxn(o) \/ SubmitFails(o) \/ Bcast(o) \/ Start(o)
  BY <1>1, <1>4, StoreGrows DEF SubmitTxn, SubmitFails, Bcast, Start
<1>5. CASE PutMapToBlock(o)
  <2>1. o \in BlockOp /\ at[o] \in Block /\ Climb(o)
    BY <1>5, AtOnPath DEF PutMapToBlock, InBlock, Extending, Climbs
  <2>2. MappedIsStored'
    BY <1>5, <2>1, MapStored DEF PutMapToBlock, StoreInv, Climb
  <2>3. Known(lastHeader)'
    BY <1>5 DEF PutMapToBlock, StoreInv, Known
  <2> QED BY <1>1, <1>5, <2>2, <2>3 DEF PutMapToBlock, StoreInv
<1>6. CASE SetHead(o)
  <2>1. Known(at[o])
    BY <1>6, ComingKnown DEF SetHead
  <2>2. Known(lastHeader)'
    BY <1>6, <2>1 DEF SetHead, Known
  <2>3. MappedIsStored'
    BY <1>6 DEF SetHead, StoreInv, MappedIsStored
  <2> QED BY <1>1, <1>6, <2>2, <2>3 DEF SetHead, StoreInv
<1> QED
  BY <1>2, <1>3, <1>4, <1>5, <1>6 DEF Work

-------------------------------------------------------------------------------
(* A header that has left LastHeader.                                       *)
Working == Extending \cup {"adopted"}

LEMMA RevisitedStays ==
  ASSUME headerDB \subseteq headerDB', NEW h, Revisited(h)
  PROVE  Revisited(h)'
BY DEF Revisited

LEMMA GoneStays ==
  ASSUME NEW h, Gone(h), headerDB \subseteq headerDB', lastHeader' \notin ChainOf(h),
         \A p \in BlockOp : pc'[p] \in Working /\ at'[p] \in ChainOf(h) =>
           at'[p] \in Own \/ (pc[p] \in Working /\ at'[p] = at[p])
  PROVE  Gone(h)'
BY DEF Gone, Working

(* A goroutine that starts to extend a chain with a block below such a      *)
(* header does so with an own first block: the parent of any other block    *)
(* there is not the head, and a first block that is recorded is not fetched *)
(* again.  Nobody comes back from a block there, own first blocks apart.    *)
LEMMA GoneWork ==
  ASSUME TypeInv, Climbs, NEW h \in Block, Gone(h),
         NEW o \in Op, Work(o) \/ WriteFails(o) \/ Start(o)
  PROVE  Gone(h)' \/ Revisited(h)'
<1> USE DEF Goto, Enter, Unchanged, disk
<1>0. pc \in [Op -> PC] /\ at \in [Op -> Block \cup {NoHash}] /\ \A p \in BlockOp : p \in Op
  BY OpHash DEF TypeInv, TypeOK
<1>1. ASSUME pc[o] \in InBlock
      PROVE  /\ o \in BlockOp /\ at[o] \in Block /\ Climb(o)
             /\ at[o] # o.hash => Caller(o) \in Block /\ Prev[Caller(o)] = at[o]
  BY <1>1, AtOnPath, Paths DEF Climbs
<1>2. CASE \/ FetchFails(o) \/ ResolveInvalid(o) \/ ResolveSide(o) \/ ResolveParent(o)
           \/ Reject(o) \/ PutOrphanBlock(o) \/ SubmitTxn(o) \/ SubmitFails(o) \/ Bcast(o)
           \/ WriteFails(o) \/ Start(o)
  <2>1. pc'[o] \notin Working /\ headerDB' = headerDB /\ lastHeader' = lastHeader
        /\ \A p \in Op \ {o} : pc'[p] = pc[p] /\ at'[p] = at[p]
    BY <1>0, <1>2 DEF FetchFails, ResolveInvalid, ResolveSide, ResolveParent, Reject,
       PutOrphanBlock, SubmitTxn, SubmitFails, Bcast, WriteFails, Start, Working, Extending
  <2>2. lastHeader' \notin ChainOf(h)
    BY <2>1 DEF Gone
  <2>3. \A p \in BlockOp : pc'[p] \in Working => pc[p] \in Working /\ at'[p] = at[p]
    BY <1>0, <2>1
  <2> QED BY <2>1, <2>2, <2>3, GoneStays
<1>3. CASE Verify(o) \/ PutHeader(o) \/ PutBlock(o) \/ PutPreimages(o) \/ PutMapToBlock(o) \/ PoolDelete(o)
  <2>1. pc[o] \in Working /\ at' = at /\ headerDB \subseteq headerDB' /\ lastHeader' = lastHeader
        /\ \A p \in Op \ {o} : pc'[p] = pc[p]
    BY <1>0, <1>3 DEF Verify, PutHeader, PutBlock, PutPreimages, PutMapToBlock, PoolDelete,
       Working, Extending
  <2>2. lastHeader' \notin ChainOf(h)
    BY <2>1 DEF Gone
  <2> QED BY <1>0, <2>1, <2>2, GoneStays
<1>4. CASE ResolveMain(o)
  <2>1. /\ pc[o] = "resolve" /\ at' = at /\ headerDB' = headerDB /\ lastHeader' = lastHeader
        /\ Prev[at[o]] = lastHeader \/ Prev[at[o]] = NoHash
        /\ \A p \in Op \ {o} : pc'[p] = pc[p]
    BY <1>0, <1>4 DEF ResolveMain, Resolvable, ExtendsMain
  <2>2. at[o] \in Block /\ Climb(o) /\ lastHeader \in Block \cup {NoHead}
    BY <1>1, <2>1 DEF InBlock, Deciding, TypeInv, TypeOK
  <2>3. at[o] \in ChainOf(h) => at[o] \in Own
    BY <2>1, <2>2, ChainNext DEF Climb, Gone
  <2>4. lastHeader' \notin ChainOf(h)
    BY <2>1 DEF Gone
  <2> QED BY <1>0, <2>1, <2>3, <2>4, GoneStays
<1>5. CASE CheckMined(o)
  <2>1. /\ pc[o] = "mined" /\ at' = at /\ headerDB' = headerDB /\ lastHeader' = lastHeader
        /\ pc'[o] \in Working => at[o] \in WellFormed /\ (at[o] \in SeqZero \/ Prev[at[o]] = lastHeader)
        /\ \A p \in Op \ {o} : pc'[p] = pc[p]
    BY <1>0, <1>5 DEF CheckMined, Working, Extending
  <2>2. at[o] \in Mine /\ at[o] \in Block
    BY <1>1, <2>1 DEF InBlock, Deciding, Climb
  <2>3. pc'[o] \in Working => Prev[at[o]] = lastHeader /\ Prev[at[o]] # NoHash
    BY <2>1, <2>2, BlocksAssumption, MinerAssumption
  <2>4. pc'[o] \in Working => at[o] \notin ChainOf(h)
    BY <2>3, ChainNext DEF Gone
  <2>5. lastHeader' \notin ChainOf(h)
    BY <2>1 DEF Gone
  <2> QED BY <1>0, <2>1, <2>4, <2>5, GoneStays
<1>6. CASE SetHead(o)
  <2>1. /\ pc[o] = "head" /\ at' = at /\ headerDB' = headerDB /\ lastHeader' = at[o]
        /\ \A p \in Op \ {o} : pc'[p] = pc[p]
    BY <1>0, <1>6 DEF SetHead
  <2>2. o \in BlockOp /\ at[o] \in headerDB /\ pc[o] \in Working
    BY <2>1, ComingKnown DEF Working, Extending
  <2>3. CASE at[o] \in ChainOf(h)
    BY <2>1, <2>2, <2>3 DEF Gone, Working, Revisited
  <2>4. CASE at[o] \notin ChainOf(h)
    BY <1>0, <2>1, <2>2, <2>4, GoneStays
  <2> QED BY <2>3, <2>4
<1>7. CASE Adopted(o)
  <2>1. /\ pc[o] = "adopted" /\ headerDB' = headerDB /\ lastHeader' = lastHeader
        /\ pc'[o] \in Working => at'[o] = Caller(o) /\ at[o] # o.hash
        /\ \A p \in Op \ {o} : pc'[p] = pc[p] /\ at'[p] = at[p]
    BY <1>0, <1>7 DEF Adopted, Working, Extending
  <2>2. o \in BlockOp /\ at[o] \in Block /\ at[o] \in headerDB /\ pc[o] \in Working
    BY <1>1, <2>1 DEF InBlock, Climb, Working
  <2>3. lastHeader' \notin ChainOf(h)
    BY <2>1 DEF Gone
  <2>4. CASE pc'[o] \in Working /\ Caller(o) \in ChainOf(h)
    <3>1. at[o] \in ChainOf(h)
      BY <1>1, <2>1, <2>2, <2>4, ChainNext, BlocksAssumption DEF InBlock
    <3> QED BY <2>1, <2>2, <3>1 DEF Gone, Working, Revisited
  <2>5. CASE ~(pc'[o] \in Working /\ Caller(o) \in ChainOf(h))
    BY <1>0, <2>1, <2>3, <2>5, GoneStays
  <2> QED BY <2>4, <2>5
<1> QED
  BY <1>2, <1>3, <1>4, <1>5, <1>6, <1>7 DEF Work

(* While LastHeader is about to be assigned, that is what the goroutine with *)
(* the signal does next.                                                     *)
LEMMA HeadIsNext ==
  ASSUME TypeInv, NEW p \in Op, pc[p] = "head",
         NEW o \in Op, Work(o) \/ WriteFails(o) \/ Start(o)
  PROVE  o = p /\ SetHead(o)
<1>1. Holding(p) /\ senders = 0
  BY DEF TypeInv, OneSignal, Holding
<1>2. ~Start(o)
  BY <1>1 DEF Start
<1>3. Holding(o)
  BY <1>2 DEF Work, WriteFails, FetchFails, ResolveInvalid, ResolveMain, ResolveSide, Resolvable,
     ResolveParent, Reject, PutOrphanBlock, CheckMined, Verify, PutHeader, PutBlock, PutPreimages,
     PutMapToBlock, PoolDelete, SetHead, Adopted, SubmitTxn, SubmitFails, Bcast, Holding
<1>4. o = p
  BY <1>1, <1>3 DEF TypeInv, OneSignal
<1> QED
  BY <1>2, <1>4 DEF Work, WriteFails, FetchFails, ResolveInvalid, ResolveMain, ResolveSide, Resolvable,
     ResolveParent, Reject, PutOrphanBlock, CheckMined, Verify, PutHeader, PutBlock, PutPreimages,
     PutMapToBlock, PoolDelete, SetHead, Adopted, SubmitTxn, SubmitFails, Bcast

(* The header that SetHead replaces has left, for the block that replaces it *)
(* is not below it, unless it is an own first block.                         *)
LEMMA HeadLeft ==
  ASSUME TypeInv, Climbs, StoreInv, NEW h \in Block, h = lastHeader, NEW o \in Op, SetHead(o)
  PROVE  Gone(h)' \/ Revisited(h)'
<1>1. /\ pc \in [Op -> PC] /\ pc[o] = "head" /\ at' = at /\ headerDB' = headerDB /\ lastHeader' = at[o]
      /\ pc' = [pc EXCEPT ![o] = "adopted"]
  BY DEF SetHead, disk, Goto, TypeInv, TypeOK
<1>2. /\ o \in BlockOp /\ at[o] \in Block /\ at[o] \in headerDB /\ Known(h)
      /\ at[o] \in Own \/ at[o] \notin ChainOf(h)
  BY <1>1, ComingKnown DEF StoreInv, Climbs, Climb, Extending
<1>3. \A p \in BlockOp \ {o} : p \in Op /\ pc'[p] = pc[p] /\ pc[p] \notin Extending \cup {"adopted"}
  BY <1>1, <1>2, OpHash DEF TypeInv, OneSignal, Holding, Extending
<1>4. CASE at[o] \in ChainOf(h)
  BY <1>1, <1>2, <1>4 DEF Revisited
<1>5. CASE at[o] \notin ChainOf(h)
  <2>1. \A p \in BlockOp : pc'[p] \in Extending \cup {"adopted"} /\ at'[p] \in ChainOf(h) => at'[p] \in Own
    BY <1>1, <1>3, <1>5
  <2> QED BY <1>1, <1>2, <1>5, <2>1 DEF Gone, Known
<1> QED BY <1>4, <1>5

LEMMA BehindWork ==
  ASSUME TypeInv, Climbs, StoreInv, NEW h \in Block \cup {NoHead}, LeftBehind(h),
         NEW o \in Op, Work(o) \/ WriteFails(o) \/ Start(o)
  PROVE  LeftBehind(h)'
<1> USE DEF disk, Unchanged
<1>0. NoHead \notin Block
  BY BlocksAssumption
<1>1. SetHead(o) \/ lastHeader' = lastHeader
  BY DEF Work, WriteFails, Start, FetchFails, ResolveInvalid, ResolveMain, ResolveSide, ResolveParent,
     Reject, PutOrphanBlock, CheckMined, Verify, PutHeader, PutBlock, PutPreimages, PutMapToBlock,
     PoolDelete, Adopted, SubmitTxn, SubmitFails, Bcast
<1>2. headerDB \subseteq headerDB'
  BY DEF Work, WriteFails, Start, FetchFails, ResolveInvalid, ResolveMain, ResolveSide, ResolveParent,
     Reject, PutOrphanBlock, CheckMined, Verify, PutHeader, PutBlock, PutPreimages, PutMapToBlock,
     PoolDelete, SetHead, Adopted, SubmitTxn, SubmitFails, Bcast
<1>3. SetHead(o) => at[o] \in Block /\ lastHeader' = at[o]
  BY ComingKnown DEF SetHead
<1>4. HeadMoves => SetHead(o)
  BY HeadIsNext, OpHash DEF HeadMoves
<1>5. CASE h = NoHead
  BY <1>0, <1>1, <1>3, <1>4, <1>5 DEF LeftBehind
<1>6. CASE h \in Block /\ Gone(h)
  BY <1>0, <1>6, GoneWork DEF LeftBehind
<1>7. CASE h \in Block /\ Revisited(h)
  BY <1>0, <1>2, <1>7, RevisitedStays DEF LeftBehind
<1>8. CASE h \in Block /\ h = lastHeader /\ HeadMoves
  BY <1>0, <1>4, <1>8, HeadLeft DEF LeftBehind
<1> QED BY <1>0, <1>5, <1>6, <1>7, <1>8 DEF LeftBehind

LEMMA TemplateWork ==
  ASSUME TypeInv, MinerTypes, Climbs, StoreInv, TemplateInv, UNCHANGED miner,
         NEW o \in Op, Work(o) \/ WriteFails(o) \/ Start(o)
  PROVE  TemplateInv'
<1> USE DEF disk, Unchanged, miner
<1>1. run \in {"rebuild", "mine", "ask"} => last \in Block \cup {NoHead}
  BY DEF MinerTypes
<1>2. ASSUME last \in Block \cup {NoHead}, LeftBehind(last) PROVE LeftBehind(last)'
  <2>1. \A h \in Block \cup {NoHead} : LeftBehind(h) => LeftBehind(h)'
    BY BehindWork
  <2> QED BY <1>2, <2>1 DEF LeftBehind, Gone, Revisited
<1>3. ASSUME run = "rebuild" PROVE last' \in {lastHeader'} \cup Coming' \/ LeftBehind(last)'
  <2>1. CASE LeftBehind(last)
    BY <1>1, <1>2, <1>3, <2>1
  <2>2. CASE last \in Coming
    <3>1. PICK p \in BlockOp : pc[p] = "head" /\ at[p] = last
      BY <2>2 DEF Coming
    <3>2. o = p /\ SetHead(o)
      BY <3>1, HeadIsNext, OpHash
    <3> QED BY <3>1, <3>2 DEF SetHead
  <2>3. CASE last = lastHeader /\ SetHead(o)
    <3>1. HeadMoves
      BY <2>3, ComingKnown DEF SetHead, HeadMoves
    <3>2. LeftBehind(last)
      BY <1>1, <1>3, <2>3, <3>1 DEF LeftBehind
    <3> QED BY <1>1, <1>2, <1>3, <3>2
  <2>4. CASE last = lastHeader /\ ~SetHead(o)
    <3>1. lastHeader' = lastHeader
      BY <2>4 DEF Work, WriteFails, Start, FetchFails, ResolveInvalid, ResolveMain, ResolveSide,
         ResolveParent, Reject, PutOrphanBlock, CheckMined, Verify, PutHeader, PutBlock, PutPreimages,
         PutMapToBlock, PoolDelete, Adopted, SubmitTxn, SubmitFails, Bcast
    <3> QED BY <2>4, <3>1
  <2> QED BY <1>3, <2>1, <2>2, <2>3, <2>4 DEF TemplateInv
<1>4. ASSUME run \in {"mine", "ask"} PROVE template'.prev = last' \/ LeftBehind(last)'
  BY <1>1, <1>2, <1>4 DEF TemplateInv
<1> QED BY <1>3, <1>4 DEF TemplateInv

-------------------------------------------------------------------------------
(* Steps that leave what the template depends on as it is.                   *)
Settled ==
  /\ UNCHANGED <<headerDB, lastHeader>>
  /\ \A o \in BlockOp : pc'[o] \in Charged \/ pc[o] \in Charged => pc'[o] = pc[o] /\ at'[o] = at[o]

LEMMA ClimbSettled ==
  ASSUME Climbs, Settled, UNCHANGED pimgDB, blockDB \subseteq blockDB'
  PROVE  Climbs'
<1>1. ASSUME NEW o \in BlockOp, pc'[o] \in Charged PROVE Climb(o)'
  <2>1. pc'[o] = pc[o] /\ at'[o] = at[o] /\ Climb(o)
    BY <1>1 DEF Settled, Climbs
  <2> QED BY <2>1 DEF Settled, Climb, Known
<1> QED BY <1>1, ClimbFree DEF Climbs

LEMMA BehindSettled ==
  ASSUME Settled
  PROVE  /\ \A h \in Block \cup {NoHead} : LeftBehind(h) => LeftBehind(h)'
         /\ Coming' = Coming /\ HeadMoves' = HeadMoves
<1>1. \A o \in BlockOp : /\ pc'[o] = "head" <=> pc[o] = "head"
                         /\ pc[o] = "head" => at'[o] = at[o]
  BY DEF Settled, Charged, Extending
<1>2. Coming' = Coming /\ HeadMoves' = HeadMoves
  BY <1>1 DEF Coming, HeadMoves
<1>3. ASSUME NEW h \in Block \cup {NoHead}, LeftBehind(h) PROVE LeftBehind(h)'
  <2>1. Gone(h) => Gone(h)'
    BY DEF Settled, Gone, Charged
  <2>2. Revisited(h) => Revisited(h)'
    BY DEF Settled, Revisited
  <2> QED BY <1>2, <1>3, <2>1, <2>2 DEF Settled, LeftBehind
<1> QED BY <1>2, <1>3

(* The template and the header it is for stay as they are.                   *)
LEMMA TemplateKept ==
  ASSUME MinerTypes, TemplateInv, Settled, UNCHANGED <<last, template>>,
         run' = run \/ (run \in {"mine", "ask"} /\ run' \in {"mine", "ask"})
                    \/ run' \notin {"rebuild", "mine", "ask"}
  PROVE  TemplateInv'
<1>1. run \in {"rebuild", "mine", "ask"} => last \in Block \cup {NoHead}
  BY DEF MinerTypes
<1>2. ASSUME last \in Block \cup {NoHead}, LeftBehind(last) PROVE LeftBehind(last)'
  <2>1. \A h \in Block \cup {NoHead} : LeftBehind(h) => LeftBehind(h)'
    BY BehindSettled
  <2> QED BY <1>2, <2>1 DEF LeftBehind, Gone, Revisited
<1>3. run' = "rebuild" => last' \in {lastHeader'} \cup Coming' \/ LeftBehind(last)'
  BY <1>1, <1>2, BehindSettled DEF TemplateInv, Settled
<1>4. run' \in {"mine", "ask"} => template'.prev = last' \/ LeftBehind(last)'
  BY <1>1, <1>2 DEF TemplateInv
<1> QED BY <1>3, <1>4 DEF TemplateInv

(* What a read of LastHeader returns has something to it, whenever it comes. *)
LEMMA ReadsKnown ==
  ASSUME TypeInv, Climbs, StoreInv, NEW seen, NEW h \in HeadReads(seen)
  PROVE  /\ SpentOn(h) \subseteq pimgDB
         /\ h \in {lastHeader} \cup Coming \/ (h = NoHead /\ HeadMoves)
         /\ seen \in Coming => h = seen
         /\ ~HeadMoves => h = lastHeader
<1>1. \A g \in Coming : Known(g)
  BY ComingKnown, OpHash DEF Coming
<1>2. HeadReads(seen) = IF ~HeadMoves THEN {lastHeader}
                        ELSE CASE seen \in Coming -> {seen}
                               [] seen = NoHead   -> {NoHead} \cup Coming
                               [] OTHER           -> {lastHeader, NoHead} \cup Coming
  BY DEF HeadReads, Coming
<1>3. /\ seen \in Coming => HeadMoves
      /\ NoHead \notin Coming
  <2>1. \A g \in Coming : g \in Block
    BY ComingKnown, OpHash DEF Coming
  <2> QED BY <2>1, BlocksAssumption DEF Coming, HeadMoves
<1>4. /\ h \in {lastHeader} \cup Coming \/ (h = NoHead /\ HeadMoves)
      /\ seen \in Coming => h = seen
      /\ ~HeadMoves => h = lastHeader
  BY <1>2, <1>3
<1> QED BY <1>1, <1>4, NoChain DEF StoreInv, Known

-------------------------------------------------------------------------------
(* The invariant, step by step.                                              *)
LEMMA NodeInitInv == NodeInit => MinerInv
<1> SUFFICES ASSUME NodeInit PROVE MinerInv
  OBVIOUS
<1> USE DEF NodeInit, MinerInit
<1>1. TypeInv
  BY TypeInit
<1>2. MinerTypes
  BY BlocksAssumption DEF MinerTypes, Nothing
<1>3. StoreInv
  BY NoChain DEF StoreInv, Init, Known, Nothing, MappedIsStored
<1>4. TemplateInv
  BY DEF TemplateInv
<1>5. \A o \in BlockOp : Climb(o)
  BY OpHash DEF Init, Climb, Extending
<1> QED BY <1>1, <1>2, <1>3, <1>4, <1>5 DEF MinerInv

(* A goroutine works, or gets the signal.                                    *)
LEMMA WorkingStep ==
  ASSUME MinerInv, TypeInv', UNCHANGED miner, NEW o \in Op, Work(o) \/ WriteFails(o) \/ Start(o)
  PROVE  MinerInv'
<1>1. TypeInv /\ MinerTypes /\ StoreInv /\ TemplateInv /\ Climbs
  BY DEF MinerInv, Climbs
<1>2. MinerTypes'
  BY <1>1 DEF MinerTypes, miner
<1>3. StoreInv'
  BY <1>1, StoreWork
<1>4. TemplateInv'
  BY <1>1, TemplateWork
<1>5. Climbs'
  BY <1>1, ClimbWork, ClimbStart DEF StoreInv
<1> QED BY <1>2, <1>3, <1>4, <1>5 DEF MinerInv, Climbs

(* A goroutine is spawned or ends, or time passes.                           *)
LEMMA QuietStep ==
  ASSUME MinerInv, TypeInv', UNCHANGED miner,
         \/ \E b \in Announced : RecvBlockHash(b)
         \/ \E b \in Mine : RecvBlock(b)
         \/ \E t \in Txn : RecvTxnHash(t)
         \/ \E o \in Op : Done(o)
         \/ \E b \in Block : Expire(b)
  PROVE  MinerInv'
<1>1. TypeInv /\ MinerTypes /\ StoreInv /\ TemplateInv /\ Climbs
  BY DEF MinerInv, Climbs
<1>2. pc \in [Op -> PC] /\ at \in [Op -> Block \cup {NoHash}]
  BY <1>1 DEF TypeInv, TypeOK
<1>3. UNCHANGED <<disk, lastHeader>>
  BY DEF RecvBlockHash, RecvBlock, RecvTxnHash, Spawn, Done, Expire
<1>4. \A o \in BlockOp : pc'[o] \in Charged \/ pc[o] \in Charged => pc'[o] = pc[o] /\ at'[o] = at[o]
  BY <1>2, OpHash DEF RecvBlockHash, RecvBlock, RecvTxnHash, Spawn, Done, Expire, Goto, Enter, Charged, Extending
<1>5. Settled /\ UNCHANGED <<pimgDB, mapDB, blockDB>>
  BY <1>3, <1>4 DEF Settled, disk
<1>6. MinerTypes'
  BY <1>1 DEF MinerTypes, miner
<1>7. StoreInv'
  BY <1>1, <1>5, StoreGrows DEF Settled, miner, StoreInv
<1>8. TemplateInv'
  BY <1>1, <1>5, TemplateKept DEF miner
<1>9. Climbs'
  BY <1>1, <1>5, ClimbSettled
<1> QED BY <1>6, <1>7, <1>8, <1>9 DEF MinerInv, Climbs

(* Miner.run writes the first block next to the goroutine with the signal.   *)
LEMMA WriteFirstStep ==
  ASSUME MinerInv, (\E b \in Own : GenesisPutBlock(b)) \/ GenesisPutMap
  PROVE  MinerInv'
<1>1. TypeInv /\ MinerTypes /\ StoreInv /\ TemplateInv /\ Climbs
  BY DEF MinerInv, Climbs
<1>2. /\ UNCHANGED <<headerDB, pimgDB, txnPoolDB, orphanHeaderDB, orphanBlockDB, lastHeader,
                     sched, pc, at, wallet, world, last, template, due>>
      /\ run' \in {"map", "assign"} /\ blockDB \subseteq blockDB' /\ genesis' \in Own
      /\ run' = "map" => genesis' \in blockDB'
  BY <1>1 DEF GenesisPutBlock, GenesisPutMap, MinerTypes
<1>3. blockDB' \subseteq Block /\ mapDB' \in [Output \cup Preimage -> Block \cup {NoHash}]
  <2>1. CASE GenesisPutMap
    <3>1. genesis \in Block
      BY <1>1, <2>1, MinerAssumption DEF GenesisPutMap, MinerTypes
    <3> QED BY <1>1, <2>1, <3>1 DEF GenesisPutMap, TypeInv, TypeOK
  <2>2. CASE \E b \in Own : GenesisPutBlock(b)
    BY <1>1, <2>2, MinerAssumption DEF GenesisPutBlock, TypeInv, TypeOK
  <2> QED BY <2>1, <2>2
<1>4. TypeInv'
  <2>1. Stores /\ Frame
    BY <1>1, TypeSplit
  <2>2. Stores'
    BY <1>2, <1>3, <2>1 DEF Stores, sched, wallet, world
  <2>3. Frame'
    BY <1>2, <2>1 DEF Frame, OneSignal, Frames, OnPath, Holding, sched
  <2> QED BY <2>2, <2>3, TypeSplit
<1>5. MinerTypes'
  BY <1>1, <1>2 DEF MinerTypes
<1>6. MappedIsStored'
  <2>1. CASE GenesisPutMap
    <3>1. genesis \in Block /\ genesis \in blockDB
      BY <1>1, <2>1, MinerAssumption DEF GenesisPutMap, MinerTypes, StoreInv
    <3> QED BY <1>1, <2>1, <3>1, MapStored DEF GenesisPutMap, StoreInv
  <2>2. CASE \E b \in Own : GenesisPutBlock(b)
    BY <1>1, <2>2 DEF GenesisPutBlock, StoreInv, MappedIsStored
  <2> QED BY <2>1, <2>2
<1>7. StoreInv'
  BY <1>1, <1>2, <1>6 DEF StoreInv, Known
<1>8. Settled
  BY <1>2 DEF Settled
<1>9. TemplateInv' /\ Climbs'
  BY <1>1, <1>2, <1>8, TemplateKept, ClimbSettled
<1> QED BY <1>4, <1>5, <1>7, <1>9 DEF MinerInv, Climbs

(* ... and assigns LastHeader.                                               *)
LEMMA AssignStep ==
  ASSUME MinerInv, AssignHead \/ HeadAssigned
  PROVE  MinerInv'
<1>1. TypeInv /\ MinerTypes /\ StoreInv /\ TemplateInv /\ Climbs
  BY DEF MinerInv, Climbs
<1>2. /\ UNCHANGED <<disk, sched, pc, at, wallet, world, genesis, last, template, due>>
      /\ run' \in {"assigning", "first"} /\ genesis \in Own /\ genesis' = genesis
      /\ lastHeader' \in {genesis, lastHeader, NoHead}
  BY <1>1 DEF AssignHead, HeadAssigned, MinerTypes
<1>3. genesis \in Block /\ ChainOf(genesis) = {genesis} /\ SpentOn(genesis) = {}
  BY <1>2, OwnChain
<1>4. TypeInv'
  <2>1. Stores /\ Frame
    BY <1>1, TypeSplit
  <2>2. Stores'
    BY <1>2, <1>3, <2>1 DEF Stores, sched, wallet, world, disk
  <2>3. Frame'
    BY <1>2, <2>1 DEF Frame, OneSignal, Frames, OnPath, Holding, sched
  <2> QED BY <2>2, <2>3, TypeSplit
<1>5. MinerTypes'
  BY <1>1, <1>2 DEF MinerTypes
<1>6. Known(lastHeader)'
  BY <1>1, <1>2, <1>3, NoChain DEF StoreInv, Known, disk
<1>7. StoreInv'
  BY <1>1, <1>2, <1>6 DEF StoreInv, MappedIsStored, disk
<1>8. TemplateInv'
  BY <1>2 DEF TemplateInv
<1>9. ASSUME NEW o \in BlockOp PROVE Climb(o)'
  <2>1. pc'[o] = pc[o] /\ at'[o] = at[o] /\ Climb(o) /\ UNCHANGED <<headerDB, blockDB, pimgDB>>
    BY <1>1, <1>2 DEF Climbs, disk
  <2>2. at[o] \in Own \/ at[o] \notin ChainOf(lastHeader) =>
          at[o] \in Own \/ at[o] \notin ChainOf(lastHeader')
    BY <1>2, <1>3, NoChain
  <2>3. lastHeader \in {at[o], NoHead} \cup Own => lastHeader' \in {at[o], NoHead} \cup Own
    BY <1>2
  <2> QED BY <2>1, <2>2, <2>3 DEF Climb, Known
<1> QED BY <1>4, <1>5, <1>7, <1>8, <1>9 DEF MinerInv

(* Miner.run looks at LastHeader and builds a template on it.  The header it *)
(* remembers and the one it builds on may differ, but only when the first    *)
(* has left LastHeader by then, or is about to.                              *)
LEMMA LoopStep ==
  ASSUME MinerInv, UNCHANGED vars, NEW h \in Block \cup {NoHead}, NoticeHead(h) \/ Rebuild(h)
  PROVE  MinerInv'
<1>1. TypeInv /\ MinerTypes /\ StoreInv /\ TemplateInv /\ Climbs
  BY DEF MinerInv, Climbs
<1>2. Settled /\ UNCHANGED <<disk, lastHeader, genesis>>
  BY DEF vars, disk, Settled, NoticeHead, Rebuild
<1>3. TypeInv'
  <2>1. Stores /\ Frame
    BY <1>1, TypeSplit
  <2>2. Stores' /\ Frame'
    BY <2>1 DEF vars, disk, sched, wallet, world, Stores, Frame, OneSignal, Frames, OnPath, Holding
  <2> QED BY <2>2, TypeSplit
<1>4. Climbs'
  BY <1>1, <1>2, ClimbSettled DEF disk
<1>5. h \in HeadReads(last)
  BY DEF NoticeHead, Rebuild
<1>6. /\ SpentOn(h) \subseteq pimgDB
      /\ h \in {lastHeader} \cup Coming \/ (h = NoHead /\ HeadMoves)
      /\ last \in Coming => h = last
      /\ ~HeadMoves => h = lastHeader
  BY <1>1, <1>5, ReadsKnown
<1>7. Coming' = Coming /\ HeadMoves' = HeadMoves
      /\ \A g \in Block \cup {NoHead} : LeftBehind(g) => LeftBehind(g)'
  BY <1>2, BehindSettled
<1>8. NoHead \notin Block /\ NoHash \notin Block \cup {NoHead}
  BY BlocksAssumption
<1>9. CASE NoticeHead(h)
  <2>1. last' = h /\ run' = "rebuild" /\ UNCHANGED <<template, due>>
    BY <1>9 DEF NoticeHead
  <2>2. MinerTypes'
    BY <1>1, <1>2, <1>8, <2>1 DEF MinerTypes
  <2>3. StoreInv'
    BY <1>1, <1>2, <2>1, StoreGrows DEF disk
  <2>4. h = NoHead /\ HeadMoves => LeftBehind(last)'
    BY <1>7, <2>1 DEF LeftBehind
  <2>5. TemplateInv'
    BY <1>2, <1>6, <1>7, <2>1, <2>4 DEF TemplateInv
  <2> QED BY <1>3, <1>4, <2>2, <2>3, <2>5 DEF MinerInv, Climbs
<1>10. CASE Rebuild(h)
  <2>1. /\ run = "rebuild" /\ run' = "mine" /\ UNCHANGED <<last, due>>
        /\ template' = [prev |-> h, txns |-> TxnsFromPool]
    BY <1>10 DEF Rebuild
  <2>2. TxnsFromPool \subseteq Txn /\ \A t \in TxnsFromPool : Pimg[t] \notin pimgDB
    BY <1>1 DEF TxnsFromPool, VerifyTxn, TypeInv, TypeOK
  <2>3. template'.prev = h /\ template'.txns = TxnsFromPool
    BY <2>1
  <2>4. MinerTypes'
    <3>1. template' \in [prev : Block \cup {NoHash, NoHead}, txns : SUBSET Txn]
      BY <2>1, <2>2
    <3> QED BY <1>1, <1>2, <2>1, <3>1 DEF MinerTypes
  <2>5. StoreInv'
    <3>1. Known(lastHeader)' /\ MappedIsStored'
      BY <1>1, <1>2 DEF StoreInv, Known, MappedIsStored, disk
    <3>2. \A t \in template'.txns : Pimg[t] \notin SpentOn(template'.prev)
      BY <1>6, <2>2, <2>3
    <3> QED BY <2>1, <3>1, <3>2 DEF StoreInv
  <2>6. last \in Block \cup {NoHead}
    BY <1>1, <2>1 DEF MinerTypes
  <2>7. h = last \/ LeftBehind(last)
    <3>1. CASE last = lastHeader /\ HeadMoves
      BY <2>6, <3>1 DEF LeftBehind
    <3> QED BY <1>1, <1>6, <2>1, <3>1 DEF TemplateInv
  <2>8. LeftBehind(last) => LeftBehind(last)'
    BY <1>7, <2>1, <2>6 DEF LeftBehind, Gone, Revisited
  <2>9. TemplateInv'
    BY <2>1, <2>3, <2>7, <2>8 DEF TemplateInv
  <2> QED BY <1>3, <1>4, <2>4, <2>5, <2>9 DEF MinerInv, Climbs
<1> QED BY <1>9, <1>10

(* The timer and the signature leave the template alone.                     *)
LEMMA TimerStep ==
  ASSUME MinerInv, TimerFires \/ AskForSignature \/ SignatureAnswered
  PROVE  MinerInv'
<1>1. TypeInv /\ MinerTypes /\ StoreInv /\ TemplateInv /\ Climbs
  BY DEF MinerInv, Climbs
<1>2. /\ UNCHANGED <<vars, genesis, last, template>> /\ due' \in BOOLEAN
      /\ run' # "map" \/ run' = run
      /\ run' = run \/ (run \in {"mine", "ask"} /\ run' \in {"mine", "ask"})
  BY <1>1 DEF TimerFires, AskForSignature, SignatureAnswered, MinerTypes
<1>3. Settled /\ UNCHANGED disk
  BY <1>2 DEF vars, disk, Settled
<1>4. TypeInv'
  <2>1. Stores /\ Frame
    BY <1>1, TypeSplit
  <2>2. Stores' /\ Frame'
    BY <1>2, <2>1 DEF vars, disk, sched, wallet, world, Stores, Frame, OneSignal, Frames, OnPath, Holding
  <2> QED BY <2>2, TypeSplit
<1>5. MinerTypes'
  BY <1>1, <1>2 DEF MinerTypes
<1>6. StoreInv'
  BY <1>1, <1>2, <1>3, StoreGrows DEF disk, vars, StoreInv
<1>7. TemplateInv' /\ Climbs'
  BY <1>1, <1>2, <1>3, TemplateKept, ClimbSettled DEF disk
<1> QED BY <1>4, <1>5, <1>6, <1>7 DEF MinerInv, Climbs

LEMMA RestartStep ==
  ASSUME MinerInv, TypeInv', NodeRestart
  PROVE  MinerInv'
<1>1. StoreInv
  BY DEF MinerInv
<1>2. /\ lastHeader' = NoHead /\ pc' = [o \in Op |-> "idle"] /\ UNCHANGED disk
      /\ run' = "genesis" /\ genesis' = NoHash /\ last' = NoHash /\ template' = Nothing /\ due' = FALSE
  BY DEF NodeRestart, Restart
<1>3. MinerTypes'
  BY <1>2, BlocksAssumption DEF MinerTypes, Nothing
<1>4. StoreInv'
  BY <1>1, <1>2, NoChain DEF StoreInv, Known, Nothing, MappedIsStored, disk
<1>5. TemplateInv'
  BY <1>2 DEF TemplateInv
<1>6. \A o \in BlockOp : Climb(o)'
  BY <1>2, OpHash, ClimbFree DEF Charged, Extending
<1> QED BY <1>3, <1>4, <1>5, <1>6 DEF MinerInv

LEMMA NodeStep == MinerInv /\ [NodeNext]_nodeVars => MinerInv'
<1> SUFFICES ASSUME MinerInv, [NodeNext]_nodeVars PROVE MinerInv'
  OBVIOUS
<1>1. TypeInv
  BY DEF MinerInv
<1>2. ASSUME UNCHANGED miner, Turns PROVE MinerInv'
  <2>1. TypeInv'
    BY <1>1, <1>2, TypeStep DEF Next, Steady
  <2> QED BY <1>2, <2>1, WorkingStep, QuietStep DEF Turns
<1>3. ASSUME UNCHANGED miner,
             \/ FromPeers
             \/ \E b \in Mine : RecvBlock(b)
             \/ \E b \in Block : Expire(b)
      PROVE  MinerInv'
  <2>1. TypeInv'
    BY <1>1, <1>3, TypeStep DEF Next, Steady, FromNode, Faults
  <2> QED BY <1>3, <2>1, QuietStep DEF FromPeers
<1>4. ASSUME UNCHANGED miner, NEW o \in Op, WriteFails(o) PROVE MinerInv'
  <2>1. TypeInv'
    BY <1>1, <1>4, TypeStep DEF Next, Faults
  <2> QED BY <1>4, <2>1, WorkingStep
<1>5. ASSUME NodeRestart PROVE MinerInv'
  <2>1. TypeInv'
    BY <1>1, <1>5, TypeStep DEF NodeRestart, Next, Faults
  <2> QED BY <1>5, <2>1, RestartStep
<1>6. ASSUME Mining PROVE MinerInv'
  <2>1. ASSUME NEW b \in Mine, Found(b) PROVE MinerInv'
    BY <1>3, <2>1 DEF Found
  <2>2. ASSUME NEW h \in Block \cup {NoHead}, NoticeHead(h) \/ Rebuild(h) PROVE MinerInv'
    <3>1. UNCHANGED vars
      BY <2>2 DEF NoticeHead, Rebuild
    <3> QED BY <2>2, <3>1, LoopStep
  <2> QED BY <1>6, <2>1, <2>2, WriteFirstStep, AssignStep, TimerStep DEF Mining
<1>7. ASSUME UNCHANGED nodeVars PROVE MinerInv'
  <2>1. TypeInv' /\ UNCHANGED <<vars, miner>>
    BY <1>1, <1>7, TypeStep DEF nodeVars
  <2> QED
    BY <2>1 DEF MinerInv, MinerTypes, StoreInv, Known, MappedIsStored, TemplateInv, LeftBehind, Gone,
       Revisited, HeadMoves, Coming, Climb, vars, disk, miner
<1> QED
  BY <1>2, <1>3, <1>4, <1>5, <1>6, <1>7, TimerStep DEF NodeNext, NodeSteady

LEMMA MinerAlways == NodeSpec => []MinerInv
BY NodeInitInv, NodeStep, PTL DEF NodeSpec

-------------------------------------------------------------------------------
(* The miner's variables keep their types (miner.go:22-120).                 *)
THEOREM MinerTypeCorrect == NodeSpec => []MinerTypeOK
<1>1. MinerInv => MinerTypeOK
  BY DEF MinerInv, MinerTypes, MinerTypeOK, TypeInv
<1> QED BY <1>1, MinerAlways, PTL

(* However the reads and writes of LastHeader fall, a template that is not on *)
(* the head is one the loop sees a reason to rebuild (miner.go:69-73), but    *)
(* for headers above a first block of this node that was adopted again.       *)
THEOREM TemplateFollowsHead == NodeSpec => []TemplateOnHead
<1>1. ASSUME MinerInv PROVE TemplateOnHead
  <2> SUFFICES ASSUME run = "mine", last = lastHeader, ~HeadMoves, ~Revisited(lastHeader)
               PROVE  template.prev = lastHeader
    BY DEF TemplateOnHead
  <2>1. lastHeader \in Block => lastHeader \in ChainOf(lastHeader)
    BY ChainNext
  <2>2. lastHeader \in Block \cup {NoHead}
    BY <1>1 DEF MinerInv, TypeInv, TypeOK
  <2>3. ~LeftBehind(last)
    BY <2>1, <2>2 DEF LeftBehind, Gone
  <2> QED BY <1>1, <2>3 DEF MinerInv, TemplateInv
<1> QED BY <1>1, MinerAlways, PTL

(* Transactions that stay in the pool after they were recorded do no harm:    *)
(* what is mined on the head spends nothing its chain has spent               *)
(* (README.md:28-30).                                                         *)
THEOREM PoolDoesNoHarm == NodeSpec => []PoolIsBenign
<1>1. MinerInv => PoolIsBenign
  BY DEF MinerInv, StoreInv, PoolIsBenign
<1> QED BY <1>1, MinerAlways, PTL

(* The client of a mining node still can load all its map names, although     *)
(* Miner.run writes its first block without the signal (miner.go:31-38,       *)
(* block.go:256-290).                                                         *)
THEOREM MinerMapsStored == NodeSpec => []MappedIsStored
<1>1. MinerInv => MappedIsStored
  BY DEF MinerInv, StoreInv
<1> QED BY <1>1, MinerAlways, PTL

(* ... and the signal is unique there too.                                    *)
THEOREM MinerSignalIsUnique == NodeSpec => []OneSignal
<1>1. MinerInv => OneSignal
  BY DEF MinerInv, TypeInv
<1> QED BY <1>1, MinerAlways, PTL
===============================================================================
