-------------------------- MODULE ClientChainProofs ---------------------------
(***************************************************************************)
(* Proofs about the chain a client records: what its databases hold of the *)
(* chain below LastHeader, that the chain spends no preimage twice, and    *)
(* that the client implements the ledger; and about what it promises       *)
(* others: that it can load what its map names and serve what it           *)
(* announced, that its wallet hears of recorded blocks only, and that      *)
(* every hash has one goroutine at a time.                                 *)
(***************************************************************************)
EXTENDS ClientProofs

Writing == Extending \ {"verify"}

(* What the goroutine that holds the signal knows at each step: which of   *)
(* its writes are done, and that what VerifyTxns read still is so.         *)
Decided(o) ==
  /\ pc[o] \in Extending => at[o] \in WellFormed /\ ExtendsMain(at[o])
  /\ pc[o] \in Writing => at[o] \in RightDifficulty \cap RightCoinbase
  /\ pc[o] \in {"header", "block", "preimages"} => PimgsOf(at[o]) \cap pimgDB = {}
  /\ pc[o] \in Writing =>
       Prev[at[o]] = NoHash \/ PimgsOf(at[o]) \cap SpentOn(lastHeader) = {}

Mapped(b) == \A k \in MapKeys(b) : mapDB[k] # NoHash
Recorded(b) ==
  b \in headerDB /\ PimgsOf(b) \subseteq pimgDB /\ Mapped(b)
  /\ (Type = "BLOCKCHAIN_CLIENT" => b \in blockDB)

Written(o) ==
  /\ pc[o] \in {"block", "preimages", "map", "pool", "head"} => at[o] \in headerDB
  /\ pc[o] \in {"preimages", "map", "pool", "head"} =>
       (Type = "BLOCKCHAIN_CLIENT" => at[o] \in blockDB)
  /\ pc[o] \in {"map", "pool", "head"} => PimgsOf(at[o]) \subseteq pimgDB
  /\ pc[o] \in {"pool", "head"} => Mapped(at[o])
  /\ pc[o] = "adopted" => at[o] = lastHeader

(* The blocks between a call and the outermost one were found well formed. *)
PathChecked(o) == pc[o] \in InBlock =>
                    Ancestors[o.hash] \ Ancestors[at[o]] \subseteq WellFormed

ChainInv ==
  /\ \A o \in BlockOp : Decided(o) /\ Written(o) /\ PathChecked(o)
  /\ HeadersClosed
  /\ \A b \in ChainOf(lastHeader) : Recorded(b)
  /\ NoDoubleSpend

StoresUnchanged == UNCHANGED <<headerDB, blockDB, mapDB, pimgDB, lastHeader>>
OpInv(o) == Decided(o) /\ Written(o) /\ PathChecked(o)
HeadInv == /\ HeadersClosed /\ NoDoubleSpend
           /\ \A b \in ChainOf(lastHeader) : Recorded(b)

LEMMA ChainSplit == /\ ChainInv <=> HeadInv /\ \A o \in BlockOp : OpInv(o)
                    /\ ChainInv' <=> HeadInv' /\ \A o \in BlockOp : OpInv(o)'
BY DEF ChainInv, HeadInv, OpInv

-------------------------------------------------------------------------------
LEMMA ChainInit == Init => ChainInv
<1> SUFFICES ASSUME Init PROVE ChainInv
  OBVIOUS
<1>1. ChainOf(lastHeader) = {}
  BY BlocksAssumption DEF Init, ChainOf
<1>2. \A o \in BlockOp : pc[o] = "idle"
  BY OpHash DEF Init
<1> QED
  BY <1>1, <1>2 DEF Init, ChainInv, Decided, Written, PathChecked, InBlock, Writing, Deciding,
     Extending, HeadersClosed, NoDoubleSpend

(* A goroutine outside the block handlers' steps has nothing to know.       *)
LEMMA Outside ==
  ASSUME NEW o \in BlockOp, pc'[o] \notin InBlock
  PROVE  OpInv(o)'
BY DEF OpInv, Decided, Written, PathChecked, Writing, InBlock, Deciding, Extending

(* When one goroutine works, the others have nothing to know.               *)
LEMMA OnlyWorker ==
  ASSUME TypeInv', NEW o \in Op, Holding(o)', o \in BlockOp => OpInv(o)'
  PROVE  \A p \in BlockOp : OpInv(p)'
<1> TAKE p \in BlockOp
<1>1. CASE p = o
  BY <1>1
<1>2. CASE p # o
  <2>1. ~Holding(p)'
    BY <1>2, OpHash DEF TypeInv, OneSignal
  <2>2. pc'[p] \notin InBlock
    BY <2>1 DEF Holding, InBlock, Deciding, Extending
  <2> QED BY <2>2, Outside
<1> QED BY <1>1, <1>2

(* Nothing the invariant reads of the stores and the head has changed.      *)
LEMMA HeadSame == HeadInv /\ StoresUnchanged => HeadInv'
BY DEF HeadInv, StoresUnchanged, HeadersClosed, NoDoubleSpend, ChainOf, Recorded, Mapped

LEMMA OpSame ==
  ASSUME NEW o \in BlockOp, OpInv(o), StoresUnchanged, pc'[o] = pc[o], at'[o] = at[o]
  PROVE  OpInv(o)'
BY DEF OpInv, Decided, Written, PathChecked, StoresUnchanged, ExtendsMain, SpentOn, ChainOf,
   Mapped

(* Before ExtendMainChain only the path matters.                            *)
LEMMA StillDeciding ==
  ASSUME NEW o \in BlockOp, pc'[o] \in Deciding, PathChecked(o)'
  PROVE  OpInv(o)'
BY DEF OpInv, Decided, Written, Deciding, Extending, Writing

(* Going up or down the path keeps it checked.                              *)
LEMMA PathDown ==
  ASSUME NEW b \in Block, NEW a \in Ancestors[b], Prev[a] # NoHash, a \in WellFormed,
         Ancestors[b] \ Ancestors[a] \subseteq WellFormed
  PROVE  Ancestors[b] \ Ancestors[Prev[a]] \subseteq WellFormed
<1>1. a \in Block BY Paths
<1>2. Ancestors[a] = {a} \cup Ancestors[Prev[a]] BY <1>1, ChainAssumption
<1> QED BY <1>2

LEMMA PathUp ==
  ASSUME NEW b \in Block, NEW c \in Ancestors[b], NEW a \in Block, Prev[c] = a,
         Ancestors[b] \ Ancestors[a] \subseteq WellFormed
  PROVE  Ancestors[b] \ Ancestors[c] \subseteq WellFormed /\ c \in WellFormed
<1>1. c \in Block /\ a # NoHash BY Paths, BlocksAssumption
<1>2. Ancestors[c] = {c} \cup Ancestors[a] /\ c \notin Ancestors[a]
  BY <1>1, ChainAssumption
<1> QED BY <1>2

-------------------------------------------------------------------------------
(* The steps of the goroutine with the signal, one lemma per part of the    *)
(* handler.                                                                 *)
LEMMA DecidingStep ==
  ASSUME TypeInv, TypeInv', ChainInv, NEW o \in Op,
         ResolveInvalid(o) \/ ResolveParent(o) \/ Reject(o) \/ PutOrphanBlock(o)
  PROVE  ChainInv'
<1> USE DEF Unchanged, disk, Goto, Enter
<1>1. /\ pc[o] \in InBlock /\ pc[o] \in Deciding
      /\ StoresUnchanged
  BY DEF ResolveInvalid, ResolveParent, Resolvable, Reject, PutOrphanBlock, InBlock, Deciding,
     StoresUnchanged
<1>2. /\ o \in BlockOp /\ o.hash \in Block /\ at[o] \in Block
      /\ at[o] \in Ancestors[o.hash] /\ Holding(o)
      /\ at[o] # o.hash => Caller(o) \in Ancestors[o.hash] /\ Prev[Caller(o)] = at[o]
  BY <1>1, AtOnPath
<1>3. Ancestors[o.hash] \ Ancestors[at[o]] \subseteq WellFormed
  BY <1>1, <1>2 DEF ChainInv, PathChecked
<1>4. pc \in [Op -> PC] /\ at \in [Op -> Block \cup {NoHash}]
  BY DEF TypeInv, TypeOK
<1>5. pc'[o] \in Deciding \cup {"finish"} /\ Ancestors[o.hash] \ Ancestors[at'[o]] \subseteq WellFormed
  <2>1. CASE ResolveInvalid(o)
    BY <2>1, <1>2, <1>3, <1>4 DEF ResolveInvalid, Deciding
  <2>2. CASE ResolveParent(o)
    <3>1. Prev[at[o]] # NoHash /\ at[o] \in WellFormed
      BY <2>2 DEF ResolveParent, Resolvable, ExtendsMain
    <3> QED BY <2>2, <3>1, <1>2, <1>3, <1>4, PathDown DEF ResolveParent, Deciding
  <2>3. CASE Reject(o)
    BY <2>3, <1>2, <1>3, <1>4, PathUp DEF Reject, Deciding
  <2>4. CASE PutOrphanBlock(o)
    BY <2>4, <1>2, <1>3, <1>4 DEF PutOrphanBlock, Deciding
  <2> QED BY <2>1, <2>2, <2>3, <2>4
<1>6. OpInv(o)'
  BY <1>2, <1>5, StillDeciding, Outside DEF PathChecked, InBlock, Deciding, Extending
<1>7. Holding(o)'
  BY <1>5 DEF Holding, Deciding
<1> QED
  BY <1>1, <1>6, <1>7, ChainSplit, HeadSame, OnlyWorker

(* What the chain has spent is in pimgDB.                                   *)
LEMMA SpentRecorded == HeadInv => SpentOn(lastHeader) \subseteq pimgDB
BY DEF HeadInv, Recorded, SpentOn

LEMMA VerifyingStep ==
  ASSUME TypeInv, TypeInv', ChainInv, NEW o \in Op,
         ResolveMain(o) \/ CheckMined(o) \/ Verify(o) \/ Adopted(o)
  PROVE  ChainInv'
<1> USE DEF Unchanged, disk, Goto, Enter
<1>1. pc[o] \in InBlock /\ StoresUnchanged
  BY DEF ResolveMain, Resolvable, CheckMined, Verify, Adopted, InBlock, Deciding,
     Extending, StoresUnchanged
<1>2. /\ o \in BlockOp /\ o.hash \in Block /\ at[o] \in Block
      /\ at[o] \in Ancestors[o.hash] /\ Holding(o)
      /\ at[o] # o.hash => Caller(o) \in Ancestors[o.hash] /\ Prev[Caller(o)] = at[o]
  BY <1>1, AtOnPath
<1>3. /\ Ancestors[o.hash] \ Ancestors[at[o]] \subseteq WellFormed
      /\ Decided(o) /\ Written(o) /\ HeadInv
  BY <1>1, <1>2, ChainSplit DEF ChainInv, PathChecked
<1>4. pc \in [Op -> PC] /\ at \in [Op -> Block \cup {NoHash}]
  BY DEF TypeInv, TypeOK
<1>5. OpInv(o)' /\ Holding(o)'
  <2>1. CASE ResolveMain(o)
    <3>1. pc'[o] = "verify" /\ at'[o] = at[o] /\ at[o] \in WellFormed /\ ExtendsMain(at[o])
      BY <2>1, <1>4 DEF ResolveMain, Resolvable
    <3> QED
      BY <3>1, <1>1, <1>3 DEF OpInv, Decided, Written, PathChecked, ExtendsMain, Holding,
         StoresUnchanged, Writing, Extending
  <2>2. CASE CheckMined(o)
    <3>1. /\ at'[o] = at[o]
          /\ \/ pc'[o] = "finish"
             \/ pc'[o] = "verify" /\ at[o] \in WellFormed /\ ExtendsMain(at[o])
      BY <2>2, <1>2, <1>4, BlocksAssumption DEF CheckMined, ExtendsMain
    <3>2. CASE pc'[o] = "finish"
      BY <3>2, <1>2, Outside DEF Holding, InBlock, Deciding, Extending
    <3>3. CASE pc'[o] = "verify" /\ at[o] \in WellFormed /\ ExtendsMain(at[o])
      BY <3>1, <3>3, <1>1, <1>3 DEF OpInv, Decided, Written, PathChecked, ExtendsMain, Holding,
         StoresUnchanged, Writing, Extending
    <3> QED BY <3>1, <3>2, <3>3
  <2>3. CASE Verify(o)
    <3>1. /\ at'[o] = at[o] /\ at[o] \in WellFormed /\ ExtendsMain(at[o])
          /\ \/ pc'[o] = "reject"
             \/ pc'[o] = "header" /\ PostValidBlock(at[o])
      BY <2>3, <1>3, <1>4 DEF Verify, Decided, Extending
    <3>2. CASE pc'[o] = "reject"
      BY <3>1, <3>2, <1>2, <1>3, StillDeciding DEF PathChecked, Holding, Deciding
    <3>3. CASE pc'[o] = "header" /\ PostValidBlock(at[o])
      <4>1. PimgsOf(at[o]) \cap pimgDB = {}
        BY <3>3 DEF PostValidBlock, VerifyTxns, VerifyTxn, PimgsOf
      <4>2. PimgsOf(at[o]) \cap SpentOn(lastHeader) = {}
        BY <4>1, <1>3, SpentRecorded
      <4>3. SpentOn(lastHeader)' = SpentOn(lastHeader)
        BY <1>1 DEF StoresUnchanged, SpentOn, ChainOf
      <4> QED
        BY <3>1, <3>3, <4>1, <4>2, <4>3, <1>1, <1>3 DEF PostValidBlock, VerifyTxns, OpInv, Decided, Written,
           PathChecked, ExtendsMain, Holding, StoresUnchanged, Writing, Extending
    <3> QED BY <3>1, <3>2, <3>3
  <2>4. CASE Adopted(o)
    <3>1. at[o] = lastHeader
      BY <2>4, <1>3 DEF Adopted, Written
    <3>2. \/ pc'[o] \in {"bcast", "finish"}
          \/ pc'[o] = "verify" /\ at'[o] = Caller(o) /\ at[o] # o.hash
      BY <2>4, <1>2, <1>4 DEF Adopted
    <3>3. CASE pc'[o] \in {"bcast", "finish"}
      BY <3>3, <1>2, Outside DEF Holding, InBlock, Deciding, Extending
    <3>4. CASE pc'[o] = "verify" /\ at'[o] = Caller(o) /\ at[o] # o.hash
      <4>1. /\ Caller(o) \in WellFormed /\ Prev[Caller(o)] = lastHeader
            /\ Ancestors[o.hash] \ Ancestors[Caller(o)] \subseteq WellFormed
        BY <3>1, <3>4, <1>2, <1>3, PathUp
      <4> QED
        BY <3>4, <4>1, <1>1 DEF OpInv, Decided, Written, PathChecked, ExtendsMain, Holding,
           StoresUnchanged, Writing, Extending
    <3> QED BY <3>2, <3>3, <3>4
  <2> QED BY <2>1, <2>2, <2>3, <2>4
<1> QED
  BY <1>1, <1>3, <1>5, HeadSame, OnlyWorker, ChainSplit

(* Databases only grow under the writes, so a recorded chain stays recorded. *)
LEMMA HeadGrows ==
  ASSUME HeadInv, UNCHANGED lastHeader, HeadersClosed',
         blockDB \subseteq blockDB', headerDB \subseteq headerDB', pimgDB \subseteq pimgDB',
         \A b \in Block : Mapped(b) => Mapped(b)'
  PROVE  HeadInv'
<1>1. ChainOf(lastHeader) \subseteq Block /\ ChainOf(lastHeader)' = ChainOf(lastHeader)
  BY Paths DEF ChainOf
<1>2. \A b \in ChainOf(lastHeader) : Recorded(b)'
  BY <1>1 DEF HeadInv, Recorded
<1> QED BY <1>1, <1>2 DEF HeadInv, NoDoubleSpend

(* The chain below a block that extends the main chain.                     *)
LEMMA Extended ==
  ASSUME TypeInv, NEW b \in Block, ExtendsMain(b)
  PROVE  /\ Prev[b] = NoHash => Ancestors[b] = {b}
         /\ Prev[b] # NoHash => /\ lastHeader \in Block /\ Prev[b] = lastHeader
                               /\ Ancestors[b] = {b} \cup ChainOf(lastHeader)
BY ChainAssumption, BlocksAssumption DEF ExtendsMain, ChainOf

LEMMA WritingStep ==
  ASSUME TypeInv, TypeInv', ChainInv, NEW o \in Op,
         PutHeader(o) \/ PutBlock(o) \/ PutPreimages(o) \/ PutMapToBlock(o) \/ PoolDelete(o)
  PROVE  ChainInv'
<1> USE DEF Goto
<1>1. pc[o] \in InBlock /\ pc[o] \in Writing /\ UNCHANGED <<lastHeader, at>>
  BY DEF PutHeader, PutBlock, PutPreimages, PutMapToBlock, PoolDelete, InBlock, Writing, Extending
<1>2. /\ o \in BlockOp /\ o.hash \in Block /\ at[o] \in Block
      /\ at[o] \in Ancestors[o.hash] /\ Holding(o)
  BY <1>1, AtOnPath
<1>3. Decided(o) /\ Written(o) /\ PathChecked(o) /\ HeadInv
  BY <1>1, <1>2, ChainSplit DEF ChainInv
<1>4. pc \in [Op -> PC] /\ DOMAIN mapDB = Output \cup Preimage
  BY DEF TypeInv, TypeOK
<1>5. SpentOn(lastHeader)' = SpentOn(lastHeader)
  BY <1>1 DEF SpentOn, ChainOf
<1>6. \A b \in Block : MapKeys(b) \subseteq DOMAIN mapDB
  BY <1>4, BlocksAssumption DEF MapKeys, PimgsOf, OutputsOf
<1>7. CASE PutHeader(o)
  <2>1. HeadersClosed'
    <3>1. Ancestors[at[o]] \subseteq headerDB \cup {at[o]}
      BY <1>1, <1>2, <1>3, Extended DEF Decided, Writing, HeadInv, Recorded
    <3> QED BY <1>3, <1>7, <3>1 DEF PutHeader, HeadInv, HeadersClosed
  <2>2. HeadInv'
    BY <1>1, <1>3, <1>7, <2>1, HeadGrows DEF PutHeader, Mapped
  <2>3. OpInv(o)' /\ Holding(o)'
    BY <1>1, <1>2, <1>3, <1>4, <1>5, <1>7 DEF PutHeader, OpInv, Decided, Written, PathChecked,
       ExtendsMain, Holding, Writing, Extending, InBlock
  <2> QED BY <2>2, <2>3, OnlyWorker, ChainSplit
<1>8. CASE PutBlock(o)
  <2>1. HeadInv'
    BY <1>1, <1>3, <1>8, HeadGrows DEF PutBlock, Mapped, HeadInv, HeadersClosed
  <2>2. OpInv(o)' /\ Holding(o)'
    BY <1>1, <1>2, <1>3, <1>4, <1>5, <1>8 DEF PutBlock, OpInv, Decided, Written, PathChecked,
       ExtendsMain, Holding, Writing, Extending, InBlock
  <2> QED BY <2>1, <2>2, OnlyWorker, ChainSplit
<1>9. CASE PutPreimages(o)
  <2>1. HeadInv'
    BY <1>1, <1>3, <1>9, HeadGrows DEF PutPreimages, Mapped, HeadInv, HeadersClosed
  <2>2. OpInv(o)' /\ Holding(o)'
    BY <1>1, <1>2, <1>3, <1>4, <1>5, <1>9 DEF PutPreimages, OpInv, Decided, Written, PathChecked,
       ExtendsMain, Holding, Writing, Extending, InBlock
  <2> QED BY <2>1, <2>2, OnlyWorker, ChainSplit
<1>10. CASE PutMapToBlock(o)
  <2>1. /\ \A b \in Block : Mapped(b) => Mapped(b)'
        /\ Mapped(at[o])'
    BY <1>1, <1>2, <1>4, <1>6, <1>10, BlocksAssumption DEF PutMapToBlock, Mapped
  <2>2. HeadInv'
    BY <1>1, <1>3, <1>10, <2>1, HeadGrows DEF PutMapToBlock, HeadInv, HeadersClosed
  <2>3. OpInv(o)' /\ Holding(o)'
    BY <1>1, <1>2, <1>3, <1>4, <1>5, <1>10, <2>1 DEF PutMapToBlock, OpInv, Decided, Written,
       PathChecked, ExtendsMain, Holding, Writing, Extending, InBlock
  <2> QED BY <2>2, <2>3, OnlyWorker, ChainSplit
<1>11. CASE PoolDelete(o)
  <2>1. HeadInv' /\ StoresUnchanged
    BY <1>1, <1>3, <1>11, HeadSame DEF PoolDelete, StoresUnchanged
  <2>2. OpInv(o)' /\ Holding(o)'
    BY <1>1, <1>2, <1>3, <1>4, <1>5, <1>11 DEF PoolDelete, OpInv, Decided, Written, PathChecked,
       ExtendsMain, Holding, Writing, Extending, InBlock, Mapped
  <2> QED BY <2>1, <2>2, OnlyWorker, ChainSplit
<1> QED BY <1>7, <1>8, <1>9, <1>10, <1>11

(* With the last write done the block is recorded.                          *)
LEMMA HeadBlock ==
  ASSUME NEW o \in BlockOp, pc[o] = "head", Written(o)
  PROVE  Recorded(at[o])
BY DEF Written, Recorded

LEMMA SetHeadStep ==
  ASSUME TypeInv, TypeInv', ChainInv, NEW o \in Op, SetHead(o)
  PROVE  ChainInv'
<1> USE DEF SetHead, Goto, disk
<1>1. /\ pc[o] = "head" /\ pc[o] \in InBlock /\ pc[o] \in Writing
      /\ UNCHANGED <<headerDB, blockDB, mapDB, pimgDB, at>> /\ lastHeader' = at[o]
  BY DEF InBlock, Writing, Extending
<1>2. /\ o \in BlockOp /\ o.hash \in Block /\ at[o] \in Block
      /\ at[o] \in Ancestors[o.hash] /\ Holding(o)
  BY <1>1, AtOnPath
<1>3. Decided(o) /\ Written(o) /\ PathChecked(o) /\ HeadInv
  BY <1>1, <1>2, ChainSplit DEF ChainInv
<1>4. pc'[o] = "adopted"
  BY DEF TypeInv, TypeOK
<1>5. ChainOf(lastHeader)' = Ancestors[at[o]]
  BY <1>1, <1>2 DEF ChainOf
<1>6. Recorded(at[o])'
  <2>1. Recorded(at[o])
    BY <1>1, <1>3, <1>2, HeadBlock DEF Written
  <2> QED BY <2>1, <1>1 DEF Recorded, Mapped
<1>7. \A b \in ChainOf(lastHeader) : Recorded(b)'
  BY <1>1, <1>3 DEF HeadInv, Recorded, Mapped
<1>8. /\ Prev[at[o]] = NoHash => Ancestors[at[o]] = {at[o]}
      /\ Prev[at[o]] # NoHash =>
           /\ Ancestors[at[o]] = {at[o]} \cup ChainOf(lastHeader)
           /\ PimgsOf(at[o]) \cap SpentOn(lastHeader) = {}
  BY <1>1, <1>2, <1>3, Extended DEF Decided, Writing
<1>9. NoDoubleSpend'
  <2> SUFFICES ASSUME NEW b \in Ancestors[at[o]], NEW c \in Ancestors[at[o]], b # c
               PROVE  PimgsOf(b) \cap PimgsOf(c) = {}
    BY <1>5 DEF NoDoubleSpend
  <2>1. CASE b \in ChainOf(lastHeader) /\ c \in ChainOf(lastHeader)
    BY <2>1, <1>3 DEF HeadInv, NoDoubleSpend
  <2>2. CASE b = at[o] /\ c \in ChainOf(lastHeader) /\ Prev[at[o]] # NoHash
    BY <2>2, <1>8 DEF SpentOn
  <2>3. CASE c = at[o] /\ b \in ChainOf(lastHeader) /\ Prev[at[o]] # NoHash
    BY <2>3, <1>8 DEF SpentOn
  <2> QED BY <2>1, <2>2, <2>3, <1>8
<1>10. HeadInv'
  BY <1>1, <1>3, <1>5, <1>6, <1>7, <1>8, <1>9 DEF HeadInv, HeadersClosed
<1>11. OpInv(o)' /\ Holding(o)'
  BY <1>1, <1>2, <1>3, <1>4 DEF OpInv, Decided, Written, PathChecked, Holding, Writing, Extending,
     InBlock
<1> QED BY <1>10, <1>11, OnlyWorker, ChainSplit

-------------------------------------------------------------------------------
(* Everything else leaves the chain and the working goroutine alone.         *)
LEMMA QuietStep ==
  ASSUME ChainInv, StoresUnchanged,
         \A o \in BlockOp : pc'[o] \in InBlock => pc'[o] = pc[o] /\ at'[o] = at[o]
  PROVE  ChainInv'
BY ChainSplit, HeadSame, OpSame, Outside

LEMMA StartStep ==
  ASSUME TypeInv, TypeInv', ChainInv, NEW o \in Op, Start(o)
  PROVE  ChainInv'
<1>1. StoresUnchanged
  BY DEF Start, StoresUnchanged, disk
<1>2. /\ pc \in [Op -> PC] /\ at \in [Op -> Block \cup {NoHash}]
  BY DEF TypeInv, TypeOK
<1>3. o \in BlockOp => pc'[o] \in {"resolve", "mined"} /\ at'[o] = o.hash
  BY <1>2 DEF Start, Enter, Goto, BlockOp
<1>4. o \in BlockOp => OpInv(o)'
  BY <1>3, StillDeciding DEF PathChecked, Deciding
<1>5. Holding(o)'
  BY <1>2 DEF Start, Enter, Goto, Holding
<1> QED BY <1>1, <1>4, <1>5, HeadSame, OnlyWorker, ChainSplit

LEMMA RestartStep == ChainInv /\ Restart => ChainInv'
<1> SUFFICES ASSUME ChainInv, Restart PROVE ChainInv'
  OBVIOUS
<1>1. \A o \in BlockOp : pc'[o] \notin InBlock
  BY OpHash DEF Restart, InBlock, Deciding, Extending
<1>2. ChainOf(lastHeader)' = {}
  BY BlocksAssumption DEF Restart, ChainOf
<1>3. HeadInv'
  BY <1>2, ChainSplit DEF HeadInv, HeadersClosed, NoDoubleSpend, Restart, disk
<1> QED BY <1>1, <1>3, Outside, ChainSplit

LEMMA ChainStep == TypeInv /\ TypeInv' /\ ChainInv /\ [Next]_vars => ChainInv'
<1> SUFFICES ASSUME TypeInv, TypeInv', ChainInv, [Next]_vars PROVE ChainInv'
  OBVIOUS
<1>0. pc \in [Op -> PC] /\ at \in [Op -> Block \cup {NoHash}] /\ BlockOp \subseteq Op
  BY OpHash DEF TypeInv, TypeOK
<1>1. ASSUME NEW b \in Announced, RecvBlockHash(b) PROVE ChainInv'
  BY <1>0, <1>1, QuietStep DEF RecvBlockHash, Spawn, Goto, StoresUnchanged, disk, InBlock,
     Deciding, Extending
<1>2. ASSUME NEW b \in Mine, RecvBlock(b) PROVE ChainInv'
  BY <1>0, <1>2, QuietStep DEF RecvBlock, Spawn, Goto, StoresUnchanged, disk, InBlock,
     Deciding, Extending
<1>3. ASSUME NEW t \in Txn, RecvTxnHash(t) \/ RecvTxn(t) PROVE ChainInv'
  BY <1>0, <1>3, QuietStep DEF RecvTxnHash, RecvTxn, Spawn, Goto, StoresUnchanged, disk,
     InBlock, Deciding, Extending
<1>4. ASSUME NEW b \in Block, WalletAnswers(b) \/ WalletLost(b) \/ Expire(b) PROVE ChainInv'
  BY <1>4, QuietStep DEF WalletAnswers, WalletLost, Expire, StoresUnchanged, disk
<1>5. ASSUME UNCHANGED vars PROVE ChainInv'
  BY <1>5, QuietStep DEF vars, StoresUnchanged, disk
<1>6. ASSUME NEW o \in Op, Start(o) PROVE ChainInv'
  BY <1>6, StartStep
<1>7. ASSUME NEW o \in Op, Done(o) PROVE ChainInv'
  BY <1>0, <1>7, QuietStep DEF Done, Enter, Goto, StoresUnchanged, disk, InBlock, Deciding,
     Extending
<1>8. ASSUME NEW o \in Op,
             \/ FetchFails(o) \/ ResolveSide(o) \/ SubmitFails(o) \/ SubmitTxn(o)
             \/ Bcast(o) \/ WriteFails(o)
      PROVE  ChainInv'
  BY <1>0, <1>8, QuietStep DEF FetchFails, ResolveSide, SubmitFails, SubmitTxn, Bcast,
     WriteFails, Goto, Unchanged, StoresUnchanged, disk, InBlock, Deciding, Extending
<1>9. ASSUME NEW o \in Op, Work(o) PROVE ChainInv'
  BY <1>8, <1>9, DecidingStep, VerifyingStep, WritingStep, SetHeadStep DEF Work
<1>10. ASSUME Restart \/ \E o \in Op : VerifyPanics(o) PROVE ChainInv'
  BY <1>10, RestartStep DEF VerifyPanics
<1> QED
  BY <1>1, <1>2, <1>3, <1>4, <1>5, <1>6, <1>7, <1>8, <1>9, <1>10, ClientAssumption
  DEF Next, Steady, Faults, FromPeers, FromNode, Turns, Wallet

-------------------------------------------------------------------------------
LEMMA ChainAlways == Spec => [](TypeInv /\ ChainInv)
BY TypeAlways, ChainInit, ChainStep, PTL DEF Spec

(* The chain below LastHeader is recorded in full, and the headers a client *)
(* has are closed under PrevHash, whatever writes fail and wherever the     *)
(* process is killed.                                                       *)
THEOREM HeadIsComplete == Spec => [](HeadComplete /\ HeadersClosed)
<1>1. ChainInv => HeadComplete /\ HeadersClosed
  BY DEF ChainInv, HeadComplete, Recorded, Mapped
<1> QED BY <1>1, ChainAlways, PTL

(* No two blocks of the chain below LastHeader spend the same preimage.     *)
THEOREM NoPreimageTwice == Spec => []NoDoubleSpend
<1>1. ChainInv => NoDoubleSpend
  BY DEF ChainInv
<1> QED BY <1>1, ChainAlways, PTL

(* Between the checks and the writes of ExtendMainChain nothing changes     *)
(* under the goroutine's feet, and the recursion never reaches the panic.   *)
THEOREM ChecksHold == Spec => []DecisionHolds
<1>1. TypeInv /\ ChainInv => DecisionHolds
  <2> SUFFICES ASSUME TypeInv, ChainInv, NEW o \in BlockOp
               PROVE  /\ pc[o] \in Extending => ExtendsMain(at[o])
                      /\ pc[o] \in {"header", "block", "preimages"} =>
                           PimgsOf(at[o]) \cap pimgDB = {}
                      /\ pc[o] = "adopted" => at[o] = lastHeader /\ at[o] \in headerDB
    BY DEF DecisionHolds
  <2>1. Decided(o) /\ Written(o) /\ \A b \in ChainOf(lastHeader) : b \in headerDB
    BY DEF ChainInv, Recorded
  <2>2. ASSUME pc[o] = "adopted" PROVE at[o] \in headerDB
    <3>1. at[o] \in Block /\ at[o] = lastHeader
      BY <2>1, <2>2, AtOnPath, OpHash DEF Written, InBlock
    <3> QED BY <3>1, <2>1, Paths DEF ChainOf
  <2> QED BY <2>1, <2>2 DEF Decided, Written
<1> QED BY <1>1, ChainAlways, PTL

(* Every step of the client is a step of the ledger or leaves the tip alone. *)
THEOREM ClientImplementsLedger == Spec => ImplementsLedger
<1>1. Init => L!Init
  BY DEF Init, L!Init
<1>2. TypeInv /\ ChainInv /\ [Next]_vars => [L!Next]_lastHeader
  <2> SUFFICES ASSUME TypeInv, ChainInv, [Next]_vars, lastHeader' # lastHeader PROVE L!Next
    BY DEF L!Next
  <2>1. Restart \/ (\E o \in Op : SetHead(o))
    BY DEF Next, Steady, Faults, FromPeers, FromNode, Turns, Wallet, Work, vars, Unchanged, WriteFails, VerifyPanics,
       RecvBlockHash, RecvBlock, RecvTxnHash, RecvTxn, Spawn, WalletAnswers, WalletLost, Expire,
       Start, Done, FetchFails, ResolveInvalid, ResolveMain, ResolveSide, ResolveParent, Reject,
       PutOrphanBlock, CheckMined, Verify, PutHeader, PutBlock, PutPreimages, PutMapToBlock,
       PoolDelete, Adopted, SubmitTxn, SubmitFails, Bcast
  <2>2. CASE Restart
    BY <2>2 DEF Restart, L!Next, L!Forget
  <2>3. ASSUME NEW o \in Op, SetHead(o) PROVE L!Next
    <3>1. pc[o] = "head" /\ lastHeader' = at[o] /\ pc[o] \in InBlock
      BY <2>3 DEF SetHead, InBlock, Extending
    <3>2. o \in BlockOp /\ at[o] \in Block /\ Decided(o)
      BY <3>1, AtOnPath DEF ChainInv
    <3>3. at[o] \in WellFormed \cap RightDifficulty \cap RightCoinbase /\ ExtendsMain(at[o])
      BY <3>1, <3>2 DEF Decided, Writing, Extending
    <3>4. CASE Prev[at[o]] = NoHash
      BY <3>1, <3>3, <3>4 DEF L!Next, L!Begin
    <3>5. CASE Prev[at[o]] # NoHash
      <4>1. lastHeader \in Block /\ Prev[at[o]] = lastHeader
        BY <3>2, <3>3, <3>5, Extended
      <4>2. PimgsOf(at[o]) \cap SpentOn(lastHeader) = {}
        BY <3>1, <3>2, <3>5 DEF Decided, Writing, Extending
      <4>3. L!Extend(at[o])
        BY <4>1, <4>2, <3>1 DEF L!Extend, L!PimgsOf, L!SpentOn, L!ChainOf, PimgsOf, SpentOn, ChainOf
      <4> QED BY <4>3, <3>3 DEF L!Next
    <3> QED BY <3>4, <3>5
  <2> QED BY <2>1, <2>2, <2>3
<1> QED BY <1>1, <1>2, ChainAlways, PTL DEF ImplementsLedger, Spec, L!Spec

-------------------------------------------------------------------------------
(* What a client promises others.                                            *)

USE DEF AddOrOrphan, AdoptMinedBlock, AddToTxnPool, AdoptTxn

Blockchain == Type = "BLOCKCHAIN_CLIENT"
Servable == blockDB \cup txnPoolDB

(* What is about to be broadcast is stored already.                        *)
ReadyIsServed == Blockchain => \A o \in Op : pc[o] = "bcast" => o.hash \in Servable

ServedInv == MappedIsStored /\ SentIsServed /\ ReadyIsServed /\ WalletHearsRecorded

-------------------------------------------------------------------------------
LEMMA ServedInit == Init => ServedInv
<1> SUFFICES ASSUME Init PROVE ServedInv
  OBVIOUS
<1>1. DOMAIN mapDB = Output \cup Preimage /\ \A k \in DOMAIN mapDB : mapDB[k] = NoHash
  BY DEF Init
<1>2. \A o \in Op : pc[o] = "idle"
  BY DEF Init
<1> QED
  BY <1>1, <1>2 DEF Init, ServedInv, MappedIsStored, SentIsServed, ReadyIsServed,
     WalletHearsRecorded

(* Stores that only grow, under an unchanged map, keep every promise.      *)
LEMMA ServedGrows ==
  ASSUME ServedInv, UNCHANGED <<mapDB, sent>>,
         headerDB \subseteq headerDB', blockDB \subseteq blockDB', pimgDB \subseteq pimgDB',
         txnPoolDB \subseteq txnPoolDB', posting' \cup told' \subseteq posting \cup told,
         \A o \in Op : pc'[o] = "bcast" => pc[o] = "bcast"
  PROVE  ServedInv'
<1>1. MappedIsStored'
  BY DEF ServedInv, MappedIsStored
<1>2. SentIsServed' /\ ReadyIsServed'
  BY DEF ServedInv, SentIsServed, ReadyIsServed, Servable
<1>3. WalletHearsRecorded'
  BY DEF ServedInv, WalletHearsRecorded
<1> QED BY <1>1, <1>2, <1>3 DEF ServedInv

(* The block a handler has come back with is the head, and stored.         *)
LEMMA AdoptedIsStored ==
  ASSUME TypeInv, ChainInv, NEW o \in Op, pc[o] = "adopted", Blockchain
  PROVE  at[o] \in blockDB
<1>1. o \in BlockOp /\ at[o] \in Block
  BY AtOnPath DEF InBlock
<1>2. at[o] = lastHeader
  BY <1>1 DEF ChainInv, Written
<1> QED BY <1>1, <1>2, Paths DEF ChainInv, ChainOf, Recorded, Blockchain

(* PutMapToBlock changes the entries of the block's own keys, all of which *)
(* the block has, and the block is stored before.                          *)
LEMMA MapStep ==
  ASSUME TypeInv, ChainInv, ServedInv, NEW o \in Op, PutMapToBlock(o)
  PROVE  ServedInv'
<1> USE DEF PutMapToBlock, Goto, world, wallet
<1>1. o \in BlockOp /\ at[o] \in Block /\ Written(o)
  BY AtOnPath DEF InBlock, Extending, ChainInv
<1>2. Blockchain => at[o] \in blockDB
  BY <1>1 DEF Written, Blockchain
<1>3. /\ DOMAIN mapDB' = DOMAIN mapDB
      /\ \A k \in DOMAIN mapDB : mapDB'[k] = IF k \in MapKeys(at[o]) THEN at[o] ELSE mapDB[k]
  OBVIOUS
<1>4. MappedIsStored'
  BY <1>2, <1>3 DEF ServedInv, MappedIsStored, Blockchain
<1>5. SentIsServed' /\ ReadyIsServed'
  BY DEF ServedInv, SentIsServed, ReadyIsServed, Servable, TypeInv, TypeOK
<1>6. WalletHearsRecorded'
  <2>1. \A b \in Block : MapKeys(b) \subseteq DOMAIN mapDB
    BY BlocksAssumption DEF TypeInv, TypeOK, MapKeys, PimgsOf, OutputsOf
  <2>2. \A b \in posting \cup told : b \in Block
    BY DEF TypeInv, TypeOK
  <2>3. at[o] # NoHash
    BY <1>1, BlocksAssumption
  <2>4. \A b \in posting \cup told : \A k \in MapKeys(b) : mapDB'[k] # NoHash
    BY <1>3, <2>1, <2>2, <2>3 DEF ServedInv, WalletHearsRecorded
  <2> QED BY <2>4 DEF ServedInv, WalletHearsRecorded
<1> QED BY <1>4, <1>5, <1>6 DEF ServedInv

(* The pool is keyed by transactions, so the batch of preimages deletes     *)
(* nothing.                                                                 *)
LEMMA PoolKept ==
  ASSUME TypeInv, NEW o \in Op, PoolDelete(o)
  PROVE  txnPoolDB' = txnPoolDB
<1>1. at[o] \in Block
  BY AtOnPath DEF PoolDelete, InBlock, Extending
<1>2. PimgsOf(at[o]) \subseteq Preimage /\ txnPoolDB \subseteq Txn
  BY <1>1, BlocksAssumption DEF PimgsOf, TypeInv, TypeOK
<1> QED BY <1>2, HashAssumption DEF PoolDelete

LEMMA ServedWork ==
  ASSUME TypeInv, ChainInv, ServedInv, NEW o \in Op, Work(o) \/ WriteFails(o)
  PROVE  ServedInv'
<1> USE DEF Goto, Enter, Unchanged, disk, wallet, world
<1>0. pc \in [Op -> PC]
  BY DEF TypeInv, TypeOK
<1>1. CASE \/ FetchFails(o) \/ ResolveInvalid(o) \/ ResolveMain(o) \/ ResolveSide(o)
           \/ ResolveParent(o) \/ CheckMined(o) \/ Verify(o) \/ SubmitFails(o) \/ WriteFails(o)
  BY <1>0, <1>1, ServedGrows DEF FetchFails, ResolveInvalid, ResolveMain, ResolveSide,
     ResolveParent, CheckMined, Verify, SubmitFails, WriteFails
<1>2. CASE Reject(o) \/ PutOrphanBlock(o) \/ PutHeader(o) \/ PutBlock(o) \/ PutPreimages(o)
  BY <1>0, <1>2, ServedGrows DEF Reject, PutOrphanBlock, PutHeader, PutBlock, PutPreimages
<1>3. CASE PutMapToBlock(o)
  BY <1>3, MapStep
<1>4. CASE PoolDelete(o)
  BY <1>0, <1>4, PoolKept, ServedGrows DEF PoolDelete
<1>5. CASE SetHead(o)
  <2>1. o \in BlockOp /\ Recorded(at[o])
    BY <1>5, AtOnPath, HeadBlock DEF SetHead, InBlock, Extending, ChainInv
  <2>2. WalletHearsRecorded'
    BY <1>5, <2>1 DEF SetHead, ServedInv, WalletHearsRecorded, Recorded, Mapped
  <2>3. MappedIsStored' /\ SentIsServed' /\ ReadyIsServed'
    BY <1>0, <1>5 DEF SetHead, ServedInv, MappedIsStored, SentIsServed, ReadyIsServed, Servable
  <2> QED BY <2>2, <2>3 DEF ServedInv
<1>6. CASE Adopted(o)
  <2>1. Blockchain => at[o] \in blockDB
    BY <1>6, AdoptedIsStored DEF Adopted
  <2>2. ReadyIsServed'
    BY <1>0, <1>6, <2>1 DEF Adopted, ServedInv, ReadyIsServed, Servable
  <2>3. MappedIsStored' /\ SentIsServed' /\ WalletHearsRecorded'
    BY <1>6 DEF Adopted, ServedInv, MappedIsStored, SentIsServed, WalletHearsRecorded, Servable
  <2> QED BY <2>2, <2>3 DEF ServedInv
<1>7. CASE SubmitTxn(o)
  <2>1. SentIsServed' /\ ReadyIsServed'
    BY <1>0, <1>7 DEF SubmitTxn, ServedInv, SentIsServed, ReadyIsServed, Servable
  <2>2. MappedIsStored' /\ WalletHearsRecorded'
    BY <1>7 DEF SubmitTxn, ServedInv, MappedIsStored, WalletHearsRecorded
  <2> QED BY <2>1, <2>2 DEF ServedInv
<1>8. CASE Bcast(o)
  <2>1. SentIsServed' /\ ReadyIsServed'
    BY <1>0, <1>8 DEF Bcast, ServedInv, SentIsServed, ReadyIsServed, Servable, Blockchain
  <2>2. MappedIsStored' /\ WalletHearsRecorded'
    BY <1>8 DEF Bcast, ServedInv, MappedIsStored, WalletHearsRecorded
  <2> QED BY <2>1, <2>2 DEF ServedInv
<1> QED
  BY <1>1, <1>2, <1>3, <1>4, <1>5, <1>6, <1>7, <1>8 DEF Work

LEMMA ServedStep == TypeInv /\ ChainInv /\ ServedInv /\ [Next]_vars => ServedInv'
<1> SUFFICES ASSUME TypeInv, ChainInv, ServedInv, [Next]_vars PROVE ServedInv'
  OBVIOUS
<1> USE DEF Goto, Enter, disk, wallet, world
<1>0. pc \in [Op -> PC]
  BY DEF TypeInv, TypeOK
<1>1. ASSUME \/ \E b \in Announced : RecvBlockHash(b)
             \/ \E b \in Mine : RecvBlock(b)
             \/ \E t \in Txn : RecvTxnHash(t) \/ RecvTxn(t)
      PROVE  ServedInv'
  BY <1>0, <1>1, ServedGrows DEF RecvBlockHash, RecvBlock, RecvTxnHash, RecvTxn, Spawn
<1>2. ASSUME \E b \in Block : WalletAnswers(b) \/ WalletLost(b) \/ Expire(b) PROVE ServedInv'
  BY <1>0, <1>2, ServedGrows DEF WalletAnswers, WalletLost, Expire
<1>3. ASSUME NEW o \in Op, Start(o) \/ Done(o) PROVE ServedInv'
  BY <1>0, <1>3, ServedGrows DEF Start, Done
<1>4. ASSUME Restart \/ \E o \in Op : VerifyPanics(o) PROVE ServedInv'
  BY <1>4, ServedGrows DEF Restart, VerifyPanics
<1>5. ASSUME UNCHANGED vars PROVE ServedInv'
  BY <1>5, ServedGrows DEF vars
<1> QED
  BY <1>1, <1>2, <1>3, <1>4, <1>5, ServedWork, ClientAssumption
  DEF Next, Steady, Faults, FromPeers, FromNode, Turns, Wallet

LEMMA ServedAlways == Spec => []ServedInv
BY ChainAlways, ServedInit, ServedStep, PTL DEF Spec

-------------------------------------------------------------------------------
(* One goroutine per hash.  A mined block or a signed transaction does not   *)
(* go through a filter, so it has to be known that nobody else resolves it:  *)
(* peers announce it only after it was broadcast, and then it was delivered. *)
Delivered ==
  /\ \A h \in sent \cap (Mine \cup Signing) : h \in minted
  /\ \A o \in Op : Live(o) /\ o.hash \in Mine \cup Signing => o.hash \in minted

FrontierInv == FrontierExact /\ Delivered

LEMMA FrontierInit == Init => FrontierInv
BY DEF Init, FrontierInv, FrontierExact, Delivered, Live

(* Goroutines and history stay, or goroutines go on.                         *)
LEMMA FrontierSame ==
  ASSUME FrontierInv, UNCHANGED <<frontier, minted>>, sent' \cap (Mine \cup Signing) \subseteq minted,
         \A o \in Op : Live(o)' <=> Live(o)
  PROVE  FrontierInv'
BY DEF FrontierInv, FrontierExact, Delivered

(* A goroutine for a hash that nobody resolves.                              *)
LEMMA FrontierSpawn ==
  ASSUME TypeInv, FrontierInv, NEW o \in Op, pc[o] = "idle", Goto(o, "wait"),
         frontier' = frontier \cup {o.hash}, UNCHANGED sent,
         o.hash \notin frontier, minted \subseteq minted',
         o.hash \in Mine \cup Signing => o.hash \in minted'
  PROVE  FrontierInv'
<1>1. \A p \in Op : Live(p)' <=> (Live(p) \/ p = o)
  BY DEF Goto, Live, TypeInv, TypeOK
<1>2. \A p \in Op : Live(p) => p.hash # o.hash
  BY DEF FrontierInv, FrontierExact
<1>3. FrontierExact'
  BY <1>1, <1>2 DEF FrontierInv, FrontierExact
<1>4. Delivered'
  BY <1>1 DEF FrontierInv, Delivered
<1> QED BY <1>3, <1>4 DEF FrontierInv

(* What the node itself delivers for the first time is not being resolved.   *)
LEMMA FreshHash ==
  ASSUME FrontierInv, NEW h \in Mine \cup Signing, h \notin minted
  PROVE  h \notin frontier
BY DEF FrontierInv, FrontierExact, Delivered

LEMMA FrontierStep == TypeInv /\ FrontierInv /\ [Next]_vars => FrontierInv'
<1> SUFFICES ASSUME TypeInv, FrontierInv, [Next]_vars PROVE FrontierInv'
  OBVIOUS
<1> USE DEF Goto, Enter, sched, world
<1>0. pc \in [Op -> PC] /\ sent \cap (Mine \cup Signing) \subseteq minted
  BY DEF TypeInv, TypeOK, FrontierInv, Delivered
<1>1. ASSUME NEW b \in Announced, RecvBlockHash(b) PROVE FrontierInv'
  <2>1. AddOrOrphan(b) \in Op /\ AddOrOrphan(b).hash = b
    BY OpHash
  <2>2. b \in Mine \cup Signing => b \in minted
    BY <1>0, <1>1, ClientAssumption, HashAssumption DEF RecvBlockHash
  <2> QED BY <1>1, <2>1, <2>2, FrontierSpawn DEF RecvBlockHash, Spawn
<1>2. ASSUME NEW t \in Txn, RecvTxnHash(t) PROVE FrontierInv'
  <2>1. AddToTxnPool(t) \in Op /\ AddToTxnPool(t).hash = t
    BY OpHash
  <2>2. t \in Mine \cup Signing => t \in minted
    BY <1>0, <1>2, ClientAssumption, HashAssumption DEF RecvTxnHash
  <2> QED BY <1>2, <2>1, <2>2, FrontierSpawn DEF RecvTxnHash, Spawn
<1>3. ASSUME NEW b \in Mine, RecvBlock(b) PROVE FrontierInv'
  <2>1. AdoptMinedBlock(b) \in Op /\ AdoptMinedBlock(b).hash = b
    BY OpHash
  <2> QED BY <1>3, <2>1, FreshHash, FrontierSpawn DEF RecvBlock, Spawn
<1>4. ASSUME NEW t \in Signing, RecvTxn(t) PROVE FrontierInv'
  <2>1. AdoptTxn(t) \in Op /\ AdoptTxn(t).hash = t
    BY OpHash
  <2> QED BY <1>4, <2>1, FreshHash, FrontierSpawn DEF RecvTxn, Spawn
<1>5. ASSUME \E b \in Block : WalletAnswers(b) \/ WalletLost(b) \/ Expire(b) PROVE FrontierInv'
  BY <1>0, <1>5, FrontierSame DEF WalletAnswers, WalletLost, Expire, Live
<1>6. ASSUME NEW o \in Op, Start(o) PROVE FrontierInv'
  BY <1>0, <1>6, FrontierSame DEF Start, Live
<1>7. ASSUME NEW o \in Op, Done(o) PROVE FrontierInv'
  <2>1. Live(o) /\ \A p \in Op : Live(p)' <=> (Live(p) /\ p # o)
    BY <1>0, <1>7 DEF Done, Live
  <2>2. FrontierExact'
    BY <1>7, <2>1 DEF Done, FrontierInv, FrontierExact
  <2>3. Delivered'
    BY <1>7, <2>1 DEF Done, FrontierInv, Delivered
  <2> QED BY <2>2, <2>3 DEF FrontierInv
<1>8. ASSUME NEW o \in Op, Work(o) \/ WriteFails(o) PROVE FrontierInv'
  <2>1. /\ UNCHANGED <<frontier, minted>> /\ Live(o)
        /\ \E l \in PC \ {"idle"} : Goto(o, l)
        /\ sent' \subseteq sent \cup {o.hash}
    BY <1>8 DEF Work, FetchFails, ResolveInvalid, ResolveMain, ResolveSide, ResolveParent,
       Resolvable, Reject, PutOrphanBlock, CheckMined, Verify, PutHeader, PutBlock, PutPreimages,
       PutMapToBlock, PoolDelete, SetHead, Adopted, SubmitTxn, SubmitFails, Bcast, WriteFails,
       Unchanged, Live, PC, Deciding, Extending, Ending
  <2>2. o.hash \in Mine \cup Signing => o.hash \in minted
    BY <2>1 DEF FrontierInv, Delivered
  <2> QED BY <1>0, <2>1, <2>2, FrontierSame DEF Live
<1>9. ASSUME Restart \/ \E o \in Op : VerifyPanics(o) PROVE FrontierInv'
  <2>1. \A o \in Op : ~Live(o)'
    BY <1>9 DEF Restart, VerifyPanics, Live
  <2> QED
    BY <1>0, <1>9, <2>1 DEF Restart, VerifyPanics, FrontierInv, FrontierExact, Delivered
<1>10. ASSUME UNCHANGED vars PROVE FrontierInv'
  BY <1>0, <1>10, FrontierSame DEF vars, Live
<1> QED
  BY <1>1, <1>2, <1>3, <1>4, <1>5, <1>6, <1>7, <1>8, <1>9, <1>10
  DEF Next, Steady, Faults, FromPeers, FromNode, Turns, Wallet

LEMMA FrontierAlways == Spec => []FrontierInv
BY TypeAlways, FrontierInit, FrontierStep, PTL DEF Spec

-------------------------------------------------------------------------------
(* A blockchain client has stored every block its map names, so that         *)
(* VerifyTxn finds the outputs it looks up (block.go:256-290).               *)
THEOREM MappedBlocksStored == Spec => []MappedIsStored
<1>1. ServedInv => MappedIsStored
  BY DEF ServedInv
<1> QED BY <1>1, ServedAlways, PTL

(* Whatever a blockchain client has announced it can serve, also after a     *)
(* restart and whatever writes failed (consensus.go:29-31).                  *)
THEOREM AnnouncedIsServed == Spec => []SentIsServed
<1>1. ServedInv => SentIsServed
  BY DEF ServedInv
<1> QED BY <1>1, ServedAlways, PTL

(* The wallet is told of blocks that are recorded in full, and that stay     *)
(* recorded (consensus.go:147-157).                                          *)
THEOREM WalletHearsTruth == Spec => []WalletHearsRecorded
<1>1. ServedInv => WalletHearsRecorded
  BY DEF ServedInv
<1> QED BY <1>1, ServedAlways, PTL

(* The frontier names the hashes of the goroutines, one goroutine each: no    *)
(* hash is resolved twice at a time, and none stays behind (client.go:121,    *)
(* 133, 167).                                                                 *)
THEOREM FrontierMatches == Spec => []FrontierExact
<1>1. FrontierInv => FrontierExact
  BY DEF FrontierInv
<1> QED BY <1>1, FrontierAlways, PTL

(* Headers are adopted parents first (chain.go:99-121).                       *)
THEOREM HeadersAreClosed == Spec => []HeadersClosed
<1>1. ChainInv => HeadersClosed
  BY DEF ChainInv
<1> QED BY <1>1, ChainAlways, PTL
===============================================================================
