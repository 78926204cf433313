----------------------------- MODULE WalletServer -----------------------------
(***************************************************************************)
(* The wallet server: it keeps the credentials of one wallet, its private  *)
(* keys and the outputs it owns, and answers HTTP requests, each in a      *)
(* goroutine of its own and without a lock.  Its own client enters as the  *)
(* ledger of module Ledger, which the client implements: it adopts blocks  *)
(* and posts each of them to the server.  Every read and write of a store  *)
(* and of the lists Privs and Outputs, which all handlers share, is a step *)
(* of its own.  What one Create draws - salt, token and private key - is   *)
(* named by the number of the Create.                                      *)
(***************************************************************************)
EXTENDS Blocks, Naturals, FiniteSets

CONSTANTS
  Opener,       \* processes that open the wallet: the server itself and miners
  Server,       \* the member of Opener that is the server's own client
  Password,     \* Password[p]: what p opens the wallet with
  KeyRank,      \* the order of the keys in privDB, that of their address hashes
  Key0,         \* CoinbaseKey[b] and PayTo[t] of somebody else's address
  CoinbaseKey,  \* CoinbaseKey[b]: the key the coinbase of b pays
  Value,        \* Value[b]: CoinbaseValue and the fees of b
  Signer,       \* Signer[t]: who asks for t to be signed
  Amount, Fee, PayTo,  \* the request for t: amount, fee and recipient's key
  Pay, Change,  \* Pay[t], Change[t]: the outputs of t
  MaxAmount,    \* 2^RANGE_PROOF_LENGTH - 1
  Wrap,         \* 2^64
  MaxCreates    \* bound: how often Create runs

Draw == 1..MaxCreates

ASSUME WalletAssumption ==
  /\ Server \in Opener /\ MaxCreates \in Nat /\ Key0 = 0
  /\ KeyRank \in [Draw -> Nat] /\ \A j, k \in Draw : KeyRank[j] = KeyRank[k] => j = k
  /\ CoinbaseKey \in [Block -> Draw \cup {Key0}] /\ Value \in [Block -> Nat]
  /\ Signer \in [Txn -> Opener] /\ PayTo \in [Txn -> Draw \cup {Key0}]
  /\ Amount \in [Txn -> Nat] /\ Fee \in [Txn -> Nat] /\ MaxAmount \in Nat /\ Wrap \in Nat
  /\ \A t \in Txn : Pay[t] # Change[t] /\ Outputs[t] = {Pay[t], Change[t]}
  /\ \A t, u \in Txn : t # u => Outputs[t] \cap Outputs[u] = {}

VARIABLES
  authDB,           \* PASSWORD_KEY, SALT_KEY and TOKEN_KEY, 0 when missing
  privDB, txnDB,    \* stored private keys and outputs
  privs, outputs,   \* the lists Privs and Outputs, in memory
  drawn,            \* how many Creates have drawn their values so far
  token,            \* WalletToken of each process that opens the wallet
  handed,           \* keys that TrackingKeys has given to a miner
  tip, recorded,    \* the chain of the server's client, all blocks it has adopted
  posting,          \* blocks whose POST to /new-block has not arrived
  accepted,         \* blocks answered with StatusAccepted
  signed,           \* what was signed for each request
  pc, frame         \* per handler: where it is, and its local variables

store == <<authDB, privDB, txnDB>>
lists == <<privs, outputs>>
chain == <<tip, recorded, posting>>
told == <<handed, accepted, signed>>
walletVars == <<store, lists, drawn, token, chain, told, pc, frame>>

Chain == INSTANCE Ledger

(* A handler is named by its route and what the request is about.          *)
Open(p) == [route |-> "/open", arg |-> p]
Tracking(p) == [route |-> "/tracking", arg |-> p]
Balance(p) == [route |-> "/balance", arg |-> p]
NewBlock(b) == [route |-> "/new-block", arg |-> b]
Sign(t) == [route |-> "/sign", arg |-> t]
Handler == {Open(p) : p \in Opener} \cup {Tracking(p) : p \in Opener \ {Server}}
           \cup {Balance(p) : p \in Opener} \cup {NewBlock(b) : b \in Block}
           \cup {Sign(t) : t \in Txn}

Caller(h) == CASE h.route = "/new-block" -> Server
               [] h.route = "/sign" -> Signer[h.arg]
               [] OTHER -> h.arg

NoFrame == [draw |-> 0, keys |-> {}, outs |-> {}, todo |-> {}]
NotSigned == [fund |-> NoHash, key |-> 0, outs |-> 0, change |-> 0, back |-> 0]

WalletInit ==
  /\ authDB = [password |-> <<0, NoHash>>, salt |-> 0, token |-> 0]
  /\ privDB = {} /\ txnDB = {} /\ privs = {} /\ outputs = {} /\ drawn = 0
  /\ token = [p \in Opener |-> 0] /\ handed = {}
  /\ tip = NoHead /\ recorded = {} /\ posting = {} /\ accepted = {}
  /\ signed = [t \in Txn |-> NotSigned]
  /\ pc = [h \in Handler |-> "idle"] /\ frame = [h \in Handler |-> NoFrame]

Goto(h, l) == pc' = [pc EXCEPT ![h] = l]

\* Mutant: the lists of the request stay behind.
ReturnInUse(h) == Goto(h, "idle") /\ UNCHANGED frame

Return(h) == Goto(h, "idle") /\ frame' = [frame EXCEPT ![h] = NoFrame]

-------------------------------------------------------------------------------
(* What an output is worth and whom it pays.                               *)

BlockOf(o) == CHOOSE b \in Block : CoinbaseOut[b] = o
TxnOf(o) == CHOOSE t \in Txn : o \in Outputs[t]
IsCoinbase(o) == \E b \in Block : CoinbaseOut[b] = o

OwnerOf(o) == IF IsCoinbase(o) THEN CoinbaseKey[BlockOf(o)]
              ELSE IF o = Pay[TxnOf(o)] THEN PayTo[TxnOf(o)] ELSE signed[TxnOf(o)].back

\* What the output commits to: RangeCommit keeps RANGE_PROOF_LENGTH bits.
TrueAmount(o) == IF IsCoinbase(o) THEN Value[BlockOf(o)]
                 ELSE (IF o = Pay[TxnOf(o)] THEN Amount[TxnOf(o)] ELSE signed[TxnOf(o)].change)
                      % (MaxAmount + 1)

\* What saveMyTxns stores as its amount: the coinbase value, or what
\* DecryptAmount makes of the commitment, the complement of each bit.
SavedAmount(o) == IF IsCoinbase(o) THEN TrueAmount(o) ELSE MaxAmount - TrueAmount(o)

OutputsIn(x) == IF x \in Block THEN {CoinbaseOut[x]} ELSE Outputs[x]

Spent == {signed[t].fund : t \in UNION {Txns[b] : b \in recorded}}

-------------------------------------------------------------------------------
(* Shared slices.  A slice is a pointer and a length, assigned one after    *)
(* the other: next to an assignment a read gives the old list, the new one *)
(* or as many elements of the one as the other has; a read past the end    *)
(* panics, see Panics.                                                      *)

Mix(a, b) == {s \in (SUBSET a) \cup (SUBSET b) :
                Cardinality(s) = IF Cardinality(a) <= Cardinality(b) THEN Cardinality(a) ELSE Cardinality(b)}

Seen(list, news) == {list} \cup news \cup UNION {Mix(list, n) : n \in news}

SeenPrivs(h) == Seen(privs, {frame[g].keys : g \in {g \in Handler \ {h} : pc[g] = "setPrivs"}})
SeenOutputs(h) == Seen(outputs, {frame[g].outs : g \in {g \in Handler \ {h} : pc[g] = "setOutputs"}})

\* The first key of a list, none when it is empty.
FirstKey(ks) == {k \in ks : \A j \in ks : KeyRank[k] <= KeyRank[j]}
LastKey(ks) == CHOOSE k \in ks : \A j \in ks : KeyRank[j] <= KeyRank[k]

-------------------------------------------------------------------------------
(* Open: AuthenicatePassword, and Create when it fails.                    *)

PostOpen(p) ==
  /\ pc[Open(p)] = "idle" /\ token[p] = 0
  /\ Goto(Open(p), "salt")
  /\ UNCHANGED <<store, lists, drawn, token, chain, told, frame>>

ReadSalt(h) ==
  /\ pc[h] = "salt"
  /\ frame' = [frame EXCEPT ![h].draw = authDB.salt]
  /\ Goto(h, IF authDB.salt = 0 THEN "create" ELSE "password")
  /\ UNCHANGED <<store, lists, drawn, token, chain, told>>

CheckPassword(h) ==
  /\ pc[h] = "password"
  /\ Goto(h, IF authDB.password = <<frame[h].draw, Password[h.arg]>> THEN "token" ELSE "create")
  /\ UNCHANGED <<store, lists, drawn, token, chain, told, frame>>

ReadToken(h) ==
  /\ pc[h] = "token"
  /\ frame' = [frame EXCEPT ![h].draw = authDB.token]
  /\ Goto(h, IF authDB.token = 0 THEN "create" ELSE "privs")
  /\ UNCHANGED <<store, lists, drawn, token, chain, told>>

\* Create draws salt, token and key, and writes them in this order.
PutPassword(h) ==
  /\ pc[h] = "create" /\ drawn < MaxCreates
  /\ drawn' = drawn + 1
  /\ authDB' = [authDB EXCEPT !.password = <<drawn + 1, Password[h.arg]>>]
  /\ frame' = [frame EXCEPT ![h].draw = drawn + 1]
  /\ Goto(h, "putSalt")
  /\ UNCHANGED <<privDB, txnDB, lists, token, chain, told>>

\* Mutant: the salt is not stored.
SaltNotPut(h) == pc[h] = "putSalt" /\ Goto(h, "putToken")
                 /\ UNCHANGED <<store, lists, drawn, token, chain, told, frame>>

PutSalt(h) ==
  /\ pc[h] = "putSalt"
  /\ authDB' = [authDB EXCEPT !.salt = frame[h].draw]
  /\ Goto(h, "putToken")
  /\ UNCHANGED <<privDB, txnDB, lists, drawn, token, chain, told, frame>>

\* Mutant: the new key is added to the list in memory, and not stored.
PutTokenOnly(h) ==
  /\ pc[h] = "putToken"
  /\ authDB' = [authDB EXCEPT !.token = frame[h].draw]
  /\ privs' = privs \cup {frame[h].draw} /\ Goto(h, "reply")
  /\ UNCHANGED <<privDB, txnDB, outputs, drawn, token, chain, told, frame>>

PutToken(h) ==
  /\ pc[h] = "putToken"
  /\ authDB' = [authDB EXCEPT !.token = frame[h].draw]
  /\ Goto(h, "putKey")
  /\ UNCHANGED <<privDB, txnDB, lists, drawn, token, chain, told, frame>>

PutKey(h) ==
  /\ pc[h] = "putKey"
  /\ privDB' = privDB \cup {frame[h].draw}
  /\ Goto(h, "privs")
  /\ UNCHANGED <<authDB, txnDB, lists, drawn, token, chain, told, frame>>

\* The token reaches the process that asked for it.
ReplyToken(h) ==
  /\ pc[h] = "reply"
  /\ token' = [token EXCEPT ![h.arg] = frame[h].draw]
  /\ Return(h)
  /\ UNCHANGED <<store, lists, drawn, chain, told>>

-------------------------------------------------------------------------------
(* The other requests: authenticateToken, and Refresh in all of them.      *)

TokenOK(p) == token[p] # 0 /\ token[p] = authDB.token

\* The miner asks for a payment to the address it has been given, or to
\* somebody else's; each request for a signature arrives once.
Ask(h) ==
  /\ h.route \in {"/tracking", "/balance", "/sign"}
  /\ pc[h] = "idle" /\ TokenOK(Caller(h))
  /\ h.route = "/sign" => signed[h.arg] = NotSigned /\ PayTo[h.arg] \in handed \cup {Key0}
  /\ Goto(h, "privs")
  /\ UNCHANGED <<store, lists, drawn, token, chain, told, frame>>

\* The POST of a block arrives.  The client does not look at the answer, so
\* that a block refused with StatusUnauthorized is not posted again.
PostBlock(b) ==
  LET h == NewBlock(b) IN
  /\ b \in posting /\ pc[h] = "idle"
  /\ posting' = posting \ {b}
  /\ IF TokenOK(Server)
     THEN Goto(h, "privs") /\ frame' = [frame EXCEPT ![h].todo = {b} \cup Txns[b]]
     ELSE UNCHANGED <<pc, frame>>
  /\ UNCHANGED <<store, lists, drawn, token, tip, recorded, told>>

ReadPrivs(h) ==
  /\ pc[h] = "privs"
  /\ frame' = [frame EXCEPT ![h].keys = privDB]
  /\ Goto(h, "setPrivs")
  /\ UNCHANGED <<store, lists, drawn, token, chain, told>>

\* ws.Privs = privs.  Two assignments at a time, of g and h, may leave the
\* pointer of the one and the length of the other.
SetPrivs(g, h) ==
  /\ pc[g] = "setPrivs" /\ pc[h] = "setPrivs"
  /\ privs' \in Mix(frame[g].keys, frame[h].keys)
  /\ pc' = [k \in Handler |-> IF k \in {g, h} THEN "txns" ELSE pc[k]]
  /\ frame' = [k \in Handler |-> IF k \in {g, h} THEN [frame[k] EXCEPT !.keys = {}] ELSE frame[k]]
  /\ UNCHANGED <<store, outputs, drawn, token, chain, told>>

ReadTxns(h) ==
  /\ pc[h] = "txns"
  /\ frame' = [frame EXCEPT ![h].outs = txnDB]
  /\ Goto(h, "setOutputs")
  /\ UNCHANGED <<store, lists, drawn, token, chain, told>>

\* Mutant: a posted block is answered as soon as the lists are fresh.
AfterRefreshNoSave(h) ==
  CASE h.route = "/open" -> "reply" [] h.route = "/tracking" -> "keys"
    [] h.route = "/sign" -> "sign" [] OTHER -> "idle"

AfterRefresh(h) ==
  CASE h.route = "/open" -> "reply" [] h.route = "/tracking" -> "keys"
    [] h.route = "/new-block" -> "save" [] h.route = "/sign" -> "sign"
    [] OTHER -> "idle"

\* ws.Outputs = txns, likewise, and the request goes on.
SetOutputs(g, h) ==
  /\ pc[g] = "setOutputs" /\ pc[h] = "setOutputs"
  /\ outputs' \in Mix(frame[g].outs, frame[h].outs)
  /\ pc' = [k \in Handler |-> IF k \in {g, h} THEN AfterRefresh(k) ELSE pc[k]]
  /\ frame' = [k \in Handler |-> IF k \notin {g, h} THEN frame[k]
                                 ELSE IF AfterRefresh(k) = "idle" THEN NoFrame
                                 ELSE [frame[k] EXCEPT !.outs = {}]]
  /\ UNCHANGED <<store, privs, drawn, token, chain, told>>

-------------------------------------------------------------------------------
(* What a request does with the lists.                                     *)

\* The miner mines to the first key it gets (miner.go:35).
GiveKeys(h) ==
  /\ pc[h] = "keys"
  /\ \E ks \in SeenPrivs(h) : \E k \in FirstKey(ks) : handed' = handed \cup {k}
  /\ Return(h)
  /\ UNCHANGED <<store, lists, drawn, token, chain, accepted, signed>>

\* Mutant: BelongsToMe is forgotten.
AllOf(x, ks) == OutputsIn(x)

Mine(x, ks) == {o \in OutputsIn(x) : OwnerOf(o) \in ks}

\* saveMyTxns, one transaction of the block, the coinbase first.
SaveTxn(h) ==
  /\ pc[h] = "save"
  /\ \E x \in frame[h].todo, ks \in SeenPrivs(h) :
       /\ x \in Block \/ h.arg \notin frame[h].todo
       /\ txnDB' = txnDB \cup Mine(x, ks)
       /\ frame' = [frame EXCEPT ![h].todo = @ \ {x}]
  /\ UNCHANGED <<authDB, privDB, lists, drawn, token, chain, told, pc>>

Saved(h) ==
  /\ pc[h] = "save" /\ frame[h].todo = {}
  /\ accepted' = accepted \cup {h.arg}
  /\ Return(h)
  /\ UNCHANGED <<store, lists, drawn, token, chain, handed, signed>>

\* findFundingTxn: the smallest saved output that suffices, whose owner is in
\* the list; `skPtr = &priv` leaves the last key of the list, not the owner.
Sufficient(t, os) == {o \in os : (Amount[t] + Fee[t]) % Wrap <= SavedAmount(o)}

FundingTxn(t, ks, os) ==
  {o \in Sufficient(t, os) : /\ OwnerOf(o) \in ks
                            /\ \A q \in Sufficient(t, os) : SavedAmount(o) <= SavedAmount(q)}

\* The transaction goes to the client of the server, which broadcasts it.
SignTxn(h) ==
  LET t == h.arg
      total == (Amount[t] + Fee[t]) % Wrap
  IN
  /\ pc[h] = "sign" /\ Amount[t] <= MaxAmount
  /\ \E ks \in SeenPrivs(h), back \in UNION {FirstKey(b) : b \in SeenPrivs(h)}, os \in SeenOutputs(h) :
       \E o \in FundingTxn(t, ks, os) :
         signed' = [signed EXCEPT ![t] =
           [fund |-> o, key |-> LastKey(ks), outs |-> IF total = SavedAmount(o) THEN 1 ELSE 2,
            change |-> SavedAmount(o) - total, back |-> back]]
  /\ Return(h)
  /\ UNCHANGED <<store, lists, drawn, token, chain, handed, accepted>>

\* A request ends without its effect: RandomOutputs or the lists have too
\* little, or a torn list is read past its end, which panics in the handler.
Dies(h) ==
  /\ \/ pc[h] = "sign"
     \/ pc[h] = "keys" /\ {} \in SeenPrivs(h)
     \/ pc[h] \in {"keys", "save"} /\
          \E g \in Handler : pc[g] = "setPrivs" /\ Cardinality(frame[g].keys) # Cardinality(privs)
  /\ Return(h)
  /\ UNCHANGED <<store, lists, drawn, token, chain, told>>

-------------------------------------------------------------------------------
(* Faults, and the client of the server.                                   *)

\* The process restarts: what is not in the databases is gone.
RestartEffects ==
  /\ pc' = [h \in Handler |-> "idle"] /\ frame' = [h \in Handler |-> NoFrame]
  /\ privs' = {} /\ outputs' = {} /\ token' = [token EXCEPT ![Server] = 0]
  /\ Chain!Forget /\ posting' = {}
  /\ UNCHANGED <<drawn, recorded, told>>

Restart == RestartEffects /\ UNCHANGED store

\* Create fails; the server itself panics when it cannot open its wallet.
CreateFails(h) ==
  /\ pc[h] \in {"create", "putSalt", "putToken", "putKey"}
  /\ IF h = Open(Server) THEN RestartEffects
     ELSE Return(h) /\ UNCHANGED <<lists, drawn, token, chain, told>>
  /\ UNCHANGED store

\* Mutant: an error of Put is not looked at.
SaveFailsIgnored(h) ==
  /\ pc[h] = "save" /\ accepted' = accepted \cup {h.arg} /\ Return(h)
  /\ UNCHANGED <<store, lists, drawn, token, chain, handed, signed>>

\* A write of saveMyTxns fails, after some outputs of the transaction.
SaveFails(h) ==
  /\ pc[h] = "save"
  /\ \E x \in frame[h].todo, ks \in SeenPrivs(h), s \in SUBSET Output :
       /\ x \in Block \/ h.arg \notin frame[h].todo
       /\ s \subseteq Mine(x, ks) /\ s # Mine(x, ks)
       /\ txnDB' = txnDB \cup s
  /\ Return(h)
  /\ UNCHANGED <<authDB, privDB, lists, drawn, token, chain, told>>

\* What the network accepts of what was signed: two outputs, signed with the
\* key of an unspent recorded output, and as much in as out.
Adoptable(t) ==
  LET s == signed[t] IN
  /\ s # NotSigned /\ s.outs = 2 /\ s.key = OwnerOf(s.fund)
  /\ s.fund \in UNION {OutputsOf(b) : b \in recorded} \ Spent
  /\ TrueAmount(s.fund) = TrueAmount(Pay[t]) + TrueAmount(Change[t]) + Fee[t]

\* The client adopts a block and posts it, in a goroutine of its own.
Adopt(b) ==
  /\ b \in (WellFormed \cap RightDifficulty \cap RightCoinbase) \ recorded
  /\ Chain!Extend(b) \/ Chain!Begin(b)
  /\ CoinbaseKey[b] \in handed \cup {Key0} /\ \A t \in Txns[b] : Adoptable(t)
  /\ recorded' = recorded \cup {b} /\ posting' = posting \cup {b}
  /\ UNCHANGED <<store, lists, drawn, token, told, pc, frame>>

-------------------------------------------------------------------------------

Step(h) ==
  \/ ReadPrivs(h) \/ ReadTxns(h) \/ SetPrivs(h, h) \/ SetOutputs(h, h)
  \/ SaveTxn(h) \/ Saved(h)

Opening(h) ==
  \/ ReadSalt(h) \/ CheckPassword(h) \/ ReadToken(h) \/ PutPassword(h)
  \/ PutSalt(h) \/ PutToken(h) \/ PutKey(h) \/ ReplyToken(h)

SteadyNext ==
  \/ \E p \in Opener : PostOpen(p)
  \/ \E b \in Block : PostBlock(b) \/ Adopt(b)
  \/ \E h \in Handler : Opening(h) \/ Ask(h) \/ Step(h) \/ GiveKeys(h) \/ SignTxn(h) \/ Dies(h)
  \/ \E g, h \in Handler : g # h /\ (SetPrivs(g, h) \/ SetOutputs(g, h))

WalletNext ==
  \/ SteadyNext
  \/ Restart
  \/ \E h \in Handler : CreateFails(h) \/ SaveFails(h)

\* The whole server: anything at any time.
WalletSpec == WalletInit /\ [][WalletNext]_walletVars

\* Miners start when the server has opened its wallet, one after the other.
OneOpen == \A p, q \in Opener : pc[Open(p)] # "idle" /\ pc[Open(q)] # "idle" => p = q

\* Every goroutine gets to run, and the client tries to post every block.
WalletFairness ==
  /\ \A h \in Handler : WF_walletVars(Step(h)) /\ WF_walletVars(Opening(h))
  /\ \A b \in Block : WF_walletVars(PostBlock(b))

-------------------------------------------------------------------------------
(* Properties.                                                             *)

\* Types; only a request that runs holds lists, and only a block being saved
\* has transactions left (the local variables of Refresh and saveMyTxns).
WalletTypeOK ==
  /\ authDB.salt \in 0..drawn /\ authDB.token \in 0..drawn /\ drawn \in 0..MaxCreates
  /\ privDB \subseteq Draw /\ privs \subseteq Draw /\ txnDB \subseteq Output
  /\ token \in [Opener -> 0..drawn] /\ posting \subseteq recorded
  /\ \A h \in Handler :
       /\ frame[h].keys # {} => pc[h] = "setPrivs"
       /\ frame[h].outs # {} => pc[h] = "setOutputs"
       /\ frame[h].todo # {} => h.route = "/new-block" /\ pc[h] # "idle"

\* A key that a miner was given, or that the server works with, is stored, so
\* that what is mined to it stays spendable after a restart (Create,
\* wallet-server.go:490-495).
KeysKept == handed \cup privs \subseteq privDB

\* Saved are outputs of recorded blocks that a stored key can spend, through
\* all races on the list of keys (saveMyTxns, wallet-server.go:626-660).
SavedIsMine ==
  \A o \in txnDB : o \in UNION {OutputsOf(b) : b \in recorded} /\ OwnerOf(o) \in privDB

\* The token a process was given is the one requests are compared with, when
\* processes open the wallet one after the other (Create overwrites it,
\* wallet-server.go:485).
TokenAccepted == \A p \in Opener : token[p] # 0 => TokenOK(p)

\* A block that was answered with StatusAccepted has its outputs that belong
\* to a stored key in the database (wallet-server.go:369-377), although other
\* requests assign the list of keys meanwhile.
AcceptedIsSaved ==
  \A b \in accepted : \A o \in OutputsOf(b) : OwnerOf(o) \in privDB => o \in txnDB

\* A transaction is signed with the key of the output it spends (the key
\* findFundingTxn returns, wallet-server.go:600-604).
SignedByOwner ==
  \A t \in Txn : signed[t] # NotSigned => signed[t].key = OwnerOf(signed[t].fund)

\* What is signed is not funded by an output that the chain of the server's
\* own client has already spent (findFundingTxn, wallet-server.go:595).
FundsUnspent ==
  [][\A t \in Txn : signed'[t] # signed[t] => signed'[t].fund \notin Spent]_walletVars

\* Every block that is posted under a token has its own outputs saved in the
\* end, whatever requests run next to it (handleNewBlock).
Collected ==
  \A b \in Block :
    (b \in posting /\ token[Server] # 0) ~>
      \A o \in OutputsOf(b) : OwnerOf(o) \in privDB => o \in txnDB
===============================================================================
