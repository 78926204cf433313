----------------------------- MODULE WalletProofs -----------------------------
(***************************************************************************)
(* The stores of the wallet server, for any number of processes, requests, *)
(* restarts, failed writes and races on its lists: a key in use is stored, *)
(* and what is saved is an output of a recorded block that a stored key    *)
(* can spend.                                                              *)
(***************************************************************************)
EXTENDS WalletServer, TLAPS

Label == {"idle", "salt", "password", "token", "create", "putSalt", "putToken", "putKey",
          "reply", "privs", "setPrivs", "txns", "setOutputs", "keys", "save", "sign"}
Frame == [draw : 0..MaxCreates, keys : SUBSET Draw, outs : SUBSET Output,
          todo : SUBSET (Block \cup Txn)]

Stores ==
  /\ authDB = [password |-> authDB.password, salt |-> authDB.salt, token |-> authDB.token]
  /\ authDB.salt \in 0..drawn /\ authDB.token \in 0..drawn /\ drawn \in 0..MaxCreates
  /\ privDB \subseteq Draw /\ privs \subseteq Draw /\ txnDB \subseteq Output
  /\ token \in [Opener -> 0..drawn]
  /\ posting \subseteq recorded /\ recorded \subseteq Block
  /\ pc \in [Handler -> Label] /\ frame \in [Handler -> Frame]
  /\ signed = [t \in Txn |-> signed[t]]

\* What the local variables of a handler hold, by where it is.
Locals(h) ==
  /\ frame[h].draw \in 0..drawn
  /\ pc[h] \in {"putSalt", "putToken", "putKey"} => frame[h].draw # 0
  /\ frame[h].keys # {} => pc[h] = "setPrivs"
  /\ frame[h].outs # {} => pc[h] = "setOutputs"
  /\ frame[h].todo # {} =>
       /\ h.route = "/new-block" /\ pc[h] # "idle"
       /\ h.arg \in recorded /\ frame[h].todo \subseteq {h.arg} \cup Txns[h.arg]
  /\ frame[h].keys \subseteq privDB
  /\ pc[h] = "sign" => h.route = "/sign"

\* Each request for a signature arrives once, and only what was signed is mined.
SignedOnce ==
  /\ \A h \in Handler : h.route = "/sign" /\ pc[h] # "idle" => signed[h.arg] = NotSigned
  /\ \A b \in recorded : \A t \in Txns[b] : signed[t] # NotSigned

WalletInv ==
  /\ Stores /\ (\A h \in Handler : Locals(h)) /\ KeysKept /\ SignedOnce /\ SavedIsMine

-------------------------------------------------------------------------------

\* A torn list is a part of one of the two.
LEMMA MixInside ==
  ASSUME NEW a, NEW b, NEW s \in Mix(a, b)
  PROVE  s \subseteq a \/ s \subseteq b
  BY DEF Mix

\* Whatever a handler sees of the list of keys, they are stored.
LEMMA SeenStored ==
  ASSUME WalletInv, NEW h \in Handler, NEW ks \in SeenPrivs(h)
  PROVE  ks \subseteq privDB
<1>1. privs \subseteq privDB /\ \A g \in Handler : frame[g].keys \subseteq privDB
  BY DEF WalletInv, KeysKept, Locals
<1> DEFINE news == {frame[g].keys : g \in {g \in Handler \ {h} : pc[g] = "setPrivs"}}
<1>2. ks \in {privs} \cup news \cup UNION {Mix(privs, n) : n \in news}
  BY DEF SeenPrivs, Seen
<1>3. CASE ks \in UNION {Mix(privs, n) : n \in news}
  <2>1. PICK n \in news : ks \in Mix(privs, n)
    BY <1>3
  <2>2. ks \subseteq privs \cup n
    BY <2>1, MixInside
  <2> QED BY <1>1, <2>2
<1> QED BY <1>1, <1>2, <1>3

-------------------------------------------------------------------------------

\* An empty server satisfies the invariant.
LEMMA WalletInitially == WalletInit => WalletInv
<1> SUFFICES ASSUME WalletInit PROVE WalletInv
  OBVIOUS
<1>1. Stores
  BY WalletAssumption DEF WalletInit, Stores, Label, Frame, NoFrame
<1>2. ASSUME NEW h \in Handler PROVE Locals(h)
  BY <1>2 DEF WalletInit, Locals, NoFrame
<1>3. KeysKept /\ SignedOnce /\ SavedIsMine
  BY DEF WalletInit, KeysKept, SignedOnce, SavedIsMine
<1> QED BY <1>1, <1>2, <1>3 DEF WalletInv

\* A handler moves, and the stores may grow: its place and its variables must
\* be in order, those of the others stay so.
LEMMA LocalsMove ==
  ASSUME WalletInv, NEW h \in Handler, NEW l \in Label, NEW f \in Frame,
         Goto(h, l), frame' = [frame EXCEPT ![h] = f],
         drawn' \in Nat, drawn <= drawn', privDB \subseteq privDB', recorded \subseteq recorded',
         f.draw \in 0..drawn', l \in {"putSalt", "putToken", "putKey"} => f.draw # 0,
         f.keys # {} => l = "setPrivs", f.outs # {} => l = "setOutputs",
         f.todo # {} => /\ h.route = "/new-block" /\ l # "idle" /\ h.arg \in recorded
                        /\ f.todo \subseteq {h.arg} \cup Txns[h.arg],
         f.keys \subseteq privDB, l = "sign" => h.route = "/sign"
  PROVE  /\ pc' \in [Handler -> Label] /\ frame' \in [Handler -> Frame]
         /\ \A g \in Handler : Locals(g)'
         /\ \A g \in Handler : g # h => pc'[g] = pc[g]
         /\ pc'[h] = l
<1>1. /\ \A g \in Handler : g # h => pc'[g] = pc[g] /\ frame'[g] = frame[g]
      /\ pc'[h] = l /\ frame'[h] = f
      /\ pc' \in [Handler -> Label] /\ frame' \in [Handler -> Frame]
      /\ drawn \in Nat
  BY WalletAssumption DEF Goto, WalletInv, Stores
<1>2. ASSUME NEW g \in Handler PROVE Locals(g)'
  <2>1. CASE g = h
    BY <1>1, <2>1 DEF Locals
  <2>2. CASE g # h
    BY <1>1, <2>2 DEF WalletInv, Locals
  <2> QED BY <2>1, <2>2
<1> QED BY <1>1, <1>2

\* Who stays who it was: what is saved keeps its owner while the requests for
\* what is recorded stay as they were signed.
LEMMA SavedStays ==
  ASSUME WalletInv, txnDB' = txnDB, privDB \subseteq privDB', recorded \subseteq recorded',
         \A t \in Txn : signed[t] # NotSigned => signed'[t] = signed[t]
  PROVE  SavedIsMine'
<1> SUFFICES ASSUME NEW o \in txnDB
             PROVE  o \in UNION {OutputsOf(b) : b \in recorded'} /\ OwnerOf(o)' \in privDB'
  BY DEF SavedIsMine
<1>1. o \in UNION {OutputsOf(b) : b \in recorded} /\ OwnerOf(o) \in privDB
  BY DEF WalletInv, SavedIsMine
<1>2. PICK b \in recorded : o \in OutputsOf(b)
  BY <1>1
<1>3. OwnerOf(o)' = OwnerOf(o)
  <2>1. CASE IsCoinbase(o)
    BY <2>1 DEF OwnerOf
  <2>2. CASE ~IsCoinbase(o)
    <3>1. PICK t \in Txns[b] : o \in Outputs[t]
      <4>1. o # CoinbaseOut[b]
        BY <2>2 DEF IsCoinbase, WalletInv, Stores
      <4> QED BY <1>2, <4>1 DEF OutputsOf
    <3>2. t \in Txn
      BY BlocksAssumption DEF WalletInv, Stores
    <3>3. TxnOf(o) = t
      BY <3>1, <3>2, WalletAssumption DEF TxnOf
    <3>4. signed[t] # NotSigned
      BY DEF WalletInv, SignedOnce
    <3> QED BY <2>2, <3>2, <3>3, <3>4 DEF OwnerOf
  <2> QED BY <2>1, <2>2
<1> QED BY <1>1, <1>2, <1>3

\* A step of one handler that changes no store.
LEMMA Moves ==
  ASSUME WalletInv, NEW h \in Handler, NEW l \in Label, NEW f \in Frame,
         Goto(h, l), frame' = [frame EXCEPT ![h] = f],
         UNCHANGED <<store, lists, drawn, token, recorded, handed, signed>>,
         posting' \subseteq posting,
         f.draw \in 0..drawn, l \in {"putSalt", "putToken", "putKey"} => f.draw # 0,
         f.keys # {} => l = "setPrivs", f.outs # {} => l = "setOutputs",
         f.todo # {} => /\ h.route = "/new-block" /\ l # "idle" /\ h.arg \in recorded
                        /\ f.todo \subseteq {h.arg} \cup Txns[h.arg],
         f.keys \subseteq privDB, l = "sign" => h.route = "/sign",
         h.route = "/sign" /\ l # "idle" => signed[h.arg] = NotSigned
  PROVE  WalletInv'
<1> USE DEF store, lists
<1>1. drawn \in Nat /\ drawn <= drawn
  BY WalletAssumption DEF WalletInv, Stores
<1>2. /\ pc' \in [Handler -> Label] /\ frame' \in [Handler -> Frame]
      /\ \A g \in Handler : Locals(g)'
      /\ \A g \in Handler : g # h => pc'[g] = pc[g]
      /\ pc'[h] = l
  BY <1>1, LocalsMove
<1>3. Stores'
  BY <1>2 DEF WalletInv, Stores
<1>4. KeysKept' /\ SignedOnce'
  BY <1>2 DEF WalletInv, KeysKept, SignedOnce
<1>5. SavedIsMine'
  BY SavedStays
<1> QED BY <1>2, <1>3, <1>4, <1>5 DEF WalletInv

\* Reading credentials, keys and outputs, and asking.
LEMMA ReadsInv ==
  ASSUME WalletInv, NEW h \in Handler,
         \/ ReadSalt(h) \/ CheckPassword(h) \/ ReadToken(h)
         \/ Ask(h) \/ ReadPrivs(h) \/ ReadTxns(h)
  PROVE  WalletInv'
<1>1. /\ Stores /\ Locals(h) /\ frame[h] \in Frame /\ frame = [frame EXCEPT ![h] = frame[h]]
      /\ authDB.salt \in 0..drawn /\ authDB.token \in 0..drawn /\ 0..drawn \subseteq 0..MaxCreates
      /\ (h.route = "/sign" /\ pc[h] # "idle" => signed[h.arg] = NotSigned)
  <2>1. Stores /\ Locals(h) /\ (h.route = "/sign" /\ pc[h] # "idle" => signed[h.arg] = NotSigned)
    BY DEF WalletInv, SignedOnce
  <2>2. frame[h] \in Frame /\ frame = [frame EXCEPT ![h] = frame[h]]
    BY <2>1 DEF Stores
  <2>3. authDB.salt \in 0..drawn /\ authDB.token \in 0..drawn /\ 0..drawn \subseteq 0..MaxCreates
    BY <2>1, WalletAssumption DEF Stores
  <2> QED BY <2>1, <2>2, <2>3
<1> USE DEF chain, told
<1>2. CASE ReadSalt(h)
  <2> DEFINE f == [frame[h] EXCEPT !.draw = authDB.salt]
  <2>1. f \in Frame /\ f.draw = authDB.salt /\ f.keys = frame[h].keys /\ f.outs = frame[h].outs /\ f.todo = frame[h].todo
    BY <1>1 DEF Frame
  <2> HIDE DEF f
  <2>2. pc[h] = "salt" /\ frame' = [frame EXCEPT ![h] = f] /\ (Goto(h, "create") \/ Goto(h, "password"))
        /\ UNCHANGED <<store, lists, drawn, token, chain, told>>
    BY <1>2 DEF ReadSalt, f
  <2> QED BY <1>1, <2>1, <2>2, Moves DEF Locals, Label
<1>3. CASE CheckPassword(h)
  <2>1. /\ pc[h] = "password" /\ (Goto(h, "token") \/ Goto(h, "create"))
        /\ UNCHANGED <<store, lists, drawn, token, chain, told, frame>>
    BY <1>3 DEF CheckPassword
  <2> QED BY <1>1, <2>1, Moves DEF Locals, Label
<1>4. CASE ReadToken(h)
  <2> DEFINE f == [frame[h] EXCEPT !.draw = authDB.token]
  <2>1. f \in Frame /\ f.draw = authDB.token /\ f.keys = frame[h].keys /\ f.outs = frame[h].outs /\ f.todo = frame[h].todo
    BY <1>1 DEF Frame
  <2> HIDE DEF f
  <2>2. pc[h] = "token" /\ frame' = [frame EXCEPT ![h] = f] /\ (Goto(h, "create") \/ Goto(h, "privs"))
        /\ UNCHANGED <<store, lists, drawn, token, chain, told>>
    BY <1>4 DEF ReadToken, f
  <2> QED BY <1>1, <2>1, <2>2, Moves DEF Locals, Label
<1>5. CASE Ask(h)
  <2>1. /\ pc[h] = "idle" /\ Goto(h, "privs") /\ "privs" \in Label
        /\ (h.route = "/sign" => signed[h.arg] = NotSigned)
        /\ UNCHANGED <<store, lists, drawn, token, chain, told, frame>>
    BY <1>5 DEF Ask, Label
  <2> QED BY <1>1, <2>1, Moves DEF Locals
<1>6. CASE ReadPrivs(h)
  <2> DEFINE f == [frame[h] EXCEPT !.keys = privDB]
  <2>1. f \in Frame /\ f.draw = frame[h].draw /\ f.keys = privDB /\ f.outs = frame[h].outs /\ f.todo = frame[h].todo
    BY <1>1 DEF Frame, Stores
  <2> HIDE DEF f
  <2>2. pc[h] = "privs" /\ frame' = [frame EXCEPT ![h] = f] /\ Goto(h, "setPrivs")
        /\ UNCHANGED <<store, lists, drawn, token, chain, told>>
    BY <1>6 DEF ReadPrivs, f
  <2> QED BY <1>1, <2>1, <2>2, Moves DEF Locals, Label
<1>7. CASE ReadTxns(h)
  <2> DEFINE f == [frame[h] EXCEPT !.outs = txnDB]
  <2>1. f \in Frame /\ f.draw = frame[h].draw /\ f.keys = frame[h].keys /\ f.outs = txnDB /\ f.todo = frame[h].todo
    BY <1>1 DEF Frame, Stores
  <2> HIDE DEF f
  <2>2. pc[h] = "txns" /\ frame' = [frame EXCEPT ![h] = f] /\ Goto(h, "setOutputs")
        /\ UNCHANGED <<store, lists, drawn, token, chain, told>>
    BY <1>7 DEF ReadTxns, f
  <2> QED BY <1>1, <2>1, <2>2, Moves DEF Locals, Label
<1> QED BY <1>2, <1>3, <1>4, <1>5, <1>6, <1>7

\* The variables of a handler that starts or has ended.
LEMMA EmptyFrame ==
  /\ NoFrame \in Frame /\ NoFrame.draw = 0 /\ NoFrame.keys = {} /\ NoFrame.outs = {}
  /\ NoFrame.todo = {}
  BY WalletAssumption DEF NoFrame, Frame

\* Requests that arrive, and those that end without effect.
LEMMA EndsInv ==
  ASSUME WalletInv,
         \/ \E p \in Opener : PostOpen(p)
         \/ \E b \in Block : PostBlock(b)
         \/ \E h \in Handler : Saved(h) \/ Dies(h)
  PROVE  WalletInv'
<1> USE DEF chain, told
<1>1. ASSUME NEW p \in Opener, PostOpen(p) PROVE WalletInv'
  <2>1. Open(p) \in Handler /\ Open(p).route = "/open"
    BY DEF Handler, Open
  <2>2. /\ pc[Open(p)] = "idle" /\ Goto(Open(p), "salt") /\ "salt" \in Label
        /\ UNCHANGED <<store, lists, drawn, token, chain, told, frame>>
    BY <1>1 DEF PostOpen, Label
  <2>3. Locals(Open(p)) /\ frame[Open(p)] \in Frame /\ frame = [frame EXCEPT ![Open(p)] = frame[Open(p)]]
    BY <2>1 DEF WalletInv, Stores
  <2> HIDE DEF Open
  <2> QED BY <2>1, <2>2, <2>3, Moves DEF Locals
<1>2. ASSUME NEW b \in Block, PostBlock(b) PROVE WalletInv'
  <2> DEFINE h == NewBlock(b)
             f == [frame[h] EXCEPT !.todo = {b} \cup Txns[b]]
  <2>1. h \in Handler /\ h.route = "/new-block" /\ h.arg = b
    BY DEF Handler, NewBlock
  <2>2. /\ b \in posting /\ pc[h] = "idle" /\ posting' \subseteq posting
        /\ UNCHANGED <<store, lists, drawn, token, recorded, told>>
        /\ \/ UNCHANGED <<pc, frame>>
           \/ Goto(h, "privs") /\ frame' = [frame EXCEPT ![h] = f]
    BY <1>2 DEF PostBlock
  <2>3. Locals(h) /\ frame[h] \in Frame /\ b \in recorded /\ Txns[b] \subseteq Txn
    BY <2>1, <2>2, BlocksAssumption DEF WalletInv, Stores
  <2>4. /\ f \in Frame /\ f.draw = frame[h].draw /\ f.keys = frame[h].keys
        /\ f.outs = frame[h].outs /\ f.todo = {b} \cup Txns[b]
    BY <2>3 DEF Frame
  <2>5. pc = [pc EXCEPT ![h] = pc[h]] /\ frame = [frame EXCEPT ![h] = frame[h]]
    BY DEF WalletInv, Stores
  <2> HIDE DEF h, f
  <2>6. CASE Goto(h, "privs") /\ frame' = [frame EXCEPT ![h] = f]
    <3>1. "privs" \in Label
      BY DEF Label
    <3> QED BY <2>1, <2>2, <2>3, <2>4, <2>6, <3>1, Moves DEF Locals
  <2>7. CASE UNCHANGED <<pc, frame>>
    <3>1. "idle" \in Label /\ Goto(h, "idle")
      BY <2>2, <2>5, <2>7 DEF Label, Goto
    <3>2. frame' = [frame EXCEPT ![h] = frame[h]] /\ frame[h].todo = {}
      BY <2>2, <2>3, <2>5, <2>7 DEF Locals
    <3> QED BY <2>1, <2>2, <2>3, <3>1, <3>2, Moves DEF Locals
  <2> QED BY <2>2, <2>6, <2>7
<1>3. ASSUME NEW h \in Handler, Saved(h) \/ Dies(h) PROVE WalletInv'
  <2>1. /\ Goto(h, "idle") /\ frame' = [frame EXCEPT ![h] = NoFrame] /\ "idle" \in Label
        /\ UNCHANGED <<store, lists, drawn, token, chain, handed, signed>>
    BY <1>3 DEF Saved, Dies, Return, Label
  <2>2. 0 \in 0..drawn /\ posting' \subseteq posting
    BY <2>1, WalletAssumption DEF WalletInv, Stores
  <2> QED BY <2>1, <2>2, EmptyFrame, Moves
<1> QED BY <1>1, <1>2, <1>3

\* The writes of Create, in its order; the token leaves after the key.
LEMMA CreateInv ==
  ASSUME WalletInv, NEW h \in Handler,
         PutPassword(h) \/ PutSalt(h) \/ PutToken(h) \/ PutKey(h) \/ ReplyToken(h)
  PROVE  WalletInv'
<1> USE DEF chain, told
<1>0. /\ Stores /\ Locals(h) /\ frame[h] \in Frame /\ frame = [frame EXCEPT ![h] = frame[h]]
      /\ (h.route = "/sign" /\ pc[h] # "idle" => signed[h.arg] = NotSigned)
      /\ drawn \in 0..MaxCreates /\ MaxCreates \in Nat
  <2>1. Stores /\ Locals(h) /\ (h.route = "/sign" /\ pc[h] # "idle" => signed[h.arg] = NotSigned)
    BY DEF WalletInv, SignedOnce
  <2> QED BY <2>1, WalletAssumption DEF Stores
<1>1. CASE PutPassword(h)
  <2> DEFINE f == [frame[h] EXCEPT !.draw = drawn + 1]
  <2>1. /\ pc[h] = "create" /\ drawn < MaxCreates /\ drawn' = drawn + 1
        /\ authDB' = [authDB EXCEPT !.password = <<drawn + 1, Password[h.arg]>>]
        /\ frame' = [frame EXCEPT ![h] = f] /\ Goto(h, "putSalt") /\ "putSalt" \in Label
        /\ UNCHANGED <<privDB, txnDB, lists, token, chain, told>>
    BY <1>1 DEF PutPassword, Label
  <2>2. /\ f \in Frame /\ f.draw = drawn + 1 /\ f.keys = frame[h].keys
        /\ f.outs = frame[h].outs /\ f.todo = frame[h].todo
    BY <1>0, <2>1 DEF Frame
  <2> HIDE DEF f
  <2>3. /\ pc' \in [Handler -> Label] /\ frame' \in [Handler -> Frame]
        /\ \A g \in Handler : Locals(g)'
        /\ \A g \in Handler : g # h => pc'[g] = pc[g]
    <3>1. /\ drawn' \in Nat /\ drawn <= drawn' /\ f.draw \in 0..drawn' /\ f.draw # 0
          /\ privDB' = privDB /\ recorded' = recorded
      BY <1>0, <2>1, <2>2
    <3>2. f.keys = {} /\ f.outs = {} /\ (f.todo # {} => frame[h].todo # {})
      BY <1>0, <2>1, <2>2 DEF Locals
    <3> QED BY <1>0, <2>1, <2>2, <3>1, <3>2, LocalsMove DEF Locals
  <2>4. Stores'
    <3>1. /\ authDB' = [password |-> authDB'.password, salt |-> authDB'.salt, token |-> authDB'.token]
          /\ authDB'.salt = authDB.salt /\ authDB'.token = authDB.token
      BY <1>0, <2>1 DEF Stores
    <3>2. 0..drawn \subseteq 0..drawn' /\ drawn' \in 0..MaxCreates
      BY <1>0, <2>1
    <3>3. token' \in [Opener -> 0..drawn']
      BY <1>0, <2>1, <3>2 DEF Stores
    <3> QED BY <1>0, <2>1, <2>3, <3>1, <3>2, <3>3 DEF Stores, lists
  <2>5. KeysKept' /\ SignedOnce' /\ SavedIsMine'
    BY <1>0, <2>1, <2>3, SavedStays DEF lists, WalletInv, KeysKept, SignedOnce
  <2> QED BY <2>3, <2>4, <2>5 DEF WalletInv
<1>2. CASE PutSalt(h) \/ PutToken(h) \/ PutKey(h)
  <2>1. PICK l \in {"putToken", "putKey", "privs"} :
          /\ pc[h] \in {"putSalt", "putToken", "putKey"} /\ Goto(h, l)
          /\ UNCHANGED <<txnDB, lists, drawn, token, chain, told, frame>>
          /\ \/ authDB' = [authDB EXCEPT !.salt = frame[h].draw] /\ privDB' = privDB
             \/ authDB' = [authDB EXCEPT !.token = frame[h].draw] /\ privDB' = privDB
             \/ authDB' = authDB /\ privDB' = privDB \cup {frame[h].draw}
    BY <1>2 DEF PutSalt, PutToken, PutKey
  <2>2. frame[h].draw \in 0..drawn /\ frame[h].draw \in Draw
    BY <1>0, <2>1 DEF Locals, Draw
  <2>3. l \in Label
    BY DEF Label
  <2>4. /\ pc' \in [Handler -> Label] /\ \A g \in Handler : Locals(g)'
        /\ \A g \in Handler : g # h => pc'[g] = pc[g]
    BY <1>0, <2>1, <2>2, <2>3, LocalsMove DEF Locals
  <2>5. Stores'
    <3>1. /\ authDB' = [password |-> authDB'.password, salt |-> authDB'.salt, token |-> authDB'.token]
          /\ authDB'.salt \in 0..drawn /\ authDB'.token \in 0..drawn
      BY <1>0, <2>1, <2>2 DEF Stores
    <3> QED BY <1>0, <2>1, <2>2, <2>4, <3>1 DEF Stores, lists
  <2>6. KeysKept' /\ SignedOnce' /\ SavedIsMine'
    BY <1>0, <2>1, <2>4, SavedStays DEF lists, WalletInv, KeysKept, SignedOnce
  <2> QED BY <2>4, <2>5, <2>6 DEF WalletInv
<1>3. CASE ReplyToken(h)
  <2>1. /\ Goto(h, "idle") /\ frame' = [frame EXCEPT ![h] = NoFrame] /\ "idle" \in Label
        /\ token' = [token EXCEPT ![h.arg] = frame[h].draw]
        /\ UNCHANGED <<store, lists, drawn, chain, told>>
    BY <1>3 DEF ReplyToken, Return, Label
  <2>2. /\ pc' \in [Handler -> Label] /\ frame' \in [Handler -> Frame]
        /\ \A g \in Handler : Locals(g)'
        /\ \A g \in Handler : g # h => pc'[g] = pc[g]
        /\ pc'[h] = "idle"
    <3>1. /\ drawn' \in Nat /\ drawn <= drawn' /\ 0 \in 0..drawn'
          /\ privDB' = privDB /\ recorded' = recorded
      BY <1>0, <2>1 DEF store
    <3> QED BY <2>1, <3>1, EmptyFrame, LocalsMove
  <2>3. Stores'
    BY <1>0, <2>1, <2>2 DEF Stores, Locals, store, lists
  <2>4. KeysKept' /\ SignedOnce' /\ SavedIsMine'
    BY <1>0, <2>1, <2>2, SavedStays DEF store, lists, WalletInv, KeysKept, SignedOnce
  <2> QED BY <2>2, <2>3, <2>4 DEF WalletInv
<1> QED BY <1>1, <1>2, <1>3

-------------------------------------------------------------------------------

\* Assignments of the lists, by one handler or by two at a time.
LEMMA SetPrivsInv ==
  ASSUME WalletInv, NEW g \in Handler, NEW h \in Handler, SetPrivs(g, h)
  PROVE  WalletInv'
<1>1. /\ pc[g] = "setPrivs" /\ pc[h] = "setPrivs"
      /\ privs' \in Mix(frame[g].keys, frame[h].keys)
      /\ pc' = [k \in Handler |-> IF k \in {g, h} THEN "txns" ELSE pc[k]]
      /\ frame' = [k \in Handler |-> IF k \in {g, h} THEN [frame[k] EXCEPT !.keys = {}] ELSE frame[k]]
      /\ UNCHANGED <<store, outputs, drawn, token, chain, told>>
  BY DEF SetPrivs
<1> USE DEF store, chain, told
<1>2. privs' \subseteq privDB
  <2>1. frame[g].keys \subseteq privDB /\ frame[h].keys \subseteq privDB
    BY DEF WalletInv, Locals
  <2> QED BY <1>1, <2>1, MixInside
<1>3. ASSUME NEW k \in Handler
      PROVE  Locals(k)' /\ pc'[k] \in Label /\ frame'[k] \in Frame /\ (pc'[k] # "idle" <=> pc[k] # "idle")
  <2>1. Locals(k) /\ pc[k] \in Label /\ frame[k] \in Frame
    BY DEF WalletInv, Stores
  <2>2. CASE k \in {g, h}
    <3>1. pc[k] = "setPrivs" /\ pc'[k] = "txns" /\ frame'[k] = [frame[k] EXCEPT !.keys = {}]
      BY <1>1, <2>2
    <3>2. /\ frame'[k] \in Frame /\ frame'[k].draw = frame[k].draw /\ frame'[k].keys = {}
          /\ frame'[k].outs = frame[k].outs /\ frame'[k].todo = frame[k].todo
      BY <2>1, <3>1 DEF Frame
    <3> QED BY <1>1, <2>1, <3>1, <3>2 DEF Locals, Label
  <2>3. CASE k \notin {g, h}
    BY <1>1, <2>1, <2>3 DEF Locals
  <2> QED BY <2>2, <2>3
<1>4. Stores'
  BY <1>1, <1>2, <1>3 DEF WalletInv, Stores
<1>5. KeysKept' /\ SignedOnce' /\ SavedIsMine'
  BY <1>1, <1>2, <1>3, SavedStays DEF WalletInv, KeysKept, SignedOnce
<1> QED BY <1>3, <1>4, <1>5 DEF WalletInv

\* Likewise for the outputs, after which a request goes on or ends.
LEMMA SetOutputsInv ==
  ASSUME WalletInv, NEW g \in Handler, NEW h \in Handler, SetOutputs(g, h)
  PROVE  WalletInv'
<1>1. /\ pc[g] = "setOutputs" /\ pc[h] = "setOutputs"
      /\ pc' = [k \in Handler |-> IF k \in {g, h} THEN AfterRefresh(k) ELSE pc[k]]
      /\ frame' = [k \in Handler |-> IF k \notin {g, h} THEN frame[k]
                                     ELSE IF AfterRefresh(k) = "idle" THEN NoFrame
                                     ELSE [frame[k] EXCEPT !.outs = {}]]
      /\ UNCHANGED <<store, privs, drawn, token, chain, told>>
  BY DEF SetOutputs
<1> USE DEF store, chain, told
<1>2. ASSUME NEW k \in Handler
      PROVE  Locals(k)' /\ pc'[k] \in Label /\ frame'[k] \in Frame /\ (pc'[k] # "idle" => pc[k] # "idle")
  <2>1. Locals(k) /\ pc[k] \in Label /\ frame[k] \in Frame /\ 0 \in 0..drawn
    BY WalletAssumption DEF WalletInv, Stores
  <2>2. CASE k \in {g, h} /\ AfterRefresh(k) = "idle"
    <3>1. pc[k] = "setOutputs" /\ pc'[k] = "idle" /\ frame'[k] = NoFrame
      BY <1>1, <2>2
    <3> QED BY <1>1, <2>1, <3>1, EmptyFrame DEF Locals, Label
  <2>3. CASE k \in {g, h} /\ AfterRefresh(k) # "idle"
    <3>1. pc[k] = "setOutputs" /\ pc'[k] = AfterRefresh(k) /\ frame'[k] = [frame[k] EXCEPT !.outs = {}]
      BY <1>1, <2>3
    <3>2. /\ frame'[k] \in Frame /\ frame'[k].draw = frame[k].draw /\ frame'[k].outs = {}
          /\ frame'[k].keys = frame[k].keys /\ frame'[k].todo = frame[k].todo
      BY <2>1, <3>1 DEF Frame
    <3>3. /\ AfterRefresh(k) \in {"reply", "keys", "save", "sign"}
          /\ AfterRefresh(k) = "sign" => k.route = "/sign"
      BY <2>3 DEF AfterRefresh
    <3> QED BY <1>1, <2>1, <3>1, <3>2, <3>3 DEF Locals, Label
  <2>4. CASE k \notin {g, h}
    BY <1>1, <2>1, <2>4 DEF Locals
  <2> QED BY <2>2, <2>3, <2>4
<1>3. Stores'
  BY <1>1, <1>2 DEF WalletInv, Stores
<1>4. KeysKept' /\ SignedOnce' /\ SavedIsMine'
  BY <1>1, <1>2, SavedStays DEF WalletInv, KeysKept, SignedOnce
<1> QED BY <1>2, <1>3, <1>4 DEF WalletInv

-------------------------------------------------------------------------------

\* What saveMyTxns picks belongs to a stored key, and to the posted block.
LEMMA MineStored ==
  ASSUME WalletInv, NEW h \in Handler, NEW x \in frame[h].todo, NEW ks \in SeenPrivs(h),
         NEW o \in Mine(x, ks)
  PROVE  /\ o \in Output /\ OwnerOf(o) \in privDB
         /\ h.arg \in recorded /\ o \in OutputsOf(h.arg)
<1>1. /\ h.arg \in recorded /\ h.arg \in Block /\ x \in {h.arg} \cup Txns[h.arg]
  BY DEF WalletInv, Stores, Locals
<1>2. o \in OutputsIn(x) /\ OwnerOf(o) \in ks
  BY DEF Mine
<1>3. Txns[h.arg] \subseteq Txn /\ Block \cap Txn = {}
  BY <1>1, BlocksAssumption, HashAssumption
<1>4. o \in OutputsOf(h.arg)
  BY <1>1, <1>2, <1>3 DEF OutputsIn, OutputsOf
<1>5. CoinbaseOut[h.arg] \in Output /\ \A t \in Txns[h.arg] : Outputs[t] \subseteq Output
  BY <1>1, <1>3, BlocksAssumption
<1>6. o \in Output
  BY <1>4, <1>5 DEF OutputsOf
<1> QED BY <1>1, <1>2, <1>4, <1>6, SeenStored

\* Saving adds such outputs.
LEMMA SaveInv ==
  ASSUME WalletInv, NEW h \in Handler, SaveTxn(h) \/ SaveFails(h)
  PROVE  WalletInv'
<1>1. PICK x \in frame[h].todo, f \in Frame, l \in {"save", "idle"} :
        /\ pc[h] = "save" /\ Goto(h, l) /\ frame' = [frame EXCEPT ![h] = f]
        /\ f = NoFrame \/ (l = "save" /\ f = [frame[h] EXCEPT !.todo = @ \ {x}])
        /\ \E ks \in SeenPrivs(h), s \in SUBSET Output : s \subseteq Mine(x, ks) /\ txnDB' = txnDB \cup s
        /\ UNCHANGED <<authDB, privDB, lists, drawn, token, chain, told>>
  <2>1. frame[h] \in Frame /\ pc = [pc EXCEPT ![h] = pc[h]]
    BY DEF WalletInv, Stores
  <2>2. CASE SaveFails(h)
    <3>1. /\ pc[h] = "save" /\ Goto(h, "idle") /\ frame' = [frame EXCEPT ![h] = NoFrame]
          /\ \E x \in frame[h].todo, ks \in SeenPrivs(h), s \in SUBSET Output :
               s \subseteq Mine(x, ks) /\ txnDB' = txnDB \cup s
          /\ UNCHANGED <<authDB, privDB, lists, drawn, token, chain, told>>
      BY <2>2 DEF SaveFails, Return
    <3> QED BY <3>1, EmptyFrame
  <2>3. CASE SaveTxn(h)
    <3>1. PICK x \in frame[h].todo, ks \in SeenPrivs(h) :
            /\ pc[h] = "save" /\ txnDB' = txnDB \cup Mine(x, ks)
            /\ frame' = [frame EXCEPT ![h].todo = @ \ {x}]
            /\ UNCHANGED <<authDB, privDB, lists, drawn, token, chain, told, pc>>
      BY <2>3 DEF SaveTxn
    <3>2. Mine(x, ks) \in SUBSET Output
      BY <3>1, MineStored
    <3>3. [frame[h] EXCEPT !.todo = @ \ {x}] \in Frame
      BY <2>1 DEF Frame
    <3>4. Goto(h, "save")
      BY <2>1, <3>1 DEF Goto
    <3> QED BY <3>1, <3>2, <3>3, <3>4
  <2> QED BY <2>2, <2>3
<1>2. PICK s \in SUBSET Output : /\ txnDB' = txnDB \cup s
        /\ \A o \in s : /\ OwnerOf(o) \in privDB /\ h.arg \in recorded /\ o \in OutputsOf(h.arg)
  BY <1>1, MineStored
<1> USE DEF chain, told, lists
<1>3. /\ pc' \in [Handler -> Label] /\ frame' \in [Handler -> Frame]
      /\ \A g \in Handler : Locals(g)'
      /\ \A g \in Handler : g # h => pc'[g] = pc[g]
      /\ pc'[h] = l
  <2>1. /\ drawn' \in Nat /\ drawn <= drawn' /\ drawn' = drawn /\ 0 \in 0..drawn
        /\ privDB' = privDB /\ recorded' = recorded /\ l \in Label
    BY <1>1, WalletAssumption DEF WalletInv, Stores, Label
  <2>2. CASE f = NoFrame
    BY <1>1, <2>1, <2>2, EmptyFrame, LocalsMove
  <2>3. CASE l = "save" /\ f = [frame[h] EXCEPT !.todo = @ \ {x}]
    <3>1. /\ f.draw = frame[h].draw /\ f.keys = frame[h].keys /\ f.outs = frame[h].outs
          /\ f.todo = frame[h].todo \ {x} /\ Locals(h)
      BY <2>3 DEF WalletInv, Stores, Frame
    <3>2. /\ f.draw \in 0..drawn' /\ f.keys = {} /\ f.outs = {}
          /\ h.route = "/new-block" /\ h.arg \in recorded /\ f.todo \subseteq {h.arg} \cup Txns[h.arg]
      BY <1>1, <2>1, <3>1 DEF Locals
    <3> QED BY <1>1, <2>1, <2>3, <3>2, LocalsMove
  <2> QED BY <1>1, <2>2, <2>3
<1>4. Stores'
  BY <1>1, <1>2, <1>3 DEF WalletInv, Stores
<1>5. KeysKept' /\ SignedOnce'
  BY <1>1, <1>3 DEF WalletInv, KeysKept, SignedOnce
<1>6. SavedIsMine'
  <2> SUFFICES ASSUME NEW o \in txnDB \cup s
               PROVE  o \in UNION {OutputsOf(b) : b \in recorded} /\ OwnerOf(o) \in privDB
    <3>1. \A o : OwnerOf(o)' = OwnerOf(o)
      BY <1>1 DEF OwnerOf
    <3> QED BY <1>1, <1>2, <3>1 DEF SavedIsMine
  <2> QED BY <1>2 DEF WalletInv, SavedIsMine
<1> QED BY <1>3, <1>4, <1>5, <1>6 DEF WalletInv

-------------------------------------------------------------------------------

\* The first key a miner gets is one of the list.
LEMMA GiveKeysInv == ASSUME WalletInv, NEW h \in Handler, GiveKeys(h) PROVE WalletInv'
<1>0. PICK ks \in SeenPrivs(h) : \E k \in FirstKey(ks) : handed' = handed \cup {k}
  BY DEF GiveKeys
<1>1. PICK k \in FirstKey(ks) : handed' = handed \cup {k}
  BY <1>0
<1>2. k \in privDB
  BY SeenStored DEF FirstKey
<1>3. /\ Goto(h, "idle") /\ frame' = [frame EXCEPT ![h] = NoFrame] /\ "idle" \in Label
      /\ UNCHANGED <<store, lists, drawn, token, chain, accepted, signed>>
  BY DEF GiveKeys, Return, Label
<1> USE DEF store, lists, chain
<1>4. /\ pc' \in [Handler -> Label] /\ frame' \in [Handler -> Frame]
      /\ \A g \in Handler : Locals(g)'
      /\ \A g \in Handler : g # h => pc'[g] = pc[g]
      /\ pc'[h] = "idle"
  <2>1. /\ drawn' \in Nat /\ drawn <= drawn' /\ 0 \in 0..drawn'
        /\ privDB' = privDB /\ recorded' = recorded
    BY <1>3, WalletAssumption DEF WalletInv, Stores
  <2> QED BY <1>3, <2>1, EmptyFrame, LocalsMove
<1>5. Stores'
  BY <1>3, <1>4 DEF WalletInv, Stores
<1>6. KeysKept' /\ SignedOnce' /\ SavedIsMine'
  BY <1>1, <1>2, <1>3, <1>4, SavedStays DEF WalletInv, KeysKept, SignedOnce
<1> QED BY <1>4, <1>5, <1>6 DEF WalletInv

\* What is signed was not signed, nor mined, before.
LEMMA SignInv == ASSUME WalletInv, NEW h \in Handler, SignTxn(h) PROVE WalletInv'
<1>1. /\ pc[h] = "sign" /\ Goto(h, "idle") /\ frame' = [frame EXCEPT ![h] = NoFrame]
      /\ "idle" \in Label /\ \E s : signed' = [signed EXCEPT ![h.arg] = s]
      /\ UNCHANGED <<store, lists, drawn, token, chain, handed, accepted>>
  BY DEF SignTxn, Return, Label
<1> USE DEF store, lists, chain
<1>2. h.route = "/sign" /\ signed[h.arg] = NotSigned
  BY <1>1 DEF WalletInv, Locals, SignedOnce
<1>3. h.arg \in Txn /\ \A g \in Handler : g.route = "/sign" /\ g.arg = h.arg => g = h
  BY <1>2 DEF Handler, Open, Tracking, Balance, NewBlock, Sign
<1>4. /\ pc' \in [Handler -> Label] /\ frame' \in [Handler -> Frame]
      /\ \A g \in Handler : Locals(g)'
      /\ \A g \in Handler : g # h => pc'[g] = pc[g]
      /\ pc'[h] = "idle"
  <2>1. /\ drawn' \in Nat /\ drawn <= drawn' /\ 0 \in 0..drawn'
        /\ privDB' = privDB /\ recorded' = recorded
    BY <1>1, WalletAssumption DEF WalletInv, Stores
  <2> QED BY <1>1, <2>1, EmptyFrame, LocalsMove
<1>5. /\ signed' = [t \in Txn |-> signed'[t]]
      /\ \A t \in Txn : t # h.arg => signed'[t] = signed[t]
  BY <1>1 DEF WalletInv, Stores
<1>6. Stores'
  BY <1>1, <1>4, <1>5 DEF WalletInv, Stores
<1>7. SignedOnce'
  <2>1. ASSUME NEW g \in Handler, g.route = "/sign", pc'[g] # "idle" PROVE signed'[g.arg] = NotSigned
    <3>1. g # h /\ g.arg # h.arg /\ pc[g] # "idle"
      BY <1>3, <1>4, <2>1
    <3>2. g.arg \in Txn
      BY <2>1 DEF Handler, Open, Tracking, Balance, NewBlock, Sign
    <3> QED BY <1>5, <2>1, <3>1, <3>2 DEF WalletInv, SignedOnce
  <2>2. ASSUME NEW b \in recorded, NEW t \in Txns[b] PROVE signed'[t] # NotSigned
    <3>1. t \in Txn /\ signed[t] # NotSigned
      BY BlocksAssumption DEF WalletInv, Stores, SignedOnce
    <3> QED BY <1>2, <1>5, <3>1
  <2> QED BY <1>1, <2>1, <2>2 DEF SignedOnce
<1>8. KeysKept' /\ SavedIsMine'
  BY <1>1, <1>2, <1>5, SavedStays DEF WalletInv, KeysKept
<1> QED BY <1>4, <1>6, <1>7, <1>8 DEF WalletInv

\* A restart forgets what is not stored; a Create that fails restarts the
\* server, or ends its handler.
LEMMA RestartInv ==
  ASSUME WalletInv, Restart \/ \E h \in Handler : CreateFails(h)
  PROVE  WalletInv'
<1> USE DEF store, lists, chain, told
<1>1. ASSUME RestartEffects, UNCHANGED store PROVE WalletInv'
  <2>1. /\ pc' = [h \in Handler |-> "idle"] /\ frame' = [h \in Handler |-> NoFrame]
        /\ privs' = {} /\ token' = [token EXCEPT ![Server] = 0] /\ posting' = {}
        /\ UNCHANGED <<store, drawn, recorded, told>>
    BY <1>1 DEF RestartEffects
  <2>2. 0 \in 0..drawn /\ "idle" \in Label
    BY WalletAssumption DEF WalletInv, Stores, Label
  <2>3. Stores'
    BY <2>1, <2>2, EmptyFrame DEF WalletInv, Stores
  <2>4. ASSUME NEW h \in Handler PROVE Locals(h)'
    BY <2>1, <2>2, EmptyFrame DEF Locals
  <2>5. KeysKept' /\ SignedOnce' /\ SavedIsMine'
    BY <2>1, SavedStays DEF WalletInv, KeysKept, SignedOnce
  <2> QED BY <2>3, <2>4, <2>5 DEF WalletInv
<1>2. ASSUME NEW h \in Handler, CreateFails(h), h # Open(Server) PROVE WalletInv'
  <2>1. /\ Goto(h, "idle") /\ frame' = [frame EXCEPT ![h] = NoFrame] /\ "idle" \in Label
        /\ UNCHANGED <<store, lists, drawn, token, chain, told>>
    BY <1>2 DEF CreateFails, Return, Label
  <2>2. 0 \in 0..drawn /\ posting' \subseteq posting
    BY <2>1, WalletAssumption DEF WalletInv, Stores
  <2> QED BY <2>1, <2>2, EmptyFrame, Moves
<1> QED BY <1>1, <1>2 DEF Restart, CreateFails

\* The client adopts blocks of signed transactions only.
LEMMA AdoptInv == ASSUME WalletInv, NEW b \in Block, Adopt(b) PROVE WalletInv'
<1>1. /\ recorded' = recorded \cup {b} /\ posting' = posting \cup {b}
      /\ \A t \in Txns[b] : signed[t] # NotSigned
      /\ UNCHANGED <<store, lists, drawn, token, told, pc, frame>>
  BY DEF Adopt, Adoptable
<1> USE DEF store, lists, told
<1>2. Stores'
  BY <1>1 DEF WalletInv, Stores
<1>3. ASSUME NEW h \in Handler PROVE Locals(h)'
  BY <1>1 DEF WalletInv, Locals
<1>4. KeysKept' /\ SignedOnce' /\ SavedIsMine'
  BY <1>1, SavedStays DEF WalletInv, KeysKept, SignedOnce
<1> QED BY <1>2, <1>3, <1>4 DEF WalletInv

\* Every step keeps the stores in order.
LEMMA WalletStep == WalletInv /\ [WalletNext]_walletVars => WalletInv'
<1>1. ASSUME WalletInv, UNCHANGED walletVars PROVE WalletInv'
  BY <1>1 DEF walletVars, store, lists, chain, told, WalletInv, Stores, Locals, KeysKept,
     SignedOnce, SavedIsMine, OwnerOf
<1>2. ASSUME WalletInv, NEW h \in Handler, Opening(h) \/ Step(h) PROVE WalletInv'
  BY <1>2, ReadsInv, CreateInv, SetPrivsInv, SetOutputsInv, SaveInv, EndsInv DEF Opening, Step
<1>3. ASSUME WalletInv, SteadyNext PROVE WalletInv'
  BY <1>2, <1>3, EndsInv, AdoptInv, ReadsInv, GiveKeysInv, SignInv, SetPrivsInv, SetOutputsInv
     DEF SteadyNext
<1>4. ASSUME WalletInv, WalletNext PROVE WalletInv'
  BY <1>3, <1>4, RestartInv, SaveInv DEF WalletNext
<1> QED BY <1>1, <1>4

-------------------------------------------------------------------------------

\* Types, and who holds lists and transactions (wallet-server.go:500-534, 626-660).
THEOREM WalletTypes == WalletSpec => []WalletTypeOK
<1>1. WalletInv => WalletTypeOK
  BY DEF WalletInv, Stores, Locals, WalletTypeOK
<1> QED BY WalletInitially, WalletStep, <1>1, PTL DEF WalletSpec

\* No key in use is lost, with any number of racing and failing Creates
\* (wallet-server.go:469-498).
THEOREM KeysAreKept == WalletSpec => []KeysKept
<1>1. WalletInv => KeysKept
  BY DEF WalletInv
<1> QED BY WalletInitially, WalletStep, <1>1, PTL DEF WalletSpec

\* The wallet saves nothing that is not recorded or not its own
\* (wallet-server.go:626-660).
THEOREM SavedAreMine == WalletSpec => []SavedIsMine
<1>1. WalletInv => SavedIsMine
  BY DEF WalletInv
<1> QED BY WalletInitially, WalletStep, <1>1, PTL DEF WalletSpec
===============================================================================
