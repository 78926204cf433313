--------------------------- MODULE WalletOpenProofs ---------------------------
(***************************************************************************)
(* The wallet of processes that open it one after the other with one       *)
(* password, as they do when miners start after their server: there is one *)
(* token and at most one key, so that no race on the list of keys can be   *)
(* seen, and the promises made with the list in memory are kept.           *)
(***************************************************************************)
EXTENDS WalletProofs, FiniteSetTheorems

\* What a user does: one password, and no two processes opening at a time.
SamePassword == \A p, q \in Opener : Password[p] = Password[q]

OneOpenSpec == WalletInit /\ [][WalletNext /\ OneOpen']_walletVars

Creating == {"create", "putSalt", "putToken", "putKey"}
Authenticating == {"salt", "password", "token"} \cup Creating
Refreshed == {"txns", "setOutputs", "reply", "keys", "save", "sign"}

\* The wallet is made: there is a token, and no Create is about to add a key.
Made == authDB.token # 0 /\ \A h \in Handler : pc[h] # "putKey"

\* Once there is a token, the password matches; the key is that of the token.
Creds ==
  /\ authDB.token # 0 =>
       authDB.salt # 0 /\ authDB.password = <<authDB.salt, Password[Server]>>
  /\ privDB \subseteq {authDB.token}
  /\ \A p \in Opener : token[p] # 0 => Made /\ token[p] = authDB.token
  /\ accepted # {} => Made

\* What a handler that is at l with the variables f may rely on.
PlaceAt(h, l, f) ==
  /\ l \in Authenticating => h.route = "/open"
  /\ l \in Creating \ {"putKey"} => authDB.token = 0
  /\ l = "password" => f.draw = authDB.salt
  /\ l \in {"putSalt", "putToken"} => authDB.password = <<f.draw, Password[Server]>>
  /\ l = "putToken" => authDB.salt = f.draw
  /\ l = "putKey" => authDB.token = f.draw /\ authDB.token # 0 /\ privDB = {}
  /\ l \in {"privs", "setPrivs"} \cup Refreshed => Made
  /\ l \in {"privs", "setPrivs"} \cup Refreshed /\ h.route = "/open" => f.draw = authDB.token
  /\ l = "setPrivs" => f.keys = privDB
  /\ l \in Refreshed => privs = privDB
  /\ l = "reply" => h.route = "/open"
  /\ l = "save" => h.route = "/new-block"

CredInv == Creds /\ OneOpen /\ \A h \in Handler : PlaceAt(h, pc[h], frame[h])

\* The outputs of x that are the wallet's are stored.
Kept(x) == \A o \in OutputsIn(x) : OwnerOf(o) \in privDB => o \in txnDB

\* What is listed, or funds a payment, is stored; what a block being saved has
\* behind it is stored.
Books ==
  /\ outputs \subseteq txnDB /\ \A h \in Handler : frame[h].outs \subseteq txnDB
  /\ \A t \in Txn : signed[t] # NotSigned => signed[t].fund \in txnDB
  /\ accepted \subseteq recorded
  /\ \A h \in Handler : h.route = "/new-block" /\ pc[h] # "idle" =>
       /\ h.arg \in recorded
       /\ \A x \in ({h.arg} \cup Txns[h.arg]) \ frame[h].todo : Kept(x)

OpenInv == WalletInv /\ CredInv /\ Books /\ AcceptedIsSaved /\ SignedByOwner

-------------------------------------------------------------------------------

\* With at most one key, no mixture of equal lists is torn.
LEMMA MixSame ==
  ASSUME NEW a, NEW k, a \subseteq {k}
  PROVE  Mix(a, a) = {a}
<1>1. a = {} \/ a = {k}
  OBVIOUS
<1>2. Cardinality({}) = 0 /\ Cardinality({k}) = 1
  BY FS_EmptySet, FS_Singleton
<1>3. ASSUME NEW s \in Mix(a, a) PROVE s = a
  <2>1. s \subseteq a /\ Cardinality(s) = Cardinality(a)
    BY DEF Mix
  <2>2. CASE a = {}
    BY <2>1, <2>2
  <2>3. CASE a = {k}
    <3>1. Cardinality(s) = 1
      BY <1>2, <2>1, <2>3
    <3>2. s # {}
      BY <1>2, <3>1
    <3> QED BY <2>1, <2>3, <3>2
  <2> QED BY <1>1, <2>2, <2>3
<1>4. a \in Mix(a, a)
  BY DEF Mix
<1> QED BY <1>3, <1>4

\* Whoever works with the list of keys sees what is stored.
LEMMA SeenIsKeys ==
  ASSUME CredInv, NEW h \in Handler, pc[h] \in Refreshed, NEW ks \in SeenPrivs(h)
  PROVE  ks = privDB
<1> DEFINE news == {frame[g].keys : g \in {g \in Handler \ {h} : pc[g] = "setPrivs"}}
<1>1. privs = privDB /\ \A n \in news : n = privDB
  BY DEF CredInv, PlaceAt
<1>2. ks \in {privs} \cup news \cup UNION {Mix(privs, n) : n \in news}
  BY DEF SeenPrivs, Seen
<1>3. Mix(privDB, privDB) = {privDB}
  BY MixSame DEF CredInv, Creds
<1> HIDE DEF news
<1>4. CASE ks \in UNION {Mix(privs, n) : n \in news}
  <2>1. PICK n \in news : ks \in Mix(privs, n)
    BY <1>4
  <2> QED BY <1>1, <1>3, <2>1
<1> QED BY <1>1, <1>2, <1>4

\* Whatever a handler sees of the list of outputs, they are stored.
LEMMA SeenAreStored ==
  ASSUME Books, NEW h \in Handler, NEW os \in SeenOutputs(h)
  PROVE  os \subseteq txnDB
<1> DEFINE news == {frame[g].outs : g \in {g \in Handler \ {h} : pc[g] = "setOutputs"}}
<1>1. outputs \subseteq txnDB /\ \A n \in news : n \subseteq txnDB
  BY DEF Books
<1>2. os \in {outputs} \cup news \cup UNION {Mix(outputs, n) : n \in news}
  BY DEF SeenOutputs, Seen
<1>3. CASE os \in UNION {Mix(outputs, n) : n \in news}
  <2>1. PICK n \in news : os \in Mix(outputs, n)
    BY <1>3
  <2>2. n \subseteq txnDB /\ (os \subseteq outputs \/ os \subseteq n)
    BY <1>1, <2>1, MixInside
  <2> QED BY <1>1, <2>2
<1> QED BY <1>1, <1>2, <1>3

\* An output of a recorded block keeps its owner, as SavedStays has it.
LEMMA OwnerStays ==
  ASSUME WalletInv, NEW b \in recorded, NEW o \in OutputsOf(b),
         \A t \in Txn : signed[t] # NotSigned => signed'[t] = signed[t]
  PROVE  OwnerOf(o)' = OwnerOf(o)
<1>1. CASE IsCoinbase(o)
  BY <1>1 DEF OwnerOf
<1>2. CASE ~IsCoinbase(o)
  <2>1. PICK t \in Txns[b] : o \in Outputs[t]
    <3>1. o # CoinbaseOut[b]
      BY <1>2 DEF IsCoinbase, WalletInv, Stores
    <3> QED BY <3>1 DEF OutputsOf
  <2>2. t \in Txn
    BY BlocksAssumption DEF WalletInv, Stores
  <2>3. TxnOf(o) = t
    BY <2>1, <2>2, WalletAssumption DEF TxnOf
  <2>4. signed[t] # NotSigned
    BY DEF WalletInv, SignedOnce
  <2> QED BY <1>2, <2>2, <2>3, <2>4 DEF OwnerOf
<1> QED BY <1>1, <1>2

-------------------------------------------------------------------------------

\* While Create writes, nobody else is at work, and nobody has a token.
LEMMA Alone ==
  ASSUME WalletInv, CredInv, NEW h \in Handler, pc[h] \in Creating
  PROVE  /\ \A g \in Handler : g # h => pc[g] = "idle"
         /\ privDB = {} /\ accepted = {} /\ \A p \in Opener : token[p] = 0
         /\ h.route = "/open" /\ h.arg \in Opener
<1>1. h.route = "/open" /\ (pc[h] = "putKey" \/ authDB.token = 0) /\ ~Made
  BY DEF CredInv, PlaceAt, Authenticating, Creating, Made
<1>2. \E p \in Opener : h = Open(p)
  BY <1>1 DEF Handler, Open, Tracking, Balance, NewBlock, Sign
<1>3. ASSUME NEW g \in Handler, g # h PROVE pc[g] = "idle"
  <2>1. CASE g.route = "/open"
    <3>1. \E q \in Opener : g = Open(q)
      BY <2>1 DEF Handler, Open, Tracking, Balance, NewBlock, Sign
    <3> QED BY <1>2, <1>3, <3>1 DEF CredInv, OneOpen, Creating
  <2>2. CASE g.route # "/open"
    BY <1>1, <2>2 DEF WalletInv, Stores, CredInv, PlaceAt, Label, Authenticating, Creating, Refreshed
  <2> QED BY <2>1, <2>2
<1>4. privDB = {}
  <2>1. CASE pc[h] = "putKey"
    BY <2>1 DEF CredInv, PlaceAt
  <2>2. CASE authDB.token = 0
    <3>1. privDB \subseteq {0}
      BY <2>2 DEF CredInv, Creds
    <3>2. 0 \notin privDB
      BY DEF WalletInv, Stores, Draw
    <3> QED BY <3>1, <3>2
  <2> QED BY <1>1, <2>1, <2>2
<1> QED BY <1>1, <1>2, <1>3, <1>4 DEF CredInv, Creds, Open

\* A server that is installed has no credentials yet.
LEMMA OpenInitially == WalletInit => OpenInv
<1> SUFFICES ASSUME WalletInit PROVE OpenInv
  OBVIOUS
<1>1. WalletInv
  BY WalletInitially
<1>2. CredInv
  BY DEF WalletInit, CredInv, Creds, OneOpen, PlaceAt, Authenticating, Creating, Refreshed, Open,
     Handler
<1>3. Books /\ AcceptedIsSaved /\ SignedByOwner
  BY DEF WalletInit, Books, NoFrame, AcceptedIsSaved, SignedByOwner
<1> QED BY <1>1, <1>2, <1>3 DEF OpenInv

\* A handler moves, and no credential, key or list of keys changes.
LEMMA CredMove ==
  ASSUME WalletInv, CredInv, OneOpen', NEW h \in Handler, NEW l \in Label \ {"putKey"}, NEW f,
         Goto(h, l), frame' = [frame EXCEPT ![h] = f],
         UNCHANGED <<authDB, privDB, privs>>, PlaceAt(h, l, f),
         accepted' = accepted \/ Made,
         \A p \in Opener : token'[p] \in {0, token[p]} \/ (Made /\ token'[p] = authDB.token)
  PROVE  CredInv'
<1>1. /\ \A g \in Handler : g # h => pc'[g] = pc[g] /\ frame'[g] = frame[g]
      /\ pc'[h] = l /\ frame'[h] = f
  BY DEF Goto, WalletInv, Stores
<1>2. Made => Made'
  BY <1>1 DEF Made
<1>3. ASSUME NEW g, NEW m, NEW e, PlaceAt(g, m, e) PROVE PlaceAt(g, m, e)'
  BY <1>2, <1>3 DEF PlaceAt
<1>4. \A g \in Handler : PlaceAt(g, pc[g], frame[g])' 
  BY <1>1, <1>3 DEF CredInv
<1>5. Creds'
  BY <1>2 DEF CredInv, Creds
<1> QED BY <1>4, <1>5 DEF CredInv

\* Requests that end, whatever comes of them.
LEMMA CredEnds ==
  ASSUME WalletInv, CredInv, OneOpen', NEW h \in Handler,
         Saved(h) \/ Dies(h) \/ GiveKeys(h) \/ SignTxn(h) \/ SaveFails(h) \/ ReplyToken(h)
  PROVE  CredInv'
<1> USE DEF store, lists, told
<1>1. /\ Goto(h, "idle") /\ frame' = [frame EXCEPT ![h] = NoFrame]
      /\ "idle" \in Label \ {"putKey"} /\ UNCHANGED <<authDB, privDB, privs>>
  BY DEF Saved, Dies, GiveKeys, SignTxn, SaveFails, ReplyToken, Return, Label
<1>2. PlaceAt(h, "idle", NoFrame)
  BY DEF PlaceAt, Authenticating, Creating, Refreshed
<1>3. accepted' = accepted \/ Made
  BY DEF Saved, Dies, GiveKeys, SignTxn, SaveFails, ReplyToken, CredInv, PlaceAt, Refreshed
<1>4. ASSUME NEW p \in Opener
      PROVE  token'[p] \in {0, token[p]} \/ (Made /\ token'[p] = authDB.token)
  <2>1. CASE ReplyToken(h)
    <3>1. Made /\ frame[h].draw = authDB.token
      BY <2>1 DEF ReplyToken, CredInv, PlaceAt, Refreshed
    <3>2. token' = [token EXCEPT ![h.arg] = frame[h].draw]
      BY <2>1 DEF ReplyToken
    <3> QED BY <3>1, <3>2 DEF WalletInv, Stores
  <2>2. CASE ~ReplyToken(h)
    BY <2>2 DEF Saved, Dies, GiveKeys, SignTxn, SaveFails
  <2> QED BY <2>1, <2>2
<1> QED BY <1>1, <1>2, <1>3, <1>4, CredMove

\* Requests that arrive, and reads of the credentials: a wallet with a token
\* is opened, and one without is made.
LEMMA CredAsks ==
  ASSUME SamePassword, WalletInv, CredInv, OneOpen',
         \/ \E p \in Opener : PostOpen(p)
         \/ \E b \in Block : PostBlock(b)
         \/ \E h \in Handler : ReadSalt(h) \/ CheckPassword(h) \/ ReadToken(h) \/ Ask(h)
  PROVE  CredInv'
<1> USE DEF store, lists, told
<1>1. ASSUME NEW p \in Opener, PostOpen(p) PROVE CredInv'
  <2>1. Open(p) \in Handler /\ Open(p).route = "/open"
    BY DEF Handler, Open
  <2>2. /\ Goto(Open(p), "salt") /\ "salt" \in Label \ {"putKey"}
        /\ frame' = [frame EXCEPT ![Open(p)] = frame[Open(p)]]
        /\ UNCHANGED <<authDB, privDB, privs, accepted, token>>
    BY <1>1 DEF PostOpen, Label, WalletInv, Stores
  <2>3. PlaceAt(Open(p), "salt", frame[Open(p)])
    BY <2>1 DEF PlaceAt, Authenticating, Creating, Refreshed
  <2> HIDE DEF Open
  <2> QED BY <2>1, <2>2, <2>3, CredMove
<1>2. ASSUME NEW p \in Opener, TokenOK(p) PROVE Made
  BY <1>2 DEF TokenOK, CredInv, Creds
<1>3. ASSUME NEW h \in Handler, h.route # "/open", Made, NEW f PROVE PlaceAt(h, "privs", f)
  BY <1>3 DEF PlaceAt, Authenticating, Creating, Refreshed
<1>4. ASSUME NEW b \in Block, PostBlock(b) PROVE CredInv'
  <2> DEFINE h == NewBlock(b)
             f == [frame[h] EXCEPT !.todo = {b} \cup Txns[b]]
  <2>1. h \in Handler /\ h.route = "/new-block"
    BY DEF Handler, NewBlock
  <2>2. UNCHANGED <<authDB, privDB, privs, accepted, token>> /\ "privs" \in Label \ {"putKey"}
    BY <1>4 DEF PostBlock, Label
  <2>3. CASE TokenOK(Server)
    <3>1. Goto(h, "privs") /\ frame' = [frame EXCEPT ![h] = f]
      BY <1>4, <2>3 DEF PostBlock
    <3>2. PlaceAt(h, "privs", f)
      BY <1>2, <1>3, <2>1, <2>3, WalletAssumption
    <3> HIDE DEF h, f
    <3> QED BY <2>1, <2>2, <3>1, <3>2, CredMove
  <2>4. CASE ~TokenOK(Server)
    <3>1. UNCHANGED <<pc, frame>>
      BY <1>4, <2>4 DEF PostBlock
    <3> QED BY <2>2, <3>1 DEF CredInv, Creds, Made, PlaceAt
  <2> QED BY <2>3, <2>4
<1>5. ASSUME NEW h \in Handler, Ask(h) PROVE CredInv'
  <2>1. /\ Goto(h, "privs") /\ "privs" \in Label \ {"putKey"}
        /\ frame' = [frame EXCEPT ![h] = frame[h]]
        /\ UNCHANGED <<authDB, privDB, privs, accepted, token>>
    BY <1>5 DEF Ask, Label, WalletInv, Stores
  <2>2. h.route # "/open" /\ TokenOK(Caller(h)) /\ h.route \in {"/tracking", "/balance", "/sign"}
    BY <1>5 DEF Ask
  <2>3. Caller(h) \in Opener
    BY <2>2, WalletAssumption DEF Caller, Handler, Open, Tracking, Balance, NewBlock, Sign
  <2>4. PlaceAt(h, "privs", frame[h])
    BY <1>2, <1>3, <2>2, <2>3
  <2> QED BY <2>1, <2>4, CredMove
<1>6. ASSUME NEW h \in Handler, ReadSalt(h) \/ CheckPassword(h) \/ ReadToken(h) PROVE CredInv'
  <2>1. /\ pc[h] \in {"salt", "password", "token"} /\ h.route = "/open"
        /\ h.arg \in Opener /\ Password[h.arg] = Password[Server]
    <3>1. pc[h] \in {"salt", "password", "token"} /\ h.route = "/open"
      BY <1>6 DEF ReadSalt, CheckPassword, ReadToken, CredInv, PlaceAt, Authenticating
    <3>2. h.arg \in Opener
      BY <3>1 DEF Handler, Open, Tracking, Balance, NewBlock, Sign
    <3> QED BY <3>1, <3>2, WalletAssumption DEF SamePassword
  <2>2. UNCHANGED <<authDB, privDB, privs, accepted, token>>
    BY <1>6 DEF ReadSalt, CheckPassword, ReadToken
  <2>3. ASSUME NEW l \in {"create", "password", "token", "privs"}, NEW f,
               Goto(h, l), frame' = [frame EXCEPT ![h] = f],
               l = "create" => authDB.token = 0, l = "password" => f.draw = authDB.salt,
               l = "privs" => f.draw = authDB.token /\ authDB.token # 0
        PROVE  CredInv'
    <3>1. l = "privs" => Made
      <4>1. ASSUME NEW g \in Handler, pc[g] = "putKey" PROVE pc[h] = "idle" \/ pc[h] = "putKey"
        BY <4>1, Alone DEF Creating
      <4> QED BY <2>1, <2>3, <4>1 DEF Made
    <3>2. PlaceAt(h, l, f)
      BY <2>1, <2>3, <3>1 DEF PlaceAt, Authenticating, Creating, Refreshed
    <3>3. l \in Label \ {"putKey"}
      BY DEF Label
    <3> QED BY <2>2, <2>3, <3>2, <3>3, CredMove
  <2>4. frame[h] \in Frame /\ frame = [frame EXCEPT ![h] = frame[h]]
    BY DEF WalletInv, Stores
  <2>5. CASE ReadSalt(h)
    <3> DEFINE f == [frame[h] EXCEPT !.draw = authDB.salt]
    <3>1. f.draw = authDB.salt
      BY <2>4 DEF Frame
    <3>2. frame' = [frame EXCEPT ![h] = f]
      BY <2>5 DEF ReadSalt
    <3> HIDE DEF f
    <3>3. CASE authDB.salt = 0
      BY <2>3, <2>5, <3>1, <3>2, <3>3 DEF ReadSalt, CredInv, Creds
    <3>4. CASE authDB.salt # 0
      BY <2>3, <2>5, <3>1, <3>2, <3>4 DEF ReadSalt
    <3> QED BY <3>3, <3>4
  <2>6. CASE CheckPassword(h)
    <3>1. frame' = [frame EXCEPT ![h] = frame[h]] /\ frame[h].draw = authDB.salt
      BY <2>4, <2>6 DEF CheckPassword, CredInv, PlaceAt
    <3>2. CASE authDB.password = <<frame[h].draw, Password[h.arg]>>
      BY <2>3, <2>6, <3>1, <3>2 DEF CheckPassword
    <3>3. CASE authDB.password # <<frame[h].draw, Password[h.arg]>>
      <4>1. authDB.token = 0
        BY <2>1, <3>1, <3>3 DEF CredInv, Creds
      <4> QED BY <2>3, <2>6, <3>1, <3>3, <4>1 DEF CheckPassword
    <3> QED BY <3>2, <3>3
  <2>7. CASE ReadToken(h)
    <3> DEFINE f == [frame[h] EXCEPT !.draw = authDB.token]
    <3>1. f.draw = authDB.token
      BY <2>4 DEF Frame
    <3>2. frame' = [frame EXCEPT ![h] = f]
      BY <2>7 DEF ReadToken
    <3> HIDE DEF f
    <3>3. CASE authDB.token = 0
      BY <2>3, <2>7, <3>1, <3>2, <3>3 DEF ReadToken
    <3>4. CASE authDB.token # 0
      BY <2>3, <2>7, <3>1, <3>2, <3>4 DEF ReadToken
    <3> QED BY <3>3, <3>4
  <2> QED BY <1>6, <2>5, <2>6, <2>7
<1> QED BY <1>1, <1>4, <1>5, <1>6

\* Create finds the wallet without a token and leaves it with one, nobody
\* else being at work.
LEMMA CredWrites ==
  ASSUME SamePassword, WalletInv, CredInv, OneOpen', NEW h \in Handler,
         PutPassword(h) \/ PutSalt(h) \/ PutToken(h) \/ PutKey(h)
  PROVE  CredInv'
<1> USE DEF lists, told
<1>1. /\ pc[h] \in Creating /\ UNCHANGED <<privs, token, accepted>>
      /\ \E l \in {"putSalt", "putToken", "putKey", "privs"} : Goto(h, l)
  BY DEF PutPassword, PutSalt, PutToken, PutKey, Creating
<1>2. /\ \A g \in Handler : g # h => pc[g] = "idle" /\ pc'[g] = "idle"
      /\ privDB = {} /\ accepted' = {} /\ \A p \in Opener : token'[p] = 0
      /\ h.route = "/open" /\ Password[h.arg] = Password[Server]
  BY <1>1, Alone, WalletAssumption DEF Goto, WalletInv, Stores, SamePassword
<1>3. ASSUME NEW g \in Handler, g # h PROVE PlaceAt(g, pc[g], frame[g])'
  BY <1>2, <1>3 DEF PlaceAt, Authenticating, Creating, Refreshed
<1>4. ASSUME PlaceAt(h, pc[h], frame[h])', privDB' \subseteq {authDB'.token},
             authDB'.token # 0 =>
               authDB'.salt # 0 /\ authDB'.password = <<authDB'.salt, Password[Server]>>
      PROVE  CredInv'
  BY <1>2, <1>3, <1>4 DEF CredInv, Creds
<1>5. /\ frame[h] \in Frame /\ pc[h] \in Label /\ PlaceAt(h, pc[h], frame[h])
      /\ authDB = [password |-> authDB.password, salt |-> authDB.salt, token |-> authDB.token]
      /\ (pc[h] \in {"putSalt", "putToken", "putKey"} => frame[h].draw # 0)
      /\ frame \in [Handler -> Frame] /\ pc \in [Handler -> Label]
  <2>1. Locals(h)
    BY DEF WalletInv
  <2> QED BY <2>1 DEF WalletInv, Stores, CredInv, Locals
<1>6. CASE PutPassword(h)
  <2>1. /\ pc'[h] = "putSalt" /\ frame'[h].draw = drawn + 1 /\ authDB.token = 0
        /\ authDB'.password = <<drawn + 1, Password[Server]>> /\ authDB'.token = authDB.token
    BY <1>2, <1>5, <1>6 DEF PutPassword, Goto, Frame, PlaceAt, Creating
  <2>2. PlaceAt(h, pc[h], frame[h])' /\ privDB' = {}
    BY <1>2, <1>6, <2>1 DEF PutPassword, PlaceAt, Authenticating, Creating, Refreshed
  <2> QED BY <1>4, <2>1, <2>2
<1>7. CASE PutSalt(h)
  <2>1. /\ pc'[h] = "putToken" /\ frame'[h] = frame[h] /\ authDB.token = 0
        /\ authDB.password = <<frame[h].draw, Password[Server]>>
        /\ authDB'.password = authDB.password /\ authDB'.token = authDB.token
        /\ authDB'.salt = frame[h].draw
    BY <1>5, <1>7 DEF PutSalt, Goto, PlaceAt, Creating
  <2>2. PlaceAt(h, pc[h], frame[h])' /\ privDB' = {}
    BY <1>2, <1>7, <2>1 DEF PutSalt, PlaceAt, Authenticating, Creating, Refreshed
  <2> QED BY <1>4, <2>1, <2>2
<1>8. CASE PutToken(h)
  <2>1. /\ pc'[h] = "putKey" /\ frame'[h] = frame[h] /\ frame[h].draw # 0
        /\ authDB.password = <<frame[h].draw, Password[Server]>> /\ authDB.salt = frame[h].draw
        /\ authDB'.password = authDB.password /\ authDB'.salt = authDB.salt
        /\ authDB'.token = frame[h].draw
    BY <1>5, <1>8 DEF PutToken, Goto, PlaceAt, Creating
  <2>2. PlaceAt(h, pc[h], frame[h])' /\ privDB' = {}
    BY <1>2, <1>8, <2>1 DEF PutToken, PlaceAt, Authenticating, Creating, Refreshed
  <2> QED BY <1>4, <2>1, <2>2
<1>9. CASE PutKey(h)
  <2>1. /\ pc'[h] = "privs" /\ frame'[h] = frame[h] /\ authDB' = authDB
        /\ authDB.token = frame[h].draw /\ authDB.token # 0 /\ privDB' = {frame[h].draw}
    BY <1>2, <1>5, <1>9 DEF PutKey, Goto, PlaceAt, Creating
  <2>2. Made'
    BY <1>2, <2>1 DEF Made
  <2>3. PlaceAt(h, pc[h], frame[h])'
    BY <1>2, <2>1, <2>2 DEF PlaceAt, Authenticating, Creating, Refreshed
  <2> QED BY <1>4, <2>1, <2>3 DEF CredInv, Creds
<1> QED BY <1>6, <1>7, <1>8, <1>9

\* Refresh leaves the list of keys as it is stored, whoever assigns it.
LEMMA CredLists ==
  ASSUME WalletInv, CredInv, OneOpen', NEW g \in Handler, NEW h \in Handler,
         SetPrivs(g, h) \/ SetOutputs(g, h)
  PROVE  CredInv'
<1> USE DEF store, told
<1>1. /\ UNCHANGED <<authDB, privDB, token, accepted>>
      /\ \A k \in Handler : pc'[k] = pc[k] \/ pc'[k] \in Refreshed \cup {"idle"}
  BY DEF SetPrivs, SetOutputs, AfterRefresh, Refreshed
<1>2. Made => Made'
  BY <1>1 DEF Made, Refreshed
<1>3. CASE SetPrivs(g, h)
  <2>1. privs' = privDB
    <3>1. frame[g].keys = privDB /\ frame[h].keys = privDB
      BY <1>3 DEF SetPrivs, CredInv, PlaceAt
    <3>2. Mix(privDB, privDB) = {privDB}
      BY MixSame DEF CredInv, Creds
    <3> QED BY <1>3, <3>1, <3>2 DEF SetPrivs
  <2>2. ASSUME NEW k \in Handler PROVE PlaceAt(k, pc[k], frame[k])'
    <3>1. PlaceAt(k, pc[k], frame[k]) /\ frame[k] \in Frame
      BY DEF CredInv, WalletInv, Stores
    <3>2. CASE k \in {g, h}
      <4>1. pc[k] = "setPrivs" /\ pc'[k] = "txns" /\ frame'[k].draw = frame[k].draw
        BY <1>3, <3>1, <3>2 DEF SetPrivs, Frame
      <4> QED BY <1>1, <1>2, <2>1, <3>1, <4>1 DEF PlaceAt, Authenticating, Creating, Refreshed
    <3>3. CASE k \notin {g, h}
      BY <1>1, <1>2, <1>3, <2>1, <3>1, <3>3 DEF SetPrivs, PlaceAt
    <3> QED BY <3>2, <3>3
  <2> QED BY <1>1, <1>2, <2>2 DEF CredInv, Creds
<1>4. CASE SetOutputs(g, h)
  <2>1. ASSUME NEW k \in Handler PROVE PlaceAt(k, pc[k], frame[k])'
    <3>1. PlaceAt(k, pc[k], frame[k]) /\ frame[k] \in Frame /\ privs' = privs
      BY <1>4 DEF CredInv, WalletInv, Stores, SetOutputs
    <3>2. CASE k \in {g, h} /\ AfterRefresh(k) = "idle"
      <4>1. pc'[k] = "idle"
        BY <1>4, <3>2 DEF SetOutputs
      <4> QED BY <4>1 DEF PlaceAt, Authenticating, Creating, Refreshed
    <3>3. CASE k \in {g, h} /\ AfterRefresh(k) # "idle"
      <4>1. /\ pc[k] = "setOutputs" /\ pc'[k] = AfterRefresh(k) /\ frame'[k].draw = frame[k].draw
        BY <1>4, <3>1, <3>3 DEF SetOutputs, Frame
      <4>2. /\ AfterRefresh(k) \in {"reply", "keys", "save", "sign"}
            /\ AfterRefresh(k) = "reply" => k.route = "/open"
            /\ AfterRefresh(k) = "save" => k.route = "/new-block"
        BY <3>3 DEF AfterRefresh
      <4> QED BY <1>1, <1>2, <3>1, <4>1, <4>2 DEF PlaceAt, Authenticating, Creating, Refreshed
    <3>4. CASE k \notin {g, h}
      BY <1>1, <1>2, <1>4, <3>1, <3>4 DEF SetOutputs, PlaceAt
    <3> QED BY <3>2, <3>3, <3>4
  <2> QED BY <1>1, <1>2, <2>1 DEF CredInv, Creds
<1> QED BY <1>3, <1>4

\* Refresh reads, and saveMyTxns writes, what others do not change.
LEMMA CredReads ==
  ASSUME WalletInv, CredInv, OneOpen', NEW h \in Handler,
         ReadPrivs(h) \/ ReadTxns(h) \/ SaveTxn(h)
  PROVE  CredInv'
<1> USE DEF store, lists, told
<1>1. /\ UNCHANGED <<authDB, privDB, privs, token, accepted>>
      /\ frame[h] \in Frame /\ pc = [pc EXCEPT ![h] = pc[h]] /\ PlaceAt(h, pc[h], frame[h])
  BY DEF ReadPrivs, ReadTxns, SaveTxn, WalletInv, Stores, CredInv
<1>2. ASSUME NEW l \in {"setPrivs", "setOutputs", "save"}, NEW f,
             Goto(h, l), frame' = [frame EXCEPT ![h] = f], PlaceAt(h, l, f)
      PROVE  CredInv'
  <2>1. l \in Label \ {"putKey"}
    BY DEF Label
  <2> QED BY <1>1, <1>2, <2>1, CredMove
<1>3. CASE ReadPrivs(h)
  <2> DEFINE f == [frame[h] EXCEPT !.keys = privDB]
  <2>1. f.keys = privDB /\ f.draw = frame[h].draw
    BY <1>1 DEF Frame
  <2>2. Goto(h, "setPrivs") /\ frame' = [frame EXCEPT ![h] = f] /\ pc[h] = "privs"
    BY <1>3 DEF ReadPrivs
  <2> HIDE DEF f
  <2>3. PlaceAt(h, "setPrivs", f)
    BY <1>1, <2>1, <2>2 DEF PlaceAt, Authenticating, Creating, Refreshed
  <2> QED BY <1>2, <2>2, <2>3
<1>4. CASE ReadTxns(h)
  <2> DEFINE f == [frame[h] EXCEPT !.outs = txnDB]
  <2>1. f.draw = frame[h].draw
    BY <1>1 DEF Frame
  <2>2. Goto(h, "setOutputs") /\ frame' = [frame EXCEPT ![h] = f] /\ pc[h] = "txns"
    BY <1>4 DEF ReadTxns
  <2> HIDE DEF f
  <2>3. PlaceAt(h, "setOutputs", f)
    BY <1>1, <2>1, <2>2 DEF PlaceAt, Authenticating, Creating, Refreshed
  <2> QED BY <1>2, <2>2, <2>3
<1>5. CASE SaveTxn(h)
  <2>0. PICK x \in frame[h].todo : frame' = [frame EXCEPT ![h].todo = @ \ {x}]
    BY <1>5 DEF SaveTxn
  <2> DEFINE f == [frame[h] EXCEPT !.todo = @ \ {x}]
  <2>1. f.draw = frame[h].draw
    BY <1>1 DEF Frame
  <2>2. pc' = pc /\ frame' = [frame EXCEPT ![h] = f] /\ pc[h] = "save"
    BY <1>5, <2>0 DEF SaveTxn
  <2>3. Goto(h, "save")
    BY <1>1, <2>2 DEF Goto
  <2> HIDE DEF f
  <2>4. PlaceAt(h, "save", f)
    BY <1>1, <2>1, <2>2 DEF PlaceAt, Authenticating, Creating, Refreshed
  <2> QED BY <1>2, <2>2, <2>3, <2>4
<1> QED BY <1>3, <1>4, <1>5

\* Nothing runs after a restart; a Create that is cut short leaves no token, or
\* a token without a key.
LEMMA CredRestart ==
  ASSUME WalletInv, CredInv, OneOpen', Restart \/ \E h \in Handler : CreateFails(h)
  PROVE  CredInv'
<1> USE DEF store, lists, told
<1>1. ASSUME RestartEffects, UNCHANGED store PROVE CredInv'
  <2>1. /\ pc' = [h \in Handler |-> "idle"] /\ token' = [token EXCEPT ![Server] = 0]
        /\ UNCHANGED <<authDB, privDB, accepted>>
    BY <1>1 DEF RestartEffects
  <2>2. Made => Made'
    BY <2>1 DEF Made
  <2>3. Creds'
    BY <2>1, <2>2 DEF CredInv, Creds, WalletInv, Stores
  <2>4. \A h \in Handler : PlaceAt(h, pc[h], frame[h])'
    BY <2>1 DEF PlaceAt, Authenticating, Creating, Refreshed
  <2> QED BY <2>3, <2>4 DEF CredInv
<1>2. ASSUME NEW h \in Handler, CreateFails(h), h # Open(Server) PROVE CredInv'
  <2>1. /\ Goto(h, "idle") /\ frame' = [frame EXCEPT ![h] = NoFrame]
        /\ "idle" \in Label \ {"putKey"} /\ UNCHANGED <<authDB, privDB, privs, token, accepted>>
    BY <1>2 DEF CreateFails, Return, Label
  <2>2. PlaceAt(h, "idle", NoFrame)
    BY DEF PlaceAt, Authenticating, Creating, Refreshed
  <2> QED BY <2>1, <2>2, CredMove
<1> QED BY <1>1, <1>2 DEF Restart, CreateFails

\* Every step keeps the credentials in order.
LEMMA CredStep ==
  ASSUME SamePassword, WalletInv, CredInv, OneOpen', [WalletNext]_walletVars
  PROVE  CredInv'
<1>1. CASE UNCHANGED walletVars
  BY <1>1 DEF walletVars, store, lists, told, CredInv, Creds, Made, PlaceAt
<1>2. ASSUME NEW b \in Block, Adopt(b) PROVE CredInv'
  BY <1>2 DEF Adopt, store, lists, told, CredInv, Creds, Made, PlaceAt
<1>3. ASSUME NEW h \in Handler, Opening(h) \/ Step(h) PROVE CredInv'
  BY <1>3, CredAsks, CredWrites, CredEnds, CredReads, CredLists DEF Opening, Step
<1>4. CASE SteadyNext
  BY <1>2, <1>3, <1>4, CredAsks, CredEnds, CredLists DEF SteadyNext
<1>5. CASE WalletNext
  BY <1>4, <1>5, CredRestart, CredEnds DEF WalletNext
<1> QED BY <1>1, <1>5

-------------------------------------------------------------------------------

\* The outputs of a block are those of its coinbase and of its transactions.
LEMMA OutputsAre ==
  ASSUME NEW b \in Block
  PROVE  /\ \A x \in {b} \cup Txns[b] : OutputsIn(x) \subseteq OutputsOf(b)
         /\ \A o \in OutputsOf(b) : \E x \in {b} \cup Txns[b] : o \in OutputsIn(x)
<1>1. Txns[b] \subseteq Txn /\ Block \cap Txn = {}
  BY BlocksAssumption, HashAssumption
<1>2. OutputsIn(b) = {CoinbaseOut[b]} /\ \A t \in Txns[b] : OutputsIn(t) = Outputs[t]
  BY <1>1 DEF OutputsIn
<1> QED BY <1>2 DEF OutputsOf

\* What is kept stays kept.
LEMMA KeptStays ==
  ASSUME WalletInv, NEW b \in recorded, NEW x \in {b} \cup Txns[b], Kept(x),
         privDB' = privDB, txnDB \subseteq txnDB',
         \A t \in Txn : signed[t] # NotSigned => signed'[t] = signed[t]
  PROVE  Kept(x)'
<1> SUFFICES ASSUME NEW o \in OutputsIn(x), OwnerOf(o)' \in privDB' PROVE o \in txnDB'
  BY DEF Kept, OutputsIn
<1>1. o \in OutputsOf(b)
  BY OutputsAre DEF WalletInv, Stores
<1>2. OwnerOf(o)' = OwnerOf(o)
  BY <1>1, OwnerStays
<1> QED BY <1>2 DEF Kept

\* A step that loses nothing: what is new to the lists is stored, what is new
\* among the accepted is kept, what leaves the blocks being saved is kept, and
\* what is newly signed is signed by the owner of a stored output.
LEMMA DataStays ==
  ASSUME OpenInv, privDB' = privDB, txnDB \subseteq txnDB', recorded \subseteq recorded',
         outputs' \subseteq txnDB', \A h \in Handler : frame'[h].outs \subseteq txnDB',
         \A b \in accepted' \ accepted : b \in recorded /\ \A x \in {b} \cup Txns[b] : Kept(x),
         \A h \in Handler : h.route = "/new-block" /\ pc'[h] # "idle" =>
           /\ h.arg \in recorded
           /\ \A x \in ({h.arg} \cup Txns[h.arg]) \ frame'[h].todo : Kept(x) \/ Kept(x)',
         \A t \in Txn : signed[t] # NotSigned => signed'[t] = signed[t],
         \A t \in Txn : signed'[t] # signed[t] =>
           signed'[t].fund \in txnDB /\ signed'[t].key = OwnerOf(signed'[t].fund)
  PROVE  Books' /\ AcceptedIsSaved' /\ SignedByOwner'
<1>1. WalletInv /\ Books /\ AcceptedIsSaved /\ SignedByOwner /\ recorded \subseteq Block
  BY DEF OpenInv, WalletInv, Stores
<1>2. ASSUME NEW o \in txnDB PROVE OwnerOf(o)' = OwnerOf(o)
  <2>1. PICK b \in recorded : o \in OutputsOf(b)
    BY <1>1 DEF WalletInv, SavedIsMine
  <2> QED BY <1>1, <2>1, OwnerStays
<1>3. ASSUME NEW t \in Txn, signed'[t] # NotSigned
      PROVE  signed'[t].fund \in txnDB' /\ signed'[t].key = OwnerOf(signed[t].fund)'
  <2>1. signed'[t].fund \in txnDB /\ signed'[t].key = OwnerOf(signed'[t].fund)
    BY <1>1, <1>3 DEF Books, SignedByOwner
  <2> QED BY <1>2, <2>1
<1>4. Books'
  <2>1. accepted' \subseteq recorded'
    BY <1>1 DEF Books
  <2>2. ASSUME NEW h \in Handler, h.route = "/new-block", pc'[h] # "idle",
               NEW x \in ({h.arg} \cup Txns[h.arg]) \ frame'[h].todo
        PROVE  Kept(x)'
    BY <1>1, <2>2, KeptStays
  <2> QED BY <1>3, <2>1, <2>2 DEF Books
<1>5. ASSUME NEW b \in accepted', NEW o \in OutputsOf(b), OwnerOf(o)' \in privDB' PROVE o \in txnDB'
  <2>1. b \in recorded
    BY <1>1 DEF Books
  <2>2. OwnerOf(o)' = OwnerOf(o)
    BY <1>1, <2>1, OwnerStays
  <2>3. CASE b \in accepted
    BY <1>1, <1>5, <2>2, <2>3 DEF AcceptedIsSaved
  <2>4. CASE b \notin accepted
    <3>1. PICK x \in {b} \cup Txns[b] : o \in OutputsIn(x)
      BY <1>1, <2>1, OutputsAre
    <3>2. Kept(x)
      BY <2>4
    <3> QED BY <1>5, <2>2, <3>1, <3>2 DEF Kept
  <2> QED BY <2>3, <2>4
<1>6. AcceptedIsSaved'
  BY <1>5 DEF AcceptedIsSaved
<1> QED BY <1>3, <1>4, <1>6 DEF SignedByOwner

\* A step that stores and signs nothing.
LEMMA DataQuiet ==
  ASSUME OpenInv, UNCHANGED <<privDB, txnDB, recorded, accepted, signed>>,
         outputs' \subseteq txnDB,
         \A h \in Handler :
           /\ frame'[h].outs \subseteq txnDB
           /\ h.route = "/new-block" /\ pc'[h] # "idle" =>
                \/ pc[h] # "idle" /\ frame'[h].todo = frame[h].todo
                \/ h.arg \in recorded /\ frame'[h].todo = {h.arg} \cup Txns[h.arg]
  PROVE  Books' /\ AcceptedIsSaved' /\ SignedByOwner'
<1>1. ASSUME NEW h \in Handler, h.route = "/new-block", pc'[h] # "idle"
      PROVE  /\ h.arg \in recorded
             /\ \A x \in ({h.arg} \cup Txns[h.arg]) \ frame'[h].todo : Kept(x)
  BY <1>1 DEF OpenInv, Books
<1> QED BY <1>1, DataStays

\* A handler moves, and takes at most the stored outputs with it.
LEMMA DataMove ==
  ASSUME OpenInv, NEW h \in Handler, NEW l, NEW f, Goto(h, l), frame' = [frame EXCEPT ![h] = f],
         UNCHANGED <<privDB, txnDB, recorded, accepted, signed, outputs>>,
         f.outs \subseteq txnDB,
         h.route = "/new-block" /\ l # "idle" =>
           \/ pc[h] # "idle" /\ f.todo = frame[h].todo
           \/ h.arg \in recorded /\ f.todo = {h.arg} \cup Txns[h.arg]
  PROVE  Books' /\ AcceptedIsSaved' /\ SignedByOwner'
<1>1. /\ \A g \in Handler : g # h => pc'[g] = pc[g] /\ frame'[g] = frame[g]
      /\ pc'[h] = l /\ frame'[h] = f
  BY DEF Goto, OpenInv, WalletInv, Stores
<1>2. outputs \subseteq txnDB /\ \A g \in Handler : frame[g].outs \subseteq txnDB
  BY DEF OpenInv, Books
<1> QED BY <1>1, <1>2, DataQuiet

\* Asking, opening and reading.
LEMMA DataReads ==
  ASSUME OpenInv,
         \/ \E p \in Opener : PostOpen(p)
         \/ \E b \in Block : PostBlock(b)
         \/ \E h \in Handler : \/ ReadSalt(h) \/ CheckPassword(h) \/ ReadToken(h) \/ PutPassword(h)
                              \/ PutSalt(h) \/ PutToken(h) \/ ReplyToken(h) \/ Ask(h)
                              \/ ReadPrivs(h) \/ ReadTxns(h) \/ GiveKeys(h) \/ Dies(h)
  PROVE  Books' /\ AcceptedIsSaved' /\ SignedByOwner'
<1> USE DEF store, lists, told, chain
<1>0. /\ frame \in [Handler -> Frame] /\ WalletInv /\ CredInv
      /\ \A h \in Handler : frame = [frame EXCEPT ![h] = frame[h]] /\ frame[h].outs \subseteq txnDB
  BY DEF OpenInv, WalletInv, Stores, Books
<1>1. ASSUME NEW p \in Opener, PostOpen(p) PROVE Books' /\ AcceptedIsSaved' /\ SignedByOwner'
  <2>1. Open(p) \in Handler /\ Open(p).route = "/open"
    BY DEF Handler, Open
  <2>2. /\ Goto(Open(p), "salt") /\ frame' = [frame EXCEPT ![Open(p)] = frame[Open(p)]]
        /\ UNCHANGED <<privDB, txnDB, recorded, accepted, signed, outputs>>
    BY <1>0, <1>1, <2>1 DEF PostOpen
  <2> HIDE DEF Open
  <2> QED BY <1>0, <2>1, <2>2, DataMove
<1>2. ASSUME NEW b \in Block, PostBlock(b) PROVE Books' /\ AcceptedIsSaved' /\ SignedByOwner'
  <2> DEFINE h == NewBlock(b)
             f == [frame[h] EXCEPT !.todo = {b} \cup Txns[b]]
  <2>1. h \in Handler /\ h.route = "/new-block" /\ h.arg = b
    BY DEF Handler, NewBlock
  <2>2. /\ b \in recorded /\ UNCHANGED <<privDB, txnDB, recorded, accepted, signed, outputs>>
        /\ UNCHANGED <<pc, frame>> \/ (Goto(h, "privs") /\ frame' = [frame EXCEPT ![h] = f])
    BY <1>0, <1>2 DEF PostBlock, WalletInv, Stores
  <2>3. CASE UNCHANGED <<pc, frame>>
    BY <1>0, <2>2, <2>3, DataQuiet DEF OpenInv, Books
  <2>4. CASE Goto(h, "privs") /\ frame' = [frame EXCEPT ![h] = f]
    <3>1. f.todo = {b} \cup Txns[b] /\ f.outs \subseteq txnDB
      BY <1>0, <2>1 DEF Frame
    <3> HIDE DEF h, f
    <3> QED BY <2>1, <2>2, <2>4, <3>1, DataMove
  <2> QED BY <2>2, <2>3, <2>4
<1>3. ASSUME NEW h \in Handler, NEW l, Goto(h, l), pc[h] # "idle" \/ h.route # "/new-block",
             NEW f, frame' = [frame EXCEPT ![h] = f], f.todo = frame[h].todo, f.outs \subseteq txnDB,
             UNCHANGED <<privDB, txnDB, recorded, accepted, signed, outputs>>
      PROVE  Books' /\ AcceptedIsSaved' /\ SignedByOwner'
  BY <1>3, DataMove
<1>4. ASSUME NEW h \in Handler,
             CheckPassword(h) \/ PutSalt(h) \/ PutToken(h) \/ Ask(h)
      PROVE  Books' /\ AcceptedIsSaved' /\ SignedByOwner'
  <2>1. /\ \E l : Goto(h, l)
        /\ pc[h] # "idle" \/ h.route # "/new-block"
        /\ frame' = [frame EXCEPT ![h] = frame[h]]
        /\ UNCHANGED <<privDB, txnDB, recorded, accepted, signed, outputs>>
    BY <1>0, <1>4 DEF CheckPassword, PutSalt, PutToken, Ask
  <2> QED BY <1>0, <1>3, <2>1
<1>5. ASSUME NEW h \in Handler, ReadSalt(h) \/ ReadToken(h) \/ PutPassword(h) \/ ReadPrivs(h)
      PROVE  Books' /\ AcceptedIsSaved' /\ SignedByOwner'
  <2>1. PICK f : /\ frame' = [frame EXCEPT ![h] = f] /\ f.todo = frame[h].todo /\ f.outs = frame[h].outs
    <3>1. \/ frame' = [frame EXCEPT ![h] = [frame[h] EXCEPT !.draw = authDB.salt]]
          \/ frame' = [frame EXCEPT ![h] = [frame[h] EXCEPT !.draw = authDB.token]]
          \/ frame' = [frame EXCEPT ![h] = [frame[h] EXCEPT !.draw = drawn + 1]]
          \/ frame' = [frame EXCEPT ![h] = [frame[h] EXCEPT !.keys = privDB]]
      BY <1>5 DEF ReadSalt, ReadToken, PutPassword, ReadPrivs
    <3>2. frame[h] \in Frame
      BY <1>0
    <3>3. ASSUME NEW d PROVE /\ [frame[h] EXCEPT !.draw = d].todo = frame[h].todo
                             /\ [frame[h] EXCEPT !.draw = d].outs = frame[h].outs
                             /\ [frame[h] EXCEPT !.keys = d].todo = frame[h].todo
                             /\ [frame[h] EXCEPT !.keys = d].outs = frame[h].outs
      BY <3>2 DEF Frame
    <3> QED BY <3>1, <3>3
  <2>2. /\ pc[h] # "idle" /\ \E l : Goto(h, l)
        /\ UNCHANGED <<privDB, txnDB, recorded, accepted, signed, outputs>>
    BY <1>5 DEF ReadSalt, ReadToken, PutPassword, ReadPrivs
  <2> QED BY <1>0, <1>3, <2>1, <2>2
<1>6. ASSUME NEW h \in Handler, ReadTxns(h) PROVE Books' /\ AcceptedIsSaved' /\ SignedByOwner'
  <2> DEFINE f == [frame[h] EXCEPT !.outs = txnDB]
  <2>1. f.todo = frame[h].todo /\ f.outs = txnDB
    BY <1>0 DEF Frame
  <2>2. /\ pc[h] # "idle" /\ Goto(h, "setOutputs") /\ frame' = [frame EXCEPT ![h] = f]
        /\ UNCHANGED <<privDB, txnDB, recorded, accepted, signed, outputs>>
    BY <1>6 DEF ReadTxns
  <2> HIDE DEF f
  <2> QED BY <1>3, <2>1, <2>2
<1>7. ASSUME NEW h \in Handler, ReplyToken(h) \/ GiveKeys(h) \/ Dies(h)
      PROVE  Books' /\ AcceptedIsSaved' /\ SignedByOwner'
  <2>1. /\ Goto(h, "idle") /\ frame' = [frame EXCEPT ![h] = NoFrame]
        /\ UNCHANGED <<privDB, txnDB, recorded, accepted, signed, outputs>>
    BY <1>7 DEF ReplyToken, GiveKeys, Dies, Return
  <2> QED BY <2>1, EmptyFrame, DataMove
<1> QED BY <1>1, <1>2, <1>4, <1>5, <1>6, <1>7

\* Refresh assigns what was read from the stores.
LEMMA DataLists ==
  ASSUME OpenInv, NEW g \in Handler, NEW h \in Handler, SetPrivs(g, h) \/ SetOutputs(g, h)
  PROVE  Books' /\ AcceptedIsSaved' /\ SignedByOwner'
<1> USE DEF store, told, chain
<1>1. UNCHANGED <<privDB, txnDB, recorded, accepted, signed>> /\ Books
  BY DEF SetPrivs, SetOutputs, OpenInv
<1>2. outputs' \subseteq txnDB
  <2>1. CASE SetPrivs(g, h)
    BY <1>1, <2>1 DEF SetPrivs, Books
  <2>2. CASE SetOutputs(g, h)
    <3>1. frame[g].outs \subseteq txnDB /\ frame[h].outs \subseteq txnDB
      BY <1>1 DEF Books
    <3>2. outputs' \in Mix(frame[g].outs, frame[h].outs)
      BY <2>2 DEF SetOutputs
    <3> QED BY <3>1, <3>2, MixInside
  <2> QED BY <2>1, <2>2
<1>3. ASSUME NEW k \in Handler
      PROVE  /\ frame'[k].outs \subseteq txnDB
             /\ pc'[k] # "idle" => pc[k] # "idle" /\ frame'[k].todo = frame[k].todo
  <2>1. frame[k] \in Frame /\ frame[k].outs \subseteq txnDB
    BY <1>1 DEF OpenInv, WalletInv, Stores, Books
  <2>2. CASE SetPrivs(g, h)
    <3>1. frame'[k] = [frame[k] EXCEPT !.keys = {}] \/ frame'[k] = frame[k]
      BY <2>2 DEF SetPrivs
    <3>2. pc'[k] # "idle" => pc[k] # "idle"
      BY <2>2 DEF SetPrivs
    <3> QED BY <2>1, <3>1, <3>2 DEF Frame
  <2>3. CASE SetOutputs(g, h)
    <3>1. CASE k \notin {g, h}
      BY <2>1, <2>3, <3>1 DEF SetOutputs
    <3>2. CASE k \in {g, h} /\ AfterRefresh(k) = "idle"
      BY <2>3, <3>2, EmptyFrame DEF SetOutputs
    <3>3. CASE k \in {g, h} /\ AfterRefresh(k) # "idle"
      <4>1. frame'[k] = [frame[k] EXCEPT !.outs = {}] /\ pc[k] = "setOutputs"
        BY <2>3, <3>3 DEF SetOutputs
      <4> QED BY <2>1, <4>1 DEF Frame
    <3> QED BY <3>1, <3>2, <3>3
  <2> QED BY <2>2, <2>3 DEF SetPrivs, SetOutputs
<1> QED BY <1>1, <1>2, <1>3, DataQuiet

\* What is taken off a block being saved is kept: saveMyTxns sees the list of
\* keys as it is stored; and when nothing is left, the whole block is kept.
LEMMA DataSaves ==
  ASSUME OpenInv, NEW h \in Handler, SaveTxn(h) \/ Saved(h) \/ SaveFails(h)
  PROVE  Books' /\ AcceptedIsSaved' /\ SignedByOwner'
<1> USE DEF lists, told, chain
<1>1. /\ UNCHANGED <<privDB, recorded, signed, outputs>> /\ txnDB \subseteq txnDB'
      /\ pc[h] = "save"
  BY DEF SaveTxn, Saved, SaveFails, store
<1>2. /\ frame \in [Handler -> Frame] /\ pc \in [Handler -> Label] /\ Books /\ WalletInv /\ CredInv
      /\ h.route = "/new-block" /\ h.arg \in recorded
      /\ \A x \in ({h.arg} \cup Txns[h.arg]) \ frame[h].todo : Kept(x)
  <2>1. Books /\ CredInv /\ WalletInv /\ frame \in [Handler -> Frame] /\ pc \in [Handler -> Label]
    BY DEF OpenInv, WalletInv, Stores
  <2>2. h.route = "/new-block"
    BY <1>1, <2>1 DEF CredInv, PlaceAt
  <2> QED BY <1>1, <2>1, <2>2 DEF Books
<1>3. ASSUME NEW g \in Handler, g # h PROVE pc'[g] = pc[g] /\ frame'[g] = frame[g]
  BY <1>2, <1>3 DEF SaveTxn, Saved, SaveFails, Return, Goto
<1>4. ASSUME frame'[h].outs \subseteq txnDB,
             \A b \in accepted' \ accepted : b = h.arg /\ frame[h].todo = {},
             pc'[h] # "idle" =>
               \A x \in ({h.arg} \cup Txns[h.arg]) \ frame'[h].todo : Kept(x) \/ Kept(x)'
      PROVE  Books' /\ AcceptedIsSaved' /\ SignedByOwner'
  <2>1. \A g \in Handler : frame'[g].outs \subseteq txnDB'
    BY <1>1, <1>2, <1>3, <1>4 DEF Books
  <2>2. outputs' \subseteq txnDB'
    BY <1>1, <1>2 DEF Books
  <2>3. ASSUME NEW g \in Handler, g.route = "/new-block", pc'[g] # "idle"
        PROVE  /\ g.arg \in recorded
               /\ \A x \in ({g.arg} \cup Txns[g.arg]) \ frame'[g].todo : Kept(x) \/ Kept(x)'
    BY <1>2, <1>3, <1>4, <2>3 DEF Books
  <2>4. \A b \in accepted' \ accepted : b \in recorded /\ \A x \in {b} \cup Txns[b] : Kept(x)
    BY <1>2, <1>4
  <2> QED BY <1>1, <2>1, <2>2, <2>3, <2>4, DataStays
<1>5. CASE SaveTxn(h)
  <2>1. PICK x \in frame[h].todo, ks \in SeenPrivs(h) :
          /\ txnDB' = txnDB \cup Mine(x, ks) /\ frame' = [frame EXCEPT ![h].todo = @ \ {x}]
    BY <1>5 DEF SaveTxn
  <2>2. ks = privDB
    BY <1>1, <1>2, SeenIsKeys DEF Refreshed
  <2>3. Kept(x)'
    BY <1>1, <2>1, <2>2 DEF Kept, Mine, OwnerOf, OutputsIn
  <2>4. frame'[h].todo = frame[h].todo \ {x} /\ frame'[h].outs = frame[h].outs
    BY <1>2, <2>1 DEF Frame
  <2>5. accepted' = accepted
    BY <1>5 DEF SaveTxn
  <2> QED BY <1>2, <1>4, <2>3, <2>4, <2>5 DEF Books
<1>6. CASE Saved(h)
  <2>1. /\ frame[h].todo = {} /\ accepted' = accepted \cup {h.arg}
        /\ pc'[h] = "idle" /\ frame'[h] = NoFrame
    BY <1>2, <1>6 DEF Saved, Return, Goto
  <2> QED BY <1>4, <2>1, EmptyFrame
<1>7. CASE SaveFails(h)
  <2>1. accepted' = accepted /\ pc'[h] = "idle" /\ frame'[h] = NoFrame
    BY <1>2, <1>7 DEF SaveFails, Return, Goto
  <2> QED BY <1>4, <2>1, EmptyFrame
<1> QED BY <1>5, <1>6, <1>7

\* There is only one key to sign with, that of the output that is spent.
LEMMA DataSigns ==
  ASSUME OpenInv, NEW h \in Handler, SignTxn(h)
  PROVE  Books' /\ AcceptedIsSaved' /\ SignedByOwner'
<1> USE DEF lists, told, chain, store
<1>1. /\ pc[h] = "sign" /\ Goto(h, "idle") /\ frame' = [frame EXCEPT ![h] = NoFrame]
      /\ UNCHANGED <<privDB, txnDB, recorded, outputs, accepted>>
  BY DEF SignTxn, Return
<1>2. /\ WalletInv /\ CredInv /\ Books /\ SignedOnce /\ Locals(h) /\ SavedIsMine /\ Stores
  BY DEF OpenInv, WalletInv
<1>0. PICK ks \in SeenPrivs(h), os \in SeenOutputs(h), o \in Output :
        /\ o \in FundingTxn(h.arg, ks, os)
        /\ \E s : /\ s.fund = o /\ s.key = LastKey(ks)
                 /\ signed' = [signed EXCEPT ![h.arg] = s]
  <2>1. PICK ks \in SeenPrivs(h), back \in UNION {FirstKey(b) : b \in SeenPrivs(h)}, os \in SeenOutputs(h) :
          \E o \in FundingTxn(h.arg, ks, os) : \E n, c :
            signed' = [signed EXCEPT ![h.arg] =
              [fund |-> o, key |-> LastKey(ks), outs |-> n, change |-> c, back |-> back]]
    BY DEF SignTxn
  <2>2. PICK o \in FundingTxn(h.arg, ks, os) : \E n, c :
            signed' = [signed EXCEPT ![h.arg] =
              [fund |-> o, key |-> LastKey(ks), outs |-> n, change |-> c, back |-> back]]
    BY <2>1
  <2>3. PICK n, c : signed' = [signed EXCEPT ![h.arg] =
              [fund |-> o, key |-> LastKey(ks), outs |-> n, change |-> c, back |-> back]]
    BY <2>2
  <2>4. o \in Output
    BY <1>2, SeenAreStored DEF FundingTxn, Sufficient, Stores
  <2> DEFINE s == [fund |-> o, key |-> LastKey(ks), outs |-> n, change |-> c, back |-> back]
  <2>5. s.fund = o /\ s.key = LastKey(ks)
    OBVIOUS
  <2> HIDE DEF s
  <2>6. signed' = [signed EXCEPT ![h.arg] = s]
    BY <2>3 DEF s
  <2> QED BY <2>2, <2>4, <2>5, <2>6
<1>3. PICK s : s.fund = o /\ s.key = LastKey(ks) /\ signed' = [signed EXCEPT ![h.arg] = s]
  BY <1>0
<1>4. o \in txnDB /\ OwnerOf(o) \in ks
  BY <1>2, <1>0, SeenAreStored DEF FundingTxn, Sufficient
<1>5. LastKey(ks) = OwnerOf(o)
  <2>1. ks = privDB /\ privDB \subseteq {authDB.token} /\ privDB \subseteq Draw
    BY <1>1, <1>2, SeenIsKeys DEF Refreshed, CredInv, Creds, Stores
  <2>2. ks = {OwnerOf(o)} /\ OwnerOf(o) \in Draw
    BY <1>4, <2>1
  <2>3. KeyRank[OwnerOf(o)] \in Nat
    BY <2>2, WalletAssumption
  <2>4. \A k : k \in ks /\ (\A j \in ks : KeyRank[j] <= KeyRank[k]) <=> k = OwnerOf(o)
    BY <2>2, <2>3
  <2> QED BY <2>4 DEF LastKey
<1>6. /\ h.arg \in Txn /\ signed[h.arg] = NotSigned
      /\ \A t \in Txn : signed'[t] = IF t = h.arg THEN s ELSE signed[t]
  <2>1. h.route = "/sign" /\ signed[h.arg] = NotSigned
    BY <1>1, <1>2 DEF Locals, SignedOnce
  <2>2. h.arg \in Txn
    BY <2>1 DEF Handler, Open, Tracking, Balance, NewBlock, Sign
  <2> QED BY <1>2, <1>3, <2>1, <2>2 DEF Stores
<1>7. /\ \A t \in Txn : signed[t] # NotSigned => signed'[t] = signed[t]
      /\ \A t \in Txn : signed'[t] # signed[t] =>
           signed'[t].fund \in txnDB /\ signed'[t].key = OwnerOf(signed'[t].fund)
  BY <1>3, <1>4, <1>5, <1>6
<1>8. ASSUME NEW g \in Handler
      PROVE  /\ frame'[g].outs \subseteq txnDB
             /\ g.route = "/new-block" /\ pc'[g] # "idle" =>
                  /\ g.arg \in recorded
                  /\ \A x \in ({g.arg} \cup Txns[g.arg]) \ frame'[g].todo : Kept(x)
  BY <1>1, <1>2, EmptyFrame DEF Goto, Books, Stores
<1> QED BY <1>1, <1>2, <1>7, <1>8, DataStays DEF Books

\* The key is stored while nothing is accepted and no block is being saved.
LEMMA DataKey ==
  ASSUME OpenInv, NEW h \in Handler, PutKey(h)
  PROVE  Books' /\ AcceptedIsSaved' /\ SignedByOwner'
<1> USE DEF lists, told, chain
<1>1. /\ pc[h] \in Creating /\ Goto(h, "privs")
      /\ UNCHANGED <<txnDB, recorded, outputs, accepted, signed, frame>>
  BY DEF PutKey, Creating
<1>2. WalletInv /\ CredInv /\ Books /\ SignedByOwner
  BY DEF OpenInv
<1>3. accepted' = {} /\ h.route = "/open" /\ \A g \in Handler : g # h => pc'[g] = "idle"
  BY <1>1, <1>2, Alone DEF Goto, WalletInv, Stores
<1>4. Books'
  BY <1>1, <1>2, <1>3 DEF Books
<1>5. SignedByOwner'
  BY <1>1, <1>2 DEF SignedByOwner, OwnerOf
<1> QED BY <1>3, <1>4, <1>5 DEF AcceptedIsSaved

\* Faults store nothing, and the client adopts blocks without a word to the
\* server.
LEMMA DataFaults ==
  ASSUME OpenInv, Restart \/ (\E h \in Handler : CreateFails(h)) \/ \E b \in Block : Adopt(b)
  PROVE  Books' /\ AcceptedIsSaved' /\ SignedByOwner'
<1> USE DEF store, lists, told, chain
<1>1. ASSUME RestartEffects, UNCHANGED store PROVE Books' /\ AcceptedIsSaved' /\ SignedByOwner'
  BY <1>1, EmptyFrame, DataQuiet DEF RestartEffects
<1>2. ASSUME NEW h \in Handler, CreateFails(h), h # Open(Server)
      PROVE  Books' /\ AcceptedIsSaved' /\ SignedByOwner'
  <2>1. /\ Goto(h, "idle") /\ frame' = [frame EXCEPT ![h] = NoFrame]
        /\ UNCHANGED <<privDB, txnDB, recorded, accepted, signed, outputs>>
    BY <1>2 DEF CreateFails, Return
  <2> QED BY <2>1, EmptyFrame, DataMove
<1>3. ASSUME NEW b \in Block, Adopt(b) PROVE Books' /\ AcceptedIsSaved' /\ SignedByOwner'
  <2>1. /\ UNCHANGED <<privDB, txnDB, outputs, accepted, signed, pc, frame>>
        /\ recorded \subseteq recorded' /\ Books
    BY <1>3 DEF Adopt, OpenInv
  <2> QED BY <2>1, DataStays DEF Books
<1> QED BY <1>1, <1>2, <1>3 DEF Restart, CreateFails

\* Every step keeps the promises of the wallet.
LEMMA OpenStep ==
  ASSUME SamePassword PROVE OpenInv /\ [WalletNext /\ OneOpen']_walletVars => OpenInv'
<1> SUFFICES ASSUME OpenInv, [WalletNext /\ OneOpen']_walletVars PROVE OpenInv'
  OBVIOUS
<1>1. WalletInv /\ CredInv /\ OneOpen
  BY DEF OpenInv, CredInv
<1>2. OneOpen'
  BY <1>1 DEF OneOpen, walletVars
<1>3. WalletInv' /\ CredInv'
  BY <1>1, <1>2, WalletStep, CredStep
<1>4. ASSUME UNCHANGED walletVars PROVE Books' /\ AcceptedIsSaved' /\ SignedByOwner'
  BY <1>4, DataQuiet DEF walletVars, store, lists, told, chain, OpenInv, Books
<1>5. ASSUME NEW h \in Handler, Opening(h) \/ Step(h)
      PROVE  Books' /\ AcceptedIsSaved' /\ SignedByOwner'
  BY <1>5, DataReads, DataKey, DataLists, DataSaves DEF Opening, Step
<1>6. ASSUME SteadyNext PROVE Books' /\ AcceptedIsSaved' /\ SignedByOwner'
  BY <1>5, <1>6, DataReads, DataFaults, DataSigns, DataLists DEF SteadyNext
<1>7. ASSUME WalletNext PROVE Books' /\ AcceptedIsSaved' /\ SignedByOwner'
  BY <1>6, <1>7, DataFaults, DataSaves DEF WalletNext
<1> QED BY <1>3, <1>4, <1>7 DEF OpenInv

-------------------------------------------------------------------------------

\* Who was given a token keeps it: nobody makes the wallet a second time
\* (AuthenicatePassword and Create, wallet-server.go:427-498).
THEOREM TokensAreAccepted == ASSUME SamePassword PROVE OneOpenSpec => []TokenAccepted
<1>1. OpenInv => TokenAccepted
  BY DEF OpenInv, CredInv, Creds, TokenAccepted, TokenOK
<1> QED BY OpenInitially, OpenStep, <1>1, PTL DEF OneOpenSpec

\* A block is accepted only when its outputs are saved, although the list of
\* keys they are compared with is assigned by every other request
\* (wallet-server.go:343-378, 500-534, 620-663).
THEOREM AcceptedAreSaved == ASSUME SamePassword PROVE OneOpenSpec => []AcceptedIsSaved
<1>1. OpenInv => AcceptedIsSaved
  BY DEF OpenInv
<1> QED BY OpenInitially, OpenStep, <1>1, PTL DEF OneOpenSpec

\* Although findFundingTxn returns the last key of the list, it is the key of
\* the output it returns (wallet-server.go:591-618).
THEOREM SignedByTheOwner == ASSUME SamePassword PROVE OneOpenSpec => []SignedByOwner
<1>1. OpenInv => SignedByOwner
  BY DEF OpenInv
<1> QED BY OpenInitially, OpenStep, <1>1, PTL DEF OneOpenSpec
===============================================================================
