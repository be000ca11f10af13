--------------------------- MODULE SessionProofs ---------------------------
(***************************************************************************)
(* Proofs about Session: no session without the three disclosures, a node  *)
(* and a pool of one network, and a save that stores the network the       *)
(* wallet is on, for any accounts, contacts and number of open requests.   *)
(*                                                                         *)
(* The first needs what a tick proves at every later step: whatever is     *)
(* beyond the disclosures, a key, a signature asked for or a session, has  *)
(* all of them behind it.  The last needs to know where a request came     *)
(* from: what onboarding asked for is forgotten, but for a signature, when *)
(* a session begins, so only the form's own requests move it.              *)
(*                                                                         *)
(* Its last part is about the groups of the same web application, Groups:  *)
(* who wrote a message, and which group it is of.                          *)
(***************************************************************************)
EXTENDS Session, Groups, FiniteSetTheorems, TLAPS

Kinds == {"connect", "probe", "recheck", "shield", "sign", "switch"}
Requests ==
    [kind : Kinds, where : {"ob", "form", "gone"},
     net : Nets \cup {None}, account : Accounts \cup {None}]
Pairs == [account : Accounts, contacts : SUBSET Contacts, key : BOOLEAN]
Wallets == [net : Nets, account : Accounts, support : {"checking", "known"}]
Screens ==
    [step : 0..2, scrolled : BOOLEAN, acks : SUBSET Disclosures, keys : {None} \cup Pairs,
     restoring : BOOLEAN, wallet : {None} \cup Wallets, shielding : BOOLEAN, signing : BOOLEAN]

ScreenOK == ob \in Screens /\ file \in {None} \cup Pairs /\ acked \subseteq Disclosures
StoreOK == config \in {None} \cup Configs /\ contacts \subseteq Contacts
FormOK == form \in {None} \cup Forms
RequestsOK == open \subseteq Requests /\ chain \in Nets

\* Beyond the disclosures, all of them are acknowledged.
Behind ==
    /\ ob.acks \subseteq acked
    /\ \/ acked = Disclosures
       \/ /\ ob.step = 0 /\ ob.keys = None /\ config = None
          /\ \A r \in open : r.kind # "sign"

\* A request names what its answer is for, and is of a screen that is there.
Addressed(r) ==
    /\ r.kind \in {"probe", "shield", "sign", "switch"} => r.net \in Nets
    /\ r.kind \in {"probe", "shield", "sign"} => r.account \in Accounts
    /\ r.where = "ob" => config = None
    /\ r.where = "form" => form # None
    /\ r.where = "gone" => r.kind = "sign"
AllNamed == \A r \in open : Addressed(r)

\* The networks of a configuration and of a form that was opened on it.
OneNet == config # None =>
    /\ config.rpc = config.pool
    /\ config.mode = "wallet" => config.rpc \in Nets
    /\ config.mode = "demo" => config.rpc = None
FormNet == form # None =>
    /\ config # None
    /\ form.rpc = form.pool
    /\ form.over # "pool" => form.net = form.rpc
    /\ form.chain # None /\ ~form.moved => form.chain = chain

IInv ==
    /\ ScreenOK /\ StoreOK /\ FormOK /\ RequestsOK
    /\ Behind /\ AllNamed /\ OneNet /\ FormNet

-----------------------------------------------------------------------------
LEMMA InitOK == Init => IInv
BY SessionAssumption DEF Init, IInv, ScreenOK, StoreOK, FormOK, RequestsOK, Behind, AllNamed,
   OneNet, FormNet, Screens, Fresh, NoWallet

\* The steps of onboarding keep the store, the form and the requests.
LEMMA ShowOK ==
  ASSUME IInv, NEW o \in Screens, Show(o),
         o.acks \subseteq acked,
         acked = Disclosures \/ (o.step = 0 /\ o.keys = None)
  PROVE  IInv'
BY DEF Show, store, IInv, ScreenOK, StoreOK, FormOK, RequestsOK, Behind, AllNamed, Addressed,
   OneNet, FormNet

\* Leaving a screen keeps what is known of the requests that remain.
LEMMA LeftOK ==
  ASSUME IInv, NEW where \in {"ob", "form"}
  PROVE  /\ Left(where) \subseteq Requests
         /\ \A r \in Left(where) :
               /\ r.where # where
               /\ r.where = "gone" => r.kind = "sign"
               /\ \/ r \in open
                  \/ r.where = "gone" /\ r.net \in Nets /\ r.account \in Accounts
         /\ (\A r \in open : r.kind # "sign") => \A r \in Left(where) : r.kind # "sign"
<1>1. ASSUME NEW r \in Left(where)
      PROVE  /\ r \in Requests /\ r.where # where
             /\ r.where = "gone" => r.kind = "sign"
             /\ \/ r \in open
                \/ r.where = "gone" /\ r.net \in Nets /\ r.account \in Accounts
             /\ r \in open \/ \E q \in open : q.kind = "sign"
  <2>1. CASE r \in open /\ r.where # where
    BY <2>1 DEF IInv, RequestsOK, AllNamed, Addressed
  <2>2. CASE \E q \in open : q.where = where /\ q.kind = "sign" /\ r = [q EXCEPT !.where = "gone"]
    BY <2>2 DEF IInv, RequestsOK, AllNamed, Addressed, Requests
  <2> QED
    BY <1>1, <2>1, <2>2 DEF Left
<1> QED
  BY <1>1

LEMMA GoToOK ==
  ASSUME IInv, NEW n \in 0..2, GoTo(n), acked = Disclosures \/ (n = 0 /\ ob.keys = None)
  PROVE  IInv'
<1>1. ob' \in Screens /\ ob'.acks = ob.acks /\ ob'.step = n /\ ob'.keys = ob.keys
  BY DEF GoTo, Fresh, NoWallet, IInv, ScreenOK, Screens
<1>2. RequestsOK'
  BY LeftOK DEF GoTo, IInv, RequestsOK
<1>3. AllNamed'
  BY LeftOK DEF GoTo, store, IInv, AllNamed, Addressed
<1>4. Behind'
  BY <1>1, LeftOK DEF GoTo, store, IInv, Behind
<1> QED
  BY <1>1, <1>2, <1>3, <1>4 DEF GoTo, store, IInv, ScreenOK, StoreOK, FormOK, OneNet, FormNet

LEMMA StepsOK == IInv /\ StepsNext => IInv'
<1> SUFFICES ASSUME IInv, StepsNext PROVE IInv'
  OBVIOUS
<1> USE DEF IInv, ScreenOK
<1>1. CASE Scroll
  BY <1>1, ShowOK DEF Scroll, Behind, Screens
<1>2. CASE Continue
  <2>1. acked = Disclosures
    BY <1>2 DEF Continue, CanContinue, Behind
  <2> QED
    BY <1>2, <2>1, GoToOK DEF Continue
<1>3. CASE Back
  <2>1. ob.step - 1 \in 0..2 /\ acked = Disclosures
    BY <1>3 DEF Back, Behind, Screens
  <2> QED
    BY <1>3, <2>1, GoToOK DEF Back
<1>4. CASE KeyDone
  BY <1>4, GoToOK DEF KeyDone, Behind
<1>5. CASE ToCompliance
  BY <1>5, GoToOK DEF ToCompliance, Behind
<1>6. CASE ToTradeoffs
  BY <1>6, GoToOK DEF ToTradeoffs, Behind
<1>7. CASE OpenRestore \/ CloseRestore
  BY <1>7, ShowOK DEF OpenRestore, CloseRestore, Choosing, Behind, Screens
<1>8. CASE Restore
  BY <1>8, ShowOK DEF Restore, Behind, Screens
<1>9. ASSUME NEW d \in Disclosures, Tick(d) PROVE IInv'
  <2>1. ob' \in Screens /\ ob'.acks \subseteq ob.acks \cup {d} /\ ob'.step = ob.step /\ ob'.keys = ob.keys
    BY <1>9 DEF Tick, Screens
  <2>2. ScreenOK' /\ Behind'
    BY <2>1, <1>9 DEF Tick, store, Behind
  <2> QED
    BY <2>2, <1>9 DEF Tick, store, StoreOK, FormOK, RequestsOK, AllNamed, Addressed, OneNet, FormNet
<1>10. ASSUME NEW a \in Accounts, NewKey(a) PROVE IInv'
  <2> DEFINE k == [account |-> a, contacts |-> {}, key |-> TRUE]
  <2>1. k \in Pairs
    BY DEF Pairs
  <2>2. Show([ob EXCEPT !.keys = k]) /\ ob.step = 1
    BY <1>10 DEF NewKey, Choosing
  <2> HIDE DEF k
  <2> DEFINE o == [ob EXCEPT !.keys = k]
  <2>3. o \in Screens /\ o.acks = ob.acks
    BY <2>1 DEF Screens
  <2>4. Show(o)
    BY <2>2
  <2>5. acked = Disclosures /\ ob.acks \subseteq acked
    BY <2>2 DEF Behind
  <2> HIDE DEF o
  <2> QED
    BY <2>3, <2>4, <2>5, ShowOK
<1> QED
  BY <1>1, <1>2, <1>3, <1>4, <1>5, <1>6, <1>7, <1>8, <1>9, <1>10 DEF StepsNext

-----------------------------------------------------------------------------
\* A session begins with the disclosures behind it and a configuration of one network.
LEMMA BeginsOK ==
  ASSUME IInv, NEW c \in Configs, NEW cs \in SUBSET Contacts, CompleteOnboarding(c, cs),
         acked = Disclosures, UNCHANGED <<form, chain, file, acked>>, open' \subseteq Left("ob"),
         c.rpc = c.pool, c.mode = "wallet" => c.rpc \in Nets, c.mode = "demo" => c.rpc = None
  PROVE  IInv'
<1>1. config' # None
  BY SessionAssumption DEF CompleteOnboarding
<1>2. ob' \in Screens /\ ob'.acks = {}
  BY DEF CompleteOnboarding, Fresh, NoWallet, Screens
<1>3. RequestsOK'
  BY LeftOK DEF IInv, RequestsOK
<1>4. AllNamed'
  BY LeftOK DEF IInv, AllNamed, Addressed
<1> QED
  BY <1>1, <1>2, <1>3, <1>4 DEF CompleteOnboarding, IInv, ScreenOK, StoreOK, FormOK, Behind, OneNet, FormNet

LEMMA FinishesOK == IInv /\ (FinishDemo \/ FinishWithWallet) => IInv'
<1> SUFFICES ASSUME IInv, FinishDemo \/ FinishWithWallet PROVE IInv'
  OBVIOUS
<1>1. acked = Disclosures
  BY DEF IInv, Behind, FinishDemo, FinishWithWallet, Picked
<1>2. CASE FinishDemo
  <2> DEFINE c == Config("demo", None, ob.keys.account)
  <2>1. ob.keys \in Pairs
    BY <1>2 DEF FinishDemo, IInv, ScreenOK, Screens
  <2>2. c \in Configs /\ c.rpc = None /\ c.pool = None /\ c.mode = "demo" /\ ob.keys.contacts \in SUBSET Contacts
    BY <2>1 DEF Config, Configs, Modes, Pairs
  <2> QED
    BY <1>1, <1>2, <2>2, BeginsOK DEF FinishDemo
<1>3. CASE FinishWithWallet
  <2> DEFINE c == Config("wallet", ob.wallet.net, ob.wallet.account)
  <2>1. ob.wallet \in Wallets
    BY <1>3 DEF FinishWithWallet, Picked, NoWallet, IInv, ScreenOK, Screens
  <2>2. c \in Configs /\ c.rpc \in Nets /\ c.pool = c.rpc /\ c.mode = "wallet"
    BY <2>1 DEF Config, Configs, Modes, Wallets
  <2> QED
    BY <1>1, <1>3, <2>2, BeginsOK DEF FinishWithWallet
<1> QED
  BY <1>2, <1>3

LEMMA SignedOK ==
  ASSUME IInv, NEW r \in open, Signed(r)
  PROVE  IInv'
<1> DEFINE c == Config("pool", r.net, r.account)
<1>1. acked = Disclosures
  BY DEF Signed, IInv, Behind
<1>2. r.net \in Nets /\ r.account \in Accounts
  BY DEF Signed, IInv, AllNamed, Addressed
<1>3. c \in Configs /\ c.pool = c.rpc /\ c.mode = "pool"
  BY <1>2 DEF Config, Configs, Modes
<1> QED
  BY <1>1, <1>3, BeginsOK DEF Signed

\* A step that asks, or is answered, without touching the store or the form.
LEMMA AsksOK ==
  ASSUME IInv, NEW q \in SUBSET Requests, open' = q, ob' \in Screens,
         \A r \in q : Addressed(r), acked = Disclosures \/ \A r \in q : r.kind # "sign",
         ob'.acks = ob.acks, ob'.step = ob.step, ob'.keys = ob.keys,
         UNCHANGED <<store, form, chain, file, acked>>
  PROVE  IInv'
BY DEF store, IInv, ScreenOK, StoreOK, FormOK, RequestsOK, Behind, AllNamed, Addressed, OneNet, FormNet

LEMMA RequestOK ==
  ASSUME IInv, NEW r \in Requests, Addressed(r), Request(r), ob' \in Screens,
         r.kind = "sign" => acked = Disclosures,
         ob'.acks = ob.acks, ob'.step = ob.step, ob'.keys = ob.keys,
         UNCHANGED <<store, form, chain, file, acked>>
  PROVE  IInv'
<1>1. open \cup {r} \in SUBSET Requests /\ \A q \in open \cup {r} : Addressed(q)
  BY DEF IInv, RequestsOK, AllNamed
<1>2. acked = Disclosures \/ \A q \in open \cup {r} : q.kind # "sign"
  BY DEF IInv, Behind
<1> QED
  BY <1>1, <1>2, AsksOK DEF Request

LEMMA OtherNet == \A net \in Nets : Other(net) \in Nets
BY DEF Other, Nets

\* What onboarding asks of the wallet.
LEMMA AsksInOnboardingOK ==
  IInv /\ (Connect \/ SwitchOnboarding \/ Shield \/ Sign \/ CheckAgain \/ Unpick) => IInv'
<1> SUFFICES ASSUME IInv, Connect \/ SwitchOnboarding \/ Shield \/ Sign \/ CheckAgain \/ Unpick
             PROVE  IInv'
  OBVIOUS
<1>1. ob \in Screens /\ config = None
  BY DEF IInv, ScreenOK, Connect, SwitchOnboarding, Shield, Sign, CheckAgain, Unpick, Picked, Onboarding, Show
<1>2. Picked => acked = Disclosures /\ ob.wallet \in Wallets
  BY <1>1 DEF Picked, IInv, Behind, Screens, NoWallet
<1>3. CASE Connect
  <2>1. Ask("ob") \in Requests /\ Addressed(Ask("ob")) /\ Ask("ob").kind # "sign"
    BY <1>1 DEF Ask, Requests, Kinds, Addressed
  <2> QED
    BY <1>1, <1>3, <2>1, RequestOK DEF Connect
<1>4. CASE SwitchOnboarding
  <2> DEFINE r == [Ask("ob") EXCEPT !.kind = "switch", !.net = Other(ob.wallet.net)]
  <2>1. Other(ob.wallet.net) \in Nets
    BY <1>2, <1>4, OtherNet DEF SwitchOnboarding, Wallets
  <2>2. r \in Requests /\ Addressed(r) /\ r.kind # "sign"
    BY <1>1, <2>1 DEF Ask, Requests, Kinds, Addressed
  <2> QED
    BY <1>1, <1>4, <2>2, RequestOK DEF SwitchOnboarding
<1>5. CASE Shield
  <2> DEFINE r == [Ask("ob") EXCEPT !.kind = "shield", !.net = ob.wallet.net, !.account = ob.wallet.account]
  <2>1. ob.wallet.net \in Nets /\ ob.wallet.account \in Accounts
    BY <1>2, <1>5 DEF Shield, Wallets
  <2>2. r \in Requests /\ Addressed(r) /\ r.kind # "sign"
    BY <1>1, <2>1 DEF Ask, Requests, Kinds, Addressed
  <2>3. /\ ob' \in Screens /\ ob'.acks = ob.acks /\ ob'.step = ob.step /\ ob'.keys = ob.keys
    BY <1>1, <1>5 DEF Shield, Screens
  <2> QED
    BY <1>5, <2>2, <2>3, RequestOK DEF Shield
<1>6. CASE Sign
  <2> DEFINE r == [Ask("ob") EXCEPT !.kind = "sign", !.net = ob.wallet.net, !.account = ob.wallet.account]
  <2>1. ob.wallet.net \in Nets /\ ob.wallet.account \in Accounts /\ acked = Disclosures
    BY <1>2, <1>6 DEF Sign, Wallets
  <2>2. r \in Requests /\ Addressed(r)
    BY <1>1, <2>1 DEF Ask, Requests, Kinds, Addressed
  <2>3. /\ ob' \in Screens /\ ob'.acks = ob.acks /\ ob'.step = ob.step /\ ob'.keys = ob.keys
    BY <1>1, <1>6 DEF Sign, Screens
  <2> QED
    BY <1>6, <2>1, <2>2, <2>3, RequestOK DEF Sign
<1>7. CASE CheckAgain
  <2> DEFINE r == [Ask("ob") EXCEPT !.kind = "recheck"]
  <2>1. r \in Requests /\ Addressed(r) /\ r.kind # "sign"
    BY <1>1 DEF Ask, Requests, Kinds, Addressed
  <2>2. [ob.wallet EXCEPT !.support = "checking"] \in Wallets
    BY <1>2, <1>7 DEF CheckAgain, Wallets
  <2>3. /\ ob' \in Screens /\ ob'.acks = ob.acks /\ ob'.step = ob.step /\ ob'.keys = ob.keys
    BY <1>1, <1>7, <2>2 DEF CheckAgain, Screens
  <2> QED
    BY <1>7, <2>1, <2>3, RequestOK DEF CheckAgain
<1>8. CASE Unpick
  <2>1. [ob EXCEPT !.wallet = NoWallet] \in Screens
    BY <1>1 DEF Screens, NoWallet
  <2> QED
    BY <1>1, <1>2, <1>8, <2>1, ShowOK DEF Unpick, IInv, Behind, Screens
<1> QED
  BY <1>3, <1>4, <1>5, <1>6, <1>7, <1>8

\* What the wallet answers.
LEMMA ConnectedOK ==
  ASSUME IInv, NEW r \in open, NEW a \in Accounts, Connected(r, a)
  PROVE  IInv'
<1> DEFINE p == [r EXCEPT !.kind = "probe", !.net = chain, !.account = a]
           q == (open \ {r}) \cup {p}
<1>1. r \in Requests /\ Addressed(r) /\ r.kind = "connect" /\ chain \in Nets
  BY DEF Connected, IInv, RequestsOK, AllNamed
<1>2. p \in Requests /\ Addressed(p) /\ p.kind # "sign"
  BY <1>1 DEF Requests, Kinds, Addressed
<1>3. q \in SUBSET Requests /\ \A s \in q : Addressed(s)
  BY <1>2 DEF IInv, RequestsOK, AllNamed
<1>4. acked = Disclosures \/ \A s \in q : s.kind # "sign"
  BY <1>2 DEF IInv, Behind
<1>5. CASE r.where = "ob"
  <2>1. Wallet(chain, a, "checking") \in Wallets
    BY <1>1 DEF Wallet, Wallets
  <2>2. /\ ob' \in Screens /\ ob'.acks = ob.acks /\ ob'.step = ob.step /\ ob'.keys = ob.keys
    BY <1>5, <2>1 DEF Connected, IInv, ScreenOK, Screens
  <2>3. open' = q /\ UNCHANGED <<store, form, chain, file, acked>>
    BY <1>5 DEF Connected
  <2> HIDE DEF q
  <2> QED
    BY <1>3, <1>4, <2>2, <2>3, AsksOK
<1>6. CASE r.where # "ob"
  <2>1. form # None /\ form \in Forms
    BY <1>1, <1>6 DEF Addressed, Requests, IInv, FormOK
  <2>2. /\ form' \in Forms /\ form'.rpc = form.rpc /\ form'.pool = form.pool
        /\ form'.over = form.over /\ form'.net = form.net
        /\ form'.chain = chain
    BY <1>1, <1>6, <2>1 DEF Connected, Forms
  <2>3. form' # None
    BY <2>2, SessionAssumption
  <2>4. FormNet'
    BY <1>6, <2>1, <2>2, <2>3 DEF Connected, store, IInv, FormNet
  <2>5. AllNamed' /\ RequestsOK' /\ Behind'
    BY <1>3, <1>4, <1>6, <2>3 DEF Connected, store, IInv, AllNamed, Addressed, RequestsOK, Behind
  <2> QED
    BY <1>6, <2>2, <2>4, <2>5 DEF Connected, store, IInv, ScreenOK, StoreOK, FormOK, OneNet
<1> QED
  BY <1>5, <1>6

LEMMA AnswersOK ==
  ASSUME IInv, NEW r \in open, Probed(r) \/ Rechecked(r) \/ Failed(r)
  PROVE  IInv'
<1> DEFINE q == open \ {r}
<1>1. r \in Requests /\ Addressed(r) /\ ob \in Screens
  BY DEF IInv, RequestsOK, AllNamed, ScreenOK
<1>2. q \in SUBSET Requests /\ \A s \in q : Addressed(s)
  BY DEF IInv, RequestsOK, AllNamed
<1>3. acked = Disclosures \/ \A s \in q : s.kind # "sign"
  BY DEF IInv, Behind
<1>4. open' = q /\ UNCHANGED <<store, form, chain, file, acked>>
  BY DEF Probed, Rechecked, Failed
<1>5. ob' \in Screens /\ ob'.acks = ob.acks /\ ob'.step = ob.step /\ ob'.keys = ob.keys
  <2>1. CASE Probed(r)
    <3>1. Wallet(r.net, r.account, "known") \in Wallets
      BY <1>1, <2>1 DEF Probed, Addressed, Wallet, Wallets
    <3> QED
      BY <1>1, <2>1, <3>1 DEF Probed, Screens
  <2>2. CASE Rechecked(r)
    <3>1. ob.wallet # None => [ob.wallet EXCEPT !.support = "known"] \in Wallets
      BY <1>1 DEF Screens, Wallets
    <3> QED
      BY <1>1, <2>2, <3>1 DEF Rechecked, NoWallet, Screens
  <2>3. CASE Failed(r)
    BY <1>1, <2>3 DEF Failed, Screens
  <2> QED
    BY <2>1, <2>2, <2>3
<1> HIDE DEF q
<1> QED
  BY <1>2, <1>3, <1>4, <1>5, AsksOK

\* The wallet changes its network for the form, or for onboarding when no form is there.
LEMMA SwitchedOK ==
  ASSUME IInv, NEW r \in open, NEW ok \in BOOLEAN, Switched(r, ok)
  PROVE  IInv'
<1> DEFINE q == (open \ {r}) \cup (IF ok /\ r.where = "ob" THEN {Ask("ob")} ELSE {})
<1>1. r \in Requests /\ Addressed(r) /\ r.kind = "switch" /\ r.net \in Nets
  BY DEF Switched, IInv, RequestsOK, AllNamed, Addressed
<1>2. open' = q /\ UNCHANGED <<store, ob, file, acked>>
  BY DEF Switched, SwitchSeen
<1>3. r.where = "ob" => config = None
  BY <1>1 DEF Addressed
<1>4. q \in SUBSET Requests /\ \A s \in q : Addressed(s)
  <2>1. Ask("ob") \in Requests
    BY DEF Ask, Requests, Kinds
  <2>2. r.where = "ob" => Addressed(Ask("ob"))
    BY <1>3 DEF Ask, Addressed
  <2> QED
    BY <2>1, <2>2 DEF IInv, RequestsOK, AllNamed
<1>5. acked = Disclosures \/ \A s \in q : s.kind # "sign"
  <2>1. Ask("ob").kind # "sign"
    BY DEF Ask
  <2> QED
    BY <2>1 DEF IInv, Behind
<1>6. form' \in {None} \cup Forms /\ (form' # None <=> form # None) /\ FormNet'
  <2>1. CASE ok /\ r.where = "form"
    <3>1. form # None /\ form \in Forms
      BY <1>1, <2>1 DEF Addressed, IInv, FormOK
    <3>2. /\ form' \in Forms /\ form'.rpc = form.rpc /\ form'.pool = form.pool
          /\ form'.over = form.over /\ form'.net = form.net
          /\ form'.chain = r.net /\ chain' = r.net
      BY <1>1, <2>1, <3>1 DEF Switched, SwitchSeen, Forms
    <3>3. form' # None
      BY <3>2, SessionAssumption
    <3> QED
      BY <1>2, <3>1, <3>2, <3>3 DEF store, IInv, FormNet
  <2>2. CASE ~ok
    BY <1>2, <2>2 DEF Switched, SwitchSeen, store, IInv, FormOK, FormNet
  <2>3. CASE r.where = "ob"
    BY <1>1, <1>2, <1>3, <2>3 DEF Switched, SwitchSeen, store, IInv, FormOK, FormNet
  <2> QED
    BY <1>1, <2>1, <2>2, <2>3 DEF Requests, Addressed
<1>7. chain' \in Nets
  BY <1>1 DEF Switched, IInv, RequestsOK
<1>8. AllNamed' /\ RequestsOK' /\ Behind'
  <2> HIDE DEF q
  <2> QED
    BY <1>2, <1>4, <1>5, <1>6, <1>7 DEF store, IInv, AllNamed, Addressed, RequestsOK, Behind
<1> QED
  BY <1>2, <1>6, <1>8 DEF store, IInv, ScreenOK, StoreOK, FormOK, OneNet

LEMMA WalletMovesOK == IInv /\ WalletMoves => IInv'
<1> SUFFICES ASSUME IInv, WalletMoves PROVE IInv'
  OBVIOUS
<1>1. chain' \in Nets
  BY OtherNet DEF WalletMoves, IInv, RequestsOK
<1>2. form = None => form' = None
  BY DEF WalletMoves
<1>3. form # None =>
        /\ form' \in Forms /\ form'.rpc = form.rpc /\ form'.pool = form.pool
        /\ form'.over = form.over /\ form'.net = form.net /\ form'.moved
  BY DEF WalletMoves, IInv, FormOK, Forms
<1>4. form # None => form' # None
  BY <1>3, SessionAssumption
<1> QED
  BY <1>1, <1>2, <1>3, <1>4 DEF WalletMoves, store, IInv, ScreenOK, StoreOK, FormOK, RequestsOK,
     Behind, AllNamed, Addressed, OneNet, FormNet

LEMMA WalletOK == IInv /\ WalletNext => IInv'
BY AsksInOnboardingOK, SignedOK, ConnectedOK, AnswersOK, SwitchedOK, WalletMovesOK DEF WalletNext

-----------------------------------------------------------------------------
(* Settings.                                                               *)

\* A step that changes the form's fields, the store as it was.
LEMMA FieldsOK ==
  ASSUME IInv, form' \in Forms, config # None,
         form'.rpc = form'.pool,
         form'.over # "pool" => form'.net = form'.rpc,
         form'.chain # None /\ ~form'.moved => form'.chain = chain,
         UNCHANGED <<store, ob, open, chain, file, acked>>
  PROVE  IInv'
<1>1. form' # None
  BY SessionAssumption
<1> QED
  BY <1>1 DEF store, IInv, ScreenOK, StoreOK, FormOK, RequestsOK, Behind, AllNamed, Addressed, OneNet, FormNet

LEMMA OpenFormOK == IInv /\ OpenForm => IInv'
<1> SUFFICES ASSUME IInv, OpenForm PROVE IInv'
  OBVIOUS
<1>1. config \in Configs /\ config # None
  BY DEF OpenForm, Onboarding, IInv, StoreOK
<1>2. IsNet(config.rpc) \in Nets /\ IsNet(config.pool) = IsNet(config.rpc)
  BY <1>1 DEF IsNet, Nets, Configs, IInv, OneNet
<1>3. config.mode = "wallet" => config.rpc \in Nets /\ IsNet(config.rpc) = config.rpc
  BY <1>1, SessionAssumption DEF IsNet, IInv, OneNet
<1>4. config.mode = "demo" => IsNet(config.rpc) = Sepolia
  BY <1>1 DEF IsNet, IInv, OneNet
<1>5. form' \in Forms
  BY <1>1, <1>2, <1>3 DEF OpenForm, Forms, Configs, Nets
<1>6. /\ form'.rpc = form'.pool /\ form'.chain = None
      /\ form'.over # "pool" => form'.net = form'.rpc
  BY <1>1, <1>2, <1>3, <1>4 DEF OpenForm, Configs, Modes
<1> QED
  BY <1>1, <1>5, <1>6, FieldsOK DEF OpenForm

LEMMA PresetOK == \A net \in Nets : IInv /\ ApplyWalletPreset(net) => IInv'
<1> SUFFICES ASSUME IInv, NEW net \in Nets, ApplyWalletPreset(net) PROVE IInv'
  OBVIOUS
<1>1. form \in Forms /\ form # None /\ config # None
  BY DEF ApplyWalletPreset, IInv, FormOK, FormNet
<1>2. /\ form' \in Forms /\ form'.rpc = net /\ form'.pool = net /\ form'.net = net
      /\ form'.chain = form.chain /\ form'.moved = form.moved
  BY <1>1 DEF ApplyWalletPreset, Preset, Forms
<1>3. form'.chain # None /\ ~form'.moved => form'.chain = chain
  BY <1>1, <1>2 DEF IInv, FormNet
<1> QED
  BY <1>1, <1>2, <1>3, FieldsOK DEF ApplyWalletPreset

LEMMA AsksInFormOK == IInv /\ (Reconnect \/ SwitchForm) => IInv'
<1> SUFFICES ASSUME IInv, Reconnect \/ SwitchForm PROVE IInv'
  OBVIOUS
<1>1. ob \in Screens /\ form \in Forms /\ form # None
  BY DEF Reconnect, SwitchForm, IInv, ScreenOK, FormOK
<1>2. CASE Reconnect
  <2>1. Ask("form") \in Requests /\ Addressed(Ask("form")) /\ Ask("form").kind # "sign"
    BY <1>1 DEF Ask, Requests, Kinds, Addressed
  <2> QED
    BY <1>1, <1>2, <2>1, RequestOK DEF Reconnect
<1>3. CASE SwitchForm
  <2> DEFINE r == [Ask("form") EXCEPT !.kind = "switch", !.net = form.net]
  <2>1. form.net \in Nets
    BY <1>1 DEF Forms
  <2>2. r \in Requests /\ Addressed(r) /\ r.kind # "sign"
    BY <1>1, <2>1 DEF Ask, Requests, Kinds, Addressed
  <2> QED
    BY <1>1, <1>3, <2>2, RequestOK DEF SwitchForm
<1> QED
  BY <1>2, <1>3

LEMMA SaveOK == IInv /\ Save => IInv'
<1> SUFFICES ASSUME IInv, Save PROVE IInv'
  OBVIOUS
<1>1. form \in Forms /\ form # None /\ config \in Configs /\ config # None
  BY DEF Save, IInv, FormOK, FormNet, StoreOK
<1>2. form.account \in Accounts
  BY <1>1 DEF Save, WalletReady, Forms
<1>3. config' \in Configs /\ config'.rpc = form.rpc /\ config'.pool = form.pool /\ config'.mode = "wallet"
  BY <1>1, <1>2 DEF Save, Configs, Forms, Modes
<1>4. config' # None /\ config'.rpc = config'.pool /\ config'.rpc \in Nets
  BY <1>1, <1>3, SessionAssumption DEF Forms, IInv, FormNet
<1>5. \A r \in open : r.where # "ob"
  BY <1>1 DEF IInv, AllNamed, Addressed
<1>6. acked = Disclosures
  BY <1>1 DEF IInv, Behind
<1> QED
  BY <1>3, <1>4, <1>5, <1>6 DEF Save, IInv, ScreenOK, StoreOK, FormOK, RequestsOK, Behind, AllNamed,
     Addressed, OneNet, FormNet

LEMMA CloseOK == IInv /\ Close => IInv'
<1> SUFFICES ASSUME IInv, Close PROVE IInv'
  OBVIOUS
<1>1. RequestsOK'
  BY LeftOK DEF Close, IInv, RequestsOK
<1>2. AllNamed'
  BY LeftOK DEF Close, store, IInv, AllNamed, Addressed
<1>3. Behind'
  BY LeftOK DEF Close, store, IInv, Behind
<1> QED
  BY <1>1, <1>2, <1>3 DEF Close, store, IInv, ScreenOK, StoreOK, FormOK, OneNet, FormNet

LEMMA BackupOK == IInv /\ Backup => IInv'
<1> SUFFICES ASSUME IInv, Backup PROVE IInv'
  OBVIOUS
<1>1. file' \in Pairs
  BY DEF Backup, Onboarding, IInv, StoreOK, Configs, Pairs
<1> QED
  BY <1>1 DEF Backup, store, IInv, ScreenOK, StoreOK, FormOK, RequestsOK, Behind, AllNamed, Addressed,
     OneNet, FormNet

LEMMA DisconnectOK == IInv /\ Disconnect => IInv'
<1> SUFFICES ASSUME IInv, Disconnect PROVE IInv'
  OBVIOUS
<1>1. ob' \in Screens /\ ob'.acks = {} /\ acked = Disclosures
  BY DEF Disconnect, Onboarding, Fresh, NoWallet, Screens, IInv, Behind
<1> QED
  BY <1>1 DEF Disconnect, IInv, ScreenOK, StoreOK, FormOK, RequestsOK, Behind, AllNamed, Addressed,
     OneNet, FormNet

LEMMA SettingsOK == IInv /\ SettingsNext => IInv'
<1>1. ASSUME IInv, NEW c \in Contacts, AddContact(c) PROVE IInv'
  BY <1>1 DEF AddContact, IInv, ScreenOK, StoreOK, FormOK, RequestsOK, Behind, AllNamed, Addressed,
     OneNet, FormNet
<1> QED
  BY <1>1, OpenFormOK, PresetOK, AsksInFormOK, SaveOK, CloseOK, BackupOK, DisconnectOK DEF SettingsNext

-----------------------------------------------------------------------------
\* What holds of every session, for every value of the constants.
THEOREM Invariant == Spec => []IInv
<1>1. Init => IInv
  BY InitOK
<1>2. IInv /\ [Next]_vars => IInv'
  <2>1. IInv /\ Next => IInv'
    BY StepsOK, FinishesOK, WalletOK, SettingsOK DEF Next
  <2>2. IInv /\ UNCHANGED vars => IInv'
    BY DEF vars, store, IInv, ScreenOK, StoreOK, FormOK, RequestsOK, Behind, AllNamed, Addressed,
       OneNet, FormNet
  <2> QED
    BY <2>1, <2>2
<1> QED
  BY <1>1, <1>2, PTL DEF Spec

\* No way through onboarding gives a session without the three disclosures.
THEOREM NoneUnacknowledged == Spec => []Acknowledged
<1>1. IInv => Acknowledged
  BY DEF IInv, Behind, Acknowledged, Onboarding
<1> QED
  BY <1>1, Invariant, PTL

\* The node of a session serves the network of its pool.
THEOREM NodeServesPool == Spec => []RpcServesPool
<1>1. IInv => RpcServesPool
  BY DEF IInv, OneNet, RpcServesPool, Onboarding
<1> QED
  BY <1>1, Invariant, PTL

\* A save stores the network the wallet said it is on.
THEOREM SavesItsNetwork == Spec => SavesWhereConnected
<1>1. ASSUME IInv, Save, form.chain # None, form.over # "pool", ~form.moved
      PROVE  {config'.rpc, config'.pool} = {chain}
  <2>1. form # None /\ form.rpc = form.pool /\ form.net = form.rpc /\ form.chain = chain
    BY <1>1 DEF Save, IInv, FormNet
  <2>2. form.chain = form.net
    BY <1>1 DEF Save, WalletReady, Mismatch
  <2>3. config'.rpc = form.rpc /\ config'.pool = form.pool
    BY <1>1 DEF Save
  <2> QED
    BY <2>1, <2>2, <2>3
<1>2. IInv /\ [Next]_vars =>
        [Save /\ form.chain # None /\ form.over # "pool" /\ ~form.moved
           => {config'.rpc, config'.pool} = {chain}]_vars
  BY <1>1
<1> QED
  BY <1>2, Invariant, PTL DEF Spec, SavesWhereConnected

-----------------------------------------------------------------------------
(***************************************************************************)
(* Groups: what a thread shows was written by the member it is shown       *)
(* under, and a message goes to the group it was typed in, for every       *)
(* number of browsers, names, keys and messages.                           *)
(*                                                                         *)
(* The invariant follows a message on its way: typed (outbox), grouped by  *)
(* lane (batch, split), sealed (tx), stored (lane).  At each place it is   *)
(* of the browser it is with, for a lane of that browser, and, unless its  *)
(* name has passed to another group, for a lane of the group it was typed  *)
(* in; while it waits, its name stands for that group.                     *)
(***************************************************************************)
Message == [n : Nat, to : Names, view : Keys, by : Users]
Piece == [lane : Lane, msgs : SUBSET Message]
Split == [lane : Lane, memo : Message]
Tx == [lane : Lane, at : Nat, msgs : Seq(Message),
       state : {"proving", "submitted", "landed", "reverted"}]

ListsOK ==
    /\ groups \in [Users -> SUBSET Group] /\ invites \subseteq Group
    /\ \A u \in Users : \A g, h \in groups[u] : g.name = h.name => g = h
SendingOK ==
    /\ outbox \in [Users -> SUBSET Message]
    /\ batch \in [Users -> SUBSET Piece]
    /\ split \in [Users -> {NoWork} \cup Split]
    /\ tx \in [Users -> [Works -> {NoWork} \cup Tx]]
FiniteOK == \A u \in Users :
    IsFiniteSet(outbox[u]) /\ \A p \in batch[u] : IsFiniteSet(p.msgs)
ChainOK ==
    /\ lane \in [Lane -> Seq(Message)]
    /\ read \in [Users -> [Lane -> Nat]]
    /\ \A u \in Users, l \in Lane : read[u][l] <= Len(lane[l])
    /\ written \in Nat

\* m is with u for lane l, of the group it was typed in.
For(u, l, m) == m.by = u /\ l[2] = u /\ (m.n \in moved \/ m.view = l[1])

Waiting == \A u \in Users : \A e \in outbox[u] :
    /\ e.by = u
    /\ \E g \in groups[u] : g.name = e.to /\ (e.n \in moved \/ e.view = g.key)
InBatch == \A u \in Users : \A p \in batch[u] : \A m \in p.msgs : For(u, p.lane, m)
InSplit == \A u \in Users : split[u] # NoWork => For(u, split[u].lane, split[u].memo)
InTx == \A u \in Users, w \in Works :
    tx[u][w] # NoWork =>
        \A i \in DOMAIN tx[u][w].msgs : For(u, tx[u][w].lane, tx[u][w].msgs[i])
OnLane == \A l \in Lane : \A i \in DOMAIN lane[l] : For(l[2], l, lane[l][i])

GroupsInv ==
    /\ ListsOK /\ SendingOK /\ FiniteOK /\ ChainOK
    /\ Waiting /\ InBatch /\ InSplit /\ InTx /\ OnLane

-----------------------------------------------------------------------------
\* An entry is a message for a lane of its writer in the group it is typed in.
LEMMA EntryIsFor ==
  ASSUME NEW u \in Users, NEW g \in Group, written \in Nat
  PROVE  /\ Entry(u, g) \in Message
         /\ LaneKey(g.key, u) \in Lane
         /\ For(u, LaneKey(g.key, u), Entry(u, g))
BY DEF Entry, Message, LaneKey, Lane, For, Group

\* Init establishes the invariant.
LEMMA GroupsInitOK == GroupsInit => GroupsInv
<1> SUFFICES ASSUME GroupsInit PROVE GroupsInv
  OBVIOUS
<1>1. ListsOK
  BY DEF GroupsInit, ListsOK
<1>2. SendingOK
  BY DEF GroupsInit, SendingOK
<1>3. ChainOK
  <2>1. \A l \in Lane : lane[l] = <<>> /\ Len(lane[l]) = 0
    BY DEF GroupsInit
  <2> QED
    BY <2>1 DEF GroupsInit, ChainOK
<1>4. Waiting /\ InBatch /\ InSplit /\ InTx
  BY DEF GroupsInit, Waiting, InBatch, InSplit, InTx
<1>5. OnLane
  BY DEF GroupsInit, OnLane
<1>6. FiniteOK
  BY FS_EmptySet DEF GroupsInit, FiniteOK
<1> QED
  BY <1>1, <1>2, <1>3, <1>4, <1>5, <1>6 DEF GroupsInv

\* The name passes: what waits under it is of the new group or counted as moved.
LEMMA KeepOK ==
  ASSUME GroupsInv, NEW u \in Users, NEW g \in Group, Keep(u, g)
  PROVE  GroupsInv'
<1> USE DEF GroupsInv, For
<1>1. ListsOK'
  BY DEF Keep, ListsOK, Put
<1>2. SendingOK' /\ FiniteOK' /\ ChainOK'
  BY DEF Keep, sending, SendingOK, FiniteOK, ChainOK
<1>3. moved \subseteq moved'
  BY DEF Keep
<1>4. Waiting'
  <2> SUFFICES ASSUME NEW v \in Users, NEW e \in outbox[v]
               PROVE  /\ e.by = v
                      /\ \E h \in groups'[v] : h.name = e.to /\ (e.n \in moved' \/ e.view = h.key)
    BY DEF Keep, sending, Waiting
  <2>1. PICK h \in groups[v] : h.name = e.to /\ (e.n \in moved \/ e.view = h.key)
    BY DEF Waiting
  <2>2. CASE v # u \/ h.name # g.name
    <3>1. h \in groups'[v]
      BY <2>2 DEF Keep, ListsOK, Put
    <3> QED
      BY <3>1, <2>1, <1>3 DEF Waiting
  <2>3. CASE v = u /\ h.name = g.name
    <3>1. g \in groups'[v]
      BY <2>3 DEF Keep, ListsOK, Put
    <3>2. e.view = g.key \/ e.n \in moved'
      BY <2>1, <2>3 DEF Keep
    <3> QED
      BY <3>1, <3>2, <2>1, <2>3 DEF Waiting
  <2> QED
    BY <2>2, <2>3
<1>5. InBatch' /\ InSplit' /\ InTx' /\ OnLane'
  BY <1>3 DEF Keep, sending, InBatch, InSplit, InTx, OnLane
<1> QED
  BY <1>1, <1>2, <1>4, <1>5

LEMMA QueueOK ==
  ASSUME GroupsInv, NEW u \in Users, NEW g \in groups[u], QueueToGroup(u, g)
  PROVE  GroupsInv'
<1> USE DEF GroupsInv
<1>1. g \in Group
  BY DEF ListsOK
<1>2. Entry(u, g) \in Message
  BY <1>1, EntryIsFor DEF ChainOK
<1>3. ListsOK' /\ ChainOK'
  BY DEF QueueToGroup, lists, ListsOK, ChainOK
<1>4. SendingOK'
  BY <1>2 DEF QueueToGroup, SendingOK
<1>5. Waiting'
  <2> SUFFICES ASSUME NEW v \in Users, NEW e \in outbox'[v]
               PROVE  /\ e.by = v
                      /\ \E h \in groups[v] : h.name = e.to /\ (e.n \in moved \/ e.view = h.key)
    BY DEF QueueToGroup, lists, Waiting
  <2>1. e \in outbox[v] \/ (v = u /\ e = Entry(u, g))
    BY DEF QueueToGroup, SendingOK
  <2>2. CASE e \in outbox[v]
    BY <2>2 DEF Waiting
  <2>3. CASE v = u /\ e = Entry(u, g)
    BY <2>3 DEF Entry
  <2> QED
    BY <2>1, <2>2, <2>3
<1>6. InBatch' /\ InSplit' /\ InTx' /\ OnLane'
  BY DEF QueueToGroup, For, InBatch, InSplit, InTx, OnLane
<1>7. FiniteOK'
  <2>1. IsFiniteSet(outbox[u] \cup {Entry(u, g)})
    BY FS_AddElement DEF FiniteOK
  <2>2. \A v \in Users : outbox'[v] = outbox[v] \/ outbox'[v] = outbox[u] \cup {Entry(u, g)}
    BY DEF QueueToGroup, SendingOK
  <2> QED
    BY <2>1, <2>2 DEF QueueToGroup, FiniteOK
<1> QED
  BY <1>3, <1>4, <1>5, <1>6, <1>7

\* The names stand for the groups the messages were typed in.
LEMMA PiecesFor ==
  ASSUME GroupsInv, NEW u \in Users, NEW p \in Pieces(u)
  PROVE  p \in Piece /\ IsFiniteSet(p.msgs) /\ \A m \in p.msgs : For(u, p.lane, m)
<1>1. PICK name \in {e.to : e \in outbox[u]} :
        p = [lane |-> LaneKey(Named(u, name).key, u), msgs |-> {e \in outbox[u] : e.to = name}]
  BY DEF Pieces
<1>2. PICK f \in outbox[u] : f.to = name
  BY <1>1
<1>3. Named(u, name) \in groups[u] /\ Named(u, name).name = name
  BY <1>2 DEF GroupsInv, Waiting, Named
<1>4. Named(u, name) \in Group
  BY <1>3 DEF GroupsInv, ListsOK
<1>5. p \in Piece
  BY <1>1, <1>4 DEF Piece, Group, LaneKey, Lane, GroupsInv, SendingOK
<1>6. ASSUME NEW m \in p.msgs PROVE For(u, p.lane, m)
  <2>1. m \in outbox[u] /\ m.to = name
    BY <1>1
  <2>2. PICK h \in groups[u] : h.name = m.to /\ (m.n \in moved \/ m.view = h.key)
    BY <2>1 DEF GroupsInv, Waiting
  <2>3. h = Named(u, name)
    BY <2>1, <2>2, <1>3 DEF GroupsInv, ListsOK
  <2>4. m.by = u
    BY <2>1 DEF GroupsInv, Waiting
  <2>5. p.lane = <<Named(u, name).key, u>>
    BY <1>1 DEF LaneKey
  <2> QED
    BY <2>2, <2>3, <2>4, <2>5 DEF For
<1>7. IsFiniteSet(p.msgs)
  <2>1. IsFiniteSet(outbox[u]) /\ p.msgs \subseteq outbox[u]
    BY <1>1 DEF GroupsInv, FiniteOK
  <2> QED
    BY <2>1, FS_Subset
<1> QED
  BY <1>5, <1>6, <1>7

LEMMA SendBatchOK ==
  ASSUME GroupsInv, NEW u \in Users, SendBatch(u)
  PROVE  GroupsInv'
<1> USE DEF GroupsInv
<1>1. \A p \in Pieces(u) : p \in Piece /\ IsFiniteSet(p.msgs) /\ \A m \in p.msgs : For(u, p.lane, m)
  BY PiecesFor
<1>2. batch' \in [Users -> SUBSET Piece]
  BY <1>1 DEF SendBatch, SendingOK
<1>3. ListsOK' /\ SendingOK' /\ ChainOK'
  BY <1>2 DEF SendBatch, lists, ListsOK, SendingOK, ChainOK
<1>4. InBatch'
  <2> SUFFICES ASSUME NEW v \in Users, NEW p \in batch'[v], NEW m \in p.msgs
               PROVE  For(v, p.lane, m)
    BY DEF SendBatch, InBatch, For
  <2>1. CASE v = u
    BY <1>1, <2>1 DEF SendBatch, SendingOK
  <2>2. CASE v # u
    BY <2>2 DEF SendBatch, SendingOK, InBatch
  <2> QED
    BY <2>1, <2>2
<1>5. Waiting' /\ InSplit' /\ InTx' /\ OnLane'
  BY DEF SendBatch, lists, For, Waiting, InSplit, InTx, OnLane
<1>6. FiniteOK'
  BY <1>1 DEF SendBatch, SendingOK, FiniteOK
<1> QED
  BY <1>3, <1>4, <1>5, <1>6

\* A sealed transaction carries messages for its lane.
LEMMA SealsOK ==
  ASSUME GroupsInv, NEW u \in Users, NEW w \in Works, NEW l \in Lane, NEW msgs \in Seq(Message),
         \A i \in DOMAIN msgs : For(u, l, msgs[i]),
         Seals(u, w, l, msgs), batch' = batch,
         split' = split \/ split' = [split EXCEPT ![u] = NoWork]
  PROVE  GroupsInv'
<1> USE DEF GroupsInv
<1>1. Len(lane[l]) \in Nat
  BY DEF ChainOK
<1>2. ListsOK' /\ ChainOK'
  BY DEF Seals, lists, ListsOK, ChainOK
<1>3. SendingOK'
  <2> DEFINE t == [lane |-> l, at |-> Len(lane[l]), msgs |-> msgs, state |-> "proving"]
  <2>1. t \in Tx
    BY <1>1 DEF Tx
  <2>2. tx' = [tx EXCEPT ![u][w] = t]
    BY DEF Seals
  <2>3. tx' \in [Users -> [Works -> {NoWork} \cup Tx]]
    BY <2>1, <2>2 DEF SendingOK
  <2>4. split' \in [Users -> {NoWork} \cup Split]
    BY DEF SendingOK
  <2> QED
    BY <2>3, <2>4 DEF Seals, SendingOK
<1>4. InTx'
  <2> SUFFICES ASSUME NEW v \in Users, NEW x \in Works, tx'[v][x] # NoWork,
                      NEW i \in DOMAIN tx'[v][x].msgs
               PROVE  For(v, tx'[v][x].lane, tx'[v][x].msgs[i])
    BY DEF Seals, InTx, For
  <2>1. CASE v = u /\ x = w
    <3>1. tx'[v][x].lane = l /\ tx'[v][x].msgs = msgs
      BY <2>1 DEF Seals, SendingOK
    <3> QED
      BY <3>1, <2>1
  <2>2. CASE ~(v = u /\ x = w)
    <3>1. tx'[v][x] = tx[v][x]
      BY <2>2 DEF Seals, SendingOK
    <3> QED
      BY <3>1 DEF InTx
  <2> QED
    BY <2>1, <2>2
<1>5. InSplit'
  BY DEF Seals, SendingOK, InSplit, For
<1>6. Waiting' /\ FiniteOK' /\ InBatch' /\ OnLane'
  BY DEF Seals, lists, For, Waiting, FiniteOK, InBatch, OnLane
<1> QED
  BY <1>2, <1>3, <1>4, <1>5, <1>6

LEMMA SealBatchOK ==
  ASSUME GroupsInv, NEW u \in Users, SealBatch(u)
  PROVE  GroupsInv'
<1>1. PICK p \in batch[u] : \E msgs \in OldestFirst(p.msgs) : Seals(u, "batch", p.lane, msgs)
  BY DEF SealBatch
<1>2. PICK msgs \in OldestFirst(p.msgs) : Seals(u, "batch", p.lane, msgs)
  BY <1>1
<1>3. p \in Piece /\ Cardinality(p.msgs) \in Nat /\ \A m \in p.msgs : For(u, p.lane, m)
  BY FS_CardinalityType DEF GroupsInv, SendingOK, FiniteOK, InBatch
<1>4. msgs \in [1..Cardinality(p.msgs) -> p.msgs]
  BY DEF OldestFirst
<1>5. p.lane \in Lane /\ p.msgs \subseteq Message
  BY <1>3 DEF Piece
<1>6. msgs \in Seq(p.msgs)
  BY <1>3, <1>4
<1>7. msgs \in Seq(Message) /\ \A i \in DOMAIN msgs : msgs[i] \in p.msgs
  BY <1>5, <1>6
<1> QED
  BY <1>2, <1>3, <1>5, <1>7, SealsOK DEF SealBatch, Works

LEMMA PayGroupOK ==
  ASSUME GroupsInv, NEW u \in Users, NEW g \in groups[u], PayGroup(u, g)
  PROVE  GroupsInv'
<1> USE DEF GroupsInv
<1>1. g \in Group
  BY DEF ListsOK
<1> DEFINE s == [lane |-> LaneKey(g.key, u), memo |-> Entry(u, g)]
<1>2. s \in Split /\ For(u, s.lane, s.memo)
  BY <1>1, EntryIsFor DEF ChainOK, Split
<1>3. split' = [split EXCEPT ![u] = s]
  BY DEF PayGroup
<1> HIDE DEF s
<1>4. ListsOK' /\ ChainOK'
  BY DEF PayGroup, lists, ListsOK, ChainOK
<1>5. SendingOK'
  BY <1>2, <1>3 DEF PayGroup, SendingOK
<1>6. InSplit'
  BY <1>2, <1>3 DEF PayGroup, SendingOK, InSplit, For
<1>7. Waiting' /\ FiniteOK' /\ InBatch' /\ InTx' /\ OnLane'
  BY DEF PayGroup, lists, For, Waiting, FiniteOK, InBatch, InTx, OnLane
<1> QED
  BY <1>4, <1>5, <1>6, <1>7

LEMMA SealSplitOK ==
  ASSUME GroupsInv, NEW u \in Users, SealSplit(u)
  PROVE  GroupsInv'
<1>1. split[u] \in Split /\ For(u, split[u].lane, split[u].memo)
  BY DEF SealSplit, GroupsInv, SendingOK, InSplit
<1>2. split[u].lane \in Lane /\ split[u].memo \in Message
  BY <1>1 DEF Split
<1>3. <<split[u].memo>> \in Seq(Message)
  BY <1>2
<1>4. \A i \in DOMAIN <<split[u].memo>> : For(u, split[u].lane, <<split[u].memo>>[i])
  BY <1>1
<1> QED
  BY <1>2, <1>3, <1>4, SealsOK DEF SealSplit, Works

LEMMA SplitRefusedOK ==
  ASSUME GroupsInv, NEW u \in Users, SplitRefused(u)
  PROVE  GroupsInv'
BY DEF SplitRefused, lists, GroupsInv, For, ListsOK, SendingOK, FiniteOK, ChainOK, Waiting, InBatch, InSplit, InTx, OnLane

\* A transaction that only changes its state.
LEMMA StateOK ==
  ASSUME GroupsInv, NEW u \in Users, NEW w \in Works, tx[u][w] # NoWork,
         NEW s \in {"submitted", "landed", "reverted"},
         tx' = [tx EXCEPT ![u][w].state = s]
  PROVE  /\ tx' \in [Users -> [Works -> {NoWork} \cup Tx]]
         /\ \A v \in Users, x \in Works :
               tx'[v][x] # NoWork =>
                  tx[v][x] # NoWork /\ tx'[v][x].lane = tx[v][x].lane /\ tx'[v][x].msgs = tx[v][x].msgs
<1>1. tx[u][w] \in Tx
  BY DEF GroupsInv, SendingOK
<1>2. [tx[u][w] EXCEPT !.state = s] \in Tx
  BY <1>1 DEF Tx
<1>3. tx' = [tx EXCEPT ![u] = [tx[u] EXCEPT ![w] = [tx[u][w] EXCEPT !.state = s]]]
  BY DEF GroupsInv, SendingOK
<1>4. tx' \in [Users -> [Works -> {NoWork} \cup Tx]]
  BY <1>2, <1>3 DEF GroupsInv, SendingOK
<1>5. ASSUME NEW v \in Users, NEW x \in Works, tx'[v][x] # NoWork
      PROVE  tx[v][x] # NoWork /\ tx'[v][x].lane = tx[v][x].lane /\ tx'[v][x].msgs = tx[v][x].msgs
  <2>1. CASE v = u /\ x = w
    <3>1. tx'[v][x] = [tx[u][w] EXCEPT !.state = s]
      BY <2>1, <1>3 DEF GroupsInv, SendingOK
    <3> QED
      BY <3>1, <2>1, <1>1 DEF Tx
  <2>2. CASE ~(v = u /\ x = w)
    BY <2>2, <1>3, <1>5 DEF GroupsInv, SendingOK
  <2> QED
    BY <2>1, <2>2
<1> QED
  BY <1>4, <1>5

LEMMA SealedOK ==
  ASSUME GroupsInv, NEW u \in Users, NEW w \in Works, Submitted(u, w)
  PROVE  GroupsInv'
<1>1. /\ tx' \in [Users -> [Works -> {NoWork} \cup Tx]]
      /\ \A v \in Users, x \in Works :
            tx'[v][x] # NoWork =>
               tx[v][x] # NoWork /\ tx'[v][x].lane = tx[v][x].lane /\ tx'[v][x].msgs = tx[v][x].msgs
  BY StateOK DEF Submitted, In
<1>2. InTx'
  BY <1>1 DEF Submitted, GroupsInv, InTx, For
<1> QED
  BY <1>1, <1>2 DEF Submitted, lists, GroupsInv, For, ListsOK, SendingOK, FiniteOK, ChainOK, Waiting, InBatch, InSplit, OnLane

\* What a lane holds after an append was there or is appended.
LEMMA AppendsOK ==
  ASSUME NEW S, NEW s \in Seq(S), NEW t \in Seq(S)
  PROVE  /\ s \o t \in Seq(S) /\ Len(s \o t) >= Len(s)
         /\ \A i \in DOMAIN (s \o t) :
               (i \in DOMAIN s /\ (s \o t)[i] = s[i]) \/ \E j \in DOMAIN t : (s \o t)[i] = t[j]
<1>1. s \o t \in Seq(S) /\ Len(s \o t) = Len(s) + Len(t) /\ Len(s) \in Nat /\ Len(t) \in Nat
  OBVIOUS
<1>2. ASSUME NEW i \in DOMAIN (s \o t), i > Len(s)
      PROVE  \E j \in DOMAIN t : (s \o t)[i] = t[j]
  <2>1. i \in 1..(Len(s) + Len(t)) /\ i - Len(s) \in DOMAIN t
    BY <1>1, <1>2
  <2> QED
    BY <2>1, <1>1, <1>2
<1>3. ASSUME NEW i \in DOMAIN (s \o t), ~(i > Len(s))
      PROVE  i \in DOMAIN s /\ (s \o t)[i] = s[i]
  BY <1>1, <1>3
<1> QED
  BY <1>1, <1>2, <1>3

\* What is stored was sealed for that lane.
LEMMA LandOK ==
  ASSUME GroupsInv, NEW u \in Users, NEW w \in Works, Land(u, w)
  PROVE  GroupsInv'
<1> USE DEF GroupsInv
<1> DEFINE t == tx[u][w]
<1>1. t \in Tx /\ t # NoWork
  BY DEF Land, In, SendingOK
<1>2. PICK s \in {"landed", "reverted"} : tx' = [tx EXCEPT ![u][w].state = s]
  BY DEF Land
<1>3. /\ tx' \in [Users -> [Works -> {NoWork} \cup Tx]]
      /\ \A v \in Users, x \in Works :
            tx'[v][x] # NoWork =>
               tx[v][x] # NoWork /\ tx'[v][x].lane = tx[v][x].lane /\ tx'[v][x].msgs = tx[v][x].msgs
  BY <1>1, <1>2, StateOK
<1>4. InTx'
  BY <1>3 DEF Land, InTx, For
<1>5. ListsOK' /\ SendingOK'
  BY <1>3 DEF Land, lists, ListsOK, SendingOK
<1>6. ChainOK' /\ OnLane'
  <2>1. CASE UNCHANGED lane
    BY <2>1 DEF Land, ChainOK, OnLane, For
  <2>2. CASE lane' = [lane EXCEPT ![t.lane] = @ \o t.msgs]
    <3>1. t.lane \in Lane /\ t.msgs \in Seq(Message) /\ lane[t.lane] \in Seq(Message)
      BY <1>1 DEF Tx, ChainOK
    <3> DEFINE longer == lane[t.lane] \o t.msgs
    <3>2. longer \in Seq(Message) /\ Len(longer) >= Len(lane[t.lane])
      BY <3>1, AppendsOK
    <3>3. \A i \in DOMAIN longer :
              (i \in DOMAIN lane[t.lane] /\ longer[i] = lane[t.lane][i])
                \/ \E j \in DOMAIN t.msgs : longer[i] = t.msgs[j]
      <4> DEFINE old == lane[t.lane]
                 msgs == t.msgs
      <4>1. old \in Seq(Message) /\ msgs \in Seq(Message)
        BY <3>1
      <4> HIDE DEF old, msgs, t
      <4>2. \A i \in DOMAIN (old \o msgs) :
              (i \in DOMAIN old /\ (old \o msgs)[i] = old[i])
                \/ \E j \in DOMAIN msgs : (old \o msgs)[i] = msgs[j]
        BY <4>1, AppendsOK
      <4> QED
        BY <4>2 DEF old, msgs
    <3>4. lane' = [lane EXCEPT ![t.lane] = longer]
      BY <2>2
    <3> HIDE DEF longer
    <3>5. lane' \in [Lane -> Seq(Message)] /\ \A l \in Lane : Len(lane'[l]) >= Len(lane[l])
      <4>1. lane \in [Lane -> Seq(Message)]
        BY DEF ChainOK
      <4>2. \A l \in Lane : lane'[l] = IF l = t.lane THEN longer ELSE lane[l]
        BY <4>1, <3>4
      <4>3. \A l \in Lane : Len(lane[l]) \in Nat
        BY <4>1
      <4>4. lane' \in [Lane -> Seq(Message)]
        BY <4>1, <3>2, <3>4
      <4>5. ASSUME NEW l \in Lane PROVE Len(lane'[l]) >= Len(lane[l])
        <5>1. CASE l = t.lane
          BY <5>1, <4>2, <3>2
        <5>2. CASE l # t.lane
          BY <5>2, <4>2, <4>3
        <5> QED
          BY <5>1, <5>2
      <4> QED
        BY <4>4, <4>5
    <3>6. ChainOK'
      <4> SUFFICES ASSUME NEW v \in Users, NEW l \in Lane PROVE read[v][l] <= Len(lane'[l])
        BY <3>5 DEF Land, ChainOK
      <4>1. read[v][l] \in Nat /\ read[v][l] <= Len(lane[l]) /\ Len(lane[l]) \in Nat /\ Len(lane'[l]) \in Nat
        BY <3>5 DEF ChainOK
      <4> QED
        BY <4>1, <3>5
    <3>7. ASSUME NEW l \in Lane, NEW i \in DOMAIN lane'[l] PROVE For(l[2], l, lane'[l][i])
      <4>1. CASE l # t.lane
        BY <4>1, <3>4, <3>7 DEF ChainOK, OnLane
      <4>2. CASE l = t.lane
        <5>1. lane'[l] = longer
          BY <4>2, <3>4, <3>1 DEF ChainOK
        <5>2. \/ i \in DOMAIN lane[l] /\ lane'[l][i] = lane[l][i]
              \/ \E j \in DOMAIN t.msgs : lane'[l][i] = t.msgs[j]
          BY <5>1, <4>2, <3>7, <3>3
        <5>3. l[2] = u \/ DOMAIN t.msgs = {}
          BY <1>1, <4>2 DEF InTx, For
        <5>4. \A j \in DOMAIN t.msgs : For(u, l, t.msgs[j])
          BY <1>1, <4>2 DEF InTx
        <5> QED
          BY <5>2, <5>3, <5>4 DEF OnLane
      <4> QED
        BY <4>1, <4>2
    <3> QED
      BY <3>6, <3>7 DEF OnLane, For, Land
  <2> QED
    BY <2>1, <2>2 DEF Land
<1>7. Waiting' /\ FiniteOK' /\ InBatch' /\ InSplit'
  BY DEF Land, lists, For, Waiting, FiniteOK, InBatch, InSplit
<1> QED
  BY <1>4, <1>5, <1>6, <1>7

\* An operation that ends leaves less behind.
LEMMA EndsOK ==
  ASSUME GroupsInv, NEW u \in Users, NEW w \in Works, Ends(u, w),
         outbox' \in [Users -> SUBSET Message], \A v \in Users : outbox'[v] \subseteq outbox[v],
         batch' \in [Users -> SUBSET Piece], \A v \in Users : batch'[v] \subseteq batch[v]
  PROVE  GroupsInv'
<1> USE DEF GroupsInv
<1>1. ListsOK' /\ ChainOK'
  BY DEF Ends, lists, ListsOK, ChainOK
<1>2. SendingOK'
  BY DEF Ends, SendingOK
<1>3. \A v \in Users, x \in Works : tx'[v][x] # NoWork => tx'[v][x] = tx[v][x]
  BY DEF Ends, SendingOK
<1>4. InTx'
  BY <1>3 DEF Ends, InTx, For
<1>5. Waiting' /\ InBatch' /\ InSplit' /\ OnLane'
  BY DEF Ends, lists, For, Waiting, InBatch, InSplit, OnLane
<1>6. FiniteOK'
  BY FS_Subset DEF FiniteOK
<1> QED
  BY <1>1, <1>2, <1>4, <1>5, <1>6

LEMMA ConfirmOK ==
  ASSUME GroupsInv, NEW u \in Users, NEW w \in Works, Confirm(u, w)
  PROVE  GroupsInv'
<1>1. outbox' \in [Users -> SUBSET Message] /\ \A v \in Users : outbox'[v] \subseteq outbox[v]
  BY DEF Confirm, GroupsInv, SendingOK
<1>2. batch' \in [Users -> SUBSET Piece] /\ \A v \in Users : batch'[v] \subseteq batch[v]
  BY DEF Confirm, GroupsInv, SendingOK
<1> QED
  BY <1>1, <1>2, EndsOK DEF Confirm

LEMMA FailsOK ==
  ASSUME GroupsInv, NEW u \in Users, NEW w \in Works, Fails(u, w)
  PROVE  GroupsInv'
<1>1. batch' \in [Users -> SUBSET Piece] /\ \A v \in Users : batch'[v] \subseteq batch[v]
  BY DEF Fails, GroupsInv, SendingOK
<1>2. outbox' \in [Users -> SUBSET Message] /\ \A v \in Users : outbox'[v] \subseteq outbox[v]
  BY DEF Fails, GroupsInv, SendingOK
<1> QED
  BY <1>1, <1>2, EndsOK DEF Fails

LEMMA GroupsSyncOK ==
  ASSUME GroupsInv, NEW u \in Users, NEW l \in Lane, Sync(u, l)
  PROVE  GroupsInv'
<1>1. ChainOK'
  BY DEF Sync, GroupsInv, ChainOK
<1> QED
  BY <1>1 DEF Sync, lists, sending, GroupsInv, For, ListsOK, SendingOK, FiniteOK, Waiting, InBatch, InSplit, InTx, OnLane

\* Every step of every browser preserves the invariant.
LEMMA GroupsNextOK == GroupsInv /\ [GroupsNext]_groupsVars => GroupsInv'
<1> SUFFICES ASSUME GroupsInv, [GroupsNext]_groupsVars PROVE GroupsInv'
  OBVIOUS
<1>1. CASE UNCHANGED groupsVars
  BY <1>1 DEF groupsVars, lists, sending, GroupsInv, For, ListsOK, SendingOK, FiniteOK, ChainOK, Waiting, InBatch, InSplit, InTx, OnLane
<1>2. ASSUME NEW u \in Users, NEW name \in Names, NEW others \in Circles, CreateGroup(u, name, others)
      PROVE  GroupsInv'
  <2>1. PICK key \in Keys : Keep(u, [name |-> name, key |-> key, members |-> {u} \cup others])
    BY <1>2 DEF CreateGroup
  <2>2. [name |-> name, key |-> key, members |-> {u} \cup others] \in Group
    BY GroupsAssumption DEF Group
  <2> QED
    BY <2>1, <2>2, KeepOK
<1>3. ASSUME NEW u \in Users, NEW g \in invites, JoinGroup(u, g) PROVE GroupsInv'
  <2>1. g \in Group
    BY DEF GroupsInv, ListsOK
  <2> QED
    BY <1>3, <2>1, KeepOK DEF JoinGroup
<1>4. ASSUME NEW u \in Users, NEW g \in groups[u], QueueToGroup(u, g) \/ PayGroup(u, g)
      PROVE  GroupsInv'
  BY <1>4, QueueOK, PayGroupOK
<1>5. ASSUME NEW u \in Users, SendBatch(u) \/ SealBatch(u) \/ SealSplit(u) \/ SplitRefused(u)
      PROVE  GroupsInv'
  BY <1>5, SendBatchOK, SealBatchOK, SealSplitOK, SplitRefusedOK
<1>6. ASSUME NEW u \in Users, NEW w \in Works,
             Submitted(u, w) \/ Land(u, w) \/ Confirm(u, w) \/ Fails(u, w)
      PROVE  GroupsInv'
  BY <1>6, SealedOK, LandOK, ConfirmOK, FailsOK
<1>7. ASSUME NEW u \in Users, NEW l \in Lane, Sync(u, l) PROVE GroupsInv'
  BY <1>7, GroupsSyncOK
<1> QED
  BY <1>1, <1>2, <1>3, <1>4, <1>5, <1>6, <1>7 DEF GroupsNext

-----------------------------------------------------------------------------
\* The invariant of every message's way, for every value of the constants.
THEOREM GroupsInvariant == GroupsSpec => []GroupsInv
<1>1. GroupsInit => GroupsInv
  BY GroupsInitOK
<1>2. GroupsInv /\ [GroupsNext]_groupsVars => GroupsInv'
  BY GroupsNextOK
<1> QED
  BY <1>1, <1>2, PTL DEF GroupsSpec

\* What a thread shows is shown under whoever wrote it.
THEOREM SendersAreShown == GroupsSpec => []SenderShown
<1>1. GroupsInv => SenderShown
  <2> SUFFICES ASSUME GroupsInv, NEW u \in Users, NEW g \in groups[u], NEW a \in Readers(g, u),
                      NEW m \in Thread(u, g, a)
               PROVE  m.by = a
    BY DEF SenderShown
  <2> DEFINE l == LaneKey(g.key, a)
  <2>1. l \in Lane /\ l[2] = a
    BY DEF GroupsInv, ListsOK, Group, Readers, LaneKey, Lane
  <2>2. PICK i \in 1..read[u][l] : m = lane[l][i]
    BY DEF Thread
  <2>3. lane[l] \in Seq(Message) /\ read[u][l] \in Nat /\ read[u][l] <= Len(lane[l])
    BY <2>1 DEF GroupsInv, ChainOK
  <2>4. i \in DOMAIN lane[l]
    BY <2>2, <2>3
  <2> QED
    BY <2>1, <2>2, <2>4 DEF GroupsInv, OnLane, For
<1> QED
  BY <1>1, GroupsInvariant, PTL

\* A message goes to the group it was typed in.
THEOREM MessagesGoRight == GroupsSpec => []RightGroup
<1>1. GroupsInv => RightGroup
  <2> SUFFICES ASSUME GroupsInv, NEW l \in Lane, NEW m \in Range(lane[l])
               PROVE  m.n \in moved \/ m.view = l[1]
    BY DEF RightGroup
  <2>1. PICK i \in DOMAIN lane[l] : m = lane[l][i]
    BY DEF Range
  <2> QED
    BY <2>1 DEF GroupsInv, OnLane, For
<1> QED
  BY <1>1, GroupsInvariant, PTL
=============================================================================
