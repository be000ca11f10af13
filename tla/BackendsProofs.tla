--------------------------- MODULE BackendsProofs ---------------------------
(***************************************************************************)
(* Proofs about Backends: the calls of every backend keep the promise of   *)
(* Submission, a message takes effect once, the pool's fee is in the       *)
(* allowance and the account backs its gas ceilings, for all fees, prices, *)
(* balances, amounts and numbers of calls.                                 *)
(*                                                                         *)
(* The invariant counts effects by transactions: one-shot and fallback     *)
(* each take effect at most once, as a request leaves the wallet's hands   *)
(* when it is submitted, and the fallback is not asked for before the      *)
(* one-shot was answered.  What carries a message took effect exactly when *)
(* its slot is the call's own.                                             *)
(***************************************************************************)
EXTENDS Backends, TLAPS

Names == {"batch", "pay", "shield", "register"}
Ended == {"idle", "resolved", "rejected"}
Before == {"proving", "applying", "execute", "approve", "fee", "prove", "bounds", "post", "ask"}
After == {"receipt", "racing", "looking", "probing"}
Announces == {"applying", "receipt", "looking", "resolved"}
Outcomes == {"none", "oneshot", "prepare", "fallback", "ok", "failed"}
Calls ==
    [at : Ended \cup Before \cup After, kind : Names, token : Tokens, amount : Amounts \cup {0},
     carrier : {0, 1}, announced : BOOLEAN, unapproved : BOOLEAN,
     have : Nat, ceiling : Int, route : Routes]

ConfigOK == mode \in Modes /\ fee \in Nat
CallOK == call \in Calls /\ CeilingBacked
AllowanceOK == allowance \in [Tokens -> Nat]
ChainOK ==
    /\ slot \in {"free", "mine", "other"}
    /\ txs \in [Routes -> {"none", "pending", "ok", "reverted"}]
WalletOK == w.at \in Outcomes /\ prompts \subseteq Routes

\* Which backend makes which steps.
Own ==
    /\ call.at \in {"proving", "applying"} <=> mode = "demo" /\ call.at \notin Ended
    /\ call.at \in {"ask", "racing", "looking", "probing"} => mode = "wallet"
    /\ call.at = "execute" => mode = "direct"
    /\ call.kind = "register" => mode = "pool"

\* Nothing has been handed in before it is; a request is acted on once.
Handed ==
    /\ call.at \in Before \cup {"idle"} =>
          txs["oneshot"] = "none" /\ txs["fallback"] = "none" /\ prompts = {} /\ w.at = "none"
    /\ mode # "wallet" => txs["fallback"] = "none" /\ prompts = {} /\ w.at = "none"
    /\ mode = "demo" => txs["oneshot"] = "none"
    /\ \A r \in prompts : txs[r] = "none"
    /\ w.at \in {"none", "oneshot", "prepare"} => txs["fallback"] = "none" /\ "fallback" \notin prompts

\* Effects are counted by transactions, or by the demo's one application.
One(r) == IF txs[r] = "ok" THEN 1 ELSE 0
Counted ==
    /\ mode # "demo" => landed = One("oneshot") + One("fallback")
    /\ mode = "demo" =>
          /\ landed \in {0, 1}
          /\ call.at \in {"idle", "proving", "applying"} => landed = 0

\* What carries a message took effect exactly when the slot is its own.
Carried ==
    /\ Carries => (landed = 0 /\ slot # "mine") \/ (landed = 1 /\ slot = "mine")
    /\ ~Carries => slot = "free"

\* Announced once, and before it resolves.
AnnouncedOnce ==
    /\ call.at \in Announces => call.announced
    /\ call.announced => call.at \in Announces \cup {"rejected"}

\* The fee is in the allowance from its approval to the transaction.
FeeThere == Pulling /\ call.kind # "shield" =>
    /\ call.at \in {"prove", "bounds", "post"} => allowance[Strk] >= fee
    /\ txs["oneshot"] = "pending" => allowance[Strk] >= fee

IInv ==
    /\ ConfigOK /\ CallOK /\ AllowanceOK /\ ChainOK /\ WalletOK
    /\ Own /\ Handed /\ Counted /\ Carried /\ AnnouncedOnce /\ FeeThere

-----------------------------------------------------------------------------
(* Arithmetic of the ceilings and of the approvals.                        *)

LEMMA Quotient ==
  ASSUME NEW x \in Nat, NEW l \in Nat \ {0}
  PROVE  x \div l \in Nat /\ (x \div l) * l <= x
OBVIOUS

LEMMA Monotone ==
  ASSUME NEW k \in Nat, NEW n \in Nat, NEW l \in Nat, k <= n
  PROVE  k * l \in Nat /\ n * l \in Nat /\ k * l <= n * l
OBVIOUS

\* A ceiling that is signed is backed by the balance.
LEMMA CeilingFits ==
  ASSUME NEW have \in Nat, NEW l2 \in Nat \ {0}, NEW data \in Nat,
         Affordable(have, l2, data) >= MinL2
  PROVE  Ceiling(have, l2, data) \in Int /\ Ceiling(have, l2, data) <= have
<1> DEFINE n == Affordable(have, l2, data)
           k == L2Bound(have, l2, data)
           b == Budget(have, data)
           d == L1Data * data
<1>1. d \in Nat /\ MinL2 \in Nat /\ MinL2 > 0 /\ MaxL2 \in Nat
  BY BackendsAssumption
<1>2. (have * 95) \div 100 \in Nat /\ (have * 95) \div 100 <= have
  OBVIOUS
<1>3. b = (have * 95) \div 100 - d
  BY DEF Budget
<1>4. b \in Int /\ b <= have - d
  BY <1>1, <1>2, <1>3
<1>5. b > 0 /\ n = b \div l2
  BY <1>1, <1>4 DEF Affordable
<1>6. n \in Nat /\ n * l2 <= b
  BY <1>4, <1>5, Quotient
<1>7. k \in Nat /\ k <= n
  BY <1>1, <1>6 DEF L2Bound
<1>8. k * l2 \in Nat /\ k * l2 <= n * l2 /\ n * l2 \in Nat
  BY <1>6, <1>7, Monotone
<1>9. Ceiling(have, l2, data) = k * l2 + d
  BY DEF Ceiling
<1> HIDE DEF n, k, b, d
<1> QED
  BY <1>1, <1>4, <1>6, <1>8, <1>9

LEMMA PriceType == \A p \in Nat : Price(p) \in Nat \ {0}
BY DEF Price

LEMMA AmountType == \A a : a \in Amounts \cup {0} => a \in Nat
<1>1. Amounts \subseteq Nat
  BY BackendsAssumption
<1> QED
  BY <1>1

LEMMA ApprovalEnough == \A f \in Nat : FeeTimes * f \in Nat /\ FeeTimes * f >= f
BY BackendsAssumption

-----------------------------------------------------------------------------
LEMMA InitOK == Init => IInv
<1> SUFFICES ASSUME Init PROVE IInv
  OBVIOUS
<1>1. call \in Calls
  BY DEF Init, Idle, Calls, Names, Ended, Tokens, Routes
<1>2. ConfigOK /\ CallOK /\ AllowanceOK /\ ChainOK /\ WalletOK
  BY <1>1, BackendsAssumption DEF Init, Idle, NoWallet, ConfigOK, CallOK, CeilingBacked,
     AllowanceOK, ChainOK, WalletOK, Outcomes, Routes
<1>3. Own /\ Handed /\ AnnouncedOnce
  BY <1>1 DEF Init, Idle, NoWallet, Own, Handed, AnnouncedOnce, Ended, Before, After, Announces, Routes
<1>4. Counted /\ Carried /\ FeeThere
  BY <1>1 DEF Init, Idle, Counted, One, Carried, Carries, FeeThere, Routes
<1> QED
  BY <1>2, <1>3, <1>4 DEF IInv

\* A call begins when nothing of the last one can still happen.
LEMMA BeginOK ==
  ASSUME IInv, NEW k \in Names, NEW t \in Tokens, NEW a \in Amounts \cup {0}, Begin(k, t, a)
  PROVE  IInv'
<1>1. call' \in Calls
  <2>1. First(k) \in Before
    BY DEF First, Before, IInv, ConfigOK, Modes
  <2>2. call' = [Idle EXCEPT !.at = First(k), !.kind = k, !.token = t, !.amount = a]
    BY DEF Begin
  <2>3. Idle \in Calls
    BY DEF Idle, Calls, Names, Ended, Tokens, Routes
  <2> QED
    BY <2>1, <2>2, <2>3 DEF Calls
<1>2. /\ call'.kind = k /\ ~call'.announced /\ call'.have = 0 /\ call'.ceiling = 0
      /\ call'.at = First(k)
  BY DEF Begin, Idle
<1>3. /\ First(k) \in Before \ {"prove", "bounds", "post", "applying"}
      /\ First(k) = "proving" <=> mode = "demo"
      /\ First(k) = "ask" => mode = "wallet"
      /\ First(k) = "execute" => mode = "direct"
  BY DEF First, Before, IInv, ConfigOK, Modes
<1>4. k = "register" => mode = "pool"
  BY DEF Begin, Kinds, IInv, ConfigOK, Modes
<1>5. ConfigOK' /\ CallOK' /\ AllowanceOK' /\ ChainOK' /\ WalletOK'
  BY <1>1, <1>2 DEF Begin, config, NoWallet, IInv, ConfigOK, CallOK, CeilingBacked,
     AllowanceOK, ChainOK, WalletOK, Outcomes, Routes
<1>6. Own' /\ AnnouncedOnce'
  BY <1>2, <1>3, <1>4 DEF Begin, config, Own, AnnouncedOnce, Announces, Before, Ended
<1>7. Handed'
  BY <1>2, <1>3 DEF Begin, Quiet, config, NoWallet, Handed, Routes
<1>8. Counted' /\ Carried'
  BY <1>2 DEF Begin, Counted, One, Carried, Carries, Routes
<1>9. FeeThere'
  BY <1>2, <1>3 DEF Begin, FeeThere, Routes
<1> QED
  BY <1>5, <1>6, <1>7, <1>8, <1>9 DEF IInv

-----------------------------------------------------------------------------
(* The chain and the demo's counterparty.                                  *)

LEMMA IncludeOK ==
  ASSUME IInv, NEW r \in Routes, Include(r)
  PROVE  IInv'
<1>1. CASE Reverts(r)
  <2>1. txs' = [txs EXCEPT ![r] = "reverted"] /\ txs[r] = "pending"
    BY <1>1 DEF Include, Reverts
  <2> QED
    BY <1>1, <2>1 DEF Include, Reverts, config, wallet, demo, Routes, IInv, ConfigOK, CallOK, CeilingBacked,
       AllowanceOK, ChainOK, WalletOK, Own, Handed, Counted, One, Carried, Carries, AnnouncedOnce, FeeThere, Pulling
<1>2. CASE Lands(r)
  <2>1. txs' = [txs EXCEPT ![r] = "ok"] /\ txs[r] = "pending"
    BY <1>2 DEF Include, Lands
  <2>2. AllowanceOK'
    <3>1. \A t \in Tokens : Pulls(t) \in Nat
      <4>1. fee \in Nat /\ call.amount \in Nat
        <5>1. call.amount \in Amounts \cup {0} /\ fee \in Nat
          BY DEF IInv, ConfigOK, CallOK, Calls
        <5> QED
          BY <5>1, AmountType
      <4> QED
        BY <4>1 DEF Pulls
    <3>2. Pulling => \A t \in Tokens : allowance[t] >= Pulls(t)
      BY <1>2 DEF Lands, Covered
    <3> QED
      BY <1>2, <3>1, <3>2 DEF Lands, IInv, AllowanceOK
  <2>3. mode # "demo"
    BY <2>1 DEF IInv, Handed, Routes
  <2>4. Counted'
    BY <1>2, <2>1, <2>3 DEF Include, Lands, config, IInv, ChainOK, Counted, One, Routes
  <2>5. Carried'
    BY <1>2 DEF Include, Lands, IInv, Carried, Carries
  <2>6. Handed'
    BY <1>2, <2>1, <2>3 DEF Include, config, wallet, IInv, ChainOK, Handed, Routes
  <2>7. FeeThere'
    BY <1>2, <2>1 DEF Include, Lands, config, IInv, ChainOK, Handed, FeeThere, Pulling, Routes, Before
  <2> QED
    BY <1>2, <2>1, <2>2, <2>4, <2>5, <2>6, <2>7 DEF Include, Lands, config, wallet, IInv, ConfigOK, CallOK, CeilingBacked,
       ChainOK, WalletOK, Own, Carries, AnnouncedOnce
<1> QED
  BY <1>1, <1>2 DEF Include

LEMMA OtherDeviceOK == IInv /\ OtherDevice => IInv'
BY DEF OtherDevice, config, wallet, demo, IInv, ConfigOK, CallOK, CeilingBacked,
   AllowanceOK, ChainOK, WalletOK, Own, Handed, Counted, One, Carried, Carries, AnnouncedOnce, FeeThere, Pulling

\* The call goes to a later stage and nothing else changes.
LEMMA GoOK ==
  ASSUME IInv, UNCHANGED <<config, chain>>, w'.at = w.at, prompts' = prompts,
         call' \in Calls, call'.kind = call.kind, CeilingBacked',
         call'.at \notin {"idle", "ask", "execute"}, call'.at \in Before => call.at \in Before,
         call'.at \in {"proving", "applying"} <=> mode = "demo" /\ call'.at \notin Ended,
         call'.at \in {"racing", "looking", "probing"} => mode = "wallet",
         call'.at \in Announces => call'.announced,
         call'.announced => call'.at \in Announces \cup {"rejected"},
         Pulling /\ call.kind # "shield" /\ call'.at \in {"prove", "bounds", "post"} => allowance[Strk] >= fee
  PROVE  IInv'
<1>1. Own' /\ AnnouncedOnce'
  BY DEF config, IInv, Own, AnnouncedOnce
<1>2. Handed'
  BY DEF config, chain, IInv, Handed, One
<1>3. Counted' /\ Carried'
  BY DEF config, chain, IInv, Counted, One, Carried, Carries, Before, Ended, Own
<1>4. FeeThere'
  BY DEF config, chain, IInv, FeeThere, Pulling
<1> QED
  BY <1>1, <1>2, <1>3, <1>4 DEF config, chain, IInv, ConfigOK, CallOK, AllowanceOK, ChainOK, WalletOK

-----------------------------------------------------------------------------
(* The demo, the transaction handed in, the pool's approvals and bounds.   *)

\* A stage reached with nothing but the stage changed.
LEMMA GoStage ==
  ASSUME IInv, NEW s \in Calls, UNCHANGED <<config, wallet, chain>>,
         call' = s, s.kind = call.kind, s.have = call.have, s.ceiling = call.ceiling,
         s.at \notin {"idle", "ask", "execute"}, s.at \in Before => call.at \in Before,
         s.at \in {"proving", "applying"} <=> mode = "demo" /\ s.at \notin Ended,
         s.at \in {"racing", "looking", "probing"} => mode = "wallet",
         s.at \in Announces => s.announced,
         s.announced => s.at \in Announces \cup {"rejected"},
         Pulling /\ call.kind # "shield" /\ s.at \in {"prove", "bounds", "post"} => allowance[Strk] >= fee
  PROVE  IInv'
BY GoOK DEF wallet, IInv, CallOK, CeilingBacked

LEMMA DemoOK == IInv /\ DemoNext => IInv'
<1> SUFFICES ASSUME IInv, DemoNext PROVE IInv'
  OBVIOUS
<1>1. call \in Calls
  BY DEF IInv, CallOK
<1>2. CASE Cancel
  BY <1>1, <1>2, GoStage DEF Cancel, At, Go, Calls, Ended, Before, After, Announces, IInv, Own, AnnouncedOnce
<1>3. CASE Prove
  <2> DEFINE s == [call EXCEPT !.at = "applying", !.announced = TRUE]
  <2>1. mode = "demo"
    BY <1>3 DEF Prove, At, IInv, Own
  <2>2. /\ s \in Calls /\ s.at = "applying" /\ s.announced /\ s.kind = call.kind
        /\ s.have = call.have /\ s.ceiling = call.ceiling
    BY <1>1 DEF Calls, Before
  <2>3. call' = s /\ UNCHANGED <<config, wallet, chain>> /\ call.at \in Before
    BY <1>3 DEF Prove, At, Announce, Before
  <2> HIDE DEF s
  <2> QED
    BY <2>1, <2>2, <2>3, GoStage DEF Ended, Announces, Pulling
<1>4. CASE Apply
  <2>1. mode = "demo" /\ landed = 0 /\ call.announced
    BY <1>4 DEF Apply, At, IInv, Own, Counted, AnnouncedOnce, Announces
  <2>2. CASE Refuses
    BY <1>1, <1>4, <2>1, <2>2, GoStage DEF Apply, At, Go, wallet, chain, Calls, Ended, Before, After, Announces,
       IInv, Own, AnnouncedOnce
  <2>3. CASE ~Refuses
    <3>1. /\ call' \in Calls /\ call'.at = "resolved" /\ call'.kind = call.kind /\ call'.announced
          /\ call'.have = call.have /\ call'.ceiling = call.ceiling
      BY <1>1, <1>4, <2>1, <2>3 DEF Apply, Go, Calls, Ended
    <3>2. landed' = 1 /\ slot' = (IF Carries THEN "mine" ELSE slot) /\ txs' = txs
      BY <1>4, <2>1, <2>3 DEF Apply
    <3>3. ConfigOK' /\ CallOK' /\ AllowanceOK' /\ ChainOK' /\ WalletOK'
      BY <1>4, <3>1, <3>2 DEF Apply, config, wallet, IInv, ConfigOK, CallOK, CeilingBacked,
         AllowanceOK, ChainOK, WalletOK
    <3>4. Own' /\ Handed' /\ Counted' /\ Carried' /\ AnnouncedOnce'
      BY <1>4, <2>1, <3>1, <3>2 DEF Apply, config, wallet, IInv, Own, Handed, Counted, One, Carried, Carries,
         AnnouncedOnce, Ended, Before, Announces
    <3>5. FeeThere'
      BY <1>4, <2>1 DEF Apply, config, FeeThere, Pulling
    <3> QED
      BY <3>3, <3>4, <3>5 DEF IInv
  <2> QED
    BY <2>2, <2>3
<1>5. ASSUME NEW a \in Amounts \cup {0}, Reply(a) PROVE IInv'
  BY <1>5 DEF Reply, config, wallet, chain, IInv, ConfigOK, CallOK, CeilingBacked,
     AllowanceOK, ChainOK, WalletOK, Own, Handed, Counted, One, Carried, Carries, AnnouncedOnce, FeeThere, Pulling
<1> QED
  BY <1>2, <1>3, <1>4, <1>5 DEF DemoNext

\* The one-shot is handed in, whatever the caller hears of it.
LEMMA AcceptedOK ==
  ASSUME IInv, call.at \in {"execute", "post"}, Accepted,
         UNCHANGED <<config, wallet, slot, landed, allowance>>,
         Announce("receipt") \/ Go("rejected")
  PROVE  IInv'
<1>1. /\ call' \in Calls /\ call'.at \in {"receipt", "rejected"} /\ call'.kind = call.kind
      /\ call'.have = call.have /\ call'.ceiling = call.ceiling
      /\ call'.at = "receipt" => call'.announced
  BY DEF Announce, Go, Calls, Ended, After, IInv, CallOK
<1>2. mode # "demo"
  BY DEF IInv, Own, Ended
<1>3. txs["oneshot"] = "none" /\ txs["fallback"] = "none" /\ prompts = {}
  BY DEF IInv, Handed, Before
<1>4. txs' = [txs EXCEPT !["oneshot"] = "pending"]
  BY DEF Accepted
<1>5. ConfigOK' /\ CallOK' /\ AllowanceOK' /\ ChainOK' /\ WalletOK'
  BY <1>1, <1>4 DEF config, wallet, IInv, ConfigOK, CallOK, CeilingBacked,
     AllowanceOK, ChainOK, WalletOK
<1>6. Own' /\ AnnouncedOnce'
  BY <1>1 DEF config, IInv, Own, AnnouncedOnce, Announces, Ended
<1>7. Handed' /\ Counted' /\ Carried'
  BY <1>1, <1>2, <1>3, <1>4 DEF config, wallet, IInv, ChainOK, Own, Handed, Counted, One, Carried, Carries, Before, Ended, Routes
<1>8. FeeThere'
  BY <1>1, <1>4 DEF config, IInv, ChainOK, Own, FeeThere, Pulling, Routes
<1> QED
  BY <1>5, <1>6, <1>7, <1>8 DEF IInv

LEMMA DirectOK == IInv /\ DirectNext => IInv'
<1> SUFFICES ASSUME IInv, DirectNext PROVE IInv'
  OBVIOUS
<1>1. call \in Calls
  BY DEF IInv, CallOK
<1>2. CASE Execute
  <2>1. CASE Accepted
    BY <1>2, <2>1, AcceptedOK DEF Execute, At, Post, wallet
  <2>2. CASE UNCHANGED txs /\ Go("rejected")
    BY <1>1, <1>2, <2>2, GoStage DEF Execute, At, Go, chain, Calls, Ended, Before, Announces, IInv, Own, AnnouncedOnce
  <2> QED
    BY <1>2, <2>1, <2>2 DEF Execute, Post
<1>3. CASE Receipt
  <2> DEFINE end == IF txs[call.route] = "ok" THEN "resolved" ELSE "rejected"
             s == [call EXCEPT !.at = end]
  <2>1. call.announced /\ (mode = "demo" => FALSE)
    BY <1>3 DEF Receipt, At, IInv, Own, AnnouncedOnce, Announces, Ended
  <2>2. end \in {"resolved", "rejected"}
    OBVIOUS
  <2>3. call' = s /\ UNCHANGED <<config, wallet, chain>>
    BY <1>3 DEF Receipt, Go
  <2> HIDE DEF end
  <2>4. /\ s \in Calls /\ s.at = end /\ s.announced /\ s.kind = call.kind
        /\ s.have = call.have /\ s.ceiling = call.ceiling
    BY <1>1, <2>1, <2>2 DEF Calls, Ended
  <2> HIDE DEF s
  <2> QED
    BY <2>1, <2>2, <2>3, <2>4, GoStage DEF Ended, Before, Announces
<1> QED
  BY <1>2, <1>3 DEF DirectNext

\* An approval, or the decision that none is needed.
LEMMA ApprovesOK ==
  ASSUME IInv, call.at \in {"approve", "fee"}, NEW s \in Calls, call' = s,
         s.kind = call.kind, s.have = call.have, s.ceiling = call.ceiling, s.announced = call.announced,
         s.at \in {"fee", "prove", "rejected"},
         allowance' \in [Tokens -> Nat],
         s.at = "prove" => allowance'[Strk] >= fee,
         UNCHANGED <<config, wallet, slot, txs, landed, demo, calls>>
  PROVE  IInv'
<1>1. mode # "demo" /\ ~s.announced
  BY DEF IInv, Own, AnnouncedOnce, Ended, Announces
<1>2. txs["oneshot"] = "none"
  BY DEF IInv, Handed, Before
<1>3. ConfigOK' /\ CallOK' /\ AllowanceOK' /\ ChainOK' /\ WalletOK'
  BY DEF config, wallet, IInv, ConfigOK, CallOK, CeilingBacked, AllowanceOK, ChainOK, WalletOK
<1>4. Own' /\ AnnouncedOnce'
  BY <1>1 DEF config, IInv, Own, AnnouncedOnce, Announces, Ended
<1>5. Handed' /\ Counted' /\ Carried'
  BY <1>1 DEF config, wallet, IInv, Handed, Counted, One, Carried, Carries, Before
<1>6. FeeThere'
  BY <1>2 DEF config, FeeThere
<1> QED
  BY <1>3, <1>4, <1>5, <1>6 DEF IInv

LEMMA PoolOK == IInv /\ PoolNext => IInv'
<1> SUFFICES ASSUME IInv, PoolNext PROVE IInv'
  OBVIOUS
<1>1. call \in Calls /\ fee \in Nat /\ allowance \in [Tokens -> Nat] /\ Strk \in Tokens
  BY DEF IInv, ConfigOK, CallOK, AllowanceOK, Tokens
<1>2. call.token \in Tokens /\ call.amount \in Nat
  BY <1>1, AmountType DEF Calls
<1>3. CASE ShieldApprove
  <2>1. /\ call' \in Calls /\ call'.kind = call.kind /\ call'.announced = call.announced
        /\ call'.have = call.have /\ call'.ceiling = call.ceiling /\ call'.at \in {"fee", "rejected"}
    BY <1>1, <1>3 DEF ShieldApprove, Approve, Go, Calls, Ended, Before
  <2>2. allowance' \in [Tokens -> Nat]
    BY <1>1, <1>2, <1>3 DEF ShieldApprove, Approve
  <2> QED
    BY <1>3, <2>1, <2>2, ApprovesOK DEF ShieldApprove, At
<1>4. CASE EnsureFeeAllowance
  <2>1. /\ call' \in Calls /\ call'.kind = call.kind /\ call'.announced = call.announced
        /\ call'.have = call.have /\ call'.ceiling = call.ceiling /\ call'.at \in {"prove", "rejected"}
    BY <1>1, <1>4 DEF EnsureFeeAllowance, Approve, Go, Calls, Ended, Before
  <2>2. allowance' \in [Tokens -> Nat] /\ (call'.at = "prove" => allowance'[Strk] >= fee)
    <3>1. CASE HasAllowance /\ UNCHANGED allowance
      BY <1>1, <3>1 DEF HasAllowance
    <3>2. CASE Approve(Strk, FeeTimes * fee, "prove")
      BY <1>1, <3>2, ApprovalEnough DEF Approve
    <3>3. CASE Go("rejected") /\ UNCHANGED allowance
      BY <1>1, <3>3 DEF Go, Calls
    <3> QED
      BY <1>4, <3>1, <3>2, <3>3 DEF EnsureFeeAllowance
  <2> QED
    BY <1>4, <2>1, <2>2, ApprovesOK DEF EnsureFeeAllowance, At
<1>5. CASE Build
  <2>1. /\ call' \in Calls /\ call'.kind = call.kind /\ call'.announced = call.announced
        /\ call'.have = call.have /\ call'.ceiling = call.ceiling
        /\ call'.at \in {"bounds", "fee", "rejected"}
    BY <1>1, <1>5 DEF Build, Go, Calls, Ended, Before
  <2>2. UNCHANGED <<config, wallet, chain>> /\ call.at = "prove"
    BY <1>5 DEF Build, At
  <2>3. mode # "demo" /\ ~call.announced
    BY <2>2 DEF IInv, Own, AnnouncedOnce, Ended, Announces
  <2>4. Pulling /\ call.kind # "shield" => allowance[Strk] >= fee
    BY <2>2 DEF IInv, FeeThere
  <2> QED
    BY <2>1, <2>2, <2>3, <2>4, GoStage DEF Before, Ended, Announces
<1>6. ASSUME NEW have \in Balances, NEW p \in Prices, NEW q \in Prices, Bounds(have, Price(p), Price(q))
      PROVE  IInv'
  <2>1. have \in Nat /\ Price(p) \in Nat \ {0} /\ Price(q) \in Nat
    BY BackendsAssumption, PriceType
  <2>2. UNCHANGED <<config, wallet, chain>> /\ call.at = "bounds"
    BY <1>6 DEF Bounds, At
  <2>3. mode # "demo" /\ ~call.announced
    BY <2>2 DEF IInv, Own, AnnouncedOnce, Ended, Announces
  <2>4. Pulling /\ call.kind # "shield" => allowance[Strk] >= fee
    BY <2>2 DEF IInv, FeeThere
  <2>5. CASE Affordable(have, Price(p), Price(q)) < MinL2
    <3>1. call' = [call EXCEPT !.at = "rejected"]
      BY <1>6, <2>5 DEF Bounds, Go
    <3> QED
      BY <1>1, <2>2, <2>3, <3>1, GoStage DEF Calls, Before, Ended, Announces
  <2>6. CASE ~(Affordable(have, Price(p), Price(q)) < MinL2)
    <3> DEFINE c == Ceiling(have, Price(p), Price(q))
    <3>1. Affordable(have, Price(p), Price(q)) \in Int
      BY <2>1, BackendsAssumption DEF Affordable, Budget
    <3>2. c \in Int /\ c <= have
      BY <2>1, <2>6, <3>1, CeilingFits, BackendsAssumption
    <3>3. call' = [call EXCEPT !.at = "post", !.have = have, !.ceiling = c]
      BY <1>6, <2>6 DEF Bounds
    <3> HIDE DEF c
    <3>4. /\ call' \in Calls /\ call'.at = "post" /\ call'.kind = call.kind
          /\ ~call'.announced /\ call'.ceiling <= call'.have
      BY <1>1, <2>1, <2>3, <3>2, <3>3 DEF Calls, Before
    <3> QED
      BY <2>2, <2>3, <2>4, <3>4, GoOK DEF wallet, CeilingBacked, Before, Ended, Announces
  <2> QED
    BY <2>5, <2>6
<1>7. CASE ProofInvoke
  <2>1. CASE Accepted
    BY <1>7, <2>1, AcceptedOK DEF ProofInvoke, At, Failed, wallet
  <2>2. CASE UNCHANGED txs /\ Failed
    BY <1>1, <1>7, <2>2, GoStage DEF ProofInvoke, At, Failed, Go, chain, Calls, Ended, Before, Announces, IInv, Own,
       AnnouncedOnce
  <2> QED
    BY <1>7, <2>1, <2>2 DEF ProofInvoke
<1> QED
  BY <1>3, <1>4, <1>5, <1>6, <1>7 DEF PoolNext

-----------------------------------------------------------------------------
(* The wallet, and the race that wallet mode runs against it.              *)

LEMMA SubmitsOK ==
  ASSUME IInv, NEW r \in Routes, WalletSubmits(r)
  PROVE  IInv'
<1>1. txs[r] = "none" /\ txs' = [txs EXCEPT ![r] = "pending"] /\ prompts' = prompts \ {r} /\ r \in prompts
  BY DEF WalletSubmits, IInv, Handed
<1>2. mode = "wallet" /\ call.at \notin Before \cup {"idle"}
  BY <1>1 DEF IInv, Handed
<1>3. Handed'
  BY <1>1, <1>2 DEF WalletSubmits, config, IInv, ChainOK, Handed, Routes, Before
<1>4. ChainOK' /\ Counted' /\ Carried'
  BY <1>1 DEF WalletSubmits, config, IInv, ChainOK, Counted, One, Carried, Carries, Routes
<1>5. FeeThere'
  BY <1>2 DEF WalletSubmits, config, FeeThere, Pulling
<1> QED
  BY <1>1, <1>3, <1>4, <1>5 DEF WalletSubmits, config, IInv, ConfigOK, CallOK, CeilingBacked,
     AllowanceOK, WalletOK, Own, AnnouncedOnce

LEMMA WalletOnlyOK ==
  ASSUME IInv, mode = "wallet", call.at \notin Before \cup {"idle"},
         UNCHANGED <<config, call, chain>>, w'.at \in Outcomes, prompts' \subseteq Routes,
         \A r \in prompts' : txs[r] = "none",
         w'.at \in {"none", "oneshot", "prepare"} => txs["fallback"] = "none" /\ "fallback" \notin prompts'
  PROVE  IInv'
<1>1. ConfigOK' /\ CallOK' /\ AllowanceOK' /\ ChainOK' /\ WalletOK'
  BY DEF config, chain, IInv, ConfigOK, CallOK, CeilingBacked, AllowanceOK, ChainOK, WalletOK
<1>2. Own' /\ AnnouncedOnce' /\ FeeThere'
  BY DEF config, chain, IInv, Own, AnnouncedOnce, FeeThere, Pulling
<1>3. Handed'
  BY DEF config, chain, Handed
<1>4. Counted' /\ Carried'
  BY DEF config, chain, IInv, Counted, One, Carried, Carries
<1> QED
  BY <1>1, <1>2, <1>3, <1>4 DEF IInv

LEMMA TheWalletOK == IInv /\ WalletNext => IInv'
<1> SUFFICES ASSUME IInv, WalletNext PROVE IInv'
  OBVIOUS
<1>1. w.at # "none" => mode = "wallet" /\ call.at \notin Before \cup {"idle"}
  BY DEF IInv, Handed
<1>2. prompts \subseteq Routes /\ \A r \in prompts : txs[r] = "none"
  BY DEF IInv, WalletOK, Handed
<1>3. w.at \in {"oneshot", "prepare"} => txs["fallback"] = "none" /\ "fallback" \notin prompts
  BY DEF IInv, Handed
<1>4. CASE Prepared
  <2>1. w'.at = "fallback" /\ prompts' = prompts \cup {"fallback"}
    BY <1>4 DEF Prepared
  <2> QED
    BY <1>1, <1>2, <1>3, <1>4, <2>1, WalletOnlyOK DEF Prepared, Outcomes, Routes
<1>5. ASSUME NEW r \in Routes, WalletSubmits(r) PROVE IInv'
  BY <1>5, SubmitsOK
<1>6. ASSUME NEW r \in Routes, WalletAnswers(r) PROVE IInv'
  <2>1. w.at \in Routes /\ w'.at = "ok" /\ call' = [call EXCEPT !.route = r]
    BY <1>6 DEF WalletAnswers, Pending
  <2>2. call' \in Calls /\ call'.at = call.at /\ call'.kind = call.kind /\ call'.announced = call.announced
        /\ call'.have = call.have /\ call'.ceiling = call.ceiling
    BY <2>1 DEF IInv, CallOK, Calls
  <2>3. mode = "wallet"
    BY <1>1, <2>1 DEF Routes
  <2>4. ConfigOK' /\ CallOK' /\ AllowanceOK' /\ ChainOK' /\ WalletOK'
    BY <1>6, <2>1, <2>2 DEF WalletAnswers, config, chain, IInv, ConfigOK, CallOK, CeilingBacked,
       AllowanceOK, ChainOK, WalletOK, Outcomes
  <2>5. Own' /\ AnnouncedOnce' /\ FeeThere'
    BY <1>6, <2>2, <2>3 DEF WalletAnswers, config, chain, IInv, Own, AnnouncedOnce, FeeThere, Pulling
  <2>6. Handed' /\ Counted' /\ Carried'
    BY <1>1, <1>6, <2>1, <2>2, <2>3 DEF WalletAnswers, config, chain, IInv, Handed, Counted, One, Carried, Carries,
       Routes
  <2> QED
    BY <2>4, <2>5, <2>6 DEF IInv
<1>7. ASSUME NEW kind \in Errors, NEW timeout \in BOOLEAN, PrepareFails(kind, timeout) PROVE IInv'
  <2>1. w.at = "prepare" /\ w'.at = "failed"
    BY <1>7 DEF PrepareFails
  <2> QED
    BY <1>1, <1>2, <1>7, <2>1, WalletOnlyOK DEF PrepareFails, Outcomes
<1>8. ASSUME NEW r \in Routes, NEW kind \in Errors, NEW timeout \in BOOLEAN, WalletFails(r, kind, timeout)
      PROVE  IInv'
  <2>1. w.at \in Routes /\ w.at = r /\ w'.at \in {"prepare", "failed"} /\ (w'.at = "prepare" => r = "oneshot")
    BY <1>8 DEF WalletFails, Pending
  <2>2. prompts' \subseteq prompts
    BY <1>8 DEF WalletFails
  <2> QED
    BY <1>1, <1>2, <1>3, <1>8, <2>1, <2>2, WalletOnlyOK DEF WalletFails, Outcomes, Routes
<1> QED
  BY <1>4, <1>5, <1>6, <1>7, <1>8 DEF WalletNext

LEMMA SubmitOK == IInv /\ SubmitNext => IInv'
<1> SUFFICES ASSUME IInv, SubmitNext PROVE IInv'
  OBVIOUS
<1>1. call \in Calls
  BY DEF IInv, CallOK
<1>2. CASE Ask
  <2>1. mode = "wallet" /\ call.at = "ask" /\ ~call.announced
    BY <1>2 DEF Ask, At, IInv, Own, AnnouncedOnce, Announces
  <2>2. CASE Go("racing") /\ w' = [NoWallet EXCEPT !.at = "oneshot"] /\ prompts' = {"oneshot"}
    <3>1. /\ call' \in Calls /\ call'.at = "racing" /\ call'.kind = call.kind /\ ~call'.announced
          /\ call'.have = call.have /\ call'.ceiling = call.ceiling
      BY <1>1, <2>1, <2>2 DEF Go, Calls, After
    <3>2. w'.at = "oneshot"
      BY <2>2 DEF NoWallet
    <3>3. ConfigOK' /\ CallOK' /\ AllowanceOK' /\ ChainOK' /\ WalletOK'
      BY <1>2, <2>2, <3>1, <3>2 DEF Ask, config, chain, IInv, ConfigOK, CallOK, CeilingBacked,
         AllowanceOK, ChainOK, WalletOK, Outcomes, Routes
    <3>4. Own' /\ AnnouncedOnce' /\ FeeThere'
      BY <1>2, <2>1, <3>1 DEF Ask, config, IInv, Own, AnnouncedOnce, Announces, Ended, FeeThere, Pulling
    <3>5. Handed' /\ Counted' /\ Carried'
      BY <1>2, <2>1, <2>2, <3>1, <3>2 DEF Ask, config, chain, IInv, Handed, Counted, One, Carried, Carries, Before
    <3> QED
      BY <3>3, <3>4, <3>5 DEF IInv
  <2>3. CASE Go("rejected") /\ UNCHANGED wallet
    BY <1>1, <1>2, <2>1, <2>3, GoStage DEF Ask, Go, Calls, Ended, Before, Announces, Pulling
  <2> QED
    BY <1>2, <2>2, <2>3 DEF Ask
<1>3. CASE SlotSeen \/ WatchOver \/ AnswerSeen \/ FailureSeen \/ Look \/ ProbeOver
  <2>1. /\ UNCHANGED <<config, wallet, chain>>
        /\ call.at \in {"racing", "looking", "probing"} /\ mode = "wallet"
    BY <1>3 DEF SlotSeen, Watched, WatchOver, AnswerSeen, FailureSeen, Look, ProbeOver, At, IInv, Own
  <2>2. /\ call.at \in {"racing", "probing"} => ~call.announced
        /\ call.at = "looking" => call.announced
    BY DEF IInv, AnnouncedOnce, Announces
  <2>3. \/ call.at = "racing" /\ \E s \in {"resolved", "receipt", "looking"} : Announce(s)
        \/ call.at = "racing" /\ \E s \in {"probing", "rejected"} : Go(s)
        \/ call.at = "looking" /\ \E s \in {"resolved", "rejected"} : Go(s)
        \/ call.at = "probing" /\ Go("rejected")
    <3>1. CASE FailureSeen
      BY <3>1 DEF FailureSeen, At
    <3>2. CASE Look
      BY <3>2 DEF Look, LookEnds, At
    <3> QED
      BY <1>3, <3>1, <3>2 DEF SlotSeen, Watched, WatchOver, AnswerSeen, ProbeOver, At
  <2>4. /\ call' \in Calls /\ call'.kind = call.kind /\ call'.have = call.have /\ call'.ceiling = call.ceiling
        /\ call'.at \in {"resolved", "probing", "receipt", "looking", "rejected"}
        /\ call'.at \in {"receipt", "looking", "resolved"} => call'.announced
        /\ call'.at = "probing" => ~call'.announced
    <3>1. ASSUME NEW s \in {"resolved", "receipt", "looking"}, Announce(s), call.at = "racing"
          PROVE  call' \in Calls /\ call'.kind = call.kind /\ call'.have = call.have
                 /\ call'.ceiling = call.ceiling /\ call'.at = s /\ call'.announced
      BY <1>1, <3>1 DEF Announce, Calls, Ended, After
    <3>2. ASSUME NEW s \in {"resolved", "rejected", "probing"}, Go(s)
          PROVE  call' \in Calls /\ call'.kind = call.kind /\ call'.have = call.have
                 /\ call'.ceiling = call.ceiling /\ call'.at = s /\ call'.announced = call.announced
      BY <1>1, <3>2 DEF Go, Calls, Ended, After
    <3> QED
      BY <2>2, <2>3, <3>1, <3>2
  <2> QED
    BY <2>1, <2>4, GoStage DEF Ended, Before, Announces, Pulling
<1> QED
  BY <1>2, <1>3 DEF SubmitNext

\* Every step of a call, the chain and the wallet preserves the invariant.
LEMMA NextOK == IInv /\ [Next]_vars => IInv'
<1> SUFFICES ASSUME IInv, [Next]_vars PROVE IInv'
  OBVIOUS
<1>1. CASE Call
  <2>1. PICK k \in Kinds[mode], t \in Tokens, a \in Amounts \cup {0} : Begin(k, t, a)
    BY <1>1 DEF Call
  <2>2. k \in Names
    BY DEF Kinds, Names, IInv, ConfigOK, Modes
  <2> QED
    BY <2>1, <2>2, BeginOK
<1>2. CASE UNCHANGED vars
  BY <1>2 DEF vars, config, wallet, chain, IInv, ConfigOK, CallOK, CeilingBacked,
     AllowanceOK, ChainOK, WalletOK, Own, Handed, Counted, One, Carried, Carries, AnnouncedOnce, FeeThere, Pulling
<1> QED
  BY <1>1, <1>2, IncludeOK, OtherDeviceOK, DemoOK, DirectOK, PoolOK, TheWalletOK, SubmitOK DEF Next

-----------------------------------------------------------------------------
\* The invariant of every call, for every value of the constants.
THEOREM Invariant == Spec => []IInv
<1>1. Init => IInv
  BY InitOK
<1>2. IInv /\ [Next]_vars => IInv'
  BY NextOK
<1> QED
  BY <1>1, <1>2, PTL DEF Spec

\* A message, and the payment it rides with, takes effect once.
THEOREM EffectOnce == Spec => []LandsOnce
<1>1. IInv => LandsOnce
  <2> SUFFICES ASSUME IInv, ~(landed <= 1) PROVE mode = "wallet" /\ call.kind = "shield" /\ landed = 2
    BY DEF LandsOnce
  <2>1. mode # "demo" /\ landed = 2 /\ txs["fallback"] = "ok"
    BY DEF IInv, Counted, One
  <2>2. mode = "wallet"
    BY <2>1 DEF IInv, Handed
  <2>3. call.kind \in Names \ {"batch", "pay", "register"}
    BY <2>1, <2>2 DEF IInv, Carried, Carries, Own, CallOK, Calls
  <2> QED
    BY <2>1, <2>2, <2>3 DEF Names
<1> QED
  BY <1>1, Invariant, PTL

\* A proven transaction that deposits nothing finds the pool's fee allowed.
THEOREM FeeIsCovered == Spec => []FeeCovered
<1>1. IInv => FeeCovered
  BY DEF IInv, FeeThere, FeeCovered
<1> QED
  BY <1>1, Invariant, PTL

\* The account backs every gas ceiling it signs.
THEOREM CeilingsAreBacked == Spec => []CeilingBacked
<1>1. IInv => CeilingBacked
  BY DEF IInv, CallOK
<1> QED
  BY <1>1, Invariant, PTL

-----------------------------------------------------------------------------
(* Every backend implements Submission.                                    *)

LEMMA InitPromised == Init => Promised!Init
BY DEF Init, Idle, Promised!Init, Working, Settled

\* A step that leaves the chain's part of the promise alone.
LEMMA StagePromised ==
  ASSUME IInv, Working, landed' = landed, slot' = slot,
         \/ Working' /\ call'.announced = call.announced
         \/ Working' /\ ~call.announced /\ call'.announced
         \/ call'.at = "rejected" /\ call'.announced = call.announced
         \/ call'.at = "resolved" /\ call'.announced /\ (landed > 0 \/ slot = "other")
  PROVE  [Promised!Next]_(Promised!vars)
BY DEF Working, Settled, Promised!Next, Promised!vars, Promised!Announce, Promised!Reject, Promised!Resolve

LEMMA ChainPromised ==
  ASSUME IInv, OtherDevice \/ \E r \in Routes : Include(r)
  PROVE  [Promised!Next]_(Promised!vars)
<1>1. CASE OtherDevice
  <2>1. landed = 0 /\ slot' = "other" /\ UNCHANGED <<call, landed>> /\ call.at # "idle"
    BY <1>1 DEF OtherDevice, IInv, Carried
  <2> QED
    BY <2>1 DEF Promised!Next, Promised!Contest, Working, Settled
<1>2. ASSUME NEW r \in Routes, Include(r) PROVE [Promised!Next]_(Promised!vars)
  <2>1. call.at # "idle" /\ UNCHANGED call
    BY <1>2 DEF Include, Routes, IInv, Handed
  <2>2. CASE Reverts(r)
    BY <2>1, <2>2 DEF Reverts, Promised!vars, Working, Settled
  <2>3. CASE Lands(r)
    <3>1. landed' > 0
      BY <2>3 DEF Lands, IInv, Counted, One
    <3>2. slot' = "other" <=> slot = "other"
      BY <2>3 DEF Lands
    <3> QED
      BY <2>1, <3>1, <3>2 DEF Promised!Next, Promised!Store, Working, Settled
  <2> QED
    BY <1>2, <2>2, <2>3 DEF Include
<1> QED
  BY <1>1, <1>2

LEMMA DemoPromised ==
  ASSUME IInv, DemoNext
  PROVE  [Promised!Next]_(Promised!vars)
<1>1. call \in Calls
  BY DEF IInv, CallOK
<1>2. CASE Cancel
  BY <1>1, <1>2, StagePromised DEF Cancel, At, Go, chain, Calls, Working, Settled
<1>3. CASE Prove
  <2>1. ~call.announced
    BY <1>3 DEF Prove, At, IInv, AnnouncedOnce, Announces
  <2>2. Working /\ Working' /\ call'.announced
    BY <1>1, <1>3 DEF Prove, At, Announce, Calls, Working, Settled
  <2> QED
    BY <1>3, <2>1, <2>2, StagePromised DEF Prove, chain
<1>4. CASE Apply
  <2>1. Working /\ call.announced /\ mode = "demo" /\ landed = 0
    BY <1>4 DEF Apply, At, Working, Settled, IInv, AnnouncedOnce, Announces, Own, Counted
  <2>2. CASE Refuses
    BY <1>1, <1>4, <2>1, <2>2, StagePromised DEF Apply, Go, Calls
  <2>3. CASE ~Refuses
    <3>1. call'.at = "resolved" /\ call'.announced /\ landed' = 1
      BY <1>1, <1>4, <2>1, <2>3 DEF Apply, Go, Calls
    <3>2. slot' = "other" <=> slot = "other"
      BY <1>4, <2>3 DEF Apply, Refuses
    <3> QED
      BY <2>1, <3>1, <3>2 DEF Promised!Next, Promised!Resolve, Working, Settled
  <2> QED
    BY <2>2, <2>3
<1>5. ASSUME NEW a \in Amounts \cup {0}, Reply(a) PROVE [Promised!Next]_(Promised!vars)
  BY <1>5 DEF Reply, chain, Promised!vars, Working, Settled
<1> QED
  BY <1>2, <1>3, <1>4, <1>5 DEF DemoNext

\* Steps that announce, go on, or give up.
LEMMA StepsPromised ==
  ASSUME IInv, Working, landed' = landed, slot' = slot, ~call.announced,
         \/ \E s \in After : Announce(s)
         \/ Announce("resolved") /\ (landed > 0 \/ slot = "other")
         \/ Go("rejected")
         \/ Working' /\ call'.announced = call.announced
  PROVE  [Promised!Next]_(Promised!vars)
<1>1. call \in Calls
  BY DEF IInv, CallOK
<1>2. ASSUME NEW s \in After, Announce(s) PROVE Working' /\ call'.announced
  BY <1>1, <1>2 DEF Announce, After, Calls, Working, Settled
<1>3. Announce("resolved") => call'.at = "resolved" /\ call'.announced
  BY <1>1 DEF Announce, Calls
<1>4. Go("rejected") => call'.at = "rejected" /\ call'.announced = call.announced
  BY <1>1 DEF Go, Calls
<1> QED
  BY <1>2, <1>3, <1>4, StagePromised

LEMMA DirectPromised ==
  ASSUME IInv, DirectNext
  PROVE  [Promised!Next]_(Promised!vars)
<1>1. call \in Calls
  BY DEF IInv, CallOK
<1>2. CASE Execute
  <2>1. Working /\ ~call.announced
    BY <1>2 DEF Execute, At, Working, Settled, IInv, AnnouncedOnce, Announces
  <2> QED
    BY <1>2, <2>1, StepsPromised DEF Execute, Post, After
<1>3. CASE Receipt
  <2>1. Working /\ call.announced
    BY <1>3 DEF Receipt, At, Working, Settled, IInv, AnnouncedOnce, Announces
  <2>2. txs[call.route] = "ok" => landed > 0
    BY <1>1, <1>3 DEF Receipt, At, IInv, Own, Ended, Counted, One, Routes, Calls
  <2>3. /\ call'.announced = call.announced
        /\ call'.at = IF txs[call.route] = "ok" THEN "resolved" ELSE "rejected"
    BY <1>1, <1>3 DEF Receipt, Go, Calls
  <2> QED
    BY <1>3, <2>1, <2>2, <2>3, StagePromised DEF Receipt, chain
<1> QED
  BY <1>2, <1>3 DEF DirectNext

LEMMA PoolPromised ==
  ASSUME IInv, PoolNext
  PROVE  [Promised!Next]_(Promised!vars)
<1>1. call \in Calls
  BY DEF IInv, CallOK
<1>2. /\ call.at \in {"approve", "fee", "prove", "bounds", "post"}
      /\ landed' = landed /\ slot' = slot
  BY DEF PoolNext, ShieldApprove, EnsureFeeAllowance, Build, Bounds, ProofInvoke, At, chain
<1>3. Working /\ ~call.announced
  BY <1>2 DEF Working, Settled, IInv, AnnouncedOnce, Announces
<1>4. ASSUME NEW s \in {"fee", "prove", "bounds"}, Go(s)
      PROVE  Working' /\ call'.announced = call.announced
  BY <1>1, <1>4 DEF Go, Calls, Working, Settled
<1>5. CASE ShieldApprove
  <2>1. CASE call' = [call EXCEPT !.at = "fee", !.unapproved = TRUE]
    <3>1. Working' /\ call'.announced = call.announced
      BY <1>1, <2>1 DEF Calls, Working, Settled
    <3> QED
      BY <1>2, <1>3, <3>1, StepsPromised
  <2>2. CASE Go("fee") \/ Go("rejected")
    BY <1>2, <1>3, <1>4, <2>2, StepsPromised
  <2> QED
    BY <1>5, <2>1, <2>2 DEF ShieldApprove, Approve
<1>6. CASE EnsureFeeAllowance
  <2>1. Go("prove") \/ Go("rejected")
    BY <1>6 DEF EnsureFeeAllowance, Approve
  <2> QED
    BY <1>2, <1>3, <1>4, <2>1, StepsPromised
<1>7. CASE Build
  <2>1. CASE call' = [call EXCEPT !.at = "fee", !.carrier = 1]
    <3>1. Working' /\ call'.announced = call.announced
      BY <1>1, <2>1 DEF Calls, Working, Settled
    <3> QED
      BY <1>2, <1>3, <3>1, StepsPromised
  <2>2. CASE Go("bounds") \/ Go("rejected")
    BY <1>2, <1>3, <1>4, <2>2, StepsPromised
  <2> QED
    BY <1>7, <2>1, <2>2 DEF Build
<1>8. ASSUME NEW have \in Balances, NEW p \in Prices, NEW q \in Prices, Bounds(have, Price(p), Price(q))
      PROVE  [Promised!Next]_(Promised!vars)
  <2> DEFINE c == Ceiling(have, Price(p), Price(q))
  <2>1. Go("rejected") \/ call' = [call EXCEPT !.at = "post", !.have = have, !.ceiling = c]
    BY <1>8 DEF Bounds
  <2> HIDE DEF c
  <2>2. CASE call' = [call EXCEPT !.at = "post", !.have = have, !.ceiling = c]
    <3>1. Working' /\ call'.announced = call.announced
      BY <1>1, <2>2 DEF Calls, Working, Settled
    <3> QED
      BY <1>2, <1>3, <3>1, StepsPromised
  <2> QED
    BY <1>2, <1>3, <2>1, <2>2, StepsPromised
<1>9. CASE ProofInvoke
  <2>1. Announce("receipt") \/ Go("rejected")
    BY <1>9 DEF ProofInvoke, Failed
  <2> QED
    BY <1>2, <1>3, <2>1, StepsPromised DEF After
<1> QED
  BY <1>5, <1>6, <1>7, <1>8, <1>9 DEF PoolNext

LEMMA WalletPromised ==
  ASSUME IInv, WalletNext
  PROVE  [Promised!Next]_(Promised!vars)
<1>1. call \in Calls
  BY DEF IInv, CallOK
<1>2. call'.at = call.at /\ call'.announced = call.announced /\ landed' = landed /\ slot' = slot
  <2>1. CASE \E r \in Routes : WalletAnswers(r)
    BY <1>1, <2>1 DEF WalletAnswers, chain, Calls
  <2>2. CASE Prepared \/ \E r \in Routes : WalletSubmits(r)
    BY <2>2 DEF Prepared, WalletSubmits, chain
  <2>3. ASSUME NEW kind \in Errors, NEW timeout \in BOOLEAN,
               PrepareFails(kind, timeout) \/ \E r \in Routes : WalletFails(r, kind, timeout)
        PROVE  UNCHANGED <<call, landed, slot>>
    BY <2>3 DEF PrepareFails, WalletFails, chain
  <2> QED
    BY <2>1, <2>2, <2>3 DEF WalletNext
<1> QED
  BY <1>2 DEF Promised!vars, Working, Settled

LEMMA SubmitPromised ==
  ASSUME IInv, SubmitNext
  PROVE  [Promised!Next]_(Promised!vars)
<1>1. call \in Calls
  BY DEF IInv, CallOK
<1>2. landed' = landed /\ slot' = slot
  BY DEF SubmitNext, Ask, SlotSeen, WatchOver, AnswerSeen, FailureSeen, Look, ProbeOver, chain
<1>3. ASSUME NEW s \in {"racing", "probing"}, Go(s)
      PROVE  Working' /\ call'.announced = call.announced
  BY <1>1, <1>3 DEF Go, Calls, Working, Settled
<1>4. CASE Look
  <2>1. Working /\ call.announced
    BY <1>4 DEF Look, At, Working, Settled, IInv, AnnouncedOnce, Announces
  <2>2. PICK end \in {"resolved", "rejected"} :
          call' = [call EXCEPT !.at = end] /\ (end = "resolved" => slot # "free")
    BY <1>4 DEF Look, LookEnds, Go, Written
  <2>3. slot # "free" => landed > 0 \/ slot = "other"
    BY DEF IInv, ChainOK, Carried
  <2>4. call'.at = end /\ call'.announced = call.announced
    BY <1>1, <2>2 DEF Calls
  <2> QED
    BY <1>2, <2>1, <2>2, <2>3, <2>4, StagePromised
<1>5. CASE Ask \/ SlotSeen \/ WatchOver \/ AnswerSeen \/ FailureSeen \/ ProbeOver
  <2>1. call.at \in {"ask", "racing", "probing"}
    BY <1>5 DEF Ask, SlotSeen, WatchOver, Watched, AnswerSeen, FailureSeen, ProbeOver, At
  <2>2. Working /\ ~call.announced
    BY <2>1 DEF Working, Settled, IInv, AnnouncedOnce, Announces
  <2>3. \/ \E s \in {"receipt", "looking"} : Announce(s)
        \/ Announce("resolved") /\ slot # "free"
        \/ \E s \in {"racing", "probing"} : Go(s)
        \/ Go("rejected")
    <3>1. CASE FailureSeen
      BY <3>1 DEF FailureSeen
    <3> QED
      BY <1>5, <3>1 DEF Ask, SlotSeen, Written, WatchOver, AnswerSeen, ProbeOver
  <2>4. slot # "free" => landed > 0 \/ slot = "other"
    BY DEF IInv, ChainOK, Carried
  <2> QED
    BY <1>2, <1>3, <2>2, <2>3, <2>4, StepsPromised DEF After
<1> QED
  BY <1>4, <1>5 DEF SubmitNext

\* Every backend keeps the promise the flushes rely on.
THEOREM KeepsPromise == Spec => Promise
<1>1. Init => Promised!Init
  BY InitPromised
<1>2. IInv /\ [Next]_vars => [Promised!Next]_(Promised!vars)
  <2> SUFFICES ASSUME IInv, [Next]_vars PROVE [Promised!Next]_(Promised!vars)
    OBVIOUS
  <2>1. CASE Call
    <3>1. PICK k \in Kinds[mode], t \in Tokens, a \in Amounts \cup {0} : Begin(k, t, a)
      BY <2>1 DEF Call
    <3>2. First(k) \in {"proving", "execute", "ask", "approve", "fee"}
      BY DEF First
    <3>3. call'.at = First(k) /\ ~call'.announced /\ landed' = 0 /\ slot' = "free" /\ ~Working
      BY <3>1 DEF Begin, Idle
    <3> QED
      BY <3>2, <3>3 DEF Promised!Next, Promised!Begin, Working, Settled
  <2>2. CASE UNCHANGED vars
    BY <2>2 DEF vars, chain, Promised!vars, Working, Settled
  <2> QED
    BY <2>1, <2>2, ChainPromised, DemoPromised, DirectPromised, PoolPromised, WalletPromised, SubmitPromised DEF Next
<1> QED
  BY <1>1, <1>2, Invariant, PTL DEF Spec, Promise, Promised!Spec
=============================================================================
