------------------------------ MODULE Backends ------------------------------
(***************************************************************************)
(* The four backends of the web application (backend.ts, poolBackend.ts,   *)
(* walletBackend.ts over wallet.ts) and the pool client of the command     *)
(* line (pool.ts, tail.ts): one call at a time, from the caller's request  *)
(* to the promise's end, against the chain, the pool's fee and a wallet    *)
(* that answers when and what it likes.  The flushes above them, and calls *)
(* that overlap, are in WebFlush and CliFlush.                             *)
(*                                                                         *)
(* A call carries one message, whose slot is free when the call begins;    *)
(* another device of the same user may take it.  Time is not counted: a    *)
(* deadline may pass at any step.                                          *)
(***************************************************************************)
EXTENDS Integers, FiniteSets

CONSTANTS
    Strk, Other,               \* the fee token, and another one
    Fees,                      \* what get_fee_amount may say
    FeeTimes,                  \* fees in one approval (50 in the code)
    Amounts,                   \* what is paid or shielded
    Genesis,                   \* the demo's notes
    L1Data, MinL2, MaxL2,      \* gas amounts of proofTxResourceBounds
    Balances, Prices,          \* the account's STRK and the gas price
    MaxCalls                   \* bound: calls made

ASSUME BackendsAssumption ==
    /\ FeeTimes \in Nat \ {0} /\ Fees \subseteq Nat /\ Amounts \subseteq Nat
    /\ {Genesis, L1Data, MinL2, MaxL2, MaxCalls} \subseteq Nat
    /\ 0 < MinL2 /\ MinL2 <= MaxL2
    /\ Balances \subseteq Nat /\ Prices \subseteq Nat

VARIABLES
    mode, signer, patched, fee,  \* the configuration, fixed
    call,      \* the call in progress
    w,         \* strk20Submit: the wallet's pending request, or its outcome
    prompts,   \* requests the wallet may still act on
    slot,      \* chain: "free", "mine" or "other"
    txs,       \* chain: the transaction of each route
    landed,    \* chain: how often the call took effect
    allowance, \* chain: what the pool may pull, by token
    notes,     \* the demo's unspent notes, their sum
    replies,   \* scheduled replies of the demo's counterparty
    calls

config == <<mode, signer, patched, fee>>
wallet == <<w, prompts>>
chain == <<slot, txs, landed, allowance>>
demo == <<notes, replies>>
vars == <<config, call, wallet, chain, demo, calls>>

Modes == {"demo", "direct", "pool", "cli", "wallet"}
Kinds ==
    [m \in Modes |-> CASE m = "direct" -> {"batch"}
                       [] m = "cli" -> {"batch", "pay"}
                       [] m = "pool" -> {"batch", "pay", "shield", "register"}
                       [] OTHER -> {"batch", "pay", "shield"}]
Routes == {"oneshot", "fallback"}
Tokens == {Strk, Other}

\* A message rides in every batch and every payment: the helper is invoked.
CarriesUnpaid == call.kind = "batch"   \* copy: a payment's actions lack the invoke
Carries == call.kind \in {"batch", "pay"}
Settled == call.at \in {"resolved", "rejected"}
Working == call.at # "idle" /\ ~Settled
At(stage) == call.at = stage
Go(stage) == call' = [call EXCEPT !.at = stage]
Announce(stage) == call' = [call EXCEPT !.at = stage, !.announced = TRUE]

-----------------------------------------------------------------------------
(* The ceilings of a proof-carrying transaction: an account whose STRK     *)
(* does not reach for MinL2 is refused, else the gas is fitted to it.      *)

Price(p) == (p * 3) \div 2 + 1
BudgetWhole(have, data) == have   \* copy: the margin and the data bound forgotten
Budget(have, data) == (have * 95) \div 100 - L1Data * data
Affordable(have, l2, data) ==
    IF Budget(have, data) > 0 THEN Budget(have, data) \div l2 ELSE 0
L2Bound(have, l2, data) ==
    IF Affordable(have, l2, data) < MaxL2 THEN Affordable(have, l2, data) ELSE MaxL2
\* What the gateway wants to see on the account.
Ceiling(have, l2, data) == L2Bound(have, l2, data) * l2 + L1Data * data

-----------------------------------------------------------------------------
(* The chain.                                                              *)

\* What the pool pulls from the caller of a proven transaction.
Pulls(t) ==
    (IF t = Strk THEN fee ELSE 0)
    + (IF call.kind = "shield" /\ call.token = t THEN call.amount ELSE 0)
Covered == \A t \in Tokens : allowance[t] >= Pulls(t)
Pulling == mode \in {"pool", "cli"}

Lands(r) ==
    /\ Carries => slot = "free"
    /\ Pulling => Covered
    /\ txs' = [txs EXCEPT ![r] = "ok"]
    /\ slot' = IF Carries THEN "mine" ELSE slot
    /\ landed' = landed + 1
    /\ allowance' =
         [t \in Tokens |-> IF Pulling THEN allowance[t] - Pulls(t) ELSE allowance[t]]

Reverts(r) ==
    /\ txs' = [txs EXCEPT ![r] = "reverted"]
    /\ UNCHANGED <<slot, landed, allowance>>

Include(r) ==
    /\ txs[r] = "pending"
    /\ Lands(r) \/ Reverts(r)
    /\ UNCHANGED <<config, call, wallet, demo, calls>>

OtherDevice ==
    /\ call.at # "idle" /\ Carries /\ slot = "free"
    /\ slot' = "other"
    /\ UNCHANGED <<config, call, wallet, txs, landed, allowance, demo, calls>>

-----------------------------------------------------------------------------
(* A call begins.  The store makes one at a time here, and the next one    *)
(* when nothing of the last one can still happen.                          *)

First(k) ==
    CASE mode = "demo" -> "proving"
      [] mode = "direct" -> "execute"
      [] mode = "wallet" -> "ask"
      [] OTHER -> IF k = "shield" THEN "approve" ELSE "fee"

NoWallet == [at |-> "none", kind |-> "none", timeout |-> FALSE]
Quiet == /\ "pending" \notin {txs[r] : r \in Routes}
         /\ prompts = {}
         /\ w.at \notin {"oneshot", "prepare", "fallback"}

Idle == [at |-> "idle", kind |-> "batch", token |-> Strk, amount |-> 0,
         carrier |-> 0, announced |-> FALSE, unapproved |-> FALSE,
         have |-> 0, ceiling |-> 0, route |-> "oneshot"]

\* backendFor: an incomplete configuration falls back to the demo.
Init ==
    /\ mode \in Modes /\ patched \in BOOLEAN /\ fee \in Fees
    /\ signer \in (IF mode = "pool" THEN {"key", "wallet"} ELSE {"key"})
    /\ call = Idle /\ w = NoWallet /\ prompts = {}
    /\ slot = "free" /\ txs = [r \in Routes |-> "none"] /\ landed = 0
    /\ allowance = [t \in Tokens |-> 0]
    /\ notes = Genesis /\ replies = 0
    /\ calls = 0

Begin(k, t, a) ==
    /\ ~Working /\ Quiet /\ calls < MaxCalls
    /\ k \in Kinds[mode]
    /\ k \in {"batch", "register"} => t = Strk /\ a = 0
    /\ k \in {"pay", "shield"} => a > 0
    /\ mode = "demo" => t = Strk
    /\ call' = [Idle EXCEPT !.at = First(k), !.kind = k, !.token = t, !.amount = a]
    /\ calls' = calls + 1
    /\ slot' = "free" /\ txs' = [r \in Routes |-> "none"] /\ landed' = 0
    /\ w' = NoWallet
    /\ UNCHANGED <<config, prompts, allowance, demo>>

Call == \E k \in Kinds[mode], t \in Tokens, a \in Amounts \cup {0} : Begin(k, t, a)

-----------------------------------------------------------------------------
(* Demo: prove visibly, then apply everything at once to what is stored.   *)

Cancel ==   \* only submitBatch hands its signal down
    /\ At("proving") /\ call.kind = "batch"
    /\ Go("rejected")
    /\ UNCHANGED <<config, wallet, chain, demo, calls>>

Prove ==
    /\ At("proving")
    /\ Announce("applying")
    /\ UNCHANGED <<config, wallet, chain, demo, calls>>

Spend == IF call.kind = "pay" THEN call.amount ELSE 0
Shielded == IF call.kind = "shield" THEN call.amount ELSE 0

Refuses == Spend > notes \/ (Carries /\ slot # "free")

Apply ==
    /\ At("applying")
    /\ IF Refuses
       THEN /\ Go("rejected") /\ UNCHANGED <<slot, landed, demo>>
       ELSE /\ Go("resolved")
            /\ slot' = IF Carries THEN "mine" ELSE slot
            /\ landed' = landed + 1
            /\ notes' = notes - Spend + Shielded
            /\ replies' = replies + (IF call.kind = "batch" THEN 1 ELSE 0)
    /\ UNCHANGED <<config, wallet, txs, allowance, calls>>

\* The counterparty answers on the other lane, and may settle a request.
Reply(a) ==
    /\ replies > 0
    /\ replies' = replies - 1
    /\ notes' = notes + a
    /\ UNCHANGED <<config, call, wallet, chain, calls>>

DemoNext == Cancel \/ Prove \/ Apply \/ \E a \in Amounts \cup {0} : Reply(a)

-----------------------------------------------------------------------------
(* Handing a transaction in, over RPC, the gateway or the signing wallet:  *)
(* accepted, refused, or accepted with the answer lost.                    *)

Accepted == txs' = [txs EXCEPT !["oneshot"] = "pending"]
Post(stage) ==
    \/ Accepted /\ Announce(stage)
    \/ Accepted /\ Go("rejected")
    \/ UNCHANGED txs /\ Go("rejected")

Execute ==
    /\ At("execute")
    /\ Post("receipt")
    /\ UNCHANGED <<config, wallet, slot, landed, allowance, demo, calls>>

Receipt ==
    /\ At("receipt") /\ txs[call.route] \in {"ok", "reverted"}
    /\ Go(IF txs[call.route] = "ok" THEN "resolved" ELSE "rejected")
    /\ UNCHANGED <<config, wallet, chain, demo, calls>>

DirectNext == Execute \/ Receipt

-----------------------------------------------------------------------------
(* Pool mode: the allowances, the proof, the transaction.                  *)

Approve(t, a, stage) ==
    /\ allowance' = [allowance EXCEPT ![t] = a]
    /\ Go(stage)

\* shield: the receipt of this approval is awaited and not looked at.
ShieldApprove ==
    /\ At("approve")
    /\ \/ allowance[call.token] >= call.amount /\ Go("fee") /\ UNCHANGED allowance
       \/ allowance[call.token] < call.amount /\ Approve(call.token, call.amount, "fee")
       \/ /\ allowance[call.token] < call.amount
          /\ call' = [call EXCEPT !.at = "fee", !.unapproved = TRUE]
          /\ UNCHANGED allowance
       \/ Go("rejected") /\ UNCHANGED allowance
    /\ UNCHANGED <<config, wallet, slot, txs, landed, demo, calls>>

HasAllowanceLeft == fee = 0 \/ allowance[Strk] > 0   \* copy: any allowance will do
HasAllowance == fee = 0 \/ allowance[Strk] >= fee

EnsureFeeAllowance ==
    /\ At("fee")
    /\ \/ HasAllowance /\ Go("prove") /\ UNCHANGED allowance
       \/ ~HasAllowance /\ Approve(Strk, FeeTimes * fee, "prove")
       \/ Go("rejected") /\ UNCHANGED allowance
    /\ UNCHANGED <<config, wallet, slot, txs, landed, demo, calls>>

\* An SDK without the patch refuses a carrier of zero.
RefusesCarrier == ~patched /\ call.kind = "batch" /\ call.carrier = 0

Build ==
    /\ At("prove")
    /\ \/ ~RefusesCarrier /\ Go("bounds")
       \/ RefusesCarrier /\ call' = [call EXCEPT !.at = "fee", !.carrier = 1]
       \/ Go("rejected")
    /\ UNCHANGED <<config, wallet, chain, demo, calls>>

Bounds(have, l2, data) ==
    /\ At("bounds")
    /\ IF Affordable(have, l2, data) < MinL2
       THEN Go("rejected")
       ELSE call' = [call EXCEPT !.at = "post", !.have = have,
                                 !.ceiling = Ceiling(have, l2, data)]
    /\ UNCHANGED <<config, wallet, chain, demo, calls>>

\* A failure after the proof forgets the proof nonce; nothing is tried again.
Failed == Go("rejected")
ProofInvoke ==
    /\ At("post")
    /\ \/ Accepted /\ Announce("receipt")
       \/ Accepted /\ Failed
       \/ UNCHANGED txs /\ Failed
    /\ UNCHANGED <<config, wallet, slot, landed, allowance, demo, calls>>

PoolNext ==
    \/ ShieldApprove \/ EnsureFeeAllowance \/ Build \/ ProofInvoke
    \/ \E have \in Balances, p, q \in Prices : Bounds(have, Price(p), Price(q))

-----------------------------------------------------------------------------
(* The wallet, which is somebody else's program: it submits or not, and    *)
(* answers a request, late, wrongly or never.  An error it does not        *)
(* explain is UNKNOWN, and UNKNOWN or a timeout may come from a wallet     *)
(* that did submit, or will.                                               *)

Errors == {"REFUSED", "UNSUPPORTED", "UNKNOWN"}
Pending(r) == w.at = r /\ r \in Routes

WalletSubmits(r) ==
    /\ r \in prompts
    /\ prompts' = prompts \ {r}
    /\ txs' = [txs EXCEPT ![r] = "pending"]
    /\ UNCHANGED <<config, call, w, slot, landed, allowance, demo, calls>>

WalletAnswers(r) ==
    /\ Pending(r) /\ txs[r] # "none"
    /\ w' = [w EXCEPT !.at = "ok"]
    /\ call' = [call EXCEPT !.route = r]
    /\ UNCHANGED <<config, prompts, chain, demo, calls>>

\* strk20Submit: only an unsupported or unexplained one-shot is tried again.
TriesAgain(kind) == kind \in {"UNSUPPORTED", "UNKNOWN"}

WalletFails(r, kind, timeout) ==
    /\ Pending(r)
    /\ timeout => kind = "UNKNOWN"
    /\ kind # "UNKNOWN" => txs[r] = "none"
    /\ w' = [at |-> IF r = "oneshot" /\ TriesAgain(kind) THEN "prepare" ELSE "failed",
             kind |-> kind, timeout |-> timeout]
    /\ prompts' \in {prompts \ {r}} \cup (IF kind = "UNKNOWN" THEN {prompts} ELSE {})
    /\ UNCHANGED <<config, call, chain, demo, calls>>

Prepared ==
    /\ w.at = "prepare"
    /\ w' = [w EXCEPT !.at = "fallback"]
    /\ prompts' = prompts \cup {"fallback"}
    /\ UNCHANGED <<config, call, chain, demo, calls>>

\* The kind is the second error's; the first one's words stay if unexplained.
PrepareFails(kind, timeout) ==
    /\ w.at = "prepare"
    /\ timeout => kind = "UNKNOWN"
    /\ w' = [at |-> "failed", kind |-> kind, timeout |-> timeout \/ w.timeout]
    /\ UNCHANGED <<config, call, prompts, chain, demo, calls>>

WalletNext ==
    \/ Prepared
    \/ \E r \in Routes : WalletSubmits(r) \/ WalletAnswers(r)
    \/ \E kind \in Errors, timeout \in BOOLEAN :
          \/ PrepareFails(kind, timeout)
          \/ \E r \in Routes : WalletFails(r, kind, timeout)

-----------------------------------------------------------------------------
(* Wallet mode: the answer races a watch on the message's slot.            *)

Ask ==
    /\ At("ask")
    /\ \/ /\ Go("racing")
          /\ w' = [NoWallet EXCEPT !.at = "oneshot"] /\ prompts' = {"oneshot"}
       \/ /\ call.kind = "pay" /\ Go("rejected")   \* a payee without a viewing key
          /\ UNCHANGED wallet
    /\ UNCHANGED <<config, chain, demo, calls>>

Written == slot # "free"
WatchedBatch ==   \* copy: a payment hands no message to the watch
    At("racing") /\ call.kind = "batch" /\ w.at \notin {"ok", "failed"}
Watched == At("racing") /\ Carries /\ w.at \notin {"ok", "failed"}

SlotSeen ==
    /\ Watched /\ Written
    /\ Announce("resolved")
    /\ UNCHANGED <<config, wallet, chain, demo, calls>>

\* Ten minutes over: the race throws an error of its own, of no known kind.
WatchOver ==
    /\ Watched
    /\ Go("probing")
    /\ UNCHANGED <<config, wallet, chain, demo, calls>>

AnswerSeen ==
    /\ At("racing") /\ w.at = "ok"
    /\ Announce("receipt")
    /\ UNCHANGED <<config, wallet, chain, demo, calls>>

Ambiguous == w.timeout /\ Carries

FailureSeen ==
    /\ At("racing") /\ w.at = "failed"
    /\ IF Ambiguous THEN Announce("looking")
       ELSE Go(IF w.kind = "UNKNOWN" THEN "probing" ELSE "rejected")
    /\ UNCHANGED <<config, wallet, chain, demo, calls>>

LookEndsSure == {"resolved", "rejected"}   \* copy: the answer of the wait not looked at
LookEnds == IF Written THEN {"resolved", "rejected"} ELSE {"rejected"}
Look ==   \* four minutes, polled: the last poll may be just too early
    /\ At("looking")
    /\ \E end \in LookEnds : Go(end)
    /\ UNCHANGED <<config, wallet, chain, demo, calls>>

\* isolateActions asks the wallet again, and may wait for it for ever.
ProbeOver ==
    /\ At("probing")
    /\ Go("rejected")
    /\ UNCHANGED <<config, wallet, chain, demo, calls>>

SubmitNext ==
    \/ Ask \/ SlotSeen \/ WatchOver \/ AnswerSeen \/ FailureSeen \/ Look \/ ProbeOver

-----------------------------------------------------------------------------
Next ==
    \/ Call \/ OtherDevice \/ \E r \in Routes : Include(r)
    \/ DemoNext \/ DirectNext \/ PoolNext \/ WalletNext \/ SubmitNext

\* Waits of the application's own end, and so do a node, a prover and a
\* gateway; a wallet need not answer.
Signed == EnsureFeeAllowance \/ ShieldApprove \/ ProofInvoke
Fairness ==
    /\ WF_vars(Prove \/ Apply \/ Execute \/ Receipt \/ Build)
    /\ WF_vars(signer = "key" /\ Signed)
    /\ WF_vars(\E have \in Balances, p, q \in Prices : Bounds(have, Price(p), Price(q)))
    /\ WF_vars(\E r \in Routes : Include(r))
    /\ WF_vars(SlotSeen \/ WatchOver \/ AnswerSeen \/ FailureSeen \/ Look)

Spec == Init /\ [][Next]_vars /\ Fairness

-----------------------------------------------------------------------------
\* Every backend keeps the promise of Submission: no announcement twice, no
\* success without the effect on the chain, in whatever order the wallet, the
\* chain, the deadlines and the second attempts come.
Promised == INSTANCE Submission WITH
    stage <- IF Working THEN "working" ELSE call.at,
    announced <- call.announced,
    stored <- landed > 0,
    contested <- slot = "other"
Promise == Promised!Spec

\* A message and the payment it rides with take effect once, although
\* strk20Submit hands the same actions in twice and the pool client builds a
\* refused carrier anew: the slot is written once and takes its transaction
\* with it.  A deposit carries no message, and may land twice.
LandsOnce == landed <= 1 \/ (mode = "wallet" /\ call.kind = "shield" /\ landed = 2)

\* A proven transaction that deposits nothing finds the pool's fee in the
\* allowance, whatever earlier shields and payments left there.
FeeCovered ==
    Pulling /\ txs["oneshot"] = "pending" /\ call.kind # "shield"
        => allowance[Strk] >= fee

\* The approvals before a proven transaction cover everything the pool pulls
\* from the caller in it.
AllowanceCovers ==
    Pulling /\ txs["oneshot"] = "pending" /\ ~call.unapproved => Covered

\* The account can back every gas ceiling it signs.
CeilingBacked == call.ceiling <= call.have

\* A call that signs with the application's own key comes to an end; and one
\* that carries a message never waits for ever on a wallet that is silent,
\* except when it asks that wallet why it failed.
Settles ==
    /\ (mode # "wallet" /\ signer = "key" /\ Working) ~> Settled
    /\ (At("racing") /\ Carries) ~> (Settled \/ At("probing"))
    /\ At("looking") ~> Settled
=============================================================================
