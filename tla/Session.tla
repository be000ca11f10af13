------------------------------ MODULE Session ------------------------------
(***************************************************************************)
(* A browser's session with the web application, from the disclosures of   *)
(* Onboarding.tsx over the connection form of Settings.tsx to Disconnect,  *)
(* and the configuration the store keeps of it.  The user clicks whatever  *)
(* is enabled; requests to the wallet and to a node stay open across later *)
(* clicks, and their continuations run on what they captured.              *)
(*                                                                         *)
(* An address, a contract and a node URL are the network they belong to:   *)
(* the presets of presets.ts are one value each.  Text typed over a field  *)
(* is left out; so are the pool and direct forms, which no button of this  *)
(* build opens.                                                            *)
(***************************************************************************)
EXTENDS Naturals, FiniteSets

CONSTANTS
    Sepolia, Mainnet,
    Accounts,        \* accounts the wallet may offer
    Contacts,        \* contacts the user may add
    None,
    MaxOpen          \* bound: requests open at a time

Nets == {Sepolia, Mainnet}
Disclosures == 1..3
Modes == {"demo", "wallet", "pool"}

\* What the store keeps of a session, and the fields of the connection form.
Configs ==
    [mode : Modes, account : Accounts, rpc : Nets \cup {None},
     helper : Nets \cup {None}, pool : Nets \cup {None}, key : BOOLEAN]
Forms ==
    [over : Modes, rpc : Nets, helper : Nets \cup {None}, pool : Nets,
     account : Accounts \cup {None}, picked : BOOLEAN,
     net : Nets, chain : Nets \cup {None}, moved : BOOLEAN]

ASSUME SessionAssumption ==
    /\ Sepolia # Mainnet /\ MaxOpen \in Nat
    /\ None \notin Nets \cup Accounts \cup Configs \cup Forms

VARIABLES
    config, contacts,  \* the store, and localStorage: saved together
    ob,        \* the onboarding screen
    form,      \* the mounted connection form, or None
    open,      \* requests that await an answer, with what they captured
    chain,     \* the network the wallet is on
    file,      \* a backup the user keeps
    acked      \* ghost: disclosures acknowledged in this browser

store == <<config, contacts>>
vars == <<store, ob, form, open, chain, file, acked>>

NoWallet == None
Fresh ==
    [step |-> 0, scrolled |-> FALSE, acks |-> {}, keys |-> None,
     restoring |-> FALSE, wallet |-> NoWallet, shielding |-> FALSE, signing |-> FALSE]

\* A screen that unmounts loses its state; of the requests it leaves only the
\* signature still does anything when it is answered.
Left(where) ==
    {r \in open : r.where # where} \cup
    {[r EXCEPT !.where = "gone"] : r \in {q \in open : q.where = where /\ q.kind = "sign"}}

Init ==
    /\ config = None /\ contacts = {}
    /\ ob = Fresh /\ form = None /\ open = {}
    /\ chain \in Nets /\ file = None /\ acked = {}

Onboarding == config = None
CanAsk == Cardinality(open) < MaxOpen

-----------------------------------------------------------------------------
(* The screen's steps: disclosures, key, demo defaults.                    *)

CanContinueSome == ob.scrolled /\ ob.acks # {}   \* copy: one tick is enough
CanContinue == ob.scrolled /\ ob.acks = Disclosures

Show(o) ==
    /\ Onboarding /\ ob' = o
    /\ UNCHANGED <<store, form, open, chain, file, acked>>

Scroll == ob.step = 0 /\ ~ob.scrolled /\ Show([ob EXCEPT !.scrolled = TRUE])

Tick(d) ==
    /\ Onboarding /\ ob.step = 0 /\ ob.scrolled
    /\ ob' = [ob EXCEPT !.acks = IF d \in @ THEN @ \ {d} ELSE @ \cup {d}]
    /\ acked' = acked \cup {d}
    /\ UNCHANGED <<store, form, open, chain, file>>

GoTo(n) ==
    /\ Onboarding /\ ob.step # n
    /\ ob' = [Fresh EXCEPT !.step = n, !.scrolled = ob.scrolled, !.acks = ob.acks, !.keys = ob.keys]
    /\ open' = Left("ob")
    /\ UNCHANGED <<store, form, chain, file, acked>>

Continue == ob.step = 0 /\ CanContinue /\ GoTo(1)
Back == ob.step > 0 /\ GoTo(ob.step - 1)
KeyDone == ob.step = 1 /\ ob.keys # None /\ GoTo(2)

\* The shell's routes: back to the disclosures, or on to the defaults.
ToCompliance == GoTo(0)
ToTradeoffs == ob.keys # None /\ GoTo(2)

Choosing == ob.step = 1 /\ ob.keys = None /\ ob.wallet = NoWallet
NewKey(a) ==
    /\ Choosing /\ ~ob.restoring
    /\ Show([ob EXCEPT !.keys = [account |-> a, contacts |-> {}, key |-> TRUE]])
OpenRestore == Choosing /\ ~ob.restoring /\ Show([ob EXCEPT !.restoring = TRUE])
CloseRestore == ob.step = 1 /\ ob.keys = None /\ ob.restoring /\ Show([ob EXCEPT !.restoring = FALSE])
Parses(f) == f.key   \* parseBackup refuses a file without a viewing key
Restore ==
    /\ ob.step = 1 /\ ob.keys = None /\ ob.restoring /\ file # None /\ Parses(file)
    /\ Show([ob EXCEPT !.keys = file])

StepsNext ==
    \/ Scroll \/ Continue \/ Back \/ KeyDone \/ ToCompliance \/ ToTradeoffs
    \/ OpenRestore \/ CloseRestore \/ Restore
    \/ \E d \in Disclosures : Tick(d)
    \/ \E a \in Accounts : NewKey(a)

-----------------------------------------------------------------------------
(* Leaving onboarding.  The screen unmounts: its continuations still run,  *)
(* and only what they do to the store is seen.                             *)

Config(mode, net, a) ==   \* in wallet mode the viewing key is the wallet's
    [mode |-> mode, account |-> a, rpc |-> net, helper |-> net, pool |-> net,
     key |-> mode # "wallet"]

CompleteOnboarding(c, cs) ==
    /\ config' = c /\ contacts' = cs
    /\ ob' = Fresh

FinishDemo ==
    /\ Onboarding /\ ob.step = 2 /\ ob.keys # None
    /\ CompleteOnboarding(Config("demo", None, ob.keys.account), ob.keys.contacts)
    /\ open' = Left("ob")
    /\ UNCHANGED <<form, chain, file, acked>>

Picked == Onboarding /\ ob.step = 1 /\ ob.keys = None /\ ob.wallet # NoWallet

FinishWithWallet ==
    /\ Picked /\ ob.wallet.support # "checking"
    /\ CompleteOnboarding(Config("wallet", ob.wallet.net, ob.wallet.account), {})
    /\ open' = Left("ob")
    /\ UNCHANGED <<form, chain, file, acked>>

\* The signature may come when another session has long begun.
Signed(r) ==
    /\ r.kind = "sign"
    /\ CompleteOnboarding(Config("pool", r.net, r.account), {})
    /\ open' = Left("ob") \ {r, [r EXCEPT !.where = "gone"]}
    /\ UNCHANGED <<form, chain, file, acked>>

-----------------------------------------------------------------------------
(* Requests to the wallet, from either screen.                             *)

Request(r) == CanAsk /\ open' = open \cup {r}
Ask(where) == [kind |-> "connect", where |-> where, net |-> None, account |-> None]
Wallet(net, a, support) == [net |-> net, account |-> a, support |-> support]
Other(net) == IF net = Sepolia THEN Mainnet ELSE Sepolia

Connect ==   \* offered before a wallet is picked, and after a failed one
    /\ Onboarding /\ Choosing /\ ~ob.restoring
    /\ Request(Ask("ob"))
    /\ UNCHANGED <<store, ob, form, chain, file, acked>>

SwitchOnboarding ==
    /\ Picked
    /\ Request([Ask("ob") EXCEPT !.kind = "switch", !.net = Other(ob.wallet.net)])
    /\ UNCHANGED <<store, ob, form, chain, file, acked>>

Shield ==
    /\ Picked /\ ~ob.shielding
    /\ Request([Ask("ob") EXCEPT !.kind = "shield", !.net = ob.wallet.net, !.account = ob.wallet.account])
    /\ ob' = [ob EXCEPT !.shielding = TRUE]
    /\ UNCHANGED <<store, form, chain, file, acked>>

Sign ==
    /\ Picked /\ ~ob.signing
    /\ Request([Ask("ob") EXCEPT !.kind = "sign", !.net = ob.wallet.net, !.account = ob.wallet.account])
    /\ ob' = [ob EXCEPT !.signing = TRUE]
    /\ UNCHANGED <<store, form, chain, file, acked>>

CheckAgain ==
    /\ Picked /\ ob.wallet.support # "checking"
    /\ Request([Ask("ob") EXCEPT !.kind = "recheck"])
    /\ ob' = [ob EXCEPT !.wallet.support = "checking"]
    /\ UNCHANGED <<store, form, chain, file, acked>>

Unpick == Picked /\ Show([ob EXCEPT !.wallet = NoWallet])

\* The wallet names an account and its network; then it is probed for STRK20.
Connected(r, a) ==
    /\ r.kind = "connect"
    /\ open' = (open \ {r}) \cup {[r EXCEPT !.kind = "probe", !.net = chain, !.account = a]}
    /\ IF r.where = "ob"
       THEN ob' = [ob EXCEPT !.wallet = Wallet(chain, a, "checking")] /\ UNCHANGED form
       ELSE /\ form' = [form EXCEPT !.account = a, !.picked = TRUE, !.chain = chain, !.moved = FALSE]
            /\ UNCHANGED ob
    /\ UNCHANGED <<store, chain, file, acked>>

\* Probed, or shielded and probed: the wallet captured by the request returns.
Probed(r) ==
    /\ r.kind \in {"probe", "shield"}
    /\ open' = open \ {r}
    /\ IF r.where = "ob"
       THEN ob' = [ob EXCEPT !.wallet = Wallet(r.net, r.account, "known"),
                             !.shielding = IF r.kind = "shield" THEN FALSE ELSE @]
       ELSE UNCHANGED ob
    /\ UNCHANGED <<store, form, chain, file, acked>>

\* The second probe answers for whatever wallet is shown by then.
Rechecked(r) ==
    /\ r.kind = "recheck"
    /\ open' = open \ {r}
    /\ ob' = IF ob.wallet = NoWallet THEN ob ELSE [ob EXCEPT !.wallet.support = "known"]
    /\ UNCHANGED <<store, form, chain, file, acked>>

SwitchSeenAlways(ok) == TRUE   \* copy: the answer of the wallet not looked at
SwitchSeen(ok) == ok

Switched(r, ok) ==
    /\ r.kind = "switch"
    /\ chain' = IF ok THEN r.net ELSE chain
    /\ open' = (open \ {r}) \cup (IF SwitchSeen(ok) /\ r.where = "ob" THEN {Ask("ob")} ELSE {})
    /\ form' = IF SwitchSeen(ok) /\ r.where = "form"
               THEN [form EXCEPT !.chain = r.net] ELSE form
    /\ UNCHANGED <<store, ob, file, acked>>

Failed(r) ==
    /\ open' = open \ {r}
    /\ r.kind \notin {"probe", "recheck"}   \* a probe that fails is an answer too
    /\ ob' = [ob EXCEPT !.shielding = @ /\ <<r.kind, r.where>> # <<"shield", "ob">>,
                        !.signing = @ /\ <<r.kind, r.where>> # <<"sign", "ob">>]
    /\ UNCHANGED <<store, form, chain, file, acked>>

\* The user changes the network in the wallet itself.
WalletMoves ==
    /\ chain' = Other(chain)
    /\ form' = IF form = None THEN None ELSE [form EXCEPT !.moved = TRUE]
    /\ UNCHANGED <<store, ob, open, file, acked>>

WalletNext ==
    \/ Connect \/ SwitchOnboarding \/ Shield \/ Sign \/ CheckAgain \/ Unpick \/ WalletMoves
    \/ \E r \in open :
          \/ Signed(r) \/ Probed(r) \/ Rechecked(r) \/ Failed(r)
          \/ \E a \in Accounts : Connected(r, a)
          \/ \E ok \in BOOLEAN : Switched(r, ok)

-----------------------------------------------------------------------------
(* Settings.  The form's fields start from the configuration it is mounted *)
(* on: when the dialog opens, and when its tab is shown again.  Escape, the *)
(* cross, another tab and the timer of a save unmount it.                  *)

IsNet(v) == IF v = None THEN Sepolia ELSE v
OpenForm ==
    /\ ~Onboarding /\ form = None
    /\ form' = [over |-> config.mode,
                rpc |-> IsNet(config.rpc),
                helper |-> IF config.mode = "pool" THEN config.helper ELSE Sepolia,
                pool |-> IsNet(config.pool),
                account |-> IF config.mode = "wallet" THEN config.account ELSE None,
                picked |-> config.mode \in {"wallet", "pool"},
                net |-> IF config.mode = "wallet" THEN config.rpc ELSE Sepolia,
                chain |-> None, moved |-> FALSE]
    /\ UNCHANGED <<store, ob, open, chain, file, acked>>

PresetPartly(net) ==   \* copy: the pool's address left as it was
    [form EXCEPT !.net = net, !.rpc = net, !.helper = net]
Preset(net) ==
    [form EXCEPT !.net = net, !.rpc = net, !.helper = net, !.pool = net]
ApplyWalletPreset(net) ==
    /\ form # None
    /\ form' = Preset(net)
    /\ UNCHANGED <<store, ob, open, chain, file, acked>>

Reconnect ==
    /\ form # None
    /\ Request(Ask("form"))
    /\ UNCHANGED <<store, ob, form, chain, file, acked>>

Mismatch == form.chain # None /\ form.chain # form.net
SwitchForm ==
    /\ form # None /\ form.picked /\ Mismatch
    /\ Request([Ask("form") EXCEPT !.kind = "switch", !.net = form.net])
    /\ UNCHANGED <<store, ob, form, chain, file, acked>>

WalletReady == form.account # None /\ form.picked /\ ~Mismatch

Save ==
    /\ form # None /\ WalletReady
    /\ config' = [mode |-> "wallet", account |-> form.account, rpc |-> form.rpc,
                  helper |-> form.helper, pool |-> form.pool, key |-> config.key]
    /\ UNCHANGED <<contacts, ob, form, open, chain, file, acked>>

Close ==
    /\ form # None
    /\ form' = None /\ open' = Left("form")
    /\ UNCHANGED <<store, ob, chain, file, acked>>

Backup ==
    /\ ~Onboarding /\ form = None
    /\ file' = [account |-> config.account, contacts |-> contacts, key |-> config.key]
    /\ UNCHANGED <<store, ob, form, open, chain, acked>>

Disconnect ==
    /\ ~Onboarding /\ form = None
    /\ config' = None /\ contacts' = {} /\ ob' = Fresh
    /\ UNCHANGED <<form, open, chain, file, acked>>

AddContact(c) ==
    /\ ~Onboarding /\ form = None /\ c \notin contacts
    /\ contacts' = contacts \cup {c}
    /\ UNCHANGED <<config, ob, form, open, chain, file, acked>>

SettingsNext ==
    \/ OpenForm \/ Reconnect \/ SwitchForm \/ Save \/ Close \/ Backup \/ Disconnect
    \/ \E net \in Nets : ApplyWalletPreset(net)
    \/ \E c \in Contacts : AddContact(c)

-----------------------------------------------------------------------------
Next == StepsNext \/ FinishDemo \/ FinishWithWallet \/ WalletNext \/ SettingsNext

Spec == Init /\ [][Next]_vars

-----------------------------------------------------------------------------
\* Nobody gets a session without having ticked all three disclosures, by
\* whatever way through the steps, the routes, the wallet and late answers.
Acknowledged == ~Onboarding => acked = Disclosures

\* The node, of which the application reads, serves the network of the pool.
RpcServesPool == ~Onboarding => config.rpc = config.pool

\* What Save stores is of the network the wallet said it is on, through
\* reconnections, presets and switches in any order, unless the wallet was
\* moved behind the form's back or the form was opened on a pool connection.
SavesWhereConnected ==
    [][Save /\ form.chain # None /\ form.over # "pool" /\ ~form.moved
          => {config'.rpc, config'.pool} = {chain}]_vars
=============================================================================
