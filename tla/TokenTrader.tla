----------------------------- MODULE TokenTrader -----------------------------
(* The trading client: BaseClient (membase/chain/evm.py), BeeperClient     *)
(* (beeper.py) and TraderClient (trader.py) of one wallet.  Its calls are  *)
(* made one after the other; meanwhile blocks are mined, the wallet is     *)
(* used elsewhere, and the node that is read may be a transaction behind.  *)
EXTENDS Integers, Sequences

CONSTANTS
    Tokens,         \* tokens that may have a pool with the native one
    Native,         \* the native token, or its wrapped form in a path
    Tiers,          \* fee tiers in the order they are tried, 1..Tiers
    MaxMined,       \* bound: transactions mined, but for a deployment
    MaxRecords      \* bound: records a report is made of

Pools == Tokens \X (1..Tiers)

(* chain and lagging, the wallet on the chain and at the node before the   *)
(* last transaction; behind, whether the node is there still; pools;       *)
(* nonce, self._nonce; config, whether the new contracts are configured;   *)
(* deployed, contracts of a deployment; job, what the client does; done,   *)
(* the last trade's record; shown, the records of the last report.         *)
VARIABLE market

Wallet == [next : Nat, token : Int, native : Int, approved : BOOLEAN]

Idle == [at |-> "idle"]

TypeOK ==
    /\ market.chain \in Wallet /\ market.lagging \in Wallet
    /\ market.nonce \in Nat /\ market.deployed \in 0..5
    /\ market.job.at \in {"idle", "ready", "sending", "after", "deploying"}

Init ==
    \E pools \in SUBSET Pools, approved \in BOOLEAN :
        LET start == [next |-> 0, token |-> 0, native |-> 0, approved |-> approved] IN
        market = [chain |-> start, lagging |-> start, behind |-> FALSE, pools |-> pools,
                  nonce |-> 0, config |-> FALSE, deployed |-> 0, job |-> Idle,
                  done |-> Idle, shown |-> <<>>]

(* What the node answers.                                                  *)
Seen == IF market.behind THEN market.lagging ELSE market.chain

-----------------------------------------------------------------------------
(* Routes (beeper.py).  A route is the sequence of tokens and tiers of a   *)
(* swap, <<>> where the code raises; pools has the token and the tier of   *)
(* those that exist.                                                       *)

HasPool(pools, token, tier) == <<token, tier>> \in pools

(* get_token_pool: the first tier with a pool, 0 without.                  *)
FirstTier(pools, token) ==
    LET tiers == {i \in 1..Tiers : HasPool(pools, token, i)} IN
    IF tiers = {} THEN 0 ELSE CHOOSE i \in tiers : \A j \in tiers : i <= j

(* _encode_path: no tier follows a token that equals the last.             *)
EncodePath(tokens, tiers) ==
    LET part(i) == IF tokens[i] # tokens[Len(tokens)] THEN <<tokens[i], tiers[i]>>
                   ELSE <<tokens[i]>> IN
    IF Len(tokens) = 2 THEN part(1) \o part(2) ELSE part(1) \o part(2) \o part(3)

(* _native_to_token and _token_to_native: another tier if the one given    *)
(* has no pool.                                                            *)
Tier(pools, token, tier) ==
    IF HasPool(pools, token, tier) THEN tier ELSE FirstTier(pools, token)

(* make_trade; in or out is the native token.                              *)
NativeRoute(pools, in, out, tier) ==
    LET t == Tier(pools, IF in = Native THEN out ELSE in, tier) IN
    IF t = 0 THEN <<>> ELSE <<in, t, out>>

(* _token_to_token_via_hop.                                                *)
HopRoute(pools, in, out) ==
    LET first == FirstTier(pools, in)
        second == FirstTier(pools, out) IN
    IF first = 0 \/ second = 0 THEN <<>>
    ELSE EncodePath(<<in, Native, out>>, <<first, second>>)

(* _token_to_token: the wrapped native token is swapped at the tier given. *)
SwapRoute(pools, in, out, tier) ==
    IF Native \in {in, out} THEN <<in, tier, out>> ELSE HopRoute(pools, in, out)

(* _get_token_to_token_input_price: the route of the quote.                *)
Quoted(pools, in, out, tier) ==
    IF Native \in {in, out}
    THEN LET token == IF in = Native THEN out ELSE in
             t == IF HasPool(pools, token, tier) THEN tier ELSE FirstTier(pools, token) IN
         IF t = 0 THEN <<>> ELSE EncodePath(<<in, out>>, <<t>>)
    ELSE HopRoute(pools, in, out)

-----------------------------------------------------------------------------
(* Transactions (evm.py).                                                  *)

(* get_tx_params: the nonce kept, unless the node's is beyond it or more   *)
(* than one before it.                                                     *)
NextNonce ==
    LET got == Seen.next IN
    IF market.nonce > got + 1 \/ market.nonce < got THEN got ELSE market.nonce

(* _transfer of coins does not reset the nonce kept, set_admin takes that  *)
(* of the node.                                                            *)
NonceFor(kind) ==
    CASE kind = "coins" -> IF market.nonce > Seen.next THEN market.nonce ELSE Seen.next
      [] kind = "admin" -> Seen.next
      [] OTHER -> NextNonce

Keeps(kind) == kind \in {"coins", "admin"}

BumpedAlways(nonce, mined) == nonce + 1

(* build_and_send_tx: only a transaction that succeeded counts.            *)
Bumped(nonce, mined) == IF mined THEN nonce + 1 ELSE nonce

Mined(m, new) == [m EXCEPT !.chain = [new EXCEPT !.next = m.chain.next + 1], !.lagging = m.chain]

(* What a transaction does to the wallet: each costs one unit of gas, and  *)
(* trades move one.                                                        *)
Effect(w, kind) ==
    LET paid == [w EXCEPT !.native = @ - 1] IN
    CASE kind = "buy" -> [paid EXCEPT !.token = @ + 1, !.native = @ - 1]
      [] kind = "sell" -> [paid EXCEPT !.token = @ - 1, !.native = @ + 1]
      [] kind = "approve" -> [paid EXCEPT !.approved = TRUE]
      [] kind = "transfer" -> [paid EXCEPT !.token = @ - 1]
      [] OTHER -> paid

Room(n) == market.chain.next + n <= MaxMined

Job(kind, in, out, tier, route) ==
    [at |-> "ready", kind |-> kind, in |-> in, out |-> out, tier |-> tier, route |-> route,
     now |-> kind, nonce |-> 0, before |-> Seen, clean |-> ~market.behind, approved |-> FALSE]

Start(kind, in, out, tier, route) ==
    market' = IF route = <<>> THEN [market EXCEPT !.done = [at |-> "error"]]
              ELSE [market EXCEPT !.job = Job(kind, in, out, tier, route), !.done = Idle]

Free(n) == market.job.at = "idle" /\ market.shown = <<>> /\ Room(n)

(* buy and sell of the trader: the balances are read, then the route.      *)
Trade ==
    /\ Free(2)
    /\ \E token \in Tokens, tier \in 1..Tiers :
         \/ Start("buy", Native, token, tier, NativeRoute(market.pools, Native, token, tier))
         \/ Start("sell", token, Native, tier, NativeRoute(market.pools, token, Native, tier))

(* make_trade between tokens.                                              *)
Swap ==
    /\ Free(2)
    /\ \E in, out \in Tokens \cup {Native}, tier \in 1..Tiers :
         in # out /\ Start("swap", in, out, tier, SwapRoute(market.pools, in, out, tier))

(* Calls of one transaction without a route: transfer_asset of a token or  *)
(* of coins, set_admin, and others, claim_reward and deploy_token.         *)
Plain ==
    /\ Free(1)
    /\ \E kind \in {"transfer", "coins", "admin", "other"} : Start(kind, Native, Native, 1, <<Native>>)

(* The parameters of the next transaction; check_appraval comes first.     *)
Params ==
    /\ market.job.at = "ready"
    /\ LET approves == market.job.kind \in {"sell", "swap"} /\ ~Seen.approved IN
       market' = [market EXCEPT
           !.nonce = IF Keeps(market.job.kind) THEN @ ELSE NextNonce,
           !.job.at = "sending", !.job.nonce = NonceFor(market.job.kind),
           !.job.now = IF approves THEN "approve" ELSE market.job.kind,
           !.job.approved = @ \/ approves]

(* The trade raises, or returns None: buy and sell report an error.        *)
Gives(m, up) == [m EXCEPT !.job = Idle, !.done = [at |-> "error"], !.nonce = up]

Succeeds(m) ==
    CASE m.job.now = "approve" -> [m EXCEPT !.job.at = "ready"]
      [] m.job.now # "approve" /\ m.job.kind \in {"buy", "sell"} -> [m EXCEPT !.job.at = "after"]
      [] OTHER -> [m EXCEPT !.job = Idle]

(* build_and_send_tx: a transaction with a nonce that is used up or with a *)
(* gap before it is not mined; another is, and succeeds or is reverted.    *)
Send ==
    /\ market.job.at = "sending"
    /\ LET j == market.job
           count(mined) == IF Keeps(j.kind) THEN market.nonce ELSE Bumped(market.nonce, mined) IN
       \/ market' = Gives(market, count(FALSE))
       \/ /\ j.nonce = market.chain.next
          /\ \E behind \in BOOLEAN, ok \in BOOLEAN :
               LET after == Effect(market.chain, IF ok THEN j.now ELSE "reverted")
                   m == [Mined(market, after) EXCEPT !.behind = behind] IN
               market' = IF ok THEN Succeeds([m EXCEPT !.nonce = count(TRUE)])
                         ELSE Gives(m, count(FALSE))

(* buy and sell wait until the node shows another balance than before.     *)
ShowsTheTrade(j) == Seen.token # j.before.token

(* The record of the trade.                                                *)
Record ==
    /\ market.job.at = "after" /\ ShowsTheTrade(market.job)
    /\ LET j == market.job IN
       market' = [market EXCEPT !.job = Idle,
           !.done = [at |-> "record", kind |-> j.kind, clean |-> j.clean, approved |-> j.approved,
                     token |-> Seen.token - j.before.token,
                     native |-> Seen.native + 1 - j.before.native]]

-----------------------------------------------------------------------------
(* deploy: five transactions with nonces counted on, which build_and_send  *)
(* does not make.  A failure ends the process; only after the last one are *)
(* the contracts configured.                                               *)
SetUp(deployed) == deployed = 5

Deploy ==
    /\ Free(1)
    /\ market' = [market EXCEPT !.deployed = 0, !.config = FALSE,
                     !.job = [Job("deploy", Native, Native, 1, <<>>) EXCEPT
                                !.at = "deploying", !.nonce = Seen.next]]

Later(j) == [j EXCEPT !.nonce = @ + 1]

DeployNext ==
    /\ market.job.at = "deploying"
    /\ LET n == market.deployed + 1
           m == Mined(market, Effect(market.chain, "deploy")) IN
       \/ /\ market.job.nonce = market.chain.next
          /\ market' = [m EXCEPT !.deployed = n, !.config = SetUp(n), !.behind = FALSE,
                            !.job = IF n = 5 THEN Idle ELSE Later(@)]
       \/ market' = [market EXCEPT !.job = Idle, !.nonce = Seen.next, !.done = [at |-> "exit"]]

-----------------------------------------------------------------------------
(* The wallet is used elsewhere.                                           *)
Elsewhere ==
    /\ Room(1)
    /\ \E kind \in {"transfer", "other"}, behind \in BOOLEAN :
         market' = [Mined(market, Effect(market.chain, kind)) EXCEPT
                      !.behind = behind,
                      !.job = IF @.at = "idle" THEN @ ELSE [@ EXCEPT !.clean = FALSE]]

CatchUp == market.behind /\ market' = [market EXCEPT !.behind = FALSE]

(* get_info: of total records at most n, the oldest, the newest, and those *)
(* at equal steps between them.                                            *)
Sample(total, n) ==
    IF total <= n THEN [i \in 1..total |-> i - 1]
    ELSE LET step == (total - 1) \div (n - 1) IN
         [i \in 1..n |-> IF i = n THEN total - 1 ELSE (i - 1) * step]

GetInfo ==
    \E total \in 1..MaxRecords, n \in 2..MaxRecords :
        /\ Free(MaxMined) /\ market.done = Idle
        /\ market' = [market EXCEPT !.shown = Sample(total, n)]

Next ==
    \/ Trade \/ Swap \/ Plain \/ Params \/ Send \/ Record
    \/ Deploy \/ DeployNext \/ Elsewhere \/ CatchUp \/ GetInfo

Spec == Init /\ [][Next]_market

-----------------------------------------------------------------------------
(* A transaction never has a nonce beyond the next one of the wallet: it   *)
(* would wait for one that nobody sends (get_tx_params, lines 217-239).    *)
NoncesLeaveNoGap ==
    market.job.at \in {"sending", "deploying"} => market.job.nonce <= market.chain.next

(* What buy and sell put on record is the trade alone: the tokens always,  *)
(* the native coins if no approval was paid in between; unless the wallet  *)
(* was used elsewhere or the balance before was read at a node that lagged *)
(* (trader.py, lines 217-320).                                             *)
RecordsAreTheTrades ==
    market.done.at = "record" /\ market.done.clean =>
        LET sign == IF market.done.kind = "buy" THEN 1 ELSE -1 IN
        /\ market.done.token = sign
        /\ ~market.done.approved => market.done.native = -sign

(* A swap with the native coin, or with a hop, goes where it was quoted,   *)
(* through pools that exist (beeper.py, lines 315-456, 573-616).           *)
RoutesAreQuoted ==
    market.job.at \in {"ready", "sending", "after"} =>
        LET j == market.job IN
        j.kind \in {"buy", "sell", "swap"} /\ ~(j.kind = "swap" /\ Native \in {j.in, j.out}) =>
            /\ j.route = Quoted(market.pools, j.in, j.out, j.tier)
            /\ \A i \in DOMAIN j.route :
                 i % 2 = 0 => \E t \in {j.route[i - 1], j.route[i + 1]} \ {Native} :
                                HasPool(market.pools, t, j.route[i])

(* The contracts of a deployment are configured all or none; a report has  *)
(* its records in order, from the oldest to the newest, none twice.        *)
ReportsAreWhole ==
    /\ market.config => market.deployed = 5
    /\ \A i \in 2..Len(market.shown) : market.shown[i - 1] < market.shown[i]
=============================================================================
