---------------------------- MODULE RelayMarket ------------------------------
(***************************************************************************)
(* The relayer's market: whether the reward of a validator set, the fees   *)
(* of a batch or the fees of a logic call are worth the gas.  A reward is  *)
(* priced in WETH by an exchange, which has no price for some tokens; the  *)
(* fees of a logic call are several rewards, added up in the order of a    *)
(* hash map, that is, in any order.                                        *)
(***************************************************************************)
EXTENDS Integers, FiniteSetsExt

CONSTANTS Weth,     \* the token that counts as ether
          Others,   \* other tokens
          Amounts,  \* rewards
          Costs,    \* gas times gas price
          Prices,   \* of one unit of a token; None: the exchange has none
          None      \* model value

Tokens == Others \cup {Weth}

\* Who offers what: at most one reward of a validator set, one token of a
\* batch, any number of fees of a logic call (those of one token added up).
Items ==
    [kind : {"valset"}, rewards : UNION {[T -> Amounts] : T \in {S \in SUBSET Tokens : Cardinality(S) <= 1}}]
    \cup [kind : {"batch"}, rewards : UNION {[{t} -> Amounts] : t \in Tokens}]
    \cup [kind : {"call"}, rewards : UNION {[T -> Amounts] : T \in SUBSET Tokens}]

VARIABLES item,     \* what is offered
          enabled,  \* whether the market of its kind is switched on
          price,    \* [Others -> Prices or None]
          cost,     \* of relaying it
          todo,     \* tokens of a logic call that are not yet added up
          total,    \* total_weth_reward
          verdict   \* should_relay, None before

vars == <<item, enabled, price, cost, todo, total, verdict>>

Init ==
    /\ item \in Items
    /\ enabled \in BOOLEAN
    /\ price \in [Others -> Prices \cup {None}]
    /\ cost \in Costs
    /\ todo = DOMAIN item.rewards
    /\ total = 0
    /\ verdict = None

Say(v) == verdict' = v /\ UNCHANGED <<item, enabled, price, cost, todo, total>>

\* The exchange's answer for a whole reward.  WETH is not sold for WETH.
get_uniswap_price(t) ==
    IF t = Weth \/ price[t] = None THEN None ELSE price[t] * item.rewards[t]

\* RelayerConfig: without a market everything is relayed.
NoMarket == ~enabled /\ verdict = None /\ Say(TRUE)

should_relay_batch ==
    /\ enabled /\ verdict = None /\ item.kind = "batch"
    /\ \E t \in DOMAIN item.rewards :
         Say(IF t = Weth THEN item.rewards[t] > cost
             ELSE get_uniswap_price(t) # None /\ get_uniswap_price(t) > cost)

\* A reward in another token is not looked at; one in WETH that does not
\* cover the cost is offered to the exchange.
should_relay_valset ==
    /\ enabled /\ verdict = None /\ item.kind = "valset"
    /\ Say(\E t \in DOMAIN item.rewards :
             /\ t = Weth
             /\ \/ item.rewards[t] > cost
                \/ get_uniswap_price(t) # None /\ get_uniswap_price(t) > cost)

\* Wrong variant of should_relay_logic_call: a token without a price ends it.
should_relay_priced_call ==
    /\ enabled /\ verdict = None /\ item.kind = "call"
    /\ IF todo = {} THEN Say(FALSE)
       ELSE \E t \in todo :
              LET value == IF t = Weth THEN item.rewards[t] ELSE get_uniswap_price(t) IN
              IF value = None THEN Say(FALSE)
              ELSE /\ todo' = todo \ {t}
                   /\ total' = total + value
                   /\ verdict' = IF total' > cost THEN TRUE ELSE None
                   /\ UNCHANGED <<item, enabled, price, cost>>

\* One token of the map: a token without a price is passed over, and the loop
\* ends as soon as there is enough.
should_relay_logic_call ==
    /\ enabled /\ verdict = None /\ item.kind = "call"
    /\ IF todo = {} THEN Say(FALSE)
       ELSE \E t \in todo :
              LET value == IF t = Weth THEN item.rewards[t] ELSE get_uniswap_price(t) IN
              /\ todo' = todo \ {t}
              /\ total' = total + (IF value = None THEN 0 ELSE value)
              /\ verdict' = IF value # None /\ total' > cost THEN TRUE ELSE None
              /\ UNCHANGED <<item, enabled, price, cost>>

Next ==
    NoMarket \/ should_relay_batch \/ should_relay_valset \/ should_relay_logic_call

Spec == Init /\ [][Next]_vars

-----------------------------------------------------------------------------
\* What the offer is worth, as far as the exchange has prices.
Value(t) ==
    IF t = Weth THEN item.rewards[t]
    ELSE IF price[t] = None THEN 0 ELSE price[t] * item.rewards[t]
Profitable == MapThenSumSet(Value, DOMAIN item.rewards) > cost

(* A market that is switched on never lets the relayer pay more than it    *)
(* earns, and a batch or logic call that is worth its gas is relayed,      *)
(* though an exchange has no price for one of the fees and whichever fee   *)
(* comes first.                                                            *)
RelaysWhatPays ==
    enabled =>
        /\ verdict = TRUE => Profitable
        /\ item.kind # "valset" /\ verdict = FALSE => ~Profitable
=============================================================================
