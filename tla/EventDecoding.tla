--------------------------- MODULE EventDecoding ---------------------------
(***************************************************************************)
(* How the orchestrator reads the logs of Gravity.sol: by hand, at fixed   *)
(* word offsets and, behind strings and arrays, at offsets it computes.    *)
(* The contract (and the ABI encoding of its compiler) writes a log, the   *)
(* orchestrator decodes it and builds the claim that it sends to Cosmos.   *)
(*                                                                         *)
(* A log is a sequence of topics, which are words, and data, a sequence of *)
(* bytes; a word has WordSize bytes (32 in the code) and is big endian.    *)
(* The node adds the number of the block, or leaves it out. A deposit's    *)
(* destination is a bytes32 of the depositor's choice, so it is a word of  *)
(* any bytes. (An array longer than usize::MAX, which the parser refuses,  *)
(* is longer than the data that holds it can be.)                          *)
(***************************************************************************)
EXTENDS Integers, Sequences, SequencesExt

CONSTANTS WordSize,    \* bytes of a word (32)
          PrefixSize,  \* bytes of a word before an address (12)
          U64MAX,      \* the greatest u64
          U32MAX,      \* the greatest u32
          U8MAX,       \* the greatest u8
          ValidBytes,  \* bytes that are UTF-8 by themselves
          OtherBytes,  \* bytes that are not
          Inputs,      \* the events that are tried
          None,        \* Option::None
          Err,         \* a GravityError
          Panic        \* the orchestrator has panicked

VARIABLES event, log, claim

vars == <<event, log, claim>>

ZERO_ADDRESS == 0

-----------------------------------------------------------------------------
(* The encoding of the compiler                                            *)

Word(n) == [i \in 1..WordSize |-> IF i = WordSize THEN n ELSE 0]

Words(numbers) == FlattenSeq([i \in DOMAIN numbers |-> Word(numbers[i])])

\* The length, then the bytes, filled up to a whole number of words.
StringData(s) ==
    LET size == ((Len(s) + WordSize - 1) \div WordSize) * WordSize
    IN  Word(Len(s)) \o [i \in 1..size |-> IF i \in DOMAIN s THEN s[i] ELSE 0]

\* The events in the order of their declaration: indexed fields are topics,
\* strings and arrays are offsets into the rest of the data.
LogOf(e) ==
    CASE e.kind = "valset" ->
            LET n == Len(e.members)
            IN  [block_number |-> e.block_height, topics |-> <<Word(e.valset_nonce)>>,
                 data |-> Words(<<e.event_nonce, e.reward_amount, e.reward_token,
                                  5 * WordSize, (6 + n) * WordSize, n>>
                                \o [i \in 1..n |-> e.members[i].eth_address]
                                \o <<n>> \o [i \in 1..n |-> e.members[i].power])]
      [] e.kind = "batch" ->
            [block_number |-> e.block_height, topics |-> <<Word(e.batch_nonce), Word(e.erc20)>>,
             data |-> Word(e.event_nonce)]
      [] e.kind = "deposit" ->
            [block_number |-> e.block_height,
             topics |-> <<Word(e.erc20), Word(e.sender), e.destination>>,
             data |-> Words(<<e.amount, e.event_nonce>>)]
      [] e.kind = "erc20" ->
            LET denom == StringData(e.cosmos_denom)
                name == StringData(e.name)
            IN  [block_number |-> e.block_height, topics |-> <<Word(e.erc20)>>,
                 data |-> Words(<<5 * WordSize, 5 * WordSize + Len(denom),
                                  5 * WordSize + Len(denom) + Len(name),
                                  e.decimals, e.event_nonce>>)
                          \o denom \o name \o StringData(e.symbol)]

-----------------------------------------------------------------------------
(* The parser                                                              *)

from_bytes_be(bytes) == FoldLeft(LAMBDA n, b : 256 * n + b, 0, bytes)

\* input[start..end], which counts from zero and leaves the end out.
Slice(bytes, start, end) == SubSeq(bytes, start + 1, end)

WordAt(bytes, start) == from_bytes_be(Slice(bytes, start, start + WordSize))

AddressAt(bytes, start) ==
    from_bytes_be(Slice(bytes, start + PrefixSize, start + WordSize))

\* Wrong variant of PowersOffset: the length of the powers is not skipped.
PowersOffsetTooEarly(len) == (6 + len) * WordSize

PowersOffset(len) == (6 + len) * WordSize + WordSize

\* Words 0 to 2 are the nonce and the reward, 5 is the length of the addresses.
decode_data_bytes(data) ==
    LET event_nonce == WordAt(data, 0)
        reward_token == AddressAt(data, 2 * WordSize)
        len == WordAt(data, 5 * WordSize)
        eth_addresses_offset == 6 * WordSize
        powers_offset == PowersOffset(len)
        members == [i \in 1..len |->
                       [eth_address |-> AddressAt(data, eth_addresses_offset + (i - 1) * WordSize),
                        power |-> WordAt(data, powers_offset + (i - 1) * WordSize)]]
    IN  IF event_nonce > U64MAX \/ \E i \in 1..len : members[i].power > U64MAX
        THEN Err
        ELSE [event_nonce |-> event_nonce,
              reward_amount |-> WordAt(data, WordSize),
              reward_token |-> IF reward_token = ZERO_ADDRESS THEN None
                               ELSE reward_token,
              members |-> members]

valset_from_log(l) ==
    LET valset_nonce == WordAt(l.topics[1], 0)
        decoded_bytes == decode_data_bytes(l.data)
    IN  IF valset_nonce > U64MAX \/ l.block_number = None \/ decoded_bytes = Err THEN Err
        ELSE [kind |-> "valset", valset_nonce |-> valset_nonce,
              block_height |-> l.block_number,
              event_nonce |-> decoded_bytes.event_nonce,
              reward_amount |-> decoded_bytes.reward_amount,
              reward_token |-> decoded_bytes.reward_token,
              members |-> decoded_bytes.members]

\* Two of the four parsers check the height, which has no limit in a log.
HeightOverflows(l) == l.block_number = None \/ l.block_number > U64MAX

batch_from_log(l) ==
    LET batch_nonce == WordAt(l.topics[1], 0)
        event_nonce == from_bytes_be(l.data)
    IN  IF event_nonce > U64MAX \/ batch_nonce > U64MAX \/ HeightOverflows(l) THEN Err
        ELSE [kind |-> "batch", batch_nonce |-> batch_nonce, block_height |-> l.block_number,
              erc20 |-> AddressAt(l.topics[2], 0), event_nonce |-> event_nonce]

\* The destination is what stands where an address would stand in the word.
deposit_from_log(l) ==
    LET event_nonce == from_bytes_be(Slice(l.data, WordSize, Len(l.data)))
    IN  IF event_nonce > U64MAX \/ HeightOverflows(l) THEN Err
        ELSE [kind |-> "deposit", erc20 |-> AddressAt(l.topics[1], 0),
              sender |-> AddressAt(l.topics[2], 0),
              destination |-> Slice(l.topics[3], PrefixSize, WordSize),
              block_height |-> l.block_number,
              amount |-> WordAt(l.data, 0), event_nonce |-> event_nonce]

from_utf8(bytes) == IF ToSet(bytes) \subseteq ValidBytes THEN bytes ELSE Err

\* "this trick computes the next 32 byte (256 bit) word index"
NextWord(end) == ((end + WordSize - 1) \div WordSize) * WordSize

\* A string: its length word, its bytes and where the next one starts.
StringAt(data, start) ==
    LET len == WordAt(data, start)
        end == start + WordSize + len
    IN  [text |-> IF len > U32MAX THEN Err ELSE from_utf8(Slice(data, start + WordSize, end)),
         next |-> NextWord(end)]

erc20_from_log(l) ==
    LET decimals == WordAt(l.data, 3 * WordSize)
        event_nonce == WordAt(l.data, 4 * WordSize)
        denom == StringAt(l.data, 5 * WordSize)
        name == StringAt(l.data, denom.next)
        symbol == StringAt(l.data, name.next)
    IN  IF \/ decimals > U8MAX \/ event_nonce > U64MAX
           \/ Err \in {denom.text, name.text, symbol.text} \/ l.block_number = None
        THEN Err
        ELSE [kind |-> "erc20", erc20 |-> AddressAt(l.topics[1], 0),
              cosmos_denom |-> denom.text, name |-> name.text,
              symbol |-> symbol.text, decimals |-> decimals, block_height |-> l.block_number,
              event_nonce |-> event_nonce]

downcast_uint256(n) == IF n >= U64MAX THEN None ELSE n

\* A reward without a token is claimed with the zero address.
WithRewardToken(e) ==
    IF e.kind = "valset" /\ e.reward_token = None
    THEN [e EXCEPT !.reward_token = ZERO_ADDRESS] ELSE e

\* The claim that send_ethereum_claims builds of the parsed fields. It unwraps
\* the height, which none of the parsers has kept below the greatest u64.
ClaimOf(e) ==
    IF e = Err THEN Err
    ELSE IF downcast_uint256(e.block_height) = None THEN Panic
    ELSE WithRewardToken(e)

-----------------------------------------------------------------------------
Init ==
    /\ event \in Inputs
    /\ log = LogOf(event)
    /\ claim = None

Decode(kind, from_log(_)) ==
    /\ event.kind = kind
    /\ claim = None
    /\ claim' = ClaimOf(from_log(log))
    /\ UNCHANGED <<event, log>>

Next ==
    \/ Decode("valset", valset_from_log) \/ Decode("batch", batch_from_log)
    \/ Decode("deposit", deposit_from_log) \/ Decode("erc20", erc20_from_log)

Spec == Init /\ [][Next]_vars

-----------------------------------------------------------------------------
\* The numbers of an event that the orchestrator keeps in a u64 or a u8 fit,
\* its block is known, and its strings are UTF-8 and not too long.
Representable(e) ==
    /\ e.event_nonce <= U64MAX
    /\ e.block_height # None /\ e.block_height < U64MAX
    /\ e.kind = "valset" =>
          /\ e.valset_nonce <= U64MAX
          /\ \A i \in DOMAIN e.members : e.members[i].power <= U64MAX
    /\ e.kind = "batch" => e.batch_nonce <= U64MAX
    /\ e.kind = "erc20" =>
          /\ e.decimals <= U8MAX
          /\ \A s \in {e.cosmos_denom, e.name, e.symbol} :
                Len(s) <= U32MAX /\ ToSet(s) \subseteq ValidBytes

\* What Cosmos is told: all of the event but the bytes of a destination that
\* stand before an address. They are dropped whatever they are, so whoever
\* deposits to more than an address deposits to its end.
Told(e) ==
    IF e.kind = "deposit"
    THEN [e EXCEPT !.destination = SubSeq(@, PrefixSize + 1, WordSize)] ELSE e

\* What is claimed on Cosmos is what the contract emitted, field by field but
\* for the first bytes of a destination, and for every length of the strings
\* and arrays of the log; an event with a number, a height or a string out of
\* range is refused, by an error or a panic, and never claimed with another.
ClaimsSayWhatHappened ==
    claim # None => IF Representable(event) THEN claim = Told(event) ELSE claim \in {Err, Panic}
=============================================================================
