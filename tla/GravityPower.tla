---------------------------- MODULE GravityPower ----------------------------
(***************************************************************************)
(* How much power is enough, as the relayer and as the contract see it.    *)
(***************************************************************************)
EXTENDS Integers

CONSTANTS TotalPower,     \* TOTAL_GRAVITY_POWER (u32::MAX)
          PowerThreshold, \* state_powerThreshold of the contract
          FloatSlack      \* power that the rounding of f32 adds at the boundary

\* The contract is deployed with 66% of the total power, rounded up.  With u32::MAX
\* f32 accepts from 2834678144 on where the contract wants more than 2834678415:
\* it rounds in favour of the signatures only.
ASSUME PowerAssumption ==
    /\ TotalPower \in Nat \ {0} /\ PowerThreshold \in 0..TotalPower
    /\ FloatSlack \in Nat
    /\ 66 * TotalPower <= 100 * PowerThreshold

\* Wrong variant of EnoughPercent: asks for seven tenths.
EnoughPercentStrict(power) == power * 100 >= 70 * TotalPower

\* gravity_power_to_percent, a float, against 66f32.
EnoughPercent(power) == (power + FloatSlack) * 100 >= 66 * TotalPower

\* The contract's own test.
ExceedsThreshold(power) == power > PowerThreshold
=============================================================================
