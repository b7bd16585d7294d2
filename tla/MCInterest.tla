----------------------------- MODULE MCInterest -----------------------------
(***************************************************************************)
(* Model-checking harness for Interest: one unspent output of face value  *)
(* nValue created at height nHeight, valued at the active tip while the   *)
(* tip moves up (a block is connected) and down (a block is disconnected  *)
(* in a reorg, possibly below the output's own height).  Init enumerates  *)
(* every output in MoneyRange and every pair of heights in the bound, so  *)
(* each invariant is checked for all inputs of the valuation.             *)
(***************************************************************************)
EXTENDS Interest

CONSTANT MaxHeight   \* highest tip height the harness reaches

Heights == 0..MaxHeight

VARIABLES coin, tip
vars == <<coin, tip>>

Value == GetValueWithInterest(coin, coin.nHeight, tip)

Init == /\ coin \in [nValue : 0..MAX_MONEY, nHeight : Heights]
        /\ tip \in Heights

ConnectTip == /\ tip < MaxHeight
              /\ tip' = tip + 1
              /\ UNCHANGED coin

DisconnectTip == /\ tip > 0
                 /\ tip' = tip - 1
                 /\ UNCHANGED coin

Next == ConnectTip \/ DisconnectTip

Spec == Init /\ [][Next]_vars

(* The value GetInterest computes in 64-bit words (uint64 rate table,     *)
(* 256-bit product, GetLow64, int64 subtraction and sum) equals the       *)
(* valuation of section 4.3 in exact arithmetic, for every output in      *)
(* MoneyRange and every pair of heights: no step of the word arithmetic   *)
(* wraps or truncates where the specification does not.                   *)
ValuationMatchesReference ==
    Value = RefEffectiveValue(coin.nValue, coin.nHeight, tip)

(* Section 8, property 1 of the specification: the effective value is at  *)
(* least the face value, and equal to it exactly when the valuation       *)
(* height is not above the creation height (stated here for outputs of    *)
(* non-zero face value, for which it is not vacuous).                     *)
SpecInterestIffElapsed ==
    /\ Value >= coin.nValue
    /\ coin.nValue > 0 => ((Value = coin.nValue) <=> (tip <= coin.nHeight))
=============================================================================
