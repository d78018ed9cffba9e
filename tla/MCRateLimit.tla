----------------------------- MODULE MCRateLimit -----------------------------
(* Small limit sets and estimates for the checks of RateLimit.             *)
EXTENDS RateLimit, TLC

Symmetry == Permutations(Requests)

LimitSet(f) == [w \in Window |-> IF w \in DOMAIN f THEN f[w] ELSE Unlimited]

(* A minute window and a day window.  Two tokens of three leave no room    *)
(* for a second request until the first has reconciled, and a minute and a *)
(* second of audio counts for two minutes.                                 *)
MixedLimit == LimitSet([tpm |-> 3, amin |-> 3])
MixedCosts == { [tokens |-> 2, chars |-> 0, audioSec |-> 61] }
=============================================================================
