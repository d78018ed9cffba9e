-------------------------------- MODULE Quota --------------------------------
(***************************************************************************)
(* What a rate limiter promises its callers, with no loops and no locks: a *)
(* request is admitted in one step, and only when every limited window has *)
(* room for it beside all the requests admitted before; it may later give  *)
(* everything back, or have its tokens replaced by what it really used;    *)
(* and a window forgets its charges when its bucket ends.                  *)
(*                                                                         *)
(* The ceiling binds what was reserved.  Tokens used beyond a reservation  *)
(* are booked after the fact, possibly while another request is being      *)
(* admitted, so they are no part of it; tokens given back are.             *)
(***************************************************************************)
EXTENDS Integers, Functions

CONSTANTS
  Requests, Window, TokenWindows,
  Limited,    \* the windows with a ceiling
  Limit       \* their ceilings

VARIABLES
  reserve,    \* request -> window -> what it reserved
  use,        \* request -> window -> what it counts for now
  admitted,   \* the requests admitted and not refunded
  broken      \* the promise has lapsed

vars == << reserve, use, admitted, broken >>

None == [w \in Window |-> 0]

(* What a request still has of its reservation.                            *)
Kept(r, w) == IF use[r][w] < reserve[r][w] THEN use[r][w] ELSE reserve[r][w]

Total(w) == SumFunction([r \in Requests |-> Kept(r, w)])

OthersStay(r) ==
  \A q \in Requests \ {r} : reserve'[q] = reserve[q] /\ use'[q] = use[q]

Init ==
  /\ reserve = [r \in Requests |-> None]
  /\ use = [r \in Requests |-> None]
  /\ admitted = {}
  /\ broken = FALSE

(* All or nothing, and within every ceiling.                               *)
Admit(r) ==
  /\ r \notin admitted
  /\ admitted' = admitted \cup {r}
  /\ OthersStay(r)
  /\ use'[r] = reserve'[r]
  /\ \A w \in Limited : Total(w)' <= Limit[w]

(* The whole reservation goes back.                                        *)
GiveBack(r) ==
  /\ r \in admitted
  /\ admitted' = admitted \ {r}
  /\ reserve' = [reserve EXCEPT ![r] = None]
  /\ use' = [use EXCEPT ![r] = None]

(* The token estimate becomes the token usage, window by window.           *)
Correct(r) ==
  /\ r \in admitted
  /\ UNCHANGED << admitted, reserve >>
  /\ OthersStay(r)
  /\ \A w \in Window \ TokenWindows : use'[r][w] = use[r][w]

(* The buckets of some windows end.                                        *)
Rollover ==
  /\ UNCHANGED admitted
  /\ \E W \in SUBSET Window :
       LET Forget(f) == [r \in Requests |->
                           [w \in Window |-> IF w \in W THEN 0 ELSE f[r][w]]]
       IN  reserve' = Forget(reserve) /\ use' = Forget(use)

Next ==
  \/ Rollover
  \/ \E r \in Requests : Admit(r) \/ GiveBack(r) \/ Correct(r)

Spec == Init /\ [][broken' \/ Next]_vars
=============================================================================
