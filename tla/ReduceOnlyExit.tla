---------------------------- MODULE ReduceOnlyExit ----------------------------
(***************************************************************************)
(* What simulated exits promise about the lots a trade holds in the market *)
(* (docs/architecture/execution-engine-design.md, EX-5 and decision 184):  *)
(* exits are position-bound and reduce-only.  One close at a time, never   *)
(* beside an entry that could still fill, never for more than is held, so  *)
(* the position never reverses.  Only the loss of the venue's book, when   *)
(* its process ends, makes lots disappear.                                 *)
(***************************************************************************)
EXTENDS Integers, TLAPS

CONSTANTS
  Trades,   \* trades
  MaxHeld   \* lots a trade may buy

VARIABLES
  held,     \* held[p]: lots bought and not yet sold
  entering, \* entering[p]: an entry order is in the market
  closing   \* closing[p]: lots an outstanding close order may still sell

exitVars == <<held, entering, closing>>

Init ==
  /\ held = [p \in Trades |-> 0]
  /\ entering = [p \in Trades |-> FALSE]
  /\ closing = [p \in Trades |-> 0]

SendEntry(p) ==
  /\ held[p] = 0 /\ closing[p] = 0 /\ ~entering[p]
  /\ entering' = [entering EXCEPT ![p] = TRUE]
  /\ UNCHANGED <<held, closing>>

(* A lot of the entry fills, the last one perhaps. *)
Buy(p) ==
  /\ entering[p]
  /\ held[p] < MaxHeld
  /\ held' = [held EXCEPT ![p] = @ + 1]
  /\ \E more \in BOOLEAN : entering' = [entering EXCEPT ![p] = more]
  /\ UNCHANGED closing

EndEntry(p) ==
  /\ entering[p]
  /\ entering' = [entering EXCEPT ![p] = FALSE]
  /\ UNCHANGED <<held, closing>>

(* An exit is sent for exactly what is held. *)
SendClose(p) ==
  /\ ~entering[p] /\ closing[p] = 0 /\ held[p] > 0
  /\ closing' = [closing EXCEPT ![p] = held[p]]
  /\ UNCHANGED <<held, entering>>

Sell(p) ==
  /\ closing[p] > 0
  /\ closing' = [closing EXCEPT ![p] = @ - 1]
  /\ held' = [held EXCEPT ![p] = @ - 1]
  /\ UNCHANGED entering

EndClose(p) ==
  /\ closing[p] > 0
  /\ closing' = [closing EXCEPT ![p] = 0]
  /\ UNCHANGED <<held, entering>>

LoseBook == held' = [p \in Trades |-> 0]
            /\ entering' = [p \in Trades |-> FALSE]
            /\ closing' = [p \in Trades |-> 0]

Next ==
  \/ LoseBook
  \/ \E p \in Trades : \/ SendEntry(p) \/ Buy(p) \/ EndEntry(p)
                       \/ SendClose(p) \/ Sell(p) \/ EndClose(p)

Spec == Init /\ [][Next]_exitVars

TypeOK ==
  /\ held \in [Trades -> 0..MaxHeld]
  /\ entering \in [Trades -> BOOLEAN]
  /\ closing \in [Trades -> 0..MaxHeld]

(* A close outstanding in the market can never sell more than is held, and *)
(* is never outstanding beside an entry.                                   *)
NeverReverses ==
  \A p \in Trades :
    /\ closing[p] <= held[p]
    /\ closing[p] > 0 => ~entering[p]

(***************************************************************************)
(* The contract keeps its promise.                                         *)
(***************************************************************************)
(* Lots are counted in Nat: the bound MaxHeld plays no part.               *)
Inv ==
  /\ held \in [Trades -> Nat]
  /\ entering \in [Trades -> BOOLEAN]
  /\ closing \in [Trades -> Nat]
  /\ NeverReverses

LEMMA InvInit == Init => Inv
BY DEF Init, Inv, NeverReverses

LEMMA InvStep == Inv /\ [Next]_exitVars => Inv'
<1> SUFFICES ASSUME Inv, [Next]_exitVars
             PROVE  Inv'
  OBVIOUS
<1> USE DEF Inv, NeverReverses
<1>1. CASE LoseBook
  BY <1>1 DEF LoseBook
<1>2. ASSUME NEW p \in Trades, SendEntry(p)
      PROVE  Inv'
  BY <1>2 DEF SendEntry
<1>3. ASSUME NEW p \in Trades, Buy(p)
      PROVE  Inv'
  <2>1. closing[p] = 0
    BY <1>3 DEF Buy
  <2> QED BY <1>3, <2>1 DEF Buy
<1>4. ASSUME NEW p \in Trades, EndEntry(p)
      PROVE  Inv'
  BY <1>4 DEF EndEntry
<1>5. ASSUME NEW p \in Trades, SendClose(p)
      PROVE  Inv'
  BY <1>5 DEF SendClose
<1>6. ASSUME NEW p \in Trades, Sell(p)
      PROVE  Inv'
  BY <1>6 DEF Sell
<1>7. ASSUME NEW p \in Trades, EndClose(p)
      PROVE  Inv'
  BY <1>7 DEF EndClose
<1>8. CASE UNCHANGED exitVars
  BY <1>8 DEF exitVars
<1> QED BY <1>1, <1>2, <1>3, <1>4, <1>5, <1>6, <1>7, <1>8 DEF Next

(* A close in the market never exceeds the lots held and never stands      *)
(* beside a working entry, so no fill can turn a long position short.      *)
THEOREM NeverReversesTheorem == Spec => []NeverReverses
<1>1. Inv => NeverReverses
  BY DEF Inv
<1> QED BY <1>1, InvInit, InvStep, PTL DEF Spec

=============================================================================
