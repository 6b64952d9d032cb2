------------------------------ MODULE EntryRules ------------------------------
(***************************************************************************)
(* What an entry may risk: plan_entry of trade_planning/planner.py, the    *)
(* rules of governor/rules.py and the exposures of portfolio_state/        *)
(* snapshot.py, over one trading day.                                      *)
(*                                                                         *)
(* The portfolio is the current one (EntryAuthorization is about the one   *)
(* that is not).  Prices are small integers; money is price times shares.  *)
(* Orders are filled at the venue's price of the moment, not at the        *)
(* planned one: what that adds to a loss is counted in slippage.           *)
(***************************************************************************)
EXTENDS Integers, FiniteSets, FiniteSetsExt

CONSTANTS
  RuleSymbols,
  RulePrices,     \* prices that occur
  Notional, LossCap, RuleSlots,   \* settings: notional, daily loss cap, concurrent positions
  MaxApproved     \* bound: entries approved in the day

ASSUME RulesAssumption ==
  {Notional, LossCap, RuleSlots} \cup RulePrices \subseteq Nat \ {0}

VARIABLES
  market,     \* market[s]: the price, 0 before the first
  positions,  \* open positions
  entering,   \* entries approved and not filled
  marked,     \* symbols with a mark: a price since the position was opened
  pnl,        \* realized_pnl_today
  slippage, approvedEntries

ruleVars == <<market, positions, entering, marked, pnl, slippage, approvedEntries>>

NoPrice == 0
Sign(side) == IF side = "BUY" THEN 1 ELSE -1
Abs(n) == IF n < 0 THEN -n ELSE n
AtLeast0(n) == IF n < 0 THEN 0 ELSE n

RulesInit ==
  /\ market = [s \in RuleSymbols |-> NoPrice] /\ positions = {} /\ entering = {} /\ marked = {}
  /\ pnl = 0 /\ slippage = 0 /\ approvedEntries = 0

---------------------------------------------------------------------------
(* plan_entry: the refusals in their order, else a plan.                   *)
Size(entry) == Notional \div entry

PlanRefused(side, entry, stop, target) ==
  \/ entry = NoPrice
  \/ Sign(side) * (entry - stop) <= 0
  \/ Size(entry) < 1
  \/ Sign(side) * (target - entry) <= 0

Plan(s, side, entry, stop) ==
  [symbol |-> s, side |-> side, qty |-> Size(entry), entry |-> entry, stop |-> stop]
PlannedRisk(plan) == plan.qty * Abs(plan.entry - plan.stop)

(* _open_exposure_loss: the loss of a position at its stop, or the one it  *)
(* shows.  An entry in flight, whose symbol is no position's, has no mark, *)
(* so the exposure is unknown.                                             *)
Unrealized(p) == Sign(p.side) * (market[p.symbol] - p.entry) * p.qty
WorstOf(p) == IF PlannedRisk(p) > -Unrealized(p) THEN PlannedRisk(p) ELSE -Unrealized(p)
ExposureKnown == entering = {} /\ \A p \in positions : p.symbol \in marked
ExposureLoss == MapThenSumSet(WorstOf, positions)

RealizedLoss == AtLeast0(-pnl)

(* mutant: the loss of the candidate itself is not projected               *)
WithinCap_NotProjected(plan) == RealizedLoss + ExposureLoss < LossCap

(* mutant: open positions count with the loss they show                    *)
WithinCap_Shown(plan) ==
  /\ RealizedLoss + MapThenSumSet(LAMBDA p : AtLeast0(-Unrealized(p)), positions) + PlannedRisk(plan) <= LossCap
  /\ RealizedLoss < LossCap

WithinCap(plan) ==
  /\ RealizedLoss + ExposureLoss < LossCap
  /\ RealizedLoss + ExposureLoss + PlannedRisk(plan) <= LossCap

Exposures == positions \cup entering

(* evaluate_authorization, the rules that look at the portfolio and plan.  *)
Approves(plan) ==
  /\ \A e \in Exposures : e.symbol # plan.symbol
  /\ Cardinality(Exposures) < RuleSlots
  /\ ExposureKnown
  /\ WithinCap(plan)

ApproveEntry ==
  /\ approvedEntries < MaxApproved
  /\ \E s \in RuleSymbols, side \in {"BUY", "SELL"}, stop, target \in RulePrices :
       /\ ~PlanRefused(side, market[s], stop, target)
       /\ Approves(Plan(s, side, market[s], stop))
       /\ entering' = entering \cup {Plan(s, side, market[s], stop)}
  /\ approvedEntries' = approvedEntries + 1
  /\ UNCHANGED <<market, positions, marked, pnl, slippage>>

---------------------------------------------------------------------------
(* The venue and the market                                                *)

RulePriceMoves ==
  /\ \E s \in RuleSymbols, p \in RulePrices :
       market' = [market EXCEPT ![s] = p] /\ marked' = marked \cup {s}
  /\ UNCHANGED <<positions, entering, pnl, slippage, approvedEntries>>

(* The position is opened at the market and has no mark until the next     *)
(* price.                                                                  *)
EntryFills ==
  /\ \E e \in entering :
       /\ positions' = positions \cup {[e EXCEPT !.entry = market[e.symbol]]}
       /\ entering' = entering \ {e} /\ marked' = marked \ {e.symbol}
       /\ slippage' = slippage + AtLeast0(Abs(market[e.symbol] - e.stop) - Abs(e.entry - e.stop)) * e.qty
  /\ UNCHANGED <<market, pnl, approvedEntries>>

EntryEnds ==   \* cancelled, rejected or expired
  /\ \E e \in entering : entering' = entering \ {e}
  /\ UNCHANGED <<market, positions, marked, pnl, slippage, approvedEntries>>

(* A position is closed at the market; beyond its stop that is slippage.   *)
PositionCloses ==
  /\ \E p \in positions :
       /\ positions' = positions \ {p} /\ pnl' = pnl + Unrealized(p)
       /\ slippage' = slippage + AtLeast0(-Unrealized(p) - PlannedRisk(p))
  /\ UNCHANGED <<market, entering, marked, approvedEntries>>

RulesNext == ApproveEntry \/ RulePriceMoves \/ EntryFills \/ EntryEnds \/ PositionCloses

---------------------------------------------------------------------------
RulesTypeOK == Cardinality(Exposures) <= RuleSlots /\ marked \subseteq RuleSymbols /\ slippage \in Nat

(* The day's loss stays within the cap, whatever is approved, filled and   *)
(* closed in whatever order, and will when every exposure there is gets    *)
(* stopped out where it says, but for what fills were worse than planned.  *)
LossStaysWithinCap ==
  RealizedLoss + MapThenSumSet(PlannedRisk, Exposures) <= LossCap + slippage
=============================================================================
