------------------------------ MODULE MCDecisions ------------------------------
(***************************************************************************)
(* From closed candles to approved entries.  The stages share no state in  *)
(* these models: a behaviour is one of one stage, and the others stay at   *)
(* their initial states.                                                   *)
(***************************************************************************)
EXTENDS EntryAuthorization, CandidateState, Selection, EntryRules, Signals

VARIABLE stage

MCSignalBars == {<<1, 2>>, <<2, 1>>, <<2, 3>>}
MCNoSession == -1
MCSessionOf == [t \in 0 .. 2 |-> IF t = 1 THEN 1 ELSE MCNoSession]
MCSymbolFor == [c \in Candidates |-> IF c = "a" THEN "y" ELSE "x"]

DecisionsInit ==
  /\ stage \in {"authorization", "candidates", "selection", "rules", "signals"}
  /\ Init /\ CandidateInit /\ SelectionInit /\ RulesInit /\ SignalsInit
  /\ stage # "signals" => strategy = "Gap"

Only(s, move) == stage = s /\ move /\ UNCHANGED stage

DecisionsNext ==
  \/ Only("authorization", Next)
       /\ UNCHANGED <<candidateVars, selectionVars, ruleVars, signalVars>>
  \/ Only("candidates", CandidateNext)
       /\ UNCHANGED <<vars, selectionVars, ruleVars, signalVars>>
  \/ Only("selection", SelectionNext)
       /\ UNCHANGED <<vars, candidateVars, ruleVars, signalVars>>
  \/ Only("rules", RulesNext)
       /\ UNCHANGED <<vars, candidateVars, selectionVars, signalVars>>
  \/ Only("signals", SignalsNext)
       /\ UNCHANGED <<vars, candidateVars, selectionVars, ruleVars>>

decisionVars == <<stage, vars, candidateVars, selectionVars, ruleVars, signalVars>>

(* The notifications, the worker of Portfolio State and its retry timer    *)
(* are scheduled; so are the ceiling of the throttle, the worker of Market *)
(* State and the delivery of what it publishes.                            *)
Fair(s, move) == stage = s /\ move

Decisions ==
  /\ DecisionsInit /\ [][DecisionsNext]_decisionVars
  /\ WF_vars(Fair("authorization", Deliver /\ UNCHANGED authVars))
  /\ WF_vars(Fair("authorization", Worker /\ UNCHANGED authVars))
  /\ WF_vars(Fair("authorization", Retry /\ UNCHANGED authVars))
  /\ WF_vars(Fair("authorization", Authorize))
  /\ WF_signalVars(Fair("signals", RunAtCeiling))
  /\ WF_signalVars(Fair("signals", ComputeState))
  /\ WF_signalVars(Fair("signals", StateChanges))

(* The types of the variables of every stage. *)
TypesOK ==
  TypeOK /\ CandidateTypeOK /\ SelectionTypeOK /\ RulesTypeOK /\ SignalsTypeOK

(* What a decision sees: a ready snapshot is not behind, values positions  *)
(* by later ticks only and announces each closing once.                    *)
SnapshotSound == ReadyIsCurrent /\ MarksAndClosings

(* What approvals may add up to: the places, where no decision was blind,  *)
(* and the loss of the day.                                                *)
RiskBounded == LimitUnlessBlind /\ LossStaysWithinCap

(* What an approval of an entry rests on: proposals of one candle, made    *)
(* once and from a complete range, candidates that missing input has not   *)
(* withdrawn, a choice that fits, is told whole and is accepted once.      *)
ChoiceSound ==
  /\ ProposalsSound /\ ProposedOnce /\ RangeComplete
  /\ CandidatesSound /\ AcceptedOnce /\ AttemptsPromoteNobody /\ ChoiceFits
  /\ DecisionsTold

(* Evaluations, journal rows and claims are never taken back.    *)
RecordsStand == NewestStands /\ HistoryStands

(* The snapshot is available again after any failure, and the newest       *)
(* candle is evaluated.                                                    *)
Settles ==
  /\ stage = "authorization" => ReadyAgain
  /\ stage = "signals" => NewestEvaluated
=============================================================================
