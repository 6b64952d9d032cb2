------------------------------ MODULE MCServices ------------------------------
(***************************************************************************)
(* The services around the market's path and the ledger: the feed of       *)
(* protected symbols, the event bus, the recorder of outcomes, the         *)
(* scanner, the loops and the fundamentals of the context engine, requests *)
(* for history, start and stop of the process, the providers and the roles *)
(* they have.  They share no state in these models: a behaviour is one of  *)
(* one component, and the others stay at their initial states.             *)
(***************************************************************************)
EXTENDS ProtectedFeed, EventBus, OutcomeRecorder, ScannerWorker, ContextLoops,
  Lifespan, PollingFeed, ProviderRoles, Fundamentals, IBKRFeed

VARIABLE component

MCEntryLots == [t \in {"t", "u"} |-> IF t = "t" THEN 2 ELSE 1]

(* Two years; one begins with a loss.                                      *)
MCEarnings == {<<2, 1, 1, 3, -1, 2, 1, 2>>}

Init ==
  /\ component \in {"feed", "bus", "outcomes", "scanner", "context", "request", "lifespan",
                    "polling", "roles", "fundamentals", "ibkr"}
  /\ FeedInit /\ BusInit /\ RecorderInit /\ ScanInit /\ ContextInit /\ BatchInit /\ LifespanInit
  /\ PollingInit /\ RolesInit /\ FundamentalsInit /\ IBKRInit
  /\ component # "context" => saved = {}
  /\ component # "fundamentals" => earned = (CHOOSE h \in Earnings : TRUE) /\ firstReport = 1

Stay(c, unchanged) == IF component = c THEN TRUE ELSE unchanged

OthersStay ==
  /\ Stay("feed", UNCHANGED feedVars)
  /\ Stay("bus", UNCHANGED busVars)
  /\ Stay("outcomes", UNCHANGED recorderVars)
  /\ Stay("scanner", UNCHANGED scanVars)
  /\ Stay("context", UNCHANGED contextVars)
  /\ Stay("request", UNCHANGED batchVars)
  /\ Stay("lifespan", UNCHANGED lifespanVars)
  /\ Stay("polling", UNCHANGED pollingVars)
  /\ Stay("roles", UNCHANGED rolesVars)
  /\ Stay("fundamentals", UNCHANGED fundamentalsVars)
  /\ Stay("ibkr", UNCHANGED ibkrVars)

Only(c, move) == component = c /\ move /\ OthersStay /\ UNCHANGED component

Next ==
  \/ Only("feed", FeedNext)
  \/ Only("bus", BusNext)
  \/ Only("outcomes", RecorderNext)
  \/ Only("scanner", ScanNext)
  \/ Only("context", ContextNext)
  \/ Only("request", BatchNext)
  \/ Only("lifespan", LifespanNext)
  \/ Only("polling", PollingNext)
  \/ Only("roles", RolesNext)
  \/ Only("fundamentals", FundamentalsNext)
  \/ Only("ibkr", IBKRNext)

vars == <<component, feedVars, busVars, recorderVars, scanVars, contextVars, batchVars,
    lifespanVars, pollingVars, rolesVars, fundamentalsVars, ibkrVars>>

(* The supervisor, the calls and the reconciler of the feed are scheduled; *)
(* the critical consumer and its handlers get their turns, while a normal  *)
(* handler may take for ever; the recorder's scans and worker run, and its *)
(* process is started again.                                               *)
Fair(c, move) == component = c /\ move

Spec ==
  /\ Init /\ [][Next]_vars
  /\ WF_feedVars(Fair("feed", Supervise)) /\ WF_feedVars(Fair("feed", Serve))
  /\ WF_feedVars(Fair("feed", Reconcile)) /\ WF_feedVars(Fair("feed", AnnounceNews))
  /\ WF_busVars(Fair("bus", StartBus)) /\ WF_busVars(Fair("bus", Dispatch("critical")))
  /\ WF_recorderVars(Fair("outcomes", StartRecorder))
  /\ WF_recorderVars(Fair("outcomes", Drained))
  /\ WF_recorderVars(Fair("outcomes", StartupScan))
  /\ WF_recorderVars(Fair("outcomes", Sweep))
  /\ WF_recorderVars(Fair("outcomes", WorkItem))

(* The types of the variables of every component. *)
TypeOK == FeedTypeOK /\ BusTypeOK /\ RecorderTypeOK /\ ScanTypeOK /\ ContextTypeOK /\ BatchTypeOK
  /\ LifespanTypeOK /\ PollingTypeOK /\ RolesTypeOK /\ FundamentalsTypeOK /\ IBKRTypeOK

(* Events and subscriptions: a lane keeps its order and drops nothing, the *)
(* feed's inventory is honest and its reconciler sleeps on no news; the    *)
(* scanner's results are of the present, additions are tracked, start and  *)
(* stop are whole, polling keeps its budget and brings bars in order, a    *)
(* provider has its role while it is used, IB serves what is on record,    *)
(* and an outcome is of a whole trade.                                     *)
DeliveryKept ==
  /\ LaneOrder /\ NothingDropped /\ InventoryHonest /\ NoSleepingOnNews
  /\ component = "scanner" => ResultsLive /\ AttemptTold /\ CyclesSpaced
  /\ component = "context" => AdditionsTracked /\ StopIsComplete
  /\ component = "lifespan" => HandOverWhole /\ StatusTrue /\ NothingLeftAlive
  /\ component = "polling" => CallsWithinBudget /\ BarsForward /\ FirstTickComes
  /\ component = "roles" => FinnhubOwned /\ RolesHonest
  /\ component = "outcomes" => OutcomesWhole
  /\ component = "ibkr" => InventoryServed /\ ServedIsRecorded

(* A restoration is complete, verdicts and derived figures are never taken *)
(* back, and nothing stopped or torn down comes alive again.               *)
NothingUndone ==
  /\ RestoreIsComplete /\ VerdictsStand /\ NothingAfterStop /\ NothingRevived
  /\ CompletedMeansAsked /\ ConsumersLast /\ FiguresStay

(* Protected symbols are asked for again, critical events get through,     *)
(* every closed trade gets its verdict, and a figure of the fundamentals   *)
(* is of twelve months.                                                    *)
ServicesDeliver ==
  /\ FeedRestored /\ CriticalNotBlocked /\ EveryCloseIsJudged
  /\ [](component = "fundamentals" => TwelveMonths)
=============================================================================
