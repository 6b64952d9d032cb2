-------------------------------- MODULE Lifespan --------------------------------
(***************************************************************************)
(* main.py's lifespan: the order in which a process starts its services,   *)
(* what happens when the execution pipeline cannot be started or the       *)
(* venue disagrees with the ledger, what the routes are shown meanwhile,   *)
(* and the order in which everything is stopped.  A step ends where the    *)
(* code awaits.                                                            *)
(***************************************************************************)
EXTENDS Naturals, Sequences

CONSTANT MaxLifespans     \* bound: entries of the lifespan

ASSUME LifespanAssumption == MaxLifespans \in Nat

VARIABLES
  phase,           \* what the lifespan awaits
  stepNo,          \* how far a rollback or a shutdown is
  lifespans,       \* entries so far, for the bound
  servicesUp,           \* services that run
  taking,       \* of the authorizer and the engine, those that take entries
  holds,           \* the local variables that are not None
  exposed,         \* what app.state shows to the routes
  startupStatus,   \* app.state.execution_startup_status
  venueRegistered, \* broker_registry's execution venue is set
  contextCrashed   \* a task of the context engine has ended with an error

lifespanVars ==
  <<phase, stepNo, lifespans, servicesUp, taking, holds, exposed, startupStatus, venueRegistered,
    contextCrashed>>

(* Started without an await between them, and subscribers of the bus.      *)
Subscribers == {"candle_recorder", "tick_relay", "features", "levels", "market_state",
                "strategies", "opportunities", "candidates"}
Core == Subscribers \cup {"context", "fundamentals"}
Pipeline == {"venue", "portfolio", "authorizer", "engine", "monitor"}
Services == {"bus", "providers", "protected", "scanner", "outcomes"} \cup Core \cup Pipeline

LifespanInit ==
  /\ phase = "off" /\ stepNo = 0 /\ lifespans = 0
  /\ servicesUp = {} /\ taking = {} /\ holds = {} /\ exposed = {}
  /\ startupStatus = "none"
  /\ venueRegistered = FALSE
  /\ contextCrashed = FALSE

(***************************************************************************)
(* Start-up                                                                *)
(***************************************************************************)
BusStarts ==
  /\ phase = "off" /\ lifespans < MaxLifespans
  /\ phase' = "core"
  /\ lifespans' = lifespans + 1
  /\ servicesUp' = {"bus"}
  /\ UNCHANGED <<stepNo, taking, holds, exposed, startupStatus, venueRegistered,
                 contextCrashed>>

CoreStarts ==
  /\ phase = "core"
  /\ phase' = "providers"
  /\ servicesUp' = servicesUp \cup Core
  /\ UNCHANGED <<stepNo, lifespans, taking, holds, exposed, startupStatus, venueRegistered,
                 contextCrashed>>

(* Finnhub and Polygon are optional: the process goes on without them.     *)
ProvidersConnect ==
  /\ phase = "providers"
  /\ phase' = "venue"
  /\ servicesUp' \in {servicesUp, servicesUp \cup {"providers"}}
  /\ holds' = {} /\ exposed' = {} /\ startupStatus' = "none"
  /\ UNCHANGED <<stepNo, lifespans, taking, venueRegistered, contextCrashed>>

(* mutant: a rollback stops the engines and does not deactivate them *)
StillTaking_Always(started, held) == started

(* Stopped by a rollback, as far as they are held: authorizer and engine   *)
(* are deactivated after the first two, without an await of their own.     *)
RollbackOrder ==
  <<"scanner", "protected", "authorizer", "monitor", "engine", "portfolio", "outcomes", "venue">>
Awaited(i) == i \in DOMAIN RollbackOrder /\ RollbackOrder[i] \in holds
StillTaking(started, held) == IF {"scanner", "protected"} \cap held = {} THEN {} ELSE started

(* The handler of a pipeline that cannot be started: what it does before   *)
(* its first await.                                                        *)
RollsBack(started, held) ==
  /\ phase' = "rollback" /\ stepNo' = 1
  /\ startupStatus' = "startup_failed"
  /\ venueRegistered' = FALSE
  /\ exposed' = {}
  /\ holds' = held
  /\ taking' = StillTaking(started, held)

VenueConnects ==
  /\ phase = "venue"
  /\ \/ /\ phase' = "portfolio"
        /\ holds' = holds \cup {"venue"}
        /\ servicesUp' = servicesUp \cup {"venue"}
        /\ UNCHANGED <<stepNo, taking, exposed, startupStatus, venueRegistered>>
     \/ RollsBack(taking, holds \cup {"venue"}) /\ UNCHANGED servicesUp
  /\ UNCHANGED <<lifespans, contextCrashed>>

(* A start that raises may have subscribed already.                        *)
PortfolioStarts ==
  /\ phase = "portfolio"
  /\ \/ /\ phase' = "reconcile"
        /\ holds' = holds \cup {"portfolio"}
        /\ servicesUp' = servicesUp \cup {"portfolio"}
        /\ UNCHANGED <<stepNo, taking, exposed, startupStatus, venueRegistered>>
     \/ /\ RollsBack(taking, holds \cup {"portfolio"})
        /\ servicesUp' \in {servicesUp, servicesUp \cup {"portfolio"}}
  /\ UNCHANGED <<lifespans, contextCrashed>>

(* Without a discrepancy the venue is registered and the engines are made; *)
(* the exits that were pending are then restored to the monitor.           *)
Reconciles ==
  /\ phase = "reconcile"
  /\ \/ /\ phase' = "hydrate"
        /\ venueRegistered' = TRUE
        /\ holds' = holds \cup {"authorizer", "engine", "monitor"}
        /\ UNCHANGED <<stepNo, taking, exposed, startupStatus>>
     \/ /\ phase' = "blocked"
        /\ UNCHANGED <<stepNo, taking, exposed, startupStatus, venueRegistered, holds>>
     \/ RollsBack(taking, holds)
  /\ UNCHANGED <<lifespans, servicesUp, contextCrashed>>

(* A discrepancy: venue and Portfolio State are put down, one await each,  *)
(* before the status says so.                                              *)
BlockedVenue ==
  /\ phase = "blocked"
  /\ \/ /\ phase' = "blocked_portfolio"
        /\ servicesUp' = servicesUp \ {"venue"}
        /\ UNCHANGED <<stepNo, taking, holds, exposed, startupStatus, venueRegistered>>
     \/ RollsBack(taking, holds) /\ UNCHANGED servicesUp
  /\ UNCHANGED <<lifespans, contextCrashed>>

BlockedPortfolio ==
  /\ phase = "blocked_portfolio"
  /\ \/ /\ phase' = "serving"
        /\ servicesUp' = servicesUp \ {"portfolio"}
        /\ holds' = holds \ {"portfolio", "venue"}
        /\ startupStatus' = "reconciliation_blocked"
        /\ exposed' = exposed \cup {"context", "candidates"}
        /\ UNCHANGED <<stepNo, taking, venueRegistered>>
     \/ RollsBack(taking, holds) /\ UNCHANGED servicesUp
  /\ UNCHANGED <<lifespans, contextCrashed>>

StartOrder == <<"authorizer", "engine", "monitor", "protected">>
StartedBy(n) == {StartOrder[i] : i \in 1 .. n}

(* After hydration everything starts without an await; an error on the way *)
(* leaves what has been started to the rollback.                           *)
PipelineStarts ==
  /\ phase = "hydrate"
  /\ \E n \in 0 .. Len(StartOrder) :
       LET takes == StartedBy(n) \cap {"authorizer", "engine"}
           held == holds \cup (IF n < 3 THEN {} ELSE {"protected"})
       IN /\ servicesUp' = servicesUp \cup StartedBy(n)
          /\ \/ /\ n = Len(StartOrder)
                /\ phase' = "scanner"
                /\ taking' = takes /\ holds' = held
                /\ exposed' = exposed \cup {"monitor", "portfolio", "protected"}
                /\ startupStatus' = "ready"
                /\ UNCHANGED <<stepNo, venueRegistered>>
             \/ RollsBack(takes, held)
  /\ UNCHANGED <<lifespans, contextCrashed>>

(* The scanner is optional, by its setting and when it fails.              *)
ScannerStarts ==
  /\ phase = "scanner"
  /\ phase' = "outcomes"
  /\ \/ /\ servicesUp' = servicesUp \cup {"scanner"}
        /\ holds' = holds \cup {"scanner"}
        /\ exposed' = exposed \cup {"scanner"}
     \/ UNCHANGED <<servicesUp, holds, exposed>>
  /\ UNCHANGED <<stepNo, lifespans, taking, startupStatus, venueRegistered, contextCrashed>>

OutcomesStart ==
  /\ phase = "outcomes"
  /\ phase' = "serving"
  /\ \/ servicesUp' = servicesUp \cup {"outcomes"} /\ holds' = holds \cup {"outcomes"}
     \/ UNCHANGED <<servicesUp, holds>>
  /\ exposed' = exposed \cup {"context", "candidates"}
  /\ UNCHANGED <<stepNo, lifespans, taking, startupStatus, venueRegistered, contextCrashed>>

(***************************************************************************)
(* Rollback and shutdown                                                   *)
(***************************************************************************)
(* What has been stopped takes nothing more, and neither does the pipeline *)
(* once the two before it have been stopped.                               *)
RollbackStep ==
  /\ phase = "rollback"
  /\ \E i \in stepNo .. Len(RollbackOrder) :
       /\ Awaited(i) /\ \A k \in stepNo .. i - 1 : ~Awaited(k)
       /\ servicesUp' = servicesUp \ {RollbackOrder[i]}
       /\ taking' = StillTaking(taking, holds \ {RollbackOrder[k] : k \in 1 .. i})
       /\ stepNo' = i + 1
  /\ UNCHANGED <<phase, lifespans, holds, exposed, startupStatus, venueRegistered, contextCrashed>>

(* The process serves without its pipeline.                                *)
RolledBack ==
  /\ phase = "rollback" /\ \A k \in stepNo .. Len(RollbackOrder) : ~Awaited(k)
  /\ phase' = "serving"
  /\ holds' = holds \ Pipeline
  /\ exposed' = exposed \cup {"context", "candidates"}
  /\ UNCHANGED <<stepNo, lifespans, servicesUp, taking, startupStatus, venueRegistered,
                 contextCrashed>>

ShutdownBegins ==
  /\ phase = "serving"
  /\ phase' = "stopping" /\ stepNo' = 1
  /\ exposed' = {} /\ startupStatus' = "none"
  /\ UNCHANGED <<lifespans, servicesUp, taking, holds, venueRegistered, contextCrashed>>

(* mutant: subscribers are drained while the bus still dispatches *)
ShutdownOrder_BusLast ==
  <<"scanner", "protected", "providers", "context", "fundamentals", "monitor",
    "candle_recorder", "tick_relay", "features", "levels", "market_state", "strategies",
    "opportunities", "candidates", "bus",
    "authorizer", "engine", "portfolio", "outcomes", "venue">>

(* Producers, the bus, its subscribers, then the pipeline downstream.      *)
ShutdownOrder ==
  <<"scanner", "protected", "providers", "context", "fundamentals", "monitor", "bus",
    "candle_recorder", "tick_relay", "features", "levels", "market_state", "strategies",
    "opportunities", "candidates",
    "authorizer", "engine", "portfolio", "outcomes", "venue">>

(* What the pipeline never held is not stopped; stopping the context       *)
(* engine raises the error of its crashed task, and the rest is left.      *)
ShutdownStep ==
  /\ phase = "stopping" /\ stepNo <= Len(ShutdownOrder)
  /\ LET s == ShutdownOrder[stepNo]
         raises == s = "context" /\ contextCrashed
         stops == (s \in holds \/ s \notin Pipeline \cup {"protected", "scanner", "outcomes"})
     IN /\ servicesUp' = IF stops /\ ~raises THEN servicesUp \ {s} ELSE servicesUp
        /\ taking' = IF stops THEN taking \ {s} ELSE taking
        /\ venueRegistered' = (venueRegistered /\ ~(s = "venue" /\ stops))
        /\ phase' = IF raises THEN "abandoned"
                    ELSE IF stepNo = Len(ShutdownOrder) THEN "off" ELSE "stopping"
  /\ stepNo' = stepNo + 1
  /\ UNCHANGED <<lifespans, holds, exposed, startupStatus, contextCrashed>>

(* A provider of context raises in one of the loops.                       *)
ContextCrashes ==
  /\ "context" \in servicesUp /\ ~contextCrashed
  /\ contextCrashed' = TRUE
  /\ UNCHANGED <<phase, stepNo, lifespans, servicesUp, taking, holds, exposed, startupStatus,
                 venueRegistered>>

(* While it serves, providers come and go by their routes.                 *)
ProvidersChange ==
  /\ phase = "serving"
  /\ servicesUp' \in {servicesUp \ {"providers"}, servicesUp \cup {"providers"}}
  /\ UNCHANGED <<phase, stepNo, lifespans, taking, holds, exposed, startupStatus,
                 venueRegistered, contextCrashed>>

LifespanNext ==
  \/ BusStarts \/ CoreStarts \/ ProvidersConnect
  \/ VenueConnects \/ PortfolioStarts \/ Reconciles \/ BlockedVenue \/ BlockedPortfolio
  \/ PipelineStarts \/ ScannerStarts \/ OutcomesStart
  \/ RollbackStep \/ RolledBack
  \/ ShutdownBegins \/ ShutdownStep
  \/ ContextCrashes \/ ProvidersChange

LifespanSpec == LifespanInit /\ [][LifespanNext]_lifespanVars

LifespanTypeOK ==
  /\ phase \in {"off", "core", "providers", "venue", "portfolio", "reconcile", "blocked",
                "blocked_portfolio", "hydrate", "scanner", "outcomes", "serving", "rollback",
                "stopping", "abandoned"}
  /\ stepNo \in Nat /\ lifespans \in 0 .. MaxLifespans
  /\ servicesUp \subseteq Services /\ taking \subseteq {"authorizer", "engine"}
  /\ holds \subseteq Services /\ exposed \subseteq Services
  /\ startupStatus \in {"none", "ready", "reconciliation_blocked", "startup_failed"}
  /\ venueRegistered \in BOOLEAN /\ contextCrashed \in BOOLEAN

(* Whatever fails at start-up and however far a rollback or a shutdown is, *)
(* who takes entries has the whole pipeline to hand them to.               *)
HandOverWhole ==
  "authorizer" \in taking =>
    "engine" \in taking /\ Pipeline \ {"monitor"} \subseteq servicesUp

(* Nothing is stopped before those who hand work to it, and no subscriber  *)
(* is drained while the bus dispatches.                                    *)
ConsumersLast ==
  [][LET Leaves(s) == s \in servicesUp \ servicesUp'
     IN /\ Leaves("engine") => {"authorizer", "monitor"} \cap servicesUp' = {}
        /\ Leaves("portfolio") \/ Leaves("venue") => "engine" \notin servicesUp'
        /\ (\E s \in Subscribers : Leaves(s)) => "bus" \notin servicesUp'
    ]_lifespanVars

(* What the routes are shown runs, "ready" is said of a pipeline that is   *)
(* all there with its venue registered, and a process that serves with any *)
(* other status takes no entries and runs none of it.                      *)
StatusTrue ==
  /\ exposed \subseteq servicesUp
  /\ startupStatus = "ready" =>
       Pipeline \subseteq servicesUp /\ venueRegistered /\ taking = {"authorizer", "engine"}
  /\ phase = "serving" /\ startupStatus # "ready" =>
       servicesUp \cap Pipeline = {} /\ taking = {} /\ ~venueRegistered

(* A shutdown that finishes leaves nothing up or registered; one that the  *)
(* context engine's stop aborts does.                                      *)
NothingLeftAlive == phase = "off" => servicesUp = {} /\ taking = {} /\ ~venueRegistered
=============================================================================
