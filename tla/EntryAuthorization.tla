-------------------------- MODULE EntryAuthorization --------------------------
(***************************************************************************)
(* governor/engine.py on top of PortfolioState: one worker decides the     *)
(* opportunities one after the other.  It reads a snapshot in a thread,    *)
(* commits the decision with its reservation, and only then publishes      *)
(* OrderApproved.  The rules on prices and losses are in EntryRules; here  *)
(* they may refuse anything.                                               *)
(***************************************************************************)
EXTENDS PortfolioState

CONSTANTS MaxOpen     \* execution_max_concurrent_positions

ASSUME AuthorizationAssumption == MaxOpen \in Nat

VARIABLES
  waiting,    \* opportunities not yet decided
  current,    \* the one in hand: [entry, step] or Nobody
  outcome,    \* outcome[e]: "none", "approved", "rejected", "dropped"
  blind       \* history: approved while the snapshot missed something

authVars == <<waiting, current, outcome, blind>>
vars == <<portfolioVars, authVars>>

(* A value for SymbolOf: no two entries compete for a symbol.              *)
OwnSymbol == [e \in Entries |-> e]

Nobody == [entry |-> "nobody", step |-> "idle"]

Init ==
  /\ PortfolioInit
  /\ waiting = Entries /\ current = Nobody /\ blind = {}
  /\ outcome = [e \in Entries |-> "none"]

Begin(e) ==
  /\ current = Nobody /\ e \in waiting
  /\ waiting' = waiting \ {e}
  /\ current' = [entry |-> e, step |-> "decide"]
  /\ UNCHANGED <<portfolioVars, outcome, blind>>

(* mutant: only positions count against the limit *)
WithinLimits_Positions(e) == Cardinality(state.positions) < MaxOpen

(* evaluate_authorization, rule 4: the symbol is free and there is room.   *)
WithinLimits(e) ==
  /\ \A x \in Snapshot : SymbolOf[x] # SymbolOf[e]
  /\ Cardinality(Snapshot) < MaxOpen

(* What is really open or in flight.                                       *)
Exposed == {e \in Entries : status[e] \in {"reserved", "filled"}}

End(result) ==
  /\ outcome' = [outcome EXCEPT ![current.entry] = result]
  /\ current' = Nobody

(* PortfolioStateUnavailable drops the opportunity without a decision.     *)
Decide ==
  /\ current.step = "decide"
  /\ \/ ~ready /\ End("dropped") /\ UNCHANGED blind
     \/ /\ ready /\ WithinLimits(current.entry)
        /\ current' = [current EXCEPT !.step = "commit"]
        /\ blind' = IF Exposed \subseteq Snapshot THEN blind ELSE blind \cup {current.entry}
        /\ UNCHANGED outcome
     \/ ready /\ End("rejected") /\ UNCHANGED blind
  /\ UNCHANGED <<portfolioVars, waiting>>

(* mutant: a decision that could not be committed is announced *)
Commit_Announces ==
  /\ current.step = "commit"
  /\ current' = [current EXCEPT !.step = "publish"]
  /\ \/ status' = [status EXCEPT ![current.entry] = "reserved"] /\ UNCHANGED failures
     \/ Room /\ failures' = failures + 1 /\ UNCHANGED status
  /\ UNCHANGED <<fills, applied, engineVars, bus, clock, elsewhere, heard,
                 closedEvents, waiting, outcome, blind>>

(* commit_decision writes trade and reservation together, or raises.       *)
Commit ==
  /\ current.step = "commit"
  /\ \/ /\ status' = [status EXCEPT ![current.entry] = "reserved"]
        /\ current' = [current EXCEPT !.step = "publish"]
        /\ UNCHANGED <<failures, outcome>>
     \/ /\ Room /\ failures' = failures + 1 /\ End("dropped")
        /\ UNCHANGED status
  /\ UNCHANGED <<fills, applied, engineVars, bus, clock, elsewhere, heard,
                 closedEvents, waiting, blind>>

Publish ==
  /\ current.step = "publish"
  /\ Announce(current.entry) /\ End("approved")
  /\ UNCHANGED <<ledgerVars, engineVars, clock, failures, elsewhere, heard,
                 closedEvents, waiting, blind>>

Authorize == (\E e \in Entries : Begin(e)) \/ Decide \/ Commit \/ Publish

(* The execution engine acts on an entry once its approval was delivered.  *)
Placed(e) == outcome[e] = "approved" /\ \A n \in Range(bus) : n.kind = "order" => n.entry # e
Environment ==
  /\ PortfolioNext /\ UNCHANGED authVars
  /\ \A e \in Entries : status[e] # status'[e] => Placed(e)

Next == Authorize \/ Environment

Spec == Init /\ [][Next]_vars
FairSpec ==
  /\ Spec
  /\ WF_vars(Deliver /\ UNCHANGED authVars) /\ WF_vars(Worker /\ UNCHANGED authVars)
  /\ WF_vars(Retry /\ UNCHANGED authVars) /\ WF_vars(Authorize)

---------------------------------------------------------------------------
TypeOK ==
  /\ applied \in 0 .. Len(fills) /\ state.cursor <= applied
  /\ unresolved \subseteq Entries /\ pc \in {"idle", "load", "pending", "apply"}
  /\ \A e \in Entries : outcome[e] = "approved" => status[e] # "none"

Announced == {n.entry : n \in {x \in Range(bus) \cup Range(queue) : x.kind = "order"}}

(* A ready snapshot is not behind the ledger the worker was called to look *)
(* at: every fill recorded before its last wake-up is applied, and every   *)
(* entry reserved by then is counted, over, or about to be announced.      *)
ReadyIsCurrent ==
  ready => /\ state.cursor >= heard.fills
           /\ \A e \in heard.reserved :
                \/ e \in Snapshot \cup Announced
                \/ status[e] \in {"closed", "cancelled"}

(* The limit and one entry per symbol hold as long as no decision was      *)
(* taken from a snapshot that missed an exposure.                          *)
LimitUnlessBlind ==
  blind = {} => /\ Cardinality(Exposed) <= MaxOpen
                /\ \A d, e \in Exposed : SymbolOf[d] = SymbolOf[e] => d = e

(* A position is valued only by a tick that came after it was opened, and  *)
(* its closing is announced once, after the commit.                        *)
MarksAndClosings ==
  /\ \A p \in Entries : marks[p] # NoMark => p \in state.positions /\ marks[p] > 0
  /\ \A i, j \in DOMAIN closedEvents : closedEvents[i] = closedEvents[j] => i = j
  /\ \A i \in DOMAIN closedEvents : closedEvents[i] \notin OpenAfter(applied)

(* After any failure or burst of events the snapshot is available again.   *)
ReadyAgain == []<>ready

(* docs/architecture/execution-engine-design.md:3561: the maximum of open  *)
(* positions plus in-flight entries at any moment.                         *)
EntryLimit == Cardinality(Exposed) <= MaxOpen
=============================================================================
