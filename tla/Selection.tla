------------------------------- MODULE Selection -------------------------------
(***************************************************************************)
(* From the eligible candidates of an instant to an accepted trade: the    *)
(* capture of candidate_ranking.py, candidate_selection.py, the journal of *)
(* decision_audit/ and the candidate claims of governor/postgres.py.       *)
(*                                                                         *)
(* A candidate stands for its id; its symbol is given.  A selection has as  *)
(* inputs what was assessed, the portfolio and the slots; journal and      *)
(* claims are tables of the database.                                      *)
(***************************************************************************)
EXTENDS Integers, FiniteSets

CONSTANTS
  Candidates, SymbolFor,
  Selections,    \* selection ids
  AcceptedTrades \* trade ids

ASSUME SelectionAssumption == IsFiniteSet(Candidates)

VARIABLES
  tried,   \* the attempted candidate ids the caller keeps
  result,  \* the last selection, or NoSelection
  journal, \* selection_attempts
  claims   \* candidate_acceptances: what each trade was approved with

selectionVars == <<tried, result, journal, claims>>

NoSelection == [status |-> "none"]
NoRow == [status |-> "none"]
NoClaim == [status |-> "none", candidate |-> "none", selection |-> "none"]
SelectionSymbols == {SymbolFor[c] : c \in Candidates}

---------------------------------------------------------------------------
(* rank_candidates captures the eligible candidates received by the cutoff *)
(* and orders nothing.                                                     *)
Captured(assessed) == {c \in Candidates : assessed[c] = "eligible"}

(* A portfolio is usable, or missing, unavailable, not synchronized or of  *)
(* another mode; it has what is open and in flight.  slots = 0 when no     *)
(* slot policy is set.                                                     *)
Usable(p) == p.usable /\ p.slots > 0
Busy(p, c) == SymbolFor[c] \in p.open \cup p.inflight
FreeSlots(p) == p.slots - Cardinality(p.open) - Cardinality(p.inflight)

(* mutant: a slot is free as long as positions leave one                   *)
Survivors_InFlightFree(p, captured) ==
  IF ~Usable(p) \/ p.slots - Cardinality(p.open) <= 0 THEN {} ELSE {c \in captured : SymbolFor[c] \notin p.open}

Survivors(p, captured) ==
  IF ~Usable(p) \/ FreeSlots(p) <= 0 THEN {} ELSE {c \in captured : ~Busy(p, c)}

(* mutant: attempted candidates are put aside before the ambiguity is seen *)
Selected_Retry(p, captured, attempted) ==
  LET left == Survivors(p, captured) \ attempted
  IN IF Cardinality(left) = 1 THEN left ELSE {}

(* select: the only survivor, unless it was attempted.                     *)
Selected(p, captured, attempted) ==
  LET left == Survivors(p, captured)
  IN IF Cardinality(left) = 1 THEN left \ attempted ELSE {}

(* mutant: an attempted candidate is dropped without a word                *)
BecauseAttempted_Silent(left, attempted) == {}

BecauseAttempted(left, attempted) == {x \in {"attempted"} : left \subseteq attempted}

(* Why nothing is selected.                                                *)
Reasons(p, captured, attempted) ==
  LET left == Survivors(p, captured)
  IN IF ~Usable(p) THEN {"unusable"}
     ELSE IF left = {}
     THEN {IF captured = {} THEN "none eligible" ELSE "all excluded"}
            \cup {x \in {"no slots"} : FreeSlots(p) <= 0 /\ \E c \in captured : ~Busy(p, c)}
     ELSE IF Cardinality(left) > 1 THEN {"multiple"}
     ELSE BecauseAttempted(left, attempted)

(* Survivors that stand in each other's way: of one symbol, or all.        *)
ConflictGroups(left) ==
  IF Cardinality(left) < 2 THEN {}
  ELSE LET ofSymbol == {{c \in left : SymbolFor[c] = s} : s \in SelectionSymbols}
       IN {g \in ofSymbol : Cardinality(g) > 1} \cup {g \in {left} : left \notin ofSymbol}

(* What the journal asks of a record.                                      *)
Recordable(r) ==
  IF r.selected # {}
  THEN r.selected \subseteq r.captured /\ r.reasons = {} /\ r.portfolio.usable
  ELSE r.reasons # {}

---------------------------------------------------------------------------
SelectionInit ==
  /\ tried = {} /\ result = NoSelection
  /\ journal = [s \in Selections |-> NoRow] /\ claims = [t \in AcceptedTrades |-> NoClaim]

(* A symbol has one exposure at most.                                      *)
Portfolios ==
  {p \in [usable : BOOLEAN, open : SUBSET SelectionSymbols, inflight : SUBSET SelectionSymbols, slots : 0 .. 2] :
     p.open \cap p.inflight = {}}

Select ==
  /\ result = NoSelection
  /\ \E a \in [Candidates -> {"not_eligible", "late", "eligible"}], p \in Portfolios :
       result' = [status |-> "made", captured |-> Captured(a), portfolio |-> p, attempted |-> tried,
                  selected |-> Selected(p, Captured(a), tried),
                  reasons |-> IF Selected(p, Captured(a), tried) # {} THEN {} ELSE Reasons(p, Captured(a), tried)]
  /\ UNCHANGED <<tried, journal, claims>>

(* record_attempt refuses a second attempt.                                *)
RecordAttempt ==
  /\ \E c \in Candidates \ tried : tried' = tried \cup {c}
  /\ UNCHANGED <<result, journal, claims>>

(* PostgresSelectionJournal.append: inserted, found again, or refused.  A  *)
(* shadow record comes from shadow_selection_record.                       *)
Appended(s, row) == IF journal[s] = NoRow THEN [journal EXCEPT ![s] = row] ELSE journal

AppendSelection ==
  /\ result # NoSelection
  /\ \E s \in Selections, shadow \in BOOLEAN :
       journal' = IF Recordable(result)
                  THEN Appended(s, [status |-> "stored", shadow |-> shadow, selected |-> result.selected])
                  ELSE journal
  /\ result' = NoSelection /\ UNCHANGED <<tried, claims>>

(* check_acceptance_support; an approval whose symbol, strategy or         *)
(* direction is not the candidate's is refused too.                        *)
Supports(attempt, c) ==
  attempt.status = "stored" /\ ~attempt.shadow /\ attempt.selected = {c}

(* mutant: whether the candidate was accepted before is not looked at      *)
Claimable_Again(t, c, s) == claims[t] = NoClaim /\ Supports(journal[s], c)

(* _check_new_claim                                                        *)
Claimable(t, c, s) ==
  /\ claims[t] = NoClaim
  /\ \A u \in AcceptedTrades : claims[u].candidate # c
  /\ Supports(journal[s], c)

(* commit_decision of an approval.  The trade and its claim are one        *)
(* transaction; a replay must match it and changes nothing.  An approval   *)
(* without an acceptance has no claim, and none can be added to it.        *)
Legacy == [status |-> "unclaimed", candidate |-> "none", selection |-> "none"]

Approve ==
  /\ \E t \in AcceptedTrades :
       \/ \E c \in Candidates, s \in Selections :
            /\ Claimable(t, c, s)
            /\ claims' = [claims EXCEPT ![t] = [status |-> "claimed", candidate |-> c, selection |-> s]]
       \/ claims[t] = NoClaim /\ claims' = [claims EXCEPT ![t] = Legacy]
  /\ UNCHANGED <<tried, result, journal>>

SelectionNext == Select \/ RecordAttempt \/ AppendSelection \/ Approve

---------------------------------------------------------------------------
SelectionTypeOK ==
  /\ tried \subseteq Candidates
  /\ \A s \in Selections : journal[s] # NoRow => Cardinality(journal[s].selected) <= 1
  /\ \A t \in AcceptedTrades : claims[t].status \in {"none", "claimed", "unclaimed"}

(* A candidate is accepted once, and by a selection that was made in       *)
(* earnest and chose it.                                                   *)
AcceptedOnce ==
  /\ \A t, u \in AcceptedTrades :
       claims[t].status = "claimed" /\ claims[u].status = "claimed" /\ claims[t].candidate = claims[u].candidate => t = u
  /\ \A t \in AcceptedTrades : claims[t].status = "claimed" =>
       LET row == journal[claims[t].selection]
       IN row.status = "stored" /\ ~row.shadow /\ row.selected = {claims[t].candidate}

(* An attempt never promotes another candidate: over the same capture a    *)
(* selection with more attempts chooses the same one or none.              *)
AttemptsPromoteNobody ==
  result # NoSelection =>
    \A more \in SUBSET Candidates :
      Selected(result.portfolio, result.captured, result.attempted \cup more) \subseteq result.selected

(* What is chosen fits: with the exposures there are it stays within the   *)
(* slots, one to a symbol.                                                 *)
ChoiceFits ==
  result # NoSelection => \A c \in result.selected :
    LET p == result.portfolio
    IN SymbolFor[c] \notin p.open \cup p.inflight /\ Cardinality(p.open \cup p.inflight) < p.slots

(* Whatever is decided can be recorded, and is told apart: several stay    *)
(* ambiguous together with whatever group they are of, and what would have *)
(* been chosen but for an attempt says so.                                 *)
DecisionsTold ==
  result # NoSelection =>
    LET left == Survivors(result.portfolio, result.captured)
        groups == ConflictGroups(left)
    IN /\ Recordable(result)
       /\ (result.reasons = {"multiple"}) <=> groups # {}
       /\ groups # {} => UNION groups = left
       /\ Selected(result.portfolio, result.captured, {}) # result.selected =>
            result.reasons = {"attempted"}

(* The journal only grows and a claim is never changed.                    *)
HistoryStands ==
  [][/\ \A s \in Selections : journal[s] # NoRow => journal'[s] = journal[s]
     /\ \A t \in AcceptedTrades : claims[t] # NoClaim => claims'[t] = claims[t]]_selectionVars
=============================================================================
