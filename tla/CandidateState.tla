---------------------------- MODULE CandidateState ----------------------------
(***************************************************************************)
(* trading_intelligence/candidate_state.py, the reducer of completed       *)
(* evaluation batches, with the reader that feeds it,                      *)
(* candidate_observation.py, and candidate_eligibility.py.                 *)
(*                                                                         *)
(* One symbol.  A candle is its time, the start of an interval one unit    *)
(* long.  Batches come in any order, again, or with other content.         *)
(***************************************************************************)
EXTENDS Integers, FiniteSets

CONSTANTS
  Strategies,    \* strategy versions
  Timeframes,
  Opportunities, \* contents of an opportunity disposition
  MaxNow,        \* bound: the clock and the candles
  MaxAge,        \* CandidateFreshnessPolicy, the same for every timeframe
  SessionOf,     \* SessionOf[now]: the start of the session, or NoSession
  NoSession

ASSUME CandidateAssumption ==
  /\ MaxNow \in Nat /\ MaxAge \in Nat
  /\ SessionOf \in [0 .. MaxNow -> Nat \cup {NoSession}] /\ NoSession \notin Nat
  /\ \A t \in 0 .. MaxNow : SessionOf[t] # NoSession => SessionOf[t] <= t

VARIABLES
  slots,        \* the latest evaluation of each strategy version
  unavailable,  \* the latest unavailable input of each frame
  retired, boundary,
  reader, session, now,
  slept         \* history: a session passed that the reader never rolled into

candidateVars == <<slots, unavailable, retired, boundary, reader, session, now, slept>>

Times == 0 .. MaxNow
Gated == "gated"          \* stands for no_opportunity, gated and error
Contents == Opportunities \cup {Gated}
NoRecord == [ts |-> -1, tf |-> "none", content |-> Gated, invalid |-> FALSE]
Record == [ts : Times, tf : Timeframes, content : Contents, invalid : BOOLEAN]
NoOutage == -1

CandidateInit ==
  /\ slots = [s \in Strategies |-> NoRecord]
  /\ unavailable = [f \in Timeframes |-> NoOutage]
  /\ retired = {} /\ boundary = 0
  /\ reader = "not_started" /\ session = NoSession /\ now = 0
  /\ slept = FALSE

---------------------------------------------------------------------------
(* The reducer                                                             *)

Invalidated(r) == [r EXCEPT !.invalid = TRUE]

(* mutant: only candidates of the very candle are invalidated *)
Hit_SameCandle(r, f, t) == r.tf = f /\ r.content # Gated /\ ~r.invalid /\ r.ts = t

Hit(r, f, t) == r.tf = f /\ r.content # Gated /\ ~r.invalid /\ r.ts < t

(* _apply_unavailable of the frame f at candle t: stale, duplicate and     *)
(* conflicting outages change nothing.                                     *)
ApplyUnavailable(f, t) ==
  IF unavailable[f] >= t \/ (\E s \in Strategies : slots[s].tf = f /\ slots[s].ts = t)
  THEN UNCHANGED <<slots, unavailable>>
  ELSE /\ slots' = [s \in Strategies |-> IF Hit(slots[s], f, t) THEN Invalidated(slots[s]) ELSE slots[s]]
       /\ unavailable' = [unavailable EXCEPT ![f] = t]

(* mutant: a late batch replaces a newer record *)
Accepts_Late(s, f, t) ==
  s \notin retired /\ (slots[s] = NoRecord \/ (slots[s].tf = f /\ t # slots[s].ts))

Accepts(s, f, t) ==
  s \notin retired /\ (slots[s] = NoRecord \/ (slots[s].tf = f /\ t > slots[s].ts))

(* Another content for the same candle of the same slot.                   *)
Conflicts(s, f, t, c) ==
  /\ s \notin retired /\ slots[s].tf = f /\ slots[s].ts = t /\ slots[s].content # c

(* _apply_available: one conflict withholds the whole batch.               *)
ApplyAvailable(f, t, d) ==
  /\ slots' = IF unavailable[f] >= t \/ (\E s \in DOMAIN d : Conflicts(s, f, t, d[s])) THEN slots
              ELSE [s \in Strategies |->
                     IF s \in DOMAIN d /\ Accepts(s, f, t)
                     THEN [ts |-> t, tf |-> f, content |-> d[s], invalid |-> FALSE]
                     ELSE slots[s]]
  /\ UNCHANGED unavailable

(* apply_batch: whatever began before the last reset is refused.           *)
ApplyBatch(f, t) ==
  /\ t >= boundary
  /\ \/ ApplyUnavailable(f, t)
     \/ \E of \in (SUBSET Strategies) \ {{}} : \E d \in [of -> Contents] : ApplyAvailable(f, t, d)

Larger(a, b) == IF a < b THEN b ELSE a

(* apply_reset *)
Reset(b) ==
  /\ slots' = [s \in Strategies |-> NoRecord]
  /\ unavailable' = [f \in Timeframes |-> NoOutage]
  /\ boundary' = Larger(boundary, b)

---------------------------------------------------------------------------
(* The reader                                                              *)

Key == SessionOf[now]

(* _roll_session, first thing in every delivery and snapshot               *)
Rolled == session = Key
Roll ==
  /\ reader = "running" /\ ~Rolled /\ session' = Key /\ slept' = FALSE
  /\ Reset(IF Key = NoSession THEN now ELSE Key)
  /\ UNCHANGED <<retired, reader, now>>

(* _on_batch: _roll_session runs before it, as a step of its own only to   *)
(* the eye: a batch is taken in a rolled session.  A batch of another mode *)
(* and one that does not validate change nothing.                          *)
OnBatch ==
  /\ reader = "running" /\ Rolled
  /\ \E f \in Timeframes, t \in Times : ApplyBatch(f, t)
  /\ UNCHANGED <<retired, boundary, reader, session, now, slept>>

StartReader ==
  /\ reader # "running" /\ reader' = "running" /\ session' = Key /\ slept' = FALSE
  /\ slots' = [s \in Strategies |-> NoRecord]
  /\ unavailable' = [f \in Timeframes |-> NoOutage]
  /\ retired' = {} /\ boundary' = now /\ UNCHANGED now

StopReader ==
  /\ reader = "running" /\ reader' = "stopped"
  /\ UNCHANGED <<slots, unavailable, retired, boundary, session, now, slept>>

OwnershipChanged ==
  /\ reader = "running" /\ Reset(now)
  /\ UNCHANGED <<retired, reader, session, now, slept>>

(* retire_strategy_versions *)
RetireVersion ==
  /\ reader = "running"
  /\ \E s \in Strategies \ retired :
       /\ retired' = retired \cup {s} /\ slots' = [slots EXCEPT ![s] = NoRecord]
  /\ UNCHANGED <<unavailable, boundary, reader, session, now, slept>>

CandidateTick ==
  /\ now < MaxNow /\ now' = now + 1
  /\ slept' = (slept \/ (Key # NoSession /\ ~Rolled))
  /\ UNCHANGED <<slots, unavailable, retired, boundary, reader, session>>

CandidateNext ==
  \/ Roll \/ OnBatch \/ StartReader \/ StopReader \/ OwnershipChanged
  \/ RetireVersion \/ CandidateTick

CandidateSpec == CandidateInit /\ [][CandidateNext]_candidateVars

---------------------------------------------------------------------------
(* _assess: what counts as a candidate at an instant.                      *)
Age(r) == now - (r.ts + 1)

Eligible(s) ==
  LET r == slots[s]
  IN r # NoRecord /\ r.content # Gated /\ ~r.invalid /\ 0 <= Age(r) /\ Age(r) <= MaxAge

(* snapshot: a running reader rolls a session that is due before it        *)
(* assesses, and a roll leaves no candidate.                               *)
Shown == {s \in Strategies : Eligible(s) /\ (reader = "running" => Rolled)}

CandidateTypeOK ==
  /\ slots \in [Strategies -> Record \cup {NoRecord}]
  /\ unavailable \in [Timeframes -> Times \cup {NoOutage}]
  /\ retired \subseteq Strategies /\ boundary \in Nat
  /\ reader \in {"not_started", "running", "stopped"} /\ now \in Times
  /\ session \in Nat \cup {NoSession} /\ slept \in BOOLEAN

(* No candidate survives missing input: whatever the order and repetition  *)
(* of batches, an opportunity that is not invalidated is newer than the    *)
(* last outage of its frame, and no candle has both.                       *)
NoCandidateUnderOutage ==
  \A s \in Strategies : slots[s] # NoRecord =>
    /\ slots[s].content # Gated /\ ~slots[s].invalid => slots[s].ts > unavailable[slots[s].tf]
    /\ slots[s].ts # unavailable[slots[s].tf]

(* Nothing of before a reset, and nothing of a retired version, is left.   *)
NothingFromBefore ==
  /\ \A s \in Strategies : slots[s] # NoRecord => slots[s].ts >= boundary /\ s \notin retired
  /\ \A f \in Timeframes : unavailable[f] # NoOutage => unavailable[f] >= boundary

(* A slot never goes back: its candle only grows, the content of a candle  *)
(* never changes, and an invalidated candidate never becomes valid again.  *)
SlotForward(s) ==
  slots'[s] # NoRecord /\ slots[s] # NoRecord =>
    \/ slots'[s].ts > slots[s].ts
    \/ slots'[s] = slots[s]
    \/ slots'[s] = Invalidated(slots[s])

NewestStands == [][\A s \in Strategies : SlotForward(s)]_candidateVars

(* What a running reader shows is of the session that is on, and outside   *)
(* of sessions it is not of one before, unless the reader slept through a  *)
(* session: it compares sessions only when it is asked or told something.  *)
ShownIsOfSession ==
  reader = "running" => \A s \in Shown :
    IF Key # NoSession THEN slots[s].ts >= Key
    ELSE slept \/ \A u \in slots[s].ts .. now : SessionOf[u] = NoSession

CandidatesSound == NoCandidateUnderOutage /\ NothingFromBefore /\ ShownIsOfSession
=============================================================================
