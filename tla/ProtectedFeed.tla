---------------------------- MODULE ProtectedFeed ----------------------------
(***************************************************************************)
(* services/protected_feed_reconciliation.py over a provider that can lose *)
(* its connection, broker_adapters/finnhub_provider.py: symbols of open    *)
(* positions and working orders must keep being asked for, whatever        *)
(* happens to the socket or to the ownership of streaming.                 *)
(*                                                                         *)
(* A send is two steps, its frame and its return: in between other tasks   *)
(* run.  A send that returns lets its task go on at once; one whose socket *)
(* was lost meanwhile raises.  The lengths of delays are left out.         *)
(***************************************************************************)
EXTENDS Integers, FiniteSets

CONSTANTS
  FeedSymbols,
  MaxSockets, MaxRequests, MaxFaults, MaxNews     \* bounds of the model

ASSUME ProtectedFeedAssumption == {MaxSockets, MaxRequests, MaxFaults, MaxNews} \subseteq Nat

VARIABLES
  enabled, connected,
  gen, alive,      \* sockets opened so far; whether the last one is alive
  desired, local,  \* _desired_symbols, _symbols
  served,          \* what the last socket has been asked for
  supervisor, restore,
  sender, sent,    \* the holder of _send_lock; its frame under way [sym, on]
  requests,        \* subscribe and unsubscribe calls that have not returned
  owner,           \* this provider is the registered streaming provider
  protected, news, \* the ledger's symbols; its wake is still to be given
  wake, cycle, seen, ask, outcome,
  asked, faults, changes

feedVars == <<enabled, connected, gen, alive, desired, local, served, supervisor,
              restore, sender, sent, requests, owner, protected, news, wake,
              cycle, seen, ask, outcome, asked, faults, changes>>

ownerVars == <<owner, protected, news, changes>>
cycleVars == <<cycle, seen, ask, outcome>>
taskVars == <<supervisor, restore, sender, sent, requests, asked>>

Nobody == 0
Restorer == -1
FeedCall == -2
NoFrame == [sym |-> "none", on |-> 0]

FeedInit ==
  /\ enabled = FALSE /\ connected = FALSE /\ gen = 0 /\ alive = FALSE
  /\ desired = {} /\ local = {} /\ served = {} /\ supervisor = "off"
  /\ restore = {} /\ sender = Nobody /\ sent = NoFrame /\ requests = {}
  /\ owner = FALSE /\ protected = {} /\ news = FALSE /\ wake = FALSE
  /\ cycle = "reading" /\ seen = {} /\ ask = {} /\ outcome = "none"
  /\ asked = 0 /\ faults = 0 /\ changes = 0

Fault == faults < MaxFaults /\ faults' = faults + 1

(* request_reconcile *)
(* mutant: a wake during a cycle is taken for answered by that cycle *)
Signal_Idle == wake' = (wake \/ cycle = "waiting")

Signal == wake' = (wake \/ cycle # "stopped")

---------------------------------------------------------------------------
(* The connection                                                          *)

OpenSocket ==
  /\ gen < MaxSockets /\ gen' = gen + 1 /\ alive' = TRUE
  /\ connected' = TRUE /\ served' = {}

ConnectFeed ==
  /\ ~enabled /\ OpenSocket
  /\ enabled' = TRUE /\ supervisor' = "listening"
  /\ UNCHANGED <<desired, local, restore, sender, sent, requests, asked, wake, faults>>
  /\ UNCHANGED <<ownerVars, cycleVars>>

(* disconnect and the supervisor it cancels, which may hold the send lock. *)
DisconnectFeed ==
  /\ enabled
  /\ enabled' = FALSE /\ connected' = FALSE /\ alive' = FALSE
  /\ desired' = {} /\ local' = {} /\ supervisor' = "off" /\ restore' = {}
  /\ IF sender = Restorer THEN sender' = Nobody /\ sent' = NoFrame
                          ELSE UNCHANGED <<sender, sent>>
  /\ UNCHANGED <<gen, served, requests, asked, wake, faults>>
  /\ UNCHANGED <<ownerVars, cycleVars>>

SocketDies ==
  /\ alive /\ Fault /\ alive' = FALSE
  /\ UNCHANGED <<enabled, connected, gen, desired, local, served, wake>>
  /\ UNCHANGED <<taskVars, ownerVars, cycleVars>>

(* _supervise: _listen ends, or a restoring send raises.                   *)
LoseSocket ==
  /\ ~alive
  /\ \/ supervisor \in {"listening", "resumed"} /\ UNCHANGED <<sender, sent>>
     \/ supervisor = "restoring" /\ sender' = Nobody /\ sent' = NoFrame
  /\ connected' = FALSE /\ local' = {}
  /\ supervisor' = "retrying" /\ restore' = {}
  /\ UNCHANGED <<enabled, gen, alive, desired, served, requests, asked, wake, faults>>
  /\ UNCHANGED <<ownerVars, cycleVars>>

ReopenSocket ==
  /\ supervisor = "retrying" /\ OpenSocket /\ supervisor' = "reopened"
  /\ UNCHANGED <<enabled, desired, local, restore, sender, sent, requests, asked, wake, faults>>
  /\ UNCHANGED <<ownerVars, cycleVars>>

(* mutant: what is restored is what the lost socket carried *)
ToRestore_Local == local

ToRestore == desired

BeginRestore ==
  /\ supervisor = "reopened" /\ sender = Nobody
  /\ sender' = Restorer /\ restore' = ToRestore /\ supervisor' = "restoring"
  /\ UNCHANGED <<enabled, connected, gen, alive, desired, local, served, sent,
                 requests, asked, wake, faults>>
  /\ UNCHANGED <<ownerVars, cycleVars>>

Issue(s) ==
  /\ alive /\ served' = served \cup {s} /\ sent' = [sym |-> s, on |-> gen]

(* One symbol: skipped when it was given up while the loop waited.         *)
RestoreOne ==
  /\ supervisor = "restoring" /\ sent = NoFrame
  /\ \E s \in restore :
       /\ restore' = restore \ {s}
       /\ IF s \in desired THEN Issue(s) ELSE UNCHANGED <<served, sent>>
  /\ UNCHANGED <<enabled, connected, gen, alive, desired, local, supervisor,
                 sender, requests, asked, wake, faults>>
  /\ UNCHANGED <<ownerVars, cycleVars>>

RestoreReturned ==
  /\ supervisor = "restoring" /\ sent # NoFrame /\ alive
  /\ local' = local \cup {sent.sym} /\ sent' = NoFrame
  /\ UNCHANGED <<enabled, connected, gen, alive, desired, served, supervisor,
                 restore, sender, requests, asked, wake, faults>>
  /\ UNCHANGED <<ownerVars, cycleVars>>

Restored ==
  /\ supervisor = "restoring" /\ restore = {} /\ sent = NoFrame
  /\ supervisor' = "resumed" /\ sender' = Nobody
  /\ IF owner THEN Signal ELSE UNCHANGED wake
  /\ UNCHANGED <<enabled, connected, gen, alive, desired, local, served,
                 restore, sent, requests, asked, faults>>
  /\ UNCHANGED <<ownerVars, cycleVars>>

---------------------------------------------------------------------------
(* subscribe and unsubscribe                                               *)

Call(id, op, s) == [id |-> id, op |-> op, sym |-> s]

AskRoute ==
  /\ asked < MaxRequests /\ asked' = asked + 1
  /\ \E s \in FeedSymbols :
       \/ /\ enabled /\ UNCHANGED desired
          /\ requests' = requests \cup {Call(asked + 1, "subscribe", s)}
       \/ /\ desired' = desired \ {s}
          /\ requests' = requests \cup {Call(asked + 1, "unsubscribe", s)}
  /\ UNCHANGED <<enabled, connected, gen, alive, local, served, supervisor,
                 restore, sender, sent, wake, faults>>
  /\ UNCHANGED <<ownerVars, cycleVars>>

(* mutant: what was wanted once counts as asked for *)
Skip_Desired(r) ==
  ~connected \/ IF r.op = "subscribe" THEN r.sym \in desired ELSE r.sym \notin local

Skip(r) ==
  ~connected \/ IF r.op = "subscribe" THEN r.sym \in local ELSE r.sym \notin local

(* A call that raises; one of the reconciler's is counted by its cycle.    *)
Raised(r) ==
  outcome' = IF r.id = FeedCall THEN "failing" ELSE outcome

(* The call has the lock: nothing to send, or its frame goes out.          *)
(* A dead socket that nobody has noticed yet raises.                       *)
StartRequest(r) ==
  /\ sender = Nobody
  /\ desired' = IF r.op = "subscribe" THEN desired \cup {r.sym} ELSE desired
  /\ IF Skip(r) \/ ~alive
     THEN /\ requests' = requests \ {r} /\ UNCHANGED <<sender, sent, served>>
          /\ IF Skip(r) THEN UNCHANGED outcome ELSE Raised(r)
     ELSE /\ sender' = r.id /\ sent' = [sym |-> r.sym, on |-> gen]
          /\ served' = IF r.op = "subscribe" THEN served \cup {r.sym} ELSE served \ {r.sym}
          /\ UNCHANGED <<requests, outcome>>
  /\ UNCHANGED <<enabled, connected, gen, alive, local, supervisor, restore, asked,
                 wake, faults, cycle, seen, ask>>
  /\ UNCHANGED ownerVars

RequestReturned(r) ==
  /\ sender = r.id /\ sender' = Nobody /\ sent' = NoFrame /\ requests' = requests \ {r}
  /\ IF alive /\ sent.on = gen
     THEN /\ local' = IF r.op = "subscribe" THEN local \cup {r.sym} ELSE local \ {r.sym}
          /\ UNCHANGED outcome
     ELSE Raised(r) /\ UNCHANGED local
  /\ UNCHANGED <<enabled, connected, gen, alive, desired, served, supervisor,
                 restore, asked, wake, faults, cycle, seen, ask>>
  /\ UNCHANGED ownerVars

---------------------------------------------------------------------------
(* The ledger and the ownership of streaming                               *)

ProviderStill == UNCHANGED <<enabled, connected, gen, alive, desired, local, served>>

(* An order or a position is committed or closed; a new one's wake follows *)
Commit ==
  /\ changes < MaxNews /\ changes' = changes + 1
  /\ \E s \in FeedSymbols :
       \/ s \notin protected /\ protected' = protected \cup {s} /\ news' = TRUE
       \/ s \in protected /\ protected' = protected \ {s} /\ UNCHANGED news
  /\ UNCHANGED <<owner, wake, faults>> /\ ProviderStill
  /\ UNCHANGED taskVars /\ UNCHANGED cycleVars

AnnounceNews ==
  /\ news /\ news' = FALSE /\ Signal
  /\ UNCHANGED <<owner, protected, changes, faults>> /\ ProviderStill
  /\ UNCHANGED taskVars /\ UNCHANGED cycleVars

(* take_over_streaming by this provider's route, or by another provider's  *)
(* after it has disconnected this one, or clear_streaming_provider.        *)
ChangeOwner ==
  /\ \/ owner' = TRUE /\ enabled
     \/ owner /\ owner' = FALSE
  /\ Signal
  /\ UNCHANGED <<protected, news, changes, faults>> /\ ProviderStill
  /\ UNCHANGED taskVars /\ UNCHANGED cycleVars

---------------------------------------------------------------------------
(* The reconciler                                                          *)

Retried == {"read_failed", "no_provider", "disconnected", "with_failures"}

EndCycle(o) == outcome' = o /\ cycle' = IF o \in Retried THEN "cooling" ELSE "waiting"

(* read_protected_symbols, in its thread                                   *)
Read ==
  /\ cycle = "reading"
  /\ \/ seen' = protected /\ cycle' = "looking" /\ outcome' = "none" /\ UNCHANGED faults
     \/ Fault /\ EndCycle("read_failed") /\ UNCHANGED seen
  /\ UNCHANGED <<ask, wake>> /\ ProviderStill /\ UNCHANGED taskVars /\ UNCHANGED ownerVars

(* mutant: everything protected was requested when streaming began *)
Missing_Desired == seen \ desired

Missing == seen \ local

Look ==
  /\ cycle = "looking"
  /\ IF ~owner THEN EndCycle("no_provider") /\ UNCHANGED ask
     ELSE IF ~connected THEN EndCycle("disconnected") /\ UNCHANGED ask
     ELSE cycle' = "asking" /\ ask' = Missing /\ UNCHANGED outcome
  /\ UNCHANGED <<seen, faults, wake>> /\ ProviderStill
  /\ UNCHANGED taskVars /\ UNCHANGED ownerVars

AskNext ==
  /\ cycle = "asking" /\ \A r \in requests : r.id # FeedCall
  /\ IF ask # {} /\ owner /\ connected
     THEN \E s \in ask :
            /\ ask' = ask \ {s} /\ requests' = requests \cup {Call(FeedCall, "subscribe", s)}
            /\ UNCHANGED <<cycle, outcome>>
     ELSE /\ ask' = {} /\ UNCHANGED requests
          /\ EndCycle(CASE ask # {} /\ ~owner -> "interrupted"
                        [] ask # {} /\ owner -> "disconnected"
                        [] ask = {} -> IF outcome = "failing" THEN "with_failures" ELSE "completed")
  /\ UNCHANGED <<seen, supervisor, restore, sender, sent, asked, faults, wake>>
  /\ ProviderStill /\ UNCHANGED ownerVars

CooledDown ==
  /\ cycle = "cooling" /\ cycle' = "waiting"
  /\ UNCHANGED <<seen, ask, outcome, wake, faults>> /\ ProviderStill
  /\ UNCHANGED taskVars /\ UNCHANGED ownerVars

(* The wait ends by a wake or by its timeout; the wake is cleared before   *)
(* the cycle that answers it.                                              *)
BeginCycle ==
  /\ cycle = "waiting" /\ cycle' = "reading" /\ wake' = FALSE
  /\ UNCHANGED <<seen, ask, outcome, faults>> /\ ProviderStill
  /\ UNCHANGED taskVars /\ UNCHANGED ownerVars

(* stop() cancels the cycle and whatever it waits for.                     *)
StopReconciler ==
  /\ cycle # "stopped" /\ cycle' = "stopped" /\ wake' = FALSE /\ ask' = {}
  /\ requests' = {r \in requests : r.id # FeedCall}
  /\ IF sender = FeedCall THEN sender' = Nobody /\ sent' = NoFrame
                          ELSE UNCHANGED <<sender, sent>>
  /\ UNCHANGED <<seen, outcome, supervisor, restore, asked, faults>>
  /\ ProviderStill /\ UNCHANGED ownerVars

Supervise == LoseSocket \/ ReopenSocket \/ BeginRestore \/ RestoreOne \/ RestoreReturned \/ Restored
Serve == \E r \in requests : StartRequest(r) \/ RequestReturned(r)
Reconcile == Read \/ Look \/ AskNext \/ CooledDown \/ BeginCycle

FeedNext ==
  \/ ConnectFeed \/ DisconnectFeed \/ SocketDies \/ AskRoute
  \/ Commit \/ AnnounceNews \/ ChangeOwner \/ StopReconciler
  \/ Supervise \/ Serve \/ Reconcile

---------------------------------------------------------------------------
FeedTypeOK ==
  /\ desired \cup local \cup served \cup protected \cup seen \subseteq FeedSymbols
  /\ supervisor \in {"off", "listening", "retrying", "reopened", "restoring", "resumed"}
  /\ sender \in {Nobody, Restorer, FeedCall} \cup 1 .. MaxRequests
  /\ sender = Restorer <=> supervisor = "restoring"
  /\ cycle \in {"reading", "looking", "asking", "cooling", "waiting", "stopped"}
  /\ (connected => enabled) /\ (enabled <=> supervisor # "off")

(* What the adapter says it has asked for is what its live socket has been *)
(* asked for: the reconciler never leaves out a symbol the feed lacks.     *)
InventoryHonest == connected /\ alive /\ sent.on # gen => local \subseteq served

(* A restoration that completes has asked for everything still wanted.     *)
RestoreIsComplete ==
  [][supervisor = "restoring" /\ supervisor' = "resumed" => desired \subseteq local']_feedVars

(* The reconciler never waits out its fallback interval on a ledger or an  *)
(* ownership that changed since it looked, a failed read apart.            *)
NoSleepingOnNews ==
  cycle = "waiting" /\ ~wake =>
    /\ outcome # "read_failed" => news \/ protected \subseteq seen
    /\ outcome = "no_provider" => ~owner

(* Once the provider stays connected and keeps streaming, every protected  *)
(* symbol is asked for.                                                    *)
FeedRestored ==
  <>[](owner /\ connected /\ alive /\ cycle # "stopped") => <>[](protected \subseteq served)
=============================================================================
