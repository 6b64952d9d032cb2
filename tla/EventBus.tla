------------------------------- MODULE EventBus -------------------------------
(***************************************************************************)
(* event_bus/bus.py: publishers put envelopes into one of two lanes; each  *)
(* lane's consumer gives an envelope to every handler subscribed when it   *)
(* is taken, waits for all of them, then takes the next one.  An envelope  *)
(* is its number; a handler may be a wildcard one, as the order does not   *)
(* depend on that.  A handler that raises ends like one that returns.      *)
(***************************************************************************)
EXTENDS Integers, Sequences, FiniteSets, SequencesExt

CONSTANTS Handlers, MaxPublished, MaxStops     \* the last two bound the model

ASSUME BusAssumption == MaxPublished \in Nat /\ MaxStops \in Nat

VARIABLES
  running,     \* _started, and both consumers exist
  lanes,       \* the two queues
  current,     \* current[l]: the envelope being dispatched, or None
  calls,       \* calls[l]: its handlers that have not finished
  subscribed,
  published, received, missed, stops

busVars == <<running, lanes, current, calls, subscribed, published, received, missed, stops>>

Lanes == {"critical", "normal"}
None == 0

BusInit ==
  /\ running = FALSE /\ lanes = [l \in Lanes |-> <<>>]
  /\ current = [l \in Lanes |-> None] /\ calls = [l \in Lanes |-> {}]
  /\ subscribed = {} /\ published = 0 /\ stops = 0
  /\ received = [h \in Handlers |-> [l \in Lanes |-> <<>>]]
  /\ missed = [h \in Handlers |-> {}]

(* An envelope is missed by those who need not get it: not subscribed all  *)
(* the time since its publication, or the bus was stopped under it.        *)
Publish(l) ==
  /\ published < MaxPublished /\ published' = published + 1
  /\ lanes' = [lanes EXCEPT ![l] = Append(@, published')]
  /\ missed' = [h \in Handlers |-> IF h \in subscribed THEN missed[h] ELSE missed[h] \cup {published'}]
  /\ UNCHANGED <<running, current, calls, subscribed, received, stops>>

Subscribe(h) ==
  /\ h \notin subscribed /\ subscribed' = subscribed \cup {h}
  /\ UNCHANGED <<running, lanes, current, calls, published, received, missed, stops>>

Waiting == UNION {Range(lanes[l]) : l \in Lanes}

Unsubscribe(h) ==
  /\ h \in subscribed /\ subscribed' = subscribed \ {h}
  /\ missed' = [missed EXCEPT ![h] = @ \cup Waiting]
  /\ UNCHANGED <<running, lanes, current, calls, published, received, stops>>

(* mutant: one consumer serves both lanes *)
Ready_OneConsumer(l) == \A k \in Lanes : calls[k] = {} /\ (l = "critical" \/ lanes["critical"] = <<>>)

(* mutant: the handlers of an envelope are started and not waited for *)
Ready_Unawaited(l) == TRUE

Ready(l) == calls[l] = {}

Take(l) ==
  /\ running /\ lanes[l] # <<>> /\ Ready(l)
  /\ current' = [current EXCEPT ![l] = Head(lanes[l])]
  /\ lanes' = [lanes EXCEPT ![l] = Tail(@)]
  /\ calls' = [calls EXCEPT ![l] = subscribed]
  /\ UNCHANGED <<running, subscribed, published, received, missed, stops>>

(* One handler finishes, whether or not it raised.                         *)
Return(l, h) ==
  /\ h \in calls[l] /\ calls' = [calls EXCEPT ![l] = @ \ {h}]
  /\ received' = [received EXCEPT ![h][l] = Append(@, current[l])]
  /\ UNCHANGED <<running, lanes, current, subscribed, published, missed, stops>>

StartBus ==
  /\ ~running /\ running' = TRUE
  /\ UNCHANGED <<lanes, current, calls, subscribed, published, received, missed, stops>>

(* The consumers and the calls they wait for are cancelled; the queues     *)
(* stay, for a later start.                                                *)
StopBus ==
  /\ running /\ stops < MaxStops /\ running' = FALSE /\ stops' = stops + 1
  /\ calls' = [l \in Lanes |-> {}]
  /\ missed' = [h \in Handlers |-> missed[h] \cup {current[l] : l \in {k \in Lanes : h \in calls[k]}}]
  /\ UNCHANGED <<lanes, current, subscribed, published, received>>

BusNext ==
  \/ \E l \in Lanes : Publish(l) \/ Take(l) \/ \E h \in Handlers : Return(l, h)
  \/ \E h \in Handlers : Subscribe(h) \/ Unsubscribe(h)
  \/ StartBus \/ StopBus

Dispatch(l) == Take(l) \/ \E h \in Handlers : Return(l, h)

---------------------------------------------------------------------------
BusTypeOK ==
  /\ subscribed \subseteq Handlers /\ published \in 0 .. MaxPublished
  /\ \A l \in Lanes : calls[l] # {} => running /\ current[l] # None

(* A handler gets the envelopes of a lane in the order of publication, and *)
(* none twice, whatever is subscribed, stopped and started meanwhile.      *)
LaneOrder ==
  \A h \in Handlers, l \in Lanes : \A i \in 2 .. Len(received[h][l]) :
    received[h][l][i - 1] < received[h][l][i]

(* What a handler was owed and is neither queued nor being handled has     *)
(* been received.                                                          *)
NothingDropped ==
  \A h \in Handlers : \A e \in (1 .. published) \ (missed[h] \cup Waiting) :
    \E l \in Lanes : e \in Range(received[h][l]) \/ (e = current[l] /\ h \in calls[l])

(* However long normal handlers hang, the critical lane is emptied.        *)
CriticalNotBlocked == []<>(lanes["critical"] = <<>>)
=============================================================================
