------------------------------ MODULE TickBridge ------------------------------
(***************************************************************************)
(* services/tick_ingest.py and the streaming role of broker_registry.py:   *)
(* each provider has a bridge that turns ticks into PriceUpdated events    *)
(* and one-minute candles; the registry hands streaming over from one      *)
(* provider to another while ticks are being handled.                      *)
(*                                                                         *)
(* Symbols have buckets and locks of their own, so one symbol stands for   *)
(* all.  A candle is its minute and the number of ticks in it.  Every      *)
(* await is a point where other tasks run; publish is taken as one, too.   *)
(***************************************************************************)
EXTENDS Integers, Sequences, FiniteSets, SequencesExt

CONSTANTS
  Bridges,                    \* each candidate bridge with its own provider
  NoBridge,
  MaxBridgeTicks, LastMinute  \* bounds of the model

ASSUME TickAssumption ==
  NoBridge \notin Bridges /\ MaxBridgeTicks \in Nat /\ LastMinute \in Nat

VARIABLES
  bridge,      \* bridge[b]: "unborn", "active", "retiring", "retired"
  tasks,       \* tick tasks [id, of, minute, at] that have not finished
  holder,      \* who holds the bucket lock: a task id, Flusher or Free
  bucket, lastClosed, excluded, candles,
  registered,  \* _streaming_bridge
  takeover,    \* takeover[b]: step of take_over_streaming(b)
  minute, ticks, handled, overlapped

tickVars == <<bridge, tasks, holder, bucket, lastClosed, excluded, candles,
              registered, takeover, minute, ticks, handled, overlapped>>

Empty == [minute |-> -1, n |-> 0]
Free == -1
Flusher == -2

TickInit ==
  /\ bridge = [b \in Bridges |-> "unborn"] /\ tasks = {}
  /\ holder = [b \in Bridges |-> Free]
  /\ bucket = [b \in Bridges |-> Empty] /\ lastClosed = [b \in Bridges |-> -1]
  /\ excluded = [b \in Bridges |-> 0] /\ candles = [b \in Bridges |-> <<>>]
  /\ registered = NoBridge /\ takeover = [b \in Bridges |-> "none"]
  /\ minute = 0 /\ ticks = 0 /\ handled = [b \in Bridges |-> 0] /\ overlapped = FALSE

---------------------------------------------------------------------------
(* One tick                                                                *)

RegistryStill == UNCHANGED <<registered, takeover, minute, overlapped>>

(* _on_tick: admission is decided before the task exists.                  *)
Admit(b) ==
  /\ bridge[b] = "active" /\ ticks < MaxBridgeTicks /\ ticks' = ticks + 1
  /\ \E m \in {minute, minute - 1} \cap Nat :
       tasks' = tasks \cup {[id |-> ticks, of |-> b, minute |-> m, at |-> "lock"]}
  /\ UNCHANGED <<bridge, holder, bucket, lastClosed, excluded, candles, handled>>
  /\ RegistryStill

Done(t) == tasks' = tasks \ {t}
Close(b) == candles' = [candles EXCEPT ![b] = Append(@, bucket[b])]

(* mutant: a flushed minute is forgotten with its bucket *)
TooOld_OpenOnly(b, m) == bucket[b] # Empty /\ m < bucket[b].minute

TooOld(b, m) == m <= lastClosed[b] \/ (bucket[b] # Empty /\ m < bucket[b].minute)

(* _handle_tick once it has the lock: excluded, added to the bucket, or    *)
(* the one that closes it.                                                 *)
Handle(t) ==
  LET b == t.of
  IN
  /\ t.at = "lock" /\ holder[b] = Free /\ bridge[b] = "active"
  /\ \/ /\ TooOld(b, t.minute)
        /\ excluded' = [excluded EXCEPT ![b] = @ + 1]
        /\ handled' = [handled EXCEPT ![b] = @ + 1]
        /\ Done(t) /\ UNCHANGED <<holder, bucket, candles>>
     \/ /\ ~TooOld(b, t.minute) /\ bucket[b] # Empty /\ t.minute > bucket[b].minute
        /\ Close(b) /\ holder' = [holder EXCEPT ![b] = t.id]
        /\ tasks' = (tasks \ {t}) \cup {[t EXCEPT !.at = "closing"]}
        /\ UNCHANGED <<bucket, excluded, handled>>
     \/ /\ ~TooOld(b, t.minute) /\ bucket[b].minute \in {-1, t.minute}
        /\ bucket' = [bucket EXCEPT ![b] = [minute |-> t.minute, n |-> @.n + 1]]
        /\ handled' = [handled EXCEPT ![b] = @ + 1]
        /\ Done(t) /\ UNCHANGED <<holder, excluded, candles>>
  /\ UNCHANGED <<bridge, lastClosed, ticks>> /\ RegistryStill

(* After the await on the publication of the closed candle.                *)
Reopen(t) ==
  LET b == t.of
  IN
  /\ t.at = "closing" /\ bridge[b] = "active"
  /\ lastClosed' = [lastClosed EXCEPT ![b] = bucket[b].minute]
  /\ bucket' = [bucket EXCEPT ![b] = [minute |-> t.minute, n |-> 1]]
  /\ holder' = [holder EXCEPT ![b] = Free]
  /\ handled' = [handled EXCEPT ![b] = @ + 1]
  /\ Done(t)
  /\ UNCHANGED <<bridge, excluded, candles, ticks>> /\ RegistryStill

(* A cancelled task unwinds, releasing the lock.                           *)
Unwind(t) ==
  LET b == t.of
  IN
  /\ bridge[b] # "active" /\ Done(t)
  /\ holder' = [holder EXCEPT ![b] = IF @ = t.id THEN Free ELSE @]
  /\ UNCHANGED <<bridge, bucket, lastClosed, excluded, candles, ticks, handled>>
  /\ RegistryStill

(* _flush_stale_buckets, at the start of every minute.                     *)
Flush(b) ==
  /\ bridge[b] = "active" /\ holder[b] = Free
  /\ bucket[b] # Empty /\ bucket[b].minute < minute
  /\ Close(b) /\ holder' = [holder EXCEPT ![b] = Flusher]
  /\ UNCHANGED <<bridge, tasks, bucket, lastClosed, excluded, ticks, handled>>
  /\ RegistryStill

Flushed(b) ==
  /\ holder[b] = Flusher
  /\ holder' = [holder EXCEPT ![b] = Free]
  /\ IF bridge[b] = "active"
     THEN /\ bucket' = [bucket EXCEPT ![b] = Empty]
          /\ lastClosed' = [lastClosed EXCEPT ![b] = bucket[b].minute]
     ELSE UNCHANGED <<bucket, lastClosed>>
  /\ UNCHANGED <<bridge, tasks, excluded, candles, ticks, handled>> /\ RegistryStill

---------------------------------------------------------------------------
(* Ownership                                                               *)

(* stop(): admission off, buckets dropped, tasks cancelled but not awaited *)
Stopped(b, st) == IF st[b] = "active" THEN [st EXCEPT ![b] = "retiring"] ELSE st
Dropped(b) == IF b # NoBridge /\ bridge[b] = "active"
              THEN /\ bucket' = [bucket EXCEPT ![b] = Empty]
                   /\ lastClosed' = [lastClosed EXCEPT ![b] = -1]
              ELSE UNCHANGED <<bucket, lastClosed>>

TicksStill == UNCHANGED <<tasks, holder, excluded, candles, ticks, handled, minute>>

(* A route connects a provider, makes its bridge and asks for streaming.   *)
ConnectBridge(b) ==
  /\ bridge[b] = "unborn" /\ takeover[b] = "none"
  /\ bridge' = [bridge EXCEPT ![b] = "active"]
  /\ takeover' = [takeover EXCEPT ![b] = "disconnect"]
  /\ overlapped' = (overlapped \/ \E c \in Bridges : takeover[c] \in {"disconnect", "settle"})
  /\ UNCHANGED <<bucket, lastClosed, registered>> /\ TicksStill

(* mutant: the bridge that streamed so far is not retired *)
Retire_Nobody(b) ==
  /\ UNCHANGED <<bridge, bucket, lastClosed>>

Retire(b) ==
  /\ bridge' = IF registered \in {NoBridge, b} THEN bridge ELSE Stopped(registered, bridge)
  /\ Dropped(IF registered = b THEN NoBridge ELSE registered)

(* old.disconnect() returns, and the old bridge is retired; or it raises   *)
(* and the candidate is closed instead.                                    *)
Disconnected(b) ==
  /\ takeover[b] = "disconnect"
  /\ \/ Retire(b) /\ takeover' = [takeover EXCEPT ![b] = "settle"]
     \/ /\ registered # NoBridge
        /\ bridge' = Stopped(b, bridge) /\ Dropped(b)
        /\ takeover' = [takeover EXCEPT ![b] = "failed"]
  /\ UNCHANGED <<registered, overlapped>> /\ TicksStill

(* settle_retired_bridges: every retired bridge's tasks have finished.     *)
Busy(b) == (\E t \in tasks : t.of = b) \/ holder[b] # Free
BridgesSettled == \A b \in Bridges : bridge[b] = "retiring" => ~Busy(b)

Install(b) ==
  /\ takeover[b] = "settle" /\ BridgesSettled
  /\ bridge' = [c \in Bridges |-> IF bridge[c] = "retiring" THEN "retired" ELSE bridge[c]]
  /\ registered' = b /\ takeover' = [takeover EXCEPT ![b] = "installed"]
  /\ UNCHANGED <<bucket, lastClosed, overlapped>> /\ TicksStill

(* clear_streaming_provider *)
Clear ==
  /\ registered # NoBridge /\ registered' = NoBridge
  /\ bridge' = Stopped(registered, bridge) /\ Dropped(registered)
  /\ UNCHANGED <<takeover, overlapped>> /\ TicksStill

NextMinute ==
  /\ minute < LastMinute /\ minute' = minute + 1
  /\ UNCHANGED <<bridge, tasks, holder, bucket, lastClosed, excluded, candles,
                 registered, takeover, ticks, handled, overlapped>>

TickNext ==
  \/ \E b \in Bridges : \/ Admit(b) \/ Flush(b) \/ Flushed(b)
                        \/ ConnectBridge(b) \/ Disconnected(b) \/ Install(b)
  \/ \E t \in tasks : Handle(t) \/ Reopen(t) \/ Unwind(t)
  \/ Clear \/ NextMinute

---------------------------------------------------------------------------
TickTypeOK ==
  /\ \A b \in Bridges : bridge[b] \in {"unborn", "active", "retiring", "retired"}
  /\ registered \in Bridges \cup {NoBridge}
  /\ \A b \in Bridges : bridge[b] = "retired" => ~Busy(b)

(* A bridge closes each minute once, in order, whoever closes it: the next *)
(* tick or the flush.                                                      *)
CandlesInOrder ==
  \A b \in Bridges : \A i \in 2 .. Len(candles[b]) :
    candles[b][i - 1].minute < candles[b][i].minute

TicksIn(closed) == FoldSeq(LAMBDA c, n : c.n + n, 0, closed)

(* Every tick a bridge has handled is in a candle it closed, in its open   *)
(* bucket, or counted as excluded.                                         *)
TicksAccounted ==
  \A b \in Bridges : bridge[b] = "active" =>
    handled[b] = excluded[b] + TicksIn(candles[b])
                 + (IF holder[b] = Free THEN bucket[b].n ELSE 0)

(* Once a take-over is through, nothing but the registered bridge admits   *)
(* ticks.  Two take-overs at the same time (the routes of two providers    *)
(* share no lock) are excepted: the later one does not retire a bridge     *)
(* that was installed while it waited.                                     *)
OneSource ==
  ~overlapped /\ (\A b \in Bridges : takeover[b] \notin {"disconnect", "settle"}) =>
    \A b \in Bridges : bridge[b] = "active" => b = registered
=============================================================================
