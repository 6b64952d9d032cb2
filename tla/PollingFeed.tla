------------------------------ MODULE PollingFeed ------------------------------
(***************************************************************************)
(* broker_adapters/polygon_provider.py and core/rate_limiter.py: a task    *)
(* asks for the latest bars of one symbol after the other and makes a tick *)
(* of each bar it has not seen; reads of history share the limit on calls. *)
(* Routes subscribe, unsubscribe and disconnect while a request is out.    *)
(* Bars are numbered; 0 stands for none.  Time is counted in moments.      *)
(***************************************************************************)
EXTENDS Naturals, Sequences, FiniteSets, SequencesExt

CONSTANTS
  Tickers,
  Period, MaxCallsInPeriod,   \* the rate limiter's
  LastMoment, LastBar,        \* bounds
  MaxFeedChanges              \* bound: calls of the routes

ASSUME PollingAssumption ==
  /\ Period \in Nat \ {0} /\ MaxCallsInPeriod \in Nat \ {0}
  /\ LastMoment \in Nat /\ LastBar \in Nat /\ MaxFeedChanges \in Nat

Callers == {"poll", "read"}

VARIABLES
  polling,       \* _connected and the poll task: [on, at, left, since]
  reading,       \* get_historical: "none", "limit", "fetch"
  watched,       \* _symbols
  seenBar,       \* _last_bar_ts
  callTimes,     \* the limiter's deque
  limiterLock,   \* who sleeps in acquire() with the lock
  moment, barNow,                                 \* the world
  granted, emitted, answered, lateTicks, unticked, strayed, \* history, see the properties
  feedChanges

pollingVars ==
  <<polling, reading, watched, seenBar, callTimes, limiterLock, moment, barNow,
    granted, emitted, answered, lateTicks, unticked, strayed, feedChanges>>

PollingOff == [on |-> FALSE, at |-> "off", left |-> <<>>, since |-> 0]

PollingInit ==
  /\ polling = PollingOff /\ reading = "none" /\ watched = {}
  /\ seenBar = [s \in Tickers |-> 0]
  /\ callTimes = <<>> /\ limiterLock = "nobody"
  /\ moment = 0 /\ barNow = [s \in Tickers |-> 0]
  /\ granted = <<>>
  /\ emitted = [s \in Tickers |-> <<>>] /\ answered = {}
  /\ lateTicks = [s \in Tickers |-> 0] /\ unticked = {} /\ strayed = FALSE
  /\ feedChanges = 0

PollingHistory == <<emitted, answered, lateTicks, unticked, strayed>>
SourceStands == UNCHANGED <<moment, barNow>>
Limiter == <<callTimes, limiterLock, granted>>

(***************************************************************************)
(* RateLimiter.acquire                                                     *)
(***************************************************************************)
(* mutant: a call leaves the window one moment early *)
StillCounts_Early(m) == moment - m < Period - 1

StillCounts(m) == moment - m < Period

(* The deque from its first time that still counts.                        *)
Kept ==
  LET first == Min({Len(callTimes) + 1} \cup {i \in DOMAIN callTimes : StillCounts(callTimes[i])})
  IN SubSeq(callTimes, first, Len(callTimes))

(* One caller at a time; whoever finds the window full keeps the lock and  *)
(* sleeps.                                                                 *)
Acquired(c) ==
  /\ limiterLock \in {"nobody", c}
  /\ Len(Kept) < MaxCallsInPeriod
  /\ callTimes' = Append(Kept, moment)
  /\ limiterLock' = "nobody"
  /\ granted' = Append(granted, moment)

SleepsInAcquire(c) ==
  /\ limiterLock = "nobody"
  /\ Len(Kept) >= MaxCallsInPeriod /\ callTimes' = Kept
  /\ limiterLock' = c
  /\ UNCHANGED granted

(***************************************************************************)
(* The poll task                                                           *)
(***************************************************************************)
PollTurns(at, left) == polling' = [polling EXCEPT !.at = at, !.left = left]

(* list(self._symbols): in any order, and as of now.                       *)
RoundBegins ==
  /\ polling.at = "pause"
  /\ \E order \in SetToSeqs(watched) :
       PollTurns(IF order = <<>> THEN "pause" ELSE "limit", order)
  /\ UNCHANGED <<reading, watched, seenBar, feedChanges>>
  /\ UNCHANGED Limiter /\ UNCHANGED PollingHistory /\ SourceStands

PollAcquires ==
  /\ polling.at = "limit"
  /\ \/ Acquired("poll")
        /\ polling' = [polling EXCEPT !.at = "fetch", !.since = barNow[Head(polling.left)]]
     \/ SleepsInAcquire("poll") /\ UNCHANGED polling
  /\ UNCHANGED <<reading, watched, seenBar, feedChanges>>
  /\ UNCHANGED PollingHistory /\ SourceStands

(* mutant: every answer makes a tick *)
NewBar_Always(s, bar) == bar # 0

NewBar(s, bar) == bar \notin {0, seenBar[s]}

PollGoesOn ==
  LET rest == Tail(polling.left) IN PollTurns(IF rest = <<>> THEN "pause" ELSE "limit", rest)

(* Outside the try of _poll_symbol an exception ends the task, of which    *)
(* nobody hears: the feed still counts as connected.                       *)
PollEnds == PollTurns("ended", <<>>)

(* The tick reaches the callbacks, of which one may raise.                 *)
TickMade(s, bar) ==
  /\ emitted' = [emitted EXCEPT ![s] = IF s \in watched THEN Append(@, bar) ELSE @]
  /\ lateTicks' = [lateTicks EXCEPT ![s] = IF s \in watched THEN @ ELSE @ + 1]
  /\ strayed' = (strayed \/ ~polling.on)
  /\ UNCHANGED unticked
  /\ PollGoesOn \/ PollEnds

(* A bar that cannot be converted, or a first callback that raises.        *)
TickRaises(s) ==
  /\ unticked' = unticked \cup {s}
  /\ UNCHANGED <<emitted, lateTicks, strayed>>
  /\ PollEnds

(* The latest bar as of some time since the request, or none; a new one is *)
(* noted as seen before its tick is made.                                  *)
PollAnswered ==
  /\ polling.at = "fetch"
  /\ LET s == Head(polling.left)
     IN \E bar \in polling.since .. barNow[s] :
          /\ answered' = IF bar = 0 THEN answered ELSE answered \cup {s}
          /\ \/ /\ NewBar(s, bar) /\ seenBar' = [seenBar EXCEPT ![s] = bar]
                /\ TickMade(s, bar) \/ TickRaises(s)
             \/ /\ ~NewBar(s, bar) /\ PollGoesOn
                /\ UNCHANGED <<seenBar, emitted, lateTicks, unticked, strayed>>
  /\ UNCHANGED <<reading, watched, feedChanges>> /\ UNCHANGED Limiter /\ SourceStands

(* A plan limitation or any other failure of the request is logged.        *)
PollFails ==
  /\ polling.at = "fetch" /\ PollGoesOn
  /\ UNCHANGED <<reading, watched, seenBar, feedChanges>>
  /\ UNCHANGED Limiter /\ UNCHANGED PollingHistory /\ SourceStands

(***************************************************************************)
(* The calls                                                               *)
(***************************************************************************)
PollingCall == feedChanges < MaxFeedChanges /\ feedChanges' = feedChanges + 1

ConnectPolling ==
  /\ PollingCall /\ ~polling.on
  /\ polling' = [PollingOff EXCEPT !.on = TRUE, !.at = "pause"]
  /\ UNCHANGED <<reading, watched, seenBar>>
  /\ UNCHANGED Limiter /\ UNCHANGED PollingHistory /\ SourceStands

(* mutant: the flag is cleared, the task goes on *)
PollCancelled_No == [polling EXCEPT !.on = FALSE]

PollCancelled == PollingOff

(* The task is cancelled where it waits and lets go of the limiter's lock. *)
(* Symbols and seen bars stay.  If it has ended, its exception is raised   *)
(* here, after the flag was cleared.                                       *)
DisconnectPolling ==
  /\ PollingCall /\ polling.on
  /\ polling' = PollCancelled
  /\ limiterLock' = IF limiterLock = "poll" THEN "nobody" ELSE limiterLock
  /\ UNCHANGED <<reading, watched, seenBar, callTimes, granted>>
  /\ UNCHANGED PollingHistory /\ SourceStands

SubscribePolling(s) ==
  /\ PollingCall /\ s \notin watched
  /\ watched' = watched \cup {s}
  /\ emitted' = [emitted EXCEPT ![s] = <<>>] /\ answered' = answered \ {s}
  /\ UNCHANGED <<polling, reading, seenBar, lateTicks, unticked, strayed>>
  /\ UNCHANGED Limiter /\ SourceStands

(* mutant: the bar seen last outlives the subscription *)
BarForgotten_Kept(s) == seenBar

BarForgotten(s) == [seenBar EXCEPT ![s] = 0]

UnsubscribePolling(s) ==
  /\ PollingCall /\ s \in watched
  /\ watched' = watched \ {s}
  /\ seenBar' = BarForgotten(s)
  /\ lateTicks' = [lateTicks EXCEPT ![s] = 0] /\ unticked' = unticked \ {s}
  /\ UNCHANGED <<polling, reading, emitted, answered, strayed>>
  /\ UNCHANGED Limiter /\ SourceStands

ReadHistory ==
  /\ PollingCall /\ reading = "none" /\ reading' = "limit"
  /\ UNCHANGED <<polling, watched, seenBar>>
  /\ UNCHANGED Limiter /\ UNCHANGED PollingHistory /\ SourceStands

ReadAcquires ==
  /\ reading = "limit"
  /\ \/ Acquired("read") /\ reading' = "fetch"
     \/ SleepsInAcquire("read") /\ UNCHANGED reading
  /\ UNCHANGED <<polling, watched, seenBar, feedChanges>>
  /\ UNCHANGED PollingHistory /\ SourceStands

(* Candles, an unknown symbol, a plan that lacks the data, or any other    *)
(* error: the caller's business.                                           *)
ReadReturns ==
  /\ reading = "fetch" /\ reading' = "none"
  /\ UNCHANGED <<polling, watched, seenBar, feedChanges>>
  /\ UNCHANGED Limiter /\ UNCHANGED PollingHistory /\ SourceStands

SourceMoves ==
  /\ moment < LastMoment /\ moment' = moment + 1
  /\ \E new \in SUBSET {s \in Tickers : barNow[s] < LastBar} :
       barNow' = [s \in Tickers |-> IF s \in new THEN barNow[s] + 1 ELSE barNow[s]]
  /\ UNCHANGED <<polling, reading, watched, seenBar, feedChanges>>
  /\ UNCHANGED Limiter /\ UNCHANGED PollingHistory

PollingNext ==
  \/ RoundBegins \/ PollAcquires \/ PollAnswered \/ PollFails
  \/ ConnectPolling \/ DisconnectPolling \/ ReadHistory \/ ReadAcquires \/ ReadReturns
  \/ \E s \in Tickers : SubscribePolling(s) \/ UnsubscribePolling(s)
  \/ SourceMoves

PollingSpec == PollingInit /\ [][PollingNext]_pollingVars

PollingTypeOK ==
  /\ polling \in [on : BOOLEAN, at : {"off", "pause", "limit", "fetch", "ended"}, left : Seq(Tickers),
                  since : 0 .. LastBar]
  /\ reading \in {"none", "limit", "fetch"} /\ limiterLock \in Callers \cup {"nobody"}
  /\ watched \subseteq Tickers /\ seenBar \in [Tickers -> 0 .. LastBar]
  /\ unticked \subseteq Tickers

(* Whatever polls and reads compete, no Period has more than               *)
(* MaxCallsInPeriod calls, wherever it begins.                             *)
CallsWithinBudget ==
  \A i \in MaxCallsInPeriod + 1 .. Len(granted) :
    granted[i] - granted[i - MaxCallsInPeriod] >= Period

(* A subscription gets each bar once and never an older one, across failed *)
(* polls and reconnections; nothing arrives after a disconnection.         *)
BarsForward ==
  /\ ~strayed
  /\ \A s \in Tickers : \A i \in 2 .. Len(emitted[s]) : emitted[s][i - 1] < emitted[s][i]

(* A symbol may tick once after it was unsubscribed, from the round that   *)
(* was under way.  Unless it did, or an exception ended the task on one of *)
(* its bars, the first answer to a new subscription is a tick, over every  *)
(* reconnection.                                                           *)
FirstTickComes ==
  \A s \in Tickers :
    /\ lateTicks[s] <= 1
    /\ s \in watched /\ s \in answered /\ lateTicks[s] = 0 /\ s \notin unticked => emitted[s] # <<>>
=============================================================================
