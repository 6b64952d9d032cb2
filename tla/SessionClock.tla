----------------------------- MODULE SessionClock -----------------------------
(***************************************************************************)
(* core/market_clock.py and core/session_window.py: which session an       *)
(* instant belongs to, where a session begins and ends, when the next      *)
(* change comes, and the window in which positions are flattened.          *)
(*                                                                         *)
(* Instants are minutes of New York wall-clock time from the start of the  *)
(* first of Days; the calendar of dates is reduced to the kind of each day *)
(* and clock changes, which fall on weekends, are left out.                *)
(***************************************************************************)
EXTENDS Integers, Sequences, FiniteSets

CONSTANTS
  Days,            \* the calendars tried: sequences of DayKinds
  ClockLeads       \* lead_seconds of the flatten window, in minutes

VARIABLES calendar, instant

clockVars == <<calendar, instant>>

(* The years without a calendar have weekdays and weekends only.           *)
UncoveredKinds == {"uncovered", "uncovered_weekend"}

DayKinds == {"weekday", "weekend", "holiday", "half"} \cup UncoveredKinds

Day == 1440
At(h, m) == 60 * h + m
RegularOpenTime == At(9, 30)
HalfClose == At(13, 0)
RegularClose == At(16, 0)

(* _SESSION_WINDOWS *)
Windows ==
  << [session |-> "pre_market", start |-> At(4, 0), end |-> RegularOpenTime],
     [session |-> "open", start |-> RegularOpenTime, end |-> At(11, 30)],
     [session |-> "lunch", start |-> At(11, 30), end |-> At(14, 30)],
     [session |-> "power_hour", start |-> At(14, 30), end |-> RegularClose],
     [session |-> "after_hours", start |-> RegularClose, end |-> At(20, 0)] >>

Regular == {"open", "lunch", "power_hour"}

Kind(t) == IF t \div Day < Len(calendar) THEN calendar[(t \div Day) + 1] ELSE "weekday"
Clock(t) == t % Day
Midnight(t) == t - Clock(t)
NoTrading(t) == Kind(t) \in {"weekend", "holiday", "uncovered_weekend"}
CloseOf(t) == IF Kind(t) = "half" THEN HalfClose ELSE RegularClose

CurrentSession(t) ==
  IF NoTrading(t) \/ (Kind(t) = "half" /\ Clock(t) >= HalfClose) THEN "closed"
  ELSE LET in == {i \in DOMAIN Windows : Windows[i].start <= Clock(t) /\ Clock(t) < Windows[i].end}
       IN IF in = {} THEN "closed" ELSE Windows[CHOOSE i \in in : TRUE].session

IsMarketOpen(t) == ~NoTrading(t) /\ RegularOpenTime <= Clock(t) /\ Clock(t) < CloseOf(t)
IsRegularSession(t) == CurrentSession(t) \in Regular

NoBounds == <<>>

(* session_bounds: one pair for the whole regular session.                 *)
SessionBounds(t) ==
  LET s == CurrentSession(t)
      w == Windows[CHOOSE i \in DOMAIN Windows : Windows[i].session = s]
  IN IF s = "closed" THEN NoBounds
     ELSE IF s \in Regular THEN <<Midnight(t) + RegularOpenTime, Midnight(t) + CloseOf(t)>>
     ELSE <<Midnight(t) + w.start, Midnight(t) + w.end>>

MinutesSinceOpen(t) == IF IsMarketOpen(t) THEN Clock(t) - RegularOpenTime ELSE 0

(* mutant: the early close is not a boundary of its own *)
BoundaryTimes_NoHalfDay(t) ==
  IF NoTrading(t) THEN {} ELSE UNION {{Windows[i].start, Windows[i].end} : i \in DOMAIN Windows}

BoundaryTimes(t) ==
  LET times == UNION {{Windows[i].start, Windows[i].end} : i \in DOMAIN Windows}
  IN IF NoTrading(t) THEN {}
     ELSE IF Kind(t) = "half" THEN {x \in times : x < HalfClose} \cup {HalfClose}
     ELSE times

(* next_session_boundary; Kind makes every day after Days a weekday, so    *)
(* that the search ends.                                                   *)
NextSessionBoundary(t) ==
  LET after(d) == {d * Day + x : x \in BoundaryTimes(d * Day)} \cap {u \in d * Day .. (d + 1) * Day : u > t}
      first == CHOOSE d \in t \div Day .. Len(calendar) + 1 :
                 /\ after(d) # {} /\ \A e \in t \div Day .. d - 1 : after(e) = {}
  IN CHOOSE u \in after(first) : \A v \in after(first) : u <= v

(* What eod_session_window raises for.                                     *)
Unsupported == <<"unsupported">>

(* eod_session_window of a position opened at t: whether the year has a    *)
(* calendar is asked before what the day is.                               *)
EodWindow(t, lead) ==
  IF Kind(t) \in UncoveredKinds THEN Unsupported ELSE IF NoTrading(t) THEN NoBounds
  ELSE <<Midnight(t) + CloseOf(t) - lead, Midnight(t) + CloseOf(t)>>

NoInstant == -1

ClockInit == calendar = <<>> /\ instant = NoInstant

(* Any instant at or around a change of session, of any calendar.          *)
Instants(c) ==
  {u \in {d * Day + x + e : d \in 0 .. Len(c) - 1, e \in {-1, 0, 1},
           x \in {0, At(4, 0), RegularOpenTime, At(11, 30), HalfClose, At(14, 30), RegularClose, At(20, 0)}} :
     0 <= u /\ u < Len(c) * Day}

AskClock ==
  /\ instant = NoInstant
  /\ \E c \in Days : calendar' = c /\ instant' \in Instants(c)

---------------------------------------------------------------------------
(* The boundary returned is the first instant after t at which the session *)
(* is another one: nobody sleeps past an open, an early close or a weekend.*)
BoundaryIsNext == instant # NoInstant =>
  LET nb == NextSessionBoundary(instant)
      probes == {u \in UNION {{b - 1, b} : b \in {d * Day + x : d \in 0 .. Len(calendar) + 1,
                   x \in {At(4, 0), RegularOpenTime, At(11, 30), HalfClose, At(14, 30), RegularClose, At(20, 0)}}} :
                   instant <= u /\ u < nb}
  IN /\ nb > instant /\ CurrentSession(nb) # CurrentSession(instant)
     /\ \A u \in probes : CurrentSession(u) = CurrentSession(instant)

(* The three answers about the regular session agree, and an instant lies  *)
(* in the bounds of its session, which have the same session throughout.   *)
AnswersAgree == instant # NoInstant =>
  /\ IsMarketOpen(instant) <=> IsRegularSession(instant)
  /\ LET b == SessionBounds(instant)
     IN /\ b = NoBounds <=> CurrentSession(instant) = "closed"
        /\ b # NoBounds =>
             /\ b[1] <= instant /\ instant < b[2]
             /\ SessionBounds(b[1]) = b /\ SessionBounds(b[2] - 1) = b
             /\ SessionBounds(b[2]) # b
        /\ IsMarketOpen(instant) => MinutesSinceOpen(instant) = instant - b[1]
  /\ \A lead \in ClockLeads :
       LET w == EodWindow(instant, lead)
       IN w \notin {NoBounds, Unsupported} =>
            /\ IsMarketOpen(w[1]) /\ IsMarketOpen(w[2] - 1) /\ ~IsMarketOpen(w[2])
            /\ w[2] = NextSessionBoundary(w[2] - 1)
=============================================================================
