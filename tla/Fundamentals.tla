----------------------------- MODULE Fundamentals -----------------------------
(***************************************************************************)
(* context_engine/fundamentals_refresh.py and fundamentals_derivation.py:  *)
(* the loops that refresh the fundamentals of a symbol, each its columns   *)
(* of one row, and the twelve trailing months they derive from filings.    *)
(*                                                                         *)
(* A fiscal quarter is its number; the fourth of a year has no report of   *)
(* its own, the year's comes with it.  What a report says is the total     *)
(* since its year began.  A figure that is not there is <<>>.              *)
(***************************************************************************)
EXTENDS Integers, Sequences, FiniteSets, FiniteSetsExt, SequencesExt

CONSTANTS
  Earnings,        \* what a company may earn, quarter by quarter
  FirstReports,    \* the quarter whose report may be the first on record
  Metrics,         \* figures that are derived
  SimpleJobs,      \* loops whose batch is one request: "profile", "market cap"
  MaxUntagged, MaxJobFaults  \* bounds

ASSUME FundamentalsAssumption ==
  /\ \A h \in Earnings : h \in Seq(Int) /\ h # <<>> /\ FirstReports \subseteq DOMAIN h
  /\ FirstReports \subseteq Nat \ {0} /\ "filings" \notin SimpleJobs

VARIABLES
  earned, firstReport,   \* the company: what it earns, its first report
  filed, untagged,       \* quarters filed so far; <<metric, report>> without the concept
  fundamentals,          \* the row: what was checked, financials_period, the figures
  jobs,                  \* where each loop is, and the reports it was answered
  jobsStopping,              \* stop() cancelled the tasks
  jobFaults

fundamentalsVars ==
  <<earned, firstReport, filed, untagged, fundamentals, jobs, jobsStopping, jobFaults>>
company == <<earned, firstReport>>

Jobs == SimpleJobs \cup {"filings"}
At(phase, reports) == [at |-> phase, reports |-> reports]
NoRow == [checked |-> {}, period |-> 0, figures |-> [m \in Metrics |-> <<>>]]

FundamentalsInit ==
  /\ earned \in Earnings /\ firstReport \in FirstReports
  /\ filed = firstReport - 1 /\ untagged = {} /\ fundamentals = NoRow
  /\ jobs = [j \in Jobs |-> At("off", 0)] /\ jobsStopping = FALSE /\ jobFaults = 0

---------------------------------------------------------------------------
(* What the reports say                                                    *)

OfAQuarter(k) == k % 4 # 0
YearStart(k) == k - ((k - 1) % 4)
SumOf(S) == FoldSet(LAMBDA k, sum : sum + earned[k], 0, S)
Cumulative(k) == SumOf(YearStart(k) .. k)
QuarterlyReports(n) ==
  SelectSeq([k \in 1 .. n |-> k], LAMBDA k : k >= firstReport /\ OfAQuarter(k))

(* most_recent_period_label: the newest report, whatever is in it          *)
PeriodOf(n) == Max({0} \cup {k \in firstReport .. n : OfAQuarter(k)})

---------------------------------------------------------------------------
(* fundamentals_derivation.py                                              *)

(* mutant: the first report of a year is taken for a quarter of the last   *)
IsReset_Never(previous, total) == previous = <<>>

(* Nothing to compare with, or less than before: a year begins.            *)
IsReset(previous, total) == previous = <<>> \/ total < previous[1]

Entry(k, previous) ==
  LET reset == IsReset(previous, Cumulative(k))
  IN [end |-> k, cumulative |-> Cumulative(k), reset |-> reset,
      discrete |-> IF reset THEN Cumulative(k) ELSE Cumulative(k) - previous[1]]

(* A report without the concept is left out, and breaks the chain.         *)
ChronologicalDiscrete(n, m) ==
  FoldLeft(LAMBDA chain, k :
             IF <<m, k>> \in untagged THEN [chain EXCEPT !.previous = <<>>]
             ELSE [entries |-> Append(chain.entries, Entry(k, chain.previous)),
                   previous |-> <<Cumulative(k)>>],
           [entries |-> <<>>, previous |-> <<>>], QuarterlyReports(n)).entries

(* mutant: the newest year's report                                        *)
Closest_Newest(years) == Max(years)

Closest(years) == Min(years)

AnnualCovering(n, m, end) ==
  LET years == {k \in firstReport .. n : ~OfAQuarter(k) /\ k > end}
  IN IF years = {} THEN <<>>
     ELSE IF <<m, Closest(years)>> \in untagged THEN <<>> ELSE <<Cumulative(Closest(years))>>

(* From the newest entry back: four quarters, the fourth of one year out   *)
(* of that year's report.                                                  *)
Collected(n, annuals, m) ==
  LET entries == Reverse(ChronologicalDiscrete(n, m))
      Walk(w, i) ==
        LET e == entries[i]
            one == [w EXCEPT !.quarters = Append(@, e.discrete)]
            annual == AnnualCovering(annuals, m, entries[i + 1].end)
        IN IF w.over THEN w
           ELSE IF Len(one.quarters) = 4 THEN [one EXCEPT !.over = TRUE]
           ELSE IF ~e.reset THEN one
           ELSE IF w.filled \/ i = Len(entries) THEN [one EXCEPT !.over = TRUE]
           ELSE IF annual = <<>> THEN [one EXCEPT !.over = TRUE]
           ELSE LET two == Append(one.quarters, annual[1] - entries[i + 1].cumulative)
                IN [quarters |-> two, filled |-> TRUE, over |-> Len(two) = 4]
  IN FoldLeft(Walk, [quarters |-> <<>>, filled |-> FALSE, over |-> FALSE],
              [i \in DOMAIN entries |-> i]).quarters

DeriveMetric(n, annuals, m) ==
  LET quarters == Collected(n, annuals, m)
  IN IF Len(quarters) < 4 THEN <<>> ELSE <<FoldSeq(LAMBDA q, sum : q + sum, 0, quarters)>>

(* derive_ttm *)
DeriveTTM(n, annuals) == [m \in Metrics |-> DeriveMetric(n, annuals, m)]

---------------------------------------------------------------------------
(* fundamentals_refresh.py: a loop runs a batch and sleeps.                *)

Moves(j, phase, reports) == jobs' = [jobs EXCEPT ![j] = At(phase, reports)]
JobFault == jobFaults < MaxJobFaults /\ jobFaults' = jobFaults + 1

(* What a thread does once its task was cancelled it does to the end.      *)
AfterThread(phase) == IF jobsStopping THEN "off" ELSE phase

StartJobs ==
  /\ \A j \in Jobs : jobs[j].at = "off"
  /\ jobs' = [j \in Jobs |-> At("sleeping", 0)] /\ jobsStopping' = FALSE
  /\ UNCHANGED company /\ UNCHANGED <<filed, untagged, fundamentals, jobFaults>>

(* A batch, at once or when it is due: the universe is read (a symbol that *)
(* is not in it is left alone), an error of the table ends the loop.       *)
BatchBegins(j) ==
  /\ jobs[j].at = "sleeping"
  /\ \/ Moves(j, IF j = "filings" THEN "calendar" ELSE "asking", 0) /\ UNCHANGED jobFaults
     \/ Moves(j, "dead", 0) /\ JobFault
  /\ UNCHANGED company /\ UNCHANGED <<filed, untagged, fundamentals, jobsStopping>>

(* An error of the API or of the row is logged; any other of the request   *)
(* ends the loop.                                                          *)
Refused(j, next) ==
  /\ JobFault
  /\ Moves(j, AfterThread(next), 0) \/ Moves(j, AfterThread("dead"), 0)
  /\ UNCHANGED fundamentals

Checked(column) == [fundamentals EXCEPT !.checked = @ \cup {column}]

(* _refresh_profile and _refresh_market_cap                                *)
RefreshSimple(j) ==
  /\ jobs[j].at = "asking"
  /\ \/ fundamentals' = Checked(j) /\ Moves(j, AfterThread("sleeping"), 0) /\ UNCHANGED jobFaults
     \/ Refused(j, "sleeping")
  /\ UNCHANGED company /\ UNCHANGED <<filed, untagged, jobsStopping>>

RefreshEarnings ==
  /\ jobs["filings"].at = "calendar"
  /\ \/ fundamentals' = Checked("earnings") /\ Moves("filings", AfterThread("asking"), 0) /\ UNCHANGED jobFaults
     \/ Refused("filings", "asking")
  /\ UNCHANGED company /\ UNCHANGED <<filed, untagged, jobsStopping>>

(* The two requests of _refresh_financials; the answer may be empty.       *)
AskQuarterly ==
  /\ jobs["filings"].at = "asking"
  /\ \/ \E n \in {0, filed} : Moves("filings", "asked", n) /\ UNCHANGED <<fundamentals, jobFaults>>
     \/ Refused("filings", "sleeping")
  /\ UNCHANGED company /\ UNCHANGED <<filed, untagged, jobsStopping>>

(* mutant: the figures are written also when none could be derived         *)
Derived_Always(n, figures) == TRUE

Derived(n, figures) == PeriodOf(n) # 0 /\ \E m \in Metrics : figures[m] # <<>>

RefreshFinancials ==
  /\ jobs["filings"].at = "asked"
  /\ \/ /\ LET n == jobs["filings"].reports
               figures == DeriveTTM(n, filed)
           IN fundamentals' = IF Derived(n, figures)
                              THEN [Checked("financials") EXCEPT !.period = PeriodOf(n), !.figures = figures]
                              ELSE Checked("financials")
        /\ Moves("filings", AfterThread("sleeping"), 0) /\ UNCHANGED jobFaults
     \/ Refused("filings", "sleeping")
  /\ UNCHANGED company /\ UNCHANGED <<filed, untagged, jobsStopping>>

(* stop(): a task that sleeps is gone at once, one in a thread later.      *)
StopJobs ==
  /\ ~jobsStopping /\ \E j \in Jobs : jobs[j].at # "off"
  /\ jobsStopping' = TRUE
  /\ jobs' = [j \in Jobs |-> IF jobs[j].at \in {"sleeping", "dead"} THEN At("off", 0) ELSE jobs[j]]
  /\ UNCHANGED company /\ UNCHANGED <<filed, untagged, fundamentals, jobFaults>>

CrashJobs ==
  /\ jobs' = [j \in Jobs |-> At("off", 0)] /\ \E j \in Jobs : jobs[j].at # "off"
  /\ UNCHANGED company /\ UNCHANGED <<filed, untagged, fundamentals, jobsStopping, jobFaults>>

(* A quarter is over and filed; a report may lack the concept of a metric, *)
(* or of all.                                                              *)
QuarterFiled ==
  /\ filed < Len(earned) /\ filed' = filed + 1
  /\ \E lacking \in {{}, Metrics} \cup {{m} : m \in Metrics} :
       /\ lacking # {} => Cardinality({u[2] : u \in untagged}) < MaxUntagged
       /\ untagged' = untagged \cup {<<m, filed + 1>> : m \in lacking}
  /\ UNCHANGED company /\ UNCHANGED <<fundamentals, jobs, jobsStopping, jobFaults>>

FundamentalsNext ==
  \/ StartJobs \/ StopJobs \/ CrashJobs \/ QuarterFiled
  \/ \E j \in Jobs : BatchBegins(j)
  \/ \E j \in SimpleJobs : RefreshSimple(j)
  \/ RefreshEarnings \/ AskQuarterly \/ RefreshFinancials

---------------------------------------------------------------------------
FundamentalsTypeOK ==
  /\ fundamentals.checked \subseteq Jobs \cup {"earnings", "financials"}
  /\ fundamentals.period \in 0 .. filed /\ filed \in 0 .. Len(earned)
  /\ \A m \in Metrics : Len(fundamentals.figures[m]) <= 1

(* The four quarters that end with n, and the one before them, are on      *)
(* record with the metric.                                                 *)
WindowReported(m, n) ==
  \A k \in n - 4 .. n : OfAQuarter(k) => k >= firstReport /\ <<m, k>> \notin untagged

(* Totals fall where a year begins and nowhere else.                       *)
FallsOnlyAtYears(n) ==
  \A k \in n - 3 .. n :
    OfAQuarter(k) => (YearStart(k) = k <=> Cumulative(k) < Cumulative(IF YearStart(k) = k THEN k - 2 ELSE k - 1))

(* A figure of the row is the earnings of the twelve months that end with  *)
(* its period, or is not there because the year's report lacks it.         *)
TwelveMonths ==
  \A m \in Metrics :
    LET n == fundamentals.period
        fourth == CHOOSE k \in n - 3 .. n : ~OfAQuarter(k)
    IN n > 4 /\ WindowReported(m, n) /\ FallsOnlyAtYears(n) =>
         fundamentals.figures[m] = IF <<m, fourth>> \in untagged THEN <<>> ELSE <<SumOf(n - 3 .. n)>>

(* Once there are figures there are always some, of no earlier period,     *)
(* whatever fails, stops or crashes.                                       *)
FiguresStay ==
  [][/\ fundamentals'.period >= fundamentals.period
     /\ (\E m \in Metrics : fundamentals.figures[m] # <<>>) =>
          \E m \in Metrics : fundamentals'.figures[m] # <<>>]_fundamentalsVars
=============================================================================
