---------------------------- MODULE ScalingReport ----------------------------
(***************************************************************************)
(* What experiment 2 reports: the load test is run for several relay       *)
(* counts (LoadRamp is one such test), each leaves its results in a bucket *)
(* (upload_results_to_s3 of experiments/locust/throughput_scaling.py), CPU *)
(* figures are copied there from CloudWatch for any windows of time        *)
(* (experiments/scripts/export_cloudwatch_metrics.py), and two scripts     *)
(* draw charts: generate_exp2_charts.py from the bucket and                *)
(* generate_exp2_cpu_chart.py from CloudWatch itself.                      *)
(*                                                                         *)
(* Time is in half minutes.  CloudWatch (external) has a data point for    *)
(* each minute of each service, here the mean load of its two halves; it   *)
(* rounds the start of a query down to a minute, and answers with the      *)
(* points that begin before the end.  Any call to it or the bucket may     *)
(* fail, and does not change anything then.                                *)
(*                                                                         *)
(* Its names differ from those of LoadRamp, so that one module can extend  *)
(* both (ThroughputProofs).                                                *)
(***************************************************************************)
EXTENDS Integers, Sequences, FiniteSets

CONSTANTS
    Count,      \* RELAY_COUNTS
    Service,    \* SERVICES
    Rates,      \* requests per second a ceiling may have
    MinTest,    \* half minutes that a test lasts at least
    MaxTests,   \* bound on the tests, for TLC
    MaxExports, \* bound on the exports, for TLC
    EndOfTime   \* bound on the time, for TLC

\* Two tests do not end in the same instant.
ASSUME ScalingAssumption ==
    /\ Count \subseteq Nat \ {0} /\ Rates \subseteq Nat \ {0}
    /\ {MinTest, MaxTests, MaxExports, EndOfTime} \subseteq Nat /\ MinTest > 0

VARIABLES
    ran,       \* the relay count under test in every half minute so far, or 0
    test,      \* the test under way: [count, start], or NoTest
    windows,   \* timestamps CSV: the tests so far, [count, start, end]
    summaries, \* *_summary.json: [count, stamp, ceiling], ceiling 0 for None
    latest,    \* history: the ceiling of the last summary uploaded for a count
    combined,  \* all_services_<window>.csv: window -> rows
    exports    \* number of exports

reportVars == <<ran, test, windows, summaries, latest, combined, exports>>

Now == Len(ran)
NoTest == [count |-> 0, start |-> 0]

ReportInit ==
    /\ ran = <<>> /\ test = NoTest /\ windows = <<>>
    /\ summaries = {} /\ latest = [c \in Count |-> -1]
    /\ combined = <<>>
    /\ exports = 0

----------------------------------------------------------------------------
(* The tests.                                                              *)

StartTest(c) ==
    /\ test = NoTest /\ Len(windows) < MaxTests
    /\ test' = [count |-> c, start |-> Now]
    /\ UNCHANGED <<ran, windows, summaries, latest, combined, exports>>

TimePasses ==
    /\ Now < EndOfTime
    /\ ran' = Append(ran, test.count)
    /\ UNCHANGED <<test, windows, summaries, latest, combined, exports>>

\* upload_results_to_s3: per-step CSV, summary and statistics, each whether the
\* others could be put or not; only the summary is charted.  The ceiling is
\* None if no step stayed within bounds.
EndTest(ceiling, put) ==
    /\ test # NoTest /\ Now >= test.start + MinTest
    /\ windows' = Append(windows, [count |-> test.count, start |-> test.start, end |-> Now])
    /\ summaries' = IF put
          THEN summaries \cup {[count |-> test.count, stamp |-> Now, ceiling |-> ceiling]}
          ELSE summaries
    /\ latest' = IF put THEN [latest EXCEPT ![test.count] = ceiling] ELSE latest
    /\ test' = NoTest
    /\ UNCHANGED <<ran, combined, exports>>

----------------------------------------------------------------------------
(* CloudWatch.                                                             *)

\* The data points of a query, by the half minute in which they begin.
Points(start, end) ==
    {m \in 0..(Now - 2) : m % 2 = 0 /\ (start \div 2) * 2 <= m /\ m < end}

\* The load in the minute that begins in half minute m, twice.
Load(m) == ran[m + 1] + ran[m + 2]

----------------------------------------------------------------------------
(* export_cloudwatch_metrics.py.                                           *)

\* fetch_service_metrics, of which CPUUtilization counts here, for the services
\* that can be fetched.
Rows(fetched, start, end) == fetched \X Points(start, end)

\* Mutant: a file is named after the time of the export as well.
ExportByTime(start, end, fetched) ==
    /\ start < end /\ exports < MaxExports
    /\ exports' = exports + 1
    /\ combined' = IF Points(start, end) # {}
          THEN [w \in DOMAIN combined \cup {<<start, end, exports>>} |->
                   IF w = <<start, end, exports>> THEN Rows(fetched, start, end)
                                                  ELSE combined[w]]
          ELSE combined
    /\ UNCHANGED <<ran, test, windows, summaries, latest>>

\* main: a file for each service and one for all of them, named after the
\* window and overwritten when there is one.  What was fetched goes into the
\* latter, be the former uploaded or not; other metrics alone make a file too.
\* (An export that fetches nothing, or cannot put that file, changes nothing.)
Export(start, end, fetched) ==
    /\ start < end /\ exports < MaxExports
    /\ exports' = exports + 1
    /\ combined' = IF Points(start, end) # {}
          THEN [w \in DOMAIN combined \cup {<<start, end>>} |->
                   IF w = <<start, end>> THEN Rows(fetched, start, end) ELSE combined[w]]
          ELSE combined
    /\ UNCHANGED <<ran, test, windows, summaries, latest>>

ReportNext ==
    \/ \E c \in Count : StartTest(c)
    \/ TimePasses
    \/ \E ceiling \in Rates \cup {0}, put \in BOOLEAN : EndTest(ceiling, put)
    \/ \E start, end \in {t \in 0..EndOfTime : t % 2 = 0},
          fetched \in SUBSET Service : Export(start, end, fetched)

ReportSpec == ReportInit /\ [][ReportNext]_reportVars

----------------------------------------------------------------------------
(* generate_exp2_charts.py, from the bucket as it is now.                  *)

Of(c) == {s \in summaries : s.count = c}
Summarised == {c \in Count : Of(c) # {}}

\* Mutant: the oldest summary is used.
OldestSummary(c) == CHOOSE s \in Of(c) : \A t \in Of(c) : s.stamp <= t.stamp

\* load_summaries_from_s3: the last name, that is, the last timestamp.
Summary(c) == CHOOSE s \in Of(c) : \A t \in Of(c) : t.stamp <= s.stamp

\* chart_max_throughput; a summary without a ceiling counts as 0.
MaxThroughput(c) == Summary(c).ceiling

Files == DOMAIN combined

\* The sum of the loads of rows, which end in their minute, and their number.
\* A sum of naturals is the number of its units.
CpuOf(rows) ==
    [sum |-> Cardinality(UNION {{row} \X (1..Load(row[2])) : row \in rows}),
     n   |-> Cardinality(rows)]

\* load_cpu_from_s3: the rows of all files, one after the other.
CpuRows(service) ==
    CpuOf({row \in Files \X (0..Now) : <<service, row[2]>> \in combined[row[1]]})

SameMean(a, b) == a.sum * b.n = b.sum * a.n

----------------------------------------------------------------------------
(* generate_exp2_cpu_chart.py.                                             *)

\* Mutant: the whole window is queried.
CpuWindowWhole(w) == [start |-> w.start, end |-> w.end]

\* main: the window of a test that is queried, from one minute after its start
\* to half a minute before its end (nothing is drawn if that is no window).
CpuWindow(w) == [start |-> w.start + 2, end |-> w.end - 1]

\* fetch_cpu_pct: the points whose mean is charted; 0 if there are none.
CpuPoints(w) == Points(CpuWindow(w).start, CpuWindow(w).end)

----------------------------------------------------------------------------
(* Properties.                                                             *)

Minutes(service) == {m \in 0..Now : \E w \in Files : <<service, m>> \in combined[w]}

ReportTypeOK ==
    /\ ran \in Seq(Count \cup {0}) /\ Now <= EndOfTime
    /\ test = NoTest \/ test.count \in Count
    /\ \A i \in DOMAIN windows : windows[i].count \in Count
    /\ \A s \in summaries : s.ceiling \in Rates \cup {0}
    /\ \A w \in Files : combined[w] \subseteq Service \X (0..EndOfTime)
    /\ exports \in 0..MaxExports

\* Whatever uploads fail, and however often a count is tested, the throughput
\* charted for it is that of its last test whose summary has reached the bucket.
SummaryIsLatest ==
    /\ Summarised = {c \in Count : latest[c] >= 0}
    /\ \A c \in Summarised : MaxThroughput(c) = latest[c]

\* Exporting a window again changes no figure: as long as no two windows
\* overlap, every minute weighs the same, however often it was exported and
\* whichever files could not be put.
SameWindowCountsOnce ==
    (\A v, w \in Files : (v[1] = w[1] /\ v[2] = w[2]) \/ v[2] <= w[1] \/ w[2] <= v[1])
    => \A service \in Service :
          SameMean(CpuRows(service), CpuOf({service} \X Minutes(service)))

\* A data point that the CPU chart uses for a test begins after the test did,
\* and has at most half a minute of what came after it: with a minute of rest
\* between two tests, none is charted for another's relay count.
CpuPointsAreOfTheTest ==
    \A i \in DOMAIN windows : \A m \in CpuPoints(windows[i]) :
        m > windows[i].start /\ m + 2 <= windows[i].end + 1
=============================================================================
