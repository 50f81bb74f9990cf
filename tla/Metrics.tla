-------------------------------- MODULE Metrics --------------------------------
(***************************************************************************)
(* The numbers of the dashboard: what the ingestor exports for Prometheus, *)
(* the route that scrapes it and useMetricsSnapshot, which turns two       *)
(* answers into a rate.  The replayer's numbers take the same way.         *)
(*                                                                         *)
(* A poll takes time: the ingestor is scraped at one moment, the answer    *)
(* reaches the page at another, and only the second is the hook's clock.   *)
(* Values and bounds of buckets are small integers and time is counted in  *)
(* ticks.  The text is a sequence of lines; a scrape that fails or times   *)
(* out gives none.                                                         *)
(***************************************************************************)
EXTENDS Integers, Sequences, FiniteSets

CONSTANTS Series,         \* the labels of the counter: [table, operation]
          Braced,         \* those with a closing brace in the name of the table
          Bounds,         \* the finite upper bounds of the histogram, 1..n
          MAX_HISTORY,    \* points of the history (60)
          MaxIngested, MaxRestarts, MaxTime   \* bounds

MetricsAssumption == IsFiniteSet(Bounds) /\ {MAX_HISTORY, MaxIngested} \subseteq Nat /\ MAX_HISTORY > 0

Overflow == Cardinality(Bounds) + 1     \* the bucket of le="+Inf"
Buckets == 1..Overflow
NoData == [status |-> "none", series |-> <<>>, counted |-> 0]
NoSnapshot == [time |-> 0, eventsIngested |-> 0, status |-> "none", counted |-> 0]

VARIABLES
    exported,   \* the series of the counter in the order they came up
    latency,    \* per bucket: the observations up to its bound
    page,       \* "open" while a page with the hook is mounted
    answer,     \* the answer of the route that is on its way, NoData for none
    data,       \* the answer last loaded, kept by the query for other pages
    previousRef,
    rate,       \* ingestRate, as the growth over the interval
    history,    \* of historyRef, the values
    now, restarts,
    \* history
    ingested,   \* events ever ingested; as of a scrape, the field counted
    before      \* ingested when previousRef was set

exportVars == <<exported, latency, ingested, restarts>>
hookVars == <<page, answer, data, previousRef, rate, history, before>>
vars == <<exportVars, hookVars, now>>

Init ==
    /\ exported = <<>> /\ latency = [b \in Buckets |-> 0]
    /\ page = "left" /\ answer = NoData /\ data = NoData /\ previousRef = NoSnapshot
    /\ rate = 0 /\ history = <<>>
    /\ now = 0 /\ restarts = 0
    /\ ingested = 0 /\ before = 0

-----------------------------------------------------------------------------
(* The exporter                                                            *)

\* EVENTS_INGESTED.labels(...).inc() and INGEST_LATENCY.observe()
Ingest(s, b) ==
    /\ ingested < MaxIngested
    /\ exported' = IF \E i \in DOMAIN exported : exported[i].labels = s
                   THEN [i \in DOMAIN exported |->
                           IF exported[i].labels = s
                           THEN [exported[i] EXCEPT !.value = @ + 1] ELSE exported[i]]
                   ELSE Append(exported, [labels |-> s, value |-> 1])
    /\ latency' = [x \in Buckets |-> IF x >= b THEN latency[x] + 1 ELSE latency[x]]
    /\ ingested' = ingested + 1
    /\ UNCHANGED <<restarts, hookVars, now>>

Restart ==
    /\ restarts < MaxRestarts /\ exported # <<>>
    /\ exported' = <<>> /\ latency' = [b \in Buckets |-> 0]
    /\ restarts' = restarts + 1
    /\ UNCHANGED <<ingested, hookVars, now>>

Tick ==
    /\ now < MaxTime
    /\ now' = now + 1
    /\ UNCHANGED <<exportVars, hookVars>>

-----------------------------------------------------------------------------
(* The parser's functions                                                  *)

\* What the exporter writes for the counter.
Text == LET Line(kind, s) == [kind |-> kind, labels |-> s.labels, value |-> s.value]
            heading == [labels |-> "none", value |-> 0]
        IN  <<Line("HELP", heading), Line("TYPE", heading)>>
                \o [i \in DOMAIN exported |-> Line("sample", exported[i])]

\* parsePrometheusText, by line: the expression for a sample ends its labels at the
\* first closing brace, and a line it does not match is left out.
parsePrometheusText(lines) ==
    [i \in {k \in DOMAIN lines : lines[k].kind = "sample" /\ lines[k].labels \notin Braced} |->
        [labels |-> lines[i].labels, value |-> lines[i].value]]

First(series) == CHOOSE i \in DOMAIN series : \A k \in DOMAIN series : i <= k

\* getMetricValue without labels: the first series of the name, or 0.
getMetricValue(series) == IF DOMAIN series = {} THEN 0 ELSE series[First(series)].value

\* Mutant: a counter that fell counts from zero to its old value.
computeDifference(current, previous, interval) ==
    IF interval <= 0 THEN 0 ELSE IF current < previous THEN previous ELSE current - previous

\* computeRate, the growth of the interval
computeRate(current, previous, interval) ==
    IF interval <= 0 \/ current < previous THEN 0 ELSE current - previous

Below(h, b) == IF b = 1 THEN 0 ELSE h[b - 1]

\* The first bucket that reaches the target.
BucketOf(h, p) ==
    CHOOSE b \in Buckets : /\ 100 * h[b] >= h[Overflow] * p
                           /\ \A y \in 1..(b - 1) : 100 * h[y] < h[Overflow] * p

\* Mutant: the bucket before is never kept, so that every one begins at 0.
extractFromZero(h, p) ==
    LET b == BucketOf(h, p)
    IN  IF h[Overflow] = 0 \/ b = Overflow THEN [num |-> 0, den |-> 1]
        ELSE [num |-> b * h[Overflow] * p, den |-> 100 * h[b]]

\* extractHistogramPercentiles as a fraction: interpolated in that bucket.  The
\* bound of the last one parses to NaN, which the snapshot replaces by 0, the
\* value of a histogram without observations too.
extractPercentile(h, p) ==
    LET b == BucketOf(h, p)
        den == 100 * (h[b] - Below(h, b))
    IN  IF h[Overflow] = 0 \/ b = Overflow THEN [num |-> 0, den |-> 1]
        ELSE [num |-> (b - 1) * den + (h[Overflow] * p - 100 * Below(h, b)), den |-> den]

-----------------------------------------------------------------------------
(* The hook                                                                *)

\* The memo of useMetricsSnapshot, for the answer d.
Snapshot(d, previous, points) ==
    LET value == getMetricValue(d.series)
    IN  /\ rate' = IF previous.status = "none" THEN 0
                   ELSE computeRate(value, previous.eventsIngested, now - previous.time)
        /\ history' = LET all == Append(points, value)
                      IN  SubSeq(all, IF Len(all) > MAX_HISTORY THEN 2 ELSE 1, Len(all))
        /\ previousRef' = [time |-> now, eventsIngested |-> value, status |-> d.status,
                           counted |-> d.counted]
        /\ before' = ingested

\* A poll: the route answers with what it could scrape.
Scrape ==
    /\ page = "open" /\ answer = NoData
    /\ \E status \in {"ok", "failed"} :
           answer' = [status |-> status, counted |-> ingested,
                      series |-> IF status = "ok" THEN parsePrometheusText(Text) ELSE <<>>]
    /\ UNCHANGED <<page, data, previousRef, rate, history, before, exportVars, now>>

\* The answer arrives and the page, if it still is there, renders it.
Load ==
    /\ answer # NoData /\ answer' = NoData
    /\ \/ /\ page = "open"
          /\ data' = answer
          /\ Snapshot(answer, previousRef, history)
       \/ /\ page = "left"
          /\ data' \in {answer, NoData}
          /\ UNCHANGED <<previousRef, rate, history, before>>
    /\ UNCHANGED <<page, exportVars, now>>

\* The route cannot be reached.
Lose ==
    /\ answer # NoData /\ answer' = NoData
    /\ UNCHANGED <<page, data, previousRef, rate, history, before, exportVars, now>>

\* The refs begin anew; data the query still holds counts as if it were new.
Enter ==
    /\ page = "left"
    /\ page' = "open"
    /\ IF data = NoData
       THEN /\ previousRef' = NoSnapshot /\ rate' = 0 /\ history' = <<>>
            /\ before' = ingested
       ELSE Snapshot(data, NoSnapshot, <<>>)
    /\ UNCHANGED <<answer, data, exportVars, now>>

\* The page is left; sooner or later the query drops what it loaded.
Leave ==
    /\ page = "open"
    /\ page' = "left"
    /\ data' \in {data, NoData}
    /\ UNCHANGED <<answer, previousRef, rate, history, before, exportVars, now>>

Next ==
    \/ \E s \in Series, b \in Buckets : Ingest(s, b)
    \/ Restart \/ Tick \/ Scrape \/ Load \/ Lose \/ Enter \/ Leave

Spec == Init /\ [][Next]_vars

-----------------------------------------------------------------------------
(* The values of the variables; the history never outgrows MAX_HISTORY.    *)
TypeOK ==
    /\ rate \in 0..MaxIngested
    /\ history \in Seq(0..MaxIngested) /\ Len(history) <= MAX_HISTORY
    /\ previousRef.time <= now /\ before <= ingested
    /\ \A i, k \in DOMAIN exported : exported[i].labels = exported[k].labels => i = k

(* The growth behind a rate never exceeds what was ingested between the    *)
(* two scrapes it compares, over restarts of the ingestor, answers that    *)
(* are late or lost and visits, but after a failed scrape, which counts as *)
(* zero.  What it is divided by is the time between the renderings: it is  *)
(* at most what was ingested in that time only if nothing was between the  *)
(* earlier scrape and its rendering, by a slow answer or a page that was   *)
(* mounted with one from the cache.                                        *)
RateIsHonest ==
    [][page = "open" /\ previousRef' # previousRef /\ previousRef.status = "ok" =>
          /\ rate' <= previousRef'.counted - previousRef.counted
          /\ previousRef.counted = before => rate' <= ingested - before]_vars

\* The rank of the observation a percentile stands for, and the bucket of a rank.
RankOf(total, p) == CHOOSE k \in 1..total : 100 * k >= total * p /\ 100 * (k - 1) < total * p
BucketOfRank(k) == CHOOSE b \in Buckets : k <= latency[b] /\ Below(latency, b) < k

LiesInBucket(p) ==
    LET bucket == BucketOfRank(RankOf(latency[Overflow], p))
        v == extractPercentile(latency, p)
    IN  latency[Overflow] > 0 /\ bucket # Overflow =>
            (bucket - 1) * v.den < v.num /\ v.num <= bucket * v.den

(* A percentile lies in the bucket of the observation it stands for, the   *)
(* one of rank p in the order of latency, unless that is the unbounded one,*)
(* which is shown as 0.                                                    *)
PercentileInBucket == \A p \in {50, 90, 99} : LiesInBucket(p)
=============================================================================
