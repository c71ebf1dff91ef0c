----------------------------- MODULE MetricsStore -----------------------------
(***************************************************************************)
(* gui/metrics_store.py: samples of a metric in three tables.              *)
(*                                                                         *)
(* Samples are inserted raw.  A timer runs downsample(), one transaction   *)
(* under the store's lock: raw samples older than a day become rows of a   *)
(* minute, rows of a minute older than a week become rows of an hour, and  *)
(* rows of an hour older than a month are deleted.  get_history() reads    *)
(* the one table that its window selects.                                  *)
(*                                                                         *)
(* Every table is partitioned by the metric's name: one metric is          *)
(* modelled.  A row stands for the samples aggregated in it, and carries   *)
(* the time its bucket begins; its minimum, maximum and count follow.      *)
(***************************************************************************)
EXTENDS Naturals, FiniteSets

CONSTANTS
  Minute, Hour,      \* lengths of the buckets
  RawWindow, MinuteWindow, HourWindow,   \* TIER_WINDOWS
  MaxClock,          \* bound of the clock
  MaxSamples,        \* bound: samples inserted
  MaxLag             \* bound: age of a sample when it is inserted

ASSUME MetricsBounds ==
  /\ {Minute, Hour} \subseteq Nat \ {0} /\ Hour % Minute = 0
  /\ {RawWindow, MinuteWindow, HourWindow} \subseteq Nat
  /\ RawWindow < MinuteWindow /\ MinuteWindow < HourWindow
  /\ {MaxClock, MaxSamples, MaxLag} \subseteq Nat

VARIABLES
  now,    \* the time
  stamp,    \* the timestamps of the samples inserted so far
  raw,      \* metrics_raw: samples
  minutes,  \* metrics_1min: rows
  hours     \* metrics_1hour: rows

metricsVars == <<now, stamp, raw, minutes, hours>>

Inserted == DOMAIN stamp
Time     == 0..MaxClock
Row      == [from : Time, of : SUBSET (1..MaxSamples)]

MetricsTypeOK ==
  /\ now \in Time
  /\ \E n \in 0..MaxSamples : stamp \in [1..n -> Time]
  /\ raw \subseteq Inserted
  /\ minutes \subseteq Row /\ hours \subseteq Row

MetricsInit ==
  now = 0 /\ stamp = <<>> /\ raw = {} /\ minutes = {} /\ hours = {}

Floor(t, bucket) == t - (t % bucket)

\* timestamp < _to_iso(now - window), for an instant or the start of a row.
Older(t, window) == t + window < now

\* INSERT INTO metrics_1min ... SELECT ... FROM metrics_raw GROUP BY: one new
\* row for each minute that has old samples.
MinuteRows(old) ==
  { [from |-> m, of |-> {s \in old : Floor(stamp[s], Minute) = m}] :
      m \in {Floor(stamp[s], Minute) : s \in old} }

\* INSERT INTO metrics_1hour ... SELECT ... FROM metrics_1min GROUP BY.
HourRows(old) ==
  { [from |-> h, of |-> UNION {r.of : r \in {q \in old : Floor(q.from, Hour) = h}}] :
      h \in {Floor(r.from, Hour) : r \in old} }

-----------------------------------------------------------------------------
\* insert_sample(), or one of insert_many(): the sample is stamped when it is
\* taken, which may be a while ago.
InsertSample(lag) ==
  /\ Cardinality(Inserted) < MaxSamples
  /\ lag <= now
  /\ LET s == Cardinality(Inserted) + 1 IN
       /\ stamp' = [i \in 1..s |-> IF i = s THEN now - lag ELSE stamp[i]]
       /\ raw' = raw \cup {s}
  /\ UNCHANGED <<now, minutes, hours>>

\* Fault: the old raw samples are deleted up to the cutoff, and aggregated
\* below it.
DownsampleInclusive ==
  LET oldRaw  == {s \in raw : Older(stamp[s], RawWindow)}
      all     == minutes \cup MinuteRows(oldRaw)
      oldRows == {r \in all : Older(r.from, MinuteWindow)}
  IN
  /\ raw' = {s \in raw : stamp[s] + RawWindow > now}
  /\ minutes' = all \ oldRows
  /\ hours' = {r \in hours \cup HourRows(oldRows) : ~Older(r.from, HourWindow)}
  /\ UNCHANGED <<now, stamp>>

\* downsample(): a row made of raw samples may be old enough to go on into
\* its hour at once.
Downsample ==
  LET oldRaw  == {s \in raw : Older(stamp[s], RawWindow)}
      all     == minutes \cup MinuteRows(oldRaw)
      oldRows == {r \in all : Older(r.from, MinuteWindow)}
  IN
  /\ raw' = raw \ oldRaw
  /\ minutes' = all \ oldRows
  /\ hours' = {r \in hours \cup HourRows(oldRows) : ~Older(r.from, HourWindow)}
  /\ UNCHANGED <<now, stamp>>

ClockTicks == now < MaxClock /\ now' = now + 1 /\ UNCHANGED <<stamp, raw, minutes, hours>>

MetricsNext ==
  \/ \E lag \in 0..MaxLag : InsertSample(lag)
  \/ Downsample
  \/ ClockTicks

MetricsSpec == MetricsInit /\ [][MetricsNext]_metricsVars

-----------------------------------------------------------------------------
\* get_history(), the samples that the returned rows stand for.
History(window) ==
  LET within(t) == t + window >= now IN
  IF window <= RawWindow THEN {s \in raw : within(stamp[s])}
  ELSE UNION {r.of : r \in {q \in IF window <= MinuteWindow THEN minutes ELSE hours :
                              within(q.from)}}

(***************************************************************************)
(* Properties.                                                             *)
(***************************************************************************)

\* The places where sample s is counted.
Copies(s) ==
  Cardinality({r \in minutes : s \in r.of}) + Cardinality({r \in hours : s \in r.of})
    + IF s \in raw THEN 1 ELSE 0

\* No sample is counted twice, however often and however irregularly the store
\* is downsampled and however late the sample came; and none is lost before
\* the end of the month, less the hour whose row it shares
\* (metrics_store.py:372-434).
SampleOnce ==
  \A s \in Inserted :
    /\ Copies(s) <= 1
    /\ Copies(s) = 0 => stamp[s] + HourWindow < now + Hour

\* "Return downsampled history for *metric_type* over the given window."
\* (metrics_store.py:283): the samples of the window are in it, if only by
\* their bucket.
HistoryCovers ==
  \A window \in 0..HourWindow, s \in Inserted :
    stamp[s] + window >= now + Hour => s \in History(window)
=============================================================================
