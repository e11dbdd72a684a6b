----------------------------- MODULE Statistics -----------------------------
(***************************************************************************)
(* core/repository.py: the tables a batch of requests fills, the cleanup,  *)
(* and the pages that read them, for one site.                             *)
(*                                                                         *)
(* record_batch() fills five tables in one transaction.  A page runs       *)
(* several SELECTs outside any transaction: each of them reads what is     *)
(* committed at its own moment, so that batches fall between them.         *)
(*                                                                         *)
(* Time is in minutes.  Hours and days of the sketches and of the trend    *)
(* are those of UTC; a period and the daily table go by the local date,    *)
(* which is Offset minutes ahead.  recorded is a history variable.         *)
(***************************************************************************)
EXTENDS Sketch, Sequences, Functions, TLC

CONSTANTS Kinds,      (* requests: ip and uri, numbered in the order SQLite
                         sorts them; agent; page (a GET or HEAD of no static
                         file answered 200..399); status: "ok" below 400,
                         "error" 400..599, "beyond" 600..999, which the
                         parsers accept (core/parsers.py:18)               *)
          SpiderOf,   (* the spider an agent is taken for, or None         *)
          HashOf,     (* the hash of a "uv" or "ip" value of a request     *)
          MinutesPerHour, HoursPerDay, Offset,
          RawDays, ErrorDays, AnalyticsDays,  (* configured retention      *)
          LongDays,   (* days of the longest period; also the least that
                         AnalyticsDays is clamped to, and the import window *)
          DetailDays, (* days of requests an import keeps in full          *)
          Precisions, (* hll_precision, before and after it is raised      *)
          Pages,      (* the pages that are read                           *)
          RankLimit,  (* how many values a page's rankings by ip and uri
                         show                                              *)
          MaxMinute, MaxEvents, StartMinute, (* bounds *)
          None

Hour(m) == (m \div MinutesPerHour) * MinutesPerHour

MinutesPerDay == MinutesPerHour * HoursPerDay
Day(m) == (m + Offset) \div MinutesPerDay
Midnight(m) == Day(m) * MinutesPerDay - Offset

ASSUME StatisticsAssumption ==
    /\ {MinutesPerHour, HoursPerDay, LongDays} \subseteq Nat \ {0}
    /\ Offset \in 0 .. MinutesPerDay - 1
    /\ {RawDays, ErrorDays, AnalyticsDays, DetailDays} \subseteq Nat
    /\ Precisions \subseteq Precision /\ Precisions # {}
    /\ {MaxMinute, MaxEvents} \subseteq Nat /\ StartMinute \in 0 .. MaxMinute
    /\ HashOf \in [{"uv", "ip"} -> [Kinds -> Hash]]
    /\ Pages \subseteq {"overview", "sites", "spiders", "clients", "ip", "uri",
                        "reports"}
    /\ None \notin Pages
    /\ \A k \in Kinds : /\ {k.ip, k.uri} \subseteq Nat
                         /\ k.status \in {"ok", "error", "beyond"}
    /\ RankLimit \in [Pages -> Nat \ {0}]

VARIABLES
    now,       (* the clock, in minutes                                    *)
    precision, (* hll_precision of the running service                     *)
    recorded,  (* how often each event was recorded                        *)
    metric,    (* metric_minute: counters per minute                       *)
    spiders,   (* spider_minute: counters per minute and spider            *)
    days,      (* dimension_day: counters per date, dimension and value    *)
    sketches,  (* unique_hll_hour: a sketch per hour and kind              *)
    details,   (* recent_requests: how many rows of each event             *)
    reader     (* the page being read: what is left to ask, and answers    *)

tables == <<recorded, metric, spiders, days, sketches, details>>
vars == <<now, precision, tables, reader>>

Event == [minute : 0 .. MaxMinute, kind : Kinds]
Dimensions == {"ip", "uri", "browser", "system", "device"}
Nobody == [page |-> None, period |-> None, from |-> 0, upto |-> 0,
            todo |-> <<>>, got |-> <<>>, quiet |-> TRUE]

Sum(f) == SumFunction(f)
Smaller(a, b) == IF a <= b THEN a ELSE b

-----------------------------------------------------------------------------
(* The rows of a batch: its events grouped by Key, each group counted.     *)
IsSpider(e) == SpiderOf[e.kind.agent] # None
IsPageView(e) == e.kind.page /\ ~IsSpider(e)

Rows(b, I, Key(_), Counters(_)) ==
    [k \in {Key(b[i]) : i \in I} |->
        Counters({i \in I : Key(b[i]) = k})]

(* What is an error: 400 to 599, or everything from 400.                   *)
IsError(e) == e.kind.status = "error"
From400(e) == e.kind.status # "ok"

MinuteRows(b) ==
    Rows(b, DOMAIN b, LAMBDA e : e.minute,
         LAMBDA I : [requests |-> Cardinality(I),
                     pv |-> Cardinality({i \in I : IsPageView(b[i])}),
                     errors |-> Cardinality({i \in I : IsError(b[i])}),
                     bots |-> Cardinality({i \in I : IsSpider(b[i])})])

SpiderRows(b) ==
    Rows(b, {i \in DOMAIN b : IsSpider(b[i])},
         LAMBDA e : <<e.minute, SpiderOf[e.kind.agent]>>,
         LAMBDA I : [requests |-> Cardinality(I),
                     errors |-> Cardinality({i \in I : IsError(b[i])})])

(* browser, system and device are functions of the agent.                  *)
ValueOf(d, e) == IF d \in {"ip", "uri"} THEN e.kind[d] ELSE e.kind.agent

DimensionRows(b) ==
    LET key(d, e) == <<Day(e.minute), d, ValueOf(d, e)>>
    IN  [k \in {key(d, b[i]) : d \in Dimensions, i \in DOMAIN b} |->
            LET I == {i \in DOMAIN b : key(k[2], b[i]) = k}
            IN  [requests |-> Cardinality(I),
                 errors |-> Cardinality({i \in I : From400(b[i])})]]

SketchRows(b) ==
    [k \in {Hour(b[i].minute) : i \in DOMAIN b} \X {"uv", "ip"} |->
        AddAll(precision, {HashOf[k[2]][b[i].kind] :
                            i \in {j \in DOMAIN b : Hour(b[j].minute) = k[1]}})]

(* UPDATE what is there, then INSERT OR IGNORE the rows that are not.      *)
Upsert(table, rows, Op(_, _)) ==
    [k \in DOMAIN table \cup DOMAIN rows |->
        IF k \notin DOMAIN rows THEN table[k]
        ELSE IF k \notin DOMAIN table THEN rows[k]
        ELSE Op(table[k], rows[k])]

(* Mutant: a row that is there is replaced.                                *)
AddCountersReplaced(table, rows) == rows @@ table

AddCounters(table, rows) ==
    Upsert(table, rows, LAMBDA x, y : Pointwise(x, y, +))

(* Mutant: the precision of what is stored is not looked at.               *)
CanStoreAlways(rows) == TRUE

(* The merge of two precisions raises, and nothing of the batch is kept.   *)
CanStore(rows) ==
    \A k \in DOMAIN rows \cap DOMAIN sketches : Mergeable(sketches[k], rows[k])

EventRows(b, I) == Rows(b, I, LAMBDA e : e, Cardinality)

(* record_batch(); kept are the positions whose request is kept in full.   *)
(* The page being read is not quiet any more.                              *)
Record(b, kept) ==
    /\ LET rows == SketchRows(b)
       IN  CanStore(rows) /\ sketches' = Upsert(sketches, rows, Merge)
    /\ metric' = AddCounters(metric, MinuteRows(b))
    /\ spiders' = AddCounters(spiders, SpiderRows(b))
    /\ details' = Upsert(details, EventRows(b, kept), +)
    /\ days' = AddCounters(days, DimensionRows(b))
    /\ recorded' = Upsert(recorded, EventRows(b, DOMAIN b), +)
    /\ reader' = [reader EXCEPT !.quiet = reader.page = None]
    /\ UNCHANGED <<now, precision>>

(* A batch: one event, or two in order, of the minutes M.                  *)
Batches(M) ==
    {b \in UNION {[1 .. n -> [minute : M, kind : Kinds]] :
                    n \in 1 .. Smaller(2, MaxEvents - Sum(recorded))} :
        \A i, j \in DOMAIN b : i < j => b[i].minute <= b[j].minute}

(* record_live_batch(): what has just happened, kept in full.              *)
RecordLive ==
    \E b \in Batches({now}) : Record(b, DOMAIN b)

(* Old requests, of which those before the cutoffs of the import are only  *)
(* counted.  The cutoffs are those of the moment the import began.         *)
InCutoffs(begun, e) ==
    \/ e.minute >= begun - DetailDays * MinutesPerDay
    \/ IsError(e) /\ e.minute >= begun - LongDays * MinutesPerDay

RecordImported ==
    \E begun \in StartMinute .. now :
    \E b \in Batches({m \in 0 .. now : m >= begun - LongDays * MinutesPerDay}) :
        Record(b, {i \in DOMAIN b : InCutoffs(begun, b[i])})

(* Mutant: the two cutoffs are swapped.                                    *)
ExpiredSwapped(e) ==
    e.minute <
        now - (IF From400(e) THEN RawDays ELSE ErrorDays) * MinutesPerDay

(* cleanup_details(), by the settings; its counters of whole days go only  *)
(* when no period can show them any more.                                  *)
Expired(e) ==
    e.minute <
        now - (IF From400(e) THEN ErrorDays ELSE RawDays) * MinutesPerDay

FirstDay == Day(now - Larger(LongDays, AnalyticsDays) * MinutesPerDay)

Cleanup ==
    /\ details' = RestrictDomain(details, LAMBDA e : ~Expired(e))
    /\ days' = RestrictDomain(days, LAMBDA k : k[1] >= FirstDay)
    /\ UNCHANGED <<now, precision, recorded, metric, spiders, sketches, reader>>

(* Bound: a page is read within a day of the end of its window.            *)
ReadInTime == reader.page # None => now < reader.upto + MinutesPerDay

Tick ==
    /\ now < MaxMinute /\ ReadInTime
    /\ now' = now + 1
    /\ UNCHANGED <<precision, tables, reader>>

(* The service is started again with another hll_precision, a higher one   *)
(* here.                                                                   *)
Reconfigure ==
    /\ precision' \in {p \in Precisions : p > precision}
    /\ UNCHANGED <<now, tables, reader>>

-----------------------------------------------------------------------------
(* _period_range(), and the local dates of a window.  An end is exclusive  *)
(* and one second past the present, or past midnight: its minute is in.    *)
Window(period, t) ==
    [from |-> CASE period = "today" -> Midnight(t)
                [] period = "yesterday" -> Midnight(t) - MinutesPerDay
                [] period = "long" ->
                     Midnight(t) - (LongDays - 1) * MinutesPerDay,
     upto |-> IF period = "yesterday" THEN Midnight(t) ELSE t]

InWindow(m) == reader.from <= m /\ m <= reader.upto

BucketSize == IF reader.period = "long" THEN MinutesPerDay ELSE MinutesPerHour
Bucket(m) == (m \div BucketSize) * BucketSize

(* Mutant: the buckets begin within the window.                            *)
ShownWithin == {m \in reader.from .. reader.upto : m % BucketSize = 0}

(* The buckets get_trend() and get_spiders() return, zero or not.          *)
Shown == {m \in Bucket(reader.from) .. reader.upto : m % BucketSize = 0}

Total(table, field, K) == Sum([k \in K |-> table[k][field]])

MetricRows == {m \in DOMAIN metric : InWindow(m)}
SpiderKeys == {k \in DOMAIN spiders : InWindow(k[1])}

(* Mutant: the sketches begin with the first whole hour.                   *)
SketchKeysWithin(kind) ==
    {k \in DOMAIN sketches :
        k[2] = kind /\ reader.from <= k[1] /\ k[1] <= reader.upto}

(* The sketches of a window begin with the hour the window begins in.      *)
SketchKeys(kind) ==
    {k \in DOMAIN sketches :
        k[2] = kind /\ Hour(reader.from) <= k[1] /\ k[1] <= reader.upto}

(* Mutant: the counts of the hours are added up.                           *)
DistinctByHour(K) == Sum([k \in K |-> Estimate(sketches[k])])

Distinct(K) ==
    IF K = {} THEN 0
    ELSE LET p == sketches[CHOOSE k \in K : TRUE].precision
         IN  Estimate(FoldSet(LAMBDA k, s : Merge(s, sketches[k]), Empty(p), K))

InBucket(kind, m) == {k \in SketchKeys(kind) : Bucket(k[1]) = m}

OnePrecision(K) == \A j, k \in K : Mergeable(sketches[j], sketches[k])

(* The daily rows of a window, by the local dates of its ends.             *)
DayKeys(dimension) ==
    {k \in DOMAIN days : /\ k[2] = dimension
                         /\ Day(reader.from) <= k[1]
                         /\ k[1] <= Day(reader.upto)}

Ranked(dimension) == {k[3] : k \in DayKeys(dimension)}

RequestsOf(dimension, v) ==
    Total(days, "requests", {k \in DayKeys(dimension) : k[3] = v})

(* ORDER BY requests DESC, value ASC.                                      *)
Outranks(dimension, w, v) ==
    \/ RequestsOf(dimension, w) > RequestsOf(dimension, v)
    \/ RequestsOf(dimension, w) = RequestsOf(dimension, v) /\ w < v

(* LIMIT: the values that get a row.                                       *)
Top(dimension) ==
    {v \in Ranked(dimension) :
        Cardinality({w \in Ranked(dimension) : Outranks(dimension, w, v)})
          < RankLimit[reader.page]}

(* The rows of a ranking added up; cut, when there are values without one. *)
Ranking(dimension) ==
    [requests |-> Total(days, "requests",
                        {k \in DayKeys(dimension) : k[3] \in Top(dimension)}),
     cut |-> Cardinality(Ranked(dimension)) > RankLimit[reader.page]]

(* One SELECT, and what the page makes of its rows.                        *)
Answer(q) ==
    CASE q = "totals" ->
            [requests |-> Total(metric, "requests", MetricRows),
             bots |-> Total(metric, "bots", MetricRows)]
      [] q = "latest" ->
            IF MetricRows = {} THEN 0 ELSE metric[Max(MetricRows)].requests
      [] q = "unique" ->
            [k \in {"uv", "ip"} |-> Distinct(SketchKeys(k))]
      [] q = "trend" ->
            Total(metric, "requests", {m \in MetricRows : Bucket(m) \in Shown})
      [] q = "trendUnique" ->
            [k \in {"uv", "ip"} |->
                Max({0} \cup {Distinct(InBucket(k, m)) : m \in Shown})]
      [] q = "spiders" -> Total(spiders, "requests", SpiderKeys)
      [] q = "spiderTrend" ->
            Total(spiders, "requests",
                  {k \in SpiderKeys : Bucket(k[1]) \in Shown})
      [] q \in {"ip", "uri"} -> Ranking(q)
      [] q \in {"browser", "system", "device"} ->
            Total(days, "requests", DayKeys(q))

(* A merge of two precisions raises; the page then shows an error.         *)
Raises(q) ==
    \E k \in {"uv", "ip"} :
        \/ q = "unique" /\ ~OnePrecision(SketchKeys(k))
        \/ /\ q = "trendUnique"
           /\ \E m \in Shown : ~OnePrecision(InBucket(k, m))

Overview == <<"totals", "unique", "latest">>
Trend == <<"trend", "trendUnique">>

(* The SELECTs of each page, in the order of the code.                     *)
Queries ==
    [overview |-> Overview \o Trend,
     sites    |-> <<"totals", "unique">>,
     spiders  |-> <<"spiders", "spiderTrend">>,
     clients  |-> <<"browser", "system", "device">>,
     ip       |-> <<"ip">>,
     uri      |-> <<"uri">>,
     reports  |-> Overview \o <<"uri", "ip">> \o Trend]

Ask ==
    /\ reader.page = None
    /\ \E page \in Pages, period \in {"today", "yesterday", "long"} :
         LET w == Window(period, now)
         IN  reader' = [page |-> page, period |-> period, from |-> w.from,
                        upto |-> w.upto, todo |-> Queries[page], got |-> <<>>,
                        quiet |-> TRUE]
    /\ UNCHANGED <<now, precision, tables>>

Select ==
    /\ reader.todo # <<>>
    /\ ~Raises(Head(reader.todo))
    /\ LET q == Head(reader.todo)
       IN  reader' = [reader EXCEPT !.todo = Tail(@),
                                    !.got = [x \in DOMAIN @ \cup {q} |->
                                        IF x = q THEN Answer(q) ELSE @[x]]]
    /\ UNCHANGED <<now, precision, tables>>

Leave ==
    /\ reader.page # None
    /\ reader.todo # <<>> => Raises(Head(reader.todo))
    /\ reader' = Nobody
    /\ UNCHANGED <<now, precision, tables>>

Init ==
    /\ now = StartMinute /\ precision = Min(Precisions)
    /\ recorded = <<>> /\ details = <<>>
    /\ metric = <<>> /\ spiders = <<>> /\ days = <<>> /\ sketches = <<>>
    /\ reader = Nobody

Next ==
    \/ RecordLive \/ RecordImported \/ Cleanup \/ Tick \/ Reconfigure
    \/ Ask \/ Select \/ Leave

Spec == Init /\ [][Next]_vars

-----------------------------------------------------------------------------
TypeOK ==
    /\ now \in 0 .. MaxMinute /\ precision \in Precisions
    /\ DOMAIN recorded \subseteq Event /\ Sum(recorded) \in 0 .. MaxEvents
    /\ DOMAIN details \subseteq DOMAIN recorded
    /\ DOMAIN metric \subseteq 0 .. MaxMinute
    /\ \A k \in DOMAIN sketches :
        /\ k[1] % MinutesPerHour = 0 /\ k[2] \in {"uv", "ip"}
        /\ sketches[k].registers
            \in [0 .. 2^sketches[k].precision - 1 -> 0 .. HashBits]

(* The tables tell the same story.  All minutes together hold every        *)
(* recorded event; the spiders of a minute are its bot requests; and each  *)
(* dimension of a day that is kept adds up to the minutes of that date, in *)
(* requests and in errors, but that it counts a status from 600 as an      *)
(* error and the minutes do not: see ErrorsAgree.  They are filled from    *)
(* one pass over a batch, in one transaction, each with its own key and    *)
(* its own idea of an error (record_batch()).                              *)
OfDay(dimension, field, day) ==
    Total(days, field,
          {k \in DOMAIN days : k[1] = day /\ k[2] = dimension})

OfMinutes(field, day) ==
    Total(metric, field, {m \in DOMAIN metric : Day(m) = day})

Beyond(day) ==
    Sum(RestrictDomain(recorded, LAMBDA e :
            e.kind.status = "beyond" /\ Day(e.minute) = day))

KeptDays == {day \in {Day(m) : m \in DOMAIN metric} : day >= FirstDay}

TablesAgree ==
    /\ Total(metric, "requests", DOMAIN metric) = Sum(recorded)
    /\ \A m \in DOMAIN metric :
        Total(spiders, "requests", {k \in DOMAIN spiders : k[1] = m})
          = metric[m].bots
    /\ \A day \in KeptDays, d \in Dimensions :
        /\ OfDay(d, "requests", day) = OfMinutes("requests", day)
        /\ OfDay(d, "errors", day) = OfMinutes("errors", day) + Beyond(day)

(* README.md:170 defines one number: "错误：HTTP 400–599 状态码".          *)
ErrorsAgree ==
    \A day \in KeptDays, d \in Dimensions :
        OfDay(d, "errors", day) = OfMinutes("errors", day)

(* The sketch of an hour is that of the values recorded in it, each once,  *)
(* however they came in batches, live or imported; and never a mixture of  *)
(* two precisions (_store_hll(), HyperLogLog.merge()).                     *)
SketchesExact ==
    \A k \in DOMAIN sketches :
        sketches[k] = Of(sketches[k].precision,
                         {HashOf[k[2]][e.kind] :
                            e \in {x \in DOMAIN recorded :
                                    Hour(x.minute) = k[1]}})

(* Requests stay in the list as long as both the settings and the import   *)
(* keep them, errors longer than others: the cleanup and the import, which *)
(* have cutoffs of their own and an idea of an error of their own, take    *)
(* away nothing else.                                                      *)
DetailsKept ==
    /\ \A e \in DOMAIN details : details[e] <= recorded[e]
    /\ \A e \in DOMAIN recorded :
        LET keep == {IF From400(e) THEN ErrorDays ELSE RawDays,
                     IF IsError(e) THEN LongDays ELSE DetailDays}
        IN  e.minute >= now - Min(keep) * MinutesPerDay
              => e \in DOMAIN details /\ details[e] = recorded[e]

Has(Q) == reader.todo = <<>> /\ Q \subseteq DOMAIN reader.got

(* The numbers of a page fit together.  What is read later includes what   *)
(* was read before: a page that shows requests shows visitors, because the *)
(* sketches are read after the totals and begin with the first hour of the *)
(* window (get_overview(), get_site_summaries(), _read_hll_counts()).  If  *)
(* nothing was recorded meanwhile the trend, the ranking by day and the    *)
(* totals by minute agree, whatever the cleanup removes.  A ranking that   *)
(* has no row for some value shows no more than that.  Rankings of         *)
(* "yesterday" are left out: see YesterdayIsOver.                          *)
Agree(q, r) ==
    Has({q, r})
    /\ (reader.period # "yesterday" \/ {q, r} \cap {"ip", "uri"} = {})
      => LET n(x) == IF x \in {"totals", "ip", "uri"}
                     THEN reader.got[x].requests ELSE reader.got[x]
             whole(x) == x \in {"ip", "uri"} => ~reader.got[x].cut
         IN  /\ whole(r) => n(q) <= n(r)
             /\ reader.quiet /\ whole(q) => n(r) <= n(q)

RequestsHaveVisitors ==
    Has({"totals", "unique"}) /\ reader.got["totals"].requests > 0
      => reader.got["unique"].uv > 0 /\ reader.got["unique"].ip > 0

PagesAddUp ==
    /\ RequestsHaveVisitors
    /\ Agree("totals", "trend") /\ Agree("totals", "uri") /\ Agree("uri", "ip")
    /\ Agree("spiders", "spiderTrend")

(* The visitors and addresses of a window are those of its hours, each     *)
(* counted once in however many hours, batches and imports they came: the  *)
(* page merges the sketches of the hours before it counts                  *)
(* (_read_hll_counts()).                                                   *)
VisitorsCountedOnce ==
    reader.page # None /\ ~Raises("unique") =>
        \A kind \in {"uv", "ip"}, k \in DOMAIN sketches :
            k \in SketchKeys(kind) =>
                Distinct(SketchKeys(kind))
                  = Estimate(Of(sketches[k].precision,
                       {HashOf[kind][e.kind] :
                          e \in {x \in DOMAIN recorded :
                                  /\ Hour(reader.from) <= Hour(x.minute)
                                  /\ Hour(x.minute) <= reader.upto}}))

(* README.md:44 lists a report of yesterday with its rankings: it counts   *)
(* the requests of yesterday's date.                                       *)
YesterdayIsOver ==
    Has({"uri"}) /\ reader.period = "yesterday" /\ reader.quiet
        /\ ~reader.got["uri"].cut
      => reader.got["uri"].requests = Sum(RestrictDomain(recorded,
                               LAMBDA e : Day(e.minute) = Day(reader.upto) - 1))
=============================================================================
