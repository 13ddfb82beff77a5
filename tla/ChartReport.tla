------------------------------ MODULE ChartReport ------------------------------
(***************************************************************************)
(* A chart of a report of the alert daemon: load.js opens a page in        *)
(* PhantomJS, which draws the data of some hosts (brokenLineChart.htm),    *)
(* posts the image to the chart service and ends the browser ten seconds   *)
(* later.                                                                  *)
(*                                                                         *)
(* data is a function from hosts to their points, records of date and      *)
(* value.  A category axis has the dates in the order they come in; the    *)
(* k-th value of a series is drawn at the k-th of them.                    *)
(***************************************************************************)
EXTENDS LodashArrays

CONSTANT TopN       \* hosts shown, 5

ASSUME TopNAssumption == TopN \in Nat \ {0}

VARIABLES
    data,       \* what the page was made for
    page,       \* "opening", "open" or "failed"
    chart,      \* what is drawn: the axis and the series; Undefined if nothing
    upload,     \* "none", "posting", "posted", "refused", "cut" (by the exit)
    closing,    \* the timer that ends the browser is set
    phantom     \* "running" or "exited"

chartVars == <<data, page, chart, upload, closing, phantom>>

LastValue(points) == At(points, Len(points) - 1).value

\* _.map with the name of a property
Column(points, property) == [k \in DOMAIN points |-> points[k][property]]

\* Of two hosts, the one with the greater last value comes first.
sortNumber(d) ==
    [pair \in (DOMAIN d) \X (DOMAIN d) |-> LastValue(d[pair[2]]) - LastValue(d[pair[1]])]

\* Faulty variant: the n-th is hidden, too.
showTopNStrict(d, n) ==
    LET lastValArr == ArraySort(SetToSeq(DOMAIN d), sortNumber(d))
        toHidden == {h \in DOMAIN d :
            Len(lastValArr) >= n /\ LastValue(d[h]) <= LastValue(d[lastValArr[n]])}
    IN  [h \in DOMAIN d \ toHidden |-> d[h]]

\* The hosts whose last value is not less than the n-th greatest of them.  With
\* fewer than n hosts there is no such value, and nothing is less.
showTopN(d, n) ==
    LET lastValArr == ArraySort(SetToSeq(DOMAIN d), sortNumber(d))
        toHidden == {h \in DOMAIN d :
            Len(lastValArr) >= n /\ LastValue(d[h]) < LastValue(d[lastValArr[n]])}
    IN  [h \in DOMAIN d \ toHidden |-> d[h]]

\* Faulty variant: the dates of the first host.
DrawFirst(d) ==
    LET shown == showTopN(d, TopN)
    IN  {[series |-> [h \in DOMAIN shown |-> Column(shown[h], "value")],
          axis |-> Column(shown[hostList[1]], "date")] :
            hostList \in SetToSeqs(DOMAIN shown)}

\* The axis grows by the dates each host has and the ones before have not.
Axis(shown, hostList) ==
    FoldLeft(LAMBDA x, h : union(<<x, Column(shown[h], "date")>>), <<>>, hostList)

Draw(d) ==
    LET shown == showTopN(d, TopN)
    IN  {[series |-> [h \in DOMAIN shown |-> Column(shown[h], "value")],
          axis |-> Axis(shown, hostList)] : hostList \in SetToSeqs(DOMAIN shown)}

\* Drawing throws when a host has no points; getImage then returns the image of
\* an empty chart.
Charts(d) == IF \E h \in DOMAIN d : d[h] = <<>> THEN {Undefined} ELSE Draw(d)

-----------------------------------------------------------------------------
ChartInit(d) ==
    /\ data = d
    /\ page = "opening"
    /\ chart = Undefined
    /\ upload = "none"
    /\ closing = FALSE
    /\ phantom = "running"

PageOpened ==
    /\ page = "opening"
    /\ page' = "open"
    /\ chart' \in Charts(data)
    /\ upload' = "posting"
    /\ closing' = TRUE
    /\ UNCHANGED <<data, phantom>>

PageFailed ==
    /\ page = "opening"
    /\ page' = "failed"
    /\ closing' = TRUE
    /\ UNCHANGED <<data, chart, upload, phantom>>

\* The answer of the chart service is only written to the log.
Posted ==
    /\ phantom = "running"
    /\ upload = "posting"
    /\ upload' \in {"posted", "refused"}
    /\ UNCHANGED <<data, page, chart, closing, phantom>>

\* Whether or not the image has arrived.
Exit ==
    /\ phantom = "running"
    /\ closing
    /\ phantom' = "exited"
    /\ upload' = IF upload = "posting" THEN "cut" ELSE upload
    /\ UNCHANGED <<data, page, chart, closing>>

ChartNext == PageOpened \/ PageFailed \/ Posted \/ Exit

-----------------------------------------------------------------------------
Dates(h) == Column(data[h], "date")

\* The dates of a host shown are those of any other and then perhaps more, or
\* the other way round.
InStep(h) ==
    \A g \in DOMAIN chart.series :
        IsPrefix(Dates(g), Dates(h)) \/ IsPrefix(Dates(h), Dates(g))

\* The values of a host are drawn at their own dates, in whatever order the
\* hosts come, if and only if it is in step with every host shown: a host that
\* lacks a date which another has, the first or one in the middle, is misplaced
\* or misplaces the other.
ValuesAtTheirDates ==
    chart # Undefined =>
        \A h \in DOMAIN chart.series :
            IF InStep(h)
            THEN IsPrefix(Dates(h), chart.axis)
            ELSE \E c \in Charts(data) : ~IsPrefix(Dates(h), c.axis)

\* The hosts shown are those with the greatest last values, of whatever dates
\* these are: TopN of them, or all there are, or more only if the least of them
\* are equal; none that is hidden exceeds one that is shown.  (The comment of
\* the page, to show only the first n, says nothing of equal values.)
TopHostsShown ==
    chart # Undefined =>
        LET shown == DOMAIN chart.series
            hidden == DOMAIN data \ shown
            above(h) == {g \in DOMAIN data : LastValue(data[g]) > LastValue(data[h])}
        IN  /\ \A h \in shown : Cardinality(above(h)) < TopN
            /\ \A h \in hidden : Cardinality(above(h)) >= TopN

=============================================================================
