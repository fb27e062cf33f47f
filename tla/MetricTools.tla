------------------------------ MODULE MetricTools ------------------------------
(***************************************************************************)
(* A call of a metric tool, from the gateway of AI Core through handler    *)
(* and service of assistant-mcp to the adapter in front of Prometheus, and *)
(* its answer on the way back: what is refused before anything is read,    *)
(* what of a reply is kept, and which error code AI Core gets to see.      *)
(***************************************************************************)
EXTENDS QueryPlan

CONSTANTS
    SeriesLimit,  \* series of an answer (20 in the code)
    SampleLimit   \* samples of an answer (5000 in the code)

ASSUME LimitsAssumption == SeriesLimit \in Nat /\ SampleLimit \in Nat

Ok(value) == [code |-> "ok", value |-> value]
Error(code) == [code |-> code, value |-> {}]

-----------------------------------------------------------------------------
(* What is asked: service, adapter and registry check the same *)

\* (mutant) Every view takes the window of the CPU view.
WindowForAll(view, window) == window.given /\ window.value \in AllowedCPUWindows

WindowValid(view, window) ==
    IF view = "cpu" THEN window.given /\ window.value \in AllowedCPUWindows ELSE ~window.given

Points(duration, step) == ((duration \div Second) \div step) + 1

InputValid(q) ==
    /\ q.view \in Registry /\ WindowValid(q.view, q.window)
    /\ 0 < q.duration /\ q.duration <= 6 * Hour
    /\ q.step \in AllowedSteps
    /\ Points(q.duration, q.step) <= 1000

\* cpuWindowForView: the other views have none.
WindowFor(view, plan) == IF view = "cpu" THEN Given(plan.window) ELSE Absent

\* QueryEngineAdapter: Validate asks about the last minute, Execute the plan.
Validation(view, plan) ==
    [execute |-> FALSE, view |-> view, window |-> WindowFor(view, plan), duration |-> Minute, step |-> 60]
Execution(view, plan) ==
    [execute |-> TRUE, view |-> view, window |-> WindowFor(view, plan), duration |-> plan.duration,
     step |-> plan.step]

-----------------------------------------------------------------------------
(* What Prometheus replies, and what the adapter makes of it *)

\* classifyTransportError, classifyStatus, the limit on the body, its decoding.
ReplyCode == [timeout |-> "tool_timeout", unauthorized |-> "adapter_not_configured",
              status |-> "dependency_unavailable", oversized |-> "schema_validation_failed",
              malformed |-> "dependency_unavailable"]

\* Rows of a matrix: named and well-formed, or not; finite and other samples; and
\* whether a finite one is wide: beyond the float32 of the tool's contract.
Rows == [readable : BOOLEAN, finite : Nat, other : Nat, wide : BOOLEAN]

\* The rows without their order, which nothing depends on.
Series(rows) == {rows[i] : i \in 1..Len(rows)}

\* Samples are counted before those that are not finite are removed.
Samples(rows, n) ==
    LET sum[i \in 0..n] == IF i = 0 THEN 0 ELSE sum[i - 1] + rows[i].finite + rows[i].other
    IN  sum[n]

\* (mutant) A series that has lost all its samples is kept.
ParseSeriesKept(rows) ==
    LET bad == {i \in 1..Len(rows) : ~rows[i].readable \/ Samples(rows, i) > SampleLimit}
    IN  IF bad = {} THEN Ok(Series(rows))
        ELSE LET first == CHOOSE i \in bad : \A j \in bad : i <= j
             IN  Error(IF rows[first].readable THEN "schema_validation_failed" ELSE "dependency_unavailable")

\* The first row that is not readable or exceeds the limit decides; rows without
\* a finite sample are dropped.
ParseSeries(rows) ==
    LET bad == {i \in 1..Len(rows) : ~rows[i].readable \/ Samples(rows, i) > SampleLimit}
    IN  IF bad = {} THEN Ok({r \in Series(rows) : r.finite > 0})
        ELSE LET first == CHOOSE i \in bad : \A j \in bad : i <= j
             IN  Error(IF rows[first].readable THEN "schema_validation_failed" ELSE "dependency_unavailable")

AdapterQuery(q, reply) ==
    IF ~InputValid(q) THEN Error("schema_validation_failed")
    ELSE IF ~q.execute THEN Ok({})
    ELSE IF reply.kind # "body" THEN Error(ReplyCode[reply.kind])
    ELSE IF Len(reply.rows) > SeriesLimit THEN Error("schema_validation_failed")
    ELSE ParseSeries(reply.rows)

\* mapValue: the answer is encoded with the adapter's float64 values and decoded
\* into the contract's; one value that does not fit refuses the whole answer.
MapValue(series) ==
    IF \E r \in series : r.wide THEN Error("schema_validation_failed") ELSE Ok(series)

\* validateQueryOutput: a series has points.
OutputValid(series) == \A r \in series : r.finite > 0

ServiceQuery(q, reply) ==
    LET answer == AdapterQuery(q, reply)
        output == IF answer.code = "ok" THEN MapValue(answer.value) ELSE answer
    IN  IF output.code = "ok" /\ ~OutputValid(output.value) THEN Error("schema_validation_failed") ELSE output

\* GetMetricLabels of a registered metric, whose reply lists series: none, too
\* many, or some.
ServiceLabels(reply) ==
    IF reply.kind # "body" THEN Error(ReplyCode[reply.kind])
    ELSE IF Len(reply.rows) = 0 THEN Error("resource_not_found")
    ELSE IF Len(reply.rows) > SeriesLimit THEN Error("schema_validation_failed")
    ELSE Ok(Series(reply.rows))

\* SearchMetrics reads the metadata of one metric after the other.
ServiceSearch(reply) == IF reply.kind = "body" THEN Ok({}) ELSE Error(ReplyCode[reply.kind])

-----------------------------------------------------------------------------
(* The way back to AI Core *)

\* The handler: headers, then the permission, before the input is looked at.
Authorized(identity, answer) ==
    IF ~identity.known THEN Error("unauthenticated")
    ELSE IF ~identity.permitted THEN Error("permission_denied") ELSE answer

PassedCodes == {"invalid_argument", "unauthenticated", "permission_denied", "tool_not_supported",
                "schema_validation_failed", "not_implemented"}

\* mapMCPError of the transport, mapToolResultError of an envelope.
Received(transport, answer) ==
    IF transport = "timeout" THEN Error("tool_timeout")
    ELSE IF transport = "broken" \/ answer.code \notin PassedCodes \cup {"ok"} THEN Error("dependency_unavailable")
    ELSE answer
=============================================================================
