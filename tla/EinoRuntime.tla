------------------------------ MODULE EinoRuntime ------------------------------
(***************************************************************************)
(* One run of the Eino runtime (runtime.go): the model is asked, the tools *)
(* it calls are run one after the other, every call is announced to the    *)
(* event sink before and after, and the result is made of the views that   *)
(* were read, whatever the model says about them. The loop is the library's. *)
(***************************************************************************)
EXTENDS MetricTools, FiniteSets

CONSTANTS
    Plans,         \* plans a task may have been accepted with
    Identities,    \* what the tools know of the user: [known, permitted]
    Ids,           \* ids the model may give its tool calls
    NoId,          \* a call without one
    Views,         \* views the model may ask for
    Replies,       \* replies of Prometheus
    MaxBatch,      \* bound on the tool calls of one message of the model
    MaxIterations, \* messages of the model (6 in the code)
    MaxToolCalls   \* (12 in the code)

ASSUME RunAssumption ==
    /\ Views \subseteq Registry
    /\ NoId \notin Ids
    /\ {MaxBatch, MaxIterations, MaxToolCalls} \subseteq Nat
    /\ \A p \in Plans : Resolved(p)
    /\ Replies \subseteq [kind : DOMAIN ReplyCode \cup {"body"}, rows : Seq(Rows)]

VARIABLES
    plan,       \* request.QueryPlan and request.TimeRange
    identity,
    pc,         \* what the run does next
    asked,      \* messages the model gave
    batch,      \* the tool calls of its message that are left
    ids,        \* sourceCallIDs
    open,       \* openCalls of the sink: started and not completed
    proposals,  \* the views that have a proposal
    reads,      \* (history) reads[v]: how often view v was executed
    result

vars == <<plan, identity, pc, asked, batch, ids, open, proposals, reads, result>>
request == <<plan, identity>>
calls == <<ids, open, proposals, reads>>

Bad == "bad"     \* an argument the tool does not take
ToolCalls == [tool : {"search", "labels"}, id : Ids \cup {NoId}, arg : {"good", Bad}]
                \cup [tool : {"query"}, id : Ids \cup {NoId}, arg : Views \cup {Bad}]

Failures == {"schema_validation_failed", "execution_interrupted", "dependency_unavailable",
             "tool_timeout", "unauthenticated", "permission_denied"}

Init ==
    /\ plan \in Plans
    /\ identity \in Identities
    /\ pc = "model"
    /\ asked = 0
    /\ batch = <<>>
    /\ ids = {} /\ open = {}
    /\ proposals = {}
    /\ reads = [v \in Views |-> 0]
    /\ result = [kind |-> "none", code |-> "ok", views |-> {}]

Ends(kind, code, views) ==
    /\ pc' = "done"
    /\ result' = [kind |-> kind, code |-> code, views |-> views]

Fails(code) == Ends("failed", code, {}) /\ UNCHANGED <<request, asked, batch, calls>>

-----------------------------------------------------------------------------
(* The model *)

CallTools ==
    /\ pc = "model" /\ asked < MaxIterations
    /\ \E n \in 1..MaxBatch : batch' \in [1..n -> ToolCalls]
    /\ asked' = asked + 1
    /\ pc' = "begin"
    /\ UNCHANGED <<request, calls, result>>

\* (mutant) The model is believed.
FinishBelieving(final) ==
    \/ final = "unsupported" /\ Ends("unsupported", "ok", {})
    \/ final # "unsupported" /\ proposals # {} /\ Ends("charts", "ok", proposals)
    \/ final # "unsupported" /\ proposals = {} /\ Ends("failed", "dependency_unavailable", {})

\* finish: what was read counts, not what the model says was.
Finish(final) ==
    \/ proposals # {} /\ Ends("charts", "ok", proposals)
    \/ proposals = {} /\ ids = {} /\ final = "unsupported" /\ Ends("unsupported", "ok", {})
    \/ proposals = {} /\ ~(ids = {} /\ final = "unsupported") /\ Ends("failed", "dependency_unavailable", {})

\* The model ends the loop, with something that finish can decode or not.
FinalAnswer ==
    /\ pc = "model" /\ asked < MaxIterations
    /\ \E final \in {"completed", "unsupported", "undecodable"} : Finish(final)
    /\ asked' = asked + 1
    /\ UNCHANGED <<request, batch, calls>>

\* The model or the last Emit fails, the deadline passes, or the loop is cut.
ModelFails ==
    /\ pc = "model"
    /\ \/ Fails("execution_interrupted")
       \/ asked < MaxIterations /\ Fails("dependency_unavailable")

-----------------------------------------------------------------------------
(* A tool call *)

Call == Head(batch)

\* What comes after a call.
Following == IF Len(batch) > 1 THEN "begin" ELSE "model"

\* begin: the id, the limit, then tool.started.
Begin ==
    /\ pc = "begin"
    /\ IF Call.id = NoId \/ Call.id \in ids THEN Fails("schema_validation_failed")
       ELSE IF Cardinality(ids) >= MaxToolCalls THEN Fails("execution_interrupted")
       ELSE /\ ids' = ids \cup {Call.id}
            /\ open' = open \cup {Call.id}
            /\ pc' = "read"
            /\ UNCHANGED <<request, asked, batch, proposals, reads, result>>

\* (mutant) A view may be queried again.
RejectedOnlyBad == Call.arg = Bad

\* invalidTool, and a view that has its proposal.
Rejected == Call.arg = Bad \/ (Call.tool = "query" /\ Call.arg \in proposals)

\* (mutant) A rejected call is answered and never completed.
RejectSilently ==
    /\ pc = "read" /\ Rejected
    /\ pc' = Following
    /\ batch' = Tail(batch)
    /\ UNCHANGED <<request, asked, calls, result>>

\* finishInvalid: the model is told, the call is completed, the run goes on.
Reject ==
    /\ pc = "read" /\ Rejected
    /\ pc' = "complete"
    /\ UNCHANGED <<request, asked, batch, calls, result>>

\* What the gateway may hand back for what the service answers.
Handed(answers) ==
    {Received(t, Authorized(identity, a)) : t \in {"fine", "timeout", "broken"}, a \in answers}

Read ==
    /\ pc = "read" /\ ~Rejected /\ Call.tool # "query"
    /\ \E answer \in Handed({IF Call.tool = "search" THEN ServiceSearch(r) ELSE ServiceLabels(r) : r \in Replies}) :
          \/ answer.code = "ok" /\ pc' = "complete" /\ UNCHANGED <<request, asked, batch, calls, result>>
          \/ answer.code # "ok" /\ Fails(answer.code)

\* (mutant) The proposal is made when the query is validated, and an execution
\* that fails is only told to the model.
ReadViewTold ==
    /\ pc = "read" /\ ~Rejected /\ Call.tool = "query"
    /\ \E validation \in Handed({ServiceQuery(Validation(Call.arg, plan), r) : r \in Replies}) :
       \E execution \in Handed({ServiceQuery(Execution(Call.arg, plan), r) : r \in Replies}) :
          \/ /\ validation.code = "ok"
             /\ proposals' = proposals \cup {Call.arg}
             /\ reads' = IF execution.code = "ok" THEN [reads EXCEPT ![Call.arg] = @ + 1] ELSE reads
             /\ pc' = "complete"
             /\ UNCHANGED <<request, asked, batch, ids, open, result>>
          \/ validation.code # "ok" /\ Fails(validation.code)

\* The plan's parameters are injected; the view is the model's. Either call may fail.
ReadView ==
    /\ pc = "read" /\ ~Rejected /\ Call.tool = "query"
    /\ \E validation \in Handed({ServiceQuery(Validation(Call.arg, plan), r) : r \in Replies}) :
       \E execution \in Handed({ServiceQuery(Execution(Call.arg, plan), r) : r \in Replies}) :
          \/ /\ validation.code = "ok" /\ execution.code = "ok"
             /\ proposals' = proposals \cup {Call.arg}
             /\ reads' = [reads EXCEPT ![Call.arg] = @ + 1]
             /\ pc' = "complete"
             /\ UNCHANGED <<request, asked, batch, ids, open, result>>
          \/ validation.code # "ok" /\ Fails(validation.code)
          \/ validation.code = "ok" /\ execution.code # "ok" /\ Fails(execution.code)

\* tool.completed, and the next call of the message or the next message.
Complete ==
    /\ pc = "complete"
    /\ open' = open \ {Call.id}
    /\ batch' = Tail(batch)
    /\ pc' = Following
    /\ UNCHANGED <<request, asked, ids, proposals, reads, result>>

\* The sink cannot store tool.started or tool.completed.
SinkFails == pc \in {"begin", "complete"} /\ Fails("dependency_unavailable")

Next == CallTools \/ FinalAnswer \/ ModelFails \/ Begin \/ Reject \/ Read \/ ReadView \/ Complete \/ SinkFails

Spec == Init /\ [][Next]_vars

-----------------------------------------------------------------------------
(* Properties *)

\* The variables have their types.
TypeOK ==
    /\ plan \in Plans /\ identity \in Identities
    /\ pc \in {"model", "begin", "read", "complete", "done"}
    /\ asked \in 0..MaxIterations
    /\ batch \in Seq(ToolCalls)
    /\ pc \in {"begin", "read", "complete"} => batch # <<>>
    /\ ids \subseteq Ids /\ open \subseteq ids
    /\ proposals \subseteq Views
    /\ reads \in [Views -> Nat]
    /\ result \in [kind : {"none", "failed", "unsupported", "charts"}, code : Failures \cup {"ok"},
                   views : SUBSET Views]

\* A run that succeeds leaves no tool call open: only a failed run gives the
\* workflow calls to close, and a completed task has none left.
SuccessIsClosed == result.kind \in {"charts", "unsupported"} => open = {}

\* A result tells what was done: its charts are exactly the views that were
\* executed, each once, whatever the model claims and however often it asks, and
\* "unsupported" is only said by a run that called no tool at all.
ResultIsBacked ==
    /\ result.kind = "charts" =>
          /\ result.views # {}
          /\ result.views = {v \in Views : reads[v] = 1}
          /\ \A v \in Views : reads[v] <= 1
    /\ result.kind = "unsupported" => ids = {}

\* With a good reply at hand, within the limits and with samples the contract
\* holds, no step of the way refuses the plan: its validation and its execution
\* pass service, adapter, conversion and output check, even when some series has
\* no finite sample.
Good(reply) ==
    /\ reply.kind = "body" /\ Len(reply.rows) <= SeriesLimit
    /\ \A i \in 1..Len(reply.rows) : reply.rows[i].readable /\ ~reply.rows[i].wide
    /\ Samples(reply.rows, Len(reply.rows)) <= SampleLimit
GoodRepliesSucceed ==
    pc = "read" /\ ~Rejected /\ Call.tool = "query" =>
        \A r \in Replies : Good(r) =>
            /\ ServiceQuery(Validation(Call.arg, plan), r).code = "ok"
            /\ ServiceQuery(Execution(Call.arg, plan), r).code = "ok"
=============================================================================
