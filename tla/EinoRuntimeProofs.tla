--------------------------- MODULE EinoRuntimeProofs ---------------------------
(***************************************************************************)
(* Proofs about EinoRuntime, for any plans, identities, ids, views,        *)
(* replies and limits: the types, that what a run gives to the workflow is *)
(* closed and backed by what was executed, and that a good reply is not    *)
(* refused on its way.                                                     *)
(***************************************************************************)
EXTENDS EinoRuntime, SequenceTheorems, NaturalsInduction, WellFoundedInduction, TLAPS

-----------------------------------------------------------------------------
(* Codes *)

ServiceCodes == {"ok", "tool_timeout", "adapter_not_configured", "dependency_unavailable",
                 "schema_validation_failed", "resource_not_found"}

\* Whatever Prometheus replies, the three tools answer with one of six codes.
LEMMA ServiceCode ==
    ASSUME NEW r \in Replies, NEW q
    PROVE  {ServiceQuery(q, r).code, ServiceLabels(r).code, ServiceSearch(r).code} \subseteq ServiceCodes
<1>1. r.kind \in {"timeout", "unauthorized", "status", "oversized", "malformed"} \cup {"body"}
    BY RunAssumption DEF RunAssumption, ReplyCode
<1>2. r.kind # "body" => ReplyCode[r.kind] \in ServiceCodes
    BY <1>1 DEF ReplyCode, ServiceCodes
<1>3. ServiceLabels(r).code \in ServiceCodes /\ ServiceSearch(r).code \in ServiceCodes
    BY <1>2 DEF ServiceLabels, ServiceSearch, Ok, Error, ServiceCodes
<1>4. ASSUME NEW rows PROVE ParseSeries(rows).code \in ServiceCodes
    BY DEF ParseSeries, Ok, Error, ServiceCodes
<1>5. AdapterQuery(q, r).code \in ServiceCodes
    BY <1>2, <1>4 DEF AdapterQuery, Ok, Error, ServiceCodes
<1>6. ServiceQuery(q, r).code \in ServiceCodes
    BY <1>5 DEF ServiceQuery, MapValue, Ok, Error, ServiceCodes
<1> QED BY <1>3, <1>6

\* What the gateway hands to the runtime is a success or a failure it knows.
LEMMA HandedCode ==
    ASSUME NEW answers, \A a \in answers : a.code \in ServiceCodes, NEW h \in Handed(answers)
    PROVE  h.code \in Failures \cup {"ok"}
<1>1. PICK t \in {"fine", "timeout", "broken"}, a \in answers : h = Received(t, Authorized(identity, a))
    BY DEF Handed
<1>2. Authorized(identity, a).code \in ServiceCodes \cup {"unauthenticated", "permission_denied"}
    BY DEF Authorized, Error, ServiceCodes
<1> QED BY <1>1, <1>2 DEF Received, Error, PassedCodes, Failures, ServiceCodes

-----------------------------------------------------------------------------
(* The inductive invariant *)

\* Exactly the call that is read or completed is open, and the views that have
\* a proposal are those that were executed once.
OpenOK ==
    /\ pc \in {"model", "begin"} => open = {}
    /\ pc \in {"read", "complete"} => open = {Call.id}
    /\ pc # "done" => result.kind = "none"
ReadsOK == \A v \in Views : reads[v] = IF v \in proposals THEN 1 ELSE 0
RunInv == TypeOK /\ OpenOK /\ ReadsOK /\ SuccessIsClosed /\ ResultIsBacked

LEMMA InitInv == Init => RunInv
<1> SUFFICES ASSUME Init PROVE RunInv
    OBVIOUS
<1>1. TypeOK
    BY RunAssumption DEF Init, TypeOK, RunAssumption
<1> QED BY <1>1 DEF Init, RunInv, OpenOK, ReadsOK, SuccessIsClosed, ResultIsBacked

\* The call that is next, and what is left after it.
LEMMA NextCall ==
    ASSUME TypeOK, batch # <<>>
    PROVE  /\ Call \in ToolCalls
           /\ Tail(batch) \in Seq(ToolCalls)
           /\ Following \in {"begin", "model"}
           /\ Following = "begin" => Tail(batch) # <<>>
<1>1. batch \in Seq(ToolCalls)
    BY DEF TypeOK
<1>2. Tail(batch) \in Seq(ToolCalls) /\ Len(Tail(batch)) = Len(batch) - 1 /\ Len(batch) \in Nat
    BY <1>1
<1>3. Following = "begin" => Len(Tail(batch)) # 0
    BY <1>2 DEF Following
<1>4. Tail(batch) = <<>> => Len(Tail(batch)) = 0
    BY <1>2, EmptySeq
<1> QED BY <1>1, <1>2, <1>3, <1>4 DEF Call, Following

\* A run that fails keeps everything but what it says.
LEMMA FailsInv ==
    ASSUME RunInv, pc # "done", NEW code \in Failures, Fails(code)
    PROVE  RunInv'
<1>1. /\ pc' = "done" /\ result' = [kind |-> "failed", code |-> code, views |-> {}]
      /\ UNCHANGED request /\ UNCHANGED asked /\ UNCHANGED batch /\ UNCHANGED calls
    BY DEF Fails, Ends
<1>2. TypeOK'
    BY <1>1 DEF RunInv, TypeOK, request, calls
<1>3. OpenOK' /\ ReadsOK'
    BY <1>1 DEF RunInv, OpenOK, ReadsOK, calls
<1> QED BY <1>1, <1>2, <1>3 DEF RunInv, SuccessIsClosed, ResultIsBacked

LEMMA StepInv == RunInv /\ [Next]_vars => RunInv'
<1> SUFFICES ASSUME RunInv, [Next]_vars PROVE RunInv'
    OBVIOUS
<1> USE DEF RunInv
<1>1. CASE CallTools
    <2>1. PICK n \in 1..MaxBatch : batch' \in [1..n -> ToolCalls]
        BY <1>1 DEF CallTools
    <2>2. n \in Nat /\ n > 0
        BY RunAssumption DEF RunAssumption
    <2>3. batch' \in Seq(ToolCalls) /\ batch' # <<>>
        <3>1. batch' \in Seq(ToolCalls)
            BY <2>1, <2>2
        <3>2. Len(batch') = n
            BY <2>1, <2>2
        <3> QED BY <3>1, <3>2, <2>2
    <2>4. /\ pc = "model" /\ pc' = "begin" /\ asked' = asked + 1 /\ asked < MaxIterations
          /\ UNCHANGED request /\ UNCHANGED calls /\ UNCHANGED result
        BY <1>1 DEF CallTools
    <2>5. TypeOK'
        BY <2>3, <2>4, RunAssumption DEF TypeOK, request, calls, RunAssumption
    <2> QED BY <2>4, <2>5 DEF OpenOK, ReadsOK, SuccessIsClosed, ResultIsBacked, calls
<1>2. CASE FinalAnswer
    <2>1. /\ pc = "model" /\ asked' = asked + 1 /\ asked < MaxIterations
          /\ UNCHANGED request /\ UNCHANGED batch /\ UNCHANGED calls
          /\ pc' = "done"
        BY <1>2 DEF FinalAnswer, Finish, Ends
    <2>2. \/ result' = [kind |-> "charts", code |-> "ok", views |-> proposals] /\ proposals # {}
          \/ result' = [kind |-> "unsupported", code |-> "ok", views |-> {}] /\ ids = {}
          \/ result' = [kind |-> "failed", code |-> "dependency_unavailable", views |-> {}]
        BY <1>2 DEF FinalAnswer, Finish, Ends
    <2>3. TypeOK'
        BY <2>1, <2>2, RunAssumption DEF TypeOK, request, calls, Failures, RunAssumption
    <2>4. proposals = {v \in Views : reads[v] = 1} /\ \A v \in Views : reads[v] <= 1
        BY DEF ReadsOK, TypeOK
    <2>5. OpenOK' /\ ReadsOK'
        BY <2>1 DEF OpenOK, ReadsOK, calls
    <2>6. open' = {} /\ UNCHANGED <<ids, proposals, reads>>
        BY <2>1 DEF OpenOK, calls
    <2> QED BY <2>2, <2>3, <2>4, <2>5, <2>6 DEF SuccessIsClosed, ResultIsBacked
<1>3. CASE ModelFails
    BY <1>3, FailsInv DEF ModelFails, Failures
<1>4. CASE Begin
    <2>1. batch # <<>> /\ pc = "begin"
        BY <1>4 DEF Begin, TypeOK
    <2>2. CASE Fails("schema_validation_failed") \/ Fails("execution_interrupted")
        BY <2>1, <2>2, FailsInv DEF Failures
    <2>3. CASE /\ ~(Call.id = NoId \/ Call.id \in ids)
               /\ ids' = ids \cup {Call.id} /\ open' = open \cup {Call.id} /\ pc' = "read"
               /\ UNCHANGED <<request, asked, batch, proposals, reads, result>>
        <3>1. Call.id \in Ids
            BY <2>1, <2>3, NextCall DEF ToolCalls
        <3>2. TypeOK'
            BY <2>1, <2>3, <3>1 DEF TypeOK, request
        <3>3. OpenOK'
            BY <2>1, <2>3 DEF OpenOK, Call
        <3>4. ReadsOK' /\ SuccessIsClosed' /\ ResultIsBacked'
            BY <2>1, <2>3 DEF OpenOK, ReadsOK, SuccessIsClosed, ResultIsBacked
        <3> QED BY <3>2, <3>3, <3>4
    <2> QED BY <1>4, <2>2, <2>3 DEF Begin
<1>5. CASE Reject
    <2>1. pc = "read" /\ pc' = "complete" /\ UNCHANGED <<request, asked, batch, calls, result>>
        BY <1>5 DEF Reject
    <2>2. TypeOK'
        BY <2>1 DEF TypeOK, request, calls
    <2> QED BY <2>1, <2>2 DEF OpenOK, ReadsOK, SuccessIsClosed, ResultIsBacked, calls, Call
<1>6. CASE Read
    <2>1. PICK h \in Handed({IF Call.tool = "search" THEN ServiceSearch(r) ELSE ServiceLabels(r) : r \in Replies}) :
            \/ h.code = "ok" /\ pc' = "complete" /\ UNCHANGED <<request, asked, batch, calls, result>>
            \/ h.code # "ok" /\ Fails(h.code)
        BY <1>6 DEF Read
    <2>2. h.code \in Failures \cup {"ok"}
        BY ServiceCode, HandedCode
    <2>3. pc = "read"
        BY <1>6 DEF Read
    <2>4. CASE h.code # "ok" /\ Fails(h.code)
        BY <2>2, <2>3, <2>4, FailsInv
    <2>5. CASE pc' = "complete" /\ UNCHANGED <<request, asked, batch, calls, result>>
        <3>1. TypeOK'
            BY <2>3, <2>5 DEF TypeOK, request, calls
        <3> QED BY <2>3, <2>5, <3>1 DEF OpenOK, ReadsOK, SuccessIsClosed, ResultIsBacked, calls, Call
    <2> QED BY <2>1, <2>4, <2>5
<1>7. CASE ReadView
    <2>1. PICK v \in Handed({ServiceQuery(Validation(Call.arg, plan), r) : r \in Replies}),
               x \in Handed({ServiceQuery(Execution(Call.arg, plan), r) : r \in Replies}) :
            \/ /\ v.code = "ok" /\ x.code = "ok"
               /\ proposals' = proposals \cup {Call.arg}
               /\ reads' = [reads EXCEPT ![Call.arg] = @ + 1]
               /\ pc' = "complete"
               /\ UNCHANGED <<request, asked, batch, ids, open, result>>
            \/ v.code # "ok" /\ Fails(v.code)
            \/ v.code = "ok" /\ x.code # "ok" /\ Fails(x.code)
        BY <1>7 DEF ReadView
    <2>2. v.code \in Failures \cup {"ok"}
        BY ServiceCode, HandedCode
    <2>3. x.code \in Failures \cup {"ok"}
        BY ServiceCode, HandedCode
    <2>4. pc = "read" /\ ~Rejected /\ Call.tool = "query" /\ batch # <<>>
        BY <1>7 DEF ReadView, TypeOK
    <2>5. CASE Fails(v.code) /\ v.code # "ok"
        BY <2>2, <2>4, <2>5, FailsInv
    <2>6. CASE Fails(x.code) /\ x.code # "ok"
        BY <2>3, <2>4, <2>6, FailsInv
    <2>7. CASE /\ proposals' = proposals \cup {Call.arg}
               /\ reads' = [reads EXCEPT ![Call.arg] = @ + 1]
               /\ pc' = "complete"
               /\ UNCHANGED <<request, asked, batch, ids, open, result>>
        <3>1. Call.arg \in Views /\ Call.arg \notin proposals
            BY <2>4, NextCall DEF ToolCalls, Rejected
        <3>2. TypeOK'
            BY <2>4, <2>7, <3>1 DEF TypeOK, request
        <3>3. ReadsOK'
            BY <2>7, <3>1 DEF ReadsOK, TypeOK
        <3> QED BY <2>4, <2>7, <3>2, <3>3 DEF OpenOK, SuccessIsClosed, ResultIsBacked, Call
    <2> QED BY <2>1, <2>5, <2>6, <2>7
<1>8. CASE Complete
    <2>1. /\ pc = "complete" /\ batch # <<>> /\ open' = open \ {Call.id}
          /\ batch' = Tail(batch) /\ pc' = Following
          /\ UNCHANGED <<request, asked, ids, proposals, reads, result>>
        BY <1>8 DEF Complete, TypeOK
    <2>2. TypeOK'
        BY <2>1, NextCall DEF TypeOK, request
    <2>3. OpenOK'
        BY <2>1, NextCall DEF OpenOK
    <2> QED BY <2>1, <2>2, <2>3 DEF OpenOK, ReadsOK, SuccessIsClosed, ResultIsBacked
<1>9. CASE SinkFails
    BY <1>9, FailsInv DEF SinkFails, Failures
<1>10. CASE UNCHANGED vars
    BY <1>10 DEF vars, TypeOK, OpenOK, ReadsOK, SuccessIsClosed, ResultIsBacked, Call
<1> QED BY <1>1, <1>2, <1>3, <1>4, <1>5, <1>6, <1>7, <1>8, <1>9, <1>10 DEF Next

LEMMA Invariance == Spec => []RunInv
BY InitInv, StepInv, PTL DEF Spec

\* The variables of a run keep their types, and whatever the tools answer, the
\* run ends with a code the workflow knows.
THEOREM TypeCorrect == Spec => []TypeOK
<1>1. RunInv => TypeOK
    BY DEF RunInv
<1> QED BY <1>1, Invariance, PTL

\* A run that succeeds leaves no tool call open, however many calls the model
\* makes, rejects and repeats (finishInvalid, complete).
THEOREM SuccessClosesCalls == Spec => []SuccessIsClosed
<1>1. RunInv => SuccessIsClosed
    BY DEF RunInv
<1> QED BY <1>1, Invariance, PTL

\* A result names the views that were executed, each once, and "unsupported"
\* comes from a run without calls (finish).
THEOREM ResultIsTrue == Spec => []ResultIsBacked
<1>1. RunInv => ResultIsBacked
    BY DEF RunInv
<1> QED BY <1>1, Invariance, PTL

-----------------------------------------------------------------------------
(* Division, and the plans: as in IntentPlanningProofs *)

\* What a quotient is: the n with n * k <= d < (n + 1) * k.
LEMMA Quotient ==
    ASSUME NEW d \in Nat, NEW k \in Nat \ {0}
    PROVE  /\ d \div k \in Nat
           /\ (d \div k) * k <= d /\ d < ((d \div k) + 1) * k
           /\ \A n \in Nat : n * k <= d => n <= d \div k
           /\ \A n \in Nat : d < (n + 1) * k => d \div k <= n
<1>1. d \div k \in Nat /\ (d \div k) * k <= d /\ d < ((d \div k) + 1) * k
    <2>1. d = k * (d \div k) + (d % k) /\ d \div k \in Int /\ d % k \in 0..(k - 1)
        OBVIOUS
    <2>2. PICK q \in Int, r \in 0..(k - 1) : q = d \div k /\ r = d % k /\ d = k * q + r
        BY <2>1
    <2>3. q >= 0
        <3>1. SUFFICES ASSUME q <= -1 PROVE FALSE
            BY <2>2
        <3>2. k * q <= -k
            BY <3>1
        <3> QED BY <2>2, <3>2
    <2> QED BY <2>2, <2>3
<1>2. PICK q \in Nat : q = d \div k
    BY <1>1
<1>3. ASSUME NEW n \in Nat, n * k <= d PROVE n <= q
    <2>1. n * k < (q + 1) * k
        BY <1>1, <1>2, <1>3
    <2>2. SUFFICES ASSUME n >= q + 1 PROVE FALSE
        OBVIOUS
    <2>3. n * k >= (q + 1) * k
        BY <2>2
    <2> QED BY <2>1, <2>3
<1>4. ASSUME NEW n \in Nat, d < (n + 1) * k PROVE q <= n
    <2>1. q * k < (n + 1) * k
        BY <1>1, <1>2, <1>4
    <2>2. SUFFICES ASSUME q >= n + 1 PROVE FALSE
        OBVIOUS
    <2>3. q * k >= (n + 1) * k
        BY <2>2
    <2> QED BY <2>1, <2>3
<1> QED BY <1>1, <1>2, <1>3, <1>4

\* The points of the plan and those the adapter counts, from whole seconds,
\* are as many.
LEMMA SamePoints ==
    ASSUME NEW d \in Nat, NEW s \in Nat \ {0}
    PROVE  Points(d, s) <= TheoreticalPoints(d, s)
<1>1. Second \in Nat \ {0}
    BY ClockAssumption DEF ClockAssumption
<1>2. PICK a \in Nat : a = d \div Second /\ a * Second <= d
    BY <1>1, Quotient
<1>3. PICK p \in Nat : p = a \div s /\ p * s <= a
    BY Quotient
<1>4. s * Second \in Nat \ {0}
    BY <1>1
<1>5. p * (s * Second) <= d
    <2>1. (p * s) * Second <= a * Second
        BY <1>1, <1>3
    <2>2. (p * s) * Second = p * (s * Second)
        BY <1>1
    <2> QED BY <1>1, <1>2, <2>1, <2>2
<1>6. p <= d \div (s * Second) /\ d \div (s * Second) \in Nat
    BY <1>4, <1>5, Quotient
<1> QED BY <1>2, <1>3, <1>6 DEF Points, TheoreticalPoints

\* A plan within the bounds passes the checks of assistant-mcp, for any view
\* that is registered.
LEMMA ResolvedIsExecutable ==
    ASSUME NEW p, Resolved(p), NEW view \in Registry
    PROVE  InputValid(Validation(view, p)) /\ InputValid(Execution(view, p))
<1>1. Second \in Nat \ {0} /\ MinRange \in Nat \ {0} /\ MaxRange \in Nat /\ Minute \in Nat \ {0} /\ Minute <= 6 * Hour
    BY ClockAssumption DEF ClockAssumption, MinRange, MaxRange, Minute, Hour
<1>2. PICK d \in Nat, s \in Nat : d = p.duration /\ s = p.step
    BY <1>1 DEF Resolved, AllowedSteps
<1>3. d > 0 /\ d <= 6 * Hour /\ s \in AllowedSteps /\ TheoreticalPoints(d, s) <= 1000
    BY <1>1, <1>2 DEF Resolved, MaxRange, MaxExplicitPoints
<1>4. Points(d, s) <= 1000
    <2>1. s \in Nat \ {0}
        BY <1>3 DEF AllowedSteps
    <2>2. Points(d, s) <= TheoreticalPoints(d, s)
        BY <2>1, SamePoints
    <2>3. Points(d, s) \in Int /\ TheoreticalPoints(d, s) \in Int
        <3>1. s * Second \in Nat \ {0}
            BY <1>1, <2>1
        <3>2. d \div Second \in Nat /\ d \div (s * Second) \in Nat
            BY <1>1, <3>1, Quotient
        <3>3. (d \div Second) \div s \in Nat
            BY <2>1, <3>2, Quotient
        <3> QED BY <3>2, <3>3 DEF Points, TheoreticalPoints
    <2> QED BY <1>3, <2>2, <2>3
<1>5. Points(Minute, 60) <= 1000
    <2>1. Minute \div Second <= 60 /\ Minute \div Second \in Nat
        BY <1>1, Quotient DEF Minute
    <2>2. PICK a \in Nat : a = Minute \div Second /\ a <= 60
        BY <2>1
    <2>3. a \div 60 <= 1 /\ a \div 60 \in Nat
        BY <2>2
    <2> QED BY <2>2, <2>3 DEF Points
<1>6. p.window \in AllowedCPUWindows
    BY DEF Resolved, CPUWindow, AllowedCPUWindows
<1>7. WindowValid(view, WindowFor(view, p))
    BY <1>6 DEF WindowValid, WindowFor, Given, Absent
<1>8. InputValid(Validation(view, p))
    BY <1>1, <1>5, <1>7 DEF InputValid, Validation, AllowedSteps
<1>9. InputValid(Execution(view, p))
    BY <1>2, <1>3, <1>4, <1>7 DEF InputValid, Execution
<1> QED BY <1>8, <1>9

-----------------------------------------------------------------------------
(* Samples: what the recursive definition computes *)

\* A set of numbers that has 0 and the next of each it has, has all.
LEMMA Induction ==
    ASSUME NEW P \in SUBSET Nat, 0 \in P, \A m \in P : m + 1 \in P
    PROVE  Nat \subseteq P
<1> DEFINE R == OpToRel(<, Nat)
<1>1. IsWellFoundedOn(R, Nat)
    BY NatLessThanWellFounded
<1>2. \A m, n \in Nat : m < n => <<m, n>> \in R
    BY DEF OpToRel
<1> HIDE DEF R
<1>3. SUFFICES ASSUME Nat \ P # {} PROVE FALSE
    OBVIOUS
<1>4. PICK n \in Nat \ P : \A m \in Nat \ P : <<m, n>> \notin R
    <2>1. Nat \ P \subseteq Nat
        OBVIOUS
    <2> QED BY <1>1, <1>3, <2>1, WFMin
<1>5. n # 0 /\ n - 1 \in Nat /\ n - 1 < n
    BY <1>4
<1>6. n - 1 \in P
    BY <1>2, <1>4, <1>5
<1>7. (n - 1) + 1 \in P
    BY <1>6
<1> QED BY <1>4, <1>7

LEMMA RowCounts ==
    ASSUME NEW rows \in Seq(Rows), NEW i \in 1..Len(rows)
    PROVE  rows[i].finite \in Nat /\ rows[i].other \in Nat
<1>1. rows[i] \in Rows
    OBVIOUS
<1> QED BY <1>1 DEF Rows

\* A function that adds the samples up to a row.
Adds(rows, n, f) ==
    /\ f \in [0..n -> Nat] /\ f[0] = 0
    /\ \A i \in 1..n : f[i] = f[i - 1] + rows[i].finite + rows[i].other

LEMMA SumsExist ==
    ASSUME NEW rows \in Seq(Rows), NEW n \in 0..Len(rows)
    PROVE  \E f : Adds(rows, n, f)
<1> DEFINE P == {m \in Nat : m <= Len(rows) => \E f : Adds(rows, m, f)}
<1>0. Len(rows) \in Nat
    OBVIOUS
<1>1. 0 \in P
    <2>1. Adds(rows, 0, [i \in 0..0 |-> 0])
        BY DEF Adds
    <2> QED BY <2>1
<1>2. ASSUME NEW m \in P PROVE m + 1 \in P
    <2>1. SUFFICES ASSUME m + 1 <= Len(rows) PROVE \E f : Adds(rows, m + 1, f)
        OBVIOUS
    <2>2. m \in Nat
        OBVIOUS
    <2>3. PICK f : Adds(rows, m, f)
        BY <1>0, <2>1, <2>2
    <2>4. rows[m + 1].finite \in Nat /\ rows[m + 1].other \in Nat
        <3>1. m + 1 \in 1..Len(rows)
            BY <1>0, <2>1, <2>2
        <3> QED BY <3>1, RowCounts
    <2> DEFINE g == [i \in 0..(m + 1) |-> IF i = m + 1 THEN f[m] + rows[m + 1].finite + rows[m + 1].other
                                          ELSE f[i]]
    <2>5. f[m] \in Nat /\ f[0] = 0 /\ \A i \in 0..m : f[i] \in Nat
        BY <2>2, <2>3 DEF Adds
    <2>6. g \in [0..(m + 1) -> Nat] /\ g[0] = 0
        <3>1. PICK c \in Nat : c = f[m] + rows[m + 1].finite + rows[m + 1].other
            BY <2>4, <2>5
        <3>2. g = [i \in 0..(m + 1) |-> IF i = m + 1 THEN c ELSE f[i]]
            BY <3>1
        <3>3. ASSUME NEW i \in 0..(m + 1) PROVE (IF i = m + 1 THEN c ELSE f[i]) \in Nat
            BY <2>2, <2>5
        <3>4. 0 \in 0..(m + 1) /\ 0 # m + 1
            BY <2>2
        <3> HIDE DEF g
        <3> QED BY <2>5, <3>2, <3>3, <3>4
    <2>7. ASSUME NEW i \in 1..(m + 1) PROVE g[i] = g[i - 1] + rows[i].finite + rows[i].other
        <3>1. CASE i = m + 1
            BY <2>2, <3>1
        <3>2. CASE i \in 1..m
            <4>1. f[i] = f[i - 1] + rows[i].finite + rows[i].other
                BY <2>3, <3>2 DEF Adds
            <4>2. g[i] = f[i] /\ g[i - 1] = f[i - 1]
                BY <2>2, <3>2
            <4> QED BY <4>1, <4>2
        <3> QED BY <2>2, <3>1, <3>2
    <2> HIDE DEF g
    <2>8. Adds(rows, m + 1, g)
        BY <2>6, <2>7 DEF Adds
    <2> QED BY <2>8
<1> HIDE DEF P
<1>3. P \subseteq Nat
    BY DEF P
<1>4. n \in P
    BY <1>0, <1>1, <1>2, <1>3, Induction
<1> QED BY <1>0, <1>4 DEF P

\* There is one such function only.
LEMMA SumsAgree ==
    ASSUME NEW rows \in Seq(Rows), NEW n \in Nat, NEW m \in 0..n, NEW f, NEW g,
           Adds(rows, n, f), Adds(rows, m, g)
    PROVE  f[m] = g[m]
<1> DEFINE P == {k \in Nat : k <= m => f[k] = g[k]}
<1>1. 0 \in P
    BY DEF Adds
<1>2. ASSUME NEW k \in P PROVE k + 1 \in P
    <2>1. SUFFICES ASSUME k + 1 <= m PROVE f[k + 1] = g[k + 1]
        OBVIOUS
    <2>2. k \in Nat /\ f[k] = g[k] /\ k + 1 \in 1..m /\ k + 1 \in 1..n /\ (k + 1) - 1 = k
        BY <2>1
    <2>3. f[k + 1] = f[k] + rows[k + 1].finite + rows[k + 1].other
        BY <2>2 DEF Adds
    <2>4. g[k + 1] = g[k] + rows[k + 1].finite + rows[k + 1].other
        BY <2>2 DEF Adds
    <2> QED BY <2>2, <2>3, <2>4
<1> HIDE DEF P
<1>3. P \subseteq Nat
    BY DEF P
<1>4. m \in P
    BY <1>1, <1>2, <1>3, Induction
<1> QED BY <1>4 DEF P

\* Sums only grow.
LEMMA SumsGrow ==
    ASSUME NEW rows \in Seq(Rows), NEW n \in 0..Len(rows), NEW f, Adds(rows, n, f), NEW m \in 0..n
    PROVE  f[m] <= f[n]
<1> DEFINE P == {k \in Nat : m <= k /\ k <= n => f[m] <= f[k]}
<1>0. \A k \in 0..n : f[k] \in Nat
    BY DEF Adds
<1>1. 0 \in P
    BY <1>0
<1>2. ASSUME NEW k \in P PROVE k + 1 \in P
    <2>1. SUFFICES ASSUME m <= k + 1, k + 1 <= n PROVE f[m] <= f[k + 1]
        OBVIOUS
    <2>2. k \in Nat /\ k + 1 \in 1..n /\ k \in 0..n /\ (k + 1) - 1 = k
        BY <2>1
    <2>3. CASE m = k + 1
        BY <1>0, <2>2, <2>3
    <2>4. CASE m <= k
        <3>1. f[m] <= f[k]
            BY <2>2, <2>4
        <3>2. f[k + 1] = f[k] + rows[k + 1].finite + rows[k + 1].other
            BY <2>2 DEF Adds
        <3>3. rows[k + 1].finite \in Nat /\ rows[k + 1].other \in Nat
            <4>1. k + 1 \in 1..Len(rows)
                BY <2>2
            <4> QED BY <4>1, RowCounts
        <3>4. f[m] \in Nat /\ f[k] \in Nat
            BY <1>0, <2>2
        <3>5. \A a, b, c, d \in Nat : a <= b => a <= b + c + d
            OBVIOUS
        <3> QED BY <3>1, <3>2, <3>3, <3>4, <3>5, Zenon
    <2> QED BY <2>1, <2>2, <2>3, <2>4
<1> HIDE DEF P
<1>3. P \subseteq Nat
    BY DEF P
<1>4. n \in P
    BY <1>1, <1>2, <1>3, Induction
<1> QED BY <1>4 DEF P

\* Samples is the sum, so the rows up to one have no more samples than all.
LEMMA SamplesAdd ==
    ASSUME NEW rows \in Seq(Rows), NEW n \in 0..Len(rows)
    PROVE  \E f : Adds(rows, n, f) /\ Samples(rows, n) = f[n]
<1> DEFINE IsSum(f) == f = [i \in 0..n |-> IF i = 0 THEN 0 ELSE f[i - 1] + rows[i].finite + rows[i].other]
           sum == CHOOSE f : IsSum(f)
<1>1. PICK f : Adds(rows, n, f)
    BY SumsExist
<1>2. IsSum(f)
    BY <1>1 DEF Adds
<1>3. IsSum(sum)
    BY <1>2
<1>4. Samples(rows, n) = sum[n]
    BY DEF Samples
<1> HIDE DEF sum
<1>5. sum \in [0..n -> Nat] /\ sum[0] = 0
    <2>1. DOMAIN sum = 0..n /\ sum[0] = 0
        BY <1>3
    <2> DEFINE P == {k \in Nat : k <= n => sum[k] \in Nat}
    <2>2. 0 \in P
        BY <2>1
    <2>3. ASSUME NEW k \in P PROVE k + 1 \in P
        <3>1. SUFFICES ASSUME k + 1 <= n PROVE sum[k + 1] \in Nat
            OBVIOUS
        <3>2. k \in Nat /\ k + 1 \in 1..n /\ k + 1 # 0 /\ (k + 1) - 1 = k /\ k + 1 \in 1..Len(rows)
            BY <3>1
        <3>3. sum[k + 1] = sum[k] + rows[k + 1].finite + rows[k + 1].other
            BY <1>3, <3>2
        <3>4. rows[k + 1].finite \in Nat /\ rows[k + 1].other \in Nat
            BY <3>2, RowCounts
        <3>5. sum[k] \in Nat
            BY <3>2
        <3> QED BY <3>3, <3>4, <3>5
    <2> HIDE DEF P
    <2>4. P \subseteq Nat
        BY DEF P
    <2>5. Nat \subseteq P
        BY <2>2, <2>3, <2>4, Induction
    <2>6. \A k \in 0..n : sum[k] \in Nat
        BY <2>5 DEF P
    <2>7. sum = [k \in 0..n |-> sum[k]]
        BY <1>3
    <2> QED BY <2>1, <2>6, <2>7
<1>6. \A i \in 1..n : sum[i] = sum[i - 1] + rows[i].finite + rows[i].other
    BY <1>3
<1>7. Adds(rows, n, sum)
    BY <1>5, <1>6 DEF Adds
<1> QED BY <1>4, <1>7

LEMMA SamplesGrow ==
    ASSUME NEW rows \in Seq(Rows), NEW n \in 0..Len(rows), NEW m \in 0..n
    PROVE  Samples(rows, m) <= Samples(rows, n) /\ Samples(rows, n) \in Nat /\ Samples(rows, m) \in Nat
<1>1. PICK f : Adds(rows, n, f) /\ Samples(rows, n) = f[n]
    BY SamplesAdd
<1>2. PICK g : Adds(rows, m, g) /\ Samples(rows, m) = g[m]
    BY SamplesAdd
<1>3. f[m] = g[m]
    BY <1>1, <1>2, SumsAgree
<1>4. f[m] <= f[n]
    BY <1>1, SumsGrow
<1>5. f[n] \in Nat /\ f[m] \in Nat
    BY <1>1 DEF Adds
<1> QED BY <1>1, <1>2, <1>3, <1>4, <1>5

-----------------------------------------------------------------------------
(* The way of a good reply *)

\* parseSeries refuses no row of it, and what it keeps passes mapValue and
\* validateQueryOutput.
LEMMA GoodParses ==
    ASSUME NEW r \in Replies, Good(r)
    PROVE  \E series : /\ ParseSeries(r.rows) = Ok(series)
                       /\ MapValue(series) = Ok(series) /\ OutputValid(series)
<1>1. r.rows \in Seq(Rows)
    BY RunAssumption DEF RunAssumption
<1>2. PICK rows \in Seq(Rows) : rows = r.rows
    BY <1>1
<1>3. Len(rows) \in Nat /\ SampleLimit \in Nat
    BY LimitsAssumption DEF LimitsAssumption
<1>4. \A i \in 1..Len(rows) : rows[i].readable /\ ~(Samples(rows, i) > SampleLimit)
    <2>1. TAKE i \in 1..Len(rows)
    <2>2. /\ Samples(rows, i) <= Samples(rows, Len(rows))
          /\ Samples(rows, Len(rows)) \in Nat /\ Samples(rows, i) \in Nat
        BY <1>3, SamplesGrow
    <2>3. Samples(rows, Len(rows)) <= SampleLimit /\ rows[i].readable
        BY <1>2 DEF Good
    <2> QED BY <1>3, <2>2, <2>3
<1>5. {i \in 1..Len(rows) : ~rows[i].readable \/ Samples(rows, i) > SampleLimit} = {}
    BY <1>4
<1>6. ParseSeries(rows) = Ok({x \in Series(rows) : x.finite > 0})
    BY <1>5 DEF ParseSeries
<1>7. PICK series : series = {x \in Series(rows) : x.finite > 0}
    OBVIOUS
<1>8. \A x \in series : ~x.wide
    <2>1. \A x \in series : \E i \in 1..Len(rows) : x = rows[i]
        BY <1>7 DEF Series
    <2> QED BY <1>2, <2>1 DEF Good
<1>9. MapValue(series) = Ok(series)
    BY <1>8 DEF MapValue
<1>10. OutputValid(series)
    BY <1>7 DEF OutputValid
<1> QED BY <1>2, <1>6, <1>7, <1>9, <1>10

\* A query that may be asked is answered, in either mode.
LEMMA GoodAnswer ==
    ASSUME NEW q, InputValid(q), NEW r \in Replies, Good(r)
    PROVE  ServiceQuery(q, r).code = "ok"
<1>1. CASE ~q.execute
    <2>1. AdapterQuery(q, r) = Ok({})
        BY <1>1 DEF AdapterQuery
    <2> QED BY <2>1 DEF ServiceQuery, MapValue, Ok, OutputValid
<1>2. CASE q.execute
    <2>1. r.kind = "body" /\ r.rows \in Seq(Rows) /\ Len(r.rows) <= SeriesLimit
        BY RunAssumption DEF RunAssumption, Good
    <2>2. ~(Len(r.rows) > SeriesLimit)
        BY <2>1, LimitsAssumption DEF LimitsAssumption
    <2>3. AdapterQuery(q, r) = ParseSeries(r.rows)
        BY <1>2, <2>1, <2>2 DEF AdapterQuery
    <2>4. PICK series : /\ ParseSeries(r.rows) = Ok(series)
                        /\ MapValue(series) = Ok(series) /\ OutputValid(series)
        BY GoodParses
    <2>5. Ok(series).code = "ok" /\ Ok(series).value = series
        BY DEF Ok
    <2> QED BY <2>3, <2>4, <2>5 DEF ServiceQuery
<1> QED BY <1>1, <1>2

\* With a good reply at hand, no step of the way refuses the plan of a task: its
\* validation and its execution pass service, registry, adapter, the conversion to
\* the contract's types and the check of the output, however many rows without
\* finite samples there are.
THEOREM GoodRepliesPass == Spec => []GoodRepliesSucceed
<1>1. RunInv => GoodRepliesSucceed
    <2>1. SUFFICES ASSUME RunInv, pc = "read", ~Rejected, Call.tool = "query", NEW r \in Replies, Good(r)
                   PROVE  /\ ServiceQuery(Validation(Call.arg, plan), r).code = "ok"
                          /\ ServiceQuery(Execution(Call.arg, plan), r).code = "ok"
        BY DEF GoodRepliesSucceed
    <2>2. Call \in ToolCalls
        BY <2>1, NextCall DEF RunInv, TypeOK
    <2>3. Call.arg \in Registry
        BY <2>1, <2>2, RunAssumption DEF ToolCalls, Rejected, RunAssumption
    <2>4. Resolved(plan)
        BY <2>1, RunAssumption DEF RunInv, TypeOK, RunAssumption
    <2>5. InputValid(Validation(Call.arg, plan)) /\ InputValid(Execution(Call.arg, plan))
        BY <2>3, <2>4, ResolvedIsExecutable
    <2> QED BY <2>1, <2>5, GoodAnswer
<1> QED BY <1>1, Invariance, PTL
=============================================================================
