---------------------------- MODULE IntentPlanning ----------------------------
(***************************************************************************)
(* How the turns of a session get their plans: CreateTask reads what was   *)
(* planned before, asks the planner (the mock planner's patterns, or the   *)
(* model behind the Eino planner, which gets a second try), resolves what  *)
(* it says against what the API was given, and only then stores the task.  *)
(* Nothing is locked meanwhile: another tab may add turns.                 *)
(***************************************************************************)
EXTENDS MetricTools

CONSTANTS
    Drivers,      \* planners bootstrap may wire: "mock", "eino"
    Requests,     \* what users send: [message, asked, askedStep]
    Answers,      \* what the model may answer: [status, views, range, step]
    OtherTurns,   \* what another tab may have resolved meanwhile
    HistoryItems, \* items of a planning history (6 in the code)
    HistoryRunes, \* characters of its messages (12000 in the code)
    MessageRunes, \* characters of a message (4000 in the code)
    MaxTurns      \* bound on the turns of the session

ASSUME HistoryAssumption ==
    /\ {HistoryItems, HistoryRunes, MessageRunes, MaxTurns} \subseteq Nat
    /\ HistoryItems > 0 /\ MessageRunes <= HistoryRunes

\* An amount of a message: what it is written with, and the number that is meant;
\* and one that the message does not have.
SaidAmounts == [text : Seq(Nat), chinese : BOOLEAN, unit : DOMAIN Unit, meant : Nat]
Nothing == [text |-> <<>>, chinese |-> FALSE, unit |-> "s", meant |-> 0]

\* A message: its views, its length, the amount after "last", those after "every"
\* (in Chinese and in English), an amount of data points, and which amounts stand
\* right before the word for data, in their order.
Messages == [views : Seq(STRING), length : Nat, range : SaidAmounts, every : SaidAmounts,
             point : SaidAmounts, english : SaidAmounts, data : Seq({"range", "point"})]

\* The views of a message are registered ones, each once; durations of the API and of the model are integers; and another tab's messages
\* are no longer than the API allows.
ASSUME InputsAssumption ==
    /\ \A r \in Requests :
          /\ r.asked.duration \in Int /\ r.askedStep \in Parameters
          /\ r.message \in Messages /\ ViewsAccepted(r.message.views)
    /\ \A a \in Answers : a.range.value \in Int
    /\ \A o \in OtherTurns : {o.asked.duration, o.range.value} \subseteq Int /\ o.length \in 1..MessageRunes

VARIABLES
    driver,
    turns,    \* the tasks of the session, in the order of their messages
    request,  \* the one that is being planned, or NoRequest
    attempt   \* answers of the model that were not valid

vars == <<driver, turns, request, attempt>>

NoRequest == [sent |-> FALSE]

Init ==
    /\ driver \in Drivers
    /\ turns = <<>>
    /\ request = NoRequest
    /\ attempt = 0

-----------------------------------------------------------------------------
(* The request *)

\* (mutant) The history is not turned round.
HistoryNewestFirst(all) ==
    LET read[i \in 0..Len(all)] ==
            IF i = 0 THEN [items |-> <<>>, runes |-> 0, full |-> FALSE]
            ELSE LET r == read[i - 1]
                     turn == all[Len(all) + 1 - i]
                 IN  IF r.full \/ Len(r.items) >= HistoryItems \/ r.runes + turn.length > HistoryRunes
                     THEN [r EXCEPT !.full = TRUE]
                     ELSE IF turn.views = <<>> THEN r
                     ELSE [r EXCEPT !.items = Append(@, turn), !.runes = @ + turn.length]
    IN  read[Len(all)].items

\* planningHistory: newest first, turns without views skipped but their length
\* looked at, until an item or a character is too much; then turned round.
PlanningHistory(all) ==
    LET read[i \in 0..Len(all)] ==
            IF i = 0 THEN [items |-> <<>>, runes |-> 0, full |-> FALSE]
            ELSE LET r == read[i - 1]
                     turn == all[Len(all) + 1 - i]
                 IN  IF r.full \/ Len(r.items) >= HistoryItems \/ r.runes + turn.length > HistoryRunes
                     THEN [r EXCEPT !.full = TRUE]
                     ELSE IF turn.views = <<>> THEN r
                     ELSE [r EXCEPT !.items = <<turn>> \o @, !.runes = @ + turn.length]
    IN  read[Len(all)].items

\* parseTimeRange and parseResolution, and the length CreateTask allows.
Acceptable(r) ==
    /\ r.message.length \in 1..MessageRunes
    /\ r.asked.kind # "none" => r.asked.duration > 0
    /\ r.askedStep.given => r.askedStep.value > 0

Ask ==
    /\ ~request.sent /\ Len(turns) < MaxTurns
    /\ \E r \in Requests :
          /\ Acceptable(r)
          /\ request' = [sent |-> TRUE, message |-> r.message, asked |-> r.asked, askedStep |-> r.askedStep,
                         history |-> PlanningHistory(turns), turns |-> Len(turns)]
    /\ attempt' = 0
    /\ UNCHANGED <<driver, turns>>

\* A request of another tab that is planned and stored in between.
OtherTab ==
    /\ request.sent /\ Len(turns) < MaxTurns - 1
    /\ \E o \in OtherTurns :
          /\ Accepted(o.views, o.range, o.step, o.asked, o.askedStep)
          /\ turns' = Append(turns, [plan |-> Plan(o.views, o.range, o.step, o.asked, o.askedStep),
                                     views |-> o.views, length |-> o.length])
    /\ UNCHANGED <<driver, request, attempt>>

Refuse == request' = NoRequest /\ attempt' = 0 /\ UNCHANGED <<driver, turns>>

\* ResolvePlannedQueryPlan, and the transaction that stores the task.
Resolve(views, range, step) ==
    \/ /\ Accepted(views, range, step, request.asked, request.askedStep)
       /\ turns' = Append(turns, [plan |-> Plan(views, range, step, request.asked, request.askedStep),
                                  views |-> views, length |-> request.message.length])
       /\ request' = NoRequest /\ attempt' = 0 /\ UNCHANGED driver
    \/ ~Accepted(views, range, step, request.asked, request.askedStep) /\ Refuse

-----------------------------------------------------------------------------
(* The planners *)

\* The views of the message, else those of the last intent.
MessageViews ==
    LET history == request.history
    IN  IF request.message.views # <<>> \/ history = <<>> THEN request.message.views
        ELSE history[Len(history)].views

\* (mutant) The step patterns take hours as the range patterns do.
StepUnitsAll == DOMAIN Unit

\* The step patterns take seconds and minutes only.
StepUnits == {"s", "m"}

DataAmounts(m) == [i \in 1..Len(m.data) |-> IF m.data[i] = "range" THEN m.range ELSE m.point]

\* (mutant) The pattern of data points is tried before that of "every".
StepPhrasesDataFirst(m) == DataAmounts(m) \o <<m.every, m.english>>

\* What the step patterns look at, one pattern after the other: the amount after
\* "every", those right before "data" (a range may be one), that in English.
StepPhrases(m) == <<m.every>> \o DataAmounts(m) \o <<m.english>>

\* The first that matches decides, whether its number is positive or not.
StepSaid(m) ==
    LET said == StepPhrases(m)
        matching == {i \in 1..Len(said) : said[i].text # <<>> /\ said[i].unit \in StepUnits}
    IN  IF matching = {} THEN Nothing ELSE said[CHOOSE i \in matching : \A j \in matching : i <= j]

MessageStep(m) ==
    LET said == SaidDuration(StepSaid(m))
    IN  IF said.given THEN Given(InSeconds(said.value)) ELSE Absent

PlanMock ==
    /\ driver = "mock" /\ request.sent
    /\ IF MessageViews = <<>> THEN Resolve(<<>>, Absent, Absent)
       ELSE Resolve(MessageViews, SaidDuration(request.message.range), MessageStep(request.message))

\* decodeIntentPlan and validateIntentPlan.
ValidAnswer(answer) ==
    \/ answer.status = "unsupported" /\ answer.views = <<>> /\ ~answer.range.given /\ ~answer.step.given
    \/ answer.status = "planned" /\ answer.views # <<>> /\ ViewsAccepted(answer.views)

\* A call of the model: it fails, or answers; an answer that is not valid is
\* followed by one more call.
Generate ==
    /\ driver = "eino" /\ request.sent
    /\ \/ Refuse
       \/ \E answer \in Answers :
             IF ValidAnswer(answer)
             THEN Resolve(answer.views,
                          IF answer.range.given THEN Given(FromSeconds(answer.range.value)) ELSE Absent,
                          answer.step)
             ELSE IF attempt = 0 THEN attempt' = 1 /\ UNCHANGED <<driver, turns, request>> ELSE Refuse

Next == Ask \/ OtherTab \/ PlanMock \/ Generate

Spec == Init /\ [][Next]_vars

-----------------------------------------------------------------------------
(* Properties *)

\* What AI Core accepts, assistant-mcp does not refuse: each view of every plan
\* that was stored passes the checks of service, adapter and registry, which
\* were written apart from it, as its validation and as its execution.
PlansAreExecutable ==
    \A i \in 1..Len(turns) : \A v \in 1..Len(turns[i].views) :
        /\ InputValid(Validation(turns[i].views[v], turns[i].plan))
        /\ InputValid(Execution(turns[i].views[v], turns[i].plan))

\* How a number below a thousand is written with characters: two hundred and
\* five is 2 100 0 5.
Hundreds(n) == IF n < 100 THEN <<>> ELSE <<n \div 100, 100>>
Tens(n) ==
    LET t == (n \div 10) % 10
    IN  IF t = 0 THEN (IF n < 100 \/ n % 10 = 0 THEN <<>> ELSE <<0>>)
        ELSE IF t = 1 /\ n < 100 THEN <<10>> ELSE <<t, 10>>
Numeral(n) == Hundreds(n) \o Tens(n) \o (IF n % 10 = 0 THEN <<>> ELSE <<n % 10>>)

\* What the user means: the reference for a message whose amounts carry the
\* number that was meant and are written as it is.
Meant(said) == said.meant * Unit[said.unit]
Written(said) ==
    /\ said.meant > 0
    /\ IF said.chinese THEN said.meant < 1000 /\ said.text = Numeral(said.meant) ELSE said.text = <<said.meant>>
Fits(said) ==
    said.text = <<>> \/ (Written(said) /\ said.meant < Word \div 2 /\ Meant(said) < Word \div 2)
MeantDuration(r) ==
    IF r.asked.kind = "absolute" THEN r.asked.duration
    ELSE IF r.message.range.text # <<>> THEN Meant(r.message.range)
    ELSE IF r.asked.kind = "relative" THEN r.asked.duration ELSE 30 * Minute
\* The amounts that are said as a step: a range is none of them, wherever it stands.
SteppingAmounts(m) ==
    LET points == {m.point : i \in {j \in 1..Len(m.data) : m.data[j] = "point"}}
    IN  {a \in {m.every, m.english} \cup points : a.text # <<>>}
ExplicitSteps(r) ==
    IF SteppingAmounts(r.message) # {} THEN {Meant(a) : a \in SteppingAmounts(r.message)}
    ELSE IF r.askedStep.given THEN {r.askedStep.value * Second} ELSE {}

\* What the mock planner claims to read: amounts the machine can hold, one step
\* at most, in seconds or minutes, and no range in these units right before
\* "data" unless a step was said before it.
Readable(m) ==
    /\ \A a \in SteppingAmounts(m) : Fits(a) /\ a.unit # "h"
    /\ \A a, b \in SteppingAmounts(m) : Meant(a) = Meant(b)
    /\ Fits(m.range)
    /\ \A i \in 1..Len(m.data) : m.data[i] = "range" /\ m.range.text # <<>> /\ m.range.unit # "h" =>
          \/ m.every.text # <<>>
          \/ \E j \in 1..(i - 1) : m.data[j] = "point" /\ m.point.text # <<>>
\* Ticks of the step that serves a duration: the one that was asked for, if it
\* is allowed and within 1000 points, or the smallest within 300.
MeantSteps(r) ==
    LET d == MeantDuration(r)
        Within(s, points) == \E k \in 0..(points - 1) : k * s <= d /\ d < (k + 1) * s
        auto == {s * Second : s \in AllowedSteps}
    IN  IF ExplicitSteps(r) # {} THEN {s \in ExplicitSteps(r) \cap auto : Within(s, 1000)}
        ELSE {s \in auto : Within(s, 300) /\ \A u \in auto : u < s => ~Within(u, 300)}

\* A mock-planned request that names a view gets the plan it asks for: an
\* absolute range before the message's, that before a relative one, that before
\* half an hour; the message's step before the API's, that before the smallest
\* within the budget; and it is refused when there is none. So a range in hours of
\* data is no step, and neither is any range after a step that was said. Messages
\* that are misread are left out (Readable): a product that wraps, a range in
\* minutes of data taken for a step, two steps, a step in hours.
AskedIsPlanned ==
    [][ request.sent /\ ~request'.sent /\ driver = "mock" /\ request.message.views # <<>>
        /\ Readable(request.message) =>
          LET d == MeantDuration(request)
              steps == IF 30 * Second <= d /\ d <= 6 * Hour THEN MeantSteps(request) ELSE {}
          IN  IF steps = {} THEN turns' = turns
              ELSE /\ Len(turns') = Len(turns) + 1
                   /\ turns'[Len(turns')].views = request.message.views
                   /\ turns'[Len(turns')].plan.duration = d
                   /\ turns'[Len(turns')].plan.step * Second \in steps ]_vars

\* A follow-up that names no view and is accepted shows the views of the latest
\* turn that had any when it was sent: no turn without views, no long message
\* and no limit on the history comes between.
FollowUpInherits ==
    [][ request.sent /\ ~request'.sent /\ driver = "mock" /\ request.message.views = <<>> /\ turns' # turns =>
          LET shown == {i \in 1..request.turns : turns[i].views # <<>>}
          IN  turns'[Len(turns')].views =
                  IF shown = {} THEN <<>>
                  ELSE turns[CHOOSE i \in shown : \A j \in shown : j <= i].views ]_vars
=============================================================================
