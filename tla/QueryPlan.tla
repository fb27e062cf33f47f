------------------------------- MODULE QueryPlan -------------------------------
(***************************************************************************)
(* How a request becomes the frozen plan of a task: the numbers and        *)
(* durations of a message (mock planner), the answer of the model (Eino    *)
(* planner), and ResolvePlannedQueryPlan, which merges them with what the  *)
(* API was given. Durations are counted in ticks; the product of a number  *)
(* and a unit wraps as a machine integer does.                             *)
(***************************************************************************)
EXTENDS Integers, Sequences

CONSTANTS
    Second,  \* ticks in a second (10^9 in the code)
    Word     \* the values of a machine integer (2^64 in the code)

ASSUME ClockAssumption == Second \in Nat \ {0} /\ Word \in Nat \ {0}

Minute == 60 * Second
Hour == 3600 * Second
Unit == [s |-> Second, m |-> Minute, h |-> Hour]

\* A parameter that may be left out.
Absent == [given |-> FALSE, value |-> 0]
Given(v) == [given |-> TRUE, value |-> v]
Parameters == [given : BOOLEAN, value : Int]

-----------------------------------------------------------------------------
(* The policy *)

Registry == {"cpu", "memory", "load"}
AllowedSteps == {5, 10, 15, 30, 60, 120, 300}
AllowedCPUWindows == {30, 60, 300}
DefaultRange == 30 * Minute
MinRange == 30 * Second
MaxRange == 6 * Hour
MaxAutoPoints == 300
MaxExplicitPoints == 1000

TheoreticalPoints(duration, step) == (duration \div (step * Second)) + 1

\* (mutant) The smallest step is always taken.
FinestStep(duration) == 5

\* The smallest step within the budget, or the largest there is.
AutoStep(duration) ==
    LET fits == {s \in AllowedSteps : TheoreticalPoints(duration, s) <= MaxAutoPoints}
    IN  IF fits = {} THEN 300 ELSE CHOOSE s \in fits : \A u \in fits : s <= u

\* The window of rate() in the CPU view.
CPUWindow(duration) ==
    IF duration <= 10 * Minute THEN 30 ELSE IF duration <= Hour THEN 60 ELSE 300

\* (mutant) The planner's step is not held to the budget.
StepUncounted(step, duration) == step \in AllowedSteps

StepAccepted(step, duration) ==
    /\ step \in AllowedSteps
    /\ TheoreticalPoints(duration, step) <= MaxExplicitPoints

\* NewQueryPlan takes registered views, each once.
ViewsAccepted(views) ==
    /\ \A i \in 1..Len(views) : views[i] \in Registry
    /\ \A i, j \in 1..Len(views) : views[i] = views[j] => i = j

\* What the API was asked: an absolute range, a relative one, or none.
AskedRanges == [kind : {"none", "relative", "absolute"}, duration : Nat]

\* (mutant) What the API was asked goes first, an absolute range or not.
DurationAsked(range, asked) ==
    IF asked.kind # "none" THEN asked.duration ELSE IF range.given THEN range.value ELSE DefaultRange

PlannedDuration(range, asked) ==
    IF asked.kind = "absolute" \/ (asked.kind = "relative" /\ ~range.given) THEN asked.duration
    ELSE IF range.given THEN range.value ELSE DefaultRange

PlannedStep(step, askedStep, duration) ==
    IF step.given THEN step.value ELSE IF askedStep.given THEN askedStep.value ELSE AutoStep(duration)

\* (mutant) The bounds of the range are for those that gave none.
AcceptedAnyRange(views, range, step, asked, askedStep) ==
    LET d == PlannedDuration(range, asked)
    IN  /\ d > 0 /\ (range.given \/ (d >= MinRange /\ d <= MaxRange))
        /\ step.given \/ askedStep.given => StepAccepted(PlannedStep(step, askedStep, d), d)
        /\ ViewsAccepted(views)

\* ResolvePlannedQueryPlan answers with a plan, or refuses.
Accepted(views, range, step, asked, askedStep) ==
    LET d == PlannedDuration(range, asked)
    IN  /\ d >= MinRange /\ d <= MaxRange
        /\ step.given \/ askedStep.given => StepAccepted(PlannedStep(step, askedStep, d), d)
        /\ ViewsAccepted(views)

Plan(views, range, step, asked, askedStep) ==
    LET d == PlannedDuration(range, asked)
    IN  [views |-> views, duration |-> d, step |-> PlannedStep(step, askedStep, d), window |-> CPUWindow(d)]

\* What every plan is like that was resolved, and that a task may have.
Resolved(plan) ==
    /\ plan.duration \in MinRange..MaxRange
    /\ plan.step \in AllowedSteps /\ TheoreticalPoints(plan.duration, plan.step) <= MaxExplicitPoints
    /\ plan.window = CPUWindow(plan.duration)

-----------------------------------------------------------------------------
(* Numbers and durations in a message *)

\* Values wrap into -(Word \div 2)..(Word \div 2 - 1).
Wrapped(n) == ((n + (Word \div 2)) % Word) - (Word \div 2)

\* (mutant) A hundred is not spent by what follows it.
ReadNumeralKept(text) ==
    LET read[i \in 0..Len(text)] ==
            IF i = 0 THEN [total |-> 0, current |-> 0]
            ELSE LET r == read[i - 1]
                     c == text[i]
                     times == IF r.current = 0 THEN 1 ELSE r.current
                 IN  IF c < 10 THEN [r EXCEPT !.current = c]
                     ELSE [total |-> r.total + times * c, current |-> r.current]
    IN  read[Len(text)].total + read[Len(text)].current

\* A Chinese numeral; its characters are digits, 10 and 100. A digit replaces
\* the one before it.
ReadNumeral(text) ==
    LET read[i \in 0..Len(text)] ==
            IF i = 0 THEN [total |-> 0, current |-> 0]
            ELSE LET r == read[i - 1]
                     c == text[i]
                     times == IF r.current = 0 THEN 1 ELSE r.current
                 IN  IF c < 10 THEN [r EXCEPT !.current = c]
                     ELSE [total |-> r.total + times * c, current |-> 0]
    IN  read[Len(text)].total + read[Len(text)].current

\* positiveInteger: digits, if the machine can hold them, or a numeral.
PositiveInteger(said) ==
    LET n == IF said.chinese THEN ReadNumeral(said.text)
             ELSE IF said.text[1] < Word \div 2 THEN said.text[1] ELSE 0
    IN  IF n > 0 THEN Given(n) ELSE Absent

\* parseDuration: a number and a unit, or nothing that was found.
SaidDuration(said) ==
    IF said.text = <<>> \/ ~PositiveInteger(said).given THEN Absent
    ELSE Given(Wrapped(PositiveInteger(said).value * Unit[said.unit]))

\* An integer of the model's seconds as a duration, and a duration as seconds
\* (towards zero).
FromSeconds(n) == Wrapped(n * Second)
InSeconds(d) == IF d >= 0 THEN d \div Second ELSE -((-d) \div Second)
=============================================================================
