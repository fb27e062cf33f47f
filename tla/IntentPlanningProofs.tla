-------------------------- MODULE IntentPlanningProofs --------------------------
(***************************************************************************)
(* Proofs about IntentPlanning, for any requests, answers of the model,    *)
(* clock and limits: whatever plan is stored passes the checks that        *)
(* assistant-mcp makes of it, and a follow-up shows what was last shown.   *)
(***************************************************************************)
EXTENDS IntentPlanning, SequenceTheorems, NaturalsInduction, WellFoundedInduction, TLAPS

-----------------------------------------------------------------------------
(* Division *)

\* What a quotient is: the n with n * k <= d < (n + 1) * k.
LEMMA Quotient ==
    ASSUME NEW d \in Nat, NEW k \in Nat \ {0}
    PROVE  /\ d \div k \in Nat
           /\ (d \div k) * k <= d /\ d < ((d \div k) + 1) * k
           /\ \A n \in Nat : n * k <= d => n <= d \div k
           /\ \A n \in Nat : d < (n + 1) * k => d \div k <= n
<1>1. d \div k \in Nat /\ (d \div k) * k <= d /\ d < ((d \div k) + 1) * k
    <2>1. d = k * (d \div k) + (d % k) /\ d \div k \in Int /\ d % k \in 0..(k - 1)
        OBVIOUS
    <2>2. PICK q \in Int, r \in 0..(k - 1) : q = d \div k /\ r = d % k /\ d = k * q + r
        BY <2>1
    <2>3. q >= 0
        <3>1. SUFFICES ASSUME q <= -1 PROVE FALSE
            BY <2>2
        <3>2. k * q <= -k
            BY <3>1
        <3> QED BY <2>2, <3>2
    <2> QED BY <2>2, <2>3
<1>2. PICK q \in Nat : q = d \div k
    BY <1>1
<1>3. ASSUME NEW n \in Nat, n * k <= d PROVE n <= q
    <2>1. n * k < (q + 1) * k
        BY <1>1, <1>2, <1>3
    <2>2. SUFFICES ASSUME n >= q + 1 PROVE FALSE
        OBVIOUS
    <2>3. n * k >= (q + 1) * k
        BY <2>2
    <2> QED BY <2>1, <2>3
<1>4. ASSUME NEW n \in Nat, d < (n + 1) * k PROVE q <= n
    <2>1. q * k < (n + 1) * k
        BY <1>1, <1>2, <1>4
    <2>2. SUFFICES ASSUME q >= n + 1 PROVE FALSE
        OBVIOUS
    <2>3. q * k >= (n + 1) * k
        BY <2>2
    <2> QED BY <2>1, <2>3
<1> QED BY <1>1, <1>2, <1>3, <1>4

\* The points of the plan and those the adapter counts, from whole seconds,
\* are as many.
LEMMA SamePoints ==
    ASSUME NEW d \in Nat, NEW s \in Nat \ {0}
    PROVE  Points(d, s) <= TheoreticalPoints(d, s)
<1>1. Second \in Nat \ {0}
    BY ClockAssumption DEF ClockAssumption
<1>2. PICK a \in Nat : a = d \div Second /\ a * Second <= d
    BY <1>1, Quotient
<1>3. PICK p \in Nat : p = a \div s /\ p * s <= a
    BY Quotient
<1>4. s * Second \in Nat \ {0}
    BY <1>1
<1>5. p * (s * Second) <= d
    <2>1. (p * s) * Second <= a * Second
        BY <1>1, <1>3
    <2>2. (p * s) * Second = p * (s * Second)
        BY <1>1
    <2> QED BY <1>1, <1>2, <2>1, <2>2
<1>6. p <= d \div (s * Second) /\ d \div (s * Second) \in Nat
    BY <1>4, <1>5, Quotient
<1> QED BY <1>2, <1>3, <1>6 DEF Points, TheoreticalPoints

-----------------------------------------------------------------------------
(* The policy *)

\* The step of a range within the bounds is allowed and within the budget, and
\* there is no smaller one.
LEMMA AutoStepFits ==
    ASSUME NEW d \in Nat, d <= MaxRange
    PROVE  /\ AutoStep(d) \in AllowedSteps /\ TheoreticalPoints(d, AutoStep(d)) <= MaxAutoPoints
           /\ \A u \in AllowedSteps : TheoreticalPoints(d, u) <= MaxAutoPoints => AutoStep(d) <= u
<1>1. Second \in Nat \ {0}
    BY ClockAssumption DEF ClockAssumption
<1> DEFINE fits == {s \in AllowedSteps : TheoreticalPoints(d, s) <= MaxAutoPoints}
<1>2. 300 \in fits
    <2>1. 300 * Second \in Nat \ {0} /\ d < (72 + 1) * (300 * Second)
        BY <1>1 DEF MaxRange, Hour
    <2>2. d \div (300 * Second) <= 72 /\ d \div (300 * Second) \in Nat
        BY <2>1, Quotient
    <2> QED BY <2>2 DEF TheoreticalPoints, MaxAutoPoints, AllowedSteps
<1>3. \E s \in fits : \A u \in fits : s <= u
    <2>1. fits \subseteq {5, 10, 15, 30, 60, 120, 300}
        BY DEF AllowedSteps
    <2> HIDE DEF fits
    <2>2. ASSUME NEW S \in SUBSET {5, 10, 15, 30, 60, 120, 300}, 300 \in S
          PROVE  \E s \in S : \A u \in S : s <= u
        <3>1. CASE 5 \in S
            BY <3>1
        <3>2. CASE 5 \notin S /\ 10 \in S
            BY <3>2
        <3>3. CASE 5 \notin S /\ 10 \notin S /\ 15 \in S
            BY <3>3
        <3>4. CASE 5 \notin S /\ 10 \notin S /\ 15 \notin S /\ 30 \in S
            BY <3>4
        <3>5. CASE 5 \notin S /\ 10 \notin S /\ 15 \notin S /\ 30 \notin S /\ 60 \in S
            BY <3>5
        <3>6. CASE 5 \notin S /\ 10 \notin S /\ 15 \notin S /\ 30 \notin S /\ 60 \notin S
            BY <2>2, <3>6
        <3> QED BY <3>1, <3>2, <3>3, <3>4, <3>5, <3>6
    <2> QED BY <1>2, <2>1, <2>2
<1>4. AutoStep(d) = CHOOSE s \in fits : \A u \in fits : s <= u
    BY <1>2 DEF AutoStep
<1>5. AutoStep(d) \in fits /\ \A u \in fits : AutoStep(d) <= u
    <2> HIDE DEF fits
    <2> QED BY <1>3, <1>4
<1> QED BY <1>5

\* What a machine integer wraps into is one.
LEMMA WrappedIsInt ==
    ASSUME NEW n \in Int
    PROVE  Wrapped(n) \in Int
<1>1. Word \in Nat \ {0}
    BY ClockAssumption DEF ClockAssumption
<1>2. PICK h \in Int : h = Word \div 2
    BY <1>1
<1>3. (n + h) % Word \in Int
    BY <1>1
<1> QED BY <1>2, <1>3 DEF Wrapped

\* What ResolvePlannedQueryPlan accepts becomes a plan within the bounds: those
\* of EinoRuntime's runs.
LEMMA AcceptedIsResolved ==
    ASSUME NEW views, NEW range, NEW step, NEW asked, NEW askedStep,
           range.given => range.value \in Int, asked.duration \in Int,
           Accepted(views, range, step, asked, askedStep)
    PROVE  Resolved(Plan(views, range, step, asked, askedStep))
<1> DEFINE d == PlannedDuration(range, asked)
           s == PlannedStep(step, askedStep, d)
           plan == Plan(views, range, step, asked, askedStep)
<1>1. Second \in Nat \ {0} /\ MinRange \in Nat \ {0} /\ MaxRange \in Nat /\ DefaultRange \in Nat
    BY ClockAssumption DEF ClockAssumption, MinRange, MaxRange, DefaultRange, Minute, Hour
<1>2. d \in Int
    BY <1>1 DEF PlannedDuration
<1>3. MinRange <= d /\ d <= MaxRange
    BY DEF Accepted
<1>4. d \in Nat /\ d \in MinRange..MaxRange
    <2> HIDE DEF d
    <2> QED BY <1>1, <1>2, <1>3
<1>5. s \in AllowedSteps /\ TheoreticalPoints(d, s) <= MaxExplicitPoints
    <2>1. CASE step.given \/ askedStep.given
        BY <2>1 DEF Accepted, StepAccepted
    <2>2. CASE ~(step.given \/ askedStep.given)
        <3>1. s = AutoStep(d)
            BY <2>2 DEF PlannedStep
        <3>2. AutoStep(d) \in AllowedSteps /\ TheoreticalPoints(d, AutoStep(d)) <= 300
            BY <1>3, <1>4, AutoStepFits DEF MaxAutoPoints
        <3>3. TheoreticalPoints(d, AutoStep(d)) \in Int
            <4>1. PICK a \in Nat \ {0} : a = AutoStep(d)
                BY <3>2 DEF AllowedSteps
            <4>2. a * Second \in Nat \ {0}
                BY <1>1
            <4>3. d \div (a * Second) \in Nat
                BY <1>4, <4>2, Quotient
            <4> QED BY <4>1, <4>3 DEF TheoreticalPoints
        <3> HIDE DEF d, s
        <3> QED BY <3>1, <3>2, <3>3 DEF MaxExplicitPoints
    <2> QED BY <2>1, <2>2
<1>6. plan.duration = d /\ plan.step = s /\ plan.window = CPUWindow(d)
    BY DEF Plan
<1> HIDE DEF d, s, plan
<1>7. Resolved(plan)
    BY <1>4, <1>5, <1>6 DEF Resolved
<1> QED BY <1>7 DEF plan

\* A plan within the bounds passes the checks of assistant-mcp, for any view
\* that is registered.
LEMMA ResolvedIsExecutable ==
    ASSUME NEW plan, Resolved(plan), NEW view \in Registry
    PROVE  InputValid(Validation(view, plan)) /\ InputValid(Execution(view, plan))
<1>1. Second \in Nat \ {0} /\ MinRange \in Nat \ {0} /\ MaxRange \in Nat /\ Minute \in Nat \ {0} /\ Minute <= 6 * Hour
    BY ClockAssumption DEF ClockAssumption, MinRange, MaxRange, Minute, Hour
<1>2. PICK d \in Nat, s \in Nat : d = plan.duration /\ s = plan.step
    BY <1>1 DEF Resolved, AllowedSteps
<1>3. d > 0 /\ d <= 6 * Hour /\ s \in AllowedSteps /\ TheoreticalPoints(d, s) <= 1000
    BY <1>1, <1>2 DEF Resolved, MaxRange, MaxExplicitPoints
<1>4. Points(d, s) <= 1000
    <2>1. s \in Nat \ {0}
        BY <1>3 DEF AllowedSteps
    <2>2. Points(d, s) <= TheoreticalPoints(d, s)
        BY <2>1, SamePoints
    <2>3. Points(d, s) \in Int /\ TheoreticalPoints(d, s) \in Int
        <3>1. s * Second \in Nat \ {0}
            BY <1>1, <2>1
        <3>2. d \div Second \in Nat /\ d \div (s * Second) \in Nat
            BY <1>1, <3>1, Quotient
        <3>3. (d \div Second) \div s \in Nat
            BY <2>1, <3>2, Quotient
        <3> QED BY <3>2, <3>3 DEF Points, TheoreticalPoints
    <2> QED BY <1>3, <2>2, <2>3
<1>5. Points(Minute, 60) <= 1000
    <2>1. Minute \div Second <= 60 /\ Minute \div Second \in Nat
        BY <1>1, Quotient DEF Minute
    <2>2. PICK a \in Nat : a = Minute \div Second /\ a <= 60
        BY <2>1
    <2>3. a \div 60 <= 1 /\ a \div 60 \in Nat
        BY <2>2
    <2> QED BY <2>2, <2>3 DEF Points
<1>6. plan.window \in AllowedCPUWindows
    BY DEF Resolved, CPUWindow, AllowedCPUWindows
<1>7. WindowValid(view, WindowFor(view, plan))
    BY <1>6 DEF WindowValid, WindowFor, Given, Absent
<1>8. InputValid(Validation(view, plan))
    BY <1>1, <1>5, <1>7 DEF InputValid, Validation, AllowedSteps
<1>9. InputValid(Execution(view, plan))
    BY <1>2, <1>3, <1>4, <1>7 DEF InputValid, Execution
<1> QED BY <1>8, <1>9

\* A plan that passes the checks of assistant-mcp, for every view.
Executable(views, plan) ==
    \A v \in 1..Len(views) : /\ InputValid(Validation(views[v], plan))
                             /\ InputValid(Execution(views[v], plan))

LEMMA AcceptedIsExecutable ==
    ASSUME NEW views, NEW range, NEW step, NEW asked, NEW askedStep,
           range.given => range.value \in Int, asked.duration \in Int,
           Accepted(views, range, step, asked, askedStep)
    PROVE  Executable(views, Plan(views, range, step, asked, askedStep))
<1>1. \A v \in 1..Len(views) : views[v] \in Registry
    BY DEF Accepted, ViewsAccepted
<1>2. PICK plan : plan = Plan(views, range, step, asked, askedStep)
    OBVIOUS
<1>3. Resolved(plan)
    BY <1>2, AcceptedIsResolved
<1>4. Executable(views, plan)
    BY <1>1, <1>3, ResolvedIsExecutable DEF Executable
<1> QED BY <1>2, <1>4

-----------------------------------------------------------------------------
(* Recursive definitions *)

\* A set of numbers that has 0 and the next of each it has, has all.
LEMMA Induction ==
    ASSUME NEW P \in SUBSET Nat, 0 \in P, \A m \in P : m + 1 \in P
    PROVE  Nat \subseteq P
<1> DEFINE R == OpToRel(<, Nat)
<1>1. IsWellFoundedOn(R, Nat)
    BY NatLessThanWellFounded
<1>2. \A m, n \in Nat : m < n => <<m, n>> \in R
    BY DEF OpToRel
<1> HIDE DEF R
<1>3. SUFFICES ASSUME Nat \ P # {} PROVE FALSE
    OBVIOUS
<1>4. PICK n \in Nat \ P : \A m \in Nat \ P : <<m, n>> \notin R
    <2>1. Nat \ P \subseteq Nat
        OBVIOUS
    <2> QED BY <1>1, <1>3, <2>1, WFMin
<1>5. n # 0 /\ n - 1 \in Nat /\ n - 1 < n
    BY <1>4
<1>6. n - 1 \in P
    BY <1>2, <1>4, <1>5
<1>7. (n - 1) + 1 \in P
    BY <1>6
<1> QED BY <1>4, <1>7

\* Some numbers have a least.
LEMMA LeastNatural ==
    ASSUME NEW S \in SUBSET Nat, S # {}
    PROVE  \E n \in S : \A m \in S : n <= m
<1> DEFINE R == OpToRel(<, Nat)
<1>1. IsWellFoundedOn(R, Nat)
    BY NatLessThanWellFounded
<1>2. \A m, n \in Nat : m < n => <<m, n>> \in R
    BY DEF OpToRel
<1> HIDE DEF R
<1>3. PICK n \in S : \A m \in S : <<m, n>> \notin R
    BY <1>1, WFMin
<1>4. \A m \in S : ~(m < n)
    BY <1>2, <1>3
<1> QED BY <1>3, <1>4

\* ReadNumeral, a character at a time.
EmptyNumeral == [total |-> 0, current |-> 0]
ReadCharacter(r, c) ==
    LET times == IF r.current = 0 THEN 1 ELSE r.current
    IN  IF c < 10 THEN [r EXCEPT !.current = c] ELSE [total |-> r.total + times * c, current |-> 0]
ReadsText(text, f) ==
    f = [i \in 0..Len(text) |-> IF i = 0 THEN EmptyNumeral ELSE ReadCharacter(f[i - 1], text[i])]

LEMMA NumeralReads ==
    ASSUME NEW text \in Seq(Nat)
    PROVE  \E f : ReadsText(text, f) /\ ReadNumeral(text) = f[Len(text)].total + f[Len(text)].current
<1> DEFINE Prefix(m, f) == f = [i \in 0..m |-> IF i = 0 THEN EmptyNumeral ELSE ReadCharacter(f[i - 1], text[i])]
           P == {m \in Nat : \E f : Prefix(m, f)}
<1>1. 0 \in P
    <2>1. Prefix(0, [i \in 0..0 |-> EmptyNumeral])
        OBVIOUS
    <2> QED BY <2>1
<1>2. ASSUME NEW m \in P PROVE m + 1 \in P
    <2>1. PICK f : Prefix(m, f)
        OBVIOUS
    <2>2. m \in Nat
        OBVIOUS
    <2> DEFINE g == [i \in 0..(m + 1) |-> IF i = m + 1 THEN ReadCharacter(f[m], text[m + 1]) ELSE f[i]]
    <2>3. ASSUME NEW i \in 0..(m + 1)
          PROVE  g[i] = IF i = 0 THEN EmptyNumeral ELSE ReadCharacter(g[i - 1], text[i])
        <3>1. CASE i = m + 1
            <4>1. g[i] = ReadCharacter(f[m], text[m + 1]) /\ g[i - 1] = f[m] /\ i # 0
                BY <2>2, <3>1
            <4> QED BY <3>1, <4>1
        <3>2. CASE i \in 0..m
            <4>1. f[i] = IF i = 0 THEN EmptyNumeral ELSE ReadCharacter(f[i - 1], text[i])
                BY <2>1, <3>2
            <4>2. g[i] = f[i] /\ (i # 0 => g[i - 1] = f[i - 1])
                BY <2>2, <3>2
            <4> QED BY <4>1, <4>2
        <3> QED BY <2>2, <3>1, <3>2
    <2>4. g = [i \in 0..(m + 1) |-> g[i]]
        OBVIOUS
    <2> HIDE DEF g
    <2>5. Prefix(m + 1, g)
        BY <2>3, <2>4
    <2> QED BY <2>2, <2>5
<1> HIDE DEF P
<1>3. P \subseteq Nat
    BY DEF P
<1>4. Len(text) \in P
    BY <1>1, <1>2, <1>3, Induction
<1>5. \E f : ReadsText(text, f)
    BY <1>4 DEF P, ReadsText
<1> DEFINE read == CHOOSE f : ReadsText(text, f)
<1>6. ReadsText(text, read)
    BY <1>5
<1>7. ReadNumeral(text) = read[Len(text)].total + read[Len(text)].current
    BY DEF ReadNumeral, ReadsText, ReadCharacter, EmptyNumeral
<1> QED BY <1>6, <1>7

\* So it is a number, and the duration of an amount an integer.
LEMMA NumeralIsNat ==
    ASSUME NEW text \in Seq(Nat)
    PROVE  ReadNumeral(text) \in Nat
<1> DEFINE T == [total : Nat, current : Nat]
<1>1. PICK f : ReadsText(text, f) /\ ReadNumeral(text) = f[Len(text)].total + f[Len(text)].current
    BY NumeralReads
<1> DEFINE P == {m \in Nat : m <= Len(text) => f[m] \in T}
<1>2. 0 \in P
    <2>1. f[0] = EmptyNumeral
        BY <1>1 DEF ReadsText
    <2> QED BY <2>1 DEF EmptyNumeral
<1>3. ASSUME NEW m \in P PROVE m + 1 \in P
    <2>1. SUFFICES ASSUME m + 1 <= Len(text) PROVE f[m + 1] \in T
        OBVIOUS
    <2>2. m \in Nat /\ m + 1 \in 1..Len(text) /\ m + 1 # 0 /\ (m + 1) - 1 = m /\ f[m] \in T
        BY <2>1
    <2>3. f[m + 1] = ReadCharacter(f[m], text[m + 1])
        BY <1>1, <2>2 DEF ReadsText
    <2>4. PICK c \in Nat, r \in T : c = text[m + 1] /\ r = f[m]
        BY <2>2
    <2>5. CASE c < 10
        BY <2>3, <2>4, <2>5 DEF ReadCharacter
    <2>6. CASE ~(c < 10)
        <3>1. PICK t \in Nat : t = IF r.current = 0 THEN 1 ELSE r.current
            OBVIOUS
        <3>2. t * c \in Nat
            OBVIOUS
        <3>3. f[m + 1] = [total |-> r.total + t * c, current |-> 0]
            BY <2>3, <2>4, <2>6, <3>1 DEF ReadCharacter
        <3> QED BY <3>2, <3>3
    <2> QED BY <2>5, <2>6
<1> HIDE DEF P
<1>4. P \subseteq Nat
    BY DEF P
<1>5. Len(text) \in P
    BY <1>2, <1>3, <1>4, Induction
<1>6. f[Len(text)] \in T
    BY <1>5 DEF P
<1> QED BY <1>1, <1>6

LEMMA SaidIsInt ==
    ASSUME NEW said \in SaidAmounts
    PROVE  SaidDuration(said).value \in Int
<1>1. Second \in Nat \ {0} /\ Word \in Nat \ {0}
    BY ClockAssumption DEF ClockAssumption
<1>2. CASE said.text = <<>> \/ ~PositiveInteger(said).given
    BY <1>2 DEF SaidDuration, Absent
<1>3. CASE said.text # <<>> /\ PositiveInteger(said).given
    <2>1. ReadNumeral(said.text) \in Nat
        BY NumeralIsNat DEF SaidAmounts
    <2>2. said.text[1] \in Nat
        BY <1>3 DEF SaidAmounts
    <2>3. PositiveInteger(said).value \in Nat
        BY <2>1, <2>2 DEF PositiveInteger, Given, Absent
    <2>4. Unit[said.unit] \in Nat
        BY <1>1 DEF SaidAmounts, Unit, Minute, Hour
    <2>5. PICK n \in Int : n = PositiveInteger(said).value * Unit[said.unit]
        BY <2>3, <2>4
    <2> QED BY <1>3, <2>5, WrappedIsInt DEF SaidDuration, Given
<1> QED BY <1>2, <1>3

-----------------------------------------------------------------------------
(* A numeral is read as it is written *)

ReadsTo(text, r) == text \in Seq(Nat) /\ \E f : ReadsText(text, f) /\ f[Len(text)] = r

LEMMA ReadsNone == ReadsTo(<<>>, EmptyNumeral)
<1>1. ReadsText(<<>>, [i \in 0..0 |-> EmptyNumeral])
    BY DEF ReadsText
<1> QED BY <1>1 DEF ReadsTo

LEMMA ReadsMore ==
    ASSUME NEW text, NEW r, ReadsTo(text, r), NEW c \in Nat
    PROVE  ReadsTo(Append(text, c), ReadCharacter(r, c))
<1>1. PICK f : ReadsText(text, f) /\ f[Len(text)] = r
    BY DEF ReadsTo
<1>2. text \in Seq(Nat) /\ Append(text, c) \in Seq(Nat)
    BY DEF ReadsTo
<1>3. PICK n \in Nat : n = Len(text)
    BY <1>2
<1> DEFINE more == Append(text, c)
           g == [i \in 0..(n + 1) |-> IF i = n + 1 THEN ReadCharacter(r, c) ELSE f[i]]
<1>4. Len(more) = n + 1 /\ more[n + 1] = c /\ \A i \in 1..n : more[i] = text[i]
    BY <1>2, <1>3
<1>5. g[0] = EmptyNumeral
    BY <1>1, <1>3 DEF ReadsText
<1>6. ASSUME NEW i \in 1..(n + 1) PROVE g[i] = ReadCharacter(g[i - 1], more[i])
    <2>1. CASE i = n + 1
        <3>1. g[i] = ReadCharacter(r, c) /\ g[i - 1] = f[n]
            BY <2>1
        <3>2. more[i] = c /\ f[n] = r
            BY <1>1, <1>3, <1>4, <2>1
        <3> HIDE DEF g, more
        <3> QED BY <3>1, <3>2
    <2>2. CASE i \in 1..n
        <3>1. f[i] = ReadCharacter(f[i - 1], text[i])
            BY <1>1, <1>3, <2>2 DEF ReadsText
        <3>2. g[i] = f[i] /\ g[i - 1] = f[i - 1]
            BY <2>2
        <3>3. more[i] = text[i]
            BY <1>4, <2>2
        <3> HIDE DEF g, more
        <3> QED BY <3>1, <3>2, <3>3
    <2>3. i = n + 1 \/ i \in 1..n
        OBVIOUS
    <2> HIDE DEF g, more
    <2> QED BY <2>1, <2>2, <2>3
<1>7. g = [i \in 0..(n + 1) |-> g[i]] /\ g[n + 1] = ReadCharacter(r, c)
    OBVIOUS
<1> HIDE DEF g, more
<1>8. ReadsText(more, g)
    <2>1. \A i \in 0..(n + 1) : g[i] = IF i = 0 THEN EmptyNumeral ELSE ReadCharacter(g[i - 1], more[i])
        BY <1>5, <1>6
    <2> QED BY <1>4, <1>7, <2>1 DEF ReadsText
<1>9. g[Len(more)] = ReadCharacter(r, c) /\ more \in Seq(Nat)
    BY <1>2, <1>4, <1>7 DEF more
<1>10. ReadsTo(more, ReadCharacter(r, c))
    BY <1>8, <1>9 DEF ReadsTo
<1> QED BY <1>10 DEF more

\* There is one way to read a text.
LEMMA ReadsOnce ==
    ASSUME NEW text, NEW r, ReadsTo(text, r)
    PROVE  ReadNumeral(text) = r.total + r.current
<1>1. text \in Seq(Nat)
    BY DEF ReadsTo
<1>2. PICK f : ReadsText(text, f) /\ f[Len(text)] = r
    BY DEF ReadsTo
<1>3. PICK g : ReadsText(text, g) /\ ReadNumeral(text) = g[Len(text)].total + g[Len(text)].current
    BY <1>1, NumeralReads
<1> DEFINE P == {m \in Nat : m <= Len(text) => f[m] = g[m]}
<1>4. 0 \in P
    BY <1>1, <1>2, <1>3 DEF ReadsText
<1>5. ASSUME NEW m \in P PROVE m + 1 \in P
    <2>1. SUFFICES ASSUME m + 1 <= Len(text) PROVE f[m + 1] = g[m + 1]
        OBVIOUS
    <2>2. m \in Nat /\ m + 1 \in 0..Len(text) /\ m + 1 # 0 /\ (m + 1) - 1 = m /\ f[m] = g[m]
        BY <1>1, <2>1
    <2>3. f[m + 1] = ReadCharacter(f[m], text[m + 1])
        BY <1>2, <2>2 DEF ReadsText
    <2>4. g[m + 1] = ReadCharacter(g[m], text[m + 1])
        BY <1>3, <2>2 DEF ReadsText
    <2> QED BY <2>2, <2>3, <2>4
<1> HIDE DEF P
<1>6. P \subseteq Nat
    BY DEF P
<1>8. Nat \subseteq P
    BY <1>4, <1>5, <1>6, Induction
<1>7. Len(text) \in P
    BY <1>1, <1>8
<1> QED BY <1>1, <1>2, <1>3, <1>7 DEF P

\* Numbers below a thousand: a hundreds part, a tens part and a units part, each
\* of which adds what it stands for.
BelowThousand == 1..999

LEMMA NumeralIsRead ==
    ASSUME NEW n \in BelowThousand
    PROVE  ReadNumeral(Numeral(n)) = n
<1> USE DEF BelowThousand
<1>1. PICK h \in 0..9, t \in 0..9, u \in 0..9 :
          n = 100 * h + 10 * t + u /\ h = n \div 100 /\ t = (n \div 10) % 10 /\ u = n % 10
    <2>1. PICK a \in Nat, u \in 0..9 : a = n \div 10 /\ u = n % 10 /\ n = 10 * a + u
        OBVIOUS
    <2>2. a \in 0..99
        BY <2>1
    <2>3. PICK h \in Nat, t \in 0..9 : h = a \div 10 /\ t = a % 10 /\ a = 10 * h + t
        BY <2>2
    <2>4. h \in 0..9 /\ n = 100 * h + 10 * t + u
        BY <2>1, <2>2, <2>3
    <2>5. n \div 100 = h
        BY <2>1, <2>3, <2>4
    <2>6. (n \div 10) % 10 = t
        BY <2>1, <2>3, Zenon
    <2> QED BY <2>1, <2>3, <2>4, <2>5, <2>6, Zenon
<1> DEFINE H == [total |-> 100 * h, current |-> 0]
           T == [total |-> 100 * h + 10 * t, current |-> 0]
<1>2. n < 100 <=> h = 0
    BY <1>1
<1>0. \A s \in Seq(Nat) : s \o <<>> = s /\ \A c \in Nat : s \o <<c>> = Append(s, c)
    OBVIOUS
<1>3. ReadsTo(Hundreds(n), H)
    <2>1. CASE h = 0
        <3>1. Hundreds(n) = <<>> /\ H = EmptyNumeral
            BY <1>2, <2>1 DEF Hundreds, EmptyNumeral
        <3> QED BY <3>1, ReadsNone
    <2>2. CASE h # 0
        <3>1. Hundreds(n) = <<h, 100>>
            BY <1>1, <1>2, <2>2 DEF Hundreds
        <3>2. <<h, 100>> = Append(Append(<<>>, h), 100)
            OBVIOUS
        <3>3. ReadCharacter(EmptyNumeral, h) = [total |-> 0, current |-> h]
            BY DEF ReadCharacter, EmptyNumeral
        <3>4. ReadCharacter([total |-> 0, current |-> h], 100) = H
            BY <2>2 DEF ReadCharacter
        <3>5. ReadsTo(Append(<<>>, h), [total |-> 0, current |-> h])
            <4>1. h \in Nat
                OBVIOUS
            <4> QED BY <3>3, <4>1, ReadsNone, ReadsMore
        <3>6. ReadsTo(Append(Append(<<>>, h), 100), H)
            BY <3>4, <3>5, ReadsMore
        <3> QED BY <3>1, <3>2, <3>6
    <2> QED BY <2>1, <2>2
<1>4. ReadsTo(Hundreds(n) \o Tens(n), T)
    <2>1. PICK s \in Seq(Nat) : s = Hundreds(n)
        BY <1>3 DEF ReadsTo
    <2>2. ReadsTo(s, H)
        BY <1>3, <2>1
    <2>3. CASE t = 0 /\ (h = 0 \/ u = 0)
        <3>1. Tens(n) = <<>>
            BY <1>1, <1>2, <2>3 DEF Tens
        <3>2. s \o <<>> = s
            BY <1>0
        <3>3. T = H
            BY <2>3
        <3> HIDE DEF H, T
        <3> QED BY <2>1, <2>2, <3>1, <3>2, <3>3
    <2>4. CASE t = 0 /\ ~(h = 0 \/ u = 0)
        <3>0. Tens(n) = <<0>>
            BY <1>1, <1>2, <2>4 DEF Tens
        <3>1. Tens(n) = <<0>> /\ s \o <<0>> = Append(s, 0)
            BY <1>0, <3>0
        <3>2. ReadCharacter(H, 0) = T
            BY <2>4 DEF ReadCharacter
        <3>3. ReadsTo(Append(s, 0), T)
            BY <2>2, <3>2, ReadsMore
        <3> QED BY <2>1, <3>1, <3>3
    <2>5. CASE t = 1 /\ h = 0
        <3>0. (n \div 10) % 10 = t /\ t # 0 /\ t = 1 /\ n < 100
            BY <1>1, <1>2, <2>5
        <3>4. Tens(n) = <<10>>
            BY <3>0, Zenon DEF Tens
        <3>1. Tens(n) = <<10>> /\ s \o <<10>> = Append(s, 10)
            BY <1>0, <3>4
        <3>2. ReadCharacter(H, 10) = T
            BY <2>5 DEF ReadCharacter
        <3>3. ReadsTo(Append(s, 10), T)
            BY <2>2, <3>2, ReadsMore
        <3> QED BY <2>1, <3>1, <3>3
    <2>6. CASE t # 0 /\ ~(t = 1 /\ h = 0)
        <3>0. (n \div 10) % 10 = t /\ t # 0 /\ ~(t = 1 /\ n < 100)
            BY <1>1, <1>2, <2>6
        <3>1. Tens(n) = <<t, 10>>
            BY <3>0, Zenon DEF Tens
        <3>2. s \o <<t, 10>> = Append(Append(s, t), 10)
            OBVIOUS
        <3>3. ReadCharacter(H, t) = [total |-> 100 * h, current |-> t]
            BY DEF ReadCharacter
        <3>4. ReadCharacter([total |-> 100 * h, current |-> t], 10) = T
            BY <2>6 DEF ReadCharacter
        <3>5. ReadsTo(Append(s, t), [total |-> 100 * h, current |-> t])
            BY <2>2, <3>3, ReadsMore
        <3>6. ReadsTo(Append(Append(s, t), 10), T)
            BY <3>4, <3>5, ReadsMore
        <3> QED BY <2>1, <3>1, <3>2, <3>6
    <2> QED BY <2>3, <2>4, <2>5, <2>6
<1>5. PICK s \in Seq(Nat) : s = Hundreds(n) \o Tens(n)
    BY <1>4 DEF ReadsTo
<1>6. CASE u = 0
    <2>0. Numeral(n) = s \o <<>>
        <3>1. n % 10 = 0
            BY <1>1, <1>6
        <3> QED BY <1>5, <3>1 DEF Numeral
    <2>1. Numeral(n) = s
        BY <1>0, <2>0
    <2>2. ReadsTo(Numeral(n), T)
        BY <1>4, <1>5, <2>1
    <2>3. T.total + T.current = n
        BY <1>1, <1>6
    <2> HIDE DEF T
    <2>4. ReadNumeral(Numeral(n)) = T.total + T.current
        BY <2>2, ReadsOnce, Zenon
    <2> QED BY <2>3, <2>4, Zenon
<1>7. CASE u # 0
    <2>0. Numeral(n) = s \o <<u>>
        <3>1. n % 10 = u /\ n % 10 # 0
            BY <1>1, <1>7
        <3> QED BY <1>5, <3>1 DEF Numeral
    <2>1. Numeral(n) = Append(s, u) /\ u \in Nat
        BY <1>0, <2>0
    <2>2. ReadCharacter(T, u) = [total |-> 100 * h + 10 * t, current |-> u]
        BY DEF ReadCharacter
    <2> DEFINE R == [total |-> 100 * h + 10 * t, current |-> u]
    <2>3. ReadsTo(Numeral(n), R)
        <3>1. ReadsTo(s, T)
            BY <1>4, <1>5
        <3> HIDE DEF T
        <3>2. ReadsTo(Append(s, u), ReadCharacter(T, u))
            BY <2>1, <3>1, ReadsMore
        <3> QED BY <2>1, <2>2, <3>2
    <2>4. R.total + R.current = n
        BY <1>1
    <2> HIDE DEF R
    <2>5. ReadNumeral(Numeral(n)) = R.total + R.current
        BY <2>3, ReadsOnce, Zenon
    <2> QED BY <2>4, <2>5, Zenon
<1> QED BY <1>6, <1>7

-----------------------------------------------------------------------------
(* What is said is what is planned *)

\* Times a second keeps order and difference.
LEMMA TimesSecond ==
    ASSUME NEW a \in Int, NEW b \in Int
    PROVE  /\ a * Second = b * Second <=> a = b
           /\ a * Second < b * Second <=> a < b
           /\ a * Second <= b * Second <=> a <= b
<1>1. PICK k \in Nat \ {0} : k = Second
    BY ClockAssumption DEF ClockAssumption
<1>2. a < b => a * k < b * k
    OBVIOUS
<1>3. b < a => b * k < a * k
    OBVIOUS
<1> QED BY <1>1, <1>2, <1>3

\* An amount that is written as it is meant, and that the machine can hold.
LEMMA SaidIsMeant ==
    ASSUME NEW said \in SaidAmounts, Fits(said), said.text # <<>>
    PROVE  /\ SaidDuration(said) = Given(Meant(said))
           /\ Meant(said) \in Nat \ {0}
           /\ InSeconds(Meant(said)) \in Nat \ {0} /\ InSeconds(Meant(said)) * Second = Meant(said)
<1>1. Second \in Nat \ {0} /\ Word \in Nat \ {0}
    BY ClockAssumption DEF ClockAssumption
<1>0. Written(said)
    BY DEF Fits
<1>2. PICK n \in Nat \ {0} : n = said.meant
    BY <1>0 DEF SaidAmounts, Written
<1>3. n < Word \div 2 /\ Meant(said) < Word \div 2
    BY <1>2 DEF Fits
<1>4. PositiveInteger(said) = Given(n)
    <2>1. CASE said.chinese
        <3>0. n < 1000 /\ said.text = Numeral(n)
            BY <1>0, <1>2, <2>1 DEF Written
        <3>1. n \in BelowThousand /\ said.text = Numeral(n)
            BY <3>0 DEF BelowThousand
        <3>2. ReadNumeral(said.text) = n
            BY <3>1, NumeralIsRead, Zenon
        <3> QED BY <2>1, <3>2 DEF PositiveInteger
    <2>2. CASE ~said.chinese
        <3>1. said.text = <<n>>
            BY <1>0, <1>2, <2>2 DEF Written
        <3>2. said.text[1] = n
            BY <3>1
        <3> QED BY <1>3, <2>2, <3>2 DEF PositiveInteger
    <2> QED BY <2>1, <2>2
<1>5. PICK k \in {1, 60, 3600} : Unit[said.unit] = k * Second
    <2>1. said.unit \in {"s", "m", "h"}
        BY DEF SaidAmounts, Unit
    <2>2. CASE said.unit = "s"
        BY <1>1, <2>2 DEF Unit
    <2>3. CASE said.unit = "m"
        BY <1>1, <2>3 DEF Unit, Minute
    <2>4. CASE said.unit = "h"
        BY <1>1, <2>4 DEF Unit, Hour
    <2> QED BY <2>1, <2>2, <2>3, <2>4
<1>6. PICK m \in Nat \ {0} : m = n * k
    BY <1>2
<1>7. PICK d \in Nat \ {0} : d = m * Second
    BY <1>1
<1>8. Meant(said) = d
    <2>1. n * (k * Second) = (n * k) * Second
        BY <1>1
    <2> QED BY <1>2, <1>5, <1>6, <1>7, <2>1 DEF Meant
<1>9. Wrapped(d) = d
    <2>1. PICK h \in Nat : h = Word \div 2 /\ h + h <= Word
        <3>1. Word \div 2 \in Nat /\ (Word \div 2) * 2 <= Word
            BY <1>1, Quotient
        <3> QED BY <3>1
    <2>2. d + h \in Nat /\ d + h < Word
        BY <1>1, <1>3, <1>8, <2>1
    <2>3. (d + h) % Word = d + h
        BY <1>1, <2>2
    <2> QED BY <2>1, <2>3 DEF Wrapped
<1>10. SaidDuration(said) = Given(d)
    <2>1. PositiveInteger(said).given /\ PositiveInteger(said).value = n
        BY <1>4 DEF Given
    <2>2. n * Unit[said.unit] = d
        BY <1>2, <1>8 DEF Meant
    <2>3. SaidDuration(said) = Given(Wrapped(n * Unit[said.unit]))
        BY <2>1 DEF SaidDuration
    <2> QED BY <1>9, <2>2, <2>3
<1>11. InSeconds(d) = m
    <2>1. d \div Second <= m /\ m <= d \div Second /\ d \div Second \in Nat
        <3>1. d < (m + 1) * Second /\ m * Second <= d
            BY <1>1, <1>7
        <3> QED BY <1>1, <3>1, Quotient
    <2> QED BY <2>1 DEF InSeconds
<1> QED BY <1>6, <1>7, <1>8, <1>10, <1>11

\* A step serves a duration with so many points.
Serves(s, d, points) == \E k \in 0..(points - 1) : k * s <= d /\ d < (k + 1) * s

LEMMA WithinPoints ==
    ASSUME NEW d \in Nat, NEW v \in Nat \ {0}, NEW s, s = v * Second, NEW points \in Nat
    PROVE  Serves(s, d, points) <=> TheoreticalPoints(d, v) <= points
<1>1. s \in Nat \ {0} /\ s = v * Second
    BY ClockAssumption DEF ClockAssumption
<1>2. PICK q \in Nat : /\ q = d \div s /\ q * s <= d /\ d < (q + 1) * s
                       /\ \A n \in Nat : n * s <= d => n <= q
                       /\ \A n \in Nat : d < (n + 1) * s => q <= n
    BY <1>1, Quotient
<1>3. TheoreticalPoints(d, v) = q + 1
    BY <1>1, <1>2 DEF TheoreticalPoints
<1>4. ASSUME NEW k \in 0..(points - 1), k * s <= d, d < (k + 1) * s PROVE q + 1 <= points
    BY <1>2, <1>4
<1>5. ASSUME q + 1 <= points
      PROVE  Serves(s, d, points)
    <2>1. q \in 0..(points - 1)
        BY <1>5
    <2> QED BY <1>2, <2>1 DEF Serves
<1> QED BY <1>1, <1>3, <1>4, <1>5 DEF Serves

\* A sequence with one element before it and one after it.
LEMMA Surrounded ==
    ASSUME NEW S, NEW a \in S, NEW D \in Seq(S), NEW b \in S, NEW n \in Nat, n = Len(D)
    PROVE  LET B == <<a>> \o D \o <<b>>
           IN  Len(B) = n + 2 /\ B[1] = a /\ B[n + 2] = b /\ \A i \in 1..n : B[i + 1] = D[i]
<1>0. ASSUME NEW x \in S PROVE <<x>> \in Seq(S) /\ Len(<<x>>) = 1 /\ <<x>>[1] = x
    OBVIOUS
<1>1. PICK E \in Seq(S) : E = <<a>> /\ Len(E) = 1 /\ E[1] = a
    <2>1. <<a>> \in Seq(S) /\ Len(<<a>>) = 1 /\ <<a>>[1] = a
        BY <1>0, Zenon
    <2> QED BY <2>1, Zenon
<1>2. PICK F \in Seq(S) : F = <<b>> /\ Len(F) = 1 /\ F[1] = b
    <2>1. <<b>> \in Seq(S) /\ Len(<<b>>) = 1 /\ <<b>>[1] = b
        BY <1>0, Zenon
    <2> QED BY <2>1, Zenon
<1>3. PICK A \in Seq(S) : A = E \o D
    BY ConcatProperties, Zenon
<1>4. Len(A) = n + 1 /\ A[1] = a /\ \A i \in 1..n : A[i + 1] = D[i]
    <2>1. Len(A) = Len(E) + Len(D) /\ \A i \in 1..(Len(E) + Len(D)) :
              A[i] = IF i <= Len(E) THEN E[i] ELSE D[i - Len(E)]
        BY <1>3, ConcatProperties, Zenon
    <2>2. ASSUME NEW i \in 1..n PROVE A[i + 1] = D[i]
        <3>1. i + 1 \in 1..(1 + n) /\ ~(i + 1 <= 1) /\ (i + 1) - 1 = i
            OBVIOUS
        <3> QED BY <1>1, <2>1, <3>1
    <2>3. 1 \in 1..(1 + n) /\ 1 <= 1 /\ 1 + n = n + 1
        OBVIOUS
    <2> QED BY <1>1, <2>1, <2>2, <2>3
<1>5. PICK B : B = A \o F
    OBVIOUS
<1>6. Len(B) = n + 2 /\ B[n + 2] = b /\ \A i \in 1..(n + 1) : B[i] = A[i]
    <2>1. Len(B) = Len(A) + Len(F) /\ \A i \in 1..(Len(A) + Len(F)) :
              B[i] = IF i <= Len(A) THEN A[i] ELSE F[i - Len(A)]
        BY <1>5, ConcatProperties, Zenon
    <2>2. n + 2 \in 1..((n + 1) + 1) /\ ~(n + 2 <= n + 1) /\ (n + 2) - (n + 1) = 1 /\ (n + 1) + 1 = n + 2
        OBVIOUS
    <2>3. \A i \in 1..(n + 1) : i \in 1..((n + 1) + 1) /\ i <= n + 1
        OBVIOUS
    <2> QED BY <1>2, <1>4, <2>1, <2>2, <2>3
<1>7. B[1] = a /\ \A i \in 1..n : B[i + 1] = D[i]
    <2>1. 1 \in 1..(n + 1) /\ \A i \in 1..n : i + 1 \in 1..(n + 1)
        OBVIOUS
    <2> QED BY <1>4, <1>6, <2>1
<1> QED BY <1>1, <1>2, <1>3, <1>5, <1>6, <1>7

\* The amounts that the step patterns look at, in their order.
LEMMA PhrasesAre ==
    ASSUME NEW m \in Messages
    PROVE  /\ Len(StepPhrases(m)) = Len(m.data) + 2
           /\ StepPhrases(m)[1] = m.every /\ StepPhrases(m)[Len(m.data) + 2] = m.english
           /\ \A i \in 1..Len(m.data) :
                 StepPhrases(m)[i + 1] = IF m.data[i] = "range" THEN m.range ELSE m.point
<1>1. m.data \in Seq({"range", "point"}) /\ {m.every, m.english, m.range, m.point} \subseteq SaidAmounts
    BY DEF Messages
<1>2. PICK n \in Nat : n = Len(m.data)
    BY <1>1
<1>3. DataAmounts(m) \in Seq(SaidAmounts) /\ Len(DataAmounts(m)) = n
    BY <1>1, <1>2 DEF DataAmounts
<1>4. \A i \in 1..n : DataAmounts(m)[i] = IF m.data[i] = "range" THEN m.range ELSE m.point
    BY <1>2 DEF DataAmounts
<1>5. /\ Len(StepPhrases(m)) = n + 2
      /\ StepPhrases(m)[1] = m.every /\ StepPhrases(m)[n + 2] = m.english
      /\ \A i \in 1..n : StepPhrases(m)[i + 1] = DataAmounts(m)[i]
    <2>1. PICK D \in Seq(SaidAmounts), a \in SaidAmounts, b \in SaidAmounts :
              D = DataAmounts(m) /\ a = m.every /\ b = m.english
        BY <1>1, <1>3
    <2>2. StepPhrases(m) = <<a>> \o D \o <<b>>
        BY <2>1 DEF StepPhrases
    <2>3. Len(D) = n
        BY <1>3, <2>1
    <2>4. LET B == <<a>> \o D \o <<b>>
          IN  Len(B) = n + 2 /\ B[1] = a /\ B[n + 2] = b /\ \A i \in 1..n : B[i + 1] = D[i]
        BY <2>3, Surrounded
    <2> QED BY <2>1, <2>2, <2>4, Zenon
<1> QED BY <1>2, <1>4, <1>5

\* Of a message that is readable, the patterns find a step if there is one, and
\* never take the range for it.
LEMMA StepFound ==
    ASSUME NEW m \in Messages, Readable(m)
    PROVE  IF SteppingAmounts(m) = {} THEN StepSaid(m).text = <<>> ELSE StepSaid(m) \in SteppingAmounts(m)
<1>1. PICK n \in Nat : n = Len(m.data)
    BY DEF Messages
<1>2. PICK said : said = StepPhrases(m)
    OBVIOUS
<1>3. /\ Len(said) = n + 2 /\ said[1] = m.every /\ said[n + 2] = m.english
      /\ \A i \in 1..n : said[i + 1] = IF m.data[i] = "range" THEN m.range ELSE m.point
    BY <1>1, <1>2, PhrasesAre
<1> DEFINE Matches(i) == said[i].text # <<>> /\ said[i].unit \in StepUnits
           matching == {i \in 1..(n + 2) : Matches(i)}
<1>4. StepSaid(m) = IF matching = {} THEN Nothing
                    ELSE said[CHOOSE i \in matching : \A j \in matching : i <= j]
    BY <1>2, <1>3 DEF StepSaid
<1>5. \A a \in SaidAmounts : a.unit # "h" => a.unit \in StepUnits
    BY DEF SaidAmounts, Unit, StepUnits
<1>6. \A a \in SteppingAmounts(m) : a \in SaidAmounts /\ a.unit \in StepUnits /\ a.text # <<>>
    BY <1>5 DEF SteppingAmounts, Readable, Messages
<1>7. /\ m.every.text # <<>> => m.every \in SteppingAmounts(m)
      /\ m.english.text # <<>> => m.english \in SteppingAmounts(m)
      /\ \A i \in 1..n : m.data[i] = "point" /\ m.point.text # <<>> => m.point \in SteppingAmounts(m)
    BY <1>1 DEF SteppingAmounts
<1>8. \A i \in 1..n : m.data[i] \in {"range", "point"}
    BY <1>1 DEF Messages
<1>9. CASE matching = {}
    <2>1. m.every \notin SteppingAmounts(m)
        <3>1. 1 \in 1..(n + 2)
            OBVIOUS
        <3> QED BY <1>3, <1>6, <1>9, <3>1
    <2>2. m.english \notin SteppingAmounts(m)
        <3>1. n + 2 \in 1..(n + 2)
            OBVIOUS
        <3> QED BY <1>3, <1>6, <1>9, <3>1
    <2>3. ASSUME NEW i \in 1..n, m.data[i] = "point" PROVE m.point \notin SteppingAmounts(m)
        <3>1. i + 1 \in 1..(n + 2) /\ said[i + 1] = m.point
            BY <1>3, <2>3
        <3> QED BY <1>6, <1>9, <3>1
    <2>4. SteppingAmounts(m) = {}
        BY <1>1, <2>1, <2>2, <2>3 DEF SteppingAmounts
    <2> QED BY <1>4, <1>9, <2>4 DEF Nothing
<1>10. CASE matching # {}
    <2>1. PICK k \in matching : \A j \in matching : k <= j
        <3>1. matching \in SUBSET Nat
            OBVIOUS
        <3> HIDE DEF matching
        <3> QED BY <1>10, <3>1, LeastNatural
    <2>2. PICK c : c = CHOOSE i \in matching : \A j \in matching : i <= j
        OBVIOUS
    <2>3. c \in matching /\ \A j \in matching : c <= j
        BY <2>1, <2>2
    <2>4. StepSaid(m) = said[c]
        BY <1>4, <1>10, <2>2
    <2>5. c \in 1..(n + 2) /\ said[c].text # <<>> /\ said[c].unit \in StepUnits
        BY <2>3
    <2>6. said[c] \in SteppingAmounts(m)
        <3>1. CASE c = 1
            BY <1>3, <1>7, <2>5, <3>1
        <3>2. CASE c = n + 2
            BY <1>3, <1>7, <2>5, <3>2
        <3>3. CASE c \in 2..(n + 1)
            <4>1. PICK i \in 1..n : c = i + 1
                <5>1. c - 1 \in 1..n /\ c = (c - 1) + 1
                    BY <3>3
                <5> QED BY <5>1
            <4>2. CASE m.data[i] = "point"
                BY <1>3, <1>7, <2>5, <4>1, <4>2
            <4>3. CASE m.data[i] = "range"
                <5>1. said[c] = m.range
                    BY <1>3, <4>1, <4>3
                <5>2. m.range.text # <<>> /\ m.range.unit # "h"
                    BY <2>5, <5>1 DEF StepUnits
                <5>3. CASE m.every.text # <<>>
                    <6>1. 1 \in matching
                        BY <1>3, <1>6, <1>7, <5>3
                    <6> QED BY <2>3, <4>1, <6>1
                <5>4. ASSUME NEW j \in 1..(i - 1), m.data[j] = "point", m.point.text # <<>> PROVE FALSE
                    <6>1. j \in 1..n /\ j + 1 \in 1..(n + 2) /\ j + 1 < c
                        BY <4>1
                    <6>2. said[j + 1] = m.point /\ m.point \in SteppingAmounts(m)
                        BY <1>3, <1>7, <5>4, <6>1
                    <6>3. j + 1 \in matching
                        BY <1>6, <6>1, <6>2
                    <6> QED BY <2>3, <6>1, <6>3
                <5>5. \/ m.every.text # <<>>
                      \/ \E j \in 1..(i - 1) : m.data[j] = "point" /\ m.point.text # <<>>
                    BY <1>1, <4>3, <5>2 DEF Readable
                <5> QED BY <5>3, <5>4, <5>5
            <4> QED BY <1>8, <4>2, <4>3
        <3> QED BY <2>5, <3>1, <3>2, <3>3
    <2> QED BY <2>4, <2>6
<1> QED BY <1>9, <1>10

\* The duration that is planned for a request is the one that is meant.
LEMMA DurationIsMeant ==
    ASSUME NEW r \in Requests, Acceptable(r), Fits(r.message.range)
    PROVE  /\ PlannedDuration(SaidDuration(r.message.range), r.asked) = MeantDuration(r)
           /\ MeantDuration(r) \in Nat
<1>1. r.message.range \in SaidAmounts /\ r.asked.duration \in Int
    BY InputsAssumption DEF InputsAssumption, Messages
<1>2. DefaultRange \in Nat /\ DefaultRange = 30 * Minute
    BY ClockAssumption DEF ClockAssumption, DefaultRange, Minute
<1>3. r.asked.kind # "none" => r.asked.duration \in Nat
    BY <1>1 DEF Acceptable
<1>4. CASE r.message.range.text = <<>>
    <2>1. SaidDuration(r.message.range) = Absent
        BY <1>4 DEF SaidDuration
    <2> QED BY <1>2, <1>3, <1>4, <2>1 DEF PlannedDuration, MeantDuration, Absent
<1>5. CASE r.message.range.text # <<>>
    <2>1. /\ SaidDuration(r.message.range) = Given(Meant(r.message.range))
          /\ Meant(r.message.range) \in Nat
        BY <1>1, <1>5, SaidIsMeant
    <2> QED BY <1>3, <1>5, <2>1 DEF PlannedDuration, MeantDuration, Given
<1> QED BY <1>4, <1>5

\* A step that was said or asked for is the one that is planned.
LEMMA StepIsMeant ==
    ASSUME NEW r \in Requests, Acceptable(r), Readable(r.message), NEW d
    PROVE  IF MessageStep(r.message).given \/ r.askedStep.given
           THEN \E v \in Nat \ {0} : /\ PlannedStep(MessageStep(r.message), r.askedStep, d) = v
                                     /\ ExplicitSteps(r) = {v * Second}
           ELSE ExplicitSteps(r) = {}
<1>1. r.message \in Messages /\ r.askedStep \in Parameters
    BY InputsAssumption DEF InputsAssumption
<1>2. PICK said : said = StepSaid(r.message)
    OBVIOUS
<1>3. /\ said.text # <<>> => said \in SaidAmounts /\ Fits(said)
      /\ ExplicitSteps(r) = IF said.text # <<>> THEN {Meant(said)}
                            ELSE IF r.askedStep.given THEN {r.askedStep.value * Second} ELSE {}
    <2>1. PICK S : S = SteppingAmounts(r.message)
        OBVIOUS
    <2>2. \A a \in S : a \in SaidAmounts /\ a.text # <<>>
        BY <1>1, <2>1 DEF SteppingAmounts, Messages
    <2>3. \A a \in S : Fits(a) /\ \A b \in S : Meant(a) = Meant(b)
        BY <2>1 DEF Readable
    <2>4. IF S = {} THEN said.text = <<>> ELSE said \in S
        BY <1>1, <1>2, <2>1, StepFound
    <2>5. ExplicitSteps(r) = IF S # {} THEN {Meant(a) : a \in S}
                             ELSE IF r.askedStep.given THEN {r.askedStep.value * Second} ELSE {}
        BY <2>1 DEF ExplicitSteps
    <2>6. CASE S = {}
        BY <2>4, <2>5, <2>6
    <2>7. CASE S # {}
        <3>1. said \in S
            BY <2>4, <2>7
        <3>2. {Meant(a) : a \in S} = {Meant(said)}
            BY <2>3, <3>1
        <3> QED BY <2>2, <2>3, <2>5, <2>7, <3>1, <3>2
    <2> QED BY <2>6, <2>7
<1>4. MessageStep(r.message) = IF SaidDuration(said).given THEN Given(InSeconds(SaidDuration(said).value)) ELSE Absent
    BY <1>2 DEF MessageStep
<1>5. CASE said.text # <<>>
    <2>1. /\ SaidDuration(said) = Given(Meant(said))
          /\ InSeconds(Meant(said)) \in Nat \ {0} /\ InSeconds(Meant(said)) * Second = Meant(said)
        BY <1>3, <1>5, SaidIsMeant
    <2>2. MessageStep(r.message) = Given(InSeconds(Meant(said)))
        BY <1>4, <2>1 DEF Given
    <2>3. PlannedStep(MessageStep(r.message), r.askedStep, d) = InSeconds(Meant(said)) /\ MessageStep(r.message).given
        BY <2>2 DEF PlannedStep, Given
    <2> QED BY <1>3, <1>5, <2>1, <2>3
<1>6. CASE said.text = <<>>
    <2>1. MessageStep(r.message) = Absent
        BY <1>4, <1>6 DEF SaidDuration, Absent
    <2>2. CASE r.askedStep.given
        <3>1. r.askedStep.value \in Nat \ {0}
            BY <1>1, <2>2 DEF Acceptable, Parameters
        <3>2. PlannedStep(MessageStep(r.message), r.askedStep, d) = r.askedStep.value
            BY <2>1, <2>2 DEF PlannedStep, Absent
        <3> QED BY <1>3, <1>6, <2>2, <3>1, <3>2
    <2>3. CASE ~r.askedStep.given
        BY <1>3, <1>6, <2>1, <2>3 DEF Absent
    <2> QED BY <2>2, <2>3
<1> QED BY <1>5, <1>6

\* The steps in ticks, and what is meant in them.
AllowedTicks == {s * Second : s \in AllowedSteps}

StepsFor(explicit, d) ==
    IF explicit # {} THEN {s \in explicit \cap AllowedTicks : Serves(s, d, 1000)}
    ELSE {s \in AllowedTicks : Serves(s, d, 300) /\ \A u \in AllowedTicks : u < s => ~Serves(u, d, 300)}

LEMMA MeantStepsAre ==
    ASSUME NEW r
    PROVE  MeantSteps(r) = StepsFor(ExplicitSteps(r), MeantDuration(r))
BY DEF MeantSteps, StepsFor, Serves, AllowedTicks

LEMMA AllowedTick ==
    ASSUME NEW v \in Nat
    PROVE  v * Second \in AllowedTicks <=> v \in AllowedSteps
<1>1. ASSUME NEW s \in AllowedSteps, v * Second = s * Second PROVE v \in AllowedSteps
    <2>1. s \in Int
        BY DEF AllowedSteps
    <2> QED BY <1>1, <2>1, TimesSecond
<1> QED BY <1>1 DEF AllowedTicks

\* A request whose message is readable, with a duration within the bounds.
SaidWell(r) ==
    /\ Readable(r.message)
    /\ 30 * Second <= MeantDuration(r) /\ MeantDuration(r) <= 6 * Hour

\* A request is accepted if and only if there is a step that serves it, and then
\* that one is planned.
LEMMA PlannedAsMeant ==
    ASSUME NEW r \in Requests, Acceptable(r), SaidWell(r)
    PROVE  LET range == SaidDuration(r.message.range)
               step == MessageStep(r.message)
           IN  /\ Accepted(r.message.views, range, step, r.asked, r.askedStep) <=> MeantSteps(r) # {}
               /\ MeantSteps(r) # {} =>
                     PlannedStep(step, r.askedStep, MeantDuration(r)) * Second \in MeantSteps(r)
<1> DEFINE range == SaidDuration(r.message.range)
           step == MessageStep(r.message)
           d == MeantDuration(r)
           v == PlannedStep(step, r.askedStep, d)
<1>1. PlannedDuration(range, r.asked) = d /\ d \in Nat
    BY DurationIsMeant DEF SaidWell, Readable
<1>2. MinRange <= d /\ d <= MaxRange
    BY DEF SaidWell, MinRange, MaxRange
<1>3. ViewsAccepted(r.message.views)
    BY InputsAssumption DEF InputsAssumption
<1>4. Accepted(r.message.views, range, step, r.asked, r.askedStep)
          <=> (step.given \/ r.askedStep.given => StepAccepted(v, d))
    <2> HIDE DEF range, step, d, v
    <2>1. v = PlannedStep(step, r.askedStep, d)
        BY DEF v
    <2> QED BY <1>1, <1>2, <1>3, <2>1 DEF Accepted
<1>5. CASE step.given \/ r.askedStep.given
    <2>1. PICK w \in Nat \ {0} : v = w /\ ExplicitSteps(r) = {w * Second}
        BY <1>5, StepIsMeant DEF SaidWell
    <2> HIDE DEF range, step, d, v
    <2>2. w * Second \in AllowedTicks <=> w \in AllowedSteps
        BY AllowedTick
    <2>3. Serves(w * Second, d, 1000) <=> TheoreticalPoints(d, w) <= 1000
        <3>1. d \in Nat /\ w \in Nat \ {0}
            BY <1>1
        <3>2. PICK s : s = w * Second
            OBVIOUS
        <3>3. PICK p \in Nat : p = 1000
            OBVIOUS
        <3>4. Serves(s, d, p) <=> TheoreticalPoints(d, w) <= p
            BY <3>1, <3>2, WithinPoints
        <3> QED BY <3>2, <3>3, <3>4
    <2>4. MeantSteps(r) = {s \in {w * Second} \cap AllowedTicks : Serves(s, d, 1000)}
        BY <2>1, MeantStepsAre DEF d, StepsFor
    <2>5. StepAccepted(v, d) <=> w * Second \in MeantSteps(r)
        BY <2>1, <2>2, <2>3, <2>4 DEF StepAccepted, MaxExplicitPoints
    <2>6. MeantSteps(r) # {} => w * Second \in MeantSteps(r)
        BY <2>4
    <2> QED BY <1>4, <1>5, <2>1, <2>5, <2>6 DEF range, step, d, v
<1>6. CASE ~(step.given \/ r.askedStep.given)
    <2>1. v = AutoStep(d) /\ ExplicitSteps(r) = {}
        BY <1>6, StepIsMeant DEF SaidWell, PlannedStep
    <2> HIDE DEF range, step, d, v
    <2>2. PICK w \in AllowedSteps : w = AutoStep(d)
        BY <1>1, <1>2, AutoStepFits
    <2>3. TheoreticalPoints(d, w) <= 300
        BY <1>1, <1>2, <2>2, AutoStepFits DEF MaxAutoPoints
    <2>4. \A u \in AllowedSteps : TheoreticalPoints(d, u) <= 300 => w <= u
        BY <1>1, <1>2, <2>2, AutoStepFits DEF MaxAutoPoints
    <2>5. \A u \in AllowedSteps : u \in Nat \ {0}
        BY DEF AllowedSteps
    <2>6. ASSUME NEW u \in AllowedSteps PROVE Serves(u * Second, d, 300) <=> TheoreticalPoints(d, u) <= 300
        <3>1. d \in Nat /\ u \in Nat \ {0}
            BY <1>1, <2>5
        <3>2. PICK s : s = u * Second
            OBVIOUS
        <3>3. PICK p \in Nat : p = 300
            OBVIOUS
        <3>4. Serves(s, d, p) <=> TheoreticalPoints(d, u) <= p
            BY <3>1, <3>2, WithinPoints
        <3> QED BY <3>2, <3>3, <3>4
    <2>7. w * Second \in AllowedTicks /\ Serves(w * Second, d, 300)
        BY <2>3, <2>6 DEF AllowedTicks
    <2>8. ASSUME NEW u \in AllowedTicks, u < w * Second PROVE ~Serves(u, d, 300)
        <3>1. PICK a \in AllowedSteps : u = a * Second
            BY DEF AllowedTicks
        <3>2. a < w
            BY <2>5, <2>8, <3>1, TimesSecond
        <3>3. ~(w <= a)
            BY <2>5, <3>2
        <3> QED BY <2>4, <2>6, <3>1, <3>3
    <2>9. w * Second \in MeantSteps(r)
        BY <2>1, <2>7, <2>8, MeantStepsAre DEF d, StepsFor
    <2> QED BY <1>4, <1>6, <2>1, <2>2, <2>9 DEF range, step, d, v
<1> QED BY <1>5, <1>6

-----------------------------------------------------------------------------
(* The history *)

\* planningHistory, a turn at a time.
EmptyHistory == [items |-> <<>>, runes |-> 0, full |-> FALSE]
ReadTurn(r, turn) ==
    IF r.full \/ Len(r.items) >= HistoryItems \/ r.runes + turn.length > HistoryRunes
    THEN [r EXCEPT !.full = TRUE]
    ELSE IF turn.views = <<>> THEN r
    ELSE [r EXCEPT !.items = <<turn>> \o @, !.runes = @ + turn.length]
ReadsTurns(all, f) ==
    f = [i \in 0..Len(all) |-> IF i = 0 THEN EmptyHistory ELSE ReadTurn(f[i - 1], all[Len(all) + 1 - i])]

LEMMA HistoryReads ==
    ASSUME NEW S, NEW all \in Seq(S)
    PROVE  \E f : ReadsTurns(all, f) /\ PlanningHistory(all) = f[Len(all)].items
<1> DEFINE Prefix(m, f) ==
               f = [i \in 0..m |-> IF i = 0 THEN EmptyHistory ELSE ReadTurn(f[i - 1], all[Len(all) + 1 - i])]
           P == {m \in Nat : \E f : Prefix(m, f)}
<1>1. 0 \in P
    <2>1. Prefix(0, [i \in 0..0 |-> EmptyHistory])
        OBVIOUS
    <2> QED BY <2>1
<1>2. ASSUME NEW m \in P PROVE m + 1 \in P
    <2>1. PICK f : Prefix(m, f)
        OBVIOUS
    <2>2. m \in Nat
        OBVIOUS
    <2> DEFINE next == ReadTurn(f[m], all[Len(all) + 1 - (m + 1)])
               g == [i \in 0..(m + 1) |-> IF i = m + 1 THEN next ELSE f[i]]
    <2>3. ASSUME NEW i \in 0..(m + 1)
          PROVE  g[i] = IF i = 0 THEN EmptyHistory ELSE ReadTurn(g[i - 1], all[Len(all) + 1 - i])
        <3>1. CASE i = m + 1
            <4>1. g[i] = ReadTurn(f[m], all[Len(all) + 1 - i]) /\ g[i - 1] = f[m] /\ i # 0
                BY <2>2, <3>1
            <4> QED BY <3>1, <4>1
        <3>2. CASE i \in 0..m
            <4>1. f[i] = IF i = 0 THEN EmptyHistory ELSE ReadTurn(f[i - 1], all[Len(all) + 1 - i])
                BY <2>1, <3>2
            <4>2. g[i] = f[i] /\ (i # 0 => g[i - 1] = f[i - 1])
                BY <2>2, <3>2
            <4> QED BY <4>1, <4>2
        <3> QED BY <2>2, <3>1, <3>2
    <2>4. g = [i \in 0..(m + 1) |-> g[i]]
        OBVIOUS
    <2> HIDE DEF g
    <2>5. Prefix(m + 1, g)
        BY <2>3, <2>4
    <2> QED BY <2>2, <2>5
<1> HIDE DEF P
<1>3. P \subseteq Nat
    BY DEF P
<1>4. Len(all) \in P
    BY <1>1, <1>2, <1>3, Induction
<1>5. \E f : ReadsTurns(all, f)
    BY <1>4 DEF P, ReadsTurns
<1> DEFINE read == CHOOSE f : ReadsTurns(all, f)
<1>6. ReadsTurns(all, read)
    BY <1>5
<1>7. PlanningHistory(all) = read[Len(all)].items
    BY DEF PlanningHistory, ReadsTurns, ReadTurn, EmptyHistory
<1> QED BY <1>6, <1>7

\* The turns from m to n that showed something, and what the end of a history
\* has to do with them: it is the last of them.
ShownTurns(all, m, n) == {i \in m..n : all[i].views # <<>>}
EndsInLast(history, all, m, n) ==
    IF ShownTurns(all, m, n) = {} THEN history = <<>>
    ELSE /\ history # <<>>
         /\ \E k \in ShownTurns(all, m, n) : /\ \A j \in ShownTurns(all, m, n) : j <= k
                                             /\ history[Len(history)] = all[k]

\* As long as none has shown anything, nothing counts towards the limits: so the
\* limits never keep the latest turn that showed something out.
ReadOK(all, S, i, r) ==
    /\ r \in [items : Seq(S), runes : Nat, full : BOOLEAN]
    /\ EndsInLast(r.items, all, Len(all) + 1 - i, Len(all))
    /\ ShownTurns(all, Len(all) + 1 - i, Len(all)) = {} => r = EmptyHistory

LEMMA ReadTurnOK ==
    ASSUME NEW S, NEW all \in Seq(S), NEW i \in 0..(Len(all) - 1), NEW r, ReadOK(all, S, i, r),
           all[Len(all) - i].length \in 1..MessageRunes
    PROVE  ReadOK(all, S, i + 1, ReadTurn(r, all[Len(all) - i]))
<1> DEFINE n == Len(all)
           m == Len(all) - i
           turn == all[m]
           q == ReadTurn(r, turn)
<1>1. n \in Nat /\ m \in 1..n /\ turn \in S /\ n + 1 - i = m + 1 /\ n + 1 - (i + 1) = m
    OBVIOUS
<1>2. /\ r \in [items : Seq(S), runes : Nat, full : BOOLEAN]
      /\ EndsInLast(r.items, all, m + 1, n)
      /\ ShownTurns(all, m + 1, n) = {} => r = EmptyHistory
    BY <1>1 DEF ReadOK
<1>3. HistoryItems \in Nat \ {0} /\ HistoryRunes \in Nat /\ MessageRunes \in Nat /\ MessageRunes <= HistoryRunes
    BY HistoryAssumption DEF HistoryAssumption
<1>4. turn.length \in Nat /\ turn.length <= HistoryRunes
    BY <1>3
<1>5. ShownTurns(all, m, n) = ShownTurns(all, m + 1, n) \cup (IF turn.views = <<>> THEN {} ELSE {m})
    BY <1>1 DEF ShownTurns
<1>6. \A k \in ShownTurns(all, m + 1, n) : m <= k
    BY <1>1 DEF ShownTurns
<1> HIDE DEF n, m, turn
<1>7. q \in [items : Seq(S), runes : Nat, full : BOOLEAN]
    <2>1. <<turn>> \o r.items \in Seq(S) /\ r.runes + turn.length \in Nat
        BY <1>1, <1>2, <1>4
    <2> QED BY <1>2, <2>1 DEF ReadTurn
<1>8. CASE ShownTurns(all, m + 1, n) = {}
    <2>1. r.items = <<>> /\ r.runes = 0 /\ r.full = FALSE /\ Len(r.items) = 0
        BY <1>2, <1>8 DEF EmptyHistory
    <2>2. ~(r.full \/ Len(r.items) >= HistoryItems \/ r.runes + turn.length > HistoryRunes)
        BY <1>3, <1>4, <2>1
    <2>3. CASE turn.views = <<>>
        <3>1. q = r /\ ShownTurns(all, m, n) = {}
            BY <1>5, <1>8, <2>2, <2>3 DEF ReadTurn
        <3>2. q = EmptyHistory /\ EndsInLast(q.items, all, m, n)
            BY <1>2, <1>8, <2>1, <3>1 DEF EndsInLast
        <3> QED BY <1>1, <1>7, <3>1, <3>2 DEF ReadOK, n, m, turn
    <2>4. CASE turn.views # <<>>
        <3>1. q.items = <<turn>> \o <<>> /\ ShownTurns(all, m, n) = {m}
            BY <1>2, <1>5, <1>8, <2>1, <2>2, <2>4 DEF ReadTurn
        <3>2. <<turn>> \o <<>> = <<turn>>
            BY <1>1
        <3>3. q.items # <<>> /\ q.items[Len(q.items)] = all[m]
            <4>1. q.items = <<turn>> /\ Len(<<turn>>) = 1 /\ <<turn>>[1] = turn
                BY <3>1, <3>2
            <4>2. q.items # <<>>
                BY <4>1
            <4> QED BY <4>1, <4>2 DEF turn
        <3>4. EndsInLast(q.items, all, m, n) /\ m \in ShownTurns(all, m, n)
            BY <1>1, <3>1, <3>3 DEF EndsInLast
        <3> QED BY <1>1, <1>7, <3>4 DEF ReadOK, n, m, turn
    <2> QED BY <2>3, <2>4
<1>9. CASE ShownTurns(all, m + 1, n) # {}
    <2>1. PICK k \in ShownTurns(all, m + 1, n) : /\ \A j \in ShownTurns(all, m + 1, n) : j <= k
                                                 /\ r.items[Len(r.items)] = all[k]
        BY <1>2, <1>9 DEF EndsInLast
    <2>2. r.items # <<>>
        BY <1>2, <1>9 DEF EndsInLast
    <2>3. q.items = r.items \/ q.items = <<turn>> \o r.items
        BY <1>2 DEF ReadTurn
    <2>4. q.items # <<>> /\ q.items[Len(q.items)] = r.items[Len(r.items)]
        <3>1. Len(r.items) \in Nat /\ Len(r.items) # 0
            BY <1>2, <2>2, EmptySeq
        <3>2. CASE q.items = r.items
            BY <2>2, <3>2
        <3>3. CASE q.items = <<turn>> \o r.items
            <4>1. PICK s \in Seq(S) : s = r.items
                BY <1>2
            <4>2. /\ Len(<<turn>> \o s) = 1 + Len(s)
                  /\ (<<turn>> \o s)[1 + Len(s)] = s[Len(s)]
                <5>1. <<turn>> \in Seq(S) /\ Len(<<turn>>) = 1 /\ Len(s) \in Nat /\ Len(s) # 0
                    BY <1>1, <3>1, <4>1
                <5>2. PICK t \in Seq(S) : t = <<turn>>
                    BY <5>1
                <5>3. Len(t \o s) = Len(t) + Len(s) /\ (t \o s)[Len(t) + Len(s)] = s[Len(s)]
                    BY <5>1, <5>2, ConcatProperties
                <5> QED BY <5>1, <5>2, <5>3
            <4>3. q.items # <<>>
                BY <3>1, <3>3, <4>1, <4>2
            <4> QED BY <3>3, <4>1, <4>2, <4>3
        <3> QED BY <2>3, <3>2, <3>3
    <2>5. k \in ShownTurns(all, m, n) /\ \A j \in ShownTurns(all, m, n) : j <= k
        BY <1>5, <1>6, <2>1
    <2>6. EndsInLast(q.items, all, m, n) /\ ShownTurns(all, m, n) # {}
        BY <2>1, <2>4, <2>5 DEF EndsInLast
    <2> QED BY <1>1, <1>7, <2>6 DEF ReadOK, n, m, turn
<1> QED BY <1>8, <1>9

\* A history that is not empty ends with the latest turn that showed something.
LEMMA HistoryEndsInLast ==
    ASSUME NEW S, NEW all \in Seq(S), \A i \in 1..Len(all) : all[i].length \in 1..MessageRunes
    PROVE  EndsInLast(PlanningHistory(all), all, 1, Len(all))
<1>1. PICK f : ReadsTurns(all, f) /\ PlanningHistory(all) = f[Len(all)].items
    BY HistoryReads
<1> DEFINE P == {m \in Nat : m <= Len(all) => ReadOK(all, S, m, f[m])}
<1>2. 0 \in P
    <2>1. f[0] = EmptyHistory
        BY <1>1 DEF ReadsTurns
    <2>2. ShownTurns(all, Len(all) + 1 - 0, Len(all)) = {}
        BY DEF ShownTurns
    <2>3. EmptyHistory \in [items : Seq(S), runes : Nat, full : BOOLEAN] /\ EmptyHistory.items = <<>>
        BY DEF EmptyHistory
    <2>4. ReadOK(all, S, 0, EmptyHistory)
        BY <2>2, <2>3 DEF ReadOK, EndsInLast
    <2> QED BY <2>1, <2>4
<1>3. ASSUME NEW m \in P PROVE m + 1 \in P
    <2>1. SUFFICES ASSUME m + 1 <= Len(all) PROVE ReadOK(all, S, m + 1, f[m + 1])
        OBVIOUS
    <2>2. /\ m \in Nat /\ m \in 0..(Len(all) - 1) /\ m + 1 \in 1..Len(all)
          /\ (m + 1) - 1 = m /\ Len(all) + 1 - (m + 1) = Len(all) - m /\ Len(all) - m \in 1..Len(all)
        BY <2>1
    <2>3. ReadOK(all, S, m, f[m])
        BY <2>2
    <2>4. f[m + 1] = ReadTurn(f[m], all[Len(all) - m])
        <3>1. m + 1 \in 0..Len(all) /\ m + 1 # 0
            BY <2>2
        <3>2. f[m + 1] = ReadTurn(f[(m + 1) - 1], all[Len(all) + 1 - (m + 1)])
            BY <1>1, <3>1 DEF ReadsTurns
        <3> QED BY <2>2, <3>2
    <2>5. all[Len(all) - m].length \in 1..MessageRunes
        BY <2>2
    <2> QED BY <2>2, <2>3, <2>4, <2>5, ReadTurnOK
<1> HIDE DEF P
<1>4. P \subseteq Nat
    BY DEF P
<1>5. Len(all) \in P
    BY <1>2, <1>3, <1>4, Induction
<1>6. ReadOK(all, S, Len(all), f[Len(all)])
    BY <1>5 DEF P
<1>7. Len(all) + 1 - Len(all) = 1
    OBVIOUS
<1> QED BY <1>1, <1>6, <1>7 DEF ReadOK

-----------------------------------------------------------------------------
(* The inductive invariant *)

\* The turns are a sequence of messages the API let through.
TurnsOK ==
    /\ \E S : turns \in Seq(S)
    /\ \A i \in 1..Len(turns) : turns[i].length \in 1..MessageRunes
\* The request is one that the API let through, and its history ends with the
\* latest turn that had views when it was sent: turns are only added after it.
RequestOK ==
    request.sent =>
        /\ \E r \in Requests : /\ Acceptable(r) /\ request.message = r.message
                               /\ request.asked = r.asked /\ request.askedStep = r.askedStep
        /\ request.turns \in 0..Len(turns)
        /\ EndsInLast(request.history, turns, 1, request.turns)
PlanningInv == TurnsOK /\ RequestOK /\ PlansAreExecutable

\* Sent requests have integers for durations and a length within the limit.
LEMMA RequestTypes ==
    ASSUME RequestOK, request.sent
    PROVE  /\ request.asked.duration \in Int /\ SaidDuration(request.message.range).value \in Int
           /\ request.message.length \in 1..MessageRunes
<1>1. PICK r \in Requests : /\ Acceptable(r) /\ request.message = r.message
                            /\ request.asked = r.asked /\ request.askedStep = r.askedStep
    BY DEF RequestOK
<1>2. r.asked.duration \in Int /\ r.message.range \in SaidAmounts
    BY InputsAssumption DEF InputsAssumption, Messages
<1> QED BY <1>1, <1>2, SaidIsInt DEF Acceptable

\* A turn that is added to them.
LEMMA AppendTurn ==
    ASSUME NEW views, NEW plan, NEW length, Executable(views, plan), length \in 1..MessageRunes,
           TurnsOK, PlansAreExecutable,
           turns' = Append(turns, [plan |-> plan, views |-> views, length |-> length])
    PROVE  /\ TurnsOK' /\ PlansAreExecutable'
           /\ Len(turns) \in Nat /\ Len(turns') = Len(turns) + 1
           /\ turns'[Len(turns')].views = views /\ turns'[Len(turns')].plan = plan
           /\ \A i \in 1..Len(turns) : turns'[i] = turns[i]
<1> DEFINE turn == [plan |-> plan, views |-> views, length |-> length]
<1>1. turn.plan = plan /\ turn.views = views /\ turn.length = length
    OBVIOUS
<1> HIDE DEF turn
<1>2. turns' = Append(turns, turn)
    BY DEF turn
<1>3. PICK S : turns \in Seq(S)
    BY DEF TurnsOK
<1>4. turns \in Seq(S \cup {turn}) /\ turns' \in Seq(S \cup {turn}) /\ Len(turns) \in Nat
    BY <1>2, <1>3
<1>5. /\ Len(turns') = Len(turns) + 1 /\ turns'[Len(turns) + 1] = turn
      /\ \A i \in 1..Len(turns) : turns'[i] = turns[i]
    BY <1>2, <1>4
<1>6. ASSUME NEW i \in 1..Len(turns')
      PROVE  Executable(turns'[i].views, turns'[i].plan) /\ turns'[i].length \in 1..MessageRunes
    <2>1. CASE i = Len(turns) + 1
        BY <1>1, <1>5, <2>1
    <2>2. CASE i \in 1..Len(turns)
        BY <1>5, <2>2 DEF PlansAreExecutable, Executable, TurnsOK
    <2> QED BY <1>4, <1>5, <2>1, <2>2
<1>7. TurnsOK'
    BY <1>4, <1>6 DEF TurnsOK
<1>8. PlansAreExecutable'
    BY <1>6 DEF PlansAreExecutable, Executable
<1> QED BY <1>1, <1>4, <1>5, <1>7, <1>8

\* A request that goes on keeps its history: turns are only added.
LEMMA RequestKept ==
    ASSUME RequestOK, request' = request, Len(turns) \in Nat, Len(turns') \in Nat, Len(turns) <= Len(turns'),
           \A i \in 1..Len(turns) : turns'[i] = turns[i]
    PROVE  RequestOK'
<1> SUFFICES ASSUME request.sent PROVE RequestOK'
    BY DEF RequestOK
<1>1. request.turns \in 0..Len(turns) /\ EndsInLast(request.history, turns, 1, request.turns)
    BY DEF RequestOK
<1>2. PICK n \in 0..Len(turns) : n = request.turns
    BY <1>1
<1>3. ShownTurns(turns', 1, n) = ShownTurns(turns, 1, n) /\ ShownTurns(turns, 1, n) \subseteq 1..Len(turns)
    BY <1>2 DEF ShownTurns
<1>4. EndsInLast(request.history, turns', 1, n)
    BY <1>1, <1>2, <1>3 DEF EndsInLast
<1>5. n \in 0..Len(turns')
    BY <1>2
<1> QED BY <1>2, <1>4, <1>5 DEF RequestOK

\* ResolvePlannedQueryPlan, whoever planned.
LEMMA ResolveInv ==
    ASSUME PlanningInv, request.sent, NEW views, NEW range, NEW step,
           range.given => range.value \in Int, Resolve(views, range, step)
    PROVE  /\ PlanningInv'
           /\ turns' # turns => turns'[Len(turns')].views = views
           /\ IF Accepted(views, range, step, request.asked, request.askedStep)
              THEN /\ Len(turns') = Len(turns) + 1 /\ turns'[Len(turns')].views = views
                   /\ turns'[Len(turns')].plan = Plan(views, range, step, request.asked, request.askedStep)
              ELSE turns' = turns
<1>1. CASE /\ Accepted(views, range, step, request.asked, request.askedStep)
           /\ turns' = Append(turns, [plan |-> Plan(views, range, step, request.asked, request.askedStep),
                                      views |-> views, length |-> request.message.length])
           /\ request' = NoRequest
    <2>1. PICK plan, length : /\ plan = Plan(views, range, step, request.asked, request.askedStep)
                              /\ length = request.message.length
        OBVIOUS
    <2>2. Executable(views, plan) /\ length \in 1..MessageRunes
        BY <1>1, <2>1, AcceptedIsExecutable, RequestTypes DEF PlanningInv
    <2>3. turns' = Append(turns, [plan |-> plan, views |-> views, length |-> length])
        BY <1>1, <2>1
    <2>4. /\ TurnsOK' /\ PlansAreExecutable' /\ Len(turns') = Len(turns) + 1
          /\ turns'[Len(turns')].views = views /\ turns'[Len(turns')].plan = plan
        BY <2>2, <2>3, AppendTurn DEF PlanningInv
    <2>5. RequestOK'
        BY <1>1 DEF RequestOK, NoRequest
    <2>6. PlanningInv'
        BY <2>4, <2>5 DEF PlanningInv
    <2> QED BY <1>1, <2>1, <2>4, <2>6
<1>2. CASE Refuse /\ ~Accepted(views, range, step, request.asked, request.askedStep)
    <2>1. turns' = turns /\ ~request'.sent
        BY <1>2 DEF Refuse, NoRequest
    <2>2. PlanningInv'
        BY <2>1 DEF PlanningInv, TurnsOK, RequestOK, PlansAreExecutable
    <2> QED BY <1>2, <2>1, <2>2
<1> QED BY <1>1, <1>2 DEF Resolve

LEMMA InitInv == Init => PlanningInv
<1> SUFFICES ASSUME Init PROVE PlanningInv
    OBVIOUS
<1>1. turns \in Seq({}) /\ Len(turns) = 0
    BY DEF Init
<1> QED BY <1>1 DEF Init, PlanningInv, TurnsOK, RequestOK, PlansAreExecutable, NoRequest

\* planningHistory is read when the request is made.
LEMMA AskInv == PlanningInv /\ Ask => PlanningInv'
<1> SUFFICES ASSUME PlanningInv, Ask PROVE PlanningInv'
    OBVIOUS
<1>1. PICK r \in Requests :
          /\ Acceptable(r)
          /\ request' = [sent |-> TRUE, message |-> r.message, asked |-> r.asked, askedStep |-> r.askedStep,
                         history |-> PlanningHistory(turns), turns |-> Len(turns)]
    BY DEF Ask
<1>2. turns' = turns
    BY DEF Ask
<1>3. /\ request'.asked = r.asked /\ request'.message = r.message /\ request'.askedStep = r.askedStep
      /\ request'.history = PlanningHistory(turns) /\ request'.turns = Len(turns)
    BY <1>1
<1>4. PICK S : turns \in Seq(S)
    BY DEF PlanningInv, TurnsOK
<1>5. EndsInLast(PlanningHistory(turns), turns, 1, Len(turns))
    BY <1>4, HistoryEndsInLast DEF PlanningInv, TurnsOK
<1>6. Len(turns) \in 0..Len(turns)
    BY <1>4
<1>7. RequestOK'
    BY <1>1, <1>2, <1>3, <1>5, <1>6 DEF RequestOK
<1> QED BY <1>2, <1>7 DEF PlanningInv, TurnsOK, PlansAreExecutable

LEMMA OtherTabInv == PlanningInv /\ OtherTab => PlanningInv'
<1> SUFFICES ASSUME PlanningInv, OtherTab PROVE PlanningInv'
    OBVIOUS
<1>1. PICK o \in OtherTurns :
          /\ Accepted(o.views, o.range, o.step, o.asked, o.askedStep)
          /\ turns' = Append(turns, [plan |-> Plan(o.views, o.range, o.step, o.asked, o.askedStep),
                                     views |-> o.views, length |-> o.length])
    BY DEF OtherTab
<1>2. PICK plan : plan = Plan(o.views, o.range, o.step, o.asked, o.askedStep)
    OBVIOUS
<1>3. Executable(o.views, plan) /\ o.length \in 1..MessageRunes
    BY <1>1, <1>2, AcceptedIsExecutable, InputsAssumption DEF InputsAssumption
<1>4. request' = request
    BY DEF OtherTab
<1>5. /\ TurnsOK' /\ PlansAreExecutable' /\ Len(turns) \in Nat /\ Len(turns') = Len(turns) + 1
      /\ \A i \in 1..Len(turns) : turns'[i] = turns[i]
    BY <1>1, <1>2, <1>3, AppendTurn DEF PlanningInv
<1>6. RequestOK'
    BY <1>4, <1>5, RequestKept DEF PlanningInv
<1> QED BY <1>5, <1>6 DEF PlanningInv

LEMMA PlanMockInv == PlanningInv /\ PlanMock => PlanningInv'
<1> SUFFICES ASSUME PlanningInv, PlanMock PROVE PlanningInv'
    OBVIOUS
<1>1. PICK range : range = SaidDuration(request.message.range)
    OBVIOUS
<1>2. range.value \in Int /\ request.sent
    BY <1>1, RequestTypes DEF PlanMock, PlanningInv
<1>3. CASE Resolve(<<>>, Absent, Absent)
    BY <1>2, <1>3, ResolveInv DEF Absent
<1>4. CASE Resolve(MessageViews, range, MessageStep(request.message))
    BY <1>2, <1>4, ResolveInv
<1> QED BY <1>1, <1>3, <1>4 DEF PlanMock

LEMMA GenerateInv == PlanningInv /\ Generate => PlanningInv'
<1> SUFFICES ASSUME PlanningInv, Generate PROVE PlanningInv'
    OBVIOUS
<1>1. CASE Refuse
    <2>1. turns' = turns /\ ~request'.sent
        BY <1>1 DEF Refuse, NoRequest
    <2> QED BY <2>1 DEF PlanningInv, TurnsOK, RequestOK, PlansAreExecutable
<1>2. CASE UNCHANGED <<driver, turns, request>>
    BY <1>2 DEF PlanningInv, TurnsOK, RequestOK, PlansAreExecutable
<1>3. ASSUME NEW answer \in Answers,
             Resolve(answer.views,
                     IF answer.range.given THEN Given(FromSeconds(answer.range.value)) ELSE Absent,
                     answer.step)
      PROVE  PlanningInv'
    <2>1. PICK range : range = IF answer.range.given THEN Given(FromSeconds(answer.range.value)) ELSE Absent
        OBVIOUS
    <2>2. FromSeconds(answer.range.value) \in Int
        <3>1. answer.range.value * Second \in Int
            BY InputsAssumption, ClockAssumption DEF InputsAssumption, ClockAssumption
        <3> QED BY <3>1, WrappedIsInt DEF FromSeconds
    <2>3. range.value \in Int
        BY <2>1, <2>2 DEF Given, Absent
    <2>4. request.sent /\ Resolve(answer.views, range, answer.step)
        BY <1>3, <2>1 DEF Generate
    <2> QED BY <2>3, <2>4, ResolveInv
<1> QED BY <1>1, <1>2, <1>3 DEF Generate

LEMMA StepInv == PlanningInv /\ [Next]_vars => PlanningInv'
<1> SUFFICES ASSUME PlanningInv, [Next]_vars PROVE PlanningInv'
    OBVIOUS
<1>1. CASE UNCHANGED vars
    BY <1>1 DEF vars, PlanningInv, TurnsOK, RequestOK, PlansAreExecutable
<1> QED BY <1>1, AskInv, OtherTabInv, PlanMockInv, GenerateInv DEF Next

LEMMA Invariance == Spec => []PlanningInv
BY InitInv, StepInv, PTL DEF Spec

-----------------------------------------------------------------------------
(* The theorems *)

\* What AI Core stores is never refused by assistant-mcp, whatever the message
\* said, the model answered and the API was given.
THEOREM PlansPass == Spec => []PlansAreExecutable
<1>1. PlanningInv => PlansAreExecutable
    BY DEF PlanningInv
<1> QED BY <1>1, Invariance, PTL

\* Only the planning of a follow-up ends it with a turn, which shows MessageViews.
LEMMA FollowUpStep ==
    ASSUME PlanningInv, Next, request.sent, ~request'.sent, driver = "mock", request.message.views = <<>>,
           turns' # turns
    PROVE  LET shown == {i \in 1..request.turns : turns[i].views # <<>>}
           IN  turns'[Len(turns')].views =
                   IF shown = {} THEN <<>>
                   ELSE turns[CHOOSE i \in shown : \A j \in shown : j <= i].views
<1> DEFINE shown == ShownTurns(turns, 1, request.turns)
<1>1. PlanMock
    BY DEF Next, Ask, OtherTab, Generate
<1>2. PICK range : range = SaidDuration(request.message.range)
    OBVIOUS
<1>3. range.value \in Int
    BY <1>2, RequestTypes DEF PlanningInv
<1>4. turns'[Len(turns')].views = MessageViews
    <2>1. CASE MessageViews = <<>> /\ Resolve(<<>>, Absent, Absent)
        BY <2>1, ResolveInv DEF Absent
    <2>2. CASE Resolve(MessageViews, range, MessageStep(request.message))
        BY <1>3, <2>2, ResolveInv
    <2> QED BY <1>1, <1>2, <2>1, <2>2 DEF PlanMock
<1>5. EndsInLast(request.history, turns, 1, request.turns) /\ request.turns \in Nat
    <2>1. PICK S : turns \in Seq(S)
        BY DEF PlanningInv, TurnsOK
    <2> QED BY <2>1 DEF PlanningInv, RequestOK
<1>6. CASE shown = {}
    <2>1. MessageViews = <<>>
        BY <1>5, <1>6 DEF EndsInLast, MessageViews
    <2> QED BY <1>4, <1>6, <2>1 DEF ShownTurns
<1>7. CASE shown # {}
    <2>1. PICK k \in shown : /\ \A j \in shown : j <= k
                             /\ request.history[Len(request.history)] = turns[k]
        BY <1>5, <1>7 DEF EndsInLast
    <2>2. request.history # <<>>
        BY <1>5, <1>7 DEF EndsInLast
    <2>3. MessageViews = turns[k].views
        BY <2>1, <2>2 DEF MessageViews
    <2>4. shown \subseteq Nat
        BY <1>5 DEF ShownTurns
    <2> HIDE DEF shown
    <2>5. (CHOOSE i \in shown : \A j \in shown : j <= i) = k
        <3>1. PICK c : c = CHOOSE i \in shown : \A j \in shown : j <= i
            OBVIOUS
        <3>2. c \in shown /\ \A j \in shown : j <= c
            BY <2>1, <3>1
        <3>3. c <= k /\ k <= c /\ c \in Nat /\ k \in Nat
            BY <2>1, <2>4, <3>2
        <3> QED BY <3>1, <3>3
    <2>6. shown = {i \in 1..request.turns : turns[i].views # <<>>}
        BY DEF shown, ShownTurns
    <2> QED BY <1>4, <1>7, <2>3, <2>5, <2>6
<1> QED BY <1>6, <1>7

\* A follow-up that names no view is planned with the views of the latest turn
\* that had any when it was sent, whatever other tabs add and whatever limits
\* planningHistory has.
THEOREM FollowUpShows == Spec => FollowUpInherits
<1>1. PlanningInv /\ [Next]_vars =>
          [ request.sent /\ ~request'.sent /\ driver = "mock" /\ request.message.views = <<>> /\ turns' # turns =>
              LET shown == {i \in 1..request.turns : turns[i].views # <<>>}
              IN  turns'[Len(turns')].views =
                      IF shown = {} THEN <<>>
                      ELSE turns[CHOOSE i \in shown : \A j \in shown : j <= i].views ]_vars
    BY FollowUpStep
<1> QED BY <1>1, Invariance, PTL DEF Spec, FollowUpInherits

\* A request that names views is resolved with the duration and the step it says.
LEMMA AskedStep ==
    ASSUME PlanningInv, Next, request.sent, ~request'.sent, driver = "mock", request.message.views # <<>>,
           Readable(request.message)
    PROVE  LET d == MeantDuration(request)
               steps == IF 30 * Second <= d /\ d <= 6 * Hour THEN MeantSteps(request) ELSE {}
           IN  IF steps = {} THEN turns' = turns
               ELSE /\ Len(turns') = Len(turns) + 1
                    /\ turns'[Len(turns')].views = request.message.views
                    /\ turns'[Len(turns')].plan.duration = d
                    /\ turns'[Len(turns')].plan.step * Second \in steps
<1> DEFINE d == MeantDuration(request)
           steps == IF 30 * Second <= d /\ d <= 6 * Hour THEN MeantSteps(request) ELSE {}
           views == request.message.views
           range == SaidDuration(request.message.range)
           step == MessageStep(request.message)
           accepted == Accepted(views, range, step, request.asked, request.askedStep)
<1>1. PICK r \in Requests : /\ Acceptable(r) /\ request.message = r.message
                            /\ request.asked = r.asked /\ request.askedStep = r.askedStep
    BY DEF PlanningInv, RequestOK
<1>2. d = MeantDuration(r)
    BY <1>1 DEF MeantDuration
<1>3. MeantSteps(request) = MeantSteps(r)
    <2>1. ExplicitSteps(request) = ExplicitSteps(r)
        BY <1>1 DEF ExplicitSteps
    <2>2. MeantSteps(request) = StepsFor(ExplicitSteps(request), MeantDuration(request))
        BY MeantStepsAre
    <2>3. MeantSteps(r) = StepsFor(ExplicitSteps(r), MeantDuration(r))
        BY MeantStepsAre
    <2> QED BY <1>2, <2>1, <2>2, <2>3
<1>4. range.value \in Int
    BY RequestTypes DEF PlanningInv
<1>5. Resolve(views, range, step)
    <2>1. PlanMock
        BY DEF Next, Ask, OtherTab, Generate
    <2>2. MessageViews = views
        BY DEF MessageViews
    <2> QED BY <2>1, <2>2 DEF PlanMock
<1>6. PlannedDuration(range, request.asked) = d /\ d \in Nat
    BY <1>1, <1>2, DurationIsMeant DEF Readable
<1>7. PICK v : v = PlannedStep(step, request.askedStep, d)
    OBVIOUS
<1>8. /\ accepted <=> steps # {}
      /\ steps # {} => v * Second \in steps
    <2>1. CASE 30 * Second <= d /\ d <= 6 * Hour
        <3>1. /\ accepted <=> MeantSteps(r) # {}
              /\ MeantSteps(r) # {} => v * Second \in MeantSteps(r)
            BY <1>1, <1>2, <1>7, <2>1, PlannedAsMeant DEF SaidWell
        <3> QED BY <1>3, <2>1, <3>1
    <2>2. CASE ~(30 * Second <= d /\ d <= 6 * Hour)
        BY <1>6, <2>2 DEF Accepted, MinRange, MaxRange
    <2> QED BY <2>1, <2>2
<1>9. /\ Plan(views, range, step, request.asked, request.askedStep).duration = d
      /\ Plan(views, range, step, request.asked, request.askedStep).step = v
    BY <1>6, <1>7 DEF Plan
<1> HIDE DEF d, steps, views, range, step
<1>10. IF accepted
       THEN /\ Len(turns') = Len(turns) + 1 /\ turns'[Len(turns')].views = views
            /\ turns'[Len(turns')].plan = Plan(views, range, step, request.asked, request.askedStep)
       ELSE turns' = turns
    BY <1>4, <1>5, ResolveInv
<1> HIDE DEF accepted
<1>11. IF steps = {} THEN turns' = turns
       ELSE /\ Len(turns') = Len(turns) + 1 /\ turns'[Len(turns')].views = views
            /\ turns'[Len(turns')].plan.duration = d /\ turns'[Len(turns')].plan.step * Second \in steps
    BY <1>8, <1>9, <1>10
<1> QED BY <1>11 DEF d, steps, views

\* A request that names a view gets the plan it asks for, or none: whatever
\* amounts it says, written as digits or as a numeral, and whatever the API was
\* given beside it (mock planner, ResolvePlannedQueryPlan).
THEOREM AskedGetsPlanned == Spec => AskedIsPlanned
<1>1. PlanningInv /\ [Next]_vars =>
        [ request.sent /\ ~request'.sent /\ driver = "mock" /\ request.message.views # <<>>
          /\ Readable(request.message) =>
            LET d == MeantDuration(request)
                steps == IF 30 * Second <= d /\ d <= 6 * Hour THEN MeantSteps(request) ELSE {}
            IN  IF steps = {} THEN turns' = turns
                ELSE /\ Len(turns') = Len(turns) + 1
                     /\ turns'[Len(turns')].views = request.message.views
                     /\ turns'[Len(turns')].plan.duration = d
                     /\ turns'[Len(turns')].plan.step * Second \in steps ]_vars
    BY AskedStep
<1> QED BY <1>1, Invariance, PTL DEF Spec, AskedIsPlanned
=============================================================================
