---------------------------- MODULE MCIntentPlanning ----------------------------
(***************************************************************************)
(* A model of IntentPlanning. A second has two ticks and a word 2^18       *)
(* values, so that the six hours fit and a few more days wrap. The amounts *)
(* of a message are at the bounds of the policy and beyond them.           *)
(***************************************************************************)
EXTENDS IntentPlanning

Digits(n, unit) == [text |-> <<n>>, chinese |-> FALSE, unit |-> unit, meant |-> n]
Characters(n, unit) == [text |-> Numeral(n), chinese |-> TRUE, unit |-> unit, meant |-> n]

Message(views, length, range, every) ==
    [views |-> views, length |-> length, range |-> range, every |-> every, point |-> Nothing,
     english |-> Nothing, data |-> <<>>]
NoRange == [kind |-> "none", duration |-> 0]
Asks(kind, duration) == [kind |-> kind, duration |-> duration]
Request(message, asked, askedStep) == [message |-> message, asked |-> asked, askedStep |-> askedStep]

Ranges == {Nothing, Digits(29, "s"), Digits(30, "s"), Characters(105, "m"), Characters(20, "m"),
           Digits(6, "h"), Characters(12, "h"), Digits(37, "h"), Digits(140000, "h")}
Steps == {Nothing, Digits(5, "s"), Characters(15, "s"), Digits(7, "s"), Digits(5, "m"), Digits(2185, "m")}
AskedSet == {NoRange, Asks("relative", 2 * Hour), Asks("absolute", 10 * Minute), Asks("absolute", 0)}

Data(range, every, point, english, data) ==
    Request([Message(<<"cpu">>, 1, range, every) EXCEPT !.point = point, !.english = english, !.data = data],
            NoRange, Absent)
Amounts(r, s, a, t) == Request(Message(<<"cpu">>, 1, r, s), a, t)
MCRequests ==
    \* parameters: those of the message, and those of the API beside them
    {Amounts(r, s, NoRange, Absent) : r \in Ranges, s \in Steps}
    \cup {Amounts(r, Nothing, a, Absent) : r \in Ranges, a \in AskedSet}
    \cup {Amounts(Nothing, s, NoRange, t) : s \in Steps, t \in {Given(60), Given(7)}}
    \* amounts of data: ranges in each unit, beside a step that is said before or
    \* after them in one way or another, in hours, or not at all
    \cup {Data(r, e, p, n, d) : r \in {Digits(6, "h"), Characters(20, "m")}, e \in {Nothing, Digits(5, "m")},
                               p \in {Characters(30, "s")}, n \in {Nothing, Digits(15, "s")},
                               d \in {<<"range">>, <<"range", "point">>, <<"point", "range">>}}
    \cup {Data(Digits(6, "h"), Digits(2, "h"), Nothing, n, <<"range">>) : n \in {Nothing, Digits(60, "s")}}
    \cup {Data(Digits(30, "s"), Nothing, Nothing, Nothing, <<"range">>),
           Data(Digits(6, "h"), Digits(0, "m"), Nothing, Digits(60, "s"), <<>>)}
    \* conversations
    \cup {Request(Message(v, l, Nothing, Nothing), NoRange, Absent) :
            v \in {<<>>, <<"memory">>, <<"cpu", "load">>}, l \in {1, 3, 4}}

Answer(status, views, range, step) == [status |-> status, views |-> views, range |-> range, step |-> step]
MCAnswers ==
    {Answer("planned", <<"load", "memory">>, r, s) : r \in {Absent, Given(21600), Given(21601), Given(131072)},
                                                    s \in {Absent, Given(10), Given(0)}}
    \cup {Answer("planned", <<"cpu", "cpu">>, Absent, Absent), Answer("planned", <<>>, Absent, Absent),
          Answer("planned", <<"disk">>, Absent, Absent), Answer("unsupported", <<>>, Absent, Absent),
          Answer("unsupported", <<>>, Given(600), Absent)}

MCOtherTurns ==
    {[views |-> v, range |-> Absent, step |-> Absent, asked |-> NoRange, askedStep |-> Absent, length |-> 2] :
        v \in {<<>>, <<"load">>}}
=============================================================================
