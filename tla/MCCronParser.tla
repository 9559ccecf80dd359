---------------------------- MODULE MCCronParser ----------------------------
(***************************************************************************)
(* Small fields for CronParser, and patterns that vary one field at a      *)
(* time, in the five-field and in the six-field form.                      *)
(***************************************************************************)
EXTENDS CronParser

B(min, max, named) == [min |-> min, max |-> max, named |-> named]
MCBounds == <<B(0, 3, FALSE), B(0, 3, FALSE), B(0, 2, FALSE),
              B(1, 4, FALSE), B(1, 3, TRUE), B(0, 2, TRUE)>>

Tokens == {Num(n) : n \in 0..5} \cup {Name(1), Name(2), AnyValue, Junk}
E(range, steps) == [range |-> range, steps |-> steps]

Ranges == {<<a>> : a \in Tokens} \cup {<<a, b>> : a, b \in Tokens}
          \cup {<<Num(1), Num(2), Num(3)>>, <<AnyValue, Num(1), Num(2)>>}
Steps == {<<>>, <<Junk>>, <<Num(1), Num(1)>>} \cup {<<Num(n)>> : n \in {0, 1, 2, 5}}
MCExprs == {E(r, st) : r \in Ranges, st \in Steps}

\* For lists: good and bad expressions, overlapping ranges, stars.
Pieces == {E(<<Num(1)>>, <<>>), E(<<Num(2)>>, <<Num(2)>>), E(<<Num(1), Num(2)>>, <<>>),
           E(<<AnyValue>>, <<>>), E(<<AnyValue>>, <<Num(2)>>), E(<<Num(3), Num(1)>>, <<>>),
           E(<<Name(2)>>, <<>>), E(<<Junk>>, <<>>)}

MCFields == {<<>>} \cup {<<e>> : e \in MCExprs} \cup {<<a, b>> : a, b \in Pieces}

Stars(n) == [k \in 1..n |-> <<E(<<AnyValue>>, <<>>)>>]
MCPatterns ==
    {[Stars(5) EXCEPT ![k] = x] : x \in MCFields, k \in 1..5}
    \cup {[Stars(6) EXCEPT ![k] = x] : x \in MCFields, k \in 1..6}
    \cup {Stars(n) : n \in {0, 1, 4, 7}}

MCDurations == (0 - 5)..13
=============================================================================
