----------------------------- MODULE CronParser -----------------------------
(***************************************************************************)
(* Parse of delayquene/parser.go: an interval pattern to a schedule, one   *)
(* range of one field per step.                                            *)
(*                                                                         *)
(* A pattern is what strings.Fields and strings.Split make of it: a        *)
(* sequence of fields, a field a sequence of expressions (the pieces       *)
(* between commas; empty pieces are dropped), an expression the pieces     *)
(* before the first slash, split at hyphens, and the pieces after each     *)
(* slash.  A piece is a token: a number, a name, a star or something else. *)
(* A bit set is the set of its bits.                                       *)
(***************************************************************************)
EXTENDS Integers, Sequences

CONSTANTS
    Bounds,      \* [min, max, named] of the six fields; named: it has names (months, dow)
    StarBit,     \* bit 63
    Patterns,    \* the patterns tried: sequences of fields
    Durations,   \* the durations tried with @every, in ticks
    Tick         \* ticks per second

Num(n) == [kind |-> "number", n |-> n]
Name(n) == [kind |-> "name", n |-> n]
AnyValue == [kind |-> "star", n |-> 0]
Junk == [kind |-> "junk", n |-> 0]

\* A star and junk carry no number.
Token ==
    {tok \in [kind : {"number", "name", "star", "junk"}, n : Nat] :
        tok.kind \in {"star", "junk"} => tok.n = 0}

\* strings.Split returns at least one piece.
Expr == [range : Seq(Token) \ {<<>>}, steps : Seq(Token)]

ASSUME InputAssumption == Patterns \subseteq Seq(Seq(Expr)) /\ Durations \subseteq Int

\* Days of the month and months are counted from 1, the other fields from 0.
Fields == 1..6
ASSUME BoundsAssumption ==
    /\ Bounds \in [Fields -> [min : 0..62, max : 0..62, named : BOOLEAN]]
    /\ \A f \in Fields : Bounds[f].min = IF f \in {4, 5} THEN 1 ELSE 0
    /\ \A f \in Fields : Bounds[f].min <= Bounds[f].max
    /\ StarBit \in Nat /\ \A f \in Fields : Bounds[f].max < StarBit
    /\ Tick \in Nat \ {0}

-----------------------------------------------------------------------------
(* The pure functions *)

\* parseIntOrName: a number, or a name where the field has names.
Parses(tok, f) == tok.kind = "number" \/ (tok.kind = "name" /\ Bounds[f].named)

\* getBits: a mask for step 1, else the loop.
GetBits(min, max, step) ==
    LET from[i \in Nat] == IF i > max THEN {} ELSE {i} \cup from[i + step]
    IN  IF step = 1 THEN min..max ELSE from[min]

Starred(e) == e.range[1].kind = "star"

Start(e, f) == IF Starred(e) THEN Bounds[f].min ELSE e.range[1].n

\* Mutant: "N/step" is read as "N-N/step".
EndOfRangeOnly(e, f) == IF Starred(e) THEN Bounds[f].max ELSE e.range[Len(e.range)].n

\* "N/step" means "N-max/step".
End(e, f) ==
    IF Starred(e) \/ (Len(e.range) = 1 /\ Len(e.steps) = 1)
    THEN Bounds[f].max ELSE e.range[Len(e.range)].n

Step(e) == IF e.steps = <<>> THEN 1 ELSE e.steps[1].n

\* The error returns of getRange.  After a star the rest of the range is not
\* looked at.
BadRange(e, f) ==
    \/ /\ ~Starred(e)
       /\ Len(e.range) > 2 \/ \E k \in 1..Len(e.range) : ~Parses(e.range[k], f)
    \/ Len(e.steps) > 1
    \/ \E k \in 1..Len(e.steps) : e.steps[k].kind # "number"
    \/ Start(e, f) < Bounds[f].min
    \/ End(e, f) > Bounds[f].max
    \/ Start(e, f) > End(e, f)
    \/ Step(e) = 0

GetRange(e, f) ==
    GetBits(Start(e, f), End(e, f), Step(e)) \cup (IF Starred(e) THEN {StarBit} ELSE {})

All(f) == GetBits(Bounds[f].min, Bounds[f].max, 1) \cup {StarBit}
Least(f) == {Bounds[f].min}

\* Mutant: a weekly job fires every day.
DescriptorWeeklyIsDaily ==
    LET daily == <<Least(1), Least(2), Least(3), All(4), All(5), All(6)>> IN
    [yearly  |-> <<Least(1), Least(2), Least(3), Least(4), Least(5), All(6)>>,
     monthly |-> <<Least(1), Least(2), Least(3), Least(4), All(5), All(6)>>,
     weekly  |-> daily,
     daily   |-> daily,
     hourly  |-> <<Least(1), Least(2), All(3), All(4), All(5), All(6)>>]

\* parseDescriptor.
Descriptor ==
    [yearly  |-> <<Least(1), Least(2), Least(3), Least(4), Least(5), All(6)>>,
     monthly |-> <<Least(1), Least(2), Least(3), Least(4), All(5), All(6)>>,
     weekly  |-> <<Least(1), Least(2), Least(3), All(4), All(5), Least(6)>>,
     daily   |-> <<Least(1), Least(2), Least(3), All(4), All(5), All(6)>>,
     hourly  |-> <<Least(1), Least(2), All(3), All(4), All(5), All(6)>>]

\* Mutant: short delays are not rounded up.
EveryTruncates(d) == d - (d % Tick)

\* Every: at least a second, in whole seconds; and its Next.
Every(d) == LET e == IF d < Tick THEN Tick ELSE d IN e - (e % Tick)
EveryNext(delay, t) == t + delay - (t % Tick)

-----------------------------------------------------------------------------
(* Parsing one pattern *)

VARIABLES
    input,    \* the pattern
    fields,   \* its six fields, after expandFields
    at,       \* the next expression: <<field, index>>
    bits,     \* the schedule: a bit set per field
    delay,    \* the schedule of an @every pattern
    stage        \* "parse", "range", "ok", "error"

parseVars == <<input, fields, at, bits, delay, stage>>

ParseInit ==
    /\ \/ \E p \in Patterns : input = [kind |-> "cron", fields |-> p]
       \/ \E d \in DOMAIN Descriptor \cup {"other"} : input = [kind |-> "descriptor", name |-> d]
       \/ \E d \in Durations : input = [kind |-> "every", duration |-> d]
    /\ fields = <<>> /\ at = <<1, 1>> /\ bits = [f \in Fields |-> {}] /\ delay = 0
    /\ stage = "parse"

\* Parse: five fields get a leading seconds field "0", six are taken as they
\* are, any other number is an error.
CountFields ==
    /\ stage = "parse" /\ input.kind = "cron"
    /\ LET n == Len(input.fields) IN
       /\ fields' = CASE n = 5 -> <<<<[range |-> <<Num(0)>>, steps |-> <<>>]>>>> \o input.fields
                      [] n = 6 -> input.fields
                      [] OTHER -> <<>>
       /\ stage' = IF n \in {5, 6} THEN "range" ELSE "error"
    /\ UNCHANGED <<input, at, bits, delay>>

\* The loop of getField, field after field; the first error ends the parse.
ParseRange ==
    /\ stage = "range" /\ at[1] \in Fields /\ at[2] <= Len(fields[at[1]])
    /\ LET e == fields[at[1]][at[2]] IN
       IF BadRange(e, at[1])
       THEN stage' = "error" /\ UNCHANGED <<at, bits>>
       ELSE /\ bits' = [bits EXCEPT ![at[1]] = @ \cup GetRange(e, at[1])]
            /\ at' = <<at[1], at[2] + 1>>
            /\ UNCHANGED stage
    /\ UNCHANGED <<input, fields, delay>>

EndField ==
    /\ stage = "range" /\ at[1] \in Fields /\ at[2] > Len(fields[at[1]])
    /\ at' = <<at[1] + 1, 1>>
    /\ stage' = IF at[1] = 6 THEN "ok" ELSE "range"
    /\ UNCHANGED <<input, fields, bits, delay>>

\* Any other descriptor, @every without a duration included, is an error.
ParseDescriptor ==
    /\ stage = "parse" /\ input.kind = "descriptor"
    /\ IF input.name \in DOMAIN Descriptor
       THEN bits' = Descriptor[input.name] /\ stage' = "ok"
       ELSE stage' = "error" /\ UNCHANGED bits
    /\ UNCHANGED <<input, fields, at, delay>>

ParseEvery ==
    /\ stage = "parse" /\ input.kind = "every"
    /\ delay' = Every(input.duration)
    /\ stage' = "ok"
    /\ UNCHANGED <<input, fields, at, bits>>

\* Parse has returned; nothing follows.
Parsed == stage \in {"ok", "error"} /\ UNCHANGED parseVars

ParseNext == CountFields \/ ParseRange \/ EndField \/ ParseDescriptor \/ ParseEvery \/ Parsed

ParseSpec == ParseInit /\ [][ParseNext]_parseVars

-----------------------------------------------------------------------------
(* Properties *)

\* The values an expression stands for: those its range covers that are a
\* multiple of the step away from its first.
Denotes(e, f) ==
    LET star == e.range[1] = AnyValue
        first == IF star THEN Bounds[f].min ELSE e.range[1].n
        covered(v) == \/ star
                      \/ Len(e.range) = 2 /\ v \in first..e.range[2].n
                      \/ Len(e.range) = 1 /\ IF e.steps = <<>> THEN v = first ELSE v >= first
    IN  {v \in Bounds[f].min..Bounds[f].max :
            covered(v) /\ (e.steps = <<>> \/ (v - first) % e.steps[1].n = 0)}

\* It stands for something: its pieces are readable, every value it names is
\* one of the field's, and it has a first value.
Sensible(e, f) ==
    /\ Len(e.steps) \in {0, 1}
    /\ e.steps # <<>> => e.steps[1].kind = "number" /\ e.steps[1].n > 0
    /\ e.range[1] # AnyValue =>
           /\ Len(e.range) \in {1, 2}
           /\ \A k \in 1..Len(e.range) :
                  Parses(e.range[k], f) /\ e.range[k].n \in Bounds[f].min..Bounds[f].max
           /\ Denotes(e, f) # {}

Exprs(field) == {field[k] : k \in 1..Len(field)}

\* The bits of a field: its values, and the star bit when one of its
\* expressions begins with a star.
FieldBits(field, f) ==
    (UNION {Denotes(e, f) : e \in Exprs(field)})
    \cup {StarBit : e \in {x \in Exprs(field) : x.range[1] = AnyValue}}

\* Parse rejects a cron pattern exactly when its number of fields or one of its
\* expressions makes no sense, and otherwise the schedule has the values that
\* are written, field by field; in the five-field form the second is 0.
ParsedAsWritten ==
    input.kind = "cron" /\ stage \in {"ok", "error"} =>
        LET n == Len(input.fields)
            shift == 6 - n
            sensible == /\ n \in {5, 6}
                        /\ \A k \in 1..n : \A e \in Exprs(input.fields[k]) : Sensible(e, k + shift)
        IN  /\ stage = "ok" <=> sensible
            /\ stage = "ok" =>
                   /\ \A k \in 1..n : bits[k + shift] = FieldBits(input.fields[k], k + shift)
                   /\ n = 5 => bits[1] = {0}

\* A descriptor is the cron pattern it abbreviates ("@weekly" is "0 0 0 * * 0"),
\* star bits included: they decide how the two day fields combine.
DescriptorsAgree ==
    input.kind = "descriptor" /\ stage = "ok" =>
        LET value(n) == <<[range |-> <<Num(n)>>, steps |-> <<>>]>>
            any == <<[range |-> <<AnyValue>>, steps |-> <<>>]>>
            pattern ==
                [yearly  |-> <<value(0), value(0), value(0), value(1), value(1), any>>,
                 monthly |-> <<value(0), value(0), value(0), value(1), any, any>>,
                 weekly  |-> <<value(0), value(0), value(0), any, any, value(0)>>,
                 daily   |-> <<value(0), value(0), value(0), any, any, any>>,
                 hourly  |-> <<value(0), value(0), any, any, any, any>>]
        IN  \A f \in Fields : bits[f] = FieldBits(pattern[input.name][f], f)

\* "@every": the delay is a whole number of seconds, at least one, and never
\* longer than asked for otherwise; the next time is later and on the second.
EveryMovesOn ==
    input.kind = "every" /\ stage = "ok" =>
        /\ delay % Tick = 0
        /\ delay <= input.duration \/ delay = Tick
        /\ input.duration - delay < Tick
        /\ \A t \in 0..(2 * Tick) : EveryNext(delay, t) > t /\ EveryNext(delay, t) % Tick = 0
=============================================================================
