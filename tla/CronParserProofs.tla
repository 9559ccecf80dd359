-------------------------- MODULE CronParserProofs --------------------------
(***************************************************************************)
(* CronParser: what Parse makes of a pattern, of a descriptor and of a     *)
(* duration, for every pattern, all bounds and every number of ticks.      *)
(***************************************************************************)
EXTENDS CronParser, NatLemmas, SequenceTheorems

-----------------------------------------------------------------------------
(* getBits *)

\* The numbers from min to max that are a multiple of step away from min.
Multiples(min, max, step) == {v \in min..max : (v - min) % step = 0}

\* The loop takes the first number and goes on a step further.
LEMMA MultiplesUnfold ==
    ASSUME NEW i \in Nat, NEW max \in Nat, NEW step \in Nat \ {0}
    PROVE  Multiples(i, max, step) =
               IF i > max THEN {} ELSE {i} \cup Multiples(i + step, max, step)
<1>1. CASE i > max
  BY <1>1 DEF Multiples
<1>2. CASE ~(i > max)
  <2>1. ASSUME NEW v \in i..max
        PROVE  (v - i) % step = 0 <=> v = i \/ (v >= i + step /\ (v - (i + step)) % step = 0)
    <3>1. CASE v = i
      <4>1. 0 \in 0..(step - 1) /\ v - i = 0
        BY <3>1
      <4> QED
        BY <3>1, <4>1, ModSmall
    <3>2. CASE v # i /\ v < i + step
      <4>1. v - i \in 0..(step - 1) /\ v - i # 0
        BY <3>2
      <4> QED
        BY <3>2, <4>1, ModSmall
    <3>3. CASE v >= i + step
      <4>1. v - (i + step) \in Int /\ (v - (i + step)) + step = v - i
        OBVIOUS
      <4>2. (v - i) % step = (v - (i + step)) % step
        BY <4>1, ModShift
      <4>3. v # i
        BY <3>3
      <4> QED
        BY <3>3, <4>2, <4>3
    <3> QED
      BY <3>1, <3>2, <3>3
  <2>2. \A v : v \in Multiples(i, max, step) <=> v \in {i} \cup Multiples(i + step, max, step)
    <3>1. \A v : v \in Multiples(i, max, step) <=> v \in i..max /\ (v - i) % step = 0
      BY DEF Multiples
    <3>2. \A v : v \in Multiples(i + step, max, step)
                    <=> v \in i..max /\ v >= i + step /\ (v - (i + step)) % step = 0
      BY DEF Multiples
    <3>3. i \in i..max
      BY <1>2
    <3> QED
      BY <2>1, <3>1, <3>2, <3>3
  <2> QED
    BY <1>2, <2>2
<1> QED
  BY <1>1, <1>2

LEMMA MultiplesOfOne ==
    ASSUME NEW min \in Nat, NEW max \in Nat
    PROVE  Multiples(min, max, 1) = min..max
<1>1. \A v \in min..max : (v - min) % 1 = 0
  OBVIOUS
<1> QED
  BY <1>1 DEF Multiples

\* getBits sets the bits of the range, modulo the step: the loop's recursion has
\* this solution, and no other.
LEMMA GetBitsAre ==
    ASSUME NEW min \in Nat, NEW max \in Nat, NEW step \in Nat \ {0}
    PROVE  GetBits(min, max, step) = Multiples(min, max, step)
<1> DEFINE Solves(g) == g = [i \in Nat |-> IF i > max THEN {} ELSE {i} \cup g[i + step]]
           loop == CHOOSE g : Solves(g)
           sol == [i \in Nat |-> Multiples(i, max, step)]
<1>1. GetBits(min, max, step) = IF step = 1 THEN min..max ELSE loop[min]
  BY Zenon DEF GetBits
<1>2. Solves(sol)
  <2>1. \A i \in Nat : sol[i] = IF i > max THEN {} ELSE {i} \cup sol[i + step]
    BY MultiplesUnfold
  <2> QED
    BY <2>1
<1> HIDE DEF sol
<1>3. Solves(loop)
  BY <1>2, Zenon
<1> HIDE DEF loop
<1>4. \A i \in Nat : loop[i] = IF i > max THEN {} ELSE {i} \cup loop[i + step]
  BY <1>3
<1> HIDE DEF Solves
<1> DEFINE Good == {k \in Nat : \A i \in Nat : i + k > max => loop[i] = Multiples(i, max, step)}
<1>5. Nat \subseteq Good
  <2>1. 0 \in Good
    <3> SUFFICES ASSUME NEW i \in Nat, i > max PROVE loop[i] = Multiples(i, max, step)
      OBVIOUS
    <3> QED
      BY <1>4, MultiplesUnfold
  <2>2. ASSUME NEW k \in Nat, k \in Good PROVE k + 1 \in Good
    <3> SUFFICES ASSUME NEW i \in Nat, i + (k + 1) > max PROVE loop[i] = Multiples(i, max, step)
      OBVIOUS
    <3>1. i + step \in Nat /\ (i + step) + k > max
      OBVIOUS
    <3>2. loop[i + step] = Multiples(i + step, max, step)
      BY <2>2, <3>1
    <3>3. loop[i] = IF i > max THEN {} ELSE {i} \cup loop[i + step]
      BY <1>4
    <3>4. Multiples(i, max, step) = IF i > max THEN {} ELSE {i} \cup Multiples(i + step, max, step)
      BY MultiplesUnfold
    <3> QED
      BY <3>2, <3>3, <3>4
  <2> HIDE DEF Good
  <2> QED
    BY <2>1, <2>2, Induction
<1>6. loop[min] = Multiples(min, max, step)
  <2>1. max + 1 \in Good
    BY <1>5
  <2> QED
    BY <2>1
<1> QED
  BY <1>1, <1>6, MultiplesOfOne

-----------------------------------------------------------------------------
(* getRange *)

\* The bits of one expression: its values, and the star bit.
ExprBits(e, f) == Denotes(e, f) \cup (IF e.range[1] = AnyValue THEN {StarBit} ELSE {})

LEMMA BoundsOf ==
    ASSUME NEW f \in Fields
    PROVE  /\ Bounds[f].min \in Nat /\ Bounds[f].max \in Nat
           /\ Bounds[f].min <= Bounds[f].max
BY BoundsAssumption

LEMMA TokenTypes ==
    /\ \A tok \in Token : tok.n \in Nat /\ (tok.kind = "star" <=> tok = AnyValue)
    /\ \A tok \in Token : tok.kind \in {"number", "name", "star", "junk"}
BY DEF Token, AnyValue

LEMMA ExprTypes ==
    ASSUME NEW e \in Expr
    PROVE  /\ Len(e.range) \in Nat \ {0} /\ Len(e.steps) \in Nat
           /\ \A k \in 1..Len(e.range) : e.range[k] \in Token /\ e.range[k].n \in Nat
           /\ \A k \in 1..Len(e.steps) : e.steps[k] \in Token /\ e.steps[k].n \in Nat
           /\ e.steps = <<>> <=> Len(e.steps) = 0
           /\ Starred(e) <=> e.range[1] = AnyValue
<1>1. e.range \in Seq(Token) /\ e.range # <<>> /\ e.steps \in Seq(Token)
  BY DEF Expr
<1>2. Len(e.range) \in Nat \ {0} /\ Len(e.steps) \in Nat
  BY <1>1
<1>3. /\ \A k \in 1..Len(e.range) : e.range[k] \in Token
      /\ \A k \in 1..Len(e.steps) : e.steps[k] \in Token
  BY <1>1
<1>4. e.steps = <<>> <=> Len(e.steps) = 0
  BY <1>1
<1>5. 1 \in 1..Len(e.range)
  BY <1>2
<1> QED
  BY <1>2, <1>3, <1>4, <1>5, TokenTypes DEF Starred

\* What a readable expression within bounds denotes is what getBits is asked
\* for: "*" is the whole field, "N" one value, "N/step" goes on to the end.
LEMMA DenotesMultiples ==
    ASSUME NEW e \in Expr, NEW f \in Fields,
           Len(e.range) \in {1, 2} \/ Starred(e),
           Len(e.steps) \in {0, 1}, Step(e) # 0,
           Start(e, f) >= Bounds[f].min, End(e, f) <= Bounds[f].max
    PROVE  /\ Denotes(e, f) = Multiples(Start(e, f), End(e, f), Step(e))
           /\ Start(e, f) \in Nat /\ End(e, f) \in Nat /\ Step(e) \in Nat \ {0}
<1> DEFINE lo == Bounds[f].min
           hi == Bounds[f].max
           a == Start(e, f)
           z == End(e, f)
           k == Step(e)
<1>0. lo \in Nat /\ hi \in Nat /\ lo <= hi
  BY BoundsOf
<1>1. /\ Len(e.range) \in Nat \ {0} /\ e.range[1].n \in Nat /\ e.range[Len(e.range)].n \in Nat
      /\ e.steps = <<>> <=> Len(e.steps) = 0
      /\ Starred(e) <=> e.range[1] = AnyValue
  BY ExprTypes
<1>2. k \in Nat \ {0} /\ (e.steps = <<>> => k = 1) /\ (e.steps # <<>> => k = e.steps[1].n)
  BY ExprTypes DEF Step
<1>3. a \in Nat /\ z \in Nat /\ (Starred(e) => a = lo /\ z = hi) /\ (~Starred(e) => a = e.range[1].n)
  BY <1>0, <1>1 DEF Start, End
<1>4. ASSUME ~Starred(e)
      PROVE  /\ Len(e.range) = 2 => z = e.range[2].n
             /\ Len(e.range) = 1 /\ e.steps = <<>> => z = a
             /\ Len(e.range) = 1 /\ e.steps # <<>> => z = hi
  BY <1>1, <1>4 DEF Start, End
<1>5. lo <= a /\ z <= hi
  OBVIOUS
<1>6. Denotes(e, f) =
        {v \in lo..hi :
            /\ \/ Starred(e)
               \/ Len(e.range) = 2 /\ v \in a..e.range[2].n
               \/ Len(e.range) = 1 /\ IF e.steps = <<>> THEN v = a ELSE v >= a
            /\ e.steps = <<>> \/ (v - a) % k = 0}
  BY <1>1, <1>2, <1>3 DEF Denotes
<1> HIDE DEF lo, hi, a, z, k
<1>7. \A v \in lo..hi :
        (\/ Starred(e)
         \/ Len(e.range) = 2 /\ v \in a..e.range[2].n
         \/ Len(e.range) = 1 /\ IF e.steps = <<>> THEN v = a ELSE v >= a)
        <=> v \in a..z
  BY <1>0, <1>1, <1>3, <1>4, <1>5
<1>8. \A v \in lo..hi : (e.steps = <<>> \/ (v - a) % k = 0) <=> (v - a) % k = 0
  <2>1. \A x \in Int : x % 1 = 0
    OBVIOUS
  <2> QED
    BY <1>0, <1>2, <1>3, <2>1
<1>9. a..z \subseteq lo..hi
  BY <1>0, <1>3, <1>5
<1>10. Denotes(e, f) = {v \in a..z : (v - a) % k = 0}
  BY <1>6, <1>7, <1>8, <1>9
<1> QED
  BY <1>2, <1>3, <1>10 DEF Multiples, a, z, k

\* getRange fails exactly on the expressions that stand for nothing, and returns
\* the bits of the others.
LEMMA RangeReads ==
    ASSUME NEW e \in Expr, NEW f \in Fields
    PROVE  /\ ~BadRange(e, f) <=> Sensible(e, f)
           /\ Sensible(e, f) => GetRange(e, f) = ExprBits(e, f)
<1> DEFINE lo == Bounds[f].min
           hi == Bounds[f].max
           a == Start(e, f)
           z == End(e, f)
           k == Step(e)
<1>0. lo \in Nat /\ hi \in Nat /\ lo <= hi
  BY BoundsOf
<1>1. /\ Len(e.range) \in Nat \ {0} /\ Len(e.steps) \in Nat
      /\ \A i \in 1..Len(e.range) : e.range[i].n \in Nat
      /\ e.steps = <<>> <=> Len(e.steps) = 0
      /\ Starred(e) <=> e.range[1] = AnyValue
  BY ExprTypes
<1>2. /\ Len(e.steps) = 0 => k = 1
      /\ Len(e.steps) # 0 => k = e.steps[1].n
  BY <1>1 DEF Step
<1>3. /\ Starred(e) => a = lo /\ z = hi
      /\ ~Starred(e) => a = e.range[1].n
      /\ ~Starred(e) /\ Len(e.range) = 2 => z = e.range[2].n
      /\ ~Starred(e) /\ Len(e.range) = 1 /\ Len(e.steps) = 0 => z = a
      /\ ~Starred(e) /\ Len(e.range) = 1 /\ Len(e.steps) = 1 => z = hi
  BY <1>1 DEF Start, End
<1>a. /\ \A i \in Nat : ~(i > 1) <=> i \in {0, 1}
      /\ \A i \in Nat \ {0} : ~(i > 2) <=> i \in {1, 2}
  OBVIOUS
<1>4. ASSUME Sensible(e, f) PROVE ~BadRange(e, f)
  <2>1. /\ Len(e.steps) \in {0, 1}
        /\ Len(e.steps) # 0 => e.steps[1].kind = "number" /\ e.steps[1].n > 0
        /\ ~Starred(e) => /\ Len(e.range) \in {1, 2}
                          /\ \A i \in 1..Len(e.range) : Parses(e.range[i], f) /\ e.range[i].n \in lo..hi
                          /\ Denotes(e, f) # {}
    BY <1>1, <1>4 DEF Sensible
  <2>2. a >= lo /\ z <= hi /\ k # 0
    BY <1>0, <1>1, <1>2, <1>3, <2>1
  <2>3. a <= z
    <3>1. CASE Starred(e)
      BY <1>0, <1>3, <3>1
    <3>2. CASE ~Starred(e)
      <4>1. Denotes(e, f) = Multiples(a, z, k) /\ a \in Nat /\ z \in Nat
        BY <2>1, <2>2, <3>2, DenotesMultiples
      <4>2. a..z # {}
        BY <2>1, <3>2, <4>1 DEF Multiples
      <4> QED
        BY <4>1, <4>2
    <3> QED
      BY <3>1, <3>2
  <2>4. \A i \in 1..Len(e.steps) : e.steps[i].kind = "number"
    BY <2>1
  <2>5. a \in Nat /\ z \in Nat
    BY <1>0, <1>1, <1>3, <2>1
  <2> HIDE DEF lo, hi, a, z, k
  <2>6. ~(a < lo) /\ ~(z > hi) /\ ~(a > z)
    BY <1>0, <2>2, <2>3, <2>5
  <2>7. ~(Len(e.steps) > 1) /\ (~Starred(e) => ~(Len(e.range) > 2))
    BY <1>1, <1>a, <2>1, Zenon
  <2> QED
    BY <2>1, <2>2, <2>4, <2>6, <2>7 DEF BadRange, lo, hi, a, z, k
<1>5. ASSUME ~BadRange(e, f) PROVE Sensible(e, f) /\ a \in Nat /\ z \in Nat /\ a <= z
  <2>1. /\ ~Starred(e) => /\ ~(Len(e.range) > 2)
                          /\ \A i \in 1..Len(e.range) : Parses(e.range[i], f)
        /\ ~(Len(e.steps) > 1)
        /\ \A i \in 1..Len(e.steps) : e.steps[i].kind = "number"
        /\ ~(a < lo) /\ ~(z > hi) /\ ~(a > z) /\ k # 0
    BY <1>5 DEF BadRange
  <2>2. Len(e.steps) \in {0, 1} /\ (~Starred(e) => Len(e.range) \in {1, 2})
    BY <1>1, <1>a, <2>1, Zenon
  <2>3. a \in Nat /\ z \in Nat
    BY <1>0, <1>1, <1>3, <2>2
  <2>4. a >= lo /\ z <= hi /\ a <= z
    BY <1>0, <2>1, <2>3
  <2>5. Denotes(e, f) = Multiples(a, z, k) /\ k \in Nat \ {0}
    BY <2>1, <2>2, <2>4, DenotesMultiples
  <2>6. Denotes(e, f) # {}
    <3>1. a \in a..z /\ (a - a) % k = 0
      BY <2>3, <2>4, <2>5
    <3> QED
      BY <2>5, <3>1 DEF Multiples
  <2>7. Len(e.steps) # 0 => e.steps[1].kind = "number" /\ e.steps[1].n > 0
    BY <1>2, <2>1, <2>2, <2>5
  <2>8. ASSUME ~Starred(e), NEW i \in 1..Len(e.range) PROVE e.range[i].n \in lo..hi
    <3>1. a \in lo..hi /\ z \in lo..hi
      BY <1>0, <2>3, <2>4
    <3>2. CASE Len(e.range) = 1
      BY <1>3, <2>8, <3>1, <3>2
    <3>3. CASE Len(e.range) = 2
      BY <1>3, <2>8, <3>1, <3>3
    <3> QED
      BY <2>2, <2>8, <3>2, <3>3
  <2> QED
    BY <1>1, <2>1, <2>2, <2>3, <2>4, <2>6, <2>7, <2>8 DEF Sensible
<1>6. ASSUME ~BadRange(e, f), Sensible(e, f) PROVE GetRange(e, f) = ExprBits(e, f)
  <2>1. /\ ~Starred(e) => ~(Len(e.range) > 2)
        /\ ~(Len(e.steps) > 1)
        /\ ~(a < lo) /\ ~(z > hi) /\ k # 0
    BY <1>6 DEF BadRange
  <2>2. Len(e.steps) \in {0, 1} /\ (~Starred(e) => Len(e.range) \in {1, 2})
    BY <1>1, <1>a, <2>1, Zenon
  <2>3. a \in Nat /\ z \in Nat
    BY <1>5, <1>6
  <2>4. a >= lo /\ z <= hi
    BY <1>0, <2>1, <2>3
  <2>5. Denotes(e, f) = Multiples(a, z, k) /\ k \in Nat \ {0}
    BY <2>1, <2>2, <2>4, DenotesMultiples
  <2>6. GetBits(a, z, k) = Denotes(e, f)
    BY <2>3, <2>5, GetBitsAre
  <2> QED
    BY <1>1, <2>6 DEF GetRange, ExprBits
<1> QED
  BY <1>4, <1>5, <1>6

-----------------------------------------------------------------------------
(* The invariant of the parse *)

\* The second of a pattern in the five-field form.
SecondZero == <<[range |-> <<Num(0)>>, steps |-> <<>>]>>

\* The six fields of a pattern.
SixFields(p) == IF Len(p) = 5 THEN <<SecondZero>> \o p ELSE p

\* The bits of the first n expressions of a field.
BitsUpTo(field, f, n) == UNION {ExprBits(field[k], f) : k \in 1..n}

\* How many expressions of field f have been read.
ReadOf(f) ==
    IF f < at[1] THEN Len(fields[f]) ELSE IF f = at[1] THEN at[2] - 1 ELSE 0

\* Within the loops, and after them: what has been read makes sense, and its
\* bits are in the schedule.
LoopInv ==
    /\ Len(input.fields) \in {5, 6}
    /\ fields = SixFields(input.fields)
    /\ at \in (1..7) \X (Nat \ {0})
    /\ stage = "range" <=> at[1] \in Fields
    /\ at[1] \in Fields => at[2] <= Len(fields[at[1]]) + 1
    /\ bits = [f \in Fields |-> BitsUpTo(fields[f], f, ReadOf(f))]
    /\ \A f \in Fields : \A k \in 1..ReadOf(f) : Sensible(fields[f][k], f)

\* Some expression of the pattern makes no sense.
Refused ==
    \/ Len(input.fields) \notin {5, 6}
    \/ LET six == SixFields(input.fields)
       IN  \E f \in Fields : \E k \in 1..Len(six[f]) : ~Sensible(six[f][k], f)

CronInv ==
    /\ input.fields \in Seq(Seq(Expr))
    /\ stage = "parse" => at = <<1, 1>> /\ bits = [f \in Fields |-> {}]
    /\ stage \in {"range", "ok"} => LoopInv
    /\ stage = "error" => Refused

DescriptorInv ==
    /\ stage \in {"parse", "ok", "error"}
    /\ stage = "ok" => input.name \in DOMAIN Descriptor /\ bits = Descriptor[input.name]

EveryInv ==
    /\ input.duration \in Int
    /\ stage \in {"parse", "ok"}
    /\ stage = "ok" => delay = Every(input.duration)

ParseInv ==
    /\ stage \in {"parse", "range", "ok", "error"}
    /\ input.kind \in {"cron", "descriptor", "every"}
    /\ input.kind = "cron" => CronInv
    /\ input.kind = "descriptor" => DescriptorInv
    /\ input.kind = "every" => EveryInv

LEMMA SecondZeroExpr == SecondZero \in Seq(Expr)
<1>1. Num(0) \in Token
  BY DEF Num, Token
<1>2. <<Num(0)>> \in Seq(Token) /\ <<Num(0)>> # <<>> /\ <<>> \in Seq(Token)
  BY <1>1
<1>3. [range |-> <<Num(0)>>, steps |-> <<>>] \in Expr
  BY <1>2 DEF Expr
<1> QED
  BY <1>3 DEF SecondZero

\* There are six of them, whichever form the pattern has.
LEMMA SixFieldsTypes ==
    ASSUME NEW p \in Seq(Seq(Expr)), Len(p) \in {5, 6}
    PROVE  LET six == SixFields(p) IN
           /\ \A f \in Fields : six[f] \in Seq(Expr) /\ Len(six[f]) \in Nat
           /\ \A k \in 1..Len(p) : k + (6 - Len(p)) \in Fields /\ six[k + (6 - Len(p))] = p[k]
           /\ \A f \in Fields : (f = 1 /\ Len(p) = 5) \/ f - (6 - Len(p)) \in 1..Len(p)
           /\ Len(p) = 5 => six[1] = SecondZero
<1> DEFINE S == Seq(Expr)
<1>0. SecondZero \in S /\ \A x \in S : Len(x) \in Nat
  BY SecondZeroExpr
<1>1. p \in Seq(S)
  OBVIOUS
<1>a. \A k \in 1..Len(p) : p[k] \in Seq(Expr) /\ Len(p[k]) \in Nat
  BY <1>0, <1>1, ElementOfSeq
<1> HIDE DEF S
<1>2. CASE Len(p) = 6
  <2>1. SixFields(p) = p
    BY <1>2 DEF SixFields
  <2>2. 1..Len(p) = Fields /\ \A k \in Fields : k + (6 - 6) = k /\ k - (6 - 6) = k
    BY <1>2 DEF Fields
  <2> QED
    BY <1>a, <1>2, <2>1, <2>2
<1>3. CASE Len(p) = 5
  <2> DEFINE one == <<SecondZero>>
             six == one \o p
  <2>1. SixFields(p) = six
    BY <1>3 DEF SixFields
  <2>2. one \in Seq(S) /\ Len(one) = 1 /\ one[1] = SecondZero
    BY <1>0
  <2> HIDE DEF one
  <2>a. \A i \in 1..Len(one) + Len(p) : (one \o p)[i] = IF i <= Len(one) THEN one[i] ELSE p[i - Len(one)]
    BY <1>1, <2>2, ConcatProperties, Zenon
  <2>b. \A i \in 1..Len(one) + Len(p) : six[i] = IF i <= Len(one) THEN one[i] ELSE p[i - Len(one)]
    BY <2>a
  <2> HIDE DEF six
  <2>3. \A i \in 1..6 : six[i] = IF i <= 1 THEN one[i] ELSE p[i - 1]
    BY <1>3, <2>2, <2>b
  <2>4. six[1] = SecondZero
    BY <2>2, <2>3
  <2>5. \A k \in 1..5 : k + 1 \in Fields /\ six[k + 1] = p[k]
    <3> SUFFICES ASSUME NEW k \in 1..5 PROVE k + 1 \in Fields /\ six[k + 1] = p[k]
      OBVIOUS
    <3>1. k + 1 \in 1..6 /\ ~(k + 1 <= 1) /\ (k + 1) - 1 = k
      OBVIOUS
    <3> QED
      BY <2>3, <3>1 DEF Fields
  <2>6. \A f \in Fields : f = 1 \/ (f - 1 \in 1..5 /\ (f - 1) + 1 = f)
    BY DEF Fields
  <2>7. \A f \in Fields : six[f] \in Seq(Expr) /\ Len(six[f]) \in Nat
    <3>1. SecondZero \in Seq(Expr) /\ Len(SecondZero) \in Nat
      BY <1>0 DEF S
    <3>2. \A k \in 1..5 : p[k] \in Seq(Expr) /\ Len(p[k]) \in Nat
      BY <1>a, <1>3
    <3> SUFFICES ASSUME NEW f \in Fields PROVE six[f] \in Seq(Expr) /\ Len(six[f]) \in Nat
      OBVIOUS
    <3>3. CASE f = 1
      BY <2>4, <3>1, <3>3
    <3>4. CASE f # 1
      <4>1. six[(f - 1) + 1] = p[f - 1] /\ f - 1 \in 1..5 /\ (f - 1) + 1 = f
        BY <2>5, <2>6, <3>4
      <4> QED
        BY <3>2, <4>1
    <3> QED
      BY <3>3, <3>4
  <2>8. 6 - Len(p) = 1
    BY <1>3
  <2> QED
    BY <1>3, <2>1, <2>4, <2>5, <2>6, <2>7, <2>8
<1> QED
  BY <1>2, <1>3

LEMMA BitsOfNone ==
    ASSUME NEW field, NEW f PROVE BitsUpTo(field, f, 0) = {}
BY DEF BitsUpTo

LEMMA BitsOfOneMore ==
    ASSUME NEW field, NEW f, NEW n \in Nat \ {0}
    PROVE  BitsUpTo(field, f, n) = BitsUpTo(field, f, n - 1) \cup ExprBits(field[n], f)
<1>1. 1..n = (1..(n - 1)) \cup {n}
  OBVIOUS
<1> QED
  BY <1>1 DEF BitsUpTo

-----------------------------------------------------------------------------
(* Every step keeps it *)

LEMMA InitKeeps == ParseInit => ParseInv
<1> SUFFICES ASSUME ParseInit PROVE ParseInv
  OBVIOUS
<1>1. stage = "parse" /\ at = <<1, 1>> /\ bits = [f \in Fields |-> {}]
  BY DEF ParseInit
<1>2. CASE \E q \in Patterns : input = [kind |-> "cron", fields |-> q]
  <2>1. input.kind = "cron" /\ input.fields \in Seq(Seq(Expr))
    BY <1>2, InputAssumption
  <2> QED
    BY <1>1, <2>1 DEF ParseInv, CronInv
<1>3. CASE \E d \in DOMAIN Descriptor \cup {"other"} : input = [kind |-> "descriptor", name |-> d]
  <2>1. input.kind = "descriptor"
    BY <1>3
  <2> QED
    BY <1>1, <2>1 DEF ParseInv, DescriptorInv
<1>4. CASE \E d \in Durations : input = [kind |-> "every", duration |-> d]
  <2>1. input.kind = "every" /\ input.duration \in Int
    BY <1>4, InputAssumption
  <2> QED
    BY <1>1, <2>1 DEF ParseInv, EveryInv
<1> QED
  BY <1>2, <1>3, <1>4 DEF ParseInit

LEMMA CountFieldsKeeps == ParseInv /\ CountFields => ParseInv'
<1> SUFFICES ASSUME ParseInv, CountFields PROVE ParseInv'
  OBVIOUS
<1> DEFINE n == Len(input.fields)
<1>1. /\ stage = "parse" /\ input.kind = "cron" /\ input.fields \in Seq(Seq(Expr))
      /\ at = <<1, 1>> /\ bits = [f \in Fields |-> {}]
      /\ input' = input /\ at' = at /\ bits' = bits
      /\ stage' = IF n \in {5, 6} THEN "range" ELSE "error"
  BY DEF ParseInv, CronInv, CountFields
<1>2. CASE n \notin {5, 6}
  <2>1. stage' = "error" /\ Refused'
    BY <1>1, <1>2 DEF Refused
  <2> QED
    BY <1>1, <2>1 DEF ParseInv, CronInv
<1>3. CASE n \in {5, 6}
  <2>1. stage' = "range" /\ fields' = SixFields(input.fields)
    <3>1. CASE n = 5
      BY <1>1, <3>1 DEF CountFields, SixFields, SecondZero
    <3>2. CASE n = 6
      BY <1>1, <3>2 DEF CountFields, SixFields
    <3> QED
      BY <1>3, <3>1, <3>2
  <2>2. \A f \in Fields : fields'[f] \in Seq(Expr) /\ Len(fields'[f]) \in Nat
    BY <1>1, <1>3, <2>1, SixFieldsTypes
  <2>3. \A f \in Fields : ReadOf(f)' = 0
    BY <1>1 DEF ReadOf, Fields
  <2>4. bits' = [f \in Fields |-> BitsUpTo(fields'[f], f, ReadOf(f)')]
    BY <1>1, <2>3, BitsOfNone
  <2>5. at' \in (1..7) \X (Nat \ {0}) /\ at'[1] = 1 /\ at'[2] = 1 /\ 1 \in Fields
    BY <1>1 DEF Fields
  <2>6. LoopInv'
    BY <1>1, <1>3, <2>1, <2>2, <2>3, <2>4, <2>5 DEF LoopInv
  <2> QED
    BY <1>1, <2>1, <2>6 DEF ParseInv, CronInv
<1> QED
  BY <1>2, <1>3

\* In the loops there is a cron pattern, and the expression read is one of it.
LEMMA InTheLoop ==
    ASSUME ParseInv, stage = "range"
    PROVE  /\ input.kind = "cron" /\ input.fields \in Seq(Seq(Expr)) /\ LoopInv
           /\ at[1] \in Fields /\ at[2] \in Nat \ {0} /\ at = <<at[1], at[2]>>
           /\ \A f \in Fields : fields[f] \in Seq(Expr) /\ Len(fields[f]) \in Nat
<1>1. input.kind = "cron"
  BY DEF ParseInv, DescriptorInv, EveryInv
<1>2. input.fields \in Seq(Seq(Expr)) /\ LoopInv
  BY <1>1 DEF ParseInv, CronInv
<1>3. at[1] \in Fields /\ at[2] \in Nat \ {0} /\ at = <<at[1], at[2]>>
  BY <1>2 DEF LoopInv
<1>4. \A f \in Fields : fields[f] \in Seq(Expr) /\ Len(fields[f]) \in Nat
  BY <1>2, SixFieldsTypes DEF LoopInv
<1> QED
  BY <1>1, <1>2, <1>3, <1>4

LEMMA ParseRangeKeeps == ParseInv /\ ParseRange => ParseInv'
<1> SUFFICES ASSUME ParseInv, ParseRange PROVE ParseInv'
  OBVIOUS
<1> DEFINE h == at[1]
           i == at[2]
           e == fields[h][i]
<1>1. /\ stage = "range" /\ i <= Len(fields[h])
      /\ input' = input /\ fields' = fields
  BY DEF ParseRange
<1>2. /\ input.kind = "cron" /\ input.fields \in Seq(Seq(Expr)) /\ LoopInv
      /\ h \in Fields /\ i \in Nat \ {0} /\ at = <<h, i>>
      /\ \A f \in Fields : fields[f] \in Seq(Expr) /\ Len(fields[f]) \in Nat
  BY <1>1, InTheLoop
<1>3. e \in Expr /\ i \in 1..Len(fields[h])
  <2>1. fields[h] \in Seq(Expr) /\ i \in 1..Len(fields[h])
    BY <1>1, <1>2
  <2> QED
    BY <2>1, ElementOfSeq
<1>4. CASE BadRange(e, h)
  <2>1. stage' = "error"
    BY <1>4 DEF ParseRange
  <2>2. ~Sensible(e, h)
    BY <1>2, <1>3, <1>4, RangeReads
  <2>3. fields = SixFields(input.fields)
    BY <1>2 DEF LoopInv
  <2>4. Refused'
    BY <1>1, <1>2, <1>3, <2>2, <2>3 DEF Refused
  <2> QED
    BY <1>1, <1>2, <2>1, <2>4 DEF ParseInv, CronInv
<1>5. CASE ~BadRange(e, h)
  <2>1. stage' = "range" /\ at' = <<h, i + 1>> /\ bits' = [bits EXCEPT ![h] = @ \cup GetRange(e, h)]
    BY <1>1, <1>5 DEF ParseRange
  <2>2. Sensible(e, h) /\ GetRange(e, h) = ExprBits(e, h)
    BY <1>2, <1>3, <1>5, RangeReads
  <2>a. at'[1] = h /\ at'[2] = i + 1 /\ (i + 1) - 1 = i
    BY <1>2, <2>1
  <2>b. h \in 1..6 /\ i + 1 <= Len(fields[h]) + 1
    <3>1. h \in 1..6
      BY <1>2 DEF Fields
    <3>2. i <= Len(fields[h]) /\ i \in Nat /\ Len(fields[h]) \in Nat
      BY <1>1, <1>2
    <3> QED
      BY <3>1, <3>2
  <2>3. \A f \in Fields : ReadOf(f)' = IF f = h THEN i ELSE ReadOf(f)
    <3>1. \A f \in Fields : ReadOf(f)' = IF f < h THEN Len(fields[f]) ELSE IF f = h THEN i ELSE 0
      BY <1>1, <2>a DEF ReadOf
    <3>2. \A f \in Fields : f < h => f # h
      BY <2>b DEF Fields
    <3> QED
      BY <3>1, <3>2 DEF ReadOf
  <2>4. ReadOf(h) = i - 1
    <3>1. ~(h < h)
      BY <2>b
    <3> QED
      BY <3>1 DEF ReadOf
  <2>5. bits = [f \in Fields |-> BitsUpTo(fields[f], f, ReadOf(f))]
    BY <1>2 DEF LoopInv
  <2>6. BitsUpTo(fields[h], h, i) = BitsUpTo(fields[h], h, i - 1) \cup ExprBits(e, h)
    BY <1>2, BitsOfOneMore
  <2>7. bits' = [f \in Fields |-> BitsUpTo(fields[f], f, IF f = h THEN i ELSE ReadOf(f))]
    BY <1>2, <2>1, <2>2, <2>4, <2>5, <2>6
  <2>8. bits' = [f \in Fields |-> BitsUpTo(fields'[f], f, ReadOf(f)')]
    BY <1>1, <2>3, <2>7
  <2>9. \A f \in Fields : \A k \in 1..ReadOf(f)' : Sensible(fields'[f][k], f)
    <3>1. \A f \in Fields : \A k \in 1..ReadOf(f) : Sensible(fields[f][k], f)
      BY <1>2 DEF LoopInv
    <3>2. \A k \in 1..i : k = i \/ k \in 1..(i - 1)
      BY <1>2
    <3> QED
      BY <1>1, <2>2, <2>3, <2>4, <3>1, <3>2
  <2>10. at' \in (1..7) \X (Nat \ {0})
    BY <1>2, <2>1, <2>b
  <2>11. LoopInv'
    BY <1>1, <1>2, <2>1, <2>8, <2>9, <2>10, <2>a, <2>b DEF LoopInv
  <2> QED
    BY <1>1, <1>2, <2>1, <2>11 DEF ParseInv, CronInv
<1> QED
  BY <1>4, <1>5

LEMMA EndFieldKeeps == ParseInv /\ EndField => ParseInv'
<1> SUFFICES ASSUME ParseInv, EndField PROVE ParseInv'
  OBVIOUS
<1> DEFINE h == at[1]
           i == at[2]
<1>1. /\ stage = "range" /\ i > Len(fields[h])
      /\ input' = input /\ fields' = fields /\ bits' = bits
      /\ at' = <<h + 1, 1>> /\ stage' = IF h = 6 THEN "ok" ELSE "range"
  BY DEF EndField
<1>2. /\ input.kind = "cron" /\ input.fields \in Seq(Seq(Expr)) /\ LoopInv
      /\ h \in Fields /\ i \in Nat \ {0} /\ at = <<h, i>>
      /\ \A f \in Fields : fields[f] \in Seq(Expr) /\ Len(fields[f]) \in Nat
  BY <1>1, InTheLoop
<1>3. i = Len(fields[h]) + 1
  BY <1>1, <1>2 DEF LoopInv
<1>a. h \in 1..6
  BY <1>2 DEF Fields
<1>4. at' \in (1..7) \X (Nat \ {0}) /\ at'[1] = h + 1 /\ at'[2] = 1
  <2>1. h + 1 \in 1..7 /\ 1 \in Nat \ {0}
    BY <1>a
  <2> QED
    BY <1>1, <2>1
<1>5. \A f \in Fields : ReadOf(f)' = ReadOf(f)
  <2>1. \A f \in Fields : ReadOf(f)' = IF f < h + 1 THEN Len(fields[f]) ELSE 0
    BY <1>1, <1>4 DEF ReadOf
  <2>2. i - 1 = Len(fields[h])
    BY <1>2, <1>3
  <2>3. \A f \in Fields : f < h + 1 <=> f < h \/ f = h
    <3>1. \A f, g \in 1..6 : f < g + 1 <=> f < g \/ f = g
      OBVIOUS
    <3> QED
      BY <1>a, <3>1 DEF Fields
  <2> QED
    BY <2>1, <2>2, <2>3 DEF ReadOf
<1>6. stage' = "range" <=> at'[1] \in Fields
  <2>1. h = 6 <=> h + 1 \notin 1..6
    BY <1>a
  <2> QED
    BY <1>1, <1>4, <2>1 DEF Fields
<1>7. at'[1] \in Fields => at'[2] <= Len(fields'[at'[1]]) + 1
  BY <1>1, <1>2, <1>4
<1>8. LoopInv'
  BY <1>1, <1>2, <1>4, <1>5, <1>6, <1>7 DEF LoopInv
<1> QED
  BY <1>1, <1>2, <1>8 DEF ParseInv, CronInv

LEMMA ParseDescriptorKeeps == ParseInv /\ ParseDescriptor => ParseInv'
BY DEF ParseInv, DescriptorInv, ParseDescriptor

LEMMA ParseEveryKeeps == ParseInv /\ ParseEvery => ParseInv'
BY DEF ParseInv, EveryInv, ParseEvery

LEMMA RestKeeps == ParseInv /\ UNCHANGED parseVars => ParseInv'
BY DEF ParseInv, CronInv, LoopInv, ReadOf, Refused, DescriptorInv, EveryInv, parseVars

\* The invariant holds throughout a parse.
LEMMA ParseInvariant == ParseSpec => []ParseInv
<1>1. ParseInv /\ [ParseNext]_parseVars => ParseInv'
  BY CountFieldsKeeps, ParseRangeKeeps, EndFieldKeeps, ParseDescriptorKeeps, ParseEveryKeeps,
     RestKeeps DEF ParseNext, Parsed
<1> QED
  BY <1>1, InitKeeps, PTL DEF ParseSpec

-----------------------------------------------------------------------------
(* The theorems *)

LEMMA StarBits ==
    ASSUME NEW S, NEW x
    PROVE  x \in {StarBit : e \in S} <=> x = StarBit /\ S # {}
BY Zenon

LEMMA FieldBitsAre ==
    ASSUME NEW field \in Seq(Expr), NEW f
    PROVE  FieldBits(field, f) = BitsUpTo(field, f, Len(field))
<1> DEFINE n == Len(field)
<1>1. \A x : x \in FieldBits(field, f) <=>
          \/ \E k \in 1..n : x \in Denotes(field[k], f)
          \/ x = StarBit /\ \E k \in 1..n : field[k].range[1] = AnyValue
  <2> DEFINE starred == {e \in Exprs(field) : e.range[1] = AnyValue}
             values == UNION {Denotes(e, f) : e \in Exprs(field)}
             stars == {StarBit : e \in starred}
  <2>a. FieldBits(field, f) = values \cup stars
    BY Zenon DEF FieldBits
  <2>b. \A x : x \in values <=> \E e \in Exprs(field) : x \in Denotes(e, f)
    BY Zenon
  <2>c. \A x : x \in stars <=> x \in {StarBit : e \in starred}
    BY Zenon
  <2> HIDE DEF values, stars
  <2>1. \A x : x \in FieldBits(field, f) <=>
            (\E e \in Exprs(field) : x \in Denotes(e, f)) \/ x \in {StarBit : e \in starred}
    BY <2>a, <2>b, <2>c, Zenon
  <2>2. \A x : x \in {StarBit : e \in starred} <=> x = StarBit /\ starred # {}
    BY StarBits
  <2>3. starred # {} <=> \E k \in 1..n : field[k].range[1] = AnyValue
    BY DEF Exprs
  <2>4. \A x : (\E e \in Exprs(field) : x \in Denotes(e, f)) <=> \E k \in 1..n : x \in Denotes(field[k], f)
    BY DEF Exprs
  <2> QED
    BY <2>1, <2>2, <2>3, <2>4, Zenon
<1>2. \A x : x \in BitsUpTo(field, f, n) <=> \E k \in 1..n : x \in ExprBits(field[k], f)
  BY DEF BitsUpTo
<1>3. \A x, e : x \in ExprBits(e, f) <=> x \in Denotes(e, f) \/ (x = StarBit /\ e.range[1] = AnyValue)
  BY DEF ExprBits
<1>4. \A x : x \in FieldBits(field, f) <=> x \in BitsUpTo(field, f, n)
  BY <1>1, <1>2, <1>3, Zenon
<1> QED
  BY <1>4

\* A single value, and a star.
ValueField(n) == <<[range |-> <<Num(n)>>, steps |-> <<>>]>>
AnyField == <<[range |-> <<AnyValue>>, steps |-> <<>>]>>

\* A field that is the first value of its bounds: one bit.
LEMMA ValueBits ==
    ASSUME NEW f \in Fields, NEW n, n = Bounds[f].min
    PROVE  /\ FieldBits(ValueField(n), f) = Least(f)
           /\ \A e \in Exprs(ValueField(n)) : Sensible(e, f)
<1> DEFINE e == [range |-> <<Num(n)>>, steps |-> <<>>]
<1>0. n \in Nat /\ Bounds[f].max \in Nat /\ n <= Bounds[f].max
  BY BoundsOf
<1>1. /\ Len(e.range) = 1 /\ e.range[1] = Num(n) /\ e.steps = <<>> /\ Len(e.steps) = 0
      /\ Num(n).kind = "number" /\ Num(n).n = n /\ Num(n) # AnyValue
  BY DEF Num, AnyValue
<1>2. Exprs(ValueField(n)) = {e}
  BY DEF Exprs, ValueField
<1> HIDE DEF e
<1>3. Denotes(e, f) = {v \in Bounds[f].min..Bounds[f].max : v = n}
  BY <1>1 DEF Denotes
<1>4. Denotes(e, f) = {n}
  BY <1>0, <1>3
<1>5. FieldBits(ValueField(n), f) = {n}
  BY <1>1, <1>2, <1>4 DEF FieldBits
<1>6. Sensible(e, f)
  BY <1>0, <1>1, <1>4 DEF Sensible, Parses
<1> QED
  BY <1>2, <1>5, <1>6 DEF Least

\* A star: all bits, and the star bit.
LEMMA AnyBits ==
    ASSUME NEW f \in Fields PROVE FieldBits(AnyField, f) = All(f)
<1> DEFINE e == [range |-> <<AnyValue>>, steps |-> <<>>]
<1>1. e.range[1] = AnyValue /\ e.steps = <<>>
  OBVIOUS
<1>2. Exprs(AnyField) = {e}
  BY DEF Exprs, AnyField
<1> HIDE DEF e
<1>3. Denotes(e, f) = Bounds[f].min..Bounds[f].max
  BY <1>1 DEF Denotes
<1>4. FieldBits(AnyField, f) = Denotes(e, f) \cup {StarBit}
  <2>1. UNION {Denotes(x, f) : x \in Exprs(AnyField)} = Denotes(e, f)
    BY <1>2
  <2>2. {x \in Exprs(AnyField) : x.range[1] = AnyValue} = {e}
    BY <1>1, <1>2
  <2>3. \A x : x \in {StarBit : y \in {e}} <=> x = StarBit /\ {e} # {}
    BY StarBits
  <2>4. {StarBit : y \in {e}} = {StarBit}
    BY <2>3
  <2> QED
    BY <2>1, <2>2, <2>4, Zenon DEF FieldBits
<1> QED
  BY <1>3, <1>4 DEF All, GetBits

\* Parse (parser.go) returns an error for a cron pattern exactly when its number
\* of fields or one of its expressions makes no sense, and otherwise the bits of
\* the values written: for every pattern, of any length, and all bounds.
THEOREM PatternsAreRead == ParseSpec => []ParsedAsWritten
<1>1. ParseInv => ParsedAsWritten
  <2> SUFFICES ASSUME ParseInv, input.kind = "cron", stage \in {"ok", "error"}
               PROVE  ParsedAsWritten
    BY DEF ParsedAsWritten
  <2> DEFINE p == input.fields
             n == Len(p)
             shift == 6 - n
             six == SixFields(p)
             sensible == /\ n \in {5, 6}
                         /\ \A k \in 1..n : \A e \in Exprs(p[k]) : Sensible(e, k + shift)
  <2>1. p \in Seq(Seq(Expr)) /\ (stage = "ok" => LoopInv) /\ (stage = "error" => Refused)
    BY DEF ParseInv, CronInv
  <2>2. ASSUME n \in {5, 6}
        PROVE  /\ \A f \in Fields : six[f] \in Seq(Expr) /\ Len(six[f]) \in Nat
               /\ \A k \in 1..n : k + shift \in Fields /\ six[k + shift] = p[k]
               /\ \A f \in Fields : (f = 1 /\ n = 5) \/ f - shift \in 1..n
               /\ n = 5 => six[1] = SecondZero
    BY <2>1, <2>2, SixFieldsTypes
  <2>3. /\ \A e \in Exprs(SecondZero) : Sensible(e, 1)
        /\ FieldBits(SecondZero, 1) = {0}
        /\ SecondZero[1] \in Exprs(SecondZero) /\ Len(SecondZero) = 1
    <3>1. 1 \in Fields /\ Bounds[1].min = 0
      BY BoundsAssumption DEF Fields
    <3>2. SecondZero = ValueField(0)
      BY DEF SecondZero, ValueField
    <3>3. SecondZero[1] \in Exprs(SecondZero) /\ Len(SecondZero) = 1
      BY DEF SecondZero, Exprs
    <3> QED
      BY <3>1, <3>2, <3>3, ValueBits DEF Least
  <2> HIDE DEF six
  <2>4. CASE stage = "ok"
    <3>1. /\ n \in {5, 6} /\ fields = six /\ at[1] \in 1..7 /\ at[1] \notin Fields
          /\ bits = [f \in Fields |-> BitsUpTo(fields[f], f, ReadOf(f))]
          /\ \A f \in Fields : \A k \in 1..ReadOf(f) : Sensible(fields[f][k], f)
      BY <2>1, <2>4 DEF LoopInv, six
    <3>2. \A f \in Fields : ReadOf(f) = Len(six[f])
      BY <3>1 DEF ReadOf, Fields
    <3>3. \A f \in Fields : bits[f] = FieldBits(six[f], f)
      <4>1. \A f \in Fields : BitsUpTo(six[f], f, Len(six[f])) = FieldBits(six[f], f)
        BY <2>2, <3>1, FieldBitsAre
      <4>2. \A f \in Fields : bits[f] = BitsUpTo(six[f], f, Len(six[f]))
        BY <3>1, <3>2
      <4> QED
        BY <4>1, <4>2
    <3>4. \A f \in Fields : \A e \in Exprs(six[f]) : Sensible(e, f)
      BY <3>1, <3>2 DEF Exprs
    <3>5. sensible
      BY <2>2, <3>1, <3>4
    <3>6. \A k \in 1..n : bits[k + shift] = FieldBits(p[k], k + shift)
      BY <2>2, <3>1, <3>3
    <3>7. n = 5 => bits[1] = {0}
      BY <2>2, <2>3, <3>1, <3>3 DEF Fields
    <3> QED
      BY <2>4, <3>5, <3>6, <3>7 DEF ParsedAsWritten
  <2>5. CASE stage = "error"
    <3>1. ~sensible
      <4> SUFFICES ASSUME sensible PROVE FALSE
        OBVIOUS
      <4>1. PICK f \in Fields : \E k \in 1..Len(six[f]) : ~Sensible(six[f][k], f)
        BY <2>1, <2>5 DEF Refused, six
      <4>2. PICK k \in 1..Len(six[f]) : ~Sensible(six[f][k], f)
        BY <4>1
      <4>3. six[f][k] \in Exprs(six[f])
        BY DEF Exprs
      <4>4. CASE f = 1 /\ n = 5
        BY <2>2, <2>3, <4>2, <4>3, <4>4
      <4>5. CASE f - shift \in 1..n
        <5>1. (f - shift) + shift = f
          BY <2>1, <4>5 DEF Fields
        <5>2. six[f] = p[f - shift]
          BY <2>2, <4>5, <5>1
        <5> QED
          BY <4>2, <4>3, <4>5, <5>1, <5>2
      <4> QED
        BY <2>2, <4>4, <4>5
    <3> QED
      BY <2>5, <3>1 DEF ParsedAsWritten
  <2> QED
    BY <2>4, <2>5
<1> QED
  BY <1>1, ParseInvariant, PTL

\* parseDescriptor: a descriptor is the cron pattern it abbreviates, star bits
\* included.
THEOREM DescriptorsAreRead == ParseSpec => []DescriptorsAgree
<1>1. ParseInv => DescriptorsAgree
  <2> SUFFICES ASSUME ParseInv, input.kind = "descriptor", stage = "ok"
               PROVE  DescriptorsAgree
    BY DEF DescriptorsAgree
  <2> DEFINE d == input.name
             pattern ==
                [yearly  |-> <<ValueField(0), ValueField(0), ValueField(0), ValueField(1), ValueField(1), AnyField>>,
                 monthly |-> <<ValueField(0), ValueField(0), ValueField(0), ValueField(1), AnyField, AnyField>>,
                 weekly  |-> <<ValueField(0), ValueField(0), ValueField(0), AnyField, AnyField, ValueField(0)>>,
                 daily   |-> <<ValueField(0), ValueField(0), ValueField(0), AnyField, AnyField, AnyField>>,
                 hourly  |-> <<ValueField(0), ValueField(0), AnyField, AnyField, AnyField, AnyField>>]
  <2>1. d \in DOMAIN Descriptor /\ bits = Descriptor[d]
    BY DEF ParseInv, DescriptorInv
  <2>2. d \in {"yearly", "monthly", "weekly", "daily", "hourly"}
    BY <2>1 DEF Descriptor
  <2>3. /\ \A f \in {1, 2, 3, 6} : f \in Fields /\ Bounds[f].min = 0
        /\ \A f \in {4, 5} : f \in Fields /\ Bounds[f].min = 1
    BY BoundsAssumption DEF Fields
  <2>4. /\ \A f \in {1, 2, 3, 6} : FieldBits(ValueField(0), f) = Least(f)
        /\ \A f \in {4, 5} : FieldBits(ValueField(1), f) = Least(f)
        /\ \A f \in Fields : FieldBits(AnyField, f) = All(f)
    BY <2>3, ValueBits, AnyBits
  <2> HIDE DEF d
  <2>5. \A f \in Fields : bits[f] = FieldBits(pattern[d][f], f)
    <3>1. Fields = {1, 2, 3, 4, 5, 6}
      BY DEF Fields
    <3>2. CASE d = "yearly"
      BY <2>1, <2>4, <3>1, <3>2 DEF Descriptor
    <3>3. CASE d = "monthly"
      BY <2>1, <2>4, <3>1, <3>3 DEF Descriptor
    <3>4. CASE d = "weekly"
      BY <2>1, <2>4, <3>1, <3>4 DEF Descriptor
    <3>5. CASE d = "daily"
      BY <2>1, <2>4, <3>1, <3>5 DEF Descriptor
    <3>6. CASE d = "hourly"
      BY <2>1, <2>4, <3>1, <3>6 DEF Descriptor
    <3> QED
      BY <2>2, <3>2, <3>3, <3>4, <3>5, <3>6
  <2> QED
    BY <2>5 DEF DescriptorsAgree, ValueField, AnyField, d
<1> QED
  BY <1>1, ParseInvariant, PTL

\* Every: the delay is a whole number of seconds, at least one.
LEMMA EveryIsWhole ==
    ASSUME NEW d \in Int
    PROVE  /\ Every(d) >= Tick
           /\ Every(d) <= d \/ Every(d) = Tick
           /\ d - Every(d) < Tick
           /\ \E q \in Int : Every(d) = Tick * q
<1> DEFINE e == IF d < Tick THEN Tick ELSE d
           q == e \div Tick
           r == e % Tick
<1>0. Tick \in Nat \ {0}
  BY BoundsAssumption
<1>1. Every(d) = e - r
  BY DEF Every
<1>2. e \in Nat /\ e >= Tick /\ (d < Tick => e = Tick) /\ (~(d < Tick) => e = d)
  BY <1>0
<1>3. q \in Int /\ r \in 0..(Tick - 1) /\ e = Tick * q + r
  BY <1>0, <1>2, DivMod
<1> HIDE DEF e, q, r
<1>4. Every(d) = Tick * q
  BY <1>0, <1>1, <1>2, <1>3
<1>5. Every(d) >= Tick
  <2>1. q >= 1
    BY <1>0, <1>2, <1>3
  <2> QED
    BY <1>0, <1>3, <1>4, <2>1
<1>6. CASE d < Tick
  BY <1>0, <1>1, <1>2, <1>3, <1>4, <1>5, <1>6
<1>7. CASE ~(d < Tick)
  BY <1>0, <1>1, <1>2, <1>3, <1>4, <1>5, <1>7
<1> QED
  BY <1>6, <1>7

\* "@every": Every and ConstantDelaySchedule.Next always move on, to a whole
\* second, for every duration and from every time.
THEOREM EveryAdvances == ParseSpec => []EveryMovesOn
<1>1. ParseInv => EveryMovesOn
  <2> SUFFICES ASSUME ParseInv, input.kind = "every", stage = "ok"
               PROVE  EveryMovesOn
    BY DEF EveryMovesOn
  <2> DEFINE d == input.duration
  <2>0. Tick \in Nat \ {0}
    BY BoundsAssumption
  <2>1. d \in Int /\ delay = Every(d)
    BY DEF ParseInv, EveryInv
  <2>2. /\ delay >= Tick
        /\ delay <= d \/ delay = Tick
        /\ d - delay < Tick
    BY <2>1, EveryIsWhole
  <2>3. PICK q \in Int : delay = Tick * q
    BY <2>1, EveryIsWhole
  <2>4. \A x \in Int : (Tick * x) % Tick = 0
    <3> SUFFICES ASSUME NEW x \in Int PROVE (Tick * x) % Tick = 0
      OBVIOUS
    <3>1. 0 \in 0..(Tick - 1) /\ Tick * x + 0 = Tick * x
      BY <2>0
    <3> QED
      BY <2>0, <3>1, DivModUnique
  <2>5. ASSUME NEW u \in Nat
        PROVE  EveryNext(delay, u) > u /\ EveryNext(delay, u) % Tick = 0
    <3> DEFINE k == u \div Tick
               r == u % Tick
    <3>1. k \in Int /\ r \in 0..(Tick - 1) /\ u = Tick * k + r
      BY <2>0, DivMod
    <3>2. EveryNext(delay, u) = u + delay - r
      BY DEF EveryNext
    <3> HIDE DEF k, r
    <3>3. EveryNext(delay, u) > u
      BY <2>0, <2>2, <2>3, <3>1, <3>2
    <3>4. EveryNext(delay, u) = Tick * (k + q)
      BY <2>0, <2>3, <3>1, <3>2
    <3> QED
      BY <2>4, <3>1, <3>3, <3>4
  <2>6. delay % Tick = 0
    BY <2>3, <2>4
  <2> QED
    BY <2>0, <2>2, <2>5, <2>6 DEF EveryMovesOn
<1> QED
  BY <1>1, ParseInvariant, PTL
=============================================================================
