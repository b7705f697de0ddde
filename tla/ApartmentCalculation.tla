------------------------- MODULE ApartmentCalculation -------------------------
(***************************************************************************)
(* The calculation of an apartment's value from four analogs               *)
(* (internal/service/apartment_calc.go), exact where the code uses         *)
(* float64: a number is a fraction <<n, d>> with d > 0, in lowest terms.   *)
(* The power of the scale formula is a table of the configuration, as      *)
(* areas are a few values.  Coefficients that are only shown are left out. *)
(***************************************************************************)
EXTENDS Integers

-------------------------------------------------------------------------------
(* Fractions. *)

Abs(n) == IF n < 0 THEN -n ELSE n

Gcd[p \in Nat \X Nat] == IF p[2] = 0 THEN p[1] ELSE Gcd[<<p[2], p[1] % p[2]>>]

Fraction == Int \X (Nat \ {0})

\* In lowest terms.
Reduced[x \in Fraction] ==
  LET g == Gcd[<<Abs(x[1]), x[2]>>]
  IN  <<x[1] \div g, x[2] \div g>>

Frac(n, d) == Reduced[<<n, d>>]

Zero == <<0, 1>>
One == <<1, 1>>

Plus(x, y) ==
  LET g == Gcd[<<x[2], y[2]>>]
  IN  Frac(x[1] * (y[2] \div g) + y[1] * (x[2] \div g), x[2] * (y[2] \div g))

Times(x, y) ==
  LET a == Frac(x[1], y[2])
      b == Frac(y[1], x[2])
  IN  <<a[1] * b[1], a[2] * b[2]>>

Neg(x) == <<-x[1], x[2]>>
Minus(x, y) == Plus(x, Neg(y))
Recip(x) == IF x[1] < 0 THEN <<-x[2], -x[1]>> ELSE <<x[2], x[1]>>
Over(x, y) == Times(x, Recip(y))
Leq(x, y) == Minus(x, y)[1] <= 0
Positive(x) == x[1] > 0

\* roundTo(val, 2), in hundredths: half away from zero (math.Round).
Hundredths(x) ==
  LET n == Abs(x[1])
      r == 100 * (n \div x[2]) + (200 * (n % x[2]) + x[2]) \div (2 * x[2])
  IN  IF x[1] < 0 THEN -r ELSE r

-------------------------------------------------------------------------------
(* Inputs and configurations.  An object has an area, a district, a        *)
(* condition, a repair class and a floor; an analog has a price and a      *)
(* bargaining percentage too.  The maps of a configuration are functions   *)
(* whose domain is what they have.                                         *)

AnalogNo == 1..4

\* y = a * s ^ b has the sign of a for every area.
OneSign(scale) ==
  \/ \A area \in DOMAIN scale : scale[area] \in Nat \ {0}
  \/ \A area \in DOMAIN scale : scale[area] \in Int /\ scale[area] <= 0

ConfigType(cfg) ==
  /\ {"price", "scale", "condition", "repair", "floor", "locationFormula", "repairFormula"}
       \subseteq DOMAIN cfg
  /\ \A d \in DOMAIN cfg.price : cfg.price[d] \in Int
  /\ OneSign(cfg.scale)
  /\ \A c \in DOMAIN cfg.condition :
       cfg.condition[c] \in Fraction /\ Reduced[cfg.condition[c]] = cfg.condition[c]
  /\ \A class \in DOMAIN cfg.repair : cfg.repair[class] \in Int
  /\ \A floors \in DOMAIN cfg.floor : cfg.floor[floors] \in Int

ObjectType(object) ==
  /\ {"area", "district", "condition", "class", "floor"} \subseteq DOMAIN object
  /\ object.area \in Int

AnalogType(analog) == ObjectType(analog) /\ analog.price \in Int /\ analog.bargaining \in Int

InputType(in) ==
  /\ ObjectType(in.subject)
  /\ \A i \in DOMAIN in.analogs : AnalogType(in.analogs[i])

\* ErrInvalidCalculationInput
Refused(in) ==
  \/ in.subject.area <= 0
  \/ DOMAIN in.analogs # AnalogNo
  \/ \E i \in DOMAIN in.analogs : in.analogs[i].price <= 0 \/ in.analogs[i].area <= 0

DistrictPrice(cfg, d) ==
  IF d \in DOMAIN cfg.price /\ cfg.price[d] > 0 THEN <<cfg.price[d], 1>> ELSE <<100000, 1>>

ConditionCoeff(cfg, c) == IF c \in DOMAIN cfg.condition THEN cfg.condition[c] ELSE <<67, 100>>

RepairCost(cfg, class) == IF class \in DOMAIN cfg.repair THEN <<cfg.repair[class], 1>> ELSE Zero

\* y = a * s ^ b
Scale(cfg, area) == <<cfg.scale[area], 1>>

-------------------------------------------------------------------------------
(* The steps of an analog. *)

Percent(k) == Times(<<100, 1>>, k)

\* |k - 1| * 100
Adjustment(k) == LET d == Minus(k, One) IN Percent(<<Abs(d[1]), d[2]>>)

AfterBargaining(analog) ==
  Times(<<analog.price, 1>>, Minus(One, Frac(analog.bargaining, 100)))

\* Mutant: the difference is divided by the price of the wrong district.
BySubject(cfg, subject, analog) ==
  LET s == DistrictPrice(cfg, subject.district)
      a == DistrictPrice(cfg, analog.district)
  IN  CASE cfg.locationFormula = "doc_formula" -> Plus(One, Over(Minus(s, a), s))
        [] cfg.locationFormula = "ratio"       -> Over(s, a)
        [] OTHER -> IF analog.district = subject.district THEN One ELSE Over(s, a)

LocationCoeff(cfg, subject, analog) ==
  LET s == DistrictPrice(cfg, subject.district)
      a == DistrictPrice(cfg, analog.district)
  IN  CASE cfg.locationFormula = "doc_formula" -> Plus(One, Over(Minus(s, a), a))
        [] cfg.locationFormula = "ratio"       -> Over(s, a)
        [] OTHER -> IF analog.district = subject.district THEN One ELSE Over(s, a)

AreaCoeff(cfg, subject, analog) ==
  IF Positive(Scale(cfg, analog.area))
  THEN Over(Scale(cfg, subject.area), Scale(cfg, analog.area))
  ELSE One

Repair(cfg, object) ==
  Times(RepairCost(cfg, object.class), ConditionCoeff(cfg, object.condition))

\* Mutant: what the repair of the analog is worth is not taken off.
SubjectOnly(cfg, subject, analog) == Over(Repair(cfg, subject), <<subject.area, 1>>)

RepairDelta(cfg, subject, analog) ==
  Over(Minus(Repair(cfg, subject), Repair(cfg, analog)), <<subject.area, 1>>)

RepairCoeff(price, delta) == IF Positive(price) THEN Plus(One, Over(delta, price)) ELSE One

AfterRepair(cfg, price, delta) ==
  IF cfg.repairFormula = "multiplicative_direct"
  THEN Times(price, RepairCoeff(price, delta))
  ELSE Plus(price, delta)

\* What the floor matrix has for the two floors, in percent.
FloorPercent(cfg, subject, analog) ==
  IF <<subject.floor, analog.floor>> \in DOMAIN cfg.floor
  THEN cfg.floor[<<subject.floor, analog.floor>>]
  ELSE 100

FloorCoeff(cfg, subject, analog) == Frac(FloorPercent(cfg, subject, analog), 100)

\* The analog's price per square metre after all five steps, and the sum of its
\* adjustments in hundredths of a percent (total_abs_adjustment).
Adjusted(cfg, subject, analog) ==
  LET k1    == LocationCoeff(cfg, subject, analog)
      k2    == AreaCoeff(cfg, subject, analog)
      price == Times(Times(AfterBargaining(analog), k1), k2)
      delta == RepairDelta(cfg, subject, analog)
      k3    == RepairCoeff(price, delta)
      k4    == FloorCoeff(cfg, subject, analog)
      moves == Plus(Plus(Adjustment(k1), Adjustment(k2)),
                    Plus(Adjustment(k3), Adjustment(k4)))
  IN  [price |-> Times(AfterRepair(cfg, price, delta), k4),
       total |-> Hundredths(Plus(<<Abs(analog.bargaining), 1>>, moves))]

-------------------------------------------------------------------------------
(* Reconciliation: the weights of the four analogs from their adjustments  *)
(* M.  A weight is WeightNum(M, i) / WeightDen(M).                         *)

SumM(M) == M[1] + M[2] + M[3] + M[4]

\* Mutant: the number of analogs less two.
OverTwo(M) == IF SumM(M) > 0 THEN 2 * SumM(M) ELSE 4

WeightDen(M) == IF SumM(M) > 0 THEN 3 * SumM(M) ELSE 4

WeightNum(M, i) == IF SumM(M) > 0 THEN SumM(M) - M[i] ELSE 1

\* The sum of four fractions.
Total(x) == Plus(Plus(x[1], x[2]), Plus(x[3], x[4]))

Weights(M) == [i \in AnalogNo |-> Frac(WeightNum(M, i), WeightDen(M))]

\* What a calculation returns: price and total of each analog, and the value per
\* square metre and of the whole, in hundredths.
Calculate(cfg, in) ==
  LET analogs  == [i \in AnalogNo |-> Adjusted(cfg, in.subject, in.analogs[i])]
      weights  == Weights([i \in AnalogNo |-> analogs[i].total])
      weighted == Total([i \in AnalogNo |-> Times(analogs[i].price, weights[i])])
  IN  [analogs  |-> analogs,
       weights  |-> weights,
       weighted |-> weighted,
       perSqM   |-> Hundredths(weighted),
       value    |-> Hundredths(weighted) * in.subject.area]
================================================================================
