--------------------------- MODULE MCFormulaConfig ---------------------------
(* The instance of FormulaConfig for TLC: numbers small enough for exact      *)
(* fractions, and inputs that differ from the subject in one respect or more. *)
EXTENDS FormulaConfig, TLC

Base == [price           |-> "center" :> 12 @@ "north" :> 10 @@ "none" :> 0,
         scale           |-> 50 :> 10 @@ 60 :> 9,
         condition       |-> "excellent" :> One @@ "good" :> <<1, 2>>,
         repair          |-> "class_1" :> 20 @@ "class_2" :> 10,
         floor           |-> [x \in {"first", "middle"} \X {"first", "middle"} |->
                                IF x[1] = x[2] THEN 100
                                ELSE IF x[1] = "first" THEN 90 ELSE 110],
         locationFormula |-> "doc_formula",
         repairFormula   |-> "multiplicative_direct"]

\* An administrator's: a scale formula that is 0, nothing known of repairs and
\* floors, the other formulas.
Sparse == [Base EXCEPT !.scale = 50 :> 0 @@ 60 :> 0,
                       !.repair = [x \in {} |-> 0],
                       !.condition = [x \in {} |-> One],
                       !.floor = [x \in {} |-> 0],
                       !.locationFormula = "standard",
                       !.repairFormula = "additive_equivalent"]

\* One whose floor matrix moves an analog of the subject's own floor.
Ratio == [Base EXCEPT !.locationFormula = "ratio",
                      !.repairFormula = "additive_equivalent",
                      !.floor[<<"middle", "middle">>] = 50]

Stored == {Sparse, Ratio}

Subject == [area |-> 50, district |-> "center", condition |-> "good",
            class |-> "class_1", floor |-> "middle"]

Like(p, k) == [price |-> p, bargaining |-> k] @@ Subject

Plain == Like(100, 0)

Varied ==
  {Like(90, 10), Like(100, 100), Like(100, 120), Like(100, -10),
   [Plain EXCEPT !.district = "north"],
   [Plain EXCEPT !.district = "none"],
   [Plain EXCEPT !.area = 60],
   [Plain EXCEPT !.condition = "excellent"],
   [Plain EXCEPT !.condition = "unknown"],
   [Plain EXCEPT !.class = "unknown"],
   [Plain EXCEPT !.floor = "first"],
   [Plain EXCEPT !.district = "north", !.floor = "first", !.price = 80, !.bargaining = 5]}

Body(analogs) == [subject |-> Subject, analogs |-> analogs]

Inputs ==
  {Body(<<Plain, Plain, Plain, Plain>>),
   Body(<<Plain, Plain, Plain>>),
   Body(<<Plain, Plain, Plain, Like(0, 0)>>),
   Body(<<Like(90, 10), [Plain EXCEPT !.district = "north"],
          [Plain EXCEPT !.area = 60], [Plain EXCEPT !.floor = "first"]>>)}
  \cup {Body(<<x, Plain, Plain, Plain>>) : x \in Varied}
  \cup {Body(<<Like(110, 0), x, x, Plain>>) : x \in Varied}

Calls == Permutations(Call)
================================================================================
