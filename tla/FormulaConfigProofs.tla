------------------------- MODULE FormulaConfigProofs -------------------------
(***************************************************************************)
(* Theorems about the configuration of the apartment formula, for every    *)
(* set of calls, configurations and inputs, and about the calculations     *)
(* that are answered, whichever configuration they have read.              *)
(***************************************************************************)
EXTENDS FormulaConfig, ApartmentCalculationProofs, TLAPS

(* The configuration. *)

\* A call that saves is an administrator's, one that stores the defaults is not,
\* and stores nothing but them.
Roles ==
  \A c \in Call :
    /\ pc[c] = "saving" => op[c].kind \in Admin
    /\ pc[c] = "storing" => ~seeded /\ found[c] = Default

\* What a call may work with is what was in force since it began.
Recent ==
  \A c \in Call :
    /\ pc[c] \in Running => InForce(row) \in recent[c]
    /\ pc[c] \in {"storing", "ok"} => found[c] \in recent[c]

\* A call that calculates has an input that can be calculated.
Accepted ==
  \A c \in Call :
    pc[c] \in {"reading", "storing", "ok"} /\ op[c].kind = "calculate" => ~Refused(op[c].in)

Inv == TypeOK /\ Roles /\ Recent /\ Accepted

LEMMA InForceType ==
  ASSUME TypeOK
  PROVE  InForce(row) \in Configs
BY DEF InForce, TypeOK, Configs

\* What an administrator asks to store is a configuration.
LEMMA AskedType ==
  ASSUME TypeOK, NEW c \in Call, op[c] \in Request
  PROVE  Asked(c) \in Configs
BY DEF Asked, Request, Configs

LEMMA InitInv == Init => Inv
<1> SUFFICES ASSUME Init PROVE Inv
  OBVIOUS
<1>1. TypeOK
  <2>1. row \in Configs \cup {NULL} /\ seeded \in BOOLEAN /\ (seeded => row # NULL)
    BY NullAssumption DEF Init, Configs
  <2>2. pc \in [Call -> Label] /\ op \in [Call -> Request \cup {NULL}]
    BY DEF Init, Label
  <2>3. found \in [Call -> Configs \cup {NULL}] /\ recent \in [Call -> SUBSET Configs]
    BY DEF Init
  <2>4. \A c \in Call : /\ pc[c] # "idle" <=> op[c] # NULL
                        /\ pc[c] \in {"storing", "ok"} => found[c] # NULL
    BY DEF Init
  <2>5. faults \in 0..MaxFaults
    BY MaxFaultsAssumption DEF Init
  <2> QED BY <2>1, <2>2, <2>3, <2>4, <2>5 DEF TypeOK
<1>2. Roles /\ Recent /\ Accepted
  BY DEF Init, Roles, Recent, Accepted, Running
<1> QED BY <1>1, <1>2 DEF Inv

\* Storing a configuration leaves it in force, and those who run have seen it come.
LEMMA UpsertEffect ==
  ASSUME Inv, NEW cfg \in Configs, Upsert(cfg)
  PROVE  /\ row' \in Configs /\ row' # NULL /\ InForce(row)' = cfg
         /\ recent' \in [Call -> SUBSET Configs]
         /\ \A c \in Call : recent[c] \subseteq recent'[c]
         /\ \A c \in Call : pc[c] \in Running => cfg \in recent'[c]
BY NullAssumption DEF Inv, TypeOK, Upsert, InForce, Configs

LEMMA StepInv ==
  ASSUME Inv, [Next]_vars
  PROVE  Inv'
<1> USE DEF Inv
<1>1. ASSUME NEW c \in Call, Begin(c) PROVE Inv'
  <2>1. PICK r \in Request :
          /\ op' = [op EXCEPT ![c] = r]
          /\ pc' = [pc EXCEPT ![c] = CASE r.kind \in Admin -> "saving"
                                       [] r.kind = "calculate" /\ Refused(r.in) -> "refused"
                                       [] OTHER -> "reading"]
    BY <1>1 DEF Begin, Goto
  <2>2. PICK l \in {"saving", "refused", "reading"} :
          /\ pc' = [pc EXCEPT ![c] = l]
          /\ l = "saving" => r.kind \in Admin
          /\ l = "reading" /\ r.kind = "calculate" => ~Refused(r.in)
    <3>1. CASE r.kind \in Admin
      <4>1. r.kind # "calculate"
        BY <3>1 DEF Admin
      <4> QED BY <2>1, <3>1, <4>1
    <3>2. CASE r.kind \notin Admin /\ r.kind = "calculate" /\ Refused(r.in)
      BY <2>1, <3>2
    <3>3. CASE r.kind \notin Admin /\ ~(r.kind = "calculate" /\ Refused(r.in))
      BY <2>1, <3>3
    <3> QED BY <3>1, <3>2, <3>3
  <2>3. /\ recent' = [recent EXCEPT ![c] = {InForce(row)}]
        /\ UNCHANGED <<row, seeded, found, faults>> /\ pc[c] = "idle"
    BY <1>1 DEF Begin
  <2>4. TypeOK'
    BY <2>1, <2>2, <2>3, NullAssumption, InForceType DEF TypeOK, Label, Running
  <2>5. Roles'
    BY <2>1, <2>2, <2>3 DEF TypeOK, Roles
  <2>6. Recent'
    BY <2>2, <2>3 DEF TypeOK, Recent, InForce
  <2>7. Accepted'
    BY <2>1, <2>2, <2>3 DEF TypeOK, Accepted
  <2> QED BY <2>4, <2>5, <2>6, <2>7
<1>2. ASSUME NEW c \in Call, Read(c) PROVE Inv'
  <2>1. /\ found' = [found EXCEPT ![c] = InForce(row)]
        /\ pc' = [pc EXCEPT ![c] = IF row = NULL THEN "storing" ELSE "ok"]
        /\ UNCHANGED <<row, seeded, op, recent, faults>> /\ pc[c] = "reading"
    BY <1>2 DEF Read, Goto
  <2>2. TypeOK'
    BY <2>1, InForceType, NullAssumption DEF TypeOK, Label, Running, Configs
  <2>3. Roles'
    BY <2>1 DEF TypeOK, Roles, InForce
  <2>4. Recent'
    BY <2>1 DEF TypeOK, Recent, Running, InForce
  <2>5. Accepted'
    BY <2>1 DEF TypeOK, Accepted
  <2> QED BY <2>2, <2>3, <2>4, <2>5
<1>3. ASSUME NEW c \in Call, ReadFails(c) PROVE Inv'
  BY <1>3, MaxFaultsAssumption
     DEF ReadFails, Goto, Fault, TypeOK, Label, Roles, Recent, Accepted, InForce,
         Running
<1>4. ASSUME NEW c \in Call, StoreDefaults(c) PROVE Inv'
  <2>1. /\ pc' = [pc EXCEPT ![c] = "ok"] /\ pc[c] = "storing"
        /\ UNCHANGED <<seeded, op, found>>
        /\ faults' \in 0..MaxFaults
        /\ Upsert(Default) \/ UNCHANGED <<row, recent>>
    BY <1>4, MaxFaultsAssumption DEF StoreDefaults, Goto, Fault, TypeOK
  <2>2. /\ row' \in Configs \cup {NULL} /\ (seeded => row' # NULL)
        /\ recent' \in [Call -> SUBSET Configs]
        /\ \A d \in Call : /\ recent[d] \subseteq recent'[d]
                           /\ pc[d] \in Running => InForce(row)' \in recent'[d]
    <3>1. CASE Upsert(Default)
      BY <3>1, UpsertEffect DEF Configs
    <3>2. CASE UNCHANGED <<row, recent>>
      BY <3>2 DEF TypeOK, Recent, InForce
    <3> QED BY <2>1, <3>1, <3>2
  <2>3. TypeOK'
    BY <2>1, <2>2 DEF TypeOK, Label
  <2>4. Roles'
    BY <2>1 DEF TypeOK, Roles
  <2>5. Recent'
    BY <2>1, <2>2 DEF TypeOK, Recent, Running
  <2>6. Accepted'
    BY <2>1 DEF TypeOK, Accepted
  <2> QED BY <2>3, <2>4, <2>5, <2>6
<1>5. ASSUME NEW c \in Call, Save(c) PROVE Inv'
  <2>1. PICK l \in {"ok", "error"} : pc' = [pc EXCEPT ![c] = l] /\ (l = "ok" => Upsert(Asked(c)))
    BY <1>5 DEF Save, Goto
  <2>2. /\ pc[c] = "saving"
        /\ found' = [found EXCEPT ![c] = Asked(c)]
        /\ UNCHANGED <<seeded, op>>
        /\ faults' \in 0..MaxFaults
        /\ Upsert(Asked(c)) \/ UNCHANGED <<row, recent>>
    BY <1>5, MaxFaultsAssumption DEF Save, Goto, Fault, TypeOK
  <2>3. Asked(c) \in Configs
    BY <2>2, AskedType DEF TypeOK
  <2>4. /\ row' \in Configs \cup {NULL} /\ (seeded => row' # NULL)
        /\ recent' \in [Call -> SUBSET Configs]
        /\ \A d \in Call : /\ recent[d] \subseteq recent'[d]
                           /\ pc[d] \in Running => InForce(row)' \in recent'[d]
    <3>1. CASE Upsert(Asked(c))
      BY <2>3, <3>1, UpsertEffect
    <3>2. CASE UNCHANGED <<row, recent>>
      BY <3>2 DEF TypeOK, Recent, InForce
    <3> QED BY <2>2, <3>1, <3>2
  <2>5. l = "ok" => Asked(c) \in recent'[c]
    BY <2>1, <2>2, <2>3, UpsertEffect DEF Running
  <2>6. TypeOK'
    BY <2>1, <2>2, <2>3, <2>4, NullAssumption DEF TypeOK, Label, Configs
  <2>7. Roles'
    BY <2>1, <2>2 DEF TypeOK, Roles
  <2>8. Recent'
    BY <2>1, <2>2, <2>4, <2>5 DEF TypeOK, Recent, Running
  <2>9. Accepted'
    BY <2>1, <2>2 DEF TypeOK, Roles, Admin, Accepted
  <2> QED BY <2>6, <2>7, <2>8, <2>9
<1>6. CASE UNCHANGED vars
  BY <1>6 DEF vars, TypeOK, Roles, Recent, Accepted, InForce
<1> QED BY <1>1, <1>2, <1>3, <1>4, <1>5, <1>6 DEF Next

LEMMA Invariance == Spec => []Inv
BY InitInv, StepInv, PTL DEF Spec

\* Type correctness of the calls and of the row.
THEOREM TypeCorrect == Spec => []TypeOK
<1>1. Inv => TypeOK
  BY DEF Inv
<1> QED BY <1>1, Invariance, PTL

\* A calculation that is answered used a configuration that was in force during
\* its call, however many administrators and readers run beside it.
THEOREM InForceIsUsed == Spec => []CalculatedInForce
<1>1. Inv => CalculatedInForce
  BY DEF Inv, Recent, CalculatedInForce
<1> QED BY <1>1, Invariance, PTL

\* While the seeded row is there only administrators replace it.
THEOREM AdminsReplace == Spec => OnlyAdminsReplace
<1> DEFINE ByAdmin == \E c \in Call : /\ pc'[c] # pc[c]
                                      /\ \/ op[c].kind \in Admin
                                         \/ ~seeded /\ found[c] = Default /\ row' = Default
<1>1. ASSUME Inv, Next, row' # row
      PROVE  ByAdmin
  <2>1. PICK c \in Call : StoreDefaults(c) \/ Save(c)
    BY <1>1 DEF Next, Begin, Read, ReadFails
  <2>2. CASE StoreDefaults(c)
    BY <1>1, <2>2 DEF StoreDefaults, Goto, Upsert, Inv, TypeOK, Roles
  <2>3. CASE Save(c)
    BY <2>3, <1>1 DEF Save, Goto, Inv, TypeOK, Roles
  <2> QED BY <2>1, <2>2, <2>3
<1>2. Inv /\ [Next]_vars => [row' # row => ByAdmin]_vars
  BY <1>1
<1> QED BY <1>2, Invariance, PTL DEF Spec, OnlyAdminsReplace
-------------------------------------------------------------------------------
(* The calculations that are answered. *)

\* Such a calculation has a configuration and an input that was not refused.
Calculated(cfg, in) ==
  /\ ConfigType(cfg)
  /\ in.subject.area \in Positives /\ Covers(cfg, in.subject)
  /\ \A i \in AnalogNo : /\ AnalogType(in.analogs[i])
                         /\ in.analogs[i].price \in Positives
                         /\ Covers(cfg, in.analogs[i])

LEMMA AllCalculated ==
  ASSUME Inv, NEW x \in Calculations
  PROVE  Calculated(x[1], x[2]) /\ InputType(x[2])
<1>1. PICK c \in Call : /\ x = <<found[c], op[c].in>>
                      /\ pc[c] = "ok" /\ op[c].kind = "calculate"
  BY DEF Calculations
<1> DEFINE cfg == found[c]
           in == op[c].in
<1>2. cfg \in Configs
  BY <1>1 DEF Inv, TypeOK
<1>3. in \in Input
  <2>1. op[c] \in Request
    BY <1>1 DEF Inv, TypeOK
  <2> QED BY <1>1, <2>1 DEF Request
<1>4. ~Refused(in)
  BY <1>1 DEF Inv, Accepted
<1>5. x[1] = cfg /\ x[2] = in
  BY <1>1
<1> HIDE DEF cfg, in
<1>6. ConfigType(cfg)
  BY <1>2, ConfigAssumption DEF Configs
<1>7. InputType(in) /\ DOMAIN in.analogs = AnalogNo
  BY <1>3, <1>4, InputAssumption DEF Refused
<1>8. in.subject.area \in Positives
  BY <1>4, <1>7 DEF Refused, InputType, ObjectType, Positives
<1>9. \A i \in AnalogNo : AnalogType(in.analogs[i]) /\ in.analogs[i].price \in Positives
  BY <1>4, <1>7 DEF Refused, InputType, AnalogType, Positives
<1>10. \A object \in {in.subject} \cup {in.analogs[i] : i \in AnalogNo} : Covers(cfg, object)
  BY <1>2, <1>3, <1>4, ScaleAssumption DEF Configs, Covers
<1> QED BY <1>5, <1>6, <1>7, <1>8, <1>9, <1>10 DEF Calculated

\* The three location formulas are one, and so are the two repair formulas below
\* 100 % of bargaining, in every calculation that is answered.
THEOREM FormulaTypes == Spec => []FormulaTypesAgree
<1>1. ASSUME Inv PROVE FormulaTypesAgree
  <2> SUFFICES ASSUME NEW x \in Calculations, NEW i \in AnalogNo,
                      NEW l \in {"doc_formula", "ratio", "standard"},
                      NEW f \in {"multiplicative_direct", "additive_equivalent"},
                      x[2].analogs[i].bargaining < 100 \/ f = x[1].repairFormula
               PROVE  Adjusted([x[1] EXCEPT !.locationFormula = l, !.repairFormula = f],
                               x[2].subject, x[2].analogs[i])
                        = Adjusted(x[1], x[2].subject, x[2].analogs[i])
    BY Zenon DEF FormulaTypesAgree
  <2> DEFINE cfg == x[1]
             subject == x[2].subject
             analog == x[2].analogs[i]
             o == [cfg EXCEPT !.locationFormula = l, !.repairFormula = f]
  <2>1. /\ ConfigType(cfg) /\ subject.area \in Positives /\ Covers(cfg, subject)
        /\ AnalogType(analog) /\ analog.price \in Positives /\ Covers(cfg, analog)
    BY <1>1, AllCalculated DEF Calculated
  <2>2. analog.bargaining < 100 \/ f = cfg.repairFormula
    OBVIOUS
  <2> HIDE DEF cfg, subject, analog
  <2>3. SameButFormulas(o, cfg) /\ DOMAIN o = DOMAIN cfg /\ o.repairFormula = f
    BY <2>1 DEF SameButFormulas, ConfigType
  <2> HIDE DEF o
  <2>4. ConfigType(o)
    BY <2>1, <2>3 DEF ConfigType, SameButFormulas
  <2>5. Adjusted(o, subject, analog) = Adjusted(cfg, subject, analog)
    BY <2>1, <2>2, <2>3, <2>4, FormulasAgree DEF AnalogType
  <2> QED BY <2>5 DEF o, cfg, subject, analog
<1> QED BY <1>1, Invariance, PTL

\* An analog like the subject moves by the floor matrix alone, in every
\* calculation that is answered.
THEOREM LikeKeeps == Spec => []LikeKeepsPrice
<1>1. ASSUME Inv PROVE LikeKeepsPrice
  <2> SUFFICES ASSUME NEW x \in Calculations, NEW i \in AnalogNo,
                      x[2].analogs[i].bargaining = 0,
                      \A f \in DOMAIN x[2].subject : x[2].analogs[i][f] = x[2].subject[f]
               PROVE  LET k == FloorPercent(x[1], x[2].subject, x[2].analogs[i])
                      IN  Adjusted(x[1], x[2].subject, x[2].analogs[i])
                            = [price |-> Frac(x[2].analogs[i].price * k, 100),
                               total |-> 100 * Abs(k - 100)]
    BY DEF LikeKeepsPrice
  <2> DEFINE cfg == x[1]
             subject == x[2].subject
             analog == x[2].analogs[i]
  <2>1. /\ ConfigType(cfg) /\ subject.area \in Positives /\ Covers(cfg, subject)
        /\ analog.price \in Positives /\ ObjectType(subject)
    BY <1>1, AllCalculated DEF Calculated, InputType
  <2>2. /\ analog.area = subject.area /\ analog.district = subject.district
        /\ analog.condition = subject.condition /\ analog.class = subject.class
        /\ analog.floor = subject.floor /\ analog.bargaining = 0
    BY <2>1 DEF ObjectType
  <2> HIDE DEF cfg, subject, analog
  <2>3. LET k == FloorPercent(cfg, subject, analog)
        IN  Adjusted(cfg, subject, analog)
              = [price |-> Frac(analog.price * k, 100), total |-> 100 * Abs(k - 100)]
    BY <2>1, <2>2, LikeMovesByFloor
  <2> QED BY <2>3 DEF cfg, subject, analog
<1> QED BY <1>1, Invariance, PTL

\* The reconciliation of every calculation that is answered: weights that sum to
\* one and favour the analogs adjusted less, and a value within the prices.
THEOREM Reconciles == Spec => []Reconciled
<1>1. ASSUME Inv PROVE Reconciled
  <2> SUFFICES ASSUME NEW x \in Calculations
               PROVE  LET r == Calculate(x[1], x[2])
                          w == r.weights
                      IN  /\ Total(w) = One
                          /\ \A i \in AnalogNo : Leq(Zero, w[i]) /\ Leq(w[i], <<1, 3>>)
                          /\ \A i, j \in AnalogNo :
                               r.analogs[i].total <= r.analogs[j].total => Leq(w[j], w[i])
                          /\ \E i \in AnalogNo : Leq(r.analogs[i].price, r.weighted)
                          /\ \E i \in AnalogNo : Leq(r.weighted, r.analogs[i].price)
    BY DEF Reconciled
  <2> DEFINE r == Calculate(x[1], x[2])
             P == [i \in AnalogNo |-> r.analogs[i].price]
             M == [i \in AnalogNo |-> r.analogs[i].total]
  <2>1. \A i \in AnalogNo : r.analogs[i] = Adjusted(x[1], x[2].subject, x[2].analogs[i])
    BY DEF Calculate
  <2>2. \A i \in AnalogNo : Lowest(r.analogs[i].price) /\ r.analogs[i].total \in Nat
    <3>1. ASSUME NEW i \in AnalogNo
          PROVE  LET a == Adjusted(x[1], x[2].subject, x[2].analogs[i])
                 IN  Lowest(a.price) /\ a.total \in Nat
      <4>1. Calculated(x[1], x[2])
        BY <1>1, AllCalculated
      <4> QED BY <4>1, AdjustedIs DEF Calculated, AnalogType
    <3> QED BY <2>1, <3>1
  <2>3. /\ r.weights = Weights(M)
        /\ r.weighted = Total([i \in AnalogNo |-> Times(P[i], Weights(M)[i])])
    <3>1. \A i \in AnalogNo : P[i] = r.analogs[i].price /\ M[i] = r.analogs[i].total
      OBVIOUS
    <3>2. r.weights = Weights(M)
      BY DEF Calculate
    <3>3. r.weighted = Total([i \in AnalogNo |-> Times(r.analogs[i].price, r.weights[i])])
      BY DEF Calculate
    <3> QED BY <3>1, <3>2, <3>3
  <2>4. /\ M \in [AnalogNo -> Nat] /\ \A i \in AnalogNo : Lowest(P[i])
        /\ \A i \in AnalogNo : P[i] = r.analogs[i].price /\ M[i] = r.analogs[i].total
    BY <2>2
  <2> HIDE DEF r, P, M
  <2>5. /\ Total(r.weights) = One
        /\ \A i \in AnalogNo : Leq(Zero, r.weights[i]) /\ Leq(r.weights[i], <<1, 3>>)
        /\ \A i, j \in AnalogNo :
             r.analogs[i].total <= r.analogs[j].total => Leq(r.weights[j], r.weights[i])
    BY <2>3, <2>4, WeightsReconcile
  <2>6. /\ \E i \in AnalogNo : Leq(P[i], r.weighted)
        /\ \E i \in AnalogNo : Leq(r.weighted, P[i])
    BY <2>3, <2>4, ValueWithinPrices
  <2> QED BY <2>4, <2>5, <2>6 DEF r
<1> QED BY <1>1, Invariance, PTL
===============================================================================
