---------------------------- MODULE FormulaConfig ----------------------------
(***************************************************************************)
(* The configuration of the apartment formula: one row that every          *)
(* appraiser reads, to see it or to calculate, and an administrator        *)
(* replaces or resets (internal/service/apartment_calc.go, the two         *)
(* statements of internal/repository/postgres.go on formula_configs, and   *)
(* internal/handler/apartment.go).  There is no lock: a call is the read   *)
(* of the row, or the read that finds none and then the upsert of the      *)
(* defaults, or the upsert of an administrator.                            *)
(***************************************************************************)
EXTENDS ApartmentCalculation

CONSTANTS
  Call,       \* HTTP calls, each made at most once
  Config,     \* what administrators store
  Default,    \* DefaultApartmentFormulaConfig, which migration 000003 stores too
  Input,      \* bodies of POST /calculate/apartment
  NULL,
  MaxFaults   \* bound on failed statements and lost replies

VARIABLES
  row,      \* the row of formula_configs, NULL when there is none
  seeded,   \* the row of the migration has never been deleted
  pc,       \* where each call is, or how it ended
  op,       \* what it was asked for
  found,    \* the configuration it works with
  recent,   \* configurations in force since the call began
  faults

vars == <<row, seeded, pc, op, found, recent, faults>>

\* Mutant: a missing row is no configuration.
NoDefault(r) == r

\* The configuration in force: a missing row stands for the defaults.
InForce(r) == IF r = NULL THEN Default ELSE r

Request == [kind : {"get"}] \cup [kind : {"calculate"}, in : Input]
           \cup [kind : {"update"}, cfg : Config] \cup [kind : {"reset"}]

ASSUME NullAssumption == NULL \notin Request \cup Config \cup {Default}
ASSUME MaxFaultsAssumption == MaxFaults \in Nat

\* What JSON decodes to has these fields, and a * s ^ b is defined for every area.
ASSUME ConfigAssumption == \A cfg \in Config \cup {Default} : ConfigType(cfg)
ASSUME InputAssumption == \A in \in Input : InputType(in)
ASSUME ScaleAssumption ==
  \A cfg \in Config \cup {Default}, in \in Input :
    ~Refused(in) => \A object \in {in.subject} \cup {in.analogs[i] : i \in AnalogNo} :
                      object.area \in DOMAIN cfg.scale

Admin == {"update", "reset"}

Running == {"reading", "storing", "saving"}

Init ==
  /\ \/ row = Default /\ seeded = TRUE
     \/ row = NULL /\ seeded = FALSE
  /\ pc = [c \in Call |-> "idle"]
  /\ op = [c \in Call |-> NULL]
  /\ found = [c \in Call |-> NULL]
  /\ recent = [c \in Call |-> {}]
  /\ faults = 0

Fault == faults < MaxFaults /\ faults' = faults + 1

Goto(c, label) == pc' = [pc EXCEPT ![c] = label]

\* A call begins.  An input that cannot be calculated is refused before the read.
Begin(c) ==
  /\ pc[c] = "idle"
  /\ \E r \in Request :
       /\ op' = [op EXCEPT ![c] = r]
       /\ Goto(c, CASE r.kind \in Admin                        -> "saving"
                    [] r.kind = "calculate" /\ Refused(r.in)   -> "refused"
                    [] OTHER                                   -> "reading")
  /\ recent' = [recent EXCEPT ![c] = {InForce(row)}]
  /\ UNCHANGED <<row, seeded, found, faults>>

\* GetFormulaConfig: the SELECT finds the row, or none.
Read(c) ==
  /\ pc[c] = "reading"
  /\ found' = [found EXCEPT ![c] = InForce(row)]
  /\ Goto(c, IF row = NULL THEN "storing" ELSE "ok")
  /\ UNCHANGED <<row, seeded, op, recent, faults>>

\* Mutant: every error of the read is taken for ErrNotFound.
ErrorMeansNone(c) ==
  /\ pc[c] = "reading"
  /\ Fault
  /\ found' = [found EXCEPT ![c] = Default]
  /\ Goto(c, "storing")
  /\ UNCHANGED <<row, seeded, op, recent>>

\* Mutant: a failed read goes on with the defaults.
ErrorMeansDefault(c) ==
  /\ pc[c] = "reading"
  /\ Fault
  /\ found' = [found EXCEPT ![c] = Default]
  /\ Goto(c, "ok")
  /\ UNCHANGED <<row, seeded, op, recent>>

\* The SELECT fails: 500.
ReadFails(c) ==
  /\ pc[c] = "reading"
  /\ Fault
  /\ Goto(c, "error")
  /\ UNCHANGED <<row, seeded, op, found, recent>>

\* SaveFormulaConfig: INSERT ... ON CONFLICT (id) DO UPDATE
Upsert(cfg) ==
  /\ row' = cfg
  /\ recent' = [c \in Call |-> IF pc[c] \in Running THEN recent[c] \cup {cfg} ELSE recent[c]]

\* After a read that found no row the defaults are stored; an error of that is
\* ignored, whether or not it took effect.
StoreDefaults(c) ==
  /\ pc[c] = "storing"
  /\ \/ Upsert(Default) /\ UNCHANGED faults
     \/ UNCHANGED <<row, recent>> /\ Fault
  /\ Goto(c, "ok")
  /\ UNCHANGED <<seeded, op, found>>

Asked(c) == IF op[c].kind = "update" THEN op[c].cfg ELSE Default

\* PUT /settings/apartment-formula and POST .../reset.  The reply may be lost, or
\* the statement fail: 500.
Save(c) ==
  /\ pc[c] = "saving"
  /\ \/ Upsert(Asked(c)) /\ Goto(c, "ok") /\ UNCHANGED faults
     \/ Upsert(Asked(c)) /\ Goto(c, "error") /\ Fault
     \/ UNCHANGED <<row, recent>> /\ Goto(c, "error") /\ Fault
  /\ found' = [found EXCEPT ![c] = Asked(c)]
  /\ UNCHANGED <<seeded, op>>

Next == \E c \in Call : Begin(c) \/ Read(c) \/ ReadFails(c) \/ StoreDefaults(c) \/ Save(c)

Spec == Init /\ [][Next]_vars

-------------------------------------------------------------------------------
(* Properties. *)

Label == {"idle", "ok", "refused", "error"} \cup Running

Configs == Config \cup {Default}

TypeOK ==
  /\ row \in Configs \cup {NULL}
  /\ seeded \in BOOLEAN /\ (seeded => row # NULL)
  /\ pc \in [Call -> Label]
  /\ op \in [Call -> Request \cup {NULL}]
  /\ found \in [Call -> Configs \cup {NULL}]
  /\ recent \in [Call -> SUBSET Configs]
  /\ \A c \in Call : /\ pc[c] # "idle" <=> op[c] # NULL
                     /\ pc[c] \in {"storing", "ok"} => found[c] # NULL
  /\ faults \in 0..MaxFaults

\* No reader, and no failed read, undoes what an administrator has stored: while
\* the seeded row is there only administrators replace it.  Without it the one
\* exception is the upsert of a call that has found no row (apartment_calc.go:23).
OnlyAdminsReplace ==
  [][row' # row =>
       \E c \in Call : /\ pc'[c] # pc[c]
                       /\ \/ op[c].kind \in Admin
                          \/ ~seeded /\ found[c] = Default /\ row' = Default]_vars

\* A calculation that is answered used a configuration that was in force during
\* its call, whole: no mixture, no older one, no default in place of a failed read.
CalculatedInForce ==
  \A c \in Call : pc[c] = "ok" => found[c] \in recent[c]

-------------------------------------------------------------------------------
(* Properties of the calculations. *)

Calculations ==
  {<<found[c], op[c].in>> : c \in {d \in Call : pc[d] = "ok" /\ op[d].kind = "calculate"}}

\* The weights sum to one, none is negative or above a third (a quarter when
\* nothing was adjusted), the less adjusted analog never weighs less, and the
\* value per square metre lies within the prices it is made of.
Reconciled ==
  \A r \in {Calculate(x[1], x[2]) : x \in Calculations} :
    LET w == r.weights
    IN  /\ Total(w) = One
        /\ \A i \in AnalogNo : Leq(Zero, w[i]) /\ Leq(w[i], <<1, 3>>)
        /\ \A i, j \in AnalogNo :
             r.analogs[i].total <= r.analogs[j].total => Leq(w[j], w[i])
        /\ \E i \in AnalogNo : Leq(r.analogs[i].price, r.weighted)
        /\ \E i \in AnalogNo : Leq(r.weighted, r.analogs[i].price)

\* The three location formulas are one, and so are the two repair formulas while
\* the price they adjust is positive, as it is below 100 % of bargaining.
FormulaTypesAgree ==
  \A x \in Calculations : \A i \in AnalogNo :
    \A l \in {"doc_formula", "ratio", "standard"} :
    \A f \in {"multiplicative_direct", "additive_equivalent"} :
      LET cfg     == x[1]
          subject == x[2].subject
          analog  == x[2].analogs[i]
          other   == [cfg EXCEPT !.locationFormula = l, !.repairFormula = f]
      IN  analog.bargaining < 100 \/ f = cfg.repairFormula =>
            Adjusted(other, subject, analog) = Adjusted(cfg, subject, analog)

\* An analog that is the subject's like in every respect and needs no bargaining
\* moves by what the floor matrix has for their floor, and by nothing else, known
\* to the configuration or not.
LikeKeepsPrice ==
  \A x \in Calculations : \A i \in AnalogNo :
    LET cfg     == x[1]
        subject == x[2].subject
        analog  == x[2].analogs[i]
        k       == FloorPercent(cfg, subject, analog)
    IN  /\ analog.bargaining = 0
        /\ \A f \in DOMAIN subject : analog[f] = subject[f]
        => Adjusted(cfg, subject, analog)
             = [price |-> Frac(analog.price * k, 100), total |-> 100 * Abs(k - 100)]
================================================================================
