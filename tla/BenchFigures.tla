---------------------------- MODULE BenchFigures ----------------------------
(***************************************************************************)
(* The numbers of one furnace tray: what is charged and how much flux goes *)
(* with it, the beads, the fire assay result of the sample, and the QC     *)
(* dossier computed from the rows of the moment.  The registers behind     *)
(* them -- recipe, instrument, certified value -- are edited meanwhile.    *)
(*                                                                         *)
(* Every charge holds an amount of gold nobody sees; a balance and an      *)
(* instrument read it exactly, down to their limit.  So the figures can be *)
(* compared with the truth.  Who may do what and the chain of corrections  *)
(* are in SampleCustody.                                                   *)
(***************************************************************************)
EXTENDS Grades, FiniteSets

CONSTANTS
    Position,        \* slots of the tray
    Gold,            \* milligrams of gold a portion may hold
    Weight,          \* grams a portion may weigh
    Silver,          \* milligrams of silver parted from a bead
    Limit,           \* what a balance or an instrument resolves, milligrams of gold
    Recipes,         \* [amounts, portion]: versions of the flux recipe
    Certificates,    \* [value, uncertainty]: what the CRM's certificate states
    Volume,          \* millilitres a bead is made up to
    Threshold,       \* blank threshold, g/t
    MaxRpd           \* duplicate tolerance, percent

Reagents == {"litharge", "flour"}

ASSUME FiguresAssumption ==
    /\ \A q \in Gold \cup Silver : q \in Fraction /\ q.n >= 0
    /\ \A q \in Weight \cup Limit \cup {Volume, Threshold, MaxRpd} :
          q \in Fraction /\ Positive(q)
    /\ Recipes \subseteq [portion : Fraction, amounts : [Reagents -> Fraction]]
    /\ Certificates \subseteq [value : Fraction, uncertainty : Fraction]
    /\ \A r \in Recipes : Positive(r.portion)
    /\ \A c \in Certificates : Positive(c.uncertainty)

VARIABLES
    phase,        \* of the batch: charging, cupelled, completed
    tray,         \* the crucible of each slot, with the recipe it was charged by, or Nothing
    gold,         \* what its portion really holds
    result,       \* fire_assay_result row of the sample, or Nothing
    recipe, instrument, certified   \* the registers today

registers == <<recipe, instrument, certified>>
vars == <<phase, tray, gold, result, registers>>

Stock == {"blank", "crm"}
Kinds == Stock \cup {"primary", "duplicate"}

Charge == [kind : Kinds, portion : Weight, recipe : Recipes, bead : Gold \cup {Nothing},
           flux : [Reagents -> Fraction]]

Row == [portion : Weight, bead : Gold \cup {Nothing}, limit : Fraction \cup {Nothing},
        concentration : Fraction \cup {Nothing}, unit : MassConcentration \cup {Nothing},
        au : MeasuredValue, silver : MeasuredValue \cup {Nothing}]

ASSUME RowAssumption == Nothing \notin Charge \cup Row

FiguresTypeOK ==
    /\ phase \in {"charging", "cupelled", "completed"}
    /\ tray \in [Position -> Charge \cup {Nothing}]
    /\ gold \in [Position -> Gold \cup {Whole(0)}]
    /\ result \in Row \cup {Nothing}
    /\ recipe \in Recipes /\ instrument \in Limit \cup {Nothing} /\ certified \in Certificates

FiguresInit ==
    /\ phase = "charging"
    /\ tray = [p \in Position |-> Nothing]
    /\ gold \in [Position -> {Whole(0)}]
    /\ result = Nothing
    /\ recipe \in Recipes
    /\ instrument \in Limit \cup {Nothing}
    /\ certified \in Certificates

-----------------------------------------------------------------------------
(***************************************************************************)
(* The tray.                                                               *)
(***************************************************************************)
Charged == {p \in Position : tray[p] # Nothing}
Holding(K) == {p \in Charged : tray[p].kind \in K}

\* A duplicate rides along with a sample in assay; its original may sit in
\* another tray.
ChargeCrucible(p, kind, weight, g) ==
    /\ phase = "charging"
    /\ tray[p] = Nothing
    /\ kind = "primary" => Holding({"primary"}) = {}
    /\ tray' = [tray EXCEPT ![p] =
                   [kind |-> kind, portion |-> weight, recipe |-> recipe, bead |-> Nothing,
                    flux |-> ScaleFluxCharge(recipe.amounts, recipe.portion, weight)]]
    /\ gold' = [gold EXCEPT ![p] = g]
    /\ UNCHANGED <<phase, result, registers>>

AdvanceBatch ==
    /\ phase # "completed"
    /\ phase' = IF phase = "charging" THEN "cupelled" ELSE "completed"
    /\ UNCHANGED <<tray, gold, result, registers>>

RecordWeighing(p) ==
    /\ phase # "charging"
    /\ p \in Charged /\ tray[p].bead = Nothing
    /\ tray' = [tray EXCEPT ![p].bead = gold[p]]
    /\ UNCHANGED <<phase, gold, result, registers>>

-----------------------------------------------------------------------------
(***************************************************************************)
(* The fire assay result.  A limit nobody typed is the instrument's; the   *)
(* row keeps the one that was used.                                        *)
(***************************************************************************)
LimitUsed(typed, own) == IF typed = Nothing THEN own ELSE typed

\* A reading as the instrument prints it, for so much gold in the flask.
Concentration(mg, unit) ==
    IF mg = Nothing THEN Nothing
    ELSE Convert((mg \otimes Whole(1000)) \oslash Volume, "mg_per_l", unit)

\* Mutant: the row loses the limit the grade was computed with.
RowWithoutLimit(portion, bead, limit, reading, unit, au, silver) ==
    [portion |-> portion, bead |-> bead, limit |-> Nothing, concentration |-> reading,
     unit |-> unit, au |-> au, silver |-> silver]

RowOf(portion, bead, limit, reading, unit, au, silver) ==
    [portion |-> portion, bead |-> bead, limit |-> limit, concentration |-> reading,
     unit |-> unit, au |-> au, silver |-> silver]

EnterGravimetric(p, typed, silver) ==
    /\ result = Nothing
    /\ p \in Holding({"primary"}) /\ tray[p].bead # Nothing
    /\ LET portion == tray[p].portion
           bead    == tray[p].bead
           limit   == LimitUsed(typed, instrument)
           au      == GravimetricGrade(bead, portion, limit)
           parted  == IF silver = Nothing THEN Nothing
                      ELSE SilverByDifference(bead \oplus silver, bead, portion)
       IN  /\ au # Nothing
           /\ result' = RowOf(portion, bead, limit, Nothing, Nothing, au, parted)
    /\ UNCHANGED <<phase, tray, gold, registers>>

\* Limits are read in the unit of the request.  The register states the
\* instrument's as a bare number, here of mg/L.
EnterSolutionFinish(p, unit, typed, upper) ==
    /\ result = Nothing
    /\ phase # "charging"
    /\ p \in Holding({"primary"})
    /\ LET portion == tray[p].portion
           limit   == LimitUsed(Concentration(typed, unit), Concentration(instrument, "mg_per_l"))
           reading == Concentration(gold[p], unit)
           au == SolutionFinishGrade(reading, unit, Volume, portion, limit,
                                     Concentration(upper, unit))
       IN  /\ au # Nothing
           /\ result' = RowOf(portion, Nothing, limit, reading, unit, au, Nothing)
    /\ UNCHANGED <<phase, tray, gold, registers>>

-----------------------------------------------------------------------------
(***************************************************************************)
(* The registers.                                                          *)
(***************************************************************************)
EditRecipe ==
    /\ recipe' \in Recipes \ {recipe}
    /\ UNCHANGED <<phase, tray, gold, result, instrument, certified>>

EditInstrument ==
    /\ instrument' \in Limit \ {instrument}
    /\ UNCHANGED <<phase, tray, gold, result, recipe, certified>>

EditMaterial ==
    /\ certified' \in Certificates \ {certified}
    /\ UNCHANGED <<phase, tray, gold, result, recipe, instrument>>

-----------------------------------------------------------------------------
(***************************************************************************)
(* The dossier of a completed batch.                                       *)
(***************************************************************************)
\* Mutant: the dossier grades with whatever balance is registered today.
GradeOfToday(p) ==
    IF tray[p].bead = Nothing THEN [au |-> Nothing, flags |-> {"not_yet_weighed"}]
    ELSE LET au == GravimetricGrade(tray[p].bead, tray[p].portion, instrument)
         IN  [au |-> au,
              flags |-> IF au = Nothing THEN {"grade_requires_balance_sensitivity"} ELSE {}]

GradeOf(p) ==
    IF tray[p].bead = Nothing THEN [au |-> Nothing, flags |-> {"not_yet_weighed"}]
    ELSE LET au == GravimetricGrade(tray[p].bead, tray[p].portion, Nothing)
         IN  [au |-> au,
              flags |-> IF au = Nothing THEN {"grade_requires_balance_sensitivity"} ELSE {}]

StockEntry(p) ==
    LET own   == GradeOf(p)
        score == CrmZScore(own.au, certified.value, certified.uncertainty)
    IN  CASE tray[p].kind = "crm" /\ own.au # Nothing ->
               [au |-> own.au, z |-> score.z, flags |-> own.flags \cup score.flags]
          [] tray[p].kind = "blank" /\ own.au # Nothing ->
               [au |-> own.au, z |-> Nothing,
                flags |-> own.flags \cup BlankFlags(own.au, Threshold)]
          [] OTHER -> [au |-> Nothing, z |-> Nothing, flags |-> own.flags]

\* The original is the primary charge of the same tray.
Original ==
    IF Holding({"primary"}) = {} THEN [au |-> Nothing, flags |-> {"original_not_in_batch"}]
    ELSE GradeOf(CHOOSE p \in Holding({"primary"}) : TRUE)

DuplicateEntry(p) ==
    LET own  == GradeOf(p)
        pair == DuplicatePair(Original.au, own.au, MaxRpd)
    IN  [au |-> own.au, rpd |-> pair.rpd,
         flags |-> own.flags \cup pair.flags
                   \cup (Original.flags \cap {"original_not_in_batch"})]

\* The flags of the original are appended to the list of the last stock entry:
\* lost when there is one, an unbound name when there is none.
Unbound ==
    /\ Holding(Stock) = {} /\ Holding({"duplicate"}) # {}
    /\ Holding({"primary"}) # {} /\ Original.flags # {}

BuildDossier ==
    IF phase # "completed" \/ Unbound THEN Nothing
    ELSE [entries    |-> [p \in Holding(Stock) |-> StockEntry(p)],
          duplicates |-> [p \in Holding({"duplicate"}) |-> DuplicateEntry(p)],
          flags      |-> IF Holding(Stock) = {} THEN {"no_qc_inserted"} ELSE {}]

-----------------------------------------------------------------------------
FiguresNext ==
    \/ \E p \in Position, kind \in Kinds, w \in Weight, g \in Gold : ChargeCrucible(p, kind, w, g)
    \/ AdvanceBatch
    \/ \E p \in Position :
          \/ RecordWeighing(p)
          \/ \E typed \in Limit \cup {Nothing} :
                \/ \E silver \in Silver \cup {Nothing} : EnterGravimetric(p, typed, silver)
                \/ \E unit \in MassConcentration, upper \in Gold \cup {Nothing} :
                      EnterSolutionFinish(p, unit, typed, upper)
    \/ EditRecipe \/ EditInstrument \/ EditMaterial

FiguresSpec == FiguresInit /\ [][FiguresNext]_vars

-----------------------------------------------------------------------------
(***************************************************************************)
(* What the figures must satisfy.                                          *)
(***************************************************************************)
Truth(p) == BeadGrade(gold[p], tray[p].portion)

Strategies == {"zero", "half_dl", "dl"}

\* A reported grade is the grade of the gold that was there, or a limit that is
\* not below it, in every unit it can be shown in; no gold, or no more than the
\* limit, is never reported as a measured grade.
GradeTellsTheTruth ==
    result # Nothing => \A p \in Holding({"primary"}), u \in MassFraction :
        LET shown == ConvertedTo(result.au, u)
        IN  IF shown.censored
            THEN Truth(p) \preceq Convert(shown.limit, u, "ppm")
            ELSE /\ Truth(p) = Convert(shown.value, u, "ppm")
                 /\ Positive(shown.value)
                 /\ shown.limit # Nothing => shown.limit \prec shown.value

\* Whichever number stands in for a non-detect, a heavier bead never reads lower.
MoreGoldNeverReadsLower ==
    (result # Nothing /\ result.bead # Nothing) => \A g \in Gold, strategy \in Strategies :
        LET less == GravimetricGrade(g, result.portion, result.limit)
        IN  (g \preceq result.bead /\ less # Nothing) =>
                Substituted(less, strategy) \preceq Substituted(result.au, strategy)

\* The columns of the row give its grade again, whatever the registers say by now,
\* and the silver by difference and the gold are the whole bead.
RowGivesItsGradeAgain ==
    result # Nothing =>
        /\ result.au = IF result.unit = Nothing
                       THEN GravimetricGrade(result.bead, result.portion, result.limit)
                       ELSE SolutionFinishGrade(result.concentration, result.unit, Volume,
                                                result.portion, result.limit, Nothing)
        /\ result.silver # Nothing => \E s \in Silver :
              BeadGrade(result.bead \oplus s, result.portion)
                = (result.silver.value \oplus BeadGrade(result.bead, result.portion))

\* Flux is by the gram: two portions charged by one version of a recipe get each
\* reagent in proportion to their weights.
FluxFollowsPortion ==
    \A p, q \in Charged : tray[p].recipe = tray[q].recipe =>
        \A r \in Reagents :
            tray[p].flux[r] \otimes tray[q].portion = tray[q].flux[r] \otimes tray[p].portion

\* Whichever finish the analyst is about to choose -- the balance, a solution in
\* either unit, an ICP reading -- gives one grade of the same gold, and the
\* forecast of a bead inverts it.
FinishesAgree ==
    result = Nothing => \A p \in Holding({"primary"}), limit \in Limit \cup {Nothing},
                           unit \in MassConcentration, out \in MassFraction :
        LET w == tray[p].portion
            bead  == GravimetricGrade(gold[p], w, limit)
            flask == SolutionFinishGrade(Concentration(gold[p], unit), unit, Volume, w,
                                         Concentration(limit, unit), Nothing)
            icp   == ElementGrade(Concentration(gold[p], unit), unit, Volume, w, out,
                                  Concentration(limit, unit))
        IN  /\ BeadWeightForGrade(Truth(p), w) = gold[p]
            /\ (bead = Nothing) <=> (flask = Nothing)
            /\ (bead = Nothing) <=> (icp = Nothing)
            /\ bead # Nothing => \A m \in {flask, ConvertedTo(icp, "g_per_tonne")} :
                  /\ m.censored = bead.censored
                  /\ Substituted(m, "dl") = Substituted(bead, "dl")

\* The dossier, which knows no sensitivity, does not contradict the result.
DossierAgreesWithResult ==
    (result # Nothing /\ Original.au # Nothing) =>
        /\ IsDetected(Original.au)
        /\ IF result.au.censored THEN Original.au.value \preceq result.au.limit
           ELSE Original.au.value = result.au.value

Graded(p) == tray[p].bead # Nothing /\ Positive(gold[p])

\* Scores and flags of a dossier are those of the gold that was there, and where it
\* has no number it says why.
FlagsFollowTheGold ==
    LET dossier == BuildDossier
    IN  dossier # Nothing =>
        /\ \A p \in Holding({"blank"}) :
              ("blank_above_threshold" \in dossier.entries[p].flags)
                <=> (Graded(p) /\ Threshold \prec Truth(p))
        /\ \A p \in Holding({"crm"}) : Graded(p) =>
              ((dossier.entries[p].z \otimes certified.uncertainty) \oplus certified.value)
                = Truth(p)
        /\ \A p \in Holding({"duplicate"}), q \in Holding({"primary"}) : (Graded(p) /\ Graded(q)) =>
              LET spread == Distance(Truth(p), Truth(q)) \otimes Whole(200)
                  sum    == Truth(p) \oplus Truth(q)
              IN  /\ (dossier.duplicates[p].rpd \otimes sum) = spread
                  /\ ("duplicate_rpd_above_max" \in dossier.duplicates[p].flags)
                        <=> ((MaxRpd \otimes sum) \prec spread)
        /\ \A p \in Holding(Stock) :
              (dossier.entries[p].au = Nothing
                 \/ (tray[p].kind = "crm" /\ dossier.entries[p].z = Nothing))
                => dossier.entries[p].flags # {}
        /\ \A p \in Holding({"duplicate"}) :
              dossier.duplicates[p].rpd = Nothing => dossier.duplicates[p].flags # {}
        /\ Holding(Stock) = {} => dossier.flags # {}

\* Every completed batch has a dossier (qc_dossiers/service.py:245: an original
\* that cannot be graded "is a flag -- never a silent skip").
DossierCanBeRead == phase = "completed" => BuildDossier # Nothing
=============================================================================
