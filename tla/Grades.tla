------------------------------- MODULE Grades -------------------------------
(***************************************************************************)
(* The arithmetic of the laboratory: units, measured values and            *)
(* non-detects, the grade of a bead or of a solution, the numbers a QC     *)
(* dossier computes, and the scaling of a flux recipe.                     *)
(*                                                                         *)
(* The code works in decimals of 34 digits (CONVERSION_PRECISION), far     *)
(* more than any balance or instrument prints; here a quantity is an exact *)
(* fraction.  Nothing stands for None, and for a calculation that raises.  *)
(***************************************************************************)
EXTENDS Integers

CONSTANT Nothing

-----------------------------------------------------------------------------
(***************************************************************************)
(* Fractions, in lowest terms and over a positive denominator.             *)
(***************************************************************************)
\* Euclid's algorithm, on a pair.
Gcd[p \in Nat \X Nat] == IF p[2] = 0 THEN p[1] ELSE Gcd[<<p[2], p[1] % p[2]>>]

\* n/d in lowest terms.
Ratio(n, d) ==
    LET common == Gcd[<<IF n < 0 THEN -n ELSE n, d>>]
    IN  [n |-> n \div common, d |-> d \div common]
Whole(k) == Ratio(k, 1)

Fraction == {q \in [n : Int, d : Nat \ {0}] : q = Ratio(q.n, q.d)}

a \prec b   == a.n * b.d < b.n * a.d
a \preceq b == a.n * b.d <= b.n * a.d

a \oplus b  == Ratio(a.n * b.d + b.n * a.d, a.d * b.d)
a \ominus b == Ratio(a.n * b.d - b.n * a.d, a.d * b.d)
a \otimes b == Ratio(a.n * b.n, a.d * b.d)
a \oslash b == Ratio(a.n * b.d, a.d * b.n)      \* b is positive

Positive(a) == a.n > 0
Distance(a, b) == IF a \preceq b THEN b \ominus a ELSE a \ominus b

PositiveOrNone(a) == a # Nothing => Positive(a)

-----------------------------------------------------------------------------
(***************************************************************************)
(* Units.  A factor leads to the canonical unit of its dimension, ppm,     *)
(* mg/L or gram.                                                           *)
(***************************************************************************)
MassFraction      == {"ppm", "ppb", "percent", "g_per_tonne", "oz_per_ton"}
MassConcentration == {"mg_per_l", "ug_per_l"}
Mass              == {"gram", "milligram", "microgram", "kilogram"}

Factor ==
    [ppm      |-> Whole(1), g_per_tonne |-> Whole(1),        ppb       |-> Ratio(1, 1000),
     percent  |-> Whole(10000),             oz_per_ton |-> Ratio(240, 7),
     mg_per_l |-> Whole(1), ug_per_l    |-> Ratio(1, 1000),
     gram     |-> Whole(1), milligram   |-> Ratio(1, 1000),
     kilogram |-> Whole(1000),              microgram  |-> Ratio(1, 1000000)]

SameDimension(u, v) ==
    \E D \in {MassFraction, MassConcentration, Mass} : {u, v} \subseteq D

Convert(q, source, target) ==
    IF source = target THEN q
    ELSE IF SameDimension(source, target)
         THEN (q \otimes Factor[source]) \oslash Factor[target]
         ELSE Nothing

-----------------------------------------------------------------------------
(***************************************************************************)
(* Measured values: a measurement, or a limit it did not reach.            *)
(***************************************************************************)
MeasuredValue ==
    [unit : DOMAIN Factor, value : Fraction, limit : Fraction \cup {Nothing}, censored : {FALSE}]
    \cup [unit : DOMAIN Factor, value : {Nothing}, limit : Fraction, censored : {TRUE}]

\* None is no value.
ASSUME NothingAssumption == Nothing \notin Fraction \cup MeasuredValue \cup MassConcentration

Detected(q, u, limit) == [unit |-> u, value |-> q, limit |-> limit, censored |-> FALSE]

NonDetect(limit, u) == [unit |-> u, value |-> Nothing, limit |-> limit, censored |-> TRUE]

IsDetected(m) == m # Nothing /\ ~m.censored

\* Mutant: the non-detect stands at twice its limit.
SubstitutedTwice(m, strategy) ==
    IF ~m.censored THEN m.value
    ELSE CASE strategy = "zero"    -> Whole(0)
           [] strategy = "half_dl" -> m.limit
           [] strategy = "dl"      -> m.limit \otimes Whole(2)

Substituted(m, strategy) ==
    IF ~m.censored THEN m.value
    ELSE CASE strategy = "zero"    -> Whole(0)
           [] strategy = "half_dl" -> m.limit \oslash Whole(2)
           [] strategy = "dl"      -> m.limit

\* The limit converts with the value.
ConvertedTo(m, u) ==
    IF u = m.unit THEN m
    ELSE LET limit == IF m.limit = Nothing THEN Nothing ELSE Convert(m.limit, m.unit, u)
         IN  IF m.censored THEN NonDetect(limit, u)
             ELSE Detected(Convert(m.value, m.unit, u), u, limit)

-----------------------------------------------------------------------------
(***************************************************************************)
(* Grades.  A reading at or below its limit is reported as below the grade *)
(* of the limit; a zero reading without a limit is refused.                *)
(***************************************************************************)
Unlimited(reading, grade, u) == IF reading.n = 0 THEN Nothing ELSE Detected(grade, u, Nothing)

\* Mutant: a reading that only reaches its limit counts as detected.
ReportedAtLimit(reading, limit, grade, gradeOfLimit, u) ==
    IF limit = Nothing THEN Unlimited(reading, grade, u)
    ELSE IF reading \prec limit THEN NonDetect(gradeOfLimit, u)
         ELSE Detected(grade, u, gradeOfLimit)

Reported(reading, limit, grade, gradeOfLimit, u) ==
    IF limit = Nothing THEN Unlimited(reading, grade, u)
    ELSE IF reading \preceq limit THEN NonDetect(gradeOfLimit, u)
         ELSE Detected(grade, u, gradeOfLimit)

\* Milligrams of bead in grams of sample, as g/t.
BeadGrade(mg, weight) == (mg \otimes Whole(1000)) \oslash weight

GravimetricGrade(bead, weight, sensitivity) ==
    IF Positive(weight) /\ bead.n >= 0 /\ PositiveOrNone(sensitivity)
    THEN Reported(bead, sensitivity, BeadGrade(bead, weight), BeadGrade(sensitivity, weight),
                  "g_per_tonne")
    ELSE Nothing

\* Mutant: the unit of the reading is not looked at.
FlaskGradeOfNumber(concentration, unit, volume, weight) ==
    (concentration \otimes volume) \oslash weight

\* mg/L are micrograms per mL: times mL, over grams, that is ppm.
FlaskGrade(concentration, unit, volume, weight) ==
    (Convert(concentration, unit, "mg_per_l") \otimes volume) \oslash weight

Readable(concentration, unit, volume, weight, limit) ==
    /\ Positive(weight) /\ Positive(volume) /\ concentration.n >= 0
    /\ unit \in MassConcentration
    /\ PositiveOrNone(limit)

SolutionFinishGrade(concentration, unit, volume, weight, limit, upper) ==
    IF /\ Readable(concentration, unit, volume, weight, limit)
       /\ PositiveOrNone(upper) /\ upper # Nothing => concentration \preceq upper
    THEN Reported(concentration, limit, FlaskGrade(concentration, unit, volume, weight),
                  FlaskGrade(limit, unit, volume, weight), "g_per_tonne")
    ELSE Nothing

ElementGrade(concentration, unit, volume, weight, output, limit) ==
    IF Readable(concentration, unit, volume, weight, limit) /\ output \in MassFraction
    THEN Reported(concentration, limit,
                  Convert(FlaskGrade(concentration, unit, volume, weight), "ppm", output),
                  Convert(FlaskGrade(limit, unit, volume, weight), "ppm", output), output)
    ELSE Nothing

\* What parting removed from the bead.
SilverByDifference(dore, gold, weight) ==
    IF Positive(weight) /\ gold \preceq dore
    THEN Detected(BeadGrade(dore \ominus gold, weight), "g_per_tonne", Nothing)
    ELSE Nothing

BeadWeightForGrade(grade, weight) ==
    IF Positive(weight) /\ grade.n >= 0
    THEN (grade \otimes weight) \oslash Whole(1000)
    ELSE Nothing

-----------------------------------------------------------------------------
(***************************************************************************)
(* Advisory QC arithmetic.  A flag is the code of an advisory; no flag is  *)
(* a verdict.                                                              *)
(***************************************************************************)
CrmZScore(m, certified, uncertainty) ==
    IF ~Positive(uncertainty) THEN [z |-> Nothing, flags |-> {"crm_uncertainty_invalid"}]
    ELSE IF ~IsDetected(m) THEN [z |-> Nothing, flags |-> {"crm_non_detect"}]
    ELSE [z |-> (m.value \ominus certified) \oslash uncertainty, flags |-> {}]

\* Mutant: a blank at the threshold is flagged.
BlankFlagsAtThreshold(m, threshold) ==
    IF IsDetected(m) /\ threshold \preceq m.value THEN {"blank_above_threshold"} ELSE {}

BlankFlags(m, threshold) ==
    IF IsDetected(m) /\ threshold \prec m.value THEN {"blank_above_threshold"} ELSE {}

DuplicatePair(original, duplicate, maxRpd) ==
    IF ~IsDetected(original) THEN [rpd |-> Nothing, flags |-> {"original_not_graded"}]
    ELSE IF ~IsDetected(duplicate) THEN [rpd |-> Nothing, flags |-> {"duplicate_not_graded"}]
    ELSE LET mean == (original.value \oplus duplicate.value) \oslash Whole(2)
             rpd  == (Distance(duplicate.value, original.value) \oslash mean) \otimes Whole(100)
         IN  IF mean.n = 0 THEN [rpd |-> Nothing, flags |-> {"pair_mean_zero"}]
             ELSE [rpd   |-> rpd,
                   flags |-> IF maxRpd \prec rpd THEN {"duplicate_rpd_above_max"} ELSE {}]

-----------------------------------------------------------------------------
\* Mutant: the portions are swapped.
ScaleFluxChargeInverted(nominal, nominalPortion, weight) ==
    IF Positive(nominalPortion) /\ Positive(weight)
    THEN [r \in DOMAIN nominal |-> nominal[r] \otimes (nominalPortion \oslash weight)]
    ELSE Nothing

\* A recipe's reagents, calibrated for a nominal portion, for another portion.
ScaleFluxCharge(nominal, nominalPortion, weight) ==
    IF Positive(nominalPortion) /\ Positive(weight)
    THEN [r \in DOMAIN nominal |-> nominal[r] \otimes (weight \oslash nominalPortion)]
    ELSE Nothing
=============================================================================
