------------------------------ MODULE RiskProfile ------------------------------
(***************************************************************************)
(* The risk questionnaire: answers to axis scores to an archetype, and the *)
(* profile the submit endpoint stores.  An answer is the weight of the     *)
(* option chosen, or Unknown for a value that is no option.                *)
(***************************************************************************)
EXTENDS Fractions, Sequences, SequencesExt, FiniteSetsExt

\* The number of questions of each axis; right answers of the knowledge axis weigh 5, wrong ones 1.
QUESTIONS == [risk_tolerance |-> 5, time_horizon |-> 3, knowledge |-> 4]
QuestionIds == UNION {{axis} \X (1 .. QUESTIONS[axis]) : axis \in DOMAIN QUESTIONS}
OptionWeights(axis) == IF axis = "knowledge" THEN {1, 5} ELSE 1 .. 5
Unknown == 0

Clamp(lo, hi, v) == IF v < lo THEN lo ELSE IF v > hi THEN hi ELSE v

\* The average weight of the axis' answers, rounded half to even.
AxisScore(answers, axis) ==
    Clamp(1, 5, RoundHalfEven(FoldLeft(LAMBDA a, i : a + answers[<<axis, i>>], 0, [i \in 1 .. QUESTIONS[axis] |-> i]), QUESTIONS[axis]))

\* Every question answered, no other, and each with one of its options.
Answerable(answers) ==
    /\ DOMAIN answers = QuestionIds
    /\ \A q \in QuestionIds : answers[q] # Unknown

InvalidAnswersError == [rt |-> 0, th |-> 0, kn |-> 0]

score(answers) ==
    IF ~Answerable(answers) THEN InvalidAnswersError
    ELSE [rt |-> AxisScore(answers, "risk_tolerance"), th |-> AxisScore(answers, "time_horizon"),
          kn |-> AxisScore(answers, "knowledge")]

ARCHETYPES == <<"conservative_saver", "cautious_beginner", "balanced_builder",
                "growth_seeker", "aggressive_trader">>

\* Tolerance gives the base; horizon and knowledge cap or nudge it, in this order.
archetype(s) ==
    LET base == Clamp(0, 4, s.rt - 1)
        capped == IF s.th <= 2 /\ base > 2 THEN 2 ELSE base
        nudged == IF s.th >= 4 /\ s.kn >= 3 /\ capped < 4 THEN capped + 1 ELSE capped
    IN  IF s.kn <= 2 /\ s.rt < 5 /\ nudged > 1 THEN 1 ELSE nudged

\* The user's profile after a submission: a refused one (400) leaves it as it is.
submit_answers(profile, answers) ==
    LET s == score(answers)
    IN  IF s = InvalidAnswersError THEN profile
        ELSE [risk_archetype |-> ARCHETYPES[archetype(s) + 1], scores |-> s]

-----------------------------------------------------------------------------
Ranked(profile) == CHOOSE i \in DOMAIN ARCHETYPES : ARCHETYPES[i] = profile.risk_archetype
NoProfile == [risk_archetype |-> "none", scores |-> InvalidAnswersError]

(***************************************************************************)
(* A sheet with a better answer to one question never gives a more         *)
(* cautious profile, whatever rounding, caps and nudges do to each other,  *)
(* and a sheet with an answer too few, too many or unknown changes no      *)
(* stored profile.                                                         *)
(***************************************************************************)
ProfileMonotone(answers, axis) ==
    LET given == submit_answers(NoProfile, answers)
        without(q) == [r \in QuestionIds \ {q} |-> answers[r]]
        beside == [r \in QuestionIds \cup {<<"other", 1>>} |-> IF r \in QuestionIds THEN answers[r] ELSE 1]
    IN  \A i \in 1 .. QUESTIONS[axis] :
          LET q == <<axis, i>>
          IN  /\ \A w \in OptionWeights(axis) :
                   w > answers[q] => Ranked(given) <= Ranked(submit_answers(given, [answers EXCEPT ![q] = w]))
              /\ \A refused \in {without(q), beside, [answers EXCEPT ![q] = Unknown]} :
                   submit_answers(given, refused) = given

(***************************************************************************)
(* A higher score on any axis never gives a more cautious archetype.       *)
(***************************************************************************)
AtMostOn(s, t) == s.rt <= t.rt /\ s.th <= t.th /\ s.kn <= t.kn
Scores == [rt : 1 .. 5, th : 1 .. 5, kn : 1 .. 5]
ArchetypeMonotone(s) == \A t \in Scores : AtMostOn(s, t) => archetype(s) <= archetype(t)
=============================================================================
