------------------------------- MODULE Learning -------------------------------
(***************************************************************************)
(* Lessons and quizzes: LessonService, for one user and one lesson of the  *)
(* curriculum, which is inserted as a whole.  Handlers read, decide and    *)
(* write; the write and its COMMIT are one step.                           *)
(***************************************************************************)
EXTENDS Integers, FiniteSets

CONSTANTS
    LrnRequests,    \* handlers that can run at the same time
    Questions,      \* questions of the quiz
    MaxAnswered     \* bound: submissions

ASSUME LrnAssumption == Questions \in Nat /\ MaxAnswered \in Nat

VARIABLES
    seeded,      \* lessons holds the curriculum
    progress,    \* user_lesson_progress: the row of the user, or NoProgress
    graded,      \* history: the scores of the submissions that were stored
    overlapped,  \* history: two submissions have overlapped
    answered,    \* submissions so far
    lrn          \* the handlers

lrnVars == <<seeded, progress, graded, overlapped, answered, lrn>>

NoScore == -1
NoProgress == [present |-> FALSE, score |-> NoScore, completed |-> FALSE]
LrnIdle == [pc |-> "idle"]

LrnInit ==
    /\ seeded = FALSE /\ progress = NoProgress /\ graded = {} /\ overlapped = FALSE
    /\ answered = 0
    /\ lrn = [r \in LrnRequests |-> LrnIdle]

LrnEnd(r) == lrn' = [lrn EXCEPT ![r] = LrnIdle]

\* round(correct / len(quiz) * 100), half to even; 0 without answers to all.
grade_attempt(correct, answers) ==
    IF Questions = 0 \/ answers # Questions THEN 0
    ELSE LET q == (100 * correct) \div Questions
             rest == 2 * ((100 * correct) % Questions)
         IN  IF rest > Questions \/ (rest = Questions /\ q % 2 = 1) THEN q + 1 ELSE q

Passing(score) == score >= 70

-----------------------------------------------------------------------------
\* seed_curriculum: the slugs that are missing; on a race the unique slug fails it.
seed_curriculum(r) ==
    /\ lrn[r].pc = "idle" /\ ~seeded
    /\ lrn' = [lrn EXCEPT ![r] = [pc |-> "seed"]]
    /\ UNCHANGED <<seeded, progress, graded, overlapped, answered>>

SeedCommit(r) ==
    /\ lrn[r].pc = "seed"
    /\ seeded' = TRUE
    /\ LrnEnd(r)
    /\ UNCHANGED <<progress, graded, overlapped, answered>>

\* get_with_progress: the first look inserts the row; a later one only
\* touches last_seen_at, which nothing reads.
get_with_progress(r) ==
    /\ lrn[r].pc = "idle" /\ seeded /\ ~progress.present
    /\ lrn' = [lrn EXCEPT ![r] = [pc |-> "start"]]
    /\ UNCHANGED <<seeded, progress, graded, overlapped, answered>>

\* The INSERT, or a rollback when the row is there by now (and then a 500:
\* the lesson object has expired with the transaction).
StartCommit(r) ==
    /\ lrn[r].pc = "start"
    /\ progress' = IF progress.present THEN progress ELSE [NoProgress EXCEPT !.present = TRUE]
    /\ LrnEnd(r)
    /\ UNCHANGED <<seeded, graded, overlapped, answered>>

\* submit_quiz: grade, then read the row.
submit_quiz(r, correct, answers) ==
    /\ lrn[r].pc = "idle" /\ seeded /\ answered < MaxAnswered
    /\ answered' = answered + 1
    /\ overlapped' = (overlapped \/ \E q \in LrnRequests : lrn[q].pc = "store")
    /\ lrn' = [lrn EXCEPT ![r] = [pc |-> "store", loaded |-> progress,
                                  score |-> grade_attempt(correct, answers)]]
    /\ UNCHANGED <<seeded, progress, graded>>

\* Fault: a failed attempt takes the completion back.
StoredCompleted(loaded, row, score) ==
    [row EXCEPT !.score = IF loaded.score = NoScore \/ score > loaded.score THEN score ELSE @,
                !.completed = IF Passing(score) # loaded.completed THEN Passing(score) ELSE @]

\* "Keep highest score" of what was loaded; completed_at is only ever set.
Stored(loaded, row, score) ==
    [row EXCEPT !.score = IF loaded.score = NoScore \/ score > loaded.score THEN score ELSE @,
                !.completed = @ \/ (Passing(score) /\ ~loaded.completed)]

\* A first submission inserts the row, and fails (500) if it is there by now.
SubmitCommit(r) ==
    LET score == lrn[r].score
        lost == ~lrn[r].loaded.present /\ progress.present
    IN  /\ lrn[r].pc = "store"
        /\ progress' =
             IF lost THEN progress
             ELSE IF ~lrn[r].loaded.present
             THEN [present |-> TRUE, score |-> score, completed |-> Passing(score)]
             ELSE Stored(lrn[r].loaded, progress, score)
        /\ graded' = IF lost THEN graded ELSE graded \cup {score}
        /\ LrnEnd(r)
        /\ UNCHANGED <<seeded, overlapped, answered>>

LrnCrash(r) ==
    /\ lrn[r].pc # "idle"
    /\ LrnEnd(r)
    /\ UNCHANGED <<seeded, progress, graded, overlapped, answered>>

\* The endpoints of the router.
LrnRoutes(r) ==
    \/ seed_curriculum(r) \/ get_with_progress(r)
    \/ \E answers \in {0, Questions} : \E correct \in 0 .. answers : submit_quiz(r, correct, answers)

LrnNext ==
    \E r \in LrnRequests :
        LrnRoutes(r) \/ SeedCommit(r) \/ StartCommit(r) \/ SubmitCommit(r) \/ LrnCrash(r)

LrnSpec == LrnInit /\ [][LrnNext]_lrnVars

-----------------------------------------------------------------------------
(***************************************************************************)
(* A lesson counts as completed exactly when a stored submission passed,   *)
(* however submissions overlap: the column is only ever set.  The score is *)
(* that of a stored submission, and the best one as long as no two have    *)
(* overlapped; after that the lower of two may have been written last.     *)
(***************************************************************************)
QuizRecord ==
    /\ progress.completed <=> \E s \in graded : Passing(s)
    /\ graded # {} => progress.score \in graded
    /\ ~overlapped => \A s \in graded : s <= progress.score
=============================================================================
