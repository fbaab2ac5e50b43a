------------------------------- MODULE LevelSurvey -------------------------------
(***************************************************************************)
(* The survey of the initial level: five questions, each answered with 0 to *)
(* 4 points; the page that asks them one at a time, forwards and back; and  *)
(* the level the answers earn.                                              *)
(***************************************************************************)
EXTENDS Integers, Sequences, FiniteSetsExt

VARIABLE survey   \* the page: the answers chosen so far and the question shown

Questions == <<"match_count", "rally_stability", "glass_play", "serve_return_net",
               "match_experience_year">>
QuestionCodes == {Questions[i] : i \in DOMAIN Questions}
Technical == {"rally_stability", "glass_play", "serve_return_net"}
Points == 0..4
Sheets == [QuestionCodes -> Points]
Unanswered == -1

Levels == <<"D", "D+", "C", "C+", "B", "B+", "A">>
Rank(level) == CHOOSE i \in DOMAIN Levels : Levels[i] = level

Score(sheet) ==
  sheet["match_count"] + sheet["rally_stability"] + sheet["glass_play"]
    + sheet["serve_return_net"] + sheet["match_experience_year"]

\* The level of the bucket of a score.
LevelForScore(score) == Levels[1 + Cardinality({last \in {2, 5, 8, 11, 14, 17} : score > last})]

\* mutant of QualifiesForBPlus: three points for the matches, not at least three
QualifiesForBPlusExact(sheet) ==
  sheet["match_count"] = 3 /\ \A q \in Technical : sheet[q] >= 3
QualifiesForBPlus(sheet) ==
  sheet["match_count"] >= 3 /\ \A q \in Technical : sheet[q] >= 3
QualifiesForA(sheet) ==
  /\ sheet["match_count"] = 4 /\ sheet["match_experience_year"] = 4
  /\ \A q \in Technical : sheet[q] = 4

\* No level beyond one of these.
Caps(sheet) ==
  {"A"}
  \cup (IF sheet["match_count"] = 0 THEN {"D+"} ELSE {})
  \cup (IF sheet["match_count"] = 1 THEN {"C"} ELSE {})
  \cup (IF sheet["glass_play"] <= 1 THEN {"C+"} ELSE {})
  \cup (IF QualifiesForBPlus(sheet) THEN {} ELSE {"B"})
  \cup (IF QualifiesForA(sheet) THEN {} ELSE {"B+"})

Level(sheet) ==
  Levels[Min({Rank(cap) : cap \in Caps(sheet)} \cup {Rank(LevelForScore(Score(sheet)))})]

-----------------------------------------------------------------------------
(* The page.                                                               *)

SurveyInit == survey = [answers |-> [q \in QuestionCodes |-> Unanswered], at |-> 1, sent |-> FALSE]

Current == Questions[survey.at]

UpdateAnswer(points) ==
  /\ ~survey.sent
  /\ survey' = [survey EXCEPT !.answers[Current] = points]

\* The page goes on only from an answered question.
NextQuestion ==
  /\ ~survey.sent /\ survey.answers[Current] # Unanswered /\ survey.at < Len(Questions)
  /\ survey' = [survey EXCEPT !.at = @ + 1]

HandleBack ==
  /\ ~survey.sent /\ survey.at > 1
  /\ survey' = [survey EXCEPT !.at = @ - 1]

SubmitSurvey ==
  /\ ~survey.sent /\ survey.at = Len(Questions) /\ survey.answers[Current] # Unanswered
  /\ survey' = [survey EXCEPT !.sent = TRUE]

SurveyNext ==
  (\E points \in Points : UpdateAnswer(points)) \/ NextQuestion \/ HandleBack \/ SubmitSurvey

SurveySpec == SurveyInit /\ [][SurveyNext]_survey

-----------------------------------------------------------------------------
\* The page keeps its type.
SurveyTypeOK ==
  /\ survey.answers \in [QuestionCodes -> Points \cup {Unanswered}]
  /\ survey.at \in DOMAIN Questions /\ survey.sent \in BOOLEAN

Better(sheet) == {[sheet EXCEPT ![q] = @ + 1] : q \in {c \in QuestionCodes : sheet[c] < 4}}

\* However the questions are answered, changed and passed, what is sent is a
\* complete sheet; and through all the caps of the levels an answer worth more
\* never earns less, and no answer alone earns more than two levels.
LevelIsFair ==
  survey.sent =>
    /\ survey.answers \in Sheets
    /\ \A better \in Better(survey.answers) :
         Rank(Level(better)) - Rank(Level(survey.answers)) \in 0..2
=============================================================================
