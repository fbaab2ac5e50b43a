---------------------------- MODULE LevelReassessment ----------------------------
(***************************************************************************)
(* The one reassessment of a player whose onboarding was completed under    *)
(* the first survey: the gate in front of the application, on each of his   *)
(* devices, its client with its repeats, and the evidence the server keeps. *)
(* The onboarding row it starts from is complete and no longer changes.     *)
(***************************************************************************)
EXTENDS LevelSurvey

CONSTANTS Devices,
          Filled,        \* the sheets the player may fill in
          MaxGateTries   \* requestNumber < MAX_REQUESTS

ASSUME ReassessmentAssumption == Filled \subseteq Sheets /\ MaxGateTries \in Nat \ {0}

VARIABLES
  sheets,    \* player_initial_level_reassessments: none, or one sheet
  gate,      \* the gate on each device
  overdue    \* completions the client gave up that may still be served

reassessmentVars == <<sheets, gate, overdue>>

Gate(pc, draft, shown) ==
  [pc |-> pc, draft |-> draft, tries |-> 0, answer |-> "none", found |-> {}, shown |-> shown]

ReassessmentInit ==
  /\ sheets = {} /\ overdue = {}
  /\ gate = [d \in Devices |-> Gate("loading", {}, "none")]

AtPage(d, pc) == gate[d].pc = pc
GateBecomes(d, next) == gate' = [gate EXCEPT ![d] = next]
GateGoes(d, pc) == GateBecomes(d, [gate[d] EXCEPT !.pc = pc])

\* The level of a stored sheet.
LevelOf(rows) == Level(CHOOSE sheet \in rows : TRUE)

(***************************************************************************)
(* The server.                                                              *)
(***************************************************************************)
\* The transaction holds the onboarding row: the first sheet is stored.
Stored(sheet) == IF sheets = {} THEN {sheet} ELSE sheets

\* mutant of Conflicts: a sheet that is stored answers every later one
ConflictsNever(sheet) == FALSE /\ sheet \in sheets
\* Another sheet is stored.
Conflicts(sheet) == sheets # {} /\ sheet \notin sheets

ServeCompletion(d) ==
  /\ AtPage(d, "sending")
  /\ \E sheet \in gate[d].draft :
       /\ sheets' = Stored(sheet)
       /\ GateBecomes(d, [gate[d] EXCEPT !.pc = "answered",
                        !.answer = IF Conflicts(sheet) THEN "conflict" ELSE Level(sheet)])
  /\ UNCHANGED overdue

ServeOverdue(sheet) ==
  /\ sheet \in overdue
  /\ sheets' = Stored(sheet) /\ overdue' = overdue \ {sheet}
  /\ UNCHANGED gate

\* What the gate reads when it loads, and when it reconciles.
ServeRead(d) ==
  /\ AtPage(d, "loading") \/ AtPage(d, "reconciling")
  /\ GateBecomes(d, [gate[d] EXCEPT !.pc = IF AtPage(d, "loading") THEN "loaded" ELSE "reconciled",
                               !.found = sheets])
  /\ UNCHANGED <<sheets, overdue>>

(***************************************************************************)
(* The gate.                                                                *)
(***************************************************************************)
Shows(d, pc) == GateBecomes(d, Gate(pc, gate[d].draft, LevelOf(gate[d].found)))

ReceiveRead(d) ==
  /\ \/ AtPage(d, "loaded") /\ gate[d].found # {} /\ Shows(d, "app")
     \/ AtPage(d, "reconciled") /\ gate[d].found # {} /\ Shows(d, "result")
     \/ /\ gate[d].pc \in {"loaded", "reconciled"} /\ gate[d].found = {}
        /\ GateBecomes(d, Gate("asking", gate[d].draft, "none"))
  /\ UNCHANGED <<sheets, overdue>>

\* A read that fails: the gate offers to try again, or leaves the questions.
ReadFails(d) ==
  /\ \/ gate[d].pc \in {"loading", "loaded"} /\ GateGoes(d, "error")
     \/ gate[d].pc \in {"reconciling", "reconciled"} /\ GateGoes(d, "asking")
  /\ UNCHANGED <<sheets, overdue>>

TryAgain(d) == AtPage(d, "error") /\ GateGoes(d, "loading") /\ UNCHANGED <<sheets, overdue>>

\* An answer that changes forgets the completion that was sent before.
ChangeAnswers(d, sheet) ==
  /\ AtPage(d, "asking") /\ GateBecomes(d, [gate[d] EXCEPT !.draft = {sheet}])
  /\ UNCHANGED <<sheets, overdue>>

HandleSubmit(d) ==
  /\ AtPage(d, "asking") /\ gate[d].draft # {}
  /\ GateBecomes(d, [gate[d] EXCEPT !.pc = "sending", !.tries = 1])
  /\ UNCHANGED <<sheets, overdue>>

\* The level shown is the one of the answer.
ReceiveCompletion(d) ==
  /\ AtPage(d, "answered")
  /\ IF gate[d].answer = "conflict" THEN GateGoes(d, "reconciling")
     ELSE GateBecomes(d, Gate("result", gate[d].draft, gate[d].answer))
  /\ UNCHANGED <<sheets, overdue>>

\* No answer in time, or one that asks to try again: the completion is sent
\* again, or given up with a notice; the first may still be served.
UnservedAfter(d) == IF AtPage(d, "sending") THEN {overdue, overdue \cup gate[d].draft} ELSE {overdue}

RepeatCompletion(d) ==
  /\ AtPage(d, "sending") \/ AtPage(d, "answered")
  /\ IF gate[d].tries < MaxGateTries
     THEN GateBecomes(d, [gate[d] EXCEPT !.pc = "sending", !.tries = @ + 1, !.answer = "none"])
     ELSE GateBecomes(d, Gate("asking", gate[d].draft, "none"))
  /\ overdue' \in UnservedAfter(d)
  /\ UNCHANGED sheets

EnterApp(d) == AtPage(d, "result") /\ GateGoes(d, "app") /\ UNCHANGED <<sheets, overdue>>

\* The device is closed, or its session ends, and the gate opens anew.
Reopen(d) ==
  /\ GateBecomes(d, Gate("loading", {}, "none"))
  /\ overdue' \in UnservedAfter(d)
  /\ UNCHANGED sheets

ReassessmentNext ==
  \/ \E d \in Devices :
       \/ ServeCompletion(d) \/ ServeRead(d) \/ ReceiveRead(d) \/ ReadFails(d) \/ TryAgain(d)
       \/ \E sheet \in Filled : ChangeAnswers(d, sheet)
       \/ HandleSubmit(d) \/ ReceiveCompletion(d) \/ RepeatCompletion(d)
       \/ EnterApp(d) \/ Reopen(d)
  \/ \E sheet \in Filled : ServeOverdue(sheet)

ReassessmentSpec == ReassessmentInit /\ [][ReassessmentNext]_reassessmentVars

-----------------------------------------------------------------------------
\* Every variable keeps its type.
ReassessmentTypeOK ==
  /\ sheets \subseteq Sheets /\ overdue \subseteq Filled
  /\ \A d \in Devices : gate[d].draft \subseteq Filled /\ gate[d].tries \in 0..MaxGateTries

\* Whatever is sent again, arrives late or is sent from another device, one
\* sheet is kept, and the level a player is shown is the level of that sheet.
ShownLevelIsKept ==
  \A d \in Devices :
    gate[d].pc \in {"result", "app"} => \E sheet \in sheets : gate[d].shown = Level(sheet)
EvidenceStands == [][sheets # {} => sheets' = sheets]_sheets
=============================================================================
