----------------------------- MODULE ControlledRun -----------------------------
(***************************************************************************)
(* The controlled test of YCLIENTS: a program the owner starts by hand,     *)
(* once an approval.  It books slot A, moves the record to slot B, deletes  *)
(* it, and reports which slots the club must keep clear ("holds").  A       *)
(* second program cleans up a record left in slot A.  A write whose answer  *)
(* is not known may reach the provider later, or never.                     *)
(***************************************************************************)
EXTENDS Naturals, FiniteSets

CONSTANTS Launches,   \* starts of the test
          Cleanups    \* starts of the cleanup

ASSUME ControlledAssumption == Launches \cap Cleanups = {}

VARIABLES
  files,     \* the root-only artifacts that exist
  record,    \* the record at the provider
  flying,    \* writes without a known answer that may still arrive
  sent,      \* how often each program sent its one-time write
  launch     \* where each start is, and what it reports

controlledVars == <<files, record, flying, sent, launch>>

Slots == {"A", "B"}
Programs == Launches \cup Cleanups
Running(pc) == [pc |-> pc, outcome |-> "none", holds |-> {}, unsure |-> FALSE, gone |-> FALSE]

ControlledInit ==
  /\ files = {} /\ record = "none" /\ flying = {}
  /\ sent = [create |-> 0, clean |-> 0]
  /\ launch = [l \in Programs |-> Running("idle")]

(***************************************************************************)
(* The provider.                                                            *)
(***************************************************************************)
Effect(write) ==
  CASE write = "create" /\ record = "none" -> "A"
    [] write = "move" /\ record = "A" -> "B"
    [] write = "cancel" /\ record \in Slots -> "deleted"
    [] OTHER -> record

\* A write ends in an answer of `known`, without effect when it is refused,
\* or in doubt: it has had its effect, or it may have it later, or never.
Send(write, known, answer) ==
  \/ /\ answer = known /\ record' = Effect(write) /\ UNCHANGED flying
  \/ /\ answer = "refused" /\ UNCHANGED <<record, flying>>
  \/ /\ answer = "unknown"
     /\ \/ record' = Effect(write) /\ UNCHANGED flying
        \/ UNCHANGED record /\ flying' = flying \cup {write}

Arrive(write) ==
  /\ write \in flying
  /\ flying' = flying \ {write}
  /\ record' = Effect(write)
  /\ UNCHANGED <<files, sent, launch>>

\* A read that gets through tells the truth; every other one proves nothing.
Proves(seen, wanted) == seen => record = wanted

(***************************************************************************)
(* What a start reports.                                                    *)
(***************************************************************************)
Ended(outcome, holds) == [Running("ended") EXCEPT !.outcome = outcome, !.holds = holds]

Failed(l) ==
  IF l \in Launches THEN Ended("unknown", Slots)
  ELSE IF launch[l].pc = "pre_delete_exact" THEN Ended("cleanup_required", {"A"})
  ELSE Ended("unknown", {"A"})

\* A request is written to the evidence before the next one; when that fails
\* the run ends there.
Evidenced(l, next) ==
  launch' \in {[launch EXCEPT ![l] = next],
               [launch EXCEPT ![l] = Failed(l)]}
Goes(l, pc) == Evidenced(l, [launch[l] EXCEPT !.pc = pc])
At(l, pc) == launch[l].pc = pc
Reads(l, pc) == At(l, pc) /\ UNCHANGED <<files, record, flying, sent>>

(***************************************************************************)
(* The launcher, the runner and the gate of the approval.                   *)
(***************************************************************************)
Approval(l) == IF l \in Launches THEN "approval" ELSE "cleanup approval"
ConsumedFile(l) == IF l \in Launches THEN "consumed" ELSE "cleanup consumed"

\* The owner of the machine writes an approval of the plan.
Approve(l) ==
  /\ Approval(l) \notin files
  /\ files' = files \cup {Approval(l)}
  /\ UNCHANGED <<record, flying, sent, launch>>

Artifacts(l) ==
  IF l \in Launches THEN {"consumed", "binding"} \cap files = {}
  ELSE "cleanup consumed" \notin files /\ "binding" \in files

Block(l) == launch' = [launch EXCEPT ![l] = Ended("blocked", {})]

StartRun(l) ==
  /\ Reads(l, "idle")
  /\ IF Artifacts(l) THEN launch' = [launch EXCEPT ![l].pc = "approve"] ELSE Block(l)

ReadApproval(l) ==
  /\ Reads(l, "approve")
  /\ IF ConsumedFile(l) \notin files /\ Approval(l) \in files
     THEN launch' = [launch EXCEPT ![l].pc = "claim"] \/ Block(l)
     ELSE Block(l)

\* The consumed file is made whole and linked into place: one link succeeds.
Claimed(l) == ConsumedFile(l) \notin files

ClaimApproval(l) ==
  /\ At(l, "claim")
  /\ files' = files \cup {ConsumedFile(l)}
  /\ \/ /\ Claimed(l)
        /\ launch' = [launch EXCEPT ![l].pc =
                        IF l \in Launches THEN "availability_A" ELSE "pre_delete_exact"]
     \/ Block(l)
  /\ UNCHANGED <<record, flying, sent>>

(***************************************************************************)
(* The test.                                                                *)
(***************************************************************************)
AfterRead == [availability_A |-> "preflight_A", preflight_A |-> "availability_B",
              availability_B |-> "preflight_B", preflight_B |-> "create_A"]

CheckSlot(l) == \E pc \in DOMAIN AfterRead :
  /\ Reads(l, pc)
  /\ Goes(l, AfterRead[pc]) \/ launch' = [launch EXCEPT ![l] = Ended("stopped", Slots)]

\* The identity of a created record is kept before anything else.
CreateA(l) ==
  /\ At(l, "create_A")
  /\ sent' = [sent EXCEPT !.create = @ + 1]
  /\ \E answer \in {"created", "refused", "unknown"} :
       /\ Send("create", "created", answer)
       /\ \/ /\ answer = "created" /\ "binding" \notin files
             /\ files' = files \cup {"binding"}
             /\ Goes(l, "exact_get_A")
          \/ /\ answer = "created"
             /\ launch' = [launch EXCEPT ![l] = Ended("cleanup_required", {"A"})]
             /\ UNCHANGED files
          \/ answer = "refused" /\ Evidenced(l, Ended("stopped", Slots)) /\ UNCHANGED files
          \/ answer = "unknown" /\ Goes(l, "find_A") /\ UNCHANGED files

FindA(l) ==
  /\ Reads(l, "find_A")
  /\ \E seen \in BOOLEAN :
       /\ Proves(seen, "A")
       /\ Evidenced(l, Ended(IF seen THEN "cleanup_required" ELSE "unknown", {"A"}))

ExactGetA(l) ==
  /\ Reads(l, "exact_get_A")
  /\ \E seen \in BOOLEAN :
       /\ Proves(seen, "A")
       /\ IF seen THEN Goes(l, "bounded_list_A")
          ELSE Evidenced(l, Ended("cleanup_required", {"A"}))

BoundedListA(l) ==
  /\ Reads(l, "bounded_list_A")
  /\ \E seen \in BOOLEAN :
       /\ Proves(seen, "A")
       /\ IF seen THEN Goes(l, "reschedule_B")
          ELSE Evidenced(l, Ended("cleanup_required", {"A"}))

RescheduleB(l) ==
  /\ At(l, "reschedule_B")
  /\ \E answer \in {"accepted", "refused", "unknown"} :
       /\ Send("move", "accepted", answer)
       /\ CASE answer = "unknown" -> Evidenced(l, [launch[l] EXCEPT !.pc = "exact_get_B", !.unsure = TRUE])
            [] answer = "accepted" -> Goes(l, "exact_get_B")
            [] answer = "refused" -> Evidenced(l, Ended("cleanup_required", {"A"}))
  /\ UNCHANGED <<files, sent>>

\* mutant of HeldAfterMove: the record is where the read saw it
HeldAfterMoveSeen == IF record \in Slots THEN {record} ELSE Slots
HeldAfterMove == Slots

ExactGetB(l) ==
  /\ Reads(l, "exact_get_B")
  /\ \E seen \in BOOLEAN :
       /\ Proves(seen, "B")
       /\ IF seen /\ ~launch[l].unsure THEN Goes(l, "cancel_first")
          ELSE Evidenced(l, Ended("unknown", HeldAfterMove))

CancelFirst(l) ==
  /\ At(l, "cancel_first")
  /\ \E answer \in {"deleted", "refused", "unknown"} :
       /\ Send("cancel", "deleted", answer)
       /\ IF answer = "refused" THEN Evidenced(l, Ended("cleanup_required", {"B"}))
          ELSE Evidenced(l, [launch[l] EXCEPT !.pc = "exact_get_deleted",
                                             !.unsure = answer = "unknown"])
  /\ UNCHANGED <<files, sent>>

ExactGetDeleted(l) ==
  /\ Reads(l, "exact_get_deleted")
  /\ \E seen \in BOOLEAN :
       /\ Proves(seen, "deleted")
       /\ Evidenced(l, [launch[l] EXCEPT !.pc = "bounded_list_deleted", !.gone = seen])

BoundedListDeleted(l) ==
  /\ Reads(l, "bounded_list_deleted")
  /\ \E seen \in BOOLEAN :
       /\ Proves(seen, "deleted")
       /\ IF ~(seen /\ launch[l].gone) THEN Evidenced(l, Ended("unknown", {"B"}))
          ELSE IF launch[l].unsure THEN Evidenced(l, Ended("cancelled_confirmed", {}))
          ELSE Goes(l, "cancel_repeat")

CancelRepeat(l) ==
  /\ At(l, "cancel_repeat")
  /\ \E answer \in {"deleted", "refused", "unknown"} :
       /\ Send("cancel", "deleted", answer)
       /\ Evidenced(l, [launch[l] EXCEPT !.pc = "bounded_list_final",
                                        !.unsure = answer # "deleted"])
  /\ UNCHANGED <<files, sent>>

BoundedListFinal(l) ==
  /\ Reads(l, "bounded_list_final")
  /\ \E seen \in BOOLEAN :
       /\ Proves(seen, "deleted")
       /\ Evidenced(l, Ended(IF seen /\ ~launch[l].unsure THEN "passed" ELSE "unknown", {}))

(***************************************************************************)
(* The cleanup.                                                             *)
(***************************************************************************)
PreDeleteExact(l) ==
  /\ Reads(l, "pre_delete_exact")
  /\ \E seen \in BOOLEAN :
       /\ Proves(seen, "A")
       /\ IF seen THEN Goes(l, "cancel_once")
          ELSE Evidenced(l, Ended("cleanup_required", {"A"}))

CancelOnce(l) ==
  /\ At(l, "cancel_once")
  /\ sent' = [sent EXCEPT !.clean = @ + 1]
  /\ \E answer \in {"deleted", "refused", "unknown"} :
       /\ Send("cancel", "deleted", answer)
       /\ IF answer = "refused" THEN Evidenced(l, Ended("cleanup_required", {"A"}))
          ELSE Goes(l, "post_delete_exact")
  /\ UNCHANGED files

PostDeleteExact(l) ==
  /\ Reads(l, "post_delete_exact")
  /\ \E seen \in BOOLEAN :
       /\ Proves(seen, "deleted")
       /\ Evidenced(l, [launch[l] EXCEPT !.pc = "post_delete_list", !.gone = seen])

Cleaned(l, seen) == seen /\ launch[l].gone

PostDeleteList(l) ==
  /\ Reads(l, "post_delete_list")
  /\ \E seen \in BOOLEAN :
       /\ Proves(seen, "deleted")
       /\ Evidenced(l, IF Cleaned(l, seen) THEN Ended("cancelled_confirmed", {})
                      ELSE Ended("unknown", {"A"}))

\* The process dies; the write it was about to send may have left.
Writes == [create_A |-> "create", reschedule_B |-> "move", cancel_first |-> "cancel",
           cancel_repeat |-> "cancel", cancel_once |-> "cancel"]

Die(l) ==
  /\ launch[l].pc \notin {"idle", "ended"}
  /\ launch' = [launch EXCEPT ![l] = Ended("dead", {})]
  /\ \/ UNCHANGED <<flying, sent>>
     \/ /\ launch[l].pc \in DOMAIN Writes
        /\ flying' = flying \cup {Writes[launch[l].pc]}
        /\ sent' = CASE At(l, "create_A") -> [sent EXCEPT !.create = @ + 1]
                     [] At(l, "cancel_once") -> [sent EXCEPT !.clean = @ + 1]
                     [] OTHER -> sent
  /\ UNCHANGED <<files, record>>

Step(l) ==
  \/ Approve(l) \/ StartRun(l) \/ ReadApproval(l) \/ ClaimApproval(l) \/ Die(l)
  \/ CheckSlot(l) \/ CreateA(l) \/ FindA(l) \/ ExactGetA(l) \/ BoundedListA(l)
  \/ RescheduleB(l) \/ ExactGetB(l) \/ CancelFirst(l) \/ ExactGetDeleted(l)
  \/ BoundedListDeleted(l) \/ CancelRepeat(l) \/ BoundedListFinal(l)
  \/ PreDeleteExact(l) \/ CancelOnce(l) \/ PostDeleteExact(l) \/ PostDeleteList(l)

ControlledNext ==
  \/ \E l \in Programs : Step(l)
  \/ \E write \in {"create", "move", "cancel"} : Arrive(write)

ControlledSpec == ControlledInit /\ [][ControlledNext]_controlledVars

-----------------------------------------------------------------------------
\* Every variable keeps its type.
ControlledTypeOK ==
  /\ files \subseteq {"approval", "consumed", "binding", "cleanup approval", "cleanup consumed"}
  /\ record \in {"none", "A", "B", "deleted"}
  /\ flying \subseteq {"create", "move", "cancel"}
  /\ \A p \in DOMAIN sent : sent[p] \in Nat
  /\ \A l \in Programs : launch[l].holds \subseteq Slots

\* The slots the record is in, or may still come to by a write on its way.
Endangered ==
  (Slots \cap {record})
  \cup (IF "create" \in flying /\ record = "none" THEN {"A"} ELSE {})
  \cup (IF "move" \in flying /\ record = "A" THEN {"B"} ELSE {})

\* A test that reports an end, whatever was lost, names every slot its record
\* is in or may still get into; one approval never books or deletes twice; a
\* write is sent only when no earlier one is on its way; and no report of
\* success, by the test or by the cleanup, leaves a record behind.
HoldsAreHonest ==
  /\ \A l \in Launches :
       launch[l].outcome \notin {"none", "blocked", "dead"} => Endangered \subseteq launch[l].holds
  /\ sent.create <= 1 /\ sent.clean <= 1
  /\ \A l \in Launches : launch[l].pc \in DOMAIN Writes => flying \cap {"create", "move"} = {}
  /\ \A l \in Programs :
       launch[l].outcome \in {"passed", "cancelled_confirmed"} => record = "deleted"
=============================================================================
