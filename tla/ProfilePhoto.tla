------------------------------- MODULE ProfilePhoto -------------------------------
(***************************************************************************)
(* The photo of one player: the page that changes it, the requests that     *)
(* upload or delete it, the pointer and the ledger of assets in the         *)
(* database, and the two renditions of each asset in the object storage.    *)
(* A request may outlive the page's patience, lose the answer of its commit *)
(* or die, and a write to the storage that was given up may land later.     *)
(* An asset is named by the request that uploads it.                        *)
(***************************************************************************)
EXTENDS Integers

CONSTANT Changes   \* how many requests change the photo

ASSUME PhotoAssumption == Changes \in Nat

VARIABLES
  photo,       \* player_profile_photo_states: version (0 without a row), active_asset_id
  assets,      \* player_profile_photo_assets: the generation of each asset, or 0
  objects,     \* the renditions in the storage
  change,      \* the requests to upload or delete
  ownProfile   \* the version shown, the request waited for, the profile that was read

photoVars == <<photo, assets, objects, change, ownProfile>>

ChangeIds == 1..Changes
OldPhoto == 0   \* the asset of the photo before
Assets == {OldPhoto} \cup ChangeIds
Nothing == -1
Renditions(a) == {<<a, "full">>, <<a, "avatar">>}

PhotoInit ==
  /\ \/ /\ photo = [version |-> 0, active |-> Nothing]
        /\ assets = [a \in Assets |-> 0] /\ objects = {}
     \/ /\ photo = [version |-> 1, active |-> OldPhoto]
        /\ assets = [a \in Assets |-> IF a = OldPhoto THEN 1 ELSE 0] /\ objects = Renditions(OldPhoto)
  /\ change = [r \in ChangeIds |-> [pc |-> "unused", version |-> 0, todo |-> {}, answer |-> "none"]]
  /\ ownProfile = [shown |-> photo.version, busy |-> Nothing, read |-> {}, floor |-> photo.version]

ChangeAt(r, pc) == change[r].pc = pc
RecordedAssets == {a \in Assets : assets[a] > 0}

(***************************************************************************)
(* The transactions, each under the advisory lock of the account.           *)
(***************************************************************************)
\* mutants of ToRemove: the latest asset only; the active one with the others
ToRemoveLatest(recorded, kept) ==
  UNION {Renditions(a) : a \in {b \in recorded \ {kept} :
                                \A c \in recorded \ {kept} : assets[c] <= assets[b]}}
ToRemoveAll(recorded, kept) == UNION {Renditions(a) : a \in (recorded \cup {kept}) \ {Nothing}}
\* Every recorded asset but the active one.
ToRemove(recorded, kept) == UNION {Renditions(a) : a \in recorded \ {kept}}

ReadNextGeneration(r) ==
  /\ ChangeAt(r, "upload")
  /\ change' = [change EXCEPT ![r].pc = "put", ![r].version = photo.version + 1]
  /\ UNCHANGED <<photo, assets, objects, ownProfile>>

\* The answer of a commit may be lost: the request then undoes what it uploaded.
Activate(r) ==
  /\ ChangeAt(r, "activate") /\ change[r].version = photo.version + 1
  /\ photo' = [version |-> change[r].version, active |-> r]
  /\ assets' = [assets EXCEPT ![r] = change[r].version]
  /\ \/ change' = [change EXCEPT ![r].pc = "remove", ![r].todo = ToRemove(RecordedAssets \cup {r}, r)]
     \/ change' = [change EXCEPT ![r].pc = "undo", ![r].todo = Renditions(r), ![r].answer = "unheard"]
  /\ UNCHANGED <<objects, ownProfile>>

\* Another change came first, or the transaction fails.
ActivateFails(r) ==
  /\ ChangeAt(r, "activate")
  /\ change' = [change EXCEPT ![r].pc = "undo", ![r].todo = Renditions(r)]
  /\ UNCHANGED <<photo, assets, objects, ownProfile>>

Cleared ==
  IF photo.version = 0 \/ photo.active # Nothing
  THEN [version |-> photo.version + 1, active |-> Nothing] ELSE photo

Clear(r) ==
  /\ ChangeAt(r, "delete")
  /\ photo' = Cleared
  /\ \/ change' = [change EXCEPT ![r].pc = "remove", ![r].version = Cleared.version,
                                 ![r].todo = ToRemove(RecordedAssets, Nothing)]
     \/ change' = [change EXCEPT ![r].pc = "answered", ![r].answer = "failed"]
  /\ UNCHANGED <<assets, objects, ownProfile>>

ClearFails(r) ==
  /\ ChangeAt(r, "delete")
  /\ change' = [change EXCEPT ![r].pc = "answered", ![r].answer = "failed"]
  /\ UNCHANGED <<photo, assets, objects, ownProfile>>

(***************************************************************************)
(* The storage.  Only the request that uploads an asset writes its objects, *)
(* so the two writes are one step; one that is given up may land later.     *)
(***************************************************************************)
PutObjects(r) ==
  /\ ChangeAt(r, "put")
  /\ objects' = objects \cup Renditions(r)
  /\ change' = [change EXCEPT ![r].pc = "activate"]
  /\ UNCHANGED <<photo, assets, ownProfile>>

\* A write fails and the one before it is undone, or not; one that was given up
\* may land later.  What is left belongs to an asset that no row will name.
PutFails(r) ==
  /\ ChangeAt(r, "put")
  /\ \E left \in SUBSET Renditions(r) : objects' = objects \cup left
  /\ change' = [change EXCEPT ![r].pc = "answered", ![r].answer = "failed"]
  /\ UNCHANGED <<photo, assets, ownProfile>>

\* Each object is tried three times; one that is gone may still count as failed.
RemoveObjects(r, gone, allGone) ==
  /\ change[r].pc \in {"remove", "undo"} /\ gone \subseteq change[r].todo \cap objects
  /\ allGone => gone = change[r].todo \cap objects
  /\ objects' = objects \ gone
  /\ change' = [change EXCEPT ![r].pc = "answered", ![r].todo = {},
       ![r].answer = IF @ # "none" THEN @
                     ELSE IF ChangeAt(r, "remove") /\ allGone THEN "done" ELSE "failed"]
  /\ UNCHANGED <<photo, assets, ownProfile>>

(***************************************************************************)
(* The page.                                                                *)
(***************************************************************************)
HasPhoto(version) == version = 0 \/ \E a \in RecordedAssets : assets[a] = version

\* mutant of ReadAfterBegin: the profile that was being read is still heard
ReadAfterBeginHeard == ownProfile.read
\* A profile that was being read when a change begins is not heard any more.
ReadAfterBegin == {}

BeginChange(r, pc) ==
  /\ ownProfile.busy = Nothing
  /\ ChangeAt(r, "unused") /\ \A before \in 1..(r - 1) : ~ChangeAt(before, "unused")
  /\ pc = "delete" => HasPhoto(ownProfile.shown)
  /\ change' = [change EXCEPT ![r].pc = pc]
  /\ ownProfile' = [ownProfile EXCEPT !.busy = r, !.read = ReadAfterBegin, !.floor = photo.version]
  /\ UNCHANGED <<photo, assets, objects>>

ReceiveChange ==
  /\ ownProfile.busy # Nothing /\ ChangeAt(ownProfile.busy, "answered")
  /\ LET c == change[ownProfile.busy] IN
       ownProfile' = [ownProfile EXCEPT !.busy = Nothing,
                        !.shown = IF c.answer = "done" THEN c.version ELSE @]
  /\ UNCHANGED <<photo, assets, objects, change>>

\* The answer is late or does not come; or the profile is saved meanwhile.
GiveUpChange ==
  /\ ownProfile.busy # Nothing /\ ownProfile' = [ownProfile EXCEPT !.busy = Nothing]
  /\ UNCHANGED <<photo, assets, objects, change>>

\* The page is opened, refreshed or saved; it hears the last profile it asked for.
ServeProfile ==
  /\ ownProfile' = [ownProfile EXCEPT !.read = {photo.version}]
  /\ UNCHANGED <<photo, assets, objects, change>>

ReceiveProfile ==
  /\ \E version \in ownProfile.read : ownProfile' = [ownProfile EXCEPT !.read = {}, !.shown = version]
  /\ UNCHANGED <<photo, assets, objects, change>>

\* A process that dies in a request takes no more steps in it.
PhotoNext ==
  \/ \E r \in ChangeIds :
       \/ BeginChange(r, "upload") \/ BeginChange(r, "delete")
       \/ ReadNextGeneration(r) \/ PutObjects(r) \/ PutFails(r)
       \/ Activate(r) \/ ActivateFails(r) \/ Clear(r) \/ ClearFails(r)
       \/ \E gone \in SUBSET change[r].todo, allGone \in BOOLEAN : RemoveObjects(r, gone, allGone)
  \/ ReceiveChange \/ GiveUpChange \/ ServeProfile \/ ReceiveProfile

PhotoSpec == PhotoInit /\ [][PhotoNext]_photoVars

-----------------------------------------------------------------------------
\* Every variable keeps its type.
PhotoTypeOK ==
  /\ photo.version \in Nat /\ photo.active \in Assets \cup {Nothing}
  /\ assets \in [Assets -> Nat] /\ objects \subseteq UNION {Renditions(a) : a \in Assets}
  /\ \A r \in ChangeIds :
       change[r].version \in Nat /\ change[r].answer \in {"none", "unheard", "failed", "done"}
  /\ ownProfile.shown \in Nat /\ ownProfile.busy \in ChangeIds \cup {Nothing}

\* The active photo is the one asset of its version and both its renditions are
\* stored, unless the answer of its commit was lost; a change that was confirmed
\* left nothing of the photos before it; and a page that begins a change never
\* falls back to a profile that is older than that.
PhotoIsTrue ==
  /\ photo.active # Nothing =>
       /\ assets[photo.active] = photo.version
       /\ \/ Renditions(photo.active) \subseteq objects
          \/ photo.active \in ChangeIds /\ change[photo.active].answer = "unheard"
  /\ \A r \in ChangeIds, a \in RecordedAssets :
       change[r].answer = "done" /\ assets[a] < change[r].version => Renditions(a) \cap objects = {}
  /\ \A version \in ownProfile.read : version >= ownProfile.floor
=============================================================================
