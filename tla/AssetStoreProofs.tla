-------------------------- MODULE AssetStoreProofs --------------------------
(***************************************************************************)
(* What AssetStore promises for any assets, contents, holders of           *)
(* references and number of concurrent requests, whatever fails.           *)
(***************************************************************************)
EXTENDS AssetStore, TLAPS

-----------------------------------------------------------------------------
(* Types and the shape of a step of a request.                             *)

LEMMA IdleType == Idle \in RequestState
BY Zenon DEF Idle, RequestState, Stages

LEMMA IdleFields ==
  /\ Idle.stage = "idle" /\ Idle.content = None /\ Idle.targets = {} /\ Idle.moved = {}
  /\ Idle.holder = None /\ Idle.chosen = {}
BY Zenon DEF Idle

\* A step that only changes the stage of a request.
LEMMA GoesShape ==
  ASSUME TypeOK, NEW r \in Request, NEW stage \in Stages, Goes(r, stage)
  PROVE  /\ requests' \in [Request -> RequestState]
         /\ requests'[r].stage = stage
         /\ requests'[r].content = requests[r].content
         /\ requests'[r].targets = requests[r].targets
         /\ requests'[r].moved = requests[r].moved
         /\ requests'[r].holder = requests[r].holder
         /\ requests'[r].chosen = requests[r].chosen
         /\ \A q \in Request \ {r} : requests'[q] = requests[q]
<1>. DEFINE row == [requests[r] EXCEPT !.stage = stage]
<1>0. requests \in [Request -> RequestState]
  BY DEF TypeOK
<1>1. row \in RequestState
  BY <1>0, Zenon DEF RequestState
<1>2. /\ row.stage = stage /\ row.content = requests[r].content /\ row.targets = requests[r].targets
      /\ row.moved = requests[r].moved /\ row.holder = requests[r].holder
      /\ row.chosen = requests[r].chosen
  BY <1>0, Zenon DEF RequestState
<1>3. requests' = [requests EXCEPT ![r] = row]
  BY DEF Goes
<1>. HIDE DEF row
<1>. QED  BY <1>0, <1>1, <1>2, <1>3, Zenon

\* A step that gives a request another state as a whole.
LEMMA BeginsShape ==
  ASSUME TypeOK, NEW r \in Request, NEW state \in RequestState, Begins(r, state)
  PROVE  /\ requests' \in [Request -> RequestState]
         /\ requests'[r] = state
         /\ \A q \in Request \ {r} : requests'[q] = requests[q]
BY Zenon DEF TypeOK, Begins

\* A step that ends a request.
LEMMA FinishShape ==
  ASSUME TypeOK, NEW r \in Request, Finish(r)
  PROVE  /\ requests' \in [Request -> RequestState]
         /\ requests'[r] = Idle
         /\ requests'[r].stage = "idle" /\ requests'[r].targets = {} /\ requests'[r].moved = {}
         /\ \A q \in Request \ {r} : requests'[q] = requests[q]
BY BeginsShape, IdleType, IdleFields DEF Finish

\* A step that only changes what a request has moved.
LEMMA MovedShape ==
  ASSUME TypeOK, NEW r \in Request, NEW M \in SUBSET Asset,
         requests' = [requests EXCEPT ![r].moved = M]
  PROVE  /\ requests' \in [Request -> RequestState]
         /\ requests'[r].stage = requests[r].stage
         /\ requests'[r].content = requests[r].content
         /\ requests'[r].targets = requests[r].targets
         /\ requests'[r].moved = M
         /\ requests'[r].holder = requests[r].holder
         /\ requests'[r].chosen = requests[r].chosen
         /\ \A q \in Request \ {r} : requests'[q] = requests[q]
<1>. DEFINE row == [requests[r] EXCEPT !.moved = M]
<1>0. requests \in [Request -> RequestState]
  BY DEF TypeOK
<1>1. row \in RequestState
  BY <1>0, Zenon DEF RequestState
<1>2. /\ row.moved = M /\ row.content = requests[r].content /\ row.targets = requests[r].targets
      /\ row.stage = requests[r].stage /\ row.holder = requests[r].holder
      /\ row.chosen = requests[r].chosen
  BY <1>0, Zenon DEF RequestState
<1>3. requests' = [requests EXCEPT ![r] = row]
  OBVIOUS
<1>. HIDE DEF row
<1>. QED  BY <1>0, <1>1, <1>2, <1>3, Zenon

LEMMA Fields ==
  ASSUME TypeOK, NEW r \in Request
  PROVE  /\ requests[r].stage \in Stages /\ requests[r].content \in Content \cup {None}
         /\ requests[r].targets \in SUBSET Asset /\ requests[r].moved \in SUBSET Asset
         /\ requests[r].holder \in Holder \cup {None} /\ requests[r].chosen \in SUBSET Asset
BY Zenon DEF TypeOK, RequestState

-----------------------------------------------------------------------------
(* The invariant, by kind of step.                                         *)

\* A step of one request that changes neither rows nor references keeps the parts
\* of the invariant that speak of requests if that request is where it should be.
LEMMA OneRequest ==
  ASSUME IndInv, NEW r \in Request,
         UNCHANGED <<rows, refs>>, issued \subseteq issued', issued' \in SUBSET Asset,
         \A q \in Request \ {r} : requests'[q] = requests[q],
         \A q \in Request \ {r} : Stage(q) = "stored" => requests[q].targets \cap (files \ files') = {},
         \A q \in Request \ {r} : \A a \in Asset : ~(HoldsAsset(r, a)' /\ HoldsAsset(q, a)),
         Uploading(r)' => \A q \in Request \ {r} :
           Uploading(q) => requests'[r].targets \cap requests[q].targets = {},
         RequestOK(r)'
  PROVE  /\ (Live \subseteq issued)' /\ LocksExclusive' /\ UploadsApart' /\ RequestsOK'
         /\ ReferencesHold'
<1>. USE DEF IndInv
<1>0. Live' = Live /\ Referenced' = Referenced
  BY DEF Live, Referenced
<1>1. (Live \subseteq issued)'
  BY <1>0
<1>2. LocksExclusive'
  BY DEF LocksExclusive, HoldsAsset, Stage
<1>3. UploadsApart'
  BY DEF UploadsApart, Uploading, Stage
<1>4. ASSUME NEW q \in Request \ {r} PROVE RequestOK(q)'
  <2>1. RequestOK(q)
    BY DEF RequestsOK
  <2>2. requests[q].stage = "stored" => requests[q].targets \subseteq files'
    BY <2>1 DEF RequestOK, Stage
  <2>. QED  BY <1>0, <2>1, <2>2 DEF RequestOK, Stage, Uploading
<1>5. RequestsOK'
  BY <1>4 DEF RequestsOK
<1>6. ReferencesHold'
  BY <1>0 DEF ReferencesHold
<1>. QED  BY <1>1, <1>2, <1>3, <1>5, <1>6

\* The content of assets with a row is kept by a step that removes neither a public
\* file nor what has been moved, other than by moving it on.
LEMMA KeptStep ==
  ASSUME IndInv, TypeOK', Live' = Live,
         \A a \in Live : a \in files \cup trash => \/ a \in (files \cup trash)'
                                                 \/ \E r \in Request : /\ Stage(r)' \in {"moving", "restoring"}
                                                                       /\ a \in requests'[r].moved,
         \A r \in Request : \A a \in Live :
            Stage(r) \in {"moving", "restoring"} /\ a \in requests[r].moved =>
              \/ a \in (files \cup trash)'
              \/ Stage(r)' \in {"moving", "restoring"} /\ a \in requests'[r].moved
  PROVE  ContentKept'
BY DEF IndInv, ContentKept, Stage

-----------------------------------------------------------------------------
(* Uploads.                                                                *)

LEMMA FindDuplicateStep ==
  ASSUME IndInv, NEW r \in Request, NEW c \in Content, FindDuplicate(r, c)
  PROVE  IndInv'
<1>0. TypeOK /\ c # None
  BY NoneAssumption DEF IndInv
<1>1. CASE \E a \in Asset : rows[a] = c
  <2>1. PICK a \in Asset : Begins(r, [Idle EXCEPT !.stage = "reusing", !.targets = {a}])
    BY <1>1 DEF FindDuplicate
  <2>. DEFINE state == [Idle EXCEPT !.stage = "reusing", !.targets = {a}]
  <2>2. state \in RequestState /\ state.stage = "reusing" /\ state.targets = {a} /\ state.moved = {}
    BY IdleType, Zenon DEF Idle, RequestState, Stages
  <2>. HIDE DEF state
  <2>3. /\ requests' \in [Request -> RequestState] /\ requests'[r] = state
        /\ \A q \in Request \ {r} : requests'[q] = requests[q]
    BY <1>0, <2>1, <2>2, BeginsShape DEF state
  <2>4. UNCHANGED <<rows, issued, files, trash, refs>> /\ requests[r].stage = "idle"
    BY <1>1 DEF FindDuplicate, Stage
  <2>5. TypeOK'
    BY <1>0, <2>3, <2>4 DEF TypeOK
  <2>6. RequestOK(r)'
    BY <2>2, <2>3 DEF RequestOK, Uploading, Stage
  <2>7. /\ (Live \subseteq issued)' /\ LocksExclusive' /\ UploadsApart' /\ RequestsOK'
        /\ ReferencesHold'
    BY <1>0, <2>2, <2>3, <2>4, <2>6, OneRequest DEF HoldsAsset, Uploading, Stage, TypeOK
  <2>8. ContentKept'
    BY <2>3, <2>4, <2>5, KeptStep DEF Live, Stage
  <2>. QED  BY <2>5, <2>7, <2>8 DEF IndInv
<1>2. CASE ~ \E a \in Asset : rows[a] = c
  <2>1. PICK a \in Asset \ issued :
          /\ issued' = issued \cup {a}
          /\ Begins(r, [Idle EXCEPT !.stage = "storing", !.targets = {a}, !.content = c])
    BY <1>2 DEF FindDuplicate
  <2>. DEFINE state == [Idle EXCEPT !.stage = "storing", !.targets = {a}, !.content = c]
  <2>2. /\ state \in RequestState /\ state.stage = "storing" /\ state.targets = {a} /\ state.moved = {}
        /\ state.content = c
    BY IdleType, Zenon DEF Idle, RequestState, Stages
  <2>. HIDE DEF state
  <2>3. /\ requests' \in [Request -> RequestState] /\ requests'[r] = state
        /\ \A q \in Request \ {r} : requests'[q] = requests[q]
    BY <1>0, <2>1, <2>2, BeginsShape DEF state
  <2>4. UNCHANGED <<rows, files, trash, refs>> /\ requests[r].stage = "idle"
    BY <1>2 DEF FindDuplicate, Stage
  <2>5. TypeOK'
    BY <1>0, <2>1, <2>3, <2>4 DEF TypeOK
  <2>6. RequestOK(r)'
    BY <1>0, <2>1, <2>2, <2>3, <2>4 DEF RequestOK, Uploading, Stage, Live, IndInv
  <2>7. \A q \in Request \ {r} : Uploading(q) => requests'[r].targets \cap requests[q].targets = {}
    BY <2>1, <2>2, <2>3 DEF IndInv, RequestsOK, RequestOK
  <2>8. /\ (Live \subseteq issued)' /\ LocksExclusive' /\ UploadsApart' /\ RequestsOK'
        /\ ReferencesHold'
    BY <1>0, <2>1, <2>2, <2>3, <2>4, <2>6, <2>7, OneRequest DEF HoldsAsset, Uploading, Stage, TypeOK
  <2>9. ContentKept'
    BY <2>3, <2>4, <2>5, KeptStep DEF Live, Stage
  <2>. QED  BY <2>5, <2>8, <2>9 DEF IndInv
<1>. QED  BY <1>1, <1>2

LEMMA CheckFileStep ==
  ASSUME IndInv, NEW r \in Request, CheckFile(r)
  PROVE  IndInv'
<1>0. TypeOK
  BY DEF IndInv
<1>1. /\ requests' \in [Request -> RequestState]
      /\ requests'[r].stage \in {"idle", "refilling"}
      /\ requests'[r].moved \subseteq requests'[r].targets
      /\ \A q \in Request \ {r} : requests'[q] = requests[q]
  <2>1. requests[r].moved \subseteq requests[r].targets
    BY DEF IndInv, RequestsOK, RequestOK
  <2>. QED  BY <1>0, <2>1, GoesShape, FinishShape DEF CheckFile, Stages
<1>2. UNCHANGED <<rows, issued, files, trash, refs>> /\ requests[r].stage = "reusing"
  BY DEF CheckFile, Stage
<1>3. TypeOK'
  BY <1>0, <1>1, <1>2 DEF TypeOK
<1>4. RequestOK(r)'
  BY <1>1 DEF RequestOK, Uploading, Stage
<1>5. /\ (Live \subseteq issued)' /\ LocksExclusive' /\ UploadsApart' /\ RequestsOK'
      /\ ReferencesHold'
  BY <1>0, <1>1, <1>2, <1>4, OneRequest DEF HoldsAsset, Uploading, Stage, TypeOK
<1>6. ContentKept'
  BY <1>1, <1>2, <1>3, KeptStep DEF Live, Stage
<1>. QED  BY <1>3, <1>5, <1>6 DEF IndInv

LEMMA RefillStep ==
  ASSUME IndInv, NEW r \in Request, Refill(r)
  PROVE  IndInv'
<1>0. TypeOK
  BY DEF IndInv
<1>1. /\ requests' \in [Request -> RequestState]
      /\ requests'[r].stage = "idle" /\ requests'[r].moved \subseteq requests'[r].targets
      /\ \A q \in Request \ {r} : requests'[q] = requests[q]
  BY <1>0, FinishShape DEF Refill
<1>2. /\ UNCHANGED <<rows, issued, trash, refs>> /\ requests[r].stage = "refilling"
      /\ files \subseteq files' /\ files' \in SUBSET Asset
  BY <1>0, Fields DEF Refill, Stage, TypeOK
<1>3. TypeOK'
  BY <1>0, <1>1, <1>2 DEF TypeOK
<1>4. RequestOK(r)'
  BY <1>1 DEF RequestOK, Uploading, Stage
<1>5. /\ (Live \subseteq issued)' /\ LocksExclusive' /\ UploadsApart' /\ RequestsOK'
      /\ ReferencesHold'
  BY <1>0, <1>1, <1>2, <1>4, OneRequest DEF HoldsAsset, Uploading, Stage, TypeOK
<1>6. ContentKept'
  BY <1>1, <1>2, <1>3, KeptStep DEF Live, Stage
<1>. QED  BY <1>3, <1>5, <1>6 DEF IndInv

LEMMA StoreFileStep ==
  ASSUME IndInv, NEW r \in Request, StoreFile(r)
  PROVE  IndInv'
<1>0. TypeOK /\ RequestOK(r) /\ requests[r].stage = "storing"
  BY DEF IndInv, RequestsOK, StoreFile, Stage
<1>1. /\ requests' \in [Request -> RequestState]
      /\ \/ /\ requests'[r].stage = "stored" /\ files' = files \cup requests[r].targets
            /\ requests'[r].content = requests[r].content
            /\ requests'[r].targets = requests[r].targets
            /\ requests'[r].moved = requests[r].moved
         \/ requests'[r].stage = "idle" /\ requests'[r].moved = {} /\ files' = files
      /\ \A q \in Request \ {r} : requests'[q] = requests[q]
  BY <1>0, GoesShape, FinishShape DEF StoreFile, Stages
<1>2. /\ UNCHANGED <<rows, issued, trash, refs>>
      /\ files \subseteq files' /\ files' \in SUBSET Asset
  BY <1>0, <1>1, Fields DEF StoreFile, TypeOK
<1>3. TypeOK'
  BY <1>0, <1>1, <1>2 DEF TypeOK
<1>4. RequestOK(r)'
  BY <1>0, <1>1, <1>2 DEF RequestOK, Uploading, Stage, Live
<1>5. \A q \in Request \ {r} : Uploading(r)' /\ Uploading(q) => requests'[r].targets \cap requests[q].targets = {}
  BY <1>0, <1>1 DEF IndInv, UploadsApart, Uploading, Stage
<1>6. /\ (Live \subseteq issued)' /\ LocksExclusive' /\ UploadsApart' /\ RequestsOK'
      /\ ReferencesHold'
  BY <1>0, <1>1, <1>2, <1>4, <1>5, OneRequest DEF HoldsAsset, Uploading, Stage, TypeOK
<1>7. ContentKept'
  BY <1>0, <1>1, <1>2, <1>3, KeptStep DEF Live, Stage
<1>. QED  BY <1>3, <1>6, <1>7 DEF IndInv

LEMMA InsertRowStep ==
  ASSUME IndInv, NEW r \in Request, InsertRow(r)
  PROVE  IndInv'
<1>. DEFINE T == requests[r].targets
            c == requests[r].content
<1>0. /\ TypeOK /\ requests[r].stage = "stored"
      /\ T \subseteq issued /\ T \cap Live = {} /\ T \subseteq files /\ c \in Content /\ c # None
  BY Fields DEF IndInv, RequestsOK, RequestOK, InsertRow, Uploading, Stage
<1>1. /\ requests' \in [Request -> RequestState]
      /\ requests'[r].stage = "idle" /\ requests'[r].moved \subseteq requests'[r].targets
      /\ \A q \in Request \ {r} : requests'[q] = requests[q]
  BY <1>0, FinishShape DEF InsertRow
<1>2. /\ UNCHANGED <<issued, files, trash, refs>>
      /\ rows' = [a \in Asset |-> IF a \in T THEN c ELSE rows[a]]
  BY DEF InsertRow
<1>3. TypeOK'
  BY <1>0, <1>1, <1>2 DEF TypeOK
<1>4. Live' = Live \cup T /\ Referenced' = Referenced
  BY <1>0, <1>2, Fields DEF Live, Referenced, TypeOK
<1>. HIDE DEF T, c
<1>5. (Live \subseteq issued)'
  BY <1>0, <1>2, <1>4 DEF IndInv
<1>6. LocksExclusive'
  BY <1>1 DEF IndInv, LocksExclusive, HoldsAsset, Stage
<1>7. UploadsApart'
  BY <1>1 DEF IndInv, UploadsApart, Uploading, Stage
<1>8. ASSUME NEW q \in Request PROVE RequestOK(q)'
  <2>1. CASE q = r
    BY <1>1, <2>1 DEF RequestOK, Uploading, Stage
  <2>2. CASE q # r
    <3>1. RequestOK(q) /\ requests'[q] = requests[q]
      BY <1>1, <2>2 DEF IndInv, RequestsOK
    <3>2. Uploading(q) => requests[q].targets \cap T = {}
      BY <1>0, <2>2 DEF IndInv, UploadsApart, Uploading, Stage, T
    <3>. QED  BY <1>2, <1>4, <3>1, <3>2 DEF RequestOK, Uploading, Stage
  <2>. QED  BY <2>1, <2>2
<1>9. ReferencesHold'
  BY <1>4 DEF IndInv, ReferencesHold
<1>10. ContentKept'
  BY <1>0, <1>1, <1>2, <1>4 DEF IndInv, ContentKept, Stage
<1>. QED  BY <1>3, <1>5, <1>6, <1>7, <1>8, <1>9, <1>10 DEF IndInv, RequestsOK

LEMMA InsertFailsStep ==
  ASSUME IndInv, NEW r \in Request, InsertFails(r)
  PROVE  IndInv'
<1>0. TypeOK /\ RequestOK(r) /\ requests[r].stage = "stored"
  BY DEF IndInv, RequestsOK, InsertFails, Stage
<1>1. /\ requests' \in [Request -> RequestState]
      /\ requests'[r].stage = "clashing"
      /\ requests'[r].content = requests[r].content
      /\ requests'[r].targets = requests[r].targets
      /\ requests'[r].moved = requests[r].moved
      /\ \A q \in Request \ {r} : requests'[q] = requests[q]
  BY <1>0, GoesShape DEF InsertFails, Stages
<1>2. UNCHANGED <<rows, issued, files, trash, refs>>
  BY DEF InsertFails
<1>3. TypeOK'
  BY <1>0, <1>1, <1>2 DEF TypeOK
<1>4. RequestOK(r)'
  BY <1>0, <1>1, <1>2 DEF RequestOK, Uploading, Stage, Live
<1>5. \A q \in Request \ {r} : Uploading(q) => requests'[r].targets \cap requests[q].targets = {}
  BY <1>0, <1>1 DEF IndInv, UploadsApart, Uploading, Stage
<1>6. /\ (Live \subseteq issued)' /\ LocksExclusive' /\ UploadsApart' /\ RequestsOK'
      /\ ReferencesHold'
  BY <1>0, <1>1, <1>2, <1>4, <1>5, OneRequest DEF HoldsAsset, Uploading, Stage, TypeOK
<1>7. ContentKept'
  BY <1>0, <1>1, <1>2, <1>3, KeptStep DEF Live, Stage
<1>. QED  BY <1>3, <1>6, <1>7 DEF IndInv

LEMMA TakeBackStep ==
  ASSUME IndInv, NEW r \in Request, TakeBack(r)
  PROVE  IndInv'
<1>0. TypeOK /\ RequestOK(r) /\ requests[r].stage = "clashing"
  BY DEF IndInv, RequestsOK, TakeBack, Stage
<1>1. /\ requests' \in [Request -> RequestState]
      /\ requests'[r].stage = "idle" /\ requests'[r].moved = {}
      /\ \A q \in Request \ {r} : requests'[q] = requests[q]
  BY <1>0, FinishShape DEF TakeBack
<1>2. /\ UNCHANGED <<rows, issued, refs>>
      /\ files \ files' \subseteq requests[r].targets /\ files' \in SUBSET Asset
      /\ trash \subseteq trash' /\ trash' \in SUBSET Asset
  BY <1>0, Fields DEF TakeBack, TypeOK
<1>3. TypeOK'
  BY <1>0, <1>1, <1>2 DEF TypeOK
<1>4. RequestOK(r)'
  BY <1>1 DEF RequestOK, Uploading, Stage
<1>5. \A q \in Request \ {r} : Stage(q) = "stored" => requests[q].targets \cap (files \ files') = {}
  BY <1>0, <1>2 DEF IndInv, UploadsApart, Uploading, Stage
<1>6. /\ (Live \subseteq issued)' /\ LocksExclusive' /\ UploadsApart' /\ RequestsOK'
      /\ ReferencesHold'
  BY <1>0, <1>1, <1>2, <1>4, <1>5, OneRequest DEF HoldsAsset, Uploading, Stage, TypeOK
<1>7. requests[r].targets \cap Live = {}
  BY <1>0 DEF RequestOK, Uploading, Stage
<1>8. ContentKept'
  BY <1>0, <1>1, <1>2, <1>3, <1>7, KeptStep DEF Live, Stage
<1>. QED  BY <1>3, <1>6, <1>8 DEF IndInv

-----------------------------------------------------------------------------
(* Deletions.                                                              *)

LEMMA LockTargetsStep ==
  ASSUME IndInv, NEW r \in Request, NEW T \in SUBSET Asset, LockTargets(r, T)
  PROVE  IndInv'
<1>0. TypeOK /\ requests[r].stage = "idle"
  BY DEF IndInv, LockTargets, Stage
<1>. DEFINE state == [Idle EXCEPT !.stage = "locked", !.targets = T]
<1>1. state \in RequestState /\ state.stage = "locked" /\ state.targets = T /\ state.moved = {}
  BY IdleType, Zenon DEF Idle, RequestState, Stages
<1>2. Begins(r, state)
  BY DEF LockTargets
<1>. HIDE DEF state
<1>3. /\ requests' \in [Request -> RequestState] /\ requests'[r] = state
      /\ \A q \in Request \ {r} : requests'[q] = requests[q]
  BY <1>0, <1>1, <1>2, BeginsShape
<1>4. /\ UNCHANGED <<rows, issued, files, trash, refs>> /\ T \subseteq Live
      /\ \A q \in Request \ {r} : \A a \in T : ~HoldsAsset(q, a)
  BY DEF LockTargets, AssetFree
<1>5. TypeOK'
  BY <1>0, <1>3, <1>4 DEF TypeOK
<1>6. RequestOK(r)'
  BY <1>1, <1>3, <1>4 DEF RequestOK, Uploading, Stage, Live
<1>7. \A q \in Request \ {r} : \A a \in Asset : ~(HoldsAsset(r, a)' /\ HoldsAsset(q, a))
  BY <1>1, <1>3, <1>4 DEF HoldsAsset, Stage
<1>8. /\ (Live \subseteq issued)' /\ LocksExclusive' /\ UploadsApart' /\ RequestsOK'
      /\ ReferencesHold'
  BY <1>0, <1>1, <1>3, <1>4, <1>6, <1>7, OneRequest DEF Uploading, Stage, TypeOK
<1>9. ContentKept'
  BY <1>0, <1>3, <1>4, <1>5, KeptStep DEF Live, Stage
<1>. QED  BY <1>5, <1>8, <1>9 DEF IndInv

LEMMA CheckReferencesStep ==
  ASSUME IndInv, NEW r \in Request, CheckReferences(r)
  PROVE  IndInv'
<1>0. TypeOK /\ RequestOK(r) /\ requests[r].stage = "locked"
  BY DEF IndInv, RequestsOK, CheckReferences, Stage
<1>1. /\ requests' \in [Request -> RequestState]
      /\ \/ /\ requests'[r].stage = "moving"
            /\ requests[r].targets \cap Referenced = {}
            /\ requests'[r].targets = requests[r].targets
            /\ requests'[r].moved = requests[r].moved
         \/ requests'[r].stage = "idle" /\ requests'[r].moved = {}
      /\ \A q \in Request \ {r} : requests'[q] = requests[q]
  BY <1>0, GoesShape, FinishShape DEF CheckReferences, Unreferenced, Stages
<1>2. UNCHANGED <<rows, issued, files, trash, refs>>
  BY DEF CheckReferences
<1>3. TypeOK'
  BY <1>0, <1>1, <1>2 DEF TypeOK
<1>4. RequestOK(r)'
  BY <1>0, <1>1, <1>2 DEF RequestOK, Uploading, Stage, Live, Referenced
<1>5. \A q \in Request \ {r} : \A a \in Asset : ~(HoldsAsset(r, a)' /\ HoldsAsset(q, a))
  BY <1>0, <1>1 DEF IndInv, LocksExclusive, HoldsAsset, Stage
<1>6. /\ (Live \subseteq issued)' /\ LocksExclusive' /\ UploadsApart' /\ RequestsOK'
      /\ ReferencesHold'
  BY <1>0, <1>1, <1>2, <1>4, <1>5, OneRequest DEF Uploading, Stage, TypeOK
<1>7. ContentKept'
  BY <1>0, <1>1, <1>2, <1>3, KeptStep DEF Live, Stage
<1>. QED  BY <1>3, <1>6, <1>7 DEF IndInv

LEMMA MoveToTrashStep ==
  ASSUME IndInv, NEW r \in Request, NEW a \in Asset, MoveToTrash(r, a)
  PROVE  IndInv'
<1>0. TypeOK /\ RequestOK(r) /\ requests[r].stage = "moving" /\ a \in requests[r].targets
  BY DEF IndInv, RequestsOK, MoveToTrash, Stage
<1>. DEFINE M == requests[r].moved \cup {a}
<1>1. M \in SUBSET Asset /\ requests' = [requests EXCEPT ![r].moved = M]
  BY <1>0, Fields DEF MoveToTrash
<1>2. /\ requests' \in [Request -> RequestState]
      /\ requests'[r].stage = requests[r].stage
      /\ requests'[r].targets = requests[r].targets
      /\ requests'[r].moved = requests[r].moved \cup {a}
      /\ \A q \in Request \ {r} : requests'[q] = requests[q]
  <2>. HIDE DEF M
  <2>1. /\ requests' \in [Request -> RequestState]
        /\ requests'[r].stage = requests[r].stage
        /\ requests'[r].targets = requests[r].targets
        /\ requests'[r].moved = M
        /\ \A q \in Request \ {r} : requests'[q] = requests[q]
    BY <1>0, <1>1, MovedShape
  <2>. QED  BY <2>1 DEF M
<1>3. UNCHANGED <<rows, issued, trash, refs>> /\ files' = files \ {a}
  BY DEF MoveToTrash
<1>4. TypeOK'
  BY <1>0, <1>2, <1>3 DEF TypeOK
<1>5. RequestOK(r)'
  BY <1>0, <1>2, <1>3 DEF RequestOK, Uploading, Stage, Live, Referenced
<1>6. a \in Live
  BY <1>0 DEF RequestOK, Stage
<1>7. \A q \in Request \ {r} : Stage(q) = "stored" => requests[q].targets \cap (files \ files') = {}
  BY <1>3, <1>6 DEF IndInv, RequestsOK, RequestOK, Uploading
<1>8. \A q \in Request \ {r} : \A b \in Asset : ~(HoldsAsset(r, b)' /\ HoldsAsset(q, b))
  BY <1>0, <1>2 DEF IndInv, LocksExclusive, HoldsAsset, Stage
<1>9. /\ (Live \subseteq issued)' /\ LocksExclusive' /\ UploadsApart' /\ RequestsOK'
      /\ ReferencesHold'
  BY <1>0, <1>2, <1>3, <1>5, <1>7, <1>8, OneRequest DEF Uploading, Stage, TypeOK
<1>10. ContentKept'
  BY <1>0, <1>2, <1>3, <1>4, KeptStep DEF Live, Stage
<1>. QED  BY <1>4, <1>9, <1>10 DEF IndInv

\* A deletion whose files or whose commit fail lets go of its rows.
LEMMA GivesUpStep ==
  ASSUME IndInv, NEW r \in Request, MoveFails(r) \/ CommitFails(r)
  PROVE  IndInv'
<1>0. TypeOK /\ RequestOK(r) /\ requests[r].stage = "moving"
  BY DEF IndInv, RequestsOK, MoveFails, CommitFails, Stage
<1>1. /\ requests' \in [Request -> RequestState]
      /\ requests'[r].stage = "restoring"
      /\ requests'[r].targets = requests[r].targets
      /\ requests'[r].moved = requests[r].moved
      /\ \A q \in Request \ {r} : requests'[q] = requests[q]
  BY <1>0, GoesShape DEF MoveFails, CommitFails, Stages
<1>2. UNCHANGED <<rows, issued, files, trash, refs>>
  BY DEF MoveFails, CommitFails
<1>3. TypeOK'
  BY <1>0, <1>1, <1>2 DEF TypeOK
<1>4. RequestOK(r)'
  BY <1>0, <1>1, <1>2 DEF RequestOK, Uploading, Stage
<1>5. /\ (Live \subseteq issued)' /\ LocksExclusive' /\ UploadsApart' /\ RequestsOK'
      /\ ReferencesHold'
  BY <1>0, <1>1, <1>2, <1>4, OneRequest DEF Uploading, Stage, TypeOK, HoldsAsset
<1>6. ContentKept'
  BY <1>0, <1>1, <1>2, <1>3, KeptStep DEF Live, Stage
<1>. QED  BY <1>3, <1>5, <1>6 DEF IndInv

LEMMA CommitDeleteStep ==
  ASSUME IndInv, NEW r \in Request, CommitDelete(r)
  PROVE  IndInv'
<1>. DEFINE T == requests[r].targets
<1>0. /\ TypeOK /\ RequestOK(r) /\ requests[r].stage = "moving" /\ T \subseteq Asset
      /\ T \subseteq Live /\ T \cap Referenced = {}
  BY Fields DEF IndInv, RequestsOK, RequestOK, CommitDelete, Stage
<1>1. /\ requests' \in [Request -> RequestState]
      /\ requests'[r].stage = "purging"
      /\ requests'[r].targets = requests[r].targets
      /\ requests'[r].moved = requests[r].moved
      /\ \A q \in Request \ {r} : requests'[q] = requests[q]
  BY <1>0, GoesShape DEF CommitDelete, Stages
<1>2. /\ UNCHANGED <<issued, files, trash, refs>>
      /\ rows' = [a \in Asset |-> IF a \in T THEN None ELSE rows[a]]
  BY DEF CommitDelete
<1>3. TypeOK'
  BY <1>0, <1>1, <1>2 DEF TypeOK
<1>4. Live' = Live \ T /\ Referenced' = Referenced
  BY <1>0, <1>2 DEF Live, Referenced, TypeOK
<1>5. \A q \in Request \ {r} : \A a \in T : ~HoldsAsset(q, a)
  BY <1>0 DEF IndInv, LocksExclusive, HoldsAsset, Stage
<1>6. requests[r].moved \subseteq T
  BY <1>0 DEF RequestOK
<1>. HIDE DEF T
<1>7. (Live \subseteq issued)'
  BY <1>2, <1>4 DEF IndInv
<1>8. LocksExclusive'
  BY <1>1 DEF IndInv, LocksExclusive, HoldsAsset, Stage
<1>9. UploadsApart'
  BY <1>1 DEF IndInv, UploadsApart, Uploading, Stage
<1>10. ASSUME NEW q \in Request PROVE RequestOK(q)'
  <2>1. CASE q = r
    BY <1>0, <1>1, <2>1 DEF RequestOK, Uploading, Stage
  <2>2. CASE q # r
    <3>1. RequestOK(q) /\ requests'[q] = requests[q] /\ requests[q].targets \subseteq Asset
      BY <1>0, <1>1, <2>2, Fields DEF IndInv, RequestsOK
    <3>2. Stage(q) \in {"locked", "moving", "binding"} => requests[q].targets \cap T = {}
      BY <1>5, <2>2, <3>1 DEF HoldsAsset, Stage
    <3>. QED  BY <1>2, <1>4, <3>1, <3>2 DEF RequestOK, Uploading, Stage
  <2>. QED  BY <2>1, <2>2
<1>11. ReferencesHold'
  BY <1>0, <1>4 DEF IndInv, ReferencesHold
<1>12. ContentKept'
  BY <1>0, <1>1, <1>2, <1>4, <1>6 DEF IndInv, ContentKept, Stage
<1>. QED  BY <1>3, <1>7, <1>8, <1>9, <1>10, <1>11, <1>12 DEF IndInv, RequestsOK

\* A file that has been moved goes back, is purged, or stays behind.
LEMMA FileBackStep ==
  ASSUME IndInv, NEW r \in Request, NEW a \in Asset, Restore(r, a) \/ Purge(r, a)
  PROVE  IndInv'
<1>0. TypeOK /\ RequestOK(r) /\ requests[r].stage \in {"restoring", "purging"}
  BY DEF IndInv, RequestsOK, Restore, Purge, Stage
<1>. DEFINE M == requests[r].moved \ {a}
<1>1. M \in SUBSET Asset /\ requests' = [requests EXCEPT ![r].moved = M]
  BY <1>0, Fields DEF Restore, Purge
<1>2. /\ requests' \in [Request -> RequestState]
      /\ requests'[r].stage = requests[r].stage
      /\ requests'[r].targets = requests[r].targets
      /\ requests'[r].moved = requests[r].moved \ {a}
      /\ \A q \in Request \ {r} : requests'[q] = requests[q]
  <2>. HIDE DEF M
  <2>1. /\ requests' \in [Request -> RequestState]
        /\ requests'[r].stage = requests[r].stage
        /\ requests'[r].targets = requests[r].targets
        /\ requests'[r].moved = M
        /\ \A q \in Request \ {r} : requests'[q] = requests[q]
    BY <1>0, <1>1, MovedShape
  <2>. QED  BY <2>1 DEF M
<1>3. /\ UNCHANGED <<rows, issued, refs>>
      /\ files \subseteq files' /\ files' \in SUBSET Asset
      /\ trash \subseteq trash' /\ trash' \in SUBSET Asset
      /\ requests[r].stage = "restoring" => a \in files' \cup trash'
  BY <1>0 DEF Restore, Purge, TypeOK, Stage
<1>4. TypeOK'
  BY <1>0, <1>2, <1>3 DEF TypeOK
<1>5. RequestOK(r)'
  BY <1>0, <1>2, <1>3 DEF RequestOK, Uploading, Stage
<1>6. /\ (Live \subseteq issued)' /\ LocksExclusive' /\ UploadsApart' /\ RequestsOK'
      /\ ReferencesHold'
  BY <1>0, <1>2, <1>3, <1>5, OneRequest DEF Uploading, Stage, TypeOK, HoldsAsset
<1>7. ContentKept'
  BY <1>0, <1>2, <1>3, <1>4, KeptStep DEF Live, Stage
<1>. QED  BY <1>4, <1>6, <1>7 DEF IndInv

\* A request ends that has nothing in the trash.
LEMMA EndsStep ==
  ASSUME IndInv, NEW r \in Request, EndDelete(r) \/ Abort(r)
  PROVE  IndInv'
<1>0. /\ TypeOK
      /\ \/ requests[r].stage \in {"restoring", "purging"} /\ requests[r].moved = {}
         \/ requests[r].stage \in {"locked", "choosing", "binding"}
  BY DEF IndInv, EndDelete, Abort, Stage
<1>1. /\ requests' \in [Request -> RequestState]
      /\ requests'[r].stage = "idle" /\ requests'[r].moved = {}
      /\ \A q \in Request \ {r} : requests'[q] = requests[q]
  BY <1>0, FinishShape DEF EndDelete, Abort
<1>2. UNCHANGED <<rows, issued, files, trash, refs>>
  BY DEF EndDelete, Abort
<1>3. TypeOK'
  BY <1>0, <1>1, <1>2 DEF TypeOK
<1>4. RequestOK(r)'
  BY <1>1 DEF RequestOK, Uploading, Stage
<1>5. /\ (Live \subseteq issued)' /\ LocksExclusive' /\ UploadsApart' /\ RequestsOK'
      /\ ReferencesHold'
  BY <1>0, <1>1, <1>2, <1>4, OneRequest DEF Uploading, Stage, TypeOK, HoldsAsset
<1>6. ContentKept'
  BY <1>0, <1>1, <1>2, <1>3, KeptStep DEF Live, Stage
<1>. QED  BY <1>3, <1>5, <1>6 DEF IndInv

-----------------------------------------------------------------------------
(* References, and the process.                                            *)

LEMMA ChooseStep ==
  ASSUME IndInv, NEW r \in Request, NEW h \in Holder, NEW A \in SUBSET Asset, Choose(r, h, A)
  PROVE  IndInv'
<1>0. TypeOK /\ requests[r].stage = "idle"
  BY DEF IndInv, Choose, Stage
<1>. DEFINE state == [Idle EXCEPT !.stage = "choosing", !.holder = h, !.chosen = A]
<1>1. /\ state \in RequestState /\ state.stage = "choosing" /\ state.targets = {} /\ state.moved = {}
      /\ state.holder = h
  BY IdleType, Zenon DEF Idle, RequestState, Stages
<1>2. Begins(r, state)
  BY DEF Choose
<1>. HIDE DEF state
<1>3. /\ requests' \in [Request -> RequestState] /\ requests'[r] = state
      /\ \A q \in Request \ {r} : requests'[q] = requests[q]
  BY <1>0, <1>1, <1>2, BeginsShape
<1>4. UNCHANGED <<rows, issued, files, trash, refs>>
  BY DEF Choose
<1>5. TypeOK'
  BY <1>0, <1>3, <1>4 DEF TypeOK
<1>6. RequestOK(r)'
  BY <1>1, <1>3, <1>4 DEF RequestOK, Uploading, Stage
<1>7. /\ (Live \subseteq issued)' /\ LocksExclusive' /\ UploadsApart' /\ RequestsOK'
      /\ ReferencesHold'
  BY <1>0, <1>1, <1>3, <1>4, <1>6, OneRequest DEF Uploading, Stage, TypeOK, HoldsAsset
<1>8. ContentKept'
  BY <1>0, <1>3, <1>4, <1>5, KeptStep DEF Live, Stage
<1>. QED  BY <1>5, <1>7, <1>8 DEF IndInv

LEMMA LockChosenStep ==
  ASSUME IndInv, NEW r \in Request, LockChosen(r)
  PROVE  IndInv'
<1>. DEFINE T == requests[r].chosen \cup (IF requests[r].holder \in Article THEN refs[requests[r].holder] ELSE {})
<1>0. /\ TypeOK /\ RequestOK(r) /\ requests[r].stage = "choosing" /\ requests[r].holder \in Holder
      /\ requests[r].chosen \subseteq T
  BY DEF IndInv, RequestsOK, RequestOK, LockChosen, Stage
<1>1. UNCHANGED <<rows, issued, files, trash, refs>>
  BY DEF LockChosen
<1>2. CASE ~(T \subseteq Live)
  <2>1. /\ requests' \in [Request -> RequestState]
        /\ requests'[r].stage = "idle" /\ requests'[r].moved = {}
        /\ \A q \in Request \ {r} : requests'[q] = requests[q]
    BY <1>0, <1>2, FinishShape DEF LockChosen
  <2>2. TypeOK'
    BY <1>0, <1>1, <2>1 DEF TypeOK
  <2>3. RequestOK(r)'
    BY <2>1 DEF RequestOK, Uploading, Stage
  <2>4. /\ (Live \subseteq issued)' /\ LocksExclusive' /\ UploadsApart' /\ RequestsOK'
        /\ ReferencesHold'
    BY <1>0, <1>1, <2>1, <2>3, OneRequest DEF Uploading, Stage, TypeOK, HoldsAsset
  <2>5. ContentKept'
    BY <1>0, <1>1, <2>1, <2>2, KeptStep DEF Live, Stage
  <2>. QED  BY <2>2, <2>4, <2>5 DEF IndInv
<1>3. CASE T \subseteq Live
  <2>1. AssetFree(r, T) /\ requests' = [requests EXCEPT ![r].stage = "binding", ![r].targets = T]
    BY <1>3 DEF LockChosen
  <2>. HIDE DEF T
  <2>. DEFINE state == [[requests[r] EXCEPT !.stage = "binding"] EXCEPT !.targets = T]
  <2>2. requests[r] \in RequestState /\ requests \in [Request -> RequestState] /\ T \in SUBSET Asset
    BY <1>0, <1>3 DEF TypeOK, Live
  <2>3. state \in RequestState
    BY <2>2, Zenon DEF RequestState, Stages
  <2>4. /\ state.stage = "binding" /\ state.targets = T /\ state.moved = requests[r].moved
        /\ state.chosen = requests[r].chosen /\ state.holder = requests[r].holder
    BY <2>2, Zenon DEF RequestState
  <2>5. Begins(r, state)
    BY <2>1, <2>2, Zenon DEF Begins, RequestState
  <2>. HIDE DEF state
  <2>6. /\ requests' \in [Request -> RequestState] /\ requests'[r] = state
        /\ \A q \in Request \ {r} : requests'[q] = requests[q]
    BY <1>0, <2>3, <2>5, BeginsShape
  <2>7. TypeOK'
    BY <1>0, <1>1, <2>6 DEF TypeOK
  <2>8. requests[r].moved = {}
    BY <1>0 DEF RequestOK, Stage
  <2>9. RequestOK(r)'
    BY <1>0, <1>1, <1>3, <2>4, <2>6, <2>8 DEF RequestOK, Uploading, Stage, Live
  <2>10. \A q \in Request \ {r} : \A a \in Asset : ~(HoldsAsset(r, a)' /\ HoldsAsset(q, a))
    BY <2>1, <2>4, <2>6 DEF AssetFree, HoldsAsset, Stage
  <2>11. /\ (Live \subseteq issued)' /\ LocksExclusive' /\ UploadsApart' /\ RequestsOK'
         /\ ReferencesHold'
    BY <1>0, <1>1, <2>4, <2>6, <2>9, <2>10, OneRequest DEF Uploading, Stage, TypeOK
  <2>12. ContentKept'
    BY <1>0, <1>1, <2>6, <2>7, KeptStep DEF Live, Stage
  <2>. QED  BY <2>7, <2>11, <2>12 DEF IndInv
<1>. QED  BY <1>2, <1>3

LEMMA CommitChosenStep ==
  ASSUME IndInv, NEW r \in Request, CommitChosen(r)
  PROVE  IndInv'
<1>. DEFINE h == requests[r].holder
            C == requests[r].chosen
<1>0. /\ TypeOK /\ requests[r].stage = "binding" /\ h \in Holder /\ C \subseteq Asset
      /\ C \subseteq requests[r].targets /\ requests[r].targets \subseteq Live
  BY Fields DEF IndInv, RequestsOK, RequestOK, CommitChosen, Stage
<1>1. /\ requests' \in [Request -> RequestState]
      /\ requests'[r].stage = "idle" /\ requests'[r].moved = {}
      /\ \A q \in Request \ {r} : requests'[q] = requests[q]
  BY <1>0, FinishShape DEF CommitChosen
<1>2. UNCHANGED <<rows, issued, files, trash>> /\ refs' = [refs EXCEPT ![h] = C]
  BY DEF CommitChosen
<1>3. \A q \in Request \ {r} : \A a \in C : ~HoldsAsset(q, a)
  BY <1>0 DEF IndInv, LocksExclusive, HoldsAsset, Stage
<1>. HIDE DEF h, C
<1>4. TypeOK'
  BY <1>0, <1>1, <1>2 DEF TypeOK
<1>5. Live' = Live /\ Referenced' \subseteq Referenced \cup C
  BY <1>0, <1>2 DEF Live, Referenced, TypeOK
<1>6. (Live \subseteq issued)'
  BY <1>2, <1>5 DEF IndInv
<1>7. LocksExclusive'
  BY <1>1 DEF IndInv, LocksExclusive, HoldsAsset, Stage
<1>8. UploadsApart'
  BY <1>1 DEF IndInv, UploadsApart, Uploading, Stage
<1>9. ASSUME NEW q \in Request PROVE RequestOK(q)'
  <2>1. CASE q = r
    BY <1>1, <2>1 DEF RequestOK, Uploading, Stage
  <2>2. CASE q # r
    <3>1. RequestOK(q) /\ requests'[q] = requests[q] /\ requests[q].targets \subseteq Asset
      BY <1>0, <1>1, <2>2, Fields DEF IndInv, RequestsOK
    <3>2. Stage(q) = "moving" => requests[q].targets \cap C = {}
      BY <1>3, <2>2, <3>1 DEF HoldsAsset, Stage
    <3>. QED  BY <1>2, <1>5, <3>1, <3>2 DEF RequestOK, Uploading, Stage
  <2>. QED  BY <2>1, <2>2
<1>10. ReferencesHold'
  BY <1>0, <1>5 DEF IndInv, ReferencesHold
<1>11. ContentKept'
  BY <1>0, <1>1, <1>2, <1>4, <1>5, KeptStep DEF Stage
<1>. QED  BY <1>4, <1>6, <1>7, <1>8, <1>9, <1>10, <1>11 DEF IndInv, RequestsOK

LEMMA CrashStep == IndInv /\ Crash => IndInv'
<1>. SUFFICES ASSUME IndInv, Crash PROVE IndInv'
  OBVIOUS
<1>0. TypeOK
  BY DEF IndInv
<1>1. /\ requests' \in [Request -> RequestState]
      /\ \A r \in Request : /\ requests'[r].stage = "idle" /\ requests'[r].moved = {}
  BY IdleType, IdleFields DEF Crash
<1>2. /\ UNCHANGED <<rows, issued, files, refs>> /\ trash \subseteq trash'
      /\ \A r \in Request : requests[r].moved \subseteq trash'
  BY DEF Crash
<1>3. trash' \in SUBSET Asset
  <2>1. \A r \in Request : requests[r].moved \subseteq Asset
    BY <1>0, Fields
  <2>. QED  BY <1>0, <2>1 DEF Crash, TypeOK
<1>4. TypeOK'
  BY <1>0, <1>1, <1>2, <1>3 DEF TypeOK
<1>5. (Live \subseteq issued)' /\ ReferencesHold'
  BY <1>2 DEF IndInv, Live, ReferencesHold, Referenced
<1>6. LocksExclusive' /\ UploadsApart' /\ RequestsOK'
  BY <1>1 DEF LocksExclusive, HoldsAsset, UploadsApart, Uploading, RequestsOK, RequestOK, Stage
<1>7. ContentKept'
  BY <1>1, <1>2 DEF IndInv, ContentKept, Live
<1>. QED  BY <1>4, <1>5, <1>6, <1>7 DEF IndInv

-----------------------------------------------------------------------------
(* The theorems.                                                           *)

LEMMA InvInit == Init => IndInv
<1>. SUFFICES ASSUME Init PROVE IndInv
  OBVIOUS
<1>1. \A r \in Request : requests[r].stage = "idle" /\ requests[r].moved = {}
  BY IdleFields DEF Init
<1>2. TypeOK
  BY IdleType DEF Init, TypeOK
<1>3. Live = {} /\ Referenced = {}
  BY DEF Init, Live, Referenced
<1>. QED
  BY <1>1, <1>2, <1>3 DEF IndInv, LocksExclusive, HoldsAsset, UploadsApart, Uploading, RequestsOK,
     RequestOK, Stage, ReferencesHold, ContentKept

LEMMA InvStep == IndInv /\ [Next]_vars => IndInv'
<1>. SUFFICES ASSUME IndInv, [Next]_vars PROVE IndInv'
  OBVIOUS
<1>1. CASE UNCHANGED vars
  BY <1>1 DEF vars, IndInv, TypeOK, Live, LocksExclusive, HoldsAsset, UploadsApart, Uploading,
     RequestsOK, RequestOK, Stage, ReferencesHold, Referenced, ContentKept
<1>2. ASSUME NEW r \in Request, UploadStep(r) PROVE IndInv'
  BY <1>2, FindDuplicateStep, CheckFileStep, RefillStep, StoreFileStep, InsertRowStep,
     InsertFailsStep, TakeBackStep DEF UploadStep
<1>3. ASSUME NEW r \in Request, DeleteStep(r) PROVE IndInv'
  BY <1>3, LockTargetsStep, CheckReferencesStep, MoveToTrashStep, GivesUpStep, CommitDeleteStep,
     FileBackStep, EndsStep DEF DeleteStep
<1>4. ASSUME NEW r \in Request, BindStep(r) PROVE IndInv'
  BY <1>4, ChooseStep, LockChosenStep, CommitChosenStep DEF BindStep
<1>. QED  BY <1>1, <1>2, <1>3, <1>4, EndsStep, CrashStep DEF Next

\* The inductive invariant: locks, stages, rows, references and files.
THEOREM Invariance == Spec => []IndInv
BY InvInit, InvStep, PTL DEF Spec

\* Type correctness of AssetStore.
THEOREM TypeCorrect == Spec => []TypeOK
<1>1. IndInv => TypeOK
  BY DEF IndInv
<1>. QED  BY <1>1, Invariance, PTL

\* No article and no avatar refers to an asset that has been deleted, however
\* bindings (update_avatar, _validate_content) and _delete_many interleave.
THEOREM ReferencesTheorem == Spec => []ReferencesHold
<1>1. IndInv => ReferencesHold
  BY DEF IndInv
<1>. QED  BY <1>1, Invariance, PTL

\* The content of an asset that has a row is on the disk in every state, whatever
\* fails in upload or _delete_many and wherever the process dies.
THEOREM KeptTheorem == Spec => []ContentKept
<1>1. IndInv => ContentKept
  BY DEF IndInv
<1>. QED  BY <1>1, Invariance, PTL

\* A deletion that is under way has moved nothing that is referred to.
THEOREM ServedTheorem == Spec => []ReferencedServed
<1>1. IndInv => ReferencedServed
  <2>. SUFFICES ASSUME IndInv, NEW a \in Referenced, a \notin files \cup trash
                PROVE  \E r \in Request : Stage(r) = "restoring" /\ a \in requests[r].moved
    BY DEF ReferencedServed
  <2>1. a \in Live
    BY DEF IndInv, ReferencesHold
  <2>2. PICK r \in Request : Stage(r) \in {"moving", "restoring"} /\ a \in requests[r].moved
    BY <2>1 DEF IndInv, ContentKept
  <2>3. Stage(r) # "moving"
    BY <2>2 DEF IndInv, RequestsOK, RequestOK
  <2>. QED  BY <2>2, <2>3
<1>. QED  BY <1>1, Invariance, PTL
=============================================================================
