------------------------- MODULE CameraInventoryProofs -------------------------
(***************************************************************************)
(* The desired set of a deployment can be rendered, for any number of      *)
(* cameras, documents and disturbances, provided that no camera operation  *)
(* runs between a commit's reads and its writes (Serialized), which the    *)
(* code does not enforce.  Types are kept without that.                    *)
(***************************************************************************)
EXTENDS CameraInventory, SequenceTheorems, TLAPS

(* The worker reconciles a camera while it is past its view. *)
WorkerInv ==
    worker.pc \in {"create", "stream", "rotate", "enable"}
      => worker.cam \in Cameras

TypeInv == TypeOK /\ WorkerInv

Served(set) ==
    \A c \in DOMAIN set :
        /\ Present(c)
        /\ set[c] # 0 => set[c] \in Active(c)

(* The inductive invariant. *)
ServedInv ==
    /\ desired # 0 => Served(sets[desired])
    /\ txn # None => Served(txn)

-------------------------------------------------------------------------------
(* Sequences that a function of the same domain replaces.                  *)
LEMMA MappedSequence ==
    ASSUME NEW S, NEW n \in Nat, NEW f \in [1..n -> S]
    PROVE  f \in Seq(S) /\ Len(f) = n
  <1>1. f \in Seq(S)
    BY SeqDef
  <1>2. DOMAIN f = 1..n /\ DOMAIN f = 1..Len(f) /\ Len(f) \in Nat
    BY <1>1, LenProperties
  <1> QED
    BY <1>1, <1>2

(* An operation that shortens no camera's versions. *)
VersionsKept ==
    /\ versions' \in [Cameras -> Seq(Version)]
    /\ \A c \in Cameras : Len(versions[c]) <= Len(versions'[c])

(* A set that pins existing versions goes on doing so. *)
LEMMA SetsKept ==
    ASSUME CameraType, VersionsKept
    PROVE  /\ AssignmentSet \subseteq AssignmentSet'
           /\ \A set \in AssignmentSet : PinsExist(set) => PinsExist(set)'
  <1>1. \A c \in Cameras : 0..Len(versions[c]) \subseteq 0..Len(versions'[c])
    BY DEF CameraType, VersionsKept
  <1>2. VersionNumber \subseteq VersionNumber'
    BY <1>1 DEF VersionNumber
  <1>3. AssignmentSet \subseteq AssignmentSet'
    <2> SUFFICES ASSUME NEW used \in SUBSET Cameras,
                        NEW set \in [used -> VersionNumber]
                 PROVE  set \in AssignmentSet'
      BY DEF AssignmentSet
    <2>1. set \in [used -> VersionNumber']
      BY <1>2
    <2> QED
      BY <2>1 DEF AssignmentSet
  <1>4. \A set \in AssignmentSet : DOMAIN set \subseteq Cameras
    BY DEF AssignmentSet
  <1>5. \A set \in AssignmentSet : PinsExist(set) => PinsExist(set)'
    BY <1>1, <1>4 DEF PinsExist
  <1> QED
    BY <1>3, <1>5

LEMMA SequenceSubset ==
    ASSUME NEW S, NEW T, S \subseteq T, NEW s \in Seq(S)
    PROVE  s \in Seq(T)
  <1>1. s \in [1..Len(s) -> S] /\ Len(s) \in Nat
    BY LenProperties, ElementOfSeq
  <1>2. s \in [1..Len(s) -> T]
    BY <1>1
  <1> QED
    BY <1>1, <1>2, SeqDef

(* Operations that leave the assignment sets alone keep their types. *)
LEMMA SetsUntouched ==
    ASSUME CameraType, VersionsKept, UNCHANGED setVars,
           camera' \in [Cameras -> Camera],
           requests' \subseteq Cameras \X Docs
    PROVE  CameraType'
  <1>1. sets' \in Seq(AssignmentSet')
    BY SetsKept, SequenceSubset DEF CameraType, setVars
  <1>2. \A s \in DOMAIN sets : sets[s] \in AssignmentSet
    BY ElementOfSeq, LenProperties DEF CameraType
  <1>3. \A s \in DOMAIN sets' : PinsExist(sets[s])'
    <2> SUFFICES ASSUME NEW s \in DOMAIN sets
                 PROVE  PinsExist(sets[s])'
      BY DEF setVars
    <2>1. PinsExist(sets[s]) /\ sets[s] \in AssignmentSet /\ sets' = sets
      BY <1>2 DEF CameraType, setVars
    <2> QED
      BY <2>1, SetsKept DEF PinsExist
  <1>4. txn' \in AssignmentSet' \cup {None} /\ (txn' # None => PinsExist(txn)')
    <2>1. txn' = txn /\ txn \in AssignmentSet \cup {None}
          /\ (txn # None => PinsExist(txn))
      BY DEF CameraType, setVars
    <2> QED
      BY <2>1, SetsKept DEF PinsExist
  <1> QED
    BY <1>1, <1>3, <1>4 DEF CameraType, VersionsKept, setVars

-------------------------------------------------------------------------------
(* The versions of a camera after one of the operations on credentials.    *)
LEMMA VersionsListed ==
    ASSUME CameraType, NEW c \in Cameras
    PROVE  /\ versions[c] \in Seq(Version)
           /\ Len(versions[c]) \in Nat
           /\ DOMAIN versions[c] = 1..Len(versions[c])
           /\ \A i \in DOMAIN versions[c] : versions[c][i] \in Version
  BY LenProperties, ElementOfSeq DEF CameraType

Superseding(c) ==
    [i \in DOMAIN versions[c] |->
       IF i \in Active(c) THEN [versions[c][i] EXCEPT !.state = "superseded"]
       ELSE versions[c][i]]

First(doc) == [doc |-> doc, state |-> "active", age |-> 0]

(* A rotation keeps the versions of the other cameras.                     *)
LEMMA NewVersionAdded ==
    ASSUME CameraType, NEW c \in Cameras, NEW doc \in Docs, NewVersion(c, doc)
    PROVE  /\ VersionsKept
           /\ \A d \in Cameras \ {c} : versions'[d] = versions[d]
           /\ Len(versions'[c]) = Len(versions[c]) + 1
           /\ versions'[c][Len(versions[c]) + 1].state = "active"
           /\ Len(versions[c]) + 1 \in DOMAIN versions'[c]
  <1> DEFINE n == Len(versions[c])
             old == Superseding(c)
             new == First(doc)
  <1>1. versions' = [versions EXCEPT ![c] = Append(old, new)]
    BY DEF NewVersion, Superseding, First
  <1>2. n \in Nat /\ DOMAIN versions[c] = 1..n
    BY VersionsListed
  <1>3. old \in [1..n -> Version]
    <2> SUFFICES ASSUME NEW i \in 1..n
                 PROVE  old[i] \in Version
      BY <1>2 DEF Superseding
    <2>1. versions[c][i] \in Version
      BY <1>2, VersionsListed
    <2>2. [versions[c][i] EXCEPT !.state = "superseded"] \in Version
      BY <2>1 DEF Version
    <2> QED
      BY <1>2, <2>1, <2>2 DEF Superseding
  <1>4. old \in Seq(Version) /\ Len(old) = n
    BY <1>2, <1>3, MappedSequence
  <1>5. new \in Version
    BY DEF Version, First
  <1>6. /\ Append(old, new) \in Seq(Version)
        /\ Len(Append(old, new)) = n + 1
        /\ Append(old, new)[n + 1] = new
    BY <1>4, <1>5, AppendProperties
  <1>7. versions'[c] = Append(old, new)
        /\ \A d \in Cameras \ {c} : versions'[d] = versions[d]
    BY <1>1 DEF CameraType
  <1>8. versions' \in [Cameras -> Seq(Version)]
    BY <1>1, <1>6 DEF CameraType
  <1>9. \A d \in Cameras : Len(versions[d]) <= Len(versions'[d])
    <2> TAKE d \in Cameras
    <2>1. CASE d = c
      BY <1>2, <1>6, <1>7, <2>1
    <2>2. CASE d # c
      <3>1. Len(versions[d]) \in Nat
        BY VersionsListed
      <3> QED
        BY <1>7, <2>2, <3>1
    <2> QED
      BY <2>1, <2>2
  <1>10. n + 1 \in DOMAIN versions'[c]
    BY <1>2, <1>6, <1>7, LenProperties
  <1>11. versions'[c][n + 1].state = "active"
    BY <1>6, <1>7 DEF First
  <1> HIDE DEF old, new
  <1> QED
    BY <1>6, <1>7, <1>8, <1>9, <1>10, <1>11 DEF VersionsKept

(* A new set with the old ones: what a commit and a requeue do.            *)
LEMMA SetAdded ==
    ASSUME CameraType, VersionsKept, NEW set \in AssignmentSet', PinsExist(set)',
           sets' = Append(sets, set), desired' = Len(sets) + 1,
           UNCHANGED <<applied, syncing>>, txn' = None,
           camera' \in [Cameras -> Camera],
           requests' \subseteq Cameras \X Docs
    PROVE  CameraType' /\ sets'[desired'] = set /\ desired' # 0
  <1>1. sets \in Seq(AssignmentSet')
    BY SetsKept, SequenceSubset DEF CameraType
  <1>2. Len(sets) \in Nat /\ DOMAIN sets = 1..Len(sets)
    BY LenProperties DEF CameraType
  <1>3. /\ sets' \in Seq(AssignmentSet')
        /\ Len(sets') = Len(sets) + 1
        /\ \A s \in 1..Len(sets) : sets'[s] = sets[s]
        /\ sets'[Len(sets) + 1] = set
    BY <1>1, AppendProperties
  <1>4. DOMAIN sets' = 1..Len(sets')
    BY <1>3, LenProperties
  <1>5. \A s \in DOMAIN sets' : PinsExist(sets[s])'
    <2> SUFFICES ASSUME NEW s \in DOMAIN sets'
                 PROVE  PinsExist(sets[s])'
      OBVIOUS
    <2>1. CASE s = Len(sets) + 1
      BY <1>3, <2>1 DEF PinsExist
    <2>2. CASE s # Len(sets) + 1
      <3>1. s \in DOMAIN sets /\ sets'[s] = sets[s]
        BY <1>2, <1>3, <1>4, <2>2
      <3>2. PinsExist(sets[s]) /\ sets[s] \in AssignmentSet
        BY <3>1, ElementOfSeq, LenProperties DEF CameraType
      <3> QED
        BY <3>1, <3>2, SetsKept DEF PinsExist
    <2> QED
      BY <2>1, <2>2
  <1>6. desired' \in 0..Len(sets') /\ applied' \in 0..Len(sets')
        /\ syncing' \in 0..Len(sets')
    BY <1>2, <1>3 DEF CameraType
  <1>7. txn' \in AssignmentSet' \cup {None} /\ (txn' # None => PinsExist(txn)')
    OBVIOUS
  <1> QED
    BY <1>2, <1>3, <1>5, <1>6, <1>7 DEF CameraType, VersionsKept

-------------------------------------------------------------------------------
(* Every set that is kept pins existing versions of known cameras.         *)
LEMMA SetsListed ==
    ASSUME CameraType, NEW s \in DOMAIN sets
    PROVE  /\ sets[s] \in AssignmentSet
           /\ PinsExist(sets[s])
           /\ DOMAIN sets[s] \subseteq Cameras
  <1>1. sets[s] \in AssignmentSet
    BY ElementOfSeq, LenProperties DEF CameraType
  <1> QED
    BY <1>1 DEF AssignmentSet, CameraType

LEMMA DesiredListed ==
    ASSUME CameraType, desired # 0
    PROVE  desired \in DOMAIN sets
  BY LenProperties DEF CameraType

(* A set over some cameras that pins for each of them one of its versions. *)
LEMMA PinnedSet ==
    ASSUME CameraType, NEW used \in SUBSET Cameras, NEW set,
           set = [c \in used |-> set[c]],
           \A c \in used : set[c] \in 0..Len(versions[c])
    PROVE  set \in AssignmentSet /\ PinsExist(set)
  <1>1. \A c \in used : set[c] \in VersionNumber
    BY DEF VersionNumber
  <1>2. set \in [used -> VersionNumber]
    BY <1>1
  <1> QED
    BY <1>2 DEF AssignmentSet, PinsExist

LEMMA ActiveVersionPinned ==
    ASSUME CameraType, NEW c \in Cameras
    PROVE  /\ ActiveVersion(c) \in 0..Len(versions[c])
           /\ ActiveVersion(c) # 0 => ActiveVersion(c) \in Active(c)
  <1>1. Active(c) \subseteq 1..Len(versions[c]) /\ Len(versions[c]) \in Nat
    BY VersionsListed DEF Active
  <1>2. CASE Active(c) = {}
    BY <1>1, <1>2 DEF ActiveVersion
  <1>3. CASE Active(c) # {}
    <2>1. PICK i \in Active(c) : i = ActiveVersion(c)
      BY <1>3 DEF ActiveVersion
    <2> QED
      BY <1>1, <2>1
  <1> QED
    BY <1>2, <1>3

(* A set with the versions that are active now is served.                  *)
LEMMA ActiveSet ==
    ASSUME CameraType, NEW used \in SUBSET Cameras, \A c \in used : Present(c)
    PROVE  /\ [c \in used |-> ActiveVersion(c)] \in AssignmentSet
           /\ PinsExist([c \in used |-> ActiveVersion(c)])
           /\ Served([c \in used |-> ActiveVersion(c)])
  <1> DEFINE set == [c \in used |-> ActiveVersion(c)]
  <1>1. set = [c \in used |-> set[c]]
    OBVIOUS
  <1>2. \A c \in used : /\ set[c] \in 0..Len(versions[c])
                        /\ set[c] # 0 => set[c] \in Active(c)
    BY ActiveVersionPinned
  <1>3. DOMAIN set = used
    OBVIOUS
  <1> HIDE DEF set
  <1>4. set \in AssignmentSet /\ PinsExist(set)
    BY <1>1, <1>2, PinnedSet
  <1>5. Served(set)
    BY <1>2, <1>3 DEF Served
  <1> QED
    BY <1>4, <1>5 DEF set

(* An operation that rewrites versions in their places.                    *)
LEMMA VersionsRewritten ==
    ASSUME CameraType,
           versions' = [c \in Cameras |-> versions'[c]],
           \A c \in Cameras :
               versions'[c] \in [DOMAIN versions[c] -> Version]
    PROVE  /\ VersionsKept
           /\ \A c \in Cameras : DOMAIN versions'[c] = DOMAIN versions[c]
  <1>1. \A c \in Cameras : /\ versions'[c] \in Seq(Version)
                           /\ Len(versions'[c]) = Len(versions[c])
                           /\ Len(versions[c]) \in Nat
    BY VersionsListed, MappedSequence
  <1> QED
    BY <1>1 DEF VersionsKept

(* Operations that keep what a live set needs keep the sets served.        *)
LEMMA ServedKept ==
    ASSUME CameraType, ServedInv, UNCHANGED setVars,
           \A c \in Cameras :
               Present(c) /\ (txn # None \/ c \in Uses(desired))
                 => Present(c)' /\ Active(c) \subseteq Active(c)'
    PROVE  ServedInv'
  <1>1. ASSUME desired # 0
        PROVE  Served(sets[desired])'
    <2>1. Served(sets[desired]) /\ DOMAIN sets[desired] \subseteq Cameras
      BY <1>1, DesiredListed, SetsListed DEF ServedInv
    <2>2. \A c \in DOMAIN sets[desired] : c \in Uses(desired)
      BY <1>1 DEF Uses
    <2>3. sets' = sets /\ desired' = desired
      BY DEF setVars
    <2> QED
      BY <2>1, <2>2, <2>3 DEF Served
  <1>2. ASSUME txn # None
        PROVE  Served(txn)'
    <2>1. Served(txn) /\ DOMAIN txn \subseteq Cameras
      BY <1>2 DEF ServedInv, CameraType, AssignmentSet
    <2>2. txn' = txn
      BY DEF setVars
    <2> QED
      BY <1>2, <2>1, <2>2 DEF Served
  <1> QED
    BY <1>1, <1>2 DEF ServedInv, setVars

-------------------------------------------------------------------------------
(* The operations on cameras and credentials.                              *)
CameraOnly ==
    /\ UNCHANGED <<versions, requests, setVars>>
    /\ camera' \in [Cameras -> Camera]
    /\ \A c \in Cameras : Present(c) => Present(c)'

LEMMA CameraOnlySteps ==
    ASSUME CameraType, NEW c \in Cameras
    PROVE  /\ \A by \in {"operator", "inventory"} :
                  CreateCamera(c, by) => CameraOnly
           /\ \A s \in Streams \cup {None} : ConfigureStream(c, s) => CameraOnly
           /\ \A e \in BOOLEAN : SetCameraEnabled(c, e) => CameraOnly
  <1>1. camera[c] \in Camera /\ camera \in [Cameras -> Camera]
    BY DEF CameraType
  <1>2. ASSUME NEW by \in {"operator", "inventory"}, CreateCamera(c, by)
        PROVE  CameraOnly
    <2>1. camera' = [camera EXCEPT ![c] =
                       [camera[c] EXCEPT !.status = "present", !.creator = by]]
      BY <1>1, <1>2 DEF CreateCamera, Camera
    <2>2. [camera[c] EXCEPT !.status = "present", !.creator = by] \in Camera
      BY <1>1 DEF Camera
    <2> QED
      BY <1>1, <1>2, <2>1, <2>2
      DEF CameraOnly, CreateCamera, Present, Camera, setVars
  <1>3. ASSUME NEW s \in Streams \cup {None}, ConfigureStream(c, s)
        PROVE  CameraOnly
    BY <1>1, <1>3 DEF CameraOnly, ConfigureStream, Present, Camera, setVars
  <1>4. ASSUME NEW e \in BOOLEAN, SetCameraEnabled(c, e)
        PROVE  CameraOnly
    BY <1>1, <1>4 DEF CameraOnly, SetCameraEnabled, Present, Camera, setVars
  <1> QED
    BY <1>2, <1>3, <1>4

LEMMA CameraOnlyKeeps ==
    ASSUME CameraType, CameraOnly
    PROVE  /\ CameraType'
           /\ ServedInv => ServedInv'
  <1>1. VersionsKept
    <2>1. \A c \in Cameras : Len(versions[c]) \in Nat
      BY VersionsListed
    <2> QED
      BY <2>1 DEF VersionsKept, CameraOnly, CameraType
  <1>2. CameraType'
    BY <1>1, SetsUntouched DEF CameraOnly, CameraType
  <1>3. \A c \in Cameras : Active(c)' = Active(c)
    BY DEF CameraOnly, Active
  <1>4. ServedInv => ServedInv'
    BY <1>3, ServedKept DEF CameraOnly
  <1> QED
    BY <1>2, <1>4

(* A rotation pins the new version wherever it supersedes a pinned one.    *)
LEMMA NewVersionKeeps ==
    ASSUME CameraType, NEW c \in Cameras, NEW doc \in Docs, NewVersion(c, doc),
           camera' = camera, requests' \subseteq Cameras \X Docs
    PROVE  /\ CameraType'
           /\ ServedInv /\ txn = None /\ Present(c) => ServedInv'
  <1>0. PICK n \in Nat : n = Len(versions[c])
    BY VersionsListed
  <1>1. /\ VersionsKept
        /\ \A d \in Cameras \ {c} : versions'[d] = versions[d]
        /\ Len(versions'[c]) = n + 1
        /\ n + 1 \in Active(c)'
    BY <1>0, NewVersionAdded DEF Active
  <1>2. camera' \in [Cameras -> Camera]
    BY DEF CameraType
  <1>3. \A d \in Cameras : Present(d)' = Present(d)
    BY DEF Present
  <1>4. \A d \in Cameras \ {c} : Active(d)' = Active(d)
    BY <1>1 DEF Active
  <1>5. CASE Active(c) # {} /\ c \in Uses(desired)
    <2>1. PICK old : old = sets[desired]
      OBVIOUS
    <2>2. txn = None /\ Requeue(desired, c, n + 1)
      BY <1>0, <1>5 DEF NewVersion
    <2>3. /\ desired # 0 /\ c \in DOMAIN old /\ DOMAIN old \subseteq Cameras
          /\ old \in AssignmentSet /\ PinsExist(old)
      BY <1>5, <2>1, DesiredListed, SetsListed DEF Uses
    <2>4. PICK set : set = [old EXCEPT ![c] = n + 1]
      OBVIOUS
    <2>5. PICK used \in SUBSET Cameras : old \in [used -> VersionNumber']
      BY <1>1, <2>3, SetsKept DEF AssignmentSet
    <2>6. DOMAIN set = used /\ DOMAIN old = used /\ set[c] = n + 1
          /\ \A d \in used \ {c} : set[d] = old[d]
      BY <2>3, <2>4, <2>5
    <2>7. set \in AssignmentSet'
      <3>1. n + 1 \in VersionNumber'
        BY <1>1 DEF VersionNumber
      <3>2. set \in [used -> VersionNumber']
        BY <2>4, <2>5, <3>1
      <3> QED
        BY <3>2 DEF AssignmentSet
    <2>8. PinsExist(set)'
      <3>1. PinsExist(old)'
        BY <1>1, <2>3, SetsKept
      <3> QED
        BY <1>1, <2>6, <3>1 DEF PinsExist
    <2>9. sets' = Append(sets, set) /\ desired' = Len(sets) + 1
          /\ UNCHANGED <<applied, syncing, txn>>
      BY <2>1, <2>2, <2>4 DEF Requeue
    <2>10. CameraType' /\ sets'[desired'] = set /\ desired' # 0
      BY <1>1, <1>2, <2>2, <2>7, <2>8, <2>9, SetAdded
    <2>11. ASSUME ServedInv, Present(c)
           PROVE  ServedInv'
      <3>1. Served(old)
        BY <2>1, <2>3, <2>11 DEF ServedInv
      <3>2. Served(set)'
        BY <1>1, <1>3, <1>4, <2>3, <2>6, <2>11, <3>1 DEF Served
      <3> QED
        BY <2>2, <2>9, <2>10, <3>2 DEF ServedInv, Served
    <2> QED
      BY <2>10, <2>11
  <1>6. CASE ~(Active(c) # {} /\ c \in Uses(desired))
    <2>1. UNCHANGED setVars
      BY <1>6 DEF NewVersion
    <2>2. CameraType'
      BY <1>1, <1>2, <2>1, SetsUntouched
    <2>3. ASSUME ServedInv, txn = None
          PROVE  ServedInv'
      <3>1. \A d \in Cameras : Present(d) /\ (txn # None \/ d \in Uses(desired))
                                 => Present(d)' /\ Active(d) \subseteq Active(d)'
        BY <1>3, <1>4, <1>6, <2>3
      <3> QED
        BY <2>1, <2>3, <3>1, ServedKept
    <2> QED
      BY <2>2, <2>3
  <1> QED
    BY <1>5, <1>6

-------------------------------------------------------------------------------
(* Destroying material and the passing of time rewrite versions in place.  *)
LEMMA DestroyedTyped ==
    ASSUME CameraType, NEW c \in Cameras, NEW chosen
    PROVE  Destroyed(c, chosen) \in [DOMAIN versions[c] -> Version]
  <1> SUFFICES ASSUME NEW i \in DOMAIN versions[c]
               PROVE  Destroyed(c, chosen)[i] \in Version
    BY DEF Destroyed
  <1>1. versions[c][i] \in Version
    BY VersionsListed
  <1>2. [versions[c][i] EXCEPT !.state = "revoked"] \in Version
    BY <1>1 DEF Version
  <1> QED
    BY <1>1, <1>2 DEF Destroyed

(* Material is destroyed only when no desired set has the camera.          *)
LEMMA DestroyCredentialsKeeps ==
    ASSUME CameraType, NEW c \in Cameras,
           NEW status \in {"present", "deleted"},
           DestroyCredentials(c, status)
    PROVE  /\ CameraType'
           /\ ServedInv /\ txn = None => ServedInv'
  <1>1. /\ versions' = [versions EXCEPT ![c] =
                          Destroyed(c, DOMAIN versions[c])]
        /\ UNCHANGED <<requests, setVars>>
        /\ ~InUse(c)
    BY DEF DestroyCredentials, CameraType
  <1>2. camera' \in [Cameras -> Camera]
        /\ \A d \in Cameras \ {c} : camera'[d] = camera[d]
    <2>1. camera[c] \in Camera
      BY DEF CameraType
    <2>2. camera' = [camera EXCEPT ![c] =
                       [camera[c] EXCEPT !.status = status, !.enabled = FALSE]]
      BY <2>1 DEF DestroyCredentials, CameraType, Camera
    <2>3. [camera[c] EXCEPT !.status = status, !.enabled = FALSE] \in Camera
      BY <2>1 DEF Camera
    <2> QED
      BY <2>2, <2>3 DEF CameraType
  <1>3. \A d \in Cameras \ {c} : versions'[d] = versions[d]
    BY <1>1 DEF CameraType
  <1>4. \A d \in Cameras : versions'[d] \in [DOMAIN versions[d] -> Version]
    <2> TAKE d \in Cameras
    <2>1. CASE d = c
      BY <1>1, <2>1, DestroyedTyped DEF CameraType
    <2>2. CASE d # c
      <3>1. versions[d] \in [DOMAIN versions[d] -> Version]
        BY VersionsListed, ElementOfSeq
      <3> QED
        BY <1>3, <2>2, <3>1
    <2> QED
      BY <2>1, <2>2
  <1>5. versions' = [d \in Cameras |-> versions'[d]]
    BY <1>1 DEF CameraType
  <1>6. VersionsKept
    BY <1>4, <1>5, VersionsRewritten
  <1>7. CameraType'
    BY <1>1, <1>2, <1>6, SetsUntouched DEF CameraType
  <1>8. ASSUME ServedInv, txn = None
        PROVE  ServedInv'
    <2>1. \A d \in Cameras : Present(d) /\ (txn # None \/ d \in Uses(desired))
                               => Present(d)' /\ Active(d) \subseteq Active(d)'
      BY <1>1, <1>2, <1>3, <1>8 DEF InUse, Present, Active
    <2> QED
      BY <1>1, <1>8, <2>1, ServedKept
  <1> QED
    BY <1>7, <1>8

(* A pass over all cameras that leaves the active versions as they are.    *)
LEMMA ActiveRewritten ==
    ASSUME CameraType, UNCHANGED <<camera, setVars>>,
           requests' \subseteq Cameras \X Docs,
           versions' = [c \in Cameras |-> versions'[c]],
           \A c \in Cameras :
               versions'[c] \in [DOMAIN versions[c] -> Version],
           \A c \in Cameras : \A i \in Active(c) :
               versions'[c][i] = versions[c][i]
    PROVE  /\ CameraType'
           /\ ServedInv => ServedInv'
  <1>1. VersionsKept /\ \A c \in Cameras : DOMAIN versions'[c] = DOMAIN versions[c]
    BY VersionsRewritten
  <1>2. CameraType'
    BY <1>1, SetsUntouched DEF CameraType
  <1>3. \A c \in Cameras : Active(c) \subseteq Active(c)'
    BY <1>1 DEF Active
  <1>4. ServedInv => ServedInv'
    BY <1>3, ServedKept DEF Present
  <1> QED
    BY <1>2, <1>4

LEMMA TimePassesKeeps ==
    ASSUME CameraType, TimePasses
    PROVE  /\ CameraType'
           /\ ServedInv => ServedInv'
  <1>1. versions' = [c \in Cameras |-> versions'[c]]
    BY DEF TimePasses
  <1>2. \A c \in Cameras : versions'[c] =
          [i \in DOMAIN versions[c] |->
             IF versions[c][i].state = "superseded" /\ versions[c][i].age < 2
               THEN [versions[c][i] EXCEPT !.age = versions[c][i].age + 1]
               ELSE versions[c][i]]
    BY DEF TimePasses
  <1>3. \A c \in Cameras : versions'[c] \in [DOMAIN versions[c] -> Version]
    <2> TAKE c \in Cameras
    <2> SUFFICES ASSUME NEW i \in DOMAIN versions[c]
                 PROVE  versions'[c][i] \in Version
      BY <1>2
    <2>1. versions[c][i] \in Version
      BY VersionsListed
    <2>2. ASSUME versions[c][i].age < 2
          PROVE  [versions[c][i] EXCEPT !.age = versions[c][i].age + 1] \in Version
      <3>1. versions[c][i].age + 1 \in 0..2
        BY <2>1, <2>2 DEF Version
      <3> QED
        BY <2>1, <3>1 DEF Version
    <2>3. versions'[c][i] =
            IF versions[c][i].state = "superseded" /\ versions[c][i].age < 2
              THEN [versions[c][i] EXCEPT !.age = versions[c][i].age + 1]
              ELSE versions[c][i]
      BY <1>2
    <2>4. CASE versions[c][i].state = "superseded" /\ versions[c][i].age < 2
      BY <2>2, <2>3, <2>4
    <2>5. CASE ~(versions[c][i].state = "superseded" /\ versions[c][i].age < 2)
      BY <2>1, <2>3, <2>5
    <2> QED
      BY <2>4, <2>5
  <1>4. ASSUME NEW c \in Cameras, NEW i \in Active(c)
        PROVE  versions'[c][i] = versions[c][i]
    <2>1. i \in DOMAIN versions[c] /\ versions[c][i].state = "active"
      BY DEF Active
    <2>2. versions[c][i].state # "superseded"
      BY <2>1
    <2>3. versions'[c][i] =
            IF versions[c][i].state = "superseded" /\ versions[c][i].age < 2
              THEN [versions[c][i] EXCEPT !.age = versions[c][i].age + 1]
              ELSE versions[c][i]
      BY <1>2, <2>1
    <2> QED
      BY <2>2, <2>3
  <1> QED
    BY <1>1, <1>3, <1>4, ActiveRewritten DEF TimePasses, CameraType

LEMMA ApplyRetentionKeeps ==
    ASSUME CameraType, NEW forgotten, ApplyRetention(forgotten)
    PROVE  /\ CameraType'
           /\ ServedInv => ServedInv'
  <1>1. versions' = [c \in Cameras |-> versions'[c]]
    BY DEF ApplyRetention
  <1>2. \A c \in Cameras : versions'[c] =
          Destroyed(c, {i \in DOMAIN versions[c] : Expired(c, i)})
    BY DEF ApplyRetention
  <1>3. \A c \in Cameras : versions'[c] \in [DOMAIN versions[c] -> Version]
    BY <1>2, DestroyedTyped
  <1>4. \A c \in Cameras : \A i \in Active(c) : versions'[c][i] = versions[c][i]
    BY <1>2 DEF Active, Destroyed, Expired
  <1>5. requests' \subseteq Cameras \X Docs /\ UNCHANGED <<camera, setVars>>
    BY DEF ApplyRetention, CameraType
  <1> QED
    BY <1>1, <1>3, <1>4, <1>5, ActiveRewritten

-------------------------------------------------------------------------------
(* Commits and the synchronizer.                                           *)
LEMMA CameraTypeUnprimed ==
    ASSUME CameraType, UNCHANGED cameraVars, UNCHANGED sets,
           desired' \in 0..Len(sets), applied' \in 0..Len(sets),
           syncing' \in 0..Len(sets),
           txn' \in AssignmentSet \cup {None},
           \/ txn' = None
           \/ txn' \in AssignmentSet
              /\ \A c \in DOMAIN txn' : txn'[c] \in 0..Len(versions[c])
    PROVE  CameraType'
  <1>1. versions' = versions /\ camera' = camera /\ requests' = requests
        /\ sets' = sets
    BY DEF cameraVars
  <1>2. AssignmentSet' = AssignmentSet
    BY <1>1 DEF AssignmentSet, VersionNumber
  <1>3. \A s \in DOMAIN sets' : PinsExist(sets[s])'
    BY <1>1 DEF CameraType, PinsExist
  <1>4. txn' # None => PinsExist(txn)'
    BY <1>1 DEF PinsExist
  <1> QED
    BY <1>1, <1>2, <1>3, <1>4 DEF CameraType

LEMMA OpenCommitKeeps ==
    ASSUME CameraType, NEW set \in AssignmentSet, PinsExist(set),
           OpenCommit(set)
    PROVE  /\ CameraType'
           /\ ServedInv /\ Served(set) => ServedInv'
  <1>1. UNCHANGED cameraVars /\ UNCHANGED <<sets, desired, applied, syncing>>
        /\ txn' = set
    BY DEF OpenCommit
  <1>2. CameraType'
    BY <1>1, CameraTypeUnprimed DEF PinsExist, CameraType
  <1>3. ServedInv /\ Served(set) => ServedInv'
    BY <1>1 DEF ServedInv, Served, Present, Active, cameraVars
  <1> QED
    BY <1>2, <1>3

LEMMA CommitKeeps ==
    ASSUME CameraType, Commit
    PROVE  /\ CameraType'
           /\ ServedInv => ServedInv'
  <1>1. CASE CommitDeployment
    <2>1. PICK used \in SUBSET Cameras :
            /\ \A c \in used : Present(c)
            /\ OpenCommit([c \in used |-> ActiveVersion(c)])
      BY <1>1 DEF CommitDeployment
    <2> QED
      BY <2>1, ActiveSet, OpenCommitKeeps
  <1>2. CASE Rollback
    <2>1. PICK s \in DOMAIN sets :
            /\ \A c \in Uses(s) : Present(c)
            /\ OpenCommit([c \in Uses(s) |-> ActiveVersion(c)])
      BY <1>2 DEF Rollback
    <2>2. Uses(s) \in SUBSET Cameras
      BY SetsListed DEF Uses
    <2> QED
      BY <2>1, <2>2, ActiveSet, OpenCommitKeeps
  <1>3. CASE CloneDesired
    <2>1. desired # 0 /\ OpenCommit(sets[desired])
      BY <1>3 DEF CloneDesired
    <2>2. sets[desired] \in AssignmentSet /\ PinsExist(sets[desired])
      BY <2>1, DesiredListed, SetsListed
    <2> QED
      BY <2>1, <2>2, OpenCommitKeeps DEF ServedInv
  <1> QED
    BY <1>1, <1>2, <1>3 DEF Commit

LEMMA FinishCommitKeeps ==
    ASSUME CameraType, FinishCommit
    PROVE  /\ CameraType'
           /\ ServedInv => ServedInv'
  <1>1. PICK set : set = txn
    OBVIOUS
  <1>2. /\ UNCHANGED cameraVars /\ UNCHANGED <<applied, syncing>>
        /\ sets' = Append(sets, set) /\ desired' = Len(sets) + 1
        /\ txn' = None
        /\ txn # None
    BY <1>1 DEF FinishCommit
  <1>3. VersionsKept
    <2>1. \A c \in Cameras : Len(versions[c]) \in Nat
      BY VersionsListed
    <2> QED
      BY <1>2, <2>1 DEF VersionsKept, CameraType, cameraVars
  <1>4. set \in AssignmentSet' /\ PinsExist(set)'
    BY <1>1, <1>2, <1>3, SetsKept DEF CameraType
  <1>5. CameraType' /\ sets'[desired'] = set
    BY <1>2, <1>3, <1>4, SetAdded DEF CameraType, cameraVars
  <1>6. ServedInv => Served(set)'
    BY <1>1, <1>2 DEF ServedInv, Served, Present, Active, cameraVars
  <1>7. ServedInv => ServedInv'
    BY <1>2, <1>5, <1>6 DEF ServedInv, Served
  <1> QED
    BY <1>5, <1>7

LEMMA SyncKeeps ==
    ASSUME CameraType, StartSync \/ FinishSync
    PROVE  /\ CameraType'
           /\ ServedInv => ServedInv'
  <1>1. UNCHANGED cameraVars /\ UNCHANGED <<sets, desired, txn>>
        /\ applied' \in 0..Len(sets) /\ syncing' \in 0..Len(sets)
    BY LenProperties DEF StartSync, FinishSync, CameraType, cameraVars
  <1>2. CameraType'
    BY <1>1, CameraTypeUnprimed DEF CameraType, PinsExist
  <1>3. ServedInv => ServedInv'
    BY <1>1 DEF ServedInv, Served, Present, Active, cameraVars
  <1> QED
    BY <1>2, <1>3

-------------------------------------------------------------------------------
(* What each step does to the cameras, the versions and the sets.          *)
Kept ==
    /\ CameraType'
    /\ Serialized /\ ServedInv => ServedInv'

LEMMA UntouchedKept ==
    ASSUME CameraType, UNCHANGED <<cameraVars, setVars>>
    PROVE  Kept
  <1>1. CameraOnly
    BY DEF CameraOnly, CameraType, cameraVars, Present
  <1> QED
    BY <1>1, CameraOnlyKeeps DEF Kept

LEMMA CreateKept ==
    ASSUME CameraType, NEW c \in Cameras, NEW by \in {"operator", "inventory"},
           CreateCamera(c, by)
    PROVE  Kept
  BY CameraOnlySteps, CameraOnlyKeeps DEF Kept

LEMMA ConfigureKept ==
    ASSUME CameraType, NEW c \in Cameras, NEW s \in Streams \cup {None},
           ConfigureStream(c, s)
    PROVE  Kept
  BY CameraOnlySteps, CameraOnlyKeeps DEF Kept

LEMMA EnabledKept ==
    ASSUME CameraType, NEW c \in Cameras, NEW e \in BOOLEAN,
           SetCameraEnabled(c, e)
    PROVE  Kept
  BY CameraOnlySteps, CameraOnlyKeeps DEF Kept

LEMMA RotateKept ==
    ASSUME CameraType, NEW c \in Cameras, NEW doc \in Docs, NoOpenCommit,
           Present(c), NewVersion(c, doc), camera' = camera,
           requests' \subseteq Cameras \X Docs
    PROVE  Kept
  BY NewVersionKeeps DEF Kept, NoOpenCommit

LEMMA DestroyKept ==
    ASSUME CameraType, NEW c \in Cameras, NEW status \in {"present", "deleted"},
           DestroyCredentials(c, status)
    PROVE  Kept
  <1>1. NoOpenCommit
    BY DEF DestroyCredentials
  <1> QED
    BY <1>1, DestroyCredentialsKeeps DEF Kept, NoOpenCommit

LEMMA OperatorKept ==
    ASSUME CameraType, Operator
    PROVE  Kept
  <1>1. PICK c \in Cameras :
          \/ CreateCamera(c, "operator")
          \/ \E s \in Streams : ConfigureStream(c, s)
          \/ \E doc \in Docs : RotateCredentials(c, doc)
          \/ \E enabled \in BOOLEAN : SetCameraEnabled(c, enabled)
          \/ DeleteCamera(c)
          \/ ClearCredentials(c)
    BY DEF Operator
  <1>2. CASE CreateCamera(c, "operator")
    BY <1>2, CreateKept
  <1>3. CASE \E s \in Streams : ConfigureStream(c, s)
    BY <1>3, ConfigureKept
  <1>4. CASE \E doc \in Docs : RotateCredentials(c, doc)
    BY <1>4, RotateKept DEF RotateCredentials, CameraType
  <1>5. CASE \E enabled \in BOOLEAN : SetCameraEnabled(c, enabled)
    BY <1>5, EnabledKept
  <1>6. CASE DeleteCamera(c)
    BY <1>6, DestroyKept DEF DeleteCamera
  <1>7. CASE ClearCredentials(c)
    BY <1>7, DestroyKept DEF ClearCredentials
  <1> QED
    BY <1>1, <1>2, <1>3, <1>4, <1>5, <1>6, <1>7

-------------------------------------------------------------------------------
(* The worker's own state.                                                 *)
LEMMA IdleTyped ==
    Idle \in Worker /\ Idle.pc = "idle"
  BY DEF Idle, Worker, Entry, Without

LEMMA SeenTyped ==
    ASSUME TypeInv, worker.pc \in {"create", "stream", "rotate", "enable"}
    PROVE  worker.cam \in Cameras /\ Seen \in Entry
  BY DEF TypeInv, WorkerInv, TypeOK, Worker, Seen

LEMMA GoToTyped ==
    ASSUME TypeInv, worker.pc \in {"create", "stream", "rotate", "enable"},
           NEW pc \in {"view", "stream", "rotate", "enable"}, GoTo(pc)
    PROVE  worker' \in Worker /\ WorkerInv'
  <1>1. worker \in Worker /\ worker.cam \in Cameras
    BY SeenTyped DEF TypeInv, TypeOK
  <1>2. worker' = [worker EXCEPT !.pc = pc]
    BY DEF GoTo
  <1>3. worker' \in Worker /\ worker'.cam = worker.cam
    BY <1>1, <1>2 DEF Worker
  <1> QED
    BY <1>1, <1>3 DEF WorkerInv

(* A typed worker at rest, with the other variables typed as well.         *)
LEMMA StepTyped ==
    ASSUME TypeInv, CameraType', worker' \in Worker, WorkerInv',
           UNCHANGED <<inventory, disturbed>>
    PROVE  TypeInv'
  BY DEF TypeInv, TypeOK

LEMMA IdleInv ==
    ASSUME worker' = Idle
    PROVE  worker' \in Worker /\ WorkerInv'
  BY IdleTyped DEF WorkerInv

LEMMA ReadInventoryKept ==
    ASSUME TypeInv, ReadInventory
    PROVE  TypeInv' /\ Kept
  <1>1. UNCHANGED <<cameraVars, setVars>> /\ inventory' = inventory
    BY DEF ReadInventory
  <1>2. Kept
    BY <1>1, UntouchedKept DEF TypeInv, TypeOK
  <1>3. PICK seen \in Readings :
          /\ disturbed' = IF seen = inventory THEN disturbed ELSE disturbed + 1
          /\ disturbed' <= MaxDisturbances
          /\ worker' = [Idle EXCEPT !.pc = "view", !.seen = seen,
                          !.todo = {c \in Cameras : Listed(c, seen)}]
    BY DEF ReadInventory
  <1>4. seen \in [Cameras -> Entry]
    BY DEF Readings, TypeInv, TypeOK, Entry, Without
  <1>5. worker' \in Worker /\ worker'.pc = "view"
    BY <1>3, <1>4, IdleTyped DEF Worker
  <1>6. disturbed' \in 0..MaxDisturbances
    BY <1>3, InventoryAssumption DEF TypeInv, TypeOK
  <1>7. WorkerInv'
    BY <1>5 DEF WorkerInv
  <1> QED
    BY <1>1, <1>2, <1>5, <1>6, <1>7 DEF TypeInv, TypeOK, Kept

LEMMA ViewKept ==
    ASSUME TypeInv, View
    PROVE  TypeInv' /\ Kept
  <1>1. UNCHANGED <<cameraVars, setVars, inventory, disturbed>>
    BY DEF View
  <1>2. Kept
    BY <1>1, UntouchedKept DEF TypeInv, TypeOK
  <1>3. PICK c \in worker.todo :
          worker' = [worker EXCEPT !.todo = worker.todo \ {c}, !.cam = c,
                      !.pc = IF Present(c) THEN "stream" ELSE "create",
                      !.enabled = Present(c) /\ camera[c].enabled,
                      !.stream = IF Present(c) THEN camera[c].stream ELSE None]
    BY DEF View
  <1>4. c \in Cameras /\ worker \in Worker
    BY DEF TypeInv, TypeOK, Worker
  <1>5. PICK pc \in {"stream", "create"} :
          pc = IF Present(c) THEN "stream" ELSE "create"
    OBVIOUS
  <1>6. PICK stream \in Streams \cup {None} :
          stream = IF Present(c) THEN camera[c].stream ELSE None
    BY <1>4 DEF TypeInv, TypeOK, CameraType, Camera
  <1>7. PICK enabled \in BOOLEAN :
          enabled = (Present(c) /\ camera[c].enabled)
    BY Zenon
  <1>8. worker' = [worker EXCEPT !.todo = worker.todo \ {c}, !.cam = c,
                      !.pc = pc, !.enabled = enabled, !.stream = stream]
    BY <1>3, <1>5, <1>6, <1>7
  <1>9. worker' \in Worker /\ worker'.cam \in Cameras
    BY <1>4, <1>8 DEF Worker
  <1> QED
    BY <1>1, <1>2, <1>9, StepTyped DEF Kept, WorkerInv

LEMMA CreateStepKept ==
    ASSUME TypeInv, Create
    PROVE  TypeInv' /\ Kept
  <1>1. worker.pc = "create" /\ worker.cam \in Cameras
        /\ UNCHANGED <<inventory, disturbed>> /\ CameraType
    BY SeenTyped DEF Create, TypeInv, TypeOK
  <1>2. CASE CreateCamera(worker.cam, "inventory") /\ GoTo("stream")
    BY <1>1, <1>2, CreateKept, GoToTyped, StepTyped DEF Kept
  <1>3. CASE worker' = Idle /\ UNCHANGED <<cameraVars, setVars>>
    BY <1>1, <1>3, UntouchedKept, IdleInv, StepTyped DEF Kept
  <1> QED
    BY <1>2, <1>3 DEF Create

LEMMA StreamStepKept ==
    ASSUME TypeInv, Stream
    PROVE  TypeInv' /\ Kept
  <1>1. worker.pc = "stream" /\ worker.cam \in Cameras /\ Seen \in Entry
        /\ UNCHANGED <<inventory, disturbed>> /\ CameraType
    BY SeenTyped DEF Stream, TypeInv, TypeOK
  <1>2. CASE ConfigureStream(worker.cam, Seen.stream) /\ GoTo("rotate")
    <2>1. Seen.stream \in Streams \cup {None}
      BY <1>1 DEF Entry
    <2>2. Kept
      BY <1>1, <1>2, <2>1, ConfigureKept
    <2> QED
      BY <1>1, <1>2, <2>2, GoToTyped, StepTyped DEF Kept
  <1>3. CASE /\ \/ GoTo("rotate")
                \/ GoTo("view")
             /\ UNCHANGED <<cameraVars, setVars>>
    BY <1>1, <1>3, UntouchedKept, GoToTyped, StepTyped DEF Kept
  <1> QED
    BY <1>2, <1>3 DEF Stream

LEMMA RotateStepKept ==
    ASSUME TypeInv, Rotate
    PROVE  TypeInv' /\ Kept
  <1>1. worker.pc = "rotate" /\ worker.cam \in Cameras /\ Seen \in Entry
        /\ UNCHANGED <<inventory, disturbed>> /\ CameraType
    BY SeenTyped DEF Rotate, TypeInv, TypeOK
  <1>2. CASE /\ Seen.doc # None
             /\ NoOpenCommit
             /\ Present(worker.cam)
             /\ NewVersion(worker.cam, Seen.doc)
             /\ requests' = requests \cup {<<worker.cam, Seen.doc>>}
             /\ GoTo("enable")
             /\ UNCHANGED camera
    <2>1. Seen.doc \in Docs
      BY <1>1, <1>2 DEF Entry
    <2>2. requests' \subseteq Cameras \X Docs
      BY <1>1, <1>2, <2>1 DEF CameraType
    <2>3. Kept
      BY <1>1, <1>2, <2>1, <2>2, RotateKept
    <2> QED
      BY <1>1, <1>2, <2>3, GoToTyped, StepTyped DEF Kept
  <1>3. CASE /\ \/ GoTo("view")
                \/ GoTo("enable")
             /\ UNCHANGED <<cameraVars, setVars>>
    BY <1>1, <1>3, UntouchedKept, GoToTyped, StepTyped DEF Kept
  <1> QED
    BY <1>2, <1>3 DEF Rotate

LEMMA EnableStepKept ==
    ASSUME TypeInv, Enable
    PROVE  TypeInv' /\ Kept
  <1>1. worker.pc = "enable" /\ worker.cam \in Cameras /\ GoTo("view")
        /\ UNCHANGED <<inventory, disturbed>> /\ CameraType
    BY SeenTyped DEF Enable, TypeInv, TypeOK
  <1>2. Kept
    <2>1. SetCameraEnabled(worker.cam, TRUE) \/ UNCHANGED <<cameraVars, setVars>>
      BY DEF Enable
    <2>2. \E e \in BOOLEAN : e = TRUE
      OBVIOUS
    <2> QED
      BY <1>1, <2>1, <2>2, EnabledKept, UntouchedKept
  <1> QED
    BY <1>1, <1>2, GoToTyped, StepTyped DEF Kept

LEMMA ListForDeletionKept ==
    ASSUME TypeInv, ListForDeletion
    PROVE  TypeInv' /\ Kept
  <1>1. UNCHANGED <<cameraVars, setVars, inventory, disturbed>>
    BY DEF ListForDeletion
  <1>2. Kept
    BY <1>1, UntouchedKept DEF TypeInv, TypeOK
  <1>3. worker' \in Worker /\ worker'.pc = "delete"
    BY DEF ListForDeletion, TypeInv, TypeOK, Worker
  <1> QED
    BY <1>1, <1>2, <1>3, StepTyped DEF Kept, WorkerInv

LEMMA DeleteStepKept ==
    ASSUME TypeInv, Delete
    PROVE  TypeInv' /\ Kept
  <1>1. PICK c \in worker.todo :
          /\ worker' = [worker EXCEPT !.todo = worker.todo \ {c}]
          /\ DeleteCamera(c) \/ UNCHANGED <<cameraVars, setVars>>
    BY DEF Delete
  <1>2. worker.pc = "delete" /\ worker \in Worker /\ c \in Cameras
        /\ UNCHANGED <<inventory, disturbed>> /\ CameraType
    BY DEF Delete, TypeInv, TypeOK, Worker
  <1>3. worker' \in Worker /\ worker'.pc = "delete"
    BY <1>1, <1>2 DEF Worker
  <1>4. Kept
    BY <1>1, <1>2, DestroyKept, UntouchedKept DEF DeleteCamera
  <1> QED
    BY <1>2, <1>3, <1>4, StepTyped DEF Kept, WorkerInv

LEMMA EndPassKept ==
    ASSUME TypeInv, EndPass
    PROVE  TypeInv' /\ Kept
  BY UntouchedKept, IdleInv, StepTyped DEF EndPass, Kept, TypeInv, TypeOK

-------------------------------------------------------------------------------
LEMMA DisturbanceKept ==
    ASSUME TypeInv, Disturbance
    PROVE  TypeInv' /\ Kept
  <1>1. CameraType /\ disturbed' \in 0..MaxDisturbances
    BY InventoryAssumption DEF Disturbance, TypeInv, TypeOK
  <1>2. CASE (Operator \/ Commit \/ ForgetRequests)
             /\ UNCHANGED <<inventory, worker>>
    <2>1. Kept
      BY <1>1, <1>2, OperatorKept, CommitKeeps, ApplyRetentionKeeps
      DEF Kept, ForgetRequests
    <2> QED
      BY <1>1, <1>2, <2>1 DEF Kept, TypeInv, TypeOK, WorkerInv
  <1>3. CASE /\ \E c \in Cameras, e \in Listings :
                  inventory' = [inventory EXCEPT ![c] = e]
             /\ UNCHANGED <<cameraVars, setVars, worker>>
    <2>1. inventory' \in [Cameras -> Entry]
      BY <1>3, InventoryAssumption DEF TypeInv, TypeOK
    <2>2. Kept
      BY <1>1, <1>3, UntouchedKept
    <2> QED
      BY <1>1, <1>3, <2>1, <2>2 DEF Kept, TypeInv, TypeOK, WorkerInv
  <1>4. CASE worker' = Idle /\ UNCHANGED <<cameraVars, setVars, inventory>>
    <2>1. Kept
      BY <1>1, <1>4, UntouchedKept
    <2> QED
      BY <1>1, <1>4, <2>1, IdleInv DEF Kept, TypeInv, TypeOK
  <1> QED
    BY <1>2, <1>3, <1>4 DEF Disturbance

LEMMA BackgroundKept ==
    ASSUME TypeInv, Background
    PROVE  TypeInv' /\ Kept
  <1>1. CameraType
    BY DEF TypeInv, TypeOK
  <1>2. Kept
    BY <1>1, FinishCommitKeeps, SyncKeeps, TimePassesKeeps, ApplyRetentionKeeps
    DEF Kept, Background
  <1> QED
    BY <1>2 DEF Kept, Background, TypeInv, TypeOK, WorkerInv

LEMMA StepKept ==
    ASSUME TypeInv, [Next]_vars
    PROVE  TypeInv' /\ Kept
  <1>1. CASE Pass
    BY <1>1, ReadInventoryKept, ViewKept, CreateStepKept, StreamStepKept,
       RotateStepKept, EnableStepKept, ListForDeletionKept, DeleteStepKept,
       EndPassKept DEF Pass
  <1>2. CASE Disturbance
    BY <1>2, DisturbanceKept
  <1>3. CASE Background
    BY <1>3, BackgroundKept
  <1>4. CASE UNCHANGED vars
    <2>1. UNCHANGED <<cameraVars, setVars>> /\ UNCHANGED <<inventory, worker, disturbed>>
      BY <1>4 DEF vars
    <2>2. Kept
      BY <2>1, UntouchedKept DEF TypeInv, TypeOK
    <2> QED
      BY <2>1, <2>2 DEF Kept, TypeInv, TypeOK, WorkerInv
  <1> QED
    BY <1>1, <1>2, <1>3, <1>4 DEF Next

LEMMA InitKept ==
    ASSUME Init
    PROVE  TypeInv /\ ServedInv
  <1>1. CameraType
    <2>1. <<>> \in Seq(Version) /\ <<>> \in Seq(AssignmentSet) /\ Len(<<>>) = 0
      OBVIOUS
    <2> QED
      BY <2>1 DEF Init, CameraInit, CameraType, Camera
  <1>2. worker \in Worker /\ WorkerInv
    BY IdleTyped DEF Init, WorkerInv
  <1>3. ServedInv
    BY DEF Init, CameraInit, ServedInv
  <1> QED
    BY <1>1, <1>2, <1>3, InventoryAssumption DEF Init, TypeInv, TypeOK

-------------------------------------------------------------------------------
(* Cameras, versions, sets and the worker's view keep their types: sets    *)
(* pin versions that exist, even while operations and commits interleave.  *)
THEOREM InventoryTyped == Spec => []TypeOK
  <1>1. Init => TypeInv
    BY InitKept
  <1>2. TypeInv /\ [Next]_vars => TypeInv'
    BY StepKept
  <1>3. TypeInv => TypeOK
    BY DEF TypeInv
  <1> QED
    BY <1>1, <1>2, <1>3, PTL DEF Spec

(* The cameras of the desired set exist, and every version that it pins is *)
(* the active one of its camera: the bundle of the desired revision can be *)
(* rendered after any rotation, deletion, rollback or retention pass of    *)
(* service.py that does not run inside an open commit.                     *)
THEOREM DesiredIsServable ==
    ASSUME Serialized
    PROVE  Spec => []DesiredServable
  <1> DEFINE Inv == TypeInv /\ ServedInv
  <1>1. Init => Inv
    BY InitKept
  <1>2. Inv /\ [Next]_vars => Inv'
    BY StepKept DEF Kept
  <1>3. Inv => DesiredServable
    BY DEF ServedInv, Served, DesiredServable, Uses
  <1> QED
    BY <1>1, <1>2, <1>3, PTL DEF Spec

===============================================================================
