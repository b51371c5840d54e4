------------------------- MODULE FileIdManagerProofs ------------------------
(***************************************************************************)
(* The file ids and the lock they are kept under.  RWLockLite keeps        *)
(* writers apart from everyone else and always knows the writer, for any   *)
(* number of threads and any nesting.  As long as the program has read     *)
(* complete files only, file ids name one file each and do not change: for *)
(* any files, hashes, threads, restarts and failures of a save.            *)
(***************************************************************************)
EXTENDS FileIdManager, RWLockLite, TLAPS


-----------------------------------------------------------------------------
(* The inductive invariant.  Two facts about a map from names to ids carry *)
(* it, in memory and on disk alike: no id is used twice, and a name has    *)
(* another id than its hash only if a file has that hash for its id.  What *)
(* the second excludes is that a name's default id becomes free again.     *)

Injective(f) == \A n, m \in Names : f[n] # NoId /\ f[n] = f[m] => n = m

DefaultTaken(f) ==
  \A n \in Names : f[n] \notin {NoId, HashOf[n]} => \E m \in Names : f[m] = HashOf[n]

\* What a save has written so far, and what is left when it has ended.
SaveInv ==
  /\ saving => running /\ mModified /\ ~complete /\ torn = NoName
  /\ saving => \A n \in Names : disk[n] # NoId => disk[n] = mNameToId[n]
  /\ complete => torn = NoName

CallInv ==
  \A t \in Callers : ipc[t] # "idle" =>
    running /\ name[t] \in Names /\ (ipc[t] = "collides" => Owner(t) \notin {NoName,
    name[t]})

\* What is true even of maps that a damaged file has spoilt.
BaseInv == IdTypeOK /\ SaveInv /\ CallInv /\ NothingForgotten

GivenInv ==
  \A g \in given : mNameToId[g[1]] = g[2] /\ (running \/ disk[g[1]] = g[2])

\* What is true of the others.
IdInv ==
  /\ \A n \in Names : mNameToId[n] # NoId => mIdToName[mNameToId[n]] = n
  /\ \A i \in Ids : mIdToName[i] # NoName => mNameToId[mIdToName[i]] = i
  /\ DefaultTaken(mNameToId)
  /\ complete => Injective(disk) /\ DefaultTaken(disk)
  /\ GivenInv

FileIdInv == BaseInv /\ (intact => IdInv)

LEMMA FileIdInvInit == IdInit => FileIdInv
  BY IdAssumption
  DEF IdInit, FileIdInv, BaseInv, IdInv, IdTypeOK, DefaultTaken, SaveInv, Injective,
      GivenInv, CallInv, NothingForgotten, NoIds, Idle, NoCalls

-----------------------------------------------------------------------------
(* BaseInv.                                                                *)

LEMMA SlotType ==
  ASSUME NEW n \in Names, NEW k \in Nat PROVE Slot(n, k) \in Ids
<1>1. HashOf[n] \in Nat /\ IdCount \in Nat \ {0}  BY IdAssumption DEF Ids
<1>2. (HashOf[n] + k) % IdCount \in 0..(IdCount - 1)  BY <1>1
<1> QED  BY <1>2 DEF Slot, Ids

LEMMA ShortIdType == \A i \in Ids : i \div HexBase \in Ids
<1> SUFFICES ASSUME NEW i \in Ids PROVE i \div HexBase \in Ids  OBVIOUS
<1> DEFINE q == i \div HexBase
<1>1. i \in Nat /\ HexBase \in Nat \ {0} /\ IdCount \in Nat  BY IdAssumption DEF Ids
<1>2. q \in Int /\ i = HexBase * q + (i % HexBase) /\ i % HexBase \in 0..(HexBase - 1)
  BY <1>1
<1>3. q >= 0 /\ q <= i  BY <1>1, <1>2
<1> QED  BY <1>1, <1>2, <1>3 DEF Ids

LEMMA NameOnDiskType ==
  ASSUME IdTypeOK, NEW i \in Ids PROVE NameOnDisk(i) \in Names \cup {NoName}
  BY DEF NameOnDisk, IdTypeOK

(* A new entry under a free id, and the answer that tells it.                *)
LEMMA AddedBase ==
  ASSUME BaseInv, WriteLock, NEW t \in Callers, ipc[t] # "idle", NEW id \in Ids,
         mIdToName[id] = NoName, AddFile(name[t], id), Answer(t, id),
         UNCHANGED <<running, file>>
  PROVE BaseInv'
<1> USE IdAssumption DEF BaseInv, AddFile, Answer, WriteLock, file
<1>1. name[t] \in Names /\ running /\ ~saving  BY DEF CallInv
<1>2. IdTypeOK'  BY <1>1 DEF IdTypeOK
<1>3. SaveInv' /\ NothingForgotten'  BY <1>1 DEF SaveInv, NothingForgotten
<1>4. CallInv'
  <2> SUFFICES ASSUME NEW u \in Callers, ipc'[u] # "idle"
               PROVE /\ running' /\ name'[u] \in Names
                     /\ ipc'[u] = "collides" => Owner(u)' \notin {NoName, name'[u]}
    BY DEF CallInv
  <2>1. u # t /\ ipc'[u] = ipc[u] /\ name'[u] = name[u]  BY DEF IdTypeOK
  <2>2. name[u] \in Names /\ HashOf[name[u]] \in Ids  BY <2>1 DEF CallInv
  <2>3. mIdToName[HashOf[name[u]]] # NoName =>
          mIdToName'[HashOf[name[u]]] = mIdToName[HashOf[name[u]]]
    BY <2>2 DEF IdTypeOK
  <2> QED  BY <1>1, <2>1, <2>2, <2>3 DEF CallInv, Owner
<1> QED  BY <1>2, <1>3, <1>4

LEMMA BaseStep == ASSUME BaseInv, [IdNext]_idVars PROVE BaseInv'
<1> USE IdAssumption
    DEF BaseInv, IdTypeOK, SaveInv, CallInv, NothingForgotten, Owner, maps, file
<1>1. CASE \E t \in Callers : Lookup(t)
  BY <1>1 DEF Lookup, Compare, Answer
<1>2. CASE \E t \in Callers : AddDefault(t)
  <2>1. PICK t \in Callers : AddDefault(t)  BY <1>2
  <2>2. name[t] \in Names /\ HashOf[name[t]] \in Ids  BY <2>1 DEF AddDefault
  <2>3. CASE AddFile(name[t], HashOf[name[t]]) /\ Answer(t, HashOf[name[t]])
             /\ Owner(t) = NoName
    BY <2>1, <2>2, <2>3, AddedBase DEF AddDefault
  <2>4. CASE Compare(t) /\ UNCHANGED maps
    BY <2>1, <2>2, <2>4 DEF AddDefault, Compare, Answer, WriteLock
  <2> QED  BY <2>1, <2>3, <2>4 DEF AddDefault
<1>3. CASE \E t \in Callers : ResolveCollision(t)
  <2>1. PICK t \in Callers : ResolveCollision(t)  BY <1>3
  <2>2. \A k \in Nat : Slot(name[t], k) \in Ids  BY <2>1, SlotType DEF ResolveCollision
  <2>3. name[t] \in Names /\ ipc[t] = "collides"  BY <2>1 DEF ResolveCollision
  <2>4. CASE \E k \in FreeProbes(name[t]) :
               AddFile(name[t], Slot(name[t], k)) /\ Answer(t, Slot(name[t], k))
    <3>1. PICK k \in FreeProbes(name[t]) :
            AddFile(name[t], Slot(name[t], k)) /\ Answer(t, Slot(name[t], k))
      BY <2>4
    <3>2. Slot(name[t], k) \in Ids /\ mIdToName[Slot(name[t], k)] = NoName
      BY <2>2, <3>1 DEF FreeProbes
    <3> QED  BY <2>1, <2>3, <3>1, <3>2, AddedBase DEF ResolveCollision
  <2>5. CASE mNameToId[name[t]] # NoId /\ Answer(t,
  mNameToId[name[t]]) /\ UNCHANGED maps
    BY <2>1, <2>3, <2>5 DEF ResolveCollision, Answer, WriteLock
  <2>6. CASE ipc' = [ipc EXCEPT ![t] = "idle"] /\ name' = [name EXCEPT ![t] = NoName]
             /\ UNCHANGED <<maps, given>>
    BY <2>1, <2>6 DEF ResolveCollision
  <2> QED  BY <2>1, <2>4, <2>5, <2>6 DEF ResolveCollision
<1>4. CASE Start  BY <1>4, NameOnDiskType DEF Start
<1>5. CASE \E t \in Callers, n \in Names : Ask(t, n)  BY <1>5 DEF Ask
<1>6. CASE BeginSave  BY <1>6 DEF BeginSave, NoIds
<1>7. CASE \E n \in Names : WriteLine(n)  BY <1>7 DEF WriteLine, Unwritten
<1>8. CASE EndSave
  <2>1. disk = mNameToId  BY <1>8 DEF EndSave, Unwritten
  <2> QED  BY <1>8, <2>1 DEF EndSave
<1>9. CASE FailSave
  <2>1. disk' \in [Names -> Ids \cup {NoId}] /\ torn' \in Names \cup {NoName}
    BY <1>9, ShortIdType DEF FailSave, Unwritten
  <2> QED  BY <1>9, <2>1 DEF FailSave
<1>10. CASE Stop  BY <1>10 DEF Stop, Idle
<1>11. CASE Crash  BY <1>11 DEF Crash, Idle, NoCalls
<1>12. CASE UNCHANGED idVars  BY <1>12 DEF idVars
<1> QED
  BY <1>1, <1>2, <1>3, <1>4, <1>5, <1>6, <1>7, <1>8, <1>9, <1>10, <1>11, <1>12
  DEF IdNext, GetFileId

-----------------------------------------------------------------------------
(* IdInv.                                                                  *)

(* A name that is about to take its hash for its id has no id yet: its other *)
(* id would mean that the default one is taken.                              *)
LEMMA DefaultIsNew ==
  ASSUME BaseInv, IdInv, NEW t \in Callers, ipc[t] # "idle", Owner(t) = NoName
  PROVE mNameToId[name[t]] = NoId
<1> DEFINE n == name[t]
<1>1. n \in Names /\ HashOf[n] \in Ids /\ mNameToId \in [Names -> Ids \cup {NoId}]
  BY IdAssumption DEF BaseInv, IdTypeOK, CallInv
<1> SUFFICES ASSUME mNameToId[n] # NoId PROVE FALSE  OBVIOUS
<1>2. mIdToName[mNameToId[n]] = n  BY <1>1 DEF IdInv
<1>3. mNameToId[n] # HashOf[n]  BY <1>1, <1>2, IdAssumption DEF Owner
<1>4. PICK m \in Names : mNameToId[m] = HashOf[n]
  BY <1>1, <1>3 DEF IdInv, DefaultTaken
<1>5. mIdToName[HashOf[n]] = m
  BY <1>1, <1>4, IdAssumption DEF IdInv
<1> QED  BY <1>5, IdAssumption DEF Owner

(* A new name gets a free id: the maps still agree.                          *)
LEMMA AddFileStep ==
  ASSUME BaseInv, IdInv, NEW n \in Names, NEW id \in Ids, mNameToId[n] = NoId,
         mIdToName[id] = NoName, id = HashOf[n] \/ mIdToName[HashOf[n]] # NoName,
         AddFile(n, id)
  PROVE /\ mIdToName' \in [Ids -> Names \cup {NoName}]
        /\ mNameToId' \in [Names -> Ids \cup {NoId}]
        /\ mNameToId'[n] = id
        /\ \A m \in Names : mNameToId[m] # NoId => mNameToId'[m] = mNameToId[m]
        /\ \A i \in Ids : mIdToName[i] # NoName => mIdToName'[i] = mIdToName[i]
        /\ \A m \in Names : mNameToId'[m] # NoId => mIdToName'[mNameToId'[m]] = m
        /\ \A i \in Ids : mIdToName'[i] # NoName => mNameToId'[mIdToName'[i]] = i
        /\ DefaultTaken(mNameToId')
<1>0. \A m \in Names : HashOf[m] \in Ids /\ HashOf[m] # NoId  BY IdAssumption
<1> USE IdAssumption DEF AddFile, BaseInv, IdTypeOK, IdInv
<1>1. /\ mIdToName' \in [Ids -> Names \cup {NoName}]
      /\ mNameToId' \in [Names -> Ids \cup {NoId}] /\ mNameToId'[n] = id
  OBVIOUS
<1>2. \A m \in Names : mNameToId[m] # NoId => mNameToId'[m] = mNameToId[m]  OBVIOUS
<1>3. \A i \in Ids : mIdToName[i] # NoName => mIdToName'[i] = mIdToName[i]  OBVIOUS
<1>4. \A m \in Names : mNameToId'[m] # NoId => mIdToName'[mNameToId'[m]] = m
  <2> SUFFICES ASSUME NEW m \in Names, m # n, mNameToId[m] # NoId
               PROVE mIdToName'[mNameToId[m]] = m
    OBVIOUS
  <2>1. mNameToId[m] \in Ids /\ mIdToName[mNameToId[m]] = m  OBVIOUS
  <2> QED  BY <2>1
<1>5. \A i \in Ids : mIdToName'[i] # NoName => mNameToId'[mIdToName'[i]] = i
  <2> SUFFICES ASSUME NEW i \in Ids, i # id, mIdToName[i] # NoName
               PROVE mNameToId'[mIdToName[i]] = i
    BY <1>1
  <2>1. mNameToId[mIdToName[i]] = i /\ mIdToName[i] \in Names  OBVIOUS
  <2> QED  BY <2>1
<1>6. DefaultTaken(mNameToId')
  <2> SUFFICES ASSUME NEW m \in Names, mNameToId'[m] \notin {NoId, HashOf[m]}
               PROVE \E q \in Names : mNameToId'[q] = HashOf[m]
    BY DEF DefaultTaken
  <2>1. CASE m = n
    <3>1. HashOf[n] \in Ids /\ mIdToName[HashOf[n]] \in Names  BY <1>1, <2>1
    <3>2. mNameToId[mIdToName[HashOf[n]]] = HashOf[n]  BY <3>1
    <3> QED  BY <1>2, <2>1, <3>1, <3>2
  <2>2. CASE m # n
    <3>1. PICK q \in Names : mNameToId[q] = HashOf[m]
      <4>1. mNameToId'[m] = mNameToId[m]  BY <2>2
      <4> QED  BY <4>1 DEF DefaultTaken
    <3> QED  BY <1>0, <1>2, <3>1
  <2> QED  BY <2>1, <2>2
<1> QED  BY <1>1, <1>2, <1>3, <1>4, <1>5, <1>6

(* An answer that agrees with the maps, and leaves them alone.               *)
LEMMA AnswerStep ==
  ASSUME BaseInv, IdInv, NEW t \in Callers, running, NEW id \in Ids,
         mNameToId[name[t]] = id, Answer(t, id), UNCHANGED <<running, maps, file>>
  PROVE IdInv'
  BY DEF BaseInv, IdTypeOK, IdInv, GivenInv, DefaultTaken, Injective, Answer, maps, file

LEMMA CompareStep ==
  ASSUME BaseInv, IdInv, NEW t \in Callers, running, ipc[t] # "idle", Compare(t),
         UNCHANGED <<running, maps, file>>
  PROVE IdInv'
<1>1. name[t] \in Names /\ HashOf[name[t]] \in Ids
  BY IdAssumption DEF BaseInv, CallInv
<1>2. CASE Owner(t) = name[t] /\ Answer(t, HashOf[name[t]])
  <2>1. mNameToId[name[t]] = HashOf[name[t]]
    BY <1>1, <1>2, IdAssumption DEF IdInv, Owner
  <2> QED  BY <1>1, <1>2, <2>1, AnswerStep
<1>3. CASE UNCHANGED given
  BY <1>3 DEF IdInv, GivenInv, DefaultTaken, Injective, maps, file
<1> QED  BY <1>2, <1>3 DEF Compare

(* A new entry and the answer that tells it.                                 *)
LEMMA AddAndAnswer ==
  ASSUME BaseInv, IdInv, WriteLock, NEW t \in Callers, ipc[t] # "idle", NEW id \in Ids,
         mNameToId[name[t]] = NoId, mIdToName[id] = NoName,
         id = HashOf[name[t]] \/ Owner(t) # NoName,
         AddFile(name[t], id), Answer(t, id), UNCHANGED <<running, file>>
  PROVE IdInv'
<1> DEFINE n == name[t]
<1>1. n \in Names /\ running  BY DEF BaseInv, CallInv, WriteLock
<1>2. /\ mNameToId'[n] = id
      /\ \A m \in Names : mNameToId[m] # NoId => mNameToId'[m] = mNameToId[m]
      /\ \A m \in Names : mNameToId'[m] # NoId => mIdToName'[mNameToId'[m]] = m
      /\ \A i \in Ids : mIdToName'[i] # NoName => mNameToId'[mIdToName'[i]] = i
      /\ DefaultTaken(mNameToId')
  BY <1>1, AddFileStep DEF Owner
<1>3. (complete => Injective(disk) /\ DefaultTaken(disk))'
  BY DEF IdInv, Injective, DefaultTaken, file
<1>4. GivenInv'
  <2> SUFFICES ASSUME NEW g \in given' PROVE mNameToId'[g[1]] = g[2]
    BY <1>1 DEF GivenInv
  <2>1. CASE g \in given
    <3>1. g[1] \in Names /\ g[2] \in Ids  BY <2>1 DEF BaseInv, IdTypeOK
    <3>2. mNameToId[g[1]] = g[2]  BY <2>1 DEF IdInv, GivenInv
    <3> QED  BY <1>2, <3>1, <3>2, IdAssumption
  <2>2. CASE g = <<n, id>>  BY <1>2, <2>2
  <2> QED  BY <2>1, <2>2 DEF Answer
<1> QED  BY <1>2, <1>3, <1>4 DEF IdInv, DefaultTaken

LEMMA GetFileIdStep ==
  ASSUME BaseInv, IdInv, NEW t \in Callers, GetFileId(t) PROVE IdInv'
<1>1. CASE Lookup(t) /\ Compare(t)
  BY <1>1, CompareStep DEF Lookup
<1>2. CASE Lookup(t) /\ ~Compare(t)
  BY <1>2 DEF Lookup, IdInv, GivenInv, DefaultTaken, Injective, maps, file
<1>3. CASE AddDefault(t) /\ Owner(t) = NoName
  <2>1. name[t] \in Names /\ HashOf[name[t]] \in Ids
    BY <1>3, IdAssumption DEF AddDefault, BaseInv, CallInv
  <2>2. AddFile(name[t], HashOf[name[t]]) /\ Answer(t, HashOf[name[t]])
    BY <1>3, <2>1, IdAssumption DEF AddDefault, Compare
  <2>3. mNameToId[name[t]] = NoId
    BY <1>3, DefaultIsNew DEF AddDefault
  <2> QED  BY <1>3, <2>1, <2>2, <2>3, AddAndAnswer DEF AddDefault, Owner
<1>4. CASE AddDefault(t) /\ Owner(t) # NoName
  BY <1>4, CompareStep DEF AddDefault, WriteLock
<1>5. CASE ResolveCollision(t)
  <2>1. /\ WriteLock /\ running /\ ipc[t] = "collides" /\ name[t] \in Names
        /\ Owner(t) # NoName /\ UNCHANGED <<running, file>>
    BY <1>5 DEF ResolveCollision, BaseInv, CallInv, WriteLock
  <2>2. CASE mNameToId[name[t]] # NoId
    BY <1>5, <2>1, <2>2, AnswerStep DEF ResolveCollision, BaseInv, IdTypeOK
  <2>3. CASE mNameToId[name[t]] = NoId /\ FreeProbes(name[t]) # {}
    <3>1. PICK k \in FreeProbes(name[t]) :
            AddFile(name[t], Slot(name[t], k)) /\ Answer(t, Slot(name[t], k))
      BY <1>5, <2>3 DEF ResolveCollision
    <3>2. Slot(name[t], k) \in Ids /\ mIdToName[Slot(name[t], k)] = NoName
      BY <2>1, <3>1, SlotType, IdAssumption DEF FreeProbes
    <3> QED  BY <2>1, <2>3, <3>1, <3>2, AddAndAnswer
  <2>4. CASE mNameToId[name[t]] = NoId /\ FreeProbes(name[t]) = {}
    BY <1>5, <2>4
    DEF ResolveCollision, IdInv, GivenInv, DefaultTaken, Injective, maps, file
  <2> QED  BY <2>2, <2>3, <2>4
<1> QED  BY <1>1, <1>2, <1>3, <1>4, <1>5 DEF GetFileId

(* What DoLoad builds from a complete file.                                  *)
LEMMA StartStep == ASSUME BaseInv, IdInv, complete, Start PROVE IdInv'
<1> USE IdAssumption DEF Start
<1>1. disk \in [Names -> Ids \cup {NoId}] /\ torn = NoName
  BY DEF BaseInv, IdTypeOK, SaveInv
<1>2. Injective(disk) /\ DefaultTaken(disk)  BY DEF IdInv
<1>3. ASSUME NEW i \in Ids
      PROVE \/ NameOnDisk(i) = NoName /\ \A n \in Names : disk[n] # i
            \/ NameOnDisk(i) \in Names /\ disk[NameOnDisk(i)] = i
  BY <1>1 DEF NameOnDisk
<1>4. ASSUME NEW n \in Names, mNameToId'[n] # NoId
      PROVE mIdToName'[mNameToId'[n]] = n
  <2>1. disk[n] \in Ids  BY <1>1, <1>4
  <2>2. NameOnDisk(disk[n]) \in Names /\ disk[NameOnDisk(disk[n])] = disk[n]
    BY <1>3, <2>1
  <2>3. NameOnDisk(disk[n]) = n  BY <1>2, <1>4, <2>2 DEF Injective
  <2> QED  BY <2>1, <2>3
<1>5. ASSUME NEW i \in Ids, mIdToName'[i] # NoName
      PROVE mNameToId'[mIdToName'[i]] = i
  BY <1>3, <1>5
<1>6. DefaultTaken(mNameToId') /\ Injective(disk') /\ DefaultTaken(disk')
  BY <1>2 DEF Injective, DefaultTaken
<1>7. GivenInv'  BY DEF IdInv, GivenInv
<1> QED  BY <1>4, <1>5, <1>6, <1>7 DEF IdInv, DefaultTaken, Injective

LEMMA IdStep ==
  ASSUME BaseInv, IdInv, Start => complete, [IdNext]_idVars PROVE IdInv'
<1>1. CASE \E t \in Callers : GetFileId(t)  BY <1>1, GetFileIdStep
<1>2. CASE Start  BY <1>2, StartStep
<1> USE IdAssumption DEF IdInv, GivenInv, DefaultTaken, Injective, maps, file
<1>3. CASE \E t \in Callers, n \in Names : Ask(t, n)  BY <1>3 DEF Ask
<1>4. CASE BeginSave  BY <1>4 DEF BeginSave
<1>5. CASE \E n \in Names : WriteLine(n)  BY <1>5 DEF WriteLine, BaseInv, SaveInv
<1>6. CASE EndSave
  <2>1. disk = mNameToId  BY <1>6 DEF EndSave, Unwritten, BaseInv, IdTypeOK, SaveInv
  <2>2. Injective(mNameToId)  OBVIOUS
  <2> QED  BY <1>6, <2>1, <2>2 DEF EndSave, BaseInv, SaveInv
<1>7. CASE FailSave  BY <1>7 DEF FailSave, BaseInv, SaveInv
<1>8. CASE Stop
  <2>1. disk = mNameToId  BY <1>8 DEF Stop, BaseInv, NothingForgotten
  <2> QED  BY <1>8, <2>1 DEF Stop
<1>9. CASE Crash  BY <1>9 DEF Crash
<1>10. CASE UNCHANGED idVars  BY <1>10 DEF idVars
<1> QED
  BY <1>1, <1>2, <1>3, <1>4, <1>5, <1>6, <1>7, <1>8, <1>9, <1>10 DEF IdNext

LEMMA FileIdInductive == IdSpec => []FileIdInv
<1>1. ASSUME FileIdInv, [IdNext]_idVars PROVE FileIdInv'
  <2>1. BaseInv'  BY <1>1, BaseStep DEF FileIdInv
  <2>2. ASSUME intact' PROVE intact /\ (Start => complete)
    BY <1>1, <2>2
    DEF IdNext, idVars, GetFileId, Lookup, AddDefault, ResolveCollision, Ask,
        BeginSave, WriteLine,
        EndSave, FailSave, Stop, Crash, Start, file
  <2> QED  BY <1>1, <2>1, <2>2, IdStep DEF FileIdInv
<1> QED  BY <1>1, FileIdInvInit, PTL DEF IdSpec

-----------------------------------------------------------------------------
(* The theorems.                                                           *)

(* The types of the maps, the file and the calls, and that every name which  *)
(* is not in the file is one that mModified tells the next save about: a     *)
(* save that fails in any way loses nothing (FileId.cpp:249-298).            *)
THEOREM SavesForgetNothing == IdSpec => [](IdTypeOK /\ NothingForgotten)
<1>1. FileIdInv => IdTypeOK /\ NothingForgotten  BY DEF FileIdInv, BaseInv
<1> QED  BY <1>1, FileIdInductive, PTL

(* The id-to-name map and the name-to-id map are inverse to each other       *)
(* (FileId.cpp:245, 286, 370), whatever happens to saves, as long as no      *)
(* incomplete file was read.                                                 *)
THEOREM MapsAreInverse == IdSpec => []MapsAgree
<1>1. FileIdInv => MapsAgree  BY DEF FileIdInv, IdInv, MapsAgree
<1> QED  BY <1>1, FileIdInductive, PTL

(* Whatever threads ask, and through restarts and crashes, one file keeps    *)
(* one id and two files never share one (FileId.cpp:66-129).                 *)
THEOREM IdsAreStable == IdSpec => []GivenIdsAreStable
<1>1. FileIdInv => GivenIdsAreStable
  <2> SUFFICES ASSUME FileIdInv, intact, NEW g \in given, NEW h \in given
               PROVE g[1] = h[1] <=> g[2] = h[2]
    BY DEF GivenIdsAreStable
  <2>1. g[1] \in Names /\ g[2] \in Ids /\ h[1] \in Names /\ h[2] \in Ids
    BY DEF FileIdInv, BaseInv, IdTypeOK
  <2> QED  BY <2>1, IdAssumption DEF FileIdInv, IdInv, GivenInv
<1> QED  BY <1>1, FileIdInductive, PTL

(* The integrity check before AddFile (FileId.cpp:106) holds.                *)
THEOREM IntegrityCheckHolds == IdSpec => []IntegrityIfIntact
<1>1. FileIdInv => IntegrityIfIntact
  BY DefaultIsNew DEF FileIdInv, IntegrityIfIntact, IntegrityCheck, WriteLock
<1> QED  BY <1>1, FileIdInductive, PTL

-----------------------------------------------------------------------------
(* RWLockLite: the inductive invariant.                                    *)

CountsOwned == \A t \in Threads : pc[t] \in Owning => countsLock = t

\* Calls that find or leave the thread with certain counts.
Counted ==
  \A t \in Threads :
    /\ Undecided(t) => writes[t] > 0
    /\ pc[t] = "rAssert" => reads[t] > 0
    /\ pc[t] \in {"wUnlock", "wAssert"} => writes[t] > 0
    /\ pc[t] \in {"sLock", "sClear"} => writes[t] = 0
    /\ pc[t] \in {"wLock", "wTest", "wCount", "wRead", "wUndo", "wUnlock", "wAssert",
                  "sTest", "sLock", "sClear"} => reads[t] = 0

\* No reader starts while a writer has mCountsLock.
ReadersGone ==
  \A t \in Threads : pc[t] \in {"wCount", "wRead", "wUndo", "wUnlock"} =>
    \A u \in Threads : reads[u] = 0

\* The reader has seen no writer but itself.
ReaderTested ==
  \A t \in Threads : pc[t] = "rCount" => \A u \in Threads \ {t} : Granted(u) = 0

WriterNamed == \A t \in Threads : Granted(t) > 0 => mActiveWriter = t

\* mActiveWriter outlives the access only until its thread has cleared it, or
\* while another writer is about to put its own name there.
StaleName ==
  \A t \in Threads : mActiveWriter = t /\ Granted(t) = 0 =>
    \/ pc[t] \in {"sTest", "sLock", "sClear"}
    \/ \E u \in Threads \ {t} : pc[u] \in {"wTest", "wCount", "wRead", "wUndo"}

ReadersApart ==
  \A t, u \in Threads : t # u /\ Granted(t) > 0 => reads[u] = 0

LockInv ==
  /\ TypeOK /\ CountsOwned /\ Counted /\ ReadersGone /\ ReaderTested
  /\ WriterNamed /\ StaleName /\ ReadersApart

LEMMA LockInvInit == Init => LockInv
<1> SUFFICES ASSUME Init PROVE LockInv  OBVIOUS
<1>1. TypeOK  BY DEF Init, TypeOK, PcStates
<1>2. \A t \in Threads : Granted(t) = 0  BY DEF Init, Granted,
                                                     Undecided
<1>3. Counted  BY DEF Init, Counted, Undecided
<1> QED
  BY <1>1, <1>2, <1>3, ThreadAssumption
  DEF Init, LockInv, CountsOwned, Owning, ReadersGone,
      ReaderTested, WriterNamed,
      StaleName, ReadersApart

LEMMA LockInvThread ==
  ASSUME LockInv, NEW t \in Threads,
  StartReading(t) \/ Read(t) \/ StartWriting(t) \/ Write(t)
  PROVE LockInv'
<1> USE ThreadAssumption
    DEF LockInv, TypeOK, CountsOwned, Counted, ReadersGone,
        ReaderTested, WriterNamed,
        StaleName, ReadersApart, Granted, Undecided, Owning,
        PcStates, Goto
<1>1. CASE StartReading(t)
  BY <1>1 DEF StartReading, Begin
<1>2. CASE LockCounts(t, "rLock", "rTest")
  BY <1>2 DEF LockCounts
<1>3. CASE TestWriters(t)
  BY <1>3 DEF TestWriters, MayRead, ActiveWriters, UnlockCounts
<1>4. CASE CountReader(t)
  BY <1>4 DEF CountReader
<1>5. CASE AssertNoWriter(t)
  BY <1>5 DEF AssertNoWriter
<1>6. CASE StopReading(t)
  BY <1>6 DEF StopReading
<1>7. CASE StartWriting(t)
  BY <1>7 DEF StartWriting, Begin
<1>8. CASE LockCounts(t, "wLock", "wTest")
  BY <1>8 DEF LockCounts
<1>9. CASE AwaitReaders(t)
  BY <1>9 DEF AwaitReaders, ActiveReaders
<1>10. CASE CountWriter(t)
  BY <1>10 DEF CountWriter
<1>11. CASE ReadWriters(t)
  BY <1>11 DEF ReadWriters, SoleWriter
<1>12. CASE UndoWriter(t)
  BY <1>12 DEF UndoWriter
<1>13. CASE UnlockCounts(t, "wUnlock", "wAssert")
  BY <1>13 DEF UnlockCounts
<1>14. CASE AssertNoReader(t)
  BY <1>14 DEF AssertNoReader
<1>15. CASE StopWriting(t)
  BY <1>15 DEF StopWriting
<1>16. CASE TestLast(t)
  BY <1>16 DEF TestLast, ActiveWriters
<1>17. CASE LockCounts(t, "sLock", "sClear")
  BY <1>17 DEF LockCounts
<1>18. CASE ClearWriter(t)
  BY <1>18 DEF ClearWriter
<1> QED
  BY <1>1, <1>2, <1>3, <1>4, <1>5, <1>6, <1>7, <1>8, <1>9, <1>10, <1>11, <1>12, <1>13,
     <1>14, <1>15, <1>16, <1>17, <1>18
  DEF Read, Write

LEMMA LockInvStep == LockInv /\ [Next]_vars => LockInv'
<1> SUFFICES ASSUME LockInv, [Next]_vars PROVE LockInv'  OBVIOUS
<1>1. CASE Next
  BY <1>1, LockInvThread DEF Next
<1>2. CASE UNCHANGED vars
  BY <1>2
  DEF vars, LockInv, TypeOK, CountsOwned, Counted, ReadersGone,
      ReaderTested,
              WriterNamed, StaleName, ReadersApart, Granted,
              Undecided
<1> QED  BY <1>1, <1>2

LEMMA LockInductive == Spec => []LockInv
  BY LockInvInit, LockInvStep, PTL DEF Spec

LEMMA GrantedType == ASSUME LockInv,
NEW t \in Threads PROVE Granted(t) \in Nat
  BY DEF LockInv, TypeOK, Counted, Granted, Undecided

-----------------------------------------------------------------------------
(* RWLockLite: the theorems.                                               *)

LEMMA ExclusiveFromLockInv == LockInv => WriterExclusive
<1> SUFFICES ASSUME LockInv, NEW t \in Threads, Granted(t) > 0,
NEW u \in Threads \ {t}
             PROVE reads[u] = 0 /\ Granted(u) = 0
  BY DEF WriterExclusive
<1>1. reads[u] = 0  BY DEF LockInv, ReadersApart
<1>2. ~(Granted(u) > 0)  BY DEF LockInv, WriterNamed
<1> QED  BY <1>1, <1>2, GrantedType

(* While a thread has write access no other thread has any (DBLock.h:285-330),*)
(* although a second writer's count is in mActiveWriters now and then.        *)
THEOREM Exclusion == Spec => []WriterExclusive
  BY ExclusiveFromLockInv, LockInductive, PTL

(* mActiveWriter names the thread that has write access (DBLock.h:309-317,   *)
(* 332-342): a thread that clears it never clears another's.                 *)
THEOREM Named == Spec => []WriterIsNamed
<1>1. LockInv => WriterIsNamed  BY DEF LockInv, WriterNamed,
                                             WriterIsNamed
<1> QED  BY <1>1, LockInductive, PTL

(* Both assertions commented "This is NOT possible!" are right.              *)
THEOREM AssertionsAreRight == Spec => []AssertionsHold
<1>1. LockInv => AssertionsHold
  <2> SUFFICES ASSUME LockInv, NEW t \in Threads
               PROVE /\ pc[t] = "rAssert" => (ActiveWriters => mActiveWriter = t)
                     /\ pc[t] = "wAssert" => ~ActiveReaders
    BY DEF AssertionsHold
  <2>1. ASSUME pc[t] = "rAssert", NEW u \in Threads,
  writes[u] > 0 PROVE mActiveWriter = t
    <3>1. reads[t] > 0  BY <2>1 DEF LockInv, Counted
    <3>2. ~Undecided(u)  BY <3>1
                              DEF LockInv, TypeOK, ReadersGone, Undecided
    <3>3. Granted(u) > 0  BY <2>1, <3>2 DEF Granted
    <3>4. u = t  BY <3>1, <3>3 DEF LockInv, TypeOK, ReadersApart
    <3> QED  BY <3>3, <3>4 DEF LockInv, WriterNamed
  <2>2. ASSUME pc[t] = "wAssert", NEW u \in Threads PROVE ~(reads[u] > 0)
    <3>1. Granted(t) > 0 /\ reads[t] = 0  BY <2>2
                                               DEF LockInv, Counted, Granted,
                                                   Undecided
    <3> QED  BY <3>1 DEF LockInv, TypeOK, ReadersApart
  <2> QED  BY <2>1, <2>2 DEF ActiveWriters, ActiveReaders
<1> QED  BY <1>1, LockInductive, PTL

(* Every step of the lock is a step of ReadersWriters or changes none of its *)
(* state; a write begins when the count is known to stay.                    *)
THEOREM Refinement == Spec => Implements
<1> DEFINE granted == [t \in Threads |-> Granted(t)]
<1>1. Init => Abstract!Init
  BY DEF Init, Abstract!Init, Granted, Undecided
<1>2. ASSUME LockInv, WriterExclusive', [Next]_vars
      PROVE [Abstract!Next]_<<reads, granted>>
  <2>1. CASE UNCHANGED vars
    BY <2>1 DEF vars, Granted, Undecided
  <2>2. CASE Next
    <3> PICK t \in Threads : StartReading(t) \/ Read(t)
             \/ StartWriting(t) \/ Write(t)
      BY <2>2 DEF Next
    <3>1. \A u \in Threads \ {t} : Granted(u)' = Granted(u)
      BY <1>2
      DEF LockInv, TypeOK, Granted, Undecided, Goto, Read,
          Write, StartReading, StartWriting, Begin,
          LockCounts, UnlockCounts, TestWriters, CountReader,
          AssertNoWriter, StopReading,
          AwaitReaders, CountWriter, ReadWriters, UndoWriter,
          AssertNoReader,
          StopWriting, TestLast, ClearWriter
    <3>2. CASE CountReader(t)
      <4>1. granted' = granted
        BY <1>2, <3>1, <3>2
        DEF CountReader, Goto, Granted, Undecided, LockInv,
            TypeOK
      <4>2. Abstract!BeginRead(t)
        BY <1>2, <3>2, <4>1
        DEF CountReader, Goto, LockInv, ReaderTested,
            Abstract!BeginRead, Abstract!Others
      <4> QED  BY <4>2 DEF Abstract!Next
    <3>3. CASE StopReading(t)
      <4>1. granted' = granted
        BY <1>2, <3>1, <3>3 DEF StopReading, Granted, Undecided
      <4> QED  BY <3>3, <4>1
               DEF StopReading, Abstract!EndRead, Abstract!Next
    <3>4. CASE ReadWriters(t) /\ pc'[t] = "wUnlock"
      <4>1. Granted(t)' = Granted(t) + 1
        BY <1>2, <3>4
        DEF ReadWriters, Goto, Granted, Undecided, LockInv,
            TypeOK
      <4>2. granted' = [granted EXCEPT ![t] = @ + 1]
        BY <3>1, <4>1
      <4>3. \A u \in Threads \ {t} : reads[u] = 0
        BY <1>2, <3>4 DEF ReadWriters, Goto, LockInv, ReadersGone
      <4>4. \A u \in Threads \ {t} : Granted(u) = 0
        <5>1. Granted(t)' > 0  BY <1>2, <4>1, GrantedType
        <5>2. \A u \in Threads \ {t} : Granted(u)' = 0
          BY <1>2, <5>1 DEF WriterExclusive
        <5> QED  BY <3>1, <5>2
      <4>5. Abstract!BeginWrite(t)
        BY <3>4, <4>2, <4>3, <4>4
        DEF ReadWriters, Abstract!BeginWrite, Abstract!Others
      <4> QED  BY <4>5 DEF Abstract!Next
    <3>5. CASE StopWriting(t)
      <4>1. Granted(t)' = Granted(t) - 1 /\ Granted(t) > 0
        BY <1>2, <3>5
        DEF StopWriting, Goto, Granted, Undecided, LockInv,
            TypeOK
      <4>2. granted' = [granted EXCEPT ![t] = @ - 1]
        BY <3>1, <4>1
      <4> QED  BY <3>5, <4>1, <4>2
               DEF StopWriting, Abstract!EndWrite, Abstract!Next
    <3>6. CASE ~(CountReader(t) \/ StopReading(t) \/ StopWriting(t)
                 \/ (ReadWriters(t) /\ pc'[t] = "wUnlock"))
      <4>1. UNCHANGED reads
        BY <3>6
        DEF Read, Write, StartReading, StartWriting, Begin,
            LockCounts, UnlockCounts,
            TestWriters, AssertNoWriter, AwaitReaders, CountWriter,
            ReadWriters,
            UndoWriter, AssertNoReader, TestLast, ClearWriter
      <4>2. Granted(t)' = Granted(t)
        BY <1>2, <3>6
        DEF Read, Write, StartReading, StartWriting, Begin,
            LockCounts, UnlockCounts,
            TestWriters, AssertNoWriter, AwaitReaders, CountWriter,
            ReadWriters,
            UndoWriter, AssertNoReader, TestLast, ClearWriter,
            Goto, Granted, Undecided,
            LockInv, TypeOK, PcStates, Owning
      <4> QED  BY <3>1, <4>1, <4>2
    <3> QED  BY <3>2, <3>3, <3>4, <3>5, <3>6
  <2> QED  BY <1>2, <2>1, <2>2
<1> QED  BY <1>1, <1>2, LockInductive, Exclusion, PTL
         DEF Spec, Implements, Abstract!Spec
=============================================================================
