---------------------------- MODULE FileIdManager ---------------------------
(***************************************************************************)
(* class FileIdManager (FileId.h, FileId.cpp): every source file has a     *)
(* number by which the symbol databases name it.  The number is the hash   *)
(* of the name, or the next free one if another file has that; the two     *)
(* maps are written to fileids.va and read when the program starts.        *)
(*                                                                         *)
(* mLock is a RWLockLite: what a call does under it is one step here, and  *)
(* a step that writes does not happen while Save has it for reading.       *)
(***************************************************************************)
EXTENDS Integers, FiniteSets

CONSTANTS
  Callers,
  Names,      \* file names, in lower case
  HashOf,     \* WTHashKeyW of each name
  IdCount,    \* how many values a UINT has
  MaxProbes,  \* how many ids AddFile tries
  HexBase,    \* an id is written in digits of this base
  SaveFaults, \* how a save may be cut short: "kill", "full"
  NoName, NoId

Ids == 0..(IdCount - 1)

ASSUME IdAssumption ==
  /\ IdCount \in Nat \ {0} /\ MaxProbes \in Nat /\ HexBase \in Nat \ {0, 1}
  /\ HashOf \in [Names -> Ids]
  /\ NoName \notin Names /\ NoId \notin Ids
  /\ SaveFaults \subseteq {"kill", "full"}

VARIABLES
  running,  \* the FileIdManager exists
  mIdToName, mNameToId,
  mModified, \* whether it is not zero
  ipc, name, \* where each thread is in GetFileId, and the file it asks for
  saving,   \* Save is writing the file
  disk,     \* fileids.va
  torn,     \* the name on a last line that is incomplete
  complete, \* history: fileids.va is as a save that ended has left it
  intact,   \* history: the program has read complete files only
  given     \* the <<name, id>> that GetFileId has returned and may be on record

idVars == <<running, mIdToName, mNameToId, mModified, ipc, name, saving, disk, torn, complete,
          intact, given>>
maps == <<mIdToName, mNameToId, mModified>>
file == <<saving, disk, torn, complete, intact>>

IdTypeOK ==
  /\ running \in BOOLEAN /\ mModified \in BOOLEAN /\ saving \in BOOLEAN
  /\ mIdToName \in [Ids -> Names \cup {NoName}]
  /\ mNameToId \in [Names -> Ids \cup {NoId}]
  /\ ipc \in [Callers -> {"idle", "lookup", "missing", "collides"}]
  /\ name \in [Callers -> Names \cup {NoName}]
  /\ disk \in [Names -> Ids \cup {NoId}]
  /\ torn \in Names \cup {NoName}
  /\ complete \in BOOLEAN /\ intact \in BOOLEAN
  /\ given \subseteq Names \X Ids

NoIds == [n \in Names |-> NoId]
Idle == [t \in Callers |-> "idle"]
NoCalls == [t \in Callers |-> NoName]

\* The first start finds no file.
IdInit ==
  /\ running = TRUE /\ mModified = FALSE
  /\ mIdToName = [i \in Ids |-> NoName] /\ mNameToId = NoIds
  /\ ipc = Idle /\ name = NoCalls
  /\ saving = FALSE /\ disk = NoIds /\ torn = NoName /\ given = {}
  /\ complete = TRUE /\ intact = TRUE

-----------------------------------------------------------------------------
(* GetFileId.                                                              *)

Ask(t, n) ==
  /\ running /\ ipc[t] = "idle"
  /\ ipc' = [ipc EXCEPT ![t] = "lookup"] /\ name' = [name EXCEPT ![t] = n]
  /\ UNCHANGED <<running, maps, file, given>>

Answer(t, id) ==
  /\ ipc' = [ipc EXCEPT ![t] = "idle"] /\ name' = [name EXCEPT ![t] = NoName]
  /\ given' = given \cup {<<name[t], id>>}

Owner(t) == mIdToName[HashOf[name[t]]]

\* What the thread does with the name it has read under its own hash.
Compare(t) ==
  \/ Owner(t) = name[t] /\ Answer(t, HashOf[name[t]])
  \/ /\ Owner(t) \notin {name[t], NoName}
     /\ ipc' = [ipc EXCEPT ![t] = "collides"] /\ UNCHANGED <<name, given>>

\* With the read lock.
Lookup(t) ==
  /\ running /\ ipc[t] = "lookup"
  /\ \/ Compare(t)
     \/ /\ Owner(t) = NoName
        /\ ipc' = [ipc EXCEPT ![t] = "missing"] /\ UNCHANGED <<name, given>>
  /\ UNCHANGED <<running, maps, file>>

AddFile(n, id) ==
  /\ mIdToName' = [mIdToName EXCEPT ![id] = n]
  /\ mNameToId' = [mNameToId EXCEPT ![n] = id]
  /\ mModified' = TRUE

WriteLock == running /\ ~saving

\* Mutant: no re-check.
AddDefault_noRecheck(t) ==
  /\ WriteLock /\ ipc[t] = "missing"
  /\ AddFile(name[t], HashOf[name[t]]) /\ Answer(t, HashOf[name[t]])
  /\ UNCHANGED <<running, file>>

\* Mutant: whoever beat us is taken to have added the same file.
AddDefault_sameFile(t) ==
  /\ WriteLock /\ ipc[t] = "missing" /\ Answer(t, HashOf[name[t]])
  /\ IF Owner(t) = NoName THEN AddFile(name[t], HashOf[name[t]]) ELSE UNCHANGED maps
  /\ UNCHANGED <<running, file>>

\* "re-check because we had to get the write lock -- another writer might have
\* beat us"
AddDefault(t) ==
  /\ WriteLock /\ ipc[t] = "missing"
  /\ \/ /\ Owner(t) = NoName
        /\ AddFile(name[t], HashOf[name[t]]) /\ Answer(t, HashOf[name[t]])
     \/ Compare(t) /\ UNCHANGED maps
  /\ UNCHANGED <<running, file>>

Slot(n, k) == (HashOf[n] + k) % IdCount
FreeProbes(n) == {k \in 0..(MaxProbes - 1) : mIdToName[Slot(n, k)] = NoName}

\* "id collision - do reverse lookup by name to see if already set up"; if no
\* id is free the caller gets -1, which is not recorded.
ResolveCollision(t) ==
  /\ WriteLock /\ ipc[t] = "collides"
  /\ \/ /\ mNameToId[name[t]] # NoId
        /\ Answer(t, mNameToId[name[t]]) /\ UNCHANGED maps
     \/ /\ mNameToId[name[t]] = NoId
        /\ \E k \in FreeProbes(name[t]) :
             /\ \A j \in FreeProbes(name[t]) : k <= j
             /\ AddFile(name[t], Slot(name[t], k)) /\ Answer(t, Slot(name[t], k))
     \/ /\ mNameToId[name[t]] = NoId /\ FreeProbes(name[t]) = {}
        /\ ipc' = [ipc EXCEPT ![t] = "idle"] /\ name' = [name EXCEPT ![t] = NoName]
        /\ UNCHANGED <<maps, given>>
  /\ UNCHANGED <<running, file>>

GetFileId(t) == Lookup(t) \/ AddDefault(t) \/ ResolveCollision(t)

-----------------------------------------------------------------------------
(* Save, with the read lock: the file is emptied, gets one line per name,  *)
(* and mModified is reset.                                                 *)

BeginSave ==
  /\ running /\ ~saving /\ mModified
  /\ saving' = TRUE /\ disk' = NoIds /\ torn' = NoName /\ complete' = FALSE
  /\ UNCHANGED <<running, maps, ipc, name, intact, given>>

Unwritten(n) == mNameToId[n] # NoId /\ disk[n] = NoId

WriteLine(n) ==
  /\ saving /\ Unwritten(n)
  /\ disk' = [disk EXCEPT ![n] = mNameToId[n]]
  /\ UNCHANGED <<running, maps, ipc, name, saving, torn, complete, intact, given>>

EndSave ==
  /\ saving /\ \A n \in Names : ~Unwritten(n)
  /\ saving' = FALSE /\ mModified' = FALSE /\ complete' = TRUE
  /\ UNCHANGED <<running, mIdToName, mNameToId, ipc, name, disk, torn, intact, given>>

\* Mutant: mModified is reset although the file is not complete.
FailSave_reset ==
  /\ "full" \in SaveFaults /\ saving /\ saving' = FALSE /\ mModified' = FALSE
  /\ UNCHANGED <<running, mIdToName, mNameToId, ipc, name, disk, torn, complete, intact, given>>

\* The volume is full: CFile::Write throws after part of a line, which DoLoad
\* reads like any other if it has its delimiter: the id lacks its last digit.
FailSave ==
  /\ "full" \in SaveFaults /\ saving /\ saving' = FALSE
  /\ \/ UNCHANGED <<disk, torn>>
     \/ \E n \in Names :
          /\ Unwritten(n) /\ torn' = n
          /\ disk' = [disk EXCEPT ![n] = mNameToId[n] \div HexBase]
  /\ UNCHANGED <<running, maps, ipc, name, complete, intact, given>>

-----------------------------------------------------------------------------
(* The program stops and starts.  fileids.va has one owner: GetDbDir gives  *)
(* each process a directory of its own.                                    *)

\* The destructor has saved what was modified.
Stop ==
  /\ running /\ ~saving /\ ~mModified /\ ipc = Idle
  /\ running' = FALSE
  /\ UNCHANGED <<maps, ipc, name, file, given>>

\* What is not in the file is forgotten, and so are the ids that were given.
Crash ==
  /\ running /\ (saving => "kill" \in SaveFaults)
  /\ running' = FALSE /\ saving' = FALSE
  /\ given' = {g \in given : disk[g[1]] = g[2]}
  /\ ipc' = Idle /\ name' = NoCalls
  /\ UNCHANGED <<maps, disk, torn, complete, intact>>

\* DoLoad: a later line with the same id replaces an earlier one.
NameOnDisk(i) ==
  IF torn # NoName /\ disk[torn] = i THEN torn
  ELSE IF \E n \in Names : disk[n] = i THEN CHOOSE n \in Names : disk[n] = i
  ELSE NoName

Start ==
  /\ ~running /\ running' = TRUE
  /\ mNameToId' = disk /\ mIdToName' = [i \in Ids |-> NameOnDisk(i)]
  /\ mModified' = FALSE /\ intact' = (intact /\ complete)
  /\ UNCHANGED <<ipc, name, saving, disk, torn, complete, given>>

IdNext ==
  \/ \E t \in Callers : GetFileId(t) \/ \E n \in Names : Ask(t, n)
  \/ BeginSave \/ (\E n \in Names : WriteLine(n)) \/ EndSave \/ FailSave
  \/ Stop \/ Crash \/ Start

IdSpec == IdInit /\ [][IdNext]_idVars

-----------------------------------------------------------------------------
(* Properties.                                                             *)

\* If the file was complete whenever it was read, each of the two maps is the
\* inverse of the other (the size assertions of AddFile, Save and DoLoad).
MapsAgree ==
  intact =>
    /\ \A n \in Names : mNameToId[n] # NoId => mIdToName[mNameToId[n]] = n
    /\ \A i \in Ids : mIdToName[i] # NoName => mNameToId[mIdToName[i]] = i

\* Then two answers have the same id exactly when they are for the same file,
\* whichever threads asked, before or after a collision or a restart.
GivenIdsAreStable ==
  intact => \A g, h \in given : g[1] = h[1] <=> g[2] = h[2]

\* Between saves an id that is not in the file is one that mModified tells the
\* next save about.
NothingForgotten ==
  running /\ ~saving => mModified \/ disk = mNameToId

\* "integrity check": a thread that finds the default id free, and is about to
\* take it, does not have the name in the maps under another id.
IntegrityCheck ==
  \A t \in Callers : WriteLock /\ ipc[t] = "missing" /\ Owner(t) = NoName =>
    mNameToId[name[t]] = NoId

\* The check is right if the file was complete whenever it was read.
IntegrityIfIntact == intact => IntegrityCheck

\* _ASSERTE(... && mNameToId.size() == mIdToName.size()) in AddFile, Save, DoLoad
MapsHaveSameSize ==
  running => Cardinality({n \in Names : mNameToId[n] # NoId})
             = Cardinality({i \in Ids : mIdToName[i] # NoName})

\* _ASSERTE(id) in AddFile: no file has the number that means "no file".
NoFileHasIdZero == mIdToName[0] = NoName
=============================================================================
