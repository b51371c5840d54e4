--------------------------- MODULE SolutionQuery ---------------------------
(***************************************************************************)
(* AsyncSolutionQueryInfo (SolutionFiles.cpp): what the IDE's workspace    *)
(* service knows of the files of deferred projects and open folders.  The  *)
(* UI thread asks for it through the managed package, the answer comes     *)
(* some time later on a thread of its own, and requests may overtake each  *)
(* other.  A request is numbered by its place in requests, which makes     *)
(* sRequestIdCounter the length of that sequence.                          *)
(*                                                                         *)
(* A collector is the thread that handles the answer to one request.       *)
(***************************************************************************)
EXTENDS Integers, Sequences

CONSTANTS
  Solutions, Folders,     \* what may be open; Folders are open without a solution
  NoSolution, NoInfo,
  MaxDeferred,            \* deferred projects of a solution
  MaxRequests,            \* bound on the requests
  Answers                 \* what the workspace service may answer

\* What an answer amounts to: nothing at all (in that case perhaps because the
\* indexer failed), or projects, of which some lack files or have IntelliSense.
AllAnswers ==
  {a \in [failed : BOOLEAN, empty : BOOLEAN, without : 0..1, found : 0..1] :
     /\ a.failed => a.empty
     /\ a.empty => a.without = 0 /\ a.found = 0}

ASSUME QueryAssumption ==
  /\ NoSolution \notin Solutions /\ Folders \subseteq Solutions
  /\ MaxDeferred \in Nat /\ MaxRequests \in Nat
  /\ Answers \subseteq AllAnswers

VARIABLES
  ideSolution, deferred,  \* GetSolutionFileOrDir and GetSolutionDeferredProjectCount
  g_vaManagedPackageSvc,  \* the package has been loaded
  gSqi,
  requests,               \* every request there was
  collector,              \* where the handling of each one's answer is
  forced, answer,         \* doSolutionLoad and the answer, of each collector
  pingTimer, forceTimer   \* IDT_SolutionWorkspaceIndexerPing, ...ForceRequest

ideVars == <<ideSolution, deferred, g_vaManagedPackageSvc>>
collectorVars == <<collector, forced, answer>>
queryVars == <<gSqi, requests, collectorVars, pingTimer, forceTimer>>

Infos == [file : Solutions, count : 0..MaxDeferred] \cup {NoInfo}
Query == [file : Solutions \cup {NoSolution}, count : 0..MaxDeferred, without : 0..1,
          id : 0..MaxRequests, force : BOOLEAN, info : Infos, indexed : BOOLEAN,
          loadedSince : BOOLEAN, found : 0..1]
NoAnswer == [failed |-> FALSE, empty |-> TRUE, without |-> 0, found |-> 0]

QueryTypeOK ==
  /\ ideSolution \in Solutions \cup {NoSolution} /\ deferred \in 0..MaxDeferred
  /\ g_vaManagedPackageSvc \in BOOLEAN
  /\ gSqi \in Query
  /\ requests \in Seq([file : Solutions, count : 0..MaxDeferred, force : BOOLEAN])
  /\ Len(requests) <= MaxRequests
  /\ collector \in [1..MaxRequests ->
                      {"none", "asked", "check", "start", "tail"}]
  /\ forced \in [1..MaxRequests -> BOOLEAN]
  /\ answer \in [1..MaxRequests -> Answers \cup {NoAnswer}]
  /\ pingTimer \in BOOLEAN /\ forceTimer \in BOOLEAN

InitialQuery ==
  [file |-> NoSolution, count |-> 0, without |-> 0, id |-> 0, force |-> TRUE,
   info |-> NoInfo, indexed |-> FALSE, loadedSince |-> FALSE, found |-> 0]

QueryInit ==
  /\ g_vaManagedPackageSvc \in BOOLEAN
  /\ gSqi = InitialQuery
  /\ requests = <<>>
  /\ collector = [r \in 1..MaxRequests |-> "none"]
  /\ forced = [r \in 1..MaxRequests |-> FALSE]
  /\ answer = [r \in 1..MaxRequests |-> NoAnswer]
  /\ pingTimer = FALSE /\ forceTimer = FALSE

IsInOpenFolderMode == ideSolution \in Folders

-----------------------------------------------------------------------------
(* On the UI thread *)

IsSolutionInfoCacheValid ==
  /\ deferred # 0
  /\ gSqi.id # 0
  /\ deferred = gSqi.count /\ ideSolution = gSqi.file
  /\ gSqi.info # NoInfo

\* RequestAsyncWorkspaceCollection(bool) up to the request itself.
WantsRequest(force) ==
  /\ ideSolution # NoSolution
  /\ IsSolutionInfoCacheValid =>
       /\ gSqi.without # 0
       /\ ~(gSqi.indexed /\ ~force /\ gSqi.loadedSince)

Reset == gSqi' = InitialQuery

\* What is known stays known while the solution and the count stay the same.
KeepsInfo_always == TRUE
KeepsInfo == gSqi.count = deferred
NextQuery(force) ==
  IF gSqi.file # ideSolution
    THEN [InitialQuery EXCEPT !.file = ideSolution, !.count = deferred,
                              !.id = Len(requests) + 1, !.force = force]
    ELSE [gSqi EXCEPT !.count = deferred, !.id = Len(requests) + 1,
                      !.info = IF KeepsInfo THEN @ ELSE NoInfo,
                      !.force = force \/ (KeepsInfo /\ gSqi.info = NoInfo)]

\* The caller that resets the query when there is no package yet does so here.
RequestAsyncWorkspaceCollection(force, resets) ==
  /\ Len(requests) < MaxRequests
  /\ requests' = Append(requests, [file |-> ideSolution, count |-> deferred,
                                   force |-> NextQuery(force).force])
  /\ gSqi' = IF resets /\ ~g_vaManagedPackageSvc THEN InitialQuery ELSE NextQuery(force)
  /\ IF g_vaManagedPackageSvc
       THEN /\ collector' = [collector EXCEPT ![Len(requests) + 1] = "asked"]
            /\ UNCHANGED forceTimer
       ELSE forceTimer' = TRUE /\ UNCHANGED collector
  /\ UNCHANGED <<forced, answer, pingTimer>>

VsWorkspaceIndexerFinished ==
  /\ pingTimer' = FALSE
  /\ gSqi' = [gSqi EXCEPT !.indexed = TRUE]

VsWorkspaceIndexerFinishedBeforeLoad ==
  IF gSqi.indexed THEN UNCHANGED <<gSqi, pingTimer>>
  ELSE /\ pingTimer' = FALSE
       /\ gSqi' = [gSqi EXCEPT !.indexed = TRUE, !.loadedSince = TRUE]

-----------------------------------------------------------------------------
(* AsyncWorkspaceCollectionComplete, on a thread of its own *)

\* The answer comes; mForceLoadOnComplete is read without the lock.
AsyncWorkspaceCollectionComplete(r) ==
  /\ collector[r] = "asked"
  /\ collector' = [collector EXCEPT ![r] = "check"]
  /\ forced' = [forced EXCEPT ![r] = gSqi.force]
  /\ answer' \in {[answer EXCEPT ![r] = a] : a \in Answers}
  /\ UNCHANGED <<ideVars, gSqi, requests, pingTimer, forceTimer>>

Finished(r) ==
  /\ collector' = [collector EXCEPT ![r] = "none"]
  /\ forced' = [forced EXCEPT ![r] = FALSE]
  /\ answer' = [answer EXCEPT ![r] = NoAnswer]

\* doSolutionLoad at the end of the block under sInfoLock
NeedsLoad(r) ==
  \/ forced[r]
  \/ answer[r].without # gSqi.without
  \/ /\ answer[r].found # 0 /\ answer[r].found # gSqi.found
     /\ gSqi.indexed /\ ~gSqi.loadedSince

IsCurrent_any(r) == TRUE
IsCurrent(r) == r = gSqi.id

DropAnswer(r) ==
  /\ collector[r] = "check"
  /\ ~(IsCurrent(r) /\ NeedsLoad(r))
  /\ Finished(r)
  /\ UNCHANGED <<ideVars, gSqi, requests, pingTimer, forceTimer>>

CommitAnswer(r) ==
  /\ collector[r] = "check"
  /\ IsCurrent(r) /\ NeedsLoad(r)
  /\ gSqi' = [gSqi EXCEPT
                !.info = IF answer[r].empty THEN NoInfo
                         ELSE [file |-> requests[r].file, count |-> requests[r].count],
                !.without = answer[r].without,
                !.found = answer[r].found,
                !.loadedSince = @ \/ gSqi.indexed]
  /\ collector' = [collector EXCEPT ![r] = "start"]
  /\ UNCHANGED <<ideVars, requests, forced, answer, pingTimer, forceTimer>>

\* The last block under the lock: projects without files are asked for again.
StartPing(r) ==
  /\ collector[r] = "tail"
  /\ IF /\ gSqi.without # 0 \/ gSqi.info = NoInfo
        /\ ~gSqi.indexed \/ ~gSqi.loadedSince
       THEN IF answer[r].failed
              THEN /\ pingTimer' = FALSE
                   /\ gSqi' = [gSqi EXCEPT !.indexed = TRUE,
                                 !.loadedSince = @ \/ ~gSqi.indexed]
              ELSE pingTimer' = TRUE /\ UNCHANGED gSqi
       ELSE UNCHANGED <<gSqi, pingTimer>>
  /\ Finished(r)
  /\ UNCHANGED <<ideVars, requests, forceTimer>>

-----------------------------------------------------------------------------
(* Properties *)

\* The cached answer is one to the request that the cache is recorded for: the
\* solution and the number of deferred projects that IsSolutionInfoCacheValid
\* compares are those the answer was collected for, however requests and late
\* answers overtake each other.
CacheMatchesRequest ==
  gSqi.info # NoInfo => gSqi.info.file = gSqi.file /\ gSqi.info.count = gSqi.count

\* mForceLoadOnComplete is read before the request id is compared and without
\* the lock, when it may be that of a later request; an answer that passes the
\* comparison decides by the flag of its own request nevertheless.
DecidesByOwnFlag ==
  \A r \in 1..Len(requests) :
    collector[r] = "start" \/ (collector[r] = "check" /\ r = gSqi.id)
      => forced[r] = requests[r].force

=============================================================================
