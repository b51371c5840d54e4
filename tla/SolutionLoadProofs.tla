------------------------- MODULE SolutionLoadProofs -------------------------
(***************************************************************************)
(* The properties of a solution load, for any solutions, any number of     *)
(* requests, loaders and notifications, and any answers.                   *)
(***************************************************************************)
EXTENDS SolutionLoad, FiniteSetTheorems, TLAPS

-----------------------------------------------------------------------------
(* The query.                                                              *)

Requests == [file : Solutions, count : 0..MaxDeferred, force : BOOLEAN]

\* The query knows the request that it is numbered for.
IdOK ==
  gSqi.id # 0 =>
    /\ gSqi.id <= Len(requests)
    /\ requests[gSqi.id] = [file |-> gSqi.file, count |-> gSqi.count, force |-> gSqi.force]

CollectorOK ==
  \A r \in 1..MaxRequests :
    /\ collector[r] # "none" => r <= Len(requests)
    /\ collector[r] = "start" \/ (collector[r] = "check" /\ r = gSqi.id)
         => forced[r] = requests[r].force

\* A request that is going to be made is for a solution.
AskOK == ui.pc = "ask" => ideSolution # NoSolution

QueryInv == QueryTypeOK /\ IdOK /\ CollectorOK /\ CacheMatchesRequest

LEMMA InitialQueryType == InitialQuery \in Query
BY QueryAssumption DEF InitialQuery, Query, Infos

LEMMA QueryInvInit == Init => QueryInv /\ AskOK
<1> SUFFICES ASSUME Init PROVE QueryInv /\ AskOK  OBVIOUS
<1>1. ideSolution \in Solutions \cup {NoSolution} /\ deferred \in 0..MaxDeferred
  BY QueryAssumption DEF Init
<1>2. gSqi = InitialQuery /\ gSqi \in Query
  BY InitialQueryType DEF Init, QueryInit
<1>3. requests = <<>> /\ requests \in Seq(Requests) /\ Len(requests) = 0
  BY DEF Init, QueryInit
<1>4. QueryTypeOK
  <2>1. Len(requests) <= MaxRequests /\ MaxRequests \in Nat  BY <1>3, QueryAssumption
  <2>2. /\ collector \in [1..MaxRequests -> {"none", "asked", "check", "start", "tail"}]
        /\ forced \in [1..MaxRequests -> BOOLEAN]
        /\ answer \in [1..MaxRequests -> Answers \cup {NoAnswer}]
        /\ pingTimer \in BOOLEAN /\ forceTimer \in BOOLEAN
        /\ g_vaManagedPackageSvc \in BOOLEAN
    BY DEF Init, QueryInit
  <2> QED  BY <1>1, <1>2, <1>3, <2>1, <2>2 DEF QueryTypeOK, Requests
<1>5. IdOK /\ CollectorOK /\ CacheMatchesRequest
  BY <1>2 DEF Init, QueryInit, InitialQuery, IdOK, CollectorOK, CacheMatchesRequest
<1>6. AskOK  BY DEF Init, LoadInit, Idle, UiAt, AskOK
<1> QED  BY <1>4, <1>5, <1>6 DEF QueryInv

\* Steps that at most empty the query, or note that the indexer has finished.
Indexed == \/ gSqi' = [gSqi EXCEPT !.indexed = TRUE]
           \/ gSqi' = [gSqi EXCEPT !.indexed = TRUE, !.loadedSince = TRUE]
Quiet ==
  /\ UNCHANGED <<requests, collectorVars>>
  /\ gSqi' = gSqi \/ gSqi' = InitialQuery \/ Indexed
  /\ pingTimer' \in BOOLEAN /\ forceTimer' \in BOOLEAN
  /\ ideSolution' \in Solutions \cup {NoSolution} /\ deferred' \in 0..MaxDeferred
  /\ g_vaManagedPackageSvc' \in BOOLEAN

LEMMA QuietStep ==
  ASSUME QueryInv, Quiet
  PROVE  QueryInv'
<1> USE DEF QueryInv, Quiet, Indexed, collectorVars
<1>1. gSqi' \in Query
  <2>1. gSqi \in Query  BY DEF QueryTypeOK
  <2>2. InitialQuery \in Query  BY InitialQueryType
  <2>3. [gSqi EXCEPT !.indexed = TRUE] \in Query  BY <2>1 DEF Query
  <2>4. [gSqi EXCEPT !.indexed = TRUE, !.loadedSince = TRUE] \in Query
    BY <2>1 DEF Query
  <2> QED  BY <2>1, <2>2, <2>3, <2>4
<1>2. QueryTypeOK'  BY <1>1 DEF QueryTypeOK
<1>3. CASE gSqi' = InitialQuery
  BY <1>2, <1>3 DEF InitialQuery, IdOK, CollectorOK, CacheMatchesRequest
<1>4. CASE gSqi' # InitialQuery
  <2>1. /\ gSqi'.file = gSqi.file /\ gSqi'.count = gSqi.count /\ gSqi'.id = gSqi.id
        /\ gSqi'.force = gSqi.force /\ gSqi'.info = gSqi.info
    BY <1>4 DEF QueryTypeOK, Query
  <2> QED  BY <1>2, <2>1 DEF IdOK, CollectorOK, CacheMatchesRequest
<1> QED  BY <1>3, <1>4

\* A new request is the one that the query is recorded for, and forced like it.
LEMMA RequestStep ==
  ASSUME QueryInv, ideSolution # NoSolution, NEW force \in BOOLEAN, NEW resets \in BOOLEAN,
         RequestAsyncWorkspaceCollection(force, resets), UNCHANGED ideVars
  PROVE  QueryInv'
<1> USE DEF QueryInv, ideVars
<1> DEFINE n == Len(requests) + 1
           q == NextQuery(force)
           req == [file |-> ideSolution, count |-> deferred, force |-> q.force]
<1>1. /\ ideSolution \in Solutions /\ deferred \in 0..MaxDeferred /\ gSqi \in Query
      /\ requests \in Seq(Requests) /\ Len(requests) \in Nat /\ n \in 1..MaxRequests
      /\ MaxRequests \in Nat
  BY QueryAssumption DEF QueryTypeOK, Requests, RequestAsyncWorkspaceCollection
<1>2. /\ q \in Query /\ q.id = n /\ q.file = ideSolution /\ q.count = deferred
      /\ q.force \in BOOLEAN
      /\ q.info # NoInfo => gSqi.file = ideSolution /\ gSqi.count = deferred
                            /\ q.info = gSqi.info
  <2>1. CASE gSqi.file # ideSolution
    <3>1. q = [InitialQuery EXCEPT !.file = ideSolution, !.count = deferred,
                                   !.id = n, !.force = force]
      BY <2>1 DEF NextQuery
    <3>2. InitialQuery.info = NoInfo  BY DEF InitialQuery
    <3>3. n \in 0..MaxRequests /\ ideSolution \in Solutions \cup {NoSolution}  BY <1>1
    <3> HIDE DEF q, n
    <3> QED  BY <1>1, <3>1, <3>2, <3>3, InitialQueryType DEF Query
  <2>2. CASE gSqi.file = ideSolution
    <3> DEFINE info == IF KeepsInfo THEN gSqi.info ELSE NoInfo
               f == force \/ (KeepsInfo /\ gSqi.info = NoInfo)
    <3>1. q = [gSqi EXCEPT !.count = deferred, !.id = n, !.info = info, !.force = f]
      BY <2>2 DEF NextQuery
    <3>2. info \in Infos /\ f \in BOOLEAN /\ n \in 0..MaxRequests
      BY <1>1 DEF Query, Infos
    <3>3. info # NoInfo => gSqi.count = deferred /\ info = gSqi.info  BY DEF KeepsInfo
    <3> HIDE DEF q, n, info, f
    <3> QED  BY <1>1, <2>2, <3>1, <3>2, <3>3 DEF Query
  <2> QED  BY <2>1, <2>2
<1> HIDE DEF q
<1>3. /\ requests' = Append(requests, req) /\ req \in Requests
      /\ gSqi' \in {InitialQuery, q}
      /\ collector' \in {collector, [collector EXCEPT ![n] = "asked"]}
      /\ UNCHANGED <<forced, answer, pingTimer>> /\ forceTimer' \in BOOLEAN
  BY <1>1, <1>2
  DEF RequestAsyncWorkspaceCollection, q, Requests, QueryTypeOK
<1>4. /\ requests' \in Seq(Requests) /\ Len(requests') = n
      /\ requests'[n] = req /\ \A i \in 1..Len(requests) : requests'[i] = requests[i]
  BY <1>1, <1>3
<1>5. QueryTypeOK'
  <2>1. gSqi' \in Query  BY <1>2, <1>3, InitialQueryType
  <2>2. collector' \in [1..MaxRequests -> {"none", "asked", "check", "start", "tail"}]
    BY <1>3 DEF QueryTypeOK
  <2>3. Len(requests') <= MaxRequests  BY <1>1, <1>4
  <2> QED  BY <1>3, <1>4, <2>1, <2>2, <2>3 DEF QueryTypeOK, Requests
<1>6. CASE gSqi' = InitialQuery
  <2>1. IdOK' /\ CacheMatchesRequest' /\ gSqi'.id = 0
    BY <1>6 DEF IdOK, CacheMatchesRequest, InitialQuery
  <2>2. CollectorOK'
    <3> SUFFICES ASSUME NEW r \in 1..MaxRequests
                 PROVE  /\ collector'[r] # "none" => r <= n
                        /\ collector'[r] = "start" => forced[r] = requests'[r].force
      BY <1>3, <1>4, <2>1 DEF CollectorOK
    <3>1. collector'[r] = collector[r] \/ (r = n /\ collector'[r] = "asked")
      BY <1>1, <1>3 DEF QueryTypeOK
    <3> QED  BY <1>1, <1>4, <3>1 DEF CollectorOK
  <2> QED  BY <1>5, <2>1, <2>2
<1>7. CASE gSqi' = q
  <2>1. IdOK'  BY <1>2, <1>4, <1>7 DEF IdOK
  <2>2. CacheMatchesRequest'  BY <1>2, <1>7 DEF CacheMatchesRequest
  <2>3. CollectorOK'
    <3> SUFFICES ASSUME NEW r \in 1..MaxRequests
                 PROVE  /\ collector'[r] # "none" => r <= n
                        /\ collector'[r] = "start" \/ (collector'[r] = "check" /\ r = n)
                             => forced[r] = requests'[r].force
      BY <1>2, <1>3, <1>4, <1>7 DEF CollectorOK
    <3>1. collector'[r] = collector[r] \/ (r = n /\ collector'[r] = "asked")
      BY <1>1, <1>3 DEF QueryTypeOK
    <3>2. r = n => collector[r] = "none"  BY <1>1 DEF CollectorOK
    <3> QED  BY <1>1, <1>4, <3>1, <3>2 DEF CollectorOK
  <2> QED  BY <1>5, <2>1, <2>2, <2>3
<1> QED  BY <1>3, <1>6, <1>7

LEMMA AnswerTypes ==
  ASSUME QueryInv, NEW r \in 1..MaxRequests
  PROVE  /\ answer[r] \in AllAnswers /\ NoAnswer \in AllAnswers
         /\ answer[r].without \in 0..1 /\ answer[r].found \in 0..1
<1>1. NoAnswer \in AllAnswers
  <2>1. NoAnswer \in [failed : BOOLEAN, empty : BOOLEAN, without : 0..1, found : 0..1]
    BY DEF NoAnswer
  <2>2. ~NoAnswer.failed /\ NoAnswer.without = 0 /\ NoAnswer.found = 0  BY DEF NoAnswer
  <2> QED  BY <2>1, <2>2 DEF AllAnswers
<1>2. answer[r] \in AllAnswers
  BY <1>1, QueryAssumption DEF QueryInv, QueryTypeOK
<1>3. answer[r].without \in 0..1 /\ answer[r].found \in 0..1
  BY <1>2 DEF AllAnswers
<1> QED  BY <1>1, <1>2, <1>3

CollectorStep(r) ==
  \/ AsyncWorkspaceCollectionComplete(r) \/ DropAnswer(r) \/ CommitAnswer(r)
  \/ StartCollectedLoad(r) \/ StartPing(r)

\* An answer is committed for the request that the query is recorded for.
LEMMA CollectorSteps ==
  ASSUME QueryInv, NEW r \in 1..MaxRequests, CollectorStep(r)
  PROVE  QueryInv'
<1> USE DEF QueryInv, ideVars
<1>1. UNCHANGED <<requests, ideSolution, deferred, g_vaManagedPackageSvc, forceTimer>>
  BY DEF CollectorStep, AsyncWorkspaceCollectionComplete, DropAnswer, CommitAnswer,
         StartCollectedLoad, StartPing
<1>2. CASE AsyncWorkspaceCollectionComplete(r)
  <2>1. /\ UNCHANGED <<gSqi, pingTimer>> /\ collector[r] = "asked"
        /\ collector' = [collector EXCEPT ![r] = "check"]
        /\ forced' = [forced EXCEPT ![r] = gSqi.force]
        /\ \E a \in Answers : answer' = [answer EXCEPT ![r] = a]
    BY <1>2 DEF AsyncWorkspaceCollectionComplete
  <2>2. QueryTypeOK'
    <3>1. forced' \in [1..MaxRequests -> BOOLEAN]
      BY <2>1 DEF QueryTypeOK, Query
    <3>2. answer' \in [1..MaxRequests -> Answers \cup {NoAnswer}]
      BY <2>1 DEF QueryTypeOK
    <3>3. collector' \in [1..MaxRequests -> {"none", "asked", "check", "start", "tail"}]
      BY <2>1 DEF QueryTypeOK
    <3> QED  BY <1>1, <2>1, <3>1, <3>2, <3>3 DEF QueryTypeOK
  <2>3. CollectorOK'
    <3> SUFFICES ASSUME NEW u \in 1..MaxRequests
                 PROVE  /\ collector'[u] # "none" => u <= Len(requests)
                        /\ collector'[u] = "start" \/ (collector'[u] = "check" /\ u = gSqi.id)
                             => forced'[u] = requests[u].force
      BY <1>1, <2>1 DEF CollectorOK
    <3>1. CASE u = r
      <4>1. collector'[u] = "check" /\ forced'[u] = gSqi.force /\ u <= Len(requests)
        BY <2>1, <3>1 DEF QueryTypeOK, CollectorOK
      <4>2. u = gSqi.id => requests[u].force = gSqi.force
        BY DEF IdOK
      <4> QED  BY <4>1, <4>2
    <3>2. CASE u # r  BY <2>1, <3>2 DEF QueryTypeOK, CollectorOK
    <3> QED  BY <3>1, <3>2
  <2> QED  BY <1>1, <2>1, <2>2, <2>3 DEF IdOK, CacheMatchesRequest
<1>3. CASE DropAnswer(r)
  <2>1. /\ UNCHANGED <<gSqi, pingTimer>>
        /\ collector' = [collector EXCEPT ![r] = "none"]
        /\ forced' = [forced EXCEPT ![r] = FALSE]
        /\ answer' = [answer EXCEPT ![r] = NoAnswer]
    BY <1>3 DEF DropAnswer, Finished
  <2>2. QueryTypeOK'  BY <1>1, <2>1 DEF QueryTypeOK
  <2>3. CollectorOK'  BY <1>1, <2>1 DEF QueryTypeOK, CollectorOK
  <2> QED  BY <1>1, <2>1, <2>2, <2>3 DEF IdOK, CacheMatchesRequest
<1>4. CASE CommitAnswer(r)
  <2> DEFINE info == IF answer[r].empty THEN NoInfo
                     ELSE [file |-> requests[r].file, count |-> requests[r].count]
             since == gSqi.loadedSince \/ gSqi.indexed
  <2>1. /\ UNCHANGED <<forced, answer, pingTimer>> /\ collector[r] = "check"
        /\ collector' = [collector EXCEPT ![r] = "start"] /\ r = gSqi.id
        /\ gSqi' = [gSqi EXCEPT !.info = info, !.without = answer[r].without,
                                !.found = answer[r].found, !.loadedSince = since]
    BY <1>4 DEF CommitAnswer, IsCurrent
  <2>2. r \in 1..Len(requests) /\ requests[r] \in Requests
        /\ requests[r] = [file |-> gSqi.file, count |-> gSqi.count, force |-> gSqi.force]
    BY <2>1 DEF CollectorOK, IdOK, QueryTypeOK, Requests
  <2>3. info \in Infos /\ since \in BOOLEAN
        /\ (info # NoInfo => info.file = gSqi.file /\ info.count = gSqi.count)
    BY <2>2 DEF Infos, Requests
  <2> HIDE DEF info, since
  <2>4. /\ gSqi' \in Query /\ gSqi'.file = gSqi.file /\ gSqi'.count = gSqi.count
        /\ gSqi'.id = gSqi.id /\ gSqi'.force = gSqi.force /\ gSqi'.info = info
    BY <2>1, <2>3, AnswerTypes DEF QueryTypeOK, Query
  <2>5. QueryTypeOK'  BY <1>1, <2>1, <2>4 DEF QueryTypeOK
  <2>6. CollectorOK'
    <3> SUFFICES ASSUME NEW u \in 1..MaxRequests
                 PROVE  /\ collector'[u] # "none" => u <= Len(requests)
                        /\ collector'[u] = "start" \/ (collector'[u] = "check" /\ u = gSqi.id)
                             => forced[u] = requests[u].force
      BY <1>1, <2>1, <2>4 DEF CollectorOK
    <3>1. CASE u = r  BY <2>1, <3>1 DEF CollectorOK
    <3>2. CASE u # r  BY <2>1, <3>2 DEF QueryTypeOK, CollectorOK
    <3> QED  BY <3>1, <3>2
  <2> QED  BY <1>1, <2>3, <2>4, <2>5, <2>6 DEF IdOK, CacheMatchesRequest
<1>5. CASE StartCollectedLoad(r)
  <2>1. /\ UNCHANGED <<gSqi, forced, answer, pingTimer>> /\ collector[r] = "start"
        /\ collector' = [collector EXCEPT ![r] = "tail"]
    BY <1>5 DEF StartCollectedLoad
  <2>2. QueryTypeOK'  BY <1>1, <2>1 DEF QueryTypeOK
  <2>3. CollectorOK'  BY <1>1, <2>1 DEF QueryTypeOK, CollectorOK
  <2> QED  BY <1>1, <2>1, <2>2, <2>3 DEF IdOK, CacheMatchesRequest
<1>6. CASE StartPing(r)
  <2>1. /\ collector' = [collector EXCEPT ![r] = "none"]
        /\ forced' = [forced EXCEPT ![r] = FALSE]
        /\ answer' = [answer EXCEPT ![r] = NoAnswer]
        /\ pingTimer' \in BOOLEAN
    BY <1>6 DEF StartPing, Finished, QueryTypeOK
  <2>2. gSqi' = gSqi \/ \E s \in BOOLEAN : gSqi' = [gSqi EXCEPT !.indexed = TRUE, !.loadedSince = s]
    <3>1. gSqi' = gSqi \/ gSqi' = [gSqi EXCEPT !.indexed = TRUE,
                                      !.loadedSince = gSqi.loadedSince \/ ~gSqi.indexed]
      BY <1>6 DEF StartPing
    <3>2. (gSqi.loadedSince \/ ~gSqi.indexed) \in BOOLEAN  OBVIOUS
    <3> QED  BY <3>1, <3>2
  <2>3. /\ gSqi' \in Query /\ gSqi'.file = gSqi.file /\ gSqi'.count = gSqi.count
        /\ gSqi'.id = gSqi.id /\ gSqi'.force = gSqi.force /\ gSqi'.info = gSqi.info
    BY <2>2 DEF QueryTypeOK, Query
  <2>4. QueryTypeOK'  BY <1>1, <2>1, <2>3 DEF QueryTypeOK
  <2>5. CollectorOK'  BY <1>1, <2>1, <2>3 DEF QueryTypeOK, CollectorOK
  <2> QED  BY <1>1, <2>3, <2>4, <2>5 DEF IdOK, CacheMatchesRequest
<1> QED  BY <1>2, <1>3, <1>4, <1>5, <1>6 DEF CollectorStep

-----------------------------------------------------------------------------
(* The steps that are about neither a request nor a loader.                *)

FreeUi ==
  [pc : UiStates \ {"stop"}, pl : {0},
   why : {"", "completed", "check", "ping", "force", "notice"}]

FlagTypes ==
  /\ mIsLoading \in BOOLEAN /\ mCleanLoad \in BOOLEAN /\ StopIt \in BOOLEAN
  /\ posted \in Nat /\ retryWork \in Nat /\ retryTimer \in BOOLEAN
  /\ events \in 0..MaxEvents

\* What a step leaves of the query and of the load that it does not touch.
QueryKept ==
  /\ UNCHANGED <<requests, collectorVars>>
  /\ gSqi' = gSqi \/ gSqi' = InitialQuery \/ Indexed
  /\ pingTimer' \in BOOLEAN /\ forceTimer' \in BOOLEAN
LoadKept == UNCHANGED <<mCleanLoad, listVars, loaderVars>>

\* A step of the UI thread that does not wait for a loader.
UiFree == ui.pc # "stop" /\ ui' \in FreeUi
UiKept == ui' = ui \/ UiFree
AskKept == ui' # ui => (ui'.pc = "ask" => ideSolution # NoSolution)

LEMMA UiAtFree ==
  /\ UiAt("tidy", "", 0) \in FreeUi /\ UiAt("tidy", "", 0).pc = "tidy"
  /\ UiAt("launch", "", 0) \in FreeUi /\ UiAt("launch", "", 0).pc = "launch"
  /\ UiAt("compare", "", 0) \in FreeUi /\ UiAt("compare", "", 0).pc = "compare"
  /\ UiAt("indexed", "", 0) \in FreeUi /\ UiAt("indexed", "", 0).pc = "indexed"
  /\ UiAt("ask", "ping", 0) \in FreeUi /\ UiAt("ask", "force", 0) \in FreeUi
  /\ UiAt("ask", "check", 0) \in FreeUi /\ UiAt("ask", "notice", 0) \in FreeUi
  /\ UiAt("ask", "completed", 0) \in FreeUi
  /\ Idle \in FreeUi /\ Idle.pc = "idle"
BY DEF UiAt, FreeUi, Idle, UiStates

LEMMA CompletedStep ==
  ASSUME NEW force \in BOOLEAN, NEW sync \in BOOLEAN, SolutionLoadCompleted(force, sync)
  PROVE  /\ gSqi' = gSqi \/ gSqi' = InitialQuery
         /\ ui' \in FreeUi /\ (ui'.pc = "ask" => ideSolution # NoSolution)
<1>2. gSqi' = gSqi \/ gSqi' = InitialQuery  BY DEF SolutionLoadCompleted, Reset
<1>3. \/ ui' = UiAt("ask", "completed", 0) /\ WantsRequest(TRUE)
      \/ ui' \in {UiAt("launch", "", 0), UiAt("compare", "", 0)}
      \/ ui' = UiAt("ask", "check", 0) /\ ideSolution # NoSolution
  BY DEF SolutionLoadCompleted
<1> QED  BY <1>2, <1>3, UiAtFree DEF WantsRequest

\* How the listener changes the project.
LEMMA ListenerCalls ==
  ASSUME QueryTypeOK, FlagTypes, ui.pc = "idle",
         \/ Starting \/ Closing \/ Quietly \/ StartingAndCompleted
         \/ (\E force \in BOOLEAN : Completed(force))
         \/ \E b \in BOOLEAN : StartingIf(b)
  PROVE  /\ QueryKept /\ LoadKept /\ UiKept /\ AskKept
         /\ mIsLoading' \in BOOLEAN /\ StopIt' \in BOOLEAN
         /\ UNCHANGED <<posted, retryWork, retryTimer>>
         /\ Starting \/ Closing \/ Quietly \/ (\E b \in BOOLEAN : StartingIf(b)) =>
              UNCHANGED ui
<1> USE DEF QueryKept, LoadKept, UiKept, UiFree, AskKept, QueryTypeOK, FlagTypes, queryVars,
            workVars
<1>1. CASE Starting \/ Closing \/ Quietly \/ \E b \in BOOLEAN : StartingIf(b)
  <2>1. /\ UNCHANGED <<requests, collectorVars, gSqi, pingTimer, forceTimer, ui, posted,
                       retryWork, retryTimer, mCleanLoad, listVars, loaderVars>>
        /\ mIsLoading' \in BOOLEAN /\ StopIt' \in BOOLEAN
    BY <1>1 DEF StartingIf, Starting, Closing, SolutionClosing, SolutionLoadStarting, Quietly, loadVars
  <2> QED  BY <2>1
<1>2. CASE StartingAndCompleted \/ \E force \in BOOLEAN : Completed(force)
  <2>1. /\ UNCHANGED <<requests, collectorVars, pingTimer, forceTimer, posted,
                       retryWork, retryTimer, mCleanLoad, listVars, loaderVars, StopIt>>
        /\ mIsLoading' \in BOOLEAN
        /\ \E force \in BOOLEAN : SolutionLoadCompleted(force, FALSE)
    BY <1>2 DEF StartingAndCompleted, Completed, SolutionLoadStarting
  <2>2. /\ gSqi' = gSqi \/ gSqi' = InitialQuery
        /\ ui' \in FreeUi /\ (ui'.pc = "ask" => ideSolution # NoSolution)
    BY <2>1, CompletedStep
  <2>3. QueryKept /\ LoadKept  BY <2>1, <2>2
  <2>4. UiKept /\ AskKept  BY <2>2
  <2>5. (Starting \/ Closing \/ Quietly \/ \E b \in BOOLEAN : StartingIf(b)) => UNCHANGED ui
    BY DEF StartingIf, Starting, Closing, Quietly, loadVars
  <2> QED  BY <2>1, <2>3, <2>4, <2>5
<1> QED  BY <1>1, <1>2

Kept == Quiet /\ LoadKept /\ UiKept /\ AskOK' /\ FlagTypes'

IdeTypes ==
  /\ ideSolution \in Solutions \cup {NoSolution} /\ deferred \in 0..MaxDeferred
  /\ g_vaManagedPackageSvc \in BOOLEAN

\* What the IDE tells, the listener's timers and the commands.
LEMMA NotificationStep ==
  ASSUME QueryTypeOK, FlagTypes, AskOK, Notification \/ TimerFired
  PROVE  Kept
<1> DEFINE Calls == \/ Starting \/ Closing \/ Quietly \/ StartingAndCompleted
                    \/ (\E force \in BOOLEAN : Completed(force))
                    \/ \E b \in BOOLEAN : StartingIf(b)
           Silent == Starting \/ Closing \/ Quietly \/ \E b \in BOOLEAN : StartingIf(b)
<1>1. SUFFICES ASSUME ~OnWorkspacePropertyChanged, ~LoadManagedPackage
               PROVE  /\ ui.pc = "idle" /\ events' \in 0..MaxEvents /\ IdeTypes' /\ Calls
                      /\ ideSolution' = ideSolution \/ Silent
  <2>1. CASE ~OnWorkspacePropertyChanged /\ ~LoadManagedPackage
    <3>1. /\ ui.pc = "idle" /\ events' \in 0..MaxEvents /\ IdeTypes' /\ Calls
          /\ ideSolution' = ideSolution \/ Silent
      BY <2>1, <1>1
    <3> HIDE DEF Calls, Silent
    <3>2. /\ QueryKept /\ LoadKept /\ UiKept /\ AskKept
          /\ mIsLoading' \in BOOLEAN /\ StopIt' \in BOOLEAN
          /\ UNCHANGED <<posted, retryWork, retryTimer>> /\ (Silent => UNCHANGED ui)
      BY <3>1, ListenerCalls DEF Calls, Silent
    <3>3. Quiet  BY <3>1, <3>2 DEF Quiet, QueryKept, IdeTypes
    <3>4. AskOK'  BY <3>1, <3>2 DEF AskOK, AskKept
    <3>5. FlagTypes'  BY <3>1, <3>2 DEF FlagTypes, LoadKept
    <3> QED  BY <3>2, <3>3, <3>4, <3>5 DEF Kept
  <2>2. CASE OnWorkspacePropertyChanged
    <3>1. /\ UNCHANGED <<requests, collectorVars, forceTimer, ideSolution, deferred,
                         g_vaManagedPackageSvc, eventRest, workVars>>
          /\ ui.pc = "idle" /\ events' \in 0..MaxEvents
      <4>1. UNCHANGED <<requests, collectorVars, forceTimer, eventRest, workVars>>
        BY <2>2 DEF OnWorkspacePropertyChanged
      <4>2. SameIde /\ Notice  BY <2>2 DEF OnWorkspacePropertyChanged
      <4> QED  BY <4>1, <4>2, LoadAssumption DEF Notice, Event, SameIde, FlagTypes
    <3>2. \/ UNCHANGED ui
          \/ ui' = UiAt("ask", "ping", 0) /\ WantsRequest(FALSE)
          \/ ui' = UiAt("ask", "notice", 0) /\ WantsRequest(FALSE)
          \/ ui' = UiAt("indexed", "", 0) \/ ui' = Idle
      BY <2>2
      DEF OnWorkspacePropertyChanged, VsWorkspaceIndexerFinishedBeforeLoad, QueryTypeOK, Indexed
    <3>3. (gSqi' = gSqi \/ Indexed) /\ pingTimer' \in BOOLEAN
      BY <2>2
      DEF OnWorkspacePropertyChanged, VsWorkspaceIndexerFinishedBeforeLoad, QueryTypeOK, Indexed
    <3>4. UiKept /\ AskOK'
      BY <3>1, <3>2, UiAtFree DEF UiKept, UiFree, AskOK, WantsRequest, UiStates
    <3>5. Quiet  BY <3>1, <3>3 DEF Quiet, QueryTypeOK
    <3>6. LoadKept /\ FlagTypes'
      BY <3>1 DEF LoadKept, FlagTypes, eventRest, workVars
    <3> QED  BY <3>4, <3>5, <3>6 DEF Kept
  <2>3. CASE LoadManagedPackage
    <3>1. /\ UNCHANGED <<queryVars, loadVars, ideSolution, deferred, events>>
          /\ g_vaManagedPackageSvc' = TRUE
      BY <2>3 DEF LoadManagedPackage
    <3> QED
      BY <3>1
      DEF Kept, Quiet, LoadKept, UiKept, AskOK, FlagTypes, queryVars, loadVars, workVars, QueryTypeOK
  <2> QED  BY <2>1, <2>2, <2>3
<1>2. CASE \/ \E s \in Solutions \ Folders : OnBeforeOpenSolution(s) \/ OpenFileWithoutSolution(s)
           \/ \E s \in Folders : OpenFolder(s)
  <2>1. PICK s \in Solutions : OnBeforeOpenSolution(s) \/ OpenFileWithoutSolution(s) \/ OpenFolder(s)
    BY <1>2, QueryAssumption
  <2>2. /\ Opened(s) /\ ui.pc = "idle" /\ events' \in 0..MaxEvents
        /\ Starting \/ Quietly \/ StartingIf(StartsLoad(sl))
    BY <2>1, LoadAssumption
    DEF OnBeforeOpenSolution, OpenFileWithoutSolution, OpenFolder, Notice, Event, FlagTypes
  <2>3. StartsLoad(sl) \in BOOLEAN  BY DEF StartsLoad
  <2>4. IdeTypes'  BY <2>2, QueryAssumption DEF Opened, IdeTypes, QueryTypeOK
  <2> QED  BY <2>2, <2>3, <2>4
<1>3. CASE \/ OnAfterOpenSolution \/ OnAfterOpenFolder
           \/ OnBeforeBackgroundSolutionLoadBegins \/ OnAfterBackgroundSolutionLoadComplete
           \/ OnAfterLoadProject \/ OnBeforeUnloadProject
           \/ OnAfterActiveSolutionCfgChange \/ OnBeforeCloseSolution \/ ReloadSolution
  <2>1. SameIde /\ ui.pc = "idle" /\ events' \in 0..MaxEvents
    BY <1>3, LoadAssumption
    DEF OnAfterOpenSolution, OnAfterOpenFolder, OnBeforeBackgroundSolutionLoadBegins,
        OnAfterBackgroundSolutionLoadComplete, OnAfterLoadProject, OnBeforeUnloadProject,
        OnAfterActiveSolutionCfgChange, OnBeforeCloseSolution, ReloadSolution, Notice, Event,
        FlagTypes
  <2>2. \/ Starting \/ Closing \/ Quietly \/ StartingAndCompleted
        \/ Completed(ForceLoad) \/ StartingIf(StartsLoad(sl))
    BY <1>3
    DEF OnAfterOpenSolution, OnAfterOpenFolder, OnBeforeBackgroundSolutionLoadBegins,
        OnAfterBackgroundSolutionLoadComplete, OnAfterLoadProject, OnBeforeUnloadProject,
        OnAfterActiveSolutionCfgChange, OnBeforeCloseSolution, ReloadSolution
  <2>3. ForceLoad \in BOOLEAN /\ StartsLoad(sl) \in BOOLEAN  BY DEF ForceLoad, StartsLoad
  <2>4. Calls  BY <2>2, <2>3
  <2> HIDE DEF Calls, Silent
  <2> QED  BY <2>1, <2>4 DEF SameIde, IdeTypes, QueryTypeOK
<1>4. CASE OnAfterOpenProject \/ OnAfterCloseSolution
  <2>1. /\ ui.pc = "idle" /\ events' \in 0..MaxEvents
        /\ Quietly \/ StartingIf(sl.state \in {"Closing", "LoadComplete", "Closed"})
    BY <1>4, LoadAssumption
    DEF OnAfterOpenProject, OnAfterCloseSolution, Notice, Event, FlagTypes
  <2>2. Silent
    <3>1. (sl.state \in {"Closing", "LoadComplete", "Closed"}) \in BOOLEAN  OBVIOUS
    <3> QED  BY <2>1, <3>1
  <2>3. IdeTypes'
    BY <1>4, QueryAssumption DEF OnAfterOpenProject, OnAfterCloseSolution, IdeTypes, QueryTypeOK
  <2> QED  BY <2>1, <2>2, <2>3
<1>5. CASE TimerFired
  <2>1. /\ SameIde /\ ui.pc = "idle" /\ events' \in 0..MaxEvents
        /\ Quietly \/ Completed(ForceLoad) \/ Completed(FALSE)
    BY <1>5
    DEF TimerFired, WaitingToCompleteReloadTimerFired, WaitingForStartOfBackgroundLoadTimerFired,
        WaitingForLoadStartTimerFired, TimerEvent, FlagTypes
  <2>2. ForceLoad \in BOOLEAN  BY DEF ForceLoad
  <2>3. Calls  BY <2>1, <2>2
  <2> HIDE DEF Calls, Silent
  <2> QED  BY <2>1, <2>3 DEF SameIde, IdeTypes, QueryTypeOK
<1> QED  BY <1>1, <1>2, <1>3, <1>4, <1>5 DEF Notification

\* The UI thread, but for requests and loaders.
LEMMA UiStep ==
  ASSUME QueryTypeOK, FlagTypes, AskOK,
         \/ NoteIndexerFinished \/ CompareProjects \/ UndoStarting \/ RejectLaunch
         \/ RunPostedCompleted \/ RetrySolutionLoad \/ ReloadRetryTimer
         \/ IndexerPingTimer \/ ForceRequestTimer
  PROVE  Kept
<1> USE DEF Kept, ideVars
<1>0. UNCHANGED <<ideSolution, deferred, g_vaManagedPackageSvc, requests, collectorVars>>
  BY DEF NoteIndexerFinished, CompareProjects, UndoStarting, RejectLaunch, RunPostedCompleted,
         RetrySolutionLoad, ReloadRetryTimer, IndexerPingTimer, ForceRequestTimer, UiAction,
         UiEvent, queryVars
<1>1. CASE NoteIndexerFinished
  <2>1. /\ UNCHANGED <<forceTimer, mIsLoading, mCleanLoad, StopIt, listVars, loaderVars,
                       workVars, events>>
        /\ gSqi' = [gSqi EXCEPT !.indexed = TRUE] /\ pingTimer' = FALSE
        /\ ui.pc = "indexed" /\ ui' = Idle
    BY <1>1 DEF NoteIndexerFinished, VsWorkspaceIndexerFinished, UiAction
  <2>2. Quiet  BY <1>0, <2>1 DEF Quiet, Indexed, QueryTypeOK
  <2>3. LoadKept /\ FlagTypes'  BY <2>1 DEF LoadKept, FlagTypes, workVars
  <2> QED  BY <2>1, <2>2, <2>3, UiAtFree DEF UiKept, UiFree, AskOK
<1>2. CASE CompareProjects \/ UndoStarting \/ RejectLaunch
  <2>1. /\ UNCHANGED <<queryVars, mCleanLoad, listVars, loaderVars>>
        /\ ui.pc # "stop" /\ ui' \in {UiAt("tidy", "", 0), UiAt("launch", "", 0), Idle}
        /\ mIsLoading' \in BOOLEAN /\ StopIt' \in BOOLEAN
        /\ UNCHANGED <<posted, retryWork>> /\ retryTimer' \in BOOLEAN
        /\ events' \in 0..MaxEvents
    <3>1. CASE CompareProjects  BY <3>1 DEF CompareProjects, UiAction, FlagTypes, workVars
    <3>2. CASE UndoStarting  BY <3>2 DEF UndoStarting, UiAction, FlagTypes, workVars
    <3>3. CASE RejectLaunch
      BY <3>3, LoadAssumption DEF RejectLaunch, UiAction, Event, FlagTypes
    <3> QED  BY <1>2, <3>1, <3>2, <3>3
  <2>2. Quiet  BY <1>0, <2>1 DEF Quiet, queryVars, QueryTypeOK
  <2>3. LoadKept /\ FlagTypes'  BY <2>1 DEF LoadKept, FlagTypes
  <2>4. UiKept /\ AskOK'
    BY <2>1, UiAtFree DEF UiKept, UiFree, AskOK, UiStates
  <2> QED  BY <2>2, <2>3, <2>4
<1>3. CASE RunPostedCompleted \/ RetrySolutionLoad
  <2>1. /\ UNCHANGED <<pingTimer, forceTimer, eventRest, retryTimer, events>>
        /\ ui.pc = "idle" /\ posted' \in Nat /\ retryWork' \in Nat
        /\ SolutionLoadCompleted(TRUE, TRUE) \/ SolutionLoadCompleted(FALSE, FALSE)
    <3>1. CASE RunPostedCompleted
      <4>1. posted' = posted - 1 /\ posted > 0 /\ UNCHANGED retryWork
        BY <3>1 DEF RunPostedCompleted
      <4>2. posted' \in Nat /\ retryWork' \in Nat  BY <4>1 DEF FlagTypes
      <4> QED  BY <3>1, <4>2 DEF RunPostedCompleted, UiEvent
    <3>2. CASE RetrySolutionLoad
      <4>1. retryWork' = retryWork - 1 /\ retryWork > 0 /\ UNCHANGED posted
        BY <3>2 DEF RetrySolutionLoad
      <4>2. posted' \in Nat /\ retryWork' \in Nat  BY <4>1 DEF FlagTypes
      <4> QED  BY <3>2, <4>2 DEF RetrySolutionLoad, UiEvent
    <3> QED  BY <1>3, <3>1, <3>2
  <2>2. /\ gSqi' = gSqi \/ gSqi' = InitialQuery
        /\ ui' \in FreeUi /\ (ui'.pc = "ask" => ideSolution # NoSolution)
    BY <2>1, CompletedStep
  <2>3. Quiet  BY <1>0, <2>1, <2>2 DEF Quiet, QueryTypeOK
  <2>4. LoadKept /\ FlagTypes'  BY <2>1 DEF LoadKept, FlagTypes, eventRest
  <2> QED  BY <1>0, <2>1, <2>2, <2>3, <2>4 DEF UiKept, UiFree, AskOK
<1>4. CASE ReloadRetryTimer \/ IndexerPingTimer \/ ForceRequestTimer
  <2>1. /\ UNCHANGED <<gSqi, eventRest, posted, retryWork, events>>
        /\ ui.pc = "idle" /\ retryTimer' \in BOOLEAN
        /\ pingTimer' \in BOOLEAN /\ forceTimer' \in BOOLEAN
        /\ \/ ui' \in {UiAt("launch", "", 0), Idle}
           \/ ui' \in {UiAt("ask", "ping", 0), UiAt("ask", "force", 0)} /\ ideSolution # NoSolution
    BY <1>4
    DEF ReloadRetryTimer, IndexerPingTimer, ForceRequestTimer, UiEvent, FlagTypes,
        WantsRequest, workVars, queryVars, QueryTypeOK
  <2>2. Quiet  BY <1>0, <2>1 DEF Quiet, QueryTypeOK
  <2>3. LoadKept /\ FlagTypes'  BY <2>1 DEF LoadKept, FlagTypes, eventRest
  <2>4. UiKept /\ AskOK'
    BY <1>0, <2>1, UiAtFree DEF UiKept, UiFree, AskOK, UiStates
  <2> QED  BY <2>2, <2>3, <2>4
<1> QED  BY <1>1, <1>2, <1>3, <1>4

LEMMA AskStep ==
  ASSUME QueryInv, FlagTypes, AskOK, AskQuery
  PROVE  QueryInv' /\ LoadKept /\ UiKept /\ AskOK' /\ FlagTypes'
<1>1. /\ ui.pc = "ask" /\ UNCHANGED ideVars /\ ideSolution # NoSolution
      /\ \E force \in BOOLEAN, resets \in BOOLEAN :
           RequestAsyncWorkspaceCollection(force, resets)
  <2>1. (ui.why \in {"completed", "check", "force"}) \in BOOLEAN
        /\ (ui.why = "completed") \in BOOLEAN
    OBVIOUS
  <2> QED  BY <2>1 DEF AskQuery, UiAction, AskOK
<1>2. QueryInv'  BY <1>1, RequestStep
<1>3. /\ UNCHANGED <<mIsLoading, mCleanLoad, StopIt, listVars, loaderVars, workVars, events>>
      /\ ui' \in {UiAt("launch", "", 0), UiAt("tidy", "", 0), UiAt("indexed", "", 0), Idle}
  BY DEF AskQuery
<1>4. UiKept /\ AskOK'  BY <1>1, <1>3, UiAtFree DEF UiKept, UiFree, AskOK, UiStates
<1> QED  BY <1>2, <1>3, <1>4 DEF LoadKept, FlagTypes, workVars

LEMMA CollectorKeeps ==
  ASSUME QueryInv, FlagTypes, AskOK, NEW r \in 1..MaxRequests, Collector(r)
  PROVE  QueryInv' /\ LoadKept /\ UiKept /\ AskOK' /\ FlagTypes'
<1>1. QueryInv'  BY CollectorSteps DEF Collector, CollectorStep
<1>2. /\ UNCHANGED <<mCleanLoad, StopIt, listVars, loaderVars, ui, retryWork, retryTimer,
                     events, ideSolution>>
      /\ mIsLoading' \in BOOLEAN /\ posted' \in Nat
  <2>1. CASE StartCollectedLoad(r)
    BY <2>1 DEF StartCollectedLoad, SolutionLoadStarting, FlagTypes, ideVars
  <2>2. CASE UNCHANGED <<loadVars, events>> /\ UNCHANGED ideSolution
    BY <2>2 DEF FlagTypes, loadVars, workVars
  <2> QED
    BY <2>1, <2>2
    DEF Collector, AsyncWorkspaceCollectionComplete, DropAnswer, CommitAnswer, StartPing, ideVars
<1> QED  BY <1>1, <1>2 DEF LoadKept, UiKept, AskOK, FlagTypes

LoaderStep == StopLoader \/ StartLoader \/ \E l \in Loaders : Loader(l)

\* Loaders leave the query alone.
LEMMA LoaderStepKeeps ==
  ASSUME QueryInv, FlagTypes, AskOK, LoaderStep
  PROVE  QueryInv' /\ AskOK' /\ FlagTypes'
<1>1. CASE StopLoader \/ StartLoader
  <2>1. /\ UNCHANGED <<ideVars, queryVars>> /\ UNCHANGED <<mCleanLoad, posted, retryTimer>>
        /\ mIsLoading' \in BOOLEAN /\ StopIt' \in BOOLEAN
        /\ retryWork' \in Nat /\ events' \in 0..MaxEvents /\ ui'.pc # "ask"
    <3>1. CASE StopLoader
      BY <3>1 DEF StopLoader, UiAction, FlagTypes, workVars, UiAt
    <3>2. CASE StartLoader
      <4>1. /\ UNCHANGED <<ideVars, queryVars>> /\ UNCHANGED <<mCleanLoad, posted, retryTimer>>
            /\ UNCHANGED StopIt /\ mIsLoading' = TRUE /\ ui' = Idle
            /\ UNCHANGED events \/ Event
            /\ retryWork' \in Nat
        BY <3>2 DEF StartLoader, UiAction, FlagTypes
      <4>2. events' \in 0..MaxEvents  BY <4>1, LoadAssumption DEF Event, FlagTypes
      <4>3. ui'.pc # "ask"  BY <4>1, UiAtFree
      <4> QED  BY <4>1, <4>2, <4>3 DEF FlagTypes
    <3> QED  BY <1>1, <3>1, <3>2
  <2>2. Quiet  BY <2>1 DEF Quiet, ideVars, queryVars, QueryInv, QueryTypeOK
  <2> QED  BY <2>1, <2>2, QuietStep DEF AskOK, FlagTypes
<1>2. ASSUME NEW l \in Loaders, Loader(l) PROVE QueryInv' /\ AskOK' /\ FlagTypes'
  <2>1. UNCHANGED <<ideVars, queryVars, ui, posted, retryWork, events>>
    BY <1>2
    DEF Loader, EnterLoad, BeginLoad, FinishGetSolutionInfo, GiveUp, GoOn, FillProjectMap,
        EndLoad, EndRun, LoaderAction
  <2>2. /\ mIsLoading' \in BOOLEAN /\ StopIt' \in BOOLEAN /\ mCleanLoad' \in BOOLEAN
        /\ retryTimer' \in BOOLEAN
    BY <1>2
    DEF Loader, EnterLoad, BeginLoad, FinishGetSolutionInfo, GiveUp, GoOn, FillProjectMap,
        EndLoad, EndRun, FlagTypes, loaderRest, CleanAfter
  <2>3. Quiet  BY <2>1 DEF Quiet, ideVars, queryVars, QueryInv, QueryTypeOK
  <2> QED  BY <2>1, <2>2, <2>3, QuietStep DEF AskOK, FlagTypes, ideVars
<1> QED  BY <1>1, <1>2 DEF LoaderStep

-----------------------------------------------------------------------------
(* The loaders.                                                            *)

Places == {"none", "queued", "lock", "gather", "call", "check", "commit", "symbols", "over",
           "ended"}
Inside == {"gather", "call", "check", "commit", "symbols"}

LoaderTypes ==
  /\ mRawProjectList \in Contents /\ mProjectHash \in Contents /\ loaded \in Contents
  /\ launched \in 0..MaxLoads
  /\ lpc \in [Loaders -> Places] /\ content \in [Loaders -> Contents]
  /\ refs \in [Loaders -> Int]
  /\ g_pl \in 0..launched /\ dirLock \in 0..launched
  /\ ui \in [pc : UiStates, pl : 0..launched,
             why : {"", "completed", "check", "ping", "force", "notice"}]

\* sPendingLoads counts the loaders that wait for the lock.
AtLock == {l \in Loaders : lpc[l] = "lock"}
PendingOK == sPendingLoads = Cardinality(AtLock)

RefsOK ==
  /\ \A l \in Loaders : lpc[l] = "none" <=> l > launched
  /\ ui.pc # "stop" => ui.pl = 0
  /\ ui.pc = "stop" => launched < MaxLoads
  /\ RegisteredLoaderLives

DirOK == \A l \in Loaders : lpc[l] \in Inside <=> dirLock = l

\* A loader that has not begun will load what the last launch read; without one,
\* the loader that is inside and has passed the last test does.
Behind == \E l \in Loaders : lpc[l] \in {"queued", "lock"}
UpToDate == List(loaded) = List(mProjectHash)
LoadedOK ==
  ~Behind =>
    /\ mCleanLoad /\ dirLock = 0 => UpToDate
    /\ \A l \in Loaders :
         /\ lpc[l] = "symbols" => UpToDate
         /\ lpc[l] = "commit" => List(content[l]) = List(mProjectHash)

LoaderInv == LoaderTypes /\ PendingOK /\ RefsOK /\ DirOK /\ LoadedOK

LEMMA LoaderRange == MaxLoads \in Nat /\ Loaders = 1..MaxLoads
BY LoadAssumption DEF Loaders

LEMMA LaunchedRange ==
  ASSUME launched \in 0..MaxLoads
  PROVE  launched \in Nat /\ \A l \in 0..launched : l # 0 => l \in Loaders
BY LoaderRange

LEMMA LoaderNumbers ==
  /\ Loaders = 1..MaxLoads /\ MaxLoads \in Nat /\ IsFiniteSet(Loaders)
  /\ IsFiniteSet(AtLock) /\ Cardinality(AtLock) \in 0..MaxLoads
<1>1. MaxLoads \in Nat /\ IsFiniteSet(Loaders) /\ Cardinality(Loaders) = MaxLoads
  BY LoadAssumption, FS_Interval DEF Loaders
<1>2. AtLock \in SUBSET Loaders  BY DEF AtLock
<1>3. IsFiniteSet(AtLock) /\ Cardinality(AtLock) <= MaxLoads  BY <1>1, <1>2, FS_Subset
<1>4. Cardinality(AtLock) \in Nat  BY <1>3, FS_CardinalityType
<1> QED  BY <1>1, <1>3, <1>4 DEF Loaders

UiTypes(n) ==
  [pc : UiStates, pl : 0..n, why : {"", "completed", "check", "ping", "force", "notice"}]

LEMMA FreeUiType ==
  ASSUME NEW n \in Nat, NEW u \in FreeUi
  PROVE  u \in UiTypes(n) /\ u.pl = 0 /\ u.pc # "stop"
<1>1. 0 \in 0..n  OBVIOUS
<1> QED  BY <1>1 DEF FreeUi, UiTypes, UiStates

LEMMA LoaderInvInit == Init => LoaderInv /\ FlagTypes
<1> SUFFICES ASSUME Init PROVE LoaderInv /\ FlagTypes  OBVIOUS
<1> USE DEF Init, LoadInit
<1>1. Empty \in Contents
  <2>1. 0 \in 0..MaxDeferred  BY QueryAssumption
  <2> QED  BY <2>1 DEF Empty, Contents, Infos
<1>2. ui = Idle /\ ui \in UiTypes(0) /\ ui.pl = 0 /\ ui.pc = "idle"
  <2>1. ui = Idle  OBVIOUS
  <2> QED  BY <2>1, UiAtFree, FreeUiType
<1>3. LoaderTypes
  <2>1. lpc \in [Loaders -> Places] /\ content \in [Loaders -> Contents]
    BY <1>1 DEF Places
  <2>2. refs \in [Loaders -> Int]  OBVIOUS
  <2>3. launched = 0 /\ launched \in 0..MaxLoads /\ 0 \in 0..launched
    BY LoaderRange
  <2> QED  BY <1>1, <1>2, <2>1, <2>2, <2>3 DEF LoaderTypes, UiTypes
<1>4. PendingOK
  <2>1. AtLock = {}  BY DEF AtLock
  <2> QED  BY <2>1, FS_EmptySet DEF PendingOK
<1>5. RefsOK
  <2>1. \A l \in Loaders : lpc[l] = "none" /\ l > launched /\ refs[l] = 0 /\ ui.pl # l
    BY <1>2, LoaderRange
  <2>2. RegisteredLoaderLives
    BY <1>2, <2>1 DEF RegisteredLoaderLives, LoaderGone
  <2> QED  BY <1>2, <2>1, <2>2 DEF RefsOK
<1>6. DirOK /\ LoadedOK
  <2>1. \A l \in Loaders : lpc[l] = "none" /\ l # 0  BY LoaderRange
  <2> QED  BY <2>1 DEF DirOK, LoadedOK, Behind, UpToDate, Inside
<1>7. FlagTypes
  <2>1. 0 \in 0..MaxEvents /\ 0 \in Nat  BY LoadAssumption
  <2> QED  BY <2>1 DEF FlagTypes
<1> QED  BY <1>3, <1>4, <1>5, <1>6, <1>7 DEF LoaderInv

LEMMA LoaderKept ==
  ASSUME LoaderInv, LoadKept, UiKept
  PROVE  LoaderInv'
<1> USE DEF LoaderInv, LoadKept, listVars, loaderVars
<1>1. ui' \in UiTypes(launched)
      /\ (ui'.pc # "stop" => ui'.pl = 0) /\ ui'.pl = ui.pl /\ (ui'.pc = "stop" => ui.pc = "stop")
  <2>1. launched \in Nat  BY LaunchedRange DEF LoaderTypes
  <2>2. CASE ui' = ui  BY <2>2 DEF LoaderTypes, RefsOK, UiTypes
  <2>3. CASE UiFree  BY <2>1, <2>3, FreeUiType DEF UiFree, RefsOK
  <2> QED  BY <2>2, <2>3 DEF UiKept
<1>2. LoaderTypes'
  <2> USE DEF LoaderTypes
  <2>1. (mRawProjectList \in Contents /\ mProjectHash \in Contents /\ loaded \in Contents)'
    OBVIOUS
  <2>2. (lpc \in [Loaders -> Places] /\ content \in [Loaders -> Contents]
         /\ refs \in [Loaders -> Int])'
    OBVIOUS
  <2>3. (launched \in 0..MaxLoads /\ g_pl \in 0..launched /\ dirLock \in 0..launched)'
    OBVIOUS
  <2> QED  BY <1>1, <2>1, <2>2, <2>3 DEF UiTypes
<1>3. PendingOK'  BY DEF PendingOK, AtLock
<1>4. RefsOK'
  <2>1. RegisteredLoaderLives'  BY <1>1 DEF RefsOK, RegisteredLoaderLives, LoaderGone
  <2> QED  BY <1>1, <2>1 DEF RefsOK
<1>5. DirOK' /\ LoadedOK'  BY DEF DirOK, LoadedOK, Behind, UpToDate
<1> QED  BY <1>2, <1>3, <1>4, <1>5

\* The UI thread takes a reference while the loader that it stops is registered.
LEMMA StopLoaderStep ==
  ASSUME LoaderInv, StopLoader
  PROVE  LoaderInv'
<1> USE DEF LoaderInv
<1>1. /\ UNCHANGED <<mCleanLoad, listVars, launched, lpc, content, g_pl, dirLock, sPendingLoads>>
      /\ ui.pc = "launch" /\ launched < MaxLoads /\ ui' = UiAt("stop", "", g_pl)
      /\ refs' = IF g_pl = 0 THEN refs ELSE [refs EXCEPT ![g_pl] = @ + 1]
  BY DEF StopLoader, GetGlobalRef, UiAction
<1>2. /\ ui'.pc = "stop" /\ ui'.pl = g_pl /\ ui.pl = 0 /\ g_pl \in 0..launched
      /\ ui' \in UiTypes(launched)
  BY <1>1 DEF UiAt, UiStates, UiTypes, RefsOK, LoaderTypes
<1>3. (g_pl # 0 => g_pl \in Loaders) /\ refs \in [Loaders -> Int]
  BY LaunchedRange DEF LoaderTypes
<1>4. refs' \in [Loaders -> Int]
      /\ \A l \in Loaders : refs'[l] = refs[l] + (IF l = g_pl THEN 1 ELSE 0)
  <2>1. \A l \in Loaders : l # 0 /\ refs[l] \in Int /\ refs[l] + 0 = refs[l]
    BY <1>3, LoaderRange
  <2>2. refs' = IF g_pl = 0 THEN refs ELSE [refs EXCEPT ![g_pl] = refs[g_pl] + 1]  BY <1>1
  <2>3. CASE g_pl = 0
    <3>1. refs' = refs  BY <2>2, <2>3
    <3>2. \A l \in Loaders : l # g_pl  BY <2>1, <2>3
    <3> QED  BY <1>3, <2>1, <3>1, <3>2
  <2>4. CASE g_pl # 0
    <3>1. refs' = [refs EXCEPT ![g_pl] = refs[g_pl] + 1] /\ g_pl \in Loaders
      BY <1>3, <2>2, <2>4
    <3>2. refs[g_pl] + 1 \in Int  BY <2>1, <3>1
    <3>3. refs' \in [Loaders -> Int]  BY <1>3, <3>1, <3>2
    <3> QED  BY <1>3, <2>1, <3>1, <3>3
  <2> QED  BY <2>3, <2>4
<1>5. LoaderTypes'
  <2>1. lpc' \in [Loaders -> Places] /\ content' \in [Loaders -> Contents]
    BY <1>1 DEF LoaderTypes
  <2>2. (mRawProjectList \in Contents /\ mProjectHash \in Contents /\ loaded \in Contents)'
    BY <1>1 DEF LoaderTypes, listVars
  <2>3. (launched \in 0..MaxLoads /\ g_pl \in 0..launched /\ dirLock \in 0..launched)'
    BY <1>1 DEF LoaderTypes
  <2> QED  BY <1>1, <1>2, <1>4, <2>1, <2>2, <2>3 DEF LoaderTypes, UiTypes
<1>6. PendingOK' /\ DirOK' /\ LoadedOK'
  BY <1>1 DEF PendingOK, AtLock, DirOK, LoadedOK, Behind, UpToDate, listVars
<1>7. RefsOK'
  <2>1. \A l \in Loaders : refs'[l] = (IF LoaderGone(l) THEN 0 ELSE 2) + (IF g_pl = l THEN 1 ELSE 0)
    <3> TAKE l \in Loaders
    <3>1. refs[l] = (IF LoaderGone(l) THEN 0 ELSE 2) + (IF ui.pl = l THEN 1 ELSE 0)
      BY DEF RefsOK, RegisteredLoaderLives
    <3>2. ui.pl # l  BY <1>2, LoaderRange
    <3> QED  BY <1>4, <3>1, <3>2
  <2>2. RegisteredLoaderLives'
    BY <1>1, <1>2, <2>1 DEF RefsOK, RegisteredLoaderLives, LoaderGone
  <2> QED  BY <1>1, <1>2, <2>2 DEF RefsOK
<1> QED  BY <1>5, <1>6, <1>7

LEMMA ReadContents ==
  ASSUME QueryTypeOK
  PROVE  CurrentContent(TRUE) \in Contents /\ Empty \in Contents
<1>1. Empty \in Contents
  <2>1. 0 \in 0..MaxDeferred  BY QueryAssumption
  <2> QED  BY <2>1 DEF Empty, Contents, Infos
<1>2. ASSUME ideSolution # NoSolution PROVE CurrentContent(TRUE) \in Contents
  <2> DEFINE known == Known(TRUE)
  <2>1. known \in Infos  BY DEF Known, QueryTypeOK, Query, Infos
  <2>2. CurrentContent(TRUE) = [file |-> ideSolution, count |-> deferred, info |-> known]
    BY <1>2 DEF CurrentContent
  <2> HIDE DEF known
  <2>3. ideSolution \in Solutions \cup {NoSolution} /\ deferred \in 0..MaxDeferred
    BY DEF QueryTypeOK
  <2>4. [file |-> ideSolution, count |-> deferred, info |-> known] \in Contents
    BY <2>1, <2>3 DEF Contents
  <2> QED  BY <2>2, <2>4, Zenon
<1> QED  BY <1>1, <1>2 DEF CurrentContent

\* The loader that is made has two references of its own, and the one that the
\* UI thread waited for loses one.
LEMMA StartLoaderStep ==
  ASSUME LoaderInv, QueryTypeOK, StartLoader
  PROVE  LoaderInv'
<1> USE DEF LoaderInv
<1> DEFINE new == launched + 1
           read == IF Gathering = {} THEN CurrentContent(TRUE) ELSE Empty
           newRefs == [l \in Loaders |-> CASE l = new -> 2
                                           [] l = ui.pl -> refs[l] - 1
                                           [] OTHER -> refs[l]]
<1>1. /\ UNCHANGED <<mCleanLoad, dirLock, sPendingLoads>> /\ ui.pc = "stop" /\ ui' = Idle
      /\ launched' = new /\ g_pl' = new /\ refs' = newRefs
      /\ lpc' = [lpc EXCEPT ![new] = "queued"] /\ content' = [content EXCEPT ![new] = read]
      /\ mRawProjectList' = read /\ mProjectHash' = read /\ loaded' = Empty
  BY DEF StartLoader, UiAction
<1>2. read \in Contents /\ Empty \in Contents  BY ReadContents
<1> HIDE DEF read
<1>3. /\ launched \in 0..MaxLoads /\ launched < MaxLoads /\ dirLock \in 0..launched
      /\ ui.pl \in 0..launched /\ g_pl \in {0, ui.pl}
      /\ lpc \in [Loaders -> Places] /\ content \in [Loaders -> Contents]
      /\ refs \in [Loaders -> Int]
  BY <1>1 DEF LoaderTypes, RefsOK, RegisteredLoaderLives
<1>4. /\ new \in Loaders /\ new \in 0..MaxLoads /\ new \in 0..new /\ 0 \in 0..new /\ new \in Nat
      /\ dirLock \in 0..new /\ dirLock # new /\ ui.pl # new /\ new # 0
  BY <1>3, LoaderRange
<1>5. lpc[new] = "none"
  <2>1. new > launched  BY <1>3, LoaderRange
  <2> QED  BY <1>4, <2>1 DEF RefsOK
<1>6. \A l \in Loaders : refs'[l] = IF l = new THEN 2
                                    ELSE IF l = ui.pl THEN refs[l] - 1 ELSE refs[l]
  <2> TAKE l \in Loaders
  <2>1. refs'[l] = CASE l = new -> 2 [] l = ui.pl -> refs[l] - 1 [] OTHER -> refs[l]
    BY <1>1
  <2>2. CASE l = new  BY <1>4, <2>1, <2>2
  <2>3. CASE l # new /\ l = ui.pl  BY <2>1, <2>3
  <2>4. CASE l # new /\ l # ui.pl  BY <2>1, <2>4
  <2> QED  BY <2>2, <2>3, <2>4
<1>7. \A l \in Loaders : lpc'[l] = IF l = new THEN "queued" ELSE lpc[l]
  BY <1>1, <1>3, <1>4
<1>8. ui' \in UiTypes(new) /\ ui'.pl = 0 /\ ui'.pc # "stop"
  BY <1>1, <1>4, UiAtFree, FreeUiType
<1>9. LoaderTypes'
  <2>1. refs' \in [Loaders -> Int]  BY <1>1, <1>3
  <2>2. lpc' \in [Loaders -> Places] /\ content' \in [Loaders -> Contents]
    BY <1>1, <1>2, <1>3, <1>4 DEF Places
  <2>3. (launched \in 0..MaxLoads /\ g_pl \in 0..launched /\ dirLock \in 0..launched)'
    BY <1>1, <1>4
  <2>4. (mRawProjectList \in Contents /\ mProjectHash \in Contents /\ loaded \in Contents)'
    BY <1>1, <1>2
  <2>5. ui' \in UiTypes(launched')  BY <1>1, <1>8
  <2> QED  BY <2>1, <2>2, <2>3, <2>4, <2>5 DEF LoaderTypes, UiTypes
<1>10. PendingOK'
  <2>1. \A l \in Loaders : lpc'[l] = "lock" <=> lpc[l] = "lock"  BY <1>5, <1>7
  <2>2. AtLock' = AtLock  BY <2>1 DEF AtLock
  <2> QED  BY <1>1, <2>2 DEF PendingOK
<1>11. RefsOK'
  <2>1. \A l \in Loaders : lpc'[l] = "none" <=> l > launched'
    <3> TAKE l \in Loaders
    <3>1. lpc[l] = "none" <=> l > launched  BY DEF RefsOK
    <3>2. launched' = launched + 1 /\ l \in Nat /\ launched \in Nat  BY <1>1, <1>3, LoaderRange
    <3>3. CASE l = new  BY <1>7, <3>2, <3>3
    <3>4. CASE l # new
      <4>1. l > launched' <=> l > launched  BY <3>2, <3>4
      <4> QED  BY <1>7, <3>1, <3>4, <4>1
    <3> QED  BY <3>3, <3>4
  <2>2. \A l \in Loaders : LoaderGone(l)' <=> (l # new /\ LoaderGone(l))
    BY <1>7 DEF LoaderGone
  <2>3. \A l \in Loaders : refs'[l] = IF LoaderGone(l)' THEN 0 ELSE 2
    <3> TAKE l \in Loaders
    <3>1. refs[l] = (IF LoaderGone(l) THEN 0 ELSE 2) + (IF ui.pl = l THEN 1 ELSE 0)
      BY DEF RefsOK, RegisteredLoaderLives
    <3> QED  BY <1>4, <1>6, <2>2, <3>1
  <2>4. \A l \in Loaders : ui'.pl # l  BY <1>8, LoaderRange
  <2>5. \A l \in Loaders : refs'[l] = (IF LoaderGone(l)' THEN 0 ELSE 2) + (IF ui'.pl = l THEN 1 ELSE 0)
    BY <2>3, <2>4
  <2>6. RegisteredLoaderLives'
    <3>1. (g_pl # 0 => ~LoaderGone(g_pl))'  BY <1>1, <1>7, <1>4 DEF LoaderGone
    <3> QED  BY <1>8, <2>5, <3>1 DEF RegisteredLoaderLives
  <2> QED  BY <1>8, <2>1, <2>6 DEF RefsOK
<1>12. DirOK'
  <2>1. \A l \in Loaders : lpc'[l] \in Inside <=> lpc[l] \in Inside
    BY <1>5, <1>7 DEF Inside
  <2> QED  BY <1>1, <2>1 DEF DirOK
<1>13. LoadedOK'
  BY <1>4, <1>7 DEF LoadedOK, Behind
<1> QED  BY <1>9, <1>10, <1>11, <1>12, <1>13

\* What the move of a loader from one place to another leaves as it is.
LEMMA LoaderMoves ==
  ASSUME LoaderInv, NEW l \in Loaders,
         NEW pc \in Places \ {"none", "ended"}, NEW to \in Places \ {"none", "ended"},
         LoaderAction(l, pc, to), loaded' \in Contents, dirLock' \in {0, dirLock, l},
         UNCHANGED <<refs, g_pl>>
  PROVE  /\ lpc[l] = pc /\ \A k \in Loaders : lpc'[k] = IF k = l THEN to ELSE lpc[k]
         /\ UNCHANGED <<content, mProjectHash>>
         /\ LoaderTypes' /\ RefsOK'
<1> USE DEF LoaderInv
<1>1. /\ UNCHANGED <<content, mRawProjectList, mProjectHash, launched, ui>>
      /\ lpc[l] = pc /\ lpc' = [lpc EXCEPT ![l] = to]
  BY DEF LoaderAction
<1>2. lpc \in [Loaders -> Places] /\ launched \in 0..MaxLoads  BY DEF LoaderTypes
<1>3. \A k \in Loaders : lpc'[k] = IF k = l THEN to ELSE lpc[k]  BY <1>1, <1>2
<1>4. l \in 0..launched
  <2>1. ~(l > launched)  BY <1>1 DEF RefsOK
  <2> QED  BY <1>2, <2>1, LoaderRange
<1>5. LoaderTypes'
  <2>1. lpc' \in [Loaders -> Places] /\ content' \in [Loaders -> Contents]
        /\ refs' \in [Loaders -> Int]
    BY <1>1, <1>2 DEF LoaderTypes
  <2>2. (mRawProjectList \in Contents /\ mProjectHash \in Contents /\ loaded \in Contents)'
    BY <1>1 DEF LoaderTypes
  <2>3. 0 \in 0..launched  BY <1>2, LoaderRange
  <2>4. (launched \in 0..MaxLoads /\ g_pl \in 0..launched /\ dirLock \in 0..launched)'
    BY <1>1, <1>4, <2>3 DEF LoaderTypes
  <2>5. ui' \in UiTypes(launched')  BY <1>1 DEF LoaderTypes, UiTypes
  <2> QED  BY <2>1, <2>2, <2>4, <2>5 DEF LoaderTypes, UiTypes
<1>6. RefsOK'
  <2>1. \A k \in Loaders : LoaderGone(k)' <=> LoaderGone(k)
    BY <1>1, <1>3 DEF LoaderGone
  <2>2. g_pl # 0 => g_pl \in Loaders  BY LaunchedRange DEF LoaderTypes
  <2>3. (g_pl # 0 => ~LoaderGone(g_pl))'
    BY <1>3, <2>2 DEF RefsOK, RegisteredLoaderLives, LoaderGone
  <2>4. RegisteredLoaderLives'
    BY <1>1, <2>1, <2>3 DEF RefsOK, RegisteredLoaderLives
  <2>5. \A k \in Loaders : lpc'[k] = "none" <=> lpc[k] = "none"  BY <1>1, <1>3
  <2> QED  BY <1>1, <2>4, <2>5 DEF RefsOK
<1> QED  BY <1>1, <1>3, <1>5, <1>6

\* The loader inside owns the lock, and there is no other.
LEMMA OneInside ==
  ASSUME LoaderInv, NEW l \in Loaders, lpc[l] \in Inside
  PROVE  dirLock = l /\ \A k \in Loaders : k # l => lpc[k] \notin Inside
BY DEF LoaderInv, DirOK

LEMMA EnterLoadStep ==
  ASSUME LoaderInv, NEW l \in Loaders, EnterLoad(l)
  PROVE  LoaderInv'
<1>1. /\ LoaderAction(l, "queued", "lock") /\ sPendingLoads' = sPendingLoads + 1
      /\ UNCHANGED <<mCleanLoad, loaded, refs, g_pl, dirLock>>
  BY DEF EnterLoad
<1>2. loaded' \in Contents  BY <1>1 DEF LoaderInv, LoaderTypes
<1>3. /\ lpc[l] = "queued" /\ \A k \in Loaders : lpc'[k] = IF k = l THEN "lock" ELSE lpc[k]
      /\ LoaderTypes' /\ RefsOK'
  BY <1>1, <1>2, LoaderMoves DEF Places
<1>4. PendingOK'
  <2>1. AtLock' = AtLock \cup {l} /\ l \notin AtLock  BY <1>3 DEF AtLock
  <2>2. Cardinality(AtLock') = Cardinality(AtLock) + 1
    BY <2>1, LoaderNumbers, FS_AddElement
  <2> QED  BY <1>1, <2>2 DEF LoaderInv, PendingOK
<1>5. DirOK'  BY <1>1, <1>3 DEF LoaderInv, DirOK, Inside
<1>6. LoadedOK'  BY <1>3 DEF LoadedOK, Behind
<1> QED  BY <1>3, <1>4, <1>5, <1>6 DEF LoaderInv

LEMMA BeginLoadStep ==
  ASSUME LoaderInv, Empty \in Contents, NEW l \in Loaders, BeginLoad(l)
  PROVE  LoaderInv'
<1> DEFINE to == IF OtherPending THEN "over" ELSE "gather"
<1>1. /\ LoaderAction(l, "lock", to) /\ sPendingLoads' = sPendingLoads - 1 /\ dirLock = 0
      /\ UNCHANGED <<refs, g_pl>>
      /\ \/ to = "over" /\ mCleanLoad' = FALSE /\ UNCHANGED <<dirLock, loaded>>
         \/ to = "gather" /\ dirLock' = l /\ loaded' = Empty
  BY DEF BeginLoad
<1> HIDE DEF to
<1>2. loaded' \in Contents /\ dirLock' \in {0, dirLock, l} /\ to \in {"over", "gather"}
  BY <1>1 DEF LoaderInv, LoaderTypes
<1>3. /\ lpc[l] = "lock" /\ \A k \in Loaders : lpc'[k] = IF k = l THEN to ELSE lpc[k]
      /\ LoaderTypes' /\ RefsOK'
  BY <1>1, <1>2, LoaderMoves DEF Places
<1>4. PendingOK'
  <2>1. AtLock' = AtLock \ {l} /\ l \in AtLock  BY <1>2, <1>3 DEF AtLock
  <2>2. Cardinality(AtLock') = Cardinality(AtLock) - 1
    BY <2>1, LoaderNumbers, FS_RemoveElement
  <2> QED  BY <1>1, <2>2 DEF LoaderInv, PendingOK
<1>5. \A k \in Loaders : k # 0 /\ lpc[k] \notin Inside
  BY <1>1, LoaderRange DEF LoaderInv, DirOK
<1>6. DirOK'
  <2>1. CASE to = "over" /\ dirLock' = 0
    BY <1>3, <1>5, <2>1 DEF DirOK, Inside
  <2>2. CASE to = "gather" /\ dirLock' = l
    BY <1>3, <1>5, <2>2 DEF DirOK, Inside
  <2> QED  BY <1>1, <2>1, <2>2
<1>7. LoadedOK'
  <2>1. \A k \in Loaders : lpc'[k] \notin {"commit", "symbols"}
    BY <1>2, <1>3, <1>5 DEF Inside
  <2>2. ~(mCleanLoad' /\ dirLock' = 0)  BY <1>1, <1>5
  <2> QED  BY <2>1, <2>2 DEF LoadedOK
<1> QED  BY <1>3, <1>4, <1>6, <1>7 DEF LoaderInv

LEMMA GatherStep ==
  ASSUME LoaderInv, NEW l \in Loaders, FinishGetSolutionInfo(l) \/ GoOn(l)
  PROVE  LoaderInv'
<1>1. /\ UNCHANGED <<refs, g_pl, sPendingLoads, mCleanLoad, loaded, dirLock>>
      /\ \E pc \in {"gather", "call", "check"}, to \in {"call", "check", "commit"} :
           /\ LoaderAction(l, pc, to)
           /\ to = "commit" => List(content[l]) = List(mProjectHash)
  BY DEF FinishGetSolutionInfo, GoOn, loaderRest, GivesUp, HasNewList
<1>2. PICK pc \in {"gather", "call", "check"}, to \in {"call", "check", "commit"} :
        /\ LoaderAction(l, pc, to)
        /\ to = "commit" => List(content[l]) = List(mProjectHash)
  BY <1>1
<1>3. loaded' \in Contents  BY <1>1 DEF LoaderInv, LoaderTypes
<1>4. /\ lpc[l] = pc /\ \A k \in Loaders : lpc'[k] = IF k = l THEN to ELSE lpc[k]
      /\ UNCHANGED <<content, mProjectHash>> /\ LoaderTypes' /\ RefsOK'
  BY <1>1, <1>2, <1>3, LoaderMoves DEF Places
<1>5. \A k \in Loaders : /\ (lpc'[k] \in Inside <=> lpc[k] \in Inside)
                         /\ (lpc'[k] \in {"queued", "lock"} <=> lpc[k] \in {"queued", "lock"})
                         /\ (lpc'[k] = "lock" <=> lpc[k] = "lock")
  BY <1>2, <1>4 DEF Inside
<1>6. PendingOK'
  <2>1. AtLock' = AtLock  BY <1>5 DEF AtLock
  <2> QED  BY <1>1, <2>1 DEF LoaderInv, PendingOK
<1>7. DirOK'  BY <1>1, <1>5 DEF LoaderInv, DirOK
<1>8. LoadedOK'
  <2>1. lpc'[l] # "symbols" /\ (lpc'[l] = "commit" => List(content[l]) = List(mProjectHash))
    BY <1>2, <1>4
  <2>2. UpToDate' = UpToDate /\ Behind' = Behind  BY <1>1, <1>4, <1>5 DEF UpToDate, Behind
  <2> QED  BY <1>1, <1>4, <2>1, <2>2 DEF LoaderInv, LoadedOK
<1> QED  BY <1>4, <1>6, <1>7, <1>8 DEF LoaderInv

LEMMA FillProjectMapStep ==
  ASSUME LoaderInv, NEW l \in Loaders, FillProjectMap(l)
  PROVE  LoaderInv'
<1>1. /\ LoaderAction(l, "commit", "symbols") /\ loaded' = content[l]
      /\ UNCHANGED <<mCleanLoad, refs, g_pl, dirLock, sPendingLoads>>
  BY DEF FillProjectMap
<1>2. loaded' \in Contents  BY <1>1 DEF LoaderInv, LoaderTypes
<1>3. /\ lpc[l] = "commit" /\ \A k \in Loaders : lpc'[k] = IF k = l THEN "symbols" ELSE lpc[k]
      /\ UNCHANGED <<content, mProjectHash>> /\ LoaderTypes' /\ RefsOK'
  BY <1>1, <1>2, LoaderMoves DEF Places
<1>4. dirLock = l /\ l # 0 /\ \A k \in Loaders : k # l => lpc[k] \notin Inside
  BY <1>3, OneInside, LoaderRange DEF Inside
<1>5. PendingOK'
  <2>1. AtLock' = AtLock  BY <1>3 DEF AtLock
  <2> QED  BY <1>1, <2>1 DEF LoaderInv, PendingOK
<1>6. DirOK'  BY <1>1, <1>3 DEF LoaderInv, DirOK, Inside
<1>7. LoadedOK'
  <2>1. Behind' = Behind  BY <1>3 DEF Behind
  <2>2. ~Behind => UpToDate'  BY <1>1, <1>3 DEF LoaderInv, LoadedOK, UpToDate
  <2>3. \A k \in Loaders : lpc'[k] # "commit"  BY <1>3, <1>4 DEF Inside
  <2> QED  BY <1>1, <2>1, <2>2, <2>3 DEF LoadedOK
<1> QED  BY <1>3, <1>5, <1>6, <1>7 DEF LoaderInv

\* A load ends complete, or it is known not to be.
LEMMA LeaveStep ==
  ASSUME LoaderInv, NEW l \in Loaders, GiveUp(l) \/ EndLoad(l)
  PROVE  LoaderInv'
<1>1. /\ UNCHANGED <<refs, g_pl, sPendingLoads, loaded>> /\ dirLock' = Unlock(l)
      /\ \/ LoaderAction(l, "check", "over") /\ mCleanLoad' = FALSE
         \/ LoaderAction(l, "symbols", "over") /\ mCleanLoad' = CleanAfter
  BY DEF GiveUp, EndLoad, loaderRest
<1>2. PICK pc \in {"check", "symbols"} :
        /\ LoaderAction(l, pc, "over")
        /\ pc = "check" => mCleanLoad' = FALSE
        /\ pc = "symbols" => mCleanLoad' = CleanAfter
  BY <1>1
<1>3. lpc[l] = pc  BY <1>2 DEF LoaderAction
<1>4. dirLock = l /\ l # 0 /\ \A k \in Loaders : k # l => lpc[k] \notin Inside
  BY <1>2, <1>3, OneInside, LoaderRange DEF Inside
<1>5. dirLock' = 0 /\ loaded' \in Contents
  BY <1>1, <1>4 DEF Unlock, LoaderInv, LoaderTypes
<1>6. /\ \A k \in Loaders : lpc'[k] = IF k = l THEN "over" ELSE lpc[k]
      /\ UNCHANGED <<content, mProjectHash>> /\ LoaderTypes' /\ RefsOK'
  BY <1>1, <1>2, <1>5, LoaderMoves DEF Places
<1>7. PendingOK'
  <2>1. AtLock' = AtLock  BY <1>2, <1>3, <1>6 DEF AtLock
  <2> QED  BY <1>1, <2>1 DEF LoaderInv, PendingOK
<1>8. DirOK'
  <2>1. \A k \in Loaders : k # 0 /\ lpc'[k] \notin Inside
    BY <1>4, <1>6, LoaderRange DEF Inside
  <2> QED  BY <1>5, <2>1 DEF DirOK
<1>9. LoadedOK'
  <2>1. Behind' = Behind /\ UpToDate' = UpToDate
    BY <1>1, <1>2, <1>3, <1>6 DEF Behind, UpToDate
  <2>2. ~Behind /\ pc = "symbols" => UpToDate  BY <1>3 DEF LoaderInv, LoadedOK
  <2>3. mCleanLoad' => pc = "symbols"  BY <1>2
  <2>4. \A k \in Loaders : lpc'[k] \notin {"commit", "symbols"}  BY <1>4, <1>6 DEF Inside
  <2> QED  BY <2>1, <2>2, <2>3, <2>4 DEF LoadedOK
<1> QED  BY <1>6, <1>7, <1>8, <1>9 DEF LoaderInv

\* What is left of a loader that has ended is the reference that is waited with.
LEMMA EndRunStep ==
  ASSUME LoaderInv, Empty \in Contents, NEW l \in Loaders, EndRun(l)
  PROVE  LoaderInv'
<1>1. /\ UNCHANGED <<mCleanLoad, loaded, dirLock, sPendingLoads, mRawProjectList, mProjectHash,
                     launched, ui>>
      /\ lpc[l] = "over" /\ lpc' = [lpc EXCEPT ![l] = "ended"]
      /\ content' = [content EXCEPT ![l] = Empty] /\ refs' = [refs EXCEPT ![l] = @ - 2]
      /\ g_pl' = IF g_pl = l THEN 0 ELSE g_pl
  BY DEF EndRun, LoaderAction, ClearGlobalIfThis
<1>2. /\ lpc \in [Loaders -> Places] /\ content \in [Loaders -> Contents]
      /\ refs \in [Loaders -> Int] /\ launched \in 0..MaxLoads /\ g_pl \in 0..launched
  BY DEF LoaderInv, LoaderTypes
<1>3. \A k \in Loaders : /\ lpc'[k] = IF k = l THEN "ended" ELSE lpc[k]
                         /\ k # l => content'[k] = content[k] /\ refs'[k] = refs[k]
  BY <1>1, <1>2
<1>4. LoaderTypes'
  <2>1. lpc' \in [Loaders -> Places] /\ content' \in [Loaders -> Contents]
    BY <1>1, <1>2 DEF Places
  <2>2. refs' \in [Loaders -> Int]
    <3>1. refs[l] - 2 \in Int  BY <1>2
    <3> QED  BY <1>1, <1>2, <3>1
  <2>3. g_pl' \in 0..launched'
    <3>1. 0 \in 0..launched  BY <1>2, LoaderRange
    <3> QED  BY <1>1, <1>2, <3>1
  <2>4. (/\ mRawProjectList \in Contents /\ mProjectHash \in Contents /\ loaded \in Contents
         /\ launched \in 0..MaxLoads /\ dirLock \in 0..launched)'
    BY <1>1 DEF LoaderInv, LoaderTypes
  <2>5. ui' \in UiTypes(launched')  BY <1>1 DEF LoaderInv, LoaderTypes, UiTypes
  <2> QED  BY <2>1, <2>2, <2>3, <2>4, <2>5 DEF LoaderTypes, UiTypes
<1>5. PendingOK'
  <2>1. AtLock' = AtLock  BY <1>1, <1>3 DEF AtLock
  <2> QED  BY <1>1, <2>1 DEF LoaderInv, PendingOK
<1>6. RefsOK'
  <2>1. \A k \in Loaders : LoaderGone(k)' <=> k = l \/ LoaderGone(k)
    BY <1>1, <1>3 DEF LoaderGone
  <2>2. (g_pl # 0 => ~LoaderGone(g_pl))'
    <3>1. g_pl # 0 => g_pl \in Loaders /\ ~LoaderGone(g_pl)
      BY <1>2, LaunchedRange DEF LoaderInv, RefsOK, RegisteredLoaderLives
    <3>2. g_pl' # 0 => g_pl' = g_pl /\ g_pl # l  BY <1>1
    <3> QED  BY <1>3, <3>1, <3>2 DEF LoaderGone
  <2>3. (\A k \in Loaders :
           refs[k] = (IF LoaderGone(k) THEN 0 ELSE 2) + (IF ui.pl = k THEN 1 ELSE 0))'
    <3> SUFFICES ASSUME NEW k \in Loaders
                 PROVE  refs'[k] = (IF LoaderGone(k)' THEN 0 ELSE 2) + (IF ui.pl = k THEN 1 ELSE 0)
      BY <1>1
    <3>1. refs[k] = (IF LoaderGone(k) THEN 0 ELSE 2) + (IF ui.pl = k THEN 1 ELSE 0)
      BY DEF LoaderInv, RefsOK, RegisteredLoaderLives
    <3>2. CASE k = l
      <4>1. refs'[k] = refs[k] - 2 /\ ~LoaderGone(k) /\ LoaderGone(k)'
        BY <1>1, <1>2, <2>1, <3>2 DEF LoaderGone
      <4> QED  BY <3>1, <4>1
    <3>3. CASE k # l  BY <1>3, <2>1, <3>1, <3>3
    <3> QED  BY <3>2, <3>3
  <2>4. RegisteredLoaderLives'
    BY <1>1, <2>2, <2>3 DEF LoaderInv, RefsOK, RegisteredLoaderLives
  <2>5. \A k \in Loaders : lpc'[k] = "none" <=> lpc[k] = "none"  BY <1>1, <1>3
  <2> QED  BY <1>1, <2>4, <2>5 DEF LoaderInv, RefsOK
<1>7. DirOK'  BY <1>1, <1>3 DEF LoaderInv, DirOK, Inside
<1>8. LoadedOK'
  <2>1. Behind' = Behind /\ UpToDate' = UpToDate  BY <1>1, <1>3 DEF Behind, UpToDate
  <2>2. \A k \in Loaders : lpc'[k] \in {"commit", "symbols"} =>
                             lpc'[k] = lpc[k] /\ content'[k] = content[k]
    BY <1>3
  <2> QED  BY <1>1, <2>1, <2>2 DEF LoaderInv, LoadedOK
<1> QED  BY <1>4, <1>5, <1>6, <1>7, <1>8 DEF LoaderInv

LoadInv == QueryInv /\ AskOK /\ FlagTypes /\ LoaderInv

LEMMA LoaderSteps ==
  ASSUME LoadInv, LoaderStep
  PROVE  LoaderInv'
<1>1. QueryTypeOK /\ LoaderInv  BY DEF LoadInv, QueryInv
<1>2. Empty \in Contents  BY <1>1, ReadContents
<1>3. CASE StopLoader \/ StartLoader
  BY <1>1, <1>3, StopLoaderStep, StartLoaderStep
<1>4. ASSUME NEW l \in Loaders, Loader(l) PROVE LoaderInv'
  BY <1>1, <1>2, <1>4, EnterLoadStep, BeginLoadStep, GatherStep, FillProjectMapStep, LeaveStep,
     EndRunStep
  DEF Loader
<1> QED  BY <1>3, <1>4 DEF LoaderStep

\* What the query and the loaders need of one another is kept by every step.
THEOREM LoadInvariant == Spec => []LoadInv
<1>1. Init => LoadInv  BY QueryInvInit, LoaderInvInit DEF LoadInv
<1>2. LoadInv /\ [Next]_vars => LoadInv'
  <2> SUFFICES ASSUME LoadInv, [Next]_vars PROVE LoadInv'  OBVIOUS
  <2>0. QueryInv /\ QueryTypeOK /\ AskOK /\ FlagTypes /\ LoaderInv  BY DEF LoadInv, QueryInv
  <2>1. ASSUME Kept PROVE LoadInv'
    <3>1. Quiet /\ LoadKept /\ UiKept /\ AskOK' /\ FlagTypes'  BY <2>1 DEF Kept
    <3> QED  BY <2>0, <3>1, QuietStep, LoaderKept DEF LoadInv
  <2>2. CASE Notification \/ TimerFired  BY <2>0, <2>1, <2>2, NotificationStep
  <2>3. CASE UiThread
    <3>1. CASE AskQuery  BY <2>0, <3>1, AskStep, LoaderKept DEF LoadInv
    <3>2. CASE StopLoader \/ StartLoader
      BY <2>0, <3>2, LoaderSteps, LoaderStepKeeps DEF LoadInv, LoaderStep
    <3>3. CASE ~AskQuery /\ ~StopLoader /\ ~StartLoader
      BY <2>0, <2>1, <2>3, <3>3, UiStep DEF UiThread
    <3> QED  BY <3>1, <3>2, <3>3
  <2>4. ASSUME NEW r \in 1..MaxRequests, Collector(r) PROVE LoadInv'
    BY <2>0, <2>4, CollectorKeeps, LoaderKept DEF LoadInv
  <2>5. ASSUME NEW l \in Loaders, Loader(l) PROVE LoadInv'
    BY <2>0, <2>5, LoaderSteps, LoaderStepKeeps DEF LoadInv, LoaderStep
  <2>6. CASE UNCHANGED vars
    <3>1. UNCHANGED <<ideSolution, deferred, g_vaManagedPackageSvc, queryVars, loadVars, events>>
      BY <2>6 DEF vars, ideVars
    <3> QED
      BY <2>0, <2>1, <3>1
      DEF Kept, Quiet, LoadKept, UiKept, AskOK, FlagTypes, queryVars, loadVars, workVars, QueryTypeOK
  <2> QED  BY <2>2, <2>3, <2>4, <2>5, <2>6 DEF Next
<1> QED  BY <1>1, <1>2, PTL DEF Spec

\* The cached answer is for the request that the cache stands for
\* (IsSolutionInfoCacheValid, SolutionFiles.cpp).
THEOREM AnswersMatch == Spec => []CacheMatchesRequest
BY LoadInvariant, PTL DEF LoadInv, QueryInv

\* The flag that is read without sInfoLock is that of the answer's own request.
THEOREM OwnFlag == Spec => []DecidesByOwnFlag
<1>1. LoadInv => DecidesByOwnFlag
  <2> SUFFICES ASSUME LoadInv, NEW r \in 1..Len(requests),
                      collector[r] = "start" \/ (collector[r] = "check" /\ r = gSqi.id)
               PROVE  forced[r] = requests[r].force
    BY DEF DecidesByOwnFlag
  <2>1. Len(requests) \in Nat /\ Len(requests) <= MaxRequests /\ MaxRequests \in Nat
    BY QueryAssumption DEF LoadInv, QueryInv, QueryTypeOK
  <2>2. r \in 1..MaxRequests  BY <2>1
  <2> QED  BY <2>2 DEF LoadInv, QueryInv, CollectorOK
<1> QED  BY <1>1, LoadInvariant, PTL

\* ProjectLoaderRef never gets an object that is going away.
THEOREM LoaderLives == Spec => []RegisteredLoaderLives
<1>1. LoadInv => RegisteredLoaderLives  BY DEF LoadInv, LoaderInv, RefsOK
<1> QED  BY <1>1, LoadInvariant, PTL

\* A load that was interrupted or overtaken is not taken for complete.
THEOREM CompleteOrDirty == Spec => []LoadedOrKnownDirty
<1>1. LoadInv => LoadedOrKnownDirty
  <2> SUFFICES ASSUME LoadInv, \A l \in Loaders : LoaderGone(l), mCleanLoad
               PROVE  List(loaded) = List(mProjectHash)
    BY DEF LoadedOrKnownDirty
  <2>1. ~Behind  BY DEF Behind, LoaderGone
  <2>2. dirLock = 0
    <3>1. dirLock # 0 => dirLock \in Loaders
      BY LaunchedRange DEF LoadInv, LoaderInv, LoaderTypes
    <3>2. dirLock \in Loaders => lpc[dirLock] \in Inside  BY DEF LoadInv, LoaderInv, DirOK
    <3> QED  BY <3>1, <3>2 DEF LoaderGone, Inside
  <2> QED  BY <2>1, <2>2 DEF LoadInv, LoaderInv, LoadedOK, UpToDate
<1> QED  BY <1>1, LoadInvariant, PTL

-----------------------------------------------------------------------------
(* The listener.                                                           *)

Listeners == [state : LoadStates, prev : LoadStates, timers : SUBSET Timers, refs : Int]
Counted(s) == s \in Listeners /\ s.refs = 1 + Cardinality(s.timers)
Waits(s) ==
  /\ s.state = "Reloading" => "CompleteReload" \in s.timers
  /\ s.state = "WaitingForBackgroundLoadToStart" => "StartOfBackgroundLoad" \in s.timers
ListenerOK(s) == Counted(s) /\ Waits(s)

LEMMA TimersFinite ==
  ASSUME NEW ts \in SUBSET Timers
  PROVE  IsFiniteSet(ts) /\ Cardinality(ts) \in Nat
<1>1. IsFiniteSet(Timers)
  <2>1. IsFiniteSet({}) /\ IsFiniteSet({"CompleteReload"} \cup {})  BY FS_EmptySet, FS_AddElement
  <2>2. IsFiniteSet({"CompleteReload"} \cup {"StartOfBackgroundLoad"})
    BY <2>1, FS_AddElement
  <2>3. IsFiniteSet(({"CompleteReload"} \cup {"StartOfBackgroundLoad"}) \cup {"LoadStart"})
    BY <2>2, FS_AddElement
  <2>4. Timers = ({"CompleteReload"} \cup {"StartOfBackgroundLoad"}) \cup {"LoadStart"}
    BY DEF Timers
  <2> QED  BY <2>3, <2>4
<1>2. IsFiniteSet(ts)  BY <1>1, FS_Subset
<1> QED  BY <1>2, FS_CardinalityType

LEMMA ToStep ==
  ASSUME NEW s, Counted(s), NEW state \in LoadStates
  PROVE  Counted(To(s, state)) /\ To(s, state).state = state /\ To(s, state).timers = s.timers
<1>1. /\ To(s, state) \in Listeners /\ To(s, state).state = state
      /\ To(s, state).timers = s.timers /\ To(s, state).refs = s.refs
  BY DEF Counted, Listeners, To
<1> QED  BY <1>1 DEF Counted

\* A timer that is killed takes its reference along.
LEMMA KillStep ==
  ASSUME NEW s, Counted(s), NEW ts \in SUBSET Timers
  PROVE  /\ Counted(Kill(s, ts)) /\ Kill(s, ts).state = s.state
         /\ Kill(s, ts).timers = s.timers \ ts
<1> DEFINE left == s.timers \ ts
           n == s.refs - Cardinality(s.timers \cap ts)
<1>1. s \in Listeners /\ s.timers \in SUBSET Timers /\ s.refs = 1 + Cardinality(s.timers)
  BY DEF Counted, Listeners
<1>2. /\ Cardinality(left) = Cardinality(s.timers) - Cardinality(s.timers \cap ts)
      /\ Cardinality(s.timers) \in Nat /\ Cardinality(s.timers \cap ts) \in Nat
      /\ Cardinality(left) \in Nat
  <2>1. s.timers \cap ts \in SUBSET Timers /\ left \in SUBSET Timers  BY <1>1
  <2>2. IsFiniteSet(s.timers)  BY <1>1, TimersFinite
  <2>3. Cardinality(left) = Cardinality(s.timers) - Cardinality(s.timers \cap ts)
    BY <2>2, FS_Difference
  <2> QED  BY <1>1, <2>1, <2>3, TimersFinite
<1>3. n \in Int /\ n = 1 + Cardinality(left) /\ left \in SUBSET Timers  BY <1>1, <1>2
<1>4. Kill(s, ts) = [s EXCEPT !.timers = left, !.refs = n]  BY DEF Kill
<1> HIDE DEF left, n
<1>5. /\ Kill(s, ts) \in Listeners /\ Kill(s, ts).state = s.state
      /\ Kill(s, ts).timers = left /\ Kill(s, ts).refs = n
  BY <1>1, <1>3, <1>4 DEF Listeners
<1> QED  BY <1>3, <1>5 DEF Counted, left

LEMMA TerminateStep ==
  ASSUME NEW s, Counted(s)
  PROVE  /\ Counted(TerminateAllTimers(s)) /\ TerminateAllTimers(s).state = s.state
         /\ TerminateAllTimers(s).timers = {}
<1>1. s.timers \ Timers = {}  BY DEF Counted, Listeners
<1> QED  BY <1>1, KillStep DEF TerminateAllTimers

LEMMA SetTimerStep ==
  ASSUME NEW s, Counted(s), s.timers = {}, NEW t \in Timers
  PROVE  /\ Counted(SetTimer(s, t)) /\ SetTimer(s, t).state = s.state
         /\ SetTimer(s, t).timers = {t}
<1> DEFINE set == {t}
           n == s.refs + 1
<1>1. s \in Listeners /\ s.refs = 1 /\ Cardinality(set) = 1
  BY FS_EmptySet, FS_Singleton DEF Counted
<1>2. set \in SUBSET Timers /\ n \in Int /\ n = 1 + Cardinality(set)  BY <1>1
<1>3. SetTimer(s, t) = [s EXCEPT !.timers = set, !.refs = n]  BY DEF SetTimer
<1> HIDE DEF set, n
<1>4. /\ SetTimer(s, t) \in Listeners /\ SetTimer(s, t).state = s.state
      /\ SetTimer(s, t).timers = set /\ SetTimer(s, t).refs = n
  BY <1>1, <1>2, <1>3 DEF Listeners
<1> QED  BY <1>2, <1>4 DEF Counted, set

LEMMA BeforeOpenStep ==
  ASSUME NEW s, Counted(s)
  PROVE  /\ Counted(BeforeOpenSolution(s)) /\ BeforeOpenSolution(s).state = "Loading"
         /\ BeforeOpenSolution(s).timers = {}
BY TerminateStep, ToStep DEF BeforeOpenSolution, LoadStates

LEMMA WaitForReloadStep ==
  ASSUME NEW s, Counted(s), s.timers = {}
  PROVE  ListenerOK(SetWaitingToCompleteReloadTimer(s))
<1> DEFINE u == IF s.state = "Reloading" THEN s ELSE To(s, "Reloading")
<1>1. Counted(u) /\ u.state = "Reloading" /\ u.timers = {}  BY ToStep DEF LoadStates
<1> HIDE DEF u
<1>2. ListenerOK(SetTimer(u, "CompleteReload"))
  BY <1>1, SetTimerStep DEF ListenerOK, Waits, Timers
<1> QED  BY <1>2 DEF SetWaitingToCompleteReloadTimer, u

LEMMA ReloadStep ==
  ASSUME NEW s, Counted(s)
  PROVE  ListenerOK(Reload(s))
BY BeforeOpenStep, WaitForReloadStep DEF Reload

LEMMA AfterOpenStep ==
  ASSUME NEW s, Counted(s)
  PROVE  ListenerOK(AfterOpenSolution(s))
<1> DEFINE cleared == TerminateAllTimers(s)
           opened == IF StartsLoad(s) THEN BeforeOpenSolution(cleared) ELSE cleared
           waiting == To(opened, "WaitingForBackgroundLoadToStart")
<1>1. Counted(cleared) /\ cleared.timers = {}  BY TerminateStep
<1>2. Counted(opened) /\ opened.timers = {}  BY <1>1, BeforeOpenStep
<1> HIDE DEF opened
<1>3. /\ Counted(waiting) /\ waiting.state = "WaitingForBackgroundLoadToStart"
      /\ waiting.timers = {}
  BY <1>2, ToStep DEF LoadStates
<1> HIDE DEF waiting
<1>4. ListenerOK(SetTimer(waiting, "StartOfBackgroundLoad"))
  BY <1>3, SetTimerStep DEF ListenerOK, Waits, Timers
<1> QED  BY <1>4 DEF AfterOpenSolution, opened, waiting

LEMMA AfterCloseStep ==
  ASSUME NEW s, Counted(s)
  PROVE  ListenerOK(AfterCloseSolution(s))
<1> DEFINE closed == To(TerminateAllTimers(s), "Closed")
<1>1. Counted(closed) /\ closed.state = "Closed" /\ closed.timers = {}
  BY TerminateStep, ToStep DEF LoadStates
<1> HIDE DEF closed
<1>2. ListenerOK(SetTimer(closed, "LoadStart"))
  BY <1>1, SetTimerStep DEF ListenerOK, Waits, Timers
<1> QED  BY <1>2 DEF AfterCloseSolution, closed

LEMMA ToRestStep ==
  ASSUME NEW s, Counted(s),
         NEW state \in LoadStates \ {"Reloading", "WaitingForBackgroundLoadToStart"}
  PROVE  ListenerOK(To(s, state)) /\ ListenerOK(To(TerminateAllTimers(s), state))
BY TerminateStep, ToStep DEF ListenerOK, Waits

\* Whatever the IDE tells, the listener has a timer for what it waits for.
LEMMA ListenerNotified ==
  ASSUME ListenerOK(sl), Notification
  PROVE  ListenerOK(sl')
<1>1. Counted(sl) /\ Waits(sl)  BY DEF ListenerOK
<1>2. CASE \/ \E s \in Solutions \ Folders : OnBeforeOpenSolution(s)
           \/ OnBeforeBackgroundSolutionLoadBegins \/ OnBeforeCloseSolution
  <2>1. \E state \in {"Loading", "BackgroundLoading", "Closing"} :
          sl' = To(TerminateAllTimers(sl), state)
    BY <1>2
    DEF OnBeforeOpenSolution, OnBeforeBackgroundSolutionLoadBegins, OnBeforeCloseSolution,
        BeforeOpenSolution
  <2> QED  BY <1>1, <2>1, ToRestStep DEF LoadStates
<1>3. CASE \/ \E s \in Solutions \ Folders : OpenFileWithoutSolution(s)
           \/ OnAfterOpenSolution
  <2>1. sl' = AfterOpenSolution(sl)
    BY <1>3 DEF OpenFileWithoutSolution, OnAfterOpenSolution
  <2> QED  BY <1>1, <2>1, AfterOpenStep
<1>4. CASE OnAfterBackgroundSolutionLoadComplete \/ OnAfterOpenFolder
  <2>1. \E s \in {sl, BeforeOpenSolution(sl)} : sl' = To(TerminateAllTimers(s), "LoadComplete")
    BY <1>4 DEF OnAfterBackgroundSolutionLoadComplete, OnAfterOpenFolder, LoadComplete
  <2> QED  BY <1>1, <2>1, BeforeOpenStep, ToRestStep DEF LoadStates
<1>5. CASE OnAfterLoadProject
  <2> DEFINE s == Kill(sl, {"LoadStart", "StartOfBackgroundLoad"})
  <2>1. /\ Counted(s) /\ s.state = sl.state
        /\ s.timers = sl.timers \ {"LoadStart", "StartOfBackgroundLoad"}
    BY <1>1, KillStep DEF Timers
  <2>2. sl' = IF s.state = "WaitingForBackgroundLoadToStart" THEN To(s, "Loading") ELSE s
    BY <1>5 DEF OnAfterLoadProject
  <2> HIDE DEF s
  <2>3. CASE s.state = "WaitingForBackgroundLoadToStart"
    BY <2>1, <2>2, <2>3, ToRestStep DEF LoadStates
  <2>4. CASE s.state # "WaitingForBackgroundLoadToStart"
    <3>1. Waits(s)  BY <1>1, <2>1, <2>4 DEF Waits
    <3> QED  BY <2>1, <2>2, <2>4, <3>1 DEF ListenerOK
  <2> QED  BY <2>3, <2>4
<1>6. CASE OnAfterOpenProject
  <2>1. sl' = CASE sl.state = "WaitingForBackgroundLoadToStart" -> AfterOpenSolution(sl)
                [] sl.state = "Closing" -> Reload(AfterCloseSolution(sl))
                [] sl.state = "Loading" -> TerminateAllTimers(sl)
                [] sl.state \in {"BackgroundLoading", "Reloading"} ->
                     SetWaitingToCompleteReloadTimer(TerminateAllTimers(sl))
                [] sl.state = "LoadComplete" -> Reload(sl)
                [] sl.state = "Closed" -> AfterOpenSolution(BeforeOpenSolution(sl))
    BY <1>6 DEF OnAfterOpenProject
  <2>2. sl.state \in LoadStates  BY <1>1 DEF Counted, Listeners
  <2>3. CASE sl.state = "WaitingForBackgroundLoadToStart"
    BY <1>1, <2>1, <2>3, AfterOpenStep
  <2>4. CASE sl.state = "Closing"
    <3>1. sl' = Reload(AfterCloseSolution(sl))  BY <2>1, <2>4
    <3>2. Counted(AfterCloseSolution(sl))  BY <1>1, AfterCloseStep DEF ListenerOK
    <3> QED  BY <3>1, <3>2, ReloadStep
  <2>5. CASE sl.state = "Loading"
    <3>1. sl' = TerminateAllTimers(sl)  BY <2>1, <2>5
    <3> QED  BY <1>1, <2>5, <3>1, TerminateStep DEF ListenerOK, Waits
  <2>6. CASE sl.state \in {"BackgroundLoading", "Reloading"}
    <3>1. sl' = SetWaitingToCompleteReloadTimer(TerminateAllTimers(sl))  BY <2>1, <2>6
    <3> QED  BY <1>1, <3>1, TerminateStep, WaitForReloadStep
  <2>7. CASE sl.state = "LoadComplete"  BY <1>1, <2>1, <2>7, ReloadStep
  <2>8. CASE sl.state = "Closed"
    <3>1. sl' = AfterOpenSolution(BeforeOpenSolution(sl))  BY <2>1, <2>8
    <3> QED  BY <1>1, <3>1, BeforeOpenStep, AfterOpenStep
  <2> QED  BY <2>2, <2>3, <2>4, <2>5, <2>6, <2>7, <2>8 DEF LoadStates
<1>7. CASE OnBeforeUnloadProject  BY <1>1, <1>7, ReloadStep DEF OnBeforeUnloadProject
<1>8. CASE OnAfterActiveSolutionCfgChange
  <2> DEFINE s == To(BeforeOpenSolution(sl), "Reloading")
  <2>1. Counted(s) /\ s.timers = {}  BY <1>1, BeforeOpenStep, ToStep DEF LoadStates
  <2>2. sl' = SetWaitingToCompleteReloadTimer(s)  BY <1>8 DEF OnAfterActiveSolutionCfgChange
  <2> HIDE DEF s
  <2> QED  BY <2>1, <2>2, WaitForReloadStep
<1>9. CASE OnAfterCloseSolution  BY <1>1, <1>9, AfterCloseStep DEF OnAfterCloseSolution
<1>10. CASE \/ \E s \in Folders : OpenFolder(s)
            \/ ReloadSolution \/ OnWorkspacePropertyChanged \/ LoadManagedPackage
  <2>1. sl' = sl
    BY <1>10 DEF OpenFolder, ReloadSolution, OnWorkspacePropertyChanged, LoadManagedPackage
  <2> QED  BY <2>1
<1> QED  BY <1>2, <1>3, <1>4, <1>5, <1>6, <1>7, <1>8, <1>9, <1>10 DEF Notification

LEMMA ListenerTimers ==
  ASSUME ListenerOK(sl), TimerFired
  PROVE  ListenerOK(sl')
<1>1. Counted(sl) /\ Waits(sl)  BY DEF ListenerOK
<1>2. PICK t \in Timers :
        \/ sl' = LoadComplete(Fired(sl, t))
        \/ /\ sl' = Fired(sl, t)
           /\ t = "CompleteReload" => Fired(sl, t).state # "Reloading"
           /\ t = "StartOfBackgroundLoad" =>
                Fired(sl, t).state # "WaitingForBackgroundLoadToStart"
  <2>1. CASE WaitingToCompleteReloadTimerFired
    BY <2>1 DEF WaitingToCompleteReloadTimerFired, Timers
  <2>2. CASE WaitingForStartOfBackgroundLoadTimerFired
    BY <2>2 DEF WaitingForStartOfBackgroundLoadTimerFired, Timers
  <2>3. CASE WaitingForLoadStartTimerFired
    BY <2>3 DEF WaitingForLoadStartTimerFired, Timers
  <2> QED  BY <2>1, <2>2, <2>3 DEF TimerFired
<1> DEFINE s == Fired(sl, t)
<1>3. Counted(s) /\ s.state = sl.state /\ s.timers = sl.timers \ {t}
  <2>1. {t} \in SUBSET Timers  OBVIOUS
  <2> QED  BY <1>1, <2>1, KillStep DEF Fired
<1> HIDE DEF s
<1>4. CASE sl' = LoadComplete(s)
  BY <1>3, <1>4, ToRestStep DEF LoadComplete, LoadStates
<1>5. CASE /\ sl' = s
           /\ t = "CompleteReload" => s.state # "Reloading"
           /\ t = "StartOfBackgroundLoad" => s.state # "WaitingForBackgroundLoadToStart"
  <2>1. Waits(s)  BY <1>1, <1>3, <1>5 DEF Waits
  <2> QED  BY <1>3, <1>5, <2>1 DEF ListenerOK
<1> QED  BY <1>2, <1>4, <1>5 DEF s

\* The listener counts its timers and has one for whatever it waits for.
THEOREM ListenerInvariant == Spec => []ListenerOK(sl)
<1>1. Init => ListenerOK(sl)
  <2> SUFFICES ASSUME Init PROVE ListenerOK(sl)  OBVIOUS
  <2>1. sl = [state |-> "WaitingForBackgroundLoadToStart", prev |-> "Loading",
              timers |-> {"StartOfBackgroundLoad"}, refs |-> 2]
    BY DEF Init
  <2>2. Cardinality({"StartOfBackgroundLoad"}) = 1  BY FS_Singleton
  <2>3. sl \in Listeners  BY <2>1 DEF Listeners, LoadStates, Timers
  <2> QED  BY <2>1, <2>2, <2>3 DEF ListenerOK, Counted, Waits
<1>2. ListenerOK(sl) /\ [Next]_vars => ListenerOK(sl)'
  <2> SUFFICES ASSUME ListenerOK(sl), [Next]_vars PROVE ListenerOK(sl')
    BY DEF ListenerOK, Counted, Waits, Listeners
  <2>1. CASE UNCHANGED sl  BY <2>1
  <2>2. CASE ~UNCHANGED sl
    <3>1. Notification \/ TimerFired  BY <2>2 DEF Next, vars
    <3> QED  BY <3>1, ListenerNotified, ListenerTimers
  <2> QED  BY <2>1, <2>2
<1> QED  BY <1>1, <1>2, PTL DEF Spec

\* While the listener waits for the end of a reload or for the start of a background
\* load its timer runs, and mRefCount counts one reference for each timer.
THEOREM TimersRun == Spec => []WaitsHaveTimers
<1>1. ListenerOK(sl) => WaitsHaveTimers
  BY DEF ListenerOK, Counted, Waits, WaitsHaveTimers
<1> QED  BY <1>1, ListenerInvariant, PTL

-----------------------------------------------------------------------------
(* The types.                                                              *)

LEMMA IdeStep ==
  ASSUME ide \in IdeStates, [Next]_vars
  PROVE  ide' \in IdeStates
<1> USE DEF IdeStates
<1>1. CASE UNCHANGED ide  BY <1>1
<1>2. CASE TimerFired
  BY <1>2
  DEF TimerFired, WaitingToCompleteReloadTimerFired, WaitingForStartOfBackgroundLoadTimerFired,
      WaitingForLoadStartTimerFired, TimerEvent
<1>3. CASE Notification
  BY <1>3
  DEF Notification, OnBeforeOpenSolution, OpenFileWithoutSolution, OpenFolder,
      OnAfterOpenSolution, OnAfterOpenFolder, OnBeforeBackgroundSolutionLoadBegins,
      OnAfterBackgroundSolutionLoadComplete, OnAfterLoadProject, OnAfterOpenProject,
      OnBeforeUnloadProject, OnAfterActiveSolutionCfgChange, OnBeforeCloseSolution,
      OnAfterCloseSolution, ReloadSolution, OnWorkspacePropertyChanged, LoadManagedPackage
<1> QED  BY <1>1, <1>2, <1>3 DEF Next, vars

\* The types; in particular a loader never has more than three references.
THEOREM Typing == Spec => []TypeOK
<1>1. LoadInv => QueryTypeOK /\ LoadTypeOK
  <2> SUFFICES ASSUME LoadInv PROVE LoadTypeOK  BY DEF LoadInv, QueryInv
  <2> USE DEF LoadInv
  <2>1. sPendingLoads \in 0..MaxLoads  BY LoaderNumbers DEF LoaderInv, PendingOK
  <2>2. refs \in [Loaders -> 0..3]
    <3>1. \A l \in Loaders : refs[l] = (IF LoaderGone(l) THEN 0 ELSE 2) + (IF ui.pl = l THEN 1 ELSE 0)
      BY DEF LoaderInv, RefsOK, RegisteredLoaderLives
    <3>2. \A l \in Loaders : refs[l] \in 0..3  BY <3>1
    <3>3. refs \in [Loaders -> Int]  BY DEF LoaderInv, LoaderTypes
    <3> QED  BY <3>2, <3>3
  <2>3. /\ mRawProjectList \in Contents /\ mProjectHash \in Contents /\ loaded \in Contents
        /\ launched \in 0..MaxLoads /\ g_pl \in 0..launched /\ dirLock \in 0..launched
        /\ content \in [Loaders -> Contents]
    BY DEF LoaderInv, LoaderTypes
  <2>4. lpc \in [Loaders -> Places] /\ ui \in UiTypes(launched)
    BY DEF LoaderInv, LoaderTypes, UiTypes
  <2>5. FlagTypes  OBVIOUS
  <2> QED  BY <2>1, <2>2, <2>3, <2>4, <2>5 DEF LoadTypeOK, FlagTypes, Places, UiTypes
<1>2. Spec => [](ide \in IdeStates)
  <2>1. Init => ide \in IdeStates  BY StartAssumption DEF Init, IdeStates
  <2>2. ide \in IdeStates /\ [Next]_vars => (ide \in IdeStates)'  BY IdeStep
  <2> QED  BY <2>1, <2>2, PTL DEF Spec
<1>3. ListenerOK(sl) =>
        sl \in [state : LoadStates, prev : LoadStates, timers : SUBSET Timers, refs : Nat]
  <2> SUFFICES ASSUME ListenerOK(sl)
               PROVE  sl \in [state : LoadStates, prev : LoadStates, timers : SUBSET Timers,
                              refs : Nat]
    OBVIOUS
  <2>1. sl \in Listeners /\ sl.refs = 1 + Cardinality(sl.timers)  BY DEF ListenerOK, Counted
  <2>2. Cardinality(sl.timers) \in Nat  BY <2>1, TimersFinite DEF Listeners
  <2>3. sl.refs \in Nat  BY <2>1, <2>2
  <2> QED  BY <2>1, <2>3 DEF Listeners
<1>4. LoadInv /\ ListenerOK(sl) /\ ide \in IdeStates => TypeOK  BY <1>1, <1>3 DEF TypeOK
<1> QED  BY <1>2, <1>4, LoadInvariant, ListenerInvariant, PTL
=============================================================================
