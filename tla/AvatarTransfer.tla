--------------------------- MODULE AvatarTransfer ---------------------------
(* Steam avatars, from cgame's lookup to the texture it draws: AvatarWorker   *)
(* in fnql_steam.cpp, a thread of its own, and the main thread's cache of     *)
(* shaders in cl_webui.cpp. A step is a section under the worker's mutex or   *)
(* one call of the provider. Handlers of the main thread share data only in   *)
(* such sections and are one step each, except Stop, which waits.             *)
EXTENDS Naturals, Sequences, FiniteSets, SequencesExt

CONSTANTS
    Users,           \* Steam identities
    Avatars,         \* the (identity, size) pairs that are asked for
    NoAvatar,        \* the zero SteamID
    MaxOutstanding,  \* AvatarWorker::MaxOutstanding
    CacheSize,       \* CL_STEAM_AVATAR_CACHE_SIZE
    MaxPictures,     \* bound: how often Steam replaces a user's picture
    MaxSessions,     \* bound: renderer sessions
    MaxWorkers       \* bound: provider sessions

ASSUME AvatarAssumption ==
    /\ Avatars \subseteq Users \X Nat
    /\ NoAvatar \notin Avatars
    /\ {MaxOutstanding, CacheSize, MaxSessions, MaxWorkers} \subseteq Nat \ {0}
    /\ MaxPictures \in Nat

VARIABLES
    picture,   \* Steam: user -> version of the picture it has, 0 for none yet
    loaded,    \* Steam: users with an undelivered AVATAR_IMAGE_LOADED event
    provider,  \* is the provider library initialised?
    workers,   \* history: provider sessions so far
    mainPc,    \* main thread: "run", or where it is in AvatarWorker::Stop
    workerPc,  \* worker thread: where it is in Run, "none" before it is
               \* started, "failed" when it could not be
    notified,  \* the condition variable has woken the waiting worker
    queue, results,
    inFlight,  \* the key in transfer while busy, NoAvatar otherwise
    copied,    \* the worker's local: the result so far
    cache,     \* cl_steamAvatarCache
    session,   \* cl_steamAvatarSession
    renderer,  \* the renderer's sessions, each with shader indices of its own
    drawn      \* cgame: the shader it was given for each avatar

steamVars  == <<picture, loaded>>
workerVars == <<workerPc, notified, queue, results, inFlight, copied>>
clientVars == <<cache, session, renderer, drawn>>
vars == <<steamVars, provider, workers, mainPc, workerVars, clientVars>>

UserOf(a) == a[1]
Least(S) == CHOOSE i \in S : \A j \in S : i <= j

\* Of a shader only its origin matters: session, avatar and picture.
Shaders == [session : 1 .. MaxSessions, avatar : Avatars, picture : 1 .. MaxPictures + 1]
NoShader == [session |-> 0, avatar |-> NoAvatar, picture |-> 0]

\* The placeholder Steam starts with has other extents than a portrait.
Extents(version) == IF version = 1 THEN "placeholder" ELSE "portrait"

Copies == [result : {"ok", "pending", "failed"}, picture : 0 .. MaxPictures + 1]
Nothing == [result |-> "failed", picture |-> 0]

\* History: "by" is the provider session that promised the result, "joined"
\* says that the request was answered with a transfer queued before it.
NoEntry == [avatar |-> NoAvatar, session |-> 0, shader |-> NoShader,
            requested |-> FALSE, timedOut |-> FALSE, retryLater |-> FALSE,
            by |-> 0, joined |-> FALSE]

Entries == [avatar : Avatars \cup {NoAvatar}, session : 0 .. MaxSessions,
            shader : Shaders \cup {NoShader}, requested : BOOLEAN, timedOut : BOOLEAN,
            retryLater : BOOLEAN, by : 0 .. MaxWorkers, joined : BOOLEAN]

TypeOK ==
    /\ picture \in [Users -> 0 .. MaxPictures + 1]
    /\ loaded \subseteq Users
    /\ provider \in BOOLEAN
    /\ workers \in 1 .. MaxWorkers
    /\ mainPc \in {"run", "notify", "join"}
    /\ workerPc \in {"none", "failed", "test", "wait", "size", "load", "publish", "returned"}
    /\ notified \in BOOLEAN
    /\ queue \in Seq(Avatars)
    /\ results \in Seq([avatar : Avatars, copy : Copies])
    /\ inFlight \in Avatars \cup {NoAvatar}
    /\ copied \in Copies
    /\ cache \in [1 .. CacheSize -> Entries]
    /\ {session, renderer} \subseteq 1 .. MaxSessions
    /\ drawn \in [Avatars -> Shaders \cup {NoShader}]

NewWorker ==
    /\ workerPc = "none"
    /\ notified = FALSE
    /\ queue = << >>
    /\ results = << >>
    /\ inFlight = NoAvatar
    /\ copied = Nothing

Init ==
    /\ picture \in [Users -> 0 .. 1]
    /\ loaded = {}
    /\ provider = TRUE
    /\ workers = 1
    /\ mainPc = "run"
    /\ NewWorker
    /\ cache = [i \in 1 .. CacheSize |-> NoEntry]
    /\ session = 1
    /\ renderer = 1
    /\ drawn = [a \in Avatars |-> NoShader]

\* Steam: a picture arrives or is replaced, and an event follows.
ReplacePicture(u) ==
    /\ picture[u] <= MaxPictures
    /\ picture' = [picture EXCEPT ![u] = @ + 1]
    /\ loaded' = loaded \cup {u}
    /\ UNCHANGED <<provider, workers, mainPc, workerVars, clientVars>>

-----------------------------------------------------------------------------
(* The worker thread, AvatarWorker::Run.                                     *)

Stopping == mainPc # "run"

\* The wait's predicate is tested under the mutex, first and after each wake.
\* A spurious wake-up tests it again and changes nothing.
WorkerTest ==
    /\ workerPc = "test"
    /\ IF ~Stopping /\ queue # << >>
       THEN /\ inFlight' = Head(queue)
            /\ queue' = Tail(queue)
            /\ workerPc' = "size"
       ELSE /\ workerPc' = IF Stopping THEN "returned" ELSE "wait"
            /\ UNCHANGED <<inFlight, queue>>
    /\ UNCHANGED <<steamVars, provider, workers, mainPc, notified, results, copied, clientVars>>

WorkerWake ==
    /\ workerPc = "wait"
    /\ notified
    /\ workerPc' = "test"
    /\ notified' = FALSE
    /\ UNCHANGED <<steamVars, provider, workers, mainPc, queue, results, inFlight, copied,
                   clientVars>>

\* The sizing call of Transfer, which ends it when there is no picture, and
\* the loading call, which copies the picture of its own time and fails when
\* the buffer was sized for other extents.
TransferCall ==
    /\ workerPc \in {"size", "load"}
    /\ LET now == picture[UserOf(inFlight)] IN
       IF workerPc = "size"
       THEN /\ copied' = [result |-> IF now = 0 THEN "pending" ELSE "failed", picture |-> now]
            /\ workerPc' = IF now = 0 THEN "publish" ELSE "load"
       ELSE /\ copied' = [result |-> IF Extents(now) = Extents(copied.picture)
                                     THEN "ok" ELSE "failed", picture |-> now]
            /\ workerPc' = "publish"
    /\ UNCHANGED <<steamVars, provider, workers, mainPc, notified, queue, results, inFlight,
                   clientVars>>

Finished == [avatar |-> inFlight, copy |-> copied]

WorkerPublish ==
    /\ workerPc = "publish"
    /\ results' = IF Stopping THEN results ELSE Append(results, Finished)
    /\ inFlight' = NoAvatar
    /\ copied' = Nothing
    /\ workerPc' = "test"
    /\ UNCHANGED <<steamVars, provider, workers, mainPc, notified, queue, clientVars>>

-----------------------------------------------------------------------------
(* FNQL_Steam_RequestAvatarRGBA and AvatarWorker::Request, by what they        *)
(* answer. "joined" is FNQL_STEAM_RESULT_PENDING too.                          *)

Finishing == {results[n].avatar : n \in 1 .. Len(results)}

\* Defective variant: a finished transfer nobody has taken is forgotten.
IsOutstandingUnfinished(a) == a = inFlight \/ a \in ToSet(queue)

IsOutstanding(a) == a = inFlight \/ a \in ToSet(queue) \/ a \in Finishing

OutstandingCount == Len(queue) + Len(results) + (IF inFlight = NoAvatar THEN 0 ELSE 1)

\* A thread that could not be started makes the caller transfer. A portrait may
\* replace the placeholder between the two calls, and then that fails.
InlineTransfer(a) ==
    LET v == picture[UserOf(a)]
        Copy(res, ver) == results' = Append(results, [avatar |-> a,
                                         copy |-> [result |-> res, picture |-> ver]])
    IN
    /\ workerPc \in {"none", "failed"}
    /\ workerPc' = "failed"
    /\ \/ Copy(IF v = 0 THEN "pending" ELSE "ok", v) /\ UNCHANGED steamVars
       \/ /\ v = 1 /\ v <= MaxPictures
          /\ picture' = [picture EXCEPT ![UserOf(a)] = 2]
          /\ loaded' = loaded \cup {UserOf(a)}
          /\ Copy("failed", 2)
    /\ UNCHANGED <<notified, queue>>

Enqueue(a) ==
    /\ workerPc # "failed"
    /\ workerPc' = IF workerPc = "none" THEN "test" ELSE workerPc
    /\ queue' = Append(queue, a)
    /\ notified' = (notified \/ workerPc = "wait")
    /\ UNCHANGED <<results, steamVars>>

Request(a, answer) ==
    /\ answer = CASE IsOutstanding(a) -> "joined"
                  [] ~IsOutstanding(a) /\ OutstandingCount >= MaxOutstanding -> "unavailable"
                  [] OTHER -> "pending"
    /\ IF answer = "pending"
       THEN Enqueue(a) \/ InlineTransfer(a)
       ELSE UNCHANGED <<workerPc, notified, queue, results, steamVars>>

-----------------------------------------------------------------------------
(* The cache of the main thread.                                             *)

MatchOf(a) == {i \in 1 .. CacheSize : cache[i].avatar = a}

\* Free, left from an earlier session, or an avatar that never resolved.
MayTakeOver(e) ==
    e.avatar = NoAvatar \/ e.session # session \/ (e.shader = NoShader /\ ~e.requested)

\* The entry CL_GetSteamAvatarImageHandle works on: the avatar's own, or else
\* the first that may be taken over.
Target(a) ==
    LET free == {i \in 1 .. CacheSize : MayTakeOver(cache[i])} IN
    IF MatchOf(a) # {} \/ free = {} THEN MatchOf(a) ELSE {Least(free)}

HasShader(e) == e.session = session /\ e.shader # NoShader

\* Defective variant: a request is waited for however long it takes.
NotNowPatient(e) ==
    /\ e.session = session
    /\ e.shader = NoShader
    /\ e.requested \/ e.retryLater

\* A request is waited for until CL_STEAM_AVATAR_REQUEST_TIMEOUT_MSEC have
\* passed, a failure is retried after CL_STEAM_AVATAR_RETRY_MSEC.
NotNow(e) ==
    /\ e.session = session
    /\ e.shader = NoShader
    /\ IF e.requested THEN ~e.timedOut ELSE e.retryLater

\* cgame asks for an avatar until it is given a shader.
Asks(a) == ~Stopping /\ provider /\ drawn[a] = NoShader

LookupAnswered(a) ==
    /\ Asks(a)
    /\ \E i \in MatchOf(a) : /\ HasShader(cache[i])
                             /\ drawn' = [drawn EXCEPT ![a] = cache[i].shader]
    /\ UNCHANGED <<steamVars, provider, workers, mainPc, workerVars, cache, session, renderer>>

LookupRequests(a) ==
    /\ Asks(a)
    /\ \E i \in Target(a), answer \in {"pending", "joined", "unavailable"} :
        /\ ~(cache[i].avatar = a /\ (HasShader(cache[i]) \/ NotNow(cache[i])))
        /\ Request(a, answer)
        /\ cache' = [cache EXCEPT ![i] =
             [avatar |-> a, session |-> session, shader |-> NoShader,
              requested |-> answer # "unavailable", timedOut |-> FALSE,
              retryLater |-> answer = "unavailable",
              by |-> workers, joined |-> answer = "joined"]]
    /\ UNCHANGED <<provider, workers, mainPc, inFlight, copied, session, renderer, drawn>>

TimePasses(i) ==
    /\ \/ /\ cache[i].requested /\ ~cache[i].timedOut
          /\ cache' = [cache EXCEPT ![i].timedOut = TRUE]
       \/ /\ cache[i].retryLater
          /\ cache' = [cache EXCEPT ![i].retryLater = FALSE]
    /\ UNCHANGED <<steamVars, provider, workers, mainPc, workerVars, session, renderer, drawn>>

\* CL_Steam_AvatarFrame: the entry that waits for a result.
Waiting(r) == {i \in 1 .. CacheSize : /\ cache[i].requested
                                      /\ cache[i].avatar = r.avatar
                                      /\ cache[i].session = session}

\* Results are taken up to the first that is uploaded.
TakenCount ==
    LET up == {n \in 1 .. Len(results) :
                   results[n].copy.result = "ok" /\ Waiting(results[n]) # {}} IN
    IF up = {} THEN Len(results) ELSE Least(up)

\* Defective variant: a failed transfer leaves its entry waiting.
ResolveOnlyGood(e, r) ==
    IF r.copy.result = "ok"
    THEN [e EXCEPT !.requested = FALSE, !.timedOut = FALSE,
                   !.shader = [session |-> renderer, avatar |-> r.avatar,
                               picture |-> r.copy.picture]]
    ELSE e

Resolve(e, r) ==
    IF r.copy.result = "ok"
    THEN [e EXCEPT !.requested = FALSE, !.timedOut = FALSE,
                   !.shader = [session |-> renderer, avatar |-> r.avatar,
                               picture |-> r.copy.picture]]
    ELSE [e EXCEPT !.requested = FALSE, !.timedOut = FALSE, !.retryLater = TRUE]

AvatarFrame ==
    /\ ~Stopping
    /\ results # << >>
    /\ cache' = [i \in 1 .. CacheSize |->
          LET mine == {n \in 1 .. TakenCount : Waiting(results[n]) # {} /\
                                               Least(Waiting(results[n])) = i}
          IN IF mine = {} THEN cache[i] ELSE Resolve(cache[i], results[Least(mine)])]
    /\ results' = SubSeq(results, TakenCount + 1, Len(results))
    /\ UNCHANGED <<steamVars, provider, workers, mainPc, workerPc, notified, queue, inFlight,
                   copied, session, renderer, drawn>>

\* Defective variant: an entry that waits for a transfer is left alone.
OfUserResolved(e, u) == e.avatar # NoAvatar /\ UserOf(e.avatar) = u /\ ~e.requested

OfUser(e, u) == e.avatar # NoAvatar /\ UserOf(e.avatar) = u

\* The event of a new picture: CL_InvalidateAvatarImageHandle. One that has not
\* been delivered survives the provider here, and is lost with it in the code.
InvalidateAvatar(u) ==
    /\ ~Stopping
    /\ u \in loaded
    /\ loaded' = loaded \ {u}
    /\ cache' = [i \in 1 .. CacheSize |-> IF OfUser(cache[i], u) THEN NoEntry ELSE cache[i]]
    /\ UNCHANGED <<picture, provider, workers, mainPc, workerVars, session, renderer, drawn>>

\* Defective variant: a teardown that does not clear the handles.
ClearHandlesForgotten == UNCHANGED <<session, cache>>

ClearHandles ==
    /\ session' = session + 1
    /\ cache' = [i \in 1 .. CacheSize |-> NoEntry]

\* The renderer goes down and comes up; cgame goes with it, and asks anew.
TearDownRenderer ==
    /\ ~Stopping
    /\ renderer < MaxSessions
    /\ renderer' = renderer + 1
    /\ ClearHandles
    /\ drawn' = [a \in Avatars |-> NoShader]
    /\ UNCHANGED <<steamVars, provider, workers, mainPc, workerVars>>

-----------------------------------------------------------------------------
(* FNQL_Steam_Shutdown with AvatarWorker::Stop, and FNQL_Steam_Init.         *)

StopBegin ==
    /\ mainPc = "run"
    /\ provider
    /\ queue' = << >>
    /\ mainPc' = "notify"
    /\ UNCHANGED <<steamVars, provider, workers, workerPc, notified, results, inFlight, copied,
                   clientVars>>

\* Defective variant: the flag is not followed by a notification.
NotifyNobody == notified' = notified

NotifyAll == notified' = (notified \/ workerPc = "wait")

StopNotify ==
    /\ mainPc = "notify"
    /\ NotifyAll
    /\ mainPc' = "join"
    /\ UNCHANGED <<steamVars, provider, workers, workerPc, queue, results, inFlight, copied,
                   clientVars>>

\* Defective variant: the thread is detached.
JoinedDetached == TRUE

Joined == workerPc \in {"none", "failed", "returned"}

\* The thread is joined, its object deleted, the provider shut down and
\* unloaded. (A thread that still ran would keep its place.)
StopJoin ==
    /\ mainPc = "join"
    /\ Joined
    /\ mainPc' = "run"
    /\ provider' = FALSE
    /\ workerPc' = IF workerPc \in {"failed", "returned"} THEN "none" ELSE workerPc
    /\ notified' = FALSE
    /\ queue' = << >>
    /\ results' = << >>
    /\ UNCHANGED <<steamVars, workers, inFlight, copied, clientVars>>

InitProvider ==
    /\ ~Stopping
    /\ ~provider
    /\ workers < MaxWorkers
    /\ provider' = TRUE
    /\ workers' = workers + 1
    /\ UNCHANGED <<steamVars, mainPc, workerVars, clientVars>>

-----------------------------------------------------------------------------

Worker == WorkerTest \/ WorkerWake \/ TransferCall \/ WorkerPublish

Next ==
    \/ Worker
    \/ \E u \in Users : ReplacePicture(u) \/ InvalidateAvatar(u)
    \/ \E a \in Avatars : LookupAnswered(a) \/ LookupRequests(a)
    \/ \E i \in 1 .. CacheSize : TimePasses(i)
    \/ AvatarFrame
    \/ TearDownRenderer
    \/ StopBegin \/ StopNotify \/ StopJoin
    \/ InitProvider

\* Threads are scheduled, provider calls return, the main thread goes round its
\* frame loop (events, results, cgame's drawing), and time passes. Nothing is
\* assumed of Steam.
Fairness ==
    /\ WF_vars(Worker) /\ WF_vars(StopNotify) /\ WF_vars(StopJoin) /\ WF_vars(AvatarFrame)
    /\ \A u \in Users : WF_vars(InvalidateAvatar(u))
    /\ \A a \in Avatars : WF_vars(LookupAnswered(a)) /\ WF_vars(LookupRequests(a))
    /\ \A i \in 1 .. CacheSize : WF_vars(TimePasses(i))

Spec == Init /\ [][Next]_vars
LiveSpec == Spec /\ Fairness

-----------------------------------------------------------------------------
(* Properties.                                                               *)

\* "A transfer never outlives the provider" (fnql_steam.cpp): while the worker
\* is in a call of the provider, the provider is loaded, whenever shutdown comes.
CallsLoadedProvider == workerPc \in {"size", "load"} => provider

\* No avatar is being transferred twice, counting what is queued, under way and
\* finished but not taken, and all of that stays within MaxOutstanding, although
\* the worker moves a transfer from one place to the next between requests.
TransferredOnce ==
    LET all == queue \o [n \in 1 .. Len(results) |-> results[n].avatar]
                     \o (IF inFlight = NoAvatar THEN << >> ELSE <<inFlight>>)
    IN IsInjective(all) /\ Len(all) <= MaxOutstanding

\* What Request promises (fnql_steam.h): while an entry waits for a transfer of
\* the present worker, that transfer is outstanding, so that a result comes,
\* whatever the worker did since and however often the cache was torn down.
PromiseHeld ==
    \A i \in 1 .. CacheSize :
        cache[i].requested /\ cache[i].by = workers /\ provider /\ ~Stopping
            => IsOutstanding(cache[i].avatar)

\* cgame draws what it asked for: the handle it holds was registered in the
\* renderer session that is up, for this avatar. A handle of an earlier session
\* is the index of an unrelated shader now.
RightFaceDrawn ==
    \A a \in Avatars :
        drawn[a] # NoShader => drawn[a].session = renderer /\ drawn[a].avatar = a

PictureCurrent(e) ==
    HasShader(e) /\ UserOf(e.avatar) \notin loaded
        => e.shader.picture = picture[UserOf(e.avatar)]

\* Once the event of the newest picture has been handled, the cache has that
\* picture or none, unless the request joined a transfer queued before. Of an
\* event that a restart of the provider loses it does not speak.
PicturesCurrent ==
    \A i \in 1 .. CacheSize : cache[i].joined \/ PictureCurrent(cache[i])

CacheFull(a) == Target(a) = {}

\* Once Steam has everybody's picture, an avatar that cgame keeps asking for is
\* drawn in the end, through refusals, failed and joined transfers and a
\* provider that was restarted under its request, unless there is no entry.
\* (Pictures that never come may keep a full queue full.)
AvatarArrives ==
    \A a \in Avatars :
        (provider /\ \A u \in Users : picture[u] > 0)
            ~> (drawn[a] # NoShader \/ ~provider \/ CacheFull(a))

\* Shutdown never hangs on the worker: Stop returns.
StopReturns == Stopping ~> ~Stopping
=============================================================================
