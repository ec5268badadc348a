----------------------------- MODULE AvatarProofs -----------------------------
(***************************************************************************)
(* Proofs about module AvatarTransfer: for any users and avatars, any limit *)
(* of outstanding transfers and any size of the cache.                      *)
(***************************************************************************)
EXTENDS AvatarTransfer, SequenceTheorems, FiniteSetTheorems, TLAPS

-----------------------------------------------------------------------------
\* The inductive invariant.

\* The provider is loaded while it is being stopped and while a worker lives.
ProviderUp == ~provider => mainPc = "run" /\ workerPc = "none"

\* The key that is in flight is set exactly while it is being transferred, and
\* a buffer is only allocated for a picture that is there.
InTransfer ==
    /\ workerPc \in {"size", "load", "publish"} <=> inFlight # NoAvatar
    /\ workerPc = "load" => picture[UserOf(inFlight)] > 0

\* A copy that was made is of a picture.
CopiesReal ==
    /\ copied.result = "ok" => copied.picture > 0
    /\ \A n \in 1 .. Len(results) :
           results[n].copy.result = "ok" => results[n].copy.picture > 0

\* The cache holds one entry of an avatar, of the renderer session that is up.
EntryRight(e) ==
    /\ e = NoEntry \/ e.session = session
    /\ e.requested => e.avatar # NoAvatar /\ e.shader = NoShader
    /\ e.shader # NoShader => e.shader.avatar = e.avatar /\ e.shader.session = session
    /\ e.by <= workers

CacheRight ==
    /\ session = renderer
    /\ \A i \in 1 .. CacheSize : EntryRight(cache[i])
    /\ \A i, j \in 1 .. CacheSize :
           cache[i].avatar = cache[j].avatar /\ cache[i].avatar # NoAvatar => i = j

IInv ==
    /\ TypeOK
    /\ ProviderUp
    /\ InTransfer
    /\ CopiesReal
    /\ CacheRight
    /\ PromiseHeld
    /\ RightFaceDrawn

-----------------------------------------------------------------------------
\* Least numbers.

\* A set of numbers has a least one: the intervals below its members have a
\* smallest.
LEMMA LeastInSet ==
    ASSUME NEW S \in SUBSET Nat, S # {}
    PROVE  Least(S) \in S /\ \A j \in S : Least(S) <= j
<1> DEFINE T == {1 .. n : n \in S}
<1>1. T \subseteq FiniteSubsetsOf(Nat) /\ T # {}
  <2>1. \A n \in Nat : 1 .. n \in FiniteSubsetsOf(Nat)
    <3>1. \A n \in Nat : IsFiniteSet(1 .. n) /\ 1 .. n \subseteq Nat
      BY FS_Interval
    <3>2. QED
      BY <3>1 DEF FiniteSubsetsOf
  <2>2. QED
    BY <2>1
<1>2. IsWellFoundedOn(StrictSubsetOrdering(Nat), FiniteSubsetsOf(Nat))
  BY FS_StrictSubsetOrderingWellFounded
<1>3. PICK x \in T : \A y \in T : ~ (<<y, x>> \in StrictSubsetOrdering(Nat))
  BY <1>1, <1>2, WFMin
<1>4. PICK m \in S : x = 1 .. m
  BY <1>3
<1>5. ASSUME NEW j \in S PROVE m <= j
  <2>1. SUFFICES ASSUME j < m PROVE FALSE
    OBVIOUS
  <2>2. 1 .. j \subseteq 1 .. m /\ m \in 1 .. m /\ m \notin 1 .. j
    BY <2>1
  <2>3. 1 .. j \subseteq 1 .. m /\ 1 .. j # 1 .. m
    BY <2>2
  <2>4. <<1 .. j, 1 .. m>> \in StrictSubsetOrdering(Nat)
    BY <2>3 DEF StrictSubsetOrdering
  <2>5. 1 .. j \in T
    OBVIOUS
  <2>6. QED
    BY <1>3, <1>4, <2>4, <2>5
<1>6. QED
  BY <1>5 DEF Least

LEMMA LeastOfOne ==
    ASSUME NEW i \in Nat
    PROVE  Least({i}) = i
  BY DEF Least

-----------------------------------------------------------------------------
\* Types.

LEMMA Avatar ==
    ASSUME NEW a \in Avatars
    PROVE  UserOf(a) \in Users /\ a # NoAvatar
  BY AvatarAssumption DEF UserOf

LEMMA NoEntryRight ==
    /\ NoEntry \in Entries
    /\ NoEntry.avatar = NoAvatar /\ NoEntry.requested = FALSE /\ NoEntry.shader = NoShader
    /\ NoEntry.by = 0
  BY AvatarAssumption DEF NoEntry, Entries

LEMMA SessionType ==
    ASSUME TypeOK
    PROVE  /\ session \in Nat /\ renderer \in Nat /\ workers \in Nat
           /\ MaxSessions \in Nat /\ MaxWorkers \in Nat /\ MaxPictures \in Nat
           /\ CacheSize \in Nat
           /\ queue \in Seq(Avatars)
           /\ \A i \in 1 .. CacheSize : cache[i] \in Entries
  BY AvatarAssumption DEF TypeOK

\* The avatars that are outstanding, place by place.
LEMMA Outstanding ==
    ASSUME NEW a, queue \in Seq(Avatars)
    PROVE  IsOutstanding(a) <=> \/ a = inFlight
                                \/ \E n \in 1 .. Len(queue) : queue[n] = a
                                \/ \E n \in 1 .. Len(results) : results[n].avatar = a
  BY DEF IsOutstanding, ToSet, Finishing

-----------------------------------------------------------------------------
\* Steps.

LEMMA InitRight == Init => IInv
<1>1. SUFFICES ASSUME Init PROVE IInv
  OBVIOUS
<1>2. TypeOK
  <2>1. << >> \in Seq(Avatars) /\ << >> \in Seq([avatar : Avatars, copy : Copies])
    BY EmptySeq
  <2>2. /\ picture \in [Users -> 0 .. MaxPictures + 1]
        /\ Nothing \in Copies
    BY <1>1, AvatarAssumption DEF Init, Copies, Nothing
  <2>3. 1 \in 1 .. MaxWorkers /\ 1 \in 1 .. MaxSessions
    BY AvatarAssumption
  <2>4. cache \in [1 .. CacheSize -> Entries] /\ drawn \in [Avatars -> Shaders \cup {NoShader}]
    BY <1>1, NoEntryRight DEF Init
  <2>5. QED
    BY <1>1, <2>1, <2>2, <2>3, <2>4 DEF Init, NewWorker, TypeOK
<1>3. ProviderUp /\ InTransfer /\ CopiesReal
  BY <1>1, EmptySeq DEF Init, NewWorker, ProviderUp, InTransfer, CopiesReal, Nothing
<1>4. CacheRight
  BY <1>1, NoEntryRight DEF Init, CacheRight, EntryRight
<1>5. PromiseHeld /\ RightFaceDrawn
  BY <1>1, NoEntryRight DEF Init, PromiseHeld, RightFaceDrawn
<1>6. QED
  BY <1>2, <1>3, <1>4, <1>5 DEF IInv

\* The cache, and what cgame holds, are none of the worker's and Steam's doing.
LEMMA ClientUntouched ==
    ASSUME IInv, UNCHANGED <<clientVars, workers>>
    PROVE  CacheRight' /\ RightFaceDrawn'
  BY DEF IInv, clientVars, CacheRight, EntryRight, RightFaceDrawn

\* A promise holds as long as what is outstanding stays so.
LEMMA PromiseKept ==
    ASSUME IInv, UNCHANGED <<cache, workers>>,
           provider' /\ ~Stopping' => provider /\ ~Stopping,
           provider' /\ ~Stopping' =>
               \A a \in Avatars : IsOutstanding(a) => IsOutstanding(a)'
    PROVE  PromiseHeld'
<1>1. SUFFICES ASSUME NEW i \in 1 .. CacheSize,
                      cache[i].requested, cache[i].by = workers, provider', ~Stopping'
               PROVE  IsOutstanding(cache[i].avatar)'
  BY DEF PromiseHeld
<1>2. cache[i].avatar \in Avatars
  BY <1>1, SessionType DEF IInv, CacheRight, EntryRight, Entries
<1>3. IsOutstanding(cache[i].avatar)
  BY <1>1 DEF IInv, PromiseHeld
<1>4. QED
  BY <1>1, <1>2, <1>3

LEMMA ReplacePictureRight ==
    ASSUME IInv, NEW u \in Users, ReplacePicture(u)
    PROVE  IInv'
<1> USE DEF ReplacePicture
<1>1. picture[u] \in Nat /\ picture[u] + 1 \in 0 .. MaxPictures + 1
  BY AvatarAssumption DEF IInv, TypeOK
<1>2. picture' \in [Users -> 0 .. MaxPictures + 1] /\ \A v \in Users : picture'[v] >= picture[v]
  BY <1>1, AvatarAssumption, SMTT(30) DEF IInv, TypeOK
<1>3. TypeOK'
  BY <1>2 DEF IInv, TypeOK, workerVars, clientVars
<1>4. ProviderUp' /\ CopiesReal'
  BY DEF IInv, ProviderUp, CopiesReal, workerVars
<1>5. InTransfer'
  <2>1. inFlight \in Avatars => UserOf(inFlight) \in Users
    BY Avatar
  <2>2. workerPc = "load" => inFlight \in Avatars
    BY DEF IInv, InTransfer, TypeOK
  <2>3. QED
    BY <1>2, <2>1, <2>2, AvatarAssumption DEF IInv, InTransfer, TypeOK, workerVars
<1>6. PromiseHeld'
  BY PromiseKept DEF workerVars, clientVars, Stopping, IsOutstanding, Finishing
<1>7. QED
  BY <1>3, <1>4, <1>5, <1>6, ClientUntouched DEF IInv

LEMMA WorkerTestRight ==
    ASSUME IInv, WorkerTest
    PROVE  IInv'
<1> USE DEF WorkerTest
<1>1. queue \in Seq(Avatars) /\ workerPc = "test" /\ inFlight = NoAvatar
  BY DEF IInv, TypeOK, InTransfer
<1>2. UNCHANGED <<picture, loaded, provider, workers, mainPc, notified, results, copied, cache,
                  session, renderer, drawn>>
  BY DEF steamVars, clientVars
<1>3. CASE ~Stopping /\ queue # << >>
  <2>1. inFlight' = Head(queue) /\ queue' = Tail(queue) /\ workerPc' = "size"
    BY <1>3
  <2>2. Head(queue) \in Avatars /\ Tail(queue) \in Seq(Avatars)
    BY <1>1, <1>3, HeadTailProperties
  <2>3. TypeOK'
    BY <1>2, <2>1, <2>2 DEF IInv, TypeOK
  <2>4. ProviderUp' /\ InTransfer' /\ CopiesReal'
    BY <1>1, <1>2, <2>1, <2>2, Avatar DEF IInv, ProviderUp, InTransfer, CopiesReal
  <2>5. ASSUME NEW a \in Avatars, IsOutstanding(a) PROVE IsOutstanding(a)'
    <3>1. \A n \in 1 .. Len(queue) : queue[n] = a =>
              a = Head(queue) \/ \E m \in 1 .. Len(Tail(queue)) : Tail(queue)[m] = a
      <4>1. ASSUME NEW n \in 1 .. Len(queue), queue[n] = a, n # 1
            PROVE  \E m \in 1 .. Len(Tail(queue)) : Tail(queue)[m] = a
        <5>1. /\ Len(queue) \in Nat /\ Len(Tail(queue)) = Len(queue) - 1
              /\ \A i \in 1 .. Len(Tail(queue)) : Tail(queue)[i] = queue[i + 1]
          BY <1>1, <1>3, HeadTailProperties, LenProperties
        <5>2. n - 1 \in 1 .. Len(Tail(queue)) /\ Tail(queue)[n - 1] = a
          BY <4>1, <5>1
        <5>3. QED
          BY <5>2
      <4>2. queue[1] = Head(queue)
        BY <1>1, <1>3
      <4>3. QED
        BY <4>1, <4>2
    <3>2. a # NoAvatar
      BY Avatar
    <3>3. IsOutstanding(a) <=> \/ a = inFlight
                               \/ \E n \in 1 .. Len(queue) : queue[n] = a
                               \/ \E n \in 1 .. Len(results) : results[n].avatar = a
      BY <1>1, Outstanding
    <3>4. IsOutstanding(a)' <=> \/ a = inFlight'
                                \/ \E n \in 1 .. Len(queue') : queue'[n] = a
                                \/ \E n \in 1 .. Len(results') : results'[n].avatar = a
      BY DEF IsOutstanding, ToSet, Finishing
    <3>5. QED
      BY <1>1, <1>2, <2>1, <2>5, <3>1, <3>2, <3>3, <3>4
  <2>6. PromiseHeld'
    BY <1>2, <2>5, PromiseKept DEF Stopping
  <2>7. QED
    BY <1>2, <2>3, <2>4, <2>6, ClientUntouched DEF IInv, clientVars
<1>4. CASE ~(~Stopping /\ queue # << >>)
  <2>1. workerPc' \in {"returned", "wait"} /\ UNCHANGED <<inFlight, queue>>
    BY <1>4
  <2>2. TypeOK'
    BY <1>2, <2>1 DEF IInv, TypeOK
  <2>3. ProviderUp' /\ InTransfer' /\ CopiesReal'
    BY <1>1, <1>2, <2>1 DEF IInv, ProviderUp, InTransfer, CopiesReal
  <2>4. PromiseHeld'
    BY <1>2, <2>1, PromiseKept DEF Stopping, IsOutstanding, Finishing
  <2>5. QED
    BY <1>2, <2>2, <2>3, <2>4, ClientUntouched DEF IInv, clientVars
<1>5. QED
  BY <1>3, <1>4

LEMMA WorkerWakeRight ==
    ASSUME IInv, WorkerWake
    PROVE  IInv'
<1> USE DEF WorkerWake
<1>1. UNCHANGED <<picture, loaded, provider, workers, mainPc, queue, results, inFlight, copied,
                  cache, session, renderer, drawn>>
  BY DEF steamVars, clientVars
<1>2. TypeOK'
  BY <1>1 DEF IInv, TypeOK
<1>3. ProviderUp' /\ InTransfer' /\ CopiesReal'
  BY <1>1 DEF IInv, ProviderUp, InTransfer, CopiesReal
<1>4. PromiseHeld'
  BY <1>1, PromiseKept DEF Stopping, IsOutstanding, Finishing
<1>5. QED
  BY <1>1, <1>2, <1>3, <1>4, ClientUntouched DEF IInv, clientVars

LEMMA TransferCallRight ==
    ASSUME IInv, TransferCall
    PROVE  IInv'
<1> DEFINE now == picture[UserOf(inFlight)]
<1>1. UNCHANGED <<picture, loaded, provider, workers, mainPc, notified, queue, results, inFlight,
                  cache, session, renderer, drawn>>
  BY DEF TransferCall, steamVars, clientVars
<1>2. workerPc \in {"size", "load"} /\ inFlight \in Avatars
  BY DEF TransferCall, IInv, InTransfer, TypeOK
<1>3. now \in 0 .. MaxPictures + 1 /\ (workerPc = "load" => now > 0)
  BY <1>2, Avatar DEF IInv, TypeOK, InTransfer
<1>4. /\ copied' \in Copies /\ (copied'.result = "ok" => copied'.picture > 0)
      /\ workerPc' \in {"publish", "load"}
      /\ workerPc' = "load" => now > 0
  <2>1. CASE workerPc = "size"
    BY <1>3, <2>1, AvatarAssumption DEF TransferCall, Copies
  <2>2. CASE workerPc = "load"
    BY <1>3, <2>2 DEF TransferCall, Copies
  <2>3. QED
    BY <1>2, <2>1, <2>2
<1>5. TypeOK'
  BY <1>1, <1>4 DEF IInv, TypeOK
<1>6. ProviderUp' /\ InTransfer' /\ CopiesReal'
  BY <1>1, <1>2, <1>4, Avatar DEF IInv, ProviderUp, InTransfer, CopiesReal
<1>7. PromiseHeld'
  BY <1>1, PromiseKept DEF Stopping, IsOutstanding, Finishing
<1>8. QED
  BY <1>1, <1>5, <1>6, <1>7, ClientUntouched DEF IInv, clientVars

LEMMA WorkerPublishRight ==
    ASSUME IInv, WorkerPublish
    PROVE  IInv'
<1> DEFINE R == [avatar : Avatars, copy : Copies]
<1>1. /\ UNCHANGED <<picture, loaded, provider, workers, mainPc, notified, queue,
                     cache, session, renderer, drawn>>
      /\ results' = IF Stopping THEN results ELSE Append(results, Finished)
      /\ inFlight' = NoAvatar /\ copied' = Nothing /\ workerPc' = "test"
      /\ workerPc = "publish"
  BY DEF WorkerPublish, steamVars, clientVars
<1>2. inFlight \in Avatars /\ results \in Seq(R) /\ copied \in Copies /\ queue \in Seq(Avatars)
  BY <1>1 DEF IInv, InTransfer, TypeOK
<1>3. Finished \in R /\ Finished.avatar = inFlight /\ Finished.copy = copied
  BY <1>2 DEF Finished
<1>4. /\ Len(results) \in Nat
      /\ Append(results, Finished) \in Seq(R)
      /\ Len(Append(results, Finished)) = Len(results) + 1
      /\ \A n \in 1 .. Len(results) : Append(results, Finished)[n] = results[n]
      /\ Append(results, Finished)[Len(results) + 1] = Finished
  BY <1>2, <1>3, AppendProperties, LenProperties
<1> HIDE DEF R
<1>5. TypeOK'
  <2>1. Nothing \in Copies
    BY AvatarAssumption DEF Nothing, Copies
  <2>2. results' \in Seq(R)
    BY <1>1, <1>2, <1>4
  <2>3. QED
    BY <1>1, <2>1, <2>2 DEF IInv, TypeOK, R
<1>6. CopiesReal'
  <2>1. Nothing.result # "ok"
    BY DEF Nothing
  <2>2. CASE Stopping
    BY <1>1, <2>1, <2>2 DEF IInv, CopiesReal
  <2>3. CASE ~Stopping
    <3>1. results' = Append(results, Finished)
      BY <1>1, <2>3
    <3>2. Finished.copy.result = "ok" => Finished.copy.picture > 0
      BY <1>3 DEF IInv, CopiesReal
    <3>3. ASSUME NEW n \in 1 .. Len(results')
          PROVE  results'[n].copy.result = "ok" => results'[n].copy.picture > 0
      <4>1. CASE n = Len(results) + 1
        BY <1>4, <3>1, <3>2, <4>1
      <4>2. CASE n \in 1 .. Len(results)
        BY <1>4, <3>1, <4>2 DEF IInv, CopiesReal
      <4>3. QED
        BY <1>4, <3>1, <3>3, <4>1, <4>2
    <3>4. QED
      BY <1>1, <2>1, <3>3 DEF CopiesReal
  <2>4. QED
    BY <2>2, <2>3
<1>7. ProviderUp' /\ InTransfer'
  BY <1>1 DEF IInv, ProviderUp, InTransfer
<1>8. ASSUME ~Stopping, NEW a \in Avatars, IsOutstanding(a) PROVE IsOutstanding(a)'
  <2>1. IsOutstanding(a) <=> \/ a = inFlight
                             \/ \E n \in 1 .. Len(queue) : queue[n] = a
                             \/ \E n \in 1 .. Len(results) : results[n].avatar = a
    BY <1>2, Outstanding
  <2>2. IsOutstanding(a)' <=> \/ a = inFlight'
                              \/ \E n \in 1 .. Len(queue') : queue'[n] = a
                              \/ \E n \in 1 .. Len(results') : results'[n].avatar = a
    BY DEF IsOutstanding, ToSet, Finishing
  <2>3. /\ results' = Append(results, Finished)
        /\ Len(results) + 1 \in 1 .. Len(results')
        /\ results'[Len(results) + 1].avatar = inFlight
        /\ \A n \in 1 .. Len(results) : n \in 1 .. Len(results') /\ results'[n] = results[n]
    BY <1>1, <1>3, <1>4, <1>8
  <2>4. QED
    BY <1>1, <1>8, <2>1, <2>2, <2>3
<1>9. PromiseHeld'
  BY <1>1, <1>8, PromiseKept DEF Stopping
<1>10. QED
  BY <1>1, <1>5, <1>6, <1>7, <1>9, ClientUntouched DEF IInv, clientVars

LEMMA LookupAnsweredRight ==
    ASSUME IInv, NEW a \in Avatars, LookupAnswered(a)
    PROVE  IInv'
<1>1. UNCHANGED <<picture, loaded, provider, workers, mainPc, workerPc, notified, queue, results,
                  inFlight, copied, cache, session, renderer>>
  BY DEF LookupAnswered, steamVars, workerVars
<1>2. PICK i \in 1 .. CacheSize : /\ cache[i].avatar = a /\ HasShader(cache[i])
                                 /\ drawn' = [drawn EXCEPT ![a] = cache[i].shader]
  BY DEF LookupAnswered, MatchOf
<1>3. /\ cache[i].shader \in Shaders \cup {NoShader}
      /\ cache[i].shader.avatar = a /\ cache[i].shader.session = renderer
  BY <1>2, SessionType DEF IInv, CacheRight, EntryRight, HasShader, Entries
<1>4. TypeOK'
  BY <1>1, <1>2, <1>3 DEF IInv, TypeOK
<1>5. ProviderUp' /\ InTransfer' /\ CopiesReal' /\ CacheRight' /\ PromiseHeld'
  BY <1>1 DEF IInv, ProviderUp, InTransfer, CopiesReal, CacheRight, EntryRight, PromiseHeld,
              Stopping, IsOutstanding, Finishing
<1>6. RightFaceDrawn'
  BY <1>1, <1>2, <1>3 DEF IInv, TypeOK, RightFaceDrawn
<1>7. QED
  BY <1>4, <1>5, <1>6 DEF IInv

\* What a request leaves of the worker: nothing outstanding is lost, and a
\* request that is accepted is outstanding.
LEMMA RequestAdds ==
    ASSUME IInv, NEW a \in Avatars, NEW answer, Request(a, answer), UNCHANGED inFlight
    PROVE  /\ picture' \in [Users -> 0 .. MaxPictures + 1] /\ loaded' \subseteq Users
           /\ \A u \in Users : picture'[u] >= picture[u]
           /\ notified' \in BOOLEAN
           /\ workerPc' = workerPc \/ (workerPc = "none" /\ workerPc' \in {"test", "failed"})
           /\ queue' \in Seq(Avatars)
           /\ results' \in Seq([avatar : Avatars, copy : Copies])
           /\ \A n \in 1 .. Len(results') :
                  results'[n].copy.result = "ok" => results'[n].copy.picture > 0
           /\ \A b \in Avatars : IsOutstanding(b) => IsOutstanding(b)'
           /\ answer # "unavailable" => IsOutstanding(a)'
<1> DEFINE R == [avatar : Avatars, copy : Copies]
           Here(b) == \/ b = inFlight
                      \/ \E n \in 1 .. Len(queue) : queue[n] = b
                      \/ \E n \in 1 .. Len(results) : results[n].avatar = b
<1>1. /\ picture \in [Users -> 0 .. MaxPictures + 1] /\ loaded \subseteq Users
      /\ notified \in BOOLEAN /\ queue \in Seq(Avatars) /\ results \in Seq(R)
      /\ MaxPictures \in Nat /\ UserOf(a) \in Users
      /\ \A n \in 1 .. Len(results) : results[n].copy.result = "ok" => results[n].copy.picture > 0
  BY AvatarAssumption, Avatar DEF IInv, TypeOK, CopiesReal
<1>2. \A b : IsOutstanding(b) <=> Here(b)
  BY <1>1, Outstanding
<1>3. \A b : IsOutstanding(b)' <=> \/ b = inFlight
                                   \/ \E n \in 1 .. Len(queue') : queue'[n] = b
                                   \/ \E n \in 1 .. Len(results') : results'[n].avatar = b
  BY DEF IsOutstanding, ToSet, Finishing
<1>4. Len(queue) \in Nat /\ Len(results) \in Nat
  BY <1>1, LenProperties
<1> HIDE DEF R
<1>5. CASE answer # "pending"
  <2>1. UNCHANGED <<workerPc, notified, queue, results, picture, loaded>>
    BY <1>5 DEF Request, steamVars
  <2>2. answer # "unavailable" => IsOutstanding(a)
    BY <1>5 DEF Request
  <2>3. \A b : IsOutstanding(b) => IsOutstanding(b)'
    BY <1>2, <1>3, <2>1
  <2>4. \A u \in Users : picture'[u] >= picture[u]
    BY <1>1, <2>1
  <2>5. QED
    BY <1>1, <2>1, <2>2, <2>3, <2>4 DEF R
<1>6. CASE answer = "pending" /\ Enqueue(a)
  <2>1. /\ queue' = Append(queue, a) /\ UNCHANGED <<results, picture, loaded>>
        /\ workerPc' = IF workerPc = "none" THEN "test" ELSE workerPc
        /\ notified' \in BOOLEAN
    BY <1>1, <1>6 DEF Enqueue, steamVars
  <2>2. /\ Append(queue, a) \in Seq(Avatars)
        /\ Len(Append(queue, a)) = Len(queue) + 1
        /\ \A n \in 1 .. Len(queue) : Append(queue, a)[n] = queue[n]
        /\ Append(queue, a)[Len(queue) + 1] = a
    BY <1>1, AppendProperties
  <2>3. \A n \in 1 .. Len(queue) : n \in 1 .. Len(queue') /\ queue'[n] = queue[n]
    BY <1>4, <2>1, <2>2
  <2>4. Len(queue) + 1 \in 1 .. Len(queue') /\ queue'[Len(queue) + 1] = a
    BY <1>4, <2>1, <2>2
  <2>5. \A b : IsOutstanding(b) => IsOutstanding(b)'
    BY <1>2, <1>3, <2>1, <2>3
  <2>6. IsOutstanding(a)'
    BY <1>3, <2>4
  <2>7. \A u \in Users : picture'[u] >= picture[u]
    BY <1>1, <2>1
  <2>8. QED
    BY <1>1, <2>1, <2>2, <2>5, <2>6, <2>7 DEF R
<1>7. CASE answer = "pending" /\ InlineTransfer(a)
  <2>1. PICK r \in R :
            /\ results' = Append(results, r) /\ r.avatar = a
            /\ r.copy.result = "ok" => r.copy.picture > 0
            /\ picture' \in [Users -> 0 .. MaxPictures + 1] /\ loaded' \subseteq Users
            /\ \A u \in Users : picture'[u] >= picture[u]
    <3> DEFINE v == picture[UserOf(a)]
               first == [avatar |-> a, copy |-> [result |-> IF v = 0 THEN "pending" ELSE "ok",
                                                 picture |-> v]]
               second == [avatar |-> a, copy |-> [result |-> "failed", picture |-> 2]]
    <3>1. v \in 0 .. MaxPictures + 1
      BY <1>1
    <3>2. CASE results' = Append(results, first) /\ UNCHANGED steamVars
      <4>1. first \in R
        BY <3>1 DEF R, Copies
      <4>2. /\ first.avatar = a
            /\ first.copy.result = "ok" => first.copy.picture > 0
        BY <3>1
      <4>3. QED
        BY <1>1, <3>2, <4>1, <4>2, SMTT(30) DEF steamVars
    <3>3. CASE /\ v = 1 /\ v <= MaxPictures
               /\ picture' = [picture EXCEPT ![UserOf(a)] = 2]
               /\ loaded' = loaded \cup {UserOf(a)}
               /\ results' = Append(results, second)
      <4>1. second \in R /\ second.avatar = a /\ second.copy.result # "ok"
        BY <1>1, <3>3 DEF R, Copies
      <4>2. 2 \in 0 .. MaxPictures + 1
        BY <1>1, <3>3
      <4>3. picture' \in [Users -> 0 .. MaxPictures + 1] /\ \A u \in Users : picture'[u] >= picture[u]
        BY <1>1, <3>3, <4>2
      <4>4. QED
        BY <1>1, <3>3, <4>1, <4>3
    <3>4. QED
      BY <1>7, <3>2, <3>3 DEF InlineTransfer
  <2>2. /\ UNCHANGED <<notified, queue>>
        /\ workerPc \in {"none", "failed"} /\ workerPc' = "failed"
    BY <1>7 DEF InlineTransfer
  <2>3. /\ Append(results, r) \in Seq(R)
        /\ Len(Append(results, r)) = Len(results) + 1
        /\ \A n \in 1 .. Len(results) : Append(results, r)[n] = results[n]
        /\ Append(results, r)[Len(results) + 1] = r
    BY <1>1, AppendProperties
  <2>4. \A n \in 1 .. Len(results) : n \in 1 .. Len(results') /\ results'[n] = results[n]
    BY <1>4, <2>1, <2>3
  <2>5. Len(results) + 1 \in 1 .. Len(results') /\ results'[Len(results) + 1] = r
    BY <1>4, <2>1, <2>3
  <2>6. \A b : IsOutstanding(b) => IsOutstanding(b)'
    BY <1>2, <1>3, <2>2, <2>4
  <2>7. IsOutstanding(a)'
    BY <1>3, <2>1, <2>5
  <2>8. ASSUME NEW n \in 1 .. Len(results')
        PROVE  results'[n].copy.result = "ok" => results'[n].copy.picture > 0
    <3>1. n \in 1 .. Len(results) \/ n = Len(results) + 1
      BY <1>4, <2>1, <2>3
    <3>2. QED
      BY <1>1, <2>1, <2>4, <2>5, <3>1
  <2>9. QED
    BY <1>1, <2>1, <2>2, <2>3, <2>6, <2>7, <2>8 DEF R
<1>8. QED
  BY <1>5, <1>6, <1>7 DEF Request

\* The entry a lookup works on is the avatar's only one.
LEMMA TargetOnly ==
    ASSUME IInv, NEW a \in Avatars, NEW i \in Target(a)
    PROVE  /\ i \in 1 .. CacheSize
           /\ \A j \in 1 .. CacheSize : cache[j].avatar = a => j = i
<1> DEFINE free == {j \in 1 .. CacheSize : MayTakeOver(cache[j])}
<1>1. a # NoAvatar
  BY Avatar
<1>2. CASE MatchOf(a) # {} \/ free = {}
  BY <1>1, <1>2 DEF Target, MatchOf, IInv, CacheRight
<1>3. CASE MatchOf(a) = {} /\ free # {}
  <2>1. Target(a) = {Least(free)}
    BY <1>3 DEF Target
  <2>2. free \in SUBSET Nat /\ free # {}
    BY <1>3
  <2>3. i \in free
    BY <2>1, <2>2, LeastInSet
  <2>4. QED
    BY <1>3, <2>3 DEF MatchOf
<1>4. QED
  BY <1>2, <1>3

LEMMA LookupRequestsRight ==
    ASSUME IInv, NEW a \in Avatars, LookupRequests(a)
    PROVE  IInv'
<1>1. PICK i \in Target(a), answer \in {"pending", "joined", "unavailable"} :
        /\ Request(a, answer)
        /\ cache' = [cache EXCEPT ![i] =
             [avatar |-> a, session |-> session, shader |-> NoShader,
              requested |-> answer # "unavailable", timedOut |-> FALSE,
              retryLater |-> answer = "unavailable",
              by |-> workers, joined |-> answer = "joined"]]
  BY ZenonT(30) DEF LookupRequests
<1> DEFINE e == [avatar |-> a, session |-> session, shader |-> NoShader,
                 requested |-> answer # "unavailable", timedOut |-> FALSE,
                 retryLater |-> answer = "unavailable",
                 by |-> workers, joined |-> answer = "joined"]
<1>2. /\ UNCHANGED <<provider, workers, mainPc, inFlight, copied, session, renderer, drawn>>
      /\ provider /\ ~Stopping
  BY DEF LookupRequests, Asks
<1>3. /\ picture' \in [Users -> 0 .. MaxPictures + 1] /\ loaded' \subseteq Users
      /\ \A u \in Users : picture'[u] >= picture[u]
      /\ notified' \in BOOLEAN
      /\ workerPc' = workerPc \/ (workerPc = "none" /\ workerPc' \in {"test", "failed"})
      /\ queue' \in Seq(Avatars)
      /\ results' \in Seq([avatar : Avatars, copy : Copies])
      /\ \A n \in 1 .. Len(results') :
             results'[n].copy.result = "ok" => results'[n].copy.picture > 0
      /\ \A b \in Avatars : IsOutstanding(b) => IsOutstanding(b)'
      /\ answer # "unavailable" => IsOutstanding(a)'
  BY <1>1, <1>2, RequestAdds
<1>4. i \in 1 .. CacheSize /\ \A j \in 1 .. CacheSize : cache[j].avatar = a => j = i
  BY <1>1, TargetOnly
<1>5. e \in Entries
  BY AvatarAssumption, SessionType DEF IInv, TypeOK, Entries
<1>6. cache \in [1 .. CacheSize -> Entries]
  BY DEF IInv, TypeOK
<1>7. /\ cache' \in [1 .. CacheSize -> Entries]
      /\ cache'[i] = e
      /\ \A j \in 1 .. CacheSize : j # i => cache'[j] = cache[j]
  BY <1>1, <1>4, <1>5, <1>6
<1> HIDE DEF e
<1>8. TypeOK'
  BY <1>2, <1>3, <1>7 DEF IInv, TypeOK
<1>9. ProviderUp' /\ CopiesReal'
  BY <1>2, <1>3 DEF IInv, ProviderUp, CopiesReal
<1>10. InTransfer'
  <2>1. workerPc = "load" => inFlight \in Avatars
    BY DEF IInv, InTransfer, TypeOK
  <2>2. inFlight \in Avatars => UserOf(inFlight) \in Users
    BY Avatar
  <2>3. \A u \in Users : picture[u] \in Nat /\ picture'[u] \in Nat
    BY <1>3, AvatarAssumption DEF IInv, TypeOK
  <2>4. QED
    BY <1>2, <1>3, <2>1, <2>2, <2>3 DEF IInv, InTransfer
<1>11. CacheRight'
  <2>1. e.avatar = a /\ e.session = session /\ e.shader = NoShader /\ e.by = workers /\ a # NoAvatar
    BY Avatar DEF e
  <2>2. workers <= workers
    BY SessionType DEF IInv
  <2>3. \A j \in 1 .. CacheSize : EntryRight(cache[j])
    BY DEF IInv, CacheRight
  <2>4. \A j \in 1 .. CacheSize : EntryRight(cache'[j])
    BY <1>7, <2>1, <2>2, <2>3 DEF EntryRight
  <2>5. \A j \in 1 .. CacheSize : EntryRight(cache[j])'
    BY <1>2, <2>4 DEF EntryRight
  <2>6. \A j, k \in 1 .. CacheSize :
            cache'[j].avatar = cache'[k].avatar /\ cache'[j].avatar # NoAvatar => j = k
    BY <1>4, <1>7, <2>1 DEF IInv, CacheRight
  <2>7. QED
    BY <1>2, <2>5, <2>6 DEF IInv, CacheRight
<1>12. PromiseHeld'
  <2>1. SUFFICES ASSUME NEW j \in 1 .. CacheSize, cache'[j].requested, cache'[j].by = workers'
                 PROVE  IsOutstanding(cache[j].avatar)'
    BY DEF PromiseHeld
  <2>2. CASE j = i
    <3>1. e.avatar = a /\ (e.requested => answer # "unavailable")
      BY Zenon DEF e
    <3>2. cache'[j].avatar = a /\ IsOutstanding(a)'
      BY <1>3, <1>7, <2>1, <2>2, <3>1
    <3>3. \A b : IsOutstanding(b)' <=> (b = inFlight' \/ b \in ToSet(queue') \/ b \in Finishing')
      BY DEF IsOutstanding
    <3>4. QED
      BY <3>2, <3>3
  <2>3. CASE j # i
    <3>1. cache'[j] = cache[j]
      BY <1>7, <2>3
    <3>2. cache[j].avatar \in Avatars
      BY <2>1, <3>1, SessionType DEF IInv, CacheRight, EntryRight, Entries
    <3>3. IsOutstanding(cache[j].avatar)
      BY <1>2, <2>1, <3>1 DEF IInv, PromiseHeld
    <3>4. \A b \in Avatars : IsOutstanding(b) => IsOutstanding(b)'
      BY <1>3
    <3>5. \A b : IsOutstanding(b)' <=> (b = inFlight' \/ b \in ToSet(queue') \/ b \in Finishing')
      BY DEF IsOutstanding
    <3>6. QED
      BY <3>1, <3>2, <3>3, <3>4, <3>5
  <2>4. QED
    BY <2>2, <2>3
<1>13. RightFaceDrawn'
  BY <1>2 DEF IInv, RightFaceDrawn
<1>14. QED
  BY <1>8, <1>9, <1>10, <1>11, <1>12, <1>13 DEF IInv

LEMMA TimePassesRight ==
    ASSUME IInv, NEW i \in 1 .. CacheSize, TimePasses(i)
    PROVE  IInv'
<1>1. UNCHANGED <<picture, loaded, provider, workers, mainPc, workerPc, notified, queue, results,
                  inFlight, copied, session, renderer, drawn>>
  BY DEF TimePasses, steamVars, workerVars
<1>2. PICK e \in Entries :
          /\ cache' = [cache EXCEPT ![i] = e]
          /\ e.avatar = cache[i].avatar /\ e.session = cache[i].session
          /\ e.shader = cache[i].shader /\ e.requested = cache[i].requested
          /\ e.by = cache[i].by
          /\ cache[i] # NoEntry
  <2>1. cache[i] \in Entries /\ TRUE \in BOOLEAN /\ FALSE \in BOOLEAN
    BY SessionType DEF IInv
  <2>2. CASE /\ cache[i].requested
             /\ cache' = [cache EXCEPT ![i].timedOut = TRUE]
    <3> DEFINE e == [cache[i] EXCEPT !.timedOut = TRUE]
    <3>1. /\ e \in Entries
          /\ e.avatar = cache[i].avatar /\ e.session = cache[i].session
          /\ e.shader = cache[i].shader /\ e.requested = cache[i].requested
          /\ e.by = cache[i].by
      BY <2>1 DEF Entries
    <3>2. cache' = [cache EXCEPT ![i] = e] /\ cache[i] # NoEntry
      BY <2>2 DEF NoEntry
    <3>3. QED
      BY <3>1, <3>2
  <2>3. CASE /\ cache[i].retryLater
             /\ cache' = [cache EXCEPT ![i].retryLater = FALSE]
    <3> DEFINE e == [cache[i] EXCEPT !.retryLater = FALSE]
    <3>1. /\ e \in Entries
          /\ e.avatar = cache[i].avatar /\ e.session = cache[i].session
          /\ e.shader = cache[i].shader /\ e.requested = cache[i].requested
          /\ e.by = cache[i].by
      BY <2>1 DEF Entries
    <3>2. cache' = [cache EXCEPT ![i] = e] /\ cache[i] # NoEntry
      BY <2>3 DEF NoEntry
    <3>3. QED
      BY <3>1, <3>2
  <2>4. QED
    BY <2>2, <2>3 DEF TimePasses
<1>3. cache \in [1 .. CacheSize -> Entries]
  BY DEF IInv, TypeOK
<1>4. /\ cache' \in [1 .. CacheSize -> Entries] /\ cache'[i] = e
      /\ \A j \in 1 .. CacheSize : j # i => cache'[j] = cache[j]
  BY <1>2, <1>3
<1>5. TypeOK'
  BY <1>1, <1>4 DEF IInv, TypeOK
<1>6. ProviderUp' /\ InTransfer' /\ CopiesReal' /\ RightFaceDrawn'
  BY <1>1 DEF IInv, ProviderUp, InTransfer, CopiesReal, RightFaceDrawn
<1>7. \A j \in 1 .. CacheSize :
          /\ cache'[j].avatar = cache[j].avatar /\ cache'[j].requested = cache[j].requested
          /\ cache'[j].by = cache[j].by
  BY <1>2, <1>4
<1>8. CacheRight'
  <2>1. \A j \in 1 .. CacheSize : EntryRight(cache[j])
    BY DEF IInv, CacheRight
  <2>2. \A j \in 1 .. CacheSize : EntryRight(cache[j])'
    BY <1>1, <1>2, <1>4, <2>1 DEF EntryRight
  <2>3. QED
    BY <1>1, <1>7, <2>2 DEF IInv, CacheRight
<1>9. PromiseHeld'
  BY <1>1, <1>7 DEF IInv, PromiseHeld, Stopping, IsOutstanding, Finishing
<1>10. QED
  BY <1>5, <1>6, <1>8, <1>9 DEF IInv

\* Results are taken from the front, and no more than there are.
LEMMA TakenWithin ==
    ASSUME TypeOK
    PROVE  TakenCount \in 0 .. Len(results)
<1> DEFINE up == {n \in 1 .. Len(results) :
                     results[n].copy.result = "ok" /\ Waiting(results[n]) # {}}
<1>1. Len(results) \in Nat
  BY LenProperties DEF TypeOK
<1>2. up \in SUBSET Nat /\ \A n \in up : n \in 0 .. Len(results)
  BY <1>1
<1>3. up # {} => Least(up) \in up
  BY <1>2, LeastInSet
<1>4. TakenCount = IF up = {} THEN Len(results) ELSE Least(up)
  BY DEF TakenCount
<1> HIDE DEF up
<1>5. CASE up = {}
  BY <1>1, <1>4, <1>5
<1>6. CASE up # {}
  BY <1>2, <1>3, <1>4, <1>6
<1>7. QED
  BY <1>5, <1>6

\* CL_Steam_AvatarFrame takes a result off the worker only for an entry that
\* waits for it, or when none does.
LEMMA AvatarFrameRight ==
    ASSUME IInv, AvatarFrame
    PROVE  IInv'
<1> DEFINE R == [avatar : Avatars, copy : Copies]
           K == TakenCount
           mine(i) == {n \in 1 .. K : Waiting(results[n]) # {} /\ Least(Waiting(results[n])) = i}
<1>1. /\ UNCHANGED <<picture, loaded, provider, workers, mainPc, workerPc, notified, queue,
                     inFlight, copied, session, renderer, drawn>>
      /\ results' = SubSeq(results, K + 1, Len(results))
      /\ cache' = [i \in 1 .. CacheSize |->
                      IF mine(i) = {} THEN cache[i] ELSE Resolve(cache[i], results[Least(mine(i))])]
      /\ ~Stopping
  BY DEF AvatarFrame, steamVars
<1>2. results \in Seq(R) /\ Len(results) \in Nat /\ \A n \in 1 .. Len(results) : results[n] \in R
  BY LenProperties, ElementOfSeq DEF IInv, TypeOK
<1>3. K \in 0 .. Len(results)
  BY TakenWithin DEF IInv
<1>4. \A n : Waiting(results[n]) \in SUBSET Nat /\ Waiting(results[n]) \subseteq 1 .. CacheSize
  BY DEF Waiting
<1>5. ASSUME NEW i \in 1 .. CacheSize, NEW n \in mine(i)
      PROVE  /\ n \in 1 .. Len(results)
             /\ cache[i].requested /\ cache[i].avatar = results[n].avatar
             /\ cache[i].session = session
  <2>1. i \in Waiting(results[n])
    BY <1>4, LeastInSet
  <2>2. n \in 1 .. Len(results)
    BY <1>2, <1>3
  <2>3. QED
    BY <2>1, <2>2 DEF Waiting
<1>6. ASSUME NEW i \in 1 .. CacheSize, mine(i) # {}
      PROVE  Least(mine(i)) \in mine(i)
  <2>1. mine(i) \in SUBSET Nat
    BY <1>3
  <2>2. QED
    BY <1>6, <2>1, LeastInSet
<1> HIDE DEF K, mine
<1>7. ASSUME NEW i \in 1 .. CacheSize, mine(i) # {}
      PROVE  /\ cache'[i] \in Entries
             /\ cache'[i].avatar = cache[i].avatar /\ cache'[i].session = session
             /\ cache'[i].requested = FALSE /\ cache'[i].by = cache[i].by
             /\ cache'[i].shader # NoShader =>
                    cache'[i].shader.avatar = cache[i].avatar /\ cache'[i].shader.session = session
  <2> DEFINE r == results[Least(mine(i))]
  <2>1. /\ r \in R /\ r.avatar = cache[i].avatar
        /\ r.copy.result = "ok" => r.copy.picture > 0
        /\ cache[i].requested /\ cache[i].session = session
    BY <1>2, <1>5, <1>6, <1>7 DEF IInv, CopiesReal
  <2>2. cache'[i] = Resolve(cache[i], r)
    BY <1>1, <1>7
  <2> HIDE DEF r
  <2>3. cache[i] \in Entries /\ cache[i].shader = NoShader
    BY <2>1, SessionType DEF IInv, CacheRight, EntryRight
  <2>4. CASE r.copy.result = "ok"
    <3> DEFINE shader == [session |-> renderer, avatar |-> r.avatar, picture |-> r.copy.picture]
    <3>1. renderer \in 1 .. MaxSessions /\ renderer = session
      BY DEF IInv, TypeOK, CacheRight
    <3>2. r.avatar \in Avatars /\ r.copy.picture \in 1 .. MaxPictures + 1
      BY <2>1, <2>4, AvatarAssumption DEF Copies
    <3>3. shader \in Shaders
      BY <3>1, <3>2 DEF Shaders
    <3>4. shader.session = session /\ shader.avatar = cache[i].avatar
      BY <2>1, <3>1
    <3>5. cache'[i] = [cache[i] EXCEPT !.requested = FALSE, !.timedOut = FALSE, !.shader = shader]
      BY <2>2, <2>4 DEF Resolve
    <3> HIDE DEF shader
    <3>6. QED
      BY <2>1, <2>3, <3>3, <3>4, <3>5 DEF Entries
  <2>5. CASE r.copy.result # "ok"
    <3>1. cache'[i] = [cache[i] EXCEPT !.requested = FALSE, !.timedOut = FALSE, !.retryLater = TRUE]
      BY <2>2, <2>5 DEF Resolve
    <3>2. QED
      BY <2>1, <2>3, <3>1, ZenonT(30) DEF Entries
  <2>6. QED
    BY <2>4, <2>5
<1>8. \A i \in 1 .. CacheSize : mine(i) = {} => cache'[i] = cache[i]
  BY <1>1
<1>9. results' \in Seq(R) /\ Len(results') = Len(results) - K
      /\ \A n \in 1 .. Len(results) - K : results'[n] = results[K + n]
  <2>1. \A n \in K + 1 .. Len(results) : results[n] \in R
    BY <1>2, <1>3
  <2>2. /\ SubSeq(results, K + 1, Len(results)) \in Seq(R)
        /\ Len(SubSeq(results, K + 1, Len(results)))
               = IF K + 1 <= Len(results) THEN Len(results) - (K + 1) + 1 ELSE 0
        /\ \A n \in 1 .. Len(results) - (K + 1) + 1 :
               SubSeq(results, K + 1, Len(results))[n] = results[K + 1 + n - 1]
    BY <1>2, <1>3, <2>1, SubSeqProperties
  <2>3. QED
    BY <1>1, <1>2, <1>3, <2>2
<1>10. TypeOK'
  <2>1. cache' \in [1 .. CacheSize -> Entries]
    <3>1. \A i \in 1 .. CacheSize : cache'[i] \in Entries
      BY <1>7, <1>8, SessionType DEF IInv
    <3>2. QED
      BY <1>1, <3>1
  <2>2. QED
    BY <1>1, <1>9, <2>1 DEF IInv, TypeOK, R
<1>11. ProviderUp' /\ InTransfer' /\ RightFaceDrawn'
  BY <1>1 DEF IInv, ProviderUp, InTransfer, RightFaceDrawn
<1>12. CopiesReal'
  <2>1. ASSUME NEW n \in 1 .. Len(results')
        PROVE  K + n \in 1 .. Len(results) /\ results'[n] = results[K + n]
    BY <1>2, <1>3, <1>9
  <2>2. QED
    BY <1>1, <2>1 DEF IInv, CopiesReal
<1>13. CacheRight'
  <2>1. \A i \in 1 .. CacheSize : EntryRight(cache[i])
    BY DEF IInv, CacheRight
  <2>2. \A i \in 1 .. CacheSize : EntryRight(cache[i])'
    BY <1>1, <1>7, <1>8, <2>1 DEF EntryRight
  <2>3. \A i \in 1 .. CacheSize : cache'[i].avatar = cache[i].avatar
    BY <1>7, <1>8
  <2>4. QED
    BY <1>1, <2>2, <2>3 DEF IInv, CacheRight
<1>14. PromiseHeld'
  <2>1. SUFFICES ASSUME NEW i \in 1 .. CacheSize,
                        cache'[i].requested, cache'[i].by = workers', provider'
                 PROVE  IsOutstanding(cache[i].avatar)'
    BY DEF PromiseHeld
  <2>2. mine(i) = {} /\ cache'[i] = cache[i]
    BY <1>7, <1>8, <2>1
  <2> DEFINE a == cache[i].avatar
  <2>3. a \in Avatars /\ a # NoAvatar /\ cache[i].session = session /\ cache[i].requested
    BY <2>1, <2>2, SessionType, NoEntryRight DEF IInv, CacheRight, EntryRight, Entries
  <2>4. IsOutstanding(a)
    BY <1>1, <2>1, <2>2 DEF IInv, PromiseHeld
  <2>5. ASSUME NEW n \in 1 .. Len(results), results[n].avatar = a
        PROVE  n > K
    <3>1. Waiting(results[n]) = {i}
      BY <2>3, <2>5 DEF Waiting, IInv, CacheRight
    <3>2. Least(Waiting(results[n])) = i
      BY <3>1, LeastOfOne
    <3>3. n \notin 1 .. K
      BY <2>2, <3>1, <3>2 DEF mine
    <3>4. QED
      BY <1>2, <1>3, <3>3
  <2>6. ASSUME NEW n \in 1 .. Len(results), results[n].avatar = a
        PROVE  \E k \in 1 .. Len(results') : results'[k].avatar = a
    <3>1. n - K \in 1 .. Len(results') /\ K + (n - K) = n
      BY <1>2, <1>3, <1>9, <2>5, <2>6
    <3>2. QED
      BY <1>9, <2>6, <3>1
  <2>7. IsOutstanding(a) <=> \/ a = inFlight
                             \/ \E n \in 1 .. Len(queue) : queue[n] = a
                             \/ \E n \in 1 .. Len(results) : results[n].avatar = a
    BY SessionType, Outstanding DEF IInv
  <2>8. \A b : IsOutstanding(b)' <=> \/ b = inFlight'
                                     \/ \E n \in 1 .. Len(queue') : queue'[n] = b
                                     \/ \E n \in 1 .. Len(results') : results'[n].avatar = b
    BY DEF IsOutstanding, ToSet, Finishing
  <2>9. \/ a = inFlight'
        \/ \E n \in 1 .. Len(queue') : queue'[n] = a
        \/ \E n \in 1 .. Len(results') : results'[n].avatar = a
    BY <1>1, <2>4, <2>6, <2>7
  <2>10. \A b : IsOutstanding(b)' <=> (b = inFlight' \/ b \in ToSet(queue') \/ b \in Finishing')
    BY DEF IsOutstanding
  <2>11. QED
    BY <2>2, <2>8, <2>9, <2>10
<1>15. QED
  BY <1>10, <1>11, <1>12, <1>13, <1>14 DEF IInv

LEMMA InvalidateAvatarRight ==
    ASSUME IInv, NEW u \in Users, InvalidateAvatar(u)
    PROVE  IInv'
<1>1. /\ UNCHANGED <<picture, provider, workers, mainPc, workerPc, notified, queue, results,
                     inFlight, copied, session, renderer, drawn>>
      /\ loaded' = loaded \ {u}
      /\ cache' = [i \in 1 .. CacheSize |-> IF OfUser(cache[i], u) THEN NoEntry ELSE cache[i]]
  BY DEF InvalidateAvatar, workerVars
<1>2. cache' \in [1 .. CacheSize -> Entries]
  BY <1>1, SessionType, NoEntryRight DEF IInv
<1>3. \A i \in 1 .. CacheSize : cache'[i] = NoEntry \/ cache'[i] = cache[i]
  BY <1>1
<1>4. TypeOK'
  BY <1>1, <1>2 DEF IInv, TypeOK
<1>5. ProviderUp' /\ InTransfer' /\ CopiesReal' /\ RightFaceDrawn'
  BY <1>1 DEF IInv, ProviderUp, InTransfer, CopiesReal, RightFaceDrawn
<1>6. CacheRight'
  <2>1. \A i \in 1 .. CacheSize : EntryRight(cache[i])
    BY DEF IInv, CacheRight
  <2>2. 0 <= workers
    BY SessionType DEF IInv, TypeOK
  <2>3. \A i \in 1 .. CacheSize : EntryRight(cache[i])'
    BY <1>1, <1>3, <2>1, <2>2, NoEntryRight DEF EntryRight
  <2>4. QED
    BY <1>1, <1>3, <2>3, NoEntryRight DEF IInv, CacheRight
<1>7. PromiseHeld'
  BY <1>1, <1>3, NoEntryRight DEF IInv, PromiseHeld, Stopping, IsOutstanding, Finishing
<1>8. QED
  BY <1>4, <1>5, <1>6, <1>7 DEF IInv

LEMMA TearDownRendererRight ==
    ASSUME IInv, TearDownRenderer
    PROVE  IInv'
<1>1. /\ UNCHANGED <<picture, loaded, provider, workers, mainPc, workerPc, notified, queue, results,
                     inFlight, copied>>
      /\ renderer < MaxSessions /\ renderer' = renderer + 1 /\ session' = session + 1
      /\ cache' = [i \in 1 .. CacheSize |-> NoEntry]
      /\ drawn' = [a \in Avatars |-> NoShader]
  BY DEF TearDownRenderer, ClearHandles, steamVars, workerVars
<1>2. {session', renderer'} \subseteq 1 .. MaxSessions /\ session' = renderer'
  BY <1>1, SessionType DEF IInv, TypeOK, CacheRight
<1>3. TypeOK'
  BY <1>1, <1>2, NoEntryRight DEF IInv, TypeOK
<1>4. ProviderUp' /\ InTransfer' /\ CopiesReal'
  BY <1>1 DEF IInv, ProviderUp, InTransfer, CopiesReal
<1>5. CacheRight'
  <2>1. 0 <= workers
    BY SessionType DEF IInv, TypeOK
  <2>2. \A i \in 1 .. CacheSize : EntryRight(cache[i])'
    BY <1>1, <2>1, NoEntryRight DEF EntryRight
  <2>3. QED
    BY <1>1, <1>2, <2>2, NoEntryRight DEF CacheRight
<1>6. PromiseHeld' /\ RightFaceDrawn'
  BY <1>1, NoEntryRight DEF PromiseHeld, RightFaceDrawn
<1>7. QED
  BY <1>3, <1>4, <1>5, <1>6 DEF IInv

LEMMA StopRight ==
    ASSUME IInv, StopBegin \/ StopNotify
    PROVE  IInv'
<1>1. /\ UNCHANGED <<picture, loaded, provider, workers, workerPc, results, inFlight, copied, cache,
                     session, renderer, drawn>>
      /\ mainPc' \in {"notify", "join"} /\ provider
      /\ notified' \in BOOLEAN
      /\ queue' \in Seq(Avatars)
  <2>1. CASE StopBegin
    BY <2>1, EmptySeq DEF StopBegin, steamVars, clientVars, IInv, TypeOK
  <2>2. CASE StopNotify
    BY <2>2 DEF StopNotify, NotifyAll, steamVars, clientVars, IInv, TypeOK, ProviderUp
  <2>3. QED
    BY <2>1, <2>2
<1>2. TypeOK'
  BY <1>1 DEF IInv, TypeOK
<1>3. ProviderUp' /\ InTransfer' /\ CopiesReal' /\ PromiseHeld'
  BY <1>1 DEF IInv, ProviderUp, InTransfer, CopiesReal, PromiseHeld, Stopping
<1>4. QED
  BY <1>1, <1>2, <1>3, ClientUntouched DEF IInv, clientVars

LEMMA StopJoinRight ==
    ASSUME IInv, StopJoin
    PROVE  IInv'
<1>1. /\ UNCHANGED <<picture, loaded, workers, inFlight, copied, cache, session, renderer, drawn>>
      /\ workerPc \in {"none", "failed", "returned"} /\ workerPc' = "none"
      /\ mainPc' = "run" /\ provider' = FALSE /\ notified' = FALSE
      /\ queue' = << >> /\ results' = << >>
  BY DEF StopJoin, Joined, steamVars, clientVars
<1>2. << >> \in Seq(Avatars) /\ << >> \in Seq([avatar : Avatars, copy : Copies]) /\ Len(<< >>) = 0
  BY EmptySeq
<1>3. TypeOK'
  BY <1>1, <1>2 DEF IInv, TypeOK
<1>4. ProviderUp' /\ InTransfer' /\ CopiesReal' /\ PromiseHeld'
  BY <1>1, <1>2 DEF IInv, ProviderUp, InTransfer, CopiesReal, PromiseHeld
<1>5. QED
  BY <1>1, <1>3, <1>4, ClientUntouched DEF IInv, clientVars

\* A new provider session has promised nothing yet.
LEMMA InitProviderRight ==
    ASSUME IInv, InitProvider
    PROVE  IInv'
<1>1. /\ UNCHANGED <<picture, loaded, mainPc, workerPc, notified, queue, results, inFlight, copied,
                     cache, session, renderer, drawn>>
      /\ workers < MaxWorkers /\ workers' = workers + 1 /\ provider' = TRUE
  BY DEF InitProvider, steamVars, workerVars, clientVars
<1>2. workers' \in 1 .. MaxWorkers
  BY <1>1, SessionType DEF IInv, TypeOK
<1>3. TypeOK'
  BY <1>1, <1>2 DEF IInv, TypeOK
<1>4. ProviderUp' /\ InTransfer' /\ CopiesReal' /\ RightFaceDrawn'
  BY <1>1 DEF IInv, ProviderUp, InTransfer, CopiesReal, RightFaceDrawn
<1>5. \A i \in 1 .. CacheSize : cache[i].by \in Nat /\ cache[i].by <= workers /\ workers \in Nat
  BY SessionType DEF IInv, CacheRight, EntryRight, Entries
<1>6. \A i \in 1 .. CacheSize : cache[i].by <= workers' /\ cache[i].by # workers'
  BY <1>1, <1>5
<1>7. CacheRight'
  <2>1. \A i \in 1 .. CacheSize : EntryRight(cache[i])'
    BY <1>1, <1>6 DEF IInv, CacheRight, EntryRight
  <2>2. QED
    BY <1>1, <2>1 DEF IInv, CacheRight
<1>8. PromiseHeld'
  BY <1>1, <1>6 DEF PromiseHeld
<1>9. QED
  BY <1>3, <1>4, <1>7, <1>8 DEF IInv

-----------------------------------------------------------------------------
\* IInv is an inductive invariant of the worker, the cache and the shutdown.
THEOREM AvatarInvariant == Spec => []IInv
<1>1. Init => IInv
  BY InitRight
<1>2. IInv /\ [Next]_vars => IInv'
  <2>1. SUFFICES ASSUME IInv, [Next]_vars PROVE IInv'
    OBVIOUS
  <2>2. CASE UNCHANGED vars
    BY <2>1, <2>2 DEF vars, steamVars, workerVars, clientVars, IInv, TypeOK, ProviderUp, InTransfer,
                      CopiesReal, CacheRight, EntryRight, PromiseHeld, Stopping, IsOutstanding,
                      Finishing, RightFaceDrawn
  <2>3. CASE Worker
    BY <2>1, <2>3, WorkerTestRight, WorkerWakeRight, TransferCallRight, WorkerPublishRight DEF Worker
  <2>4. CASE \E u \in Users : ReplacePicture(u) \/ InvalidateAvatar(u)
    BY <2>1, <2>4, ReplacePictureRight, InvalidateAvatarRight
  <2>5. CASE \E a \in Avatars : LookupAnswered(a) \/ LookupRequests(a)
    BY <2>1, <2>5, LookupAnsweredRight, LookupRequestsRight
  <2>6. CASE \E i \in 1 .. CacheSize : TimePasses(i)
    BY <2>1, <2>6, TimePassesRight
  <2>7. CASE AvatarFrame \/ TearDownRenderer
    BY <2>1, <2>7, AvatarFrameRight, TearDownRendererRight
  <2>8. CASE StopBegin \/ StopNotify \/ StopJoin \/ InitProvider
    BY <2>1, <2>8, StopRight, StopJoinRight, InitProviderRight
  <2>9. QED
    BY <2>1, <2>2, <2>3, <2>4, <2>5, <2>6, <2>7, <2>8 DEF Next
<1>3. QED
  BY <1>1, <1>2, PTL DEF Spec

\* "A transfer never outlives the provider" (AvatarWorker::Stop is called before
\* the provider is unloaded, FNQL_Steam_Shutdown).
THEOREM CallsSafe == Spec => []CallsLoadedProvider
<1>1. IInv => CallsLoadedProvider
  BY DEF IInv, ProviderUp, CallsLoadedProvider
<1>2. QED
  BY <1>1, AvatarInvariant, PTL

\* What the client waits for is outstanding (AvatarWorker::Request and Take,
\* CL_Steam_AvatarFrame).
THEOREM PromiseKeptAlways == Spec => []PromiseHeld
<1>1. IInv => PromiseHeld
  BY DEF IInv
<1>2. QED
  BY <1>1, AvatarInvariant, PTL

\* cgame draws the avatar it asked for, with a handle of the renderer that is up
\* (CL_ClearAvatarImageHandles, CL_GetSteamAvatarImageHandle).
THEOREM RightFace == Spec => []RightFaceDrawn
<1>1. IInv => RightFaceDrawn
  BY DEF IInv
<1>2. QED
  BY <1>1, AvatarInvariant, PTL

-----------------------------------------------------------------------------
\* Transfers happen once: no avatar is in two of the worker's places, and the
\* places together stay within the limit.
Once ==
    /\ \A i, j \in 1 .. Len(queue) : queue[i] = queue[j] => i = j
    /\ \A i, j \in 1 .. Len(results) : results[i].avatar = results[j].avatar => i = j
    /\ \A i \in 1 .. Len(queue), j \in 1 .. Len(results) : queue[i] # results[j].avatar
    /\ \A i \in 1 .. Len(queue) : queue[i] # inFlight
    /\ \A j \in 1 .. Len(results) : results[j].avatar # inFlight
    /\ OutstandingCount <= MaxOutstanding

LEMMA Places ==
    ASSUME TypeOK
    PROVE  /\ queue \in Seq(Avatars) /\ results \in Seq([avatar : Avatars, copy : Copies])
           /\ Len(queue) \in Nat /\ Len(results) \in Nat /\ MaxOutstanding \in Nat \ {0}
           /\ \A i \in 1 .. Len(queue) : queue[i] \in Avatars
           /\ \A j \in 1 .. Len(results) : results[j].avatar \in Avatars
<1>1. queue \in Seq(Avatars) /\ results \in Seq([avatar : Avatars, copy : Copies])
  BY DEF TypeOK
<1>2. \A j \in 1 .. Len(results) : results[j] \in [avatar : Avatars, copy : Copies]
  BY <1>1, ElementOfSeq
<1>3. \A j \in 1 .. Len(results) : results[j].avatar \in Avatars
  BY <1>2
<1>4. QED
  BY <1>1, <1>3, ElementOfSeq, LenProperties, AvatarAssumption

LEMMA OnceInit == Init => Once
<1>1. SUFFICES ASSUME Init PROVE Once
  OBVIOUS
<1>2. queue = << >> /\ results = << >> /\ inFlight = NoAvatar
  BY <1>1 DEF Init, NewWorker
<1>3. Len(queue) = 0 /\ Len(results) = 0 /\ 0 <= MaxOutstanding
  BY <1>2, AvatarAssumption
<1>4. OutstandingCount = 0
  BY <1>2, <1>3 DEF OutstandingCount
<1>5. QED
  BY <1>3, <1>4 DEF Once

\* The worker takes the oldest request: one place less, one place more.
LEMMA OnceTest ==
    ASSUME IInv, Once, WorkerTest
    PROVE  Once'
<1>1. /\ TypeOK /\ inFlight = NoAvatar /\ results' = results
      /\ IF ~Stopping /\ queue # << >>
         THEN inFlight' = Head(queue) /\ queue' = Tail(queue)
         ELSE inFlight' = inFlight /\ queue' = queue
  BY DEF IInv, InTransfer, WorkerTest
<1>2. CASE inFlight' = inFlight /\ queue' = queue
  BY <1>1, <1>2 DEF Once, OutstandingCount
<1>3. CASE queue # << >> /\ inFlight' = Head(queue) /\ queue' = Tail(queue)
  <2>1. /\ Head(queue) = queue[1] /\ Len(queue) >= 1
        /\ Len(Tail(queue)) = Len(queue) - 1
        /\ \A i \in 1 .. Len(queue) - 1 : Tail(queue)[i] = queue[i + 1]
    BY <1>1, <1>3, Places, HeadTailProperties
  <2> DEFINE q == Len(queue)
             t == Tail(queue)
  <2>2. q \in Nat /\ Len(results) \in Nat
    BY <1>1, Places
  <2>3. \A i \in 1 .. Len(t) : i + 1 \in 1 .. q /\ i + 1 # 1 /\ t[i] = queue[i + 1]
    BY <2>1, <2>2
  <2>4. 1 \in 1 .. q
    BY <2>1, <2>2
  <2>5. OutstandingCount' <= MaxOutstanding
    <3>1. queue[1] # NoAvatar
      BY <1>1, <2>4, Places, Avatar
    <3>2. OutstandingCount = q + Len(results) + 0
      BY <1>1 DEF OutstandingCount
    <3>3. OutstandingCount' = Len(queue') + Len(results') + 1
      BY <1>3, <2>1, <3>1 DEF OutstandingCount
    <3>4. Len(queue') = q - 1 /\ Len(results') = Len(results)
      BY <1>1, <1>3, <2>1
    <3> HIDE DEF q
    <3>5. (q - 1) + Len(results) + 1 = q + Len(results) + 0
      BY <2>2
    <3>6. OutstandingCount' = OutstandingCount
      BY <3>2, <3>3, <3>4, <3>5
    <3>7. QED
      BY <3>6 DEF Once
  <2>6. inFlight' = queue[1] /\ queue' = t
    BY <1>3, <2>1
  <2> HIDE DEF t, q
  <2>7. /\ \A i, j \in 1 .. Len(t) : t[i] = t[j] => i = j
        /\ \A i \in 1 .. Len(t), j \in 1 .. Len(results) : t[i] # results[j].avatar
        /\ \A i \in 1 .. Len(t) : t[i] # queue[1]
        /\ \A j \in 1 .. Len(results) : results[j].avatar # queue[1]
    BY <2>2, <2>3, <2>4 DEF Once, q
  <2>8. QED
    BY <1>1, <2>5, <2>6, <2>7 DEF Once
<1>4. QED
  BY <1>1, <1>2, <1>3

\* A result at the end, of an avatar that is in no other place.
LEMMA OnceAppended ==
    ASSUME TypeOK, Once, NEW r \in [avatar : Avatars, copy : Copies],
           results' = Append(results, r), queue' = queue, inFlight' = NoAvatar,
           \A i \in 1 .. Len(queue) : queue[i] # r.avatar,
           \A j \in 1 .. Len(results) : results[j].avatar # r.avatar,
           Len(queue) + Len(results) < MaxOutstanding
    PROVE  Once'
<1> DEFINE l == Len(results)
<1>1. /\ Len(results') = l + 1 /\ results'[l + 1] = r
      /\ \A j \in 1 .. l : results'[j] = results[j]
  BY Places, AppendProperties
<1>2. l \in Nat /\ Len(queue) \in Nat
  BY Places
<1>3. \A j \in 1 .. Len(results') :
          (j \in 1 .. l /\ results'[j] = results[j]) \/ (j = l + 1 /\ results'[j] = r)
  BY <1>1, <1>2
<1>4. r.avatar # NoAvatar /\ \A j \in 1 .. l : results[j].avatar # NoAvatar
  BY Places, Avatar
<1>5. \A i \in 1 .. Len(queue) : queue[i] # NoAvatar
  BY Places, Avatar
<1>6. OutstandingCount' <= MaxOutstanding
  BY <1>1, <1>2, Places DEF OutstandingCount
<1>7. /\ \A i, j \in 1 .. l : results[i].avatar = results[j].avatar => i = j
      /\ \A i \in 1 .. Len(queue), j \in 1 .. l : queue[i] # results[j].avatar
      /\ \A i, j \in 1 .. Len(queue) : queue[i] = queue[j] => i = j
      /\ \A j \in 1 .. l : results[j].avatar # r.avatar
  BY DEF Once
<1> HIDE DEF l
<1>8. \A i, j \in 1 .. Len(results') : results'[i].avatar = results'[j].avatar => i = j
  BY <1>3, <1>7
<1>9. \A j \in 1 .. Len(results') : /\ results'[j].avatar # NoAvatar
                                    /\ \A i \in 1 .. Len(queue) : queue[i] # results'[j].avatar
  BY <1>3, <1>4, <1>7
<1>10. QED
  BY <1>5, <1>6, <1>7, <1>8, <1>9 DEF Once

LEMMA OncePublish ==
    ASSUME IInv, Once, WorkerPublish
    PROVE  Once'
<1>1. /\ TypeOK /\ inFlight \in Avatars /\ copied \in Copies
      /\ inFlight' = NoAvatar /\ queue' = queue
      /\ results' = IF Stopping THEN results ELSE Append(results, Finished)
  BY DEF IInv, InTransfer, TypeOK, WorkerPublish
<1>2. inFlight # NoAvatar
  BY <1>1, Avatar
<1>3. /\ Len(queue) + Len(results) < MaxOutstanding
      /\ Len(queue) \in Nat /\ Len(results) \in Nat /\ MaxOutstanding \in Nat
  BY <1>1, <1>2, Places DEF Once, OutstandingCount
<1>4. CASE results' = Append(results, Finished)
  <2>1. Finished \in [avatar : Avatars, copy : Copies] /\ Finished.avatar = inFlight
    BY <1>1 DEF Finished
  <2>2. /\ \A i \in 1 .. Len(queue) : queue[i] # inFlight
        /\ \A j \in 1 .. Len(results) : results[j].avatar # inFlight
    BY DEF Once
  <2> DEFINE r == Finished
  <2> HIDE DEF r
  <2>3. r \in [avatar : Avatars, copy : Copies] /\ r.avatar = inFlight
        /\ results' = Append(results, r)
    BY <1>4, <2>1 DEF r
  <2>4. QED
    BY <1>1, <1>3, <2>2, <2>3, OnceAppended
<1>5. CASE results' = results
  <2>1. \A i \in 1 .. Len(queue) : queue[i] # NoAvatar
    BY <1>1, Places, Avatar
  <2>2. \A j \in 1 .. Len(results) : results[j].avatar # NoAvatar
    BY <1>1, Places, Avatar
  <2>3. OutstandingCount' <= MaxOutstanding
    BY <1>1, <1>3, <1>5 DEF OutstandingCount
  <2>4. QED
    BY <1>1, <1>5, <2>1, <2>2, <2>3 DEF Once
<1>6. QED
  BY <1>1, <1>4, <1>5

\* A transfer on the main thread's own account leaves a result of the picture as
\* it was then, and at most announces another.
LEMMA InlineResult ==
    ASSUME TypeOK, NEW a \in Avatars, InlineTransfer(a)
    PROVE  \E r \in [avatar : Avatars, copy : Copies] :
               /\ r.avatar = a
               /\ results' = Append(results, r)
               /\ r.copy.result = "ok" => r.copy.picture = picture[UserOf(a)]
               /\ r.copy.result = "ok" => picture' = picture /\ loaded' = loaded
               /\ \A u \in Users : picture'[u] # picture[u] => u \in loaded'
               /\ loaded \subseteq loaded'
<1> DEFINE v == picture[UserOf(a)]
           R == [avatar : Avatars, copy : Copies]
           first == [avatar |-> a, copy |-> [result |-> IF v = 0 THEN "pending" ELSE "ok",
                                             picture |-> v]]
           second == [avatar |-> a, copy |-> [result |-> "failed", picture |-> 2]]
<1>1. /\ UserOf(a) \in Users /\ v \in 0 .. MaxPictures + 1 /\ MaxPictures \in Nat
      /\ picture \in [Users -> 0 .. MaxPictures + 1]
  BY Avatar, AvatarAssumption DEF TypeOK
<1>2. CASE results' = Append(results, first) /\ UNCHANGED steamVars
  <2>1. first \in R /\ first.avatar = a /\ first.copy.picture = picture[UserOf(a)]
    BY <1>1 DEF Copies
  <2>2. picture' = picture /\ loaded' = loaded
    BY <1>2 DEF steamVars
  <2> HIDE DEF first
  <2>3. QED
    BY <1>2, <2>1, <2>2
<1>3. CASE /\ v = 1 /\ v <= MaxPictures
           /\ picture' = [picture EXCEPT ![UserOf(a)] = 2]
           /\ loaded' = loaded \cup {UserOf(a)}
           /\ results' = Append(results, second)
  <2>1. second \in R /\ second.avatar = a /\ second.copy.result # "ok"
    BY <1>1, <1>3 DEF Copies
  <2>2. \A u \in Users : u # UserOf(a) => picture'[u] = picture[u]
    BY <1>1, <1>3
  <2> HIDE DEF second
  <2>3. QED
    BY <1>3, <2>1, <2>2
<1>4. QED
  BY <1>2, <1>3 DEF InlineTransfer

\* Only an avatar that is in no place is transferred, and only below the limit.
LEMMA OnceRequest ==
    ASSUME IInv, Once, NEW a \in Avatars, LookupRequests(a)
    PROVE  Once'
<1>1. /\ TypeOK /\ inFlight' = inFlight
      /\ \E answer \in {"pending", "joined", "unavailable"} : Request(a, answer)
  BY DEF IInv, LookupRequests
<1>2. PICK answer \in {"pending", "joined", "unavailable"} : Request(a, answer)
  BY <1>1
<1>3. CASE answer # "pending"
  <2>1. queue' = queue /\ results' = results
    BY <1>2, <1>3 DEF Request
  <2>2. QED
    BY <1>1, <2>1 DEF Once, OutstandingCount
<1>4. CASE answer = "pending"
  <2>1. ~IsOutstanding(a) /\ ~(OutstandingCount >= MaxOutstanding)
    BY <1>2, <1>4 DEF Request
  <2>2. /\ a # inFlight /\ \A i \in 1 .. Len(queue) : queue[i] # a
        /\ \A j \in 1 .. Len(results) : results[j].avatar # a
    BY <1>1, <2>1, Places, Outstanding
  <2>3. /\ Len(queue) \in Nat /\ Len(results) \in Nat /\ MaxOutstanding \in Nat
        /\ Len(queue) + Len(results) < MaxOutstanding
        /\ OutstandingCount + 1 <= MaxOutstanding /\ OutstandingCount \in Nat
    BY <1>1, <2>1, Places DEF OutstandingCount
  <2>4. CASE Enqueue(a)
    <3> DEFINE l == Len(queue)
    <3>1. queue' = Append(queue, a) /\ results' = results
      BY <2>4 DEF Enqueue
    <3>2. /\ Len(queue') = l + 1 /\ queue'[l + 1] = a
          /\ \A i \in 1 .. l : queue'[i] = queue[i]
      BY <1>1, <3>1, Places, AppendProperties
    <3>3. \A i \in 1 .. Len(queue') :
              (i \in 1 .. l /\ queue'[i] = queue[i]) \/ (i = l + 1 /\ queue'[i] = a)
      BY <2>3, <3>2
    <3>4. OutstandingCount' <= MaxOutstanding
      BY <1>1, <2>3, <3>1, <3>2 DEF OutstandingCount
    <3>5. \A i, j \in 1 .. Len(queue') : queue'[i] = queue'[j] => i = j
      BY <2>2, <3>3 DEF Once
    <3>6. \A i \in 1 .. Len(queue') :
              /\ queue'[i] # inFlight
              /\ \A j \in 1 .. Len(results) : queue'[i] # results[j].avatar
      BY <2>2, <3>3 DEF Once
    <3>7. QED
      BY <1>1, <3>1, <3>4, <3>5, <3>6 DEF Once
  <2>5. CASE InlineTransfer(a)
    <3>1. queue' = queue /\ workerPc \in {"none", "failed"}
      BY <2>5 DEF InlineTransfer
    <3>2. inFlight = NoAvatar
      BY <3>1 DEF IInv, InTransfer
    <3>3. PICK r \in [avatar : Avatars, copy : Copies] : r.avatar = a /\ results' = Append(results, r)
      BY <1>1, <2>5, InlineResult
    <3>4. QED
      BY <1>1, <2>2, <2>3, <3>1, <3>2, <3>3, OnceAppended
  <2>6. QED
    BY <1>2, <1>4, <2>4, <2>5 DEF Request
<1>5. QED
  BY <1>3, <1>4

\* The main thread takes results from the front.
LEMMA OnceFrame ==
    ASSUME IInv, Once, AvatarFrame
    PROVE  Once'
<1> DEFINE K == TakenCount
           l == Len(results)
<1>1. /\ queue' = queue /\ inFlight' = inFlight
      /\ results' = SubSeq(results, K + 1, l)
  BY DEF AvatarFrame
<1>2. l \in Nat /\ K \in 0 .. l /\ Len(queue) \in Nat /\ MaxOutstanding \in Nat
      /\ results \in Seq([avatar : Avatars, copy : Copies])
  BY Places, TakenWithin DEF IInv
<1> HIDE DEF K
<1>3. Len(results') = l - K /\ \A n \in 1 .. l - K : results'[n] = results[K + n]
  <2>1. K + 1 \in 1 .. l + 1 /\ l \in (K + 1) - 1 .. l
    BY <1>2
  <2>2. /\ Len(results') = l - (K + 1) + 1
        /\ \A n \in 1 .. l - (K + 1) + 1 : results'[n] = results[K + 1 + n - 1]
    BY <1>1, <1>2, <2>1, SubSeqProperties
  <2>3. QED
    BY <1>2, <2>2
<1>4. \A n \in 1 .. Len(results') : K + n \in 1 .. l /\ results'[n] = results[K + n]
  BY <1>2, <1>3
<1>5. OutstandingCount' <= MaxOutstanding
  <2> DEFINE busy == IF inFlight = NoAvatar THEN 0 ELSE 1
  <2>1. busy \in Nat /\ Len(queue) + l + busy <= MaxOutstanding
    BY DEF Once, OutstandingCount
  <2>2. OutstandingCount' = Len(queue) + Len(results') + busy
    BY <1>1 DEF OutstandingCount
  <2> HIDE DEF busy, l
  <2>3. Len(queue) + (l - K) + busy <= MaxOutstanding
    BY <1>2, <2>1
  <2>4. QED
    BY <1>3, <2>2, <2>3
<1>6. \A i, j \in 1 .. Len(results') : results'[i].avatar = results'[j].avatar => i = j
  <2>1. SUFFICES ASSUME NEW i \in 1 .. Len(results'), NEW j \in 1 .. Len(results'),
                        results'[i].avatar = results'[j].avatar
                 PROVE  i = j
    OBVIOUS
  <2>2. K + i = K + j
    BY <1>4, <2>1, SMTT(30) DEF Once
  <2>3. i \in Nat /\ j \in Nat
    BY <1>2, <1>3, <2>1
  <2>4. QED
    BY <1>2, <2>2, <2>3
<1>7. /\ \A i \in 1 .. Len(queue), j \in 1 .. Len(results') : queue[i] # results'[j].avatar
      /\ \A j \in 1 .. Len(results') : results'[j].avatar # inFlight
      /\ \A i, j \in 1 .. Len(queue) : queue[i] = queue[j] => i = j
      /\ \A i \in 1 .. Len(queue) : queue[i] # inFlight
  BY <1>4 DEF Once
<1> DEFINE r == results'
<1> HIDE DEF r
<1>8. /\ \A i, j \in 1 .. Len(r) : r[i].avatar = r[j].avatar => i = j
      /\ \A i \in 1 .. Len(queue), j \in 1 .. Len(r) : queue[i] # r[j].avatar
      /\ \A j \in 1 .. Len(r) : r[j].avatar # inFlight
  BY <1>6, <1>7 DEF r
<1>9. queue' = queue /\ inFlight' = inFlight /\ results' = r
  BY <1>1 DEF r
<1>10. QED
  BY <1>5, <1>7, <1>8, <1>9 DEF Once

\* Stopping empties places.
LEMMA OnceStop ==
    ASSUME IInv, Once, StopBegin \/ StopJoin
    PROVE  Once'
<1>1. /\ TypeOK /\ inFlight' = inFlight /\ queue' = << >>
      /\ results' = results \/ results' = << >>
  BY DEF IInv, StopBegin, StopJoin
<1>2. Len(queue') = 0 /\ (results' = << >> => Len(results') = 0)
  BY <1>1
<1>3. Len(queue) \in Nat /\ Len(results) \in Nat /\ MaxOutstanding \in Nat
  BY <1>1, Places
<1>4. OutstandingCount' <= MaxOutstanding
  BY <1>1, <1>2, <1>3 DEF Once, OutstandingCount
<1>5. CASE results' = results
  BY <1>1, <1>2, <1>4, <1>5 DEF Once
<1>6. CASE results' = << >>
  BY <1>2, <1>4, <1>6 DEF Once
<1>7. QED
  BY <1>1, <1>5, <1>6

LEMMA OnceUntouched ==
    ASSUME Once, UNCHANGED <<queue, results, inFlight>>
    PROVE  Once'
  BY DEF Once, OutstandingCount

LEMMA OnceStep ==
    ASSUME IInv, Once, [Next]_vars
    PROVE  Once'
<1>1. CASE UNCHANGED vars
  BY <1>1, OnceUntouched DEF vars, workerVars
<1>2. CASE Worker
  <2>1. CASE WorkerWake \/ TransferCall
    BY <2>1, OnceUntouched DEF WorkerWake, TransferCall
  <2>2. QED
    BY <1>2, <2>1, OnceTest, OncePublish DEF Worker
<1>3. CASE \E u \in Users : ReplacePicture(u) \/ InvalidateAvatar(u)
  BY <1>3, OnceUntouched DEF ReplacePicture, InvalidateAvatar, workerVars
<1>4. CASE \E a \in Avatars : LookupAnswered(a) \/ LookupRequests(a)
  <2>1. ASSUME NEW a \in Avatars, LookupAnswered(a) PROVE Once'
    BY <2>1, OnceUntouched DEF LookupAnswered, workerVars
  <2>2. QED
    BY <1>4, <2>1, OnceRequest
<1>5. CASE \E i \in 1 .. CacheSize : TimePasses(i)
  BY <1>5, OnceUntouched DEF TimePasses, workerVars
<1>6. CASE AvatarFrame
  BY <1>6, OnceFrame
<1>7. CASE TearDownRenderer \/ StopNotify \/ InitProvider
  BY <1>7, OnceUntouched DEF TearDownRenderer, StopNotify, InitProvider, workerVars
<1>8. CASE StopBegin \/ StopJoin
  BY <1>8, OnceStop
<1>9. QED
  BY <1>1, <1>2, <1>3, <1>4, <1>5, <1>6, <1>7, <1>8 DEF Next

\* Queue, results and the key in flight, laid end to end.
LEMMA OnceMeansInjective ==
    ASSUME TypeOK, Once
    PROVE  TransferredOnce
<1> DEFINE q == queue
           t == [n \in 1 .. Len(results) |-> results[n].avatar]
           f == IF inFlight = NoAvatar THEN << >> ELSE <<inFlight>>
           Q == Len(q)
           T == Len(results)
           F == IF inFlight = NoAvatar THEN 0 ELSE 1
<1>1. /\ queue \in Seq(Avatars) /\ Q \in Nat /\ T \in Nat /\ MaxOutstanding \in Nat
      /\ \A j \in 1 .. Len(results) : results[j].avatar \in Avatars
  BY Places
<1>2. t \in Seq(Avatars) /\ Len(t) = T /\ \A n \in 1 .. T : t[n] = results[n].avatar
  <2>1. t \in [1 .. T -> Avatars]
    BY <1>1
  <2>2. t \in Seq(Avatars)
    BY <1>1, <2>1, IsASeq
  <2>3. QED
    BY <1>1, <2>1, <2>2, LenProperties
<1>3. f \in Seq(Avatars) /\ Len(f) = F /\ \A n \in 1 .. F : n = 1 /\ f[n] = inFlight
  <2>1. CASE inFlight = NoAvatar
    BY <2>1, EmptySeq
  <2>2. CASE inFlight # NoAvatar
    <3>1. inFlight \in Avatars
      BY <2>2 DEF TypeOK
    <3>2. QED
      BY <2>2, <3>1
  <2>3. QED
    BY <2>1, <2>2
<1> HIDE DEF t, f
<1>4. F \in Nat /\ (F = 1 => inFlight # NoAvatar)
  OBVIOUS
<1> DEFINE qt == q \o t
<1>5. /\ qt \in Seq(Avatars) /\ Len(qt) = Q + T
      /\ \A n \in 1 .. Q + T : qt[n] = IF n <= Q THEN q[n] ELSE t[n - Q]
  <2>1. /\ qt \in Seq(Avatars) /\ Len(qt) = Len(q) + Len(t)
        /\ \A n \in 1 .. Len(q) + Len(t) :
               qt[n] = IF n <= Len(q) THEN q[n] ELSE t[n - Len(q)]
    BY <1>1, <1>2, ConcatProperties, Zenon
  <2>2. QED
    BY <1>2, <2>1, Zenon
<1> HIDE DEF qt
<1> DEFINE all == qt \o f
<1>6. /\ all \in Seq(Avatars) /\ Len(all) = Q + T + F
      /\ \A n \in 1 .. Q + T + F : all[n] = IF n <= Q + T THEN qt[n] ELSE f[n - (Q + T)]
  <2>1. /\ qt \o f \in Seq(Avatars) /\ Len(qt \o f) = Len(qt) + Len(f)
        /\ \A n \in 1 .. Len(qt) + Len(f) :
               (qt \o f)[n] = IF n <= Len(qt) THEN qt[n] ELSE f[n - Len(qt)]
    <3>1. qt \in Seq(Avatars) /\ f \in Seq(Avatars)
      BY <1>3, <1>5
    <3>2. QED
      BY <3>1, ConcatProperties
  <2>2. QED
    BY <1>3, <1>5, <2>1, Zenon
<1>7. DOMAIN all = 1 .. Q + T + F
  BY <1>6, LenProperties
<1>8. Q + T + F <= MaxOutstanding
  BY DEF Once, OutstandingCount
<1> HIDE DEF all, F, T, Q
<1>9. \A n \in 1 .. Q + T + F :
          \/ n \in 1 .. Q /\ all[n] = queue[n]
          \/ n - Q \in 1 .. T /\ all[n] = results[n - Q].avatar
          \/ n = Q + T + 1 /\ F = 1 /\ all[n] = inFlight
  <2>1. SUFFICES ASSUME NEW n \in 1 .. Q + T + F
        PROVE  \/ n \in 1 .. Q /\ all[n] = queue[n]
               \/ n - Q \in 1 .. T /\ all[n] = results[n - Q].avatar
               \/ n = Q + T + 1 /\ F = 1 /\ all[n] = inFlight
    OBVIOUS
  <2>2. CASE n <= Q
    <3>1. n \in 1 .. Q /\ n \in 1 .. Q + T /\ n <= Q + T
      BY <1>1, <1>4, <2>1, <2>2
    <3>2. all[n] = qt[n] /\ qt[n] = q[n]
      BY <1>5, <1>6, <2>1, <2>2, <3>1, Zenon
    <3>3. QED
      BY <3>1, <3>2
  <2>3. CASE n > Q /\ n <= Q + T
    <3>1. n - Q \in 1 .. T /\ ~(n <= Q)
      BY <1>1, <2>1, <2>3
    <3>2. n \in 1 .. Q + T
      BY <1>1, <2>1, <2>3
    <3>3. all[n] = qt[n] /\ qt[n] = t[n - Q]
      BY <1>5, <1>6, <2>1, <2>3, <3>1, <3>2, Zenon
    <3>4. QED
      BY <1>2, <3>1, <3>3, Zenon
  <2>4. CASE n > Q + T
    <3>1. n - (Q + T) \in 1 .. F /\ ~(n <= Q + T)
      BY <1>1, <1>4, <2>1, <2>4
    <3>2. all[n] = f[n - (Q + T)] /\ n - (Q + T) = 1 /\ f[n - (Q + T)] = inFlight
      BY <1>3, <1>6, <2>1, <3>1
    <3>3. QED
      BY <1>1, <1>4, <2>1, <3>1, <3>2 DEF F
  <2>5. QED
    BY <1>1, <2>1, <2>2, <2>3, <2>4
<1>10. ASSUME NEW m \in 1 .. Q + T + F, NEW n \in 1 .. Q + T + F, all[m] = all[n]
       PROVE  m = n
  <2>1. /\ \A i, j \in 1 .. Q : queue[i] = queue[j] => i = j
        /\ \A i, j \in 1 .. T : results[i].avatar = results[j].avatar => i = j
        /\ \A i \in 1 .. Q, j \in 1 .. T : queue[i] # results[j].avatar
        /\ \A i \in 1 .. Q : queue[i] # inFlight
        /\ \A j \in 1 .. T : results[j].avatar # inFlight
    BY DEF Once, Q, T
  <2>2. m - Q = n - Q => m = n
    BY <1>1, <1>4
  <2>3. QED
    BY <1>9, <1>10, <2>1, <2>2
<1>11. IsInjective(all)
  BY <1>7, <1>10 DEF IsInjective
<1>12. TransferredOnce <=> IsInjective(all) /\ Len(all) <= MaxOutstanding
  BY DEF TransferredOnce, all, qt, q, t, f
<1>13. QED
  BY <1>6, <1>8, <1>11, <1>12

\* No transfer is made twice (AvatarWorker::Request).
THEOREM OnlyOnce == Spec => []TransferredOnce
<1>1. Init => Once
  BY OnceInit
<1>2. IInv /\ Once /\ [Next]_vars => Once'
  BY OnceStep
<1>3. IInv /\ Once => TransferredOnce
  BY OnceMeansInjective DEF IInv
<1>4. QED
  BY <1>1, <1>2, <1>3, AvatarInvariant, PTL DEF Spec

-----------------------------------------------------------------------------
\* The pictures the cache holds are the newest ones. What a transfer brings for
\* an entry that asked for it, while it is under way and when it is finished, is
\* as new as the last picture whose event was handled.

Expects(e, a) == e.requested /\ e.avatar = a /\ ~e.joined

CopyOf(a, copy, l, p) == copy.result = "ok" /\ UserOf(a) \notin l => copy.picture = p[UserOf(a)]

CopyCurrent(a, copy) == CopyOf(a, copy, loaded, picture)

CopiesCurrent ==
    \A i \in 1 .. CacheSize :
        /\ workerPc = "publish" /\ Expects(cache[i], inFlight) => CopyCurrent(inFlight, copied)
        /\ \A n \in 1 .. Len(results) :
               Expects(cache[i], results[n].avatar)
                   => CopyCurrent(results[n].avatar, results[n].copy)

\* Steam announces every picture it replaces.
Announced ==
    /\ loaded \subseteq loaded'
    /\ \A u \in Users : picture'[u] # picture[u] => u \in loaded'

LEMMA ShaderOf ==
    ASSUME IInv, NEW i \in 1 .. CacheSize, cache[i].shader # NoShader
    PROVE  cache[i].avatar \in Avatars /\ UserOf(cache[i].avatar) \in Users
<1>1. /\ cache[i].shader \in Shaders \cup {NoShader}
      /\ cache[i].shader.avatar = cache[i].avatar
  BY SessionType DEF IInv, CacheRight, EntryRight, Entries
<1>2. cache[i].shader.avatar \in Avatars
  BY <1>1 DEF Shaders
<1>3. QED
  BY <1>1, <1>2, Avatar

LEMMA CopiesUntouched ==
    ASSUME IInv, CopiesCurrent, Announced, UNCHANGED <<results, cache>>,
           workerPc' = "publish" => workerPc = "publish" /\ UNCHANGED <<inFlight, copied>>
    PROVE  CopiesCurrent'
<1>1. SUFFICES ASSUME NEW i \in 1 .. CacheSize
               PROVE  /\ workerPc' = "publish" /\ Expects(cache[i], inFlight')
                             => CopyOf(inFlight', copied', loaded', picture')
                      /\ \A n \in 1 .. Len(results) :
                             Expects(cache[i], results[n].avatar)
                                 => CopyOf(results[n].avatar, results[n].copy, loaded', picture')
  BY DEF CopiesCurrent, CopyCurrent, CopyOf, Expects
<1>2. ASSUME NEW n \in 1 .. Len(results), Expects(cache[i], results[n].avatar)
      PROVE  CopyOf(results[n].avatar, results[n].copy, loaded', picture')
  <2>1. results[n].avatar \in Avatars /\ CopyCurrent(results[n].avatar, results[n].copy)
    BY <1>2, Places DEF CopiesCurrent, IInv
  <2>2. UserOf(results[n].avatar) \in Users
    BY <2>1, Avatar
  <2>3. QED
    BY <2>1, <2>2 DEF Announced, CopyCurrent, CopyOf
<1>3. ASSUME workerPc' = "publish", Expects(cache[i], inFlight')
      PROVE  CopyOf(inFlight', copied', loaded', picture')
  <2>1. CopyCurrent(inFlight, copied) /\ inFlight \in Avatars
    BY <1>3 DEF CopiesCurrent, IInv, InTransfer, TypeOK
  <2>2. UserOf(inFlight) \in Users
    BY <2>1, Avatar
  <2>3. QED
    BY <1>3, <2>1, <2>2 DEF Announced, CopyCurrent, CopyOf
<1>4. QED
  BY <1>2, <1>3

LEMMA PicturesUntouched ==
    ASSUME IInv, PicturesCurrent, Announced, UNCHANGED <<cache, session>>
    PROVE  PicturesCurrent'
<1>1. SUFFICES ASSUME NEW i \in 1 .. CacheSize, ~cache[i].joined, HasShader(cache[i]),
                      UserOf(cache[i].avatar) \notin loaded'
               PROVE  cache[i].shader.picture = picture'[UserOf(cache[i].avatar)]
  BY DEF PicturesCurrent, PictureCurrent, HasShader
<1>2. UserOf(cache[i].avatar) \in Users
  BY <1>1, ShaderOf DEF HasShader
<1>3. QED
  BY <1>1, <1>2 DEF PicturesCurrent, PictureCurrent, Announced

LEMMA PicturesInit == Init => CopiesCurrent /\ PicturesCurrent
<1>1. SUFFICES ASSUME Init PROVE CopiesCurrent /\ PicturesCurrent
  OBVIOUS
<1>2. \A i \in 1 .. CacheSize : ~cache[i].requested /\ cache[i].shader = NoShader
  BY <1>1, NoEntryRight DEF Init
<1>3. QED
  BY <1>2 DEF CopiesCurrent, Expects, PicturesCurrent, PictureCurrent, HasShader

LEMMA ReplaceAnnounced ==
    ASSUME IInv, NEW u \in Users, ReplacePicture(u)
    PROVE  Announced
<1>1. picture \in [Users -> 0 .. MaxPictures + 1]
  BY DEF IInv, TypeOK
<1>2. QED
  BY <1>1 DEF Announced, ReplacePicture

\* The loading call copies the picture of its own time.
LEMMA CopiesTransferCall ==
    ASSUME IInv, CopiesCurrent, TransferCall
    PROVE  CopiesCurrent'
<1>1. /\ UNCHANGED <<picture, loaded, results, cache, inFlight>>
      /\ workerPc' = "publish" =>
             (copied'.result = "ok" => copied'.picture = picture[UserOf(inFlight)])
  <2>1. UNCHANGED <<picture, loaded, results, cache, inFlight>>
    BY DEF TransferCall, steamVars, clientVars
  <2>2. CASE workerPc = "size"
    BY <2>1, <2>2 DEF TransferCall
  <2>3. CASE workerPc = "load"
    BY <2>1, <2>3 DEF TransferCall
  <2>4. QED
    BY <2>1, <2>2, <2>3 DEF TransferCall
<1>2. SUFFICES ASSUME NEW i \in 1 .. CacheSize
               PROVE  /\ workerPc' = "publish" => CopyOf(inFlight, copied', loaded', picture')
                      /\ \A n \in 1 .. Len(results) :
                             Expects(cache[i], results[n].avatar)
                                 => CopyOf(results[n].avatar, results[n].copy, loaded', picture')
  BY <1>1 DEF CopiesCurrent, Expects, CopyCurrent, CopyOf
<1>3. QED
  BY <1>1 DEF CopiesCurrent, CopyCurrent, CopyOf

LEMMA CopiesPublish ==
    ASSUME IInv, CopiesCurrent, WorkerPublish
    PROVE  CopiesCurrent'
<1> DEFINE l == Len(results)
<1>1. /\ UNCHANGED <<picture, loaded, cache>> /\ workerPc = "publish" /\ workerPc' # "publish"
      /\ results' = IF Stopping THEN results ELSE Append(results, Finished)
  BY DEF WorkerPublish, steamVars, clientVars
<1>2. /\ TypeOK /\ results \in Seq([avatar : Avatars, copy : Copies]) /\ l \in Nat
      /\ Finished \in [avatar : Avatars, copy : Copies]
      /\ Finished.avatar = inFlight /\ Finished.copy = copied
  <2>1. TypeOK /\ inFlight \in Avatars /\ copied \in Copies
    BY <1>1 DEF IInv, InTransfer, TypeOK
  <2>2. QED
    BY <2>1, Places DEF Finished
<1>3. ASSUME NEW n \in 1 .. Len(results')
      PROVE  \/ n \in 1 .. l /\ results'[n] = results[n]
             \/ results'[n].avatar = inFlight /\ results'[n].copy = copied
  <2> DEFINE r == Finished
  <2> HIDE DEF r
  <2>1. results' = results \/ results' = Append(results, r)
    BY <1>1 DEF r
  <2>2. r \in [avatar : Avatars, copy : Copies] /\ r.avatar = inFlight /\ r.copy = copied
    BY <1>2 DEF r
  <2>3. CASE results' = results
    BY <1>3, <2>3
  <2>4. CASE results' = Append(results, r)
    <3>1. /\ Len(results') = l + 1 /\ results'[l + 1] = r
          /\ \A j \in 1 .. l : results'[j] = results[j]
      BY <1>2, <2>2, <2>4, AppendProperties
    <3>2. n \in 1 .. l \/ n = l + 1
      BY <1>2, <1>3, <3>1
    <3>3. QED
      BY <2>2, <3>1, <3>2
  <2>5. QED
    BY <2>1, <2>3, <2>4
<1>4. SUFFICES ASSUME NEW i \in 1 .. CacheSize, NEW n \in 1 .. Len(results'),
                      Expects(cache[i], results'[n].avatar)
               PROVE  CopyCurrent(results'[n].avatar, results'[n].copy)
  BY <1>1 DEF CopiesCurrent, Expects, CopyCurrent, CopyOf
<1>5. CASE n \in 1 .. l /\ results'[n] = results[n]
  BY <1>4, <1>5 DEF CopiesCurrent
<1>6. CASE results'[n].avatar = inFlight /\ results'[n].copy = copied
  BY <1>1, <1>4, <1>6 DEF CopiesCurrent
<1>7. QED
  BY <1>3, <1>5, <1>6

\* A request makes at most one result, of an avatar that had none, as new as the
\* pictures are.
LEMMA RequestLeaves ==
    ASSUME IInv, NEW a \in Avatars, NEW answer, Request(a, answer), UNCHANGED inFlight
    PROVE  /\ Announced
           /\ answer = "pending" => ~IsOutstanding(a)
           /\ \A n \in 1 .. Len(results') :
                  \/ n \in 1 .. Len(results) /\ results'[n] = results[n]
                  \/ results'[n].avatar = a /\ CopyOf(a, results'[n].copy, loaded', picture')
<1>1. answer = "pending" => ~IsOutstanding(a)
  BY DEF Request
<1>2. CASE UNCHANGED <<results, picture, loaded>>
  BY <1>1, <1>2 DEF Announced
<1>3. CASE InlineTransfer(a)
  <2>1. PICK r \in [avatar : Avatars, copy : Copies] :
               /\ r.avatar = a
               /\ results' = Append(results, r)
               /\ r.copy.result = "ok" => r.copy.picture = picture[UserOf(a)]
               /\ r.copy.result = "ok" => picture' = picture /\ loaded' = loaded
               /\ \A u \in Users : picture'[u] # picture[u] => u \in loaded'
               /\ loaded \subseteq loaded'
    BY <1>3, InlineResult DEF IInv
  <2>2. Announced
    BY <2>1 DEF Announced
  <2>3. CopyOf(a, r.copy, loaded', picture')
    BY <2>1 DEF CopyCurrent, CopyOf
  <2>4. /\ Len(results') = Len(results) + 1 /\ results'[Len(results) + 1] = r
        /\ \A n \in 1 .. Len(results) : results'[n] = results[n]
        /\ Len(results) \in Nat
    BY <2>1, Places, AppendProperties DEF IInv
  <2>5. \A n \in 1 .. Len(results') : n \in 1 .. Len(results) \/ n = Len(results) + 1
    BY <2>4
  <2>6. QED
    BY <1>1, <2>1, <2>2, <2>3, <2>4, <2>5 DEF CopyCurrent, CopyOf
<1>4. QED
  BY <1>2, <1>3 DEF Request, Enqueue, steamVars

LEMMA PicturesRequest ==
    ASSUME IInv, CopiesCurrent, PicturesCurrent, NEW a \in Avatars, LookupRequests(a)
    PROVE  CopiesCurrent' /\ PicturesCurrent'
<1>1. PICK i \in Target(a), answer \in {"pending", "joined", "unavailable"} :
        /\ Request(a, answer)
        /\ cache' = [cache EXCEPT ![i] =
             [avatar |-> a, session |-> session, shader |-> NoShader,
              requested |-> answer # "unavailable", timedOut |-> FALSE,
              retryLater |-> answer = "unavailable",
              by |-> workers, joined |-> answer = "joined"]]
  BY ZenonT(30) DEF LookupRequests
<1> DEFINE e == [avatar |-> a, session |-> session, shader |-> NoShader,
                 requested |-> answer # "unavailable", timedOut |-> FALSE,
                 retryLater |-> answer = "unavailable",
                 by |-> workers, joined |-> answer = "joined"]
<1>2. UNCHANGED <<inFlight, copied, session>>
  BY DEF LookupRequests
<1>3. /\ Announced
      /\ answer = "pending" => ~IsOutstanding(a)
      /\ \A n \in 1 .. Len(results') :
             \/ n \in 1 .. Len(results) /\ results'[n] = results[n]
             \/ results'[n].avatar = a /\ CopyOf(a, results'[n].copy, loaded', picture')
  BY <1>1, <1>2, RequestLeaves
<1>4. workerPc' = "publish" => workerPc = "publish"
  BY <1>1, <1>2, RequestAdds
<1>5. i \in 1 .. CacheSize /\ \A j \in 1 .. CacheSize : cache[j].avatar = a => j = i
  BY <1>1, TargetOnly
<1>6. cache \in [1 .. CacheSize -> Entries]
  BY DEF IInv, TypeOK
<1>7. /\ cache'[i] = e
      /\ \A j \in 1 .. CacheSize : j # i => cache'[j] = cache[j]
  BY <1>1, <1>5, <1>6
<1>8. /\ e.avatar = a /\ e.shader = NoShader
      /\ e.requested => answer # "unavailable"
      /\ ~e.joined => answer # "joined"
  OBVIOUS
<1> HIDE DEF e
<1>9. /\ inFlight # a \/ answer # "pending"
      /\ answer = "pending" => \A n \in 1 .. Len(results) : results[n].avatar # a
  BY <1>3, Outstanding, Places DEF IInv
<1>10. ASSUME NEW j \in 1 .. CacheSize
       PROVE  \A b : Expects(cache'[j], b) =>
                         \/ j = i /\ b = a /\ answer = "pending"
                         \/ j # i /\ Expects(cache[j], b) /\ b # a
  BY <1>1, <1>5, <1>7, <1>8 DEF Expects
<1>11. CopiesCurrent'
  <2>1. SUFFICES ASSUME NEW j \in 1 .. CacheSize
                 PROVE  /\ workerPc' = "publish" /\ Expects(cache'[j], inFlight)
                               => CopyOf(inFlight, copied, loaded', picture')
                        /\ \A n \in 1 .. Len(results') :
                               Expects(cache'[j], results'[n].avatar)
                                   => CopyOf(results'[n].avatar, results'[n].copy,
                                             loaded', picture')
    BY <1>2 DEF CopiesCurrent, Expects, CopyCurrent, CopyOf
  <2>2. ASSUME workerPc' = "publish", Expects(cache'[j], inFlight)
        PROVE  CopyOf(inFlight, copied, loaded', picture')
    <3>1. Expects(cache[j], inFlight)
      BY <1>9, <1>10, <2>2
    <3>2. CopyCurrent(inFlight, copied) /\ inFlight \in Avatars
      BY <1>4, <2>2, <3>1 DEF CopiesCurrent, IInv, InTransfer, TypeOK
    <3>3. UserOf(inFlight) \in Users
      BY <3>2, Avatar
    <3>4. QED
      BY <1>2, <1>3, <3>2, <3>3 DEF CopyCurrent, CopyOf, Announced
  <2>3. ASSUME NEW n \in 1 .. Len(results'), Expects(cache'[j], results'[n].avatar)
        PROVE  CopyOf(results'[n].avatar, results'[n].copy, loaded', picture')
    <3>1. CASE n \in 1 .. Len(results) /\ results'[n] = results[n]
      <4>1. results[n].avatar \in Avatars
        BY <3>1, Places DEF IInv
      <4>2. Expects(cache[j], results[n].avatar)
        BY <1>9, <1>10, <2>3, <3>1
      <4>3. CopyCurrent(results[n].avatar, results[n].copy) /\ UserOf(results[n].avatar) \in Users
        BY <3>1, <4>1, <4>2, Avatar DEF CopiesCurrent
      <4>4. QED
        BY <1>3, <3>1, <4>3 DEF CopyCurrent, CopyOf, Announced
    <3>2. CASE results'[n].avatar = a /\ CopyOf(a, results'[n].copy, loaded', picture')
      BY <3>2 DEF CopyCurrent, CopyOf
    <3>3. QED
      BY <1>3, <2>3, <3>1, <3>2
  <2>4. QED
    BY <2>2, <2>3
<1>12. PicturesCurrent'
  <2>1. SUFFICES ASSUME NEW j \in 1 .. CacheSize, ~cache'[j].joined,
                        cache'[j].session = session, cache'[j].shader # NoShader,
                        UserOf(cache'[j].avatar) \notin loaded'
                 PROVE  cache'[j].shader.picture = picture'[UserOf(cache'[j].avatar)]
    BY <1>2 DEF PicturesCurrent, PictureCurrent, HasShader
  <2>2. cache'[j] = cache[j]
    BY <1>7, <1>8, <2>1
  <2>3. UserOf(cache[j].avatar) \in Users
    BY <2>1, <2>2, ShaderOf
  <2>4. QED
    BY <1>3, <2>1, <2>2, <2>3 DEF PicturesCurrent, PictureCurrent, HasShader, Announced
<1>13. QED
  BY <1>11, <1>12

LEMMA PicturesTime ==
    ASSUME IInv, CopiesCurrent, PicturesCurrent, NEW i \in 1 .. CacheSize, TimePasses(i)
    PROVE  CopiesCurrent' /\ PicturesCurrent'
<1>1. UNCHANGED <<picture, loaded, workerPc, results, inFlight, copied, session>>
  BY DEF TimePasses, steamVars, workerVars
<1>2. \A j \in 1 .. CacheSize :
          /\ cache'[j].avatar = cache[j].avatar /\ cache'[j].requested = cache[j].requested
          /\ cache'[j].joined = cache[j].joined /\ cache'[j].shader = cache[j].shader
          /\ cache'[j].session = cache[j].session
  <2>1. cache \in [1 .. CacheSize -> Entries] /\ cache[i] \in Entries
    BY DEF IInv, TypeOK
  <2>2. CASE cache' = [cache EXCEPT ![i].timedOut = TRUE]
    BY <2>1, <2>2 DEF Entries
  <2>3. CASE cache' = [cache EXCEPT ![i].retryLater = FALSE]
    BY <2>1, <2>3 DEF Entries
  <2>4. QED
    BY <2>2, <2>3 DEF TimePasses
<1>3. CopiesCurrent'
  BY <1>1, <1>2 DEF CopiesCurrent, Expects, CopyCurrent, CopyOf
<1>4. PicturesCurrent'
  BY <1>1, <1>2 DEF PicturesCurrent, PictureCurrent, HasShader
<1>5. QED
  BY <1>3, <1>4

\* What the frame does to an entry.
LEMMA FrameResolves ==
    ASSUME IInv, AvatarFrame, NEW i \in 1 .. CacheSize, cache'[i] # cache[i]
    PROVE  \E n \in 1 .. Len(results) :
               /\ cache[i].requested /\ cache[i].avatar = results[n].avatar
               /\ cache'[i] = Resolve(cache[i], results[n])
<1> DEFINE mine == {n \in 1 .. TakenCount : Waiting(results[n]) # {} /\
                                           Least(Waiting(results[n])) = i}
<1>1. cache'[i] = IF mine = {} THEN cache[i] ELSE Resolve(cache[i], results[Least(mine)])
  BY DEF AvatarFrame
<1>2. TakenCount \in 0 .. Len(results) /\ Len(results) \in Nat
  BY TakenWithin, Places DEF IInv
<1>3. mine # {} /\ mine \in SUBSET Nat
  <2>1. mine # {}
    BY <1>1, Zenon
  <2>2. mine \in SUBSET Nat
    BY <1>2
  <2>3. QED
    BY <2>1, <2>2
<1>4. Least(mine) \in mine
  BY <1>3, LeastInSet
<1>5. \A n \in mine : n \in 1 .. Len(results)
  BY <1>2
<1>6. \A n \in mine : i \in Waiting(results[n])
  <2>1. \A n : Waiting(results[n]) \in SUBSET Nat
    BY DEF Waiting
  <2>2. QED
    BY <2>1, LeastInSet
<1> HIDE DEF mine
<1>7. cache'[i] = Resolve(cache[i], results[Least(mine)]) /\ Least(mine) \in 1 .. Len(results)
  BY <1>1, <1>3, <1>4, <1>5
<1>8. i \in Waiting(results[Least(mine)])
  BY <1>4, <1>6
<1>9. QED
  BY <1>7, <1>8 DEF Waiting

LEMMA PicturesFrame ==
    ASSUME IInv, CopiesCurrent, PicturesCurrent, AvatarFrame
    PROVE  CopiesCurrent' /\ PicturesCurrent'
<1>1. /\ UNCHANGED <<picture, loaded, workerPc, inFlight, copied, session>>
      /\ results' = SubSeq(results, TakenCount + 1, Len(results))
  BY DEF AvatarFrame, steamVars
<1>2. \A n \in 1 .. Len(results') : \E m \in 1 .. Len(results) : results'[n] = results[m]
  <2> DEFINE K == TakenCount
             l == Len(results)
  <2>1. l \in Nat /\ K \in 0 .. l /\ results \in Seq([avatar : Avatars, copy : Copies])
    BY Places, TakenWithin DEF IInv
  <2> HIDE DEF K
  <2>2. \A m \in K + 1 .. l : results[m] \in [avatar : Avatars, copy : Copies]
    <3>1. \A m \in K + 1 .. l : m \in 1 .. l
      BY <2>1
    <3>2. QED
      BY <2>1, <3>1, ElementOfSeq
  <2>3. /\ Len(results') = IF K + 1 <= l THEN l - (K + 1) + 1 ELSE 0
        /\ \A n \in 1 .. l - (K + 1) + 1 : results'[n] = results[K + 1 + n - 1]
    BY <1>1, <2>1, <2>2, SubSeqProperties DEF K
  <2>4. \A n \in 1 .. Len(results') : n \in 1 .. l - (K + 1) + 1 /\ K + 1 + n - 1 \in 1 .. l
    BY <2>1, <2>3
  <2>5. QED
    BY <2>3, <2>4
<1>3. ASSUME NEW i \in 1 .. CacheSize, cache'[i] # cache[i]
      PROVE  /\ ~cache'[i].requested
             /\ cache'[i].joined \/ PictureCurrent(cache'[i])
  <2>1. PICK n \in 1 .. Len(results) :
               /\ cache[i].requested /\ cache[i].avatar = results[n].avatar
               /\ cache'[i] = Resolve(cache[i], results[n])
    BY <1>3, FrameResolves
  <2> DEFINE r == results[n]
             shader == [session |-> renderer, avatar |-> r.avatar, picture |-> r.copy.picture]
  <2>2. cache[i] \in Entries /\ cache[i].shader = NoShader
    BY <2>1, SessionType DEF IInv, CacheRight, EntryRight
  <2>3. ~cache[i].joined => CopyCurrent(r.avatar, r.copy)
    BY <2>1 DEF CopiesCurrent, Expects
  <2>4. cache[i].avatar = r.avatar /\ shader.picture = r.copy.picture
    BY <2>1
  <2>5. cache'[i] = IF r.copy.result = "ok"
                    THEN [cache[i] EXCEPT !.requested = FALSE, !.timedOut = FALSE, !.shader = shader]
                    ELSE [cache[i] EXCEPT !.requested = FALSE, !.timedOut = FALSE,
                                          !.retryLater = TRUE]
    BY <2>1 DEF Resolve
  <2> HIDE DEF r, shader
  <2>6. CASE r.copy.result = "ok"
    <3>1. /\ ~cache'[i].requested /\ cache'[i].avatar = cache[i].avatar
          /\ cache'[i].joined = cache[i].joined /\ cache'[i].shader = shader
      BY <2>2, <2>5, <2>6 DEF Entries
    <3>2. QED
      BY <2>3, <2>4, <2>6, <3>1 DEF PictureCurrent, CopyCurrent, CopyOf
  <2>7. CASE r.copy.result # "ok"
    <3>1. ~cache'[i].requested /\ cache'[i].shader = NoShader
      BY <2>2, <2>5, <2>7 DEF Entries
    <3>2. QED
      BY <3>1 DEF PictureCurrent, HasShader
  <2>8. QED
    BY <2>6, <2>7
<1>4. CopiesCurrent'
  <2>1. SUFFICES ASSUME NEW i \in 1 .. CacheSize
                 PROVE  /\ workerPc = "publish" /\ Expects(cache'[i], inFlight)
                               => CopyCurrent(inFlight, copied)
                        /\ \A n \in 1 .. Len(results') :
                               Expects(cache'[i], results'[n].avatar)
                                   => CopyCurrent(results'[n].avatar, results'[n].copy)
    BY <1>1 DEF CopiesCurrent, Expects, CopyCurrent, CopyOf
  <2>2. \A b : Expects(cache'[i], b) => Expects(cache[i], b)
    BY <1>3 DEF Expects
  <2>3. QED
    BY <1>2, <2>2 DEF CopiesCurrent
<1>5. PicturesCurrent'
  <2>1. SUFFICES ASSUME NEW i \in 1 .. CacheSize
                 PROVE  cache'[i].joined \/ PictureCurrent(cache'[i])
    BY <1>1 DEF PicturesCurrent, PictureCurrent, HasShader
  <2>2. QED
    BY <1>3 DEF PicturesCurrent
<1>6. QED
  BY <1>4, <1>5

\* The event of a picture takes the entries of its user.
LEMMA PicturesInvalidated ==
    ASSUME IInv, CopiesCurrent, PicturesCurrent, NEW u \in Users, InvalidateAvatar(u)
    PROVE  CopiesCurrent' /\ PicturesCurrent'
<1>1. /\ UNCHANGED <<picture, workerPc, results, inFlight, copied, session>>
      /\ loaded' = loaded \ {u}
  BY DEF InvalidateAvatar, workerVars
<1>2. \A i \in 1 .. CacheSize :
          \/ ~cache'[i].requested /\ cache'[i].shader = NoShader
          \/ cache'[i] = cache[i] /\ ~OfUser(cache[i], u)
  BY NoEntryRight DEF InvalidateAvatar
<1>3. CopiesCurrent'
  <2>1. \A i \in 1 .. CacheSize, b \in Avatars :
            Expects(cache'[i], b) => Expects(cache[i], b) /\ UserOf(b) # u
    BY <1>2, Avatar DEF Expects, OfUser
  <2>2. \A n \in 1 .. Len(results) : results[n].avatar \in Avatars
    BY Places DEF IInv
  <2>3. workerPc = "publish" => inFlight \in Avatars
    BY DEF IInv, InTransfer, TypeOK
  <2>4. SUFFICES ASSUME NEW i \in 1 .. CacheSize
                 PROVE  /\ workerPc = "publish" /\ Expects(cache'[i], inFlight)
                               => CopyOf(inFlight, copied, loaded', picture')
                        /\ \A n \in 1 .. Len(results) :
                               Expects(cache'[i], results[n].avatar)
                                   => CopyOf(results[n].avatar, results[n].copy, loaded', picture')
    BY <1>1 DEF CopiesCurrent, Expects, CopyCurrent, CopyOf
  <2>5. QED
    BY <1>1, <2>1, <2>2, <2>3 DEF CopiesCurrent, CopyCurrent, CopyOf
<1>4. PicturesCurrent'
  <2>1. SUFFICES ASSUME NEW i \in 1 .. CacheSize, ~cache'[i].joined, cache'[i].session = session,
                        cache'[i].shader # NoShader, UserOf(cache'[i].avatar) \notin loaded'
                 PROVE  cache'[i].shader.picture = picture[UserOf(cache'[i].avatar)]
    BY <1>1 DEF PicturesCurrent, PictureCurrent, HasShader
  <2>2. cache'[i] = cache[i] /\ ~OfUser(cache[i], u)
    BY <1>2, <2>1
  <2>3. cache[i].avatar # NoAvatar
    BY <2>1, <2>2, ShaderOf, Avatar
  <2>4. UserOf(cache[i].avatar) \notin loaded
    BY <1>1, <2>1, <2>2, <2>3 DEF OfUser
  <2>5. QED
    BY <2>1, <2>2, <2>4 DEF PicturesCurrent, PictureCurrent, HasShader
<1>5. QED
  BY <1>3, <1>4

LEMMA PicturesTornDown ==
    ASSUME IInv, TearDownRenderer
    PROVE  CopiesCurrent' /\ PicturesCurrent'
<1>1. \A i \in 1 .. CacheSize : ~cache'[i].requested /\ cache'[i].shader = NoShader
  BY NoEntryRight DEF TearDownRenderer, ClearHandles
<1>2. QED
  BY <1>1 DEF CopiesCurrent, Expects, PicturesCurrent, PictureCurrent, HasShader

LEMMA CopiesStop ==
    ASSUME IInv, CopiesCurrent, StopBegin \/ StopNotify \/ StopJoin
    PROVE  CopiesCurrent'
<1>1. /\ UNCHANGED <<picture, loaded, cache, inFlight, copied>>
      /\ workerPc' = "publish" => workerPc = "publish"
      /\ results' = results \/ results' = << >>
  BY DEF StopBegin, StopNotify, StopJoin, Joined, steamVars, clientVars
<1>2. CASE results' = results
  BY <1>1, <1>2 DEF CopiesCurrent, Expects, CopyCurrent, CopyOf
<1>3. CASE results' = << >>
  <2>1. Len(results') = 0
    BY <1>3
  <2>2. QED
    BY <1>1, <2>1 DEF CopiesCurrent, Expects, CopyCurrent, CopyOf
<1>4. QED
  BY <1>1, <1>2, <1>3

LEMMA PicturesStep ==
    ASSUME IInv, CopiesCurrent, PicturesCurrent, [Next]_vars
    PROVE  CopiesCurrent' /\ PicturesCurrent'
<1>1. UNCHANGED <<picture, loaded>> => Announced
  BY DEF Announced
<1>2. CASE UNCHANGED vars
  BY <1>1, <1>2, CopiesUntouched, PicturesUntouched DEF vars, steamVars, workerVars, clientVars
<1>3. CASE Worker
  <2>1. UNCHANGED <<picture, loaded, cache, session>>
    BY <1>3 DEF Worker, WorkerTest, WorkerWake, TransferCall, WorkerPublish, steamVars, clientVars
  <2>2. PicturesCurrent'
    BY <1>1, <2>1, PicturesUntouched
  <2>3. CASE WorkerTest \/ WorkerWake
    <3>1. results' = results /\ workerPc' # "publish"
      BY <2>3 DEF WorkerTest, WorkerWake
    <3>2. QED
      BY <1>1, <2>1, <2>2, <3>1, CopiesUntouched
  <2>4. QED
    BY <1>3, <2>2, <2>3, CopiesTransferCall, CopiesPublish DEF Worker
<1>4. ASSUME NEW u \in Users, ReplacePicture(u)
      PROVE  CopiesCurrent' /\ PicturesCurrent'
  <2>1. UNCHANGED <<workerPc, results, inFlight, copied, cache, session>>
    BY <1>4 DEF ReplacePicture, workerVars, clientVars
  <2>2. Announced
    BY <1>4, ReplaceAnnounced
  <2>3. QED
    BY <2>1, <2>2, CopiesUntouched, PicturesUntouched
<1>5. ASSUME NEW a \in Avatars, LookupAnswered(a)
      PROVE  CopiesCurrent' /\ PicturesCurrent'
  <2>1. UNCHANGED <<picture, loaded, workerPc, results, inFlight, copied, cache, session>>
    BY <1>5 DEF LookupAnswered, steamVars, workerVars
  <2>2. QED
    BY <1>1, <2>1, CopiesUntouched, PicturesUntouched
<1>6. CASE \E i \in 1 .. CacheSize : TimePasses(i)
  BY <1>6, PicturesTime
<1>7. CASE AvatarFrame \/ TearDownRenderer
  BY <1>7, PicturesFrame, PicturesTornDown
<1>8. CASE StopBegin \/ StopNotify \/ StopJoin
  <2>1. UNCHANGED <<picture, loaded, cache, session>>
    BY <1>8 DEF StopBegin, StopNotify, StopJoin, steamVars, clientVars
  <2>2. QED
    BY <1>1, <1>8, <2>1, CopiesStop, PicturesUntouched
<1>9. CASE InitProvider
  <2>1. UNCHANGED <<picture, loaded, workerPc, results, inFlight, copied, cache, session>>
    BY <1>9 DEF InitProvider, steamVars, workerVars, clientVars
  <2>2. QED
    BY <1>1, <2>1, CopiesUntouched, PicturesUntouched
<1>10. CASE \E u \in Users : ReplacePicture(u) \/ InvalidateAvatar(u)
  BY <1>4, <1>10, PicturesInvalidated
<1>11. CASE \E a \in Avatars : LookupAnswered(a) \/ LookupRequests(a)
  BY <1>5, <1>11, PicturesRequest
<1>12. QED
  BY <1>2, <1>3, <1>6, <1>7, <1>8, <1>9, <1>10, <1>11 DEF Next

\* Once the event of the newest picture is handled, no older one stays in the
\* cache (CL_InvalidateAvatarImageHandle, AvatarWorker::Run).
THEOREM NewestPictures == Spec => []PicturesCurrent
<1>1. Init => CopiesCurrent /\ PicturesCurrent
  BY PicturesInit
<1>2. IInv /\ CopiesCurrent /\ PicturesCurrent /\ [Next]_vars => CopiesCurrent' /\ PicturesCurrent'
  BY PicturesStep
<1>3. QED
  BY <1>1, <1>2, AvatarInvariant, PTL DEF Spec
=============================================================================
