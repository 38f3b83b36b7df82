-------------------------- MODULE PanicHookProofs --------------------------
(* CapturedOnce of PanicHook, for any calls of init_global and any threads. The invariant  *)
(* follows the hook through its installation, and each panic through the hook as it was    *)
(* when the panic began.                                                                   *)
EXTENDS PanicHook, SequenceTheorems, TLAPS

Full == <<"sdk", "app">>
App == <<"app">>
Standard == <<"standard">>

Progress == {"idle", "refused", "built", "won", "lost", "latched", "taken", "done"}
Stages == {"running", "sending", "hook", "flushing", "gone"}

\* What the proof needs of the types.
Typed ==
  /\ init \in [Inits -> Progress] /\ global \in Inits \union {None} /\ latch \in BOOLEAN
  /\ hook \in {Full, App, Standard} /\ taken \in [Inits -> {App, <<>>}]
  /\ stage \in [Everyone -> Stages] /\ layers \in [Everyone -> {Full, App, Standard, <<>>}]
  /\ panics \in [Everyone -> Nat] /\ ran \in [Everyone -> Nat] /\ due \in [Everyone -> Nat]
  /\ missed \in [Everyone -> Nat] /\ captured \in [Everyone -> Nat]

\* Only the winner goes past GLOBAL_CLIENT.set.
OneWinner == \A i \in Inits : init[i] \in {"won", "latched", "taken", "done"} => global = i

\* The hook is the app's until the winner takes it, and ours exactly when it is installed.
HookFollows ==
  /\ global = None => hook = App /\ ~latch
  /\ \A i \in Inits :
       /\ init[i] = "won" => hook = App /\ ~latch
       /\ init[i] = "latched" => hook = App /\ Profile[i] = "captures"
       /\ init[i] = "taken" => hook = Standard /\ taken[i] = App /\ Profile[i] = "captures"
  /\ hook = Full <=> Installed

\* Of a panic under way: which hook it runs, and whether that has yet to run and to capture.
AccountOf(t) ==
  /\ stage[t] \in InHook /\ layers[t] = Full => Installed
  /\ stage[t] = "flushing" => layers[t] = Full
  /\ IF stage[t] \in InHook /\ layers[t] # <<>> THEN ran[t] + 1 = panics[t]
     ELSE ran[t] = panics[t]
  /\ t \in Threads =>
       IF stage[t] = "hook" /\ layers[t] = Full
       THEN captured[t] + missed[t] + 1 = due[t]
       ELSE captured[t] + missed[t] = due[t]
Accounted == \A t \in Everyone : AccountOf(t)

WorkerUncaught == captured[Worker] = 0

IInv == Typed /\ OneWinner /\ HookFollows /\ Accounted /\ WorkerUncaught

----------------------------------------------------------------------------
\* The hooks there are, taken apart and put together.
LEMMA HookParts ==
  /\ Head(Full) = "sdk" /\ Tail(Full) = App
  /\ Head(App) = "app" /\ Tail(App) = <<>>
  /\ Head(Standard) = "standard" /\ Tail(Standard) = <<>>
  /\ <<"sdk">> \o App = Full
  /\ Full # App /\ Full # Standard /\ Full # <<>> /\ App # Standard /\ App # <<>>
  /\ Standard # <<>>
  <1>1. Head(Full) = "sdk" /\ Head(App) = "app" /\ Head(Standard) = "standard"
    BY DEF Full, App, Standard
  <1>2. Len(Full) = 2 /\ Len(App) = 1 /\ Len(Standard) = 1 /\ Len(<<>>) = 0
    BY DEF Full, App, Standard
  <1>3. Tail(App) = <<>> /\ Tail(Standard) = <<>>
    BY DEF App, Standard
  <1>4. Tail(Full) = App
    BY DEF Full, App
  <1>5. <<"sdk">> \o App = Full
    <2> DEFINE joined == <<"sdk">> \o App
               Layers == {"sdk", "app"}
    <2>1. <<"sdk">> \in Seq(Layers) /\ App \in Seq(Layers) /\ Full \in Seq(Layers)
      <3>1. <<"sdk">> \in Seq(Layers)
        OBVIOUS
      <3>2. App \in Seq(Layers)
        BY DEF App
      <3>3. Full \in Seq(Layers)
        BY DEF Full
      <3> QED BY <3>1, <3>2, <3>3
    <2>2. joined \in Seq(Layers) /\ Len(joined) = 2 /\ joined[1] = "sdk" /\ joined[2] = "app"
      BY <2>1, <1>2 DEF App
    <2>3. Len(Full) = 2 /\ Full[1] = "sdk" /\ Full[2] = "app"
      BY DEF Full
    <2> HIDE DEF joined
    <2>4. \A k \in 1 .. Len(joined) : joined[k] = Full[k]
      BY <2>2, <2>3
    <2>5. joined = Full
      BY <2>1, <2>2, <2>3, <2>4, SeqEqual
    <2> QED BY <2>5 DEF joined
  <1> QED BY <1>1, <1>2, <1>3, <1>4, <1>5

\* At the start nothing is installed and nobody has panicked.
LEMMA InitHolds == ASSUME Init PROVE IInv
  <1> USE PanicAssumption
  <1>1. Typed
    BY DEF Init, Typed, Zero, Progress, Stages, Full, App, Standard
  <1>2. OneWinner
    BY DEF Init, OneWinner
  <1>3. ~Installed
    BY DEF Init, Installed
  <1>4. HookFollows
    BY <1>3, HookParts DEF Init, HookFollows, App
  <1>5. Accounted /\ WorkerUncaught
    BY DEF Init, Accounted, AccountOf, WorkerUncaught, InHook, Zero, Everyone
  <1> QED BY <1>1, <1>2, <1>4, <1>5 DEF IInv

\* A step that leaves the installation alone keeps what is said of it.
LEMMA InstallationKept ==
  ASSUME OneWinner, HookFollows, UNCHANGED <<init, global, latch, hook, taken>>
  PROVE OneWinner' /\ HookFollows' /\ (Installed' <=> Installed)
  BY DEF OneWinner, HookFollows, Installed

----------------------------------------------------------------------------
\* What is installed stays installed.
LEMMA InstalledStays ==
  ASSUME IInv, NEW i \in Inits, InitGlobal(i)
  PROVE Typed' /\ OneWinner' /\ HookFollows' /\ (Installed => Installed')
  <1> USE PanicAssumption DEF IInv
  <1>1. CASE BuildClient(i)
    <2>1. init'[i] \in {"refused", "built"} /\ \A j \in Inits \ {i} : init'[j] = init[j]
      BY <1>1 DEF BuildClient, Typed
    <2>2. Typed'
      BY <1>1 DEF BuildClient, Typed, Progress, counts
    <2>3. Installed' <=> Installed
      BY <1>1, <2>1 DEF BuildClient, Installed
    <2> QED BY <1>1, <2>1, <2>2, <2>3 DEF BuildClient, OneWinner, HookFollows
  <1>2. CASE SetGlobal(i)
    <2>1. Typed'
      BY <1>2 DEF SetGlobal, Typed, Progress, counts
    <2>2. CASE global = None
      <3>1. global' = i /\ init'[i] = "won" /\ \A j \in Inits \ {i} : init'[j] = init[j]
        BY <1>2, <2>2 DEF SetGlobal, Typed
      <3>2. \A j \in Inits : init[j] \notin {"won", "latched", "taken", "done"}
        BY <2>2 DEF OneWinner
      <3>3. ~Installed /\ ~Installed'
        BY <3>1, <3>2 DEF Installed
      <3> QED BY <1>2, <2>1, <2>2, <3>1, <3>2, <3>3 DEF SetGlobal, OneWinner, HookFollows
    <2>3. CASE global # None
      <3>1. /\ global' = global /\ init'[i] = "lost"
            /\ \A j \in Inits \ {i} : init'[j] = init[j]
        BY <1>2, <2>3 DEF SetGlobal, Typed
      <3>2. Installed' <=> Installed
        BY <1>2, <3>1 DEF SetGlobal, Installed
      <3> QED BY <1>2, <2>1, <2>3, <3>1, <3>2 DEF SetGlobal, OneWinner, HookFollows
    <2> QED BY <2>2, <2>3
  <1>3. CASE LatchHook(i)
    <2>1. Typed'
      BY <1>3 DEF LatchHook, Typed, Progress, counts
    <2>2. global = i /\ hook = App /\ ~latch /\ ~Installed
      BY <1>3, HookParts DEF LatchHook, OneWinner, HookFollows
    <2>3. /\ IF Profile[i] = "captures" THEN init'[i] = "latched" ELSE init'[i] = "done"
          /\ \A j \in Inits \ {i} : init'[j] = init[j]
      BY <1>3, <2>2 DEF LatchHook, Typed
    <2>4. ~Installed'
      BY <1>3, <2>2, <2>3 DEF LatchHook, Installed
    <2>5. OneWinner'
      BY <1>3, <2>2, <2>3 DEF LatchHook, OneWinner
    <2>6. \A j \in Inits \ {i} : init'[j] \notin {"won", "latched", "taken", "done"}
      BY <2>2, <2>3 DEF OneWinner
    <2>7. HookFollows'
      BY <1>3, <2>2, <2>3, <2>4, <2>6, HookParts DEF LatchHook, HookFollows
    <2> QED BY <2>1, <2>2, <2>5, <2>7
  <1>4. CASE TakeHook(i)
    <2>1. global = i /\ hook = App /\ Profile[i] = "captures" /\ ~Installed
      BY <1>4, HookParts DEF TakeHook, OneWinner, HookFollows
    <2>2. Typed'
      BY <1>4, <2>1 DEF TakeHook, Typed, Progress, counts, Standard
    <2>3. /\ init'[i] = "taken" /\ taken'[i] = App /\ hook' = Standard
          /\ \A j \in Inits \ {i} : init'[j] = init[j]
      BY <1>4, <2>1 DEF TakeHook, Typed, Standard
    <2>4. ~Installed'
      BY <1>4, <2>1, <2>3 DEF TakeHook, Installed
    <2>5. OneWinner'
      BY <1>4, <2>1, <2>3 DEF TakeHook, OneWinner
    <2>6. \A j \in Inits \ {i} : init'[j] \notin {"won", "latched", "taken", "done"}
      BY <2>1, <2>3 DEF OneWinner
    <2>7. HookFollows'
      BY <1>4, <2>1, <2>3, <2>4, <2>6, HookParts DEF TakeHook, HookFollows
    <2> QED BY <2>1, <2>2, <2>5, <2>7
  <1>5. CASE SetHook(i)
    <2>1. global = i /\ taken[i] = App /\ Profile[i] = "captures" /\ hook' = Full
      BY <1>5, HookParts DEF SetHook, OneWinner, HookFollows
    <2>2. Typed'
      BY <1>5, <2>1 DEF SetHook, Typed, Progress, counts
    <2>3. init'[i] = "done" /\ \A j \in Inits \ {i} : init'[j] = init[j]
      BY <1>5 DEF SetHook, Typed
    <2>4. Installed'
      BY <1>5, <2>1, <2>3 DEF SetHook, Installed
    <2>5. OneWinner'
      BY <1>5, <2>1, <2>3 DEF SetHook, OneWinner
    <2>6. \A j \in Inits \ {i} : init'[j] \notin {"won", "latched", "taken", "done"}
      BY <2>1, <2>3 DEF OneWinner
    <2>7. HookFollows'
      BY <1>5, <2>1, <2>3, <2>4, <2>6 DEF SetHook, HookFollows
    <2> QED BY <2>2, <2>4, <2>5, <2>7
  <1> QED BY <1>1, <1>2, <1>3, <1>4, <1>5 DEF InitGlobal

\* Steps of an installation leave every panic as it is.
LEMMA InstallationAccounted ==
  ASSUME IInv, NEW i \in Inits, InitGlobal(i)
  PROVE Accounted' /\ WorkerUncaught'
  <1>1. UNCHANGED <<stage, layers, panics, ran, due, missed, captured>>
    BY DEF InitGlobal, BuildClient, SetGlobal, LatchHook, TakeHook, SetHook, counts
  <1>2. Installed => Installed'
    BY InstalledStays
  <1> QED BY <1>1, <1>2 DEF IInv, Accounted, AccountOf, WorkerUncaught, InHook

----------------------------------------------------------------------------
\* A step of one thread keeps the account of the others.
LEMMA OthersAccounted ==
  ASSUME IInv, UNCHANGED starting, NEW t \in Everyone, AccountOf(t)',
         \A u \in Everyone \ {t} :
           /\ stage'[u] = stage[u] /\ layers'[u] = layers[u] /\ panics'[u] = panics[u]
           /\ ran'[u] = ran[u] /\ due'[u] = due[u] /\ missed'[u] = missed[u]
           /\ captured'[u] = captured[u]
  PROVE Accounted'
  <1>1. Installed' <=> Installed
    BY InstallationKept DEF IInv, starting
  <1>2. ASSUME NEW u \in Everyone \ {t} PROVE AccountOf(u)'
    BY <1>1, <1>2 DEF IInv, Accounted, AccountOf, InHook
  <1> QED BY <1>2 DEF Accounted

\* What of IInv a step that leaves the installation alone has to keep.
LEMMA StepKeeps ==
  ASSUME IInv, UNCHANGED starting, Typed', Accounted', WorkerUncaught'
  PROVE IInv'
  BY InstallationKept DEF IInv, starting

\* Captures, shutdowns and events that go through the before_send hooks.
LEMMA SendingKeeps ==
  ASSUME IInv, NEW t \in Everyone,
         GlobalCapture(t) \/ GlobalShutdown(t) \/ EnterBeforeSend(t) \/ LeaveBeforeSend(t)
           \/ WorkerSends
  PROVE IInv'
  <1> USE PanicAssumption
  <1>1. UNCHANGED starting /\ UNCHANGED <<layers, counts>>
    BY DEF GlobalCapture, GlobalShutdown, EnterBeforeSend, LeaveBeforeSend, WorkerSends
  <1>2. PICK u \in Everyone :
          \/ stage' = stage
          \/ /\ stage[u] \in {"running", "sending"}
             /\ \E s \in {"running", "sending"} : stage' = [stage EXCEPT ![u] = s]
    BY DEF GlobalCapture, GlobalShutdown, EnterBeforeSend, LeaveBeforeSend, WorkerSends,
       Everyone
  <1>3. Typed'
    BY <1>1, <1>2 DEF IInv, Typed, Stages, starting, counts
  <1>4. AccountOf(u)'
    <2>1. AccountOf(u) /\ (Installed' <=> Installed)
      BY <1>1, InstallationKept DEF IInv, Accounted, starting
    <2> QED BY <1>1, <1>2, <2>1 DEF IInv, Typed, AccountOf, InHook, counts
  <1>5. \A v \in Everyone \ {u} : stage'[v] = stage[v]
    BY <1>2 DEF IInv, Typed
  <1>6. Accounted'
    BY <1>1, <1>4, <1>5, OthersAccounted DEF counts
  <1>7. WorkerUncaught'
    BY <1>1 DEF IInv, WorkerUncaught, counts
  <1> QED BY <1>1, <1>3, <1>6, <1>7, StepKeeps

\* A panic is due exactly when the hook it runs is ours.
LEMMA PanicKeeps == ASSUME IInv, NEW t \in Everyone, Panic(t) PROVE IInv'
  <1> USE PanicAssumption
  <1>1. UNCHANGED starting /\ (Installed' <=> Installed) /\ (hook = Full <=> Installed)
    BY InstallationKept DEF IInv, Panic, starting, HookFollows
  <1>2. Typed'
    BY <1>1 DEF IInv, Panic, Typed, Stages, starting
  <1>3. AccountOf(t) /\ hook # <<>>
    BY HookParts DEF IInv, Accounted, Typed
  <1>4. /\ stage[t] \notin InHook /\ stage'[t] = "hook" /\ layers'[t] = hook
        /\ panics'[t] = panics[t] + 1 /\ ran'[t] = ran[t]
        /\ captured'[t] = captured[t] /\ missed'[t] = missed[t]
        /\ due'[t] = IF Installed THEN due[t] + 1 ELSE due[t]
    BY DEF IInv, Panic, Typed, InHook
  <1>5. AccountOf(t)'
    BY <1>1, <1>3, <1>4 DEF IInv, Typed, AccountOf, InHook
  <1>6. \A u \in Everyone \ {t} :
          /\ stage'[u] = stage[u] /\ layers'[u] = layers[u] /\ panics'[u] = panics[u]
          /\ ran'[u] = ran[u] /\ due'[u] = due[u] /\ missed'[u] = missed[u]
          /\ captured'[u] = captured[u]
    BY DEF IInv, Panic, Typed
  <1>7. Accounted'
    BY <1>1, <1>5, <1>6, OthersAccounted
  <1>8. WorkerUncaught'
    BY DEF IInv, Panic, WorkerUncaught
  <1> QED BY <1>1, <1>2, <1>7, <1>8, StepKeeps

\* Our layer of the hook is only met where the client can send, so it is skipped on the
\* worker alone.
LEMMA SkipKeeps == ASSUME IInv, NEW t \in Everyone, SkipCapture(t) PROVE IInv'
  <1> USE PanicAssumption
  <1>1. UNCHANGED starting /\ UNCHANGED <<stage, counts>> /\ (Installed' <=> Installed)
    BY InstallationKept DEF IInv, SkipCapture, starting
  <1>2. stage[t] = "hook" /\ layers[t] = Full
    BY HookParts DEF IInv, Typed, SkipCapture, AtLayer
  <1>3. t = Worker
    <2>1. Installed
      BY <1>2 DEF IInv, Accounted, AccountOf, InHook
    <2>2. CanSend
      BY <2>1 DEF Installed, CanSend
    <2> QED BY <2>2 DEF SkipCapture, Skipped
  <1>4. layers' = [layers EXCEPT ![t] = App]
    BY <1>2, HookParts DEF SkipCapture
  <1>5. Typed'
    BY <1>1, <1>4 DEF IInv, Typed, starting, counts
  <1>6. AccountOf(t)'
    <2>1. AccountOf(t) /\ layers'[t] = App
      BY <1>4 DEF IInv, Accounted, Typed
    <2> QED BY <1>1, <1>2, <1>3, <2>1, HookParts DEF AccountOf, InHook, counts
  <1>7. \A u \in Everyone \ {t} : layers'[u] = layers[u]
    BY <1>4 DEF IInv, Typed
  <1>8. Accounted'
    BY <1>1, <1>6, <1>7, OthersAccounted DEF counts
  <1>9. WorkerUncaught'
    BY <1>1 DEF IInv, WorkerUncaught, counts
  <1> QED BY <1>1, <1>5, <1>8, <1>9, StepKeeps

\* A panic that is captured, or missed, leaves our layer or waits in it.
LEMMA CaptureKeeps == ASSUME IInv, NEW t \in Everyone, CapturePanic(t) PROVE IInv'
  <1> USE PanicAssumption
  <1>1. UNCHANGED starting /\ UNCHANGED <<panics, ran, due>> /\ (Installed' <=> Installed)
    BY InstallationKept DEF IInv, CapturePanic, starting
  <1>2. stage[t] = "hook" /\ layers[t] = Full /\ t \in Threads /\ t # Worker
    BY HookParts DEF IInv, Typed, CapturePanic, AtLayer, Skipped, Everyone
  <1>3. \/ captured' = [captured EXCEPT ![t] = @ + 1] /\ missed' = missed
        \/ missed' = [missed EXCEPT ![t] = @ + 1] /\ captured' = captured
    BY DEF CapturePanic
  <1>4. \/ stage' = stage /\ layers' = [layers EXCEPT ![t] = App]
        \/ stage' = [stage EXCEPT ![t] = "flushing"] /\ layers' = layers
    BY <1>2, HookParts DEF CapturePanic
  <1>5. Typed'
    <2>1. captured' \in [Everyone -> Nat] /\ missed' \in [Everyone -> Nat]
      <3>1. captured[t] + 1 \in Nat /\ missed[t] + 1 \in Nat
        BY DEF IInv, Typed
      <3>2. CASE captured' = [captured EXCEPT ![t] = @ + 1] /\ missed' = missed
        BY <3>1, <3>2 DEF IInv, Typed
      <3>3. CASE missed' = [missed EXCEPT ![t] = @ + 1] /\ captured' = captured
        BY <3>1, <3>3 DEF IInv, Typed
      <3> QED BY <1>3, <3>2, <3>3
    <2>2. /\ stage' \in [Everyone -> Stages]
          /\ layers' \in [Everyone -> {Full, App, Standard, <<>>}]
      BY <1>4 DEF IInv, Typed, Stages
    <2> QED BY <1>1, <2>1, <2>2 DEF IInv, Typed, starting
  <1>6. AccountOf(t)'
    <2>1. AccountOf(t)
      BY DEF IInv, Accounted
    <2>2. captured'[t] + missed'[t] = captured[t] + missed[t] + 1
      BY <1>3 DEF IInv, Typed
    <2>3. \/ stage'[t] = "hook" /\ layers'[t] = App
          \/ stage'[t] = "flushing" /\ layers'[t] = Full
      BY <1>2, <1>4 DEF IInv, Typed
    <2>4. captured[t] + missed[t] + 1 = due[t] /\ ran[t] + 1 = panics[t] /\ Installed
      BY <1>2, <2>1, HookParts DEF AccountOf, InHook
    <2> QED BY <1>1, <2>2, <2>3, <2>4, HookParts DEF AccountOf, InHook
  <1>7. \A u \in Everyone \ {t} :
          /\ stage'[u] = stage[u] /\ layers'[u] = layers[u]
          /\ missed'[u] = missed[u] /\ captured'[u] = captured[u]
    BY <1>3, <1>4 DEF IInv, Typed
  <1>8. Accounted'
    BY <1>1, <1>6, <1>7, OthersAccounted
  <1>9. WorkerUncaught'
    BY <1>2, <1>3 DEF IInv, Typed, WorkerUncaught, Everyone
  <1> QED BY <1>1, <1>5, <1>8, <1>9, StepKeeps

\* Whatever ends the wait of a flush, the app's hook is next.
LEMMA FlushEndsKeeps ==
  ASSUME IInv, UNCHANGED starting, UNCHANGED counts,
         NEW woken \in SUBSET Everyone, \A u \in woken : stage[u] = "flushing",
         stage' \in [Everyone -> Stages],
         \A u \in Everyone \ woken :
           stage'[u] = stage[u] \/ (stage[u] \notin InHook /\ stage'[u] = "gone"),
         \A u \in woken : stage'[u] = "hook",
         layers' = [u \in Everyone |-> IF u \in woken THEN Tail(layers[u]) ELSE layers[u]]
  PROVE IInv'
  <1>1. \A u \in woken : layers[u] = Full /\ layers'[u] = App
    BY HookParts DEF IInv, Accounted, AccountOf
  <1>2. Typed'
    BY <1>1 DEF IInv, Typed, starting, counts
  <1>3. Installed' <=> Installed
    BY InstallationKept DEF IInv, starting
  <1>4. ASSUME NEW u \in Everyone PROVE AccountOf(u)'
    <2>1. AccountOf(u)
      BY DEF IInv, Accounted
    <2>2. CASE u \in woken
      BY <1>1, <1>3, <2>1, <2>2, HookParts DEF AccountOf, InHook, counts
    <2>3. CASE u \notin woken
      BY <1>3, <2>1, <2>3 DEF AccountOf, InHook, counts
    <2> QED BY <2>2, <2>3
  <1>5. Accounted' /\ WorkerUncaught'
    BY <1>4 DEF IInv, Accounted, WorkerUncaught, counts
  <1> QED BY <1>2, <1>5, StepKeeps

\* The timeout ends the wait.
LEMMA TimeoutKeeps == ASSUME IInv, NEW t \in Everyone, FlushTimesOut(t) PROVE IInv'
  <1>1. UNCHANGED starting /\ UNCHANGED counts
    BY DEF FlushTimesOut
  <1>2. stage[t] = "flushing" /\ stage' = [stage EXCEPT ![t] = "hook"]
    BY DEF FlushTimesOut
  <1>3. layers' = [u \in Everyone |-> IF u \in {t} THEN Tail(layers[u]) ELSE layers[u]]
    BY DEF FlushTimesOut, IInv, Typed
  <1>4. stage' \in [Everyone -> Stages] /\ \A u \in Everyone \ {t} : stage'[u] = stage[u]
    BY <1>2 DEF IInv, Typed, Stages
  <1>5. \A u \in {t} : stage[u] = "flushing" /\ stage'[u] = "hook"
    BY <1>2 DEF IInv, Typed
  <1>6. {t} \in SUBSET Everyone
    OBVIOUS
  <1> QED BY <1>1, <1>3, <1>4, <1>5, <1>6, FlushEndsKeeps

\* The worker's answer ends it, of the thread it is meant for, if that still waits.
LEMMA AnswerKeeps == ASSUME IInv, WorkerAnswers PROVE IInv'
  <1> DEFINE t == Head(channel).of
             waits == /\ stage[t] = "flushing"
                      /\ \A k \in DOMAIN channel \ {1} : channel[k] # Head(channel)
             woken == IF waits /\ t \in Everyone THEN {t} ELSE {}
  <1>1. UNCHANGED starting /\ UNCHANGED counts
    BY DEF WorkerAnswers
  <1>2. IF waits
        THEN stage' = [stage EXCEPT ![t] = "hook"] /\ layers' = [layers EXCEPT ![t] = Tail(@)]
        ELSE UNCHANGED <<stage, layers>>
    BY DEF WorkerAnswers
  <1> HIDE DEF t
  <1>3. woken \in SUBSET Everyone /\ \A u \in woken : stage[u] = "flushing" /\ stage'[u] = "hook"
    BY <1>2 DEF IInv, Typed
  <1>4. stage' \in [Everyone -> Stages] /\ \A u \in Everyone \ woken : stage'[u] = stage[u]
    BY <1>2 DEF IInv, Typed, Stages
  <1>5. layers' = [u \in Everyone |-> IF u \in woken THEN Tail(layers[u]) ELSE layers[u]]
    BY <1>2 DEF IInv, Typed
  <1> HIDE DEF woken
  <1> QED BY <1>1, <1>3, <1>4, <1>5, FlushEndsKeeps

\* The worker's exit ends every wait.
LEMMA ExitKeeps == ASSUME IInv, WorkerExits PROVE IInv'
  <1> USE PanicAssumption
  <1> DEFINE woken == {u \in Threads : stage[u] = "flushing"}
  <1>1. UNCHANGED starting /\ UNCHANGED counts /\ stage[Worker] = "running"
    BY DEF WorkerExits
  <1>2. stage' = [t \in Everyone |-> IF t = Worker THEN "gone"
                                    ELSE IF stage[t] = "flushing" THEN "hook" ELSE stage[t]]
    BY DEF WorkerExits
  <1>3. layers' = [u \in Everyone |-> IF u \in woken THEN Tail(layers[u]) ELSE layers[u]]
    BY DEF WorkerExits
  <1>4. woken \in SUBSET Everyone /\ \A u \in woken : stage[u] = "flushing" /\ stage'[u] = "hook"
    BY <1>2 DEF Everyone
  <1>5. stage' \in [Everyone -> Stages]
    BY <1>2 DEF IInv, Typed, Stages
  <1>6. \A u \in Everyone \ woken :
          stage'[u] = stage[u] \/ (stage[u] \notin InHook /\ stage'[u] = "gone")
    BY <1>1, <1>2 DEF Everyone, InHook
  <1> HIDE DEF woken
  <1> QED BY <1>1, <1>3, <1>4, <1>5, <1>6, FlushEndsKeeps

\* The hook of before runs once.
LEMMA PreviousKeeps == ASSUME IInv, NEW t \in Everyone, PreviousHook(t) PROVE IInv'
  <1>1. /\ UNCHANGED starting /\ UNCHANGED <<stage, panics, due, missed, captured>>
        /\ (Installed' <=> Installed)
    BY InstallationKept DEF IInv, PreviousHook, starting
  <1>2. stage[t] = "hook" /\ layers[t] \in {App, Standard}
    BY HookParts DEF IInv, Typed, PreviousHook, AtLayer
  <1>3. layers' = [layers EXCEPT ![t] = <<>>] /\ ran' = [ran EXCEPT ![t] = @ + 1]
    BY <1>2, HookParts DEF PreviousHook
  <1>4. Typed'
    BY <1>1, <1>3 DEF IInv, Typed, starting
  <1>5. AccountOf(t)'
    <2>1. AccountOf(t) /\ layers'[t] = <<>> /\ ran'[t] = ran[t] + 1
      BY <1>3 DEF IInv, Accounted, Typed
    <2>2. ran[t] + 1 = panics[t]
      BY <1>2, <2>1, HookParts DEF AccountOf, InHook
    <2> QED BY <1>1, <1>2, <2>1, <2>2, HookParts DEF AccountOf, InHook
  <1>6. \A u \in Everyone \ {t} : layers'[u] = layers[u] /\ ran'[u] = ran[u]
    BY <1>3 DEF IInv, Typed
  <1>7. Accounted'
    BY <1>1, <1>5, <1>6, OthersAccounted
  <1>8. WorkerUncaught'
    BY <1>1 DEF IInv, WorkerUncaught
  <1> QED BY <1>1, <1>4, <1>7, <1>8, StepKeeps

\* A thread that has run its hook is out of its panic.
LEMMA UnwindKeeps == ASSUME IInv, NEW t \in Everyone, Unwind(t) PROVE IInv'
  <1>1. UNCHANGED starting /\ UNCHANGED <<layers, counts>> /\ (Installed' <=> Installed)
    BY InstallationKept DEF IInv, Unwind, starting
  <1>2. stage[t] = "hook" /\ layers[t] = <<>> /\ stage' = [stage EXCEPT ![t] = "running"]
    BY DEF Unwind
  <1>3. Typed'
    BY <1>1, <1>2 DEF IInv, Typed, Stages, starting, counts
  <1>4. AccountOf(t)'
    <2>1. AccountOf(t) /\ stage'[t] = "running"
      BY <1>2 DEF IInv, Accounted, Typed
    <2> QED BY <1>1, <1>2, <2>1, HookParts DEF AccountOf, InHook, counts
  <1>5. \A u \in Everyone \ {t} : stage'[u] = stage[u]
    BY <1>2 DEF IInv, Typed
  <1>6. Accounted'
    BY <1>1, <1>4, <1>5, OthersAccounted DEF counts
  <1>7. WorkerUncaught'
    BY <1>1 DEF IInv, WorkerUncaught, counts
  <1> QED BY <1>1, <1>3, <1>6, <1>7, StepKeeps

----------------------------------------------------------------------------
\* The invariant is inductive.
LEMMA NextKeeps == ASSUME IInv, [Next]_vars PROVE IInv'
  <1>1. ASSUME NEW i \in Inits, InitGlobal(i) PROVE IInv'
    BY <1>1, InstalledStays, InstallationAccounted DEF IInv
  <1>2. CASE Disable \/ Quiet \/ UNCHANGED vars
    <2>1. /\ UNCHANGED <<init, global, latch, hook, taken, stage, layers>>
          /\ UNCHANGED <<panics, ran, due, missed, captured>>
      BY <1>2 DEF Disable, Quiet, vars, counts
    <2>2. Typed' /\ WorkerUncaught'
      BY <2>1 DEF IInv, Typed, WorkerUncaught
    <2>3. OneWinner' /\ HookFollows' /\ (Installed' <=> Installed)
      BY <2>1, InstallationKept DEF IInv
    <2>4. Accounted'
      BY <2>1, <2>3 DEF IInv, Accounted, AccountOf, InHook
    <2> QED BY <2>2, <2>3, <2>4 DEF IInv
  <1>3. ASSUME NEW t \in Everyone,
               \/ GlobalCapture(t) \/ GlobalShutdown(t)
               \/ EnterBeforeSend(t) \/ LeaveBeforeSend(t)
        PROVE IInv'
    BY <1>3, SendingKeeps
  <1>4. ASSUME NEW t \in Everyone, Panic(t) \/ RunHook(t) \/ FlushTimesOut(t) PROVE IInv'
    BY <1>4, PanicKeeps, SkipKeeps, CaptureKeeps, PreviousKeeps, UnwindKeeps, TimeoutKeeps
    DEF RunHook
  <1>5. CASE WorkerSends \/ WorkerAnswers \/ WorkerExits
    <2>1. Worker \in Everyone
      BY DEF Everyone
    <2> QED BY <1>5, <2>1, SendingKeeps, AnswerKeeps, ExitKeeps
  <1> QED BY <1>1, <1>2, <1>3, <1>4, <1>5 DEF Next

\* For any calls of init_global, with any profiles, and any threads: a panic after the hook is
\* installed is captured once or finds no room, the worker's own never is, and the hook that
\* the app had, or the standard one, has run once for every panic that is over.
THEOREM PanicsCapturedOnce == Spec => []CapturedOnce
  <1>1. IInv => CapturedOnce
    BY HookParts DEF IInv, CapturedOnce, Accounted, AccountOf, WorkerUncaught, Everyone, InHook
  <1> QED BY <1>1, InitHolds, NextKeeps, PTL DEF Spec
=============================================================================
