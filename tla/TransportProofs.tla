--------------------------- MODULE TransportProofs ---------------------------
(***************************************************************************)
(* What Transport guarantees for every value of its constants.             *)
(***************************************************************************)
EXTENDS Transport, FiniteSetTheorems, SequenceTheorems, TLAPS

LEMMA AtLeastOneType == \A n \in Nat : AtLeastOne(n) \in Nat \ {0}
  BY DEF AtLeastOne

LEMMA EventsFinite == IsFiniteSet(Events)
<1> DEFINE S == {{c} \X (1..Size[c]) : c \in Calls}
           f == [c \in Calls |-> {c} \X (1..Size[c])]
<1>1. \A c \in Calls : IsFiniteSet({c} \X (1..Size[c]))
  <2> SUFFICES ASSUME NEW c \in Calls PROVE IsFiniteSet({c} \X (1..Size[c]))
    OBVIOUS
  <2>1. Size[c] \in Nat BY TransportAssumption
  <2>2. IsFiniteSet({c}) BY FS_Singleton
  <2>3. IsFiniteSet(1..Size[c]) BY <2>1, FS_Interval
  <2> QED BY <2>2, <2>3, FS_Product
<1>2. IsFiniteSet(S)
  <2>1. f \in Surjection(Calls, S) BY DEF Surjection
  <2> QED BY <2>1, TransportAssumption, FS_Surjection
<1>3. \A T \in S : IsFiniteSet(T) BY <1>1
<1> QED BY <1>2, <1>3, FS_UNION DEF Events

LEMMA CardinalityOfEvents == \A S \in SUBSET Events : IsFiniteSet(S) /\ Cardinality(S) \in Nat
  BY EventsFinite, FS_Subset, FS_CardinalityType

LEMMA ChunksType ==
  ASSUME NEW s \in Seq(Events), NEW n \in Nat \ {0}
  PROVE  Chunks(s, n) \in Seq(SUBSET Events)
<1> DEFINE m == (Len(s) + n - 1) \div n
           chunk(k) == {s[i] : i \in ((k - 1) * n + 1)..SmallerOf(k * n, Len(s))}
<1>1. m \in Nat
  OBVIOUS
<1>2. \A k \in 1..m : chunk(k) \in SUBSET Events
  <2> SUFFICES ASSUME NEW k \in 1..m,
                      NEW i \in ((k - 1) * n + 1)..SmallerOf(k * n, Len(s))
               PROVE  i \in 1..Len(s)
    OBVIOUS
  <2>1. (k - 1) * n \in Nat /\ k * n \in Nat
    BY <1>1
  <2> QED BY <2>1 DEF SmallerOf
<1>3. Chunks(s, n) = [k \in 1..m |-> chunk(k)]
  BY DEF Chunks
<1> HIDE DEF m, chunk
<1> QED BY <1>1, <1>2, <1>3, IsASeq

LEMMA Statuses == /\ {"new", "condemned"} \subseteq Status
                  /\ Held \subseteq Status /\ Settled \subseteq Status
  BY DEF Status

LEMMA MarkType ==
  ASSUME NEW st \in [Events -> Status], NEW S, NEW s \in Status
  PROVE  Mark(st, S, s) \in [Events -> Status]
  BY DEF Mark

LEMMA MoveType ==
  ASSUME LedgerTyped, NEW S, NEW s \in Held \union Settled
  PROVE  Move(S, s) \in [Events -> Status]
  BY MarkType, Statuses DEF LedgerTyped, Move

LEMMA ReleasedType == ASSUME len \in Nat, NEW n \in Nat PROVE Released(n) \in Nat
  BY DEF Released

LEMMA DischargeType ==
  ASSUME LedgerTyped, NEW S
  PROVE  Discharge(S) \in [Waiters -> SUBSET Events]
  BY DEF Discharge, LedgerTyped

LEMMA CountType ==
  ASSUME LedgerTyped, NEW S
  PROVE  Count(S) \in [Events -> Nat]
  BY DEF Count, LedgerTyped

LEMMA ElementsType == \A S : \A s \in Seq(S) : Elements(s) \in SUBSET S
  BY DEF Elements

LEMMA ReservedType ==
  ASSUME CallsTyped, NEW c \in Calls
  PROVE  Reserved(c) \in Seq(Events)
<1>1. fitted[c] \in Nat /\ fitted[c] <= Size[c]
  BY DEF CallsTyped
<1>2. Size[c] \in Nat
  BY TransportAssumption
<1>3. \A i \in 1..fitted[c] : <<c, i>> \in Events
  BY <1>1, <1>2 DEF Events
<1> QED BY <1>1, <1>3 DEF Reserved

\* What a step leaves alone keeps its type.
LEMMA Untouched ==
  ASSUME TypeOK
  PROVE  /\ UNCHANGED len => (len \in Nat)'
         /\ UNCHANGED channel => (channel \in Seq(Control))'
         /\ UNCHANGED callVars => CallsTyped'
         /\ UNCHANGED handleVars => HandleTyped'
         /\ UNCHANGED wait => WaitTyped'
         /\ UNCHANGED workerVars => WorkerTyped'
         /\ UNCHANGED storeVars => StoresTyped'
         /\ UNCHANGED batchVars => BatchesTyped'
         /\ UNCHANGED ledgerVars => LedgerTyped'
<1>1. UNCHANGED callVars => CallsTyped'
  BY DEF TypeOK, CallsTyped, callVars
<1>2. UNCHANGED handleVars => HandleTyped'
  BY DEF TypeOK, HandleTyped, handleVars
<1>3. UNCHANGED wait => WaitTyped'
  BY DEF TypeOK, WaitTyped
<1>4. UNCHANGED workerVars => WorkerTyped'
  BY DEF TypeOK, WorkerTyped, workerVars
<1>5. UNCHANGED storeVars => StoresTyped'
  BY DEF TypeOK, StoresTyped, storeVars
<1>6. UNCHANGED batchVars => BatchesTyped'
  BY DEF TypeOK, BatchesTyped, batchVars
<1>7. UNCHANGED ledgerVars => LedgerTyped'
  BY DEF TypeOK, LedgerTyped, ledgerVars
<1> QED BY <1>1, <1>2, <1>3, <1>4, <1>5, <1>6, <1>7 DEF TypeOK

LEMMA InitType == Init => TypeOK
<1> SUFFICES ASSUME Init PROVE TypeOK
  OBVIOUS
<1>1. \A S : <<>> \in Seq(S)
  BY EmptySeq
<1>2. \A c \in Calls : Size[c] \in Nat \ {0}
  BY TransportAssumption
<1>3. CallsTyped
  BY <1>2 DEF Init, CallsTyped
<1>4. LedgerTyped
  BY Statuses DEF Init, LedgerTyped
<1>5. HandleTyped /\ WaitTyped
  BY DEF Init, HandleTyped, WaitTyped
<1>6. WorkerTyped /\ StoresTyped /\ BatchesTyped
  BY <1>1 DEF Init, WorkerTyped, StoresTyped, BatchesTyped, Timer
<1> QED BY <1>1, <1>3, <1>4, <1>5, <1>6 DEF Init, TypeOK

LEMMA CallStepTypes == ASSUME TypeOK, NEW c \in Calls, CallStep(c) PROVE TypeOK'
<1>0. CallsTyped /\ LedgerTyped /\ len \in Nat /\ channel \in Seq(Control)
  BY DEF TypeOK
<1>1. CASE CheckClosed(c)
  <2>1. CallsTyped'
    BY <1>0, <1>1 DEF CheckClosed, CallsTyped
  <2>2. LedgerTyped'
    BY <1>0, <1>1, MoveType DEF CheckClosed, LedgerTyped, Settled
  <2> QED BY <1>1, <2>1, <2>2, Untouched DEF CheckClosed, TypeOK
<1>2. CASE ReserveSlot(c)
  <2>1. CallsTyped'
    <3>1. Size[c] \in Nat
      BY TransportAssumption
    <3> QED BY <1>0, <1>2, <3>1 DEF ReserveSlot, CallsTyped
  <2>2. LedgerTyped'
    BY <1>0, <1>2, MoveType DEF ReserveSlot, LedgerTyped, Held
  <2>3. len' \in Nat
    BY <1>0, <1>2 DEF ReserveSlot
  <2> QED BY <1>2, <2>1, <2>2, <2>3, Untouched DEF ReserveSlot, TypeOK
<1>3. CASE QueueFull(c)
  <2>1. CallsTyped'
    BY <1>0, <1>3 DEF QueueFull, CallsTyped
  <2>2. LedgerTyped'
    BY <1>0, <1>3, MoveType DEF QueueFull, LedgerTyped, Settled
  <2> QED BY <1>3, <2>1, <2>2, Untouched DEF QueueFull, TypeOK
<1>4. CASE SendReserved(c)
  <2>1. CallsTyped'
    BY <1>0, <1>4 DEF SendReserved, CallsTyped
  <2>2. LedgerTyped'
    <3>1. status' \in [Events -> Status]
      <4>1. status' \in {Move(Elements(Reserved(c)), "queued"),
                         Move(Elements(Reserved(c)), "refused")}
        BY <1>4 DEF SendReserved
      <4>2. "queued" \in Held \union Settled /\ "refused" \in Held \union Settled
        BY DEF Held, Settled
      <4> QED BY <1>0, <4>1, <4>2, MoveType
    <3> QED BY <1>0, <1>4, <3>1 DEF SendReserved, LedgerTyped
  <2>3. len' \in Nat
    BY <1>0, <1>4, ReleasedType DEF SendReserved, CallsTyped
  <2>4. channel' \in Seq(Control)
    <3> DEFINE m == [kind |-> IF c \in HistoricalCalls THEN "HistoricalBatch" ELSE "Capture",
                     events |-> Reserved(c)]
    <3>1. m \in Control
      BY <1>0, ReservedType DEF Control, CaptureMessage
    <3>2. channel' \in {channel, Append(channel, m)}
      BY <1>4 DEF SendReserved
    <3> HIDE DEF m
    <3> QED BY <1>0, <3>1, <3>2, AppendProperties
  <2> QED BY <1>4, <2>1, <2>2, <2>3, <2>4, Untouched DEF SendReserved, TypeOK
<1> QED BY <1>1, <1>2, <1>3, <1>4 DEF CallStep

LEMMA SendControlType ==
  ASSUME channel \in Seq(Control), NEW w \in Waiters,
         NEW kind \in {"Flush", "FlushCaptures", "Shutdown"}, SendControl(w, kind)
  PROVE  channel' \in Seq(Control)
<1> DEFINE m == [kind |-> kind, waiter |-> w]
<1>1. m \in Control
  BY DEF Control, ControlMessage
<1>2. channel' = Append(channel, m)
  BY DEF SendControl
<1> HIDE DEF m
<1> QED BY <1>1, <1>2, AppendProperties

LEMMA GotoType ==
  ASSUME WaitTyped, NEW w, Goto(w, "waiting") \/ Goto(w, "sending") \/ Goto(w, "joining")
                           \/ Goto(w, "returned") \/ Goto(w, "noop") \/ Goto(w, "gave_up")
  PROVE  WaitTyped'
  BY DEF WaitTyped, Goto

LEMMA WaiterStepTypes ==
  ASSUME TypeOK, NEW w \in Waiters, WaiterStep(w) \/ GiveUp(w) PROVE TypeOK'
<1>0. WaitTyped /\ HandleTyped /\ LedgerTyped /\ channel \in Seq(Control)
  BY DEF TypeOK
<1>1. CASE BeginFlush(w)
  <2>1. WaitTyped'
    BY <1>0, <1>1, GotoType DEF BeginFlush
  <2>2. LedgerTyped'
    BY <1>0, <1>1 DEF BeginFlush, LedgerTyped
  <2> QED BY <1>1, <2>1, <2>2, Untouched DEF BeginFlush, TypeOK
<1>2. CASE SendFlush(w)
  <2>1. WaitTyped'
    BY <1>0, <1>2, GotoType DEF SendFlush
  <2>2. channel' \in Seq(Control)
    BY <1>0, <1>2, SendControlType DEF SendFlush
  <2> QED BY <1>2, <2>1, <2>2, Untouched DEF SendFlush, TypeOK
<1>3. CASE BeginClose(w)
  <2>1. WaitTyped'
    BY <1>0, <1>3, GotoType DEF BeginClose
  <2>2. HandleTyped'
    BY <1>0, <1>3 DEF BeginClose, HandleTyped
  <2> QED BY <1>3, <2>1, <2>2, Untouched DEF BeginClose, TypeOK
<1>4. CASE SendShutdown(w)
  <2>1. WaitTyped'
    BY <1>0, <1>4, GotoType DEF SendShutdown
  <2>2. channel' \in Seq(Control)
    BY <1>0, <1>4, SendControlType DEF SendShutdown
  <2> QED BY <1>4, <2>1, <2>2, Untouched DEF SendShutdown, TypeOK
<1>5. CASE TakeHandle(w)
  <2>1. WaitTyped'
    BY <1>0, <1>5, GotoType DEF TakeHandle, WaitTyped
  <2>2. HandleTyped'
    BY <1>0, <1>5 DEF TakeHandle, HandleTyped
  <2> QED BY <1>5, <2>1, <2>2, Untouched DEF TakeHandle, TypeOK
<1>6. CASE JoinWorker(w)
  <2>1. WaitTyped'
    BY <1>0, <1>6, GotoType DEF JoinWorker
  <2>2. HandleTyped'
    BY <1>0, <1>6 DEF JoinWorker, HandleTyped
  <2> QED BY <1>6, <2>1, <2>2, Untouched DEF JoinWorker, TypeOK
<1>7. CASE GiveUp(w)
  <2>1. WaitTyped'
    BY <1>0, <1>7, GotoType DEF GiveUp
  <2> QED BY <1>7, <2>1, Untouched DEF GiveUp, TypeOK
<1> QED BY <1>1, <1>2, <1>3, <1>4, <1>5, <1>6, <1>7 DEF WaiterStep

LEMMA DropHandleTypes == ASSUME TypeOK, DropHandle PROVE TypeOK'
<1>1. HandleTyped'
  BY DEF DropHandle, TypeOK, HandleTyped
<1> QED BY <1>1, Untouched DEF DropHandle, TypeOK

\* The lists of work are over Work.
LEMMA WorkLists ==
  /\ Service \in Seq(Work) /\ FlushWork \in Seq(Work) /\ FlushCapturesWork \in Seq(Work)
  /\ ShutdownWork \in Seq(Work)
  /\ \A work \in Work : <<work>> \in Seq(Work)
  /\ <<>> \in Seq(Work)
  /\ <<"drain_historical", "send_buffer", "flush_retries", "exit">> \in Seq(Work)
  BY DEF Service, FlushWork, FlushCapturesWork, ShutdownWork, Work

\* The first message of the channel.
LEMMA HeadMessage ==
  ASSUME channel \in Seq(Control), channel # <<>>
  PROVE  /\ Head(channel) \in Control /\ Tail(channel) \in Seq(Control)
         /\ Head(channel) \in ControlMessage => Head(channel).waiter \in Waiters
         /\ Head(channel).kind \in {"Capture", "HistoricalBatch"} =>
              Head(channel).events \in Seq(Events)
         /\ Head(channel) \notin ControlMessage => Head(channel).events \in Seq(Events)
<1>1. Head(channel) \in Control /\ Tail(channel) \in Seq(Control)
  BY HeadTailProperties
<1> QED BY <1>1 DEF Control, CaptureMessage, ControlMessage

\* The rest of a work list, with more work put in front.
LEMMA MoreWork ==
  ASSUME NEW s \in Seq(Work), NEW t \in Seq(Work)
  PROVE  /\ t \o s \in Seq(Work)
         /\ s # <<>> => Tail(s) \in Seq(Work) /\ t \o Tail(s) \in Seq(Work)
  BY HeadTailProperties, ConcatProperties

LEMMA ReceiveTypes == ASSUME TypeOK, Receive PROVE TypeOK'
<1>0. /\ channel \in Seq(Control) /\ len \in Nat
      /\ WorkerTyped /\ StoresTyped /\ LedgerTyped /\ BatchesTyped
  BY DEF TypeOK
<1>1. CASE ReceiveCapture
  <2>1. channel' \in Seq(Control) /\ Head(channel).events \in Seq(Events)
    BY <1>0, <1>1, HeadMessage DEF ReceiveCapture
  <2>2. StoresTyped'
    BY <1>0, <1>1, <2>1, ConcatProperties DEF ReceiveCapture, StoresTyped, Timer
  <2>3. todo' \in Seq(Work)
    <3>1. "send_buffer" \in Work
      BY DEF Work
    <3> QED BY <1>1, <3>1, WorkLists, MoreWork DEF ReceiveCapture
  <2>4. WorkerTyped'
    BY <1>0, <1>1, <2>3 DEF ReceiveCapture, WorkerTyped
  <2>5. LedgerTyped'
    BY <1>0, <1>1, MoveType DEF ReceiveCapture, LedgerTyped, Held
  <2>6. UNCHANGED <<callVars, handleVars, wait, len, batchVars>>
    BY <1>1 DEF ReceiveCapture
  <2> QED BY <2>1, <2>2, <2>4, <2>5, <2>6, Untouched DEF TypeOK
<1>2. CASE ReceiveHistorical
  <2>1. channel' \in Seq(Control) /\ Head(channel).events \in Seq(Events)
    BY <1>0, <1>2, HeadMessage DEF ReceiveHistorical
  <2>2. StoresTyped'
    <3>1. Chunks(Head(channel).events, AtLeastOne(MaxBatchSize)) \in Seq(SUBSET Events)
      BY <2>1, AtLeastOneType, ChunksType, TransportAssumption
    <3>2. historical' \in Seq(SUBSET Events)
      BY <1>0, <1>2, <3>1, ConcatProperties DEF ReceiveHistorical, StoresTyped
    <3>3. historical_since' \in Timer
      BY <1>0, <1>2 DEF ReceiveHistorical, StoresTyped, Started, Timer
    <3> QED BY <1>0, <1>2, <3>2, <3>3 DEF ReceiveHistorical, StoresTyped
  <2>3. todo' \in Seq(Work)
    <3>1. "drain_historical" \in Work
      BY DEF Work
    <3> QED BY <1>2, <3>1, WorkLists, MoreWork DEF ReceiveHistorical
  <2>4. WorkerTyped'
    BY <1>0, <1>2, <2>3 DEF ReceiveHistorical, WorkerTyped
  <2>5. LedgerTyped'
    BY <1>0, <1>2, MoveType DEF ReceiveHistorical, LedgerTyped, Held
  <2>6. UNCHANGED <<callVars, handleVars, wait, len, batchVars>>
    BY <1>2 DEF ReceiveHistorical
  <2> QED BY <2>1, <2>2, <2>4, <2>5, <2>6, Untouched DEF TypeOK
<1>3. CASE ReceiveControl
  <2>1. channel' \in Seq(Control) /\ Head(channel) \in ControlMessage
    BY <1>0, <1>3, HeadMessage DEF ReceiveControl
  <2>2. todo' \in Seq(Work)
    <3>1. Head(channel).kind \in {"Flush", "FlushCaptures", "Shutdown"}
      BY <2>1 DEF ControlMessage
    <3>2. \/ todo' = FlushWork \o Service
          \/ todo' = FlushCapturesWork \o Service
          \/ todo' = ShutdownWork
      BY <1>3, <3>1 DEF ReceiveControl
    <3>3. FlushWork \o Service \in Seq(Work) /\ FlushCapturesWork \o Service \in Seq(Work)
      BY WorkLists, MoreWork
    <3> QED BY <3>2, <3>3, WorkLists
  <2>3. WorkerTyped'
    BY <1>0, <1>3, <2>1, <2>2, HeadMessage DEF ReceiveControl, WorkerTyped, Timer
  <2> QED BY <1>3, <2>1, <2>3, Untouched DEF ReceiveControl, TypeOK
<1>4. CASE WakeTimeout
  <2>1. WorkerTyped'
    BY <1>0, <1>4, WorkLists DEF WakeTimeout, WorkerTyped
  <2> QED BY <1>4, <2>1, Untouched DEF WakeTimeout, TypeOK
<1>5. CASE WakeDisconnected
  <2>1. WorkerTyped'
    BY <1>0, <1>5, WorkLists DEF WakeDisconnected, WorkerTyped, Timer
  <2> QED BY <1>5, <2>1, Untouched DEF WakeDisconnected, TypeOK
<1> QED BY <1>1, <1>2, <1>3, <1>4, <1>5 DEF Receive

\* A batch gives its events, and a sequence of batches its first one.
LEMMA HeadBatch ==
  ASSUME NEW s \in Seq(Batch), s # <<>>
  PROVE  /\ Head(s) \in Batch /\ Tail(s) \in Seq(Batch)
         /\ Head(s).pending \in SUBSET Events /\ Head(s).undelivered \in SUBSET Events
<1>1. Head(s) \in Batch /\ Tail(s) \in Seq(Batch)
  BY HeadTailProperties
<1> QED BY <1>1 DEF Batch

LEMMA OneBatch == \A b \in Batch : <<b>> \in Seq(Batch)
  OBVIOUS

LEMMA AbandonType ==
  ASSUME TypeOK, NEW S \in SUBSET Events, Abandon(S)
  PROVE  len' \in Nat /\ owed' \in [Waiters -> SUBSET Events]
  BY ReleasedType, CardinalityOfEvents, DischargeType DEF Abandon, TypeOK

LEMMA SendBatchType ==
  ASSUME TypeOK, NEW S \in SUBSET Events, SendBatch(S)
  PROVE  /\ len' \in Nat /\ inflight' \in Seq(Batch)
         /\ status' \in [Events -> Status] /\ owed' \in [Waiters -> SUBSET Events]
<1> DEFINE kept == S \ Filtered
<1>0. LedgerTyped /\ len \in Nat
  BY DEF TypeOK
<1>1. len' \in Nat
  BY <1>0, ReleasedType, CardinalityOfEvents DEF SendBatch
<1>2. inflight' \in Seq(Batch)
  <2> DEFINE b == [pending |-> kept, undelivered |-> {}, attempt |-> 1, due |-> FALSE]
  <2>1. b \in Batch
    BY DEF Batch
  <2>2. inflight' \in {<<>>, <<b>>}
    BY DEF SendBatch
  <2> HIDE DEF b
  <2> QED BY <2>1, <2>2, OneBatch, EmptySeq
<1>3. status' \in [Events -> Status]
  <2>1. Move(kept, "inflight") \in [Events -> Status]
    BY <1>0, MoveType DEF Held
  <2>2. status' = Mark(Move(kept, "inflight"), S \ kept, "filtered")
    BY DEF SendBatch
  <2>3. "filtered" \in Status
    BY DEF Status, Settled
  <2> HIDE DEF kept
  <2> QED BY <2>1, <2>2, <2>3, MarkType
<1>4. owed' \in [Waiters -> SUBSET Events]
  BY <1>0, DischargeType DEF SendBatch
<1> QED BY <1>1, <1>2, <1>3, <1>4

\* The events of the stores are events.
LEMMA StoredEvents ==
  ASSUME TypeOK
  PROVE  /\ \A n \in Nat : Elements(SubSeq(buffer, 1, SmallerOf(Len(buffer), n))) \in SUBSET Events
         /\ \A n \in Nat : SubSeq(buffer, SmallerOf(Len(buffer), n) + 1, Len(buffer)) \in Seq(Events)
         /\ Elements(buffer) \in SUBSET Events
         /\ UNION Elements(historical) \in SUBSET Events
<1>0. buffer \in Seq(Events) /\ historical \in Seq(SUBSET Events)
  BY DEF TypeOK, StoresTyped
<1>1. ASSUME NEW n \in Nat
      PROVE  /\ SubSeq(buffer, 1, SmallerOf(Len(buffer), n)) \in Seq(Events)
             /\ SubSeq(buffer, SmallerOf(Len(buffer), n) + 1, Len(buffer)) \in Seq(Events)
  <2>1. SmallerOf(Len(buffer), n) \in Nat /\ SmallerOf(Len(buffer), n) <= Len(buffer)
    BY <1>0 DEF SmallerOf
  <2> QED BY <1>0, <2>1, SubSeqProperties
<1>2. Elements(historical) \in SUBSET SUBSET Events
  BY <1>0, ElementsType
<1> QED BY <1>0, <1>1, <1>2, ElementsType

LEMMA StoreStepTypes ==
  ASSUME TypeOK, SendBufferChunk \/ DropBuffer \/ SendHistoricalChunk \/ DropHistorical
  PROVE  TypeOK'
<1>0. StoresTyped /\ BatchesTyped /\ LedgerTyped
  BY DEF TypeOK
<1>1. CASE SendBufferChunk
  <2>1. AtLeastOne(MaxBatchSize) \in Nat
    BY AtLeastOneType, TransportAssumption
  <2> DEFINE take == SmallerOf(Len(buffer), AtLeastOne(MaxBatchSize))
  <2>2. /\ SendBatch(Elements(SubSeq(buffer, 1, take)))
        /\ buffer' = SubSeq(buffer, take + 1, Len(buffer))
    BY <1>1 DEF SendBufferChunk
  <2>3. /\ Elements(SubSeq(buffer, 1, take)) \in SUBSET Events
        /\ SubSeq(buffer, take + 1, Len(buffer)) \in Seq(Events)
    BY <2>1, StoredEvents
  <2>4. UNCHANGED <<callVars, handleVars, wait, channel, workerVars, buffer_since, historical,
                    historical_since, retries, sweep, reported>>
    BY <1>1 DEF SendBufferChunk
  <2> HIDE DEF take
  <2>5. /\ len' \in Nat /\ inflight' \in Seq(Batch)
        /\ status' \in [Events -> Status] /\ owed' \in [Waiters -> SUBSET Events]
    BY <2>2, <2>3, SendBatchType
  <2>6. StoresTyped' /\ BatchesTyped' /\ LedgerTyped'
    BY <1>0, <2>2, <2>3, <2>4, <2>5 DEF StoresTyped, BatchesTyped, LedgerTyped
  <2> QED BY <2>4, <2>5, <2>6, Untouched DEF TypeOK
<1>2. CASE DropBuffer
  <2>1. /\ Abandon(Elements(buffer)) /\ buffer' = <<>>
        /\ status' = Move(Elements(buffer), "abandoned")
        /\ UNCHANGED <<callVars, handleVars, wait, channel, workerVars, buffer_since, historical,
                       historical_since, batchVars, reported>>
    BY <1>2 DEF DropBuffer
  <2>2. len' \in Nat /\ owed' \in [Waiters -> SUBSET Events]
    BY <2>1, StoredEvents, AbandonType
  <2>3. status' \in [Events -> Status]
    BY <1>0, <2>1, MoveType DEF Settled
  <2>4. StoresTyped' /\ LedgerTyped'
    BY <1>0, <2>1, <2>2, <2>3, EmptySeq DEF StoresTyped, LedgerTyped
  <2> QED BY <2>1, <2>2, <2>4, Untouched DEF TypeOK
<1>3. CASE SendHistoricalChunk
  <2>1. /\ SendBatch(Head(historical)) /\ historical' = Tail(historical) /\ historical # <<>>
        /\ UNCHANGED <<callVars, handleVars, wait, channel, workerVars, buffer, buffer_since,
                       historical_since, retries, sweep, reported>>
    BY <1>3 DEF SendHistoricalChunk
  <2>2. Head(historical) \in SUBSET Events /\ Tail(historical) \in Seq(SUBSET Events)
    BY <1>0, <2>1, HeadTailProperties DEF StoresTyped
  <2>3. /\ len' \in Nat /\ inflight' \in Seq(Batch)
        /\ status' \in [Events -> Status] /\ owed' \in [Waiters -> SUBSET Events]
    BY <2>1, <2>2, SendBatchType
  <2>4. StoresTyped' /\ BatchesTyped' /\ LedgerTyped'
    BY <1>0, <2>1, <2>2, <2>3 DEF StoresTyped, BatchesTyped, LedgerTyped
  <2> QED BY <2>1, <2>3, <2>4, Untouched DEF TypeOK
<1>4. CASE DropHistorical
  <2>1. /\ Abandon(UNION Elements(historical)) /\ historical' = <<>>
        /\ status' = Move(UNION Elements(historical), "abandoned")
        /\ UNCHANGED <<callVars, handleVars, wait, channel, workerVars, buffer, buffer_since,
                       historical_since, batchVars, reported>>
    BY <1>4 DEF DropHistorical
  <2>2. len' \in Nat /\ owed' \in [Waiters -> SUBSET Events]
    BY <2>1, StoredEvents, AbandonType
  <2>3. status' \in [Events -> Status]
    BY <1>0, <2>1, MoveType DEF Settled
  <2>4. StoresTyped' /\ LedgerTyped'
    BY <1>0, <2>1, <2>2, <2>3, EmptySeq DEF StoresTyped, LedgerTyped
  <2> QED BY <2>1, <2>2, <2>4, Untouched DEF TypeOK
<1> QED BY <1>1, <1>2, <1>3, <1>4

LEMMA TakeRetriesTypes ==
  ASSUME TypeOK, NEW work, NEW next \in Work, TakeRetries(work, next)
  PROVE  TypeOK'
<1>1. /\ todo # <<>> /\ todo' = <<next>> \o Tail(todo)
      /\ sweep' = retries /\ retries' = <<>> /\ status' = Move(With("retrying"), "sweeping")
      /\ UNCHANGED <<callVars, handleVars, wait, len, channel, alive, completing, deadline,
                     storeVars, inflight, reported, owed>>
  BY DEF TakeRetries, Doing
<1>2. todo' \in Seq(Work)
  BY <1>1, WorkLists, MoreWork DEF TypeOK, WorkerTyped
<1>3. WorkerTyped' /\ BatchesTyped'
  BY <1>1, <1>2, EmptySeq DEF TypeOK, WorkerTyped, BatchesTyped
<1>4. LedgerTyped'
  BY <1>1, MoveType DEF TypeOK, LedgerTyped, Held
<1> QED BY <1>1, <1>3, <1>4, Untouched DEF TypeOK

LEMMA SweepStepTypes ==
  ASSUME TypeOK, AttemptRetry \/ KeepRetry \/ DropRetry
  PROVE  TypeOK'
<1>0. BatchesTyped /\ LedgerTyped
  BY DEF TypeOK
<1>1. sweep # <<>>
  BY DEF AttemptRetry, KeepRetry, DropRetry
<1>2. Head(sweep) \in Batch /\ Tail(sweep) \in Seq(Batch) /\ Head(sweep).pending \in SUBSET Events
  BY <1>0, <1>1, HeadBatch DEF BatchesTyped
<1>3. CASE AttemptRetry
  <2>1. BatchesTyped'
    BY <1>0, <1>2, <1>3, OneBatch DEF AttemptRetry, BatchesTyped
  <2>2. LedgerTyped'
    BY <1>0, <1>3, MoveType DEF AttemptRetry, LedgerTyped, Held
  <2> QED BY <1>3, <2>1, <2>2, Untouched DEF AttemptRetry, TypeOK
<1>4. CASE KeepRetry
  <2>1. BatchesTyped'
    BY <1>0, <1>2, <1>4, AppendProperties DEF KeepRetry, BatchesTyped
  <2>2. LedgerTyped'
    BY <1>0, <1>4, MoveType DEF KeepRetry, LedgerTyped, Held
  <2> QED BY <1>4, <2>1, <2>2, Untouched DEF KeepRetry, TypeOK
<1>5. CASE DropRetry
  <2>1. len' \in Nat /\ owed' \in [Waiters -> SUBSET Events]
    BY <1>2, <1>5, AbandonType DEF DropRetry
  <2>2. status' \in [Events -> Status]
    BY <1>0, <1>5, MoveType, MarkType, Statuses DEF DropRetry, Forsaken, Settled
  <2>3. BatchesTyped' /\ LedgerTyped'
    BY <1>0, <1>2, <1>5, <2>1, <2>2 DEF DropRetry, BatchesTyped, LedgerTyped
  <2> QED BY <1>5, <2>1, <2>3, Untouched DEF DropRetry, TypeOK
<1> QED BY <1>3, <1>4, <1>5

LEMMA DrainTypes == ASSUME TypeOK, Drain PROVE TypeOK'
<1>0. todo \in Seq(Work) /\ WorkerTyped /\ StoresTyped
  BY DEF TypeOK, WorkerTyped
<1>1. CASE DrainDone
  <2>1. WorkerTyped'
    BY <1>0, <1>1, MoreWork, WorkLists DEF DrainDone, NextWork, WorkerTyped
  <2>2. StoresTyped'
    BY <1>0, <1>1 DEF DrainDone, Stopped, StoresTyped, Timer
  <2> QED BY <1>1, <2>1, <2>2, Untouched DEF DrainDone, TypeOK
<1>2. CASE FlushRetries \/ AttemptDue
  BY <1>2, TakeRetriesTypes DEF FlushRetries, AttemptDue, Work
<1>3. CASE ServiceBuffer \/ ServiceHistorical
  <2>1. PICK work \in Work, drain \in Work, timer \in Timer : ServiceTimer(work, timer, drain)
    BY <1>0, <1>3 DEF ServiceBuffer, ServiceHistorical, Work, StoresTyped
  <2>2. todo' \in Seq(Work)
    <3>1. todo # <<>> /\ \/ todo' = <<drain>> \o Tail(todo)
                         \/ todo' = <<>> \o Tail(todo)
      BY <2>1 DEF ServiceTimer, Doing
    <3> QED BY <1>0, <3>1, MoreWork, WorkLists
  <2>3. WorkerTyped'
    BY <1>0, <2>1, <2>2 DEF ServiceTimer, WorkerTyped
  <2> QED BY <2>1, <2>3, Untouched DEF ServiceTimer, TypeOK
<1> QED BY <1>1, <1>2, <1>3, StoreStepTypes, SweepStepTypes DEF Drain

\* What the two arms of an attempt make of a batch and of the statuses.
LEMMA ArmTypes ==
  ASSUME TypeOK, NEW b \in Batch, NEW st \in [Events -> Status], Report(b, st) \/ BackOff(b, st)
  PROVE  /\ status' \in [Events -> Status] /\ reported' \in [Events -> Nat]
         /\ retries' \in Seq(Batch)
<1>0. LedgerTyped /\ retries \in Seq(Batch)
  BY DEF TypeOK, BatchesTyped
<1>1. CASE Report(b, st)
  BY <1>0, <1>1, MarkType, CountType, Statuses DEF Report, Settled
<1>2. CASE BackOff(b, st)
  <2>1. status' \in [Events -> Status]
    <3>1. {"abandoned", "unreported", "retrying"} \subseteq Status
      BY DEF Status, Held, Settled
    <3> QED BY <1>2, <3>1, MarkType DEF BackOff
  <2>2. reported' \in [Events -> Nat]
    BY <1>0, <1>2 DEF BackOff, LedgerTyped
  <2>3. retries' \in Seq(Batch)
    <3> DEFINE again == [b EXCEPT !.attempt = @ + 1, !.due = FALSE]
    <3>1. b.attempt + 1 \in Nat \ {0}
      BY DEF Batch
    <3>2. again \in Batch
      BY <3>1 DEF Batch
    <3>3. retries' \in {retries, Append(retries, again)}
      BY <1>2 DEF BackOff
    <3> HIDE DEF again
    <3> QED BY <1>0, <3>2, <3>3, AppendProperties
  <2> QED BY <2>1, <2>2, <2>3
<1> QED BY <1>1, <1>2

LEMMA RespondTypes == ASSUME TypeOK, Respond PROVE TypeOK'
<1>0. LedgerTyped /\ BatchesTyped /\ len \in Nat /\ <<>> \in Seq(Batch)
  BY EmptySeq DEF TypeOK
<1>1. \A b \in Elements(inflight) : b \in Batch /\ b.pending \in SUBSET Events
  <2>1. Elements(inflight) \in SUBSET Batch
    BY <1>0, ElementsType DEF BatchesTyped
  <2> QED BY <2>1 DEF Batch
<1>2. \A S \in SUBSET Events : Cardinality(S) \in Nat /\ GivenUp(S) \in Nat
  BY CardinalityOfEvents DEF GivenUp
<1>3. CASE AttemptFails
  <2>1. PICK b \in Elements(inflight) :
          /\ \/ BackOff(b, status) /\ len' = Released(GivenUp(b.pending))
             \/ Report(b, status) /\ len' = Released(Cardinality(b.pending))
          /\ inflight' = <<>> /\ owed' = Discharge(b.pending)
          /\ UNCHANGED <<callVars, handleVars, wait, channel, workerVars, storeVars, sweep>>
    BY <1>3 DEF AttemptFails
  <2>2. len' \in Nat
    BY <1>0, <1>1, <1>2, <2>1, ReleasedType
  <2>3. /\ status' \in [Events -> Status] /\ reported' \in [Events -> Nat]
        /\ retries' \in Seq(Batch)
    BY <1>0, <1>1, <2>1, ArmTypes DEF LedgerTyped
  <2>4. BatchesTyped' /\ LedgerTyped'
    BY <1>0, <2>1, <2>3, DischargeType DEF BatchesTyped, LedgerTyped
  <2> QED BY <2>1, <2>2, <2>4, Untouched DEF TypeOK
<1>4. CASE AttemptSucceeds
  <2>0. PICK b \in Elements(inflight) : \E verdict \in Verdicts(b) : Answered(b, verdict)
    BY <1>4 DEF AttemptSucceeds
  <2>1. PICK verdict \in Verdicts(b) : Answered(b, verdict)
    BY <2>0
  <2> DEFINE got(v) == {e \in b.pending : verdict[Uuid[e]] = v}
             kept == Keep(b, verdict)
             lost == got("drop") \union (got("retry") \ kept)
             pruned == [b EXCEPT !.pending = kept, !.undelivered = @ \union lost]
             st == Mark(Mark(Move(got("ok"), "delivered"), got("absent"), "omitted"),
                        lost, "condemned")
  <2>k. kept \in SUBSET b.pending /\ lost \in SUBSET b.pending
    BY DEF Keep
  <2>2. len' \in Nat
    <3>1. b.pending \ kept \in SUBSET Events /\ kept \in SUBSET Events
      BY <1>1, <2>k
    <3>2. Cardinality(b.pending \ kept) + GivenUp(kept) \in Nat
      BY <1>2, <3>1
    <3>3. \/ len' = Released(Cardinality(b.pending))
          \/ len' = Released(Cardinality(b.pending \ kept) + GivenUp(kept))
      BY <2>1 DEF Answered
    <3> QED BY <1>0, <1>1, <1>2, <3>2, <3>3, ReleasedType
  <2>3. pruned \in Batch
    BY <1>1, <2>k DEF Batch
  <2>4. st \in [Events -> Status]
    <3>1. Move(got("ok"), "delivered") \in [Events -> Status]
      BY <1>0, MoveType DEF Settled
    <3>2. "omitted" \in Status /\ "condemned" \in Status
      BY DEF Status, Settled
    <3> QED BY <3>1, <3>2, MarkType
  <2>5. Report(pruned, st) \/ BackOff(pruned, st)
    BY <2>1 DEF Answered
  <2>6. /\ inflight' = <<>> /\ owed' = Discharge(b.pending)
        /\ UNCHANGED <<callVars, handleVars, wait, channel, workerVars, storeVars, sweep>>
    BY <2>1 DEF Answered
  <2> HIDE DEF pruned, st
  <2>7. /\ status' \in [Events -> Status] /\ reported' \in [Events -> Nat]
        /\ retries' \in Seq(Batch)
    BY <2>3, <2>4, <2>5, ArmTypes
  <2>8. BatchesTyped' /\ LedgerTyped'
    BY <1>0, <2>6, <2>7, DischargeType DEF BatchesTyped, LedgerTyped
  <2> QED BY <2>2, <2>6, <2>8, Untouched DEF TypeOK
<1> QED BY <1>3, <1>4 DEF Respond

LEMMA WokenType ==
  ASSUME WaitTyped, NEW W, wait' = Woken(W)
  PROVE  WaitTyped'
  BY DEF WaitTyped, Woken

LEMMA FinishTypes == ASSUME TypeOK, Finish PROVE TypeOK'
<1>0. /\ channel \in Seq(Control) /\ todo \in Seq(Work) /\ len \in Nat
      /\ WaitTyped /\ WorkerTyped /\ LedgerTyped
  BY DEF TypeOK, WorkerTyped
<1>1. CASE SignalCompletion
  <2>1. WaitTyped'
    BY <1>0, <1>1, WokenType DEF SignalCompletion
  <2>2. WorkerTyped'
    BY <1>0, <1>1, MoreWork, WorkLists DEF SignalCompletion, Doing, NextWork, WorkerTyped
  <2> QED BY <1>1, <2>1, <2>2, Untouched DEF SignalCompletion, TypeOK
<1>2. CASE DrainPending
  <2>1. channel # <<>> /\ channel' = Tail(channel)
        /\ UNCHANGED <<callVars, handleVars, workerVars, storeVars, batchVars, reported>>
    BY <1>2 DEF DrainPending
  <2>2. CASE Head(channel) \in ControlMessage
    <3>1. WaitTyped'
      BY <1>0, <1>2, <2>2, WokenType DEF DrainPending
    <3> QED BY <1>0, <1>2, <2>1, <2>2, <3>1, HeadMessage, Untouched
        DEF DrainPending, TypeOK, LedgerTyped
  <2>3. CASE Head(channel) \notin ControlMessage
    <3>1. /\ Abandon(Elements(Head(channel).events)) /\ UNCHANGED wait
          /\ status' = Move(Elements(Head(channel).events), "abandoned")
      BY <1>2, <2>3 DEF DrainPending
    <3>2. Elements(Head(channel).events) \in SUBSET Events
      BY <1>0, <2>1, <2>3, HeadMessage, ElementsType
    <3>3. len' \in Nat /\ owed' \in [Waiters -> SUBSET Events]
      BY <3>1, <3>2, AbandonType
    <3>4. LedgerTyped'
      BY <1>0, <2>1, <3>1, <3>3, MoveType DEF LedgerTyped, Settled
    <3> QED BY <1>0, <2>1, <3>1, <3>3, <3>4, HeadMessage, Untouched DEF TypeOK
  <2> QED BY <2>2, <2>3
<1>3. CASE DrainedPending
  <2>1. WorkerTyped'
    BY <1>0, <1>3, MoreWork, WorkLists DEF DrainedPending, Doing, NextWork, WorkerTyped
  <2> QED BY <1>3, <2>1, Untouched DEF DrainedPending, TypeOK
<1>4. CASE WorkerExits
  <2>1. PICK W, lost : /\ wait' = Woken(W) /\ status' = Move(lost, "lost")
                       /\ owed' = Discharge(lost)
    BY <1>4 DEF WorkerExits
  <2>2. /\ alive' = FALSE /\ todo' = <<>> /\ channel' = <<>>
        /\ UNCHANGED <<callVars, handleVars, len, completing, deadline, storeVars, batchVars,
                       reported>>
    BY <1>4 DEF WorkerExits
  <2>3. WaitTyped'
    BY <1>0, <2>1, WokenType
  <2>4. LedgerTyped'
    BY <1>0, <2>1, <2>2, MoveType, DischargeType DEF LedgerTyped, Settled
  <2>5. WorkerTyped' /\ channel' \in Seq(Control)
    BY <1>0, <2>2, EmptySeq DEF WorkerTyped
  <2> QED BY <2>2, <2>3, <2>4, <2>5, Untouched DEF TypeOK
<1> QED BY <1>1, <1>2, <1>3, <1>4 DEF Finish

LEMMA TimeTypes == ASSUME TypeOK, TimeStep PROVE TypeOK'
<1>0. StoresTyped /\ WorkerTyped /\ BatchesTyped
  BY DEF TypeOK
<1>1. CASE BufferElapses
  <2>1. StoresTyped'
    BY <1>0, <1>1 DEF BufferElapses, StoresTyped, Timer
  <2> QED BY <1>1, <2>1, Untouched DEF BufferElapses, TypeOK
<1>2. CASE HistoricalElapses
  <2>1. StoresTyped'
    BY <1>0, <1>2 DEF HistoricalElapses, StoresTyped, Timer
  <2> QED BY <1>2, <2>1, Untouched DEF HistoricalElapses, TypeOK
<1>3. CASE DeadlineElapses
  <2>1. WorkerTyped'
    BY <1>0, <1>3 DEF DeadlineElapses, WorkerTyped, Timer
  <2> QED BY <1>3, <2>1, Untouched DEF DeadlineElapses, TypeOK
<1>4. ASSUME NEW i \in DOMAIN retries, RetryElapses(i) PROVE TypeOK'
  <2>1. retries \in Seq(Batch) /\ i \in 1..Len(retries) /\ retries[i] \in Batch
    BY <1>0, <1>4 DEF BatchesTyped
  <2>2. [retries[i] EXCEPT !.due = TRUE] \in Batch
    BY <2>1 DEF Batch
  <2>3. retries' = [retries EXCEPT ![i] = [retries[i] EXCEPT !.due = TRUE]]
    BY <1>4, <2>1 DEF RetryElapses
  <2>4. retries' \in Seq(Batch)
    BY <2>1, <2>2, <2>3, ExceptSeq
  <2>5. BatchesTyped'
    BY <1>0, <1>4, <2>4 DEF RetryElapses, BatchesTyped
  <2> QED BY <1>4, <2>5, Untouched DEF RetryElapses, TypeOK
<1> QED BY <1>1, <1>2, <1>3, <1>4 DEF TimeStep

LEMMA UnchangedTypes == ASSUME TypeOK, UNCHANGED vars PROVE TypeOK'
<1>1. UNCHANGED <<callVars, handleVars, wait, len, channel, workerVars, storeVars, batchVars,
                  ledgerVars>>
  BY DEF vars
<1> QED BY <1>1, Untouched DEF TypeOK

LEMMA StepTypes == ASSUME TypeOK, [Next]_vars PROVE TypeOK'
<1>1. Quiet => UNCHANGED vars
  BY DEF Quiet
<1> QED BY <1>1, CallStepTypes, WaiterStepTypes, DropHandleTypes, ReceiveTypes, DrainTypes,
           RespondTypes, FinishTypes, TimeTypes, UnchangedTypes DEF Next, WorkerStep

\* Every variable keeps its type in every behaviour of the transport, for any number of
\* calls, callers and events and any sizes: no handler leaves a record, a timer, a work list
\* or a counter it did not mean to, and a call never reserves more slots than it has events.
THEOREM TypeCorrect == Spec => []TypeOK
<1>1. Init => TypeOK
  BY InitType
<1>2. TypeOK /\ [Next]_vars => TypeOK'
  BY StepTypes
<1> QED BY <1>1, <1>2, PTL DEF Spec
-----------------------------------------------------------------------------
(***************************************************************************)
(* The bound of the queue.  No step but a reservation raises the in-flight *)
(* counter, and a reservation found room before it raised it.              *)
(***************************************************************************)
LEMMA ReleasedBound ==
  ASSUME len \in Nat, NEW n \in Nat
  PROVE  Released(n) <= len
  BY DEF Released

LEMMA AbandonBound ==
  ASSUME len \in Nat, NEW S \in SUBSET Events, Abandon(S)
  PROVE  len' <= len
  BY ReleasedBound, CardinalityOfEvents DEF Abandon

LEMMA SendBatchBound ==
  ASSUME len \in Nat, NEW S \in SUBSET Events, SendBatch(S)
  PROVE  len' <= len
<1>1. S \ (S \ Filtered) \in SUBSET Events
  OBVIOUS
<1> QED BY <1>1, ReleasedBound, CardinalityOfEvents DEF SendBatch

LEMMA DrainBound == ASSUME TypeOK, Drain PROVE len' <= len
<1>0. len \in Nat /\ StoresTyped /\ BatchesTyped
  BY DEF TypeOK
<1>1. CASE SendBufferChunk
  <2>1. AtLeastOne(MaxBatchSize) \in Nat
    BY AtLeastOneType, TransportAssumption
  <2>2. PICK S \in SUBSET Events : SendBatch(S)
    BY <1>1, <2>1, StoredEvents DEF SendBufferChunk
  <2> QED BY <1>0, <2>2, SendBatchBound
<1>2. CASE SendHistoricalChunk
  <2>1. SendBatch(Head(historical)) /\ Head(historical) \in SUBSET Events
    BY <1>0, <1>2, HeadTailProperties DEF SendHistoricalChunk, StoresTyped
  <2> QED BY <1>0, <2>1, SendBatchBound
<1>3. CASE DropBuffer \/ DropHistorical
  BY <1>0, <1>3, StoredEvents, AbandonBound DEF DropBuffer, DropHistorical
<1>4. CASE DropRetry
  <2>1. Abandon(Head(sweep).pending) /\ Head(sweep).pending \in SUBSET Events
    BY <1>0, <1>4, HeadBatch DEF DropRetry, BatchesTyped
  <2> QED BY <1>0, <2>1, AbandonBound
<1>5. CASE UNCHANGED len
  BY <1>0, <1>5
<1> QED BY <1>1, <1>2, <1>3, <1>4, <1>5
    DEF Drain, DrainDone, FlushRetries, AttemptDue, TakeRetries, AttemptRetry, KeepRetry,
        ServiceBuffer, ServiceHistorical, ServiceTimer

LEMMA RespondBound == ASSUME TypeOK, Respond PROVE len' <= len
<1>0. len \in Nat /\ BatchesTyped
  BY DEF TypeOK
<1>1. \A S \in SUBSET Events : Cardinality(S) \in Nat /\ GivenUp(S) \in Nat
  BY CardinalityOfEvents DEF GivenUp
<1>2. Elements(inflight) \in SUBSET Batch
  BY <1>0, ElementsType DEF BatchesTyped
<1>3. ASSUME NEW b \in Elements(inflight), NEW verdict \in Verdicts(b),
             Answered(b, verdict)
      PROVE  len' <= len
  <2>1. b.pending \in SUBSET Events
    BY <1>2 DEF Batch
  <2>2. Keep(b, verdict) \in SUBSET Events /\ b.pending \ Keep(b, verdict) \in SUBSET Events
    BY <2>1 DEF Keep
  <2>3. Cardinality(b.pending \ Keep(b, verdict)) + GivenUp(Keep(b, verdict)) \in Nat
    BY <1>1, <2>2
  <2>4. \/ len' = Released(Cardinality(b.pending))
        \/ len' = Released(Cardinality(b.pending \ Keep(b, verdict)) + GivenUp(Keep(b, verdict)))
    BY <1>3 DEF Answered
  <2> QED BY <1>0, <1>1, <2>1, <2>3, <2>4, ReleasedBound
<1>4. CASE AttemptFails
  <2>1. PICK b \in Elements(inflight) : \/ len' = Released(GivenUp(b.pending))
                                        \/ len' = Released(Cardinality(b.pending))
    BY <1>4 DEF AttemptFails
  <2>2. b.pending \in SUBSET Events
    BY <1>2 DEF Batch
  <2> QED BY <1>0, <1>1, <2>1, <2>2, ReleasedBound
<1> QED BY <1>3, <1>4 DEF Respond, AttemptSucceeds

LEMMA FinishBound == ASSUME TypeOK, Finish PROVE len' <= len
<1>0. len \in Nat /\ channel \in Seq(Control)
  BY DEF TypeOK
<1>1. CASE DrainPending
  <2>1. CASE Head(channel) \in ControlMessage
    BY <1>0, <1>1, <2>1 DEF DrainPending
  <2>2. CASE Head(channel) \notin ControlMessage
    <3>1. /\ Abandon(Elements(Head(channel).events))
          /\ Elements(Head(channel).events) \in SUBSET Events
      BY <1>0, <1>1, <2>2, HeadMessage, ElementsType DEF DrainPending
    <3> QED BY <1>0, <3>1, AbandonBound
  <2> QED BY <2>1, <2>2
<1> QED BY <1>0, <1>1 DEF Finish, SignalCompletion, DrainedPending, WorkerExits

LEMMA StepBound == ASSUME TypeOK, QueueBounded, [Next]_vars PROVE QueueBounded'
<1>0. len \in Nat /\ MaxQueueSize \in Nat /\ len <= MaxQueueSize
  BY TransportAssumption DEF TypeOK, QueueBounded
<1> SUFFICES len' <= MaxQueueSize
  BY DEF QueueBounded
<1>1. len' \in Nat
  BY StepTypes DEF TypeOK
<1>2. ASSUME NEW c \in Calls, CallStep(c) PROVE len' <= MaxQueueSize
  <2>1. CASE ReserveSlot(c)
    BY <1>0, <2>1 DEF ReserveSlot, HasRoom
  <2>2. CASE SendReserved(c)
    <3>1. fitted[c] \in Nat
      BY DEF TypeOK, CallsTyped
    <3> QED BY <1>0, <1>1, <2>2, <3>1, ReleasedBound DEF SendReserved
  <2> QED BY <1>0, <1>2, <2>1, <2>2 DEF CallStep, CheckClosed, QueueFull
<1>3. CASE Drain \/ Respond \/ Finish
  <2>1. len' <= len
    BY <1>3, DrainBound, RespondBound, FinishBound
  <2> QED BY <1>0, <1>1, <2>1
<1>4. CASE UNCHANGED len
  BY <1>0, <1>4
<1>5. /\ \A w \in Waiters : WaiterStep(w) \/ GiveUp(w) => UNCHANGED len
      /\ DropHandle \/ Receive \/ TimeStep => UNCHANGED len
  BY DEF WaiterStep, BeginFlush, SendFlush, BeginClose, SendShutdown, TakeHandle, JoinWorker,
         GiveUp, DropHandle, Receive, ReceiveCapture, ReceiveHistorical, ReceiveControl,
         WakeTimeout, WakeDisconnected, TimeStep, BufferElapses, HistoricalElapses,
         DeadlineElapses, RetryElapses
<1> QED BY <1>2, <1>3, <1>4, <1>5 DEF Next, WorkerStep, Quiet, vars

\* However many producers race for slots, and whichever path gives slots back, the in-flight
\* counter of the queue never exceeds max_queue_size.
THEOREM QueueStaysBounded == Spec => []QueueBounded
<1>1. Init => QueueBounded
  BY TransportAssumption DEF Init, QueueBounded
<1>2. TypeOK /\ QueueBounded /\ [Next]_vars => QueueBounded'
  BY StepBound
<1> QED BY <1>1, <1>2, TypeCorrect, PTL DEF Spec
-----------------------------------------------------------------------------
(***************************************************************************)
(* Shutdown.  The JoinHandle is in the mutex, or with the one caller that  *)
(* joins, who holds the mutex, or the worker has exited.                   *)
(***************************************************************************)
HandleKept == ~handle /\ joining = NoOne => ~alive

LEMMA WaiterKeepsHandle ==
  ASSUME TypeOK, HandleKept, JoinedWorker, NEW w \in Waiters, WaiterStep(w) \/ GiveUp(w)
  PROVE  HandleKept' /\ JoinedWorker'
<1>0. /\ NoOne \notin Waiters /\ wait \in [Waiters -> {"idle", "sending", "waiting", "joining",
                                           "returned", "noop", "gave_up"}]
      /\ Closers \subseteq Waiters
      /\ \A v \in Closers : v \notin Flushers \union PanicFlushers
  BY TransportAssumption DEF Waiters, TypeOK, WaitTyped
<1>1. CASE TakeHandle(w)
  <2>1. HandleKept'
    BY <1>0, <1>1 DEF TakeHandle, HandleKept, workerVars
  <2>2. ~handle => ~alive
    BY <1>1 DEF TakeHandle, MutexFree, HandleKept
  <2> QED BY <1>0, <1>1, <2>1, <2>2 DEF TakeHandle, Goto, JoinedWorker, workerVars
<1>2. CASE JoinWorker(w)
  BY <1>0, <1>2 DEF JoinWorker, Goto, HandleKept, JoinedWorker, workerVars
<1>3. CASE SendFlush(w)
  <2>1. w \notin Closers
    BY <1>0, <1>3 DEF SendFlush
  <2>2. \A v \in Closers : wait'[v] = wait[v]
    BY <1>0, <1>3, <2>1 DEF SendFlush, Goto
  <2> QED BY <1>3, <2>2 DEF SendFlush, HandleKept, JoinedWorker, handleVars, workerVars
<1>4. CASE BeginFlush(w) \/ BeginClose(w) \/ SendShutdown(w) \/ GiveUp(w)
  <2>1. wait'[w] # "returned" /\ \A v \in Waiters \ {w} : wait'[v] = wait[v]
    BY <1>0, <1>4 DEF BeginFlush, BeginClose, SendShutdown, GiveUp, Goto
  <2>2. UNCHANGED <<handle, joining, alive>>
    BY <1>4 DEF BeginFlush, BeginClose, SendShutdown, GiveUp, handleVars, workerVars
  <2> QED BY <1>0, <2>1, <2>2 DEF HandleKept, JoinedWorker
<1> QED BY <1>1, <1>2, <1>3, <1>4 DEF WaiterStep

LEMMA FinishKeepsHandle ==
  ASSUME TypeOK, HandleKept, JoinedWorker, Finish
  PROVE  HandleKept' /\ JoinedWorker'
<1>1. UNCHANGED <<handle, joining>> /\ (alive' => alive)
  BY DEF Finish, SignalCompletion, DrainPending, DrainedPending, WorkerExits, handleVars,
         workerVars
<1>2. wait' = wait \/ \E W : wait' = Woken(W)
  BY DEF Finish, SignalCompletion, DrainPending, DrainedPending, WorkerExits
<1>3. \A w \in Closers : wait'[w] = "returned" => wait[w] = "returned"
  BY <1>2, TransportAssumption DEF Woken, Waiters
<1> QED BY <1>1, <1>3 DEF HandleKept, JoinedWorker

LEMMA StepKeepsHandle ==
  ASSUME TypeOK, HandleKept, JoinedWorker, [Next]_vars
  PROVE  HandleKept' /\ JoinedWorker'
<1>1. CASE UNCHANGED <<handle, joining, alive, wait>>
  BY <1>1 DEF HandleKept, JoinedWorker
<1>2. ASSUME NEW c \in Calls, CallStep(c) PROVE UNCHANGED <<handle, joining, alive, wait>>
  BY <1>2 DEF CallStep, CheckClosed, ReserveSlot, QueueFull, SendReserved, handleVars, workerVars
<1>3. Receive => UNCHANGED <<handle, joining, alive, wait>>
  BY DEF Receive, ReceiveCapture, ReceiveHistorical, ReceiveControl, WakeTimeout,
         WakeDisconnected, handleVars
<1>4. Drain => UNCHANGED <<handle, joining, alive, wait>>
  BY DEF Drain, DrainDone, SendBufferChunk, DropBuffer, SendHistoricalChunk, DropHistorical,
         FlushRetries, AttemptDue, TakeRetries, AttemptRetry, KeepRetry, DropRetry,
         ServiceBuffer, ServiceHistorical, ServiceTimer, handleVars, workerVars
<1>5. Respond => UNCHANGED <<handle, joining, alive, wait>>
  BY DEF Respond, AttemptFails, AttemptSucceeds, Answered, handleVars, workerVars
<1>6. TimeStep \/ DropHandle => UNCHANGED <<handle, joining, alive, wait>>
  BY DEF TimeStep, BufferElapses, HistoricalElapses, DeadlineElapses, RetryElapses, DropHandle,
         handleVars, workerVars
<1>7. UNCHANGED vars => UNCHANGED <<handle, joining, alive, wait>>
  BY DEF vars, handleVars, workerVars
<1> QED BY <1>1, <1>2, <1>3, <1>4, <1>5, <1>6, <1>7, WaiterKeepsHandle, FinishKeepsHandle
        DEF Next, WorkerStep, Quiet

\* For any number of shutdown and Drop calls that race, with callers cancelled in between,
\* none of them returns before the worker thread has exited: the losers of begin_close wait
\* on the worker mutex that the joining caller holds.
THEOREM ShutdownsJoin == Spec => []JoinedWorker
<1>1. Init => HandleKept /\ JoinedWorker
  BY DEF Init, HandleKept, JoinedWorker, Waiters
<1>2. TypeOK /\ HandleKept /\ JoinedWorker /\ [Next]_vars => HandleKept' /\ JoinedWorker'
  BY StepKeepsHandle
<1> QED BY <1>1, <1>2, TypeCorrect, PTL DEF Spec
-----------------------------------------------------------------------------
(***************************************************************************)
(* Data.  The stores are sequences of sets of events, or are read as such. *)
(***************************************************************************)
\* No event stands twice in a sequence.
OneToOne(s) == \A i, j \in DOMAIN s : s[i] = s[j] => i = j
\* The sets of a sequence have nothing in common.
Apart(s) == \A i, j \in DOMAIN s : i # j => s[i] \intersect s[j] = {}
\* What each message of a channel carries.
Carried(ch) == [i \in DOMAIN ch |-> IF ch[i] \in CaptureMessage THEN Elements(ch[i].events) ELSE {}]
\* The pending events, batch by batch.
Pendings(s) == [i \in DOMAIN s |-> s[i].pending]
\* The events finalized by verdicts, batch by batch.
Undelivereds(s) == [i \in DOMAIN s |-> s[i].undelivered]
\* The events of a sequence of sets.
All(s) == UNION Elements(s)

\* What the sets of a sequence hold.
LEMMA AllOfSets ==
  ASSUME NEW s \in Seq(SUBSET Events)
  PROVE  /\ All(s) \in SUBSET Events
         /\ \A e : e \in All(s) <=> \E i \in 1..Len(s) : e \in s[i]
  BY DEF All, Elements

\* The empty sequence.
LEMMA NoSets == All(<<>>) = {} /\ Apart(<<>>) /\ OneToOne(<<>>) /\ Elements(<<>>) = {}
  BY DEF All, Elements, Apart, OneToOne

\* The first set of a sequence, and the rest.
LEMMA FirstOfSets ==
  ASSUME NEW s \in Seq(SUBSET Events), s # <<>>
  PROVE  /\ Head(s) \in SUBSET Events /\ Tail(s) \in Seq(SUBSET Events)
         /\ All(s) = Head(s) \union All(Tail(s))
         /\ Apart(s) => Apart(Tail(s)) /\ Head(s) \intersect All(Tail(s)) = {}
<1>1. /\ Head(s) \in SUBSET Events /\ Tail(s) \in Seq(SUBSET Events) /\ Len(Tail(s)) = Len(s) - 1
      /\ \A i \in 1..Len(Tail(s)) : Tail(s)[i] = s[i + 1]
      /\ Head(s) = s[1] /\ Len(s) \in Nat \ {0}
  BY HeadTailProperties, EmptySeq
<1>2. \A e : e \in All(s) <=> e \in Head(s) \/ e \in All(Tail(s))
  <2>1. \A e : e \in All(s) <=> \E i \in 1..Len(s) : e \in s[i]
    BY AllOfSets
  <2>2. \A e : e \in All(Tail(s)) <=> \E i \in 1..(Len(s) - 1) : e \in s[i + 1]
    BY <1>1, AllOfSets
  <2>3. \A i \in 1..Len(s) : i = 1 \/ (i - 1 \in 1..(Len(s) - 1) /\ s[i] = s[(i - 1) + 1])
    BY <1>1
  <2>4. 1 \in 1..Len(s) /\ \A i \in 1..(Len(s) - 1) : i + 1 \in 1..Len(s)
    BY <1>1
  <2> SUFFICES ASSUME NEW e PROVE e \in All(s) <=> e \in Head(s) \/ e \in All(Tail(s))
    OBVIOUS
  <2>5. ASSUME NEW i \in 1..Len(s), e \in s[i] PROVE e \in Head(s) \/ e \in All(Tail(s))
    BY <1>1, <2>2, <2>3, <2>5
  <2>6. e \in Head(s) => e \in All(s)
    BY <1>1, <2>1, <2>4
  <2>7. e \in All(Tail(s)) => e \in All(s)
    BY <2>1, <2>2, <2>4
  <2> QED BY <2>1, <2>5, <2>6, <2>7
<1>3. ASSUME Apart(s) PROVE Apart(Tail(s)) /\ Head(s) \intersect All(Tail(s)) = {}
  <2>1. \A i, j \in 1..Len(s) : i # j => s[i] \intersect s[j] = {}
    BY <1>3 DEF Apart
  <2>2. Apart(Tail(s))
    BY <1>1, <2>1 DEF Apart
  <2>3. \A e : e \in All(Tail(s)) => \E i \in 1..(Len(s) - 1) : e \in s[i + 1]
    BY <1>1, AllOfSets
  <2> QED BY <1>1, <2>1, <2>2, <2>3
<1> QED BY <1>1, <1>2, <1>3

\* One more set at the end.
LEMMA OneMoreSet ==
  ASSUME NEW s \in Seq(SUBSET Events), NEW T \in SUBSET Events
  PROVE  /\ Append(s, T) \in Seq(SUBSET Events)
         /\ All(Append(s, T)) = All(s) \union T
         /\ Apart(s) /\ T \intersect All(s) = {} => Apart(Append(s, T))
<1>1. /\ Append(s, T) \in Seq(SUBSET Events) /\ Len(Append(s, T)) = Len(s) + 1
      /\ \A i \in 1..Len(s) : Append(s, T)[i] = s[i]
      /\ Append(s, T)[Len(s) + 1] = T /\ Len(s) \in Nat
  BY AppendProperties
<1>2. \A e : e \in All(s) <=> \E i \in 1..Len(s) : e \in s[i]
  BY AllOfSets
<1>3. \A e : e \in All(Append(s, T)) <=> \E i \in 1..(Len(s) + 1) : e \in Append(s, T)[i]
  BY <1>1, AllOfSets
<1>4. \A i : i \in 1..(Len(s) + 1) <=> i \in 1..Len(s) \/ i = Len(s) + 1
  BY <1>1
<1>5. \A e : e \in All(Append(s, T)) <=> e \in All(s) \/ e \in T
  BY <1>1, <1>2, <1>3, <1>4, Zenon
<1>6. ASSUME Apart(s), T \intersect All(s) = {} PROVE Apart(Append(s, T))
  <2>1. \A i, j \in 1..Len(s) : i # j => s[i] \intersect s[j] = {}
    BY <1>6 DEF Apart
  <2>2. \A i \in 1..Len(s) : s[i] \intersect T = {}
    BY <1>2, <1>6
  <2>3. DOMAIN Append(s, T) = 1..(Len(s) + 1)
    BY <1>1
  <2> QED BY <1>1, <1>4, <2>1, <2>2, <2>3 DEF Apart
<1> QED BY <1>1, <1>5, <1>6

\* Two sequences of sets in a row.
LEMMA JoinedSets ==
  ASSUME NEW s \in Seq(SUBSET Events), NEW t \in Seq(SUBSET Events)
  PROVE  /\ s \o t \in Seq(SUBSET Events)
         /\ All(s \o t) = All(s) \union All(t)
         /\ Apart(s) /\ Apart(t) /\ All(s) \intersect All(t) = {} => Apart(s \o t)
<1>1. /\ s \o t \in Seq(SUBSET Events) /\ Len(s \o t) = Len(s) + Len(t)
      /\ Len(s) \in Nat /\ Len(t) \in Nat
      /\ \A i \in 1..Len(s) : (s \o t)[i] = s[i]
      /\ \A i \in 1..Len(t) : (s \o t)[Len(s) + i] = t[i]
  BY ConcatProperties
<1>2. \A i : i \in 1..(Len(s) + Len(t)) <=>
               i \in 1..Len(s) \/ \E j \in 1..Len(t) : i = Len(s) + j
  <2> SUFFICES ASSUME NEW i \in 1..(Len(s) + Len(t)), i \notin 1..Len(s)
               PROVE  \E j \in 1..Len(t) : i = Len(s) + j
    BY <1>1
  <2>1. i - Len(s) \in 1..Len(t) /\ i = Len(s) + (i - Len(s))
    BY <1>1
  <2> QED BY <2>1
<1>3. /\ \A e : e \in All(s) <=> \E i \in 1..Len(s) : e \in s[i]
      /\ \A e : e \in All(t) <=> \E i \in 1..Len(t) : e \in t[i]
  BY AllOfSets
<1>4. \A e : e \in All(s \o t) <=> \E i \in 1..(Len(s) + Len(t)) : e \in (s \o t)[i]
  BY <1>1, AllOfSets
<1>5. \A e : e \in All(s \o t) <=> e \in All(s) \/ e \in All(t)
  <2> SUFFICES ASSUME NEW e PROVE e \in All(s \o t) <=> e \in All(s) \/ e \in All(t)
    OBVIOUS
  <2>1. e \in All(s \o t) => e \in All(s) \/ e \in All(t)
    BY <1>1, <1>2, <1>3, <1>4
  <2>2. e \in All(s) => e \in All(s \o t)
    BY <1>1, <1>2, <1>3, <1>4
  <2>3. e \in All(t) => e \in All(s \o t)
    <3>1. SUFFICES ASSUME NEW j \in 1..Len(t), e \in t[j] PROVE e \in All(s \o t)
      BY <1>3
    <3>2. Len(s) + j \in 1..(Len(s) + Len(t))
      BY <1>1
    <3> QED BY <1>1, <1>4, <3>1, <3>2
  <2> QED BY <2>1, <2>2, <2>3
<1>6. ASSUME Apart(s), Apart(t), All(s) \intersect All(t) = {} PROVE Apart(s \o t)
  <2>1. /\ \A i, j \in 1..Len(s) : i # j => s[i] \intersect s[j] = {}
        /\ \A i, j \in 1..Len(t) : i # j => t[i] \intersect t[j] = {}
    BY <1>6 DEF Apart
  <2>2. \A i \in 1..Len(s), j \in 1..Len(t) : s[i] \intersect t[j] = {}
    BY <1>3, <1>6
  <2>3. DOMAIN (s \o t) = 1..(Len(s) + Len(t))
    BY <1>1
  <2> SUFFICES ASSUME NEW i \in 1..(Len(s) + Len(t)), NEW j \in 1..(Len(s) + Len(t)), i # j
               PROVE  (s \o t)[i] \intersect (s \o t)[j] = {}
    BY <2>3 DEF Apart
  <2>4. CASE i \in 1..Len(s) /\ j \in 1..Len(s)
    BY <1>1, <2>1, <2>4
  <2>5. ASSUME i \in 1..Len(s), NEW k \in 1..Len(t), j = Len(s) + k
        PROVE (s \o t)[i] \intersect (s \o t)[j] = {}
    BY <1>1, <2>2, <2>5
  <2>6. ASSUME j \in 1..Len(s), NEW k \in 1..Len(t), i = Len(s) + k
        PROVE (s \o t)[i] \intersect (s \o t)[j] = {}
    BY <1>1, <2>2, <2>6
  <2>7. ASSUME NEW k \in 1..Len(t), NEW l \in 1..Len(t), i = Len(s) + k, j = Len(s) + l
        PROVE (s \o t)[i] \intersect (s \o t)[j] = {}
    <3>1. k # l BY <2>7
    <3> QED BY <1>1, <2>1, <2>7, <3>1
  <2> QED BY <1>2, <2>4, <2>5, <2>6, <2>7
<1> QED BY <1>1, <1>5, <1>6

\* A sequence of batches, read as sequences of sets of events.
LEMMA BatchSets ==
  ASSUME NEW s \in Seq(Batch)
  PROVE  /\ Pendings(s) \in Seq(SUBSET Events) /\ Undelivereds(s) \in Seq(SUBSET Events)
         /\ s # <<>> => /\ Pendings(s) # <<>> /\ Undelivereds(s) # <<>>
                        /\ Head(Pendings(s)) = Head(s).pending
                        /\ Tail(Pendings(s)) = Pendings(Tail(s))
                        /\ Head(Undelivereds(s)) = Head(s).undelivered
                        /\ Tail(Undelivereds(s)) = Undelivereds(Tail(s))
         /\ \A b \in Batch : /\ Pendings(Append(s, b)) = Append(Pendings(s), b.pending)
                             /\ Undelivereds(Append(s, b)) = Append(Undelivereds(s), b.undelivered)
<1>1. /\ Len(s) \in Nat /\ DOMAIN s = 1..Len(s)
      /\ \A i \in 1..Len(s) : /\ s[i] \in Batch
                              /\ s[i].pending \in SUBSET Events
                              /\ s[i].undelivered \in SUBSET Events
  <2>1. Len(s) \in Nat /\ DOMAIN s = 1..Len(s) /\ \A i \in 1..Len(s) : s[i] \in Batch
    BY LenProperties, ElementOfSeq
  <2> QED BY <2>1 DEF Batch
<1>2. Pendings(s) \in Seq(SUBSET Events) /\ Undelivereds(s) \in Seq(SUBSET Events)
  BY <1>1, IsASeq DEF Pendings, Undelivereds
<1>3. ASSUME s # <<>>
      PROVE  /\ Pendings(s) # <<>> /\ Undelivereds(s) # <<>>
             /\ Head(Pendings(s)) = Head(s).pending
             /\ Tail(Pendings(s)) = Pendings(Tail(s))
             /\ Head(Undelivereds(s)) = Head(s).undelivered
             /\ Tail(Undelivereds(s)) = Undelivereds(Tail(s))
  <2>1. Len(s) # 0
    BY <1>3, EmptySeq
  <2>2. Len(Pendings(s)) = Len(s) /\ Len(Undelivereds(s)) = Len(s)
    BY <1>1 DEF Pendings, Undelivereds
  <2>3. Pendings(s) # <<>> /\ Undelivereds(s) # <<>>
    BY <2>1, <2>2
  <2>4. /\ Tail(s) \in Seq(Batch) /\ Len(Tail(s)) = Len(s) - 1
        /\ \A i \in 1..Len(Tail(s)) : Tail(s)[i] = s[i + 1]
        /\ DOMAIN Tail(s) = 1..(Len(s) - 1)
    BY <1>3, HeadTailProperties
  <2>5. Head(Pendings(s)) = Head(s).pending /\ Head(Undelivereds(s)) = Head(s).undelivered
    BY <1>1, <2>1 DEF Pendings, Undelivereds
  <2>6. Tail(Pendings(s)) = Pendings(Tail(s))
    <3>1. /\ Tail(Pendings(s)) \in Seq(SUBSET Events) /\ Len(Tail(Pendings(s))) = Len(s) - 1
          /\ \A i \in 1..(Len(s) - 1) : Tail(Pendings(s))[i] = Pendings(s)[i + 1]
      BY <1>2, <2>2, <2>3, HeadTailProperties
    <3>2. \A i \in 1..(Len(s) - 1) : Pendings(s)[i + 1] = s[i + 1].pending
      BY <1>1 DEF Pendings
    <3>3. /\ Pendings(Tail(s)) = [i \in 1..(Len(s) - 1) |-> Tail(s)[i].pending]
          /\ \A i \in 1..(Len(s) - 1) : Pendings(Tail(s))[i] = s[i + 1].pending
      BY <2>4 DEF Pendings
    <3>4. Pendings(Tail(s)) \in Seq(SUBSET Events) /\ Len(Pendings(Tail(s))) = Len(s) - 1
      <4>1. \A i \in 1..(Len(s) - 1) : Tail(s)[i].pending \in SUBSET Events
        BY <1>1, <2>4
      <4>2. Len(s) - 1 \in Nat
        BY <1>1, <2>1
      <4> QED BY <3>3, <4>1, <4>2, IsASeq
    <3>5. \A i \in 1..(Len(s) - 1) : Tail(Pendings(s))[i] = Pendings(Tail(s))[i]
      BY <3>1, <3>2, <3>3
    <3> QED BY <3>1, <3>4, <3>5, SeqEqual
  <2>7. Tail(Undelivereds(s)) = Undelivereds(Tail(s))
    <3>1. /\ Tail(Undelivereds(s)) \in Seq(SUBSET Events) /\ Len(Tail(Undelivereds(s))) = Len(s) - 1
          /\ \A i \in 1..(Len(s) - 1) : Tail(Undelivereds(s))[i] = Undelivereds(s)[i + 1]
      BY <1>2, <2>2, <2>3, HeadTailProperties
    <3>2. \A i \in 1..(Len(s) - 1) : Undelivereds(s)[i + 1] = s[i + 1].undelivered
      BY <1>1 DEF Undelivereds
    <3>3. /\ Undelivereds(Tail(s)) = [i \in 1..(Len(s) - 1) |-> Tail(s)[i].undelivered]
          /\ \A i \in 1..(Len(s) - 1) : Undelivereds(Tail(s))[i] = s[i + 1].undelivered
      BY <2>4 DEF Undelivereds
    <3>4. Undelivereds(Tail(s)) \in Seq(SUBSET Events) /\ Len(Undelivereds(Tail(s))) = Len(s) - 1
      <4>1. \A i \in 1..(Len(s) - 1) : Tail(s)[i].undelivered \in SUBSET Events
        BY <1>1, <2>4
      <4>2. Len(s) - 1 \in Nat
        BY <1>1, <2>1
      <4> QED BY <3>3, <4>1, <4>2, IsASeq
    <3>5. \A i \in 1..(Len(s) - 1) : Tail(Undelivereds(s))[i] = Undelivereds(Tail(s))[i]
      BY <3>1, <3>2, <3>3
    <3> QED BY <3>1, <3>4, <3>5, SeqEqual
  <2> QED BY <2>3, <2>5, <2>6, <2>7
<1>4. ASSUME NEW b \in Batch
      PROVE  /\ Pendings(Append(s, b)) = Append(Pendings(s), b.pending)
             /\ Undelivereds(Append(s, b)) = Append(Undelivereds(s), b.undelivered)
  <2>1. /\ DOMAIN Append(s, b) = 1..(Len(s) + 1)
        /\ \A i \in 1..Len(s) : Append(s, b)[i] = s[i]
        /\ Append(s, b)[Len(s) + 1] = b
    BY <1>1, AppendProperties
  <2>2. Len(Pendings(s)) = Len(s) /\ Len(Undelivereds(s)) = Len(s)
    BY <1>1 DEF Pendings, Undelivereds
  <2>3. Pendings(Append(s, b)) = Append(Pendings(s), b.pending)
    BY <1>1, <2>1, <2>2 DEF Pendings
  <2>4. Undelivereds(Append(s, b)) = Append(Undelivereds(s), b.undelivered)
    BY <1>1, <2>1, <2>2 DEF Undelivereds
  <2> QED BY <2>3, <2>4
<1> QED BY <1>2, <1>3, <1>4

\* Taking the first batch.
LEMMA TakenBatch ==
  ASSUME NEW s \in Seq(Batch), s # <<>>
  PROVE  /\ All(Pendings(s)) = Head(s).pending \union All(Pendings(Tail(s)))
         /\ All(Undelivereds(s)) = Head(s).undelivered \union All(Undelivereds(Tail(s)))
         /\ Apart(Pendings(s)) => /\ Apart(Pendings(Tail(s)))
                                  /\ Head(s).pending \intersect All(Pendings(Tail(s))) = {}
         /\ Apart(Undelivereds(s)) =>
              /\ Apart(Undelivereds(Tail(s)))
              /\ Head(s).undelivered \intersect All(Undelivereds(Tail(s))) = {}
<1> DEFINE p == Pendings(s)
           u == Undelivereds(s)
<1>1. /\ p \in Seq(SUBSET Events) /\ p # <<>> /\ u \in Seq(SUBSET Events) /\ u # <<>>
      /\ Head(p) = Head(s).pending /\ Tail(p) = Pendings(Tail(s))
      /\ Head(u) = Head(s).undelivered /\ Tail(u) = Undelivereds(Tail(s))
  BY BatchSets
<1> HIDE DEF p, u
<1>2. /\ All(p) = Head(p) \union All(Tail(p))
      /\ Apart(p) => Apart(Tail(p)) /\ Head(p) \intersect All(Tail(p)) = {}
  BY <1>1, FirstOfSets
<1>3. /\ All(u) = Head(u) \union All(Tail(u))
      /\ Apart(u) => Apart(Tail(u)) /\ Head(u) \intersect All(Tail(u)) = {}
  BY <1>1, FirstOfSets
<1> QED BY <1>1, <1>2, <1>3 DEF p, u

\* Putting a batch at the end.
LEMMA PushedBatch ==
  ASSUME NEW s \in Seq(Batch), NEW b \in Batch
  PROVE  /\ All(Pendings(Append(s, b))) = All(Pendings(s)) \union b.pending
         /\ All(Undelivereds(Append(s, b))) = All(Undelivereds(s)) \union b.undelivered
         /\ Apart(Pendings(s)) /\ b.pending \intersect All(Pendings(s)) = {} =>
              Apart(Pendings(Append(s, b)))
         /\ Apart(Undelivereds(s)) /\ b.undelivered \intersect All(Undelivereds(s)) = {} =>
              Apart(Undelivereds(Append(s, b)))
<1> DEFINE p == Pendings(s)
           u == Undelivereds(s)
<1>1. b.pending \in SUBSET Events /\ b.undelivered \in SUBSET Events
  BY DEF Batch
<1>2. /\ p \in Seq(SUBSET Events) /\ u \in Seq(SUBSET Events)
      /\ Pendings(Append(s, b)) = Append(p, b.pending)
      /\ Undelivereds(Append(s, b)) = Append(u, b.undelivered)
  BY BatchSets
<1> HIDE DEF p, u
<1>3. \A T \in SUBSET Events :
        /\ All(Append(p, T)) = All(p) \union T
        /\ Apart(p) /\ T \intersect All(p) = {} => Apart(Append(p, T))
  BY <1>2, OneMoreSet
<1>4. \A T \in SUBSET Events :
        /\ All(Append(u, T)) = All(u) \union T
        /\ Apart(u) /\ T \intersect All(u) = {} => Apart(Append(u, T))
  BY <1>2, OneMoreSet
<1> QED BY <1>1, <1>2, <1>3, <1>4 DEF p, u

\* No batch.
LEMMA NoBatches ==
  /\ All(Pendings(<<>>)) = {} /\ All(Undelivereds(<<>>)) = {}
  /\ Apart(Pendings(<<>>)) /\ Apart(Undelivereds(<<>>))
  BY DEF Pendings, Undelivereds, All, Elements, Apart

\* A sequence of one batch.
LEMMA LoneBatch ==
  ASSUME NEW b \in Batch
  PROVE  All(Pendings(<<b>>)) = b.pending /\ All(Undelivereds(<<b>>)) = b.undelivered
<1>1. <<b>> = Append(<<>>, b) /\ <<>> \in Seq(Batch)
  OBVIOUS
<1>2. /\ All(Pendings(Append(<<>>, b))) = All(Pendings(<<>>)) \union b.pending
      /\ All(Undelivereds(Append(<<>>, b))) = All(Undelivereds(<<>>)) \union b.undelivered
  BY <1>1, PushedBatch
<1> QED BY <1>1, <1>2, NoBatches

\* What a message carries.
Load(m) == IF m \in CaptureMessage THEN Elements(m.events) ELSE {}

\* A message carries events.
LEMMA LoadType == \A m \in Control : Load(m) \in SUBSET Events
  BY ElementsType DEF Load, CaptureMessage

\* The channel, read as a sequence of sets of events.
LEMMA MessageSets ==
  ASSUME NEW ch \in Seq(Control)
  PROVE  /\ Carried(ch) \in Seq(SUBSET Events)
         /\ ch # <<>> => /\ Carried(ch) # <<>>
                         /\ Head(Carried(ch)) = Load(Head(ch))
                         /\ Tail(Carried(ch)) = Carried(Tail(ch))
         /\ \A m \in Control : Carried(Append(ch, m)) = Append(Carried(ch), Load(m))
<1>1. /\ Len(ch) \in Nat /\ DOMAIN ch = 1..Len(ch)
      /\ \A i \in 1..Len(ch) : ch[i] \in Control /\ Load(ch[i]) \in SUBSET Events
  BY LoadType
<1>2. Carried(ch) = [i \in 1..Len(ch) |-> Load(ch[i])]
  BY <1>1 DEF Carried, Load
<1>3. Carried(ch) \in Seq(SUBSET Events)
  BY <1>1, <1>2, IsASeq
<1>4. ASSUME ch # <<>>
      PROVE  /\ Carried(ch) # <<>>
             /\ Head(Carried(ch)) = Load(Head(ch))
             /\ Tail(Carried(ch)) = Carried(Tail(ch))
  <2>1. Len(ch) # 0 /\ Len(Carried(ch)) = Len(ch)
    BY <1>1, <1>2, <1>4, EmptySeq
  <2>2. Carried(ch) # <<>>
    BY <2>1
  <2>3. Head(Carried(ch)) = Load(Head(ch))
    BY <1>1, <1>2, <2>1
  <2>4. /\ DOMAIN Tail(ch) = 1..(Len(ch) - 1)
        /\ \A i \in 1..(Len(ch) - 1) : Tail(ch)[i] = ch[i + 1]
    BY <1>4, HeadTailProperties
  <2>5. Tail(Carried(ch)) = Carried(Tail(ch))
    <3>1. /\ Tail(Carried(ch)) \in Seq(SUBSET Events) /\ Len(Tail(Carried(ch))) = Len(ch) - 1
          /\ \A i \in 1..(Len(ch) - 1) : Tail(Carried(ch))[i] = Carried(ch)[i + 1]
      BY <1>3, <2>1, <2>2, HeadTailProperties
    <3>2. \A i \in 1..(Len(ch) - 1) : Carried(ch)[i + 1] = Load(ch[i + 1])
      BY <1>1, <1>2
    <3>3. /\ Carried(Tail(ch)) = [i \in 1..(Len(ch) - 1) |-> Load(Tail(ch)[i])]
          /\ \A i \in 1..(Len(ch) - 1) : Carried(Tail(ch))[i] = Load(ch[i + 1])
      BY <2>4 DEF Carried, Load
    <3>4. Carried(Tail(ch)) \in Seq(SUBSET Events) /\ Len(Carried(Tail(ch))) = Len(ch) - 1
      <4>1. \A i \in 1..(Len(ch) - 1) : Load(Tail(ch)[i]) \in SUBSET Events
        BY <1>1, <2>4
      <4>2. Len(ch) - 1 \in Nat
        BY <1>1, <2>1
      <4> QED BY <3>3, <4>1, <4>2, IsASeq
    <3>5. \A i \in 1..(Len(ch) - 1) : Tail(Carried(ch))[i] = Carried(Tail(ch))[i]
      BY <3>1, <3>2, <3>3
    <3> QED BY <3>1, <3>4, <3>5, SeqEqual
  <2> QED BY <2>2, <2>3, <2>5
<1>5. ASSUME NEW m \in Control
      PROVE  Carried(Append(ch, m)) = Append(Carried(ch), Load(m))
  <2>1. /\ DOMAIN Append(ch, m) = 1..(Len(ch) + 1)
        /\ \A i \in 1..Len(ch) : Append(ch, m)[i] = ch[i]
        /\ Append(ch, m)[Len(ch) + 1] = m
    BY <1>1, AppendProperties
  <2>2. Len(Carried(ch)) = Len(ch)
    BY <1>1, <1>2
  <2>3. Carried(Append(ch, m)) = [i \in 1..(Len(ch) + 1) |-> Load(Append(ch, m)[i])]
    BY <2>1 DEF Carried, Load
  <2> QED BY <1>1, <1>2, <2>1, <2>2, <2>3
<1> QED BY <1>3, <1>4, <1>5

\* Receiving a message.
LEMMA TakenMessage ==
  ASSUME NEW ch \in Seq(Control), ch # <<>>
  PROVE  /\ Tail(ch) \in Seq(Control) /\ Head(ch) \in Control
         /\ All(Carried(ch)) = Load(Head(ch)) \union All(Carried(Tail(ch)))
         /\ Apart(Carried(ch)) => /\ Apart(Carried(Tail(ch)))
                                  /\ Load(Head(ch)) \intersect All(Carried(Tail(ch))) = {}
<1> DEFINE l == Carried(ch)
<1>1. /\ l \in Seq(SUBSET Events) /\ l # <<>>
      /\ Head(l) = Load(Head(ch)) /\ Tail(l) = Carried(Tail(ch))
  BY MessageSets
<1> HIDE DEF l
<1>2. /\ All(l) = Head(l) \union All(Tail(l))
      /\ Apart(l) => Apart(Tail(l)) /\ Head(l) \intersect All(Tail(l)) = {}
  BY <1>1, FirstOfSets
<1> QED BY <1>1, <1>2, HeadTailProperties DEF l

\* Sending a message.
LEMMA SentMessage ==
  ASSUME NEW ch \in Seq(Control), NEW m \in Control
  PROVE  /\ All(Carried(Append(ch, m))) = All(Carried(ch)) \union Load(m)
         /\ Apart(Carried(ch)) /\ Load(m) \intersect All(Carried(ch)) = {} =>
              Apart(Carried(Append(ch, m)))
<1> DEFINE l == Carried(ch)
<1>1. /\ Load(m) \in SUBSET Events /\ l \in Seq(SUBSET Events)
      /\ Carried(Append(ch, m)) = Append(l, Load(m))
  BY LoadType, MessageSets
<1> HIDE DEF l
<1>2. /\ All(Append(l, Load(m))) = All(l) \union Load(m)
      /\ Apart(l) /\ Load(m) \intersect All(l) = {} => Apart(Append(l, Load(m)))
  BY <1>1, OneMoreSet
<1> QED BY <1>1, <1>2 DEF l
-----------------------------------------------------------------------------
(***************************************************************************)
(* The ledger.  What a change of statuses is to the abstract specification.*)
(***************************************************************************)
\* What the ledger sees of a status.
LEMMA Fates ==
  /\ FateOf("new") = "new" /\ FateOf("refused") = "refused" /\ FateOf("lost") = "lost"
  /\ FateOf("delivered") = "delivered"
  /\ \A s \in Held : FateOf(s) = "pending"
  /\ \A s \in {"condemned", "filtered", "rejected", "omitted", "abandoned", "unreported"} :
       FateOf(s) = "undelivered"
  BY DEF FateOf, Held

\* Every status has a fate.
LEMMA FateType == \A s \in Status : FateOf(s) \in Ledger!Fate
<1>1. Status = {"new", "refused", "lost", "delivered"} \union Held
               \union {"condemned", "filtered", "rejected", "omitted", "abandoned", "unreported"}
  BY DEF Status, Settled
<1> QED BY <1>1, Fates DEF Ledger!Fate, Ledger!Outcome

\* The fate of an event.
LEMMA FateChanges ==
  ASSUME LedgerTyped, LedgerTyped'
  PROVE  /\ [e \in Events |-> FateOf(status[e])]' \in [Events -> Ledger!Fate]
         /\ Ledger!Changed = {e \in Events : FateOf(status'[e]) # FateOf(status[e])}
         /\ \A from, to : Ledger!Become(from, to) <=>
              \A e \in Ledger!Changed : FateOf(status[e]) = from /\ FateOf(status'[e]) \in to
<1>1. [e \in Events |-> FateOf(status[e])]' \in [Events -> Ledger!Fate]
  BY FateType DEF LedgerTyped
<1>2. Ledger!Changed = {e \in Events : FateOf(status'[e]) # FateOf(status[e])}
  BY DEF Ledger!Changed
<1> QED BY <1>1, <1>2 DEF Ledger!Become

\* The ledger counts as the transport does.
LEMMA SameSize == \A S : Ledger!Cardinality(S) = Cardinality(S)
  BY DEF Cardinality, Ledger!Cardinality

\* A settled or a condemned event: its slot is free.
Ends == {"delivered", "condemned", "filtered", "rejected", "omitted", "abandoned", "unreported"}

\* To the ledger, they are outcomes.
LEMMA EndFates == \A s \in Ends : FateOf(s) \in Ledger!Outcome
  BY Fates DEF Ends, Ledger!Outcome

\* Steps of the ledger: events are refused,
LEMMA RefuseStep ==
  ASSUME LedgerTyped, LedgerTyped', NEW S \in SUBSET With("new"), status' = Move(S, "refused"),
         UNCHANGED <<len, alive>>
  PROVE  Ledger!Refuse
<1>1. \A e \in Events : status'[e] = IF e \in S THEN "refused" ELSE status[e]
  BY DEF Move, Mark
<1>2. Ledger!Become("new", {"refused"})
  BY <1>1, FateChanges, Fates DEF With
<1> QED BY <1>2 DEF Ledger!Refuse

\* an event is admitted,
LEMMA AdmitStep ==
  ASSUME LedgerTyped, LedgerTyped', NEW e \in With("new"), status' = Move({e}, "reserved"),
         len < MaxQueueSize, len' = len + 1, UNCHANGED alive
  PROVE  Ledger!Admit
<1>1. \A d \in Events : status'[d] = IF d = e THEN "reserved" ELSE status[d]
  BY DEF Move, Mark
<1>2. e \in Events /\ status[e] = "new" /\ FateOf("reserved") = "pending"
  BY Fates DEF With, Held
<1>3. Ledger!Changed = {e}
  <2>1. \A d \in Events : FateOf(status'[d]) # FateOf(status[d]) <=> d = e
    BY <1>1, <1>2, Fates
  <2>2. Ledger!Changed = {d \in Events : FateOf(status'[d]) # FateOf(status[d])}
    BY FateChanges
  <2> QED BY <1>2, <2>1, <2>2
<1>4. Ledger!Become("new", {"pending"})
  BY <1>1, <1>2, <1>3, FateChanges, Fates
<1>5. Ledger!Cardinality(Ledger!Changed) = 1
  BY <1>3, SameSize, FS_Singleton
<1> QED BY <1>4, <1>5 DEF Ledger!Admit

\* the events of a failed send are withdrawn,
LEMMA WithdrawStep ==
  ASSUME LedgerTyped, LedgerTyped', NEW S \in SUBSET With("reserved"),
         status' = Move(S, "refused"), ~alive, UNCHANGED alive, len' = len - Cardinality(S)
  PROVE  Ledger!Withdraw
<1>1. \A e \in Events : status'[e] = IF e \in S THEN "refused" ELSE status[e]
  BY DEF Move, Mark
<1>2. \A e \in S : e \in Events /\ FateOf(status[e]) = "pending"
  BY Fates DEF With, Held
<1>3. Ledger!Changed = S
  BY <1>1, <1>2, FateChanges, Fates
<1>4. Ledger!Become("pending", {"refused"})
  BY <1>1, <1>2, <1>3, FateChanges, Fates
<1> QED BY <1>3, <1>4, SameSize DEF Ledger!Withdraw

\* events are settled,
LEMMA SettleStep ==
  ASSUME LedgerTyped, LedgerTyped', NEW S \in SUBSET Events,
         \A e \in S : status[e] \in Held /\ status'[e] \in Ends,
         \A e \in Events \ S : FateOf(status'[e]) = FateOf(status[e]),
         alive, UNCHANGED alive, len' = len - Cardinality(S)
  PROVE  Ledger!Settle
<1>1. \A e \in S : FateOf(status[e]) = "pending" /\ FateOf(status'[e]) \in Ledger!Outcome
  BY Fates, EndFates
<1>2. "pending" \notin Ledger!Outcome
  BY DEF Ledger!Outcome
<1>3. Ledger!Changed = S
  <2>1. \A e \in Events : FateOf(status'[e]) # FateOf(status[e]) <=> e \in S
    BY <1>1, <1>2
  <2>2. Ledger!Changed = {e \in Events : FateOf(status'[e]) # FateOf(status[e])}
    BY FateChanges
  <2> QED BY <2>1, <2>2
<1>4. Ledger!Become("pending", Ledger!Outcome)
  BY <1>1, <1>3, FateChanges
<1> QED BY <1>3, <1>4, SameSize DEF Ledger!Settle

\* the worker stops and destroys what is in the channel,
LEMMA StopStep ==
  ASSUME LedgerTyped, LedgerTyped', NEW S \in SUBSET With("queued"), status' = Move(S, "lost"),
         alive, alive' = FALSE, UNCHANGED len
  PROVE  Ledger!Stop
<1>1. \A e \in Events : status'[e] = IF e \in S THEN "lost" ELSE status[e]
  BY DEF Move, Mark
<1>2. \A e \in S : e \in Events /\ FateOf(status[e]) = "pending"
  BY Fates DEF With, Held
<1>3. Ledger!Become("pending", {"lost"})
  BY <1>1, <1>2, FateChanges, Fates
<1> QED BY <1>3 DEF Ledger!Stop

\* or nothing changes that the ledger sees.
LEMMA LedgerStutter ==
  ASSUME \A e \in Events : FateOf(status'[e]) = FateOf(status[e]), UNCHANGED <<len, alive>>
  PROVE  UNCHANGED Ledger!vars
<1>1. [e \in Events |-> FateOf(status'[e])] = [e \in Events |-> FateOf(status[e])]
  OBVIOUS
<1> QED BY <1>1 DEF Ledger!vars

\* The events that hold a slot are those the ledger counts.
LEMMA SlotFates ==
  ASSUME LedgerTyped
  PROVE  SlotHolders = {e \in Events : FateOf(status[e]) \in {"pending", "lost"}}
<1>1. \A s \in Status : FateOf(s) \in {"pending", "lost"} <=> s \in Held \union {"lost"}
  BY Fates DEF Status, Settled
<1> QED BY <1>1 DEF SlotHolders, LedgerTyped

\* The part of a set of events that a set of events takes away.
LEMMA PartsOfEvents ==
  ASSUME NEW S \in SUBSET Events, NEW T \in SUBSET S
  PROVE  /\ Cardinality(S \ T) = Cardinality(S) - Cardinality(T)
         /\ Cardinality(T) <= Cardinality(S)
<1>1. IsFiniteSet(S) /\ IsFiniteSet(T) /\ IsFiniteSet(S \ T)
  BY CardinalityOfEvents
<1>2. T \intersect (S \ T) = {} /\ T \union (S \ T) = S
  OBVIOUS
<1>3. Cardinality(S) = Cardinality(T) + Cardinality(S \ T) - Cardinality(T \intersect (S \ T))
  BY <1>1, <1>2, FS_Union
<1>4. Cardinality(T \intersect (S \ T)) = 0
  BY <1>2, FS_EmptySet
<1> QED BY <1>1, <1>3, <1>4, FS_CardinalityType

\* A step of the ledger keeps the count of the slots exact.
LEMMA LedgerKeepsSlots ==
  ASSUME LedgerTyped, LedgerTyped', len \in Nat, SlotAccounting, [Ledger!Next]_(Ledger!vars)
  PROVE  SlotAccounting'
<1> DEFINE Slots == {e \in Events : FateOf(status[e]) \in {"pending", "lost"}}
           Later == {e \in Events : FateOf(status'[e]) \in {"pending", "lost"}}
<1>1. /\ SlotHolders = Slots /\ SlotHolders' = Later
      /\ Slots \in SUBSET Events /\ Later \in SUBSET Events
  <2>1. SlotHolders' = Later
    <3>1. \A s \in Status : FateOf(s) \in {"pending", "lost"} <=> s \in Held \union {"lost"}
      BY Fates DEF Status, Settled
    <3> QED BY <3>1 DEF SlotHolders, LedgerTyped
  <2> QED BY <2>1, SlotFates
<1>2. Ledger!Changed = {e \in Events : FateOf(status'[e]) # FateOf(status[e])}
  BY FateChanges
<1>3. CASE Ledger!Refuse
  <2>1. Later = Slots
    BY <1>2, <1>3, FateChanges DEF Ledger!Refuse
  <2> QED BY <1>1, <1>3, <2>1 DEF Ledger!Refuse, SlotAccounting
<1>4. CASE Ledger!Admit
  <2>1. Ledger!Changed \intersect Slots = {} /\ Later = Slots \union Ledger!Changed
    BY <1>2, <1>4, FateChanges DEF Ledger!Admit
  <2>2. Slots \in SUBSET Later /\ Ledger!Changed = Later \ Slots
    BY <2>1
  <2>3. Cardinality(Ledger!Changed) = 1 /\ len' = len + 1
    BY <1>4, SameSize DEF Ledger!Admit
  <2>4. Cardinality(Later \ Slots) = Cardinality(Later) - Cardinality(Slots)
    BY <1>1, <2>2, PartsOfEvents
  <2>5. Cardinality(Later) \in Nat /\ Cardinality(Slots) \in Nat
    BY <1>1, CardinalityOfEvents
  <2> HIDE DEF Slots, Later
  <2>6. Cardinality(Later) = Cardinality(Slots) + 1
    BY <2>2, <2>3, <2>4, <2>5
  <2> QED BY <1>1, <2>3, <2>6 DEF SlotAccounting
<1>5. CASE Ledger!Settle \/ Ledger!Withdraw
  <2>1. Ledger!Changed \in SUBSET Slots /\ Later = Slots \ Ledger!Changed
    <3>1. CASE Ledger!Settle
      BY <1>2, <3>1, FateChanges DEF Ledger!Settle, Ledger!Outcome
    <3>2. CASE Ledger!Withdraw
      BY <1>2, <3>2, FateChanges DEF Ledger!Withdraw
    <3> QED BY <1>5, <3>1, <3>2
  <2>2. len' = len - Cardinality(Ledger!Changed)
    BY <1>5, SameSize DEF Ledger!Settle, Ledger!Withdraw
  <2>3. Cardinality(Later) = Cardinality(Slots) - Cardinality(Ledger!Changed)
    BY <1>1, <2>1, PartsOfEvents
  <2> QED BY <1>1, <2>2, <2>3 DEF SlotAccounting
<1>6. CASE Ledger!Stop
  <2>1. Later = Slots
    BY <1>2, <1>6, FateChanges DEF Ledger!Stop
  <2> QED BY <1>1, <1>6, <2>1 DEF Ledger!Stop, SlotAccounting
<1>7. CASE UNCHANGED Ledger!vars
  <2>1. [e \in Events |-> FateOf(status'[e])] = [e \in Events |-> FateOf(status[e])] /\ len' = len
    BY <1>7 DEF Ledger!vars
  <2>2. \A e \in Events : FateOf(status'[e]) = FateOf(status[e])
    BY <2>1
  <2>3. Later = Slots
    BY <2>2
  <2> QED BY <1>1, <2>1, <2>3 DEF SlotAccounting
<1> QED BY <1>3, <1>4, <1>5, <1>6, <1>7 DEF Ledger!Next

\* Slots that are held can be given back.
LEMMA SlotsHeld ==
  ASSUME len \in Nat, SlotAccounting, NEW S \in SUBSET Events, \A e \in S : status[e] \in Held
  PROVE  Released(Cardinality(S)) = len - Cardinality(S)
<1>1. S \in SUBSET SlotHolders /\ SlotHolders \in SUBSET Events
  BY DEF SlotHolders
<1>2. Cardinality(S) <= len /\ Cardinality(S) \in Nat
  BY <1>1, PartsOfEvents, CardinalityOfEvents DEF SlotAccounting
<1> QED BY <1>2 DEF Released
-----------------------------------------------------------------------------
(***************************************************************************)
(* Placement.  Every event is in the one place its status names.           *)
(***************************************************************************)
\* A call has reserved its first events, and the rest is new.
CallsPlaced ==
  \A c \in Calls :
    /\ call[c] = "start" => fitted[c] = 0
    /\ call[c] = "sending" => fitted[c] # 0
    /\ \A i \in 1..Size[c] :
         /\ call[c] \in {"start", "reserving"} /\ i > fitted[c] => status[<<c, i>>] = "new"
         /\ call[c] \in {"reserving", "sending"} /\ i <= fitted[c] => status[<<c, i>>] = "reserved"

\* The queued events are those of the messages in the channel, each once.
ChannelPlaced ==
  /\ With("queued") = All(Carried(channel))
  /\ Apart(Carried(channel))
  /\ \A i \in DOMAIN channel : channel[i] \in CaptureMessage =>
       channel[i].events # <<>> /\ OneToOne(channel[i].events)

\* The buffered and the historical events are those of the two stores, each once.
StoresPlaced ==
  /\ With("buffered") = Elements(buffer) /\ OneToOne(buffer)
  /\ With("historical") = All(historical) /\ Apart(historical)

\* The pending events of batches are with the one attempt, the retries and the sweep.
BatchesPlaced ==
  /\ Len(inflight) <= 1
  /\ With("inflight") = All(Pendings(inflight))
  /\ With("retrying") = All(Pendings(retries)) /\ Apart(Pendings(retries))
  /\ With("sweeping") = All(Pendings(sweep)) /\ Apart(Pendings(sweep))

\* The condemned events go with the batch that will report them.
CondemnedPlaced ==
  /\ With("condemned") = All(Undelivereds(inflight)) \union All(Undelivereds(retries))
                           \union All(Undelivereds(sweep))
  /\ Apart(Undelivereds(retries)) /\ Apart(Undelivereds(sweep))
  /\ All(Undelivereds(inflight)) \intersect All(Undelivereds(retries)) = {}
  /\ All(Undelivereds(inflight)) \intersect All(Undelivereds(sweep)) = {}
  /\ All(Undelivereds(retries)) \intersect All(Undelivereds(sweep)) = {}

\* A sweep is under way only while it is the work at hand; a dead worker holds nothing.
WorkerPlaced ==
  /\ sweep # <<>> => todo # <<>> /\ Head(todo) \in {"retry_sweep", "due_sweep"}
  /\ ~alive => inflight = <<>> /\ channel = <<>>

\* Every event has its place.
Placement ==
  /\ CallsPlaced /\ ChannelPlaced /\ StoresPlaced /\ BatchesPlaced /\ CondemnedPlaced
  /\ WorkerPlaced

\* What is settled stays so.
SettledStay == \A e \in Events : status[e] \in Settled => status'[e] = status[e]
\* No event comes to or leaves status s.
Kept(s) == With(s)' = With(s)
\* A step of the ledger that changes no outcome and reports no event twice.
Sound == [Ledger!Next]_(Ledger!vars) /\ SettledStay /\ (ReportedOnce => ReportedOnce')

\* The events a step rejects are counted, all of them or one for each uuid.
NewlyRejected(e) == status[e] # "rejected" /\ status'[e] = "rejected"
Tallied ==
  \A e \in Events :
    /\ reported'[e] = reported[e] \/ (NewlyRejected(e) /\ reported'[e] = reported[e] + 1)
    /\ NewlyRejected(e) =>
         \E f \in Events : Uuid[f] = Uuid[e] /\ NewlyRejected(f) /\ reported'[f] = reported[f] + 1

\* A step that rejects none.
LEMMA NoneTallied ==
  ASSUME UNCHANGED reported, \A e \in Events : ~NewlyRejected(e)
  PROVE  Tallied
  BY DEF Tallied

\* A step that rejects the events of S.
LEMMA SomeTallied ==
  ASSUME NEW S \in SUBSET Events, NEW T \in SUBSET S,
         \A e \in S : NewlyRejected(e), \A e \in Events \ S : ~NewlyRejected(e),
         \A e \in S : \E f \in T : Uuid[f] = Uuid[e],
         \A e \in Events : reported'[e] = IF e \in T THEN reported[e] + 1 ELSE reported[e]
  PROVE  Tallied
<1>1. \A e \in Events : reported'[e] = reported[e]
                          \/ (NewlyRejected(e) /\ reported'[e] = reported[e] + 1)
  OBVIOUS
<1>2. ASSUME NEW e \in Events, NewlyRejected(e)
      PROVE  \E f \in Events : Uuid[f] = Uuid[e] /\ NewlyRejected(f)
                                /\ reported'[f] = reported[f] + 1
  <2>1. PICK f \in T : Uuid[f] = Uuid[e]
    BY <1>2
  <2>2. f \in Events /\ NewlyRejected(f) /\ reported'[f] = reported[f] + 1
    BY <2>1
  <2> QED BY <2>1, <2>2
<1> QED BY <1>1, <1>2 DEF Tallied

\* Each uuid of a set is that of the one event taken for it.
LEMMA Namesakes ==
  \A S : OnePerUuid(S) \subseteq S /\ \A e \in S : \E f \in OnePerUuid(S) : Uuid[f] = Uuid[e]
<1> SUFFICES ASSUME NEW S
             PROVE  OnePerUuid(S) \subseteq S
                    /\ \A e \in S : \E f \in OnePerUuid(S) : Uuid[f] = Uuid[e]
  OBVIOUS
<1> DEFINE one(u) == CHOOSE e \in S : Uuid[e] = u
<1>1. \A e \in S : one(Uuid[e]) \in S /\ Uuid[one(Uuid[e])] = Uuid[e]
  OBVIOUS
<1>2. OnePerUuid(S) = {one(u) : u \in {Uuid[e] : e \in S}}
  BY DEF OnePerUuid
<1> HIDE DEF one
<1> QED BY <1>1, <1>2

\* Outcomes stand, so a tally keeps the reports single.
LEMMA TalliedOnce ==
  ASSUME SettledStay, Tallied, ReportedOnce
  PROVE  ReportedOnce'
<1>0. \A e \in Events : status[e] = "rejected" => status'[e] = "rejected"
  BY DEF SettledStay, Settled
<1>1. ASSUME NEW e \in Events
      PROVE  reported'[e] \in IF status'[e] = "rejected" THEN {0, 1} ELSE {0}
  <2>1. reported[e] \in IF status[e] = "rejected" THEN {0, 1} ELSE {0}
    BY DEF ReportedOnce
  <2>2. CASE reported'[e] = reported[e]
    BY <1>0, <2>1, <2>2
  <2>3. CASE NewlyRejected(e) /\ reported'[e] = reported[e] + 1
    BY <2>1, <2>3 DEF NewlyRejected
  <2> QED BY <2>2, <2>3 DEF Tallied
<1>2. ASSUME NEW e \in Events, status'[e] = "rejected"
      PROVE  \E f \in Events : Uuid[f] = Uuid[e] /\ status'[f] = "rejected" /\ reported'[f] = 1
  <2>1. CASE status[e] = "rejected"
    <3>1. PICK f \in Events : Uuid[f] = Uuid[e] /\ status[f] = "rejected" /\ reported[f] = 1
      BY <2>1 DEF ReportedOnce
    <3>2. ~NewlyRejected(f)
      BY <3>1 DEF NewlyRejected
    <3>3. reported'[f] = 1
      BY <3>1, <3>2 DEF Tallied
    <3> QED BY <1>0, <3>1, <3>3
  <2>2. CASE status[e] # "rejected"
    <3>1. NewlyRejected(e)
      BY <1>2, <2>2 DEF NewlyRejected
    <3>2. PICK f \in Events : /\ Uuid[f] = Uuid[e] /\ NewlyRejected(f)
                               /\ reported'[f] = reported[f] + 1
      BY <3>1 DEF Tallied
    <3>3. reported[f] = 0
      BY <3>2 DEF ReportedOnce, NewlyRejected
    <3> QED BY <3>2, <3>3 DEF NewlyRejected
  <2> QED BY <2>1, <2>2
<1> QED BY <1>1, <1>2 DEF ReportedOnce

\* What a step leaves alone stays placed.
LEMMA CallsKept ==
  ASSUME CallsPlaced, UNCHANGED callVars,
         \A e \in Events : status[e] \in {"new", "reserved"} => status'[e] = status[e]
  PROVE  CallsPlaced'
<1>1. \A c \in Calls : \A i \in 1..Size[c] : <<c, i>> \in Events
  BY DEF Events
<1> QED BY <1>1 DEF CallsPlaced, callVars

\* The same, for the channel,
LEMMA ChannelKept ==
  ASSUME ChannelPlaced, UNCHANGED channel, Kept("queued")
  PROVE  ChannelPlaced'
  BY DEF ChannelPlaced, Kept, Carried

\* the stores,
LEMMA StoresKept ==
  ASSUME StoresPlaced, UNCHANGED <<buffer, historical>>, Kept("buffered"), Kept("historical")
  PROVE  StoresPlaced'
  BY DEF StoresPlaced, Kept

\* the batches,
LEMMA BatchesKept ==
  ASSUME BatchesPlaced, UNCHANGED <<inflight, retries, sweep>>, Kept("inflight"),
         Kept("retrying"), Kept("sweeping")
  PROVE  BatchesPlaced'
  BY DEF BatchesPlaced, Kept, Pendings

\* the condemned events,
LEMMA CondemnedKept ==
  ASSUME CondemnedPlaced, UNCHANGED <<inflight, retries, sweep>>, Kept("condemned")
  PROVE  CondemnedPlaced'
  BY DEF CondemnedPlaced, Kept, Undelivereds

\* and the worker.
LEMMA WorkerKept ==
  ASSUME WorkerPlaced, UNCHANGED <<inflight, sweep, todo, channel, alive>>
  PROVE  WorkerPlaced'
  BY DEF WorkerPlaced

\* The events of a set change their status.
LEMMA Moved ==
  ASSUME LedgerTyped, NEW S \in SUBSET Events, NEW s, status' = Move(S, s)
  PROVE  /\ \A e \in Events : status'[e] = IF e \in S THEN s ELSE status[e]
         /\ With(s)' = With(s) \union S
         /\ \A t : t # s => With(t)' = With(t) \ S
         /\ \A t : t # s /\ S \intersect With(t) = {} => Kept(t)
<1>1. \A e \in Events : status'[e] = IF e \in S THEN s ELSE status[e]
  BY DEF Move, Mark
<1>2. With(s)' = With(s) \union S
  BY <1>1 DEF With
<1>3. \A t : t # s => With(t)' = With(t) \ S
  BY <1>1 DEF With
<1> QED BY <1>1, <1>2, <1>3 DEF Kept

\* Every event has one status.
LEMMA OneStatus == \A s, t : s # t => With(s) \intersect With(t) = {}
  BY DEF With

\* A step that touches no event.
LEMMA StatusSame ==
  ASSUME UNCHANGED <<status, reported, len, alive>>
  PROVE  Sound /\ \A s : Kept(s)
<1>1. UNCHANGED Ledger!vars
  BY LedgerStutter
<1>2. SettledStay /\ \A s : Kept(s)
  BY DEF SettledStay, Kept, With
<1>3. Tallied
  BY NoneTallied DEF NewlyRejected
<1> QED BY <1>1, <1>2, <1>3, TalliedOnce DEF Sound

\* The events of S leave one status for another.
LEMMA MoveSound ==
  ASSUME LedgerTyped, NEW t \in Status \ Settled, NEW S \in SUBSET With(t),
         NEW s \in Status \ {"rejected"}, status' = Move(S, s), UNCHANGED reported,
         [Ledger!Next]_(Ledger!vars)
  PROVE  Sound
<1>1. S \in SUBSET Events /\ \A e \in S : status[e] = t
  BY DEF With
<1>2. \A e \in Events : status'[e] = IF e \in S THEN s ELSE status[e]
  BY <1>1, Moved
<1>3. "rejected" \in Settled
  BY DEF Settled
<1>4. SettledStay
  BY <1>1, <1>2, <1>3 DEF SettledStay
<1>5. Tallied
  <2>1. \A e \in Events : ~NewlyRejected(e)
    BY <1>2 DEF NewlyRejected
  <2> QED BY <2>1, NoneTallied
<1> QED BY <1>4, <1>5, TalliedOnce DEF Sound
-----------------------------------------------------------------------------
(***************************************************************************)
(* Placement: capture calls.                                               *)
(***************************************************************************)
\* The events a call has reserved, each once.
LEMMA ReservedEvents ==
  ASSUME CallsTyped, NEW c \in Calls
  PROVE  /\ Reserved(c) \in Seq(Events) /\ OneToOne(Reserved(c))
         /\ Elements(Reserved(c)) = {<<c, i>> : i \in 1..fitted[c]}
         /\ Elements(Reserved(c)) \in SUBSET EventsOf(c) /\ EventsOf(c) \in SUBSET Events
         /\ Cardinality(Elements(Reserved(c))) = fitted[c]
         /\ fitted[c] # 0 => Reserved(c) # <<>>
<1>1. /\ fitted[c] \in Nat /\ fitted[c] <= Size[c] /\ Size[c] \in Nat
      /\ Reserved(c) \in Seq(Events)
  BY TransportAssumption, ReservedType DEF CallsTyped
<1>2. DOMAIN Reserved(c) = 1..fitted[c] /\ \A i \in 1..fitted[c] : Reserved(c)[i] = <<c, i>>
  BY DEF Reserved
<1>3. Elements(Reserved(c)) = {<<c, i>> : i \in 1..fitted[c]}
  BY <1>2 DEF Elements
<1>4. OneToOne(Reserved(c))
  BY <1>2 DEF OneToOne
<1>5. EventsOf(c) \in SUBSET Events /\ Elements(Reserved(c)) \in SUBSET EventsOf(c)
  BY <1>1, <1>3 DEF EventsOf, Events
<1>6. Cardinality(Elements(Reserved(c))) = fitted[c]
  <2>0. Reserved(c) \in [1..fitted[c] -> Elements(Reserved(c))]
    <3>1. Reserved(c) = [i \in 1..fitted[c] |-> Reserved(c)[i]]
      BY DEF Reserved
    <3> QED BY <1>2, <1>3, <3>1
  <2>1. Reserved(c) \in Bijection(1..fitted[c], Elements(Reserved(c)))
    <3>1. Reserved(c) \in Injection(1..fitted[c], Elements(Reserved(c)))
      <4>1. \A i, j \in 1..fitted[c] : Reserved(c)[i] = Reserved(c)[j] => i = j
        BY <1>2
      <4> QED BY <2>0, <4>1 DEF Injection, IsInjective
    <3>2. Reserved(c) \in Surjection(1..fitted[c], Elements(Reserved(c)))
      BY <1>2, <1>3, <2>0 DEF Surjection
    <3> QED BY <3>1, <3>2 DEF Bijection
  <2> QED BY <1>1, <2>1, FS_CountingElements DEF ExistsBijection
<1>7. fitted[c] # 0 => Reserved(c) # <<>>
  BY <1>1, <1>2
<1> QED BY <1>1, <1>3, <1>4, <1>5, <1>6, <1>7

\* The events of a call are named by it.
LEMMA CallEvents ==
  ASSUME CallsPlaced, CallsTyped, LedgerTyped, NEW c \in Calls
  PROVE  /\ \A i \in 1..Size[c] : <<c, i>> \in Events
         /\ call[c] = "start" => EventsOf(c) \in SUBSET With("new")
         /\ call[c] = "reserving" => /\ <<c, fitted[c] + 1>> \in With("new")
                                     /\ EventsOf(c) \ Elements(Reserved(c)) \in SUBSET With("new")
         /\ call[c] = "sending" => Elements(Reserved(c)) \in SUBSET With("reserved")
<1>1. /\ fitted[c] \in Nat /\ fitted[c] <= Size[c] /\ Size[c] \in Nat
      /\ call[c] \in {"start", "reserving"} => fitted[c] < Size[c]
  BY TransportAssumption DEF CallsTyped
<1>2. \A i \in 1..Size[c] : <<c, i>> \in Events
  BY DEF Events
<1>3. Elements(Reserved(c)) = {<<c, i>> : i \in 1..fitted[c]}
  BY ReservedEvents
<1>4. \A e \in EventsOf(c) : \E i \in 1..Size[c] : e = <<c, i>>
  BY DEF EventsOf
<1>5. call[c] = "start" => EventsOf(c) \in SUBSET With("new")
  <2> SUFFICES ASSUME call[c] = "start", NEW e \in EventsOf(c) PROVE e \in With("new")
    OBVIOUS
  <2>1. PICK i \in 1..Size[c] : e = <<c, i>>
    BY <1>4
  <2>2. i > fitted[c]
    BY <1>1 DEF CallsPlaced
  <2> QED BY <1>2, <2>1, <2>2 DEF CallsPlaced, With
<1>6. call[c] = "reserving" => EventsOf(c) \ Elements(Reserved(c)) \in SUBSET With("new")
  <2> SUFFICES ASSUME call[c] = "reserving", NEW e \in EventsOf(c), e \notin Elements(Reserved(c))
               PROVE  e \in With("new")
    OBVIOUS
  <2>1. PICK i \in 1..Size[c] : e = <<c, i>>
    BY <1>4
  <2>2. i > fitted[c]
    BY <1>1, <1>3, <2>1
  <2> QED BY <1>2, <2>1, <2>2 DEF CallsPlaced, With
<1>7. call[c] = "reserving" => <<c, fitted[c] + 1>> \in With("new")
  <2> SUFFICES ASSUME call[c] = "reserving" PROVE <<c, fitted[c] + 1>> \in With("new")
    OBVIOUS
  <2>1. fitted[c] + 1 \in 1..Size[c] /\ fitted[c] + 1 > fitted[c]
    BY <1>1
  <2> QED BY <1>2, <2>1 DEF CallsPlaced, With
<1>8. call[c] = "sending" => Elements(Reserved(c)) \in SUBSET With("reserved")
  <2> SUFFICES ASSUME call[c] = "sending", NEW i \in 1..fitted[c]
               PROVE  <<c, i>> \in With("reserved")
    BY <1>3
  <2>1. i \in 1..Size[c] /\ i <= fitted[c]
    BY <1>1
  <2> QED BY <1>2, <2>1 DEF CallsPlaced, With
<1> QED BY <1>2, <1>5, <1>6, <1>7, <1>8

\* The calls but c find their events where they were.
LEMMA OtherCalls ==
  ASSUME CallsPlaced, NEW c \in Calls,
         \A d \in Calls \ {c} : call'[d] = call[d] /\ fitted'[d] = fitted[d],
         \A e \in Events : status'[e] # status[e] => e \in EventsOf(c),
         call'[c] = "start" => fitted'[c] = 0,
         call'[c] = "sending" => fitted'[c] # 0,
         \A i \in 1..Size[c] :
           /\ call'[c] \in {"start", "reserving"} /\ i > fitted'[c] => status'[<<c, i>>] = "new"
           /\ call'[c] \in {"reserving", "sending"} /\ i <= fitted'[c] =>
                status'[<<c, i>>] = "reserved"
  PROVE  CallsPlaced'
<1>1. \A d \in Calls : \A i \in 1..Size[d] : <<d, i>> \in Events
  BY DEF Events
<1>2. \A d \in Calls \ {c} : \A i \in 1..Size[d] : status'[<<d, i>>] = status[<<d, i>>]
  BY <1>1 DEF EventsOf
<1>3. \A d \in Calls \ {c} :
        /\ call'[d] = "start" => fitted'[d] = 0
        /\ call'[d] = "sending" => fitted'[d] # 0
        /\ \A i \in 1..Size[d] :
          /\ call'[d] \in {"start", "reserving"} /\ i > fitted'[d] => status'[<<d, i>>] = "new"
          /\ call'[d] \in {"reserving", "sending"} /\ i <= fitted'[d] =>
               status'[<<d, i>>] = "reserved"
  BY <1>2 DEF CallsPlaced
<1> QED BY <1>3 DEF CallsPlaced

\* Not settled.
LEMMA NewOrReserved == {"new", "reserved", "queued", "condemned"} \subseteq Status \ Settled
  BY DEF Status, Held, Settled

\* A step of a call leaves the worker's side alone.
LEMMA CallSide ==
  ASSUME Placement, LedgerTyped, UNCHANGED <<channel, workerVars, storeVars, batchVars>>,
         NEW S \in SUBSET (With("new") \union With("reserved")),
         NEW s \in {"reserved", "refused"}, status' = Move(S, s)
  PROVE  ChannelPlaced' /\ StoresPlaced' /\ BatchesPlaced' /\ CondemnedPlaced' /\ WorkerPlaced'
<1>1. /\ Kept("queued") /\ Kept("buffered") /\ Kept("historical") /\ Kept("inflight")
      /\ Kept("retrying") /\ Kept("sweeping") /\ Kept("condemned")
  <2>1. S \in SUBSET Events /\ \A t \in {"queued", "buffered", "historical", "inflight",
                                    "retrying", "sweeping", "condemned"} :
                          t # s /\ S \intersect With(t) = {}
    BY DEF With
  <2> QED BY <2>1, Moved
<1> QED BY <1>1, ChannelKept, StoresKept, BatchesKept, CondemnedKept, WorkerKept
        DEF Placement, workerVars, storeVars, batchVars

\* Each step of a capture call.
LEMMA CallStepSound ==
  ASSUME TypeOK, TypeOK', SlotAccounting, Placement, NEW c \in Calls, CallStep(c)
  PROVE  Placement' /\ Sound
<1>0. /\ LedgerTyped /\ LedgerTyped' /\ CallsTyped /\ len \in Nat /\ channel \in Seq(Control)
      /\ CallsPlaced /\ ChannelPlaced /\ StoresPlaced /\ BatchesPlaced /\ CondemnedPlaced
      /\ WorkerPlaced
  BY DEF TypeOK, Placement
<1>s. /\ fitted[c] \in Nat /\ fitted[c] <= Size[c] /\ Size[c] \in Nat \ {0}
      /\ fitted \in [Calls -> Nat]
      /\ call \in [Calls -> {"start", "reserving", "sending", "done"}]
  BY TransportAssumption DEF TypeOK, CallsTyped
<1>e. /\ Elements(Reserved(c)) = {<<c, i>> : i \in 1..fitted[c]}
      /\ Elements(Reserved(c)) \in SUBSET EventsOf(c) /\ EventsOf(c) \in SUBSET Events
      /\ Cardinality(Elements(Reserved(c))) = fitted[c]
      /\ Reserved(c) \in Seq(Events) /\ OneToOne(Reserved(c))
      /\ fitted[c] # 0 => Reserved(c) # <<>>
  BY <1>0, ReservedEvents
<1>1. CASE CheckClosed(c)
  <2>0. /\ call[c] = "start" /\ UNCHANGED <<fitted, len, alive, reported, channel, workerVars,
                                            storeVars, batchVars>>
        /\ call' = [call EXCEPT ![c] = IF closed THEN "done" ELSE "reserving"]
    BY <1>1 DEF CheckClosed, workerVars
  <2>1. CASE closed
    <3>1. EventsOf(c) \in SUBSET With("new") /\ status' = Move(EventsOf(c), "refused")
      BY <1>0, <1>1, <2>0, <2>1, CallEvents DEF CheckClosed
    <3>2. \A e \in Events : status'[e] = IF e \in EventsOf(c) THEN "refused" ELSE status[e]
      BY <1>0, <1>e, <3>1, Moved
    <3>3. CallsPlaced'
      BY <1>0, <1>s, <2>0, <2>1, <3>2, OtherCalls
    <3>4. Ledger!Refuse
      BY <1>0, <2>0, <3>1, RefuseStep
    <3>5. Sound
      BY <1>0, <2>0, <3>1, <3>4, MoveSound, NewOrReserved DEF Ledger!Next, Status, Settled
    <3>6. ChannelPlaced' /\ StoresPlaced' /\ BatchesPlaced' /\ CondemnedPlaced' /\ WorkerPlaced'
      BY <1>0, <2>0, <3>1, CallSide
    <3> QED BY <3>3, <3>5, <3>6 DEF Placement
  <2>2. CASE ~closed
    <3>1. UNCHANGED status
      BY <1>1, <2>2 DEF CheckClosed
    <3>2. Sound /\ \A s : Kept(s)
      BY <2>0, <3>1, StatusSame
    <3>3. CallsPlaced'
      BY <1>0, <1>s, <2>0, <2>2, <3>1 DEF CallsPlaced
    <3> QED BY <1>0, <2>0, <3>2, <3>3, ChannelKept, StoresKept, BatchesKept, CondemnedKept,
               WorkerKept DEF Placement, storeVars, batchVars, workerVars
  <2> QED BY <2>1, <2>2
<1>2. CASE ReserveSlot(c)
  <2> DEFINE e == <<c, fitted[c] + 1>>
  <2>0. /\ call[c] = "reserving" /\ len < MaxQueueSize /\ len' = len + 1
        /\ UNCHANGED <<alive, reported, channel, workerVars, storeVars, batchVars>>
        /\ fitted' = [fitted EXCEPT ![c] = @ + 1] /\ status' = Move({e}, "reserved")
        /\ call' = [call EXCEPT ![c] = IF fitted[c] + 1 = Size[c] THEN "sending" ELSE @]
    BY <1>2 DEF ReserveSlot, HasRoom, workerVars
  <2>1. e \in With("new") /\ e \in Events
    BY <1>0, <2>0, CallEvents DEF With
  <2>2. \A d \in Events : status'[d] = IF d = e THEN "reserved" ELSE status[d]
    <3>1. {e} \in SUBSET Events
      BY <2>1
    <3>2. \A d \in Events : status'[d] = IF d \in {e} THEN "reserved" ELSE status[d]
      BY <1>0, <2>0, <3>1, Moved
    <3> QED BY <3>2
  <2>3. CallsPlaced'
    <3>1. \A i \in 1..Size[c] : <<c, i>> = e <=> i = fitted[c] + 1
      OBVIOUS
    <3>2. \A i \in 1..Size[c] : /\ i > fitted[c] => status[<<c, i>>] = "new"
                                /\ i <= fitted[c] => status[<<c, i>>] = "reserved"
      BY <1>0, <2>0 DEF CallsPlaced
    <3>3. \A i \in 1..Size[c] : <<c, i>> \in Events
      BY <1>0, CallEvents
    <3>4. fitted'[c] = fitted[c] + 1 /\ \A d \in Calls \ {c} : fitted'[d] = fitted[d]
      BY <1>s, <2>0
    <3>5. call'[c] \in {"sending", "reserving"} /\ \A d \in Calls \ {c} : call'[d] = call[d]
      BY <1>s, <2>0
    <3>6. e \in EventsOf(c)
      BY <1>0, <1>s, <2>0 DEF EventsOf, CallsTyped
    <3> HIDE DEF e
    <3>7. \A i \in 1..Size[c] : /\ i > fitted'[c] => status'[<<c, i>>] = "new"
                                /\ i <= fitted'[c] => status'[<<c, i>>] = "reserved"
      BY <1>s, <2>2, <3>1, <3>2, <3>3, <3>4
    <3> QED BY <1>0, <1>s, <2>2, <3>4, <3>5, <3>6, <3>7, OtherCalls
  <2> HIDE DEF e
  <2>4. Ledger!Admit
    BY <1>0, <2>0, <2>1, AdmitStep
  <2>5. Sound
    <3>1. {e} \in SUBSET With("new") /\ "new" \in Status \ Settled
          /\ "reserved" \in Status \ {"rejected"}
      BY <2>1, NewOrReserved
    <3> QED BY <1>0, <2>0, <2>4, <3>1, MoveSound DEF Ledger!Next
  <2>6. ChannelPlaced' /\ StoresPlaced' /\ BatchesPlaced' /\ CondemnedPlaced' /\ WorkerPlaced'
    <3>1. {e} \in SUBSET (With("new") \union With("reserved"))
      BY <2>1
    <3> QED BY <1>0, <2>0, <3>1, CallSide DEF Placement
  <2> QED BY <2>3, <2>5, <2>6 DEF Placement
<1>3. CASE QueueFull(c)
  <2> DEFINE S == EventsOf(c) \ Elements(Reserved(c))
  <2>0. /\ call[c] = "reserving" /\ UNCHANGED <<fitted, len, alive, reported, channel, workerVars,
                                                storeVars, batchVars>>
        /\ call' = [call EXCEPT ![c] = IF fitted[c] = 0 THEN "done" ELSE "sending"]
        /\ status' = Move(S, "refused")
    BY <1>3 DEF QueueFull, workerVars
  <2>1. S \in SUBSET With("new") /\ S \in SUBSET Events /\ S \in SUBSET EventsOf(c)
    BY <1>0, <1>e, <2>0, CallEvents
  <2>2. \A e \in Events : status'[e] = IF e \in S THEN "refused" ELSE status[e]
    BY <1>0, <2>0, <2>1, Moved
  <2>3. CallsPlaced'
    <3>1. \A i \in 1..Size[c] : i <= fitted[c] => <<c, i>> \notin S /\ <<c, i>> \in Events
                                  /\ status[<<c, i>>] = "reserved"
      BY <1>0, <1>s, <1>e, <2>0, CallEvents DEF CallsPlaced
    <3> HIDE DEF S
    <3>2. \A i \in 1..Size[c] : i <= fitted'[c] => status'[<<c, i>>] = "reserved"
      BY <2>0, <2>2, <3>1
    <3>3. call'[c] \in {"sending", "done"} /\ (call'[c] = "sending" => fitted'[c] # 0)
          /\ \A d \in Calls \ {c} : call'[d] = call[d] /\ fitted'[d] = fitted[d]
      BY <1>s, <2>0
    <3> QED BY <1>0, <2>1, <2>2, <3>2, <3>3, OtherCalls
  <2> HIDE DEF S
  <2>4. Ledger!Refuse
    BY <1>0, <2>0, <2>1, RefuseStep
  <2>5. Sound
    BY <1>0, <2>0, <2>1, <2>4, MoveSound, NewOrReserved DEF Ledger!Next, Status, Settled
  <2>6. ChannelPlaced' /\ StoresPlaced' /\ BatchesPlaced' /\ CondemnedPlaced' /\ WorkerPlaced'
    BY <1>0, <2>0, <2>1, CallSide
  <2> QED BY <2>3, <2>5, <2>6 DEF Placement
<1>4. CASE SendReserved(c)
  <2> DEFINE S == Elements(Reserved(c))
  <2>0. /\ call[c] = "sending" /\ UNCHANGED <<fitted, alive, reported, workerVars,
                                              storeVars, batchVars>>
        /\ call' = [call EXCEPT ![c] = "done"]
    BY <1>4 DEF SendReserved, workerVars
  <2>1. S \in SUBSET With("reserved") /\ S \in SUBSET Events /\ S \in SUBSET EventsOf(c)
        /\ fitted[c] # 0
    BY <1>0, <1>e, <2>0, CallEvents DEF CallsPlaced
  <2>2. ASSUME NEW s, \A e \in Events : status'[e] = IF e \in S THEN s ELSE status[e]
        PROVE  CallsPlaced'
    <3>1. call'[c] = "done" /\ \A d \in Calls \ {c} : call'[d] = call[d] /\ fitted'[d] = fitted[d]
      BY <1>s, <2>0
    <3> HIDE DEF S
    <3> QED BY <1>0, <2>1, <2>2, <3>1, OtherCalls
  <2>3. CASE alive
    <3> DEFINE m == [kind |-> IF c \in HistoricalCalls THEN "HistoricalBatch" ELSE "Capture",
                     events |-> Reserved(c)]
    <3>1. channel' = Append(channel, m) /\ status' = Move(S, "queued") /\ UNCHANGED len
      BY <1>4, <2>3 DEF SendReserved
    <3>2. m \in CaptureMessage /\ m \in Control /\ Load(m) = S
      BY <1>e DEF CaptureMessage, Control, Load
    <3>3. m.events = Reserved(c)
      OBVIOUS
    <3> HIDE DEF m, S
    <3>4. /\ \A e \in Events : status'[e] = IF e \in S THEN "queued" ELSE status[e]
          /\ With("queued")' = With("queued") \union S
          /\ \A t : t # "queued" /\ S \intersect With(t) = {} => Kept(t)
      BY <1>0, <2>1, <3>1, Moved
    <3>5. /\ Kept("buffered") /\ Kept("historical") /\ Kept("inflight")
          /\ Kept("retrying") /\ Kept("sweeping") /\ Kept("condemned")
      BY <2>1, <3>4, OneStatus
    <3>6. S \intersect With("queued") = {}
      BY <2>1, OneStatus
    <3>7. ChannelPlaced'
      <4>1. With("queued")' = All(Carried(channel')) /\ Apart(Carried(channel'))
        BY <1>0, <3>1, <3>2, <3>4, <3>6, SentMessage DEF ChannelPlaced
      <4>2. /\ DOMAIN channel' = 1..(Len(channel) + 1) /\ Len(channel) \in Nat
            /\ \A i \in 1..Len(channel) : channel'[i] = channel[i]
            /\ channel'[Len(channel) + 1] = m
        BY <1>0, <3>1, <3>2, AppendProperties, LenProperties
      <4>3. \A i \in DOMAIN channel' : channel'[i] \in CaptureMessage =>
              channel'[i].events # <<>> /\ OneToOne(channel'[i].events)
        <5> SUFFICES ASSUME NEW i \in 1..(Len(channel) + 1), channel'[i] \in CaptureMessage
                     PROVE  channel'[i].events # <<>> /\ OneToOne(channel'[i].events)
          BY <4>2
        <5>1. CASE i \in 1..Len(channel)
          BY <1>0, <4>2, <5>1 DEF ChannelPlaced
        <5>2. CASE i = Len(channel) + 1
          BY <1>e, <2>1, <3>3, <4>2, <5>2
        <5> QED BY <4>2, <5>1, <5>2
      <4> QED BY <4>1, <4>3 DEF ChannelPlaced
    <3>8. WorkerPlaced'
      BY <1>0, <2>0, <2>3 DEF WorkerPlaced, workerVars, batchVars
    <3>9. StoresPlaced' /\ BatchesPlaced' /\ CondemnedPlaced'
      BY <1>0, <2>0, <3>5, StoresKept, BatchesKept, CondemnedKept DEF storeVars, batchVars
    <3>10. Sound
      <4>1. \A e \in Events : FateOf(status'[e]) = FateOf(status[e])
        BY <2>1, <3>4, Fates DEF With, Held
      <4>2. UNCHANGED Ledger!vars
        BY <2>0, <3>1, <4>1, LedgerStutter
      <4>3. "reserved" \in Status \ Settled /\ "queued" \in Status \ {"rejected"}
        BY DEF Status, Held, Settled
      <4> QED BY <1>0, <2>0, <2>1, <3>1, <4>2, <4>3, MoveSound
    <3> QED BY <2>2, <3>4, <3>7, <3>8, <3>9, <3>10 DEF Placement
  <2>4. CASE ~alive
    <3>1. len' = Released(fitted[c]) /\ status' = Move(S, "refused") /\ UNCHANGED channel
      BY <1>4, <2>4 DEF SendReserved
    <3>2. len' = len - Cardinality(S)
      <4>1. \A e \in S : status[e] \in Held
        BY <2>1 DEF With, Held
      <4> QED BY <1>0, <1>e, <2>1, <3>1, <4>1, SlotsHeld
    <3> HIDE DEF S
    <3>3. Ledger!Withdraw
      BY <1>0, <2>0, <2>1, <2>4, <3>1, <3>2, WithdrawStep
    <3>4. Sound
      <4>1. "reserved" \in Status \ Settled /\ "refused" \in Status \ {"rejected"}
        BY DEF Status, Held, Settled
      <4> QED BY <1>0, <2>0, <2>1, <3>1, <3>3, <4>1, MoveSound DEF Ledger!Next
    <3>5. ChannelPlaced' /\ StoresPlaced' /\ BatchesPlaced' /\ CondemnedPlaced' /\ WorkerPlaced'
      BY <1>0, <2>0, <2>1, <3>1, CallSide
    <3>6. \A e \in Events : status'[e] = IF e \in S THEN "refused" ELSE status[e]
      BY <1>0, <2>1, <3>1, Moved
    <3> QED BY <2>2, <3>4, <3>5, <3>6 DEF Placement
  <2> QED BY <2>3, <2>4
<1> QED BY <1>1, <1>2, <1>3, <1>4 DEF CallStep
-----------------------------------------------------------------------------
(***************************************************************************)
(* Placement: callers, wakes and time.                                     *)
(***************************************************************************)
\* A step that moves no event.
LEMMA StillSound ==
  ASSUME Placement, UNCHANGED <<callVars, len, alive, buffer, historical, inflight, sweep,
                                status, reported>>,
         ChannelPlaced', WorkerPlaced',
         Pendings(retries)' = Pendings(retries), Undelivereds(retries)' = Undelivereds(retries)
  PROVE  Placement' /\ Sound
<1>1. Sound /\ \A s : Kept(s)
  BY StatusSame
<1>2. CallsPlaced'
  BY CallsKept DEF Placement
<1>3. StoresPlaced'
  BY <1>1, StoresKept DEF Placement
<1>4. BatchesPlaced'
  BY <1>1 DEF Placement, BatchesPlaced, Kept, Pendings
<1>5. CondemnedPlaced'
  BY <1>1 DEF Placement, CondemnedPlaced, Kept, Undelivereds
<1> QED BY <1>1, <1>2, <1>3, <1>4, <1>5 DEF Placement

\* A control message carries no event.
LEMMA ControlCarriesNothing == \A m \in ControlMessage : m \in Control /\ Load(m) = {} /\ m \notin CaptureMessage
  BY DEF ControlMessage, CaptureMessage, Load, Control

\* The channel with another control message, or without its first.
LEMMA ControlPlaced ==
  ASSUME channel \in Seq(Control), ChannelPlaced, UNCHANGED status,
         \/ \E m \in ControlMessage : channel' = Append(channel, m)
         \/ channel # <<>> /\ Head(channel) \in ControlMessage /\ channel' = Tail(channel)
  PROVE  ChannelPlaced'
<1>0. With("queued")' = With("queued")
  BY DEF With
<1>1. ASSUME NEW m \in ControlMessage, channel' = Append(channel, m) PROVE ChannelPlaced'
  <2>1. m \in Control /\ Load(m) = {} /\ m \notin CaptureMessage
    BY ControlCarriesNothing
  <2>2. All(Carried(channel')) = All(Carried(channel)) /\ Apart(Carried(channel'))
    BY <1>1, <2>1, SentMessage DEF ChannelPlaced
  <2>3. \A i \in DOMAIN channel' : channel'[i] \in CaptureMessage =>
          i \in DOMAIN channel /\ channel'[i] = channel[i]
    <3>0. Len(channel) \in Nat
      BY LenProperties
    <3>1. /\ DOMAIN channel' = 1..(Len(channel) + 1)
          /\ DOMAIN channel = 1..Len(channel)
          /\ \A i \in 1..Len(channel) : channel'[i] = channel[i]
          /\ channel'[Len(channel) + 1] = m
      BY <1>1, <2>1, <3>0, AppendProperties
    <3>2. \A i \in 1..(Len(channel) + 1) : i \in 1..Len(channel) \/ i = Len(channel) + 1
      BY <3>0
    <3> SUFFICES ASSUME NEW i \in 1..(Len(channel) + 1), channel'[i] \in CaptureMessage
                 PROVE  i \in 1..Len(channel)
      BY <3>1
    <3>3. i # Len(channel) + 1
      BY <2>1, <3>1
    <3> QED BY <3>2, <3>3
  <2> QED BY <1>0, <2>2, <2>3 DEF ChannelPlaced
<1>2. ASSUME channel # <<>>, Head(channel) \in ControlMessage, channel' = Tail(channel)
      PROVE  ChannelPlaced'
  <2>1. Load(Head(channel)) = {}
    BY <1>2, ControlCarriesNothing
  <2>2. All(Carried(channel')) = All(Carried(channel)) /\ Apart(Carried(channel'))
    <3>1. /\ All(Carried(channel)) = Load(Head(channel)) \union All(Carried(Tail(channel)))
          /\ Apart(Carried(channel)) => Apart(Carried(Tail(channel)))
      BY <1>2, TakenMessage
    <3> QED BY <1>2, <2>1, <3>1 DEF ChannelPlaced
  <2>3. \A i \in DOMAIN channel' : i + 1 \in DOMAIN channel /\ channel'[i] = channel[i + 1]
    BY <1>2, HeadTailProperties
  <2> QED BY <1>0, <2>2, <2>3 DEF ChannelPlaced
<1> QED BY <1>1, <1>2

\* Each step of a caller.
LEMMA WaiterStepSound ==
  ASSUME TypeOK, Placement, NEW w \in Waiters, WaiterStep(w) \/ GiveUp(w)
  PROVE  Placement' /\ Sound
<1>1. /\ UNCHANGED <<callVars, len, alive, todo, buffer, historical, inflight, retries, sweep,
                     status, reported>>
      /\ \/ UNCHANGED channel
         \/ alive /\ \E m \in ControlMessage : channel' = Append(channel, m)
  <2>1. CASE SendFlush(w) \/ SendShutdown(w)
    <3>1. \A kind \in {"Flush", "FlushCaptures", "Shutdown"} :
            [kind |-> kind, waiter |-> w] \in ControlMessage
      BY DEF ControlMessage
    <3> QED BY <2>1, <3>1 DEF SendFlush, SendShutdown, SendControl, workerVars, storeVars,
               batchVars, ledgerVars
  <2>2. CASE BeginFlush(w) \/ BeginClose(w) \/ TakeHandle(w) \/ JoinWorker(w) \/ GiveUp(w)
    BY <2>2 DEF BeginFlush, BeginClose, TakeHandle, JoinWorker, GiveUp, workerVars, storeVars,
                batchVars, ledgerVars
  <2> QED BY <2>1, <2>2 DEF WaiterStep
<1>2. ChannelPlaced'
  <2>1. CASE UNCHANGED channel
    <3>1. Kept("queued")
      BY <1>1 DEF Kept, With
    <3> QED BY <2>1, <3>1, ChannelKept DEF Placement
  <2>2. CASE \E m \in ControlMessage : channel' = Append(channel, m)
    BY <1>1, <2>2, ControlPlaced DEF Placement, TypeOK
  <2> QED BY <1>1, <2>1, <2>2
<1>3. WorkerPlaced'
  BY <1>1 DEF WorkerPlaced, Placement
<1>4. Pendings(retries)' = Pendings(retries) /\ Undelivereds(retries)' = Undelivereds(retries)
  BY <1>1 DEF Pendings, Undelivereds
<1> QED BY <1>1, <1>2, <1>3, <1>4, StillSound

\* Wakes of the worker that take no events, and the passing of time.
LEMMA WakeSound ==
  ASSUME TypeOK, Placement,
         ReceiveControl \/ WakeTimeout \/ WakeDisconnected \/ DropHandle \/ UNCHANGED vars
  PROVE  Placement' /\ Sound
<1>1. /\ UNCHANGED <<callVars, len, alive, buffer, historical, inflight, retries, sweep,
                     status, reported>>
      /\ \/ UNCHANGED <<channel, todo>>
         \/ /\ alive /\ todo = <<>>
            /\ \/ UNCHANGED channel
               \/ channel # <<>> /\ Head(channel) \in ControlMessage /\ channel' = Tail(channel)
  BY DEF ReceiveControl, WakeTimeout, WakeDisconnected, DropHandle, Receiving, vars, workerVars,
         storeVars, batchVars, ledgerVars
<1>2. ChannelPlaced'
  <2>1. CASE UNCHANGED channel
    <3>1. Kept("queued")
      BY <1>1 DEF Kept, With
    <3> QED BY <2>1, <3>1, ChannelKept DEF Placement
  <2>2. CASE channel # <<>> /\ Head(channel) \in ControlMessage /\ channel' = Tail(channel)
    BY <1>1, <2>2, ControlPlaced DEF Placement, TypeOK
  <2> QED BY <1>1, <2>1, <2>2
<1>3. WorkerPlaced'
  BY <1>1 DEF WorkerPlaced, Placement
<1>4. Pendings(retries)' = Pendings(retries) /\ Undelivereds(retries)' = Undelivereds(retries)
  BY <1>1 DEF Pendings, Undelivereds
<1> QED BY <1>1, <1>2, <1>3, <1>4, StillSound

\* A timer that elapses.
LEMMA TimeStepSound ==
  ASSUME TypeOK, Placement, TimeStep
  PROVE  Placement' /\ Sound
<1>1. UNCHANGED <<callVars, len, channel, alive, todo, buffer, historical, inflight, sweep,
                  status, reported>>
  BY DEF TimeStep, BufferElapses, HistoricalElapses, DeadlineElapses, RetryElapses, workerVars,
         storeVars, batchVars, ledgerVars
<1>2. Pendings(retries)' = Pendings(retries) /\ Undelivereds(retries)' = Undelivereds(retries)
  <2>1. CASE UNCHANGED retries
    BY <2>1 DEF Pendings, Undelivereds
  <2>2. ASSUME NEW i \in DOMAIN retries, RetryElapses(i)
        PROVE  Pendings(retries)' = Pendings(retries)
               /\ Undelivereds(retries)' = Undelivereds(retries)
    <3>1. retries' = [retries EXCEPT ![i].due = TRUE] /\ retries \in Seq(Batch)
      BY <2>2 DEF RetryElapses, TypeOK, BatchesTyped
    <3>2. /\ DOMAIN retries = 1..Len(retries)
          /\ \A j \in DOMAIN retries : retries[j] \in Batch
      BY <3>1, ElementOfSeq
    <3>3. DOMAIN retries' = DOMAIN retries
          /\ \A j \in DOMAIN retries : /\ retries'[j].pending = retries[j].pending
                                       /\ retries'[j].undelivered = retries[j].undelivered
      BY <3>1, <3>2 DEF Batch
    <3> QED BY <3>3 DEF Pendings, Undelivereds
  <2>3. TimeStep => UNCHANGED retries \/ \E i \in DOMAIN retries : RetryElapses(i)
    BY DEF TimeStep, BufferElapses, HistoricalElapses, DeadlineElapses, batchVars
  <2> QED BY <2>1, <2>2, <2>3
<1>3. ChannelPlaced' /\ WorkerPlaced'
  <2>1. Kept("queued")
    BY <1>1 DEF Kept, With
  <2> QED BY <1>1, <2>1, ChannelKept, WorkerKept DEF Placement
<1> QED BY <1>1, <1>2, <1>3, StillSound
-----------------------------------------------------------------------------
(***************************************************************************)
(* Data: sequences of events, joined, split and cut into chunks.           *)
(***************************************************************************)
\* Two sequences of events in a row.
LEMMA JoinedEvents ==
  ASSUME NEW s \in Seq(Events), NEW t \in Seq(Events)
  PROVE  /\ Elements(s \o t) = Elements(s) \union Elements(t)
         /\ OneToOne(s) /\ OneToOne(t) /\ Elements(s) \intersect Elements(t) = {} =>
              OneToOne(s \o t)
<1>1. /\ Len(s \o t) = Len(s) + Len(t) /\ DOMAIN (s \o t) = 1..(Len(s) + Len(t))
      /\ Len(s) \in Nat /\ Len(t) \in Nat /\ DOMAIN s = 1..Len(s) /\ DOMAIN t = 1..Len(t)
      /\ \A i \in 1..Len(s) : (s \o t)[i] = s[i]
      /\ \A i \in 1..Len(t) : (s \o t)[Len(s) + i] = t[i]
  BY ConcatProperties
<1>2. \A i \in 1..(Len(s) + Len(t)) :
        i \in 1..Len(s) \/ \E j \in 1..Len(t) : i = Len(s) + j
  <2> SUFFICES ASSUME NEW i \in 1..(Len(s) + Len(t)), i \notin 1..Len(s)
               PROVE  \E j \in 1..Len(t) : i = Len(s) + j
    OBVIOUS
  <2>1. i - Len(s) \in 1..Len(t) /\ i = Len(s) + (i - Len(s))
    BY <1>1
  <2> QED BY <2>1
<1>3. /\ \A i \in 1..Len(s) : i \in 1..(Len(s) + Len(t))
      /\ \A i \in 1..Len(t) : Len(s) + i \in 1..(Len(s) + Len(t))
  BY <1>1
<1>4. Elements(s \o t) = Elements(s) \union Elements(t)
  <2>1. \A e \in Elements(s \o t) : e \in Elements(s) \/ e \in Elements(t)
    <3> SUFFICES ASSUME NEW i \in 1..(Len(s) + Len(t))
                 PROVE  (s \o t)[i] \in Elements(s) \/ (s \o t)[i] \in Elements(t)
      BY <1>1 DEF Elements
    <3>1. CASE i \in 1..Len(s)
      BY <1>1, <3>1 DEF Elements
    <3>2. ASSUME NEW j \in 1..Len(t), i = Len(s) + j PROVE (s \o t)[i] \in Elements(t)
      BY <1>1, <3>2 DEF Elements
    <3> QED BY <1>2, <3>1, <3>2
  <2>2. \A e \in Elements(s) : e \in Elements(s \o t)
    BY <1>1, <1>3 DEF Elements
  <2>3. \A e \in Elements(t) : e \in Elements(s \o t)
    <3> SUFFICES ASSUME NEW i \in 1..Len(t) PROVE t[i] \in Elements(s \o t)
      BY <1>1 DEF Elements
    <3>1. Len(s) + i \in DOMAIN (s \o t) /\ (s \o t)[Len(s) + i] = t[i]
      BY <1>1, <1>3
    <3> QED BY <3>1 DEF Elements
  <2> QED BY <2>1, <2>2, <2>3
<1>5. ASSUME OneToOne(s), OneToOne(t), Elements(s) \intersect Elements(t) = {}
      PROVE  OneToOne(s \o t)
  <2> SUFFICES ASSUME NEW i \in 1..(Len(s) + Len(t)), NEW j \in 1..(Len(s) + Len(t)),
                      (s \o t)[i] = (s \o t)[j]
               PROVE  i = j
    BY <1>1 DEF OneToOne
  <2>1. \A k \in 1..Len(s), l \in 1..Len(t) : s[k] # t[l]
    BY <1>1, <1>5 DEF Elements
  <2>2. CASE i \in 1..Len(s) /\ j \in 1..Len(s)
    BY <1>1, <1>5, <2>2 DEF OneToOne
  <2>3. CASE i \in 1..Len(s) /\ \E l \in 1..Len(t) : j = Len(s) + l
    BY <1>1, <2>1, <2>3
  <2>4. CASE j \in 1..Len(s) /\ \E l \in 1..Len(t) : i = Len(s) + l
    BY <1>1, <2>1, <2>4
  <2>5. ASSUME NEW k \in 1..Len(t), NEW l \in 1..Len(t), i = Len(s) + k, j = Len(s) + l
        PROVE  i = j
    <3>1. t[k] = t[l]
      BY <1>1, <2>5
    <3>2. k = l
      BY <1>1, <1>5, <3>1 DEF OneToOne
    <3> QED BY <2>5, <3>2
  <2> QED BY <1>2, <2>2, <2>3, <2>4, <2>5
<1> QED BY <1>4, <1>5

\* Taking the first n events of a sequence.
LEMMA SplitEvents ==
  ASSUME NEW s \in Seq(Events), NEW n \in 0..Len(s), OneToOne(s)
  PROVE  LET first == SubSeq(s, 1, n)
             rest == SubSeq(s, n + 1, Len(s))
         IN  /\ first \in Seq(Events) /\ rest \in Seq(Events)
             /\ Elements(s) = Elements(first) \union Elements(rest)
             /\ Elements(first) \intersect Elements(rest) = {}
             /\ OneToOne(rest)
<1> DEFINE first == SubSeq(s, 1, n)
           rest == SubSeq(s, n + 1, Len(s))
<1>0. Len(s) \in Nat /\ DOMAIN s = 1..Len(s) /\ n \in Nat /\ n <= Len(s)
  OBVIOUS
<1>1. /\ first \in Seq(Events) /\ DOMAIN first = 1..n
      /\ \A i \in 1..n : first[i] = s[i]
  BY <1>0, SubSeqProperties
<1>2. /\ rest \in Seq(Events) /\ DOMAIN rest = 1..(Len(s) - n)
      /\ \A i \in 1..(Len(s) - n) : rest[i] = s[n + i]
  <2> DEFINE k == n + 1
             l == Len(s)
  <2>1. k \in Int /\ l \in Int /\ \A i \in k..l : s[i] \in Events
    BY <1>0
  <2> HIDE DEF k, l
  <2>2. /\ SubSeq(s, k, l) \in Seq(Events)
        /\ Len(SubSeq(s, k, l)) = IF k <= l THEN l - k + 1 ELSE 0
        /\ \A i \in 1..(l - k + 1) : SubSeq(s, k, l)[i] = s[k + i - 1]
    BY <2>1, SubSeqProperties
  <2>3. /\ l - k + 1 = Len(s) - n /\ (IF k <= l THEN l - k + 1 ELSE 0) = Len(s) - n
        /\ \A i \in 1..(Len(s) - n) : k + i - 1 = n + i
    <3>1. k = n + 1 /\ l = Len(s) /\ n \in Nat /\ l \in Nat /\ n <= l
      BY <1>0 DEF k, l
    <3>2. l - k + 1 = l - n
      BY <3>1
    <3>3. (IF k <= l THEN l - k + 1 ELSE 0) = l - n
      BY <3>1
    <3>4. \A i \in 1..(l - n) : k + i - 1 = n + i
      BY <3>1
    <3> QED BY <3>1, <3>2, <3>3, <3>4
  <2>4. rest = SubSeq(s, k, l)
    BY DEF k, l
  <2> QED BY <2>2, <2>3, <2>4
<1> HIDE DEF first, rest
<1>3. /\ \A i \in 1..n : i \in 1..Len(s)
      /\ \A i \in 1..(Len(s) - n) : n + i \in 1..Len(s) /\ n + i \notin 1..n
      /\ \A i \in 1..Len(s) : i \in 1..n \/ \E j \in 1..(Len(s) - n) : i = n + j
  <2>1. \A i \in 1..Len(s) : i \in 1..n \/ (i - n \in 1..(Len(s) - n) /\ i = n + (i - n))
    BY <1>0
  <2>2. /\ \A i \in 1..n : i \in 1..Len(s)
        /\ \A i \in 1..(Len(s) - n) : n + i \in 1..Len(s) /\ n + i \notin 1..n
    BY <1>0
  <2> QED BY <2>1, <2>2
<1>4. Elements(s) = Elements(first) \union Elements(rest)
  <2>1. \A e : e \in Elements(s) <=> \E i \in 1..Len(s) : e = s[i]
    BY <1>0 DEF Elements
  <2>2. \A e : e \in Elements(first) <=> \E i \in 1..n : e = s[i]
    BY <1>1 DEF Elements
  <2>3. \A e : e \in Elements(rest) <=> \E i \in 1..(Len(s) - n) : e = s[n + i]
    BY <1>2 DEF Elements
  <2>4. \A e : e \in Elements(s) => e \in Elements(first) \/ e \in Elements(rest)
    BY <1>3, <2>1, <2>2, <2>3
  <2>5. \A e : e \in Elements(first) => e \in Elements(s)
    BY <1>3, <2>1, <2>2
  <2>6. \A e : e \in Elements(rest) => e \in Elements(s)
    <3> SUFFICES ASSUME NEW i \in 1..(Len(s) - n) PROVE s[n + i] \in Elements(s)
      BY <2>3
    <3> QED BY <1>3, <2>1
  <2> QED BY <2>4, <2>5, <2>6
<1>5. Elements(first) \intersect Elements(rest) = {}
  <2> SUFFICES ASSUME NEW i \in 1..n, NEW j \in 1..(Len(s) - n), s[i] = s[n + j] PROVE FALSE
    <3>1. \A e \in Elements(first) : \E i \in 1..n : e = s[i]
      BY <1>1 DEF Elements
    <3>2. \A e \in Elements(rest) : \E j \in 1..(Len(s) - n) : e = s[n + j]
      BY <1>2 DEF Elements
    <3> QED BY <3>1, <3>2
  <2>1. i \in 1..Len(s) /\ n + j \in 1..Len(s) /\ i # n + j
    BY <1>3
  <2> QED BY <1>0, <2>1 DEF OneToOne
<1>6. OneToOne(rest)
  <2> SUFFICES ASSUME NEW i \in 1..(Len(s) - n), NEW j \in 1..(Len(s) - n), rest[i] = rest[j]
               PROVE  i = j
    BY <1>2 DEF OneToOne
  <2>1. s[n + i] = s[n + j] /\ n + i \in 1..Len(s) /\ n + j \in 1..Len(s)
    BY <1>2, <1>3
  <2>2. n + i = n + j
    BY <1>0, <2>1 DEF OneToOne
  <2> QED BY <1>0, <2>2
<1> QED BY <1>1, <1>2, <1>4, <1>5, <1>6 DEF first, rest

\* The quotient that numbers the chunks.
LEMMA Quotient ==
  ASSUME NEW a \in Nat, NEW n \in Nat \ {0}
  PROVE  /\ a \div n \in Nat /\ (a \div n) * n <= a /\ a < (a \div n + 1) * n
  OBVIOUS

\* Multiplying by a positive number keeps the order.
LEMMA Times ==
  ASSUME NEW a \in Int, NEW b \in Int, NEW n \in Nat \ {0}, a * n < b * n
  PROVE  a < b
<1>1. a >= b => a * n >= b * n
  OBVIOUS
<1> QED BY <1>1

\* The chunks of a message split its events: each is in one chunk.
LEMMA ChunksSplit ==
  ASSUME NEW s \in Seq(Events), NEW n \in Nat \ {0}
  PROVE  /\ All(Chunks(s, n)) = Elements(s)
         /\ OneToOne(s) => Apart(Chunks(s, n))
<1> DEFINE m == (Len(s) + n - 1) \div n
           chunk(k) == {s[i] : i \in ((k - 1) * n + 1)..SmallerOf(k * n, Len(s))}
<1>0. Len(s) \in Nat /\ DOMAIN s = 1..Len(s) /\ Len(s) + n - 1 \in Nat
  OBVIOUS
<1>1. m \in Nat /\ Len(s) + n - 1 < (m + 1) * n
  BY <1>0, Quotient
<1>2. Chunks(s, n) = [k \in 1..m |-> chunk(k)]
  BY DEF Chunks
<1>3. \A k \in 1..m : k * n \in Nat /\ (k - 1) * n \in Nat /\ k * n = (k - 1) * n + n
  BY <1>1
<1>4. ASSUME NEW k \in 1..m, NEW e \in chunk(k)
      PROVE  \E i \in 1..Len(s) : e = s[i] /\ (k - 1) * n < i /\ i <= k * n
  <2>1. PICK i \in ((k - 1) * n + 1)..SmallerOf(k * n, Len(s)) : e = s[i]
    BY <1>4
  <2>2. SmallerOf(k * n, Len(s)) <= Len(s) /\ SmallerOf(k * n, Len(s)) <= k * n
        /\ SmallerOf(k * n, Len(s)) \in Nat
    BY <1>0, <1>3 DEF SmallerOf
  <2>3. i \in 1..Len(s) /\ (k - 1) * n < i /\ i <= k * n
    BY <1>0, <1>3, <2>2
  <2> QED BY <2>1, <2>3
<1>5. ASSUME NEW i \in 1..Len(s)
      PROVE  \E k \in 1..m : s[i] \in chunk(k)
  <2> DEFINE q == (i - 1) \div n
  <2>1. q \in Nat /\ q * n <= i - 1 /\ i - 1 < (q + 1) * n
    BY <1>0, Quotient
  <2> HIDE DEF q, m
  <2>2. (m + 1) * n = m * n + n /\ m * n \in Int /\ q * n \in Int
    BY <1>1, <2>1
  <2>3. q * n < m * n
    BY <1>0, <1>1, <2>1, <2>2
  <2>4. q < m
    BY <1>1, <2>1, <2>3, Times
  <2>5. q + 1 \in 1..m
    BY <1>1, <2>1, <2>4
  <2>6. i \in (((q + 1) - 1) * n + 1)..SmallerOf((q + 1) * n, Len(s))
    <3>1. (q + 1) - 1 = q /\ (q + 1) * n \in Int /\ i <= (q + 1) * n /\ i <= Len(s)
      BY <1>0, <2>1
    <3>2. SmallerOf((q + 1) * n, Len(s)) \in Int /\ i <= SmallerOf((q + 1) * n, Len(s))
      BY <1>0, <3>1 DEF SmallerOf
    <3> QED BY <1>0, <2>1, <2>2, <3>1, <3>2
  <2>7. s[i] \in chunk(q + 1)
    BY <2>6
  <2> QED BY <2>5, <2>7
<1> HIDE DEF m, chunk
<1>6. All(Chunks(s, n)) = Elements(s)
  <2>1. \A e : e \in All(Chunks(s, n)) <=> \E k \in 1..m : e \in chunk(k)
    BY <1>2 DEF All, Elements
  <2>2. \A e : e \in Elements(s) <=> \E i \in 1..Len(s) : e = s[i]
    BY <1>0 DEF Elements
  <2>3. \A e : e \in All(Chunks(s, n)) => e \in Elements(s)
    BY <1>4, <2>1, <2>2
  <2>4. \A e : e \in Elements(s) => e \in All(Chunks(s, n))
    BY <1>5, <2>1, <2>2
  <2> QED BY <2>3, <2>4
<1>7. ASSUME OneToOne(s), NEW k \in 1..m, NEW l \in 1..m, k < l, NEW e \in chunk(k), e \in chunk(l)
      PROVE  FALSE
  <2>1. PICK i \in 1..Len(s) : e = s[i] /\ i <= k * n
    BY <1>4
  <2>2. PICK j \in 1..Len(s) : e = s[j] /\ (l - 1) * n < j
    BY <1>4, <1>7
  <2>3. i = j
    BY <1>0, <1>7, <2>1, <2>2 DEF OneToOne
  <2>4. k * n \in Int /\ (l - 1) * n \in Int
    BY <1>3
  <2>5. (l - 1) * n < k * n
    BY <2>1, <2>2, <2>3, <2>4
  <2>6. l - 1 < k
    BY <2>5, Times
  <2> QED BY <1>7, <2>6
<1>8. ASSUME OneToOne(s) PROVE Apart(Chunks(s, n))
  <2> SUFFICES ASSUME NEW k \in 1..m, NEW l \in 1..m, k # l
               PROVE  chunk(k) \intersect chunk(l) = {}
    BY <1>2 DEF Apart
  <2>1. k < l \/ l < k
    BY <1>1
  <2> QED BY <1>7, <1>8, <2>1
<1> QED BY <1>6, <1>8
-----------------------------------------------------------------------------
(***************************************************************************)
(* Placement: the worker receives.                                         *)
(***************************************************************************)
\* The worker moves events of one place to another: they keep their slots.
LEMMA MoveWithin ==
  ASSUME TypeOK, TypeOK', Placement, NEW t \in Accepted, NEW s \in Accepted, t # s,
         NEW S \in SUBSET With(t), status' = Move(S, s), UNCHANGED <<callVars, len, alive, reported>>
  PROVE  /\ CallsPlaced' /\ Sound
         /\ With(s)' = With(s) \union S /\ S \intersect With(s) = {}
         /\ With(t)' = With(t) \ S
         /\ \A u : u \notin {s, t} => Kept(u)
<1>0. LedgerTyped /\ LedgerTyped' /\ CallsPlaced
  BY DEF TypeOK, Placement
<1>1. S \in SUBSET Events /\ \A e \in S : status[e] = t
  BY DEF With
<1>2. /\ \A e \in Events : status'[e] = IF e \in S THEN s ELSE status[e]
      /\ With(s)' = With(s) \union S
      /\ With(t)' = With(t) \ S
      /\ \A u : u # s /\ S \intersect With(u) = {} => Kept(u)
  <2>1. /\ \A e \in Events : status'[e] = IF e \in S THEN s ELSE status[e]
        /\ With(s)' = With(s) \union S
        /\ \A u : u # s => With(u)' = With(u) \ S
        /\ \A u : u # s /\ S \intersect With(u) = {} => Kept(u)
    BY <1>0, <1>1, Moved
  <2> QED BY <2>1
<1>3. /\ \A u : u # t => S \intersect With(u) = {}
  BY OneStatus
<1>4. t \in Held /\ s \in Held /\ t \notin {"new", "reserved"}
  BY DEF Accepted, Held
<1>5. CallsPlaced'
  <2>1. \A e \in Events : status[e] \in {"new", "reserved"} => status'[e] = status[e]
    BY <1>1, <1>2, <1>4
  <2> QED BY <1>0, <2>1, CallsKept
<1>6. Sound
  <2>1. \A e \in Events : FateOf(status'[e]) = FateOf(status[e])
    BY <1>1, <1>2, <1>4, Fates
  <2>2. UNCHANGED Ledger!vars
    BY <2>1, LedgerStutter
  <2>3. t \in Status \ Settled /\ s \in Status \ {"rejected"}
    BY <1>4 DEF Status, Held, Settled
  <2> QED BY <1>0, <2>2, <2>3, MoveSound
<1> QED BY <1>2, <1>3, <1>5, <1>6

\* Receiving a message with events: they are apart from those of the channel's rest.
LEMMA TakenEvents ==
  ASSUME channel \in Seq(Control), ChannelPlaced, channel # <<>>, Head(channel) \in CaptureMessage
  PROVE  LET S == Elements(Head(channel).events) IN
         /\ Head(channel).events \in Seq(Events) /\ OneToOne(Head(channel).events)
         /\ Head(channel).events # <<>>
         /\ S \in SUBSET With("queued")
         /\ With("queued") \ S = All(Carried(Tail(channel))) /\ Apart(Carried(Tail(channel)))
         /\ \A i \in DOMAIN Tail(channel) : Tail(channel)[i] \in CaptureMessage =>
              Tail(channel)[i].events # <<>> /\ OneToOne(Tail(channel)[i].events)
<1>1. Load(Head(channel)) = Elements(Head(channel).events)
      /\ Head(channel).events \in Seq(Events)
  BY DEF Load, CaptureMessage
<1>2. /\ All(Carried(channel)) = Load(Head(channel)) \union All(Carried(Tail(channel)))
      /\ Apart(Carried(Tail(channel)))
      /\ Load(Head(channel)) \intersect All(Carried(Tail(channel))) = {}
  BY TakenMessage DEF ChannelPlaced
<1>3. With("queued") = All(Carried(channel))
  BY DEF ChannelPlaced
<1>4. /\ Head(channel) = channel[1] /\ 1 \in DOMAIN channel
      /\ \A i \in DOMAIN Tail(channel) : i + 1 \in DOMAIN channel /\ Tail(channel)[i] = channel[i + 1]
  BY HeadTailProperties, EmptySeq
<1> QED BY <1>1, <1>2, <1>3, <1>4 DEF ChannelPlaced

\* The kind of a message says whether it carries events.
LEMMA CaptureKinds ==
  ASSUME channel \in Seq(Control), channel # <<>>,
         Head(channel).kind \in {"Capture", "HistoricalBatch"} \/ Head(channel) \notin ControlMessage
  PROVE  Head(channel) \in CaptureMessage
<1>1. Head(channel) \in Control
  BY HeadTailProperties
<1> QED BY <1>1 DEF Control, ControlMessage

\* What a received message leaves of the channel.
LEMMA ReceivedPlaced ==
  ASSUME channel \in Seq(Control), ChannelPlaced, channel # <<>>, Head(channel) \in CaptureMessage,
         channel' = Tail(channel),
         With("queued")' = With("queued") \ Elements(Head(channel).events)
  PROVE  ChannelPlaced'
<1>1. /\ With("queued") \ Elements(Head(channel).events) = All(Carried(Tail(channel)))
      /\ Apart(Carried(Tail(channel)))
      /\ \A i \in DOMAIN Tail(channel) : Tail(channel)[i] \in CaptureMessage =>
           Tail(channel)[i].events # <<>> /\ OneToOne(Tail(channel)[i].events)
  BY TakenEvents
<1> QED BY <1>1 DEF ChannelPlaced

\* The worker receives events.
LEMMA ReceiveEventsSound ==
  ASSUME TypeOK, TypeOK', Placement, ReceiveCapture \/ ReceiveHistorical
  PROVE  Placement' /\ Sound
<1> DEFINE ev == Head(channel).events
           S == Elements(ev)
<1>0. /\ channel \in Seq(Control) /\ LedgerTyped /\ buffer \in Seq(Events)
      /\ historical \in Seq(SUBSET Events)
      /\ CallsPlaced /\ ChannelPlaced /\ StoresPlaced /\ BatchesPlaced /\ CondemnedPlaced
      /\ WorkerPlaced
  BY DEF TypeOK, StoresTyped, Placement
<1>1. /\ channel # <<>> /\ Head(channel).kind \in {"Capture", "HistoricalBatch"}
      /\ channel' = Tail(channel) /\ alive /\ todo = <<>>
      /\ UNCHANGED <<callVars, len, alive, reported, batchVars>>
  BY DEF ReceiveCapture, ReceiveHistorical, Receiving
<1>2. Head(channel) \in CaptureMessage
  BY <1>0, <1>1, CaptureKinds
<1>3. /\ ev \in Seq(Events) /\ OneToOne(ev) /\ S \in SUBSET With("queued") /\ S \in SUBSET Events
  BY <1>0, <1>1, <1>2, TakenEvents DEF With
<1> HIDE DEF ev, S
<1>4. {"queued", "buffered", "historical"} \subseteq Accepted
  BY DEF Accepted, Held
<1>5. ASSUME NEW s \in {"buffered", "historical"}, status' = Move(S, s), StoresPlaced'
      PROVE  Placement' /\ Sound
  <2>1. /\ CallsPlaced' /\ Sound /\ With("queued")' = With("queued") \ S
        /\ \A u : u \notin {s, "queued"} => Kept(u)
    BY <1>1, <1>3, <1>4, <1>5, MoveWithin
  <2>2. Kept("inflight") /\ Kept("retrying") /\ Kept("sweeping") /\ Kept("condemned")
    BY <2>1
  <2>3. ChannelPlaced'
    BY <1>0, <1>1, <1>2, <2>1, ReceivedPlaced DEF S, ev
  <2>4. WorkerPlaced'
    BY <1>0, <1>1 DEF WorkerPlaced, batchVars
  <2> QED BY <1>0, <1>1, <1>5, <2>1, <2>2, <2>3, <2>4, BatchesKept, CondemnedKept
          DEF Placement, batchVars
<1>6. CASE ReceiveCapture
  <2>1. status' = Move(S, "buffered") /\ buffer' = buffer \o ev /\ UNCHANGED historical
    BY <1>6 DEF ReceiveCapture, S, ev
  <2>2. /\ With("buffered")' = With("buffered") \union S /\ S \intersect With("buffered") = {}
        /\ Kept("historical")
    BY <1>1, <1>3, <1>4, <2>1, MoveWithin
  <2>3. Elements(buffer) = With("buffered") /\ OneToOne(buffer)
    BY <1>0 DEF StoresPlaced
  <2>4. Elements(buffer') = With("buffered")' /\ OneToOne(buffer')
    <3>1. Elements(buffer) \intersect Elements(ev) = {}
      BY <2>2, <2>3 DEF S
    <3>2. Elements(buffer \o ev) = Elements(buffer) \union Elements(ev) /\ OneToOne(buffer \o ev)
      BY <1>0, <1>3, <2>3, <3>1, JoinedEvents
    <3> QED BY <2>1, <2>2, <2>3, <3>2 DEF S
  <2>5. StoresPlaced'
    BY <1>0, <2>1, <2>2, <2>4 DEF StoresPlaced, Kept
  <2> QED BY <1>5, <2>1, <2>5
<1>7. CASE ReceiveHistorical
  <2> DEFINE n == AtLeastOne(MaxBatchSize)
             t == Chunks(ev, n)
  <2>1. status' = Move(S, "historical") /\ historical' = historical \o t /\ UNCHANGED buffer
    BY <1>7 DEF ReceiveHistorical, S, ev
  <2>2. /\ With("historical")' = With("historical") \union S /\ S \intersect With("historical") = {}
        /\ Kept("buffered")
    BY <1>1, <1>3, <1>4, <2>1, MoveWithin
  <2>3. All(historical) = With("historical") /\ Apart(historical)
    BY <1>0 DEF StoresPlaced
  <2>4. t \in Seq(SUBSET Events) /\ All(t) = S /\ Apart(t)
    <3>1. n \in Nat \ {0}
      BY AtLeastOneType, TransportAssumption
    <3> QED BY <1>3, <3>1, ChunksType, ChunksSplit DEF S
  <2> HIDE DEF t
  <2>5. All(historical') = With("historical")' /\ Apart(historical')
    <3>1. All(historical) \intersect All(t) = {}
      BY <2>2, <2>3, <2>4
    <3>2. All(historical \o t) = All(historical) \union All(t) /\ Apart(historical \o t)
      BY <1>0, <2>3, <2>4, <3>1, JoinedSets
    <3> QED BY <2>1, <2>2, <2>3, <2>4, <3>2
  <2>6. StoresPlaced'
    BY <1>0, <2>1, <2>2, <2>5 DEF StoresPlaced, Kept
  <2> QED BY <1>5, <2>1, <2>6
<1> QED BY <1>6, <1>7
-----------------------------------------------------------------------------
(***************************************************************************)
(* Placement: the worker drains its stores.                                *)
(***************************************************************************)
\* A step of the worker that settles the events of S, or finalizes them ahead of their batch.
LEMMA SettleSound ==
  ASSUME LedgerTyped, LedgerTyped', len \in Nat, SlotAccounting, alive, UNCHANGED alive,
         NEW S \in SUBSET Events, \A e \in S : status[e] \in Held /\ status'[e] \in Ends,
         \A e \in Events \ S : FateOf(status'[e]) = FateOf(status[e]),
         SettledStay,
         Tallied,
         len' = Released(Cardinality(S))
  PROVE  Sound
<1>1. len' = len - Cardinality(S)
  BY SlotsHeld
<1>2. Ledger!Settle
  BY <1>1, SettleStep
<1>3. "rejected" \in Settled
  BY DEF Settled
<1>4. ReportedOnce => ReportedOnce'
  BY TalliedOnce
<1> QED BY <1>2, <1>4 DEF Sound, Ledger!Next

\* Where the worker's steps find the events.
LEMMA StoresHold ==
  /\ {"queued", "buffered", "historical", "inflight", "retrying", "sweeping"} = Accepted
  /\ \A s \in Accepted : s \in Held /\ s \notin Settled /\ s \notin {"new", "reserved", "condemned"}
  /\ "condemned" \notin Settled
  BY DEF Accepted, Held, Settled

\* A chunk of a store becomes the batch being attempted, less what before_send discards.
LEMMA SendBatchSound ==
  ASSUME TypeOK, TypeOK', SlotAccounting, Placement, NEW t \in {"buffered", "historical"},
         NEW S \in SUBSET With(t), SendBatch(S), alive, inflight = <<>>,
         UNCHANGED <<callVars, alive, reported, todo, retries, sweep, channel>>
  PROVE  /\ CallsPlaced' /\ ChannelPlaced' /\ BatchesPlaced' /\ CondemnedPlaced' /\ WorkerPlaced'
         /\ Sound /\ With(t)' = With(t) \ S
         /\ \A u \in {"buffered", "historical"} \ {t} : Kept(u)
<1> DEFINE kept == S \ Filtered
           b == [pending |-> kept, undelivered |-> {}, attempt |-> 1, due |-> FALSE]
<1>0. /\ LedgerTyped /\ LedgerTyped' /\ len \in Nat
      /\ CallsPlaced /\ ChannelPlaced /\ BatchesPlaced /\ CondemnedPlaced /\ WorkerPlaced
  BY DEF TypeOK, Placement
<1>1. S \in SUBSET Events /\ \A e \in S : status[e] = t
  BY DEF With
<1>2. /\ len' = Released(Cardinality(S \ kept))
      /\ inflight' = IF kept = {} THEN <<>> ELSE <<b>>
      /\ \A e \in Events : status'[e] = IF e \in S \ kept THEN "filtered"
                                        ELSE IF e \in kept THEN "inflight" ELSE status[e]
  BY DEF SendBatch, Move, Mark
<1>3. b \in Batch /\ b.pending = kept /\ b.undelivered = {}
  BY <1>1 DEF Batch
<1> HIDE DEF b
<1>4. CallsPlaced'
  <2>1. \A e \in Events : status[e] \in {"new", "reserved"} => status'[e] = status[e]
    BY <1>1, <1>2
  <2> QED BY <1>0, <2>1, CallsKept
<1>5. /\ \A u : u \notin {t, "inflight", "filtered"} => Kept(u)
      /\ With(t)' = With(t) \ S
      /\ With("inflight")' = With("inflight") \union kept
  <2>1. \A u : u \notin {t, "inflight", "filtered"} => Kept(u)
    BY <1>1, <1>2 DEF Kept, With
  <2>2. With(t)' = With(t) \ S
    BY <1>1, <1>2 DEF With
  <2>3. With("inflight")' = With("inflight") \union kept
    BY <1>1, <1>2 DEF With
  <2> QED BY <2>1, <2>2, <2>3
<1>6. Sound
  <2>1. \A e \in S \ kept : status[e] \in Held /\ status'[e] \in Ends
    BY <1>1, <1>2 DEF Held, Ends
  <2>2. \A e \in Events \ (S \ kept) : FateOf(status'[e]) = FateOf(status[e])
    <3>1. "inflight" \in Held /\ t \in Held
      BY DEF Held
    <3> QED BY <1>1, <1>2, <3>1, Fates
  <2>3. SettledStay
    BY <1>1, <1>2 DEF SettledStay, Settled
  <2>4. Tallied
    <3>1. \A e \in Events : ~NewlyRejected(e)
      BY <1>1, <1>2 DEF NewlyRejected
    <3> QED BY <3>1, NoneTallied
  <2>5. S \ kept \in SUBSET Events
    BY <1>1
  <2> HIDE DEF kept
  <2> QED BY <1>0, <1>2, <2>1, <2>2, <2>3, <2>4, <2>5, SettleSound
<1>7. With("inflight") = {} /\ All(Pendings(inflight)) = {} /\ All(Undelivereds(inflight)) = {}
  BY <1>0, NoBatches DEF BatchesPlaced
<1>8. /\ Len(inflight') <= 1
      /\ All(Pendings(inflight')) = kept /\ All(Undelivereds(inflight')) = {}
  <2>1. CASE kept = {}
    BY <1>2, <2>1, NoBatches
  <2>2. CASE kept # {}
    <3>1. inflight' = <<b>> /\ Len(<<b>>) = 1
      BY <1>2, <2>2
    <3> QED BY <1>3, <3>1, LoneBatch
  <2> QED BY <2>1, <2>2
<1>9. BatchesPlaced'
  <2>1. Kept("retrying") /\ Kept("sweeping")
    BY <1>5
  <2> QED BY <1>0, <1>5, <1>7, <1>8, <2>1 DEF BatchesPlaced, Kept, Pendings
<1>10. CondemnedPlaced'
  <2>1. Kept("condemned")
    BY <1>5
  <2> QED BY <1>0, <1>7, <1>8, <2>1 DEF CondemnedPlaced, Kept, Undelivereds
<1>11. ChannelPlaced'
  BY <1>0, <1>5, ChannelKept
<1>12. WorkerPlaced'
  BY <1>0 DEF WorkerPlaced
<1> QED BY <1>4, <1>5, <1>6, <1>9, <1>10, <1>11, <1>12

\* The next chunk of the buffer, or of the historical events.
LEMMA SendChunkSound ==
  ASSUME TypeOK, TypeOK', SlotAccounting, Placement, SendBufferChunk \/ SendHistoricalChunk
  PROVE  Placement' /\ Sound
<1>0. buffer \in Seq(Events) /\ historical \in Seq(SUBSET Events) /\ StoresPlaced
  BY DEF TypeOK, StoresTyped, Placement
<1>1. /\ alive /\ inflight = <<>>
      /\ UNCHANGED <<callVars, alive, reported, todo, retries, sweep, channel>>
  BY DEF SendBufferChunk, SendHistoricalChunk, Doing, workerVars
<1>2. CASE SendBufferChunk
  <2> DEFINE take == SmallerOf(Len(buffer), AtLeastOne(MaxBatchSize))
             first == SubSeq(buffer, 1, take)
             rest == SubSeq(buffer, take + 1, Len(buffer))
             S == Elements(first)
  <2>1. take \in 0..Len(buffer)
    <3>1. AtLeastOne(MaxBatchSize) \in Nat /\ Len(buffer) \in Nat
      BY <1>0, AtLeastOneType, TransportAssumption
    <3> QED BY <3>1 DEF SmallerOf
  <2>2. With("buffered") = Elements(buffer) /\ OneToOne(buffer)
    BY <1>0 DEF StoresPlaced
  <2>3. /\ Elements(buffer) = S \union Elements(rest) /\ S \intersect Elements(rest) = {}
        /\ OneToOne(rest)
    <3> HIDE DEF take
    <3> QED BY <1>0, <2>1, <2>2, SplitEvents
  <2>4. SendBatch(S) /\ buffer' = rest /\ UNCHANGED historical
    BY <1>2 DEF SendBufferChunk
  <2> HIDE DEF S, rest
  <2>5. S \in SUBSET With("buffered")
    BY <2>2, <2>3
  <2>6. /\ CallsPlaced' /\ ChannelPlaced' /\ BatchesPlaced' /\ CondemnedPlaced' /\ WorkerPlaced'
        /\ Sound /\ With("buffered")' = With("buffered") \ S /\ Kept("historical")
    BY <1>1, <2>4, <2>5, SendBatchSound
  <2>7. StoresPlaced'
    <3>1. With("buffered")' = Elements(rest)
      BY <2>2, <2>3, <2>6
    <3> QED BY <1>0, <2>3, <2>4, <2>6, <3>1 DEF StoresPlaced, Kept
  <2> QED BY <2>6, <2>7 DEF Placement
<1>3. CASE SendHistoricalChunk
  <2> DEFINE S == Head(historical)
  <2>1. historical # <<>> /\ SendBatch(S) /\ historical' = Tail(historical) /\ UNCHANGED buffer
    BY <1>3 DEF SendHistoricalChunk
  <2>2. With("historical") = All(historical) /\ Apart(historical)
    BY <1>0 DEF StoresPlaced
  <2>3. /\ All(historical) = S \union All(Tail(historical)) /\ S \intersect All(Tail(historical)) = {}
        /\ Apart(Tail(historical))
    BY <1>0, <2>1, <2>2, FirstOfSets
  <2> HIDE DEF S
  <2>5. S \in SUBSET With("historical")
    BY <2>2, <2>3
  <2>6. /\ CallsPlaced' /\ ChannelPlaced' /\ BatchesPlaced' /\ CondemnedPlaced' /\ WorkerPlaced'
        /\ Sound /\ With("historical")' = With("historical") \ S /\ Kept("buffered")
    BY <1>1, <2>1, <2>5, SendBatchSound
  <2>7. StoresPlaced'
    <3>1. With("historical")' = All(Tail(historical))
      BY <2>2, <2>3, <2>6
    <3> QED BY <1>0, <2>1, <2>3, <2>6, <3>1 DEF StoresPlaced, Kept
  <2> QED BY <2>6, <2>7 DEF Placement
<1> QED BY <1>2, <1>3

\* The worker abandons all the events of a place.
LEMMA AbandonSound ==
  ASSUME TypeOK, TypeOK', SlotAccounting, CallsPlaced, NEW t \in Accepted,
         NEW S \in SUBSET With(t), Abandon(S), status' = Move(S, "abandoned"), alive,
         UNCHANGED <<callVars, alive, reported>>
  PROVE  /\ CallsPlaced' /\ Sound
         /\ With(t)' = With(t) \ S
         /\ \A u : u \notin {t, "abandoned"} => Kept(u)
<1>0. LedgerTyped /\ LedgerTyped' /\ len \in Nat /\ len' = Released(Cardinality(S))
  BY DEF TypeOK, Abandon
<1>1. S \in SUBSET Events /\ \A e \in S : status[e] = t
  BY DEF With
<1>2. \A e \in Events : status'[e] = IF e \in S THEN "abandoned" ELSE status[e]
  BY <1>0, <1>1, Moved
<1>3. t \in Held /\ t \notin Settled /\ t \notin {"new", "reserved", "abandoned"}
  BY DEF Accepted, Held, Settled
<1>4. CallsPlaced'
  <2>1. \A e \in Events : status[e] \in {"new", "reserved"} => status'[e] = status[e]
    BY <1>1, <1>2, <1>3
  <2> QED BY <2>1, CallsKept
<1>5. With(t)' = With(t) \ S /\ \A u : u \notin {t, "abandoned"} => Kept(u)
  <2>1. With(t)' = With(t) \ S
    BY <1>1, <1>2, <1>3 DEF With
  <2>2. \A u : u \notin {t, "abandoned"} => Kept(u)
    BY <1>1, <1>2, <1>3 DEF With, Kept
  <2> QED BY <2>1, <2>2
<1>6. Sound
  <2>1. \A e \in S : status[e] \in Held /\ status'[e] \in Ends
    BY <1>1, <1>2, <1>3 DEF Ends
  <2>2. \A e \in Events \ S : FateOf(status'[e]) = FateOf(status[e])
    BY <1>2
  <2>3. SettledStay
    BY <1>1, <1>2, <1>3 DEF SettledStay
  <2>4. Tallied
    <3>1. \A e \in Events : ~NewlyRejected(e)
      BY <1>1, <1>2 DEF NewlyRejected
    <3> QED BY <3>1, NoneTallied
  <2> QED BY <1>0, <1>1, <2>1, <2>2, <2>3, <2>4, SettleSound
<1> QED BY <1>4, <1>5, <1>6

\* At the deadline of a shutdown a store is dropped.
LEMMA DropStoreSound ==
  ASSUME TypeOK, TypeOK', SlotAccounting, Placement, DropBuffer \/ DropHistorical
  PROVE  Placement' /\ Sound
<1>0. /\ CallsPlaced /\ ChannelPlaced /\ StoresPlaced /\ BatchesPlaced /\ CondemnedPlaced
      /\ WorkerPlaced
  BY DEF Placement
<1>1. /\ alive
      /\ UNCHANGED <<callVars, alive, reported, todo, channel, inflight, retries, sweep>>
  BY DEF DropBuffer, DropHistorical, Doing, workerVars, batchVars
<1>2. {"buffered", "historical"} \subseteq Accepted
  BY StoresHold
<1>3. ASSUME NEW t \in {"buffered", "historical"}, Abandon(With(t)),
             status' = Move(With(t), "abandoned"),
             t = "buffered" => buffer' = <<>> /\ UNCHANGED historical,
             t = "historical" => historical' = <<>> /\ UNCHANGED buffer
      PROVE  Placement' /\ Sound
  <2>1. /\ CallsPlaced' /\ Sound /\ With(t)' = {}
        /\ \A u : u \notin {t, "abandoned"} => Kept(u)
    BY <1>0, <1>1, <1>2, <1>3, AbandonSound
  <2>2. /\ Kept("queued") /\ Kept("inflight") /\ Kept("retrying") /\ Kept("sweeping")
        /\ Kept("condemned")
        /\ t = "buffered" => Kept("historical")
        /\ t = "historical" => Kept("buffered")
    BY <2>1
  <2>3. StoresPlaced'
    BY <1>0, <1>3, <2>1, <2>2, NoSets DEF StoresPlaced, Kept
  <2> QED BY <1>0, <1>1, <2>1, <2>2, <2>3, ChannelKept, BatchesKept, CondemnedKept, WorkerKept
          DEF Placement
<1>4. CASE DropBuffer
  <2>1. With("buffered") = Elements(buffer)
    BY <1>0 DEF StoresPlaced
  <2> QED BY <1>3, <1>4, <2>1 DEF DropBuffer
<1>5. CASE DropHistorical
  <2>1. With("historical") = UNION Elements(historical)
    BY <1>0 DEF StoresPlaced, All
  <2> QED BY <1>3, <1>5, <2>1 DEF DropHistorical
<1> QED BY <1>4, <1>5
-----------------------------------------------------------------------------
(***************************************************************************)
(* Placement: the worker sweeps its retries.                               *)
(***************************************************************************)
\* The retries become the sweep.
LEMMA TakeRetriesSound ==
  ASSUME TypeOK, TypeOK', Placement, FlushRetries \/ AttemptDue
  PROVE  Placement' /\ Sound
<1>0. /\ CallsPlaced /\ ChannelPlaced /\ StoresPlaced /\ BatchesPlaced /\ CondemnedPlaced
      /\ WorkerPlaced /\ todo \in Seq(Work)
  BY DEF Placement, TypeOK, WorkerTyped
<1>1. /\ alive /\ todo # <<>> /\ Head(todo) \in {"flush_retries", "attempt_due"}
      /\ \E next \in {"retry_sweep", "due_sweep"} : todo' = <<next>> \o Tail(todo)
      /\ sweep' = retries /\ retries' = <<>> /\ status' = Move(With("retrying"), "sweeping")
      /\ UNCHANGED <<callVars, len, channel, alive, buffer, historical, inflight, reported>>
  BY DEF FlushRetries, AttemptDue, TakeRetries, Doing, storeVars
<1>2. sweep = <<>>
  BY <1>0, <1>1 DEF WorkerPlaced
<1>3. /\ CallsPlaced' /\ Sound
      /\ With("sweeping")' = With("sweeping") \union With("retrying") /\ With("retrying")' = {}
      /\ Kept("queued") /\ Kept("buffered") /\ Kept("historical") /\ Kept("inflight")
      /\ Kept("condemned")
  <2>1. "retrying" \in Accepted /\ "sweeping" \in Accepted /\ With("retrying") \in SUBSET With("retrying")
    BY StoresHold
  <2>2. /\ CallsPlaced' /\ Sound
        /\ With("sweeping")' = With("sweeping") \union With("retrying")
        /\ With("retrying")' = With("retrying") \ With("retrying")
        /\ \A u : u \notin {"sweeping", "retrying"} => Kept(u)
    BY <1>1, <2>1, MoveWithin
  <2> QED BY <2>2
<1>4. BatchesPlaced'
  <2>1. With("sweeping") = {}
    BY <1>0, <1>2, NoBatches DEF BatchesPlaced
  <2>2. With("sweeping")' = All(Pendings(retries)) /\ Apart(Pendings(retries))
    BY <1>0, <1>3, <2>1 DEF BatchesPlaced
  <2> QED BY <1>0, <1>1, <1>3, <2>2, NoBatches DEF BatchesPlaced, Kept, Pendings
<1>5. CondemnedPlaced'
  <2>1. /\ All(Undelivereds(sweep)) = {} /\ All(Undelivereds(retries')) = {}
        /\ Apart(Undelivereds(retries'))
    BY <1>1, <1>2, NoBatches
  <2> QED BY <1>0, <1>1, <1>3, <2>1 DEF CondemnedPlaced, Kept, Undelivereds
<1>6. WorkerPlaced'
  <2>1. todo' # <<>> /\ Head(todo') \in {"retry_sweep", "due_sweep"}
    <3>1. PICK next \in {"retry_sweep", "due_sweep"} : todo' = <<next>> \o Tail(todo)
      BY <1>1
    <3>2. <<next>> \in Seq(Work) /\ Tail(todo) \in Seq(Work)
      BY <1>0, <1>1, HeadTailProperties DEF Work
    <3>3. Len(todo') = 1 + Len(Tail(todo)) /\ todo'[1] = next /\ Len(Tail(todo)) \in Nat
      BY <3>1, <3>2, ConcatProperties
    <3> QED BY <3>3
  <2> QED BY <1>1, <2>1 DEF WorkerPlaced
<1> QED BY <1>0, <1>1, <1>3, <1>4, <1>5, <1>6, ChannelKept, StoresKept DEF Placement

\* The batch at the front of the sweep.
LEMMA SweptBatch ==
  ASSUME TypeOK, Placement, sweep # <<>>
  PROVE  LET b == Head(sweep) IN
         /\ b \in Batch /\ Tail(sweep) \in Seq(Batch)
         /\ b.pending \in SUBSET With("sweeping")
         /\ With("sweeping") \ b.pending = All(Pendings(Tail(sweep)))
         /\ Apart(Pendings(Tail(sweep)))
         /\ b.undelivered \in SUBSET With("condemned")
         /\ All(Undelivereds(sweep)) = b.undelivered \union All(Undelivereds(Tail(sweep)))
         /\ Apart(Undelivereds(Tail(sweep)))
         /\ b.undelivered \intersect All(Undelivereds(Tail(sweep))) = {}
<1> DEFINE b == Head(sweep)
<1>0. sweep \in Seq(Batch) /\ BatchesPlaced /\ CondemnedPlaced
  BY DEF TypeOK, BatchesTyped, Placement
<1>1. b \in Batch /\ Tail(sweep) \in Seq(Batch)
  BY <1>0, HeadBatch
<1>2. /\ All(Pendings(sweep)) = b.pending \union All(Pendings(Tail(sweep)))
      /\ All(Undelivereds(sweep)) = b.undelivered \union All(Undelivereds(Tail(sweep)))
      /\ Apart(Pendings(sweep)) => /\ Apart(Pendings(Tail(sweep)))
                                   /\ b.pending \intersect All(Pendings(Tail(sweep))) = {}
      /\ Apart(Undelivereds(sweep)) =>
           /\ Apart(Undelivereds(Tail(sweep)))
           /\ b.undelivered \intersect All(Undelivereds(Tail(sweep))) = {}
  BY <1>0, TakenBatch
<1> HIDE DEF b
<1>3. /\ With("sweeping") = All(Pendings(sweep)) /\ Apart(Pendings(sweep))
  BY <1>0 DEF BatchesPlaced
<1>4. /\ All(Undelivereds(sweep)) \in SUBSET With("condemned") /\ Apart(Undelivereds(sweep))
  BY <1>0 DEF CondemnedPlaced
<1> QED BY <1>1, <1>2, <1>3, <1>4 DEF b

\* A batch of the sweep is attempted, or goes back to the retries.
LEMMA SweepSound ==
  ASSUME TypeOK, TypeOK', Placement, AttemptRetry \/ KeepRetry
  PROVE  Placement' /\ Sound
<1> DEFINE b == Head(sweep)
<1>0. /\ CallsPlaced /\ ChannelPlaced /\ StoresPlaced /\ BatchesPlaced /\ CondemnedPlaced
      /\ WorkerPlaced /\ retries \in Seq(Batch)
  BY DEF Placement, TypeOK, BatchesTyped
<1>1. /\ sweep # <<>> /\ alive /\ inflight = <<>> /\ sweep' = Tail(sweep)
      /\ UNCHANGED <<callVars, len, channel, alive, todo, buffer, historical, reported>>
  BY DEF AttemptRetry, KeepRetry, Doing, workerVars, storeVars
<1>2. /\ b \in Batch /\ Tail(sweep) \in Seq(Batch)
      /\ b.pending \in SUBSET With("sweeping")
      /\ With("sweeping") \ b.pending = All(Pendings(Tail(sweep)))
      /\ Apart(Pendings(Tail(sweep)))
      /\ b.undelivered \in SUBSET With("condemned")
      /\ All(Undelivereds(sweep)) = b.undelivered \union All(Undelivereds(Tail(sweep)))
      /\ Apart(Undelivereds(Tail(sweep)))
      /\ b.undelivered \intersect All(Undelivereds(Tail(sweep))) = {}
  BY <1>1, SweptBatch
<1> HIDE DEF b
<1>3. WorkerPlaced'
  <2>1. sweep' # <<>> => todo' # <<>> /\ Head(todo') \in {"retry_sweep", "due_sweep"}
    BY <1>0, <1>1 DEF WorkerPlaced
  <2> QED BY <1>1, <2>1 DEF WorkerPlaced
<1>4. CASE AttemptRetry
  <2>1. inflight' = <<b>> /\ UNCHANGED retries /\ status' = Move(b.pending, "inflight")
    BY <1>4 DEF AttemptRetry, b
  <2>2. /\ CallsPlaced' /\ Sound
        /\ With("inflight")' = With("inflight") \union b.pending
        /\ With("sweeping")' = With("sweeping") \ b.pending
        /\ Kept("queued") /\ Kept("buffered") /\ Kept("historical") /\ Kept("retrying")
        /\ Kept("condemned")
    <3>1. "sweeping" \in Accepted /\ "inflight" \in Accepted
      BY StoresHold
    <3>2. /\ CallsPlaced' /\ Sound
          /\ With("inflight")' = With("inflight") \union b.pending
          /\ With("sweeping")' = With("sweeping") \ b.pending
          /\ \A u : u \notin {"inflight", "sweeping"} => Kept(u)
      BY <1>1, <1>2, <2>1, <3>1, MoveWithin
    <3> QED BY <3>2
  <2>3. /\ With("inflight") = {} /\ All(Undelivereds(inflight)) = {}
        /\ All(Pendings(inflight')) = b.pending /\ All(Undelivereds(inflight')) = b.undelivered
        /\ Len(inflight') = 1
    BY <1>0, <1>1, <1>2, <2>1, NoBatches, LoneBatch DEF BatchesPlaced
  <2>4. BatchesPlaced'
    <3>1. /\ With("retrying") = All(Pendings(retries)) /\ Apart(Pendings(retries))
          /\ With("inflight") = All(Pendings(inflight)) /\ Len(inflight) <= 1
      BY <1>0 DEF BatchesPlaced
    <3>2. With("inflight")' = b.pending /\ With("sweeping")' = All(Pendings(Tail(sweep)))
          /\ With("retrying")' = With("retrying")
      BY <1>2, <2>2, <2>3 DEF Kept
    <3> QED BY <1>1, <1>2, <2>1, <2>3, <3>1, <3>2 DEF BatchesPlaced
  <2>5. CondemnedPlaced'
    <3>1. /\ With("condemned") = All(Undelivereds(inflight)) \union All(Undelivereds(retries))
                                    \union All(Undelivereds(sweep))
          /\ Apart(Undelivereds(retries))
          /\ All(Undelivereds(inflight)) \intersect All(Undelivereds(retries)) = {}
          /\ All(Undelivereds(inflight)) \intersect All(Undelivereds(sweep)) = {}
          /\ All(Undelivereds(retries)) \intersect All(Undelivereds(sweep)) = {}
      BY <1>0 DEF CondemnedPlaced
    <3>2. With("condemned")' = With("condemned")
      BY <2>2 DEF Kept
    <3> QED BY <1>1, <1>2, <2>1, <2>3, <3>1, <3>2 DEF CondemnedPlaced
  <2> QED BY <1>0, <1>1, <1>3, <2>2, <2>4, <2>5, ChannelKept, StoresKept DEF Placement
<1>5. CASE KeepRetry
  <2>1. retries' = Append(retries, b) /\ UNCHANGED inflight /\ status' = Move(b.pending, "retrying")
    BY <1>5 DEF KeepRetry, b
  <2>2. /\ CallsPlaced' /\ Sound
        /\ With("retrying")' = With("retrying") \union b.pending
        /\ b.pending \intersect With("retrying") = {}
        /\ With("sweeping")' = With("sweeping") \ b.pending
        /\ Kept("queued") /\ Kept("buffered") /\ Kept("historical") /\ Kept("inflight")
        /\ Kept("condemned")
    <3>1. "sweeping" \in Accepted /\ "retrying" \in Accepted
      BY StoresHold
    <3>2. /\ CallsPlaced' /\ Sound
          /\ With("retrying")' = With("retrying") \union b.pending
          /\ b.pending \intersect With("retrying") = {}
          /\ With("sweeping")' = With("sweeping") \ b.pending
          /\ \A u : u \notin {"retrying", "sweeping"} => Kept(u)
      BY <1>1, <1>2, <2>1, <3>1, MoveWithin
    <3> QED BY <3>2
  <2>3. /\ All(Pendings(retries')) = All(Pendings(retries)) \union b.pending
        /\ All(Undelivereds(retries')) = All(Undelivereds(retries)) \union b.undelivered
        /\ Apart(Pendings(retries)) /\ b.pending \intersect All(Pendings(retries)) = {} =>
              Apart(Pendings(retries'))
        /\ Apart(Undelivereds(retries)) /\ b.undelivered \intersect All(Undelivereds(retries)) = {} =>
              Apart(Undelivereds(retries'))
    BY <1>0, <1>2, <2>1, PushedBatch
  <2>4. BatchesPlaced'
    <3>1. /\ With("retrying") = All(Pendings(retries)) /\ Apart(Pendings(retries))
          /\ With("inflight") = All(Pendings(inflight)) /\ Len(inflight) <= 1
      BY <1>0 DEF BatchesPlaced
    <3> QED BY <1>1, <1>2, <2>1, <2>2, <2>3, <3>1 DEF BatchesPlaced, Kept
  <2>5. CondemnedPlaced'
    <3>1. /\ With("condemned") = All(Undelivereds(inflight)) \union All(Undelivereds(retries))
                                    \union All(Undelivereds(sweep))
          /\ Apart(Undelivereds(retries))
          /\ All(Undelivereds(inflight)) \intersect All(Undelivereds(retries)) = {}
          /\ All(Undelivereds(inflight)) \intersect All(Undelivereds(sweep)) = {}
          /\ All(Undelivereds(retries)) \intersect All(Undelivereds(sweep)) = {}
      BY <1>0 DEF CondemnedPlaced
    <3>2. With("condemned")' = With("condemned")
      BY <2>2 DEF Kept
    <3> QED BY <1>1, <1>2, <2>1, <2>3, <3>1, <3>2 DEF CondemnedPlaced
  <2> QED BY <1>0, <1>1, <1>3, <2>2, <2>4, <2>5, ChannelKept, StoresKept DEF Placement
<1> QED BY <1>4, <1>5

\* At the deadline a batch of the sweep is given up.
LEMMA DropRetrySound ==
  ASSUME TypeOK, TypeOK', SlotAccounting, Placement, DropRetry
  PROVE  Placement' /\ Sound
<1> DEFINE b == Head(sweep)
<1>0. /\ CallsPlaced /\ ChannelPlaced /\ StoresPlaced /\ BatchesPlaced /\ CondemnedPlaced
      /\ WorkerPlaced /\ LedgerTyped /\ LedgerTyped' /\ len \in Nat
  BY DEF Placement, TypeOK
<1>1. /\ sweep # <<>> /\ alive /\ inflight = <<>> /\ sweep' = Tail(sweep)
      /\ len' = Released(Cardinality(b.pending))
      /\ status' = Mark(Move(b.pending, "abandoned"), b.undelivered, "unreported")
      /\ UNCHANGED <<callVars, channel, alive, todo, buffer, historical, inflight, retries,
                     reported>>
  BY DEF DropRetry, Doing, Abandon, Forsaken, workerVars, storeVars
<1>2. /\ b \in Batch /\ Tail(sweep) \in Seq(Batch)
      /\ b.pending \in SUBSET With("sweeping")
      /\ With("sweeping") \ b.pending = All(Pendings(Tail(sweep)))
      /\ Apart(Pendings(Tail(sweep)))
      /\ b.undelivered \in SUBSET With("condemned")
      /\ All(Undelivereds(sweep)) = b.undelivered \union All(Undelivereds(Tail(sweep)))
      /\ Apart(Undelivereds(Tail(sweep)))
      /\ b.undelivered \intersect All(Undelivereds(Tail(sweep))) = {}
  BY <1>1, SweptBatch
<1> HIDE DEF b
<1>3. /\ b.pending \in SUBSET Events /\ b.undelivered \in SUBSET Events
      /\ \A e \in b.pending : status[e] = "sweeping"
      /\ \A e \in b.undelivered : status[e] = "condemned"
  BY <1>2 DEF With
<1>4. \A e \in Events : status'[e] = IF e \in b.undelivered THEN "unreported"
                                     ELSE IF e \in b.pending THEN "abandoned" ELSE status[e]
  BY <1>1, <1>3 DEF Move, Mark
<1>5. /\ With("sweeping")' = With("sweeping") \ b.pending
      /\ With("condemned")' = With("condemned") \ b.undelivered
      /\ \A u : u \notin {"sweeping", "condemned", "abandoned", "unreported"} => Kept(u)
  <2>1. With("sweeping")' = With("sweeping") \ b.pending
    BY <1>3, <1>4 DEF With
  <2>2. With("condemned")' = With("condemned") \ b.undelivered
    BY <1>3, <1>4 DEF With
  <2>3. \A u : u \notin {"sweeping", "condemned", "abandoned", "unreported"} => Kept(u)
    BY <1>3, <1>4 DEF With, Kept
  <2> QED BY <2>1, <2>2, <2>3
<1>6. CallsPlaced'
  <2>1. \A e \in Events : status[e] \in {"new", "reserved"} => status'[e] = status[e]
    BY <1>3, <1>4
  <2> QED BY <1>0, <1>1, <2>1, CallsKept
<1>7. Sound
  <2>1. \A e \in b.pending : status[e] \in Held /\ status'[e] \in Ends
    BY <1>3, <1>4 DEF Held, Ends
  <2>2. \A e \in Events \ b.pending : FateOf(status'[e]) = FateOf(status[e])
    BY <1>3, <1>4, Fates
  <2>3. SettledStay
    BY <1>3, <1>4 DEF SettledStay, Settled
  <2>4. Tallied
    <3>1. \A e \in Events : ~NewlyRejected(e)
      BY <1>1, <1>4 DEF NewlyRejected
    <3> QED BY <1>1, <3>1, NoneTallied
  <2> QED BY <1>0, <1>1, <1>3, <2>1, <2>2, <2>3, <2>4, SettleSound
<1>8. /\ Kept("queued") /\ Kept("buffered") /\ Kept("historical") /\ Kept("inflight")
      /\ Kept("retrying")
  BY <1>5
<1>9. BatchesPlaced'
  BY <1>0, <1>1, <1>2, <1>5, <1>8 DEF BatchesPlaced, Kept, Pendings
<1>10. CondemnedPlaced'
  <2>1. /\ With("condemned") = All(Undelivereds(inflight)) \union All(Undelivereds(retries))
                                  \union All(Undelivereds(sweep))
        /\ Apart(Undelivereds(retries))
        /\ All(Undelivereds(inflight)) \intersect All(Undelivereds(retries)) = {}
        /\ All(Undelivereds(inflight)) \intersect All(Undelivereds(sweep)) = {}
        /\ All(Undelivereds(retries)) \intersect All(Undelivereds(sweep)) = {}
    BY <1>0 DEF CondemnedPlaced
  <2> QED BY <1>1, <1>2, <1>5, <2>1 DEF CondemnedPlaced
<1>11. WorkerPlaced'
  <2>1. sweep' # <<>> => todo' # <<>> /\ Head(todo') \in {"retry_sweep", "due_sweep"}
    BY <1>0, <1>1 DEF WorkerPlaced
  <2> QED BY <1>1, <2>1 DEF WorkerPlaced
<1> QED BY <1>0, <1>1, <1>6, <1>7, <1>8, <1>9, <1>10, <1>11, ChannelKept, StoresKept
        DEF Placement

\* Work that touches no event.
LEMMA WorkDoneSound ==
  ASSUME TypeOK, Placement, DrainDone \/ ServiceBuffer \/ ServiceHistorical
  PROVE  Placement' /\ Sound
<1>0. WorkerPlaced /\ ChannelPlaced
  BY DEF Placement
<1>1. /\ UNCHANGED <<callVars, len, channel, alive, buffer, historical, inflight, retries, sweep,
                     status, reported>>
      /\ alive /\ sweep = <<>>
  BY <1>0 DEF DrainDone, NoWork, ServiceBuffer, ServiceHistorical, ServiceTimer, Doing, storeVars,
         batchVars, ledgerVars, WorkerPlaced
<1>2. ChannelPlaced' /\ WorkerPlaced'
  <2>1. Kept("queued")
    BY <1>1 DEF Kept, With
  <2> QED BY <1>0, <1>1, <2>1, ChannelKept DEF WorkerPlaced
<1>3. Pendings(retries)' = Pendings(retries) /\ Undelivereds(retries)' = Undelivereds(retries)
  BY <1>1 DEF Pendings, Undelivereds
<1> QED BY <1>1, <1>2, <1>3, StillSound

\* Every step of a drain.
LEMMA DrainSound ==
  ASSUME TypeOK, TypeOK', SlotAccounting, Placement, Drain
  PROVE  Placement' /\ Sound
  BY SendChunkSound, DropStoreSound, TakeRetriesSound, SweepSound, DropRetrySound, WorkDoneSound
     DEF Drain
-----------------------------------------------------------------------------
(***************************************************************************)
(* Placement: the response to an attempt.                                  *)
(***************************************************************************)
\* The batch being attempted.
LEMMA InflightBatch ==
  ASSUME TypeOK, Placement, NEW b \in Elements(inflight)
  PROVE  /\ b \in Batch /\ inflight = <<b>> /\ alive
         /\ b.pending = With("inflight")
         /\ With("condemned") = b.undelivered \union All(Undelivereds(retries))
                                  \union All(Undelivereds(sweep))
         /\ b.undelivered \intersect All(Undelivereds(retries)) = {}
         /\ b.undelivered \intersect All(Undelivereds(sweep)) = {}
         /\ All(Undelivereds(retries)) \intersect All(Undelivereds(sweep)) = {}
<1>0. inflight \in Seq(Batch) /\ BatchesPlaced /\ CondemnedPlaced /\ WorkerPlaced
  BY DEF TypeOK, BatchesTyped, Placement
<1>1. b \in Batch
  BY <1>0, ElementsType
<1>2. inflight = <<b>>
  <2>1. Len(inflight) \in Nat /\ DOMAIN inflight = 1..Len(inflight) /\ Len(inflight) <= 1
    BY <1>0 DEF BatchesPlaced
  <2>2. PICK i \in DOMAIN inflight : b = inflight[i]
    BY DEF Elements
  <2>3. Len(inflight) = 1 /\ b = inflight[1]
    BY <2>1, <2>2
  <2> QED BY <1>0, <2>3
<1>3. alive
  BY <1>0, <1>2 DEF WorkerPlaced
<1>4. All(Pendings(inflight)) = b.pending /\ All(Undelivereds(inflight)) = b.undelivered
  BY <1>1, <1>2, LoneBatch
<1>5. With("inflight") = All(Pendings(inflight))
  BY <1>0 DEF BatchesPlaced
<1>6. /\ With("condemned") = All(Undelivereds(inflight)) \union All(Undelivereds(retries))
                               \union All(Undelivereds(sweep))
      /\ All(Undelivereds(inflight)) \intersect All(Undelivereds(retries)) = {}
      /\ All(Undelivereds(inflight)) \intersect All(Undelivereds(sweep)) = {}
      /\ All(Undelivereds(retries)) \intersect All(Undelivereds(sweep)) = {}
  BY <1>0 DEF CondemnedPlaced
<1> QED BY <1>1, <1>2, <1>3, <1>4, <1>5, <1>6

\* After an attempt: what the batch leaves in `kept` is held for a retry, and what the
\* server will not persist is condemned.
LEMMA HeldBack ==
  ASSUME TypeOK, TypeOK', SlotAccounting, Placement, NEW b \in Elements(inflight),
         NEW kept \in SUBSET b.pending, NEW lost \in SUBSET (b.pending \ kept),
         NEW r \in Batch, r.pending = kept, r.undelivered = b.undelivered \union lost,
         retries' = Append(retries, r), inflight' = <<>>,
         len' = Released(Cardinality(b.pending \ kept)),
         \A e \in kept : status'[e] = "retrying",
         \A e \in lost : status'[e] = "condemned",
         \A e \in b.pending \ (kept \union lost) : status'[e] \in {"delivered", "omitted"},
         \A e \in Events \ b.pending : status'[e] = status[e],
         UNCHANGED <<callVars, channel, alive, todo, buffer, historical, sweep, reported>>
  PROVE  Placement' /\ Sound
<1>0. /\ LedgerTyped /\ LedgerTyped' /\ len \in Nat /\ retries \in Seq(Batch)
      /\ CallsPlaced /\ ChannelPlaced /\ StoresPlaced /\ BatchesPlaced /\ CondemnedPlaced
      /\ WorkerPlaced
  BY DEF TypeOK, BatchesTyped, Placement
<1>1. /\ alive /\ b.pending = With("inflight")
      /\ With("condemned") = b.undelivered \union All(Undelivereds(retries))
                               \union All(Undelivereds(sweep))
      /\ b.undelivered \intersect All(Undelivereds(retries)) = {}
      /\ b.undelivered \intersect All(Undelivereds(sweep)) = {}
      /\ All(Undelivereds(retries)) \intersect All(Undelivereds(sweep)) = {}
  BY InflightBatch
<1>2. b.pending \in SUBSET Events /\ \A e \in b.pending : status[e] = "inflight"
  BY <1>1 DEF With
<1>3. /\ With("inflight")' = {}
      /\ With("retrying")' = With("retrying") \union kept
      /\ With("condemned")' = With("condemned") \union lost
      /\ Kept("queued") /\ Kept("buffered") /\ Kept("historical") /\ Kept("sweeping")
  <2>1. With("inflight")' = {}
    BY <1>1, <1>2 DEF With
  <2>2. With("retrying")' = With("retrying") \union kept
    BY <1>2 DEF With
  <2>3. With("condemned")' = With("condemned") \union lost
    BY <1>2 DEF With
  <2>4. Kept("queued") /\ Kept("buffered") /\ Kept("historical") /\ Kept("sweeping")
    BY <1>2 DEF With, Kept
  <2> QED BY <2>1, <2>2, <2>3, <2>4
<1>4. CallsPlaced'
  <2>1. \A e \in Events : status[e] \in {"new", "reserved"} => status'[e] = status[e]
    BY <1>2
  <2> QED BY <1>0, <2>1, CallsKept
<1>5. Sound
  <2>1. \A e \in b.pending \ kept : status[e] \in Held /\ status'[e] \in Ends
    BY <1>2 DEF Held, Ends
  <2>2. \A e \in Events \ (b.pending \ kept) : FateOf(status'[e]) = FateOf(status[e])
    <3>1. "inflight" \in Held /\ "retrying" \in Held
      BY DEF Held
    <3> QED BY <1>2, <3>1, Fates
  <2>3. SettledStay
    BY <1>2 DEF SettledStay, Settled
  <2>4. Tallied
    <3>1. \A e \in Events : ~NewlyRejected(e)
      BY <1>1, <1>2 DEF NewlyRejected
    <3> QED BY <3>1, NoneTallied
  <2>5. b.pending \ kept \in SUBSET Events
    BY <1>2
  <2> QED BY <1>0, <1>1, <2>1, <2>2, <2>3, <2>4, <2>5, SettleSound
<1>6. kept \intersect With("retrying") = {} /\ lost \intersect With("condemned") = {}
  BY <1>1, OneStatus
<1>7. /\ All(Pendings(retries')) = All(Pendings(retries)) \union kept
      /\ All(Undelivereds(retries')) = All(Undelivereds(retries)) \union r.undelivered
      /\ Apart(Pendings(retries)) /\ kept \intersect All(Pendings(retries)) = {} =>
            Apart(Pendings(retries'))
      /\ Apart(Undelivereds(retries)) /\ r.undelivered \intersect All(Undelivereds(retries)) = {} =>
            Apart(Undelivereds(retries'))
  BY <1>0, PushedBatch
<1>8. BatchesPlaced'
  <2>1. /\ With("retrying") = All(Pendings(retries)) /\ Apart(Pendings(retries))
        /\ With("sweeping") = All(Pendings(sweep)) /\ Apart(Pendings(sweep))
    BY <1>0 DEF BatchesPlaced
  <2>2. With("sweeping")' = With("sweeping") /\ Len(<<>>) <= 1
    BY <1>3 DEF Kept
  <2> QED BY <1>3, <1>6, <1>7, <2>1, <2>2, NoBatches DEF BatchesPlaced
<1>9. CondemnedPlaced'
  <2>1. Apart(Undelivereds(retries)) /\ Apart(Undelivereds(sweep))
    BY <1>0 DEF CondemnedPlaced
  <2>2. r.undelivered \intersect All(Undelivereds(retries)) = {}
        /\ r.undelivered \intersect All(Undelivereds(sweep)) = {}
    BY <1>1, <1>6
  <2>3. All(Undelivereds(inflight')) = {}
    BY NoBatches
  <2> QED BY <1>1, <1>3, <1>7, <2>1, <2>2, <2>3 DEF CondemnedPlaced
<1>10. ChannelPlaced' /\ StoresPlaced'
  BY <1>0, <1>3, ChannelKept, StoresKept
<1>11. WorkerPlaced'
  BY <1>0, <1>1 DEF WorkerPlaced
<1> QED BY <1>4, <1>5, <1>8, <1>9, <1>10, <1>11 DEF Placement

\* After an attempt that ends the batch.
LEMMA LetGo ==
  ASSUME TypeOK, TypeOK', SlotAccounting, Placement, NEW b \in Elements(inflight),
         UNCHANGED retries, inflight' = <<>>, len' = Released(Cardinality(b.pending)),
         \A e \in b.pending : status'[e] \in Ends \ {"condemned"},
         \A e \in b.undelivered : status'[e] \in {"rejected", "unreported"},
         \A e \in Events \ (b.pending \union b.undelivered) : status'[e] = status[e],
         Tallied,
         UNCHANGED <<callVars, channel, alive, todo, buffer, historical, sweep>>
  PROVE  Placement' /\ Sound
<1>0. /\ LedgerTyped /\ LedgerTyped' /\ len \in Nat
      /\ CallsPlaced /\ ChannelPlaced /\ StoresPlaced /\ BatchesPlaced /\ CondemnedPlaced
      /\ WorkerPlaced
  BY DEF TypeOK, Placement
<1>1. /\ alive /\ b.pending = With("inflight")
      /\ With("condemned") = b.undelivered \union All(Undelivereds(retries))
                               \union All(Undelivereds(sweep))
      /\ b.undelivered \intersect All(Undelivereds(retries)) = {}
      /\ b.undelivered \intersect All(Undelivereds(sweep)) = {}
      /\ All(Undelivereds(retries)) \intersect All(Undelivereds(sweep)) = {}
  BY InflightBatch
<1>2. /\ b.pending \in SUBSET Events /\ \A e \in b.pending : status[e] = "inflight"
      /\ b.undelivered \in SUBSET Events /\ \A e \in b.undelivered : status[e] = "condemned"
  BY <1>1 DEF With
<1>e. \A s \in Ends \ {"condemned"} :
        s \notin Accepted \union {"condemned", "new", "reserved"} /\ s \in Settled
  BY DEF Ends, Accepted, Held, Settled
<1>3. /\ With("inflight")' = {}
      /\ With("condemned")' = With("condemned") \ b.undelivered
      /\ Kept("queued") /\ Kept("buffered") /\ Kept("historical") /\ Kept("retrying")
      /\ Kept("sweeping")
  <2>0. \A e \in b.pending \union b.undelivered :
          status'[e] \notin {"inflight", "condemned", "queued", "buffered", "historical",
                             "retrying", "sweeping"}
    BY <1>e, StoresHold
  <2>1. With("inflight")' = {}
    BY <1>1, <1>2, <2>0 DEF With
  <2>2. With("condemned")' = With("condemned") \ b.undelivered
    BY <1>2, <2>0 DEF With
  <2>3. /\ Kept("queued") /\ Kept("buffered") /\ Kept("historical") /\ Kept("retrying")
        /\ Kept("sweeping")
    BY <1>2, <2>0 DEF With, Kept
  <2> QED BY <2>1, <2>2, <2>3
<1>4. CallsPlaced'
  <2>1. \A e \in Events : status[e] \in {"new", "reserved"} => status'[e] = status[e]
    BY <1>2
  <2> QED BY <1>0, <2>1, CallsKept
<1>5. Sound
  <2>1. \A e \in b.pending : status[e] \in Held /\ status'[e] \in Ends
    BY <1>2 DEF Held
  <2>2. \A e \in Events \ b.pending : FateOf(status'[e]) = FateOf(status[e])
    BY <1>2, Fates
  <2>3. SettledStay
    BY <1>2 DEF SettledStay, Settled
  <2> QED BY <1>0, <1>1, <1>2, <2>1, <2>2, <2>3, SettleSound
<1>6. BatchesPlaced'
  <2>1. With("sweeping")' = With("sweeping") /\ With("retrying")' = With("retrying") /\ Len(<<>>) <= 1
    BY <1>3 DEF Kept
  <2> QED BY <1>0, <1>3, <2>1, NoBatches DEF BatchesPlaced
<1>7. CondemnedPlaced'
  <2>1. Apart(Undelivereds(retries)) /\ Apart(Undelivereds(sweep))
    BY <1>0 DEF CondemnedPlaced
  <2>2. All(Undelivereds(inflight')) = {}
    BY NoBatches
  <2> QED BY <1>1, <1>3, <2>1, <2>2 DEF CondemnedPlaced
<1>8. ChannelPlaced' /\ StoresPlaced'
  BY <1>0, <1>3, ChannelKept, StoresKept
<1>9. WorkerPlaced'
  BY <1>0, <1>1 DEF WorkerPlaced
<1> QED BY <1>4, <1>5, <1>6, <1>7, <1>8, <1>9 DEF Placement

\* A batch held back for another attempt.
LEMMA AnotherAttempt ==
  ASSUME NEW b \in Batch
  PROVE  LET r == [b EXCEPT !.attempt = @ + 1, !.due = FALSE] IN
         r \in Batch /\ r.pending = b.pending /\ r.undelivered = b.undelivered
<1>1. b.attempt + 1 \in Nat \ {0}
  BY DEF Batch
<1>2. [b EXCEPT !.attempt = @ + 1, !.due = FALSE] \in Batch
  BY <1>1 DEF Batch
<1>3. LET r == [b EXCEPT !.attempt = @ + 1, !.due = FALSE] IN
      r.pending = b.pending /\ r.undelivered = b.undelivered
  BY DEF Batch
<1> QED BY <1>2, <1>3

\* An attempt fails as a whole.
LEMMA AttemptFailsSound ==
  ASSUME TypeOK, TypeOK', SlotAccounting, Placement, AttemptFails
  PROVE  Placement' /\ Sound
<1>0. LedgerTyped /\ len \in Nat
  BY DEF TypeOK
<1>1. PICK b \in Elements(inflight), retryable \in BOOLEAN :
        /\ IF retryable /\ ~LastAttempt(b)
           THEN BackOff(b, status) /\ len' = Released(GivenUp(b.pending))
           ELSE Report(b, status) /\ len' = Released(Cardinality(b.pending))
        /\ inflight' = <<>>
        /\ UNCHANGED <<callVars, handleVars, wait, channel, workerVars, storeVars, sweep>>
  BY DEF AttemptFails
<1>2. /\ b \in Batch /\ b.pending = With("inflight") /\ b.undelivered \in SUBSET With("condemned")
      /\ b.pending \in SUBSET Events /\ b.undelivered \in SUBSET Events
      /\ \A e \in b.pending : status[e] = "inflight"
      /\ \A e \in b.undelivered : status[e] = "condemned"
  <2>1. /\ b \in Batch /\ b.pending = With("inflight") /\ b.undelivered \in SUBSET With("condemned")
    BY InflightBatch
  <2> QED BY <2>1 DEF With
<1>3. UNCHANGED <<callVars, channel, alive, todo, buffer, historical, sweep>>
  BY <1>1 DEF workerVars, storeVars
<1>4. CASE BackOff(b, status) /\ len' = Released(GivenUp(b.pending)) /\ deadline = "off"
  <2> DEFINE r == [b EXCEPT !.attempt = @ + 1, !.due = FALSE]
  <2>1. r \in Batch /\ r.pending = b.pending /\ r.undelivered = b.undelivered
    BY <1>2, AnotherAttempt
  <2>2. /\ retries' = Append(retries, r) /\ UNCHANGED reported
        /\ \A e \in Events : status'[e] = IF e \in b.pending THEN "retrying" ELSE status[e]
    BY <1>4 DEF BackOff, Mark
  <2> HIDE DEF r
  <2>3. len' = Released(Cardinality(b.pending \ b.pending))
    <3>1. GivenUp(b.pending) = 0 /\ b.pending \ b.pending = {}
      BY <1>4 DEF GivenUp
    <3> QED BY <1>4, <3>1, FS_EmptySet
  <2>4. r.undelivered = b.undelivered \union {}
    BY <2>1
  <2>5. {} \in SUBSET (b.pending \ b.pending) /\ b.pending \in SUBSET b.pending
    OBVIOUS
  <2> QED BY <1>1, <1>2, <1>3, <2>1, <2>2, <2>3, <2>4, <2>5, HeldBack
<1>5. CASE BackOff(b, status) /\ len' = Released(GivenUp(b.pending)) /\ deadline # "off"
  <2>1. /\ UNCHANGED <<retries, reported>> /\ len' = Released(Cardinality(b.pending))
        /\ \A e \in Events : status'[e] = IF e \in b.undelivered THEN "unreported"
                                          ELSE IF e \in b.pending THEN "abandoned" ELSE status[e]
    BY <1>5 DEF BackOff, GivenUp, Mark
  <2>2. /\ \A e \in b.pending : status'[e] \in Ends \ {"condemned"}
        /\ \A e \in b.undelivered : status'[e] \in {"rejected", "unreported"}
        /\ \A e \in Events \ (b.pending \union b.undelivered) : status'[e] = status[e]
    BY <1>2, <2>1 DEF Ends
  <2>3. Tallied
    <3>1. \A e \in Events : ~NewlyRejected(e)
      BY <2>1 DEF NewlyRejected
    <3> QED BY <2>1, <3>1, NoneTallied
  <2> QED BY <1>1, <1>3, <2>1, <2>2, <2>3, LetGo
<1>6. CASE Report(b, status) /\ len' = Released(Cardinality(b.pending))
  <2>1. /\ UNCHANGED retries
        /\ \A e \in Events :
             /\ status'[e] = IF e \in b.pending \union b.undelivered THEN "rejected" ELSE status[e]
             /\ reported'[e] = IF e \in b.pending \union OnePerUuid(b.undelivered)
                               THEN reported[e] + 1 ELSE reported[e]
    BY <1>6 DEF Report, Mark, Count
  <2>2. /\ \A e \in b.pending : status'[e] \in Ends \ {"condemned"}
        /\ \A e \in b.undelivered : status'[e] \in {"rejected", "unreported"}
        /\ \A e \in Events \ (b.pending \union b.undelivered) : status'[e] = status[e]
    BY <1>2, <2>1 DEF Ends
  <2>3. Tallied
    <3> DEFINE S == b.pending \union b.undelivered
               T == b.pending \union OnePerUuid(b.undelivered)
    <3>1. S \in SUBSET Events /\ T \in SUBSET S
      BY <1>2, Namesakes
    <3>2. \A e \in S : \E f \in T : Uuid[f] = Uuid[e]
      BY <1>2, Namesakes
    <3>3. \A e \in S : NewlyRejected(e)
      BY <1>2, <2>1 DEF NewlyRejected
    <3>4. \A e \in Events \ S : ~NewlyRejected(e)
      BY <2>1 DEF NewlyRejected
    <3>5. \A e \in Events : reported'[e] = IF e \in T THEN reported[e] + 1 ELSE reported[e]
      BY <2>1
    <3> HIDE DEF S, T
    <3> QED BY <3>1, <3>2, <3>3, <3>4, <3>5, SomeTallied
  <2> QED BY <1>1, <1>3, <1>6, <2>1, <2>2, <2>3, LetGo
<1> QED BY <1>1, <1>4, <1>5, <1>6

\* An attempt is answered event by event.
LEMMA AttemptSucceedsSound ==
  ASSUME TypeOK, TypeOK', SlotAccounting, Placement, AttemptSucceeds
  PROVE  Placement' /\ Sound
<1>1. PICK b \in Elements(inflight) : \E verdict \in Verdicts(b) : Answered(b, verdict)
  BY DEF AttemptSucceeds
<1>2. PICK verdict \in Verdicts(b) : Answered(b, verdict)
  BY <1>1
<1> DEFINE got(v) == {e \in b.pending : verdict[Uuid[e]] = v}
           kept == Keep(b, verdict)
           lost == got("drop") \union (got("retry") \ kept)
           pruned == [b EXCEPT !.pending = kept, !.undelivered = @ \union lost]
           st == Mark(Mark(Move(got("ok"), "delivered"), got("absent"), "omitted"), lost, "condemned")
<1>3. /\ b \in Batch /\ b.pending = With("inflight") /\ b.undelivered \in SUBSET With("condemned")
      /\ b.pending \in SUBSET Events /\ b.undelivered \in SUBSET Events
      /\ \A e \in b.pending : status[e] = "inflight"
      /\ \A e \in b.undelivered : status[e] = "condemned"
  <2>1. /\ b \in Batch /\ b.pending = With("inflight") /\ b.undelivered \in SUBSET With("condemned")
    BY InflightBatch
  <2> QED BY <2>1 DEF With
<1>4. /\ IF kept = {}
         THEN Report(pruned, st) /\ len' = Released(Cardinality(b.pending))
         ELSE BackOff(pruned, st) /\ len' = Released(Cardinality(b.pending \ kept) + GivenUp(kept))
      /\ inflight' = <<>>
      /\ UNCHANGED <<callVars, channel, alive, todo, buffer, historical, sweep>>
  BY <1>2 DEF Answered, workerVars, storeVars
<1>5. kept \in SUBSET b.pending /\ lost \in SUBSET (b.pending \ kept)
  BY DEF Keep
<1>6. /\ pruned \in Batch /\ pruned.pending = kept
      /\ pruned.undelivered = b.undelivered \union lost
  BY <1>3, <1>5 DEF Batch
<1>7. \A e \in b.pending \ (kept \union lost) : verdict[Uuid[e]] \in {"ok", "absent"}
  BY DEF Verdicts, Verdict, Keep
<1>8. \A e \in Events :
        /\ e \notin b.pending => st[e] = status[e]
        /\ e \in kept => st[e] = status[e]
        /\ e \in lost => st[e] = "condemned"
        /\ e \in b.pending \ (kept \union lost) => st[e] \in {"delivered", "omitted"}
  <2>1. \A e \in Events : st[e] = IF e \in lost THEN "condemned"
                                  ELSE IF e \in got("absent") THEN "omitted"
                                  ELSE IF e \in got("ok") THEN "delivered" ELSE status[e]
    BY DEF Mark, Move
  <2>2. \A e \in kept : verdict[Uuid[e]] = "retry"
    BY DEF Keep
  <2> HIDE DEF st, kept, lost
  <2> QED BY <1>5, <1>7, <2>1, <2>2
<1> HIDE DEF st, kept, lost, pruned
<1>9. CASE kept = {}
  <2>1. /\ UNCHANGED retries /\ len' = Released(Cardinality(b.pending))
        /\ \A e \in Events :
             /\ status'[e] = IF e \in b.undelivered \union lost THEN "rejected" ELSE st[e]
             /\ reported'[e] = IF e \in OnePerUuid(b.undelivered \union lost)
                               THEN reported[e] + 1 ELSE reported[e]
    BY <1>4, <1>6, <1>9 DEF Report, Mark, Count
  <2>2. /\ \A e \in b.pending : status'[e] \in {"rejected", "delivered", "omitted"}
        /\ \A e \in b.undelivered : status'[e] \in {"rejected", "unreported"}
        /\ \A e \in Events \ (b.pending \union b.undelivered) : status'[e] = status[e]
    BY <1>3, <1>5, <1>8, <1>9, <2>1
  <2>3. Tallied
    <3> DEFINE S == b.undelivered \union lost
    <3>1. S \in SUBSET Events /\ OnePerUuid(S) \in SUBSET S
      BY <1>3, <1>5, Namesakes
    <3>2. \A e \in S : \E f \in OnePerUuid(S) : Uuid[f] = Uuid[e]
      BY <3>1, Namesakes
    <3>3. \A e \in S : NewlyRejected(e)
      BY <1>3, <1>5, <2>1 DEF NewlyRejected
    <3>4. ASSUME NEW e \in Events \ S PROVE ~NewlyRejected(e)
      <4>1. CASE e \in b.pending
        BY <1>3, <1>8, <1>9, <2>1, <3>4, <4>1 DEF NewlyRejected
      <4>2. CASE e \notin b.pending
        BY <1>8, <2>1, <3>4, <4>2 DEF NewlyRejected
      <4> QED BY <4>1, <4>2
    <3>5. \A e \in Events :
            reported'[e] = IF e \in OnePerUuid(S) THEN reported[e] + 1 ELSE reported[e]
      BY <2>1
    <3>6. \A e \in Events \ S : ~NewlyRejected(e)
      BY <3>4
    <3> HIDE DEF S
    <3> QED BY <3>1, <3>2, <3>3, <3>5, <3>6, SomeTallied
  <2>4. {"rejected", "delivered", "omitted"} \subseteq Ends \ {"condemned"}
    BY DEF Ends
  <2>5. \A e \in b.pending : status'[e] \in Ends \ {"condemned"}
    BY <2>2, <2>4
  <2> QED BY <1>4, <2>1, <2>2, <2>3, <2>5, LetGo
<1>10. CASE kept # {} /\ deadline = "off"
  <2> DEFINE r == [pruned EXCEPT !.attempt = @ + 1, !.due = FALSE]
  <2>1. r \in Batch /\ r.pending = kept /\ r.undelivered = b.undelivered \union lost
    BY <1>6, AnotherAttempt
  <2>2. /\ retries' = Append(retries, r) /\ UNCHANGED reported
        /\ \A e \in Events : status'[e] = IF e \in kept THEN "retrying" ELSE st[e]
    BY <1>4, <1>6, <1>10 DEF BackOff, Mark
  <2> HIDE DEF r
  <2>3. len' = Released(Cardinality(b.pending \ kept))
    <3>1. GivenUp(kept) = 0
      BY <1>10 DEF GivenUp
    <3>2. Cardinality(b.pending \ kept) \in Nat
      BY <1>3, CardinalityOfEvents
    <3> QED BY <1>4, <1>10, <3>1, <3>2
  <2>4. /\ \A e \in kept : status'[e] = "retrying"
        /\ \A e \in lost : status'[e] = "condemned"
        /\ \A e \in b.pending \ (kept \union lost) : status'[e] \in {"delivered", "omitted"}
        /\ \A e \in Events \ b.pending : status'[e] = status[e]
    BY <1>3, <1>5, <1>8, <2>2
  <2> QED BY <1>4, <1>5, <2>1, <2>2, <2>3, <2>4, HeldBack
<1>11. CASE kept # {} /\ deadline # "off"
  <2>1. /\ UNCHANGED <<retries, reported>>
        /\ \A e \in Events : status'[e] = IF e \in b.undelivered \union lost THEN "unreported"
                                          ELSE IF e \in kept THEN "abandoned" ELSE st[e]
    BY <1>4, <1>6, <1>11 DEF BackOff, Mark
  <2>2. len' = Released(Cardinality(b.pending))
    <3>1. GivenUp(kept) = Cardinality(kept)
      BY <1>11 DEF GivenUp
    <3>2. Cardinality(b.pending \ kept) = Cardinality(b.pending) - Cardinality(kept)
      BY <1>3, <1>5, PartsOfEvents
    <3>3. Cardinality(b.pending) \in Nat /\ Cardinality(kept) \in Nat
      BY <1>3, <1>5, CardinalityOfEvents
    <3>4. Cardinality(b.pending \ kept) + Cardinality(kept) = Cardinality(b.pending)
      BY <3>2, <3>3
    <3> QED BY <1>4, <1>11, <3>1, <3>4
  <2>3. /\ \A e \in b.pending : status'[e] \in {"unreported", "abandoned", "delivered", "omitted"}
        /\ \A e \in b.undelivered : status'[e] \in {"rejected", "unreported"}
        /\ \A e \in Events \ (b.pending \union b.undelivered) : status'[e] = status[e]
    BY <1>3, <1>5, <1>8, <2>1
  <2>4. \A e \in Events : status'[e] = "rejected" => status[e] = "rejected"
    BY <1>3, <1>5, <1>8, <2>1
  <2>5. Tallied
    BY <2>1, <2>4, NoneTallied DEF NewlyRejected
  <2>6. \A e \in b.pending : status'[e] \in Ends \ {"condemned"}
    BY <2>3 DEF Ends
  <2> QED BY <1>4, <2>1, <2>2, <2>3, <2>5, <2>6, LetGo
<1> QED BY <1>9, <1>10, <1>11

\* Either answer to an attempt.
LEMMA RespondSound ==
  ASSUME TypeOK, TypeOK', SlotAccounting, Placement, Respond
  PROVE  Placement' /\ Sound
  BY AttemptFailsSound, AttemptSucceedsSound DEF Respond
-----------------------------------------------------------------------------
(***************************************************************************)
(* Placement: completions and exit; the invariant and what follows from it.*)
(***************************************************************************)
\* The events the channel carries are those of its messages with events.
LEMMA ChannelEvents ==
  ASSUME channel \in Seq(Control)
  PROVE  /\ UNION {Elements(m.events) : m \in {n \in Elements(channel) : n \in CaptureMessage}}
              = All(Carried(channel))
         /\ Elements(channel) \ {m \in Elements(channel) : m \in ControlMessage}
              = {n \in Elements(channel) : n \in CaptureMessage}
<1>1. \A m \in Elements(channel) : m \in Control
  BY ElementsType
<1>2. \A m \in Control : m \in CaptureMessage <=> m \notin ControlMessage
  BY ControlCarriesNothing DEF Control
<1>3. /\ Carried(channel) \in Seq(SUBSET Events) /\ Len(Carried(channel)) = Len(channel)
      /\ DOMAIN channel = 1..Len(channel)
      /\ \A i \in 1..Len(channel) : Carried(channel)[i] = Load(channel[i])
  BY MessageSets DEF Carried, Load
<1>4. \A e : e \in All(Carried(channel)) <=> \E i \in 1..Len(channel) : e \in Load(channel[i])
  BY <1>3, AllOfSets
<1>5. \A e : e \in UNION {Elements(m.events) : m \in {n \in Elements(channel) : n \in CaptureMessage}}
               <=> \E m \in Elements(channel) : e \in Load(m)
  BY DEF Load
<1>6. \A m : m \in Elements(channel) <=> \E i \in 1..Len(channel) : m = channel[i]
  BY <1>3 DEF Elements
<1>7. UNION {Elements(m.events) : m \in {n \in Elements(channel) : n \in CaptureMessage}}
        = All(Carried(channel))
  BY <1>4, <1>5, <1>6
<1> QED BY <1>1, <1>2, <1>7

\* A completion is signalled, or there is none left to signal.
LEMMA SignalSound ==
  ASSUME TypeOK, Placement, SignalCompletion \/ DrainedPending
  PROVE  Placement' /\ Sound
<1>0. WorkerPlaced /\ ChannelPlaced
  BY DEF Placement
<1>1. /\ UNCHANGED <<callVars, len, channel, alive, buffer, historical, inflight, retries, sweep,
                     status, reported>>
      /\ alive /\ sweep = <<>>
  BY <1>0 DEF SignalCompletion, DrainedPending, Doing, storeVars, batchVars, ledgerVars,
         WorkerPlaced
<1>2. ChannelPlaced' /\ WorkerPlaced'
  <2>1. Kept("queued")
    BY <1>1 DEF Kept, With
  <2> QED BY <1>0, <1>1, <2>1, ChannelKept DEF WorkerPlaced
<1>3. Pendings(retries)' = Pendings(retries) /\ Undelivereds(retries)' = Undelivereds(retries)
  BY <1>1
<1> QED BY <1>1, <1>2, <1>3, StillSound

\* The worker on its way out takes one more message.
LEMMA DrainPendingSound ==
  ASSUME TypeOK, TypeOK', SlotAccounting, Placement, DrainPending
  PROVE  Placement' /\ Sound
<1>0. /\ channel \in Seq(Control)
      /\ CallsPlaced /\ ChannelPlaced /\ StoresPlaced /\ BatchesPlaced /\ CondemnedPlaced
      /\ WorkerPlaced
  BY DEF TypeOK, Placement
<1>1. /\ channel # <<>> /\ channel' = Tail(channel) /\ alive /\ sweep = <<>> /\ inflight = <<>>
      /\ UNCHANGED <<callVars, alive, todo, buffer, historical, inflight, retries, sweep, reported>>
  BY <1>0 DEF DrainPending, Doing, workerVars, storeVars, batchVars, WorkerPlaced
<1>2. WorkerPlaced'
  BY <1>1 DEF WorkerPlaced
<1>3. CASE Head(channel) \in ControlMessage
  <2>1. UNCHANGED <<len, status>>
    BY <1>3 DEF DrainPending
  <2>2. ChannelPlaced'
    BY <1>0, <1>1, <1>3, <2>1, ControlPlaced
  <2>3. Pendings(retries)' = Pendings(retries) /\ Undelivereds(retries)' = Undelivereds(retries)
    BY <1>1
  <2> QED BY <1>1, <1>2, <2>1, <2>2, <2>3, StillSound
<1>4. CASE Head(channel) \notin ControlMessage
  <2> DEFINE S == Elements(Head(channel).events)
  <2>1. Abandon(S) /\ status' = Move(S, "abandoned")
    BY <1>4 DEF DrainPending
  <2>2. Head(channel) \in CaptureMessage
    BY <1>0, <1>1, <1>4, CaptureKinds
  <2>3. S \in SUBSET With("queued")
    BY <1>0, <1>1, <2>2, TakenEvents
  <2> HIDE DEF S
  <2>4. /\ CallsPlaced' /\ Sound /\ With("queued")' = With("queued") \ S
        /\ \A u : u \notin {"queued", "abandoned"} => Kept(u)
    BY <1>0, <1>1, <2>1, <2>3, StoresHold, AbandonSound
  <2>5. ChannelPlaced'
    BY <1>0, <1>1, <2>2, <2>4, ReceivedPlaced DEF S
  <2>6. /\ Kept("buffered") /\ Kept("historical") /\ Kept("inflight") /\ Kept("retrying")
        /\ Kept("sweeping") /\ Kept("condemned")
    BY <2>4
  <2> QED BY <1>0, <1>1, <1>2, <2>4, <2>5, <2>6, StoresKept, BatchesKept, CondemnedKept
          DEF Placement
<1> QED BY <1>3, <1>4

\* The worker exits and destroys its channel.
LEMMA WorkerExitsSound ==
  ASSUME TypeOK, TypeOK', Placement, WorkerExits
  PROVE  Placement' /\ Sound
<1>0. /\ channel \in Seq(Control) /\ LedgerTyped /\ LedgerTyped'
      /\ CallsPlaced /\ ChannelPlaced /\ StoresPlaced /\ BatchesPlaced /\ CondemnedPlaced
      /\ WorkerPlaced
  BY DEF TypeOK, Placement
<1>1. /\ alive /\ alive' = FALSE /\ channel' = <<>> /\ todo' = <<>>
      /\ sweep = <<>> /\ inflight = <<>>
      /\ UNCHANGED <<callVars, len, buffer, historical, inflight, retries, sweep, reported>>
  BY <1>0 DEF WorkerExits, Doing, storeVars, batchVars, WorkerPlaced
<1> DEFINE S == With("queued")
<1>2. status' = Move(S, "lost")
  <2>1. S = UNION {Elements(m.events) :
                     m \in Elements(channel) \ {m \in Elements(channel) : m \in ControlMessage}}
    BY <1>0, ChannelEvents DEF ChannelPlaced
  <2> QED BY <2>1 DEF WorkerExits
<1>3. S \in SUBSET Events /\ \A e \in Events : e \in S <=> status[e] = "queued"
  BY DEF With
<1>4. \A e \in Events : status'[e] = IF e \in S THEN "lost" ELSE status[e]
  BY <1>0, <1>2, <1>3, Moved
<1>5. Ledger!Stop
  BY <1>0, <1>1, <1>2, StopStep
<1>6. Sound
  <2>1. "queued" \in Status \ Settled /\ "lost" \in Status \ {"rejected"}
    BY DEF Status, Held, Settled
  <2> QED BY <1>0, <1>1, <1>2, <1>5, <2>1, MoveSound DEF Ledger!Next
<1>7. /\ With("queued")' = {}
      /\ Kept("buffered") /\ Kept("historical") /\ Kept("inflight") /\ Kept("retrying")
      /\ Kept("sweeping") /\ Kept("condemned")
  BY <1>3, <1>4 DEF With, Kept
<1>8. CallsPlaced'
  <2>1. \A e \in Events : status[e] \in {"new", "reserved"} => status'[e] = status[e]
    BY <1>3, <1>4
  <2> QED BY <1>0, <1>1, <2>1, CallsKept
<1>9. ChannelPlaced'
  <2>1. Carried(<<>>) = <<>>
    BY DEF Carried
  <2>2. DOMAIN channel' = {}
    BY <1>1
  <2> QED BY <1>1, <1>7, <2>1, <2>2, NoSets DEF ChannelPlaced
<1>10. WorkerPlaced'
  BY <1>1 DEF WorkerPlaced
<1> QED BY <1>0, <1>1, <1>6, <1>7, <1>8, <1>9, <1>10, StoresKept, BatchesKept, CondemnedKept
        DEF Placement

\* Every step keeps the events in their places, and is a sound step of the ledger.
LEMMA StepSound ==
  ASSUME TypeOK, SlotAccounting, Placement, [Next]_vars
  PROVE  Placement' /\ Sound
<1>0. TypeOK'
  BY StepTypes
<1>1. ASSUME NEW c \in Calls, CallStep(c) PROVE Placement' /\ Sound
  BY <1>0, <1>1, CallStepSound
<1>2. ASSUME NEW w \in Waiters, WaiterStep(w) \/ GiveUp(w) PROVE Placement' /\ Sound
  BY <1>2, WaiterStepSound
<1>3. CASE Receive
  BY <1>0, <1>3, WakeSound, ReceiveEventsSound DEF Receive
<1>4. CASE Drain
  BY <1>0, <1>4, DrainSound
<1>5. CASE Respond
  BY <1>0, <1>5, RespondSound
<1>6. CASE Finish
  BY <1>0, <1>6, SignalSound, DrainPendingSound, WorkerExitsSound DEF Finish
<1>7. CASE TimeStep
  BY <1>7, TimeStepSound
<1>8. CASE DropHandle \/ UNCHANGED vars
  BY <1>8, WakeSound
<1> QED BY <1>1, <1>2, <1>3, <1>4, <1>5, <1>6, <1>7, <1>8 DEF Next, WorkerStep, Quiet

\* At the start every event is new.
LEMMA InitPlaced == Init => Placement /\ SlotAccounting /\ ReportedOnce /\ Ledger!Init
<1> SUFFICES ASSUME Init PROVE Placement /\ SlotAccounting /\ ReportedOnce /\ Ledger!Init
  OBVIOUS
<1>1. \A e \in Events : status[e] = "new" /\ reported[e] = 0
  BY DEF Init
<1>2. \A s : s # "new" => With(s) = {}
  BY <1>1 DEF With
<1>3. CallsPlaced
  <2>1. \A c \in Calls : \A i \in 1..Size[c] : <<c, i>> \in Events
    BY DEF Events
  <2>2. \A c \in Calls : call[c] = "start" /\ fitted[c] = 0
    BY DEF Init
  <2>3. \A c \in Calls : \A i \in 1..Size[c] : ~(i <= fitted[c]) /\ status[<<c, i>>] = "new"
    <3>1. \A c \in Calls : Size[c] \in Nat
      BY TransportAssumption
    <3>2. \A c \in Calls : \A i \in 1..Size[c] : ~(i <= 0)
      BY <3>1
    <3> QED BY <1>1, <2>1, <2>2, <3>2
  <2> QED BY <2>2, <2>3 DEF CallsPlaced
<1>4. channel = <<>> /\ buffer = <<>> /\ historical = <<>> /\ inflight = <<>> /\ retries = <<>>
      /\ sweep = <<>>
  BY DEF Init
<1>5. ChannelPlaced
  <2>1. Carried(<<>>) = <<>> /\ DOMAIN channel = {}
    BY <1>4 DEF Carried
  <2> QED BY <1>2, <1>4, <2>1, NoSets DEF ChannelPlaced
<1>6. StoresPlaced
  BY <1>2, <1>4, NoSets DEF StoresPlaced
<1>7. BatchesPlaced /\ CondemnedPlaced
  <2>1. Len(inflight) <= 1
    BY <1>4
  <2> QED BY <1>2, <1>4, <2>1, NoBatches DEF BatchesPlaced, CondemnedPlaced
<1>8. WorkerPlaced
  BY <1>4 DEF WorkerPlaced
<1>9. SlotAccounting
  <2>1. SlotHolders = {}
    BY <1>1 DEF SlotHolders, Held
  <2> QED BY <2>1, FS_EmptySet DEF SlotAccounting, Init
<1>10. ReportedOnce
  BY <1>1 DEF ReportedOnce
<1>11. Ledger!Init
  <2>1. [e \in Events |-> FateOf(status[e])] = [e \in Events |-> "new"]
    BY <1>1, Fates
  <2> QED BY <2>1 DEF Ledger!Init, Init
<1> QED BY <1>3, <1>5, <1>6, <1>7, <1>8, <1>9, <1>10, <1>11 DEF Placement

\* The inductive invariant: every event has its place, and the counter counts the slots.
Sorted == TypeOK /\ Placement /\ SlotAccounting /\ ReportedOnce

\* It is inductive, and its steps are those of the ledger.
LEMMA StepSorted == ASSUME Sorted, [Next]_vars PROVE Sorted' /\ Sound
<1>1. TypeOK' /\ Placement' /\ Sound
  BY StepTypes, StepSound DEF Sorted
<1>2. SlotAccounting'
  BY <1>1, LedgerKeepsSlots DEF Sorted, TypeOK, Sound
<1> QED BY <1>1, <1>2 DEF Sorted, Sound

\* Every event has its place, and its slot is counted, in every reachable state.
THEOREM EventsSorted == Spec => []Sorted
<1>1. Init => Sorted
  BY InitType, InitPlaced DEF Sorted
<1>2. Sorted /\ [Next]_vars => Sorted'
  BY StepSorted
<1> QED BY <1>1, <1>2, PTL DEF Spec

\* Whichever path settles an event - a filter, a verdict, a failure, the drops of a shutdown,
\* a failed send - the in-flight counter gives its slot back once: it always counts exactly
\* the events that hold one, so the clamp of dec_len hides nothing.
THEOREM SlotsAreExact == Spec => []SlotAccounting
<1>1. Sorted => SlotAccounting
  BY DEF Sorted
<1> QED BY <1>1, EventsSorted, PTL

\* on_error counts only events refused for good, each at most once, however their batch was
\* retried and whatever verdicts the others of the batch had; and each refused event is
\* counted, or another refused one with its uuid is: with distinct uuids, all are.
THEOREM FailuresReportedOnce == Spec => []ReportedOnce
<1>1. Sorted => ReportedOnce
  BY DEF Sorted
<1> QED BY <1>1, EventsSorted, PTL

\* No step changes an outcome: a settled event is not delivered, reported or dropped again.
THEOREM OutcomesAreFinal == Spec => OutcomeFinal
<1>1. Sorted /\ [Next]_vars =>
        [\A e \in Events : status[e] \in Settled => status'[e] = status[e]]_vars
  BY StepSorted DEF Sound, SettledStay
<1> QED BY <1>1, EventsSorted, PTL DEF Spec, OutcomeFinal

\* The transport implements the ledger the client promises: every step of any number of
\* producers, callers and the worker admits one event within the capacity, refuses new
\* events, settles pending ones while the worker lives, withdraws those of a failed send or
\* destroys those of the channel when it exits, with the count exact, or changes nothing of
\* it.
THEOREM TransportKeepsPromise == Spec => ImplementsLedger
<1>1. Init => Ledger!Init
  BY InitPlaced
<1>2. Sorted /\ [Next]_vars => [Ledger!Next]_(Ledger!vars)
  BY StepSorted DEF Sound
<1> QED BY <1>1, <1>2, EventsSorted, PTL DEF Spec, ImplementsLedger, Ledger!Spec

\* Two sequences of batches in a row.
LEMMA JoinedBatches ==
  ASSUME NEW s \in Seq(Batch), NEW t \in Seq(Batch)
  PROVE  s \o t \in Seq(Batch) /\ Undelivereds(s \o t) = Undelivereds(s) \o Undelivereds(t)
<1>1. /\ s \o t \in Seq(Batch) /\ Len(s \o t) = Len(s) + Len(t)
      /\ Len(s) \in Nat /\ Len(t) \in Nat
      /\ DOMAIN s = 1..Len(s) /\ DOMAIN t = 1..Len(t) /\ DOMAIN (s \o t) = 1..(Len(s) + Len(t))
      /\ \A i \in 1..Len(s) : (s \o t)[i] = s[i]
      /\ \A i \in 1..Len(t) : (s \o t)[Len(s) + i] = t[i]
  BY ConcatProperties
<1> DEFINE u == Undelivereds(s)
           v == Undelivereds(t)
           w == Undelivereds(s \o t)
<1>2. /\ u \in Seq(SUBSET Events) /\ Len(u) = Len(s)
      /\ v \in Seq(SUBSET Events) /\ Len(v) = Len(t)
      /\ w \in Seq(SUBSET Events) /\ Len(w) = Len(s) + Len(t)
      /\ \A i \in 1..Len(s) : u[i] = s[i].undelivered
      /\ \A i \in 1..Len(t) : v[i] = t[i].undelivered
      /\ \A i \in 1..(Len(s) + Len(t)) : w[i] = (s \o t)[i].undelivered
  <2>1. u \in Seq(SUBSET Events) /\ v \in Seq(SUBSET Events) /\ w \in Seq(SUBSET Events)
    BY <1>1, BatchSets
  <2> QED BY <1>1, <2>1 DEF Undelivereds
<1> HIDE DEF u, v, w
<1>3. /\ u \o v \in Seq(SUBSET Events) /\ Len(u \o v) = Len(s) + Len(t)
      /\ \A i \in 1..Len(s) : (u \o v)[i] = u[i]
      /\ \A i \in 1..Len(t) : (u \o v)[Len(s) + i] = v[i]
  BY <1>2, ConcatProperties
<1>4. ASSUME NEW i \in 1..(Len(s) + Len(t)) PROVE w[i] = (u \o v)[i]
  <2>1. CASE i \in 1..Len(s)
    <3>1. w[i] = (s \o t)[i].undelivered
      BY <1>2
    <3>2. (s \o t)[i] = s[i]
      BY <1>1, <2>1
    <3>3. (u \o v)[i] = s[i].undelivered
      BY <1>2, <1>3, <2>1
    <3> QED BY <3>1, <3>2, <3>3
  <2>2. CASE i \notin 1..Len(s)
    <3> DEFINE j == i - Len(s)
    <3>1. j \in 1..Len(t) /\ i = Len(s) + j
      BY <1>1, <2>2
    <3> HIDE DEF j
    <3> QED BY <1>1, <1>2, <1>3, <3>1
  <2> QED BY <2>1, <2>2
<1>5. w = u \o v
  BY <1>2, <1>3, <1>4, SeqEqual
<1> QED BY <1>1, <1>5 DEF u, v, w

\* The sets of a sequence of batches, as unions.
LEMMA BatchUnions ==
  ASSUME NEW s \in Seq(Batch)
  PROVE  /\ PendingIn(s) = All(Pendings(s))
         /\ UNION {b.undelivered : b \in Elements(s)} = All(Undelivereds(s))
  BY DEF PendingIn, All, Elements, Pendings, Undelivereds

\* A sequence without repetition has as many events as it is long.
LEMMA AsManyAsLong ==
  ASSUME NEW s \in Seq(Events), OneToOne(s)
  PROVE  Cardinality(Elements(s)) = Len(s)
<1>1. Len(s) \in Nat /\ DOMAIN s = 1..Len(s) /\ s \in [1..Len(s) -> Events]
  OBVIOUS
<1>2. s \in [1..Len(s) -> Elements(s)]
  BY <1>1 DEF Elements
<1>3. s \in Injection(1..Len(s), Elements(s))
  BY <1>1, <1>2 DEF Injection, IsInjective, OneToOne
<1>4. s \in Surjection(1..Len(s), Elements(s))
  BY <1>1, <1>2 DEF Surjection, Elements
<1> QED BY <1>1, <1>3, <1>4, FS_CountingElements DEF ExistsBijection, Bijection

\* No event is forgotten or held twice: the queued, buffered, historical, attempted, retried
\* and swept events are exactly those of the channel, the two stores and the three lists of
\* batches, and the condemned ones go with the batches that will report them.
THEOREM EveryEventHasItsPlace == Spec => []Placed
<1>1. Sorted => Placed
  <2> SUFFICES ASSUME Sorted PROVE Placed
    OBVIOUS
  <2>0. /\ channel \in Seq(Control) /\ buffer \in Seq(Events)
        /\ inflight \in Seq(Batch) /\ retries \in Seq(Batch) /\ sweep \in Seq(Batch)
        /\ ChannelPlaced /\ StoresPlaced /\ BatchesPlaced /\ CondemnedPlaced
    BY DEF Sorted, TypeOK, StoresTyped, BatchesTyped, Placement
  <2>1. With("queued") = UNION {Elements(m.events) : m \in {n \in Elements(channel) : n \in CaptureMessage}}
    BY <2>0, ChannelEvents DEF ChannelPlaced
  <2>2. /\ With("buffered") = Elements(buffer) /\ Cardinality(Elements(buffer)) = Len(buffer)
        /\ With("historical") = UNION Elements(historical)
    BY <2>0, AsManyAsLong DEF StoresPlaced, All
  <2>3. /\ With("inflight") = PendingIn(inflight) /\ With("retrying") = PendingIn(retries)
        /\ With("sweeping") = PendingIn(sweep)
    BY <2>0, BatchUnions DEF BatchesPlaced
  <2>4. With("condemned") = UNION {b.undelivered : b \in Elements(inflight \o retries \o sweep)}
    <3> DEFINE s == inflight \o retries
    <3>1. s \in Seq(Batch) /\ Undelivereds(s) = Undelivereds(inflight) \o Undelivereds(retries)
      BY <2>0, JoinedBatches
    <3> HIDE DEF s
    <3>2. s \o sweep \in Seq(Batch) /\ Undelivereds(s \o sweep) = Undelivereds(s) \o Undelivereds(sweep)
      BY <2>0, <3>1, JoinedBatches
    <3>3. /\ Undelivereds(inflight) \in Seq(SUBSET Events) /\ Undelivereds(s) \in Seq(SUBSET Events)
          /\ Undelivereds(retries) \in Seq(SUBSET Events) /\ Undelivereds(sweep) \in Seq(SUBSET Events)
      BY <2>0, <3>1, BatchSets
    <3>4. All(Undelivereds(s)) = All(Undelivereds(inflight)) \union All(Undelivereds(retries))
      BY <3>1, <3>3, JoinedSets
    <3>5. All(Undelivereds(s \o sweep)) = All(Undelivereds(s)) \union All(Undelivereds(sweep))
      BY <3>2, <3>3, JoinedSets
    <3>6. UNION {b.undelivered : b \in Elements(s \o sweep)} = All(Undelivereds(s \o sweep))
      BY <3>2, BatchUnions
    <3> QED BY <2>0, <3>4, <3>5, <3>6 DEF CondemnedPlaced, s
  <2> QED BY <2>1, <2>2, <2>3, <2>4 DEF Placed
<1> QED BY <1>1, EventsSorted, PTL
-----------------------------------------------------------------------------
(***************************************************************************)
(* Timers and turns.  What the worker has left to do, and for whom.        *)
(***************************************************************************)
\* Work that comes before every occurrence of a mark.
Before(s, work, mark) == \E i \in DOMAIN s : s[i] = work /\ \A j \in 1..i : s[j] # mark

\* With the first work done,
LEMMA BeforeNext ==
  ASSUME NEW s \in Seq(Work), s # <<>>, NEW work, NEW mark
  PROVE  /\ Head(s) = mark => ~Before(s, work, mark)
         /\ Head(s) # mark => (Before(s, work, mark) <=> Head(s) = work \/ Before(Tail(s), work, mark))
<1>1. /\ Len(s) \in Nat \ {0} /\ DOMAIN s = 1..Len(s) /\ Head(s) = s[1]
      /\ Tail(s) \in Seq(Work) /\ DOMAIN Tail(s) = 1..(Len(s) - 1)
      /\ \A i \in 1..(Len(s) - 1) : Tail(s)[i] = s[i + 1]
  BY HeadTailProperties, EmptySeq
<1>2. Head(s) = mark => ~Before(s, work, mark)
  BY <1>1 DEF Before
<1>3. ASSUME Head(s) # mark, Before(s, work, mark), Head(s) # work PROVE Before(Tail(s), work, mark)
  <2>1. PICK i \in 1..Len(s) : s[i] = work /\ \A j \in 1..i : s[j] # mark
    BY <1>1, <1>3 DEF Before
  <2>2. i - 1 \in 1..(Len(s) - 1) /\ Tail(s)[i - 1] = work
    BY <1>1, <1>3, <2>1
  <2>3. \A j \in 1..(i - 1) : Tail(s)[j] # mark
    BY <1>1, <2>1
  <2> QED BY <1>1, <2>2, <2>3 DEF Before
<1>4. ASSUME Head(s) # mark, Head(s) = work PROVE Before(s, work, mark)
  BY <1>1, <1>4 DEF Before
<1>5. ASSUME Head(s) # mark, Before(Tail(s), work, mark) PROVE Before(s, work, mark)
  <2>1. PICK i \in 1..(Len(s) - 1) : Tail(s)[i] = work /\ \A j \in 1..i : Tail(s)[j] # mark
    BY <1>1, <1>5 DEF Before
  <2>2. i + 1 \in 1..Len(s) /\ s[i + 1] = work
    BY <1>1, <2>1
  <2>3. \A j \in 1..(i + 1) : j = 1 \/ (j - 1 \in 1..i /\ s[j] = Tail(s)[j - 1])
    BY <1>1, <2>1
  <2>4. \A j \in 1..(i + 1) : s[j] # mark
    BY <1>1, <1>5, <2>1, <2>3
  <2> QED BY <1>1, <2>2, <2>4 DEF Before
<1> QED BY <1>2, <1>3, <1>4, <1>5

\* with the first work taken off,
LEMMA WorkLeft ==
  ASSUME NEW s \in Seq(Work), s # <<>>
  PROVE  Head(s) \in Work /\ Tail(s) \in Seq(Work) /\ Elements(s) = {Head(s)} \union Elements(Tail(s))
<1>1. /\ Len(s) \in Nat \ {0} /\ DOMAIN s = 1..Len(s) /\ Head(s) = s[1] /\ Head(s) \in Work
      /\ Tail(s) \in Seq(Work) /\ DOMAIN Tail(s) = 1..(Len(s) - 1)
      /\ \A i \in 1..(Len(s) - 1) : Tail(s)[i] = s[i + 1]
  BY HeadTailProperties, EmptySeq
<1>2. \A i \in 1..Len(s) : i = 1 \/ (i - 1 \in 1..(Len(s) - 1) /\ s[i] = Tail(s)[i - 1])
  BY <1>1
<1>3. \A i \in 1..(Len(s) - 1) : i + 1 \in 1..Len(s) /\ 1 \in 1..Len(s)
  BY <1>1
<1>4. \A work : work \in Elements(s) <=> \E i \in 1..Len(s) : work = s[i]
  BY <1>1 DEF Elements
<1>5. \A work : work \in Elements(Tail(s)) <=> \E i \in 1..(Len(s) - 1) : work = Tail(s)[i]
  BY <1>1 DEF Elements
<1>6. \A work : work \in Elements(s) <=> work = Head(s) \/ work \in Elements(Tail(s))
  <2>1. ASSUME NEW work \in Elements(s) PROVE work = Head(s) \/ work \in Elements(Tail(s))
    BY <1>1, <1>2, <1>4, <1>5
  <2>2. ASSUME NEW work \in Elements(Tail(s)) PROVE work \in Elements(s)
    BY <1>1, <1>3, <1>4, <1>5
  <2>3. Head(s) \in Elements(s)
    <3>1. 1 \in 1..Len(s)
      BY <1>1
    <3> QED BY <1>1, <1>4, <3>1
  <2> QED BY <2>1, <2>2, <2>3
<1> QED BY <1>1, <1>6

\* with other work put in front,
LEMMA WorkInFront ==
  ASSUME NEW s \in Seq(Work), NEW work \in Work
  PROVE  /\ <<work>> \o s \in Seq(Work) /\ <<work>> \o s # <<>>
         /\ Head(<<work>> \o s) = work /\ Tail(<<work>> \o s) = s
<1>1. <<work>> \in Seq(Work) /\ Len(<<work>>) = 1 /\ <<work>>[1] = work
  OBVIOUS
<1>2. /\ <<work>> \o s \in Seq(Work) /\ Len(<<work>> \o s) = 1 + Len(s) /\ Len(s) \in Nat
      /\ (<<work>> \o s)[1] = work
      /\ \A i \in 1..Len(s) : (<<work>> \o s)[1 + i] = s[i]
  <2>1. /\ <<work>> \o s \in Seq(Work) /\ Len(<<work>> \o s) = Len(<<work>>) + Len(s)
        /\ \A i \in 1..(Len(<<work>>) + Len(s)) :
             (<<work>> \o s)[i] = IF i <= Len(<<work>>) THEN <<work>>[i] ELSE s[i - Len(<<work>>)]
    BY <1>1, ConcatProperties
  <2> QED BY <1>1, <2>1
<1>3. <<work>> \o s # <<>>
  BY <1>2, EmptySeq
<1>4. Head(<<work>> \o s) = work
  BY <1>2, <1>3, HeadTailProperties
<1>5. Tail(<<work>> \o s) = s
  <2>1. /\ Tail(<<work>> \o s) \in Seq(Work) /\ Len(Tail(<<work>> \o s)) = Len(s)
        /\ \A i \in 1..Len(s) : Tail(<<work>> \o s)[i] = (<<work>> \o s)[i + 1]
    BY <1>2, <1>3, HeadTailProperties
  <2> QED BY <1>2, <2>1, SeqEqual
<1> QED BY <1>2, <1>3, <1>4, <1>5

\* A list of work followed by another one.
LEMMA WorkJoined ==
  ASSUME NEW s \in Seq(Work), NEW t \in Seq(Work), s # <<>>
  PROVE  /\ s \o t \in Seq(Work) /\ s \o t # <<>> /\ Head(s \o t) = Head(s)
         /\ Elements(s \o t) = Elements(s) \union Elements(t)
         /\ \A work, mark : mark \in Elements(s) =>
              (Before(s \o t, work, mark) <=> Before(s, work, mark))
<1> DEFINE u == s \o t
<1>1. /\ u \in Seq(Work) /\ DOMAIN u = 1..(Len(s) + Len(t)) /\ Len(u) = Len(s) + Len(t)
      /\ Len(s) \in Nat \ {0} /\ Len(t) \in Nat
      /\ DOMAIN s = 1..Len(s) /\ DOMAIN t = 1..Len(t)
      /\ \A i \in 1..Len(s) : u[i] = s[i]
      /\ \A i \in 1..Len(t) : u[Len(s) + i] = t[i]
  <2>1. Len(s) \in Nat \ {0} /\ Len(t) \in Nat
    BY EmptySeq
  <2> QED BY <2>1, ConcatProperties
<1> HIDE DEF u
<1>2. u # <<>> /\ Head(u) = Head(s)
  <2>1. Head(u) = u[1] /\ Head(s) = s[1] /\ u # <<>>
    BY <1>1, EmptySeq, HeadTailProperties
  <2> QED BY <1>1, <2>1
<1>3. Elements(u) = Elements(s) \union Elements(t)
  <2>1. \A i \in 1..(Len(s) + Len(t)) : i \in 1..Len(s) \/ (i - Len(s) \in 1..Len(t) /\ i = Len(s) + (i - Len(s)))
    BY <1>1
  <2>2. \A i \in 1..Len(s) : i \in 1..(Len(s) + Len(t))
    BY <1>1
  <2>3. \A i \in 1..Len(t) : Len(s) + i \in 1..(Len(s) + Len(t))
    BY <1>1
  <2>4. \A i \in 1..(Len(s) + Len(t)) : u[i] \in Elements(s) \union Elements(t)
    <3> SUFFICES ASSUME NEW i \in 1..(Len(s) + Len(t)) PROVE u[i] \in Elements(s) \union Elements(t)
      OBVIOUS
    <3>1. CASE i \in 1..Len(s)
      BY <1>1, <3>1 DEF Elements
    <3>2. CASE i \notin 1..Len(s)
      <4> DEFINE k == i - Len(s)
      <4>1. k \in 1..Len(t) /\ i = Len(s) + k
        BY <2>1, <3>2
      <4> HIDE DEF k
      <4> QED BY <1>1, <4>1 DEF Elements
    <3> QED BY <3>1, <3>2
  <2> QED BY <1>1, <2>2, <2>3, <2>4 DEF Elements
<1>4. ASSUME NEW work, NEW mark \in Elements(s), Before(u, work, mark) PROVE Before(s, work, mark)
  <2>1. PICK i \in 1..(Len(s) + Len(t)) : u[i] = work /\ \A j \in 1..i : u[j] # mark
    BY <1>1, <1>4 DEF Before
  <2>2. PICK k \in 1..Len(s) : s[k] = mark
    BY <1>1 DEF Elements
  <2>3. i < k
    BY <1>1, <2>1, <2>2
  <2>4. i \in 1..Len(s) /\ s[i] = work /\ \A j \in 1..i : s[j] # mark
    BY <1>1, <2>1, <2>2, <2>3
  <2> QED BY <1>1, <2>4 DEF Before
<1>5. ASSUME NEW work, NEW mark, Before(s, work, mark) PROVE Before(u, work, mark)
  <2>1. PICK i \in 1..Len(s) : s[i] = work /\ \A j \in 1..i : s[j] # mark
    BY <1>1, <1>5 DEF Before
  <2>2. i \in 1..(Len(s) + Len(t)) /\ u[i] = work /\ \A j \in 1..i : u[j] # mark
    BY <1>1, <2>1
  <2> QED BY <1>1, <2>2 DEF Before
<1> QED BY <1>1, <1>2, <1>3, <1>4, <1>5 DEF u

\* What each turn of the worker begins with.
LEMMA Turns ==
  /\ FlushWork # <<>> /\ FlushCapturesWork # <<>>
  /\ \A work \in {"send_buffer", "drain_historical", "flush_retries"} :
       /\ Before(FlushWork, work, "signal") /\ Before(FlushCapturesWork, work, "signal")
       /\ Before(ShutdownWork, work, "signal") /\ Before(ShutdownWork, work, "drain_pending")
       /\ Before(ShutdownWork, work, "exit")
  /\ \A work \in {"attempt_due", "due_sweep"} :
       /\ ~Before(FlushWork, work, "signal") /\ ~Before(FlushCapturesWork, work, "signal")
       /\ ~Before(ShutdownWork, work, "signal")
  /\ "signal" \in Elements(FlushWork) /\ "exit" \notin Elements(FlushWork)
  /\ "signal" \in Elements(FlushCapturesWork) /\ "exit" \notin Elements(FlushCapturesWork)
  /\ Head(FlushCapturesWork) = "send_buffer"
  /\ "signal" \in Elements(ShutdownWork) /\ "exit" \in Elements(ShutdownWork)
  /\ {"attempt_due", "due_sweep"} \intersect Elements(ShutdownWork) = {}
  /\ Service # <<>> /\ Elements(Service) = {"service_buffer", "service_historical", "attempt_due"}
<1>1. /\ \A work \in {"send_buffer", "drain_historical", "flush_retries"} : Before(FlushWork, work, "signal")
      /\ \A work \in {"attempt_due", "due_sweep"} : ~Before(FlushWork, work, "signal")
      /\ "signal" \in Elements(FlushWork) /\ "exit" \notin Elements(FlushWork) /\ FlushWork # <<>>
  BY DEF Before, FlushWork, Elements
<1>2. /\ \A work \in {"send_buffer", "drain_historical", "flush_retries"} :
           Before(FlushCapturesWork, work, "signal")
      /\ \A work \in {"attempt_due", "due_sweep"} : ~Before(FlushCapturesWork, work, "signal")
      /\ "signal" \in Elements(FlushCapturesWork) /\ "exit" \notin Elements(FlushCapturesWork)
      /\ FlushCapturesWork # <<>> /\ Head(FlushCapturesWork) = "send_buffer"
  BY DEF Before, FlushCapturesWork, Elements
<1>3. /\ \A work \in {"send_buffer", "drain_historical", "flush_retries"} :
           /\ Before(ShutdownWork, work, "signal") /\ Before(ShutdownWork, work, "drain_pending")
           /\ Before(ShutdownWork, work, "exit")
      /\ \A work \in {"attempt_due", "due_sweep"} : ~Before(ShutdownWork, work, "signal")
      /\ "signal" \in Elements(ShutdownWork) /\ "exit" \in Elements(ShutdownWork)
      /\ {"attempt_due", "due_sweep"} \intersect Elements(ShutdownWork) = {}
  BY DEF Before, ShutdownWork, Elements
<1>4. Service # <<>> /\ Elements(Service) = {"service_buffer", "service_historical", "attempt_due"}
  BY DEF Service, Elements
<1> QED BY <1>1, <1>2, <1>3, <1>4

\* A store with events has its interval running; an empty one has not, unless its drain ends
\* now.
Timed ==
  /\ buffer # <<>> => buffer_since # "off"
  /\ historical # <<>> => historical_since # "off"
  /\ buffer = <<>> => buffer_since = "off" \/ (todo # <<>> /\ Head(todo) = "send_buffer")
  /\ historical = <<>> =>
       historical_since = "off" \/ (todo # <<>> /\ Head(todo) = "drain_historical")

\* A batch under way belongs to the work at hand; what a drain sends is a first attempt.
Attempting ==
  /\ inflight # <<>> => todo # <<>>
  /\ todo # <<>> /\ Head(todo) \in {"send_buffer", "drain_historical"} =>
       \A b \in Elements(inflight) : b.attempt = 1

\* The work still to be done will signal a caller, and attempts no due retry before.
Awaited(s) ==
  /\ "signal" \in Elements(s)
  /\ ~Before(s, "attempt_due", "signal") /\ ~Before(s, "due_sweep", "signal")

\* The completion in hand will be signalled, and for a panic the buffer goes first.
Completing ==
  alive =>
    /\ completing # NoOne => Awaited(todo)
    /\ completing \in PanicFlushers /\ buffer # <<>> =>
         todo # <<>> /\ Head(todo) = "send_buffer"

\* Messages of the panic hook flush captures.
Addressed ==
  \A i \in DOMAIN channel :
    channel[i] \in ControlMessage /\ channel[i].waiter \in PanicFlushers =>
      channel[i].kind = "FlushCaptures"

\* A message taken from the front of the channel.
LEMMA FirstMessage ==
  ASSUME channel \in Seq(Control), channel # <<>>
  PROVE  /\ 1 \in DOMAIN channel /\ Head(channel) = channel[1] /\ Head(channel) \in Control
         /\ Tail(channel) \in Seq(Control) /\ DOMAIN Tail(channel) = 1..(Len(channel) - 1)
         /\ Len(channel) \in Nat \ {0} /\ DOMAIN channel = 1..Len(channel)
         /\ \A i \in DOMAIN Tail(channel) : i + 1 \in DOMAIN channel /\ Tail(channel)[i] = channel[i + 1]
<1>1. Len(channel) \in Nat \ {0} /\ DOMAIN channel = 1..Len(channel)
  BY EmptySeq
<1>2. Head(channel) = channel[1] /\ Head(channel) \in Control /\ Tail(channel) \in Seq(Control)
  BY HeadTailProperties
<1>3. /\ Len(Tail(channel)) = Len(channel) - 1
      /\ \A i \in 1..(Len(channel) - 1) : Tail(channel)[i] = channel[i + 1]
  BY HeadTailProperties
<1>4. DOMAIN Tail(channel) = 1..(Len(channel) - 1)
  BY <1>2, <1>3
<1>5. 1 \in 1..Len(channel) /\ \A i \in 1..(Len(channel) - 1) : i + 1 \in 1..Len(channel)
  BY <1>1
<1> QED BY <1>1, <1>2, <1>3, <1>4, <1>5

\* A message put at the end of the channel.
LEMMA LastMessage ==
  ASSUME channel \in Seq(Control), NEW m \in Control
  PROVE  /\ Append(channel, m) \in Seq(Control) /\ Len(channel) \in Nat
         /\ DOMAIN Append(channel, m) = 1..(Len(channel) + 1) /\ DOMAIN channel = 1..Len(channel)
         /\ \A i \in DOMAIN channel : Append(channel, m)[i] = channel[i]
         /\ Append(channel, m)[Len(channel) + 1] = m
         /\ \A i \in DOMAIN Append(channel, m) : i \in DOMAIN channel \/ i = Len(channel) + 1
<1>1. Len(channel) \in Nat /\ DOMAIN channel = 1..Len(channel)
  OBVIOUS
<1>2. /\ Append(channel, m) \in Seq(Control) /\ Len(Append(channel, m)) = Len(channel) + 1
      /\ \A i \in 1..Len(channel) : Append(channel, m)[i] = channel[i]
      /\ Append(channel, m)[Len(channel) + 1] = m
  BY AppendProperties
<1>3. DOMAIN Append(channel, m) = 1..(Len(channel) + 1)
  BY <1>2
<1>4. \A i \in 1..(Len(channel) + 1) : i \in 1..Len(channel) \/ i = Len(channel) + 1
  BY <1>1
<1> QED BY <1>1, <1>2, <1>3, <1>4

\* What a step can do to the channel.
LEMMA ChannelSteps ==
  ASSUME TypeOK, [Next]_vars
  PROVE  \/ channel' = channel
         \/ channel # <<>> /\ channel' = Tail(channel) /\ alive
         \/ \E m \in CaptureMessage : channel' = Append(channel, m)
         \/ \E w \in Waiters : \E kind \in {"Flush", "FlushCaptures", "Shutdown"} :
              /\ SendFlush(w) \/ SendShutdown(w)
              /\ channel' = Append(channel, [kind |-> kind, waiter |-> w])
              /\ w \in PanicFlushers => kind = "FlushCaptures"
         \/ channel' = <<>>
<1>1. ASSUME NEW c \in Calls, CallStep(c)
      PROVE  channel' = channel \/ \E m \in CaptureMessage : channel' = Append(channel, m)
  <2>1. CASE SendReserved(c)
    <3> DEFINE m == [kind |-> IF c \in HistoricalCalls THEN "HistoricalBatch" ELSE "Capture",
                     events |-> Reserved(c)]
    <3>1. m \in CaptureMessage
      BY ReservedType DEF TypeOK, CaptureMessage
    <3> QED BY <2>1, <3>1 DEF SendReserved
  <2> QED BY <1>1, <2>1 DEF CallStep, CheckClosed, ReserveSlot, QueueFull
<1>2. ASSUME NEW w \in Waiters, WaiterStep(w) \/ GiveUp(w)
      PROVE  \/ channel' = channel
             \/ \E kind \in {"Flush", "FlushCaptures", "Shutdown"} :
                  /\ SendFlush(w) \/ SendShutdown(w)
                  /\ channel' = Append(channel, [kind |-> kind, waiter |-> w])
                  /\ w \in PanicFlushers => kind = "FlushCaptures"
  <2>1. CASE SendFlush(w)
    BY <2>1, TransportAssumption DEF SendFlush, SendControl
  <2>2. CASE SendShutdown(w)
    BY <2>2, TransportAssumption DEF SendShutdown, SendControl
  <2> QED BY <1>2, <2>1, <2>2 DEF WaiterStep, GiveUp, BeginFlush, BeginClose, TakeHandle, JoinWorker
<1>3. CASE Receive
  BY <1>3 DEF Receive, Receiving, ReceiveCapture, ReceiveHistorical, ReceiveControl, WakeTimeout,
         WakeDisconnected
<1>4. Drain \/ Respond \/ DropHandle \/ TimeStep \/ UNCHANGED vars => channel' = channel
  BY DEF Drain, DrainDone, SendBufferChunk, DropBuffer, SendHistoricalChunk, DropHistorical,
         FlushRetries, AttemptDue, TakeRetries, AttemptRetry, KeepRetry, DropRetry,
         ServiceBuffer, ServiceHistorical, ServiceTimer, Respond, AttemptFails, AttemptSucceeds,
         Answered, DropHandle, TimeStep, BufferElapses, HistoricalElapses, DeadlineElapses,
         RetryElapses, vars
<1>5. CASE Finish
  BY <1>5 DEF Finish, Doing, SignalCompletion, DrainPending, DrainedPending, WorkerExits
<1> QED BY <1>1, <1>2, <1>3, <1>4, <1>5 DEF Next, WorkerStep, Quiet

\* Messages keep their kind.
LEMMA AddressedStep ==
  ASSUME TypeOK, Addressed, [Next]_vars
  PROVE  Addressed'
<1>0. channel \in Seq(Control)
  BY DEF TypeOK
<1>1. CASE channel' = channel
  BY <1>1 DEF Addressed
<1>2. CASE channel # <<>> /\ channel' = Tail(channel)
  BY <1>0, <1>2, FirstMessage DEF Addressed
<1>3. ASSUME NEW m \in Control, channel' = Append(channel, m),
             m \in ControlMessage /\ m.waiter \in PanicFlushers => m.kind = "FlushCaptures"
      PROVE  Addressed'
  <2>1. \A i \in DOMAIN channel' :
          (i \in DOMAIN channel /\ channel'[i] = channel[i]) \/ channel'[i] = m
    BY <1>0, <1>3, LastMessage
  <2> QED BY <1>3, <2>1 DEF Addressed
<1>4. ASSUME NEW m \in CaptureMessage, channel' = Append(channel, m) PROVE Addressed'
  <2>1. m \in Control /\ m \notin ControlMessage
    BY ControlCarriesNothing DEF Control
  <2> QED BY <1>3, <1>4, <2>1
<1>5. ASSUME NEW w \in Waiters, NEW kind \in {"Flush", "FlushCaptures", "Shutdown"},
             channel' = Append(channel, [kind |-> kind, waiter |-> w]),
             w \in PanicFlushers => kind = "FlushCaptures"
      PROVE  Addressed'
  <2>1. [kind |-> kind, waiter |-> w] \in ControlMessage
    BY DEF ControlMessage
  <2> QED BY <1>3, <1>5, <2>1 DEF Control
<1>6. CASE channel' = <<>>
  BY <1>6 DEF Addressed
<1> QED BY <1>1, <1>2, <1>4, <1>5, <1>6, ChannelSteps

\* What is stored makes a store nonempty.
LEMMA GrownSeq ==
  ASSUME NEW S, NEW s \in Seq(S), NEW t \in Seq(S), t # <<>>
  PROVE  s \o t # <<>>
<1>1. Len(t) \in Nat \ {0} /\ Len(s) \in Nat
  BY EmptySeq
<1>2. s \o t \in Seq(S) /\ Len(s \o t) = Len(s) + Len(t)
  BY ConcatProperties
<1>3. Len(s \o t) # 0
  BY <1>1, <1>2
<1> QED BY <1>2, <1>3, EmptySeq

\* A message with events leaves its store nonempty.
LEMMA StoreFilled ==
  ASSUME TypeOK, ChannelPlaced
  PROVE  /\ ReceiveCapture => buffer' # <<>>
         /\ ReceiveHistorical => historical' # <<>>
<1>0. channel \in Seq(Control) /\ buffer \in Seq(Events) /\ historical \in Seq(SUBSET Events)
  BY DEF TypeOK, StoresTyped
<1>1. ASSUME channel # <<>>, Head(channel).kind \in {"Capture", "HistoricalBatch"}
      PROVE  Head(channel).events # <<>> /\ Head(channel).events \in Seq(Events)
  <2>1. Head(channel) \in CaptureMessage
    BY <1>0, <1>1, CaptureKinds
  <2> QED BY <1>0, <1>1, <2>1, FirstMessage DEF ChannelPlaced, CaptureMessage
<1>2. CASE ReceiveCapture
  <2>1. Head(channel).events # <<>> /\ Head(channel).events \in Seq(Events)
    BY <1>1, <1>2 DEF ReceiveCapture
  <2>2. buffer' # <<>>
    BY <1>0, <1>2, <2>1, GrownSeq DEF ReceiveCapture
  <2> QED BY <1>2, <2>2 DEF ReceiveCapture, ReceiveHistorical
<1>3. CASE ReceiveHistorical
  <2> DEFINE n == AtLeastOne(MaxBatchSize)
             ev == Head(channel).events
  <2>1. ev # <<>> /\ ev \in Seq(Events)
    BY <1>1, <1>3 DEF ReceiveHistorical
  <2>2. n \in Nat \ {0}
    BY AtLeastOneType, TransportAssumption
  <2>3. Chunks(ev, n) \in Seq(SUBSET Events) /\ All(Chunks(ev, n)) = Elements(ev)
    BY <2>1, <2>2, ChunksType, ChunksSplit
  <2>4. Elements(ev) # {}
    <3>1. 1 \in DOMAIN ev
      BY <2>1, EmptySeq
    <3> QED BY <3>1 DEF Elements
  <2>5. Chunks(ev, n) # <<>>
    BY <2>3, <2>4, NoSets
  <2>6. historical' = historical \o Chunks(ev, n)
    BY <1>3 DEF ReceiveHistorical
  <2> HIDE DEF n, ev
  <2>7. historical' # <<>>
    BY <1>0, <2>3, <2>5, <2>6, GrownSeq
  <2> QED BY <1>3, <2>7 DEF ReceiveCapture, ReceiveHistorical
<1> QED BY <1>2, <1>3

\* Every step keeps the interval timers with their stores.
LEMMA TimedStep ==
  ASSUME TypeOK, ChannelPlaced, Timed, [Next]_vars
  PROVE  Timed'
<1> USE DEF Timed
<1>1. CASE UNCHANGED <<todo, storeVars>>
  BY <1>1 DEF storeVars
<1>2. CASE ReceiveCapture
  BY <1>2, StoreFilled DEF ReceiveCapture, Receiving
<1>3. CASE ReceiveHistorical
  BY <1>3, StoreFilled DEF ReceiveHistorical, Receiving, Started
<1>4. CASE ReceiveControl \/ WakeTimeout \/ WakeDisconnected
  BY <1>4 DEF ReceiveControl, WakeTimeout, WakeDisconnected, Receiving, storeVars
<1>5. CASE DrainDone
  BY <1>5 DEF DrainDone, NoWork, Stopped
<1>6. CASE SendBufferChunk \/ DropBuffer \/ SendHistoricalChunk \/ DropHistorical
  BY <1>6 DEF SendBufferChunk, DropBuffer, SendHistoricalChunk, DropHistorical, Doing, workerVars
<1>7. CASE FlushRetries \/ AttemptDue \/ ServiceBuffer \/ ServiceHistorical
  BY <1>7 DEF FlushRetries, AttemptDue, TakeRetries, ServiceBuffer, ServiceHistorical,
         ServiceTimer, Doing, storeVars
<1>8. CASE SignalCompletion \/ DrainedPending \/ WorkerExits
  BY <1>8 DEF SignalCompletion, DrainedPending, WorkerExits, Doing, storeVars
<1>9. CASE BufferElapses \/ HistoricalElapses
  BY <1>9 DEF BufferElapses, HistoricalElapses, workerVars
<1>10. ASSUME NEW c \in Calls, CallStep(c) PROVE UNCHANGED <<todo, storeVars>>
  BY <1>10 DEF CallStep, CheckClosed, ReserveSlot, QueueFull, SendReserved, workerVars
<1>11. ASSUME NEW w \in Waiters, WaiterStep(w) \/ GiveUp(w) PROVE UNCHANGED <<todo, storeVars>>
  BY <1>11 DEF WaiterStep, GiveUp, BeginFlush, SendFlush, BeginClose, SendShutdown, TakeHandle,
         JoinWorker, workerVars
<1>12. AttemptRetry \/ KeepRetry \/ DropRetry \/ Respond \/ DrainPending =>
         UNCHANGED <<todo, storeVars>>
  BY DEF AttemptRetry, KeepRetry, DropRetry, Respond, AttemptFails, AttemptSucceeds, Answered,
         DrainPending, workerVars
<1>13. \/ DropHandle \/ DeadlineElapses \/ UNCHANGED vars
       \/ \E i \in DOMAIN retries : RetryElapses(i)
       => UNCHANGED <<todo, storeVars>>
  BY DEF DropHandle, DeadlineElapses, RetryElapses, workerVars, vars
<1> QED BY <1>1, <1>2, <1>3, <1>4, <1>5, <1>6, <1>7, <1>8, <1>9, <1>10, <1>11, <1>12, <1>13
        DEF Next, WorkerStep, Receive, Drain, Finish, TimeStep, Quiet

\* Every step keeps first attempts for the drains.
LEMMA AttemptingStep ==
  ASSUME TypeOK, Attempting, [Next]_vars
  PROVE  Attempting'
<1> USE DEF Attempting
<1>0. Elements(<<>>) = {} /\ \A b : Elements(<<b>>) = {b}
  BY DEF Elements
<1>1. CASE UNCHANGED <<todo, inflight>>
  BY <1>1
<1>2. CASE inflight = <<>> /\ inflight' = <<>>
  BY <1>0, <1>2
<1>3. CASE SendBufferChunk \/ SendHistoricalChunk
  <2>1. inflight' = <<>> \/ \E S : inflight' = <<[pending |-> S, undelivered |-> {}, attempt |-> 1, due |-> FALSE]>>
    BY <1>3 DEF SendBufferChunk, SendHistoricalChunk, SendBatch
  <2>2. todo # <<>> /\ todo' = todo
    BY <1>3 DEF SendBufferChunk, SendHistoricalChunk, Doing, workerVars
  <2> QED BY <1>0, <2>1, <2>2
<1>4. CASE AttemptRetry
  BY <1>4 DEF AttemptRetry, Doing, workerVars
<1>5. CASE Respond
  BY <1>0, <1>5 DEF Respond, AttemptFails, AttemptSucceeds, Answered, workerVars
<1>6. ASSUME NEW c \in Calls, CallStep(c) PROVE UNCHANGED <<todo, inflight>>
  BY <1>6 DEF CallStep, CheckClosed, ReserveSlot, QueueFull, SendReserved, workerVars, batchVars
<1>7. ASSUME NEW w \in Waiters, WaiterStep(w) \/ GiveUp(w) PROVE UNCHANGED <<todo, inflight>>
  BY <1>7 DEF WaiterStep, GiveUp, BeginFlush, SendFlush, BeginClose, SendShutdown, TakeHandle,
         JoinWorker, workerVars, batchVars
<1>8. Receive => inflight = <<>> /\ inflight' = <<>>
  BY DEF Receive, Receiving, ReceiveCapture, ReceiveHistorical, ReceiveControl, WakeTimeout,
         WakeDisconnected, batchVars
<1>9. \/ DrainDone \/ DropBuffer \/ DropHistorical \/ FlushRetries \/ AttemptDue \/ KeepRetry
      \/ DropRetry \/ ServiceBuffer \/ ServiceHistorical
      => inflight = <<>> /\ inflight' = <<>>
  BY DEF DrainDone, DropBuffer, DropHistorical, FlushRetries, AttemptDue, TakeRetries, KeepRetry,
         DropRetry, ServiceBuffer, ServiceHistorical, ServiceTimer, Doing, batchVars
<1>10. Finish => inflight = <<>> /\ inflight' = <<>>
  BY DEF Finish, SignalCompletion, DrainPending, DrainedPending, WorkerExits, Doing, batchVars
<1>11. DropHandle \/ TimeStep \/ UNCHANGED vars => UNCHANGED <<todo, inflight>>
  BY DEF DropHandle, TimeStep, BufferElapses, HistoricalElapses, DeadlineElapses, RetryElapses,
         workerVars, batchVars, vars
<1> QED BY <1>1, <1>2, <1>3, <1>4, <1>5, <1>6, <1>7, <1>8, <1>9, <1>10, <1>11
        DEF Next, WorkerStep, Drain, Quiet

\* What happens to the work list.
LEMMA WorkAdvances ==
  ASSUME TypeOK, todo # <<>>
  PROVE  /\ todo \in Seq(Work) /\ Head(todo) \in Work /\ Tail(todo) \in Seq(Work)
         /\ \A work, mark : Head(todo) # mark =>
              (Before(todo, work, mark) <=> Head(todo) = work \/ Before(Tail(todo), work, mark))
         /\ \A work, mark : Head(todo) = mark => ~Before(todo, work, mark)
         /\ Elements(todo) = {Head(todo)} \union Elements(Tail(todo))
         /\ \A next \in Work :
              /\ Elements(<<next>> \o Tail(todo)) = {next} \union Elements(Tail(todo))
              /\ \A work, mark : next # mark =>
                   (Before(<<next>> \o Tail(todo), work, mark)
                      <=> next = work \/ Before(Tail(todo), work, mark))
<1>1. todo \in Seq(Work)
  BY DEF TypeOK, WorkerTyped
<1>2. Head(todo) \in Work /\ Tail(todo) \in Seq(Work)
      /\ Elements(todo) = {Head(todo)} \union Elements(Tail(todo))
  BY <1>1, WorkLeft
<1>3. /\ \A work, mark : Head(todo) # mark =>
           (Before(todo, work, mark) <=> Head(todo) = work \/ Before(Tail(todo), work, mark))
      /\ \A work, mark : Head(todo) = mark => ~Before(todo, work, mark)
  BY <1>1, BeforeNext
<1>4. ASSUME NEW next \in Work
      PROVE  /\ Elements(<<next>> \o Tail(todo)) = {next} \union Elements(Tail(todo))
             /\ \A work, mark : next # mark =>
                  (Before(<<next>> \o Tail(todo), work, mark)
                     <=> next = work \/ Before(Tail(todo), work, mark))
  <2> DEFINE s == <<next>> \o Tail(todo)
  <2>1. s \in Seq(Work) /\ s # <<>> /\ Head(s) = next /\ Tail(s) = Tail(todo)
    BY <1>2, WorkInFront
  <2> HIDE DEF s
  <2>2. Elements(s) = {next} \union Elements(Tail(todo))
    BY <2>1, WorkLeft
  <2>3. \A work, mark : next # mark =>
          (Before(s, work, mark) <=> next = work \/ Before(Tail(todo), work, mark))
    BY <2>1, BeforeNext
  <2> QED BY <2>2, <2>3 DEF s
<1> QED BY <1>1, <1>2, <1>3, <1>4

\* What a step does to the work list.
TodoNext == todo # <<>> /\ todo' = Tail(todo)
\* The first work gives way to another.
TodoReplaced(next) == todo # <<>> /\ todo' = <<next>> \o Tail(todo)

\* What each drain step does to the work.
LEMMA DrainSteps ==
  ASSUME TypeOK, Drain
  PROVE  /\ alive /\ todo # <<>> /\ inflight = <<>>
         /\ UNCHANGED <<alive, completing, deadline, channel, callVars, handleVars, wait>>
         /\ \/ DrainDone /\ TodoNext
            \/ SendBufferChunk /\ UNCHANGED todo /\ Head(todo) = "send_buffer"
            \/ DropBuffer /\ UNCHANGED todo /\ Head(todo) = "send_buffer" /\ buffer' = <<>>
            \/ SendHistoricalChunk /\ UNCHANGED todo /\ Head(todo) = "drain_historical"
            \/ DropHistorical /\ UNCHANGED todo /\ Head(todo) = "drain_historical"
            \/ FlushRetries /\ TodoReplaced("retry_sweep") /\ Head(todo) = "flush_retries"
            \/ AttemptDue /\ TodoReplaced("due_sweep") /\ Head(todo) = "attempt_due"
            \/ AttemptRetry /\ UNCHANGED todo /\ Head(todo) \in {"retry_sweep", "due_sweep"}
            \/ KeepRetry /\ UNCHANGED todo /\ Head(todo) = "due_sweep"
            \/ DropRetry /\ UNCHANGED todo /\ Head(todo) = "retry_sweep"
            \/ ServiceBuffer /\ Head(todo) = "service_buffer"
                 /\ (TodoReplaced("send_buffer") \/ TodoNext)
            \/ ServiceHistorical /\ Head(todo) = "service_historical"
                 /\ (TodoReplaced("drain_historical") \/ TodoNext)
<1> USE DEF TodoNext, TodoReplaced, Doing
<1>0. todo # <<>> => <<>> \o Tail(todo) = Tail(todo)
  <2>1. \A s \in Seq(Work) : <<>> \o s = s
    OBVIOUS
  <2> QED BY <2>1, WorkAdvances
<1>1. CASE DrainDone
  BY <1>1 DEF DrainDone, NextWork
<1>2. CASE SendBufferChunk
  BY <1>2 DEF SendBufferChunk, workerVars
<1>3. CASE DropBuffer
  BY <1>3 DEF DropBuffer, workerVars
<1>4. CASE SendHistoricalChunk
  BY <1>4 DEF SendHistoricalChunk, workerVars
<1>5. CASE DropHistorical
  BY <1>5 DEF DropHistorical, workerVars
<1>6. CASE FlushRetries
  BY <1>6 DEF FlushRetries, TakeRetries
<1>7. CASE AttemptDue
  BY <1>7 DEF AttemptDue, TakeRetries
<1>8. CASE AttemptRetry
  BY <1>8 DEF AttemptRetry, workerVars
<1>9. CASE KeepRetry
  BY <1>9 DEF KeepRetry, workerVars
<1>10. CASE DropRetry
  BY <1>10 DEF DropRetry, workerVars
<1>11. CASE ServiceBuffer
  BY <1>0, <1>11 DEF ServiceBuffer, ServiceTimer
<1>12. CASE ServiceHistorical
  BY <1>0, <1>12 DEF ServiceHistorical, ServiceTimer
<1> QED BY <1>1, <1>2, <1>3, <1>4, <1>5, <1>6, <1>7, <1>8, <1>9, <1>10, <1>11, <1>12 DEF Drain

\* The work of each wake.
LEMMA WakeTurns ==
  ASSUME TypeOK, Receive
  PROVE  /\ alive /\ alive' /\ todo = <<>>
         /\ ReceiveCapture \/ ReceiveHistorical \/ WakeTimeout =>
              /\ UNCHANGED <<completing, deadline>>
              /\ Elements(todo') \subseteq Work \ {"signal", "drain_pending", "exit", "due_sweep"}
         /\ ReceiveControl =>
              /\ channel # <<>> /\ channel' = Tail(channel)
              /\ Head(channel) \in ControlMessage /\ completing' = Head(channel).waiter
              /\ \/ /\ Head(channel).kind = "Flush" /\ todo' = FlushWork \o Service
                    /\ UNCHANGED deadline
                 \/ /\ Head(channel).kind = "FlushCaptures" /\ todo' = FlushCapturesWork \o Service
                    /\ UNCHANGED deadline
                 \/ /\ Head(channel).kind = "Shutdown" /\ todo' = ShutdownWork
                    /\ deadline' = "running"
         /\ WakeDisconnected =>
              /\ UNCHANGED completing /\ deadline' = "running"
              /\ todo' = <<"drain_historical", "send_buffer", "flush_retries", "exit">>
<1>0. alive /\ alive' /\ todo = <<>>
  BY DEF Receive, Receiving, ReceiveCapture, ReceiveHistorical, ReceiveControl, WakeTimeout,
         WakeDisconnected
<1>1. /\ Service \in Seq(Work)
      /\ Elements(Service) \subseteq Work \ {"signal", "drain_pending", "exit", "due_sweep"}
  BY WorkLists, Turns DEF Work
<1>2. ASSUME NEW work \in {"send_buffer", "drain_historical"}
      PROVE  Elements(<<work>> \o Service) \subseteq Work \ {"signal", "drain_pending", "exit", "due_sweep"}
  <2>1. work \in Work \ {"signal", "drain_pending", "exit", "due_sweep"}
    BY DEF Work
  <2> DEFINE s == <<work>> \o Service
  <2>2. s \in Seq(Work) /\ s # <<>> /\ Head(s) = work /\ Tail(s) = Service
    BY <1>1, <2>1, WorkInFront
  <2> HIDE DEF s
  <2>3. Elements(s) = {work} \union Elements(Service)
    BY <2>2, WorkLeft
  <2> QED BY <1>1, <2>1, <2>3 DEF s
<1>3. <<>> \o Service = Service
  BY <1>1
<1>4. ReceiveCapture \/ ReceiveHistorical \/ WakeTimeout =>
        /\ UNCHANGED <<completing, deadline>>
        /\ Elements(todo') \subseteq Work \ {"signal", "drain_pending", "exit", "due_sweep"}
  BY <1>1, <1>2, <1>3 DEF ReceiveCapture, ReceiveHistorical, WakeTimeout
<1>5. ASSUME ReceiveControl
      PROVE  /\ channel # <<>> /\ channel' = Tail(channel)
             /\ Head(channel) \in ControlMessage /\ completing' = Head(channel).waiter
             /\ \/ /\ Head(channel).kind = "Flush" /\ todo' = FlushWork \o Service
                   /\ UNCHANGED deadline
                \/ /\ Head(channel).kind = "FlushCaptures" /\ todo' = FlushCapturesWork \o Service
                   /\ UNCHANGED deadline
                \/ /\ Head(channel).kind = "Shutdown" /\ todo' = ShutdownWork
                   /\ deadline' = "running"
  <2>1. Head(channel).kind \in {"Flush", "FlushCaptures", "Shutdown"}
    BY <1>5 DEF ReceiveControl, ControlMessage
  <2> QED BY <1>5, <2>1 DEF ReceiveControl
<1>6. WakeDisconnected =>
        /\ UNCHANGED completing /\ deadline' = "running"
        /\ todo' = <<"drain_historical", "send_buffer", "flush_retries", "exit">>
  BY DEF WakeDisconnected
<1> QED BY <1>0, <1>4, <1>5, <1>6

\* Work on the way to a signal.
LEMMA AwaitedNext ==
  ASSUME TypeOK, todo # <<>>, Awaited(todo), Head(todo) # "signal"
  PROVE  /\ Head(todo) \notin {"attempt_due", "due_sweep"}
         /\ Awaited(Tail(todo))
         /\ \A next \in Work \ {"signal", "attempt_due", "due_sweep"} :
              Awaited(<<next>> \o Tail(todo))
BY WorkAdvances DEF Awaited

\* The work of every flush and shutdown leads to its signal.
LEMMA AwaitedTurns ==
  /\ FlushWork \o Service # <<>> /\ Awaited(FlushWork \o Service)
  /\ FlushCapturesWork \o Service # <<>> /\ Awaited(FlushCapturesWork \o Service)
  /\ Head(FlushCapturesWork \o Service) = "send_buffer"
  /\ ShutdownWork # <<>> /\ Awaited(ShutdownWork)
<1>1. /\ FlushWork \in Seq(Work) /\ FlushCapturesWork \in Seq(Work) /\ Service \in Seq(Work)
  BY WorkLists
<1>2. /\ FlushWork # <<>> /\ FlushCapturesWork # <<>>
      /\ "signal" \in Elements(FlushWork) /\ "signal" \in Elements(FlushCapturesWork)
      /\ Head(FlushCapturesWork) = "send_buffer"
      /\ ~Before(FlushWork, "attempt_due", "signal") /\ ~Before(FlushWork, "due_sweep", "signal")
      /\ ~Before(FlushCapturesWork, "attempt_due", "signal")
      /\ ~Before(FlushCapturesWork, "due_sweep", "signal")
  BY Turns
<1>3. FlushWork \o Service # <<>> /\ Awaited(FlushWork \o Service)
  BY <1>1, <1>2, WorkJoined DEF Awaited
<1>4. FlushCapturesWork \o Service # <<>> /\ Awaited(FlushCapturesWork \o Service)
      /\ Head(FlushCapturesWork \o Service) = "send_buffer"
  BY <1>1, <1>2, WorkJoined DEF Awaited
<1>5. ShutdownWork # <<>> /\ Awaited(ShutdownWork)
  BY Turns DEF Awaited, ShutdownWork
<1> QED BY <1>3, <1>4, <1>5

\* Every step leads to the signal, or gives it.
LEMMA CompletingStep ==
  ASSUME TypeOK, Addressed, Completing, [Next]_vars
  PROVE  Completing'
<1>0. NoOne \notin PanicFlushers /\ NoOne \notin Waiters
  BY TransportAssumption DEF Waiters
<1>1. CASE UNCHANGED <<alive, todo, completing, buffer>>
  BY <1>1 DEF Completing
<1>2. CASE Receive
  <2>1. alive /\ completing = NoOne
    <3>1. ~Awaited(<<>>)
      BY DEF Awaited, Elements
    <3> QED BY <1>2, <3>1, WakeTurns DEF Completing
  <2>2. CASE UNCHANGED completing
    BY <1>0, <2>1, <2>2 DEF Completing
  <2>3. CASE ReceiveControl
    <3>1. channel \in Seq(Control)
      BY DEF TypeOK
    <3>2. /\ channel # <<>> /\ Head(channel) \in ControlMessage /\ completing' = Head(channel).waiter
          /\ \/ Head(channel).kind = "Flush" /\ todo' = FlushWork \o Service
             \/ Head(channel).kind = "FlushCaptures" /\ todo' = FlushCapturesWork \o Service
             \/ Head(channel).kind = "Shutdown" /\ todo' = ShutdownWork
      BY <1>2, <2>3, WakeTurns
    <3>3. Head(channel).waiter \in PanicFlushers => Head(channel).kind = "FlushCaptures"
      BY <3>1, <3>2, FirstMessage DEF Addressed
    <3> QED BY <3>2, <3>3, AwaitedTurns DEF Completing
  <2> QED BY <1>2, <2>2, <2>3, WakeTurns DEF Receive
<1>3. CASE Drain
  <2>0. /\ alive /\ todo # <<>> /\ UNCHANGED <<alive, completing>>
        /\ {"retry_sweep", "send_buffer", "drain_historical"} \subseteq Work \ {"signal", "attempt_due", "due_sweep"}
    BY <1>3, DrainSteps DEF Work
  <2>1. completing # NoOne => Awaited(todo)
    BY <2>0 DEF Completing
  <2>2. CASE DrainDone
    <3>1. TodoNext /\ Head(todo) # "signal" /\ UNCHANGED buffer /\ (Head(todo) = "send_buffer" => buffer = <<>>)
      BY <2>2 DEF DrainDone, NoWork, TodoNext, NextWork
    <3>2. completing # NoOne => Awaited(todo')
      BY <2>0, <2>1, <3>1, AwaitedNext DEF TodoNext
    <3> QED BY <1>0, <2>0, <3>1, <3>2 DEF Completing
  <2>3. CASE UNCHANGED todo /\ (UNCHANGED buffer \/ Head(todo) = "send_buffer")
    BY <2>0, <2>1, <2>3 DEF Completing
  <2>4. ASSUME Head(todo) \notin {"signal", "send_buffer"}, UNCHANGED buffer,
               TodoNext \/ \E next \in {"retry_sweep", "send_buffer", "drain_historical"} : TodoReplaced(next)
        PROVE  Completing'
    <3>1. completing # NoOne => Awaited(todo')
      BY <2>0, <2>1, <2>4, AwaitedNext DEF TodoNext, TodoReplaced
    <3> QED BY <1>0, <2>0, <2>4, <3>1 DEF Completing
  <2>5. CASE FlushRetries \/ ServiceBuffer \/ ServiceHistorical
    <3>1. UNCHANGED buffer
      BY <2>5 DEF FlushRetries, TakeRetries, ServiceBuffer, ServiceHistorical, ServiceTimer, storeVars
    <3>2. Head(todo) \in {"flush_retries", "service_buffer", "service_historical"}
      BY <2>5 DEF FlushRetries, TakeRetries, ServiceBuffer, ServiceHistorical, ServiceTimer, Doing
    <3>3. TodoNext \/ \E next \in {"retry_sweep", "send_buffer", "drain_historical"} : TodoReplaced(next)
      BY <1>3, <2>5, <3>2, DrainSteps
    <3> QED BY <2>4, <3>1, <3>2, <3>3
  <2>6. CASE AttemptDue
    <3>1. UNCHANGED buffer /\ Head(todo) = "attempt_due"
      BY <2>6 DEF AttemptDue, TakeRetries, storeVars, Doing
    <3>2. completing = NoOne
      BY <2>0, <2>1, <3>1, AwaitedNext
    <3> QED BY <1>0, <2>0, <3>1, <3>2 DEF Completing
  <2>7. CASE AttemptRetry \/ KeepRetry \/ DropRetry
    BY <2>3, <2>7 DEF AttemptRetry, KeepRetry, DropRetry, workerVars, storeVars
  <2>8. CASE SendBufferChunk \/ DropBuffer \/ SendHistoricalChunk \/ DropHistorical
    BY <2>3, <2>8 DEF SendBufferChunk, DropBuffer, SendHistoricalChunk, DropHistorical, workerVars,
       Doing
  <2> QED BY <1>3, <2>2, <2>5, <2>6, <2>7, <2>8 DEF Drain
<1>4. CASE SignalCompletion
  BY <1>0, <1>4 DEF SignalCompletion, Completing
<1>5. CASE DrainedPending
  <2>1. todo # <<>> /\ todo' = Tail(todo) /\ Head(todo) = "drain_pending" /\ alive
        /\ UNCHANGED <<alive, completing, buffer>>
    BY <1>5 DEF DrainedPending, Doing, NextWork, storeVars
  <2> QED BY <1>0, <2>1, AwaitedNext DEF Completing
<1>6. CASE WorkerExits
  BY <1>6 DEF WorkerExits, Completing
<1>7. DrainPending => UNCHANGED <<alive, todo, completing, buffer>>
  BY DEF DrainPending, workerVars, storeVars
<1>8. ASSUME NEW c \in Calls, CallStep(c) PROVE UNCHANGED <<alive, todo, completing, buffer>>
  BY <1>8 DEF CallStep, CheckClosed, ReserveSlot, QueueFull, SendReserved, workerVars, storeVars
<1>9. ASSUME NEW w \in Waiters, WaiterStep(w) \/ GiveUp(w)
      PROVE  UNCHANGED <<alive, todo, completing, buffer>>
  BY <1>9 DEF WaiterStep, GiveUp, BeginFlush, SendFlush, BeginClose, SendShutdown, TakeHandle,
         JoinWorker, workerVars, storeVars
<1>10. Respond \/ DropHandle \/ TimeStep \/ UNCHANGED vars =>
         UNCHANGED <<alive, todo, completing, buffer>>
  BY DEF Respond, AttemptFails, AttemptSucceeds, Answered, DropHandle, TimeStep, BufferElapses,
         HistoricalElapses, DeadlineElapses, RetryElapses, workerVars, storeVars, vars
<1> QED BY <1>1, <1>2, <1>3, <1>4, <1>5, <1>6, <1>7, <1>8, <1>9, <1>10
        DEF Next, WorkerStep, Finish, Quiet

\* A worker that has exited has nothing left to do.
Gone == ~alive => todo = <<>>

\* An exit leaves no work.
LEMMA GoneStep == ASSUME TypeOK, Gone, [Next]_vars PROVE Gone'
<1> USE DEF Gone
<1>1. CASE UNCHANGED <<alive, todo>>
  BY <1>1
<1>2. ASSUME NEW c \in Calls, CallStep(c) PROVE UNCHANGED <<alive, todo>>
  BY <1>2 DEF CallStep, CheckClosed, ReserveSlot, QueueFull, SendReserved, workerVars
<1>3. ASSUME NEW w \in Waiters, WaiterStep(w) \/ GiveUp(w) PROVE UNCHANGED <<alive, todo>>
  BY <1>3 DEF WaiterStep, GiveUp, BeginFlush, SendFlush, BeginClose, SendShutdown, TakeHandle,
         JoinWorker, workerVars
<1>4. CASE Receive
  BY <1>4, WakeTurns
<1>5. CASE Drain
  BY <1>5, DrainSteps
<1>6. CASE Finish
  BY <1>6 DEF Finish, SignalCompletion, DrainPending, DrainedPending, WorkerExits, Doing, workerVars
<1>7. Respond \/ DropHandle \/ TimeStep \/ UNCHANGED vars => UNCHANGED <<alive, todo>>
  BY DEF Respond, AttemptFails, AttemptSucceeds, Answered, DropHandle, TimeStep, BufferElapses,
         HistoricalElapses, DeadlineElapses, RetryElapses, workerVars, vars
<1> QED BY <1>1, <1>2, <1>3, <1>4, <1>5, <1>6, <1>7 DEF Next, WorkerStep, Quiet

\* How the worker's turn stands: its timers, its batch and whom it will wake.
InTurn == Timed /\ Attempting /\ Addressed /\ Completing /\ Gone

\* The turn of the worker is in order in every reachable state.
LEMMA TurnsKept == Spec => []InTurn
<1>1. Init => InTurn
  <2>1. ASSUME Init PROVE InTurn
    <3>1. NoOne \notin PanicFlushers
      BY TransportAssumption DEF Waiters
    <3>2. inflight = <<>> /\ channel = <<>> /\ todo = <<>> /\ completing = NoOne
      BY <2>1 DEF Init
    <3>3. Addressed
      BY <3>2 DEF Addressed
    <3> QED BY <2>1, <3>1, <3>2, <3>3 DEF Init, InTurn, Timed, Attempting, Completing, Gone
  <2> QED BY <2>1
<1>2. Sorted /\ InTurn /\ [Next]_vars => InTurn'
  <2> SUFFICES ASSUME Sorted, InTurn, [Next]_vars PROVE InTurn'
    OBVIOUS
  <2>1. TypeOK /\ ChannelPlaced
    BY DEF Sorted, Placement
  <2> QED BY <2>1, TimedStep, AttemptingStep, AddressedStep, CompletingStep,
            GoneStep
         DEF InTurn
<1> QED BY <1>1, <1>2, EventsSorted, PTL DEF Spec

\* No wake leaves events behind with the flush interval switched off: whenever the worker
\* goes back to its channel, outside a shutdown, a store has a timer exactly when it holds
\* something.
THEOREM TimersGuardStores == Spec => []NothingStranded
<1>1. InTurn => NothingStranded
  BY DEF InTurn, Timed, NothingStranded, Receiving
<1> QED BY <1>1, TurnsKept, PTL

\* Once the worker has received a panic hook's flush it sends the live buffer before any
\* retry: while the buffer holds anything no swept batch is attempted, however many are due.
\* The retries it attempts before it receives the flush are not covered.
THEOREM PanicsGoFirst == Spec => []PanicFirst
<1>1. Sorted /\ InTurn => PanicFirst
  <2> SUFFICES ASSUME Sorted, InTurn, completing \in PanicFlushers, buffer # <<>>
               PROVE  sweep = <<>> /\ \A b \in Elements(inflight) : b.attempt = 1
    BY DEF PanicFirst
  <2>1. WorkerPlaced
    BY DEF Sorted, Placement
  <2>2. CASE alive
    BY <2>1, <2>2 DEF InTurn, Completing, Attempting, WorkerPlaced
  <2>3. CASE ~alive
    BY <2>1, <2>3 DEF InTurn, Gone, WorkerPlaced, Elements
  <2> QED BY <2>2, <2>3
<1> QED BY <1>1, EventsSorted, TurnsKept, PTL
-----------------------------------------------------------------------------
(***************************************************************************)
(* Flow.  How a step moves an event, and discharges the flushes that wait  *)
(* for it.                                                                 *)
(***************************************************************************)
\* No flush waits for event e after the step.
Discharged(e) == \A w \in Waiters : e \notin owed'[w]

\* How the status of event e can change in a step.
Flow(e) ==
  \/ status'[e] = status[e]
  \/ status[e] \notin Accepted /\ status'[e] \notin Accepted
  \/ status[e] = "reserved" /\ status'[e] = "queued" /\ alive
  \/ status[e] = "queued" /\ status'[e] \in {"buffered", "historical"} /\ todo = <<>>
  \/ status[e] \in {"buffered", "historical", "sweeping"} /\ status'[e] = "inflight"
  \/ status[e] = "retrying" /\ status'[e] = "sweeping"
  \/ /\ status[e] = "sweeping" /\ status'[e] = "retrying"
     /\ todo # <<>> /\ Head(todo) = "due_sweep"
  \/ /\ status[e] \in Accepted /\ Discharged(e)
     /\ status'[e] \notin {"queued", "buffered", "historical"}
     /\ status'[e] = "retrying" => deadline = "off"

\* The statuses of an accepted event.
LEMMA AcceptedStatuses ==
  /\ {"queued", "buffered", "historical", "inflight", "retrying", "sweeping"} = Accepted
  /\ \A s \in {"new", "reserved", "condemned"} \union Settled : s \notin Accepted
  BY DEF Accepted, Held, Settled

\* What is attempted or settled is waited for no longer.
LEMMA DischargedEvents ==
  ASSUME NEW S, owed' = Discharge(S)
  PROVE  \A e \in S : Discharged(e)
  BY DEF Discharge, Discharged

\* Capture calls move events,
LEMMA CallFlow ==
  ASSUME TypeOK, Placement, NEW c \in Calls, CallStep(c)
  PROVE  \A e \in Events : Flow(e)
<1>0. CallsPlaced /\ CallsTyped /\ LedgerTyped
  BY DEF Placement, TypeOK
<1>1. /\ call[c] = "start" => \A e \in EventsOf(c) : status[e] = "new"
      /\ call[c] = "reserving" =>
           /\ \A e \in {<<c, fitted[c] + 1>>} : status[e] = "new"
           /\ \A e \in EventsOf(c) \ Elements(Reserved(c)) : status[e] = "new"
      /\ call[c] = "sending" => \A e \in Elements(Reserved(c)) : status[e] = "reserved"
  BY <1>0, CallEvents DEF With
<1>2. \A S, s : status' = Move(S, s) =>
        \A e \in Events : status'[e] = IF e \in S THEN s ELSE status[e]
  BY DEF Move, Mark
<1>a. ASSUME NEW S, NEW s, status' = Move(S, s), s \notin Accepted,
             \A e \in S : status[e] \notin Accepted
      PROVE  \A e \in Events : Flow(e)
  <2>1. \A e \in Events : status'[e] = IF e \in S THEN s ELSE status[e]
    BY <1>2, <1>a
  <2> QED BY <1>a, <2>1 DEF Flow
<1>b. {"new", "reserved", "refused"} \intersect Accepted = {}
  BY DEF Accepted, Held
<1>3. CASE CheckClosed(c)
  BY <1>1, <1>2, <1>3, AcceptedStatuses DEF CheckClosed, Flow, Settled
<1>4. CASE ReserveSlot(c)
  <2>1. call[c] = "reserving" /\ status' = Move({<<c, fitted[c] + 1>>}, "reserved")
    BY <1>4 DEF ReserveSlot
  <2>2. \A e \in {<<c, fitted[c] + 1>>} : status[e] \notin Accepted
    BY <1>1, <1>b, <2>1
  <2> QED BY <1>a, <1>b, <2>1, <2>2
<1>5. CASE QueueFull(c)
  <2>1. /\ call[c] = "reserving"
        /\ status' = Move(EventsOf(c) \ Elements(Reserved(c)), "refused")
    BY <1>5 DEF QueueFull
  <2>2. \A e \in EventsOf(c) \ Elements(Reserved(c)) : status[e] \notin Accepted
    BY <1>1, <1>b, <2>1
  <2> QED BY <1>a, <1>b, <2>1, <2>2
<1>6. CASE SendReserved(c)
  BY <1>1, <1>2, <1>6, AcceptedStatuses DEF SendReserved, Flow, Settled
<1> QED BY <1>3, <1>4, <1>5, <1>6 DEF CallStep

\* the receiving worker moves them,
LEMMA ReceiveFlow ==
  ASSUME TypeOK, Placement, Receive
  PROVE  \A e \in Events : Flow(e)
<1>0. channel \in Seq(Control) /\ ChannelPlaced
  BY DEF Placement, TypeOK
<1>1. CASE ReceiveCapture \/ ReceiveHistorical
  <2> DEFINE S == Elements(Head(channel).events)
  <2>1. /\ channel # <<>> /\ Head(channel).kind \in {"Capture", "HistoricalBatch"} /\ todo = <<>>
        /\ status' = Move(S, "buffered") \/ status' = Move(S, "historical")
    BY <1>1 DEF ReceiveCapture, ReceiveHistorical, Receiving
  <2>2. \A e \in S : status[e] = "queued"
    BY <1>0, <2>1, CaptureKinds, TakenEvents DEF With
  <2> HIDE DEF S
  <2> QED BY <2>1, <2>2 DEF Flow, Move, Mark
<1>2. CASE ReceiveControl \/ WakeTimeout \/ WakeDisconnected
  BY <1>2 DEF ReceiveControl, WakeTimeout, WakeDisconnected, ledgerVars, Flow
<1> QED BY <1>1, <1>2 DEF Receive

\* The events of a chunk or a store leave it for an attempt, or are settled.
LEMMA SendBatchFlow ==
  ASSUME LedgerTyped, NEW S, SendBatch(S),
         \A e \in S : status[e] \in {"buffered", "historical"}
  PROVE  \A e \in Events : Flow(e)
<1> DEFINE kept == S \ Filtered
<1>1. \A e \in Events : status'[e] = IF e \in S \ kept THEN "filtered"
                                     ELSE IF e \in kept THEN "inflight" ELSE status[e]
  BY DEF SendBatch, Move, Mark
<1>2. \A e \in S \ kept : Discharged(e)
  BY DischargedEvents DEF SendBatch
<1> HIDE DEF kept
<1>3. kept \subseteq S
  BY DEF kept
<1>4. \A e \in Events : e \in S => status[e] \in Accepted
  BY AcceptedStatuses
<1> QED BY <1>1, <1>2, <1>3, <1>4 DEF Flow

\* events are given up,
LEMMA AbandonFlow ==
  ASSUME LedgerTyped, NEW S, Abandon(S), status' = Move(S, "abandoned"),
         \A e \in S : status[e] \in Accepted
  PROVE  \A e \in Events : Flow(e)
<1>1. \A e \in Events : status'[e] = IF e \in S THEN "abandoned" ELSE status[e]
  BY DEF Move, Mark
<1>2. \A e \in S : Discharged(e)
  BY DischargedEvents DEF Abandon
<1> QED BY <1>1, <1>2 DEF Flow

\* stores are drained,
LEMMA StoreFlow ==
  ASSUME TypeOK, Placement, SendBufferChunk \/ DropBuffer \/ SendHistoricalChunk \/ DropHistorical
  PROVE  \A e \in Events : Flow(e)
<1>0. /\ LedgerTyped /\ StoresPlaced /\ buffer \in Seq(Events) /\ historical \in Seq(SUBSET Events)
  BY DEF Placement, TypeOK, StoresTyped
<1>1. /\ \A e \in Elements(buffer) : status[e] = "buffered"
      /\ \A e \in All(historical) : status[e] = "historical"
  BY <1>0 DEF StoresPlaced, With
<1>2. CASE SendBufferChunk
  <2> DEFINE take == SmallerOf(Len(buffer), AtLeastOne(MaxBatchSize))
             S == Elements(SubSeq(buffer, 1, take))
  <2>1. take \in 0..Len(buffer)
    <3>1. AtLeastOne(MaxBatchSize) \in Nat /\ Len(buffer) \in Nat
      BY <1>0, AtLeastOneType, TransportAssumption
    <3> QED BY <3>1 DEF SmallerOf
  <2>2. SendBatch(S)
    BY <1>2 DEF SendBufferChunk
  <2>3. S \subseteq Elements(buffer)
    <3> HIDE DEF take
    <3>1. OneToOne(buffer)
      BY <1>0 DEF StoresPlaced
    <3> QED BY <1>0, <2>1, <3>1, SplitEvents
  <2> HIDE DEF S
  <2> QED BY <1>0, <1>1, <2>2, <2>3, SendBatchFlow
<1>3. CASE DropBuffer
  BY <1>0, <1>1, <1>3, AbandonFlow, AcceptedStatuses DEF DropBuffer
<1>4. CASE SendHistoricalChunk
  <2>1. historical # <<>> /\ SendBatch(Head(historical))
    BY <1>4 DEF SendHistoricalChunk
  <2>2. Head(historical) \subseteq All(historical)
    BY <1>0, <2>1, FirstOfSets
  <2>3. \A e \in Head(historical) : status[e] \in {"buffered", "historical"}
    BY <1>1, <2>2
  <2> QED BY <1>0, <2>1, <2>3, SendBatchFlow
<1>5. CASE DropHistorical
  <2>1. \A e \in UNION Elements(historical) : status[e] \in Accepted
    BY <1>1, AcceptedStatuses DEF All
  <2> QED BY <1>0, <1>5, <2>1, AbandonFlow DEF DropHistorical
<1> QED BY <1>2, <1>3, <1>4, <1>5

\* retries are swept,
LEMMA SweepFlow ==
  ASSUME TypeOK, Placement, AttemptRetry \/ KeepRetry \/ DropRetry
  PROVE  \A e \in Events : Flow(e)
<1> DEFINE b == Head(sweep)
<1>1. sweep # <<>>
  BY DEF AttemptRetry, KeepRetry, DropRetry
<1>2. /\ \A e \in b.pending : status[e] = "sweeping"
      /\ \A e \in b.undelivered : status[e] = "condemned"
  BY <1>1, SweptBatch DEF With
<1> HIDE DEF b
<1>3. LedgerTyped
  BY DEF TypeOK
<1>4. CASE AttemptRetry
  <2>1. status' = Move(b.pending, "inflight")
    BY <1>4 DEF AttemptRetry, b
  <2> QED BY <1>2, <1>3, <2>1 DEF Flow, Move, Mark
<1>5. CASE KeepRetry
  <2>1. status' = Move(b.pending, "retrying") /\ todo # <<>> /\ Head(todo) = "due_sweep"
    BY <1>5 DEF KeepRetry, Doing, b
  <2> QED BY <1>2, <1>3, <2>1 DEF Flow, Move, Mark
<1>6. CASE DropRetry
  <2>1. status' = Mark(Move(b.pending, "abandoned"), b.undelivered, "unreported")
        /\ owed' = Discharge(b.pending)
    BY <1>6 DEF DropRetry, Forsaken, Abandon, b
  <2>2. \A e \in Events : status'[e] = IF e \in b.undelivered THEN "unreported"
                                       ELSE IF e \in b.pending THEN "abandoned" ELSE status[e]
    BY <2>1 DEF Move, Mark
  <2>3. \A e \in b.pending : Discharged(e)
    BY <2>1, DischargedEvents
  <2>4. "sweeping" \in Accepted /\ "condemned" \notin Accepted /\ "unreported" \notin Accepted
    BY DEF Accepted, Held
  <2> QED BY <1>2, <2>2, <2>3, <2>4 DEF Flow
<1> QED BY <1>4, <1>5, <1>6

\* attempts end,
LEMMA RespondFlow ==
  ASSUME TypeOK, Placement, Respond
  PROVE  \A e \in Events : Flow(e)
<1>0. LedgerTyped
  BY DEF TypeOK
<1>1. ASSUME NEW b \in Elements(inflight), NEW r \in Batch, NEW st,
             r.pending \subseteq b.pending,
             \A e \in r.undelivered \ b.pending : status[e] = "condemned",
             st \in [Events -> Status],
             \A e \in Events \ b.pending : st[e] = status[e],
             \A e \in b.pending : st[e] \in {"inflight", "condemned", "delivered", "omitted"},
             Report(r, st) \/ BackOff(r, st), owed' = Discharge(b.pending)
      PROVE  \A e \in Events : Flow(e)
  <2>1. b.pending = With("inflight")
    BY InflightBatch
  <2>2. \A e \in b.pending : status[e] = "inflight" /\ Discharged(e)
    BY <1>1, <2>1, DischargedEvents DEF With
  <2>3. \/ status' = Mark(st, r.pending \union r.undelivered, "rejected")
        \/ status' = Mark(st, r.pending, "retrying") /\ deadline = "off"
        \/ status' = Mark(Mark(st, r.pending, "abandoned"), r.undelivered, "unreported")
    BY <1>1 DEF Report, BackOff
  <2>4. \A e \in Events :
          /\ status'[e] # st[e] => e \in r.pending \union r.undelivered
          /\ status'[e] \in {st[e], "rejected", "retrying", "abandoned", "unreported"}
          /\ status'[e] = "retrying" /\ st[e] # "retrying" => deadline = "off" /\ e \in r.pending
    BY <1>1, <2>3 DEF Mark
  <2>5. \A s \in {"condemned", "delivered", "omitted", "rejected", "abandoned", "unreported"} : s \notin Accepted
    BY DEF Accepted, Held
  <2>6. ASSUME NEW e \in Events \ b.pending PROVE Flow(e)
    <3>1. st[e] = status[e] /\ e \notin r.pending
      BY <1>1
    <3>2. CASE e \in r.undelivered
      <4>1. status[e] = "condemned"
        BY <1>1, <3>2
      <4> QED BY <2>4, <2>5, <3>1, <4>1 DEF Flow
    <3>3. CASE e \notin r.undelivered
      BY <2>4, <3>1, <3>3 DEF Flow
    <3> QED BY <3>2, <3>3
  <2>7. ASSUME NEW e \in b.pending PROVE Flow(e)
    <3>1. e \in Events
      BY <2>1 DEF With
    <3>2. status[e] = "inflight" /\ Discharged(e) /\ "inflight" \in Accepted
      BY <2>2 DEF Accepted, Held
    <3>3. status'[e] \notin {"queued", "buffered", "historical"}
      BY <1>1, <2>4, <3>1
    <3>4. status'[e] = "retrying" => deadline = "off"
      BY <1>1, <2>4, <3>1
    <3> QED BY <3>2, <3>3, <3>4 DEF Flow
  <2> QED BY <2>6, <2>7
<1>2. CASE AttemptFails
  <2>1. PICK b \in Elements(inflight) :
          (Report(b, status) \/ BackOff(b, status)) /\ owed' = Discharge(b.pending)
    BY <1>2 DEF AttemptFails
  <2>2. /\ b \in Batch /\ b.pending = With("inflight") /\ b.undelivered \subseteq With("condemned")
    BY InflightBatch
  <2>3. /\ \A e \in b.undelivered : status[e] = "condemned"
        /\ \A e \in b.pending : status[e] = "inflight"
    BY <2>2 DEF With
  <2> QED BY <1>0, <1>1, <2>1, <2>2, <2>3 DEF LedgerTyped
<1>3. CASE AttemptSucceeds
  <2>1. PICK b \in Elements(inflight) : \E verdict \in Verdicts(b) : Answered(b, verdict)
    BY <1>3 DEF AttemptSucceeds
  <2>2. PICK verdict \in Verdicts(b) : Answered(b, verdict)
    BY <2>1
  <2> DEFINE got(v) == {e \in b.pending : verdict[Uuid[e]] = v}
             kept == Keep(b, verdict)
             lost == got("drop") \union (got("retry") \ kept)
             pruned == [b EXCEPT !.pending = kept, !.undelivered = @ \union lost]
             st == Mark(Mark(Move(got("ok"), "delivered"), got("absent"), "omitted"), lost, "condemned")
  <2>3. /\ b \in Batch /\ b.pending = With("inflight") /\ b.undelivered \subseteq With("condemned")
    BY InflightBatch
  <2>4. /\ \A e \in b.undelivered : status[e] = "condemned"
        /\ \A e \in b.pending : status[e] = "inflight"
        /\ b.pending \in SUBSET Events /\ b.undelivered \in SUBSET Events
    BY <2>3 DEF With
  <2>5. (Report(pruned, st) \/ BackOff(pruned, st)) /\ owed' = Discharge(b.pending)
    BY <2>2 DEF Answered
  <2>6. kept \subseteq b.pending /\ lost \subseteq b.pending
    BY DEF Keep
  <2>7. /\ pruned \in Batch /\ pruned.pending = kept /\ pruned.undelivered = b.undelivered \union lost
    BY <2>3, <2>4, <2>6 DEF Batch
  <2>8. /\ st \in [Events -> Status]
        /\ \A e \in Events : st[e] = IF e \in lost THEN "condemned"
                                      ELSE IF e \in got("absent") THEN "omitted"
                                      ELSE IF e \in got("ok") THEN "delivered" ELSE status[e]
    <3>1. {"condemned", "omitted", "delivered"} \subseteq Status
      BY DEF Status, Settled
    <3> HIDE DEF lost
    <3> QED BY <1>0, <3>1 DEF Mark, Move, LedgerTyped
  <2> HIDE DEF st, kept, lost, pruned
  <2>9. /\ \A e \in Events \ b.pending : st[e] = status[e]
        /\ \A e \in b.pending : st[e] \in {"inflight", "condemned", "delivered", "omitted"}
    BY <2>4, <2>6, <2>8
  <2>10. \A e \in pruned.undelivered \ b.pending : status[e] = "condemned"
    BY <2>4, <2>6, <2>7
  <2>11. pruned.pending \subseteq b.pending
    BY <2>6, <2>7
  <2> QED BY <1>1, <2>5, <2>7, <2>8, <2>9, <2>10, <2>11
<1> QED BY <1>2, <1>3 DEF Respond

\* and the exiting worker settles the rest.
LEMMA FinishFlow ==
  ASSUME TypeOK, Placement, Finish
  PROVE  \A e \in Events : Flow(e)
<1>0. channel \in Seq(Control) /\ ChannelPlaced /\ LedgerTyped
  BY DEF Placement, TypeOK
<1>1. CASE SignalCompletion \/ DrainedPending
  BY <1>1 DEF SignalCompletion, DrainedPending, ledgerVars, Flow
<1>2. CASE DrainPending
  <2>1. CASE Head(channel) \in ControlMessage
    BY <1>2, <2>1 DEF DrainPending, Flow
  <2>2. CASE Head(channel) \notin ControlMessage
    <3> DEFINE S == Elements(Head(channel).events)
    <3>1. channel # <<>> /\ Abandon(S) /\ status' = Move(S, "abandoned")
      BY <1>2, <2>2 DEF DrainPending
    <3>2. \A e \in S : status[e] = "queued"
      BY <1>0, <2>2, <3>1, CaptureKinds, TakenEvents DEF With
    <3> HIDE DEF S
    <3> QED BY <1>0, <3>1, <3>2, AbandonFlow, AcceptedStatuses
  <2> QED BY <2>1, <2>2
<1>3. CASE WorkerExits
  <2>1. With("queued") = UNION {Elements(m.events) :
                     m \in Elements(channel) \ {m \in Elements(channel) : m \in ControlMessage}}
    BY <1>0, ChannelEvents DEF ChannelPlaced
  <2>2. status' = Move(With("queued"), "lost") /\ owed' = Discharge(With("queued"))
    BY <1>3, <2>1 DEF WorkerExits
  <2>3. \A e \in Events : status'[e] = IF e \in With("queued") THEN "lost" ELSE status[e]
    BY <2>2 DEF Move, Mark
  <2>4. \A e \in With("queued") : Discharged(e) /\ status[e] = "queued"
    BY <2>2, DischargedEvents DEF With
  <2> QED BY <2>3, <2>4, AcceptedStatuses DEF Flow
<1> QED BY <1>1, <1>2, <1>3 DEF Finish

\* Every step moves every event along its way.
LEMMA EventsFlow ==
  ASSUME TypeOK, Placement, [Next]_vars
  PROVE  \A e \in Events : Flow(e)
<1>1. CASE FlushRetries \/ AttemptDue
  <2>1. status' = Move(With("retrying"), "sweeping")
    BY <1>1 DEF FlushRetries, AttemptDue, TakeRetries
  <2> QED BY <2>1 DEF Flow, Move, Mark, With
<1>2. CASE UNCHANGED status
  BY <1>2 DEF Flow
<1>3. ASSUME NEW w \in Waiters, WaiterStep(w) \/ GiveUp(w) PROVE UNCHANGED status
  BY <1>3 DEF WaiterStep, GiveUp, BeginFlush, SendFlush, BeginClose, SendShutdown, TakeHandle,
         JoinWorker, ledgerVars
<1>4. \/ DrainDone \/ ServiceBuffer \/ ServiceHistorical \/ DropHandle \/ TimeStep
      \/ UNCHANGED vars
      => UNCHANGED status
  BY DEF DrainDone, ServiceBuffer, ServiceHistorical, ServiceTimer, DropHandle, TimeStep,
         BufferElapses, HistoricalElapses, DeadlineElapses, RetryElapses, ledgerVars, vars
<1>5. CASE Drain
  BY <1>1, <1>2, <1>4, <1>5, StoreFlow, SweepFlow DEF Drain
<1> QED BY <1>2, <1>3, <1>4, <1>5, CallFlow, ReceiveFlow, RespondFlow, FinishFlow
        DEF Next, WorkerStep, Quiet
-----------------------------------------------------------------------------
(***************************************************************************)
(* Flushes.  The work ahead empties the stores before a caller is woken.   *)
(***************************************************************************)
\* A flush waits for accepted events only.
Owing == \A w \in Waiters : \A e \in owed[w] : status[e] \in Accepted

\* It waits for fewer and fewer.
LEMMA OwedShrinks ==
  ASSUME TypeOK, [Next]_vars, NEW w \in Waiters
  PROVE  \/ owed'[w] \subseteq owed[w]
         \/ /\ BeginFlush(w) /\ UNCHANGED status
            /\ owed'[w] = {e \in Events : status[e] \in Accepted}
<1>0. LedgerTyped
  BY DEF TypeOK
<1>1. \A S : owed' = Discharge(S) => owed'[w] \subseteq owed[w]
  BY DEF Discharge
<1>2. CASE UNCHANGED owed
  BY <1>2
<1>3. ASSUME NEW v \in Waiters, BeginFlush(v)
      PROVE  \/ owed'[w] \subseteq owed[w]
             \/ /\ BeginFlush(w) /\ UNCHANGED status
                /\ owed'[w] = {e \in Events : status[e] \in Accepted}
  BY <1>0, <1>3 DEF BeginFlush, LedgerTyped
<1>4. ASSUME NEW v \in Waiters, WaiterStep(v) \/ GiveUp(v) PROVE UNCHANGED owed \/ BeginFlush(v)
  BY <1>4 DEF WaiterStep, GiveUp, SendFlush, BeginClose, SendShutdown, TakeHandle, JoinWorker,
         ledgerVars
<1>5. ASSUME NEW c \in Calls, CallStep(c) PROVE UNCHANGED owed
  BY <1>5 DEF CallStep, CheckClosed, ReserveSlot, QueueFull, SendReserved
<1>6. Receive => UNCHANGED owed
  BY DEF Receive, ReceiveCapture, ReceiveHistorical, ReceiveControl, WakeTimeout,
         WakeDisconnected, ledgerVars
<1>7. SendBufferChunk \/ DropBuffer \/ SendHistoricalChunk \/ DropHistorical \/ DropRetry =>
        \E S : owed' = Discharge(S)
  BY DEF SendBufferChunk, DropBuffer, SendHistoricalChunk, DropHistorical, DropRetry, SendBatch,
         Abandon
<1>8. Respond => \E S : owed' = Discharge(S)
  BY DEF Respond, AttemptFails, AttemptSucceeds, Answered
<1>9. \/ DrainDone \/ FlushRetries \/ AttemptDue \/ AttemptRetry \/ KeepRetry \/ ServiceBuffer
      \/ ServiceHistorical
      => UNCHANGED owed
  BY DEF DrainDone, FlushRetries, AttemptDue, TakeRetries, AttemptRetry, KeepRetry,
         ServiceBuffer, ServiceHistorical, ServiceTimer, ledgerVars
<1>10. Finish => UNCHANGED owed \/ \E S : owed' = Discharge(S)
  BY DEF Finish, SignalCompletion, DrainPending, DrainedPending, WorkerExits, Abandon, ledgerVars
<1>11. DropHandle \/ TimeStep \/ UNCHANGED vars => UNCHANGED owed
  BY DEF DropHandle, TimeStep, BufferElapses, HistoricalElapses, DeadlineElapses, RetryElapses,
         ledgerVars, vars
<1> QED BY <1>1, <1>2, <1>3, <1>4, <1>5, <1>6, <1>7, <1>8, <1>9, <1>10, <1>11
        DEF Next, WorkerStep, Drain, Quiet

\* What it waits for is neither settled nor attempted yet.
LEMMA OwingStep ==
  ASSUME TypeOK, Placement, Owing, [Next]_vars
  PROVE  Owing'
<1> SUFFICES ASSUME NEW w \in Waiters, NEW e \in owed'[w] PROVE status'[e] \in Accepted
  BY DEF Owing
<1>1. CASE e \in owed[w]
  <2>1. status[e] \in Accepted /\ e \in Events /\ ~Discharged(e)
    BY <1>1 DEF Owing, Discharged, TypeOK, LedgerTyped
  <2>2. Flow(e)
    BY <2>1, EventsFlow
  <2> QED BY <2>1, <2>2, AcceptedStatuses DEF Flow
<1>2. CASE e \notin owed[w]
  BY <1>2, OwedShrinks
<1> QED BY <1>1, <1>2

\* What is left to do before the worker reaches the mark: each nonempty store has its drain.
Due(s, buffered, chunks, held, mark) ==
  /\ buffered # {} => Before(s, "send_buffer", mark)
  /\ chunks # {} => Before(s, "drain_historical", mark)
  /\ held # {} => Before(s, "flush_retries", mark)

\* The worker will empty its stores of the events of S before it reaches the mark.
Covered(S, mark) ==
  Due(todo, S \intersect With("buffered"), S \intersect With("historical"),
      S \intersect With("retrying"), mark)

\* The next work empties its store or leaves the drain ahead.
LEMMA DueNext ==
  ASSUME TypeOK, todo # <<>>, NEW B, NEW H, NEW R, NEW mark, Due(todo, B, H, R, mark),
         NEW B2 \in SUBSET B, NEW H2 \in SUBSET H, NEW R2 \in SUBSET R,
         Head(todo) = "send_buffer" => B2 = {},
         Head(todo) = "drain_historical" => H2 = {},
         Head(todo) = "flush_retries" => R2 = {}
  PROVE  /\ Due(Tail(todo), B2, H2, R2, mark)
         /\ \A next \in Work \ {mark} : Due(<<next>> \o Tail(todo), B2, H2, R2, mark)
<1>1. CASE Head(todo) = mark
  BY <1>1, WorkAdvances DEF Due
<1>2. CASE Head(todo) # mark
  <2>1. /\ B2 # {} => Before(Tail(todo), "send_buffer", mark)
        /\ H2 # {} => Before(Tail(todo), "drain_historical", mark)
        /\ R2 # {} => Before(Tail(todo), "flush_retries", mark)
    BY <1>2, WorkAdvances DEF Due
  <2> QED BY <2>1, WorkAdvances DEF Due
<1> QED BY <1>1, <1>2

\* The work at which stores have to be empty.
Marks == {"signal", "drain_pending", "exit"}

\* Every step keeps the drains ahead of the mark.
LEMMA DueStep ==
  ASSUME TypeOK, Placement', [Next]_vars, todo # <<>>, alive',
         NEW mark \in Marks, NEW B, NEW H, NEW R, Due(todo, B, H, R, mark),
         NEW B2 \in SUBSET B, NEW H2 \in SUBSET H, NEW R2 \in SUBSET R,
         B2 \subseteq With("buffered")', H2 \subseteq With("historical")',
         R2 \subseteq With("retrying")'
  PROVE  Due(todo', B2, H2, R2, mark)
<1>1. CASE UNCHANGED todo
  BY <1>1 DEF Due
<1>2. /\ buffer' = <<>> => B2 = {}
      /\ historical' = <<>> => H2 = {}
      /\ retries' = <<>> => R2 = {}
  <2>1. /\ With("buffered")' = Elements(buffer)' /\ With("historical")' = All(historical)'
        /\ With("retrying")' = All(Pendings(retries))'
    BY DEF Placement, StoresPlaced, BatchesPlaced
  <2>2. Elements(<<>>) = {} /\ All(<<>>) = {} /\ All(Pendings(<<>>)) = {}
    BY NoSets, NoBatches
  <2> QED BY <2>1, <2>2
<1>3. ASSUME TodoNext \/ \E next \in Work \ Marks : TodoReplaced(next),
             Head(todo) = "send_buffer" => buffer' = <<>>,
             Head(todo) = "drain_historical" => historical' = <<>>,
             Head(todo) = "flush_retries" => retries' = <<>>
      PROVE  Due(todo', B2, H2, R2, mark)
  <2>1. /\ Due(Tail(todo), B2, H2, R2, mark)
        /\ \A next \in Work \ {mark} : Due(<<next>> \o Tail(todo), B2, H2, R2, mark)
    BY <1>2, <1>3, DueNext
  <2> QED BY <1>3, <2>1 DEF TodoNext, TodoReplaced
<1>4. CASE Drain
  <2>1. {"retry_sweep", "due_sweep", "send_buffer", "drain_historical"} \subseteq Work \ Marks
    BY DEF Work, Marks
  <2>2. CASE DrainDone
    <3>1. /\ TodoNext /\ UNCHANGED <<buffer, historical>>
          /\ Head(todo) = "send_buffer" => buffer = <<>>
          /\ Head(todo) = "drain_historical" => historical = <<>>
          /\ Head(todo) # "flush_retries"
      BY <2>2 DEF DrainDone, NoWork, NextWork, TodoNext
    <3> QED BY <1>3, <3>1
  <2>3. CASE FlushRetries
    <3>1. TodoReplaced("retry_sweep") /\ Head(todo) = "flush_retries" /\ retries' = <<>>
      BY <2>3 DEF FlushRetries, TakeRetries, TodoReplaced, Doing
    <3> QED BY <1>3, <2>1, <3>1
  <2>4. CASE AttemptDue
    <3>1. TodoReplaced("due_sweep") /\ Head(todo) = "attempt_due"
      BY <2>4 DEF AttemptDue, TakeRetries, TodoReplaced, Doing
    <3> QED BY <1>3, <2>1, <3>1
  <2>5. CASE ServiceBuffer \/ ServiceHistorical
    <3>1. /\ Head(todo) \in {"service_buffer", "service_historical"}
          /\ TodoNext \/ TodoReplaced("send_buffer") \/ TodoReplaced("drain_historical")
      <4>1. \A s \in Seq(Work) : <<>> \o s = s
        OBVIOUS
      <4>2. <<>> \o Tail(todo) = Tail(todo)
        BY <4>1, WorkAdvances
      <4> QED BY <2>5, <4>2 DEF ServiceBuffer, ServiceHistorical, ServiceTimer, Doing, TodoNext, TodoReplaced
    <3> QED BY <1>3, <2>1, <3>1
  <2> QED BY <1>1, <1>4, <2>2, <2>3, <2>4, <2>5, DrainSteps DEF Drain
<1>5. CASE SignalCompletion \/ DrainedPending
  <2>1. TodoNext /\ Head(todo) \in {"signal", "drain_pending"}
    BY <1>5 DEF SignalCompletion, DrainedPending, Doing, NextWork, TodoNext
  <2> QED BY <1>3, <2>1
<1>6. ~Receive /\ ~WorkerExits
  BY WakeTurns DEF WorkerExits
<1>7. ASSUME NEW c \in Calls, CallStep(c) PROVE UNCHANGED todo
  BY <1>7 DEF CallStep, CheckClosed, ReserveSlot, QueueFull, SendReserved, workerVars
<1>8. ASSUME NEW w \in Waiters, WaiterStep(w) \/ GiveUp(w) PROVE UNCHANGED todo
  BY <1>8 DEF WaiterStep, GiveUp, BeginFlush, SendFlush, BeginClose, SendShutdown, TakeHandle,
         JoinWorker, workerVars
<1>9. Respond \/ DropHandle \/ TimeStep \/ DrainPending \/ UNCHANGED vars => UNCHANGED todo
  BY DEF Respond, AttemptFails, AttemptSucceeds, Answered, DropHandle, TimeStep, BufferElapses,
         HistoricalElapses, DeadlineElapses, RetryElapses, DrainPending, workerVars, vars
<1> QED BY <1>1, <1>4, <1>5, <1>6, <1>7, <1>8, <1>9 DEF Next, WorkerStep, Finish, Quiet

\* The worker at a mark holds none of the events of S that it was to empty its stores of.
LEMMA Emptied ==
  ASSUME TypeOK, Placement, NEW S, NEW mark \in Marks, Doing(mark), Covered(S, mark)
  PROVE  \A e \in Events : e \in S /\ status[e] \in Accepted => status[e] = "queued"
<1>1. todo # <<>> /\ Head(todo) = mark /\ inflight = <<>>
  BY DEF Doing
<1>2. /\ S \intersect With("buffered") = {} /\ S \intersect With("historical") = {}
      /\ S \intersect With("retrying") = {}
  BY <1>1, WorkAdvances DEF Covered, Due
<1>3. sweep = <<>>
  BY <1>1 DEF Placement, WorkerPlaced, Marks
<1>4. With("inflight") = {} /\ With("sweeping") = {}
  BY <1>1, <1>3, NoBatches DEF Placement, BatchesPlaced
<1> QED BY <1>2, <1>4, AcceptedStatuses DEF With

\* A worker that leaves will drain all its stores before it drains the channel and exits, and
\* takes no due retry on the way; one that stays has no exit ahead.
Leaving ==
  alive =>
    /\ deadline = "off" => {"drain_pending", "exit"} \intersect Elements(todo) = {}
    /\ deadline # "off" =>
         /\ "exit" \in Elements(todo)
         /\ {"attempt_due", "due_sweep"} \intersect Elements(todo) = {}
         /\ Covered(Events, "drain_pending") /\ Covered(Events, "exit")

\* A worker that has left leaves no event accepted.
Departed == ~alive => \A e \in Events : status[e] \notin Accepted

\* The first work of each turn covers what the turn has to empty.
LEMMA TurnsCover ==
  /\ \A mark \in {"drain_pending", "exit", "signal"} : \A B, H, R : Due(ShutdownWork, B, H, R, mark)
  /\ \A B, H, R : Due(FlushWork \o Service, B, H, R, "signal")
  /\ \A B, H, R : Due(FlushCapturesWork \o Service, B, H, R, "signal")
  /\ {"drain_pending", "exit"} \intersect Elements(FlushWork \o Service) = {}
  /\ {"drain_pending", "exit"} \intersect Elements(FlushCapturesWork \o Service) = {}
<1>1. /\ FlushWork \in Seq(Work) /\ FlushCapturesWork \in Seq(Work) /\ Service \in Seq(Work)
      /\ FlushWork # <<>> /\ FlushCapturesWork # <<>>
      /\ "signal" \in Elements(FlushWork) /\ "signal" \in Elements(FlushCapturesWork)
  BY WorkLists, Turns
<1>2. \A work \in {"send_buffer", "drain_historical", "flush_retries"} :
        /\ Before(FlushWork \o Service, work, "signal")
        /\ Before(FlushCapturesWork \o Service, work, "signal")
  <2>1. \A work \in {"send_buffer", "drain_historical", "flush_retries"} :
          Before(FlushWork, work, "signal") /\ Before(FlushCapturesWork, work, "signal")
    BY Turns
  <2> QED BY <1>1, <2>1, WorkJoined
<1>3. /\ Elements(FlushWork) = {"flush_retries", "drain_historical", "send_buffer", "signal"}
      /\ Elements(FlushCapturesWork) = {"flush_retries", "drain_historical", "send_buffer", "signal"}
  BY DEF FlushWork, FlushCapturesWork, Elements
<1>4. /\ Elements(FlushWork \o Service) = Elements(FlushWork) \union Elements(Service)
      /\ Elements(FlushCapturesWork \o Service) = Elements(FlushCapturesWork) \union Elements(Service)
  BY <1>1, WorkJoined
<1>5. Elements(Service) = {"service_buffer", "service_historical", "attempt_due"}
  BY Turns
<1>6. \A mark \in {"drain_pending", "exit", "signal"} : \A B, H, R : Due(ShutdownWork, B, H, R, mark)
  BY Turns DEF Due
<1> QED BY <1>2, <1>3, <1>4, <1>5, <1>6 DEF Due

\* The turn of a disconnect empties all stores too.
LEMMA DisconnectedTurn ==
  LET s == <<"drain_historical", "send_buffer", "flush_retries", "exit">> IN
  /\ "exit" \in Elements(s) /\ {"attempt_due", "due_sweep"} \intersect Elements(s) = {}
  /\ \A mark \in {"drain_pending", "exit"} : \A B, H, R : Due(s, B, H, R, mark)
<1> DEFINE s == <<"drain_historical", "send_buffer", "flush_retries", "exit">>
<1>1. "exit" \in Elements(s) /\ {"attempt_due", "due_sweep"} \intersect Elements(s) = {}
  BY DEF Elements
<1>2. \A mark \in {"drain_pending", "exit"} :
        \A work \in {"send_buffer", "drain_historical", "flush_retries"} : Before(s, work, mark)
  BY DEF Before
<1> HIDE DEF s
<1>3. \A mark \in {"drain_pending", "exit"} : \A B, H, R : Due(s, B, H, R, mark)
  BY <1>2 DEF Due
<1> QED BY <1>1, <1>3 DEF s

\* The work list of a worker that stays.
LEMMA WorkSteps ==
  ASSUME TypeOK, [Next]_vars, ~Receive, alive'
  PROVE  /\ alive /\ ((UNCHANGED deadline) \/ (deadline = "running" /\ deadline' = "elapsed"))
         /\ (UNCHANGED completing) \/ SignalCompletion
         /\ \/ UNCHANGED todo
            \/ TodoNext /\ Head(todo) # "exit"
            \/ Head(todo) # "exit" /\ \E next \in {"retry_sweep", "send_buffer", "drain_historical"} : TodoReplaced(next)
            \/ Head(todo) = "attempt_due" /\ TodoReplaced("due_sweep")
<1>1. CASE Drain
  <2>1. DrainDone => Head(todo) # "exit"
    BY DEF DrainDone, NoWork
  <2>2. alive /\ UNCHANGED <<deadline, completing>>
    BY <1>1, DrainSteps
  <2>3. \/ UNCHANGED todo
        \/ TodoNext /\ Head(todo) # "exit"
        \/ Head(todo) # "exit" /\ \E next \in {"retry_sweep", "send_buffer", "drain_historical"} : TodoReplaced(next)
        \/ Head(todo) = "attempt_due" /\ TodoReplaced("due_sweep")
    BY <1>1, <2>1, DrainSteps
  <2> QED BY <2>2, <2>3
<1>2. CASE SignalCompletion
  BY <1>2 DEF SignalCompletion, Doing, NextWork, TodoNext
<1>3. CASE DrainedPending
  BY <1>3 DEF DrainedPending, Doing, NextWork, TodoNext
<1>4. CASE DeadlineElapses
  BY <1>4 DEF DeadlineElapses
<1>5. ~WorkerExits
  BY DEF WorkerExits
<1>6. ASSUME NEW c \in Calls, CallStep(c) PROVE UNCHANGED <<alive, todo, deadline, completing>>
  BY <1>6 DEF CallStep, CheckClosed, ReserveSlot, QueueFull, SendReserved, workerVars
<1>7. ASSUME NEW w \in Waiters, WaiterStep(w) \/ GiveUp(w)
      PROVE  UNCHANGED <<alive, todo, deadline, completing>>
  BY <1>7 DEF WaiterStep, GiveUp, BeginFlush, SendFlush, BeginClose, SendShutdown, TakeHandle,
         JoinWorker, workerVars
<1>8. \/ Respond \/ DropHandle \/ BufferElapses \/ HistoricalElapses \/ DrainPending \/ UNCHANGED vars
      \/ \E i \in DOMAIN retries : RetryElapses(i)
      => UNCHANGED <<alive, todo, deadline, completing>>
  BY DEF Respond, AttemptFails, AttemptSucceeds, Answered, DropHandle, BufferElapses,
         HistoricalElapses, RetryElapses, DrainPending, workerVars, vars
<1> QED BY <1>1, <1>2, <1>3, <1>4, <1>5, <1>6, <1>7, <1>8 DEF Next, WorkerStep, Finish, TimeStep, Quiet

\* Every step of a worker that leaves is on its way out.
LEMMA LeavingStep ==
  ASSUME TypeOK, TypeOK', Placement, Placement', Leaving, [Next]_vars
  PROVE  Leaving'
<1> SUFFICES ASSUME alive' PROVE Leaving'
  BY DEF Leaving
<1>1. CASE Receive
  <2>1. alive /\ todo = <<>> /\ deadline = "off"
    <3>1. Elements(<<>>) = {}
      BY DEF Elements
    <3> QED BY <1>1, <3>1, WakeTurns DEF Leaving
  <2>2. CASE ReceiveCapture \/ ReceiveHistorical \/ WakeTimeout
    <3>1. UNCHANGED deadline /\ Elements(todo') \subseteq Work \ {"signal", "drain_pending", "exit", "due_sweep"}
      BY <1>1, <2>2, WakeTurns
    <3> QED BY <2>1, <3>1 DEF Leaving
  <2>3. CASE ReceiveControl
    <3>1. \/ deadline' = deadline /\ todo' \in {FlushWork \o Service, FlushCapturesWork \o Service}
          \/ deadline' = "running" /\ todo' = ShutdownWork
      BY <1>1, <2>3, WakeTurns
    <3>2. CASE deadline' = deadline /\ todo' \in {FlushWork \o Service, FlushCapturesWork \o Service}
      BY <2>1, <3>2, TurnsCover DEF Leaving
    <3>3. CASE deadline' = "running" /\ todo' = ShutdownWork
      <4>1. /\ \A mark \in {"drain_pending", "exit"} : \A B, H, R : Due(todo', B, H, R, mark)
            /\ "exit" \in Elements(todo') /\ {"attempt_due", "due_sweep"} \intersect Elements(todo') = {}
        BY <3>3, TurnsCover, Turns
      <4> QED BY <3>3, <4>1 DEF Leaving, Covered
    <3> QED BY <3>1, <3>2, <3>3
  <2>4. CASE WakeDisconnected
    <3>1. deadline' = "running" /\ todo' = <<"drain_historical", "send_buffer", "flush_retries", "exit">>
      BY <1>1, <2>4, WakeTurns
    <3>2. /\ \A mark \in {"drain_pending", "exit"} : \A B, H, R : Due(todo', B, H, R, mark)
          /\ "exit" \in Elements(todo') /\ {"attempt_due", "due_sweep"} \intersect Elements(todo') = {}
      BY <3>1, DisconnectedTurn
    <3> QED BY <3>1, <3>2 DEF Leaving, Covered
  <2> QED BY <1>1, <2>2, <2>3, <2>4 DEF Receive
<1>2. CASE ~Receive
  <2>0. /\ alive /\ ((UNCHANGED deadline) \/ (deadline = "running" /\ deadline' = "elapsed"))
        /\ \/ UNCHANGED todo
           \/ TodoNext /\ Head(todo) # "exit"
           \/ Head(todo) # "exit" /\ \E next \in {"retry_sweep", "send_buffer", "drain_historical"} : TodoReplaced(next)
           \/ Head(todo) = "attempt_due" /\ TodoReplaced("due_sweep")
    BY <1>2, WorkSteps
  <2>a. {"retry_sweep", "send_buffer", "drain_historical", "due_sweep"} \subseteq Work
    BY DEF Work
  <2>1. /\ Elements(todo') \subseteq Elements(todo) \union {"retry_sweep", "send_buffer", "drain_historical", "due_sweep"}
        /\ "exit" \in Elements(todo) => "exit" \in Elements(todo')
        /\ "due_sweep" \in Elements(todo') => "due_sweep" \in Elements(todo) \/ "attempt_due" \in Elements(todo)
    <3>1. CASE TodoNext /\ Head(todo) # "exit"
      BY <3>1, WorkAdvances DEF TodoNext
    <3>2. ASSUME NEW next \in {"retry_sweep", "send_buffer", "drain_historical"},
                 Head(todo) # "exit", TodoReplaced(next)
          PROVE  /\ Elements(todo') \subseteq Elements(todo) \union {next}
                 /\ "exit" \in Elements(todo) => "exit" \in Elements(todo')
                 /\ next # "due_sweep"
      BY <2>a, <3>2, WorkAdvances DEF TodoReplaced
    <3>3. CASE Head(todo) = "attempt_due" /\ TodoReplaced("due_sweep")
      BY <2>a, <3>3, WorkAdvances DEF TodoReplaced
    <3>4. CASE UNCHANGED todo
      BY <3>4
    <3> QED BY <2>0, <3>1, <3>2, <3>3, <3>4
  <2>2. CASE deadline = "off"
    BY <2>0, <2>1, <2>2 DEF Leaving
  <2>3. CASE deadline # "off"
    <3>1. /\ "exit" \in Elements(todo) /\ {"attempt_due", "due_sweep"} \intersect Elements(todo) = {}
          /\ Covered(Events, "drain_pending") /\ Covered(Events, "exit")
      BY <2>0, <2>3 DEF Leaving
    <3>2. todo # <<>> /\ Head(todo) # "due_sweep"
      <4>1. todo # <<>>
        BY <3>1 DEF Elements
      <4> QED BY <3>1, <4>1, WorkAdvances
    <3>3. /\ Events \intersect With("buffered")' \subseteq Events \intersect With("buffered")
          /\ Events \intersect With("historical")' \subseteq Events \intersect With("historical")
          /\ Events \intersect With("retrying")' \subseteq Events \intersect With("retrying")
      <4>1. \A e \in Events : Flow(e)
        BY EventsFlow
      <4> QED BY <2>3, <3>2, <4>1 DEF Flow, With, Accepted, Held
    <3>4. \A mark \in {"drain_pending", "exit"} : Covered(Events, mark)'
      <4> SUFFICES ASSUME NEW mark \in {"drain_pending", "exit"} PROVE Covered(Events, mark)'
        OBVIOUS
      <4>1. Due(todo, Events \intersect With("buffered"), Events \intersect With("historical"),
                Events \intersect With("retrying"), mark)
        BY <3>1 DEF Covered
      <4>2. mark \in Marks
        BY DEF Marks
      <4>3. Due(todo', Events \intersect With("buffered")', Events \intersect With("historical")',
                Events \intersect With("retrying")', mark)
        BY <3>2, <3>3, <4>1, <4>2, DueStep
      <4> QED BY <4>3 DEF Covered
    <3> QED BY <2>0, <2>1, <2>3, <3>1, <3>4 DEF Leaving
  <2> QED BY <2>2, <2>3
<1> QED BY <1>1, <1>2

\* The exit settles what is left.
LEMMA DepartedStep ==
  ASSUME TypeOK, Placement, Leaving, Departed, [Next]_vars
  PROVE  Departed'
<1>0. \A e \in Events : Flow(e)
  BY EventsFlow
<1>1. CASE ~alive
  <2>1. \A e \in Events : status[e] \notin Accepted
    BY <1>1 DEF Departed
  <2>2. \A e \in Events : status'[e] \notin Accepted
    BY <1>0, <1>1, <2>1, AcceptedStatuses DEF Flow
  <2> QED BY <2>2 DEF Departed
<1>2. CASE alive /\ WorkerExits
  <2>1. Doing("exit") /\ alive' = FALSE
    BY <1>2 DEF WorkerExits
  <2>2. deadline # "off"
    BY <2>1, WorkAdvances DEF Doing, Leaving
  <2>3. \A e \in Events : status[e] \in Accepted => status[e] = "queued"
    BY <2>1, <2>2, Emptied DEF Leaving, Doing, Marks
  <2>4. \A e \in Events : status'[e] = IF e \in With("queued") THEN "lost" ELSE status[e]
    <3>0. channel \in Seq(Control) /\ ChannelPlaced /\ LedgerTyped
      BY DEF Placement, TypeOK
    <3>1. With("queued") = UNION {Elements(m.events) :
                       m \in Elements(channel) \ {m \in Elements(channel) : m \in ControlMessage}}
      BY <3>0, ChannelEvents DEF ChannelPlaced
    <3>2. status' = Move(With("queued"), "lost")
      BY <1>2, <3>1 DEF WorkerExits
    <3> QED BY <3>0, <3>2 DEF Move, Mark
  <2>5. "lost" \notin Accepted
    BY DEF Accepted, Held
  <2> QED BY <2>3, <2>4, <2>5 DEF Departed, With
<1>3. CASE alive /\ ~WorkerExits
  <2>1. alive'
    <3>1. ASSUME NEW c \in Calls, CallStep(c) PROVE UNCHANGED alive
      BY <3>1 DEF CallStep, CheckClosed, ReserveSlot, QueueFull, SendReserved, workerVars
    <3>2. ASSUME NEW w \in Waiters, WaiterStep(w) \/ GiveUp(w) PROVE UNCHANGED alive
      BY <3>2 DEF WaiterStep, GiveUp, BeginFlush, SendFlush, BeginClose, SendShutdown, TakeHandle,
             JoinWorker, workerVars
    <3>3. Receive => alive'
      BY WakeTurns
    <3>4. Drain => UNCHANGED alive
      BY DrainSteps
    <3>5. Respond \/ DropHandle \/ TimeStep \/ UNCHANGED vars => UNCHANGED alive
      BY DEF Respond, AttemptFails, AttemptSucceeds, Answered, DropHandle, TimeStep,
             BufferElapses, HistoricalElapses, DeadlineElapses, RetryElapses, workerVars, vars
    <3>6. SignalCompletion \/ DrainPending \/ DrainedPending => UNCHANGED alive
      BY DEF SignalCompletion, DrainPending, DrainedPending, workerVars
    <3> QED BY <1>3, <3>1, <3>2, <3>3, <3>4, <3>5, <3>6 DEF Next, WorkerStep, Finish, Quiet
  <2> QED BY <2>1 DEF Departed
<1> QED BY <1>1, <1>2, <1>3
-----------------------------------------------------------------------------
(***************************************************************************)
(* Flushes.  What a flush waits for is ahead of its message, and of its    *)
(* signal.                                                                 *)
(***************************************************************************)
\* The callers that wait for attempts.
Flushes == Flushers \union PanicFlushers

\* A flush sends one message: none is in the channel, or in hand, before it is sent.
Once ==
  \A w \in Flushes :
    /\ wait[w] # "joining" /\ joining # w
    /\ wait[w] \in {"idle", "sending"} =>
         /\ completing # w
         /\ \A i \in DOMAIN channel : channel[i] \in ControlMessage => channel[i].waiter # w

\* What a flush waits for and is not received yet is in messages ahead of its own.
Ahead ==
  \A i \in DOMAIN channel : channel[i] \in ControlMessage /\ channel[i].waiter \in Flushes =>
    \A e \in owed[channel[i].waiter] :
      status[e] = "queued" => \E j \in 1..(i - 1) : e \in Load(channel[j])

\* The flush in hand waits for events of the stores only, whose drains are ahead of its
\* signal.
Serving ==
  alive /\ completing \in Flushes =>
    /\ \A e \in owed[completing] : status[e] # "queued"
    /\ Covered(owed[completing], "signal")

\* What a step can do to the wait of a flush.
LEMMA FlushSteps ==
  ASSUME TypeOK, Once, [Next]_vars, NEW w \in Flushes
  PROVE  \/ wait'[w] = wait[w]
         \/ BeginFlush(w) /\ wait[w] = "idle" /\ wait'[w] \in {"noop", "sending"}
         \/ SendFlush(w) /\ wait[w] = "sending" /\ wait'[w] \in {"waiting", "returned"}
              /\ (wait'[w] = "returned" => ~alive)
         \/ wait[w] = "waiting" /\ wait'[w] = "gave_up"
         \/ /\ wait[w] = "waiting" /\ wait'[w] = "returned"
            /\ \/ SignalCompletion /\ completing = w
               \/ DrainPending /\ Head(channel) \in ControlMessage /\ Head(channel).waiter = w
               \/ WorkerExits
<1>0. /\ w \in Waiters /\ w \notin Closers
      /\ wait \in [Waiters -> {"idle", "sending", "waiting", "joining", "returned", "noop", "gave_up"}]
  BY TransportAssumption DEF Flushes, Waiters, TypeOK, WaitTyped
<1>1. ASSUME NEW v \in Waiters, NEW place, Goto(v, place), v # w PROVE wait'[w] = wait[w]
  BY <1>0, <1>1 DEF Goto
<1>2. ASSUME NEW v \in Closers, BeginClose(v) \/ SendShutdown(v) PROVE wait'[w] = wait[w]
  BY <1>0, <1>1, <1>2 DEF BeginClose, SendShutdown, Waiters
<1>3. ASSUME NEW v \in Waiters, TakeHandle(v) \/ JoinWorker(v) PROVE wait'[w] = wait[w]
  <2>1. v # w
    BY <1>3 DEF Once, TakeHandle, JoinWorker
  <2> QED BY <1>1, <1>3, <2>1 DEF TakeHandle, JoinWorker
<1>4. ASSUME NEW v \in Waiters, BeginFlush(v)
      PROVE  \/ wait'[w] = wait[w]
             \/ BeginFlush(w) /\ wait[w] = "idle" /\ wait'[w] \in {"noop", "sending"}
  <2>1. CASE v = w
    BY <1>0, <1>4, <2>1 DEF BeginFlush, Goto
  <2>2. Goto(v, "noop") \/ Goto(v, "sending")
    BY <1>4 DEF BeginFlush
  <2>3. v # w => wait'[w] = wait[w]
    BY <1>1, <2>2
  <2> QED BY <2>1, <2>3
<1>5. ASSUME NEW v \in Waiters, SendFlush(v)
      PROVE  \/ wait'[w] = wait[w]
             \/ SendFlush(w) /\ wait[w] = "sending" /\ wait'[w] \in {"waiting", "returned"}
                  /\ (wait'[w] = "returned" => ~alive)
  <2>1. CASE v = w
    BY <1>0, <1>5, <2>1 DEF SendFlush, Goto
  <2> QED BY <1>1, <1>5, <2>1 DEF SendFlush
<1>6. ASSUME NEW v \in Waiters, GiveUp(v)
      PROVE  \/ wait'[w] = wait[w]
             \/ wait[w] = "waiting" /\ wait'[w] = "gave_up"
  <2>1. CASE v = w
    BY <1>0, <1>6, <2>1 DEF GiveUp, Goto, Cancellable
  <2>2. Goto(v, "gave_up")
    BY <1>6 DEF GiveUp
  <2>3. v # w => wait'[w] = wait[w]
    BY <1>1, <2>2
  <2> QED BY <2>1, <2>3
<1>7. ASSUME NEW W, wait' = Woken(W)
      PROVE  \/ wait'[w] = wait[w]
             \/ w \in W /\ wait[w] = "waiting" /\ wait'[w] = "returned"
  BY <1>0, <1>7 DEF Woken
<1>8. SignalCompletion => wait' = Woken({completing})
  BY DEF SignalCompletion
<1>9. DrainPending => \/ UNCHANGED wait
                      \/ wait' = Woken({Head(channel).waiter}) /\ Head(channel) \in ControlMessage
  BY DEF DrainPending
<1>10. WorkerExits => \E W : wait' = Woken(W)
  BY DEF WorkerExits
<1>11. ASSUME NEW c \in Calls, CallStep(c) PROVE UNCHANGED wait
  BY <1>11 DEF CallStep, CheckClosed, ReserveSlot, QueueFull, SendReserved
<1>12. Receive => UNCHANGED wait
  BY DEF Receive, ReceiveCapture, ReceiveHistorical, ReceiveControl, WakeTimeout, WakeDisconnected
<1>13. Drain => UNCHANGED wait
  BY DrainSteps
<1>14. Respond \/ DropHandle \/ TimeStep \/ DrainedPending \/ UNCHANGED vars => UNCHANGED wait
  BY DEF Respond, AttemptFails, AttemptSucceeds, Answered, DropHandle, TimeStep, BufferElapses,
         HistoricalElapses, DeadlineElapses, RetryElapses, DrainedPending, vars
<1>15. CASE Finish
  BY <1>7, <1>8, <1>9, <1>10, <1>14, <1>15 DEF Finish
<1>16. ASSUME NEW v \in Waiters, WaiterStep(v)
       PROVE  \/ wait'[w] = wait[w]
              \/ BeginFlush(w) /\ wait[w] = "idle" /\ wait'[w] \in {"noop", "sending"}
              \/ SendFlush(w) /\ wait[w] = "sending" /\ wait'[w] \in {"waiting", "returned"}
                   /\ (wait'[w] = "returned" => ~alive)
  <2>1. CASE BeginClose(v) \/ SendShutdown(v)
    BY <1>2, <2>1 DEF BeginClose, SendShutdown
  <2> QED BY <1>3, <1>4, <1>5, <1>16, <2>1 DEF WaiterStep
<1> QED BY <1>6, <1>11, <1>12, <1>13, <1>14, <1>15, <1>16 DEF Next, WorkerStep, Quiet

\* Who changes the completion the worker holds.
LEMMA CompletionSteps ==
  ASSUME TypeOK, [Next]_vars
  PROVE  (UNCHANGED completing) \/ ReceiveControl \/ SignalCompletion
<1>1. ASSUME NEW c \in Calls, CallStep(c) PROVE UNCHANGED completing
  BY <1>1 DEF CallStep, CheckClosed, ReserveSlot, QueueFull, SendReserved, workerVars
<1>2. ASSUME NEW w \in Waiters, WaiterStep(w) \/ GiveUp(w) PROVE UNCHANGED completing
  BY <1>2 DEF WaiterStep, GiveUp, BeginFlush, SendFlush, BeginClose, SendShutdown, TakeHandle,
         JoinWorker, workerVars
<1>3. Receive => (UNCHANGED completing) \/ ReceiveControl
  BY DEF Receive, ReceiveCapture, ReceiveHistorical, WakeTimeout, WakeDisconnected
<1>4. Drain => UNCHANGED completing
  BY DrainSteps
<1>5. Respond \/ DropHandle \/ TimeStep \/ UNCHANGED vars => UNCHANGED completing
  BY DEF Respond, AttemptFails, AttemptSucceeds, Answered, DropHandle, TimeStep, BufferElapses,
         HistoricalElapses, DeadlineElapses, RetryElapses, workerVars, vars
<1>6. Finish => (UNCHANGED completing) \/ SignalCompletion
  BY DEF Finish, DrainPending, DrainedPending, WorkerExits, workerVars
<1> QED BY <1>1, <1>2, <1>3, <1>4, <1>5, <1>6 DEF Next, WorkerStep, Quiet

\* Every step keeps messages with the flushes that wait.
LEMMA OnceStep ==
  ASSUME TypeOK, Once, [Next]_vars
  PROVE  Once'
<1> SUFFICES ASSUME NEW w \in Flushes
             PROVE  /\ wait'[w] # "joining" /\ joining' # w
                    /\ wait'[w] \in {"idle", "sending"} =>
                         /\ completing' # w
                         /\ \A i \in DOMAIN channel' :
                              channel'[i] \in ControlMessage => channel'[i].waiter # w
  BY DEF Once
<1>0. channel \in Seq(Control) /\ w \in Waiters /\ w \notin Closers /\ w # NoOne
  BY TransportAssumption DEF Flushes, Waiters, TypeOK
<1>1. wait'[w] # "joining"
  BY FlushSteps DEF Once
<1>2. joining' # w
  <2>1. ASSUME NEW v \in Waiters, TakeHandle(v) \/ JoinWorker(v) PROVE joining' # w
    <3>1. v # w
      BY <2>1 DEF Once, TakeHandle, JoinWorker
    <3> QED BY <1>0, <2>1, <3>1 DEF TakeHandle, JoinWorker, Once
  <2>2. ASSUME NEW v \in Waiters, WaiterStep(v) \/ GiveUp(v), ~(TakeHandle(v) \/ JoinWorker(v))
        PROVE  UNCHANGED joining
    BY <2>2 DEF WaiterStep, GiveUp, BeginFlush, SendFlush, BeginClose, SendShutdown, handleVars
  <2>3. ASSUME NEW c \in Calls, CallStep(c) PROVE UNCHANGED joining
    BY <2>3 DEF CallStep, CheckClosed, ReserveSlot, QueueFull, SendReserved, handleVars
  <2>4. Receive => UNCHANGED joining
    BY DEF Receive, ReceiveCapture, ReceiveHistorical, ReceiveControl, WakeTimeout,
           WakeDisconnected, handleVars
  <2>5. Drain => UNCHANGED joining
    BY DrainSteps DEF handleVars
  <2>6. Respond \/ DropHandle \/ TimeStep \/ Finish \/ UNCHANGED vars => UNCHANGED joining
    BY DEF Respond, AttemptFails, AttemptSucceeds, Answered, DropHandle, TimeStep, BufferElapses,
           HistoricalElapses, DeadlineElapses, RetryElapses, Finish, SignalCompletion,
           DrainPending, DrainedPending, WorkerExits, handleVars, vars
  <2>7. joining' # w \/ UNCHANGED joining
    BY <2>1, <2>2, <2>3, <2>4, <2>5, <2>6 DEF Next, WorkerStep, Quiet
  <2> QED BY <2>7 DEF Once
<1>3. ASSUME wait'[w] \in {"idle", "sending"} PROVE wait[w] \in {"idle", "sending"}
  BY <1>3, FlushSteps
<1>4. ASSUME wait'[w] \in {"idle", "sending"}
      PROVE  \A i \in DOMAIN channel' : channel'[i] \in ControlMessage => channel'[i].waiter # w
  <2>1. \A i \in DOMAIN channel : channel[i] \in ControlMessage => channel[i].waiter # w
    BY <1>3, <1>4 DEF Once
  <2>2. CASE channel' = channel
    BY <2>1, <2>2
  <2>3. CASE channel # <<>> /\ channel' = Tail(channel)
    BY <1>0, <2>1, <2>3, FirstMessage
  <2>4. ASSUME NEW m \in Control, channel' = Append(channel, m), m \in ControlMessage => m.waiter # w
        PROVE  \A i \in DOMAIN channel' : channel'[i] \in ControlMessage => channel'[i].waiter # w
    <3>1. \A i \in DOMAIN channel' :
            (i \in DOMAIN channel /\ channel'[i] = channel[i]) \/ channel'[i] = m
      BY <1>0, <2>4, LastMessage
    <3> QED BY <2>1, <2>4, <3>1
  <2>5. ASSUME NEW m \in CaptureMessage, channel' = Append(channel, m)
        PROVE  \A i \in DOMAIN channel' : channel'[i] \in ControlMessage => channel'[i].waiter # w
    <3>1. m \in Control /\ m \notin ControlMessage
      BY ControlCarriesNothing DEF Control
    <3> QED BY <2>4, <2>5, <3>1
  <2>6. ASSUME NEW v \in Waiters, NEW kind \in {"Flush", "FlushCaptures", "Shutdown"},
               SendFlush(v) \/ SendShutdown(v),
               channel' = Append(channel, [kind |-> kind, waiter |-> v])
        PROVE  \A i \in DOMAIN channel' : channel'[i] \in ControlMessage => channel'[i].waiter # w
    <3>1. v # w
      <4>1. wait \in [Waiters -> {"idle", "sending", "waiting", "joining", "returned", "noop", "gave_up"}]
        BY DEF TypeOK, WaitTyped
      <4>2. SendFlush(w) => wait'[w] \in {"waiting", "returned"}
        BY <1>0, <4>1 DEF SendFlush, Goto
      <4> QED BY <1>0, <1>4, <2>6, <4>2 DEF SendShutdown
    <3>2. [kind |-> kind, waiter |-> v] \in Control
      BY DEF ControlMessage, Control
    <3> QED BY <2>4, <2>6, <3>1, <3>2
  <2>7. CASE channel' = <<>>
    BY <2>7
  <2> QED BY <2>2, <2>3, <2>5, <2>6, <2>7, ChannelSteps
<1>5. ASSUME wait'[w] \in {"idle", "sending"} PROVE completing' # w
  <2>1. completing # w /\ \A i \in DOMAIN channel : channel[i] \in ControlMessage => channel[i].waiter # w
    BY <1>3, <1>5 DEF Once
  <2>2. CASE UNCHANGED completing
    BY <2>1, <2>2
  <2>3. CASE ReceiveControl
    <3>1. channel # <<>> /\ Head(channel) \in ControlMessage /\ completing' = Head(channel).waiter
      BY <2>3 DEF ReceiveControl
    <3> QED BY <1>0, <2>1, <3>1, FirstMessage
  <2>4. SignalCompletion => completing' # w
    BY <1>0 DEF SignalCompletion
  <2>5. (UNCHANGED completing) \/ ReceiveControl \/ SignalCompletion
    BY CompletionSteps
  <2> QED BY <2>2, <2>3, <2>4, <2>5
<1> QED BY <1>1, <1>2, <1>4, <1>5

\* A flush that begins is the only one to owe anything new.
LEMMA FlushOwes ==
  ASSUME TypeOK, Once, [Next]_vars, NEW w \in Flushes
  PROVE  \/ owed'[w] \subseteq owed[w]
         \/ /\ UNCHANGED <<channel, completing>> /\ completing # w
            /\ \A i \in DOMAIN channel : channel[i] \in ControlMessage => channel[i].waiter # w
            /\ wait[w] = "idle" /\ wait'[w] # "returned"
<1>0. w \in Waiters
  BY DEF Flushes, Waiters
<1>1. CASE BeginFlush(w)
  <2>1. wait[w] = "idle" /\ UNCHANGED <<channel, completing>>
    BY <1>1 DEF BeginFlush, workerVars
  <2>2. wait'[w] # "returned"
    BY <1>0, <1>1 DEF BeginFlush, Goto, TypeOK, WaitTyped
  <2> QED BY <2>1, <2>2 DEF Once
<1> QED BY <1>0, <1>1, OwedShrinks

\* An event a flush still waits for comes to no store but by way of the channel.
LEMMA OwedFlow ==
  ASSUME TypeOK, Placement, Owing, [Next]_vars, NEW w \in Waiters, owed'[w] \subseteq owed[w],
         NEW e \in owed'[w]
  PROVE  /\ status'[e] = "queued" => status[e] = "queued"
         /\ todo # <<>> =>
              /\ status'[e] = "buffered" => status[e] = "buffered"
              /\ status'[e] = "historical" => status[e] = "historical"
              /\ status'[e] = "retrying" /\ Head(todo) # "due_sweep" => status[e] = "retrying"
<1>1. status[e] \in Accepted /\ e \in Events /\ ~Discharged(e)
  BY DEF Owing, Discharged, TypeOK, LedgerTyped
<1>2. Flow(e)
  BY <1>1, EventsFlow
<1> QED BY <1>1, <1>2, AcceptedStatuses DEF Flow

\* A queued event is in a message of the channel.
LEMMA QueuedLoads ==
  ASSUME channel \in Seq(Control), ChannelPlaced
  PROVE  \A e \in With("queued") : \E j \in 1..Len(channel) : e \in Load(channel[j])
<1>1. DOMAIN channel = 1..Len(channel)
  OBVIOUS
<1>2. With("queued") = UNION {Carried(channel)[j] : j \in DOMAIN Carried(channel)}
  BY DEF ChannelPlaced, All, Elements
<1>3. DOMAIN Carried(channel) = DOMAIN channel
      /\ \A j \in DOMAIN channel : Carried(channel)[j] = Load(channel[j])
  BY DEF Carried, Load
<1> QED BY <1>1, <1>2, <1>3

\* The channel is first in, first out.
LEMMA AheadStep ==
  ASSUME TypeOK, Placement, Placement', Owing, Once, Ahead, [Next]_vars
  PROVE  Ahead'
<1> SUFFICES ASSUME NEW i \in DOMAIN channel', channel'[i] \in ControlMessage,
                    channel'[i].waiter \in Flushes,
                    NEW e \in owed'[channel'[i].waiter], status'[e] = "queued"
             PROVE  \E j \in 1..(i - 1) : e \in Load(channel'[j])
  BY DEF Ahead
<1> DEFINE w == channel'[i].waiter
<1>0. channel \in Seq(Control) /\ w \in Waiters /\ ChannelPlaced
  BY DEF Flushes, Waiters, TypeOK, Placement
<1>1. CASE ~(owed'[w] \subseteq owed[w])
  <2>1. channel' = channel /\ \A k \in DOMAIN channel : channel[k] \in ControlMessage => channel[k].waiter # w
    BY <1>1, FlushOwes
  <2> QED BY <2>1
<1>2. CASE owed'[w] \subseteq owed[w]
  <2>0. e \in owed[w] /\ status[e] = "queued"
    BY <1>0, <1>2, OwedFlow
  <2>1. CASE channel' = channel
    BY <2>0, <2>1 DEF Ahead
  <2>2. CASE channel # <<>> /\ channel' = Tail(channel)
    <3>1. /\ i \in Nat \ {0} /\ i + 1 \in DOMAIN channel /\ channel'[i] = channel[i + 1]
          /\ DOMAIN Tail(channel) = 1..(Len(channel) - 1) /\ Head(channel) = channel[1]
          /\ Len(channel) \in Nat
      BY <1>0, <2>2, FirstMessage
    <3>2. PICK j \in 1..i : e \in Load(channel[j])
      <4>1. \E j \in 1..((i + 1) - 1) : e \in Load(channel[j])
        BY <2>0, <3>1 DEF Ahead
      <4> QED BY <3>1, <4>1
    <3>3. j # 1
      <4>1. e \in Events
        BY <1>0, <2>0 DEF TypeOK, LedgerTyped
      <4>2. e \in With("queued")'
        BY <4>1 DEF With
      <4>3. e \in All(Carried(Tail(channel)))
        BY <2>2, <4>2 DEF Placement, ChannelPlaced
      <4>4. Load(Head(channel)) \intersect All(Carried(Tail(channel))) = {}
        BY <1>0, <2>2, TakenMessage DEF ChannelPlaced
      <4> QED BY <3>1, <3>2, <4>3, <4>4
    <3>4. j - 1 \in 1..(i - 1) /\ j - 1 \in DOMAIN Tail(channel) /\ (j - 1) + 1 = j
      BY <2>2, <3>1, <3>3
    <3>5. channel'[j - 1] = channel[j]
      BY <1>0, <2>2, <3>4, FirstMessage
    <3> QED BY <3>2, <3>4, <3>5
  <2>3. ASSUME NEW m \in Control, channel' = Append(channel, m), i \in DOMAIN channel
        PROVE  \E j \in 1..(i - 1) : e \in Load(channel'[j])
    <3>1. /\ DOMAIN channel = 1..Len(channel) /\ Len(channel) \in Nat
          /\ \A k \in DOMAIN channel : channel'[k] = channel[k]
      BY <1>0, <2>3, LastMessage
    <3>2. PICK j \in 1..(i - 1) : e \in Load(channel[j])
      BY <2>0, <2>3, <3>1 DEF Ahead
    <3> QED BY <2>3, <3>1, <3>2
  <2>4. ASSUME NEW m \in CaptureMessage, channel' = Append(channel, m)
        PROVE  \E j \in 1..(i - 1) : e \in Load(channel'[j])
    <3>1. m \in Control /\ m \notin ControlMessage
      BY ControlCarriesNothing DEF Control
    <3>2. i \in DOMAIN channel
      BY <1>0, <2>4, <3>1, LastMessage
    <3> QED BY <2>3, <2>4, <3>1, <3>2
  <2>5. ASSUME NEW v \in Waiters, NEW kind \in {"Flush", "FlushCaptures", "Shutdown"},
               SendFlush(v) \/ SendShutdown(v),
               channel' = Append(channel, [kind |-> kind, waiter |-> v])
        PROVE  \E j \in 1..(i - 1) : e \in Load(channel'[j])
    <3> DEFINE m == [kind |-> kind, waiter |-> v]
    <3>1. m \in Control
      BY DEF ControlMessage, Control
    <3>2. CASE i \in DOMAIN channel
      BY <2>3, <2>5, <3>1, <3>2
    <3>3. CASE i \notin DOMAIN channel
      <4>1. /\ i = Len(channel) + 1 /\ Len(channel) \in Nat /\ DOMAIN channel = 1..Len(channel)
            /\ \A k \in DOMAIN channel : channel'[k] = channel[k]
        BY <1>0, <2>5, <3>1, <3>3, LastMessage
      <4>2. e \in With("queued")
        BY <1>0, <2>0 DEF With, TypeOK, LedgerTyped
      <4>3. PICK j \in 1..Len(channel) : e \in Load(channel[j])
        BY <1>0, <4>2, QueuedLoads
      <4> QED BY <4>1, <4>3
    <3> QED BY <3>2, <3>3
  <2>6. CASE channel' = <<>>
    BY <2>6
  <2> QED BY <2>1, <2>2, <2>4, <2>5, <2>6, ChannelSteps
<1> QED BY <1>1, <1>2

\* When the message of a flush is received, the events ahead of it are in the stores.
LEMMA ServingStep ==
  ASSUME TypeOK, TypeOK', Placement, Placement', Completing, Owing, Once, Ahead, Serving,
         [Next]_vars
  PROVE  Serving'
<1> SUFFICES ASSUME alive', completing' \in Flushes
             PROVE  /\ \A e \in owed'[completing'] : status'[e] # "queued"
                    /\ Covered(owed[completing], "signal")'
  BY DEF Serving
<1>0. NoOne \notin Flushes /\ Flushes \subseteq Waiters /\ channel \in Seq(Control)
  BY TransportAssumption DEF Flushes, Waiters, TypeOK
<1>1. CASE Receive
  <2>1. alive /\ completing = NoOne
    <3>1. ~Awaited(<<>>)
      BY DEF Awaited, Elements
    <3> QED BY <1>1, <3>1, WakeTurns DEF Completing
  <2>2. ReceiveControl
    BY <1>0, <1>1, <2>1, CompletionSteps DEF SignalCompletion, Doing, Receive, Receiving, ReceiveCapture, ReceiveHistorical, WakeTimeout, WakeDisconnected
  <2>3. /\ channel # <<>> /\ Head(channel) \in ControlMessage /\ completing' = Head(channel).waiter
        /\ todo' \in {FlushWork \o Service, FlushCapturesWork \o Service, ShutdownWork}
    BY <1>1, <2>2, WakeTurns
  <2>4. UNCHANGED <<status, owed>>
    BY <2>2 DEF ReceiveControl, ledgerVars
  <2>5. \A e \in owed[completing'] : status[e] # "queued"
    <3>1. 1 \in DOMAIN channel /\ Head(channel) = channel[1]
      BY <1>0, <2>3, FirstMessage
    <3>2. \A e \in owed[completing'] : status[e] = "queued" => \E j \in 1..(1 - 1) : e \in Load(channel[j])
      BY <2>3, <3>1 DEF Ahead
    <3> QED BY <3>2
  <2>6. \A B, H, R : Due(todo', B, H, R, "signal")
    BY <2>3, TurnsCover
  <2>7. Covered(owed[completing], "signal")'
    BY <2>6 DEF Covered
  <2> QED BY <2>4, <2>5, <2>7
<1>2. CASE ~Receive
  <2>1. alive /\ ((UNCHANGED completing) \/ SignalCompletion)
    BY <1>2, WorkSteps
  <2>2. UNCHANGED completing
    BY <1>0, <2>1 DEF SignalCompletion
  <2> DEFINE w == completing
  <2>3. w \in Flushes /\ w \in Waiters /\ w # NoOne
    BY <1>0, <2>2
  <2>4. todo # <<>> /\ Head(todo) # "due_sweep"
    <3>1. Awaited(todo)
      BY <2>1, <2>3 DEF Completing
    <3>2. todo # <<>>
      BY <3>1 DEF Awaited, Elements
    <3> QED BY <3>1, <3>2, WorkAdvances DEF Awaited
  <2>5. owed'[w] \subseteq owed[w]
    BY <2>3, FlushOwes
  <2>6. \A e \in owed'[w] :
          /\ status'[e] = "queued" => status[e] = "queued"
          /\ status'[e] = "buffered" => status[e] = "buffered"
          /\ status'[e] = "historical" => status[e] = "historical"
          /\ status'[e] = "retrying" => status[e] = "retrying"
    BY <2>3, <2>4, <2>5, OwedFlow
  <2>7. (\A e \in owed[w] : status[e] # "queued") /\ Covered(owed[w], "signal")
    BY <2>1, <2>3 DEF Serving
  <2>8. /\ owed'[w] \intersect With("buffered")' \subseteq owed[w] \intersect With("buffered")
        /\ owed'[w] \intersect With("historical")' \subseteq owed[w] \intersect With("historical")
        /\ owed'[w] \intersect With("retrying")' \subseteq owed[w] \intersect With("retrying")
    BY <2>5, <2>6 DEF With
  <2>9. "signal" \in Marks
    BY DEF Marks
  <2>10. Due(todo, owed[w] \intersect With("buffered"), owed[w] \intersect With("historical"),
             owed[w] \intersect With("retrying"), "signal")
    BY <2>7 DEF Covered
  <2>11. Due(todo', owed'[w] \intersect With("buffered")', owed'[w] \intersect With("historical")',
             owed'[w] \intersect With("retrying")', "signal")
    BY <2>4, <2>8, <2>9, <2>10, DueStep
  <2>12. Covered(owed[completing], "signal")'
    BY <2>2, <2>11 DEF Covered
  <2> QED BY <2>2, <2>5, <2>6, <2>7, <2>12
<1> QED BY <1>1, <1>2

\* Each way a flush can return finds nothing left to wait for.
LEMMA AttemptedStep ==
  ASSUME TypeOK, Placement, Leaving, Departed, Departed', Owing, Owing', Once, Ahead, Serving,
         FlushAttempted, [Next]_vars
  PROVE  FlushAttempted'
<1> SUFFICES ASSUME NEW w \in Flushes, wait'[w] = "returned", NEW e \in owed'[w] PROVE FALSE
  BY DEF FlushAttempted, Flushes
<1>0. w \in Waiters /\ channel \in Seq(Control)
  BY DEF Flushes, Waiters, TypeOK
<1>1. owed'[w] \subseteq owed[w]
  BY FlushOwes
<1>2. e \in owed[w] /\ e \in Events /\ status[e] \in Accepted
  BY <1>0, <1>1 DEF Owing, TypeOK, LedgerTyped
<1>3. CASE wait[w] = "returned"
  BY <1>2, <1>3 DEF FlushAttempted, Flushes
<1>4. CASE ~alive
  BY <1>2, <1>4 DEF Departed
<1>5. CASE SignalCompletion /\ completing = w
  <2>1. Doing("signal") /\ alive
    BY <1>5 DEF SignalCompletion, Doing
  <2>2. Covered(owed[w], "signal") /\ status[e] # "queued"
    BY <1>2, <1>5, <2>1 DEF Serving
  <2>3. "signal" \in Marks
    BY DEF Marks
  <2> QED BY <1>2, <2>1, <2>2, <2>3, Emptied
<1>6. CASE DrainPending /\ Head(channel) \in ControlMessage /\ Head(channel).waiter = w
  <2>1. Doing("drain_pending") /\ alive /\ channel # <<>> /\ todo # <<>> /\ Head(todo) = "drain_pending"
    BY <1>6 DEF DrainPending, Doing
  <2>2. "drain_pending" \in Elements(todo)
    BY <2>1, WorkAdvances
  <2>3. Covered(Events, "drain_pending") /\ "drain_pending" \in Marks
    BY <2>1, <2>2 DEF Leaving, Marks
  <2>4. status[e] = "queued"
    BY <1>2, <2>1, <2>3, Emptied
  <2>5. 1 \in DOMAIN channel /\ Head(channel) = channel[1]
    BY <1>0, <2>1, FirstMessage
  <2>6. \E j \in 1..(1 - 1) : e \in Load(channel[j])
    BY <1>2, <1>6, <2>4, <2>5 DEF Ahead
  <2> QED BY <2>6
<1>7. CASE WorkerExits
  <2>1. ~alive'
    BY <1>7 DEF WorkerExits
  <2> QED BY <1>0, <1>2, <2>1 DEF Departed, Owing
<1> QED BY <1>3, <1>4, <1>5, <1>6, <1>7, FlushSteps

\* What the events a flush waits for have ahead of them.
Flushing == Leaving /\ Departed /\ Owing /\ Once /\ Ahead /\ Serving /\ FlushAttempted

\* A flush that returns has had everything accepted before it attempted or settled, on each
\* way it can return: its signal, the last drain of the channel by a worker that leaves, the
\* channel destroyed by one that exits, or a worker gone before the message could be sent.
THEOREM FlushesAttemptAll == Spec => []FlushAttempted
<1>1. Init => Flushing
  <2> SUFFICES ASSUME Init PROVE Flushing
    OBVIOUS
  <2>0. NoOne \notin Flushes /\ Flushes \subseteq Waiters
    BY TransportAssumption DEF Flushes, Waiters
  <2>1. /\ deadline = "off" /\ todo = <<>> /\ channel = <<>> /\ completing = NoOne /\ joining = NoOne
        /\ \A e \in Events : status[e] = "new"
        /\ \A w \in Waiters : owed[w] = {} /\ wait[w] = "idle"
    BY DEF Init
  <2>2. Elements(todo) = {} /\ DOMAIN channel = {}
    BY <2>1 DEF Elements
  <2>3. "new" \notin Accepted
    BY DEF Accepted, Held
  <2>4. Leaving /\ Departed /\ Owing
    BY <2>1, <2>2, <2>3 DEF Leaving, Departed, Owing
  <2>5. Once /\ Ahead /\ Serving /\ FlushAttempted
    BY <2>0, <2>1, <2>2 DEF Once, Ahead, Serving, FlushAttempted, Flushes
  <2> QED BY <2>4, <2>5 DEF Flushing
<1>2. Sorted /\ Sorted' /\ InTurn /\ Flushing /\ [Next]_vars => Flushing'
  <2> SUFFICES ASSUME Sorted, Sorted', InTurn, Flushing, [Next]_vars PROVE Flushing'
    OBVIOUS
  <2>1. TypeOK /\ TypeOK' /\ Placement /\ Placement' /\ Completing
    BY DEF Sorted, InTurn
  <2>2. Leaving /\ Departed /\ Owing /\ Once /\ Ahead /\ Serving /\ FlushAttempted
    BY DEF Flushing
  <2>3. Leaving' /\ Departed' /\ Owing'
    BY <2>1, <2>2, LeavingStep, DepartedStep, OwingStep
  <2>4. Once' /\ Ahead' /\ Serving'
    BY <2>1, <2>2, OnceStep, AheadStep, ServingStep
  <2>5. FlushAttempted'
    BY <2>1, <2>2, <2>3, AttemptedStep
  <2> QED BY <2>3, <2>4, <2>5 DEF Flushing
<1>3. Flushing => FlushAttempted
  BY DEF Flushing
<1> QED BY <1>1, <1>2, <1>3, EventsSorted, TurnsKept, PTL DEF Spec
-----------------------------------------------------------------------------
(* The promise of EventLedger by itself, whatever keeps it: for any set of events, any      *)
(* capacity, and a ledger of any fates and count.                                          *)
CONSTANTS AnyEvents, AnyCapacity
VARIABLES fate, count, stopped
Promise == INSTANCE EventLedger WITH Events <- AnyEvents, Capacity <- AnyCapacity

\* The instance counts as this module does.
LEMMA CountsAlike ==
  (\A S : Promise!Cardinality(S) = Cardinality(S)) /\ (\A S : Promise!IsFiniteSet(S) <=> IsFiniteSet(S))
<1>1. \A S : Promise!IsFiniteSet(S) <=> IsFiniteSet(S)
  BY DEF IsFiniteSet, Promise!IsFiniteSet
<1>2. \A S : Promise!Cardinality(S) = Cardinality(S)
  BY DEF Cardinality, Promise!Cardinality
<1> QED BY <1>1, <1>2

LEMMA AnyEventsFinite ==
  ASSUME Promise!LedgerAssumption
  PROVE  \A S \in SUBSET AnyEvents : IsFiniteSet(S) /\ Cardinality(S) \in Nat
<1>1. IsFiniteSet(AnyEvents)
  BY CountsAlike DEF Promise!LedgerAssumption
<1> QED BY <1>1, FS_Subset, FS_CardinalityType

\* A part of a finite set and the rest of it.
LEMMA PartsOfAnyEvents ==
  ASSUME Promise!LedgerAssumption, NEW S \in SUBSET AnyEvents, NEW T \in SUBSET S
  PROVE  Cardinality(S \ T) = Cardinality(S) - Cardinality(T)
<1>1. IsFiniteSet(S) /\ IsFiniteSet(T) /\ IsFiniteSet(S \ T)
  BY AnyEventsFinite
<1>2. T \intersect (S \ T) = {} /\ T \union (S \ T) = S
  OBVIOUS
<1>3. Cardinality(S) = Cardinality(T) + Cardinality(S \ T) - Cardinality(T \intersect (S \ T))
  BY <1>1, <1>2, FS_Union
<1>4. Cardinality(T \intersect (S \ T)) = 0
  BY <1>2, FS_EmptySet
<1> QED BY <1>1, <1>3, <1>4, FS_CardinalityType

LEMMA AnyStepType ==
  ASSUME Promise!TypeOK, [Promise!Next]_(Promise!vars)
  PROVE  fate' \in [AnyEvents -> Promise!Fate]
  BY DEF Promise!TypeOK, Promise!Next, Promise!Refuse, Promise!Admit, Promise!Settle,
         Promise!Withdraw, Promise!Stop, Promise!Become, Promise!vars

\* The events that leave the pending ones for a fate without a slot.
LEMMA AnyLeaving ==
  ASSUME Promise!LedgerAssumption, Promise!TypeOK, Promise!CountExact,
         NEW to, "pending" \notin to, "lost" \notin to, Promise!Become("pending", to)
  PROVE  Cardinality(Promise!Taken') = Cardinality(Promise!Taken) - Cardinality(Promise!Changed)
<1>1. Promise!Changed \in SUBSET Promise!Taken /\ Promise!Taken \in SUBSET AnyEvents
  BY DEF Promise!Changed, Promise!Taken, Promise!Become
<1>2. Promise!Taken' = Promise!Taken \ Promise!Changed
  BY DEF Promise!Changed, Promise!Taken, Promise!Become
<1> QED BY <1>1, <1>2, PartsOfAnyEvents

LEMMA AnyStepExact ==
  ASSUME Promise!LedgerAssumption, Promise!TypeOK, Promise!CountExact, [Promise!Next]_(Promise!vars)
  PROVE  Promise!TypeOK' /\ Promise!CountExact'
<1>0. /\ Promise!Taken \in SUBSET AnyEvents /\ Promise!Taken' \in SUBSET AnyEvents
      /\ Promise!Changed \in SUBSET AnyEvents
      /\ count \in Nat /\ AnyCapacity \in Nat
  BY DEF Promise!LedgerAssumption, Promise!Taken, Promise!Changed, Promise!TypeOK
<1>1. /\ Cardinality(Promise!Taken) \in Nat /\ Cardinality(Promise!Changed) \in Nat
      /\ Cardinality(Promise!Taken') \in Nat
  BY <1>0, AnyEventsFinite
<1>2. fate' \in [AnyEvents -> Promise!Fate]
  BY AnyStepType
<1>3. CASE Promise!Refuse
  <2>1. Promise!Taken' = Promise!Taken
    BY <1>3 DEF Promise!Refuse, Promise!Become, Promise!Changed, Promise!Taken, Promise!TypeOK
  <2> QED BY <1>2, <1>3, <2>1 DEF Promise!Refuse, Promise!TypeOK, Promise!CountExact
<1>4. CASE Promise!Admit
  <2>1. Promise!Changed \intersect Promise!Taken = {} /\ Promise!Taken' = Promise!Taken \union Promise!Changed
    BY <1>4 DEF Promise!Admit, Promise!Become, Promise!Changed, Promise!Taken, Promise!TypeOK
  <2>2. Cardinality(Promise!Taken') = Cardinality(Promise!Taken) + 1
    <3>1. Promise!Taken \in SUBSET Promise!Taken' /\ Promise!Changed = Promise!Taken' \ Promise!Taken
      BY <2>1
    <3>2. Cardinality(Promise!Changed) = Cardinality(Promise!Taken') - Cardinality(Promise!Taken)
      BY <1>0, <3>1, PartsOfAnyEvents
    <3>3. Cardinality(Promise!Changed) = 1
      BY <1>4, CountsAlike DEF Promise!Admit
    <3> QED BY <1>1, <3>2, <3>3
  <2>3. count = Cardinality(Promise!Taken) /\ count < AnyCapacity /\ count' = count + 1 /\ stopped' = stopped
    BY <1>4, CountsAlike DEF Promise!Admit, Promise!CountExact
  <2>4. count' = Cardinality(Promise!Taken') /\ count' <= AnyCapacity /\ count' \in Nat
    BY <1>0, <1>1, <2>2, <2>3
  <2> QED BY <1>2, <2>3, <2>4, CountsAlike DEF Promise!TypeOK, Promise!CountExact
<1>5. CASE Promise!Settle \/ Promise!Withdraw
  <2>1. Cardinality(Promise!Taken') = Cardinality(Promise!Taken) - Cardinality(Promise!Changed)
    BY <1>5, AnyLeaving DEF Promise!Settle, Promise!Withdraw, Promise!Outcome
  <2>2. count' = count - Cardinality(Promise!Changed) /\ UNCHANGED stopped
    BY <1>5, CountsAlike DEF Promise!Settle, Promise!Withdraw
  <2>3. count = Cardinality(Promise!Taken) /\ count <= AnyCapacity
    BY CountsAlike DEF Promise!CountExact
  <2>4. count' = Cardinality(Promise!Taken') /\ count' <= AnyCapacity /\ count' \in Nat
    BY <1>0, <1>1, <2>1, <2>2, <2>3
  <2> QED BY <1>2, <2>2, <2>4, CountsAlike DEF Promise!TypeOK, Promise!CountExact
<1>6. CASE Promise!Stop
  <2>1. Promise!Taken' = Promise!Taken
    BY <1>6 DEF Promise!Stop, Promise!Become, Promise!Changed, Promise!Taken, Promise!TypeOK
  <2> QED BY <1>2, <1>6, <2>1 DEF Promise!Stop, Promise!TypeOK, Promise!CountExact
<1>7. CASE UNCHANGED Promise!vars
  <2>1. fate' = fate /\ count' = count /\ stopped' = stopped /\ Promise!Taken' = Promise!Taken
    BY <1>7 DEF Promise!vars, Promise!Taken
  <2> QED BY <1>2, <2>1 DEF Promise!TypeOK, Promise!CountExact
<1> QED BY <1>3, <1>4, <1>5, <1>6, <1>7 DEF Promise!Next

LEMMA AnyInitExact == Promise!LedgerAssumption /\ Promise!Init => Promise!TypeOK /\ Promise!CountExact
<1> SUFFICES ASSUME Promise!LedgerAssumption, Promise!Init PROVE Promise!TypeOK /\ Promise!CountExact
  OBVIOUS
<1>1. Promise!Taken = {}
  BY DEF Promise!Init, Promise!Taken
<1>2. Promise!Cardinality(Promise!Taken) = 0
  BY <1>1, CountsAlike, FS_EmptySet
<1>3. fate \in [AnyEvents -> Promise!Fate]
  BY DEF Promise!Init, Promise!Fate
<1>4. count = 0 /\ stopped \in BOOLEAN /\ AnyCapacity \in Nat
  BY DEF Promise!Init, Promise!LedgerAssumption
<1> QED BY <1>2, <1>3, <1>4 DEF Promise!TypeOK, Promise!CountExact

\* For any set of events and any capacity, pending_events() is the number of the events
\* that hold a slot and stays within max_queue_size: whatever implements the ledger, as the
\* transport does, inherits both.
THEOREM LedgerCountExact ==
  Promise!LedgerAssumption => (Promise!Spec => [](Promise!TypeOK /\ Promise!CountExact))
<1> SUFFICES ASSUME Promise!LedgerAssumption PROVE Promise!Spec => [](Promise!TypeOK /\ Promise!CountExact)
  OBVIOUS
<1>1. Promise!TypeOK /\ Promise!CountExact /\ [Promise!Next]_(Promise!vars)
        => Promise!TypeOK' /\ Promise!CountExact'
  BY AnyStepExact
<1>2. Promise!Init => Promise!TypeOK /\ Promise!CountExact
  BY AnyInitExact
<1> QED BY <1>1, <1>2, PTL DEF Promise!Spec
=============================================================================
