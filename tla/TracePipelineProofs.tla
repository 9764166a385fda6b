------------------------- MODULE TracePipelineProofs ------------------------
(***************************************************************************)
(* Proofs about TracePipeline, for any number of threads, any events and   *)
(* any capacity.  Each step of the pipeline is a step of the channel and a *)
(* step of the processor, or leaves them alone; so what was proved of the  *)
(* two holds of the pipeline, and what the two do together rests on it.    *)
(***************************************************************************)
EXTENDS TracePipeline, FiniteSetTheorems, SequenceTheorems, TLAPS

\* HookChannel and MessageProcessor once more, with their theorems.
ChannelP == INSTANCE HookChannelProofs WITH Events <- Occurrences

HandlerP ==
  INSTANCE MessageProcessorProofs WITH
    Events    <- {Shape[o] : o \in Occurrences},
    MaxEvents <- Cardinality(Occurrences),
    inHand    <- [i \in 1 .. Len(inHand) |-> Shape[inHand[i]]],
    received  <- Len(handled) + Len(inHand)

-----------------------------------------------------------------------------
(* The channel.                                                             *)

LEMMA ChannelInit == Init => ChannelP!Init
  BY DEF Init, Channel!Init, ChannelP!Init

\* Every step of the pipeline is a step of the channel, or none.
LEMMA ChannelStep == [Next]_vars => [ChannelP!Next]_ChannelP!chanVars
  <1> SUFFICES ASSUME [Next]_vars
               PROVE  ChannelP!Next \/ UNCHANGED ChannelP!chanVars
    OBVIOUS
  <1>1. ASSUME NEW t \in Threads, NEW o \in Occurrences, HookSends(t, o)
        PROVE  ChannelP!Next
    <2>1. ChannelP!SendAccepted(t, o) \/ ChannelP!SendFull(t, o) \/ ChannelP!SendClosed(t, o)
      BY <1>1 DEF HookSends, Channel!SendAccepted, Channel!SendFull, Channel!SendClosed,
           ChannelP!SendAccepted, ChannelP!SendFull, ChannelP!SendClosed,
           Channel!Offer, ChannelP!Offer, Channel!HasRoom, ChannelP!HasRoom
    <2> QED BY <2>1 DEF ChannelP!Next
  <1>2. ASSUME NEW t \in Threads, HookReports(t)
        PROVE  ChannelP!Next
    <2>1. ChannelP!LoadPrinted(t) \/ ChannelP!PrintFull(t) \/ ChannelP!StorePrinted(t)
      BY <1>2 DEF HookReports, Channel!Reporting, Channel!LoadPrinted, Channel!PrintFull,
           Channel!StorePrinted, ChannelP!LoadPrinted, ChannelP!PrintFull,
           ChannelP!StorePrinted
    <2> QED BY <2>1 DEF ChannelP!Next
  <1>3. CASE FirstUse
    BY <1>3 DEF FirstUse, Channel!SenderNew, ChannelP!SenderNew, ChannelP!Next
  <1>4. CASE WorkerStarts
    <2>1. ChannelP!Connected \/ ChannelP!InitFailed \/ ChannelP!DropReceiver
      BY <1>4 DEF WorkerStarts, Channel!Connected, Channel!InitFailed,
           Channel!DropReceiver, ChannelP!Connected, ChannelP!InitFailed,
           ChannelP!DropReceiver
    <2> QED BY <2>1 DEF ChannelP!Next
  <1>5. CASE WorkerReceives
    BY <1>5 DEF WorkerReceives, Channel!Receive, ChannelP!Receive, ChannelP!Next
  <1>6. CASE WorkerCalls
    BY <1>6 DEF WorkerCalls, channel, ChannelP!chanVars
  <1>7. CASE WorkerReturns
    BY <1>7 DEF WorkerReturns, Channel!HandlerReturned, ChannelP!HandlerReturned,
         ChannelP!Next
  <1>8. CASE ProcessExits
    BY <1>8 DEF ProcessExits, Channel!Exit, ChannelP!Exit, ChannelP!Next
  <1>9. CASE UNCHANGED vars
    BY <1>9 DEF vars, channel, ChannelP!chanVars
  <1> QED BY <1>1, <1>2, <1>3, <1>4, <1>5, <1>6, <1>7, <1>8, <1>9 DEF Next

\* The handler's steps do not disturb the channel: seen from the hooks, the
\* pipeline is a HookChannel.
THEOREM ChannelRefined == Spec => ChannelP!Spec
  BY ChannelInit, ChannelStep, PTL DEF Spec, ChannelP!Spec

LEMMA BufferSizeFact == BufferSize \in Nat \ {0}
  BY EventsAssumption

\* What was proved of the channel.
LEMMA ChannelHolds == Spec => [](ChannelP!TypeOK /\ ChannelP!AcceptedInOrder)
  <1>1. ChannelP!Spec => []ChannelP!TypeOK
    BY ChannelP!TypeCorrect, BufferSizeFact
  <1>2. ChannelP!Spec => []ChannelP!AcceptedInOrder
    BY ChannelP!Conserved, BufferSizeFact
  <1> QED BY <1>1, <1>2, ChannelRefined, PTL

-----------------------------------------------------------------------------
(* The processor.                                                           *)

\* The assumptions of MessageProcessor.
LEMMA HandlerAssumption ==
  /\ {Shape[o] : o \in Occurrences} \subseteq HandlerP!EventShape
  /\ NoTimeline \notin HandlerP!Timelines
  /\ Cardinality(Occurrences) \in Nat /\ MaxFailures \in Nat
  <1>1. Cardinality(Occurrences) \in Nat
    BY ShapeAssumption, FS_CardinalityType
  <1>2. NoTimeline \notin HandlerP!Timelines
    BY EventsAssumption DEF Handler!Timelines, HandlerP!Timelines
  <1>3. HandlerP!EventShape = Handler!EventShape
    BY DEF Handler!EventShape, HandlerP!EventShape, Handler!Timelines,
         HandlerP!Timelines, Handler!Gids, HandlerP!Gids, Handler!Program,
         HandlerP!Program, Handler!handle_rmw_event, HandlerP!handle_rmw_event,
         Handler!handle_message, HandlerP!handle_message,
         Handler!handle_service_event, HandlerP!handle_service_event
  <1> QED BY <1>1, <1>2, <1>3, EventsAssumption

LEMMA HandlerInit == Init => HandlerP!Init
  <1> SUFFICES ASSUME Init PROVE HandlerP!Init
    OBVIOUS
  <1>1. handled = <<>> /\ inHand = <<>> /\ Len(handled) = 0 /\ Len(inHand) = 0
    BY EmptySeq DEF Init, Channel!Init
  <1>2. [i \in 1 .. Len(inHand) |-> Shape[inHand[i]]] = <<>>
    BY <1>1
  <1> QED BY <1>1, <1>2 DEF Init, Handler!Init, HandlerP!Init

\* The steps that leave the handler alone.
LEMMA HandlerRests ==
  ASSUME UNCHANGED <<handler, handled, inHand>>
  PROVE  UNCHANGED HandlerP!mpVars
  BY DEF handler, HandlerP!mpVars, HandlerP!processor, HandlerP!backend, HandlerP!history

\* The calls of the handler do the same in both instances.
LEMMA HandlerCalls ==
  /\ Handler!Skip => HandlerP!Skip
  /\ Handler!OpenTimeline => HandlerP!OpenTimeline
  /\ Handler!DeclareKeys => HandlerP!DeclareKeys
  /\ Handler!SendNodeMetadata => HandlerP!SendNodeMetadata
  /\ Handler!SendPublisherMetadata => HandlerP!SendPublisherMetadata
  /\ Handler!SendServiceMetadata => HandlerP!SendServiceMetadata
  /\ Handler!RecordEvent => HandlerP!RecordEvent
  /\ Handler!CallFails => HandlerP!CallFails
  <1> USE DEF Handler!processor, Handler!backend, Handler!history,
        HandlerP!processor, HandlerP!backend, HandlerP!history
  <1>1. Handler!event = HandlerP!event /\ Handler!program = HandlerP!program
    BY DEF Handler!event, HandlerP!event, Handler!program, HandlerP!program,
         Handler!Program, HandlerP!Program, Handler!handle_rmw_event,
         HandlerP!handle_rmw_event, Handler!handle_message, HandlerP!handle_message,
         Handler!handle_service_event, HandlerP!handle_service_event
  <1>2. Handler!keys = HandlerP!keys /\ Handler!publisher = HandlerP!publisher
    BY <1>1 DEF Handler!keys, HandlerP!keys, Handler!publisher, HandlerP!publisher
  <1>3. \A call : Handler!At(call) <=> HandlerP!At(call)
    BY <1>1 DEF Handler!At, HandlerP!At
  <1>4. /\ Handler!Continue <=> HandlerP!Continue
        /\ Handler!Return <=> HandlerP!Return
    BY DEF Handler!Continue, HandlerP!Continue, Handler!Return, HandlerP!Return
  <1>5. /\ Handler!OpenSkipped <=> HandlerP!OpenSkipped
        /\ Handler!KeysSkipped <=> HandlerP!KeysSkipped
        /\ Handler!NodeSkipped <=> HandlerP!NodeSkipped
        /\ Handler!GidSkipped <=> HandlerP!GidSkipped
    BY <1>1, <1>2, <1>3 DEF Handler!OpenSkipped, HandlerP!OpenSkipped,
         Handler!KeysSkipped, HandlerP!KeysSkipped, Handler!NodeSkipped,
         HandlerP!NodeSkipped, Handler!GidSkipped, HandlerP!GidSkipped
  <1>6. Handler!Skip => HandlerP!Skip
    BY <1>4, <1>5 DEF Handler!Skip, HandlerP!Skip
  <1>7. Handler!OpenTimeline => HandlerP!OpenTimeline
    BY <1>1, <1>3, <1>4, <1>5 DEF Handler!OpenTimeline, HandlerP!OpenTimeline
  <1>8. Handler!DeclareKeys => HandlerP!DeclareKeys
    BY <1>2, <1>3, <1>4, <1>5 DEF Handler!DeclareKeys, HandlerP!DeclareKeys
  <1>9. Handler!SendNodeMetadata => HandlerP!SendNodeMetadata
    BY <1>1, <1>3, <1>4, <1>5 DEF Handler!SendNodeMetadata, HandlerP!SendNodeMetadata
  <1>10. Handler!SendPublisherMetadata => HandlerP!SendPublisherMetadata
    BY <1>2, <1>3, <1>4, <1>5
    DEF Handler!SendPublisherMetadata, HandlerP!SendPublisherMetadata
  <1>11. Handler!SendServiceMetadata => HandlerP!SendServiceMetadata
    BY <1>3, <1>4 DEF Handler!SendServiceMetadata, HandlerP!SendServiceMetadata
  <1>12. Handler!RecordEvent => HandlerP!RecordEvent
    BY <1>1, <1>3, <1>4 DEF Handler!RecordEvent, HandlerP!RecordEvent, Handler!Position,
         HandlerP!Position
  <1>13. Handler!CallFails => HandlerP!CallFails
    BY <1>1, <1>2, <1>3, <1>4, <1>5 DEF Handler!CallFails, HandlerP!CallFails
  <1> QED BY <1>6, <1>7, <1>8, <1>9, <1>10, <1>11, <1>12, <1>13

\* Every step of the pipeline is a step of the processor, or none.
LEMMA HandlerStep ==
  ChannelP!TypeOK /\ [Next]_vars => [HandlerP!Next]_HandlerP!mpVars
  <1> SUFFICES ASSUME ChannelP!TypeOK, [Next]_vars
               PROVE  HandlerP!Next \/ UNCHANGED HandlerP!mpVars
    OBVIOUS
  <1>1. ASSUME NEW t \in Threads, NEW o \in Occurrences, HookSends(t, o)
        PROVE  UNCHANGED HandlerP!mpVars
    BY <1>1, HandlerRests DEF HookSends, Channel!SendAccepted, Channel!SendFull,
         Channel!SendClosed
  <1>2. ASSUME NEW t \in Threads, HookReports(t)
        PROVE  UNCHANGED HandlerP!mpVars
    BY <1>2, HandlerRests DEF HookReports, Channel!Reporting, Channel!LoadPrinted,
         Channel!PrintFull, Channel!StorePrinted
  <1>3. CASE FirstUse \/ WorkerStarts \/ ProcessExits
    BY <1>3, HandlerRests DEF FirstUse, Channel!SenderNew, WorkerStarts,
         Channel!Connected, Channel!InitFailed, Channel!DropReceiver, ProcessExits,
         Channel!Exit
  <1>4. CASE WorkerReceives
    <2>1. PICK o \in Occurrences : Handler!Receive(Shape[o])
      BY <1>4 DEF WorkerReceives
    <2>2. PICK e \in {Shape[p] : p \in Occurrences} : e = Shape[o]
      OBVIOUS
    <2>3. Handler!Receive(e)
      BY <2>1, <2>2
    <2>4. HandlerP!Receive(e)
      BY <2>3 DEF Handler!Receive, HandlerP!Receive, Handler!processor,
           Handler!backend, HandlerP!processor, HandlerP!backend
    <2> QED BY <2>4 DEF HandlerP!Next
  <1>5. CASE WorkerCalls
    BY <1>5, HandlerCalls DEF WorkerCalls, HandlerP!Next
  <1>6. CASE WorkerReturns
    BY <1>6, HandlerCalls DEF WorkerReturns, HandlerP!Next
  <1>7. CASE UNCHANGED vars
    BY <1>7, HandlerRests DEF vars, channel
  <1> QED BY <1>1, <1>2, <1>3, <1>4, <1>5, <1>6, <1>7 DEF Next

\* Nor does the channel disturb the handlers: seen from the backend, the pipeline
\* is a MessageProcessor that receives what the channel delivers.
THEOREM HandlerRefined == Spec => HandlerP!Spec
  BY HandlerInit, HandlerStep, ChannelHolds, PTL DEF Spec, HandlerP!Spec

\* What was proved of the processor.
LEMMA HandlerHolds ==
  Spec => [](/\ HandlerP!TypeOK /\ HandlerP!OnlyFailuresLose
             /\ HandlerP!RecordedInOrder /\ HandlerP!NamedBeforeEvents)
  <1>1. HandlerP!Spec => []HandlerP!TypeOK
    BY HandlerP!TypeCorrect, HandlerAssumption
  <1>2. HandlerP!Spec => []HandlerP!OnlyFailuresLose
    BY HandlerP!OnlyFailures, HandlerAssumption
  <1>3. HandlerP!Spec => []HandlerP!RecordedInOrder
    BY HandlerP!InOrder, HandlerAssumption
  <1>4. HandlerP!Spec => []HandlerP!NamedBeforeEvents
    BY HandlerP!NamedFirst, HandlerAssumption
  <1> QED BY <1>1, <1>2, <1>3, <1>4, HandlerRefined, PTL

-----------------------------------------------------------------------------
(* What the two do together.                                                *)

\* What is known of each part on its own.
PartsHold ==
  /\ ChannelP!TypeOK /\ ChannelP!AcceptedInOrder
  /\ HandlerP!TypeOK /\ HandlerP!OnlyFailuresLose
  /\ HandlerP!RecordedInOrder /\ HandlerP!NamedBeforeEvents

\* An event is offered once, and accepted or lost.
Counted ==
  /\ lostFull \subseteq offered /\ lostClosed \subseteq offered
  /\ lostClosed # {} => worker = "terminated"
  /\ offered \subseteq lostFull \cup lostClosed \cup {accepted[i] : i \in 1 .. Len(accepted)}
  /\ Cardinality(offered) =
       Len(accepted) + Cardinality(lostFull) + Cardinality(lostClosed)

\* The creation of a node is accepted before any other event about it, or lost.
CreatedFirst ==
  \A i \in 1 .. Len(accepted) :
    \E c \in Occurrences :
      /\ Creation(c) /\ Shape[c].timeline = Shape[accepted[i]].timeline
      /\ c \in lostFull \/ \E k \in 1 .. i : accepted[k] = c

\* What is recorded is an accepted event; all of them, as long as no call failed.
RecordsAccepted ==
  \A i \in 1 .. Len(record) :
    /\ record[i].receipt \in 1 .. Len(accepted)
    /\ record[i].event = Shape[accepted[record[i].receipt]]
    /\ failures = 0 => record[i].receipt = i

FailureCounted == unnamed # {} => failures > 0

PInv == Counted /\ CreatedFirst /\ RecordsAccepted /\ FailureCounted

LEMMA PartsFacts ==
  ASSUME PartsHold
  PROVE  /\ accepted \in Seq(Occurrences) /\ Len(accepted) \in Nat
         /\ Len(record) \in Nat /\ failures \in Nat
         /\ Len(handled) \in Nat /\ Len(inHand) \in Nat /\ Len(queue) \in Nat
         /\ Len(handled) = Len(record) + failures
         /\ worker # "terminated" =>
              Len(accepted) = Len(handled) + Len(inHand) + Len(queue)
         /\ worker = "handling" =>
              /\ Len(inHand) = 1
              /\ Len(handled) + 1 <= Len(accepted)
              /\ accepted[Len(handled) + 1] = inHand[1]
  <1>1. /\ accepted \in Seq(Occurrences) /\ handled \in Seq(Occurrences)
        /\ inHand \in Seq(Occurrences) /\ queue \in Seq(Occurrences)
        /\ Len(accepted) \in Nat /\ Len(handled) \in Nat
        /\ Len(inHand) \in Nat /\ Len(queue) \in Nat
        /\ worker = "handling" => Len(inHand) = 1
    BY LenProperties DEF PartsHold, ChannelP!TypeOK
  <1>2. Len(record) \in Nat /\ failures \in Nat
    <2>1. record \in Seq(HandlerP!Recorded) /\ failures \in 0 .. MaxFailures
      BY DEF PartsHold, HandlerP!TypeOK
    <2> QED BY <2>1, LenProperties, EventsAssumption
  <1>3. Len(handled) = Len(record) + failures
    <2>1. Len([i \in 1 .. Len(inHand) |-> Shape[inHand[i]]]) = Len(inHand)
      BY <1>1
    <2>2. Len(handled) + Len(inHand) = Len(record) + failures + Len(inHand)
      BY <2>1 DEF PartsHold, HandlerP!OnlyFailuresLose
    <2> QED BY <1>1, <1>2, <2>2
  <1>4. ASSUME worker # "terminated"
        PROVE  /\ Len(accepted) = Len(handled) + Len(inHand) + Len(queue)
               /\ worker = "handling" => accepted[Len(handled) + 1] = inHand[1]
    <2>1. accepted = (handled \o inHand) \o queue
      BY <1>4 DEF PartsHold, ChannelP!AcceptedInOrder
    <2>2. /\ handled \o inHand \in Seq(Occurrences)
          /\ Len(handled \o inHand) = Len(handled) + Len(inHand)
          /\ \A i \in 1 .. Len(handled) + Len(inHand) :
               (handled \o inHand)[i] =
                 IF i <= Len(handled) THEN handled[i] ELSE inHand[i - Len(handled)]
      BY <1>1, ConcatProperties
    <2>3. /\ Len(accepted) = Len(handled \o inHand) + Len(queue)
          /\ \A i \in 1 .. Len(handled \o inHand) + Len(queue) :
               accepted[i] = IF i <= Len(handled \o inHand) THEN (handled \o inHand)[i]
                             ELSE queue[i - Len(handled \o inHand)]
      BY <1>1, <2>1, <2>2, ConcatProperties
    <2>4. ASSUME worker = "handling"
          PROVE  accepted[Len(handled) + 1] = inHand[1]
      <3>1. Len(inHand) = 1
        BY <1>1, <2>4
      <3>2. PICK n : n = Len(handled) + 1
        OBVIOUS
      <3>3. /\ n \in 1 .. Len(handled) + Len(inHand)
            /\ n \in 1 .. Len(handled \o inHand) + Len(queue)
            /\ n <= Len(handled \o inHand)
            /\ ~(n <= Len(handled)) /\ n - Len(handled) = 1
        <4>1. PICK h \in Nat : h = Len(handled)
          BY <1>1
        <4>2. PICK q \in Nat : q = Len(queue)
          BY <1>1
        <4>3. /\ h + 1 \in 1 .. h + 1 /\ h + 1 \in 1 .. (h + 1) + q
              /\ h + 1 <= h + 1 /\ ~(h + 1 <= h) /\ (h + 1) - h = 1
          OBVIOUS
        <4>4. Len(handled \o inHand) = h + 1
          BY <2>2, <3>1, <4>1
        <4> QED BY <3>1, <3>2, <4>1, <4>2, <4>3, <4>4
      <3>4. accepted[n] = (handled \o inHand)[n]
        BY <2>3, <3>3
      <3>5. (handled \o inHand)[n] = inHand[n - Len(handled)]
        BY <2>2, <3>3
      <3> QED BY <3>2, <3>3, <3>4, <3>5
    <2> QED BY <2>2, <2>3, <2>4
  <1> QED BY <1>1, <1>2, <1>3, <1>4

-----------------------------------------------------------------------------
(* The steps, as far as PInv can tell them apart.                           *)

Accepts(o) ==
  /\ worker # "terminated" /\ o \notin offered
  /\ Creation(o) \/ NodeAnnounced(o)
  /\ offered' = offered \cup {o} /\ accepted' = Append(accepted, o)
  /\ UNCHANGED <<worker, lostFull, lostClosed, record, failures, unnamed>>

DropsFull(o) ==
  /\ o \notin offered
  /\ offered' = offered \cup {o} /\ lostFull' = lostFull \cup {o}
  /\ UNCHANGED <<worker, accepted, lostClosed, record, failures, unnamed>>

DropsClosed(o) ==
  /\ worker = "terminated" /\ o \notin offered
  /\ offered' = offered \cup {o} /\ lostClosed' = lostClosed \cup {o}
  /\ UNCHANGED <<worker, accepted, lostFull, record, failures, unnamed>>

Records ==
  /\ worker = "handling"
  /\ \E timeline, position :
       record' = Append(record, [receipt  |-> Len(handled) + Len(inHand),
                                 event    |-> Shape[inHand[1]],
                                 on       |-> timeline,
                                 ordering |-> position])
  /\ UNCHANGED <<offered, accepted, lostFull, lostClosed, failures, unnamed>>

Fails ==
  /\ worker = "handling" /\ failures' = failures + 1
  /\ UNCHANGED <<offered, accepted, lostFull, lostClosed, record>>

Quiet ==
  /\ worker = "terminated" => worker' = "terminated"
  /\ UNCHANGED <<offered, accepted, lostFull, lostClosed, record, failures, unnamed>>

LEMMA StepCases ==
  ASSUME PartsHold, [Next]_vars
  PROVE  \/ \E o \in Occurrences : Accepts(o) \/ DropsFull(o) \/ DropsClosed(o)
         \/ Records \/ Fails \/ Quiet
  <1> USE DEF handler, Handler!processor, Handler!backend, Handler!history
  <1>1. ASSUME NEW t \in Threads, NEW o \in Occurrences, HookSends(t, o)
        PROVE  Accepts(o) \/ DropsFull(o) \/ DropsClosed(o)
    BY <1>1 DEF HookSends, Channel!SendAccepted, Channel!SendFull, Channel!SendClosed,
         Channel!Offer, Accepts, DropsFull, DropsClosed
  <1>2. ASSUME NEW t \in Threads, HookReports(t)
        PROVE  Quiet
    BY <1>2 DEF HookReports, Channel!Reporting, Channel!LoadPrinted, Channel!PrintFull,
         Channel!StorePrinted, Quiet
  <1>3. CASE FirstUse \/ WorkerStarts \/ ProcessExits
    BY <1>3 DEF FirstUse, Channel!SenderNew, WorkerStarts, Channel!Connected,
         Channel!InitFailed, Channel!DropReceiver, ProcessExits, Channel!Exit, Quiet
  <1>4. CASE WorkerReceives
    BY <1>4 DEF WorkerReceives, Channel!Receive, Handler!Receive, Quiet
  <1>5. CASE WorkerCalls
    BY <1>5 DEF WorkerCalls, channel, Handler!Skip, Handler!OpenTimeline,
         Handler!DeclareKeys, Handler!SendNodeMetadata, Handler!SendPublisherMetadata,
         Handler!SendServiceMetadata, Quiet
  <1>6. CASE WorkerReturns
    <2>1. /\ worker = "handling"
          /\ UNCHANGED <<offered, accepted, lostFull, lostClosed>>
      BY <1>6 DEF WorkerReturns, Channel!HandlerReturned
    <2>2. CASE Handler!RecordEvent
      <3>1. Len(inHand) = 1
        BY <2>1, PartsFacts
      <3>2. Handler!event = Shape[inHand[1]]
        BY <3>1 DEF Handler!event
      <3> QED BY <2>1, <2>2, <3>2 DEF Handler!RecordEvent, Records
    <2>3. CASE Handler!CallFails
      BY <2>1, <2>3 DEF Handler!CallFails, Fails
    <2> QED BY <1>6, <2>2, <2>3 DEF WorkerReturns
  <1>7. CASE UNCHANGED vars
    BY <1>7 DEF vars, channel, Quiet
  <1> QED BY <1>1, <1>2, <1>3, <1>4, <1>5, <1>6, <1>7 DEF Next

-----------------------------------------------------------------------------
(* Each part of PInv is kept.                                               *)

LEMMA CountedStep ==
  ASSUME PartsHold, PartsHold', Counted, [Next]_vars
  PROVE  Counted'
  <1> DEFINE Acc == {accepted[i] : i \in 1 .. Len(accepted)}
  <1>1. /\ accepted \in Seq(Occurrences) /\ Len(accepted) \in Nat
        /\ offered \subseteq Occurrences
    BY PartsFacts DEF PartsHold, ChannelP!TypeOK
  <1>2. /\ IsFiniteSet(offered) /\ IsFiniteSet(lostFull) /\ IsFiniteSet(lostClosed)
    BY <1>1, ShapeAssumption, FS_Subset DEF Counted
  <1>3. /\ Cardinality(offered) \in Nat /\ Cardinality(lostFull) \in Nat
        /\ Cardinality(lostClosed) \in Nat
    BY <1>2, FS_CardinalityType
  <1>4. ASSUME NEW o \in Occurrences, o \notin offered
        PROVE  /\ Cardinality(offered \cup {o}) = Cardinality(offered) + 1
               /\ Cardinality(lostFull \cup {o}) = Cardinality(lostFull) + 1
               /\ Cardinality(lostClosed \cup {o}) = Cardinality(lostClosed) + 1
    <2>1. o \notin lostFull /\ o \notin lostClosed
      BY <1>4 DEF Counted
    <2> QED BY <1>2, <1>4, <2>1, FS_AddElement
  <1>5. ASSUME NEW o \in Occurrences, Accepts(o)
        PROVE  Counted'
    <2>1. /\ Len(accepted') = Len(accepted) + 1
          /\ \A i \in 1 .. Len(accepted) : accepted'[i] = accepted[i]
          /\ accepted'[Len(accepted) + 1] = o
      BY <1>1, <1>5, AppendProperties DEF Accepts
    <2>2. offered' \subseteq lostFull' \cup lostClosed' \cup
                               {accepted'[i] : i \in 1 .. Len(accepted')}
      BY <1>1, <1>5, <2>1 DEF Accepts, Counted
    <2>3. /\ Cardinality(offered') = Cardinality(offered) + 1
          /\ UNCHANGED <<worker, lostFull, lostClosed>>
      BY <1>4, <1>5 DEF Accepts
    <2>4. Cardinality(offered') =
            Len(accepted') + Cardinality(lostFull') + Cardinality(lostClosed')
      BY <1>1, <1>3, <2>1, <2>3 DEF Counted
    <2> QED BY <1>5, <2>2, <2>3, <2>4 DEF Accepts, Counted
  <1>6. ASSUME NEW o \in Occurrences, DropsFull(o)
        PROVE  Counted'
    <2>1. /\ Cardinality(offered') = Cardinality(offered) + 1
          /\ Cardinality(lostFull') = Cardinality(lostFull) + 1
          /\ UNCHANGED <<accepted, lostClosed>>
      BY <1>4, <1>6 DEF DropsFull
    <2>2. Cardinality(offered') =
            Len(accepted') + Cardinality(lostFull') + Cardinality(lostClosed')
      BY <1>1, <1>3, <2>1 DEF Counted
    <2> QED BY <1>6, <2>1, <2>2 DEF DropsFull, Counted
  <1>7. ASSUME NEW o \in Occurrences, DropsClosed(o)
        PROVE  Counted'
    <2>1. /\ Cardinality(offered') = Cardinality(offered) + 1
          /\ Cardinality(lostClosed') = Cardinality(lostClosed) + 1
          /\ UNCHANGED <<accepted, lostFull>>
      BY <1>4, <1>7 DEF DropsClosed
    <2>2. Cardinality(offered') =
            Len(accepted') + Cardinality(lostFull') + Cardinality(lostClosed')
      BY <1>1, <1>3, <2>1 DEF Counted
    <2> QED BY <1>7, <2>1, <2>2 DEF DropsClosed, Counted
  <1>8. CASE Quiet
    BY <1>8 DEF Quiet, Counted
  <1>9. CASE Records \/ Fails
    <2>1. lostClosed = {}
      BY <1>9 DEF Records, Fails, Counted
    <2> QED BY <1>9, <2>1 DEF Records, Fails, Counted
  <1> QED BY <1>5, <1>6, <1>7, <1>8, <1>9, StepCases

LEMMA CreatedFirstStep ==
  ASSUME PartsHold, Counted, CreatedFirst, [Next]_vars
  PROVE  CreatedFirst'
  <1>1. accepted \in Seq(Occurrences) /\ Len(accepted) \in Nat
    BY PartsFacts
  <1>2. ASSUME NEW o \in Occurrences, Accepts(o)
        PROVE  CreatedFirst'
    <2>1. /\ Len(accepted') = Len(accepted) + 1
          /\ \A i \in 1 .. Len(accepted) : accepted'[i] = accepted[i]
          /\ accepted'[Len(accepted) + 1] = o
      BY <1>1, <1>2, AppendProperties DEF Accepts
    <2>2. PICK c \in Occurrences :
            /\ Creation(c) /\ Shape[c].timeline = Shape[o].timeline
            /\ c = o \/ c \in offered
      <3>1. CASE Creation(o)
        BY <3>1
      <3>2. CASE NodeAnnounced(o)
        BY <3>2, EventsAssumption DEF NodeAnnounced
      <3> QED BY <1>2, <3>1, <3>2 DEF Accepts
    <2>3. \/ c \in lostFull
          \/ \E k \in 1 .. Len(accepted) + 1 : accepted'[k] = c
      <3>1. lostClosed = {}
        BY <1>2 DEF Accepts, Counted
      <3> QED BY <1>1, <2>1, <2>2, <3>1 DEF Counted
    <2>4. ASSUME NEW i \in 1 .. Len(accepted)
          PROVE  \E d \in Occurrences :
                   /\ Creation(d) /\ Shape[d].timeline = Shape[accepted'[i]].timeline
                   /\ d \in lostFull' \/ \E k \in 1 .. i : accepted'[k] = d
      <3>1. PICK d \in Occurrences :
              /\ Creation(d) /\ Shape[d].timeline = Shape[accepted[i]].timeline
              /\ d \in lostFull \/ \E k \in 1 .. i : accepted[k] = d
        BY DEF CreatedFirst
      <3>2. \A k \in 1 .. i : accepted'[k] = accepted[k]
        BY <1>1, <2>1
      <3> QED BY <1>2, <3>1, <3>2 DEF Accepts
    <2>5. ASSUME NEW i, i = Len(accepted) + 1
          PROVE  \E d \in Occurrences :
                   /\ Creation(d) /\ Shape[d].timeline = Shape[accepted'[i]].timeline
                   /\ d \in lostFull' \/ \E k \in 1 .. i : accepted'[k] = d
      BY <1>2, <2>1, <2>2, <2>3, <2>5 DEF Accepts
    <2>6. \A i \in 1 .. Len(accepted') : i \in 1 .. Len(accepted) \/ i = Len(accepted) + 1
      BY <1>1, <2>1
    <2> QED BY <2>4, <2>5, <2>6 DEF CreatedFirst, Creation
  <1>3. ASSUME UNCHANGED accepted, lostFull \subseteq lostFull'
        PROVE  CreatedFirst'
    BY <1>3 DEF CreatedFirst, Creation
  <1>4. ASSUME NEW o \in Occurrences, DropsFull(o) \/ DropsClosed(o)
        PROVE  CreatedFirst'
    BY <1>3, <1>4 DEF DropsFull, DropsClosed
  <1>5. CASE Records \/ Fails \/ Quiet
    BY <1>3, <1>5 DEF Records, Fails, Quiet
  <1> QED BY <1>2, <1>4, <1>5, StepCases

LEMMA RecordsAcceptedStep ==
  ASSUME PartsHold, RecordsAccepted, [Next]_vars
  PROVE  RecordsAccepted'
  <1>1. /\ accepted \in Seq(Occurrences) /\ Len(accepted) \in Nat
        /\ Len(record) \in Nat /\ failures \in Nat /\ Len(handled) \in Nat
        /\ Len(handled) = Len(record) + failures
        /\ record \in Seq(HandlerP!Recorded)
    BY PartsFacts DEF PartsHold, HandlerP!TypeOK
  <1>2. ASSUME NEW o \in Occurrences, Accepts(o)
        PROVE  RecordsAccepted'
    <2>1. /\ Len(accepted') = Len(accepted) + 1
          /\ \A i \in 1 .. Len(accepted) : accepted'[i] = accepted[i]
      BY <1>1, <1>2, AppendProperties DEF Accepts
    <2> QED BY <1>1, <1>2, <2>1 DEF Accepts, RecordsAccepted
  <1>3. CASE Records
    <2>1. PICK r : /\ record' = Append(record, r)
                   /\ r.receipt = Len(handled) + Len(inHand)
                   /\ r.event = Shape[inHand[1]]
      BY <1>3 DEF Records
    <2>2. /\ Len(inHand) = 1
          /\ Len(handled) + 1 <= Len(accepted)
          /\ accepted[Len(handled) + 1] = inHand[1]
      BY <1>3, PartsFacts DEF Records
    <2>3. /\ r.receipt \in 1 .. Len(accepted)
          /\ r.event = Shape[accepted[r.receipt]]
          /\ failures = 0 => r.receipt = Len(record) + 1
      BY <1>1, <2>1, <2>2
    <2>4. /\ Len(record') = Len(record) + 1
          /\ \A i \in 1 .. Len(record) : record'[i] = record[i]
          /\ record'[Len(record) + 1] = r
      BY <1>1, <2>1
    <2>5. \A i \in 1 .. Len(record') : i \in 1 .. Len(record) \/ i = Len(record) + 1
      BY <1>1, <2>4
    <2> QED BY <1>3, <2>3, <2>4, <2>5 DEF Records, RecordsAccepted
  <1>4. CASE Fails
    <2>1. failures' # 0
      BY <1>1, <1>4 DEF Fails
    <2> QED BY <1>4, <2>1 DEF Fails, RecordsAccepted
  <1>5. CASE Quiet
    BY <1>5 DEF Quiet, RecordsAccepted
  <1>6. ASSUME NEW o \in Occurrences, DropsFull(o) \/ DropsClosed(o)
        PROVE  RecordsAccepted'
    BY <1>6 DEF DropsFull, DropsClosed, RecordsAccepted
  <1> QED BY <1>2, <1>3, <1>4, <1>5, <1>6, StepCases

LEMMA FailureCountedStep ==
  ASSUME PartsHold, FailureCounted, [Next]_vars
  PROVE  FailureCounted'
  BY PartsFacts, StepCases
  DEF Accepts, DropsFull, DropsClosed, Records, Fails, Quiet, FailureCounted

LEMMA PInvInit == Init => PInv
  <1> SUFFICES ASSUME Init PROVE PInv
    OBVIOUS
  <1>1. /\ offered = {} /\ lostFull = {} /\ lostClosed = {} /\ accepted = <<>>
        /\ record = <<>> /\ unnamed = {}
    BY DEF Init, Channel!Init, Handler!Init
  <1>2. Len(accepted) = 0 /\ Len(record) = 0 /\ Cardinality({}) = 0
    BY <1>1, EmptySeq, FS_EmptySet
  <1> QED BY <1>1, <1>2 DEF PInv, Counted, CreatedFirst, RecordsAccepted, FailureCounted

\* What holds of the pipeline: of its parts, and of the two together.
THEOREM Invariance == Spec => [](PartsHold /\ PInv)
  <1>1. Spec => []PartsHold
    BY ChannelHolds, HandlerHolds, PTL DEF PartsHold
  <1>2. PartsHold /\ PartsHold' /\ PInv /\ [Next]_vars => PInv'
    BY CountedStep, CreatedFirstStep, RecordsAcceptedStep, FailureCountedStep DEF PInv
  <1> QED BY <1>1, <1>2, PInvInit, PTL DEF Spec

-----------------------------------------------------------------------------
(* The theorems.                                                            *)

\* Every variable of the pipeline stays in its type, those of both parts.
THEOREM TypeCorrect == Spec => []TypeOK
  <1>1. ChannelP!TypeOK => Channel!TypeOK
    BY DEF ChannelP!TypeOK, Channel!TypeOK, ChannelP!WorkerStates,
         Channel!WorkerStates, ChannelP!SendStates, Channel!SendStates
  <1>2. HandlerP!TypeOK => Handler!TypeOK
    BY DEF HandlerP!TypeOK, Handler!TypeOK, HandlerP!Timelines, Handler!Timelines,
         HandlerP!Gids, Handler!Gids, HandlerP!Recorded, Handler!Recorded,
         HandlerP!program, Handler!program, HandlerP!event, Handler!event,
         HandlerP!Program, Handler!Program,
         Handler!handle_rmw_event, HandlerP!handle_rmw_event,
         Handler!handle_message, HandlerP!handle_message,
         Handler!handle_service_event, HandlerP!handle_service_event
  <1>3. PartsHold => TypeOK
    BY <1>1, <1>2 DEF PartsHold, TypeOK
  <1> QED BY <1>3, Invariance, PTL

\* Every event a hook sent was dropped at the door, waits, is in hand, is
\* recorded, or was lost to a failed call of its own.
THEOREM Accounted == Spec => []EveryEventAccountedFor
  <1>1. PartsHold /\ PInv => EveryEventAccountedFor
    BY PartsFacts DEF PInv, Counted, EveryEventAccountedFor
  <1> QED BY <1>1, Invariance, PTL

\* What the backend holds was accepted, is as the hook sent it, and is in the
\* order of acceptance.
THEOREM Followed == Spec => []RecordFollowsAcceptance
  <1>1. PartsHold /\ PInv => RecordFollowsAcceptance
    BY PartsFacts DEF PartsHold, PInv, RecordsAccepted, HandlerP!RecordedInOrder,
         RecordFollowsAcceptance
  <1> QED BY <1>1, Invariance, PTL

\* An event on a timeline without a name proves that the creation of its node was
\* dropped by a full channel, or that a call failed.
THEOREM NamelessExplained == Spec => []NamelessMeansCreationLost
  <1>1. ASSUME PartsHold, PInv
        PROVE  NamelessMeansCreationLost
    <2> SUFFICES ASSUME NEW i \in 1 .. Len(record), failures = 0,
                        ~Named(record[i].event.timeline)
                 PROVE  \E c \in lostFull :
                          Creation(c) /\ Shape[c].timeline = record[i].event.timeline
      BY <1>1, PartsFacts DEF NamelessMeansCreationLost
    <2>1. /\ i \in 1 .. Len(accepted)
          /\ record[i].event = Shape[accepted[i]]
      BY <1>1 DEF PInv, RecordsAccepted
    <2>2. PICK c \in Occurrences :
            /\ Creation(c) /\ Shape[c].timeline = record[i].event.timeline
            /\ c \in lostFull \/ \E k \in 1 .. i : accepted[k] = c
      BY <1>1, <2>1 DEF PInv, CreatedFirst
    <2>3. ASSUME NEW k \in 1 .. i, accepted[k] = c
          PROVE  FALSE
      <3>1. k \in 1 .. Len(record) /\ record[k].event = Shape[c]
        BY <1>1, <2>3, PartsFacts DEF PInv, RecordsAccepted
      <3>2. record[k].event.kind = "create_node"
        BY <2>2, <3>1 DEF Creation
      <3>3. \/ Named(record[k].event.timeline)
            \/ record[k].event.timeline \in unnamed
        BY <1>1, <3>1, <3>2 DEF PartsHold, HandlerP!NamedBeforeEvents, Named
      <3>4. unnamed = {}
        BY <1>1 DEF PInv, FailureCounted
      <3> QED BY <2>2, <3>1, <3>3, <3>4
    <2> QED BY <2>2, <2>3
  <1> QED BY <1>1, Invariance, PTL
=============================================================================
