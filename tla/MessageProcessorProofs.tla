----------------------- MODULE MessageProcessorProofs -----------------------
(***************************************************************************)
(* Proofs about MessageProcessor, for any events and any number of         *)
(* failures: the safety properties the run message_processor checks.       *)
(***************************************************************************)
EXTENDS MessageProcessor, SequenceTheorems, TLAPS

CallNames == {"open", "keys", "node", "gid", "service", "event"}

\* The programs of the handlers: each opens the timeline first, records the
\* event last and nowhere else, and names what has to be named before that.
LEMMA ProgramFacts ==
  ASSUME NEW k \in DOMAIN Program
  PROVE  /\ Len(Program[k]) \in 3 .. 6
         /\ DOMAIN Program[k] = 1 .. Len(Program[k])
         /\ Program[k][1] = "open"
         /\ \A i \in DOMAIN Program[k] :
              /\ Program[k][i] \in CallNames
              /\ Program[k][i] = "event" <=> i = Len(Program[k])
         /\ k \in {"create_node", "publish", "receive"} =>
              \E i \in DOMAIN Program[k] : Program[k][i] = "node"
         /\ k = "publish" => \E i \in DOMAIN Program[k] : Program[k][i] = "gid"
<1>1. DOMAIN Program = {"create_node", "rmw", "publish", "receive",
                        "send_request", "service"}
  BY DEF Program
<1>2. CASE k = "create_node"
  <2>1. Program[k] = <<"open", "keys", "node", "keys", "event">>
    BY <1>2 DEF Program, handle_rmw_event
  <2>2. Len(Program[k]) = 5 /\ DOMAIN Program[k] = 1 .. 5 /\ 3 \in 1 .. 5
    BY <2>1
  <2> QED BY <1>2, <2>1, <2>2 DEF CallNames
<1>3. CASE k = "rmw"
  <2>1. Program[k] = <<"open", "keys", "event">>
    BY <1>3 DEF Program, handle_rmw_event
  <2>2. Len(Program[k]) = 3 /\ DOMAIN Program[k] = 1 .. 3
    BY <2>1
  <2> QED BY <1>3, <2>1, <2>2 DEF CallNames
<1>4. CASE k = "publish"
  <2>1. Program[k] = <<"open", "node", "keys", "gid", "keys", "event">>
    BY <1>4 DEF Program, handle_message
  <2>2. Len(Program[k]) = 6 /\ DOMAIN Program[k] = 1 .. 6
        /\ 2 \in 1 .. 6 /\ 4 \in 1 .. 6
    BY <2>1
  <2> QED BY <1>4, <2>1, <2>2 DEF CallNames
<1>5. CASE k = "receive"
  <2>1. Program[k] = <<"open", "node", "keys", "event">>
    BY <1>5 DEF Program, handle_message
  <2>2. Len(Program[k]) = 4 /\ DOMAIN Program[k] = 1 .. 4 /\ 2 \in 1 .. 4
    BY <2>1
  <2> QED BY <1>5, <2>1, <2>2 DEF CallNames
<1>6. CASE k = "send_request"
  <2>1. Program[k] = <<"open", "service", "keys", "event">>
    BY <1>6 DEF Program, handle_service_event
  <2>2. Len(Program[k]) = 4 /\ DOMAIN Program[k] = 1 .. 4
    BY <2>1
  <2> QED BY <1>6, <2>1, <2>2 DEF CallNames
<1>7. CASE k = "service"
  <2>1. Program[k] = <<"open", "keys", "event">>
    BY <1>7 DEF Program, handle_service_event
  <2>2. Len(Program[k]) = 3 /\ DOMAIN Program[k] = 1 .. 3
    BY <2>1
  <2> QED BY <1>7, <2>1, <2>2 DEF CallNames
<1> QED BY <1>1, <1>2, <1>3, <1>4, <1>5, <1>6, <1>7

-----------------------------------------------------------------------------
(* Types and counts.                                                        *)

\* Between two events the next handler starts at its first call.
StartsAtFirst == inHand = <<>> => step = 1

\* The position is the number of events recorded.
PositionCounts == ordering = Len(record)

\* TypeOK is inductive together with these; it needs OnlyFailuresLose because
\* the position is bounded only by the number of receipts.
TypeInv == TypeOK /\ StartsAtFirst /\ PositionCounts /\ OnlyFailuresLose

\* The types of the counters.
LEMMA CounterTypes ==
  ASSUME TypeOK
  PROVE  /\ Len(record) \in Nat /\ record \in Seq(Recorded)
         /\ ordering \in Nat /\ received \in Nat /\ failures \in Nat
         /\ Len(inHand) \in Nat /\ Len(inHand) <= 1
         /\ received <= MaxEvents /\ failures <= MaxFailures
         /\ MaxEvents \in Nat /\ MaxFailures \in Nat
         /\ inHand \in Seq(Events)
<1>1. record \in Seq(Recorded) /\ inHand \in Seq(Events)
  BY DEF TypeOK
<1>2. Len(record) \in Nat /\ Len(inHand) \in Nat
  BY <1>1, LenProperties
<1> QED BY <1>1, <1>2, EventsAssumption DEF TypeOK

\* The event in hand is a whole event, and the next call one of its program.
LEMMA HandFacts ==
  ASSUME TypeOK, inHand # <<>>
  PROVE  /\ Len(inHand) = 1
         /\ event \in Events
         /\ event.kind \in DOMAIN Program
         /\ event.timeline \in Timelines
         /\ event.gid # NoGid => publisher \in Timelines \X Gids
         /\ Len(program) \in 3 .. 6
         /\ step \in 1 .. Len(program)
         /\ program[1] = "open"
         /\ \A i \in 1 .. Len(program) :
              program[i] = "event" <=> i = Len(program)
<1>1. Len(inHand) = 1
  <2>1. inHand \in Seq(Events)
    BY CounterTypes
  <2>2. Len(inHand) # 0
    BY <2>1, EmptySeq
  <2>3. Len(inHand) \in Nat /\ Len(inHand) <= 1
    BY CounterTypes
  <2> QED BY <2>2, <2>3
<1>2. event \in Events
  <2>1. 1 \in 1 .. Len(inHand)
    BY <1>1
  <2> QED BY <2>1, CounterTypes, ElementOfSeq DEF event
<1>3. event.kind \in DOMAIN Program
  BY <1>2, EventsAssumption DEF EventShape
<1>4. event.timeline \in Timelines
  BY <1>2 DEF Timelines
<1>5. event.gid # NoGid => event.gid \in Gids
  BY <1>2 DEF Gids
<1>6. step \in DOMAIN program
  BY DEF TypeOK
<1> QED BY <1>1, <1>2, <1>3, <1>4, <1>5, <1>6, ProgramFacts DEF program, publisher

\* A call that is not the last leaves another one to make.
LEMMA ContinueFacts ==
  ASSUME TypeOK, NEW call, At(call), call # "event", Continue
  PROVE  /\ inHand # <<>> /\ inHand' = inHand
         /\ event' = event /\ program' = program
         /\ step' = step + 1
         /\ step' \in 1 .. Len(program) /\ step' \in DOMAIN program
         /\ step \in 1 .. Len(program) /\ program[step] = call
<1>1. inHand # <<>> /\ program[step] = call
  BY DEF At
<1>2. step \in 1 .. Len(program) /\ step # Len(program)
      /\ Len(program) \in 3 .. 6
  BY <1>1, HandFacts
<1>3. step + 1 \in 1 .. Len(program)
  BY <1>2
<1>4. DOMAIN program = 1 .. Len(program)
  BY <1>1, HandFacts, ProgramFacts DEF program
<1>5. inHand' = inHand /\ step' = step + 1
  BY DEF Continue
<1>6. event' = event /\ program' = program
  BY <1>5 DEF event, program
<1> QED BY <1>1, <1>2, <1>3, <1>4, <1>5, <1>6

\* A call that does not end its handler and leaves the counters and the record
\* alone keeps the part of the invariant that speaks of them.
LEMMA ContinueTypes ==
  ASSUME TypeInv, NEW call, At(call), call # "event", Continue,
         UNCHANGED <<ordering, record, received, failures>>
  PROVE  /\ inHand' \in Seq(Events) /\ Len(inHand') <= 1
         /\ step' \in DOMAIN program'
         /\ StartsAtFirst' /\ PositionCounts' /\ OnlyFailuresLose'
<1>1. TypeOK /\ inHand' = inHand /\ step' \in DOMAIN program'
      /\ inHand # <<>>
  BY ContinueFacts DEF TypeInv
<1>2. StartsAtFirst' /\ PositionCounts' /\ OnlyFailuresLose'
  BY <1>1 DEF TypeInv, StartsAtFirst, PositionCounts, OnlyFailuresLose
<1> QED BY <1>1, <1>2, CounterTypes

\* The calls that succeed without a record, and the tests that need no call.
LEMMA QuietCall ==
  ASSUME \/ Skip \/ OpenTimeline \/ DeclareKeys \/ SendNodeMetadata
         \/ SendPublisherMetadata \/ SendServiceMetadata
  PROVE  /\ Continue
         /\ UNCHANGED <<ordering, record, received, failures, unnamed,
                        unadvertised>>
         /\ \E call \in CallNames \ {"event"} : At(call)
BY DEF Skip, OpenTimeline, DeclareKeys, SendNodeMetadata, SendPublisherMetadata,
       SendServiceMetadata, OpenSkipped, KeysSkipped, NodeSkipped, GidSkipped,
       CallNames, processor, backend, history

\* Every step keeps the types.
LEMMA TypeStep == TypeInv /\ [Next]_mpVars => TypeInv'
<1> SUFFICES ASSUME TypeInv, [Next]_mpVars PROVE TypeInv'
  OBVIOUS
<1>0. TypeOK
  BY DEF TypeInv
<1>1. ASSUME NEW e \in Events, Receive(e) PROVE TypeInv'
  <2>1. /\ inHand' = <<e>> /\ received' = received + 1 /\ received < MaxEvents
        /\ step = 1 /\ step' = 1 /\ Len(inHand) = 0
        /\ UNCHANGED <<processor, backend, failures, unnamed, unadvertised>>
    BY <1>1, EmptySeq DEF Receive, TypeInv, StartsAtFirst
  <2>2. inHand' \in Seq(Events) /\ Len(inHand') = 1 /\ inHand'[1] = e
    BY <2>1
  <2>3. step' \in DOMAIN program'
    <3>1. e.kind \in DOMAIN Program
      BY EventsAssumption DEF EventShape
    <3>2. program' = Program[e.kind]
      BY <2>2 DEF program, event
    <3> QED BY <2>1, <3>1, <3>2, ProgramFacts
  <2>4. received' \in 0 .. MaxEvents
    BY <1>0, <2>1, CounterTypes
  <2>5. OnlyFailuresLose'
    <3>1. received + 1 = Len(record) + failures + 1
      BY <1>0, <2>1, CounterTypes DEF TypeInv, OnlyFailuresLose
    <3> QED BY <2>1, <2>2, <3>1 DEF OnlyFailuresLose, backend
  <2>6. StartsAtFirst' /\ PositionCounts'
    BY <2>1 DEF TypeInv, StartsAtFirst, PositionCounts, processor, backend
  <2> QED BY <2>1, <2>2, <2>3, <2>4, <2>5, <2>6
          DEF TypeInv, TypeOK, processor, backend
<1>2. CASE Skip
  <2>1. PICK call \in CallNames \ {"event"} : At(call)
    BY <1>2, QuietCall
  <2>2. /\ inHand' \in Seq(Events) /\ Len(inHand') <= 1
        /\ step' \in DOMAIN program'
        /\ StartsAtFirst' /\ PositionCounts' /\ OnlyFailuresLose'
    BY <1>2, <2>1, QuietCall, ContinueTypes
  <2> QED BY <1>0, <1>2, <2>2
          DEF Skip, TypeInv, TypeOK, processor, backend, history
<1>3. CASE OpenTimeline
  <2>1. At("open") /\ event.timeline \in Timelines
    BY <1>0, <1>3, HandFacts DEF OpenTimeline, At
  <2>2. /\ inHand' \in Seq(Events) /\ Len(inHand') <= 1
        /\ step' \in DOMAIN program'
        /\ StartsAtFirst' /\ PositionCounts' /\ OnlyFailuresLose'
    BY <1>3, <2>1, QuietCall, ContinueTypes
  <2> QED BY <1>0, <1>3, <2>1, <2>2
          DEF OpenTimeline, TypeInv, TypeOK, history
<1>4. CASE DeclareKeys
  <2>1. /\ At("keys") /\ event.kind \in DOMAIN Program
        /\ step \in 1 .. 6
    BY <1>0, <1>4, HandFacts DEF DeclareKeys, At
  <2>2. /\ inHand' \in Seq(Events) /\ Len(inHand') <= 1
        /\ step' \in DOMAIN program'
        /\ StartsAtFirst' /\ PositionCounts' /\ OnlyFailuresLose'
    BY <1>4, <2>1, QuietCall, ContinueTypes
  <2>3. attr_key_cache' \subseteq (DOMAIN Program) \X (1 .. 6)
    BY <1>0, <1>4, <2>1 DEF DeclareKeys, keys, TypeOK
  <2> QED BY <1>0, <1>4, <2>2, <2>3
          DEF DeclareKeys, TypeInv, TypeOK, backend, history
<1>5. CASE SendNodeMetadata
  <2>1. At("node") /\ event.timeline \in Timelines
    BY <1>0, <1>5, HandFacts DEF SendNodeMetadata, At
  <2>2. /\ inHand' \in Seq(Events) /\ Len(inHand') <= 1
        /\ step' \in DOMAIN program'
        /\ StartsAtFirst' /\ PositionCounts' /\ OnlyFailuresLose'
    BY <1>5, <2>1, QuietCall, ContinueTypes
  <2>3. /\ created_timelines' \subseteq Timelines
        /\ named' \subseteq [on : Timelines \cup {NoTimeline}, of : Timelines]
    BY <1>0, <1>5, <2>1 DEF SendNodeMetadata, TypeOK
  <2> QED BY <1>0, <1>5, <2>2, <2>3
          DEF SendNodeMetadata, TypeInv, TypeOK, history
<1>6. CASE SendPublisherMetadata
  <2>1. At("gid") /\ publisher \in Timelines \X Gids
    BY <1>0, <1>6, HandFacts DEF SendPublisherMetadata, GidSkipped, At
  <2>2. /\ inHand' \in Seq(Events) /\ Len(inHand') <= 1
        /\ step' \in DOMAIN program'
        /\ StartsAtFirst' /\ PositionCounts' /\ OnlyFailuresLose'
    BY <1>6, <2>1, QuietCall, ContinueTypes
  <2>3. /\ sent_timeline_publisher_metadata' \subseteq Timelines \X Gids
        /\ advertised' \subseteq
              [on : Timelines \cup {NoTimeline}, of : Timelines \X Gids]
    BY <1>0, <1>6, <2>1 DEF SendPublisherMetadata, TypeOK
  <2> QED BY <1>0, <1>6, <2>2, <2>3
          DEF SendPublisherMetadata, TypeInv, TypeOK, history
<1>7. CASE SendServiceMetadata
  <2>1. At("service")
    BY <1>7 DEF SendServiceMetadata
  <2>2. /\ inHand' \in Seq(Events) /\ Len(inHand') <= 1
        /\ step' \in DOMAIN program'
        /\ StartsAtFirst' /\ PositionCounts' /\ OnlyFailuresLose'
    BY <1>7, <2>1, QuietCall, ContinueTypes
  <2> QED BY <1>0, <1>7, <2>2
          DEF SendServiceMetadata, TypeInv, TypeOK, processor, backend, history
<1>8. CASE RecordEvent
  <2> DEFINE r == [receipt |-> received, event |-> event, on |-> bound,
                   ordering |-> ordering]
  <2>1. /\ inHand # <<>> /\ record' = Append(record, r)
        /\ ordering' = ordering + 1 /\ inHand' = <<>> /\ step' = 1
        /\ UNCHANGED <<received, failures>>
    BY <1>8 DEF RecordEvent, At, Return, Position, history
  <2>2. /\ received = Len(record) + failures + 1
        /\ ordering = Len(record)
    BY <1>0, <2>1, HandFacts DEF TypeInv, OnlyFailuresLose, PositionCounts
  <2>3. received \in 1 .. MaxEvents /\ ordering + 1 \in 0 .. MaxEvents
        /\ ordering \in 0 .. MaxEvents
    BY <1>0, <2>2, CounterTypes
  <2>4. r \in Recorded
    <3>1. bound \in Timelines \cup {NoTimeline} /\ event \in Events
      BY <1>0, <2>1, HandFacts DEF TypeOK
    <3> QED BY <2>3, <3>1 DEF Recorded
  <2>5. record' \in Seq(Recorded) /\ Len(record') = Len(record) + 1
    <3> HIDE DEF r
    <3> QED BY <1>0, <2>1, <2>4, CounterTypes, AppendProperties
  <2>6. inHand' \in Seq(Events) /\ Len(inHand') = 0
    BY <2>1
  <2>7. StartsAtFirst' /\ PositionCounts'
    BY <2>1, <2>2, <2>5 DEF StartsAtFirst, PositionCounts
  <2>8. OnlyFailuresLose'
    <3>1. received = (Len(record) + 1) + failures + 0
      BY <1>0, <2>2, CounterTypes
    <3> QED BY <2>1, <2>5, <2>6, <3>1 DEF OnlyFailuresLose
  <2> QED BY <1>0, <1>8, <2>1, <2>3, <2>5, <2>6, <2>7, <2>8
          DEF RecordEvent, TypeInv, TypeOK, history
<1>9. CASE CallFails
  <2>1. /\ inHand # <<>> /\ inHand' = <<>> /\ step' = 1
        /\ failures' = failures + 1 /\ failures < MaxFailures
        /\ UNCHANGED <<ordering, backend, received, attr_key_cache,
                       currently_open_timeline>>
        /\ event.timeline \in Timelines
    BY <1>0, <1>9, HandFacts DEF CallFails, Return
  <2>2. inHand' \in Seq(Events) /\ Len(inHand') = 0
    BY <2>1
  <2>3. failures' \in 0 .. MaxFailures
    BY <1>0, <2>1, CounterTypes
  <2>4. /\ created_timelines' \subseteq Timelines
        /\ unnamed' \subseteq Timelines
    BY <1>0, <1>9, <2>1 DEF CallFails, TypeOK
  <2>5. /\ sent_timeline_publisher_metadata' \subseteq Timelines \X Gids
        /\ unadvertised' \subseteq Timelines \X Gids
    <3>1. CASE At("gid")
      <4>1. publisher \in Timelines \X Gids
        BY <1>0, <1>9, <2>1, <3>1, HandFacts DEF CallFails, GidSkipped
      <4> QED BY <1>0, <1>9, <3>1, <4>1 DEF CallFails, TypeOK
    <3>2. CASE ~At("gid")
      BY <1>0, <1>9, <3>2 DEF CallFails, TypeOK
    <3> QED BY <3>1, <3>2
  <2>6. OnlyFailuresLose'
    <3>1. received = Len(record) + (failures + 1) + 0
      BY <1>0, <2>1, CounterTypes, HandFacts DEF TypeInv, OnlyFailuresLose
    <3> QED BY <2>1, <2>2, <3>1 DEF OnlyFailuresLose, backend
  <2>7. StartsAtFirst' /\ PositionCounts'
    BY <2>1 DEF TypeInv, StartsAtFirst, PositionCounts, backend
  <2> QED BY <1>0, <2>1, <2>2, <2>3, <2>4, <2>5, <2>6, <2>7
          DEF TypeInv, TypeOK, backend
<1>10. CASE UNCHANGED mpVars
  BY <1>10 DEF mpVars, processor, backend, history, TypeInv, TypeOK, StartsAtFirst,
               PositionCounts, OnlyFailuresLose, program, event
<1> QED BY <1>1, <1>2, <1>3, <1>4, <1>5, <1>6, <1>7, <1>8, <1>9, <1>10 DEF Next

\* The initial states have the types.
LEMMA TypeInit == Init => TypeInv
<1> SUFFICES ASSUME Init PROVE TypeInv
  OBVIOUS
<1>1. /\ <<>> \in Seq(Events) /\ Len(<<>>) = 0 /\ <<>> \in Seq(Recorded)
  BY EmptySeq
<1>2. /\ inHand \in Seq(Events) /\ Len(inHand) = 0 /\ inHand = <<>>
      /\ record \in Seq(Recorded) /\ Len(record) = 0
      /\ ordering = 0 /\ received = 0 /\ failures = 0 /\ step = 1
  BY <1>1 DEF Init
<1>3. TypeOK
  BY <1>2, EventsAssumption DEF Init, TypeOK
<1> QED BY <1>2, <1>3 DEF TypeInv, StartsAtFirst, PositionCounts, OnlyFailuresLose

\* Every behaviour of the processor keeps its types, the bounds on positions
\* and counts included.
THEOREM TypeCorrect == Spec => []TypeOK
<1>1. TypeInv => TypeOK
  BY DEF TypeInv
<1> QED BY <1>1, TypeInit, TypeStep, PTL DEF Spec

\* An event is lost only to a failed call, one event to each.
THEOREM OnlyFailures == Spec => []OnlyFailuresLose
<1>1. TypeInv => OnlyFailuresLose
  BY DEF TypeInv
<1> QED BY <1>1, TypeInit, TypeStep, PTL DEF Spec

-----------------------------------------------------------------------------
(* Order and positions of what is recorded.                                 *)

\* Every recorded event was received before the one in hand: the strengthening
\* of RecordedInOrder.
ReceiptsArePast ==
  \A i \in 1 .. Len(record) :
    record[i].receipt \in Nat /\ record[i].receipt <= Len(record) + failures

\* What the record's order rests on.
RecordInv == ReceiptsArePast /\ RecordedInOrder /\ GaplessOrdering

\* A step leaves the record alone, or appends the event in hand with its
\* receipt and the next position, on the timeline that is bound.
LEMMA RecordCases ==
  ASSUME TypeInv, [Next]_mpVars
  PROVE  \/ record' = record /\ failures' \in Nat /\ failures' >= failures
         \/ /\ RecordEvent
            /\ failures' = failures
            /\ received = Len(record) + failures + 1
            /\ Len(record') = Len(record) + 1
            /\ \A i \in 1 .. Len(record) : record'[i] = record[i]
            /\ record'[Len(record) + 1] =
                 [receipt |-> received, event |-> event, on |-> bound,
                  ordering |-> ordering]
<1>0. TypeOK
  BY DEF TypeInv
<1>1. failures \in Nat
  BY <1>0, CounterTypes
<1>2. CASE RecordEvent
  <2> DEFINE r == [receipt |-> received, event |-> event, on |-> bound,
                   ordering |-> ordering]
  <2>1. record' = Append(record, r) /\ failures' = failures /\ inHand # <<>>
    BY <1>2 DEF RecordEvent, Position, At, history
  <2>2. received = Len(record) + failures + 1
    BY <1>0, <2>1, HandFacts DEF TypeInv, OnlyFailuresLose
  <2>3. r \in {r} \cup Recorded /\ record \in Seq({r} \cup Recorded)
    <3>1. \A i \in 1 .. Len(record) : record[i] \in Recorded
      BY <1>0, CounterTypes, ElementOfSeq
    <3> HIDE DEF r
    <3>2. record \in Seq(Recorded)
      BY <1>0, CounterTypes
    <3> QED BY <3>1, <3>2
  <2>4. /\ Len(record') = Len(record) + 1
        /\ \A i \in 1 .. Len(record) : record'[i] = record[i]
        /\ record'[Len(record) + 1] = r
    <3> HIDE DEF r
    <3> QED BY <2>1, <2>3, AppendProperties
  <2> QED BY <1>2, <2>1, <2>2, <2>4
<1>3. CASE CallFails
  <2>1. record' = record /\ failures' = failures + 1
    BY <1>3 DEF CallFails, backend
  <2> QED BY <1>1, <2>1
<1>4. CASE UNCHANGED <<record, failures>>
  BY <1>1, <1>4
<1>5. UNCHANGED <<record, failures>> \/ RecordEvent \/ CallFails
  BY DEF Next, mpVars, Receive, Skip, OpenTimeline, DeclareKeys, SendNodeMetadata,
         SendPublisherMetadata, SendServiceMetadata, processor, backend, history
<1> QED BY <1>2, <1>3, <1>4, <1>5

\* Every step keeps order and positions.
LEMMA RecordStep == TypeInv /\ RecordInv /\ [Next]_mpVars => RecordInv'
<1> SUFFICES ASSUME TypeInv, RecordInv, [Next]_mpVars PROVE RecordInv'
  OBVIOUS
<1> DEFINE n == Len(record)
<1>0. /\ n \in Nat /\ failures \in Nat /\ received \in Nat
      /\ ordering = n
  BY CounterTypes DEF TypeInv, PositionCounts
<1>1. CASE record' = record /\ failures' \in Nat /\ failures' >= failures
  <2>1. ReceiptsArePast'
    <3>1. \A i \in 1 .. n : /\ record[i].receipt \in Nat
                            /\ record[i].receipt <= n + failures
      BY DEF RecordInv, ReceiptsArePast
    <3>2. ASSUME NEW i \in 1 .. n
          PROVE  /\ record[i].receipt \in Nat
                 /\ record[i].receipt <= n + failures'
      BY <1>0, <1>1, <3>1
    <3> QED BY <1>1, <3>2 DEF ReceiptsArePast
  <2> QED BY <1>1, <2>1 DEF RecordInv, RecordedInOrder, GaplessOrdering
<1>2. CASE /\ failures' = failures
           /\ received = n + failures + 1
           /\ Len(record') = n + 1
           /\ \A i \in 1 .. n : record'[i] = record[i]
           /\ record'[n + 1] =
                 [receipt |-> received, event |-> event, on |-> bound,
                  ordering |-> ordering]
  <2>1. /\ record'[n + 1].receipt = received
        /\ record'[n + 1].ordering = n
    BY <1>0, <1>2
  <2>2. \A i \in 1 .. n : /\ record'[i] = record[i]
                          /\ record[i].receipt \in Nat
                          /\ record[i].receipt <= n + failures
    BY <1>2 DEF RecordInv, ReceiptsArePast
  <2>3. \A i \in 1 .. Len(record') : i \in 1 .. n \/ i = n + 1
    BY <1>0, <1>2
  <2>4. ASSUME NEW i \in 1 .. Len(record')
        PROVE  /\ record'[i].receipt \in Nat
               /\ record'[i].receipt <= Len(record') + failures'
    <3>1. CASE i \in 1 .. n
      BY <1>0, <1>2, <2>2, <3>1
    <3>2. CASE i = n + 1
      BY <1>0, <1>2, <2>1, <3>2
    <3> QED BY <2>3, <3>1, <3>2
  <2>5. ReceiptsArePast'
    BY <2>4 DEF ReceiptsArePast
  <2>6. ASSUME NEW i \in 1 .. Len(record'), NEW j \in 1 .. Len(record'), i < j
        PROVE  record'[i].receipt < record'[j].receipt
    <3>1. i \in 1 .. n
      BY <1>0, <1>2, <2>6
    <3>2. CASE j \in 1 .. n
      <4>1. record[i].receipt < record[j].receipt
        BY <2>6, <3>1, <3>2 DEF RecordInv, RecordedInOrder
      <4> QED BY <2>2, <3>1, <3>2, <4>1
    <3>3. CASE j = n + 1
      <4>1. record[i].receipt < received
        BY <1>0, <1>2, <2>2, <3>1
      <4> QED BY <2>1, <2>2, <3>1, <3>3, <4>1
    <3> QED BY <2>3, <3>2, <3>3
  <2>7. RecordedInOrder'
    BY <2>6 DEF RecordedInOrder
  <2>8. ASSUME NEW i \in 1 .. Len(record')
        PROVE  record'[i].ordering = i - 1
    <3>1. CASE i \in 1 .. n
      BY <2>2, <3>1 DEF RecordInv, GaplessOrdering
    <3>2. CASE i = n + 1
      BY <1>0, <2>1, <3>2
    <3> QED BY <2>3, <3>1, <3>2
  <2>9. GaplessOrdering'
    BY <2>8 DEF GaplessOrdering
  <2> QED BY <2>5, <2>7, <2>9 DEF RecordInv
<1> QED BY <1>1, <1>2, RecordCases

\* Nothing is recorded at first.
LEMMA RecordInit == Init => RecordInv
<1> SUFFICES ASSUME Init PROVE RecordInv
  OBVIOUS
<1>1. Len(record) = 0
  BY EmptySeq DEF Init
<1> QED BY <1>1 DEF RecordInv, ReceiptsArePast, RecordedInOrder, GaplessOrdering

\* Events are recorded in the order of their receipt, none twice.
THEOREM InOrder == Spec => []RecordedInOrder
<1>1. RecordInv => RecordedInOrder
  BY DEF RecordInv
<1> QED BY <1>1, TypeInit, TypeStep, RecordInit, RecordStep, PTL DEF Spec

\* The positions on the backend are 0, 1, 2, ... whatever fails in between.
THEOREM Gapless == Spec => []GaplessOrdering
<1>1. RecordInv => GaplessOrdering
  BY DEF RecordInv
<1> QED BY <1>1, TypeInit, TypeStep, RecordInit, RecordStep, PTL DEF Spec

-----------------------------------------------------------------------------
(* The caches.                                                              *)

\* The processor knows which timeline the client has open.
Synced == currently_open_timeline = bound

\* What the calls made so far for the event in hand have left behind.
CallsMade ==
  inHand # <<>> =>
    \A i \in 1 .. Len(program) : i < step =>
      /\ program[i] = "open" => bound = event.timeline
      /\ program[i] = "node" => event.timeline \in created_timelines
      /\ program[i] = "gid" =>
           \/ event.gid = NoGid
           \/ publisher \in sent_timeline_publisher_metadata

\* A cache of metadata says no more than was sent, on the right timeline, or
\* was tried and failed.
CachesHonest ==
  /\ \A l \in created_timelines :
       [on |-> l, of |-> l] \in named \/ l \in unnamed
  /\ \A p \in sent_timeline_publisher_metadata :
       [on |-> p[1], of |-> p] \in advertised \/ p \in unadvertised

\* Metadata is where it belongs: the part of OwnTimeline about metadata.
MetadataOwn ==
  /\ \A m \in named : m.on = m.of
  /\ \A m \in advertised : m.on = m.of[1]

\* The inductive invariant of the caches.
CacheInv == Synced /\ CallsMade /\ CachesHonest /\ MetadataOwn

\* After its first call, the handler's timeline is the one the client has open.
LEMMA BoundIsOwn ==
  ASSUME TypeOK, CallsMade, NEW call, At(call), call # "open"
  PROVE  bound = event.timeline
<1>1. /\ inHand # <<>> /\ program[step] # "open" /\ program[1] = "open"
      /\ step \in 1 .. Len(program) /\ Len(program) \in 3 .. 6
  BY HandFacts DEF At
<1>2. 1 \in 1 .. Len(program) /\ 1 < step
  BY <1>1
<1> QED BY <1>1, <1>2 DEF CallsMade

\* What a quiet call adds to the caches and the backend.
LEMMA QuietCaches ==
  ASSUME TypeOK, CacheInv,
         \/ Skip \/ OpenTimeline \/ DeclareKeys \/ SendNodeMetadata
         \/ SendPublisherMetadata \/ SendServiceMetadata
  PROVE  /\ Synced' /\ CachesHonest' /\ MetadataOwn'
         /\ bound' = bound \/ bound' = event.timeline
         /\ created_timelines \subseteq created_timelines'
         /\ sent_timeline_publisher_metadata
              \subseteq sent_timeline_publisher_metadata'
         /\ named \subseteq named' /\ advertised \subseteq advertised'
         /\ At("open") => bound' = event.timeline
         /\ At("node") => event.timeline \in created_timelines'
         /\ At("gid") => \/ event.gid = NoGid
                         \/ publisher \in sent_timeline_publisher_metadata'
<1>0. /\ \A call \in CallNames : At(call) =>
           \A other \in CallNames \ {call} : ~At(other)
      /\ Synced /\ CallsMade /\ CachesHonest /\ MetadataOwn
  BY DEF At, CacheInv
<1>1. CASE Skip
  <2>1. UNCHANGED <<processor, backend, history>>
        /\ (OpenSkipped \/ KeysSkipped \/ NodeSkipped \/ GidSkipped)
    BY <1>1 DEF Skip
  <2>2. /\ At("open") => currently_open_timeline = event.timeline
        /\ At("node") => event.timeline \in created_timelines
        /\ At("gid") => \/ event.gid = NoGid
                        \/ publisher \in sent_timeline_publisher_metadata
    BY <1>0, <2>1 DEF OpenSkipped, KeysSkipped, NodeSkipped, GidSkipped, CallNames
  <2> QED BY <1>0, <2>1, <2>2 DEF processor, backend, history, Synced,
                                 CachesHonest, MetadataOwn
<1>2. CASE OpenTimeline
  <2>1. /\ At("open") /\ bound' = event.timeline
        /\ currently_open_timeline' = event.timeline
        /\ UNCHANGED <<created_timelines, sent_timeline_publisher_metadata, named,
                       advertised, unnamed, unadvertised>>
    BY <1>2 DEF OpenTimeline, history
  <2> QED BY <1>0, <2>1 DEF Synced, CachesHonest, MetadataOwn, CallNames
<1>3. CASE DeclareKeys
  <2>1. At("keys") /\ UNCHANGED <<created_timelines, currently_open_timeline,
                         sent_timeline_publisher_metadata, backend, history>>
    BY <1>3 DEF DeclareKeys
  <2> QED BY <1>0, <2>1 DEF Synced, CachesHonest, MetadataOwn, CallNames,
                            backend, history
<1>4. CASE SendNodeMetadata
  <2> DEFINE l == event.timeline
  <2>1. /\ At("node")
        /\ created_timelines' = created_timelines \cup {l}
        /\ named' = named \cup {[on |-> bound, of |-> l]}
        /\ UNCHANGED <<sent_timeline_publisher_metadata, currently_open_timeline,
                       bound, advertised, unnamed, unadvertised>>
    BY <1>4 DEF SendNodeMetadata, history
  <2>2. bound = l
    BY <1>0, <2>1, BoundIsOwn
  <2> HIDE DEF l
  <2>3. CachesHonest' /\ MetadataOwn'
    BY <1>0, <2>1, <2>2 DEF CachesHonest, MetadataOwn
  <2>4. Synced' /\ ~At("open") /\ ~At("gid") /\ l \in created_timelines'
    BY <1>0, <2>1 DEF Synced, CallNames
  <2> QED BY <2>1, <2>3, <2>4 DEF l
<1>5. CASE SendPublisherMetadata
  <2> DEFINE p == publisher
  <2>1. /\ At("gid")
        /\ sent_timeline_publisher_metadata' =
              sent_timeline_publisher_metadata \cup {p}
        /\ advertised' = advertised \cup {[on |-> bound, of |-> p]}
        /\ UNCHANGED <<created_timelines, currently_open_timeline, bound, named,
                       unnamed, unadvertised>>
    BY <1>5 DEF SendPublisherMetadata, history
  <2>2. bound = p[1]
    BY <1>0, <2>1, BoundIsOwn DEF publisher
  <2> HIDE DEF p
  <2>3. CachesHonest' /\ MetadataOwn'
    BY <1>0, <2>1, <2>2 DEF CachesHonest, MetadataOwn
  <2>4. /\ Synced' /\ ~At("open") /\ ~At("node")
        /\ p \in sent_timeline_publisher_metadata'
    BY <1>0, <2>1 DEF Synced, CallNames
  <2> QED BY <2>1, <2>3, <2>4 DEF p
<1>6. CASE SendServiceMetadata
  <2>1. At("service") /\ UNCHANGED <<processor, backend, history>>
    BY <1>6 DEF SendServiceMetadata
  <2> QED BY <1>0, <2>1 DEF Synced, CachesHonest, MetadataOwn, CallNames,
                            processor, backend, history
<1> QED BY <1>1, <1>2, <1>3, <1>4, <1>5, <1>6

\* A quiet call leaves behind what it stands for, and what was there before.
LEMMA QuietCallsMade ==
  ASSUME TypeOK, CacheInv,
         \/ Skip \/ OpenTimeline \/ DeclareKeys \/ SendNodeMetadata
         \/ SendPublisherMetadata \/ SendServiceMetadata
  PROVE  CallsMade'
<1>1. PICK call \in CallNames \ {"event"} : At(call)
  BY QuietCall
<1>2. /\ inHand # <<>> /\ inHand' = inHand
      /\ event' = event /\ program' = program
      /\ step' = step + 1 /\ step \in 1 .. Len(program)
      /\ program[step] = call
  BY <1>1, QuietCall, ContinueFacts
<1>3. publisher' = publisher
  BY <1>2 DEF publisher
<1>4. Len(program) \in Nat
  BY <1>2, HandFacts
<1> SUFFICES ASSUME NEW i \in 1 .. Len(program), i < step + 1
             PROVE  /\ program[i] = "open" => bound' = event.timeline
                    /\ program[i] = "node" =>
                         event.timeline \in created_timelines'
                    /\ program[i] = "gid" =>
                         \/ event.gid = NoGid
                         \/ publisher \in sent_timeline_publisher_metadata'
  BY <1>2, <1>3 DEF CallsMade
<1>5. i < step \/ i = step
  BY <1>2, <1>4
<1>6. CASE i < step
  <2>1. /\ program[i] = "open" => bound = event.timeline
        /\ program[i] = "node" => event.timeline \in created_timelines
        /\ program[i] = "gid" =>
             \/ event.gid = NoGid
             \/ publisher \in sent_timeline_publisher_metadata
    BY <1>2, <1>6 DEF CacheInv, CallsMade
  <2> QED BY <2>1, QuietCaches
<1>7. CASE i = step
  BY <1>2, <1>7, QuietCaches DEF At
<1> QED BY <1>5, <1>6, <1>7

\* Every step keeps the invariant of the caches.
LEMMA CacheStep == TypeInv /\ CacheInv /\ [Next]_mpVars => CacheInv'
<1> SUFFICES ASSUME TypeInv, CacheInv, [Next]_mpVars PROVE CacheInv'
  OBVIOUS
<1>0. /\ TypeOK /\ StartsAtFirst
      /\ Synced /\ CallsMade /\ CachesHonest /\ MetadataOwn
  BY DEF TypeInv, CacheInv
<1>1. ASSUME NEW e \in Events, Receive(e) PROVE CacheInv'
  <2>1. /\ UNCHANGED <<processor, backend, unnamed, unadvertised>>
        /\ step' = 1
    BY <1>0, <1>1 DEF Receive, StartsAtFirst
  <2>2. CallsMade'
    BY <2>1 DEF CallsMade
  <2> QED BY <1>0, <2>1, <2>2 DEF CacheInv, Synced, CachesHonest, MetadataOwn,
                                  processor, backend
<1>2. CASE \/ Skip \/ OpenTimeline \/ DeclareKeys \/ SendNodeMetadata
           \/ SendPublisherMetadata \/ SendServiceMetadata
  <2>1. CallsMade'
    BY <1>0, <1>2, QuietCallsMade
  <2>2. Synced' /\ CachesHonest' /\ MetadataOwn'
    BY <1>0, <1>2, QuietCaches
  <2> QED BY <2>1, <2>2 DEF CacheInv
<1>3. CASE RecordEvent
  <2>1. /\ inHand' = <<>>
        /\ UNCHANGED <<created_timelines, sent_timeline_publisher_metadata,
                       currently_open_timeline, bound, named, advertised, history>>
    BY <1>3 DEF RecordEvent, Return
  <2> QED BY <1>0, <2>1 DEF CacheInv, Synced, CallsMade, CachesHonest,
                            MetadataOwn, history
<1>4. CASE CallFails
  <2>1. inHand' = <<>> /\ UNCHANGED <<currently_open_timeline, backend>>
    BY <1>4 DEF CallFails, Return
  <2>2. \A l \in created_timelines' : l \in created_timelines \/ l \in unnamed'
    BY <1>4 DEF CallFails
  <2>3. \A p \in sent_timeline_publisher_metadata' :
          \/ p \in sent_timeline_publisher_metadata
          \/ p \in unadvertised'
    BY <1>4 DEF CallFails
  <2>4. unnamed \subseteq unnamed' /\ unadvertised \subseteq unadvertised'
    BY <1>4 DEF CallFails
  <2>5. CachesHonest'
    BY <1>0, <2>1, <2>2, <2>3, <2>4 DEF CachesHonest, backend
  <2> QED BY <1>0, <2>1, <2>5 DEF CacheInv, Synced, CallsMade, MetadataOwn, backend
<1>5. CASE UNCHANGED mpVars
  BY <1>0, <1>5 DEF mpVars, processor, backend, history, CacheInv, Synced,
                    CallsMade, CachesHonest, MetadataOwn, program, event, publisher
<1> QED BY <1>1, <1>2, <1>3, <1>4, <1>5 DEF Next

\* What a recorded event needs: its own timeline, and the metadata before it.
Sound(r) ==
  /\ r.on = r.event.timeline
  /\ r.event.kind \in {"create_node", "publish", "receive"} =>
       \/ [on |-> r.event.timeline, of |-> r.event.timeline] \in named
       \/ r.event.timeline \in unnamed
  /\ r.event.kind = "publish" /\ r.event.gid # NoGid =>
       \/ [on |-> r.event.timeline, of |-> <<r.event.timeline, r.event.gid>>]
            \in advertised
       \/ <<r.event.timeline, r.event.gid>> \in unadvertised

AllSound == \A i \in 1 .. Len(record) : Sound(record[i])

\* What was sent to the backend, or failed, stays so.
LEMMA BackendGrows ==
  ASSUME [Next]_mpVars
  PROVE  /\ named \subseteq named' /\ advertised \subseteq advertised'
         /\ unnamed \subseteq unnamed' /\ unadvertised \subseteq unadvertised'
<1>1. CASE CallFails
  <2>1. unnamed \subseteq unnamed' /\ unadvertised \subseteq unadvertised'
    BY <1>1 DEF CallFails
  <2> QED BY <1>1, <2>1 DEF CallFails, backend
<1>2. CASE SendNodeMetadata
  BY <1>2 DEF SendNodeMetadata, history
<1>3. CASE SendPublisherMetadata
  BY <1>3 DEF SendPublisherMetadata, history
<1>4. CASE UNCHANGED <<named, advertised, unnamed, unadvertised>>
  BY <1>4
<1>5. \/ UNCHANGED <<named, advertised, unnamed, unadvertised>>
      \/ CallFails \/ SendNodeMetadata \/ SendPublisherMetadata
  BY DEF Next, mpVars, Receive, Skip, OpenTimeline, DeclareKeys,
         SendServiceMetadata, RecordEvent, processor, backend, history
<1> QED BY <1>1, <1>2, <1>3, <1>4, <1>5

\* The event a handler records has what it needs, because the handler went
\* through every call before.
LEMMA RecordedSound ==
  ASSUME TypeOK, CacheInv, At("event"),
         NEW r, r.event = event, r.on = bound
  PROVE  Sound(r)
<1>0. CallsMade /\ CachesHonest
  BY DEF CacheInv
<1>1. /\ inHand # <<>> /\ program[step] = "event"
      /\ event.kind \in DOMAIN Program /\ Len(program) \in 3 .. 6
      /\ step \in 1 .. Len(program) /\ step = Len(program)
      /\ DOMAIN program = 1 .. Len(program)
  BY HandFacts, ProgramFacts DEF At, program
<1>2. ASSUME NEW i \in 1 .. Len(program), program[i] # "event"
      PROVE  i < step
  BY <1>1, <1>2
<1>3. bound = event.timeline
  BY <1>0, BoundIsOwn
<1>4. ASSUME event.kind \in {"create_node", "publish", "receive"}
      PROVE  \/ [on |-> event.timeline, of |-> event.timeline] \in named
             \/ event.timeline \in unnamed
  <2>1. PICK i \in DOMAIN Program[event.kind] : Program[event.kind][i] = "node"
    BY <1>1, <1>4, ProgramFacts
  <2>2. i \in 1 .. Len(program) /\ program[i] = "node" /\ i < step
    BY <1>1, <1>2, <2>1 DEF program
  <2>3. event.timeline \in created_timelines
    BY <1>0, <1>1, <2>2 DEF CallsMade
  <2> QED BY <1>0, <2>3 DEF CachesHonest
<1>5. ASSUME event.kind = "publish", event.gid # NoGid
      PROVE  \/ [on |-> event.timeline, of |-> <<event.timeline, event.gid>>]
                  \in advertised
             \/ <<event.timeline, event.gid>> \in unadvertised
  <2>1. PICK i \in DOMAIN Program[event.kind] : Program[event.kind][i] = "gid"
    BY <1>1, <1>5, ProgramFacts
  <2>2. i \in 1 .. Len(program) /\ program[i] = "gid" /\ i < step
    BY <1>1, <1>2, <2>1 DEF program
  <2>3. publisher \in sent_timeline_publisher_metadata
    BY <1>0, <1>1, <1>5, <2>2 DEF CallsMade
  <2>4. \/ [on |-> publisher[1], of |-> publisher] \in advertised
        \/ publisher \in unadvertised
    BY <1>0, <2>3 DEF CachesHonest
  <2> QED BY <2>4 DEF publisher
<1> QED BY <1>3, <1>4, <1>5 DEF Sound

\* Every step keeps every recorded event sound.
LEMMA SoundStep ==
  TypeInv /\ CacheInv /\ AllSound /\ [Next]_mpVars => AllSound'
<1> SUFFICES ASSUME TypeInv, CacheInv, AllSound, [Next]_mpVars PROVE AllSound'
  OBVIOUS
<1>1. CASE record' = record
  BY <1>1, BackendGrows DEF AllSound, Sound
<1>2. CASE /\ RecordEvent
           /\ Len(record') = Len(record) + 1
           /\ \A i \in 1 .. Len(record) : record'[i] = record[i]
           /\ record'[Len(record) + 1] =
                 [receipt |-> received, event |-> event, on |-> bound,
                  ordering |-> ordering]
  <2> DEFINE n == Len(record)
             r == [receipt |-> received, event |-> event, on |-> bound,
                   ordering |-> ordering]
  <2>1. Sound(r)
    <3>1. r.event = event /\ r.on = bound
      OBVIOUS
    <3>2. At("event") /\ TypeOK
      BY <1>2 DEF RecordEvent, TypeInv
    <3> HIDE DEF r
    <3> QED BY <3>1, <3>2, RecordedSound
  <2>2. n \in Nat
    BY CounterTypes DEF TypeInv
  <2> HIDE DEF r
  <2> SUFFICES ASSUME NEW i \in 1 .. Len(record') PROVE Sound(record[i])'
    BY DEF AllSound
  <2>3. i \in 1 .. n \/ i = n + 1
    BY <1>2, <2>2
  <2>4. CASE i \in 1 .. n
    <3>1. record'[i] = record[i] /\ Sound(record[i])
      BY <1>2, <2>4 DEF AllSound
    <3> QED BY <3>1, BackendGrows DEF Sound
  <2>5. CASE i = n + 1
    <3>1. record'[i] = r
      BY <1>2, <2>5 DEF r
    <3> QED BY <2>1, <3>1, BackendGrows DEF Sound
  <2> QED BY <2>3, <2>4, <2>5
<1> QED BY <1>1, <1>2, RecordCases

\* What is recorded is sound, and what is cached is honest.
Traced == TypeInv /\ CacheInv /\ AllSound

\* At first nothing is recorded or cached.
LEMMA TracedInit == Init => Traced
<1> SUFFICES ASSUME Init PROVE Traced
  OBVIOUS
<1>1. Len(record) = 0
  BY EmptySeq DEF Init
<1>2. AllSound
  BY <1>1 DEF AllSound
<1>3. CacheInv
  BY DEF Init, CacheInv, Synced, CallsMade, CachesHonest, MetadataOwn
<1> QED BY <1>2, <1>3, TypeInit DEF Traced

\* Every step keeps the whole.
LEMMA TracedStep == Traced /\ [Next]_mpVars => Traced'
BY TypeStep, CacheStep, SoundStep DEF Traced

\* Events and metadata land on the timeline of their own node, whatever is
\* cached and whatever fails (open_timeline, currently_open_timeline).
THEOREM OnOwnTimeline == Spec => []OwnTimeline
<1>1. Traced => OwnTimeline
  BY DEF Traced, AllSound, Sound, CacheInv, MetadataOwn, OwnTimeline
<1> QED BY <1>1, TracedInit, TracedStep, PTL DEF Spec

\* The name of a timeline precedes the events that carry it, unless the one
\* attempt failed (send_timeline_metadata, created_timelines).
THEOREM NamedFirst == Spec => []NamedBeforeEvents
<1>1. Traced => NamedBeforeEvents
  BY DEF Traced, AllSound, Sound, NamedBeforeEvents
<1> QED BY <1>1, TracedInit, TracedStep, PTL DEF Spec

\* A publisher's graph id precedes its events, unless the one attempt failed
\* (handle_message, sent_timeline_publisher_metadata).
THEOREM AdvertisedFirst == Spec => []AdvertisedBeforePublish
<1>1. Traced => AdvertisedBeforePublish
  BY DEF Traced, AllSound, Sound, AdvertisedBeforePublish
<1> QED BY <1>1, TracedInit, TracedStep, PTL DEF Spec
=============================================================================
