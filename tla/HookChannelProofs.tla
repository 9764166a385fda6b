------------------------- MODULE HookChannelProofs --------------------------
(***************************************************************************)
(* Proofs about HookChannel, for any number of threads, any set of events  *)
(* and any capacity of the channel: the safety properties the run          *)
(* HookChannelSafety checks, and that every behaviour of the channel is,   *)
(* through the mapping of HookChannel!Log, a behaviour of EventLog.        *)
(***************************************************************************)
EXTENDS HookChannel, SequenceTheorems, TLAPS

\* What a thread knows of PRINTED_ERROR and how often it has printed: the
\* strengthening that makes ReportedOncePerThread inductive.  A thread that
\* has printed is about to store the flag, or can no longer read it as false.
ReportProtocol ==
  \A t \in Threads :
    /\ fullReports[t] <= 1
    /\ t \notin sawPrinted /\ pc[t] # "store" => fullReports[t] = 0
    /\ pc[t] \in {"print", "store"} => t \notin sawPrinted

\* The strengthening of ClosedIsAnnounced: the worker has told why before the
\* receiver goes away.
FailureAnnounced ==
  /\ worker \in {"failing", "terminated"} => saidFailed
  /\ lostClosed # {} => saidFailed

\* An event is accepted at most once because it is offered at most once.
AcceptedWereOffered == \A i \in 1 .. Len(accepted) : accepted[i] \in offered

-----------------------------------------------------------------------------
(* Lemmas on sequences.                                                     *)

\* A sequence of one element.
LEMMA SingletonFacts ==
  ASSUME NEW S, NEW e \in S
  PROVE  <<e>> \in Seq(S) /\ Len(<<e>>) = 1 /\ <<e>>[1] = e
  OBVIOUS

\* A sequence is its head followed by its tail.
LEMMA HeadThenTail ==
  ASSUME NEW S, NEW s \in Seq(S), s # <<>>
  PROVE  s = <<Head(s)>> \o Tail(s)
<1>1. /\ Head(s) \in S /\ Tail(s) \in Seq(S) /\ Len(s) \in Nat \ {0}
      /\ Head(s) = s[1]
      /\ Len(Tail(s)) = Len(s) - 1
      /\ \A i \in 1 .. Len(Tail(s)) : Tail(s)[i] = s[i + 1]
  BY HeadTailProperties, EmptySeq
<1> DEFINE r == <<Head(s)>> \o Tail(s)
<1>2. /\ <<Head(s)>> \in Seq(S) /\ Len(<<Head(s)>>) = 1
      /\ <<Head(s)>>[1] = Head(s)
  BY <1>1, SingletonFacts
<1>3. /\ r \in Seq(S)
      /\ Len(r) = 1 + Len(Tail(s))
      /\ \A i \in 1 .. 1 + Len(Tail(s)) :
            r[i] = IF i <= 1 THEN <<Head(s)>>[i] ELSE Tail(s)[i - 1]
  BY <1>1, <1>2, ConcatProperties
<1>4. Len(s) = Len(r)
  BY <1>1, <1>3
<1>5. \A i \in 1 .. Len(s) : s[i] = r[i]
  <2> SUFFICES ASSUME NEW i \in 1 .. Len(s) PROVE s[i] = r[i]
    OBVIOUS
  <2>1. CASE i = 1
    BY <2>1, <1>1, <1>2, <1>3
  <2>2. CASE i > 1
    <3>1. i - 1 \in 1 .. Len(Tail(s)) /\ (i - 1) + 1 = i
      BY <2>2, <1>1
    <3>2. Tail(s)[i - 1] = s[(i - 1) + 1]
      BY <3>1, <1>1
    <3>3. r[i] = Tail(s)[i - 1]
      BY <2>2, <1>1, <1>3
    <3> QED BY <3>1, <3>2, <3>3
  <2> QED BY <2>1, <2>2, <1>1
<1> HIDE DEF r
<1> QED BY <1>3, <1>4, <1>5, SeqEqual DEF r

\* While it handles, the worker holds exactly one event.
LEMMA OneInHand ==
  ASSUME TypeOK, worker = "handling"
  PROVE  inHand[1] \in Events /\ inHand = <<inHand[1]>>
<1>1. inHand \in Seq(Events) /\ Len(inHand) = 1
  BY DEF TypeOK
<1>2. 1 \in 1 .. Len(inHand)
  BY <1>1
<1>3. inHand[1] \in Events
  BY <1>1, <1>2, ElementOfSeq
<1> QED BY <1>1, <1>3, SingletonFacts, SeqEqual

-----------------------------------------------------------------------------
(* Type correctness.                                                        *)

\* Every step of the channel keeps TypeOK, the capacity bound included.
LEMMA TypeStep == TypeOK /\ [Next]_chanVars => TypeOK'
<1> SUFFICES ASSUME TypeOK, [Next]_chanVars PROVE TypeOK'
  OBVIOUS
<1>1. ASSUME NEW t \in Threads, NEW e \in Events, SendAccepted(t, e)
      PROVE  TypeOK'
  <2>1. queue' \in Seq(Events) /\ Len(queue') = Len(queue) + 1
    BY <1>1, AppendProperties DEF SendAccepted, TypeOK
  <2>2. Len(queue') <= BufferSize
    BY <1>1, <2>1, BufferSizeAssumption, LenProperties
       DEF SendAccepted, HasRoom, TypeOK
  <2>3. accepted' \in Seq(Events)
    BY <1>1, AppendProperties DEF SendAccepted, TypeOK
  <2> QED
    BY <1>1, <2>1, <2>2, <2>3 DEF SendAccepted, Offer, TypeOK
<1>2. ASSUME NEW t \in Threads, NEW e \in Events, SendFull(t, e)
      PROVE  TypeOK'
  BY <1>2 DEF SendFull, Offer, TypeOK, SendStates
<1>3. ASSUME NEW t \in Threads, NEW e \in Events, SendClosed(t, e)
      PROVE  TypeOK'
  BY <1>3 DEF SendClosed, Offer, TypeOK
<1>4. ASSUME NEW t \in Threads, LoadPrinted(t) PROVE TypeOK'
  BY <1>4 DEF LoadPrinted, TypeOK, SendStates
<1>5. ASSUME NEW t \in Threads, PrintFull(t) PROVE TypeOK'
  BY <1>5 DEF PrintFull, TypeOK, SendStates
<1>6. ASSUME NEW t \in Threads, StorePrinted(t) PROVE TypeOK'
  BY <1>6 DEF StorePrinted, TypeOK, SendStates
<1>7. CASE SenderNew
  BY <1>7 DEF SenderNew, TypeOK, WorkerStates
<1>8. CASE Connected
  BY <1>8 DEF Connected, TypeOK, WorkerStates
<1>9. CASE InitFailed
  BY <1>9 DEF InitFailed, TypeOK, WorkerStates
<1>10. CASE DropReceiver
  <2>1. queue' \in Seq(Events) /\ Len(queue') <= BufferSize
    BY <1>10, EmptySeq, BufferSizeAssumption DEF DropReceiver
  <2> QED BY <1>10, <2>1 DEF DropReceiver, TypeOK, WorkerStates
<1>11. CASE Receive
  <2>1. queue \in Seq(Events) /\ queue # <<>>
    BY <1>11 DEF Receive, TypeOK
  <2>2. /\ Head(queue) \in Events
        /\ Tail(queue) \in Seq(Events)
        /\ Len(Tail(queue)) = Len(queue) - 1
    BY <2>1, HeadTailProperties
  <2>3. inHand' \in Seq(Events) /\ Len(inHand') = 1
    BY <1>11, <2>2, SingletonFacts DEF Receive
  <2>4. queue' \in Seq(Events) /\ Len(queue') <= BufferSize
    BY <1>11, <2>1, <2>2, BufferSizeAssumption, LenProperties
       DEF Receive, TypeOK
  <2> QED BY <1>11, <2>3, <2>4 DEF Receive, TypeOK, WorkerStates
<1>12. CASE HandlerReturned
  <2>1. inHand[1] \in Events
    BY <1>12, OneInHand DEF HandlerReturned
  <2>2. handled' \in Seq(Events)
    BY <1>12, <2>1, AppendProperties DEF HandlerReturned, TypeOK
  <2>3. inHand' \in Seq(Events) /\ Len(inHand') = 0
    BY <1>12, EmptySeq DEF HandlerReturned
  <2> QED BY <1>12, <2>2, <2>3 DEF HandlerReturned, TypeOK, WorkerStates
<1>13. CASE Exit
  BY <1>13 DEF Exit, TypeOK
<1>14. CASE UNCHANGED chanVars
  BY <1>14 DEF chanVars, TypeOK
<1> QED
  BY <1>1, <1>2, <1>3, <1>4, <1>5, <1>6, <1>7, <1>8, <1>9, <1>10, <1>11,
     <1>12, <1>13, <1>14 DEF Next

\* Type correctness: in particular the channel never holds more than
\* MODALITY_ROS_BUFFER_SIZE events, and the worker has exactly one event in
\* hand while it handles one.
THEOREM TypeCorrect == Spec => []TypeOK
<1>1. Init => TypeOK
  <2>1. <<>> \in Seq(Events) /\ Len(<<>>) = 0 /\ 0 <= BufferSize
    BY EmptySeq, BufferSizeAssumption
  <2> SUFFICES ASSUME Init PROVE TypeOK
    OBVIOUS
  <2>2. /\ queue \in Seq(Events) /\ Len(queue) <= BufferSize
        /\ inHand \in Seq(Events) /\ Len(inHand) = 0
        /\ accepted \in Seq(Events) /\ handled \in Seq(Events)
    BY <2>1 DEF Init
  <2>3. worker = "unspawned" /\ worker \in WorkerStates
    BY DEF Init, WorkerStates
  <2>4. /\ pc \in [Threads -> SendStates]
        /\ fullReports \in [Threads -> Nat]
    BY DEF Init, SendStates
  <2>5. /\ printedError \in BOOLEAN /\ exited \in BOOLEAN
        /\ saidFailed \in BOOLEAN
    BY DEF Init
  <2>6. /\ sawPrinted \in SUBSET Threads
        /\ offered \in SUBSET Events
        /\ lostFull \in SUBSET Events /\ lostClosed \in SUBSET Events
    BY DEF Init
  <2> QED BY <2>2, <2>3, <2>4, <2>5, <2>6 DEF TypeOK
<1> QED BY <1>1, TypeStep, PTL DEF Spec

-----------------------------------------------------------------------------
(* The order of accepted events.                                            *)

\* No step loses, repeats or reorders an accepted event while the receiver
\* lives.
LEMMA OrderStep ==
  TypeOK /\ AcceptedInOrder /\ [Next]_chanVars => AcceptedInOrder'
<1> SUFFICES ASSUME TypeOK, AcceptedInOrder, [Next]_chanVars,
                    worker' # "terminated"
             PROVE  accepted' = (handled' \o inHand') \o queue'
  BY DEF AcceptedInOrder
<1>1. /\ handled \in Seq(Events) /\ inHand \in Seq(Events)
      /\ queue \in Seq(Events)
  BY DEF TypeOK
<1>2. worker # "terminated" => accepted = (handled \o inHand) \o queue
  BY DEF AcceptedInOrder
<1>3. ASSUME NEW t \in Threads, NEW e \in Events, SendAccepted(t, e)
      PROVE  accepted' = (handled' \o inHand') \o queue'
  <2>1. /\ accepted' = Append(accepted, e) /\ queue' = Append(queue, e)
        /\ UNCHANGED <<handled, inHand>> /\ worker # "terminated"
    BY <1>3 DEF SendAccepted
  <2>2. /\ Append(queue, e) = queue \o <<e>>
        /\ Append(accepted, e) = accepted \o <<e>>
        /\ <<e>> \in Seq(Events)
    BY <1>1, AppendIsConcat, SingletonFacts DEF TypeOK
  <2>3. handled \o inHand \in Seq(Events)
    BY <1>1, ConcatProperties
  <2>4. ((handled \o inHand) \o queue) \o <<e>>
          = (handled \o inHand) \o (queue \o <<e>>)
    BY <1>1, <2>2, <2>3, ConcatAssociative
  <2> QED BY <1>2, <2>1, <2>2, <2>4
<1>4. CASE Receive
  <2>1. /\ inHand' = <<Head(queue)>> /\ queue' = Tail(queue) /\ queue # <<>>
        /\ UNCHANGED <<handled, accepted>> /\ worker = "receiving"
    BY <1>4 DEF Receive
  <2>2. inHand = <<>>
    BY <1>1, <2>1, EmptySeq DEF TypeOK
  <2>3. handled \o inHand = handled
    BY <1>1, <2>2, ConcatEmptySeq
  <2>4. /\ <<Head(queue)>> \in Seq(Events)
        /\ Tail(queue) \in Seq(Events)
    BY <1>1, <2>1, HeadTailProperties, SingletonFacts
  <2>5. queue = <<Head(queue)>> \o Tail(queue)
    BY <1>1, <2>1, HeadThenTail
  <2>6. (handled \o <<Head(queue)>>) \o Tail(queue)
          = handled \o (<<Head(queue)>> \o Tail(queue))
    BY <1>1, <2>4, ConcatAssociative
  <2> QED BY <1>2, <2>1, <2>3, <2>5, <2>6
<1>5. CASE HandlerReturned
  <2>1. /\ handled' = Append(handled, inHand[1]) /\ inHand' = <<>>
        /\ UNCHANGED <<queue, accepted>> /\ worker = "handling"
    BY <1>5 DEF HandlerReturned
  <2>2. inHand[1] \in Events
    BY <2>1, OneInHand
  <2>3. inHand = <<inHand[1]>>
    BY <2>1, OneInHand
  <2>4. Append(handled, inHand[1]) = handled \o inHand
    BY <1>1, <2>2, <2>3, AppendIsConcat
  <2>5. handled' \o inHand' = handled'
    BY <1>1, <2>1, <2>2, AppendProperties, ConcatEmptySeq
  <2> QED BY <1>2, <2>1, <2>4, <2>5
<1>6. CASE DropReceiver
  BY <1>6 DEF DropReceiver
<1>7. ASSUME UNCHANGED <<accepted, handled, inHand, queue>>,
             worker # "terminated"
      PROVE  accepted' = (handled' \o inHand') \o queue'
  BY <1>7, <1>2
<1>8. ASSUME NEW t \in Threads, NEW e \in Events,
             SendFull(t, e) \/ SendClosed(t, e)
      PROVE  accepted' = (handled' \o inHand') \o queue'
  BY <1>8, <1>7 DEF SendFull, SendClosed
<1>9. ASSUME NEW t \in Threads,
             LoadPrinted(t) \/ PrintFull(t) \/ StorePrinted(t)
      PROVE  accepted' = (handled' \o inHand') \o queue'
  BY <1>9, <1>7 DEF LoadPrinted, PrintFull, StorePrinted
<1>10. CASE SenderNew \/ Connected \/ InitFailed \/ Exit \/ UNCHANGED chanVars
  BY <1>10, <1>7 DEF SenderNew, Connected, InitFailed, Exit, chanVars
<1> QED
  BY <1>3, <1>4, <1>5, <1>6, <1>8, <1>9, <1>10 DEF Next

\* While the receiver lives, what the hooks put in the channel is what the
\* worker handled, holds and has still to receive, in that order.
THEOREM Conserved == Spec => []AcceptedInOrder
<1>1. Init => AcceptedInOrder
  <2>1. <<>> = (<<>> \o <<>>) \o <<>>
    BY EmptySeq, ConcatEmptySeq
  <2> QED BY <2>1 DEF Init, AcceptedInOrder
<1> QED BY <1>1, OrderStep, TypeCorrect, PTL DEF Spec

-----------------------------------------------------------------------------
(* What is printed.                                                         *)

\* The one-warning protocol of a thread is kept by its own steps, and no
\* other step touches what it depends on.
LEMMA ReportStep ==
  TypeOK /\ ReportProtocol /\ [Next]_chanVars => ReportProtocol'
<1> SUFFICES ASSUME TypeOK, ReportProtocol, [Next]_chanVars,
                    NEW u \in Threads
             PROVE  /\ fullReports'[u] <= 1
                    /\ u \notin sawPrinted' /\ pc'[u] # "store"
                          => fullReports'[u] = 0
                    /\ pc'[u] \in {"print", "store"} => u \notin sawPrinted'
  BY DEF ReportProtocol
<1> DEFINE Goal == /\ fullReports'[u] <= 1
                   /\ u \notin sawPrinted' /\ pc'[u] # "store"
                         => fullReports'[u] = 0
                   /\ pc'[u] \in {"print", "store"} => u \notin sawPrinted'
<1>1. /\ fullReports[u] <= 1 /\ fullReports[u] \in Nat
      /\ u \notin sawPrinted /\ pc[u] # "store" => fullReports[u] = 0
      /\ pc[u] \in {"print", "store"} => u \notin sawPrinted
      /\ pc[u] \in SendStates
  BY DEF ReportProtocol, TypeOK
<1>2. /\ pc \in [Threads -> SendStates]
      /\ fullReports \in [Threads -> Nat]
  BY DEF TypeOK
<1>3. ASSUME NEW t \in Threads, NEW e \in Events, SendFull(t, e) PROVE Goal
  <2>1. /\ pc' = [pc EXCEPT ![t] = "load"] /\ pc[t] = "idle"
        /\ UNCHANGED <<fullReports, sawPrinted>>
    BY <1>3 DEF SendFull, Offer
  <2> QED BY <2>1, <1>1, <1>2
<1>4. ASSUME NEW t \in Threads, LoadPrinted(t) PROVE Goal
  <2>1. /\ pc[t] = "load" /\ UNCHANGED fullReports
        /\ \/ /\ pc' = [pc EXCEPT ![t] = "idle"]
              /\ sawPrinted' = sawPrinted \cup {t}
           \/ /\ t \notin sawPrinted
              /\ pc' = [pc EXCEPT ![t] = "print"]
              /\ UNCHANGED sawPrinted
    BY <1>4 DEF LoadPrinted
  <2> QED BY <2>1, <1>1, <1>2
<1>5. ASSUME NEW t \in Threads, PrintFull(t) PROVE Goal
  <2>1. /\ pc[t] = "print" /\ UNCHANGED sawPrinted
        /\ fullReports' = [fullReports EXCEPT ![t] = @ + 1]
        /\ pc' = [pc EXCEPT ![t] = "store"]
    BY <1>5 DEF PrintFull
  <2> QED BY <2>1, <1>1, <1>2
<1>6. ASSUME NEW t \in Threads, StorePrinted(t) PROVE Goal
  <2>1. /\ pc[t] = "store" /\ UNCHANGED fullReports
        /\ sawPrinted' = sawPrinted \cup {t}
        /\ pc' = [pc EXCEPT ![t] = "idle"]
    BY <1>6 DEF StorePrinted
  <2> QED BY <2>1, <1>1, <1>2
<1>7. ASSUME UNCHANGED <<pc, sawPrinted, fullReports>> PROVE Goal
  BY <1>7, <1>1
<1>8. ASSUME NEW t \in Threads, NEW e \in Events,
             SendAccepted(t, e) \/ SendClosed(t, e)
      PROVE  Goal
  BY <1>8, <1>7 DEF SendAccepted, SendClosed
<1>9. CASE \/ SenderNew \/ Connected \/ InitFailed \/ DropReceiver \/ Receive
           \/ HandlerReturned \/ Exit \/ UNCHANGED chanVars
  BY <1>9, <1>7 DEF SenderNew, Connected, InitFailed, DropReceiver, Receive,
                    HandlerReturned, Exit, chanVars
<1> QED BY <1>3, <1>4, <1>5, <1>6, <1>8, <1>9 DEF Next

\* However the threads race on the relaxed PRINTED_ERROR flag, none of them
\* prints the capacity warning twice.
THEOREM WarnedOnce == Spec => []ReportedOncePerThread
<1>1. Init => ReportProtocol
  <2> SUFFICES ASSUME Init, NEW t \in Threads
               PROVE  /\ fullReports[t] <= 1 /\ fullReports[t] = 0
                      /\ pc[t] \notin {"print", "store"}
    BY DEF ReportProtocol
  <2>1. fullReports[t] = 0 /\ pc[t] = "idle"
    BY DEF Init
  <2> QED BY <2>1
<1>2. ReportProtocol => ReportedOncePerThread
  BY DEF ReportProtocol, ReportedOncePerThread
<1> QED BY <1>1, <1>2, ReportStep, TypeCorrect, PTL DEF Spec

\* The failure is told before the receiver is dropped, and it stays told.
LEMMA AnnouncedStep ==
  FailureAnnounced /\ [Next]_chanVars => FailureAnnounced'
<1> SUFFICES ASSUME FailureAnnounced, [Next]_chanVars PROVE FailureAnnounced'
  OBVIOUS
<1>1. CASE InitFailed
  BY <1>1 DEF InitFailed, FailureAnnounced
<1>2. CASE DropReceiver
  BY <1>2 DEF DropReceiver, FailureAnnounced
<1>3. ASSUME NEW t \in Threads, NEW e \in Events, SendClosed(t, e)
      PROVE  FailureAnnounced'
  BY <1>3 DEF SendClosed, FailureAnnounced
<1>4. CASE SenderNew \/ Connected \/ Receive \/ HandlerReturned
  BY <1>4 DEF SenderNew, Connected, Receive, HandlerReturned, FailureAnnounced
<1>5. ASSUME UNCHANGED <<worker, lostClosed, saidFailed>>
      PROVE  FailureAnnounced'
  BY <1>5 DEF FailureAnnounced
<1>6. ASSUME NEW t \in Threads, NEW e \in Events,
             SendAccepted(t, e) \/ SendFull(t, e)
      PROVE  FailureAnnounced'
  BY <1>6, <1>5 DEF SendAccepted, SendFull
<1>7. ASSUME NEW t \in Threads,
             LoadPrinted(t) \/ PrintFull(t) \/ StorePrinted(t)
      PROVE  FailureAnnounced'
  BY <1>7, <1>5 DEF LoadPrinted, PrintFull, StorePrinted
<1>8. CASE Exit \/ UNCHANGED chanVars
  BY <1>8, <1>5 DEF Exit, chanVars
<1> QED BY <1>1, <1>2, <1>3, <1>4, <1>6, <1>7, <1>8 DEF Next

\* No event is lost to a closed channel before the worker has printed why.
THEOREM Announced == Spec => []ClosedIsAnnounced
<1>1. Init => FailureAnnounced
  BY DEF Init, FailureAnnounced
<1>2. FailureAnnounced => ClosedIsAnnounced
  BY DEF FailureAnnounced, ClosedIsAnnounced
<1> QED BY <1>1, <1>2, AnnouncedStep, PTL DEF Spec

-----------------------------------------------------------------------------
(* The channel is a log.                                                    *)

\* Only offered events are accepted.
LEMMA OfferedStep ==
  TypeOK /\ AcceptedWereOffered /\ [Next]_chanVars => AcceptedWereOffered'
<1> SUFFICES ASSUME TypeOK, AcceptedWereOffered, [Next]_chanVars
             PROVE  AcceptedWereOffered'
  OBVIOUS
<1>1. ASSUME NEW t \in Threads, NEW e \in Events, SendAccepted(t, e)
      PROVE  AcceptedWereOffered'
  <2>1. /\ accepted \in Seq(Events)
        /\ accepted' = Append(accepted, e)
        /\ offered' = offered \cup {e}
    BY <1>1 DEF SendAccepted, Offer, TypeOK
  <2>2. /\ Len(accepted') = Len(accepted) + 1
        /\ accepted'[Len(accepted) + 1] = e
        /\ \A i \in 1 .. Len(accepted) : accepted'[i] = accepted[i]
    BY <2>1, AppendProperties
  <2>3. Len(accepted) \in Nat
    BY <2>1, LenProperties
  <2> QED BY <2>1, <2>2, <2>3 DEF AcceptedWereOffered
<1>2. ASSUME offered \subseteq offered', UNCHANGED accepted
      PROVE  AcceptedWereOffered'
  BY <1>2 DEF AcceptedWereOffered
<1>3. ASSUME NEW t \in Threads, NEW e \in Events,
             SendFull(t, e) \/ SendClosed(t, e)
      PROVE  AcceptedWereOffered'
  BY <1>3, <1>2 DEF SendFull, SendClosed, Offer
<1>4. ASSUME NEW t \in Threads,
             LoadPrinted(t) \/ PrintFull(t) \/ StorePrinted(t)
      PROVE  AcceptedWereOffered'
  BY <1>4, <1>2 DEF LoadPrinted, PrintFull, StorePrinted
<1>5. CASE \/ SenderNew \/ Connected \/ InitFailed \/ DropReceiver \/ Receive
           \/ HandlerReturned \/ Exit \/ UNCHANGED chanVars
  BY <1>5, <1>2 DEF SenderNew, Connected, InitFailed, DropReceiver, Receive,
                    HandlerReturned, Exit, chanVars
<1> QED BY <1>1, <1>3, <1>4, <1>5 DEF Next

\* Acceptance of a fresh event with room in the channel is acceptance by the
\* abstract log.
LEMMA AcceptRefines ==
  ASSUME TypeOK, AcceptedInOrder, AcceptedWereOffered,
         NEW t \in Threads, NEW e \in Events, SendAccepted(t, e)
  PROVE  Log!Accept(e)
<1>1. /\ ~exited /\ UNCHANGED exited /\ UNCHANGED <<worker, handled>>
      /\ worker # "terminated" /\ e \notin offered
      /\ Len(queue) < BufferSize /\ accepted' = Append(accepted, e)
  BY DEF SendAccepted, Offer, HasRoom
<1>2. /\ handled \in Seq(Events) /\ inHand \in Seq(Events)
      /\ queue \in Seq(Events)
  BY DEF TypeOK
<1>3. accepted = (handled \o inHand) \o queue
  BY <1>1 DEF AcceptedInOrder
<1>4. /\ handled \o inHand \in Seq(Events)
      /\ Len(handled \o inHand) = Len(handled) + Len(inHand)
  BY <1>2, ConcatProperties
<1>5. Len(accepted) = (Len(handled) + Len(inHand)) + Len(queue)
  BY <1>2, <1>3, <1>4, ConcatProperties
<1>6. Len(inHand) \in Nat /\ Len(inHand) <= 1
  BY <1>2, LenProperties DEF TypeOK
<1>7. Len(accepted) - Len(handled) < BufferSize + 1
  <2>1. /\ Len(handled) \in Nat /\ Len(queue) \in Nat
        /\ BufferSize \in Nat
    BY <1>2, LenProperties, BufferSizeAssumption
  <2>2. Len(queue) < BufferSize
    BY <1>1
  <2> QED BY <1>5, <1>6, <2>1, <2>2
<1>8. \A i \in 1 .. Len(accepted) : accepted[i] # e
  BY <1>1 DEF AcceptedWereOffered
<1> QED BY <1>1, <1>7, <1>8 DEF Log!Accept

\* The return of a handler is the delivery of the oldest waiting event.
LEMMA DeliverRefines ==
  ASSUME TypeOK, AcceptedInOrder, HandlerReturned
  PROVE  Log!Deliver
<1>1. /\ ~exited /\ UNCHANGED <<exited, accepted>>
      /\ worker = "handling" /\ worker' = "receiving"
      /\ handled' = Append(handled, inHand[1])
  BY DEF HandlerReturned
<1>2. /\ handled \in Seq(Events) /\ inHand \in Seq(Events)
      /\ queue \in Seq(Events) /\ Len(inHand) = 1
  BY <1>1 DEF TypeOK
<1>3. accepted = (handled \o inHand) \o queue
  BY <1>1 DEF AcceptedInOrder
<1>4. /\ handled \o inHand \in Seq(Events)
      /\ Len(handled \o inHand) = Len(handled) + 1
      /\ (handled \o inHand)[Len(handled) + 1] = inHand[1]
  <2>1. /\ handled \o inHand \in Seq(Events)
        /\ Len(handled \o inHand) = Len(handled) + Len(inHand)
        /\ \A i \in 1 .. Len(handled) + Len(inHand) :
              (handled \o inHand)[i] = IF i <= Len(handled)
                                       THEN handled[i]
                                       ELSE inHand[i - Len(handled)]
    BY <1>2, ConcatProperties
  <2>2. /\ Len(handled) \in Nat
        /\ Len(handled) + 1 \in 1 .. Len(handled) + Len(inHand)
        /\ ~(Len(handled) + 1 <= Len(handled))
        /\ (Len(handled) + 1) - Len(handled) = 1
    BY <1>2, LenProperties
  <2> QED BY <2>1, <2>2, <1>2
<1>5. /\ Len(accepted) = (Len(handled) + 1) + Len(queue)
      /\ accepted[Len(handled) + 1] = inHand[1]
  <2>1. /\ Len(accepted) = Len(handled \o inHand) + Len(queue)
        /\ \A i \in 1 .. Len(handled \o inHand) + Len(queue) :
              accepted[i] = IF i <= Len(handled \o inHand)
                            THEN (handled \o inHand)[i]
                            ELSE queue[i - Len(handled \o inHand)]
    BY <1>2, <1>3, <1>4, ConcatProperties
  <2>2. /\ Len(handled) \in Nat /\ Len(queue) \in Nat
        /\ Len(handled) + 1 \in 1 .. (Len(handled) + 1) + Len(queue)
        /\ Len(handled) + 1 <= Len(handled) + 1
    BY <1>2, LenProperties
  <2> QED BY <2>1, <2>2, <1>4
<1>6. Len(handled) < Len(accepted)
  BY <1>2, <1>5, LenProperties
<1> QED BY <1>1, <1>5, <1>6 DEF Log!Deliver

\* Every step of the channel is a step of the log or leaves the log alone.
LEMMA StepRefines ==
  ASSUME TypeOK, AcceptedInOrder, AcceptedWereOffered, [Next]_chanVars
  PROVE  [Log!Next]_(Log!logVars)
<1> DEFINE Stutter == UNCHANGED <<accepted, handled,
                                  worker # "terminated" /\ ~exited>>
<1>1. ASSUME NEW t \in Threads, NEW e \in Events, SendAccepted(t, e)
      PROVE  Log!Next
  BY <1>1, AcceptRefines DEF Log!Next
<1>2. CASE HandlerReturned
  BY <1>2, DeliverRefines DEF Log!Next
<1>3. CASE DropReceiver
  <2>1. Log!Close
    BY <1>3 DEF DropReceiver, Log!Close
  <2> QED BY <2>1 DEF Log!Next
<1>4. CASE Exit
  <2>1. CASE worker = "terminated"
    <3>1. Stutter
      BY <1>4, <2>1 DEF Exit
    <3> QED BY <3>1 DEF Log!logVars
  <2>2. CASE worker # "terminated"
    <3>1. Log!Close
      BY <1>4, <2>2 DEF Exit, Log!Close
    <3> QED BY <3>1 DEF Log!Next
  <2> QED BY <2>1, <2>2
<1>5. ASSUME NEW t \in Threads, NEW e \in Events,
             SendFull(t, e) \/ SendClosed(t, e)
      PROVE  Stutter
  BY <1>5 DEF SendFull, SendClosed
<1>6. ASSUME NEW t \in Threads,
             LoadPrinted(t) \/ PrintFull(t) \/ StorePrinted(t)
      PROVE  Stutter
  BY <1>6 DEF LoadPrinted, PrintFull, StorePrinted
<1>7. CASE SenderNew \/ Connected \/ InitFailed \/ Receive
  <2>1. Stutter
    BY <1>7 DEF SenderNew, Connected, InitFailed, Receive
  <2> QED BY <2>1 DEF Log!logVars
<1>8. CASE UNCHANGED chanVars
  <2>1. Stutter
    BY <1>8 DEF chanVars
  <2> QED BY <2>1 DEF Log!logVars
<1> QED
  BY <1>1, <1>2, <1>3, <1>4, <1>5, <1>6, <1>7, <1>8 DEF Next, Log!logVars

\* The bounded channel with its senders and its worker implements the abstract
\* event log whose readers may lag by the capacity and one event.
THEOREM ChannelIsLog == Spec => ImplementsLog
<1>1. Init => Log!Init
  BY DEF Init, Log!Init
<1>2. Init => AcceptedWereOffered
  BY DEF Init, AcceptedWereOffered
<1>3. Spec => []AcceptedWereOffered
  BY <1>2, OfferedStep, TypeCorrect, PTL DEF Spec
<1>4. TypeOK /\ AcceptedInOrder /\ AcceptedWereOffered /\ [Next]_chanVars
        => [Log!Next]_(Log!logVars)
  BY StepRefines
<1> QED
  BY <1>1, <1>3, <1>4, TypeCorrect, Conserved, PTL
     DEF Spec, ImplementsLog, Log!Spec
=============================================================================
