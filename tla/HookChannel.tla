---------------------------- MODULE HookChannel -----------------------------
(***************************************************************************)
(* The path from the hook functions to the background worker:             *)
(* hooks.rs `Sender` (the SEND_CH static) and message_processor.rs         *)
(* `message_loop`.                                                         *)
(*                                                                         *)
(* Application threads call `send`, which never blocks: it puts the event  *)
(* in a bounded tokio mpsc channel, or drops it when the channel is full   *)
(* or closed.  One worker thread, spawned by the first use of SEND_CH,     *)
(* connects to the backend for up to the configured timeout and then       *)
(* handles the events one at a time.  Nothing joins the worker or flushes  *)
(* the channel when the process exits.                                     *)
(*                                                                         *)
(* tokio's try_send and recv are taken as atomic (they are linearisable);  *)
(* a permit is given back when the event leaves the channel, so the event  *)
(* being handled no longer occupies a slot.                                *)
(***************************************************************************)
EXTENDS Naturals, Sequences

CONSTANTS
  Threads,     \* application threads that run hooks
  Events,      \* distinct events the hooks may send
  BufferSize   \* MODALITY_ROS_BUFFER_SIZE

\* tokio refuses to build a channel without capacity (it panics).
ASSUME BufferSizeAssumption == BufferSize \in Nat \ {0}

VARIABLES
  queue,          \* the tokio channel, oldest event first
  worker,         \* where the worker thread is, see WorkerStates
  inHand,         \* the event being handled, as a sequence of length 0 or 1
  pc,             \* per thread: where it is inside Sender::send
  printedError,   \* PRINTED_ERROR
  sawPrinted,     \* threads that can no longer read PRINTED_ERROR as false
  exited,         \* the host process has exited
  \* History: what happened to the events, and what was printed.
  offered,        \* events that some thread has passed to send
  accepted,       \* events try_send put in the channel, in that order
  handled,        \* events the worker has finished with, in that order
  lostFull,       \* events dropped because the channel was full
  lostClosed,     \* events dropped because the receiver was gone
  fullReports,    \* per thread: how often it printed "reached capacity"
  saidFailed      \* the worker has printed why it cannot work

chanVars == <<queue, worker, inHand, pc, printedError, sawPrinted, exited,
              offered, accepted, handled, lostFull, lostClosed, fullReports,
              saidFailed>>

WorkerStates ==
  {"unspawned",    \* SEND_CH has not been touched yet
   "connecting",   \* MessageProcessor::new
   "receiving",    \* waiting in rx.recv()
   "handling",     \* inside one of the handle_ functions
   "failing",      \* initialisation failed, rx still alive
   "terminated"}   \* rx dropped: the channel is closed

SendStates == {"idle", "load", "print", "store"}

Init ==
  /\ queue = <<>>
  /\ worker = "unspawned"
  /\ inHand = <<>>
  /\ pc = [t \in Threads |-> "idle"]
  /\ printedError = FALSE
  /\ sawPrinted = {}
  /\ exited = FALSE
  /\ offered = {}
  /\ accepted = <<>>
  /\ handled = <<>>
  /\ lostFull = {}
  /\ lostClosed = {}
  /\ fullReports = [t \in Threads |-> 0]
  /\ saidFailed = FALSE

-----------------------------------------------------------------------------
(* Application threads.                                                     *)

\* The first dereference of SEND_CH builds the channel and spawns the worker;
\* lazy_static makes every other thread wait for it.
SenderNew ==
  /\ ~exited
  /\ worker = "unspawned"
  /\ worker' = "connecting"
  /\ UNCHANGED <<queue, inHand, pc, printedError, sawPrinted, exited, offered,
                 accepted, handled, lostFull, lostClosed, fullReports,
                 saidFailed>>

\* Mutated capacity check: one event too many gets in.
HasRoomOffByOne == Len(queue) <= BufferSize

\* The channel has a permit left.
HasRoom == Len(queue) < BufferSize

\* Thread t calls send(e); e is a new occurrence.
Offer(t, e) ==
  /\ ~exited
  /\ worker # "unspawned"
  /\ pc[t] = "idle"
  /\ e \notin offered
  /\ offered' = offered \cup {e}

\* try_send: Ok(())
SendAccepted(t, e) ==
  /\ Offer(t, e)
  /\ worker # "terminated"
  /\ HasRoom
  /\ queue' = Append(queue, e)
  /\ accepted' = Append(accepted, e)
  /\ UNCHANGED <<worker, inHand, pc, printedError, sawPrinted, exited, handled,
                 lostFull, lostClosed, fullReports, saidFailed>>

\* Mutated send: a full channel makes room by dropping its oldest event.
SendFullEvicts(t, e) ==
  /\ Offer(t, e)
  /\ worker # "terminated"
  /\ ~HasRoom
  /\ queue' = Append(Tail(queue), e)
  /\ accepted' = Append(accepted, e)
  /\ lostFull' = lostFull \cup {Head(queue)}
  /\ pc' = [pc EXCEPT ![t] = "load"]
  /\ UNCHANGED <<worker, inHand, printedError, sawPrinted, exited, handled,
                 lostClosed, fullReports, saidFailed>>

\* Mutated send: a full channel is ignored like a closed one.
SendFullSilent(t, e) ==
  /\ Offer(t, e)
  /\ worker # "terminated"
  /\ ~HasRoom
  /\ lostFull' = lostFull \cup {e}
  /\ UNCHANGED <<queue, worker, inHand, pc, printedError, sawPrinted, exited,
                 accepted, handled, lostClosed, fullReports, saidFailed>>

\* try_send: Err(Full(_)); the event is gone and the thread goes on to report.
SendFull(t, e) ==
  /\ Offer(t, e)
  /\ worker # "terminated"
  /\ ~HasRoom
  /\ lostFull' = lostFull \cup {e}
  /\ pc' = [pc EXCEPT ![t] = "load"]
  /\ UNCHANGED <<queue, worker, inHand, printedError, sawPrinted, exited,
                 accepted, handled, lostClosed, fullReports, saidFailed>>

\* try_send: Err(Closed(_)) is ignored.
SendClosed(t, e) ==
  /\ Offer(t, e)
  /\ worker = "terminated"
  /\ lostClosed' = lostClosed \cup {e}
  /\ UNCHANGED <<queue, worker, inHand, pc, printedError, sawPrinted, exited,
                 accepted, handled, lostFull, fullReports, saidFailed>>

\* PRINTED_ERROR.load(Relaxed).  A relaxed load may still miss a store made by
\* another thread, but never one the same thread has made or already seen.
LoadPrinted(t) ==
  /\ ~exited
  /\ pc[t] = "load"
  /\ \/ /\ printedError
        /\ pc' = [pc EXCEPT ![t] = "idle"]
        /\ sawPrinted' = sawPrinted \cup {t}
     \/ /\ t \notin sawPrinted
        /\ pc' = [pc EXCEPT ![t] = "print"]
        /\ UNCHANGED sawPrinted
  /\ UNCHANGED <<queue, worker, inHand, printedError, exited, offered, accepted,
                 handled, lostFull, lostClosed, fullReports, saidFailed>>

\* The two eprintln! calls.
PrintFull(t) ==
  /\ ~exited
  /\ pc[t] = "print"
  /\ fullReports' = [fullReports EXCEPT ![t] = @ + 1]
  /\ pc' = [pc EXCEPT ![t] = "store"]
  /\ UNCHANGED <<queue, worker, inHand, printedError, sawPrinted, exited,
                 offered, accepted, handled, lostFull, lostClosed, saidFailed>>

\* Mutated send: the flag is never stored.
StorePrintedForgotten(t) ==
  /\ ~exited
  /\ pc[t] = "store"
  /\ pc' = [pc EXCEPT ![t] = "idle"]
  /\ UNCHANGED <<queue, worker, inHand, printedError, sawPrinted, exited,
                 offered, accepted, handled, lostFull, lostClosed, fullReports,
                 saidFailed>>

\* PRINTED_ERROR.store(true, Relaxed)
StorePrinted(t) ==
  /\ ~exited
  /\ pc[t] = "store"
  /\ printedError' = TRUE
  /\ sawPrinted' = sawPrinted \cup {t}
  /\ pc' = [pc EXCEPT ![t] = "idle"]
  /\ UNCHANGED <<queue, worker, inHand, exited, offered, accepted, handled,
                 lostFull, lostClosed, fullReports, saidFailed>>

-----------------------------------------------------------------------------
(* The worker thread.                                                       *)

\* MessageProcessor::new() returned a processor.
Connected ==
  /\ ~exited
  /\ worker = "connecting"
  /\ worker' = "receiving"
  /\ UNCHANGED <<queue, inHand, pc, printedError, sawPrinted, exited, offered,
                 accepted, handled, lostFull, lostClosed, fullReports,
                 saidFailed>>

\* Mutated worker: it gives up without a word.
InitFailedSilent ==
  /\ ~exited
  /\ worker = "connecting"
  /\ worker' = "failing"
  /\ UNCHANGED <<queue, inHand, pc, printedError, sawPrinted, exited, offered,
                 accepted, handled, lostFull, lostClosed, fullReports,
                 saidFailed>>

\* The tokio runtime could not be built, or the connection failed or timed
\* out: the reason is printed while rx is still alive.
InitFailed ==
  /\ ~exited
  /\ worker = "connecting"
  /\ worker' = "failing"
  /\ saidFailed' = TRUE
  /\ UNCHANGED <<queue, inHand, pc, printedError, sawPrinted, exited, offered,
                 accepted, handled, lostFull, lostClosed, fullReports>>

\* Mutated worker: a failed worker keeps rx while events are queued.
DropReceiverDrained ==
  /\ ~exited
  /\ worker = "failing"
  /\ queue = <<>>
  /\ worker' = "terminated"
  /\ UNCHANGED <<queue, inHand, pc, printedError, sawPrinted, exited, offered,
                 accepted, handled, lostFull, lostClosed, fullReports,
                 saidFailed>>

\* The worker closure ends: rx is dropped with everything in it.
DropReceiver ==
  /\ ~exited
  /\ worker = "failing"
  /\ worker' = "terminated"
  /\ queue' = <<>>
  /\ UNCHANGED <<inHand, pc, printedError, sawPrinted, exited, offered,
                 accepted, handled, lostFull, lostClosed, fullReports,
                 saidFailed>>

\* Mutated worker: it takes the newest event.
ReceiveNewest ==
  /\ ~exited
  /\ worker = "receiving"
  /\ queue # <<>>
  /\ inHand' = <<queue[Len(queue)]>>
  /\ queue' = SubSeq(queue, 1, Len(queue) - 1)
  /\ worker' = "handling"
  /\ UNCHANGED <<pc, printedError, sawPrinted, exited, offered, accepted,
                 handled, lostFull, lostClosed, fullReports, saidFailed>>

\* rx.recv().await returned Some(event).  It never returns None: the sender
\* lives in a static.
Receive ==
  /\ ~exited
  /\ worker = "receiving"
  /\ queue # <<>>
  /\ inHand' = <<Head(queue)>>
  /\ queue' = Tail(queue)
  /\ worker' = "handling"
  /\ UNCHANGED <<pc, printedError, sawPrinted, exited, offered, accepted,
                 handled, lostFull, lostClosed, fullReports, saidFailed>>

\* Mutated worker: it finishes an event only when the next one has arrived.
HandlerReturnedLate ==
  /\ ~exited
  /\ worker = "handling"
  /\ queue # <<>>
  /\ handled' = Append(handled, inHand[1])
  /\ inHand' = <<>>
  /\ worker' = "receiving"
  /\ UNCHANGED <<queue, pc, printedError, sawPrinted, exited, offered, accepted,
                 lostFull, lostClosed, fullReports, saidFailed>>

\* The handler returned; its result is discarded (`let _ =`).
HandlerReturned ==
  /\ ~exited
  /\ worker = "handling"
  /\ handled' = Append(handled, inHand[1])
  /\ inHand' = <<>>
  /\ worker' = "receiving"
  /\ UNCHANGED <<queue, pc, printedError, sawPrinted, exited, offered, accepted,
                 lostFull, lostClosed, fullReports, saidFailed>>

\* The host process exits: no thread takes another step, nothing is flushed.
Exit ==
  /\ ~exited
  /\ exited' = TRUE
  /\ UNCHANGED <<queue, worker, inHand, pc, printedError, sawPrinted, offered,
                 accepted, handled, lostFull, lostClosed, fullReports,
                 saidFailed>>

-----------------------------------------------------------------------------
Reporting(t) == LoadPrinted(t) \/ PrintFull(t) \/ StorePrinted(t)

Next ==
  \/ SenderNew
  \/ \E t \in Threads, e \in Events :
        SendAccepted(t, e) \/ SendFull(t, e) \/ SendClosed(t, e)
  \/ \E t \in Threads : LoadPrinted(t) \/ PrintFull(t) \/ StorePrinted(t)
  \/ Connected
  \/ InitFailed
  \/ DropReceiver
  \/ Receive
  \/ HandlerReturned
  \/ Exit

Spec == Init /\ [][Next]_chanVars

(***************************************************************************)
(* Fairness.  A thread inside send keeps running (no step of it blocks).   *)
(* The worker keeps running too: connecting ends by the configured         *)
(* timeout, and each call of the client ends because the peer reads or the *)
(* connection breaks.  Nothing makes a thread send, connect successfully,  *)
(* or the process exit.                                                    *)
(***************************************************************************)
Fairness ==
  /\ \A t \in Threads : WF_chanVars(Reporting(t))
  /\ WF_chanVars(Connected \/ InitFailed)
  /\ WF_chanVars(DropReceiver)
  /\ WF_chanVars(Receive)
  /\ WF_chanVars(HandlerReturned)

FairSpec == Spec /\ Fairness

-----------------------------------------------------------------------------
(* Properties.                                                              *)

\* Every variable keeps its type, and the channel its capacity.
TypeOK ==
  /\ queue \in Seq(Events) /\ Len(queue) <= BufferSize
  /\ worker \in WorkerStates
  /\ inHand \in Seq(Events)
  /\ Len(inHand) = IF worker = "handling" THEN 1 ELSE 0
  /\ pc \in [Threads -> SendStates]
  /\ printedError \in BOOLEAN
  /\ sawPrinted \in SUBSET Threads
  /\ exited \in BOOLEAN
  /\ offered \in SUBSET Events
  /\ accepted \in Seq(Events)
  /\ handled \in Seq(Events)
  /\ lostFull \in SUBSET Events
  /\ lostClosed \in SUBSET Events
  /\ fullReports \in [Threads -> Nat]
  /\ saidFailed \in BOOLEAN

\* As long as the receiver lives, the events try_send accepted are exactly
\* those handled, then the one in hand, then those queued, in one order: no
\* interleaving of senders and worker loses, repeats or reorders any of them.
AcceptedInOrder ==
  worker # "terminated" => accepted = handled \o inHand \o queue

\* The capacity warning is printed at most once by each thread, whatever the
\* threads read from the relaxed PRINTED_ERROR flag (hooks.rs, send).
ReportedOncePerThread == \A t \in Threads : fullReports[t] <= 1

\* hooks.rs, modality_after_clock_gettime: errors of send are ignored because
\* "a message has already been printed": an event is lost to a closed channel
\* only after the worker has printed why it stopped.
ClosedIsAnnounced == lostClosed # {} => saidFailed

\* README, MODALITY_ROS_BUFFER_SIZE: "some message may be dropped (an error
\* message will be printed)".  Once an event is dropped for lack of room, some
\* thread prints the warning, unless the process ends first.
LossIsReported ==
  lostFull # {} ~> (exited \/ \E t \in Threads : fullReports[t] > 0)

\* An accepted event is handled, unless initialisation fails or the process
\* ends: the worker loop never wedges with events waiting.
AcceptedIsHandled ==
  \A e \in Events :
    (\E i \in 1 .. Len(accepted) : accepted[i] = e)
      ~> \/ \E i \in 1 .. Len(handled) : handled[i] = e
         \/ worker = "terminated"
         \/ exited

\* The channel implements the abstract log: accepted events form the log, the
\* worker delivers it from the start.  One event more than the capacity may be
\* undelivered, the one being handled.
Log ==
  INSTANCE EventLog WITH
    Slack     <- BufferSize + 1,
    log       <- accepted,
    delivered <- handled,
    open      <- worker # "terminated" /\ ~exited

\* The safety part of the abstract log, and the log with its promise that
\* delivery goes on.
ImplementsLog == Log!Spec
ImplementsLiveLog == Log!LiveSpec
=============================================================================
