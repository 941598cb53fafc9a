------------------------- MODULE TelemetryPipeline -------------------------
(***************************************************************************)
(* TelemetryPipeline (telemetry/pipeline.rs): evaluations emit security    *)
(* events into a bounded queue, one worker exports them in batches, and a  *)
(* shutdown may overtake both.                                             *)
(*                                                                         *)
(* An emission is counted, then offered to the queue under the sender's    *)
(* mutex, then counted again by its result.  request_shutdown raises a     *)
(* flag and, in a second step, drops the sender under the same mutex.  The *)
(* worker runs between any two of these.  An event is its number in the    *)
(* order in which the channel accepted events.                             *)
(*                                                                         *)
(* The channel (tokio::sync::mpsc) and the exporter are external: the      *)
(* channel is a sequence with a capacity, whose receiver takes what is     *)
(* queued with it when it is dropped; an export succeeds or fails.         *)
(***************************************************************************)
EXTENDS Integers, Sequences, FiniteSets

CONSTANTS
  Emitter,     \* threads that emit
  Capacity,    \* TelemetryConfig.queue_capacity
  BatchSize,   \* TelemetryConfig.batch_size
  MaxRetries,  \* TelemetryConfig.max_retries
  MaxEvents    \* bound: events emitted in a behaviour

\* start() reads a capacity of 0 as 1, and a batch size or a retry limit of 0 acts
\* as 1.
ASSUME SizesAssumption ==
  /\ Capacity \in Nat \ {0} /\ BatchSize \in Nat \ {0}
  /\ MaxRetries \in Nat \ {0} /\ MaxEvents \in Nat

VARIABLES
  emitter,   \* what each emitting thread is in the middle of
  sender,    \* whether the pipeline still holds the sending half
  shutdown,  \* the AtomicBool
  receiver,  \* whether the worker still holds the receiving half
  queue,     \* events in the channel
  worker,    \* the worker's control state, batch and payload
  stats,     \* TelemetryStats
  accepted,  \* ghost: how many events the channel accepted
  exported,  \* ghost: the events the exporter accepted
  givenUp,   \* ghost: the events whose export was given up
  gone       \* ghost: the events that were in the channel when its receiver went

Events(seq) == {seq[i] : i \in 1 .. Len(seq)}

ghosts == <<accepted, exported, givenUp, gone>>
vars == <<emitter, sender, shutdown, receiver, queue, worker, stats, ghosts>>

Idle == [pc |-> "idle"]

NoStats ==
  [ emitted |-> 0, queued |-> 0, dropped_backpressure |-> 0,
    dropped_retry_exhausted |-> 0, exported |-> 0, export_failures |-> 0 ]

Started == [pc |-> "top", batch |-> << >>, payload |-> << >>, attempt |-> 0, then |-> "top"]
Stopped == [Started EXCEPT !.pc = "stopped"]

\* start(): a disabled pipeline has no channel; without a runtime to spawn the
\* worker on, the receiver is dropped at once.
Init ==
  /\ emitter = [e \in Emitter |-> Idle]
  /\ shutdown = FALSE
  /\ \/ sender = TRUE /\ receiver = TRUE /\ worker = Started
     \/ sender \in BOOLEAN /\ receiver = FALSE /\ worker = Stopped
  /\ queue = << >>
  /\ stats = NoStats
  /\ accepted = 0 /\ exported = {} /\ givenUp = {} /\ gone = {}

\* One counter goes up by n.
Bump(counter, n) == stats' = [stats EXCEPT ![counter] = @ + n]

-----------------------------------------------------------------------------
(* emit. *)

Become(e, state) == emitter' = [emitter EXCEPT ![e] = state]

\* The sender's mutex is held from the offer to the count of its result.
SenderFree == \A e \in Emitter : emitter[e].pc # "offered"

\* Before the lock.
Emit(e) ==
  /\ emitter[e] = Idle
  /\ stats.emitted < MaxEvents
  /\ Bump("emitted", 1)
  /\ Become(e, [pc |-> "counted"])
  /\ UNCHANGED <<sender, shutdown, receiver, queue, worker, ghosts>>

\* The pipeline is disabled or shut down: the event goes nowhere.
Discard(e) ==
  /\ emitter[e].pc = "counted"
  /\ SenderFree
  /\ ~sender
  /\ Become(e, Idle)
  /\ UNCHANGED <<sender, shutdown, receiver, queue, worker, stats, ghosts>>

\* try_send succeeds.
HasRoom == receiver /\ Len(queue) < Capacity

Offer(e) ==
  /\ emitter[e].pc = "counted"
  /\ SenderFree
  /\ sender
  /\ \/ /\ HasRoom
        /\ accepted' = accepted + 1
        /\ queue' = Append(queue, accepted + 1)
        /\ Become(e, [pc |-> "offered", result |-> "queued"])
     \/ /\ ~HasRoom
        /\ Become(e, [pc |-> "offered", result |-> "dropped_backpressure"])
        /\ UNCHANGED <<queue, accepted>>
  /\ UNCHANGED <<sender, shutdown, receiver, worker, stats, exported, givenUp, gone>>

CountResult(e) ==
  /\ emitter[e].pc = "offered"
  /\ Bump(emitter[e].result, 1)
  /\ Become(e, Idle)
  /\ UNCHANGED <<sender, shutdown, receiver, queue, worker, ghosts>>

-----------------------------------------------------------------------------
(* request_shutdown, called by the owner and again by Drop. *)

RaiseShutdown ==
  /\ ~shutdown
  /\ shutdown' = TRUE
  /\ UNCHANGED <<emitter, sender, receiver, queue, worker, stats, ghosts>>

DropSender ==
  /\ shutdown
  /\ sender
  /\ SenderFree
  /\ sender' = FALSE
  /\ UNCHANGED <<emitter, shutdown, receiver, queue, worker, stats, ghosts>>

-----------------------------------------------------------------------------
(* The worker. *)

\* flush_batch of what was collected, to go on at the given point afterwards; an
\* empty batch is not flushed.
Flush(batch, then) ==
  worker' = IF batch = << >>
              THEN [worker EXCEPT !.pc = then, !.batch = << >>]
              ELSE [worker EXCEPT !.pc = "exporting", !.batch = << >>, !.payload = batch,
                                  !.attempt = 0, !.then = then]

\* Takes the first event out of the channel; a full batch is flushed.
TakeEvent(then) ==
  /\ queue # << >>
  /\ queue' = Tail(queue)
  /\ LET batch == Append(worker.batch, Head(queue))
     IN  IF Len(batch) >= BatchSize
           THEN Flush(batch, then)
           ELSE worker' = [worker EXCEPT !.pc = then, !.batch = batch]

\* Top of the loop: with shutdown raised and nothing collected, what is queued is
\* drained once.
LoopTop ==
  /\ worker.pc = "top"
  /\ worker' = [worker EXCEPT !.pc = IF shutdown /\ worker.batch = << >>
                                       THEN "draining" ELSE "waiting"]
  /\ UNCHANGED <<emitter, sender, shutdown, receiver, queue, stats, ghosts>>

\* recv() returns an event before the interval ends.
Receive ==
  /\ worker.pc = "waiting"
  /\ TakeEvent("top")
  /\ UNCHANGED <<emitter, sender, shutdown, receiver, stats, ghosts>>

\* recv() returns None: the sender is gone and the channel is empty.
EndOfQueue ==
  /\ worker.pc = "waiting"
  /\ queue = << >>
  /\ ~sender
  /\ Flush(worker.batch, "leaving")
  /\ UNCHANGED <<emitter, sender, shutdown, receiver, queue, stats, ghosts>>

\* Mutant of Interval: the interval ends and the batch waits for its size.
IntervalKeepingBatch ==
  /\ worker.pc = "waiting"
  /\ queue = << >>
  /\ sender
  /\ worker' = [worker EXCEPT !.pc = "top"]
  /\ UNCHANGED <<emitter, sender, shutdown, receiver, queue, stats, ghosts>>

\* The interval ends and recv() has nothing; what was collected is flushed.
Interval ==
  /\ worker.pc = "waiting"
  /\ queue = << >>
  /\ sender
  /\ Flush(worker.batch, "top")
  /\ UNCHANGED <<emitter, sender, shutdown, receiver, queue, stats, ghosts>>

Drain ==
  /\ worker.pc = "draining"
  /\ TakeEvent("draining")
  /\ UNCHANGED <<emitter, sender, shutdown, receiver, stats, ghosts>>

\* Mutant of Drained: the loop goes on.
DrainedWithoutBreak ==
  /\ worker.pc = "draining"
  /\ queue = << >>
  /\ Flush(worker.batch, "top")
  /\ UNCHANGED <<emitter, sender, shutdown, receiver, queue, stats, ghosts>>

Drained ==
  /\ worker.pc = "draining"
  /\ queue = << >>
  /\ Flush(worker.batch, "leaving")
  /\ UNCHANGED <<emitter, sender, shutdown, receiver, queue, stats, ghosts>>

\* The task ends and drops its receiver.
Leave ==
  /\ worker.pc = "leaving"
  /\ worker' = [worker EXCEPT !.pc = "stopped"]
  /\ receiver' = FALSE
  /\ queue' = << >>
  /\ gone' = Events(queue)
  /\ UNCHANGED <<emitter, sender, shutdown, stats, accepted, exported, givenUp>>

\* The batch is settled; the worker goes on.
Proceed == [worker EXCEPT !.pc = worker.then, !.payload = << >>, !.attempt = 0]

\* Mutant of ExportOk: a batch counts as one event.
ExportOkOncePerBatch ==
  /\ worker.pc = "exporting"
  /\ Bump("exported", 1)
  /\ exported' = exported \cup Events(worker.payload)
  /\ worker' = Proceed
  /\ UNCHANGED <<emitter, sender, shutdown, receiver, queue, accepted, givenUp, gone>>

ExportOk ==
  /\ worker.pc = "exporting"
  /\ Bump("exported", Len(worker.payload))
  /\ exported' = exported \cup Events(worker.payload)
  /\ worker' = Proceed
  /\ UNCHANGED <<emitter, sender, shutdown, receiver, queue, accepted, givenUp, gone>>

\* A failure that is not permanent is tried again after a backoff.
RetryExport ==
  /\ worker.pc = "exporting"
  /\ worker.attempt + 1 < MaxRetries
  /\ Bump("export_failures", 1)
  /\ worker' = [worker EXCEPT !.attempt = @ + 1]
  /\ UNCHANGED <<emitter, sender, shutdown, receiver, queue, ghosts>>

\* A permanent failure, or the last attempt: the batch is dropped and counted.
GiveUpExport ==
  /\ worker.pc = "exporting"
  /\ stats' = [stats EXCEPT !.export_failures = @ + 1,
                            !.dropped_retry_exhausted = @ + Len(worker.payload)]
  /\ givenUp' = givenUp \cup Events(worker.payload)
  /\ worker' = Proceed
  /\ UNCHANGED <<emitter, sender, shutdown, receiver, queue, accepted, exported, gone>>

WorkerStep ==
  \/ LoopTop \/ Receive \/ EndOfQueue \/ Interval \/ Drain \/ Drained \/ Leave
  \/ ExportOk \/ RetryExport \/ GiveUpExport

EmitterStep(e) == Discard(e) \/ Offer(e) \/ CountResult(e)

Next ==
  \/ \E e \in Emitter : Emit(e) \/ EmitterStep(e)
  \/ RaiseShutdown
  \/ DropSender
  \/ WorkerStep

Spec == Init /\ [][Next]_vars

\* The runtime polls the worker and the timers it sleeps on; threads inside emit
\* and request_shutdown go on; an exporter answers.  Nobody has to emit or to ask
\* for a shutdown.  A shutdown gets the sender's mutex although emissions keep
\* taking it (strong fairness: nobody holds it across a wait).
FairSpec ==
  /\ Spec
  /\ WF_vars(WorkerStep)
  /\ SF_vars(DropSender)
  /\ \A e \in Emitter : WF_vars(EmitterStep(e))

-----------------------------------------------------------------------------
(* What the pipeline promises. *)

InPipeline == worker.payload \o worker.batch \o queue

\* The counters account for every event the channel accepted: it was exported, or
\* given up, or is on its way, or went with the channel.
Accounted ==
  accepted = stats.exported + stats.dropped_retry_exhausted
               + Len(InPipeline) + Cardinality(gone)

\* An event that was queued before a shutdown was asked for is exported, or its
\* loss is counted.
QueuedIsSettled ==
  \A n \in 1 .. MaxEvents :
    accepted >= n /\ ~shutdown ~> n \in exported \cup givenUp

\* A shutdown ends the worker, whatever the exporter answers and although events
\* may still arrive.
ShutdownStops == shutdown ~> worker.pc = "stopped"

=============================================================================
