---------------------- MODULE TelemetryPipeline_proofs ----------------------
(***************************************************************************)
(* Proofs about TelemetryPipeline for any number of emitters, any capacity *)
(* and batch size.                                                         *)
(*                                                                         *)
(* The channel numbers the events it accepts, so the invariant can say     *)
(* where each one is: the settled events are the first ones, and what is   *)
(* being exported, collected and queued follows without a gap and in       *)
(* order, up to the last event accepted.                                   *)
(***************************************************************************)
EXTENDS TelemetryPipeline, FiniteSetTheorems, TLAPS

Stats ==
  [ emitted : Nat, queued : Nat, dropped_backpressure : Nat,
    dropped_retry_exhausted : Nat, exported : Nat, export_failures : Nat ]

Result == {"queued", "dropped_backpressure"}

Worker ==
  [ pc : {"top", "waiting", "draining", "exporting", "leaving", "stopped"},
    batch : Seq(Nat), payload : Seq(Nat), attempt : Nat, then : {"top", "draining", "leaving"} ]

TypeOK ==
  /\ emitter \in [Emitter -> {Idle} \cup [pc : {"counted"}] \cup [pc : {"offered"}, result : Result]]
  /\ sender \in BOOLEAN /\ shutdown \in BOOLEAN /\ receiver \in BOOLEAN
  /\ queue \in Seq(Nat) /\ worker \in Worker /\ stats \in Stats /\ accepted \in Nat

\* What the counters say is settled.
Settled == stats.exported + stats.dropped_retry_exhausted

\* seq holds the events after the first n, in the order they were accepted.
Follows(seq, n) == \A i \in 1 .. Len(seq) : seq[i] = n + i

InOrder ==
  /\ Follows(worker.payload, Settled)
  /\ Follows(worker.batch, Settled + Len(worker.payload))
  /\ Follows(queue, Settled + Len(worker.payload) + Len(worker.batch))

\* A payload exists only while it is exported and no batch is collected meanwhile; a
\* worker that is leaving, or has left, holds nothing.
WorkerHolds ==
  /\ worker.pc = "exporting" => worker.batch = << >>
  /\ worker.pc # "exporting" => worker.payload = << >>
  /\ worker.pc \in {"leaving", "stopped"} => worker.batch = << >>
  /\ worker.pc = "stopped" <=> ~receiver

\* Until the receiver goes, everything that is not settled is in the pipeline; then it
\* is what went with the channel.
NothingLost ==
  IF receiver
    THEN gone = {} /\ accepted = Settled + Len(worker.payload) + Len(worker.batch) + Len(queue)
    ELSE queue = << >> /\ accepted >= Settled /\ gone = Settled + 1 .. accepted

\* The settled events are the first ones, each exported or given up and never both,
\* and the counters are the sizes of the two sets.
SettledOnce ==
  /\ exported \cup givenUp = 1 .. Settled
  /\ exported \cap givenUp = {}
  /\ IsFiniteSet(exported) /\ Cardinality(exported) = stats.exported
  /\ IsFiniteSet(givenUp) /\ Cardinality(givenUp) = stats.dropped_retry_exhausted

\* The sender's mutex has one holder, and the queued counter lags behind the channel
\* by the event its holder has not counted yet.
Offering(e) == emitter[e].pc = "offered"
Uncounted(e) == Offering(e) /\ emitter[e].result = "queued"

OneSender ==
  /\ \A e, f \in Emitter : Offering(e) /\ Offering(f) => e = f
  /\ accepted = stats.queued + IF \E e \in Emitter : Uncounted(e) THEN 1 ELSE 0

IndInv == TypeOK /\ InOrder /\ WorkerHolds /\ NothingLost /\ SettledOnce /\ OneSender

-----------------------------------------------------------------------------
(* Sequences of consecutive events. *)

\* Nothing follows anything.
LEMMA NoneFollow == ASSUME NEW n PROVE Follows(<< >>, n)
  BY DEF Follows

\* The next event may be added at the end.
LEMMA AppendFollows ==
  ASSUME NEW seq \in Seq(Nat), NEW n \in Nat, Follows(seq, n)
  PROVE  LET longer == Append(seq, n + Len(seq) + 1)
         IN  longer \in Seq(Nat) /\ Len(longer) = Len(seq) + 1 /\ Follows(longer, n)
  BY DEF Follows

\* The first one is the event after n, and the rest follows it.
LEMMA TailFollows ==
  ASSUME NEW seq \in Seq(Nat), NEW n \in Nat, Follows(seq, n), seq # << >>
  PROVE  /\ Head(seq) = n + 1
         /\ Tail(seq) \in Seq(Nat) /\ Len(Tail(seq)) = Len(seq) - 1 /\ Len(seq) \in Nat \ {0}
         /\ Follows(Tail(seq), n + 1)
  <1>1. Len(seq) \in Nat \ {0} /\ Tail(seq) \in Seq(Nat) /\ Len(Tail(seq)) = Len(seq) - 1
    OBVIOUS
  <1>2. Head(seq) = n + 1
    BY <1>1 DEF Follows
  <1>3. \A i \in 1 .. Len(Tail(seq)) : Tail(seq)[i] = seq[i + 1] /\ i + 1 \in 1 .. Len(seq)
    BY <1>1
  <1> QED
    BY <1>1, <1>2, <1>3 DEF Follows

\* Consecutive events are an interval, as large as they are many.
LEMMA EventsFollow ==
  ASSUME NEW seq \in Seq(Nat), NEW n \in Nat, Follows(seq, n)
  PROVE  /\ Events(seq) = n + 1 .. n + Len(seq)
         /\ IsFiniteSet(Events(seq)) /\ Cardinality(Events(seq)) = Len(seq)
  <1>1. Len(seq) \in Nat /\ \A i \in 1 .. Len(seq) : seq[i] = n + i
    BY DEF Follows
  <1>2. ASSUME NEW x \in n + 1 .. n + Len(seq) PROVE x \in Events(seq)
    <2>1. x - n \in 1 .. Len(seq) /\ seq[x - n] = x
      BY <1>1
    <2> QED
      BY <2>1 DEF Events
  <1>3. ASSUME NEW x \in Events(seq) PROVE x \in n + 1 .. n + Len(seq)
    BY <1>1 DEF Events
  <1>4. Events(seq) = n + 1 .. n + Len(seq)
    BY <1>2, <1>3
  <1> DEFINE first == n + 1
             last == n + Len(seq)
  <1>5. first \in Int /\ last \in Int
    BY <1>1
  <1> HIDE DEF first, last
  <1>6. /\ IsFiniteSet(first .. last)
        /\ Cardinality(first .. last) = IF first > last THEN 0 ELSE last - first + 1
    BY <1>5, FS_Interval
  <1>7. Cardinality(first .. last) = Len(seq)
    BY <1>1, <1>6 DEF first, last
  <1> QED
    BY <1>4, <1>6, <1>7 DEF first, last

-----------------------------------------------------------------------------
(* What the steps of one actor leave alone for the others. *)

\* A step that touches no event and no counter of a settled one keeps what is said
\* about events.
LEMMA EventsKept ==
  ASSUME IndInv, UNCHANGED <<receiver, queue, worker, accepted, exported, givenUp, gone>>,
         stats'.exported = stats.exported,
         stats'.dropped_retry_exhausted = stats.dropped_retry_exhausted
  PROVE  InOrder' /\ WorkerHolds' /\ NothingLost' /\ SettledOnce'
  BY DEF IndInv, InOrder, WorkerHolds, NothingLost, SettledOnce, Settled, Follows

\* A step of the worker that counts no emission keeps what is said about senders.
LEMMA SendersKept ==
  ASSUME IndInv, UNCHANGED <<emitter, accepted>>, stats'.queued = stats.queued
  PROVE  OneSender'
  BY DEF IndInv, OneSender, Offering, Uncounted

\* Counting is typed.
LEMMA BumpTyped ==
  ASSUME stats \in Stats, NEW n \in Nat, NEW counter \in DOMAIN NoStats, Bump(counter, n)
  PROVE  /\ stats' \in Stats
         /\ stats'[counter] = stats[counter] + n
         /\ \A other \in DOMAIN NoStats \ {counter} : stats'[other] = stats[other]
  <1>1. DOMAIN NoStats = {"emitted", "queued", "dropped_backpressure", "dropped_retry_exhausted",
                          "exported", "export_failures"}
    BY DEF NoStats
  <1>2. DOMAIN stats = DOMAIN NoStats /\ \A c \in DOMAIN NoStats : stats[c] \in Nat
    BY <1>1 DEF Stats
  <1>3. stats' = [c \in DOMAIN NoStats |-> IF c = counter THEN stats[c] + n ELSE stats[c]]
    BY <1>2 DEF Bump
  <1>4. /\ stats'[counter] = stats[counter] + n
        /\ \A other \in DOMAIN NoStats \ {counter} : stats'[other] = stats[other]
    BY <1>3
  <1>5. \A c \in DOMAIN NoStats : stats'[c] \in Nat
    BY <1>2, <1>4
  <1>6. stats' = [ emitted |-> stats'.emitted, queued |-> stats'.queued,
                   dropped_backpressure |-> stats'.dropped_backpressure,
                   dropped_retry_exhausted |-> stats'.dropped_retry_exhausted,
                   exported |-> stats'.exported, export_failures |-> stats'.export_failures ]
    BY <1>1, <1>3
  <1> QED
    BY <1>1, <1>4, <1>5, <1>6 DEF Stats

-----------------------------------------------------------------------------
(* The emitters and the owner. *)

\* An emitter's state when it is in the middle of an offer.
LEMMA OfferingShape ==
  ASSUME TypeOK, NEW e \in Emitter
  PROVE  /\ Offering(e) => emitter[e].result \in Result
         /\ Idle.pc # "offered"
  BY DEF TypeOK, Offering, Idle

\* An emission is counted before the sender is asked for.
LEMMA EmitKeeps == ASSUME IndInv, NEW e \in Emitter, Emit(e) PROVE IndInv'
  <1>1. TypeOK /\ stats \in Stats /\ 1 \in Nat /\ "emitted" \in DOMAIN NoStats
    BY DEF IndInv, TypeOK, NoStats
  <1>2. Bump("emitted", 1)
    BY DEF Emit
  <1>3. /\ stats' \in Stats
        /\ \A other \in DOMAIN NoStats \ {"emitted"} : stats'[other] = stats[other]
    BY <1>1, <1>2, BumpTyped
  <1>4. /\ stats'.exported = stats.exported /\ stats'.queued = stats.queued
        /\ stats'.dropped_retry_exhausted = stats.dropped_retry_exhausted
    BY <1>3 DEF NoStats
  <1>5. InOrder' /\ WorkerHolds' /\ NothingLost' /\ SettledOnce'
    BY <1>4, EventsKept DEF Emit, ghosts
  <1>6. TypeOK'
    BY <1>1, <1>3 DEF Emit, Become, TypeOK, ghosts
  <1>7. \A f \in Emitter : (Offering(f)' <=> Offering(f)) /\ (Uncounted(f)' <=> Uncounted(f))
    BY <1>1 DEF Emit, Become, Offering, Uncounted, TypeOK, Idle
  <1>8. OneSender'
    BY <1>4, <1>7 DEF IndInv, OneSender, Emit, ghosts
  <1> QED
    BY <1>5, <1>6, <1>8 DEF IndInv

\* Without a sender an emission ends there.
LEMMA DiscardKeeps == ASSUME IndInv, NEW e \in Emitter, Discard(e) PROVE IndInv'
  <1>1. InOrder' /\ WorkerHolds' /\ NothingLost' /\ SettledOnce'
    BY EventsKept DEF Discard, ghosts
  <1>2. TypeOK'
    BY DEF IndInv, Discard, Become, TypeOK, ghosts
  <1>3. \A f \in Emitter : (Offering(f)' <=> Offering(f)) /\ (Uncounted(f)' <=> Uncounted(f))
    BY DEF IndInv, Discard, Become, Offering, Uncounted, TypeOK, Idle
  <1>4. OneSender'
    BY <1>3 DEF IndInv, OneSender, Discard, ghosts
  <1> QED
    BY <1>1, <1>2, <1>4 DEF IndInv

\* What the channel accepts is the next event; nobody else holds the mutex.
LEMMA OfferKeeps == ASSUME IndInv, NEW e \in Emitter, Offer(e) PROVE IndInv'
  <1>1. TypeOK /\ emitter[e].pc = "counted" /\ (\A f \in Emitter : ~Offering(f))
    BY DEF IndInv, Offer, SenderFree, Offering
  <1>2. stats.queued \in Nat
    BY <1>1 DEF TypeOK, Stats
  <1>3. CASE /\ HasRoom /\ accepted' = accepted + 1 /\ queue' = Append(queue, accepted + 1)
             /\ Become(e, [pc |-> "offered", result |-> "queued"])
    <2>1. receiver /\ accepted = Settled + Len(worker.payload) + Len(worker.batch) + Len(queue)
      BY <1>3 DEF IndInv, NothingLost, HasRoom
    <2> DEFINE before == Settled + Len(worker.payload) + Len(worker.batch)
    <2>2. before \in Nat /\ queue \in Seq(Nat) /\ Follows(queue, before)
      BY DEF IndInv, TypeOK, Stats, Worker, Settled, InOrder
    <2>3. queue' = Append(queue, before + Len(queue) + 1)
      BY <1>3, <2>1
    <2>4. UNCHANGED <<receiver, worker, stats, sender, shutdown, exported, givenUp, gone>>
      BY DEF Offer
    <2>5. before' = before
      BY <2>4 DEF Settled
    <2> HIDE DEF before
    <2>6. queue' \in Seq(Nat) /\ Len(queue') = Len(queue) + 1 /\ Follows(queue', before)
      BY <2>2, <2>3, AppendFollows
    <2>7. InOrder'
      BY <2>4, <2>5, <2>6 DEF IndInv, InOrder, Follows, Settled, before
    <2>8. TypeOK'
      BY <1>1, <1>3, <2>4, <2>6 DEF TypeOK, Become, Result
    <2>9. WorkerHolds' /\ SettledOnce'
      BY <2>4 DEF IndInv, WorkerHolds, SettledOnce, Settled
    <2>10. Len(queue) \in Nat
      BY <2>2
    <2>11. NothingLost'
      BY <1>3, <2>1, <2>2, <2>4, <2>5, <2>6, <2>10 DEF IndInv, NothingLost, before
    <2>12. \A f \in Emitter : Offering(f)' <=> f = e
      BY <1>1, <1>3 DEF TypeOK, Become, Offering
    <2>13. Uncounted(e)'
      BY <1>1, <1>3 DEF TypeOK, Become, Offering, Uncounted
    <2>14. accepted = stats.queued
      BY <1>1, <1>2 DEF IndInv, OneSender, Uncounted
    <2>15. OneSender'
      BY <1>3, <1>2, <2>4, <2>12, <2>13, <2>14 DEF OneSender
    <2> QED
      BY <2>7, <2>8, <2>9, <2>11, <2>15 DEF IndInv
  <1>4. CASE /\ ~HasRoom /\ UNCHANGED <<queue, accepted>>
             /\ Become(e, [pc |-> "offered", result |-> "dropped_backpressure"])
    <2>1. InOrder' /\ WorkerHolds' /\ NothingLost' /\ SettledOnce'
      BY <1>4, EventsKept DEF Offer
    <2>2. TypeOK'
      BY <1>1, <1>4 DEF TypeOK, Become, Result, Offer
    <2>3. \A f \in Emitter : Offering(f)' <=> f = e
      BY <1>1, <1>4 DEF TypeOK, Become, Offering
    <2>4. \A f \in Emitter : ~Uncounted(f)'
      BY <1>1, <1>4 DEF TypeOK, Become, Offering, Uncounted
    <2>5. accepted = stats.queued
      BY <1>1, <1>2 DEF IndInv, OneSender, Uncounted
    <2>6. OneSender'
      BY <1>4, <1>2, <2>3, <2>4, <2>5 DEF OneSender, Offer
    <2> QED
      BY <2>1, <2>2, <2>6 DEF IndInv
  <1> QED
    BY <1>3, <1>4 DEF Offer

\* The result is counted while the mutex is still held.
LEMMA CountResultKeeps == ASSUME IndInv, NEW e \in Emitter, CountResult(e) PROVE IndInv'
  <1> DEFINE result == emitter[e].result
  <1>1. TypeOK /\ stats \in Stats /\ Offering(e) /\ result \in Result /\ Result \subseteq DOMAIN NoStats
    BY OfferingShape DEF IndInv, TypeOK, CountResult, Offering, Result, NoStats
  <1>2. Bump(result, 1) /\ Become(e, Idle)
    BY DEF CountResult
  <1>3. UNCHANGED <<sender, shutdown, receiver, queue, worker, accepted, exported, givenUp, gone>>
    BY DEF CountResult, ghosts
  <1>4. \A f \in Emitter : ~Offering(f)'
    BY <1>1, <1>2 DEF IndInv, OneSender, TypeOK, Become, Offering, Idle
  <1>5. \A f \in Emitter : Uncounted(f) => f = e
    BY <1>1 DEF IndInv, OneSender, Uncounted
  <1>6. Uncounted(e) <=> result = "queued"
    BY <1>1 DEF Uncounted
  <1> HIDE DEF result
  <1>7. /\ stats' \in Stats /\ stats'[result] = stats[result] + 1
        /\ \A other \in DOMAIN NoStats \ {result} : stats'[other] = stats[other]
    <2>1. result \in DOMAIN NoStats /\ 1 \in Nat
      BY <1>1
    <2> QED
      BY <1>1, <1>2, <2>1, BumpTyped
  <1>8. /\ stats'.exported = stats.exported
        /\ stats'.dropped_retry_exhausted = stats.dropped_retry_exhausted
        /\ stats'.queued = stats.queued + IF result = "queued" THEN 1 ELSE 0
    <2>1. stats.queued \in Nat
      BY <1>1 DEF Stats
    <2> QED
      BY <1>1, <1>7, <2>1 DEF Result, NoStats
  <1>9. InOrder' /\ WorkerHolds' /\ NothingLost' /\ SettledOnce'
    BY <1>3, <1>8, EventsKept
  <1>10. TypeOK'
    BY <1>1, <1>2, <1>3, <1>7 DEF TypeOK, Become
  <1>11. accepted = stats'.queued
    BY <1>5, <1>6, <1>8 DEF IndInv, OneSender
  <1>12. OneSender'
    <2>1. accepted \in Nat /\ accepted' = stats'.queued + 0
      BY <1>1, <1>3, <1>11 DEF TypeOK
    <2> QED
      BY <1>4, <2>1 DEF OneSender, Uncounted
  <1> QED
    BY <1>9, <1>10, <1>12 DEF IndInv

\* Asking for a shutdown moves no event.
LEMMA ShutdownKeeps == ASSUME IndInv, RaiseShutdown \/ DropSender PROVE IndInv'
  <1>1. /\ UNCHANGED <<emitter, receiver, queue, worker, stats, accepted, exported, givenUp, gone>>
        /\ sender' \in BOOLEAN /\ shutdown' \in BOOLEAN
    BY DEF IndInv, TypeOK, RaiseShutdown, DropSender, ghosts
  <1>2. InOrder' /\ WorkerHolds' /\ NothingLost' /\ SettledOnce' /\ OneSender'
    BY <1>1, EventsKept, SendersKept
  <1>3. TypeOK'
    BY <1>1 DEF IndInv, TypeOK
  <1> QED
    BY <1>2, <1>3 DEF IndInv

-----------------------------------------------------------------------------
(* The worker between two exports. *)

\* What is known of a worker that is not exporting and has not stopped.
LEMMA Collecting ==
  ASSUME IndInv, worker.pc \notin {"exporting", "stopped"}
  PROVE  /\ receiver = TRUE /\ gone = {} /\ worker.payload = << >> /\ Settled \in Nat
         /\ worker \in Worker /\ queue \in Seq(Nat) /\ worker.batch \in Seq(Nat)
         /\ accepted = Settled + Len(worker.batch) + Len(queue)
         /\ Follows(worker.batch, Settled) /\ Follows(queue, Settled + Len(worker.batch))
  <1>1. /\ receiver = TRUE /\ worker.payload = << >>
        /\ worker \in Worker /\ queue \in Seq(Nat) /\ worker.batch \in Seq(Nat)
    BY DEF IndInv, TypeOK, WorkerHolds, Worker
  <1>2. Settled \in Nat /\ Len(worker.payload) = 0 /\ Len(worker.batch) \in Nat
    BY <1>1 DEF IndInv, TypeOK, Stats, Settled
  <1>3. /\ Settled + Len(worker.payload) = Settled
        /\ Settled + Len(worker.payload) + Len(worker.batch) = Settled + Len(worker.batch)
    BY <1>2
  <1>4. gone = {} /\ accepted = Settled + Len(worker.batch) + Len(queue)
    BY <1>1, <1>3 DEF IndInv, NothingLost
  <1> QED
    BY <1>1, <1>2, <1>3, <1>4 DEF IndInv, InOrder

\* A flush makes the batch the payload, or goes on at once when there is none.
LEMMA FlushShape ==
  ASSUME IndInv, worker.pc \notin {"exporting", "stopped"},
         NEW batch \in Seq(Nat), NEW then \in {"top", "draining", "leaving"}, Flush(batch, then)
  PROVE  /\ worker' \in Worker
         /\ worker'.pc = IF batch = << >> THEN then ELSE "exporting"
         /\ worker'.batch = << >> /\ worker'.payload = batch
  <1>1. worker \in Worker /\ worker.payload = << >>
    BY Collecting
  <1>2. << >> \in Seq(Nat)
    OBVIOUS
  <1>3. CASE batch = << >>
    BY <1>1, <1>2, <1>3 DEF Flush, Worker
  <1>4. CASE batch # << >>
    BY <1>1, <1>2, <1>4 DEF Flush, Worker
  <1> QED
    BY <1>3, <1>4

\* A step of the worker that settles nothing, keeps the receiver and loses no event.
LEMMA MoveKeeps ==
  ASSUME IndInv, receiver = TRUE,
         UNCHANGED <<emitter, sender, shutdown, receiver, stats, ghosts>>,
         worker' \in Worker, queue' \in Seq(Nat), worker'.pc # "stopped",
         WorkerHolds', InOrder',
         accepted = Settled + Len(worker'.payload) + Len(worker'.batch) + Len(queue')
  PROVE  IndInv'
  <1>1. UNCHANGED <<emitter, sender, shutdown, receiver, stats, accepted, exported, givenUp, gone>>
    BY DEF ghosts
  <1>2. TypeOK'
    BY <1>1 DEF IndInv, TypeOK
  <1>3. Settled' = Settled
    BY <1>1 DEF Settled
  <1>4. NothingLost'
    BY <1>1, <1>3 DEF IndInv, NothingLost
  <1>5. SettledOnce'
    BY <1>1, <1>3 DEF IndInv, SettledOnce
  <1>6. OneSender'
    BY <1>1, SendersKept
  <1> QED
    BY <1>2, <1>4, <1>5, <1>6 DEF IndInv

\* A flush of everything that was collected, with the channel as it is.
LEMMA FlushKeeps ==
  ASSUME IndInv, worker.pc \notin {"exporting", "stopped"}, NEW then \in {"top", "draining", "leaving"},
         Flush(worker.batch, then), UNCHANGED <<emitter, sender, shutdown, receiver, queue, stats, ghosts>>
  PROVE  IndInv'
  <1> DEFINE batch == worker.batch
  <1>1. /\ receiver = TRUE /\ Settled \in Nat /\ queue \in Seq(Nat) /\ batch \in Seq(Nat)
        /\ accepted = Settled + Len(batch) + Len(queue)
        /\ Follows(batch, Settled) /\ Follows(queue, Settled + Len(batch))
    BY Collecting
  <1>2. Flush(batch, then)
    OBVIOUS
  <1> HIDE DEF batch
  <1>3. /\ worker' \in Worker /\ worker'.pc = IF batch = << >> THEN then ELSE "exporting"
        /\ worker'.batch = << >> /\ worker'.payload = batch
    BY <1>1, <1>2, FlushShape
  <1>4. UNCHANGED <<queue, receiver, Settled>>
    BY DEF Settled
  <1>5. Len(batch) \in Nat /\ Len(queue) \in Nat /\ Len(<< >>) = 0
    BY <1>1
  <1>6. /\ Settled' + Len(worker'.payload) = Settled + Len(batch)
        /\ Settled' + Len(worker'.payload) + Len(worker'.batch) = Settled + Len(batch)
    BY <1>1, <1>3, <1>4, <1>5
  <1>7. InOrder'
    BY <1>1, <1>3, <1>4, <1>6 DEF InOrder, Follows
  <1>8. WorkerHolds'
    BY <1>1, <1>3, <1>4 DEF WorkerHolds
  <1>9. accepted = Settled + Len(worker'.payload) + Len(worker'.batch) + Len(queue')
    BY <1>1, <1>3, <1>4, <1>5
  <1> QED
    BY <1>1, <1>3, <1>7, <1>8, <1>9, MoveKeeps, <1>4

\* Taking an event: it joins the batch it follows.
LEMMA TakeEventKeeps ==
  ASSUME IndInv, worker.pc \in {"waiting", "draining"}, NEW then \in {"top", "draining"},
         TakeEvent(then), UNCHANGED <<emitter, sender, shutdown, receiver, stats, ghosts>>
  PROVE  IndInv'
  <1> DEFINE batch == Append(worker.batch, Head(queue))
  <1>1. /\ receiver = TRUE /\ Settled \in Nat /\ queue \in Seq(Nat) /\ worker.batch \in Seq(Nat)
        /\ worker \in Worker /\ worker.payload = << >>
        /\ accepted = Settled + Len(worker.batch) + Len(queue)
        /\ Follows(worker.batch, Settled) /\ Follows(queue, Settled + Len(worker.batch))
    BY Collecting
  <1>2. queue # << >> /\ queue' = Tail(queue)
    BY DEF TakeEvent
  <1>3. Len(worker.batch) \in Nat /\ Settled + Len(worker.batch) \in Nat
    BY <1>1
  <1>4. /\ Head(queue) = Settled + Len(worker.batch) + 1
        /\ queue' \in Seq(Nat) /\ Len(queue') = Len(queue) - 1 /\ Len(queue) \in Nat
        /\ Follows(queue', Settled + Len(worker.batch) + 1)
    <2> DEFINE before == Settled + Len(worker.batch)
    <2>1. before \in Nat /\ Follows(queue, before)
      BY <1>1, <1>3
    <2> HIDE DEF before
    <2>2. /\ Head(queue) = before + 1
          /\ Tail(queue) \in Seq(Nat) /\ Len(Tail(queue)) = Len(queue) - 1 /\ Len(queue) \in Nat
          /\ Follows(Tail(queue), before + 1)
      BY <1>1, <1>2, <2>1, TailFollows
    <2> QED
      BY <1>2, <2>2 DEF before
  <1>5. batch \in Seq(Nat) /\ Len(batch) = Len(worker.batch) + 1 /\ Follows(batch, Settled)
    BY <1>1, <1>4, AppendFollows
  <1>6. \/ Flush(batch, then)
        \/ worker' = [worker EXCEPT !.pc = then, !.batch = batch]
    BY DEF TakeEvent
  <1> HIDE DEF batch
  <1>7. /\ worker' \in Worker
        /\ \/ worker'.batch = << >> /\ worker'.payload = batch /\ worker'.pc = "exporting"
           \/ worker'.batch = batch /\ worker'.payload = << >> /\ worker'.pc = then
    <2>1. CASE Flush(batch, then)
      <3>1. batch # << >>
        BY <1>1, <1>5
      <3> QED
        BY <1>5, <2>1, <3>1, FlushShape
    <2>2. CASE worker' = [worker EXCEPT !.pc = then, !.batch = batch]
      BY <1>1, <1>5, <2>2 DEF Worker
    <2> QED
      BY <1>6, <2>1, <2>2
  <1>8. receiver' = receiver /\ Settled' = Settled
    BY DEF Settled
  <1>9. Len(batch) \in Nat /\ Len(queue') \in Nat /\ Len(<< >>) = 0
    BY <1>4, <1>5
  <1>10. Settled + Len(worker'.payload) + Len(worker'.batch) = Settled + Len(worker.batch) + 1
    <2> DEFINE size == Len(worker.batch)
    <2>1. size \in Nat /\ Len(batch) = size + 1 /\ Settled \in Nat
      BY <1>1, <1>3, <1>5
    <2>2. \/ Len(worker'.payload) = Len(batch) /\ Len(worker'.batch) = 0
          \/ Len(worker'.payload) = 0 /\ Len(worker'.batch) = Len(batch)
      BY <1>7, <1>9
    <2> HIDE DEF size
    <2>3. \A m, n, k \in Nat : Settled + (k + 1) + 0 = Settled + k + 1 /\ Settled + 0 + (k + 1) = Settled + k + 1
      BY <2>1
    <2> QED
      BY <2>1, <2>2, <2>3 DEF size
  <1>11. InOrder'
    <2>1. Follows(worker'.payload, Settled)
      BY <1>5, <1>7, NoneFollow
    <2>2. Follows(worker'.batch, Settled + Len(worker'.payload))
      <3>1. Settled + 0 = Settled
        BY <1>1
      <3> QED
        BY <1>5, <1>7, <1>9, <3>1, NoneFollow
    <2>3. Follows(queue', Settled + Len(worker'.payload) + Len(worker'.batch))
      BY <1>4, <1>10
    <2> QED
      BY <1>8, <2>1, <2>2, <2>3 DEF InOrder, Follows
  <1>12. WorkerHolds' /\ worker'.pc # "stopped"
    BY <1>1, <1>7, <1>8 DEF WorkerHolds
  <1>13. accepted = Settled + Len(worker'.payload) + Len(worker'.batch) + Len(queue')
    <2>1. accepted = Settled + Len(worker.batch) + 1 + Len(queue')
      BY <1>1, <1>3, <1>4
    <2> QED
      BY <1>10, <2>1
  <1> QED
    BY <1>1, <1>4, <1>7, <1>11, <1>12, <1>13, MoveKeeps

-----------------------------------------------------------------------------
(* The worker's other steps. *)

\* The decision at the top of the loop moves no event.
LEMMA LoopTopKeeps == ASSUME IndInv, LoopTop PROVE IndInv'
  <1>1. /\ receiver = TRUE /\ worker \in Worker /\ queue \in Seq(Nat) /\ worker.payload = << >>
    BY Collecting DEF LoopTop
  <1> DEFINE next == IF shutdown /\ worker.batch = << >> THEN "draining" ELSE "waiting"
  <1>2. worker' = [worker EXCEPT !.pc = next] /\ next \in {"draining", "waiting"}
    BY DEF LoopTop
  <1> HIDE DEF next
  <1>3. /\ worker' \in Worker /\ worker'.pc = next
        /\ worker'.batch = worker.batch /\ worker'.payload = worker.payload
    BY <1>1, <1>2 DEF Worker
  <1>4. UNCHANGED <<emitter, sender, shutdown, receiver, queue, stats, ghosts>> /\ Settled' = Settled
    BY DEF LoopTop, Settled
  <1>5. InOrder'
    BY <1>3, <1>4 DEF IndInv, InOrder, Follows
  <1>6. WorkerHolds' /\ worker'.pc # "stopped"
    BY <1>1, <1>2, <1>3, <1>4 DEF WorkerHolds
  <1>7. accepted = Settled + Len(worker'.payload) + Len(worker'.batch) + Len(queue')
    BY <1>1, <1>3, <1>4 DEF IndInv, NothingLost
  <1> QED
    BY <1>1, <1>3, <1>4, <1>5, <1>6, <1>7, MoveKeeps

\* What is queued when the worker leaves goes with the channel.
LEMMA LeaveKeeps == ASSUME IndInv, Leave PROVE IndInv'
  <1>1. /\ worker.pc = "leaving" /\ worker' = [worker EXCEPT !.pc = "stopped"]
        /\ receiver' = FALSE /\ queue' = << >> /\ gone' = Events(queue)
        /\ UNCHANGED <<emitter, sender, shutdown, stats, accepted, exported, givenUp>>
    BY DEF Leave
  <1>2. /\ worker \in Worker /\ queue \in Seq(Nat) /\ worker.payload = << >> /\ Settled \in Nat
        /\ accepted = Settled + Len(worker.batch) + Len(queue)
        /\ Follows(queue, Settled + Len(worker.batch))
    BY <1>1, Collecting
  <1>3. worker.batch = << >>
    BY <1>1 DEF IndInv, WorkerHolds
  <1>4. accepted = Settled + Len(queue) /\ Follows(queue, Settled) /\ Len(queue) \in Nat
    BY <1>2, <1>3
  <1>5. gone' = Settled + 1 .. accepted
    BY <1>1, <1>2, <1>4, EventsFollow
  <1>6. Settled' = Settled
    BY <1>1 DEF Settled
  <1>7. /\ worker' \in Worker /\ worker'.pc = "stopped" /\ worker'.batch = << >>
        /\ worker'.payload = << >> /\ queue' \in Seq(Nat)
    BY <1>1, <1>2, <1>3 DEF Worker
  <1>8. TypeOK'
    BY <1>1, <1>7 DEF IndInv, TypeOK
  <1>9. InOrder'
    BY <1>1, <1>7 DEF InOrder, Follows
  <1>10. WorkerHolds'
    BY <1>1, <1>7 DEF WorkerHolds
  <1>11. NothingLost'
    BY <1>1, <1>2, <1>4, <1>5, <1>6 DEF NothingLost
  <1>12. SettledOnce'
    BY <1>1, <1>6 DEF IndInv, SettledOnce
  <1>13. OneSender'
    BY <1>1, SendersKept
  <1> QED
    BY <1>8, <1>9, <1>10, <1>11, <1>12, <1>13 DEF IndInv

\* What is known while a payload is being exported.
LEMMA Exporting ==
  ASSUME IndInv, worker.pc = "exporting"
  PROVE  /\ receiver = TRUE /\ gone = {} /\ worker \in Worker /\ stats \in Stats
         /\ worker.batch = << >> /\ Len(worker.payload) \in Nat
         /\ Settled \in Nat /\ queue \in Seq(Nat)
         /\ accepted = Settled + Len(worker.payload) + Len(queue)
         /\ Follows(queue, Settled + Len(worker.payload))
         /\ Events(worker.payload) = Settled + 1 .. Settled + Len(worker.payload)
         /\ IsFiniteSet(Events(worker.payload))
         /\ Cardinality(Events(worker.payload)) = Len(worker.payload)
  <1>1. /\ receiver = TRUE /\ worker \in Worker /\ stats \in Stats /\ queue \in Seq(Nat)
        /\ worker.batch = << >> /\ worker.payload \in Seq(Nat)
    BY DEF IndInv, TypeOK, WorkerHolds, Worker
  <1>2. Settled \in Nat /\ Len(worker.payload) \in Nat /\ Len(worker.batch) = 0
    BY <1>1 DEF Settled, Stats
  <1>3. Settled + Len(worker.payload) + Len(worker.batch) = Settled + Len(worker.payload)
    BY <1>2
  <1>4. gone = {} /\ accepted = Settled + Len(worker.payload) + Len(queue)
    BY <1>1, <1>3 DEF IndInv, NothingLost
  <1>5. Follows(queue, Settled + Len(worker.payload)) /\ Follows(worker.payload, Settled)
    BY <1>3 DEF IndInv, InOrder
  <1>6. /\ Events(worker.payload) = Settled + 1 .. Settled + Len(worker.payload)
        /\ IsFiniteSet(Events(worker.payload))
        /\ Cardinality(Events(worker.payload)) = Len(worker.payload)
    BY <1>1, <1>2, <1>5, EventsFollow
  <1> QED
    BY <1>1, <1>2, <1>4, <1>5, <1>6

\* The payload's events are disjoint from the settled ones and extend them without a gap.
LEMMA SettlingExtends ==
  ASSUME IndInv, worker.pc = "exporting"
  PROVE  LET payload == Events(worker.payload)
         IN  /\ (exported \cup givenUp) \cup payload = 1 .. Settled + Len(worker.payload)
             /\ exported \cap payload = {} /\ givenUp \cap payload = {}
             /\ IsFiniteSet(exported \cup payload)
             /\ Cardinality(exported \cup payload) = stats.exported + Len(worker.payload)
             /\ IsFiniteSet(givenUp \cup payload)
             /\ Cardinality(givenUp \cup payload)
                  = stats.dropped_retry_exhausted + Len(worker.payload)
  <1> DEFINE payload == Events(worker.payload)
             size == Len(worker.payload)
  <1>1. /\ Settled \in Nat /\ size \in Nat /\ payload = Settled + 1 .. Settled + size
        /\ IsFiniteSet(payload) /\ Cardinality(payload) = size /\ stats \in Stats
    BY Exporting
  <1>2. /\ exported \cup givenUp = 1 .. Settled
        /\ IsFiniteSet(exported) /\ Cardinality(exported) = stats.exported
        /\ IsFiniteSet(givenUp) /\ Cardinality(givenUp) = stats.dropped_retry_exhausted
    BY DEF IndInv, SettledOnce
  <1> HIDE DEF payload, size
  <1>3. (1 .. Settled) \cup payload = 1 .. Settled + size /\ (1 .. Settled) \cap payload = {}
    BY <1>1
  <1>4. /\ (exported \cup givenUp) \cup payload = 1 .. Settled + size
        /\ exported \cap payload = {} /\ givenUp \cap payload = {}
    BY <1>2, <1>3
  <1>5. /\ IsFiniteSet(exported \cup payload)
        /\ Cardinality(exported \cup payload)
             = Cardinality(exported) + Cardinality(payload) - Cardinality(exported \cap payload)
    BY <1>1, <1>2, FS_Union
  <1>6. /\ IsFiniteSet(givenUp \cup payload)
        /\ Cardinality(givenUp \cup payload)
             = Cardinality(givenUp) + Cardinality(payload) - Cardinality(givenUp \cap payload)
    BY <1>1, <1>2, FS_Union
  <1>7. /\ Cardinality(exported \cap payload) = 0 /\ Cardinality(givenUp \cap payload) = 0
        /\ stats.exported \in Nat /\ stats.dropped_retry_exhausted \in Nat
    BY <1>1, <1>4, FS_EmptySet DEF Stats
  <1>8. /\ Cardinality(exported \cup payload) = stats.exported + size
        /\ Cardinality(givenUp \cup payload) = stats.dropped_retry_exhausted + size
    BY <1>1, <1>2, <1>5, <1>6, <1>7
  <1> QED
    BY <1>4, <1>5, <1>6, <1>8 DEF payload, size

\* The worker that goes on after a payload is settled.
LEMMA ProceedShape ==
  ASSUME worker \in Worker
  PROVE  /\ Proceed \in Worker /\ Proceed.pc = worker.then
         /\ Proceed.batch = worker.batch /\ Proceed.payload = << >>
  <1>1. << >> \in Seq(Nat) /\ 0 \in Nat /\ worker.then \in {"top", "draining", "leaving"}
    BY DEF Worker
  <1> QED
    BY <1>1 DEF Proceed, Worker

\* A payload that is settled, one way or the other, moves the boundary over its events.
LEMMA SettleKeeps ==
  ASSUME IndInv, worker.pc = "exporting", worker' = Proceed, stats' \in Stats,
         Settled' = Settled + Len(worker.payload), stats'.queued = stats.queued, SettledOnce',
         UNCHANGED <<emitter, sender, shutdown, receiver, queue, accepted, gone>>
  PROVE  IndInv'
  <1>1. /\ receiver = TRUE /\ gone = {} /\ worker \in Worker /\ worker.batch = << >>
        /\ Len(worker.payload) \in Nat /\ Settled \in Nat /\ queue \in Seq(Nat)
        /\ accepted = Settled + Len(worker.payload) + Len(queue)
        /\ Follows(queue, Settled + Len(worker.payload))
    BY Exporting
  <1>2. /\ worker' \in Worker /\ worker'.pc = worker.then
        /\ worker'.batch = << >> /\ worker'.payload = << >>
    BY <1>1, ProceedShape
  <1>3. worker.then \in {"top", "draining", "leaving"}
    BY <1>1 DEF Worker
  <1>4. TypeOK'
    BY <1>2 DEF IndInv, TypeOK
  <1>5. Settled' \in Nat /\ Len(<< >>) = 0 /\ Len(queue) \in Nat
    BY <1>1
  <1>6. /\ Settled' + Len(worker'.payload) = Settled'
        /\ Settled' + Len(worker'.payload) + Len(worker'.batch) = Settled'
    BY <1>2, <1>5
  <1>7. InOrder'
    BY <1>1, <1>2, <1>6 DEF InOrder, Follows
  <1>8. WorkerHolds'
    BY <1>1, <1>2, <1>3 DEF WorkerHolds
  <1>9. NothingLost'
    BY <1>1, <1>6 DEF NothingLost
  <1>10. OneSender'
    BY SendersKept
  <1> QED
    BY <1>4, <1>7, <1>8, <1>9, <1>10 DEF IndInv

\* A successful export counts every event of the payload once.
LEMMA ExportOkKeeps == ASSUME IndInv, ExportOk PROVE IndInv'
  <1> DEFINE size == Len(worker.payload)
             payload == Events(worker.payload)
  <1>1. /\ worker.pc = "exporting" /\ Bump("exported", size) /\ exported' = exported \cup payload
        /\ worker' = Proceed
        /\ UNCHANGED <<emitter, sender, shutdown, receiver, queue, accepted, givenUp, gone>>
    BY DEF ExportOk
  <1>2. stats \in Stats /\ size \in Nat
    BY <1>1, Exporting
  <1>3. /\ exported \cup givenUp \cup payload = 1 .. Settled + size
        /\ givenUp \cap payload = {} /\ IsFiniteSet(exported \cup payload)
        /\ Cardinality(exported \cup payload) = stats.exported + size
    BY <1>1, SettlingExtends
  <1> HIDE DEF size, payload
  <1>4. /\ stats' \in Stats /\ stats'.exported = stats.exported + size
        /\ stats'.queued = stats.queued
        /\ stats'.dropped_retry_exhausted = stats.dropped_retry_exhausted
    BY <1>1, <1>2, BumpTyped DEF NoStats
  <1>5. Settled' = Settled + size
    BY <1>2, <1>4 DEF Settled, Stats
  <1>6. SettledOnce'
    BY <1>1, <1>3, <1>4, <1>5 DEF IndInv, SettledOnce
  <1> QED
    BY <1>1, <1>4, <1>5, <1>6, SettleKeeps DEF size

\* A payload that is given up counts every event as dropped.
LEMMA GiveUpExportKeeps == ASSUME IndInv, GiveUpExport PROVE IndInv'
  <1> DEFINE size == Len(worker.payload)
             payload == Events(worker.payload)
  <1>1. /\ worker.pc = "exporting" /\ givenUp' = givenUp \cup payload
        /\ stats' = [stats EXCEPT !.export_failures = @ + 1,
                                  !.dropped_retry_exhausted = @ + size]
        /\ worker' = Proceed
        /\ UNCHANGED <<emitter, sender, shutdown, receiver, queue, accepted, exported, gone>>
    BY DEF GiveUpExport
  <1>2. stats \in Stats /\ size \in Nat
    BY <1>1, Exporting
  <1>3. /\ exported \cup givenUp \cup payload = 1 .. Settled + size
        /\ exported \cap payload = {} /\ IsFiniteSet(givenUp \cup payload)
        /\ Cardinality(givenUp \cup payload) = stats.dropped_retry_exhausted + size
    BY <1>1, SettlingExtends
  <1> HIDE DEF size, payload
  <1>4. /\ stats' \in Stats /\ stats'.exported = stats.exported
        /\ stats'.queued = stats.queued
        /\ stats'.dropped_retry_exhausted = stats.dropped_retry_exhausted + size
    <2> DEFINE failures == stats.export_failures + 1
               dropped == stats.dropped_retry_exhausted + size
    <2>1. /\ failures \in Nat /\ dropped \in Nat
          /\ stats' = [stats EXCEPT !.export_failures = failures,
                                    !.dropped_retry_exhausted = dropped]
      BY <1>1, <1>2 DEF Stats
    <2> HIDE DEF failures, dropped
    <2>2. /\ stats' \in Stats /\ stats'.exported = stats.exported
          /\ stats'.queued = stats.queued /\ stats'.dropped_retry_exhausted = dropped
      BY <1>2, <2>1 DEF Stats
    <2> QED
      BY <2>2 DEF dropped
  <1>5. Settled' = Settled + size
    BY <1>2, <1>4 DEF Settled, Stats
  <1>6. SettledOnce'
    BY <1>1, <1>3, <1>4, <1>5 DEF IndInv, SettledOnce
  <1> QED
    BY <1>1, <1>4, <1>5, <1>6, SettleKeeps DEF size

\* A retry keeps the payload.
LEMMA RetryExportKeeps == ASSUME IndInv, RetryExport PROVE IndInv'
  <1>1. /\ worker.pc = "exporting" /\ Bump("export_failures", 1)
        /\ worker' = [worker EXCEPT !.attempt = @ + 1]
        /\ UNCHANGED <<emitter, sender, shutdown, receiver, queue, accepted, exported, givenUp, gone>>
    BY DEF RetryExport, ghosts
  <1>2. worker \in Worker /\ stats \in Stats
    BY <1>1, Exporting
  <1>3. /\ stats' \in Stats /\ stats'.exported = stats.exported /\ stats'.queued = stats.queued
        /\ stats'.dropped_retry_exhausted = stats.dropped_retry_exhausted
    BY <1>1, <1>2, BumpTyped DEF NoStats
  <1>4. /\ worker' \in Worker /\ worker'.pc = worker.pc
        /\ worker'.batch = worker.batch /\ worker'.payload = worker.payload
    <2> DEFINE next == worker.attempt + 1
    <2>1. next \in Nat /\ worker' = [worker EXCEPT !.attempt = next]
      BY <1>1, <1>2 DEF Worker
    <2> HIDE DEF next
    <2> QED
      BY <1>2, <2>1 DEF Worker
  <1>5. Settled' = Settled
    BY <1>3 DEF Settled
  <1>6. TypeOK'
    BY <1>1, <1>3, <1>4 DEF IndInv, TypeOK
  <1>7. InOrder'
    BY <1>1, <1>4, <1>5 DEF IndInv, InOrder, Follows
  <1>8. WorkerHolds'
    BY <1>1, <1>4 DEF IndInv, WorkerHolds
  <1>9. NothingLost'
    BY <1>1, <1>4, <1>5 DEF IndInv, NothingLost
  <1>10. SettledOnce'
    BY <1>1, <1>3, <1>5 DEF IndInv, SettledOnce
  <1>11. OneSender'
    BY <1>1, <1>3, SendersKept
  <1> QED
    BY <1>6, <1>7, <1>8, <1>9, <1>10, <1>11 DEF IndInv

-----------------------------------------------------------------------------
(* The invariant and what follows from it. *)

\* start() leaves an empty pipeline.
LEMMA InitIndInv == Init => IndInv
  <1> SUFFICES ASSUME Init PROVE IndInv
    OBVIOUS
  <1>1. /\ emitter = [e \in Emitter |-> Idle] /\ shutdown = FALSE /\ queue = << >>
        /\ stats = NoStats /\ accepted = 0 /\ exported = {} /\ givenUp = {} /\ gone = {}
        /\ \/ sender = TRUE /\ receiver = TRUE /\ worker = Started
           \/ sender \in BOOLEAN /\ receiver = FALSE /\ worker = Stopped
    BY DEF Init
  <1>2. stats \in Stats /\ stats.queued = 0 /\ Settled = 0 /\ stats.exported = 0
    BY <1>1 DEF NoStats, Stats, Settled
  <1>3. stats.dropped_retry_exhausted = 0
    BY <1>1 DEF NoStats
  <1>4. /\ worker \in Worker /\ worker.batch = << >> /\ worker.payload = << >>
        /\ worker.pc \in {"top", "stopped"} /\ (worker.pc = "stopped" <=> ~receiver)
        /\ sender \in BOOLEAN /\ receiver \in BOOLEAN
    <2>1. /\ Started \in Worker /\ Started.pc = "top"
          /\ Started.batch = << >> /\ Started.payload = << >>
      <3>1. << >> \in Seq(Nat) /\ 0 \in Nat
        OBVIOUS
      <3> QED
        BY <3>1 DEF Started, Worker
    <2>2. /\ Stopped \in Worker /\ Stopped.pc = "stopped"
          /\ Stopped.batch = << >> /\ Stopped.payload = << >>
      BY <2>1 DEF Stopped, Worker
    <2> QED
      BY <1>1, <2>1, <2>2
  <1>5. TypeOK
    <2>1. << >> \in Seq(Nat) /\ 0 \in Nat
      OBVIOUS
    <2> QED
      BY <1>1, <1>2, <1>4, <2>1 DEF TypeOK
  <1>6. InOrder
    BY <1>1, <1>4, NoneFollow DEF InOrder
  <1>7. WorkerHolds
    BY <1>4 DEF WorkerHolds
  <1>8. NothingLost
    BY <1>1, <1>2, <1>4 DEF NothingLost
  <1>9. SettledOnce
    BY <1>1, <1>2, <1>3, FS_EmptySet DEF SettledOnce
  <1>10. OneSender
    BY <1>1, <1>2 DEF OneSender, Offering, Uncounted, Idle
  <1> QED
    BY <1>5, <1>6, <1>7, <1>8, <1>9, <1>10 DEF IndInv

\* Every step keeps the invariant.
LEMMA NextIndInv == IndInv /\ [Next]_vars => IndInv'
  <1> SUFFICES ASSUME IndInv, [Next]_vars PROVE IndInv'
    OBVIOUS
  <1>1. ASSUME NEW e \in Emitter, Emit(e) \/ EmitterStep(e) PROVE IndInv'
    BY <1>1, EmitKeeps, DiscardKeeps, OfferKeeps, CountResultKeeps DEF EmitterStep
  <1>2. CASE RaiseShutdown \/ DropSender
    BY <1>2, ShutdownKeeps
  <1>3. CASE LoopTop
    BY <1>3, LoopTopKeeps
  <1>4. CASE Receive
    BY <1>4, TakeEventKeeps DEF Receive
  <1>5. CASE Drain
    BY <1>5, TakeEventKeeps DEF Drain
  <1>6. CASE EndOfQueue \/ Drained
    BY <1>6, FlushKeeps DEF EndOfQueue, Drained
  <1>7. CASE Interval
    BY <1>7, FlushKeeps DEF Interval
  <1>8. CASE Leave
    BY <1>8, LeaveKeeps
  <1>9. CASE ExportOk \/ RetryExport \/ GiveUpExport
    BY <1>9, ExportOkKeeps, RetryExportKeeps, GiveUpExportKeeps
  <1>10. CASE UNCHANGED vars
    <2>1. UNCHANGED <<emitter, sender, shutdown, receiver, queue, worker, stats,
                      accepted, exported, givenUp, gone>>
      BY <1>10 DEF vars, ghosts
    <2>2. InOrder' /\ WorkerHolds' /\ NothingLost' /\ SettledOnce' /\ OneSender'
      BY <2>1, EventsKept, SendersKept
    <2>3. TypeOK'
      BY <2>1 DEF IndInv, TypeOK
    <2> QED
      BY <2>2, <2>3 DEF IndInv
  <1> QED
    BY <1>1, <1>2, <1>3, <1>4, <1>5, <1>6, <1>7, <1>8, <1>9, <1>10 DEF Next, WorkerStep

\* In every reachable state each event the channel accepted is where the invariant says:
\* settled, in the payload, in the batch, in the queue, or gone with the channel, in the
\* order in which they were accepted.
THEOREM PipelineInvariant == Spec => []IndInv
  <1> QED
    BY InitIndInv, NextIndInv, PTL DEF Spec

\* The counters of the pipeline account for every event its channel accepted.
THEOREM EveryEventAccounted == Spec => []Accounted
  <1>1. IndInv => Accounted
    <2> SUFFICES ASSUME IndInv PROVE Accounted
      OBVIOUS
    <2>1. /\ worker.payload \in Seq(Nat) /\ worker.batch \in Seq(Nat) /\ queue \in Seq(Nat)
          /\ accepted \in Nat /\ stats \in Stats /\ Settled \in Nat
      BY DEF IndInv, TypeOK, Worker, Stats, Settled
    <2>2. /\ Len(InPipeline) = Len(worker.payload) + Len(worker.batch) + Len(queue)
          /\ Len(worker.payload) \in Nat /\ Len(worker.batch) \in Nat /\ Len(queue) \in Nat
      BY <2>1 DEF InPipeline
    <2>3. /\ stats.exported \in Nat /\ stats.dropped_retry_exhausted \in Nat
          /\ Settled = stats.exported + stats.dropped_retry_exhausted
      BY <2>1 DEF Settled, Stats
    <2>4. CASE receiver
      <3>1. Cardinality(gone) = 0
        BY <2>4, FS_EmptySet DEF IndInv, NothingLost
      <3>2. accepted = Settled + Len(worker.payload) + Len(worker.batch) + Len(queue)
        BY <2>4 DEF IndInv, NothingLost
      <3>3. Settled + Len(worker.payload) + Len(worker.batch) + Len(queue) = Settled + Len(InPipeline) + 0
        <4> DEFINE p == Len(worker.payload)
                   b == Len(worker.batch)
                   q == Len(queue)
                   all == Len(InPipeline)
                   before == Settled
        <4>1. /\ before \in Nat /\ p \in Nat /\ b \in Nat /\ q \in Nat
              /\ all = p + b + q
          BY <2>1, <2>2
        <4> HIDE DEF p, b, q, all, before
        <4>2. before + p + b + q = before + all + 0
          BY <4>1
        <4> QED
          BY <4>2 DEF p, b, q, all, before
      <3> QED
        BY <2>3, <3>1, <3>2, <3>3 DEF Accounted
    <2>5. CASE ~receiver
      <3> DEFINE first == Settled + 1
      <3>1. worker.payload = << >> /\ worker.batch = << >> /\ queue = << >>
        BY <2>5 DEF IndInv, WorkerHolds, NothingLost
      <3>2. gone = first .. accepted /\ accepted >= Settled /\ first \in Int /\ accepted \in Int
        BY <2>1, <2>5 DEF IndInv, NothingLost
      <3> HIDE DEF first
      <3>3. Cardinality(gone) = IF first > accepted THEN 0 ELSE accepted - first + 1
        BY <3>2, FS_Interval
      <3>4. Cardinality(gone) = accepted - Settled
        <4> DEFINE lost == Cardinality(gone)
                   done == Settled
        <4>1. /\ lost = IF first > accepted THEN 0 ELSE accepted - first + 1
              /\ first = done + 1 /\ done \in Nat /\ accepted \in Nat /\ accepted >= done
          BY <2>1, <3>2, <3>3 DEF first
        <4> HIDE DEF lost, done
        <4>2. lost = accepted - done
          BY <4>1
        <4> QED
          BY <4>2 DEF lost, done
      <3>5. Len(InPipeline) = 0
        BY <2>2, <3>1
      <3> QED
        BY <2>1, <3>2, <3>4, <3>5 DEF Accounted, Settled, Stats
    <2> QED
      BY <2>4, <2>5
  <1> QED
    BY <1>1, PipelineInvariant, PTL

\* The events an exporter accepted or the worker gave up are the first ones the channel
\* accepted, none of them both, and the two counters are how many: nothing is exported
\* twice, and nothing overtakes an event that is still on its way.
THEOREM SettledInOrder == Spec => []SettledOnce
  <1>1. IndInv => SettledOnce
    BY DEF IndInv
  <1> QED
    BY <1>1, PipelineInvariant, PTL

\* No two emitters hold the sender at once, and the queued counter is behind the channel
\* by the one event that is being counted, or by none.
THEOREM QueuedIsCounted == Spec => []OneSender
  <1>1. IndInv => OneSender
    BY DEF IndInv
  <1> QED
    BY <1>1, PipelineInvariant, PTL

=============================================================================
