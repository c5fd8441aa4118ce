----------------------------- MODULE AlertQueue -----------------------------
(***************************************************************************)
(* AlertDispatcher of notifications/alert_dispatcher.py: emit(), the       *)
(* worker that takes alerts from the queue, and the shutdown that lets it  *)
(* drain.  api/main.py starts it before it serves and stops it last, while *)
(* tasks that nobody cancelled may still emit.                             *)
(*                                                                         *)
(* What Telegram and Discord answer changes a counter only.                *)
(***************************************************************************)
EXTENDS Naturals, Sequences

CONSTANTS
  Alerts,
  Limited,  \* alerts whose kind has a minimum interval; they share one kind
  Room,     \* queue_size
  None

VARIABLES
  running,    \* _running
  queue,      \* _queue
  unfinished, \* its unfinished tasks, which join() waits for
  recent,     \* the limited kind was sent within its interval
  worker,     \* _worker: "getting", "sending", "ended"
  sending,    \* the alert it dispatches, or None
  stopping,   \* stop(): "no", "joining", "joined", "stopped"
  offered,    \* history: alerts given to emit()
  early,      \* history: accepted before stop()
  sent,       \* history: dispatched
  slow        \* history: the join timed out while an alert was being dispatched

history == <<offered, early, sent, slow>>
vars == <<running, queue, unfinished, recent, worker, sending, stopping, history>>

Init ==
  /\ running = TRUE /\ queue = << >> /\ unfinished = 0 /\ recent = FALSE
  /\ worker = "getting" /\ sending = None /\ stopping = "no"
  /\ offered = {} /\ early = {} /\ sent = {} /\ slow = FALSE

-----------------------------------------------------------------------------
(* emit. *)

Accepted(a) == ~(a \in Limited /\ recent) /\ Len(queue) < Room

Emit(a) ==
  /\ a \notin offered /\ offered' = offered \cup {a}
  /\ Accepted(a)
  /\ queue' = Append(queue, a) /\ unfinished' = unfinished + 1
  /\ recent' = (recent \/ a \in Limited)
  /\ early' = IF running THEN early \cup {a} ELSE early
  /\ UNCHANGED <<running, worker, sending, stopping, sent, slow>>

\* Rate limited, or the queue is full; a HALT_CASCADE is dropped like any other.
Drop(a) ==
  /\ a \notin offered /\ offered' = offered \cup {a}
  /\ ~Accepted(a)
  /\ UNCHANGED <<running, queue, unfinished, recent, worker, sending, stopping,
                 early, sent, slow>>

IntervalPasses ==
  /\ recent /\ recent' = FALSE
  /\ UNCHANGED <<running, queue, unfinished, worker, sending, stopping, history>>

-----------------------------------------------------------------------------
(* _worker. *)

\* Mutant: the worker ends as soon as it is told to.
LoopsWhileRunning == running

Loops == running \/ queue # << >>

GoesRound == worker' = IF Loops THEN "getting" ELSE "ended"

Get ==
  /\ worker = "getting" /\ queue # << >>
  /\ worker' = "sending" /\ sending' = Head(queue) /\ queue' = Tail(queue)
  /\ UNCHANGED <<running, unfinished, recent, stopping, history>>

\* A second without an alert.
NothingCame ==
  /\ worker = "getting" /\ queue = << >>
  /\ GoesRound
  /\ UNCHANGED <<running, queue, unfinished, recent, sending, stopping, history>>

Dispatched ==
  /\ worker = "sending"
  /\ sending' = None /\ sent' = sent \cup {sending} /\ unfinished' = unfinished - 1
  /\ GoesRound
  /\ UNCHANGED <<running, queue, recent, stopping, offered, early, slow>>

-----------------------------------------------------------------------------
(* stop. *)

Stop ==
  /\ stopping = "no"
  /\ running' = FALSE /\ stopping' = "joining"
  /\ UNCHANGED <<queue, unfinished, recent, worker, sending, history>>

Drained ==
  /\ stopping = "joining" /\ unfinished = 0
  /\ stopping' = "joined"
  /\ UNCHANGED <<running, queue, unfinished, recent, worker, sending, history>>

\* Ten seconds are enough for what needs no channel.
JoinTimesOut ==
  /\ stopping = "joining" /\ unfinished > 0 /\ worker # "getting"
  /\ stopping' = "joined" /\ slow' = (worker = "sending")
  /\ UNCHANGED <<running, queue, unfinished, recent, worker, sending, offered, early, sent>>

\* The worker is cancelled wherever it waits.
Cancel ==
  /\ stopping = "joined" /\ stopping' = "stopped"
  /\ worker' = "ended" /\ sending' = None
  /\ UNCHANGED <<running, queue, unfinished, recent, history>>

-----------------------------------------------------------------------------
Next ==
  \/ \E a \in Alerts : Emit(a) \/ Drop(a)
  \/ IntervalPasses \/ Get \/ NothingCame \/ Dispatched
  \/ Stop \/ Drained \/ JoinTimesOut \/ Cancel

Spec == Init /\ [][Next]_vars

TypeOK ==
  /\ running \in BOOLEAN /\ recent \in BOOLEAN /\ slow \in BOOLEAN
  /\ queue \in Seq(Alerts) /\ Len(queue) <= Room /\ unfinished \in Nat
  /\ worker \in {"getting", "sending", "ended"} /\ sending \in Alerts \cup {None}
  /\ stopping \in {"no", "joining", "joined", "stopped"}
  /\ early \subseteq offered /\ sent \subseteq offered /\ offered \subseteq Alerts

\* "Graceful shutdown": once stopped, every alert accepted before the shutdown was
\* dispatched, unless a channel took longer than the ten seconds; alerts that came during
\* the shutdown do not keep it from those.
NoAlertLost == stopping = "stopped" => early \subseteq sent \/ slow
=============================================================================
