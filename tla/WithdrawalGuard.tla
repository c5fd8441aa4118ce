--------------------------- MODULE WithdrawalGuard ---------------------------
(***************************************************************************)
(* External withdrawals with manual confirmation:                          *)
(* execution/withdrawal_guard.py.                                          *)
(*                                                                         *)
(* Coroutines that interleave at their awaits: propose_withdrawal() (the   *)
(* day's total is summed in a worker thread), confirm() (the withdrawal is *)
(* sent from a worker thread, then an alert is awaited), reject(), and one *)
(* timeout task per proposal.  The SQLite rows survive a restart, the      *)
(* dictionary _pending and the tasks do not.  The exchange is external: a  *)
(* withdrawal is refused, done, or done with its answer lost.              *)
(***************************************************************************)
EXTENDS Naturals, FiniteSets, FiniteSetsExt

CONSTANTS
  Proposals,    \* proposal ids
  Operators,    \* tasks that call confirm()
  Addresses,    \* external addresses
  Chains,       \* their chains
  Amounts,      \* amounts proposed
  DailyLimit,   \* _daily_limit
  MaxEvents,    \* bound on midnights and restarts together
  None

VARIABLES
  whitelist,  \* table withdrawal_whitelist: address -> chain (address is UNIQUE)
  row,        \* status column of a proposal, or the phase of its propose_withdrawal()
  ask,        \* the proposal's amount, address, chain and date of requested_at
  pending,    \* keys of _pending
  total,      \* what _get_today_withdrawn() returned, until the proposal is recorded
  conf,       \* confirm() calls in progress: task -> the proposal
  told,       \* those of conf that have recorded the outcome and await the alert
  day,        \* the date
  restarts,
  sent,       \* how often the exchange made the withdrawal of a proposal
  dead,       \* history: rejected, expired or lost in a restart before a confirm()
  doubled,    \* history: confirmed again while a confirm() was in progress
  crowded     \* history: days with a proposal checked while another was unsettled

history == <<dead, doubled, crowded>>
rows    == <<row, ask, total>>
vars == <<whitelist, rows, pending, conf, told, day, restarts, sent, history>>

Asking   == {"new", "asking", "read"}     \* no row yet
Recorded == {"pending", "completed", "rejected", "expired", "failed"}
Request  == [amount : Amounts, address : Addresses, chain : Chains, day : 0 .. MaxEvents]

Busy(p) == \E c \in Operators : conf[c] = p

\* What may still be sent, or was sent and is not counted.
Unsettled(p) ==
  \/ row[p] \in {"asking", "read", "pending"} \/ Busy(p)
  \/ sent[p] > 0 /\ row[p] # "completed"

Init ==
  /\ whitelist = [a \in Addresses |-> None]
  /\ row = [p \in Proposals |-> "new"]
  /\ ask = [p \in Proposals |-> CHOOSE r \in Request : TRUE]  \* set by propose_withdrawal()
  /\ total = [p \in Proposals |-> 0]
  /\ pending = {} /\ conf = [c \in Operators |-> None] /\ told = {}
  /\ day = 0 /\ restarts = 0
  /\ sent = [p \in Proposals |-> 0]
  /\ dead = {} /\ doubled = {} /\ crowded = {}

-----------------------------------------------------------------------------
(* add_to_whitelist: INSERT OR REPLACE under the address alone. *)

AddToWhitelist(a, c) ==
  /\ whitelist[a] # c
  /\ whitelist' = [whitelist EXCEPT ![a] = c]
  /\ UNCHANGED <<rows, pending, conf, told, day, restarts, sent, history>>

-----------------------------------------------------------------------------
(* propose_withdrawal. *)

IsWhitelisted(a, c) == whitelist[a] = c

\* Up to the sum, which runs in a worker thread.
Propose(p, r) ==
  /\ row[p] = "new" /\ r.day = day
  /\ IsWhitelisted(r.address, r.chain)
  /\ row' = [row EXCEPT ![p] = "asking"]
  /\ ask' = [ask EXCEPT ![p] = r]
  /\ UNCHANGED <<whitelist, total, pending, conf, told, day, restarts, sent, history>>

\* Mutant: the day of the other withdrawals is not compared.
CountedNever(p, q) == FALSE

Counted(p, q) == row[q] = "completed" /\ ask[q].day = ask[p].day

TodayWithdrawn(p) ==
  MapThenSumSet(LAMBDA q : ask[q].amount, {q \in Proposals : Counted(p, q)})

Crowd(p) ==
  IF \E q \in Proposals \ {p} : ask[q].day = ask[p].day /\ Unsettled(q)
    THEN crowded \cup {ask[p].day} ELSE crowded

\* The thread has the sum; the coroutine has not resumed.
ReadTotal(p) ==
  /\ row[p] = "asking"
  /\ row' = [row EXCEPT ![p] = "read"]
  /\ total' = [total EXCEPT ![p] = TodayWithdrawn(p)]
  /\ crowded' = Crowd(p)
  /\ UNCHANGED <<whitelist, ask, pending, conf, told, day, restarts, sent, dead, doubled>>

WithinLimit(p) == total[p] + ask[p].amount <= DailyLimit

Refuse(p) ==
  /\ row[p] = "read" /\ ~WithinLimit(p)
  /\ row' = [row EXCEPT ![p] = "new"]
  /\ total' = [total EXCEPT ![p] = 0]
  /\ UNCHANGED <<whitelist, ask, pending, conf, told, day, restarts, sent, history>>

\* requested_at is the time of the insertion, the sum was for the date before it.
Record(p) ==
  /\ row[p] = "read" /\ WithinLimit(p)
  /\ row' = [row EXCEPT ![p] = "pending"]
  /\ ask' = [ask EXCEPT ![p].day = day]
  /\ total' = [total EXCEPT ![p] = 0]
  /\ pending' = pending \cup {p}
  /\ crowded' = IF ask[p].day # day THEN crowded \cup {day} ELSE Crowd(p)
  /\ UNCHANGED <<whitelist, conf, told, day, restarts, sent, dead, doubled>>

-----------------------------------------------------------------------------
(* confirm and _execute_withdrawal. *)

\* Mutant: any recorded proposal may be confirmed.
MayConfirmAny(p) == row[p] \in Recorded

\* Mutant: a proposal in memory may be confirmed whatever its row says.
MayConfirmInMemory(p) == p \in pending

MayConfirm(p) == p \in pending /\ row[p] = "pending"

Confirm(c, p) ==
  /\ conf[c] = None /\ MayConfirm(p)
  /\ conf' = [conf EXCEPT ![c] = p]
  /\ doubled' = IF \E d \in Operators \ told : conf[d] = p THEN doubled \cup {p} ELSE doubled
  /\ UNCHANGED <<whitelist, rows, pending, told, day, restarts, sent, dead, crowded>>

\* The exchange answers, or the call raises: what it did, and what the row says.
Outcome(c, status, times) ==
  /\ conf[c] # None /\ c \notin told
  /\ row'  = [row EXCEPT ![conf[c]] = status]
  /\ sent' = [sent EXCEPT ![conf[c]] = @ + times]
  /\ told' = told \cup {c}
  /\ UNCHANGED <<whitelist, ask, total, pending, conf, day, restarts, history>>

Executed(c)   == Outcome(c, "completed", 1)
NotSent(c)    == Outcome(c, "failed", 0)
AnswerLost(c) == Outcome(c, "failed", 1)

\* After the alert: _pending.pop and the event that stops the timeout.
ConfirmEnds(c) ==
  /\ c \in told
  /\ pending' = pending \ {conf[c]}
  /\ conf' = [conf EXCEPT ![c] = None]
  /\ told' = told \ {c}
  /\ UNCHANGED <<whitelist, rows, day, restarts, sent, history>>

-----------------------------------------------------------------------------
(* reject, the timeout, the passing of days, restarts. *)

\* What ends before any confirmation must never be sent.
Bury(S) == dead' = dead \cup {p \in S : sent[p] = 0 /\ ~Busy(p)}

\* reject() updates the row whatever its status.
Reject(p) ==
  /\ row[p] \in Recorded
  /\ row' = [row EXCEPT ![p] = "rejected"]
  /\ pending' = pending \ {p}
  /\ Bury({p})
  /\ UNCHANGED <<whitelist, ask, total, conf, told, day, restarts, sent, doubled, crowded>>

\* _timeout_proposal: the event is set only when the proposal leaves _pending.
TimeUp(p) ==
  /\ p \in pending
  /\ row' = [row EXCEPT ![p] = "expired"]
  /\ pending' = pending \ {p}
  /\ Bury({p})
  /\ UNCHANGED <<whitelist, ask, total, conf, told, day, restarts, sent, doubled, crowded>>

NextDay ==
  /\ day + restarts < MaxEvents
  /\ day' = day + 1
  /\ UNCHANGED <<whitelist, rows, pending, conf, told, restarts, sent, history>>

\* The process dies; each withdrawal on its way may or may not be made.
Restart ==
  /\ day + restarts < MaxEvents
  /\ restarts' = restarts + 1
  /\ \E S \in SUBSET (Operators \ told) :
       sent' = [p \in Proposals |-> sent[p] + Cardinality({c \in S : conf[c] = p})]
  /\ row' = [p \in Proposals |-> IF row[p] \in Asking THEN "new" ELSE row[p]]
  /\ pending' = {} /\ conf' = [c \in Operators |-> None] /\ told' = {}
  /\ Bury({p \in Proposals : row[p] = "pending"})
  /\ total' = [p \in Proposals |-> 0]
  /\ UNCHANGED <<whitelist, ask, day, doubled, crowded>>

-----------------------------------------------------------------------------
Next ==
  \/ \E a \in Addresses, c \in Chains : AddToWhitelist(a, c)
  \/ \E p \in Proposals, r \in Request : Propose(p, r)
  \/ \E p \in Proposals : ReadTotal(p) \/ Refuse(p) \/ Record(p) \/ Reject(p) \/ TimeUp(p)
  \/ \E c \in Operators, p \in Proposals : Confirm(c, p)
  \/ \E c \in Operators : Executed(c) \/ NotSent(c) \/ AnswerLost(c) \/ ConfirmEnds(c)
  \/ NextDay \/ Restart

Spec == Init /\ [][Next]_vars

-----------------------------------------------------------------------------
(* Properties. *)

\* Every variable keeps to the values the code can give it (type invariant).
TypeOK ==
  /\ whitelist \in [Addresses -> Chains \cup {None}]
  /\ row \in [Proposals -> Asking \cup Recorded]
  /\ ask \in [Proposals -> Request]
  /\ total \in [Proposals -> Nat]
  /\ pending \subseteq {p \in Proposals : row[p] \in Recorded}
  /\ conf \in [Operators -> Proposals \cup {None}]
  /\ told \subseteq {c \in Operators : conf[c] # None}
  /\ day \in 0 .. MaxEvents /\ restarts \in 0 .. MaxEvents
  /\ sent \in [Proposals -> Nat]

\* What was rejected, had expired or was lost in a restart before any confirmation is
\* never sent, whatever confirmations come later.
DeadStaysDead == \A p \in dead : sent[p] = 0 /\ ~Busy(p)

\* A proposal is sent twice only if it was confirmed again while the first
\* confirmation was still talking to the exchange.
TwiceNeedsOverlap ==
  \A p \in Proposals : sent[p] > 1 => p \in doubled

\* What the requests of one day took out of the account stays within the daily limit,
\* unless a proposal was checked while another was unsettled.
LimitUnlessCrowded ==
  \A d \in (0 .. MaxEvents) \ crowded :
    MapThenSumSet(LAMBDA p : ask[p].amount,
                  {p \in Proposals : sent[p] > 0 /\ ask[p].day = d}) <= DailyLimit
=============================================================================
