------------------------------- MODULE ExpGain -------------------------------
(***************************************************************************)
(* The experience totals of one account (internal/expgain/service.go): the *)
(* ticker goroutine samples the readings of the sessions that monitor and  *)
(* now and then saves what changed, any number of HTTP requests set the    *)
(* total to zero and save it, and the server stops and loads what was      *)
(* saved.  A tick holds the lock and reads one session after the other;    *)
(* meanwhile the readings go on.  Saving is three steps: a copy under the  *)
(* lock, a transaction, and the dirty flag cleared under the lock again.   *)
(*                                                                         *)
(* Left out: the samples of the last hour, and the gain message to         *)
(* viewers.  Readings, days and requests are small numbers.  The account   *)
(* has its row from the start.                                             *)
(***************************************************************************)
EXTENDS Integers

CONSTANTS
  Sessions,    \* the sessions of the account
  Resets,      \* requests to set the total to zero
  Ticker,      \* the goroutine of Start
  None,        \* no reading, no baseline
  MaxRisen,    \* bound on the experience gained
  MaxDay,      \* bound on the days
  MaxRestarts, \* bound on the restarts
  MaxFailures  \* bound on failed transactions

ASSUME GainAssumption ==
  /\ None \notin Sessions
  /\ Ticker \notin Resets
  /\ None \notin Int
  /\ MaxRisen \in Nat /\ MaxDay \in Nat /\ MaxRestarts \in Nat /\ MaxFailures \in Nat

VARIABLES
  reading,  \* external: the experience the hub has of each session
  today,    \* the calendar date
  state,    \* the userState
  row,      \* the row of exp_gain_stats
  pc,       \* where the ticker and each request is
  todo,     \* the sessions the tick has still to read
  copy,     \* what each of them is about to save
  stopping, \* the service context is cancelled
  restarts, failures,
  risen,    \* history: all experience that sessions gained
  raced     \* history: the totals changed between someone's copy and the end of
            \* the saving

procs == <<pc, todo, copy>>
ends == <<stopping, restarts, failures>>
vars == <<reading, today, state, row, procs, ends, risen, raced>>

Savers == Resets \cup {Ticker}

\* The lock is free: the ticker holds it for a whole tick.
Unlocked == pc[Ticker] # "sample"

-----------------------------------------------------------------------------
\* rollDailyLocked.
Rolled(st) ==
  IF st.day < today THEN [st EXCEPT !.day = today, !.daily = 0, !.dirty = TRUE] ELSE st

\* Mutant: a reading below the last one counts as well.
GainAny(st, s) == IF st.base[s] # None THEN reading[s] - st.base[s] ELSE 0

\* What session s adds: nothing without a baseline, nothing when it fell.
GainOf(st, s) ==
  IF st.base[s] # None /\ reading[s] > st.base[s] THEN reading[s] - st.base[s] ELSE 0

\* Mutant: the baseline stays when experience was gained.
BaseKept(st, s) ==
  IF reading[s] # None /\ GainOf(st, s) > 0 THEN st.base
  ELSE [st.base EXCEPT ![s] = reading[s]]

\* The new baselines; a session without a reading loses its own.
BaseAfter(st, s) == [st.base EXCEPT ![s] = reading[s]]

\* sampleSessionLocked.
Sampled(st, s) ==
  IF reading[s] = None
  THEN [st EXCEPT !.base = BaseAfter(st, s)]
  ELSE [st EXCEPT
          !.total = @ + GainOf(st, s),
          !.daily = @ + GainOf(st, s),
          !.base = BaseAfter(st, s),
          !.dirty = @ \/ st.base[s] = None \/ GainOf(st, s) > 0,
          !.session = s,
          !.last = reading[s]]

\* What persistUser copies.
Row(st) ==
  [total |-> st.total, daily |-> st.daily, day |-> st.day,
   session |-> st.session, last |-> st.last]

\* loadFromDB: only the session sampled last has a baseline.
Loaded(r) ==
  Rolled([total |-> r.total, daily |-> r.daily, day |-> r.day,
          session |-> r.session, last |-> r.last, dirty |-> FALSE,
          base |-> [s \in Sessions |-> IF s = r.session THEN r.last ELSE None]])

NewRow == [total |-> 0, daily |-> 0, day |-> 0, session |-> None, last |-> None]

Init ==
  /\ reading \in [Sessions -> {0, None}]
  /\ today = 0
  /\ row = NewRow
  /\ state = [total |-> 0, daily |-> 0, day |-> 0, session |-> None, last |-> None,
              dirty |-> FALSE, base |-> [s \in Sessions |-> None]]
  /\ pc = [p \in Savers |-> "idle"]
  /\ todo = {}
  /\ copy = [p \in Savers |-> NewRow]
  /\ stopping = FALSE /\ restarts = 0 /\ failures = 0
  /\ risen = 0 /\ raced = FALSE

\* The totals change while somebody is saving a copy of them.
Race == raced' = (raced \/ \E p \in Savers : pc[p] \in {"write", "clean"})

-----------------------------------------------------------------------------
(***************************************************************************)
(* The ticker.                                                             *)
(***************************************************************************)
\* tick.  The sessions in S monitored when the tick asked the database; a row
\* may say so of any session.
TickBegins(S) ==
  /\ pc[Ticker] = "idle" /\ ~stopping
  /\ state' = Rolled(state)
  /\ todo' = S
  /\ pc' = [pc EXCEPT ![Ticker] = "sample"]
  /\ UNCHANGED <<reading, today, row, copy, ends, risen, raced>>

Sample(s) ==
  /\ pc[Ticker] = "sample"
  /\ s \in todo /\ todo' = todo \ {s}
  /\ state' = Sampled(state, s)
  /\ IF state'.total # state.total THEN Race ELSE UNCHANGED raced
  /\ UNCHANGED <<reading, today, row, pc, copy, ends, risen>>

\* The lock is released.  Every third tick the flush follows.
TickEnds(next) ==
  /\ pc[Ticker] = "sample" /\ todo = {}
  /\ pc' = [pc EXCEPT ![Ticker] = next]
  /\ UNCHANGED <<reading, today, state, row, todo, copy, ends, risen, raced>>

\* flushDirty.
Flush ==
  /\ pc[Ticker] = "flush"
  /\ pc' = [pc EXCEPT ![Ticker] =
       IF state.dirty THEN "copy" ELSE IF stopping THEN "stopped" ELSE "idle"]
  /\ UNCHANGED <<reading, today, state, row, todo, copy, ends, risen, raced>>

\* The service context is cancelled: the last flush.
Cancel ==
  /\ pc[Ticker] = "idle" /\ ~stopping
  /\ restarts < MaxRestarts
  /\ stopping' = TRUE
  /\ pc' = [pc EXCEPT ![Ticker] = "flush"]
  /\ UNCHANGED <<reading, today, state, row, todo, copy, restarts, failures, risen, raced>>

-----------------------------------------------------------------------------
(***************************************************************************)
(* Requests.                                                               *)
(***************************************************************************)
ResetTotal(r) ==
  /\ pc[r] = "idle" /\ Unlocked
  /\ state' = [Rolled(state) EXCEPT !.total = 0, !.dirty = TRUE]
  /\ Race
  /\ pc' = [pc EXCEPT ![r] = "copy"]
  /\ UNCHANGED <<reading, today, row, todo, copy, ends, risen>>

Snapshot ==
  /\ state.day < today /\ Unlocked
  /\ state' = Rolled(state)
  /\ UNCHANGED <<reading, today, row, procs, ends, risen, raced>>

-----------------------------------------------------------------------------
(***************************************************************************)
(* persistUser.                                                            *)
(***************************************************************************)
Copy(p) ==
  /\ pc[p] = "copy" /\ Unlocked
  /\ copy' = [copy EXCEPT ![p] = Row(state)]
  /\ pc' = [pc EXCEPT ![p] = "write"]
  /\ UNCHANGED <<reading, today, state, row, todo, ends, risen, raced>>

Write(p) ==
  /\ pc[p] = "write"
  /\ row' = copy[p]
  /\ pc' = [pc EXCEPT ![p] = "clean"]
  /\ UNCHANGED <<reading, today, state, todo, copy, ends, risen, raced>>

\* persistUser returns.
Returned(p) ==
  IF p # Ticker THEN "done" ELSE IF stopping THEN "stopped" ELSE "idle"

\* Mutant: the flag is cleared whatever came of the transaction.
DirtyNever(p) == FALSE

DirtyAfterFailure(p) == state.dirty

WriteFails(p) ==
  /\ pc[p] = "write"
  /\ failures < MaxFailures /\ failures' = failures + 1
  /\ pc' = [pc EXCEPT ![p] = Returned(p)]
  /\ copy' = [copy EXCEPT ![p] = NewRow]
  /\ state' = [state EXCEPT !.dirty = DirtyAfterFailure(p)]
  /\ UNCHANGED <<reading, today, row, todo, stopping, restarts, risen, raced>>

Clean(p) ==
  /\ pc[p] = "clean" /\ Unlocked
  /\ state' = [state EXCEPT !.dirty = FALSE]
  /\ pc' = [pc EXCEPT ![p] = Returned(p)]
  /\ copy' = [copy EXCEPT ![p] = NewRow]
  /\ UNCHANGED <<reading, today, row, todo, ends, risen, raced>>

-----------------------------------------------------------------------------
\* The process ends, with or without a last flush (main does not wait for it),
\* and starts again.
Restart ==
  /\ restarts < MaxRestarts /\ restarts' = restarts + 1
  /\ state' = Loaded(row)
  /\ stopping' = FALSE /\ raced' = FALSE
  /\ pc' = [p \in Savers |-> IF p # Ticker /\ pc[p] # "idle" THEN "done" ELSE "idle"]
  /\ todo' = {} /\ copy' = [p \in Savers |-> NewRow]
  /\ UNCHANGED <<reading, today, row, failures, risen>>

\* What devices and days do: a reading rises, falls (a level is reached), is
\* lost and found; a day begins.
World ==
  \/ \E s \in Sessions :
       /\ reading[s] # None
       /\ risen < MaxRisen /\ risen' = risen + 1
       /\ reading' = [reading EXCEPT ![s] = @ + 1]
       /\ UNCHANGED today
  \/ \E s \in Sessions, to \in {0, None} :
       /\ reading[s] # None \/ to = 0
       /\ reading' = [reading EXCEPT ![s] = to]
       /\ UNCHANGED <<today, risen>>
  \/ today < MaxDay /\ today' = today + 1 /\ UNCHANGED <<reading, risen>>

Environment == World /\ UNCHANGED <<state, row, procs, ends, raced>>

TickerStep ==
  \/ \E S \in SUBSET Sessions : TickBegins(S)
  \/ \E s \in Sessions : Sample(s)
  \/ \E next \in {"idle", "flush"} : TickEnds(next)
  \/ Flush
  \/ Cancel

Save(p) == Copy(p) \/ Write(p) \/ WriteFails(p) \/ Clean(p)

Next ==
  \/ TickerStep
  \/ Snapshot
  \/ \E r \in Resets : ResetTotal(r)
  \/ \E p \in Savers : Save(p)
  \/ Restart
  \/ Environment

Spec == Init /\ [][Next]_vars

-----------------------------------------------------------------------------
(***************************************************************************)
(* Properties.                                                             *)
(***************************************************************************)
Rows ==
  [total : Nat, daily : Nat, day : 0..MaxDay, session : Sessions \cup {None},
   last : Nat \cup {None}]

States ==
  [total : Nat, daily : Nat, day : 0..MaxDay, session : Sessions \cup {None},
   last : Nat \cup {None}, dirty : BOOLEAN, base : [Sessions -> Nat \cup {None}]]

\* The type invariant.
TypeOK ==
  /\ reading \in [Sessions -> Nat \cup {None}]
  /\ today \in 0..MaxDay
  /\ state \in States
  /\ row \in Rows /\ copy \in [Savers -> Rows]
  /\ todo \subseteq Sessions
  /\ pc \in [Savers -> {"idle", "sample", "flush", "copy", "write", "clean", "stopped", "done"}]
  /\ stopping \in BOOLEAN /\ restarts \in 0..MaxRestarts /\ failures \in 0..MaxFailures
  /\ risen \in 0..MaxRisen /\ raced \in BOOLEAN

\* Nothing is counted twice: whatever restarts, late and failed transactions do
\* to the baselines, no total exceeds the experience that was gained.
NeverOvercounted ==
  /\ state.total <= risen /\ state.daily <= risen
  /\ row.total <= risen /\ row.daily <= risen

\* The totals as of today: a row of yesterday is rolled when it is loaded.
Today(r) == <<r.total, IF r.day = today THEN r.daily ELSE 0>>

\* A clean state is a saved state, also while others are saving, provided that the
\* totals did not change while they were being saved (they may: see the README).
CleanIsSaved == ~state.dirty /\ ~raced => Today(row) = Today(state)
=============================================================================
