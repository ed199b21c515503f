---------------------------- MODULE ExpGainProofs ----------------------------
(***************************************************************************)
(* Theorems about ExpGain, for any number of sessions and requests, any    *)
(* experience, and any number of days, restarts and failed transactions.   *)
(*                                                                         *)
(* That nothing is counted twice is a statement about a sum over the       *)
(* sessions.  It is proved without sums: the units of experience that were *)
(* gained are the numbers 1..risen, and every unit is given to the total   *)
(* or to one session that has still to be sampled, never to two of them.   *)
(***************************************************************************)
EXTENDS ExpGain, FiniteSetTheorems, TLAPS

\* What the next sample of a session adds when its baseline is b and its
\* reading r.
Gap(b, r) == IF b # None /\ r # None /\ r > b THEN r - b ELSE 0

\* A unit that was counted is not to be counted again, and a unit that is to be
\* counted belongs to one session.
Apart(counted, pending) ==
  /\ \A s \in Sessions : pending[s] \cap counted = {}
  /\ \A s, t \in Sessions : s # t => pending[s] \cap pending[t] = {}

\* The totals of x are within what was counted; the baselines, and the one that a
\* restart takes from x, are within what is to be counted.
Covers(counted, pending, x, base, rd) ==
  /\ x.total <= Cardinality(counted) /\ x.daily <= Cardinality(counted)
  /\ \A s \in Sessions :
       /\ Gap(base[s], rd[s]) <= Cardinality(pending[s])
       /\ s = x.session => Gap(x.last, rd[s]) <= Cardinality(pending[s])

Covered(x, base, rd, n) ==
  \E counted \in SUBSET (1..n), pending \in [Sessions -> SUBSET (1..n)] :
    Apart(counted, pending) /\ Covers(counted, pending, x, base, rd)

\* A row has no baselines but the one of the session sampled last.
NoBase == [s \in Sessions |-> None]

CountInv ==
  /\ Covered(state, state.base, reading, risen)
  /\ Covered(row, NoBase, reading, risen)
  /\ \A p \in Savers : Covered(copy[p], NoBase, reading, risen)

\* No day is in the future.
DayInv ==
  row.day <= today /\ state.day <= today /\ \A p \in Savers : copy[p].day <= today

\* As long as nothing raced, whoever is between his copy and the end of his saving
\* has a copy that is still true, and a state that is clean, or about to be, is
\* saved.
SavedInv ==
  ~raced =>
    /\ \A p \in Savers : pc[p] \in {"write", "clean"} => Today(copy[p]) = Today(state)
    /\ ~state.dirty \/ (\E p \in Savers : pc[p] = "clean") => Today(row) = Today(state)

GainInv == TypeOK /\ CountInv /\ DayInv /\ SavedInv

Readings == Nat \cup {None}
Bases == [Sessions -> Readings]

-----------------------------------------------------------------------------
(***************************************************************************)
(* Units.                                                                  *)
(***************************************************************************)
LEMMA UnitsFinite ==
  ASSUME NEW n \in Nat, NEW S \in SUBSET (1..n)
  PROVE  IsFiniteSet(S) /\ Cardinality(S) \in 0..n
<1>1. IsFiniteSet(1..n) /\ Cardinality(1..n) = n
  BY FS_Interval
<1>2. IsFiniteSet(S) /\ Cardinality(S) <= n
  BY <1>1, FS_Subset
<1> QED BY <1>2, FS_CardinalityType

\* Who is covered has counted no more than what there is.
LEMMA CoveredBound ==
  ASSUME NEW n \in Nat, NEW x, x.total \in Nat, x.daily \in Nat,
         NEW base, NEW rd, Covered(x, base, rd, n)
  PROVE  x.total <= n /\ x.daily <= n
<1>1. PICK counted \in SUBSET (1..n) :
        x.total <= Cardinality(counted) /\ x.daily <= Cardinality(counted)
  BY DEF Covered, Covers
<1>2. Cardinality(counted) \in 0..n
  BY UnitsFinite
<1> QED BY <1>1, <1>2

LEMMA GapType ==
  ASSUME NEW b \in Readings, NEW r \in Readings
  PROVE  Gap(b, r) \in Nat
BY GainAssumption DEF Gap, Readings

\* Who counted nothing and has no baseline is covered.
LEMMA CoveredEmpty ==
  ASSUME NEW n \in Nat, NEW x, x.total = 0, x.daily = 0, x.last = None, NEW rd
  PROVE  Covered(x, NoBase, rd, n)
<1> DEFINE none == [s \in Sessions |-> {}]
<1>1. {} \in SUBSET (1..n) /\ none \in [Sessions -> SUBSET (1..n)]
  OBVIOUS
<1>2. Cardinality({}) = 0
  BY FS_EmptySet
<1>3. Apart({}, none)
  BY DEF Apart
<1>4. Covers({}, none, x, NoBase, rd)
  BY <1>2 DEF Covers, Gap, NoBase
<1> QED BY <1>1, <1>3, <1>4 DEF Covered

\* Totals may be lowered, and baselines given up.
LEMMA CoveredLess ==
  ASSUME NEW n \in Nat, NEW rd \in Bases,
         NEW x, x.total \in Nat, x.daily \in Nat, x.last \in Readings,
         NEW base \in Bases, Covered(x, base, rd, n),
         NEW y, y.total \in 0..x.total, y.daily \in 0..x.daily, NEW less \in Bases,
         y.session = x.session /\ y.last = x.last,
         \A s \in Sessions : \/ less[s] = None \/ less[s] = base[s]
                             \/ s = x.session /\ less[s] = x.last
  PROVE  Covered(y, less, rd, n)
<1>1. PICK counted \in SUBSET (1..n), pending \in [Sessions -> SUBSET (1..n)] :
        Apart(counted, pending) /\ Covers(counted, pending, x, base, rd)
  BY DEF Covered
<1>2. Cardinality(counted) \in Nat
  <2>1. Cardinality(counted) \in 0..n
    BY UnitsFinite
  <2> QED BY <2>1
<1>3. y.total <= Cardinality(counted) /\ y.daily <= Cardinality(counted)
  BY <1>1, <1>2 DEF Covers
<1>4. ASSUME NEW s \in Sessions
      PROVE  /\ Gap(less[s], rd[s]) <= Cardinality(pending[s])
             /\ s = y.session => Gap(y.last, rd[s]) <= Cardinality(pending[s])
  <2>1. Cardinality(pending[s]) \in Nat
    <3>1. pending[s] \in SUBSET (1..n)
      OBVIOUS
    <3> QED BY <3>1, UnitsFinite
  <2>2. Gap(None, rd[s]) = 0
    BY DEF Gap
  <2> QED BY <1>1, <2>1, <2>2 DEF Covers
<1>5. Covers(counted, pending, y, less, rd)
  BY <1>3, <1>4 DEF Covers
<1> QED BY <1>1, <1>5 DEF Covered

\* One more unit is gained by session t.
LEMMA CoveredRise ==
  ASSUME NEW n \in Nat, NEW rd \in Bases, NEW t \in Sessions, rd[t] # None,
         NEW x, x.last \in Readings, NEW base \in Bases, Covered(x, base, rd, n)
  PROVE  Covered(x, base, [rd EXCEPT ![t] = @ + 1], n + 1)
<1>1. PICK counted \in SUBSET (1..n), pending \in [Sessions -> SUBSET (1..n)] :
        Apart(counted, pending) /\ Covers(counted, pending, x, base, rd)
  BY DEF Covered
<1> DEFINE more == [pending EXCEPT ![t] = @ \cup {n + 1}]
           up == [rd EXCEPT ![t] = @ + 1]
<1>2. counted \in SUBSET (1..(n+1)) /\ more \in [Sessions -> SUBSET (1..(n+1))]
  <2>1. 1..n \subseteq 1..(n+1) /\ n + 1 \in 1..(n+1)
    OBVIOUS
  <2> QED BY <2>1
<1>3. n + 1 \notin counted /\ \A s \in Sessions : n + 1 \notin pending[s]
  <2>1. n + 1 \notin 1..n
    OBVIOUS
  <2>2. \A s \in Sessions : pending[s] \in SUBSET (1..n)
    OBVIOUS
  <2> QED BY <2>1, <2>2
<1>4. Apart(counted, more)
  BY <1>1, <1>3 DEF Apart
<1>5. ASSUME NEW s \in Sessions, NEW b \in Readings,
             Gap(b, rd[s]) <= Cardinality(pending[s])
      PROVE  Gap(b, up[s]) <= Cardinality(more[s])
  <2>1. pending[s] \in SUBSET (1..n)
    OBVIOUS
  <2>2. IsFiniteSet(pending[s]) /\ Cardinality(pending[s]) \in Nat
    BY <2>1, UnitsFinite
  <2>3. CASE s = t
    <3>1. Cardinality(more[s]) = Cardinality(pending[s]) + 1
      BY <1>3, <2>2, <2>3, FS_AddElement
    <3>2. rd[s] \in Nat /\ up[s] = rd[s] + 1
      BY <2>3 DEF Bases, Readings
    <3>3. Gap(b, rd[s] + 1) <= Gap(b, rd[s]) + 1
      <4>1. CASE b = None
        BY <4>1 DEF Gap
      <4>2. CASE b \in Nat
        BY <3>2, <4>2, GainAssumption DEF Gap
      <4> QED BY <4>1, <4>2 DEF Readings
    <3>4. rd[s] \in Readings /\ rd[s] + 1 \in Readings
      BY <3>2 DEF Readings
    <3>5. Gap(b, rd[s]) \in Nat /\ Gap(b, rd[s] + 1) \in Nat
      BY <3>4, GapType
    <3> QED BY <1>5, <2>2, <3>1, <3>2, <3>3, <3>5
  <2>4. CASE s # t
    BY <1>5, <2>4
  <2> QED BY <2>3, <2>4
<1>6. Covers(counted, more, x, base, up)
  <2>1. \A s \in Sessions : base[s] \in Readings
    BY DEF Bases
  <2> QED BY <1>1, <1>5, <2>1 DEF Covers
<1> QED BY <1>2, <1>4, <1>6 DEF Covered

\* A reading falls to zero, or is lost, or found.
LEMMA CoveredFall ==
  ASSUME NEW n \in Nat, NEW rd \in Bases, NEW t \in Sessions, NEW to \in {0, None},
         NEW x, x.last \in Readings, NEW base \in Bases, Covered(x, base, rd, n)
  PROVE  Covered(x, base, [rd EXCEPT ![t] = to], n)
<1>1. PICK counted \in SUBSET (1..n), pending \in [Sessions -> SUBSET (1..n)] :
        Apart(counted, pending) /\ Covers(counted, pending, x, base, rd)
  BY DEF Covered
<1> DEFINE down == [rd EXCEPT ![t] = to]
<1>2. ASSUME NEW s \in Sessions, NEW b \in Readings,
             Gap(b, rd[s]) <= Cardinality(pending[s])
      PROVE  Gap(b, down[s]) <= Cardinality(pending[s])
  <2>1. Cardinality(pending[s]) \in Nat
    <3>1. pending[s] \in SUBSET (1..n)
      OBVIOUS
    <3> QED BY <3>1, UnitsFinite
  <2>2. Gap(b, to) = 0
    BY GainAssumption DEF Gap, Readings
  <2>3. CASE s = t
    BY <2>1, <2>2, <2>3 DEF Bases
  <2>4. CASE s # t
    BY <1>2, <2>4
  <2> QED BY <2>3, <2>4
<1>3. Covers(counted, pending, x, base, down)
  <2>1. \A s \in Sessions : base[s] \in Readings
    BY DEF Bases
  <2> QED BY <1>1, <1>2, <2>1 DEF Covers
<1> QED BY <1>1, <1>3 DEF Covered

\* Session t is sampled: its units are counted.
LEMMA CoveredSample ==
  ASSUME NEW n \in Nat, NEW rd \in Bases, NEW t \in Sessions, rd[t] # None,
         NEW x, x.total \in Nat, x.daily \in Nat, x.last \in Readings,
         NEW base \in Bases, Covered(x, base, rd, n),
         NEW y, NEW after,
         y.total = x.total + Gap(base[t], rd[t]),
         y.daily = x.daily + Gap(base[t], rd[t]),
         y.session = t, y.last = rd[t], after = [base EXCEPT ![t] = rd[t]]
  PROVE  Covered(y, after, rd, n)
<1>1. PICK counted \in SUBSET (1..n), pending \in [Sessions -> SUBSET (1..n)] :
        Apart(counted, pending) /\ Covers(counted, pending, x, base, rd)
  BY DEF Covered
<1> DEFINE all == counted \cup pending[t]
           rest == [pending EXCEPT ![t] = {}]
<1>2. pending[t] \in SUBSET (1..n)
  OBVIOUS
<1>3. all \in SUBSET (1..n) /\ rest \in [Sessions -> SUBSET (1..n)]
  BY <1>2
<1>4. Apart(all, rest)
  BY <1>1 DEF Apart
<1>5. Cardinality(all) = Cardinality(counted) + Cardinality(pending[t])
  <2>1. IsFiniteSet(counted) /\ Cardinality(counted) \in Nat
    BY UnitsFinite
  <2>2. IsFiniteSet(pending[t]) /\ Cardinality(pending[t]) \in Nat
    BY <1>2, UnitsFinite
  <2>3. counted \cap pending[t] = {}
    BY <1>1 DEF Apart
  <2>4. Cardinality(counted \cap pending[t]) = 0
    BY <2>3, FS_EmptySet
  <2>5. Cardinality(all)
          = Cardinality(counted) + Cardinality(pending[t])
              - Cardinality(counted \cap pending[t])
    BY <2>1, <2>2, FS_Union
  <2> QED BY <2>1, <2>2, <2>4, <2>5
<1>6. y.total <= Cardinality(all) /\ y.daily <= Cardinality(all)
  <2>1. Cardinality(counted) \in Nat
    BY UnitsFinite
  <2>2. Cardinality(pending[t]) \in Nat
    BY <1>2, UnitsFinite
  <2>3. Gap(base[t], rd[t]) \in Nat
    BY GapType DEF Bases
  <2>4. Gap(base[t], rd[t]) <= Cardinality(pending[t])
    BY <1>1 DEF Covers
  <2>5. x.total <= Cardinality(counted) /\ x.daily <= Cardinality(counted)
    BY <1>1 DEF Covers
  <2> QED BY <1>5, <2>1, <2>2, <2>3, <2>4, <2>5
<1>7. ASSUME NEW s \in Sessions
      PROVE  /\ Gap(after[s], rd[s]) <= Cardinality(rest[s])
             /\ s = y.session => Gap(y.last, rd[s]) <= Cardinality(rest[s])
  <2>1. Gap(rd[t], rd[t]) = 0
    <3>1. rd[t] \in Nat
      BY DEF Bases, Readings
    <3>2. ~(rd[t] > rd[t])
      BY <3>1
    <3> QED BY <3>2 DEF Gap
  <2>2. Cardinality({}) = 0
    BY FS_EmptySet
  <2>3. CASE s = t
    <3>1. after[s] = rd[s] /\ rest[s] = {}
      BY <2>3 DEF Bases
    <3> HIDE DEF rest
    <3> QED BY <2>1, <2>2, <2>3, <3>1
  <2>4. CASE s # t
    BY <1>1, <2>4 DEF Bases, Covers
  <2> QED BY <2>3, <2>4
<1>8. Covers(all, rest, y, after, rd)
  BY <1>6, <1>7 DEF Covers
<1> QED BY <1>3, <1>4, <1>8 DEF Covered

-----------------------------------------------------------------------------
(***************************************************************************)
(* The operators of the model.                                             *)
(***************************************************************************)
\* Rolling a day changes nothing but the day's own total.
LEMMA RolledFacts ==
  ASSUME TypeOK, NEW st \in States
  PROVE  /\ Rolled(st) \in States
         /\ Rolled(st).total = st.total /\ Rolled(st).daily \in 0..st.daily
         /\ Rolled(st).session = st.session /\ Rolled(st).last = st.last
         /\ Rolled(st).base = st.base
         /\ st.day <= today => Rolled(st).day <= today /\ Today(Rolled(st)) = Today(st)
         /\ ~Rolled(st).dirty => ~st.dirty
<1>1. CASE st.day < today
  <2> DEFINE new == [st EXCEPT !.day = today, !.daily = 0, !.dirty = TRUE]
  <2>1. Rolled(st) = new
    BY <1>1 DEF Rolled
  <2>2. new \in States
    BY GainAssumption DEF TypeOK, States
  <2>3. /\ new.total = st.total /\ new.daily = 0 /\ new.day = today
        /\ new.session = st.session /\ new.last = st.last /\ new.base = st.base
        /\ new.dirty = TRUE
    BY DEF States
  <2>4. today \in Nat /\ st.day \in Nat /\ st.daily \in Nat
    BY GainAssumption DEF TypeOK, States
  <2>5. Today(new) = Today(st)
    BY <1>1, <2>3, <2>4 DEF Today
  <2> HIDE DEF new
  <2> QED BY <2>1, <2>2, <2>3, <2>4, <2>5
<1>2. CASE ~(st.day < today)
  <2>1. Rolled(st) = st
    BY <1>2 DEF Rolled
  <2>2. st.daily \in 0..st.daily
    BY DEF States
  <2> QED BY <2>1, <2>2
<1> QED BY <1>1, <1>2

LEMMA GainIsGap ==
  ASSUME TypeOK, NEW s \in Sessions, reading[s] # None
  PROVE  /\ GainOf(state, s) = Gap(state.base[s], reading[s])
         /\ GainOf(state, s) \in Nat
<1>1. reading[s] \in Nat /\ state.base[s] \in Nat \cup {None}
  BY DEF TypeOK, States
<1> QED BY <1>1, GainAssumption DEF GainOf, Gap

LEMMA SampledType ==
  ASSUME TypeOK, NEW s \in Sessions
  PROVE  Sampled(state, s) \in States
<1>1. BaseAfter(state, s) \in [Sessions -> Nat \cup {None}]
  BY DEF TypeOK, States, BaseAfter
<1>2. CASE reading[s] = None
  BY <1>1, <1>2 DEF Sampled, TypeOK, States
<1>3. CASE reading[s] # None
  <2>1. GainOf(state, s) \in Nat
    BY <1>3, GainIsGap
  <2>2. state.total + GainOf(state, s) \in Nat /\ state.daily + GainOf(state, s) \in Nat
    BY <2>1 DEF TypeOK, States
  <2>3. (state.dirty \/ state.base[s] = None \/ GainOf(state, s) > 0) \in BOOLEAN
    OBVIOUS
  <2>4. reading[s] \in Nat \cup {None}
    BY DEF TypeOK
  <2> QED BY <1>1, <1>3, <2>2, <2>3, <2>4 DEF Sampled, TypeOK, States
<1> QED BY <1>2, <1>3

LEMMA NewRowType == NewRow \in Rows
BY GainAssumption DEF NewRow, Rows

LEMMA RowType ==
  ASSUME NEW st \in States
  PROVE  Row(st) \in Rows
BY DEF Row, Rows, States

\* What a restart takes from the row.
LEMMA LoadedFacts ==
  ASSUME TypeOK
  PROVE  /\ Loaded(row) \in States
         /\ Loaded(row).total = row.total /\ Loaded(row).daily \in 0..row.daily
         /\ Loaded(row).session = row.session /\ Loaded(row).last = row.last
         /\ \A s \in Sessions :
              Loaded(row).base[s] = IF s = row.session THEN row.last ELSE None
         /\ row.day <= today =>
              Loaded(row).day <= today /\ Today(Loaded(row)) = Today(row)
<1> DEFINE st ==
      [total |-> row.total, daily |-> row.daily, day |-> row.day,
       session |-> row.session, last |-> row.last, dirty |-> FALSE,
       base |-> [s \in Sessions |-> IF s = row.session THEN row.last ELSE None]]
<1>1. st \in States
  BY DEF TypeOK, Rows, States
<1>2. Loaded(row) = Rolled(st)
  BY DEF Loaded
<1>3. Today(st) = Today(row)
  BY DEF Today
<1>4. /\ st.total = row.total /\ st.daily = row.daily /\ st.day = row.day
      /\ st.session = row.session /\ st.last = row.last
      /\ \A s \in Sessions : st.base[s] = IF s = row.session THEN row.last ELSE None
  OBVIOUS
<1> HIDE DEF st
<1>5. /\ Rolled(st) \in States
      /\ Rolled(st).total = st.total /\ Rolled(st).daily \in 0..st.daily
      /\ Rolled(st).session = st.session /\ Rolled(st).last = st.last
      /\ Rolled(st).base = st.base
      /\ st.day <= today => Rolled(st).day <= today /\ Today(Rolled(st)) = Today(st)
  BY <1>1, RolledFacts
<1> QED BY <1>2, <1>3, <1>4, <1>5

-----------------------------------------------------------------------------
(***************************************************************************)
(* Types.                                                                  *)
(***************************************************************************)
LEMMA GainTypeInit == Init => TypeOK
<1> SUFFICES ASSUME Init
             PROVE  TypeOK
  OBVIOUS
<1>1. state \in States
  BY GainAssumption DEF Init, States
<1>2. row \in Rows /\ copy \in [Savers -> Rows]
  BY NewRowType DEF Init
<1>3. reading \in [Sessions -> Nat \cup {None}]
  BY {0, None} \subseteq Nat \cup {None} DEF Init
<1>4. /\ restarts \in 0..MaxRestarts /\ failures \in 0..MaxFailures
      /\ risen \in 0..MaxRisen /\ today \in 0..MaxDay
  <2>1. /\ 0 \in 0..MaxRestarts /\ 0 \in 0..MaxFailures
        /\ 0 \in 0..MaxRisen /\ 0 \in 0..MaxDay
    BY GainAssumption
  <2> QED BY <2>1 DEF Init
<1> QED BY <1>1, <1>2, <1>3, <1>4 DEF Init, TypeOK

LEMMA GainTypeStep == TypeOK /\ [Next]_vars => TypeOK'
<1> SUFFICES ASSUME TypeOK, [Next]_vars
             PROVE  TypeOK'
  OBVIOUS
<1> USE GainAssumption DEF Savers
<1>1. ASSUME NEW S \in SUBSET Sessions, TickBegins(S)
      PROVE  TypeOK'
  <2>1. Rolled(state) \in States
    BY RolledFacts DEF TypeOK
  <2> QED BY <1>1, <2>1 DEF TickBegins, TypeOK, ends
<1>2. ASSUME NEW s \in Sessions, Sample(s)
      PROVE  TypeOK'
  <2>1. Sampled(state, s) \in States
    BY SampledType
  <2>2. raced' \in BOOLEAN
    BY <1>2 DEF Sample, Race, TypeOK
  <2> QED BY <1>2, <2>1, <2>2 DEF Sample, TypeOK, ends
<1>3. ASSUME NEW to \in {"idle", "flush"}, TickEnds(to)
      PROVE  TypeOK'
  BY <1>3 DEF TickEnds, TypeOK, ends
<1>4. CASE Flush
  BY <1>4 DEF Flush, TypeOK, ends
<1>5. CASE Cancel
  BY <1>5 DEF Cancel, TypeOK, ends
<1>6. CASE Snapshot
  <2>1. Rolled(state) \in States
    BY RolledFacts DEF TypeOK
  <2> QED BY <1>6, <2>1 DEF Snapshot, TypeOK, ends, procs
<1>7. ASSUME NEW r \in Resets, ResetTotal(r)
      PROVE  TypeOK'
  <2>1. Rolled(state) \in States
    BY RolledFacts DEF TypeOK
  <2>2. [Rolled(state) EXCEPT !.total = 0, !.dirty = TRUE] \in States
    BY <2>1 DEF States
  <2>3. raced' \in BOOLEAN
    BY <1>7 DEF ResetTotal, Race, TypeOK
  <2> QED BY <1>7, <2>2, <2>3 DEF ResetTotal, TypeOK, ends
<1>8. ASSUME NEW p \in Savers, Copy(p)
      PROVE  TypeOK'
  <2>1. Row(state) \in Rows
    BY RowType DEF TypeOK
  <2> QED BY <1>8, <2>1 DEF Copy, TypeOK, ends
<1>9. ASSUME NEW p \in Savers, Write(p)
      PROVE  TypeOK'
  BY <1>9 DEF Write, TypeOK, ends
<1>10. ASSUME NEW p \in Savers, WriteFails(p)
       PROVE  TypeOK'
  <2>1. state' \in States
    BY <1>10 DEF WriteFails, DirtyAfterFailure, TypeOK, States
  <2>2. copy' \in [Savers -> Rows]
    BY <1>10, NewRowType DEF WriteFails, TypeOK
  <2>3. failures' \in 0..MaxFailures
    BY <1>10 DEF WriteFails, TypeOK
  <2> QED BY <1>10, <2>1, <2>2, <2>3 DEF WriteFails, Returned, TypeOK
<1>11. ASSUME NEW p \in Savers, Clean(p)
       PROVE  TypeOK'
  <2>1. state' \in States
    BY <1>11 DEF Clean, TypeOK, States
  <2>2. copy' \in [Savers -> Rows]
    BY <1>11, NewRowType DEF Clean, TypeOK
  <2> QED BY <1>11, <2>1, <2>2 DEF Clean, Returned, TypeOK, ends
<1>12. CASE Restart
  <2>1. Loaded(row) \in States
    BY LoadedFacts
  <2>2. copy' \in [Savers -> Rows] /\ todo' \subseteq Sessions
    BY <1>12, NewRowType DEF Restart
  <2>3. pc' \in [Savers -> {"idle", "done"}]
    BY <1>12 DEF Restart
  <2>4. restarts' \in 0..MaxRestarts
    BY <1>12 DEF Restart, TypeOK
  <2> QED BY <1>12, <2>1, <2>2, <2>3, <2>4 DEF Restart, TypeOK
<1>13. CASE Environment
  BY <1>13 DEF Environment, World, TypeOK, procs, ends
<1>14. CASE UNCHANGED vars
  BY <1>14 DEF vars, procs, ends, TypeOK
<1> QED BY <1>1, <1>2, <1>3, <1>4, <1>5, <1>6, <1>7, <1>8, <1>9, <1>10, <1>11,
           <1>12, <1>13, <1>14 DEF Next, TickerStep, Save

\* Totals, days, readings and baselines have the type of their Go fields.
THEOREM GainTypeOK == Spec => []TypeOK
BY GainTypeInit, GainTypeStep, PTL DEF Spec

-----------------------------------------------------------------------------
(***************************************************************************)
(* Nothing is counted twice.                                               *)
(***************************************************************************)
\* The fields of a row and of the state, as the lemmas above want them.
LEMMA FieldTypes ==
  ASSUME TypeOK
  PROVE  /\ risen \in Nat /\ reading \in Bases /\ NoBase \in Bases
         /\ state.total \in Nat /\ state.daily \in Nat /\ state.last \in Readings
         /\ state.base \in Bases
         /\ row.total \in Nat /\ row.daily \in Nat /\ row.last \in Readings
         /\ \A p \in Savers : copy[p].last \in Readings
BY GainAssumption DEF TypeOK, States, Rows, Bases, Readings, NoBase

LEMMA CountInit == Init => CountInv
<1> SUFFICES ASSUME Init
             PROVE  CountInv
  OBVIOUS
<1>1. risen \in Nat /\ state.base = NoBase
  BY DEF Init, NoBase
<1>2. state.total = 0 /\ state.daily = 0 /\ state.last = None
  BY DEF Init
<1>3. row.total = 0 /\ row.daily = 0 /\ row.last = None
  BY DEF Init, NewRow
<1>4. \A p \in Savers : copy[p] = row
  BY DEF Init
<1>5. Covered(state, NoBase, reading, risen)
  BY <1>1, <1>2, CoveredEmpty
<1>6. Covered(row, NoBase, reading, risen)
  BY <1>1, <1>3, CoveredEmpty
<1> QED BY <1>1, <1>4, <1>5, <1>6 DEF CountInv

\* A change of the state that lowers totals or gives baselines up.
LEMMA LowerState ==
  ASSUME TypeOK, CountInv, NEW y,
         y.total \in 0..state.total, y.daily \in 0..state.daily,
         y.session = state.session, y.last = state.last, NEW less \in Bases,
         \A s \in Sessions : less[s] = None \/ less[s] = state.base[s]
  PROVE  Covered(y, less, reading, risen)
<1>1. Covered(state, state.base, reading, risen)
  BY DEF CountInv
<1> QED BY <1>1, FieldTypes, CoveredLess

LEMMA NewRowCovered ==
  ASSUME TypeOK
  PROVE  Covered(NewRow, NoBase, reading, risen)
<1>1. NewRow.total = 0 /\ NewRow.daily = 0 /\ NewRow.last = None
  BY DEF NewRow
<1>2. risen \in Nat
  BY FieldTypes
<1> QED BY <1>1, <1>2, CoveredEmpty

LEMMA SampleCovered ==
  ASSUME TypeOK, CountInv, NEW t \in Sessions
  PROVE  Covered(Sampled(state, t), Sampled(state, t).base, reading, risen)
<1> DEFINE y == Sampled(state, t)
           after == BaseAfter(state, t)
<1>1. after \in Bases
  BY FieldTypes DEF BaseAfter, Bases
<1>2. CASE reading[t] = None
  <2>1. y = [state EXCEPT !.base = after]
    BY <1>2 DEF Sampled
  <2>2. /\ y.total = state.total /\ y.daily = state.daily
        /\ y.session = state.session /\ y.last = state.last /\ y.base = after
    BY <2>1 DEF TypeOK, States
  <2>3. y.total \in 0..state.total /\ y.daily \in 0..state.daily
    BY <2>2, FieldTypes
  <2>4. \A s \in Sessions : after[s] = None \/ after[s] = state.base[s]
    BY <1>2, FieldTypes DEF BaseAfter, Bases
  <2> HIDE DEF y, after
  <2>5. Covered(y, after, reading, risen)
    BY <1>1, <2>2, <2>3, <2>4, LowerState
  <2> QED BY <2>2, <2>5 DEF y
<1>3. CASE reading[t] # None
  <2>1. GainOf(state, t) = Gap(state.base[t], reading[t])
    BY <1>3, GainIsGap
  <2>2. /\ y.total = state.total + GainOf(state, t)
        /\ y.daily = state.daily + GainOf(state, t)
        /\ y.session = t /\ y.last = reading[t] /\ y.base = after
    BY <1>3 DEF Sampled, TypeOK, States
  <2>3. after = [state.base EXCEPT ![t] = reading[t]]
    BY DEF BaseAfter
  <2>4. Covered(state, state.base, reading, risen)
    BY DEF CountInv
  <2> HIDE DEF y, after
  <2>5. Covered(y, after, reading, risen)
    BY <1>3, <2>1, <2>2, <2>3, <2>4, FieldTypes, CoveredSample
  <2> QED BY <2>2, <2>5 DEF y
<1> QED BY <1>2, <1>3

LEMMA CountStep == TypeOK /\ TypeOK' /\ CountInv /\ [Next]_vars => CountInv'
<1> SUFFICES ASSUME TypeOK, TypeOK', CountInv, [Next]_vars
             PROVE  CountInv'
  OBVIOUS
<1>0. /\ Covered(state, state.base, reading, risen)
      /\ Covered(row, NoBase, reading, risen)
      /\ \A p \in Savers : Covered(copy[p], NoBase, reading, risen)
  BY DEF CountInv
\* A step may change the totals, the row, the copies, or the readings.
<1>a. ASSUME UNCHANGED <<row, copy, reading, risen>>,
             Covered(state', state'.base, reading, risen)
      PROVE  CountInv'
  BY <1>0, <1>a DEF CountInv
<1>b. ASSUME UNCHANGED <<row, reading, risen>>, NEW p \in Savers, NEW r,
             Covered(r, NoBase, reading, risen), copy' = [copy EXCEPT ![p] = r],
             Covered(state', state'.base, reading, risen)
      PROVE  CountInv'
  <2>1. \A q \in Savers : copy'[q] = r \/ copy'[q] = copy[q]
    BY <1>b DEF TypeOK
  <2> QED BY <1>0, <1>b, <2>1 DEF CountInv
<1>c. Covered(Rolled(state), Rolled(state).base, reading, risen)
  <2>1. state \in States
    BY DEF TypeOK
  <2>2. /\ Rolled(state).total = state.total /\ Rolled(state).daily \in 0..state.daily
        /\ Rolled(state).session = state.session /\ Rolled(state).last = state.last
        /\ Rolled(state).base = state.base
    BY <2>1, RolledFacts
  <2>3. Rolled(state).total \in 0..state.total
    BY <2>2, FieldTypes
  <2> QED BY <2>2, <2>3, FieldTypes, LowerState
<1>d. ASSUME NEW d, state' = [state EXCEPT !.dirty = d]
      PROVE  Covered(state', state'.base, reading, risen)
  <2>1. /\ state'.total = state.total /\ state'.daily = state.daily
        /\ state'.session = state.session /\ state'.last = state.last
        /\ state'.base = state.base
    BY <1>d DEF TypeOK, States
  <2>2. state'.total \in 0..state.total /\ state'.daily \in 0..state.daily
    BY <2>1, FieldTypes
  <2> QED BY <2>1, <2>2, FieldTypes, LowerState
<1>1. ASSUME NEW S \in SUBSET Sessions, TickBegins(S)
      PROVE  CountInv'
  BY <1>1, <1>a, <1>c DEF TickBegins
<1>2. ASSUME NEW s \in Sessions, Sample(s)
      PROVE  CountInv'
  BY <1>2, <1>a, SampleCovered DEF Sample
<1>3. ASSUME NEW to \in {"idle", "flush"}, TickEnds(to)
      PROVE  CountInv'
  BY <1>0, <1>3, <1>a DEF TickEnds
<1>4. CASE Flush \/ Cancel
  BY <1>0, <1>4, <1>a DEF Flush, Cancel
<1>5. CASE Snapshot
  BY <1>5, <1>a, <1>c DEF Snapshot, procs
<1>6. ASSUME NEW r \in Resets, ResetTotal(r)
      PROVE  CountInv'
  <2>1. state \in States
    BY DEF TypeOK
  <2>2. /\ Rolled(state) \in States /\ Rolled(state).daily \in 0..state.daily
        /\ Rolled(state).session = state.session /\ Rolled(state).last = state.last
        /\ Rolled(state).base = state.base
    BY <2>1, RolledFacts
  <2>3. state' = [Rolled(state) EXCEPT !.total = 0, !.dirty = TRUE]
    BY <1>6 DEF ResetTotal
  <2>4. /\ state'.total = 0 /\ state'.daily = Rolled(state).daily
        /\ state'.session = Rolled(state).session /\ state'.last = Rolled(state).last
        /\ state'.base = Rolled(state).base
    BY <2>2, <2>3 DEF States
  <2>5. state'.total \in 0..state.total /\ state'.daily \in 0..state.daily
    BY <2>2, <2>4, FieldTypes
  <2>6. Covered(state', state'.base, reading, risen)
    BY <2>2, <2>4, <2>5, FieldTypes, LowerState
  <2> QED BY <1>6, <1>a, <2>6 DEF ResetTotal
<1>7. ASSUME NEW p \in Savers, Copy(p)
      PROVE  CountInv'
  <2>1. /\ Row(state).total = state.total /\ Row(state).daily = state.daily
        /\ Row(state).session = state.session /\ Row(state).last = state.last
    BY DEF Row
  <2>2. Row(state).total \in 0..state.total /\ Row(state).daily \in 0..state.daily
    BY <2>1, FieldTypes
  <2>3. \A s \in Sessions : NoBase[s] = None
    BY DEF NoBase
  <2>4. Covered(Row(state), NoBase, reading, risen)
    BY <2>1, <2>2, <2>3, FieldTypes, LowerState
  <2> QED BY <1>0, <1>7, <1>b, <2>4 DEF Copy
<1>8. ASSUME NEW p \in Savers, Write(p)
      PROVE  CountInv'
  BY <1>0, <1>8 DEF Write, CountInv
<1>9. ASSUME NEW p \in Savers, WriteFails(p)
      PROVE  CountInv'
  <2>1. Covered(state', state'.base, reading, risen)
    BY <1>9, <1>d DEF WriteFails
  <2> QED BY <1>9, <1>b, <2>1, NewRowCovered DEF WriteFails
<1>10. ASSUME NEW p \in Savers, Clean(p)
       PROVE  CountInv'
  <2>1. Covered(state', state'.base, reading, risen)
    BY <1>10, <1>d DEF Clean
  <2> QED BY <1>10, <1>b, <2>1, NewRowCovered DEF Clean
<1>11. CASE Restart
  <2>1. /\ Loaded(row) \in States
        /\ Loaded(row).total = row.total /\ Loaded(row).daily \in 0..row.daily
        /\ Loaded(row).session = row.session /\ Loaded(row).last = row.last
        /\ \A s \in Sessions :
             Loaded(row).base[s] = IF s = row.session THEN row.last ELSE None
    BY LoadedFacts
  <2>2. \A s \in Sessions : \/ Loaded(row).base[s] = None
                            \/ Loaded(row).base[s] = NoBase[s]
                            \/ s = row.session /\ Loaded(row).base[s] = row.last
    BY <2>1
  <2>3. Loaded(row).base \in Bases
    BY <2>1 DEF States, Bases, Readings
  <2>4. Loaded(row).total \in 0..row.total
    BY <2>1, FieldTypes
  <2>5. Covered(Loaded(row), Loaded(row).base, reading, risen)
    BY <1>0, <2>1, <2>2, <2>3, <2>4, FieldTypes, CoveredLess
  <2>6. /\ state' = Loaded(row) /\ UNCHANGED <<row, reading, risen>>
        /\ \A p \in Savers : copy'[p] = NewRow
    BY <1>11 DEF Restart
  <2> QED BY <1>0, <2>5, <2>6, NewRowCovered DEF CountInv
<1>12. CASE Environment
  <2>1. UNCHANGED <<state, row, copy>>
    BY <1>12 DEF Environment, procs
  <2>2. ASSUME NEW s \in Sessions, reading[s] # None, risen' = risen + 1,
               reading' = [reading EXCEPT ![s] = @ + 1]
        PROVE  CountInv'
    <3>1. Covered(state, state.base, reading', risen')
      BY <1>0, <2>2, FieldTypes, CoveredRise
    <3>2. Covered(row, NoBase, reading', risen')
      BY <1>0, <2>2, FieldTypes, CoveredRise
    <3>3. ASSUME NEW p \in Savers
          PROVE  Covered(copy[p], NoBase, reading', risen')
      <4>1. copy[p].last \in Readings
        BY FieldTypes
      <4> QED BY <1>0, <2>2, <4>1, FieldTypes, CoveredRise
    <3> QED BY <2>1, <3>1, <3>2, <3>3 DEF CountInv
  <2>3. ASSUME NEW s \in Sessions, NEW to \in {0, None}, UNCHANGED risen,
               reading' = [reading EXCEPT ![s] = to]
        PROVE  CountInv'
    <3>1. Covered(state, state.base, reading', risen')
      BY <1>0, <2>3, FieldTypes, CoveredFall
    <3>2. Covered(row, NoBase, reading', risen')
      BY <1>0, <2>3, FieldTypes, CoveredFall
    <3>3. ASSUME NEW p \in Savers
          PROVE  Covered(copy[p], NoBase, reading', risen')
      <4>1. copy[p].last \in Readings
        BY FieldTypes
      <4> QED BY <1>0, <2>3, <4>1, FieldTypes, CoveredFall
    <3> QED BY <2>1, <3>1, <3>2, <3>3 DEF CountInv
  <2>4. CASE UNCHANGED <<reading, risen>>
    BY <2>1, <2>4 DEF CountInv
  <2> QED BY <1>12, <2>2, <2>3, <2>4 DEF Environment, World
<1>13. CASE UNCHANGED vars
  BY <1>13 DEF vars, procs, CountInv
<1> QED BY <1>1, <1>2, <1>3, <1>4, <1>5, <1>6, <1>7, <1>8, <1>9, <1>10, <1>11,
           <1>12, <1>13 DEF Next, TickerStep, Save

-----------------------------------------------------------------------------
(***************************************************************************)
(* A clean state is saved.                                                 *)
(***************************************************************************)
LEMMA DayStep == TypeOK /\ DayInv /\ [Next]_vars => DayInv'
<1> SUFFICES ASSUME TypeOK, DayInv, [Next]_vars
             PROVE  DayInv'
  OBVIOUS
<1>0. /\ row.day <= today /\ state.day <= today
      /\ \A p \in Savers : copy[p].day <= today
  BY DEF DayInv
<1>a. ASSUME UNCHANGED <<today, row>>, state'.day <= today,
             \A p \in Savers : copy'[p].day <= today
      PROVE  DayInv'
  BY <1>0, <1>a DEF DayInv
<1>b. Rolled(state).day <= today
  <2>1. state \in States
    BY DEF TypeOK
  <2> QED BY <1>0, <2>1, RolledFacts
<1>c. NewRow.day <= today
  <2>1. today \in Nat
    BY GainAssumption DEF TypeOK
  <2> QED BY <2>1 DEF NewRow
<1>1. ASSUME NEW S \in SUBSET Sessions, TickBegins(S)
      PROVE  DayInv'
  BY <1>0, <1>1, <1>a, <1>b DEF TickBegins
<1>2. ASSUME NEW s \in Sessions, Sample(s)
      PROVE  DayInv'
  <2>1. Sampled(state, s).day = state.day
    BY DEF Sampled, TypeOK, States
  <2> QED BY <1>0, <1>2, <1>a, <2>1 DEF Sample
<1>3. CASE \/ \E to \in {"idle", "flush"} : TickEnds(to)
           \/ Flush \/ Cancel
  BY <1>0, <1>3, <1>a DEF TickEnds, Flush, Cancel
<1>4. CASE Snapshot
  BY <1>0, <1>4, <1>a, <1>b DEF Snapshot, procs
<1>5. ASSUME NEW r \in Resets, ResetTotal(r)
      PROVE  DayInv'
  <2>1. Rolled(state) \in States
    BY RolledFacts DEF TypeOK
  <2>2. state'.day = Rolled(state).day
    BY <1>5, <2>1 DEF ResetTotal, States
  <2> QED BY <1>0, <1>5, <1>a, <1>b, <2>2 DEF ResetTotal
<1>6. ASSUME NEW p \in Savers, Copy(p)
      PROVE  DayInv'
  <2>1. Row(state).day = state.day
    BY DEF Row
  <2>2. \A q \in Savers : copy'[q] = copy[q] \/ copy'[q] = Row(state)
    BY <1>6 DEF Copy, TypeOK
  <2> QED BY <1>0, <1>6, <1>a, <2>1, <2>2 DEF Copy
<1>7. ASSUME NEW p \in Savers, Write(p)
      PROVE  DayInv'
  BY <1>0, <1>7 DEF Write, DayInv
<1>8. ASSUME NEW p \in Savers, WriteFails(p) \/ Clean(p)
      PROVE  DayInv'
  <2>1. \A q \in Savers : copy'[q] = copy[q] \/ copy'[q] = NewRow
    BY <1>8 DEF WriteFails, Clean, TypeOK
  <2>2. state'.day = state.day
    BY <1>8 DEF WriteFails, Clean, TypeOK, States
  <2> QED BY <1>0, <1>8, <1>a, <1>c, <2>1, <2>2 DEF WriteFails, Clean
<1>9. CASE Restart
  <2>1. Loaded(row).day <= today
    BY <1>0, LoadedFacts
  <2> QED BY <1>9, <1>0, <1>a, <1>c, <2>1 DEF Restart
<1>10. CASE Environment
  <2>1. UNCHANGED <<state, row, copy>>
    BY <1>10 DEF Environment, procs
  <2>2. today' = today \/ today' = today + 1
    BY <1>10 DEF Environment, World
  <2>3. /\ today \in Int /\ row.day \in Int /\ state.day \in Int
        /\ \A p \in Savers : copy[p].day \in Int
    BY GainAssumption DEF TypeOK, Rows, States
  <2> QED BY <1>0, <2>1, <2>2, <2>3 DEF DayInv
<1>11. CASE UNCHANGED vars
  BY <1>11 DEF vars, procs, DayInv
<1> QED BY <1>1, <1>2, <1>3, <1>4, <1>5, <1>6, <1>7, <1>8, <1>9, <1>10, <1>11
        DEF Next, TickerStep, Save

\* A sample that adds something makes the state dirty; one that adds nothing
\* leaves the totals and the flag as they were, or makes it dirty.
LEMMA SampledDirty ==
  ASSUME TypeOK, NEW s \in Sessions
  PROVE  /\ Sampled(state, s).total # state.total => Sampled(state, s).dirty
         /\ Sampled(state, s).total = state.total => Today(Sampled(state, s)) = Today(state)
         /\ ~Sampled(state, s).dirty => ~state.dirty
<1>1. CASE reading[s] = None
  <2>1. Sampled(state, s) = [state EXCEPT !.base = BaseAfter(state, s)]
    BY <1>1 DEF Sampled
  <2>2. /\ Sampled(state, s).total = state.total /\ Sampled(state, s).daily = state.daily
        /\ Sampled(state, s).day = state.day /\ Sampled(state, s).dirty = state.dirty
    BY <2>1 DEF TypeOK, States
  <2> QED BY <2>2 DEF Today
<1>2. CASE reading[s] # None
  <2>1. /\ Sampled(state, s).total = state.total + GainOf(state, s)
        /\ Sampled(state, s).daily = state.daily + GainOf(state, s)
        /\ Sampled(state, s).day = state.day
        /\ Sampled(state, s).dirty
             = (state.dirty \/ state.base[s] = None \/ GainOf(state, s) > 0)
    BY <1>2 DEF Sampled, TypeOK, States
  <2>2. GainOf(state, s) \in Nat /\ state.total \in Nat /\ state.daily \in Nat
    BY <1>2, GainIsGap DEF TypeOK, States
  <2>3. Sampled(state, s).total = state.total => GainOf(state, s) = 0
    BY <2>1, <2>2
  <2>4. Sampled(state, s).total # state.total => GainOf(state, s) > 0
    BY <2>1, <2>2
  <2>5. GainOf(state, s) = 0 => Sampled(state, s).daily = state.daily
    BY <2>1, <2>2
  <2>6. Sampled(state, s).total = state.total => Today(Sampled(state, s)) = Today(state)
    BY <2>1, <2>3, <2>5 DEF Today
  <2> QED BY <2>1, <2>4, <2>6
<1> QED BY <1>1, <1>2

LEMMA SavedStep == TypeOK /\ DayInv /\ SavedInv /\ [Next]_vars => SavedInv'
<1> SUFFICES ASSUME TypeOK, DayInv, SavedInv, [Next]_vars, ~raced'
             PROVE  /\ \A p \in Savers :
                         pc'[p] \in {"write", "clean"} => Today(copy[p])' = Today(state)'
                    /\ ~state'.dirty \/ (\E p \in Savers : pc'[p] = "clean") =>
                         Today(row)' = Today(state)'
  BY DEF SavedInv
<1> DEFINE Goal == /\ \A p \in Savers :
                        pc'[p] \in {"write", "clean"} => Today(copy[p])' = Today(state)'
                   /\ ~state'.dirty \/ (\E p \in Savers : pc'[p] = "clean") =>
                        Today(row)' = Today(state)'
<1>0. ASSUME ~raced
      PROVE  /\ \A p \in Savers :
                  pc[p] \in {"write", "clean"} => Today(copy[p]) = Today(state)
             /\ ~state.dirty \/ (\E p \in Savers : pc[p] = "clean") =>
                  Today(row) = Today(state)
  BY <1>0 DEF SavedInv
\* A step of one process that leaves the totals of the day as they are, makes
\* nothing clean, and brings nobody into a saving.
<1>a. ASSUME UNCHANGED <<today, row, copy, raced>>, Today(state)' = Today(state),
             ~state'.dirty => ~state.dirty,
             \A p \in Savers : pc'[p] = pc[p] \/ pc'[p] \notin {"write", "clean"}
      PROVE  Goal
  BY <1>0, <1>a DEF Today
<1>b. Today(Rolled(state)) = Today(state) /\ (~Rolled(state).dirty => ~state.dirty)
  <2>1. state \in States /\ state.day <= today
    BY DEF TypeOK, DayInv
  <2> QED BY <2>1, RolledFacts
<1>c. ASSUME Race
      PROVE  ~raced /\ \A p \in Savers : pc[p] \notin {"write", "clean"}
  BY <1>c DEF Race
<1>1. ASSUME NEW S \in SUBSET Sessions, TickBegins(S)
      PROVE  Goal
  <2>1. Today(state)' = Today(state)
    BY <1>1, <1>b DEF TickBegins, Today
  <2>2. \A p \in Savers : pc'[p] = pc[p] \/ pc'[p] \notin {"write", "clean"}
    BY <1>1 DEF TickBegins, TypeOK
  <2>3. UNCHANGED <<today, row, copy, raced>> /\ (~state'.dirty => ~state.dirty)
    BY <1>1, <1>b DEF TickBegins
  <2> QED BY <1>a, <2>1, <2>2, <2>3
<1>2. ASSUME NEW s \in Sessions, Sample(s)
      PROVE  Goal
  <2>1. state' = Sampled(state, s) /\ UNCHANGED <<today, row, pc, copy>>
    BY <1>2 DEF Sample
  <2>2. CASE state'.total = state.total
    <3>1. UNCHANGED raced
      BY <1>2, <2>2 DEF Sample
    <3>2. Today(Sampled(state, s)) = Today(state)
      BY <2>1, <2>2, SampledDirty
    <3>3. Today(state)' = Today(state)
      BY <2>1, <3>2 DEF Today
    <3>4. ~state'.dirty => ~state.dirty
      BY <2>1, SampledDirty
    <3> QED BY <1>a, <2>1, <3>1, <3>3, <3>4
  <2>3. CASE state'.total # state.total
    <3>1. Race
      BY <1>2, <2>3 DEF Sample
    <3>2. state'.dirty
      BY <2>1, <2>3, SampledDirty
    <3> QED BY <1>c, <2>1, <3>1, <3>2
  <2> QED BY <2>2, <2>3
<1>3. CASE \/ \E to \in {"idle", "flush"} : TickEnds(to)
           \/ Flush \/ Cancel
  <2>1. UNCHANGED <<today, state, row, copy, raced>>
    BY <1>3 DEF TickEnds, Flush, Cancel
  <2>2. \A p \in Savers : pc'[p] = pc[p] \/ pc'[p] \notin {"write", "clean"}
    BY <1>3 DEF TickEnds, Flush, Cancel, TypeOK
  <2>3. Today(state)' = Today(state)
    BY <2>1 DEF Today
  <2> QED BY <1>a, <2>1, <2>2, <2>3
<1>4. CASE Snapshot
  <2>1. Today(state)' = Today(state)
    BY <1>4, <1>b DEF Snapshot, Today
  <2>2. UNCHANGED <<today, row, pc, copy, raced>> /\ (~state'.dirty => ~state.dirty)
    BY <1>4, <1>b DEF Snapshot, procs
  <2> QED BY <1>a, <2>1, <2>2
<1>5. ASSUME NEW r \in Resets, ResetTotal(r)
      PROVE  Goal
  <2>1. Race /\ pc' = [pc EXCEPT ![r] = "copy"]
    BY <1>5 DEF ResetTotal
  <2>2. Rolled(state) \in States
    BY RolledFacts DEF TypeOK
  <2>3. state'.dirty
    BY <1>5, <2>2 DEF ResetTotal, States
  <2>4. \A p \in Savers : pc'[p] \notin {"write", "clean"}
    BY <1>c, <2>1 DEF TypeOK
  <2> QED BY <2>3, <2>4
<1>6. ASSUME NEW p \in Savers, Copy(p)
      PROVE  Goal
  <2>1. /\ UNCHANGED <<today, state, row, raced>>
        /\ copy' = [copy EXCEPT ![p] = Row(state)] /\ pc' = [pc EXCEPT ![p] = "write"]
    BY <1>6 DEF Copy
  <2>2. Today(Row(state)) = Today(state)
    BY DEF Row, Today
  <2>3. \A q \in Savers : q # p => copy'[q] = copy[q] /\ pc'[q] = pc[q]
    BY <2>1 DEF TypeOK
  <2>4. copy'[p] = Row(state) /\ pc'[p] = "write"
    BY <2>1 DEF TypeOK
  <2> QED BY <1>0, <2>1, <2>2, <2>3, <2>4 DEF Today
<1>7. ASSUME NEW p \in Savers, Write(p)
      PROVE  Goal
  <2>1. /\ UNCHANGED <<today, state, copy, raced>> /\ row' = copy[p]
        /\ pc[p] = "write" /\ pc' = [pc EXCEPT ![p] = "clean"]
    BY <1>7 DEF Write
  <2>2. \A q \in Savers : pc'[q] = pc[q] \/ q = p
    BY <2>1 DEF TypeOK
  <2> QED BY <1>0, <2>1, <2>2 DEF Today
<1>8. ASSUME NEW p \in Savers, WriteFails(p)
      PROVE  Goal
  <2>1. /\ UNCHANGED <<today, row, raced>> /\ state' = [state EXCEPT !.dirty = state.dirty]
        /\ copy' = [copy EXCEPT ![p] = NewRow]
        /\ pc' = [pc EXCEPT ![p] = Returned(p)]
    BY <1>8 DEF WriteFails, DirtyAfterFailure
  <2>2. state' = state
    BY <2>1 DEF TypeOK, States
  <2>3. Returned(p) \notin {"write", "clean"}
    BY DEF Returned
  <2>4. pc'[p] = Returned(p) /\ \A q \in Savers : q # p => copy'[q] = copy[q] /\ pc'[q] = pc[q]
    BY <2>1 DEF TypeOK
  <2> QED BY <1>0, <2>1, <2>2, <2>3, <2>4 DEF Today
<1>9. ASSUME NEW p \in Savers, Clean(p)
      PROVE  Goal
  <2>1. /\ UNCHANGED <<today, row, raced>> /\ state' = [state EXCEPT !.dirty = FALSE]
        /\ copy' = [copy EXCEPT ![p] = NewRow] /\ pc[p] = "clean"
        /\ pc' = [pc EXCEPT ![p] = Returned(p)]
    BY <1>9 DEF Clean
  <2>2. /\ state'.total = state.total /\ state'.daily = state.daily
        /\ state'.day = state.day
    BY <2>1 DEF TypeOK, States
  <2>3. Returned(p) \notin {"write", "clean"}
    BY DEF Returned
  <2>4. pc'[p] = Returned(p) /\ \A q \in Savers : q # p => copy'[q] = copy[q] /\ pc'[q] = pc[q]
    BY <2>1 DEF TypeOK
  <2>5. Today(state)' = Today(state)
    BY <2>1, <2>2 DEF Today
  <2> QED BY <1>0, <2>1, <2>3, <2>4, <2>5 DEF Today
<1>10. CASE Restart
  <2>1. state' = Loaded(row) /\ UNCHANGED <<today, row>>
    BY <1>10 DEF Restart
  <2>2. \A p \in Savers : pc'[p] \notin {"write", "clean"}
    BY <1>10 DEF Restart
  <2>3. Today(Loaded(row)) = Today(row)
    BY LoadedFacts DEF DayInv
  <2> QED BY <2>1, <2>2, <2>3 DEF Today
<1>11. CASE Environment
  <2>1. UNCHANGED <<state, row, pc, copy, raced>>
    BY <1>11 DEF Environment, procs
  <2>2. CASE today' = today
    BY <1>0, <2>1, <2>2 DEF Today
  <2>3. CASE today' = today + 1
    <3>1. /\ today \in Int /\ row.day \in Int /\ state.day \in Int
          /\ \A p \in Savers : copy[p].day \in Int
      BY GainAssumption DEF TypeOK, Rows, States
    <3>2. row.day # today' /\ state.day # today' /\ \A p \in Savers : copy[p].day # today'
      BY <2>3, <3>1 DEF DayInv
    <3> QED BY <1>0, <2>1, <3>2 DEF Today
  <2> QED BY <1>11, <2>2, <2>3 DEF Environment, World
<1>12. CASE UNCHANGED vars
  BY <1>0, <1>12 DEF vars, procs, Today
<1> QED BY <1>1, <1>2, <1>3, <1>4, <1>5, <1>6, <1>7, <1>8, <1>9, <1>10, <1>11, <1>12
        DEF Next, TickerStep, Save

-----------------------------------------------------------------------------
LEMMA DayInit == Init => DayInv
BY DEF Init, DayInv, NewRow

LEMMA SavedInit == Init => SavedInv
BY DEF Init, SavedInv, NewRow, Today

LEMMA GainInit == Init => GainInv
BY GainTypeInit, CountInit, DayInit, SavedInit DEF GainInv

LEMMA GainStep == GainInv /\ [Next]_vars => GainInv'
BY GainTypeStep, CountStep, DayStep, SavedStep DEF GainInv

\* Every unit of experience is accounted for once, no day is in the future, and
\* what is being saved is true as long as nothing raced.
THEOREM GainInvariant == Spec => []GainInv
BY GainInit, GainStep, PTL DEF Spec

LEMMA CountedOnce == GainInv => NeverOvercounted
<1> SUFFICES ASSUME GainInv
             PROVE  NeverOvercounted
  OBVIOUS
<1>1. risen \in Nat /\ state.total \in Nat /\ state.daily \in Nat
  BY FieldTypes DEF GainInv
<1>2. row.total \in Nat /\ row.daily \in Nat
  BY FieldTypes DEF GainInv, TypeOK, Rows
<1>3. Covered(state, state.base, reading, risen) /\ Covered(row, NoBase, reading, risen)
  BY DEF GainInv, CountInv
<1>4. state.total <= risen /\ state.daily <= risen
  BY <1>1, <1>3, CoveredBound
<1>5. row.total <= risen /\ row.daily <= risen
  BY <1>1, <1>2, <1>3, CoveredBound
<1> QED BY <1>4, <1>5 DEF NeverOvercounted

\* No total exceeds the experience that was gained, whatever falls, loses,
\* restarts, resets and failed transactions do to the baselines.
THEOREM NeverCountedTwice == Spec => []NeverOvercounted
BY GainInvariant, CountedOnce, PTL

\* A state whose dirty flag is down is in the database, provided that the totals
\* did not change while somebody saved them.
THEOREM CleanSaved == Spec => []CleanIsSaved
<1>1. GainInv => CleanIsSaved
  BY DEF GainInv, SavedInv, CleanIsSaved
<1> QED BY <1>1, GainInvariant, PTL
=============================================================================
