---------------------------- MODULE LedgerProofs ----------------------------
(***************************************************************************)
(* Theorems about Ledger, for every set of processes and every bound.      *)
(***************************************************************************)
EXTENDS Ledger, TLAPS

(* Nothing has happened, and the invariant holds. *)
LEMMA InitHolds == Init => Invariant
BY DEF Init, Invariant, TypeOK, KnownRows, SeenIsEarlier,
       NoEvent, Events, Rows, Kinds

(* A campaign read back reflects rows that are there. *)
LEMMA LoadedIsKnown ==
  ASSUME TypeOK, KnownRows
  PROVE  LoadCampaign \subseteq 1..Len(rows)
<1>1. DOMAIN rows = 1..Len(rows) BY DEF TypeOK
<1>2. \A i \in DOMAIN rows : rows[i].carries \subseteq 1..Len(rows)
  <2>1. SUFFICES ASSUME NEW i \in DOMAIN rows PROVE rows[i].carries \subseteq 1..Len(rows)
    OBVIOUS
  <2>2. rows[i] \in Rows /\ i \in 1..Len(rows) BY <1>1 DEF TypeOK
  <2>3. rows[i].seen < i /\ rows[i].carries \subseteq 1..rows[i].seen BY DEF KnownRows
  <2> QED BY <2>2, <2>3 DEF Rows, TypeOK
<1> QED BY <1>1, <1>2, Zenon DEF LoadCampaign, Project

(* Loading touches the memory of one process only. *)
LEMMA LoadKeeps ==
  ASSUME Invariant, NEW p \in Procs, Load(p)
  PROVE  Invariant'
<1>1. LoadCampaign \subseteq 1..Len(rows) BY LoadedIsKnown DEF Invariant
<1>2. TypeOK' BY <1>1 DEF Invariant, TypeOK, Load
<1>3. KnownRows'
  BY <1>1 DEF Invariant, TypeOK, KnownRows, Load
<1>4. (used.setbacks = 0 => SeenIsEarlier)'
  BY DEF Invariant, TypeOK, SeenIsEarlier, Load
<1> QED BY <1>2, <1>3, <1>4 DEF Invariant

(* So does beginning a new campaign, and leaving. *)
LEMMA CreateKeeps ==
  ASSUME Invariant, NEW p \in Procs, Create(p)
  PROVE  Invariant'
<1>1. TypeOK' BY DEF Invariant, TypeOK, Create
<1>2. KnownRows' BY DEF Invariant, TypeOK, KnownRows, Create
<1>3. (used.setbacks = 0 => SeenIsEarlier)'
  BY DEF Invariant, TypeOK, SeenIsEarlier, Create
<1> QED BY <1>1, <1>2, <1>3 DEF Invariant

LEMMA LeaveKeeps ==
  ASSUME Invariant, NEW p \in Procs, Leave(p)
  PROVE  Invariant'
<1>1. TypeOK' BY DEF Invariant, TypeOK, Leave, NoEvent, Events, Kinds
<1>2. KnownRows' BY DEF Invariant, TypeOK, KnownRows, Leave
<1>3. (used.setbacks = 0 => SeenIsEarlier)'
  BY DEF Invariant, TypeOK, SeenIsEarlier, Leave
<1> QED BY <1>1, <1>2, <1>3 DEF Invariant

(* A timestamp is later than that of every row there is. *)
LEMMA StampKeeps ==
  ASSUME Invariant, NEW p \in Procs, NEW kind \in Kinds, Stamp(p, kind)
  PROVE  Invariant'
<1>1. TypeOK'
  <2>1. [ts |-> clock + 1, kind |-> kind, seen |-> Len(rows)] \in Events
    BY DEF Invariant, TypeOK, Events
  <2>2. pending' \in [Procs -> Events] BY <2>1 DEF Invariant, TypeOK, Stamp, Stamped
  <2>3. used' \in [events : Nat, setbacks : Nat] BY DEF Invariant, TypeOK, Stamp, Stamped
  <2> QED BY <2>2, <2>3 DEF Invariant, TypeOK, Stamp, Stamped
<1>2. KnownRows'
  BY DEF Invariant, TypeOK, KnownRows, Stamp, Stamped, Events
<1>3. (used.setbacks = 0 => SeenIsEarlier)'
  <2>1. SUFFICES ASSUME used'.setbacks = 0 PROVE SeenIsEarlier' OBVIOUS
  <2>2. used.setbacks = 0 /\ SeenIsEarlier
    BY <2>1 DEF Invariant, TypeOK, Stamp, Stamped
  <2>3. \A i \in 1..Len(rows) : rows[i].ts <= clock /\ rows[i].ts \in Nat
    <3>1. \A i \in 1..Len(rows) : i \in DOMAIN rows /\ rows[i] \in Rows
      BY DEF Invariant, TypeOK
    <3> QED BY <2>2, <3>1 DEF Rows, SeenIsEarlier
  <2>4. \A i \in 1..Len(rows) : rows[i].ts < clock + 1
    BY <2>3 DEF Invariant, TypeOK
  <2>5. (\A j \in DOMAIN rows : rows[j].ts <= clock)'
    BY <2>4, <2>3 DEF Invariant, TypeOK, Stamp, Stamped
  <2>6. (\A q \in Procs : pc[q] = "stamped" => pending[q].ts <= clock)'
    BY <2>2 DEF Invariant, TypeOK, Events, Stamp, Stamped, SeenIsEarlier
  <2>7. (\A j \in DOMAIN rows : \A i \in 1..rows[j].seen : rows[i].ts < rows[j].ts)'
    BY <2>2 DEF Stamp, Stamped, SeenIsEarlier
  <2>8. (\A q \in Procs : pc[q] = "stamped" =>
           \A i \in 1..pending[q].seen : rows[i].ts < pending[q].ts)'
    BY <2>2, <2>4 DEF Invariant, TypeOK, Stamp, Stamped, SeenIsEarlier
  <2> QED BY <2>5, <2>6, <2>7, <2>8 DEF SeenIsEarlier
<1> QED BY <1>1, <1>2, <1>3 DEF Invariant

(* The new row is the last one: no row had seen it. *)
LEMMA CommitKeeps ==
  ASSUME Invariant, NEW p \in Procs, Commit(p)
  PROVE  Invariant'
<1> DEFINE event == pending[p]
           row == [ts |-> event.ts, kind |-> event.kind, seen |-> event.seen, carries |-> mem[p]]
           last == Len(rows) + 1
<1>1. event \in Events /\ mem[p] \in SUBSET Nat /\ event.seen <= Len(rows)
      /\ mem[p] \subseteq 1..event.seen
  BY DEF Invariant, TypeOK, KnownRows, Commit
<1>2. row \in Rows BY <1>1 DEF Events, Rows
<1>3. /\ rows' = Append(rows, row) /\ pc' = [pc EXCEPT ![p] = "ready"]
      /\ UNCHANGED <<clock, pending, used>>
      /\ mem' \in {mem, [mem EXCEPT ![p] = @ \cup {last}]}
  BY DEF Commit
<1>4. /\ rows' \in Seq(Rows) /\ Len(rows') = last /\ DOMAIN rows' = 1..last
      /\ DOMAIN rows = 1..Len(rows) /\ Len(rows) \in Nat
      /\ rows'[last] = row /\ \A i \in 1..Len(rows) : rows'[i] = rows[i]
  BY <1>2, <1>3 DEF Invariant, TypeOK
<1> HIDE DEF row, last
<1>5. TypeOK'
  <2>1. mem' \in [Procs -> SUBSET Nat] BY <1>3, <1>4 DEF Invariant, TypeOK, last
  <2> QED BY <2>1, <1>3, <1>4 DEF Invariant, TypeOK, last
<1>6. KnownRows'
  <2>1. (\A q \in Procs : mem[q] \subseteq 1..Len(rows))'
    BY <1>3, <1>4 DEF Invariant, TypeOK, KnownRows, last
  <2>2. (\A q \in Procs : pc[q] = "stamped" => /\ pending[q].seen <= Len(rows)
                                             /\ mem[q] \subseteq 1..pending[q].seen)'
    <3>1. SUFFICES ASSUME NEW q \in Procs, pc'[q] = "stamped"
                   PROVE  /\ pending[q].seen <= Len(rows')
                          /\ mem'[q] \subseteq 1..pending[q].seen
      BY <1>3
    <3>2. q # p /\ pc[q] = "stamped" BY <3>1, <1>3 DEF Invariant, TypeOK
    <3>3. mem'[q] = mem[q] BY <3>2, <1>3 DEF Invariant, TypeOK
    <3>4. pending[q] \in Events BY DEF Invariant, TypeOK
    <3> QED BY <3>2, <3>3, <3>4, <1>4 DEF Invariant, KnownRows, Events, last
  <2>3. (\A j \in DOMAIN rows : rows[j].seen < j /\ rows[j].carries \subseteq 1..rows[j].seen)'
    BY <1>1, <1>4 DEF Invariant, KnownRows, Events, row, last
  <2> QED BY <2>1, <2>2, <2>3 DEF KnownRows
<1>7. (used.setbacks = 0 => SeenIsEarlier)'
  <2>1. SUFFICES ASSUME used'.setbacks = 0 PROVE SeenIsEarlier' OBVIOUS
  <2>2. SeenIsEarlier BY <2>1, <1>3 DEF Invariant
  <2>3. \A j \in DOMAIN rows : rows[j] \in Rows /\ rows[j].seen < j
    BY DEF Invariant, TypeOK, KnownRows
  <2>4. (\A j \in DOMAIN rows : rows[j].ts <= clock)'
    BY <1>3, <1>4, <2>2 DEF Commit, SeenIsEarlier, row, last
  <2>5. (\A j \in DOMAIN rows : \A i \in 1..rows[j].seen : rows[i].ts < rows[j].ts)'
    <3>1. SUFFICES ASSUME NEW j \in 1..last, NEW i \in 1..rows'[j].seen
                   PROVE  rows'[i].ts < rows'[j].ts
      BY <1>4
    <3>2. CASE j = last
      <4>1. rows'[j] = row /\ i \in 1..event.seen BY <3>1, <3>2, <1>4 DEF row
      <4>2. i \in 1..Len(rows) BY <4>1, <1>1, <1>4 DEF Events
      <4>3. rows[i].ts < event.ts BY <4>1, <2>2 DEF Commit, SeenIsEarlier
      <4> QED BY <4>1, <4>2, <4>3, <1>4 DEF row
    <3>3. CASE j # last
      <4>1. j \in 1..Len(rows) BY <3>3, <1>4 DEF last
      <4>2. rows'[j] = rows[j] /\ i \in 1..rows[j].seen BY <4>1, <1>4
      <4>3. i \in 1..Len(rows) BY <4>1, <4>2, <2>3, <1>4 DEF Rows
      <4> QED BY <4>1, <4>2, <4>3, <2>2, <1>4 DEF SeenIsEarlier
    <3> QED BY <3>2, <3>3
  <2>6. (\A q \in Procs : pc[q] = "stamped" => pending[q].ts <= clock)'
    BY <1>3, <2>2 DEF Invariant, TypeOK, SeenIsEarlier
  <2>7. (\A q \in Procs : pc[q] = "stamped" =>
           \A i \in 1..pending[q].seen : rows[i].ts < pending[q].ts)'
    <3>1. SUFFICES ASSUME NEW q \in Procs, pc'[q] = "stamped", NEW i \in 1..pending[q].seen
                   PROVE  rows'[i].ts < pending[q].ts
      BY <1>3
    <3>2. pc[q] = "stamped" BY <3>1, <1>3 DEF Invariant, TypeOK
    <3>3. pending[q].seen <= Len(rows) /\ pending[q] \in Events
      BY <3>2 DEF Invariant, TypeOK, KnownRows
    <3>4. i \in 1..Len(rows) BY <3>3, <1>4 DEF Events
    <3> QED BY <3>2, <3>4, <2>2, <1>4 DEF SeenIsEarlier
  <2> QED BY <2>4, <2>5, <2>6, <2>7 DEF SeenIsEarlier
<1> QED BY <1>5, <1>6, <1>7 DEF Invariant

(* Once the clock was set back, nothing is claimed of timestamps. *)
LEMMA SetBackKeeps ==
  ASSUME Invariant, SetBack
  PROVE  Invariant'
<1>1. used'.setbacks # 0 /\ TypeOK' BY DEF Invariant, TypeOK, SetBack
<1>2. KnownRows' BY DEF Invariant, KnownRows, SetBack
<1> QED BY <1>1, <1>2 DEF Invariant

(* Every step keeps the invariant. *)
LEMMA StepKeeps == Invariant /\ [Next]_vars => Invariant'
<1>1. SUFFICES ASSUME Invariant, [Next]_vars PROVE Invariant' OBVIOUS
<1>2. CASE UNCHANGED vars
  <2>1. TypeOK' BY <1>1, <1>2 DEF vars, Invariant, TypeOK
  <2>2. KnownRows' BY <1>1, <1>2 DEF vars, Invariant, KnownRows
  <2>3. (used.setbacks = 0 => SeenIsEarlier)'
    BY <1>1, <1>2 DEF vars, Invariant, SeenIsEarlier
  <2> QED BY <2>1, <2>2, <2>3 DEF Invariant
<1>3. CASE Next
  BY <1>1, <1>3, LoadKeeps, CreateKeeps, StampKeeps, CommitKeeps, LeaveKeeps, SetBackKeeps
     DEF Next
<1> QED BY <1>1, <1>2, <1>3

(* The event store keeps its invariant under every interleaving. *)
THEOREM Safety == Spec => []Invariant
BY InitHolds, StepKeeps, PTL DEF Spec

(* Rows and memories keep their types. *)
THEOREM TypesHold == Spec => []TypeOK
<1>1. Invariant => TypeOK BY DEF Invariant
<1> QED BY <1>1, Safety, PTL

(* As long as the clock is not set back, list_events reads no row before   *)
(* one it reflects.                                                        *)
THEOREM CausesReadFirst == Spec => []CausesFirst
<1>1. Invariant => CausesFirst
  <2>1. SUFFICES ASSUME Invariant, used.setbacks = 0,
                        NEW j \in DOMAIN rows, NEW i \in rows[j].carries
                 PROVE  rows[i].ts < rows[j].ts
    BY DEF CausesFirst
  <2>2. i \in 1..rows[j].seen BY <2>1 DEF Invariant, KnownRows
  <2> QED BY <2>1, <2>2 DEF Invariant, SeenIsEarlier
<1> QED BY <1>1, Safety, PTL

(* Without overlapping appends, the order of timestamps is the order of    *)
(* commits, so that load_campaign folds what was committed.                *)
THEOREM QuietReadsHold == Spec => []QuietReadsAgree
<1>1. Invariant => QuietReadsAgree
  <2>1. SUFFICES ASSUME Invariant, used.setbacks = 0, Overlapping = {}
                 PROVE  ByTime = ByCommit
    BY DEF QuietReadsAgree, LoadCampaign
  <2>2. \A i, j \in DOMAIN rows : i < j => rows[i].ts < rows[j].ts
    <3>1. SUFFICES ASSUME NEW i \in DOMAIN rows, NEW j \in DOMAIN rows, i < j
                   PROVE  rows[i].ts < rows[j].ts
      OBVIOUS
    <3>2. rows[j].seen = j - 1 BY <2>1 DEF Overlapping
    <3>3. i \in 1..rows[j].seen BY <2>1, <3>1, <3>2 DEF Invariant, TypeOK
    <3> QED BY <3>3, <2>1 DEF Invariant, SeenIsEarlier
  <2>3. \A i \in DOMAIN rows : i \in Nat /\ rows[i].ts \in Nat
    <3>1. \A i \in DOMAIN rows : i \in Nat /\ rows[i] \in Rows
      BY <2>1 DEF Invariant, TypeOK
    <3> QED BY <3>1 DEF Rows
  <2>4. \A i, j \in DOMAIN rows :
          TimedEarlier(i, j) <=> i < j
    <3>1. SUFFICES ASSUME NEW i \in DOMAIN rows, NEW j \in DOMAIN rows
                   PROVE  TimedEarlier(i, j) <=> i < j
      OBVIOUS
    <3>2. i < j \/ i = j \/ j < i BY <2>3
    <3> QED BY <3>2, <2>2, <2>3 DEF TimedEarlier
  <2> QED BY <2>4 DEF ByTime, ByCommit, Pairs
<1> QED BY <1>1, Safety, PTL

=============================================================================
