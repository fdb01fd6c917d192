------------------------------- MODULE Ledger -------------------------------
(***************************************************************************)
(* The event store under concurrent commands: append_event takes its       *)
(* timestamp before it waits for the write lock, and list_events reads by  *)
(* timestamp.                                                              *)
(*                                                                         *)
(* Events are those of one campaign.  What a campaign is at some moment is *)
(* abstracted to the set of events it reflects: a snapshot event carries   *)
(* what its writer had in memory, DELIVERABLE_ACCEPTED adds a reference,   *)
(* the others add nothing.                                                 *)
(***************************************************************************)
EXTENDS Integers, Sequences, FiniteSets

CONSTANTS
  Procs,        \* slots in which a command may be running
  MaxEvents,    \* bound: timestamps taken in a behaviour
  MaxSetbacks   \* bound: times the system clock is set back

ASSUME LedgerBoundsAssumption == MaxEvents \in Nat /\ MaxSetbacks \in Nat

VARIABLES
  rows,       \* the events table; the index of a row is its rowid
  clock,      \* the system clock
  pc,         \* where each process is
  pending,    \* the event it is appending
  mem,        \* its campaign: the rows it reflects
  used        \* how much of each bound has been used

vars == <<rows, clock, pc, pending, mem, used>>

Kinds == {"started", "snapshot", "accepted", "other"}
NoEvent == [ts |-> 0, kind |-> "other", seen |-> 0]

(***************************************************************************)
(* Reading.  An order of the rows is the set of pairs in which the first   *)
(* is read before the second.                                              *)
(***************************************************************************)
Pairs == (DOMAIN rows) \X (DOMAIN rows)

(* Mutant: newest first. *)
TimedLater(i, j) ==
  rows[i].ts > rows[j].ts \/ (rows[i].ts = rows[j].ts /\ i < j)

(* ORDER BY ts ASC.  SQL leaves the order of equal timestamps open; SQLite *)
(* keeps rows of the same timestamp in rowid order.                        *)
TimedEarlier(i, j) ==
  rows[i].ts < rows[j].ts \/ (rows[i].ts = rows[j].ts /\ i < j)
ByTime == {pair \in Pairs : TimedEarlier(pair[1], pair[2])}
ByCommit == {pair \in Pairs : pair[1] < pair[2]}

(* What the loop of load_campaign comes to: the last row that holds the    *)
(* whole campaign, and the deliverables accepted after it.  Before a       *)
(* CAMPAIGN_STARTED there is no campaign, and rows are skipped.            *)
Project(order) ==
  LET started == {i \in DOMAIN rows : rows[i].kind = "started"}
      whole == {i \in DOMAIN rows :
                  \/ i \in started
                  \/ rows[i].kind = "snapshot" /\ \E s \in started : <<s, i>> \in order}
      accepted == {i \in DOMAIN rows : rows[i].kind = "accepted"}
      last == {i \in whole : \A k \in whole \ {i} : <<k, i>> \in order}
  IN UNION {{i} \cup rows[i].carries \cup {k \in accepted : <<i, k>> \in order} : i \in last}

LoadCampaign == Project(ByTime)

Init ==
  /\ rows = <<>>
  /\ clock = 0
  /\ pc = [p \in Procs |-> "away"]
  /\ pending = [p \in Procs |-> NoEvent]
  /\ mem = [p \in Procs |-> {}]
  /\ used = [events |-> 0, setbacks |-> 0]

(* campaign run and revisit load the campaign; without one they return.    *)
Load(p) ==
  /\ pc[p] = "away"
  /\ LoadCampaign # {}
  /\ mem' = [mem EXCEPT ![p] = LoadCampaign]
  /\ pc' = [pc EXCEPT ![p] = "ready"]
  /\ UNCHANGED <<rows, clock, pending, used>>

(* create-btc makes a new one, whether or not there is one.                *)
Create(p) ==
  /\ pc[p] = "away"
  /\ pc' = [pc EXCEPT ![p] = "ready"]
  /\ UNCHANGED <<rows, clock, pending, mem, used>>

Stamped(p, kind, ts) ==
  /\ pc[p] = "ready"
  /\ used.events < MaxEvents
  /\ kind = "started" <=> mem[p] = {}
  /\ used' = [used EXCEPT !.events = @ + 1]
  /\ pending' = [pending EXCEPT ![p] = [ts |-> ts, kind |-> kind, seen |-> Len(rows)]]
  /\ pc' = [pc EXCEPT ![p] = "stamped"]

(* Mutant: a command stamps all its events with the time of the first. *)
StampOnce(p, kind) ==
  LET ts == IF pending[p].ts > 0 THEN pending[p].ts ELSE clock + 1 IN
  /\ Stamped(p, kind, ts)
  /\ clock' = IF ts > clock THEN ts ELSE clock
  /\ UNCHANGED <<rows, mem>>

(* append_event: the timestamp, and later the row.  Time has moved on      *)
(* since the last timestamp, whoever took it.                              *)
Stamp(p, kind) ==
  /\ Stamped(p, kind, clock + 1)
  /\ clock' = clock + 1
  /\ UNCHANGED <<rows, mem>>

Commit(p) ==
  LET event == pending[p]
      row == [ts |-> event.ts, kind |-> event.kind, seen |-> event.seen, carries |-> mem[p]]
      rowid == Len(rows) + 1
  IN /\ pc[p] = "stamped"
     /\ rows' = Append(rows, row)
     /\ mem' = IF event.kind = "other" THEN mem ELSE [mem EXCEPT ![p] = @ \cup {rowid}]
     /\ pc' = [pc EXCEPT ![p] = "ready"]
     /\ UNCHANGED <<clock, pending, used>>

(* Mutant: the slot keeps what its last command knew. *)
LeaveHeld(p) ==
  /\ pc[p] # "away"
  /\ pc' = [pc EXCEPT ![p] = "away"]
  /\ UNCHANGED <<rows, clock, pending, mem, used>>

(* The command ends, dies, or gives up on a locked database.               *)
Leave(p) ==
  /\ pc[p] # "away"
  /\ pc' = [pc EXCEPT ![p] = "away"]
  /\ pending' = [pending EXCEPT ![p] = NoEvent]
  /\ mem' = [mem EXCEPT ![p] = {}]
  /\ UNCHANGED <<rows, clock, used>>

(* Somebody sets the system clock back.                                    *)
SetBack ==
  /\ used.setbacks < MaxSetbacks
  /\ clock > 0
  /\ \E earlier \in 0..(clock - 1) : clock' = earlier
  /\ used' = [used EXCEPT !.setbacks = @ + 1]
  /\ UNCHANGED <<rows, pc, pending, mem>>

Next ==
  \/ \E p \in Procs :
       \/ Load(p)
       \/ Create(p)
       \/ \E kind \in Kinds : Stamp(p, kind)
       \/ Commit(p)
       \/ Leave(p)
  \/ SetBack

Spec == Init /\ [][Next]_vars

-----------------------------------------------------------------------------
(* What the store and the commands hold has its type; a command that has  *)
(* left holds nothing.                                                     *)
Events == [ts : Nat, kind : Kinds, seen : Nat]
Rows == [ts : Nat, kind : Kinds, seen : Nat, carries : SUBSET Nat]
TypeOK ==
  /\ rows \in Seq(Rows)
  /\ clock \in Nat
  /\ pc \in [Procs -> {"away", "ready", "stamped"}]
  /\ pending \in [Procs -> Events]
  /\ mem \in [Procs -> SUBSET Nat]
  /\ \A p \in Procs : pc[p] = "away" => mem[p] = {} /\ pending[p] = NoEvent
  /\ used \in [events : Nat, setbacks : Nat]

(* Unless the clock was set back, a row is never read before one it        *)
(* reflects, however the appends of two commands overlap: what an event    *)
(* builds on was committed before its timestamp was taken.                 *)
CausesFirst ==
  used.setbacks = 0 =>
    \A j \in DOMAIN rows : \A i \in rows[j].carries : rows[i].ts < rows[j].ts

(* Read by time or in the order of their commits, the events make the same *)
(* campaign as long as no append began before another was committed.       *)
Overlapping == {i \in DOMAIN rows : rows[i].seen # i - 1}
QuietReadsAgree ==
  used.setbacks = 0 /\ Overlapping = {} => LoadCampaign = Project(ByCommit)

(* The inductive invariant behind the theorems: what a command knows was   *)
(* there when it took its timestamp, and every row that was there then has *)
(* an earlier one.                                                         *)
KnownRows ==
  /\ \A p \in Procs : mem[p] \subseteq 1..Len(rows)
  /\ \A p \in Procs : pc[p] = "stamped" => /\ pending[p].seen <= Len(rows)
                                         /\ mem[p] \subseteq 1..pending[p].seen
  /\ \A j \in DOMAIN rows : rows[j].seen < j /\ rows[j].carries \subseteq 1..rows[j].seen
SeenIsEarlier ==
  /\ \A j \in DOMAIN rows : rows[j].ts <= clock
  /\ \A p \in Procs : pc[p] = "stamped" => pending[p].ts <= clock
  /\ \A j \in DOMAIN rows : \A i \in 1..rows[j].seen : rows[i].ts < rows[j].ts
  /\ \A p \in Procs : pc[p] = "stamped" =>
       \A i \in 1..pending[p].seen : rows[i].ts < pending[p].ts
Invariant ==
  /\ TypeOK
  /\ KnownRows
  /\ used.setbacks = 0 => SeenIsEarlier
=============================================================================
