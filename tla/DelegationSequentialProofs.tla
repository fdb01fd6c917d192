--------------------- MODULE DelegationSequentialProofs ---------------------
(***************************************************************************)
(* Proofs about Delegation when commands run one at a time, any of which   *)
(* may die: what the ledger charges reaches the saved wallet, and the      *)
(* commands implement Account.                                             *)
(***************************************************************************)
EXTENDS DelegationAccount, DelegationProofs

USE KindsAssumption, WalletAssumption, BoundsAssumption

(* One command at a time. *)
OneCommand == \A p, q \in Procs : p = q

-----------------------------------------------------------------------------
(* The inductive invariant of commands that run one at a time.             *)

(* The wallet the next command will load. *)
Book == IF snapshots = <<>> THEN FreshWallet ELSE snapshots[Len(snapshots)].budget

(* With a single writer the row committed last has the last timestamp. *)
InOrder ==
  \A i, j \in DOMAIN snapshots : i < j => snapshots[i].ts < snapshots[j].ts

(* A command has a charge in the ledger that is not in the saved wallet. *)
Holds(p) ==
  /\ pc[p] \in {"request", "run", "validate", "stamp", "insert"}
  /\ deal[p] \in ChargedIn(deals)

(* Its wallet is the one it loaded, charged once if at all.  A command     *)
(* other than patch propose saves a wallet only while there is none.       *)
Loaded(p) ==
  IF pc[p] \in {"idle", "load"}
  THEN wallet[p] = FreshWallet /\ deal[p] = NoDeal
  ELSE kind[p] = "patch" \/ pc[p] \in {"stamp", "insert", "announce"} =>
         wallet[p] = IF Holds(p) THEN Spend(Book, Cost) ELSE Book

InTurn(p) ==
  /\ Loaded(p)
  /\ pc[p] = "insert" => \A i \in DOMAIN snapshots : snapshots[i].ts < ts[p]
  /\ pc[p] = "announce" => ts[p] \notin announced

(* Charges that are on their way to the saved wallet, and snapshots that   *)
(* are about to be announced: one at most.                                 *)
Held == IF \E p \in Procs : Holds(p) THEN 1 ELSE 0
Late == IF \E p \in Procs : pc[p] = "announce" THEN 1 ELSE 0

(* Only crashes lose one or the other. *)
Lost == Cardinality(ChargedIn(deals)) - Book.spend_count - Held
Unannounced == Len(snapshots) - Cardinality(announced) - Late
Counted == Lost \in 0..used.crashes /\ Unannounced \in 0..used.crashes

Sequential ==
  /\ InOrder
  /\ \A p \in Procs : InTurn(p)
  /\ Counted


-----------------------------------------------------------------------------
(* What the saved wallet is.                                               *)

(* It is a wallet in order. *)
LEMMA BookIsWallet ==
  ASSUME Regrouped
  PROVE  Book \in Wallets /\ Funds(Book) /\ Book.spend_count \in Nat
<1>1. CASE snapshots = <<>>
  BY <1>1, FreshFunds DEF Book, Wallets
<1>2. CASE snapshots # <<>>
  <2>1. Len(snapshots) \in DOMAIN snapshots
    BY <1>2 DEF Regrouped, StoreOK, Rows
  <2>2. Book = snapshots[Len(snapshots)].budget
    BY <1>2 DEF Book
  <2>3. Book \in Wallets /\ Funds(Book)
    BY <2>1, <2>2, RowTypes DEF Regrouped, StoreOK
  <2> QED
    BY <2>3 DEF Wallets
<1> QED
  BY <1>1, <1>2

(* The row with the last timestamp is the last row (load_latest_snapshot). *)
LEMMA LatestIsBook ==
  ASSUME Regrouped, InOrder, snapshots # <<>>
  PROVE  Latest = Book
<1> DEFINE last == Len(snapshots)
           All == {snapshots[i] : i \in DOMAIN snapshots}
           IsLast(row) == \A i \in DOMAIN snapshots : snapshots[i].ts <= row.ts
<1>1. last \in DOMAIN snapshots /\ \A i \in DOMAIN snapshots : i \in Nat /\ i <= last
  BY DEF Regrouped, StoreOK, Rows
<1>2. \A i \in DOMAIN snapshots : snapshots[i].ts \in Nat
  BY RowTypes DEF Regrouped, StoreOK
<1>3. \A i \in DOMAIN snapshots : i = last \/ snapshots[i].ts < snapshots[last].ts
  BY <1>1 DEF InOrder
<1>4. snapshots[last] \in All /\ IsLast(snapshots[last])
  BY <1>1, <1>2, <1>3
<1>5. ASSUME NEW row \in All, IsLast(row)
      PROVE  row = snapshots[last]
  <2>1. PICK i \in DOMAIN snapshots : row = snapshots[i]
    OBVIOUS
  <2>2. snapshots[last].ts <= snapshots[i].ts
    BY <1>1, <1>5, <2>1
  <2>3. i = last
    BY <1>1, <1>2, <1>3, <2>2
  <2> QED
    BY <2>1, <2>3
<1>6. (CHOOSE row \in All : IsLast(row)) = snapshots[last]
  <2> HIDE DEF All, IsLast
  <2> QED
    BY <1>4, <1>5
<1>7. Latest = (CHOOSE row \in All : IsLast(row)).budget
  BY DEF Latest
<1>8. Book = snapshots[last].budget
  BY DEF Book
<1> HIDE DEF All, IsLast, last
<1> QED
  BY <1>6, <1>7, <1>8

(* Spending lifts no halt, and counts as one charge.                       *)
LEMMA SpendKeepsHalt ==
  ASSUME NEW w \in Wallets, Funds(w)
  PROVE  /\ Spend(w, Cost).spend_count = w.spend_count + 1
         /\ w.halted => Spend(w, Cost).halted
<1>1. w.halted => w.balance <= HaltThreshold
  BY DEF Funds
<1>2. w.balance \in Int
  BY DEF Wallets
<1>3. w.balance <= HaltThreshold => w.balance - Cost <= HaltThreshold
  BY <1>2
<1>4. Spend(w, Cost).halted = (w.balance - Cost <= HaltThreshold)
  BY DEF Spend
<1>5. Spend(w, Cost).spend_count = w.spend_count + 1
  BY DEF Spend
<1> QED
  BY <1>1, <1>3, <1>4, <1>5

-----------------------------------------------------------------------------
(* What a step may do to the account.                                      *)
Rests == Book' = Book /\ Held' = Held /\ Lost' = Lost
Charges == Held = 0 /\ Held' = 1 /\ Book' = Book /\ Lost' = Lost
Saves == Held = 1 /\ Held' = 0 /\ Book' = Spend(Book, Cost) /\ Lost' = Lost
Loses ==
  /\ Held = 1 /\ Held' = 0
  /\ Book' = Book
  /\ Lost' = Lost + 1
  /\ used.crashes < MaxCrashes
AccountStep == Rests \/ Charges \/ Saves \/ Loses

(* What every step is shown to do. *)
Moved == Sequential' /\ AccountStep

LEMMA Alone ==
  ASSUME OneCommand, NEW p \in Procs
  PROVE  /\ Held = IF Holds(p) THEN 1 ELSE 0
         /\ Late = IF pc[p] = "announce" THEN 1 ELSE 0
         /\ Held' = IF Holds(p)' THEN 1 ELSE 0
         /\ Late' = IF pc'[p] = "announce" THEN 1 ELSE 0
<1>1. \A q \in Procs : q = p
  BY DEF OneCommand
<1>2. (\E q \in Procs : Holds(q)) <=> Holds(p)
  BY <1>1
<1>3. (\E q \in Procs : Holds(q)') <=> Holds(p)'
  BY <1>1
<1>4. (\E q \in Procs : pc[q] = "announce") <=> pc[p] = "announce"
  BY <1>1
<1>5. (\E q \in Procs : pc'[q] = "announce") <=> pc'[p] = "announce"
  BY <1>1
<1> QED
  BY <1>2, <1>3, <1>4, <1>5 DEF Held, Late

(* The numbers in the counts are numbers. *)
LEMMA Numbers ==
  ASSUME Regrouped
  PROVE  /\ Cardinality(ChargedIn(deals)) \in Nat
         /\ IsFiniteSet(ChargedIn(deals))
         /\ Book.spend_count \in Nat
         /\ Len(snapshots) \in Nat
         /\ IsFiniteSet(announced) /\ Cardinality(announced) \in Nat
         /\ used.crashes \in Nat
<1>1. IsFiniteSet(0..clock)
  <2>1. clock \in Nat
    BY DEF Regrouped, StoreOK
  <2> QED
    BY <2>1, FS_Interval
<1>2. announced \subseteq 0..clock
  BY DEF Regrouped, StoreOK
<1>3. IsFiniteSet(announced) /\ Cardinality(announced) \in Nat
  BY <1>1, <1>2, FS_Subset, FS_CardinalityType
<1>4. Len(snapshots) \in Nat
  BY DEF Regrouped, StoreOK, Rows
<1>5. used.crashes \in Nat
  BY DEF Regrouped, StoreOK
<1> QED
  BY <1>3, <1>4, <1>5, BookIsWallet, ChargesCount DEF Regrouped, StoreOK

(* With one command, what holds of it holds of all.                        *)
LEMMA OneInTurn ==
  ASSUME OneCommand, NEW p \in Procs, InOrder', InTurn(p)', Counted'
  PROVE  Sequential'
<1>1. ASSUME NEW q \in Procs PROVE InTurn(q)'
  <2>1. q = p
    BY DEF OneCommand
  <2> QED
    BY <2>1
<1> QED
  BY <1>1 DEF Sequential

(* A step that neither charges nor saves nor announces anything.           *)
LEMMA Quiet ==
  ASSUME OneCommand, Regrouped, Sequential, NEW p \in Procs,
         UNCHANGED <<snapshots, announced>>, used'.crashes = used.crashes,
         ChargedIn(deals') = ChargedIn(deals), Holds(p)' = Holds(p),
         pc[p] # "announce", pc'[p] # "announce", InTurn(p)'
  PROVE  Moved
<1>1. Book' = Book
  BY DEF Book
<1>2. Held' = Held /\ Late' = Late
  BY Alone
<1>3. Lost' = Lost /\ Unannounced' = Unannounced
  BY <1>1, <1>2 DEF Lost, Unannounced
<1>4. Counted' /\ InOrder'
  BY <1>3 DEF Sequential, Counted, InOrder
<1> QED
  BY <1>1, <1>2, <1>3, <1>4, OneInTurn DEF Moved, AccountStep, Rests


-----------------------------------------------------------------------------
(* Steps that leave the account alone.                                     *)

(* The next event of a delegation that does not charge it. *)
LEMMA ChargesStay ==
  ASSUME Regrouped, NEW d \in DOMAIN deals, NEW r \in Deals,
         deals' = [deals EXCEPT ![d] = r], r.kind = deals[d].kind,
         r.kind = "patch" =>
           (deals[d].phase \in {"spent", "requested", "completed", "failed"}
              <=> r.phase \in {"spent", "requested", "completed", "failed"})
  PROVE  ChargedIn(deals') = ChargedIn(deals)
<1>1. /\ DOMAIN deals' = DOMAIN deals
      /\ deals'[d] = r
      /\ \A e \in DOMAIN deals : e # d => deals'[e] = deals[e]
  BY ReplaceDeal DEF Regrouped, StoreOK
<1> QED
  BY <1>1 DEF ChargedIn

(* A new delegation is not charged, nor was there one with its number.     *)
LEMMA OpenedUncharged ==
  ASSUME Regrouped, NEW p \in Procs, pc[p] # "idle", NEW phase \in {"passed", "denied"},
         Opened(p, phase)
  PROVE  /\ ChargedIn(deals') = ChargedIn(deals)
         /\ Len(deals) + 1 \notin ChargedIn(deals)
<1> DEFINE r == [kind |-> kind[p], phase |-> phase, report |-> NoReport]
<1>1. r \in Deals /\ r.phase = phase
  BY DEF Deals, Phases, Regrouped, ProcOK
<1>2. deals' = Append(deals, r)
  BY DEF Opened
<1> HIDE DEF r
<1>3. /\ DOMAIN deals' = DOMAIN deals \cup {Len(deals) + 1}
      /\ Len(deals) + 1 \in Nat \ DOMAIN deals
      /\ deals'[Len(deals) + 1] = r
      /\ \A d \in DOMAIN deals : deals'[d] = deals[d]
  BY <1>1, <1>2, AppendDeal DEF Regrouped, StoreOK
<1> QED
  BY <1>1, <1>3 DEF ChargedIn

LEMMA ExitMeans ==
  ASSUME Regrouped, NEW p \in Procs, Exit(p)
  PROVE  /\ pc'[p] = "idle" /\ wallet'[p] = FreshWallet /\ deal'[p] = NoDeal
         /\ InTurn(p)'
         /\ ~Holds(p)'
<1>1. pc'[p] = "idle" /\ wallet'[p] = FreshWallet /\ deal'[p] = NoDeal
  BY DEF Exit, Regrouped, LocalTypes
<1> QED
  BY <1>1 DEF InTurn, Loaded, Holds

(* A command that ends with nothing to save. *)
LEMMA QuietExit ==
  ASSUME OneCommand, Regrouped, Sequential, NEW p \in Procs,
         UNCHANGED <<snapshots, announced>>, used'.crashes = used.crashes,
         ChargedIn(deals') = ChargedIn(deals), ~Holds(p),
         pc[p] # "announce", Exit(p)
  PROVE  Moved
<1>1. /\ pc'[p] = "idle"
      /\ InTurn(p)'
      /\ ~Holds(p)'
  BY ExitMeans
<1>2. Holds(p)' = Holds(p)
  BY <1>1 DEF Holds
<1>3. pc'[p] # "announce"
  BY <1>1
<1> HIDE DEF Exit
<1> QED
  BY <1>1, <1>2, <1>3, Quiet

(* A command that goes on, with the wallet and the delegation it has.      *)
LEMMA QuietGoes ==
  ASSUME OneCommand, Regrouped, Sequential, NEW p \in Procs,
         UNCHANGED <<snapshots, announced>>, used'.crashes = used.crashes,
         ChargedIn(deals') = ChargedIn(deals),
         pc[p] \notin {"idle", "load", "announce"},
         NEW where \in PCs \ {"idle", "load", "insert", "announce"}, Goto(p, where),
         UNCHANGED <<wallet, deal>>,
         where = "stamp" => kind[p] = "patch",
         Holds(p) <=> /\ where \in {"request", "run", "validate", "stamp"}
                      /\ deal[p] \in ChargedIn(deals)
  PROVE  Moved
<1>1. /\ pc'[p] = where /\ kind'[p] = kind[p]
      /\ wallet'[p] = wallet[p] /\ deal'[p] = deal[p]
  BY Goes
<1>2. Holds(p)' = Holds(p)
  BY <1>1 DEF Holds
<1>3. Book' = Book
  BY DEF Book
<1>4. Loaded(p)
  BY DEF Sequential, InTurn
<1>5. kind[p] = "patch" => wallet'[p] = IF Holds(p)' THEN Spend(Book', Cost) ELSE Book'
  BY <1>1, <1>2, <1>3, <1>4 DEF Loaded
<1>6. Loaded(p)'
  BY <1>1, <1>5 DEF Loaded
<1>7. InTurn(p)' /\ pc'[p] # "announce"
  BY <1>1, <1>6 DEF InTurn
<1> QED
  BY <1>2, <1>7, Quiet

LEMMA StartMoves ==
  ASSUME OneCommand, Regrouped, Sequential, NEW p \in Procs, NEW k \in Kinds, Start(p, k)
  PROVE  Moved
<1> USE DEF Start
<1>1. /\ pc[p] = "idle" /\ pc'[p] = (IF k = "tick" THEN "gate" ELSE "load")
      /\ kind'[p] = k /\ wallet'[p] = wallet[p] /\ deal'[p] = deal[p]
  BY DEF Regrouped, LocalTypes
<1>2. wallet[p] = FreshWallet /\ deal[p] = NoDeal
  BY <1>1 DEF Sequential, InTurn, Loaded
<1>3. InTurn(p)' /\ Holds(p)' = Holds(p)
  BY <1>1, <1>2 DEF InTurn, Loaded, Holds
<1>4. used'.crashes = used.crashes
  BY DEF Regrouped, StoreOK
<1>5. UNCHANGED <<snapshots, announced>> /\ ChargedIn(deals') = ChargedIn(deals)
  BY DEF store
<1>6. pc[p] # "announce" /\ pc'[p] # "announce"
  BY <1>1
<1> HIDE DEF Start
<1> QED
  BY <1>3, <1>4, <1>5, <1>6, Quiet

LEMMA LoadStateMoves ==
  ASSUME OneCommand, Regrouped, Sequential, NEW p \in Procs, LoadState(p)
  PROVE  Moved
<1> USE DEF LoadState
<1>1. /\ pc[p] = "load" /\ ~Holds(p)
      /\ wallet[p] = FreshWallet /\ deal[p] = NoDeal
  BY DEF Sequential, InTurn, Loaded, Holds
<1>2. /\ UNCHANGED <<snapshots, announced>>
      /\ ChargedIn(deals') = ChargedIn(deals)
      /\ used'.crashes = used.crashes
      /\ Book' = Book
  BY DEF store, Book
<1>3. NoDeal \notin ChargedIn(deals)
  BY DEF NoDeal, ChargedIn, Regrouped, StoreOK
<1>4. CASE snapshots = <<>>
  <2>1. Goto(p, "stamp") /\ UNCHANGED <<wallet, deal>> /\ "stamp" \in PCs
    BY <1>4 DEF PCs
  <2>2. pc'[p] = "stamp" /\ wallet'[p] = wallet[p] /\ deal'[p] = deal[p]
    BY <2>1, Goes
  <2>3. ~Holds(p)'
    BY <1>1, <1>2, <1>3, <2>2 DEF Holds
  <2>4. wallet'[p] = Book'
    BY <1>1, <1>2, <1>4, <2>2 DEF Book
  <2>5. InTurn(p)'
    BY <2>2, <2>3, <2>4 DEF InTurn, Loaded
  <2>6. pc'[p] # "announce" /\ Holds(p)' = Holds(p)
    BY <1>1, <2>2, <2>3 DEF Holds
  <2> QED
    BY <1>1, <1>2, <2>5, <2>6, Quiet
<1>5. CASE snapshots # <<>> /\ kind[p] # "init"
  <2>1. Latest = Book /\ Book \in Wallets
    BY <1>5, LatestIsBook, BookIsWallet DEF Sequential
  <2>2. pc'[p] = "gate" /\ wallet'[p] = Book
    <3>1. Goto(p, "gate") /\ "gate" \in PCs /\ wallet' = [wallet EXCEPT ![p] = Book]
      BY <1>5, <2>1 DEF PCs
    <3>2. deal' = [deal EXCEPT ![p] = deal[p]] /\ deal[p] \in Nat
      BY <1>5 DEF Regrouped, LocalTypes
    <3> HIDE DEF LoadState
    <3> QED
      BY <2>1, <3>1, <3>2, Moves
  <2>3. ~Holds(p)'
    BY <2>2 DEF Holds
  <2>4. InTurn(p)'
    BY <1>2, <2>2, <2>3 DEF InTurn, Loaded
  <2>5. pc'[p] # "announce" /\ Holds(p)' = Holds(p)
    BY <1>1, <2>2, <2>3 DEF Holds
  <2> QED
    BY <1>1, <1>2, <2>4, <2>5, Quiet
<1>6. CASE snapshots # <<>> /\ kind[p] = "init"
  BY <1>1, <1>2, <1>6, QuietExit
<1> QED
  BY <1>4, <1>5, <1>6


(* A delegation in progress, and its record. *)
LEMMA DealHas ==
  ASSUME Regrouped, NEW p \in Procs, AtWork(p)
  PROVE  /\ deal[p] \in DOMAIN deals
         /\ deals[deal[p]] \in Deals
         /\ deals[deal[p]].kind = kind[p]
         /\ deals[deal[p]].phase = PhaseAt[pc[p]]
<1>1. /\ deal[p] \in DOMAIN deals
      /\ deals[deal[p]].kind = kind[p]
      /\ deals[deal[p]].phase = PhaseAt[pc[p]]
  BY DEF Regrouped, ProcOK, Owns
<1>2. deals[deal[p]] \in Deals
  BY <1>1 DEF Regrouped, StoreOK
<1> QED
  BY <1>1, <1>2

(* It is charged once it is past the budget. *)
LEMMA HoldsMeans ==
  ASSUME Regrouped, NEW p \in Procs, AtWork(p)
  PROVE  /\ Holds(p) <=> pc[p] # "budget" /\ kind[p] = "patch"
         /\ deal[p] \in ChargedIn(deals) <=> pc[p] # "budget" /\ kind[p] = "patch"
  BY DealHas DEF Holds, AtWork, PhaseAt, ChargedIn

LEMMA TakeTimestampMoves ==
  ASSUME OneCommand, Regrouped, Sequential, NEW p \in Procs, TakeTimestamp(p)
  PROVE  Moved
<1> USE DEF TakeTimestamp
<1>1. /\ pc[p] = "stamp" /\ pc'[p] = "insert"
      /\ kind'[p] = kind[p] /\ wallet'[p] = wallet[p] /\ deal'[p] = deal[p]
      /\ ts'[p] = clock + 1
  BY DEF Regrouped, LocalTypes
<1>2. /\ UNCHANGED <<snapshots, announced>>
      /\ ChargedIn(deals') = ChargedIn(deals)
      /\ used'.crashes = used.crashes
      /\ Book' = Book
  BY DEF Book
<1>3. Holds(p)' = Holds(p)
  BY <1>1, <1>2 DEF Holds
<1>4. wallet[p] = IF Holds(p) THEN Spend(Book, Cost) ELSE Book
  BY <1>1 DEF Sequential, InTurn, Loaded
<1>5. Loaded(p)'
  BY <1>1, <1>2, <1>3, <1>4 DEF Loaded
<1>6. \A i \in DOMAIN snapshots' : snapshots'[i].ts < ts'[p]
  <2> SUFFICES ASSUME NEW i \in DOMAIN snapshots PROVE snapshots[i].ts < clock + 1
    BY <1>1, <1>2
  <2>1. snapshots[i].ts \in Stamps
    BY DEF Stamps
  <2>2. snapshots[i].ts \in 0..clock /\ clock \in Nat
    BY <2>1 DEF Regrouped, StoreOK
  <2> QED
    BY <2>2
<1>7. InTurn(p)' /\ pc'[p] # "announce" /\ pc[p] # "announce"
  BY <1>1, <1>5, <1>6 DEF InTurn
<1> HIDE DEF TakeTimestamp
<1> QED
  BY <1>2, <1>3, <1>7, Quiet

LEMMA PassGateMoves ==
  ASSUME OneCommand, Regrouped, Sequential, NEW p \in Procs, NEW proposal,
         PassGate(p, proposal)
  PROVE  Moved
<1> USE DEF PassGate
<1>1. /\ pc[p] = "gate" /\ pc'[p] = "budget"
      /\ kind'[p] = kind[p] /\ wallet'[p] = wallet[p]
  BY DEF Regrouped, LocalTypes, Goto
<1>2. /\ UNCHANGED <<snapshots, announced>>
      /\ ChargedIn(deals') = ChargedIn(deals)
      /\ used'.crashes = used.crashes
      /\ Book' = Book
  <2>1. ChargedIn(deals') = ChargedIn(deals)
    BY OpenedUncharged
  <2> QED
    BY <2>1 DEF Book
<1>3. Holds(p)' = Holds(p) /\ ~Holds(p) /\ ~Holds(p)'
  BY <1>1 DEF Holds
<1>4. kind[p] = "patch" => wallet[p] = Book
  BY <1>1, <1>3 DEF Sequential, InTurn, Loaded
<1>5. InTurn(p)'
  BY <1>1, <1>2, <1>3, <1>4 DEF InTurn, Loaded
<1>6. pc[p] # "announce" /\ pc'[p] # "announce"
  BY <1>1
<1> HIDE DEF PassGate
<1> QED
  BY <1>2, <1>3, <1>5, <1>6, Quiet

LEMMA DenyGateMoves ==
  ASSUME OneCommand, Regrouped, Sequential, NEW p \in Procs, NEW proposal,
         DenyGate(p, proposal)
  PROVE  Moved
<1> USE DEF DenyGate
<1>1. pc[p] = "gate" /\ ~Holds(p)
  BY DEF Holds
<1>2. /\ UNCHANGED <<snapshots, announced>>
      /\ ChargedIn(deals') = ChargedIn(deals)
      /\ Len(deals) + 1 \notin ChargedIn(deals)
      /\ used'.crashes = used.crashes
      /\ Book' = Book
  <2>1. ChargedIn(deals') = ChargedIn(deals) /\ Len(deals) + 1 \notin ChargedIn(deals)
    BY OpenedUncharged
  <2> QED
    BY <2>1 DEF Book
<1>3. CASE kind[p] = "patch"
  <2>1. /\ pc'[p] = "stamp" /\ kind'[p] = kind[p] /\ wallet'[p] = wallet[p]
        /\ deal'[p] = Len(deals) + 1
    BY <1>3 DEF Regrouped, LocalTypes, Goto
  <2>2. ~Holds(p)'
    BY <1>2, <2>1 DEF Holds
  <2>3. wallet[p] = Book
    BY <1>1, <1>3 DEF Sequential, InTurn, Loaded
  <2>4. InTurn(p)'
    BY <1>2, <2>1, <2>2, <2>3 DEF InTurn, Loaded
  <2>5. pc'[p] # "announce" /\ Holds(p)' = Holds(p)
    BY <1>1, <2>1, <2>2 DEF Holds
  <2> HIDE DEF DenyGate
  <2> QED
    BY <1>1, <1>2, <2>4, <2>5, Quiet
<1>4. CASE kind[p] # "patch"
  BY <1>1, <1>2, <1>4, QuietExit
<1> QED
  BY <1>3, <1>4

LEMMA HaltMoves ==
  ASSUME OneCommand, Regrouped, Sequential, NEW p \in Procs, Halt(p)
  PROVE  Moved
<1> USE DEF Halt, Finish
<1>1. AtWork(p) /\ pc[p] = "budget" /\ ~Holds(p) /\ deal[p] \notin ChargedIn(deals)
  BY HoldsMeans DEF AtWork
<1>2. PICK r \in Deals : /\ deals' = [deals EXCEPT ![deal[p]] = r]
                        /\ r.kind = kind[p]
                        /\ r.phase = "halted"
  BY <1>1, RecordIs DEF Phases
<1>3. ChargedIn(deals') = ChargedIn(deals)
  <2>1. /\ deal[p] \in DOMAIN deals
        /\ deals[deal[p]].kind = kind[p] /\ deals[deal[p]].phase = "passed"
    BY <1>1, DealHas DEF PhaseAt
  <2> QED
    BY <1>2, <2>1, ChargesStay
<1>4. UNCHANGED <<snapshots, announced>> /\ used'.crashes = used.crashes
  OBVIOUS
<1>5. CASE kind[p] = "patch"
  <2>1. Goto(p, "stamp") /\ UNCHANGED <<wallet, deal>>
    BY <1>5
  <2>2. "stamp" \in PCs \ {"idle", "load", "insert", "announce"}
    BY DEF PCs
  <2> QED
    BY <1>1, <1>3, <1>4, <1>5, <2>1, <2>2, QuietGoes
<1>6. CASE kind[p] # "patch"
  BY <1>1, <1>3, <1>4, <1>6, QuietExit
<1> QED
  BY <1>5, <1>6

LEMMA RequestMoves ==
  ASSUME OneCommand, Regrouped, Sequential, NEW p \in Procs, Request(p)
  PROVE  Moved
<1> USE DEF Request
<1>1. AtWork(p) /\ pc[p] = "request"
  BY DEF AtWork
<1>2. PICK r \in Deals : /\ deals' = [deals EXCEPT ![deal[p]] = r]
                        /\ r.kind = kind[p]
                        /\ r.phase = "requested"
  BY <1>1, RecordIs DEF Phases
<1>3. ChargedIn(deals') = ChargedIn(deals)
  <2>1. /\ deal[p] \in DOMAIN deals
        /\ deals[deal[p]].kind = kind[p] /\ deals[deal[p]].phase = "spent"
    BY <1>1, DealHas DEF PhaseAt
  <2> QED
    BY <1>2, <2>1, ChargesStay
<1>4. UNCHANGED <<snapshots, announced>> /\ used'.crashes = used.crashes
  OBVIOUS
<1>5. "run" \in PCs \ {"idle", "load", "insert", "announce"}
  BY DEF PCs
<1>6. Holds(p) <=> deal[p] \in ChargedIn(deals)
  BY <1>1 DEF Holds
<1> QED
  BY <1>1, <1>3, <1>4, <1>5, <1>6, QuietGoes

LEMMA ReportMoves ==
  ASSUME OneCommand, Regrouped, Sequential, NEW p \in Procs,
         NEW report \in Reports, Report(p, report)
  PROVE  Moved
<1> USE DEF Report, Finish
<1> DEFINE phase == IF Passes(report) THEN "completed" ELSE "failed"
           r == [deals[deal[p]] EXCEPT !.phase = phase, !.report = report]
<1>1. AtWork(p) /\ pc[p] = "run"
  BY DEF AtWork
<1>2. /\ deal[p] \in DOMAIN deals /\ deals[deal[p]] \in Deals
      /\ deals[deal[p]].kind = kind[p] /\ deals[deal[p]].phase = "requested"
  BY <1>1, DealHas DEF PhaseAt
<1>3. r \in Deals /\ r.kind = kind[p] /\ r.phase \in {"completed", "failed"}
  BY <1>2 DEF Deals, Phases
<1>4. deals' = [deals EXCEPT ![deal[p]] = r]
  BY <1>2 DEF Reported, Regrouped, StoreOK
<1>5. ChargedIn(deals') = ChargedIn(deals)
  <2> HIDE DEF r
  <2> QED
    BY <1>2, <1>3, <1>4, ChargesStay
<1> HIDE DEF r, phase
<1>6. UNCHANGED <<snapshots, announced>> /\ used'.crashes = used.crashes
  OBVIOUS
<1>7. Holds(p) <=> deal[p] \in ChargedIn(deals)
  BY <1>1 DEF Holds
<1>8. CASE kind[p] = "patch"
  <2>1. PICK where \in {"validate", "stamp"} :
          Goto(p, where) /\ UNCHANGED <<wallet, deal>>
    BY <1>8
  <2>2. where \in PCs \ {"idle", "load", "insert", "announce"}
    BY DEF PCs
  <2> QED
    BY <1>1, <1>5, <1>6, <1>7, <1>8, <2>1, <2>2, QuietGoes
<1>9. CASE kind[p] # "patch"
  <2>1. ~Holds(p)
    BY <1>1, <1>9, HoldsMeans
  <2> QED
    BY <1>1, <1>5, <1>6, <1>9, <2>1, QuietExit
<1> QED
  BY <1>8, <1>9

LEMMA DraftPatchMoves ==
  ASSUME OneCommand, Regrouped, Sequential, NEW p \in Procs,
         NEW valid \in BOOLEAN, DraftPatch(p, valid)
  PROVE  Moved
<1> USE DEF DraftPatch
<1>1. AtWork(p) /\ pc[p] = "validate" /\ kind[p] = "patch"
  BY DEF AtWork, Regrouped, ProcOK, Owns
<1>2. /\ UNCHANGED <<snapshots, announced>> /\ used'.crashes = used.crashes
      /\ ChargedIn(deals') = ChargedIn(deals)
  OBVIOUS
<1>3. "stamp" \in PCs \ {"idle", "load", "insert", "announce"}
  BY DEF PCs
<1>4. Holds(p) <=> deal[p] \in ChargedIn(deals)
  BY <1>1 DEF Holds
<1> QED
  BY <1>1, <1>2, <1>3, <1>4, QuietGoes


-----------------------------------------------------------------------------
(* Steps that charge, save, announce and lose.                             *)

LEMMA ChargeMoves ==
  ASSUME OneCommand, Regrouped, Sequential, NEW p \in Procs, Charge(p)
  PROVE  Moved
<1> USE DEF Charge
<1>1. /\ AtWork(p) /\ pc[p] = "budget" /\ ~Holds(p)
      /\ deal[p] \notin ChargedIn(deals)
  BY HoldsMeans DEF AtWork
<1>2. PICK r \in Deals : /\ deals' = [deals EXCEPT ![deal[p]] = r]
                        /\ r.kind = kind[p]
                        /\ r.phase = "spent"
  BY <1>1, RecordIs DEF Phases
<1>3. /\ DOMAIN deals' = DOMAIN deals
      /\ deal[p] \in DOMAIN deals
      /\ deals[deal[p]].kind = kind[p]
      /\ deals'[deal[p]] = r
      /\ \A e \in DOMAIN deals : e # deal[p] => deals'[e] = deals[e]
  BY <1>1, <1>2, DealHas, ReplaceDeal DEF Regrouped, StoreOK
<1>4. /\ UNCHANGED <<snapshots, announced>> /\ used' = used
      /\ Book' = Book /\ InOrder'
  BY DEF Book, Sequential, InOrder
<1>5. /\ pc'[p] = "request" /\ kind'[p] = kind[p] /\ deal'[p] = deal[p]
      /\ wallet'[p] = Spend(wallet[p], Cost)
  BY DEF Regrouped, LocalTypes, Goto
<1>6. Late' = Late
  BY <1>1, <1>5, Alone
<1>7. CASE kind[p] = "patch"
  <2>1. ChargedIn(deals') = ChargedIn(deals) \cup {deal[p]}
    BY <1>2, <1>3, <1>7 DEF ChargedIn
  <2>2. Cardinality(ChargedIn(deals')) = Cardinality(ChargedIn(deals)) + 1
    BY <1>1, <2>1, Numbers, FS_AddElement
  <2>3. Holds(p)'
    BY <1>5, <2>1 DEF Holds
  <2>4. Held = 0 /\ Held' = 1
    BY <1>1, <2>3, Alone
  <2>5. Lost' = Lost
    BY <1>4, <2>2, <2>4, Numbers DEF Lost
  <2>6. wallet[p] = Book
    BY <1>1, <1>7 DEF Sequential, InTurn, Loaded
  <2>7. InTurn(p)'
    BY <1>4, <1>5, <2>3, <2>6 DEF InTurn, Loaded
  <2>8. Counted'
    BY <1>4, <1>6, <2>5 DEF Sequential, Counted, Unannounced
  <2> QED
    BY <1>4, <2>4, <2>5, <2>7, <2>8, OneInTurn DEF Moved, AccountStep, Charges
<1>8. CASE kind[p] # "patch"
  <2>1. ChargedIn(deals') = ChargedIn(deals)
    BY <1>2, <1>3, <1>8 DEF ChargedIn
  <2>2. ~Holds(p)' /\ Holds(p)' = Holds(p)
    BY <1>1, <1>5, <2>1 DEF Holds
  <2>3. InTurn(p)' /\ pc[p] # "announce" /\ pc'[p] # "announce"
    BY <1>1, <1>5, <1>8 DEF InTurn, Loaded
  <2> HIDE DEF Charge
  <2> QED
    BY <1>4, <2>1, <2>2, <2>3, Quiet
<1> QED
  BY <1>7, <1>8

LEMMA InsertSnapshotMoves ==
  ASSUME OneCommand, Regrouped, Sequential, NEW p \in Procs, InsertSnapshot(p)
  PROVE  Moved
<1> USE DEF InsertSnapshot
<1> DEFINE row == [ts |-> ts[p], budget |-> wallet[p]]
<1>1. /\ pc[p] = "insert" /\ pc'[p] = "announce"
      /\ kind'[p] = kind[p] /\ ts'[p] = ts[p]
      /\ wallet'[p] = wallet[p] /\ deal'[p] = deal[p]
  BY Goes DEF PCs
<1>2. /\ DOMAIN snapshots' = DOMAIN snapshots \cup {Len(snapshots) + 1}
      /\ Len(snapshots') = Len(snapshots) + 1
      /\ snapshots' # <<>>
      /\ snapshots'[Len(snapshots) + 1] = row
      /\ \A i \in DOMAIN snapshots : snapshots'[i] = snapshots[i]
      /\ \A i \in DOMAIN snapshots : i \in 1..Len(snapshots)
      /\ Len(snapshots) \in Nat
  <2> HIDE DEF row
  <2>1. snapshots' = Append(snapshots, row) /\ snapshots \in Seq(Row)
    BY DEF row, Regrouped, StoreOK, Rows
  <2>2. row \in Row
    BY DEF row, Row, Regrouped, LocalTypes
  <2> QED
    BY <2>1, <2>2
<1>3. row.ts = ts[p] /\ row.budget = wallet[p]
  OBVIOUS
<1>4. Book' = wallet[p]
  BY <1>2, <1>3 DEF Book
<1> HIDE DEF row
<1>5. \A i \in DOMAIN snapshots : snapshots[i].ts < ts[p]
  BY <1>1 DEF Sequential, InTurn
<1>6. InOrder'
  <2> SUFFICES ASSUME NEW i \in DOMAIN snapshots', NEW j \in DOMAIN snapshots', i < j
               PROVE  snapshots'[i].ts < snapshots'[j].ts
    BY DEF InOrder
  <2>1. i \in DOMAIN snapshots
    BY <1>2
  <2>2. CASE j \in DOMAIN snapshots
    BY <1>2, <2>1, <2>2 DEF Sequential, InOrder
  <2>3. CASE j = Len(snapshots) + 1
    BY <1>2, <1>3, <1>5, <2>1, <2>3
  <2> QED
    BY <1>2, <2>2, <2>3
<1>7. ts[p] \notin announced
  <2>1. \A t \in announced : t \in Nat /\ t < ts[p]
    <3>1. \A t \in announced : \E i \in DOMAIN snapshots : t = snapshots[i].ts
      BY DEF Regrouped, StoreOK, Stamps
    <3>2. \A i \in DOMAIN snapshots : snapshots[i].ts \in Nat
      BY RowTypes DEF Regrouped, StoreOK
    <3> QED
      BY <1>5, <3>1, <3>2
  <2> QED
    BY <2>1
<1>8. ~Holds(p)'
  BY <1>1 DEF Holds
<1>9. InTurn(p)'
  BY <1>1, <1>4, <1>7, <1>8 DEF InTurn, Loaded
<1>10. /\ Held = IF Holds(p) THEN 1 ELSE 0
       /\ Held' = 0 /\ Late = 0 /\ Late' = 1
  BY <1>1, <1>8, Alone
<1>11. wallet[p] = IF Holds(p) THEN Spend(Book, Cost) ELSE Book
  BY <1>1 DEF Sequential, InTurn, Loaded
<1>12. /\ Lost' = Lost
       /\ Holds(p) => Book' = Spend(Book, Cost)
       /\ ~Holds(p) => Book' = Book
  <2>1. Cardinality(ChargedIn(deals')) = Cardinality(ChargedIn(deals))
    OBVIOUS
  <2>2. CASE Holds(p)
    <3>1. Book' = Spend(Book, Cost) /\ Book'.spend_count = Book.spend_count + 1 /\ Held = 1
      BY <1>4, <1>10, <1>11, <2>2, BookIsWallet, SpendKeepsHalt
    <3> QED
      BY <1>10, <2>1, <2>2, <3>1, Numbers DEF Lost
  <2>3. CASE ~Holds(p)
    <3>1. Book' = Book /\ Held = 0
      BY <1>4, <1>10, <1>11, <2>3
    <3> QED
      BY <1>10, <2>1, <2>3, <3>1 DEF Lost
  <2> QED
    BY <2>2, <2>3
<1>13. Unannounced' = Unannounced
  BY <1>2, <1>10, Numbers DEF Unannounced
<1>14. Counted'
  BY <1>12, <1>13 DEF Sequential, Counted
<1>15. AccountStep
  BY <1>10, <1>12 DEF AccountStep, Rests, Saves
<1> QED
  BY <1>6, <1>9, <1>14, <1>15, OneInTurn DEF Moved

LEMMA AnnounceSnapshotMoves ==
  ASSUME OneCommand, Regrouped, Sequential, NEW p \in Procs, AnnounceSnapshot(p)
  PROVE  Moved
<1> USE DEF AnnounceSnapshot
<1>1. /\ pc[p] = "announce" /\ ~Holds(p)
      /\ ts[p] \notin announced
      /\ wallet[p] = Book
  BY DEF Sequential, InTurn, Loaded, Holds
<1>2. /\ announced' = announced \cup {ts[p]}
      /\ UNCHANGED snapshots /\ used' = used
      /\ ChargedIn(deals') = ChargedIn(deals)
      /\ Book' = Book /\ InOrder'
  BY DEF Book, Sequential, InOrder
<1>3. Cardinality(announced') = Cardinality(announced) + 1
  BY <1>1, <1>2, Numbers, FS_AddElement
<1>4. pc'[p] # "announce" /\ ~Holds(p)' /\ InTurn(p)'
  <2>1. CASE kind[p] # "init" /\ deal[p] = NoDeal
    <3>1. Goto(p, "gate") /\ UNCHANGED <<wallet, deal>> /\ "gate" \in PCs
      BY <2>1 DEF PCs
    <3>2. pc'[p] = "gate" /\ wallet'[p] = Book
      BY <1>1, <3>1, Goes
    <3>3. ~Holds(p)'
      BY <3>2 DEF Holds
    <3> QED
      BY <1>2, <3>2, <3>3 DEF InTurn, Loaded
  <2>2. CASE ~(kind[p] # "init" /\ deal[p] = NoDeal)
    BY <2>2, ExitMeans
  <2> QED
    BY <2>1, <2>2
<1>5. Held = 0 /\ Held' = 0 /\ Late = 1 /\ Late' = 0
  BY <1>1, <1>4, Alone
<1>6. Lost' = Lost
  BY <1>2, <1>5 DEF Lost
<1>7. Unannounced' = Unannounced
  BY <1>2, <1>3, <1>5, Numbers DEF Unannounced
<1>8. Counted'
  BY <1>2, <1>6, <1>7 DEF Sequential, Counted
<1> QED
  BY <1>2, <1>4, <1>5, <1>6, <1>8, OneInTurn DEF Moved, AccountStep, Rests

LEMMA CrashMoves ==
  ASSUME OneCommand, Regrouped, Sequential, NEW p \in Procs, Crash(p)
  PROVE  Moved
<1> USE DEF Crash
<1>1. pc'[p] = "idle" /\ InTurn(p)' /\ ~Holds(p)'
  BY ExitMeans
<1>2. /\ UNCHANGED <<snapshots, announced>>
      /\ ChargedIn(deals') = ChargedIn(deals)
      /\ Book' = Book /\ InOrder'
  BY DEF store, Book, Sequential, InOrder
<1>3. used'.crashes = used.crashes + 1 /\ used.crashes < MaxCrashes
  BY DEF Regrouped, StoreOK
<1>4. /\ Held = IF Holds(p) THEN 1 ELSE 0
      /\ Late = IF pc[p] = "announce" THEN 1 ELSE 0
      /\ Held' = 0 /\ Late' = 0
  BY <1>1, Alone
<1>5. Held \in {0, 1} /\ Late \in {0, 1}
  BY <1>4
<1>6. Lost' = Lost + Held /\ Unannounced' = Unannounced + Late
  BY <1>2, <1>4, <1>5, Numbers DEF Lost, Unannounced
<1>7. Lost \in 0..used.crashes /\ Unannounced \in 0..used.crashes /\ used.crashes \in Nat
  BY Numbers DEF Sequential, Counted
<1>8. Counted'
  BY <1>3, <1>5, <1>6, <1>7 DEF Counted
<1>9. AccountStep
  BY <1>2, <1>3, <1>4, <1>5, <1>6, <1>7 DEF AccountStep, Rests, Loses
<1> QED
  BY <1>1, <1>2, <1>8, <1>9, OneInTurn DEF Moved

LEMMA StutterMoves ==
  ASSUME Sequential, UNCHANGED vars
  PROVE  Moved
<1> USE DEF vars, store, local
<1>1. UNCHANGED <<Book, Held, Late, Lost, Unannounced>>
  BY DEF Book, Held, Late, Holds, Lost, Unannounced
<1>2. \A p \in Procs : InTurn(p)'
  BY DEF Sequential, InTurn, Loaded, Holds, Book
<1> QED
  BY <1>1, <1>2 DEF Moved, Sequential, InOrder, Counted, AccountStep, Rests

(* Every step keeps the invariant, and the account.                        *)
LEMMA StepMoves ==
  ASSUME OneCommand, Invariant, Sequential, [Next]_vars
  PROVE  Moved
<1>1. Regrouped
  BY Regroup
<1>2. CASE UNCHANGED vars
  BY <1>2, StutterMoves
<1>3. ASSUME NEW p \in Procs, NEW k \in Kinds, Start(p, k)
      PROVE  Moved
  BY <1>1, <1>3, StartMoves
<1>4. ASSUME NEW p \in Procs, Work(p)
      PROVE  Moved
  BY <1>1, <1>4, LoadStateMoves, TakeTimestampMoves, InsertSnapshotMoves,
     AnnounceSnapshotMoves, PassGateMoves, DenyGateMoves, ChargeMoves, HaltMoves,
     RequestMoves, ReportMoves, DraftPatchMoves DEF Work
<1>5. ASSUME NEW p \in Procs, Crash(p)
      PROVE  Moved
  BY <1>1, <1>5, CrashMoves
<1> QED
  BY <1>2, <1>3, <1>4, <1>5 DEF Next

LEMMA InitSequential == Init => Sequential
<1> SUFFICES ASSUME Init PROVE Sequential
  OBVIOUS
<1> USE DEF Init
<1>1. ChargedIn(deals) = {} /\ announced = {} /\ snapshots = <<>>
  BY DEF ChargedIn
<1>2. Cardinality(ChargedIn(deals)) = 0 /\ Cardinality(announced) = 0 /\ Len(snapshots) = 0
  BY <1>1, FS_EmptySet
<1>3. Book.spend_count = 0
  BY <1>1 DEF Book, FreshWallet
<1>4. \A p \in Procs : pc[p] = "idle" /\ InTurn(p) /\ ~Holds(p)
  BY DEF InTurn, Loaded, Holds
<1>5. Held = 0 /\ Late = 0
  BY <1>4 DEF Held, Late
<1>6. Lost = 0 /\ Unannounced = 0 /\ used.crashes = 0
  BY <1>2, <1>3, <1>5 DEF Lost, Unannounced
<1> QED
  BY <1>1, <1>4, <1>6 DEF Sequential, InOrder, Counted


-----------------------------------------------------------------------------
(* The theorems.                                                           *)

(* Whatever commands fail, are denied, halt or die: between them the books *)
(* and the ledger agree as Sequential says.                                *)
THEOREM InSequence == ASSUME OneCommand PROVE Spec => []Sequential
<1>1. Invariant /\ Sequential /\ [Next]_vars => Sequential'
  BY StepMoves DEF Moved
<1> QED
  BY <1>1, InitSequential, Safety, PTL DEF Spec

(* The saved wallet misses no charge of a patch delegation, except one for *)
(* every command that died before it could save (propose_patch,            *)
(* save_budget).                                                           *)
THEOREM SpendingKept == ASSUME OneCommand PROVE Spec => []OnlyCrashesLoseSpending
<1>1. Invariant /\ Sequential => OnlyCrashesLoseSpending
  <2> SUFFICES ASSUME Regrouped, Sequential, AtRest, snapshots # <<>>
               PROVE  Cardinality(ChargedIn(deals)) - Latest.spend_count \in 0..used.crashes
    BY Regroup DEF OnlyCrashesLoseSpending, Charged, ChargedIn
  <2>1. Latest = Book
    BY LatestIsBook DEF Sequential
  <2>2. Held = 0
    BY DEF AtRest, Held, Holds
  <2>3. Lost = Cardinality(ChargedIn(deals)) - Latest.spend_count
    BY <2>1, <2>2, Numbers DEF Lost
  <2> QED
    BY <2>3 DEF Sequential, Counted
<1> QED
  BY <1>1, Safety, InSequence, PTL

(* Every snapshot has its SNAPSHOT_CREATED event, except one for every     *)
(* command that died in create_snapshot.                                   *)
THEOREM AnnouncedInTime == ASSUME OneCommand PROVE Spec => []SnapshotsAnnounced
<1>1. Invariant /\ Sequential => SnapshotsAnnounced
  <2> SUFFICES ASSUME Regrouped, Sequential, AtRest
               PROVE  Len(snapshots) - Cardinality(announced) \in 0..used.crashes
    BY Regroup DEF SnapshotsAnnounced
  <2>1. Late = 0
    BY DEF AtRest, Late
  <2>2. Unannounced = Len(snapshots) - Cardinality(announced)
    BY <2>1, Numbers DEF Unannounced
  <2> QED
    BY <2>2 DEF Sequential, Counted
<1> QED
  BY <1>1, Safety, InSequence, PTL

LEMMA LatestMeans == Invariant /\ Sequential /\ snapshots # <<>> => Latest = Book
  BY Regroup, LatestIsBook DEF Sequential

(* No snapshot is ever taken back. *)
LEMMA SnapshotsStay ==
  ASSUME Invariant, [Next]_vars, snapshots # <<>>
  PROVE  snapshots' # <<>>
<1>1. Regrouped
  BY Regroup
<1>2. ASSUME NEW row, snapshots' = Append(snapshots, row)
      PROVE  snapshots' # <<>>
  BY <1>1, <1>2 DEF Regrouped, StoreOK, Rows
<1>3. snapshots' = snapshots \/ \E row : snapshots' = Append(snapshots, row)
  BY DEF Next, Work, Start, LoadState, TakeTimestamp, InsertSnapshot, AnnounceSnapshot,
         PassGate, DenyGate, Charge, Halt, Request, Report, DraftPatch, Crash, vars, store
<1> QED
  BY <1>2, <1>3

(* Money once seen spent is never back, nor a halt lifted.                 *)
THEOREM NothingRefunded == ASSUME OneCommand PROVE Spec => NeverRefunded
<1> DEFINE Kept == snapshots # <<>> =>
                     /\ Latest'.spend_count >= Latest.spend_count
                     /\ Latest.halted => Latest'.halted
<1>1. Invariant /\ Invariant' /\ Sequential /\ [Next]_vars => Kept
  <2> SUFFICES ASSUME Invariant, Invariant', Sequential, [Next]_vars, snapshots # <<>>
               PROVE  /\ Latest'.spend_count >= Latest.spend_count
                      /\ Latest.halted => Latest'.halted
    OBVIOUS
  <2>1. Regrouped /\ Sequential' /\ AccountStep
    BY Regroup, StepMoves DEF Moved
  <2>2. Latest = Book
    BY LatestMeans
  <2>3. Latest' = Book'
    <3>1. Invariant' /\ Sequential' /\ (snapshots # <<>>)' => (Latest = Book)'
      BY LatestMeans, PTL
    <3> QED
      BY <2>1, <3>1, SnapshotsStay
  <2>4. Book \in Wallets /\ Funds(Book) /\ Book.spend_count \in Nat
    BY <2>1, BookIsWallet
  <2>5. Book' = Book \/ Book' = Spend(Book, Cost)
    BY <2>1 DEF AccountStep, Rests, Charges, Saves, Loses
  <2>6. CASE Book' = Book
    BY <2>2, <2>3, <2>4, <2>6
  <2>7. CASE Book' = Spend(Book, Cost)
    <3>1. /\ Book'.spend_count = Book.spend_count + 1
          /\ Book.halted => Book'.halted
      BY <2>4, <2>7, SpendKeepsHalt
    <3> QED
      BY <2>2, <2>3, <2>4, <3>1
  <2> QED
    BY <2>5, <2>6, <2>7
<1>2. Spec => [][Kept]_vars
  BY <1>1, Safety, InSequence, PTL DEF Spec
<1> QED
  BY <1>2 DEF NeverRefunded

-----------------------------------------------------------------------------
(* The commands implement the account.                                     *)

(* What the mapping makes of a state ... *)
Means ==
  /\ Saved = Book.spend_count
  /\ Open = Held
  /\ Cardinality(Charged("patch")) - Saved - Open = Lost

(* ... is what is counted here. *)
LEMMA AccountMeans ==
  ASSUME OneCommand PROVE Invariant /\ Sequential => Means
<1> SUFFICES ASSUME Invariant, Sequential PROVE Means
  OBVIOUS
<1>1. Regrouped /\ Charged("patch") = ChargedIn(deals)
  BY Regroup DEF Charged, ChargedIn
<1>2. Saved = Book.spend_count
  <2>1. CASE snapshots = <<>>
    BY <2>1 DEF Saved, Book, FreshWallet
  <2>2. CASE snapshots # <<>>
    BY <1>1, <2>2, LatestIsBook DEF Saved, Sequential
  <2> QED
    BY <2>1, <2>2
<1> DEFINE Holding == {p \in Procs : Holds(p)}
<1>3. Open = Cardinality(Holding)
  BY <1>1 DEF Open, Holds
<1>4. Cardinality(Holding) = Held
  <2>1. CASE \E p \in Procs : Holds(p)
    <3>1. PICK p \in Procs : Holds(p)
      BY <2>1
    <3>2. Holding = {p}
      BY <3>1 DEF OneCommand
    <3> QED
      BY <2>1, <3>2, FS_Singleton DEF Held
  <2>2. CASE ~\E p \in Procs : Holds(p)
    <3>1. Holding = {}
      BY <2>2
    <3> QED
      BY <2>2, <3>1, FS_EmptySet DEF Held
  <2> QED
    BY <2>1, <2>2
<1> QED
  BY <1>1, <1>2, <1>3, <1>4 DEF Means, Lost

(* The safety part of Books!Spec, which promises besides that an open      *)
(* charge is settled.                                                      *)
KeepsAccount == Books!Init /\ [][Books!Next]_(Books!account)

LEMMA InitAccount == ASSUME OneCommand PROVE Init => Books!Init
<1> SUFFICES ASSUME Init PROVE Books!Init
  OBVIOUS
<1>1. Invariant /\ Sequential
  BY Initially, InitSequential
<1>2. snapshots = <<>> /\ \A p \in Procs : ~Holds(p)
  BY DEF Init, Holds
<1>3. Book.spend_count = 0 /\ Held = 0
  BY <1>2 DEF Book, FreshWallet, Held
<1>4. Lost \in 0..0
  BY <1>1 DEF Sequential, Counted, Init
<1> QED
  BY <1>1, <1>3, <1>4, AccountMeans DEF Means, Books!Init

LEMMA StepAccount ==
  ASSUME OneCommand, Invariant, Invariant', Sequential, [Next]_vars
  PROVE  [Books!Next]_(Books!account)
<1>1. Regrouped /\ Sequential' /\ AccountStep
  BY Regroup, StepMoves DEF Moved
<1>2. Means
  BY AccountMeans
<1>3. Means'
  <2>1. Invariant' /\ Sequential' => Means'
    BY AccountMeans, PTL
  <2> QED
    BY <1>1, <2>1
<1>4. Lost \in 0..used.crashes /\ used.crashes \in Nat
  BY <1>1, Numbers DEF Sequential, Counted
<1>5. CASE Rests
  BY <1>2, <1>3, <1>5 DEF Means, Rests, Books!account
<1>6. CASE Charges
  BY <1>2, <1>3, <1>6 DEF Means, Charges, Books!Next, Books!Charge
<1>7. CASE Saves
  <2>1. Book'.spend_count = Book.spend_count + 1
    BY <1>1, <1>7, BookIsWallet, SpendKeepsHalt DEF Saves
  <2> QED
    BY <1>2, <1>3, <1>7, <2>1 DEF Means, Saves, Books!Next, Books!Save
<1>8. CASE Loses
  <2>1. Lost < MaxCrashes
    BY <1>4, <1>8 DEF Loses
  <2> QED
    BY <1>2, <1>3, <1>8, <2>1 DEF Means, Loses, Books!Next, Books!Lose
<1> QED
  BY <1>1, <1>5, <1>6, <1>7, <1>8 DEF AccountStep

(* Each charge of a patch delegation reaches the saved wallet exactly      *)
(* once, or the command that made it died: execute_delegation and the      *)
(* snapshot patch propose writes at its end implement Account.             *)
THEOREM AccountKept == ASSUME OneCommand PROVE Spec => KeepsAccount
<1>1. Init => Books!Init
  BY InitAccount
<1>2. Invariant /\ Invariant' /\ Sequential /\ [Next]_vars
        => [Books!Next]_(Books!account)
  BY StepAccount
<1> QED
  BY <1>1, <1>2, Safety, InSequence, PTL DEF Spec, KeepsAccount
=============================================================================
