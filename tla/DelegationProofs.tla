-------------------------- MODULE DelegationProofs --------------------------
(***************************************************************************)
(* Proofs about Delegation, for every number of processes, every wallet    *)
(* and every cost.  Commands interleave and die as they please.            *)
(***************************************************************************)
EXTENDS Delegation, FiniteSetTheorems, WellFoundedInduction, TLAPS

USE KindsAssumption, WalletAssumption, BoundsAssumption

-----------------------------------------------------------------------------
(* Lemmas about the wallet.                                                *)

(* A fresh wallet is in order. *)
LEMMA FreshFunds == FreshWallet \in Wallets /\ Funds(FreshWallet)
  BY DEF FreshWallet, Wallets, Funds

(* Spending what is affordable counts one charge and keeps the books.      *)
LEMMA SpendFunds ==
  ASSUME NEW w \in Wallets, Funds(w), CanAfford(w, Cost)
  PROVE  /\ Spend(w, Cost) \in Wallets
         /\ Funds(Spend(w, Cost))
         /\ Spend(w, Cost).spend_count = w.spend_count + 1
<1> DEFINE balance == w.balance - Cost
           s == Spend(w, Cost)
<1>1. /\ s.balance = balance
      /\ s.total_spent = w.total_spent + Cost
      /\ s.spend_count = w.spend_count + 1
      /\ s.halted = (balance <= HaltThreshold)
  BY DEF Spend
<1>2. s \in Wallets
  BY DEF Spend, Wallets
<1>3. (w.spend_count + 1) * Cost = w.spend_count * Cost + Cost
  BY DEF Wallets
<1>4. /\ balance >= HaltThreshold
      /\ balance = Initial - (w.total_spent + Cost)
      /\ w.total_spent + Cost = (w.spend_count + 1) * Cost
  BY <1>3 DEF Wallets, Funds, CanAfford
<1>5. Funds(s)
  <2> HIDE DEF s
  <2> QED
    BY <1>1, <1>4 DEF Funds
<1> QED
  BY <1>1, <1>2, <1>5

-----------------------------------------------------------------------------
(* Lemmas about the latest snapshot.                                       *)

(* Of finitely many timestamps one is the last.                            *)
LEMMA LastExists ==
  ASSUME NEW n \in Nat, NEW T \in SUBSET (0..n), T # {}
  PROVE  \E t \in T : \A u \in T : u <= t
<1> DEFINE After(t) == t + 1 .. n
           Afters == {After(t) : t \in T}
           Smaller == StrictSubsetOrdering(0..n)
<1>1. IsWellFoundedOn(Smaller, SUBSET (0..n))
  <2>1. IsFiniteSet(0..n)
    BY FS_Interval
  <2>2. FiniteSubsetsOf(0..n) = SUBSET (0..n)
    BY <2>1, FS_FiniteSubsetsOfFinite
  <2>3. IsWellFoundedOn(StrictSubsetOrdering(0..n), FiniteSubsetsOf(0..n))
    BY FS_StrictSubsetOrderingWellFounded
  <2> QED
    BY <2>2, <2>3
<1>2. Afters \subseteq SUBSET (0..n) /\ Afters # {}
  <2>1. \A t \in T : After(t) \subseteq 0..n
    OBVIOUS
  <2>2. PICK t \in T : TRUE
    OBVIOUS
  <2>3. After(t) \in Afters
    BY <2>2
  <2> QED
    BY <2>1, <2>3
<1>3. PICK A \in Afters : \A B \in Afters : ~(<<B, A>> \in Smaller)
  <2> HIDE DEF Afters, Smaller
  <2> QED
    BY <1>1, <1>2, WFMin
<1>4. PICK t \in T : A = After(t)
  BY <1>3
<1>5. ASSUME NEW u \in T, ~(u <= t)
      PROVE  FALSE
  <2>1. After(u) \subseteq After(t) /\ u \in After(t) /\ u \notin After(u)
    BY <1>5
  <2>2. <<After(u), After(t)>> \in Smaller
    BY <2>1, <1>2 DEF StrictSubsetOrdering
  <2> QED
    BY <2>2, <1>3, <1>4
<1> QED
  BY <1>5

(* load_latest_snapshot returns the budget of a row there is.              *)
LEMMA LatestIsSaved ==
  ASSUME snapshots \in Seq([ts : Nat, budget : Wallets]), snapshots # <<>>,
         clock \in Nat, Stamps \subseteq 0..clock
  PROVE  \E i \in DOMAIN snapshots : Latest = snapshots[i].budget
<1>1. Stamps # {}
  <2>1. 1 \in DOMAIN snapshots
    OBVIOUS
  <2> QED
    BY <2>1 DEF Stamps
<1>2. PICK t \in Stamps : \A u \in Stamps : u <= t
  BY <1>1, LastExists
<1> DEFINE Rows == {snapshots[i] : i \in DOMAIN snapshots}
           Last(row) == \A i \in DOMAIN snapshots : snapshots[i].ts <= row.ts
<1>3. \E row \in Rows : Last(row)
  BY <1>2 DEF Stamps
<1>4. (CHOOSE row \in Rows : Last(row)) \in Rows
  <2> HIDE DEF Rows, Last
  <2> QED
    BY <1>3
<1> QED
  BY <1>4 DEF Latest

-----------------------------------------------------------------------------
(* Lemmas about the ledger.                                                *)

ChargedIn(ds) ==
  {d \in DOMAIN ds : ds[d].kind = "patch"
     /\ ds[d].phase \in {"spent", "requested", "completed", "failed"}}

(* The charged delegations can be counted, ... *)
LEMMA ChargesCount ==
  ASSUME NEW ds \in Seq(Deals)
  PROVE  IsFiniteSet(ChargedIn(ds)) /\ Cardinality(ChargedIn(ds)) \in Nat
<1>1. ChargedIn(ds) \subseteq 1..Len(ds)
  BY DEF ChargedIn
<1>2. IsFiniteSet(1..Len(ds))
  BY FS_Interval
<1>3. IsFiniteSet(ChargedIn(ds))
  BY <1>1, <1>2, FS_Subset
<1> QED
  BY <1>3, FS_CardinalityType

(* ... and never fewer while every charge stays. *)
LEMMA ChargesKept ==
  ASSUME NEW ds \in Seq(Deals), NEW new \in Seq(Deals), ChargedIn(ds) \subseteq ChargedIn(new)
  PROVE  Cardinality(ChargedIn(ds)) <= Cardinality(ChargedIn(new))
  BY ChargesCount, FS_Subset

(* One more charge is one more in the count.                               *)
LEMMA ChargesGrow ==
  ASSUME NEW ds \in Seq(Deals), NEW new \in Seq(Deals), ChargedIn(ds) \subseteq ChargedIn(new),
         NEW d \in ChargedIn(new), d \notin ChargedIn(ds)
  PROVE  Cardinality(ChargedIn(ds)) + 1 <= Cardinality(ChargedIn(new))
<1>1. Cardinality(ChargedIn(ds) \cup {d}) = Cardinality(ChargedIn(ds)) + 1
  BY ChargesCount, FS_AddElement
<1>2. Cardinality(ChargedIn(ds) \cup {d}) <= Cardinality(ChargedIn(new))
  BY ChargesCount, FS_Subset
<1> QED
  BY <1>1, <1>2

(* Replacing one record of the ledger leaves every other one alone.        *)
LEMMA ReplaceDeal ==
  ASSUME NEW ds \in Seq(Deals), NEW d \in DOMAIN ds, NEW r \in Deals,
         NEW new, new = [ds EXCEPT ![d] = r]
  PROVE  /\ new \in Seq(Deals)
         /\ DOMAIN new = DOMAIN ds
         /\ new[d] = r
         /\ \A e \in DOMAIN ds : e # d => new[e] = ds[e]
  OBVIOUS

(* Appending a record leaves every other one alone.                        *)
LEMMA AppendDeal ==
  ASSUME NEW ds \in Seq(Deals), NEW r \in Deals,
         NEW new, new = Append(ds, r)
  PROVE  /\ new \in Seq(Deals)
         /\ DOMAIN new = DOMAIN ds \cup {Len(ds) + 1}
         /\ Len(ds) + 1 \in Nat \ DOMAIN ds
         /\ new[Len(ds) + 1] = r
         /\ \A d \in DOMAIN ds : new[d] = ds[d]
  OBVIOUS

-----------------------------------------------------------------------------
(* The invariant, regrouped: the store, and every process against it.      *)
Row == [ts : Nat, budget : Wallets]
Rows == Seq(Row)

(* A saved row has a wallet and a timestamp. *)
LEMMA RowTypes ==
  ASSUME NEW rows \in Rows, NEW i \in DOMAIN rows
  PROVE  rows[i].budget \in Wallets /\ rows[i].ts \in Nat
<1>1. rows[i] \in Row
  BY DEF Rows
<1> QED
  BY <1>1 DEF Row

StoreOK ==
  /\ deals \in Seq(Deals)
  /\ snapshots \in Rows
  /\ announced \subseteq Stamps
  /\ clock \in Nat
  /\ Stamps \subseteq 0..clock
  /\ used \in [commands : Nat, crashes : Nat]
  /\ \A i \in DOMAIN snapshots : /\ Funds(snapshots[i].budget)
                                 /\ snapshots[i].budget.spend_count
                                      <= Cardinality(ChargedIn(deals))
  /\ \A d \in patches : /\ d \in DOMAIN deals
                        /\ deals[d].kind = "patch"
                        /\ deals[d].phase = "completed"
                        /\ deals[d].report = "clean"

LocalTypes ==
  /\ pc \in [Procs -> PCs]
  /\ kind \in [Procs -> {"init", "delegate", "patch", "tick"}]
  /\ wallet \in [Procs -> Wallets]
  /\ deal \in [Procs -> Nat]
  /\ ts \in [Procs -> Nat]

Owns(p) ==
  AtWork(p) => /\ deal[p] \in DOMAIN deals
               /\ deals[deal[p]].kind = kind[p]
               /\ deals[deal[p]].phase = PhaseAt[pc[p]]
               /\ pc[p] = "validate" => /\ kind[p] = "patch"
                                        /\ deals[deal[p]].report = "clean"

ProcOK(p) ==
  /\ ts[p] <= clock
  /\ pc[p] # "idle" => kind[p] \in Kinds
  /\ Owns(p)
  /\ pc[p] = "announce" => ts[p] \in Stamps
  /\ Funds(wallet[p])
  /\ kind[p] = "patch" \/ pc[p] \notin {"request", "run", "validate"} =>
       wallet[p].spend_count <= Cardinality(ChargedIn(deals))

Apart == \A p, q \in Procs : AtWork(p) /\ AtWork(q) /\ p # q => deal[p] # deal[q]

Regrouped == StoreOK /\ LocalTypes /\ (\A p \in Procs : ProcOK(p)) /\ Apart

(* The invariant, regrouped. *)
LEMMA Regroup == Invariant <=> Regrouped
<1>1. Charged("patch") = ChargedIn(deals)
  BY DEF Charged, ChargedIn
<1>2. TypeOK <=> /\ deals \in Seq(Deals)
                 /\ snapshots \in Rows
                 /\ announced \subseteq Stamps
                 /\ patches \subseteq DOMAIN deals
                 /\ clock \in Nat
                 /\ LocalTypes
                 /\ \A p \in Procs : ts[p] <= clock
                 /\ used \in [commands : Nat, crashes : Nat]
  <2>1. clock \in Nat => (ts \in [Procs -> 0..clock] <=> /\ ts \in [Procs -> Nat]
                                                       /\ \A p \in Procs : ts[p] <= clock)
    OBVIOUS
  <2> QED
    BY <2>1 DEF TypeOK, Rows, Row, Stamps, LocalTypes
<1>3. DealsOwned <=> (\A p \in Procs : Owns(p)) /\ Apart
  BY DEF DealsOwned, Owns, Apart
<1> QED
  BY <1>1, <1>2, <1>3
  DEF Invariant, Regrouped, StoreOK, ProcOK, RunningKnown, StampsTaken, FundsSound,
      WalletsBacked, SavedIsBacked, PatchesVetted

-----------------------------------------------------------------------------
(* What steps have in common.                                              *)

(* The other processes stay where they are. *)
Frame(p) ==
  \A q \in Procs : q # p => /\ pc'[q] = pc[q] /\ kind'[q] = kind[q]
                            /\ wallet'[q] = wallet[q] /\ deal'[q] = deal[q]
                            /\ ts'[q] = ts[q]

(* Nothing the others rely on is taken away. *)
Grows(p) ==
  /\ clock <= clock'
  /\ Stamps \subseteq Stamps'
  /\ Cardinality(ChargedIn(deals)) <= Cardinality(ChargedIn(deals'))
  /\ \A q \in Procs : q # p /\ AtWork(q) =>
       deal[q] \in DOMAIN deals' /\ deals'[deal[q]] = deals[deal[q]]

(* A step of one process preserves the invariant if it does so for the     *)
(* store and for that process.                                             *)
LEMMA OneMoves ==
  ASSUME Regrouped, NEW p \in Procs, Frame(p), Grows(p), StoreOK', LocalTypes', ProcOK(p)',
         AtWork(p)' => \A q \in Procs : q # p /\ AtWork(q) => deal'[p] # deal[q]
  PROVE  Regrouped'
<1>1. ASSUME NEW q \in Procs, q # p
      PROVE  ProcOK(q)'
  <2> USE <1>1 DEF Frame, Grows
  <2>1. ProcOK(q)
    BY DEF Regrouped
  <2>2. Owns(q)'
    BY <2>1 DEF ProcOK, Owns, AtWork
  <2>3. ts'[q] <= clock'
    BY <2>1 DEF ProcOK, Regrouped, StoreOK, LocalTypes
  <2>4. wallet[q].spend_count \in Nat
    BY DEF Regrouped, LocalTypes, Wallets
  <2>5. Cardinality(ChargedIn(deals)) \in Nat /\ Cardinality(ChargedIn(deals')) \in Nat
    BY ChargesCount DEF Regrouped, StoreOK
  <2>6. kind'[q] = "patch" \/ pc'[q] \notin {"request", "run", "validate"} =>
          wallet'[q].spend_count <= Cardinality(ChargedIn(deals'))
    BY <2>1, <2>4, <2>5 DEF ProcOK
  <2> QED
    BY <2>1, <2>2, <2>3, <2>6 DEF ProcOK, Funds
<1>2. Apart'
  BY DEF Regrouped, Apart, Frame, AtWork
<1> QED
  BY <1>1, <1>2 DEF Regrouped

(* A step that leaves the store alone. *)
LEMMA StoreStays ==
  ASSUME Regrouped, NEW p \in Procs, UNCHANGED store,
         used' \in [commands : Nat, crashes : Nat]
  PROVE  StoreOK' /\ Grows(p)
<1>1. Cardinality(ChargedIn(deals)) \in Nat
  BY ChargesCount DEF Regrouped, StoreOK
<1>2. Stamps' = Stamps
  BY DEF store, Stamps
<1> QED
  BY <1>1, <1>2 DEF Regrouped, StoreOK, Grows, store, ProcOK, Owns

(* A step that adds to the ledger of delegations only. *)
LEMMA LedgerMoves ==
  ASSUME Regrouped, NEW p \in Procs,
         deals' \in Seq(Deals), DOMAIN deals \subseteq DOMAIN deals',
         ChargedIn(deals) \subseteq ChargedIn(deals'),
         \A d \in patches : deals'[d] = deals[d],
         \A q \in Procs : q # p /\ AtWork(q) => deals'[deal[q]] = deals[deal[q]],
         UNCHANGED <<snapshots, announced, patches, clock, used>>
  PROVE  StoreOK' /\ Grows(p)
<1>1. /\ Cardinality(ChargedIn(deals)) \in Nat
      /\ Cardinality(ChargedIn(deals')) \in Nat
      /\ Cardinality(ChargedIn(deals)) <= Cardinality(ChargedIn(deals'))
  BY ChargesCount, ChargesKept DEF Regrouped, StoreOK
<1>2. Stamps' = Stamps
  BY DEF Stamps
<1>3. \A i \in DOMAIN snapshots : snapshots[i].budget.spend_count \in Nat
  <2>1. \A i \in DOMAIN snapshots : snapshots[i].budget \in Wallets
    BY RowTypes DEF Regrouped, StoreOK
  <2> QED
    BY <2>1 DEF Wallets
<1>4. \A i \in DOMAIN snapshots :
        snapshots[i].budget.spend_count <= Cardinality(ChargedIn(deals'))
  BY <1>1, <1>3 DEF Regrouped, StoreOK
<1>5. \A d \in patches : /\ d \in DOMAIN deals'
                         /\ deals'[d].kind = "patch"
                         /\ deals'[d].phase = "completed"
                         /\ deals'[d].report = "clean"
  BY DEF Regrouped, StoreOK
<1>6. StoreOK'
  BY <1>2, <1>4, <1>5 DEF Regrouped, StoreOK, Funds
<1>7. Grows(p)
  BY <1>1, <1>2 DEF Regrouped, StoreOK, Grows, ProcOK, Owns
<1> QED
  BY <1>6, <1>7

(* The next event of a delegation in progress. *)
LEMMA Records ==
  ASSUME Regrouped, NEW p \in Procs, pc[p] \in {"budget", "request", "run"},
         NEW r \in Deals, r.kind = kind[p],
         pc[p] = "budget" \/ r.phase \in {"spent", "requested", "completed", "failed"},
         deals' = [deals EXCEPT ![deal[p]] = r],
         UNCHANGED <<snapshots, announced, patches, clock, used>>
  PROVE  /\ StoreOK'
         /\ Grows(p)
         /\ deal[p] \in DOMAIN deals'
         /\ deals'[deal[p]] = r
<1>1. /\ deal[p] \in DOMAIN deals
      /\ deals[deal[p]].kind = kind[p]
      /\ deals[deal[p]].phase \in {"passed", "spent", "requested"}
      /\ pc[p] = "budget" => deals[deal[p]].phase = "passed"
  BY DEF Regrouped, ProcOK, Owns, AtWork, PhaseAt
<1>2. /\ deals' \in Seq(Deals)
      /\ DOMAIN deals' = DOMAIN deals
      /\ deals'[deal[p]] = r
      /\ \A e \in DOMAIN deals : e # deal[p] => deals'[e] = deals[e]
  BY <1>1, ReplaceDeal DEF Regrouped, StoreOK
<1>3. ChargedIn(deals) \subseteq ChargedIn(deals')
  BY <1>1, <1>2 DEF ChargedIn
<1>4. \A d \in patches : deals'[d] = deals[d]
  BY <1>1, <1>2 DEF Regrouped, StoreOK
<1>5. ASSUME NEW q \in Procs, q # p, AtWork(q)
      PROVE  deals'[deal[q]] = deals[deal[q]]
  <2>1. deal[q] \in DOMAIN deals /\ deal[q] # deal[p]
    BY <1>5 DEF Regrouped, Apart, ProcOK, Owns, AtWork
  <2> QED
    BY <2>1, <1>2
<1> QED
  BY <1>1, <1>2, <1>3, <1>4, <1>5, LedgerMoves

(* A new delegation. *)
LEMMA Opens ==
  ASSUME Regrouped, NEW p \in Procs, pc[p] # "idle", NEW phase \in {"passed", "denied"},
         Opened(p, phase),
         UNCHANGED <<snapshots, announced, patches, clock, used>>
  PROVE  /\ StoreOK'
         /\ Grows(p)
         /\ Len(deals) + 1 \in DOMAIN deals' \cap Nat
         /\ deals'[Len(deals) + 1].kind = kind[p]
         /\ deals'[Len(deals) + 1].phase = phase
         /\ \A q \in Procs : AtWork(q) => deal[q] # Len(deals) + 1
<1> DEFINE r == [kind |-> kind[p], phase |-> phase, report |-> NoReport]
<1>1. r \in Deals
  BY DEF Deals, Phases, Regrouped, ProcOK
<1>2. deals' = Append(deals, r)
  BY DEF Opened
<1> HIDE DEF r
<1>3. /\ deals' \in Seq(Deals)
      /\ DOMAIN deals' = DOMAIN deals \cup {Len(deals) + 1}
      /\ Len(deals) + 1 \in Nat \ DOMAIN deals
      /\ deals'[Len(deals) + 1] = r
      /\ \A d \in DOMAIN deals : deals'[d] = deals[d]
  BY <1>1, <1>2, AppendDeal DEF Regrouped, StoreOK
<1>4. \A q \in Procs : AtWork(q) => deal[q] \in DOMAIN deals
  BY DEF Regrouped, ProcOK, Owns
<1>5. ChargedIn(deals) \subseteq ChargedIn(deals')
  BY <1>3 DEF ChargedIn
<1>6. \A d \in patches : deals'[d] = deals[d]
  BY <1>3 DEF Regrouped, StoreOK
<1>7. StoreOK' /\ Grows(p)
  BY <1>3, <1>4, <1>5, <1>6, LedgerMoves
<1> QED
  BY <1>3, <1>4, <1>7 DEF r

(* A process that ends leaves nothing to keep. *)
LEMMA Exits ==
  ASSUME Regrouped, NEW p \in Procs, Exit(p), StoreOK', Grows(p)
  PROVE  Regrouped'
<1>1. LocalTypes' /\ Frame(p)
  BY FreshFunds DEF Exit, Frame, Regrouped, LocalTypes, PCs, NoDeal
<1>2. pc'[p] = "idle" /\ ts'[p] = 0 /\ wallet'[p] = FreshWallet
  BY DEF Exit, Regrouped, LocalTypes
<1>3. Cardinality(ChargedIn(deals')) \in Nat
  BY ChargesCount DEF StoreOK
<1>4. FreshWallet.spend_count = 0
  BY DEF FreshWallet
<1>5. Funds(wallet[p])'
  BY <1>2, FreshFunds DEF Funds
<1>6. ProcOK(p)'
  BY <1>2, <1>3, <1>4, <1>5 DEF ProcOK, Owns, AtWork, StoreOK
<1> QED
  BY <1>1, <1>2, <1>6, OneMoves DEF AtWork

(* A process that goes on with another wallet and delegation. *)
LEMMA Moves ==
  ASSUME Regrouped, NEW p \in Procs, NEW where \in PCs, Goto(p, where),
         NEW w \in Wallets, wallet' = [wallet EXCEPT ![p] = w],
         NEW d \in Nat, deal' = [deal EXCEPT ![p] = d]
  PROVE  /\ LocalTypes'
         /\ Frame(p)
         /\ pc'[p] = where /\ kind'[p] = kind[p] /\ ts'[p] = ts[p]
         /\ wallet'[p] = w /\ deal'[p] = d
  BY DEF Regrouped, LocalTypes, Goto, Frame

(* ... and one that keeps them. *)
LEMMA Goes ==
  ASSUME Regrouped, NEW p \in Procs, NEW where \in PCs, Goto(p, where),
         UNCHANGED <<wallet, deal>>
  PROVE  /\ LocalTypes'
         /\ Frame(p)
         /\ pc'[p] = where /\ kind'[p] = kind[p] /\ ts'[p] = ts[p]
         /\ wallet'[p] = wallet[p] /\ deal'[p] = deal[p]
  BY DEF Regrouped, LocalTypes, Goto, Frame

(* It may, when the store is in order, the delegation its own and the      *)
(* wallet backed.                                                          *)
LEMMA Arrives ==
  ASSUME Regrouped, NEW p \in Procs, StoreOK', Grows(p), LocalTypes', Frame(p),
         pc[p] # "idle", kind'[p] = kind[p], ts'[p] <= clock',
         pc'[p] = "announce" => ts'[p] \in Stamps',
         Owns(p)',
         AtWork(p)' => \A q \in Procs : q # p /\ AtWork(q) => deal'[p] # deal[q],
         Funds(wallet'[p]),
         kind[p] = "patch" \/ pc'[p] \notin {"request", "run", "validate"} =>
           wallet'[p].spend_count <= Cardinality(ChargedIn(deals'))
  PROVE  Regrouped'
<1>1. Funds(wallet[p])'
  BY DEF Funds
<1>2. kind[p] \in Kinds
  BY DEF Regrouped, ProcOK
<1>3. ProcOK(p)'
  BY <1>1, <1>2 DEF ProcOK
<1> QED
  BY <1>3, OneMoves

(* A process that carries the wallet it has, and works on no delegation or *)
(* still on the same one.                                                  *)
LEMMA Carries ==
  ASSUME Regrouped, NEW p \in Procs, StoreOK', Grows(p),
         pc[p] # "idle", NEW where \in PCs \ {"announce"}, Goto(p, where),
         UNCHANGED <<wallet, deal>>, Owns(p)',
         where \in {"budget", "request", "run", "validate"} => AtWork(p),
         where \notin {"request", "run", "validate"} =>
           kind[p] = "patch" \/ pc[p] \notin {"request", "run", "validate"}
  PROVE  Regrouped'
<1>1. /\ LocalTypes'
      /\ Frame(p)
      /\ pc'[p] = where /\ kind'[p] = kind[p] /\ ts'[p] = ts[p]
      /\ wallet'[p] = wallet[p] /\ deal'[p] = deal[p]
  BY Goes
<1>2. Funds(wallet'[p])
  BY <1>1 DEF Regrouped, ProcOK
<1>3. ts'[p] <= clock'
  BY <1>1 DEF Regrouped, ProcOK, StoreOK, LocalTypes, Grows
<1>4. AtWork(p)' => \A q \in Procs : q # p /\ AtWork(q) => deal'[p] # deal[q]
  BY <1>1 DEF AtWork, Regrouped, Apart
<1>5. wallet[p].spend_count \in Nat
  BY DEF Regrouped, LocalTypes, Wallets
<1>6. Cardinality(ChargedIn(deals)) \in Nat /\ Cardinality(ChargedIn(deals')) \in Nat
  BY ChargesCount DEF Regrouped, StoreOK
<1>7. kind[p] = "patch" \/ where \notin {"request", "run", "validate"} =>
        wallet'[p].spend_count <= Cardinality(ChargedIn(deals'))
  BY <1>1, <1>5, <1>6 DEF Regrouped, ProcOK, Grows
<1> QED
  BY <1>1, <1>2, <1>3, <1>4, <1>7, Arrives

-----------------------------------------------------------------------------
(* The invariant is inductive.                                             *)
(* It holds in the initial state ... *)
LEMMA Initially == Init => Invariant
<1> SUFFICES ASSUME Init PROVE Regrouped
  BY Regroup
<1> USE DEF Init
<1>1. ChargedIn(deals) = {} /\ Stamps = {}
  BY DEF ChargedIn, Stamps
<1>2. Cardinality(ChargedIn(deals)) = 0
  BY <1>1, FS_EmptySet
<1>3. StoreOK
  BY <1>1 DEF StoreOK, Rows
<1>4. LocalTypes
  BY FreshFunds DEF LocalTypes, PCs, NoDeal
<1>5. ASSUME NEW p \in Procs
      PROVE  ProcOK(p)
  BY <1>2, FreshFunds DEF ProcOK, Owns, AtWork, FreshWallet
<1>6. Apart
  BY DEF Apart, AtWork
<1> QED
  BY <1>3, <1>4, <1>5, <1>6 DEF Regrouped

(* ... and every action keeps it: *)
LEMMA StartKeeps ==
  ASSUME Regrouped, NEW p \in Procs, NEW k \in Kinds, Start(p, k)
  PROVE  Regrouped'
<1> USE DEF Start
<1>1. used' \in [commands : Nat, crashes : Nat]
  BY DEF Regrouped, StoreOK
<1>2. StoreOK' /\ Grows(p)
  BY <1>1, StoreStays
<1>3. /\ LocalTypes' /\ Frame(p)
      /\ pc'[p] \in {"gate", "load"}
      /\ kind'[p] = k /\ ts'[p] = ts[p] /\ wallet'[p] = wallet[p]
  BY DEF Regrouped, LocalTypes, PCs, Frame
<1>4. ProcOK(p)
  BY DEF Regrouped
<1>5. ChargedIn(deals') = ChargedIn(deals) /\ clock' = clock
  BY DEF store
<1>6. ProcOK(p)'
  BY <1>3, <1>4, <1>5 DEF ProcOK, Owns, AtWork, Funds
<1> QED
  BY <1>2, <1>3, <1>6, OneMoves DEF AtWork

LEMMA LoadStateKeeps ==
  ASSUME Regrouped, NEW p \in Procs, LoadState(p)
  PROVE  Regrouped'
<1> USE DEF LoadState
<1>1. StoreOK' /\ Grows(p)
  BY StoreStays DEF Regrouped, StoreOK
<1>2. CASE snapshots = <<>>
  <2>1. Goto(p, "stamp") /\ UNCHANGED <<wallet, deal>>
    BY <1>2
  <2>2. Owns(p)'
    BY <2>1, Goes DEF Owns, AtWork, PCs
  <2> QED
    BY <1>1, <2>1, <2>2, Carries DEF PCs
<1>3. CASE snapshots # <<>> /\ kind[p] # "init"
  <2>1. PICK i \in DOMAIN snapshots : Latest = snapshots[i].budget
    BY <1>3, LatestIsSaved DEF Regrouped, StoreOK, Rows, Row
  <2>2. /\ Latest \in Wallets
        /\ Funds(Latest)
        /\ Latest.spend_count <= Cardinality(ChargedIn(deals))
    BY <2>1, RowTypes DEF Regrouped, StoreOK
  <2>3. /\ LocalTypes' /\ Frame(p)
        /\ pc'[p] = "gate" /\ kind'[p] = kind[p] /\ ts'[p] = ts[p]
        /\ wallet'[p] = Latest
    <3>1. Goto(p, "gate") /\ "gate" \in PCs /\ wallet' = [wallet EXCEPT ![p] = Latest]
      BY <1>3 DEF PCs
    <3>2. deal' = [deal EXCEPT ![p] = deal[p]] /\ deal[p] \in Nat
      BY <1>3 DEF Regrouped, LocalTypes
    <3> HIDE DEF LoadState
    <3> QED
      BY <2>2, <3>1, <3>2, Moves
  <2>4. Owns(p)'
    BY <2>3 DEF Owns, AtWork
  <2>5. /\ ts'[p] <= clock'
        /\ ChargedIn(deals') = ChargedIn(deals)
    BY <2>3 DEF store, Regrouped, ProcOK
  <2> QED
    BY <1>1, <2>2, <2>3, <2>4, <2>5, Arrives DEF AtWork
<1>4. CASE snapshots # <<>> /\ kind[p] = "init"
  BY <1>1, <1>4, Exits
<1> QED
  BY <1>2, <1>3, <1>4

LEMMA TakeTimestampKeeps ==
  ASSUME Regrouped, NEW p \in Procs, TakeTimestamp(p)
  PROVE  Regrouped'
<1> USE DEF TakeTimestamp
<1>1. StoreOK' /\ Grows(p)
  <2>1. Stamps' = Stamps /\ ChargedIn(deals') = ChargedIn(deals)
    BY DEF Stamps
  <2>2. Cardinality(ChargedIn(deals)) \in Nat
    BY ChargesCount DEF Regrouped, StoreOK
  <2>3. StoreOK'
    BY <2>1 DEF Regrouped, StoreOK, Funds
  <2>4. Grows(p)
    BY <2>1, <2>2 DEF Regrouped, StoreOK, Grows, ProcOK, Owns
  <2> QED
    BY <2>3, <2>4
<1>2. /\ LocalTypes' /\ Frame(p)
      /\ pc'[p] = "insert" /\ kind'[p] = kind[p] /\ ts'[p] = clock'
      /\ wallet'[p] = wallet[p]
  BY DEF Regrouped, StoreOK, LocalTypes, Frame, PCs
<1>3. Owns(p)'
  BY <1>2 DEF Owns, AtWork
<1>4. /\ Funds(wallet'[p])
      /\ wallet'[p].spend_count <= Cardinality(ChargedIn(deals'))
  BY <1>2 DEF Regrouped, ProcOK
<1>5. clock' <= clock'
  BY DEF Regrouped, StoreOK
<1> QED
  BY <1>1, <1>2, <1>3, <1>4, <1>5, Arrives DEF AtWork

LEMMA InsertSnapshotKeeps ==
  ASSUME Regrouped, NEW p \in Procs, InsertSnapshot(p)
  PROVE  Regrouped'
<1> USE DEF InsertSnapshot
<1> DEFINE row == [ts |-> ts[p], budget |-> wallet[p]]
<1>1. /\ row \in Row
      /\ ts[p] \in 0..clock
      /\ Funds(wallet[p])
      /\ wallet[p].spend_count <= Cardinality(ChargedIn(deals))
  <2>1. row \in Row
    BY DEF Row, Regrouped, LocalTypes
  <2>2. ts[p] \in 0..clock
    BY DEF Regrouped, LocalTypes, StoreOK, ProcOK
  <2> QED
    BY <2>1, <2>2 DEF Regrouped, ProcOK
<1>2. /\ snapshots' \in Rows
      /\ DOMAIN snapshots' = DOMAIN snapshots \cup {Len(snapshots) + 1}
      /\ snapshots'[Len(snapshots) + 1] = row
      /\ \A i \in DOMAIN snapshots : snapshots'[i] = snapshots[i]
  <2> HIDE DEF row
  <2>1. snapshots' = Append(snapshots, row) /\ snapshots \in Seq(Row)
    BY DEF row, Regrouped, StoreOK, Rows
  <2> QED
    BY <1>1, <2>1 DEF Rows
<1>3. Stamps' = Stamps \cup {ts[p]}
  BY <1>2 DEF Stamps
<1>4. \A i \in DOMAIN snapshots' :
        /\ Funds(snapshots'[i].budget)
        /\ snapshots'[i].budget.spend_count <= Cardinality(ChargedIn(deals))
  BY <1>1, <1>2 DEF Regrouped, StoreOK
<1>5. StoreOK' /\ Grows(p)
  <2>1. Cardinality(ChargedIn(deals)) \in Nat
    BY ChargesCount DEF Regrouped, StoreOK
  <2>2. StoreOK'
    BY <1>1, <1>2, <1>3, <1>4 DEF Regrouped, StoreOK, Funds
  <2>3. Grows(p)
    BY <1>3, <2>1 DEF Regrouped, StoreOK, Grows, ProcOK, Owns
  <2> QED
    BY <2>2, <2>3
<1>6. /\ LocalTypes' /\ Frame(p)
      /\ pc'[p] = "announce" /\ kind'[p] = kind[p] /\ ts'[p] = ts[p]
      /\ wallet'[p] = wallet[p]
  BY Goes DEF PCs
<1>7. Owns(p)'
  BY <1>6 DEF Owns, AtWork
<1>8. ts'[p] <= clock'
  BY <1>1, <1>6 DEF Regrouped, StoreOK
<1> QED
  BY <1>1, <1>3, <1>5, <1>6, <1>7, <1>8, Arrives DEF AtWork

LEMMA AnnounceSnapshotKeeps ==
  ASSUME Regrouped, NEW p \in Procs, AnnounceSnapshot(p)
  PROVE  Regrouped'
<1> USE DEF AnnounceSnapshot
<1>1. StoreOK' /\ Grows(p)
  <2>1. Stamps' = Stamps /\ ChargedIn(deals') = ChargedIn(deals) /\ ts[p] \in Stamps
    BY DEF Stamps, Regrouped, ProcOK
  <2>2. Cardinality(ChargedIn(deals)) \in Nat
    BY ChargesCount DEF Regrouped, StoreOK
  <2>3. StoreOK'
    BY <2>1 DEF Regrouped, StoreOK, Funds
  <2>4. Grows(p)
    BY <2>1, <2>2 DEF Regrouped, StoreOK, Grows, ProcOK, Owns
  <2> QED
    BY <2>3, <2>4
<1>2. CASE kind[p] # "init" /\ deal[p] = NoDeal
  <2>1. Goto(p, "gate") /\ UNCHANGED <<wallet, deal>>
    BY <1>2
  <2>2. Owns(p)'
    BY <2>1, Goes DEF Owns, AtWork, PCs
  <2> QED
    BY <1>1, <2>1, <2>2, Carries DEF PCs
<1>3. CASE ~(kind[p] # "init" /\ deal[p] = NoDeal)
  BY <1>1, <1>3, Exits
<1> QED
  BY <1>2, <1>3

LEMMA PassGateKeeps ==
  ASSUME Regrouped, NEW p \in Procs, NEW proposal, PassGate(p, proposal)
  PROVE  Regrouped'
<1> USE DEF PassGate
<1> DEFINE d == Len(deals) + 1
<1>1. /\ StoreOK' /\ Grows(p)
      /\ d \in DOMAIN deals' \cap Nat
      /\ deals'[d].kind = kind[p] /\ deals'[d].phase = "passed"
      /\ \A q \in Procs : AtWork(q) => deal[q] # d
  BY Opens
<1>2. /\ LocalTypes' /\ Frame(p)
      /\ pc'[p] = "budget" /\ kind'[p] = kind[p] /\ ts'[p] = ts[p]
      /\ wallet'[p] = wallet[p] /\ deal'[p] = d
  <2> HIDE DEF d
  <2>1. deal' = [deal EXCEPT ![p] = d] /\ d \in Nat
    BY <1>1 DEF d
  <2>2. wallet' = [wallet EXCEPT ![p] = wallet[p]] /\ wallet[p] \in Wallets
    BY DEF Regrouped, LocalTypes
  <2>3. Goto(p, "budget") /\ "budget" \in PCs
    BY DEF PCs
  <2> HIDE DEF PassGate
  <2> QED
    BY <2>1, <2>2, <2>3, Moves
<1>3. Owns(p)'
  <2> HIDE DEF d
  <2> QED
    BY <1>1, <1>2 DEF Owns, AtWork, PhaseAt
<1>4. /\ Funds(wallet'[p])
      /\ wallet'[p].spend_count <= Cardinality(ChargedIn(deals'))
  <2>1. wallet[p].spend_count \in Nat
    BY DEF Regrouped, LocalTypes, Wallets
  <2>2. Cardinality(ChargedIn(deals)) \in Nat /\ Cardinality(ChargedIn(deals')) \in Nat
    BY <1>1, ChargesCount DEF Regrouped, StoreOK
  <2> QED
    BY <1>1, <1>2, <2>1, <2>2 DEF Regrouped, ProcOK, Grows
<1>5. ts'[p] <= clock'
  BY <1>2 DEF Regrouped, ProcOK
<1> HIDE DEF d
<1> QED
  BY <1>1, <1>2, <1>3, <1>4, <1>5, Arrives

LEMMA DenyGateKeeps ==
  ASSUME Regrouped, NEW p \in Procs, NEW proposal, DenyGate(p, proposal)
  PROVE  Regrouped'
<1> USE DEF DenyGate
<1> DEFINE d == Len(deals) + 1
<1>1. /\ StoreOK' /\ Grows(p)
      /\ d \in DOMAIN deals' \cap Nat
  BY Opens
<1>2. CASE kind[p] = "patch"
  <2>1. /\ LocalTypes' /\ Frame(p)
        /\ pc'[p] = "stamp" /\ kind'[p] = kind[p] /\ ts'[p] = ts[p]
        /\ wallet'[p] = wallet[p]
    <3> HIDE DEF d
    <3>1. deal' = [deal EXCEPT ![p] = d] /\ d \in Nat
      BY <1>1, <1>2 DEF d
    <3>2. wallet' = [wallet EXCEPT ![p] = wallet[p]] /\ wallet[p] \in Wallets
      BY <1>2 DEF Regrouped, LocalTypes
    <3>3. Goto(p, "stamp") /\ "stamp" \in PCs
      BY <1>2 DEF PCs
    <3> HIDE DEF DenyGate
    <3> QED
      BY <3>1, <3>2, <3>3, Moves
  <2>2. Owns(p)'
    BY <2>1 DEF Owns, AtWork
  <2>3. /\ Funds(wallet'[p])
        /\ wallet'[p].spend_count <= Cardinality(ChargedIn(deals'))
    <3>1. wallet[p].spend_count \in Nat
      BY DEF Regrouped, LocalTypes, Wallets
    <3>2. Cardinality(ChargedIn(deals)) \in Nat /\ Cardinality(ChargedIn(deals')) \in Nat
      BY <1>1, ChargesCount DEF Regrouped, StoreOK
    <3> QED
      BY <1>1, <2>1, <3>1, <3>2 DEF Regrouped, ProcOK, Grows
  <2>4. ts'[p] <= clock'
    BY <2>1 DEF Regrouped, ProcOK
  <2> QED
    BY <1>1, <2>1, <2>2, <2>3, <2>4, Arrives DEF AtWork
<1>3. CASE kind[p] # "patch"
  BY <1>1, <1>3, Exits
<1> QED
  BY <1>2, <1>3

(* Record(p, phase) replaces the delegation's record by one that differs   *)
(* in its phase.                                                           *)
LEMMA RecordIs ==
  ASSUME Regrouped, NEW p \in Procs, AtWork(p), NEW phase \in Phases, Record(p, phase)
  PROVE  \E r \in Deals : /\ deals' = [deals EXCEPT ![deal[p]] = r]
                         /\ r.kind = kind[p]
                         /\ r.phase = phase
<1>1. deal[p] \in DOMAIN deals /\ deals[deal[p]].kind = kind[p]
  BY DEF Regrouped, ProcOK, Owns
<1>2. deals[deal[p]] \in Deals
  BY <1>1 DEF Regrouped, StoreOK
<1> DEFINE r == [deals[deal[p]] EXCEPT !.phase = phase]
<1>3. r \in Deals /\ r.kind = kind[p] /\ r.phase = phase
  BY <1>1, <1>2 DEF Deals
<1>4. deals' = [deals EXCEPT ![deal[p]] = r]
  BY DEF Record
<1> QED
  BY <1>3, <1>4

LEMMA ChargeKeeps ==
  ASSUME Regrouped, NEW p \in Procs, Charge(p)
  PROVE  Regrouped'
<1> USE DEF Charge
<1>1. PICK r \in Deals : /\ deals' = [deals EXCEPT ![deal[p]] = r]
                        /\ r.kind = kind[p]
                        /\ r.phase = "spent"
  BY RecordIs DEF AtWork, Phases
<1>2. /\ StoreOK' /\ Grows(p)
      /\ deal[p] \in DOMAIN deals'
      /\ deals'[deal[p]] = r
  BY <1>1, Records
<1> DEFINE w == Spend(wallet[p], Cost)
<1>3. /\ wallet[p] \in Wallets /\ Funds(wallet[p]) /\ deal[p] \in Nat
      /\ wallet[p].spend_count <= Cardinality(ChargedIn(deals))
  BY DEF Regrouped, LocalTypes, ProcOK
<1>4. w \in Wallets /\ Funds(w) /\ w.spend_count = wallet[p].spend_count + 1
  BY <1>3, SpendFunds
<1>5. /\ LocalTypes' /\ Frame(p)
      /\ pc'[p] = "request" /\ kind'[p] = kind[p] /\ ts'[p] = ts[p]
      /\ wallet'[p] = w /\ deal'[p] = deal[p]
  <2> HIDE DEF w
  <2>1. wallet' = [wallet EXCEPT ![p] = w]
    BY DEF w, Regrouped, LocalTypes
  <2>2. deal' = [deal EXCEPT ![p] = deal[p]]
    BY DEF Regrouped, LocalTypes
  <2>3. Goto(p, "request") /\ "request" \in PCs
    BY DEF PCs
  <2> HIDE DEF Charge
  <2> QED
    BY <1>3, <1>4, <2>1, <2>2, <2>3, Moves
<1> HIDE DEF w
<1>6. Owns(p)'
  BY <1>1, <1>2, <1>5 DEF Owns, AtWork, PhaseAt
<1>7. kind[p] = "patch" => w.spend_count <= Cardinality(ChargedIn(deals'))
  <2> SUFFICES ASSUME kind[p] = "patch"
               PROVE  w.spend_count <= Cardinality(ChargedIn(deals'))
    OBVIOUS
  <2>1. deal[p] \in ChargedIn(deals') /\ deal[p] \notin ChargedIn(deals)
    <3>1. deals[deal[p]].phase = "passed"
      BY DEF Regrouped, ProcOK, Owns, AtWork, PhaseAt
    <3> QED
      BY <1>1, <1>2, <3>1 DEF ChargedIn
  <2>2. ChargedIn(deals) \subseteq ChargedIn(deals')
    BY <1>1, <2>1 DEF ChargedIn, Regrouped, StoreOK
  <2>3. Cardinality(ChargedIn(deals)) + 1 <= Cardinality(ChargedIn(deals'))
    BY <1>2, <2>1, <2>2, ChargesGrow DEF Regrouped, StoreOK
  <2>4. Cardinality(ChargedIn(deals)) \in Nat /\ Cardinality(ChargedIn(deals')) \in Nat
    BY <1>2, ChargesCount DEF Regrouped, StoreOK
  <2>5. wallet[p].spend_count \in Nat
    BY <1>3 DEF Wallets
  <2> QED
    BY <1>3, <1>4, <2>3, <2>4, <2>5
<1>8. AtWork(p)' => \A q \in Procs : q # p /\ AtWork(q) => deal'[p] # deal[q]
  BY <1>5 DEF AtWork, Regrouped, Apart
<1>9. ts'[p] <= clock'
  BY <1>5 DEF Regrouped, ProcOK
<1> QED
  BY <1>2, <1>4, <1>5, <1>6, <1>7, <1>8, <1>9, Arrives

LEMMA HaltKeeps ==
  ASSUME Regrouped, NEW p \in Procs, Halt(p)
  PROVE  Regrouped'
<1> USE DEF Halt, Finish
<1>1. PICK r \in Deals : /\ deals' = [deals EXCEPT ![deal[p]] = r]
                        /\ r.kind = kind[p]
                        /\ r.phase = "halted"
  BY RecordIs DEF AtWork, Phases
<1>2. StoreOK' /\ Grows(p)
  BY <1>1, Records
<1>3. CASE kind[p] = "patch"
  <2>1. Goto(p, "stamp") /\ UNCHANGED <<wallet, deal>>
    BY <1>3
  <2>2. Owns(p)'
    BY <2>1, Goes DEF Owns, AtWork, PCs
  <2> QED
    BY <1>2, <2>1, <2>2, Carries DEF PCs
<1>4. CASE kind[p] # "patch"
  BY <1>2, <1>4, Exits
<1> QED
  BY <1>3, <1>4

LEMMA RequestKeeps ==
  ASSUME Regrouped, NEW p \in Procs, Request(p)
  PROVE  Regrouped'
<1> USE DEF Request
<1>1. PICK r \in Deals : /\ deals' = [deals EXCEPT ![deal[p]] = r]
                        /\ r.kind = kind[p]
                        /\ r.phase = "requested"
  BY RecordIs DEF AtWork, Phases
<1>2. /\ StoreOK' /\ Grows(p)
      /\ deal[p] \in DOMAIN deals'
      /\ deals'[deal[p]] = r
  BY <1>1, Records
<1>3. pc'[p] = "run" /\ kind'[p] = kind[p] /\ deal'[p] = deal[p]
  BY Goes DEF PCs
<1>4. Owns(p)'
  BY <1>1, <1>2, <1>3 DEF Owns, AtWork, PhaseAt
<1> QED
  BY <1>2, <1>4, Carries DEF PCs, AtWork

LEMMA ReportKeeps ==
  ASSUME Regrouped, NEW p \in Procs, NEW report \in Reports, Report(p, report)
  PROVE  Regrouped'
<1> USE DEF Report, Finish
<1> DEFINE phase == IF Passes(report) THEN "completed" ELSE "failed"
           r == [deals[deal[p]] EXCEPT !.phase = phase, !.report = report]
<1>1. deal[p] \in DOMAIN deals /\ deals[deal[p]].kind = kind[p]
  BY DEF Regrouped, ProcOK, Owns, AtWork
<1>2. deals[deal[p]] \in Deals
  BY <1>1 DEF Regrouped, StoreOK
<1>3. r \in Deals /\ r.kind = kind[p] /\ r.phase = phase /\ r.report = report
  BY <1>1, <1>2 DEF Deals, Phases
<1>4. deals' = [deals EXCEPT ![deal[p]] = r]
  BY <1>1 DEF Reported, Regrouped, StoreOK
<1>5. phase \in {"completed", "failed"}
  OBVIOUS
<1>6. /\ StoreOK' /\ Grows(p)
      /\ deal[p] \in DOMAIN deals'
      /\ deals'[deal[p]] = r
  <2> HIDE DEF r, phase
  <2> QED
    BY <1>3, <1>4, <1>5, Records
<1>7. CASE kind[p] = "patch" /\ Passes(report)
  <2>1. Goto(p, "validate") /\ UNCHANGED <<wallet, deal>>
    BY <1>7
  <2>2. pc'[p] = "validate" /\ kind'[p] = kind[p] /\ deal'[p] = deal[p]
    BY <2>1, Goes DEF PCs
  <2>3. phase = "completed" /\ report = "clean"
    BY <1>7 DEF Passes
  <2>4. Owns(p)'
    <3> HIDE DEF r, phase
    <3> QED
      BY <1>3, <1>6, <1>7, <2>2, <2>3 DEF Owns, AtWork, PhaseAt
  <2> QED
    BY <1>6, <1>7, <2>1, <2>4, Carries DEF PCs, AtWork
<1>8. CASE kind[p] = "patch" /\ ~Passes(report)
  <2>1. Goto(p, "stamp") /\ UNCHANGED <<wallet, deal>>
    BY <1>8
  <2>2. Owns(p)'
    BY <2>1, Goes DEF Owns, AtWork, PCs
  <2> QED
    BY <1>6, <1>8, <2>1, <2>2, Carries DEF PCs
<1>9. CASE kind[p] # "patch"
  BY <1>6, <1>9, Exits
<1> QED
  BY <1>7, <1>8, <1>9

LEMMA DraftPatchKeeps ==
  ASSUME Regrouped, NEW p \in Procs, NEW valid \in BOOLEAN, DraftPatch(p, valid)
  PROVE  Regrouped'
<1> USE DEF DraftPatch
<1>1. /\ deal[p] \in DOMAIN deals
      /\ kind[p] = "patch"
      /\ deals[deal[p]].kind = "patch"
      /\ deals[deal[p]].phase = "completed"
      /\ deals[deal[p]].report = "clean"
  BY DEF Regrouped, ProcOK, Owns, AtWork, PhaseAt
<1>2. StoreOK' /\ Grows(p)
  <2>1. Stamps' = Stamps /\ ChargedIn(deals') = ChargedIn(deals)
    BY DEF Stamps
  <2>2. Cardinality(ChargedIn(deals)) \in Nat
    BY ChargesCount DEF Regrouped, StoreOK
  <2>3. StoreOK'
    BY <1>1, <2>1 DEF Regrouped, StoreOK, Funds
  <2>4. Grows(p)
    BY <2>1, <2>2 DEF Regrouped, StoreOK, Grows, ProcOK, Owns
  <2> QED
    BY <2>3, <2>4
<1>3. Owns(p)'
  BY Goes DEF Owns, AtWork, PCs
<1> QED
  BY <1>1, <1>2, <1>3, Carries DEF PCs

LEMMA CrashKeeps ==
  ASSUME Regrouped, NEW p \in Procs, Crash(p)
  PROVE  Regrouped'
<1>1. used' \in [commands : Nat, crashes : Nat]
  BY DEF Crash, Regrouped, StoreOK
<1>2. StoreOK' /\ Grows(p)
  BY <1>1, StoreStays DEF Crash
<1> QED
  BY <1>2, Exits DEF Crash

LEMMA Stutters ==
  ASSUME Regrouped, UNCHANGED vars
  PROVE  Regrouped'
<1> USE DEF vars, store, local
<1>1. Stamps' = Stamps /\ ChargedIn(deals') = ChargedIn(deals)
  BY DEF Stamps
<1>2. StoreOK'
  BY <1>1 DEF Regrouped, StoreOK, Funds
<1>3. LocalTypes' /\ Apart'
  BY DEF Regrouped, LocalTypes, Apart, AtWork
<1>4. ASSUME NEW p \in Procs
      PROVE  ProcOK(p)'
  BY <1>1 DEF Regrouped, ProcOK, Owns, AtWork, Funds
<1> QED
  BY <1>2, <1>3, <1>4 DEF Regrouped

LEMMA Inductive == Invariant /\ [Next]_vars => Invariant'
<1> SUFFICES ASSUME Regrouped, [Next]_vars
             PROVE  Regrouped'
  <2>1. Invariant' <=> Regrouped'
    BY Regroup, PTL
  <2> QED
    BY <2>1, Regroup
<1>1. ASSUME NEW p \in Procs, NEW k \in Kinds, Start(p, k)
      PROVE  Regrouped'
  BY <1>1, StartKeeps
<1>2. ASSUME NEW p \in Procs, Work(p)
      PROVE  Regrouped'
  BY <1>2, LoadStateKeeps, TakeTimestampKeeps, InsertSnapshotKeeps, AnnounceSnapshotKeeps,
     PassGateKeeps, DenyGateKeeps, ChargeKeeps, HaltKeeps, RequestKeeps, ReportKeeps,
     DraftPatchKeeps DEF Work
<1>3. ASSUME NEW p \in Procs, Crash(p)
      PROVE  Regrouped'
  BY <1>3, CrashKeeps
<1>4. ASSUME UNCHANGED vars
      PROVE  Regrouped'
  BY <1>4, Stutters
<1> QED
  BY <1>1, <1>2, <1>3, <1>4 DEF Next

-----------------------------------------------------------------------------
(* The inductive invariant of delegations, snapshots and wallets holds     *)
(* however commands interleave and die.                                    *)
THEOREM Safety == Spec => []Invariant
  BY Initially, Inductive, PTL DEF Spec

(* Type correctness. *)
THEOREM TypesHold == Spec => []TypeOK
<1>1. Invariant => TypeOK
  BY DEF Invariant
<1> QED
  BY <1>1, Safety, PTL

(* No wallet, saved or in memory, is overdrawn or has unbalanced books     *)
(* (can_afford, spend).                                                    *)
THEOREM FundsHold == Spec => []FundsSound
<1>1. Invariant => FundsSound
  BY DEF Invariant
<1> QED
  BY <1>1, Safety, PTL

(* A saved wallet shows no spending the ledger does not (BUDGET_SPENT).    *)
THEOREM BackingHolds == Spec => []SavedIsBacked
<1>1. Invariant => SavedIsBacked
  BY DEF Invariant
<1> QED
  BY <1>1, Safety, PTL

(* Patches come only from delegations that completed with a clean report   *)
(* (propose_patch_via_delegation).                                         *)
THEOREM VettingHolds == Spec => []PatchesVetted
<1>1. Invariant => PatchesVetted
  BY DEF Invariant
<1> QED
  BY <1>1, Safety, PTL

-----------------------------------------------------------------------------
(* One step of the story of every delegation. *)
StoryGoesOn ==
  /\ \A d \in DOMAIN deals :
       /\ d \in DOMAIN deals'
       /\ \/ deals'[d] = deals[d]
          \/ deals'[d].phase \in NextPhases[deals[d].phase]
  /\ \A d \in DOMAIN deals' \ DOMAIN deals : deals'[d].phase \in {"denied", "passed"}

(* The next event of a delegation in progress goes on with its story.      *)
LEMMA RecordGoesOn ==
  ASSUME Regrouped, NEW p \in Procs, AtWork(p),
         NEW r \in Deals, deals' = [deals EXCEPT ![deal[p]] = r],
         r.phase \in NextPhases[PhaseAt[pc[p]]]
  PROVE  StoryGoesOn
<1>1. deal[p] \in DOMAIN deals /\ deals[deal[p]].phase = PhaseAt[pc[p]]
  BY DEF Regrouped, ProcOK, Owns
<1>2. /\ DOMAIN deals' = DOMAIN deals
      /\ deals'[deal[p]] = r
      /\ \A e \in DOMAIN deals : e # deal[p] => deals'[e] = deals[e]
  BY <1>1, ReplaceDeal DEF Regrouped, StoreOK
<1> QED
  BY <1>1, <1>2 DEF StoryGoesOn

(* A new delegation is denied or passed.                                   *)
LEMMA OpenGoesOn ==
  ASSUME Regrouped, NEW p \in Procs, pc[p] # "idle", NEW phase \in {"passed", "denied"},
         Opened(p, phase)
  PROVE  StoryGoesOn
<1> DEFINE r == [kind |-> kind[p], phase |-> phase, report |-> NoReport]
<1>1. r \in Deals /\ r.phase = phase
  BY DEF Deals, Phases, Regrouped, ProcOK
<1>2. deals' = Append(deals, r)
  BY DEF Opened
<1> HIDE DEF r
<1>3. /\ DOMAIN deals' = DOMAIN deals \cup {Len(deals) + 1}
      /\ deals'[Len(deals) + 1] = r
      /\ \A d \in DOMAIN deals : deals'[d] = deals[d]
  BY <1>1, <1>2, AppendDeal DEF Regrouped, StoreOK
<1> QED
  BY <1>1, <1>3 DEF StoryGoesOn

LEMMA ReportGoesOn ==
  ASSUME Regrouped, NEW p \in Procs, NEW report \in Reports, Report(p, report)
  PROVE  StoryGoesOn
<1> DEFINE phase == IF Passes(report) THEN "completed" ELSE "failed"
           r == [deals[deal[p]] EXCEPT !.phase = phase, !.report = report]
<1>1. pc[p] = "run" /\ AtWork(p)
  BY DEF Report, AtWork
<1>2. deal[p] \in DOMAIN deals /\ deals[deal[p]] \in Deals
  BY <1>1 DEF Regrouped, StoreOK, ProcOK, Owns
<1>3. r \in Deals /\ r.phase = phase
  BY <1>2 DEF Deals, Phases
<1>4. deals' = [deals EXCEPT ![deal[p]] = r]
  BY <1>2 DEF Report, Reported, Regrouped, StoreOK
<1>5. phase \in NextPhases[PhaseAt["run"]]
  BY DEF NextPhases, PhaseAt
<1> HIDE DEF r, phase
<1> QED
  BY <1>1, <1>3, <1>4, <1>5, RecordGoesOn

(* The events of a delegation tell one story, in the order of              *)
(* execute_delegation, whatever other commands do meanwhile.               *)
THEOREM StoriesHold == Spec => OneStoryPerDelegation
<1>1. Invariant /\ [Next]_vars => [StoryGoesOn]_vars
  <2> SUFFICES ASSUME Regrouped, Next
               PROVE  deals' = deals \/ StoryGoesOn
    <3>1. deals' = deals => StoryGoesOn
      BY DEF StoryGoesOn
    <3> QED
      BY <3>1, Regroup
  <2>1. PICK p \in Procs : (\E k \in Kinds : Start(p, k)) \/ Work(p) \/ Crash(p)
    BY DEF Next
  <2>2. ASSUME NEW proposal, PassGate(p, proposal) \/ DenyGate(p, proposal)
        PROVE  StoryGoesOn
    BY <2>2, OpenGoesOn DEF PassGate, DenyGate
  <2>3. CASE Charge(p)
    <3>1. AtWork(p) /\ pc[p] = "budget" /\ Record(p, "spent") /\ "spent" \in Phases
      BY <2>3 DEF Charge, AtWork, Phases
    <3>2. "spent" \in NextPhases[PhaseAt["budget"]]
      BY DEF NextPhases, PhaseAt
    <3> QED
      BY <3>1, <3>2, RecordIs, RecordGoesOn
  <2>4. CASE Halt(p)
    <3>1. AtWork(p) /\ pc[p] = "budget" /\ Record(p, "halted") /\ "halted" \in Phases
      BY <2>4 DEF Halt, AtWork, Phases
    <3>2. "halted" \in NextPhases[PhaseAt["budget"]]
      BY DEF NextPhases, PhaseAt
    <3> QED
      BY <3>1, <3>2, RecordIs, RecordGoesOn
  <2>5. CASE Request(p)
    <3>1. AtWork(p) /\ pc[p] = "request" /\ Record(p, "requested") /\ "requested" \in Phases
      BY <2>5 DEF Request, AtWork, Phases
    <3>2. "requested" \in NextPhases[PhaseAt["request"]]
      BY DEF NextPhases, PhaseAt
    <3> QED
      BY <3>1, <3>2, RecordIs, RecordGoesOn
  <2>6. ASSUME NEW report \in Reports, Report(p, report)
        PROVE  StoryGoesOn
    BY <2>6, ReportGoesOn
  <2>7. CASE \/ \E k \in Kinds : Start(p, k)
             \/ LoadState(p) \/ TakeTimestamp(p) \/ InsertSnapshot(p)
             \/ AnnounceSnapshot(p) \/ Crash(p)
             \/ \E valid \in BOOLEAN : DraftPatch(p, valid)
    BY <2>7 DEF Start, LoadState, TakeTimestamp, InsertSnapshot, AnnounceSnapshot, Crash,
                DraftPatch, store
  <2> QED
    BY <2>1, <2>2, <2>3, <2>4, <2>5, <2>6, <2>7 DEF Work
<1>2. Spec => [][StoryGoesOn]_vars
  BY <1>1, Safety, PTL DEF Spec
<1> QED
  BY <1>2 DEF OneStoryPerDelegation, StoryGoesOn

-----------------------------------------------------------------------------
(* The policy gate, for every proposal and value policy.                   *)

(* A value policy can only narrow what the gate allows: what passes under  *)
(* one passes without.                                                     *)
THEOREM PolicyOnlyNarrows ==
  ASSUME NEW proposal, NEW policies, RunPolicyGate(proposal, policies)
  PROVE  RunPolicyGate(proposal, {})
<1>1. Forbidden({}) \subseteq Forbidden(policies) BY DEF Forbidden
<1> QED BY <1>1 DEF RunPolicyGate

(* No value policy lifts the floor: credentials, modifying itself and      *)
(* reproducing are denied in every environment, and so is writing outside. *)
THEOREM FloorHolds ==
  ASSUME NEW proposal, NEW policies,
         proposal.action_class \in HardcodedForbidden \cup {"external_write"}
  PROVE  ~RunPolicyGate(proposal, policies)
BY DEF RunPolicyGate, Forbidden

(* The default value policy forbids every delegation that execute_         *)
(* delegation lets through: it runs only because the gate is asked without *)
(* the state that holds the policy.                                        *)
THEOREM DefaultPolicyForbidsDelegations ==
  ASSUME NEW task
  PROVE  ~RunPolicyGate(BuildDelegationProposal(task), {DefaultValuePolicy})
<1>1. BuildDelegationProposal(task).action_class = "network_read" BY DEF BuildDelegationProposal
<1>2. "network_read" \in Forbidden({DefaultValuePolicy}) BY DEF Forbidden, DefaultValuePolicy
<1> QED BY <1>1, <1>2 DEF RunPolicyGate
=============================================================================
