------------------------- MODULE ExecutionSlotsProofs -------------------------
(***************************************************************************)
(* For any planners, demands, workspaces and limits: however claims, lost  *)
(* leases and runs interleave, the slots stay within the global limit and  *)
(* within the limit of every workspace; a call that could give something   *)
(* out does; and the rotation comes round to every workspace.              *)
(***************************************************************************)
EXTENDS ExecutionSlots, FiniteSetTheorems, FunctionTheorems, WellFoundedInduction, TLAPS

Waiting == {d \in Demands : demand[d].state # "away"}

\* updated_at orders the waiting demands strictly and completely.
OrderInv == /\ \A d, e \in Demands : <<d, e>> \in older => d \in Waiting /\ e \in Waiting
            /\ \A d \in Demands : <<d, d>> \notin older
            /\ \A d, e \in Waiting : d = e \/ <<d, e>> \in older \/ <<e, d>> \in older
            /\ \A d, e, f \in Demands : <<d, e>> \in older /\ <<e, f>> \in older => <<d, f>> \in older

\* A run goes on exactly while its slot is executing.
RunsAreExecuting == running = {d \in Demands : slot[d].state = "executing"}

IInv == /\ TypeOK
        /\ OrderInv
        /\ RunsAreExecuting
        /\ WithinLimits

USE SlotAssumption

-----------------------------------------------------------------------------
(* Counting the predecessors of an element of a finite ordered set.        *)

Preds(S, R, d) == {x \in S : <<x, d>> \in R}
StrictOrder(S, R) ==
    /\ \A d \in S : <<d, d>> \notin R
    /\ \A d, e, f \in S : <<d, e>> \in R /\ <<e, f>> \in R => <<d, f>> \in R

\* An element has fewer predecessors than one that comes after it.
LEMMA FewerBefore ==
  ASSUME NEW S, IsFiniteSet(S), NEW R, StrictOrder(S, R),
         NEW d \in S, NEW e \in S, <<d, e>> \in R
  PROVE  Cardinality(Preds(S, R, d)) < Cardinality(Preds(S, R, e))
  <1>1. /\ Preds(S, R, d) \subseteq Preds(S, R, e)
        /\ Preds(S, R, e) \subseteq S
        /\ d \in Preds(S, R, e) /\ d \notin Preds(S, R, d)
    BY DEF Preds, StrictOrder
  <1>2. IsFiniteSet(Preds(S, R, e))  BY <1>1, FS_Subset
  <1>3. /\ Cardinality(Preds(S, R, d)) <= Cardinality(Preds(S, R, e))
        /\ Cardinality(Preds(S, R, e)) # Cardinality(Preds(S, R, d))
        /\ IsFiniteSet(Preds(S, R, d))
    BY <1>1, <1>2, FS_Subset
  <1>4. Cardinality(Preds(S, R, d)) \in Nat /\ Cardinality(Preds(S, R, e)) \in Nat
    BY <1>2, <1>3, FS_CardinalityType
  <1> QED  BY <1>3, <1>4

\* A set whose elements have different numbers in lo..hi has at most that many.
LEMMA AtMostAsMany ==
  ASSUME NEW T, NEW f \in [T -> Int], NEW lo \in Int, NEW hi \in Int, hi >= lo - 1,
         \A d \in T : f[d] \in lo..hi,
         \A d, e \in T : d # e => f[d] # f[e]
  PROVE  IsFiniteSet(T) /\ Cardinality(T) <= hi - lo + 1
  <1>1. f \in Injection(T, lo..hi)
    <2>1. f \in [T -> lo..hi]  OBVIOUS
    <2> QED  BY <2>1 DEF Injection, IsInjective
  <1>2. IsFiniteSet(lo..hi) /\ Cardinality(lo..hi) = hi - lo + 1
    BY FS_Interval
  <1> QED  BY <1>1, <1>2, FS_Injection

\* The first n of a finite, completely ordered set are at most n.
LEMMA FirstAreFew ==
  ASSUME NEW S, IsFiniteSet(S), NEW R, StrictOrder(S, R), NEW n \in Nat,
         \A d, e \in S : d = e \/ <<d, e>> \in R \/ <<e, d>> \in R,
         NEW T \in SUBSET S, \A d \in T : Cardinality(Preds(S, R, d)) < n
  PROVE  IsFiniteSet(T) /\ Cardinality(T) <= n
  <1> DEFINE f == [d \in T |-> Cardinality(Preds(S, R, d))]
  <1>1. \A d \in S : Cardinality(Preds(S, R, d)) \in Nat
    <2> TAKE d \in S
    <2>1. Preds(S, R, d) \subseteq S  BY DEF Preds
    <2> QED  BY <2>1, FS_Subset, FS_CardinalityType
  <1>2. f \in [T -> Int] /\ \A d \in T : f[d] \in 0..(n - 1)  BY <1>1
  <1>3. ASSUME NEW d \in T, NEW e \in T, d # e  PROVE f[d] # f[e]
    <2>1. <<d, e>> \in R \/ <<e, d>> \in R  BY <1>3
    <2>2. \/ Cardinality(Preds(S, R, d)) < Cardinality(Preds(S, R, e))
          \/ Cardinality(Preds(S, R, e)) < Cardinality(Preds(S, R, d))
      BY <2>1, FewerBefore
    <2> QED  BY <2>2, <1>1
  <1> HIDE DEF f
  <1>4. IsFiniteSet(T) /\ Cardinality(T) <= (n - 1) - 0 + 1
    BY <1>2, <1>3, AtMostAsMany
  <1> QED  BY <1>4

-----------------------------------------------------------------------------
(* The choice of claim_execution_slots.                                    *)

SameHome(w) == {d \in Eligible : Home[d] = w}
AheadPairs == {p \in Demands \X Demands : Ahead(p[1], p[2])}

LEMMA EligibleWait ==
  Eligible \subseteq Waiting /\ Eligible \subseteq Demands /\ IsFiniteSet(Eligible)
  <1>1. Eligible \subseteq Waiting /\ Eligible \subseteq Demands
    BY DEF Eligible, Waiting
  <1> QED  BY <1>1, FS_Subset

\* Inside a workspace, priority and updated_at order the eligible demands.
LEMMA AheadOrders ==
  ASSUME TypeOK, OrderInv
  PROVE  /\ StrictOrder(Eligible, AheadPairs)
         /\ \A d, e \in Eligible : d = e \/ <<d, e>> \in AheadPairs \/ <<e, d>> \in AheadPairs
  <1>1. \A d \in Demands : demand[d].priority \in {0, 1}  BY DEF TypeOK, DemandRow
  <1> DEFINE Pri(d) == demand[d].priority
             Old(d, e) == <<d, e>> \in older
  <1>2. \A d, e \in Demands : <<d, e>> \in AheadPairs <=>
                                Pri(d) < Pri(e) \/ (Pri(d) = Pri(e) /\ Old(d, e))
    BY DEF AheadPairs, Ahead
  <1>3. /\ \A d \in Demands : ~Old(d, d)
        /\ \A d, e \in Waiting : d = e \/ Old(d, e) \/ Old(e, d)
        /\ \A d, e, f \in Demands : Old(d, e) /\ Old(e, f) => Old(d, f)
    BY DEF OrderInv
  <1>4. \A d \in Demands : Pri(d) \in {0, 1}  BY <1>1
  <1> HIDE DEF Pri, Old
  <1>5. Eligible \subseteq Waiting /\ Eligible \subseteq Demands  BY EligibleWait
  <1>6. ASSUME NEW d \in Eligible  PROVE <<d, d>> \notin AheadPairs
    BY <1>2, <1>3, <1>4, <1>5
  <1>7. ASSUME NEW d \in Eligible, NEW e \in Eligible, NEW f \in Eligible,
               <<d, e>> \in AheadPairs, <<e, f>> \in AheadPairs
        PROVE  <<d, f>> \in AheadPairs
    BY <1>2, <1>3, <1>4, <1>5, <1>7
  <1>8. ASSUME NEW d \in Eligible, NEW e \in Eligible, d # e
        PROVE  <<d, e>> \in AheadPairs \/ <<e, d>> \in AheadPairs
    BY <1>2, <1>3, <1>4, <1>5, <1>8
  <1> QED  BY <1>6, <1>7, <1>8 DEF StrictOrder

\* workspace_rank numbers the eligible demands of a workspace from 1.
LEMMA RanksDiffer ==
  ASSUME TypeOK, OrderInv
  PROVE  /\ DOMAIN Ranked = Eligible
         /\ \A d \in Eligible : Ranked[d] \in Nat \ {0}
         /\ \A d, e \in Eligible : Home[d] = Home[e] /\ d # e => Ranked[d] # Ranked[e]
  <1>1. /\ Ranked = [d \in Eligible |->
                       1 + Cardinality({e \in Eligible : Home[e] = Home[d] /\ Ahead(e, d)})]
        /\ Eligible \subseteq Demands /\ IsFiniteSet(Eligible)
    BY EligibleWait DEF Ranked
  <1>2. ASSUME NEW d \in Eligible
        PROVE  /\ Ranked[d] = 1 + Cardinality(Preds(SameHome(Home[d]), AheadPairs, d))
               /\ Cardinality(Preds(SameHome(Home[d]), AheadPairs, d)) \in Nat
    <2>1. {e \in Eligible : Home[e] = Home[d] /\ Ahead(e, d)}
            = Preds(SameHome(Home[d]), AheadPairs, d)
      BY <1>1 DEF Preds, SameHome, AheadPairs
    <2>2. Preds(SameHome(Home[d]), AheadPairs, d) \subseteq Eligible
      BY DEF Preds, SameHome
    <2>3. Cardinality(Preds(SameHome(Home[d]), AheadPairs, d)) \in Nat
      BY <2>2, <1>1, FS_Subset, FS_CardinalityType
    <2> QED  BY <1>1, <2>1, <2>3
  <1>3. ASSUME NEW d \in Eligible, NEW e \in Eligible, Home[d] = Home[e], d # e
        PROVE  Ranked[d] # Ranked[e]
    <2> DEFINE S == SameHome(Home[d])
    <2>1. S \subseteq Eligible /\ d \in S /\ e \in S  BY <1>3 DEF SameHome
    <2>2. IsFiniteSet(S)  BY <2>1, <1>1, FS_Subset
    <2>3. StrictOrder(S, AheadPairs)  BY <2>1, AheadOrders DEF StrictOrder
    <2>4. <<d, e>> \in AheadPairs \/ <<e, d>> \in AheadPairs  BY <1>3, AheadOrders
    <2> HIDE DEF S
    <2>5. \/ Cardinality(Preds(S, AheadPairs, d)) < Cardinality(Preds(S, AheadPairs, e))
          \/ Cardinality(Preds(S, AheadPairs, e)) < Cardinality(Preds(S, AheadPairs, d))
      BY <2>1, <2>2, <2>3, <2>4, FewerBefore
    <2>6. /\ Ranked[d] = 1 + Cardinality(Preds(S, AheadPairs, d))
          /\ Cardinality(Preds(S, AheadPairs, d)) \in Nat
          /\ Ranked[e] = 1 + Cardinality(Preds(S, AheadPairs, e))
          /\ Cardinality(Preds(S, AheadPairs, e)) \in Nat
      BY <1>2, <1>3 DEF S
    <2> QED  BY <2>5, <2>6
  <1>4. \A d \in Eligible : Ranked[d] \in Nat \ {0}  BY <1>2
  <1> QED  BY <1>1, <1>3, <1>4

RowPairs(rank) == {p \in Eligible \X Eligible : Before(rank, p[1], p[2])}

\* Rank, turn and workspace id order the rows of the page.
LEMMA BeforeOrders ==
  ASSUME TypeOK, OrderInv, NEW S \in SUBSET Eligible
  PROVE  /\ StrictOrder(S, RowPairs(Ranked))
         /\ \A d, e \in S : \/ d = e
                            \/ <<d, e>> \in RowPairs(Ranked) \/ <<e, d>> \in RowPairs(Ranked)
  <1> DEFINE rk(d) == Ranked[d]
             tn(d) == Turn(Home[d])
             hm(d) == Home[d]
  <1>1. \A d \in S : rk(d) \in Int /\ hm(d) \in Int /\ tn(d) \in Int
    <2>1. \A d \in S : rk(d) \in Int  BY RanksDiffer
    <2>2. \A d \in S : hm(d) \in Nat  BY EligibleWait
    <2>3. \A d \in S : tn(d) \in Int  BY DEF Turn
    <2> QED  BY <2>1, <2>2, <2>3
  <1>2. \A d, e \in S : <<d, e>> \in RowPairs(Ranked) <=>
           \/ rk(d) < rk(e)
           \/ /\ rk(d) = rk(e)
              /\ tn(d) < tn(e) \/ (tn(d) = tn(e) /\ hm(d) < hm(e))
    BY DEF RowPairs, Before
  <1>3. \A d, e \in S : d # e => rk(d) # rk(e) \/ hm(d) # hm(e)  BY RanksDiffer
  <1> HIDE DEF rk, tn, hm
  <1>4. ASSUME NEW d \in S PROVE <<d, d>> \notin RowPairs(Ranked)  BY <1>1, <1>2
  <1>5. ASSUME NEW d \in S, NEW e \in S, NEW f \in S,
               <<d, e>> \in RowPairs(Ranked), <<e, f>> \in RowPairs(Ranked)
        PROVE  <<d, f>> \in RowPairs(Ranked)
    BY <1>1, <1>2, <1>5
  <1>6. ASSUME NEW d \in S, NEW e \in S, d # e
        PROVE  <<d, e>> \in RowPairs(Ranked) \/ <<e, d>> \in RowPairs(Ranked)
    BY <1>1, <1>2, <1>3, <1>6
  <1> QED  BY <1>4, <1>5, <1>6 DEF StrictOrder

LEMMA FirstFits ==
  ASSUME TypeOK, OrderInv, NEW S \in SUBSET Eligible, NEW n \in Nat
  PROVE  IsFiniteSet(First(Ranked, n, S)) /\ Cardinality(First(Ranked, n, S)) <= n
  <1> DEFINE R == RowPairs(Ranked)
  <1>1. /\ First(Ranked, n, S) \in SUBSET S
        /\ \A d \in First(Ranked, n, S) : Cardinality(Preds(S, R, d)) < n
    <2>1. ASSUME NEW d \in S
          PROVE  Preds(S, R, d) = {e \in S : Before(Ranked, e, d)}
      BY DEF Preds, RowPairs
    <2> QED  BY <2>1 DEF First
  <1>2. StrictOrder(S, R) /\ \A d, e \in S : d = e \/ <<d, e>> \in R \/ <<e, d>> \in R
    BY BeforeOrders
  <1>3. IsFiniteSet(S)  BY EligibleWait, FS_Subset
  <1> HIDE DEF R
  <1> QED  BY <1>1, <1>2, <1>3, FirstAreFew

LEMMA HeldFinite ==
  /\ Held \subseteq Demands /\ IsFiniteSet(Held) /\ Cardinality(Held) \in Nat
  /\ \A w : /\ IsFiniteSet({d \in Held : Home[d] = w})
            /\ Occupied(w) = Cardinality({d \in Held : Home[d] = w}) /\ Occupied(w) \in Nat
  <1>1. Held \subseteq Demands  BY DEF Held
  <1>2. IsFiniteSet(Held) /\ Cardinality(Held) \in Nat  BY <1>1, FS_Subset, FS_CardinalityType
  <1>3. ASSUME NEW w PROVE IsFiniteSet({d \in Held : Home[d] = w})
                           /\ Cardinality({d \in Held : Home[d] = w}) \in Nat
    <2>1. {d \in Held : Home[d] = w} \subseteq Held  OBVIOUS
    <2> QED  BY <1>2, <2>1, FS_Subset, FS_CardinalityType
  <1> QED  BY <1>1, <1>2, <1>3 DEF Occupied

\* What is granted is eligible, fits in the room there is, and in every workspace
\* in what the workspace has left.
LEMMA GrantsFit ==
  ASSUME TypeOK, OrderInv, WithinLimits,
         NEW page \in SUBSET Eligible,
         NEW open, open = Open(Ranked, page),
         NEW granted, granted = First(Ranked, Room, open)
  PROVE  /\ granted \subseteq Eligible
         /\ IsFiniteSet(granted)
         /\ Cardinality(granted) <= Room
         /\ Room \in Nat /\ Room <= GlobalLimit - Cardinality(Held)
         /\ \A w \in Workspaces :
               /\ IsFiniteSet({d \in granted : Home[d] = w})
               /\ Cardinality({d \in granted : Home[d] = w}) <= WorkspaceLimit - Occupied(w)
  <1>1. Room \in Nat /\ Room <= GlobalLimit - Cardinality(Held)
    BY HeldFinite DEF Room, WithinLimits
  <1>2. open \subseteq Eligible /\ granted \subseteq open  BY DEF Open, First
  <1>4. IsFiniteSet(granted) /\ Cardinality(granted) <= Room 
    BY <1>1, <1>2, FirstFits
  <1>5. ASSUME NEW w \in Workspaces
        PROVE  /\ IsFiniteSet({d \in granted : Home[d] = w})
               /\ Cardinality({d \in granted : Home[d] = w}) <= WorkspaceLimit - Occupied(w)
    <2> DEFINE T == {d \in granted : Home[d] = w}
               f == [d \in T |-> Ranked[d]]
               left == WorkspaceLimit - Occupied(w)
    <2>0. Occupied(w) \in Nat /\ Occupied(w) <= WorkspaceLimit
      BY HeldFinite DEF WithinLimits
    <2>1. left \in Nat  BY <2>0
    <2>2. \A d \in T : d \in Eligible /\ Home[d] = w /\ Occupied(w) + Ranked[d] <= WorkspaceLimit
      BY <1>2 DEF Open
    <2>3. f \in [T -> Int] /\ \A d \in T : f[d] \in 1..left
      <3>1. \A d \in T : Ranked[d] \in Nat \ {0}  BY <2>2, RanksDiffer
      <3>2. \A d \in T : Ranked[d] <= left  BY <2>0, <2>2, <3>1
      <3> HIDE DEF T, left
      <3> QED  BY <2>1, <3>1, <3>2
    <2>4. \A d, e \in T : d # e => f[d] # f[e]  BY <2>2, RanksDiffer
    <2> HIDE DEF f, T, left
    <2>5. IsFiniteSet(T) /\ Cardinality(T) <= left - 1 + 1
      BY <2>1, <2>3, <2>4, AtMostAsMany
    <2> QED  BY <2>1, <2>5 DEF T, left
  <1> QED  BY <1>1, <1>2, <1>4, <1>5

-----------------------------------------------------------------------------
(* The invariant.                                                          *)

LEMMA FirstRows ==
  /\ Free \in SlotRow /\ Free.state = "free" /\ NewDump \in DemandRow /\ NewDump.state = "ready"
  BY DEF Free, SlotRow, NewDump, DemandRow

LEMMA InitHolds == Init => IInv
  <1> SUFFICES ASSUME Init PROVE IInv  OBVIOUS
  <1> USE DEF Init
  <1>1. TypeOK  BY FirstRows DEF TypeOK
  <1>2. \A d \in Demands : demand[d].state = "ready" /\ slot[d].state = "free"  BY FirstRows
  <1>3. OrderInv
    <2>1. Waiting = Demands  BY <1>2 DEF Waiting
    <2>2. \A d, e \in Demands : <<d, e>> \in older <=> Arrival[d] < Arrival[e]  OBVIOUS
    <2>3. \A d \in Demands : Arrival[d] \in Nat  OBVIOUS
    <2> QED  BY <2>1, <2>2, <2>3 DEF OrderInv
  <1>4. RunsAreExecuting  BY <1>2 DEF RunsAreExecuting
  <1>5. WithinLimits
    <2>1. Held = {}  BY <1>2 DEF Held
    <2>2. Cardinality(Held) = 0 /\ \A w : Occupied(w) = 0
      <3>1. \A w : {d \in Held : Home[d] = w} = {}  BY <2>1
      <3> QED  BY <2>1, <3>1, FS_EmptySet DEF Occupied
    <2> QED  BY <2>2 DEF WithinLimits
  <1> QED  BY <1>1, <1>3, <1>4, <1>5 DEF IInv

\* The limits hold of any slots that are no more than before.
LEMMA FewerSlotsFit ==
  ASSUME WithinLimits, Held' \subseteq Held, running' \subseteq Held'
  PROVE  WithinLimits'
  <1>1. Cardinality(Held') <= Cardinality(Held) /\ Cardinality(Held') \in Nat
    BY HeldFinite, FS_Subset, FS_CardinalityType
  <1>2. ASSUME NEW w \in Workspaces PROVE Occupied(w)' <= WorkspaceLimit
    <2>1. {d \in Held' : Home[d] = w} \subseteq {d \in Held : Home[d] = w}  OBVIOUS
    <2>2. /\ Cardinality({d \in Held' : Home[d] = w}) <= Occupied(w)
          /\ Cardinality({d \in Held' : Home[d] = w}) \in Nat
      BY <2>1, HeldFinite, FS_Subset, FS_CardinalityType
    <2>3. Occupied(w)' = Cardinality({d \in Held' : Home[d] = w})  BY DEF Occupied
    <2>4. Occupied(w) <= WorkspaceLimit /\ Occupied(w) \in Nat  BY HeldFinite DEF WithinLimits
    <2> QED  BY <2>2, <2>3, <2>4
  <1> QED  BY <1>1, <1>2, HeldFinite DEF WithinLimits

\* Touch leaves a strict, complete order of the demands that wait now.
LEMMA TouchOrders ==
  ASSUME TypeOK, OrderInv, NEW d \in Demands, Touch(d),
         \A e \in Demands \ {d} : demand'[e].state = demand[e].state
  PROVE  OrderInv' /\ older' \subseteq Demands \X Demands
  <1> DEFINE W == Waiting
             V == Waiting'
  <1>1. V = IF demand'[d].state = "away" THEN W \ {d} ELSE W \cup {d}  BY DEF Waiting
  <1>2. \A e, f \in Demands : <<e, f>> \in older' <=>
           \/ <<e, f>> \in older /\ e # d /\ f # d
           \/ f = d /\ e \in W \ {d} /\ d \in V
    <2> TAKE e \in Demands, f \in Demands
    <2>1. <<e, f>> \in {w \in older : d \notin {w[1], w[2]}} <=> <<e, f>> \in older /\ e # d /\ f # d
      OBVIOUS
    <2>2. <<e, f>> \in {<<g, d>> : g \in {g \in Demands \ {d} : /\ demand[g].state # "away"
                                                             /\ demand'[d].state # "away"}}
            <=> f = d /\ e \in W \ {d} /\ d \in V
      BY DEF Waiting
    <2> QED  BY <2>1, <2>2 DEF Touch
  <1>3. older' \subseteq Demands \X Demands  BY DEF Touch, TypeOK
  <1>4. W \subseteq Demands /\ V \subseteq Demands  BY DEF Waiting
  <1>5. /\ \A e, f \in Demands : <<e, f>> \in older => e \in W /\ f \in W
        /\ \A e \in Demands : <<e, e>> \notin older
        /\ \A e, f \in W : e = f \/ <<e, f>> \in older \/ <<f, e>> \in older
        /\ \A e, f, g \in Demands : <<e, f>> \in older /\ <<f, g>> \in older => <<e, g>> \in older
    BY DEF OrderInv
  <1> HIDE DEF W, V
  <1>6. \A e, f \in Demands : <<e, f>> \in older' => e \in V /\ f \in V  BY <1>1, <1>2, <1>4, <1>5
  <1>7. \A e \in Demands : <<e, e>> \notin older'  BY <1>2, <1>5
  <1>8. \A e, f \in V : e = f \/ <<e, f>> \in older' \/ <<f, e>> \in older'
    BY <1>1, <1>2, <1>4, <1>5
  <1>9. \A e, f, g \in Demands : <<e, f>> \in older' /\ <<f, g>> \in older' => <<e, g>> \in older'
    BY <1>2, <1>5
  <1> QED  BY <1>3, <1>6, <1>7, <1>8, <1>9 DEF OrderInv, V

\* The same when nothing is touched.
LEMMA SameOrder ==
  ASSUME OrderInv, UNCHANGED older,
         \A e \in Demands : demand'[e].state = "away" <=> demand[e].state = "away"
  PROVE  OrderInv'
  <1>1. Waiting' = Waiting  BY DEF Waiting
  <1> QED  BY <1>1 DEF OrderInv

-----------------------------------------------------------------------------
(* One lemma for each action.                                              *)

LEMMA ClaimSlotsKeeps ==
  ASSUME IInv, NEW p \in Planners, ClaimSlots(p)
  PROVE  IInv'
  <1> USE DEF IInv
  <1> PICK rank \in {Ranked} : \E page \in {First(rank, EnumerationLimit, Rows(rank))} :
         \E open \in {Open(rank, page)} : \E granted \in {First(rank, Room, open)} :
           /\ slot' = [d \in Demands |->
                         IF d \in granted
                         THEN [state |-> "planning", owner |-> p, live |-> TRUE]
                         ELSE IF d \in Held THEN slot[d] ELSE Free]
           /\ claims' = [claims EXCEPT ![p] = granted]
           /\ IF granted = {} THEN UNCHANGED last_workspace_id
              ELSE \E last \in granted :
                      /\ \A d \in granted \ {last} : Before(rank, d, last)
                      /\ last_workspace_id' = Home[last]
           /\ passed' = [w \in Workspaces |->
                           IF /\ \E d \in Claimable : Home[d] = w
                              /\ \A d \in granted : Home[d] # w
                           THEN passed[w] + Cardinality(granted) ELSE 0]
    BY DEF ClaimSlots
  <1> DEFINE page == First(rank, EnumerationLimit, Rows(rank))
             open == Open(rank, page)
             granted == First(rank, Room, open)
  <1>1. /\ slot' = [d \in Demands |->
                      IF d \in granted
                      THEN [state |-> "planning", owner |-> p, live |-> TRUE]
                      ELSE IF d \in Held THEN slot[d] ELSE Free]
        /\ claims' = [claims EXCEPT ![p] = granted]
        /\ IF granted = {} THEN UNCHANGED last_workspace_id
           ELSE \E last \in granted : last_workspace_id' = Home[last]
        /\ passed' = [w \in Workspaces |->
                        IF /\ \E d \in Claimable : Home[d] = w
                           /\ \A d \in granted : Home[d] # w
                        THEN passed[w] + Cardinality(granted) ELSE 0]
    OBVIOUS
  <1>2. UNCHANGED <<demand, older, running, budgets>>  BY DEF ClaimSlots
  <1>3. page \in SUBSET Eligible
    BY RanksDiffer DEF First, Rows
  <1>4. /\ granted \subseteq Eligible
        /\ IsFiniteSet(granted)
        /\ Cardinality(granted) <= Room
        /\ Room \in Nat /\ Room <= GlobalLimit - Cardinality(Held)
        /\ \A w \in Workspaces :
              /\ IsFiniteSet({d \in granted : Home[d] = w})
              /\ Cardinality({d \in granted : Home[d] = w}) <= WorkspaceLimit - Occupied(w)
    <2>1. rank = Ranked /\ open = Open(Ranked, page) /\ granted = First(Ranked, Room, open)
      OBVIOUS
    <2> HIDE DEF page, open, granted
    <2> QED  BY <1>3, <2>1, GrantsFit
  <1> HIDE DEF granted, open, page
  <1>5. granted \subseteq Demands /\ granted \cap Held = {}  BY <1>4 DEF Eligible
  <1>6. TypeOK'
    <2>1. slot' \in [Demands -> SlotRow]
      <3>1. [state |-> "planning", owner |-> p, live |-> TRUE] \in SlotRow  BY DEF SlotRow
      <3>2. \A d \in Demands : slot[d] \in SlotRow  BY DEF TypeOK
      <3> QED  BY <1>1, <3>1, <3>2, FirstRows
    <2>2. last_workspace_id' \in Workspaces \cup {0}  BY <1>1, <1>5 DEF TypeOK
    <2>3. claims' \in [Planners -> SUBSET Demands]  BY <1>1, <1>5 DEF TypeOK
    <2>4. passed' \in [Workspaces -> Nat]
      <3>1. Cardinality(granted) \in Nat  BY <1>4, FS_CardinalityType
      <3> QED  BY <1>1, <3>1 DEF TypeOK
    <2> QED  BY <1>2, <2>1, <2>2, <2>3, <2>4 DEF TypeOK, budgets
  <1>7. OrderInv'  BY <1>2, SameOrder
  <1>8. \A d \in Demands : /\ slot'[d].state = "executing" <=> slot[d].state = "executing"
                           /\ d \in Held' <=> d \in Held \cup granted
    <2> TAKE d \in Demands
    <2>1. d \in running <=> slot[d].state = "executing"  BY DEF RunsAreExecuting
    <2>2. CASE d \in granted
      <3>1. slot'[d] = [state |-> "planning", owner |-> p, live |-> TRUE]  BY <1>1, <2>2
      <3>2. slot[d].state # "executing"  BY <1>5, <2>1, <2>2 DEF Held
      <3> QED  BY <2>2, <3>1, <3>2 DEF Held
    <2>3. CASE d \notin granted /\ d \in Held
      <3>1. slot'[d] = slot[d]  BY <1>1, <2>3
      <3> QED  BY <1>2, <2>3, <3>1 DEF Held
    <2>4. CASE d \notin granted /\ d \notin Held
      <3>1. slot'[d] = Free  BY <1>1, <2>4
      <3>2. slot[d].state # "executing"  BY <2>1, <2>4 DEF Held
      <3> QED  BY <2>4, <3>1, <3>2, FirstRows DEF Held
    <2> QED  BY <2>2, <2>3, <2>4
  <1>9. RunsAreExecuting'  BY <1>2, <1>8 DEF RunsAreExecuting
  <1>10. Held' = Held \cup granted  BY <1>5, <1>8, HeldFinite DEF Held
  <1>11. WithinLimits'
    <2>1. /\ Cardinality(Held \cup granted) <= Cardinality(Held) + Cardinality(granted)
          /\ Cardinality(Held \cup granted) <= GlobalLimit
      <3>1. Held \cap granted = {} /\ Cardinality({}) = 0  BY <1>5, FS_EmptySet
      <3>2. Cardinality(granted) \in Nat /\ Cardinality(Held) \in Nat
        BY <1>4, HeldFinite, FS_CardinalityType
      <3> QED  BY <1>4, <3>1, <3>2, HeldFinite, FS_Union
    <2>2. ASSUME NEW w \in Workspaces PROVE Occupied(w)' <= WorkspaceLimit
      <3> DEFINE A == {d \in Held : Home[d] = w}
                 B == {d \in granted : Home[d] = w}
      <3>1. {d \in Held' : Home[d] = w} = A \cup B /\ A \cap B = {}  BY <1>5, <1>10
      <3>2. /\ IsFiniteSet(A) /\ IsFiniteSet(B)
            /\ Cardinality(A) = Occupied(w) /\ Occupied(w) \in Nat
            /\ Cardinality(B) <= WorkspaceLimit - Occupied(w)
        BY <1>4, HeldFinite
      <3> HIDE DEF A, B
      <3>3. Cardinality(B) \in Nat /\ Cardinality({}) = 0  BY <3>2, FS_CardinalityType, FS_EmptySet
      <3>4. Cardinality(A \cup B) = Cardinality(A) + Cardinality(B)
        <4>1. Cardinality(A \cup B) = Cardinality(A) + Cardinality(B) - Cardinality(A \cap B)
          BY <3>2, FS_Union
        <4>2. Cardinality(A \cap B) = 0  BY <3>1, <3>3
        <4> QED  BY <3>2, <3>3, <4>1, <4>2
      <3>5. Occupied(w)' = Cardinality(A \cup B)  BY <3>1 DEF Occupied
      <3> QED  BY <3>2, <3>3, <3>4, <3>5
    <2>3. running' \subseteq Held'  BY <1>2, <1>10 DEF WithinLimits
    <2> QED  BY <1>10, <2>1, <2>2, <2>3 DEF WithinLimits
  <1> QED  BY <1>6, <1>7, <1>9, <1>11

\* The actions that only take slots away, or leave them.
LEMMA ReconcileOnlyKeeps ==
  ASSUME IInv, NEW p \in Planners, ReconcileOnly(p)
  PROVE  IInv'
  <1> USE DEF IInv
  <1>1. slot' = [d \in Demands |-> IF d \in Held THEN slot[d] ELSE Free]
    BY DEF ReconcileOnly
  <1>2. UNCHANGED <<demand, older, running, last_workspace_id, claims, budgets, passed>>
    BY DEF ReconcileOnly
  <1>3. TypeOK'  BY <1>1, <1>2, FirstRows DEF TypeOK, budgets
  <1>4. OrderInv'  BY <1>2, SameOrder
  <1>5. \A d \in Demands : /\ slot'[d].state = "executing" <=> slot[d].state = "executing"
                           /\ d \in Held' <=> d \in Held
    <2> TAKE d \in Demands
    <2>1. CASE d \in Held  BY <1>1, <1>2, <2>1 DEF Held
    <2>2. CASE d \notin Held
      <3>1. slot'[d] = Free  BY <1>1, <2>2
      <3>2. slot[d].state # "executing"  BY <2>2 DEF Held, RunsAreExecuting
      <3> QED  BY <2>2, <3>1, <3>2, FirstRows DEF Held
    <2> QED  BY <2>1, <2>2
  <1>6. RunsAreExecuting'  BY <1>2, <1>5 DEF RunsAreExecuting
  <1>7. Held' = Held  BY <1>5, HeldFinite DEF Held
  <1>8. WithinLimits'  BY <1>2, <1>7, FewerSlotsFit DEF WithinLimits
  <1> QED  BY <1>3, <1>4, <1>6, <1>8

\* A step that changes the slot of one demand at most, and does not bind it.
LEMMA OneSlotLessKeeps ==
  ASSUME IInv, NEW d \in Demands,
         TypeOK', OrderInv',
         \A e \in Demands \ {d} : slot'[e] = slot[e] /\ (e \in running' <=> e \in running),
         d \in running' <=> slot'[d].state = "executing",
         d \in Held' => d \in Held
  PROVE  IInv'
  <1> USE DEF IInv
  <1>1. \A e \in Demands : e \in running' <=> slot'[e].state = "executing"
    BY DEF RunsAreExecuting
  <1>2. running' \subseteq Demands  BY DEF TypeOK
  <1>3. RunsAreExecuting'  BY <1>1, <1>2 DEF RunsAreExecuting
  <1>4. Held' \subseteq Held  BY DEF Held
  <1>5. running' \subseteq Held'  BY <1>1, <1>2 DEF Held
  <1> QED  BY <1>3, <1>4, <1>5, FewerSlotsFit

LEMMA BindKeeps ==
  ASSUME IInv, NEW p \in Planners, NEW d \in Demands, BindExecutionSlot(p, d)
  PROVE  IInv'
  <1> USE DEF IInv, BindExecutionSlot
  <1>1. \A e \in Demands : demand[e] \in DemandRow /\ slot[e] \in SlotRow  BY DEF TypeOK
  <1>2. slot' \in [Demands -> SlotRow]
    <2>1. [state |-> "executing", owner |-> p, live |-> FALSE] \in SlotRow  BY DEF SlotRow
    <2> QED  BY <2>1 DEF TypeOK
  <1>3. demand' \in [Demands -> DemandRow]
    <2>1. [demand[d] EXCEPT !.state = "away", !.frozen = TRUE] \in DemandRow
      BY <1>1 DEF DemandRow
    <2>2. demand' = [demand EXCEPT ![d] = [demand[d] EXCEPT !.state = "away", !.frozen = TRUE]]
      BY DEF TypeOK
    <2> QED  BY <2>1, <2>2 DEF TypeOK
  <1>4. OrderInv' /\ older' \subseteq Demands \X Demands
    <2>1. \A e \in Demands \ {d} : demand'[e].state = demand[e].state  BY DEF TypeOK
    <2> QED  BY <2>1, TouchOrders
  <1>5. TypeOK'  BY <1>2, <1>3, <1>4 DEF TypeOK, budgets
  <1>6. slot'[d].state = "executing" /\ \A e \in Demands \ {d} : slot'[e] = slot[e]
    BY DEF TypeOK
  <1>7. d \in running'  OBVIOUS
  <1>8. d \in Held  BY DEF Held, Owns
  <1> QED  BY <1>4, <1>5, <1>6, <1>7, <1>8, OneSlotLessKeeps

LEMMA SettlesTyped ==
  ASSUME TypeOK, NEW d \in Demands, SettlesOrRetries(d)
  PROVE  /\ demand' \in [Demands -> DemandRow]
         /\ events' \in Nat
         /\ \A e \in Demands \ {d} : demand'[e].state = demand[e].state
  <1>1. demand[d] \in DemandRow  BY DEF TypeOK
  <1>2. ASSUME NEW st \in {"away", "later"}
        PROVE  [demand[d] EXCEPT !.state = st, !.priority = 1] \in DemandRow
    BY <1>1 DEF DemandRow
  <1>3. PICK st \in {"away", "later"} :
           demand' = [demand EXCEPT ![d] = [demand[d] EXCEPT !.state = st, !.priority = 1]]
    BY DEF SettlesOrRetries, TypeOK
  <1>4. events' \in Nat  BY DEF SettlesOrRetries, TypeOK
  <1> QED  BY <1>2, <1>3, <1>4 DEF TypeOK

\* What each remaining step does to the demand, its slot and its run.
LEMMA PlanIsStaleKeeps ==
  ASSUME IInv, NEW p \in Planners, NEW d \in Demands, PlanIsStale(p, d)
  PROVE  IInv'
  <1> USE DEF IInv, PlanIsStale
  <1>1. slot' \in [Demands -> SlotRow] /\ slot'[d] \in {slot[d], Free}
    BY FirstRows DEF TypeOK
  <1>2. TypeOK'  BY <1>1 DEF TypeOK
  <1>3. OrderInv'  BY SameOrder
  <1>4. \A e \in Demands \ {d} : slot'[e] = slot[e]  BY DEF TypeOK
  <1>5. d \in running' <=> slot'[d].state = "executing"
    BY FirstRows DEF TypeOK, Owns, RunsAreExecuting
  <1>6. d \in Held' => d \in Held  BY <1>1, FirstRows DEF Held
  <1> QED  BY <1>2, <1>3, <1>4, <1>5, <1>6, OneSlotLessKeeps

LEMMA PlanningFailsKeeps ==
  ASSUME IInv, NEW p \in Planners, NEW d \in Demands, PlanningFails(p, d)
  PROVE  IInv'
  <1> USE DEF IInv, PlanningFails
  <1>1. slot' \in [Demands -> SlotRow] /\ slot'[d] = Free  BY FirstRows DEF TypeOK
  <1>2. OrderInv' /\ older' \subseteq Demands \X Demands  BY SettlesTyped, TouchOrders
  <1>3. TypeOK'  BY <1>1, <1>2, SettlesTyped DEF TypeOK
  <1>4. \A e \in Demands \ {d} : slot'[e] = slot[e]  BY DEF TypeOK
  <1>5. d \in running' <=> slot'[d].state = "executing"
    BY <1>1, FirstRows DEF Owns, RunsAreExecuting
  <1>6. d \in Held' => d \in Held  BY <1>1, FirstRows DEF Held
  <1> QED  BY <1>2, <1>3, <1>4, <1>5, <1>6, OneSlotLessKeeps

LEMMA RunEndsKeeps ==
  ASSUME IInv, NEW d \in Demands, RunEnds(d)
  PROVE  IInv'
  <1> USE DEF IInv, RunEnds
  <1>1. slot' \in [Demands -> SlotRow] /\ slot'[d] = Free
    BY FirstRows DEF TypeOK, RunsAreExecuting
  <1>2. OrderInv' /\ older' \subseteq Demands \X Demands  BY SettlesTyped, TouchOrders
  <1>3. TypeOK'  BY <1>1, <1>2, SettlesTyped DEF TypeOK
  <1>4. \A e \in Demands \ {d} : slot'[e] = slot[e]  BY DEF TypeOK
  <1>5. d \in Held' => d \in Held  BY <1>1, FirstRows DEF Held
  <1> QED  BY <1>1, <1>2, <1>3, <1>4, <1>5, FirstRows, OneSlotLessKeeps

LEMMA LeaseKeeps ==
  ASSUME IInv, NEW d \in Demands, LeaseLapses(d) \/ RenewalIsLate(d)
  PROVE  IInv'
  <1> USE DEF IInv
  <1>1. /\ slot[d].state = "planning"
        /\ slot' = [slot EXCEPT ![d] = [slot[d] EXCEPT !.live = FALSE]]
        /\ UNCHANGED <<demand, older, running, last_workspace_id, claims, events, passed>>
        /\ faults' \in Nat
    BY DEF LeaseLapses, RenewalIsLate, TypeOK, budgets
  <1>2. [slot[d] EXCEPT !.live = FALSE] \in SlotRow
    <2>1. slot[d] \in SlotRow  BY DEF TypeOK
    <2> QED  BY <2>1 DEF SlotRow
  <1>3. TypeOK'  BY <1>1, <1>2 DEF TypeOK
  <1>4. OrderInv'  BY <1>1, SameOrder
  <1>5. slot'[d].state = "planning" /\ slot'[d].live = FALSE
    <2>1. slot[d] \in SlotRow  BY DEF TypeOK
    <2>2. slot'[d] = [slot[d] EXCEPT !.live = FALSE]  BY <1>1 DEF TypeOK
    <2> QED  BY <1>1, <2>1, <2>2 DEF SlotRow
  <1>6. \A e \in Demands \ {d} : slot'[e] = slot[e]  BY <1>1 DEF TypeOK
  <1>7. d \notin running /\ d \notin running'  BY <1>1 DEF RunsAreExecuting
  <1>8. d \notin Held'  BY <1>5 DEF Held
  <1> QED  BY <1>1, <1>3, <1>4, <1>5, <1>6, <1>7, <1>8, OneSlotLessKeeps

\* The steps that leave the slots and the runs alone.
LEMMA DemandStepKeeps ==
  ASSUME IInv, NEW d \in Demands, NoteChange(d) \/ NewWork(d) \/ NotBeforePasses(d)
  PROVE  IInv'
  <1> USE DEF IInv
  <1>1. UNCHANGED <<slot, running, last_workspace_id, claims, faults, passed>>
    BY DEF NoteChange, NewWork, NotBeforePasses, budgets
  <1>2. demand[d] \in DemandRow  BY DEF TypeOK
  <1>3. /\ demand' \in [Demands -> DemandRow] /\ events' \in Nat
        /\ \A e \in Demands \ {d} : demand'[e].state = demand[e].state
    <2>1. CASE NoteChange(d)
      <3>1. [demand[d] EXCEPT !.state = "later", !.priority = 1] \in DemandRow
        BY <1>2 DEF DemandRow
      <3>2. demand' \in {demand, [demand EXCEPT ![d] = [demand[d] EXCEPT !.state = "later",
                                                                        !.priority = 1]]}
        BY <2>1 DEF NoteChange, TypeOK
      <3> QED  BY <2>1, <3>1, <3>2 DEF NoteChange, TypeOK
    <2>2. CASE NewWork(d)
      <3>1. PICK pri \in {0, 1} : demand' = [demand EXCEPT ![d] =
                                    [demand[d] EXCEPT !.state = "ready", !.priority = pri]]
        BY <2>2 DEF NewWork, TypeOK
      <3>2. [demand[d] EXCEPT !.state = "ready", !.priority = pri] \in DemandRow
        BY <1>2 DEF DemandRow
      <3>3. events' \in Nat  BY <2>2 DEF NewWork, TypeOK
      <3> QED  BY <3>1, <3>2, <3>3 DEF TypeOK
    <2>3. CASE NotBeforePasses(d)
      <3>1. /\ demand' = [demand EXCEPT ![d] = [demand[d] EXCEPT !.state = "ready"]]
            /\ UNCHANGED events
        BY <2>3 DEF NotBeforePasses, TypeOK, budgets
      <3>2. [demand[d] EXCEPT !.state = "ready"] \in DemandRow  BY <1>2 DEF DemandRow
      <3> QED  BY <3>1, <3>2 DEF TypeOK
    <2> QED  BY <2>1, <2>2, <2>3
  <1>4. OrderInv' /\ older' \subseteq Demands \X Demands
    <2>1. CASE NoteChange(d) \/ NewWork(d)
      <3>1. Touch(d)  BY <2>1 DEF NoteChange, NewWork
      <3> QED  BY <3>1, <1>3, TouchOrders
    <2>2. CASE NotBeforePasses(d)
      <3>1. demand[d].state = "later" /\ demand'[d].state = "ready" /\ UNCHANGED older
        BY <2>2, <1>2 DEF NotBeforePasses, TypeOK, DemandRow
      <3> QED  BY <3>1, <1>3, SameOrder DEF TypeOK
    <2> QED  BY <1>3, <2>1, <2>2
  <1>5. TypeOK'  BY <1>1, <1>3, <1>4 DEF TypeOK
  <1>6. Held' = Held /\ RunsAreExecuting'  BY <1>1 DEF Held, RunsAreExecuting
  <1>7. WithinLimits'  BY <1>1, <1>6, FewerSlotsFit DEF WithinLimits
  <1> QED  BY <1>4, <1>5, <1>6, <1>7

LEMMA CrashKeeps ==
  ASSUME IInv, NEW p \in Planners, PlannerCrashes(p) \/ UNCHANGED vars
  PROVE  IInv'
  <1> USE DEF IInv
  <1>1. UNCHANGED <<demand, older, slot, running>>  BY DEF PlannerCrashes, vars
  <1>2. TypeOK'  BY DEF PlannerCrashes, vars, budgets, TypeOK
  <1>3. OrderInv'  BY <1>1, SameOrder
  <1>4. Held' = Held /\ RunsAreExecuting'  BY <1>1 DEF Held, RunsAreExecuting
  <1>5. WithinLimits'  BY <1>1, <1>4, FewerSlotsFit DEF WithinLimits
  <1> QED  BY <1>2, <1>3, <1>4, <1>5

LEMMA Inductive == IInv /\ [Next]_vars => IInv'
  <1> SUFFICES ASSUME IInv, [Next]_vars PROVE IInv'  OBVIOUS
  <1>1. ASSUME NEW p \in Planners, ClaimSlots(p) PROVE IInv'  BY <1>1, ClaimSlotsKeeps
  <1>2. ASSUME NEW p \in Planners, ReconcileOnly(p) PROVE IInv'  BY <1>2, ReconcileOnlyKeeps
  <1>3. ASSUME NEW p \in Planners, PlannerWorks(p) PROVE IInv'
    BY <1>3, BindKeeps, PlanIsStaleKeeps, PlanningFailsKeeps DEF PlannerWorks
  <1>4. ASSUME NEW p \in Planners, PlannerCrashes(p) PROVE IInv'  BY <1>4, CrashKeeps
  <1>5. ASSUME NEW d \in Demands, RunEnds(d) PROVE IInv'  BY <1>5, RunEndsKeeps
  <1>6. ASSUME NEW d \in Demands, NoteChange(d) \/ NewWork(d) \/ NotBeforePasses(d) PROVE IInv'
    BY <1>6, DemandStepKeeps
  <1>7. ASSUME NEW d \in Demands, LeaseLapses(d) \/ RenewalIsLate(d) PROVE IInv'
    BY <1>7, LeaseKeeps
  <1>8. CASE UNCHANGED vars
    <2>1. UNCHANGED <<demand, older, slot, running, last_workspace_id, claims, budgets, passed>>
      BY <1>8 DEF vars
    <2>2. TypeOK'  BY <2>1 DEF IInv, TypeOK, budgets
    <2>3. OrderInv'  BY <2>1, SameOrder DEF IInv
    <2>4. Held' = Held /\ RunsAreExecuting'  BY <2>1 DEF IInv, Held, RunsAreExecuting
    <2>5. WithinLimits'  BY <2>1, <2>4, FewerSlotsFit DEF IInv, WithinLimits
    <2> QED  BY <2>2, <2>3, <2>4, <2>5 DEF IInv
  <1> QED  BY <1>1, <1>2, <1>3, <1>4, <1>5, <1>6, <1>7, <1>8 DEF Next

\* The limits of execution slots: at any moment the live plans and the runs of
\* all workspaces are at most the global limit, those of each workspace at most
\* the workspace limit, and every run has its slot.
THEOREM LimitsHold == Spec => []WithinLimits
  <1>1. IInv => WithinLimits  BY DEF IInv
  <1> QED  BY InitHolds, Inductive, <1>1, PTL DEF Spec

\* Slots, claims and demands keep their types.
THEOREM SlotsTyped == Spec => []TypeOK
  <1>1. IInv => TypeOK  BY DEF IInv
  <1> QED  BY InitHolds, Inductive, <1>1, PTL DEF Spec

\* The shared capacity is never exceeded, for every number of planners, demands
\* and workspaces and all limits.
THEOREM CapacityHolds == Spec => []CapacityIsKept
  <1>1. IInv => CapacityIsKept  BY DEF IInv, CapacityIsKept
  <1> QED  BY InitHolds, Inductive, <1>1, PTL DEF Spec

-----------------------------------------------------------------------------
(* Who is first in line.                                                   *)

LEMMA LeastNumber ==
  ASSUME NEW S \in SUBSET Nat, S # {}
  PROVE  \E m \in S : \A n \in S : m <= n
  <1> DEFINE less == OpToRel(<, Nat)
  <1>1. \A x, y \in Nat : <<x, y>> \in less <=> x < y  BY DEF OpToRel
  <1>2. IsWellFoundedOn(less, Nat)  BY NatLessThanWellFounded
  <1> HIDE DEF less
  <1>3. PICK m \in S : \A n \in S : ~(<<n, m>> \in less)  BY <1>2, WFMin
  <1>4. \A n \in S : ~(n < m)  BY <1>1, <1>3
  <1> QED  BY <1>4

\* A finite, strictly ordered set that is not empty has a first element.
LEMMA FirstExists ==
  ASSUME NEW S, IsFiniteSet(S), S # {}, NEW R, StrictOrder(S, R)
  PROVE  \E d \in S : Preds(S, R, d) = {}
  <1> DEFINE c(d) == Cardinality(Preds(S, R, d))
             C == {c(d) : d \in S}
  <1>1. \A d \in S : c(d) \in Nat
    <2>1. \A d \in S : Preds(S, R, d) \subseteq S  BY DEF Preds
    <2> QED  BY <2>1, FS_Subset, FS_CardinalityType
  <1>2. C \subseteq Nat /\ C # {}  BY <1>1
  <1>3. PICK n \in C : \A m \in C : n <= m
    <2> HIDE DEF C
    <2> QED  BY <1>2, LeastNumber
  <1>4. PICK d \in S : n = c(d)  OBVIOUS
  <1>5. ASSUME NEW e \in Preds(S, R, d) PROVE FALSE
    <2>1. e \in S /\ <<e, d>> \in R  BY DEF Preds
    <2>2. c(e) < c(d)  BY <2>1, FewerBefore
    <2>3. c(d) <= c(e)  BY <1>3, <1>4, <2>1
    <2> QED  BY <1>1, <2>1, <2>2, <2>3
  <1> QED  BY <1>5

\* A workspace with eligible demands has one of rank 1.
LEMMA FirstOfWorkspace ==
  ASSUME TypeOK, OrderInv, NEW d \in Eligible
  PROVE  \E e \in Eligible : Home[e] = Home[d] /\ Ranked[e] = 1
  <1> DEFINE S == SameHome(Home[d])
  <1>1. S \subseteq Eligible /\ d \in S  BY DEF SameHome
  <1>2. IsFiniteSet(S)  BY <1>1, EligibleWait, FS_Subset
  <1>3. StrictOrder(S, AheadPairs)  BY <1>1, AheadOrders DEF StrictOrder
  <1>4. PICK e \in S : Preds(S, AheadPairs, e) = {}
    <2> HIDE DEF S
    <2> QED  BY <1>1, <1>2, <1>3, FirstExists
  <1>5. e \in Eligible /\ Home[e] = Home[d]  BY DEF SameHome
  <1>6. {f \in Eligible : Home[f] = Home[e] /\ Ahead(f, e)} = {}
    <2>1. ASSUME NEW f \in Eligible, Home[f] = Home[e], Ahead(f, e) PROVE FALSE
      <3>1. f \in S  BY <1>5, <2>1 DEF SameHome
      <3>2. <<f, e>> \in AheadPairs  BY <1>5, <2>1, EligibleWait DEF AheadPairs
      <3> QED  BY <1>4, <3>1, <3>2 DEF Preds
    <2> QED  BY <2>1
  <1>7. Ranked[e] = 1
    <2>1. Cardinality({}) = 0  BY FS_EmptySet
    <2> QED  BY <1>5, <1>6, <2>1 DEF Ranked
  <1> QED  BY <1>5, <1>7

\* What is among the first n comes before what is not.
LEMMA FirstComeFirst ==
  ASSUME TypeOK, OrderInv, NEW S \in SUBSET Eligible, NEW n \in Nat,
         NEW d \in First(Ranked, n, S), NEW e \in S, e \notin First(Ranked, n, S)
  PROVE  Before(Ranked, d, e)
  <1> DEFINE R == RowPairs(Ranked)
             c(x) == Cardinality(Preds(S, R, x))
  <1>1. d \in S  BY DEF First
  <1>2. \A x \in S : Preds(S, R, x) = {y \in S : Before(Ranked, y, x)}  BY DEF Preds, RowPairs
  <1>3. c(d) < n /\ ~ (c(e) < n)  BY <1>1, <1>2 DEF First
  <1>4. IsFiniteSet(S)  BY EligibleWait, FS_Subset
  <1>5. StrictOrder(S, R) /\ (d = e \/ <<d, e>> \in R \/ <<e, d>> \in R)
    BY <1>1, BeforeOrders
  <1>6. \A x \in S : c(x) \in Nat
    <2>1. \A x \in S : Preds(S, R, x) \subseteq S  BY DEF Preds
    <2> QED  BY <1>4, <2>1, FS_Subset, FS_CardinalityType
  <1>7. ~ (<<e, d>> \in R)
    <2> SUFFICES ASSUME <<e, d>> \in R PROVE FALSE  OBVIOUS
    <2>1. c(e) < c(d)
      <3> HIDE DEF R
      <3> QED  BY <1>1, <1>4, <1>5, FewerBefore
    <2> HIDE DEF c
    <2> QED  BY <1>1, <1>3, <1>6, <2>1
  <1> QED  BY <1>3, <1>5, <1>7 DEF RowPairs

\* The first element of a set is among its first n.
LEMMA SomeAreFirst ==
  ASSUME TypeOK, OrderInv, NEW S \in SUBSET Eligible, S # {}, NEW n \in Nat \ {0}
  PROVE  First(Ranked, n, S) # {}
  <1> DEFINE R == RowPairs(Ranked)
  <1>1. IsFiniteSet(S) /\ StrictOrder(S, R)  BY EligibleWait, FS_Subset, BeforeOrders
  <1>2. PICK d \in S : Preds(S, R, d) = {}
    <2> HIDE DEF R
    <2> QED  BY <1>1, FirstExists
  <1>3. {e \in S : Before(Ranked, e, d)} = {}  BY <1>2 DEF Preds, RowPairs
  <1>4. Cardinality({}) = 0  BY FS_EmptySet
  <1> QED  BY <1>3, <1>4 DEF First

-----------------------------------------------------------------------------
(* No call is idle that could give something out.                          *)

\* With the lowest rank, who is not in a full workspace is kept from the page by
\* full workspaces only, which are fewer than the slots there are.
LEMMA PageHoldsOne ==
  ASSUME TypeOK, OrderInv, WithinLimits, Room > 0, EnumerationLimit >= GlobalLimit,
         NEW c \in Claimable
  PROVE  Open(Ranked, First(Ranked, EnumerationLimit, Rows(Ranked))) # {}
  <1> DEFINE S == Rows(Ranked)
             R == RowPairs(Ranked)
             heads == {d \in S : Ranked[d] = 1 /\ Occupied(Home[d]) < WorkspaceLimit}
  <1>1. /\ S \subseteq Eligible /\ Eligible \subseteq Demands /\ IsFiniteSet(S)
        /\ \A d \in Eligible : Ranked[d] \in Nat \ {0} /\ (Ranked[d] = 1 => d \in S)
    <2>1. \A d \in Eligible : Ranked[d] \in Nat \ {0}  BY RanksDiffer
    <2>2. S \subseteq Eligible /\ \A d \in Eligible : Ranked[d] = 1 => d \in S
      BY RanksDiffer DEF Rows
    <2> QED  BY <2>1, <2>2, EligibleWait, FS_Subset
  <1>2. heads # {} /\ heads \subseteq S /\ IsFiniteSet(heads)
    <2>1. c \in Eligible /\ Occupied(Home[c]) < WorkspaceLimit  BY DEF Claimable
    <2>2. PICK e \in Eligible : Home[e] = Home[c] /\ Ranked[e] = 1  BY <2>1, FirstOfWorkspace
    <2>3. e \in heads  BY <1>1, <2>1, <2>2
    <2>4. heads \subseteq S  OBVIOUS
    <2> QED  BY <1>1, <2>3, <2>4, FS_Subset
  <1>3. PICK d \in heads : Preds(heads, R, d) = {}
    <2>1. StrictOrder(heads, R)  BY <1>1, <1>2, BeforeOrders
    <2> HIDE DEF heads, R
    <2> QED  BY <1>2, <2>1, FirstExists
  <1>4. d \in S /\ d \in Eligible /\ Ranked[d] = 1 /\ Occupied(Home[d]) < WorkspaceLimit
    BY <1>1
  <1> DEFINE P == {e \in S : Before(Ranked, e, d)}
             f == [e \in P |-> CHOOSE h \in Held : Home[h] = Home[e]]
  <1>5. ASSUME NEW e \in P
        PROVE  Ranked[e] = 1 /\ Occupied(Home[e]) = WorkspaceLimit /\ e \in Eligible
    <2>1. e \in S /\ Before(Ranked, e, d) /\ e \in Eligible  BY <1>1
    <2>2. Ranked[e] \in Nat \ {0}  BY <1>1, <2>1
    <2>3. Ranked[e] = 1  BY <1>4, <2>1, <2>2 DEF Before
    <2>4. e \notin heads
      <3>1. <<e, d>> \in R  BY <1>4, <2>1 DEF RowPairs
      <3> QED  BY <1>3, <3>1 DEF Preds
    <2>5. ~ (Occupied(Home[e]) < WorkspaceLimit)  BY <2>1, <2>3, <2>4
    <2>6. Home[e] \in Workspaces /\ Occupied(Home[e]) \in Nat  BY <1>1, <2>1, HeldFinite
    <2>7. Occupied(Home[e]) <= WorkspaceLimit  BY <2>6 DEF WithinLimits
    <2> QED  BY <2>1, <2>3, <2>5, <2>6, <2>7
  <1>6. ASSUME NEW e \in P PROVE \E h \in Held : Home[h] = Home[e]
    <2>1. Occupied(Home[e]) = WorkspaceLimit  BY <1>5
    <2>2. {h \in Held : Home[h] = Home[e]} # {}
      <3>1. Cardinality({}) = 0  BY FS_EmptySet
      <3> QED  BY <2>1, <3>1 DEF Occupied
    <2> QED  BY <2>2
  <1>7. f \in Injection(P, Held)
    <2>1. \A e \in P : f[e] \in Held /\ Home[f[e]] = Home[e]
      <3> HIDE DEF P
      <3> QED  BY <1>6
    <2>2. \A e, g \in P : e # g => Home[e] # Home[g]  BY <1>5, RanksDiffer
    <2> HIDE DEF P
    <2>3. f \in [P -> Held]  BY <2>1
    <2> HIDE DEF f
    <2>4. \A e, g \in P : f[e] = f[g] => e = g  BY <2>1, <2>2
    <2> QED  BY <2>3, <2>4 DEF Injection, IsInjective
  <1>8. Cardinality(P) < EnumerationLimit
    <2>1. Cardinality(P) <= Cardinality(Held) /\ IsFiniteSet(P)
      <3> HIDE DEF P, f
      <3> QED  BY <1>7, HeldFinite, FS_Injection
    <2>2. Cardinality(P) \in Nat
      <3> HIDE DEF P
      <3> QED  BY <2>1, FS_CardinalityType
    <2>3. Cardinality(Held) < GlobalLimit  BY HeldFinite DEF Room
    <2> HIDE DEF P
    <2> QED  BY <2>1, <2>2, <2>3, HeldFinite
  <1>9. d \in First(Ranked, EnumerationLimit, S)  BY <1>4, <1>8 DEF First
  <1>10. Occupied(Home[d]) + Ranked[d] <= WorkspaceLimit
    <2>1. Occupied(Home[d]) \in Nat  BY HeldFinite
    <2> QED  BY <1>4, <2>1
  <1> QED  BY <1>9, <1>10 DEF Open

LEMMA IdleImpossible == IInv => NeverIdle
  <1> SUFFICES ASSUME TypeOK, OrderInv, WithinLimits, Room > 0, Claimable # {},
                      EnumerationLimit >= GlobalLimit
               PROVE  LET page == First(Ranked, EnumerationLimit, Rows(Ranked))
                      IN  First(Ranked, Room, Open(Ranked, page)) # {}
    BY DEF IInv, NeverIdle
  <1> DEFINE page == First(Ranked, EnumerationLimit, Rows(Ranked))
             open == Open(Ranked, page)
  <1>1. open # {}  BY PageHoldsOne
  <1>2. open \in SUBSET Eligible  BY RanksDiffer DEF Open, First, Rows
  <1>3. Room \in Nat \ {0}  BY HeldFinite DEF Room
  <1> HIDE DEF open
  <1>4. First(Ranked, Room, open) # {}  BY <1>1, <1>2, <1>3, SomeAreFirst
  <1> QED  BY <1>4 DEF open

\* Where the page is no smaller than the global limit, a call that finds room and a
\* demand whose workspace is not full gives out a slot, however the full workspaces
\* crowd the page.
THEOREM CallsAreNotIdle == Spec => []NeverIdle
  <1> QED  BY InitHolds, Inductive, IdleImpossible, PTL DEF Spec

-----------------------------------------------------------------------------
(* The rotation comes round to everyone.                                   *)

\* The workspaces that come before w in the rotation.
Nearer(w) == {v \in Workspaces : \/ Turn(v) < Turn(w)
                                 \/ Turn(v) = Turn(w) /\ v < w}

\* What went to others while w waited, and what may still go to others before it.
RotationInv == \A w \in Workspaces : passed[w] + Cardinality(Nearer(w)) < Cardinality(Workspaces)

LEMMA NearerAreFewer ==
  ASSUME NEW w \in Workspaces
  PROVE  /\ Nearer(w) \subseteq Workspaces \ {w} /\ IsFiniteSet(Nearer(w))
         /\ Cardinality(Nearer(w)) \in Nat
         /\ Cardinality(Nearer(w)) < Cardinality(Workspaces)
  <1>1. Turn(w) \in Nat /\ w \in Nat  BY DEF Turn
  <1>2. Nearer(w) \subseteq Workspaces \ {w}  BY <1>1 DEF Nearer
  <1>3. /\ IsFiniteSet(Nearer(w)) /\ Cardinality(Nearer(w)) <= Cardinality(Workspaces)
        /\ Cardinality(Nearer(w)) # Cardinality(Workspaces)
    BY <1>2, FS_Subset
  <1>4. Cardinality(Nearer(w)) \in Nat /\ Cardinality(Workspaces) \in Nat
    BY <1>3, FS_CardinalityType
  <1> QED  BY <1>2, <1>3, <1>4

\* While w waits, the slots given out are the first ones of other workspaces, which
\* come before it in the rotation.
LEMMA GrantsAreNearer ==
  ASSUME TypeOK, OrderInv, WithinLimits,
         NEW page, page = First(Ranked, EnumerationLimit, Rows(Ranked)),
         NEW open, open = Open(Ranked, page),
         NEW granted, granted = First(Ranked, Room, open),
         NEW c \in Claimable, \A d \in granted : Home[d] # Home[c]
  PROVE  /\ \A d \in granted : Ranked[d] = 1 /\ Home[d] \in Nearer(Home[c])
         /\ \A d, e \in granted : d # e => Home[d] # Home[e]
  <1>1. /\ Rows(Ranked) \in SUBSET Eligible /\ page \in SUBSET Rows(Ranked)
        /\ open \in SUBSET page /\ granted \in SUBSET open
    BY RanksDiffer DEF Rows, First, Open
  <1>2. c \in Eligible /\ Occupied(Home[c]) < WorkspaceLimit /\ Occupied(Home[c]) \in Nat
    BY HeldFinite DEF Claimable
  <1>3. PICK h \in Eligible : Home[h] = Home[c] /\ Ranked[h] = 1
    BY <1>2, FirstOfWorkspace
  <1>4. h \in Rows(Ranked) /\ h \notin granted
    <2>1. h \in Rows(Ranked)  BY <1>3, RanksDiffer DEF Rows
    <2> QED  BY <1>3, <2>1
  <1>5. Room \in Nat  BY HeldFinite DEF Room
  <1>6. ASSUME NEW d \in granted PROVE Before(Ranked, d, h)
    <2>1. CASE h \in page
      <3>1. h \in open  BY <1>2, <1>3, <2>1 DEF Open
      <3>2. open \in SUBSET Eligible  BY <1>1
      <3> QED  BY <1>4, <1>5, <3>1, <3>2, FirstComeFirst
    <2>2. CASE h \notin page
      <3>1. d \in page  BY <1>1
      <3> QED  BY <1>1, <1>4, <2>2, <3>1, FirstComeFirst
    <2> QED  BY <2>1, <2>2
  <1>7. ASSUME NEW d \in granted
        PROVE  d \in Eligible /\ Ranked[d] = 1 /\ Home[d] \in Nearer(Home[c])
    <2>1. d \in Eligible /\ Ranked[d] \in Nat \ {0}  BY <1>1, RanksDiffer
    <2>2. Ranked[d] = 1 /\ Ranked[h] = 1  BY <1>3, <1>6, <2>1 DEF Before
    <2>3. Home[d] \in Workspaces  BY <2>1, EligibleWait
    <2>4. \/ Turn(Home[d]) < Turn(Home[h])
          \/ Turn(Home[d]) = Turn(Home[h]) /\ Home[d] < Home[h]
      BY <1>6, <2>2 DEF Before
    <2> QED  BY <1>3, <2>1, <2>2, <2>3, <2>4 DEF Nearer
  <1>8. ASSUME NEW d \in granted, NEW e \in granted, d # e PROVE Home[d] # Home[e]
    <2>1. d \in Eligible /\ e \in Eligible /\ Ranked[d] = Ranked[e]  BY <1>7
    <2> QED  BY <1>8, <2>1, RanksDiffer
  <1> QED  BY <1>7, <1>8

\* When the rotation goes on to a workspace before w, what lies between is left.
LEMMA TurnGoesOn ==
  ASSUME last_workspace_id \in Nat, NEW w \in Workspaces, NEW l \in Nearer(w),
         last_workspace_id' = l, NEW H \in SUBSET Nearer(w),
         \A h \in H : \/ h = l \/ Turn(h) < Turn(l) \/ (Turn(h) = Turn(l) /\ h < l)
  PROVE  /\ Nearer(w)' \subseteq Nearer(w) /\ Nearer(w)' \cap H = {}
  <1>1. \A v \in Workspaces : v \in Nat  OBVIOUS
  <1>2. l \in Workspaces /\ H \subseteq Workspaces  BY DEF Nearer
  <1> DEFINE old == last_workspace_id
  <1>3. \A v \in Workspaces : v \in Nearer(w) <=>
          \/ v > old /\ ~ (w > old)
          \/ (v > old <=> w > old) /\ v < w
    BY <1>1 DEF Nearer, Turn
  <1>4. \A v \in Workspaces : v \in Nearer(w)' <=>
          \/ v > l /\ ~ (w > l)
          \/ (v > l <=> w > l) /\ v < w
    BY <1>1, <1>2 DEF Nearer, Turn
  <1>5. \A h \in H : \/ h = l
                     \/ h > old /\ ~ (l > old)
                     \/ (h > old <=> l > old) /\ h < l
    BY <1>1, <1>2 DEF Turn
  <1>6. old \in Nat  OBVIOUS
  <1>7. Nearer(w)' \subseteq Workspaces  BY DEF Nearer
  <1> HIDE DEF old
  <1>8. \/ l > old /\ ~ (w > old)
        \/ (l > old <=> w > old) /\ l < w
    BY <1>2, <1>3
  <1>9. ASSUME NEW v \in Nearer(w)' PROVE v \in Nearer(w) /\ v \notin H
    <2>1. v \in Workspaces /\ v \in Nat /\ l \in Nat /\ w \in Nat  BY <1>1, <1>2, <1>7
    <2>2. \/ v > l /\ ~ (w > l)
          \/ (v > l <=> w > l) /\ v < w
      BY <1>4, <2>1
    <2>3. v \in Nearer(w)  BY <1>3, <1>6, <1>8, <2>1, <2>2
    <2>4. v \notin H
      <3> SUFFICES ASSUME v \in H PROVE FALSE  OBVIOUS
      <3>1. \/ v = l
            \/ v > old /\ ~ (l > old)
            \/ (v > old <=> l > old) /\ v < l
        BY <1>5
      <3> QED  BY <1>6, <1>8, <2>1, <2>2, <3>1
    <2> QED  BY <2>3, <2>4
  <1> QED  BY <1>9

LEMMA InitRotation == Init => RotationInv
  <1> SUFFICES ASSUME Init, NEW w \in Workspaces
               PROVE  passed[w] + Cardinality(Nearer(w)) < Cardinality(Workspaces)
    BY DEF RotationInv
  <1>1. passed[w] = 0  BY DEF Init
  <1> QED  BY <1>1, NearerAreFewer

\* A claim pays for what it gives to others with the workspaces left before w.
LEMMA ClaimRotates ==
  ASSUME IInv, IInv', RotationInv, NEW p \in Planners, ClaimSlots(p)
  PROVE  RotationInv'
  <1> USE DEF IInv
  <1>1. PICK granted : \E page, open :
           /\ page = First(Ranked, EnumerationLimit, Rows(Ranked))
           /\ open = Open(Ranked, page) /\ granted = First(Ranked, Room, open)
           /\ IF granted = {} THEN UNCHANGED last_workspace_id
              ELSE \E last \in granted :
                      /\ \A d \in granted \ {last} : Before(Ranked, d, last)
                      /\ last_workspace_id' = Home[last]
           /\ passed' = [w \in Workspaces |->
                           IF /\ \E d \in Claimable : Home[d] = w
                              /\ \A d \in granted : Home[d] # w
                           THEN passed[w] + Cardinality(granted) ELSE 0]
    BY DEF ClaimSlots
  <1>2. PICK page, open :
           /\ page = First(Ranked, EnumerationLimit, Rows(Ranked))
           /\ open = Open(Ranked, page) /\ granted = First(Ranked, Room, open)
    BY <1>1
  <1>3. /\ \A w \in Workspaces : passed'[w] =
              IF (\E d \in Claimable : Home[d] = w) /\ (\A d \in granted : Home[d] # w)
              THEN passed[w] + Cardinality(granted) ELSE 0
        /\ granted = {} => last_workspace_id' = last_workspace_id
        /\ granted # {} => \E last \in granted :
              /\ \A d \in granted \ {last} : Before(Ranked, d, last)
              /\ last_workspace_id' = Home[last]
    BY <1>1
  <1> SUFFICES ASSUME NEW w \in Workspaces
               PROVE  passed'[w] + Cardinality(Nearer(w)') < Cardinality(Workspaces)
    BY DEF RotationInv
  <1>4. /\ passed[w] \in Nat /\ passed[w] + Cardinality(Nearer(w)) < Cardinality(Workspaces)
        /\ Cardinality(Nearer(w)) \in Nat /\ IsFiniteSet(Nearer(w))
        /\ Cardinality(Workspaces) \in Nat
    BY NearerAreFewer, FS_CardinalityType DEF RotationInv, TypeOK
  <1>5. /\ Cardinality(Nearer(w)') \in Nat /\ IsFiniteSet(Nearer(w)')
        /\ Cardinality(Nearer(w)') < Cardinality(Workspaces)
    <2>1. Nearer(w)' \subseteq Workspaces \ {w}
      <3>1. Turn(w)' \in Nat /\ w \in Nat  BY DEF Turn
      <3> QED  BY <3>1 DEF Nearer
    <2>2. /\ IsFiniteSet(Nearer(w)') /\ Cardinality(Nearer(w)') <= Cardinality(Workspaces)
          /\ Cardinality(Nearer(w)') # Cardinality(Workspaces)
      BY <2>1, FS_Subset
    <2> QED  BY <1>4, <2>2, FS_CardinalityType
  <1>6. CASE ~ ((\E d \in Claimable : Home[d] = w) /\ (\A d \in granted : Home[d] # w))
    <2>1. passed'[w] = 0  BY <1>3, <1>6
    <2> QED  BY <1>5, <2>1
  <1>7. CASE (\E d \in Claimable : Home[d] = w) /\ (\A d \in granted : Home[d] # w)
    <2>1. passed'[w] = passed[w] + Cardinality(granted)  BY <1>3, <1>7
    <2>2. PICK c \in Claimable : Home[c] = w  BY <1>7
    <2>3. /\ \A d \in granted : Ranked[d] = 1 /\ Home[d] \in Nearer(w)
          /\ \A d, e \in granted : d # e => Home[d] # Home[e]
      BY <1>2, <1>7, <2>2, GrantsAreNearer
    <2>4. granted \subseteq Demands /\ IsFiniteSet(granted) /\ Cardinality(granted) \in Nat
      <3>1. granted \subseteq Eligible  BY <1>2, RanksDiffer DEF First, Open, Rows
      <3> QED  BY <3>1, EligibleWait, FS_Subset, FS_CardinalityType
    <2>5. CASE granted = {}
      <3>1. Cardinality(granted) = 0  BY <2>5, FS_EmptySet
      <3>2. Nearer(w)' = Nearer(w)  BY <1>3, <2>5 DEF Nearer, Turn
      <3> QED  BY <1>4, <2>1, <3>1, <3>2
    <2>6. CASE granted # {}
      <3> DEFINE H == {Home[d] : d \in granted}
                 f == [d \in granted |-> Home[d]]
      <3>1. PICK last \in granted : /\ \A d \in granted \ {last} : Before(Ranked, d, last)
                                    /\ last_workspace_id' = Home[last]
        BY <1>3, <2>6
      <3>2. H \in SUBSET Nearer(w) /\ Home[last] \in Nearer(w)  BY <2>3
      <3>3. \A h \in H : \/ h = Home[last] \/ Turn(h) < Turn(Home[last])
                         \/ Turn(h) = Turn(Home[last]) /\ h < Home[last]
        BY <2>3, <3>1 DEF Before
      <3>4. last_workspace_id \in Nat  BY DEF TypeOK
      <3>5. Nearer(w)' \subseteq Nearer(w) /\ Nearer(w)' \cap H = {}
        <4> HIDE DEF H
        <4> QED  BY <3>1, <3>2, <3>3, <3>4, TurnGoesOn
      <3>6. f \in Injection(granted, H)
        <4>1. f \in [granted -> H]  OBVIOUS
        <4>2. \A d, e \in granted : f[d] = f[e] => d = e  BY <2>3
        <4> QED  BY <4>1, <4>2 DEF Injection, IsInjective
      <3> HIDE DEF H, f
      <3>7. IsFiniteSet(H) /\ Cardinality(H) \in Nat  BY <1>4, <3>2, FS_Subset, FS_CardinalityType
      <3>8. Cardinality(granted) <= Cardinality(H)  BY <3>6, <3>7, FS_Injection
      <3>9. Cardinality(Nearer(w)') + Cardinality(H) <= Cardinality(Nearer(w))
        <4>1. Nearer(w)' \cup H \subseteq Nearer(w)  BY <3>2, <3>5
        <4>2. Cardinality(Nearer(w)' \cup H) <= Cardinality(Nearer(w))
          BY <1>4, <4>1, FS_Subset
        <4>3. Cardinality(Nearer(w)' \cup H)
                = Cardinality(Nearer(w)') + Cardinality(H) - Cardinality(Nearer(w)' \cap H)
          BY <1>5, <3>7, FS_Union
        <4>4. Cardinality(Nearer(w)' \cap H) = 0  BY <3>5, FS_EmptySet
        <4> QED  BY <1>5, <3>7, <4>2, <4>3, <4>4
      <3> QED  BY <1>4, <1>5, <2>1, <2>4, <3>7, <3>8, <3>9
    <2> QED  BY <2>5, <2>6
  <1> QED  BY <1>6, <1>7

LEMMA StepRotation == IInv /\ IInv' /\ RotationInv /\ [Next]_vars => RotationInv'
  <1> SUFFICES ASSUME IInv, IInv', RotationInv, [Next]_vars PROVE RotationInv'  OBVIOUS
  <1>1. CASE \E p \in Planners : ClaimSlots(p)  BY <1>1, ClaimRotates
  <1>2. CASE UNCHANGED <<passed, last_workspace_id>>
    <2>1. \A w \in Workspaces : Nearer(w)' = Nearer(w)  BY <1>2 DEF Nearer, Turn
    <2> QED  BY <1>2, <2>1 DEF RotationInv
  <1> QED
    BY <1>1, <1>2
    DEF Next, vars, ReconcileOnly, PlannerWorks, BindExecutionSlot, PlanIsStale, PlanningFails,
        PlannerCrashes, RunEnds, NoteChange, NewWork, NotBeforePasses, LeaseLapses, RenewalIsLate

\* Whatever the limits, the pages, the planners and the order of the workspaces: a
\* workspace that could be given a slot sees every other workspace served at most
\* once before it is served itself.
THEOREM RotationComesRound == Spec => []BoundedBypass
  <1>1. RotationInv /\ IInv => BoundedBypass
    <2> SUFFICES ASSUME RotationInv, IInv, NEW w \in Workspaces
                 PROVE  passed[w] < Cardinality(Workspaces)
      BY DEF BoundedBypass
    <2>1. /\ passed[w] \in Nat /\ Cardinality(Nearer(w)) \in Nat
          /\ Cardinality(Workspaces) \in Nat
          /\ passed[w] + Cardinality(Nearer(w)) < Cardinality(Workspaces)
      BY NearerAreFewer, FS_CardinalityType DEF RotationInv, IInv, TypeOK
    <2> QED  BY <2>1
  <1> QED  BY InitHolds, Inductive, InitRotation, StepRotation, <1>1, PTL DEF Spec

\* The shared capacity is not exceeded and a call that could use it does, for every
\* number of planners, demands and workspaces.
THEOREM CapacityUsed == Spec => []CapacityIsSharedOut
  BY CapacityHolds, CallsAreNotIdle, PTL DEF CapacityIsSharedOut
=============================================================================
