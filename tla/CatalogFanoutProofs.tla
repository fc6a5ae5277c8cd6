------------------------ MODULE CatalogFanoutProofs ------------------------
(***************************************************************************)
(* CatalogFanout: the stored availability is current, the pairs are        *)
(* complete, and no demand that the fan-out reaches is missed, for any     *)
(* files, scopes, demands and page size.  And PublicSymbols, the other way *)
(* for symbols to come in: its jobs do not overlap, and a verdict stands,  *)
(* for any jobs, workers, modules and deliveries.                          *)
(***************************************************************************)
EXTENDS CatalogFanout, PublicSymbols, FiniteSetTheorems, FunctionTheorems,
        SequenceTheorems, NaturalsInduction, WellFoundedInduction, TLAPS

-----------------------------------------------------------------------------
(* The inductive invariant                                                 *)

Row(d) == [inspected : BOOLEAN, index_revision : Nat, sequence : Nat, planned : Nat,
           target : Target(d) \cup {Nothing}]
Plan(d) == [sequence : Nat, revision : Nat, target : Target(d)]
RowsTyped == /\ DOMAIN demand = Demands /\ DOMAIN plan = Demands
             /\ demand = [d \in Demands |-> demand[d]] /\ plan = [d \in Demands |-> plan[d]]
             /\ \A d \in Demands :
                   /\ demand[d] \in Row(d)
                   /\ plan[d] \in Plan(d) \cup {Nothing}
RolesTyped == \A ws \in Workspaces : role_cursor[ws].revision <= Len(declared[ws])

\* Every pair of files that some scope sees is there, whatever a review says of it.
MeetingIsPairing == \A p \in Pairs : Meet(p[1], p[2]) => pair[p].state # "absent"

Fits(d, target) == \A m \in Modules[d] :
                      target.resolution[m] \in {Resolve(m, Home[d]), Indeterminate}
\* A plan that was made at the newest revision is what would be made now.
PlansFollow == \A d \in Demands : plan[d] # Nothing =>
                  /\ plan[d].revision <= Len(changes)
                  /\ plan[d].revision = Len(changes) => Fits(d, plan[d].target)

\* Event i is still to be fanned out to demand d by a cursor.
Ahead(at, d, i) ==
    \/ i > at.revision
    \/ i = at.revision /\ at.after # 0 /\ d > at.after
Coming(d) == \E i \in 1..Len(changes) : Ahead(cursor, d, i) /\ Touches(d, i)
RoleComing(d) == \E i \in 1..Len(declared[Home[d]]) :
                    Ahead(role_cursor[Home[d]], d, i) /\ TouchesRole(d, Home[d], i)
Settled(d) == demand[d].inspected /\ demand[d].sequence = demand[d].planned
\* A settled demand is current, or an event that is about it is still to come.
Chased == \A d \in Reached : Settled(d) => IsCurrent(d) \/ Coming(d) \/ RoleComing(d)

IInv == /\ TypeOK /\ RowsTyped /\ RolesTyped
        /\ MeetingIsPairing /\ AvailabilityIsCurrent /\ PlansFollow /\ Chased

-----------------------------------------------------------------------------
(* Least and greatest numbers, pages, and sequences of sets                *)

LEMMA LeastNumber ==
  ASSUME NEW S \in SUBSET Nat, S # {}
  PROVE  \E m \in S : \A n \in S : m <= n
  <1> DEFINE R == OpToRel(<, Nat)
  <1>1. \A x, y \in Nat : <<x, y>> \in R <=> x < y  BY DEF OpToRel
  <1>2. IsWellFoundedOn(R, Nat)  BY NatLessThanWellFounded
  <1> HIDE DEF R
  <1>3. PICK m \in S : \A n \in S : ~(<<n, m>> \in R)  BY <1>2, WFMin
  <1>4. \A n \in S : ~(n < m)  BY <1>1, <1>3
  <1> QED  BY <1>4

\* Where fewest elements are greater, none is.
LEMMA GreatestNumber ==
  ASSUME NEW S \in SUBSET Nat, IsFiniteSet(S), S # {}
  PROVE  \E m \in S : \A n \in S : m >= n
  <1> DEFINE Above(x) == {n \in S : n > x}
             sizes == {Cardinality(Above(x)) : x \in S}
  <1>1. \A x \in S : IsFiniteSet(Above(x)) /\ Cardinality(Above(x)) \in Nat
    BY FS_Subset, FS_CardinalityType
  <1>2. sizes \in SUBSET Nat /\ sizes # {}  BY <1>1
  <1>3. PICK m \in S : \A n \in S : Cardinality(Above(m)) <= Cardinality(Above(n))
    <2> HIDE DEF sizes
    <2>1. PICK k \in sizes : \A l \in sizes : k <= l  BY <1>2, LeastNumber
    <2> QED  BY <2>1 DEF sizes
  <1>4. ASSUME NEW n \in S, ~(m >= n) PROVE FALSE
    <2>0. m < n /\ \A x \in S : x \in Nat  BY <1>4
    <2>1. Above(n) \in SUBSET Above(m) /\ n \in Above(m) /\ n \notin Above(n)
      <3>1. \A x \in S : x > n => x > m  BY <2>0
      <3>2. ~(n > n) /\ n > m  BY <2>0
      <3> QED  BY <3>1, <3>2
    <2>2. Cardinality(Above(n)) <= Cardinality(Above(m))  BY <1>1, <2>1, FS_Subset
    <2>3. Cardinality(Above(n)) # Cardinality(Above(m))  BY <1>1, <2>1, FS_Subset
    <2> HIDE DEF Above
    <2> QED  BY <1>1, <1>3, <2>2, <2>3
  <1> QED  BY <1>4

LEMMA LastOfPage ==
  ASSUME NEW rows \in SUBSET Demands, rows # {}
  PROVE  Max(Page(rows)) \in Page(rows)
  <1> DEFINE Below(x) == {e \in rows : e < x}
  <1>1. rows \in SUBSET Nat /\ IsFiniteSet(rows) /\ \A x \in rows : x \in Nat
    BY CatalogAssumption, FS_Subset DEF CatalogAssumption
  <1>2. PageSize \in Nat /\ PageSize > 0  BY CatalogAssumption DEF CatalogAssumption
  <1>3. Page(rows) # {}
    <2>1. PICK m \in rows : \A n \in rows : m <= n  BY <1>1, LeastNumber
    <2>2. Below(m) = {}
      <3>1. \A x \in rows : ~(x < m)  BY <1>1, <2>1
      <3> QED  BY <3>1
    <2>3. Cardinality(Below(m)) < PageSize  BY <1>2, <2>2, FS_EmptySet
    <2> QED  BY <2>3 DEF Page
  <1>4. Page(rows) \in SUBSET rows  BY DEF Page
  <1>5. Page(rows) \in SUBSET Nat /\ IsFiniteSet(Page(rows))  BY <1>1, <1>4, FS_Subset
  <1>6. \E m \in Page(rows) : \A n \in Page(rows) : m >= n  BY <1>3, <1>5, GreatestNumber
  <1> QED  BY <1>6 DEF Max

\* What a page leaves out comes after its last demand, and then it is cut.
LEMMA PageIsCut ==
  ASSUME NEW rows \in SUBSET Demands, NEW d \in rows, d \notin Page(rows)
  PROVE  /\ Cardinality(rows) > PageSize
         /\ Max(Page(rows)) \in Demands /\ d > Max(Page(rows))
  <1> DEFINE Below(x) == {e \in rows : e < x}
  <1>1. rows \in SUBSET Nat /\ IsFiniteSet(rows) /\ \A x \in rows : x \in Nat
    BY CatalogAssumption, FS_Subset DEF CatalogAssumption
  <1>2. \A x \in rows : IsFiniteSet(Below(x)) /\ Cardinality(Below(x)) \in Nat
    BY <1>1, FS_Subset, FS_CardinalityType
  <1>3. PageSize \in Nat /\ PageSize > 0  BY CatalogAssumption DEF CatalogAssumption
  <1>4. Cardinality(Below(d)) >= PageSize  BY <1>2, <1>3 DEF Page
  <1>5. Cardinality(rows) > PageSize
    <2>1. Below(d) \subseteq rows /\ d \in rows /\ d \notin Below(d)  BY <1>1
    <2>2. Cardinality(rows) \in Nat  BY <1>1, FS_CardinalityType
    <2>3. Cardinality(Below(d)) <= Cardinality(rows)  BY <1>1, FS_Subset
    <2>4. Cardinality(Below(d)) # Cardinality(rows)  BY <1>1, <2>1, FS_Subset
    <2> HIDE DEF Below
    <2> QED  BY <1>2, <1>3, <1>4, <2>2, <2>3, <2>4
  <1>6. ASSUME NEW x \in Page(rows) PROVE x < d
    <2>1. x \in rows /\ Cardinality(Below(x)) < PageSize  BY <1>6 DEF Page
    <2>2. CASE x >= d
      <3>0. \A y \in rows : y < d => y < x  BY <1>1, <2>1, <2>2
      <3>1. Below(d) \in SUBSET Below(x)  BY <3>0
      <3>2. Cardinality(Below(d)) <= Cardinality(Below(x))  BY <1>2, <2>1, <3>1, FS_Subset
      <3> HIDE DEF Below
      <3> QED  BY <1>2, <1>3, <1>4, <2>1, <3>2
    <2> QED  BY <1>1, <2>1, <2>2
  <1>7. Max(Page(rows)) \in Page(rows)  BY LastOfPage
  <1> QED  BY <1>1, <1>5, <1>6, <1>7 DEF Page

\* An event that a cursor has ahead of it for a demand is either noted or stays ahead.
LEMMA Advances ==
  ASSUME NEW at \in Cursor, NEW rows \in SUBSET Demands, NEW d \in Demands, NEW i \in Nat,
         Ahead(at, d, i), i = EventOf(at) => d \in rows, d \notin Page(rows)
  PROVE  Ahead(Advance(at, rows), d, i)
  <1>1. at.revision \in Nat /\ at.after \in Nat /\ d \in Nat /\ d # 0
    BY CatalogAssumption DEF CatalogAssumption, Cursor
  <1>2. CASE i = EventOf(at)
    <2>1. /\ Cardinality(rows) > PageSize
          /\ Max(Page(rows)) \in Demands /\ d > Max(Page(rows))
      BY <1>2, PageIsCut
    <2>2. Max(Page(rows)) # 0  BY <2>1, CatalogAssumption DEF CatalogAssumption
    <2> QED  BY <1>2, <2>1, <2>2 DEF Advance, Ahead
  <1>3. CASE i # EventOf(at)
    <2>1. i > EventOf(at)  BY <1>1, <1>3 DEF Ahead, EventOf
    <2> QED  BY <2>1 DEF Advance, Ahead
  <1> QED  BY <1>2, <1>3

\* SetToSeq lists each element.
LEMMA Listed ==
  ASSUME NEW T, NEW S \in SUBSET T, IsFiniteSet(S)
  PROVE  /\ SetToSeq(S) \in Seq(T)
         /\ \A x \in S : \E i \in 1..Len(SetToSeq(S)) : SetToSeq(S)[i] = x
  <1> DEFINE n == Cardinality(S)
             s == SetToSeq(S)
  <1>1. n \in Nat /\ ExistsBijection(1..n, S)  BY FS_CardinalityType
  <1>2. \E f \in [1..n -> S] : IsInjective(f)
    BY <1>1 DEF ExistsBijection, Bijection, Injection
  <1>3. s \in [1..n -> S] /\ IsInjective(s)  BY <1>2 DEF SetToSeq
  <1>4. s \in Injection(1..n, S)  BY <1>3 DEF Injection
  <1>5. Cardinality(1..n) = n  BY <1>1, FS_Interval
  <1>6. s \in Surjection(1..n, S)
    <2> HIDE DEF s
    <2> QED  BY <1>4, <1>5, FS_Injection
  <1>7. s \in Seq(T) /\ Len(s) = n
    <2> HIDE DEF s, n
    <2> QED  BY <1>1, <1>3
  <1>8. \A x \in S : \E i \in 1..n : s[i] = x
    <2> HIDE DEF s
    <2> QED  BY <1>6 DEF Surjection
  <1> QED  BY <1>7, <1>8

-----------------------------------------------------------------------------
(* Pairs and what is seen of them                                          *)

LEMMA PairFiles ==
  ASSUME NEW p \in Pairs
  PROVE  /\ p[1] \in Files /\ p[2] \in Files /\ p[1] # p[2] /\ p = <<p[1], p[2]>>
         /\ Kind[p[1]] = "pe" /\ Kind[p[2]] = "pdb"
         /\ CodeOf(p) = Code[p[1]] /\ CodeOf(p) # Nothing /\ Code[p[2]] = Nothing
         /\ DebugOf(p) = Debug[p[1]] /\ DebugOf(p) = Debug[p[2]] /\ DebugOf(p) # Nothing
  BY CatalogAssumption DEF CatalogAssumption, Pairs, Pes, Pdbs, CodeOf, DebugOf

LEMMA PairsAreFinite == IsFiniteSet(Pairs)
  <1>1. IsFiniteSet(Files \X Files)
    BY CatalogAssumption, FS_Product DEF CatalogAssumption
  <1>2. Pairs \in SUBSET (Files \X Files)  BY DEF Pairs, Pes, Pdbs
  <1> QED  BY <1>1, <1>2, FS_Subset

\* What one workspace sees, some scope holds.
LEMMA VisibleMeets ==
  ASSUME NEW p, NEW ws, PairVisible(p, ws)
  PROVE  Meet(p[1], p[2])
  BY DEF PairVisible, FileVisible, Meet

\* A binding makes a pair visible only to its own scope, and to all if it is public.
LEMMA NewlyVisible ==
  ASSUME NEW f \in Files, NEW s \in Scopes, bound' = bound \cup {<<f, s>>},
         NEW p \in Pairs, NEW ws \in Scopes, PairVisible(p, ws)', ~ PairVisible(p, ws)
  PROVE  f \in {p[1], p[2]} /\ <<f, s>> \notin bound /\ s \in {Public, ws}
  <1>1. \A g \in {p[1], p[2]} :
           FileVisible(g, ws)' /\ ~ FileVisible(g, ws)
             => g = f /\ <<f, s>> \notin bound /\ s \in {Public, ws}
    BY DEF FileVisible, ScopesOf
  <1> QED  BY <1>1 DEF PairVisible

LEMMA StillVisible ==
  ASSUME bound \subseteq bound'
  PROVE  /\ \A g, ws : FileVisible(g, ws) => FileVisible(g, ws)'
         /\ \A p, ws : PairVisible(p, ws) => PairVisible(p, ws)'
         /\ \A g, h : Meet(g, h) => Meet(g, h)'
  <1>1. \A g : ScopesOf(g) \subseteq ScopesOf(g)'  BY DEF ScopesOf
  <1>2. \A g, ws : FileVisible(g, ws) => FileVisible(g, ws)'  BY <1>1 DEF FileVisible
  <1>3. \A g, h : Meet(g, h) => Meet(g, h)'  BY <1>1 DEF Meet
  <1> QED  BY <1>2, <1>3 DEF PairVisible

\* A pair looks to a workspace as it did, as far as planning can tell.
Shown(p, ws) == pair[p].state # "absent" /\ PairVisible(p, ws)
LooksSame(p, ws) == /\ Shown(p, ws)' <=> Shown(p, ws)
                    /\ Shown(p, ws) => /\ Usable(p)' <=> Usable(p)
                                       /\ (pair[p].state = "active")' <=> pair[p].state = "active"

LEMMA ResolveSame ==
  ASSUME NEW m, NEW ws,
         \A p \in Pairs : Concerns(CodeOf(p), DebugOf(p), m) => LooksSame(p, ws)
  PROVE  Resolve(m, ws)' = Resolve(m, ws)
  <1> DEFINE found == {p \in Pairs : /\ pair[p].state # "absent" /\ PairVisible(p, ws)
                                     /\ Concerns(CodeOf(p), DebugOf(p), m)}
             active == {p \in found : Usable(p)}
             gone == found \ active
  <1>1. found' = found  BY DEF LooksSame, Shown, Concerns, Agree, CodeOf, DebugOf
  <1>2. \A p \in found : /\ Usable(p)' <=> Usable(p)
                         /\ (pair[p].state = "active")' <=> pair[p].state = "active"
    BY DEF LooksSame, Shown
  <1>3. active' = active
    <2> HIDE DEF found
    <2> QED  BY <1>1, <1>2
  <1>4. gone' = gone  BY <1>1, <1>3
  <1>5. (\E p \in gone : pair[p].state = "active")' <=> (\E p \in gone : pair[p].state = "active")
    <2>1. \A p \in gone : p \in found  OBVIOUS
    <2> HIDE DEF gone, found
    <2> QED  BY <1>2, <1>4, <2>1
  <1> HIDE DEF gone, active, found
  <1>6. Resolve(m, ws) =
          IF Incomplete(m) THEN Indeterminate ELSE
          [active |-> active, unavailable |-> gone,
           state |-> IF Cardinality(active) > 1 THEN "conflict"
                     ELSE IF active # {} THEN "unique"
                     ELSE IF gone # {} THEN "unavailable" ELSE "none",
           reason |-> IF active # {} \/ gone = {} THEN "none"
                      ELSE IF \E p \in gone : pair[p].state = "active"
                           THEN "location_unavailable" ELSE "withdrawn"]
    BY DEF Resolve, found, active, gone
  <1>7. Resolve(m, ws)' =
          IF Incomplete(m) THEN Indeterminate ELSE
          [active |-> active', unavailable |-> gone',
           state |-> IF Cardinality(active') > 1 THEN "conflict"
                     ELSE IF active' # {} THEN "unique"
                     ELSE IF gone' # {} THEN "unavailable" ELSE "none",
           reason |-> IF active' # {} \/ gone' = {} THEN "none"
                      ELSE IF (\E p \in gone : pair[p].state = "active")'
                           THEN "location_unavailable" ELSE "withdrawn"]
    BY DEF Resolve, found, active, gone, Incomplete, Indeterminate
  <1> QED  BY <1>3, <1>4, <1>5, <1>6, <1>7

LEMMA RoleSame ==
  ASSUME NEW m, NEW ws, Declared(ws, m)' = Declared(ws, m),
         \A f \in Files, s \in {ws, Public} :
            Matches(f, m) /\ s \in Scopes => ((<<f, s>> \in bound') <=> <<f, s>> \in bound)
  PROVE  Role(m, ws)' = Role(m, ws)
  <1> DEFINE scopes == UNION {ScopesOf(f) : f \in {g \in Files : Matches(g, m)}}
  <1>1. \A s \in {ws, Public} : (s \in scopes') <=> s \in scopes
    <2>1. \A s : s \in scopes <=> \E f \in Files : Matches(f, m) /\ s \in Scopes /\ <<f, s>> \in bound
      <3>1. \A s : s \in scopes <=> \E f \in {g \in Files : Matches(g, m)} : s \in ScopesOf(f)
        OBVIOUS
      <3> HIDE DEF scopes
      <3>2. \A s, f : s \in ScopesOf(f) <=> s \in Scopes /\ <<f, s>> \in bound  BY DEF ScopesOf
      <3> QED  BY <3>1, <3>2
    <2>2. scopes' = UNION {ScopesOf(f)' : f \in {g \in Files : Matches(g, m)}}
      BY DEF Matches
    <2>3. \A s : (s \in scopes')
                  <=> \E f \in Files : Matches(f, m) /\ s \in Scopes /\ <<f, s>> \in bound'
      BY <2>2 DEF ScopesOf
    <2> HIDE DEF scopes
    <2> QED  BY <2>1, <2>3
  <1>2. /\ Role(m, ws) = IF Declared(ws, m) # Nothing THEN Declared(ws, m)
                         ELSE IF ws \in scopes THEN "owned"
                         ELSE IF Public \in scopes THEN "dependency" ELSE "unknown"
        /\ Role(m, ws)' = IF Declared(ws, m)' # Nothing THEN Declared(ws, m)'
                          ELSE IF ws \in scopes' THEN "owned"
                          ELSE IF Public \in scopes' THEN "dependency" ELSE "unknown"
    BY DEF Role
  <1> HIDE DEF scopes
  <1> QED  BY <1>1, <1>2

-----------------------------------------------------------------------------
(* The log                                                                 *)

LogGrows == /\ changes' \in Seq(Change) /\ Len(changes) <= Len(changes')
            /\ \A i \in 1..Len(changes) : changes'[i] = changes[i]
\* Row e is new in the log.
Logged(e) == \E i \in 1..Len(changes') : i > Len(changes) /\ changes'[i] = e

LEMMA Appended ==
  ASSUME changes \in Seq(Change), NEW s \in Seq(Change), changes' = changes \o s
  PROVE  /\ LogGrows
         /\ \A i \in 1..Len(s) : Logged(s[i])
  <1>1. /\ changes \o s \in Seq(Change) /\ Len(changes \o s) = Len(changes) + Len(s)
        /\ \A i \in 1..(Len(changes) + Len(s)) :
              (changes \o s)[i] = IF i <= Len(changes) THEN changes[i] ELSE s[i - Len(changes)]
    BY ConcatProperties
  <1>2. Len(changes) \in Nat /\ Len(s) \in Nat  BY LenProperties
  <1>3. LogGrows  BY <1>1, <1>2 DEF LogGrows
  <1>4. ASSUME NEW i \in 1..Len(s) PROVE Logged(s[i])
    <2> DEFINE j == Len(changes) + i
    <2>1. j \in 1..(Len(changes) + Len(s)) /\ j > Len(changes) /\ j - Len(changes) = i
      BY <1>2
    <2> HIDE DEF j
    <2>2. changes'[j] = s[i]  BY <1>1, <1>2, <2>1
    <2> QED  BY <1>1, <2>1, <2>2 DEF Logged
  <1> QED  BY <1>3, <1>4

LEMMA ChangesTyped ==
  /\ \A p \in Pairs, ws \in Scopes, a \in BOOLEAN : PairChange(p, a, ws) \in Change
  /\ \A f \in Files, ws \in Scopes : FileChange(f, ws) \in Change
  <1>1. \A f \in Files : Code[f] \in Ids /\ Debug[f] \in Ids  BY DEF Ids
  <1>2. ASSUME NEW p \in Pairs, NEW ws \in Scopes, NEW a \in BOOLEAN
        PROVE  PairChange(p, a, ws) \in Change
    <2>1. CodeOf(p) \in Ids /\ DebugOf(p) \in Ids  BY <1>1, PairFiles
    <2> QED  BY <2>1 DEF PairChange, Change
  <1>3. ASSUME NEW f \in Files, NEW ws \in Scopes PROVE FileChange(f, ws) \in Change
    BY <1>1 DEF FileChange, Change
  <1> QED  BY <1>2, <1>3

\* A settled demand is on the list of a new change that bears on one of its modules.
LEMMA Told ==
  ASSUME changes \in Seq(Change), LogGrows, NEW e, Logged(e),
         cursor.revision \in Nat, cursor.revision <= Len(changes), cursor' = cursor,
         NEW d \in Demands, demand' = demand, demand[d].inspected,
         demand[d].index_revision \in Nat, demand[d].index_revision <= Len(changes),
         e.affects, e.workspace \in {Public, Home[d]},
         NEW m \in Modules[d], Concerns(e.code, e.debug, m),
         IF e.file # Nothing THEN FileVisible(e.file, Home[d])'
                             ELSE PairVisible(e.pair, Home[d])'
  PROVE  Coming(d)'
  <1>1. PICK i \in 1..Len(changes') : i > Len(changes) /\ changes'[i] = e  BY DEF Logged
  <1>2. Len(changes) \in Nat /\ Len(changes') \in Nat  BY LenProperties DEF LogGrows
  <1>3. Ahead(cursor, d, i)'  BY <1>1, <1>2 DEF Ahead
  <1>4. (demand[d].index_revision < i)'  BY <1>1, <1>2
  <1>5. Touches(d, i)'
    BY <1>1, <1>4 DEF Touches, Concerns, Agree, FileVisible, PairVisible, ScopesOf
  <1> QED  BY <1>1, <1>3, <1>5 DEF Coming

LEMMA ImageIsFinite ==
  ASSUME NEW X, IsFiniteSet(X), NEW F, DOMAIN F = X
  PROVE  IsFiniteSet({F[x] : x \in X})
  <1> DEFINE Y == {F[x] : x \in X}
             G == [x \in X |-> F[x]]
  <1>1. G \in [X -> Y] /\ \A y \in Y : \E x \in X : G[x] = y  OBVIOUS
  <1>2. G \in Surjection(X, Y)  BY <1>1 DEF Surjection
  <1> HIDE DEF G, Y
  <1>3. IsFiniteSet(Y)  BY <1>2, FS_Surjection
  <1> QED  BY <1>3 DEF Y

\* One log after another, and that the entries of one are among those of another: what
\* the lemmas below say is all that matters of them.
Joined(s, t) == s \o t
IsWithin(s, t) == \A i \in 1..Len(s) : \E j \in 1..Len(t) : t[j] = s[i]

\* What is joined has the entries of both.
LEMMA Within ==
  ASSUME NEW T, NEW s \in Seq(T), NEW t \in Seq(T)
  PROVE  Joined(s, t) \in Seq(T) /\ IsWithin(s, Joined(s, t)) /\ IsWithin(t, Joined(s, t))
  <1>1. /\ s \o t \in Seq(T) /\ Len(s \o t) = Len(s) + Len(t)
        /\ \A i \in 1..(Len(s) + Len(t)) :
              (s \o t)[i] = IF i <= Len(s) THEN s[i] ELSE t[i - Len(s)]
    BY ConcatProperties
  <1>2. Len(s) \in Nat /\ Len(t) \in Nat  BY LenProperties
  <1>3. ASSUME NEW i \in 1..Len(s)
        PROVE  \E j \in 1..Len(s \o t) : (s \o t)[j] = s[i]
    <2>1. i \in 1..(Len(s) + Len(t)) /\ i <= Len(s)  BY <1>2
    <2> QED  BY <1>1, <2>1
  <1>4. ASSUME NEW i \in 1..Len(t)
        PROVE  \E j \in 1..Len(s \o t) : (s \o t)[j] = t[i]
    <2> DEFINE j == Len(s) + i
    <2>1. j \in 1..(Len(s) + Len(t)) /\ ~ (j <= Len(s)) /\ j - Len(s) = i  BY <1>2
    <2> HIDE DEF j
    <2>2. (s \o t)[j] = t[i]  BY <1>1, <2>1
    <2> QED  BY <1>1, <2>1, <2>2
  <1> QED  BY <1>1, <1>3, <1>4 DEF Joined, IsWithin

\* It makes no difference what is joined first.
LEMMA JoinedOnce ==
  ASSUME NEW T, NEW s \in Seq(T), NEW t \in Seq(T), NEW u \in Seq(T)
  PROVE  Joined(Joined(s, t), u) = Joined(s, Joined(t, u))
  BY ConcatAssociative, SMTT(60) DEF Joined

-----------------------------------------------------------------------------
(* What the actions write                                                  *)

PairIsNew(p, f) == pair[p].state = "absent" /\ f \in {p[1], p[2]} /\ Meet(p[1], p[2])'

LEMMA AcceptFacts ==
  ASSUME TypeOK, NEW f \in Files, NEW s \in Scopes, AcceptFile(f, s)
  PROVE  /\ LogGrows
         /\ f \in lost => \A p \in PairsOf(f) :
                             Logged(PairChange(p, Usable(p) # Usable(p)', Public))
         /\ <<f, s>> \notin bound => Logged(FileChange(f, s))
         /\ \A p \in Pairs : PairIsNew(p, f) => Logged(PairChange(p, TRUE, s))
         /\ pair' = [p \in Pairs |-> IF PairIsNew(p, f) THEN [state |-> "active", version |-> 1]
                                     ELSE pair[p]]
  <1> DEFINE again == IF f \in lost THEN PairsOf(f) ELSE {}
             new == {p \in Pairs : PairIsNew(p, f)}
             F1 == [p \in again |-> PairChange(p, Usable(p) # Usable(p)', Public)]
             F3 == [p \in new |-> PairChange(p, TRUE, s)]
             S1 == {F1[p] : p \in again}
             S3 == {F3[p] : p \in new}
             s1 == SetToSeq(S1)
             s2 == IF <<f, s>> \in bound THEN <<>> ELSE <<FileChange(f, s)>>
             s3 == SetToSeq(S3)
  <1>1. Public \in Scopes  BY DEF Scopes
  <1>2. again \in SUBSET Pairs /\ new \in SUBSET Pairs  BY DEF PairsOf
  <1>3. IsFiniteSet(again) /\ IsFiniteSet(new)  BY <1>2, PairsAreFinite, FS_Subset
  <1>4. /\ S1 = {PairChange(p, Usable(p) # Usable(p)', Public) : p \in again}
        /\ S3 = {PairChange(p, TRUE, s) : p \in new}
    OBVIOUS
  <1>5. changes' = changes \o s1 \o s2 \o s3
    <2>1. new = {p \in Pairs : /\ f \in {p[1], p[2]} /\ pair[p].state = "absent"
                               /\ Meet(p[1], p[2])'}
      BY DEF PairIsNew
    <2> HIDE DEF S1, S3, new
    <2> QED  BY <1>4, <2>1 DEF AcceptFile
  <1>6. S1 \in SUBSET Change /\ S3 \in SUBSET Change
    <2>1. \A p \in Pairs : (Usable(p) # Usable(p)') \in BOOLEAN  OBVIOUS
    <2>2. \A p \in Pairs : /\ PairChange(p, Usable(p) # Usable(p)', Public) \in Change
                           /\ PairChange(p, TRUE, s) \in Change
      BY <1>1, <2>1, ChangesTyped
    <2> HIDE DEF S1, S3, again, new
    <2> QED  BY <1>2, <1>4, <2>2
  <1>7. IsFiniteSet(S1) /\ IsFiniteSet(S3)
    <2>1. DOMAIN F1 = again /\ DOMAIN F3 = new  OBVIOUS
    <2> HIDE DEF F1, F3, again, new
    <2> QED  BY <1>3, <2>1, ImageIsFinite
  <1>8. /\ s1 \in Seq(Change) /\ \A x \in S1 : \E i \in 1..Len(s1) : s1[i] = x
        /\ s3 \in Seq(Change) /\ \A x \in S3 : \E i \in 1..Len(s3) : s3[i] = x
    <2> HIDE DEF S1, S3
    <2> QED  BY <1>6, <1>7, Listed
  <1>9. s2 \in Seq(Change) /\ (<<f, s>> \notin bound => \E i \in 1..Len(s2) : s2[i] = FileChange(f, s))
    <2>1. FileChange(f, s) \in Change  BY ChangesTyped
    <2>2. CASE <<f, s>> \in bound  BY <2>2
    <2>3. CASE <<f, s>> \notin bound
      <3>1. s2 = <<FileChange(f, s)>>  BY <2>3
      <3> HIDE DEF s2
      <3>2. s2 \in Seq(Change) /\ Len(s2) = 1 /\ s2[1] = FileChange(f, s)  BY <2>1, <3>1
      <3> QED  BY <3>2
    <2> QED  BY <2>2, <2>3
  <1> DEFINE t == Joined(s1, s2)
             u == Joined(t, s3)
  <1>10. changes \in Seq(Change)  BY DEF TypeOK
  <1>11. t \in Seq(Change) /\ IsWithin(s1, t) /\ IsWithin(s2, t)
    <2>1. s1 \in Seq(Change) /\ s2 \in Seq(Change)  BY <1>8, <1>9
    <2> HIDE DEF s1, s2
    <2> QED  BY <2>1, Within
  <1>12. u \in Seq(Change) /\ IsWithin(t, u) /\ IsWithin(s3, u)
    <2>1. t \in Seq(Change) /\ s3 \in Seq(Change)  BY <1>8, <1>11
    <2> HIDE DEF t, s3
    <2> QED  BY <2>1, Within
  <1>13. changes' = changes \o u
    <2>1. changes' = Joined(Joined(Joined(changes, s1), s2), s3)  BY <1>5 DEF Joined
    <2> HIDE DEF s1, s2, s3
    <2>2. Joined(Joined(changes, s1), s2) = Joined(changes, t)  BY <1>8, <1>9, <1>10, JoinedOnce
    <2> HIDE DEF t
    <2>3. Joined(Joined(changes, t), s3) = Joined(changes, u)  BY <1>8, <1>10, <1>11, JoinedOnce
    <2>4. changes' = Joined(changes, u)  BY <2>1, <2>2, <2>3
    <2> QED  BY <2>4 DEF Joined
  <1>14. LogGrows /\ \A i \in 1..Len(u) : Logged(u[i])
    <2> HIDE DEF u
    <2> QED  BY <1>10, <1>12, <1>13, Appended
  <1> HIDE DEF s1, s2, s3, t, u
  <1>15. (\A x \in S1 : Logged(x)) /\ (\A x \in S3 : Logged(x))
    <2> HIDE DEF S1, S3
    <2>1. \A i \in 1..Len(t) : Logged(t[i])  BY <1>12, <1>14 DEF IsWithin
    <2>2. \A i \in 1..Len(s1) : Logged(s1[i])  BY <1>11, <2>1 DEF IsWithin
    <2>3. \A i \in 1..Len(s3) : Logged(s3[i])  BY <1>12, <1>14 DEF IsWithin
    <2>4. \A x \in S1 : Logged(x)  BY <1>8, <2>2
    <2>5. \A x \in S3 : Logged(x)  BY <1>8, <2>3
    <2> QED  BY <2>4, <2>5
  <1>16. <<f, s>> \notin bound => Logged(FileChange(f, s))
    BY <1>9, <1>11, <1>12, <1>14 DEF IsWithin
  <1>17. \A p \in again : Logged(PairChange(p, Usable(p) # Usable(p)', Public))
    <2> HIDE DEF S1, S3, again, new
    <2> QED  BY <1>4, <1>15
  <1>18. \A p \in new : Logged(PairChange(p, TRUE, s))
    <2> HIDE DEF S1, S3, again, new
    <2> QED  BY <1>4, <1>15
  <1>19. pair' = [p \in Pairs |-> IF PairIsNew(p, f) THEN [state |-> "active", version |-> 1]
                                  ELSE pair[p]]
    <2>1. pair' = [p \in Pairs |-> IF p \in new THEN [state |-> "active", version |-> 1]
                                   ELSE pair[p]]
      BY DEF AcceptFile, PairIsNew
    <2> QED  BY <2>1
  <1> QED  BY <1>14, <1>16, <1>17, <1>18, <1>19

LEMMA Emitted ==
  ASSUME TypeOK, NEW S \in SUBSET Change, IsFiniteSet(S), Emit(S)
  PROVE  LogGrows /\ \A e \in S : Logged(e)
  <1> DEFINE s == SetToSeq(S)
  <1>1. s \in Seq(Change) /\ \A e \in S : \E i \in 1..Len(s) : s[i] = e  BY Listed
  <1>2. changes \in Seq(Change) /\ changes' = changes \o s  BY DEF TypeOK, Emit
  <1> HIDE DEF s
  <1>3. LogGrows /\ \A i \in 1..Len(s) : Logged(s[i])  BY <1>1, <1>2, Appended
  <1> QED  BY <1>1, <1>3

LEMMA LoseFacts ==
  ASSUME TypeOK, NEW f \in Files, LoseLocation(f)
  PROVE  LogGrows /\ \A p \in PairsOf(f) : Logged(PairChange(p, Usable(p) # Usable(p)', Public))
  <1> DEFINE X == PairsOf(f)
             F == [p \in X |-> PairChange(p, Usable(p) # Usable(p)', Public)]
             S == {F[p] : p \in X}
  <1>1. X \in SUBSET Pairs  BY DEF PairsOf
  <1>2. IsFiniteSet(X)  BY <1>1, PairsAreFinite, FS_Subset
  <1>3. S = {PairChange(p, Usable(p) # Usable(p)', Public) : p \in X}  OBVIOUS
  <1>4. Emit(S)
    <2> HIDE DEF S
    <2> QED  BY <1>3 DEF LoseLocation
  <1>5. S \in SUBSET Change
    <2>1. \A p \in Pairs : (Usable(p) # Usable(p)') \in BOOLEAN  OBVIOUS
    <2>2. \A p \in Pairs : PairChange(p, Usable(p) # Usable(p)', Public) \in Change
      BY <2>1, ChangesTyped DEF Scopes
    <2> HIDE DEF S, X
    <2> QED  BY <1>1, <1>3, <2>2
  <1>6. IsFiniteSet(S)
    <2>1. DOMAIN F = X  OBVIOUS
    <2> HIDE DEF F, X
    <2> QED  BY <1>2, <2>1, ImageIsFinite
  <1>7. LogGrows /\ \A e \in S : Logged(e)
    <2> HIDE DEF S
    <2> QED  BY <1>4, <1>5, <1>6, Emitted
  <1> HIDE DEF S
  <1> QED  BY <1>3, <1>7

LEMMA ReviewFacts ==
  ASSUME TypeOK, NEW p \in Pairs, NEW state, ReviewPair(p, state)
  PROVE  LogGrows /\ Logged(PairChange(p, pair[p].state # state, Public))
  <1> DEFINE e == PairChange(p, pair[p].state # state, Public)
  <1>1. e \in Change
    <2>1. (pair[p].state # state) \in BOOLEAN  OBVIOUS
    <2> QED  BY <2>1, ChangesTyped DEF Scopes
  <1>2. Emit({e})  BY DEF ReviewPair
  <1> HIDE DEF e
  <1>3. IsFiniteSet({e})  BY FS_Singleton
  <1>4. LogGrows /\ Logged(e)  BY <1>1, <1>2, <1>3, Emitted
  <1> QED  BY <1>4 DEF e

-----------------------------------------------------------------------------
(* No change goes unsaid                                                   *)

\* Row e speaks to workspace ws of pair p, or of one of its files.
Tells(e, p, ws) ==
    /\ Logged(e) /\ e.affects /\ e.workspace \in {Public, ws}
    /\ IF e.file # Nothing THEN FileVisible(e.file, ws)' ELSE PairVisible(e.pair, ws)'
    /\ e.code \in {CodeOf(p), Nothing} /\ e.debug = DebugOf(p)
PairsAreTold == \A p \in Pairs, ws \in Workspaces : LooksSame(p, ws) \/ \E e : Tells(e, p, ws)
FilesAreTold == \A f \in Files, ws \in Workspaces : \A s \in {ws, Public} :
                   \/ (<<f, s>> \in bound') <=> <<f, s>> \in bound
                   \/ Logged(FileChange(f, s)) /\ FileVisible(f, ws)'

LEMMA PairChangeTells ==
  ASSUME NEW p \in Pairs, NEW ws \in Workspaces, NEW s \in {Public, ws}, NEW a, a,
         Logged(PairChange(p, a, s)), PairVisible(p, ws)'
  PROVE  \E e : Tells(e, p, ws)
  <1>1. Tells(PairChange(p, a, s), p, ws)  BY DEF Tells, PairChange
  <1> QED  BY <1>1

LEMMA FileChangeTells ==
  ASSUME NEW p \in Pairs, NEW ws \in Workspaces, NEW s \in {Public, ws}, NEW f \in {p[1], p[2]},
         Logged(FileChange(f, s)), PairVisible(p, ws)'
  PROVE  \E e : Tells(e, p, ws)
  <1>1. f # Nothing /\ Code[f] \in {CodeOf(p), Nothing} /\ Debug[f] = DebugOf(p)
    BY PairFiles, CatalogAssumption DEF CatalogAssumption
  <1>2. FileVisible(f, ws)'  BY DEF PairVisible
  <1>3. Tells(FileChange(f, s), p, ws)  BY <1>1, <1>2 DEF Tells, FileChange
  <1> QED  BY <1>3

LEMMA AcceptTells ==
  ASSUME TypeOK, MeetingIsPairing, NEW f \in Files, NEW s \in Scopes, AcceptFile(f, s)
  PROVE  PairsAreTold /\ FilesAreTold
  <1>1. /\ LogGrows
        /\ f \in lost => \A p \in PairsOf(f) :
                             Logged(PairChange(p, Usable(p) # Usable(p)', Public))
        /\ <<f, s>> \notin bound => Logged(FileChange(f, s))
        /\ \A p \in Pairs : PairIsNew(p, f) => Logged(PairChange(p, TRUE, s))
        /\ pair' = [p \in Pairs |-> IF PairIsNew(p, f) THEN [state |-> "active", version |-> 1]
                                     ELSE pair[p]]
    BY AcceptFacts
  <1>2. bound' = bound \cup {<<f, s>>} /\ lost' = lost \ {f}  BY DEF AcceptFile
  <1>3. /\ \A g, ws : FileVisible(g, ws) => FileVisible(g, ws)'
        /\ \A p, ws : PairVisible(p, ws) => PairVisible(p, ws)'
    BY <1>2, StillVisible
  <1>4. ASSUME NEW p \in Pairs, NEW ws \in Workspaces, ~ LooksSame(p, ws)
        PROVE  \E e : Tells(e, p, ws)
    <2>1. ws \in Scopes /\ Public \in {Public, ws}  BY DEF Scopes
    <2>2. CASE PairIsNew(p, f)
      <3>1. pair[p].state = "absent" /\ Logged(PairChange(p, TRUE, s))
        BY <1>1, <2>2 DEF PairIsNew
      <3>2. ~ Shown(p, ws)  BY <3>1 DEF Shown
      <3>3. Shown(p, ws)'  BY <1>4, <3>2 DEF LooksSame
      <3>4. PairVisible(p, ws)' /\ ~ PairVisible(p, ws)
        BY <3>1, <3>3, VisibleMeets DEF Shown, MeetingIsPairing
      <3>5. s \in {Public, ws}  BY <1>2, <2>1, <3>4, NewlyVisible
      <3> QED  BY <3>1, <3>4, <3>5, PairChangeTells
    <2>3. CASE ~ PairIsNew(p, f) /\ ~ Shown(p, ws)
      <3>1. pair'[p] = pair[p]  BY <1>1, <2>3
      <3>2. PairVisible(p, ws)' /\ ~ PairVisible(p, ws)
        BY <1>4, <2>3, <3>1 DEF LooksSame, Shown
      <3>3. f \in {p[1], p[2]} /\ <<f, s>> \notin bound /\ s \in {Public, ws}
        BY <1>2, <2>1, <3>2, NewlyVisible
      <3> QED  BY <1>1, <3>2, <3>3, FileChangeTells
    <2>4. CASE ~ PairIsNew(p, f) /\ Shown(p, ws)
      <3>1. pair'[p] = pair[p]  BY <1>1, <2>4
      <3>2. PairVisible(p, ws)' /\ pair[p].state # "absent"  BY <1>3, <2>4 DEF Shown
      <3>3. ~ (Usable(p)' <=> Usable(p))  BY <1>4, <2>4, <3>1, <3>2 DEF LooksSame, Shown
      <3>4. f \in {p[1], p[2]} /\ f \in lost  BY <1>2, <3>1, <3>3 DEF Usable
      <3>5. p \in PairsOf(f)  BY <3>2, <3>4 DEF PairsOf
      <3>6. Logged(PairChange(p, Usable(p) # Usable(p)', Public))  BY <1>1, <3>4, <3>5
      <3>7. Usable(p) # Usable(p)'  BY <3>3 DEF Usable
      <3> QED  BY <2>1, <3>2, <3>6, <3>7, PairChangeTells
    <2> QED  BY <2>2, <2>3, <2>4
  <1>5. ASSUME NEW g \in Files, NEW ws \in Workspaces, NEW t \in {ws, Public},
               ~ ((<<g, t>> \in bound') <=> <<g, t>> \in bound)
        PROVE  Logged(FileChange(g, t)) /\ FileVisible(g, ws)'
    <2>1. g = f /\ t = s /\ <<f, s>> \notin bound /\ <<g, t>> \in bound'  BY <1>2, <1>5
    <2> QED  BY <1>1, <2>1 DEF FileVisible, ScopesOf
  <1> QED  BY <1>4, <1>5 DEF PairsAreTold, FilesAreTold

LEMMA LoseTells ==
  ASSUME TypeOK, NEW f \in Files, LoseLocation(f)
  PROVE  PairsAreTold /\ FilesAreTold
  <1>1. \A p \in PairsOf(f) : Logged(PairChange(p, Usable(p) # Usable(p)', Public))
    BY LoseFacts
  <1>2. bound' = bound /\ pair' = pair /\ lost' = lost \cup {f}  BY DEF LoseLocation
  <1>3. \A p, ws : PairVisible(p, ws)' <=> PairVisible(p, ws)
    BY <1>2 DEF PairVisible, FileVisible, ScopesOf
  <1>4. ASSUME NEW p \in Pairs, NEW ws \in Workspaces, ~ LooksSame(p, ws)
        PROVE  \E e : Tells(e, p, ws)
    <2>1. Shown(p, ws) /\ ~ (Usable(p)' <=> Usable(p))
      BY <1>2, <1>3, <1>4 DEF LooksSame, Shown
    <2>2. f \in {p[1], p[2]}  BY <1>2, <2>1 DEF Usable
    <2>3. p \in PairsOf(f) /\ PairVisible(p, ws)'  BY <1>3, <2>1, <2>2 DEF PairsOf, Shown
    <2>4. Logged(PairChange(p, Usable(p) # Usable(p)', Public))  BY <1>1, <2>3
    <2>5. Usable(p) # Usable(p)'  BY <2>1 DEF Usable
    <2> QED  BY <2>3, <2>4, <2>5, PairChangeTells
  <1> QED  BY <1>2, <1>4 DEF PairsAreTold, FilesAreTold

LEMMA ReviewTells ==
  ASSUME TypeOK, NEW q \in Pairs, NEW state, ReviewPair(q, state)
  PROVE  PairsAreTold /\ FilesAreTold
  <1>1. Logged(PairChange(q, pair[q].state # state, Public))  BY ReviewFacts
  <1>2. /\ bound' = bound /\ lost' = lost /\ pair[q].state # "absent"
        /\ pair' = [pair EXCEPT ![q] = [state |-> state, version |-> @.version + 1]]
    BY DEF ReviewPair
  <1>3. \A p, ws : PairVisible(p, ws)' <=> PairVisible(p, ws)
    BY <1>2 DEF PairVisible, FileVisible, ScopesOf
  <1>4. ASSUME NEW p \in Pairs, NEW ws \in Workspaces, ~ LooksSame(p, ws)
        PROVE  \E e : Tells(e, p, ws)
    <2>1. pair'[p].state # pair[p].state
      BY <1>2, <1>3, <1>4 DEF LooksSame, Shown, Usable
    <2>2. p = q /\ state # pair[q].state  BY <1>2, <2>1 DEF TypeOK
    <2>3. PairVisible(p, ws)'
      BY <1>2, <1>3, <1>4, <2>2 DEF LooksSame, Shown
    <2> QED  BY <1>1, <2>2, <2>3, PairChangeTells
  <1> QED  BY <1>2, <1>4 DEF PairsAreTold, FilesAreTold

LEMMA ModulesOfDemand ==
  ASSUME NEW d \in Demands
  PROVE  /\ Home[d] \in Workspaces /\ Home[d] # Public
         /\ \A m \in Modules[d] : m \in Identities
  BY CatalogAssumption DEF CatalogAssumption, Identities

\* What is told of a pair concerns whoever the pair concerns and the fan-out reaches.
LEMMA TellsConcern ==
  ASSUME NEW p \in Pairs, NEW m, ~ CodeOnly(m), Concerns(CodeOf(p), DebugOf(p), m),
         NEW code \in {CodeOf(p), Nothing}
  PROVE  Concerns(code, DebugOf(p), m)
  BY PairFiles DEF Concerns, Agree, CodeOnly

LEMMA MatchesConcerns ==
  ASSUME NEW f \in Files, NEW m, Matches(f, m)
  PROVE  Concerns(Code[f], Debug[f], m)
  <1>1. /\ Kind[f] \in {"pe", "pdb"}
        /\ Kind[f] = "pe" => Code[f] # Nothing
        /\ Kind[f] = "pdb" => Code[f] = Nothing /\ Debug[f] # Nothing
    BY CatalogAssumption DEF CatalogAssumption, Pes, Pdbs
  <1>2. CASE Kind[f] = "pe"  BY <1>1, <1>2 DEF Matches, Concerns, Agree
  <1>3. CASE Kind[f] = "pdb"  BY <1>1, <1>3 DEF Matches, Concerns, Agree
  <1> QED  BY <1>1, <1>2, <1>3

LEMMA RoleUnmoved ==
  ASSUME FilesAreTold, declared' = declared, NEW ws \in Workspaces, NEW m,
         ~ \E f \in Files, s \in {ws, Public} :
              Matches(f, m) /\ Logged(FileChange(f, s)) /\ FileVisible(f, ws)'
  PROVE  Role(m, ws)' = Role(m, ws)
  <1>1. Declared(ws, m)' = Declared(ws, m)  BY DEF Declared
  <1>2. \A f \in Files, s \in {ws, Public} :
           Matches(f, m) /\ s \in Scopes => ((<<f, s>> \in bound') <=> <<f, s>> \in bound)
    BY DEF FilesAreTold
  <1> QED  BY <1>1, <1>2, RoleSame

\* A transaction of the catalog leaves no settled demand behind, and no plan that
\* would still be frozen.
LEMMA CatalogStep ==
  ASSUME IInv, LogGrows, bound \subseteq bound', PairsAreTold, FilesAreTold,
         cursor' = cursor, UNCHANGED roles, demand' = demand, plan' = plan
  PROVE  Chased' /\ PlansFollow'
  <1> USE DEF IInv
  <1>1. /\ changes \in Seq(Change) /\ Len(changes) \in Nat /\ Len(changes') \in Nat
        /\ cursor.revision \in Nat /\ cursor.revision <= Len(changes)
    BY LenProperties DEF TypeOK, Cursor, LogGrows
  <1>2. declared' = declared /\ role_cursor' = role_cursor  BY DEF roles
  <1>3. ASSUME NEW d \in Reached, Settled(d)'
        PROVE  (IsCurrent(d) \/ Coming(d) \/ RoleComing(d))'
    <2>1. d \in Demands /\ \A m \in Modules[d] : ~ CodeOnly(m)  BY DEF Reached
    <2>2. Home[d] \in Workspaces  BY <2>1, ModulesOfDemand
    <2>3. Settled(d)  BY <1>3 DEF Settled
    <2>4. /\ demand[d].inspected
          /\ demand[d].index_revision \in Nat /\ demand[d].index_revision <= Len(changes)
      BY <2>1, <2>3 DEF Settled, TypeOK, RowsTyped, Row
    <2>5. CASE Coming(d)
      <3>1. PICK i \in 1..Len(changes) : Ahead(cursor, d, i) /\ Touches(d, i)
        BY <2>5 DEF Coming
      <3>2. i \in 1..Len(changes') /\ changes'[i] = changes[i]  BY <1>1 DEF LogGrows
      <3>3. /\ \A g, ws : FileVisible(g, ws) => FileVisible(g, ws)'
            /\ \A p, ws : PairVisible(p, ws) => PairVisible(p, ws)'
        BY StillVisible
      <3>4. Touches(d, i)'
        <4>0. PICK e : e = changes[i]  OBVIOUS
        <4>1. /\ e.affects /\ demand[d].index_revision < i
              /\ \E m \in Modules[d] : Concerns(e.code, e.debug, m)
              /\ IF e.file # Nothing THEN FileVisible(e.file, Home[d])
                                     ELSE PairVisible(e.pair, Home[d])
              /\ e.workspace \in {Public, Home[d]}
          BY <3>1, <4>0 DEF Touches
        <4>2. IF e.file # Nothing THEN FileVisible(e.file, Home[d])'
                                  ELSE PairVisible(e.pair, Home[d])'
          BY <3>3, <4>1
        <4>3. changes'[i] = e  BY <3>2, <4>0
        <4> QED
          BY <2>4, <4>1, <4>2, <4>3
          DEF Touches, FileVisible, PairVisible, ScopesOf, Concerns, Agree
      <3>5. Ahead(cursor, d, i)'  BY <3>1 DEF Ahead
      <3> QED  BY <3>2, <3>4, <3>5 DEF Coming
    <2>6. CASE RoleComing(d)  BY <1>2, <2>6 DEF RoleComing, TouchesRole, Ahead
    <2>7. CASE IsCurrent(d)
      <3>1. CASE \E m \in Modules[d] : \E e :
                                          /\ Logged(e) /\ e.affects
                                          /\ e.workspace \in {Public, Home[d]}
                                          /\ Concerns(e.code, e.debug, m)
                                          /\ IF e.file # Nothing
                                             THEN FileVisible(e.file, Home[d])'
                                             ELSE PairVisible(e.pair, Home[d])'
        <4>1. Coming(d)'  BY <1>1, <2>1, <2>4, <3>1, Told
        <4> QED  BY <4>1
      <3>2. CASE ~ \E m \in Modules[d] : \E e :
                                            /\ Logged(e) /\ e.affects
                                            /\ e.workspace \in {Public, Home[d]}
                                            /\ Concerns(e.code, e.debug, m)
                                            /\ IF e.file # Nothing
                                               THEN FileVisible(e.file, Home[d])'
                                               ELSE PairVisible(e.pair, Home[d])'
        <4>1. ASSUME NEW m \in Modules[d] PROVE Resolve(m, Home[d])' = Resolve(m, Home[d])
          <5>1. ASSUME NEW p \in Pairs, Concerns(CodeOf(p), DebugOf(p), m)
                PROVE  LooksSame(p, Home[d])
            <6>1. SUFFICES ASSUME NEW e, Tells(e, p, Home[d]) PROVE FALSE
              BY <2>2 DEF PairsAreTold
            <6>2. Concerns(e.code, e.debug, m)
              BY <2>1, <5>1, <6>1, TellsConcern DEF Tells
            <6> QED  BY <3>2, <6>1, <6>2 DEF Tells
          <5> QED  BY <5>1, ResolveSame
        <4>2. ASSUME NEW m \in Modules[d] PROVE Role(m, Home[d])' = Role(m, Home[d])
          <5>1. ASSUME NEW f \in Files, NEW s \in {Home[d], Public}, Matches(f, m),
                       Logged(FileChange(f, s)), FileVisible(f, Home[d])'
                PROVE  FALSE
            <6> DEFINE e == FileChange(f, s)
            <6>1. e.file = f /\ e.code = Code[f] /\ e.debug = Debug[f] /\ e.affects
                  /\ e.workspace = s
              BY DEF FileChange
            <6>2. f # Nothing  BY CatalogAssumption DEF CatalogAssumption
            <6>3. Logged(e) /\ Concerns(e.code, e.debug, m)
              BY <5>1, <6>1, MatchesConcerns
            <6> HIDE DEF e
            <6> QED  BY <3>2, <5>1, <6>1, <6>2, <6>3
          <5> QED  BY <1>2, <2>2, <5>1, RoleUnmoved
        <4>3. RolesOf(d)' = RolesOf(d)  BY <4>2 DEF RolesOf
        <4>4. IsCurrent(d)'  BY <2>7, <4>1, <4>3 DEF IsCurrent, Indeterminate
        <4> QED  BY <4>4
      <3> QED  BY <3>1, <3>2
    <2> QED  BY <2>3, <2>5, <2>6, <2>7 DEF Chased
  <1>4. ASSUME NEW d \in Demands, plan[d] # Nothing
        PROVE  /\ plan[d].revision <= Len(changes')
               /\ plan[d].revision = Len(changes') => Fits(d, plan[d].target)'
    <2>1. /\ plan[d].revision \in Nat /\ plan[d].revision <= Len(changes)
          /\ plan[d].revision = Len(changes) => Fits(d, plan[d].target)
      BY <1>4 DEF PlansFollow, RowsTyped, Plan
    <2>2. plan[d].revision <= Len(changes')  BY <1>1, <2>1 DEF LogGrows
    <2>3. ASSUME plan[d].revision = Len(changes') PROVE Fits(d, plan[d].target)'
      <3>1. Len(changes') = Len(changes)  BY <1>1, <2>1, <2>3 DEF LogGrows
      <3>2. \A e : ~ Logged(e)  BY <1>1, <3>1 DEF Logged
      <3>3. \A p \in Pairs : LooksSame(p, Home[d])
        BY <3>2, ModulesOfDemand DEF PairsAreTold, Tells
      <3>4. \A m \in Modules[d] : Resolve(m, Home[d])' = Resolve(m, Home[d])
        BY <3>3, ResolveSame
      <3>5. Fits(d, plan[d].target)  BY <2>1, <2>3, <3>1
      <3> QED  BY <3>4, <3>5 DEF Fits, Indeterminate
    <2> QED  BY <2>2, <2>3
  <1> QED  BY <1>3, <1>4 DEF Chased, PlansFollow, Reached, CodeOnly

-----------------------------------------------------------------------------
(* The fan-outs                                                            *)

LEMMA AdvanceTyped ==
  ASSUME NEW at \in Cursor, NEW rows \in SUBSET Demands
  PROVE  /\ Advance(at, rows) \in Cursor /\ Advance(at, rows).revision = EventOf(at)
         /\ EventOf(at) \in Nat
  <1>1. EventOf(at) \in Nat  BY DEF EventOf, Cursor
  <1>2. IsFiniteSet(rows) /\ Cardinality(rows) \in Nat
    BY CatalogAssumption, FS_Subset, FS_CardinalityType DEF CatalogAssumption
  <1>3. CASE Cardinality(rows) > PageSize
    <2>0. PageSize \in Nat /\ Cardinality({}) = 0
      BY CatalogAssumption, FS_EmptySet DEF CatalogAssumption
    <2>1. rows # {}  BY <1>3, <2>0
    <2>2. Max(Page(rows)) \in Demands  BY <2>1, LastOfPage DEF Page
    <2> QED  BY <1>1, <1>3, <2>2 DEF Advance, Cursor
  <1>4. CASE ~ (Cardinality(rows) > PageSize)  BY <1>1, <1>4 DEF Advance, Cursor
  <1> QED  BY <1>3, <1>4

\* What is noted is not settled; the others do not notice.
LEMMA Noted ==
  ASSUME RowsTyped, TypeOK, NEW page \in SUBSET Demands, Note(page)
  PROVE  /\ \A d \in page : ~ Settled(d)'
         /\ \A d \in Demands \ page : demand'[d] = demand[d]
         /\ \A d \in Demands : /\ demand'[d] \in Row(d)
                               /\ demand'[d].planned <= demand'[d].sequence
                               /\ demand'[d].index_revision = demand[d].index_revision
                               /\ demand'[d].target = demand[d].target
                               /\ demand'[d].inspected = demand[d].inspected
         /\ DOMAIN demand' = Demands /\ demand' = [d \in Demands |-> demand'[d]]
  <1>1. demand' = [d \in Demands |-> IF d \in page THEN [demand[d] EXCEPT !.sequence = @ + 1]
                                     ELSE demand[d]]
    BY DEF Note
  <1>2. \A d \in Demands : /\ demand[d] \in Row(d)
                           /\ demand[d].sequence \in Nat /\ demand[d].planned \in Nat
                           /\ demand[d].planned <= demand[d].sequence
    BY DEF RowsTyped, TypeOK, Row
  <1>3. ASSUME NEW d \in Demands
        PROVE  /\ d \in page => ~ Settled(d)'
               /\ d \notin page => demand'[d] = demand[d]
               /\ demand'[d] \in Row(d) /\ demand'[d].planned <= demand'[d].sequence
               /\ demand'[d].index_revision = demand[d].index_revision
               /\ demand'[d].target = demand[d].target
               /\ demand'[d].inspected = demand[d].inspected
    <2>1. CASE d \in page
      <3>1. demand'[d] = [demand[d] EXCEPT !.sequence = @ + 1]  BY <1>1, <2>1
      <3>2. /\ demand'[d].sequence = demand[d].sequence + 1
            /\ demand'[d].planned = demand[d].planned
            /\ demand'[d].index_revision = demand[d].index_revision
            /\ demand'[d].target = demand[d].target
            /\ demand'[d].inspected = demand[d].inspected
            /\ demand'[d] \in Row(d)
        BY <1>2, <3>1 DEF Row
      <3> QED  BY <1>2, <2>1, <3>2 DEF Settled
    <2>2. CASE d \notin page  BY <1>1, <1>2, <2>2
    <2> QED  BY <2>1, <2>2
  <1> QED  BY <1>1, <1>3

\* The catalog and the roles are what they were.
LEMMA SameCatalog ==
  ASSUME UNCHANGED catalog, declared' = declared
  PROVE  /\ \A m, ws : Resolve(m, ws)' = Resolve(m, ws) /\ Role(m, ws)' = Role(m, ws)
         /\ \A d : RolesOf(d)' = RolesOf(d)
         /\ \A p, ws : PairVisible(p, ws)' <=> PairVisible(p, ws)
         /\ \A f, ws : FileVisible(f, ws)' <=> FileVisible(f, ws)
  <1>1. bound' = bound /\ lost' = lost /\ pair' = pair /\ changes' = changes  BY DEF catalog
  <1>2. /\ \A f, ws : FileVisible(f, ws)' <=> FileVisible(f, ws)
        /\ \A p, ws : PairVisible(p, ws)' <=> PairVisible(p, ws)
    BY <1>1 DEF PairVisible, FileVisible, ScopesOf
  <1>3. \A p, ws : LooksSame(p, ws)  BY <1>1, <1>2 DEF LooksSame, Shown, Usable
  <1>4. \A m, ws : Resolve(m, ws)' = Resolve(m, ws)  BY <1>3, ResolveSame
  <1>5. \A m, ws : Role(m, ws)' = Role(m, ws)
    <2> SUFFICES ASSUME NEW m, NEW ws PROVE Role(m, ws)' = Role(m, ws)  OBVIOUS
    <2>1. Declared(ws, m)' = Declared(ws, m)  BY DEF Declared
    <2> QED  BY <1>1, <2>1, RoleSame
  <1>6. \A d : RolesOf(d)' = RolesOf(d)  BY <1>5 DEF RolesOf
  <1> QED  BY <1>2, <1>4, <1>5, <1>6

LEMMA AvailabilityStays ==
  ASSUME UNCHANGED catalog
  PROVE  /\ AvailabilityIsCurrent => AvailabilityIsCurrent'
         /\ MeetingIsPairing => MeetingIsPairing'
  <1>1. bound' = bound /\ lost' = lost /\ pair' = pair /\ availability' = availability
    BY DEF catalog
  <1>2. \A f \in Files, s \in Scopes : Availability(f, s)' = Availability(f, s)
    BY <1>1 DEF Availability, PairVisible, FileVisible, ScopesOf, Usable, CodeOf, DebugOf
  <1> QED  BY <1>1, <1>2 DEF AvailabilityIsCurrent, MeetingIsPairing, Meet, ScopesOf

\* Where no event is about a demand that is ahead of the cursor, none was.
LEMMA StillComing ==
  ASSUME TypeOK, UNCHANGED catalog, NEW d \in Demands, NEW rows \in SUBSET Demands,
         cursor' = Advance(cursor, rows), d \notin Page(rows),
         EventOf(cursor) \in 1..Len(changes) /\ d > cursor.after /\ Touches(d, EventOf(cursor))
           => d \in rows,
         demand'[d] = demand[d], Coming(d)
  PROVE  Coming(d)'
  <1>1. PICK i \in 1..Len(changes) : Ahead(cursor, d, i) /\ Touches(d, i)  BY DEF Coming
  <1>2. /\ cursor \in Cursor /\ cursor.revision \in Nat /\ cursor.after \in Nat
        /\ i \in Nat /\ d \in Nat \ {0}
    BY CatalogAssumption DEF CatalogAssumption, TypeOK, Cursor
  <1>3. i = EventOf(cursor) => d > cursor.after
    BY <1>1, <1>2 DEF Ahead, EventOf
  <1>4. Ahead(Advance(cursor, rows), d, i)  BY <1>1, <1>2, <1>3, Advances
  <1>5. Ahead(cursor, d, i)'  BY <1>4 DEF Ahead
  <1>6. changes' = changes /\ bound' = bound  BY DEF catalog
  <1>7. Touches(d, i)'
    BY <1>1, <1>6 DEF Touches, FileVisible, PairVisible, ScopesOf, Concerns, Agree
  <1> QED  BY <1>1, <1>5, <1>6, <1>7 DEF Coming

\* An event that is still to come for a demand is while neither the catalog nor the cursor moves.
LEMMA ComingStays ==
  ASSUME bound' = bound, changes' = changes, cursor' = cursor, NEW d \in Demands,
         demand'[d].inspected = demand[d].inspected,
         demand'[d].index_revision = demand[d].index_revision, Coming(d)
  PROVE  Coming(d)'
  <1>1. \A f, s : FileVisible(f, s)' = FileVisible(f, s)  BY DEF FileVisible, ScopesOf
  <1>2. \A q, s : PairVisible(q, s)' = PairVisible(q, s)  BY <1>1 DEF PairVisible
  <1>3. \A i : Touches(d, i) => Touches(d, i)'  BY <1>1, <1>2 DEF Touches
  <1> QED  BY <1>3 DEF Coming, Ahead

LEMMA RoleStillComing ==
  ASSUME TypeOK, declared' = declared, NEW d \in Demands, NEW rows \in SUBSET Demands,
         LET c == role_cursor[Home[d]] IN
           /\ role_cursor'[Home[d]] = Advance(c, rows)
           /\ d > c.after /\ TouchesRole(d, Home[d], EventOf(c)) => d \in rows,
         d \notin Page(rows), demand'[d] = demand[d], RoleComing(d)
  PROVE  RoleComing(d)'
  <1> DEFINE c == role_cursor[Home[d]]
  <1>1. PICK i \in 1..Len(declared[Home[d]]) : Ahead(c, d, i) /\ TouchesRole(d, Home[d], i)
    BY DEF RoleComing
  <1>2. Home[d] \in Workspaces  BY ModulesOfDemand
  <1>3. /\ c \in Cursor /\ c.revision \in Nat /\ c.after \in Nat
        /\ i \in Nat /\ d \in Nat \ {0}
    BY <1>2, CatalogAssumption DEF CatalogAssumption, TypeOK, Cursor
  <1>4. i = EventOf(c) => d > c.after  BY <1>1, <1>3 DEF Ahead, EventOf
  <1>5. i = EventOf(c) => d \in rows  BY <1>1, <1>4
  <1>6. Ahead(Advance(c, rows), d, i)
    <2> HIDE DEF c
    <2> QED  BY <1>1, <1>3, <1>5, Advances
  <1>7. Ahead(role_cursor[Home[d]], d, i)'  BY <1>6 DEF Ahead
  <1>8. TouchesRole(d, Home[d], i)'  BY <1>1 DEF TouchesRole
  <1> QED  BY <1>1, <1>7, <1>8 DEF RoleComing

LEMMA FanoutKeeps == IInv /\ FanoutNext => IInv'
  <1> SUFFICES ASSUME IInv, FanoutNext PROVE IInv'  OBVIOUS
  <1> USE DEF IInv
  <1>1. /\ EventOf(cursor) <= Len(changes)
        /\ UNCHANGED catalog /\ UNCHANGED roles /\ plan' = plan /\ UNCHANGED <<events, faults>>
    BY DEF FanoutNext
  <1>2. PICK rows : /\ rows = {d \in Demands : d > cursor.after /\ Touches(d, EventOf(cursor))}
                    /\ Note(Page(rows)) /\ cursor' = Advance(cursor, rows)
    BY DEF FanoutNext
  <1>3. rows \in SUBSET Demands /\ Page(rows) \in SUBSET Demands  BY <1>2 DEF Page
  <1>4. declared' = declared /\ role_cursor' = role_cursor  BY <1>1 DEF roles
  <1>5. /\ bound' = bound /\ lost' = lost /\ pair' = pair /\ changes' = changes
        /\ availability' = availability
    BY <1>1 DEF catalog
  <1>6. /\ \A d \in Page(rows) : ~ Settled(d)'
        /\ \A d \in Demands \ Page(rows) : demand'[d] = demand[d]
        /\ \A d \in Demands : /\ demand'[d] \in Row(d)
                              /\ demand'[d].planned <= demand'[d].sequence
                              /\ demand'[d].index_revision = demand[d].index_revision
                              /\ demand'[d].target = demand[d].target
                              /\ demand'[d].inspected = demand[d].inspected
        /\ DOMAIN demand' = Demands /\ demand' = [d \in Demands |-> demand'[d]]
    BY <1>2, <1>3, Noted
  <1>7. cursor' \in Cursor /\ cursor'.revision <= Len(changes')
    BY <1>1, <1>2, <1>3, <1>5, AdvanceTyped DEF TypeOK
  <1>8. TypeOK'  BY <1>1, <1>4, <1>5, <1>6, <1>7 DEF TypeOK
  <1>9. RowsTyped'  BY <1>1, <1>6 DEF RowsTyped
  <1>10. RolesTyped'  BY <1>4 DEF RolesTyped
  <1>11. MeetingIsPairing' /\ AvailabilityIsCurrent'  BY <1>1, AvailabilityStays
  <1>12. /\ \A m, ws : Resolve(m, ws)' = Resolve(m, ws) /\ Role(m, ws)' = Role(m, ws)
         /\ \A d : RolesOf(d)' = RolesOf(d)
    BY <1>1, <1>4, SameCatalog
  <1>13. PlansFollow'  BY <1>1, <1>5, <1>12 DEF PlansFollow, Fits, Indeterminate
  <1>14. Chased'
    <2> SUFFICES ASSUME NEW d \in Reached, Settled(d)'
                 PROVE  (IsCurrent(d) \/ Coming(d) \/ RoleComing(d))'
      BY DEF Chased, Reached, CodeOnly
    <2>1. d \in Demands \ Page(rows)  BY <1>6 DEF Reached
    <2>2. demand'[d] = demand[d]  BY <1>6, <2>1
    <2>3. Settled(d)  BY <2>2 DEF Settled
    <2>4. CASE IsCurrent(d)  BY <1>12, <2>2, <2>4 DEF IsCurrent, Indeterminate
    <2>5. CASE Coming(d)  BY <1>1, <1>2, <1>3, <2>1, <2>2, <2>5, StillComing
    <2>6. CASE RoleComing(d)  BY <1>4, <2>2, <2>6 DEF RoleComing, TouchesRole, Ahead
    <2> QED  BY <2>3, <2>4, <2>5, <2>6 DEF Chased
  <1> QED  BY <1>8, <1>9, <1>10, <1>11, <1>13, <1>14

LEMMA RoleFanoutKeeps ==
  ASSUME IInv, NEW ws \in Workspaces, FanoutWorkspaceRoleNext(ws)
  PROVE  IInv'
  <1> USE DEF IInv
  <1>1. /\ EventOf(role_cursor[ws]) <= Len(declared[ws])
        /\ UNCHANGED catalog /\ cursor' = cursor /\ declared' = declared /\ plan' = plan
    BY DEF FanoutWorkspaceRoleNext
  <1>2. PICK rows : /\ rows = {d \in Demands : /\ d > role_cursor[ws].after
                                               /\ TouchesRole(d, ws, EventOf(role_cursor[ws]))}
                    /\ Note(Page(rows))
                    /\ role_cursor' = [role_cursor EXCEPT ![ws] = Advance(@, rows)]
    BY DEF FanoutWorkspaceRoleNext
  <1>3. rows \in SUBSET Demands /\ Page(rows) \in SUBSET Demands  BY <1>2 DEF Page
  <1>4. role_cursor \in [Workspaces -> Cursor]  BY DEF TypeOK
  <1>5. /\ bound' = bound /\ lost' = lost /\ pair' = pair /\ changes' = changes
        /\ availability' = availability
    BY <1>1 DEF catalog
  <1>6. /\ \A d \in Page(rows) : ~ Settled(d)'
        /\ \A d \in Demands \ Page(rows) : demand'[d] = demand[d]
        /\ \A d \in Demands : /\ demand'[d] \in Row(d)
                              /\ demand'[d].planned <= demand'[d].sequence
                              /\ demand'[d].index_revision = demand[d].index_revision
                              /\ demand'[d].target = demand[d].target
                              /\ demand'[d].inspected = demand[d].inspected
        /\ DOMAIN demand' = Demands /\ demand' = [d \in Demands |-> demand'[d]]
    BY <1>2, <1>3, Noted
  <1>7. /\ Advance(role_cursor[ws], rows) \in Cursor
        /\ Advance(role_cursor[ws], rows).revision <= Len(declared[ws])
    BY <1>1, <1>3, <1>4, AdvanceTyped
  <1>8. /\ role_cursor' \in [Workspaces -> Cursor]
        /\ role_cursor'[ws] = Advance(role_cursor[ws], rows)
        /\ \A v \in Workspaces \ {ws} : role_cursor'[v] = role_cursor[v]
    BY <1>2, <1>4, <1>7
  <1>9. TypeOK'  BY <1>1, <1>5, <1>6, <1>8 DEF TypeOK
  <1>10. RowsTyped'  BY <1>1, <1>6 DEF RowsTyped
  <1>11. RolesTyped'  BY <1>1, <1>7, <1>8 DEF RolesTyped
  <1>12. MeetingIsPairing' /\ AvailabilityIsCurrent'  BY <1>1, AvailabilityStays
  <1>13. /\ \A m, v : Resolve(m, v)' = Resolve(m, v) /\ Role(m, v)' = Role(m, v)
         /\ \A d : RolesOf(d)' = RolesOf(d)
    BY <1>1, SameCatalog
  <1>14. PlansFollow'  BY <1>1, <1>5, <1>13 DEF PlansFollow, Fits, Indeterminate
  <1>15. Chased'
    <2> SUFFICES ASSUME NEW d \in Reached, Settled(d)'
                 PROVE  (IsCurrent(d) \/ Coming(d) \/ RoleComing(d))'
      BY DEF Chased, Reached, CodeOnly
    <2>1. d \in Demands \ Page(rows)  BY <1>6 DEF Reached
    <2>2. demand'[d] = demand[d] /\ Home[d] \in Workspaces  BY <1>6, <2>1, ModulesOfDemand
    <2>3. Settled(d)  BY <2>2 DEF Settled
    <2>4. CASE IsCurrent(d)  BY <1>13, <2>2, <2>4 DEF IsCurrent, Indeterminate
    <2>5. CASE Coming(d)  BY <1>1, <1>5, <2>1, <2>2, <2>5, ComingStays
    <2>6. CASE RoleComing(d) /\ Home[d] = ws
      <3>1. d > role_cursor[ws].after /\ TouchesRole(d, ws, EventOf(role_cursor[ws])) => d \in rows
        BY <1>2, <2>1
      <3> QED  BY <1>1, <1>3, <1>8, <2>1, <2>2, <2>6, <3>1, RoleStillComing
    <2>7. CASE RoleComing(d) /\ Home[d] # ws
      BY <1>1, <1>8, <2>2, <2>7 DEF RoleComing, TouchesRole, Ahead
    <2> QED  BY <2>3, <2>4, <2>5, <2>6, <2>7 DEF Chased
  <1> QED  BY <1>9, <1>10, <1>11, <1>12, <1>14, <1>15

-----------------------------------------------------------------------------
(* The stored availability                                                 *)

LEMMA AvailabilityTyped ==
  \A f, s : Availability(f, s) \in Availabilities /\ Availability(f, s)' \in Availabilities
  BY DEF Availability, Availabilities

\* A row's availability depends on the pairs of its debug id alone.
LEMMA AvailabilitySame ==
  ASSUME NEW f \in Files, NEW s \in Scopes,
         \A p \in Pairs : DebugOf(p) = Debug[f] =>
            /\ (pair[p].state = "active" /\ PairVisible(p, s))'
                 <=> pair[p].state = "active" /\ PairVisible(p, s)
            /\ pair[p].state = "active" /\ PairVisible(p, s) => (Usable(p)' <=> Usable(p))
  PROVE  Availability(f, s)' = Availability(f, s)
  <1> DEFINE active == {p \in Pairs : pair[p].state = "active" /\ PairVisible(p, s)}
             mine == {p \in active : f \in {p[1], p[2]}}
             rivals(p) == {q \in active : q # p /\ CodeOf(p) = CodeOf(q) /\ DebugOf(p) = DebugOf(q)}
  <1>1. \A p \in Pairs : f \in {p[1], p[2]} => DebugOf(p) = Debug[f]  BY PairFiles
  <1>2. /\ \A p \in Pairs : DebugOf(p) = Debug[f] => (p \in active' <=> p \in active)
        /\ active \subseteq Pairs /\ active' \subseteq Pairs
    OBVIOUS
  <1>3. mine' = mine
    <2> HIDE DEF active
    <2> QED  BY <1>1, <1>2
  <1>4. \A p \in mine : DebugOf(p) = Debug[f] /\ (Usable(p)' <=> Usable(p))  BY <1>1
  <1>5. \A p \in mine : (\E q \in active' : q # p /\ CodeOf(p) = CodeOf(q) /\ DebugOf(p) = DebugOf(q))
                        <=> \E q \in active : q # p /\ CodeOf(p) = CodeOf(q) /\ DebugOf(p) = DebugOf(q)
    <2> HIDE DEF active, mine
    <2> QED  BY <1>2, <1>4
  <1>6. Availability(f, s) =
          IF Debug[f] = Nothing THEN "no_debug_identity"
          ELSE IF mine = {} THEN "waiting_for_pair"
          ELSE IF \E p \in mine, q \in active :
                     q # p /\ CodeOf(p) = CodeOf(q) /\ DebugOf(p) = DebugOf(q)
               THEN "identity_conflict"
          ELSE IF \E p \in mine : Usable(p) THEN "symbols_available" ELSE "storage_unavailable"
    BY DEF Availability
  <1>7. Availability(f, s)' =
          IF Debug[f] = Nothing THEN "no_debug_identity"
          ELSE IF mine' = {} THEN "waiting_for_pair"
          ELSE IF \E p \in mine', q \in active' :
                     q # p /\ CodeOf(p) = CodeOf(q) /\ DebugOf(p) = DebugOf(q)
               THEN "identity_conflict"
          ELSE IF \E p \in mine' : Usable(p)' THEN "symbols_available" ELSE "storage_unavailable"
    BY DEF Availability, CodeOf, DebugOf
  <1> HIDE DEF active, mine
  <1>8. (\E p \in mine', q \in active' : q # p /\ CodeOf(p) = CodeOf(q) /\ DebugOf(p) = DebugOf(q))
          <=> \E p \in mine, q \in active : q # p /\ CodeOf(p) = CodeOf(q) /\ DebugOf(p) = DebugOf(q)
    BY <1>3, <1>5
  <1>9. (\E p \in mine' : Usable(p)') <=> \E p \in mine : Usable(p)  BY <1>3, <1>4
  <1> QED  BY <1>3, <1>6, <1>7, <1>8, <1>9

\* Refreshing the rows of one debug id, and of the new file, is refreshing enough.
LEMMA Refreshed ==
  ASSUME AvailabilityIsCurrent, NEW debug, NEW h, Refresh(debug, h), bound \subseteq bound',
         \A g \in Files, s \in Scopes : Debug[g] # debug /\ g # h /\ <<g, s>> \in bound' =>
            <<g, s>> \in bound /\ Availability(g, s)' = Availability(g, s)
  PROVE  AvailabilityIsCurrent' /\ availability' \in [Files -> [Scopes -> Availabilities]]
  <1>1. availability' = [g \in Files |->
                           [s \in Scopes |->
                              IF <<g, s>> \in bound' /\ (Debug[g] = debug \/ g = h)
                              THEN Availability(g, s)' ELSE availability[g][s]]]
    BY DEF Refresh
  <1>2. ASSUME NEW g \in Files, NEW s \in Scopes
        PROVE  /\ availability'[g][s] = IF <<g, s>> \in bound' THEN Availability(g, s)' ELSE "absent"
               /\ availability'[g][s] \in Availabilities
    <2>1. availability[g][s] = IF <<g, s>> \in bound THEN Availability(g, s) ELSE "absent"
      BY DEF AvailabilityIsCurrent
    <2>2. availability'[g][s] = IF <<g, s>> \in bound' /\ (Debug[g] = debug \/ g = h)
                                THEN Availability(g, s)' ELSE availability[g][s]
      BY <1>1
    <2>3. "absent" \in Availabilities /\ Availability(g, s)' \in Availabilities
      BY AvailabilityTyped DEF Availabilities
    <2> QED  BY <2>1, <2>2, <2>3
  <1>3. AvailabilityIsCurrent'  BY <1>2 DEF AvailabilityIsCurrent
  <1>4. availability' \in [Files -> [Scopes -> Availabilities]]
    <2>1. \A g \in Files : [s \in Scopes |->
                              IF <<g, s>> \in bound' /\ (Debug[g] = debug \/ g = h)
                              THEN Availability(g, s)' ELSE availability[g][s]]
                             \in [Scopes -> Availabilities]
      BY <1>1, <1>2
    <2> QED  BY <1>1, <2>1
  <1> QED  BY <1>3, <1>4

-----------------------------------------------------------------------------
(* The catalog's transactions                                              *)

LEMMA AcceptKeeps ==
  ASSUME IInv, NEW f \in Files, NEW s \in Scopes, AcceptFile(f, s)
  PROVE  IInv'
  <1> USE DEF IInv
  <1>1. /\ LogGrows
        /\ pair' = [p \in Pairs |-> IF PairIsNew(p, f) THEN [state |-> "active", version |-> 1]
                                    ELSE pair[p]]
    BY AcceptFacts
  <1>2. /\ bound' = bound \cup {<<f, s>>} /\ lost' = lost \ {f} /\ Refresh(Debug[f], f)
        /\ cursor' = cursor /\ UNCHANGED roles /\ demand' = demand /\ plan' = plan
    BY DEF AcceptFile
  <1>3. PairsAreTold /\ FilesAreTold  BY AcceptTells
  <1>4. bound \subseteq bound' /\ bound' \subseteq Files \X Scopes  BY <1>2 DEF TypeOK
  <1>5. Chased' /\ PlansFollow'  BY <1>1, <1>2, <1>3, <1>4, CatalogStep
  <1>6. \A g, h : f \notin {g, h} => /\ ScopesOf(g)' = ScopesOf(g) /\ ScopesOf(h)' = ScopesOf(h)
                                     /\ Meet(g, h)' <=> Meet(g, h)
    BY <1>2 DEF ScopesOf, Meet
  <1>7. AvailabilityIsCurrent' /\ availability' \in [Files -> [Scopes -> Availabilities]]
    <2>1. ASSUME NEW g \in Files, NEW t \in Scopes, Debug[g] # Debug[f], g # f, <<g, t>> \in bound'
          PROVE  <<g, t>> \in bound /\ Availability(g, t)' = Availability(g, t)
      <3>1. <<g, t>> \in bound  BY <1>2, <2>1
      <3>2. ASSUME NEW p \in Pairs, DebugOf(p) = Debug[g]
            PROVE  /\ (pair[p].state = "active" /\ PairVisible(p, t))'
                        <=> pair[p].state = "active" /\ PairVisible(p, t)
                   /\ Usable(p)' <=> Usable(p)
        <4>1. f \notin {p[1], p[2]}  BY <2>1, <3>2, PairFiles
        <4>2. pair'[p] = pair[p]  BY <1>1, <4>1 DEF PairIsNew
        <4>3. PairVisible(p, t)' <=> PairVisible(p, t)
          BY <1>6, <4>1 DEF PairVisible, FileVisible
        <4>4. Usable(p)' <=> Usable(p)  BY <1>2, <4>1, <4>2 DEF Usable
        <4> QED  BY <4>2, <4>3, <4>4
      <3> QED  BY <3>1, <3>2, AvailabilitySame
    <2> QED  BY <1>2, <1>4, <2>1, Refreshed
  <1>8. MeetingIsPairing'
    <2> SUFFICES ASSUME NEW p \in Pairs, Meet(p[1], p[2])' PROVE pair'[p].state # "absent"
      BY DEF MeetingIsPairing, Meet, ScopesOf
    <2>1. CASE PairIsNew(p, f)  BY <1>1, <2>1
    <2>2. CASE ~ PairIsNew(p, f)
      <3>1. pair'[p] = pair[p]  BY <1>1, <2>2
      <3>2. CASE f \in {p[1], p[2]}  BY <2>2, <3>1, <3>2 DEF PairIsNew
      <3>3. CASE f \notin {p[1], p[2]}  BY <1>6, <3>1, <3>3 DEF MeetingIsPairing
      <3> QED  BY <3>2, <3>3
    <2> QED  BY <2>1, <2>2
  <1>9. pair' \in [Pairs -> PairRow] /\ lost' \subseteq Files  BY <1>1, <1>2 DEF TypeOK, PairRow
  <1>10. TypeOK'
    <2>1. /\ cursor.revision \in Nat /\ Len(changes) \in Nat /\ Len(changes') \in Nat
          /\ \A d \in Demands : demand[d].index_revision \in Nat
      BY <1>1, LenProperties DEF TypeOK, Cursor, LogGrows, RowsTyped, Row
    <2>2. /\ cursor.revision <= Len(changes')
          /\ \A d \in Demands : demand[d].index_revision <= Len(changes')
      BY <1>1, <2>1 DEF TypeOK, LogGrows
    <2> QED  BY <1>1, <1>2, <1>4, <1>7, <1>9, <2>2 DEF TypeOK, LogGrows, roles
  <1>11. RowsTyped' /\ RolesTyped'  BY <1>2 DEF RowsTyped, RolesTyped, roles
  <1> QED  BY <1>5, <1>7, <1>8, <1>10, <1>11

LEMMA LoseKeeps ==
  ASSUME IInv, NEW f \in Files, LoseLocation(f)
  PROVE  IInv'
  <1> USE DEF IInv
  <1> DEFINE debug == IF PairsOf(f) = {} THEN Nothing ELSE Debug[f]
  <1>1. LogGrows /\ PairsAreTold /\ FilesAreTold  BY LoseFacts, LoseTells
  <1>2. /\ bound' = bound /\ pair' = pair /\ lost' = lost \cup {f} /\ Refresh(debug, Nothing)
        /\ cursor' = cursor /\ UNCHANGED roles /\ demand' = demand /\ plan' = plan
    BY DEF LoseLocation
  <1>3. Chased' /\ PlansFollow'  BY <1>1, <1>2, CatalogStep
  <1>4. AvailabilityIsCurrent' /\ availability' \in [Files -> [Scopes -> Availabilities]]
    <2>1. ASSUME NEW g \in Files, NEW t \in Scopes, Debug[g] # debug
          PROVE  Availability(g, t)' = Availability(g, t)
      <3>1. ASSUME NEW p \in Pairs, DebugOf(p) = Debug[g]
            PROVE  /\ (pair[p].state = "active" /\ PairVisible(p, t))'
                        <=> pair[p].state = "active" /\ PairVisible(p, t)
                   /\ pair[p].state = "active" => (Usable(p)' <=> Usable(p))
        <4>1. PairVisible(p, t)' <=> PairVisible(p, t)
          BY <1>2 DEF PairVisible, FileVisible, ScopesOf
        <4>2. CASE f \notin {p[1], p[2]}  BY <1>2, <4>1, <4>2 DEF Usable
        <4>3. CASE f \in {p[1], p[2]}
          <5>1. DebugOf(p) = Debug[f]  BY <4>3, PairFiles
          <5>2. PairsOf(f) = {}  BY <2>1, <3>1, <5>1
          <5>3. pair[p].state = "absent"  BY <4>3, <5>2 DEF PairsOf
          <5> QED  BY <1>2, <4>1, <5>3
        <4> QED  BY <4>2, <4>3
      <3> QED  BY <3>1, AvailabilitySame
    <2> HIDE DEF debug
    <2> QED  BY <1>2, <2>1, Refreshed
  <1>5. MeetingIsPairing'  BY <1>2 DEF MeetingIsPairing, Meet, ScopesOf
  <1>6. TypeOK'
    <2>1. /\ cursor.revision \in Nat /\ Len(changes) \in Nat /\ Len(changes') \in Nat
          /\ \A d \in Demands : demand[d].index_revision \in Nat
      BY <1>1, LenProperties DEF TypeOK, Cursor, LogGrows, RowsTyped, Row
    <2>2. /\ cursor.revision <= Len(changes')
          /\ \A d \in Demands : demand[d].index_revision <= Len(changes')
      BY <1>1, <2>1 DEF TypeOK, LogGrows
    <2> QED  BY <1>1, <1>2, <1>4, <2>2 DEF TypeOK, LogGrows, roles
  <1>7. RowsTyped' /\ RolesTyped'  BY <1>2 DEF RowsTyped, RolesTyped, roles
  <1> QED  BY <1>3, <1>4, <1>5, <1>6, <1>7

LEMMA ReviewKeeps ==
  ASSUME IInv, NEW q \in Pairs, NEW state \in {"active", "withdrawn"}, ReviewPair(q, state)
  PROVE  IInv'
  <1> USE DEF IInv
  <1>1. LogGrows /\ PairsAreTold /\ FilesAreTold  BY ReviewFacts, ReviewTells
  <1>2. /\ bound' = bound /\ lost' = lost /\ Refresh(DebugOf(q), Nothing)
        /\ pair' = [pair EXCEPT ![q] = [state |-> state, version |-> @.version + 1]]
        /\ cursor' = cursor /\ UNCHANGED roles /\ demand' = demand /\ plan' = plan
    BY DEF ReviewPair
  <1>3. Chased' /\ PlansFollow'  BY <1>1, <1>2, CatalogStep
  <1>4. /\ pair' \in [Pairs -> PairRow]
        /\ \A p \in Pairs \ {q} : pair'[p] = pair[p]
        /\ pair'[q].state = state
    BY <1>2 DEF TypeOK, PairRow
  <1>5. AvailabilityIsCurrent' /\ availability' \in [Files -> [Scopes -> Availabilities]]
    <2>1. ASSUME NEW g \in Files, NEW t \in Scopes, Debug[g] # DebugOf(q)
          PROVE  Availability(g, t)' = Availability(g, t)
      <3>1. ASSUME NEW p \in Pairs, DebugOf(p) = Debug[g]
            PROVE  /\ (pair[p].state = "active" /\ PairVisible(p, t))'
                        <=> pair[p].state = "active" /\ PairVisible(p, t)
                   /\ Usable(p)' <=> Usable(p)
        <4>1. pair'[p] = pair[p]  BY <1>4, <2>1, <3>1
        <4> QED  BY <1>2, <4>1 DEF PairVisible, FileVisible, ScopesOf, Usable
      <3> QED  BY <3>1, AvailabilitySame
    <2> QED  BY <1>2, <2>1, Refreshed
  <1>6. MeetingIsPairing'  BY <1>2, <1>4 DEF MeetingIsPairing, Meet, ScopesOf
  <1>7. TypeOK'
    <2>1. /\ cursor.revision \in Nat /\ Len(changes) \in Nat /\ Len(changes') \in Nat
          /\ \A d \in Demands : demand[d].index_revision \in Nat
      BY <1>1, LenProperties DEF TypeOK, Cursor, LogGrows, RowsTyped, Row
    <2>2. /\ cursor.revision <= Len(changes')
          /\ \A d \in Demands : demand[d].index_revision <= Len(changes')
      BY <1>1, <2>1 DEF TypeOK, LogGrows
    <2> QED  BY <1>1, <1>2, <1>4, <1>5, <2>2 DEF TypeOK, LogGrows, roles
  <1>8. RowsTyped' /\ RolesTyped'  BY <1>2 DEF RowsTyped, RolesTyped, roles
  <1> QED  BY <1>3, <1>5, <1>6, <1>7, <1>8

-----------------------------------------------------------------------------
(* Roles and planning                                                      *)

LEMMA DeclaredRow ==
  ASSUME declared \in [Workspaces -> Seq(Declaration)],
         NEW ws \in Workspaces, NEW m, Declared(ws, m) # Nothing
  PROVE  LET rows == {i \in DOMAIN declared[ws] : declared[ws][i].identity = m}
         IN  /\ Max(rows) \in rows
             /\ Declared(ws, m) = declared[ws][Max(rows)].role
             /\ Declared(ws, m) \in {"owned", "dependency"}
  <1> DEFINE rows == {i \in DOMAIN declared[ws] : declared[ws][i].identity = m}
             n == Len(declared[ws])
  <1>1. declared[ws] \in Seq(Declaration)  OBVIOUS
  <1>2. n \in Nat /\ DOMAIN declared[ws] = 1..n /\ declared[ws] \in [1..n -> Declaration]
    BY <1>1, LenProperties
  <1>3. Declared(ws, m) = IF rows = {} THEN Nothing ELSE declared[ws][Max(rows)].role
    BY DEF Declared
  <1>4. rows # {} /\ rows \in SUBSET (1..n) /\ rows \in SUBSET DOMAIN declared[ws]
    BY <1>2, <1>3
  <1> HIDE DEF rows, n
  <1>5. rows \in SUBSET Nat /\ IsFiniteSet(rows)
    <2>1. IsFiniteSet(1..n) /\ 1..n \subseteq Nat  BY <1>2, FS_Interval
    <2> QED  BY <1>4, <2>1, FS_Subset
  <1>6. Max(rows) \in rows
    <2>1. \E x \in rows : \A y \in rows : x >= y  BY <1>4, <1>5, GreatestNumber
    <2> QED  BY <2>1 DEF Max
  <1>7. declared[ws][Max(rows)] \in Declaration  BY <1>2, <1>4, <1>6
  <1>8. declared[ws][Max(rows)].role \in {"owned", "dependency"}  BY <1>7 DEF Declaration
  <1> QED  BY <1>3, <1>4, <1>6, <1>8 DEF rows

LEMMA TargetTyped ==
  ASSUME declared \in [Workspaces -> Seq(Declaration)], NEW d \in Demands
  PROVE  /\ RolesOf(d) \in [Modules[d] -> {"owned", "dependency", "unknown"}]
         /\ \A m : Resolve(m, Home[d]) \in Resolution /\ Indeterminate \in Resolution
  <1>1. Home[d] \in Workspaces  BY ModulesOfDemand
  <1>2. \A m : Role(m, Home[d]) \in {"owned", "dependency", "unknown"}
    <2> SUFFICES ASSUME NEW m PROVE Role(m, Home[d]) \in {"owned", "dependency", "unknown"}
      OBVIOUS
    <2>1. Declared(Home[d], m) # Nothing => Declared(Home[d], m) \in {"owned", "dependency"}
      BY <1>1, DeclaredRow
    <2> QED  BY <2>1 DEF Role
  <1>3. Indeterminate \in Resolution  BY DEF Indeterminate, Resolution
  <1>4. ASSUME NEW m PROVE Resolve(m, Home[d]) \in Resolution
    <2> DEFINE found == {p \in Pairs : /\ pair[p].state # "absent" /\ PairVisible(p, Home[d])
                                       /\ Concerns(CodeOf(p), DebugOf(p), m)}
               active == {p \in found : Usable(p)}
               gone == found \ active
               state == IF Cardinality(active) > 1 THEN "conflict"
                        ELSE IF active # {} THEN "unique"
                        ELSE IF gone # {} THEN "unavailable" ELSE "none"
               reason == IF active # {} \/ gone = {} THEN "none"
                         ELSE IF \E p \in gone : pair[p].state = "active"
                              THEN "location_unavailable" ELSE "withdrawn"
    <2>1. active \in SUBSET Pairs /\ gone \in SUBSET Pairs  OBVIOUS
    <2>2. /\ state \in {"indeterminate", "conflict", "unique", "unavailable", "none"}
          /\ reason \in {"location_unavailable", "withdrawn", "none"}
      <3> HIDE DEF active, gone
      <3> QED  OBVIOUS
    <2>3. Resolve(m, Home[d]) = IF Incomplete(m) THEN Indeterminate ELSE
                                [active |-> active, unavailable |-> gone,
                                 state |-> state, reason |-> reason]
      BY DEF Resolve
    <2> HIDE DEF active, gone, state, reason
    <2> QED  BY <1>3, <2>1, <2>2, <2>3 DEF Resolution
  <1> QED  BY <1>2, <1>3, <1>4 DEF RolesOf

\* A demand to which nothing is done, where nothing else changes, is as it was.
LEMMA LeftAlone ==
  ASSUME UNCHANGED catalog, UNCHANGED roles, cursor' = cursor,
         NEW d \in Demands, demand'[d] = demand[d],
         IsCurrent(d) \/ Coming(d) \/ RoleComing(d)
  PROVE  (IsCurrent(d) \/ Coming(d) \/ RoleComing(d))'
  <1>1. /\ bound' = bound /\ changes' = changes
        /\ declared' = declared /\ role_cursor' = role_cursor
    BY DEF catalog, roles
  <1>2. (\A m, ws : Resolve(m, ws)' = Resolve(m, ws)) /\ RolesOf(d)' = RolesOf(d)
    BY <1>1, SameCatalog
  <1>3. CASE IsCurrent(d)  BY <1>2, <1>3 DEF IsCurrent, Indeterminate
  <1>4. CASE Coming(d)  BY <1>1, <1>4, ComingStays
  <1>5. CASE RoleComing(d)  BY <1>1, <1>5 DEF RoleComing, TouchesRole, Ahead
  <1> QED  BY <1>3, <1>4, <1>5

\* What planning and inspection change of one demand, the rest of the invariant allows.
LEMMA PlanningKeeps ==
  ASSUME IInv, UNCHANGED catalog, UNCHANGED roles, cursor' = cursor, NEW d \in Demands,
         NEW row \in Row(d), demand' = [demand EXCEPT ![d] = row],
         row.planned <= row.sequence, row.index_revision <= Len(changes),
         row = demand[d] \/ ~ Settled(d)' \/ IsCurrent(d)',
         NEW work, plan' = [plan EXCEPT ![d] = work],
         work # Nothing => /\ work \in Plan(d) /\ work.revision <= Len(changes)
                           /\ work.revision = Len(changes) => Fits(d, work.target)
  PROVE  IInv'
  <1> USE DEF IInv
  <1>1. /\ bound' = bound /\ lost' = lost /\ pair' = pair /\ changes' = changes
        /\ availability' = availability /\ declared' = declared /\ role_cursor' = role_cursor
    BY DEF catalog, roles
  <1>2. /\ DOMAIN demand = Demands /\ demand = [e \in Demands |-> demand[e]]
        /\ DOMAIN plan = Demands /\ plan = [e \in Demands |-> plan[e]]
    BY DEF RowsTyped
  <1>3. /\ DOMAIN demand' = Demands /\ demand' = [e \in Demands |-> demand'[e]]
        /\ demand'[d] = row /\ \A e \in Demands \ {d} : demand'[e] = demand[e]
        /\ DOMAIN plan' = Demands /\ plan' = [e \in Demands |-> plan'[e]]
        /\ plan'[d] = work /\ \A e \in Demands \ {d} : plan'[e] = plan[e]
    BY <1>2
  <1>4. \A e \in Demands : /\ demand'[e] \in Row(e)
                           /\ demand'[e].planned <= demand'[e].sequence
                           /\ demand'[e].index_revision <= Len(changes')
                           /\ demand'[e].target \in Target(e) \cup {Nothing}
    <2> SUFFICES ASSUME NEW e \in Demands
                 PROVE  /\ demand'[e] \in Row(e)
                        /\ demand'[e].planned <= demand'[e].sequence
                        /\ demand'[e].index_revision <= Len(changes')
                        /\ demand'[e].target \in Target(e) \cup {Nothing}
      OBVIOUS
    <2>1. CASE e = d  BY <1>1, <1>3, <2>1 DEF Row
    <2>2. CASE e # d  BY <1>1, <1>3, <2>2 DEF RowsTyped, TypeOK
    <2> QED  BY <2>1, <2>2
  <1>5. \A e \in Demands : /\ plan'[e] \in Plan(e) \cup {Nothing}
                           /\ plan'[e] # Nothing => plan'[e].target \in Target(e)
    <2> SUFFICES ASSUME NEW e \in Demands
                 PROVE  /\ plan'[e] \in Plan(e) \cup {Nothing}
                        /\ plan'[e] # Nothing => plan'[e].target \in Target(e)
      OBVIOUS
    <2>1. CASE e = d  BY <1>3, <2>1 DEF Plan
    <2>2. CASE e # d  BY <1>3, <2>2 DEF RowsTyped, TypeOK
    <2> QED  BY <2>1, <2>2
  <1>6. TypeOK'  BY <1>1, <1>4, <1>5 DEF TypeOK
  <1>7. RowsTyped' /\ RolesTyped'  BY <1>1, <1>3, <1>4, <1>5 DEF RowsTyped, RolesTyped
  <1>8. MeetingIsPairing' /\ AvailabilityIsCurrent'  BY AvailabilityStays
  <1>9. \A m, ws : Resolve(m, ws)' = Resolve(m, ws)  BY <1>1, SameCatalog
  <1>10. PlansFollow'
    <2> SUFFICES ASSUME NEW e \in Demands, plan'[e] # Nothing
                 PROVE  /\ plan'[e].revision <= Len(changes')
                        /\ plan'[e].revision = Len(changes') => Fits(e, plan[e].target)'
      BY DEF PlansFollow
    <2>1. CASE e = d  BY <1>1, <1>3, <1>9, <2>1 DEF Fits, Indeterminate
    <2>2. CASE e # d  BY <1>1, <1>3, <1>9, <2>2 DEF PlansFollow, Fits, Indeterminate
    <2> QED  BY <2>1, <2>2
  <1>11. Chased'
    <2> SUFFICES ASSUME NEW e \in Reached, Settled(e)'
                 PROVE  (IsCurrent(e) \/ Coming(e) \/ RoleComing(e))'
      BY DEF Chased, Reached, CodeOnly
    <2>1. e \in Demands  BY DEF Reached
    <2>2. CASE demand'[e] = demand[e]
      <3>1. Settled(e)  BY <2>2 DEF Settled
      <3> QED  BY <2>1, <2>2, <3>1, LeftAlone DEF Chased
    <2>3. CASE demand'[e] # demand[e]
      <3>1. e = d /\ row # demand[d]  BY <1>3, <2>1, <2>3
      <3> QED  BY <3>1
    <2> QED  BY <2>2, <2>3
  <1> QED  BY <1>6, <1>7, <1>8, <1>10, <1>11

LEMMA RowUpdated ==
  ASSUME NEW d, NEW old \in Row(d), NEW i \in Nat, NEW s \in Nat, NEW t \in Target(d) \cup {Nothing}
  PROVE  /\ [old EXCEPT !.inspected = TRUE, !.index_revision = i, !.sequence = s] \in Row(d)
         /\ [old EXCEPT !.planned = s, !.index_revision = i, !.target = t] \in Row(d)
  BY DEF Row

LEMMA RegisterKeeps ==
  ASSUME IInv, NEW d \in Demands, RegisterInspection(d)
  PROVE  IInv'
  <1>0. PICK old : old = demand[d]  OBVIOUS
  <1> DEFINE row == [old EXCEPT !.inspected = TRUE, !.index_revision = Len(changes),
                                !.sequence = old.sequence + 1]
  <1>1. /\ demand' = [demand EXCEPT ![d] = row] /\ plan' = plan
        /\ UNCHANGED catalog /\ UNCHANGED roles /\ cursor' = cursor
    BY <1>0 DEF RegisterInspection
  <1>2. Len(changes) \in Nat  BY LenProperties DEF IInv, TypeOK
  <1>3. old \in Row(d) /\ old.planned <= old.sequence
    BY <1>0 DEF IInv, RowsTyped, TypeOK
  <1>4. /\ row \in Row(d) /\ row.planned <= row.sequence /\ row.index_revision <= Len(changes)
        /\ row.sequence # row.planned
    <2>1. /\ row.inspected = TRUE /\ row.index_revision = Len(changes)
          /\ row.sequence = old.sequence + 1 /\ row.planned = old.planned
      BY <1>3 DEF Row
    <2>2. old.sequence \in Nat /\ old.planned \in Nat  BY <1>3 DEF Row
    <2>3. old.sequence + 1 \in Nat  BY <2>2
    <2>4. row \in Row(d)
      <3>1. PICK s \in Nat : s = old.sequence + 1  BY <2>3
      <3>2. [old EXCEPT !.inspected = TRUE, !.index_revision = Len(changes), !.sequence = s]
              \in Row(d)
        BY <1>2, <1>3, RowUpdated
      <3> QED  BY <3>1, <3>2
    <2> HIDE DEF row
    <2> QED  BY <1>2, <1>3, <2>1, <2>2, <2>4
  <1>5. ~ Settled(d)'
    <2>1. demand'[d] = row  BY <1>1 DEF IInv, RowsTyped
    <2> HIDE DEF row
    <2> QED  BY <1>4, <2>1 DEF Settled
  <1>6. plan' = [plan EXCEPT ![d] = plan[d]]  BY <1>1 DEF IInv, RowsTyped
  <1>7. plan[d] # Nothing => /\ plan[d] \in Plan(d) /\ plan[d].revision <= Len(changes)
                             /\ plan[d].revision = Len(changes) => Fits(d, plan[d].target)
    BY DEF IInv, RowsTyped, PlansFollow
  <1> HIDE DEF row
  <1> QED  BY <1>1, <1>4, <1>5, <1>6, <1>7, PlanningKeeps

LEMMA SnapshotKeeps ==
  ASSUME IInv, NEW d \in Demands, Snapshot(d)
  PROVE  IInv'
  <1>1. /\ demand' = demand /\ UNCHANGED catalog /\ UNCHANGED roles /\ cursor' = cursor
    BY DEF Snapshot
  <1>2. PICK unread : plan' = [plan EXCEPT ![d] =
                [sequence |-> demand[d].sequence, revision |-> Len(changes),
                 target |-> [role |-> RolesOf(d),
                             resolution |-> [m \in Modules[d] |->
                                               IF m \in unread THEN Indeterminate
                                               ELSE Resolve(m, Home[d])]]]]
    BY DEF Snapshot
  <1> DEFINE resolution == [m \in Modules[d] |-> IF m \in unread THEN Indeterminate
                                                 ELSE Resolve(m, Home[d])]
             target == [role |-> RolesOf(d), resolution |-> resolution]
             work == [sequence |-> demand[d].sequence, revision |-> Len(changes),
                      target |-> target]
  <1>3. /\ RolesOf(d) \in [Modules[d] -> {"owned", "dependency", "unknown"}]
        /\ \A m : Resolve(m, Home[d]) \in Resolution /\ Indeterminate \in Resolution
    BY TargetTyped DEF IInv, TypeOK
  <1>4. resolution \in [Modules[d] -> Resolution]  BY <1>3
  <1>5. target \in Target(d) /\ target.resolution = resolution
    <2> HIDE DEF resolution
    <2> QED  BY <1>3, <1>4 DEF Target
  <1>6. Fits(d, target)  BY DEF Fits
  <1>7. demand[d].sequence \in Nat /\ Len(changes) \in Nat /\ demand[d] \in Row(d)
        /\ demand[d].planned <= demand[d].sequence /\ demand[d].index_revision <= Len(changes)
    BY LenProperties DEF IInv, RowsTyped, Row, TypeOK
  <1>8. work \in Plan(d) /\ work.revision = Len(changes) /\ work.target = target
    <2> HIDE DEF target
    <2> QED  BY <1>5, <1>7 DEF Plan
  <1>9. plan' = [plan EXCEPT ![d] = work]  BY <1>2
  <1>10. demand' = [demand EXCEPT ![d] = demand[d]]  BY <1>1 DEF IInv, RowsTyped
  <1>11. work.revision <= Len(changes) /\ (work.revision = Len(changes) => Fits(d, work.target))
    <2> HIDE DEF target, work
    <2> QED  BY <1>6, <1>7, <1>8
  <1> HIDE DEF work
  <1> QED  BY <1>1, <1>7, <1>8, <1>9, <1>10, <1>11, PlanningKeeps

LEMMA FreezeKeeps ==
  ASSUME IInv, NEW d \in Demands, FreezeTarget(d)
  PROVE  IInv'
  <1>0. PICK old : old = demand[d]  OBVIOUS
  <1> DEFINE row == [old EXCEPT !.planned = plan[d].sequence, !.index_revision = Len(changes),
                                !.target = plan[d].target]
  <1>1. /\ plan[d] # Nothing /\ PlanHolds(d)
        /\ demand' = [demand EXCEPT ![d] = row] /\ plan' = [plan EXCEPT ![d] = Nothing]
        /\ UNCHANGED catalog /\ UNCHANGED roles /\ cursor' = cursor
    BY <1>0 DEF FreezeTarget
  <1>2. Len(changes) \in Nat  BY LenProperties DEF IInv, TypeOK
  <1>3. old \in Row(d) /\ plan[d] \in Plan(d)  BY <1>0, <1>1 DEF IInv, RowsTyped
  <1>4. /\ plan[d].sequence = old.sequence /\ plan[d].target.role = RolesOf(d)
        /\ Fits(d, plan[d].target)
    BY <1>0, <1>1 DEF PlanHolds, IInv, PlansFollow
  <1>5. /\ row \in Row(d) /\ row.planned <= row.sequence /\ row.index_revision <= Len(changes)
        /\ row.target = plan[d].target /\ plan[d].target \in Target(d)
    <2>1. /\ row.planned = plan[d].sequence /\ row.index_revision = Len(changes)
          /\ row.sequence = old.sequence /\ row.target = plan[d].target
      BY <1>3 DEF Row
    <2>2. /\ old.sequence \in Nat /\ plan[d].sequence \in Nat /\ plan[d].target \in Target(d)
      BY <1>3 DEF Row, Plan
    <2>3. row \in Row(d)  BY <1>2, <1>3, <2>2, RowUpdated
    <2> HIDE DEF row
    <2> QED  BY <1>2, <1>4, <2>1, <2>2, <2>3
  <1>6. IsCurrent(d)'
    <2>1. demand'[d].target = plan[d].target
      <3>1. demand'[d] = row  BY <1>1 DEF IInv, RowsTyped
      <3> HIDE DEF row
      <3> QED  BY <1>5, <3>1
    <2>2. plan[d].target # Nothing  BY <1>5, CatalogAssumption DEF CatalogAssumption
    <2>3. declared' = declared  BY <1>1 DEF roles
    <2>4. (\A m, ws : Resolve(m, ws)' = Resolve(m, ws)) /\ RolesOf(d)' = RolesOf(d)
      BY <1>1, <2>3, SameCatalog
    <2> QED  BY <1>4, <2>1, <2>2, <2>4 DEF IsCurrent, Fits, Indeterminate
  <1> HIDE DEF row
  <1> QED  BY <1>1, <1>5, <1>6, PlanningKeeps

LEMMA DropKeeps ==
  ASSUME IInv, NEW d \in Demands, DropPlan(d)
  PROVE  IInv'
  <1>1. /\ demand' = demand /\ plan' = [plan EXCEPT ![d] = Nothing]
        /\ UNCHANGED catalog /\ UNCHANGED roles /\ cursor' = cursor
    BY DEF DropPlan
  <1>2. /\ demand[d] \in Row(d) /\ demand[d].planned <= demand[d].sequence
        /\ demand[d].index_revision <= Len(changes) /\ demand' = [demand EXCEPT ![d] = demand[d]]
    BY <1>1 DEF IInv, RowsTyped, TypeOK
  <1> QED  BY <1>1, <1>2, PlanningKeeps

LEMMA DeclareKeeps ==
  ASSUME IInv, NEW ws \in Workspaces, NEW m \in Identities, NEW role \in {"owned", "dependency"},
         DeclareModuleRole(ws, m, role)
  PROVE  IInv'
  <1> USE DEF IInv
  <1> DEFINE row == [identity |-> m, role |-> role]
             n == Len(declared[ws])
  <1>1. /\ declared' = [declared EXCEPT ![ws] = Append(@, row)]
        /\ UNCHANGED catalog /\ cursor' = cursor /\ role_cursor' = role_cursor
        /\ demand' = demand /\ plan' = plan
    BY DEF DeclareModuleRole
  <1>2. /\ bound' = bound /\ lost' = lost /\ pair' = pair /\ changes' = changes
        /\ availability' = availability
    BY <1>1 DEF catalog
  <1>3. declared \in [Workspaces -> Seq(Declaration)] /\ row \in Declaration
    BY DEF TypeOK, Declaration
  <1>4. /\ declared[ws] \in Seq(Declaration) /\ n \in Nat
        /\ declared' \in [Workspaces -> Seq(Declaration)]
        /\ declared'[ws] = Append(declared[ws], row)
        /\ \A v \in Workspaces \ {ws} : declared'[v] = declared[v]
    <2> HIDE DEF row
    <2>1. declared[ws] \in Seq(Declaration) /\ n \in Nat  BY <1>3, LenProperties
    <2>2. Append(declared[ws], row) \in Seq(Declaration)  BY <1>3, <2>1
    <2> QED  BY <1>1, <1>3, <2>1, <2>2
  <1>5. /\ Len(declared'[ws]) = n + 1 /\ declared'[ws][n + 1] = row
        /\ \A i \in 1..n : declared'[ws][i] = declared[ws][i]
        /\ DOMAIN declared'[ws] = 1..(n + 1) /\ DOMAIN declared[ws] = 1..n
    <2> HIDE DEF row
    <2> QED  BY <1>3, <1>4, LenProperties
  <1>6. TypeOK'  BY <1>1, <1>2, <1>4 DEF TypeOK
  <1>7. RowsTyped' /\ RolesTyped'
    <2>1. \A v \in Workspaces : role_cursor[v].revision \in Nat  BY DEF TypeOK, Cursor
    <2>2. \A v \in Workspaces : role_cursor'[v].revision <= Len(declared'[v])
      <3> SUFFICES ASSUME NEW v \in Workspaces PROVE role_cursor[v].revision <= Len(declared'[v])
        BY <1>1
      <3>1. CASE v = ws  BY <1>4, <1>5, <2>1, <3>1 DEF RolesTyped
      <3>2. CASE v # ws  BY <1>4, <3>2 DEF RolesTyped
      <3> QED  BY <3>1, <3>2
    <2> QED  BY <1>1, <2>2 DEF RowsTyped, RolesTyped
  <1>8. MeetingIsPairing' /\ AvailabilityIsCurrent'  BY <1>1, AvailabilityStays
  <1>9. \A k, v : Resolve(k, v)' = Resolve(k, v)
    <2>1. \A p, v : LooksSame(p, v)
      BY <1>2 DEF LooksSame, Shown, PairVisible, FileVisible, ScopesOf, Usable
    <2> QED  BY <2>1, ResolveSame
  <1>10. PlansFollow'  BY <1>1, <1>2, <1>9 DEF PlansFollow, Fits, Indeterminate
  <1>11. ASSUME NEW v \in Workspaces, NEW k, v # ws \/ k # m
         PROVE  Declared(v, k)' = Declared(v, k)
    <2> DEFINE rows == {i \in DOMAIN declared[v] : declared[v][i].identity = k}
    <2>1. Declared(v, k) = IF rows = {} THEN Nothing ELSE declared[v][Max(rows)].role
      BY DEF Declared
    <2>2. Declared(v, k)' = IF rows' = {} THEN Nothing ELSE declared'[v][Max(rows')].role
      BY DEF Declared, Max
    <2>3. CASE v # ws  BY <1>4, <2>3 DEF Declared
    <2>4. CASE v = ws /\ k # m
      <3>1. rows' = rows
        <4>1. \A i \in 1..(n + 1) : declared'[ws][i].identity = k
                                     => i \in 1..n /\ declared[ws][i].identity = k
          <5> SUFFICES ASSUME NEW i \in 1..(n + 1), declared'[ws][i].identity = k
                       PROVE  i \in 1..n /\ declared[ws][i].identity = k
            OBVIOUS
          <5>1. i # n + 1  BY <1>5, <2>4
          <5>2. i \in 1..n  BY <1>4, <5>1
          <5> QED  BY <1>5, <5>2
        <4>2. 1..n \subseteq 1..(n + 1)  BY <1>4
        <4> HIDE DEF n
        <4> QED  BY <1>5, <2>4, <4>1, <4>2
      <3>2. CASE rows = {}  BY <2>1, <2>2, <3>1, <3>2
      <3>3. CASE rows # {}
        <4>1. rows \in SUBSET (1..n)  BY <1>5, <2>4
        <4> HIDE DEF rows
        <4>2. rows \in SUBSET Nat /\ IsFiniteSet(rows)
          <5>1. IsFiniteSet(1..n)
            <6> HIDE DEF n
            <6> QED  BY <1>4, FS_Interval
          <5>2. 1..n \subseteq Nat  OBVIOUS
          <5> QED  BY <4>1, <5>1, <5>2, FS_Subset
        <4>3. Max(rows) \in rows
          <5>1. \E x \in rows : \A y \in rows : x >= y  BY <3>3, <4>2, GreatestNumber
          <5> QED  BY <5>1 DEF Max
        <4>4. declared'[v][Max(rows)] = declared[v][Max(rows)]  BY <1>5, <2>4, <4>1, <4>3
        <4> QED  BY <2>1, <2>2, <3>1, <3>3, <4>4
      <3> QED  BY <3>2, <3>3
    <2> QED  BY <1>11, <2>3, <2>4
  <1>12. Chased'
    <2> SUFFICES ASSUME NEW d \in Reached, Settled(d)'
                 PROVE  (IsCurrent(d) \/ Coming(d) \/ RoleComing(d))'
      BY DEF Chased, Reached, CodeOnly
    <2>1. d \in Demands /\ Home[d] \in Workspaces  BY ModulesOfDemand DEF Reached
    <2>2. Settled(d)  BY <1>1 DEF Settled
    <2>3. CASE Coming(d)  BY <1>1, <1>2, <2>1, <2>3, ComingStays
    <2>4. CASE RoleComing(d)
      <3>1. PICK i \in 1..Len(declared[Home[d]]) :
               Ahead(role_cursor[Home[d]], d, i) /\ TouchesRole(d, Home[d], i)
        BY <2>4 DEF RoleComing
      <3>2. i \in 1..Len(declared'[Home[d]]) /\ declared'[Home[d]][i] = declared[Home[d]][i]
        <4>1. CASE Home[d] = ws
          <5>1. i \in 1..n  BY <3>1, <4>1
          <5>2. i \in 1..(n + 1)  BY <1>4, <5>1
          <5> HIDE DEF n
          <5> QED  BY <1>5, <4>1, <5>1, <5>2
        <4>2. CASE Home[d] # ws  BY <1>4, <2>1, <3>1, <4>2
        <4> QED  BY <4>1, <4>2
      <3> QED  BY <1>1, <3>1, <3>2 DEF RoleComing, TouchesRole, Ahead
    <2>5. CASE IsCurrent(d) /\ Home[d] = ws /\ m \in Modules[d]
      <3>0. PICK i : i = n + 1  OBVIOUS
      <3>1. i \in 1..Len(declared'[ws])  BY <1>4, <1>5, <3>0
      <3>2. role_cursor[ws].revision \in Nat /\ role_cursor[ws].revision <= n
        BY DEF TypeOK, Cursor, RolesTyped
      <3>3. Ahead(role_cursor[ws], d, i)  BY <1>4, <3>0, <3>2 DEF Ahead
      <3>4. demand'[d].inspected /\ declared'[ws][i].identity = m
        BY <1>1, <1>5, <2>2, <3>0 DEF Settled
      <3>5. TouchesRole(d, ws, i)'  BY <2>5, <3>4 DEF TouchesRole
      <3>6. Ahead(role_cursor[ws], d, i)'  BY <1>1, <3>3 DEF Ahead
      <3> QED  BY <1>1, <2>5, <3>1, <3>5, <3>6 DEF RoleComing
    <2>6. CASE IsCurrent(d) /\ (Home[d] # ws \/ m \notin Modules[d])
      <3>1. \A k \in Modules[d] : Declared(Home[d], k)' = Declared(Home[d], k)
        BY <1>11, <2>1, <2>6
      <3>2. \A k \in Modules[d] : Role(k, Home[d])' = Role(k, Home[d])
        BY <1>2, <3>1, RoleSame
      <3>3. RolesOf(d)' = RolesOf(d)  BY <3>2 DEF RolesOf
      <3>4. IsCurrent(d)'  BY <1>1, <1>9, <2>6, <3>3 DEF IsCurrent, Indeterminate
      <3> QED  BY <3>4
    <2> QED  BY <2>2, <2>3, <2>4, <2>5, <2>6 DEF Chased
  <1> QED  BY <1>6, <1>7, <1>8, <1>10, <1>12

LEMMA StutterKeeps ==
  ASSUME IInv, UNCHANGED vars
  PROVE  IInv'
  <1> USE DEF IInv
  <1>1. /\ UNCHANGED catalog /\ UNCHANGED roles /\ cursor' = cursor /\ demand' = demand
        /\ plan' = plan
    BY DEF vars
  <1>2. /\ bound' = bound /\ lost' = lost /\ pair' = pair /\ changes' = changes
        /\ availability' = availability /\ declared' = declared /\ role_cursor' = role_cursor
    BY <1>1 DEF catalog, roles
  <1>3. TypeOK'  BY <1>1, <1>2 DEF TypeOK
  <1>4. RowsTyped' /\ RolesTyped'  BY <1>1, <1>2 DEF RowsTyped, RolesTyped
  <1>5. MeetingIsPairing' /\ AvailabilityIsCurrent'  BY <1>1, AvailabilityStays
  <1>6. \A m, ws : Resolve(m, ws)' = Resolve(m, ws)  BY <1>1, <1>2, SameCatalog
  <1>7. PlansFollow'  BY <1>1, <1>2, <1>6 DEF PlansFollow, Fits, Indeterminate
  <1>8. Chased'
    <2> SUFFICES ASSUME NEW d \in Reached, Settled(d)'
                 PROVE  (IsCurrent(d) \/ Coming(d) \/ RoleComing(d))'
      BY DEF Chased, Reached, CodeOnly
    <2>1. d \in Demands /\ Settled(d)  BY <1>1 DEF Reached, Settled
    <2> QED  BY <1>1, <2>1, LeftAlone DEF Chased
  <1> QED  BY <1>3, <1>4, <1>5, <1>7, <1>8

LEMMA InitKeeps == Init => IInv
  <1> SUFFICES ASSUME Init PROVE IInv  OBVIOUS
  <1>1. /\ bound = Uploaded /\ lost = {} /\ changes = <<>>
        /\ cursor = [revision |-> 0, after |-> 0]
        /\ declared = [ws \in Workspaces |-> <<>>]
        /\ role_cursor = [ws \in Workspaces |-> [revision |-> 0, after |-> 0]]
        /\ plan = [d \in Demands |-> Nothing]
    BY DEF Init
  <1>2. /\ pair \in [Pairs -> PairRow]
        /\ \A p \in Pairs : pair[p].state # "absent" <=> Meet(p[1], p[2])
    BY DEF Init, PairRow
  <1>3. /\ availability \in [Files -> [Scopes -> Availabilities]] /\ AvailabilityIsCurrent
    <2>1. \A f \in Files, s \in Scopes :
             availability[f][s] = IF <<f, s>> \in bound THEN Availability(f, s) ELSE "absent"
      BY DEF Init
    <2>2. /\ DOMAIN availability = Files /\ availability = [f \in Files |-> availability[f]]
          /\ \A f \in Files : /\ DOMAIN availability[f] = Scopes
                              /\ availability[f] = [s \in Scopes |-> availability[f][s]]
      BY DEF Init
    <2>3. \A f \in Files, s \in Scopes : availability[f][s] \in Availabilities
      BY <2>1, AvailabilityTyped DEF Availabilities
    <2> QED  BY <2>1, <2>2, <2>3 DEF AvailabilityIsCurrent
  <1>4. /\ changes \in Seq(Change) /\ Len(changes) = 0
        /\ declared \in [Workspaces -> Seq(Declaration)]
        /\ role_cursor \in [Workspaces -> Cursor]
        /\ cursor \in Cursor /\ cursor.revision = 0
        /\ \A ws \in Workspaces : Len(declared[ws]) = 0 /\ role_cursor[ws].revision = 0
    BY <1>1 DEF Cursor
  <1>5. bound \subseteq Files \X Scopes
    BY <1>1, CatalogAssumption DEF CatalogAssumption
  <1>6. /\ DOMAIN plan = Demands /\ plan = [d \in Demands |-> plan[d]]
        /\ \A d \in Demands : plan[d] = Nothing
    BY <1>1
  <1>7. ASSUME NEW d \in Demands
        PROVE  /\ [role |-> RolesOf(d), resolution |-> ResolutionOf(d)] \in Target(d)
               /\ [role |-> RolesOf(d), resolution |-> ResolutionOf(d)].role = RolesOf(d)
               /\ \A m \in Modules[d] :
                     [role |-> RolesOf(d), resolution |-> ResolutionOf(d)].resolution[m]
                       = Resolve(m, Home[d])
    <2>1. /\ \A m : Resolve(m, Home[d]) \in Resolution
          /\ RolesOf(d) \in [Modules[d] -> {"owned", "dependency", "unknown"}]
      BY <1>4, TargetTyped
    <2>2. /\ ResolutionOf(d) \in [Modules[d] -> Resolution]
          /\ \A m \in Modules[d] : ResolutionOf(d)[m] = Resolve(m, Home[d])
      BY <2>1 DEF ResolutionOf
    <2> QED  BY <2>1, <2>2 DEF Target
  <1>8. /\ DOMAIN demand = Demands /\ demand = [d \in Demands |-> demand[d]]
        /\ \A d \in Demands :
              demand[d] = IF d \in Planned
                          THEN [inspected |-> TRUE, index_revision |-> 0, sequence |-> 1,
                                planned |-> 1,
                                target |-> [role |-> RolesOf(d), resolution |-> ResolutionOf(d)]]
                          ELSE [inspected |-> FALSE, index_revision |-> 0, sequence |-> 0,
                                planned |-> 0, target |-> Nothing]
    BY DEF Init
  <1>9. ASSUME NEW d \in Demands
        PROVE  /\ demand[d] \in Row(d) /\ demand[d].planned <= demand[d].sequence
               /\ demand[d].index_revision = 0 /\ demand[d].target \in Target(d) \cup {Nothing}
               /\ Settled(d) => IsCurrent(d)
    <2>1. PICK t : t = [role |-> RolesOf(d), resolution |-> ResolutionOf(d)]  OBVIOUS
    <2>2. CASE d \in Planned
      <3>1. demand[d] = [inspected |-> TRUE, index_revision |-> 0, sequence |-> 1,
                         planned |-> 1, target |-> t]
        BY <1>8, <2>1, <2>2
      <3>2. t \in Target(d) /\ t # Nothing /\ t.role = RolesOf(d)
            /\ \A m \in Modules[d] : t.resolution[m] = Resolve(m, Home[d])
        BY <1>7, <2>1, CatalogAssumption DEF CatalogAssumption
      <3>3. IsCurrent(d)  BY <3>1, <3>2 DEF IsCurrent
      <3> QED  BY <3>1, <3>2, <3>3 DEF Row
    <2>3. CASE d \notin Planned
      <3>1. demand[d] = [inspected |-> FALSE, index_revision |-> 0, sequence |-> 0,
                         planned |-> 0, target |-> Nothing]
        BY <1>8, <2>3
      <3> QED  BY <3>1 DEF Row, Settled
    <2> QED  BY <2>2, <2>3
  <1>10. TypeOK
    <2>1. \A d \in Demands : demand[d].index_revision <= Len(changes)  BY <1>4, <1>9
    <2> QED  BY <1>1, <1>2, <1>3, <1>4, <1>5, <1>6, <1>9, <2>1 DEF TypeOK
  <1>11. RowsTyped /\ RolesTyped  BY <1>4, <1>6, <1>8, <1>9 DEF RowsTyped, RolesTyped
  <1>12. MeetingIsPairing  BY <1>2 DEF MeetingIsPairing
  <1>13. PlansFollow  BY <1>6 DEF PlansFollow
  <1>14. Chased  BY <1>9 DEF Chased, Reached
  <1> QED  BY <1>3, <1>10, <1>11, <1>12, <1>13, <1>14 DEF IInv

LEMMA NextKeeps == IInv /\ [Next]_vars => IInv'
  <1> SUFFICES ASSUME IInv, [Next]_vars PROVE IInv'  OBVIOUS
  <1>1. CASE \E f \in Files, s \in Scopes : AcceptFile(f, s)  BY <1>1, AcceptKeeps
  <1>2. CASE \E f \in Files : LoseLocation(f)  BY <1>2, LoseKeeps
  <1>3. CASE \E p \in Pairs, state \in {"active", "withdrawn"} : ReviewPair(p, state)
    BY <1>3, ReviewKeeps
  <1>4. CASE \E ws \in Workspaces, m \in Identities, role \in {"owned", "dependency"} :
                DeclareModuleRole(ws, m, role)
    BY <1>4, DeclareKeeps
  <1>5. CASE FanoutNext  BY <1>5, FanoutKeeps
  <1>6. CASE \E ws \in Workspaces : FanoutWorkspaceRoleNext(ws)  BY <1>6, RoleFanoutKeeps
  <1>7. CASE \E d \in Demands : Plans(d)
    <2>1. PICK d \in Demands : Plans(d)  BY <1>7
    <2>2. CASE RegisterInspection(d)  BY <2>2, RegisterKeeps
    <2>3. CASE Snapshot(d)  BY <2>3, SnapshotKeeps
    <2>4. CASE FreezeTarget(d)  BY <2>4, FreezeKeeps
    <2>5. CASE DropPlan(d)  BY <2>5, DropKeeps
    <2> QED  BY <2>1, <2>2, <2>3, <2>4, <2>5 DEF Plans
  <1>8. CASE UNCHANGED vars  BY <1>8, StutterKeeps
  <1> QED  BY <1>1, <1>2, <1>3, <1>4, <1>5, <1>6, <1>7, <1>8 DEF Next

-----------------------------------------------------------------------------
(* Theorems                                                                *)

\* The inductive invariant holds throughout, for any files, scopes and demands.
THEOREM Invariance == Spec => []IInv
  <1> QED  BY InitKeeps, NextKeeps, PTL DEF Spec

\* No change of the catalog or of the roles passes by a demand that it bears on: when
\* planner and fan-out are done with it, its target is what a plan made now would be.
THEOREM NobodyIsPassedBy == Spec => []NobodyIsMissed
  <1>1. IInv => NobodyIsMissed
    <2> SUFFICES ASSUME IInv, NEW d \in Reached, AtRest(d) PROVE IsCurrent(d)
      BY DEF NobodyIsMissed
    <2>1. d \in Demands /\ Home[d] \in Workspaces  BY ModulesOfDemand DEF Reached
    <2>2. Settled(d) /\ CaughtUp(d)  BY DEF AtRest, Settled
    <2>3. Len(changes) \in Nat /\ Len(declared[Home[d]]) \in Nat
      BY <2>1, LenProperties DEF IInv, TypeOK
    <2>4. ~ Coming(d)
      <3>1. cursor.revision = Len(changes) /\ cursor.after = 0  BY <2>2 DEF CaughtUp
      <3> QED  BY <2>3, <3>1 DEF Coming, Ahead
    <2>5. ~ RoleComing(d)
      <3>1. /\ role_cursor[Home[d]].revision = Len(declared[Home[d]])
            /\ role_cursor[Home[d]].after = 0
        BY <2>2 DEF CaughtUp
      <3> QED  BY <2>3, <3>1 DEF RoleComing, Ahead
    <2> QED  BY <2>2, <2>4, <2>5 DEF IInv, Chased
  <1> QED  BY <1>1, Invariance, PTL

\* What refresh_availability stored with a binding is what it would store now.
THEOREM StoredAvailability == Spec => []AvailabilityIsCurrent
  <1>1. IInv => AvailabilityIsCurrent  BY DEF IInv
  <1> QED  BY <1>1, Invariance, PTL

\* Rows keep their types, and two files that a workspace sees together are a pair.
THEOREM PairsAreThere == Spec => []PlansAreSound
  <1>1. IInv => PlansAreSound
    <2> SUFFICES ASSUME IInv PROVE PlansAreSound  OBVIOUS
    <2>1. PairsAreComplete
      BY VisibleMeets DEF PairsAreComplete, IInv, MeetingIsPairing
    <2> QED  BY <2>1 DEF PlansAreSound, IInv
  <1> QED  BY <1>1, Invariance, PTL

\* What the catalog derives from its files is complete and up to date, for any number
\* of files, workspaces, bindings and concurrent registrations.
THEOREM DerivedCatalog == Spec => []CatalogIsDerived
  BY StoredAvailability, PairsAreThere, PTL DEF CatalogIsDerived
-----------------------------------------------------------------------------
(* PublicSymbols: one active job per occurrence, and what its workers write. *)

\* The modules of a job are listed all at once.
AllListed(items) == \A m \in PdbModules : items[m] # "unknown"

\* What a worker has found so far holds every verdict of the row it writes to.
WorkerIsSound(w) ==
    LET x == pdbWorker[w] IN
    x.pc # "idle" =>
       /\ x.job \in PdbJobs
       /\ pdbJob[x.job].status # "absent"
       /\ x.generation <= pdbTask[x.job].generation
       /\ x.items = NoItems \/ AllListed(x.items)
       /\ x.pc \in {"next", "fetch"} => AllListed(x.items)
       /\ x.pc = "fetch" => Undecided(x.items) # {}
       /\ PdbClaimIsCurrent(w) =>
             \A m \in PdbModules : pdbJob[x.job].items[m] \notin OpenItem =>
                x.items[m] = pdbJob[x.job].items[m]

JobIsSound(j) ==
    /\ pdbJob[j].items = NoItems \/ AllListed(pdbJob[j].items)
    /\ pdbJob[j].status = "absent" =>
          pdbTask[j].copies = 0 /\ pdbTask[j].intent = "absent" /\ pdbTask[j].outcome = "absent"
    /\ pdbJob[j].status = "completed" =>
          /\ \A m \in PdbModules : pdbJob[j].items[m] \notin OpenItem
          /\ pdbTask[j].outcome = "succeeded"
    /\ PdbActive(j) => pdbTask[j].intent # "absent" /\ pdbTask[j].outcome # "succeeded"

\* A generation of a job's task is one worker's.
ClaimsDiffer ==
    \A v, w \in PdbWorkers :
       /\ pdbWorker[v].pc # "idle" /\ pdbWorker[w].pc # "idle"
       /\ pdbWorker[v].job = pdbWorker[w].job
       /\ pdbWorker[v].generation = pdbWorker[w].generation
       => v = w

PdbInv == /\ PdbTypeOK
          /\ \A i, j \in PdbJobs : PdbActive(i) /\ PdbActive(j) => i = j
          /\ \A j \in PdbJobs : JobIsSound(j)
          /\ \A w \in PdbWorkers : WorkerIsSound(w)
          /\ ClaimsDiffer

USE PublicSymbolsAssumption

\* A set of numbers has a least one.
LEMMA LeastOf ==
  ASSUME NEW S \in SUBSET Nat, S # {}
  PROVE  \E m \in S : \A n \in S : m <= n
  <1> DEFINE less == OpToRel(<, Nat)
  <1>1. \A x, y \in Nat : <<x, y>> \in less <=> x < y  BY DEF OpToRel
  <1>2. IsWellFoundedOn(less, Nat)  BY NatLessThanWellFounded
  <1> HIDE DEF less
  <1>3. PICK m \in S : \A n \in S : ~(<<n, m>> \in less)  BY <1>2, WFMin
  <1>4. \A n \in S : ~(n < m)  BY <1>1, <1>3
  <1> QED  BY <1>4

\* The undecided module that comes next is one of them.
LEMMA FirstIsUndecided ==
  ASSUME NEW items, Undecided(items) # {}
  PROVE  FirstUndecided(items) \in Undecided(items)
  <1>1. Undecided(items) \subseteq Nat  BY DEF Undecided
  <1>2. \E m \in Undecided(items) : \A i \in Undecided(items) : m <= i  BY <1>1, LeastOf
  <1> QED  BY <1>2 DEF FirstUndecided

\* A list of targets has a state for every module.
LEMMA TargetsAreListed ==
  ASSUME NEW r
  PROVE  PdbTargets(r) \in PdbItems /\ AllListed(PdbTargets(r))
  BY DEF PdbTargets, PdbItems, ItemStates, AllListed

\* The list of a job that was not looked at has no verdict.
LEMMA NoItemsAreItems == NoItems \in PdbItems /\ \A m \in PdbModules : NoItems[m] = "unknown"
  BY DEF NoItems, PdbItems, ItemStates

\* A worker without a job.
LEMMA PdbIdleIsIdle == PdbIdle \in PdbWorkerState /\ PdbIdle.pc = "idle"
  BY NoItemsAreItems DEF PdbIdle, PdbWorkerState

\* No job and idle workers satisfy the invariant.
LEMMA PdbInitInv == PdbInit => PdbInv
  <1> SUFFICES ASSUME PdbInit PROVE PdbInv  OBVIOUS
  <1>1. PdbTypeOK
    BY NoItemsAreItems, PdbIdleIsIdle DEF PdbInit, PdbTypeOK, PdbJobRow, PdbTaskRow
  <1>2. \A j \in PdbJobs : /\ pdbJob[j].status = "absent" /\ pdbJob[j].items = NoItems
                          /\ pdbTask[j].copies = 0 /\ pdbTask[j].intent = "absent"
                          /\ pdbTask[j].outcome = "absent"
    BY DEF PdbInit
  <1>3. \A w \in PdbWorkers : pdbWorker[w].pc = "idle"  BY PdbIdleIsIdle DEF PdbInit
  <1>4. \A j \in PdbJobs : JobIsSound(j) /\ ~PdbActive(j)  BY <1>2 DEF JobIsSound, PdbActive
  <1>5. (\A w \in PdbWorkers : WorkerIsSound(w)) /\ ClaimsDiffer
    BY <1>3 DEF WorkerIsSound, ClaimsDiffer
  <1> QED  BY <1>1, <1>4, <1>5 DEF PdbInv

-----------------------------------------------------------------------------
\* A step that is about one job, and the workers in W at most: what it must keep.
PdbStepIsSound(j, W) ==
    /\ PdbTypeOK'
    /\ \A i \in PdbJobs \ {j} : pdbJob'[i] = pdbJob[i] /\ pdbTask'[i] = pdbTask[i]
    /\ \A v \in PdbWorkers \ W : pdbWorker'[v] = pdbWorker[v]
    /\ JobIsSound(j)'
    /\ PdbActive(j)' => \A i \in PdbJobs \ {j} : ~PdbActive(i)
    /\ pdbJob'[j].status = "absent" => pdbJob[j].status = "absent"
    /\ pdbTask[j].generation <= pdbTask'[j].generation
    /\ \A v \in PdbWorkers \ W :
          /\ pdbWorker[v].pc # "idle" /\ pdbWorker[v].job = j
          /\ pdbTask'[j].generation = pdbWorker[v].generation /\ pdbTask'[j].outcome = "running"
          => /\ pdbTask[j].generation = pdbWorker[v].generation /\ pdbTask[j].outcome = "running"
             /\ \A m \in PdbModules : pdbJob'[j].items[m] \notin OpenItem =>
                   pdbJob'[j].items[m] = pdbJob[j].items[m]
    /\ \A w \in W :
          /\ WorkerIsSound(w)'
          /\ \A v \in PdbWorkers :
                /\ pdbWorker'[v].pc # "idle" /\ pdbWorker'[w].pc # "idle"
                /\ pdbWorker'[v].job = pdbWorker'[w].job
                /\ pdbWorker'[v].generation = pdbWorker'[w].generation
                => v = w
    /\ \A m \in PdbModules : pdbJob[j].items[m] \notin OpenItem =>
          pdbJob'[j].items[m] = pdbJob[j].items[m]
    /\ PdbEnded(j) => PdbEnded(j)'
    /\ pdbJob[j].status = "completed" => pdbJob'[j].status = "completed"

Stands == \A j \in PdbJobs :
             /\ \A m \in PdbModules : pdbJob[j].items[m] \notin OpenItem =>
                   pdbJob'[j].items[m] = pdbJob[j].items[m]
             /\ PdbEnded(j) => PdbEnded(j)'
             /\ pdbJob[j].status = "completed" => pdbJob'[j].status = "completed"

\* What such a step keeps, and that no verdict is taken back by it.
LEMMA SoundStepKeeps ==
  ASSUME PdbInv, NEW j \in PdbJobs, NEW W \in SUBSET PdbWorkers, PdbStepIsSound(j, W)
  PROVE  PdbInv' /\ Stands
  <1> USE DEF PdbStepIsSound
  <1>1. \A i \in PdbJobs \ {j} : JobIsSound(i)' /\ (PdbActive(i)' <=> PdbActive(i))
    BY DEF PdbInv, JobIsSound, PdbActive
  <1>2. \A i, k \in PdbJobs : PdbActive(i)' /\ PdbActive(k)' => i = k
    BY <1>1 DEF PdbInv
  <1>3. ASSUME NEW v \in PdbWorkers \ W PROVE WorkerIsSound(v)'
    <2> SUFFICES ASSUME pdbWorker[v].pc # "idle"
                 PROVE  /\ pdbWorker[v].job \in PdbJobs
                        /\ pdbJob'[pdbWorker[v].job].status # "absent"
                        /\ pdbWorker[v].generation <= pdbTask'[pdbWorker[v].job].generation
                        /\ pdbWorker[v].items = NoItems \/ AllListed(pdbWorker[v].items)
                        /\ pdbWorker[v].pc \in {"next", "fetch"} => AllListed(pdbWorker[v].items)
                        /\ pdbWorker[v].pc = "fetch" => Undecided(pdbWorker[v].items) # {}
                        /\ /\ pdbTask'[pdbWorker[v].job].generation = pdbWorker[v].generation
                           /\ pdbTask'[pdbWorker[v].job].outcome = "running"
                           => \A m \in PdbModules :
                                pdbJob'[pdbWorker[v].job].items[m] \notin OpenItem =>
                                  pdbWorker[v].items[m] = pdbJob'[pdbWorker[v].job].items[m]
      BY <1>3 DEF WorkerIsSound, PdbClaimIsCurrent
    <2>1. WorkerIsSound(v)  BY DEF PdbInv
    <2>2. CASE pdbWorker[v].job # j
      BY <2>1, <2>2 DEF WorkerIsSound, PdbClaimIsCurrent
    <2>3. CASE pdbWorker[v].job = j
      <3>1. /\ pdbTask[j].generation \in Nat /\ pdbTask'[j].generation \in Nat
            /\ pdbWorker[v].generation \in Nat
        BY DEF PdbInv, PdbTypeOK, PdbTaskRow, PdbWorkerState
      <3>2. pdbWorker[v].generation <= pdbTask'[j].generation
        BY <2>1, <2>3, <3>1 DEF WorkerIsSound
      <3> QED  BY <2>1, <2>3, <3>2 DEF WorkerIsSound, PdbClaimIsCurrent
    <2> QED  BY <2>2, <2>3
  <1>4. ClaimsDiffer'
    <2> SUFFICES ASSUME NEW v \in PdbWorkers, NEW w \in PdbWorkers,
                        pdbWorker'[v].pc # "idle", pdbWorker'[w].pc # "idle",
                        pdbWorker'[v].job = pdbWorker'[w].job,
                        pdbWorker'[v].generation = pdbWorker'[w].generation
                 PROVE  v = w
      BY DEF ClaimsDiffer
    <2>1. CASE v \in W \/ w \in W  BY <2>1
    <2>2. CASE v \notin W /\ w \notin W  BY <2>2 DEF PdbInv, ClaimsDiffer
    <2> QED  BY <2>1, <2>2
  <1>5. PdbInv'  BY <1>1, <1>2, <1>3, <1>4 DEF PdbInv
  <1>6. Stands  BY DEF Stands, PdbEnded
  <1> QED  BY <1>5, <1>6

\* The rows, and what is known about them.
LEMMA PdbRows ==
  ASSUME PdbInv
  PROVE  /\ \A j \in PdbJobs : pdbJob[j] \in PdbJobRow /\ pdbTask[j] \in PdbTaskRow /\ JobIsSound(j)
         /\ \A w \in PdbWorkers : pdbWorker[w] \in PdbWorkerState /\ WorkerIsSound(w)
         /\ pdbFaults \in Nat
  BY DEF PdbInv, PdbTypeOK

\* Steps of the hand-off: they take no claim.
TaskMoveIsSound(j, t) ==
    /\ t \in PdbTaskRow
    /\ pdbTask' = [pdbTask EXCEPT ![j] = t]
    /\ pdbFaults' \in Nat
    /\ UNCHANGED <<pdbRequest, pdbJob, pdbWorker>>
    /\ pdbTask[j].generation <= t.generation
    /\ t.outcome = "running" =>
          pdbTask[j].outcome = "running" /\ pdbTask[j].generation = t.generation
    /\ pdbJob[j].status = "absent" => t.copies = 0 /\ t.intent = "absent" /\ t.outcome = "absent"
    /\ pdbJob[j].status = "completed" => t.outcome = "succeeded"
    /\ PdbActive(j) => t.intent # "absent" /\ t.outcome # "succeeded"

\* What a change of the task alone keeps.
LEMMA TaskMoves ==
  ASSUME PdbInv, NEW j \in PdbJobs, NEW t, TaskMoveIsSound(j, t)
  PROVE  PdbInv' /\ Stands
  <1> USE DEF TaskMoveIsSound
  <1>1. PdbTypeOK'  BY DEF PdbInv, PdbTypeOK
  <1>2. pdbTask'[j] = t /\ \A i \in PdbJobs \ {j} : pdbTask'[i] = pdbTask[i]
    BY DEF PdbInv, PdbTypeOK
  <1>3. JobIsSound(j)'  BY <1>2, PdbRows DEF JobIsSound, PdbActive
  <1>4. PdbActive(j)' => \A i \in PdbJobs \ {j} : ~PdbActive(i)  BY DEF PdbInv, PdbActive
  <1>5. PdbEnded(j) => PdbEnded(j)'  BY DEF PdbEnded
  <1>6. PdbStepIsSound(j, {})  BY <1>1, <1>2, <1>3, <1>4, <1>5 DEF PdbStepIsSound
  <1> QED  BY <1>6, SoundStepKeeps

\* Steps of a worker that write no job.
WorkerMoveIsSound(w, x) ==
    /\ x \in PdbWorkerState
    /\ pdbWorker[w].pc # "idle"
    /\ pdbWorker' = [pdbWorker EXCEPT ![w] = x]
    /\ UNCHANGED <<pdbRequest, pdbJob, pdbTask, pdbFaults>>
    /\ x.pc # "idle" =>
          /\ x.job = pdbWorker[w].job /\ x.generation = pdbWorker[w].generation
          /\ x.items = NoItems \/ AllListed(x.items)
          /\ x.pc \in {"next", "fetch"} => AllListed(x.items)
          /\ x.pc = "fetch" => Undecided(x.items) # {}
          /\ \A m \in PdbModules : pdbWorker[w].items[m] \notin OpenItem =>
                x.items[m] = pdbWorker[w].items[m]

\* What a change of one worker alone keeps.
LEMMA PdbWorkerMoves ==
  ASSUME PdbInv, NEW w \in PdbWorkers, NEW x, WorkerMoveIsSound(w, x)
  PROVE  PdbInv' /\ Stands
  <1> USE DEF WorkerMoveIsSound
  <1>0. PICK j \in PdbJobs : j = pdbWorker[w].job  BY PdbRows DEF WorkerIsSound
  <1>1. PdbTypeOK'  BY DEF PdbInv, PdbTypeOK
  <1>2. pdbWorker'[w] = x /\ \A v \in PdbWorkers \ {w} : pdbWorker'[v] = pdbWorker[v]
    BY DEF PdbInv, PdbTypeOK
  <1>3. WorkerIsSound(w)  BY PdbRows
  <1>4. WorkerIsSound(w)'  BY <1>0, <1>2, <1>3 DEF WorkerIsSound, PdbClaimIsCurrent
  <1>5. JobIsSound(j)'  BY PdbRows DEF JobIsSound, PdbActive
  <1>6. PdbActive(j)' => \A i \in PdbJobs \ {j} : ~PdbActive(i)  BY DEF PdbInv, PdbActive
  <1>7. PdbEnded(j) => PdbEnded(j)'  BY DEF PdbEnded
  <1>8. \A v \in PdbWorkers :
           /\ pdbWorker'[v].pc # "idle" /\ pdbWorker'[w].pc # "idle"
           /\ pdbWorker'[v].job = pdbWorker'[w].job
           /\ pdbWorker'[v].generation = pdbWorker'[w].generation
           => v = w
    BY <1>2 DEF PdbInv, ClaimsDiffer
  <1>9. pdbTask[j].generation \in Nat  BY PdbRows DEF PdbTaskRow
  <1>10. PdbStepIsSound(j, {w})
    BY <1>1, <1>2, <1>4, <1>5, <1>6, <1>7, <1>8, <1>9 DEF PdbStepIsSound
  <1> QED  BY <1>10, SoundStepKeeps

\* A worker whose claim is current saves what it has found.
SaveIsSound(w, j, items, x) ==
    /\ items \in PdbItems /\ x \in PdbWorkerState
    /\ pdbWorker[w].pc # "idle" /\ j = pdbWorker[w].job
    /\ PdbClaimIsCurrent(w)
    /\ pdbJob' = [pdbJob EXCEPT ![j].items = items]
    /\ pdbWorker' = [pdbWorker EXCEPT ![w] = x]
    /\ UNCHANGED <<pdbRequest, pdbTask, pdbFaults>>
    /\ x.job = j /\ x.generation = pdbWorker[w].generation /\ x.items = items
    /\ x.pc \in {"next", "fetch"} /\ AllListed(items)
    /\ x.pc = "fetch" => Undecided(items) # {}
    /\ \A m \in PdbModules : pdbWorker[w].items[m] \notin OpenItem =>
          items[m] = pdbWorker[w].items[m]

\* What a save under a current claim keeps.
LEMMA CurrentSaves ==
  ASSUME PdbInv, NEW w \in PdbWorkers, NEW j \in PdbJobs, NEW items, NEW x,
         SaveIsSound(w, j, items, x)
  PROVE  PdbInv' /\ Stands
  <1> USE DEF SaveIsSound
  <1> DEFINE row == [pdbJob[j] EXCEPT !.items = items]
  <1>1. /\ row \in PdbJobRow /\ row.items = items /\ row.status = pdbJob[j].status
    BY PdbRows DEF PdbJobRow
  <1>0. pdbJob' = [pdbJob EXCEPT ![j] = row]  BY DEF PdbInv, PdbTypeOK
  <1> HIDE DEF row
  <1>2. PdbTypeOK'  BY <1>0, <1>1 DEF PdbInv, PdbTypeOK
  <1>3. /\ pdbJob'[j] = row /\ pdbWorker'[w] = x
        /\ \A i \in PdbJobs \ {j} : pdbJob'[i] = pdbJob[i]
        /\ \A v \in PdbWorkers \ {w} : pdbWorker'[v] = pdbWorker[v]
    BY <1>0 DEF PdbInv, PdbTypeOK
  <1>4. WorkerIsSound(w) /\ JobIsSound(j)  BY PdbRows
  <1>5. pdbTask[j].outcome = "running" /\ pdbTask[j].generation = pdbWorker[w].generation
    BY DEF PdbClaimIsCurrent
  <1>6. JobIsSound(j)'  BY <1>1, <1>3, <1>4, <1>5 DEF JobIsSound, PdbActive
  <1>7. WorkerIsSound(w)'  BY <1>1, <1>3, <1>4 DEF WorkerIsSound, PdbClaimIsCurrent
  <1>8. PdbActive(j)' => \A i \in PdbJobs \ {j} : ~PdbActive(i)
    BY <1>1, <1>3 DEF PdbInv, PdbActive
  <1>9. PdbEnded(j) => PdbEnded(j)'  BY <1>1, <1>3 DEF PdbEnded
  <1>10. \A v \in PdbWorkers :
            /\ pdbWorker'[v].pc # "idle" /\ pdbWorker'[v].job = j
            /\ pdbWorker'[v].generation = pdbWorker[w].generation
            => v = w
    BY <1>3 DEF PdbInv, ClaimsDiffer
  <1>11. \A m \in PdbModules : pdbJob[j].items[m] \notin OpenItem => items[m] = pdbJob[j].items[m]
    BY <1>4 DEF WorkerIsSound
  <1>12. pdbTask[j].generation \in Nat  BY PdbRows DEF PdbTaskRow
  <1>13. \A v \in PdbWorkers \ {w} :
            ~(/\ pdbWorker[v].pc # "idle" /\ pdbWorker[v].job = j
              /\ pdbTask'[j].generation = pdbWorker[v].generation)
    BY <1>3, <1>5, <1>10
  <1>14. \A v \in PdbWorkers :
            /\ pdbWorker'[v].pc # "idle" /\ pdbWorker'[w].pc # "idle"
            /\ pdbWorker'[v].job = pdbWorker'[w].job
            /\ pdbWorker'[v].generation = pdbWorker'[w].generation
            => v = w
    BY <1>3, <1>10
  <1>15. /\ pdbJob'[j].status = "absent" => pdbJob[j].status = "absent"
         /\ pdbTask'[j] = pdbTask[j] /\ pdbTask[j].generation <= pdbTask'[j].generation
         /\ pdbJob[j].status = "completed" => pdbJob'[j].status = "completed"
         /\ \A m \in PdbModules : pdbJob[j].items[m] \notin OpenItem =>
               pdbJob'[j].items[m] = pdbJob[j].items[m]
    BY <1>1, <1>3, <1>11, <1>12
  <1>16. \A i \in PdbJobs \ {j} : pdbJob'[i] = pdbJob[i] /\ pdbTask'[i] = pdbTask[i]
    BY <1>3
  <1>17. \A v \in PdbWorkers \ {w} :
            /\ pdbWorker[v].pc # "idle" /\ pdbWorker[v].job = j
            /\ pdbTask'[j].generation = pdbWorker[v].generation /\ pdbTask'[j].outcome = "running"
            => /\ pdbTask[j].generation = pdbWorker[v].generation /\ pdbTask[j].outcome = "running"
               /\ \A m \in PdbModules : pdbJob'[j].items[m] \notin OpenItem =>
                     pdbJob'[j].items[m] = pdbJob[j].items[m]
    BY <1>13
  <1>18. \A v \in PdbWorkers \ {w} : pdbWorker'[v] = pdbWorker[v]  BY <1>3
  <1> HIDE DEF SaveIsSound
  <1>19. PdbStepIsSound(j, {w})
    BY <1>2, <1>6, <1>7, <1>8, <1>9, <1>14, <1>15, <1>16, <1>17, <1>18 DEF PdbStepIsSound
  <1> QED  BY <1>19, SoundStepKeeps

\* A worker whose claim is current ends the job.
LEMMA CurrentEnds ==
  ASSUME PdbInv, NEW w \in PdbWorkers, pdbWorker[w].pc # "idle", PdbClaimIsCurrent(w),
         NEW j \in PdbJobs, j = pdbWorker[w].job, NEW status \in {"completed", "failed"},
         pdbJob' = [pdbJob EXCEPT ![j].items = pdbWorker[w].items, ![j].status = status],
         pdbTask' = [pdbTask EXCEPT ![j] = PdbTaskFinished(@)],
         pdbWorker' = [pdbWorker EXCEPT ![w] = PdbIdle],
         UNCHANGED <<pdbRequest, pdbFaults>>,
         status = "completed" => \A m \in PdbModules : pdbWorker[w].items[m] \notin OpenItem
  PROVE  PdbInv' /\ Stands
  <1> DEFINE row == [pdbJob[j] EXCEPT !.items = pdbWorker[w].items, !.status = status]
             t == PdbTaskFinished(pdbTask[j])
  <1>1. /\ row \in PdbJobRow /\ row.items = pdbWorker[w].items /\ row.status = status
    <2>1. pdbWorker[w].items \in PdbItems  BY PdbRows DEF PdbWorkerState
    <2>2. pdbJob[j] \in PdbJobRow  BY PdbRows
    <2> QED  BY <2>1, <2>2 DEF PdbJobRow
  <1>2. /\ t \in PdbTaskRow /\ t.outcome = "succeeded" /\ t.generation = pdbTask[j].generation
        /\ t.copies = pdbTask[j].copies /\ t.intent = pdbTask[j].intent
    <2>1. pdbTask[j] \in PdbTaskRow  BY PdbRows
    <2> QED  BY <2>1 DEF PdbTaskRow, PdbTaskFinished
  <1>0. pdbJob' = [pdbJob EXCEPT ![j] = row] /\ pdbTask' = [pdbTask EXCEPT ![j] = t]
    BY DEF PdbInv, PdbTypeOK
  <1> HIDE DEF row, t
  <1>3. PdbTypeOK'  BY <1>0, <1>1, <1>2, PdbIdleIsIdle DEF PdbInv, PdbTypeOK
  <1>4. /\ pdbJob'[j] = row /\ pdbTask'[j] = t /\ pdbWorker'[w] = PdbIdle
        /\ \A i \in PdbJobs \ {j} : pdbJob'[i] = pdbJob[i] /\ pdbTask'[i] = pdbTask[i]
        /\ \A v \in PdbWorkers \ {w} : pdbWorker'[v] = pdbWorker[v]
    BY <1>0 DEF PdbInv, PdbTypeOK
  <1>5. WorkerIsSound(w) /\ JobIsSound(j)  BY PdbRows
  <1>6. pdbTask[j].outcome = "running" /\ pdbJob[j].status # "completed"
    BY <1>5 DEF PdbClaimIsCurrent, JobIsSound
  <1>7. JobIsSound(j)'  BY <1>1, <1>2, <1>4, <1>5 DEF JobIsSound, WorkerIsSound, PdbActive
  <1>8. WorkerIsSound(w)'  BY <1>4, PdbIdleIsIdle DEF WorkerIsSound
  <1>9. ~PdbActive(j)' /\ PdbEnded(j)'  BY <1>1, <1>4 DEF PdbActive, PdbEnded
  <1>10. \A m \in PdbModules : pdbJob[j].items[m] \notin OpenItem =>
            pdbJob'[j].items[m] = pdbJob[j].items[m]
    <2>1. pdbJob'[j].items = pdbWorker[w].items  BY <1>1, <1>4
    <2>2. \A m \in PdbModules : pdbJob[j].items[m] \notin OpenItem =>
             pdbWorker[w].items[m] = pdbJob[j].items[m]
      BY <1>5 DEF WorkerIsSound
    <2> QED  BY <2>1, <2>2
  <1>11. pdbTask[j].generation \in Nat  BY PdbRows DEF PdbTaskRow
  <1>12. /\ pdbTask[j].generation <= pdbTask'[j].generation
         /\ pdbTask'[j].outcome = "succeeded" /\ pdbWorker'[w].pc = "idle"
         /\ pdbJob'[j].status # "absent"
    <2>1. pdbTask'[j].generation = pdbTask[j].generation /\ pdbTask'[j].outcome = "succeeded"
      BY <1>2, <1>4
    <2>2. pdbWorker'[w].pc = "idle" /\ pdbJob'[j].status # "absent"
      BY <1>1, <1>4, PdbIdleIsIdle
    <2> QED  BY <1>11, <2>1, <2>2
  <1>13. PdbStepIsSound(j, {w})
    BY <1>3, <1>4, <1>6, <1>7, <1>8, <1>9, <1>10, <1>12 DEF PdbStepIsSound
  <1> QED  BY <1>13, SoundStepKeeps

-----------------------------------------------------------------------------
\* A request finds the active job of the occurrence or makes the only one.
LEMMA RequestSteps ==
  ASSUME PdbInv, NEW k \in PdbKeys, CreatePublicSymbolJob(k)
  PROVE  PdbInv' /\ Stands
  <1>1. CASE \E j \in PdbJobs : /\ pdbRequest' = [pdbRequest EXCEPT ![k] = j]
                                /\ UNCHANGED <<pdbJob, pdbTask>>
    <2>1. PICK j \in PdbJobs : /\ pdbRequest' = [pdbRequest EXCEPT ![k] = j]
                               /\ UNCHANGED <<pdbJob, pdbTask, pdbWorker, pdbFaults>>
      BY <1>1 DEF CreatePublicSymbolJob
    <2>2. PdbTypeOK'  BY <2>1 DEF PdbInv, PdbTypeOK
    <2> QED  BY <2>1, <2>2 DEF PdbInv, JobIsSound, WorkerIsSound, ClaimsDiffer, PdbClaimIsCurrent,
                               PdbActive, PdbEnded, Stands
  <1>2. CASE /\ \A i \in PdbJobs : ~PdbActive(i)
             /\ \E j \in PdbJobs, run \in PdbRuns :
                  /\ pdbJob[j].status = "absent"
                  /\ pdbJob' = [pdbJob EXCEPT ![j].status = "queued", ![j].source = run]
                  /\ pdbTask' = [pdbTask EXCEPT ![j].intent = "pending"]
                  /\ pdbRequest' = [pdbRequest EXCEPT ![k] = j]
    <2>1. PICK j \in PdbJobs, run \in PdbRuns :
             /\ pdbJob[j].status = "absent"
             /\ pdbJob' = [pdbJob EXCEPT ![j].status = "queued", ![j].source = run]
             /\ pdbTask' = [pdbTask EXCEPT ![j].intent = "pending"]
             /\ pdbRequest' = [pdbRequest EXCEPT ![k] = j]
             /\ UNCHANGED <<pdbWorker, pdbFaults>>
      BY <1>2 DEF CreatePublicSymbolJob
    <2> DEFINE row == [pdbJob[j] EXCEPT !.status = "queued", !.source = run]
               t == [pdbTask[j] EXCEPT !.intent = "pending"]
    <2>2. /\ row \in PdbJobRow /\ row.items = pdbJob[j].items /\ row.status = "queued"
      BY <2>1, PdbRows DEF PdbJobRow
    <2>3. /\ t \in PdbTaskRow /\ t.outcome = pdbTask[j].outcome
          /\ t.generation = pdbTask[j].generation /\ t.intent = "pending"
      BY <2>1, PdbRows DEF PdbTaskRow
    <2>0. pdbJob' = [pdbJob EXCEPT ![j] = row] /\ pdbTask' = [pdbTask EXCEPT ![j] = t]
      BY <2>1 DEF PdbInv, PdbTypeOK
    <2> HIDE DEF row, t
    <2>4. PdbTypeOK'  BY <2>0, <2>1, <2>2, <2>3 DEF PdbInv, PdbTypeOK
    <2>5. /\ pdbJob'[j] = row /\ pdbTask'[j] = t
          /\ \A i \in PdbJobs \ {j} : pdbJob'[i] = pdbJob[i] /\ pdbTask'[i] = pdbTask[i]
      BY <2>0 DEF PdbInv, PdbTypeOK
    <2>6. JobIsSound(j)  BY PdbRows
    <2>7. JobIsSound(j)'  BY <2>1, <2>2, <2>3, <2>5, <2>6 DEF JobIsSound, PdbActive
    <2>8. ~PdbEnded(j)  BY <2>1 DEF PdbEnded
    <2>9. pdbTask[j].generation \in Nat  BY PdbRows DEF PdbTaskRow
    <2>10. /\ pdbTask[j].generation <= pdbTask'[j].generation
           /\ pdbTask'[j].generation = pdbTask[j].generation
           /\ pdbTask'[j].outcome = pdbTask[j].outcome
           /\ pdbJob'[j].items = pdbJob[j].items /\ pdbJob'[j].status # "absent"
           /\ pdbWorker' = pdbWorker
      BY <2>1, <2>2, <2>3, <2>5, <2>9
    <2>11. PdbStepIsSound(j, {})
      BY <1>2, <2>1, <2>4, <2>5, <2>7, <2>8, <2>10 DEF PdbStepIsSound
    <2> QED  BY <2>11, SoundStepKeeps
  <1> QED  BY <1>1, <1>2 DEF CreatePublicSymbolJob

\* Deliveries, lost copies and lapsed leases change the task alone.
LEMMA DeliverySteps ==
  ASSUME PdbInv, NEW j \in PdbJobs,
         DeliverPublicSymbols(j) \/ PdbCopyIsLost(j) \/ PdbLeaseLapses(j)
  PROVE  PdbInv' /\ Stands
  <1>1. pdbTask[j] \in PdbTaskRow /\ JobIsSound(j) /\ pdbFaults \in Nat  BY PdbRows
  <1>2. CASE DeliverPublicSymbols(j)
    <2>1. PICK repeated \in {0, 1} :
             /\ repeated <= pdbFaults
             /\ pdbFaults' = pdbFaults - repeated
             /\ pdbTask' = [pdbTask EXCEPT ![j].intent = "published",
                              ![j].copies = @ + 1 + repeated, ![j].deliveries = @ + 1 + repeated]
      BY <1>2 DEF DeliverPublicSymbols
    <2> DEFINE t == [pdbTask[j] EXCEPT !.intent = "published",
                              !.copies = @ + 1 + repeated, !.deliveries = @ + 1 + repeated]
    <2>2. pdbTask' = [pdbTask EXCEPT ![j] = t]  BY <2>1 DEF PdbInv, PdbTypeOK
    <2>3. /\ t \in PdbTaskRow /\ t.generation = pdbTask[j].generation
          /\ t.outcome = pdbTask[j].outcome /\ t.intent = "published"
      <3>1. /\ pdbTask[j].copies + 1 + repeated \in Nat
            /\ pdbTask[j].deliveries + 1 + repeated \in Nat
        BY <1>1 DEF PdbTaskRow
      <3> QED  BY <1>1, <3>1 DEF PdbTaskRow
    <2>4. pdbFaults' \in Nat /\ pdbTask[j].generation \in Nat  BY <1>1, <2>1 DEF PdbTaskRow
    <2>5. pdbTask[j].intent # "absent" /\ UNCHANGED <<pdbRequest, pdbJob, pdbWorker>>
      BY <1>2 DEF DeliverPublicSymbols
    <2> HIDE DEF t
    <2>10. TaskMoveIsSound(j, t)  BY <1>1, <2>2, <2>3, <2>4, <2>5 DEF TaskMoveIsSound, JobIsSound
    <2> QED  BY <2>10, TaskMoves
  <1>3. CASE PdbCopyIsLost(j)
    <2> DEFINE t == [pdbTask[j] EXCEPT !.copies = @ - 1]
    <2>1. pdbTask' = [pdbTask EXCEPT ![j] = t]  BY <1>3 DEF PdbCopyIsLost, PdbInv, PdbTypeOK
    <2>2. /\ t \in PdbTaskRow /\ t.generation = pdbTask[j].generation
          /\ t.outcome = pdbTask[j].outcome /\ t.intent = pdbTask[j].intent
      BY <1>1, <1>3 DEF PdbTaskRow, PdbCopyIsLost
    <2>3. /\ pdbFaults' \in Nat /\ pdbTask[j].generation \in Nat /\ pdbTask[j].copies # 0
          /\ UNCHANGED <<pdbRequest, pdbJob, pdbWorker>>
      BY <1>1, <1>3 DEF PdbTaskRow, PdbCopyIsLost
    <2> HIDE DEF t
    <2>10. TaskMoveIsSound(j, t)  BY <1>1, <2>1, <2>2, <2>3 DEF TaskMoveIsSound, JobIsSound
    <2> QED  BY <2>10, TaskMoves
  <1>4. CASE PdbLeaseLapses(j)
    <2> DEFINE t == [pdbTask[j] EXCEPT !.leased = FALSE]
    <2>1. pdbTask' = [pdbTask EXCEPT ![j] = t]  BY <1>4 DEF PdbLeaseLapses, PdbInv, PdbTypeOK
    <2>2. /\ t \in PdbTaskRow /\ t.generation = pdbTask[j].generation /\ t.copies = pdbTask[j].copies
          /\ t.outcome = pdbTask[j].outcome /\ t.intent = pdbTask[j].intent
      BY <1>1 DEF PdbTaskRow
    <2>3. /\ pdbFaults' \in Nat /\ pdbTask[j].generation \in Nat
          /\ UNCHANGED <<pdbRequest, pdbJob, pdbWorker>>
      BY <1>1, <1>4 DEF PdbTaskRow, PdbLeaseLapses
    <2> HIDE DEF t
    <2>10. TaskMoveIsSound(j, t)  BY <1>1, <2>1, <2>2, <2>3 DEF TaskMoveIsSound, JobIsSound
    <2> QED  BY <2>10, TaskMoves
  <1> QED  BY <1>2, <1>3, <1>4

\* The recovery fails a job whose task cannot go on, or sends the task again.
LEMMA RecoverySteps ==
  ASSUME PdbInv, NEW j \in PdbJobs, RecoverPublicSymbolJob(j) \/ PdbBudgetRunsOut(j)
  PROVE  PdbInv' /\ Stands
  <1>1. pdbTask[j] \in PdbTaskRow /\ pdbJob[j] \in PdbJobRow /\ JobIsSound(j) /\ pdbFaults \in Nat
    BY PdbRows
  <1>2. pdbTask[j].generation \in Nat  BY <1>1 DEF PdbTaskRow
  <1>3. CASE /\ RecoverPublicSymbolJob(j)
             /\ pdbTask' = [pdbTask EXCEPT ![j].intent = "pending"] /\ UNCHANGED pdbJob
    <2> DEFINE t == [pdbTask[j] EXCEPT !.intent = "pending"]
    <2>1. pdbTask' = [pdbTask EXCEPT ![j] = t]  BY <1>3 DEF PdbInv, PdbTypeOK
    <2>2. /\ t \in PdbTaskRow /\ t.generation = pdbTask[j].generation /\ t.copies = pdbTask[j].copies
          /\ t.outcome = pdbTask[j].outcome /\ t.intent = "pending"
      BY <1>1 DEF PdbTaskRow
    <2>3. /\ UNCHANGED <<pdbRequest, pdbJob, pdbWorker, pdbFaults>> /\ pdbJob[j].status # "absent"
      BY <1>3 DEF RecoverPublicSymbolJob, PdbActive
    <2> HIDE DEF t
    <2>10. TaskMoveIsSound(j, t)  BY <1>1, <1>2, <2>1, <2>2, <2>3 DEF TaskMoveIsSound, JobIsSound
    <2> QED  BY <2>10, TaskMoves
  <1>4. CASE /\ RecoverPublicSymbolJob(j)
             /\ pdbTask' = [pdbTask EXCEPT ![j].intent = "dead"]
             /\ pdbJob' = [pdbJob EXCEPT ![j].status = "failed"]
    <2> DEFINE t == [pdbTask[j] EXCEPT !.intent = "dead"]
               row == [pdbJob[j] EXCEPT !.status = "failed"]
    <2>1. pdbTask' = [pdbTask EXCEPT ![j] = t] /\ pdbJob' = [pdbJob EXCEPT ![j] = row]
      BY <1>4 DEF PdbInv, PdbTypeOK
    <2>2. /\ t \in PdbTaskRow /\ t.generation = pdbTask[j].generation /\ t.copies = pdbTask[j].copies
          /\ t.outcome = pdbTask[j].outcome /\ t.intent = "dead"
      BY <1>1 DEF PdbTaskRow
    <2>3. row \in PdbJobRow /\ row.status = "failed" /\ row.items = pdbJob[j].items
      BY <1>1 DEF PdbJobRow
    <2>4. UNCHANGED <<pdbRequest, pdbWorker, pdbFaults>> /\ pdbJob[j].status # "completed"
      BY <1>4 DEF RecoverPublicSymbolJob, PdbActive
    <2> HIDE DEF t, row
    <2>5. PdbTypeOK'  BY <2>1, <2>2, <2>3, <2>4 DEF PdbInv, PdbTypeOK
    <2>6. /\ pdbJob'[j] = row /\ pdbTask'[j] = t
          /\ \A i \in PdbJobs \ {j} : pdbJob'[i] = pdbJob[i] /\ pdbTask'[i] = pdbTask[i]
      BY <2>1 DEF PdbInv, PdbTypeOK
    <2>7. JobIsSound(j)'  BY <1>1, <2>2, <2>3, <2>6 DEF JobIsSound, PdbActive
    <2>8. ~PdbActive(j)' /\ PdbEnded(j)'  BY <2>3, <2>6 DEF PdbActive, PdbEnded
    <2>9. /\ pdbTask[j].generation <= pdbTask'[j].generation
          /\ pdbTask'[j].generation = pdbTask[j].generation
          /\ pdbTask'[j].outcome = pdbTask[j].outcome
          /\ pdbJob'[j].items = pdbJob[j].items /\ pdbJob'[j].status # "absent"
          /\ pdbWorker' = pdbWorker
      BY <1>2, <2>2, <2>3, <2>4, <2>6
    <2>10. PdbStepIsSound(j, {})
      BY <2>4, <2>5, <2>6, <2>7, <2>8, <2>9 DEF PdbStepIsSound
    <2> QED  BY <2>10, SoundStepKeeps
  <1>5. CASE PdbBudgetRunsOut(j)
    <2> DEFINE row == [pdbJob[j] EXCEPT !.budget = "spent"]
    <2>1. pdbJob' = [pdbJob EXCEPT ![j] = row]  BY <1>5 DEF PdbBudgetRunsOut, PdbInv, PdbTypeOK
    <2>2. row \in PdbJobRow /\ row.status = pdbJob[j].status /\ row.items = pdbJob[j].items
      BY <1>1 DEF PdbJobRow
    <2>3. UNCHANGED <<pdbRequest, pdbTask, pdbWorker, pdbFaults>>  BY <1>5 DEF PdbBudgetRunsOut
    <2> HIDE DEF row
    <2>4. PdbTypeOK'  BY <2>1, <2>2, <2>3 DEF PdbInv, PdbTypeOK
    <2>5. pdbJob'[j] = row /\ \A i \in PdbJobs \ {j} : pdbJob'[i] = pdbJob[i]
      BY <2>1 DEF PdbInv, PdbTypeOK
    <2>6. JobIsSound(j)'  BY <1>1, <2>2, <2>3, <2>5 DEF JobIsSound, PdbActive
    <2>7. /\ PdbActive(j)' => \A i \in PdbJobs \ {j} : ~PdbActive(i)
          /\ PdbEnded(j) => PdbEnded(j)'
      BY <2>2, <2>5 DEF PdbActive, PdbEnded, PdbInv
    <2>8. /\ pdbTask[j].generation <= pdbTask'[j].generation
          /\ pdbJob'[j].items = pdbJob[j].items /\ pdbJob'[j].status = pdbJob[j].status
      BY <1>2, <2>2, <2>3, <2>5
    <2>9. PdbStepIsSound(j, {})  BY <2>3, <2>4, <2>5, <2>6, <2>7, <2>8 DEF PdbStepIsSound
    <2> QED  BY <2>9, SoundStepKeeps
  <1> QED  BY <1>3, <1>4, <1>5 DEF RecoverPublicSymbolJob

\* A claim that is granted is newer than any before it.
ClaimIsSound(w, j, t) ==
    /\ t \in PdbTaskRow
    /\ t.generation = pdbTask[j].generation + 1 /\ t.outcome = "running"
    /\ t.intent = pdbTask[j].intent /\ pdbTask[j].outcome # "succeeded"
    /\ pdbTask[j].copies # 0 /\ ~PdbEnded(j) /\ pdbWorker[w].pc = "idle"
    /\ pdbJob' = [pdbJob EXCEPT ![j].status = "running"]
    /\ pdbTask' = [pdbTask EXCEPT ![j] = t]
    /\ pdbWorker' = [pdbWorker EXCEPT ![w] =
          [pc |-> "start", job |-> j, generation |-> t.generation, items |-> pdbJob[j].items]]
    /\ UNCHANGED <<pdbRequest, pdbFaults>>

\* What a granted claim keeps.
LEMMA ClaimGranted ==
  ASSUME PdbInv, NEW w \in PdbWorkers, NEW j \in PdbJobs, NEW t, ClaimIsSound(w, j, t)
  PROVE  PdbInv' /\ Stands
  <1> USE DEF ClaimIsSound
  <1>1. pdbTask[j] \in PdbTaskRow /\ pdbJob[j] \in PdbJobRow /\ JobIsSound(j)  BY PdbRows
  <1>2. pdbTask[j].generation \in Nat /\ t.generation \in Nat  BY <1>1 DEF PdbTaskRow
  <1> DEFINE row == [pdbJob[j] EXCEPT !.status = "running"]
             x == [pc |-> "start", job |-> j, generation |-> t.generation, items |-> pdbJob[j].items]
  <1>3. pdbJob' = [pdbJob EXCEPT ![j] = row] /\ pdbWorker' = [pdbWorker EXCEPT ![w] = x]
    BY DEF PdbInv, PdbTypeOK
  <1>4. row \in PdbJobRow /\ row.status = "running" /\ row.items = pdbJob[j].items
    BY <1>1 DEF PdbJobRow
  <1>5. /\ x \in PdbWorkerState /\ x.pc = "start" /\ x.job = j /\ x.generation = t.generation
        /\ x.items = pdbJob[j].items
    BY <1>1, <1>2 DEF PdbJobRow, PdbWorkerState
  <1> HIDE DEF row, x
  <1>6. PdbTypeOK'  BY <1>3, <1>4, <1>5 DEF PdbInv, PdbTypeOK
  <1>7. /\ pdbJob'[j] = row /\ pdbTask'[j] = t /\ pdbWorker'[w] = x
        /\ \A i \in PdbJobs \ {j} : pdbJob'[i] = pdbJob[i] /\ pdbTask'[i] = pdbTask[i]
        /\ \A v \in PdbWorkers \ {w} : pdbWorker'[v] = pdbWorker[v]
    BY <1>3 DEF PdbInv, PdbTypeOK
  <1>8. PdbActive(j) /\ pdbTask[j].intent # "absent"
    BY <1>1 DEF PdbActive, PdbEnded, JobIsSound, PdbJobRow
  <1>9. JobIsSound(j)'  BY <1>1, <1>4, <1>7, <1>8 DEF JobIsSound, PdbActive
  <1>10. PdbActive(j)' => \A i \in PdbJobs \ {j} : ~PdbActive(i)  BY <1>8 DEF PdbInv
  <1>11. WorkerIsSound(w)'
    BY <1>1, <1>2, <1>4, <1>5, <1>7 DEF WorkerIsSound, JobIsSound, PdbClaimIsCurrent
  <1>12. \A v \in PdbWorkers \ {w} : pdbWorker[v].pc # "idle" /\ pdbWorker[v].job = j =>
            pdbWorker[v].generation # t.generation
    <2>1. \A v \in PdbWorkers : pdbWorker[v].generation \in Nat /\ WorkerIsSound(v)
      BY PdbRows DEF PdbWorkerState
    <2> QED  BY <1>2, <2>1 DEF WorkerIsSound
  <1>13. /\ pdbTask[j].generation <= pdbTask'[j].generation
         /\ pdbTask'[j].generation = t.generation
         /\ pdbJob'[j].items = pdbJob[j].items /\ pdbJob'[j].status = "running"
    BY <1>2, <1>4, <1>7
  <1>14. ~PdbEnded(j) /\ pdbJob[j].status # "completed"  BY DEF PdbEnded
  <1>15. PdbStepIsSound(j, {w})
    BY <1>5, <1>6, <1>7, <1>9, <1>10, <1>11, <1>12, <1>13, <1>14 DEF PdbStepIsSound
  <1> QED  BY <1>15, SoundStepKeeps

\* A claim is granted, or its copy is dropped.
LEMMA ClaimSteps ==
  ASSUME PdbInv, NEW w \in PdbWorkers, NEW j \in PdbJobs, ClaimPublicSymbolJob(w, j)
  PROVE  PdbInv' /\ Stands
  <1>1. pdbTask[j] \in PdbTaskRow /\ JobIsSound(j) /\ pdbFaults \in Nat  BY PdbRows
  <1>2. pdbTask[j].generation \in Nat  BY <1>1 DEF PdbTaskRow
  <1> DEFINE less == [pdbTask[j] EXCEPT !.copies = @ - 1]
             t == [less EXCEPT !.outcome = "running", !.generation = @ + 1, !.leased = TRUE]
             done == PdbTaskFinished(t)
  <1>3. /\ pdbWorker[w].pc = "idle" /\ pdbTask[j].copies > 0 /\ UNCHANGED <<pdbRequest, pdbFaults>>
        /\ \/ pdbTask' = [pdbTask EXCEPT ![j] = less] /\ UNCHANGED <<pdbJob, pdbWorker>>
           \/ ~PdbLeased(less) /\ less.outcome # "succeeded" /\ PdbClaimed(w, j, t)
    BY DEF ClaimPublicSymbolJob
  <1>4. /\ less \in PdbTaskRow /\ less.generation = pdbTask[j].generation
        /\ less.outcome = pdbTask[j].outcome /\ less.intent = pdbTask[j].intent
    <2>1. pdbTask[j].copies - 1 \in Nat  BY <1>1, <1>3 DEF PdbTaskRow
    <2> QED  BY <1>1, <2>1 DEF PdbTaskRow
  <1> HIDE DEF less
  <1>5. /\ t \in PdbTaskRow /\ t.generation = pdbTask[j].generation + 1
        /\ t.outcome = "running" /\ t.intent = pdbTask[j].intent
    <2>1. less.generation + 1 \in Nat  BY <1>2, <1>4
    <2> QED  BY <1>4, <2>1 DEF PdbTaskRow
  <1> HIDE DEF t
  <1>6. /\ done \in PdbTaskRow /\ done.generation = pdbTask[j].generation + 1
        /\ done.outcome = "succeeded" /\ done.intent = pdbTask[j].intent
    BY <1>5 DEF PdbTaskRow, PdbTaskFinished
  <1> HIDE DEF done
  <1>7. pdbJob[j].status # "absent" /\ pdbTask[j].copies # 0 /\ pdbTask[j].copies \in Nat
    BY <1>1, <1>3 DEF JobIsSound, PdbTaskRow
  <1>8. CASE pdbTask' = [pdbTask EXCEPT ![j] = less] /\ UNCHANGED <<pdbJob, pdbWorker>>
    <2>1. TaskMoveIsSound(j, less)
      BY <1>1, <1>2, <1>3, <1>4, <1>7, <1>8 DEF TaskMoveIsSound, JobIsSound
    <2> QED  BY <2>1, TaskMoves
  <1>9. CASE /\ PdbEnded(j) /\ pdbTask' = [pdbTask EXCEPT ![j] = done]
             /\ UNCHANGED <<pdbJob, pdbWorker>>
    <2>1. ~PdbActive(j)  BY <1>9 DEF PdbEnded, PdbActive
    <2>2. TaskMoveIsSound(j, done)
      BY <1>1, <1>2, <1>3, <1>6, <1>7, <1>9, <2>1 DEF TaskMoveIsSound
    <2> QED  BY <2>2, TaskMoves
  <1>10. CASE /\ ~PdbEnded(j) /\ less.outcome # "succeeded"
              /\ pdbJob' = [pdbJob EXCEPT ![j].status = "running"]
              /\ pdbTask' = [pdbTask EXCEPT ![j] = t]
              /\ pdbWorker' = [pdbWorker EXCEPT ![w] =
                    [pc |-> "start", job |-> j, generation |-> t.generation,
                     items |-> pdbJob[j].items]]
    <2>1. ClaimIsSound(w, j, t)  BY <1>3, <1>4, <1>5, <1>7, <1>10 DEF ClaimIsSound
    <2> QED  BY <2>1, ClaimGranted
  <1> QED  BY <1>3, <1>8, <1>9, <1>10 DEF PdbClaimed, done

\* A worker that saves goes on when its claim is current, and lets go when it is not.
LEMMA SaveSteps ==
  ASSUME PdbInv, NEW w \in PdbWorkers, pdbWorker[w].pc # "idle",
         NEW items \in PdbItems, NEW pc \in {"next", "fetch"}, SavedItems(w, items, pc),
         UNCHANGED <<pdbRequest, pdbTask, pdbFaults>>,
         AllListed(items), pc = "fetch" => Undecided(items) # {},
         \A m \in PdbModules : pdbWorker[w].items[m] \notin OpenItem =>
            items[m] = pdbWorker[w].items[m]
  PROVE  PdbInv' /\ Stands
  <1>1. pdbWorker[w] \in PdbWorkerState /\ WorkerIsSound(w)  BY PdbRows
  <1>2. PICK j \in PdbJobs : j = pdbWorker[w].job  BY <1>1 DEF WorkerIsSound
  <1>3. CASE /\ PdbClaimIsCurrent(w)
             /\ pdbJob' = [pdbJob EXCEPT ![j].items = items]
             /\ pdbWorker' = [pdbWorker EXCEPT ![w].pc = pc, ![w].items = items]
    <2> DEFINE x == [pdbWorker[w] EXCEPT !.pc = pc, !.items = items]
    <2>1. pdbWorker' = [pdbWorker EXCEPT ![w] = x]  BY <1>3 DEF PdbInv, PdbTypeOK
    <2>2. /\ x \in PdbWorkerState /\ x.pc = pc /\ x.items = items
          /\ x.job = pdbWorker[w].job /\ x.generation = pdbWorker[w].generation
      BY <1>1 DEF PdbWorkerState
    <2> HIDE DEF x
    <2>3. SaveIsSound(w, j, items, x)  BY <1>2, <1>3, <2>1, <2>2 DEF SaveIsSound
    <2> QED  BY <2>3, CurrentSaves
  <1>4. CASE pdbWorker' = [pdbWorker EXCEPT ![w] = PdbIdle] /\ UNCHANGED pdbJob
    <2>1. WorkerMoveIsSound(w, PdbIdle)  BY <1>4, PdbIdleIsIdle DEF WorkerMoveIsSound
    <2> QED  BY <2>1, PdbWorkerMoves
  <1> QED  BY <1>2, <1>3, <1>4 DEF SavedItems

\* The end of a job is written under a current claim, or not at all.
LEMMA EndSteps ==
  ASSUME PdbInv, NEW w \in PdbWorkers, pdbWorker[w].pc # "idle",
         NEW status \in {"completed", "failed"}, SavedFor(w, status),
         status = "completed" => \A m \in PdbModules : pdbWorker[w].items[m] \notin OpenItem
  PROVE  PdbInv' /\ Stands
  <1>1. WorkerIsSound(w)  BY PdbRows
  <1>2. PICK j \in PdbJobs : j = pdbWorker[w].job  BY <1>1 DEF WorkerIsSound
  <1>3. pdbWorker' = [pdbWorker EXCEPT ![w] = PdbIdle] /\ UNCHANGED <<pdbRequest, pdbFaults>>
    BY DEF SavedFor
  <1>4. CASE /\ PdbClaimIsCurrent(w)
             /\ pdbJob' = [pdbJob EXCEPT ![j].items = pdbWorker[w].items, ![j].status = status]
             /\ pdbTask' = [pdbTask EXCEPT ![j] = PdbTaskFinished(@)]
    BY <1>2, <1>3, <1>4, CurrentEnds
  <1>5. CASE UNCHANGED <<pdbJob, pdbTask>>
    <2>1. WorkerMoveIsSound(w, PdbIdle)  BY <1>3, <1>5, PdbIdleIsIdle DEF WorkerMoveIsSound
    <2> QED  BY <2>1, PdbWorkerMoves
  <1> QED  BY <1>2, <1>4, <1>5 DEF SavedFor

\* Every step of a worker keeps the invariant.
LEMMA WorkerSteps ==
  ASSUME PdbInv, NEW w \in PdbWorkers, PdbWorkerStep(w)
  PROVE  PdbInv' /\ Stands
  <1>1. /\ pdbWorker[w] \in PdbWorkerState /\ pdbWorker[w].items \in PdbItems
        /\ WorkerIsSound(w)
    BY PdbRows DEF PdbWorkerState
  <1> DEFINE items == pdbWorker[w].items
             m == FirstUndecided(items)
  <1>2. ASSUME Undecided(items) # {}
        PROVE  m \in PdbModules /\ items[m] \in {"pending", "fetching"}
    BY <1>2, FirstIsUndecided DEF Undecided
  <1>3. CASE LoadPdbItems(w)
    <2> DEFINE found == IF items = NoItems THEN PdbTargets(pdbJob[pdbWorker[w].job].source) ELSE items
               x == [pdbWorker[w] EXCEPT !.pc = "next", !.items = found]
    <2>1. /\ pdbWorker[w].pc = "start" /\ UNCHANGED <<pdbRequest, pdbJob, pdbTask, pdbFaults>>
          /\ pdbWorker' = [pdbWorker EXCEPT ![w] = x]
      BY <1>3 DEF LoadPdbItems, PdbInv, PdbTypeOK
    <2>2. found \in PdbItems /\ AllListed(found)
      BY <1>1, <2>1, TargetsAreListed DEF WorkerIsSound
    <2>3. \A i \in PdbModules : items[i] \notin OpenItem => found[i] = items[i]
      BY NoItemsAreItems DEF OpenItem
    <2> HIDE DEF found
    <2>4. /\ x \in PdbWorkerState /\ x.pc = "next" /\ x.items = found
          /\ x.job = pdbWorker[w].job /\ x.generation = pdbWorker[w].generation
      BY <1>1, <2>2 DEF PdbWorkerState
    <2> HIDE DEF x
    <2>5. WorkerMoveIsSound(w, x)  BY <2>1, <2>2, <2>3, <2>4 DEF WorkerMoveIsSound
    <2> QED  BY <2>5, PdbWorkerMoves
  <1>4. CASE StartPdbItem(w)
    <2>1. /\ pdbWorker[w].pc = "next" /\ Undecided(items) # {}
          /\ UNCHANGED <<pdbRequest, pdbTask, pdbFaults>>
          /\ \/ SavedItems(w, [items EXCEPT ![m] = "fetching"], "fetch")
             \/ /\ pdbWorker' = [pdbWorker EXCEPT ![w].items[m] = "failed"]
                /\ UNCHANGED pdbJob
      BY <1>4 DEF StartPdbItem
    <2>2. AllListed(items)  BY <1>1, <2>1 DEF WorkerIsSound
    <2>3. ASSUME NEW v \in {"fetching", "failed"}
          PROVE  /\ [items EXCEPT ![m] = v] \in PdbItems /\ AllListed([items EXCEPT ![m] = v])
                 /\ \A i \in PdbModules : items[i] \notin OpenItem => [items EXCEPT ![m] = v][i] = items[i]
      BY <1>1, <1>2, <2>1, <2>2 DEF PdbItems, ItemStates, AllListed, OpenItem
    <2>4. CASE SavedItems(w, [items EXCEPT ![m] = "fetching"], "fetch")
      <3> DEFINE saved == [items EXCEPT ![m] = "fetching"]
      <3>1. m \in Undecided(saved)  BY <1>1, <1>2, <2>1 DEF Undecided, PdbItems
      <3>2. saved \in PdbItems /\ AllListed(saved) /\ Undecided(saved) # {}
        BY <2>3, <3>1
      <3>3. \A i \in PdbModules : items[i] \notin OpenItem => saved[i] = items[i]  BY <2>3
      <3> HIDE DEF saved
      <3>4. SavedItems(w, saved, "fetch")  BY <2>4 DEF saved
      <3> QED  BY <2>1, <3>2, <3>3, <3>4, SaveSteps
    <2>5. CASE pdbWorker' = [pdbWorker EXCEPT ![w].items[m] = "failed"] /\ UNCHANGED pdbJob
      <3> DEFINE found == [items EXCEPT ![m] = "failed"]
                 x == [pdbWorker[w] EXCEPT !.items = found]
      <3>1. pdbWorker' = [pdbWorker EXCEPT ![w] = x]
        BY <1>1, <2>5 DEF PdbInv, PdbTypeOK, PdbWorkerState
      <3>2. /\ found \in PdbItems /\ AllListed(found)
            /\ \A i \in PdbModules : items[i] \notin OpenItem => found[i] = items[i]
        BY <2>3
      <3> HIDE DEF found
      <3>3. /\ x \in PdbWorkerState /\ x.pc = "next" /\ x.items = found
            /\ x.job = pdbWorker[w].job /\ x.generation = pdbWorker[w].generation
        BY <1>1, <2>1, <3>2 DEF PdbWorkerState
      <3> HIDE DEF x
      <3>4. WorkerMoveIsSound(w, x)  BY <2>1, <2>5, <3>1, <3>2, <3>3 DEF WorkerMoveIsSound
      <3> QED  BY <3>4, PdbWorkerMoves
    <2> QED  BY <2>1, <2>4, <2>5
  <1>5. CASE FetchPdb(w)
    <2>1. PICK v \in PdbVerdicts : SavedItems(w, [items EXCEPT ![m] = v], "next")
      BY <1>5 DEF FetchPdb
    <2>2. pdbWorker[w].pc = "fetch" /\ UNCHANGED <<pdbRequest, pdbTask, pdbFaults>>
      BY <1>5 DEF FetchPdb
    <2>3. AllListed(items) /\ Undecided(items) # {}  BY <1>1, <2>2 DEF WorkerIsSound
    <2> DEFINE saved == [items EXCEPT ![m] = v]
    <2>4. v \in ItemStates /\ v # "unknown"  BY DEF ItemStates
    <2>5. /\ saved \in PdbItems /\ AllListed(saved)
          /\ \A i \in PdbModules : items[i] \notin OpenItem => saved[i] = items[i]
      BY <1>1, <1>2, <2>3, <2>4 DEF PdbItems, AllListed, OpenItem
    <2> HIDE DEF saved
    <2>6. SavedItems(w, saved, "next")  BY <2>1 DEF saved
    <2> QED  BY <2>2, <2>5, <2>6, SaveSteps
  <1>6. CASE CompletePublicSymbolJob(w)
    <2>1. pdbWorker[w].pc = "next" /\ Undecided(items) = {} /\ SavedFor(w, "completed")
      BY <1>6 DEF CompletePublicSymbolJob
    <2>2. \A i \in PdbModules : items[i] \notin OpenItem
      BY <1>1, <2>1 DEF WorkerIsSound, AllListed, Undecided, OpenItem
    <2> QED  BY <2>1, <2>2, EndSteps
  <1>7. CASE FailPublicSymbolJob(w)
    <2>1. pdbWorker[w].pc # "idle" /\ SavedFor(w, "failed")  BY <1>7 DEF FailPublicSymbolJob
    <2> QED  BY <2>1, EndSteps
  <1> QED  BY <1>3, <1>4, <1>5, <1>6, <1>7 DEF PdbWorkerStep

\* The copy of a dead worker goes back, and its claim is left behind.
LEMMA CrashSteps ==
  ASSUME PdbInv, NEW w \in PdbWorkers, PdbWorkerCrashes(w)
  PROVE  PdbInv' /\ Stands
  <1>1. WorkerIsSound(w) /\ pdbWorker[w].pc # "idle"  BY PdbRows DEF PdbWorkerCrashes
  <1>2. PICK j \in PdbJobs : j = pdbWorker[w].job  BY <1>1 DEF WorkerIsSound
  <1>3. pdbTask[j] \in PdbTaskRow /\ JobIsSound(j) /\ pdbFaults \in Nat  BY PdbRows
  <1> DEFINE t == [pdbTask[j] EXCEPT !.copies = @ + 1]
  <1>4. /\ pdbTask' = [pdbTask EXCEPT ![j] = t] /\ pdbWorker' = [pdbWorker EXCEPT ![w] = PdbIdle]
        /\ UNCHANGED <<pdbRequest, pdbJob>>
    BY <1>2 DEF PdbWorkerCrashes, PdbInv, PdbTypeOK
  <1>5. /\ t \in PdbTaskRow /\ t.generation = pdbTask[j].generation
        /\ t.outcome = pdbTask[j].outcome /\ t.intent = pdbTask[j].intent
    BY <1>3 DEF PdbTaskRow
  <1>6. pdbFaults' \in Nat /\ pdbTask[j].generation \in Nat
    BY <1>3 DEF PdbTaskRow, PdbWorkerCrashes
  <1> HIDE DEF t
  <1>7. PdbTypeOK'  BY <1>4, <1>5, <1>6, PdbIdleIsIdle DEF PdbInv, PdbTypeOK
  <1>8. /\ pdbTask'[j] = t /\ \A i \in PdbJobs \ {j} : pdbTask'[i] = pdbTask[i]
        /\ pdbWorker'[w].pc = "idle" /\ \A v \in PdbWorkers \ {w} : pdbWorker'[v] = pdbWorker[v]
    BY <1>4, PdbIdleIsIdle DEF PdbInv, PdbTypeOK
  <1>9. JobIsSound(j)'
    BY <1>1, <1>2, <1>3, <1>4, <1>5, <1>8 DEF JobIsSound, PdbActive, WorkerIsSound
  <1>10. WorkerIsSound(w)'  BY <1>8 DEF WorkerIsSound
  <1>11. /\ PdbActive(j)' => \A i \in PdbJobs \ {j} : ~PdbActive(i)
         /\ PdbEnded(j) => PdbEnded(j)'
    BY <1>4 DEF PdbInv, PdbActive, PdbEnded
  <1>12. /\ pdbTask[j].generation <= pdbTask'[j].generation
         /\ pdbTask'[j].generation = pdbTask[j].generation
         /\ pdbTask'[j].outcome = pdbTask[j].outcome
    BY <1>5, <1>6, <1>8
  <1>13. PdbStepIsSound(j, {w})
    BY <1>4, <1>7, <1>8, <1>9, <1>10, <1>11, <1>12 DEF PdbStepIsSound
  <1> QED  BY <1>13, SoundStepKeeps

\* Every step of the public symbol jobs keeps the invariant and the verdicts.
LEMMA PdbStepInv == PdbInv /\ [PdbNext]_pdbVars => PdbInv' /\ [Stands]_pdbVars
  <1> SUFFICES ASSUME PdbInv, [PdbNext]_pdbVars PROVE PdbInv' /\ [Stands]_pdbVars  OBVIOUS
  <1>1. CASE UNCHANGED pdbVars
    BY <1>1 DEF pdbVars, PdbInv, PdbTypeOK, JobIsSound, WorkerIsSound, ClaimsDiffer, PdbActive,
                PdbClaimIsCurrent
  <1>2. CASE PdbNext
    BY <1>2, RequestSteps, DeliverySteps, RecoverySteps, ClaimSteps, WorkerSteps, CrashSteps
       DEF PdbNext
  <1> QED  BY <1>1, <1>2

\* At every moment an occurrence has one active job at most, a completed job has a verdict
\* on every module and nobody is to work on it, and the task of an active job can be
\* claimed.
THEOREM PublicSymbolJobsHold == PdbSpec => []PublicSymbolJobsAreSound
  <1>1. PdbInv => PublicSymbolJobsAreSound
    BY DEF PdbInv, JobIsSound, PublicSymbolJobsAreSound
  <1> QED  BY <1>1, PdbInitInv, PdbStepInv, PTL DEF PdbSpec

\* No step of a worker, a delivery or the recovery takes back a verdict that was saved or
\* the end of a job.
THEOREM SavedVerdictsStand == PdbSpec => VerdictsStand
  <1>1. PdbInv /\ [PdbNext]_pdbVars => [Stands]_pdbVars  BY PdbStepInv
  <1> QED  BY <1>1, PdbInitInv, PdbStepInv, PTL DEF PdbSpec, VerdictsStand, Stands
=============================================================================
