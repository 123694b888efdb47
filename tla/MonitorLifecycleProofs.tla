----------------------- MODULE MonitorLifecycleProofs -----------------------
(***************************************************************************)
(* Proofs about MonitorLifecycle, for any number of threads, items, calls  *)
(* and changes, and any of the three import lists.  LifecycleInv is        *)
(* inductive (one lemma per conjunct); the five properties of the monitor  *)
(* follow from it, and so does where its threads can block each other.  A  *)
(* finder that calls install() or uninstall() itself when it is looked at  *)
(* is not in the model.                                                    *)
(***************************************************************************)
EXTENDS MonitorLifecycle, TLAPS

(***************************************************************************)
(* List objects.                                                           *)
(***************************************************************************)
\* Five list objects are enough for the live, the held and the kept list, a
\* copy and one more.
LEMMA FiveAreEnough ==
  ASSUME NEW S \in SUBSET Lists,
         NEW a, NEW b, NEW c, NEW d, Lists \ {a, b, c, d} \subseteq S
  PROVE  \E l \in S : \A m \in S : l <= m
<1>1. \A n \in Lists : n = 1 \/ n = 2 \/ n = 3 \/ n = 4 \/ n = 5
  BY DEF Lists
<1>2. S # {}
  BY <1>1 DEF Lists
<1>3. CASE 1 \in S
  BY <1>1, <1>3
<1>4. CASE 1 \notin S /\ 2 \in S
  BY <1>1, <1>4
<1>5. CASE 1 \notin S /\ 2 \notin S /\ 3 \in S
  BY <1>1, <1>5
<1>6. CASE 1 \notin S /\ 2 \notin S /\ 3 \notin S /\ 4 \in S
  BY <1>1, <1>6
<1>7. CASE 1 \notin S /\ 2 \notin S /\ 3 \notin S /\ 4 \notin S
  BY <1>1, <1>2, <1>7
<1>8. QED
  BY <1>3, <1>4, <1>5, <1>6, <1>7

\* Only the thread at work has a copy.
LEMMA OneDraft ==
  ASSUME TypeOK, WorkIsOwned, DraftFits, NEW t \in Threads, NEW u \in Threads,
         draft[t] # NoList, draft[u] # NoList
  PROVE  t = u
<1>1. pc[t] \notin Outside /\ pc[u] \notin Outside
  BY DEF DraftFits, Outside, Accesses
<1>2. t \in {transition, lock} /\ u \in {transition, lock}
  BY <1>1 DEF WorkIsOwned
<1>3. QED
  BY <1>2, NobodyAssumption DEF WorkIsOwned

\* The next list object is one that nothing refers to.
LEMMA FreeListIsFree ==
  ASSUME TypeOK, WorkIsOwned, DraftFits, NEW k \in Kinds
  PROVE  FreeList(k) \in Lists \ InUse(k)
<1> DEFINE S == Lists \ InUse(k)
<1>1. \E d : \A t \in Threads : draft[t] \in {d, NoList}
  <2>1. CASE \E t \in Threads : draft[t] # NoList
    BY <2>1, OneDraft
  <2>2. CASE \A t \in Threads : draft[t] = NoList
    BY <2>2
  <2>3. QED
    BY <2>1, <2>2
<1>2. PICK d : \A t \in Threads : draft[t] \in {d, NoList}
  BY <1>1
<1>3. Lists \ {live[k], wrapped[k], kept[k], d} \subseteq S
  BY <1>2 DEF InUse, Lists, NoList
<1>4. \E l \in S : \A m \in S : l <= m
  BY ZenonT(30), <1>3, FiveAreEnough
<1>5. FreeList(k) = CHOOSE l \in S : \A m \in S : l <= m
  BY DEF FreeList
<1> HIDE DEF S
<1>6. FreeList(k) \in S
  BY <1>4, <1>5
<1>7. QED
  BY <1>6 DEF S

\* What a new list is.
IsNew(k, items, mine) ==
  /\ FreeList(k) \in Lists
  /\ FreeList(k) \notin {live[k], wrapped[k], kept[k]}
  /\ \A u \in Threads : kind[u] = k => draft[u] # FreeList(k)
  /\ contents'[k][FreeList(k)] = items
  /\ FreeList(k) \in ours'[k] <=> mine

\* And what it leaves as it was.
Untouched(k, l) ==
  /\ contents'[k][l] = contents[k][l]
  /\ l \in ours'[k] <=> l \in ours[k]

OthersUntouched ==
  /\ \A j \in Kinds : Untouched(j, live[j])
  /\ \A u \in Threads :
       kind[u] \in Kinds /\ draft[u] # NoList => Untouched(kind[u], draft[u])

\* Creating a list leaves every list that something refers to.
LEMMA Created ==
  ASSUME TypeOK, WorkIsOwned, DraftFits, NEW k \in Kinds,
         NEW items \in SUBSET Items, NEW mine \in BOOLEAN,
         Create(k, items, mine)
  PROVE  /\ contents' \in [Kinds -> [Lists -> SUBSET Items]]
         /\ ours' \in [Kinds -> SUBSET Lists]
         /\ IsNew(k, items, mine) /\ OthersUntouched
<1> DEFINE f == FreeList(k)
<1>1. f \in Lists /\ f \notin InUse(k)
  BY FreeListIsFree
<1> HIDE DEF f
<1>2. /\ contents' = [contents EXCEPT ![k] =
           [l \in Lists |-> IF l = f THEN items
                            ELSE IF l \in InUse(k) THEN contents[k][l] ELSE {}]]
      /\ ours' = [ours EXCEPT ![k] =
           (ours[k] \intersect InUse(k)) \union (IF mine THEN {f} ELSE {})]
  BY DEF Create, f, TypeOK
<1>3. \A l \in Lists : /\ contents'[k][l] = IF l = f THEN items
                           ELSE IF l \in InUse(k) THEN contents[k][l] ELSE {}
                       /\ l \in ours'[k] <=>
                            (l \in ours[k] /\ l \in InUse(k)) \/ (mine /\ l = f)
  BY <1>1, <1>2 DEF TypeOK
<1>4. \A l \in Lists \intersect InUse(k) : Untouched(k, l)
  BY <1>1, <1>3 DEF Untouched
<1>5. \A j \in Kinds : j # k => \A l \in Lists : Untouched(j, l)
  BY <1>2 DEF TypeOK, Untouched
<1>6. contents' \in [Kinds -> [Lists -> SUBSET Items]]
  <2>1. [l \in Lists |-> IF l = f THEN items
                         ELSE IF l \in InUse(k) THEN contents[k][l] ELSE {}]
          \in [Lists -> SUBSET Items]
    BY DEF TypeOK
  <2>2. QED
    BY <1>2, <2>1 DEF TypeOK
<1>7. ours' \in [Kinds -> SUBSET Lists]
  BY <1>1, <1>2 DEF TypeOK
<1>8. /\ {live[k], wrapped[k], kept[k]} \subseteq InUse(k)
      /\ \A u \in Threads : kind[u] = k => draft[u] \in InUse(k)
  BY DEF InUse
<1>9. IsNew(k, items, mine)
  <2>1. f \in ours'[k] <=> mine
    BY <1>1, <1>3
  <2>2. contents'[k][f] = items
    BY <1>1, <1>3
  <2>3. f \notin {live[k], wrapped[k], kept[k]}
    BY <1>1, <1>8
  <2>4. \A u \in Threads : kind[u] = k => draft[u] # f
    BY <1>1, <1>8
  <2>5. QED
    BY <1>1, <2>1, <2>2, <2>3, <2>4 DEF IsNew, f
<1>10. OthersUntouched
  <2>1. /\ \A j \in Kinds : live[j] \in Lists
        /\ \A u \in Threads : draft[u] # NoList => draft[u] \in Lists
    BY DEF TypeOK
  <2>2. \A j \in Kinds : Untouched(j, live[j])
    BY <1>4, <1>5, <1>8, <2>1
  <2>3. \A u \in Threads :
          kind[u] \in Kinds /\ draft[u] # NoList => Untouched(kind[u], draft[u])
    BY <1>4, <1>5, <1>8, <2>1
  <2>4. QED
    BY <2>2, <2>3 DEF OthersUntouched
<1>11. QED
  BY <1>6, <1>7, <1>9, <1>10

\* What a thread publishes is a list of a kind.
LEMMA PublishesList ==
  ASSUME TypeOK, KindFits, DraftFits, NEW t \in Threads,
         pc[t] \in {"expose", "unwrap", "swap"}
  PROVE  draft[t] \in Lists /\ kind[t] \in Kinds
  BY DEF TypeOK, KindFits, DraftFits

\* A thread's copy of a list is a list that nobody else refers to.
LEMMA Drafted ==
  ASSUME TypeOK, WorkIsOwned, DraftFits, NEW t \in Threads, NEW k \in Kinds,
         NEW l \in Lists, NEW mine \in BOOLEAN, Draft(t, k, l, mine)
  PROVE  /\ contents[k][l] \in SUBSET Items
         /\ Create(k, contents[k][l], mine)
         /\ draft' = [draft EXCEPT ![t] = FreeList(k)]
         /\ overlap' = overlap \ {k} /\ live' = live /\ kept' = kept
  BY DEF Draft, TypeOK

\* So it leaves what it changes its type.
LEMMA DraftedTypes ==
  ASSUME TypeOK, WorkIsOwned, DraftFits, NEW t \in Threads, NEW k \in Kinds,
         NEW l \in Lists, NEW mine \in BOOLEAN, Draft(t, k, l, mine)
  PROVE  /\ contents' \in [Kinds -> [Lists -> SUBSET Items]]
         /\ ours' \in [Kinds -> SUBSET Lists]
         /\ FreeList(k) \in Lists
         /\ draft' = [draft EXCEPT ![t] = FreeList(k)]
         /\ overlap' = overlap \ {k} /\ live' = live /\ kept' = kept
<1>1. contents[k][l] \in SUBSET Items /\ Create(k, contents[k][l], mine)
  BY Drafted
<1>2. /\ contents' \in [Kinds -> [Lists -> SUBSET Items]]
      /\ ours' \in [Kinds -> SUBSET Lists]
      /\ FreeList(k) \in Lists
  BY <1>1, Created, FreeListIsFree
<1>3. QED
  BY <1>2, Drafted

\* The kinds of a request are kinds.
LEMMA RequestedKinds ==
  TypeOK =>
    /\ request.lists \subseteq Kinds /\ request.audit \in BOOLEAN
    /\ MetaPath \in Kinds
<1>1. MetaPath \in Kinds
  BY KindsAssumption DEF Kinds, MetaPath
<1>2. \A r \in Requests \union {NoRequest} :
        r.lists \subseteq Kinds /\ r.audit \in BOOLEAN
  <2>1. ASSUME NEW r \in Requests PROVE r.lists \subseteq Kinds /\ r.audit \in BOOLEAN
    <3>1. r \in [lists : SUBSET (1..NumKinds), audit : BOOLEAN]
      BY RequestAssumption
    <3>2. QED
      BY <3>1 DEF Kinds
  <2>2. NoRequest.lists \subseteq Kinds /\ NoRequest.audit \in BOOLEAN
    BY DEF NoRequest
  <2>3. QED
    BY <2>1, <2>2
<1>3. QED
  BY <1>1, <1>2 DEF TypeOK

\* The places a thread goes to are places, and the next kind is in range.
LEMMA Places ==
  /\ {"idle", "copy", "inspect", "import", "commit", "enable", "expose",
      "installEnd", "check", "plain", "unwrap"} \subseteq PC
  /\ {"suspect", "recover", "replace", "swap"} \subseteq PC
  /\ MetaPath \in 1 .. (NumKinds + 1) /\ MetaPath + 1 \in 1 .. (NumKinds + 1)
  /\ \A k \in Kinds : k \in 1 .. (NumKinds + 1) /\ k + 1 \in 1 .. (NumKinds + 1)
  BY KindsAssumption DEF PC, Kinds, MetaPath

(***************************************************************************)
(* The inductive invariant, one lemma for each conjunct.                   *)
(***************************************************************************)
\* Every step leaves every variable its type.
LEMMA TypeStep == LifecycleInv /\ [Next]_vars => TypeOK'
<1> SUFFICES ASSUME LifecycleInv, [Next]_vars PROVE TypeOK'
  OBVIOUS
<1>0. TypeOK /\ WorkIsOwned /\ KindFits /\ DraftFits /\ FoundStillHolds
  BY DEF LifecycleInv
<1> USE <1>0, Places DEF TypeOK, Goto, At, monitor, memory, locals, history, asked
<1>1. CASE UNCHANGED vars
  BY <1>1 DEF vars, monitor, memory, locals, history, asked
<1>2. ASSUME NEW t \in Threads, NEW r \in Requests, InstallBegin(t, r),
             UNCHANGED changes
      PROVE  TypeOK'
  BY <1>2, BoundAssumption, RequestedKinds DEF InstallBegin
<1>3. ASSUME NEW t \in Threads, InstallCopy(t), UNCHANGED changes
      PROVE  TypeOK'
  <2>1. CASE MetaPath \in request.lists
    <3>1. Draft(t, MetaPath, live[MetaPath], TRUE) /\ live[MetaPath] \in Lists
      BY <1>3, <2>1, RequestedKinds DEF InstallCopy
    <3>2. QED
      BY ZenonT(30), <1>3, <2>1, <3>1, RequestedKinds, DraftedTypes DEF InstallCopy
  <2>2. CASE MetaPath \notin request.lists
    BY <1>3, <2>2 DEF InstallCopy
  <2>3. QED
    BY <2>1, <2>2
<1>4. ASSUME NEW t \in Threads, InstallCommit(t), UNCHANGED changes
      PROVE  TypeOK'
  <2>1. CASE MetaPath \in request.lists
    <3>1. draft[t] \in Lists
      BY <1>4, <2>1 DEF InstallCommit, DraftFits, Accesses
    <3>2. QED
      BY <1>4, <2>1, <3>1, RequestedKinds DEF InstallCommit, Publish
  <2>2. CASE MetaPath \notin request.lists
    BY <1>4, <2>2, RequestedKinds DEF InstallCommit
  <2>3. QED
    BY <2>1, <2>2
<1>5. ASSUME NEW t \in Threads, EnableCopy(t), UNCHANGED changes
      PROVE  TypeOK'
  <2>1. /\ kind[t] \in Kinds /\ live[kind[t]] \in Lists
        /\ Draft(t, kind[t], live[kind[t]], TRUE)
    BY <1>5, RequestedKinds DEF EnableCopy
  <2>2. /\ contents' \in [Kinds -> [Lists -> SUBSET Items]]
        /\ ours' \in [Kinds -> SUBSET Lists]
        /\ FreeList(kind[t]) \in Lists
        /\ draft' = [draft EXCEPT ![t] = FreeList(kind[t])]
        /\ overlap' = overlap \ {kind[t]} /\ live' = live /\ kept' = kept
    BY <2>1, DraftedTypes
  <2>3. QED
    BY <1>5, <2>1, <2>2 DEF EnableCopy
<1>6. ASSUME NEW t \in Threads, EnableExpose(t), UNCHANGED changes
      PROVE  TypeOK'
  BY <1>6, PublishesList DEF EnableExpose, Publish
<1>7. ASSUME NEW t \in Threads, EnableSkip(t), UNCHANGED changes
      PROVE  TypeOK'
  BY <1>7 DEF EnableSkip
<1>8. ASSUME NEW t \in Threads, InstallEnd(t), UNCHANGED changes
      PROVE  TypeOK'
  BY <1>8 DEF InstallEnd
<1>9. ASSUME NEW t \in Threads, Inspect(t) \/ InspectImports(t) \/ ImportReturns(t),
             UNCHANGED changes
      PROVE  TypeOK'
  BY ZenonT(30), <1>9 DEF Inspect, InspectImports, ImportReturns, Inspected
<1>10. ASSUME NEW t \in Threads, InspectRaises(t), UNCHANGED changes
      PROVE  TypeOK'
  BY <1>10 DEF InspectRaises
<1>11. ASSUME NEW t \in Threads, UninstallBegin(t), UNCHANGED changes
      PROVE  TypeOK'
  BY <1>11 DEF UninstallBegin
<1>12. ASSUME NEW t \in Threads, UninstallCheck(t), UNCHANGED changes
      PROVE  TypeOK'
  BY <1>12 DEF UninstallCheck, Owned, Forget
<1>13. ASSUME NEW t \in Threads, UninstallCopy(t), UNCHANGED changes
      PROVE  TypeOK'
  <2>1. kind[t] \in Kinds
    BY <1>13 DEF UninstallCopy, KindFits
  <2>2. wrapped[kind[t]] \in Lists /\ live[kind[t]] \in Lists
    BY <1>13, <2>1 DEF UninstallCopy, FoundStillHolds
  <2>3. PICK l \in Lists :
          /\ Create(kind[t], contents[kind[t]][l], FALSE)
          /\ draft' = [draft EXCEPT ![t] = FreeList(kind[t])]
    BY <1>13, <2>1, <2>2 DEF UninstallCopy
  <2>4. contents[kind[t]][l] \in SUBSET Items
    BY <2>1
  <2>5. /\ contents' \in [Kinds -> [Lists -> SUBSET Items]]
        /\ ours' \in [Kinds -> SUBSET Lists]
        /\ FreeList(kind[t]) \in Lists
    BY <2>1, <2>3, <2>4, Created, FreeListIsFree
  <2>6. QED
    BY <1>13, <2>1, <2>3, <2>5 DEF UninstallCopy
<1>14. ASSUME NEW t \in Threads, UninstallPublish(t), UNCHANGED changes
      PROVE  TypeOK'
  BY <1>14, PublishesList DEF UninstallPublish, Publish, Forget
<1>15. ASSUME NEW t \in Threads, UninstallEnd(t), UNCHANGED changes
      PROVE  TypeOK'
  BY <1>15 DEF UninstallEnd
<1>16. ASSUME NEW t \in Threads, AuditSuspects(t) \/ AuditDecides(t),
             UNCHANGED changes
      PROVE  TypeOK'
  BY <1>16 DEF AuditSuspects, AuditDecides
<1>17. ASSUME NEW t \in Threads, RecoverBegin(t), UNCHANGED changes
      PROVE  TypeOK'
  BY <1>17 DEF RecoverBegin
<1>18. ASSUME NEW t \in Threads, RecoverCopy(t), UNCHANGED changes
      PROVE  TypeOK'
  <2>1. /\ kind[t] \in Kinds /\ live[kind[t]] \in Lists
        /\ Draft(t, kind[t], live[kind[t]], TRUE)
    BY <1>18 DEF RecoverCopy
  <2>2. /\ contents' \in [Kinds -> [Lists -> SUBSET Items]]
        /\ ours' \in [Kinds -> SUBSET Lists]
        /\ FreeList(kind[t]) \in Lists
        /\ draft' = [draft EXCEPT ![t] = FreeList(kind[t])]
        /\ overlap' = overlap \ {kind[t]} /\ live' = live /\ kept' = kept
    BY <2>1, DraftedTypes
  <2>3. QED
    BY <1>18, <2>1, <2>2 DEF RecoverCopy
<1>19. ASSUME NEW t \in Threads, RecoverSkip(t), UNCHANGED changes
      PROVE  TypeOK'
  BY <1>19 DEF RecoverSkip
<1>20. ASSUME NEW t \in Threads, RecoverPublish(t), UNCHANGED changes
      PROVE  TypeOK'
  BY <1>20, PublishesList DEF RecoverPublish, Publish
<1>21. ASSUME NEW t \in Threads, RecoverEnd(t), UNCHANGED changes
      PROVE  TypeOK'
  BY <1>21 DEF RecoverEnd
<1>22. ASSUME NEW t \in Threads, ModuleBegin(t) \/ ModuleEnd(t),
             UNCHANGED changes
      PROVE  TypeOK'
  BY <1>22 DEF ModuleBegin, ModuleEnd
<1>23. ASSUME NEW k \in Kinds, NEW i \in Items, Append(k, i)
      PROVE  TypeOK'
  <2>1. contents' \in [Kinds -> [Lists -> SUBSET Items]]
    <3>1. contents' = [contents EXCEPT ![k] = [contents[k] EXCEPT
            ![live[k]] = contents[k][live[k]] \union {i}]]
      BY <1>23 DEF Append
    <3>2. [contents[k] EXCEPT ![live[k]] = contents[k][live[k]] \union {i}]
            \in [Lists -> SUBSET Items]
      OBVIOUS
    <3>3. QED
      BY <3>1, <3>2
  <2>2. QED
    BY <1>23, <2>1, BoundAssumption DEF Append, Changed
<1>24. ASSUME NEW k \in Kinds, NEW items \in SUBSET Items, Reassign(k, items)
      PROVE  TypeOK'
  <2>1. Create(k, items, FALSE)
    BY <1>24 DEF Reassign
  <2>2. /\ contents' \in [Kinds -> [Lists -> SUBSET Items]]
        /\ ours' \in [Kinds -> SUBSET Lists]
        /\ FreeList(k) \in Lists
    BY <2>1, Created, FreeListIsFree
  <2>3. changes' \in 0..MaxChanges /\ overlap' \subseteq Kinds
    BY <1>24, BoundAssumption DEF Reassign, Changed
  <2>4. live' \in [Kinds -> Lists] /\ assigner' \in [Kinds -> {"monitor", "program"}]
    BY <1>24, <2>2 DEF Reassign
  <2>5. QED
    BY <1>24, <2>2, <2>3, <2>4 DEF Reassign
<1>25. ASSUME NEW k \in Kinds, Save(k), UNCHANGED changes
      PROVE  TypeOK'
  BY <1>25 DEF Save
<1>26. ASSUME NEW k \in Kinds, PutBack(k)
      PROVE  TypeOK'
  BY <1>26, BoundAssumption DEF PutBack, Changed
<1> QED
  BY <1>1, <1>2, <1>3, <1>4, <1>5, <1>6, <1>7, <1>8, <1>9, <1>10,
     <1>11, <1>12, <1>13, <1>14, <1>15, <1>16, <1>17, <1>18, <1>19, <1>20,
     <1>21, <1>22, <1>23, <1>24, <1>25, <1>26
  DEF Next, Continue, Others, ChangeLists

\* No list is no list.
LEMMA NoListIsNoList == NoList \notin Lists
  BY DEF NoList, Lists

\* The copy a thread makes is a list object.
LEMMA CopiesAreLists ==
  ASSUME LifecycleInv, NEW t \in Threads
  PROVE  /\ \A k \in Kinds : FreeList(k) \in Lists
         /\ InstallCopy(t) /\ MetaPath \in request.lists =>
              draft' = [draft EXCEPT ![t] = FreeList(MetaPath)] /\ MetaPath \in Kinds
         /\ EnableCopy(t) \/ UninstallCopy(t) \/ RecoverCopy(t) =>
              draft' = [draft EXCEPT ![t] = FreeList(kind[t])] /\ kind[t] \in Kinds
<1>1. \A k \in Kinds : FreeList(k) \in Lists
  BY FreeListIsFree DEF LifecycleInv
<1>2. request.lists \subseteq Kinds /\ MetaPath \in Kinds
  BY RequestedKinds DEF LifecycleInv
<1>3. InstallCopy(t) /\ MetaPath \in request.lists =>
        draft' = [draft EXCEPT ![t] = FreeList(MetaPath)]
  BY DEF InstallCopy, Draft
<1>4. EnableCopy(t) =>
        draft' = [draft EXCEPT ![t] = FreeList(kind[t])] /\ kind[t] \in Kinds
  BY <1>2 DEF EnableCopy, Draft
<1>5. UninstallCopy(t) =>
        draft' = [draft EXCEPT ![t] = FreeList(kind[t])] /\ kind[t] \in Kinds
  BY DEF UninstallCopy, LifecycleInv, KindFits, At
<1>6. RecoverCopy(t) =>
        draft' = [draft EXCEPT ![t] = FreeList(kind[t])] /\ kind[t] \in Kinds
  BY DEF RecoverCopy, Draft
<1>7. QED
  BY <1>1, <1>2, <1>3, <1>4, <1>5, <1>6

\* Every step keeps at most one thread at work, with the lock or the transition.
LEMMA WorkIsOwnedStep == LifecycleInv /\ [Next]_vars => WorkIsOwned'
<1> SUFFICES ASSUME LifecycleInv, [Next]_vars PROVE WorkIsOwned'
  OBVIOUS
<1>0. WorkIsOwned /\ pc \in [Threads -> PC]
  BY DEF LifecycleInv, TypeOK
<1> USE <1>0 DEF WorkIsOwned, Outside, Installs, Accesses, Unwraps, Rewraps, Goto,
        At, monitor, memory, locals, history, asked
<1>1. CASE UNCHANGED vars
  BY <1>1 DEF vars, monitor, memory, locals, history, asked
<1>2. ASSUME NEW t \in Threads, NEW r \in Requests, InstallBegin(t, r),
             UNCHANGED changes
      PROVE  WorkIsOwned'
  BY <1>2, NobodyAssumption DEF InstallBegin
<1>3. ASSUME NEW t \in Threads, InstallCopy(t), UNCHANGED changes
      PROVE  WorkIsOwned'
  BY <1>3, NobodyAssumption DEF InstallCopy
<1>4. ASSUME NEW t \in Threads, InstallCommit(t), UNCHANGED changes
      PROVE  WorkIsOwned'
  BY <1>4, NobodyAssumption DEF InstallCommit, Publish
<1>5. ASSUME NEW t \in Threads, EnableCopy(t), UNCHANGED changes
      PROVE  WorkIsOwned'
  BY <1>5, NobodyAssumption DEF EnableCopy
<1>6. ASSUME NEW t \in Threads, EnableExpose(t), UNCHANGED changes
      PROVE  WorkIsOwned'
  BY <1>6, NobodyAssumption DEF EnableExpose, Publish
<1>7. ASSUME NEW t \in Threads, EnableSkip(t), UNCHANGED changes
      PROVE  WorkIsOwned'
  BY <1>7, NobodyAssumption DEF EnableSkip
<1>8. ASSUME NEW t \in Threads, InstallEnd(t), UNCHANGED changes
      PROVE  WorkIsOwned'
  BY <1>8, NobodyAssumption DEF InstallEnd
<1>9. ASSUME NEW t \in Threads, Inspect(t) \/ InspectImports(t) \/ ImportReturns(t),
             UNCHANGED changes
      PROVE  WorkIsOwned'
  BY <1>9, NobodyAssumption DEF Inspect, InspectImports, ImportReturns,
    Inspected
<1>10. ASSUME NEW t \in Threads, InspectRaises(t), UNCHANGED changes
      PROVE  WorkIsOwned'
  BY <1>10, NobodyAssumption DEF InspectRaises
<1>11. ASSUME NEW t \in Threads, UninstallBegin(t), UNCHANGED changes
      PROVE  WorkIsOwned'
  BY <1>11, NobodyAssumption DEF UninstallBegin
<1>12. ASSUME NEW t \in Threads, UninstallCheck(t), UNCHANGED changes
      PROVE  WorkIsOwned'
  BY <1>12, NobodyAssumption DEF UninstallCheck, Owned, Forget
<1>13. ASSUME NEW t \in Threads, UninstallCopy(t), UNCHANGED changes
      PROVE  WorkIsOwned'
  BY <1>13, NobodyAssumption DEF UninstallCopy
<1>14. ASSUME NEW t \in Threads, UninstallPublish(t), UNCHANGED changes
      PROVE  WorkIsOwned'
  BY <1>14, NobodyAssumption DEF UninstallPublish, Publish, Forget
<1>15. ASSUME NEW t \in Threads, UninstallEnd(t), UNCHANGED changes
      PROVE  WorkIsOwned'
  BY <1>15, NobodyAssumption DEF UninstallEnd
<1>16. ASSUME NEW t \in Threads, AuditSuspects(t) \/ AuditDecides(t),
             UNCHANGED changes
      PROVE  WorkIsOwned'
  BY <1>16, NobodyAssumption DEF AuditSuspects, AuditDecides
<1>17. ASSUME NEW t \in Threads, RecoverBegin(t), UNCHANGED changes
      PROVE  WorkIsOwned'
  BY <1>17, NobodyAssumption DEF RecoverBegin
<1>18. ASSUME NEW t \in Threads, RecoverCopy(t), UNCHANGED changes
      PROVE  WorkIsOwned'
  BY <1>18, NobodyAssumption DEF RecoverCopy, MustRecover, Replaced
<1>19. ASSUME NEW t \in Threads, RecoverSkip(t), UNCHANGED changes
      PROVE  WorkIsOwned'
  BY <1>19, NobodyAssumption DEF RecoverSkip
<1>20. ASSUME NEW t \in Threads, RecoverPublish(t), UNCHANGED changes
      PROVE  WorkIsOwned'
  BY <1>20, NobodyAssumption DEF RecoverPublish, Publish
<1>21. ASSUME NEW t \in Threads, RecoverEnd(t), UNCHANGED changes
      PROVE  WorkIsOwned'
  BY <1>21, NobodyAssumption DEF RecoverEnd
<1>22. ASSUME NEW t \in Threads, ModuleBegin(t) \/ ModuleEnd(t),
             UNCHANGED changes
      PROVE  WorkIsOwned'
  BY <1>22, NobodyAssumption DEF ModuleBegin, ModuleEnd
<1>23. ASSUME NEW k \in Kinds, NEW i \in Items, Append(k, i)
      PROVE  WorkIsOwned'
  BY <1>23, NobodyAssumption DEF Append, Changed
<1>24. ASSUME NEW k \in Kinds, NEW items \in SUBSET Items, Reassign(k, items)
      PROVE  WorkIsOwned'
  BY <1>24, NobodyAssumption DEF Reassign, Changed
<1>25. ASSUME NEW k \in Kinds, Save(k), UNCHANGED changes
      PROVE  WorkIsOwned'
  BY <1>25, NobodyAssumption DEF Save
<1>26. ASSUME NEW k \in Kinds, PutBack(k)
      PROVE  WorkIsOwned'
  BY <1>26, NobodyAssumption DEF PutBack, Changed
<1> QED
  BY <1>1, <1>2, <1>3, <1>4, <1>5, <1>6, <1>7, <1>8, <1>9, <1>10,
     <1>11, <1>12, <1>13, <1>14, <1>15, <1>16, <1>17, <1>18, <1>19, <1>20,
     <1>21, <1>22, <1>23, <1>24, <1>25, <1>26
  DEF Next, Continue, Others, ChangeLists

\* Every step leaves each thread at a kind of list that fits.
LEMMA KindFitsStep == LifecycleInv /\ [Next]_vars => KindFits'
<1> SUFFICES ASSUME LifecycleInv, [Next]_vars PROVE KindFits'
  OBVIOUS
<1>0. /\ WorkIsOwned /\ KindFits /\ pc \in [Threads -> PC]
      /\ kind \in [Threads -> 1 .. (NumKinds + 1)]
      /\ request.lists \subseteq Kinds /\ MetaPath \in Kinds
  BY RequestedKinds DEF LifecycleInv, TypeOK
<1> USE <1>0 DEF KindFits, Outside, Accesses, Goto, At, monitor, memory, locals,
        history, asked
<1>1. CASE UNCHANGED vars
  BY <1>1 DEF vars, monitor, memory, locals, history, asked
<1>2. ASSUME NEW t \in Threads, NEW r \in Requests, InstallBegin(t, r),
             UNCHANGED changes
      PROVE  KindFits'
  BY <1>2 DEF InstallBegin
<1>3. ASSUME NEW t \in Threads, InstallCopy(t), UNCHANGED changes
      PROVE  KindFits'
  BY <1>3 DEF InstallCopy
<1>4. ASSUME NEW t \in Threads, InstallCommit(t), UNCHANGED changes
      PROVE  KindFits'
  BY <1>4 DEF InstallCommit, Publish
<1>5. ASSUME NEW t \in Threads, EnableCopy(t), UNCHANGED changes
      PROVE  KindFits'
  BY <1>5 DEF EnableCopy
<1>6. ASSUME NEW t \in Threads, EnableExpose(t), UNCHANGED changes
      PROVE  KindFits'
  BY <1>6 DEF EnableExpose, Publish
<1>7. ASSUME NEW t \in Threads, EnableSkip(t), UNCHANGED changes
      PROVE  KindFits'
  BY <1>7 DEF EnableSkip
<1>8. ASSUME NEW t \in Threads, InstallEnd(t), UNCHANGED changes
      PROVE  KindFits'
  BY <1>8 DEF InstallEnd
<1>9. ASSUME NEW t \in Threads, Inspect(t) \/ InspectImports(t) \/ ImportReturns(t),
             UNCHANGED changes
      PROVE  KindFits'
  BY <1>9 DEF Inspect, InspectImports, ImportReturns, Inspected
<1>10. ASSUME NEW t \in Threads, InspectRaises(t), UNCHANGED changes
      PROVE  KindFits'
  BY <1>10 DEF InspectRaises
<1>11. ASSUME NEW t \in Threads, UninstallBegin(t), UNCHANGED changes
      PROVE  KindFits'
  BY <1>11 DEF UninstallBegin
<1>12. ASSUME NEW t \in Threads, UninstallCheck(t), UNCHANGED changes
      PROVE  KindFits'
  BY <1>12 DEF UninstallCheck, Owned, Forget
<1>13. ASSUME NEW t \in Threads, UninstallCopy(t), UNCHANGED changes
      PROVE  KindFits'
  BY <1>13 DEF UninstallCopy
<1>14. ASSUME NEW t \in Threads, UninstallPublish(t), UNCHANGED changes
      PROVE  KindFits'
  BY <1>14 DEF UninstallPublish, Publish, Forget
<1>15. ASSUME NEW t \in Threads, UninstallEnd(t), UNCHANGED changes
      PROVE  KindFits'
  BY <1>15 DEF UninstallEnd
<1>16. ASSUME NEW t \in Threads, AuditSuspects(t) \/ AuditDecides(t),
             UNCHANGED changes
      PROVE  KindFits'
  BY <1>16 DEF AuditSuspects, AuditDecides
<1>17. ASSUME NEW t \in Threads, RecoverBegin(t), UNCHANGED changes
      PROVE  KindFits'
  BY <1>17 DEF RecoverBegin
<1>18. ASSUME NEW t \in Threads, RecoverCopy(t), UNCHANGED changes
      PROVE  KindFits'
  BY <1>18 DEF RecoverCopy, MustRecover, Replaced
<1>19. ASSUME NEW t \in Threads, RecoverSkip(t), UNCHANGED changes
      PROVE  KindFits'
  BY <1>19 DEF RecoverSkip
<1>20. ASSUME NEW t \in Threads, RecoverPublish(t), UNCHANGED changes
      PROVE  KindFits'
  BY <1>20 DEF RecoverPublish, Publish
<1>21. ASSUME NEW t \in Threads, RecoverEnd(t), UNCHANGED changes
      PROVE  KindFits'
  BY <1>21 DEF RecoverEnd
<1>22. ASSUME NEW t \in Threads, ModuleBegin(t) \/ ModuleEnd(t),
             UNCHANGED changes
      PROVE  KindFits'
  BY <1>22 DEF ModuleBegin, ModuleEnd
<1>23. ASSUME NEW k \in Kinds, NEW i \in Items, Append(k, i)
      PROVE  KindFits'
  BY <1>23 DEF Append, Changed
<1>24. ASSUME NEW k \in Kinds, NEW items \in SUBSET Items, Reassign(k, items)
      PROVE  KindFits'
  BY <1>24 DEF Reassign, Changed
<1>25. ASSUME NEW k \in Kinds, Save(k), UNCHANGED changes
      PROVE  KindFits'
  BY <1>25 DEF Save
<1>26. ASSUME NEW k \in Kinds, PutBack(k)
      PROVE  KindFits'
  BY <1>26 DEF PutBack, Changed
<1> QED
  BY <1>1, <1>2, <1>3, <1>4, <1>5, <1>6, <1>7, <1>8, <1>9, <1>10,
     <1>11, <1>12, <1>13, <1>14, <1>15, <1>16, <1>17, <1>18, <1>19, <1>20,
     <1>21, <1>22, <1>23, <1>24, <1>25, <1>26
  DEF Next, Continue, Others, ChangeLists

\* Every step leaves copies with the threads that are making or publishing one.
LEMMA DraftFitsStep == LifecycleInv /\ [Next]_vars => DraftFits'
<1> SUFFICES ASSUME LifecycleInv, [Next]_vars PROVE DraftFits'
  OBVIOUS
<1>0. /\ WorkIsOwned /\ KindFits /\ DraftFits /\ pc \in [Threads -> PC]
      /\ lock \in Threads \union {Nobody}
      /\ draft \in [Threads -> Lists \union {NoList}]
  BY DEF LifecycleInv, TypeOK
<1> USE <1>0 DEF DraftFits, WorkIsOwned, Outside, Installs, Accesses, Unwraps,
        Rewraps, Goto, At, monitor, memory, locals, history, asked
<1>1. CASE UNCHANGED vars
  BY <1>1 DEF vars, monitor, memory, locals, history, asked
<1>2. ASSUME NEW t \in Threads, NEW r \in Requests, InstallBegin(t, r),
             UNCHANGED changes
      PROVE  DraftFits'
  BY <1>2, NobodyAssumption DEF InstallBegin
<1>3. ASSUME NEW t \in Threads, InstallCopy(t), UNCHANGED changes
      PROVE  DraftFits'
  <2>1. CASE MetaPath \in request.lists
    <3>1. /\ FreeList(MetaPath) \in Lists
          /\ draft' = [draft EXCEPT ![t] = FreeList(MetaPath)]
      BY <1>3, <2>1, CopiesAreLists
    <3>2. QED
      BY <1>3, <2>1, <3>1, NoListIsNoList, NobodyAssumption DEF InstallCopy
  <2>2. CASE MetaPath \notin request.lists
    BY <1>3, <2>2, NobodyAssumption DEF InstallCopy
  <2>3. QED
    BY <2>1, <2>2
<1>4. ASSUME NEW t \in Threads, InstallCommit(t), UNCHANGED changes
      PROVE  DraftFits'
  BY <1>4, NobodyAssumption DEF InstallCommit, Publish
<1>5. ASSUME NEW t \in Threads, EnableCopy(t), UNCHANGED changes
      PROVE  DraftFits'
  <2>1. FreeList(kind[t]) \in Lists /\ draft' = [draft EXCEPT ![t] = FreeList(kind[t])]
    BY <1>5, CopiesAreLists
  <2>2. QED
    BY <1>5, <2>1, NoListIsNoList, NobodyAssumption DEF EnableCopy
<1>6. ASSUME NEW t \in Threads, EnableExpose(t), UNCHANGED changes
      PROVE  DraftFits'
  BY <1>6, NobodyAssumption DEF EnableExpose, Publish
<1>7. ASSUME NEW t \in Threads, EnableSkip(t), UNCHANGED changes
      PROVE  DraftFits'
  BY <1>7, NobodyAssumption DEF EnableSkip
<1>8. ASSUME NEW t \in Threads, InstallEnd(t), UNCHANGED changes
      PROVE  DraftFits'
  BY <1>8, NobodyAssumption DEF InstallEnd
<1>9. ASSUME NEW t \in Threads, Inspect(t) \/ InspectImports(t) \/ ImportReturns(t),
             UNCHANGED changes
      PROVE  DraftFits'
  BY <1>9, NobodyAssumption DEF Inspect, InspectImports, ImportReturns,
    Inspected
<1>10. ASSUME NEW t \in Threads, InspectRaises(t), UNCHANGED changes
      PROVE  DraftFits'
  BY <1>10, NobodyAssumption DEF InspectRaises
<1>11. ASSUME NEW t \in Threads, UninstallBegin(t), UNCHANGED changes
      PROVE  DraftFits'
  BY <1>11, NobodyAssumption DEF UninstallBegin
<1>12. ASSUME NEW t \in Threads, UninstallCheck(t), UNCHANGED changes
      PROVE  DraftFits'
  BY <1>12, NobodyAssumption DEF UninstallCheck, Owned, Forget
<1>13. ASSUME NEW t \in Threads, UninstallCopy(t), UNCHANGED changes
      PROVE  DraftFits'
  <2>1. FreeList(kind[t]) \in Lists /\ draft' = [draft EXCEPT ![t] = FreeList(kind[t])]
    BY <1>13, CopiesAreLists
  <2>2. QED
    BY <1>13, <2>1, NoListIsNoList, NobodyAssumption DEF UninstallCopy
<1>14. ASSUME NEW t \in Threads, UninstallPublish(t), UNCHANGED changes
      PROVE  DraftFits'
  BY <1>14, NobodyAssumption DEF UninstallPublish, Publish, Forget
<1>15. ASSUME NEW t \in Threads, UninstallEnd(t), UNCHANGED changes
      PROVE  DraftFits'
  BY <1>15, NobodyAssumption DEF UninstallEnd
<1>16. ASSUME NEW t \in Threads, AuditSuspects(t) \/ AuditDecides(t),
             UNCHANGED changes
      PROVE  DraftFits'
  BY <1>16, NobodyAssumption DEF AuditSuspects, AuditDecides
<1>17. ASSUME NEW t \in Threads, RecoverBegin(t), UNCHANGED changes
      PROVE  DraftFits'
  BY <1>17, NobodyAssumption DEF RecoverBegin
<1>18. ASSUME NEW t \in Threads, RecoverCopy(t), UNCHANGED changes
      PROVE  DraftFits'
  <2>1. FreeList(kind[t]) \in Lists /\ draft' = [draft EXCEPT ![t] = FreeList(kind[t])]
    BY <1>18, CopiesAreLists
  <2>2. QED
    BY <1>18, <2>1, NoListIsNoList, NobodyAssumption DEF RecoverCopy
<1>19. ASSUME NEW t \in Threads, RecoverSkip(t), UNCHANGED changes
      PROVE  DraftFits'
  BY <1>19, NobodyAssumption DEF RecoverSkip
<1>20. ASSUME NEW t \in Threads, RecoverPublish(t), UNCHANGED changes
      PROVE  DraftFits'
  BY <1>20, NobodyAssumption DEF RecoverPublish, Publish
<1>21. ASSUME NEW t \in Threads, RecoverEnd(t), UNCHANGED changes
      PROVE  DraftFits'
  BY <1>21, NobodyAssumption DEF RecoverEnd
<1>22. ASSUME NEW t \in Threads, ModuleBegin(t) \/ ModuleEnd(t),
             UNCHANGED changes
      PROVE  DraftFits'
  BY <1>22, NobodyAssumption DEF ModuleBegin, ModuleEnd
<1>23. ASSUME NEW k \in Kinds, NEW i \in Items, Append(k, i)
      PROVE  DraftFits'
  BY <1>23, NobodyAssumption DEF Append, Changed
<1>24. ASSUME NEW k \in Kinds, NEW items \in SUBSET Items, Reassign(k, items)
      PROVE  DraftFits'
  BY <1>24, NobodyAssumption DEF Reassign, Changed
<1>25. ASSUME NEW k \in Kinds, Save(k), UNCHANGED changes
      PROVE  DraftFits'
  BY <1>25, NobodyAssumption DEF Save
<1>26. ASSUME NEW k \in Kinds, PutBack(k)
      PROVE  DraftFits'
  BY <1>26, NobodyAssumption DEF PutBack, Changed
<1> QED
  BY <1>1, <1>2, <1>3, <1>4, <1>5, <1>6, <1>7, <1>8, <1>9, <1>10,
     <1>11, <1>12, <1>13, <1>14, <1>15, <1>16, <1>17, <1>18, <1>19, <1>20,
     <1>21, <1>22, <1>23, <1>24, <1>25, <1>26
  DEF Next, Continue, Others, ChangeLists

\* The kinds in their order.
LEMMA KindOrder ==
  /\ \A k \in Kinds : ~(k < MetaPath) /\ k < NumKinds + 1
  /\ \A j, k \in Kinds : k < j + 1 => k < j \/ k = j
  BY KindsAssumption DEF Kinds, MetaPath

\* What the monitor forgets.
LEMMA Forgotten ==
  ASSUME TypeOK, NEW k \in Kinds, Forget(k)
  PROVE  /\ wrapped'[k] = NoList /\ (k # MetaPath => ~on'[k])
         /\ \A j \in Kinds : j # k =>
              wrapped'[j] = wrapped[j] /\ (on'[j] <=> on[j])
  BY DEF Forget, TypeOK

\* Every step lets go of lists as far as it says it does.
LEMMA LettingGoStep == LifecycleInv /\ [Next]_vars => LettingGo'
<1> SUFFICES ASSUME LifecycleInv, [Next]_vars PROVE LettingGo'
  OBVIOUS
<1>0. /\ WorkIsOwned /\ KindFits /\ DraftFits
      /\ pc \in [Threads -> PC] /\ kind \in [Threads -> 1 .. (NumKinds + 1)]
      /\ draft \in [Threads -> Lists \union {NoList}]
      /\ request.lists \subseteq Kinds /\ MetaPath \in Kinds
      /\ wrapped \in [Kinds -> Lists \union {NoList}]
      /\ live \in [Kinds -> Lists] /\ kept \in [Kinds -> Lists \union {NoList}]
      /\ assigner \in [Kinds -> {"monitor", "program"}]
      /\ on \in [Kinds -> BOOLEAN] /\ NoneHeldAtFirst /\ LettingGo /\ FoundStillHolds
  BY RequestedKinds DEF LifecycleInv, TypeOK
<1> USE <1>0 DEF LettingGo, NoneHeldAtFirst, NoneHeld, FoundStillHolds,
        WorkIsOwned, KindFits, Outside, Installs, Accesses, Unwraps, Rewraps,
        Goto, At, monitor, memory, locals, history, asked
<1>1. CASE UNCHANGED vars
  BY <1>1 DEF vars, monitor, memory, locals, history, asked
<1>2. ASSUME NEW t \in Threads, NEW r \in Requests, InstallBegin(t, r),
             UNCHANGED changes
      PROVE  LettingGo'
  BY <1>2, NobodyAssumption DEF InstallBegin
<1>3. ASSUME NEW t \in Threads, InstallCopy(t), UNCHANGED changes
      PROVE  LettingGo'
  BY <1>3, NobodyAssumption DEF InstallCopy
<1>4. ASSUME NEW t \in Threads, InstallCommit(t), UNCHANGED changes
      PROVE  LettingGo'
  <2>1. NoneHeld /\ transition = t
    BY <1>4, NobodyAssumption DEF InstallCommit
  <2>2. \A k \in Kinds :
          wrapped'[k] # NoList => k = MetaPath /\ MetaPath \in request.lists
    BY <1>4, <2>1 DEF InstallCommit
  <2>3. on'[MetaPath] <=> MetaPath \in request.lists
    BY <1>4 DEF InstallCommit
  <2>4. \A u \in Threads : pc'[u] \notin Unwraps
    BY <1>4, <2>1, NobodyAssumption DEF InstallCommit
  <2>5. QED
    BY <2>2, <2>3, <2>4
<1>5. ASSUME NEW t \in Threads, EnableCopy(t), UNCHANGED changes
      PROVE  LettingGo'
  BY <1>5, NobodyAssumption DEF EnableCopy
<1>6. ASSUME NEW t \in Threads, EnableExpose(t), UNCHANGED changes
      PROVE  LettingGo'
  BY <1>6, NobodyAssumption DEF EnableExpose, Publish
<1>7. ASSUME NEW t \in Threads, EnableSkip(t), UNCHANGED changes
      PROVE  LettingGo'
  BY <1>7, NobodyAssumption DEF EnableSkip
<1>8. ASSUME NEW t \in Threads, InstallEnd(t), UNCHANGED changes
      PROVE  LettingGo'
  BY <1>8, NobodyAssumption DEF InstallEnd
<1>9. ASSUME NEW t \in Threads, Inspect(t) \/ InspectImports(t) \/ ImportReturns(t),
             UNCHANGED changes
      PROVE  LettingGo'
  BY <1>9, NobodyAssumption DEF Inspect, InspectImports, ImportReturns,
    Inspected
<1>10. ASSUME NEW t \in Threads, InspectRaises(t), UNCHANGED changes
      PROVE  LettingGo'
  BY <1>10, NobodyAssumption DEF InspectRaises
<1>11. ASSUME NEW t \in Threads, UninstallBegin(t), UNCHANGED changes
      PROVE  LettingGo'
  BY <1>11, NobodyAssumption, KindOrder DEF UninstallBegin
<1>12. ASSUME NEW t \in Threads, UninstallCheck(t), UNCHANGED changes
      PROVE  LettingGo'
  <2>1. CASE Owned(kind[t])
    BY <1>12, <2>1, NobodyAssumption DEF UninstallCheck
  <2>2. CASE ~Owned(kind[t])
    <3>1. kind[t] \in Kinds /\ Forget(kind[t]) /\ TypeOK
      BY <1>12, <2>2 DEF UninstallCheck, LifecycleInv
    <3>2. \A k \in Kinds : wrapped'[k] # NoList => on'[k]
      BY <3>1, Forgotten
    <3>3. \A k \in Kinds : k < kind'[t] =>
            wrapped'[k] = NoList /\ (k # MetaPath => ~on'[k])
      <4>1. kind'[t] = kind[t] + 1
        BY <1>12, <2>2 DEF UninstallCheck
      <4>2. \A k \in Kinds : k < kind'[t] => k < kind[t] \/ k = kind[t]
        BY <3>1, <4>1, KindOrder
      <4>3. \A k \in Kinds : k < kind[t] =>
              wrapped[k] = NoList /\ (k # MetaPath => ~on[k])
        BY <1>12 DEF UninstallCheck
      <4>4. QED
        BY <3>1, <4>2, <4>3, Forgotten
    <3>4. \A u \in Threads : pc'[u] \in Unwraps => u = t
      BY <1>12, <2>2, NobodyAssumption DEF UninstallCheck
    <3>5. QED
      BY <3>2, <3>3, <3>4
  <2>3. QED
    BY <2>1, <2>2
<1>13. ASSUME NEW t \in Threads, UninstallCopy(t), UNCHANGED changes
      PROVE  LettingGo'
  BY <1>13, NobodyAssumption DEF UninstallCopy
<1>14. ASSUME NEW t \in Threads, UninstallPublish(t), UNCHANGED changes
      PROVE  LettingGo'
  <2>1. kind[t] \in Kinds /\ Forget(kind[t]) /\ TypeOK
    BY <1>14 DEF UninstallPublish, LifecycleInv
  <2>2. \A k \in Kinds : wrapped'[k] # NoList => on'[k]
    BY <2>1, Forgotten
  <2>3. \A k \in Kinds : k < kind'[t] =>
          wrapped'[k] = NoList /\ (k # MetaPath => ~on'[k])
    <3>1. kind'[t] = kind[t] + 1
      BY <1>14 DEF UninstallPublish
    <3>2. \A k \in Kinds : k < kind'[t] => k < kind[t] \/ k = kind[t]
      BY <2>1, <3>1, KindOrder
    <3>3. \A k \in Kinds : k < kind[t] =>
            wrapped[k] = NoList /\ (k # MetaPath => ~on[k])
      BY <1>14 DEF UninstallPublish
    <3>4. QED
      BY <2>1, <3>2, <3>3, Forgotten
  <2>4. \A u \in Threads : pc'[u] \in Unwraps => u = t
    BY <1>14, NobodyAssumption DEF UninstallPublish
  <2>5. QED
    BY <2>2, <2>3, <2>4
<1>15. ASSUME NEW t \in Threads, UninstallEnd(t), UNCHANGED changes
      PROVE  LettingGo'
  BY <1>15, NobodyAssumption, KindOrder DEF UninstallEnd
<1>16. ASSUME NEW t \in Threads, AuditSuspects(t) \/ AuditDecides(t),
             UNCHANGED changes
      PROVE  LettingGo'
  BY <1>16, NobodyAssumption DEF AuditSuspects, AuditDecides
<1>17. ASSUME NEW t \in Threads, RecoverBegin(t), UNCHANGED changes
      PROVE  LettingGo'
  BY <1>17, NobodyAssumption DEF RecoverBegin
<1>18. ASSUME NEW t \in Threads, RecoverCopy(t), UNCHANGED changes
      PROVE  LettingGo'
  BY <1>18, NobodyAssumption DEF RecoverCopy, MustRecover, Replaced
<1>19. ASSUME NEW t \in Threads, RecoverSkip(t), UNCHANGED changes
      PROVE  LettingGo'
  BY <1>19, NobodyAssumption DEF RecoverSkip
<1>20. ASSUME NEW t \in Threads, RecoverPublish(t), UNCHANGED changes
      PROVE  LettingGo'
  BY <1>20, NobodyAssumption DEF RecoverPublish, Publish
<1>21. ASSUME NEW t \in Threads, RecoverEnd(t), UNCHANGED changes
      PROVE  LettingGo'
  BY <1>21, NobodyAssumption DEF RecoverEnd
<1>22. ASSUME NEW t \in Threads, ModuleBegin(t) \/ ModuleEnd(t),
             UNCHANGED changes
      PROVE  LettingGo'
  BY <1>22, NobodyAssumption DEF ModuleBegin, ModuleEnd
<1>23. ASSUME NEW k \in Kinds, NEW i \in Items, Append(k, i)
      PROVE  LettingGo'
  BY <1>23, NobodyAssumption DEF Append, Changed
<1>24. ASSUME NEW k \in Kinds, NEW items \in SUBSET Items, Reassign(k, items)
      PROVE  LettingGo'
  BY <1>24, NobodyAssumption DEF Reassign, Changed
<1>25. ASSUME NEW k \in Kinds, Save(k), UNCHANGED changes
      PROVE  LettingGo'
  BY <1>25, NobodyAssumption DEF Save
<1>26. ASSUME NEW k \in Kinds, PutBack(k)
      PROVE  LettingGo'
  BY <1>26, NobodyAssumption DEF PutBack, Changed
<1> QED
  BY <1>1, <1>2, <1>3, <1>4, <1>5, <1>6, <1>7, <1>8, <1>9, <1>10,
     <1>11, <1>12, <1>13, <1>14, <1>15, <1>16, <1>17, <1>18, <1>19, <1>20,
     <1>21, <1>22, <1>23, <1>24, <1>25, <1>26
  DEF Next, Continue, Others, ChangeLists

\* Every step that ends an uninstallation or begins an installation holds no list.
LEMMA NoneHeldStep == LifecycleInv /\ [Next]_vars => NoneHeldAtFirst'
<1> SUFFICES ASSUME LifecycleInv, [Next]_vars PROVE NoneHeldAtFirst'
  OBVIOUS
<1>0. /\ WorkIsOwned /\ KindFits /\ DraftFits
      /\ pc \in [Threads -> PC] /\ kind \in [Threads -> 1 .. (NumKinds + 1)]
      /\ draft \in [Threads -> Lists \union {NoList}]
      /\ request.lists \subseteq Kinds /\ MetaPath \in Kinds
      /\ wrapped \in [Kinds -> Lists \union {NoList}]
      /\ live \in [Kinds -> Lists] /\ kept \in [Kinds -> Lists \union {NoList}]
      /\ assigner \in [Kinds -> {"monitor", "program"}]
      /\ on \in [Kinds -> BOOLEAN] /\ NoneHeldAtFirst /\ LettingGo
  BY RequestedKinds DEF LifecycleInv, TypeOK
<1> USE <1>0 DEF LettingGo, NoneHeldAtFirst, NoneHeld, WorkIsOwned, KindFits,
        Outside, Installs, Accesses, Unwraps, Rewraps, Goto, At, monitor,
        memory, locals, history, asked
<1>1. CASE UNCHANGED vars
  BY <1>1 DEF vars, monitor, memory, locals, history, asked
<1>2. ASSUME NEW t \in Threads, NEW r \in Requests, InstallBegin(t, r),
             UNCHANGED changes
      PROVE  NoneHeldAtFirst'
  BY <1>2, NobodyAssumption DEF InstallBegin
<1>3. ASSUME NEW t \in Threads, InstallCopy(t), UNCHANGED changes
      PROVE  NoneHeldAtFirst'
  BY <1>3, NobodyAssumption DEF InstallCopy
<1>4. ASSUME NEW t \in Threads, InstallCommit(t), UNCHANGED changes
      PROVE  NoneHeldAtFirst'
  BY <1>4, NobodyAssumption DEF InstallCommit, Publish
<1>5. ASSUME NEW t \in Threads, EnableCopy(t), UNCHANGED changes
      PROVE  NoneHeldAtFirst'
  BY <1>5, NobodyAssumption DEF EnableCopy
<1>6. ASSUME NEW t \in Threads, EnableExpose(t), UNCHANGED changes
      PROVE  NoneHeldAtFirst'
  BY <1>6, NobodyAssumption DEF EnableExpose, Publish
<1>7. ASSUME NEW t \in Threads, EnableSkip(t), UNCHANGED changes
      PROVE  NoneHeldAtFirst'
  BY <1>7, NobodyAssumption DEF EnableSkip
<1>8. ASSUME NEW t \in Threads, InstallEnd(t), UNCHANGED changes
      PROVE  NoneHeldAtFirst'
  BY <1>8, NobodyAssumption DEF InstallEnd
<1>9. ASSUME NEW t \in Threads, Inspect(t) \/ InspectImports(t) \/ ImportReturns(t),
             UNCHANGED changes
      PROVE  NoneHeldAtFirst'
  BY <1>9, NobodyAssumption DEF Inspect, InspectImports, ImportReturns,
    Inspected
<1>10. ASSUME NEW t \in Threads, InspectRaises(t), UNCHANGED changes
      PROVE  NoneHeldAtFirst'
  BY <1>10, NobodyAssumption DEF InspectRaises
<1>11. ASSUME NEW t \in Threads, UninstallBegin(t), UNCHANGED changes
      PROVE  NoneHeldAtFirst'
  BY <1>11, NobodyAssumption, KindOrder DEF UninstallBegin
<1>12. ASSUME NEW t \in Threads, UninstallCheck(t), UNCHANGED changes
      PROVE  NoneHeldAtFirst'
  BY <1>12, NobodyAssumption, KindOrder DEF UninstallCheck, Owned, Forget
<1>13. ASSUME NEW t \in Threads, UninstallCopy(t), UNCHANGED changes
      PROVE  NoneHeldAtFirst'
  BY <1>13, NobodyAssumption DEF UninstallCopy
<1>14. ASSUME NEW t \in Threads, UninstallPublish(t), UNCHANGED changes
      PROVE  NoneHeldAtFirst'
  BY <1>14, NobodyAssumption, KindOrder DEF UninstallPublish, Publish, Forget
<1>15. ASSUME NEW t \in Threads, UninstallEnd(t), UNCHANGED changes
      PROVE  NoneHeldAtFirst'
  BY <1>15, NobodyAssumption, KindOrder DEF UninstallEnd
<1>16. ASSUME NEW t \in Threads, AuditSuspects(t) \/ AuditDecides(t),
             UNCHANGED changes
      PROVE  NoneHeldAtFirst'
  BY <1>16, NobodyAssumption DEF AuditSuspects, AuditDecides
<1>17. ASSUME NEW t \in Threads, RecoverBegin(t), UNCHANGED changes
      PROVE  NoneHeldAtFirst'
  BY <1>17, NobodyAssumption DEF RecoverBegin
<1>18. ASSUME NEW t \in Threads, RecoverCopy(t), UNCHANGED changes
      PROVE  NoneHeldAtFirst'
  BY <1>18, NobodyAssumption DEF RecoverCopy, MustRecover, Replaced
<1>19. ASSUME NEW t \in Threads, RecoverSkip(t), UNCHANGED changes
      PROVE  NoneHeldAtFirst'
  BY <1>19, NobodyAssumption DEF RecoverSkip
<1>20. ASSUME NEW t \in Threads, RecoverPublish(t), UNCHANGED changes
      PROVE  NoneHeldAtFirst'
  BY <1>20, NobodyAssumption DEF RecoverPublish, Publish
<1>21. ASSUME NEW t \in Threads, RecoverEnd(t), UNCHANGED changes
      PROVE  NoneHeldAtFirst'
  BY <1>21, NobodyAssumption DEF RecoverEnd
<1>22. ASSUME NEW t \in Threads, ModuleBegin(t) \/ ModuleEnd(t),
             UNCHANGED changes
      PROVE  NoneHeldAtFirst'
  BY <1>22, NobodyAssumption DEF ModuleBegin, ModuleEnd
<1>23. ASSUME NEW k \in Kinds, NEW i \in Items, Append(k, i)
      PROVE  NoneHeldAtFirst'
  BY <1>23, NobodyAssumption DEF Append, Changed
<1>24. ASSUME NEW k \in Kinds, NEW items \in SUBSET Items, Reassign(k, items)
      PROVE  NoneHeldAtFirst'
  BY <1>24, NobodyAssumption DEF Reassign, Changed
<1>25. ASSUME NEW k \in Kinds, Save(k), UNCHANGED changes
      PROVE  NoneHeldAtFirst'
  BY <1>25, NobodyAssumption DEF Save
<1>26. ASSUME NEW k \in Kinds, PutBack(k)
      PROVE  NoneHeldAtFirst'
  BY <1>26, NobodyAssumption DEF PutBack, Changed
<1> QED
  BY <1>1, <1>2, <1>3, <1>4, <1>5, <1>6, <1>7, <1>8, <1>9, <1>10,
     <1>11, <1>12, <1>13, <1>14, <1>15, <1>16, <1>17, <1>18, <1>19, <1>20,
     <1>21, <1>22, <1>23, <1>24, <1>25, <1>26
  DEF Next, Continue, Others, ChangeLists

\* Every step keeps what a recovery or an uninstallation found.
LEMMA FoundStillHoldsStep == LifecycleInv /\ [Next]_vars => FoundStillHolds'
<1> SUFFICES ASSUME LifecycleInv, [Next]_vars PROVE FoundStillHolds'
  OBVIOUS
<1>0. /\ WorkIsOwned /\ KindFits /\ DraftFits
      /\ pc \in [Threads -> PC] /\ kind \in [Threads -> 1 .. (NumKinds + 1)]
      /\ draft \in [Threads -> Lists \union {NoList}]
      /\ request.lists \subseteq Kinds /\ MetaPath \in Kinds
      /\ wrapped \in [Kinds -> Lists \union {NoList}]
      /\ live \in [Kinds -> Lists] /\ kept \in [Kinds -> Lists \union {NoList}]
      /\ assigner \in [Kinds -> {"monitor", "program"}]
      /\ StoredIsHeld /\ FoundStillHolds
  BY RequestedKinds DEF LifecycleInv, TypeOK
<1> USE <1>0 DEF FoundStillHolds, WorkIsOwned, KindFits, Outside, Installs,
        Accesses, Unwraps, Rewraps, Goto, At, monitor, memory, locals,
        history, asked
<1>1. CASE UNCHANGED vars
  BY <1>1 DEF vars, monitor, memory, locals, history, asked
<1>2. ASSUME NEW t \in Threads, NEW r \in Requests, InstallBegin(t, r),
             UNCHANGED changes
      PROVE  FoundStillHolds'
  BY <1>2, NobodyAssumption DEF InstallBegin
<1>3. ASSUME NEW t \in Threads, InstallCopy(t), UNCHANGED changes
      PROVE  FoundStillHolds'
  BY <1>3, NobodyAssumption DEF InstallCopy
<1>4. ASSUME NEW t \in Threads, InstallCommit(t), UNCHANGED changes
      PROVE  FoundStillHolds'
  BY <1>4, NobodyAssumption DEF InstallCommit, Publish
<1>5. ASSUME NEW t \in Threads, EnableCopy(t), UNCHANGED changes
      PROVE  FoundStillHolds'
  BY <1>5, NobodyAssumption DEF EnableCopy
<1>6. ASSUME NEW t \in Threads, EnableExpose(t), UNCHANGED changes
      PROVE  FoundStillHolds'
  BY <1>6, NobodyAssumption DEF EnableExpose, Publish
<1>7. ASSUME NEW t \in Threads, EnableSkip(t), UNCHANGED changes
      PROVE  FoundStillHolds'
  BY <1>7, NobodyAssumption DEF EnableSkip
<1>8. ASSUME NEW t \in Threads, InstallEnd(t), UNCHANGED changes
      PROVE  FoundStillHolds'
  BY <1>8, NobodyAssumption DEF InstallEnd
<1>9. ASSUME NEW t \in Threads, Inspect(t) \/ InspectImports(t) \/ ImportReturns(t),
             UNCHANGED changes
      PROVE  FoundStillHolds'
  BY <1>9, NobodyAssumption DEF Inspect, InspectImports, ImportReturns,
    Inspected
<1>10. ASSUME NEW t \in Threads, InspectRaises(t), UNCHANGED changes
      PROVE  FoundStillHolds'
  BY <1>10, NobodyAssumption DEF InspectRaises
<1>11. ASSUME NEW t \in Threads, UninstallBegin(t), UNCHANGED changes
      PROVE  FoundStillHolds'
  BY <1>11, NobodyAssumption DEF UninstallBegin
<1>12. ASSUME NEW t \in Threads, UninstallCheck(t), UNCHANGED changes
      PROVE  FoundStillHolds'
  BY <1>12, NobodyAssumption DEF UninstallCheck, Owned, Forget
<1>13. ASSUME NEW t \in Threads, UninstallCopy(t), UNCHANGED changes
      PROVE  FoundStillHolds'
  BY <1>13, NobodyAssumption DEF UninstallCopy
<1>14. ASSUME NEW t \in Threads, UninstallPublish(t), UNCHANGED changes
      PROVE  FoundStillHolds'
  BY <1>14, NobodyAssumption DEF UninstallPublish, Publish, Forget
<1>15. ASSUME NEW t \in Threads, UninstallEnd(t), UNCHANGED changes
      PROVE  FoundStillHolds'
  BY <1>15, NobodyAssumption DEF UninstallEnd
<1>16. ASSUME NEW t \in Threads, AuditSuspects(t) \/ AuditDecides(t),
             UNCHANGED changes
      PROVE  FoundStillHolds'
  BY <1>16, NobodyAssumption DEF AuditSuspects, AuditDecides
<1>17. ASSUME NEW t \in Threads, RecoverBegin(t), UNCHANGED changes
      PROVE  FoundStillHolds'
  BY <1>17, NobodyAssumption DEF RecoverBegin
<1>18. ASSUME NEW t \in Threads, RecoverCopy(t), UNCHANGED changes
      PROVE  FoundStillHolds'
  <2>1. assigner[kind[t]] = "program" /\ wrapped[kind[t]] # NoList
    BY <1>18, NobodyAssumption DEF RecoverCopy, MustRecover, Replaced, StoredIsHeld
  <2>2. QED
    BY <1>18, <2>1, NobodyAssumption DEF RecoverCopy, Draft
<1>19. ASSUME NEW t \in Threads, RecoverSkip(t), UNCHANGED changes
      PROVE  FoundStillHolds'
  BY <1>19, NobodyAssumption DEF RecoverSkip
<1>20. ASSUME NEW t \in Threads, RecoverPublish(t), UNCHANGED changes
      PROVE  FoundStillHolds'
  BY <1>20, NobodyAssumption DEF RecoverPublish, Publish
<1>21. ASSUME NEW t \in Threads, RecoverEnd(t), UNCHANGED changes
      PROVE  FoundStillHolds'
  BY <1>21, NobodyAssumption DEF RecoverEnd
<1>22. ASSUME NEW t \in Threads, ModuleBegin(t) \/ ModuleEnd(t),
             UNCHANGED changes
      PROVE  FoundStillHolds'
  BY <1>22, NobodyAssumption DEF ModuleBegin, ModuleEnd
<1>23. ASSUME NEW k \in Kinds, NEW i \in Items, Append(k, i)
      PROVE  FoundStillHolds'
  BY <1>23, NobodyAssumption DEF Append, Changed
<1>24. ASSUME NEW k \in Kinds, NEW items \in SUBSET Items, Reassign(k, items)
      PROVE  FoundStillHolds'
  BY <1>24, NobodyAssumption DEF Reassign, Changed
<1>25. ASSUME NEW k \in Kinds, Save(k), UNCHANGED changes
      PROVE  FoundStillHolds'
  BY <1>25, NobodyAssumption DEF Save
<1>26. ASSUME NEW k \in Kinds, PutBack(k)
      PROVE  FoundStillHolds'
  BY <1>26, NobodyAssumption DEF PutBack, Changed
<1> QED
  BY <1>1, <1>2, <1>3, <1>4, <1>5, <1>6, <1>7, <1>8, <1>9, <1>10,
     <1>11, <1>12, <1>13, <1>14, <1>15, <1>16, <1>17, <1>18, <1>19, <1>20,
     <1>21, <1>22, <1>23, <1>24, <1>25, <1>26
  DEF Next, Continue, Others, ChangeLists

(***************************************************************************)
(* Copies.                                                                 *)
(***************************************************************************)
\* What thread t copies, wherever it is about to copy a list of its kind: the
\* copy is a new list, holds what the live list holds unless the program has
\* interfered, and the live lists stay what they are.
CopyMade(t) ==
  /\ kind[t] \in Kinds /\ live' = live /\ kept' = kept
  /\ draft' = [draft EXCEPT ![t] = FreeList(kind[t])]
  /\ FreeList(kind[t]) \in Lists
  /\ FreeList(kind[t]) \notin {live[kind[t]], wrapped[kind[t]], kept[kind[t]]}
  /\ FreeList(kind[t]) \in ours'[kind[t]] <=> pc[t] # "plain"
  /\ kind[t] \notin overlap' =>
       contents'[kind[t]][FreeList(kind[t])] = contents'[kind[t]][live[kind[t]]]
  /\ \A j \in Kinds : live[j] \in ours'[j] <=> live[j] \in ours[j]

\* _InstrumentedMetaPath(current) and its like.
LEMMA DraftCopies ==
  ASSUME LifecycleInv, NEW t \in Threads, kind[t] \in Kinds, pc[t] # "plain",
         Draft(t, kind[t], live[kind[t]], TRUE)
  PROVE  CopyMade(t)
<1> DEFINE k == kind[t]
<1>1. TypeOK /\ WorkIsOwned /\ DraftFits /\ k \in Kinds /\ live[k] \in Lists
      /\ live \in [Kinds -> Lists]
  BY DEF LifecycleInv, TypeOK
<1>2. contents[k][live[k]] \in SUBSET Items /\ Create(k, contents[k][live[k]], TRUE)
  BY <1>1, Drafted
<1>3. IsNew(k, contents[k][live[k]], TRUE) /\ OthersUntouched
  BY <1>1, <1>2, Created
<1>4. \A j \in Kinds : Untouched(j, live[j])
  BY <1>3 DEF OthersUntouched
<1>5. QED
  BY <1>1, <1>3, <1>4 DEF CopyMade, IsNew, Untouched, Draft

\* Every step that copies.
LEMMA CopyStep ==
  ASSUME LifecycleInv, NEW t \in Threads,
         \/ InstallCopy(t) /\ MetaPath \in request.lists
         \/ EnableCopy(t) \/ UninstallCopy(t) \/ RecoverCopy(t)
  PROVE  CopyMade(t)
<1>1. CASE InstallCopy(t) /\ MetaPath \in request.lists
  <2>1. kind[t] = MetaPath /\ kind[t] \in Kinds
    BY <1>1, RequestedKinds DEF InstallCopy, LifecycleInv, KindFits, At
  <2>2. QED
    BY <1>1, <2>1, DraftCopies DEF InstallCopy, At
<1>2. CASE EnableCopy(t)
  BY <1>2, DraftCopies, CopiesAreLists DEF EnableCopy, At
<1>3. CASE RecoverCopy(t)
  BY <1>3, DraftCopies DEF RecoverCopy, At
<1>4. CASE UninstallCopy(t)
  <2> DEFINE k == kind[t]
  <2>1. /\ TypeOK /\ WorkIsOwned /\ DraftFits /\ k \in Kinds
        /\ wrapped[k] \in Lists /\ live[k] \in Lists /\ live \in [Kinds -> Lists]
        /\ k \notin overlap => live[k] = wrapped[k]
        /\ pc[t] = "plain"
    BY <1>4 DEF UninstallCopy, LifecycleInv, TypeOK, KindFits, FoundStillHolds, At
  <2>2. PICK l \in Lists :
          /\ Create(k, contents[k][l], FALSE)
          /\ k \notin overlap => l = live[k]
          /\ draft' = [draft EXCEPT ![t] = FreeList(k)]
          /\ live' = live /\ kept' = kept /\ overlap' = overlap
    BY <1>4, <2>1 DEF UninstallCopy, history
  <2>3. contents[k][l] \in SUBSET Items
    BY <2>1 DEF TypeOK
  <2>4. IsNew(k, contents[k][l], FALSE) /\ OthersUntouched
    BY <2>1, <2>2, <2>3, Created
  <2>5. \A j \in Kinds : Untouched(j, live[j])
    BY <2>4 DEF OthersUntouched
  <2>6. QED
    BY <2>1, <2>2, <2>4, <2>5 DEF CopyMade, IsNew, Untouched
<1>5. QED
  BY <1>1, <1>2, <1>3, <1>4

\* What the program's new list leaves as it was.
LEMMA ReassignLeaves ==
  ASSUME LifecycleInv, NEW k \in Kinds, NEW items \in SUBSET Items, Reassign(k, items)
  PROVE  /\ live'[k] \in Lists
         /\ \A j \in Kinds : j # k => live'[j] = live[j] /\ Untouched(j, live[j])
         /\ \A u \in Threads : draft[u] # NoList /\ kind[u] \in Kinds =>
              /\ draft[u] # live'[k] \/ kind[u] # k
              /\ Untouched(kind[u], draft[u])
<1>1. /\ TypeOK /\ WorkIsOwned /\ DraftFits /\ Create(k, items, FALSE)
      /\ live \in [Kinds -> Lists] /\ draft \in [Threads -> Lists \union {NoList}]
      /\ live' = [live EXCEPT ![k] = FreeList(k)]
  BY DEF LifecycleInv, TypeOK, Reassign
<1>2. IsNew(k, items, FALSE) /\ OthersUntouched
  BY <1>1, Created
<1>3. QED
  BY <1>1, <1>2 DEF IsNew, OthersUntouched

\* Every step stores only lists that the monitor holds, or ordinary ones.
LEMMA StoredIsHeldStep == LifecycleInv /\ [Next]_vars => StoredIsHeld'
<1> SUFFICES ASSUME LifecycleInv, [Next]_vars PROVE StoredIsHeld'
  OBVIOUS
<1>0. /\ WorkIsOwned /\ KindFits /\ DraftFits
      /\ pc \in [Threads -> PC] /\ kind \in [Threads -> 1 .. (NumKinds + 1)]
      /\ draft \in [Threads -> Lists \union {NoList}]
      /\ request.lists \subseteq Kinds /\ MetaPath \in Kinds
      /\ wrapped \in [Kinds -> Lists \union {NoList}]
      /\ live \in [Kinds -> Lists] /\ kept \in [Kinds -> Lists \union {NoList}]
      /\ assigner \in [Kinds -> {"monitor", "program"}]
      /\ ours \in [Kinds -> SUBSET Lists]
      /\ LettingGo /\ DraftIsPrivate /\ StoredIsHeld
  BY RequestedKinds DEF LifecycleInv, TypeOK
<1> USE <1>0 DEF StoredIsHeld, LettingGo, DraftIsPrivate, WorkIsOwned, KindFits,
        DraftFits, Outside, Installs, Accesses, Unwraps, Rewraps, Goto, At,
        monitor, memory, locals, history, asked
<1>1. CASE UNCHANGED vars
  BY <1>1 DEF vars, monitor, memory, locals, history, asked
<1>2. ASSUME NEW t \in Threads, NEW r \in Requests, InstallBegin(t, r),
             UNCHANGED changes
      PROVE  StoredIsHeld'
  BY <1>2, NobodyAssumption DEF InstallBegin
<1>3. ASSUME NEW t \in Threads, InstallCopy(t), UNCHANGED changes
      PROVE  StoredIsHeld'
  <2>1. CASE MetaPath \in request.lists
    <3>1. CopyMade(t)
      BY <1>3, <2>1, CopyStep
    <3>2. QED
      BY <1>3, <2>1, <3>1, NobodyAssumption DEF InstallCopy, CopyMade
  <2>2. CASE MetaPath \notin request.lists
    BY <1>3, <2>2, NobodyAssumption DEF InstallCopy
  <2>3. QED
    BY <2>1, <2>2
<1>4. ASSUME NEW t \in Threads, InstallCommit(t), UNCHANGED changes
      PROVE  StoredIsHeld'
  BY <1>4, NobodyAssumption DEF InstallCommit, Publish
<1>5. ASSUME NEW t \in Threads, EnableCopy(t), UNCHANGED changes
      PROVE  StoredIsHeld'
  <2> DEFINE k == kind[t]
  <2>1. CopyMade(t)
    BY <1>5, CopyStep
  <2>2. /\ pc' = [pc EXCEPT ![t] = "expose"] /\ kind' = kind /\ assigner' = assigner
        /\ ~on[k] /\ wrapped' = [wrapped EXCEPT ![k] = FreeList(k)]
        /\ transition = t /\ k \in Kinds /\ live' = live
    BY <1>5, <2>1 DEF EnableCopy, CopyMade
  <2>3. wrapped[k] = NoList
    BY <2>2 DEF LettingGo
  <2>4. ASSUME NEW j \in Kinds, assigner'[j] = "monitor"
        PROVE  \/ live'[j] = wrapped'[j]
               \/ /\ live'[j] \notin ours'[j]
                  /\ \/ wrapped'[j] = NoList
                     \/ \E u \in Threads : pc'[u] = "expose" /\ kind'[u] = j
    <3>1. live[j] \in ours'[j] <=> live[j] \in ours[j]
      BY <2>1 DEF CopyMade
    <3>2. ~\E u \in Threads : pc[u] = "expose"
      BY <1>5, <2>2, NobodyAssumption
    <3>3. live[j] \in Lists /\ live[j] # NoList
      BY NoListIsNoList
    <3>4. live[j] = wrapped[j] \/ (live[j] \notin ours[j] /\ wrapped[j] = NoList)
      BY <2>2, <2>4, <3>2
    <3>5. CASE j = k
      <4>1. live[j] \notin ours[j]
        BY <2>3, <3>3, <3>4, <3>5
      <4>2. pc'[t] = "expose" /\ kind'[t] = j
        BY <2>2, <3>5
      <4>3. QED
        BY <2>2, <3>1, <4>1, <4>2
    <3>6. CASE j # k
      <4>1. wrapped'[j] = wrapped[j]
        BY <2>2, <3>6
      <4>2. QED
        BY <2>2, <3>1, <3>4, <4>1
    <3>7. QED
      BY <3>5, <3>6
  <2>5. QED
    BY <2>4
<1>6. ASSUME NEW t \in Threads, EnableExpose(t), UNCHANGED changes
      PROVE  StoredIsHeld'
  BY <1>6, NobodyAssumption DEF EnableExpose, Publish
<1>7. ASSUME NEW t \in Threads, EnableSkip(t), UNCHANGED changes
      PROVE  StoredIsHeld'
  BY <1>7, NobodyAssumption DEF EnableSkip
<1>8. ASSUME NEW t \in Threads, InstallEnd(t), UNCHANGED changes
      PROVE  StoredIsHeld'
  BY <1>8, NobodyAssumption DEF InstallEnd
<1>9. ASSUME NEW t \in Threads, Inspect(t) \/ InspectImports(t) \/ ImportReturns(t),
             UNCHANGED changes
      PROVE  StoredIsHeld'
  BY <1>9, NobodyAssumption DEF Inspect, InspectImports, ImportReturns,
    Inspected
<1>10. ASSUME NEW t \in Threads, InspectRaises(t), UNCHANGED changes
      PROVE  StoredIsHeld'
  BY <1>10, NobodyAssumption DEF InspectRaises
<1>11. ASSUME NEW t \in Threads, UninstallBegin(t), UNCHANGED changes
      PROVE  StoredIsHeld'
  BY <1>11, NobodyAssumption DEF UninstallBegin
<1>12. ASSUME NEW t \in Threads, UninstallCheck(t), UNCHANGED changes
      PROVE  StoredIsHeld'
  BY <1>12, NobodyAssumption DEF UninstallCheck, Owned, Forget
<1>13. ASSUME NEW t \in Threads, UninstallCopy(t), UNCHANGED changes
      PROVE  StoredIsHeld'
  <2>1. CopyMade(t)
    BY <1>13, CopyStep
  <2>2. QED
    BY <1>13, <2>1, NobodyAssumption DEF UninstallCopy, CopyMade
<1>14. ASSUME NEW t \in Threads, UninstallPublish(t), UNCHANGED changes
      PROVE  StoredIsHeld'
  BY <1>14, NobodyAssumption DEF UninstallPublish, Publish, Forget
<1>15. ASSUME NEW t \in Threads, UninstallEnd(t), UNCHANGED changes
      PROVE  StoredIsHeld'
  BY <1>15, NobodyAssumption DEF UninstallEnd
<1>16. ASSUME NEW t \in Threads, AuditSuspects(t) \/ AuditDecides(t),
             UNCHANGED changes
      PROVE  StoredIsHeld'
  BY <1>16, NobodyAssumption DEF AuditSuspects, AuditDecides
<1>17. ASSUME NEW t \in Threads, RecoverBegin(t), UNCHANGED changes
      PROVE  StoredIsHeld'
  BY <1>17, NobodyAssumption DEF RecoverBegin
<1>18. ASSUME NEW t \in Threads, RecoverCopy(t), UNCHANGED changes
      PROVE  StoredIsHeld'
  <2>1. CopyMade(t)
    BY <1>18, CopyStep
  <2>2. QED
    BY <1>18, <2>1, NobodyAssumption DEF RecoverCopy, CopyMade
<1>19. ASSUME NEW t \in Threads, RecoverSkip(t), UNCHANGED changes
      PROVE  StoredIsHeld'
  BY <1>19, NobodyAssumption DEF RecoverSkip
<1>20. ASSUME NEW t \in Threads, RecoverPublish(t), UNCHANGED changes
      PROVE  StoredIsHeld'
  BY <1>20, NobodyAssumption DEF RecoverPublish, Publish
<1>21. ASSUME NEW t \in Threads, RecoverEnd(t), UNCHANGED changes
      PROVE  StoredIsHeld'
  BY <1>21, NobodyAssumption DEF RecoverEnd
<1>22. ASSUME NEW t \in Threads, ModuleBegin(t) \/ ModuleEnd(t),
             UNCHANGED changes
      PROVE  StoredIsHeld'
  BY <1>22, NobodyAssumption DEF ModuleBegin, ModuleEnd
<1>23. ASSUME NEW k \in Kinds, NEW i \in Items, Append(k, i)
      PROVE  StoredIsHeld'
  BY <1>23 DEF Append
<1>24. ASSUME NEW k \in Kinds, NEW items \in SUBSET Items, Reassign(k, items)
      PROVE  StoredIsHeld'
  <2>1. /\ pc' = pc /\ kind' = kind /\ wrapped' = wrapped
        /\ assigner' = [assigner EXCEPT ![k] = "program"]
    BY <1>24 DEF Reassign
  <2>2. \A j \in Kinds : j # k => live'[j] = live[j] /\ Untouched(j, live[j])
    BY <1>24, ReassignLeaves
  <2>3. QED
    BY <2>1, <2>2 DEF Untouched
<1>25. ASSUME NEW k \in Kinds, Save(k), UNCHANGED changes
      PROVE  StoredIsHeld'
  BY <1>25, NobodyAssumption DEF Save
<1>26. ASSUME NEW k \in Kinds, PutBack(k)
      PROVE  StoredIsHeld'
  BY <1>26, NobodyAssumption DEF PutBack, Changed
<1> QED
  BY <1>1, <1>2, <1>3, <1>4, <1>5, <1>6, <1>7, <1>8, <1>9, <1>10,
     <1>11, <1>12, <1>13, <1>14, <1>15, <1>16, <1>17, <1>18, <1>19, <1>20,
     <1>21, <1>22, <1>23, <1>24, <1>25, <1>26
  DEF Next, Continue, Others, ChangeLists

\* The kind of a copy is a kind, and no thread outside has a copy.
LEMMA CopyHasKind ==
  ASSUME LifecycleInv
  PROVE  \A u \in Threads : draft[u] # NoList =>
           kind[u] \in Kinds /\ u \in {transition, lock} /\ pc[u] \notin Outside
<1>1. /\ WorkIsOwned /\ KindFits /\ DraftFits
      /\ draft \in [Threads -> Lists \union {NoList}] /\ MetaPath \in Kinds
  BY RequestedKinds DEF LifecycleInv, TypeOK
<1>2. QED
  BY <1>1 DEF WorkIsOwned, KindFits, DraftFits, Outside, Accesses

\* Every step keeps the copy of a thread its own.
LEMMA DraftIsPrivateStep == LifecycleInv /\ [Next]_vars => DraftIsPrivate'
<1> SUFFICES ASSUME LifecycleInv, [Next]_vars PROVE DraftIsPrivate'
  OBVIOUS
<1>0. /\ WorkIsOwned /\ KindFits /\ DraftFits
      /\ pc \in [Threads -> PC] /\ kind \in [Threads -> 1 .. (NumKinds + 1)]
      /\ draft \in [Threads -> Lists \union {NoList}]
      /\ request.lists \subseteq Kinds /\ MetaPath \in Kinds
      /\ wrapped \in [Kinds -> Lists \union {NoList}]
      /\ live \in [Kinds -> Lists] /\ kept \in [Kinds -> Lists \union {NoList}]
      /\ assigner \in [Kinds -> {"monitor", "program"}]
      /\ ours \in [Kinds -> SUBSET Lists] /\ overlap \subseteq Kinds
      /\ contents \in [Kinds -> [Lists -> SUBSET Items]]
      /\ DraftIsPrivate
      /\ \A u \in Threads : draft[u] # NoList => kind[u] \in Kinds
  BY RequestedKinds, CopyHasKind DEF LifecycleInv, TypeOK
<1> USE <1>0 DEF DraftIsPrivate, WorkIsOwned, KindFits, DraftFits, Outside,
        Installs, Accesses, Unwraps, Rewraps, Goto, At, monitor, memory,
        locals, history, asked
<1>1. CASE UNCHANGED vars
  BY <1>1 DEF vars, monitor, memory, locals, history, asked
<1>2. ASSUME NEW t \in Threads, NEW r \in Requests, InstallBegin(t, r),
             UNCHANGED changes
      PROVE  DraftIsPrivate'
  BY SMTT(30), <1>2, NobodyAssumption DEF InstallBegin
<1>3. ASSUME NEW t \in Threads, InstallCopy(t), UNCHANGED changes
      PROVE  DraftIsPrivate'
  <2>1. CASE MetaPath \in request.lists
    <3>1. CopyMade(t)
      BY <1>3, <2>1, CopyStep
    <3>2. \A u \in Threads : u # t => draft[u] = NoList
      BY SMTT(30), <1>3, <2>1, NobodyAssumption DEF InstallCopy
    <3>3. /\ draft' = [draft EXCEPT ![t] = FreeList(kind[t])] /\ kind' = kind
          /\ live' = live /\ kept' = kept
      BY <1>3, <2>1, <3>1 DEF InstallCopy, CopyMade
    <3>4. wrapped'[kind[t]] = FreeList(kind[t]) <=> pc'[t] = "expose"
      BY <1>3, <2>1, <3>1 DEF InstallCopy, CopyMade
    <3>5. FreeList(kind[t]) \in ours'[kind[t]] <=> pc'[t] # "unwrap"
      BY <1>3, <2>1, <3>1 DEF InstallCopy, CopyMade
    <3>6. QED
      BY <3>1, <3>2, <3>3, <3>4, <3>5 DEF CopyMade
  <2>2. CASE MetaPath \notin request.lists
    BY <1>3, <2>2, NobodyAssumption DEF InstallCopy
  <2>3. QED
    BY <2>1, <2>2
<1>4. ASSUME NEW t \in Threads, InstallCommit(t), UNCHANGED changes
      PROVE  DraftIsPrivate'
  BY <1>4, NobodyAssumption DEF InstallCommit, Publish
<1>5. ASSUME NEW t \in Threads, EnableCopy(t), UNCHANGED changes
      PROVE  DraftIsPrivate'
  <2>1. CopyMade(t)
    BY <1>5, CopyStep
  <2>2. \A u \in Threads : u # t => draft[u] = NoList
    BY <1>5, NobodyAssumption DEF EnableCopy
  <2>3. /\ draft' = [draft EXCEPT ![t] = FreeList(kind[t])] /\ kind' = kind
        /\ live' = live /\ kept' = kept
    BY <1>5, <2>1 DEF EnableCopy, CopyMade
  <2>4. wrapped'[kind[t]] = FreeList(kind[t]) <=> pc'[t] = "expose"
    BY <1>5, <2>1 DEF EnableCopy, CopyMade
  <2>5. FreeList(kind[t]) \in ours'[kind[t]] <=> pc'[t] # "unwrap"
    BY <1>5, <2>1 DEF EnableCopy, CopyMade
  <2>6. QED
    BY <2>1, <2>2, <2>3, <2>4, <2>5 DEF CopyMade
<1>6. ASSUME NEW t \in Threads, EnableExpose(t), UNCHANGED changes
      PROVE  DraftIsPrivate'
  BY <1>6, NobodyAssumption DEF EnableExpose, Publish
<1>7. ASSUME NEW t \in Threads, EnableSkip(t), UNCHANGED changes
      PROVE  DraftIsPrivate'
  BY <1>7, NobodyAssumption DEF EnableSkip
<1>8. ASSUME NEW t \in Threads, InstallEnd(t), UNCHANGED changes
      PROVE  DraftIsPrivate'
  BY <1>8, NobodyAssumption DEF InstallEnd
<1>9. ASSUME NEW t \in Threads, Inspect(t) \/ InspectImports(t) \/ ImportReturns(t),
             UNCHANGED changes
      PROVE  DraftIsPrivate'
  BY <1>9, NobodyAssumption DEF Inspect, InspectImports, ImportReturns,
    Inspected
<1>10. ASSUME NEW t \in Threads, InspectRaises(t), UNCHANGED changes
      PROVE  DraftIsPrivate'
  BY <1>10, NobodyAssumption DEF InspectRaises
<1>11. ASSUME NEW t \in Threads, UninstallBegin(t), UNCHANGED changes
      PROVE  DraftIsPrivate'
  BY <1>11, NobodyAssumption DEF UninstallBegin
<1>12. ASSUME NEW t \in Threads, UninstallCheck(t), UNCHANGED changes
      PROVE  DraftIsPrivate'
  BY <1>12, NobodyAssumption DEF UninstallCheck, Owned, Forget
<1>13. ASSUME NEW t \in Threads, UninstallCopy(t), UNCHANGED changes
      PROVE  DraftIsPrivate'
  <2>1. CopyMade(t)
    BY <1>13, CopyStep
  <2>2. \A u \in Threads : u # t => draft[u] = NoList
    BY <1>13, NobodyAssumption DEF UninstallCopy
  <2>3. /\ draft' = [draft EXCEPT ![t] = FreeList(kind[t])] /\ kind' = kind
        /\ live' = live /\ kept' = kept
    BY <1>13, <2>1 DEF UninstallCopy, CopyMade
  <2>4. wrapped'[kind[t]] = FreeList(kind[t]) <=> pc'[t] = "expose"
    BY <1>13, <2>1 DEF UninstallCopy, CopyMade
  <2>5. FreeList(kind[t]) \in ours'[kind[t]] <=> pc'[t] # "unwrap"
    BY <1>13, <2>1 DEF UninstallCopy, CopyMade
  <2>6. QED
    BY <2>1, <2>2, <2>3, <2>4, <2>5 DEF CopyMade
<1>14. ASSUME NEW t \in Threads, UninstallPublish(t), UNCHANGED changes
      PROVE  DraftIsPrivate'
  BY <1>14, NobodyAssumption DEF UninstallPublish, Publish, Forget
<1>15. ASSUME NEW t \in Threads, UninstallEnd(t), UNCHANGED changes
      PROVE  DraftIsPrivate'
  BY <1>15, NobodyAssumption DEF UninstallEnd
<1>16. ASSUME NEW t \in Threads, AuditSuspects(t) \/ AuditDecides(t),
             UNCHANGED changes
      PROVE  DraftIsPrivate'
  BY <1>16, NobodyAssumption DEF AuditSuspects, AuditDecides
<1>17. ASSUME NEW t \in Threads, RecoverBegin(t), UNCHANGED changes
      PROVE  DraftIsPrivate'
  BY <1>17, NobodyAssumption DEF RecoverBegin
<1>18. ASSUME NEW t \in Threads, RecoverCopy(t), UNCHANGED changes
      PROVE  DraftIsPrivate'
  <2>1. CopyMade(t)
    BY <1>18, CopyStep
  <2>2. \A u \in Threads : u # t => draft[u] = NoList
    BY <1>18, NobodyAssumption DEF RecoverCopy
  <2>3. /\ draft' = [draft EXCEPT ![t] = FreeList(kind[t])] /\ kind' = kind
        /\ live' = live /\ kept' = kept
    BY <1>18, <2>1 DEF RecoverCopy, CopyMade
  <2>4. wrapped'[kind[t]] = FreeList(kind[t]) <=> pc'[t] = "expose"
    BY <1>18, <2>1 DEF RecoverCopy, CopyMade
  <2>5. FreeList(kind[t]) \in ours'[kind[t]] <=> pc'[t] # "unwrap"
    BY <1>18, <2>1 DEF RecoverCopy, CopyMade
  <2>6. QED
    BY <2>1, <2>2, <2>3, <2>4, <2>5 DEF CopyMade
<1>19. ASSUME NEW t \in Threads, RecoverSkip(t), UNCHANGED changes
      PROVE  DraftIsPrivate'
  BY <1>19, NobodyAssumption DEF RecoverSkip
<1>20. ASSUME NEW t \in Threads, RecoverPublish(t), UNCHANGED changes
      PROVE  DraftIsPrivate'
  <2>1. \A u \in Threads : u # t => draft[u] = NoList
    BY <1>20, OneDraft DEF RecoverPublish, LifecycleInv
  <2>2. draft' = [draft EXCEPT ![t] = NoList]
    BY <1>20 DEF RecoverPublish, Publish
  <2>3. QED
    BY <2>1, <2>2
<1>21. ASSUME NEW t \in Threads, RecoverEnd(t), UNCHANGED changes
      PROVE  DraftIsPrivate'
  BY <1>21, NobodyAssumption DEF RecoverEnd
<1>22. ASSUME NEW t \in Threads, ModuleBegin(t) \/ ModuleEnd(t),
             UNCHANGED changes
      PROVE  DraftIsPrivate'
  BY <1>22, NobodyAssumption DEF ModuleBegin, ModuleEnd
<1>23. ASSUME NEW k \in Kinds, NEW i \in Items, Append(k, i)
      PROVE  DraftIsPrivate'
  BY <1>23, NobodyAssumption DEF Append, Changed
<1>24. ASSUME NEW k \in Kinds, NEW items \in SUBSET Items, Reassign(k, items)
      PROVE  DraftIsPrivate'
  <2>1. /\ \A j \in Kinds : j # k => live'[j] = live[j] /\ Untouched(j, live[j])
        /\ \A u \in Threads : draft[u] # NoList /\ kind[u] \in Kinds =>
             /\ draft[u] # live'[k] \/ kind[u] # k
             /\ Untouched(kind[u], draft[u])
    BY <1>24, ReassignLeaves
  <2>2. /\ pc' = pc /\ kind' = kind /\ draft' = draft /\ kept' = kept
        /\ wrapped' = wrapped /\ overlap' = overlap \union {k}
    BY <1>24 DEF Reassign, Changed
  <2>3. ASSUME NEW u \in Threads, draft[u] # NoList
        PROVE  /\ draft[u] \notin {live'[kind[u]], kept[kind[u]]}
               /\ draft[u] \in ours'[kind[u]] <=> draft[u] \in ours[kind[u]]
               /\ kind[u] \notin overlap' =>
                    contents'[kind[u]][draft[u]] = contents'[kind[u]][live'[kind[u]]]
    BY <2>1, <2>2, <2>3 DEF Untouched
  <2>4. QED
    BY <2>2, <2>3
<1>25. ASSUME NEW k \in Kinds, Save(k), UNCHANGED changes
      PROVE  DraftIsPrivate'
  BY <1>25, NobodyAssumption DEF Save
<1>26. ASSUME NEW k \in Kinds, PutBack(k)
      PROVE  DraftIsPrivate'
  BY <1>26, NobodyAssumption DEF PutBack, Changed
<1> QED
  BY <1>1, <1>2, <1>3, <1>4, <1>5, <1>6, <1>7, <1>8, <1>9, <1>10,
     <1>11, <1>12, <1>13, <1>14, <1>15, <1>16, <1>17, <1>18, <1>19, <1>20,
     <1>21, <1>22, <1>23, <1>24, <1>25, <1>26
  DEF Next, Continue, Others, ChangeLists

(***************************************************************************)
(* The theorems.                                                           *)
(***************************************************************************)
\* A program that has not used the monitor yet satisfies the invariant.
LEMMA InitInv == Init => LifecycleInv
<1> SUFFICES ASSUME Init PROVE LifecycleInv
  OBVIOUS
<1> USE DEF Init
<1>1. TypeOK
  <2>1. /\ MetaPath \in 1 .. (NumKinds + 1) /\ 0 \in 0 .. MaxInstalls
        /\ 0 \in 0 .. MaxChanges /\ 1 \in Lists /\ "idle" \in PC
    BY Places, KindsAssumption, BoundAssumption DEF Lists, MetaPath
  <2>2. /\ contents \in [Kinds -> [Lists -> SUBSET Items]]
        /\ ours \in [Kinds -> SUBSET Lists]
    OBVIOUS
  <2>3. QED
    BY <2>1, <2>2 DEF TypeOK
<1>2. WorkIsOwned /\ KindFits
  BY NobodyAssumption
  DEF WorkIsOwned, KindFits, Outside, Accesses, Installs, Unwraps, Rewraps
<1>3. DraftFits /\ DraftIsPrivate
  BY NobodyAssumption DEF DraftFits, DraftIsPrivate, Accesses
<1>4. NoneHeldAtFirst /\ LettingGo
  BY NobodyAssumption DEF NoneHeldAtFirst, NoneHeld, LettingGo, Unwraps, Accesses
<1>5. StoredIsHeld /\ FoundStillHolds
  BY NobodyAssumption DEF StoredIsHeld, FoundStillHolds, Accesses
<1>6. QED
  BY <1>1, <1>2, <1>3, <1>4, <1>5 DEF LifecycleInv

\* Every step keeps the invariant.
LEMMA InvStep == LifecycleInv /\ [Next]_vars => LifecycleInv'
  BY TypeStep, WorkIsOwnedStep, KindFitsStep, DraftFitsStep, DraftIsPrivateStep,
     NoneHeldStep, LettingGoStep, StoredIsHeldStep, FoundStillHoldsStep
  DEF LifecycleInv

\* In every behaviour of the monitor its state has its types and it accounts
\* for every import list it made or found (_install, _uninstall and
\* _recover_reassignments, interleaved as they like).
THEOREM LifecycleInvariant == Spec => []LifecycleInv
  BY InitInv, InvStep, PTL DEF Spec

\* Two threads never work on the import lists at once: the transition of
\* _install and _reinstall_lock keep them apart.
THEOREM OneWorkerAtATime == Spec => []OneWorker
<1>1. LifecycleInv => OneWorker
  BY NobodyAssumption DEF LifecycleInv, WorkIsOwned, OneWorker, Outside
<1>2. QED
  BY <1>1, LifecycleInvariant, PTL

\* When monitoring is off, an instrumented list is in place only where the
\* program itself has put it (_uninstall restores every list it owns).
THEOREM OrdinaryListsWhenOff == Spec => []OrdinaryWhenOff
<1>1. LifecycleInv => OrdinaryWhenOff
  <2> SUFFICES ASSUME LifecycleInv, Settled, ~enabled,
                      NEW k \in Kinds, live[k] \in ours[k]
               PROVE  assigner[k] = "program"
    BY DEF OrdinaryWhenOff
  <2>1. /\ WorkIsOwned /\ NoneHeldAtFirst /\ StoredIsHeld /\ live[k] \in Lists
        /\ assigner[k] \in {"monitor", "program"} /\ lock \in Threads \union {Nobody}
        /\ pc \in [Threads -> PC]
    BY DEF LifecycleInv, TypeOK
  <2>2. transition = Nobody /\ \A t \in Threads : pc[t] \notin Unwraps
    BY DEF Settled, Unwraps
  <2>3. \A t \in Threads : pc[t] # "expose"
    BY <2>1, <2>2, NobodyAssumption DEF WorkIsOwned, Installs
  <2>4. lock = Nobody
    BY <2>1, <2>2
    DEF WorkIsOwned, PC, Outside, Accesses, Installs, Rewraps, Unwraps
  <2>5. wrapped[k] = NoList
    BY <2>1, <2>4 DEF NoneHeldAtFirst, NoneHeld
  <2>6. live[k] # wrapped[k]
    BY <2>1, <2>5, NoListIsNoList
  <2>7. QED
    BY <2>1, <2>3, <2>6 DEF StoredIsHeld
<1>2. QED
  BY <1>1, LifecycleInvariant, PTL

\* The steps that store a list of the monitor's: what they store is a copy.
Publishes(t) ==
  \/ InstallCommit(t) /\ MetaPath \in request.lists
  \/ EnableExpose(t) \/ UninstallPublish(t) \/ RecoverPublish(t)

\* Only they do.
LEMMA StoredByPublishing ==
  ASSUME LifecycleInv, [Next]_vars, NEW k \in Kinds, Stored(k)
  PROVE  \E t \in Threads :
           /\ Publishes(t) /\ kind[t] = k /\ draft[t] # NoList
           /\ live'[k] = draft[t] /\ contents' = contents
<1> DEFINE Goal == \E t \in Threads :
                  /\ Publishes(t) /\ kind[t] = k /\ draft[t] # NoList
                  /\ live'[k] = draft[t] /\ contents' = contents
<1>0. /\ KindFits /\ DraftFits /\ live \in [Kinds -> Lists]
      /\ assigner \in [Kinds -> {"monitor", "program"}]
      /\ live'[k] # live[k] /\ assigner'[k] = "monitor"
      /\ kind \in [Threads -> 1 .. (NumKinds + 1)]
      /\ request.lists \subseteq Kinds
  BY RequestedKinds DEF LifecycleInv, TypeOK, Stored
<1> USE <1>0
<1>1. CASE UNCHANGED vars
  BY <1>1 DEF vars, memory
<1>2. ASSUME NEW t \in Threads, NEW r \in Requests, InstallBegin(t, r)
      PROVE  Goal
  BY <1>2 DEF InstallBegin, memory
<1>3. ASSUME NEW t \in Threads, InstallCopy(t) PROVE Goal
  BY <1>3 DEF InstallCopy, Draft, memory
<1>4. ASSUME NEW t \in Threads, InstallCommit(t) PROVE Goal
  <2>1. CASE MetaPath \in request.lists
    <3>1. kind[t] \in Kinds /\ draft[t] # NoList
      BY <1>4, <2>1, RequestedKinds
      DEF InstallCommit, LifecycleInv, KindFits, DraftFits, Accesses, At
    <3>2. live' = [live EXCEPT ![kind[t]] = draft[t]] /\ contents' = contents
      BY <1>4, <2>1 DEF InstallCommit, KindFits, Publish, At
    <3>3. kind[t] = k
      BY <3>1, <3>2
    <3>4. QED
      BY <1>4, <2>1, <3>1, <3>2, <3>3 DEF Publishes
  <2>2. CASE MetaPath \notin request.lists
    BY <1>4, <2>2 DEF InstallCommit, memory
  <2>3. QED
    BY <2>1, <2>2
<1>5. ASSUME NEW t \in Threads, EnableCopy(t) PROVE Goal
  BY <1>5 DEF EnableCopy, Draft, memory
<1>6. ASSUME NEW t \in Threads, EnableExpose(t) PROVE Goal
  <2>1. kind[t] \in Kinds /\ draft[t] # NoList
    BY <1>6 DEF EnableExpose, KindFits, DraftFits, Accesses, At
  <2>2. live' = [live EXCEPT ![kind[t]] = draft[t]] /\ contents' = contents
    BY <1>6 DEF EnableExpose, Publish, At
  <2>3. kind[t] = k
    BY <2>1, <2>2
  <2>4. QED
    BY <1>6, <2>1, <2>2, <2>3 DEF Publishes
<1>7. ASSUME NEW t \in Threads, EnableSkip(t) PROVE Goal
  BY <1>7 DEF EnableSkip, memory
<1>8. ASSUME NEW t \in Threads, InstallEnd(t) PROVE Goal
  BY <1>8 DEF InstallEnd, memory
<1>9. ASSUME NEW t \in Threads, Inspect(t) \/ InspectImports(t) \/ ImportReturns(t)
      PROVE  Goal
  BY <1>9 DEF Inspect, InspectImports, ImportReturns, Inspected, memory
<1>10. ASSUME NEW t \in Threads, InspectRaises(t) PROVE Goal
  BY <1>10 DEF InspectRaises, memory
<1>11. ASSUME NEW t \in Threads, UninstallBegin(t) PROVE Goal
  BY <1>11 DEF UninstallBegin, memory
<1>12. ASSUME NEW t \in Threads, UninstallCheck(t) PROVE Goal
  BY <1>12 DEF UninstallCheck, memory
<1>13. ASSUME NEW t \in Threads, UninstallCopy(t) PROVE Goal
  BY <1>13 DEF UninstallCopy, memory
<1>14. ASSUME NEW t \in Threads, UninstallPublish(t) PROVE Goal
  <2>1. kind[t] \in Kinds /\ draft[t] # NoList
    BY <1>14 DEF UninstallPublish, KindFits, DraftFits, Accesses, At
  <2>2. live' = [live EXCEPT ![kind[t]] = draft[t]] /\ contents' = contents
    BY <1>14 DEF UninstallPublish, Publish, At
  <2>3. kind[t] = k
    BY <2>1, <2>2
  <2>4. QED
    BY <1>14, <2>1, <2>2, <2>3 DEF Publishes
<1>15. ASSUME NEW t \in Threads, UninstallEnd(t) PROVE Goal
  BY <1>15 DEF UninstallEnd, memory
<1>16. ASSUME NEW t \in Threads, AuditSuspects(t) \/ AuditDecides(t)
      PROVE  Goal
  BY <1>16 DEF AuditSuspects, AuditDecides, memory
<1>17. ASSUME NEW t \in Threads, RecoverBegin(t) PROVE Goal
  BY <1>17 DEF RecoverBegin, memory
<1>18. ASSUME NEW t \in Threads, RecoverCopy(t) PROVE Goal
  BY <1>18 DEF RecoverCopy, Draft, memory
<1>19. ASSUME NEW t \in Threads, RecoverSkip(t) PROVE Goal
  BY <1>19 DEF RecoverSkip, memory
<1>20. ASSUME NEW t \in Threads, RecoverPublish(t) PROVE Goal
  <2>1. kind[t] \in Kinds /\ draft[t] # NoList
    BY <1>20 DEF RecoverPublish, KindFits, DraftFits, Accesses, At
  <2>2. live' = [live EXCEPT ![kind[t]] = draft[t]] /\ contents' = contents
    BY <1>20 DEF RecoverPublish, Publish, At
  <2>3. kind[t] = k
    BY <2>1, <2>2
  <2>4. QED
    BY <1>20, <2>1, <2>2, <2>3 DEF Publishes
<1>21. ASSUME NEW t \in Threads, RecoverEnd(t) PROVE Goal
  BY <1>21 DEF RecoverEnd, memory
<1>22. ASSUME NEW t \in Threads, ModuleBegin(t) \/ ModuleEnd(t) PROVE Goal
  BY <1>22 DEF ModuleBegin, ModuleEnd, memory
<1>23. ASSUME NEW j \in Kinds, NEW i \in Items, Append(j, i) PROVE Goal
  BY <1>23 DEF Append, memory
<1>24. ASSUME NEW j \in Kinds, NEW items \in SUBSET Items, Reassign(j, items)
      PROVE  Goal
  BY <1>24 DEF Reassign, memory
<1>25. ASSUME NEW j \in Kinds, Save(j) PROVE Goal
  BY <1>25 DEF Save, memory
<1>26. ASSUME NEW j \in Kinds, PutBack(j) PROVE Goal
  BY <1>26 DEF PutBack, memory
<1> QED
  BY <1>1, <1>2, <1>3, <1>4, <1>5, <1>6, <1>7, <1>8, <1>9, <1>10,
     <1>11, <1>12, <1>13, <1>14, <1>15, <1>16, <1>17, <1>18, <1>19, <1>20,
     <1>21, <1>22, <1>23, <1>24, <1>25, <1>26
  DEF Next, Continue, Others, ChangeLists

\* What a publishing thread has found, and what it publishes.
LEMMA PublishedFits ==
  ASSUME LifecycleInv, NEW t \in Threads, Publishes(t), draft[t] # NoList
  PROVE  /\ kind[t] \notin overlap =>
              contents[kind[t]][draft[t]] = contents[kind[t]][live[kind[t]]]
         /\ enabled /\ transition = Nobody => assigner[kind[t]] = "program"
         /\ ~enabled /\ kind[t] \notin overlap => live[kind[t]] = wrapped[kind[t]]
<1>1. WorkIsOwned /\ DraftIsPrivate /\ FoundStillHolds
  BY DEF LifecycleInv
<1>2. CASE pc[t] \in {"commit", "expose"}
  BY <1>1, <1>2, NobodyAssumption DEF WorkIsOwned, DraftIsPrivate, Installs
<1>3. CASE pc[t] = "unwrap"
  BY <1>1, <1>3 DEF WorkIsOwned, DraftIsPrivate, FoundStillHolds, Unwraps
<1>4. CASE pc[t] = "swap"
  BY <1>1, <1>4 DEF WorkIsOwned, DraftIsPrivate, FoundStillHolds, Rewraps
<1>5. QED
  BY <1>2, <1>3, <1>4
  DEF Publishes, InstallCommit, EnableExpose, UninstallPublish, RecoverPublish, At

\* The monitor never changes what an import list holds: the copy that replaces
\* a list has its contents, unless the program interfered while it was made.
THEOREM ContentsAreKept == Spec => ContentsKept
<1>1. LifecycleInv /\ [Next]_vars =>
        \A k \in Kinds : Stored(k) /\ k \notin overlap =>
          contents'[k][live'[k]] = contents[k][live[k]]
  BY StoredByPublishing, PublishedFits
<1>2. QED
  BY <1>1, LifecycleInvariant, PTL DEF Spec, ContentsKept

\* A settled monitor that is on replaces a list only because the program has
\* assigned it (_recover_reassignments never takes the monitor's own half-done
\* installation for a reassignment, nor recovers a list twice).
THEOREM RecoveriesHaveCause == Spec => RecoveryHasCause
<1>1. LifecycleInv /\ [Next]_vars =>
        \A k \in Kinds : Stored(k) /\ enabled /\ transition = Nobody =>
          assigner[k] = "program"
  BY StoredByPublishing, PublishedFits
<1>2. QED
  BY <1>1, LifecycleInvariant, PTL DEF Spec, RecoveryHasCause

\* _uninstall leaves a list alone that the program has put in place of the
\* monitor's, unless the assignment came between its test and its store.
THEOREM ProgramListsAreLeft == Spec => ProgramListsStay
<1>1. LifecycleInv /\ [Next]_vars =>
        \A k \in Kinds : Stored(k) /\ ~enabled /\ k \notin overlap =>
          live[k] = wrapped[k]
  BY StoredByPublishing, PublishedFits
<1>2. QED
  BY <1>1, LifecycleInvariant, PTL DEF Spec, ProgramListsStay

(***************************************************************************)
(* Deadlock.                                                               *)
(***************************************************************************)
\* A thread that others wait for, and that waits itself, does so in the access
\* to a finder.
LEMMA OwnersWaitInImports ==
  ASSUME LifecycleInv, NEW t \in Threads, NEW u \in Threads,
         t \in {lock, transition}, Awaits(t, u)
  PROVE  At(t, "import") /\ moduleLock = u /\ u # t
<1>1. WorkIsOwned /\ pc[t] \notin Outside
  BY DEF LifecycleInv, WorkIsOwned
<1>2. ~(lock = u /\ pc[t] \in {"commit", "enable", "installEnd"})
  BY <1>1, NobodyAssumption DEF WorkIsOwned, Installs
<1>3. QED
  BY <1>1, <1>2 DEF Awaits, AwaitsInside, Outside, At

\* Every deadlock has in it a thread that installs or recovers and imports for a
\* finder: no order of install, uninstall and recovery on any number of threads
\* blocks them otherwise (_install, _uninstall, _recover_reassignments).
THEOREM DeadlocksImport ==
  Spec => [](\A S \in SUBSET Threads : Deadlocked(S) =>
               \E t \in S : t \in {lock, transition} /\ At(t, "import"))
<1>1. LifecycleInv =>
        \A S \in SUBSET Threads : Deadlocked(S) =>
          \E t \in S : t \in {lock, transition} /\ At(t, "import")
  <2> SUFFICES ASSUME LifecycleInv, NEW S \in SUBSET Threads,
                      Deadlocked(S)
               PROVE  \E t \in S : t \in {lock, transition} /\ At(t, "import")
    OBVIOUS
  <2>1. \A t \in S : \E u \in S : Awaits(t, u)
    BY DEF Deadlocked
  <2>2. PICK t \in S, u \in S : Awaits(t, u)
    BY <2>1 DEF Deadlocked
  <2>3. CASE \E v \in S : v \in {lock, transition}
    BY <2>1, <2>3, OwnersWaitInImports
  <2>4. CASE \A v \in S : v \notin {lock, transition}
    <3>1. \A v \in S : pc[v] # "import"
      BY <2>4 DEF LifecycleInv, WorkIsOwned, Outside
    <3>2. moduleLock = u
      BY <2>2, <2>4, <3>1 DEF Awaits, AwaitsInside, At
    <3>3. PICK w \in S : Awaits(u, w)
      BY <2>1
    <3>4. QED
      BY <2>4, <3>1, <3>2, <3>3 DEF Awaits, AwaitsInside, At
  <2>5. QED
    BY <2>3, <2>4
<1>2. QED
  BY <1>1, LifecycleInvariant, PTL

\* Among threads inside the monitor (install() and uninstall() have begun, or an
\* import has found a replaced list) the cycle of recovery and import is the only deadlock, and it is one.
THEOREM OneCycle ==
  Spec => [](NoLockCycle <=>
               \A S \in SUBSET Threads : ~DeadlockedInside(S))
<1>1. ASSUME LifecycleInv, NoLockCycle, NEW S \in SUBSET Threads,
             DeadlockedInside(S)
      PROVE  FALSE
  <2>1. \A t \in S : \E u \in S : AwaitsInside(t, u)
    BY <1>1 DEF DeadlockedInside
  <2>2. \A t, u \in S : AwaitsInside(t, u) => Awaits(t, u)
    BY DEF Awaits
  <2>3. \A t, u \in S : lock = t /\ AwaitsInside(t, u) =>
                       At(t, "import") /\ moduleLock = u /\ u # t
    BY <1>1, <2>2, OwnersWaitInImports
  <2>4. \E t \in S : lock = t
    <3>1. PICK t \in S, u \in S : AwaitsInside(t, u)
      BY <1>1, <2>1 DEF DeadlockedInside
    <3>2. PICK w \in S : AwaitsInside(u, w)
      BY <2>1
    <3>3. QED
      BY <3>1, <3>2 DEF AwaitsInside
  <2>5. PICK t \in S, u \in S :
          lock = t /\ At(t, "import") /\ moduleLock = u /\ u # t
    BY <2>1, <2>3, <2>4
  <2>6. PICK w \in S : AwaitsInside(u, w)
    BY <2>1
  <2>7. lock = w /\ pc[u] \in {"recover", "commit", "enable", "installEnd"}
    BY <2>5, <2>6 DEF AwaitsInside, At
  <2>8. pc[u] \notin Installs
    BY <1>1, <2>5, NobodyAssumption DEF LifecycleInv, WorkIsOwned
  <2>9. At(u, "recover")
    BY <2>7, <2>8 DEF Installs, At
  <2>10. QED
    BY <1>1, <2>5, <2>9 DEF NoLockCycle
<1>2. ASSUME ~NoLockCycle
      PROVE  \E S \in SUBSET Threads : DeadlockedInside(S)
  <2>1. PICK t \in Threads, u \in Threads :
          t # u /\ At(t, "recover") /\ moduleLock = t /\ lock = u /\ At(u, "import")
    BY <1>2 DEF NoLockCycle
  <2>2. AwaitsInside(t, u) /\ AwaitsInside(u, t)
    BY <2>1 DEF AwaitsInside, At
  <2>3. DeadlockedInside({t, u})
    BY <2>2 DEF DeadlockedInside
  <2>4. QED
    BY <2>3
<1>3. LifecycleInv => (NoLockCycle <=>
        \A S \in SUBSET Threads : ~DeadlockedInside(S))
  BY <1>1, <1>2
<1>4. QED
  BY <1>3, LifecycleInvariant, PTL

\* Only then can an access to a finder import at all.
NoImports == ~ForeignImports => \A t \in Threads : ~At(t, "import")

LEMMA NoImportsStep == TypeOK /\ NoImports /\ [Next]_vars => NoImports'
<1> SUFFICES ASSUME TypeOK, ~ForeignImports, \A t \in Threads : ~At(t, "import"),
                    [Next]_vars, NEW u \in Threads
             PROVE  pc'[u] # "import"
  BY DEF NoImports, At
<1>1. pc \in [Threads -> PC] /\ pc[u] # "import"
  BY DEF TypeOK, At
<1>2. CASE UNCHANGED pc
  BY <1>1, <1>2
<1>3. ASSUME NEW t \in Threads, NEW place, place # "import", Goto(t, place)
      PROVE  pc'[u] # "import"
  BY <1>1, <1>3 DEF Goto
<1>4. ASSUME NEW t \in Threads, Continue(t)
      PROVE  UNCHANGED pc \/ \E place : place # "import" /\ Goto(t, place)
  <2>1. CASE InstallCopy(t) \/ InstallCommit(t) \/ EnableCopy(t) \/ EnableExpose(t)
    BY <2>1 DEF InstallCopy, InstallCommit, EnableCopy, EnableExpose
  <2>2. CASE EnableSkip(t) \/ InstallEnd(t) \/ InspectRaises(t)
    BY <2>2 DEF EnableSkip, InstallEnd, InspectRaises
  <2>3. CASE Inspect(t) \/ InspectImports(t) \/ ImportReturns(t)
    <3>1. Inspected(t)
      BY <2>3 DEF Inspect, InspectImports, ImportReturns
    <3>2. "swap" # "import" /\ "commit" # "import"
      OBVIOUS
    <3>3. QED
      BY <3>1, <3>2 DEF Inspected
  <2>4. CASE UninstallCheck(t) \/ UninstallCopy(t) \/ UninstallPublish(t)
             \/ UninstallEnd(t)
    BY <2>4 DEF UninstallCheck, UninstallCopy, UninstallPublish, UninstallEnd
  <2>5. CASE AuditSuspects(t) \/ AuditDecides(t) \/ RecoverBegin(t)
    BY <2>5 DEF AuditSuspects, AuditDecides, RecoverBegin
  <2>6. CASE RecoverCopy(t) \/ RecoverSkip(t) \/ RecoverPublish(t) \/ RecoverEnd(t)
    BY <2>6 DEF RecoverCopy, RecoverSkip, RecoverPublish, RecoverEnd
  <2>7. QED
    BY <1>4, <2>1, <2>2, <2>3, <2>4, <2>5, <2>6 DEF Continue
<1>5. CASE Others
  <2>1. ASSUME NEW t \in Threads,
               UninstallBegin(t) \/ \E r \in Requests : InstallBegin(t, r)
        PROVE  pc'[u] # "import"
    BY <1>3, <2>1 DEF UninstallBegin, InstallBegin
  <2>2. ASSUME NEW t \in Threads, ModuleBegin(t) \/ ModuleEnd(t)
        PROVE  UNCHANGED pc
    BY <2>2 DEF ModuleBegin, ModuleEnd, locals
  <2>3. ASSUME NEW k \in Kinds, Save(k)
        PROVE  UNCHANGED pc
    BY <2>3 DEF Save, locals
  <2>4. QED
    BY <1>2, <1>5, <2>1, <2>2, <2>3 DEF Others
<1>6. CASE ChangeLists \/ UNCHANGED vars
  BY <1>2, <1>6 DEF ChangeLists, Append, Reassign, PutBack, vars, locals
<1>7. QED
  BY <1>2, <1>3, <1>4, <1>5, <1>6 DEF Next

\* When no finder imports on being looked at, no threads of the program block
\* each other in the monitor, whatever they call and in whatever order.
THEOREM NoImportNoDeadlock ==
  Spec => [](~ForeignImports => \A S \in SUBSET Threads : ~Deadlocked(S))
<1>1. Init => NoImports
  BY DEF Init, NoImports, At
<1>2. LifecycleInv => TypeOK
  BY DEF LifecycleInv
<1>3. (\A S \in SUBSET Threads : Deadlocked(S) =>
         \E t \in S : t \in {lock, transition} /\ At(t, "import"))
      /\ NoImports
        => (~ForeignImports => \A S \in SUBSET Threads : ~Deadlocked(S))
  BY DEF NoImports
<1>4. QED
  BY <1>1, <1>2, <1>3, NoImportsStep, LifecycleInvariant, DeadlocksImport, PTL
  DEF Spec
=============================================================================
