------------------------- MODULE EvidenceLogProofs -------------------------
(***************************************************************************)
(* Theorems of EvidenceLog, for any threads, contents and bounds.          *)
(***************************************************************************)
EXTENDS EvidenceLog, TLAPS, FiniteSetTheorems

\* Types hold at first.
LEMMA InitTypes == Init => TypeOK
  <1> SUFFICES ASSUME Init PROVE TypeOK
    OBVIOUS
  <1> USE ContentAssumption, BoundAssumption DEF Init
  <1>1. changes \in Seq(Changes) /\ base \in Nat /\ seen \in 0..MaxMoments
    OBVIOUS
  <1>2. pc \in [Threads -> PC] /\ next \in [Threads -> Returns]
    BY DEF PC, Returns
  <1>3. snap \in [Threads -> Snapshots \union {None}]
    OBVIOUS
  <1>4. /\ on \in [Threads -> 0..MaxInstalls] /\ kind \in [Threads -> Kinds]
        /\ took \in [Threads -> Int] /\ starting \in [Threads -> BOOLEAN]
    BY DEF Kinds
  <1>5. asked \in [Threads -> 0..MaxMoments] /\ missed \in [Threads -> BOOLEAN]
    OBVIOUS
  <1> QED
    <2>1. enabled \in BOOLEAN /\ hooksOn \in BOOLEAN
      OBVIOUS
    <2>2. cacheOn \in BOOLEAN /\ active \in BOOLEAN
      OBVIOUS
    <2>3. straddled \in BOOLEAN /\ cutOff \in BOOLEAN /\ blurred \in BOOLEAN
      OBVIOUS
    <2>4. live \in 0..MaxInstalls /\ installs \in 0..MaxInstalls
          /\ ops \in 0..MaxOps /\ moment \in 0..MaxMoments
      OBVIOUS
    <2>5. owner \in Threads \union {Nobody} /\ cache \in Contents
      OBVIOUS
    <2>6. latest \in Contents \union {None} /\ initial \in Contents \union {None}
      OBVIOUS
    <2>7. hooks \in Nat /\ recorded \in Int /\ first \in Nat
      OBVIOUS
    <2> QED
      BY <1>1, <1>2, <1>3, <1>4, <1>5, <2>1, <2>2, <2>3, <2>4, <2>5, <2>6, <2>7
      DEF TypeOK

\* Every action keeps the types; Publish needs that its snapshot was taken.
LEMMA TypeStep == TypeOK /\ PublishesSnapshot /\ [Next]_vars => TypeOK'
  <1> SUFFICES ASSUME TypeOK, PublishesSnapshot, [Next]_vars PROVE TypeOK'
    OBVIOUS
  <1> USE BoundAssumption
  <1>1. CASE UNCHANGED vars
    BY <1>1 DEF TypeOK, vars, flags, rolling, world, list, op, call, bounds,
       report, faults
  <1>2. CASE CacheChanges
    BY <1>2 DEF TypeOK, CacheChanges, flags, rolling, world, list, op, call,
       bounds, report, faults
  <1>3. ASSUME NEW t \in Threads, Observe(t) PROVE TypeOK'
    <2>1. CASE enabled /\ cacheOn /\ ~active
      BY <1>3, <2>1 DEF TypeOK, PC, Returns, Observe, Goto, At, Return, Miss,
         EndCall, flags, rolling, world, list, op, call, bounds, report, faults
    <2>2. CASE ~(enabled /\ cacheOn /\ ~active)
      <3>1. /\ active' = active /\ Return(t) /\ Miss(t)
            /\ UNCHANGED <<flags, cacheOn, latest, initial, changes, base, seen,
                           world, list, op, bounds, faults>>
        BY <1>3, <2>2 DEF Observe
      <3> QED
        BY <3>1 DEF TypeOK, PC, Returns, Return, Miss, Goto, EndCall, flags,
           rolling, world, list, op, call, bounds, report, faults
    <2> QED BY <2>1, <2>2
  <1>4. ASSUME NEW t \in Threads, Snapshot(t) PROVE TypeOK'
    BY <1>4 DEF TypeOK, PC, Returns, Snapshot, Goto, At, Snapshots, flags,
       rolling, world, list, op, call, bounds, report, faults
  <1>5. ASSUME NEW t \in Threads, SnapshotFails(t) PROVE TypeOK'
    BY ZenonT(30), <1>5 DEF TypeOK, PC, Returns, SnapshotFails, Goto, At, Return, Miss,
       EndCall, flags, rolling, world, list, op, call, bounds, report, faults
  <1>6. ASSUME NEW t \in Threads, SnapshotInterrupted(t) PROVE TypeOK'
    <2>1. CASE owner = t
      BY <1>6, <2>1 DEF TypeOK, PC, Returns, SnapshotInterrupted, Goto, At,
         Abandon, EndOp, Kinds, EndReport, EndCall, flags, rolling, world, list,
         op, call, bounds, report, faults
    <2>2. CASE ~(owner = t)
      BY <1>6, <2>2 DEF TypeOK, PC, Returns, SnapshotInterrupted, Goto, At,
         Abandon, EndOp, Kinds, EndReport, EndCall, flags, rolling, world, list,
         op, call, bounds, report, faults
    <2> QED BY <2>1, <2>2
  <1>7. ASSUME NEW t \in Threads, Publish(t) PROVE TypeOK'
    <2>1. PICK v \in Snapshots : snap[t] = v
      BY <1>7 DEF TypeOK, PublishesSnapshot, Publish
    <2>2. snap[t].value \in Contents /\ snap[t].taken \in 0..MaxMoments
      BY <2>1 DEF Snapshots
    <2>3. /\ pc' \in [Threads -> PC] /\ next' \in [Threads -> Returns]
          /\ snap' \in [Threads -> Snapshots \union {None}]
          /\ starting' \in [Threads -> BOOLEAN]
      BY <1>7 DEF TypeOK, PC, Returns, Publish, Return, Goto, EndCall
    <2>4. /\ latest' \in Contents \union {None} /\ seen' \in 0..MaxMoments
          /\ initial' \in Contents \union {None} /\ base' \in Nat
          /\ changes' \in Seq(Changes)
      <3>1. Len(changes) \in Nat
        BY DEF TypeOK
      <3>2. CASE enabled /\ cacheOn /\ (IsInitial(t) \/ latest = snap[t].value)
        BY <1>7, <2>2, <3>1, <3>2 DEF TypeOK, Publish
      <3>3. CASE enabled /\ cacheOn /\ ~(IsInitial(t) \/ latest = snap[t].value)
        <4>1. [was |-> latest, now |-> snap[t].value] \in Changes
          BY <2>2, <3>3 DEF TypeOK, IsInitial, Changes
        <4> QED
          <5>1. /\ latest' = snap[t].value /\ seen' = snap[t].taken
                /\ UNCHANGED <<initial, base>>
                /\ changes' = Append(changes, [was |-> latest,
                                               now |-> snap[t].value])
            BY <1>7, <3>3 DEF Publish
          <5> QED
            BY SMTT(30), <2>2, <4>1, <5>1 DEF TypeOK
      <3>4. CASE ~(enabled /\ cacheOn)
        BY <1>7, <3>4 DEF TypeOK, Publish
      <3> QED BY <3>2, <3>3, <3>4
    <2>5. missed' \in [Threads -> BOOLEAN] /\ asked' = asked
      BY <1>7 DEF TypeOK, Publish, Miss, report
    <2> QED
      BY <1>7, <2>3, <2>4, <2>5 DEF TypeOK, Publish, flags, world, list, op,
         bounds, faults
  <1>8. ASSUME NEW t \in Threads, Forget(t) PROVE TypeOK'
    BY <1>8 DEF TypeOK, PC, Returns, Forget, Goto, At, flags, rolling, world,
       list, op, call, bounds, report, faults
  <1>9. ASSUME NEW t \in Threads, InstallBegin(t) PROVE TypeOK'
    BY <1>9 DEF TypeOK, PC, Returns, InstallBegin, Goto, At, flags, rolling,
       world, list, op, call, bounds, report, faults
  <1>10. ASSUME NEW t \in Threads, ExposeHooks(t) PROVE TypeOK'
    <2>1. live' \in 0..MaxInstalls
      BY <1>10 DEF TypeOK, ExposeHooks
    <2>2. pc' \in [Threads -> PC]
      BY <1>10 DEF TypeOK, PC, Returns, ExposeHooks, Goto
    <2> QED
      <3>1. hooksOn' \in BOOLEAN /\ blurred' \in BOOLEAN
        BY <1>10 DEF ExposeHooks
      <3>4. recorded' \in Int
        BY <1>10 DEF ExposeHooks
      <3>2. first' \in Nat /\ hooks' \in Nat
        BY <1>10 DEF TypeOK, ExposeHooks
      <3>3. UNCHANGED <<enabled, owner, rolling, world, op, call, bounds, report, faults>>
        BY <1>10 DEF ExposeHooks
      <3> QED
        BY <2>1, <2>2, <3>1, <3>2, <3>3, <3>4 DEF TypeOK, flags, rolling, world,
           list, op, call, bounds, report, faults
  <1>11. ASSUME NEW t \in Threads, EnableCache(t) PROVE TypeOK'
    BY <1>11 DEF TypeOK, PC, Returns, EnableCache, Goto, At, Call, flags,
       rolling, world, list, op, call, bounds, report, faults
  <1>12. ASSUME NEW t \in Threads, InstallEnd(t) PROVE TypeOK'
    BY <1>12 DEF TypeOK, PC, Returns, InstallEnd, Goto, At, flags, rolling,
       world, list, op, call, bounds, report, faults
  <1>13. ASSUME NEW t \in Threads, UninstallBegin(t) PROVE TypeOK'
    BY <1>13 DEF TypeOK, PC, Returns, UninstallBegin, Goto, At, Call, flags,
       rolling, world, list, op, call, bounds, report, faults
  <1>14. ASSUME NEW t \in Threads, Disable(t) PROVE TypeOK'
    BY ZenonT(30), <1>14 DEF TypeOK, PC, Returns, Disable, Goto, At, flags, rolling, world,
       list, op, call, bounds, report, faults
  <1>15. ASSUME NEW t \in Threads, Unhook(t) PROVE TypeOK'
    <2>1. live' \in 0..MaxInstalls
      BY <1>15 DEF Unhook
    <2>2. pc' \in [Threads -> PC]
      BY <1>15 DEF TypeOK, PC, Returns, Unhook, Goto
    <2> QED
      BY <1>15, <2>1, <2>2 DEF TypeOK, Unhook, flags, rolling, world, list, op,
         call, bounds, report, faults
  <1>16. ASSUME NEW t \in Threads, ReportBegin(t) PROVE TypeOK'
    BY <1>16 DEF TypeOK, PC, Returns, ReportBegin, Goto, At, Call, flags,
       rolling, world, list, op, call, bounds, report, faults
  <1>17. ASSUME NEW t \in Threads, ReportCopy(t) PROVE TypeOK'
    BY <1>17 DEF TypeOK, PC, Returns, ReportCopy, Goto, At, EndReport, flags,
       rolling, world, list, op, call, bounds, report, faults
  <1>18. ASSUME NEW t \in Threads, BeforeMutation(t) PROVE TypeOK'
    <2>1. CASE Watched(t)
      BY ZenonT(30), <1>18, <2>1 DEF TypeOK, PC, Returns, Watched, BeforeMutation, Goto, At,
         Call, flags, rolling, world, list, op, call, bounds, report, faults
    <2>2. CASE ~(Watched(t))
      <3>1. Goto(t, "count") /\ UNCHANGED call
        BY <1>18, <2>2 DEF BeforeMutation
      <3>2. UNCHANGED <<flags, rolling, world, list, op, bounds, report, faults>>
        BY <1>18 DEF BeforeMutation
      <3> QED
        BY <3>1, <3>2 DEF TypeOK, PC, Returns, Goto, flags, rolling, world,
           list, op, call, bounds, report, faults
    <2> QED BY <2>1, <2>2
  <1>19. ASSUME NEW t \in Threads, Count(t) PROVE TypeOK'
    BY <1>19 DEF TypeOK, PC, Returns, Count, Goto, At, flags, rolling, world,
       list, op, call, bounds, report, faults
  <1>20. ASSUME NEW t \in Threads, Mutate(t) PROVE TypeOK'
    <2>1. hooks' \in Nat
      BY <1>20 DEF TypeOK, Mutate, Landed
    <2> QED
      BY SMTT(30), <1>20, <2>1 DEF TypeOK, PC, Returns, Mutate, Goto, At, flags, rolling,
         world, list, op, call, bounds, report, faults
  <1>21. ASSUME NEW t \in Threads, Slice(t) PROVE TypeOK'
    BY SMTT(30), <1>21 DEF TypeOK, PC, Returns, Slice, Goto, At, flags, rolling, world,
       list, op, call, bounds, report, faults
  <1>22. ASSUME NEW t \in Threads, Notify(t) PROVE TypeOK'
    <2>1. CASE Watched(t)
      BY <1>22, <2>1 DEF TypeOK, PC, Returns, Watched, Notify, Goto, At, EndOp,
         Kinds, flags, rolling, world, list, op, call, bounds, report, faults
    <2>2. CASE ~(Watched(t))
      <3>1. /\ Goto(t, "idle") /\ EndOp(t)
            /\ UNCHANGED <<flags, rolling, world, list, call, bounds, report, faults>>
        BY <1>22, <2>2 DEF Notify
      <3> QED
        BY <3>1 DEF TypeOK, PC, Returns, Goto, EndOp, Kinds, flags, rolling,
           world, list, op, call, bounds, report, faults
    <2> QED BY <2>1, <2>2
  <1>23. ASSUME NEW t \in Threads, Record(t) PROVE TypeOK'
    <2>1. CASE enabled /\ hooksOn
      <3>1. /\ recorded' = recorded + took[t]
            /\ blurred' = (blurred \/ on[t] # live)
            /\ Call(t, "idle", FALSE) /\ EndOp(t)
            /\ UNCHANGED <<flags, rolling, world, hooks, first, bounds, report, faults>>
        BY <1>23, <2>1 DEF Record
      <3>2. recorded' \in Int /\ blurred' \in BOOLEAN
        BY <3>1 DEF TypeOK
      <3>3. /\ pc' \in [Threads -> PC] /\ snap' = snap
            /\ next' \in [Threads -> Returns]
            /\ starting' \in [Threads -> BOOLEAN]
        BY <3>1 DEF TypeOK, PC, Returns, Call, Goto
      <3>4. /\ on' \in [Threads -> 0..MaxInstalls]
            /\ kind' \in [Threads -> Kinds] /\ took' \in [Threads -> Int]
        BY <3>1 DEF TypeOK, EndOp, Kinds
      <3> QED
        BY <3>1, <3>2, <3>3, <3>4 DEF TypeOK, flags, rolling, world, bounds,
           report, faults
    <2>2. CASE ~(enabled /\ hooksOn)
      <3>1. /\ Goto(t, "idle") /\ EndOp(t) /\ UNCHANGED <<recorded, blurred, call>>
            /\ UNCHANGED <<flags, rolling, world, hooks, first, bounds, report, faults>>
        BY <1>23, <2>2 DEF Record
      <3> QED
        BY <3>1 DEF TypeOK, PC, Returns, Goto, EndOp, Kinds, flags, rolling,
           world, list, op, call, bounds, report, faults
    <2> QED BY <2>1, <2>2
  <1>24. ASSUME NEW t \in Threads, NEW how \in Kinds, MutationBegin(t, how)
        PROVE TypeOK'
    BY <1>24 DEF TypeOK, PC, Returns, MutationBegin, Goto, At, flags, rolling,
       world, list, op, call, bounds, report, faults
  <1> QED
    BY <1>1, <1>2, <1>3, <1>4, <1>5, <1>6, <1>7, <1>8, <1>9, <1>10, <1>11,
       <1>12, <1>13, <1>14, <1>15, <1>16, <1>17, <1>18, <1>19, <1>20, <1>21,
       <1>22, <1>23, <1>24 DEF Next, Step

(***************************************************************************)
(* Single flight.                                                          *)
(***************************************************************************)
FlightInv == PublishesSnapshot /\ SingleFlight /\ ClosedIsIdle

\* A step of a thread that is observing neither before nor after it, and that
\* leaves the flags and the other threads alone, keeps single flight.
LEMMA AsideStep ==
  ASSUME TypeOK, TypeOK', FlightInv, NEW t \in Threads, ~Observing(t), ~Observing(t)',
         UNCHANGED <<active, straddled, cutOff>>,
         \A u \in Threads \ {t} : pc'[u] = pc[u] /\ snap'[u] = snap[u]
  PROVE  FlightInv'
  <1>1. \A u \in Threads : Observing(u)' <=> Observing(u)
    BY DEF Observing
  <1>2. PublishesSnapshot'
    BY DEF FlightInv, PublishesSnapshot, At, Observing
  <1>3. SingleFlight'
    BY <1>1 DEF FlightInv, SingleFlight
  <1>4. ClosedIsIdle'
    BY <1>1 DEF FlightInv, ClosedIsIdle
  <1> QED
    BY <1>2, <1>3, <1>4 DEF FlightInv

\* A thread whose snapshot ends opens observation for the next one.
LEMMA LandingStep ==
  ASSUME TypeOK, TypeOK', FlightInv, NEW t \in Threads, Observing(t), ~Observing(t)',
         active' = FALSE, UNCHANGED <<straddled, cutOff>>,
         \A u \in Threads \ {t} : pc'[u] = pc[u] /\ snap'[u] = snap[u]
  PROVE  FlightInv'
  <1>1. \A u \in Threads \ {t} : Observing(u)' <=> Observing(u)
    BY DEF Observing
  <1>2. ~straddled => ~cutOff /\ \A u \in Threads : ~Observing(u)'
    BY <1>1 DEF FlightInv, SingleFlight, ClosedIsIdle
  <1>3. PublishesSnapshot'
    BY DEF FlightInv, PublishesSnapshot, At, Observing
  <1>4. SingleFlight' /\ ClosedIsIdle'
    BY <1>2 DEF SingleFlight, ClosedIsIdle
  <1> QED
    BY <1>3, <1>4 DEF FlightInv

\* Every action keeps single flight.
LEMMA FlightStep == TypeOK /\ TypeOK' /\ FlightInv /\ [Next]_vars => FlightInv'
  <1> SUFFICES ASSUME TypeOK, TypeOK', FlightInv, [Next]_vars PROVE FlightInv'
    OBVIOUS
  <1>1. CASE UNCHANGED vars \/ CacheChanges
    <2>1. UNCHANGED <<pc, snap, active, straddled, cutOff>>
      BY <1>1 DEF vars, CacheChanges, rolling, call, faults
    <2> QED
      BY <2>1 DEF FlightInv, PublishesSnapshot, SingleFlight, ClosedIsIdle,
         Observing, At
  <1>2. ASSUME NEW t \in Threads, InstallBegin(t) PROVE FlightInv'
    <2>1. /\ ~Observing(t) /\ ~Observing(t)'
          /\ \A u \in Threads \ {t} : pc'[u] = pc[u] /\ snap'[u] = snap[u]
      BY <1>2 DEF TypeOK, InstallBegin, Observing, Goto, At, call
    <2>2. UNCHANGED <<active, straddled, cutOff>>
      BY <1>2 DEF InstallBegin, rolling, faults
    <2> QED
      BY <2>1, <2>2, AsideStep
  <1>3. ASSUME NEW t \in Threads, ExposeHooks(t) PROVE FlightInv'
    <2>1. /\ ~Observing(t) /\ ~Observing(t)'
          /\ \A u \in Threads \ {t} : pc'[u] = pc[u] /\ snap'[u] = snap[u]
      BY <1>3 DEF TypeOK, ExposeHooks, Observing, Goto, At, call
    <2>2. UNCHANGED <<active, straddled, cutOff>>
      BY <1>3 DEF ExposeHooks, rolling, faults
    <2> QED
      BY <2>1, <2>2, AsideStep
  <1>4. ASSUME NEW t \in Threads, EnableCache(t) PROVE FlightInv'
    <2>1. /\ ~Observing(t) /\ ~Observing(t)'
          /\ \A u \in Threads \ {t} : pc'[u] = pc[u] /\ snap'[u] = snap[u]
      BY <1>4 DEF TypeOK, EnableCache, Call, Observing, Goto, At, call
    <2>2. UNCHANGED <<active, straddled, cutOff>>
      BY <1>4 DEF EnableCache, rolling, faults
    <2> QED
      BY <2>1, <2>2, AsideStep
  <1>5. ASSUME NEW t \in Threads, InstallEnd(t) PROVE FlightInv'
    <2>1. /\ ~Observing(t) /\ ~Observing(t)'
          /\ \A u \in Threads \ {t} : pc'[u] = pc[u] /\ snap'[u] = snap[u]
      BY <1>5 DEF TypeOK, InstallEnd, Observing, Goto, At, call
    <2>2. UNCHANGED <<active, straddled, cutOff>>
      BY <1>5 DEF InstallEnd, rolling, faults
    <2> QED
      BY <2>1, <2>2, AsideStep
  <1>6. ASSUME NEW t \in Threads, UninstallBegin(t) PROVE FlightInv'
    <2>1. /\ ~Observing(t) /\ ~Observing(t)'
          /\ \A u \in Threads \ {t} : pc'[u] = pc[u] /\ snap'[u] = snap[u]
      BY <1>6 DEF TypeOK, UninstallBegin, Call, Observing, Goto, At, call
    <2>2. UNCHANGED <<active, straddled, cutOff>>
      BY <1>6 DEF UninstallBegin, rolling, faults
    <2> QED
      BY <2>1, <2>2, AsideStep
  <1>7. ASSUME NEW t \in Threads, Disable(t) PROVE FlightInv'
    <2>1. /\ ~Observing(t) /\ ~Observing(t)'
          /\ \A u \in Threads \ {t} : pc'[u] = pc[u] /\ snap'[u] = snap[u]
      BY <1>7 DEF TypeOK, Disable, Observing, Goto, At, call
    <2>2. UNCHANGED <<active, straddled, cutOff>>
      BY <1>7 DEF Disable, rolling, faults
    <2> QED
      BY <2>1, <2>2, AsideStep
  <1>8. ASSUME NEW t \in Threads, Unhook(t) PROVE FlightInv'
    <2>1. /\ ~Observing(t) /\ ~Observing(t)'
          /\ \A u \in Threads \ {t} : pc'[u] = pc[u] /\ snap'[u] = snap[u]
      BY <1>8 DEF TypeOK, Unhook, Observing, Goto, At, call
    <2>2. UNCHANGED <<active, straddled, cutOff>>
      BY <1>8 DEF Unhook, rolling, faults
    <2> QED
      BY <2>1, <2>2, AsideStep
  <1>9. ASSUME NEW t \in Threads, ReportBegin(t) PROVE FlightInv'
    <2>1. /\ ~Observing(t) /\ ~Observing(t)'
          /\ \A u \in Threads \ {t} : pc'[u] = pc[u] /\ snap'[u] = snap[u]
      BY <1>9 DEF TypeOK, ReportBegin, Call, Observing, Goto, At, call
    <2>2. UNCHANGED <<active, straddled, cutOff>>
      BY <1>9 DEF ReportBegin, rolling, faults
    <2> QED
      BY <2>1, <2>2, AsideStep
  <1>10. ASSUME NEW t \in Threads, ReportCopy(t) PROVE FlightInv'
    <2>1. /\ ~Observing(t) /\ ~Observing(t)'
          /\ \A u \in Threads \ {t} : pc'[u] = pc[u] /\ snap'[u] = snap[u]
      BY <1>10 DEF TypeOK, ReportCopy, EndReport, Observing, Goto, At, call
    <2>2. UNCHANGED <<active, straddled, cutOff>>
      BY <1>10 DEF ReportCopy, rolling, faults
    <2> QED
      BY <2>1, <2>2, AsideStep
  <1>11. ASSUME NEW t \in Threads, BeforeMutation(t) PROVE FlightInv'
    <2>1. /\ ~Observing(t) /\ ~Observing(t)'
          /\ \A u \in Threads \ {t} : pc'[u] = pc[u] /\ snap'[u] = snap[u]
      <3>1. Goto(t, "observe") \/ Goto(t, "count")
        BY <1>11 DEF BeforeMutation, Call
      <3>2. pc[t] = "before" /\ snap' = snap
        BY <1>11 DEF BeforeMutation, At, call, Call
      <3> QED
        BY <3>1, <3>2 DEF TypeOK, Goto, Observing
    <2>2. UNCHANGED <<active, straddled, cutOff>>
      BY <1>11 DEF BeforeMutation, rolling, faults
    <2> QED
      BY <2>1, <2>2, AsideStep
  <1>12. ASSUME NEW t \in Threads, Count(t) PROVE FlightInv'
    <2>1. /\ ~Observing(t) /\ ~Observing(t)'
          /\ \A u \in Threads \ {t} : pc'[u] = pc[u] /\ snap'[u] = snap[u]
      BY <1>12 DEF TypeOK, Count, Observing, Goto, At, call
    <2>2. UNCHANGED <<active, straddled, cutOff>>
      BY <1>12 DEF Count, rolling, faults
    <2> QED
      BY <2>1, <2>2, AsideStep
  <1>13. ASSUME NEW t \in Threads, Mutate(t) PROVE FlightInv'
    <2>1. /\ ~Observing(t) /\ ~Observing(t)'
          /\ \A u \in Threads \ {t} : pc'[u] = pc[u] /\ snap'[u] = snap[u]
      BY <1>13 DEF TypeOK, Mutate, Observing, Goto, At, call
    <2>2. UNCHANGED <<active, straddled, cutOff>>
      BY <1>13 DEF Mutate, rolling, faults
    <2> QED
      BY <2>1, <2>2, AsideStep
  <1>14. ASSUME NEW t \in Threads, Slice(t) PROVE FlightInv'
    <2>1. /\ ~Observing(t) /\ ~Observing(t)'
          /\ \A u \in Threads \ {t} : pc'[u] = pc[u] /\ snap'[u] = snap[u]
      BY <1>14 DEF TypeOK, Slice, Observing, Goto, At, call
    <2>2. UNCHANGED <<active, straddled, cutOff>>
      BY <1>14 DEF Slice, rolling, faults
    <2> QED
      BY <2>1, <2>2, AsideStep
  <1>15. ASSUME NEW t \in Threads, Notify(t) PROVE FlightInv'
    <2>1. /\ ~Observing(t) /\ ~Observing(t)'
          /\ \A u \in Threads \ {t} : pc'[u] = pc[u] /\ snap'[u] = snap[u]
      <3>1. Goto(t, "record") \/ Goto(t, "idle")
        BY <1>15 DEF Notify
      <3>2. pc[t] = "notify" /\ snap' = snap
        BY <1>15 DEF Notify, At, call
      <3> QED
        BY <3>1, <3>2 DEF TypeOK, Goto, Observing
    <2>2. UNCHANGED <<active, straddled, cutOff>>
      BY <1>15 DEF Notify, rolling, faults
    <2> QED
      BY <2>1, <2>2, AsideStep
  <1>16. ASSUME NEW t \in Threads, Record(t) PROVE FlightInv'
    <2>1. /\ ~Observing(t) /\ ~Observing(t)'
          /\ \A u \in Threads \ {t} : pc'[u] = pc[u] /\ snap'[u] = snap[u]
      <3>1. Goto(t, "observe") \/ Goto(t, "idle")
        BY <1>16 DEF Record, Call
      <3>2. pc[t] = "record" /\ snap' = snap
        BY <1>16 DEF Record, At, call, Call
      <3> QED
        BY <3>1, <3>2 DEF TypeOK, Goto, Observing
    <2>2. UNCHANGED <<active, straddled, cutOff>>
      BY <1>16 DEF Record, rolling, faults
    <2> QED
      BY <2>1, <2>2, AsideStep
  <1>17. ASSUME NEW t \in Threads, NEW how \in Kinds, MutationBegin(t, how)
        PROVE FlightInv'
    <2>1. /\ ~Observing(t) /\ ~Observing(t)'
          /\ \A u \in Threads \ {t} : pc'[u] = pc[u] /\ snap'[u] = snap[u]
      BY <1>17 DEF TypeOK, MutationBegin, Observing, Goto, At, call
    <2>2. UNCHANGED <<active, straddled, cutOff>>
      BY <1>17 DEF MutationBegin, rolling, faults
    <2> QED
      BY <2>1, <2>2, AsideStep
  <1>18. ASSUME NEW t \in Threads, Observe(t) PROVE FlightInv'
    <2>1. CASE enabled /\ cacheOn /\ ~active
      <3>1. /\ pc[t] = "observe" /\ active' = TRUE
            /\ pc' = [pc EXCEPT ![t] = "snapshot"]
            /\ UNCHANGED <<snap, straddled, cutOff>>
        BY <1>18, <2>1 DEF Observe, At, Goto, call, faults
      <3>2. /\ pc'[t] = "snapshot"
            /\ \A u \in Threads \ {t} : Observing(u)' <=> Observing(u)
        BY <3>1 DEF TypeOK, Observing
      <3>3. ~straddled => ~cutOff /\ \A u \in Threads : ~Observing(u)
        BY <2>1 DEF FlightInv, SingleFlight
      <3>4. PublishesSnapshot'
        BY <3>1 DEF TypeOK, FlightInv, PublishesSnapshot, At
      <3>5. SingleFlight'
        BY <3>1, <3>2, <3>3 DEF SingleFlight, Observing
      <3>6. ClosedIsIdle'
        BY <3>1, <3>3 DEF ClosedIsIdle
      <3> QED
        BY <3>4, <3>5, <3>6 DEF FlightInv
    <2>2. CASE ~(enabled /\ cacheOn /\ ~active)
      <3>1. At(t, "observe") /\ active' = active /\ Return(t)
        BY <1>18, <2>2 DEF Observe
      <3>2. UNCHANGED <<straddled, cutOff>>
        BY <1>18 DEF Observe, faults
      <3>3. /\ ~Observing(t) /\ ~Observing(t)'
            /\ \A u \in Threads \ {t} : pc'[u] = pc[u] /\ snap'[u] = snap[u]
        BY <3>1 DEF TypeOK, Returns, Return, EndCall, Goto, Observing, At
      <3> QED
        BY <3>1, <3>2, <3>3, AsideStep
    <2> QED BY <2>1, <2>2
  <1>19. ASSUME NEW t \in Threads, Snapshot(t) PROVE FlightInv'
    <2>1. /\ pc[t] = "snapshot" /\ pc' = [pc EXCEPT ![t] = "publish"]
          /\ snap' = [snap EXCEPT ![t] = [value |-> cache, taken |-> moment]]
          /\ UNCHANGED <<active, straddled, cutOff>>
      BY <1>19 DEF Snapshot, At, Goto, rolling, faults
    <2>2. \A u \in Threads : Observing(u)' <=> Observing(u)
      BY <2>1 DEF TypeOK, Observing
    <2>3. [value |-> cache, taken |-> moment] # None
      BY SnapshotAssumption DEF TypeOK, Snapshots
    <2>4. PublishesSnapshot'
      BY <2>1, <2>3 DEF TypeOK, FlightInv, PublishesSnapshot, At
    <2>5. SingleFlight' /\ ClosedIsIdle'
      BY <2>1, <2>2 DEF FlightInv, SingleFlight, ClosedIsIdle
    <2> QED
      BY <2>4, <2>5 DEF FlightInv
  <1>20. ASSUME NEW t \in Threads, SnapshotFails(t) PROVE FlightInv'
    <2>1. /\ Observing(t) /\ Return(t) /\ active' = FALSE
          /\ UNCHANGED <<straddled, cutOff>>
      BY <1>20 DEF SnapshotFails, At, Observing, faults
    <2>2. /\ ~Observing(t)'
          /\ \A u \in Threads \ {t} : pc'[u] = pc[u] /\ snap'[u] = snap[u]
      BY <2>1 DEF TypeOK, Returns, Return, EndCall, Goto, Observing
    <2> QED
      BY <2>1, <2>2, LandingStep
  <1>21. ASSUME NEW t \in Threads, Publish(t) PROVE FlightInv'
    <2>1. /\ Observing(t) /\ Return(t) /\ active' = FALSE
          /\ UNCHANGED <<straddled, cutOff>>
      BY <1>21 DEF Publish, At, Observing, faults
    <2>2. /\ ~Observing(t)'
          /\ \A u \in Threads \ {t} : pc'[u] = pc[u] /\ snap'[u] = snap[u]
      BY <2>1 DEF TypeOK, Returns, Return, EndCall, Goto, Observing
    <2> QED
      BY <2>1, <2>2, LandingStep
  <1>22. ASSUME NEW t \in Threads, SnapshotInterrupted(t) PROVE FlightInv'
    <2>1. /\ pc[t] = "snapshot" /\ pc' = [pc EXCEPT ![t] = "idle"]
          /\ snap' = [snap EXCEPT ![t] = None]
          /\ cutOff' = TRUE /\ UNCHANGED <<active, straddled>>
      BY <1>22 DEF SnapshotInterrupted, Abandon, EndCall, At, Goto, rolling
    <2>2. /\ Observing(t) /\ ~Observing(t)'
          /\ \A u \in Threads \ {t} : /\ Observing(u)' <=> Observing(u)
                                     /\ pc'[u] = pc[u] /\ snap'[u] = snap[u]
      BY <2>1 DEF TypeOK, Observing
    <2>3. ~straddled => active /\ \A u \in Threads : ~Observing(u)'
      BY <2>2 DEF FlightInv, SingleFlight
    <2>4. PublishesSnapshot'
      BY <2>2 DEF FlightInv, PublishesSnapshot, At, Observing
    <2>5. SingleFlight' /\ ClosedIsIdle'
      BY <2>1, <2>3 DEF SingleFlight, ClosedIsIdle
    <2> QED
      BY <2>4, <2>5 DEF FlightInv
  <1>23. ASSUME NEW t \in Threads, Forget(t) PROVE FlightInv'
    <2>1. /\ pc[t] = "forget" /\ pc' = [pc EXCEPT ![t] = "idle"]
          /\ snap' = snap /\ active' = FALSE /\ cutOff' = FALSE
          /\ straddled' = (straddled \/ \E u \in Threads : Observing(u))
      BY <1>23 DEF Forget, At, Goto, call
    <2>2. \A u \in Threads : Observing(u)' <=> Observing(u)
      BY <2>1 DEF TypeOK, Observing
    <2>3. PublishesSnapshot'
      BY <2>1 DEF TypeOK, FlightInv, PublishesSnapshot, At
    <2>4. SingleFlight' /\ ClosedIsIdle'
      BY <2>1, <2>2 DEF SingleFlight, ClosedIsIdle
    <2> QED
      BY <2>3, <2>4 DEF FlightInv
  <1> QED
    BY <1>1, <1>2, <1>3, <1>4, <1>5, <1>6, <1>7, <1>8, <1>9, <1>10, <1>11,
       <1>12, <1>13, <1>14, <1>15, <1>16, <1>17, <1>18, <1>19, <1>20, <1>21,
       <1>22, <1>23 DEF Next, Step

(***************************************************************************)
(* The path hooks.  The records say what was done to the list; what has    *)
(* been done and not recorded yet is a debt of the thread that did it.     *)
(* Threads may be infinitely many, so debts are not summed but counted as  *)
(* sets of units, of which one step changes those of one thread.           *)
(***************************************************************************)
\* What a number adds to a set of units.
Positive(n) == IF n > 0 THEN n ELSE 0

\* The units of a debt that changes in one thread change by as much.
LEMMA UnitsChange ==
  ASSUME NEW f \in [Threads -> Int], NEW g \in [Threads -> Int],
         NEW t \in Threads, \A u \in Threads \ {t} : f[u] = g[u],
         IsFiniteSet(Units(f))
  PROVE  /\ IsFiniteSet(Units(g))
         /\ Cardinality(Units(g)) \in Nat /\ Cardinality(Units(f)) \in Nat
         /\ Cardinality(Units(g)) - Positive(g[t])
              = Cardinality(Units(f)) - Positive(f[t])
<1> DEFINE Rest == Units(f) \ ({t} \X (1..f[t]))
<1>1. ASSUME NEW n \in Int
      PROVE  /\ IsFiniteSet({t} \X (1..n))
             /\ Cardinality({t} \X (1..n)) = Positive(n)
  <2>1. IsFiniteSet({t}) /\ Cardinality({t}) = 1
    BY FS_Singleton
  <2>2. IsFiniteSet(1..n) /\ Cardinality(1..n) = Positive(n)
    BY FS_Interval DEF Positive
  <2>3. Positive(n) \in Int
    BY DEF Positive
  <2>4. QED
    <3>1. /\ IsFiniteSet({t} \X (1..n))
          /\ Cardinality({t} \X (1..n)) = Cardinality({t}) * Cardinality(1..n)
      BY <2>1, <2>2, FS_Product
    <3>2. 1 * Positive(n) = Positive(n)
      BY <2>3
    <3>3. QED
      BY <2>1, <2>2, <3>1, <3>2
<1>2. f[t] \in Int /\ g[t] \in Int
  OBVIOUS
<1>3. \A x : x \in Rest <=> \E u \in Threads \ {t} : x \in {u} \X (1..f[u])
  BY DEF Units
<1>4. Units(f) = Rest \union ({t} \X (1..f[t]))
  BY DEF Units
<1>5. Units(g) = Rest \union ({t} \X (1..g[t]))
  <2>1. \A x : x \in Units(g) <=> \E u \in Threads : x \in {u} \X (1..g[u])
    BY DEF Units
  <2>2. \A x : x \in Rest <=> \E u \in Threads \ {t} : x \in {u} \X (1..g[u])
    BY <1>3
  <2>3. QED
    BY <2>1, <2>2
<1>6. IsFiniteSet(Rest) /\ Cardinality(Rest) \in Nat
  <2>1. Rest \in SUBSET Units(f)
    OBVIOUS
  <2>2. QED
    BY <2>1, FS_Subset, FS_CardinalityType
<1>7. ASSUME NEW n \in Int
      PROVE  /\ IsFiniteSet(Rest \union ({t} \X (1..n)))
             /\ Cardinality(Rest \union ({t} \X (1..n))) =
                  Cardinality(Rest) + Positive(n)
  <2>1. Rest \cap ({t} \X (1..n)) = {}
    BY <1>3
  <2>2. Cardinality(Rest \cap ({t} \X (1..n))) = 0
    BY <2>1, FS_EmptySet
  <2>3. Positive(n) \in Nat
    BY DEF Positive
  <2>4. /\ IsFiniteSet(Rest \union ({t} \X (1..n)))
        /\ Cardinality(Rest \union ({t} \X (1..n))) =
             Cardinality(Rest) + Cardinality({t} \X (1..n))
               - Cardinality(Rest \cap ({t} \X (1..n)))
    <3> HIDE DEF Rest
    <3> QED
      BY <1>1, <1>6, FS_Union
  <2>5. Cardinality({t} \X (1..n)) = Positive(n)
    BY <1>1
  <2>6. QED
    <3> HIDE DEF Rest
    <3> QED
      BY <1>6, <2>2, <2>3, <2>4, <2>5
<1>8. Positive(f[t]) \in Nat /\ Positive(g[t]) \in Nat
  BY <1>2 DEF Positive
<1> HIDE DEF Rest
<1>9. /\ IsFiniteSet(Units(g))
      /\ Cardinality(Units(g)) = Cardinality(Rest) + Positive(g[t])
  BY <1>2, <1>5, <1>7
<1>10. Cardinality(Units(f)) = Cardinality(Rest) + Positive(f[t])
  BY <1>2, <1>4, <1>7
<1>11. QED
  BY <1>6, <1>8, <1>9, <1>10

\* A total is of numbers, and changes by what one thread's debt does.
LEMMA TotalChange ==
  ASSUME NEW f \in [Threads -> Int], NEW g \in [Threads -> Int],
         NEW t \in Threads, \A u \in Threads \ {t} : f[u] = g[u],
         Finite(f)
  PROVE  /\ Finite(g) /\ Total(f) \in Int /\ Total(g) \in Int
         /\ Total(g) - Total(f) = g[t] - f[t]
<1> DEFINE F == [u \in Threads |-> -f[u]]
           G == [u \in Threads |-> -g[u]]
<1>1. /\ F \in [Threads -> Int] /\ G \in [Threads -> Int]
      /\ \A u \in Threads \ {t} : F[u] = G[u]
      /\ F[t] = -f[t] /\ G[t] = -g[t]
  OBVIOUS
<1>2. Finite(f) <=> IsFiniteSet(Units(f)) /\ IsFiniteSet(Units(F))
  BY DEF Finite
<1>3. Finite(g) <=> IsFiniteSet(Units(g)) /\ IsFiniteSet(Units(G))
  BY DEF Finite
<1>4. /\ Total(f) = Cardinality(Units(f)) - Cardinality(Units(F))
      /\ Total(g) = Cardinality(Units(g)) - Cardinality(Units(G))
  BY DEF Total
<1> HIDE DEF F, G
<1>5. /\ IsFiniteSet(Units(g))
      /\ Cardinality(Units(g)) \in Nat /\ Cardinality(Units(f)) \in Nat
      /\ Cardinality(Units(g)) - Positive(g[t])
           = Cardinality(Units(f)) - Positive(f[t])
  BY <1>2, UnitsChange
<1>6. /\ IsFiniteSet(Units(G))
      /\ Cardinality(Units(G)) \in Nat /\ Cardinality(Units(F)) \in Nat
      /\ Cardinality(Units(G)) - Positive(G[t])
           = Cardinality(Units(F)) - Positive(F[t])
  BY <1>1, <1>2, UnitsChange
<1>7. f[t] \in Int /\ g[t] \in Int
  OBVIOUS
<1>8. /\ Positive(f[t]) \in Int /\ Positive(g[t]) \in Int
      /\ Positive(F[t]) \in Int /\ Positive(G[t]) \in Int
      /\ Positive(f[t]) - Positive(F[t]) = f[t]
      /\ Positive(g[t]) - Positive(G[t]) = g[t]
  BY <1>1, <1>7 DEF Positive
<1>9. QED
  BY <1>3, <1>4, <1>5, <1>6, <1>7, <1>8

\* Nothing owed makes nothing.
LEMMA NothingOwed ==
  ASSUME NEW f, \A t \in Threads : f[t] = 0
  PROVE  Finite(f) /\ Total(f) = 0
<1> DEFINE F == [u \in Threads |-> -f[u]]
<1>1. \A t \in Threads : F[t] = 0
  OBVIOUS
<1>2. ASSUME NEW g, \A t \in Threads : g[t] = 0 PROVE Units(g) = {}
  BY <1>2 DEF Units
<1>3. Units(f) = {} /\ Units(F) = {}
  BY <1>1, <1>2
<1>4. Total(f) = Cardinality(Units(f)) - Cardinality(Units(F))
  BY DEF Total
<1>5. Finite(f) <=> IsFiniteSet(Units(f)) /\ IsFiniteSet(Units(F))
  BY DEF Finite
<1>6. QED
  <2> HIDE DEF F
  <2>1. QED
    BY <1>3, <1>4, <1>5, FS_EmptySet

\* A step changes the place and the locals of its own thread alone.
LEMMA OwnLocals ==
  ASSUME TypeOK, NEW t \in Threads, Step(t)
  PROVE  \A u \in Threads \ {t} :
           /\ pc'[u] = pc[u] /\ next'[u] = next[u] /\ on'[u] = on[u]
           /\ kind'[u] = kind[u] /\ took'[u] = took[u]
<1>1. CASE Observe(t)
  BY <1>1 DEF Observe, Return, Miss, EndCall, TypeOK, Goto, At, flags, world,
     list, op, call, bounds, report, faults
<1>2. CASE Snapshot(t)
  BY <1>2 DEF Snapshot, TypeOK, Goto, At, flags, rolling, world, list, op,
     bounds, report, faults
<1>3. CASE SnapshotFails(t)
  BY <1>3 DEF SnapshotFails, Return, Miss, EndCall, TypeOK, Goto, At, flags,
     world, list, op, bounds, faults
<1>4. CASE SnapshotInterrupted(t)
  BY <1>4 DEF SnapshotInterrupted, Abandon, EndOp, EndReport, EndCall, TypeOK,
     Goto, At, rolling, world, list, bounds
<1>5. CASE Publish(t)
  BY <1>5 DEF Publish, Return, Miss, EndCall, TypeOK, Goto, At, flags, world,
     list, op, bounds, report, faults
<1>6. CASE InstallBegin(t)
  BY <1>6 DEF InstallBegin, TypeOK, Goto, At, rolling, world, list, op, call,
     report, faults
<1>7. CASE ExposeHooks(t)
  BY <1>7 DEF ExposeHooks, TypeOK, Goto, At, rolling, world, op, call, bounds,
     report, faults
<1>8. CASE EnableCache(t)
  BY <1>8 DEF EnableCache, Call, TypeOK, Goto, At, flags, world, list, op,
     bounds, report, faults
<1>9. CASE InstallEnd(t)
  BY <1>9 DEF InstallEnd, TypeOK, Goto, At, rolling, world, list, op, call,
     bounds, report, faults
<1>10. CASE UninstallBegin(t)
  BY <1>10 DEF UninstallBegin, Call, TypeOK, Goto, At, rolling, world, list,
     op, bounds, report, faults
<1>11. CASE Disable(t)
  BY <1>11 DEF Disable, TypeOK, Goto, At, rolling, world, list, op, call,
     bounds, report, faults
<1>12. CASE Unhook(t)
  BY <1>12 DEF Unhook, TypeOK, Goto, At, rolling, world, list, op, call,
     bounds, report, faults
<1>13. CASE Forget(t)
  BY <1>13 DEF Forget, TypeOK, Goto, At, world, list, op, call, bounds, report
<1>14. CASE ReportBegin(t)
  BY <1>14 DEF ReportBegin, Call, TypeOK, Goto, At, flags, rolling, world,
     list, op, bounds, faults
<1>15. CASE ReportCopy(t)
  BY <1>15 DEF ReportCopy, EndReport, TypeOK, Goto, At, flags, rolling, world,
     list, op, call, bounds, faults
<1>16. ASSUME NEW how \in Kinds, MutationBegin(t, how) PROVE
         \A u \in Threads \ {t} :
           /\ pc'[u] = pc[u] /\ next'[u] = next[u] /\ on'[u] = on[u]
           /\ kind'[u] = kind[u] /\ took'[u] = took[u]
  BY <1>16 DEF MutationBegin, TypeOK, Goto, At, flags, rolling, world, list,
     call, report, faults
<1>17. CASE BeforeMutation(t)
  BY <1>17 DEF BeforeMutation, Call, TypeOK, Goto, At, flags, rolling, world,
     list, op, call, bounds, report, faults
<1>18. CASE Count(t)
  BY <1>18 DEF Count, TypeOK, Goto, At, flags, rolling, world, list, call,
     bounds, report, faults
<1>19. CASE Mutate(t)
  BY <1>19 DEF Mutate, TypeOK, Goto, At, flags, rolling, world, op, call,
     bounds, report, faults
<1>20. CASE Slice(t)
  BY <1>20 DEF Slice, TypeOK, Goto, At, flags, rolling, world, list, call,
     bounds, report, faults
<1>21. CASE Notify(t)
  BY <1>21 DEF Notify, EndOp, TypeOK, Goto, At, flags, rolling, world, list,
     op, call, bounds, report, faults
<1>22. CASE Record(t)
  BY <1>22 DEF Record, Call, EndOp, TypeOK, Goto, At, flags, rolling, world,
     call, bounds, report, faults
<1>23. QED
  BY <1>1, <1>2, <1>3, <1>4, <1>5, <1>6, <1>7, <1>8, <1>9, <1>10, <1>11,
     <1>12, <1>13, <1>14, <1>15, <1>16, <1>17, <1>18, <1>19, <1>20, <1>21,
     <1>22 DEF Step
\* The transition is taken from nobody and given back by its owner.
LEMMA OwnershipMoves ==
  ASSUME TypeOK, OneManager, NEW t \in Threads, Step(t)
  PROVE  /\ owner' = owner \/ owner = t \/ owner = Nobody
         /\ Managing(t)' => owner' = t
<1>1. CASE Observe(t)
  BY <1>1 DEF Observe, Return, Miss, EndCall, TypeOK, OneManager, Managing,
     PC, Returns, Goto, At, flags, world, list, op, call, bounds, report,
     faults
<1>2. CASE Snapshot(t)
  BY <1>2 DEF Snapshot, TypeOK, OneManager, Managing, PC, Returns, Goto, At,
     flags, rolling, world, list, op, bounds, report, faults
<1>3. CASE SnapshotFails(t)
  BY <1>3 DEF SnapshotFails, Return, Miss, EndCall, TypeOK, OneManager,
     Managing, PC, Returns, Goto, At, flags, world, list, op, bounds, faults
<1>4. CASE SnapshotInterrupted(t)
  BY <1>4 DEF SnapshotInterrupted, Abandon, EndOp, EndReport, EndCall, TypeOK,
     OneManager, Managing, PC, Returns, Goto, At, rolling, world, list, bounds
<1>5. CASE Publish(t)
  BY <1>5 DEF Publish, Return, Miss, EndCall, TypeOK, OneManager, Managing,
     PC, Returns, Goto, At, flags, world, list, op, bounds, report, faults
<1>6. CASE InstallBegin(t)
  BY <1>6 DEF InstallBegin, TypeOK, OneManager, Managing, PC, Returns, Goto,
     At, rolling, world, list, op, call, report, faults
<1>7. CASE ExposeHooks(t)
  BY <1>7 DEF ExposeHooks, TypeOK, OneManager, Managing, PC, Returns, Goto,
     At, rolling, world, op, call, bounds, report, faults
<1>8. CASE EnableCache(t)
  BY <1>8 DEF EnableCache, Call, TypeOK, OneManager, Managing, PC, Returns,
     Goto, At, flags, world, list, op, bounds, report, faults
<1>9. CASE InstallEnd(t)
  BY <1>9 DEF InstallEnd, TypeOK, OneManager, Managing, PC, Returns, Goto, At,
     rolling, world, list, op, call, bounds, report, faults
<1>10. CASE UninstallBegin(t)
  BY <1>10 DEF UninstallBegin, Call, TypeOK, OneManager, Managing, PC,
     Returns, Goto, At, rolling, world, list, op, bounds, report, faults
<1>11. CASE Disable(t)
  BY <1>11 DEF Disable, TypeOK, OneManager, Managing, PC, Returns, Goto, At,
     rolling, world, list, op, call, bounds, report, faults
<1>12. CASE Unhook(t)
  BY <1>12 DEF Unhook, TypeOK, OneManager, Managing, PC, Returns, Goto, At,
     rolling, world, list, op, call, bounds, report, faults
<1>13. CASE Forget(t)
  BY <1>13 DEF Forget, TypeOK, OneManager, Managing, PC, Returns, Goto, At,
     world, list, op, call, bounds, report
<1>14. CASE ReportBegin(t)
  BY <1>14 DEF ReportBegin, Call, TypeOK, OneManager, Managing, PC, Returns,
     Goto, At, flags, rolling, world, list, op, bounds, faults
<1>15. CASE ReportCopy(t)
  BY <1>15 DEF ReportCopy, EndReport, TypeOK, OneManager, Managing, PC,
     Returns, Goto, At, flags, rolling, world, list, op, call, bounds, faults
<1>16. ASSUME NEW how \in Kinds, MutationBegin(t, how) PROVE
         (owner' = owner \/ owner = t \/ owner = Nobody) /\ (Managing(t)' => owner' = t)
  BY <1>16 DEF MutationBegin, TypeOK, OneManager, Managing, PC, Returns, Goto,
     At, flags, rolling, world, list, call, report, faults
<1>17. CASE BeforeMutation(t)
  BY <1>17 DEF BeforeMutation, Call, TypeOK, OneManager, Managing, PC,
     Returns, Goto, At, flags, rolling, world, list, op, call, bounds, report,
     faults
<1>18. CASE Count(t)
  BY <1>18 DEF Count, TypeOK, OneManager, Managing, PC, Returns, Goto, At,
     flags, rolling, world, list, call, bounds, report, faults
<1>19. CASE Mutate(t)
  BY <1>19 DEF Mutate, TypeOK, OneManager, Managing, PC, Returns, Goto, At,
     flags, rolling, world, op, call, bounds, report, faults
<1>20. CASE Slice(t)
  BY <1>20 DEF Slice, TypeOK, OneManager, Managing, PC, Returns, Goto, At,
     flags, rolling, world, list, call, bounds, report, faults
<1>21. CASE Notify(t)
  BY SMTT(30), <1>21 DEF Notify, EndOp, TypeOK, OneManager, Managing, PC, Returns, Goto,
     At, flags, rolling, world, list, op, call, bounds, report, faults
<1>22. CASE Record(t)
  BY SMTT(30), <1>22 DEF Record, Call, EndOp, TypeOK, OneManager, Managing, PC, Returns,
     Goto, At, flags, rolling, world, call, bounds, report, faults
<1>23. QED
  BY <1>1, <1>2, <1>3, <1>4, <1>5, <1>6, <1>7, <1>8, <1>9, <1>10, <1>11,
     <1>12, <1>13, <1>14, <1>15, <1>16, <1>17, <1>18, <1>19, <1>20, <1>21,
     <1>22, Zenon DEF Step

\* One thread at a time installs or uninstalls.
LEMMA OneManagerStep ==
  ASSUME TypeOK, OneManager, [Next]_vars PROVE OneManager'
<1>1. CASE UNCHANGED vars
  BY <1>1 DEF OneManager, Managing, vars, flags, call
<1>2. CASE CacheChanges
  BY <1>2 DEF CacheChanges, OneManager, Managing, flags, call
<1>3. ASSUME NEW t \in Threads, Step(t) PROVE OneManager'
  <2>1. \A u \in Threads \ {t} : pc'[u] = pc[u] /\ next'[u] = next[u]
    BY <1>3, OwnLocals
  <2>2. /\ owner' = owner \/ owner = t \/ owner = Nobody
        /\ Managing(t)' => owner' = t
    BY <1>3, OwnershipMoves
  <2>3. ASSUME NEW u \in Threads \ {t}, Managing(u)' PROVE owner' = u
    <3>1. Managing(u)
      BY <2>1, <2>3 DEF Managing
    <3>2. owner = u /\ u # Nobody
      BY <3>1, ThreadAssumption DEF OneManager
    <3>3. QED
      BY <2>2, <3>2
  <2>4. QED
    BY <2>2, <2>3 DEF OneManager
<1>4. QED
  BY <1>1, <1>2, <1>3 DEF Next

\* A list comes with an installation and goes with it; nothing else turns the
\* hooks on or raises the number a list is named by.
LEMMA ListMoves ==
  ASSUME TypeOK, OneManager, ListFits, NEW t \in Threads, Step(t)
  PROVE  /\ live' = 0 <=> ~hooksOn'
         /\ live' <= installs' /\ on'[t] <= installs' /\ installs <= installs'
         /\ installs' # installs => owner = Nobody /\ ~hooksOn
         /\ hooksOn' => hooksOn \/ At(t, "expose")
         /\ on'[t] = on[t] \/ on'[t] = 0 \/ hooksOn
<1>1. CASE Observe(t)
  <2>1. /\ \/ pc' = [pc EXCEPT ![t] = next[t]]
           \/ pc' = [pc EXCEPT ![t] = "snapshot"]
        /\ UNCHANGED <<enabled, hooksOn, live, owner, installs, on>>
    BY BoundAssumption, ThreadAssumption, <1>1 DEF Observe, Return, Goto,
       flags, bounds, op
  <2>2. next[t] \in Returns /\ pc \in [Threads -> PC]
    BY DEF TypeOK
  <2>3. QED
    BY BoundAssumption, <2>1, <2>2, <1>1 DEF TypeOK, ListFits, At, Returns,
       Observe
<1>2. CASE Snapshot(t)
  BY BoundAssumption, ThreadAssumption, <1>2 DEF Snapshot, TypeOK, OneManager,
     Managing, ListFits, PC, Returns, Goto, At, flags, rolling, world, list,
     op, bounds, report, faults
<1>3. CASE SnapshotFails(t)
  <2>1. /\ \/ pc' = [pc EXCEPT ![t] = next[t]]
           \/ pc' = [pc EXCEPT ![t] = "snapshot"]
        /\ UNCHANGED <<enabled, hooksOn, live, owner, installs, on>>
    BY BoundAssumption, ThreadAssumption, <1>3 DEF SnapshotFails, Return,
       Goto, flags, bounds, op
  <2>2. next[t] \in Returns /\ pc \in [Threads -> PC]
    BY DEF TypeOK
  <2>3. QED
    BY BoundAssumption, <2>1, <2>2, <1>3 DEF TypeOK, ListFits, At, Returns,
       SnapshotFails
<1>4. CASE SnapshotInterrupted(t)
  BY BoundAssumption, ThreadAssumption, <1>4 DEF SnapshotInterrupted, Abandon,
     EndOp, EndReport, EndCall, TypeOK, OneManager, Managing, ListFits, PC,
     Returns, Goto, At, rolling, world, list, bounds
<1>5. CASE Publish(t)
  <2>1. /\ \/ pc' = [pc EXCEPT ![t] = next[t]]
           \/ pc' = [pc EXCEPT ![t] = "snapshot"]
        /\ UNCHANGED <<enabled, hooksOn, live, owner, installs, on>>
    BY BoundAssumption, ThreadAssumption, <1>5 DEF Publish, Return, Goto,
       flags, bounds, op
  <2>2. next[t] \in Returns /\ pc \in [Threads -> PC]
    BY DEF TypeOK
  <2>3. QED
    BY BoundAssumption, <2>1, <2>2, <1>5 DEF TypeOK, ListFits, At, Returns,
       Publish
<1>6. CASE InstallBegin(t)
  BY BoundAssumption, ThreadAssumption, <1>6 DEF InstallBegin, TypeOK,
     OneManager, Managing, ListFits, PC, Returns, Goto, At, rolling, world,
     list, op, call, report, faults
<1>7. CASE ExposeHooks(t)
  BY BoundAssumption, ThreadAssumption, <1>7 DEF ExposeHooks, TypeOK,
     OneManager, Managing, ListFits, PC, Returns, Goto, At, rolling, world,
     op, call, bounds, report, faults
<1>8. CASE EnableCache(t)
  BY BoundAssumption, ThreadAssumption, <1>8 DEF EnableCache, Call, TypeOK,
     OneManager, Managing, ListFits, PC, Returns, Goto, At, flags, world,
     list, op, bounds, report, faults
<1>9. CASE InstallEnd(t)
  BY BoundAssumption, ThreadAssumption, <1>9 DEF InstallEnd, TypeOK,
     OneManager, Managing, ListFits, PC, Returns, Goto, At, rolling, world,
     list, op, call, bounds, report, faults
<1>10. CASE UninstallBegin(t)
  BY BoundAssumption, ThreadAssumption, <1>10 DEF UninstallBegin, Call,
     TypeOK, OneManager, Managing, ListFits, PC, Returns, Goto, At, rolling,
     world, list, op, bounds, report, faults
<1>11. CASE Disable(t)
  BY BoundAssumption, ThreadAssumption, <1>11 DEF Disable, TypeOK, OneManager,
     Managing, ListFits, PC, Returns, Goto, At, rolling, world, list, op,
     call, bounds, report, faults
<1>12. CASE Unhook(t)
  BY BoundAssumption, ThreadAssumption, <1>12 DEF Unhook, TypeOK, OneManager,
     Managing, ListFits, PC, Returns, Goto, At, rolling, world, list, op,
     call, bounds, report, faults
<1>13. CASE Forget(t)
  BY BoundAssumption, ThreadAssumption, <1>13 DEF Forget, TypeOK, OneManager,
     Managing, ListFits, PC, Returns, Goto, At, world, list, op, call, bounds,
     report
<1>14. CASE ReportBegin(t)
  BY BoundAssumption, ThreadAssumption, <1>14 DEF ReportBegin, Call, TypeOK,
     OneManager, Managing, ListFits, PC, Returns, Goto, At, flags, rolling,
     world, list, op, bounds, faults
<1>15. CASE ReportCopy(t)
  BY BoundAssumption, ThreadAssumption, <1>15 DEF ReportCopy, EndReport,
     TypeOK, OneManager, Managing, ListFits, PC, Returns, Goto, At, flags,
     rolling, world, list, op, call, bounds, faults
<1>16. ASSUME NEW how \in Kinds, MutationBegin(t, how) PROVE
         /\ live' = 0 <=> ~hooksOn'
         /\ live' <= installs' /\ on'[t] <= installs' /\ installs <= installs'
         /\ installs' # installs => owner = Nobody /\ ~hooksOn
         /\ hooksOn' => hooksOn \/ At(t, "expose")
         /\ on'[t] = on[t] \/ on'[t] = 0 \/ hooksOn
  BY BoundAssumption, ThreadAssumption, <1>16 DEF MutationBegin, TypeOK,
     OneManager, Managing, ListFits, PC, Returns, Goto, At, flags, rolling,
     world, list, call, report, faults
<1>17. CASE BeforeMutation(t)
  BY BoundAssumption, ThreadAssumption, <1>17 DEF BeforeMutation, Call,
     TypeOK, OneManager, Managing, ListFits, PC, Returns, Goto, At, flags,
     rolling, world, list, op, call, bounds, report, faults
<1>18. CASE Count(t)
  BY BoundAssumption, ThreadAssumption, <1>18 DEF Count, TypeOK, OneManager,
     Managing, ListFits, PC, Returns, Goto, At, flags, rolling, world, list,
     call, bounds, report, faults
<1>19. CASE Mutate(t)
  BY BoundAssumption, ThreadAssumption, <1>19 DEF Mutate, TypeOK, OneManager,
     Managing, ListFits, PC, Returns, Goto, At, flags, rolling, world, op,
     call, bounds, report, faults
<1>20. CASE Slice(t)
  BY BoundAssumption, ThreadAssumption, <1>20 DEF Slice, TypeOK, OneManager,
     Managing, ListFits, PC, Returns, Goto, At, flags, rolling, world, list,
     call, bounds, report, faults
<1>21. CASE Notify(t)
  BY BoundAssumption, ThreadAssumption, <1>21 DEF Notify, EndOp, TypeOK,
     OneManager, Managing, ListFits, PC, Returns, Goto, At, flags, rolling,
     world, list, op, call, bounds, report, faults
<1>22. CASE Record(t)
  BY BoundAssumption, ThreadAssumption, <1>22 DEF Record, Call, EndOp, TypeOK,
     OneManager, Managing, ListFits, PC, Returns, Goto, At, flags, rolling,
     world, call, bounds, report, faults
<1>23. QED
  BY <1>1, <1>2, <1>3, <1>4, <1>5, <1>6, <1>7, <1>8, <1>9, <1>10, <1>11,
     <1>12, <1>13, <1>14, <1>15, <1>16, <1>17, <1>18, <1>19, <1>20, <1>21,
     <1>22 DEF Step
\* Monitoring goes off at the hands of the one who uninstalls, between the
\* installation of its list and the removal of it.
LEMMA SwitchMoves ==
  ASSUME TypeOK, OneManager, ListFits, NEW t \in Threads, Step(t)
  PROVE  /\ hooksOn' /\ ~enabled' /\ ~At(t, "unhook")'
              => hooksOn /\ ~enabled /\ ~At(t, "unhook")
         /\ enabled /\ ~enabled' => owner = t
         /\ At(t, "expose")' => /\ enabled' /\ ~hooksOn' /\ on'[t] = on[t]
                                /\ At(t, "expose") \/ installs' = installs + 1
<1>1. CASE Observe(t)
  <2>1. /\ \/ pc' = [pc EXCEPT ![t] = next[t]]
           \/ pc' = [pc EXCEPT ![t] = "snapshot"]
        /\ UNCHANGED <<enabled, hooksOn, live, owner, installs, on>>
    BY BoundAssumption, ThreadAssumption, <1>1 DEF Observe, Return, Goto,
       flags, bounds, op
  <2>2. next[t] \in Returns /\ pc \in [Threads -> PC]
    BY DEF TypeOK
  <2>3. QED
    BY BoundAssumption, <2>1, <2>2, <1>1 DEF TypeOK, ListFits, At, Returns,
       Observe
<1>2. CASE Snapshot(t)
  BY BoundAssumption, ThreadAssumption, <1>2 DEF Snapshot, TypeOK, OneManager,
     Managing, ListFits, PC, Returns, Goto, At, flags, rolling, world, list,
     op, bounds, report, faults
<1>3. CASE SnapshotFails(t)
  <2>1. /\ \/ pc' = [pc EXCEPT ![t] = next[t]]
           \/ pc' = [pc EXCEPT ![t] = "snapshot"]
        /\ UNCHANGED <<enabled, hooksOn, live, owner, installs, on>>
    BY BoundAssumption, ThreadAssumption, <1>3 DEF SnapshotFails, Return,
       Goto, flags, bounds, op
  <2>2. next[t] \in Returns /\ pc \in [Threads -> PC]
    BY DEF TypeOK
  <2>3. QED
    BY BoundAssumption, <2>1, <2>2, <1>3 DEF TypeOK, ListFits, At, Returns,
       SnapshotFails
<1>4. CASE SnapshotInterrupted(t)
  BY BoundAssumption, ThreadAssumption, <1>4 DEF SnapshotInterrupted, Abandon,
     EndOp, EndReport, EndCall, TypeOK, OneManager, Managing, ListFits, PC,
     Returns, Goto, At, rolling, world, list, bounds
<1>5. CASE Publish(t)
  <2>1. /\ \/ pc' = [pc EXCEPT ![t] = next[t]]
           \/ pc' = [pc EXCEPT ![t] = "snapshot"]
        /\ UNCHANGED <<enabled, hooksOn, live, owner, installs, on>>
    BY BoundAssumption, ThreadAssumption, <1>5 DEF Publish, Return, Goto,
       flags, bounds, op
  <2>2. next[t] \in Returns /\ pc \in [Threads -> PC]
    BY DEF TypeOK
  <2>3. QED
    BY BoundAssumption, <2>1, <2>2, <1>5 DEF TypeOK, ListFits, At, Returns,
       Publish
<1>6. CASE InstallBegin(t)
  BY BoundAssumption, ThreadAssumption, <1>6 DEF InstallBegin, TypeOK,
     OneManager, Managing, ListFits, PC, Returns, Goto, At, rolling, world,
     list, op, call, report, faults
<1>7. CASE ExposeHooks(t)
  BY BoundAssumption, ThreadAssumption, <1>7 DEF ExposeHooks, TypeOK,
     OneManager, Managing, ListFits, PC, Returns, Goto, At, rolling, world,
     op, call, bounds, report, faults
<1>8. CASE EnableCache(t)
  BY BoundAssumption, ThreadAssumption, <1>8 DEF EnableCache, Call, TypeOK,
     OneManager, Managing, ListFits, PC, Returns, Goto, At, flags, world,
     list, op, bounds, report, faults
<1>9. CASE InstallEnd(t)
  BY BoundAssumption, ThreadAssumption, <1>9 DEF InstallEnd, TypeOK,
     OneManager, Managing, ListFits, PC, Returns, Goto, At, rolling, world,
     list, op, call, bounds, report, faults
<1>10. CASE UninstallBegin(t)
  BY BoundAssumption, ThreadAssumption, <1>10 DEF UninstallBegin, Call,
     TypeOK, OneManager, Managing, ListFits, PC, Returns, Goto, At, rolling,
     world, list, op, bounds, report, faults
<1>11. CASE Disable(t)
  BY BoundAssumption, ThreadAssumption, <1>11 DEF Disable, TypeOK, OneManager,
     Managing, ListFits, PC, Returns, Goto, At, rolling, world, list, op,
     call, bounds, report, faults
<1>12. CASE Unhook(t)
  BY BoundAssumption, ThreadAssumption, <1>12 DEF Unhook, TypeOK, OneManager,
     Managing, ListFits, PC, Returns, Goto, At, rolling, world, list, op,
     call, bounds, report, faults
<1>13. CASE Forget(t)
  BY BoundAssumption, ThreadAssumption, <1>13 DEF Forget, TypeOK, OneManager,
     Managing, ListFits, PC, Returns, Goto, At, world, list, op, call, bounds,
     report
<1>14. CASE ReportBegin(t)
  BY BoundAssumption, ThreadAssumption, <1>14 DEF ReportBegin, Call, TypeOK,
     OneManager, Managing, ListFits, PC, Returns, Goto, At, flags, rolling,
     world, list, op, bounds, faults
<1>15. CASE ReportCopy(t)
  BY BoundAssumption, ThreadAssumption, <1>15 DEF ReportCopy, EndReport,
     TypeOK, OneManager, Managing, ListFits, PC, Returns, Goto, At, flags,
     rolling, world, list, op, call, bounds, faults
<1>16. ASSUME NEW how \in Kinds, MutationBegin(t, how) PROVE
         /\ hooksOn' /\ ~enabled' /\ ~At(t, "unhook")'
              => hooksOn /\ ~enabled /\ ~At(t, "unhook")
         /\ enabled /\ ~enabled' => owner = t
         /\ At(t, "expose")' => /\ enabled' /\ ~hooksOn' /\ on'[t] = on[t]
                                /\ At(t, "expose") \/ installs' = installs + 1
  BY BoundAssumption, ThreadAssumption, <1>16 DEF MutationBegin, TypeOK,
     OneManager, Managing, ListFits, PC, Returns, Goto, At, flags, rolling,
     world, list, call, report, faults
<1>17. CASE BeforeMutation(t)
  BY BoundAssumption, ThreadAssumption, <1>17 DEF BeforeMutation, Call,
     TypeOK, OneManager, Managing, ListFits, PC, Returns, Goto, At, flags,
     rolling, world, list, op, call, bounds, report, faults
<1>18. CASE Count(t)
  BY BoundAssumption, ThreadAssumption, <1>18 DEF Count, TypeOK, OneManager,
     Managing, ListFits, PC, Returns, Goto, At, flags, rolling, world, list,
     call, bounds, report, faults
<1>19. CASE Mutate(t)
  BY BoundAssumption, ThreadAssumption, <1>19 DEF Mutate, TypeOK, OneManager,
     Managing, ListFits, PC, Returns, Goto, At, flags, rolling, world, op,
     call, bounds, report, faults
<1>20. CASE Slice(t)
  BY BoundAssumption, ThreadAssumption, <1>20 DEF Slice, TypeOK, OneManager,
     Managing, ListFits, PC, Returns, Goto, At, flags, rolling, world, list,
     call, bounds, report, faults
<1>21. CASE Notify(t)
  BY BoundAssumption, ThreadAssumption, <1>21 DEF Notify, EndOp, TypeOK,
     OneManager, Managing, ListFits, PC, Returns, Goto, At, flags, rolling,
     world, list, op, call, bounds, report, faults
<1>22. CASE Record(t)
  BY BoundAssumption, ThreadAssumption, <1>22 DEF Record, Call, EndOp, TypeOK,
     OneManager, Managing, ListFits, PC, Returns, Goto, At, flags, rolling,
     world, call, bounds, report, faults
<1>23. QED
  BY <1>1, <1>2, <1>3, <1>4, <1>5, <1>6, <1>7, <1>8, <1>9, <1>10, <1>11,
     <1>12, <1>13, <1>14, <1>15, <1>16, <1>17, <1>18, <1>19, <1>20, <1>21,
     <1>22 DEF Step

\* Nobody switches monitoring on while a list is exposed.
LEMMA StaysOff ==
  ASSUME TypeOK, OneManager, ListFits, NEW t \in Threads, Step(t), hooksOn,
         enabled'
  PROVE  enabled
<1>1. installs' # installs => ~hooksOn
  BY ListMoves
<1>2. \/ UNCHANGED enabled
      \/ InstallBegin(t)
      \/ ~enabled'
  BY DEF Step, Observe, Snapshot, SnapshotFails, SnapshotInterrupted, Publish,
     InstallBegin, ExposeHooks, EnableCache, InstallEnd, UninstallBegin, Disable,
     Unhook, Forget, ReportBegin, ReportCopy, MutationBegin, BeforeMutation,
     Count, Mutate, Slice, Notify, Record, flags
<1>3. InstallBegin(t) => installs' # installs
  BY BoundAssumption DEF InstallBegin, TypeOK
<1>4. QED
  BY <1>1, <1>2, <1>3

\* While a list is exposed only a mutation changes it, and one that falls into
\* the steps of another is noticed.
LEMMA ContentsMove ==
  ASSUME TypeOK, ListFits, LocalsFit, NEW t \in Threads, Step(t)
  PROVE  hooksOn /\ hooksOn' =>
           /\ live' = live /\ first' = first /\ (blurred => blurred')
           /\ \/ hooks' = hooks
              \/ /\ At(t, "mutate") /\ on[t] = live
                 /\ ~blurred' => \A u \in Threads \ {t} : ~HalfDone(u)
<1>1. CASE Observe(t)
  <2>1. pc' = [pc EXCEPT ![t] = next[t]] \/ pc' = [pc EXCEPT ![t] = "snapshot"]
    BY BoundAssumption, <1>1 DEF Observe, Return, Goto
  <2>2. UNCHANGED <<hooksOn, live, hooks, recorded, first, blurred, on, kind,
                    took>>
    BY BoundAssumption, <1>1 DEF Observe, flags, list, op
  <2>3. /\ next[t] \in Returns /\ pc \in [Threads -> PC]
        /\ (At(t, "observe") \/ At(t, "snapshot") \/ At(t, "publish"))
    BY BoundAssumption, <1>1 DEF TypeOK, Observe
  <2>4. QED
    BY <2>1, <2>2, <2>3, TypeOK DEF TypeOK, At, Returns, Owed
<1>2. CASE Snapshot(t)
  BY BoundAssumption, <1>2 DEF Snapshot, TypeOK, ListFits, LocalsFit, PC,
     Goto, At, flags, rolling, world, list, op, bounds, report, faults
<1>3. CASE SnapshotFails(t)
  <2>1. pc' = [pc EXCEPT ![t] = next[t]] \/ pc' = [pc EXCEPT ![t] = "snapshot"]
    BY BoundAssumption, <1>3 DEF SnapshotFails, Return, Goto
  <2>2. UNCHANGED <<hooksOn, live, hooks, recorded, first, blurred, on, kind,
                    took>>
    BY BoundAssumption, <1>3 DEF SnapshotFails, flags, list, op
  <2>3. /\ next[t] \in Returns /\ pc \in [Threads -> PC]
        /\ (At(t, "observe") \/ At(t, "snapshot") \/ At(t, "publish"))
    BY BoundAssumption, <1>3 DEF TypeOK, SnapshotFails
  <2>4. QED
    BY <2>1, <2>2, <2>3, TypeOK DEF TypeOK, At, Returns, Owed
<1>4. CASE SnapshotInterrupted(t)
  BY BoundAssumption, <1>4 DEF SnapshotInterrupted, Abandon, EndOp, EndReport,
     EndCall, TypeOK, ListFits, LocalsFit, PC, Goto, At, rolling, world, list,
     bounds
<1>5. CASE Publish(t)
  <2>1. pc' = [pc EXCEPT ![t] = next[t]] \/ pc' = [pc EXCEPT ![t] = "snapshot"]
    BY BoundAssumption, <1>5 DEF Publish, Return, Goto
  <2>2. UNCHANGED <<hooksOn, live, hooks, recorded, first, blurred, on, kind,
                    took>>
    BY BoundAssumption, <1>5 DEF Publish, flags, list, op
  <2>3. /\ next[t] \in Returns /\ pc \in [Threads -> PC]
        /\ (At(t, "observe") \/ At(t, "snapshot") \/ At(t, "publish"))
    BY BoundAssumption, <1>5 DEF TypeOK, Publish
  <2>4. QED
    BY <2>1, <2>2, <2>3, TypeOK DEF TypeOK, At, Returns, Owed
<1>6. CASE InstallBegin(t)
  BY BoundAssumption, <1>6 DEF InstallBegin, TypeOK, ListFits, LocalsFit, PC,
     Goto, At, rolling, world, list, op, call, report, faults
<1>7. CASE ExposeHooks(t)
  BY BoundAssumption, <1>7 DEF ExposeHooks, TypeOK, ListFits, LocalsFit, PC,
     Goto, At, rolling, world, op, call, bounds, report, faults
<1>8. CASE EnableCache(t)
  BY BoundAssumption, <1>8 DEF EnableCache, Call, TypeOK, ListFits, LocalsFit,
     PC, Goto, At, flags, world, list, op, bounds, report, faults
<1>9. CASE InstallEnd(t)
  BY BoundAssumption, <1>9 DEF InstallEnd, TypeOK, ListFits, LocalsFit, PC,
     Goto, At, rolling, world, list, op, call, bounds, report, faults
<1>10. CASE UninstallBegin(t)
  BY BoundAssumption, <1>10 DEF UninstallBegin, Call, TypeOK, ListFits,
     LocalsFit, PC, Goto, At, rolling, world, list, op, bounds, report, faults
<1>11. CASE Disable(t)
  BY BoundAssumption, <1>11 DEF Disable, TypeOK, ListFits, LocalsFit, PC,
     Goto, At, rolling, world, list, op, call, bounds, report, faults
<1>12. CASE Unhook(t)
  BY BoundAssumption, <1>12 DEF Unhook, TypeOK, ListFits, LocalsFit, PC, Goto,
     At, rolling, world, list, op, call, bounds, report, faults
<1>13. CASE Forget(t)
  BY BoundAssumption, <1>13 DEF Forget, TypeOK, ListFits, LocalsFit, PC, Goto,
     At, world, list, op, call, bounds, report
<1>14. CASE ReportBegin(t)
  BY BoundAssumption, <1>14 DEF ReportBegin, Call, TypeOK, ListFits,
     LocalsFit, PC, Goto, At, flags, rolling, world, list, op, bounds, faults
<1>15. CASE ReportCopy(t)
  BY BoundAssumption, <1>15 DEF ReportCopy, EndReport, TypeOK, ListFits,
     LocalsFit, PC, Goto, At, flags, rolling, world, list, op, call, bounds,
     faults
<1>16. ASSUME NEW how \in Kinds, MutationBegin(t, how) PROVE
         hooksOn /\ hooksOn' =>
           /\ live' = live /\ first' = first /\ (blurred => blurred')
           /\ \/ hooks' = hooks
              \/ /\ At(t, "mutate") /\ on[t] = live
                 /\ ~blurred' => \A u \in Threads \ {t} : ~HalfDone(u)
  BY BoundAssumption, <1>16 DEF MutationBegin, TypeOK, ListFits, LocalsFit,
     PC, Goto, At, flags, rolling, world, list, call, report, faults
<1>17. CASE BeforeMutation(t)
  BY BoundAssumption, <1>17 DEF BeforeMutation, Call, TypeOK, ListFits,
     LocalsFit, PC, Goto, At, flags, rolling, world, list, op, call, bounds,
     report, faults
<1>18. CASE Count(t)
  BY BoundAssumption, <1>18 DEF Count, TypeOK, ListFits, LocalsFit, PC, Goto,
     At, flags, rolling, world, list, call, bounds, report, faults
<1>19. CASE Mutate(t)
  BY BoundAssumption, <1>19 DEF Mutate, TypeOK, ListFits, LocalsFit, PC, Goto,
     At, flags, rolling, world, op, call, bounds, report, faults
<1>20. CASE Slice(t)
  BY BoundAssumption, <1>20 DEF Slice, TypeOK, ListFits, LocalsFit, PC, Goto,
     At, flags, rolling, world, list, call, bounds, report, faults
<1>21. CASE Notify(t)
  BY BoundAssumption, <1>21 DEF Notify, EndOp, TypeOK, ListFits, LocalsFit,
     PC, Goto, At, flags, rolling, world, list, op, call, bounds, report,
     faults
<1>22. CASE Record(t)
  BY BoundAssumption, <1>22 DEF Record, Call, EndOp, TypeOK, ListFits,
     LocalsFit, PC, Goto, At, flags, rolling, world, call, bounds, report,
     faults
<1>23. QED
  BY <1>1, <1>2, <1>3, <1>4, <1>5, <1>6, <1>7, <1>8, <1>9, <1>10, <1>11,
     <1>12, <1>13, <1>14, <1>15, <1>16, <1>17, <1>18, <1>19, <1>20, <1>21,
     <1>22, Zenon DEF Step
\* A mutation's own steps keep its locals true.
LEMMA LocalsMove ==
  ASSUME TypeOK, ListFits, LocalsFit, NEW t \in Threads, Step(t)
  PROVE  hooksOn /\ hooksOn' /\ ~blurred' /\ on'[t] = live' =>
           /\ At(t, "mutate")' =>
                \/ kind'[t] = "append" /\ took'[t] = 1
                \/ kind'[t] = "extend" /\ took'[t] = hooks'
                \/ kind'[t] = "clear" /\ took'[t] = -hooks'
           /\ At(t, "slice")' => kind'[t] = "extend" 
<1>1. CASE Observe(t)
  <2>1. pc' = [pc EXCEPT ![t] = next[t]] \/ pc' = [pc EXCEPT ![t] = "snapshot"]
    BY BoundAssumption, <1>1 DEF Observe, Return, Goto
  <2>2. UNCHANGED <<hooksOn, live, hooks, recorded, first, blurred, on, kind,
                    took>>
    BY BoundAssumption, <1>1 DEF Observe, flags, list, op
  <2>3. /\ next[t] \in Returns /\ pc \in [Threads -> PC]
        /\ (At(t, "observe") \/ At(t, "snapshot") \/ At(t, "publish"))
    BY BoundAssumption, <1>1 DEF TypeOK, Observe
  <2>4. QED
    BY <2>1, <2>2, <2>3, TypeOK DEF TypeOK, At, Returns, Owed
<1>2. CASE Snapshot(t)
  BY BoundAssumption, <1>2 DEF Snapshot, TypeOK, ListFits, LocalsFit, PC,
     Kinds, Goto, At, flags, rolling, world, list, op, bounds, report, faults
<1>3. CASE SnapshotFails(t)
  <2>1. pc' = [pc EXCEPT ![t] = next[t]] \/ pc' = [pc EXCEPT ![t] = "snapshot"]
    BY BoundAssumption, <1>3 DEF SnapshotFails, Return, Goto
  <2>2. UNCHANGED <<hooksOn, live, hooks, recorded, first, blurred, on, kind,
                    took>>
    BY BoundAssumption, <1>3 DEF SnapshotFails, flags, list, op
  <2>3. /\ next[t] \in Returns /\ pc \in [Threads -> PC]
        /\ (At(t, "observe") \/ At(t, "snapshot") \/ At(t, "publish"))
    BY BoundAssumption, <1>3 DEF TypeOK, SnapshotFails
  <2>4. QED
    BY <2>1, <2>2, <2>3, TypeOK DEF TypeOK, At, Returns, Owed
<1>4. CASE SnapshotInterrupted(t)
  BY BoundAssumption, <1>4 DEF SnapshotInterrupted, Abandon, EndOp, EndReport,
     EndCall, TypeOK, ListFits, LocalsFit, PC, Kinds, Goto, At, rolling,
     world, list, bounds
<1>5. CASE Publish(t)
  <2>1. pc' = [pc EXCEPT ![t] = next[t]] \/ pc' = [pc EXCEPT ![t] = "snapshot"]
    BY BoundAssumption, <1>5 DEF Publish, Return, Goto
  <2>2. UNCHANGED <<hooksOn, live, hooks, recorded, first, blurred, on, kind,
                    took>>
    BY BoundAssumption, <1>5 DEF Publish, flags, list, op
  <2>3. /\ next[t] \in Returns /\ pc \in [Threads -> PC]
        /\ (At(t, "observe") \/ At(t, "snapshot") \/ At(t, "publish"))
    BY BoundAssumption, <1>5 DEF TypeOK, Publish
  <2>4. QED
    BY <2>1, <2>2, <2>3, TypeOK DEF TypeOK, At, Returns, Owed
<1>6. CASE InstallBegin(t)
  BY BoundAssumption, <1>6 DEF InstallBegin, TypeOK, ListFits, LocalsFit, PC,
     Kinds, Goto, At, rolling, world, list, op, call, report, faults
<1>7. CASE ExposeHooks(t)
  BY BoundAssumption, <1>7 DEF ExposeHooks, TypeOK, ListFits, LocalsFit, PC,
     Kinds, Goto, At, rolling, world, op, call, bounds, report, faults
<1>8. CASE EnableCache(t)
  BY BoundAssumption, <1>8 DEF EnableCache, Call, TypeOK, ListFits, LocalsFit,
     PC, Kinds, Goto, At, flags, world, list, op, bounds, report, faults
<1>9. CASE InstallEnd(t)
  BY BoundAssumption, <1>9 DEF InstallEnd, TypeOK, ListFits, LocalsFit, PC,
     Kinds, Goto, At, rolling, world, list, op, call, bounds, report, faults
<1>10. CASE UninstallBegin(t)
  BY BoundAssumption, <1>10 DEF UninstallBegin, Call, TypeOK, ListFits,
     LocalsFit, PC, Kinds, Goto, At, rolling, world, list, op, bounds, report,
     faults
<1>11. CASE Disable(t)
  BY BoundAssumption, <1>11 DEF Disable, TypeOK, ListFits, LocalsFit, PC,
     Kinds, Goto, At, rolling, world, list, op, call, bounds, report, faults
<1>12. CASE Unhook(t)
  BY BoundAssumption, <1>12 DEF Unhook, TypeOK, ListFits, LocalsFit, PC,
     Kinds, Goto, At, rolling, world, list, op, call, bounds, report, faults
<1>13. CASE Forget(t)
  BY BoundAssumption, <1>13 DEF Forget, TypeOK, ListFits, LocalsFit, PC,
     Kinds, Goto, At, world, list, op, call, bounds, report
<1>14. CASE ReportBegin(t)
  BY BoundAssumption, <1>14 DEF ReportBegin, Call, TypeOK, ListFits,
     LocalsFit, PC, Kinds, Goto, At, flags, rolling, world, list, op, bounds,
     faults
<1>15. CASE ReportCopy(t)
  BY BoundAssumption, <1>15 DEF ReportCopy, EndReport, TypeOK, ListFits,
     LocalsFit, PC, Kinds, Goto, At, flags, rolling, world, list, op, call,
     bounds, faults
<1>16. ASSUME NEW how \in Kinds, MutationBegin(t, how) PROVE
         hooksOn /\ hooksOn' /\ ~blurred' /\ on'[t] = live' =>
           /\ At(t, "mutate")' =>
                \/ kind'[t] = "append" /\ took'[t] = 1
                \/ kind'[t] = "extend" /\ took'[t] = hooks'
                \/ kind'[t] = "clear" /\ took'[t] = -hooks'
           /\ At(t, "slice")' => kind'[t] = "extend" 
  BY BoundAssumption, <1>16 DEF MutationBegin, TypeOK, ListFits, LocalsFit,
     PC, Kinds, Goto, At, flags, rolling, world, list, call, report, faults
<1>17. CASE BeforeMutation(t)
  BY BoundAssumption, <1>17 DEF BeforeMutation, Call, TypeOK, ListFits,
     LocalsFit, PC, Kinds, Goto, At, flags, rolling, world, list, op, call,
     bounds, report, faults
<1>18. CASE Count(t)
  BY BoundAssumption, <1>18 DEF Count, TypeOK, ListFits, LocalsFit, PC, Kinds,
     Goto, At, flags, rolling, world, list, call, bounds, report, faults
<1>19. CASE Mutate(t)
  BY BoundAssumption, <1>19 DEF Mutate, TypeOK, ListFits, LocalsFit, PC,
     Kinds, Goto, At, flags, rolling, world, op, call, bounds, report, faults
<1>20. CASE Slice(t)
  BY BoundAssumption, <1>20 DEF Slice, TypeOK, ListFits, LocalsFit, PC, Kinds,
     Goto, At, flags, rolling, world, list, call, bounds, report, faults
<1>21. CASE Notify(t)
  BY BoundAssumption, <1>21 DEF Notify, EndOp, TypeOK, ListFits, LocalsFit,
     PC, Kinds, Goto, At, flags, rolling, world, list, op, call, bounds,
     report, faults
<1>22. CASE Record(t)
  BY BoundAssumption, <1>22 DEF Record, Call, EndOp, TypeOK, ListFits,
     LocalsFit, PC, Kinds, Goto, At, flags, rolling, world, call, bounds,
     report, faults
<1>23. QED
  BY <1>1, <1>2, <1>3, <1>4, <1>5, <1>6, <1>7, <1>8, <1>9, <1>10, <1>11,
     <1>12, <1>13, <1>14, <1>15, <1>16, <1>17, <1>18, <1>19, <1>20, <1>21,
     <1>22, Zenon DEF Step
\* A step moves the records and what its thread owes them as it moves the list.
LEMMA DebtsMove ==
  ASSUME TypeOK, ListFits, LocalsFit, NEW t \in Threads, Step(t)
  PROVE  enabled /\ hooksOn /\ hooksOn' /\ ~blurred' =>
           recorded' + Owed'[t] - hooks' = recorded + Owed[t] - hooks
<1>1. CASE Observe(t)
  <2>1. pc' = [pc EXCEPT ![t] = next[t]] \/ pc' = [pc EXCEPT ![t] = "snapshot"]
    BY BoundAssumption, <1>1 DEF Observe, Return, Goto
  <2>2. UNCHANGED <<hooksOn, live, hooks, recorded, first, blurred, on, kind,
                    took>>
    BY BoundAssumption, <1>1 DEF Observe, flags, list, op
  <2>3. /\ next[t] \in Returns /\ pc \in [Threads -> PC]
        /\ (At(t, "observe") \/ At(t, "snapshot") \/ At(t, "publish"))
    BY BoundAssumption, <1>1 DEF TypeOK, Observe
  <2>4. QED
    BY <2>1, <2>2, <2>3, TypeOK DEF TypeOK, At, Returns, Owed
<1>2. CASE Snapshot(t)
  BY BoundAssumption, <1>2 DEF Snapshot, TypeOK, ListFits, LocalsFit, PC,
     Owed, Kinds, Landed, Watched, Goto, At, flags, rolling, world, list, op,
     bounds, report, faults
<1>3. CASE SnapshotFails(t)
  <2>1. pc' = [pc EXCEPT ![t] = next[t]] \/ pc' = [pc EXCEPT ![t] = "snapshot"]
    BY BoundAssumption, <1>3 DEF SnapshotFails, Return, Goto
  <2>2. UNCHANGED <<hooksOn, live, hooks, recorded, first, blurred, on, kind,
                    took>>
    BY BoundAssumption, <1>3 DEF SnapshotFails, flags, list, op
  <2>3. /\ next[t] \in Returns /\ pc \in [Threads -> PC]
        /\ (At(t, "observe") \/ At(t, "snapshot") \/ At(t, "publish"))
    BY BoundAssumption, <1>3 DEF TypeOK, SnapshotFails
  <2>4. QED
    BY <2>1, <2>2, <2>3, TypeOK DEF TypeOK, At, Returns, Owed
<1>4. CASE SnapshotInterrupted(t)
  BY BoundAssumption, <1>4 DEF SnapshotInterrupted, Abandon, EndOp, EndReport,
     EndCall, TypeOK, ListFits, LocalsFit, PC, Owed, Kinds, Landed, Watched,
     Goto, At, rolling, world, list, bounds
<1>5. CASE Publish(t)
  <2>1. pc' = [pc EXCEPT ![t] = next[t]] \/ pc' = [pc EXCEPT ![t] = "snapshot"]
    BY BoundAssumption, <1>5 DEF Publish, Return, Goto
  <2>2. UNCHANGED <<hooksOn, live, hooks, recorded, first, blurred, on, kind,
                    took>>
    BY BoundAssumption, <1>5 DEF Publish, flags, list, op
  <2>3. /\ next[t] \in Returns /\ pc \in [Threads -> PC]
        /\ (At(t, "observe") \/ At(t, "snapshot") \/ At(t, "publish"))
    BY BoundAssumption, <1>5 DEF TypeOK, Publish
  <2>4. QED
    BY <2>1, <2>2, <2>3, TypeOK DEF TypeOK, At, Returns, Owed
<1>6. CASE InstallBegin(t)
  BY BoundAssumption, <1>6 DEF InstallBegin, TypeOK, ListFits, LocalsFit, PC,
     Owed, Kinds, Landed, Watched, Goto, At, rolling, world, list, op, call,
     report, faults
<1>7. CASE ExposeHooks(t)
  BY BoundAssumption, <1>7 DEF ExposeHooks, TypeOK, ListFits, LocalsFit, PC,
     Owed, Kinds, Landed, Watched, Goto, At, rolling, world, op, call, bounds,
     report, faults
<1>8. CASE EnableCache(t)
  BY BoundAssumption, <1>8 DEF EnableCache, Call, TypeOK, ListFits, LocalsFit,
     PC, Owed, Kinds, Landed, Watched, Goto, At, flags, world, list, op,
     bounds, report, faults
<1>9. CASE InstallEnd(t)
  BY BoundAssumption, <1>9 DEF InstallEnd, TypeOK, ListFits, LocalsFit, PC,
     Owed, Kinds, Landed, Watched, Goto, At, rolling, world, list, op, call,
     bounds, report, faults
<1>10. CASE UninstallBegin(t)
  BY BoundAssumption, <1>10 DEF UninstallBegin, Call, TypeOK, ListFits,
     LocalsFit, PC, Owed, Kinds, Landed, Watched, Goto, At, rolling, world,
     list, op, bounds, report, faults
<1>11. CASE Disable(t)
  BY BoundAssumption, <1>11 DEF Disable, TypeOK, ListFits, LocalsFit, PC,
     Owed, Kinds, Landed, Watched, Goto, At, rolling, world, list, op, call,
     bounds, report, faults
<1>12. CASE Unhook(t)
  BY BoundAssumption, <1>12 DEF Unhook, TypeOK, ListFits, LocalsFit, PC, Owed,
     Kinds, Landed, Watched, Goto, At, rolling, world, list, op, call, bounds,
     report, faults
<1>13. CASE Forget(t)
  BY BoundAssumption, <1>13 DEF Forget, TypeOK, ListFits, LocalsFit, PC, Owed,
     Kinds, Landed, Watched, Goto, At, world, list, op, call, bounds, report
<1>14. CASE ReportBegin(t)
  BY BoundAssumption, <1>14 DEF ReportBegin, Call, TypeOK, ListFits,
     LocalsFit, PC, Owed, Kinds, Landed, Watched, Goto, At, flags, rolling,
     world, list, op, bounds, faults
<1>15. CASE ReportCopy(t)
  BY BoundAssumption, <1>15 DEF ReportCopy, EndReport, TypeOK, ListFits,
     LocalsFit, PC, Owed, Kinds, Landed, Watched, Goto, At, flags, rolling,
     world, list, op, call, bounds, faults
<1>16. ASSUME NEW how \in Kinds, MutationBegin(t, how) PROVE
         enabled /\ hooksOn /\ hooksOn' /\ ~blurred' =>
           recorded' + Owed'[t] - hooks' = recorded + Owed[t] - hooks
  BY BoundAssumption, <1>16 DEF MutationBegin, TypeOK, ListFits, LocalsFit,
     PC, Owed, Kinds, Landed, Watched, Goto, At, flags, rolling, world, list,
     call, report, faults
<1>17. CASE BeforeMutation(t)
  BY SMTT(30), BoundAssumption, <1>17 DEF BeforeMutation, Call, TypeOK, ListFits,
     LocalsFit, PC, Owed, Kinds, Landed, Watched, Goto, At, flags, rolling,
     world, list, op, call, bounds, report, faults
<1>18. CASE Count(t)
  BY BoundAssumption, <1>18 DEF Count, TypeOK, ListFits, LocalsFit, PC, Owed,
     Kinds, Landed, Watched, Goto, At, flags, rolling, world, list, call,
     bounds, report, faults
<1>19. CASE Mutate(t)
  <2> SUFFICES ASSUME enabled, hooksOn, hooksOn', ~blurred'
               PROVE  recorded' + Owed'[t] - hooks' = recorded + Owed[t] - hooks
    OBVIOUS
  <2>1. /\ UNCHANGED <<live, recorded, on, took, kind>>
        /\ At(t, "mutate") /\ ~blurred
        /\ pc' = [pc EXCEPT ![t] = IF kind[t] = "extend" THEN "slice"
                                     ELSE "notify"]
    BY BoundAssumption, <1>19 DEF Mutate, flags, op, Goto
  <2>2. /\ recorded \in Int /\ took[t] \in Int /\ hooks \in Nat /\ hooks' \in Int
        /\ pc'[t] = IF kind[t] = "extend" THEN "slice" ELSE "notify"
    BY BoundAssumption, <1>19, <2>1 DEF TypeOK, Mutate, Landed
  <2>3. /\ Owed[t] = 0
        /\ Owed'[t] = IF on[t] # live THEN 0
                      ELSE IF kind[t] = "extend" THEN hooks' - took[t]
                      ELSE took[t]
    BY <2>1, <2>2 DEF Owed, At
  <2>4. CASE on[t] # live
    BY BoundAssumption, <1>19, <2>1, <2>2, <2>3, <2>4 DEF Mutate
  <2>5. CASE on[t] = live
    <3>1. \/ kind[t] = "append" /\ took[t] = 1
          \/ kind[t] = "extend" /\ took[t] = hooks
          \/ kind[t] = "clear" /\ took[t] = -hooks
      BY <2>1, <2>5 DEF LocalsFit
    <3>2. /\ kind[t] = "append" => hooks' = hooks + 1
          /\ kind[t] = "clear" => hooks' = 0
      BY BoundAssumption, <1>19, <2>5 DEF Mutate, Landed
    <3>3. QED
      BY <2>1, <2>2, <2>3, <2>5, <3>1, <3>2
  <2>6. QED
    BY <2>4, <2>5
<1>20. CASE Slice(t)
  BY BoundAssumption, <1>20 DEF Slice, TypeOK, ListFits, LocalsFit, PC, Owed,
     Kinds, Landed, Watched, Goto, At, flags, rolling, world, list, call,
     bounds, report, faults
<1>21. CASE Notify(t)
  BY BoundAssumption, <1>21 DEF Notify, EndOp, TypeOK, ListFits, LocalsFit,
     PC, Owed, Kinds, Landed, Watched, Goto, At, flags, rolling, world, list,
     op, call, bounds, report, faults
<1>22. CASE Record(t)
  <2> SUFFICES ASSUME enabled, hooksOn, hooksOn', ~blurred'
               PROVE  recorded' + Owed'[t] - hooks' = recorded + Owed[t] - hooks
    OBVIOUS
  <2>1. /\ UNCHANGED <<live, hooks>> /\ At(t, "record")
        /\ recorded' = recorded + took[t] /\ on[t] = live
        /\ on' = [on EXCEPT ![t] = 0] /\ took' = [took EXCEPT ![t] = 0]
    BY BoundAssumption, <1>22 DEF Record, flags, EndOp
  <2>2. /\ recorded \in Int /\ took[t] \in Int /\ hooks \in Nat /\ live # 0
        /\ on'[t] = 0 /\ live \in Int
    BY <2>1, BoundAssumption DEF TypeOK, ListFits
  <2>3. Owed[t] = took[t]
    BY <2>1 DEF Owed, At
  <2>4. Owed'[t] = 0
    BY <2>1, <2>2 DEF Owed
  <2>5. QED
    BY <2>1, <2>2, <2>3, <2>4
<1>23. QED
  BY <1>1, <1>2, <1>3, <1>4, <1>5, <1>6, <1>7, <1>8, <1>9, <1>10, <1>11,
     <1>12, <1>13, <1>14, <1>15, <1>16, <1>17, <1>18, <1>19, <1>20, <1>21,
     <1>22, Zenon DEF Step

\* A list belongs to the installation that exposed it.
LEMMA ListFitsStep ==
  ASSUME TypeOK, TypeOK', OneManager, ListFits, [Next]_vars PROVE ListFits'
<1>1. CASE UNCHANGED vars
  BY <1>1 DEF ListFits, At, vars, flags, op, bounds
<1>2. CASE CacheChanges
  BY <1>2 DEF CacheChanges, ListFits, At, flags, op, bounds
<1>3. ASSUME NEW t \in Threads, Step(t) PROVE ListFits'
  <2>1. \A u \in Threads \ {t} : pc'[u] = pc[u] /\ on'[u] = on[u]
    BY <1>3, OwnLocals
  <2>2. /\ live' = 0 <=> ~hooksOn'
        /\ live' <= installs' /\ on'[t] <= installs' /\ installs <= installs'
        /\ hooksOn' => hooksOn \/ At(t, "expose")
        /\ on'[t] = on[t] \/ on'[t] = 0 \/ hooksOn
    BY <1>3, ListMoves
  <2>3. /\ hooksOn' /\ ~enabled' /\ ~At(t, "unhook")'
             => hooksOn /\ ~enabled /\ ~At(t, "unhook")
        /\ enabled /\ ~enabled' => owner = t
        /\ At(t, "expose")' => /\ enabled' /\ ~hooksOn' /\ on'[t] = on[t]
                               /\ At(t, "expose") \/ installs' = installs + 1
    BY <1>3, SwitchMoves
  <2>4. /\ installs \in Nat /\ installs' \in Nat
        /\ \A u \in Threads : on[u] \in Nat /\ on'[u] \in Nat
    BY BoundAssumption DEF TypeOK
  <2>5. \A u \in Threads : on'[u] <= installs'
    BY <2>1, <2>2, <2>4 DEF ListFits
  <2>6. hooksOn' /\ ~enabled' => \E u \in Threads : At(u, "unhook")'
    BY <2>1, <2>3 DEF ListFits, At
  <2>7. ASSUME NEW u \in Threads, At(u, "expose")'
        PROVE  enabled' /\ ~hooksOn' /\ \A w \in Threads : on'[w] < installs'
    <3>1. CASE u = t
      BY <2>1, <2>2, <2>3, <2>4, <2>7, <3>1 DEF ListFits
    <3>2. CASE u # t
      <4>1. At(u, "expose")
        BY <2>1, <2>7, <3>2 DEF At
      <4>2. /\ enabled /\ ~hooksOn /\ \A w \in Threads : on[w] < installs
            /\ owner = u
        BY <4>1 DEF ListFits, OneManager, Managing, At
      <4>3. ~At(t, "expose")
        BY <3>2, <4>2 DEF OneManager, Managing, At
      <4>4. QED
        BY <2>1, <2>2, <2>3, <2>4, <3>2, <4>2, <4>3
    <3>3. QED
      BY <3>1, <3>2
  <2>8. QED
    BY <2>2, <2>5, <2>6, <2>7 DEF ListFits
<1>4. QED
  BY <1>1, <1>2, <1>3 DEF Next

\* An exposed list is new: no mutation is of it.
LEMMA ExposedIsNew ==
  ASSUME TypeOK, ListFits, NEW t \in Threads, Step(t), ~hooksOn, hooksOn'
  PROVE  /\ \A u \in Threads : on'[u] # live'
         /\ hooks' = first' + recorded' /\ first' \in Nat
<1>1. \/ At(t, "expose") /\ ExposeHooks(t)
      \/ ~hooksOn'
  BY DEF Step, Observe, Snapshot, SnapshotFails, SnapshotInterrupted, Publish,
     InstallBegin, ExposeHooks, EnableCache, InstallEnd, UninstallBegin, Disable,
     Unhook, Forget, ReportBegin, ReportCopy, MutationBegin, BeforeMutation,
     Count, Mutate, Slice, Notify, Record, flags
<1>2. /\ live' = installs /\ on' = on /\ hooks' = hooks
      /\ first' = hooks /\ recorded' = 0 /\ At(t, "expose")
  BY <1>1 DEF ExposeHooks, op
<1>3. \A u \in Threads : on[u] < installs /\ on[u] \in Nat /\ installs \in Nat
  BY <1>2, BoundAssumption DEF TypeOK, ListFits
<1>4. QED
  BY <1>2, <1>3 DEF TypeOK

\* The locals of a mutation stay true of its list, or the list is blurred.
LEMMA LocalsFitStep ==
  ASSUME TypeOK, ListFits, LocalsFit, [Next]_vars PROVE LocalsFit'
<1>1. CASE UNCHANGED vars
  BY <1>1 DEF LocalsFit, At, vars, flags, op, list
<1>2. CASE CacheChanges
  BY <1>2 DEF CacheChanges, LocalsFit, At, flags, op, list
<1>3. ASSUME NEW t \in Threads, Step(t) PROVE LocalsFit'
  <2> SUFFICES ASSUME hooksOn', ~blurred', NEW u \in Threads, on'[u] = live'
               PROVE  /\ At(u, "mutate")' =>
                           \/ kind'[u] = "append" /\ took'[u] = 1
                           \/ kind'[u] = "extend" /\ took'[u] = hooks'
                           \/ kind'[u] = "clear" /\ took'[u] = -hooks'
                      /\ At(u, "slice")' => kind'[u] = "extend"
    BY DEF LocalsFit
  <2>1. CASE ~hooksOn
    BY <1>3, <2>1, ExposedIsNew
  <2>2. CASE hooksOn /\ u = t
    BY <1>3, <2>2, LocalsMove
  <2>3. CASE hooksOn /\ u # t
    <3>1. /\ pc'[u] = pc[u] /\ on'[u] = on[u] /\ kind'[u] = kind[u]
          /\ took'[u] = took[u]
      BY <1>3, <2>3, OwnLocals
    <3>2. /\ live' = live /\ ~blurred
          /\ hooks' = hooks \/ ~HalfDone(u)
      BY <1>3, <2>3, ContentsMove
    <3>3. /\ At(u, "mutate") =>
                \/ kind[u] = "append" /\ took[u] = 1
                \/ kind[u] = "extend" /\ took[u] = hooks
                \/ kind[u] = "clear" /\ took[u] = -hooks
          /\ At(u, "slice") => kind[u] = "extend"
      BY <2>3, <3>1, <3>2 DEF LocalsFit
    <3>4. QED
      BY <3>1, <3>2, <3>3 DEF At, HalfDone
  <2>4. QED
    BY <2>1, <2>2, <2>3
<1>4. QED
  BY <1>1, <1>2, <1>3 DEF Next

\* What other threads owe is what it was.
LEMMA DebtsOfOthers ==
  ASSUME TypeOK, ListFits, LocalsFit, NEW t \in Threads, Step(t),
         hooksOn, hooksOn', ~blurred', NEW u \in Threads \ {t}
  PROVE  Owed'[u] = Owed[u]
<1>1. pc'[u] = pc[u] /\ on'[u] = on[u] /\ took'[u] = took[u]
  BY OwnLocals
<1>2. live' = live /\ ~blurred /\ (hooks' = hooks \/ ~HalfDone(u))
  BY ContentsMove
<1>3. on[u] = live /\ At(u, "slice") => hooks' = hooks
  BY <1>2 DEF LocalsFit, HalfDone, At
<1>4. QED
  BY <1>1, <1>2, <1>3 DEF Owed, At

\* A balance is kept by a step that moves one thread's debt as it moves the
\* records and the list.
LEMMA BalanceMoves ==
  ASSUME NEW f \in [Threads -> Int], NEW g \in [Threads -> Int],
         NEW t \in Threads, \A u \in Threads \ {t} : f[u] = g[u], Finite(f),
         NEW start \in Int, NEW sum \in Int, NEW newSum \in Int,
         NEW length \in Int, NEW newLength \in Int,
         start + sum + Total(f) = length,
         newSum + g[t] - newLength = sum + f[t] - length
  PROVE  Finite(g) /\ start + newSum + Total(g) = newLength
<1>1. /\ Finite(g) /\ Total(f) \in Int /\ Total(g) \in Int
      /\ Total(g) - Total(f) = g[t] - f[t]
  BY TotalChange
<1>2. f[t] \in Int /\ g[t] \in Int
  OBVIOUS
<1>3. QED
  BY <1>1, <1>2

\* The records and what is owed to them add up to the list at every moment.
LEMMA RecordsAddUpStep ==
  ASSUME TypeOK, TypeOK', ListFits, LocalsFit, OneManager, RecordsAddUp,
         [Next]_vars
  PROVE  RecordsAddUp'
<1>0. /\ first \in Nat /\ recorded \in Int /\ hooks \in Nat
      /\ took \in [Threads -> Int]
      /\ first' \in Nat /\ recorded' \in Int /\ hooks' \in Nat
      /\ took' \in [Threads -> Int]
  <2>1. /\ first \in Nat /\ recorded \in Int /\ hooks \in Nat
        /\ took \in [Threads -> Int]
    BY TypeOK DEF TypeOK
  <2>2. /\ first' \in Nat /\ recorded' \in Int /\ hooks' \in Nat
        /\ took' \in [Threads -> Int]
    BY TypeOK' DEF TypeOK
  <2>3. QED
    BY <2>1, <2>2
<1>1. CASE UNCHANGED vars \/ CacheChanges
  <2>1. /\ UNCHANGED <<enabled, hooksOn, live, hooks, recorded, first, blurred>>
        /\ UNCHANGED <<on, took, pc>>
    BY <1>1 DEF CacheChanges, vars, flags, list, op
  <2>2. Owed' = Owed
    BY <2>1 DEF Owed, At
  <2>3. QED
    BY <2>1, <2>2 DEF RecordsAddUp, Finite, Total, Units
<1>2. ASSUME NEW t \in Threads, Step(t) PROVE RecordsAddUp'
  <2> DEFINE old == Owed  new == Owed'
  <2> SUFFICES ASSUME enabled', hooksOn', ~blurred'
               PROVE  Finite(new) /\ first' + recorded' + Total(new) = hooks'
    BY DEF RecordsAddUp, Finite, Total, Units
  <2>0. /\ old \in [Threads -> Int] /\ new \in [Threads -> Int]
        /\ first \in Nat /\ recorded \in Int /\ hooks \in Nat
        /\ first' \in Nat /\ recorded' \in Int /\ hooks' \in Nat
    <3>1. /\ \A u \in Threads : old[u] \in Int
          /\ \A u \in Threads : new[u] \in Int
      BY <1>0 DEF Owed
    <3>2. old \in [Threads -> Int] /\ new \in [Threads -> Int]
      BY <3>1 DEF Owed
    <3>3. QED
      BY <1>0, <3>2
  <2>1. CASE ~hooksOn
    <3>1. /\ \A u \in Threads : on'[u] # live'
          /\ hooks' = first' + recorded'
      BY <1>2, <2>1, ExposedIsNew
    <3>2. \A u \in Threads : new[u] = 0
      BY <3>1 DEF Owed
    <3> HIDE DEF new
    <3>3. Finite(new) /\ Total(new) = 0
      BY <3>2, NothingOwed
    <3>4. QED
      BY <2>0, <3>1, <3>3
  <2>2. CASE hooksOn
    <3>1. first' = first /\ ~blurred
      BY <1>2, <2>2, ContentsMove
    <3>2. enabled
      BY <1>2, <2>2, StaysOff
    <3>3. recorded' + new[t] - hooks' = recorded + old[t] - hooks
      BY <1>2, <2>2, <3>2, DebtsMove
    <3>4. \A u \in Threads \ {t} : old[u] = new[u]
      BY <1>2, <2>2, DebtsOfOthers
    <3>5. Finite(old) /\ first + recorded + Total(old) = hooks
      BY <2>2, <3>1, <3>2 DEF RecordsAddUp
    <3> HIDE DEF old, new
    <3>6. QED
      BY <2>0, <3>1, <3>3, <3>4, <3>5, BalanceMoves
  <2>3. QED
    BY <2>1, <2>2
<1>3. QED
  BY <1>1, <1>2 DEF Next

\* Nothing is exposed at first.
LEMMA HooksInvInit == Init => HooksInv
<1> SUFFICES ASSUME Init PROVE HooksInv
  OBVIOUS
<1>1. OneManager /\ ListFits
  BY DEF Init, OneManager, Managing, ListFits, At
<1>2. LocalsFit /\ RecordsAddUp
  BY DEF Init, LocalsFit, RecordsAddUp
<1>3. QED
  BY <1>1, <1>2 DEF HooksInv

\* The parts together.
LEMMA HooksInvStep ==
  TypeOK /\ TypeOK' /\ HooksInv /\ [Next]_vars => HooksInv'
  BY OneManagerStep, ListFitsStep, LocalsFitStep, RecordsAddUpStep
  DEF HooksInv

\* The observer keeps its invariant: what is published has been taken, one
\* snapshot runs at a time and observation is closed exactly while it runs,
\* but for the two exceptions that SingleFlight names (observe, uninstall); and
\* the path-hook records with what is owed to them add up to the list.
THEOREM ObserverInvariant == Spec => []ObserverInv
  <1>1. Init => ObserverInv
    <2>1. Init => PublishesSnapshot /\ SingleFlight /\ ClosedIsIdle
      BY DEF Init, PublishesSnapshot, SingleFlight, ClosedIsIdle, Observing, At
    <2> QED
      BY <2>1, InitTypes, HooksInvInit DEF ObserverInv
  <1>2. ObserverInv /\ [Next]_vars => ObserverInv'
    BY TypeStep, FlightStep, HooksInvStep DEF ObserverInv, FlightInv
  <1> QED
    BY <1>1, <1>2, PTL DEF Spec

(***************************************************************************)
(* The importer-cache records.                                             *)
(***************************************************************************)
\* No other step touches the log or the latest snapshot.
LEMMA OnlyPublishWrites ==
  ASSUME NEW t \in Threads, Step(t), ~Publish(t)
  PROVE  UNCHANGED <<latest, initial, changes, base, seen>>
  BY DEF Step, Observe, Snapshot, SnapshotFails, SnapshotInterrupted,
         InstallBegin, ExposeHooks, EnableCache, InstallEnd, UninstallBegin,
         Disable, Unhook, Forget, ReportBegin, ReportCopy, MutationBegin,
         BeforeMutation, Count, Mutate, Slice, Notify, Record, rolling

\* Publish extends the chain of records at its end, or starts a new one.
LEMMA LogStep ==
  TypeOK /\ PublishesSnapshot /\ LogExplainsCache /\ [Next]_vars => LogExplainsCache'
  <1> SUFFICES ASSUME TypeOK, PublishesSnapshot, LogExplainsCache, [Next]_vars
               PROVE  LogExplainsCache'
    OBVIOUS
  <1>1. CASE UNCHANGED <<latest, initial, changes, base>>
    BY <1>1 DEF LogExplainsCache
  <1>2. ASSUME NEW t \in Threads, Publish(t) PROVE LogExplainsCache'
    <2>1. /\ changes \in Seq(Changes) /\ base \in Nat /\ Len(changes) \in Nat
          /\ None \notin Contents /\ snap[t].value \in Contents
      BY <1>2, ContentAssumption DEF TypeOK, PublishesSnapshot, Publish,
         Snapshots
    <2>2. CASE ~(enabled /\ cacheOn)
      BY <1>1, <1>2, <2>2 DEF Publish
    <2>3. CASE enabled /\ cacheOn /\ IsInitial(t)
      <3>1. /\ latest' = snap[t].value /\ initial' = snap[t].value
            /\ base' = Len(changes) /\ changes' = changes
        BY <1>2, <2>3 DEF Publish
      <3> QED
        BY <2>1, <3>1 DEF LogExplainsCache
    <2>4. CASE enabled /\ cacheOn /\ ~IsInitial(t) /\ latest = snap[t].value
      <3>1. latest' = snap[t].value /\ UNCHANGED <<initial, base, changes>>
        BY <1>2, <2>4 DEF Publish
      <3> QED
        BY <1>1, <2>4, <3>1
    <2>5. CASE enabled /\ cacheOn /\ ~IsInitial(t) /\ latest # snap[t].value
      <3> DEFINE new == [was |-> latest, now |-> snap[t].value]
      <3>1. /\ latest' = snap[t].value /\ UNCHANGED <<initial, base>>
            /\ changes' = Append(changes, new)
        BY <1>2, <2>5 DEF Publish
      <3>2. new \in Changes
        BY <2>1, <2>5 DEF TypeOK, IsInitial, Changes
      <3>3. /\ Len(changes') = Len(changes) + 1
            /\ changes'[Len(changes) + 1] = new
            /\ \A i \in 1..Len(changes) : changes'[i] = changes[i]
        BY <2>1, <3>1, <3>2
      <3> SUFFICES ASSUME initial # None PROVE LogExplainsCache'
        BY <3>1 DEF LogExplainsCache
      <3>4. base' <= Len(changes') /\ base' < Len(changes')
        BY <2>1, <3>1, <3>3 DEF LogExplainsCache
      <3>5. changes'[base' + 1].was = initial'
        <4>1. CASE base = Len(changes)
          BY <2>1, <3>1, <3>3, <4>1 DEF LogExplainsCache
        <4>2. CASE base < Len(changes)
          BY <2>1, <3>1, <3>3, <4>2 DEF LogExplainsCache
        <4> QED
          BY <2>1, <4>1, <4>2 DEF LogExplainsCache
      <3>6. changes'[Len(changes')].now = latest'
        BY <3>1, <3>3
      <3>7. ASSUME NEW i \in base' + 1 .. Len(changes') - 1
            PROVE  changes'[i].now = changes'[i + 1].was
        <4>1. i \in base + 1 .. Len(changes) /\ i \in 1..Len(changes) /\ i \in Nat
          BY <2>1, <3>1, <3>3
        <4>2. CASE i = Len(changes)
          <5>1. changes[i].now = latest
            BY <2>1, <4>1, <4>2 DEF LogExplainsCache
          <5> QED
            BY <3>3, <4>1, <4>2, <5>1
        <4>3. CASE i # Len(changes)
          <5>1. i \in base + 1 .. Len(changes) - 1 /\ i + 1 \in 1..Len(changes)
            BY <2>1, <4>1, <4>3
          <5>2. changes[i].now = changes[i + 1].was
            BY <5>1 DEF LogExplainsCache
          <5> QED
            BY <3>3, <4>1, <5>1, <5>2
        <4> QED
          BY <4>2, <4>3
      <3> QED
        BY <2>1, <3>1, <3>4, <3>5, <3>6, <3>7 DEF LogExplainsCache
    <2> QED
      BY <2>2, <2>3, <2>4, <2>5
  <1>3. CASE UNCHANGED vars \/ CacheChanges
    BY <1>1, <1>3 DEF vars, rolling, CacheChanges
  <1>4. ASSUME NEW t \in Threads, Step(t), ~Publish(t) PROVE LogExplainsCache'
    BY <1>1, <1>4, OnlyPublishWrites
  <1> QED
    BY <1>2, <1>3, <1>4 DEF Next

\* The importer-cache records lead without a gap from the initial snapshot to
\* the latest one, for any threads, contents and number of installations
\* (observe, _diff_importer_cache).
THEOREM RecordsExplainCache == Spec => []LogExplainsCache
  <1>1. Init => LogExplainsCache
    BY DEF Init, LogExplainsCache
  <1>2. ObserverInv /\ LogExplainsCache /\ [Next]_vars => LogExplainsCache'
    BY LogStep DEF ObserverInv
  <1> QED
    BY <1>1, <1>2, ObserverInvariant, PTL DEF Spec

(***************************************************************************)
(* Reports.                                                                *)
(***************************************************************************)
\* Moments are counted up, and a snapshot in flight is newer than the one
\* published before it and than the report that asked for it.
InFlight(t) == /\ snap[t].taken <= moment
               /\ ~straddled => seen <= snap[t].taken
               /\ next[t] = "copy" => asked[t] <= snap[t].taken
Ages ==
  /\ seen <= moment
  /\ \A t \in Threads : asked[t] <= moment
  /\ \A t \in Threads : At(t, "publish") => InFlight(t)
  /\ ReportIsCurrent

\* A step that publishes nothing and does not bring a snapshot or an
\* answered report into being keeps the ages.
LEMMA CalmStep ==
  ASSUME TypeOK, TypeOK', Ages, NEW t \in Threads,
         moment' = moment, seen' = seen, straddled => straddled',
         ~At(t, "publish")', At(t, "copy")' => missed'[t], asked'[t] <= moment,
         \A u \in Threads \ {t} :
            /\ pc'[u] = pc[u] /\ snap'[u] = snap[u] /\ next'[u] = next[u]
            /\ asked'[u] = asked[u] /\ missed'[u] = missed[u]
  PROVE  Ages'
  <1>1. seen' <= moment' /\ \A u \in Threads : asked'[u] <= moment'
    BY DEF Ages
  <1>2. \A u \in Threads : At(u, "publish")' => InFlight(u)'
    BY DEF Ages, At, InFlight
  <1>3. ReportIsCurrent'
    BY DEF Ages, At, ReportIsCurrent
  <1> QED
    BY <1>1, <1>2, <1>3 DEF Ages

\* A call of observe() that takes no snapshot for its caller says so.
LEMMA MissedReturn ==
  ASSUME TypeOK, NEW t \in Threads, Return(t), Miss(t)
  PROVE  /\ ~At(t, "publish")' /\ (At(t, "copy")' => missed'[t])
         /\ asked'[t] \in {asked[t], 0, moment}
         /\ \A u \in Threads \ {t} :
               /\ pc'[u] = pc[u] /\ snap'[u] = snap[u] /\ next'[u] = next[u]
               /\ asked'[u] = asked[u] /\ missed'[u] = missed[u]
  <1>1. pc'[t] = next[t] /\ next[t] \in Returns
    BY DEF TypeOK, Return, Goto
  <1>2. missed'[t] = (next[t] = "copy")
    BY DEF TypeOK, Miss
  <1>3. ~At(t, "publish")' /\ (At(t, "copy")' => missed'[t])
    BY <1>1, <1>2 DEF At, Returns
  <1>4. asked' = asked
    BY DEF Miss
  <1>5. \A u \in Threads \ {t} :
           /\ pc'[u] = pc[u] /\ snap'[u] = snap[u] /\ next'[u] = next[u]
           /\ missed'[u] = missed[u]
    BY DEF TypeOK, Return, EndCall, Goto, Miss
  <1> QED
    BY <1>3, <1>4, <1>5

\* Every action keeps the ages.
LEMMA AgesStep ==
  TypeOK /\ TypeOK' /\ FlightInv /\ Ages /\ [Next]_vars => Ages'
  <1> SUFFICES ASSUME TypeOK, TypeOK', FlightInv, Ages, [Next]_vars PROVE Ages'
    OBVIOUS
  <1>0. \A t \in Threads : \A a \in {asked[t], 0, moment} : a <= moment
    <2>1. moment \in 0..MaxMoments /\ moment \in Nat
      BY BoundAssumption DEF TypeOK
    <2> QED
      BY <2>1 DEF Ages
  <1>1. CASE UNCHANGED vars
    BY <1>1 DEF vars, rolling, world, call, report, faults, Ages, InFlight,
                ReportIsCurrent, At
  <1>2. CASE CacheChanges
    <2>1. /\ moment' = moment + 1
          /\ UNCHANGED <<seen, pc, snap, next, asked, missed, straddled>>
      BY <1>2 DEF CacheChanges, rolling, call, report, faults
    <2>2. moment \in Nat /\ seen \in Nat /\ \A t \in Threads : asked[t] \in Nat
      BY BoundAssumption DEF TypeOK
    <2>3. \A t \in Threads : At(t, "publish") => snap[t].taken \in Nat
      BY SMTT(30), BoundAssumption DEF TypeOK, FlightInv, PublishesSnapshot, Snapshots
    <2>4. \A t \in Threads : At(t, "publish")' => InFlight(t)'
      BY <2>1, <2>2, <2>3 DEF Ages, At, InFlight
    <2> QED
      BY <2>1, <2>2, <2>4 DEF Ages, ReportIsCurrent, At
  <1>3. ASSUME NEW t \in Threads, Observe(t) PROVE Ages'
    <2>1. moment' = moment /\ seen' = seen /\ (straddled => straddled')
      BY <1>3 DEF Observe, rolling, world, faults
    <2>2. /\ ~At(t, "publish")' /\ (At(t, "copy")' => missed'[t])
          /\ asked'[t] \in {asked[t], 0, moment}
          /\ \A u \in Threads \ {t} :
                /\ pc'[u] = pc[u] /\ snap'[u] = snap[u] /\ next'[u] = next[u]
                /\ asked'[u] = asked[u] /\ missed'[u] = missed[u]
      <3>1. CASE enabled /\ cacheOn /\ ~active
        <4>1. Goto(t, "snapshot") /\ UNCHANGED <<call, report>>
          BY <1>3, <3>1 DEF Observe
        <4> QED
          BY <4>1 DEF TypeOK, Goto, At, call, report
      <3>2. CASE ~(enabled /\ cacheOn /\ ~active)
        <4>1. Return(t) /\ Miss(t)
          BY <1>3, <3>2 DEF Observe
        <4> QED
          BY <4>1, MissedReturn
      <3> QED
        BY <3>1, <3>2
    <2> QED
      BY <2>1, <2>2, <1>0, CalmStep
  <1>4. ASSUME NEW t \in Threads, SnapshotFails(t) PROVE Ages'
    <2>1. moment' = moment /\ seen' = seen /\ (straddled => straddled')
      BY <1>4 DEF SnapshotFails, rolling, world, faults
    <2>2. /\ ~At(t, "publish")' /\ (At(t, "copy")' => missed'[t])
          /\ asked'[t] \in {asked[t], 0, moment}
          /\ \A u \in Threads \ {t} :
                /\ pc'[u] = pc[u] /\ snap'[u] = snap[u] /\ next'[u] = next[u]
                /\ asked'[u] = asked[u] /\ missed'[u] = missed[u]
      <3>1. Return(t) /\ Miss(t)
        BY <1>4 DEF SnapshotFails
      <3> QED
        BY <3>1, MissedReturn
    <2> QED
      BY <2>1, <2>2, <1>0, CalmStep
  <1>5. ASSUME NEW t \in Threads, SnapshotInterrupted(t) PROVE Ages'
    <2>1. moment' = moment /\ seen' = seen /\ (straddled => straddled')
      BY <1>5 DEF SnapshotInterrupted, rolling, world, faults
    <2>2. /\ ~At(t, "publish")' /\ (At(t, "copy")' => missed'[t])
          /\ asked'[t] \in {asked[t], 0, moment}
          /\ \A u \in Threads \ {t} :
                /\ pc'[u] = pc[u] /\ snap'[u] = snap[u] /\ next'[u] = next[u]
                /\ asked'[u] = asked[u] /\ missed'[u] = missed[u]
      BY <1>5 DEF TypeOK, PC, Returns, SnapshotInterrupted, Abandon, EndOp,
         EndReport, EndCall, Goto, At, call, report
    <2> QED
      BY <2>1, <2>2, <1>0, CalmStep
  <1>6. ASSUME NEW t \in Threads, InstallBegin(t) PROVE Ages'
    <2>1. moment' = moment /\ seen' = seen /\ (straddled => straddled')
      BY <1>6 DEF InstallBegin, rolling, world, faults
    <2>2. /\ ~At(t, "publish")' /\ (At(t, "copy")' => missed'[t])
          /\ asked'[t] \in {asked[t], 0, moment}
          /\ \A u \in Threads \ {t} :
                /\ pc'[u] = pc[u] /\ snap'[u] = snap[u] /\ next'[u] = next[u]
                /\ asked'[u] = asked[u] /\ missed'[u] = missed[u]
      BY <1>6 DEF TypeOK, PC, Returns, InstallBegin, Goto, At, call, report
    <2> QED
      BY <2>1, <2>2, <1>0, CalmStep
  <1>7. ASSUME NEW t \in Threads, ExposeHooks(t) PROVE Ages'
    <2>1. moment' = moment /\ seen' = seen /\ (straddled => straddled')
      BY <1>7 DEF ExposeHooks, rolling, world, faults
    <2>2. /\ ~At(t, "publish")' /\ (At(t, "copy")' => missed'[t])
          /\ asked'[t] \in {asked[t], 0, moment}
          /\ \A u \in Threads \ {t} :
                /\ pc'[u] = pc[u] /\ snap'[u] = snap[u] /\ next'[u] = next[u]
                /\ asked'[u] = asked[u] /\ missed'[u] = missed[u]
      BY <1>7 DEF TypeOK, PC, Returns, ExposeHooks, Goto, At, call, report
    <2> QED
      BY <2>1, <2>2, <1>0, CalmStep
  <1>8. ASSUME NEW t \in Threads, EnableCache(t) PROVE Ages'
    <2>1. moment' = moment /\ seen' = seen /\ (straddled => straddled')
      BY <1>8 DEF EnableCache, rolling, world, faults
    <2>2. /\ ~At(t, "publish")' /\ (At(t, "copy")' => missed'[t])
          /\ asked'[t] \in {asked[t], 0, moment}
          /\ \A u \in Threads \ {t} :
                /\ pc'[u] = pc[u] /\ snap'[u] = snap[u] /\ next'[u] = next[u]
                /\ asked'[u] = asked[u] /\ missed'[u] = missed[u]
      BY <1>8 DEF TypeOK, PC, Returns, EnableCache, Call, Goto, At, call, report
    <2> QED
      BY <2>1, <2>2, <1>0, CalmStep
  <1>9. ASSUME NEW t \in Threads, InstallEnd(t) PROVE Ages'
    <2>1. moment' = moment /\ seen' = seen /\ (straddled => straddled')
      BY <1>9 DEF InstallEnd, rolling, world, faults
    <2>2. /\ ~At(t, "publish")' /\ (At(t, "copy")' => missed'[t])
          /\ asked'[t] \in {asked[t], 0, moment}
          /\ \A u \in Threads \ {t} :
                /\ pc'[u] = pc[u] /\ snap'[u] = snap[u] /\ next'[u] = next[u]
                /\ asked'[u] = asked[u] /\ missed'[u] = missed[u]
      BY <1>9 DEF TypeOK, PC, Returns, InstallEnd, Goto, At, call, report
    <2> QED
      BY <2>1, <2>2, <1>0, CalmStep
  <1>10. ASSUME NEW t \in Threads, UninstallBegin(t) PROVE Ages'
    <2>1. moment' = moment /\ seen' = seen /\ (straddled => straddled')
      BY <1>10 DEF UninstallBegin, rolling, world, faults
    <2>2. /\ ~At(t, "publish")' /\ (At(t, "copy")' => missed'[t])
          /\ asked'[t] \in {asked[t], 0, moment}
          /\ \A u \in Threads \ {t} :
                /\ pc'[u] = pc[u] /\ snap'[u] = snap[u] /\ next'[u] = next[u]
                /\ asked'[u] = asked[u] /\ missed'[u] = missed[u]
      BY <1>10 DEF TypeOK, PC, Returns, UninstallBegin, Call, Goto, At, call,
         report
    <2> QED
      BY <2>1, <2>2, <1>0, CalmStep
  <1>11. ASSUME NEW t \in Threads, Disable(t) PROVE Ages'
    <2>1. moment' = moment /\ seen' = seen /\ (straddled => straddled')
      BY <1>11 DEF Disable, rolling, world, faults
    <2>2. /\ ~At(t, "publish")' /\ (At(t, "copy")' => missed'[t])
          /\ asked'[t] \in {asked[t], 0, moment}
          /\ \A u \in Threads \ {t} :
                /\ pc'[u] = pc[u] /\ snap'[u] = snap[u] /\ next'[u] = next[u]
                /\ asked'[u] = asked[u] /\ missed'[u] = missed[u]
      BY <1>11 DEF TypeOK, PC, Returns, Disable, Goto, At, call, report
    <2> QED
      BY <2>1, <2>2, <1>0, CalmStep
  <1>12. ASSUME NEW t \in Threads, Unhook(t) PROVE Ages'
    <2>1. moment' = moment /\ seen' = seen /\ (straddled => straddled')
      BY <1>12 DEF Unhook, rolling, world, faults
    <2>2. /\ ~At(t, "publish")' /\ (At(t, "copy")' => missed'[t])
          /\ asked'[t] \in {asked[t], 0, moment}
          /\ \A u \in Threads \ {t} :
                /\ pc'[u] = pc[u] /\ snap'[u] = snap[u] /\ next'[u] = next[u]
                /\ asked'[u] = asked[u] /\ missed'[u] = missed[u]
      BY <1>12 DEF TypeOK, PC, Returns, Unhook, Goto, At, call, report
    <2> QED
      BY <2>1, <2>2, <1>0, CalmStep
  <1>13. ASSUME NEW t \in Threads, Forget(t) PROVE Ages'
    <2>1. moment' = moment /\ seen' = seen /\ (straddled => straddled')
      BY <1>13 DEF Forget, rolling, world, faults
    <2>2. /\ ~At(t, "publish")' /\ (At(t, "copy")' => missed'[t])
          /\ asked'[t] \in {asked[t], 0, moment}
          /\ \A u \in Threads \ {t} :
                /\ pc'[u] = pc[u] /\ snap'[u] = snap[u] /\ next'[u] = next[u]
                /\ asked'[u] = asked[u] /\ missed'[u] = missed[u]
      BY <1>13 DEF TypeOK, PC, Returns, Forget, Goto, At, call, report
    <2> QED
      BY <2>1, <2>2, <1>0, CalmStep
  <1>14. ASSUME NEW t \in Threads, ReportBegin(t) PROVE Ages'
    <2>1. moment' = moment /\ seen' = seen /\ (straddled => straddled')
      BY <1>14 DEF ReportBegin, rolling, world, faults
    <2>2. /\ ~At(t, "publish")' /\ (At(t, "copy")' => missed'[t])
          /\ asked'[t] \in {asked[t], 0, moment}
          /\ \A u \in Threads \ {t} :
                /\ pc'[u] = pc[u] /\ snap'[u] = snap[u] /\ next'[u] = next[u]
                /\ asked'[u] = asked[u] /\ missed'[u] = missed[u]
      BY <1>14 DEF TypeOK, PC, Returns, ReportBegin, Call, Goto, At, call,
         report
    <2> QED
      BY <2>1, <2>2, <1>0, CalmStep
  <1>15. ASSUME NEW t \in Threads, ReportCopy(t) PROVE Ages'
    <2>1. moment' = moment /\ seen' = seen /\ (straddled => straddled')
      BY <1>15 DEF ReportCopy, rolling, world, faults
    <2>2. /\ ~At(t, "publish")' /\ (At(t, "copy")' => missed'[t])
          /\ asked'[t] \in {asked[t], 0, moment}
          /\ \A u \in Threads \ {t} :
                /\ pc'[u] = pc[u] /\ snap'[u] = snap[u] /\ next'[u] = next[u]
                /\ asked'[u] = asked[u] /\ missed'[u] = missed[u]
      BY <1>15 DEF TypeOK, PC, Returns, ReportCopy, EndReport, Goto, At, call,
         report
    <2> QED
      BY <2>1, <2>2, <1>0, CalmStep
  <1>16. ASSUME NEW t \in Threads, BeforeMutation(t) PROVE Ages'
    <2>1. moment' = moment /\ seen' = seen /\ (straddled => straddled')
      BY <1>16 DEF BeforeMutation, rolling, world, faults
    <2>2. /\ ~At(t, "publish")' /\ (At(t, "copy")' => missed'[t])
          /\ asked'[t] \in {asked[t], 0, moment}
          /\ \A u \in Threads \ {t} :
                /\ pc'[u] = pc[u] /\ snap'[u] = snap[u] /\ next'[u] = next[u]
                /\ asked'[u] = asked[u] /\ missed'[u] = missed[u]
      <3>1. Goto(t, "observe") \/ Goto(t, "count")
        BY <1>16 DEF BeforeMutation, Call
      <3>2. /\ snap' = snap /\ UNCHANGED report
            /\ \A u \in Threads \ {t} : next'[u] = next[u]
        BY <1>16 DEF TypeOK, BeforeMutation, Call, call
      <3> QED
        BY <3>1, <3>2 DEF TypeOK, Goto, At, report
    <2> QED
      BY <2>1, <2>2, <1>0, CalmStep
  <1>17. ASSUME NEW t \in Threads, Count(t) PROVE Ages'
    <2>1. moment' = moment /\ seen' = seen /\ (straddled => straddled')
      BY <1>17 DEF Count, rolling, world, faults
    <2>2. /\ ~At(t, "publish")' /\ (At(t, "copy")' => missed'[t])
          /\ asked'[t] \in {asked[t], 0, moment}
          /\ \A u \in Threads \ {t} :
                /\ pc'[u] = pc[u] /\ snap'[u] = snap[u] /\ next'[u] = next[u]
                /\ asked'[u] = asked[u] /\ missed'[u] = missed[u]
      BY <1>17 DEF TypeOK, PC, Returns, Count, Goto, At, call, report
    <2> QED
      BY <2>1, <2>2, <1>0, CalmStep
  <1>18. ASSUME NEW t \in Threads, Mutate(t) PROVE Ages'
    <2>1. moment' = moment /\ seen' = seen /\ (straddled => straddled')
      BY <1>18 DEF Mutate, rolling, world, faults
    <2>2. /\ ~At(t, "publish")' /\ (At(t, "copy")' => missed'[t])
          /\ asked'[t] \in {asked[t], 0, moment}
          /\ \A u \in Threads \ {t} :
                /\ pc'[u] = pc[u] /\ snap'[u] = snap[u] /\ next'[u] = next[u]
                /\ asked'[u] = asked[u] /\ missed'[u] = missed[u]
      <3>1. Goto(t, "slice") \/ Goto(t, "notify")
        BY <1>18 DEF Mutate
      <3> QED
        BY <1>18, <3>1 DEF TypeOK, Mutate, Goto, At, call, report
    <2> QED
      BY <2>1, <2>2, <1>0, CalmStep
  <1>19. ASSUME NEW t \in Threads, Slice(t) PROVE Ages'
    <2>1. moment' = moment /\ seen' = seen /\ (straddled => straddled')
      BY <1>19 DEF Slice, rolling, world, faults
    <2>2. /\ ~At(t, "publish")' /\ (At(t, "copy")' => missed'[t])
          /\ asked'[t] \in {asked[t], 0, moment}
          /\ \A u \in Threads \ {t} :
                /\ pc'[u] = pc[u] /\ snap'[u] = snap[u] /\ next'[u] = next[u]
                /\ asked'[u] = asked[u] /\ missed'[u] = missed[u]
      BY <1>19 DEF TypeOK, PC, Returns, Slice, Goto, At, call, report
    <2> QED
      BY <2>1, <2>2, <1>0, CalmStep
  <1>20. ASSUME NEW t \in Threads, Notify(t) PROVE Ages'
    <2>1. moment' = moment /\ seen' = seen /\ (straddled => straddled')
      BY <1>20 DEF Notify, rolling, world, faults
    <2>2. /\ ~At(t, "publish")' /\ (At(t, "copy")' => missed'[t])
          /\ asked'[t] \in {asked[t], 0, moment}
          /\ \A u \in Threads \ {t} :
                /\ pc'[u] = pc[u] /\ snap'[u] = snap[u] /\ next'[u] = next[u]
                /\ asked'[u] = asked[u] /\ missed'[u] = missed[u]
      <3>1. Goto(t, "record") \/ Goto(t, "idle")
        BY <1>20 DEF Notify, Call
      <3>2. /\ snap' = snap /\ UNCHANGED report
            /\ \A u \in Threads \ {t} : next'[u] = next[u]
        BY <1>20 DEF TypeOK, Notify, Call, call
      <3> QED
        BY <3>1, <3>2 DEF TypeOK, Goto, At, report
    <2> QED
      BY <2>1, <2>2, <1>0, CalmStep
  <1>21. ASSUME NEW t \in Threads, Record(t) PROVE Ages'
    <2>1. moment' = moment /\ seen' = seen /\ (straddled => straddled')
      BY <1>21 DEF Record, rolling, world, faults
    <2>2. /\ ~At(t, "publish")' /\ (At(t, "copy")' => missed'[t])
          /\ asked'[t] \in {asked[t], 0, moment}
          /\ \A u \in Threads \ {t} :
                /\ pc'[u] = pc[u] /\ snap'[u] = snap[u] /\ next'[u] = next[u]
                /\ asked'[u] = asked[u] /\ missed'[u] = missed[u]
      <3>1. Goto(t, "observe") \/ Goto(t, "idle")
        BY <1>21 DEF Record, Call
      <3>2. /\ snap' = snap /\ UNCHANGED report
            /\ \A u \in Threads \ {t} : next'[u] = next[u]
        BY <1>21 DEF TypeOK, Record, Call, call
      <3> QED
        BY <3>1, <3>2 DEF TypeOK, Goto, At, report
    <2> QED
      BY <2>1, <2>2, <1>0, CalmStep
  <1>22. ASSUME NEW t \in Threads, NEW how \in Kinds, MutationBegin(t, how)
        PROVE Ages'
    <2>1. moment' = moment /\ seen' = seen /\ (straddled => straddled')
      BY <1>22 DEF MutationBegin, rolling, world, faults
    <2>2. /\ ~At(t, "publish")' /\ (At(t, "copy")' => missed'[t])
          /\ asked'[t] \in {asked[t], 0, moment}
          /\ \A u \in Threads \ {t} :
                /\ pc'[u] = pc[u] /\ snap'[u] = snap[u] /\ next'[u] = next[u]
                /\ asked'[u] = asked[u] /\ missed'[u] = missed[u]
      BY <1>22 DEF TypeOK, PC, Returns, MutationBegin, Goto, At, call, report
    <2> QED
      BY <2>1, <2>2, <1>0, CalmStep
  <1>23. ASSUME NEW t \in Threads, Snapshot(t) PROVE Ages'
    <2>1. /\ snap' = [snap EXCEPT ![t] = [value |-> cache, taken |-> moment]]
          /\ pc' = [pc EXCEPT ![t] = "publish"]
          /\ UNCHANGED <<moment, seen, next, asked, missed, straddled>>
      BY <1>23 DEF Snapshot, Goto, world, rolling, report, faults
    <2>2. InFlight(t)'
      <3>1. snap'[t].taken = moment
        BY <2>1 DEF TypeOK
      <3>2. moment \in Nat
        BY BoundAssumption DEF TypeOK
      <3> QED
        BY <2>1, <3>1, <3>2 DEF Ages, InFlight
    <2>3. \A u \in Threads : At(u, "publish")' => InFlight(u)'
      BY <2>1, <2>2 DEF TypeOK, Ages, At, InFlight
    <2>4. ReportIsCurrent'
      BY <2>1 DEF TypeOK, Ages, At, ReportIsCurrent
    <2> QED
      BY <2>1, <2>3, <2>4 DEF Ages
  <1>24. ASSUME NEW t \in Threads, Publish(t) PROVE Ages'
    <2>1. /\ At(t, "publish") /\ Return(t)
          /\ UNCHANGED <<moment, straddled, asked>>
      BY <1>24 DEF Publish, Miss, world, faults, report
    <2>2. \A u \in Threads \ {t} :
             pc'[u] = pc[u] /\ snap'[u] = snap[u] /\ next'[u] = next[u]
      BY <2>1 DEF TypeOK, Return, EndCall, Goto
    <2>3. ~At(t, "publish")' /\ pc'[t] = next[t]
      BY <2>1 DEF TypeOK, Returns, Return, Goto, At
    <2>4. CASE ~(enabled /\ cacheOn)
      <3>1. UNCHANGED seen /\ Miss(t)
        BY <1>24, <2>4 DEF Publish
      <3>2. (At(t, "copy")' => missed'[t])
            /\ \A u \in Threads \ {t} : missed'[u] = missed[u]
        BY <2>3, <3>1 DEF TypeOK, Miss, At
      <3>3. asked'[t] <= moment
        BY <2>1 DEF Ages
      <3> QED
        BY <2>1, <2>2, <2>3, <3>1, <3>2, <3>3, CalmStep
    <2>5. CASE enabled /\ cacheOn
      <3>1. seen' = snap[t].taken /\ UNCHANGED missed
        BY <1>24, <2>5 DEF Publish, report
      <3>2. InFlight(t)
        BY <2>1 DEF Ages
      <3>3. /\ seen \in Nat /\ snap[t].taken \in Nat
            /\ \A u \in Threads : asked[u] \in Nat
        <4>1. /\ seen \in 0..MaxMoments /\ \A u \in Threads : asked[u] \in 0..MaxMoments
              /\ snap[t] \in Snapshots
          BY <2>1 DEF TypeOK, FlightInv, PublishesSnapshot
        <4> QED
          BY <4>1, BoundAssumption DEF Snapshots
      <3>4. ~straddled => \A u \in Threads \ {t} : ~At(u, "publish")
        BY <2>1 DEF FlightInv, SingleFlight, Observing, At
      <3>5. \A u \in Threads : At(u, "publish")' => InFlight(u)'
        BY <2>1, <2>2, <2>3, <3>4 DEF Ages, At, InFlight
      <3>6. ReportIsCurrent'
        BY <2>1, <2>2, <2>3, <3>1, <3>2, <3>3 DEF Ages, ReportIsCurrent,
           InFlight, At
      <3>7. seen' <= moment'
        BY <2>1, <3>1, <3>2 DEF InFlight
      <3> QED
        BY <2>1, <3>5, <3>6, <3>7 DEF Ages
    <2> QED
      BY <2>4, <2>5
  <1> QED
    BY <1>1, <1>2, <1>3, <1>4, <1>5, <1>6, <1>7, <1>8, <1>9, <1>10, <1>11,
       <1>12, <1>13, <1>14, <1>15, <1>16, <1>17, <1>18, <1>19, <1>20, <1>21,
       <1>22, <1>23, <1>24 DEF Next, Step

\* A report whose own observation was neither coalesced nor failed shows the
\* cache no older than the moment it began, as long as no uninstall() ended
\* under a running snapshot (_snapshot, observe).
THEOREM ReportsAreCurrent == Spec => []ReportIsCurrent
  <1>1. Init => Ages
    BY DEF Init, Ages, ReportIsCurrent, At
  <1>2. ObserverInv /\ ObserverInv' /\ Ages /\ [Next]_vars => Ages'
    BY AgesStep DEF ObserverInv, FlightInv
  <1>3. Ages => ReportIsCurrent
    BY DEF Ages
  <1> QED
    BY <1>1, <1>2, <1>3, ObserverInvariant, PTL DEF Spec

\* Between mutations the records of an installation add up to the live list,
\* unless a mutation fell between the steps of another or a record came from an
\* older list (_extend_and_record, clear, _on_path_hooks_change).
THEOREM HooksAreAccounted == Spec => []HooksAccounted
  <1>1. ObserverInv => HooksAccounted
    <2> SUFFICES ASSUME ObserverInv, enabled, hooksOn, ~blurred,
                        \A t \in Threads : ~(on[t] = live /\ InOp(t))
                 PROVE  first + recorded = hooks
      BY DEF HooksAccounted
    <2>1. /\ first \in Nat /\ recorded \in Int /\ hooks \in Nat
          /\ first + recorded + Total(Owed) = hooks
      BY DEF ObserverInv, TypeOK, HooksInv, RecordsAddUp
    <2>2. \A t \in Threads : Owed[t] = 0
      BY DEF Owed, InOp, At
    <2>3. Total(Owed) = 0
      BY <2>2, NothingOwed
    <2> QED
      BY <2>1, <2>3
  <1> QED
    BY <1>1, ObserverInvariant, PTL
=============================================================================
