----------------------- MODULE DetailedCaptureProofs -----------------------
(***************************************************************************)
(* Proofs about the three parts of detailed capture, in the composition    *)
(* the runs check: the explorer, for any number of candidates, starts and  *)
(* installations; the leases on the process-wide hooks, for any number of  *)
(* threads, installations and steps of another tool; and the records of a  *)
(* profiled thread, for any names, imports, depth of the stack and changes *)
(* of the level.                                                           *)
(***************************************************************************)
EXTENDS MCDetailedCapture, FiniteSetTheorems, TLAPS

(***************************************************************************)
(* BranchExploration.                                                      *)
(***************************************************************************)
\* The invariant of the explorer in parts, its types first.
ExploreTypes ==
  /\ phase \in {"off", "rising", "on", "falling"}
  /\ active \in BOOLEAN /\ named \in BOOLEAN /\ disturbed \in BOOLEAN
  /\ call \in Explorer!Calls \union {NoCall}
  /\ trigger \in [over : Explorer!Boundaries, index : Explorer!Index]
  /\ log \in Seq(Explorer!Calls)
  /\ starts \in 0..MaxStarts /\ steps \in 0..MaxSteps

ExploreParts ==
  /\ ExploreTypes /\ Explorer!WellNested(loops)
  /\ active <=> loops # <<>>
  /\ call # NoCall => loops # <<>>

\* What the explorer's parameters are.
Bounds == /\ MetaPath \in Nat \ {0} /\ Entries \in Nat \ {0}
          /\ Hooks \in Nat \ {0} /\ MaxStarts \in Nat /\ MaxSteps \in Nat

\* They are assumed so.
LEMMA Parameters == Bounds /\ NoCall \notin Explorer!Calls
  BY PartsAssumption DEF Explorer!ConstantsAssumption, Bounds

\* Every candidate has an index, whichever the boundary.
LEMMA Sizes ==
  /\ Explorer!Size("path_entry") = Entries /\ Explorer!Size("path_hook") = Hooks
  /\ 1..Entries \subseteq Explorer!Index /\ 1 \in Explorer!Index
  /\ \A b \in Explorer!Boundaries : /\ Explorer!Size(b) \in Nat
                           /\ 1..Explorer!Size(b) \subseteq Explorer!Index
  BY Parameters DEF Bounds, Explorer!Size, Explorer!Index, Explorer!Boundaries

\* The later candidates of n.
LEMMA LaterOnes ==
  ASSUME NEW n \in Nat, NEW i \in 0..n PROVE Explorer!Later(i, n) \in Seq(1..n)
  BY DEF Explorer!Later

\* A sequence over a set is one over a larger set.
LEMMA WiderRange ==
  ASSUME NEW S, NEW T, S \subseteq T, NEW s \in Seq(S) PROVE s \in Seq(T)
<1>1. Len(s) \in Nat /\ \A k \in 1..Len(s) : s[k] \in S
  OBVIOUS
<1>2. s = [k \in 1..Len(s) |-> s[k]]
  OBVIOUS
<1>3. QED
  BY <1>1, <1>2

\* An exploration starts with one loop, which lowers the flag at its end.
LEMMA FirstLoop ==
  ASSUME NEW b \in Explorer!Boundaries, NEW i \in 1..Explorer!Size(b)
  PROVE  Explorer!WellNested(<<[over |-> b, entry |-> 0,
                       left |-> Explorer!Later(i, Explorer!Size(b)),
                       restore |-> FALSE]>>)
<1> DEFINE l == [over |-> b, entry |-> 0,
                 left |-> Explorer!Later(i, Explorer!Size(b)), restore |-> FALSE]
           n == Explorer!Size(b)
<1>1. l.left \in Seq(1..Explorer!Size(l.over)) /\ l.left \in Seq(Explorer!Index)
  <2>1. n \in Nat /\ i \in 0..n /\ 1..n \subseteq Explorer!Index
    BY Sizes
  <2>2. Explorer!Later(i, n) \in Seq(1..n)
    BY <2>1, LaterOnes
  <2>3. Explorer!Later(i, n) \in Seq(Explorer!Index)
    BY <2>1, <2>2, WiderRange
  <2>4. QED
    BY <2>2, <2>3
<1>2. l \in Explorer!Loops
  BY <1>1, Parameters DEF Bounds, Explorer!Loops
<1>3. QED
  BY <1>1, <1>2 DEF Explorer!WellNested

\* An entry without a finder starts a loop over the hooks, which does not.
LEMMA InnerLoop ==
  ASSUME NEW ls, Explorer!WellNested(ls), ls # <<>>, NEW e \in 0..Entries
  PROVE  Explorer!WellNested(Append(ls, [over |-> "path_hook", entry |-> e,
                       left |-> Explorer!Later(0, Hooks), restore |-> TRUE]))
<1> DEFINE l == [over |-> "path_hook", entry |-> e,
                 left |-> Explorer!Later(0, Hooks), restore |-> TRUE]
<1>1. l.left \in Seq(1..Explorer!Size(l.over)) /\ l.left \in Seq(Explorer!Index)
  <2>1. Hooks \in Nat /\ 0 \in 0..Hooks /\ 1..Hooks \subseteq Explorer!Index
        /\ Explorer!Size("path_hook") = Hooks
    BY Sizes, Parameters DEF Bounds, Explorer!Boundaries
  <2>2. Explorer!Later(0, Hooks) \in Seq(1..Hooks)
    BY <2>1, LaterOnes
  <2>3. Explorer!Later(0, Hooks) \in Seq(Explorer!Index)
    BY <2>1, <2>2, WiderRange
  <2>4. QED
    BY <2>1, <2>2, <2>3
<1>2. l \in Explorer!Loops
  BY <1>1 DEF Explorer!Loops, Explorer!Boundaries
<1>3. QED
  BY <1>1, <1>2 DEF Explorer!WellNested

\* What is left when the innermost loop ends.
LEMMA OuterLoops ==
  ASSUME NEW ls, Explorer!WellNested(ls), ls # <<>>
  PROVE  /\ Explorer!WellNested(Explorer!Front(ls))
         /\ Len(Explorer!Front(ls)) = Len(ls) - 1
         /\ Explorer!Last(ls) = ls[Len(ls)] /\ Len(ls) \in Nat \ {0}
<1>1. ls \in Seq(Explorer!Loops) /\ Len(ls) \in Nat \ {0}
  BY DEF Explorer!WellNested
<1>2. /\ Explorer!Front(ls) \in Seq(Explorer!Loops)
      /\ Len(Explorer!Front(ls)) = Len(ls) - 1
      /\ \A k \in 1 .. Len(ls) - 1 : Explorer!Front(ls)[k] = ls[k]
  <2> DEFINE m == Len(ls) - 1
  <2>1. m \in Nat /\ Explorer!Front(ls) = SubSeq(ls, 1, m) /\ m <= Len(ls)
    BY <1>1 DEF Explorer!Front
  <2>2. SubSeq(ls, 1, m) = [k \in 1..m |-> ls[k]]
    BY <1>1, <2>1
  <2>3. \A k \in 1..m : ls[k] \in Explorer!Loops
    BY <1>1, <2>1
  <2> DEFINE f == [k \in 1..m |-> ls[k]]
  <2>4. f \in Seq(Explorer!Loops) /\ Len(f) = m /\ \A k \in 1..m : f[k] = ls[k]
    <3> HIDE DEF m
    <3>1. QED
      BY <2>1, <2>3
  <2>5. QED
    BY <2>1, <2>2, <2>4
<1>3. PICK n, f : n = Len(ls) - 1 /\ f = Explorer!Front(ls)
  OBVIOUS
<1>4. /\ n \in Nat /\ f \in Seq(Explorer!Loops) /\ Len(f) = n
      /\ \A k \in 1..n : f[k] = ls[k] /\ k \in 1..Len(ls)
      /\ \A k \in 2..n : k \in 1..n /\ k \in 2..Len(ls)
  BY <1>1, <1>2, <1>3
<1>5. f # <<>> => 1 \in 1..n /\ ls # <<>>
  BY <1>1, <1>4
<1>6. /\ f # <<>> => ~f[1].restore
      /\ \A k \in 2..n : f[k].over = "path_hook" /\ f[k].restore
      /\ \A k \in 1..n : f[k].left \in Seq(1..Explorer!Size(f[k].over))
  BY <1>4, <1>5 DEF Explorer!WellNested
<1>7. Explorer!WellNested(f)
  BY <1>4, <1>6 DEF Explorer!WellNested
<1>8. QED
  BY <1>1, <1>2, <1>3, <1>7 DEF Explorer!Last

\* A loop goes on to its next candidate.
LEMMA TakesOne ==
  ASSUME Explorer!WellNested(loops), loops # <<>>, Explorer!Loop.left # <<>>
  PROVE  /\ Explorer!WellNested(Explorer!Taken) /\ Explorer!Taken # <<>>
         /\ Explorer!Loop.over \in Explorer!Boundaries
         /\ Explorer!Loop.entry \in 0..Entries
         /\ Explorer!Next1 \in 1..Explorer!Size(Explorer!Loop.over)
<1> DEFINE n == Len(loops)
           l == loops[n]
           taken == [l EXCEPT !.left = Tail(@)]
<1>1. n \in Nat \ {0} /\ Explorer!Loop = l /\ l \in Explorer!Loops
      /\ l.left \in Seq(1..Explorer!Size(l.over))
  BY OuterLoops DEF Explorer!WellNested, Explorer!Loop
<1>2. /\ l.over \in Explorer!Boundaries /\ l.entry \in 0..Entries
      /\ l.restore \in BOOLEAN /\ l.left \in Seq(Explorer!Index)
      /\ l.left # <<>>
  BY <1>1 DEF Explorer!Loops
<1>3. /\ Head(l.left) \in 1..Explorer!Size(l.over)
      /\ Tail(l.left) \in Seq(1..Explorer!Size(l.over))
      /\ Tail(l.left) \in Seq(Explorer!Index)
  <2> DEFINE s == l.left
  <2>1. ASSUME NEW S, s \in Seq(S), s # <<>>
        PROVE  Head(s) \in S /\ Tail(s) \in Seq(S)
    BY <2>1
  <2>2. QED
    BY <1>1, <1>2, <2>1
<1>4. /\ taken.over = l.over /\ taken.entry = l.entry
      /\ taken.restore = l.restore /\ taken.left = Tail(l.left)
  <2>1. ASSUME NEW r \in Explorer!Loops
        PROVE  LET s == [r EXCEPT !.left = Tail(@)] IN
               /\ s.over = r.over /\ s.entry = r.entry
               /\ s.restore = r.restore /\ s.left = Tail(r.left)
    BY <2>1 DEF Explorer!Loops
  <2>2. QED
    BY <1>1, <2>1
<1>5. taken \in Explorer!Loops /\ taken.left \in Seq(1..Explorer!Size(taken.over))
      /\ taken.over = l.over /\ taken.restore = l.restore
  <2>1. ASSUME NEW r \in Explorer!Loops, NEW s \in Seq(Explorer!Index)
        PROVE  [r EXCEPT !.left = s] \in Explorer!Loops
    BY <2>1 DEF Explorer!Loops
  <2>2. QED
    BY <1>1, <1>3, <1>4, <2>1
<1>6. Explorer!Taken = Append(Explorer!Front(loops), taken)
  BY <1>1 DEF Explorer!Taken
<1>7. Explorer!WellNested(Explorer!Taken) /\ Explorer!Taken # <<>>
  BY <1>1, <1>5, <1>6 DEF Explorer!WellNested, Explorer!Front
<1>8. QED
  BY <1>1, <1>2, <1>3, <1>7 DEF Explorer!Next1

\* Before the first exploration nothing is nested.
LEMMA ExploreInit == Explorer!Init => ExploreParts
<1> SUFFICES ASSUME Explorer!Init PROVE ExploreParts
  OBVIOUS
<1>1. ExploreTypes
  <2>1. trigger \in [over : Explorer!Boundaries, index : Explorer!Index]
    BY Sizes DEF Explorer!Init, Explorer!Boundaries
  <2>2. /\ log \in Seq(Explorer!Calls)
        /\ starts \in 0..MaxStarts /\ steps \in 0..MaxSteps
    BY Parameters DEF Bounds, Explorer!Init
  <2>3. QED
    BY <2>1, <2>2 DEF Explorer!Init, ExploreTypes
<1>2. Explorer!WellNested(loops)
  BY DEF Explorer!Init, Explorer!WellNested
<1>3. QED
  BY <1>1, <1>2 DEF Explorer!Init, ExploreParts

\* A record of a call is a record.
LEMMA Recorded ==
  ASSUME ExploreTypes, NEW c \in Explorer!Calls, Explorer!Record(c)
  PROVE  log' \in Seq(Explorer!Calls)
  BY DEF ExploreTypes, Explorer!Record

\* Every step of the explorer keeps its invariant.
LEMMA ExploreInvStep ==
  ASSUME ExploreParts, [Explorer!Next]_exploreVars PROVE ExploreParts'
<1>0. /\ ExploreTypes /\ Explorer!WellNested(loops)
      /\ active <=> loops # <<>>
      /\ call # NoCall => loops # <<>>
  BY DEF ExploreParts
<1>1. CASE UNCHANGED exploreVars
  BY <1>0, <1>1 DEF exploreVars, ExploreParts, ExploreTypes
<1>2. CASE Explorer!ChangePhase
  <2>1. steps' \in 0..MaxSteps
    BY <1>0, <1>2, Parameters DEF Explorer!ChangePhase, ExploreTypes, Bounds
  <2>2. QED
    BY <1>0, <1>2, <2>1 DEF Explorer!ChangePhase, ExploreParts, ExploreTypes
<1>3. ASSUME NEW b \in Explorer!Boundaries, NEW n \in BOOLEAN,
             NEW i \in 1..Explorer!Size(b), Explorer!Start(b, i, n)
      PROVE  ExploreParts'
  <2>1. loops = <<>> /\ active = FALSE
    BY <1>0, <1>3 DEF Explorer!Start, ExploreTypes
  <2>2. Explorer!WellNested(loops') /\ loops' # <<>>
    BY <2>1, <1>3, FirstLoop DEF Explorer!Start
  <2>3. /\ starts' \in 0..MaxStarts
        /\ trigger' \in [over : Explorer!Boundaries, index : Explorer!Index]
    BY <1>0, <1>3, Parameters, Sizes DEF Explorer!Start, ExploreTypes, Bounds
  <2>4. log' \in Seq(Explorer!Calls) /\ call' = NoCall /\ active' = TRUE
    BY <1>3 DEF Explorer!Start
  <2>5. QED
    BY <1>0, <1>3, <2>2, <2>3, <2>4 DEF Explorer!Start, ExploreParts, ExploreTypes
<1>4. CASE Explorer!CallCandidate
  <2>1. loops # <<>> /\ Explorer!Loop.left # <<>>
    BY <1>4 DEF Explorer!CallCandidate, Explorer!Goes, Explorer!Running
  <2>2. Explorer!WellNested(loops') /\ loops' # <<>>
    BY <1>0, <1>4, <2>1, TakesOne DEF Explorer!CallCandidate
  <2>3. call' \in Explorer!Calls
    <3>1. /\ Explorer!Loop.over \in Explorer!Boundaries
          /\ Explorer!Loop.entry \in 0..Entries
          /\ Explorer!Next1 \in 1..Explorer!Size(Explorer!Loop.over)
      BY <1>0, <2>1, TakesOne
    <3>2. Explorer!Next1 \in Explorer!Index
      BY <3>1, Sizes
    <3>3. (IF Explorer!Loop.over = "path_entry" THEN Explorer!Next1
           ELSE Explorer!Loop.entry) \in 0..Entries
      BY <3>1, Sizes, Parameters DEF Bounds
    <3>4. QED
      BY <1>4, <3>1, <3>2, <3>3 DEF Explorer!CallCandidate, Explorer!Calls
  <2>4. QED
    BY <1>0, <1>4, <2>1, <2>2, <2>3
    DEF Explorer!CallCandidate, Explorer!Quiet, ExploreParts, ExploreTypes
<1>5. CASE Explorer!NegativeCache
  <2>1. /\ loops # <<>> /\ Explorer!Loop.left # <<>>
        /\ Explorer!Loop.over = "path_entry"
    BY <1>5 DEF Explorer!NegativeCache, Explorer!Goes, Explorer!Running
  <2>2. Explorer!WellNested(loops') /\ loops' # <<>>
    BY <1>0, <1>5, <2>1, TakesOne DEF Explorer!NegativeCache
  <2>3. Explorer!Next1 \in 1..Entries /\ Explorer!Next1 \in Explorer!Index
    BY <1>0, <2>1, TakesOne, Sizes
  <2>4. [what |-> "path_entry", entry |-> Explorer!Next1,
         index |-> Explorer!Next1] \in Explorer!Calls
    BY <2>3, Parameters DEF Bounds, Explorer!Calls, Explorer!Boundaries
  <2>5. log' \in Seq(Explorer!Calls)
    BY <1>0, <1>5, <2>4, Recorded DEF Explorer!NegativeCache
  <2>6. QED
    BY <1>0, <1>5, <2>1, <2>2, <2>5
    DEF Explorer!NegativeCache, Explorer!Quiet, ExploreParts, ExploreTypes
<1>6. CASE Explorer!AskHooks
  <2>1. /\ loops # <<>> /\ Explorer!Loop.left # <<>>
        /\ Explorer!Loop.over = "path_entry"
    BY <1>6 DEF Explorer!AskHooks, Explorer!Goes, Explorer!Running
  <2>2. /\ Explorer!WellNested(Explorer!Taken) /\ Explorer!Taken # <<>>
        /\ Explorer!Next1 \in 1..Entries
    BY <1>0, <2>1, TakesOne, Sizes
  <2>3. Explorer!Next1 \in 0..Entries /\ active = TRUE
    BY <1>0, <2>1, <2>2, Parameters DEF Bounds, ExploreTypes
  <2>4. loops' = Append(Explorer!Taken, [over |-> "path_hook", entry |-> Explorer!Next1,
                          left |-> Explorer!Later(0, Hooks), restore |-> TRUE])
    BY <1>6, <2>3 DEF Explorer!AskHooks
  <2>5. Explorer!WellNested(loops') /\ loops' # <<>>
    <3>1. Explorer!WellNested(loops')
      BY <2>2, <2>3, <2>4, InnerLoop
    <3>2. Explorer!Taken \in Seq(Explorer!Loops)
      BY <2>2 DEF Explorer!WellNested
    <3>3. QED
      BY <2>4, <3>1, <3>2
  <2>6. QED
    BY <1>0, <1>6, <2>5
    DEF Explorer!AskHooks, Explorer!Quiet, ExploreParts, ExploreTypes
<1>7. CASE Explorer!LoopEnds
  <2>1. loops # <<>> /\ call = NoCall
    BY <1>7 DEF Explorer!LoopEnds, Explorer!Running
  <2>2. /\ Explorer!WellNested(Explorer!Front(loops)) /\ Len(loops) \in Nat \ {0}
        /\ Len(Explorer!Front(loops)) = Len(loops) - 1
        /\ Explorer!Loop = loops[Len(loops)]
    BY <1>0, <2>1, OuterLoops DEF Explorer!Loop
  <2>3. Explorer!Restored <=> Explorer!Front(loops) # <<>>
    <3>1. CASE Len(loops) = 1
      <4>1. Explorer!Front(loops) = <<>>
        BY <2>2, <3>1 DEF Explorer!WellNested
      <4>2. ~Explorer!Restored
        BY <1>0, <2>1, <2>2, <3>1 DEF Explorer!Restored, Explorer!WellNested
      <4>3. QED
        BY <4>1, <4>2
    <3>2. CASE Len(loops) # 1
      <4>1. Len(loops) \in 2..Len(loops)
        BY <2>2, <3>2
      <4>2. Explorer!Restored
        BY <1>0, <2>2, <4>1 DEF Explorer!Restored, Explorer!WellNested
      <4>3. Explorer!Front(loops) # <<>>
        BY <2>2, <4>1
      <4>4. QED
        BY <4>2, <4>3
    <3>3. QED
      BY <3>1, <3>2
  <2>4. active' \in BOOLEAN /\ (active' <=> loops' # <<>>)
    <3>1. active' = Explorer!Restored /\ loops' = Explorer!Front(loops)
      BY <1>7 DEF Explorer!LoopEnds
    <3>2. Explorer!Restored \in BOOLEAN
      BY <1>0, <2>1, <2>2
      DEF Explorer!Restored, Explorer!WellNested, Explorer!Loops
    <3>3. QED
      BY <2>3, <3>1, <3>2
  <2>5. Explorer!WellNested(loops') /\ call' = NoCall
    BY <1>7, <2>1, <2>2 DEF Explorer!LoopEnds
  <2>6. QED
    BY <1>0, <1>7, <2>4, <2>5
    DEF Explorer!LoopEnds, Explorer!Quiet, ExploreParts, ExploreTypes
<1>8. CASE Explorer!Answer
  <2>1. log' \in Seq(Explorer!Calls)
    BY <1>0, <1>8, Recorded DEF Explorer!Answer, ExploreTypes
  <2>2. QED
    BY <1>0, <1>8, <2>1
    DEF Explorer!Answer, Explorer!Quiet, ExploreParts, ExploreTypes
<1>9. CASE Explorer!HookReturns
  <2>1. log' \in Seq(Explorer!Calls)
    BY <1>0, <1>9, Recorded DEF Explorer!HookReturns, ExploreTypes
  <2>2. call \in Explorer!Calls
    BY <1>0, <1>9 DEF Explorer!HookReturns, ExploreTypes
  <2>3. call' \in Explorer!Calls
    <3>1. ASSUME NEW c \in Explorer!Calls
          PROVE  [c EXCEPT !.what = "finder"] \in Explorer!Calls
      BY <3>1 DEF Explorer!Calls
    <3>2. QED
      BY <1>9, <2>2, <3>1 DEF Explorer!HookReturns
  <2>4. QED
    BY <1>0, <1>9, <2>1, <2>3
    DEF Explorer!HookReturns, Explorer!Quiet, ExploreParts, ExploreTypes
<1>10. CASE Explorer!Interrupt
  <2>1. loops # <<>>
    BY <1>0, <1>10 DEF Explorer!Interrupt
  <2>2. loops[1] \in Explorer!Loops /\ ~loops[1].restore
    BY <1>0, <2>1 DEF Explorer!WellNested
  <2>3. active' = FALSE /\ loops' = <<>> /\ call' = NoCall
    BY <1>10, <2>2 DEF Explorer!Interrupt, Explorer!Loops
  <2>4. Explorer!WellNested(loops')
    BY <2>3 DEF Explorer!WellNested
  <2>5. QED
    BY <1>0, <1>10, <2>3, <2>4
    DEF Explorer!Interrupt, Explorer!Quiet, ExploreParts, ExploreTypes
<1>11. QED
  BY <1>1, <1>2, <1>3, <1>4, <1>5, <1>6, <1>7, <1>8, <1>9, <1>10
  DEF Explorer!Next

(***************************************************************************)
(* The order of an exploration.                                            *)
(***************************************************************************)
\* The candidates after number i: the next one, and those after that.
LEMMA LaterSteps ==
  ASSUME NEW n \in Nat, NEW i \in Nat
  PROVE  /\ Explorer!Later(i, n) # <<>> =>
              /\ i < n /\ Head(Explorer!Later(i, n)) = i + 1
              /\ Tail(Explorer!Later(i, n)) = Explorer!Later(i + 1, n)
         /\ Explorer!Later(i, n) = <<>> => n <= i
<1>1. CASE n <= i
  <2>1. Explorer!Later(i, n) = <<>>
    BY <1>1 DEF Explorer!Later
  <2>2. QED
    BY <1>1, <2>1
<1>2. CASE i < n
  <2> DEFINE s == Explorer!Later(i, n)
             m == n - i
             t == Explorer!Later(i + 1, n)
  <2>1. m \in Nat \ {0} /\ s = [k \in 1..m |-> i + k]
    BY <1>2 DEF Explorer!Later
  <2>2. t = [k \in 1 .. m - 1 |-> i + 1 + k]
    BY <1>2 DEF Explorer!Later
  <2>3. s \in Seq(Nat) /\ Len(s) = m /\ s # <<>> /\ Head(s) = i + 1
    <3> HIDE DEF m
    <3>1. QED
      BY <2>1
  <2>4. Tail(s) = [k \in 1 .. m - 1 |-> s[k + 1]]
    BY <2>1, <2>3
  <2>5. \A k \in 1 .. m - 1 : s[k + 1] = i + 1 + k
    <3> HIDE DEF m
    <3>1. QED
      BY <2>1
  <2>6. Tail(s) = t
    BY <2>2, <2>4, <2>5
  <2>7. QED
    BY <1>2, <2>3, <2>6
<1>3. QED
  BY <1>1, <1>2

\* An element of a sequence, and a sequence after one more.
LEMMA ElementOf ==
  ASSUME NEW S, NEW s \in Seq(S)
  PROVE  /\ Len(s) \in Nat /\ DOMAIN s = 1..Len(s)
         /\ \A k \in 1..Len(s) : s[k] \in S
         /\ s = <<>> <=> Len(s) = 0
         /\ \A c \in S : /\ Append(s, c) \in Seq(S)
                         /\ Len(Append(s, c)) = Len(s) + 1
                         /\ Append(s, c)[Len(s) + 1] = c
                         /\ \A k \in 1..Len(s) : Append(s, c)[k] = s[k]
  OBVIOUS

\* The two shapes of the loops in an exploration, and what a step of the
\* innermost one makes of each.
LEMMA TakenIs ==
  ASSUME Explorer!WellNested(loops), loops # <<>>
  PROVE  LET n == Len(loops) IN
         /\ n \in Nat \ {0} /\ Explorer!Loop = loops[n]
         /\ \A k \in 1..n : loops[k] \in Explorer!Loops
         /\ Explorer!Front(loops) \in Seq(Explorer!Loops)
         /\ Len(Explorer!Front(loops)) = n - 1
         /\ n > 1 => Explorer!Front(loops)[1] = loops[1]
         /\ Explorer!Taken
              = Append(Explorer!Front(loops), [loops[n] EXCEPT !.left = Tail(@)])
<1> DEFINE n == Len(loops)
<1>1. loops \in Seq(Explorer!Loops)
  BY DEF Explorer!WellNested
<1>2. n \in Nat \ {0} /\ \A k \in 1..n : loops[k] \in Explorer!Loops
  BY <1>1, ElementOf
<1>3. /\ Explorer!Last(loops) = loops[n] /\ Explorer!WellNested(Explorer!Front(loops))
      /\ Len(Explorer!Front(loops)) = n - 1
  BY OuterLoops
<1>4. Explorer!Front(loops) \in Seq(Explorer!Loops)
  BY <1>3 DEF Explorer!WellNested
<1>5. n > 1 => Explorer!Front(loops)[1] = loops[1]
  BY <1>1, <1>2 DEF Explorer!Front
<1>6. Explorer!Taken
        = Append(Explorer!Front(loops), [loops[n] EXCEPT !.left = Tail(@)])
  BY <1>3 DEF Explorer!Taken, Explorer!Loop
<1>7. QED
  BY <1>2, <1>3, <1>4, <1>5, <1>6 DEF Explorer!Loop

LEMMA TakenShape ==
  ASSUME Explorer!WellNested(loops), loops # <<>>, Explorer!Loop.left # <<>>
  PROVE  LET n == Len(loops)
             t == Explorer!Taken
         IN /\ t \in Seq(Explorer!Loops) /\ Len(t) = n
            /\ t[n].over = loops[n].over /\ t[n].entry = loops[n].entry
            /\ t[n].left = Tail(loops[n].left)
            /\ n > 1 => t[1] = loops[1]
<1> DEFINE n == Len(loops)
           f == Explorer!Front(loops)
           l == loops[n]
           m == [l EXCEPT !.left = Tail(@)]
<1>1. /\ n \in Nat \ {0} /\ l \in Explorer!Loops /\ f \in Seq(Explorer!Loops)
      /\ Len(f) = n - 1 /\ (n > 1 => f[1] = loops[1])
      /\ Explorer!Taken = Append(f, m)
  BY TakenIs
<1>2. m.over = l.over /\ m.entry = l.entry /\ m.left = Tail(l.left)
  <2>1. ASSUME NEW r \in Explorer!Loops
        PROVE  LET q == [r EXCEPT !.left = Tail(@)] IN
               q.over = r.over /\ q.entry = r.entry /\ q.left = Tail(r.left)
    BY <2>1 DEF Explorer!Loops
  <2>2. QED
    BY <1>1, <2>1
<1>3. Explorer!Taken \in Seq(Explorer!Loops)
  BY TakesOne DEF Explorer!WellNested
<1>4. /\ Len(Explorer!Taken) = n /\ Explorer!Taken[n] = m
      /\ n > 1 => Explorer!Taken[1] = f[1]
  <2> HIDE DEF m, f
  <2>1. QED
    BY <1>1
<1>5. QED
  BY <1>1, <1>2, <1>3, <1>4

\* What a call is a call of, and where the exploration is, are calls.
LEMMA SiblingIs ==
  ASSUME NEW c \in Explorer!Calls
  PROVE  /\ Explorer!Sibling(c) \in Explorer!Calls
         /\ Explorer!Sibling(c).what # "finder"
         /\ c.what # "finder" => Explorer!Sibling(c) = c
         /\ Explorer!Sibling([c EXCEPT !.what = "finder"])
              = [c EXCEPT !.what = "path_hook"]
         /\ c.what = "path_hook" => [c EXCEPT !.what = "path_hook"] = c
  BY DEF Explorer!Sibling, Explorer!Calls, Explorer!Boundaries

LEMMA VisitedIs ==
  ASSUME ExploreTypes, NEW n \in 0..Len(log)
  PROVE  n > 0 => Explorer!Visited(n) \in Explorer!Calls
<1>1. n > 0 => log[n] \in Explorer!Calls
  BY ElementOf DEF ExploreTypes
<1>2. n > 0 => Explorer!Visited(n) = Explorer!Sibling(log[n])
  BY DEF Explorer!Visited
<1>3. QED
  BY <1>1, <1>2, SiblingIs

\* A record that follows the others keeps them in order, and is where the
\* exploration is then.
LEMMA OrderGrows ==
  ASSUME ExploreTypes, Explorer!Ordered, UNCHANGED trigger,
         NEW c \in Explorer!Calls, Explorer!Follows(c, Len(log)),
         log' = Append(log, c)
  PROVE  /\ Explorer!Ordered' /\ Len(log') = Len(log) + 1
         /\ log'[Len(log')] = c
         /\ Explorer!Visited(Len(log))' = Explorer!Sibling(c)
<1>1. PICK n : n = Len(log) /\ n \in Nat
  BY DEF ExploreTypes
<1>2. /\ Len(log') = n + 1 /\ log'[n + 1] = c /\ DOMAIN log' = 1 .. n + 1
      /\ DOMAIN log = 1..n /\ \A k \in 1..n : log'[k] = log[k]
  <2>1. log' \in Seq(Explorer!Calls)
    BY ElementOf DEF ExploreTypes
  <2>2. QED
    BY <1>1, <2>1, ElementOf DEF ExploreTypes
<1>3. ASSUME NEW d, NEW k \in 0..n
      PROVE  Explorer!Follows(d, k)' <=> Explorer!Follows(d, k)
  <2>1. k > 0 => log'[k] = log[k]
    BY <1>1, <1>2
  <2>2. Explorer!Visited(k)' = Explorer!Visited(k)
    BY <1>1, <2>1 DEF Explorer!Visited
  <2>3. QED
    BY <1>1, <2>1, <2>2 DEF Explorer!Follows, Explorer!Following
<1>4. ASSUME NEW k \in 1 .. n + 1
      PROVE  Explorer!Follows(log[k], k - 1)'
  <2>1. k - 1 \in 0..n
    BY <1>1
  <2>2. Explorer!Follows(log'[k], k - 1)
    <3>1. CASE k = n + 1
      BY <1>1, <1>2, <3>1
    <3>2. CASE k # n + 1
      <4>1. k \in 1..n
        BY <1>1, <3>2
      <4>2. QED
        BY <1>2, <4>1 DEF Explorer!Ordered
    <3>3. QED
      BY <3>1, <3>2
  <2>3. QED
    BY <1>3, <2>1, <2>2
<1>5. Explorer!Ordered'
  BY <1>2, <1>4 DEF Explorer!Ordered
<1>6. QED
  BY <1>1, <1>2, <1>5 DEF Explorer!Visited

\* While a loop is at a position, that is a call.
LEMMA PositionIs ==
  ASSUME ExploreTypes, Explorer!AtPosition(Explorer!Visited(Len(log)))
  PROVE  Explorer!Visited(Len(log)) \in Explorer!Calls
<1> DEFINE c == Explorer!Visited(Len(log))
<1>1. Len(log) \in Nat
  BY ElementOf DEF ExploreTypes
<1>2. CASE Len(log) > 0
  BY <1>1, <1>2, VisitedIs
<1>3. CASE Len(log) = 0
  <2>1. /\ c.what = trigger.over /\ c.index = trigger.index
        /\ c = [what |-> trigger.over, index |-> trigger.index, entry |-> c.entry]
    BY <1>3 DEF Explorer!Visited
  <2>2. trigger.over \in Explorer!Boundaries /\ trigger.index \in Explorer!Index
    BY DEF ExploreTypes
  <2>3. c.entry \in 0..Entries
    BY Parameters DEF Bounds, Explorer!AtPosition
  <2>4. QED
    BY <2>1, <2>2, <2>3 DEF Explorer!Calls
<1>4. QED
  BY <1>1, <1>2, <1>3

\* The next candidate of the same kind.
LEMMA NextOf ==
  ASSUME NEW c \in Explorer!Calls, c.what # "path_entry",
         c.index < Explorer!Size(c.what)
  PROVE  [what |-> c.what, index |-> c.index + 1, entry |-> c.entry]
           \in Explorer!Following(c)
<1>1. [c EXCEPT !.index = @ + 1]
        = [what |-> c.what, index |-> c.index + 1, entry |-> c.entry]
  BY DEF Explorer!Calls
<1>2. QED
  BY <1>1 DEF Explorer!Following

\* The first candidates of the next path entry.
LEMMA NextEntry ==
  ASSUME trigger.over = "path_entry", NEW c \in Explorer!Calls,
         c.what \in {"path_entry", "path_hook"}, c.entry < Entries,
         Explorer!EntryDone(c)
  PROVE  /\ [what |-> "path_entry", index |-> c.entry + 1, entry |-> c.entry + 1]
              \in Explorer!Following(c)
         /\ [what |-> "path_hook", index |-> 1, entry |-> c.entry + 1]
              \in Explorer!Following(c)
<1>1. c.index \in Nat /\ Hooks \in Nat
  BY Parameters DEF Bounds, Explorer!Calls, Explorer!Index
<1>2. ~(c.what # "path_entry" /\ c.index < Explorer!Size(c.what))
  BY <1>1, Sizes DEF Explorer!EntryDone
<1>3. QED
  BY <1>2 DEF Explorer!Following

\* The candidate a loop takes next follows the position, and becomes it.
LEMMA NextCandidate ==
  ASSUME ExploreParts, Explorer!InOrder, ~disturbed, Explorer!Goes,
         loops' = Explorer!Taken, UNCHANGED <<phase, trigger>>,
         NEW d, d = [what |-> Explorer!Loop.over, index |-> Explorer!Next1,
                     entry |-> IF Explorer!Loop.over = "path_entry"
                                 THEN Explorer!Next1 ELSE Explorer!Loop.entry]
  PROVE  /\ d \in Explorer!Calls /\ d \in Explorer!Following(Explorer!Visited(Len(log)))
         /\ d.what # "finder"
         /\ Explorer!AtPosition(d)'
<1> DEFINE c == Explorer!Visited(Len(log))
           n == Len(loops)
           l == loops[n]
<1>1. /\ ExploreTypes /\ Explorer!WellNested(loops) /\ loops # <<>>
      /\ call = NoCall /\ Explorer!Loop.left # <<>>
  BY DEF ExploreParts, Explorer!Goes, Explorer!Running
<1>2. Explorer!AtPosition(c) /\ c \in Explorer!Calls
  BY <1>1, PositionIs DEF Explorer!InOrder, Explorer!Position
<1>3. /\ n \in Nat \ {0} /\ Explorer!Loop = l /\ l \in Explorer!Loops
      /\ loops[1] \in Explorer!Loops
      /\ Len(loops') = n
      /\ loops'[n].over = l.over /\ loops'[n].entry = l.entry
      /\ loops'[n].left = Tail(l.left) /\ (n > 1 => loops'[1] = loops[1])
  BY <1>1, TakenIs, TakenShape
<1>4. /\ l.over \in Explorer!Boundaries /\ l.entry \in 0..Entries
      /\ Explorer!Next1 \in 1..Explorer!Size(l.over) /\ l.left # <<>>
      /\ Explorer!Next1 = Head(l.left)
  BY <1>1, <1>3, TakesOne DEF Explorer!Next1
<1>5. /\ c.index \in Nat /\ c.entry \in Nat /\ Hooks \in Nat \ {0} /\ Entries \in Nat
      /\ Explorer!Size("path_entry") = Entries /\ Explorer!Size("path_hook") = Hooks
      /\ \A b \in Explorer!Boundaries : Explorer!Size(b) \in Nat
  BY <1>2, Parameters, Sizes DEF Bounds, Explorer!Calls, Explorer!Index
<1>6. CASE trigger.over # "path_entry"
  <2>1. /\ n = 1 /\ l.over = c.what /\ c.what = trigger.over /\ l.entry = 0
        /\ c.entry = 0 /\ l.left = Explorer!Later(c.index, Explorer!Size(c.what))
    BY <1>2, <1>6 DEF Explorer!AtPosition
  <2>2. Explorer!Size(c.what) \in Nat
    BY <1>4, <1>5, <2>1
  <2>3. /\ c.index < Explorer!Size(c.what) /\ Explorer!Next1 = c.index + 1
        /\ Tail(l.left) = Explorer!Later(c.index + 1, Explorer!Size(c.what))
    BY <1>4, <1>5, <2>1, <2>2, LaterSteps
  <2>4. d = [what |-> c.what, index |-> c.index + 1, entry |-> c.entry]
    BY <1>3, <1>6, <2>1, <2>3
  <2>5. d \in Explorer!Following(c)
    BY <1>2, <1>6, <2>1, <2>3, <2>4, NextOf
  <2>6. d \in Explorer!Calls /\ d.what # "finder"
    <3>1. c.index + 1 \in Explorer!Index
      BY <1>4, <2>1, <2>3, Sizes
    <3>2. QED
      BY <1>2, <1>4, <2>1, <2>4, <3>1 DEF Explorer!Calls, Explorer!Boundaries
  <2>7. Explorer!AtPosition(d)'
    <3>1. d.what = c.what /\ d.index = c.index + 1 /\ d.entry = 0
      BY <2>1, <2>4
    <3>2. /\ phase' = "on" /\ trigger' = trigger
      BY <1>2 DEF Explorer!AtPosition
    <3>3. /\ Len(loops') = 1 /\ loops'[1].over = trigger.over /\ loops'[1].entry = 0
      BY <1>3, <2>1
    <3>4. /\ loops'[1].left = Explorer!Later(d.index, Explorer!Size(d.what))
      BY <1>3, <2>1, <2>3, <3>1
    <3>5. QED
      BY <1>6, <2>1, <3>1, <3>2, <3>3, <3>4 DEF Explorer!AtPosition
  <2>8. QED
    BY <2>5, <2>6, <2>7
<1>7. CASE trigger.over = "path_entry" /\ n = 1
  <2>1. /\ l.over = "path_entry" /\ c.what \in {"path_entry", "path_hook"}
        /\ c.entry \in 1..Entries /\ Explorer!EntryDone(c)
        /\ l.left = Explorer!Later(c.entry, Entries)
    BY <1>2, <1>7 DEF Explorer!AtPosition
  <2>2. /\ c.entry < Entries /\ Explorer!Next1 = c.entry + 1
        /\ Tail(l.left) = Explorer!Later(c.entry + 1, Entries)
    BY <1>4, <1>5, <2>1, LaterSteps
  <2>3. d = [what |-> "path_entry", index |-> c.entry + 1, entry |-> c.entry + 1]
    BY <1>3, <2>1, <2>2
  <2>4. d \in Explorer!Following(c)
    BY <1>2, <1>7, <2>1, <2>2, <2>3, NextEntry
  <2>5. d \in Explorer!Calls /\ d.what # "finder"
    <3>1. c.entry + 1 \in Explorer!Index /\ c.entry + 1 \in 0..Entries
      BY <1>4, <1>5, <2>1, <2>2, Sizes
    <3>2. QED
      BY <2>3, <3>1 DEF Explorer!Calls, Explorer!Boundaries
  <2>6. Explorer!AtPosition(d)'
    <3>1. /\ d.what = "path_entry" /\ d.entry = c.entry + 1
          /\ d.entry \in 1..Entries
      BY <1>5, <2>1, <2>2, <2>3
    <3>2. phase' = "on" /\ trigger' = trigger
      BY <1>2 DEF Explorer!AtPosition
    <3>3. Len(loops') = 1 /\ loops'[1].over = trigger.over
      BY <1>3, <1>7, <2>1
    <3>4. loops'[1].left = Explorer!Later(d.entry, Entries)
      BY <1>3, <1>7, <2>1, <2>2, <3>1
    <3>5. QED
      BY <1>7, <3>1, <3>2, <3>3, <3>4
      DEF Explorer!AtPosition, Explorer!EntryDone
  <2>7. QED
    BY <2>4, <2>5, <2>6
<1>8. CASE trigger.over = "path_entry" /\ n # 1
  <2>1. /\ n = 2 /\ loops[1].over = "path_entry"
        /\ c.what \in {"path_entry", "path_hook"} /\ c.entry \in 1..Entries
        /\ loops[1].left = Explorer!Later(l.entry, Entries)
        /\ \/ /\ c.what = "path_hook" /\ c.entry = l.entry
              /\ l.left = Explorer!Later(c.index, Hooks)
           \/ /\ Explorer!EntryDone(c) /\ c.entry + 1 = l.entry
              /\ l.left = Explorer!Later(0, Hooks)
    BY <1>2, <1>8 DEF Explorer!AtPosition
  <2>2. l.over = "path_hook"
    BY <1>1, <2>1 DEF Explorer!WellNested
  <2>3. \/ /\ c.what = "path_hook" /\ c.entry = l.entry /\ c.index < Hooks
           /\ Explorer!Next1 = c.index + 1
           /\ Tail(l.left) = Explorer!Later(c.index + 1, Hooks)
        \/ /\ Explorer!EntryDone(c) /\ c.entry + 1 = l.entry
           /\ Explorer!Next1 = 1 /\ Tail(l.left) = Explorer!Later(1, Hooks)
    <3>1. CASE /\ c.what = "path_hook" /\ c.entry = l.entry
               /\ l.left = Explorer!Later(c.index, Hooks)
      BY <1>4, <1>5, <3>1, LaterSteps
    <3>2. CASE /\ Explorer!EntryDone(c) /\ c.entry + 1 = l.entry
               /\ l.left = Explorer!Later(0, Hooks)
      <4>1. /\ Head(l.left) = 0 + 1
            /\ Tail(l.left) = Explorer!Later(0 + 1, Hooks)
        BY <1>4, <1>5, <3>2, LaterSteps
      <4>2. QED
        BY <1>4, <3>2, <4>1
    <3>3. QED
      BY <2>1, <3>1, <3>2
  <2>4. /\ d = [what |-> "path_hook", index |-> Explorer!Next1, entry |-> l.entry]
        /\ l.entry \in 1..Entries
    BY <1>3, <1>4, <1>5, <2>1, <2>2, <2>3
  <2>5. d \in Explorer!Following(c)
    <3>1. CASE c.entry + 1 = l.entry /\ Explorer!EntryDone(c) /\ Explorer!Next1 = 1
      <4>1. c.entry < Entries
        BY <1>5, <2>4, <3>1
      <4>2. QED
        BY <1>2, <1>8, <2>1, <2>4, <3>1, <4>1, NextEntry
    <3>2. CASE /\ c.what = "path_hook" /\ c.entry = l.entry /\ c.index < Hooks
               /\ Explorer!Next1 = c.index + 1
      BY <1>2, <1>5, <2>4, <3>2, NextOf
    <3>3. QED
      BY <2>3, <3>1, <3>2
  <2>6. d \in Explorer!Calls /\ d.what # "finder"
    <3>1. Explorer!Next1 \in Explorer!Index
      BY <1>4, <2>2, Sizes
    <3>2. QED
      BY <1>5, <2>4, <3>1 DEF Explorer!Calls, Explorer!Boundaries
  <2>7. d.index = Explorer!Next1 /\ Tail(l.left) = Explorer!Later(Explorer!Next1, Hooks)
    <3>1. Tail(l.left) = Explorer!Later(Explorer!Next1, Hooks)
      BY <2>3
    <3>2. QED
      BY <2>4, <3>1
  <2>8. Explorer!AtPosition(d)'
    <3>1. /\ d.what = "path_hook" /\ d.entry = l.entry /\ d.entry \in 1..Entries
      BY <2>4
    <3>2. phase' = "on" /\ trigger' = trigger
      BY <1>2 DEF Explorer!AtPosition
    <3>3. /\ Len(loops') = 2 /\ loops'[1] = loops[1] /\ loops'[2].entry = l.entry
          /\ loops'[2].left = Explorer!Later(d.index, Hooks)
      <4>1. /\ Len(loops') = 2 /\ loops'[1] = loops[1] /\ loops'[2].entry = l.entry
            /\ loops'[2].left = Tail(l.left)
        BY <1>3, <2>1
      <4>2. QED
        BY <2>7, <4>1
    <3>4. /\ loops'[1].over = trigger.over
          /\ loops'[1].left = Explorer!Later(loops'[2].entry, Entries)
      BY <1>8, <2>1, <3>3
    <3>5. d.entry = loops'[2].entry /\ Len(loops') # 1
      BY <3>1, <3>3
    <3>6. QED
      BY <1>8, <3>1, <3>2, <3>3, <3>4, <3>5 DEF Explorer!AtPosition
  <2>9. QED
    BY <2>5, <2>6, <2>8
<1>9. QED
  BY <1>6, <1>7, <1>8

\* Where nothing is recorded the order stays, and with it where the
\* exploration has got.
LEMMA OrderStays ==
  ASSUME UNCHANGED <<log, trigger>>
  PROVE  /\ Explorer!Ordered' <=> Explorer!Ordered
         /\ Explorer!Visited(Len(log))' = Explorer!Visited(Len(log))
  BY DEF Explorer!Ordered, Explorer!Follows, Explorer!Following, Explorer!Visited

\* So it does when the exploration is over.
LEMMA OrderEnds ==
  ASSUME Explorer!InOrder, UNCHANGED <<log, trigger, disturbed>>,
         loops' = <<>>, call' = NoCall
  PROVE  Explorer!InOrder'
  BY OrderStays DEF Explorer!InOrder

\* A record of a call that follows, with the loops where they were or where they
\* have gone on to that call.
LEMMA OrderRecords ==
  ASSUME ExploreTypes, Explorer!InOrder, ~disturbed, phase = "on",
         UNCHANGED <<trigger, disturbed>>, NEW d \in Explorer!Calls,
         Explorer!Follows(d, Len(log)), Explorer!Record(d)
  PROVE  /\ Explorer!Ordered' /\ Len(log') = Len(log) + 1 /\ Len(log') > 0
         /\ log'[Len(log')] = d
         /\ Explorer!Visited(Len(log))' = Explorer!Sibling(d)
<1>1. log' = Append(log, d)
  BY DEF Explorer!Record, Explorer!MonitorOn
<1>2. Explorer!Ordered
  BY DEF Explorer!InOrder
<1>3. Len(log) \in Nat
  BY ElementOf DEF ExploreTypes
<1>4. QED
  BY <1>1, <1>2, <1>3, OrderGrows

\* Every step keeps the order of the exploration it is in.
LEMMA OrderStep ==
  ASSUME ExploreParts, Explorer!InOrder, [Explorer!Next]_exploreVars
  PROVE  Explorer!InOrder'
<1> DEFINE c == Explorer!Visited(Len(log))
<1>0. /\ ExploreTypes /\ Explorer!WellNested(loops)
      /\ active <=> loops # <<>>
      /\ call # NoCall => loops # <<>>
  BY DEF ExploreParts
<1>1. CASE UNCHANGED exploreVars
  BY <1>1 DEF exploreVars, Explorer!InOrder, Explorer!AtPosition,
     Explorer!Position, Explorer!Ordered, Explorer!Follows, Explorer!Following,
     Explorer!Visited, Explorer!Later, Explorer!EntryDone
<1>2. CASE Explorer!ChangePhase
  <2>1. CASE loops # <<>>
    BY <1>2, <2>1 DEF Explorer!ChangePhase, Explorer!InOrder
  <2>2. CASE loops = <<>>
    BY <1>0, <1>2, <2>2, OrderEnds DEF Explorer!ChangePhase, ExploreTypes
  <2>3. QED
    BY <2>1, <2>2
<1>3. ASSUME NEW b \in Explorer!Boundaries, NEW m \in BOOLEAN,
             NEW i \in 1..Explorer!Size(b), Explorer!Start(b, i, m)
      PROVE  Explorer!InOrder'
  <2> DEFINE d == [what |-> b, index |-> i,
                   entry |-> IF b = "path_entry" THEN i ELSE 0]
  <2>1. /\ loops = <<>> /\ phase' = "on" /\ log' = <<>> /\ call' = NoCall
        /\ trigger' = [over |-> b, index |-> i]
        /\ loops' = Append(loops, [over |-> b, entry |-> 0,
                                   left |-> Explorer!Later(i, Explorer!Size(b)),
                                   restore |-> active])
    BY <1>0, <1>3 DEF Explorer!Start, Explorer!Enabled, ExploreTypes
  <2>2. /\ Len(loops') = 1 /\ loops'[1].over = b /\ loops'[1].entry = 0
        /\ loops'[1].left = Explorer!Later(i, Explorer!Size(b))
    BY <2>1
  <2>3. Explorer!Ordered'
    BY <2>1 DEF Explorer!Ordered
  <2>4. Explorer!Position' = d
    BY <2>1 DEF Explorer!Position, Explorer!Visited
  <2>5. b = "path_entry" => i \in 1..Entries /\ Explorer!Size(b) = Entries
    BY Sizes
  <2>6. Explorer!AtPosition(Explorer!Position)'
    BY <2>1, <2>2, <2>4, <2>5 DEF Explorer!AtPosition, Explorer!EntryDone
  <2>7. QED
    BY <2>1, <2>3, <2>6 DEF Explorer!InOrder
<1>4. CASE ~disturbed /\ Explorer!CallCandidate
  <2> DEFINE d == [what |-> Explorer!Loop.over, index |-> Explorer!Next1,
                   entry |-> IF Explorer!Loop.over = "path_entry"
                               THEN Explorer!Next1 ELSE Explorer!Loop.entry]
  <2>1. /\ call' = d /\ loops' = Explorer!Taken /\ Explorer!Goes
        /\ UNCHANGED <<phase, trigger, log, disturbed>>
    BY <1>4 DEF Explorer!CallCandidate, Explorer!Quiet
  <2>2. PICK e : e = d
    OBVIOUS
  <2>3. /\ e \in Explorer!Calls /\ e \in Explorer!Following(c) /\ e.what # "finder"
        /\ Explorer!AtPosition(e)'
    BY <1>4, <2>1, <2>2, NextCandidate
  <2>4. call' = e /\ call' # NoCall
    BY <2>1, <2>2, <2>3, Parameters
  <2>5. Explorer!Ordered' /\ Explorer!Visited(Len(log))' = c
    BY <1>4, <2>1, OrderStays DEF Explorer!InOrder
  <2>6. Explorer!Follows(call, Len(log))'
    <3>1. Explorer!Following(e)' = Explorer!Following(e)
          /\ Explorer!Following(c)' = Explorer!Following(c)
      BY <2>1, <2>5 DEF Explorer!Following
    <3>2. QED
      BY <2>3, <2>4, <2>5, <3>1 DEF Explorer!Follows
  <2>7. Explorer!Position' = e
    BY <2>3, <2>4 DEF Explorer!Position, Explorer!Sibling
  <2>8. Explorer!AtPosition(Explorer!Position)'
    BY <2>3, <2>7 DEF Explorer!AtPosition, Explorer!EntryDone
  <2>9. QED
    BY <2>5, <2>6, <2>8 DEF Explorer!InOrder
<1>5. CASE ~disturbed /\ Explorer!NegativeCache
  <2> DEFINE d == [what |-> Explorer!Loop.over, index |-> Explorer!Next1,
                   entry |-> IF Explorer!Loop.over = "path_entry"
                               THEN Explorer!Next1 ELSE Explorer!Loop.entry]
  <2>1. /\ loops' = Explorer!Taken /\ Explorer!Goes /\ Explorer!Record(d)
        /\ UNCHANGED <<phase, trigger, disturbed, call>> /\ call = NoCall
        /\ phase = "on"
    BY <1>5 DEF Explorer!NegativeCache, Explorer!Quiet, Explorer!Goes,
       Explorer!Running, Explorer!Enabled
  <2>2. PICK e : e = d
    OBVIOUS
  <2>3. /\ e \in Explorer!Calls /\ e \in Explorer!Following(c) /\ e.what # "finder"
        /\ Explorer!AtPosition(e)'
    BY <1>5, <2>1, <2>2, NextCandidate
  <2>4. Explorer!Follows(e, Len(log)) /\ Explorer!Sibling(e) = e
    BY <2>3 DEF Explorer!Follows, Explorer!Sibling
  <2>5. Explorer!Ordered' /\ Explorer!Visited(Len(log))' = e
    BY <1>0, <1>5, <2>1, <2>2, <2>3, <2>4, OrderRecords
  <2>6. Explorer!Position' = e
    BY <2>1, <2>5 DEF Explorer!Position
  <2>7. Explorer!AtPosition(Explorer!Position)'
    BY <2>3, <2>6 DEF Explorer!AtPosition, Explorer!EntryDone
  <2>8. QED
    BY <2>1, <2>5, <2>7 DEF Explorer!InOrder
<1>6. CASE ~disturbed /\ Explorer!AskHooks
  <2> DEFINE l == loops[Len(loops)]
             h == [over |-> "path_hook", entry |-> Explorer!Next1,
                   left |-> Explorer!Later(0, Hooks), restore |-> active]
  <2>1. /\ loops' = Append(Explorer!Taken, h)
        /\ Explorer!Loop.over = "path_entry"
        /\ UNCHANGED <<phase, trigger, disturbed, call, log>> /\ call = NoCall
        /\ loops # <<>> /\ Explorer!Loop.left # <<>>
    BY <1>6 DEF Explorer!AskHooks, Explorer!Quiet, Explorer!Goes, Explorer!Running
  <2>2. Explorer!AtPosition(c) /\ c \in Explorer!Calls
    BY <1>0, <1>6, <2>1, PositionIs DEF Explorer!InOrder, Explorer!Position
  <2>3. /\ Explorer!Loop = l /\ Len(loops) \in Nat \ {0}
        /\ Explorer!Taken \in Seq(Explorer!Loops)
        /\ Len(Explorer!Taken) = Len(loops)
        /\ Explorer!Taken[Len(loops)].over = l.over
        /\ Explorer!Taken[Len(loops)].left = Tail(l.left)
    BY <1>0, <2>1, TakenIs, TakenShape
  <2>4. /\ trigger.over = "path_entry" /\ Len(loops) = 1
        /\ phase = "on" /\ c.what \in {"path_entry", "path_hook"}
        /\ c.entry \in 1..Entries /\ Explorer!EntryDone(c)
        /\ l.left = Explorer!Later(c.entry, Entries)
    <3>1. Len(loops) # 2
      BY <1>0, <2>1, <2>3 DEF Explorer!WellNested
    <3>2. trigger.over = "path_entry"
      BY <2>1, <2>2, <2>3 DEF Explorer!AtPosition
    <3>3. QED
      BY <2>2, <2>3, <3>1, <3>2 DEF Explorer!AtPosition
  <2>5. /\ Explorer!Next1 = c.entry + 1
        /\ Tail(l.left) = Explorer!Later(c.entry + 1, Entries)
    <3>1. Entries \in Nat /\ c.entry \in Nat
      BY <2>4, Parameters DEF Bounds
    <3>2. /\ Explorer!Next1 = Head(l.left)
          /\ Explorer!Later(c.entry, Entries) # <<>>
      BY <2>1, <2>3, <2>4 DEF Explorer!Next1
    <3>3. QED
      BY <2>4, <3>1, <3>2, LaterSteps
  <2>6. /\ Len(loops') = 2 /\ loops'[1] = Explorer!Taken[1] /\ loops'[2] = h
    <3>1. PICK t, g : t = Explorer!Taken /\ g = h
      OBVIOUS
    <3>2. t \in Seq(Explorer!Loops) /\ Len(t) = 1 /\ loops' = Append(t, g)
      BY <2>1, <2>3, <2>4, <3>1
    <3>3. t \in Seq(Explorer!Loops \union {g})
      BY <3>2, WiderRange
    <3>4. Len(loops') = Len(t) + 1 /\ loops'[Len(t) + 1] = g /\ loops'[1] = t[1]
      BY <3>2, <3>3, ElementOf
    <3>5. QED
      BY <3>1, <3>2, <3>4
  <2>7. /\ loops'[1].over = trigger.over /\ loops'[2].entry = c.entry + 1
        /\ loops'[1].left = Explorer!Later(loops'[2].entry, Entries)
        /\ loops'[2].left = Explorer!Later(0, Hooks)
    <3>1. /\ loops'[2].entry = c.entry + 1
          /\ loops'[2].left = Explorer!Later(0, Hooks)
      BY <2>5, <2>6
    <3>2. loops'[1].over = l.over /\ loops'[1].left = Tail(l.left)
      BY <2>3, <2>4, <2>6
    <3>3. l.over = trigger.over
      BY <2>1, <2>3, <2>4
    <3>4. QED
      BY <2>5, <3>1, <3>2, <3>3
  <2>8. Explorer!Ordered' /\ Explorer!Position' = c
    BY <1>6, <2>1, OrderStays DEF Explorer!InOrder, Explorer!Position
  <2>9. Explorer!AtPosition(Explorer!Position)'
    BY <2>1, <2>4, <2>6, <2>7, <2>8 DEF Explorer!AtPosition, Explorer!EntryDone
  <2>10. QED
    BY <2>1, <2>8, <2>9 DEF Explorer!InOrder
<1>7. CASE ~disturbed /\ Explorer!LoopEnds
  <2> DEFINE n == Len(loops)
  <2>1. /\ loops' = Explorer!Front(loops)
        /\ UNCHANGED <<phase, trigger, disturbed, call, log>> /\ call = NoCall
        /\ loops # <<>> /\ (Explorer!Loop.left = <<>> \/ phase # "on")
    BY <1>7
    DEF Explorer!LoopEnds, Explorer!Quiet, Explorer!Running, Explorer!Enabled
  <2>2. Explorer!AtPosition(c) /\ c \in Explorer!Calls
    BY <1>0, <1>7, <2>1, PositionIs DEF Explorer!InOrder, Explorer!Position
  <2>3. /\ Explorer!Loop = loops[n] /\ n \in Nat \ {0}
        /\ loops' \in Seq(Explorer!Loops) /\ Len(loops') = n - 1
        /\ n > 1 => loops'[1] = loops[1]
    BY <1>0, <2>1, TakenIs
  <2>4. CASE n = 1
    <3>1. loops' = <<>>
      BY <2>3, <2>4
    <3>2. QED
      BY <1>7, <2>1, <3>1, OrderEnds
  <2>5. CASE n # 1
    <3>1. /\ n = 2 /\ trigger.over = "path_entry" /\ phase = "on"
          /\ loops[1].over = "path_entry"
          /\ c.what \in {"path_entry", "path_hook"} /\ c.entry \in 1..Entries
          /\ loops[1].left = Explorer!Later(loops[2].entry, Entries)
          /\ \/ /\ c.what = "path_hook" /\ c.entry = loops[2].entry
                /\ loops[2].left = Explorer!Later(c.index, Hooks)
             \/ loops[2].left = Explorer!Later(0, Hooks)
      BY <2>2, <2>5 DEF Explorer!AtPosition
    <3>2. c.index \in Nat /\ Hooks \in Nat \ {0} /\ loops[2].left = <<>>
      BY <2>1, <2>2, <2>3, <3>1, Parameters
      DEF Bounds, Explorer!Calls, Explorer!Index
    <3>3. /\ c.what = "path_hook" /\ c.entry = loops[2].entry
          /\ loops[2].left = Explorer!Later(c.index, Hooks)
      BY <3>1, <3>2, LaterSteps
    <3>4. c.index >= Hooks
      BY <3>2, <3>3, LaterSteps
    <3>5. /\ Len(loops') = 1 /\ loops'[1].over = trigger.over
          /\ loops'[1].left = Explorer!Later(c.entry, Entries)
      BY <2>3, <3>1, <3>3
    <3>6. Explorer!Ordered' /\ Explorer!Position' = c
      BY <1>7, <2>1, OrderStays DEF Explorer!InOrder, Explorer!Position
    <3>7. Explorer!AtPosition(Explorer!Position)'
      BY <2>1, <3>1, <3>4, <3>5, <3>6 DEF Explorer!AtPosition, Explorer!EntryDone
    <3>8. QED
      BY <2>1, <3>6, <3>7 DEF Explorer!InOrder
  <2>6. QED
    BY <2>4, <2>5
<1>8. CASE ~disturbed /\ Explorer!Answer
  <2>1. /\ call # NoCall /\ call \in Explorer!Calls /\ call' = NoCall /\ loops # <<>>
        /\ Explorer!Record(call)
        /\ UNCHANGED <<phase, trigger, disturbed, loops>>
    BY <1>0, <1>8 DEF Explorer!Answer, Explorer!Quiet, ExploreTypes
  <2>2. PICK e : e = call
    OBVIOUS
  <2>3. /\ Explorer!AtPosition(Explorer!Sibling(e)) /\ phase = "on"
        /\ Explorer!Follows(e, Len(log))
    BY <1>8, <2>1, <2>2
    DEF Explorer!InOrder, Explorer!Position, Explorer!AtPosition
  <2>4. Explorer!Ordered' /\ Explorer!Visited(Len(log))' = Explorer!Sibling(e)
    BY <1>0, <1>8, <2>1, <2>2, <2>3, OrderRecords
  <2>5. PICK f : f = Explorer!Sibling(e)
    OBVIOUS
  <2>6. Explorer!Position' = f
    BY <2>1, <2>4, <2>5 DEF Explorer!Position
  <2>7. Explorer!AtPosition(f)
    BY <2>3, <2>5
  <2>8. Explorer!AtPosition(f)'
    BY <2>1, <2>7 DEF Explorer!AtPosition, Explorer!EntryDone
  <2>9. Explorer!AtPosition(Explorer!Position)'
    BY <2>6, <2>8 DEF Explorer!AtPosition, Explorer!EntryDone
  <2>10. QED
    BY <2>1, <2>4, <2>9 DEF Explorer!InOrder
<1>9. CASE ~disturbed /\ Explorer!HookReturns
  <2>1. /\ call # NoCall /\ call \in Explorer!Calls /\ loops # <<>>
        /\ call.what = "path_hook" /\ call' = [call EXCEPT !.what = "finder"]
        /\ Explorer!Record(call)
        /\ UNCHANGED <<phase, trigger, disturbed, loops>>
    BY <1>0, <1>9 DEF Explorer!HookReturns, Explorer!Quiet, ExploreTypes
  <2>2. PICK e : e = call
    OBVIOUS
  <2>3. /\ e \in Explorer!Calls /\ e.what = "path_hook" /\ Explorer!Sibling(e) = e
        /\ call' \in Explorer!Calls /\ call'.what = "finder"
        /\ Explorer!Sibling(call') = e
    <3>1. ASSUME NEW f \in Explorer!Calls, f.what = "path_hook"
          PROVE  LET g == [f EXCEPT !.what = "finder"] IN
                 /\ g \in Explorer!Calls /\ g.what = "finder"
                 /\ Explorer!Sibling(g) = f /\ Explorer!Sibling(f) = f
      <4>1. [f EXCEPT !.what = "finder"] \in Explorer!Calls
            /\ [f EXCEPT !.what = "finder"].what = "finder"
        BY <3>1 DEF Explorer!Calls
      <4>2. QED
        BY <3>1, <4>1, SiblingIs
    <3>2. QED
      BY <2>1, <2>2, <3>1
  <2>4. /\ Explorer!AtPosition(e) /\ phase = "on" /\ Explorer!Follows(e, Len(log))
    BY <1>9, <2>1, <2>2, <2>3
    DEF Explorer!InOrder, Explorer!Position, Explorer!AtPosition
  <2>5. /\ Explorer!Ordered' /\ Len(log') > 0 /\ log'[Len(log')] = e
    BY <1>0, <1>9, <2>1, <2>2, <2>3, <2>4, OrderRecords
  <2>6. call' # NoCall /\ Explorer!Sibling(call)' = e
    <3>1. Explorer!Sibling(call)' = Explorer!Sibling(call')
      BY DEF Explorer!Sibling
    <3>2. QED
      BY <2>3, <3>1, Parameters
  <2>7. Explorer!Follows(call, Len(log))' /\ Explorer!Position' = e
    BY <2>3, <2>5, <2>6 DEF Explorer!Follows, Explorer!Position
  <2>8. Explorer!AtPosition(e)'
    <3>1. call # NoCall /\ call' # NoCall
      BY <2>1, <2>6
    <3>2. QED
      BY <2>1, <2>4, <3>1 DEF Explorer!AtPosition, Explorer!EntryDone
  <2>9. Explorer!AtPosition(Explorer!Position)'
    BY <2>7, <2>8 DEF Explorer!AtPosition, Explorer!EntryDone
  <2>10. QED
    BY <2>5, <2>7, <2>9 DEF Explorer!InOrder
<1>10. CASE Explorer!Interrupt
  BY <1>10, OrderEnds DEF Explorer!Interrupt, Explorer!Quiet
<1>11. CASE disturbed /\ disturbed' = disturbed
  BY <1>11 DEF Explorer!InOrder
<1>12. QED
  <2>1. \/ Explorer!CallCandidate \/ Explorer!NegativeCache \/ Explorer!AskHooks
        \/ Explorer!LoopEnds \/ Explorer!Answer \/ Explorer!HookReturns
        => disturbed' = disturbed
    BY DEF Explorer!CallCandidate, Explorer!NegativeCache, Explorer!AskHooks,
       Explorer!LoopEnds, Explorer!Answer, Explorer!HookReturns, Explorer!Quiet
  <2>2. disturbed \in BOOLEAN
    BY <1>0 DEF ExploreTypes
  <2>3. QED
    BY <1>1, <1>2, <1>3, <1>4, <1>5, <1>6, <1>7, <1>8, <1>9, <1>10, <1>11,
       <2>1, <2>2 DEF Explorer!Next

\* The invariant of the explorer, with the order.
OrderedParts == ExploreParts /\ Explorer!InOrder

\* Before the first exploration there is no order to keep.
LEMMA OrderInit == Explorer!Init => Explorer!InOrder
  BY DEF Explorer!Init, Explorer!InOrder, Explorer!Ordered

\* The parts are the invariant the runs check.
LEMMA ExploreSame == OrderedParts <=> Explorer!ExploreInv
<1>1. Explorer!WellNested(loops) =>
        loops \in Seq(Explorer!Loops) /\ \A k \in 2..Len(loops) : loops[k].restore
  BY DEF Explorer!WellNested
<1>2. QED
  BY <1>1 DEF OrderedParts, ExploreParts, ExploreTypes, Explorer!ExploreInv,
     Explorer!TypeOK, Explorer!OneExploration

\* A loop with nothing left is at the last candidate.
LEMMA OrderComplete == OrderedParts => Explorer!ExploresEveryLaterSibling
<1> SUFFICES ASSUME OrderedParts, ~disturbed, Len(loops) = 1, call = NoCall,
                    Explorer!Loop.left = <<>>
             PROVE  Explorer!Following(Explorer!Visited(Len(log))) = {}
  BY DEF OrderedParts, Explorer!InOrder, Explorer!ExploresEveryLaterSibling
<1> DEFINE c == Explorer!Visited(Len(log))
<1>1. ExploreTypes /\ Explorer!WellNested(loops)
  BY DEF OrderedParts, ExploreParts
<1>2. loops # <<>>
  <2>1. loops \in Seq(Explorer!Loops)
    BY <1>1 DEF Explorer!WellNested
  <2>2. QED
    BY <2>1, ElementOf
<1>3. Explorer!AtPosition(c) /\ c \in Explorer!Calls
  BY <1>1, <1>2, PositionIs DEF OrderedParts, Explorer!InOrder, Explorer!Position
<1>4. loops[1].left = <<>>
  BY <1>1, <1>2, TakenIs
<1>5. /\ c.index \in Nat /\ c.entry \in Nat /\ Entries \in Nat
      /\ Explorer!Size("path_hook") = Hooks /\ Hooks \in Nat
      /\ \A b \in Explorer!Boundaries : Explorer!Size(b) \in Nat
  BY <1>3, Parameters, Sizes DEF Bounds, Explorer!Calls, Explorer!Index
<1>6. CASE trigger.over # "path_entry"
  <2>1. /\ c.what \in Explorer!Boundaries
        /\ Explorer!Later(c.index, Explorer!Size(c.what)) = <<>>
    BY <1>1, <1>3, <1>4, <1>6 DEF Explorer!AtPosition, ExploreTypes
  <2>2. Explorer!Size(c.what) <= c.index
    BY <1>5, <2>1, LaterSteps
  <2>3. QED
    BY <1>5, <1>6, <2>1, <2>2 DEF Explorer!Following
<1>7. CASE trigger.over = "path_entry"
  <2>1. /\ c.what \in {"path_entry", "path_hook"} /\ Explorer!EntryDone(c)
        /\ Explorer!Later(c.entry, Entries) = <<>>
    BY <1>3, <1>4, <1>7 DEF Explorer!AtPosition
  <2>2. Entries <= c.entry
    BY <1>5, <2>1, LaterSteps
  <2>3. QED
    BY <1>5, <2>1, <2>2 DEF Explorer!Following, Explorer!EntryDone
<1>8. QED
  BY <1>6, <1>7

\* The invariant holds in every behaviour of the composition.
LEMMA ExploreAlways == MCSpec => []OrderedParts
<1>1. MCInit => OrderedParts
  BY ExploreInit, OrderInit DEF MCInit, OrderedParts
<1>2. OrderedParts /\ [MCNext]_<<vars, leaseVars, exploreVars, part>>
        => OrderedParts'
  <2>1. [MCNext]_<<vars, leaseVars, exploreVars, part>>
          => [Explorer!Next]_exploreVars
    BY DEF MCNext, ProfilingStep, LeaseStep, ExploreStep
  <2>2. QED
    BY <2>1, ExploreInvStep, OrderStep DEF OrderedParts
<1>3. QED
  BY <1>1, <1>2, PTL DEF MCSpec

\* There is one exploration at a time and none leaves the flag up, for any number
\* of candidates of each kind, whatever they import, raise or interrupt.
THEOREM OneExplorationAlways == MCSpec => []OneExploration
<1>1. OrderedParts => OneExploration
  BY ExploreSame DEF OneExploration
<1>2. QED
  BY <1>1, ExploreAlways, PTL

\* An exploration calls the candidates after the one that answered, each once, in
\* order and without a gap, and all of them unless it is cut short: for any
\* number of entries, hooks and finders (_run_meta_candidates,
\* _run_later_path_entries, _run_hooks).
THEOREM EverySiblingCalled == MCSpec => []ExploresEveryLaterSibling
<1>1. OrderedParts => ExploresEveryLaterSibling
  BY OrderComplete DEF ExploresEveryLaterSibling
<1>2. QED
  BY <1>1, ExploreAlways, PTL

LeaseTypes == Leases!TypeOK

(***************************************************************************)
(* CaptureLeases.                                                          *)
(***************************************************************************)
\* What the parameters of the leases are.
LeaseBounds ==
  /\ Nobody \notin Threads
  /\ Tool \notin Nat /\ NoProfiler \notin Nat /\ Tool # NoProfiler
  /\ MaxInstalls \in Nat \ {0} /\ MaxTools \in Nat

\* They are assumed so.
LEMMA LeaseParameters == LeaseBounds
  BY PartsAssumption DEF Leases!ConstantsAssumption, LeaseBounds

\* The profilers and wrappers there are.
LEMMA ProfilerNames ==
  /\ Leases!Profilers = {Tool, NoProfiler} \union (1..MaxInstalls)
  /\ Leases!Ours = 1..MaxInstalls
  BY DEF Leases!Profilers, Leases!Ours

\* No lease puts back no profiler.
LEMMA NoLeaseIs ==
  Leases!NoLease \in Leases!Leases /\ Leases!NoLease.thread = NoProfiler
  BY DEF Leases!Profilers, Leases!NoLease, Leases!Leases

\* What unwrapping leaves of a chain.
LEMMA ChainTail ==
  ASSUME NEW S, NEW c \in Seq(S), NEW k \in 1..Len(c)
  PROVE  LET d == SubSeq(c, k + 1, Len(c)) IN
         /\ d \in Seq(S) /\ Len(d) = Len(c) - k
         /\ \A i \in 1..Len(d) : d[i] = c[i + k] /\ i + k \in 1..Len(c)
<1> DEFINE n == Len(c) - k
           d == SubSeq(c, k + 1, Len(c))
           e == [i \in 1..n |-> c[i + k]]
<1>1. n \in Nat /\ Len(c) \in Nat
  OBVIOUS
<1>2. \A i \in 1..n : c[i + k] \in S /\ i + k \in 1..Len(c)
  OBVIOUS
<1>3. e \in Seq(S) /\ Len(e) = n /\ \A i \in 1..n : e[i] = c[i + k]
  <2> HIDE DEF n
  <2>1. QED
    BY <1>1, <1>2
<1>4. d = e
  OBVIOUS
<1>5. QED
  BY <1>2, <1>3, <1>4

\* Every step leaves the types of the leases.
LEMMA LeaseTypeStep ==
  ASSUME Leases!LeaseInv, [Leases!Next]_leaseVars PROVE Leases!TypeOK'
<1>0. Leases!TypeOK /\ Leases!HolderFits
  BY DEF Leases!LeaseInv
<1> USE <1>0 DEF Leases!TypeOK,
            Leases!imports, Leases!profiles, Leases!results, Leases!history
<1>1. ASSUME NEW t \in Threads, Leases!InstallBegin(t) PROVE Leases!TypeOK'
  BY <1>1, LeaseParameters DEF Leases!InstallBegin, LeaseBounds
<1>2. ASSUME NEW t \in Threads, Leases!TestProfilers(t) PROVE Leases!TypeOK'
  BY <1>2 DEF Leases!TestProfilers, Leases!Taken
<1>3. ASSUME NEW t \in Threads, Leases!SetThreadProfile(t) PROVE Leases!TypeOK'
  <2>1. threadProfile' \in Leases!Profilers
    BY <1>3, ProfilerNames DEF Leases!SetThreadProfile, Leases!HolderFits
  <2>2. QED
    BY <1>3, <2>1 DEF Leases!SetThreadProfile
<1>4. ASSUME NEW t \in Threads, Leases!SetSysProfile(t) PROVE Leases!TypeOK'
  BY <1>4, ProfilerNames, LeaseParameters
  DEF Leases!SetSysProfile, LeaseBounds, Leases!HolderFits
<1>5. ASSUME NEW t \in Threads, Leases!EnableCalls(t) PROVE Leases!TypeOK'
  <2>1. installs \in Leases!Ours
    BY <1>5, ProfilerNames, LeaseParameters
    DEF LeaseBounds, Leases!EnableCalls, Leases!HolderFits
  <2>2. chain' \in Seq(Leases!Ours \union {Tool})
    BY <1>5, <2>1 DEF Leases!EnableCalls
  <2>3. QED
    BY <1>5, <2>1, <2>2 DEF Leases!EnableCalls
<1>6. ASSUME NEW t \in Threads, Leases!UninstallBegin(t) PROVE Leases!TypeOK'
  BY <1>6 DEF Leases!UninstallBegin
<1>7. ASSUME NEW t \in Threads,
             Leases!TestThreadProfile(t) \/ Leases!RestoreThreadProfile(t)
      PROVE  Leases!TypeOK'
  <2>1. saved.thread \in Leases!Profilers
    BY DEF Leases!Leases
  <2>2. CASE Leases!LeaveResults
    BY <1>7, <2>1, <2>2, NoLeaseIs
    DEF Leases!TestThreadProfile, Leases!RestoreThreadProfile, Leases!LeaveResults
  <2>3. CASE ~Leases!LeaveResults
    BY <1>7, <2>3 DEF Leases!TestThreadProfile, Leases!RestoreThreadProfile
  <2>4. QED
    BY <2>2, <2>3
<1>8. ASSUME NEW t \in Threads, Leases!UninstallCalls(t) PROVE Leases!TypeOK'
  <2>1. chain' \in Seq(Leases!Ours \union {Tool}) /\ buried' \in BOOLEAN
    <3>1. CASE Leases!IsCurrent
      <4>1. chain # <<>> => Tail(chain) \in Seq(Leases!Ours \union {Tool})
        OBVIOUS
      <4>2. QED
        BY <1>8, <3>1, <4>1 DEF Leases!UninstallCalls, Leases!IsCurrent
    <3>2. CASE ~Leases!IsCurrent
      BY <1>8, <3>2 DEF Leases!UninstallCalls
    <3>3. QED
      BY <3>1, <3>2
  <2>2. wrapper' \in 0..MaxInstalls /\ callsOn' \in BOOLEAN
        /\ holder' \in Threads \union {Nobody} /\ pc' = "rest"
    <3>1. wrapper' = 0 /\ callsOn' = FALSE /\ holder' = Nobody /\ pc' = "rest"
      BY <1>8 DEF Leases!UninstallCalls
    <3>2. 0 \in 0..MaxInstalls
      BY LeaseParameters DEF LeaseBounds
    <3>3. callsOn' \in BOOLEAN
      BY <3>1
    <3>4. QED
      BY <3>1, <3>2, <3>3
  <2>3. UNCHANGED <<sysProfile, threadProfile, started, resultsOn, saved, refused,
                    installs, tools, strayed, raced>>
    BY <1>8 DEF Leases!UninstallCalls
  <2>4. QED
    BY <2>1, <2>2, <2>3
<1>9. ASSUME NEW t \in Threads, Leases!StartThread(t) PROVE Leases!TypeOK'
  BY <1>9, ProfilerNames DEF Leases!StartThread
<1>10. ASSUME NEW t \in Threads, Leases!ToolProfiles(t) PROVE Leases!TypeOK'
  <2>1. tools' \in 0..MaxTools
    BY <1>10, LeaseParameters DEF Leases!ToolProfiles, LeaseBounds
  <2>2. {Tool, NoProfiler} \subseteq Leases!Profilers
    BY ProfilerNames
  <2>3. /\ sysProfile' \in [Threads -> Leases!Profilers]
        /\ threadProfile' \in Leases!Profilers
    BY <1>10, <2>2 DEF Leases!ToolProfiles
  <2>4. QED
    BY <1>10, <2>1, <2>3 DEF Leases!ToolProfiles
<1>11. CASE Leases!ToolWraps
  <2>1. tools' \in 0..MaxTools
    BY <1>11, LeaseParameters DEF Leases!ToolWraps, LeaseBounds
  <2>2. chain' \in Seq(Leases!Ours \union {Tool})
    <3>1. CASE chain' = <<Tool>> \o chain
      BY <3>1
    <3>2. ASSUME NEW k \in DOMAIN chain, chain' = SubSeq(chain, k + 1, Len(chain))
          PROVE  chain' \in Seq(Leases!Ours \union {Tool})
      BY <3>2, ChainTail
    <3>3. QED
      BY <1>11, <3>1, <3>2 DEF Leases!ToolWraps
  <2>3. QED
    BY <1>11, <2>1, <2>2 DEF Leases!ToolWraps
<1>12. CASE UNCHANGED leaseVars
  BY <1>12 DEF leaseVars
<1>13. ASSUME NEW t \in Threads, Leases!ReadProfilers(t) PROVE Leases!TypeOK'
  <2>1. saved' \in Leases!Leases
    BY <1>13 DEF Leases!ReadProfilers, Leases!Leases
  <2>2. QED
    BY <1>13, <2>1 DEF Leases!ReadProfilers
<1>14. ASSUME NEW t \in Threads,
              Leases!TestSysProfile(t) \/ Leases!RestoreSysProfile(t)
       PROVE  Leases!TypeOK'
  <2>1. saved.sys \in Leases!Profilers
    BY DEF Leases!Leases
  <2>2. QED
    BY <1>14, <2>1 DEF Leases!TestSysProfile, Leases!RestoreSysProfile
<1> QED
  BY <1>1, <1>2, <1>3, <1>4, <1>5, <1>6, <1>7, <1>8, <1>9, <1>10,
     <1>11, <1>12, <1>13, <1>14
  DEF Leases!Next

\* Every step leaves the flags in order with who is at work.
LEMMA HolderStep ==
  ASSUME Leases!LeaseInv, [Leases!Next]_leaseVars PROVE Leases!HolderFits'
<1>0. Leases!TypeOK /\ Leases!HolderFits /\ Leases!WrapperFits /\ LeaseBounds
  BY LeaseParameters DEF Leases!LeaseInv
<1> USE <1>0 DEF Leases!HolderFits,
            Leases!imports, Leases!profiles, Leases!results, Leases!history
<1>1. ASSUME NEW t \in Threads, Leases!InstallBegin(t) PROVE Leases!HolderFits'
  BY <1>1 DEF Leases!InstallBegin, Leases!TypeOK, LeaseBounds, Leases!On
<1>2. ASSUME NEW t \in Threads, Leases!TestProfilers(t) PROVE Leases!HolderFits'
  BY <1>2 DEF Leases!TestProfilers, Leases!TypeOK, LeaseBounds
<1>3. ASSUME NEW t \in Threads, Leases!SetThreadProfile(t)
      PROVE Leases!HolderFits'
  BY <1>3 DEF Leases!SetThreadProfile, Leases!TypeOK, LeaseBounds
<1>4. ASSUME NEW t \in Threads, Leases!SetSysProfile(t) PROVE Leases!HolderFits'
  BY <1>4 DEF Leases!SetSysProfile, Leases!TypeOK, LeaseBounds
<1>5. ASSUME NEW t \in Threads, Leases!EnableCalls(t) PROVE Leases!HolderFits'
  BY <1>5 DEF Leases!EnableCalls, Leases!TypeOK, LeaseBounds
<1>6. ASSUME NEW t \in Threads, Leases!UninstallBegin(t)
      PROVE Leases!HolderFits'
  BY <1>6 DEF Leases!UninstallBegin, Leases!TypeOK, LeaseBounds
<1>7. ASSUME NEW t \in Threads,
             Leases!TestThreadProfile(t) \/ Leases!RestoreThreadProfile(t)
      PROVE  Leases!HolderFits'
  BY <1>7 DEF Leases!TestThreadProfile, Leases!RestoreThreadProfile,
              Leases!LeaveResults, Leases!TypeOK, LeaseBounds
<1>8. ASSUME NEW t \in Threads, Leases!UninstallCalls(t)
      PROVE Leases!HolderFits'
  BY <1>8 DEF Leases!UninstallCalls, Leases!TypeOK, LeaseBounds
<1>9. ASSUME NEW t \in Threads, Leases!StartThread(t) PROVE Leases!HolderFits'
  BY <1>9 DEF Leases!StartThread, Leases!TypeOK, LeaseBounds
<1>10. ASSUME NEW t \in Threads, Leases!ToolProfiles(t) PROVE Leases!HolderFits'
  BY <1>10 DEF Leases!ToolProfiles, Leases!TypeOK, LeaseBounds
<1>11. CASE Leases!ToolWraps
  BY <1>11 DEF Leases!ToolWraps
<1>12. CASE UNCHANGED leaseVars
  BY <1>12 DEF leaseVars
<1>13. ASSUME NEW t \in Threads, Leases!ReadProfilers(t) PROVE Leases!HolderFits'
  BY <1>13 DEF Leases!ReadProfilers, Leases!TypeOK, LeaseBounds
<1>14. ASSUME NEW t \in Threads,
              Leases!TestSysProfile(t) \/ Leases!RestoreSysProfile(t)
       PROVE  Leases!HolderFits'
  BY <1>14 DEF Leases!TestSysProfile, Leases!RestoreSysProfile, Leases!TypeOK,
               LeaseBounds
<1> QED
  BY <1>1, <1>2, <1>3, <1>4, <1>5, <1>6, <1>7, <1>8, <1>9, <1>10,
     <1>11, <1>12, <1>13, <1>14
  DEF Leases!Next

\* Every step leaves one wrapper of ours at most, unless it buries one.
LEMMA WrapperStep ==
  ASSUME Leases!LeaseInv, [Leases!Next]_leaseVars PROVE Leases!WrapperFits'
<1>0. /\ chain \in Seq(Leases!Ours \union {Tool}) /\ wrapper \in 0..MaxInstalls
      /\ Leases!HolderFits /\ Leases!WrapperFits
      /\ callsOn \in BOOLEAN /\ buried \in BOOLEAN
      /\ Tool \notin Leases!Ours /\ installs \in 0..MaxInstalls
  BY LeaseParameters, ProfilerNames
  DEF LeaseBounds, Leases!LeaseInv, Leases!TypeOK
<1> USE <1>0 DEF Leases!WrapperFits,
            Leases!imports, Leases!profiles, Leases!results, Leases!history
<1>1. ASSUME NEW t \in Threads, Leases!InstallBegin(t) PROVE Leases!WrapperFits'
  BY <1>1 DEF Leases!InstallBegin
<1>2. ASSUME NEW t \in Threads, Leases!TestProfilers(t)
      PROVE Leases!WrapperFits'
  BY <1>2 DEF Leases!TestProfilers
<1>3. ASSUME NEW t \in Threads, Leases!SetThreadProfile(t)
      PROVE Leases!WrapperFits'
  BY <1>3 DEF Leases!SetThreadProfile
<1>4. ASSUME NEW t \in Threads, Leases!SetSysProfile(t)
      PROVE Leases!WrapperFits'
  BY <1>4 DEF Leases!SetSysProfile
<1>5. ASSUME NEW t \in Threads, Leases!EnableCalls(t) PROVE Leases!WrapperFits'
  <2>1. /\ installs \in Leases!Ours /\ wrapper = 0 /\ buried' = buried
        /\ wrapper' = installs /\ callsOn' = TRUE
        /\ chain' = <<installs>> \o chain
    BY <1>5, ProfilerNames, LeaseParameters
    DEF Leases!EnableCalls, Leases!HolderFits, LeaseBounds
  <2>2. 0 \notin Leases!Ours
    BY ProfilerNames
  <2>3. CASE buried
    BY <2>1, <2>2, <2>3
  <2>4. CASE ~buried
    <3>1. \A i \in 1..Len(chain) : chain[i] \notin Leases!Ours
      BY <2>1, <2>2, <2>4
    <3>2. /\ Len(chain') = Len(chain) + 1 /\ chain'[1] = installs
          /\ \A i \in 2..Len(chain') :
               chain'[i] = chain[i - 1] /\ i - 1 \in 1..Len(chain)
      BY <2>1
    <3>3. \A i \in 1..Len(chain') : chain'[i] \in Leases!Ours => i = 1
      BY <3>1, <3>2
    <3>4. QED
      BY <2>1, <2>2, <3>2, <3>3
  <2>5. QED
    BY <2>3, <2>4
<1>6. ASSUME NEW t \in Threads, Leases!UninstallBegin(t)
      PROVE Leases!WrapperFits'
  BY <1>6 DEF Leases!UninstallBegin
<1>7. ASSUME NEW t \in Threads,
             Leases!TestThreadProfile(t) \/ Leases!RestoreThreadProfile(t)
      PROVE  Leases!WrapperFits'
  BY <1>7 DEF Leases!TestThreadProfile, Leases!RestoreThreadProfile
<1>8. ASSUME NEW t \in Threads, Leases!UninstallCalls(t)
      PROVE Leases!WrapperFits'
  <2>1. wrapper' = 0 /\ callsOn' = FALSE
    BY <1>8 DEF Leases!UninstallCalls
  <2>2. ASSUME ~buried'
        PROVE  \A i \in 1..Len(chain') : chain'[i] \notin Leases!Ours
    <3>1. CASE Leases!IsCurrent
      <4>1. /\ ~buried /\ chain # <<>> /\ Head(chain) = wrapper
            /\ chain' = Tail(chain)
        BY <1>8, <2>2, <3>1 DEF Leases!UninstallCalls, Leases!IsCurrent
      <4>2. /\ chain[1] = wrapper /\ Len(chain) \in Nat \ {0}
            /\ Len(chain') = Len(chain) - 1
            /\ \A i \in 1..Len(chain') : chain'[i] = chain[i + 1]
        BY <4>1
      <4>3. SUFFICES ASSUME NEW i \in 1..Len(chain'), chain'[i] \in Leases!Ours
                     PROVE  FALSE
        OBVIOUS
      <4>4. i + 1 \in 1..Len(chain) /\ chain[i + 1] \in Leases!Ours
        BY <4>2, <4>3
      <4>5. chain[i + 1] = wrapper
        BY <4>1, <4>4
      <4>6. 1 \in 1..Len(chain) /\ i + 1 # 1
        BY <4>2, <4>3
      <4>7. QED
        BY <4>1, <4>2, <4>4, <4>5, <4>6
    <3>2. CASE ~Leases!IsCurrent
      <4>1. /\ chain' = chain /\ ~buried
            /\ ~(wrapper \in Leases!Range(chain) /\ Head(chain) = Tool)
        BY <1>8, <2>2, <3>2 DEF Leases!UninstallCalls
      <4>2. SUFFICES ASSUME NEW i \in 1..Len(chain), chain[i] \in Leases!Ours
                     PROVE  FALSE
        BY <4>1
      <4>3. chain[i] = wrapper /\ chain # <<>> /\ i \in DOMAIN chain
        BY <4>1, <4>2
      <4>4. wrapper \in Leases!Range(chain)
        BY <4>3 DEF Leases!Range
      <4>5. Head(chain) = chain[1] /\ 1 \in 1..Len(chain)
        BY <4>3
      <4>6. chain[1] \in Leases!Ours
        BY <4>1, <4>4, <4>5
      <4>7. chain[1] = wrapper
        BY <4>1, <4>5, <4>6
      <4>8. QED
        BY <3>2, <4>3, <4>5, <4>7 DEF Leases!IsCurrent
    <3>3. QED
      BY <3>1, <3>2
  <2>3. QED
    BY <2>1, <2>2
<1>9. ASSUME NEW t \in Threads, Leases!StartThread(t) PROVE Leases!WrapperFits'
  BY <1>9 DEF Leases!StartThread
<1>10. ASSUME NEW t \in Threads, Leases!ToolProfiles(t)
      PROVE Leases!WrapperFits'
  BY <1>10 DEF Leases!ToolProfiles
<1>11. CASE Leases!ToolWraps
  <2>1. UNCHANGED <<wrapper, callsOn, buried>>
    BY <1>11 DEF Leases!ToolWraps
  <2>2. CASE chain' = <<Tool>> \o chain
    <3>1. /\ Len(chain') = Len(chain) + 1 /\ chain'[1] = Tool
          /\ \A i \in 2..Len(chain') :
               chain'[i] = chain[i - 1] /\ i - 1 \in 1..Len(chain)
      BY <2>2
    <3>2. \A i \in 1..Len(chain') : chain'[i] \in Leases!Ours => i \in 2..Len(chain')
      BY <3>1
    <3>3. ASSUME ~buried
          PROVE  /\ \A i \in 1..Len(chain') :
                      chain'[i] \in Leases!Ours => chain'[i] = wrapper
                 /\ \A i, j \in 1..Len(chain') :
                      chain'[i] \in Leases!Ours /\ chain'[j] \in Leases!Ours => i = j
      <4>1. \A i \in 1..Len(chain') :
              chain'[i] \in Leases!Ours => chain'[i] = wrapper
        BY <3>1, <3>2, <3>3
      <4>2. ASSUME NEW i \in 1..Len(chain'), NEW j \in 1..Len(chain'),
                   chain'[i] \in Leases!Ours, chain'[j] \in Leases!Ours
            PROVE  i = j
        <5>1. i - 1 \in 1..Len(chain) /\ j - 1 \in 1..Len(chain)
              /\ chain[i - 1] \in Leases!Ours /\ chain[j - 1] \in Leases!Ours
          BY <3>1, <3>2, <4>2
        <5>2. i - 1 = j - 1
          BY <3>3, <5>1
        <5>3. QED
          BY <5>2
      <4>3. QED
        BY <4>1, <4>2
    <3>4. QED
      BY <2>1, <3>3
  <2>3. ASSUME NEW k \in DOMAIN chain, chain' = SubSeq(chain, k + 1, Len(chain))
        PROVE  Leases!WrapperFits'
    <3>1. /\ Len(chain') \in Nat /\ k \in Nat
          /\ \A i \in 1..Len(chain') :
               chain'[i] = chain[i + k] /\ i + k \in 1..Len(chain)
      BY SMTT(30), <2>3, ChainTail
    <3>2. ASSUME ~buried, NEW i \in 1..Len(chain'), NEW j \in 1..Len(chain'),
                 chain'[i] \in Leases!Ours, chain'[j] \in Leases!Ours
          PROVE  i = j
      <4>1. i + k = j + k
        BY <3>1, <3>2
      <4>2. QED
        BY <3>1, <4>1
    <3>3. ASSUME ~buried, NEW i \in 1..Len(chain'), chain'[i] \in Leases!Ours
          PROVE  chain'[i] = wrapper
      BY <3>1, <3>3
    <3>4. QED
      BY <2>1, <3>2, <3>3
  <2>4. QED
    BY <1>11, <2>2, <2>3 DEF Leases!ToolWraps
<1>12. CASE UNCHANGED leaseVars
  BY <1>12 DEF leaseVars
<1>13. ASSUME NEW t \in Threads, Leases!ReadProfilers(t)
       PROVE  Leases!WrapperFits'
  BY <1>13 DEF Leases!ReadProfilers
<1>14. ASSUME NEW t \in Threads,
              Leases!TestSysProfile(t) \/ Leases!RestoreSysProfile(t)
       PROVE  Leases!WrapperFits'
  BY <1>14 DEF Leases!TestSysProfile, Leases!RestoreSysProfile
<1> QED
  BY <1>1, <1>2, <1>3, <1>4, <1>5, <1>6, <1>7, <1>8, <1>9, <1>10,
     <1>11, <1>12, <1>13, <1>14
  DEF Leases!Next

\* Every step leaves the profilers in order, unless one of ours strays.
LEMMA ProfilerStep ==
  ASSUME Leases!LeaseInv, [Leases!Next]_leaseVars PROVE Leases!ProfilersFit'
<1>0. /\ Leases!TypeOK /\ Leases!HolderFits /\ Leases!ProfilersFit
      /\ sysProfile \in [Threads -> Leases!Profilers]
      /\ threadProfile \in Leases!Profilers
      /\ Leases!Profilers = {Tool, NoProfiler} \union Leases!Ours
      /\ Leases!Ours = 1..MaxInstalls
      /\ {Tool, NoProfiler} \intersect Leases!Ours = {} /\ Tool # NoProfiler
      /\ installs \in 0..MaxInstalls /\ LeaseBounds
      /\ started \in SUBSET Threads
  BY LeaseParameters, ProfilerNames
  DEF LeaseBounds, Leases!LeaseInv, Leases!TypeOK
<1> USE <1>0 DEF Leases!ProfilersFit,
            Leases!imports, Leases!profiles, Leases!results, Leases!history
<1>1. ASSUME NEW t \in Threads, Leases!InstallBegin(t)
      PROVE Leases!ProfilersFit'
  BY <1>1 DEF Leases!InstallBegin, Leases!HolderFits, Leases!On
<1>2. ASSUME NEW t \in Threads, Leases!TestProfilers(t)
      PROVE Leases!ProfilersFit'
  BY <1>2
  DEF Leases!TestProfilers, Leases!HolderFits, Leases!Taken, LeaseBounds
<1>3. ASSUME NEW t \in Threads, Leases!SetThreadProfile(t)
      PROVE Leases!ProfilersFit'
  BY <1>3
  DEF Leases!SetThreadProfile, Leases!HolderFits, Leases!Taken, LeaseBounds
<1>4. ASSUME NEW t \in Threads, Leases!SetSysProfile(t)
      PROVE Leases!ProfilersFit'
  BY <1>4
  DEF Leases!SetSysProfile, Leases!HolderFits, Leases!Taken, LeaseBounds
<1>5. ASSUME NEW t \in Threads, Leases!EnableCalls(t) PROVE Leases!ProfilersFit'
  BY <1>5 DEF Leases!EnableCalls, Leases!HolderFits, Leases!Taken, LeaseBounds
<1>6. ASSUME NEW t \in Threads, Leases!UninstallBegin(t)
      PROVE Leases!ProfilersFit'
  BY <1>6
  DEF Leases!UninstallBegin, Leases!HolderFits, Leases!Taken, LeaseBounds
<1>7. ASSUME NEW t \in Threads,
             Leases!TestThreadProfile(t) \/ Leases!RestoreThreadProfile(t)
      PROVE  Leases!ProfilersFit'
  <2>1. CASE Leases!LeaveResults
    <3>1. resultsOn' = FALSE /\ saved' = Leases!NoLease /\ pc' = "unwrap"
      BY <2>1 DEF Leases!LeaveResults
    <3>2. threadProfile' \notin Leases!Ours
      <4>1. CASE Leases!TestThreadProfile(t)
        <5>1. ~Leases!StillOurs(threadProfile) /\ threadProfile' = threadProfile
          BY <3>1, <4>1 DEF Leases!TestThreadProfile
        <5>2. QED
          BY <5>1 DEF Leases!StillOurs
      <4>2. CASE Leases!RestoreThreadProfile(t)
        BY <4>2 DEF Leases!RestoreThreadProfile
      <4>3. QED
        BY <1>7, <4>1, <4>2
    <3>3. ASSUME ~strayed', NEW u \in Threads
          PROVE  sysProfile'[u] \notin Leases!Ours
      BY <1>7, <2>1, <3>3 DEF Leases!LeaveResults, Leases!TestThreadProfile,
         Leases!RestoreThreadProfile
    <3>4. QED
      BY <3>1, <3>2, <3>3, NoLeaseIs
  <2>2. CASE ~Leases!LeaveResults
    BY <1>7, <2>2 DEF Leases!TestThreadProfile, Leases!RestoreThreadProfile,
       Leases!StillOurs, Leases!HolderFits
  <2>3. QED
    BY <2>1, <2>2
<1>8. ASSUME NEW t \in Threads, Leases!UninstallCalls(t)
      PROVE Leases!ProfilersFit'
  BY <1>8
  DEF Leases!UninstallCalls, Leases!HolderFits, Leases!Taken, LeaseBounds
<1>9. ASSUME NEW t \in Threads, Leases!StartThread(t) PROVE Leases!ProfilersFit'
  BY <1>9 DEF Leases!StartThread, Leases!HolderFits, Leases!Taken, LeaseBounds
<1>10. ASSUME NEW t \in Threads, Leases!ToolProfiles(t)
      PROVE Leases!ProfilersFit'
  BY <1>10
  DEF Leases!ToolProfiles, Leases!HolderFits, Leases!Window, LeaseBounds
<1>11. CASE Leases!ToolWraps
  BY <1>11 DEF Leases!ToolWraps
<1>12. CASE UNCHANGED leaseVars
  BY <1>12 DEF leaseVars
<1>13. ASSUME NEW t \in Threads, Leases!ReadProfilers(t)
       PROVE  Leases!ProfilersFit'
  BY <1>13 DEF Leases!ReadProfilers, Leases!HolderFits
<1>14. ASSUME NEW t \in Threads,
              Leases!TestSysProfile(t) \/ Leases!RestoreSysProfile(t)
       PROVE  Leases!ProfilersFit'
  BY <1>14 DEF Leases!TestSysProfile, Leases!RestoreSysProfile,
               Leases!StillOurs, Leases!HolderFits
<1> QED
  BY <1>1, <1>2, <1>3, <1>4, <1>5, <1>6, <1>7, <1>8, <1>9, <1>10,
     <1>11, <1>12, <1>13, <1>14
  DEF Leases!Next

\* The instance counts as this module does.
LEMMA SameCardinality ==
  ASSUME NEW S PROVE Leases!Cardinality(S) = Cardinality(S)
<1>1. Leases!IsFiniteSet(S) <=> IsFiniteSet(S)
  BY DEF IsFiniteSet, Leases!IsFiniteSet
<1>2. QED
  BY <1>1, Zenon DEF Cardinality, Leases!Cardinality

\* Before the first installation nothing is leased.
LEMMA LeaseInitial == Leases!Init => Leases!LeaseInv
<1> SUFFICES ASSUME Leases!Init PROVE Leases!LeaseInv
  OBVIOUS
<1> USE LeaseParameters DEF LeaseBounds, Leases!Init
<1>1. Leases!TypeOK
  <2>1. /\ sysProfile \in [Threads -> Leases!Profilers]
        /\ threadProfile \in Leases!Profilers /\ saved \in Leases!Leases
    BY ProfilerNames, NoLeaseIs
  <2>2. started \in SUBSET Threads
    OBVIOUS
  <2>3. chain \in Seq(Leases!Ours \union {Tool}) /\ 0 \in 0..MaxInstalls
        /\ 0 \in 0..MaxTools
    OBVIOUS
  <2>4. QED
    BY <2>1, <2>2, <2>3 DEF Leases!TypeOK
<1>2. Leases!HolderFits /\ Leases!WrapperFits
  BY DEF Leases!HolderFits, Leases!WrapperFits
<1>3. Leases!ProfilersFit
  BY ProfilerNames, NoLeaseIs DEF Leases!ProfilersFit
<1>4. QED
  BY <1>1, <1>2, <1>3 DEF Leases!LeaseInv

\* The invariant of the leases is inductive, for any threads, installations and
\* steps of the other tool.
THEOREM LeaseInvariant == MCSpec => []Leases!LeaseInv
<1>1. MCInit => Leases!LeaseInv
  BY LeaseInitial DEF MCInit
<1>2. ASSUME Leases!LeaseInv, [MCNext]_<<vars, leaseVars, exploreVars, part>>
      PROVE  Leases!LeaseInv'
  <2>1. [Leases!Next]_leaseVars
    BY <1>2 DEF MCNext, ProfilingStep, LeaseStep, ExploreStep
  <2>2. QED
    BY <1>2, <2>1, LeaseTypeStep, HolderStep, WrapperStep, ProfilerStep
    DEF Leases!LeaseInv
<1>3. QED
  BY <1>1, <1>2, PTL DEF MCSpec

\* An import statement makes one ImportCall record at most, and none of our
\* wrappers outlives uninstall(), while none was buried (_uninstall_import_calls).
THEOREM OneRecordAlways == MCSpec => []OneRecordPerImport
<1>1. Leases!LeaseInv => Leases!OneRecordPerImport
  <2> SUFFICES ASSUME Leases!LeaseInv, ~buried
               PROVE  Cardinality({i \in DOMAIN chain : chain[i] \in Leases!Ours})
                        <= (IF wrapper = 0 THEN 0 ELSE 1)
    BY SameCardinality DEF Leases!OneRecordPerImport
  <2> DEFINE places == {i \in DOMAIN chain : chain[i] \in Leases!Ours}
  <2>1. DOMAIN chain = 1..Len(chain)
    BY DEF Leases!LeaseInv, Leases!TypeOK
  <2>2. \A i, j \in places : i = j /\ chain[i] = wrapper
    BY <2>1 DEF Leases!LeaseInv, Leases!WrapperFits
  <2>3. CASE places = {}
    BY <2>3, FS_EmptySet
  <2>4. CASE places # {}
    <3>1. PICK i \in places : TRUE
      BY <2>4
    <3>2. places = {i} /\ wrapper # 0
      BY <2>2, <3>1, ProfilerNames
    <3>3. Cardinality(places) = 1
      BY <3>2, FS_Singleton
    <3>4. QED
      BY <3>2, <3>3
  <2>5. QED
    BY <2>3, <2>4
<1>2. QED
  BY <1>1, LeaseInvariant, PTL DEF OneRecordPerImport

\* No step of ours takes another tool's profiler away, but for one that came
\* between test and set, and profiling is refused only because of another tool's,
\* unless one of ours strayed (enable_import_results).
THEOREM ProfilersStay == MCSpec => ProfilersOfOthers
<1> DEFINE Stays == ~raced' /\ tools' = tools =>
             /\ threadProfile = Tool => threadProfile' = Tool
             /\ \A t \in started : sysProfile[t] = Tool => sysProfile'[t] = Tool
           Foreign == pc = "test" /\ pc' = "calls" /\ ~strayed =>
             \E t \in Threads :
               holder = t /\ Tool \in {sysProfile[t], threadProfile}
<1>0. Leases!LeaseInv =>
        /\ Leases!HolderFits /\ Leases!ProfilersFit
        /\ sysProfile \in [Threads -> Leases!Profilers]
        /\ threadProfile \in Leases!Profilers
        /\ Leases!Profilers = {Tool, NoProfiler} \union Leases!Ours
        /\ Leases!Ours = 1..MaxInstalls
        /\ {Tool, NoProfiler} \intersect Leases!Ours = {} /\ Tool # NoProfiler
        /\ installs \in 0..MaxInstalls /\ tools \in 0..MaxTools /\ LeaseBounds
        /\ started \in SUBSET Threads /\ holder \in Threads \union {Nobody}
  BY LeaseParameters, ProfilerNames
  DEF LeaseBounds, Leases!LeaseInv, Leases!TypeOK
<1>1. ASSUME Leases!LeaseInv, Leases!Next PROVE Stays
  <2> USE <1>0, <1>1 DEF Leases!imports, Leases!profiles, Leases!results, Leases!history
  <2>1. ASSUME NEW t \in Threads, Leases!SetThreadProfile(t) PROVE Stays
    BY <2>1 DEF Leases!SetThreadProfile, Leases!ProfilersFit
  <2>2. ASSUME NEW t \in Threads, Leases!SetSysProfile(t) PROVE Stays
    BY <2>2 DEF Leases!SetSysProfile, Leases!ProfilersFit
  <2>3. ASSUME NEW t \in Threads,
               Leases!RestoreSysProfile(t) \/ Leases!RestoreThreadProfile(t)
        PROVE  Stays
    <3>1. CASE Leases!RestoreSysProfile(t)
      <4>1. /\ holder = t /\ pc = "unsys" /\ raced' = raced
            /\ sysProfile' = [sysProfile EXCEPT ![t] = saved.sys]
            /\ threadProfile' = threadProfile
        BY <3>1 DEF Leases!RestoreSysProfile
      <4>2. ~raced => sysProfile[t] # Tool
        BY <4>1 DEF Leases!ProfilersFit, LeaseBounds
      <4>3. QED
        BY <4>1, <4>2
    <3>2. CASE Leases!RestoreThreadProfile(t)
      <4>1. /\ holder = t /\ pc = "unset" /\ raced' = raced
            /\ sysProfile' = sysProfile
        BY <3>2 DEF Leases!RestoreThreadProfile
      <4>2. ~raced => threadProfile # Tool
        BY <4>1 DEF Leases!ProfilersFit, LeaseBounds
      <4>3. QED
        BY <4>1, <4>2
    <3>3. QED
      BY <2>3, <3>1, <3>2
  <2>4. ASSUME NEW t \in Threads, Leases!StartThread(t) PROVE Stays
    BY <2>4 DEF Leases!StartThread
  <2>5. ASSUME NEW t \in Threads, Leases!ToolProfiles(t) PROVE Stays
    BY <2>5 DEF Leases!ToolProfiles
  <2>6. ASSUME NEW t \in Threads,
               \/ Leases!InstallBegin(t) \/ Leases!TestProfilers(t)
               \/ Leases!ReadProfilers(t) \/ Leases!EnableCalls(t)
               \/ Leases!UninstallBegin(t) \/ Leases!TestSysProfile(t)
               \/ Leases!TestThreadProfile(t) \/ Leases!UninstallCalls(t)
        PROVE  Stays
    BY <2>6 DEF Leases!InstallBegin, Leases!TestProfilers, Leases!ReadProfilers,
       Leases!EnableCalls, Leases!UninstallBegin, Leases!TestSysProfile,
       Leases!TestThreadProfile, Leases!UninstallCalls
  <2>7. CASE Leases!ToolWraps
    BY <2>7 DEF Leases!ToolWraps
  <2>8. QED
    BY <2>1, <2>2, <2>3, <2>4, <2>5, <2>6, <2>7 DEF Leases!Next
<1>2. ASSUME Leases!LeaseInv, Leases!Next PROVE Foreign
  <2> SUFFICES ASSUME pc = "test", pc' = "calls", ~strayed PROVE Foreign
    OBVIOUS
  <2>1. PICK t \in Threads : Leases!TestProfilers(t)
    BY <1>2 DEF Leases!Next, Leases!InstallBegin, Leases!SetThreadProfile,
       Leases!SetSysProfile, Leases!EnableCalls, Leases!UninstallBegin,
       Leases!ReadProfilers, Leases!TestSysProfile, Leases!RestoreSysProfile,
       Leases!TestThreadProfile, Leases!RestoreThreadProfile,
       Leases!LeaveResults, Leases!UninstallCalls, Leases!StartThread,
       Leases!ToolProfiles, Leases!ToolWraps
  <2>2. Leases!Taken(t) /\ holder = t
    BY <2>1 DEF Leases!TestProfilers
  <2>3. QED
    BY <1>0, <1>2, <2>1, <2>2
    DEF Leases!Taken, Leases!HolderFits, Leases!ProfilersFit
<1>3. Leases!LeaseInv /\ [MCNext]_<<vars, leaseVars, exploreVars, part>>
        => [Stays]_Leases!vars /\ [Foreign]_Leases!vars
  <2>1. MCNext => Leases!Next \/ UNCHANGED leaseVars
    BY DEF MCNext, ProfilingStep, LeaseStep, ExploreStep
  <2>2. UNCHANGED leaseVars => UNCHANGED Leases!vars
    BY DEF leaseVars, Leases!vars, Leases!imports, Leases!profiles,
       Leases!results, Leases!history
  <2>3. UNCHANGED <<vars, leaseVars, exploreVars, part>> => UNCHANGED leaseVars
    OBVIOUS
  <2>4. QED
    BY <1>1, <1>2, <2>1, <2>2, <2>3
<1>4. QED
  BY <1>3, LeaseInvariant, PTL
  DEF MCSpec, ProfilersOfOthers, Leases!ForeignProfilerStays,
      Leases!RefusalIsForeign

(***************************************************************************)
(* ImportProfiling.  First the shadow of a stack by itself, then stacks of *)
(* frames, what the two events of an import do, and one lemma per action.  *)
(***************************************************************************)
\* A shadow that has nothing yet.
LEMMA NoShadow ==
  ASSUME NEW stack, NEW places PROVE Shadows(<<>>, stack, places)
<1> DEFINE at == [i \in {} |-> 0]
<1>1. DOMAIN <<>> = {} /\ at \in [{} -> places]
  OBVIOUS
<1>2. QED
  BY <1>1 DEF Shadows

\* Where there is no place there is no shadow.
LEMMA NoPlace ==
  ASSUME NEW shadow, NEW stack, NEW n \in Nat, DOMAIN shadow = 1..n,
         Shadows(shadow, stack, {})
  PROVE  n = 0
<1>1. PICK at \in [1..n -> {}] : TRUE
  BY DEF Shadows
<1>2. n # 0 => 1 \in 1..n /\ at[1] \in {}
  BY <1>1
<1>3. QED
  BY <1>2

\* A shadow is not moved by what happens elsewhere in the stack.
LEMMA ShadowKept ==
  ASSUME NEW shadow, NEW stack, NEW new, NEW places,
         \A p \in places : new[p] = stack[p],
         Shadows(shadow, stack, places)
  PROVE  Shadows(shadow, new, places)
  BY DEF Shadows

\* A call that the stack and its shadow both see.
LEMMA ShadowGrows ==
  ASSUME NEW n \in Nat, NEW shadow, NEW grown, NEW stack, NEW new,
         NEW places \in SUBSET Nat, NEW q \in Nat, \A p \in places : p < q,
         DOMAIN shadow = 1..n, DOMAIN grown = 1 .. n + 1,
         \A i \in 1..n : grown[i] = shadow[i], grown[n + 1] = new[q],
         \A p \in places : new[p] = stack[p],
         Shadows(shadow, stack, places)
  PROVE  Shadows(grown, new, places \union {q})
<1>0. PICK at \in [DOMAIN shadow -> places] :
        /\ \A i, j \in DOMAIN shadow : i < j => at[i] < at[j]
        /\ \A i \in DOMAIN shadow : shadow[i] = stack[at[i]]
        /\ \A i \in DOMAIN shadow, p \in places :
             at[i] <= p => \E j \in DOMAIN shadow : at[j] = p
  BY DEF Shadows
<1>1. /\ at \in [1..n -> places]
      /\ \A i, j \in 1..n : i < j => at[i] < at[j]
      /\ \A i \in 1..n : shadow[i] = stack[at[i]]
      /\ \A i \in 1..n, p \in places :
           at[i] <= p => \E j \in 1..n : at[j] = p
  BY <1>0
<1> DEFINE to == [i \in 1 .. n + 1 |-> IF i = n + 1 THEN q ELSE at[i]]
<1>2. /\ to \in [1 .. n + 1 -> places \union {q}]
      /\ to[n + 1] = q /\ \A i \in 1..n : to[i] = at[i] /\ at[i] \in places
  <2>1. \A i \in 1..n : i # n + 1 /\ at[i] \in places /\ i \in 1 .. n + 1
    BY <1>1
  <2>2. n + 1 \in 1 .. n + 1 /\ \A i \in 1 .. n + 1 : i = n + 1 \/ i \in 1..n
    OBVIOUS
  <2>3. QED
    BY <2>1, <2>2
<1> HIDE DEF to
<1>3. \A i, j \in 1 .. n + 1 : i < j => to[i] < to[j]
  <2> SUFFICES ASSUME NEW i \in 1 .. n + 1, NEW j \in 1 .. n + 1, i < j
               PROVE  to[i] < to[j]
    OBVIOUS
  <2>1. i \in 1..n
    OBVIOUS
  <2>2. CASE j = n + 1
    BY <1>2, <2>1, <2>2
  <2>3. CASE j # n + 1
    <3>1. j \in 1..n
      BY <2>3
    <3>2. QED
      BY <1>1, <1>2, <2>1, <3>1
  <2>4. QED
    BY <2>2, <2>3
<1>4. \A i \in 1 .. n + 1 : grown[i] = new[to[i]]
  <2> SUFFICES ASSUME NEW i \in 1 .. n + 1 PROVE grown[i] = new[to[i]]
    OBVIOUS
  <2>1. CASE i = n + 1
    BY <1>2, <2>1
  <2>2. CASE i \in 1..n
    <3>1. grown[i] = shadow[i] /\ shadow[i] = stack[at[i]]
      BY <1>1, <2>2
    <3>2. to[i] = at[i] /\ at[i] \in places
      BY <1>2, <2>2
    <3>3. QED
      BY <3>1, <3>2
  <2>3. QED
    BY <2>1, <2>2
<1>5. ASSUME NEW i \in 1 .. n + 1, NEW p \in places \union {q}, to[i] <= p
      PROVE  \E j \in 1 .. n + 1 : to[j] = p
  <2>1. CASE p = q
    <3>1. n + 1 \in 1 .. n + 1
      OBVIOUS
    <3>2. QED
      BY <1>2, <2>1, <3>1
  <2>2. CASE p # q
    <3>1. p \in places /\ p < q /\ i # n + 1
      BY <1>2, <1>5, <2>2
    <3>2. i \in 1..n
      BY <3>1
    <3>3. PICK j \in 1..n : at[j] = p
      BY <1>1, <1>2, <1>5, <3>1, <3>2
    <3>4. j \in 1 .. n + 1 /\ to[j] = p
      BY <1>2, <3>3
    <3>5. QED
      BY <3>4
  <2>3. QED
    BY <2>1, <2>2
<1>6. QED
  <2>1. /\ to \in [DOMAIN grown -> places \union {q}]
        /\ \A i, j \in DOMAIN grown : i < j => to[i] < to[j]
        /\ \A i \in DOMAIN grown : grown[i] = new[to[i]]
        /\ \A i \in DOMAIN grown, p \in places \union {q} :
             to[i] <= p => \E j \in DOMAIN grown : to[j] = p
    BY <1>2, <1>3, <1>4, <1>5
  <2>2. QED
    BY <2>1 DEF Shadows

\* A return that both see: it is that of the innermost call of the shadow.
LEMMA ShadowShrinks ==
  ASSUME NEW n \in Nat \ {0}, NEW shadow, NEW shrunk, NEW stack, NEW new,
         NEW places \in SUBSET Nat, NEW q \in places, \A p \in places : p <= q,
         DOMAIN shadow = 1..n, DOMAIN shrunk = 1 .. n - 1,
         \A i \in 1 .. n - 1 : shrunk[i] = shadow[i],
         \A p \in places \ {q} : new[p] = stack[p],
         Shadows(shadow, stack, places)
  PROVE  shadow[n] = stack[q] /\ Shadows(shrunk, new, places \ {q})
<1>0. PICK at \in [DOMAIN shadow -> places] :
        /\ \A i, j \in DOMAIN shadow : i < j => at[i] < at[j]
        /\ \A i \in DOMAIN shadow : shadow[i] = stack[at[i]]
        /\ \A i \in DOMAIN shadow, p \in places :
             at[i] <= p => \E j \in DOMAIN shadow : at[j] = p
  BY DEF Shadows
<1>1. /\ at \in [1..n -> places]
      /\ \A i, j \in 1..n : i < j => at[i] < at[j]
      /\ \A i \in 1..n : shadow[i] = stack[at[i]]
      /\ \A i \in 1..n, p \in places :
           at[i] <= p => \E j \in 1..n : at[j] = p
  BY <1>0
<1>2. n \in 1..n /\ \A i \in 1 .. n - 1 : i \in 1..n /\ i < n
  OBVIOUS
<1>3. at[n] = q
  <2>1. at[n] \in places /\ at[n] <= q /\ q \in Nat
    BY <1>1, <1>2
  <2>2. PICK j \in 1..n : at[j] = q
    BY <1>1, <1>2, <2>1
  <2>3. ~(j < n)
    <3>1. j < n => at[j] < at[n]
      BY <1>1, <1>2
    <3>2. at[n] \in Nat /\ at[j] = q
      BY <2>1, <2>2
    <3>3. QED
      BY <2>1, <3>1, <3>2
  <2>4. j = n
    BY <2>3
  <2>5. QED
    BY <2>2, <2>4
<1>4. ASSUME NEW i \in 1 .. n - 1 PROVE at[i] \in places \ {q} /\ at[i] < q
  <2>1. i \in 1..n /\ i < n
    OBVIOUS
  <2>2. at[i] < at[n] /\ at[i] \in places
    BY <1>1, <1>2, <2>1
  <2>3. at[i] \in Nat /\ q \in Nat
    BY <2>2
  <2>4. QED
    BY <1>3, <2>2, <2>3
<1> DEFINE to == [i \in 1 .. n - 1 |-> at[i]]
<1>5. to \in [1 .. n - 1 -> places \ {q}] /\ \A i \in 1 .. n - 1 : to[i] = at[i]
  BY <1>4
<1> HIDE DEF to
<1>6. /\ \A i, j \in 1 .. n - 1 : i < j => to[i] < to[j]
      /\ \A i \in 1 .. n - 1 : shrunk[i] = new[to[i]]
  <2>1. \A i, j \in 1 .. n - 1 : i < j => to[i] < to[j]
    BY <1>1, <1>2, <1>5
  <2>2. ASSUME NEW i \in 1 .. n - 1 PROVE shrunk[i] = new[to[i]]
    <3>1. shrunk[i] = shadow[i] /\ shadow[i] = stack[at[i]]
      BY <1>1, <1>2
    <3>2. new[at[i]] = stack[at[i]] /\ to[i] = at[i]
      BY <1>4, <1>5
    <3>3. QED
      BY <3>1, <3>2
  <2>3. QED
    BY <2>1, <2>2
<1>7. ASSUME NEW i \in 1 .. n - 1, NEW p \in places \ {q}, to[i] <= p
      PROVE  \E j \in 1 .. n - 1 : to[j] = p
  <2>1. PICK j \in 1..n : at[j] = p
    BY <1>1, <1>2, <1>5, <1>7
  <2>2. j # n
    BY <1>3, <2>1
  <2>3. j \in 1 .. n - 1
    BY <2>2
  <2>4. QED
    BY <1>5, <2>1, <2>3
<1>8. QED
  <2>1. Shadows(shrunk, new, places \ {q})
    <3>1. /\ to \in [DOMAIN shrunk -> places \ {q}]
          /\ \A i, j \in DOMAIN shrunk : i < j => to[i] < to[j]
          /\ \A i \in DOMAIN shrunk : shrunk[i] = new[to[i]]
          /\ \A i \in DOMAIN shrunk, p \in places \ {q} :
               to[i] <= p => \E j \in DOMAIN shrunk : to[j] = p
      BY <1>5, <1>6, <1>7
    <3>2. QED
      BY <3>1 DEF Shadows
  <2>2. QED
    BY <1>1, <1>2, <1>3, <2>1

\* A sequence that grows at its end.
LEMMA Grown ==
  ASSUME NEW S, NEW s \in Seq(S), NEW x \in S
  PROVE  /\ Append(s, x) \in Seq(S) /\ Append(s, x) # <<>>
         /\ Len(s) \in Nat /\ DOMAIN s = 1..Len(s)
         /\ Len(Append(s, x)) = Len(s) + 1
         /\ DOMAIN Append(s, x) = 1 .. Len(s) + 1
         /\ \A i \in 1..Len(s) : Append(s, x)[i] = s[i]
         /\ Append(s, x)[Len(s) + 1] = x
  OBVIOUS

\* The same for one that loses its last.
LEMMA Shrunk ==
  ASSUME NEW S, NEW s \in Seq(S), s # <<>>
  PROVE  /\ Front(s) \in Seq(S) /\ Len(s) \in Nat \ {0} /\ DOMAIN s = 1..Len(s)
         /\ Len(Front(s)) = Len(s) - 1 /\ DOMAIN Front(s) = 1 .. Len(s) - 1
         /\ \A i \in 1 .. Len(s) - 1 : Front(s)[i] = s[i] /\ i \in 1..Len(s)
         /\ Last(s) = s[Len(s)] /\ Last(s) \in S
<1> DEFINE m == Len(s) - 1
<1>1. m \in Nat /\ Front(s) = SubSeq(s, 1, m) /\ m <= Len(s) /\ Len(s) \in Nat \ {0}
  BY DEF Front
<1>2. SubSeq(s, 1, m) = [k \in 1..m |-> s[k]]
  BY <1>1
<1>3. \A k \in 1..m : s[k] \in S
  BY <1>1
<1> DEFINE f == [k \in 1..m |-> s[k]]
<1>4. f \in Seq(S) /\ Len(f) = m /\ DOMAIN f = 1..m /\ \A k \in 1..m : f[k] = s[k]
  <2> HIDE DEF m
  <2>1. QED
    BY <1>1, <1>3
<1>5. QED
  BY <1>1, <1>2, <1>4 DEF Last

\* The ids in use have been drawn.
Ids ==
  /\ \A i \in DOMAIN searches : searches[i].id \in 1..Len(owner)
  /\ \A i \in DOMAIN calls : calls[i].id \in 1..Len(owner)
  /\ pending # Nothing => pending.id \in 1..Len(owner)

\* The types of what an import's events write, and of the rest.
EventTypes ==
  /\ searches \in Seq(Searches) /\ pending \in Searches \union {Nothing}
  /\ owner \in Seq(1..MaxImports) /\ said \in Records \union {Nothing}
  /\ skewed \in BOOLEAN /\ stale \in BOOLEAN
OtherTypes ==
  /\ auditFirst \in BOOLEAN
  /\ level \in {"off", "audit", "results", "full", "lost"}
  /\ frames \in Seq(Frames) /\ Len(frames) <= MaxDepth
  /\ calls \in Seq(Searches) /\ contexts \in Seq(Names)
  /\ imports \in 0..MaxImports /\ changes \in 0..MaxChanges

\* TypeOK in the parts the steps write together.
LEMMA Types == TypeOK <=> EventTypes /\ OtherTypes /\ Ids
<1>1. (\A s \in Range(searches) \union Range(calls) \union ({pending} \ {Nothing}) :
         s.id \in 1..Len(owner)) <=> Ids
  BY DEF Range, Ids
<1>2. QED
  BY <1>1 DEF TypeOK, EventTypes, OtherTypes

\* A search from its parts.
LEMMA ASearch ==
  ASSUME NEW id \in Nat, NEW n \in Names
  PROVE  [id |-> id, name |-> n] \in Searches
  BY DEF Searches

\* What a search consists of.
LEMMA ASearchHas ==
  ASSUME NEW s \in Searches PROVE s.id \in Nat /\ s.name \in Names /\ s # Nothing
  BY NothingAssumption DEF Searches

\* A frame from its parts.
LEMMA AFrame ==
  ASSUME NEW w \in Whats, NEW n \in Names, NEW k \in Nat
  PROVE  [what |-> w, name |-> n, number |-> k] \in Frames
  BY DEF Frames

\* What a frame consists of.
LEMMA AFrameHas ==
  ASSUME NEW f \in Frames
  PROVE  f.what \in Whats /\ f.name \in Names /\ f.number \in Nat
  BY DEF Frames

\* A record from its parts.
LEMMA ARecord ==
  ASSUME NEW k \in {"searching", "started", "finished", "aggregate"},
         NEW id \in Nat, NEW n \in Names, NEW number \in Nat, NEW really \in Names,
         Say(k, id, n, number, really)
  PROVE  said' \in Records \union {Nothing}
  BY DEF Say, Records

\* Drawing an id.
LEMMA OwnerGrows ==
  ASSUME owner \in Seq(1..MaxImports), NEW number \in 1..MaxImports,
         NEW new, new = owner \/ new = Append(owner, number)
  PROVE  /\ new \in Seq(1..MaxImports) /\ Len(owner) \in Nat /\ Len(new) \in Nat
         /\ Len(owner) <= Len(new)
         /\ \A i \in 1..Len(owner) : new[i] = owner[i]
         /\ new # owner => Len(new) = Len(owner) + 1 /\ new[Len(owner) + 1] = number
         /\ new = Append(owner, number) => Len(new) = Len(owner) + 1
<1>1. CASE new = owner
  <2>1. owner # Append(owner, number)
    <3>1. Len(Append(owner, number)) = Len(owner) + 1 /\ Len(owner) \in Nat
      BY Grown
    <3>2. QED
      BY <3>1
  <2>2. QED
    BY <1>1, <2>1
<1>2. CASE new = Append(owner, number)
  BY <1>2, Grown
<1>3. QED
  BY <1>1, <1>2

\* What the audit event of an import does.
LEMMA AuditDoes ==
  ASSUME EventTypes, Ids, NEW n \in Names, NEW number \in 1..MaxImports,
         NEW entering \in {"before", "after", "never"},
         Audit(n, number, entering), UNCHANGED <<searches, calls>>
  PROVE  /\ EventTypes' /\ Ids'
         /\ owner' = owner \/ owner' = Append(owner, number)
<1>0. /\ owner \in Seq(1..MaxImports) /\ Len(owner) \in Nat
      /\ number \in Nat
  BY BoundAssumption DEF EventTypes
<1>1. CASE level = "off" \/ ~Ordinary(n)
  BY <1>1 DEF Audit, Silent, EventTypes, Ids, drawn
<1>2. CASE ~(level = "off" \/ ~Ordinary(n))
  <2> DEFINE open == ActiveSearch(n)
             id == IF open = 0 THEN NewSearchId ELSE open
             left == Listening /\ open = 0
  <2>1. /\ owner' = IF open = 0 THEN Append(owner, number) ELSE owner
        /\ Say("searching", id, n, number, n)
        /\ pending' = IF left THEN [id |-> id, name |-> n] ELSE pending
        /\ stale' = IF left THEN entering # "after" ELSE stale
        /\ skewed' = (skewed \/ (open # 0 /\ entering # "before"))
    BY <1>2 DEF Audit
  <2>2. open \in 0..Len(owner)
    <3>1. CASE searches # <<>> /\ Last(searches).name = n
      <4>1. searches \in Seq(Searches) /\ Len(searches) \in DOMAIN searches
        BY <3>1 DEF EventTypes
      <4>2. Last(searches) = searches[Len(searches)]
        BY <3>1, <4>1, Shrunk
      <4>3. QED
        BY <1>0, <3>1, <4>1, <4>2 DEF ActiveSearch, Ids
    <3>2. CASE ~(searches # <<>> /\ Last(searches).name = n)
      BY <1>0, <3>2 DEF ActiveSearch
    <3>3. QED
      BY <3>1, <3>2
  <2> HIDE DEF open
  <2>3. id \in Nat /\ (open = 0 => id = Len(owner) + 1) /\ (open # 0 => id = open)
    BY <1>0, <2>2 DEF NewSearchId
  <2> HIDE DEF id, left
  <2>4. /\ owner' \in Seq(1..MaxImports) /\ Len(owner') \in Nat
        /\ Len(owner) <= Len(owner') /\ id \in 1..Len(owner')
    <3>1. CASE open = 0
      <4>1. owner' = Append(owner, number) /\ id = Len(owner) + 1
        BY <2>1, <2>3, <3>1
      <4>2. QED
        BY <1>0, <4>1, OwnerGrows
    <3>2. CASE open # 0
      BY <1>0, <2>1, <2>2, <2>3, <3>2
    <3>3. QED
      BY <3>1, <3>2
  <2>5. said' \in Records \union {Nothing}
    BY <1>0, <2>1, <2>3, ARecord
  <2>6. \/ pending' = pending
        \/ pending' = [id |-> id, name |-> n]
    BY <2>1
  <2>7. pending' \in Searches \union {Nothing}
    BY <2>3, <2>6, ASearch DEF EventTypes
  <2>8. pending' # Nothing => pending'.id \in 1..Len(owner')
    BY <1>0, <2>4, <2>6 DEF Ids
  <2>9. skewed' \in BOOLEAN /\ stale' \in BOOLEAN
    BY <2>1 DEF EventTypes
  <2>10. EventTypes'
    BY <2>4, <2>5, <2>7, <2>9 DEF EventTypes
  <2>11. Ids'
    BY <1>0, <2>4, <2>8 DEF Ids
  <2>12. QED
    BY <2>1, <2>10, <2>11
<1>3. QED
  BY <1>1, <1>2

\* What the call event of an import does.
LEMMA EnterDoes ==
  ASSUME EventTypes, Ids, NEW n \in Names, NEW number \in 1..MaxImports,
         Enter(n, number), UNCHANGED calls
  PROVE  /\ EventTypes' /\ Ids'
         /\ owner' = owner \/ owner' = Append(owner, number)
<1>0. /\ owner \in Seq(1..MaxImports) /\ Len(owner) \in Nat
      /\ number \in Nat
  BY BoundAssumption DEF EventTypes
<1>1. CASE ~Enters \/ ~Ordinary(n)
  BY <1>1 DEF Enter, Silent, EventTypes, Ids
<1>2. CASE ~(~Enters \/ ~Ordinary(n))
  <2> DEFINE found == pending # Nothing /\ pending.name = n
             id == IF found THEN pending.id ELSE NewSearchId
  <2>1. /\ pending' = Nothing
        /\ owner' = IF found THEN owner ELSE Append(owner, number)
        /\ searches' = Append(searches, [id |-> id, name |-> n])
        /\ Say("started", id, n, number, n)
        /\ stale' = FALSE /\ skewed' \in BOOLEAN
    BY <1>2 DEF Enter, Taken, EventTypes
  <2>2. /\ found => id \in 1..Len(owner) /\ owner' = owner
        /\ ~found => id = Len(owner) + 1 /\ owner' = Append(owner, number)
    BY <2>1 DEF Ids, NewSearchId
  <2> HIDE DEF found, id
  <2>3. /\ owner' \in Seq(1..MaxImports) /\ Len(owner') \in Nat
        /\ Len(owner) <= Len(owner') /\ id \in 1..Len(owner') /\ id \in Nat
    BY <1>0, <2>2, OwnerGrows
  <2>4. said' \in Records \union {Nothing}
    BY <1>0, <2>1, <2>3, ARecord
  <2> DEFINE s == [id |-> id, name |-> n]
  <2>5. s \in Searches /\ s.id = id
    BY <2>3, ASearch
  <2> HIDE DEF s
  <2>6. searches' = Append(searches, s)
    BY <2>1 DEF s
  <2>7. searches \in Seq(Searches)
    BY DEF EventTypes
  <2>8. /\ searches' \in Seq(Searches) /\ Len(searches) \in Nat
        /\ DOMAIN searches = 1..Len(searches)
        /\ DOMAIN searches' = 1 .. Len(searches) + 1
        /\ \A i \in 1..Len(searches) : searches'[i] = searches[i]
        /\ searches'[Len(searches) + 1] = s
    BY <2>5, <2>6, <2>7, Grown
  <2>9. \A i \in DOMAIN searches' : searches'[i].id \in 1..Len(owner')
    <3> SUFFICES ASSUME NEW i \in DOMAIN searches'
                 PROVE  searches'[i].id \in 1..Len(owner')
      OBVIOUS
    <3>1. CASE i \in 1..Len(searches)
      BY <1>0, <2>3, <2>8, <3>1 DEF Ids
    <3>2. CASE i = Len(searches) + 1
      BY <2>3, <2>5, <2>8, <3>2
    <3>3. QED
      BY <2>8, <3>1, <3>2
  <2>10. EventTypes'
    BY <2>1, <2>3, <2>4, <2>8 DEF EventTypes
  <2>11. Ids'
    BY <1>0, <2>1, <2>3, <2>9 DEF Ids
  <2>12. QED
    BY <2>2, <2>10, <2>11
<1>3. QED
  BY <1>1, <1>2

\* The innermost frame is called from the one before, in the same import.
RunsIn(stack) ==
  \A p, i \in DOMAIN stack :
    p <= i /\ stack[p].what \in {"asking", "load"}
      /\ (\A j \in p + 1 .. i : stack[j].what \notin {"asking", "load"})
      => stack[i].number = stack[p].number
AskingLast(stack) == \A i \in DOMAIN stack : stack[i].what = "asking" => i = Len(stack)
Numbered(stack, n) ==
  \A i \in DOMAIN stack : stack[i].what \in {"asking", "load"} => stack[i].number \in 1..n

\* FramesFit in terms of the stack alone.
LEMMA FitsParts ==
  FramesFit <=> /\ AskingLast(frames) /\ Numbered(frames, imports) /\ RunsIn(frames)
                /\ \A i \in DOMAIN owner : owner[i] \in 1..imports
  BY DEF FramesFit, ImportFrame, AskingLast, Numbered, RunsIn

\* A frame on top keeps them.
LEMMA PushFits ==
  ASSUME NEW s \in Seq(Frames), NEW f \in Frames, NEW m \in Nat, NEW k \in Nat,
         AskingLast(s), Numbered(s, m), RunsIn(s), m <= k,
         s # <<>> => Last(s).what # "asking",
         f.what \in {"asking", "load"} => f.number \in 1..k,
         f.what \notin {"asking", "load"} /\ s # <<>> => f.number = Last(s).number
  PROVE  LET t == Append(s, f) IN AskingLast(t) /\ Numbered(t, k) /\ RunsIn(t)
<1> DEFINE t == Append(s, f)
           n == Len(s)
<1>1. /\ n \in Nat /\ DOMAIN s = 1..n /\ DOMAIN t = 1 .. n + 1 /\ Len(t) = n + 1
      /\ \A i \in 1..n : t[i] = s[i]
      /\ t[n + 1] = f
  BY Grown
<1>2. s # <<>> => n \in 1..n /\ Last(s) = s[n]
  <2>1. s # <<>> => Last(s) = s[Len(s)] /\ Len(s) \in Nat \ {0}
    BY Shrunk
  <2>2. QED
    BY <2>1
<1>3. n = 0 => s = <<>>
  OBVIOUS
<1> HIDE DEF t, n
<1>4. \A i \in 1 .. n + 1 : i = n + 1 \/ i \in 1..n
  BY <1>1
<1>5. AskingLast(t)
  <2> SUFFICES ASSUME NEW i \in 1..n, t[i].what = "asking" PROVE FALSE
    BY <1>1, <1>4 DEF AskingLast
  <2>1. s[i].what = "asking" /\ i = Len(s)
    BY <1>1 DEF AskingLast
  <2>2. i = n /\ s # <<>>
    BY <1>1, <2>1 DEF n
  <2>3. QED
    BY <1>2, <2>1, <2>2
<1>6. Numbered(t, k)
  <2> SUFFICES ASSUME NEW i \in 1 .. n + 1, t[i].what \in {"asking", "load"}
               PROVE  t[i].number \in 1..k
    BY <1>1 DEF Numbered
  <2>1. CASE i = n + 1
    BY <1>1, <2>1
  <2>2. CASE i \in 1..n
    <3>1. s[i].number \in 1..m
      BY <1>1, <2>2 DEF Numbered
    <3>2. QED
      BY <1>1, <2>2, <3>1
  <2>3. QED
    BY <1>4, <2>1, <2>2
<1>7. RunsIn(t)
  <2> SUFFICES ASSUME NEW p \in 1 .. n + 1, NEW i \in 1 .. n + 1, p <= i,
                      t[p].what \in {"asking", "load"},
                      \A j \in p + 1 .. i : t[j].what \notin {"asking", "load"}
               PROVE  t[i].number = t[p].number
    BY <1>1 DEF RunsIn
  <2>1. CASE i \in 1..n
    <3>1. p \in 1..n /\ \A j \in p + 1 .. i : j \in 1..n
      BY <1>1, <2>1
    <3>2. /\ s[p].what \in {"asking", "load"}
          /\ \A j \in p + 1 .. i : s[j].what \notin {"asking", "load"}
      BY <1>1, <3>1
    <3>3. s[i].number = s[p].number
      BY <1>1, <2>1, <3>1, <3>2 DEF RunsIn
    <3>4. QED
      BY <1>1, <2>1, <3>1, <3>3
  <2>2. CASE i = n + 1 /\ p = n + 1
    BY <2>2
  <2>3. CASE i = n + 1 /\ p \in 1..n
    <3>1. n \in 1..n /\ s # <<>> /\ i \in p + 1 .. i
      <4>1. n \in 1..n /\ i \in p + 1 .. i
        BY <1>1, <2>3
      <4>2. s # <<>>
        BY <4>1 DEF n
      <4>3. QED
        BY <4>1, <4>2
    <3>2. f.what \notin {"asking", "load"} /\ f.number = s[n].number
      BY <1>1, <1>2, <2>3, <3>1
    <3>3. \A j \in p + 1 .. n : j \in 1..n /\ j \in p + 1 .. i
      BY <1>1, <2>3
    <3>4. /\ s[p].what \in {"asking", "load"} /\ p <= n
          /\ \A j \in p + 1 .. n : s[j].what \notin {"asking", "load"}
      BY <1>1, <2>3, <3>3
    <3>5. s[n].number = s[p].number
      BY <1>1, <2>3, <3>1, <3>4 DEF RunsIn
    <3>6. QED
      BY <1>1, <2>3, <3>2, <3>5
  <2>4. QED
    BY <1>4, <2>1, <2>2, <2>3
<1>8. QED
  BY <1>5, <1>6, <1>7 DEF t

\* A frame less keeps them, and is not between its events.
LEMMA PopFits ==
  ASSUME NEW s \in Seq(Frames), NEW m \in Nat, s # <<>>,
         AskingLast(s), Numbered(s, m), RunsIn(s)
  PROVE  LET t == Front(s) IN
           AskingLast(t) /\ Numbered(t, m) /\ RunsIn(t)
             /\ (t # <<>> => Last(t).what # "asking")
<1> DEFINE t == Front(s)
           n == Len(s)
<1>1. /\ n \in Nat \ {0} /\ DOMAIN s = 1..n /\ DOMAIN t = 1 .. n - 1
      /\ Len(t) = n - 1 /\ t \in Seq(Frames)
      /\ \A i \in 1 .. n - 1 : t[i] = s[i] /\ i \in 1..n
  BY Shrunk
<1>2. \A i \in 1 .. n - 1 : s[i].what # "asking"
  <2> SUFFICES ASSUME NEW i \in 1 .. n - 1, s[i].what = "asking" PROVE FALSE
    OBVIOUS
  <2>1. i = n
    BY <1>1 DEF AskingLast
  <2>2. QED
    BY <1>1, <2>1
<1>3. t # <<>> => Last(t) = t[n - 1] /\ n - 1 \in 1 .. n - 1
  <2> HIDE DEF t
  <2>1. t # <<>> => Last(t) = t[Len(t)] /\ Len(t) \in Nat \ {0}
    BY <1>1, Shrunk
  <2>2. QED
    BY <1>1, <2>1
<1> HIDE DEF t, n
<1>4. AskingLast(t) /\ (t # <<>> => Last(t).what # "asking")
  BY <1>1, <1>2, <1>3 DEF AskingLast
<1>5. Numbered(t, m)
  BY <1>1 DEF Numbered
<1>6. RunsIn(t)
  <2> SUFFICES ASSUME NEW p \in 1 .. n - 1, NEW i \in 1 .. n - 1, p <= i,
                      t[p].what \in {"asking", "load"},
                      \A j \in p + 1 .. i : t[j].what \notin {"asking", "load"}
               PROVE  t[i].number = t[p].number
    BY <1>1 DEF RunsIn
  <2>1. \A j \in p + 1 .. i : j \in 1 .. n - 1
    BY <1>1
  <2>2. s[i].number = s[p].number
    BY <1>1, <2>1 DEF RunsIn
  <2>3. QED
    BY <1>1, <2>2
<1>7. QED
  BY <1>4, <1>5, <1>6 DEF t

\* The bounds are numbers.
LEMMA BoundsAre == MaxImports \in Nat /\ MaxDepth \in Nat /\ MaxChanges \in Nat
  BY BoundAssumption

\* A frame more.
LEMMA PushStep ==
  ASSUME OtherTypes, FramesFit, Len(frames) < MaxDepth,
         frames # <<>> => Last(frames).what # "asking",
         NEW w \in Whats, NEW n \in Names, NEW k \in Nat, Push(w, n, k),
         imports' \in 0..MaxImports, imports <= imports',
         w \in {"asking", "load"} => k \in 1..imports',
         w \notin {"asking", "load"} => k = Current,
         \A i \in DOMAIN owner' : owner'[i] \in 1..imports',
         UNCHANGED <<auditFirst, level, changes>>,
         calls' \in Seq(Searches), contexts' \in Seq(Names)
  PROVE  OtherTypes' /\ FramesFit'
<1> DEFINE f == [what |-> w, name |-> n, number |-> k]
<1>1. frames' = Append(frames, f) /\ f \in Frames
      /\ f.what = w /\ f.number = k
  BY AFrame DEF Push
<1>2. frames \in Seq(Frames) /\ imports \in Nat /\ imports' \in Nat
  BY BoundsAre DEF OtherTypes
<1> HIDE DEF f
<1>3. frames' \in Seq(Frames) /\ Len(frames') = Len(frames) + 1 /\ Len(frames) \in Nat
  BY <1>1, <1>2, Grown
<1>4. OtherTypes'
  BY <1>3, BoundsAre DEF OtherTypes
<1>5. AskingLast(frames) /\ Numbered(frames, imports) /\ RunsIn(frames)
  BY FitsParts
<1>6. w \notin {"asking", "load"} /\ frames # <<>> => k = Last(frames).number
  BY DEF Current
<1>7. AskingLast(frames') /\ Numbered(frames', imports') /\ RunsIn(frames')
  BY <1>1, <1>2, <1>5, <1>6, PushFits
<1>8. FramesFit'
  BY <1>7 DEF FramesFit, ImportFrame, AskingLast, Numbered, RunsIn
<1>9. QED
  BY <1>4, <1>8

\* A frame less, at whatever level.
LEMMA PopFrame ==
  ASSUME OtherTypes, FramesFit, frames # <<>>, frames' = Front(frames),
         UNCHANGED <<auditFirst, imports, changes, owner>>,
         level' \in {"off", "audit", "results", "full", "lost"},
         calls' \in Seq(Searches), contexts' \in Seq(Names)
  PROVE  OtherTypes' /\ FramesFit' /\ ~Asking'
<1>1. frames \in Seq(Frames) /\ imports \in Nat
  BY BoundsAre DEF OtherTypes
<1>2. /\ frames' \in Seq(Frames) /\ Len(frames') = Len(frames) - 1
      /\ Len(frames) \in Nat \ {0}
  BY <1>1, Shrunk
<1>3. OtherTypes'
  BY <1>2, BoundsAre DEF OtherTypes
<1>4. AskingLast(frames) /\ Numbered(frames, imports) /\ RunsIn(frames)
      /\ \A i \in DOMAIN owner : owner[i] \in 1..imports
  BY FitsParts
<1>5. /\ AskingLast(frames') /\ Numbered(frames', imports') /\ RunsIn(frames')
      /\ frames' # <<>> => Last(frames').what # "asking"
  BY <1>1, <1>4, PopFits
<1>6. FramesFit'
  BY <1>4, <1>5 DEF FramesFit, ImportFrame, AskingLast, Numbered, RunsIn
<1>7. QED
  BY <1>3, <1>5, <1>6 DEF Asking

\* A frame less.
LEMMA PopStep ==
  ASSUME OtherTypes, FramesFit, frames # <<>>, frames' = Front(frames),
         UNCHANGED <<auditFirst, level, imports, changes, owner>>,
         calls' \in Seq(Searches), contexts' \in Seq(Names)
  PROVE  OtherTypes' /\ FramesFit' /\ ~Asking'
<1>1. level' \in {"off", "audit", "results", "full", "lost"}
  BY DEF OtherTypes
<1>2. QED
  BY <1>1, PopFrame

\* The import asked for begins to load.
LEMMA TurnStep ==
  ASSUME OtherTypes, FramesFit, Asking,
         frames' = Append(Front(frames), [Last(frames) EXCEPT !.what = "load"]),
         \A i \in DOMAIN owner' : owner'[i] \in 1..imports,
         UNCHANGED <<auditFirst, level, imports, changes, calls, contexts>>
  PROVE  OtherTypes' /\ FramesFit' /\ ~Asking'
<1>0. PICK s, f : s = Front(frames) /\ f = [Last(frames) EXCEPT !.what = "load"]
  OBVIOUS
<1>1. frames \in Seq(Frames) /\ imports \in Nat /\ frames # <<>>
  BY BoundsAre DEF OtherTypes, Asking
<1>2. /\ s \in Seq(Frames) /\ Len(s) = Len(frames) - 1
      /\ Len(frames) \in Nat \ {0} /\ Len(frames) \in DOMAIN frames
      /\ Last(frames) = frames[Len(frames)] /\ Last(frames) \in Frames
  BY <1>0, <1>1, Shrunk
<1>3. f \in Frames /\ f.what = "load" /\ f.number = Last(frames).number
  BY <1>0, <1>2 DEF Frames, Whats
<1>4. AskingLast(frames) /\ Numbered(frames, imports) /\ RunsIn(frames)
  BY FitsParts
<1>5. /\ AskingLast(s) /\ Numbered(s, imports) /\ RunsIn(s)
      /\ s # <<>> => Last(s).what # "asking"
  BY <1>0, <1>1, <1>4, PopFits
<1>6. f.number \in 1..imports
  BY <1>2, <1>3, <1>4 DEF Asking, Numbered
<1>7. PICK t : t = Append(s, f) /\ frames' = t
  BY <1>0
<1>8. AskingLast(t) /\ Numbered(t, imports) /\ RunsIn(t)
  <2>1. f.what \in {"asking", "load"} => f.number \in 1..imports
    BY <1>6
  <2>2. f.what \notin {"asking", "load"} /\ s # <<>> => f.number = Last(s).number
    BY <1>3
  <2>3. LET u == Append(s, f) IN
          AskingLast(u) /\ Numbered(u, imports) /\ RunsIn(u)
    BY <1>1, <1>2, <1>3, <1>5, <2>1, <2>2, PushFits
  <2>4. QED
    BY <1>7, <2>3
<1>9. /\ t \in Seq(Frames) /\ Len(t) = Len(s) + 1
      /\ Len(s) \in Nat /\ t[Len(s) + 1] = f
  BY <1>2, <1>3, <1>7, Grown
<1>10. Last(frames') = f
  BY <1>7, <1>9 DEF Last
<1>11. OtherTypes'
  <2>1. Len(t) = Len(frames)
    BY <1>2, <1>9
  <2>2. QED
    BY <1>7, <1>9, <2>1, BoundsAre DEF OtherTypes
<1>12. FramesFit'
  <2>1. AskingLast(frames') /\ Numbered(frames', imports') /\ RunsIn(frames')
    BY <1>7, <1>8
  <2>2. QED
    BY <2>1 DEF FramesFit, ImportFrame, AskingLast, Numbered, RunsIn
<1>13. QED
  BY <1>3, <1>10, <1>11, <1>12 DEF Asking

\* What the shadows are compared with, of any stack of frames.
PlacesOf(s, W) == {i \in DOMAIN s : s[i].what \in W}
ReallyOf(s) == [i \in DOMAIN s |-> <<s[i].number, s[i].name>>]
CalledOf(s) == [i \in DOMAIN s |-> s[i].name]
AboutOf(stack, o) == [i \in DOMAIN stack |-> <<o[stack[i].id], stack[i].name>>]

\* A frame on top changes none below.
LEMMA KeysPushed ==
  ASSUME NEW s \in Seq(Frames), NEW f \in Frames
  PROVE  LET t == Append(s, f) IN
           /\ Len(s) \in Nat
           /\ \A p \in 1..Len(s) :
                ReallyOf(t)[p] = ReallyOf(s)[p] /\ CalledOf(t)[p] = CalledOf(s)[p]
           /\ ReallyOf(t)[Len(s) + 1] = <<f.number, f.name>>
           /\ CalledOf(t)[Len(s) + 1] = f.name
<1>0. PICK t, n : t = Append(s, f) /\ n = Len(s)
  OBVIOUS
<1>1. /\ n \in Nat /\ DOMAIN s = 1..n /\ DOMAIN t = 1 .. n + 1
      /\ \A i \in 1..n : t[i] = s[i] /\ i \in 1 .. n + 1
      /\ t[n + 1] = f /\ n + 1 \in 1 .. n + 1
  BY <1>0, Grown
<1>2. \A p \in 1..n :
        ReallyOf(t)[p] = ReallyOf(s)[p] /\ CalledOf(t)[p] = CalledOf(s)[p]
  BY <1>1 DEF ReallyOf, CalledOf
<1>3. ReallyOf(t)[n + 1] = <<f.number, f.name>> /\ CalledOf(t)[n + 1] = f.name
  BY <1>1 DEF ReallyOf, CalledOf
<1>4. QED
  BY <1>0, <1>1, <1>2, <1>3

\* Nor does a frame less.
LEMMA KeysPopped ==
  ASSUME NEW s \in Seq(Frames), s # <<>>
  PROVE  LET t == Front(s) IN
           /\ \A p \in 1 .. Len(s) - 1 :
                ReallyOf(t)[p] = ReallyOf(s)[p] /\ CalledOf(t)[p] = CalledOf(s)[p]
           /\ ReallyOf(s)[Len(s)] = <<Last(s).number, Last(s).name>>
           /\ CalledOf(s)[Len(s)] = Last(s).name
<1>0. PICK t, n : t = Front(s) /\ n = Len(s)
  OBVIOUS
<1>1. /\ n \in Nat \ {0} /\ DOMAIN s = 1..n /\ DOMAIN t = 1 .. n - 1
      /\ \A i \in 1 .. n - 1 : t[i] = s[i] /\ i \in 1..n
      /\ Last(s) = s[n] /\ n \in 1..n
  BY <1>0, Shrunk
<1>2. \A p \in 1 .. n - 1 :
        ReallyOf(t)[p] = ReallyOf(s)[p] /\ CalledOf(t)[p] = CalledOf(s)[p]
  BY <1>1 DEF ReallyOf, CalledOf
<1>3. /\ ReallyOf(s)[n] = <<Last(s).number, Last(s).name>>
      /\ CalledOf(s)[n] = Last(s).name
  BY <1>1 DEF ReallyOf, CalledOf
<1>4. QED
  BY <1>0, <1>1, <1>2, <1>3

\* The places when a frame is pushed.
LEMMA PlacesPushed ==
  ASSUME NEW s \in Seq(Frames), NEW f \in Frames, NEW W
  PROVE  /\ PlacesOf(s, W) \in SUBSET Nat /\ PlacesOf(s, W) \subseteq 1..Len(s)
         /\ \A p \in PlacesOf(s, W) : p < Len(s) + 1
         /\ f.what \notin W => PlacesOf(Append(s, f), W) = PlacesOf(s, W)
         /\ f.what \in W =>
              PlacesOf(Append(s, f), W) = PlacesOf(s, W) \union {Len(s) + 1}
<1>0. PICK t, n : t = Append(s, f) /\ n = Len(s)
  OBVIOUS
<1>1. /\ n \in Nat /\ DOMAIN s = 1..n /\ DOMAIN t = 1 .. n + 1
      /\ \A i \in 1..n : t[i] = s[i]
      /\ t[n + 1] = f
  BY <1>0, Grown
<1>2. \A i \in 1..n : i \in Nat /\ i < n + 1 /\ i \in 1 .. n + 1 /\ i # n + 1
  BY <1>1
<1>3. \A i \in 1 .. n + 1 : i \in 1..n \/ i = n + 1
  BY <1>1
<1>4. n + 1 \in 1 .. n + 1
  BY <1>1
<1>5. f.what \notin W => PlacesOf(t, W) = PlacesOf(s, W)
  BY <1>1, <1>2, <1>3 DEF PlacesOf
<1>6. f.what \in W => PlacesOf(t, W) = PlacesOf(s, W) \union {n + 1}
  BY <1>1, <1>2, <1>3, <1>4 DEF PlacesOf
<1>7. PlacesOf(s, W) \subseteq 1..n
  BY <1>1 DEF PlacesOf
<1>8. QED
  BY <1>0, <1>2, <1>5, <1>6, <1>7

\* The places when the innermost frame returns.
LEMMA PlacesPopped ==
  ASSUME NEW s \in Seq(Frames), s # <<>>, NEW W
  PROVE  /\ Len(s) \in Nat \ {0}
         /\ PlacesOf(s, W) \in SUBSET Nat /\ PlacesOf(s, W) \subseteq 1..Len(s)
         /\ \A p \in PlacesOf(s, W) : p <= Len(s)
         /\ PlacesOf(Front(s), W) = PlacesOf(s, W) \ {Len(s)}
         /\ PlacesOf(Front(s), W) \subseteq 1 .. Len(s) - 1
         /\ Len(s) \in PlacesOf(s, W) <=> Last(s).what \in W
<1>0. PICK t, n : t = Front(s) /\ n = Len(s)
  OBVIOUS
<1>1. /\ n \in Nat \ {0} /\ DOMAIN s = 1..n /\ DOMAIN t = 1 .. n - 1
      /\ \A i \in 1 .. n - 1 : t[i] = s[i]
      /\ Last(s) = s[n]
  BY <1>0, Shrunk
<1>2. \A i \in 1..n : i \in Nat /\ i <= n /\ (i # n => i \in 1 .. n - 1)
  BY <1>1
<1>3. \A i \in 1 .. n - 1 : i \in 1..n /\ i # n
  BY <1>1
<1>4. n \in 1..n
  BY <1>1
<1>5. PlacesOf(t, W) = PlacesOf(s, W) \ {n}
  BY <1>1, <1>2, <1>3 DEF PlacesOf
<1>6. /\ PlacesOf(s, W) \subseteq 1..n /\ PlacesOf(t, W) \subseteq 1 .. n - 1
      /\ n \in PlacesOf(s, W) <=> Last(s).what \in W
  BY <1>1, <1>4 DEF PlacesOf
<1>7. QED
  BY <1>0, <1>1, <1>2, <1>5, <1>6

\* A call of another kind than the shadow's.
LEMMA PushOther ==
  ASSUME NEW s \in Seq(Frames), NEW f \in Frames, NEW W, f.what \notin W,
         NEW shadow, NEW ks, NEW kt, \A p \in 1..Len(s) : kt[p] = ks[p],
         Shadows(shadow, ks, PlacesOf(s, W))
  PROVE  Shadows(shadow, kt, PlacesOf(Append(s, f), W))
<1>1. /\ PlacesOf(Append(s, f), W) = PlacesOf(s, W)
      /\ PlacesOf(s, W) \subseteq 1..Len(s)
  BY PlacesPushed
<1>2. Shadows(shadow, kt, PlacesOf(s, W))
  BY <1>1, ShadowKept
<1>3. QED
  BY <1>1, <1>2

\* A call that belongs to the shadow.
LEMMA PushOwn ==
  ASSUME NEW s \in Seq(Frames), NEW f \in Frames, NEW W, f.what \in W,
         NEW n \in Nat, NEW shadow, NEW grown, NEW ks, NEW kt,
         \A p \in 1..Len(s) : kt[p] = ks[p],
         DOMAIN shadow = 1..n, DOMAIN grown = 1 .. n + 1,
         \A i \in 1..n : grown[i] = shadow[i], grown[n + 1] = kt[Len(s) + 1],
         Shadows(shadow, ks, PlacesOf(s, W))
  PROVE  Shadows(grown, kt, PlacesOf(Append(s, f), W))
<1>1. /\ PlacesOf(Append(s, f), W) = PlacesOf(s, W) \union {Len(s) + 1}
      /\ PlacesOf(s, W) \in SUBSET Nat /\ PlacesOf(s, W) \subseteq 1..Len(s)
      /\ \A p \in PlacesOf(s, W) : p < Len(s) + 1
  BY PlacesPushed
<1>2. Len(s) + 1 \in Nat
  BY Grown
<1>3. PICK q, places : q = Len(s) + 1 /\ places = PlacesOf(s, W)
  OBVIOUS
<1>4. Shadows(grown, kt, places \union {q})
  <2>1. q \in Nat /\ places \in SUBSET Nat /\ grown[n + 1] = kt[q]
    BY <1>1, <1>2, <1>3
  <2>2. \A p \in places : p < q /\ kt[p] = ks[p]
    BY <1>1, <1>3
  <2>3. Shadows(shadow, ks, places)
    BY <1>3
  <2>4. QED
    BY <2>1, <2>2, <2>3, ShadowGrows
<1>5. QED
  BY <1>1, <1>3, <1>4

\* A return from a call of another kind.
LEMMA PopOther ==
  ASSUME NEW s \in Seq(Frames), s # <<>>, NEW W, Last(s).what \notin W,
         NEW shadow, NEW ks, NEW kt, \A p \in 1 .. Len(s) - 1 : kt[p] = ks[p],
         Shadows(shadow, ks, PlacesOf(s, W))
  PROVE  Shadows(shadow, kt, PlacesOf(Front(s), W))
<1>1. /\ PlacesOf(Front(s), W) = PlacesOf(s, W)
      /\ PlacesOf(Front(s), W) \subseteq 1 .. Len(s) - 1
  <2>1. PICK q, places, less :
          q = Len(s) /\ places = PlacesOf(s, W) /\ less = PlacesOf(Front(s), W)
    OBVIOUS
  <2>2. less = places \ {q} /\ less \subseteq 1 .. Len(s) - 1 /\ q \notin places
    BY <2>1, PlacesPopped
  <2>3. QED
    BY <2>1, <2>2
<1>2. Shadows(shadow, kt, PlacesOf(s, W))
  BY <1>1, ShadowKept
<1>3. QED
  BY <1>1, <1>2

\* A return that belongs to it.
LEMMA PopOwn ==
  ASSUME NEW s \in Seq(Frames), s # <<>>, NEW W, Last(s).what \in W,
         NEW n \in Nat \ {0}, NEW shadow, NEW shrunk, NEW ks, NEW kt,
         \A p \in 1 .. Len(s) - 1 : kt[p] = ks[p],
         DOMAIN shadow = 1..n, DOMAIN shrunk = 1 .. n - 1,
         \A i \in 1 .. n - 1 : shrunk[i] = shadow[i],
         Shadows(shadow, ks, PlacesOf(s, W))
  PROVE  shadow[n] = ks[Len(s)] /\ Shadows(shrunk, kt, PlacesOf(Front(s), W))
<1>1. PICK q, places : q = Len(s) /\ places = PlacesOf(s, W)
  OBVIOUS
<1>2. /\ PlacesOf(Front(s), W) = places \ {q} /\ places \in SUBSET Nat
      /\ PlacesOf(Front(s), W) \subseteq 1 .. Len(s) - 1
      /\ \A p \in places : p <= q
      /\ q \in places
  BY <1>1, PlacesPopped
<1>3. \A p \in places \ {q} : kt[p] = ks[p]
  BY <1>2
<1>4. Shadows(shadow, ks, places)
  BY <1>1
<1>5. shadow[n] = ks[q] /\ Shadows(shrunk, kt, places \ {q})
  BY <1>2, <1>3, <1>4, ShadowShrinks
<1>6. QED
  BY <1>1, <1>2, <1>5

\* The innermost entry of a shadow is that of the innermost place.
LEMMA ShadowTop ==
  ASSUME NEW n \in Nat \ {0}, NEW shadow, NEW stack, NEW places \in SUBSET Nat,
         DOMAIN shadow = 1..n, Shadows(shadow, stack, places)
  PROVE  \E q \in places : shadow[n] = stack[q] /\ \A p \in places : p <= q
<1>0. PICK at \in [DOMAIN shadow -> places] :
        /\ \A i, j \in DOMAIN shadow : i < j => at[i] < at[j]
        /\ \A i \in DOMAIN shadow : shadow[i] = stack[at[i]]
        /\ \A i \in DOMAIN shadow, p \in places :
             at[i] <= p => \E j \in DOMAIN shadow : at[j] = p
  BY DEF Shadows
<1>1. /\ at \in [1..n -> places]
      /\ \A i, j \in 1..n : i < j => at[i] < at[j]
      /\ \A i \in 1..n : shadow[i] = stack[at[i]]
      /\ \A i \in 1..n, p \in places :
           at[i] <= p => \E j \in 1..n : at[j] = p
  BY <1>0
<1>2. n \in 1..n /\ at[n] \in places /\ at[n] \in Nat
  <2>1. n \in 1..n
    OBVIOUS
  <2>2. at[n] \in places
    BY <1>1, <2>1
  <2>3. QED
    BY <2>1, <2>2
<1>3. ASSUME NEW p \in places, ~(p <= at[n]) PROVE FALSE
  <2>1. p \in Nat
    OBVIOUS
  <2>2. at[n] <= p
    BY <1>2, <1>3, <2>1
  <2>3. PICK j \in 1..n : at[j] = p
    BY <1>1, <1>2, <2>2
  <2>4. j = n \/ j < n
    BY <2>3
  <2>5. j < n => at[j] < at[n]
    BY <1>1, <1>2
  <2>6. QED
    BY <1>2, <1>3, <2>1, <2>3, <2>4, <2>5
<1>4. QED
  BY <1>1, <1>2, <1>3

\* Ids drawn later do not change what earlier ones are about.
LEMMA AboutKept ==
  ASSUME NEW stack, NEW o, NEW n, NEW m, \A i \in 1..m : n[i] = o[i],
         \A i \in DOMAIN stack : stack[i].id \in 1..m
  PROVE  AboutOf(stack, n) = AboutOf(stack, o)
  BY DEF AboutOf

\* Every id was drawn for another import.
OneEach(o) == \A i, j \in 1..Len(o) : o[i] = o[j] => i = j

\* The three shadows of a stack.
Agree(se, ca, co, fr, o, entered) ==
  /\ Shadows(AboutOf(se, o), ReallyOf(fr), PlacesOf(fr, entered))
  /\ Shadows(AboutOf(ca, o), ReallyOf(fr), PlacesOf(fr, {"path_finder"}))
  /\ Shadows(co, CalledOf(fr), PlacesOf(fr, {"entry"}))

\* What holds of a step's end as long as nothing is skewed.
PendingGood ==
  pending # Nothing /\ ~stale =>
    /\ auditFirst /\ Asking
    /\ pending.name = Last(frames).name /\ Ordinary(pending.name)
    /\ owner[pending.id] = Last(frames).number
AskingGood ==
  Asking /\ Ordinary(Last(frames).name) =>
    IF auditFirst
      THEN Listening => pending # Nothing /\ ~stale
      ELSE IF level = "full" THEN searches # <<>>
           ELSE \A i \in DOMAIN owner : owner[i] # Last(frames).number
EmptyGood == level # "full" => searches = <<>> /\ calls = <<>> /\ contexts = <<>>
SaidGood ==
  said # Nothing => said.name = said.really /\ owner[said.id] = said.number
Good ==
  /\ PendingGood /\ AskingGood /\ EmptyGood /\ SaidGood
  /\ Agree(searches, calls, contexts, frames, owner, Entered)
  /\ OneEach(owner)

JoinInv == ProfilingInv /\ RecordsOwnImport

\* The invariant as its types and what holds while nothing is skewed.
LEMMA JoinParts ==
  JoinInv <=> EventTypes /\ OtherTypes /\ Ids /\ FramesFit /\ (~skewed => Good)
<1>1. ShadowsAreTheStack <=>
        (~skewed => Agree(searches, calls, contexts, frames, owner, Entered))
  BY DEF ShadowsAreTheStack, Agree, About, Really, Called, Places, AboutOf,
         ReallyOf, CalledOf, PlacesOf
<1>2. /\ PendingFits <=> (~skewed => PendingGood)
      /\ AskingFits <=> (~skewed => AskingGood)
      /\ NoShadowsYet <=> (~skewed => EmptyGood)
      /\ RecordsOwnImport <=> (~skewed => SaidGood)
      /\ OneSearchPerImport <=> (~skewed => OneEach(owner))
  BY DEF PendingFits, PendingGood, AskingFits, AskingGood, NoShadowsYet,
         EmptyGood, Open, RecordsOwnImport, SaidGood, OneSearchPerImport, OneEach
<1>3. QED
  BY <1>1, <1>2, Types DEF JoinInv, ProfilingInv, Good

\* The same of the next state.
LEMMA JoinPartsNext ==
  JoinInv' <=> EventTypes' /\ OtherTypes' /\ Ids' /\ FramesFit'
                 /\ (~skewed' => Good')
  BY JoinParts, PTL

\* A fresh number.
LEMMA OneMore ==
  ASSUME NEW o \in Seq(1..MaxImports), NEW k \in 1..MaxImports, OneEach(o),
         \A i \in DOMAIN o : o[i] # k
  PROVE  OneEach(Append(o, k))
<1>0. PICK n, t : n = Len(o) /\ t = Append(o, k)
  OBVIOUS
<1>1. /\ n \in Nat /\ DOMAIN o = 1..n /\ Len(t) = n + 1
      /\ \A i \in 1..n : t[i] = o[i]
      /\ t[n + 1] = k
  BY <1>0, Grown
<1>2. \A i \in 1 .. n + 1 : i \in 1..n \/ i = n + 1
  BY <1>1
<1>3. \A i, j \in 1..n : o[i] = o[j] => i = j
  BY <1>0 DEF OneEach
<1>4. \A i, j \in 1 .. n + 1 : t[i] = t[j] => i = j
  BY <1>1, <1>2, <1>3
<1>5. QED
  BY <1>0, <1>1, <1>4 DEF OneEach

\* A stack of searches and what it is about.
LEMMA AboutIs ==
  ASSUME NEW stack \in Seq(Searches), NEW o
  PROVE  /\ Len(stack) \in Nat /\ DOMAIN stack = 1..Len(stack)
         /\ DOMAIN AboutOf(stack, o) = 1..Len(stack)
         /\ \A i \in 1..Len(stack) :
              AboutOf(stack, o)[i] = <<o[stack[i].id], stack[i].name>>
  BY DEF AboutOf

\* What a stack of searches is about, with one more.
LEMMA AboutGrows ==
  ASSUME NEW stack \in Seq(Searches), NEW s \in Searches, NEW o
  PROVE  /\ DOMAIN AboutOf(Append(stack, s), o) = 1 .. Len(stack) + 1
         /\ \A i \in 1..Len(stack) :
              AboutOf(Append(stack, s), o)[i] = AboutOf(stack, o)[i]
         /\ AboutOf(Append(stack, s), o)[Len(stack) + 1] = <<o[s.id], s.name>>
<1>0. PICK n, t : n = Len(stack) /\ t = Append(stack, s)
  OBVIOUS
<1>1. /\ n \in Nat /\ DOMAIN stack = 1..n /\ DOMAIN t = 1 .. n + 1
      /\ \A i \in 1..n : t[i] = stack[i] /\ i \in 1 .. n + 1
      /\ t[n + 1] = s /\ n + 1 \in 1 .. n + 1
  BY <1>0, Grown
<1>2. QED
  BY <1>0, <1>1 DEF AboutOf

\* And with one less.
LEMMA AboutShrinks ==
  ASSUME NEW stack \in Seq(Searches), stack # <<>>, NEW o
  PROVE  /\ Len(stack) \in Nat \ {0}
         /\ DOMAIN AboutOf(Front(stack), o) = 1 .. Len(stack) - 1
         /\ \A i \in 1 .. Len(stack) - 1 :
              AboutOf(Front(stack), o)[i] = AboutOf(stack, o)[i]
         /\ AboutOf(stack, o)[Len(stack)] = <<o[Last(stack).id], Last(stack).name>>
<1>0. PICK n, t : n = Len(stack) /\ t = Front(stack)
  OBVIOUS
<1>1. /\ n \in Nat \ {0} /\ DOMAIN stack = 1..n /\ DOMAIN t = 1 .. n - 1
      /\ \A i \in 1 .. n - 1 : t[i] = stack[i] /\ i \in 1..n
      /\ Last(stack) = stack[n] /\ n \in 1..n
  BY <1>0, Shrunk
<1>2. QED
  BY <1>0, <1>1 DEF AboutOf

\* A search that is entered with its frame.
LEMMA SearchEntered ==
  ASSUME NEW fr \in Seq(Frames), NEW f \in Frames, NEW se \in Seq(Searches),
         NEW s \in Searches, NEW o, NEW entered, f.what \in entered,
         o[s.id] = f.number, s.name = f.name,
         Shadows(AboutOf(se, o), ReallyOf(fr), PlacesOf(fr, entered))
  PROVE  Shadows(AboutOf(Append(se, s), o), ReallyOf(Append(fr, f)),
                 PlacesOf(Append(fr, f), entered))
<1>0. PICK n, m, old, new, ks, kt :
        /\ n = Len(se) /\ m = Len(fr)
        /\ old = AboutOf(se, o) /\ new = AboutOf(Append(se, s), o)
        /\ ks = ReallyOf(fr) /\ kt = ReallyOf(Append(fr, f))
  OBVIOUS
<1>1. n \in Nat /\ DOMAIN old = 1..n
  BY <1>0, AboutIs
<1>2. /\ DOMAIN new = 1 .. n + 1 /\ \A i \in 1..n : new[i] = old[i]
      /\ new[n + 1] = <<o[s.id], s.name>>
  BY <1>0, AboutGrows
<1>3. /\ \A p \in 1..Len(fr) : kt[p] = ks[p]
      /\ kt[Len(fr) + 1] = <<f.number, f.name>>
  BY <1>0, KeysPushed
<1>4. new[n + 1] = kt[Len(fr) + 1]
  BY <1>2, <1>3
<1>5. Shadows(old, ks, PlacesOf(fr, entered))
  BY <1>0
<1>6. Shadows(new, kt, PlacesOf(Append(fr, f), entered))
  BY <1>1, <1>2, <1>3, <1>4, <1>5, PushOwn
<1>7. QED
  BY <1>0, <1>6

\* A search that ends with its frame.
LEMMA SearchLeft ==
  ASSUME NEW fr \in Seq(Frames), fr # <<>>, NEW se \in Seq(Searches), se # <<>>,
         NEW o, NEW entered, Last(fr).what \in entered,
         Shadows(AboutOf(se, o), ReallyOf(fr), PlacesOf(fr, entered))
  PROVE  /\ o[Last(se).id] = Last(fr).number /\ Last(se).name = Last(fr).name
         /\ Shadows(AboutOf(Front(se), o), ReallyOf(Front(fr)),
                    PlacesOf(Front(fr), entered))
<1>0. PICK n, m, old, new, ks, kt :
        /\ n = Len(se) /\ m = Len(fr)
        /\ old = AboutOf(se, o) /\ new = AboutOf(Front(se), o)
        /\ ks = ReallyOf(fr) /\ kt = ReallyOf(Front(fr))
  OBVIOUS
<1>1. n \in Nat \ {0} /\ DOMAIN old = 1..n
  BY <1>0, AboutIs, AboutShrinks
<1>2. /\ DOMAIN new = 1 .. n - 1 /\ \A i \in 1 .. n - 1 : new[i] = old[i]
      /\ old[n] = <<o[Last(se).id], Last(se).name>>
  BY <1>0, AboutShrinks
<1>3. /\ \A p \in 1 .. Len(fr) - 1 : kt[p] = ks[p]
      /\ ks[Len(fr)] = <<Last(fr).number, Last(fr).name>>
  BY <1>0, KeysPopped
<1>4. Shadows(old, ks, PlacesOf(fr, entered))
  BY <1>0
<1>5. old[n] = ks[Len(fr)] /\ Shadows(new, kt, PlacesOf(Front(fr), entered))
  BY <1>1, <1>2, <1>3, <1>4, PopOwn
<1>6. QED
  BY <1>0, <1>2, <1>3, <1>5

\* A call of another kind leaves a shadow as it is.
LEMMA OtherPushed ==
  ASSUME NEW fr \in Seq(Frames), NEW f \in Frames, NEW W, f.what \notin W, NEW sh
  PROVE  /\ Shadows(sh, ReallyOf(fr), PlacesOf(fr, W)) =>
              Shadows(sh, ReallyOf(Append(fr, f)), PlacesOf(Append(fr, f), W))
         /\ Shadows(sh, CalledOf(fr), PlacesOf(fr, W)) =>
              Shadows(sh, CalledOf(Append(fr, f)), PlacesOf(Append(fr, f), W))
<1>1. PICK rs, rt, cs, ct :
        /\ rs = ReallyOf(fr) /\ rt = ReallyOf(Append(fr, f))
        /\ cs = CalledOf(fr) /\ ct = CalledOf(Append(fr, f))
  OBVIOUS
<1>2. \A p \in 1..Len(fr) : rt[p] = rs[p] /\ ct[p] = cs[p]
  BY <1>1, KeysPushed
<1>3. /\ Shadows(sh, rs, PlacesOf(fr, W)) => Shadows(sh, rt, PlacesOf(Append(fr, f), W))
      /\ Shadows(sh, cs, PlacesOf(fr, W)) => Shadows(sh, ct, PlacesOf(Append(fr, f), W))
  BY <1>2, PushOther
<1>4. QED
  BY <1>1, <1>3

\* So does its return.
LEMMA OtherPopped ==
  ASSUME NEW fr \in Seq(Frames), fr # <<>>, NEW W, Last(fr).what \notin W, NEW sh
  PROVE  /\ Shadows(sh, ReallyOf(fr), PlacesOf(fr, W)) =>
              Shadows(sh, ReallyOf(Front(fr)), PlacesOf(Front(fr), W))
         /\ Shadows(sh, CalledOf(fr), PlacesOf(fr, W)) =>
              Shadows(sh, CalledOf(Front(fr)), PlacesOf(Front(fr), W))
<1>1. PICK rs, rt, cs, ct :
        /\ rs = ReallyOf(fr) /\ rt = ReallyOf(Front(fr))
        /\ cs = CalledOf(fr) /\ ct = CalledOf(Front(fr))
  OBVIOUS
<1>2. \A p \in 1 .. Len(fr) - 1 : rt[p] = rs[p] /\ ct[p] = cs[p]
  BY <1>1, KeysPopped
<1>3. /\ Shadows(sh, rs, PlacesOf(fr, W)) => Shadows(sh, rt, PlacesOf(Front(fr), W))
      /\ Shadows(sh, cs, PlacesOf(fr, W)) => Shadows(sh, ct, PlacesOf(Front(fr), W))
  BY <1>2, PopOther
<1>4. QED
  BY <1>1, <1>3

\* The frame on top.
LEMMA LastPushed ==
  ASSUME NEW fr \in Seq(Frames), NEW f \in Frames
  PROVE  Append(fr, f) # <<>> /\ Last(Append(fr, f)) = f
<1>1. PICK t : t = Append(fr, f)
  OBVIOUS
<1>2. Len(t) = Len(fr) + 1 /\ t[Len(fr) + 1] = f /\ t # <<>>
  BY <1>1, Grown
<1>3. QED
  BY <1>1, <1>2 DEF Last

\* An empty stack is a shadow of any.
LEMMA EmptyAbout ==
  ASSUME NEW o, NEW ks, NEW W, NEW fr
  PROVE  Shadows(AboutOf(<<>>, o), ks, PlacesOf(fr, W)) /\ Shadows(<<>>, ks, PlacesOf(fr, W))
<1>1. AboutOf(<<>>, o) = <<>>
  BY DEF AboutOf
<1>2. QED
  BY <1>1, NoShadow

\* Drawing an id leaves what the open searches are about.
LEMMA KeepAbout ==
  ASSUME EventTypes, Ids, NEW number \in 1..MaxImports,
         owner' = owner \/ owner' = Append(owner, number)
  PROVE  /\ AboutOf(searches, owner') = AboutOf(searches, owner)
         /\ AboutOf(calls, owner') = AboutOf(calls, owner)
         /\ \A i \in 1..Len(owner) : owner'[i] = owner[i]
<1>1. owner \in Seq(1..MaxImports)
  BY DEF EventTypes
<1>2. \A i \in 1..Len(owner) : owner'[i] = owner[i]
  BY <1>1, OwnerGrows
<1>3. /\ \A i \in DOMAIN searches : searches[i].id \in 1..Len(owner)
      /\ \A i \in DOMAIN calls : calls[i].id \in 1..Len(owner)
  BY DEF Ids
<1>4. QED
  BY <1>2, <1>3, AboutKept

\* Ids are drawn for imports that have begun.
LEMMA OwnerBounded ==
  ASSUME NEW o \in Seq(1..MaxImports), NEW m \in Nat, NEW k \in 1..MaxImports,
         NEW j \in Nat, m <= j, k <= j,
         \A i \in DOMAIN o : o[i] \in 1..m, NEW new, new = o \/ new = Append(o, k)
  PROVE  \A i \in DOMAIN new : new[i] \in 1..j
<1>1. /\ Len(o) \in Nat /\ DOMAIN o = 1..Len(o)
      /\ DOMAIN Append(o, k) = 1 .. Len(o) + 1
      /\ \A i \in 1..Len(o) : Append(o, k)[i] = o[i]
      /\ Append(o, k)[Len(o) + 1] = k
  BY Grown
<1>2. CASE new = o
  BY <1>2
<1>3. CASE new = Append(o, k)
  <2>1. \A i \in 1 .. Len(o) + 1 : i \in 1..Len(o) \/ i = Len(o) + 1
    BY <1>1
  <2>2. DOMAIN new = 1 .. Len(o) + 1 /\ \A i \in 1..Len(o) : new[i] = o[i]
        /\ new[Len(o) + 1] = k
    BY <1>1, <1>3
  <2> SUFFICES ASSUME NEW i \in 1 .. Len(o) + 1 PROVE new[i] \in 1..j
    BY <2>2
  <2>3. CASE i \in 1..Len(o)
    <3>1. new[i] = o[i] /\ o[i] \in 1..m
      BY <1>1, <2>2, <2>3
    <3>2. QED
      BY <3>1
  <2>4. CASE i = Len(o) + 1
    BY <2>2, <2>4
  <2>5. QED
    BY <2>1, <2>3, <2>4
<1>4. QED
  BY <1>2, <1>3

\* The number of an import that begins is new.
LEMMA NextNumber ==
  ASSUME OtherTypes, FramesFit, imports < MaxImports, imports' = imports + 1
  PROVE  /\ imports \in Nat /\ imports' \in 1..MaxImports
         /\ imports' \in 0..MaxImports /\ imports <= imports'
         /\ imports' \in 1..imports'
         /\ \A i \in DOMAIN owner : owner[i] # imports' /\ owner[i] \in 1..imports
<1>1. imports \in Nat /\ MaxImports \in Nat
  BY BoundsAre DEF OtherTypes
<1>2. \A i \in DOMAIN owner : owner[i] \in 1..imports
  BY DEF FramesFit
<1>3. \A x \in 1..imports : x # imports + 1
  BY <1>1
<1>4. QED
  BY <1>1, <1>2, <1>3

\* ChangeLevel.
LEMMA LevelKeeps == ASSUME JoinInv, ChangeLevel PROVE JoinInv'
<1>1. EventTypes /\ OtherTypes /\ Ids /\ FramesFit /\ (~skewed => Good)
  BY JoinParts
<1>2. /\ changes < MaxChanges /\ changes' = changes + 1
      /\ said' = Nothing
      /\ UNCHANGED <<auditFirst, frames, searches, calls, contexts, pending,
                     stale, owner, imports>>
  BY DEF ChangeLevel, shadows, drawn, Silent
<1>3. /\ level = "off" => level' = "audit"
      /\ level = "audit" => level' = "results"
      /\ level = "results" => level' \in {"full", "off"}
      /\ level \in {"full", "lost"} => level' = "off"
      /\ level \in {"off", "audit", "results", "full", "lost"}
  BY <1>1 DEF ChangeLevel, OtherTypes
<1>4. /\ ~skewed' =>
           /\ ~skewed /\ (level = "full" => ~Open)
           /\ (Asking /\ level' # "off" =>
                level # IF auditFirst THEN "audit" ELSE "results")
      /\ skewed' \in BOOLEAN
  BY <1>1 DEF ChangeLevel, EventTypes
<1>5. EventTypes' /\ Ids'
  BY <1>1, <1>2, <1>4 DEF EventTypes, Ids
<1>6. OtherTypes' /\ FramesFit'
  <2>1. changes' \in 0..MaxChanges
    BY <1>1, <1>2, BoundsAre DEF OtherTypes
  <2>2. QED
    BY <1>1, <1>2, <1>3, <2>1 DEF OtherTypes, FramesFit, ImportFrame
<1>7. ASSUME ~skewed' PROVE Good'
  <2>1. /\ Good /\ (level = "full" => ~Open)
        /\ (Asking /\ level' # "off" =>
             level # IF auditFirst THEN "audit" ELSE "results")
    BY <1>1, <1>4, <1>7
  <2>2. Agree(searches, calls, contexts, frames, owner, Entered)
        /\ OneEach(owner) /\ PendingGood /\ AskingGood /\ EmptyGood
    BY <2>1 DEF Good
  <2>3. Agree(searches, calls, contexts, frames, owner, Entered)' /\ OneEach(owner)'
    BY <1>2, <2>2 DEF Entered
  <2>4. PendingGood'
    BY <1>2, <2>2 DEF PendingGood, Asking, Ordinary
  <2>5. AskingGood'
    <3>1. searches = <<>> \/ level # "full"
      BY <2>1 DEF Open
    <3>2. CASE auditFirst
      BY <1>2, <1>3, <2>1, <2>2, <3>2 DEF AskingGood, Asking, Ordinary, Listening
    <3>3. CASE ~auditFirst
      BY <1>2, <1>3, <2>1, <2>2, <3>1, <3>3 DEF AskingGood, Asking, Ordinary
    <3>4. QED
      BY <3>2, <3>3
  <2>6. EmptyGood'
    BY <1>2, <2>1, <2>2 DEF EmptyGood, Open
  <2>7. SaidGood'
    BY <1>2 DEF SaidGood
  <2>8. QED
    BY <2>3, <2>4, <2>5, <2>6, <2>7 DEF Good
<1>8. QED
  BY <1>5, <1>6, <1>7, JoinPartsNext

\* An interrupt of the profiler's callback.
LEMMA CallbackKeeps == ASSUME JoinInv, CallbackRaises PROVE JoinInv'
<1>1. EventTypes /\ OtherTypes /\ Ids /\ FramesFit /\ (~skewed => Good)
  BY JoinParts
<1>2. /\ level = "full" /\ level' = "lost" /\ said' = Nothing
      /\ skewed' = (skewed \/ Open)
      /\ UNCHANGED <<auditFirst, searches, calls, contexts, owner, imports,
                     changes>>
  BY DEF CallbackRaises, shadows, Silent
<1>3. \/ pending' = pending /\ stale' = stale
      \/ pending' = Nothing /\ stale' = FALSE
  BY DEF CallbackRaises
<1>4. frames' = frames \/ (frames' = Front(frames) /\ Asking)
  BY DEF CallbackRaises
<1>5. EventTypes' /\ Ids'
  BY <1>1, <1>2, <1>3 DEF EventTypes, Ids
<1>6. /\ OtherTypes' /\ FramesFit'
      /\ frames' # frames => ~Asking'
  <2>1. CASE frames' = frames
    BY <1>1, <1>2, <2>1 DEF OtherTypes, FramesFit, ImportFrame
  <2>2. CASE frames' # frames
    <3>1. frames # <<>> /\ frames' = Front(frames)
      BY <1>4, <2>2 DEF Asking
    <3>2. QED
      <4>1. calls' \in Seq(Searches) /\ contexts' \in Seq(Names)
        BY <1>1, <1>2 DEF OtherTypes
      <4>2. QED
        BY <1>1, <1>2, <3>1, <4>1, PopFrame
  <2>3. QED
    BY <2>1, <2>2
<1>7. ASSUME ~skewed' PROVE Good'
  <2>1. Good /\ ~Open
    BY <1>1, <1>2, <1>7 DEF EventTypes
  <2>2. OneEach(owner) /\ PendingGood /\ AskingGood /\ EmptyGood
    BY <2>1 DEF Good
  <2>3. searches' = <<>> /\ calls' = <<>> /\ contexts' = <<>>
    BY <1>2, <2>1 DEF Open
  <2>4. Agree(searches', calls', contexts', frames', owner', Entered') /\ OneEach(owner')
    BY <1>2, <2>2, <2>3, EmptyAbout DEF Agree
  <2>5. EmptyGood' /\ SaidGood'
    BY <1>2, <2>3 DEF EmptyGood, SaidGood
  <2>6. CASE frames' = frames /\ pending' = pending /\ stale' = stale
    <3>1. PendingGood'
      BY <1>2, <2>2, <2>6 DEF PendingGood, Asking, Ordinary
    <3>2. ~auditFirst => ~(Asking /\ Ordinary(Last(frames).name))
      BY <1>2, <2>2, <2>3 DEF AskingGood
    <3>3. AskingGood'
      BY <1>2, <2>2, <2>6, <3>2 DEF AskingGood, Asking, Ordinary, Listening
    <3>4. QED
      BY <2>4, <2>5, <3>1, <3>3 DEF Good
  <2>7. CASE ~(frames' = frames /\ pending' = pending /\ stale' = stale)
    <3>1. /\ pending' = Nothing
          /\ frames' = IF Asking THEN Front(frames) ELSE frames
      BY <2>7 DEF CallbackRaises
    <3>2. Asking => Front(frames) # frames
      <4>1. frames # <<>> => Len(Front(frames)) = Len(frames) - 1
        BY <1>1, Shrunk DEF OtherTypes
      <4>2. QED
        BY <1>1, <4>1 DEF Asking, OtherTypes
    <3>3. ~Asking'
      BY <1>6, <3>1, <3>2 DEF Asking
    <3>4. QED
      BY <2>4, <2>5, <3>1, <3>3 DEF Good, PendingGood, AskingGood
  <2>8. QED
    BY <2>6, <2>7
<1>8. QED
  BY <1>5, <1>6, <1>7, JoinPartsNext

\* Another audit hook refuses the import.
LEMMA RefusedKeeps == ASSUME JoinInv, ImportRefused PROVE JoinInv'
<1>1. EventTypes /\ OtherTypes /\ Ids /\ FramesFit /\ (~skewed => Good)
  BY JoinParts
<1>2. /\ auditFirst /\ Asking /\ frames # <<>> /\ frames' = Front(frames)
      /\ stale' = (pending # Nothing) /\ said' = Nothing
      /\ UNCHANGED <<auditFirst, level, searches, calls, contexts, pending,
                     owner, imports, changes, skewed>>
  BY DEF ImportRefused, shadows, Silent, Asking
<1>3. EventTypes' /\ Ids'
  BY <1>1, <1>2 DEF EventTypes, Ids
<1>4. OtherTypes' /\ FramesFit' /\ ~Asking'
  <2>1. calls' \in Seq(Searches) /\ contexts' \in Seq(Names)
    BY <1>1, <1>2 DEF OtherTypes
  <2>2. QED
    BY <1>1, <1>2, <2>1, PopStep
<1>5. ASSUME ~skewed' PROVE Good'
  <2>1. /\ OneEach(owner) /\ EmptyGood
        /\ Agree(searches, calls, contexts, frames, owner, Entered)
    BY <1>1, <1>2, <1>5 DEF Good
  <2>2. PICK less : less = Front(frames)
    OBVIOUS
  <2>3. /\ Shadows(AboutOf(searches, owner), ReallyOf(frames), PlacesOf(frames, Entered))
        /\ Shadows(AboutOf(calls, owner), ReallyOf(frames), PlacesOf(frames, {"path_finder"}))
        /\ Shadows(contexts, CalledOf(frames), PlacesOf(frames, {"entry"}))
    BY <2>1 DEF Agree
  <2>4. /\ Last(frames).what \notin Entered /\ Last(frames).what \notin {"path_finder"}
        /\ Last(frames).what \notin {"entry"} /\ frames \in Seq(Frames)
        /\ Entered' = Entered
    BY <1>1, <1>2 DEF Entered, Asking, OtherTypes
  <2>5. /\ Shadows(AboutOf(searches, owner), ReallyOf(less), PlacesOf(less, Entered))
        /\ Shadows(AboutOf(calls, owner), ReallyOf(less), PlacesOf(less, {"path_finder"}))
        /\ Shadows(contexts, CalledOf(less), PlacesOf(less, {"entry"}))
    BY <1>2, <2>2, <2>3, <2>4, OtherPopped
  <2>6. Agree(searches', calls', contexts', frames', owner', Entered')
    BY <1>2, <2>2, <2>4, <2>5 DEF Agree
  <2>7. OneEach(owner') /\ EmptyGood' /\ SaidGood' /\ PendingGood' /\ AskingGood'
    BY <1>2, <1>4, <2>1 DEF EmptyGood, SaidGood, PendingGood, AskingGood
  <2>8. QED
    BY <2>6, <2>7 DEF Good
<1>6. QED
  BY <1>3, <1>4, <1>5, JoinPartsNext

\* The call event of an import that is new: the import statement's first
\* event, or import_module().
LEMMA EnterPush ==
  ASSUME JoinInv, Room, imports < MaxImports, imports' = imports + 1,
         NEW w \in {"asking", "load"}, w = "asking" => ~auditFirst,
         NEW n \in Names, Enter(n, imports'), Push(w, n, imports'),
         UNCHANGED <<auditFirst, level, calls, contexts, changes>>
  PROVE  JoinInv'
<1>1. EventTypes /\ OtherTypes /\ Ids /\ FramesFit /\ (~skewed => Good)
  BY JoinParts
<1>2. PICK k : k = imports'
  OBVIOUS
<1>3. /\ imports \in Nat /\ k \in 1..MaxImports /\ k \in Nat /\ imports <= k
      /\ imports' \in 0..MaxImports /\ k \in 1..imports'
      /\ \A i \in DOMAIN owner : owner[i] # k /\ owner[i] \in 1..imports
  BY <1>1, <1>2, NextNumber
<1>4. /\ EventTypes' /\ Ids'
      /\ owner' = owner \/ owner' = Append(owner, k)
  BY <1>1, <1>2, <1>3, EnterDoes
<1>5. \A i \in DOMAIN owner' : owner'[i] \in 1..imports'
  <2>1. owner \in Seq(1..MaxImports)
    BY <1>1 DEF EventTypes
  <2>2. \A i \in DOMAIN owner' : owner'[i] \in 1..k
    BY <1>3, <1>4, <2>1, OwnerBounded
  <2>3. QED
    BY <1>2, <2>2
<1>6. /\ Len(frames) < MaxDepth /\ ~Asking
      /\ frames # <<>> => Last(frames).what # "asking"
  BY DEF Room, Asking
<1>7. OtherTypes' /\ FramesFit'
  <2>1. calls' \in Seq(Searches) /\ contexts' \in Seq(Names)
    BY <1>1 DEF OtherTypes
  <2>2. w \in Whats /\ Push(w, n, k) /\ k \in Nat
    BY <1>2, <1>3 DEF Whats
  <2>3. QED
    BY <1>1, <1>2, <1>3, <1>5, <1>6, <2>1, <2>2, PushStep
<1>8. ASSUME ~skewed' PROVE Good'
  <2>1. /\ ~skewed /\ (Enters => Ordinary(n) \/ searches = <<>>)
        /\ Enters /\ Ordinary(n) => ~(pending # Nothing /\ pending.name = n /\ stale)
    BY <1>1, <1>8 DEF Enter, EventTypes
  <2>2. PendingGood /\ AskingGood /\ EmptyGood /\ OneEach(owner)
        /\ Agree(searches, calls, contexts, frames, owner, Entered)
    BY <1>1, <2>1 DEF Good
  <2>3. pending # Nothing => stale
    BY <1>6, <2>2 DEF PendingGood
  <2>4. PICK f : f = [what |-> w, name |-> n, number |-> k]
    OBVIOUS
  <2>5. /\ frames' = Append(frames, f) /\ f \in Frames /\ frames \in Seq(Frames)
        /\ f.what = w /\ f.name = n /\ f.number = k
    BY <1>1, <1>2, <1>3, <2>4, AFrame DEF Push, OtherTypes, Whats
  <2>6. Last(frames') = f /\ (Asking' <=> w = "asking")
    BY <2>5, LastPushed DEF Asking
  <2>7. /\ AboutOf(searches, owner') = AboutOf(searches, owner)
        /\ AboutOf(calls, owner') = AboutOf(calls, owner)
        /\ \A i \in 1..Len(owner) : owner'[i] = owner[i]
    BY <1>1, <1>3, <1>4, KeepAbout
  <2>8. w \in Entered /\ Entered' = Entered
    BY DEF Entered
  <2>9. /\ Shadows(AboutOf(calls', owner'), ReallyOf(frames'), PlacesOf(frames', {"path_finder"}))
        /\ Shadows(contexts', CalledOf(frames'), PlacesOf(frames', {"entry"}))
    <3>1. w \notin {"path_finder"} /\ w \notin {"entry"}
      OBVIOUS
    <3>2. /\ Shadows(AboutOf(calls, owner), ReallyOf(frames), PlacesOf(frames, {"path_finder"}))
          /\ Shadows(contexts, CalledOf(frames), PlacesOf(frames, {"entry"}))
      BY <2>2 DEF Agree
    <3>3. QED
      BY <2>5, <2>7, <3>1, <3>2, OtherPushed
  <2>10. CASE ~Enters \/ ~Ordinary(n)
    <3>1. /\ said' = Nothing /\ searches' = searches /\ pending' = pending /\ owner' = owner
          /\ stale' = (pending # Nothing)
      BY <2>10 DEF Enter, Silent
    <3>2. searches = <<>>
      BY <2>1, <2>2, <2>10 DEF EmptyGood, Enters
    <3>3. Agree(searches', calls', contexts', frames', owner', Entered')
      BY <2>9, <3>1, <3>2, EmptyAbout DEF Agree
    <3>4. PendingGood' /\ SaidGood' /\ EmptyGood' /\ OneEach(owner')
      BY <2>2, <3>1 DEF PendingGood, SaidGood, EmptyGood
    <3>5. AskingGood'
      <4>1. Asking' /\ Ordinary(Last(frames').name) => ~Enters
        BY <2>5, <2>6, <2>10
      <4>2. \A i \in DOMAIN owner' : owner'[i] # Last(frames').number
        BY <1>3, <2>5, <2>6, <3>1
      <4>3. QED
        BY <2>6, <4>1, <4>2 DEF AskingGood, Enters, Ordinary
    <3>6. QED
      BY <3>3, <3>4, <3>5 DEF Good
  <2>11. CASE ~(~Enters \/ ~Ordinary(n))
    <3>1. PICK id : id = NewSearchId
      OBVIOUS
    <3>2. PICK s : s = [id |-> id, name |-> n]
      OBVIOUS
    <3>3. /\ pending' = Nothing /\ owner' = Append(owner, k)
          /\ searches' = Append(searches, s)
          /\ Say("started", id, n, k, n)
      BY <1>2, <2>1, <2>3, <2>11, <3>1, <3>2 DEF Enter, Taken
    <3>4. owner \in Seq(1..MaxImports) /\ searches \in Seq(Searches)
      BY <1>1 DEF EventTypes
    <3>5. id = Len(owner) + 1 /\ id \in Nat /\ owner'[id] = k
      BY <1>3, <3>1, <3>3, <3>4, Grown DEF NewSearchId
    <3>6. s \in Searches /\ s.id = id /\ s.name = n
      BY <3>2, <3>5, ASearch
    <3>7. Shadows(AboutOf(searches', owner'), ReallyOf(frames'), PlacesOf(frames', Entered))
      <4>1. PICK o, entered : o = owner' /\ entered = Entered
        OBVIOUS
      <4>2. Shadows(AboutOf(searches, o), ReallyOf(frames), PlacesOf(frames, entered))
        BY <2>2, <2>7, <4>1 DEF Agree
      <4>3. f.what \in entered /\ o[s.id] = f.number /\ s.name = f.name
        BY <2>5, <2>8, <3>5, <3>6, <4>1
      <4>4. Shadows(AboutOf(Append(searches, s), o), ReallyOf(Append(frames, f)),
                    PlacesOf(Append(frames, f), entered))
        BY <2>5, <3>4, <3>6, <4>2, <4>3, SearchEntered
      <4>5. QED
        BY <2>5, <3>3, <4>1, <4>4
    <3>8. Agree(searches', calls', contexts', frames', owner', Entered')
      BY <2>8, <2>9, <3>7 DEF Agree
    <3>9. OneEach(owner')
      BY <1>3, <2>2, <3>3, <3>4, OneMore
    <3>10. level' = "full" /\ searches' # <<>>
      BY <2>11, <3>3, <3>4, <3>6, Grown DEF Enters
    <3>11. PendingGood' /\ EmptyGood'
      BY <3>3, <3>10 DEF PendingGood, EmptyGood
    <3>12. AskingGood'
      BY <2>6, <3>10 DEF AskingGood
    <3>13. SaidGood'
      BY <3>3, <3>5 DEF SaidGood, Say
    <3>14. QED
      BY <3>8, <3>9, <3>11, <3>12, <3>13 DEF Good
  <2>12. QED
    BY <2>10, <2>11
<1>9. QED
  BY <1>4, <1>7, <1>8, JoinPartsNext

\* The audit event of an import statement, where it comes first.
LEMMA AuditPush ==
  ASSUME JoinInv, Room, imports < MaxImports, imports' = imports + 1, auditFirst,
         NEW n \in Names, Audit(n, imports', "after"), Push("asking", n, imports'),
         UNCHANGED <<auditFirst, level, searches, calls, contexts, changes>>
  PROVE  JoinInv'
<1>1. EventTypes /\ OtherTypes /\ Ids /\ FramesFit /\ (~skewed => Good)
  BY JoinParts
<1>2. PICK k : k = imports'
  OBVIOUS
<1>3. /\ imports \in Nat /\ k \in 1..MaxImports /\ k \in Nat /\ imports <= k
      /\ imports' \in 0..MaxImports /\ k \in 1..imports'
      /\ \A i \in DOMAIN owner : owner[i] # k /\ owner[i] \in 1..imports
  BY <1>1, <1>2, NextNumber
<1>4. /\ EventTypes' /\ Ids'
      /\ owner' = owner \/ owner' = Append(owner, k)
  <2>1. PICK entering \in {"before", "after", "never"} : entering = "after"
    OBVIOUS
  <2>2. QED
    BY <1>1, <1>2, <1>3, <2>1, AuditDoes
<1>5. \A i \in DOMAIN owner' : owner'[i] \in 1..imports'
  <2>1. owner \in Seq(1..MaxImports)
    BY <1>1 DEF EventTypes
  <2>2. \A i \in DOMAIN owner' : owner'[i] \in 1..k
    BY <1>3, <1>4, <2>1, OwnerBounded
  <2>3. QED
    BY <1>2, <2>2
<1>6. /\ Len(frames) < MaxDepth /\ ~Asking
      /\ frames # <<>> => Last(frames).what # "asking"
  BY DEF Room, Asking
<1>7. OtherTypes' /\ FramesFit'
  <2>1. calls' \in Seq(Searches) /\ contexts' \in Seq(Names)
    BY <1>1 DEF OtherTypes
  <2>2. "asking" \in Whats /\ Push("asking", n, k) /\ k \in Nat
    BY <1>2, <1>3 DEF Whats
  <2>3. QED
    BY <1>1, <1>2, <1>3, <1>5, <1>6, <2>1, <2>2, PushStep
<1>8. ASSUME ~skewed' PROVE Good'
  <2>1. ~skewed
    BY <1>1, <1>8 DEF Audit, EventTypes
  <2>2. PendingGood /\ AskingGood /\ EmptyGood /\ OneEach(owner)
        /\ Agree(searches, calls, contexts, frames, owner, Entered)
    BY <1>1, <2>1 DEF Good
  <2>3. pending # Nothing => stale
    BY <1>6, <2>2 DEF PendingGood
  <2>4. PICK f : f = [what |-> "asking", name |-> n, number |-> k]
    OBVIOUS
  <2>5. /\ frames' = Append(frames, f) /\ f \in Frames /\ frames \in Seq(Frames)
        /\ f.what = "asking" /\ f.name = n /\ f.number = k
    BY <1>1, <1>2, <1>3, <2>4, AFrame DEF Push, OtherTypes, Whats
  <2>6. Last(frames') = f /\ Asking'
    BY <2>5, LastPushed DEF Asking
  <2>7. /\ AboutOf(searches, owner') = AboutOf(searches, owner)
        /\ AboutOf(calls, owner') = AboutOf(calls, owner)
    BY <1>1, <1>3, <1>4, KeepAbout
  <2>8. Agree(searches', calls', contexts', frames', owner', Entered')
    <3>1. /\ "asking" \notin {"path_finder"} /\ "asking" \notin {"entry"}
          /\ "asking" \notin {"load"}
      OBVIOUS
    <3>2. Entered = {"load"} /\ Entered' = {"load"}
      BY DEF Entered
    <3>3. /\ Shadows(AboutOf(searches, owner), ReallyOf(frames), PlacesOf(frames, {"load"}))
          /\ Shadows(AboutOf(calls, owner), ReallyOf(frames), PlacesOf(frames, {"path_finder"}))
          /\ Shadows(contexts, CalledOf(frames), PlacesOf(frames, {"entry"}))
      BY <2>2, <3>2 DEF Agree
    <3>4. /\ Shadows(AboutOf(searches, owner), ReallyOf(frames'), PlacesOf(frames', {"load"}))
          /\ Shadows(AboutOf(calls, owner), ReallyOf(frames'), PlacesOf(frames', {"path_finder"}))
          /\ Shadows(contexts, CalledOf(frames'), PlacesOf(frames', {"entry"}))
      BY <2>5, <3>1, <3>3, OtherPushed
    <3>5. QED
      BY <2>7, <3>2, <3>4 DEF Agree
  <2>9. EmptyGood'
    BY <2>2 DEF EmptyGood
  <2>10. CASE level = "off" \/ ~Ordinary(n)
    <3>1. said' = Nothing /\ pending' = pending /\ stale' = stale /\ owner' = owner
      BY <2>10 DEF Audit, Silent, drawn
    <3>2. PendingGood' /\ SaidGood' /\ OneEach(owner')
      BY <2>2, <2>3, <3>1 DEF PendingGood, SaidGood
    <3>3. AskingGood'
      BY <2>5, <2>6, <2>10 DEF AskingGood, Ordinary, Listening
    <3>4. QED
      BY <2>8, <2>9, <3>2, <3>3 DEF Good
  <2>11. CASE ~(level = "off" \/ ~Ordinary(n))
    <3>1. ActiveSearch(n) = 0
      BY <1>8, <2>11 DEF Audit
    <3>2. PICK id : id = NewSearchId
      OBVIOUS
    <3>3. /\ pending' = IF Listening THEN [id |-> id, name |-> n] ELSE pending
          /\ stale' = IF Listening THEN FALSE ELSE stale
          /\ owner' = Append(owner, k) /\ Say("searching", id, n, k, n)
      BY <1>2, <2>11, <3>1, <3>2 DEF Audit
    <3>4. owner \in Seq(1..MaxImports)
      BY <1>1 DEF EventTypes
    <3>5. id = Len(owner) + 1 /\ id \in Nat /\ owner'[id] = k
      BY <1>3, <3>2, <3>3, <3>4, Grown DEF NewSearchId
    <3>6. PICK s : s = [id |-> id, name |-> n]
      OBVIOUS
    <3>7. s \in Searches /\ s.id = id /\ s.name = n /\ s # Nothing
      <4>1. s \in Searches
        BY <3>5, <3>6, ASearch
      <4>2. QED
        BY <3>6, <4>1, ASearchHas
    <3>8. pending' = IF Listening THEN s ELSE pending
      BY <3>3, <3>6
    <3>9. OneEach(owner')
      BY <1>3, <2>2, <3>3, <3>4, OneMore
    <3>10. PendingGood'
      <4>1. level' = level /\ auditFirst' /\ Ordinary(n)
        BY <2>11
      <4>2. QED
        BY <2>3, <2>5, <2>6, <3>3, <3>5, <3>7, <3>8, <4>1 DEF PendingGood, Ordinary
    <3>11. AskingGood'
      BY <3>3, <3>7, <3>8 DEF AskingGood, Listening
    <3>12. SaidGood'
      BY <3>3, <3>5 DEF SaidGood, Say
    <3>13. QED
      BY <2>8, <2>9, <3>9, <3>10, <3>11, <3>12 DEF Good
  <2>12. QED
    BY <2>10, <2>11
<1>9. QED
  BY <1>4, <1>7, <1>8, JoinPartsNext

\* A frame that turns from asking to loading.
LEMMA TurnedIs ==
  ASSUME NEW fr \in Seq(Frames), fr # <<>>, Last(fr).what = "asking",
         NEW t, t = Append(Front(fr), [Last(fr) EXCEPT !.what = "load"])
  PROVE  /\ Front(fr) \in Seq(Frames) /\ Last(fr) \in Frames
         /\ [Last(fr) EXCEPT !.what = "load"] \in Frames
         /\ [Last(fr) EXCEPT !.what = "load"].what = "load"
         /\ [Last(fr) EXCEPT !.what = "load"].number = Last(fr).number
         /\ [Last(fr) EXCEPT !.what = "load"].name = Last(fr).name
         /\ Last(t).what = "load"
         /\ \A sh : Shadows(sh, ReallyOf(fr), PlacesOf(fr, {"path_finder"})) =>
                      Shadows(sh, ReallyOf(t), PlacesOf(t, {"path_finder"}))
         /\ \A sh : Shadows(sh, CalledOf(fr), PlacesOf(fr, {"entry"})) =>
                      Shadows(sh, CalledOf(t), PlacesOf(t, {"entry"}))
         /\ \A sh : Shadows(sh, ReallyOf(fr), PlacesOf(fr, {"load", "asking"})) =>
                      Shadows(sh, ReallyOf(t), PlacesOf(t, {"load", "asking"}))
<1>1. PICK s, g, f : /\ s = Front(fr) /\ g = Last(fr)
                     /\ f = [g EXCEPT !.what = "load"]
  OBVIOUS
<1>2. /\ s \in Seq(Frames) /\ g \in Frames /\ Len(fr) \in Nat \ {0}
      /\ Len(s) = Len(fr) - 1 /\ Len(s) \in Nat /\ Len(s) + 1 = Len(fr)
  BY <1>1, Shrunk
<1>3. /\ f \in Frames /\ f.what = "load" /\ f.number = g.number /\ f.name = g.name
      /\ g.what = "asking"
  BY <1>1, <1>2 DEF Frames, Whats
<1>4. t = Append(s, f) /\ Last(t).what = "load"
  BY <1>1, <1>2, <1>3, LastPushed
<1>5. /\ "asking" \notin {"path_finder"} /\ "asking" \notin {"entry"}
      /\ "load" \notin {"path_finder"} /\ "load" \notin {"entry"}
  OBVIOUS
<1>6. ASSUME NEW sh, Shadows(sh, ReallyOf(fr), PlacesOf(fr, {"path_finder"}))
      PROVE  Shadows(sh, ReallyOf(t), PlacesOf(t, {"path_finder"}))
  <2>1. Shadows(sh, ReallyOf(s), PlacesOf(s, {"path_finder"}))
    BY <1>1, <1>3, <1>5, <1>6, OtherPopped
  <2>2. QED
    BY <1>2, <1>3, <1>4, <1>5, <2>1, OtherPushed
<1>7. ASSUME NEW sh, Shadows(sh, CalledOf(fr), PlacesOf(fr, {"entry"}))
      PROVE  Shadows(sh, CalledOf(t), PlacesOf(t, {"entry"}))
  <2>1. Shadows(sh, CalledOf(s), PlacesOf(s, {"entry"}))
    BY <1>1, <1>3, <1>5, <1>7, OtherPopped
  <2>2. QED
    BY <1>2, <1>3, <1>4, <1>5, <2>1, OtherPushed
<1>8. ASSUME NEW sh, Shadows(sh, ReallyOf(fr), PlacesOf(fr, {"load", "asking"}))
      PROVE  Shadows(sh, ReallyOf(t), PlacesOf(t, {"load", "asking"}))
  <2>1. PICK n, E, P, Q, R : /\ n = Len(fr) /\ E = {"load", "asking"}
                    /\ P = PlacesOf(fr, E) /\ Q = PlacesOf(s, E) /\ R = PlacesOf(t, E)
    OBVIOUS
  <2>2. n \in P /\ Q = P \ {n} /\ P \subseteq 1..n
    BY <1>1, <1>3, <2>1, PlacesPopped
  <2>3. R = Q \union {n}
    BY <1>2, <1>3, <1>4, <2>1, PlacesPushed
  <2>4. R = P
    BY <2>2, <2>3
  <2>5. \A p \in 1..n : ReallyOf(t)[p] = ReallyOf(fr)[p]
    <3>1. PICK ks, km, kt : ks = ReallyOf(fr) /\ km = ReallyOf(s) /\ kt = ReallyOf(t)
      OBVIOUS
    <3>2. /\ \A p \in 1 .. n - 1 : km[p] = ks[p]
          /\ ks[n] = <<g.number, g.name>>
      BY <1>1, <2>1, <3>1, KeysPopped
    <3>3. /\ \A p \in 1 .. n - 1 : kt[p] = km[p]
          /\ kt[n] = <<f.number, f.name>>
      <4>1. /\ \A p \in 1..Len(s) : kt[p] = km[p]
            /\ kt[Len(s) + 1] = <<f.number, f.name>>
        BY <1>2, <1>3, <1>4, <3>1, KeysPushed
      <4>2. QED
        BY <1>2, <2>1, <4>1
    <3>4. n \in Nat \ {0} /\ \A p \in 1..n : p = n \/ p \in 1 .. n - 1
      BY <1>2, <2>1
    <3>5. QED
      BY <1>3, <3>1, <3>2, <3>3, <3>4
  <2>6. \A p \in P : ReallyOf(t)[p] = ReallyOf(fr)[p]
    BY <2>2, <2>5
  <2>7. Shadows(sh, ReallyOf(fr), P)
    BY <1>8, <2>1
  <2>8. Shadows(sh, ReallyOf(t), P)
    BY <2>6, <2>7, ShadowKept
  <2>9. QED
    BY <2>1, <2>4, <2>8
<1>9. QED
  BY <1>1, <1>2, <1>3, <1>4, <1>6, <1>7, <1>8

\* What both second events have in common.
LEMMA TurnFacts ==
  ASSUME EventTypes, OtherTypes, FramesFit, Asking
  PROVE  /\ frames \in Seq(Frames) /\ frames # <<>> /\ Last(frames).what = "asking"
         /\ Last(frames).name \in Names /\ Last(frames).number \in 1..imports
         /\ Last(frames).number \in 1..MaxImports /\ imports \in Nat
         /\ Last(frames).number <= imports
         /\ owner \in Seq(1..MaxImports)
         /\ \A i \in DOMAIN owner : owner[i] \in 1..imports
<1>1. /\ frames \in Seq(Frames) /\ frames # <<>> /\ imports \in 0..MaxImports
      /\ owner \in Seq(1..MaxImports) /\ Last(frames).what = "asking"
  BY DEF EventTypes, OtherTypes, Asking
<1>2. /\ Last(frames) = frames[Len(frames)] /\ Last(frames) \in Frames
      /\ Len(frames) \in DOMAIN frames
  BY <1>1, Shrunk
<1>3. Last(frames).name \in Names /\ Last(frames).number \in Nat
  BY <1>2, AFrameHas
<1>4. Last(frames).number \in 1..imports
  BY <1>1, <1>2 DEF FramesFit, ImportFrame
<1>5. \A i \in DOMAIN owner : owner[i] \in 1..imports
  BY DEF FramesFit
<1>6. MaxImports \in Nat
  BY BoundsAre
<1>7. QED
  BY <1>1, <1>3, <1>4, <1>5, <1>6

\* The call event of _find_and_load after the audit event.
LEMMA TurnEnter ==
  ASSUME JoinInv, Asking, auditFirst,
         Enter(Last(frames).name, Last(frames).number),
         frames' = Append(Front(frames), [Last(frames) EXCEPT !.what = "load"]),
         UNCHANGED <<auditFirst, level, calls, contexts, imports, changes>>
  PROVE  JoinInv'
<1>1. EventTypes /\ OtherTypes /\ Ids /\ FramesFit /\ (~skewed => Good)
  BY JoinParts
<1>2. PICK g, s, f : /\ g = Last(frames) /\ s = Front(frames)
                     /\ f = [g EXCEPT !.what = "load"]
  OBVIOUS
<1>3. /\ frames \in Seq(Frames) /\ frames # <<>> /\ g.what = "asking"
      /\ g.name \in Names /\ g.number \in 1..imports
      /\ g.number \in 1..MaxImports /\ imports \in Nat /\ g.number <= imports
      /\ owner \in Seq(1..MaxImports)
      /\ \A i \in DOMAIN owner : owner[i] \in 1..imports
  BY <1>1, <1>2, TurnFacts
<1>4. /\ EventTypes' /\ Ids'
      /\ owner' = owner \/ owner' = Append(owner, g.number)
  BY <1>1, <1>2, <1>3, EnterDoes
<1>5. \A i \in DOMAIN owner' : owner'[i] \in 1..imports
  <2>1. PICK k, m, o, new : k = g.number /\ m = imports /\ o = owner /\ new = owner'
    OBVIOUS
  <2>2. /\ k \in 1..MaxImports /\ m \in Nat /\ k <= m /\ m <= m
        /\ o \in Seq(1..MaxImports) /\ \A i \in DOMAIN o : o[i] \in 1..m
        /\ new = o \/ new = Append(o, k)
    BY <1>3, <1>4, <2>1
  <2>3. \A i \in DOMAIN new : new[i] \in 1..m
    BY <2>2, OwnerBounded
  <2>4. QED
    BY <2>1, <2>3
<1>6. OtherTypes' /\ FramesFit' /\ ~Asking'
  BY <1>1, <1>5, TurnStep
<1>7. ASSUME ~skewed' PROVE Good'
  <2>1. /\ ~skewed /\ (Enters => Ordinary(g.name) \/ searches = <<>>)
    BY <1>1, <1>2, <1>7 DEF Enter, EventTypes
  <2>2. PendingGood /\ AskingGood /\ EmptyGood /\ OneEach(owner)
        /\ Agree(searches, calls, contexts, frames, owner, Entered)
    BY <1>1, <2>1 DEF Good
  <2>3. PICK t : frames' = t /\ t = Append(s, f)
    BY <1>2
  <2>4. /\ s \in Seq(Frames) /\ f \in Frames /\ f.what = "load"
        /\ f.number = g.number /\ f.name = g.name
    BY <1>2, <1>3, TurnedIs
  <2>5. /\ \A sh : Shadows(sh, ReallyOf(frames), PlacesOf(frames, {"path_finder"})) =>
                     Shadows(sh, ReallyOf(t), PlacesOf(t, {"path_finder"}))
        /\ \A sh : Shadows(sh, CalledOf(frames), PlacesOf(frames, {"entry"})) =>
                     Shadows(sh, CalledOf(t), PlacesOf(t, {"entry"}))
    BY <1>2, <1>3, <2>3, TurnedIs
  <2>6. /\ AboutOf(searches, owner') = AboutOf(searches, owner)
        /\ AboutOf(calls, owner') = AboutOf(calls, owner)
    BY <1>1, <1>3, <1>4, KeepAbout
  <2>7. Entered = {"load"} /\ Entered' = {"load"}
    BY DEF Entered
  <2>8. /\ Shadows(AboutOf(calls', owner'), ReallyOf(frames'), PlacesOf(frames', {"path_finder"}))
        /\ Shadows(contexts', CalledOf(frames'), PlacesOf(frames', {"entry"}))
    <3>1. /\ Shadows(AboutOf(calls, owner), ReallyOf(frames), PlacesOf(frames, {"path_finder"}))
          /\ Shadows(contexts, CalledOf(frames), PlacesOf(frames, {"entry"}))
      BY <2>2 DEF Agree
    <3>2. QED
      BY <2>3, <2>5, <2>6, <3>1
  <2>9. AskingGood'
    BY <1>6 DEF AskingGood
  <2>10. CASE ~Enters \/ ~Ordinary(g.name)
    <3>1. /\ said' = Nothing /\ searches' = searches /\ pending' = pending /\ owner' = owner
          /\ stale' = (pending # Nothing)
      BY <1>2, <2>10 DEF Enter, Silent
    <3>2. searches = <<>>
      BY <2>1, <2>2, <2>10 DEF EmptyGood, Enters
    <3>3. Agree(searches', calls', contexts', frames', owner', Entered')
      BY <2>8, <3>1, <3>2, EmptyAbout DEF Agree
    <3>4. PendingGood' /\ SaidGood' /\ EmptyGood' /\ OneEach(owner')
      BY <2>2, <3>1 DEF PendingGood, SaidGood, EmptyGood
    <3>5. QED
      BY <2>9, <3>3, <3>4 DEF Good
  <2>11. CASE ~(~Enters \/ ~Ordinary(g.name))
    <3>1. /\ pending # Nothing /\ pending.name = g.name
          /\ owner[pending.id] = g.number /\ level = "full"
      BY <1>2, <2>2, <2>11 DEF AskingGood, PendingGood, Enters, Listening
    <3>2. PICK id, e : id = pending.id /\ e = [id |-> id, name |-> g.name]
      OBVIOUS
    <3>3. /\ pending' = Nothing /\ owner' = owner
          /\ searches' = Append(searches, e)
          /\ Say("started", id, g.name, g.number, g.name)
      BY <1>2, <2>11, <3>1, <3>2 DEF Enter, Taken
    <3>4. searches \in Seq(Searches) /\ id \in Nat
      <4>1. pending \in Searches /\ searches \in Seq(Searches)
        BY <1>1, <3>1 DEF EventTypes
      <4>2. QED
        BY <3>2, <4>1, ASearchHas
    <3>5. e \in Searches /\ e.id = id /\ e.name = g.name
      BY <1>3, <3>2, <3>4, ASearch
    <3>6. Shadows(AboutOf(searches', owner'), ReallyOf(frames'), PlacesOf(frames', {"load"}))
      <4>1. PICK o, entered : o = owner /\ entered = {"load"}
        OBVIOUS
      <4>2. Shadows(AboutOf(searches, o), ReallyOf(frames), PlacesOf(frames, entered))
        BY <2>2, <2>7, <4>1 DEF Agree
      <4>3. Last(frames).what \notin entered
        BY <1>2, <1>3, <4>1
      <4>4. Shadows(AboutOf(searches, o), ReallyOf(s), PlacesOf(s, entered))
        BY <1>2, <1>3, <4>2, <4>3, OtherPopped
      <4>5. f.what \in entered /\ o[e.id] = f.number /\ e.name = f.name
        BY <2>4, <3>1, <3>2, <3>5, <4>1
      <4>6. Shadows(AboutOf(Append(searches, e), o), ReallyOf(Append(s, f)),
                    PlacesOf(Append(s, f), entered))
        BY <2>4, <3>4, <3>5, <4>4, <4>5, SearchEntered
      <4>7. QED
        BY <2>3, <3>3, <4>1, <4>6
    <3>7. Agree(searches', calls', contexts', frames', owner', Entered')
      BY <2>7, <2>8, <3>6 DEF Agree
    <3>8. level' = "full"
      BY <3>1
    <3>9. PendingGood' /\ EmptyGood' /\ OneEach(owner')
      BY <2>2, <3>3, <3>8 DEF PendingGood, EmptyGood
    <3>10. SaidGood'
      BY <3>1, <3>2, <3>3 DEF SaidGood, Say
    <3>11. QED
      BY <2>9, <3>7, <3>9, <3>10 DEF Good
  <2>12. QED
    BY <2>10, <2>11
<1>8. QED
  BY <1>4, <1>6, <1>7, JoinPartsNext

\* The audit event after the call event of _find_and_load.
LEMMA TurnAudit ==
  ASSUME JoinInv, Asking, ~auditFirst,
         Audit(Last(frames).name, Last(frames).number, "before"),
         frames' = Append(Front(frames), [Last(frames) EXCEPT !.what = "load"]),
         UNCHANGED <<auditFirst, level, searches, calls, contexts, imports, changes>>
  PROVE  JoinInv'
<1>1. EventTypes /\ OtherTypes /\ Ids /\ FramesFit /\ (~skewed => Good)
  BY JoinParts
<1>2. PICK g, s, f : /\ g = Last(frames) /\ s = Front(frames)
                     /\ f = [g EXCEPT !.what = "load"]
  OBVIOUS
<1>3. /\ frames \in Seq(Frames) /\ frames # <<>> /\ g.what = "asking"
      /\ g.name \in Names /\ g.number \in 1..imports
      /\ g.number \in 1..MaxImports /\ imports \in Nat /\ g.number <= imports
      /\ owner \in Seq(1..MaxImports)
      /\ \A i \in DOMAIN owner : owner[i] \in 1..imports
  BY <1>1, <1>2, TurnFacts
<1>4. /\ EventTypes' /\ Ids'
      /\ owner' = owner \/ owner' = Append(owner, g.number)
  <2>1. PICK entering \in {"before", "after", "never"} : entering = "before"
    OBVIOUS
  <2>2. QED
    BY <1>1, <1>2, <1>3, <2>1, AuditDoes
<1>5. \A i \in DOMAIN owner' : owner'[i] \in 1..imports
  <2>1. PICK k, m, o, new : k = g.number /\ m = imports /\ o = owner /\ new = owner'
    OBVIOUS
  <2>2. /\ k \in 1..MaxImports /\ m \in Nat /\ k <= m /\ m <= m
        /\ o \in Seq(1..MaxImports) /\ \A i \in DOMAIN o : o[i] \in 1..m
        /\ new = o \/ new = Append(o, k)
    BY <1>3, <1>4, <2>1
  <2>3. \A i \in DOMAIN new : new[i] \in 1..m
    BY <2>2, OwnerBounded
  <2>4. QED
    BY <2>1, <2>3
<1>6. OtherTypes' /\ FramesFit' /\ ~Asking'
  BY <1>1, <1>5, TurnStep
<1>7. ASSUME ~skewed' PROVE Good'
  <2>1. ~skewed
    BY <1>1, <1>7 DEF Audit, EventTypes
  <2>2. PendingGood /\ AskingGood /\ EmptyGood /\ OneEach(owner)
        /\ Agree(searches, calls, contexts, frames, owner, Entered)
    BY <1>1, <2>1 DEF Good
  <2>3. PICK t : frames' = t /\ t = Append(s, f)
    BY <1>2
  <2>4. /\ \A sh : Shadows(sh, ReallyOf(frames), PlacesOf(frames, {"path_finder"})) =>
                     Shadows(sh, ReallyOf(t), PlacesOf(t, {"path_finder"}))
        /\ \A sh : Shadows(sh, CalledOf(frames), PlacesOf(frames, {"entry"})) =>
                     Shadows(sh, CalledOf(t), PlacesOf(t, {"entry"}))
        /\ \A sh : Shadows(sh, ReallyOf(frames), PlacesOf(frames, {"load", "asking"})) =>
                     Shadows(sh, ReallyOf(t), PlacesOf(t, {"load", "asking"}))
    BY <1>2, <1>3, <2>3, TurnedIs
  <2>5. /\ AboutOf(searches, owner') = AboutOf(searches, owner)
        /\ AboutOf(calls, owner') = AboutOf(calls, owner)
        /\ \A i \in 1..Len(owner) : owner'[i] = owner[i]
    BY <1>1, <1>3, <1>4, KeepAbout
  <2>6. Entered = {"load", "asking"} /\ Entered' = {"load", "asking"}
    BY DEF Entered
  <2>7. /\ Shadows(AboutOf(searches, owner), ReallyOf(frames), PlacesOf(frames, {"load", "asking"}))
        /\ Shadows(AboutOf(calls, owner), ReallyOf(frames), PlacesOf(frames, {"path_finder"}))
        /\ Shadows(contexts, CalledOf(frames), PlacesOf(frames, {"entry"}))
    BY <2>2, <2>6 DEF Agree
  <2>8. Agree(searches', calls', contexts', frames', owner', Entered')
    BY <2>3, <2>4, <2>5, <2>6, <2>7 DEF Agree
  <2>9. AskingGood' /\ EmptyGood'
    BY <1>6, <2>2 DEF AskingGood, EmptyGood
  <2>10. pending # Nothing => stale
    BY <2>2 DEF PendingGood
  <2>11. CASE level = "off" \/ ~Ordinary(g.name)
    <3>1. said' = Nothing /\ pending' = pending /\ stale' = stale /\ owner' = owner
      BY <1>2, <2>11 DEF Audit, Silent, drawn
    <3>2. PendingGood' /\ SaidGood' /\ OneEach(owner')
      BY <2>2, <2>10, <3>1 DEF PendingGood, SaidGood
    <3>3. QED
      BY <2>8, <2>9, <3>2 DEF Good
  <2>12. CASE ~(level = "off" \/ ~Ordinary(g.name)) /\ level = "full"
    <3>1. searches # <<>> /\ searches \in Seq(Searches)
      BY <1>1, <1>2, <1>3, <2>2, <2>12 DEF AskingGood, EventTypes
    <3>2. owner[Last(searches).id] = g.number /\ Last(searches).name = g.name
      <4>1. PICK o, entered : o = owner /\ entered = {"load", "asking"}
        OBVIOUS
      <4>2. Shadows(AboutOf(searches, o), ReallyOf(frames), PlacesOf(frames, entered))
        BY <2>7, <4>1
      <4>3. Last(frames).what \in entered
        BY <1>2, <1>3, <4>1
      <4>4. QED
        BY <1>2, <1>3, <3>1, <4>1, <4>2, <4>3, SearchLeft
    <3>3. PICK id : id = Last(searches).id
      OBVIOUS
    <3>4. id \in 1..Len(owner) /\ id # 0
      <4>1. Last(searches) = searches[Len(searches)] /\ Len(searches) \in DOMAIN searches
        <5>1. /\ Last(searches) = searches[Len(searches)]
              /\ Len(searches) \in Nat \ {0} /\ DOMAIN searches = 1..Len(searches)
          BY <3>1, Shrunk
        <5>2. QED
          BY <5>1
      <4>2. id \in 1..Len(owner)
        BY <1>1, <3>3, <4>1 DEF Ids
      <4>3. QED
        BY <4>2
    <3>5. ActiveSearch(g.name) = id
      BY <3>1, <3>2, <3>3 DEF ActiveSearch
    <3>6. /\ owner' = owner /\ pending' = pending /\ stale' = stale
          /\ Say("searching", id, g.name, g.number, g.name)
      BY <1>2, <2>12, <3>4, <3>5 DEF Audit
    <3>7. PendingGood' /\ OneEach(owner')
      BY <2>2, <2>10, <3>6 DEF PendingGood
    <3>8. SaidGood'
      BY <3>2, <3>3, <3>6 DEF SaidGood, Say
    <3>9. QED
      BY <2>8, <2>9, <3>7, <3>8 DEF Good
  <2>13. CASE ~(level = "off" \/ ~Ordinary(g.name)) /\ level # "full"
    <3>1. searches = <<>>
      BY <2>2, <2>13 DEF EmptyGood
    <3>2. PICK id : id = NewSearchId
      OBVIOUS
    <3>3. ActiveSearch(g.name) = 0
      BY <3>1 DEF ActiveSearch
    <3>4. /\ owner' = Append(owner, g.number)
          /\ Say("searching", id, g.name, g.number, g.name)
          /\ (pending' = pending /\ stale' = stale) \/ stale'
      BY <1>2, <2>13, <3>2, <3>3 DEF Audit
    <3>5. id = Len(owner) + 1 /\ id \in Nat /\ owner'[id] = g.number
      BY <1>3, <3>2, <3>4, Grown DEF NewSearchId
    <3>6. \A i \in DOMAIN owner : owner[i] # g.number
      BY <1>2, <1>3, <2>2, <2>13 DEF AskingGood
    <3>7. OneEach(owner')
      BY <1>3, <2>2, <3>4, <3>6, OneMore
    <3>8. PendingGood'
      BY <2>10, <3>4 DEF PendingGood
    <3>9. SaidGood'
      BY <3>4, <3>5 DEF SaidGood, Say
    <3>10. QED
      BY <2>8, <2>9, <3>7, <3>8, <3>9 DEF Good
  <2>14. QED
    BY <2>11, <2>12, <2>13
<1>8. QED
  BY <1>4, <1>6, <1>7, JoinPartsNext

\* An import inside the profiler's callback.
LEMMA CallbackAudit ==
  ASSUME JoinInv, NEW n \in Names, ImportInCallback(n) PROVE JoinInv'
<1>1. EventTypes /\ OtherTypes /\ Ids /\ FramesFit /\ (~skewed => Good)
  BY JoinParts
<1>2. /\ level = "full" /\ ~Asking /\ imports < MaxImports
      /\ imports' = imports + 1 /\ Audit(n, imports', "never")
      /\ UNCHANGED <<auditFirst, level, frames, searches, calls, contexts,
                     changes>>
  BY DEF ImportInCallback, shadows
<1>3. PICK k : k = imports'
  OBVIOUS
<1>4. /\ imports \in Nat /\ k \in 1..MaxImports /\ k \in Nat /\ imports <= k
      /\ imports' \in 0..MaxImports /\ k \in 1..imports'
      /\ \A i \in DOMAIN owner : owner[i] # k /\ owner[i] \in 1..imports
  BY <1>1, <1>2, <1>3, NextNumber
<1>5. /\ EventTypes' /\ Ids'
      /\ owner' = owner \/ owner' = Append(owner, k)
  <2>1. PICK entering \in {"before", "after", "never"} : entering = "never"
    OBVIOUS
  <2>2. QED
    BY <1>1, <1>2, <1>3, <1>4, <2>1, AuditDoes
<1>6. owner \in Seq(1..MaxImports)
  BY <1>1 DEF EventTypes
<1>7. OtherTypes' /\ FramesFit'
  <2>1. \A i \in DOMAIN owner' : owner'[i] \in 1..k
    BY <1>4, <1>5, <1>6, OwnerBounded
  <2>2. \A i \in 1..imports : i \in 1..imports'
    BY <1>2, <1>4
  <2>3. FramesFit'
    BY <1>1, <1>2, <1>3, <2>1, <2>2 DEF FramesFit, ImportFrame
  <2>4. OtherTypes'
    BY <1>1, <1>2, <1>4 DEF OtherTypes
  <2>5. QED
    BY <2>3, <2>4
<1>8. ASSUME ~skewed' PROVE Good'
  <2>1. ~skewed
    BY <1>1, <1>2, <1>8 DEF Audit, EventTypes
  <2>2. PendingGood /\ EmptyGood /\ OneEach(owner)
        /\ Agree(searches, calls, contexts, frames, owner, Entered)
    BY <1>1, <2>1 DEF Good
  <2>3. pending # Nothing => stale
    BY <1>2, <2>2 DEF PendingGood
  <2>4. /\ AboutOf(searches, owner') = AboutOf(searches, owner)
        /\ AboutOf(calls, owner') = AboutOf(calls, owner)
    BY <1>1, <1>4, <1>5, KeepAbout
  <2>5. Entered' = Entered
    BY <1>2 DEF Entered
  <2>6. Agree(searches', calls', contexts', frames', owner', Entered')
    BY <1>2, <2>2, <2>4, <2>5 DEF Agree
  <2>7. AskingGood' /\ EmptyGood'
    BY <1>2, <2>2 DEF AskingGood, EmptyGood, Asking
  <2>8. CASE ~Ordinary(n)
    <3>1. said' = Nothing /\ pending' = pending /\ stale' = stale /\ owner' = owner
      BY <1>2, <2>8 DEF Audit, Silent, drawn
    <3>2. PendingGood' /\ SaidGood' /\ OneEach(owner')
      BY <2>2, <2>3, <3>1 DEF PendingGood, SaidGood
    <3>3. QED
      BY <2>6, <2>7, <3>2 DEF Good
  <2>9. CASE Ordinary(n)
    <3>1. ActiveSearch(n) = 0
      BY <1>2, <1>8, <2>9 DEF Audit
    <3>2. PICK id : id = NewSearchId
      OBVIOUS
    <3>3. /\ stale' /\ owner' = Append(owner, k) /\ Say("searching", id, n, k, n)
      BY <1>2, <1>3, <2>9, <3>1, <3>2 DEF Audit, Listening
    <3>4. id = Len(owner) + 1 /\ id \in Nat /\ owner'[id] = k
      BY <1>4, <1>6, <3>2, <3>3, Grown DEF NewSearchId
    <3>5. PendingGood' /\ SaidGood'
      BY <3>3, <3>4 DEF PendingGood, SaidGood, Say
    <3>6. OneEach(owner')
      BY <1>4, <1>6, <2>2, <3>3, OneMore
    <3>7. QED
      BY <2>6, <2>7, <3>5, <3>6 DEF Good
  <2>10. QED
    BY <2>8, <2>9
<1>9. QED
  BY <1>5, <1>7, <1>8, JoinPartsNext

\* The open search is that of the import the thread is in.
LEMMA OpenSearch ==
  ASSUME EventTypes, OtherTypes, FramesFit, ~Asking, searches # <<>>,
         Shadows(AboutOf(searches, owner), ReallyOf(frames), PlacesOf(frames, Entered))
  PROVE  owner[Last(searches).id] = Current
<1>1. searches \in Seq(Searches) /\ frames \in Seq(Frames)
  BY DEF EventTypes, OtherTypes
<1>2. PICK n, m, P : n = Len(searches) /\ m = Len(frames) /\ P = PlacesOf(frames, Entered)
  OBVIOUS
<1>3. /\ n \in Nat \ {0} /\ DOMAIN AboutOf(searches, owner) = 1..n
      /\ AboutOf(searches, owner)[n] = <<owner[Last(searches).id], Last(searches).name>>
  BY <1>1, <1>2, AboutIs, AboutShrinks
<1>4. m \in Nat /\ DOMAIN frames = 1..m /\ P \in SUBSET Nat /\ P \subseteq 1..m
  BY <1>1, <1>2 DEF PlacesOf
<1>5. Shadows(AboutOf(searches, owner), ReallyOf(frames), P)
  BY <1>2
<1>6. PICK q \in P : /\ AboutOf(searches, owner)[n] = ReallyOf(frames)[q]
                     /\ \A p \in P : p <= q
  BY <1>3, <1>4, <1>5, ShadowTop
<1>7. q \in 1..m /\ m \in 1..m /\ q <= m /\ frames # <<>> /\ q \in Nat
  <2>1. q \in 1..m
    BY <1>4
  <2>2. m \in 1..m /\ q <= m /\ m # 0
    BY <1>4, <2>1
  <2>3. QED
    BY <1>2, <2>1, <2>2
<1>8. owner[Last(searches).id] = frames[q].number
  <2>1. ReallyOf(frames)[q] = <<frames[q].number, frames[q].name>>
    BY <1>4, <1>7 DEF ReallyOf
  <2>2. QED
    BY <1>3, <1>6, <2>1
<1>9. Last(frames) = frames[m]
  BY <1>2 DEF Last
<1>10. \A j \in 1..m : frames[j].what # "asking"
  BY <1>2, <1>4, <1>7, <1>9 DEF FramesFit, Asking
<1>11. frames[q].what = "load"
  BY <1>2, <1>7, <1>10 DEF PlacesOf, Entered
<1>12. \A j \in q + 1 .. m : j \in 1..m /\ ~(j <= q) /\ frames[j].what # "load"
  <2> SUFFICES ASSUME NEW j \in q + 1 .. m
               PROVE  j \in 1..m /\ ~(j <= q) /\ frames[j].what # "load"
    OBVIOUS
  <2>1. j \in 1..m /\ ~(j <= q)
    BY <1>4, <1>7
  <2>2. j \notin P
    BY <1>6, <2>1
  <2>3. "load" \in Entered
    BY DEF Entered
  <2>4. QED
    BY <1>2, <1>4, <2>1, <2>2, <2>3 DEF PlacesOf
<1>13. frames[m].number = frames[q].number
  <2>1. RunsIn(frames)
    BY FitsParts
  <2>2. \A j \in q + 1 .. m : frames[j].what \notin {"asking", "load"}
    BY <1>10, <1>12
  <2>3. QED
    BY <1>4, <1>7, <1>11, <2>1, <2>2 DEF RunsIn
<1>14. QED
  BY <1>7, <1>8, <1>9, <1>13 DEF Current

\* A path context that is entered with its frame.
LEMMA ContextEntered ==
  ASSUME NEW fr \in Seq(Frames), NEW f \in Frames, NEW co \in Seq(Names),
         f.what = "entry",
         Shadows(co, CalledOf(fr), PlacesOf(fr, {"entry"}))
  PROVE  Shadows(Append(co, f.name), CalledOf(Append(fr, f)),
                 PlacesOf(Append(fr, f), {"entry"}))
<1>0. PICK n, new, ks, kt, W :
        /\ n = Len(co) /\ new = Append(co, f.name) /\ W = {"entry"}
        /\ ks = CalledOf(fr) /\ kt = CalledOf(Append(fr, f))
  OBVIOUS
<1>1. f.name \in Names
  BY AFrameHas
<1>2. /\ n \in Nat /\ DOMAIN co = 1..n
      /\ DOMAIN new = 1 .. n + 1 /\ \A i \in 1..n : new[i] = co[i]
      /\ new[n + 1] = f.name
  BY <1>0, <1>1, Grown
<1>3. /\ \A p \in 1..Len(fr) : kt[p] = ks[p]
      /\ kt[Len(fr) + 1] = f.name
  BY <1>0, KeysPushed
<1>4. new[n + 1] = kt[Len(fr) + 1] /\ f.what \in W
  BY <1>0, <1>2, <1>3
<1>5. Shadows(co, ks, PlacesOf(fr, W))
  BY <1>0
<1>6. Shadows(new, kt, PlacesOf(Append(fr, f), W))
  BY <1>2, <1>3, <1>4, <1>5, PushOwn
<1>7. QED
  BY <1>0, <1>6

\* A path context that is left with its frame.
LEMMA ContextLeft ==
  ASSUME NEW fr \in Seq(Frames), fr # <<>>, NEW co \in Seq(Names), co # <<>>,
         Last(fr).what = "entry",
         Shadows(co, CalledOf(fr), PlacesOf(fr, {"entry"}))
  PROVE  Shadows(Front(co), CalledOf(Front(fr)), PlacesOf(Front(fr), {"entry"}))
<1>0. PICK n, new, ks, kt, W :
        /\ n = Len(co) /\ new = Front(co) /\ W = {"entry"}
        /\ ks = CalledOf(fr) /\ kt = CalledOf(Front(fr))
  OBVIOUS
<1>1. /\ n \in Nat \ {0} /\ DOMAIN co = 1..n
      /\ DOMAIN new = 1 .. n - 1 /\ \A i \in 1 .. n - 1 : new[i] = co[i]
  BY <1>0, Shrunk
<1>2. \A p \in 1 .. Len(fr) - 1 : kt[p] = ks[p]
  BY <1>0, KeysPopped
<1>3. Shadows(co, ks, PlacesOf(fr, W)) /\ Last(fr).what \in W
  BY <1>0
<1>4. Shadows(new, kt, PlacesOf(Front(fr), W))
  BY <1>1, <1>2, <1>3, PopOwn
<1>5. QED
  BY <1>0, <1>4

\* The number a call within an import gets.
LEMMA CurrentIs ==
  ASSUME OtherTypes
  PROVE  Current \in Nat /\ (frames # <<>> => Current = Last(frames).number)
<1>1. frames # <<>> => Last(frames) \in Frames
  BY Shrunk DEF OtherTypes
<1>2. frames # <<>> => Last(frames).number \in Nat
  BY <1>1, AFrameHas
<1>3. QED
  BY <1>2 DEF Current

\* PathFinder.find_spec is called.
LEMMA FinderPush ==
  ASSUME JoinInv, NEW n \in Names, AskPathFinder(n) PROVE JoinInv'
<1>1. EventTypes /\ OtherTypes /\ Ids /\ FramesFit /\ (~skewed => Good)
  BY JoinParts
<1>2. PICK k : k = Current
  OBVIOUS
<1>3. PICK noted : /\ noted \in BOOLEAN
                   /\ noted <=> /\ Enters /\ Ordinary(n) /\ searches # <<>>
                                /\ Last(searches).name = n
  OBVIOUS
<1>4. /\ Room /\ said' = Nothing
      /\ calls' = IF noted THEN Append(calls, Last(searches)) ELSE calls
      /\ Push("path_finder", n, k)
      /\ skewed' = (skewed \/ (Enters /\ ~noted /\ calls # <<>>))
      /\ UNCHANGED <<auditFirst, level, searches, contexts, pending, stale, owner,
                     imports, changes>>
  BY <1>2, <1>3 DEF AskPathFinder, Silent, drawn
<1>5. /\ searches \in Seq(Searches) /\ calls \in Seq(Searches)
      /\ frames \in Seq(Frames) /\ contexts \in Seq(Names)
  BY <1>1 DEF EventTypes, OtherTypes
<1>6. noted => /\ searches # <<>> /\ Last(searches) \in Searches
               /\ Last(searches).id \in 1..Len(owner)
  <2> HAVE noted
  <2>1. searches # <<>>
    BY <1>3
  <2>2. /\ Last(searches) = searches[Len(searches)] /\ Last(searches) \in Searches
        /\ Len(searches) \in Nat \ {0} /\ DOMAIN searches = 1..Len(searches)
    BY <1>5, <2>1, Shrunk
  <2>3. QED
    BY <1>1, <2>1, <2>2 DEF Ids
<1>7. calls' \in Seq(Searches) /\ \A i \in DOMAIN calls' : calls'[i].id \in 1..Len(owner)
  <2>1. CASE noted
    <3>1. PICK s, c : s = Last(searches) /\ c = calls'
      OBVIOUS
    <3>2. c = Append(calls, s) /\ s \in Searches /\ s.id \in 1..Len(owner)
      BY <1>4, <1>6, <2>1, <3>1
    <3>3. /\ c \in Seq(Searches) /\ DOMAIN calls = 1..Len(calls) /\ Len(calls) \in Nat
          /\ DOMAIN c = 1 .. Len(calls) + 1
          /\ \A i \in 1..Len(calls) : c[i] = calls[i]
          /\ c[Len(calls) + 1] = s
      BY <1>5, <3>2, Grown
    <3>4. \A i \in 1 .. Len(calls) + 1 : i \in 1..Len(calls) \/ i = Len(calls) + 1
      BY <3>3
    <3>5. \A i \in DOMAIN c : c[i].id \in 1..Len(owner)
      BY <1>1, <3>2, <3>3, <3>4 DEF Ids
    <3>6. QED
      BY <3>1, <3>3, <3>5
  <2>2. CASE ~noted
    BY <1>1, <1>4, <1>5, <2>2 DEF Ids
  <2>3. QED
    BY <2>1, <2>2
<1>8. EventTypes' /\ Ids'
  <2>1. skewed' \in BOOLEAN
    BY <1>1, <1>4 DEF EventTypes
  <2>2. QED
    BY <1>1, <1>4, <1>7, <2>1 DEF EventTypes, Ids
<1>9. /\ Len(frames) < MaxDepth /\ ~Asking /\ k \in Nat /\ k = Current
      /\ frames # <<>> => Last(frames).what # "asking"
  BY <1>1, <1>2, <1>4, CurrentIs DEF Room, Asking
<1>10. OtherTypes' /\ FramesFit'
  <2>1. "path_finder" \in Whats /\ "path_finder" \notin {"asking", "load"}
    BY DEF Whats
  <2>2. /\ imports' \in 0..MaxImports /\ imports <= imports'
        /\ \A i \in DOMAIN owner' : owner'[i] \in 1..imports'
    BY <1>1, <1>4, BoundsAre DEF OtherTypes, FramesFit
  <2>3. contexts' \in Seq(Names)
    BY <1>4, <1>5
  <2>4. QED
    BY <1>1, <1>4, <1>7, <1>9, <2>1, <2>2, <2>3, PushStep
<1>11. ASSUME ~skewed' PROVE Good'
  <2>1. ~skewed /\ (Enters /\ ~noted => calls = <<>>)
    BY <1>1, <1>4, <1>11 DEF EventTypes
  <2>2. PendingGood /\ AskingGood /\ EmptyGood /\ OneEach(owner)
        /\ Agree(searches, calls, contexts, frames, owner, Entered)
    BY <1>1, <2>1 DEF Good
  <2>3. PICK f : f = [what |-> "path_finder", name |-> n, number |-> k]
    OBVIOUS
  <2>4. /\ frames' = Append(frames, f) /\ f \in Frames
        /\ f.what = "path_finder" /\ f.name = n /\ f.number = k
    BY <1>4, <1>9, <2>3, AFrame DEF Push, Whats
  <2>5. ~Asking'
    BY <1>5, <2>4, LastPushed DEF Asking
  <2>6. Entered' = Entered /\ f.what \notin Entered /\ f.what \notin {"entry"}
    BY <1>4, <2>4 DEF Entered
  <2>7. /\ Shadows(AboutOf(searches, owner), ReallyOf(frames), PlacesOf(frames, Entered))
        /\ Shadows(AboutOf(calls, owner), ReallyOf(frames), PlacesOf(frames, {"path_finder"}))
        /\ Shadows(contexts, CalledOf(frames), PlacesOf(frames, {"entry"}))
    BY <2>2 DEF Agree
  <2>8. /\ Shadows(AboutOf(searches, owner), ReallyOf(Append(frames, f)),
                   PlacesOf(Append(frames, f), Entered))
        /\ Shadows(contexts, CalledOf(Append(frames, f)), PlacesOf(Append(frames, f), {"entry"}))
    BY <1>5, <2>4, <2>6, <2>7, OtherPushed
  <2>9. Shadows(AboutOf(calls', owner), ReallyOf(Append(frames, f)),
                PlacesOf(Append(frames, f), {"path_finder"}))
    <3>1. CASE noted
      <4>1. PICK s : s = Last(searches)
        OBVIOUS
      <4>2. s \in Searches /\ calls' = Append(calls, s) /\ s.name = n
        BY <1>3, <1>4, <1>6, <3>1, <4>1
      <4>3. owner[s.id] = k
        BY <1>1, <1>6, <1>9, <2>7, <3>1, <4>1, OpenSearch
      <4>4. PICK W : W = {"path_finder"}
        OBVIOUS
      <4>5. /\ f.what \in W /\ owner[s.id] = f.number /\ s.name = f.name
            /\ Shadows(AboutOf(calls, owner), ReallyOf(frames), PlacesOf(frames, W))
        BY <2>4, <2>7, <4>2, <4>3, <4>4
      <4>6. Shadows(AboutOf(Append(calls, s), owner), ReallyOf(Append(frames, f)),
                    PlacesOf(Append(frames, f), W))
        BY <1>5, <2>4, <4>2, <4>5, SearchEntered
      <4>7. QED
        BY <4>2, <4>4, <4>6
    <3>2. CASE ~noted
      <4>1. calls = <<>> /\ calls' = calls
        BY <1>4, <2>1, <2>2, <3>2 DEF EmptyGood, Enters
      <4>2. QED
        BY <4>1, EmptyAbout
    <3>3. QED
      BY <3>1, <3>2
  <2>10. Agree(searches', calls', contexts', frames', owner', Entered')
    BY <1>4, <2>4, <2>6, <2>8, <2>9 DEF Agree
  <2>11. PendingGood' /\ AskingGood' /\ SaidGood' /\ OneEach(owner')
    BY <1>4, <1>9, <2>2, <2>5 DEF PendingGood, AskingGood, SaidGood
  <2>12. EmptyGood'
    BY <1>3, <1>4, <2>2 DEF EmptyGood, Enters
  <2>13. QED
    BY <2>10, <2>11, <2>12 DEF Good
<1>12. QED
  BY <1>8, <1>10, <1>11, JoinPartsNext

\* PathFinder.find_spec calls _get_spec.
LEMMA EntryPush == ASSUME JoinInv, AskEntry PROVE JoinInv'
<1>1. EventTypes /\ OtherTypes /\ Ids /\ FramesFit /\ (~skewed => Good)
  BY JoinParts
<1>2. PICK k, n : k = Last(frames).number /\ n = Last(frames).name
  OBVIOUS
<1>3. PICK noted : noted \in BOOLEAN /\ (noted <=> Enters /\ Ordinary(n))
  OBVIOUS
<1>4. /\ Len(frames) < MaxDepth /\ frames # <<>> /\ Last(frames).what = "path_finder"
      /\ said' = Nothing
      /\ contexts' = IF noted THEN Append(contexts, n) ELSE contexts
      /\ Push("entry", n, k)
      /\ skewed' = (skewed \/ (Enters /\ ~noted /\ contexts # <<>>))
      /\ UNCHANGED <<auditFirst, level, searches, calls, pending, stale, owner,
                     imports, changes>>
  BY <1>2, <1>3 DEF AskEntry, Silent, drawn
<1>5. /\ searches \in Seq(Searches) /\ calls \in Seq(Searches)
      /\ frames \in Seq(Frames) /\ contexts \in Seq(Names)
  BY <1>1 DEF EventTypes, OtherTypes
<1>6. n \in Names /\ k \in Nat /\ k = Current /\ ~Asking
  <2>1. Last(frames) \in Frames
    BY <1>4, <1>5, Shrunk
  <2>2. QED
    BY <1>1, <1>2, <1>4, <2>1, AFrameHas, CurrentIs DEF Asking
<1>7. contexts' \in Seq(Names)
  BY <1>4, <1>5, <1>6, Grown
<1>8. EventTypes' /\ Ids'
  <2>1. skewed' \in BOOLEAN
    BY <1>1, <1>4 DEF EventTypes
  <2>2. QED
    BY <1>1, <1>4, <2>1 DEF EventTypes, Ids
<1>9. OtherTypes' /\ FramesFit'
  <2>1. "entry" \in Whats /\ "entry" \notin {"asking", "load"}
    BY DEF Whats
  <2>2. /\ imports' \in 0..MaxImports /\ imports <= imports'
        /\ \A i \in DOMAIN owner' : owner'[i] \in 1..imports'
    BY <1>1, <1>4, BoundsAre DEF OtherTypes, FramesFit
  <2>3. calls' \in Seq(Searches) /\ (frames # <<>> => Last(frames).what # "asking")
    BY <1>4, <1>5
  <2>4. QED
    BY <1>1, <1>4, <1>6, <1>7, <2>1, <2>2, <2>3, PushStep
<1>10. ASSUME ~skewed' PROVE Good'
  <2>1. ~skewed /\ (Enters /\ ~noted => contexts = <<>>)
    BY <1>1, <1>4, <1>10 DEF EventTypes
  <2>2. PendingGood /\ AskingGood /\ EmptyGood /\ OneEach(owner)
        /\ Agree(searches, calls, contexts, frames, owner, Entered)
    BY <1>1, <2>1 DEF Good
  <2>3. PICK f : f = [what |-> "entry", name |-> n, number |-> k]
    OBVIOUS
  <2>4. /\ frames' = Append(frames, f) /\ f \in Frames
        /\ f.what = "entry" /\ f.name = n /\ f.number = k
    BY <1>4, <1>6, <2>3, AFrame DEF Push, Whats
  <2>5. ~Asking'
    BY <1>5, <2>4, LastPushed DEF Asking
  <2>6. Entered' = Entered /\ f.what \notin Entered /\ f.what \notin {"path_finder"}
    BY <1>4, <2>4 DEF Entered
  <2>7. /\ Shadows(AboutOf(searches, owner), ReallyOf(frames), PlacesOf(frames, Entered))
        /\ Shadows(AboutOf(calls, owner), ReallyOf(frames), PlacesOf(frames, {"path_finder"}))
        /\ Shadows(contexts, CalledOf(frames), PlacesOf(frames, {"entry"}))
    BY <2>2 DEF Agree
  <2>8. /\ Shadows(AboutOf(searches, owner), ReallyOf(Append(frames, f)),
                   PlacesOf(Append(frames, f), Entered))
        /\ Shadows(AboutOf(calls, owner), ReallyOf(Append(frames, f)),
                   PlacesOf(Append(frames, f), {"path_finder"}))
    BY <1>5, <2>4, <2>6, <2>7, OtherPushed
  <2>9. Shadows(contexts', CalledOf(Append(frames, f)), PlacesOf(Append(frames, f), {"entry"}))
    <3>1. CASE noted
      BY <1>4, <1>5, <2>4, <2>7, <3>1, ContextEntered
    <3>2. CASE ~noted
      <4>1. contexts = <<>> /\ contexts' = contexts
        BY <1>4, <2>1, <2>2, <3>2 DEF EmptyGood, Enters
      <4>2. QED
        BY <4>1, EmptyAbout
    <3>3. QED
      BY <3>1, <3>2
  <2>10. Agree(searches', calls', contexts', frames', owner', Entered')
    BY <1>4, <2>4, <2>6, <2>8, <2>9 DEF Agree
  <2>11. PendingGood' /\ AskingGood' /\ SaidGood' /\ OneEach(owner')
    BY <1>4, <1>6, <2>2, <2>5 DEF PendingGood, AskingGood, SaidGood
  <2>12. EmptyGood'
    BY <1>3, <1>4, <2>2 DEF EmptyGood, Enters
  <2>13. QED
    BY <2>10, <2>11, <2>12 DEF Good
<1>11. QED
  BY <1>8, <1>9, <1>10, JoinPartsNext

\* Popping a stack of searches.
LEMMA PopDoes ==
  ASSUME NEW st \in Seq(Searches), NEW m, \A i \in DOMAIN st : st[i].id \in 1..m,
         NEW new, new = st \/ new = Pop(st)
  PROVE  /\ new \in Seq(Searches) /\ \A i \in DOMAIN new : new[i].id \in 1..m
         /\ st = <<>> => new = <<>>
         /\ st # <<>> => /\ Last(st) \in Searches /\ Last(st).id \in 1..m
                         /\ Last(st).id \in Nat /\ Last(st).name \in Names
<1>1. CASE st = <<>>
  BY <1>1 DEF Pop
<1>2. CASE st # <<>>
  <2>1. PICK n, less : n = Len(st) /\ less = Front(st)
    OBVIOUS
  <2>2. /\ n \in Nat \ {0} /\ DOMAIN st = 1..n /\ DOMAIN less = 1 .. n - 1
        /\ \A i \in 1 .. n - 1 : less[i] = st[i] /\ i \in 1..n
        /\ less \in Seq(Searches) /\ Last(st) = st[n] /\ Last(st) \in Searches
        /\ n \in 1..n
    <3>1. /\ n \in Nat \ {0} /\ DOMAIN st = 1..n /\ DOMAIN less = 1 .. n - 1
          /\ \A i \in 1 .. n - 1 : less[i] = st[i] /\ i \in 1..n
          /\ less \in Seq(Searches) /\ Last(st) = st[n] /\ Last(st) \in Searches
      BY <1>2, <2>1, Shrunk
    <3>2. QED
      BY <3>1
  <2>3. new = st \/ new = less
    BY <1>2, <2>1 DEF Pop
  <2>4. \A i \in DOMAIN less : less[i].id \in 1..m
    BY <2>2
  <2>5. Last(st).id \in 1..m /\ Last(st).id \in Nat /\ Last(st).name \in Names
    BY <2>2, ASearchHas
  <2>6. QED
    BY <1>2, <2>2, <2>3, <2>4, <2>5
<1>3. QED
  BY <1>1, <1>2

\* What the returns have in common.
LEMMA ReturnDoes ==
  ASSUME EventTypes, OtherTypes, Ids, FramesFit, frames # <<>>, Returned(Last(frames)),
         said' = Nothing \/
           \E k \in {"finished", "aggregate"}, s \in Searches :
             Say(k, s.id, s.name, Last(frames).number, Last(frames).name),
         searches' \in Seq(Searches), calls' \in Seq(Searches),
         \A i \in DOMAIN searches' : searches'[i].id \in 1..Len(owner),
         \A i \in DOMAIN calls' : calls'[i].id \in 1..Len(owner),
         contexts' \in Seq(Names)
  PROVE  EventTypes' /\ OtherTypes' /\ Ids' /\ FramesFit' /\ ~Asking'
<1>1. /\ frames' = Front(frames)
      /\ UNCHANGED <<auditFirst, level, pending, stale, owner, imports, changes,
                     skewed>>
  BY DEF Returned, drawn
<1>2. Last(frames).name \in Names /\ Last(frames).number \in Nat
  <2>1. Last(frames) \in Frames
    BY Shrunk DEF OtherTypes
  <2>2. QED
    BY <2>1, AFrameHas
<1>3. said' \in Records \union {Nothing}
  <2>1. CASE said' = Nothing
    BY <2>1
  <2>2. CASE said' # Nothing
    <3>1. PICK k \in {"finished", "aggregate"}, s \in Searches :
            Say(k, s.id, s.name, Last(frames).number, Last(frames).name)
      BY <2>2
    <3>2. s.id \in Nat /\ s.name \in Names
      BY ASearchHas
    <3>3. k \in {"searching", "started", "finished", "aggregate"}
      OBVIOUS
    <3>4. QED
      BY <1>2, <3>1, <3>2, <3>3, ARecord
  <2>3. QED
    BY <2>1, <2>2
<1>4. EventTypes' /\ Ids'
  BY <1>1, <1>3 DEF EventTypes, Ids
<1>5. OtherTypes' /\ FramesFit' /\ ~Asking'
  BY <1>1, PopStep
<1>6. QED
  BY <1>4, <1>5

\* _find_and_load returns.
LEMMA LoadPop == ASSUME JoinInv, LoadReturns PROVE JoinInv'
<1>1. EventTypes /\ OtherTypes /\ Ids /\ FramesFit /\ (~skewed => Good)
  BY JoinParts
<1>2. PICK f, s : f = Last(frames) /\ s = Last(searches)
  OBVIOUS
<1>3. /\ frames # <<>> /\ f.what \in Entered /\ Returned(Last(frames))
      /\ searches' = IF Enters THEN Pop(searches) ELSE searches
      /\ IF Enters /\ searches # <<>>
           THEN Say("finished", s.id, s.name, f.number, f.name)
           ELSE said' = Nothing
      /\ UNCHANGED <<calls, contexts>>
  BY <1>2 DEF LoadReturns, Silent
<1>4. /\ searches \in Seq(Searches) /\ calls \in Seq(Searches)
      /\ frames \in Seq(Frames) /\ contexts \in Seq(Names)
  BY <1>1 DEF EventTypes, OtherTypes
<1>5. /\ searches' \in Seq(Searches)
      /\ \A i \in DOMAIN searches' : searches'[i].id \in 1..Len(owner)
      /\ searches = <<>> => searches' = <<>>
      /\ searches # <<>> => s \in Searches
  <2>1. \A i \in DOMAIN searches : searches[i].id \in 1..Len(owner)
    BY <1>1 DEF Ids
  <2>2. searches' = searches \/ searches' = Pop(searches)
    BY <1>3
  <2>3. PICK m, st, new : m = Len(owner) /\ st = searches /\ new = searches'
    OBVIOUS
  <2>4. /\ st \in Seq(Searches) /\ \A i \in DOMAIN st : st[i].id \in 1..m
        /\ new = st \/ new = Pop(st)
    BY <1>4, <2>1, <2>2, <2>3
  <2>5. /\ new \in Seq(Searches) /\ \A i \in DOMAIN new : new[i].id \in 1..m
        /\ st = <<>> => new = <<>>
        /\ st # <<>> => Last(st) \in Searches
    <3>1. /\ new \in Seq(Searches) /\ \A i \in DOMAIN new : new[i].id \in 1..m
          /\ st = <<>> => new = <<>>
      BY <2>4, PopDoes
    <3>2. st # <<>> => Last(st) \in Searches
      BY <2>4, Shrunk
    <3>3. QED
      BY <3>1, <3>2
  <2>6. QED
    BY <1>2, <2>3, <2>5
<1>6. EventTypes' /\ OtherTypes' /\ Ids' /\ FramesFit' /\ ~Asking'
  <2>1. said' = Nothing \/
          \E k \in {"finished", "aggregate"}, e \in Searches :
            Say(k, e.id, e.name, Last(frames).number, Last(frames).name)
    BY <1>2, <1>3, <1>5
  <2>2. calls' \in Seq(Searches) /\ contexts' \in Seq(Names)
        /\ \A i \in DOMAIN calls' : calls'[i].id \in 1..Len(owner)
    BY <1>1, <1>3, <1>4 DEF Ids
  <2>3. QED
    BY <1>1, <1>3, <1>5, <2>1, <2>2, ReturnDoes
<1>7. ASSUME ~skewed' PROVE Good'
  <2>1. /\ frames' = Front(frames) /\ ~skewed
        /\ UNCHANGED <<auditFirst, level, pending, stale, owner>>
    BY <1>3, <1>7 DEF Returned, drawn
  <2>2. PendingGood /\ AskingGood /\ EmptyGood /\ OneEach(owner)
        /\ Agree(searches, calls, contexts, frames, owner, Entered)
    BY <1>1, <2>1 DEF Good
  <2>3. PICK less : less = Front(frames)
    OBVIOUS
  <2>4. /\ Shadows(AboutOf(searches, owner), ReallyOf(frames), PlacesOf(frames, Entered))
        /\ Shadows(AboutOf(calls, owner), ReallyOf(frames), PlacesOf(frames, {"path_finder"}))
        /\ Shadows(contexts, CalledOf(frames), PlacesOf(frames, {"entry"}))
    BY <2>2 DEF Agree
  <2>5. /\ Shadows(AboutOf(calls, owner), ReallyOf(less), PlacesOf(less, {"path_finder"}))
        /\ Shadows(contexts, CalledOf(less), PlacesOf(less, {"entry"}))
    <3>1. Last(frames).what \notin {"path_finder"} /\ Last(frames).what \notin {"entry"}
      BY <1>2, <1>3 DEF Entered
    <3>2. QED
      BY <1>3, <1>4, <2>3, <2>4, <3>1, OtherPopped
  <2>6. Entered' = Entered /\ Last(frames).what \in Entered
    BY <1>2, <1>3, <2>1 DEF Entered
  <2>7. PendingGood' /\ AskingGood' /\ OneEach(owner')
    <3>1. ~Asking \/ ~auditFirst
      BY <1>2, <1>3 DEF Asking, Entered
    <3>2. QED
      BY <1>6, <2>1, <2>2, <3>1 DEF PendingGood, AskingGood
  <2>8. EmptyGood'
    BY <1>3, <1>5, <2>1, <2>2 DEF EmptyGood
  <2>9. CASE Enters /\ searches # <<>>
    <3>1. searches' = Front(searches)
      BY <1>3, <2>9 DEF Pop
    <3>2. /\ owner[s.id] = f.number /\ s.name = f.name
          /\ Shadows(AboutOf(Front(searches), owner), ReallyOf(less), PlacesOf(less, Entered))
      BY <1>2, <1>3, <1>4, <2>3, <2>4, <2>6, <2>9, SearchLeft
    <3>3. Agree(searches', calls', contexts', frames', owner', Entered')
      BY <1>3, <2>1, <2>3, <2>5, <2>6, <3>1, <3>2 DEF Agree
    <3>4. SaidGood'
      BY <1>3, <2>1, <2>9, <3>2 DEF SaidGood, Say
    <3>5. QED
      BY <2>7, <2>8, <3>3, <3>4 DEF Good
  <2>10. CASE ~(Enters /\ searches # <<>>)
    <3>1. searches' = <<>> /\ said' = Nothing
      BY <1>3, <1>5, <2>2, <2>10 DEF EmptyGood, Enters
    <3>2. Agree(searches', calls', contexts', frames', owner', Entered')
      BY <1>3, <2>1, <2>3, <2>5, <3>1, EmptyAbout DEF Agree
    <3>3. SaidGood'
      BY <3>1 DEF SaidGood
    <3>4. QED
      BY <2>7, <2>8, <3>2, <3>3 DEF Good
  <2>11. QED
    BY <2>9, <2>10
<1>8. QED
  BY <1>6, <1>7, JoinPartsNext

\* PathFinder.find_spec returns.
LEMMA FinderPop ==
  ASSUME JoinInv, NEW found \in BOOLEAN, PathFinderReturns(found) PROVE JoinInv'
<1>1. EventTypes /\ OtherTypes /\ Ids /\ FramesFit /\ (~skewed => Good)
  BY JoinParts
<1>2. PICK f, s : f = Last(frames) /\ s = Last(calls)
  OBVIOUS
<1>3. /\ frames # <<>> /\ f.what = "path_finder" /\ Returned(Last(frames))
      /\ calls' = IF Enters THEN Pop(calls) ELSE calls
      /\ IF Enters /\ calls # <<>> /\ found
           THEN Say("aggregate", s.id, s.name, f.number, f.name)
           ELSE said' = Nothing
      /\ UNCHANGED <<searches, contexts>>
  BY <1>2 DEF PathFinderReturns, Silent
<1>4. /\ searches \in Seq(Searches) /\ calls \in Seq(Searches)
      /\ frames \in Seq(Frames) /\ contexts \in Seq(Names)
  BY <1>1 DEF EventTypes, OtherTypes
<1>5. /\ calls' \in Seq(Searches)
      /\ \A i \in DOMAIN calls' : calls'[i].id \in 1..Len(owner)
      /\ calls = <<>> => calls' = <<>>
      /\ calls # <<>> => s \in Searches
  <2>1. \A i \in DOMAIN calls : calls[i].id \in 1..Len(owner)
    BY <1>1 DEF Ids
  <2>2. calls' = calls \/ calls' = Pop(calls)
    BY <1>3
  <2>3. PICK m, st, new : m = Len(owner) /\ st = calls /\ new = calls'
    OBVIOUS
  <2>4. /\ st \in Seq(Searches) /\ \A i \in DOMAIN st : st[i].id \in 1..m
        /\ new = st \/ new = Pop(st)
    BY <1>4, <2>1, <2>2, <2>3
  <2>5. /\ new \in Seq(Searches) /\ \A i \in DOMAIN new : new[i].id \in 1..m
        /\ st = <<>> => new = <<>>
    BY <2>4, PopDoes
  <2>6. st # <<>> => Last(st) \in Searches
    BY <2>4, Shrunk
  <2>7. QED
    BY <1>2, <2>3, <2>5, <2>6
<1>6. EventTypes' /\ OtherTypes' /\ Ids' /\ FramesFit' /\ ~Asking'
  <2>1. said' = Nothing \/
          \E k \in {"finished", "aggregate"}, e \in Searches :
            Say(k, e.id, e.name, Last(frames).number, Last(frames).name)
    BY <1>2, <1>3, <1>5
  <2>2. searches' \in Seq(Searches) /\ contexts' \in Seq(Names)
        /\ \A i \in DOMAIN searches' : searches'[i].id \in 1..Len(owner)
    BY <1>1, <1>3, <1>4 DEF Ids
  <2>3. QED
    BY <1>1, <1>3, <1>5, <2>1, <2>2, ReturnDoes
<1>7. ASSUME ~skewed' PROVE Good'
  <2>1. /\ frames' = Front(frames) /\ ~skewed
        /\ UNCHANGED <<auditFirst, level, pending, stale, owner>>
    BY <1>3, <1>7 DEF Returned, drawn
  <2>2. PendingGood /\ AskingGood /\ EmptyGood /\ OneEach(owner)
        /\ Agree(searches, calls, contexts, frames, owner, Entered)
    BY <1>1, <2>1 DEF Good
  <2>3. PICK less, W : less = Front(frames) /\ W = {"path_finder"}
    OBVIOUS
  <2>4. /\ Shadows(AboutOf(searches, owner), ReallyOf(frames), PlacesOf(frames, Entered))
        /\ Shadows(AboutOf(calls, owner), ReallyOf(frames), PlacesOf(frames, W))
        /\ Shadows(contexts, CalledOf(frames), PlacesOf(frames, {"entry"}))
    BY <2>2, <2>3 DEF Agree
  <2>5. /\ Shadows(AboutOf(searches, owner), ReallyOf(less), PlacesOf(less, Entered))
        /\ Shadows(contexts, CalledOf(less), PlacesOf(less, {"entry"}))
    <3>1. Last(frames).what \notin Entered /\ Last(frames).what \notin {"entry"}
      BY <1>2, <1>3 DEF Entered
    <3>2. QED
      BY <1>3, <1>4, <2>3, <2>4, <3>1, OtherPopped
  <2>6. Entered' = Entered /\ Last(frames).what \in W
    BY <1>2, <1>3, <2>1, <2>3 DEF Entered
  <2>7. PendingGood' /\ AskingGood' /\ OneEach(owner')
    <3>1. ~Asking
      BY <1>2, <1>3 DEF Asking
    <3>2. QED
      BY <1>6, <2>1, <2>2, <3>1 DEF PendingGood, AskingGood
  <2>8. EmptyGood'
    BY <1>3, <1>5, <2>1, <2>2 DEF EmptyGood
  <2>9. CASE Enters /\ calls # <<>>
    <3>1. calls' = Front(calls)
      BY <1>3, <2>9 DEF Pop
    <3>2. /\ owner[s.id] = f.number /\ s.name = f.name
          /\ Shadows(AboutOf(Front(calls), owner), ReallyOf(less), PlacesOf(less, W))
      BY <1>2, <1>3, <1>4, <2>3, <2>4, <2>6, <2>9, SearchLeft
    <3>3. Agree(searches', calls', contexts', frames', owner', Entered')
      BY <1>3, <2>1, <2>3, <2>5, <2>6, <3>1, <3>2 DEF Agree
    <3>4. SaidGood'
      <4>1. CASE found
        BY <1>3, <2>1, <2>9, <3>2, <4>1 DEF SaidGood, Say
      <4>2. CASE ~found
        BY <1>3, <4>2 DEF SaidGood
      <4>3. QED
        BY <4>1, <4>2
    <3>5. QED
      BY <2>7, <2>8, <3>3, <3>4 DEF Good
  <2>10. CASE ~(Enters /\ calls # <<>>)
    <3>1. calls' = <<>> /\ said' = Nothing
      BY <1>3, <1>5, <2>2, <2>10 DEF EmptyGood, Enters
    <3>2. Agree(searches', calls', contexts', frames', owner', Entered')
      BY <1>3, <2>1, <2>3, <2>5, <2>6, <3>1, EmptyAbout DEF Agree
    <3>3. SaidGood'
      BY <3>1 DEF SaidGood
    <3>4. QED
      BY <2>7, <2>8, <3>2, <3>3 DEF Good
  <2>11. QED
    BY <2>9, <2>10
<1>8. QED
  BY <1>6, <1>7, JoinPartsNext

\* _get_spec returns.
LEMMA EntryPop == ASSUME JoinInv, EntryReturns PROVE JoinInv'
<1>1. EventTypes /\ OtherTypes /\ Ids /\ FramesFit /\ (~skewed => Good)
  BY JoinParts
<1>2. /\ frames # <<>> /\ Last(frames).what = "entry" /\ Returned(Last(frames))
      /\ contexts' = IF Enters THEN Pop(contexts) ELSE contexts
      /\ said' = Nothing
      /\ UNCHANGED <<searches, calls>>
  BY DEF EntryReturns, Silent
<1>3. /\ searches \in Seq(Searches) /\ calls \in Seq(Searches)
      /\ frames \in Seq(Frames) /\ contexts \in Seq(Names)
  BY <1>1 DEF EventTypes, OtherTypes
<1>4. contexts' \in Seq(Names) /\ (contexts = <<>> => contexts' = <<>>)
  <2>1. contexts # <<>> => Front(contexts) \in Seq(Names)
    BY <1>3, Shrunk
  <2>2. QED
    BY <1>2, <1>3, <2>1 DEF Pop
<1>5. EventTypes' /\ OtherTypes' /\ Ids' /\ FramesFit' /\ ~Asking'
  <2>1. /\ searches' \in Seq(Searches) /\ calls' \in Seq(Searches)
        /\ \A i \in DOMAIN searches' : searches'[i].id \in 1..Len(owner)
        /\ \A i \in DOMAIN calls' : calls'[i].id \in 1..Len(owner)
    BY <1>1, <1>2, <1>3 DEF Ids
  <2>2. QED
    BY <1>1, <1>2, <1>4, <2>1, ReturnDoes
<1>6. ASSUME ~skewed' PROVE Good'
  <2>1. /\ frames' = Front(frames) /\ ~skewed
        /\ UNCHANGED <<auditFirst, level, pending, stale, owner>>
    BY <1>2, <1>6 DEF Returned, drawn
  <2>2. PendingGood /\ AskingGood /\ EmptyGood /\ OneEach(owner)
        /\ Agree(searches, calls, contexts, frames, owner, Entered)
    BY <1>1, <2>1 DEF Good
  <2>3. PICK less : less = Front(frames)
    OBVIOUS
  <2>4. /\ Shadows(AboutOf(searches, owner), ReallyOf(frames), PlacesOf(frames, Entered))
        /\ Shadows(AboutOf(calls, owner), ReallyOf(frames), PlacesOf(frames, {"path_finder"}))
        /\ Shadows(contexts, CalledOf(frames), PlacesOf(frames, {"entry"}))
    BY <2>2 DEF Agree
  <2>5. /\ Shadows(AboutOf(searches, owner), ReallyOf(less), PlacesOf(less, Entered))
        /\ Shadows(AboutOf(calls, owner), ReallyOf(less), PlacesOf(less, {"path_finder"}))
    <3>1. Last(frames).what \notin Entered /\ Last(frames).what \notin {"path_finder"}
      BY <1>2 DEF Entered
    <3>2. QED
      BY <1>2, <1>3, <2>3, <2>4, <3>1, OtherPopped
  <2>6. Shadows(contexts', CalledOf(less), PlacesOf(less, {"entry"}))
    <3>1. CASE Enters /\ contexts # <<>>
      <4>1. contexts' = Front(contexts)
        BY <1>2, <3>1 DEF Pop
      <4>2. Shadows(Front(contexts), CalledOf(less), PlacesOf(less, {"entry"}))
        BY <1>2, <1>3, <2>3, <2>4, <3>1, ContextLeft
      <4>3. QED
        BY <4>1, <4>2
    <3>2. CASE ~(Enters /\ contexts # <<>>)
      <4>1. contexts' = <<>>
        BY <1>2, <1>4, <2>2, <3>2 DEF EmptyGood, Enters
      <4>2. QED
        BY <4>1, EmptyAbout
    <3>3. QED
      BY <3>1, <3>2
  <2>7. Entered' = Entered
    BY <2>1 DEF Entered
  <2>8. Agree(searches', calls', contexts', frames', owner', Entered')
    BY <1>2, <2>1, <2>3, <2>5, <2>6, <2>7 DEF Agree
  <2>9. PendingGood' /\ AskingGood' /\ OneEach(owner')
    <3>1. ~Asking
      BY <1>2 DEF Asking
    <3>2. QED
      BY <1>5, <2>1, <2>2, <3>1 DEF PendingGood, AskingGood
  <2>10. EmptyGood' /\ SaidGood'
    BY <1>2, <1>4, <2>1, <2>2 DEF EmptyGood, SaidGood
  <2>11. QED
    BY <2>8, <2>9, <2>10 DEF Good
<1>7. QED
  BY <1>5, <1>6, JoinPartsNext

\* The initial state.
LEMMA JoinInit == Init => JoinInv
<1> SUFFICES ASSUME Init PROVE JoinInv
  OBVIOUS
<1>1. /\ auditFirst \in BOOLEAN /\ level = "off" /\ frames = <<>>
      /\ searches = <<>> /\ calls = <<>> /\ contexts = <<>>
      /\ pending = Nothing /\ stale = FALSE /\ owner = <<>> /\ imports = 0 /\ changes = 0
      /\ said = Nothing /\ skewed = FALSE
  BY DEF Init
<1>2. EventTypes /\ OtherTypes /\ Ids /\ FramesFit
  <2>1. EventTypes
    <3>1. searches \in Seq(Searches) /\ owner \in Seq(1..MaxImports)
      BY <1>1
    <3>2. QED
      BY <1>1, <3>1 DEF EventTypes
  <2>2. Ids
    <3>1. DOMAIN searches = {} /\ DOMAIN calls = {}
      BY <1>1
    <3>2. QED
      BY <1>1, <3>1 DEF Ids
  <2>3. OtherTypes
    <3>1. /\ frames \in Seq(Frames) /\ calls \in Seq(Searches)
          /\ contexts \in Seq(Names) /\ Len(frames) = 0
      BY <1>1
    <3>2. imports \in 0..MaxImports /\ changes \in 0..MaxChanges /\ 0 <= MaxDepth
      BY <1>1, BoundsAre
    <3>3. QED
      BY <1>1, <3>1, <3>2 DEF OtherTypes
  <2>4. FramesFit
    <3>1. DOMAIN frames = {} /\ DOMAIN owner = {}
      BY <1>1
    <3>2. QED
      BY <3>1 DEF FramesFit
  <2>5. QED
    BY <2>1, <2>2, <2>3, <2>4
<1>3. Agree(searches, calls, contexts, frames, owner, Entered)
  BY <1>1, EmptyAbout DEF Agree
<1>4. OneEach(owner)
  BY <1>1 DEF OneEach
<1>5. Good
  BY <1>1, <1>3, <1>4 DEF Good, PendingGood, AskingGood, EmptyGood, SaidGood, Asking
<1>6. QED
  BY <1>2, <1>5, JoinParts

\* Every step keeps the invariant.
LEMMA JoinStep == ASSUME JoinInv, Next PROVE JoinInv'
<1>1. CASE ChangeLevel
  BY <1>1, LevelKeeps
<1>2. ASSUME NEW n \in Names, ImportStatement(n) PROVE JoinInv'
  <2>1. /\ Room /\ imports < MaxImports /\ imports' = imports + 1
        /\ Push("asking", n, imports')
        /\ UNCHANGED <<auditFirst, level, calls, contexts, changes>>
    BY <1>2 DEF ImportStatement
  <2>2. CASE auditFirst
    <3>1. Audit(n, imports', "after") /\ UNCHANGED searches
      BY <1>2, <2>2 DEF ImportStatement
    <3>2. QED
      BY <2>1, <2>2, <3>1, AuditPush
  <2>3. CASE ~auditFirst
    <3>1. Enter(n, imports')
      BY <1>2, <2>3 DEF ImportStatement
    <3>2. PICK w \in {"asking", "load"} : w = "asking"
      OBVIOUS
    <3>3. QED
      BY <2>1, <2>3, <3>1, <3>2, EnterPush
  <2>4. QED
    BY <2>2, <2>3
<1>3. CASE ImportGoesOn
  <2>1. /\ Asking
        /\ frames' = Append(Front(frames), [Last(frames) EXCEPT !.what = "load"])
        /\ UNCHANGED <<auditFirst, level, calls, contexts, imports, changes>>
    BY <1>3 DEF ImportGoesOn, Asking
  <2>2. CASE auditFirst
    <3>1. Enter(Last(frames).name, Last(frames).number)
      BY <1>3, <2>2 DEF ImportGoesOn
    <3>2. QED
      BY <2>1, <2>2, <3>1, TurnEnter
  <2>3. CASE ~auditFirst
    <3>1. Audit(Last(frames).name, Last(frames).number, "before") /\ UNCHANGED searches
      BY <1>3, <2>3 DEF ImportGoesOn
    <3>2. QED
      BY <2>1, <2>3, <3>1, TurnAudit
  <2>4. QED
    BY <2>2, <2>3
<1>4. ASSUME NEW n \in Names, ImportModule(n) PROVE JoinInv'
  <2>1. /\ Room /\ imports < MaxImports /\ imports' = imports + 1
        /\ Enter(n, imports') /\ Push("load", n, imports')
        /\ UNCHANGED <<auditFirst, level, calls, contexts, changes>>
    BY <1>4 DEF ImportModule
  <2>2. PICK w \in {"asking", "load"} : w = "load"
    OBVIOUS
  <2>3. w = "asking" => ~auditFirst
    BY <2>2
  <2>4. QED
    BY <2>1, <2>2, <2>3, EnterPush
<1>5. ASSUME NEW n \in Names, AskPathFinder(n) PROVE JoinInv'
  BY <1>5, FinderPush
<1>6. CASE AskEntry
  BY <1>6, EntryPush
<1>7. CASE LoadReturns
  BY <1>7, LoadPop
<1>8. ASSUME NEW found \in BOOLEAN, PathFinderReturns(found) PROVE JoinInv'
  BY <1>8, FinderPop
<1>9. CASE EntryReturns
  BY <1>9, EntryPop
<1>10. CASE CallbackRaises
  BY <1>10, CallbackKeeps
<1>11. CASE ImportRefused
  BY <1>11, RefusedKeeps
<1>12. ASSUME NEW n \in Names, ImportInCallback(n) PROVE JoinInv'
  BY <1>12, CallbackAudit
<1>13. QED
  BY <1>1, <1>2, <1>3, <1>4, <1>5, <1>6, <1>7, <1>8, <1>9, <1>10, <1>11, <1>12
     DEF Next

\* So does a stutter.
LEMMA JoinStays == ASSUME JoinInv, UNCHANGED vars PROVE JoinInv'
  BY DEF JoinInv, ProfilingInv, TypeOK, FramesFit, PendingFits, AskingFits,
         NoShadowsYet, ShadowsAreTheStack, OneSearchPerImport, RecordsOwnImport,
         vars, shadows, drawn, Asking, ImportFrame, About, Really, Called,
         Places, Entered, Open, Listening

\* The invariant holds in every behaviour of the composition.
LEMMA JoinAlways == MCSpec => []JoinInv
<1>1. MCInit => JoinInv
  BY JoinInit DEF MCInit
<1>2. JoinInv /\ [MCNext]_<<vars, leaseVars, exploreVars, part>> => JoinInv'
  <2> SUFFICES ASSUME JoinInv, [MCNext]_<<vars, leaseVars, exploreVars, part>>
               PROVE  JoinInv'
    OBVIOUS
  <2>1. Next \/ UNCHANGED vars
    BY DEF MCNext, ProfilingStep, LeaseStep, ExploreStep
  <2>2. QED
    BY <2>1, JoinStep, JoinStays
<1>3. QED
  BY <1>1, <1>2, PTL DEF MCSpec

\* Types, the numbers of the frames and what a search that is drawn but not
\* entered is about, with the agreement of the shadow stacks they carry
\* (_profile_import_boundary, _record_import_search_started).
THEOREM ProfilingInvariant == MCSpec => []ProfilingInv
<1>1. JoinInv => ProfilingInv
  BY DEF JoinInv
<1>2. QED
  BY <1>1, JoinAlways, PTL

\* The innermost calls the monitor believes a thread to be in are those it is
\* in, and about what it believes (_profile_import_boundary,
\* _profile_path_finder, _profile_path_get_spec).
THEOREM ShadowsFollowTheStack == MCSpec => []ShadowsAreTheStack
<1>1. JoinInv => ShadowsAreTheStack
  BY DEF JoinInv, ProfilingInv
<1>2. QED
  BY <1>1, JoinAlways, PTL

\* Every record is about the import it happened in, and an import has one
\* search (active_import_search_id, pending_import_search).
THEOREM RecordsAlwaysJoin == MCSpec => []RecordsJoin
<1>1. JoinInv => RecordsJoin
  BY DEF JoinInv, ProfilingInv, RecordsJoin
<1>2. QED
  BY <1>1, JoinAlways, PTL
=============================================================================
