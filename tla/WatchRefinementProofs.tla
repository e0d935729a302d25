----------------------- MODULE WatchRefinementProofs -----------------------
(***************************************************************************)
(* WatchManager implements WatchedService, for any sets of services, users *)
(* and series (finitely many) and any bound on the revisions.              *)
(***************************************************************************)
EXTENDS WatchManagerProofs

(* ~PolarisManager comes after the calls: nobody is in one then.           *)
Quiet == handle # "open" => \A u \in Users : users[u].pc = "idle"

LEMMA QuietInit == Init => Quiet
BY DEF Init, Quiet

(* A task releases a user who is in watch_service, so nobody when all are  *)
(* idle.                                                                   *)
LEMMA ReleaseNobody ==
  ASSUME Shape, CallsInv, Quiet, handle # "open", NEW x \in Live,
         NEW b \in BOOLEAN, Release(x, b)
  PROVE  \A u \in Users : users'[u].pc = "idle"
<1>1. series[x].user \notin Users
  BY NoneAssumption DEF CallsInv, Quiet
<1> QED
  BY <1>1, ReleaseType DEF Quiet

LEMMA QuietStep == Shape /\ CallsInv /\ Quiet /\ [Next]_vars => Quiet'
<1> SUFFICES ASSUME Shape, CallsInv, Quiet, [Next]_vars, handle' # "open"
             PROVE  \A u \in Users : users'[u].pc = "idle"
  BY DEF Quiet
<1> USE DEF vars, life
<1>1. CASE UNCHANGED <<handle, users>>
  BY <1>1 DEF Quiet
<1>2. ASSUME NEW u \in Users, NEW s \in Services,
             \/ \E x \in Series : WatchService(u, s, x)
             \/ UnwatchNotFound(u, s) \/ UnwatchAtOnce(u, s) \/ UnwatchWait(u, s)
      PROVE  FALSE
  BY <1>2 DEF WatchService, UnwatchNotFound, UnwatchAtOnce, UnwatchWait,
              MayUnwatch, MayCall
<1>3. ASSUME NEW u \in Users, WatchReturn(u) \/ SpuriousWakeup(u) \/ UnwatchFinish(u)
      PROVE  FALSE
  BY <1>3 DEF WatchReturn, SpuriousWakeup, UnwatchFinish, Quiet
<1>4. ASSUME NEW x \in Series, NEW answer \in Answers(x),
             InPhase(x, "discover"), DiscoverCallback(x, answer)
      PROVE  \A u \in Users : users'[u].pc = "idle"
  <2>1. handle # "open" /\ x \in Live
    BY <1>4 DEF DiscoverCallback, InPhase
  <2>2. UNCHANGED users \/ Release(x, FALSE)
    BY <1>4 DEF DiscoverCallback, DiscoverForUser, DiscoverForRefresh
  <2> QED
    BY <2>1, <2>2, ReleaseNobody DEF Quiet
<1>5. ASSUME NEW x \in Series, UpdateDouble(x) \/ UpdateOutbounds(x)
      PROVE  \A u \in Users : users'[u].pc = "idle"
  <2>1. /\ handle # "open"
        /\ x \in Live
        /\ \E b \in BOOLEAN : Release(x, b)
    BY <1>5 DEF UpdateDouble, UpdateOutbounds, AtUpdate, InPhase
  <2> QED
    BY <2>1, ReleaseNobody
<1>6. ASSUME NEW x \in Series, UpdateUnwatched(x)
      PROVE  \A u \in Users : users'[u].pc = "idle"
  <2>1. handle # "open" /\ NotifyOne(series[x].service)
    BY <1>6 DEF UpdateUnwatched
  <2> QED
    BY <2>1 DEF NotifyOne, Quiet
<1>7. ASSUME NEW x \in Series,
             \/ DiscoverExited(x) \/ UpdateNoPolicy(x) \/ EndSeries(x)
             \/ DiscoverTimerCallback(x) \/ DiscoverTimerLocked(x)
             \/ UpdateBegin(x) \/ UpdateInstances(x) \/ UpdateInbounds(x)
      PROVE  UNCHANGED <<handle, users>>
  BY <1>7 DEF DiscoverExited, UpdateNoPolicy, DiscoverTimerCallback,
              DiscoverTimerLocked, EndSeries, UpdateBegin, UpdateInstances,
              UpdateInbounds
<1>8. CASE ExitDecrement
  BY <1>8 DEF ExitDecrement
<1>9. CASE ExitFinish
  BY <1>9 DEF ExitFinish, Quiet
<1>10. CASE Terminated \/ \E s \in Services, k \in Kinds : ServerPublish(s, k)
  BY <1>1, <1>10 DEF Terminated, ServerPublish
<1> QED
  BY <1>1, <1>2, <1>3, <1>4, <1>5, <1>6, <1>7, <1>8, <1>9, <1>10, NextCases

-----------------------------------------------------------------------------
(* What a step of one series does to the answers that wait.                *)
Holding(x) == /\ x \in Live
              /\ series[x].phase = "update"
              /\ series[x].answer # None

(* The other series stay as they are.                                      *)
OthersStay(x) == \A y \in Series \ {x} : series'[y] = series[y]

LEMMA WaitingStays ==
  ASSUME NEW x \in Series, OthersStay(x), ~Holding(x), ~Holding(x)'
  PROVE  \A s \in Services : Waiting(s)' = Waiting(s)
BY DEF OthersStay, Holding, Waiting, Live

LEMMA WaitingFetched ==
  ASSUME NEW x \in Series, OthersStay(x), ~Holding(x), Holding(x)'
  PROVE  \A s \in Services :
           Waiting(s)' = IF s = series'[x].service
                         THEN Waiting(s) \cup {series'[x].answer}
                         ELSE Waiting(s)
BY DEF OthersStay, Holding, Waiting, Live

LEMMA WaitingSpent ==
  ASSUME NEW x \in Series, OthersStay(x), Holding(x), ~Holding(x)',
         NEW s, s = series[x].service, NEW d, d = series[x].answer
  PROVE  /\ d \in Waiting(s)
         /\ \A t \in Services : t # s => Waiting(t)' = Waiting(t)
         /\ Waiting(s)' \in {Waiting(s), Waiting(s) \ {d}}
<1>1. d \in Waiting(s)
  BY DEF Holding, Waiting, Live
<1>2. \A t \in Services : t # s => Waiting(t)' = Waiting(t)
  BY DEF OthersStay, Holding, Waiting, Live
<1>3. Waiting(s)' \subseteq Waiting(s)
  BY DEF OthersStay, Holding, Waiting, Live
<1>4. Waiting(s) \ {d} \subseteq Waiting(s)'
  BY DEF OthersStay, Holding, Waiting, Live
<1> QED
  BY <1>1, <1>2, <1>3, <1>4

-----------------------------------------------------------------------------
(* Steps of WatchedService, in the words of WatchManager.                  *)

WaitingFn == [s \in Services |-> Waiting(s)]

WritingFn == [s \in Services |-> WrittenNow(s)]

(* What the mapping makes of the variables of WatchedService.              *)
mapped == <<server, WaitingFn, WritingFn, name_service, unwatch_policies,
            handle # "open">>

LEMMA MappedStutter ==
  ASSUME UNCHANGED mapped
  PROVE  UNCHANGED Abstract!vars
BY DEF mapped, WaitingFn, WritingFn, Abstract!vars

(* There is one answer at most that is being written.                      *)
LEMMA OneWriting ==
  ASSUME WritersInv, NEW s \in Services
  PROVE  /\ ~BeingWritten(s) => WrittenNow(s) = None
         /\ \A x \in Series : Writing(x) /\ series[x].service = s =>
                             WrittenNow(s) = series[x].answer
<1> DEFINE P(y) == Writing(y) /\ series[y].service = s
<1> SUFFICES ASSUME NEW x \in Series, P(x)
             PROVE  WrittenNow(s) = series[x].answer
  BY DEF WrittenNow
<1>1. PICK c : c = CHOOSE y \in Series : P(y)
  OBVIOUS
<1>2. c \in Series /\ P(c)
  BY <1>1
<1>3. c = x
  BY <1>2 DEF WritersInv
<1>4. BeingWritten(s)
  BY DEF BeingWritten
<1> QED
  BY <1>1, <1>3, <1>4 DEF WrittenNow

LEMMA OneWritingNext ==
  ASSUME WritersInv', NEW s \in Services
  PROVE  /\ ~BeingWritten(s)' => WrittenNow(s)' = None
         /\ \A x \in Series : Writing(x)' /\ series'[x].service = s =>
                             WrittenNow(s)' = series'[x].answer
<1> DEFINE P(y) == Writing(y)' /\ series'[y].service = s
<1> SUFFICES ASSUME NEW x \in Series, P(x)
             PROVE  WrittenNow(s)' = series'[x].answer
  BY DEF WrittenNow
<1>1. PICK c : c = CHOOSE y \in Series : P(y)
  OBVIOUS
<1>2. c \in Series /\ P(c)
  BY <1>1
<1>3. c = x
  BY <1>2 DEF WritersInv
<1>4. BeingWritten(s)'
  BY DEF BeingWritten
<1> QED
  BY <1>1, <1>3, <1>4 DEF WrittenNow

(* A step that neither starts nor goes on with a writing.                  *)
LEMMA WritingStays ==
  ASSUME WritersInv, WritersInv', SameWriters
  PROVE  UNCHANGED WritingFn
<1> SUFFICES ASSUME NEW s \in Services
             PROVE  WrittenNow(s)' = WrittenNow(s)
  BY DEF WritingFn
<1>1. CASE \E x \in Series : Writing(x) /\ series[x].service = s
  <2>1. PICK x \in Series : Writing(x) /\ series[x].service = s
    BY <1>1
  <2>2. Writing(x)' /\ series'[x] = series[x]
    BY <2>1 DEF SameWriters, Writing, Live
  <2> QED
    BY <2>1, <2>2, OneWriting, OneWritingNext
<1>2. CASE ~\E x \in Series : Writing(x) /\ series[x].service = s
  <2>1. ~BeingWritten(s) /\ ~BeingWritten(s)'
    BY <1>2, SameBeingWritten DEF BeingWritten
  <2> QED
    BY <2>1, OneWriting, OneWritingNext
<1> QED
  BY <1>1, <1>2

(* A step that leaves the tables, the platform and the handle: it fetches  *)
(* or drops an answer, or stutters.                                        *)
LEMMA SeriesMaps ==
  ASSUME Shape, NEW x \in Series, OthersStay(x), UNCHANGED WritingFn,
         UNCHANGED <<server, name_service, unwatch_policies, handle>>,
         Holding(x)' => /\ ~Holding(x)
                        /\ x \in Live
                        /\ series'[x].service = series[x].service
                        /\ series'[x].answer = server[series[x].service],
         x \in Live => series[x].service \in Services,
         ~(Holding(x) /\ Holding(x)')
  PROVE  [Abstract!Next]_(Abstract!vars)
<1> DEFINE s == series[x].service
<1>1. CASE ~Holding(x) /\ ~Holding(x)'
  <2>1. UNCHANGED mapped
    BY <1>1, WaitingStays DEF mapped, WaitingFn
  <2> QED
    BY <2>1, MappedStutter
<1>2. CASE ~Holding(x) /\ Holding(x)'
  <2>1. s \in Services
    BY <1>2
  <2>2. series'[x].service = s /\ series'[x].answer = server[s]
    BY <1>2
  <2>3. \A t \in Services : Waiting(t)' = IF t = s THEN Waiting(t) \cup {server[s]}
                                                  ELSE Waiting(t)
    BY <1>2, <2>2, WaitingFetched
  <2>4. WaitingFn' = [WaitingFn EXCEPT ![s] = WaitingFn[s] \cup {server[s]}]
    BY <2>1, <2>3 DEF WaitingFn
  <2>5. Abstract!Fetch(s)
    BY <2>4 DEF Abstract!Fetch, WaitingFn, WritingFn
  <2> QED
    BY <2>1, <2>5 DEF Abstract!Next
<1>3. CASE Holding(x) /\ ~Holding(x)'
  <2>1. PICK t \in Services : t = s
    BY <1>3 DEF Holding
  <2>2. PICK d : d = series[x].answer
    OBVIOUS
  <2>3. /\ d \in Waiting(t)
        /\ \A v \in Services : v # t => Waiting(v)' = Waiting(v)
        /\ Waiting(t)' \in {Waiting(t), Waiting(t) \ {d}}
    BY <1>3, <2>1, <2>2, WaitingSpent
  <2>4. /\ d \in WaitingFn[t]
        /\ WaitingFn' \in {WaitingFn, [WaitingFn EXCEPT ![t] = WaitingFn[t] \ {d}]}
    BY <2>3 DEF WaitingFn
  <2>5. Abstract!Drop(t)
    BY <2>4 DEF Abstract!Drop, Abstract!Spend, WaitingFn, WritingFn
  <2> QED
    BY <2>5 DEF Abstract!Next
<1> QED
  BY <1>1, <1>2, <1>3

(* unwatch_service takes away what is shown, if the service is still there.*)
LEMMA RemoveWatchMaps ==
  ASSUME Shape, TablesInv, WritersInv, WritersInv', NEW s, RemoveWatch(s),
         handle = "open", MutexFree, UNCHANGED <<series, server, handle>>
  PROVE  [Abstract!Next]_(Abstract!vars)
<1>1. UNCHANGED WaitingFn /\ UNCHANGED WritingFn
  BY WritingStays DEF WaitingFn, Waiting, Live, SameWriters
<1>2. CASE s \in Services /\ name_service[s] # None
  <2>1. unwatch_policies[s] = None
    BY <1>2 DEF TablesInv, Published
  <2>2. WritingFn[s] = None
    BY <1>2, MutexNoWriter, OneWriting DEF WritingFn
  <2>3. Abstract!Withdraw(s)
    BY <1>1, <1>2, <2>1, <2>2
    DEF Abstract!Withdraw, RemoveWatch, WaitingFn, WritingFn
  <2> QED
    BY <1>2, <2>3 DEF Abstract!Next
<1>3. CASE s \notin Services \/ name_service[s] = None
  <2>1. UNCHANGED <<name_service, unwatch_policies>>
    BY <1>3 DEF RemoveWatch, Shape
  <2> QED
    BY <1>1, <2>1, MappedStutter DEF mapped
<1> QED
  BY <1>2, <1>3

(* What Advance leaves: a series that holds no answer, beside the others.  *)
LEMMA AdvanceHolds ==
  ASSUME Shape, NEW x \in Live,
         Advance(x, "end") \/ Advance(x, "timer") \/ Advance(x, "rearm")
           \/ Advance(x, "discover")
  PROVE  /\ OthersStay(x)
         /\ ~Holding(x)'
         /\ ~Writing(x)'
         /\ series[x].service \in Services
<1>1. series[x].service \in Services
  BY LiveType DEF SeriesWork
<1>2. /\ OthersStay(x)
      /\ series'[x].answer = None
      /\ series'[x].phase \notin Tables
  BY AdvancePhase DEF OthersStay, Tables
<1> QED
  BY <1>1, <1>2 DEF Holding, Writing

(* The writing of an answer begins: of a failed periodic request, which    *)
(* brings nothing, that changes nothing.                                   *)
LEMMA BeginMaps ==
  ASSUME Shape, CallsInv, WritersInv, WritersInv', TablesInv,
         NEW x \in Series, UpdateBegin(x)
  PROVE  [Abstract!Next]_(Abstract!vars)
<1> DEFINE ans == series[x].answer
<1>1. PICK s \in Services : s = series[x].service
  BY BeginEffect
<1>2. /\ x \in Live /\ series[x].phase = "update"
      /\ ans \in Data \cup {None}
      /\ series'[x].answer = ans /\ series'[x].service = s
      /\ Writing(x)' /\ ~Holding(x)'
      /\ OthersStay(x) /\ MutexFree
      /\ UNCHANGED <<server, handle>>
  BY <1>1, BeginEffect, LiveType
  DEF UpdateBegin, OthersStay, Holding, SeriesWork, life
<1>3. /\ \A t \in Services : WrittenNow(t) = None
      /\ WrittenNow(s)' = ans
      /\ \A t \in Services : t # s => WrittenNow(t)' = None
  <2>1. \A t \in Services : ~BeingWritten(t)
    BY <1>2, MutexNoWriter
  <2>2. \A t \in Services : t # s => ~BeingWritten(t)'
    BY <1>2, MutexNoWriter DEF BeingWritten, OthersStay, Writing, Live
  <2> QED
    BY <1>2, <2>1, <2>2, OneWriting, OneWritingNext
<1>4. /\ name_service' = [name_service EXCEPT ![s] = PolicyOf(s)]
      /\ unwatch_policies' = [unwatch_policies EXCEPT ![s] = None]
  BY <1>1 DEF UpdateBegin, TakeFromAside, TablesInv, Published, Shape
<1>5. CASE ans = None
  <2>1. series[x].user = None
    BY <1>2, <1>5 DEF CallsInv
  <2>2. name_service[s] # None
    BY <1>1, <2>1 DEF UpdateBegin, MayMakePolicy
  <2>3. UNCHANGED <<name_service, unwatch_policies>>
    BY <1>4, <2>2 DEF PolicyOf, TablesInv, Published, Shape
  <2>4. UNCHANGED WaitingFn
    BY <1>2, <1>5, WaitingStays DEF Holding, WaitingFn
  <2>5. UNCHANGED WritingFn
    BY <1>3, <1>5 DEF WritingFn
  <2> QED
    BY <1>2, <2>3, <2>4, <2>5, MappedStutter DEF mapped
<1>6. CASE ans \in Data
  <2>1. PICK d \in Data : d = ans
    BY <1>6
  <2>2. Holding(x)
    BY <1>2, <1>6, NoneAssumption DEF Holding
  <2>3. /\ d \in Waiting(s)
        /\ \A t \in Services : t # s => Waiting(t)' = Waiting(t)
        /\ Waiting(s)' \in {Waiting(s), Waiting(s) \ {d}}
    BY <1>1, <1>2, <2>1, <2>2, WaitingSpent
  <2>4. /\ d \in WaitingFn[s]
        /\ WaitingFn' \in {WaitingFn, [WaitingFn EXCEPT ![s] = WaitingFn[s] \ {d}]}
    BY <2>3 DEF WaitingFn
  <2>5. WritingFn[s] = None /\ WritingFn' = [WritingFn EXCEPT ![s] = d]
    BY <1>3, <2>1 DEF WritingFn
  <2>6. name_service' = [name_service EXCEPT
                           ![s] = IF name_service[s] # None THEN name_service[s]
                                  ELSE IF unwatch_policies[s] # None
                                       THEN unwatch_policies[s]
                                  ELSE EmptyPolicy]
    BY <1>4 DEF PolicyOf
  <2>7. Abstract!Begin(s)
    BY <1>2, <1>4, <2>4, <2>5, <2>6
    DEF Abstract!Begin, Abstract!Spend, WaitingFn, WritingFn
  <2> QED
    BY <2>7 DEF Abstract!Next
<1> QED
  BY <1>2, <1>5, <1>6

(* What the entry will remember is the answer.                             *)
LEMMA TargetIsAnswer ==
  ASSUME Shape, NEW x \in Live, series[x].answer \in Data
  PROVE  Target(x) = series[x].answer
<1>1. \A k \in Kinds : Target(x)[k] = series[x].answer[k]
  BY NoneAssumption DEF Target, Apply, Changed
<1> QED
  BY <1>1 DEF Target, Apply, Data

(* A table is written: a part of the answer, and with the outbound rules,  *)
(* which come last, all of it.                                             *)
LEMMA WriteMaps ==
  ASSUME Shape, CallsInv, WritersInv, WritersInv', TablesInv,
         NEW x \in Series, WriteStep(x)
  PROVE  [Abstract!Next]_(Abstract!vars)
<1> DEFINE ans == series[x].answer
           t   == series[x].phase
<1>1. PICK s \in Services : s = series[x].service
  BY WriteEffect
<1>2. /\ x \in Live /\ Writing(x) /\ t \in Tables
      /\ ans \in Data \cup {None}
      /\ name_service[s] \in Policies
      /\ name_service'[s] = Replacement(x, t, name_service[s])
      /\ name_service' = [name_service EXCEPT ![s] = name_service'[s]]
      /\ series'[x].service = s
      /\ OthersStay(x)
      /\ UNCHANGED <<server, handle, unwatch_policies>>
  BY <1>1, WriteEffect, LiveType DEF OthersStay, SeriesWork, Shape
<1>3. /\ ~Holding(x) /\ ~Holding(x)'
      /\ IF t = "outbounds" THEN ~Writing(x)'
                            ELSE Writing(x)' /\ series'[x].answer = ans
  <2>1. CASE UpdateOutbounds(x)
    BY <1>2, <2>1, AdvanceHolds DEF UpdateOutbounds, InPhase, Holding
  <2>2. CASE UpdateInstances(x)
    BY <1>2, <2>2, PhaseType, WriteEffect
    DEF UpdateInstances, InPhase, Holding, Writing, Tables
  <2>3. CASE UpdateInbounds(x)
    BY <1>2, <2>3, PhaseType, WriteEffect
    DEF UpdateInbounds, InPhase, Holding, Writing, Tables
  <2> QED
    BY <2>1, <2>2, <2>3 DEF WriteStep
<1>4. /\ WrittenNow(s) = ans
      /\ WrittenNow(s)' = IF t = "outbounds" THEN None ELSE ans
      /\ \A r \in Services : r # s => WrittenNow(r)' = WrittenNow(r)
  <2>1. \A y \in Series \ {x} : ~Writing(y) /\ ~Writing(y)'
    BY <1>2 DEF WritersInv, OthersStay, Writing, Live
  <2>2. \A r \in Services : r # s => ~BeingWritten(r) /\ ~BeingWritten(r)'
    BY <1>1, <1>2, <2>1 DEF BeingWritten
  <2>3. t = "outbounds" => ~BeingWritten(s)'
    BY <1>3, <2>1 DEF BeingWritten
  <2> QED
    BY <1>1, <1>2, <1>3, <2>2, <2>3, OneWriting, OneWritingNext
<1>5. UNCHANGED WaitingFn
  BY <1>2, <1>3, WaitingStays DEF WaitingFn
<1>6. CASE ans = None
  <2>1. UNCHANGED name_service
    BY <1>2, <1>6 DEF Replacement, Changed, Shape
  <2>2. UNCHANGED WritingFn
    BY <1>4, <1>6 DEF WritingFn
  <2> QED
    BY <1>2, <1>5, <2>1, <2>2, MappedStutter DEF mapped
<1>7. CASE ans \in Data
  <2> DEFINE held == name_service[s]
             new  == name_service'[s]
  <2>1. /\ new \in Policies
        /\ \A p \in Parts : \/ new[p] = held[p]
                            \/ /\ p \in DOMAIN Brings[ans]
                               /\ new[p] = Brings[ans][p]
    BY <1>2, ReplacementPart
  <2>2. new \in Abstract!Towards(ans, held)
    BY <2>1 DEF Abstract!Towards, Policies
  <2>3. name_service' \in {[name_service EXCEPT ![s] = n] :
                             n \in Abstract!Towards(ans, held)}
    BY <1>2, <2>2
  <2>4. WritingFn[s] = ans /\ ans # None
    BY <1>4, <1>7, NoneAssumption DEF WritingFn
  <2>5. CASE t # "outbounds"
    <3>1. UNCHANGED WritingFn
      BY <1>4, <2>5 DEF WritingFn
    <3>2. Abstract!Write(s)
      BY <1>2, <1>5, <2>3, <2>4, <3>1 DEF Abstract!Write, WaitingFn, WritingFn
    <3> QED
      BY <3>2 DEF Abstract!Next
  <2>6. CASE t = "outbounds"
    <3>1. WritingFn' = [WritingFn EXCEPT ![s] = None]
      BY <1>4, <2>6 DEF WritingFn
    <3>2. ASSUME NEW p \in DOMAIN Brings[ans]
          PROVE  new[p] = Brings[ans][p]
      <4>1. Target(x) = ans
        BY <1>2, <1>7, TargetIsAnswer
      <4>2. p \in Parts
        BY <1>7 DEF Brings
      <4>3. Done(t, Table[p]) \/ Table[p] = t
        BY <2>6, <4>2, PartsAssumption DEF Done, Tables
      <4> QED
        BY <1>1, <4>1, <4>3, WriteProgress
    <3>3. Abstract!Finish(s)
      BY <1>2, <1>5, <2>3, <2>4, <3>1, <3>2
      DEF Abstract!Finish, WaitingFn, WritingFn
    <3> QED
      BY <3>3 DEF Abstract!Next
  <2> QED
    BY <2>5, <2>6
<1> QED
  BY <1>2, <1>6, <1>7

-----------------------------------------------------------------------------
LEMMA InitMaps == Init => Abstract!Init
<1> SUFFICES ASSUME Init PROVE Abstract!Init
  OBVIOUS
<1>1. server \in [Services -> Data]
  BY ShapeInit DEF Shape
<1>2. WaitingFn = [s \in Services |-> {}]
  BY DEF Init, WaitingFn, Waiting, Live
<1>3. WritingFn = [s \in Services |-> None]
  BY DEF Init, WritingFn, WrittenNow, BeingWritten, Writing, Live
<1> QED
  BY <1>1, <1>2, <1>3
  DEF Init, Abstract!Init, Abstract!Nothing, WaitingFn, WritingFn

(* Steps that touch nothing of what the mapping sees.                      *)
LEMMA UserMaps ==
  ASSUME WritersInv, WritersInv',
         UNCHANGED <<series, server, name_service, unwatch_policies, handle>>
  PROVE  [Abstract!Next]_(Abstract!vars)
BY MappedStutter, WritingStays DEF mapped, WaitingFn, Waiting, Live, SameWriters

LEMMA StepMaps ==
  IInv /\ RefCount /\ Quiet /\ [Next]_vars => [Abstract!Next]_(Abstract!vars)
<1> SUFFICES ASSUME Shape, CallsInv, WritersInv, WritersInv', TablesInv,
                    RefCount, Quiet, [Next]_vars
             PROVE  [Abstract!Next]_(Abstract!vars)
  BY WritersStep DEF IInv
<1> USE DEF vars, life, tables
<1>1. CASE UNCHANGED vars
  BY <1>1, UserMaps
<1>2. ASSUME NEW u \in Users, NEW s \in Services, NEW x \in Series,
             WatchService(u, s, x)
      PROVE  [Abstract!Next]_(Abstract!vars)
  <2>1. OthersStay(x) /\ ~Holding(x)' /\ x \notin Live
    BY <1>2 DEF WatchService, OthersStay, Holding, Shape
  <2>2. UNCHANGED <<server, name_service, unwatch_policies, handle>>
    BY <1>2 DEF WatchService
  <2>3. series'[x].phase = "discover"
    BY <1>2 DEF WatchService, Shape
  <2>4. UNCHANGED WritingFn
    BY <2>1, <2>3, WritingStays DEF SameWriters, OthersStay, Writing, Tables
  <2> QED
    BY <2>1, <2>2, <2>4, SeriesMaps DEF Holding
<1>3. ASSUME NEW u \in Users,
             \/ \E s \in Services : UnwatchNotFound(u, s) \/ UnwatchWait(u, s)
             \/ WatchReturn(u) \/ SpuriousWakeup(u)
      PROVE  [Abstract!Next]_(Abstract!vars)
  BY <1>3, UserMaps DEF UnwatchNotFound, UnwatchWait, WatchReturn, SpuriousWakeup
<1>4. ASSUME NEW u \in Users, NEW s \in Services, UnwatchAtOnce(u, s)
      PROVE  [Abstract!Next]_(Abstract!vars)
  BY <1>4, RemoveWatchMaps DEF UnwatchAtOnce, MayUnwatch, MayCall
<1>5. ASSUME NEW u \in Users, UnwatchFinish(u)
      PROVE  [Abstract!Next]_(Abstract!vars)
  BY <1>5, RemoveWatchMaps DEF UnwatchFinish, Quiet
<1>6. ASSUME NEW x \in Series,
             \/ DiscoverExited(x) \/ UpdateDouble(x) \/ UpdateUnwatched(x)
             \/ UpdateNoPolicy(x) \/ DiscoverTimerCallback(x)
             \/ DiscoverTimerLocked(x)
      PROVE  [Abstract!Next]_(Abstract!vars)
  <2>1. /\ x \in Live /\ ~Writing(x)
        /\ UNCHANGED <<server, name_service, unwatch_policies, handle>>
    BY <1>6 DEF DiscoverExited, UpdateDouble, UpdateUnwatched, UpdateNoPolicy,
                DiscoverTimerCallback, DiscoverTimerLocked, AtPolicy, AtUpdate,
                InPhase, Writing, Tables
  <2>2. Advance(x, "end") \/ Advance(x, "rearm") \/ Advance(x, "discover")
    BY <1>6 DEF DiscoverExited, UpdateDouble, UpdateUnwatched, UpdateNoPolicy,
                DiscoverTimerCallback, DiscoverTimerLocked
  <2>3. UNCHANGED WritingFn
    BY <2>1, <2>2, AdvanceWriters, WritingStays
  <2> QED
    BY <2>1, <2>2, <2>3, AdvanceHolds, SeriesMaps
<1>7. ASSUME NEW x \in Series, NEW answer \in Answers(x),
             InPhase(x, "discover"), DiscoverCallback(x, answer)
      PROVE  [Abstract!Next]_(Abstract!vars)
  <2>1. /\ x \in Live
        /\ series[x].service \in Services
        /\ ~Holding(x) /\ ~Writing(x)
        /\ UNCHANGED <<server, name_service, unwatch_policies, handle>>
    BY <1>7, LiveType
    DEF DiscoverCallback, InPhase, Holding, Writing, Tables, SeriesWork
  <2>2. CASE Advance(x, "end")
    <3>1. UNCHANGED WritingFn
      BY <2>1, <2>2, AdvanceWriters, WritingStays
    <3> QED
      BY <2>1, <2>2, <3>1, AdvanceHolds, SeriesMaps
  <2>3. CASE GoUpdate(x, answer)
    <3>1. /\ OthersStay(x)
          /\ series'[x] = [series[x] EXCEPT !.phase = "update", !.answer = answer]
      BY <2>1, <2>3, GoUpdateType DEF OthersStay
    <3>2. /\ series'[x].phase = "update"
          /\ series'[x].service = series[x].service
          /\ series'[x].answer = answer
      BY <2>1, <3>1, LiveType DEF SeriesWork
    <3>3. Holding(x)' => answer = server[series[x].service]
      BY <3>2 DEF Holding, Answers
    <3>4. UNCHANGED WritingFn
      BY <2>1, <3>1, <3>2, WritingStays
      DEF SameWriters, OthersStay, Writing, Tables
    <3> QED
      BY <2>1, <3>1, <3>2, <3>3, <3>4, SeriesMaps
  <2> QED
    BY <1>7, <2>2, <2>3 DEF DiscoverCallback, DiscoverForUser, DiscoverForRefresh
<1>8. ASSUME NEW x \in Series, UpdateBegin(x) \/ WriteStep(x)
      PROVE  [Abstract!Next]_(Abstract!vars)
  BY <1>8, BeginMaps, WriteMaps
<1>9. ASSUME NEW x \in Series, EndSeries(x)
      PROVE  [Abstract!Next]_(Abstract!vars)
  <2>1. /\ x \in Live
        /\ series[x].phase = "end"
        /\ OthersStay(x)
        /\ ~Holding(x)'
        /\ ~Holding(x)
        /\ SameWriters
    BY <1>9 DEF EndSeries, InPhase, OthersStay, Holding, SameWriters, Writing,
                Tables, Live, Shape
  <2>2. UNCHANGED <<server, name_service, handle>>
    BY <1>9 DEF EndSeries
  <2>3. UNCHANGED WaitingFn /\ UNCHANGED WritingFn
    BY <2>1, WaitingStays, WritingStays DEF WaitingFn
  <2>4. CASE UNCHANGED unwatch_policies
    BY <2>2, <2>3, <2>4, MappedStutter DEF mapped
  <2>5. CASE ~(UNCHANGED unwatch_policies)
    <3>1. ref' = 0 /\ unwatch_policies' = [s \in Services |-> None] /\ ref = 1
      BY <1>9, <2>5 DEF EndSeries, DecRef, Shape
    <3>2. Cardinality(Live) > 0
      BY <2>1, LiveFinite, FS_EmptySet
    <3>3. handle # "open"
      BY <3>1, <3>2, LiveFinite DEF RefCount
    <3>4. Abstract!FreeAside
      BY <2>2, <2>3, <3>1, <3>3
      DEF Abstract!FreeAside, Abstract!Free, Abstract!Nothing, WaitingFn,
          WritingFn
    <3> QED
      BY <3>4 DEF Abstract!Next
  <2> QED
    BY <2>4, <2>5
<1>10. CASE ExitDecrement
  <2>1. UNCHANGED WaitingFn /\ UNCHANGED WritingFn
    BY <1>10, WritingStays
    DEF ExitDecrement, SameWriters, WaitingFn, Waiting, Live
  <2>2. /\ handle = "open"
        /\ handle' # "open"
        /\ UNCHANGED <<server, name_service>>
        /\ UNCHANGED unwatch_policies \/ unwatch_policies' = [s \in Services |-> None]
    BY <1>10 DEF ExitDecrement, DecRef
  <2>3. Abstract!Close
    BY <2>1, <2>2
    DEF Abstract!Close, Abstract!Free, Abstract!Nothing, WaitingFn, WritingFn
  <2> QED
    BY <2>3 DEF Abstract!Next
<1>11. CASE ExitFinish
  <2>1. UNCHANGED WaitingFn /\ UNCHANGED WritingFn
    BY <1>11, WritingStays DEF ExitFinish, SameWriters, WaitingFn, Waiting, Live
  <2>2. UNCHANGED mapped
    BY <1>11, <2>1 DEF ExitFinish, mapped
  <2> QED
    BY <2>2, MappedStutter
<1>12. ASSUME NEW s \in Services, NEW k \in Kinds, ServerPublish(s, k)
       PROVE  [Abstract!Next]_(Abstract!vars)
  <2>1. UNCHANGED WaitingFn /\ UNCHANGED WritingFn
    BY <1>12, WritingStays
    DEF ServerPublish, SameWriters, WaitingFn, Waiting, Live
  <2>2. server'[s] \in Data /\ server' = [server EXCEPT ![s] = server'[s]]
    BY <1>12, ShapeStep DEF ServerPublish, Shape
  <2>3. Abstract!Publish(s)
    BY <1>12, <2>1, <2>2
    DEF ServerPublish, Abstract!Publish, WaitingFn, WritingFn
  <2> QED
    BY <2>3 DEF Abstract!Next
<1>13. CASE Terminated
  BY <1>13, UserMaps DEF Terminated
<1> QED
  BY <1>1, <1>2, <1>3, <1>4, <1>5, <1>6, <1>7, <1>8, <1>9, <1>10, <1>11,
     <1>12, <1>13, NextCases DEF WriteStep

(* The consumer of the Manager implements WatchedService: initial states   *)
(* map to initial states, and every step of a call, a callback, a timer or *)
(* the destructor maps to one step of it or to none.                       *)
THEOREM Refinement == Spec => ImplementsWatchedService
<1>1. Init => Quiet
  BY QuietInit
<1>2. IInv /\ Quiet /\ [Next]_vars => Quiet'
  BY QuietStep DEF IInv
<1>3. IInv /\ RefCount /\ Quiet /\ [Next]_vars => [Abstract!Next]_(Abstract!vars)
  BY StepMaps
<1> QED
  BY <1>1, <1>2, <1>3, IInvInductive, RefCountCorrect, InitMaps, PTL
  DEF Spec, ImplementsWatchedService, Abstract!Spec
=============================================================================
