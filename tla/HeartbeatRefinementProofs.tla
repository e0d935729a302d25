--------------------- MODULE HeartbeatRefinementProofs ----------------------
(***************************************************************************)
(* HeartbeatManager implements RegisteredService, for any services,        *)
(* instances, registrations, users and series (finitely many) and any      *)
(* number of handler threads.                                              *)
(***************************************************************************)
EXTENDS HeartbeatManagerProofs

(* ~PolarisManager comes after the calls: nobody is in one then, and the   *)
(* status tells so only afterwards.                                        *)
Quiet == /\ handle # "open" => \A u \in Users : users[u].pc = "idle"
         /\ status = "MANAGER_EXITED" => handle # "open"

(* Nobody waits for a chain that has ended.                                *)
Awaited == \A x \in Live : series[x].user # None => series[x].phase # "end"

LEMMA QuietStep == IInv /\ Quiet /\ [Next]_vars => Quiet'
<1> SUFFICES ASSUME IInv, Quiet, [Next]_vars PROVE Quiet'
  OBVIOUS
<1> USE DEF life
<1>1. ASSUME NEW x \in Series, SeriesStep(x)
      PROVE  Quiet'
  <2>1. x \in Live /\ UNCHANGED <<status, handle>>
    BY <1>1, SeriesEffect, SeriesCases
    DEF RegisterFailed, RegisterThenHeartbeat, RegisterOnly, HeartbeatExited,
        HeartbeatDisabled, HeartbeatAnswered, UpdateDouble,
        UpdateDeregistered, UpdateBeat, HeartbeatTimerCallback,
        HeartbeatTimerLocked, EndSeries
  <2>2. ASSUME handle # "open", NEW u \in Users
        PROVE  users'[u].pc = "idle"
    <3>1. users[u].pc = "idle" /\ u # series[x].user
      BY <2>1, <2>2, NoneAssumption DEF Quiet, IInv, CallsInv
    <3>2. CASE UNCHANGED users
      BY <3>1, <3>2
    <3>3. ASSUME NEW out \in BOOLEAN, Release(x, out)
          PROVE  users'[u].pc = "idle"
      BY <2>1, <3>1, <3>3, ReleaseType DEF IInv
    <3>4. CASE NotifyOne(series[x].reg.instance)
      BY <3>1, <3>4, NotifyOneType DEF IInv
    <3> QED BY <1>1, <3>2, <3>3, <3>4, SeriesEffect
  <2> QED BY <2>1, <2>2 DEF Quiet
<1>2. ASSUME NEW u \in Users, UserCall(u)
      PROVE  Quiet'
  BY <1>2 DEF UserCall, RegisterService, DeregisterNotFound,
              DeregisterService, MayDeregister, MayCall, Quiet
<1>3. ASSUME NEW u \in Users, UserStep(u) \/ SpuriousWakeup(u)
      PROVE  Quiet'
  <2>1. users[u].pc # "idle" /\ UNCHANGED <<status, handle>>
    BY <1>3 DEF UserStep, DeregisterCallback, DeregisterAtOnce,
                DeregisterWait, DeregisterFinish, CallReturn, SpuriousWakeup
  <2> QED BY <2>1 DEF Quiet
<1>4. CASE ExitDecrement \/ ExitFinish
  BY <1>4 DEF ExitDecrement, ExitFinish, Quiet, IInv, Shape
<1>5. CASE Terminated \/ UNCHANGED vars
  BY <1>5 DEF Terminated, vars, Quiet
<1> QED BY <1>1, <1>2, <1>3, <1>4, <1>5 DEF Next, Step

LEMMA AwaitedStep == IInv /\ Awaited /\ [Next]_vars => Awaited'
<1> SUFFICES ASSUME IInv, Awaited, [Next]_vars PROVE Awaited'
  OBVIOUS
<1>1. ASSUME NEW x \in Series, SeriesStep(x)
      PROVE  Awaited'
  <2>1. x \in Live /\ \A y \in Series \ {x} : series'[y] = series[y]
    BY <1>1, SeriesEffect
  <2>2. ASSUME series'[x] # None
        PROVE  series'[x].user = None \/ series'[x].phase # "end"
    <3>1. ASSUME NEW ph \in Phases, Advance(x, ph)
          PROVE  series'[x].user = None
      BY <2>1, <3>1, AdvanceType DEF IInv
    <3>2. ASSUME NEW ph \in {"heartbeat", "beat"}, AdvanceForUser(x, ph)
          PROVE  series'[x].phase # "end"
      BY <2>1, <3>2, AdvanceForUserType DEF IInv, Phases
    <3>3. ~EndSeries(x)
      BY <2>1, <2>2 DEF EndSeries, IInv, Shape
    <3>4. \/ \E ph \in Phases : Advance(x, ph)
          \/ \E ph \in {"heartbeat", "beat"} : AdvanceForUser(x, ph)
      BY <1>1, <3>3, SeriesCases
      DEF RegisterFailed, RegisterThenHeartbeat, RegisterOnly,
          HeartbeatExited, HeartbeatDisabled, HeartbeatAnswered, UpdateDouble,
          UpdateDeregistered, UpdateBeat, HeartbeatTimerCallback,
          HeartbeatTimerLocked, Phases
    <3> QED BY <3>1, <3>2, <3>4
  <2> QED BY <2>1, <2>2 DEF Awaited, Live
<1>2. ASSUME NEW u \in Users, NEW r \in Registrations, NEW x \in Series,
             RegisterService(u, r, x)
      PROVE  Awaited'
  <2>1. series'[x].phase = "register"
    BY <1>2 DEF RegisterService, IInv, Shape
  <2>2. \A y \in Series \ {x} : series'[y] = series[y]
    BY <1>2 DEF RegisterService, IInv, Shape
  <2> QED BY <2>1, <2>2 DEF Awaited, Live
<1>3. CASE UNCHANGED series
  BY <1>3 DEF Awaited, Live
<1> QED
  BY <1>1, <1>2, <1>3, NextCases
  DEF DeregisterNotFound, DeregisterService, DeregisterAtOnce, DeregisterWait,
      DeregisterFinish, CallReturn, SpuriousWakeup, ExitDecrement, ExitFinish,
      Terminated, vars

-----------------------------------------------------------------------------
(* The calls that users are in, and the heartbeats that are kept up.       *)
ListedFn == [i \in Instances |-> Listing(i)]

CallsFn == [u \in Users |-> Call(u)]

(* What the mapping makes of the variables of RegisteredService.           *)
mapped == <<platform, ListedFn, Kept, CallsFn, error # "NONE",
            handle # "open">>

LEMMA MappedStutter ==
  ASSUME UNCHANGED mapped
  PROVE  UNCHANGED Abstract!vars
BY DEF mapped, ListedFn, CallsFn, Abstract!vars

(* The other series stay as they are.                                      *)
OthersStay(x) == \A y \in Series \ {x} : series'[y] = series[y]

(* cond.notify does not take anybody further.                              *)
SamePlace(u) ==
  /\ users'[u].reg = users[u].reg
  /\ \/ users'[u].pc = users[u].pc
     \/ users[u].pc = "blocked" /\ users'[u].pc = "notified"

LEMMA CallStays ==
  ASSUME NEW x \in Series, OthersStay(x), NEW u \in Users, SamePlace(u),
         x \in Live => series[x].user # u,
         x \in Live' => series'[x].user # u
  PROVE  Call(u)' = Call(u)
<1>1. Accepted(u)' <=> Accepted(u)
  BY DEF Accepted, OthersStay, Live
<1>2. Stage(u)' = Stage(u)
  BY <1>1 DEF Stage, SamePlace
<1> QED BY <1>2 DEF Call, SamePlace

(* The stage of a call that has a chain.                                   *)
LEMMA StageOfChain ==
  ASSUME IInv, NEW x \in Live, series[x].user # None,
         NEW u, u = series[x].user
  PROVE  /\ u \in Users
         /\ users[u].reg = series[x].reg
         /\ Stage(u) = IF series[x].phase = "register" THEN "asked"
                       ELSE "accepted"
<1>1. /\ u \in Users
      /\ users[u].pc = "register"
      /\ users[u].reg = series[x].reg
      /\ \A y \in Live : series[y].user = u <=> y = x
  BY DEF IInv, CallsInv
<1>2. Accepted(u) <=> series[x].phase # "register"
  BY <1>1 DEF Accepted
<1> QED BY <1>1, <1>2 DEF Stage

Keeps(x) == /\ x \in Live
            /\ series[x].user = None
            /\ series[x].phase \notin {"register", "end"}

LEMMA KeptStays ==
  ASSUME NEW x \in Series, OthersStay(x), Keeps(x)' <=> Keeps(x),
         Keeps(x) => series'[x].reg = series[x].reg
  PROVE  Kept' = Kept
BY DEF Kept, Keeps, OthersStay, Live

LEMMA KeptMore ==
  ASSUME NEW x \in Series, OthersStay(x), ~Keeps(x), Keeps(x)',
         series'[x].reg \in Registrations
  PROVE  Kept' = Kept \cup {series'[x].reg}
BY DEF Kept, Keeps, OthersStay, Live

LEMMA KeptLess ==
  ASSUME NEW x \in Series, OthersStay(x), Keeps(x), ~Keeps(x)',
         NEW reg, reg = series[x].reg
  PROVE  /\ Kept' \in {Kept, Kept \ {reg}}
         /\ Kept' # Kept =>
              \A y \in Series \ {x} : ~Keeps(y) \/ series[y].reg # reg
<1>1. \A other \in Registrations \ {reg} : other \in Kept' <=> other \in Kept
  BY DEF Kept, Keeps, OthersStay, Live
<1>2. reg \in Kept' => reg \in Kept
  BY DEF Kept, Keeps, OthersStay, Live
<1>3. ASSUME NEW y \in Series \ {x}, Keeps(y), series[y].reg = reg
      PROVE  Kept' = Kept
  <2>1. reg \in Registrations => reg \in Kept /\ reg \in Kept'
    BY <1>3 DEF Kept, Keeps, OthersStay, Live
  <2> QED BY <1>1, <2>1 DEF Kept
<1>4. Kept' \in {Kept, Kept \ {reg}}
  BY <1>1, <1>2 DEF Kept
<1> QED BY <1>3, <1>4

(* The entry of an instance is set, or erased.                             *)
LEMMA ListedSet ==
  ASSUME Shape, NEW i \in Instances, NEW b \in BOOLEAN, NEW c \in Registrations,
         SetHeartbeating(i, b, c)
  PROVE  ListedFn' = [ListedFn EXCEPT ![i] = c]
<1> DEFINE entry == [heartbeating |-> b, reg |-> c]
<1>1. register_status' = [register_status EXCEPT ![i] = entry]
  BY DEF SetHeartbeating
<1>2. entry # None
  BY NoneAssumption DEF RegisterInfo
<1> QED BY <1>1, <1>2 DEF ListedFn, Listing, Shape

(* A step that finds an entry leaves it whose it was.                      *)
LEMMA ListedKept ==
  ASSUME Shape, NEW i \in Registered, NEW b \in BOOLEAN,
         NEW reg, SetHeartbeating(i, b, reg), reg = register_status[i].reg
  PROVE  ListedFn' = ListedFn
<1>1. i \in Instances /\ register_status[i].reg \in Registrations
  BY EntryType DEF Registered
<1>2. ListedFn' = [ListedFn EXCEPT ![i] = register_status[i].reg]
  BY <1>1, ListedSet
<1>3. ListedFn[i] = register_status[i].reg
  BY <1>1 DEF ListedFn, Listing, Registered
<1> QED BY <1>2, <1>3 DEF ListedFn

LEMMA ListedErased ==
  ASSUME Shape, NEW i,
         register_status' = [register_status EXCEPT ![i] = None]
  PROVE  ListedFn' = [ListedFn EXCEPT ![i] = None]
BY DEF ListedFn, Listing, Shape

LEMMA ListedSame ==
  ASSUME UNCHANGED register_status
  PROVE  ListedFn' = ListedFn
BY DEF ListedFn, Listing

-----------------------------------------------------------------------------
(* What a step of a chain does to the calls.                               *)
LEMMA CallsSame ==
  ASSUME NEW x \in Series, OthersStay(x), \A u \in Users : SamePlace(u),
         x \in Live => series[x].user = None,
         x \in Live' => series'[x].user = None
  PROVE  CallsFn' = CallsFn
<1>1. \A u \in Users : Call(u)' = Call(u)
  BY CallStays, NoneAssumption
<1> QED BY <1>1 DEF CallsFn

LEMMA CallReleased ==
  ASSUME IInv, Awaited, NEW x \in Live, NEW out \in BOOLEAN,
         Release(x, out), NEW ph \in Phases, Advance(x, ph),
         NEW u, u = series[x].user, u # None
  PROVE  /\ u \in Users
         /\ CallsFn' = [CallsFn EXCEPT ![u].stage = "answered"]
<1>1. u \in Users /\ users[u].reg = series[x].reg
  BY StageOfChain
<1>2. /\ users'[u].pc = "released"
      /\ users'[u].reg = users[u].reg
      /\ \A v \in Users \ {u} : users'[v] = users[v]
  BY <1>1, ReleaseType DEF IInv
<1>3. x \in Series /\ OthersStay(x) /\ series'[x].user = None
  BY AdvanceType DEF IInv, OthersStay, Live
<1>4. \A v \in Users \ {u} : Call(v)' = Call(v)
  BY <1>2, <1>3, CallStays, NoneAssumption DEF SamePlace
<1>5. Call(u)' = [Call(u) EXCEPT !.stage = "answered"]
  BY <1>1, <1>2 DEF Call, Stage
<1> QED BY <1>1, <1>4, <1>5 DEF CallsFn

(* A chain without a user releases nobody.                                 *)
LEMMA ReleasedNobody ==
  ASSUME IInv, NEW x \in Live, NEW out \in BOOLEAN, Release(x, out),
         series[x].user = None
  PROVE  \A u \in Users : SamePlace(u)
BY ReleaseType, NoneAssumption DEF IInv, SamePlace

(* The chain of a call goes on.                                            *)
LEMMA CallGoesOn ==
  ASSUME IInv, Awaited, NEW x \in Live, NEW ph \in {"heartbeat", "beat"},
         AdvanceForUser(x, ph), UNCHANGED users
  PROVE  /\ OthersStay(x)
         /\ series'[x].reg = series[x].reg
         /\ series'[x].user = series[x].user
         /\ series'[x].phase = ph
         /\ x \in Live'
         /\ series[x].phase # "register" => CallsFn' = CallsFn
         /\ series[x].phase = "register" =>
              CallsFn' = [CallsFn EXCEPT ![series[x].user].stage = "accepted"]
<1>0. PICK u : u = series[x].user
  OBVIOUS
<1>1. /\ x \in Series
      /\ series[x] \in SeriesWork /\ series \in [Series -> SeriesWork \cup {None}]
  BY LiveType DEF IInv, Shape, Live
<1>2. series'[x] = [series[x] EXCEPT !.phase = ph] /\ OthersStay(x)
  BY <1>0, <1>1 DEF AdvanceForUser, OthersStay
<1>3. /\ series'[x].reg = series[x].reg
      /\ series'[x].user = u
      /\ series'[x].phase = ph
      /\ x \in Live'
  BY <1>0, <1>1, <1>2, NoneAssumption DEF SeriesWork, Live
<1>4. \A v \in Users : v # u => Call(v)' = Call(v)
  BY <1>0, <1>1, <1>2, <1>3, CallStays DEF SamePlace
<1>5. CASE u = None
  BY <1>0, <1>1, <1>2, <1>3, <1>4, <1>5, NoneAssumption DEF CallsFn, IInv, CallsInv
<1>6. CASE u # None
  <2>1. /\ u \in Users
        /\ users[u].pc = "register"
        /\ \A y \in Live : series[y].user = u <=> y = x
    BY <1>0, <1>6 DEF IInv, CallsInv
  <2>2. \A y \in Live' : series'[y].user = u <=> y = x
    BY <1>0, <1>2, <1>3, <2>1 DEF OthersStay, Live
  <2>3. Accepted(u)'
    BY <1>0, <1>3, <2>2 DEF Accepted
  <2>5. Stage(u)' = "accepted"
    BY <1>0, <2>1, <2>3 DEF Stage
  <2>6. Call(u)' = [Call(u) EXCEPT !.stage = "accepted"]
    BY <1>0, <2>5 DEF Call
  <2>7. series[x].phase # "register" => Stage(u) = "accepted"
    BY <1>0, <1>6, StageOfChain
  <2>8. series[x].phase # "register" => Call(u)' = Call(u)
    BY <1>0, <2>5, <2>7 DEF Call
  <2> QED BY <1>0, <1>2, <1>3, <1>4, <2>1, <2>6, <2>8 DEF CallsFn
<1> QED BY <1>0, <1>5, <1>6

-----------------------------------------------------------------------------
(* Steps of a chain that no user waits for: they show nothing, or end its  *)
(* heartbeats.                                                             *)
MayStop(i) == \/ register_status[i] = None
              \/ ~Beats(register_status[i].reg)
              \/ \E u \in Users : Detained(u, i)
              \/ handle # "open"

LEMMA StopMaps ==
  ASSUME Shape, NEW x \in Live, OthersStay(x),
         \A u \in Users : SamePlace(u),
         UNCHANGED <<platform, register_status, error, handle>>,
         series[x].user = None,
         x \in Live' => series'[x].user = None /\ series'[x].phase = "end",
         NEW reg, reg = series[x].reg, NEW i, i = reg.instance,
         \/ ~Keeps(x)
         \/ MayStop(i)
         \/ \E y \in Series \ {x} : Keeps(y) /\ series[y].reg.instance = i
  PROVE  [Abstract!Next]_(Abstract!vars)
<1>1. x \in Series /\ reg \in Registrations /\ i \in Instances
  BY LiveType DEF Live
<1>2. CallsFn' = CallsFn /\ ListedFn' = ListedFn /\ ~Keeps(x)'
  BY <1>1, CallsSame, ListedSame DEF Keeps
<1>3. CASE Kept' = Kept
  BY <1>2, <1>3, MappedStutter DEF mapped
<1>4. CASE Kept' # Kept
  <2>1. /\ Keeps(x)
        /\ Kept' = Kept \ {reg}
        /\ \A y \in Series \ {x} : ~Keeps(y) \/ series[y].reg # reg
    <3>1. CASE ~Keeps(x)
      <4>1. Keeps(x)' <=> Keeps(x)
        BY <1>2, <3>1
      <4> QED BY <1>1, <1>4, <3>1, <4>1, KeptStays
    <3>2. CASE Keeps(x)
      BY <1>1, <1>2, <1>4, <3>2, KeptLess
    <3> QED BY <3>1, <3>2
  <2>2. ASSUME NEW y \in Series \ {x}, Keeps(y), series[y].reg.instance = i
        PROVE  \E other \in Kept \ {reg} : other.instance = i
    <3>1. series[y].reg \in Registrations
      BY <2>2, LiveType DEF Keeps
    <3>2. series[y].reg \in Kept \ {reg}
      BY <2>1, <2>2, <3>1 DEF Kept, Keeps
    <3> QED BY <2>2, <3>2
  <2>3. ASSUME MayStop(i)
        PROVE  ~Abstract!CountedOn(i)
    <3>1. ASSUME NEW u \in Users, Detained(u, i)
          PROVE  Abstract!Leaving(i)
      <4>1. CallsFn[u].stage = "told" /\ CallsFn[u].reg.instance = i
        BY <3>1 DEF Detained, CallsFn, Call, Stage
      <4> QED
        BY <4>1 DEF Abstract!Leaving, Abstract!At, Abstract!Of, CallsFn
    <3>2. ListedFn[i] = IF register_status[i] = None THEN None
                        ELSE register_status[i].reg
      BY <1>1 DEF ListedFn, Listing
    <3> QED
      BY <2>3, <3>1, <3>2
      DEF MayStop, Abstract!CountedOn, Abstract!Beating, Beats, ListedFn
  <2>4. Abstract!Stop(reg)
    BY <1>2, <2>1, <2>2, <2>3 DEF Abstract!Stop, ListedFn, CallsFn
  <2> QED BY <1>1, <2>4 DEF Abstract!Next
<1> QED BY <1>3, <1>4

LEMMA TimerMaps ==
  ASSUME Shape, NEW x \in Live, NEW ph \in {"rearm", "heartbeat", "timer"},
         Advance(x, ph), series[x].phase \notin {"register", "end"},
         series[x].user = None, \A u \in Users : SamePlace(u),
         UNCHANGED <<platform, error, handle>>
  PROVE  Kept' = Kept /\ CallsFn' = CallsFn
<1>1. x \in Series /\ ph \in Phases
  BY DEF Live, Phases
<1>2. /\ OthersStay(x)
      /\ x \in Live' /\ series'[x].user = None /\ series'[x].phase = ph
      /\ series'[x].reg = series[x].reg
  BY <1>1, AdvanceType, NoneAssumption DEF OthersStay, Live
<1>3. Keeps(x) /\ Keeps(x)'
  BY <1>2 DEF Keeps
<1> QED BY <1>1, <1>2, <1>3, KeptStays, CallsSame

-----------------------------------------------------------------------------
(* The steps of a chain.                                                   *)
LEMMA RegisterMaps ==
  ASSUME IInv, Awaited, NEW x \in Series, RegisterCallback(x)
  PROVE  [Abstract!Next]_(Abstract!vars)
<1> USE DEF life
<1>1. /\ x \in Live
      /\ series[x].phase = "register"
      /\ series[x].user # None
      /\ series[x].reg \in Registrations
      /\ series[x].reg.instance \in Instances
  BY LiveType DEF RegisterCallback, RegisterFailed, RegisterThenHeartbeat,
                  RegisterOnly, InPhase, IInv, CallsInv
<1>2. PICK u, reg : u = series[x].user /\ reg = series[x].reg
  OBVIOUS
<1>3. /\ u \in Users
      /\ CallsFn[u].reg = reg
      /\ CallsFn[u].stage = "asked"
      /\ Identity(reg) = Abstract!Entry(reg)
      /\ Beats(reg) <=> Abstract!Beating(reg)
  BY <1>1, <1>2, StageOfChain
  DEF CallsFn, Call, Identity, Abstract!Entry, Beats, Abstract!Beating
<1>4. ASSUME \/ Advance(x, "end")
             \/ AdvanceForUser(x, "heartbeat") /\ UNCHANGED users
      PROVE  Kept' = Kept
  <2>1. CASE Advance(x, "end")
    <3>1. OthersStay(x) /\ series'[x].phase = "end"
      BY <1>1, <2>1, AdvanceType DEF IInv, OthersStay, Phases
    <3>2. Keeps(x)' <=> Keeps(x)
      BY <1>1, <3>1 DEF Keeps
    <3> QED BY <1>1, <3>1, <3>2, KeptStays DEF Keeps
  <2>2. CASE AdvanceForUser(x, "heartbeat") /\ UNCHANGED users
    <3>1. OthersStay(x) /\ series'[x].user # None
      BY <1>1, <2>2, CallGoesOn
    <3>2. Keeps(x)' <=> Keeps(x)
      BY <1>1, <3>1 DEF Keeps
    <3> QED BY <1>1, <3>1, <3>2, KeptStays DEF Keeps
  <2> QED BY <1>4, <2>1, <2>2
<1>5. ASSUME NEW out \in BOOLEAN, Release(x, out), Advance(x, "end")
      PROVE  CallsFn' = [CallsFn EXCEPT ![u].stage = "answered"]
  BY <1>1, <1>2, <1>5, CallReleased DEF Phases
<1>6. CASE RegisterFailed(x)
  <2>1. ListedFn' = ListedFn /\ Kept' = Kept /\ error' # "NONE"
    BY <1>4, <1>6, ListedSame DEF RegisterFailed, Fail
  <2>2. CallsFn' = [CallsFn EXCEPT ![u].stage = "answered"]
    BY <1>5, <1>6 DEF RegisterFailed
  <2>3. Abstract!Refuse(u)
    BY <1>2, <1>3, <1>6, <2>1, <2>2
    DEF RegisterFailed, Abstract!Refuse, Abstract!Fail, Abstract!Move,
        Abstract!At, Abstract!Of, CallsFn, ListedFn
  <2> QED BY <1>3, <2>3 DEF Abstract!Next, Abstract!Proceed
<1>7. CASE RegisterThenHeartbeat(x)
  <2>1. ListedFn' = ListedFn /\ Kept' = Kept
    BY <1>4, <1>7, ListedSame DEF RegisterThenHeartbeat
  <2>2. CallsFn' = [CallsFn EXCEPT ![u].stage = "accepted"]
    BY <1>1, <1>2, <1>7, CallGoesOn DEF RegisterThenHeartbeat
  <2>3. Abstract!Accept(u)
    BY <1>2, <1>3, <1>7, <2>1, <2>2
    DEF RegisterThenHeartbeat, Abstract!Accept, Abstract!Move, Abstract!At,
        Abstract!Of, CallsFn, ListedFn
  <2> QED BY <1>3, <2>3 DEF Abstract!Next, Abstract!Proceed
<1>8. CASE RegisterOnly(x)
  <2>1. ListedFn' = [ListedFn EXCEPT ![reg.instance] = reg]
    BY <1>1, <1>2, <1>8, ListedSet DEF RegisterOnly, IInv
  <2>2. /\ Kept' = Kept
        /\ CallsFn' = [CallsFn EXCEPT ![u].stage = "answered"]
    BY <1>4, <1>5, <1>8 DEF RegisterOnly
  <2>3. Abstract!AcceptPlain(u)
    BY <1>2, <1>3, <1>8, <2>1, <2>2
    DEF RegisterOnly, Abstract!AcceptPlain, Abstract!Move, Abstract!At,
        Abstract!Of, CallsFn, ListedFn
  <2> QED BY <1>3, <2>3 DEF Abstract!Next, Abstract!Proceed
<1> QED BY <1>6, <1>7, <1>8 DEF RegisterCallback

(* The call fails after the platform has accepted it.                      *)
LEMMA TurnMaps ==
  ASSUME IInv, Awaited, NEW x \in Live, NEW out \in BOOLEAN,
         Release(x, out), Advance(x, "end"), series[x].user # None,
         series[x].phase # "register", error' # "NONE",
         UNCHANGED <<platform, register_status, handle>>
  PROVE  [Abstract!Next]_(Abstract!vars)
<1>1. PICK u : u = series[x].user
  OBVIOUS
<1>2. u \in Users /\ CallsFn[u].stage = "accepted"
  BY <1>1, StageOfChain DEF CallsFn, Call
<1>3. CallsFn' = [CallsFn EXCEPT ![u].stage = "answered"]
  BY <1>1, CallReleased DEF Phases
<1>4. x \in Series /\ OthersStay(x) /\ series'[x].phase = "end"
  BY AdvanceType DEF IInv, OthersStay, Phases, Live
<1>5. Keeps(x)' <=> Keeps(x)
  BY <1>4 DEF Keeps
<1>6. Kept' = Kept /\ ListedFn' = ListedFn
  BY <1>4, <1>5, KeptStays, ListedSame DEF Keeps
<1>7. Abstract!Turn(u)
  BY <1>2, <1>3, <1>6
  DEF Abstract!Turn, Abstract!Fail, Abstract!Move, Abstract!At, CallsFn,
      ListedFn
<1> QED BY <1>2, <1>7 DEF Abstract!Next, Abstract!Proceed

LEMMA HeartbeatMaps ==
  ASSUME IInv, Quiet, Awaited, NEW x \in Series, HeartbeatCallback(x)
  PROVE  [Abstract!Next]_(Abstract!vars)
<1> USE DEF life
<1>1. x \in Live /\ series[x].phase = "heartbeat"
  BY DEF HeartbeatCallback, HeartbeatExited, HeartbeatDisabled,
         HeartbeatAnswered, InPhase
<1>2. CASE HeartbeatExited(x)
  <2>1. handle # "open" /\ series[x].user = None
    BY <1>1, <1>2 DEF HeartbeatExited, Quiet, IInv, CallsInv
  <2>2. /\ OthersStay(x)
        /\ series'[x].user = None /\ series'[x].phase = "end"
        /\ \A u \in Users : SamePlace(u)
    BY <1>1, <1>2, AdvanceType
    DEF HeartbeatExited, IInv, OthersStay, Phases, SamePlace
  <2> QED
    BY <1>1, <1>2, <2>1, <2>2, StopMaps DEF HeartbeatExited, IInv, MayStop
<1>3. CASE HeartbeatDisabled(x)
  BY <1>1, <1>3, TurnMaps DEF HeartbeatDisabled, Fail
<1>4. CASE HeartbeatAnswered(x)
  <2>1. /\ OthersStay(x)
        /\ x \in Live' /\ series'[x].user = series[x].user
        /\ series'[x].phase = "beat"
        /\ series'[x].reg = series[x].reg
        /\ CallsFn' = CallsFn
    BY <1>1, <1>4, CallGoesOn DEF HeartbeatAnswered
  <2>2. Keeps(x)' <=> Keeps(x)
    BY <1>1, <2>1 DEF Keeps
  <2>3. Kept' = Kept /\ ListedFn' = ListedFn
    BY <1>4, <2>1, <2>2, KeptStays, ListedSame DEF HeartbeatAnswered
  <2> QED BY <1>4, <2>1, <2>3, MappedStutter DEF HeartbeatAnswered, mapped
<1> QED BY <1>2, <1>3, <1>4 DEF HeartbeatCallback

(* A chain that finds `heartbeating' false ends; if the entry is one with  *)
(* heartbeats and nobody waits, they are those of another chain.           *)
LEMMA UpdateMaps ==
  ASSUME IInv, Quiet, Awaited, RegisteredIsBeating,
         NEW x \in Series, UpdateHeartbeatLocked(x)
  PROVE  [Abstract!Next]_(Abstract!vars)
<1> USE DEF life
<1>1. /\ x \in Live /\ series[x].phase = "beat"
      /\ series[x].reg \in Registrations
      /\ series[x].reg.instance \in Instances
  BY LiveType DEF UpdateHeartbeatLocked, UpdateDouble, UpdateDeregistered,
                  UpdateBeat, AtUpdate, InPhase, IInv
<1>2. PICK reg \in Registrations, i \in Instances :
        reg = series[x].reg /\ i = reg.instance
  BY <1>1
<1>3. CASE UpdateDouble(x)
  BY <1>1, <1>3, TurnMaps DEF UpdateDouble, Fail
<1>4. CASE UpdateDeregistered(x)
  <2>1. /\ OthersStay(x)
        /\ series'[x].user = None /\ series'[x].phase = "end"
    BY <1>1, <1>4, AdvanceType DEF UpdateDeregistered, IInv, OthersStay, Phases
  <2>2. \A u \in Users : SamePlace(u)
    BY <1>4, NotifyOneType DEF UpdateDeregistered, IInv, SamePlace
  <2>3. \/ MayStop(i)
        \/ \E y \in Series \ {x} : Keeps(y) /\ series[y].reg.instance = i
    <3>1. ASSUME ~MayStop(i)
          PROVE  CountedOn(i)
      BY <3>1 DEF MayStop, CountedOn, Registered, Quiet, Detained,
                  Deregistering, Blocked
    <3>2. ASSUME ~MayStop(i)
          PROVE  \E y \in Live : /\ series[y].reg.instance = i
                                 /\ series[y].user = None
                                 /\ series[y].phase \in {"timer", "rearm"}
      BY <1>2, <1>4, <3>1, <3>2
      DEF RegisteredIsBeating, Serving, UpdateDeregistered
    <3> QED BY <1>1, <3>2 DEF Keeps, Live
  <2> QED
    BY <1>1, <1>2, <1>4, <2>1, <2>2, <2>3, StopMaps
    DEF UpdateDeregistered, IInv
<1>5. CASE UpdateBeat(x) /\ series[x].user = None
  <2>1. \A u \in Users : SamePlace(u)
    BY <1>1, <1>5, ReleasedNobody DEF UpdateBeat
  <2>2. Kept' = Kept /\ CallsFn' = CallsFn
    BY <1>1, <1>5, <2>1, TimerMaps DEF UpdateBeat, IInv
  <2>3. CASE i \in Registered
    <3>1. Owner(i, reg) = register_status[i].reg
      BY <2>3 DEF Owner
    <3>2. ListedFn' = ListedFn
      BY <1>2, <1>5, <2>3, <3>1, ListedKept DEF UpdateBeat, IInv
    <3> QED BY <1>5, <2>2, <3>2, MappedStutter DEF UpdateBeat, mapped
  <2>4. CASE i \notin Registered
    <3>1. ListedFn' = [ListedFn EXCEPT ![i] = reg]
      BY <1>2, <1>5, <2>4, ListedSet DEF UpdateBeat, Owner, IInv
    <3>2. ListedFn[i] = None /\ reg \in Kept
      BY <1>1, <1>2, <1>5, <2>4 DEF ListedFn, Listing, Registered, Kept
    <3>3. Abstract!Relist(reg)
      BY <1>2, <1>5, <2>2, <3>1, <3>2
      DEF UpdateBeat, Abstract!Relist, ListedFn, CallsFn
    <3> QED BY <3>3 DEF Abstract!Next
  <2> QED BY <2>3, <2>4
<1>6. CASE UpdateBeat(x) /\ series[x].user # None
  <2>1. PICK u : u = series[x].user
    OBVIOUS
  <2>2. /\ u \in Users /\ CallsFn[u].reg = reg
        /\ CallsFn[u].stage = "accepted"
    BY <1>1, <1>2, <1>6, <2>1, StageOfChain DEF CallsFn, Call
  <2>3. CallsFn' = [CallsFn EXCEPT ![u].stage = "answered"]
    BY <1>1, <1>6, <2>1, CallReleased DEF UpdateBeat, Phases
  <2>4. i \notin Registered /\ ListedFn[i] = None
    BY <1>2, <1>6 DEF UpdateBeat, ListedFn, Listing, Registered
  <2>5. ListedFn' = [ListedFn EXCEPT ![i] = reg]
    BY <1>2, <1>6, <2>4, ListedSet DEF UpdateBeat, Owner, IInv
  <2>6. /\ OthersStay(x)
        /\ x \in Live' /\ series'[x].user = None
        /\ series'[x].phase = "timer" /\ series'[x].reg = reg
    BY <1>1, <1>2, <1>6, AdvanceType, NoneAssumption
    DEF UpdateBeat, IInv, OthersStay, Phases, Live
  <2>7. Kept' = Kept \cup {reg}
    BY <1>2, <1>6, <2>6, KeptMore DEF Keeps
  <2>8. Abstract!List(u)
    BY <1>2, <1>6, <2>2, <2>3, <2>4, <2>5, <2>7
    DEF UpdateBeat, Abstract!List, Abstract!Move, Abstract!At, Abstract!Of,
        ListedFn, CallsFn
  <2> QED BY <2>2, <2>8 DEF Abstract!Next, Abstract!Proceed
<1> QED BY <1>3, <1>4, <1>5, <1>6 DEF UpdateHeartbeatLocked

LEMMA TimersMap ==
  ASSUME IInv, Quiet, Awaited, NEW x \in Series,
         HeartbeatTimerCallback(x) \/ HeartbeatTimerLocked(x) \/ EndSeries(x)
  PROVE  [Abstract!Next]_(Abstract!vars)
<1> USE DEF life
<1>1. /\ x \in Live
      /\ series[x].phase \in {"timer", "rearm", "end"}
      /\ series[x].reg.instance \in Instances
  BY LiveType DEF HeartbeatTimerCallback, HeartbeatTimerLocked, EndSeries,
                  InPhase, IInv
<1>2. \A u \in Users : SamePlace(u)
  BY DEF HeartbeatTimerCallback, HeartbeatTimerLocked, EndSeries, SamePlace
<1>3. PICK i \in Instances : i = series[x].reg.instance
  BY <1>1
<1>4. series[x].phase \in {"timer", "rearm"} => series[x].user = None
  BY <1>1 DEF IInv, CallsInv
<1>5. ASSUME Advance(x, "end"), series[x].user = None, MayStop(i),
             UNCHANGED <<platform, register_status, error, handle>>
      PROVE  [Abstract!Next]_(Abstract!vars)
  <2>1. /\ OthersStay(x)
        /\ series'[x].user = None /\ series'[x].phase = "end"
    BY <1>1, <1>5, AdvanceType DEF IInv, OthersStay, Phases
  <2> QED BY <1>1, <1>2, <1>3, <1>5, <2>1, StopMaps DEF IInv
<1>6. CASE HeartbeatTimerCallback(x)
  <2>1. series[x].user = None
    BY <1>4, <1>6 DEF HeartbeatTimerCallback, InPhase
  <2>2. CASE status = "MANAGER_EXITED"
    BY <1>5, <1>6, <2>1, <2>2 DEF HeartbeatTimerCallback, Quiet, MayStop
  <2>3. CASE status # "MANAGER_EXITED"
    <3>1. Advance(x, "rearm") /\ series[x].phase = "timer"
      BY <1>6, <2>3 DEF HeartbeatTimerCallback, InPhase
    <3>2. Kept' = Kept /\ CallsFn' = CallsFn
      BY <1>1, <1>2, <1>6, <2>1, <3>1, TimerMaps
      DEF HeartbeatTimerCallback, IInv
    <3> QED
      BY <1>6, <3>2, ListedSame, MappedStutter
      DEF HeartbeatTimerCallback, mapped
  <2> QED BY <2>2, <2>3
<1>7. CASE HeartbeatTimerLocked(x)
  <2>1. series[x].user = None /\ series[x].phase = "rearm"
    BY <1>4, <1>7 DEF HeartbeatTimerLocked, InPhase
  <2>2. CASE i \notin Registered
    BY <1>3, <1>5, <1>7, <2>1, <2>2
    DEF HeartbeatTimerLocked, Registered, MayStop
  <2>3. CASE i \in Registered
    <3>1. /\ Advance(x, "heartbeat")
          /\ SetHeartbeating(i, TRUE, register_status[i].reg)
      BY <1>3, <1>7, <2>3 DEF HeartbeatTimerLocked, Owner
    <3>2. Kept' = Kept /\ CallsFn' = CallsFn
      BY <1>1, <1>2, <1>7, <2>1, <3>1, TimerMaps
      DEF HeartbeatTimerLocked, IInv
    <3>3. ListedFn' = ListedFn
      BY <2>3, <3>1, ListedKept DEF IInv
    <3> QED
      BY <1>7, <3>2, <3>3, MappedStutter DEF HeartbeatTimerLocked, mapped
  <2> QED BY <2>2, <2>3
<1>8. CASE EndSeries(x)
  <2>1. OthersStay(x) /\ x \notin Live' /\ series[x].phase = "end"
    BY <1>8 DEF EndSeries, InPhase, OthersStay, Live, IInv, Shape
  <2>2. Kept' = Kept
    BY <2>1, KeptStays DEF Keeps
  <2>3. CallsFn' = CallsFn
    BY <1>1, <1>2, <1>8, <2>1, CallsSame DEF Awaited
  <2> QED
    BY <1>8, <2>2, <2>3, ListedSame, MappedStutter DEF EndSeries, mapped
<1> QED BY <1>6, <1>7, <1>8

-----------------------------------------------------------------------------
(* The steps of a user's thread, which has no chain.                       *)
LEMMA ThreadMoves ==
  ASSUME IInv, NEW u \in Users, users[u].pc # "register",
         UNCHANGED series, \A v \in Users \ {u} : users'[v] = users[v]
  PROVE  /\ Kept' = Kept
         /\ CallsFn' = [CallsFn EXCEPT ![u] = Call(u)']
<1>1. \A v \in Users \ {u} : Call(v)' = Call(v)
  <2>1. \A v : Accepted(v)' <=> Accepted(v)
    BY DEF Accepted, Live
  <2> QED BY <2>1 DEF Call, Stage
<1> QED BY <1>1 DEF CallsFn, Kept, Live

LEMMA RegisterServiceMaps ==
  ASSUME IInv, NEW u \in Users, NEW r \in Registrations, NEW x \in Series,
         RegisterService(u, r, x)
  PROVE  [Abstract!Next]_(Abstract!vars)
<1> USE DEF life
<1>1. /\ users[u].pc = "idle" /\ handle = "open" /\ x \notin Live
      /\ \A y \in Live : series[y].user # u
  BY NoneAssumption
  DEF RegisterService, MayCall, IInv, CallsInv
<1>2. /\ OthersStay(x)
      /\ x \in Live'
      /\ series'[x].phase = "register" /\ series'[x].user = u
      /\ \A v \in Users \ {u} : users'[v] = users[v]
      /\ users'[u].pc = "register" /\ users'[u].reg = r
  <2>1. series'[x] = [reg |-> r, phase |-> "register", user |-> u]
    BY DEF RegisterService, IInv, Shape
  <2>2. series'[x] # None
    BY <2>1, NoneAssumption DEF SeriesWork
  <2> QED
    BY <2>1, <2>2
    DEF RegisterService, IInv, Shape, OthersStay, Live
<1>3. \A v \in Users \ {u} : Call(v)' = Call(v)
  BY <1>1, <1>2, CallStays DEF SamePlace
<1>4. ~Accepted(u)'
  BY <1>1, <1>2 DEF Accepted, OthersStay, Live
<1>5. Call(u)' = [stage |-> "asked", reg |-> r]
  BY <1>2, <1>4 DEF Call, Stage
<1>6. CallsFn' = [CallsFn EXCEPT ![u] = [stage |-> "asked", reg |-> r]]
  BY <1>3, <1>5 DEF CallsFn
<1>7. Keeps(x)' <=> Keeps(x)
  BY <1>1, <1>2 DEF Keeps
<1>8. Kept' = Kept /\ ListedFn' = ListedFn
  BY <1>1, <1>2, <1>7, KeptStays, ListedSame DEF RegisterService, Keeps
<1>9. Abstract!MayCall(u)
  BY <1>1 DEF Abstract!MayCall, Abstract!At, Call, Stage
<1>10. Abstract!Register(u, r)
  BY <1>6, <1>8
  DEF RegisterService, Abstract!Register, CallsFn, ListedFn
<1> QED
  BY <1>9, <1>10 DEF Abstract!Next, Abstract!Begin

LEMMA DeregisterServiceMaps ==
  ASSUME IInv, NEW u \in Users, NEW i \in Instances,
         \/ DeregisterNotFound(u, i)
         \/ \E s \in Services : DeregisterService(u, s, i)
  PROVE  [Abstract!Next]_(Abstract!vars)
<1> USE DEF life
<1>1. /\ users[u].pc = "idle" /\ handle = "open" /\ UNCHANGED series
      /\ Deregistering(i) = {}
  BY DEF DeregisterNotFound, DeregisterService, MayDeregister, MayCall
<1>2. Abstract!MayCall(u)
  BY <1>1 DEF Abstract!MayCall, Abstract!At, Call, Stage
<1>3. ListedFn' = ListedFn
  BY ListedSame DEF DeregisterNotFound, DeregisterService
<1>4. ListedFn[i] = None <=> i \notin Registered
  BY EntryType, RegistrationsAssumption, NoneAssumption
  DEF IInv, ListedFn, Listing, Registered
<1>5. CASE DeregisterNotFound(u, i)
  <2>1. Kept' = Kept /\ CallsFn' = CallsFn
    BY <1>1, <1>5
    DEF DeregisterNotFound, Kept, CallsFn, Call, Stage, Accepted, Live
  <2>2. Abstract!Miss(u, i)
    BY <1>3, <1>4, <1>5, <2>1
    DEF DeregisterNotFound, Fail, Abstract!Miss, ListedFn, CallsFn
  <2> QED BY <1>2, <2>2 DEF Abstract!Next, Abstract!Begin
<1>6. ASSUME NEW s \in Services, DeregisterService(u, s, i)
      PROVE  [Abstract!Next]_(Abstract!vars)
  <2>0. PICK gone : gone = [service |-> s, instance |-> i, interval |-> 0]
    OBVIOUS
  <2>1. /\ users'[u].pc = "deregister" /\ users'[u].reg = gone
        /\ \A v \in Users \ {u} : users'[v] = users[v]
    BY <1>6, <2>0 DEF DeregisterService, IInv, Shape
  <2>2. Call(u)' = [stage |-> "leaving", reg |-> gone]
    BY <2>1 DEF Call, Stage
  <2>3. /\ Kept' = Kept
        /\ CallsFn' = [CallsFn EXCEPT ![u] = [stage |-> "leaving",
                                              reg |-> gone]]
    BY <1>1, <2>1, <2>2, ThreadMoves
  <2>4. ASSUME NEW v \in Users, CallsFn[v].reg.instance = i
        PROVE  CallsFn[v].stage \notin {"leaving", "told"}
    <3>1. users[v].reg.instance = i /\ users[v].pc \in
            {"idle", "register", "deregister", "blocked", "notified",
             "released"}
      BY <2>4 DEF CallsFn, Call, IInv, Shape, User
    <3>2. users[v].pc \notin {"deregister", "blocked", "notified"}
      BY <1>1, <3>1 DEF Deregistering
    <3> QED BY <3>1, <3>2 DEF CallsFn, Call, Stage
  <2>5. Abstract!Deregister(u, s, i)
    BY <1>3, <1>4, <1>6, <2>0, <2>3, <2>4
    DEF DeregisterService, Abstract!Deregister, Abstract!Of, Abstract!At,
        ListedFn, CallsFn
  <2> QED BY <1>2, <2>5 DEF Abstract!Next, Abstract!Begin
<1> QED BY <1>5, <1>6

LEMMA UserMaps ==
  ASSUME IInv, NEW u \in Users, UserStep(u) \/ SpuriousWakeup(u)
  PROVE  [Abstract!Next]_(Abstract!vars)
<1> USE DEF life
<1>1. PICK reg, i : reg = users[u].reg /\ i = reg.instance
  OBVIOUS
<1>2. CallsFn[u].reg = reg
  BY <1>1 DEF CallsFn, Call
<1>3. ASSUME NEW pc \in {"blocked", "notified", "released"},
             users'[u].pc = pc, users'[u].reg = reg,
             users[u].pc # "register", UNCHANGED series,
             \A v \in Users \ {u} : users'[v] = users[v]
      PROVE  /\ Kept' = Kept
             /\ CallsFn' = [CallsFn EXCEPT ![u].stage =
                               IF pc = "released" THEN "answered" ELSE "told"]
  <2>1. PICK stage : stage = IF pc = "released" THEN "answered" ELSE "told"
    OBVIOUS
  <2>2. Stage(u)' = stage
    BY <1>3, <2>1 DEF Stage
  <2>3. Call(u)' = [Call(u) EXCEPT !.stage = stage]
    BY <1>1, <1>3, <2>2 DEF Call
  <2> QED BY <1>3, <2>1, <2>3, ThreadMoves DEF CallsFn
<1>4. CASE DeregisterAtOnce(u) \/ DeregisterFinish(u)
  <2>1. /\ users'[u].pc = "released" /\ users'[u].reg = reg
        /\ users[u].pc \in {"deregister", "notified"} /\ UNCHANGED series
        /\ \A v \in Users \ {u} : users'[v] = users[v]
    BY <1>1, <1>4
    DEF DeregisterAtOnce, DeregisterFinish, ReleaseDeregister, IInv, Shape,
        User
  <2>2. Kept' = Kept /\ CallsFn' = [CallsFn EXCEPT ![u].stage = "answered"]
    BY <1>3, <2>1
  <2>3. ListedFn' = [ListedFn EXCEPT ![i] = None]
    BY <1>1, <1>4, ListedErased DEF DeregisterAtOnce, DeregisterFinish, IInv
  <2>4. \/ CallsFn[u].stage = "leaving" /\
             platform' \in {platform, platform \ {Abstract!Entry(reg)}}
        \/ CallsFn[u].stage = "told" /\ UNCHANGED platform
    BY <1>1, <1>4
    DEF DeregisterAtOnce, DeregisterFinish, PlatformDeregisters, Identity,
        Abstract!Entry, CallsFn, Call, Stage
  <2>5. Abstract!Unlist(u)
    BY <1>1, <1>2, <1>4, <2>2, <2>3, <2>4
    DEF DeregisterAtOnce, DeregisterFinish, Abstract!Unlist, Abstract!Forget,
        Abstract!Move, Abstract!At, Abstract!Of, ListedFn, CallsFn
  <2> QED BY <2>5 DEF Abstract!Next, Abstract!Proceed
<1>5. CASE DeregisterWait(u)
  <2>1. /\ users'[u].pc = "blocked" /\ users'[u].reg = reg
        /\ users[u].pc = "deregister" /\ UNCHANGED series
        /\ \A v \in Users \ {u} : users'[v] = users[v]
    BY <1>1, <1>5 DEF DeregisterWait, IInv, Shape, User
  <2>2. Kept' = Kept /\ CallsFn' = [CallsFn EXCEPT ![u].stage = "told"]
    BY <1>3, <2>1
  <2>3. /\ i \in Registered /\ i \in Instances
        /\ SetHeartbeating(i, FALSE, register_status[i].reg)
    BY <1>1, <1>5 DEF DeregisterWait, Registered
  <2>4. ListedFn' = ListedFn
    BY <2>3, ListedKept DEF IInv
  <2>5. CallsFn[u].stage = "leaving"
    BY <2>1 DEF CallsFn, Call, Stage
  <2>6. Abstract!Tell(u)
    BY <1>1, <1>2, <1>5, <2>2, <2>4, <2>5
    DEF DeregisterWait, PlatformDeregisters, Identity, Abstract!Entry,
        Abstract!Tell, Abstract!Forget, Abstract!Move, Abstract!At, Abstract!Of, ListedFn, CallsFn
  <2> QED BY <2>6 DEF Abstract!Next, Abstract!Proceed
<1>6. CASE SpuriousWakeup(u)
  <2>1. /\ users'[u].pc = "notified" /\ users'[u].reg = reg
        /\ users[u].pc = "blocked" /\ UNCHANGED series
        /\ \A v \in Users \ {u} : users'[v] = users[v]
    BY <1>1, <1>6 DEF SpuriousWakeup, IInv, Shape, User
  <2>2. Kept' = Kept /\ CallsFn' = [CallsFn EXCEPT ![u].stage = "told"]
    BY <1>3, <2>1
  <2>3. CallsFn' = CallsFn
    BY <2>1, <2>2 DEF CallsFn, Call, Stage
  <2> QED
    BY <1>6, <2>2, <2>3, ListedSame, MappedStutter DEF SpuriousWakeup, mapped
<1>7. CASE CallReturn(u)
  <2>1. /\ users'[u] = Idle
        /\ users[u].pc = "released" /\ UNCHANGED series
        /\ \A v \in Users \ {u} : users'[v] = users[v]
    BY <1>7 DEF CallReturn, IInv, Shape
  <2>2. Call(u)' = Abstract!NoCall
    BY <2>1 DEF Call, Stage, Idle, Abstract!NoCall
  <2>3. Kept' = Kept /\ CallsFn' = [CallsFn EXCEPT ![u] = Abstract!NoCall]
    BY <2>1, <2>2, ThreadMoves
  <2>4. ListedFn' = ListedFn /\ CallsFn[u].stage = "answered"
    BY <1>7, <2>1, ListedSame DEF CallReturn, CallsFn, Call, Stage
  <2>5. Abstract!Return(u)
    BY <1>7, <2>3, <2>4
    DEF CallReturn, Abstract!Return, Abstract!At, ListedFn, CallsFn
  <2> QED BY <2>5 DEF Abstract!Next, Abstract!Proceed
<1> QED BY <1>4, <1>5, <1>6, <1>7 DEF UserStep, DeregisterCallback

LEMMA ExitMaps ==
  ASSUME ExitDecrement \/ ExitFinish \/ Terminated \/ UNCHANGED vars
  PROVE  [Abstract!Next]_(Abstract!vars)
<1> USE DEF life
<1>1. UNCHANGED <<platform, error, register_status, series, users>>
  BY DEF ExitDecrement, ExitFinish, Terminated, vars
<1>2. ListedFn' = ListedFn /\ Kept' = Kept /\ CallsFn' = CallsFn
  BY <1>1 DEF ListedFn, Listing, Kept, CallsFn, Call, Stage, Accepted, Live
<1>3. CASE ExitDecrement
  <2>1. \A u \in Users : CallsFn[u].stage = "none"
    BY <1>3 DEF ExitDecrement, CallsFn, Call, Stage
  <2>2. Abstract!Close
    BY <1>1, <1>2, <1>3, <2>1
    DEF ExitDecrement, Abstract!Close, Abstract!At, ListedFn, CallsFn
  <2> QED BY <2>2 DEF Abstract!Next
<1>4. CASE ~ExitDecrement
  <2>1. (handle # "open")' = (handle # "open")
    BY <1>4 DEF ExitFinish, Terminated, vars
  <2> QED BY <1>1, <1>2, <2>1, MappedStutter DEF mapped
<1> QED BY <1>3, <1>4

LEMMA InitMaps == Init => Abstract!Init
BY DEF Init, Idle, Live, Listing, Kept, Call, Stage, Abstract!Init,
       Abstract!NoCall

LEMMA StepMaps ==
  ASSUME IInv, Quiet, Awaited, RegisteredIsBeating, [Next]_vars
  PROVE  [Abstract!Next]_(Abstract!vars)
<1>1. ASSUME NEW x \in Series, SeriesStep(x)
      PROVE  [Abstract!Next]_(Abstract!vars)
  BY <1>1, RegisterMaps, HeartbeatMaps, UpdateMaps, TimersMap DEF SeriesStep
<1>2. ASSUME NEW u \in Users, UserCall(u)
      PROVE  [Abstract!Next]_(Abstract!vars)
  BY <1>2, RegisterServiceMaps, DeregisterServiceMaps DEF UserCall
<1> QED BY <1>1, <1>2, UserMaps, ExitMaps DEF Next, Step

(* The provider of the Manager implements RegisteredService: an instance   *)
(* is listed on account of a registration that the platform accepted, its  *)
(* heartbeats are not given up while they are counted on unless others for *)
(* the same host and port go on, only a call that deregisters it takes it  *)
(* off the list, and what chains of earlier registrations do meanwhile, of *)
(* other services and at other intervals too, comes to no more than that.  *)
THEOREM Refinement == Spec => ImplementsRegisteredService
<1>1. Init => Quiet /\ Awaited
  BY DEF Init, Quiet, Awaited, Live
<1>2. IInv /\ Quiet /\ Awaited /\ [Next]_vars => Quiet' /\ Awaited'
  BY QuietStep, AwaitedStep
<1>3. /\ IInv /\ Quiet /\ Awaited /\ RegisteredIsBeating
      /\ [Next]_vars
      => [Abstract!Next]_(Abstract!vars)
  BY StepMaps
<1> QED
  BY <1>1, <1>2, <1>3, IInvInductive, BeatingCorrect, InitMaps, PTL
  DEF Spec, ImplementsRegisteredService, Abstract!Spec
=============================================================================
