------------------------- MODULE RegisteredService --------------------------
(***************************************************************************)
(* What register_service and deregister_service do for an application,     *)
(* with no chains, flags, timers, condition variables, handler threads or  *)
(* reference counts: an instance, a host and port, is listed on account of *)
(* a registration that the platform accepted, heartbeats for it are kept   *)
(* up as long as it is listed, and it is taken off the list by a call that *)
(* deregisters it.  One thing is not promised: when two registrations have *)
(* used the same host and port, the heartbeats that are kept up may be     *)
(* those of the other.  HeartbeatManager implements this.                  *)
(***************************************************************************)
CONSTANTS
  Services,       \* what may be provided
  Instances,      \* hosts and ports
  Registrations,  \* of a service, at an instance, with an interval or 0
  Users,          \* who may call
  None            \* no registration

VARIABLES
  platform,  \* the services and instances the platform knows
  listed,    \* of each instance, the registration on whose account
             \* get_register_list has it, or None
  kept,      \* the registrations whose heartbeats are kept up
  calls,     \* the call each user is in
  failed,    \* some call has failed, and every later one returns -1
  closed     \* the PolarisManager is in its destructor, or gone

vars == <<platform, listed, kept, calls, failed, closed>>

NoCall == [stage |-> "none", reg |-> None]

Init == /\ platform = {}
        /\ listed   = [i \in Instances |-> None]
        /\ kept     = {}
        /\ calls    = [u \in Users |-> NoCall]
        /\ failed \in BOOLEAN
        /\ closed   = FALSE

At(u, stage) == calls[u].stage = stage

Of(u) == calls[u].reg

(* With heartbeats.                                                        *)
Beating(reg) == reg.interval # 0

(* What the platform keeps of a registration.                              *)
Entry(reg) == <<reg.service, reg.instance>>

MayCall(u) == ~closed /\ At(u, "none")

Move(u, stage) == calls' = [calls EXCEPT ![u].stage = stage]

Fail(u) == failed' = TRUE /\ Move(u, "answered")

-----------------------------------------------------------------------------
(* register_service.                                                       *)
Register(u, reg) ==
  /\ calls' = [calls EXCEPT ![u] = [stage |-> "asked", reg |-> reg]]
  /\ UNCHANGED <<platform, listed, kept, failed, closed>>

(* The platform refuses, or its answer is lost.                            *)
Refuse(u) ==
  /\ At(u, "asked")
  /\ Fail(u)
  /\ platform' \in {platform, platform \cup {Entry(Of(u))}}
  /\ UNCHANGED <<listed, kept, closed>>

(* It accepts an instance that will send no heartbeats: that is all.       *)
AcceptPlain(u) ==
  /\ At(u, "asked")
  /\ ~Beating(Of(u))
  /\ platform' = platform \cup {Entry(Of(u))}
  /\ listed' = [listed EXCEPT ![Of(u).instance] = Of(u)]
  /\ Move(u, "answered")
  /\ UNCHANGED <<kept, failed, closed>>

(* With heartbeats the call goes on to the first one.                      *)
Accept(u) ==
  /\ At(u, "asked")
  /\ Beating(Of(u))
  /\ platform' = platform \cup {Entry(Of(u))}
  /\ Move(u, "accepted")
  /\ UNCHANGED <<listed, kept, failed, closed>>

(* No health check after all, or the instance is listed already.           *)
Turn(u) ==
  /\ At(u, "accepted")
  /\ Fail(u)
  /\ UNCHANGED <<platform, listed, kept, closed>>

(* The first heartbeat was answered.                                       *)
List(u) ==
  /\ At(u, "accepted")
  /\ listed[Of(u).instance] = None
  /\ listed' = [listed EXCEPT ![Of(u).instance] = Of(u)]
  /\ kept' = kept \cup {Of(u)}
  /\ Move(u, "answered")
  /\ UNCHANGED <<platform, failed, closed>>

(* A heartbeat that was on its way when the instance was deregistered      *)
(* enters it again, on account of its own registration.                    *)
Relist(reg) ==
  /\ reg \in kept
  /\ listed[reg.instance] = None
  /\ listed' = [listed EXCEPT ![reg.instance] = reg]
  /\ UNCHANGED <<platform, kept, calls, failed, closed>>

(* Heartbeats do not stop while they are counted on, unless others for the *)
(* same instance go on.                                                    *)
Leaving(i) == \E u \in Users : At(u, "told") /\ Of(u).instance = i

CountedOn(i) == /\ listed[i] # None
                /\ Beating(listed[i])
                /\ ~Leaving(i)
                /\ ~closed

Stop(reg) ==
  /\ CountedOn(reg.instance) =>
       \E other \in kept \ {reg} : other.instance = reg.instance
  /\ kept' = kept \ {reg}
  /\ UNCHANGED <<platform, listed, calls, failed, closed>>

-----------------------------------------------------------------------------
(* deregister_service, by one user at a time for an instance.              *)
Miss(u, i) ==
  /\ listed[i] = None
  /\ failed' = TRUE
  /\ UNCHANGED <<platform, listed, kept, calls, closed>>

(* Whichever service the instance is listed for.                           *)
Deregister(u, s, i) ==
  /\ listed[i] # None
  /\ \A v \in Users : At(v, "leaving") \/ At(v, "told") => Of(v).instance # i
  /\ calls' = [calls EXCEPT
                 ![u] = [stage |-> "leaving",
                         reg |-> [service |-> s, instance |-> i, interval |-> 0]]]
  /\ UNCHANGED <<platform, listed, kept, failed, closed>>

(* The platform has removed the registration or not; nobody asks.          *)
Forget(u) == platform' \in {platform, platform \ {Entry(Of(u))}}

(* A heartbeat is on its way: the call waits until it is back.             *)
Tell(u) ==
  /\ At(u, "leaving")
  /\ Forget(u)
  /\ Move(u, "told")
  /\ UNCHANGED <<listed, kept, failed, closed>>

Unlist(u) ==
  /\ \/ At(u, "leaving") /\ Forget(u)
     \/ At(u, "told") /\ UNCHANGED platform
  /\ listed' = [listed EXCEPT ![Of(u).instance] = None]
  /\ Move(u, "answered")
  /\ UNCHANGED <<kept, failed, closed>>

(* -1 if `failed', also when it was another call that has.                 *)
Return(u) ==
  /\ At(u, "answered")
  /\ calls' = [calls EXCEPT ![u] = NoCall]
  /\ UNCHANGED <<platform, listed, kept, failed, closed>>

Close ==
  /\ ~closed
  /\ \A u \in Users : At(u, "none")
  /\ closed' = TRUE
  /\ UNCHANGED <<platform, listed, kept, calls, failed>>

Begin(u) == /\ MayCall(u)
            /\ \/ \E reg \in Registrations : Register(u, reg)
               \/ \E i \in Instances : \/ Miss(u, i)
                                      \/ \E s \in Services : Deregister(u, s, i)

Proceed(u) == \/ Refuse(u) \/ AcceptPlain(u) \/ Accept(u)
              \/ Turn(u) \/ List(u)
              \/ Tell(u) \/ Unlist(u)
              \/ Return(u)

Next == \/ \E u \in Users : Begin(u) \/ Proceed(u)
        \/ \E reg \in Registrations : Relist(reg) \/ Stop(reg)
        \/ Close

Spec == Init /\ [][Next]_vars
=============================================================================
