--------------------------- MODULE WatchedService ---------------------------
(***************************************************************************)
(* What watch_service and unwatch_service promise an application, with no  *)
(* chains, entries, flags, revisions of single kinds or reference counts.  *)
(* A policy is written by one answer of the platform at a time, part by    *)
(* part: the application, which does not wait for that, may see some parts *)
(* new and others old.  When the writing is done it sees all that the      *)
(* answer brought, and of what the answer did not name what was there      *)
(* before.  An unwatched service shows nothing, and what it showed last is *)
(* put aside until the end.  WatchManager implements this.                 *)
(***************************************************************************)
CONSTANTS
  Services,  \* policy names
  Data,      \* what the platform can publish of a service
  Parts,     \* what the application sees of a service
  Brings,    \* of an answer: the value of every part that it names
  Empty,     \* what a service shows that was never written
  None       \* shows nothing, has put nothing aside, is not being written

VARIABLES
  platform,  \* what the platform publishes now
  answers,   \* answers that have come and are not being written yet
  writing,   \* the answer that is being written
  shown,     \* what the application selects from
  aside,     \* what an unwatched service showed last
  closed     \* the PolarisManager is in its destructor, or gone

vars == <<platform, answers, writing, shown, aside, closed>>

Nothing == [s \in Services |-> None]

Init == /\ platform \in [Services -> Data]
        /\ answers = [s \in Services |-> {}]
        /\ writing = Nothing
        /\ shown   = Nothing
        /\ aside   = Nothing
        /\ closed  = FALSE

(* The platform publishes something else.                                  *)
Publish(s) ==
  /\ \E d \in Data : platform' = [platform EXCEPT ![s] = d]
  /\ UNCHANGED <<answers, writing, shown, aside, closed>>

(* An answer has both halves: what one discover task brings.               *)
Fetch(s) ==
  /\ answers' = [answers EXCEPT ![s] = @ \cup {platform[s]}]
  /\ UNCHANGED <<platform, writing, shown, aside, closed>>

(* It is dropped, unless the same answer came twice,                       *)
Spend(s, d) == answers' \in {answers, [answers EXCEPT ![s] = @ \ {d}]}

Drop(s) ==
  /\ \E d \in answers[s] : Spend(s, d)
  /\ UNCHANGED <<platform, writing, shown, aside, closed>>

(* or it is the next to be written: into what is shown, or what was put    *)
(* aside, or what was never written.                                       *)
Begin(s) ==
  /\ writing[s] = None
  /\ \E d \in answers[s] : Spend(s, d) /\ writing' = [writing EXCEPT ![s] = d]
  /\ shown' = [shown EXCEPT ![s] = IF shown[s] # None THEN shown[s]
                                   ELSE IF aside[s] # None THEN aside[s]
                                   ELSE Empty]
  /\ aside' = [aside EXCEPT ![s] = None]
  /\ UNCHANGED <<platform, closed>>

(* What `held' may be after a step that writes a part of d or none of it.  *)
Towards(d, held) ==
  {new \in [Parts -> {held[p] : p \in Parts}
                        \cup {Brings[d][p] : p \in DOMAIN Brings[d]}] :
     \A p \in Parts : \/ new[p] = held[p]
                      \/ p \in DOMAIN Brings[d] /\ new[p] = Brings[d][p]}

(* Some of the parts that the answer names are written.                    *)
Write(s) ==
  /\ writing[s] # None
  /\ shown' \in {[shown EXCEPT ![s] = new] :
                   new \in Towards(writing[s], shown[s])}
  /\ UNCHANGED <<platform, answers, writing, aside, closed>>

(* The last of them are: now all are.                                      *)
Finish(s) ==
  /\ writing[s] # None
  /\ shown' \in {[shown EXCEPT ![s] = new] :
                   new \in Towards(writing[s], shown[s])}
  /\ \A p \in DOMAIN Brings[writing[s]] :
       shown'[s][p] = Brings[writing[s]][p]
  /\ writing' = [writing EXCEPT ![s] = None]
  /\ UNCHANGED <<platform, answers, aside, closed>>

(* unwatch_service, of something that is shown, is not being written and   *)
(* has nothing put aside.                                                  *)
Withdraw(s) ==
  /\ ~closed
  /\ writing[s] = None
  /\ shown[s] # None
  /\ aside[s] = None
  /\ shown' = [shown EXCEPT ![s] = None]
  /\ aside' = [aside EXCEPT ![s] = shown[s]]
  /\ UNCHANGED <<platform, answers, writing, closed>>

Free == aside' = Nothing

Close == /\ ~closed
         /\ closed' = TRUE
         /\ Free \/ UNCHANGED aside
         /\ UNCHANGED <<platform, answers, writing, shown>>

(* What was put aside is deleted when nobody can watch it any more.        *)
FreeAside == /\ closed
             /\ Free
             /\ UNCHANGED <<platform, answers, writing, shown, closed>>

Next == \/ \E s \in Services : \/ Publish(s)
                               \/ Fetch(s)
                               \/ Drop(s)
                               \/ Begin(s)
                               \/ Write(s)
                               \/ Finish(s)
                               \/ Withdraw(s)
        \/ Close
        \/ FreeAside

Spec == Init /\ [][Next]_vars
=============================================================================
