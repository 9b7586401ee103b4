-------------------------------- MODULE Session --------------------------------
(***************************************************************************)
(* What an application may rely on when it keeps one connection of         *)
(* src/src/EthereumConnection.ts, without sockets, timers, listeners or    *)
(* requests: every attempt to connect is answered once, "yes" only by its  *)
(* own initialisation, which happens once; the connection comes up only by *)
(* an initialisation; it attempts by itself only when it is down and the   *)
(* application's last word was not stop; and every stop is answered once.  *)
(* The application may connect and stop at any time.  Not promised: that a *)
(* connection which was stopped stays down, since the attempts under way   *)
(* go on; nor that one which was connected while a stop waits stays up.    *)
(***************************************************************************)
CONSTANTS Attempts, Stops

VARIABLES
    asker,              \* who made an attempt: "nobody", "user" or "reconnect"
    answer,             \* "none" before it, then "pending", "resolved", "rejected"
    initialised,        \* the attempts whose initialisation ended
    up,
    stopped,            \* the application stopped it and did not connect since
    stop                \* the answer to each stop, as to an attempt

vars == <<asker, answer, initialised, up, stopped, stop>>

Init ==
    /\ asker = [a \in Attempts |-> "nobody"]
    /\ answer = [a \in Attempts |-> "none"]
    /\ initialised = {} /\ up = FALSE
    /\ stopped = FALSE /\ stop = [k \in Stops |-> "none"]

-----------------------------------------------------------------------------
Pending == {a \in Attempts : answer[a] = "pending"}
Waiting == {k \in Stops : stop[k] = "pending"}

Rejected(failed) == [a \in Attempts |-> IF a \in failed THEN "rejected" ELSE answer[a]]

(* One attempt more, while those of "failed" fail. *)
Attempt(a, who, failed) ==
    /\ answer[a] = "none"
    /\ asker' = [asker EXCEPT ![a] = who]
    /\ answer' = [Rejected(failed) EXCEPT ![a] = "pending"]

-----------------------------------------------------------------------------
(* The application connects: from now on it does not want to be stopped.   *)
Connect(a) ==
    /\ Attempt(a, "user", {})
    /\ stopped' = FALSE
    /\ UNCHANGED <<initialised, up, stop>>

(* An initialisation ends, for an attempt that is pending or was given up. *)
Initialise(a) ==
    /\ answer[a] # "none" /\ a \notin initialised
    /\ initialised' = initialised \cup {a}
    /\ answer' = [answer EXCEPT ![a] = IF @ = "pending" THEN "resolved" ELSE @]
    /\ up' = TRUE
    /\ UNCHANGED <<asker, stopped, stop>>

Fail(failed) ==
    /\ answer' = Rejected(failed)
    /\ UNCHANGED <<asker, initialised, up, stopped, stop>>

(* The connection is found to be down: the attempts that wait for it are   *)
(* told so the first time, and another one may follow.                     *)
Lose(failed) ==
    /\ up \/ failed = {}
    /\ up' = FALSE
    /\ \/ answer' = Rejected(failed) /\ UNCHANGED asker
       \/ ~stopped /\ \E a \in Attempts : Attempt(a, "reconnect", failed)
    /\ UNCHANGED <<initialised, stopped, stop>>

(* The application stops it: at once, or the answer is to come. *)
Stop(k) ==
    /\ stop[k] = "none"
    /\ \E how \in {"pending", "resolved"} : stop' = [stop EXCEPT ![k] = how]
    /\ stopped' = TRUE
    /\ UNCHANGED <<asker, answer, initialised, up>>

(* One event may end several stops. *)
StopEnds(ended) ==
    /\ \E how \in {"resolved", "rejected"} :
          stop' = [k \in Stops |-> IF k \in ended THEN how ELSE stop[k]]
    /\ UNCHANGED <<asker, answer, initialised, up, stopped>>

Next ==
    \/ \E a \in Attempts : Connect(a) \/ Initialise(a)
    \/ \E failed \in SUBSET Pending : Fail(failed) \/ Lose(failed)
    \/ \E k \in Stops : Stop(k)
    \/ \E ended \in SUBSET Waiting : StopEnds(ended)

Spec == Init /\ [][Next]_vars
===============================================================================
