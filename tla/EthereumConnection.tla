-------------------------- MODULE EthereumConnection --------------------------
(***************************************************************************)
(* src/src/EthereumConnection.ts: one EthereumConnection, its provider's   *)
(* sockets, and the asynchronous calls that run over them: connect (by the *)
(* application or by a reconnect attempt), the initialisation that follows *)
(* it, the periodic connection check, and stop (by the application or the  *)
(* exit handler).  Every await lets the others run.                        *)
(*                                                                         *)
(* A call of connect lives on inside after promiseTimeout has rejected it: *)
(* the executor goes on, and its listeners on the connection's own events  *)
(* stay.  So each call has an inner and an outer state.                    *)
(***************************************************************************)
EXTENDS Integers, FiniteSets

CONSTANTS
    Kinds,         \* the providers: among "websocket", "http" and "given"
    Checking,      \* ETHEREUM_CONNECTION_CHECK_INTERVAL > 0
    MaxConnects,   \* bound on calls of connect, and so on sockets
    MaxUserConnects,  \* bound on those of the application
    MaxChecks,     \* bound on connection checks under way at a time
    MaxFaults,     \* bound on lost sockets, refused sockets, late answers
    MaxStops       \* bound on calls of stop

ASSUME ConnectionAssumption ==
    /\ Kinds \subseteq {"websocket", "http", "given"}
    /\ Checking \in BOOLEAN
    /\ MaxConnects \in Nat \ {0}
    /\ MaxUserConnects \in Nat
    /\ MaxChecks \in Nat /\ MaxFaults \in Nat /\ MaxStops \in Nat

VARIABLES
    kind,                  \* the provider's kind, one of Kinds for good
    isStopping, isTryingToReconnect, wasConnected,
    provider,              \* the provider web3 uses: a socket, 0 before connect
    connectionCheckTimer,  \* the last setInterval: that of call c is timer c
    timers,                \* the intervals that still fire
    calls,                 \* the calls of connect
    nCalls,                \* how many there were
    checks,                \* connection checks waiting for an answer, per socket
    stops,                 \* the calls of stop: how far each got, and the socket
    nStops,                \*   it asked, then the one it closes
    sockets,               \* EXTERNAL: the providers' connections
    faults,                \* EXTERNAL: how much went wrong so far
    \* History, for the properties only:
    checkLost,             \* the check's "connectionLost" since "connected"
    initialised,           \* an initialisation ended after the last stop
    initCut                \* the requests of one were rejected

fieldVars == <<kind, isStopping, isTryingToReconnect, wasConnected>>
timerVars == <<connectionCheckTimer, timers>>
callVars == <<provider, calls, nCalls>>
stopVars == <<stops, nStops>>
eventVars == <<checkLost, initialised, initCut>>
vars == <<fieldVars, timerVars, callVars, checks, stopVars, sockets, faults, eventVars>>

Calls == 1 .. MaxConnects
Sockets == Calls                     \* the one call c made, or 1 if it is given
Stops == 1 .. MaxStops
WithEvents == kind # "http"          \* isProviderWithEvents

Inner == {"none", "asking", "init", "listening", "ended", "failed"}
Outer == {"none", "pending", "resolved", "rejected"}
NoCall == [by |-> "user", inner |-> "none", outer |-> "none", via |-> 0]
NoStop == [at |-> "none", via |-> 0]

(* Being closed by stop, an open socket is "closing", one that does not    *)
(* stand yet "aborting".                                                   *)
SocketStates == {"none", "connecting", "open", "closing", "aborting", "closed"}

(* Only an initialisation that ended starts an interval (lines 272-293).   *)
TypeOK ==
    /\ kind \in Kinds
    /\ isStopping \in BOOLEAN /\ isTryingToReconnect \in BOOLEAN /\ wasConnected \in BOOLEAN
    /\ provider \in 0 .. MaxConnects
    /\ connectionCheckTimer \in 0 .. MaxConnects
    /\ timers \subseteq {c \in Calls : calls[c].inner = "ended"}
    /\ calls \in [Calls -> [by : {"user", "reconnect"}, inner : Inner, outer : Outer,
                            via : 0 .. MaxConnects]]
    /\ nCalls \in 0 .. MaxConnects
    /\ checks \in [Sockets -> 0 .. MaxChecks]
    /\ stops \in [Stops -> [at : {"none", "asking", "closing", "resolved", "rejected"},
                            via : 0 .. MaxConnects]]
    /\ nStops \in 0 .. MaxStops
    /\ sockets \in [Sockets -> SocketStates]
    /\ faults \in 0 .. MaxFaults
    /\ checkLost \in Nat /\ initialised \in BOOLEAN
    /\ initCut \in BOOLEAN

Init ==
    /\ kind \in Kinds
    /\ isStopping = FALSE /\ isTryingToReconnect = FALSE /\ wasConnected = FALSE
    /\ provider = 0
    /\ connectionCheckTimer = 0 /\ timers = {}
    /\ calls = [c \in Calls |-> NoCall]
    /\ nCalls = 0
    /\ checks = [s \in Sockets |-> 0]
    /\ stops = [k \in Stops |-> NoStop] /\ nStops = 0
    /\ sockets \in [Sockets -> {"none", "connecting", "open"}]
    /\ \A s \in Sockets : sockets[s] # "none" <=> kind = "given" /\ s = 1
    /\ faults = 0
    /\ checkLost = 0 /\ initialised = FALSE /\ initCut = FALSE

Fault == faults < MaxFaults /\ faults' = faults + 1

-----------------------------------------------------------------------------
(* What the events of the connection do to the connect calls that listen.  *)

Listening(cs) == {c \in Calls : cs[c].inner = "listening"}

(* emit("connectionLost") or emit("providerError"): their promises reject. *)
Refused(cs) ==
    [c \in Calls |->
        IF c \in Listening(cs)
        THEN [cs[c] EXCEPT !.inner = "failed",
                           !.outer = IF @ = "pending" THEN "rejected" ELSE @]
        ELSE cs[c]]

(* A reconnect attempt ends with its call of connect. *)
ReconnectEndedBug(cs) ==                 \* ... if it did not reject
    \E c \in Calls : /\ calls[c].by = "reconnect" /\ calls[c].outer = "pending"
                     /\ cs[c].outer = "resolved"
ReconnectEnded(cs) ==
    \E c \in Calls : /\ calls[c].by = "reconnect" /\ calls[c].outer = "pending"
                     /\ cs[c].outer # "pending"

(* tempOnConnected that resolves before its initialisation. *)
ReinitialisedBug(cs) ==
    [c \in Calls |->
        IF c \in Listening(cs)
        THEN [cs[c] EXCEPT !.inner = "init", !.via = provider,
                           !.outer = IF @ = "pending" THEN "resolved" ELSE @]
        ELSE cs[c]]

(* emit("connected"): they start an initialisation of their own. *)
Reinitialised(cs) ==
    [c \in Calls |-> IF c \in Listening(cs)
                     THEN [cs[c] EXCEPT !.inner = "init", !.via = provider]
                     ELSE cs[c]]

-----------------------------------------------------------------------------
(* isConnected(): web3 asked the socket that was current when it was       *)
(* called.  No answer in ETHEREUM_ISLISTENING_TIMEOUT counts as "no".  A   *)
(* socket that closes may still bring the answer to an earlier request.    *)
AnswersYes(s) == sockets[s] \in {"open", "closing"} /\ UNCHANGED faults
AnswersNo(s) == \/ sockets[s] \in {"closing", "aborting", "closed"} /\ UNCHANGED faults
                \/ sockets[s] \in {"none", "connecting", "open"} /\ Fault

(* clearTimeout(this.connectionCheckTimer), in the initialisation of call  *)
(* c before its requests.                                                  *)
ClearTimerBug(c) ==                      \* the interval is started there, too
    (timers \ {connectionCheckTimer}) \cup {c}
ClearTimer(c) == timers \ {connectionCheckTimer}

(* connect(), up to its first await.  A websocket provider is made anew;   *)
(* http goes straight to the initialisation, which clears the timer.       *)
Connect(by, cs) ==
    LET c == nCalls + 1
        s == IF kind = "given" THEN 1 ELSE c
    IN  /\ nCalls < MaxConnects
        /\ nCalls' = c
        /\ isStopping' = FALSE
        /\ provider' = s
        /\ sockets' = CASE kind = "given" -> sockets
                        [] kind = "http" -> [sockets EXCEPT ![s] = "open"]
                        [] OTHER -> [sockets EXCEPT ![s] = "connecting"]
        /\ calls' = [cs EXCEPT ![c] =
                        [by |-> by, via |-> s, outer |-> "pending",
                         inner |-> IF WithEvents THEN "asking" ELSE "init"]]
        /\ timers' = IF WithEvents THEN timers ELSE ClearTimer(c)
        /\ UNCHANGED connectionCheckTimer

(* The application connects whenever it likes: connected already, while    *)
(* another connect runs, or while stop awaits, which goes on and closes    *)
(* what is current by then.                                                *)
UserConnect ==
    /\ Cardinality({c \in 1 .. nCalls : calls[c].by = "user"}) < MaxUserConnects
    /\ Connect("user", calls)
    /\ UNCHANGED <<kind, isTryingToReconnect, wasConnected, checks, stopVars, faults,
                   eventVars>>

(* The executor of connect has its answer: initialise, or listen. *)
ConnectAnswered(c) ==
    /\ calls[c].inner = "asking"
    /\ \/ /\ AnswersYes(calls[c].via)
          /\ calls' = [calls EXCEPT ![c].inner = "init", ![c].via = provider]
          /\ timers' = ClearTimer(c)
       \/ /\ AnswersNo(calls[c].via)
          /\ calls' = [calls EXCEPT ![c].inner = "listening"]
          /\ UNCHANGED timers
    /\ UNCHANGED <<fieldVars, connectionCheckTimer, provider, nCalls, checks,
                   stopVars, sockets, eventVars>>

(* promiseTimeout around connect's promise, and around that of stop. *)
TimesOutBug(c) == calls[c].outer = "pending" /\ calls[c].inner # "listening"
TimesOut(c) == calls[c].outer = "pending"
StopTimesOutBug(k) == FALSE              \* awaits "disconnected" without a timeout
StopTimesOut(k) == stops[k].at = "closing"

(* promiseTimeout rejects connect; what runs inside goes on.  A timeout    *)
(* before the answers are in is a late answer.                             *)
ConnectTimeout(c) ==
    /\ WithEvents
    /\ TimesOut(c)
    /\ IF calls[c].inner \in {"asking", "init"} THEN Fault ELSE UNCHANGED faults
    /\ calls' = [calls EXCEPT ![c].outer = "rejected"]
    /\ isTryingToReconnect' = (isTryingToReconnect /\ ~ReconnectEnded(calls'))
    /\ UNCHANGED <<kind, isStopping, wasConnected, timerVars, provider, nCalls,
                   checks, stopVars, sockets, eventVars>>

-----------------------------------------------------------------------------
(* connectionCheckTimer = setInterval(..): timer c. *)
TimerOfBug(c) == IF connectionCheckTimer = 0 THEN c ELSE connectionCheckTimer
TimerOf(c) == c

(* initAfterProviderConnect(), after its requests were answered.  The      *)
(* calls that listen for "connected" start over, and clear the new timer.  *)
InitDone(c) ==
    /\ calls[c].inner = "init"
    /\ sockets[calls[c].via] \in {"open", "closing"}
    /\ isTryingToReconnect' = FALSE
    /\ wasConnected' = TRUE
    /\ connectionCheckTimer' = IF Checking THEN TimerOf(c) ELSE connectionCheckTimer
    /\ timers' = IF Listening(calls) # {} THEN timers \ {connectionCheckTimer'}
                 ELSE IF Checking THEN timers \cup {c} ELSE timers
    /\ calls' = [Reinitialised(calls) EXCEPT
                    ![c].inner = "ended",
                    ![c].outer = IF @ = "pending" THEN "resolved" ELSE @]
    /\ checkLost' = 0 /\ initialised' = TRUE
    /\ UNCHANGED <<kind, isStopping, provider, nCalls, checks, stopVars, sockets,
                   faults, initCut>>

(* Its requests are rejected.  Nobody catches that in the executor of      *)
(* connect; without one, connect itself rejects.                           *)
InitFails(c) ==
    /\ calls[c].inner = "init"
    /\ initCut' = TRUE
    /\ AnswersNo(calls[c].via)
    /\ calls' = [calls EXCEPT ![c].inner = "failed",
                              ![c].outer = IF WithEvents THEN @ ELSE "rejected"]
    /\ isTryingToReconnect' = (isTryingToReconnect /\ ~ReconnectEnded(calls'))
    /\ UNCHANGED <<kind, isStopping, wasConnected, timerVars, provider, nCalls,
                   checks, stopVars, sockets, checkLost, initialised>>

-----------------------------------------------------------------------------
(* The provider's events *)

(* connect listens to the socket it made; to a given provider, every time. *)
Listened(s) == IF kind = "given" THEN nCalls > 0 ELSE TRUE

(* A new socket opens; a given provider reopens its own. *)
SocketOpens(s) ==
    /\ sockets[s] = "connecting" \/ (kind = "given" /\ sockets[s] = "closed")
    /\ sockets' = [sockets EXCEPT ![s] = "open"]
    /\ UNCHANGED <<fieldVars, timerVars, callVars, checks, stopVars, faults, eventVars>>

(* It ends with a code other than 1000: onProviderEnd.  So does a socket   *)
(* that stop closed before it stood.                                       *)
SocketEnds(s) ==
    /\ \/ sockets[s] \in {"connecting", "open", "closing"} /\ Fault
       \/ sockets[s] = "aborting" /\ UNCHANGED faults
    /\ sockets' = [sockets EXCEPT ![s] = "closed"]
    /\ IF WithEvents /\ Listened(s) /\ ~isTryingToReconnect /\ ~isStopping
       THEN calls' = Refused(calls)
       ELSE UNCHANGED calls
    /\ UNCHANGED <<fieldVars, timerVars, provider, nCalls, checks, stopVars,
                   eventVars>>

(* It ends with code 1000, closed by stop or by somebody else: onProviderEnd *)
(* emits "disconnected", which ends every stop that waits for it.            *)
Disconnected ==
    [k \in Stops |-> IF stops[k].at = "closing" THEN [stops[k] EXCEPT !.at = "resolved"]
                     ELSE stops[k]]

SocketCloses(s) ==
    /\ WithEvents
    /\ \/ sockets[s] = "closing" /\ UNCHANGED faults
       \/ sockets[s] = "open" /\ Fault
    /\ sockets' = [sockets EXCEPT ![s] = "closed"]
    /\ stops' = IF Listened(s) THEN Disconnected ELSE stops
    /\ UNCHANGED <<fieldVars, timerVars, callVars, checks, nStops, eventVars>>

(* onProviderError: "providerError" is emitted unless it is expected. *)
ProviderError(s) ==
    /\ WithEvents /\ sockets[s] # "none" /\ Listened(s)
    /\ ~isTryingToReconnect /\ ~isStopping /\ wasConnected
    /\ Fault
    /\ calls' = Refused(calls)
    /\ UNCHANGED <<fieldVars, timerVars, provider, nCalls, checks, stopVars,
                   sockets, eventVars>>

-----------------------------------------------------------------------------
(* The connection check *)

(* An interval fires: _checkConnection() reads isStopping, then asks. *)
Tick(t) ==
    /\ t \in timers
    /\ ~isStopping
    /\ checks[provider] < MaxChecks
    /\ checks' = [checks EXCEPT ![provider] = @ + 1]
    /\ UNCHANGED <<fieldVars, timerVars, callVars, stopVars, sockets, faults, eventVars>>

CheckDone(s) == checks[s] > 0 /\ checks' = [checks EXCEPT ![s] = @ - 1]

CheckPasses(s) ==
    /\ CheckDone(s)
    /\ AnswersYes(s)
    /\ UNCHANGED <<fieldVars, timerVars, callVars, stopVars, sockets, eventVars>>

(* _checkConnection() goes on after a "no": "connectionLost", unless it    *)
(* said so before, and _tryToReconnect().                                  *)
ReportLostBug ==                         \* wasConnected is not reset
    /\ UNCHANGED wasConnected
    /\ checkLost' = IF wasConnected THEN checkLost + 1 ELSE checkLost
ReportLost ==
    /\ wasConnected' = FALSE
    /\ checkLost' = IF wasConnected THEN checkLost + 1 ELSE checkLost

MayReconnectBug == ~isTryingToReconnect  \* isStopping was read before the await
MayReconnect == ~isStopping /\ ~isTryingToReconnect

CheckFails(s) ==
    LET cs == IF wasConnected THEN Refused(calls) ELSE calls
    IN  /\ CheckDone(s)
        /\ AnswersNo(s)
        /\ ReportLost
        /\ \/ /\ ~MayReconnect
              /\ calls' = cs
              /\ isTryingToReconnect' = (isTryingToReconnect /\ ~ReconnectEnded(cs))
              /\ UNCHANGED <<isStopping, provider, nCalls, timerVars, sockets>>
           \/ /\ MayReconnect
              /\ Connect("reconnect", cs)
              /\ isTryingToReconnect' = ~ReconnectEnded(cs)
        /\ UNCHANGED <<kind, stopVars, initialised, initCut>>

-----------------------------------------------------------------------------
(* stop(): the application's, and the exit handler's, at any time. *)

Stop ==
    /\ nStops < MaxStops
    /\ nStops' = nStops + 1
    /\ isStopping' = TRUE
    /\ timers' = timers \ {connectionCheckTimer}
    /\ initialised' = FALSE
    /\ stops' = [stops EXCEPT ![nStops'] =
                    [at |-> IF WithEvents /\ provider # 0 THEN "asking" ELSE "resolved",
                     via |-> provider]]
    /\ UNCHANGED <<kind, isTryingToReconnect, wasConnected, connectionCheckTimer, callVars,
                   checks, sockets, faults, checkLost, initCut>>

(* If it is connected, it closes the provider that is current by then,     *)
(* the one of a later connect if there was one.                            *)
StopAnswered(k) ==
    /\ stops[k].at = "asking"
    /\ \/ /\ AnswersYes(stops[k].via)
          /\ stops' = [stops EXCEPT ![k] = [at |-> "closing", via |-> provider]]
          /\ sockets' = [sockets EXCEPT ![provider] = CASE @ = "open" -> "closing"
                                                         [] @ = "connecting" -> "aborting"
                                                         [] OTHER -> @]
       \/ /\ AnswersNo(stops[k].via)
          /\ stops' = [stops EXCEPT ![k].at = "resolved"]
          /\ UNCHANGED sockets
    /\ UNCHANGED <<fieldVars, timerVars, callVars, checks, nStops, eventVars>>

(* "disconnected" does not come in time: stop rejects.  A timeout while    *)
(* its socket is about to close is a fault.                                *)
StopTimeout(k) ==
    /\ StopTimesOut(k)
    /\ IF sockets[stops[k].via] \in {"closing", "aborting"} THEN Fault ELSE UNCHANGED faults
    /\ stops' = [stops EXCEPT ![k].at = "rejected"]
    /\ UNCHANGED <<fieldVars, timerVars, callVars, checks, nStops, sockets, eventVars>>

-----------------------------------------------------------------------------
Next ==
    \/ UserConnect
    \/ \E c \in Calls : ConnectAnswered(c) \/ ConnectTimeout(c) \/ InitDone(c) \/ InitFails(c)
    \/ \E s \in Sockets : \/ SocketOpens(s) \/ SocketEnds(s) \/ SocketCloses(s)
                          \/ ProviderError(s) \/ CheckPasses(s) \/ CheckFails(s)
    \/ \E t \in Calls : Tick(t)
    \/ Stop
    \/ \E k \in Stops : StopAnswered(k) \/ StopTimeout(k)

Spec == Init /\ [][Next]_vars

(* Requests are answered or their socket closes; sockets open; timers and  *)
(* timeouts fire; a socket that stop closes ends.                          *)
Fairness ==
    /\ \A c \in Calls : /\ WF_vars(ConnectAnswered(c))
                        /\ WF_vars(InitDone(c) \/ InitFails(c))
                        /\ WF_vars(ConnectTimeout(c))
                        /\ WF_vars(Tick(c))
    /\ \A s \in Sockets : /\ WF_vars(SocketOpens(s))
                          /\ WF_vars(CheckPasses(s) \/ CheckFails(s))
                          /\ WF_vars(sockets[s] = "closing" /\ SocketCloses(s))
                          /\ WF_vars(sockets[s] = "aborting" /\ SocketEnds(s))
    /\ \A k \in Stops : WF_vars(StopAnswered(k)) /\ WF_vars(StopTimeout(k))

FairSpec == Spec /\ Fairness

Initialising == {c \in Calls : calls[c].inner = "init"}

-----------------------------------------------------------------------------
(* Safety *)

(* Once connected, the connection is watched: while no initialisation is   *)
(* under way and none was cut short, the timer that the object remembers,  *)
(* and that stop can clear, is running - also when late listeners made     *)
(* several initialisations overlap (lines 211-216, 268-296).               *)
Watched ==
    Checking /\ initialised /\ Initialising = {} /\ ~initCut
        => connectionCheckTimer \in timers

(* connect resolves only after an initialisation of its own (line 215). *)
ResolvedIsInitialised ==
    \A c \in Calls : calls[c].outer = "resolved" => calls[c].inner = "ended"

(* The connection check reports a loss once, however many attempts to      *)
(* reconnect fail (lines 331-341).                                         *)
CheckReportsOnce == checkLost <= 1

(* A check that was waiting for its answer when stop was called does not   *)
(* reconnect (lines 331, 346).                                             *)
NoReconnectWhileStopping ==
    [][isStopping /\ nCalls' > nCalls => calls'[nCalls'].by = "user"]_vars

(* What an application may rely on: module Session, seen through the       *)
(* promises of connect and stop and the fields they rest on.               *)
Asker == [c \in Calls |-> IF c > nCalls THEN "nobody" ELSE calls[c].by]
Answer == [c \in Calls |-> calls[c].outer]
Ended == {c \in Calls : calls[c].inner = "ended"}
Stopping(k) == stops[k].at \in {"asking", "closing"}
StopAnswer == [k \in Stops |-> IF Stopping(k) THEN "pending" ELSE stops[k].at]

Promised == INSTANCE Session WITH
    Attempts <- Calls, asker <- Asker, answer <- Answer, initialised <- Ended,
    up <- wasConnected, stopped <- isStopping, stop <- StopAnswer

(* Every connect and every stop is answered once, a connect "yes" only by  *)
(* its own initialisation; only initialisations bring the connection up;   *)
(* and it attempts by itself only while it is down and the last word of    *)
(* the application was not stop - however connects, stops, checks, events, *)
(* timeouts and late answers interleave (lines 160-362).                   *)
IsSession == Promised!Spec

(* Liveness, under FairSpec *)
ProviderUp == provider # 0 /\ sockets[provider] = "open"

(* connect settles when the provider has events: with the answer, an event *)
(* or the timeout (lines 205-247).                                         *)
ConnectSettles ==
    \A c \in Calls : (calls[c].outer = "pending" /\ WithEvents) ~> calls[c].outer # "pending"

(* stop ends, with "disconnected" or its timeout, whatever it closes and   *)
(* whoever connects meanwhile (lines 250-266).                             *)
StopEnds == \A k \in Stops : Stopping(k) ~> ~Stopping(k)

(* After a loss the check noticed, attempts follow until a provider is up, *)
(* however many of them are lost on the way (lines 341, 345-362), unless   *)
(* the application stops, an initialisation is cut short, or the bound on  *)
(* the number of calls is reached.                                         *)
Reopens ==
    (initialised /\ ~wasConnected)
        ~> (ProviderUp \/ wasConnected \/ isStopping \/ initCut \/ nCalls = MaxConnects)

-----------------------------------------------------------------------------
(* What a comment or a test says and the code does not do *)

(* EthereumConnection.providers.test.js, lines 97-99: when stop is done    *)
(* the connection stays down until the application connects again.         *)
Stopped == isStopping /\ \A k \in Stops : ~Stopping(k)
StopIsLast == [][Stopped /\ Stopped' /\ initialised' => initialised]_vars

(* Line 38: reconnects in case of connection dropped. *)
Recovers == (initialised /\ ~wasConnected) ~> (wasConnected \/ isStopping)
=============================================================================
