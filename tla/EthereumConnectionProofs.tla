----------------------- MODULE EthereumConnectionProofs -----------------------
(***************************************************************************)
(* Proofs about module EthereumConnection, for any number of calls of      *)
(* connect, sockets, checks, faults and stops, with every provider.        *)
(***************************************************************************)
EXTENDS EthereumConnection, TLAPS

CallSet == [by : {"user", "reconnect"}, inner : Inner, outer : Outer, via : 0 .. MaxConnects]
StopSet == [at : {"none", "asking", "closing", "resolved", "rejected"}, via : 0 .. MaxConnects]
TimersEnded == timers \subseteq {c \in Calls : calls[c].inner = "ended"}

-----------------------------------------------------------------------------
(* The invariant *)

(* Calls that were not made are idle, so that making one overwrites none. *)
FreshInv == \A c \in Calls : c > nCalls => calls[c].inner = "none"

(* Stops that were not made are idle, too. *)
MadeInv == \A k \in Stops : k > nStops => stops[k].at = "none"

(* The check reports a loss only while wasConnected, and then resets it. *)
ReportInv == checkLost \in {0, 1} /\ (wasConnected => checkLost = 0)

Inv == TypeOK /\ FreshInv /\ MadeInv /\ ResolvedIsInitialised /\ ReportInv /\ Watched

-----------------------------------------------------------------------------
(* What events do to the calls *)

(* What other events and calls leave alone in a call: an initialisation    *)
(* goes on, one that is resolved or was not made stays so.                 *)
Keeps(before, after) ==
    /\ after \in CallSet
    /\ before.inner = "init" => after.inner = "init"
    /\ before.inner = "none" => after.inner = "none"
    /\ after.outer = "resolved" => after.inner = "ended" \/ before.outer = "resolved"
    /\ before.inner = "ended" => after.inner = "ended"

LEMMA KeptInv ==
    ASSUME NEW cs, \A c \in Calls : Keeps(calls[c], cs[c]),
           NEW c \in Calls
    PROVE  /\ cs[c] \in CallSet
           /\ calls[c].inner = "init" => cs[c].inner = "init"
           /\ calls[c].inner = "none" => cs[c].inner = "none"
           /\ (calls[c].outer = "resolved" => calls[c].inner = "ended")
                => (cs[c].outer = "resolved" => cs[c].inner = "ended")
BY DEF Keeps

LEMMA RefusedKeeps ==
    ASSUME TypeOK
    PROVE  /\ DOMAIN Refused(calls) = Calls /\ Refused(calls) \in [Calls -> CallSet]
           /\ \A c \in Calls : Keeps(calls[c], Refused(calls)[c])
<1> DEFINE cs == Refused(calls)
<1>1. ASSUME NEW c \in Calls PROVE Keeps(calls[c], cs[c])
  <2>1. calls[c] \in CallSet
    BY DEF TypeOK, CallSet
  <2>2. CASE c \notin Listening(calls)
    <3>1. cs[c] = calls[c]
      BY <2>2 DEF Refused
    <3> QED
      BY <2>1, <3>1 DEF Keeps
  <2>3. CASE c \in Listening(calls)
    <3>1. calls[c].inner = "listening"
      BY <2>3 DEF Listening
    <3>2. cs[c] = [calls[c] EXCEPT !.inner = "failed",
                                   !.outer = IF @ = "pending" THEN "rejected" ELSE @]
      BY <2>3 DEF Refused
    <3>3. /\ cs[c] \in CallSet /\ cs[c].inner = "failed"
          /\ cs[c].outer = "resolved" => calls[c].outer = "resolved"
      BY <2>1, <3>2 DEF CallSet, Inner, Outer
    <3> QED
      BY <3>1, <3>3 DEF Keeps
  <2> QED
    BY <2>2, <2>3
<1>2. DOMAIN cs = Calls /\ \A c \in Calls : cs[c] \in CallSet
  BY <1>1 DEF Refused, Keeps
<1>3. cs \in [Calls -> CallSet]
  BY <1>2 DEF Refused
<1> QED
  BY <1>1, <1>2, <1>3

LEMMA ReinitialisedKeeps ==
    ASSUME TypeOK
    PROVE  /\ Reinitialised(calls) \in [Calls -> CallSet]
           /\ \A c \in Calls : Keeps(calls[c], Reinitialised(calls)[c])
           /\ \A c \in Listening(calls) : Reinitialised(calls)[c].inner = "init"
<1> DEFINE cs == Reinitialised(calls)
<1>1. ASSUME NEW c \in Calls
      PROVE  Keeps(calls[c], cs[c]) /\ (c \in Listening(calls) => cs[c].inner = "init")
  <2>1. calls[c] \in CallSet /\ provider \in 0 .. MaxConnects
    BY DEF TypeOK, CallSet
  <2>2. CASE c \notin Listening(calls)
    <3>1. cs[c] = calls[c]
      BY <2>2 DEF Reinitialised
    <3> QED
      BY <2>1, <2>2, <3>1 DEF Keeps
  <2>3. CASE c \in Listening(calls)
    <3>1. calls[c].inner = "listening"
      BY <2>3 DEF Listening
    <3>2. cs[c] = [calls[c] EXCEPT !.inner = "init", !.via = provider]
      BY <2>3 DEF Reinitialised
    <3>3. cs[c] \in CallSet /\ cs[c].inner = "init" /\ cs[c].outer = calls[c].outer
      BY <2>1, <3>2 DEF CallSet, Inner
    <3> QED
      BY <3>1, <3>3 DEF Keeps
  <2> QED
    BY <2>2, <2>3
<1>2. cs \in [Calls -> CallSet]
  BY <1>1 DEF Reinitialised, Keeps
<1> QED
  BY <1>1, <1>2 DEF Listening

(* A call of connect: it takes the next number, and either asks first or   *)
(* clears the timer and initialises at once.                               *)
LEMMA ConnectMakes ==
    ASSUME TypeOK, FreshInv, NEW by \in {"user", "reconnect"}, NEW cs \in [Calls -> CallSet],
           \A c \in Calls : Keeps(calls[c], cs[c]),
           Connect(by, cs)
    PROVE  /\ nCalls' \in 0 .. MaxConnects /\ nCalls' = nCalls + 1 /\ nCalls' \in Calls
           /\ isStopping' = FALSE /\ provider' \in 0 .. MaxConnects
           /\ connectionCheckTimer' = connectionCheckTimer
           /\ timers' \subseteq timers
           /\ \A c \in Calls : calls[c].inner = "ended" => calls'[c].inner = "ended"
           /\ sockets' \in [Sockets -> SocketStates]
           /\ calls' \in [Calls -> CallSet]
           /\ \A c \in Calls : /\ c # nCalls' => calls'[c] = cs[c]
                               /\ c = nCalls' => /\ calls'[c].by = by
                                                 /\ calls'[c].outer = "pending"
                                                 /\ calls'[c].inner \in {"asking", "init"}
                               /\ calls[c].inner = "init" => calls'[c].inner = "init"
           /\ timers' = timers \/ calls'[nCalls'].inner = "init"
<1> DEFINE c == nCalls + 1
           s == IF kind = "given" THEN 1 ELSE c
           new == [by |-> by, via |-> s, outer |-> "pending",
                   inner |-> IF WithEvents THEN "asking" ELSE "init"]
<1>1. nCalls < MaxConnects /\ nCalls \in 0 .. MaxConnects /\ MaxConnects \in Nat
  BY ConnectionAssumption DEF Connect, TypeOK
<1>2. c \in Calls /\ s \in Calls /\ s \in 0 .. MaxConnects /\ c \in 0 .. MaxConnects
  BY <1>1 DEF Calls
<1>3. /\ nCalls' = c /\ isStopping' = FALSE /\ provider' = s
      /\ sockets' = CASE kind = "given" -> sockets
                      [] kind = "http" -> [sockets EXCEPT ![s] = "open"]
                      [] OTHER -> [sockets EXCEPT ![s] = "connecting"]
      /\ calls' = [cs EXCEPT ![c] = new]
      /\ timers' = IF WithEvents THEN timers ELSE timers \ {connectionCheckTimer}
      /\ connectionCheckTimer' = connectionCheckTimer
  BY DEF Connect, ClearTimer
<1>4. new \in CallSet /\ new.by = by /\ new.outer = "pending"
      /\ new.inner \in {"asking", "init"} /\ (~WithEvents => new.inner = "init")
  <2> HIDE DEF s
  <2> QED
    BY <1>2 DEF CallSet, Inner, Outer
<1> HIDE DEF new
<1>5. sockets' \in [Sockets -> SocketStates]
  <2>1. sockets \in [Sockets -> SocketStates] /\ s \in Sockets
    BY <1>2 DEF TypeOK, Sockets
  <2> HIDE DEF s
  <2>2. CASE kind = "given"
    BY <1>3, <2>1, <2>2
  <2>3. CASE kind = "http"
    BY <1>3, <2>1, <2>3 DEF SocketStates
  <2>4. CASE kind \notin {"given", "http"}
    BY <1>3, <2>1, <2>4 DEF SocketStates
  <2> QED
    BY <2>2, <2>3, <2>4
<1>6. calls' \in [Calls -> CallSet]
  <2> HIDE DEF c
  <2> QED
    BY <1>2, <1>3, <1>4
<1>7. ASSUME NEW d \in Calls
      PROVE  /\ d # c => calls'[d] = cs[d]
             /\ d = c => calls'[d] = new
             /\ calls[d].inner = "init" => calls'[d].inner = "init"
             /\ calls[d].inner = "ended" => calls'[d].inner = "ended"
  <2>1. /\ d # c => calls'[d] = cs[d]
        /\ d = c => calls'[d] = new
    BY <1>2, <1>3
  <2>2. d = c => calls[d].inner = "none"
    BY <1>1, <1>2 DEF FreshInv
  <2>3. /\ calls[d].inner = "init" => cs[d].inner = "init"
        /\ calls[d].inner = "ended" => cs[d].inner = "ended"
    BY DEF Keeps
  <2> QED
    BY <2>1, <2>2, <2>3
<1>8. timers' \subseteq timers
  BY <1>3
<1>9. timers' = timers \/ calls'[c].inner = "init"
  BY <1>2, <1>3, <1>4, <1>7
<1> HIDE DEF c, s
<1> QED
  BY <1>2, <1>3, <1>4, <1>5, <1>6, <1>7, <1>8, <1>9 DEF c

-----------------------------------------------------------------------------
(* Watched, in terms of the calls *)

LEMMA StillWatched ==
    ASSUME Watched, connectionCheckTimer' = connectionCheckTimer,
           initialised' => initialised, initCut => initCut',
           \A c \in Calls : calls[c].inner = "init" => calls'[c].inner = "init",
           timers' = timers \/ \E c \in Calls : calls'[c].inner = "init"
    PROVE  Watched'
BY DEF Watched, Initialising

-----------------------------------------------------------------------------
(* The actions *)

LEMMA FaultsStayBounded ==
    ASSUME TypeOK
    PROVE  Fault \/ UNCHANGED faults => faults' \in 0 .. MaxFaults
BY ConnectionAssumption DEF TypeOK, Fault

LEMMA AnswersAreTyped ==
    ASSUME TypeOK, NEW s, AnswersYes(s) \/ AnswersNo(s)
    PROVE  faults' \in 0 .. MaxFaults
BY FaultsStayBounded DEF AnswersYes, AnswersNo

(* The calls' part of the type invariant, and what it says of one call. *)
LEMMA CallsAreTyped ==
    ASSUME TypeOK
    PROVE  /\ calls \in [Calls -> CallSet]
           /\ \A c \in Calls : calls[c] \in CallSet /\ Keeps(calls[c], calls[c])
BY DEF TypeOK, CallSet, Keeps

(* Intervals belong to initialisations that ended, and stay theirs. *)
LEMMA TimersStayEnded ==
    ASSUME TypeOK, timers' \subseteq timers,
           \A c \in Calls : calls[c].inner = "ended" => calls'[c].inner = "ended"
    PROVE  TimersEnded'
BY DEF TypeOK, TimersEnded

(* Calls that keep what they have keep the invariant. *)
LEMMA KeepingIsSafe ==
    ASSUME Inv, UNCHANGED nCalls, \A c \in Calls : Keeps(calls[c], calls'[c])
    PROVE  FreshInv' /\ ResolvedIsInitialised'
<1>1. \A c \in Calls : calls[c].outer = "resolved" => calls[c].inner = "ended"
  BY DEF Inv, ResolvedIsInitialised
<1>2. \A c \in Calls : c > nCalls => calls[c].inner = "none"
  BY DEF Inv, FreshInv
<1>3. \A c \in Calls : c > nCalls => calls'[c].inner = "none"
  BY <1>2 DEF Keeps
<1>4. \A c \in Calls : calls'[c].outer = "resolved" => calls'[c].inner = "ended"
  BY <1>1 DEF Keeps
<1> QED
  BY <1>3, <1>4 DEF FreshInv, ResolvedIsInitialised

(* One call changes, by its own action: not one that was not made. *)
LEMMA OneCallMoves ==
    ASSUME Inv, UNCHANGED nCalls, NEW c \in Calls, calls[c].inner # "none",
           calls' \in [Calls -> CallSet],
           \A d \in Calls : d # c => Keeps(calls[d], calls'[d]),
           calls'[c].outer = "resolved" => calls'[c].inner = "ended"
    PROVE  FreshInv' /\ ResolvedIsInitialised'
<1>1. \A d \in Calls : calls[d].outer = "resolved" => calls[d].inner = "ended"
  BY DEF Inv, ResolvedIsInitialised
<1>2. \A d \in Calls : d > nCalls => calls[d].inner = "none"
  BY DEF Inv, FreshInv
<1>3. \A d \in Calls : d > nCalls => calls'[d].inner = "none"
  BY <1>2 DEF Keeps
<1>4. \A d \in Calls : calls'[d].outer = "resolved" => calls'[d].inner = "ended"
  BY <1>1 DEF Keeps
<1> QED
  BY <1>3, <1>4 DEF FreshInv, ResolvedIsInitialised

LEMMA UserConnectStep ==
    ASSUME Inv, UserConnect
    PROVE  Inv'
<1>1. TypeOK /\ FreshInv
  BY DEF Inv
<1>2. /\ Connect("user", calls)
      /\ UNCHANGED <<kind, isTryingToReconnect, wasConnected, checks, stops, nStops, faults,
                     checkLost, initialised, initCut>>
  BY DEF UserConnect, stopVars, eventVars
<1>3. /\ nCalls' \in 0 .. MaxConnects /\ nCalls' = nCalls + 1 /\ nCalls' \in Calls
      /\ isStopping' = FALSE /\ provider' \in 0 .. MaxConnects
      /\ connectionCheckTimer' = connectionCheckTimer
      /\ timers' \subseteq timers
      /\ \A c \in Calls : calls[c].inner = "ended" => calls'[c].inner = "ended"
      /\ sockets' \in [Sockets -> SocketStates]
      /\ calls' \in [Calls -> CallSet]
      /\ \A c \in Calls : /\ c # nCalls' => calls'[c] = calls[c]
                          /\ c = nCalls' => /\ calls'[c].by = "user"
                                            /\ calls'[c].outer = "pending"
                                            /\ calls'[c].inner \in {"asking", "init"}
                          /\ calls[c].inner = "init" => calls'[c].inner = "init"
      /\ timers' = timers \/ calls'[nCalls'].inner = "init"
  BY <1>1, <1>2, CallsAreTyped, ConnectMakes
<1>4. TypeOK'
  <2>1. TimersEnded'
    BY <1>1, <1>3, TimersStayEnded
  <2> QED
    BY <1>1, <1>2, <1>3, <2>1 DEF TypeOK, CallSet, TimersEnded
<1>5. FreshInv'
  BY <1>1, <1>3 DEF FreshInv, Calls, TypeOK
<1>6. ResolvedIsInitialised'
  BY <1>3 DEF Inv, ResolvedIsInitialised
<1>7. ReportInv' /\ MadeInv'
  BY <1>2 DEF Inv, ReportInv, MadeInv
<1>8. Watched'
  BY <1>2, <1>3, StillWatched DEF Inv
<1> QED
  BY <1>4, <1>5, <1>6, <1>7, <1>8 DEF Inv

LEMMA ConnectAnsweredStep ==
    ASSUME Inv, NEW c \in Calls, ConnectAnswered(c)
    PROVE  Inv'
<1>1. TypeOK /\ calls[c].inner = "asking"
      /\ UNCHANGED <<kind, isStopping, isTryingToReconnect, wasConnected, connectionCheckTimer,
                     provider, nCalls, checks, stops, nStops, sockets,
                     checkLost, initialised, initCut>>
  BY DEF Inv, ConnectAnswered, fieldVars, stopVars, eventVars
<1>2. calls[c].outer # "resolved"
  BY <1>1 DEF Inv, ResolvedIsInitialised
<1>3. faults' \in 0 .. MaxFaults
  BY <1>1, AnswersAreTyped DEF ConnectAnswered
<1>4. \E new \in CallSet :
         /\ calls' = [calls EXCEPT ![c] = new]
         /\ new.outer = calls[c].outer
         /\ \/ new.inner = "init" /\ timers' = timers \ {connectionCheckTimer}
            \/ timers' = timers
  <2>1. calls[c] \in CallSet /\ calls \in [Calls -> CallSet] /\ provider \in 0 .. MaxConnects
    BY <1>1, CallsAreTyped DEF TypeOK
  <2>2. CASE calls' = [calls EXCEPT ![c].inner = "init", ![c].via = provider]
             /\ timers' = timers \ {connectionCheckTimer}
    <3> DEFINE new == [calls[c] EXCEPT !.inner = "init", !.via = provider]
    <3>1. new \in CallSet /\ new.outer = calls[c].outer /\ new.inner = "init"
      BY <2>1 DEF CallSet, Inner
    <3>2. calls' = [calls EXCEPT ![c] = new]
      BY <2>1, <2>2
    <3> QED
      BY <2>2, <3>1, <3>2
  <2>3. CASE calls' = [calls EXCEPT ![c].inner = "listening"] /\ timers' = timers
    <3> DEFINE new == [calls[c] EXCEPT !.inner = "listening"]
    <3>1. new \in CallSet /\ new.outer = calls[c].outer
      BY <2>1 DEF CallSet, Inner
    <3>2. calls' = [calls EXCEPT ![c] = new]
      BY <2>1, <2>3
    <3> QED
      BY <2>3, <3>1, <3>2
  <2> QED
    BY <2>2, <2>3 DEF ConnectAnswered, ClearTimer
<1>5. PICK new \in CallSet :
         /\ calls' = [calls EXCEPT ![c] = new]
         /\ new.outer = calls[c].outer
         /\ \/ new.inner = "init" /\ timers' = timers \ {connectionCheckTimer}
            \/ timers' = timers
  BY <1>4
<1>6. calls' \in [Calls -> CallSet] /\ calls'[c] = new
      /\ \A d \in Calls : d # c => calls'[d] = calls[d]
  BY <1>1, <1>5, CallsAreTyped
<1>7. TypeOK'
  <2>1. TimersEnded'
    BY <1>1, <1>5, <1>6, TimersStayEnded
  <2> QED
    BY <1>1, <1>3, <1>5, <1>6, <2>1 DEF TypeOK, CallSet, TimersEnded
<1>8. FreshInv' /\ ResolvedIsInitialised'
  BY <1>1, <1>2, <1>5, <1>6, CallsAreTyped, OneCallMoves
<1>9. ReportInv' /\ MadeInv'
  BY <1>1 DEF Inv, ReportInv, MadeInv
<1>10. Watched'
  BY <1>1, <1>5, <1>6, StillWatched DEF Inv
<1> QED
  BY <1>7, <1>8, <1>9, <1>10 DEF Inv

LEMMA ConnectTimeoutStep ==
    ASSUME Inv, NEW c \in Calls, ConnectTimeout(c)
    PROVE  Inv'
<1>1. /\ TypeOK /\ calls[c].outer = "pending"
      /\ calls' = [calls EXCEPT ![c].outer = "rejected"]
      /\ isTryingToReconnect' = (isTryingToReconnect /\ ~ReconnectEnded(calls'))
      /\ Fault \/ UNCHANGED faults
      /\ UNCHANGED <<kind, isStopping, wasConnected, connectionCheckTimer, timers,
                     provider, nCalls, checks, stops, nStops, sockets,
                     checkLost, initialised, initCut>>
  BY DEF Inv, ConnectTimeout, TimesOut, timerVars, stopVars, eventVars
<1>2. /\ calls' \in [Calls -> CallSet]
      /\ \A d \in Calls : Keeps(calls[d], calls'[d])
  <2> DEFINE new == [calls[c] EXCEPT !.outer = "rejected"]
  <2>1. calls[c] \in CallSet /\ calls \in [Calls -> CallSet]
    BY <1>1, CallsAreTyped
  <2>2. new \in CallSet /\ new.inner = calls[c].inner /\ new.outer = "rejected"
    BY <2>1 DEF CallSet, Outer
  <2>3. calls' = [calls EXCEPT ![c] = new]
    BY <1>1, <2>1
  <2> HIDE DEF new
  <2>4. /\ calls' \in [Calls -> CallSet] /\ calls'[c] = new
        /\ \A d \in Calls : d # c => calls'[d] = calls[d]
    BY <2>1, <2>2, <2>3
  <2>5. Keeps(calls[c], new)
    BY <2>2 DEF Keeps
  <2> QED
    BY <1>1, <2>4, <2>5, CallsAreTyped
<1>3. isTryingToReconnect' \in BOOLEAN /\ faults' \in 0 .. MaxFaults
  BY <1>1, FaultsStayBounded
<1>4. TypeOK'
  <2>1. TimersEnded'
    BY <1>1, <1>2, TimersStayEnded DEF Keeps
  <2> QED
    BY <1>1, <1>2, <1>3, <2>1 DEF TypeOK, CallSet, TimersEnded
<1>5. FreshInv' /\ ResolvedIsInitialised'
  BY <1>1, <1>2, KeepingIsSafe
<1>6. ReportInv' /\ MadeInv'
  BY <1>1 DEF Inv, ReportInv, MadeInv
<1>7. Watched'
  <2>1. \A d \in Calls : calls[d].inner = "init" => calls'[d].inner = "init"
    BY <1>2 DEF Keeps
  <2> QED
    BY <1>1, <2>1, StillWatched DEF Inv
<1> QED
  BY <1>4, <1>5, <1>6, <1>7 DEF Inv

(* An initialisation ends: if nobody listens its timer runs, and else the  *)
(* listeners initialise again.                                             *)
LEMMA InitDoneStep ==
    ASSUME Inv, NEW c \in Calls, InitDone(c)
    PROVE  Inv'
<1> DEFINE cs == Reinitialised(calls)
           new == [cs[c] EXCEPT !.inner = "ended",
                                !.outer = IF @ = "pending" THEN "resolved" ELSE @]
<1>1. /\ TypeOK /\ calls[c].inner = "init"
      /\ isTryingToReconnect' = FALSE /\ wasConnected' = TRUE
      /\ connectionCheckTimer' = IF Checking THEN c ELSE connectionCheckTimer
      /\ timers' = IF Listening(calls) # {} THEN timers \ {connectionCheckTimer'}
                   ELSE IF Checking THEN timers \cup {c} ELSE timers
      /\ checkLost' = 0 /\ initialised' = TRUE
      /\ UNCHANGED <<kind, isStopping, provider, nCalls, checks, stops, nStops,
                     sockets, faults, initCut>>
  BY DEF Inv, InitDone, TimerOf, stopVars
<1>2. /\ cs \in [Calls -> CallSet]
      /\ \A d \in Calls : Keeps(calls[d], cs[d])
      /\ \A d \in Listening(calls) : cs[d].inner = "init"
  BY <1>1, ReinitialisedKeeps
<1>3. calls' = [cs EXCEPT ![c].inner = "ended",
                          ![c].outer = IF @ = "pending" THEN "resolved" ELSE @]
  BY DEF InitDone
<1> HIDE DEF cs
<1>4. calls' = [cs EXCEPT ![c] = new]
  BY <1>2, <1>3
<1>5. new \in CallSet /\ new.inner = "ended"
  BY <1>2 DEF CallSet, Inner, Outer
<1> HIDE DEF new
<1>6. /\ calls' \in [Calls -> CallSet] /\ calls'[c] = new
      /\ \A d \in Calls : d # c => calls'[d] = cs[d]
  BY <1>2, <1>4, <1>5
<1>7. connectionCheckTimer' \in 0 .. MaxConnects /\ TimersEnded'
  <2>1. c \in 0 .. MaxConnects
    BY ConnectionAssumption DEF Calls
  <2>2. connectionCheckTimer' \in 0 .. MaxConnects /\ timers' \subseteq timers \cup {c}
    BY <1>1, <2>1 DEF TypeOK
  <2>3. \A d \in Calls : calls[d].inner = "ended" => calls'[d].inner = "ended"
    BY <1>1, <1>2, <1>5, <1>6 DEF Keeps
  <2> QED
    BY <1>1, <1>5, <1>6, <2>2, <2>3 DEF TypeOK, TimersEnded
<1>8. TypeOK'
  BY <1>1, <1>6, <1>7 DEF TypeOK, CallSet, TimersEnded
<1>9. FreshInv' /\ ResolvedIsInitialised'
  BY <1>1, <1>2, <1>5, <1>6, OneCallMoves
<1>10. ReportInv' /\ MadeInv'
  BY <1>1 DEF Inv, ReportInv, MadeInv
<1>11. Watched'
  <2>1. CASE Listening(calls) # {}
    <3>1. PICK d \in Calls : calls[d].inner = "listening" /\ cs[d].inner = "init"
      BY <1>2, <2>1 DEF Listening
    <3>2. calls'[d].inner = "init"
      BY <1>1, <1>6, <3>1
    <3> QED
      BY <3>2 DEF Watched, Initialising
  <2>2. CASE Listening(calls) = {}
    BY <1>1, <2>2 DEF Watched
  <2> QED
    BY <2>1, <2>2
<1> QED
  BY <1>8, <1>9, <1>10, <1>11 DEF Inv

LEMMA InitFailsStep ==
    ASSUME Inv, NEW c \in Calls, InitFails(c)
    PROVE  Inv'
<1>1. /\ TypeOK /\ calls[c].inner = "init" /\ initCut' = TRUE
      /\ calls' = [calls EXCEPT ![c].inner = "failed",
                                ![c].outer = IF WithEvents THEN @ ELSE "rejected"]
      /\ isTryingToReconnect' = (isTryingToReconnect /\ ~ReconnectEnded(calls'))
      /\ UNCHANGED <<kind, isStopping, wasConnected, connectionCheckTimer, timers, provider,
                     nCalls, checks, stops, nStops, sockets,
                     checkLost, initialised>>
  BY DEF Inv, InitFails, timerVars, stopVars
<1>2. calls[c].outer # "resolved" /\ faults' \in 0 .. MaxFaults
  BY <1>1, AnswersAreTyped DEF Inv, ResolvedIsInitialised, InitFails
<1> DEFINE new == [calls[c] EXCEPT !.inner = "failed",
                                   !.outer = IF WithEvents THEN @ ELSE "rejected"]
<1>3. calls[c] \in CallSet /\ calls \in [Calls -> CallSet]
  BY <1>1, CallsAreTyped
<1>4. new \in CallSet /\ new.outer # "resolved"
  BY <1>2, <1>3 DEF CallSet, Inner, Outer
<1>5. calls' = [calls EXCEPT ![c] = new]
  BY <1>1, <1>3
<1> HIDE DEF new
<1>6. /\ calls' \in [Calls -> CallSet] /\ calls'[c] = new
      /\ \A d \in Calls : d # c => calls'[d] = calls[d]
  BY <1>3, <1>4, <1>5
<1>7. isTryingToReconnect' \in BOOLEAN
  BY <1>1
<1>8. TypeOK'
  <2>1. TimersEnded'
    BY <1>1, <1>6, TimersStayEnded
  <2> QED
    BY <1>1, <1>2, <1>6, <1>7, <2>1 DEF TypeOK, CallSet, TimersEnded
<1>9. FreshInv' /\ ResolvedIsInitialised'
  BY <1>1, <1>4, <1>6, CallsAreTyped, OneCallMoves
<1>10. ReportInv' /\ MadeInv' /\ Watched'
  BY <1>1 DEF Inv, ReportInv, MadeInv, Watched
<1> QED
  BY <1>8, <1>9, <1>10 DEF Inv

(* The provider's events touch the calls that listen, if any.              *)
LEMMA EventStep ==
    ASSUME Inv, calls' = calls \/ calls' = Refused(calls),
           faults' \in 0 .. MaxFaults,
           sockets' \in [Sockets -> SocketStates],
           checks' \in [Sockets -> 0 .. MaxChecks],
           stops' \in [Stops -> StopSet],
           \A k \in Stops : stops[k].at = "none" => stops'[k].at = "none",
           UNCHANGED <<kind, isStopping, isTryingToReconnect, wasConnected,
                       connectionCheckTimer, timers, provider, nCalls, nStops,
                       checkLost, initialised, initCut>>
    PROVE  Inv'
<1>1. TypeOK
  BY DEF Inv
<1>2. /\ calls' \in [Calls -> CallSet]
      /\ \A c \in Calls : Keeps(calls[c], calls'[c])
  BY <1>1, CallsAreTyped, RefusedKeeps
<1>3. TypeOK'
  <2>1. TimersEnded'
    BY <1>1, <1>2, TimersStayEnded DEF Keeps
  <2> QED
    BY <1>1, <1>2, <2>1 DEF TypeOK, CallSet, StopSet, TimersEnded
<1>4. FreshInv' /\ ResolvedIsInitialised'
  BY <1>2, KeepingIsSafe
<1>5. ReportInv' /\ MadeInv'
  BY DEF Inv, ReportInv, MadeInv
<1>6. Watched'
  <2>1. \A c \in Calls : calls[c].inner = "init" => calls'[c].inner = "init"
    BY <1>2 DEF Keeps
  <2> QED
    BY <2>1, StillWatched DEF Inv
<1> QED
  BY <1>3, <1>4, <1>5, <1>6 DEF Inv

LEMMA SocketStep ==
    ASSUME Inv, NEW s \in Sockets,
           SocketOpens(s) \/ SocketEnds(s) \/ SocketCloses(s) \/ ProviderError(s)
    PROVE  Inv'
<1>1. /\ TypeOK /\ sockets \in [Sockets -> SocketStates]
      /\ nCalls \in Nat /\ checks \in [Sockets -> 0 .. MaxChecks]
      /\ faults \in 0 .. MaxFaults /\ stops \in [Stops -> StopSet]
      /\ {"open", "closed"} \subseteq SocketStates
  BY ConnectionAssumption DEF Inv, TypeOK, StopSet, SocketStates
<1>3. CASE SocketOpens(s)
  <2>1. sockets' = [sockets EXCEPT ![s] = "open"]
        /\ UNCHANGED <<fieldVars, timerVars, callVars, checks, stopVars, faults, eventVars>>
    BY <1>3 DEF SocketOpens
  <2>2. sockets' \in [Sockets -> SocketStates]
    BY <1>1, <2>1
  <2> QED
    BY <1>1, <2>1, <2>2, EventStep DEF fieldVars, timerVars, callVars, stopVars, eventVars
<1>4. CASE SocketEnds(s)
  <2>1. /\ Fault \/ UNCHANGED faults
        /\ sockets' = [sockets EXCEPT ![s] = "closed"]
        /\ UNCHANGED <<fieldVars, timerVars, provider, nCalls, checks, stopVars, eventVars>>
        /\ calls' = calls \/ calls' = Refused(calls)
    BY <1>4 DEF SocketEnds
  <2>2. sockets' \in [Sockets -> SocketStates]
    BY <1>1, <2>1
  <2>3. faults' \in 0 .. MaxFaults
    BY <1>1, <2>1, FaultsStayBounded
  <2> QED
    BY <1>1, <2>1, <2>2, <2>3, EventStep DEF fieldVars, timerVars, stopVars, eventVars
<1>5. CASE SocketCloses(s)
  <2>1. /\ Fault \/ UNCHANGED faults
        /\ sockets' = [sockets EXCEPT ![s] = "closed"]
        /\ UNCHANGED <<fieldVars, timerVars, callVars, checks, nStops, eventVars>>
        /\ stops' = Disconnected \/ stops' = stops
    BY <1>5 DEF SocketCloses
  <2>2. sockets' \in [Sockets -> SocketStates]
    BY <1>1, <2>1
  <2>3. faults' \in 0 .. MaxFaults
    BY <1>1, <2>1, FaultsStayBounded
  <2>4. /\ stops' \in [Stops -> StopSet]
        /\ \A k \in Stops : stops[k].at = "none" => stops'[k].at = "none"
    BY <1>1, <2>1 DEF Disconnected, StopSet
  <2> QED
    BY <1>1, <2>1, <2>2, <2>3, <2>4, EventStep DEF fieldVars, timerVars, callVars, eventVars
<1>6. CASE ProviderError(s)
  <2>1. /\ Fault /\ calls' = Refused(calls)
        /\ UNCHANGED <<fieldVars, timerVars, provider, nCalls, checks, stopVars,
                       sockets, eventVars>>
    BY <1>6 DEF ProviderError
  <2>2. faults' \in 0 .. MaxFaults
    BY <1>1, <2>1, FaultsStayBounded
  <2> QED
    BY <1>1, <2>1, <2>2, EventStep DEF fieldVars, timerVars, stopVars, eventVars
<1> QED
  BY <1>3, <1>4, <1>5, <1>6

(* A check of a socket begins, and ends. *)
LEMMA ChecksAreCounted ==
    ASSUME TypeOK
    PROVE  /\ \A t \in Calls : Tick(t) => checks' \in [Sockets -> 0 .. MaxChecks]
           /\ \A s \in Sockets : CheckDone(s) => checks' \in [Sockets -> 0 .. MaxChecks]
<1>1. checks \in [Sockets -> 0 .. MaxChecks] /\ MaxChecks \in Nat
  BY ConnectionAssumption DEF TypeOK
<1>2. ASSUME NEW t \in Calls, Tick(t) PROVE checks' \in [Sockets -> 0 .. MaxChecks]
  <2>1. checks' = [checks EXCEPT ![provider] = @ + 1] /\ checks[provider] < MaxChecks
    BY <1>2 DEF Tick
  <2>2. CASE provider \in Sockets
    <3>1. checks[provider] + 1 \in 0 .. MaxChecks
      BY <1>1, <2>1, <2>2
    <3> QED
      BY <1>1, <2>1, <2>2, <3>1
  <2>3. CASE provider \notin Sockets
    BY <1>1, <2>1, <2>3
  <2> QED
    BY <2>2, <2>3
<1>3. ASSUME NEW s \in Sockets, CheckDone(s) PROVE checks' \in [Sockets -> 0 .. MaxChecks]
  <2>1. checks' = [checks EXCEPT ![s] = @ - 1] /\ checks[s] > 0
    BY <1>3 DEF CheckDone
  <2>2. checks[s] - 1 \in 0 .. MaxChecks
    BY <1>1, <2>1
  <2> QED
    BY <1>1, <2>1, <2>2
<1> QED
  BY <1>2, <1>3

(* A check finds the provider down: it reports that, if it did not before, *)
(* and may call connect.                                                   *)
LEMMA CheckFailsStep ==
    ASSUME Inv, NEW s \in Sockets, CheckFails(s)
    PROVE  Inv'
<1> DEFINE cs == IF wasConnected THEN Refused(calls) ELSE calls
<1>1. /\ TypeOK /\ FreshInv /\ CheckDone(s) /\ AnswersNo(s) /\ ReportLost
      /\ UNCHANGED <<kind, stops, nStops, initialised, initCut>>
  BY DEF Inv, CheckFails, stopVars
<1>2. /\ cs \in [Calls -> CallSet]
      /\ \A c \in Calls : Keeps(calls[c], cs[c])
  BY <1>1, CallsAreTyped, RefusedKeeps
<1>3. /\ checks' \in [Sockets -> 0 .. MaxChecks]
      /\ faults' \in 0 .. MaxFaults
      /\ wasConnected' = FALSE /\ checkLost' \in {0, 1}
  <2>1. checkLost \in {0, 1} /\ (wasConnected => checkLost = 0)
    BY DEF Inv, ReportInv
  <2>2. wasConnected' = FALSE /\ checkLost' \in {0, 1}
    BY <1>1, <2>1 DEF ReportLost
  <2> QED
    BY <1>1, <2>2, ChecksAreCounted, AnswersAreTyped
<1>4. ReportInv' /\ MadeInv'
  BY <1>1, <1>3 DEF Inv, ReportInv, MadeInv
<1>5. /\ kind' \in Kinds /\ wasConnected' \in BOOLEAN
      /\ checks' \in [Sockets -> 0 .. MaxChecks]
      /\ stops' \in [Stops -> StopSet] /\ nStops' \in 0 .. MaxStops
      /\ faults' \in 0 .. MaxFaults
      /\ checkLost' \in Nat /\ initialised' \in BOOLEAN /\ initCut' \in BOOLEAN
  <2> HIDE DEF cs
  <2>1. wasConnected' \in BOOLEAN
    BY <1>3
  <2>2. checkLost' \in Nat
    BY <1>3
  <2> QED
    BY <1>1, <1>3, <2>1, <2>2 DEF TypeOK, StopSet
<1>6. CASE /\ calls' = cs
           /\ isTryingToReconnect' = (isTryingToReconnect /\ ~ReconnectEnded(cs))
           /\ UNCHANGED <<isStopping, provider, nCalls, timerVars, sockets>>
  <2>1. isTryingToReconnect' \in BOOLEAN
    BY <1>6
  <2>2. TypeOK'
    <3>1. calls' \in [Calls -> CallSet]
      BY <1>2, <1>6
    <3>3. TimersEnded'
      BY <1>1, <1>2, <1>6, TimersStayEnded DEF Keeps, timerVars
    <3> HIDE DEF cs
    <3>2. /\ isStopping' \in BOOLEAN /\ provider' \in 0 .. MaxConnects
          /\ connectionCheckTimer' \in 0 .. MaxConnects
          /\ nCalls' \in 0 .. MaxConnects
          /\ sockets' \in [Sockets -> SocketStates]
      <4>1. UNCHANGED <<isStopping, provider, nCalls, connectionCheckTimer, timers, sockets>>
        BY <1>6 DEF timerVars
      <4>2. /\ isStopping \in BOOLEAN /\ provider \in 0 .. MaxConnects
            /\ connectionCheckTimer \in 0 .. MaxConnects
            /\ nCalls \in 0 .. MaxConnects
            /\ sockets \in [Sockets -> SocketStates]
        BY <1>1 DEF TypeOK
      <4> QED
        BY <4>1, <4>2
    <3> QED
      BY <1>5, <2>1, <3>1, <3>2, <3>3 DEF TypeOK, CallSet, StopSet, TimersEnded
  <2>3. FreshInv' /\ ResolvedIsInitialised'
    BY <1>2, <1>6, KeepingIsSafe
  <2>4. Watched'
    <3>1. \A c \in Calls : calls[c].inner = "init" => calls'[c].inner = "init"
      BY <1>2, <1>6 DEF Keeps
    <3> QED
      BY <1>1, <1>6, <3>1, StillWatched DEF Inv, timerVars
  <2> QED
    BY <1>4, <2>2, <2>3, <2>4 DEF Inv
<1>7. CASE Connect("reconnect", cs) /\ isTryingToReconnect' = ~ReconnectEnded(cs)
  <2> HIDE DEF cs
  <2>1. /\ nCalls' \in 0 .. MaxConnects /\ nCalls' = nCalls + 1 /\ nCalls' \in Calls
        /\ isStopping' = FALSE /\ provider' \in 0 .. MaxConnects
        /\ connectionCheckTimer' = connectionCheckTimer
        /\ timers' \subseteq timers
        /\ \A c \in Calls : calls[c].inner = "ended" => calls'[c].inner = "ended"
        /\ sockets' \in [Sockets -> SocketStates]
        /\ calls' \in [Calls -> CallSet]
        /\ \A c \in Calls : /\ c # nCalls' => calls'[c] = cs[c]
                            /\ c = nCalls' => /\ calls'[c].by = "reconnect"
                                              /\ calls'[c].outer = "pending"
                                              /\ calls'[c].inner \in {"asking", "init"}
                            /\ calls[c].inner = "init" => calls'[c].inner = "init"
        /\ timers' = timers \/ calls'[nCalls'].inner = "init"
    BY <1>1, <1>2, <1>7, ConnectMakes
  <2>2. isTryingToReconnect' \in BOOLEAN
    BY <1>7
  <2>3. TypeOK'
    <3>1. isStopping' \in BOOLEAN
      BY <2>1
    <3>2. connectionCheckTimer' \in 0 .. MaxConnects
      BY <1>1, <2>1 DEF TypeOK
    <3>3. TimersEnded'
      BY <1>1, <2>1, TimersStayEnded
    <3> QED
      BY <1>5, <2>1, <2>2, <3>1, <3>2, <3>3 DEF TypeOK, CallSet, StopSet, TimersEnded
  <2>4. FreshInv'
    <3>1. nCalls \in Nat /\ Calls \subseteq Nat
      BY <1>1, ConnectionAssumption DEF TypeOK, Calls
    <3>2. ASSUME NEW c \in Calls, c > nCalls + 1 PROVE calls'[c].inner = "none"
      <4>1. c > nCalls /\ c # nCalls'
        BY <2>1, <3>1, <3>2
      <4>2. calls[c].inner = "none"
        BY <1>1, <4>1 DEF FreshInv
      <4> QED
        BY <1>2, <2>1, <4>1, <4>2 DEF Keeps
    <3> QED
      BY <2>1, <3>2 DEF FreshInv
  <2>5. ResolvedIsInitialised'
    <3>1. ASSUME NEW c \in Calls, calls'[c].outer = "resolved" PROVE calls'[c].inner = "ended"
      <4>1. calls'[c] = cs[c]
        BY <2>1, <3>1
      <4>2. calls[c].outer = "resolved" => calls[c].inner = "ended"
        BY DEF Inv, ResolvedIsInitialised
      <4> QED
        BY <1>2, <3>1, <4>1, <4>2 DEF Keeps
    <3> QED
      BY <3>1 DEF ResolvedIsInitialised
  <2>6. Watched'
    BY <1>1, <2>1, StillWatched DEF Inv
  <2> QED
    BY <1>4, <2>3, <2>4, <2>5, <2>6 DEF Inv
<1> QED
  BY <1>6, <1>7 DEF CheckFails

LEMMA StopStep ==
    ASSUME Inv, Stop
    PROVE  Inv'
<1>1. /\ TypeOK /\ nStops < MaxStops /\ nStops' = nStops + 1
      /\ isStopping' = TRUE /\ timers' = timers \ {connectionCheckTimer} /\ initialised' = FALSE
      /\ stops' = [stops EXCEPT ![nStops'] =
                      [at |-> IF WithEvents /\ provider # 0 THEN "asking" ELSE "resolved",
                       via |-> provider]]
      /\ UNCHANGED <<kind, isTryingToReconnect, wasConnected, connectionCheckTimer, provider,
                     calls, nCalls, checks, sockets, faults, checkLost, initCut>>
  BY DEF Inv, Stop, callVars
<1>2. nStops' \in 0 .. MaxStops /\ stops' \in [Stops -> StopSet]
  <2>1. /\ nStops \in 0 .. MaxStops /\ MaxStops \in Nat /\ provider \in 0 .. MaxConnects
        /\ stops \in [Stops -> StopSet]
    BY <1>1, ConnectionAssumption DEF TypeOK, StopSet
  <2> DEFINE new == [at |-> IF WithEvents /\ provider # 0 THEN "asking" ELSE "resolved",
                     via |-> provider]
  <2>2. new \in StopSet
    BY <2>1 DEF StopSet
  <2>3. stops' = [stops EXCEPT ![nStops'] = new]
    BY <1>1
  <2> HIDE DEF new
  <2>4. nStops' \in 0 .. MaxStops
    BY <1>1, <2>1
  <2> QED
    BY <2>1, <2>2, <2>3, <2>4
<1>3. TypeOK'
  <2>1. TimersEnded'
    BY <1>1, TimersStayEnded
  <2> QED
    BY <1>1, <1>2, <2>1 DEF TypeOK, StopSet, TimersEnded
<1>4. FreshInv' /\ ResolvedIsInitialised' /\ ReportInv'
  BY <1>1 DEF Inv, FreshInv, ResolvedIsInitialised, ReportInv
<1>6. MadeInv'
  <2>1. stops \in [Stops -> StopSet] /\ nStops \in Nat /\ Stops \subseteq Nat
    BY <1>1, ConnectionAssumption DEF TypeOK, StopSet, Stops
  <2>2. \A k \in Stops : k # nStops' => stops'[k] = stops[k]
    BY <1>1, <2>1
  <2>3. \A k \in Stops : k > nStops' => k > nStops /\ k # nStops'
    BY <1>1, <2>1
  <2> QED
    BY <2>2, <2>3 DEF Inv, MadeInv
<1>5. Watched'
  BY <1>1 DEF Watched
<1> QED
  BY <1>3, <1>4, <1>5, <1>6 DEF Inv

(* What waits for an answer, an event or a timeout gets it, and no call of *)
(* connect changes.                                                        *)
LEMMA QuietStep ==
    ASSUME Inv,
           \/ \E t \in Calls : Tick(t)
           \/ \E s \in Sockets : CheckPasses(s)
           \/ \E k \in Stops : StopAnswered(k) \/ StopTimeout(k)
           \/ UNCHANGED vars
    PROVE  Inv'
<1>1. /\ TypeOK /\ sockets \in [Sockets -> SocketStates]
      /\ checks \in [Sockets -> 0 .. MaxChecks]
      /\ faults \in 0 .. MaxFaults /\ provider \in 0 .. MaxConnects
      /\ stops \in [Stops -> StopSet]
  BY DEF Inv, TypeOK, StopSet
<1>2. ASSUME NEW t \in Calls, Tick(t) PROVE Inv'
  <2>1. checks' \in [Sockets -> 0 .. MaxChecks]
    BY <1>1, <1>2, ChecksAreCounted
  <2>2. UNCHANGED <<fieldVars, timerVars, callVars, stopVars, sockets, faults, eventVars>>
    BY <1>2 DEF Tick
  <2> QED
    BY <1>1, <2>1, <2>2, EventStep DEF fieldVars, timerVars, callVars, stopVars, eventVars
<1>3. ASSUME NEW s \in Sockets, CheckPasses(s) PROVE Inv'
  <2>1. checks' \in [Sockets -> 0 .. MaxChecks] /\ UNCHANGED faults
    BY <1>1, <1>3, ChecksAreCounted DEF CheckPasses, AnswersYes
  <2>2. UNCHANGED <<fieldVars, timerVars, callVars, stopVars, sockets, eventVars>>
    BY <1>3 DEF CheckPasses
  <2> QED
    BY <1>1, <2>1, <2>2, EventStep DEF fieldVars, timerVars, callVars, stopVars, eventVars
<1>4. ASSUME NEW k \in Stops, StopAnswered(k) PROVE Inv'
  <2>1. faults' \in 0 .. MaxFaults
    BY <1>1, <1>4, AnswersAreTyped DEF StopAnswered
  <2>2. /\ \/ stops' = [stops EXCEPT ![k] = [at |-> "closing", via |-> provider]]
           \/ stops' = [stops EXCEPT ![k].at = "resolved"]
        /\ \/ sockets' = [sockets EXCEPT ![provider] = CASE @ = "open" -> "closing"
                                                          [] @ = "connecting" -> "aborting"
                                                          [] OTHER -> @]
           \/ sockets' = sockets
        /\ UNCHANGED <<fieldVars, timerVars, callVars, checks, nStops, eventVars>>
    BY <1>4 DEF StopAnswered
  <2>3. stops' \in [Stops -> StopSet]
    <3>1. [at |-> "closing", via |-> provider] \in StopSet
      BY <1>1 DEF StopSet
    <3>2. [stops[k] EXCEPT !.at = "resolved"] \in StopSet
      BY <1>1 DEF StopSet
    <3>3. \E new \in StopSet : stops' = [stops EXCEPT ![k] = new]
      BY <1>1, <2>2, <3>1, <3>2
    <3> QED
      BY <1>1, <3>3
  <2>5. \A j \in Stops : stops[j].at = "none" => stops'[j].at = "none"
    BY <1>1, <1>4, <2>2 DEF StopAnswered
  <2>4. sockets' \in [Sockets -> SocketStates]
    BY <1>1, <2>2 DEF SocketStates
  <2> QED
    BY <1>1, <2>1, <2>2, <2>3, <2>4, <2>5, EventStep
       DEF fieldVars, timerVars, callVars, eventVars
<1>5. ASSUME NEW k \in Stops, StopTimeout(k) PROVE Inv'
  <2>1. faults' \in 0 .. MaxFaults
    BY <1>1, <1>5, FaultsStayBounded DEF StopTimeout
  <2>2. /\ stops' = [stops EXCEPT ![k].at = "rejected"]
        /\ UNCHANGED <<fieldVars, timerVars, callVars, checks, nStops, sockets, eventVars>>
    BY <1>5 DEF StopTimeout
  <2>3. stops' \in [Stops -> StopSet]
    <3>1. [stops[k] EXCEPT !.at = "rejected"] \in StopSet
      BY <1>1 DEF StopSet
    <3> QED
      BY <1>1, <2>2, <3>1
  <2>4. \A j \in Stops : stops[j].at = "none" => stops'[j].at = "none"
    BY <1>1, <1>5, <2>2 DEF StopTimeout, StopTimesOut
  <2> QED
    BY <1>1, <2>1, <2>2, <2>3, <2>4, EventStep DEF fieldVars, timerVars, callVars, eventVars
<1>6. CASE UNCHANGED vars
  BY <1>1, <1>6, EventStep DEF vars, fieldVars, timerVars, callVars, stopVars, eventVars
<1> QED
  BY <1>2, <1>3, <1>4, <1>5, <1>6

LEMMA InvInit == Init => Inv
<1> SUFFICES ASSUME Init PROVE Inv
  OBVIOUS
<1>1. /\ \A c \in Calls : calls[c] = NoCall
      /\ checkLost = 0 /\ initialised = FALSE /\ wasConnected = FALSE
  BY DEF Init
<1>2. TypeOK
  <2>1. NoCall \in CallSet
    BY ConnectionAssumption DEF NoCall, CallSet, Inner, Outer
  <2>2. calls \in [Calls -> CallSet]
    BY <2>1 DEF Init
  <2>3. stops \in [Stops -> StopSet]
    BY ConnectionAssumption DEF Init, NoStop, StopSet
  <2>4. /\ 0 \in 0 .. MaxConnects /\ 0 \in 0 .. MaxStops /\ 0 \in 0 .. MaxFaults
        /\ 0 \in 0 .. MaxChecks /\ checks \in [Sockets -> 0 .. MaxChecks]
    BY ConnectionAssumption DEF Init
  <2>5. sockets \in [Sockets -> SocketStates]
    <3>1. {"none", "connecting", "open"} \subseteq SocketStates
      BY DEF SocketStates
    <3> QED
      BY <3>1 DEF Init
  <2> QED
    BY <2>2, <2>3, <2>4, <2>5 DEF Init, TypeOK, CallSet, StopSet
<1>3. FreshInv /\ ResolvedIsInitialised
  BY <1>1 DEF NoCall, FreshInv, ResolvedIsInitialised
<1>4. ReportInv /\ Watched /\ MadeInv
  BY <1>1 DEF Init, ReportInv, Watched, MadeInv, NoStop
<1> QED
  BY <1>2, <1>3, <1>4 DEF Inv

(* The invariant is inductive. *)
LEMMA InvStep == Inv /\ [Next]_vars => Inv'
<1> SUFFICES ASSUME Inv, [Next]_vars PROVE Inv'
  OBVIOUS
<1>1. CASE UserConnect
  BY <1>1, UserConnectStep
<1>2. CASE \E c \in Calls : ConnectAnswered(c) \/ ConnectTimeout(c) \/ InitDone(c) \/ InitFails(c)
  BY <1>2, ConnectAnsweredStep, ConnectTimeoutStep, InitDoneStep, InitFailsStep
<1>3. CASE \E s \in Sockets : \/ SocketOpens(s) \/ SocketEnds(s) \/ SocketCloses(s)
                              \/ ProviderError(s)
  BY <1>3, SocketStep
<1>4. CASE \E s \in Sockets : CheckFails(s)
  BY <1>4, CheckFailsStep
<1>5. CASE Stop
  BY <1>5, StopStep
<1>6. CASE \/ \E t \in Calls : Tick(t)
           \/ \E s \in Sockets : CheckPasses(s)
           \/ \E k \in Stops : StopAnswered(k) \/ StopTimeout(k)
           \/ UNCHANGED vars
  BY <1>6, QuietStep
<1> QED
  BY <1>1, <1>2, <1>3, <1>4, <1>5, <1>6, Zenon DEF Next

LEMMA Invariance == Spec => []Inv
  BY InvInit, InvStep, PTL DEF Spec

-----------------------------------------------------------------------------
(* The theorems *)

(* Types, and that an interval runs only for an initialisation that ended, *)
(* whichever of them overlap (EthereumConnection.ts 160-362).              *)
THEOREM TypeCorrect == Spec => []TypeOK
<1>1. Inv => TypeOK
  BY DEF Inv
<1> QED
  BY <1>1, Invariance, PTL

(* connect resolves only after an initialisation of its own, however its   *)
(* listeners, its timeout and other calls interleave (lines 205-247).      *)
THEOREM ResolvedAfterInitialisation == Spec => []ResolvedIsInitialised
<1>1. Inv => ResolvedIsInitialised
  BY DEF Inv
<1> QED
  BY <1>1, Invariance, PTL

(* An initialised connection has the timer that the object knows running,  *)
(* whatever initialisations overlapped (lines 211-216, 268-296).           *)
THEOREM InitialisedIsWatched == Spec => []Watched
<1>1. Inv => Watched
  BY DEF Inv
<1> QED
  BY <1>1, Invariance, PTL

(* The check reports a loss once until a connection was initialised again, *)
(* for any number of checks that overlap (lines 331-341).                  *)
THEOREM LossIsReportedOnce == Spec => []CheckReportsOnce
<1>1. Inv => CheckReportsOnce
  BY DEF Inv, ReportInv, CheckReportsOnce
<1> QED
  BY <1>1, Invariance, PTL

(* While the connection stops nobody but the application connects, also    *)
(* when a check was waiting for its answer (lines 331, 346).               *)
THEOREM StoppingIsNotUndone == Spec => NoReconnectWhileStopping
<1>1. ASSUME Inv, Next, isStopping, nCalls' > nCalls
      PROVE  calls'[nCalls'].by = "user"
  <2>1. TypeOK /\ FreshInv /\ nCalls \in Int
    BY <1>1, ConnectionAssumption DEF Inv, TypeOK
  <2>2. nCalls' # nCalls
    BY <1>1, <2>1
  <2>3. CASE UserConnect
    <3>1. Connect("user", calls)
      BY <2>3 DEF UserConnect
    <3> QED
      BY <2>1, <3>1, CallsAreTyped, ConnectMakes
  <2>4. CASE ~UserConnect
    <3>1. UNCHANGED nCalls
      BY <1>1, <2>4, Zenon DEF Next, ConnectAnswered, ConnectTimeout, InitDone, InitFails,
         SocketOpens, SocketEnds, SocketCloses, ProviderError, Tick, CheckPasses, CheckFails,
         MayReconnect, Stop, StopAnswered, StopTimeout, callVars
    <3> QED
      BY <2>2, <3>1
  <2> QED
    BY <2>3, <2>4
<1>2. Inv /\ [Next]_vars => [isStopping /\ nCalls' > nCalls => calls'[nCalls'].by = "user"]_vars
  BY <1>1
<1> QED
  BY <1>2, Invariance, PTL DEF Spec, NoReconnectWhileStopping

-----------------------------------------------------------------------------
(* The implementation of module Session *)

(* An attempt has an answer from the call on. *)
SeenInv == \A c \in Calls : c > nCalls <=> calls[c].outer = "none"

(* What settles a call at most rejects it. *)
Settles(before, after) ==
    /\ after.by = before.by
    /\ after.inner = "ended" <=> before.inner = "ended"
    /\ after.outer = before.outer \/ (before.outer = "pending" /\ after.outer = "rejected")

LEMMA RefusedSettles ==
    ASSUME TypeOK
    PROVE  /\ \A c \in Calls : Settles(calls[c], Refused(calls)[c])
           /\ \A c \in Calls : Settles(calls[c], calls[c])
<1>1. ASSUME NEW c \in Calls PROVE Settles(calls[c], Refused(calls)[c])
  <2>1. calls[c] \in CallSet
    BY DEF TypeOK, CallSet
  <2>2. CASE c \notin Listening(calls)
    BY <2>2 DEF Refused, Settles
  <2>3. CASE c \in Listening(calls)
    <3>1. calls[c].inner = "listening"
      BY <2>3 DEF Listening
    <3>2. Refused(calls)[c] = [calls[c] EXCEPT !.inner = "failed",
                                   !.outer = IF @ = "pending" THEN "rejected" ELSE @]
      BY <2>3 DEF Refused
    <3> QED
      BY <2>1, <3>1, <3>2 DEF CallSet, Settles
  <2> QED
    BY <2>2, <2>3
<1> QED
  BY <1>1 DEF Settles

(* Steps of one call, and events of the provider, settle calls at most. *)
SettlingStep ==
    \/ \E c \in Calls : ConnectAnswered(c) \/ ConnectTimeout(c) \/ InitFails(c)
    \/ \E s \in Sockets : SocketEnds(s) \/ ProviderError(s)

LEMMA StepsSettle ==
    ASSUME Inv, SeenInv, SettlingStep
    PROVE  /\ \A c \in Calls : Settles(calls[c], calls'[c])
           /\ UNCHANGED <<isStopping, wasConnected, nCalls, stops>>
<1>1. TypeOK /\ calls \in [Calls -> CallSet]
  BY CallsAreTyped DEF Inv
<1>2. ASSUME NEW c \in Calls, ConnectAnswered(c) \/ ConnectTimeout(c) \/ InitFails(c)
      PROVE  \A d \in Calls : Settles(calls[d], calls'[d])
  <2>1. \A d \in Calls : d # c => calls'[d] = calls[d]
    BY <1>1, <1>2 DEF ConnectAnswered, ConnectTimeout, InitFails
  <2>2. calls[c] \in CallSet
    BY <1>1
  <2>3. CASE ConnectAnswered(c)
    <3>1. /\ calls[c].inner = "asking"
          /\ \/ calls'[c] = [calls[c] EXCEPT !.inner = "init", !.via = provider]
             \/ calls'[c] = [calls[c] EXCEPT !.inner = "listening"]
      BY <1>1, <2>3 DEF ConnectAnswered
    <3> QED
      BY <2>1, <2>2, <3>1 DEF Settles, CallSet
  <2>4. CASE ConnectTimeout(c)
    <3>1. /\ calls[c].outer = "pending"
          /\ calls'[c] = [calls[c] EXCEPT !.outer = "rejected"]
      BY <1>1, <2>4 DEF ConnectTimeout, TimesOut
    <3> QED
      BY <2>1, <2>2, <3>1 DEF Settles, CallSet
  <2>5. CASE InitFails(c)
    <3>1. /\ calls[c].inner = "init"
          /\ calls'[c] = [calls[c] EXCEPT !.inner = "failed",
                                          !.outer = IF WithEvents THEN @ ELSE "rejected"]
      BY <1>1, <2>5 DEF InitFails
    <3>2. calls[c].outer \in {"pending", "rejected"}
      <4>1. calls[c].outer # "resolved"
        BY <3>1 DEF Inv, ResolvedIsInitialised
      <4>2. ~(c > nCalls)
        BY <3>1 DEF Inv, FreshInv
      <4>3. calls[c].outer # "none"
        BY <4>2 DEF SeenInv
      <4> QED
        BY <2>2, <4>1, <4>3 DEF CallSet, Outer
    <3> QED
      BY <2>1, <2>2, <3>1, <3>2 DEF Settles, CallSet
  <2> QED
    BY <1>2, <2>3, <2>4, <2>5
<1>3. ASSUME NEW s \in Sockets, SocketEnds(s) \/ ProviderError(s)
      PROVE  \A d \in Calls : Settles(calls[d], calls'[d])
  <2>1. calls' = calls \/ calls' = Refused(calls)
    BY <1>3 DEF SocketEnds, ProviderError
  <2> QED
    BY <1>1, <2>1, RefusedSettles
<1>4. UNCHANGED <<isStopping, wasConnected, nCalls, stops>>
  BY Zenon DEF SettlingStep, ConnectAnswered, ConnectTimeout, InitFails, SocketEnds,
     ProviderError, fieldVars, stopVars
<1> QED
  BY <1>2, <1>3, <1>4 DEF SettlingStep

(* Steps that no call of connect sees. *)
QuietOfCalls ==
    \/ \E s \in Sockets : SocketOpens(s) \/ SocketCloses(s) \/ CheckPasses(s)
    \/ \E t \in Calls : Tick(t)
    \/ Stop
    \/ \E k \in Stops : StopAnswered(k) \/ StopTimeout(k)
    \/ UNCHANGED vars

LEMMA QuietKeepsCalls ==
    ASSUME QuietOfCalls
    PROVE  UNCHANGED <<calls, nCalls, wasConnected>>
BY Zenon DEF QuietOfCalls, SocketOpens, SocketCloses, CheckPasses, Tick, Stop, StopAnswered,
   StopTimeout, vars, fieldVars, callVars

(* Of these steps, one is a stop, some end stops, and the others show      *)
(* nothing.                                                                *)
StopBegins ==
    /\ isStopping' = TRUE
    /\ \E k \in Stops : /\ StopAnswer[k] = "none"
                       /\ \E how \in {"pending", "resolved"} :
                             StopAnswer' = [StopAnswer EXCEPT ![k] = how]
SomeStopsEnd ==
    /\ isStopping' = isStopping
    /\ \E ended \in SUBSET Promised!Waiting, how \in {"resolved", "rejected"} :
          StopAnswer' = [k \in Stops |-> IF k \in ended THEN how ELSE StopAnswer[k]]

LEMMA StopsSeen ==
    ASSUME Inv, QuietOfCalls
    PROVE  StopBegins \/ SomeStopsEnd
<1>1. stops \in [Stops -> StopSet] /\ TypeOK
  BY DEF Inv, TypeOK, StopSet
<1>2. ASSUME UNCHANGED <<isStopping, stops>> PROVE SomeStopsEnd
  <2>1. StopAnswer' = [k \in Stops |-> IF k \in {} THEN "resolved" ELSE StopAnswer[k]]
    BY <1>2 DEF StopAnswer, Stopping
  <2>2. {} \in SUBSET Promised!Waiting
    OBVIOUS
  <2> QED
    BY <1>2, <2>1, <2>2 DEF SomeStopsEnd
<1>3. ASSUME NEW s \in Sockets, SocketCloses(s), stops' # stops PROVE SomeStopsEnd
  <2>1. stops' = Disconnected /\ UNCHANGED isStopping
    BY <1>3 DEF SocketCloses, fieldVars
  <2> DEFINE ended == {k \in Stops : stops[k].at = "closing"}
  <2>2. ended \in SUBSET Promised!Waiting
    BY DEF Promised!Waiting, StopAnswer, Stopping
  <2>3. ASSUME NEW k \in Stops
        PROVE  (IF Stopping(k)' THEN "pending" ELSE stops'[k].at)
                  = IF k \in ended THEN "resolved" ELSE StopAnswer[k]
    BY <1>1, <2>1 DEF Disconnected, StopAnswer, Stopping, StopSet
  <2>4. StopAnswer' = [k \in Stops |-> IF k \in ended THEN "resolved" ELSE StopAnswer[k]]
    BY <2>3 DEF StopAnswer
  <2> HIDE DEF ended
  <2> QED
    BY <2>1, <2>2, <2>4 DEF SomeStopsEnd
<1>4. ASSUME NEW k \in Stops, StopAnswered(k) \/ StopTimeout(k) PROVE SomeStopsEnd
  <2>1. /\ stops[k].at \in {"asking", "closing"} /\ UNCHANGED isStopping
        /\ \/ stops' = [stops EXCEPT ![k] = [at |-> "closing", via |-> provider]]
           \/ stops' = [stops EXCEPT ![k].at = "resolved"]
           \/ stops' = [stops EXCEPT ![k].at = "rejected"]
    BY <1>4 DEF StopAnswered, StopTimeout, StopTimesOut, fieldVars
  <2>2. \A j \in Stops : j # k => stops'[j] = stops[j]
    BY <1>1, <2>1
  <2>3. stops'[k].at \in {"closing", "resolved", "rejected"}
    BY <1>1, <2>1 DEF StopSet
  <2>4. StopAnswer[k] = "pending"
    BY <2>1 DEF StopAnswer, Stopping
  <2>5. {k} \in SUBSET Promised!Waiting /\ {} \in SUBSET Promised!Waiting
    BY <2>4 DEF Promised!Waiting
  <2>6. CASE stops'[k].at = "closing"
    <3>1. StopAnswer' = [j \in Stops |-> IF j \in {} THEN "resolved" ELSE StopAnswer[j]]
      BY <2>2, <2>4, <2>6 DEF StopAnswer, Stopping
    <3> QED
      BY <2>1, <2>5, <3>1 DEF SomeStopsEnd
  <2>7. CASE stops'[k].at \in {"resolved", "rejected"}
    <3> DEFINE how == stops'[k].at
    <3>1. StopAnswer' = [j \in Stops |-> IF j \in {k} THEN how ELSE StopAnswer[j]]
      BY <2>2, <2>7 DEF StopAnswer, Stopping
    <3> HIDE DEF how
    <3>2. how \in {"resolved", "rejected"}
      BY <2>7 DEF how
    <3> QED
      BY <2>1, <2>5, <3>1, <3>2 DEF SomeStopsEnd
  <2> QED
    BY <2>3, <2>6, <2>7
<1>5. CASE Stop
  <2> DEFINE k == nStops'
             new == [at |-> IF WithEvents /\ provider # 0 THEN "asking" ELSE "resolved",
                     via |-> provider]
  <2>1. k \in Stops /\ stops' = [stops EXCEPT ![k] = new] /\ isStopping' = TRUE
    BY <1>1, <1>5, ConnectionAssumption DEF Stop, TypeOK, Stops
  <2>2. StopAnswer[k] = "none"
    <3>1. k > nStops
      BY <1>1, <1>5, ConnectionAssumption DEF Stop, TypeOK
    <3>2. stops[k].at = "none"
      BY <2>1, <3>1 DEF Inv, MadeInv
    <3> QED
      BY <2>1, <3>2 DEF StopAnswer, Stopping
  <2>3. new.at \in {"asking", "resolved"}
    OBVIOUS
  <2> DEFINE how == IF new.at = "asking" THEN "pending" ELSE "resolved"
  <2> HIDE DEF new, k
  <2>4. StopAnswer' = [StopAnswer EXCEPT ![k] = how]
    BY <1>1, <2>1, <2>3 DEF StopAnswer, Stopping
  <2>5. how \in {"pending", "resolved"}
    OBVIOUS
  <2> HIDE DEF how
  <2> QED
    BY <2>1, <2>2, <2>4, <2>5 DEF StopBegins
<1>6. CASE ~Stop /\ ~(\E k \in Stops : StopAnswered(k) \/ StopTimeout(k))
      /\ ~(\E s \in Sockets : SocketCloses(s) /\ stops' # stops)
  <2>1. UNCHANGED <<isStopping, stops>>
    BY <1>6, Zenon DEF QuietOfCalls, SocketOpens, SocketCloses, CheckPasses, Tick, vars,
       fieldVars, stopVars
  <2> QED
    BY <1>2, <2>1
<1> QED
  BY <1>3, <1>4, <1>5, <1>6

(* The calls that settling rejects. *)
Failed(cs) == {c \in Calls : calls[c].outer # cs[c].outer}

LEMMA SettlingRejects ==
    ASSUME NEW cs, \A c \in Calls : Settles(calls[c], cs[c])
    PROVE  /\ Failed(cs) \in SUBSET Promised!Pending
           /\ Promised!Rejected(Failed(cs)) = [c \in Calls |-> cs[c].outer]
<1>1. ASSUME NEW c \in Failed(cs)
      PROVE  c \in Calls /\ calls[c].outer = "pending" /\ cs[c].outer = "rejected"
  BY <1>1 DEF Failed, Settles
<1>2. Failed(cs) \in SUBSET Promised!Pending
  BY <1>1 DEF Promised!Pending, Answer
<1>3. ASSUME NEW c \in Calls
      PROVE  (IF c \in Failed(cs) THEN "rejected" ELSE Answer[c]) = cs[c].outer
  <2>1. c \notin Failed(cs) => calls[c].outer = cs[c].outer
    BY DEF Failed
  <2> QED
    BY <1>1, <2>1 DEF Answer
<1> QED
  BY <1>2, <1>3 DEF Promised!Rejected

LEMMA SettledSeen ==
    ASSUME UNCHANGED nCalls, \A c \in Calls : Settles(calls[c], calls'[c])
    PROVE  /\ Asker' = Asker /\ Ended' = Ended
           /\ \E failed \in SUBSET Promised!Pending : Answer' = Promised!Rejected(failed)
<1>1. \A c \in Calls : /\ calls'[c].by = calls[c].by
                       /\ calls'[c].inner = "ended" <=> calls[c].inner = "ended"
  BY DEF Settles
<1>2. Asker' = Asker /\ Ended' = Ended
  BY <1>1 DEF Asker, Ended
<1>3. /\ Failed(calls') \in SUBSET Promised!Pending
      /\ Promised!Rejected(Failed(calls')) = [c \in Calls |-> calls'[c].outer]
  BY SettlingRejects
<1> QED
  BY <1>2, <1>3 DEF Answer

(* A call of connect is an attempt of whoever made it. *)
LEMMA ConnectSeen ==
    ASSUME Inv, SeenInv, NEW by \in {"user", "reconnect"}, NEW cs \in [Calls -> CallSet],
           \A c \in Calls : Keeps(calls[c], cs[c]) /\ Settles(calls[c], cs[c]),
           Connect(by, cs)
    PROVE  /\ Ended' = Ended
           /\ Failed(cs) \in SUBSET Promised!Pending
           /\ \E a \in Calls : Promised!Attempt(a, by, Failed(cs))
           /\ nCalls' = nCalls + 1 /\ nCalls \in Nat
           /\ \A c \in Calls : c > nCalls' <=> calls'[c].outer = "none"
<1>1. TypeOK /\ FreshInv /\ nCalls \in Nat /\ Calls \subseteq Nat
  BY ConnectionAssumption DEF Inv, TypeOK, Calls
<1>2. /\ nCalls' = nCalls + 1 /\ nCalls' \in Calls
      /\ \A c \in Calls : /\ c # nCalls' => calls'[c] = cs[c]
                          /\ c = nCalls' => /\ calls'[c].by = by
                                            /\ calls'[c].outer = "pending"
                                            /\ calls'[c].inner \in {"asking", "init"}
  BY <1>1, ConnectMakes
<1> DEFINE a == nCalls'
<1>3. a > nCalls /\ calls[a].outer = "none" /\ calls[a].inner = "none"
  BY <1>1, <1>2 DEF SeenInv, FreshInv
<1>4. ASSUME NEW c \in Calls
      PROVE  /\ c > nCalls' <=> calls'[c].outer = "none"
             /\ calls'[c].inner = "ended" <=> calls[c].inner = "ended"
             /\ (IF c > nCalls' THEN "nobody" ELSE calls'[c].by)
                    = IF c = a THEN by ELSE IF c > nCalls THEN "nobody" ELSE calls[c].by
             /\ calls'[c].outer = IF c = a THEN "pending" ELSE cs[c].outer
  <2>1. CASE c = a
    <3>1. ~(c > nCalls')
      BY <1>1, <1>2, <2>1
    <3> QED
      BY <1>2, <1>3, <2>1, <3>1
  <2>2. CASE c # a
    <3>1. calls'[c] = cs[c] /\ Settles(calls[c], cs[c])
      BY <1>2, <2>2
    <3>2. c > nCalls' <=> c > nCalls
      BY <1>1, <1>2, <2>2
    <3>3. c > nCalls <=> calls[c].outer = "none"
      BY DEF SeenInv
    <3> QED
      BY <2>2, <3>1, <3>2, <3>3 DEF Settles
  <2> QED
    BY <2>1, <2>2
<1>5. /\ Failed(cs) \in SUBSET Promised!Pending
      /\ Promised!Rejected(Failed(cs)) = [c \in Calls |-> cs[c].outer]
  BY SettlingRejects
<1>6. Ended' = Ended
  BY <1>4 DEF Ended
<1>7. Asker' = [Asker EXCEPT ![a] = by]
  BY <1>2, <1>4 DEF Asker
<1>8. Answer' = [Promised!Rejected(Failed(cs)) EXCEPT ![a] = "pending"]
  BY <1>2, <1>4, <1>5 DEF Answer
<1>9. Promised!Attempt(a, by, Failed(cs))
  BY <1>2, <1>3, <1>7, <1>8 DEF Promised!Attempt, Answer
<1> QED
  BY <1>1, <1>2, <1>4, <1>5, <1>6, <1>9

(* An initialisation that ends is that of an attempt, once. *)
LEMMA InitDoneSeen ==
    ASSUME Inv, SeenInv, NEW c \in Calls, InitDone(c)
    PROVE  /\ Promised!Initialise(c)
           /\ \A d \in Calls : d > nCalls <=> calls'[d].outer = "none"
<1> DEFINE cs == Reinitialised(calls)
<1>1. /\ TypeOK /\ calls[c].inner = "init" /\ wasConnected' = TRUE
      /\ UNCHANGED <<isStopping, nCalls, stops>>
      /\ calls' = [cs EXCEPT ![c].inner = "ended",
                             ![c].outer = IF @ = "pending" THEN "resolved" ELSE @]
  BY DEF Inv, InitDone, stopVars
<1>2. cs \in [Calls -> CallSet] /\ calls \in [Calls -> CallSet]
  BY <1>1, ReinitialisedKeeps, CallsAreTyped
<1>3. ASSUME NEW d \in Calls
      PROVE  /\ cs[d].by = calls[d].by /\ cs[d].outer = calls[d].outer
             /\ cs[d].inner = "ended" <=> calls[d].inner = "ended"
  <2>1. calls[d] \in CallSet
    BY <1>2
  <2> QED
    BY <2>1 DEF Reinitialised, Listening, CallSet
<1> HIDE DEF cs
<1>4. ASSUME NEW d \in Calls
      PROVE  /\ calls'[d].by = calls[d].by
             /\ calls'[d].inner = "ended" <=> d = c \/ calls[d].inner = "ended"
             /\ calls'[d].outer = IF d = c /\ calls[d].outer = "pending" THEN "resolved"
                                  ELSE calls[d].outer
  <2>1. cs[d] \in CallSet /\ cs[c] \in CallSet
    BY <1>2
  <2>2. CASE d = c
    <3>1. calls'[c] = [cs[c] EXCEPT !.inner = "ended",
                                    !.outer = IF @ = "pending" THEN "resolved" ELSE @]
      BY <1>1, <1>2
    <3>2. /\ calls'[c].by = cs[c].by /\ calls'[c].inner = "ended"
          /\ calls'[c].outer = IF cs[c].outer = "pending" THEN "resolved" ELSE cs[c].outer
      BY <2>1, <3>1 DEF CallSet
    <3> QED
      BY <1>3, <2>2, <3>2
  <2>3. CASE d # c
    <3>1. calls'[d] = cs[d]
      BY <1>1, <1>2, <2>3
    <3> QED
      BY <1>3, <2>3, <3>1
  <2> QED
    BY <2>2, <2>3
<1>5. ~(c > nCalls) /\ calls[c].outer # "none" /\ c \notin Ended
  BY <1>1 DEF Inv, FreshInv, SeenInv, Ended
<1>7. Asker' = Asker
  BY <1>1, <1>4 DEF Asker
<1>8. Ended' = Ended \cup {c}
  BY <1>4 DEF Ended
<1>9. Answer' = [Answer EXCEPT ![c] = IF @ = "pending" THEN "resolved" ELSE @]
  BY <1>4 DEF Answer
<1>10. StopAnswer' = StopAnswer
  BY <1>1 DEF StopAnswer, Stopping
<1>11. Promised!Initialise(c)
  BY <1>1, <1>5, <1>7, <1>8, <1>9, <1>10 DEF Promised!Initialise, Answer
<1>12. \A d \in Calls : d > nCalls <=> calls'[d].outer = "none"
  BY <1>4 DEF SeenInv
<1> QED
  BY <1>11, <1>12

(* A check that fails settles calls, and may make one. *)
LEMMA CheckFailsSeen ==
    ASSUME Inv, SeenInv, NEW s \in Sockets, CheckFails(s)
    PROVE  /\ \E failed \in SUBSET Promised!Pending : Promised!Lose(failed)
           /\ \A c \in Calls : c > nCalls' <=> calls'[c].outer = "none"
<1> DEFINE cs == IF wasConnected THEN Refused(calls) ELSE calls
<1>1. /\ TypeOK /\ wasConnected' = FALSE /\ UNCHANGED stops
      /\ wasConnected \in BOOLEAN /\ isStopping \in BOOLEAN
  BY DEF Inv, CheckFails, ReportLost, stopVars, TypeOK
<1>2. /\ cs \in [Calls -> CallSet]
      /\ \A c \in Calls : Keeps(calls[c], cs[c]) /\ Settles(calls[c], cs[c])
  BY <1>1, CallsAreTyped, RefusedKeeps, RefusedSettles
<1>3. /\ Failed(cs) \in SUBSET Promised!Pending
      /\ wasConnected \/ Failed(cs) = {}
  <2>1. Failed(cs) \in SUBSET Promised!Pending
    BY <1>2, SettlingRejects
  <2>2. ~wasConnected => Failed(cs) = {}
    BY DEF Failed
  <2> QED
    BY <2>1, <2>2
<1>5. StopAnswer' = StopAnswer
  BY <1>1 DEF StopAnswer, Stopping
<1>6. \/ calls' = cs /\ UNCHANGED <<isStopping, nCalls>>
      \/ MayReconnect /\ Connect("reconnect", cs)
  BY DEF CheckFails
<1> HIDE DEF cs
<1>7. CASE calls' = cs /\ UNCHANGED <<isStopping, nCalls>>
  <2>1. /\ Asker' = Asker /\ Ended' = Ended
        /\ Failed(cs) \in SUBSET Promised!Pending
        /\ Promised!Rejected(Failed(cs)) = [c \in Calls |-> calls'[c].outer]
    BY <1>2, <1>7, SettledSeen, SettlingRejects
  <2>2. Promised!Lose(Failed(cs))
    BY <1>1, <1>3, <1>5, <1>7, <2>1 DEF Promised!Lose, Answer
  <2>3. \A c \in Calls : c > nCalls' <=> calls'[c].outer = "none"
    BY <1>2, <1>7 DEF SeenInv, Settles
  <2> QED
    BY <1>3, <2>2, <2>3
<1>8. CASE MayReconnect /\ Connect("reconnect", cs)
  <2>1. /\ Ended' = Ended
        /\ \E a \in Calls : Promised!Attempt(a, "reconnect", Failed(cs))
        /\ \A c \in Calls : c > nCalls' <=> calls'[c].outer = "none"
    BY <1>2, <1>8, ConnectSeen
  <2>2. isStopping = FALSE /\ isStopping' = FALSE
    BY <1>1, <1>8 DEF MayReconnect, Connect
  <2>3. Promised!Lose(Failed(cs))
    BY <1>1, <1>3, <1>5, <2>1, <2>2 DEF Promised!Lose
  <2> QED
    BY <1>3, <2>1, <2>3
<1> QED
  BY <1>6, <1>7, <1>8

(* The application connects, whatever else is under way. *)
LEMMA UserConnectSeen ==
    ASSUME Inv, SeenInv, UserConnect
    PROVE  /\ \E a \in Calls : Promised!Connect(a)
           /\ \A c \in Calls : c > nCalls' <=> calls'[c].outer = "none"
<1>1. /\ Connect("user", calls) /\ isStopping' = FALSE
      /\ UNCHANGED <<wasConnected, stops>> /\ TypeOK
  BY DEF UserConnect, Connect, stopVars, Inv
<1>2. /\ calls \in [Calls -> CallSet]
      /\ \A c \in Calls : Keeps(calls[c], calls[c]) /\ Settles(calls[c], calls[c])
  BY <1>1, CallsAreTyped, RefusedSettles
<1>3. /\ Ended' = Ended
      /\ \E a \in Calls : Promised!Attempt(a, "user", Failed(calls))
      /\ \A c \in Calls : c > nCalls' <=> calls'[c].outer = "none"
  BY <1>1, <1>2, ConnectSeen
<1>4. Failed(calls) = {}
  BY DEF Failed
<1>5. StopAnswer' = StopAnswer
  BY <1>1 DEF StopAnswer, Stopping
<1>6. \E a \in Calls : Promised!Connect(a)
  BY <1>1, <1>3, <1>4, <1>5 DEF Promised!Connect
<1> QED
  BY <1>3, <1>6

LEMMA SeenInit == Init => SeenInv /\ Promised!Init
<1> SUFFICES ASSUME Init PROVE SeenInv /\ Promised!Init
  OBVIOUS
<1>1. /\ \A c \in Calls : calls[c] = NoCall /\ c > 0
      /\ nCalls = 0 /\ wasConnected = FALSE /\ isStopping = FALSE
      /\ stops = [k \in Stops |-> NoStop]
  BY DEF Init, Calls
<1>2. SeenInv
  BY <1>1 DEF SeenInv, NoCall
<1>3. Asker = [c \in Calls |-> "nobody"] /\ Answer = [c \in Calls |-> "none"] /\ Ended = {}
  BY <1>1 DEF Asker, Answer, Ended, NoCall
<1>4. StopAnswer = [k \in Stops |-> "none"]
  BY <1>1 DEF StopAnswer, Stopping, NoStop
<1>5. Promised!Init
  BY <1>1, <1>3, <1>4 DEF Promised!Init
<1> QED
  BY <1>2, <1>5

(* Each step of the connection is one of Session's, or none. *)
LEMMA SeenStep ==
    ASSUME Inv, SeenInv, [Next]_vars
    PROVE  SeenInv' /\ [Promised!Next]_(Promised!vars)
<1>1. CASE UserConnect
  BY <1>1, UserConnectSeen DEF SeenInv, Promised!Next
<1>2. CASE SettlingStep
  <2>1. /\ \A c \in Calls : Settles(calls[c], calls'[c])
        /\ UNCHANGED <<isStopping, wasConnected, nCalls, stops>>
    BY <1>2, StepsSettle
  <2>2. /\ Asker' = Asker /\ Ended' = Ended
        /\ \E failed \in SUBSET Promised!Pending : Answer' = Promised!Rejected(failed)
    BY <2>1, SettledSeen
  <2>3. StopAnswer' = StopAnswer
    BY <2>1 DEF StopAnswer, Stopping
  <2>4. Promised!Next
    BY <2>1, <2>2, <2>3 DEF Promised!Next, Promised!Fail
  <2>5. SeenInv'
    BY <2>1 DEF SeenInv, Settles
  <2> QED
    BY <2>4, <2>5
<1>3. ASSUME NEW c \in Calls, InitDone(c) PROVE SeenInv' /\ Promised!Next
  <2>1. /\ Promised!Initialise(c)
        /\ \A d \in Calls : d > nCalls <=> calls'[d].outer = "none"
        /\ UNCHANGED nCalls
    BY <1>3, InitDoneSeen DEF InitDone
  <2> QED
    BY <2>1 DEF SeenInv, Promised!Next
<1>4. ASSUME NEW s \in Sockets, CheckFails(s) PROVE SeenInv' /\ Promised!Next
  BY <1>4, CheckFailsSeen DEF SeenInv, Promised!Next
<1>5. CASE QuietOfCalls
  <2>1. UNCHANGED <<calls, nCalls, wasConnected>>
    BY <1>5, QuietKeepsCalls
  <2>2. Asker' = Asker /\ Answer' = Answer /\ Ended' = Ended
    BY <2>1 DEF Asker, Answer, Ended
  <2>3. Promised!Next
    BY <1>5, <2>1, <2>2, StopsSeen
       DEF StopBegins, SomeStopsEnd, Promised!Next, Promised!Stop, Promised!StopEnds
  <2>4. SeenInv'
    BY <2>1 DEF SeenInv
  <2> QED
    BY <2>3, <2>4
<1> QED
  BY <1>1, <1>2, <1>3, <1>4, <1>5, Zenon DEF Next, SettlingStep, QuietOfCalls

(* The connection does what module Session promises: each attempt is       *)
(* answered once and truly, so is each stop, and the only attempts of its  *)
(* own follow a loss that the application did not ask for by stop, for any *)
(* number of calls, sockets, checks, faults and stops (lines 160-362).     *)
THEOREM Refinement == Spec => IsSession
<1>1. Init => SeenInv /\ Promised!Init
  BY SeenInit
<1>2. Inv /\ SeenInv /\ [Next]_vars => SeenInv' /\ [Promised!Next]_(Promised!vars)
  BY SeenStep
<1> QED
  BY <1>1, <1>2, Invariance, PTL DEF Spec, IsSession, Promised!Spec
=============================================================================
