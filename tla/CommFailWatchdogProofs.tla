----------------------- MODULE CommFailWatchdogProofs -----------------------
(***************************************************************************)
(* Proofs about the communication watchdog, for every set of devices,      *)
(* threads and timeouts.                                                   *)
(***************************************************************************)
EXTENDS CommFailWatchdog, TLAPS

\* The arithmetic of setMillisUntilCommFail and of the saturating clocks stays
\* in range.
LEMMA Arithmetic ==
    /\ \A n \in Nat : n % U32 \in 0 .. (U32 - 1)
    /\ \A secs \in Timeouts : SecsToMillis(secs) \in 0 .. (U32 - 1)
    /\ \A n \in 0 .. (U32 - 1) : Down(n) \in 0 .. (U32 - 1)
    /\ \A cap \in Nat : \A n \in 0 .. cap : Up(n, cap) \in 0 .. cap
    /\ QuietCap \in Nat
  <1>1. \A n \in Nat : n % U32 \in 0 .. (U32 - 1)
    BY U32Assumption
  <1>2. ASSUME NEW secs \in Timeouts
        PROVE  SecsToMillis(secs) \in 0 .. (U32 - 1)
    <2>1. secs \in Nat
      BY TimeoutsAssumption, U32Assumption
    <2>2. secs * MillisPerSec \in Nat
      BY <2>1, U32Assumption
    <2>3. QED
      BY <1>1, <2>2 DEF SecsToMillis
  <1>3. \A n \in 0 .. (U32 - 1) : Down(n) \in 0 .. (U32 - 1)
    BY U32Assumption DEF Down
  <1>4. \A cap \in Nat : \A n \in 0 .. cap : Up(n, cap) \in 0 .. cap
    BY DEF Up
  <1>5. QuietCap \in Nat
    BY U32Assumption DEF QuietCap
  <1>6. QED
    BY <1>1, <1>2, <1>3, <1>4, <1>5

\* What fast comm fail leaves of a remaining time is still a uint32_t.
LEMMA Division ==
    ASSUME NEW n \in 0 .. (U32 - 1), NEW k \in Nat \ {0}
    PROVE  n \div k \in 0 .. (U32 - 1)
  BY U32Assumption

\* A record of the table whose times are replaced by times in range is again a
\* record of the table.
LEMMA InfoUpdate ==
    /\ \A e \in Info : \A n \in 0 .. (U32 - 1), m \in 0 .. MinUpdateInterval :
          [e EXCEPT !.remaining = n, !.sinceSync = m] \in Info
    /\ TypeOK => \A d \in Devices : \A n \in 0 .. (U32 - 1) : Synced(d, n) \in Info
  <1>1. \A e \in Info : \A n \in 0 .. (U32 - 1), m \in 0 .. MinUpdateInterval :
          [e EXCEPT !.remaining = n, !.sinceSync = m] \in Info
    BY DEF Info
  <1>2. ASSUME TypeOK, NEW d \in Devices, NEW n \in 0 .. (U32 - 1)
        PROVE  Synced(d, n) \in Info
    <2>1. info[d].timeout \in Timeouts /\ 0 \in 0 .. MinUpdateInterval
      BY <1>2, MinUpdateAssumption DEF TypeOK, Info
    <2>2. QED
      BY <2>1 DEF Info, Synced
  <1>3. QED
    BY <1>1, <1>2

\* The divisor in force, 1 or that of fast comm fail, is never zero.
LEMMA DivisorPositive ==
    ASSUME NEW k \in FastDivisors \cup {1}
    PROVE  k \in Nat \ {0}
  BY FastAssumption

\* The timeout that idle threads carry is one of the timeouts.
LEMMA SomeTimeout == AnyTimeout \in Timeouts
  BY TimeoutsAssumption DEF AnyTimeout

-----------------------------------------------------------------------------
\* Type correctness of the watchdog's state: in particular every remaining time
\* stays a uint32_t and every thread is between two of its critical sections.
THEOREM TypeCorrect == Spec => []TypeOK
  <1> USE DEF serviceVars, tableVars, clientVars, deviceVars, clockVars,
              ThreadPcs, RadioPcs, SetterPcs
  <1>1. ASSUME Init PROVE TypeOK
    <2>1. 0 \in 0 .. (U32 - 1) /\ 0 \in 0 .. MinUpdateInterval /\ 0 \in 0 .. QuietCap
      BY U32Assumption, MinUpdateAssumption, Arithmetic
    <2>2. info \in [Devices -> Info]
      BY <1>1, <2>1, SomeTimeout DEF Init, Info
    <2>3. setter \in [Setters -> [pc : SetterPcs, uuid : Devices \cup {NoDevice},
                                 secs : Timeouts, isCommFail : BOOLEAN]]
      BY <1>1, SomeTimeout DEF Init
    <2>4. radio \in [Radios -> [pc : RadioPcs, uuid : Devices \cup {NoDevice}]]
      BY <1>1 DEF Init
    <2>5. thread \in [pc : ThreadPcs, divisor : FastDivisors \cup {1},
                     batch : SUBSET Devices, uuid : Devices \cup {NoDevice}]
      BY <1>1 DEF Init
    <2>6. /\ remover \in [Removers -> [pc : {"idle", "stop"}, uuid : Devices \cup {NoDevice}]]
          /\ contacted \in [Devices -> 0 .. MinUpdateInterval]
          /\ quiet \in [Devices -> 0 .. QuietCap]
          /\ restarts \in 0 .. MaxRestarts
      BY <1>1, <2>1, MaxRestartsAssumption DEF Init
    <2>7. \A s \in Setters : setter[s].pc = "idle"
      BY <1>1 DEF Init
    <2>8. QED
      BY <1>1, <2>2, <2>3, <2>4, <2>5, <2>6, <2>7 DEF Init, TypeOK
  <1>2. ASSUME TypeOK, [Next]_vars
        PROVE  TypeOK'
    <2> USE TypeOK
    <2>1. CASE WatchdogInit \/ WatchdogInitTable
      <3>1. CASE WatchdogInit
        BY <3>1, MaxRestartsAssumption DEF WatchdogInit, TypeOK
      <3>2. CASE WatchdogInitTable
        BY <3>2 DEF WatchdogInitTable, TypeOK
      <3>3. QED
        BY <2>1, <3>1, <3>2
    <2>2. CASE TermSignal
      BY <2>2 DEF TermSignal, TypeOK
    <2>3. CASE TermJoin
      BY <2>3 DEF TermJoin, TypeOK
    <2>4. CASE SetFastCommfail
      BY <2>4 DEF SetFastCommfail, TypeOK
    <2>5. CASE ThreadWake
      BY <2>5 DEF ThreadWake, TypeOK
    <2>6. CASE ThreadScan
      <3>1. thread.divisor \in Nat \ {0}
        <4>1. thread.divisor \in FastDivisors \cup {1}
          BY DEF TypeOK
        <4>2. QED
          BY <4>1, DivisorPositive
      <3>2. \A d \in Devices : MillisLeft(d) \in 0 .. (U32 - 1)
        BY <3>1, Division DEF TypeOK, Info, MillisLeft
      <3>3. info' \in [Devices -> Info]
        <4>1. ASSUME NEW d \in Devices
              PROVE  Synced(d, MillisLeft(d)) \in Info
          BY <3>2, InfoUpdate
        <4>2. QED
          BY <2>6, <4>1 DEF ThreadScan, TypeOK
      <3>4. thread' \in [pc : ThreadPcs, divisor : FastDivisors \cup {1},
                         batch : SUBSET Devices, uuid : Devices \cup {NoDevice}]
        BY <2>6 DEF ThreadScan, TypeOK, Expired
      <3>5. QED
        BY <2>6, <3>3, <3>4 DEF ThreadScan, TypeOK
    <2>7. CASE ThreadReadCallback
      <3>1. PICK d \in thread.batch :
               thread' = IF callbacks
                         THEN [thread EXCEPT !.pc = "invoke", !.batch = @ \ {d}, !.uuid = d]
                         ELSE [thread EXCEPT !.batch = @ \ {d}]
        BY <2>7 DEF ThreadReadCallback
      <3>2. thread' \in [pc : ThreadPcs, divisor : FastDivisors \cup {1},
                         batch : SUBSET Devices, uuid : Devices \cup {NoDevice}]
        BY <3>1 DEF TypeOK
      <3>3. QED
        BY <2>7, <3>2 DEF ThreadReadCallback, TypeOK
    <2>8. CASE ThreadInvoke
      <3>1. commFail' \in SUBSET Devices
        BY <2>8 DEF ThreadInvoke, PublishFailed, TypeOK
      <3>2. thread' \in [pc : ThreadPcs, divisor : FastDivisors \cup {1},
                         batch : SUBSET Devices, uuid : Devices \cup {NoDevice}]
        BY <2>8 DEF ThreadInvoke, TypeOK
      <3>3. QED
        BY <2>8, <3>1, <3>2 DEF ThreadInvoke, TypeOK
    <2>9. CASE ThreadDone
      BY <2>9 DEF ThreadDone, TypeOK
    <2>10. ASSUME NEW r \in Radios, PetReadCallback(r) PROVE TypeOK'
      BY <2>10 DEF PetReadCallback, RadioGoes, TypeOK
    <2>11. ASSUME NEW r \in Radios, PetInvoke(r) PROVE TypeOK'
      BY <2>11, MinUpdateAssumption DEF PetInvoke, PublishRestored, RadioGoes, TypeOK
    <2>12. ASSUME NEW r \in Radios, ForceReadCallback(r) PROVE TypeOK'
      BY <2>12 DEF ForceReadCallback, RadioGoes, TypeOK
    <2>13. ASSUME NEW r \in Radios, ForceInvoke(r) PROVE TypeOK'
      BY <2>13 DEF ForceInvoke, PublishFailed, RadioGoes, TypeOK
    <2>14. ASSUME NEW r \in Radios, NEW d \in Devices, PetDevice(r, d) PROVE TypeOK'
      <3>1. SecsToMillis(info[d].timeout) \in 0 .. (U32 - 1)
        BY Arithmetic DEF TypeOK, Info
      <3>2. info' \in [Devices -> Info]
        <4>1. Synced(d, SecsToMillis(info[d].timeout)) \in Info
          BY <3>1, InfoUpdate
        <4>2. \/ info' = [info EXCEPT ![d] = Synced(d, SecsToMillis(info[d].timeout))]
              \/ info' = info
          BY <2>14 DEF PetDevice
        <4>3. QED
          BY <4>1, <4>2 DEF TypeOK
      <3>3. contacted' \in [Devices -> 0 .. MinUpdateInterval] /\ quiet' \in [Devices -> 0 .. QuietCap]
        <4>1. contacted' = [contacted EXCEPT ![d] = 0] \/ contacted' = contacted
          BY <2>14 DEF PetDevice
        <4>2. 0 \in 0 .. MinUpdateInterval /\ 0 \in 0 .. QuietCap
          BY MinUpdateAssumption, Arithmetic
        <4>3. QED
          BY <2>14, <4>1, <4>2 DEF PetDevice, TypeOK
      <3>4. radio' \in [Radios -> [pc : RadioPcs, uuid : Devices \cup {NoDevice}]]
        BY <2>14 DEF PetDevice, RadioGoes, TypeOK
      <3>5. QED
        BY <2>14, <3>2, <3>3, <3>4 DEF PetDevice, TypeOK
    <2>15. ASSUME NEW r \in Radios, NEW d \in Devices, ForceDeviceInCommFail(r, d) PROVE TypeOK'
      BY <2>15 DEF ForceDeviceInCommFail, RadioGoes, TypeOK
    <2>16. ASSUME NEW s \in Setters, SetterIsMonitored(s) PROVE TypeOK'
      BY <2>16 DEF SetterIsMonitored, SetterGoes, TypeOK
    <2>17. ASSUME NEW s \in Setters, SetterStop(s) PROVE TypeOK'
      BY <2>17 DEF SetterStop, Forget, SetterGoes, TypeOK
    <2>18. ASSUME NEW s \in Setters, NEW d \in Devices, SetDeviceTimeout(s, d) PROVE TypeOK'
      BY <2>18 DEF SetDeviceTimeout, TypeOK
    <2>19. ASSUME NEW s \in Setters, NEW d \in Devices, PairDevice(s, d) PROVE TypeOK'
      BY <2>19 DEF PairDevice, TypeOK
    <2>20. ASSUME NEW x \in Removers, StopMonitoringDevice(x) PROVE TypeOK'
      BY <2>20 DEF StopMonitoringDevice, Forget, TypeOK
    <2>21. ASSUME NEW x \in Removers, NEW d \in Devices, RemoveFromDatabase(x, d) PROVE TypeOK'
      BY <2>21 DEF RemoveFromDatabase, TypeOK
    <2>22. ASSUME NEW d \in Devices, SetTimeRemainingForDeviceFromLPM(d) PROVE TypeOK'
      <3>1. PICK millis \in LpmMillis :
                info' = [info EXCEPT ![d] = Synced(d, millis)]
        BY <2>22 DEF SetTimeRemainingForDeviceFromLPM
      <3>2. info' \in [Devices -> Info]
        BY <3>1, LpmAssumption, InfoUpdate DEF TypeOK
      <3>3. QED
        BY <2>22, <3>2 DEF SetTimeRemainingForDeviceFromLPM, TypeOK
    <2>23. ASSUME NEW d \in Devices, ScribbleFreed(d) PROVE TypeOK'
      <3>1. PICK n \in 0 .. (U32 - 1) : info' = [info EXCEPT ![d].remaining = n]
        BY <2>23 DEF ScribbleFreed
      <3>2. info' \in [Devices -> Info]
        BY <3>1 DEF TypeOK, Info
      <3>3. inCommFail' \in SUBSET Devices
        BY <2>23 DEF ScribbleFreed, TypeOK
      <3>4. QED
        BY <2>23, <3>2, <3>3 DEF ScribbleFreed, TypeOK
    <2>24. CASE Tick
      <3>1. info' \in [Devices -> Info]
        <4>1. ASSUME NEW d \in Devices
              PROVE  [info[d] EXCEPT !.remaining = Down(@),
                                     !.sinceSync = Up(@, MinUpdateInterval)] \in Info
          <5>1. /\ info[d] \in Info
                /\ Down(info[d].remaining) \in 0 .. (U32 - 1)
                /\ Up(info[d].sinceSync, MinUpdateInterval) \in 0 .. MinUpdateInterval
            BY Arithmetic, MinUpdateAssumption DEF TypeOK, Info
          <5>2. QED
            BY <5>1, InfoUpdate
        <4>2. QED
          BY <2>24, <4>1 DEF Tick, TypeOK
      <3>2. contacted' \in [Devices -> 0 .. MinUpdateInterval] /\ quiet' \in [Devices -> 0 .. QuietCap]
        BY <2>24, Arithmetic, MinUpdateAssumption DEF Tick, TypeOK
      <3>3. UNCHANGED <<serviceVars, thread, monitored, inCommFail, freed, deviceVars, clientVars>>
        BY <2>24 DEF Tick
      <3>4. QED
        BY <3>1, <3>2, <3>3 DEF TypeOK
    <2>25. ASSUME NEW s \in Setters, SetterMonitor(s) PROVE TypeOK'
      <3>1. setter[s].uuid \in Devices /\ setter[s].secs \in Timeouts /\ setter[s].isCommFail \in BOOLEAN
        BY <2>25 DEF SetterMonitor, TypeOK
      <3>2. setter' \in [Setters -> [pc : SetterPcs, uuid : Devices \cup {NoDevice},
                                     secs : Timeouts, isCommFail : BOOLEAN]]
        BY <2>25, SomeTimeout DEF SetterMonitor, TypeOK
      <3>3. \A t \in Setters : setter'[t].pc # "idle" => setter'[t].uuid \in Devices
        BY <2>25 DEF SetterMonitor, TypeOK
      <3>4. SecsToMillis(setter[s].secs) \in 0 .. (U32 - 1)
        BY <3>1, Arithmetic
      <3>5. [timeout |-> setter[s].secs, remaining |-> SecsToMillis(setter[s].secs), sinceSync |-> 0] \in Info
        BY <3>1, <3>4, MinUpdateAssumption DEF Info
      <3>6. info' \in [Devices -> Info]
        BY <2>25, <3>5 DEF SetterMonitor, tableVars, TypeOK
      <3>7. quiet' \in [Devices -> 0 .. QuietCap]
        <4>1. 0 \in 0 .. QuietCap
          BY Arithmetic
        <4>2. QED
          BY <2>25, <4>1 DEF SetterMonitor, TypeOK
      <3>8. monitored' \in SUBSET Devices /\ inCommFail' \in SUBSET Devices /\ freed' \in SUBSET Devices
        BY <2>25, <3>1 DEF SetterMonitor, tableVars, TypeOK
      <3>9. QED
        BY <2>25, <3>2, <3>3, <3>6, <3>7, <3>8 DEF SetterMonitor, TypeOK
    <2>26. CASE UNCHANGED vars
      BY <2>26 DEF vars, TypeOK
    <2>27. QED
      BY <1>2, <2>1, <2>2, <2>3, <2>4, <2>5, <2>6, <2>7, <2>8, <2>9, <2>10, <2>11, <2>12,
         <2>13, <2>14, <2>15, <2>16, <2>17, <2>18, <2>19, <2>20, <2>21, <2>22, <2>23,
         <2>24, <2>25, <2>26 DEF Next, ThreadNext, RadioFinish
  <1>3. QED
    BY <1>1, <1>2, PTL DEF Spec

-----------------------------------------------------------------------------
(* After Term *)

\* MonitorGoneAfterTerm is not inductive by itself: that nothing is monitored
\* once the service is down rests on MonitorDevice's test of running.
ServiceInv ==
    /\ service \in {"down", "joining"} => ~running
    /\ MonitorGoneAfterTerm

\* ServiceInv survives a step that leaves the service, its thread and the set of
\* monitored devices alone, as those of the callers of the watchdog do.
LEMMA ServiceUntouched ==
    ASSUME ServiceInv, UNCHANGED <<service, running, thread, monitored>>
    PROVE  ServiceInv'
  BY DEF ServiceInv, MonitorGoneAfterTerm

\* Once deviceCommunicationWatchdogTerm has returned, the monitor thread has
\* exited and the table is empty, whatever the callers of the watchdog do.
THEOREM MonitorGone == Spec => []MonitorGoneAfterTerm
  <1> USE DEF ServiceInv, MonitorGoneAfterTerm,
              serviceVars, tableVars, clientVars, deviceVars, clockVars
  <1>1. Init => ServiceInv
    BY DEF Init
  <1>2. ASSUME ServiceInv, [Next]_vars
        PROVE  ServiceInv'
    <2> USE ServiceInv
    <2>1. CASE WatchdogInit \/ WatchdogInitTable \/ TermSignal \/ TermJoin \/ SetFastCommfail
      BY <2>1 DEF WatchdogInit, WatchdogInitTable, TermSignal, TermJoin, SetFastCommfail
    <2>2. CASE ThreadWake
      BY <2>2 DEF ThreadWake
    <2>3. CASE ThreadScan
      BY <2>3 DEF ThreadScan
    <2>4. CASE ThreadReadCallback
      BY <2>4 DEF ThreadReadCallback
    <2>5. CASE ThreadInvoke
      BY <2>5 DEF ThreadInvoke
    <2>6. CASE ThreadDone
      BY <2>6 DEF ThreadDone
    <2>7. ASSUME NEW r \in Radios, RadioFinish(r) PROVE ServiceInv'
      BY <2>7 DEF RadioFinish, PetReadCallback, PetInvoke, ForceReadCallback, ForceInvoke
    <2>8. ASSUME NEW r \in Radios, NEW d \in Devices, PetDevice(r, d) \/ ForceDeviceInCommFail(r, d)
          PROVE  ServiceInv'
      <3>1. CASE PetDevice(r, d)
        <4>1. UNCHANGED <<service, running, thread, monitored>>
          BY <3>1 DEF PetDevice
        <4>2. QED
          BY <4>1, ServiceUntouched
      <3>2. CASE ForceDeviceInCommFail(r, d)
        <4>1. UNCHANGED <<service, running, thread, monitored>>
          BY <3>2 DEF ForceDeviceInCommFail
        <4>2. QED
          BY <4>1, ServiceUntouched
      <3>3. QED
        BY <2>8, <3>1, <3>2
    <2>9. ASSUME NEW s \in Setters, SetterIsMonitored(s) \/ SetterStop(s) \/ SetterMonitor(s)
          PROVE  ServiceInv'
      BY <2>9 DEF SetterIsMonitored, SetterStop, Forget, SetterMonitor
    <2>10. ASSUME NEW s \in Setters, NEW d \in Devices, SetDeviceTimeout(s, d) \/ PairDevice(s, d)
           PROVE  ServiceInv'
      <3>1. CASE SetDeviceTimeout(s, d)
        <4>1. UNCHANGED <<service, running, thread, monitored>>
          BY <3>1 DEF SetDeviceTimeout
        <4>2. QED
          BY <4>1, ServiceUntouched
      <3>2. CASE PairDevice(s, d)
        <4>1. UNCHANGED <<service, running, thread, monitored>>
          BY <3>2 DEF PairDevice
        <4>2. QED
          BY <4>1, ServiceUntouched
      <3>3. QED
        BY <2>10, <3>1, <3>2
    <2>11. ASSUME NEW x \in Removers, StopMonitoringDevice(x) PROVE ServiceInv'
      BY <2>11 DEF StopMonitoringDevice, Forget
    <2>12. ASSUME NEW x \in Removers, NEW d \in Devices, RemoveFromDatabase(x, d) PROVE ServiceInv'
      BY <2>12 DEF RemoveFromDatabase
    <2>13. ASSUME NEW d \in Devices, SetTimeRemainingForDeviceFromLPM(d) \/ ScribbleFreed(d)
           PROVE  ServiceInv'
      BY <2>13 DEF SetTimeRemainingForDeviceFromLPM, ScribbleFreed
    <2>14. CASE Tick
      BY <2>14 DEF Tick
    <2>15. CASE UNCHANGED vars
      BY <2>15 DEF vars
    <2>16. QED
      BY <1>2, <2>1, <2>2, <2>3, <2>4, <2>5, <2>6, <2>7, <2>8, <2>9, <2>10, <2>11, <2>12,
         <2>13, <2>14, <2>15 DEF Next, ThreadNext
  <1>3. ServiceInv => MonitorGoneAfterTerm
    OBVIOUS
  <1>4. QED
    BY <1>1, <1>2, <1>3, PTL DEF Spec
-----------------------------------------------------------------------------
(* No device is reported early *)

\* When the time of a device is what the specification says it is: fast comm
\* fail is off, no time is restored from low power mode, no timeout overflows
\* the uint32_t product, and one thread at a time sets timeouts.  Without the last
\* two TimerResetOnCommunication and MonitoredRecordsLive fail.
PlainTime ==
    /\ FastDivisors = {} /\ LpmMillis = {}
    /\ \A t \in Timeouts : t * MillisPerSec < U32
    /\ \A s1, s2 \in Setters : s1 = s2

\* The inductive strengthening of TimeAccounted: the thread divides by one, and
\* the only setter never monitors a device that still is in the table, so no
\* record of the table has been destroyed.
TimeInv ==
    /\ freed = {}
    /\ \A s \in Setters : setter[s].pc = "monitor" => setter[s].uuid \notin monitored
    /\ TimeAccounted

\* Without overflow the uint32_t product is the product.
LEMMA NoOverflow ==
    ASSUME PlainTime, NEW secs \in Timeouts
    PROVE  /\ SecsToMillis(secs) = TimeoutMillis(secs)
           /\ TimeoutMillis(secs) \in Nat
           /\ TimeoutMillis(secs) <= QuietCap
  <1>1. secs \in Nat /\ secs * MillisPerSec \in Nat /\ secs * MillisPerSec < U32
    BY TimeoutsAssumption, U32Assumption DEF PlainTime
  <1>2. \A n \in Nat : n < U32 => n % U32 = n
    BY U32Assumption
  <1>3. U32 <= U32 * MillisPerSec
    BY U32Assumption
  <1>4. QED
    BY <1>1, <1>2, <1>3, U32Assumption DEF SecsToMillis, TimeoutMillis, QuietCap

\* A millisecond moves from the remaining time to the silent time; the silent
\* time saturates above every timeout.
LEMMA TickKeepsTime ==
    ASSUME NEW n \in Nat, NEW q \in Nat, NEW cap \in Nat, NEW t \in Nat,
           t <= cap, n + q >= t
    PROVE  Down(n) + Up(q, cap) >= t
  BY DEF Down, Up

\* The types TimeAccounted needs.
LEMMA TimeTypes ==
    ASSUME TypeOK, PlainTime, NEW d \in Devices
    PROVE  /\ info[d].remaining \in Nat /\ quiet[d] \in Nat
           /\ info[d].timeout \in Timeouts
           /\ TimeoutMillis(info[d].timeout) \in Nat
           /\ TimeoutMillis(info[d].timeout) <= QuietCap
           /\ SecsToMillis(info[d].timeout) = TimeoutMillis(info[d].timeout)
           /\ thread.divisor = 1
           /\ MillisLeft(d) = info[d].remaining
  <1>1. /\ info[d].remaining \in 0 .. (U32 - 1) /\ quiet[d] \in 0 .. QuietCap
        /\ info[d].timeout \in Timeouts
    BY DEF TypeOK, Info
  <1>2. thread.divisor \in FastDivisors \cup {1}
    BY DEF TypeOK
  <1>3. thread.divisor = 1
    BY <1>2 DEF PlainTime
  <1>4. \A n \in Nat : n \div 1 = n
    OBVIOUS
  <1>5. info[d].remaining \in Nat /\ quiet[d] \in Nat
    <2>1. U32 \in Nat /\ QuietCap \in Nat
      BY U32Assumption, Arithmetic
    <2>2. QED
      BY <1>1, <2>1
  <1>6. QED
    BY <1>1, <1>3, <1>4, <1>5, NoOverflow DEF MillisLeft

\* TimeAccounted survives a step that leaves the times of the devices it goes on
\* monitoring alone.
LEMMA TimeUntouched ==
    ASSUME TimeAccounted, monitored' \subseteq monitored, UNCHANGED <<info, quiet>>
    PROVE  TimeAccounted'
  BY DEF TimeAccounted

\* A step of the system preserves the accounting of time.
LEMMA TimeStep ==
    ASSUME PlainTime, TypeOK, TypeOK', TimeInv, [Next]_vars
    PROVE  TimeInv'
  <1> USE DEF serviceVars, tableVars, clientVars, deviceVars, clockVars, TimeInv
  <1>0. \A s \in Setters : setter[s].pc # "idle" => setter[s].uuid \in Devices
    BY DEF TypeOK
  <1>1. CASE WatchdogInit \/ WatchdogInitTable
    BY <1>1, TimeUntouched DEF WatchdogInit, WatchdogInitTable, TimeAccounted
  <1>2. CASE TermSignal \/ SetFastCommfail
    BY <1>2, TimeUntouched DEF TermSignal, SetFastCommfail
  <1>3. CASE TermJoin
    BY <1>3, TimeUntouched DEF TermJoin, TimeAccounted
  <1>4. CASE ThreadWake \/ ThreadReadCallback \/ ThreadInvoke \/ ThreadDone
    BY <1>4, TimeUntouched DEF ThreadWake, ThreadReadCallback, ThreadInvoke, ThreadDone
  <1>5. CASE ThreadScan
    <2>1. TimeAccounted'
      <3>1. ASSUME NEW d \in monitored
            PROVE  /\ info'[d].remaining = info[d].remaining
                   /\ info'[d].timeout = info[d].timeout
        <4> HIDE DEF TimeInv
        <4>1. d \in Devices
          BY DEF TypeOK
        <4>2. info'[d] = Synced(d, MillisLeft(d))
          BY <1>5, <4>1 DEF ThreadScan
        <4>3. MillisLeft(d) = info[d].remaining
          BY <4>1, TimeTypes
        <4>4. QED
          BY <4>2, <4>3 DEF Synced
      <3>2. QED
        BY <1>5, <3>1 DEF ThreadScan, TimeAccounted
    <2>2. QED
      BY <1>5, <2>1 DEF ThreadScan
  <1>6. ASSUME NEW r \in Radios, RadioFinish(r) PROVE TimeInv'
    BY <1>6, TimeUntouched
       DEF RadioFinish, PetReadCallback, PetInvoke, ForceReadCallback, ForceInvoke
  <1>7. ASSUME NEW r \in Radios, NEW d \in Devices, PetDevice(r, d) PROVE TimeInv'
    <2>1. ASSUME NEW e \in monitored
          PROVE  info'[e].remaining + quiet'[e] >= TimeoutMillis(info'[e].timeout)
      <3>1. e \in Devices
        BY DEF TypeOK
      <3>2. CASE e = d
        <4> HIDE DEF TimeInv
        <4>1. /\ info'[e] = Synced(e, SecsToMillis(info[e].timeout))
              /\ quiet'[e] = 0
          BY <1>7, <3>1, <3>2 DEF PetDevice, TypeOK
        <4> DEFINE millis == SecsToMillis(info[e].timeout)
        <4>2. /\ info'[e].timeout = info[e].timeout
              /\ info'[e].remaining = SecsToMillis(info[e].timeout)
          <5> HIDE DEF millis
          <5>1. info'[e] = [timeout |-> info[e].timeout, remaining |-> millis, sinceSync |-> 0]
            BY <4>1, Zenon DEF Synced, millis
          <5>2. info'[e].timeout = info[e].timeout /\ info'[e].remaining = millis
            BY <5>1
          <5>3. QED
            BY <5>2 DEF millis
        <4>3. /\ TimeoutMillis(info[e].timeout) \in Nat
              /\ SecsToMillis(info[e].timeout) = TimeoutMillis(info[e].timeout)
          BY <3>1, TimeTypes
        <4>4. info'[e].remaining = TimeoutMillis(info'[e].timeout)
          BY <4>2, <4>3
        <4>5. QED
          BY <4>1, <4>2, <4>3, <4>4
      <3>3. CASE e # d
        <4>1. info'[e] = info[e] /\ quiet'[e] = quiet[e]
          BY <1>7, <3>1, <3>3 DEF PetDevice, TypeOK
        <4>2. QED
          BY <4>1 DEF TimeAccounted
      <3>4. QED
        BY <3>2, <3>3
    <2>2. QED
      BY <1>7, <2>1 DEF PetDevice, TimeAccounted
  <1>8. ASSUME NEW r \in Radios, NEW d \in Devices, ForceDeviceInCommFail(r, d) PROVE TimeInv'
    BY <1>8, TimeUntouched DEF ForceDeviceInCommFail
  <1>9. ASSUME NEW d \in Devices, SetTimeRemainingForDeviceFromLPM(d) \/ ScribbleFreed(d)
        PROVE  TimeInv'
    BY <1>9 DEF SetTimeRemainingForDeviceFromLPM, ScribbleFreed, PlainTime
  <1>10. ASSUME NEW s \in Setters, NEW d \in Devices, SetDeviceTimeout(s, d) \/ PairDevice(s, d)
         PROVE  TimeInv'
    <2>1. \A x \in Setters : x = s
      BY DEF PlainTime
    <2>2. s \in DOMAIN setter
      BY DEF TypeOK
    <2>3. ASSUME NEW new, setter' = [setter EXCEPT ![s] = new], new.pc = "isMonitored"
          PROVE  setter'[s].pc = "isMonitored"
      BY <2>2, <2>3
    <2>4. setter'[s].pc = "isMonitored"
      <3>1. CASE SetDeviceTimeout(s, d)
        <4>1. PICK secs \in Timeouts :
                 setter' = [setter EXCEPT ![s] = [pc |-> "isMonitored", uuid |-> d,
                                            secs |-> secs, isCommFail |-> d \in commFail]]
          BY <3>1, Zenon DEF SetDeviceTimeout
        <4>2. QED
          BY <2>3, <4>1
      <3>2. CASE PairDevice(s, d)
        <4>1. PICK secs \in Timeouts :
                 setter' = [setter EXCEPT ![s] = [pc |-> "isMonitored", uuid |-> d,
                                            secs |-> secs, isCommFail |-> FALSE]]
          BY <3>2, Zenon DEF PairDevice
        <4>2. QED
          BY <2>3, <4>1
      <3>3. QED
        BY <1>10, <3>1, <3>2
    <2>5. UNCHANGED <<monitored, freed, info, quiet>>
      BY <1>10 DEF SetDeviceTimeout, PairDevice
    <2>6. TimeAccounted'
      BY <2>5, TimeUntouched
    <2>7. QED
      BY <2>1, <2>4, <2>5, <2>6
  <1>11. ASSUME NEW s \in Setters, SetterIsMonitored(s) PROVE TimeInv'
    <2>1. \A x \in Setters : x = s
      BY DEF PlainTime
    <2>2. /\ setter'[s].pc = "monitor" => setter[s].uuid \notin monitored
          /\ setter'[s].uuid = setter[s].uuid
      BY <1>11 DEF SetterIsMonitored, SetterGoes, TypeOK
    <2>3. QED
      BY <1>11, <2>1, <2>2, TimeUntouched DEF SetterIsMonitored
  <1>12. ASSUME NEW s \in Setters, SetterStop(s) PROVE TimeInv'
    <2>1. \A x \in Setters : x = s
      BY DEF PlainTime
    <2>2. setter'[s].uuid = setter[s].uuid
      BY <1>12 DEF SetterStop, SetterGoes, TypeOK
    <2>3. QED
      BY <1>12, <2>1, <2>2, TimeUntouched DEF SetterStop, Forget
  <1>13. ASSUME NEW s \in Setters, SetterMonitor(s) PROVE TimeInv'
    <2>1. (\A x \in Setters : x = s) /\ setter'[s].pc = "idle"
      BY <1>13 DEF PlainTime, SetterMonitor, TypeOK
    <2>2. setter[s].uuid \in Devices \ monitored /\ setter[s].secs \in Timeouts
      BY <1>0, <1>13 DEF SetterMonitor, TypeOK
    <2>3. CASE running /\ service # "starting" /\ setter[s].secs # 0
      <3> DEFINE d == setter[s].uuid
      <3>1. /\ monitored' = monitored \cup {d}
            /\ freed' = freed \cup ({d} \cap monitored)
            /\ info' = [info EXCEPT ![d] = [timeout |-> setter[s].secs,
                          remaining |-> SecsToMillis(setter[s].secs), sinceSync |-> 0]]
            /\ quiet' = [quiet EXCEPT ![d] = 0]
        BY <1>13, <2>3 DEF SetterMonitor
      <3>2. /\ info'[d].timeout = setter[s].secs
            /\ info'[d].remaining = TimeoutMillis(setter[s].secs)
            /\ quiet'[d] = 0
        <4> HIDE DEF d, TimeInv
        <4>1. d \in Devices
          BY <2>2 DEF d
        <4>2. d \in DOMAIN info /\ d \in DOMAIN quiet
          BY <4>1 DEF TypeOK
        <4>3. /\ info'[d] = [timeout |-> setter[s].secs,
                             remaining |-> SecsToMillis(setter[s].secs), sinceSync |-> 0]
              /\ quiet'[d] = 0
          BY <3>1, <4>2
        <4>4. SecsToMillis(setter[s].secs) = TimeoutMillis(setter[s].secs)
          BY <2>2, NoOverflow
        <4>5. QED
          BY <4>3, <4>4
      <3>3. info'[d].remaining + quiet'[d] >= TimeoutMillis(info'[d].timeout)
        <4> HIDE DEF d, TimeInv
        <4>1. TimeoutMillis(setter[s].secs) \in Nat
          BY <2>2, NoOverflow
        <4>2. info'[d].remaining = TimeoutMillis(info'[d].timeout) /\ info'[d].remaining \in Nat
          BY <3>2, <4>1
        <4>3. QED
          BY <3>2, <4>2
      <3>4. \A e \in monitored : info'[e] = info[e] /\ quiet'[e] = quiet[e]
        BY <2>2, <3>1 DEF TypeOK
      <3>5. TimeAccounted'
        BY <3>1, <3>3, <3>4 DEF TimeAccounted
      <3>6. QED
        BY <2>1, <2>2, <3>1, <3>5
    <2>4. CASE ~(running /\ service # "starting" /\ setter[s].secs # 0)
      BY <1>13, <2>1, <2>4, TimeUntouched DEF SetterMonitor
    <2>5. QED
      BY <2>3, <2>4
  <1>14. ASSUME NEW x \in Removers, StopMonitoringDevice(x) PROVE TimeInv'
    BY <1>14, TimeUntouched DEF StopMonitoringDevice, Forget
  <1>15. ASSUME NEW x \in Removers, NEW d \in Devices, RemoveFromDatabase(x, d) PROVE TimeInv'
    BY <1>15, TimeUntouched DEF RemoveFromDatabase
  <1>16. CASE Tick
    <2>1. ASSUME NEW d \in monitored
          PROVE  info'[d].remaining + quiet'[d] >= TimeoutMillis(info'[d].timeout)
      <3>1. d \in Devices
        BY DEF TypeOK
      <3>2. /\ info'[d].remaining = Down(info[d].remaining)
            /\ info'[d].timeout = info[d].timeout
            /\ quiet'[d] = Up(quiet[d], QuietCap)
        <4>1. /\ info'[d] = [info[d] EXCEPT !.remaining = Down(@),
                                            !.sinceSync = Up(@, MinUpdateInterval)]
              /\ quiet'[d] = Up(quiet[d], QuietCap)
          BY <1>16, <3>1 DEF Tick
        <4>2. info[d] \in Info
          BY <3>1 DEF TypeOK
        <4>3. QED
          BY <4>1, <4>2 DEF Info
      <3>3. info[d].remaining + quiet[d] >= TimeoutMillis(info[d].timeout)
        BY DEF TimeAccounted
      <3>4. /\ info[d].remaining \in Nat /\ quiet[d] \in Nat /\ QuietCap \in Nat
            /\ TimeoutMillis(info[d].timeout) \in Nat
            /\ TimeoutMillis(info[d].timeout) <= QuietCap
        BY <3>1, TimeTypes, Arithmetic
      <3>5. Down(info[d].remaining) + Up(quiet[d], QuietCap) >= TimeoutMillis(info[d].timeout)
        BY <3>3, <3>4, TickKeepsTime
      <3>6. QED
        BY <3>2, <3>5
    <2>2. QED
      BY <1>16, <2>1 DEF Tick, TimeAccounted
  <1>17. CASE UNCHANGED vars
    BY <1>17, TimeUntouched DEF vars
  <1>18. QED
    BY <1>1, <1>2, <1>3, <1>4, <1>5, <1>6, <1>7, <1>8, <1>9, <1>10, <1>11, <1>12,
       <1>13, <1>14, <1>15, <1>16, <1>17 DEF Next, ThreadNext

\* With PlainTime the watchdog never loses time: in every reachable state what is
\* left of a monitored device's timeout and the time it has been silent cover
\* the timeout.
THEOREM TimeIsAccounted ==
    ASSUME PlainTime
    PROVE  Spec => []TimeAccounted
  <1>1. Init => TimeInv
    BY DEF Init, TimeInv, TimeAccounted
  <1>2. TypeOK /\ TypeOK' /\ TimeInv /\ [Next]_vars => TimeInv'
    BY TimeStep
  <1>3. TimeInv => TimeAccounted
    BY DEF TimeInv
  <1>4. QED
    BY <1>1, <1>2, <1>3, TypeCorrect, PTL DEF Spec
\* With PlainTime the monitor thread collects a device for notification only if
\* it has been silent for its whole timeout.
THEOREM NeverEarly ==
    ASSUME PlainTime
    PROVE  Spec => NoEarlyFailure
  <1> DEFINE Late == \A d \in thread'.batch \ thread.batch :
                        quiet[d] >= TimeoutMillis(info[d].timeout)
  <1>1. ASSUME TypeOK, TimeAccounted, [Next]_vars
        PROVE  Late \/ UNCHANGED vars
    <2> USE DEF serviceVars, tableVars, clientVars, deviceVars, clockVars
    <2>1. CASE ThreadScan
      <3>1. ASSUME NEW d \in Expired
            PROVE  quiet[d] >= TimeoutMillis(info[d].timeout)
        <4>1. d \in Devices /\ d \in monitored /\ MillisLeft(d) = 0
          BY <1>1 DEF Expired, TypeOK
        <4>2. info[d].remaining = 0 /\ quiet[d] \in Nat
          BY <1>1, <4>1, TimeTypes
        <4>3. info[d].remaining + quiet[d] >= TimeoutMillis(info[d].timeout)
          BY <1>1, <4>1 DEF TimeAccounted
        <4>4. QED
          BY <4>2, <4>3
      <3>2. thread'.batch = Expired
        BY <1>1, <2>1 DEF ThreadScan, TypeOK
      <3>3. QED
        BY <3>1, <3>2
    <2>2. CASE ThreadReadCallback
      <3>1. thread'.batch \subseteq thread.batch
        BY <1>1, <2>2 DEF ThreadReadCallback, TypeOK
      <3>2. QED
        BY <3>1
    <2>3. CASE WatchdogInit \/ ThreadWake \/ ThreadInvoke \/ ThreadDone
      <3>1. thread'.batch \subseteq thread.batch
        <4>1. CASE WatchdogInit
          BY <4>1 DEF WatchdogInit
        <4>2. CASE ThreadWake \/ ThreadInvoke \/ ThreadDone
          BY <1>1, <4>2 DEF ThreadWake, ThreadInvoke, ThreadDone, TypeOK
        <4>3. QED
          BY <2>3, <4>1, <4>2
      <3>2. QED
        BY <3>1
    <2>4. CASE UNCHANGED thread
      BY <2>4
    <2>5. QED
      BY <1>1, <2>1, <2>2, <2>3, <2>4
         DEF Next, ThreadNext, vars, WatchdogInitTable, TermSignal, TermJoin, SetFastCommfail,
             RadioFinish,
             PetReadCallback, PetInvoke, ForceReadCallback, ForceInvoke, PetDevice,
             ForceDeviceInCommFail, SetterIsMonitored, SetterStop, SetterMonitor,
             SetDeviceTimeout, PairDevice, StopMonitoringDevice, RemoveFromDatabase,
             SetTimeRemainingForDeviceFromLPM, ScribbleFreed, Tick
  <1>2. QED
    BY <1>1, TypeCorrect, TimeIsAccounted, PTL DEF Spec, NoEarlyFailure
=============================================================================
