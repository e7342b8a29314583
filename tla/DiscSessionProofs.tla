------------------------- MODULE DiscSessionProofs -------------------------
(***************************************************************************)
(* Proofs about DiscSession for any set of callers, any phases and any     *)
(* bound on the generation.                                                *)
(***************************************************************************)
EXTENDS DiscSession, TLAPS

\* The operations lock is held by exactly the thread whose position says so.
LockInv ==
  /\ \A c \in Callers : pc[c] \in Holding <=> operations = c
  /\ operations = Worker <=>
       wpc \in {"create", "publish", "handshake", "announce", "health"}

\* Where the session's client can come from, and when it is ready.
ClientInv ==
  /\ wgen <= Epoch /\ Epoch <= generation /\ Epoch \in Nat
  /\ client # 0 => /\ client = Epoch /\ client = wclient
                   /\ wpc \in {"handshake", "announce", "monitor", "due", "health",
                               "finally", "settle"}
  /\ wpc \in {"handshake", "announce", "monitor", "due", "health"} /\ wgen = Epoch
       => client = wgen
  /\ wpc \in {"publish", "handshake", "announce", "monitor", "due", "health"}
       => wclient = wgen
  /\ wpc \in WorkerPcs \ {"top", "stopped"} => wgen # 0
  /\ connection = "ready" => client # 0 /\ wpc \in {"monitor", "due", "health", "finally", "settle"}

\* A socket that is not shut down is the session's, or not yet published.
SocketInv ==
  /\ \A g \in Gens : life[g] \in {"open", "closing"} =>
       g = client \/ (g = wclient /\ wpc = "publish")
  /\ wclient # 0 => life[wclient] # "none"
  /\ wpc = "settle" /\ wclient # 0 => life[wclient] = "shut"

\* A lease is on the client of the generation it was requested in.
LeaseInv ==
  \A c \in Callers : pc[c] \in InLease =>
    /\ lease[c] \in Gens /\ lease[c] = requested[c]
    /\ client \in {0, lease[c]}
    /\ life[lease[c]] # "none"

\* What a call has written was recorded as attempted on its client before.
WriteInvOf(c) ==
  /\ \A p \in Phases : written[c][p] \in {0, 1}
  /\ pc[c] \in {"waiting", "leased"} => \A p \in Phases : written[c][p] = 0
  /\ pc[c] \in InLease =>
       /\ \A p \in Phases : written[c][p] = 1 => p \in attempted_phases[lease[c]]
       /\ mutation_phase[lease[c]] = "mode" =>
            attempted_phases[lease[c]] \subseteq {"mode"}
  /\ pc[c] = "sending" =>
       /\ mutation_phase[lease[c]] \in attempted_phases[lease[c]]
       /\ written[c][mutation_phase[lease[c]]] = 0

WriteInv == \A c \in Callers : WriteInvOf(c)

IInv == TypeOK /\ LockInv /\ ClientInv /\ SocketInv /\ LeaseInv /\ WriteInv

\* Types are kept; the attempt's number is a generation while it is used.
LEMMA TypeStep == IInv /\ [Next]_vars => TypeOK'
<1> SUFFICES ASSUME IInv, [Next]_vars PROVE TypeOK'
  OBVIOUS
<1> USE ThreadAssumption, PhaseAssumption, BoundAssumption
      DEF IInv, TypeOK, Gens, CallerPcs, WorkerPcs, Results,
          Connections, ClientInv, LeaseInv, InLease, Epoch, guardVars,
          workerVars, phaseVars, callVars
<1>1. CASE connect
  BY <1>1 DEF connect
<1>2. CASE disconnect
  <2>1. life' \in [Gens -> {"none", "open", "closing", "shut"}]
    BY <1>2 DEF disconnect, BeginDisconnect
  <2>2. generation' \in Nat
    BY <1>2 DEF disconnect, BeginDisconnect
  <2>6. closing' = TRUE /\ enabled' = FALSE
    BY ONLY <1>2 DEF disconnect, BeginDisconnect
  <2>7. closing' \in BOOLEAN /\ enabled' \in BOOLEAN
    BY ONLY <2>6
  <2>3. exiting' \in {"no", "set", "left"}
    BY <1>2 DEF disconnect, BeginDisconnect
  <2>4. UNCHANGED <<connection, client, operations, workerVars, hot, phaseVars,
                    callVars>>
    BY <1>2 DEF disconnect, BeginDisconnect
  <2>5. TypeOK
    OBVIOUS
  <2> QED
    BY ONLY <2>1, <2>2, <2>3, <2>4, <2>5, <2>7
       DEF TypeOK, workerVars, phaseVars, callVars
<1>3. CASE EndDisconnect
  <2>1. life' \in [Gens -> {"none", "open", "closing", "shut"}]
    BY <1>3 DEF EndDisconnect, Shut
  <2>2. client' \in Gens \cup {0} /\ connection' \in Connections
    BY <1>3 DEF EndDisconnect
  <2>3. closing' = FALSE
    BY ONLY <1>3 DEF EndDisconnect
  <2>4. UNCHANGED <<enabled, exiting, generation, operations, workerVars, hot,
                    phaseVars, callVars>>
    BY <1>3 DEF EndDisconnect
  <2>5. TypeOK
    OBVIOUS
  <2>6. closing' \in BOOLEAN
    BY ONLY <2>3
  <2> QED
    BY ONLY <2>1, <2>2, <2>4, <2>5, <2>6
       DEF TypeOK, workerVars, phaseVars, callVars
<1>4. CASE SetShutdown
  BY <1>4 DEF SetShutdown
<1>5. CASE ExitDisconnect
  <2>1. life' \in [Gens -> {"none", "open", "closing", "shut"}]
    BY <1>5 DEF ExitDisconnect, BeginDisconnect
  <2>2. generation' \in Nat
    BY <1>5 DEF ExitDisconnect, BeginDisconnect
  <2>6. closing' = TRUE /\ enabled' = FALSE
    BY ONLY <1>5 DEF ExitDisconnect, BeginDisconnect
  <2>7. closing' \in BOOLEAN /\ enabled' \in BOOLEAN
    BY ONLY <2>6
  <2>3. exiting' \in {"no", "set", "left"}
    BY <1>5 DEF ExitDisconnect, BeginDisconnect
  <2>4. UNCHANGED <<connection, client, operations, workerVars, hot, phaseVars,
                    callVars>>
    BY <1>5 DEF ExitDisconnect, BeginDisconnect
  <2>5. TypeOK
    OBVIOUS
  <2> QED
    BY ONLY <2>1, <2>2, <2>3, <2>4, <2>5, <2>7
       DEF TypeOK, workerVars, phaseVars, callVars
<1>6. CASE WorkerStops
  BY <1>6 DEF WorkerStops, shutdown
<1>7. CASE StartAttempt
  BY <1>7 DEF StartAttempt, shutdown
<1>8. CASE LockOperations
  BY <1>8 DEF LockOperations
<1>9. CASE CreateClient
  BY <1>9 DEF CreateClient
<1>10. CASE AttemptFails
  BY <1>10, SMTT(30) DEF AttemptFails, Shut
<1>11. CASE Publish
  BY <1>11 DEF Publish, Shut, Superseded
<1>12. CASE Handshake
  BY <1>12 DEF Handshake, Closed
<1>13. CASE Announce
  BY <1>13 DEF Announce, Superseded, Closed
<1>14. CASE LeaveMonitor
  BY <1>14 DEF LeaveMonitor, Superseded, Closed, shutdown
<1>15. CASE StayReady
  BY <1>15 DEF StayReady, Superseded, Closed, shutdown
<1>16. CASE SkipHealth
  BY <1>16 DEF SkipHealth
<1>17. CASE BeginHealth
  BY <1>17 DEF BeginHealth
<1>18. CASE EndHealth
  BY <1>18 DEF EndHealth, Shut, Closed
<1>19. CASE CloseClient
  BY <1>19 DEF CloseClient, Shut
<1>20. CASE Settle
  <2>1. client' \in Gens \cup {0} /\ connection' \in Connections
    BY <1>20 DEF Settle
  <2>2. wpc' \in WorkerPcs
    BY <1>20 DEF Settle
  <2>3. skip' = FALSE
    BY ONLY <1>20 DEF Settle
  <2>4. UNCHANGED <<enabled, exiting, generation, closing, operations, wgen,
                    wclient, fresh, life, hot, phaseVars, callVars>>
    BY <1>20 DEF Settle
  <2>5. TypeOK
    OBVIOUS
  <2>6. skip' \in BOOLEAN
    BY ONLY <2>3
  <2> QED
    BY ONLY <2>1, <2>2, <2>4, <2>5, <2>6 DEF TypeOK, phaseVars, callVars
<1>21. CASE Backoff
  BY <1>21 DEF Backoff
<1>22. ASSUME NEW g \in Gens, ReaderClose(g) PROVE TypeOK'
  BY <1>22 DEF ReaderClose
<1>23. ASSUME NEW g \in Gens, ReaderShut(g) PROVE TypeOK'
  BY <1>23 DEF ReaderShut, Shut
<1>24. ASSUME NEW g \in Gens, IntervalPasses(g) PROVE TypeOK'
  BY <1>24 DEF IntervalPasses, Closed
<1>25. ASSUME NEW c \in Callers, Acquire(c) PROVE TypeOK'
  BY <1>25 DEF Acquire
<1>26. ASSUME NEW c \in Callers, Begin(c) PROVE TypeOK'
  BY <1>26 DEF Begin, Leasable, Closed
<1>27. ASSUME NEW c \in Callers, Refuse(c) PROVE TypeOK'
  BY <1>27 DEF Refuse, Leasable, Closed
<1>28. ASSUME NEW c \in Callers, NEW p \in Phases, begin_phase(c, p) PROVE TypeOK'
  <2>1. mutation_phase' \in [Gens -> Phases]
    BY <1>28 DEF begin_phase
  <2> QED
    BY <2>1, <1>28, SMTT(30) DEF begin_phase
<1>29. ASSUME NEW c \in Callers, Attempt(c) PROVE TypeOK'
  <2>1. lease[c] \in Gens /\ mutation_phase[lease[c]] \in Phases
    BY <1>29 DEF Attempt
  <2>2. attempted_phases' \in [Gens -> SUBSET Phases]
    BY <2>1, <1>29 DEF Attempt
  <2>3. mutation_attempted' \in [Gens -> BOOLEAN]
    BY <2>1, <1>29 DEF Attempt
  <2>4. hot' \in SUBSET Gens /\ pc' \in [Callers -> CallerPcs]
    BY <2>1, <1>29 DEF Attempt
  <2> QED
    BY <2>2, <2>3, <2>4, <1>29, SMTT(30) DEF Attempt
<1>30. ASSUME NEW c \in Callers, Write(c) PROVE TypeOK'
  <2>1. mutation_phase[lease[c]] \in Phases
    BY <1>30 DEF Write
  <2>2. written' \in [Callers -> [Phases -> Nat]]
    BY ONLY <1>30, <2>1, TypeOK DEF Write, PutOnWire, TypeOK
  <2>3. pc' \in [Callers -> CallerPcs]
    BY <1>30 DEF Write
  <2>4. UNCHANGED <<guardVars, operations, workerVars, life, hot, phaseVars,
                    requested, lease, result>>
    BY <1>30 DEF Write
  <2>5. TypeOK
    OBVIOUS
  <2> QED
    BY ONLY <2>2, <2>3, <2>4, <2>5 DEF TypeOK, guardVars, workerVars, phaseVars
<1>31. ASSUME NEW c \in Callers, WriteFails(c) PROVE TypeOK'
  <2>0. mutation_phase[lease[c]] \in Phases
    BY <1>31 DEF WriteFails
  <2>1. written' \in [Callers -> [Phases -> Nat]]
    <3>1. CASE PutOnWire(c)
      BY <2>0, <3>1 DEF PutOnWire
    <3>2. CASE UNCHANGED written
      BY <3>2
    <3> QED
      BY <3>1, <3>2, <1>31 DEF WriteFails
  <2>2. life' \in [Gens -> {"none", "open", "closing", "shut"}]
    BY <1>31 DEF WriteFails, Shut
  <2>3. pc' \in [Callers -> CallerPcs]
    BY <1>31 DEF WriteFails
  <2>4. UNCHANGED <<guardVars, operations, workerVars, hot, phaseVars, requested,
                     lease, result>>
    BY <1>31 DEF WriteFails
  <2>5. TypeOK
    OBVIOUS
  <2> QED
    BY ONLY <2>1, <2>2, <2>3, <2>4, <2>5 DEF TypeOK, guardVars, workerVars, phaseVars
<1>32. ASSUME NEW c \in Callers, Raise(c) PROVE TypeOK'
  <2>1. life' \in [Gens -> {"none", "open", "closing", "shut"}]
    BY <1>32 DEF Raise, Shut
  <2>2. pc' \in [Callers -> CallerPcs]
    BY <1>32 DEF Raise
  <2> QED
    BY <2>1, <2>2, <1>32, SMTT(30) DEF Raise
<1>33. ASSUME NEW c \in Callers, Return(c) PROVE TypeOK'
  BY <1>33, SMTT(30) DEF Return, Closed
<1>34. ASSUME NEW c \in Callers, EndReturned(c) PROVE TypeOK'
  BY <1>34, SMTT(30) DEF EndReturned, EndLease
<1>35. ASSUME NEW c \in Callers, EndRaised(c) PROVE TypeOK'
  BY <1>35 DEF EndRaised, EndLease
<1>36. ASSUME NEW c \in Callers, Report(c) PROVE TypeOK'
  BY <1>36 DEF Report
<1>37. ASSUME NEW c \in Callers, NEW e \in 0 .. generation, Call(c, e) PROVE TypeOK'
  <2>1. written' \in [Callers -> [Phases -> Nat]]
    BY <1>37 DEF Call
  <2>2. requested' \in [Callers -> Nat]
    BY <1>37 DEF Call
  <2>5. pc' = [pc EXCEPT ![c] = "waiting"] \/ pc' = pc
    BY <1>37 DEF Call
  <2>4. pc' \in [Callers -> CallerPcs]
    BY <2>5
  <2>3. result' \in [Callers -> Results]
    BY <1>37 DEF Call
  <2> QED
    BY <2>1, <2>2, <2>3, <2>4, <1>37, SMTT(30) DEF Call
<1>38. CASE UNCHANGED vars
  BY <1>38 DEF vars
<1> QED
  BY <1>1, <1>2, <1>3, <1>4, <1>5, <1>6, <1>7, <1>8, <1>9, <1>10, <1>11,
     <1>12, <1>13, <1>14, <1>15, <1>16, <1>17, <1>18, <1>19, <1>20, <1>21,
     <1>22, <1>23, <1>24, <1>25, <1>26, <1>27, <1>28, <1>29, <1>30, <1>31,
     <1>32, <1>33, <1>34, <1>35, <1>36, <1>37, <1>38 DEF Next, OwnerStep,
     WorkerStep, ClientStep, CallerStep

\* The operations lock changes hands only where its owner's position does.
LEMMA LockStep == IInv /\ [Next]_vars => LockInv'
<1> SUFFICES ASSUME IInv, [Next]_vars PROVE LockInv'
  OBVIOUS
<1> USE ThreadAssumption, PhaseAssumption, BoundAssumption
      DEF IInv, TypeOK, Gens, CallerPcs, WorkerPcs, Results,
          Connections, LockInv, Holding, InLease, guardVars, workerVars,
          phaseVars, callVars
<1>1. CASE connect
  BY <1>1 DEF connect
<1>2. CASE disconnect
  BY <1>2 DEF disconnect, BeginDisconnect
<1>3. CASE EndDisconnect
  BY <1>3 DEF EndDisconnect, Shut
<1>4. CASE SetShutdown
  BY <1>4 DEF SetShutdown
<1>5. CASE ExitDisconnect
  BY <1>5 DEF ExitDisconnect, BeginDisconnect
<1>6. CASE WorkerStops
  BY <1>6 DEF WorkerStops, shutdown
<1>7. CASE StartAttempt
  BY <1>7 DEF StartAttempt, shutdown
<1>8. CASE LockOperations
  BY <1>8 DEF LockOperations
<1>9. CASE CreateClient
  BY <1>9 DEF CreateClient
<1>10. CASE AttemptFails
  BY <1>10 DEF AttemptFails, Shut
<1>11. CASE Publish
  BY <1>11 DEF Publish, Shut, Superseded
<1>12. CASE Handshake
  BY <1>12 DEF Handshake, Closed
<1>13. CASE Announce
  BY <1>13 DEF Announce, Superseded, Closed
<1>14. CASE LeaveMonitor
  BY <1>14 DEF LeaveMonitor, Superseded, Closed, shutdown
<1>15. CASE StayReady
  BY <1>15 DEF StayReady, Superseded, Closed, shutdown
<1>16. CASE SkipHealth
  BY <1>16 DEF SkipHealth
<1>17. CASE BeginHealth
  BY <1>17 DEF BeginHealth
<1>18. CASE EndHealth
  BY <1>18 DEF EndHealth, Shut, Closed
<1>19. CASE CloseClient
  BY <1>19 DEF CloseClient, Shut
<1>20. CASE Settle
  BY <1>20 DEF Settle
<1>21. CASE Backoff
  BY <1>21 DEF Backoff
<1>22. ASSUME NEW g \in Gens, ReaderClose(g) PROVE LockInv'
  BY <1>22 DEF ReaderClose
<1>23. ASSUME NEW g \in Gens, ReaderShut(g) PROVE LockInv'
  BY <1>23 DEF ReaderShut, Shut
<1>24. ASSUME NEW g \in Gens, IntervalPasses(g) PROVE LockInv'
  BY <1>24 DEF IntervalPasses, Closed
<1>25. ASSUME NEW c \in Callers, Acquire(c) PROVE LockInv'
  BY <1>25 DEF Acquire
<1>26. ASSUME NEW c \in Callers, Begin(c) PROVE LockInv'
  BY <1>26 DEF Begin, Leasable, Closed
<1>27. ASSUME NEW c \in Callers, Refuse(c) PROVE LockInv'
  BY <1>27 DEF Refuse, Leasable, Closed
<1>28. ASSUME NEW c \in Callers, NEW p \in Phases, begin_phase(c, p) PROVE LockInv'
  BY <1>28 DEF begin_phase
<1>29. ASSUME NEW c \in Callers, Attempt(c) PROVE LockInv'
  BY <1>29 DEF Attempt, Closed
<1>30. ASSUME NEW c \in Callers, Write(c) PROVE LockInv'
  BY <1>30 DEF Write, PutOnWire
<1>31. ASSUME NEW c \in Callers, WriteFails(c) PROVE LockInv'
  BY <1>31 DEF WriteFails, PutOnWire, Shut
<1>32. ASSUME NEW c \in Callers, Raise(c) PROVE LockInv'
  BY <1>32 DEF Raise, Shut
<1>33. ASSUME NEW c \in Callers, Return(c) PROVE LockInv'
  BY <1>33 DEF Return, Closed
<1>34. ASSUME NEW c \in Callers, EndReturned(c) PROVE LockInv'
  BY <1>34 DEF EndReturned, EndLease
<1>35. ASSUME NEW c \in Callers, EndRaised(c) PROVE LockInv'
  BY <1>35 DEF EndRaised, EndLease
<1>36. ASSUME NEW c \in Callers, Report(c) PROVE LockInv'
  BY <1>36 DEF Report
<1>37. ASSUME NEW c \in Callers, NEW e \in 0 .. generation, Call(c, e) PROVE LockInv'
  BY <1>37 DEF Call, Leasable, Closed
<1>38. CASE UNCHANGED vars
  BY <1>38 DEF vars
<1> QED
  BY <1>1, <1>2, <1>3, <1>4, <1>5, <1>6, <1>7, <1>8, <1>9, <1>10, <1>11,
     <1>12, <1>13, <1>14, <1>15, <1>16, <1>17, <1>18, <1>19, <1>20, <1>21,
     <1>22, <1>23, <1>24, <1>25, <1>26, <1>27, <1>28, <1>29, <1>30, <1>31,
     <1>32, <1>33, <1>34, <1>35, <1>36, <1>37, <1>38 DEF Next, OwnerStep,
     WorkerStep, ClientStep, CallerStep

\* The session's client is the one of the readable generation.
LEMMA ClientStepInv == IInv /\ [Next]_vars => ClientInv'
<1> SUFFICES ASSUME IInv, [Next]_vars PROVE ClientInv'
  OBVIOUS
<1> USE ThreadAssumption, PhaseAssumption, BoundAssumption
      DEF IInv, TypeOK, Gens, CallerPcs, WorkerPcs, Results,
          Connections, LockInv, ClientInv, SocketInv, Epoch, guardVars,
          workerVars, phaseVars, callVars
<1>1. CASE connect
  BY <1>1 DEF connect
<1>2. CASE disconnect
  BY <1>2 DEF disconnect, BeginDisconnect
<1>3. CASE EndDisconnect
  BY <1>3 DEF EndDisconnect, Shut
<1>4. CASE SetShutdown
  BY <1>4 DEF SetShutdown
<1>5. CASE ExitDisconnect
  BY <1>5, SMTT(30) DEF ExitDisconnect, BeginDisconnect
<1>6. CASE WorkerStops
  BY <1>6 DEF WorkerStops, shutdown
<1>7. CASE StartAttempt
  BY <1>7 DEF StartAttempt, shutdown
<1>8. CASE LockOperations
  BY <1>8 DEF LockOperations
<1>9. CASE CreateClient
  BY <1>9 DEF CreateClient
<1>10. CASE AttemptFails
  BY <1>10 DEF AttemptFails, Shut
<1>11. CASE Publish
  BY <1>11 DEF Publish, Shut, Superseded
<1>12. CASE Handshake
  BY <1>12 DEF Handshake, Closed
<1>13. CASE Announce
  BY <1>13 DEF Announce, Superseded, Closed
<1>14. CASE LeaveMonitor
  BY <1>14 DEF LeaveMonitor, Superseded, Closed, shutdown
<1>15. CASE StayReady
  BY <1>15 DEF StayReady, Superseded, Closed, shutdown
<1>16. CASE SkipHealth
  BY <1>16 DEF SkipHealth
<1>17. CASE BeginHealth
  BY <1>17 DEF BeginHealth
<1>18. CASE EndHealth
  BY <1>18 DEF EndHealth, Shut, Closed
<1>19. CASE CloseClient
  BY <1>19 DEF CloseClient, Shut
<1>20. CASE Settle
  BY <1>20 DEF Settle
<1>21. CASE Backoff
  BY <1>21 DEF Backoff
<1>22. ASSUME NEW g \in Gens, ReaderClose(g) PROVE ClientInv'
  BY <1>22 DEF ReaderClose
<1>23. ASSUME NEW g \in Gens, ReaderShut(g) PROVE ClientInv'
  BY <1>23 DEF ReaderShut, Shut
<1>24. ASSUME NEW g \in Gens, IntervalPasses(g) PROVE ClientInv'
  BY <1>24 DEF IntervalPasses, Closed
<1>25. ASSUME NEW c \in Callers, Acquire(c) PROVE ClientInv'
  BY <1>25 DEF Acquire
<1>26. ASSUME NEW c \in Callers, Begin(c) PROVE ClientInv'
  BY <1>26 DEF Begin, Leasable, Closed
<1>27. ASSUME NEW c \in Callers, Refuse(c) PROVE ClientInv'
  BY <1>27 DEF Refuse, Leasable, Closed
<1>28. ASSUME NEW c \in Callers, NEW p \in Phases, begin_phase(c, p) PROVE ClientInv'
  BY <1>28 DEF begin_phase
<1>29. ASSUME NEW c \in Callers, Attempt(c) PROVE ClientInv'
  BY <1>29 DEF Attempt, Closed
<1>30. ASSUME NEW c \in Callers, Write(c) PROVE ClientInv'
  BY <1>30 DEF Write, PutOnWire
<1>31. ASSUME NEW c \in Callers, WriteFails(c) PROVE ClientInv'
  BY <1>31 DEF WriteFails, PutOnWire, Shut
<1>32. ASSUME NEW c \in Callers, Raise(c) PROVE ClientInv'
  BY <1>32 DEF Raise, Shut
<1>33. ASSUME NEW c \in Callers, Return(c) PROVE ClientInv'
  BY <1>33 DEF Return, Closed
<1>34. ASSUME NEW c \in Callers, EndReturned(c) PROVE ClientInv'
  BY <1>34 DEF EndReturned, EndLease
<1>35. ASSUME NEW c \in Callers, EndRaised(c) PROVE ClientInv'
  BY <1>35 DEF EndRaised, EndLease
<1>36. ASSUME NEW c \in Callers, Report(c) PROVE ClientInv'
  BY <1>36 DEF Report
<1>37. ASSUME NEW c \in Callers, NEW e \in 0 .. generation, Call(c, e) PROVE ClientInv'
  BY <1>37 DEF Call, Leasable, Closed
<1>38. CASE UNCHANGED vars
  BY <1>38 DEF vars
<1> QED
  BY <1>1, <1>2, <1>3, <1>4, <1>5, <1>6, <1>7, <1>8, <1>9, <1>10, <1>11,
     <1>12, <1>13, <1>14, <1>15, <1>16, <1>17, <1>18, <1>19, <1>20, <1>21,
     <1>22, <1>23, <1>24, <1>25, <1>26, <1>27, <1>28, <1>29, <1>30, <1>31,
     <1>32, <1>33, <1>34, <1>35, <1>36, <1>37, <1>38 DEF Next, OwnerStep,
     WorkerStep, ClientStep, CallerStep

\* Sockets are shut down before their client is forgotten.
LEMMA SocketStep == IInv /\ [Next]_vars => SocketInv'
<1> SUFFICES ASSUME IInv, [Next]_vars PROVE SocketInv'
  OBVIOUS
<1> USE ThreadAssumption, PhaseAssumption, BoundAssumption
      DEF IInv, TypeOK, Gens, CallerPcs, WorkerPcs, Results,
          Connections, ClientInv, SocketInv, Epoch, guardVars,
          workerVars, phaseVars, callVars
<1>1. CASE connect
  BY <1>1 DEF connect
<1>2. CASE disconnect
  BY <1>2, SMTT(30) DEF disconnect, BeginDisconnect
<1>3. CASE EndDisconnect
  BY <1>3 DEF EndDisconnect, Shut
<1>4. CASE SetShutdown
  BY <1>4 DEF SetShutdown
<1>5. CASE ExitDisconnect
  BY <1>5, SMTT(30) DEF ExitDisconnect, BeginDisconnect
<1>6. CASE WorkerStops
  BY <1>6 DEF WorkerStops, shutdown
<1>7. CASE StartAttempt
  BY <1>7 DEF StartAttempt, shutdown
<1>8. CASE LockOperations
  BY <1>8 DEF LockOperations
<1>9. CASE CreateClient
  BY <1>9 DEF CreateClient
<1>10. CASE AttemptFails
  BY <1>10 DEF AttemptFails, Shut
<1>11. CASE Publish
  BY <1>11 DEF Publish, Shut, Superseded
<1>12. CASE Handshake
  BY <1>12 DEF Handshake, Closed
<1>13. CASE Announce
  BY <1>13 DEF Announce, Superseded, Closed
<1>14. CASE LeaveMonitor
  BY <1>14 DEF LeaveMonitor, Superseded, Closed, shutdown
<1>15. CASE StayReady
  BY <1>15 DEF StayReady, Superseded, Closed, shutdown
<1>16. CASE SkipHealth
  BY <1>16 DEF SkipHealth
<1>17. CASE BeginHealth
  BY <1>17 DEF BeginHealth
<1>18. CASE EndHealth
  BY <1>18 DEF EndHealth, Shut, Closed
<1>19. CASE CloseClient
  BY <1>19 DEF CloseClient, Shut
<1>20. CASE Settle
  BY <1>20 DEF Settle
<1>21. CASE Backoff
  BY <1>21 DEF Backoff
<1>22. ASSUME NEW g \in Gens, ReaderClose(g) PROVE SocketInv'
  BY <1>22 DEF ReaderClose
<1>23. ASSUME NEW g \in Gens, ReaderShut(g) PROVE SocketInv'
  BY <1>23 DEF ReaderShut, Shut
<1>24. ASSUME NEW g \in Gens, IntervalPasses(g) PROVE SocketInv'
  BY <1>24 DEF IntervalPasses, Closed
<1>25. ASSUME NEW c \in Callers, Acquire(c) PROVE SocketInv'
  BY <1>25 DEF Acquire
<1>26. ASSUME NEW c \in Callers, Begin(c) PROVE SocketInv'
  BY <1>26 DEF Begin, Leasable, Closed
<1>27. ASSUME NEW c \in Callers, Refuse(c) PROVE SocketInv'
  BY <1>27 DEF Refuse, Leasable, Closed
<1>28. ASSUME NEW c \in Callers, NEW p \in Phases, begin_phase(c, p) PROVE SocketInv'
  BY <1>28 DEF begin_phase
<1>29. ASSUME NEW c \in Callers, Attempt(c) PROVE SocketInv'
  BY <1>29 DEF Attempt, Closed
<1>30. ASSUME NEW c \in Callers, Write(c) PROVE SocketInv'
  BY <1>30 DEF Write, PutOnWire
<1>31. ASSUME NEW c \in Callers, WriteFails(c) PROVE SocketInv'
  BY <1>31 DEF WriteFails, PutOnWire, Shut
<1>32. ASSUME NEW c \in Callers, Raise(c) PROVE SocketInv'
  BY <1>32 DEF Raise, Shut
<1>33. ASSUME NEW c \in Callers, Return(c) PROVE SocketInv'
  BY <1>33 DEF Return, Closed
<1>34. ASSUME NEW c \in Callers, EndReturned(c) PROVE SocketInv'
  BY <1>34 DEF EndReturned, EndLease
<1>35. ASSUME NEW c \in Callers, EndRaised(c) PROVE SocketInv'
  BY <1>35 DEF EndRaised, EndLease
<1>36. ASSUME NEW c \in Callers, Report(c) PROVE SocketInv'
  BY <1>36 DEF Report
<1>37. ASSUME NEW c \in Callers, NEW e \in 0 .. generation, Call(c, e) PROVE SocketInv'
  BY <1>37 DEF Call, Leasable, Closed
<1>38. CASE UNCHANGED vars
  BY <1>38 DEF vars
<1> QED
  BY <1>1, <1>2, <1>3, <1>4, <1>5, <1>6, <1>7, <1>8, <1>9, <1>10, <1>11,
     <1>12, <1>13, <1>14, <1>15, <1>16, <1>17, <1>18, <1>19, <1>20, <1>21,
     <1>22, <1>23, <1>24, <1>25, <1>26, <1>27, <1>28, <1>29, <1>30, <1>31,
     <1>32, <1>33, <1>34, <1>35, <1>36, <1>37, <1>38 DEF Next, OwnerStep,
     WorkerStep, ClientStep, CallerStep

\* A lease keeps its client while the session may lose it.
LEMMA LeaseStep == IInv /\ [Next]_vars => LeaseInv'
<1> SUFFICES ASSUME IInv, [Next]_vars PROVE LeaseInv'
  OBVIOUS
<1> USE ThreadAssumption, PhaseAssumption, BoundAssumption
      DEF IInv, TypeOK, Gens, CallerPcs, WorkerPcs, Results,
          Connections, LockInv, ClientInv, SocketInv, LeaseInv, Holding,
          InLease, Epoch, guardVars, workerVars, phaseVars, callVars
<1>1. CASE connect
  BY <1>1 DEF connect
<1>2. CASE disconnect
  BY <1>2 DEF disconnect, BeginDisconnect
<1>3. CASE EndDisconnect
  BY <1>3 DEF EndDisconnect, Shut
<1>4. CASE SetShutdown
  BY <1>4 DEF SetShutdown
<1>5. CASE ExitDisconnect
  BY <1>5, SMTT(30) DEF ExitDisconnect, BeginDisconnect
<1>6. CASE WorkerStops
  BY <1>6 DEF WorkerStops, shutdown
<1>7. CASE StartAttempt
  BY <1>7 DEF StartAttempt, shutdown
<1>8. CASE LockOperations
  BY <1>8 DEF LockOperations
<1>9. CASE CreateClient
  BY <1>9 DEF CreateClient
<1>10. CASE AttemptFails
  BY <1>10 DEF AttemptFails, Shut
<1>11. CASE Publish
  BY <1>11 DEF Publish, Shut, Superseded
<1>12. CASE Handshake
  BY <1>12 DEF Handshake, Closed
<1>13. CASE Announce
  BY <1>13 DEF Announce, Superseded, Closed
<1>14. CASE LeaveMonitor
  BY <1>14 DEF LeaveMonitor, Superseded, Closed, shutdown
<1>15. CASE StayReady
  BY <1>15 DEF StayReady, Superseded, Closed, shutdown
<1>16. CASE SkipHealth
  BY <1>16 DEF SkipHealth
<1>17. CASE BeginHealth
  BY <1>17 DEF BeginHealth
<1>18. CASE EndHealth
  BY <1>18 DEF EndHealth, Shut, Closed
<1>19. CASE CloseClient
  BY <1>19 DEF CloseClient, Shut
<1>20. CASE Settle
  BY <1>20 DEF Settle
<1>21. CASE Backoff
  BY <1>21 DEF Backoff
<1>22. ASSUME NEW g \in Gens, ReaderClose(g) PROVE LeaseInv'
  BY <1>22 DEF ReaderClose
<1>23. ASSUME NEW g \in Gens, ReaderShut(g) PROVE LeaseInv'
  BY <1>23 DEF ReaderShut, Shut
<1>24. ASSUME NEW g \in Gens, IntervalPasses(g) PROVE LeaseInv'
  BY <1>24 DEF IntervalPasses, Closed
<1>25. ASSUME NEW c \in Callers, Acquire(c) PROVE LeaseInv'
  BY <1>25 DEF Acquire
<1>26. ASSUME NEW c \in Callers, Begin(c) PROVE LeaseInv'
  <2>1. client \in Gens /\ client = generation /\ requested[c] = client
    BY <1>26 DEF Begin, Leasable
  <2>2. \A d \in Callers : pc'[d] \in InLease => d = c
    BY <1>26 DEF Begin
  <2>3. lease'[c] = client /\ requested'[c] = client /\ client' = client /\ life' = life
    BY <1>26, <2>1 DEF Begin
  <2>4. life[client] # "none"
    BY <2>1
  <2> QED
    BY <2>1, <2>2, <2>3, <2>4
<1>27. ASSUME NEW c \in Callers, Refuse(c) PROVE LeaseInv'
  BY <1>27 DEF Refuse, Leasable, Closed
<1>28. ASSUME NEW c \in Callers, NEW p \in Phases, begin_phase(c, p) PROVE LeaseInv'
  BY <1>28 DEF begin_phase
<1>29. ASSUME NEW c \in Callers, Attempt(c) PROVE LeaseInv'
  BY <1>29 DEF Attempt, Closed
<1>30. ASSUME NEW c \in Callers, Write(c) PROVE LeaseInv'
  BY <1>30 DEF Write, PutOnWire
<1>31. ASSUME NEW c \in Callers, WriteFails(c) PROVE LeaseInv'
  BY <1>31 DEF WriteFails, PutOnWire, Shut
<1>32. ASSUME NEW c \in Callers, Raise(c) PROVE LeaseInv'
  BY <1>32 DEF Raise, Shut
<1>33. ASSUME NEW c \in Callers, Return(c) PROVE LeaseInv'
  BY <1>33 DEF Return, Closed
<1>34. ASSUME NEW c \in Callers, EndReturned(c) PROVE LeaseInv'
  BY <1>34 DEF EndReturned, EndLease
<1>35. ASSUME NEW c \in Callers, EndRaised(c) PROVE LeaseInv'
  BY <1>35 DEF EndRaised, EndLease
<1>36. ASSUME NEW c \in Callers, Report(c) PROVE LeaseInv'
  BY <1>36 DEF Report
<1>37. ASSUME NEW c \in Callers, NEW e \in 0 .. generation, Call(c, e) PROVE LeaseInv'
  <2>1. \A d \in Callers : pc'[d] \in InLease => d # c /\ pc[d] \in InLease
    BY <1>37 DEF Call
  <2>2. \A d \in Callers : d # c => requested'[d] = requested[d]
    BY <1>37 DEF Call
  <2> QED
    BY <2>1, <2>2, <1>37 DEF Call
<1>38. CASE UNCHANGED vars
  BY <1>38 DEF vars
<1> QED
  BY <1>1, <1>2, <1>3, <1>4, <1>5, <1>6, <1>7, <1>8, <1>9, <1>10, <1>11,
     <1>12, <1>13, <1>14, <1>15, <1>16, <1>17, <1>18, <1>19, <1>20, <1>21,
     <1>22, <1>23, <1>24, <1>25, <1>26, <1>27, <1>28, <1>29, <1>30, <1>31,
     <1>32, <1>33, <1>34, <1>35, <1>36, <1>37, <1>38 DEF Next, OwnerStep,
     WorkerStep, ClientStep, CallerStep

\* Attempts are recorded before the write, and reset only by a new lease.
LEMMA WriteStep == IInv /\ [Next]_vars => WriteInv'
<1> SUFFICES ASSUME IInv, [Next]_vars PROVE WriteInv'
  OBVIOUS
<1> USE ThreadAssumption, PhaseAssumption, BoundAssumption
      DEF IInv, TypeOK, Gens, CallerPcs, WorkerPcs, Results,
          Connections, LockInv, LeaseInv, WriteInv, WriteInvOf, Holding,
          InLease, guardVars, workerVars, phaseVars, callVars
<1>1. CASE connect
  BY <1>1 DEF connect
<1>2. CASE disconnect
  BY <1>2, SMTT(30) DEF disconnect, BeginDisconnect
<1>3. CASE EndDisconnect
  BY <1>3 DEF EndDisconnect, Shut
<1>4. CASE SetShutdown
  BY <1>4 DEF SetShutdown
<1>5. CASE ExitDisconnect
  BY <1>5, SMTT(30) DEF ExitDisconnect, BeginDisconnect
<1>6. CASE WorkerStops
  BY <1>6 DEF WorkerStops, shutdown
<1>7. CASE StartAttempt
  BY <1>7 DEF StartAttempt, shutdown
<1>8. CASE LockOperations
  BY <1>8 DEF LockOperations
<1>9. CASE CreateClient
  BY <1>9 DEF CreateClient
<1>10. CASE AttemptFails
  BY <1>10 DEF AttemptFails, Shut
<1>11. CASE Publish
  BY <1>11 DEF Publish, Shut, Superseded
<1>12. CASE Handshake
  BY <1>12 DEF Handshake, Closed
<1>13. CASE Announce
  BY <1>13 DEF Announce, Superseded, Closed
<1>14. CASE LeaveMonitor
  BY <1>14 DEF LeaveMonitor, Superseded, Closed, shutdown
<1>15. CASE StayReady
  BY <1>15 DEF StayReady, Superseded, Closed, shutdown
<1>16. CASE SkipHealth
  BY <1>16 DEF SkipHealth
<1>17. CASE BeginHealth
  BY <1>17 DEF BeginHealth
<1>18. CASE EndHealth
  BY <1>18 DEF EndHealth, Shut, Closed
<1>19. CASE CloseClient
  BY <1>19 DEF CloseClient, Shut
<1>20. CASE Settle
  BY <1>20 DEF Settle
<1>21. CASE Backoff
  BY <1>21 DEF Backoff
<1>22. ASSUME NEW g \in Gens, ReaderClose(g) PROVE WriteInv'
  BY <1>22 DEF ReaderClose
<1>23. ASSUME NEW g \in Gens, ReaderShut(g) PROVE WriteInv'
  BY <1>23, SMTT(30) DEF ReaderShut, Shut
<1>24. ASSUME NEW g \in Gens, IntervalPasses(g) PROVE WriteInv'
  BY <1>24 DEF IntervalPasses, Closed
<1>25. ASSUME NEW c \in Callers, Acquire(c) PROVE WriteInv'
  BY <1>25 DEF Acquire
<1>26. ASSUME NEW c \in Callers, Begin(c) PROVE WriteInv'
  BY <1>26 DEF Begin, Leasable, Closed
<1>27. ASSUME NEW c \in Callers, Refuse(c) PROVE WriteInv'
  BY <1>27 DEF Refuse, Leasable, Closed
<1>28. ASSUME NEW c \in Callers, NEW p \in Phases, begin_phase(c, p) PROVE WriteInv'
  BY <1>28 DEF begin_phase
<1>29. ASSUME NEW c \in Callers, Attempt(c) PROVE WriteInv'
  BY <1>29 DEF Attempt, Closed
<1>30. ASSUME NEW c \in Callers, Write(c) PROVE WriteInv'
  <2>1. \A d \in Callers : pc'[d] \in InLease => d = c
    BY <1>30 DEF Write
  <2>2. \A d \in Callers : d # c => written'[d] = written[d] /\ pc'[d] = pc[d]
    BY <1>30 DEF Write, PutOnWire
  <2> DEFINE g == lease[c]
             k == mutation_phase[lease[c]]
  <2>3. \A p \in Phases : written'[c][p] = IF p = k THEN 1 ELSE written[c][p]
    BY <1>30 DEF Write, PutOnWire
  <2>4. k \in attempted_phases[g] /\ pc'[c] = "body"
    BY <1>30 DEF Write
  <2>8. \A p \in Phases : /\ written[c][p] \in {0, 1}
                          /\ written[c][p] = 1 => p \in attempted_phases[g]
    BY <1>30 DEF Write
  <2>5. \A p \in Phases : /\ written'[c][p] \in {0, 1}
                          /\ written'[c][p] = 1 => p \in attempted_phases[g]
    BY ONLY <2>3, <2>4, <2>8
  <2>6. UNCHANGED <<phaseVars, lease>>
    BY <1>30 DEF Write
  <2>7. mutation_phase[g] = "mode" => attempted_phases[g] \subseteq {"mode"}
    BY <1>30 DEF Write
  <2>9. WriteInvOf(c)'
    BY ONLY <2>4, <2>5, <2>6, <2>7 DEF WriteInvOf, InLease, phaseVars
  <2>10. ASSUME NEW d \in Callers \ {c} PROVE WriteInvOf(d)'
    <3>1. WriteInvOf(d)
      OBVIOUS
    <3> QED
      BY ONLY <2>1, <2>2, <3>1 DEF WriteInvOf, InLease
  <2> QED
    BY ONLY <2>9, <2>10 DEF WriteInv
<1>31. ASSUME NEW c \in Callers, WriteFails(c) PROVE WriteInv'
  <2>1. \A d \in Callers : pc'[d] \in InLease => d = c
    BY <1>31 DEF WriteFails
  <2>2. \A d \in Callers : d # c => written'[d] = written[d] /\ pc'[d] = pc[d]
    BY <1>31 DEF WriteFails, PutOnWire
  <2> DEFINE g == lease[c]
             k == mutation_phase[lease[c]]
  <2>3. \/ \A p \in Phases : written'[c][p] = IF p = k THEN 1 ELSE written[c][p]
        \/ written' = written
    BY <1>31 DEF WriteFails, PutOnWire
  <2>4. k \in attempted_phases[g] /\ pc'[c] = "raised"
    BY <1>31 DEF WriteFails
  <2>8. \A p \in Phases : /\ written[c][p] \in {0, 1}
                          /\ written[c][p] = 1 => p \in attempted_phases[g]
    BY <1>31 DEF WriteFails
  <2>5. \A p \in Phases : /\ written'[c][p] \in {0, 1}
                          /\ written'[c][p] = 1 => p \in attempted_phases[g]
    BY ONLY <2>3, <2>4, <2>8
  <2>6. UNCHANGED <<phaseVars, lease>>
    BY <1>31 DEF WriteFails
  <2>7. mutation_phase[g] = "mode" => attempted_phases[g] \subseteq {"mode"}
    BY <1>31 DEF WriteFails
  <2>9. WriteInvOf(c)'
    BY ONLY <2>4, <2>5, <2>6, <2>7 DEF WriteInvOf, InLease, phaseVars
  <2>10. ASSUME NEW d \in Callers \ {c} PROVE WriteInvOf(d)'
    <3>1. WriteInvOf(d)
      OBVIOUS
    <3> QED
      BY ONLY <2>1, <2>2, <3>1 DEF WriteInvOf, InLease
  <2> QED
    BY ONLY <2>9, <2>10 DEF WriteInv
<1>32. ASSUME NEW c \in Callers, Raise(c) PROVE WriteInv'
  BY <1>32 DEF Raise, Shut
<1>33. ASSUME NEW c \in Callers, Return(c) PROVE WriteInv'
  BY <1>33 DEF Return, Closed
<1>34. ASSUME NEW c \in Callers, EndReturned(c) PROVE WriteInv'
  BY <1>34 DEF EndReturned, EndLease
<1>35. ASSUME NEW c \in Callers, EndRaised(c) PROVE WriteInv'
  BY <1>35 DEF EndRaised, EndLease
<1>36. ASSUME NEW c \in Callers, Report(c) PROVE WriteInv'
  BY <1>36, SMTT(30) DEF Report
<1>37. ASSUME NEW c \in Callers, NEW e \in 0 .. generation, Call(c, e) PROVE WriteInv'
  <2>1. \A d \in Callers : pc'[d] \in InLease => d # c /\ pc[d] \in InLease
    BY <1>37 DEF Call
  <2>2. \A d \in Callers : d # c => written'[d] = written[d] /\ pc'[d] = pc[d]
    BY <1>37 DEF Call
  <2>3. pc'[c] # "sending" /\ \A p \in Phases : written'[c][p] = 0
    BY <1>37 DEF Call
  <2> QED
    BY <2>1, <2>2, <2>3, <1>37, SMTT(30) DEF Call
<1>38. CASE UNCHANGED vars
  BY <1>38 DEF vars
<1> QED
  BY <1>1, <1>2, <1>3, <1>4, <1>5, <1>6, <1>7, <1>8, <1>9, <1>10, <1>11,
     <1>12, <1>13, <1>14, <1>15, <1>16, <1>17, <1>18, <1>19, <1>20, <1>21,
     <1>22, <1>23, <1>24, <1>25, <1>26, <1>27, <1>28, <1>29, <1>30, <1>31,
     <1>32, <1>33, <1>34, <1>35, <1>36, <1>37, <1>38 DEF Next, OwnerStep,
     WorkerStep, ClientStep, CallerStep

\* The inductive invariant holds initially.
LEMMA InitInv == Init => IInv
<1> SUFFICES ASSUME Init PROVE IInv
  OBVIOUS
<1> USE ThreadAssumption, PhaseAssumption, BoundAssumption DEF Init
<1>1. TypeOK
  BY DEF TypeOK, Gens, Connections, WorkerPcs, CallerPcs, Results
<1>2. LockInv
  BY DEF LockInv, Holding, InLease
<1>3. ClientInv
  BY DEF ClientInv, Epoch, WorkerPcs
<1>4. SocketInv
  BY DEF SocketInv
<1>5. LeaseInv
  BY DEF LeaseInv, InLease
<1>6. WriteInv
  BY DEF WriteInv, WriteInvOf, InLease
<1> QED
  BY <1>1, <1>2, <1>3, <1>4, <1>5, <1>6 DEF IInv

\* The six parts hold together in every reachable state.
THEOREM Invariance == Spec => []IInv
<1>1. IInv /\ [Next]_vars => IInv'
  BY TypeStep, LockStep, ClientStepInv, SocketStep, LeaseStep, WriteStep DEF IInv
<1> QED
  BY InitInv, <1>1, PTL DEF Spec

\* Type correctness of the session.
THEOREM TypeCorrect == Spec => []TypeOK
<1>1. IInv => TypeOK
  BY DEF IInv
<1> QED
  BY Invariance, <1>1, PTL

\* A published ready status names the client of the displayed generation.
THEOREM ReadyCorrect == Spec => []ReadyIsCurrent
<1>1. IInv => ReadyIsCurrent
  BY DEF IInv, ClientInv, ReadyIsCurrent, Epoch
<1> QED
  BY Invariance, <1>1, PTL

\* A fresh connection is never swapped in under an unwinding operation.
THEOREM NoSwap == Spec => []NoSwapUnderLease
<1>1. IInv => NoSwapUnderLease
  BY DEF IInv, LeaseInv, NoSwapUnderLease
<1> QED
  BY Invariance, <1>1, PTL

\* Once the guard is free, no socket of an earlier generation can be written.
THEOREM OldClientsShut == Spec => []OldClientsAreShut
<1>1. IInv => OldClientsAreShut
  BY DEF IInv, ClientInv, SocketInv, OldClientsAreShut, Epoch, Gens
<1> QED
  BY Invariance, <1>1, PTL

\* The client that a thread can meet is the one of the displayed generation.
THEOREM ClientsCurrent == Spec => []ClientsAreCurrent
<1>1. ReadyIsCurrent /\ OldClientsAreShut => ClientsAreCurrent
  BY DEF ClientsAreCurrent
<1> QED
  BY ReadyCorrect, OldClientsShut, <1>1, PTL

\* One operation writes each phase at most once.
THEOREM AtMostOnce == Spec => []AtMostOncePerPhase
<1>1. IInv => AtMostOncePerPhase
  BY DEF IInv, WriteInv, WriteInvOf, AtMostOncePerPhase
<1> QED
  BY Invariance, <1>1, PTL

\* A call that is sending grows its history only by a write of its own.
LEMMA OnlySending ==
  ASSUME [Next]_vars, NEW c \in Callers, TypeOK, pc[c] = "sending",
         written'[c] # written[c]
  PROVE  PutOnWire(c) /\ (Write(c) \/ WriteFails(c))
<1>1. CASE OwnerStep \/ WorkerStep
  BY <1>1 DEF OwnerStep, connect, disconnect, EndDisconnect, SetShutdown,
       ExitDisconnect, BeginDisconnect, WorkerStep, WorkerStops, StartAttempt,
       LockOperations, CreateClient, AttemptFails, Publish, Handshake, Announce,
       LeaveMonitor, StayReady, SkipHealth, BeginHealth, EndHealth, CloseClient,
       Settle, Backoff, callVars
<1>2. ASSUME NEW g \in Gens, ClientStep(g) PROVE FALSE
  BY <1>2 DEF ClientStep, ReaderClose, ReaderShut, IntervalPasses, callVars
<1>3. ASSUME NEW d \in Callers, CallerStep(d)
      PROVE  PutOnWire(c) /\ (Write(c) \/ WriteFails(c))
  <2>1. CASE Write(d) \/ WriteFails(d)
    BY <1>3, <2>1 DEF Write, WriteFails, PutOnWire, TypeOK
  <2>2. CASE ~(Write(d) \/ WriteFails(d))
    BY <1>3, <2>2 DEF CallerStep, Acquire, Begin, Refuse, begin_phase, Attempt,
         Raise, Return, EndReturned, EndRaised, EndLease, Report, callVars
  <2> QED
    BY <2>1, <2>2
<1>4. ASSUME NEW d \in Callers, NEW e \in 0 .. generation, Call(d, e) PROVE FALSE
  BY <1>4 DEF Call, TypeOK
<1>5. CASE UNCHANGED vars
  BY <1>5 DEF vars, callVars
<1> QED
  BY <1>1, <1>2, <1>3, <1>4, <1>5 DEF Next

\* A mutation leaves on the client of the readable generation, the one the
\* call was pinned to, and after no other phase when it is a mode change.
LEMMA WriteIsCurrent ==
  ASSUME IInv, NEW c \in Callers, pc[c] = "sending", PutOnWire(c)
  PROVE  /\ lease[c] = requested[c] /\ requested[c] = Epoch
         /\ written[c][mutation_phase[lease[c]]] = 0
         /\ mutation_phase[lease[c]] = "mode" =>
              \A p \in Phases : written[c][p] = 0
<1> USE DEF IInv
<1>1. lease[c] \in Gens /\ lease[c] = requested[c] /\ life[lease[c]] # "none"
  BY DEF LeaseInv, InLease
<1>2. life[lease[c]] \in {"open", "closing"}
  BY <1>1 DEF PutOnWire, TypeOK
<1>3. wpc # "publish"
  BY ThreadAssumption DEF LockInv, Holding, InLease
<1>4. lease[c] = client /\ client # 0
  BY <1>1, <1>2, <1>3, BoundAssumption DEF SocketInv, Gens
<1>5. lease[c] = Epoch
  BY <1>4 DEF ClientInv
<1>6. WriteInvOf(c)
  BY DEF WriteInv
<1> QED
  BY <1>1, <1>5, <1>6 DEF WriteInvOf, InLease

\* A stale client is never written to (api.md: never repeat a mutation).
THEOREM StaleWrites == Spec => NoStaleWrite
<1>1. IInv /\ [Next]_vars => [PinnedWrite]_vars
  <2> SUFFICES ASSUME IInv, [Next]_vars PROVE PinnedWrite
    OBVIOUS
  <2> SUFFICES ASSUME NEW c \in Callers, written'[c] # written[c], pc[c] = "sending"
               PROVE  lease[c] = requested[c] /\ requested[c] = Epoch
    BY DEF PinnedWrite
  <2>1. PutOnWire(c)
    BY OnlySending DEF IInv
  <2> QED
    BY <2>1, WriteIsCurrent
<1> QED
  BY Invariance, <1>1, PTL DEF Spec, NoStaleWrite

\* A mode change never follows another mutation of the same operation.
THEOREM ModeIsFirst == Spec => ModeFirst
<1> DEFINE A == \A c \in Callers :
         pc[c] = "sending" /\ written'[c]["mode"] # written[c]["mode"] =>
           \A p \in Phases : written[c][p] = 0
<1>1. IInv /\ [Next]_vars => [A]_vars
  <2> SUFFICES ASSUME IInv, [Next]_vars, NEW c \in Callers, pc[c] = "sending",
                      written'[c]["mode"] # written[c]["mode"]
               PROVE  \A p \in Phases : written[c][p] = 0
    OBVIOUS
  <2>1. PutOnWire(c)
    BY OnlySending DEF IInv
  <2>2. mutation_phase[lease[c]] = "mode"
    BY <2>1, PhaseAssumption DEF PutOnWire, IInv, TypeOK
  <2> QED
    BY <2>1, <2>2, WriteIsCurrent
<1> QED
  BY Invariance, <1>1, PTL DEF Spec, ModeFirst

----------------------------------------------------------------------------
(* Refinement of CommandLedger                                             *)

\* The ledger's view of a step that leaves the locks and the calls alone.
LEMMA SameHolder ==
  ASSUME UNCHANGED callVars, Held' = Held, Held => UNCHANGED operations
  PROVE  UNCHANGED <<Holder, Pinned, Sent>>
BY DEF Holder, Pinned, Sent, callVars

\* The ledger's view of a caller's step outside the lease.
LEMMA NotHeld ==
  ASSUME ~Held, ~Held'
  PROVE  UNCHANGED <<Holder, Pinned, Sent>>
BY DEF Holder, Pinned, Sent

\* The ledger's view of the caller that is inside its lease.
LEMMA HeldBy ==
  ASSUME LockInv, NEW c \in Callers, pc[c] \in InLease
  PROVE  Held /\ Holder = c /\ Pinned = requested[c] /\ Sent = written[c]
BY DEF LockInv, Held, Holder, Pinned, Sent, Holding

\* The owner's steps: ending a disconnect renews the epoch.
LEMMA OwnerSimulates == IInv /\ OwnerStep => [Ledger!Next]_Ledger!vars
<1> SUFFICES ASSUME IInv, OwnerStep PROVE [Ledger!Next]_Ledger!vars
  OBVIOUS
<1>1. UNCHANGED <<callVars, operations>>
  BY DEF OwnerStep, connect, disconnect, EndDisconnect, SetShutdown,
         ExitDisconnect, BeginDisconnect
<1>2. UNCHANGED <<Holder, Pinned, Sent>>
  BY <1>1, SameHolder DEF Held, callVars
<1>3. CASE EndDisconnect
  <2>1. Epoch' = Epoch + 1
    BY <1>3 DEF EndDisconnect, Epoch, IInv, TypeOK
  <2> QED
    BY <1>2, <2>1 DEF Ledger!Next, Ledger!Renew
<1>4. CASE ~EndDisconnect
  <2>1. Epoch' = Epoch
    BY <1>4 DEF OwnerStep, connect, disconnect, SetShutdown, ExitDisconnect,
                BeginDisconnect, Epoch, IInv, TypeOK
  <2> QED
    BY <1>2, <2>1 DEF Ledger!vars
<1> QED
  BY <1>3, <1>4

\* The worker's steps: a new attempt renews the epoch.
LEMMA WorkerSimulates == IInv /\ WorkerStep => [Ledger!Next]_Ledger!vars
<1> SUFFICES ASSUME IInv, WorkerStep PROVE [Ledger!Next]_Ledger!vars
  OBVIOUS
<1>1. UNCHANGED callVars /\ UNCHANGED closing
  BY DEF WorkerStep, WorkerStops, StartAttempt, LockOperations, CreateClient,
       AttemptFails, Publish, Handshake, Announce, LeaveMonitor, StayReady,
       SkipHealth, BeginHealth, EndHealth, CloseClient, Settle, Backoff,
       guardVars
<1>2. \/ UNCHANGED operations
      \/ operations \in {Worker, Nobody} /\ operations' \in {Worker, Nobody}
  BY DEF WorkerStep, WorkerStops, StartAttempt, LockOperations, CreateClient,
       AttemptFails, Publish, Handshake, Announce, LeaveMonitor, StayReady,
       SkipHealth, BeginHealth, EndHealth, CloseClient, Settle, Backoff,
       IInv, LockInv
<1>3. UNCHANGED <<Holder, Pinned, Sent>>
  <2>1. CASE UNCHANGED operations
    BY <1>1, <2>1, SameHolder DEF Held, callVars
  <2>2. CASE operations \in {Worker, Nobody} /\ operations' \in {Worker, Nobody}
    BY <2>2, NotHeld, ThreadAssumption DEF Held
  <2> QED
    BY <1>2, <2>1, <2>2
<1>4. CASE StartAttempt
  <2>1. Epoch' = Epoch + 1
    BY <1>4 DEF StartAttempt, Epoch, IInv, TypeOK
  <2> QED
    BY <1>3, <2>1 DEF Ledger!Next, Ledger!Renew
<1>5. CASE ~StartAttempt
  <2>1. generation' = generation
    BY <1>5 DEF WorkerStep, WorkerStops, LockOperations, CreateClient,
         AttemptFails, Publish, Handshake, Announce, LeaveMonitor, StayReady,
         SkipHealth, BeginHealth, EndHealth, CloseClient, Settle, Backoff,
         guardVars
  <2> QED
    BY <1>1, <1>3, <2>1 DEF Ledger!vars, Epoch
<1> QED
  BY <1>4, <1>5

\* A write of the holder is a Send of the ledger.
LEMMA WriteSimulates ==
  ASSUME IInv, LockInv', NEW c \in Callers, pc[c] = "sending", PutOnWire(c),
         pc'[c] \in InLease, UNCHANGED <<guardVars, operations, requested>>
  PROVE  Ledger!Next
<1> DEFINE k == mutation_phase[lease[c]]
<1>1. k \in Phases
  BY DEF IInv, TypeOK, LeaseInv, InLease
<1>2. Holder = c /\ Pinned = requested[c] /\ Sent = written[c]
  BY HeldBy DEF IInv, InLease
<1>3. Holder' = c /\ Pinned' = requested'[c] /\ Sent' = written'[c]
  BY DEF LockInv, Held, Holder, Pinned, Sent, Holding
<1>4. Epoch' = Epoch /\ requested' = requested
  BY DEF Epoch, guardVars
<1>5. written[c] \in [Phases -> Nat] /\ written'[c] = [written[c] EXCEPT ![k] = @ + 1]
  BY DEF IInv, TypeOK, PutOnWire
<1>6. Pinned = Epoch /\ Sent[k] = 0
  BY <1>2, WriteIsCurrent
<1>7. Sent' = [Sent EXCEPT ![k] = 1]
  BY <1>2, <1>3, <1>5, <1>6
<1>8. k = "mode" => Sent = [p \in Phases |-> 0]
  BY <1>2, <1>5, WriteIsCurrent
<1>9. Holder # Nobody
  BY <1>2, ThreadAssumption
<1>10. Ledger!Send(k)
  BY <1>2, <1>3, <1>4, <1>6, <1>7, <1>8, <1>9 DEF Ledger!Send, Ledger!Nothing
<1> QED
  BY <1>1, <1>10 DEF Ledger!Next

\* A caller's steps: begin opens, a write sends, the end of the lease closes.
LEMMA CallerSimulates ==
  ASSUME IInv, LockInv', NEW c \in Callers, CallerStep(c)
  PROVE  [Ledger!Next]_Ledger!vars
<1> USE DEF IInv
<1>1. UNCHANGED <<generation, closing>>
  BY DEF CallerStep, Acquire, Begin, Refuse, begin_phase, Attempt, Write,
       WriteFails, Raise, Return, EndReturned, EndRaised, EndLease, Report,
       guardVars
<1>2. Epoch' = Epoch
  BY <1>1 DEF Epoch
<1>3. CASE Acquire(c) \/ Refuse(c)
  <2>1. ~Held /\ ~Held'
    BY <1>3, ThreadAssumption DEF Acquire, Refuse, Held, LockInv, Holding, InLease, TypeOK
  <2> QED
    BY <1>2, <2>1, NotHeld DEF Ledger!vars
<1>4. CASE Begin(c)
  <2>1. ~Held
    BY <1>4 DEF Begin, Held, LockInv, Holding, InLease
  <2>2. pc'[c] \in InLease /\ requested' = requested /\ written' = written
    BY <1>4 DEF Begin, InLease, TypeOK
  <2>3. Holder' = c /\ Pinned' = requested[c] /\ Sent' = written[c]
    BY <2>2 DEF LockInv, Held, Holder, Pinned, Sent, Holding
  <2>4. requested[c] = Epoch
    BY <1>4 DEF Begin, Epoch
  <2>5. written[c] = [p \in Phases |-> 0]
    <3>1. WriteInvOf(c) /\ written[c] \in [Phases -> Nat] /\ pc[c] = "leased"
      BY <1>4 DEF WriteInv, TypeOK, Begin
    <3> QED
      BY <3>1 DEF WriteInvOf
  <2>6. Ledger!Open(c)
    BY <1>2, <2>1, <2>3, <2>4, <2>5 DEF Ledger!Open, Holder, Sent
  <2> QED
    BY <2>6 DEF Ledger!Next
<1>5. CASE Write(c)
  <2>1. pc'[c] \in InLease
    BY <1>5 DEF Write, InLease, TypeOK
  <2> QED
    BY <1>5, <2>1, WriteSimulates DEF Write
<1>6. CASE WriteFails(c)
  <2>1. pc[c] \in InLease /\ pc'[c] \in InLease
    BY <1>6 DEF WriteFails, InLease, TypeOK
  <2>2. CASE PutOnWire(c)
    BY <1>6, <2>1, <2>2, WriteSimulates DEF WriteFails
  <2>3. CASE UNCHANGED written
    <3>1. Holder' = Holder /\ Pinned' = Pinned /\ Sent' = Sent
      BY <1>6, <2>1, <2>3 DEF LockInv, Held, Holder, Pinned, Sent, Holding, WriteFails
    <3> QED
      BY <1>2, <3>1 DEF Ledger!vars
  <2> QED
    BY <1>6, <2>2, <2>3 DEF WriteFails
<1>7. CASE EndReturned(c) \/ EndRaised(c)
  <2>1. Holder = c
    BY <1>7, HeldBy DEF EndReturned, EndRaised, InLease
  <2>2. ~Held'
    BY <1>7, ThreadAssumption DEF EndReturned, EndRaised, EndLease, Held
  <2>3. Ledger!Close
    BY <1>2, <2>1, <2>2, ThreadAssumption
       DEF Ledger!Close, Ledger!Nothing, Holder, Pinned, Sent
  <2> QED
    BY <2>3 DEF Ledger!Next
<1>8. CASE (\E p \in Phases : begin_phase(c, p)) \/ Attempt(c) \/ Raise(c) \/ Return(c)
  <2>1. /\ pc[c] \in InLease /\ pc'[c] \in InLease
        /\ UNCHANGED <<operations, requested, written>>
    BY <1>8 DEF begin_phase, Attempt, Raise, Return, InLease, TypeOK, callVars
  <2>2. Holder' = Holder /\ Pinned' = Pinned /\ Sent' = Sent
    BY <2>1 DEF LockInv, Held, Holder, Pinned, Sent, Holding
  <2> QED
    BY <1>2, <2>2 DEF Ledger!vars
<1>9. CASE Report(c)
  <2>1. \A d \in Callers : pc'[d] \in InLease <=> pc[d] \in InLease
    BY <1>9 DEF Report, InLease, TypeOK
  <2>2. UNCHANGED <<operations, requested, written>>
    BY <1>9 DEF Report
  <2>3. Holder' = Holder /\ Pinned' = Pinned /\ Sent' = Sent
    BY <2>1, <2>2 DEF Held, Holder, Pinned, Sent
  <2> QED
    BY <1>2, <2>3 DEF Ledger!vars
<1> QED
  BY <1>3, <1>4, <1>5, <1>6, <1>7, <1>8, <1>9 DEF CallerStep

\* Whatever the connection goes through, commands leave as the ledger allows.
THEOREM Refinement == Spec => ImplementsLedger
<1>1. Init => Ledger!Init
  BY ThreadAssumption DEF Init, Ledger!Init, Ledger!Nothing, Epoch, Holder, Pinned, Sent, Held
<1>2. IInv /\ IInv' /\ [Next]_vars => [Ledger!Next]_Ledger!vars
  <2> SUFFICES ASSUME IInv, IInv', [Next]_vars PROVE [Ledger!Next]_Ledger!vars
    OBVIOUS
  <2>1. CASE OwnerStep
    BY <2>1, OwnerSimulates
  <2>2. CASE WorkerStep
    BY <2>2, WorkerSimulates
  <2>3. ASSUME NEW g \in Gens, ClientStep(g) PROVE [Ledger!Next]_Ledger!vars
    <3>1. UNCHANGED <<guardVars, operations, callVars>>
      BY <2>3 DEF ClientStep, ReaderClose, ReaderShut, IntervalPasses
    <3> QED
      BY <3>1 DEF Ledger!vars, Epoch, Holder, Pinned, Sent, Held, guardVars, callVars
  <2>4. ASSUME NEW c \in Callers, CallerStep(c) PROVE [Ledger!Next]_Ledger!vars
    BY <2>4, CallerSimulates DEF IInv
  <2>5. ASSUME NEW c \in Callers, NEW e \in 0 .. generation, Call(c, e)
        PROVE  [Ledger!Next]_Ledger!vars
    <3>1. pc[c] = "idle" /\ operations' = operations /\ Epoch' = Epoch
      BY <2>5 DEF Call, Epoch, guardVars
    <3>2. \A d \in Callers : d # c =>
            /\ pc'[d] = pc[d] /\ requested'[d] = requested[d] /\ written'[d] = written[d]
      BY <2>5 DEF Call, IInv, TypeOK
    <3>3. operations # c /\ (operations \in Callers => operations' = operations)
      BY <3>1 DEF IInv, LockInv, Holding, InLease
    <3>4. Holder' = Holder /\ Pinned' = Pinned /\ Sent' = Sent
      BY <3>1, <3>2, <3>3 DEF Held, Holder, Pinned, Sent
    <3> QED
      BY <3>1, <3>4 DEF Ledger!vars
  <2>6. CASE UNCHANGED vars
    BY <2>6 DEF vars, Ledger!vars, Epoch, Holder, Pinned, Sent, Held, guardVars, callVars
  <2> QED
    BY <2>1, <2>2, <2>3, <2>4, <2>5, <2>6 DEF Next
<1> QED
  BY Invariance, <1>1, <1>2, PTL DEF Spec, ImplementsLedger, Ledger!Spec

----------------------------------------------------------------------------
(* Honest reports                                                          *)

\* What a call says of itself is read from its client's mark, which is its own
\* inside the lease; after the lease another caller can begin and reset it.
Alone == \A c, d \in Callers : c = d
Untouched(c) == \A p \in Phases : written[c][p] = 0

ReportInvOf(c) ==
  /\ pc[c] \in InLease => Untouched(c) \/ mutation_attempted[lease[c]]
  /\ pc[c] = "sending" => mutation_attempted[lease[c]]
  /\ pc[c] = "returned" /\ result[c] = "not_sent" => Untouched(c)
  /\ Alone =>
       /\ pc[c] = "report" => lease[c] \in Gens /\ (Untouched(c) \/ mutation_attempted[lease[c]])
       /\ pc[c] = "idle" /\ result[c] = "not_sent" => Untouched(c)

ReportInv == \A c \in Callers : ReportInvOf(c)

\* Nobody but the caller that holds the lease moves, sends or is marked.
LEMMA ReportStep == IInv /\ ReportInv /\ [Next]_vars => ReportInv'
<1> SUFFICES ASSUME IInv, ReportInv, [Next]_vars PROVE ReportInv'
  OBVIOUS
<1>t. /\ pc \in [Callers -> CallerPcs] /\ result \in [Callers -> Results]
      /\ written \in [Callers -> [Phases -> Nat]] /\ lease \in [Callers -> Gens \cup {0}]
      /\ mutation_attempted \in [Gens -> BOOLEAN] /\ client \in Gens \cup {0}
  BY DEF IInv, TypeOK
<1>i. \A c \in Callers : ReportInvOf(c)
  BY DEF ReportInv
<1>h. /\ \A c \in Callers : pc[c] \in Holding <=> operations = c
      /\ \A c \in Callers : pc[c] \in InLease => lease[c] \in Gens
      /\ \A c \in Callers : pc[c] \in {"waiting", "leased"} => Untouched(c)
  BY DEF IInv, LockInv, LeaseInv, WriteInv, WriteInvOf, Untouched
<1>1. ASSUME UNCHANGED <<callVars, mutation_attempted>> PROVE ReportInv'
  BY <1>1, <1>i DEF ReportInv, ReportInvOf, Untouched, callVars
<1>2. CASE OwnerStep \/ WorkerStep \/ \E g \in Gens : ClientStep(g)
  <2>1. UNCHANGED <<callVars, phaseVars>>
    BY <1>2 DEF OwnerStep, connect, disconnect, EndDisconnect, SetShutdown, ExitDisconnect,
         BeginDisconnect, WorkerStep, WorkerStops, StartAttempt, LockOperations,
         CreateClient, AttemptFails, Publish, Handshake, Announce, LeaveMonitor,
         StayReady, SkipHealth, BeginHealth, EndHealth, CloseClient, Settle, Backoff,
         ClientStep, ReaderClose, ReaderShut, IntervalPasses
  <2> QED
    BY <1>1, <2>1 DEF phaseVars
<1>3. ASSUME NEW c \in Callers,
             \/ CallerStep(c)
             \/ \E e \in 0 .. generation : Call(c, e)
      PROVE  ReportInv'
  <2> USE DEF callVars, phaseVars
  <2>1. ASSUME NEW d \in Callers, d # c PROVE ReportInvOf(d)'
    <3>1. /\ pc'[d] = pc[d] /\ result'[d] = result[d] /\ written'[d] = written[d]
          /\ lease'[d] = lease[d] /\ ~Alone
      BY <1>3, <1>t, <2>1 DEF CallerStep, Acquire, Begin, Refuse, begin_phase, Attempt, Write,
           WriteFails, PutOnWire, Raise, Return, EndReturned, EndRaised, EndLease, Report,
           Call, Alone
    <3>2. CASE Begin(c) \/ Attempt(c)
      <4>1. pc[d] \notin InLease
        BY <1>h, <2>1, <3>2 DEF Begin, Attempt, Holding, InLease
      <4> QED
        BY <3>1, <4>1, <1>i DEF ReportInvOf, Untouched, InLease
    <3>3. CASE UNCHANGED mutation_attempted
      BY <3>1, <3>3, <1>i DEF ReportInvOf, Untouched
    <3> QED
      BY <1>3, <3>2, <3>3 DEF CallerStep, Acquire, Refuse, begin_phase, Write, WriteFails,
         Raise, Return, EndReturned, EndRaised, EndLease, Report, Call
  <2>2. ReportInvOf(c)'
    <3> USE DEF ReportInvOf, Untouched
    <3>1. CASE Acquire(c)
      BY <3>1, <1>t, <1>h DEF Acquire, InLease
    <3>2. CASE Begin(c)
      BY <3>2, <1>t, <1>h DEF Begin, InLease
    <3>3. CASE Refuse(c)
      BY <3>3, <1>t, <1>h DEF Refuse, InLease
    <3>4. ASSUME NEW p \in Phases, begin_phase(c, p) PROVE ReportInvOf(c)'
      BY <3>4, <1>1 DEF begin_phase, ReportInv
    <3>5. CASE Attempt(c)
      BY <3>5, <1>t, <1>h DEF Attempt, InLease
    <3>6. CASE Write(c)
      BY <3>6, <1>t, <1>i DEF Write, InLease
    <3>7. CASE WriteFails(c)
      BY <3>7, <1>t, <1>i DEF WriteFails, InLease
    <3>8. CASE Raise(c)
      BY <3>8, <1>t, <1>i DEF Raise, InLease
    <3>9. CASE Return(c)
      BY <3>9, <1>t, <1>i, <1>h DEF Return, InLease
    <3>10. CASE EndReturned(c)
      BY <3>10, <1>t, <1>i DEF EndReturned, EndLease, InLease
    <3>11. CASE EndRaised(c)
      BY <3>11, <1>t, <1>i, <1>h DEF EndRaised, EndLease, InLease
    <3>12. CASE Report(c)
      BY <3>12, <1>t, <1>i DEF Report, InLease
    <3>13. ASSUME NEW e \in 0 .. generation, Call(c, e) PROVE ReportInvOf(c)'
      BY <3>13, <1>t DEF Call, InLease
    <3> QED
      BY <1>3, <3>1, <3>2, <3>3, <3>4, <3>5, <3>6, <3>7, <3>8, <3>9, <3>10, <3>11, <3>12, <3>13
         DEF CallerStep
  <2> QED
    BY <2>1, <2>2 DEF ReportInv
<1>4. CASE UNCHANGED vars
  BY <1>1, <1>4 DEF vars, phaseVars
<1> QED
  BY <1>2, <1>3, <1>4 DEF Next

\* What holds of reports in every reachable state.
THEOREM Reports == Spec => []ReportInv
<1>1. Init => ReportInv
  BY DEF Init, ReportInv, ReportInvOf, Untouched, InLease
<1> QED
  BY <1>1, ReportStep, Invariance, PTL DEF Spec

\* A call that returns "not_sent" put nothing on the wire, however many threads
\* call: the report is made inside the lease (session.py, _perform).
THEOREM ReturnsAreHonest ==
  Spec => [](\A c \in Callers : pc[c] = "returned" /\ result[c] = "not_sent" => Untouched(c))
<1>1. ReportInv => \A c \in Callers : pc[c] = "returned" /\ result[c] = "not_sent" => Untouched(c)
  BY DEF ReportInv, ReportInvOf
<1> QED
  BY <1>1, Reports, PTL

\* With one calling thread every report is honest; with two, the report after
\* an exception is not (the run session_report_race shows the race).
THEOREM HonestAlone ==
  ASSUME Alone
  PROVE  Spec => []NotSentIsHonest
<1>1. ReportInv => NotSentIsHonest
  BY DEF ReportInv, ReportInvOf, Untouched, NotSentIsHonest
<1> QED
  BY <1>1, Reports, PTL
============================================================================
