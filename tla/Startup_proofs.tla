--------------------------- MODULE Startup_proofs ---------------------------
(****************************************************************************)
(* Theorems about Startup, for any number of events that wait on the        *)
(* stream: the deadline of a job that is online is off, that of a job that  *)
(* never was is on.                                                         *)
(****************************************************************************)
EXTENDS Startup, SequenceTheorems, TLAPS

USE StartupAssumption

(****************************************************************************)
(* Typing.                                                                  *)
(****************************************************************************)
(* The events the server remembers of a proxy are its last, two at most.    *)
LEMMA LatestTyped ==
  ASSUME NEW h \in Seq(Events), NEW e \in Events
  PROVE  /\ Latest(Append(h, e)) \in Seq(Events)
         /\ 0 < Len(Latest(Append(h, e))) /\ Len(Latest(Append(h, e))) <= 2
<1> DEFINE s == Append(h, e)
           m == IF Len(s) > 2 THEN Len(s) - 1 ELSE 1
<1>1. s \in Seq(Events) /\ Len(s) \in Nat /\ Len(s) >= 1
  BY AppendProperties, LenProperties
<1>2. \A i \in m..Len(s) : s[i] \in Events
  BY <1>1, ElementOfSeq
<1>3. m \in Int /\ Len(s) \in Int
  BY <1>1
<1>4. /\ SubSeq(s, m, Len(s)) \in Seq(Events)
      /\ Len(SubSeq(s, m, Len(s))) = IF m <= Len(s) THEN Len(s) - m + 1 ELSE 0
  <2> HIDE DEF s, m
  <2> QED
    BY <1>2, <1>3, SubSeqProperties
<1>5. 0 < Len(SubSeq(s, m, Len(s))) /\ Len(SubSeq(s, m, Len(s))) <= 2
  <2>1. Len(s) \in Nat /\ Len(s) >= 1 /\ m = IF Len(s) > 2 THEN Len(s) - 1 ELSE 1
    BY <1>1
  <2> HIDE DEF s, m
  <2>2. m <= Len(s) /\ Len(s) - m + 1 \in 1..2
    BY <2>1
  <2>3. Len(SubSeq(s, m, Len(s))) = Len(s) - m + 1
    BY <1>4, <2>2
  <2> QED
    BY <2>2, <2>3
<1>6. Latest(Append(h, e)) = SubSeq(s, m, Len(s))
  BY Zenon DEF Latest
<1> HIDE DEF s, m
<1> QED
  BY <1>4, <1>5, <1>6, Zenon

(* Every step keeps the types: the two writes of a row that settles are the *)
(* bound on its undelivered ones, which needs that one that has not settled *)
(* has one at most (RowWrites).                                             *)
RowWrites ==
  /\ chain = "queued" => row # "RUNNING"
  /\ row = "QUEUED" => writes = 0
  /\ row \notin Settled => writes <= 1

Typed == TypeOK /\ RowWrites

(* The steps that touch the stream of events keep the types.                *)
LEMMA StreamTyped ==
  ASSUME Typed, Connect \/ Disconnect \/ Reconnect \/ Handle
  PROVE  Typed'
<1> USE DEF job, tasks, RowWrites, Typed, TypeOK
<1>1. ASSUME NEW e \in Events, Emit(e) PROVE Typed'
  <2>1. Append(stream, e) \in Seq(Events) /\ Len(Append(stream, e)) = Len(stream) + 1
    BY AppendProperties
  <2>2. Len(stream) \in Nat
    BY LenProperties
  <2>3. tunnel' \in Seq(Events) /\ 0 < Len(tunnel') /\ Len(tunnel') <= 2
    <3>1. tunnel' = Latest(Append(tunnel, e))
      BY <1>1 DEF Emit
    <3>2. tunnel \in Seq(Events)
      OBVIOUS
    <3> QED
      BY <3>1, <3>2, LatestTyped, Zenon
  <2>4. stream' \in Seq(Events) /\ Len(stream') <= MaxEvents
    BY <1>1, <2>1, <2>2 DEF Emit
  <2>5. UNCHANGED <<active, job, marker, tasks, arming, frps, up>>
    BY <1>1, Zenon DEF Emit
  <2> QED
    BY <2>3, <2>4, <2>5 DEF Settled
<1>2. CASE Reconnect
  BY <1>2 DEF Reconnect, proxy
<1>3. CASE Handle
  <2>1. stream' \in Seq(Events) /\ Len(stream') <= MaxEvents
    BY <1>3, HeadTailProperties, LenProperties DEF Handle
  <2> QED
    BY <1>3, <2>1 DEF Handle
<1>4. CASE Connect
  BY <1>1, <1>4 DEF Connect, Events
<1>5. CASE Disconnect
  BY <1>1, <1>5 DEF Disconnect, Events
<1> QED
  BY <1>2, <1>3, <1>4, <1>5

(* Every step keeps the types.                                              *)
LEMMA StepTyped == Typed /\ [Next]_vars => Typed'
<1> SUFFICES ASSUME Typed, [Next]_vars PROVE Typed'
  OBVIOUS
<1> USE DEF Typed, TypeOK, RowWrites, job, tasks, proxy, Settled
<1>1. CASE Take \/ End
  BY <1>1 DEF Take, End, OnChain
<1>2. CASE Observe
  BY <1>2 DEF Observe, Shown
<1>3. CASE Deliver
  BY <1>3 DEF Deliver, Running
<1>4. CASE Elapse
  BY <1>4 DEF Elapse
<1>5. CASE Claim
  BY <1>5 DEF Claim
<1>6. CASE RunStop
  <2>1. stopping' \in BOOLEAN
    BY <1>6, Zenon DEF RunStop
  <2> QED
    BY <1>6, <2>1 DEF RunStop, Stopped
<1>7. CASE OtherStop
  BY <1>7 DEF OtherStop, Stopped
<1>8. CASE Deactivate
  <2>1. active' \in BOOLEAN
    BY <1>8, Zenon DEF Deactivate
  <2> QED
    BY <1>8, <2>1 DEF Deactivate
<1>9. CASE Arming
  <2>1. marker' \in BOOLEAN
    BY <1>9, Zenon DEF Arming, Arm, ArmInsert, ArmMark, ArmRead, ArmDisarm, ArmUnmark
  <2> QED
    BY <1>9, <2>1 DEF Arming, Arm, ArmInsert, ArmMark, ArmRead, ArmDisarm, ArmUnmark, StopInserted, StopDeleted
<1>10. CASE Connect \/ Disconnect \/ Reconnect \/ Handle
  BY <1>10, StreamTyped
<1>11. CASE RegisterDisarm \/ RegisterUnmark \/ Grace
  <2>1. marker' \in BOOLEAN
    BY <1>11, Zenon DEF RegisterDisarm, RegisterUnmark, Grace, FrpsStep
  <2> QED
    BY <1>11, <2>1 DEF RegisterDisarm, RegisterUnmark, Grace, FrpsStep, StopInserted, StopDeleted
<1>12. CASE UNCHANGED vars
  BY <1>12 DEF vars
<1> QED
  BY <1>1, <1>2, <1>3, <1>4, <1>5, <1>6, <1>7, <1>8, <1>9, <1>10, <1>11, <1>12 DEF Next, Stops, Frps

(* The job's start is well typed.                                           *)
LEMMA InitTyped == Init => Typed
<1>1. <<>> \in Seq(Events) /\ Len(<<>>) = 0
  BY EmptySeq
<1>2. Init => active \in BOOLEAN /\ marker \in BOOLEAN /\ stopping \in BOOLEAN /\ up \in BOOLEAN
  BY Zenon DEF Init
<1> QED
  BY <1>1, <1>2 DEF Init, Typed, TypeOK, RowWrites, Settled

(* The row, its undelivered writes, the STOP, both callbacks and the stream *)
(* keep their types, and a row is written twice at most before its change   *)
(* events are delivered (onJobUpdate's guard on settled rows).              *)
THEOREM Typing == Spec => []TypeOK
<1>1. Typed => TypeOK
  BY DEF Typed
<1> QED
  BY <1>1, InitTyped, StepTyped, PTL DEF Spec

(****************************************************************************)
(* The deadline.  What OnlineDisarmed and OfflineArmed rest on, each part   *)
(* kept by every step.                                                      *)
(****************************************************************************)
(* No arming is in progress while the row's one write is undelivered: the   *)
(* row is written RUNNING once, so its callback runs once.                  *)
Quiet == row = "QUEUED" \/ (Running /\ writes = 1) => arming = "idle"

(* A STOP that waits for a tunnel that is up is about to be deleted: by the *)
(* register handler, or by an arming that has still to read the tunnel.     *)
Disarming ==
  /\ frps = "grace" => ~up
  /\ stop = "pending" /\ up /\ frps # "disarm" /\ row \notin Settled =>
       arming \in {"mark", "read", "disarm"}

(* A tunnel that never came up has no events, and nothing disarms its job.  *)
Untouched ==
  Unreached => stream = <<>> /\ frps = "idle" /\ ~up /\ arming \notin {"disarm", "unmark"}

(* Until its RUNNING callback inserts it, such a job has no STOP; from then *)
(* on it has one, or has it running.                                        *)
Armed ==
  Unreached /\ row \notin Settled =>
    /\ row = "QUEUED" \/ writes = 1 \/ arming = "insert" => stop = "none" /\ ~stopping
    /\ active /\ Running /\ writes = 0 /\ arming # "insert" =>
         (stop # "none" \/ stopping) /\ (marker \/ arming = "mark")

IInv == Typed /\ Quiet /\ Disarming /\ Untouched /\ Armed

(* An event of the tunnel is remembered: it is no longer never reached.      *)
LEMMA EmitReaches ==
  ASSUME Typed, Connect \/ Disconnect
  PROVE  tunnel' # <<>>
<1>1. PICK e \in Events : Emit(e)
  BY DEF Connect, Disconnect, Events
<1>2. tunnel \in Seq(Events) /\ tunnel' = Latest(Append(tunnel, e))
  BY <1>1 DEF Emit, Typed, TypeOK
<1>3. 0 < Len(tunnel')
  BY <1>2, LatestTyped, Zenon
<1> QED
  BY <1>3, EmptySeq

(* No step starts an arming of a row whose write waits, nor writes a row an *)
(* arming is in progress on, but to settle it.                              *)
LEMMA QuietStep == IInv /\ [Next]_vars => Quiet'
<1> SUFFICES ASSUME IInv, [Next]_vars PROVE Quiet'
  OBVIOUS
<1> USE DEF IInv, Typed, TypeOK, RowWrites, Running, job, tasks, proxy, Settled, Quiet
<1>1. CASE Take \/ End
  BY <1>1 DEF Take, End, OnChain
<1>2. CASE Observe
  BY <1>2 DEF Observe, Shown
<1>3. CASE Deliver
  BY <1>3 DEF Deliver
<1>4. CASE Elapse
  BY <1>4 DEF Elapse
<1>5. CASE Claim
  BY <1>5 DEF Claim
<1>6. CASE RunStop
  BY <1>6 DEF RunStop, Stopped
<1>7. CASE OtherStop
  BY <1>7 DEF OtherStop, Stopped
<1>8. CASE Deactivate
  BY <1>8 DEF Deactivate
<1>9. CASE ArmInsert
  BY <1>9 DEF ArmInsert, Arm, Inserts, StopInserted
<1>10. CASE ArmMark
  BY <1>10 DEF ArmMark, Arm
<1>11. CASE ArmRead
  BY <1>11 DEF ArmRead, Arm
<1>12. CASE ArmDisarm
  BY <1>12 DEF ArmDisarm, Arm, StopDeleted, Cancels
<1>13. CASE ArmUnmark
  BY <1>13 DEF ArmUnmark, Arm
<1>14. CASE Connect \/ Disconnect
  BY <1>14 DEF Connect, Disconnect, Emit
<1>15. CASE Reconnect
  BY <1>15 DEF Reconnect
<1>16. CASE Handle
  BY <1>16 DEF Handle
<1>17. CASE RegisterDisarm
  BY <1>17 DEF RegisterDisarm, FrpsStep, StopDeleted, Cancels
<1>18. CASE RegisterUnmark
  BY <1>18 DEF RegisterUnmark, FrpsStep
<1>19. CASE Grace
  BY <1>19 DEF Grace, FrpsStep, StopInserted
<1>20. CASE UNCHANGED vars
  BY <1>20 DEF vars
<1> QED
  BY <1>1, <1>2, <1>3, <1>4, <1>5, <1>6, <1>7, <1>8, <1>9, <1>10, <1>11, <1>12, <1>13, <1>14, <1>15, <1>16, <1>17, <1>18, <1>19, <1>20 DEF Next, Stops, Arming, Frps

(* A tunnel that registers, and a STOP that is inserted, each leave a step  *)
(* that deletes the STOP.                                                   *)
LEMMA DisarmingStep == IInv /\ [Next]_vars => Disarming'
<1> SUFFICES ASSUME IInv, [Next]_vars PROVE Disarming'
  OBVIOUS
<1> USE DEF IInv, Typed, TypeOK, RowWrites, Running, job, tasks, proxy, Settled, Quiet, Disarming
<1>1. CASE Take \/ End
  BY <1>1 DEF Take, End, OnChain
<1>2. CASE Observe
  BY <1>2 DEF Observe, Shown
<1>3. CASE Deliver
  BY <1>3 DEF Deliver
<1>4. CASE Elapse
  BY <1>4 DEF Elapse
<1>5. CASE Claim
  BY <1>5 DEF Claim
<1>6. CASE RunStop
  BY <1>6 DEF RunStop, Stopped
<1>7. CASE OtherStop
  BY <1>7 DEF OtherStop, Stopped
<1>8. CASE Deactivate
  BY <1>8 DEF Deactivate
<1>9. CASE ArmInsert
  BY <1>9 DEF ArmInsert, Arm, Inserts, StopInserted
<1>10. CASE ArmMark
  BY <1>10 DEF ArmMark, Arm
<1>11. CASE ArmRead
  BY <1>11 DEF ArmRead, Arm
<1>12. CASE ArmDisarm
  BY <1>12 DEF ArmDisarm, Arm, StopDeleted, Cancels
<1>13. CASE ArmUnmark
  BY <1>13 DEF ArmUnmark, Arm
<1>14. CASE Connect \/ Disconnect
  BY <1>14 DEF Connect, Disconnect, Emit
<1>15. CASE Reconnect
  BY <1>15 DEF Reconnect
<1>16. CASE Handle
  BY <1>16 DEF Handle
<1>17. CASE RegisterDisarm
  BY <1>17 DEF RegisterDisarm, FrpsStep, StopDeleted, Cancels
<1>18. CASE RegisterUnmark
  BY <1>18 DEF RegisterUnmark, FrpsStep
<1>19. CASE Grace
  BY <1>19 DEF Grace, FrpsStep, StopInserted
<1>20. CASE UNCHANGED vars
  BY <1>20 DEF vars
<1> QED
  BY <1>1, <1>2, <1>3, <1>4, <1>5, <1>6, <1>7, <1>8, <1>9, <1>10, <1>11, <1>12, <1>13, <1>14, <1>15, <1>16, <1>17, <1>18, <1>19, <1>20 DEF Next, Stops, Arming, Frps

(* Without an event of the tunnel none of the FRPS handlers has run.        *)
LEMMA UntouchedStep == IInv /\ [Next]_vars => Untouched'
<1> SUFFICES ASSUME IInv, [Next]_vars PROVE Untouched'
  OBVIOUS
<1> USE DEF IInv, Typed, TypeOK, RowWrites, Running, job, tasks, proxy, Settled, Untouched, Unreached
<1>1. CASE Take \/ End
  BY <1>1 DEF Take, End, OnChain
<1>2. CASE Observe
  BY <1>2 DEF Observe, Shown
<1>3. CASE Deliver
  BY <1>3 DEF Deliver
<1>4. CASE Elapse
  BY <1>4 DEF Elapse
<1>5. CASE Claim
  BY <1>5 DEF Claim
<1>6. CASE RunStop
  BY <1>6 DEF RunStop, Stopped
<1>7. CASE OtherStop
  BY <1>7 DEF OtherStop, Stopped
<1>8. CASE Deactivate
  BY <1>8 DEF Deactivate
<1>9. CASE ArmInsert
  BY <1>9 DEF ArmInsert, Arm, Inserts, StopInserted
<1>10. CASE ArmMark
  BY <1>10 DEF ArmMark, Arm
<1>11. CASE ArmRead
  BY <1>11 DEF ArmRead, Arm
<1>12. CASE ArmDisarm
  BY <1>12 DEF ArmDisarm, Arm, StopDeleted, Cancels
<1>13. CASE ArmUnmark
  BY <1>13 DEF ArmUnmark, Arm
<1>14. CASE Connect \/ Disconnect
  BY <1>14, EmitReaches
<1>15. CASE Reconnect
  BY <1>15 DEF Reconnect
<1>16. CASE Handle
  BY <1>16 DEF Handle
<1>17. CASE RegisterDisarm
  BY <1>17 DEF RegisterDisarm, FrpsStep, StopDeleted, Cancels
<1>18. CASE RegisterUnmark
  BY <1>18 DEF RegisterUnmark, FrpsStep
<1>19. CASE Grace
  BY <1>19 DEF Grace, FrpsStep, StopInserted
<1>20. CASE UNCHANGED vars
  BY <1>20 DEF vars
<1> QED
  BY <1>1, <1>2, <1>3, <1>4, <1>5, <1>6, <1>7, <1>8, <1>9, <1>10, <1>11, <1>12, <1>13, <1>14, <1>15, <1>16, <1>17, <1>18, <1>19, <1>20 DEF Next, Stops, Arming, Frps

(* No step but the job's end takes the STOP of a job never reached.         *)
LEMMA ArmedStep == IInv /\ [Next]_vars => Armed'
<1> SUFFICES ASSUME IInv, [Next]_vars PROVE Armed'
  OBVIOUS
<1> USE DEF IInv, Typed, TypeOK, RowWrites, Running, job, tasks, proxy, Settled, Quiet, Untouched, Armed, Unreached
<1>1. CASE Take \/ End
  BY <1>1 DEF Take, End, OnChain
<1>2. CASE Observe
  BY <1>2 DEF Observe, Shown
<1>3. CASE Deliver
  BY <1>3 DEF Deliver
<1>4. CASE Elapse
  BY <1>4 DEF Elapse
<1>5. CASE Claim
  BY <1>5 DEF Claim
<1>6. CASE RunStop
  BY <1>6 DEF RunStop, Stopped
<1>7. CASE OtherStop
  BY <1>7 DEF OtherStop, Stopped
<1>8. CASE Deactivate
  BY <1>8 DEF Deactivate
<1>9. CASE ArmInsert
  BY <1>9 DEF ArmInsert, Arm, Inserts, StopInserted
<1>10. CASE ArmMark
  BY <1>10 DEF ArmMark, Arm
<1>11. CASE ArmRead
  BY <1>11 DEF ArmRead, Arm
<1>12. CASE ArmDisarm
  BY <1>12 DEF ArmDisarm, Arm, StopDeleted, Cancels
<1>13. CASE ArmUnmark
  BY <1>13 DEF ArmUnmark, Arm
<1>14. CASE Connect \/ Disconnect
  BY <1>14, EmitReaches
<1>15. CASE Reconnect
  BY <1>15 DEF Reconnect
<1>16. CASE Handle
  BY <1>16 DEF Handle
<1>17. CASE RegisterDisarm
  BY <1>17 DEF RegisterDisarm, FrpsStep, StopDeleted, Cancels
<1>18. CASE RegisterUnmark
  BY <1>18 DEF RegisterUnmark, FrpsStep
<1>19. CASE Grace
  BY <1>19 DEF Grace, FrpsStep, StopInserted
<1>20. CASE UNCHANGED vars
  BY <1>20 DEF vars
<1> QED
  BY <1>1, <1>2, <1>3, <1>4, <1>5, <1>6, <1>7, <1>8, <1>9, <1>10, <1>11, <1>12, <1>13, <1>14, <1>15, <1>16, <1>17, <1>18, <1>19, <1>20 DEF Next, Stops, Arming, Frps

(* The inductive invariant.                                                 *)
LEMMA Inductive == Spec => []IInv
<1>1. Init => IInv
  BY InitTyped DEF Init, IInv, Quiet, Disarming, Untouched, Armed, Unreached, Running
<1>2. IInv /\ [Next]_vars => IInv'
  <2>1. IInv /\ [Next]_vars => Typed'
    BY StepTyped DEF IInv
  <2> QED
    BY <2>1, QuietStep, DisarmingStep, UntouchedStep, ArmedStep DEF IInv
<1> QED
  BY <1>1, <1>2, PTL DEF Spec

(* Whatever the order of the arming's writes and the tunnel's events, a job *)
(* that is online is not stopped for missing its startup deadline once both *)
(* are through (armStartupDeadline's read after its insert).                *)
THEOREM NoStopOnline == Spec => []OnlineDisarmed
<1>1. IInv => OnlineDisarmed
  BY DEF IInv, Disarming, OnlineDisarmed, Handled, Rests, Running, Settled
<1> QED
  BY <1>1, Inductive, PTL

(* A job never reached keeps the STOP and the marker its RUNNING callback   *)
(* wrote, whatever is replayed and whatever else stops it meanwhile.        *)
THEOREM StopOffline == Spec => []OfflineArmed
<1>1. IInv => OfflineArmed
  BY DEF IInv, Armed, OfflineArmed, Rests, Running, Settled
<1> QED
  BY <1>1, Inductive, PTL
=============================================================================
