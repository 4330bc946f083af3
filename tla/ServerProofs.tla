----------------------------- MODULE ServerProofs -----------------------------
(***************************************************************************)
(* The bounds in time of module Server hold for every timeout, heartbeat   *)
(* interval, pair of detection thresholds and duration of name lookups,    *)
(* the ones of the code among them.                                        *)
(***************************************************************************)
EXTENDS Server, TLAPS

\* The age of the last heartbeat when the next is looked at, but for the lookups
\* of the turn it is looked at in
Wait == HEARTBEAT_INTERVAL + LOOKUP_TIME + RECV_TIMEOUT

\* How long the thread has been blocked in this turn decides how old the last
\* heartbeat and the stop may be, wherever the thread is
ThreadInv ==
  /\ app \in {"init", "start"} => thread = "none"
  /\ hasSocket \/ (status = "none" /\ thread # "handle")
  /\ stopped \/ (stopAge = 0 /\ late = 0)
  /\ stopAge <= RECV_TIMEOUT + LOOKUP_TIME /\ late <= 1
  /\ thread = "none" => stopAge = 0
  /\ thread \in {"none", "join"} => status = "none"
  /\ thread \notin {"test", "exited"} => stopAge <= recvAge + lookAge
  /\ thread \in {"none", "join", "recv", "handle"} => late = 0

\* The age of the last heartbeat
BeatInv ==
  status # "none" =>
    /\ thread = "status" => hbAge <= lookAge /\ hbAge <= age
    /\ thread \in {"print", "show"} => hbAge <= HEARTBEAT_INTERVAL + lookAge
    /\ thread \in {"test", "exited"} => hbAge <= HEARTBEAT_INTERVAL + LOOKUP_TIME
    /\ thread \in {"recv", "handle"} =>
         hbAge <= HEARTBEAT_INTERVAL + LOOKUP_TIME + recvAge + lookAge
    /\ thread = "heartbeat" =>
         \/ beats = 0 /\ quiet <= lookAge
         \/ hbAge <= HEARTBEAT_INTERVAL + LOOKUP_TIME + recvAge + lookAge

\* Time since the last heartbeat whose status loop is over
Gap == IF thread = "status" THEN Wait + lookAge ELSE hbAge

\* What the heartbeats since the last event about the watched member have seen
MemberInv ==
  status # "none" =>
    /\ quiet <= age
    /\ beats = 0 => quiet <= Gap
    /\ beats = 1 => quiet <= MaxGap + Gap
    /\ beats > 0 /\ status = "ALIVE" => age < SuspectAfter + Gap
    /\ beats = 2 /\ status = "SUSPECT" => age < DeadDue + Gap

ServerInv == TypeOK /\ ThreadInv /\ BeatInv /\ MemberInv

------------------------------------------------------------------------------
\* What the constants amount to
LEMMA ConstantFacts ==
  /\ HEARTBEAT_INTERVAL \in Nat /\ RECV_TIMEOUT \in Nat
  /\ PRINT_INTERVAL \in Nat /\ LOOKUP_TIME \in Nat
  /\ SuspectAfter \in Nat /\ SuspectAfter > 0 /\ DeadAfter \in Nat
  /\ Wait \in Nat /\ Wait = HEARTBEAT_INTERVAL + LOOKUP_TIME + RECV_TIMEOUT
  /\ MaxGap \in Nat /\ MaxGap = Wait + LOOKUP_TIME
  /\ DeadDue \in Nat /\ DeadDue >= DeadAfter /\ DeadDue >= SuspectAfter + MaxGap
  /\ Horizon \in Nat /\ Horizon = DeadDue + MaxGap + 1
  /\ Time = 0..Horizon
BY ServerAssumption DEF Wait, MaxGap, DeadDue, Horizon, Time

\* What a heartbeat makes of a member's status
LEMMA VisitedFacts ==
  ASSUME NEW s \in Status, NEW a \in Nat
  PROVE  /\ Visited(s, a) \in Status
         /\ Visited(s, a) = "ALIVE" => a < SuspectAfter
         /\ Visited(s, a) = "SUSPECT" =>
              \/ s = "SUSPECT" /\ a < DeadAfter
              \/ s = "ALIVE"
BY ServerAssumption DEF Visited, Status

\* Counting on stays within the horizon, and below it is counting by one
LEMMA LaterFacts ==
  ASSUME NEW t \in Time
  PROVE  /\ Later(t) \in Time
         /\ t <= Later(t) /\ Later(t) <= t + 1
         /\ t < Horizon => Later(t) = t + 1
         /\ \A u \in Time : u <= t => Later(u) <= Later(t)
BY ConstantFacts DEF Later

\* The places of the thread, one by one
LEMMA PlaceFacts ==
  /\ Places = {"none", "join", "test", "recv", "handle", "heartbeat", "status",
               "print", "show", "exited"}
  /\ Lookups = {"join", "handle", "heartbeat", "status", "show"}
BY DEF Places, Lookups

\* The invariant is inductive
LEMMA ServerInvInductive == ServerInv /\ [Next]_vars => ServerInv'
<1> SUFFICES ASSUME ServerInv, [Next]_vars PROVE ServerInv'
  OBVIOUS
<1> USE DEF ServerInv
<1>0. /\ age \in Nat /\ quiet \in Nat /\ hbAge \in Nat /\ stopAge \in Nat
      /\ recvAge \in Nat /\ recvAge <= RECV_TIMEOUT
      /\ lookAge \in Nat /\ lookAge <= LOOKUP_TIME
      /\ beats \in 0..2 /\ late \in 0..2
      /\ status # "none" => status \in Status
  BY ConstantFacts DEF TypeOK
<1>1. CASE swim_server_init
  <2>1. thread = "none" /\ status = "none"
    BY <1>1 DEF swim_server_init, ThreadInv
  <2>2. UNCHANGED <<thread, status, age, quiet, beats, stopped, stopAge, late,
                    recvAge, lookAge, printAge>>
    BY <1>1 DEF swim_server_init, stop, member, turn
  <2>3. TypeOK'
    <3>1. hbAge' \in Time
      BY <1>1, ConstantFacts DEF swim_server_init, TypeOK
    <3>2. published' \in BOOLEAN /\ hasSocket' \in BOOLEAN
      BY <1>1, Zenon DEF swim_server_init, TypeOK
    <3>3. QED BY <1>1, <2>2, <3>1, <3>2 DEF swim_server_init, TypeOK
  <2>4. ThreadInv' /\ BeatInv' /\ MemberInv'
    BY <1>1, <2>1, <2>2 DEF swim_server_init, ThreadInv, BeatInv, MemberInv
  <2>5. QED BY <2>3, <2>4
<1>2. CASE swim_server_start
  BY <1>0, <1>2, ConstantFacts, PlaceFacts
  DEF swim_server_start, TypeOK, ThreadInv, BeatInv, MemberInv, Gap, stop, member, turn
<1>3. CASE swim_server_wait
  BY <1>0, <1>3
  DEF swim_server_wait, TypeOK, ThreadInv, BeatInv, MemberInv, Gap, stop, member, turn
<1>4. CASE swim_server_stop
  <2>1. /\ UNCHANGED <<thread, published, hasSocket, stopAge, late, recvAge,
                       lookAge, printAge, hbAge, status, age, quiet, beats>>
        /\ stopped' = TRUE \/ stopped' = stopped
        /\ app' = app \/ app' = "crashed"
    BY <1>4, Zenon DEF swim_server_stop, member, turn
  <2>2. TypeOK'
    BY <2>1, Zenon DEF TypeOK
  <2>3. ThreadInv'
    <3>1. stopped' \/ (stopAge' = 0 /\ late' = 0)
      BY <1>4, Zenon DEF swim_server_stop, ThreadInv
    <3>2. app' \in {"init", "start"} => thread' = "none"
      BY <2>1 DEF ThreadInv
    <3>3. QED BY <2>1, <3>1, <3>2, Zenon DEF ThreadInv
  <2>4. BeatInv' /\ MemberInv'
    BY <2>1, Zenon DEF BeatInv, MemberInv, Gap
  <2>5. QED BY <2>2, <2>3, <2>4
<1>5. CASE pthread_server_loop
  BY <1>0, <1>5, ConstantFacts, PlaceFacts
  DEF pthread_server_loop, ThreadStep, TypeOK, ThreadInv, BeatInv, MemberInv, Gap,
      stop, member, turn
<1>6. CASE swim_server_running
  BY <1>0, <1>6, ConstantFacts, PlaceFacts
  DEF swim_server_running, ThreadStep, TypeOK, ThreadInv, BeatInv, MemberInv, Gap,
      stop, member
<1>7. CASE swim_recv_event
  BY <1>0, <1>7, ConstantFacts, PlaceFacts
  DEF swim_recv_event, ThreadStep, TypeOK, ThreadInv, BeatInv, MemberInv, Gap,
      stop, member, turn
<1>8. CASE RecvFails
  BY <1>0, <1>8, ConstantFacts, PlaceFacts
  DEF RecvFails, ThreadStep, TypeOK, ThreadInv, BeatInv, MemberInv, Gap,
      stop, member, turn
<1>9. CASE swim_process_event
  <2> USE DEF swim_process_event, AfterEvent, ThreadStep, member, turn
  <2>1. TypeOK'
    <3>1. {age', quiet'} \subseteq Time /\ beats' \in 0..2
      BY <1>9, ConstantFacts DEF TypeOK
    <3>2. status' \in Status \cup {"none"}
      BY <1>9 DEF TypeOK
    <3>3. QED BY <1>0, <1>9, <3>1, <3>2, PlaceFacts DEF TypeOK
  <2>2. ThreadInv'
    <3>1. late' <= 1 /\ (stopped \/ late' = late)
      BY <1>0, <1>9 DEF ThreadInv
    <3>2. stopped' \/ (stopAge' = 0 /\ late' = 0)
      BY <1>9, <3>1, Zenon DEF ThreadInv
    <3>3. /\ thread = "handle" /\ thread' = "heartbeat"
          /\ UNCHANGED <<app, hasSocket, stopAge, recvAge, lookAge>>
          /\ hasSocket
      BY <1>9 DEF ThreadInv
    <3>4. QED BY <3>1, <3>2, <3>3 DEF ThreadInv
  <2>3. BeatInv' /\ MemberInv'
    BY <1>0, <1>9, ConstantFacts DEF TypeOK, BeatInv, MemberInv, Gap
  <2>4. QED BY <2>1, <2>2, <2>3
<1>10. CASE swim_cluster_heartbeat
  <2> USE DEF swim_cluster_heartbeat, ThreadStep, stop, member, turn
  <2>1. TypeOK'
    BY <1>0, <1>10, ConstantFacts, PlaceFacts DEF TypeOK
  <2>2. ThreadInv'
    BY <1>0, <1>10 DEF ThreadInv
  <2>3. BeatInv'
    BY <1>0, <1>10, ConstantFacts DEF BeatInv
  <2>4. MemberInv'
    <3>1. CASE hbAge' = 0 /\ thread = "heartbeat" /\ thread' = "status"
      <4>1. status # "none" => (beats = 0 => quiet <= Wait + lookAge)
        BY <1>0, <3>1, ConstantFacts DEF BeatInv, MemberInv, Gap
      <4>2. status # "none" /\ beats # 0 => Gap <= Gap' /\ Gap \in Nat
        BY <1>0, <1>10, <3>1, ConstantFacts DEF BeatInv, Gap
      <4>3. Gap' = Wait + lookAge
        BY <1>10, <3>1 DEF Gap
      <4>4. QED BY <1>0, <1>10, <4>1, <4>2, <4>3, ConstantFacts DEF MemberInv
    <3>2. CASE UNCHANGED hbAge /\ thread = "heartbeat" /\ thread' = "print"
      BY <1>10, <3>2 DEF MemberInv, Gap
    <3>3. QED BY <1>10, <3>1, <3>2
  <2>5. QED BY <2>1, <2>2, <2>3, <2>4
<1>11. CASE StatusLoop
  <2> USE DEF StatusLoop, ThreadStep, stop, turn
  <2>1. CASE status = "none"
    BY <1>0, <1>11, <2>1, PlaceFacts
    DEF TypeOK, ThreadInv, BeatInv, MemberInv, member
  <2>2. CASE status # "none"
    <3>1. age - hbAge \in Nat
      BY <1>0, <1>11, <2>2 DEF BeatInv
    <3>2. /\ status' \in Status /\ status' = Visited(status, age - hbAge)
          /\ status' # "none"
          /\ beats' = IF beats < 2 THEN beats + 1 ELSE beats
          /\ UNCHANGED <<age, quiet, hbAge, recvAge, lookAge, printAge>>
          /\ thread = "status" /\ thread' = "print"
      BY <1>0, <1>11, <2>2, <3>1, VisitedFacts DEF Status
    <3>3. /\ status' = "ALIVE" => age < SuspectAfter + hbAge
          /\ status' = "SUSPECT" =>
               \/ status = "SUSPECT" /\ age < DeadAfter + hbAge
               \/ status = "ALIVE"
      BY <1>0, <3>1, <3>2, <2>2, VisitedFacts, ConstantFacts
    <3>4. TypeOK' /\ ThreadInv'
      BY <1>0, <1>11, <2>2, <3>2, PlaceFacts DEF TypeOK, ThreadInv
    <3>5. BeatInv'
      BY <1>0, <2>2, <3>2, ConstantFacts DEF BeatInv
    <3>6. MemberInv'
      BY <1>0, <2>2, <3>2, <3>3, ConstantFacts DEF MemberInv, Gap
    <3>7. QED BY <3>4, <3>5, <3>6
  <2>3. QED BY <2>1, <2>2
<1>12. CASE Printout
  BY <1>0, <1>12, ConstantFacts, PlaceFacts
  DEF Printout, ThreadStep, TypeOK, ThreadInv, BeatInv, MemberInv, Gap, stop, member
<1>13. CASE swim_state_print
  BY <1>0, <1>13, ConstantFacts, PlaceFacts
  DEF swim_state_print, ThreadStep, TypeOK, ThreadInv, BeatInv, MemberInv, Gap,
      stop, member, turn
<1>14. CASE Tick
  <2>1. /\ Later(hbAge) \in Time /\ Later(stopAge) \in Time
        /\ Later(age) \in Time /\ Later(quiet) \in Time
        /\ Later(hbAge) <= hbAge + 1 /\ Later(stopAge) <= stopAge + 1
        /\ Later(age) <= age + 1 /\ Later(quiet) <= quiet + 1
        /\ hbAge < Horizon => Later(hbAge) = hbAge + 1
        /\ quiet <= age => Later(quiet) <= Later(age)
        /\ hbAge <= age => Later(hbAge) <= Later(age)
        /\ quiet <= hbAge => Later(quiet) <= Later(hbAge)
    BY LaterFacts DEF TypeOK
  <2>2. \/ /\ thread = "recv" /\ recvAge < RECV_TIMEOUT
           /\ recvAge' = recvAge + 1 /\ lookAge' = lookAge
        \/ /\ thread # "recv" /\ lookAge < LOOKUP_TIME
           /\ lookAge' = lookAge + 1 /\ recvAge' = recvAge
    BY <1>14, PlaceFacts DEF Tick, MayBlock
  <2>3. /\ thread \in {"join", "recv", "handle", "heartbeat", "status", "show"}
        /\ thread' = thread /\ status' = status /\ beats' = beats
        /\ hbAge' = Later(hbAge)
        /\ stopAge' = stopAge \/ stopAge' = Later(stopAge)
    BY <1>14, PlaceFacts DEF Tick
  <2>4. /\ UNCHANGED <<app, published, hasSocket, stopped, late>>
        /\ stopped \/ stopAge' = stopAge
    BY <1>14 DEF Tick
  <2>5. \A t \in Time : t \in Nat
    BY ConstantFacts
  <2>6. TypeOK'
    <3>1. printAge' \in 0..(PRINT_INTERVAL + 1)
      BY <1>14, ConstantFacts DEF Tick, TypeOK
    <3>2. {hbAge', age', quiet', stopAge'} \subseteq Time
      BY <1>14, <2>1 DEF Tick, TypeOK
    <3>3. recvAge' \in 0..RECV_TIMEOUT /\ lookAge' \in 0..LOOKUP_TIME
      BY <1>0, <2>2, ConstantFacts
    <3>4. QED BY <2>3, <2>4, <3>1, <3>2, <3>3 DEF TypeOK
  <2>7. ThreadInv'
    <3>1. stopAge' <= recvAge' + lookAge' /\ stopAge' <= RECV_TIMEOUT + LOOKUP_TIME
      <4>1. stopAge' \in Nat /\ stopAge' <= stopAge + 1
        BY <1>0, <2>1, <2>3, <2>5
      <4>2. stopAge <= recvAge + lookAge
        BY <2>3 DEF ThreadInv
      <4>3. QED BY <1>0, <2>2, <4>1, <4>2, ConstantFacts
    <3>2. thread # "none" /\ thread' = thread /\ status' = status
      BY <2>3
    <3>3. QED BY <2>4, <3>1, <3>2, Zenon DEF ThreadInv
  <2>8. BeatInv' /\ MemberInv'
    <3>1. CASE status = "none"
      BY <2>3, <3>1 DEF BeatInv, MemberInv
    <3>2. CASE status # "none"
      <4>1. age' = Later(age) /\ quiet' = Later(quiet)
        BY <1>14, <3>2 DEF Tick
      <4>2. /\ age' \in Nat /\ quiet' \in Nat /\ hbAge' \in Nat
            /\ age' <= age + 1 /\ quiet' <= quiet + 1 /\ hbAge' <= hbAge + 1
            /\ hbAge < Horizon => hbAge' = hbAge + 1
            /\ quiet <= age => quiet' <= age'
            /\ hbAge <= age => hbAge' <= age'
            /\ quiet <= hbAge => quiet' <= hbAge'
        BY <2>1, <2>3, <2>5, <4>1
      <4>3. thread # "join" /\ thread' = thread /\ status' = status /\ beats' = beats
        BY <2>3, <3>2 DEF ThreadInv
      <4>4. BeatInv'
        <5>1. CASE thread = "status" \/ thread = "show"
          BY <1>0, <2>2, <3>2, <4>2, <4>3, <5>1, ConstantFacts DEF BeatInv
        <5>2. CASE thread = "recv" \/ thread = "handle"
          BY <1>0, <2>2, <3>2, <4>2, <4>3, <5>2, ConstantFacts DEF BeatInv
        <5>3. CASE thread = "heartbeat"
          BY <1>0, <2>2, <3>2, <4>2, <4>3, <5>3, ConstantFacts DEF BeatInv
        <5>4. QED BY <2>3, <4>3, <5>1, <5>2, <5>3
      <4>5. CASE thread = "heartbeat" /\ beats = 0
        <5>1. Gap = hbAge /\ Gap' = hbAge'
          BY <4>3, <4>5 DEF Gap
        <5>2. quiet' <= age' /\ quiet' <= Gap'
          BY <3>2, <4>2, <4>5, <5>1 DEF MemberInv
        <5>3. beats' = 0
          BY <4>3, <4>5
        <5>4. QED BY <4>4, <5>2, <5>3 DEF MemberInv
      <4>6. CASE thread # "heartbeat" \/ beats # 0
        <5>1. hbAge < Horizon
          BY <1>0, <2>2, <2>3, <3>2, <4>3, <4>6, ConstantFacts DEF BeatInv
        <5>2. Gap \in Nat /\ Gap' = Gap + 1
          BY <1>0, <2>2, <4>2, <4>3, <5>1, ConstantFacts DEF Gap
        <5>3. quiet' <= age' /\ (beats = 0 => quiet' <= Gap')
          BY <1>0, <3>2, <4>2, <5>2 DEF MemberInv
        <5>4. beats = 1 => quiet' <= MaxGap + Gap'
          BY <1>0, <3>2, <4>2, <5>2, ConstantFacts DEF MemberInv
        <5>5. beats > 0 /\ status = "ALIVE" => age' < SuspectAfter + Gap'
          BY <1>0, <3>2, <4>2, <5>2, ConstantFacts DEF MemberInv
        <5>6. beats = 2 /\ status = "SUSPECT" => age' < DeadDue + Gap'
          BY <1>0, <3>2, <4>2, <5>2, ConstantFacts DEF MemberInv
        <5>7. QED BY <4>3, <4>4, <5>3, <5>4, <5>5, <5>6, Zenon DEF MemberInv
      <4>7. QED BY <4>4, <4>5, <4>6
    <3>3. QED BY <3>1, <3>2
  <2>9. QED BY <2>6, <2>7, <2>8
<1>15. CASE UNCHANGED vars
  BY <1>15 DEF vars, TypeOK, ThreadInv, BeatInv, MemberInv, Gap
<1>16. QED
  BY <1>1, <1>2, <1>3, <1>4, <1>5, <1>6, <1>7, <1>8, <1>9, <1>10, <1>11, <1>12,
     <1>13, <1>14, <1>15
  DEF Next, Main, Thread

LEMMA ServerInvHolds == Spec => []ServerInv
<1>1. Init => ServerInv
  <2>1. ASSUME Init PROVE TypeOK
    <3>1. published \in BOOLEAN /\ hasSocket \in BOOLEAN /\ stopped \in BOOLEAN
      BY <2>1, Zenon DEF Init
    <3>2. QED BY <2>1, <3>1, ConstantFacts, PlaceFacts DEF Init, TypeOK
  <2>2. Init => ThreadInv /\ BeatInv /\ MemberInv
    BY ConstantFacts DEF Init, ThreadInv, BeatInv, MemberInv
  <2>3. QED BY <2>1, <2>2 DEF ServerInv
<1>2. QED BY <1>1, ServerInvInductive, PTL DEF Spec

------------------------------------------------------------------------------
\* Times, statuses and places in the program stay in their ranges; recvfrom is
\* never blocked for longer than SO_RCVTIMEO.
THEOREM ServerType == Spec => []TypeOK
BY ServerInvHolds, PTL DEF ServerInv

\* For every timeout, every interval and however long name lookups take, the
\* server thread runs a heartbeat at least every HEARTBEAT_INTERVAL + RECV_TIMEOUT
\* seconds and the lookups of two turns while it has members.
THEOREM HeartbeatInTimeHolds == Spec => []HeartbeatInTime
<1>1. ServerInv => HeartbeatInTime
  BY ConstantFacts, PlaceFacts
  DEF ServerInv, TypeOK, ThreadInv, BeatInv, HeartbeatInTime
<1>2. QED BY <1>1, ServerInvHolds, PTL

\* After swim_server_stop at most one more event is handled, and at most one
\* more RECV_TIMEOUT is spent in recvfrom and the lookups of one turn.
THEOREM StopInTimeHolds == Spec => []StopInTime
<1>1. ServerInv => StopInTime
  BY DEF ServerInv, ThreadInv, StopInTime
<1>2. QED BY <1>1, ServerInvHolds, PTL

\* For all thresholds, a silent member is suspected within MaxGap of
\* SuspectAfter, and declared dead within MaxGap of DeadDue, which is DeadAfter
\* unless name lookups take up the time between the thresholds.
THEOREM DetectedInTimeHolds == Spec => []DetectedInTime
<1>1. ServerInv => DetectedInTime
  <2> SUFFICES ASSUME ServerInv, status \notin {"none", "UNKNOWN"}
               PROVE  /\ quiet >= SuspectAfter + MaxGap => status # "ALIVE"
                      /\ quiet >= DeadDue + MaxGap => status = "DEAD"
    BY DEF DetectedInTime
  <2>1. /\ age \in Nat /\ quiet \in Nat /\ hbAge \in Nat
        /\ recvAge \in Nat /\ recvAge <= RECV_TIMEOUT
        /\ lookAge \in Nat /\ lookAge <= LOOKUP_TIME
        /\ beats = 0 \/ beats = 1 \/ beats = 2
        /\ status \in {"ALIVE", "SUSPECT", "DEAD"}
    BY ConstantFacts DEF ServerInv, TypeOK, Status
  <2>2. beats = 0 => quiet <= MaxGap
    BY <2>1, ConstantFacts, PlaceFacts
    DEF ServerInv, TypeOK, ThreadInv, BeatInv, MemberInv, Gap
  <2>3. beats # 0 => Gap \in Nat /\ Gap <= MaxGap
    BY <2>1, ConstantFacts, PlaceFacts
    DEF ServerInv, TypeOK, ThreadInv, BeatInv, Gap
  <2>4. QED BY <2>1, <2>2, <2>3, ConstantFacts DEF ServerInv, MemberInv
<1>2. QED BY <1>1, ServerInvHolds, PTL
==============================================================================
