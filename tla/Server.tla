-------------------------------- MODULE Server --------------------------------
(***************************************************************************)
(* One process as its threads see it: the main program (examples),         *)
(* swim_server_init, _start, _stop and _wait (swim/server_pthread.c), the  *)
(* server thread's loop (swim/server.c) and a SIGINT handler that stops    *)
(* the server.  Module Swim takes for granted that the loop goes on; here  *)
(* is why, how often the heartbeat runs, how long a stop takes and how     *)
(* soon a member that has fallen silent is noticed.                        *)
(*                                                                         *)
(* Time passes while the thread is blocked: in recvfrom, and in the name   *)
(* lookups of swim_addr_str_r, which swim_state_print does for every       *)
(* member and witness and, with -v, LOG for every event received or sent.  *)
(* One member of the view is watched: an event may leave its record with   *)
(* any status and age.                                                     *)
(***************************************************************************)
EXTENDS Integers

CONSTANTS
  HEARTBEAT_INTERVAL,  \* SWIM_HEARTBEAT_INTERVAL (1)
  RECV_TIMEOUT,        \* SO_RCVTIMEO of the socket, in seconds (10)
  PRINT_INTERVAL,      \* seconds between two printouts of the members (5)
  LOOKUP_TIME,         \* the longest the name lookups of one turn of the loop
                       \* take (code: as long as the resolver takes for them)
  SuspectAfter,        \* seconds of silence before a node is suspected (60)
  DeadAfter            \* seconds of silence before a suspect is dead (120)

\* The longest the thread is without a heartbeat while it has members: one was
\* almost due, then come the printout of that turn, the receive timeout and the
\* lookups of the next turn
MaxGap == HEARTBEAT_INTERVAL + RECV_TIMEOUT + 2 * LOOKUP_TIME

\* From then on the next heartbeat declares a silent member dead: its time is
\* over, and an earlier heartbeat has made it SUSPECT
DeadDue ==
  IF SuspectAfter + MaxGap <= DeadAfter THEN DeadAfter ELSE SuspectAfter + MaxGap

ASSUME ServerAssumption ==
  /\ HEARTBEAT_INTERVAL \in Nat /\ RECV_TIMEOUT \in Nat
  /\ PRINT_INTERVAL \in Nat /\ LOOKUP_TIME \in Nat
  /\ SuspectAfter \in Nat \ {0} /\ DeadAfter \in Nat

VARIABLES
  app,         \* where the main program is
  thread,      \* where the server thread is
  published,   \* swim->server is set
  hasSocket,   \* swim_state_init succeeded
  stopped,     \* state->stopped
  recvAge,     \* how long recvfrom has been blocked in this turn
  lookAge,     \* how long name lookups have been blocked in this turn
  printAge,    \* age of last_printout
  hbAge,       \* age of swim->last_heartbeat
  status,      \* the watched member's status, or "none": not in the view
  age,         \* age of its last_seen
  quiet,       \* history: time since an event last touched its record
  beats,       \* history: heartbeats since then, up to 2
  stopAge,     \* history: time since the server was told to stop
  late         \* history: events handled since then

vars == <<app, thread, published, hasSocket, stopped, recvAge, lookAge, printAge,
          hbAge, status, age, quiet, beats, stopAge, late>>
turn == <<recvAge, lookAge, printAge>>
member == <<status, age, quiet, beats>>
stop == <<stopped, stopAge, late>>

Status == {"UNKNOWN", "ALIVE", "SUSPECT", "DEAD"}

\* Where the thread may be blocked in name lookups: on its way to sending the
\* JOIN, in a handler, in the two halves of a heartbeat, and in the printout
Lookups == {"join", "handle", "heartbeat", "status", "show"}
Places == Lookups \cup {"none", "test", "recv", "print", "exited"}

\* Times are told apart up to the point where every bound has passed
Horizon == DeadDue + MaxGap + 1
Time == 0..Horizon
Later(t) == IF t < Horizon THEN t + 1 ELSE t

TypeOK ==
  /\ app \in {"init", "start", "wait", "done", "crashed"}
  /\ thread \in Places
  /\ published \in BOOLEAN /\ hasSocket \in BOOLEAN /\ stopped \in BOOLEAN
  /\ recvAge \in 0..RECV_TIMEOUT /\ lookAge \in 0..LOOKUP_TIME
  /\ printAge \in 0..(PRINT_INTERVAL + 1)
  /\ {hbAge, age, quiet, stopAge} \subseteq Time
  /\ status \in Status \cup {"none"}
  /\ beats \in 0..2 /\ late \in 0..2

Init ==
  /\ app = "init" /\ thread = "none"
  /\ published = FALSE /\ hasSocket = FALSE /\ stopped = FALSE
  /\ recvAge = 0 /\ lookAge = 0 /\ printAge = PRINT_INTERVAL + 1 /\ hbAge = 0
  /\ status = "none" /\ age = 0 /\ quiet = 0 /\ beats = 0
  /\ stopAge = 0 /\ late = 0

------------------------------------------------------------------------------
\* The main program

\* malloc may fail, and then nothing is set up; swim_state_init may fail too
\* (socket, setsockopt or bind), which nobody looks at: the memory is cleared,
\* so last_heartbeat is long past, and swim->server is set all the same
swim_server_init ==
  /\ app = "init"
  /\ app' = "start"
  /\ \/ UNCHANGED <<published, hasSocket, hbAge>>
     \/ published' = TRUE /\ hasSocket' = TRUE /\ hbAge' = 0
     \/ published' = TRUE /\ hasSocket' = FALSE /\ hbAge' = Horizon
  /\ UNCHANGED <<thread, stop, turn, member>>

\* A NULL swim->server is dereferenced; an error of pthread_create is returned
\* to a main program that ignores it
swim_server_start ==
  /\ app = "start"
  /\ IF published
     THEN app' = "wait" /\ thread' \in {"join", "none"}
     ELSE app' = "crashed" /\ UNCHANGED thread
  /\ UNCHANGED <<published, hasSocket, stop, turn, hbAge, member>>

\* pthread_join; of a thread that was never created, it does anything
swim_server_wait ==
  /\ app = "wait"
  /\ \/ thread = "exited" /\ app' = "done"
     \/ thread = "none" /\ app' \in {"done", "crashed"}
  /\ UNCHANGED <<thread, published, hasSocket, stop, turn, hbAge, member>>

\* handle_sigint, in whichever thread it runs; the handler is installed before
\* swim_server_init, so it may find swim->server NULL
swim_server_stop ==
  /\ app \notin {"done", "crashed"}
  /\ IF published
     THEN stopped' = TRUE /\ UNCHANGED app
     ELSE UNCHANGED stopped /\ app' = "crashed"
  /\ UNCHANGED <<thread, published, hasSocket, stopAge, late, turn, hbAge,
                 member>>

------------------------------------------------------------------------------
\* The server thread

ThreadStep(from, to) ==
  /\ app \notin {"done", "crashed"}
  /\ thread = from /\ thread' = to
  /\ UNCHANGED <<app, published, hasSocket>>

\* Sends a JOIN, or not: no state of this process changes
pthread_server_loop ==
  ThreadStep("join", "test") /\ UNCHANGED <<stop, turn, hbAge, member>>

\* Mutant: the flag is not looked at
swim_server_running_Always ==
  /\ ThreadStep("test", "recv")
  /\ recvAge' = 0 /\ lookAge' = 0
  /\ UNCHANGED <<stop, printAge, hbAge, member>>

\* The condition of the loop
swim_server_running ==
  /\ ThreadStep("test", IF stopped THEN "exited" ELSE "recv")
  /\ recvAge' = 0 /\ lookAge' = 0
  /\ UNCHANGED <<stop, printAge, hbAge, member>>

\* recvfrom returns an event in time
swim_recv_event ==
  /\ ThreadStep("recv", "handle")
  /\ hasSocket
  /\ UNCHANGED <<stop, turn, hbAge, member>>

\* recvfrom fails: the timeout, an interrupt, a datagram that does not decode,
\* or, at once, no socket
RecvFails ==
  /\ ThreadStep("recv", "heartbeat")
  /\ UNCHANGED <<stop, turn, hbAge, member>>

\* Mutants: the heartbeat is left to the rounds without an event; events are
\* handled for as long as there are any
AfterEvent_SkipsHeartbeat == "test"
AfterEvent_Drains == "recv"

\* Where the loop goes on once an event has been handled
AfterEvent == "heartbeat"

\* The watched member is not concerned, or its record is changed or added (no
\* handler removes a member).  Names are looked up before that, for LOG, and
\* after it, for what the handler sends.
swim_process_event ==
  /\ ThreadStep("handle", AfterEvent)
  /\ late' = IF stopped /\ late < 2 THEN late + 1 ELSE late
  /\ \/ UNCHANGED member
     \/ status' \in Status /\ age' \in Time /\ quiet' = 0 /\ beats' = 0
  /\ UNCHANGED <<stopped, stopAge, turn, hbAge>>

\* Mutant: the second the suspect is declared dead in may be missed
Visited_Once(s, a) ==
  CASE s = "ALIVE" /\ a >= SuspectAfter -> "SUSPECT"
    [] s = "SUSPECT" /\ a = DeadAfter -> "DEAD"
    [] OTHER -> s

\* The status switch of swim_cluster_heartbeat
Visited(s, a) ==
  CASE s = "ALIVE" /\ a >= SuspectAfter -> "SUSPECT"
    [] s = "SUSPECT" /\ a >= DeadAfter -> "DEAD"
    [] OTHER -> s

\* Due when the second is over, unless the view is empty; there may be other
\* members than the watched one
swim_cluster_heartbeat ==
  /\ \/ /\ hbAge > HEARTBEAT_INTERVAL /\ hasSocket
        /\ ThreadStep("heartbeat", "status") /\ hbAge' = 0
     \/ /\ hbAge <= HEARTBEAT_INTERVAL \/ status = "none"
        /\ ThreadStep("heartbeat", "print") /\ UNCHANGED hbAge
  /\ UNCHANGED <<stop, turn, member>>

\* The status loop of the heartbeat.  It goes by the time read when the heartbeat
\* began, before the lookups for the ping and for the PING_REQs about others.
StatusLoop ==
  /\ ThreadStep("status", "print")
  /\ IF status = "none" THEN UNCHANGED member
     ELSE /\ status' = Visited(status, age - hbAge)
          /\ beats' = IF beats < 2 THEN beats + 1 ELSE beats
          /\ UNCHANGED <<age, quiet>>
  /\ UNCHANGED <<stop, turn, hbAge>>

\* The members are printed when the interval is over; last_printout is the time
\* read before that
Printout ==
  /\ IF printAge > PRINT_INTERVAL
     THEN ThreadStep("print", "show") /\ printAge' = 0
     ELSE ThreadStep("print", "test") /\ UNCHANGED printAge
  /\ UNCHANGED <<stop, recvAge, lookAge, hbAge, member>>

swim_state_print ==
  ThreadStep("show", "test") /\ UNCHANGED <<stop, turn, hbAge, member>>

\* Mutant: no SO_RCVTIMEO
MayBlock_Forever == TRUE

\* recvfrom waits for another second
MayBlock == recvAge < RECV_TIMEOUT

\* A second passes in recvfrom or in a name lookup
Tick ==
  /\ app \notin {"done", "crashed"}
  /\ \/ /\ thread = "recv" /\ MayBlock
        /\ recvAge' = recvAge + 1 /\ UNCHANGED lookAge
     \/ /\ thread \in Lookups /\ lookAge < LOOKUP_TIME
        /\ lookAge' = lookAge + 1 /\ UNCHANGED recvAge
  /\ printAge' = IF printAge > PRINT_INTERVAL THEN printAge ELSE printAge + 1
  /\ hbAge' = Later(hbAge)
  /\ IF status = "none" THEN UNCHANGED <<age, quiet>>
     ELSE age' = Later(age) /\ quiet' = Later(quiet)
  /\ stopAge' = IF stopped THEN Later(stopAge) ELSE stopAge
  /\ UNCHANGED <<app, thread, published, hasSocket, stopped, late, status,
                 beats>>

Main == swim_server_init \/ swim_server_start \/ swim_server_wait

Thread ==
  \/ pthread_server_loop
  \/ swim_server_running
  \/ swim_recv_event
  \/ RecvFails
  \/ swim_process_event
  \/ swim_cluster_heartbeat
  \/ StatusLoop
  \/ Printout
  \/ swim_state_print

Next == Main \/ Thread \/ swim_server_stop \/ Tick

Spec == Init /\ [][Next]_vars

\* The operating system schedules both threads, and time passes.  Nothing is
\* assumed of signals, nor of what recvfrom returns before its timeout; that a
\* name lookup returns is in LOOKUP_TIME.
Fairness == WF_vars(Main) /\ WF_vars(Thread) /\ WF_vars(Tick)

FairSpec == Spec /\ Fairness

------------------------------------------------------------------------------
\* Whatever arrives, and however much, a thread that has members runs a
\* heartbeat at least every MaxGap seconds, printouts and their name lookups
\* included; a first member that is added after a long time alone is met by a
\* heartbeat in the same turn (swim_server_loop, swim_cluster_heartbeat).
HeartbeatInTime ==
  status # "none" /\ thread # "heartbeat" => hbAge <= MaxGap

\* A stop takes effect although the flag is only read between two turns: the
\* thread handles at most one more event, blocks for at most another RECV_TIMEOUT
\* seconds and does the name lookups of one turn (swim_server_stop,
\* swim_server_running).
StopInTime == stopAge <= RECV_TIMEOUT + LOOKUP_TIME /\ late <= 1

\* Completeness in real time: a member that no event speaks of is no longer
\* ALIVE MaxGap seconds after SuspectAfter and DEAD as long after DeadDue,
\* although a heartbeat takes one step of ALIVE, SUSPECT, DEAD at a time, by a
\* time it read before its own lookups, and last_seen may have been old to begin
\* with (swim_cluster_heartbeat).
DetectedInTime ==
  status \notin {"none", "UNKNOWN"} =>
    /\ quiet >= SuspectAfter + MaxGap => status # "ALIVE"
    /\ quiet >= DeadDue + MaxGap => status = "DEAD"

\* A server told to stop stops, whenever in its life the signal comes, and
\* swim_server_wait returns; without a socket, too, when the loop spins.
StopIsObeyed == stopped ~> app \in {"done", "crashed"}

\* "Interval between heartbeats in seconds" (swim/defs.h:10), with a second to
\* spare since time_t counts whole ones.
HeartbeatEverySecond ==
  thread = "recv" /\ status # "none" => hbAge <= HEARTBEAT_INTERVAL + 1
==============================================================================
