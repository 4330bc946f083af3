-------------------------------- MODULE Screen --------------------------------
(***************************************************************************)
(* The text interface of examples/swim_server_tui.c: a window with the     *)
(* members and a window with the last log messages, kept in a ring.        *)
(*                                                                         *)
(* Two threads draw.  The server thread logs (tui_log_sink), and prints    *)
(* the members every few seconds (swim_state_print in swim_server_loop).   *)
(* The main thread, waiting for the server, runs handle_sigwinch when the  *)
(* terminal changes its size.  Nothing keeps them apart: a step is one     *)
(* assignment to what they share, one line of the log, or the list of the  *)
(* members.                                                                *)
(*                                                                         *)
(* The n-th message is the number n, and 0 is a line of the ring that was  *)
(* never written.  A curses call acts on the window there is.              *)
(***************************************************************************)
EXTENDS Integers, Sequences

CONSTANTS
  LOG_RING_SIZE,
  Terminals,      \* heights of the terminal, in lines
  PrintAfter,     \* seconds after which the members are printed anew (5)
  MaxGap,         \* seconds between two turns of the server loop
  MaxMembers,     \* bound: members
  MaxMessages     \* bound: log messages

ASSUME ScreenAssumption ==
  /\ LOG_RING_SIZE \in Nat \ {0} /\ Terminals \subseteq Nat \ 0..4
  /\ {PrintAfter, MaxGap, MaxMembers, MaxMessages} \subseteq Nat

VARIABLES
  log_ring, log_head, log_count,
  sent,        \* messages given to tui_log_sink
  log_win,     \* lines of text in the log window, and its height
  status_win,  \* members listed, members counted as "more", and its height
  view_size,   \* members there are
  at,          \* the next step of each thread
  loc,         \* the variables of the functions the threads are in
  mixed,       \* history: the log window was drawn by both threads at once
  loopAge,     \* seconds since the last turn of the server loop
  last_printout,  \* seconds since the server thread printed
  quiet        \* seconds since a member was added or the terminal resized

vars == <<log_ring, log_head, log_count, sent, log_win, status_win, view_size,
          at, loc, mixed, loopAge, last_printout, quiet>>

ring == <<log_ring, log_head, log_count, sent>>
time == <<loopAge, last_printout, quiet>>

Thread == {"server", "main"}
Other(p) == CHOOSE q \in Thread : q # p
Idle(p) == at[p] = "idle"

MIN(a, b) == IF a < b THEN a ELSE b
MAX(a, b) == IF a > b THEN a ELSE b

Horizon == PrintAfter + MaxGap + 1

\* create_windows: the heights of the two windows
StatusRows(rows) == MAX((rows * 2) \div 5, 4)
EmptyLog(rows) == [text |-> <<>>, rows |-> rows - StatusRows(rows)]
EmptyStatus(rows) == [listed |-> 0, more |-> 0, rows |-> StatusRows(rows)]

NoLocals == [rows |-> 0, start |-> 0, count |-> 0, i |-> 0]

TypeOK ==
  /\ log_ring \in [0..LOG_RING_SIZE-1 -> 0..MaxMessages]
  /\ log_head \in 0..LOG_RING_SIZE-1
  /\ log_count \in 0..LOG_RING_SIZE
  /\ sent \in 0..MaxMessages
  /\ log_win \in [text : Seq(Int), rows : Nat]
  /\ Len(log_win.text) <= MAX(0, log_win.rows - 2)
  /\ status_win \in [listed : Nat, more : Nat, rows : Nat]
  /\ status_win.listed <= status_win.rows - 4
  /\ view_size \in 0..MaxMembers
  /\ at \in [Thread -> {"idle", "written", "moved", "render", "line", "list", "more"}]
  /\ at["main"] \notin {"written", "moved"}
  /\ loc \in [Thread -> [rows : Nat, start : Nat, count : Int, i : Nat]]
  /\ mixed \in BOOLEAN
  /\ loopAge \in 0..MaxGap
  /\ last_printout \in 0..Horizon
  /\ quiet \in 0..Horizon

\* main: windows, callbacks, signals; the server is running and has never
\* printed (last_printout is 0, long ago)
Init ==
  /\ log_ring = [k \in 0..LOG_RING_SIZE-1 |-> 0]
  /\ log_head = 0 /\ log_count = 0 /\ sent = 0
  /\ \E rows \in Terminals :
       log_win = EmptyLog(rows) /\ status_win = EmptyStatus(rows)
  /\ view_size = 0
  /\ at = [p \in Thread |-> "idle"]
  /\ loc = [p \in Thread |-> NoLocals]
  /\ mixed = FALSE
  /\ loopAge = 0 /\ last_printout = Horizon /\ quiet = 0

Go(p, step) == at' = [at EXCEPT ![p] = step]

------------------------------------------------------------------------------
\* render_log

\* The window is erased, and the lines to show are chosen
RenderLog(p) ==
  LET visible == log_win.rows - 2
      start == IF log_count > visible THEN log_count - visible ELSE 0
      count == IF log_count > visible THEN visible ELSE log_count
  IN  /\ at[p] = "render" /\ Go(p, "line")
      /\ log_win' = [log_win EXCEPT !.text = <<>>]
      /\ loc' = [loc EXCEPT ![p].start = start, ![p].count = count, ![p].i = 0]
      /\ mixed' = ~Idle(Other(p))
      /\ UNCHANGED <<ring, status_win, view_size, time>>

\* Mutants: every line is one too late; the oldest line is taken to be in slot 0
Line_OneLate(start, i) ==
  log_ring[(log_head - log_count + start + i + 1 + LOG_RING_SIZE) % LOG_RING_SIZE]
Line_FromZero(start, i) == log_ring[(start + i) % LOG_RING_SIZE]

\* Line i of what is shown, with the head and the count of this moment
Line(start, i) ==
  log_ring[(log_head - log_count + start + i + LOG_RING_SIZE) % LOG_RING_SIZE]

\* The text of a window with line n set; what is beyond it is not shown
SetLine(win, n, msg) ==
  IF n > win.rows - 2 THEN win.text
  ELSE [k \in 1..MAX(n, Len(win.text)) |->
          IF k = n THEN msg ELSE IF k <= Len(win.text) THEN win.text[k] ELSE -1]

RenderLine(p) ==
  /\ at[p] = "line"
  /\ IF loc[p].i < loc[p].count
     THEN /\ log_win' = [log_win EXCEPT !.text =
                 SetLine(log_win, loc[p].i + 1, Line(loc[p].start, loc[p].i))]
          /\ loc' = [loc EXCEPT ![p].i = @ + 1]
          /\ UNCHANGED at
     ELSE Go(p, "idle") /\ UNCHANGED <<log_win, loc>>
  /\ mixed' = (mixed \/ ~Idle(Other(p)))
  /\ UNCHANGED <<ring, status_win, view_size, time>>

------------------------------------------------------------------------------
\* tui_log_sink

WriteMessage ==
  /\ Idle("server") /\ sent < MaxMessages
  /\ log_ring' = [log_ring EXCEPT ![log_head] = sent + 1]
  /\ sent' = sent + 1
  /\ Go("server", "written")
  /\ UNCHANGED <<log_head, log_count, log_win, status_win, view_size, loc,
                 mixed, time>>

\* Mutant: the head runs off the ring
NextHead_NoWrap == log_head + 1

NextHead == (log_head + 1) % LOG_RING_SIZE

MoveHead ==
  /\ at["server"] = "written" /\ Go("server", "moved")
  /\ log_head' = NextHead
  /\ UNCHANGED <<log_ring, log_count, sent, log_win, status_win, view_size, loc,
                 mixed, time>>

CountMessage ==
  /\ at["server"] = "moved" /\ Go("server", "render")
  /\ log_count' = IF log_count < LOG_RING_SIZE THEN log_count + 1 ELSE log_count
  /\ UNCHANGED <<log_ring, log_head, sent, log_win, status_win, view_size, loc,
                 mixed, time>>

------------------------------------------------------------------------------
\* tui_state_print

\* The window is erased and the members are listed
ListMembers(p) ==
  /\ at[p] = "list" /\ Go(p, "more")
  /\ loc' = [loc EXCEPT ![p].rows = status_win.rows]
  /\ status_win' = [status_win EXCEPT
        !.listed = MIN(view_size, status_win.rows - 4), !.more = 0]
  /\ UNCHANGED <<ring, log_win, view_size, mixed, time>>

\* and those beyond the last line are counted
CountMore(p) ==
  /\ at[p] = "more" /\ Go(p, IF p = "main" THEN "render" ELSE "idle")
  /\ status_win' = IF view_size >= loc[p].rows - 4
                   THEN [status_win EXCEPT !.more = view_size - (loc[p].rows - 4)]
                   ELSE status_win
  /\ UNCHANGED <<ring, log_win, view_size, loc, mixed, time>>

------------------------------------------------------------------------------
\* handle_sigwinch: new windows, then both are drawn
handle_sigwinch ==
  /\ Idle("main") /\ Go("main", "list")
  /\ \E rows \in Terminals :
       log_win' = EmptyLog(rows) /\ status_win' = EmptyStatus(rows)
  /\ mixed' = TRUE
  /\ quiet' = 0
  /\ UNCHANGED <<ring, view_size, loc, loopAge, last_printout>>

\* An event adds a member
AddMember ==
  /\ Idle("server") /\ view_size < MaxMembers
  /\ view_size' = view_size + 1
  /\ quiet' = 0
  /\ UNCHANGED <<ring, log_win, status_win, at, loc, mixed, loopAge, last_printout>>

\* Mutant: the time is taken in every turn
EndOfTurn_AlwaysTimed ==
  /\ Idle("server")
  /\ loopAge' = 0 /\ last_printout' = 0
  /\ Go("server", IF last_printout > PrintAfter THEN "list" ELSE "idle")
  /\ UNCHANGED <<ring, log_win, status_win, view_size, loc, mixed, quiet>>

\* The end of a turn of swim_server_loop
EndOfTurn ==
  /\ Idle("server")
  /\ loopAge' = 0
  /\ IF last_printout > PrintAfter
     THEN last_printout' = 0 /\ Go("server", "list")
     ELSE UNCHANGED <<last_printout, at>>
  /\ UNCHANGED <<ring, log_win, status_win, view_size, loc, mixed, quiet>>

\* Time passes, also while a thread draws (it looks up the name of every
\* member it lists), and the server loop turns in time
Tick ==
  /\ loopAge < MaxGap
  /\ loopAge' = loopAge + 1
  /\ last_printout' = MIN(last_printout + 1, Horizon)
  /\ quiet' = MIN(quiet + 1, Horizon)
  /\ UNCHANGED <<ring, log_win, status_win, view_size, at, loc, mixed>>

Server == WriteMessage \/ MoveHead \/ CountMessage \/ AddMember \/ EndOfTurn
Next ==
  \/ Server \/ handle_sigwinch \/ Tick
  \/ \E p \in Thread : RenderLog(p) \/ RenderLine(p) \/ ListMembers(p) \/ CountMore(p)

Spec == Init /\ [][Next]_vars

------------------------------------------------------------------------------
\* However the lines are drawn, by one thread or by both while the ring moves
\* on, no line of the log window shows a part of the ring that holds no
\* message (tui_log_sink writes a line before it moves the head and counts).
NoBlankLine ==
  \A k \in 1..Len(log_win.text) : log_win.text[k] # 0

\* When the log window was drawn by one thread alone, it shows the newest
\* messages, all that fit it and the ring, oldest first, also when the ring
\* has wrapped and after every change of the size (render_log).
LogIsExact ==
  (\A p \in Thread : Idle(p)) /\ ~mixed =>
    LET n == MAX(0, MIN(MIN(sent, LOG_RING_SIZE), log_win.rows - 2))
    IN  log_win.text = [k \in 1..n |-> sent - n + k]

\* When neither the members nor the terminal have changed for the time between
\* two printouts, every member is in the window: listed, or counted as one of
\* "(N more)".  It holds although handle_sigwinch may draw into a window that
\* the server is printing to (swim_server_loop, tui_state_print).
StatusCatchesUp ==
  quiet > PrintAfter + MaxGap /\ (\A p \in Thread : Idle(p)) =>
    status_win.listed + status_win.more = view_size
==============================================================================
