----------------------------- MODULE ScreenProofs -----------------------------
(***************************************************************************)
(* Proofs of the properties of module Screen, for every size of the ring,  *)
(* of the terminal and of the intervals.                                   *)
(***************************************************************************)
EXTENDS Screen, TLAPS

\* Messages in the ring up to the head, and messages counted
Moved == IF at["server"] = "written" THEN sent - 1 ELSE sent
Counted == IF at["server"] \in {"written", "moved"} THEN sent - 1 ELSE sent

\* The ring holds the last messages: before the head those of this lap, from
\* the head on those of the lap before
RingInv ==
  /\ at["server"] \in {"written", "moved"} => sent > 0
  /\ log_count = MIN(Counted, LOG_RING_SIZE)
  /\ log_head <= Moved
  /\ Moved = log_head \/ Moved >= log_head + LOG_RING_SIZE
  /\ \A k \in 0..LOG_RING_SIZE-1 :
       /\ k < log_head => log_ring[k] = Moved - log_head + k + 1
       /\ k = log_head /\ at["server"] = "written" => log_ring[k] = sent
       /\ k >= log_head /\ ~(k = log_head /\ at["server"] = "written")
            /\ Moved >= log_head + LOG_RING_SIZE
          => log_ring[k] = Moved - log_head + k + 1 - LOG_RING_SIZE

\* A thread that draws lines has chosen lines that there are
LinesInv ==
  /\ NoBlankLine
  /\ \A p \in Thread : at[p] = "line" => loc[p].start + loc[p].count <= log_count

\* What a thread that draws alone has drawn so far
Drawing(p) ==
  LET v == log_win.rows - 2
      c == loc[p].count
  IN  /\ c = MIN(log_count, v) /\ loc[p].start = log_count - c
      /\ loc[p].i <= MAX(0, c) /\ Len(log_win.text) = loc[p].i
      /\ \A k \in 1..loc[p].i : log_win.text[k] = sent - c + k

Shown ==
  LET n == MAX(0, MIN(log_count, log_win.rows - 2))
  IN  /\ Len(log_win.text) = n
      /\ \A k \in 1..n : log_win.text[k] = sent - n + k

NotLogging == at["server"] \in {"idle", "list", "more"}

LogInv ==
  ~mixed =>
    /\ at["main"] \in {"idle", "line"}
    /\ at["server"] = "line" => at["main"] = "idle" /\ Drawing("server")
    /\ at["main"] = "line" /\ NotLogging => Drawing("main")
    /\ at["main"] = "idle" /\ NotLogging => Shown

\* The members are in the window, but for the number that a thread has still
\* to add
Listed ==
  /\ status_win.listed = MIN(view_size, status_win.rows - 4)
  /\ status_win.more \in {0, MAX(0, view_size - (status_win.rows - 4))}

\* The printout is at most a turn late, unless the first change is as recent.
\* When nothing changed since it began, the window is right once no thread is
\* drawing; a thread at "more" knows the height of the window.
StatusInv ==
  /\ last_printout <= PrintAfter + loopAge \/ quiet <= loopAge
  /\ at["main"] = "more" => loc["main"].rows = status_win.rows
  /\ quiet > last_printout /\ at["server"] = "more" =>
       loc["server"].rows = status_win.rows /\ Listed
  /\ quiet > last_printout /\ at["server"] \notin {"list", "more"} =>
       IF at["main"] = "more" THEN Listed
       ELSE status_win.listed + status_win.more = view_size

ScreenInv == TypeOK /\ RingInv /\ LinesInv /\ LogInv /\ StatusInv

------------------------------------------------------------------------------
\* What the modulus does in this range
LEMMA Modulus ==
  ASSUME NEW R \in Nat \ {0}
  PROVE  /\ \A x \in 0..R-1 : (x + R) % R = x /\ x % R = x
         /\ \A x \in 0..R-1 : (x + 1) % R = IF x + 1 = R THEN 0 ELSE x + 1
OBVIOUS

LEMMA TypeInit == Init => TypeOK
<1> SUFFICES ASSUME Init PROVE TypeOK
  OBVIOUS
<1>1. PICK rows \in Terminals :
        log_win = EmptyLog(rows) /\ status_win = EmptyStatus(rows)
  BY DEF Init
<1>2. rows \in Nat /\ rows > 4
  BY ScreenAssumption
<1>3. /\ StatusRows(rows) \in Nat /\ StatusRows(rows) >= 4
      /\ rows - StatusRows(rows) \in Nat
  BY <1>2 DEF StatusRows, MAX
<1>4. /\ log_win \in [text : Seq(Int), rows : Nat]
      /\ Len(log_win.text) <= MAX(0, log_win.rows - 2)
  BY <1>1, <1>3 DEF EmptyLog, MAX
<1>5. /\ status_win \in [listed : Nat, more : Nat, rows : Nat]
      /\ status_win.listed <= status_win.rows - 4
  BY <1>1, <1>3 DEF EmptyStatus
<1>6. mixed \in BOOLEAN
  BY Zenon DEF Init
<1>7. /\ at \in [Thread -> {"idle", "written", "moved", "render", "line", "list", "more"}]
      /\ at["main"] = "idle"
      /\ loc \in [Thread -> [rows : Nat, start : Nat, count : Int, i : Nat]]
  BY DEF Init, Thread, NoLocals
<1>8. /\ log_ring \in [0..LOG_RING_SIZE-1 -> 0..MaxMessages]
      /\ log_head \in 0..LOG_RING_SIZE-1 /\ log_count \in 0..LOG_RING_SIZE
      /\ sent \in 0..MaxMessages /\ view_size \in 0..MaxMembers
      /\ loopAge \in 0..MaxGap /\ last_printout \in 0..Horizon /\ quiet \in 0..Horizon
  BY ScreenAssumption DEF Init, Horizon
<1>9. QED BY <1>4, <1>5, <1>6, <1>7, <1>8 DEF TypeOK

\* A window with one more line drawn
LEMMA SetLineFacts ==
  ASSUME NEW win \in [text : Seq(Int), rows : Nat], NEW n \in Nat, n > 0,
         NEW msg \in Int, Len(win.text) <= MAX(0, win.rows - 2)
  PROVE  /\ SetLine(win, n, msg) \in Seq(Int)
         /\ Len(SetLine(win, n, msg)) <= MAX(0, win.rows - 2)
         /\ \A k \in 1..Len(SetLine(win, n, msg)) :
              \/ SetLine(win, n, msg)[k] \in {msg, -1}
              \/ k \in 1..Len(win.text) /\ SetLine(win, n, msg)[k] = win.text[k]
         /\ n <= win.rows - 2 /\ n = Len(win.text) + 1 =>
              /\ Len(SetLine(win, n, msg)) = n /\ SetLine(win, n, msg)[n] = msg
              /\ \A k \in 1..n-1 : SetLine(win, n, msg)[k] = win.text[k]
<1> DEFINE t == SetLine(win, n, msg)
           L == Len(win.text)
           m == MAX(n, L)
<1>1. /\ win.text \in Seq(Int) /\ L \in Nat /\ win.rows \in Nat
      /\ \A k \in 1..L : win.text[k] \in Int
  OBVIOUS
<1>2. CASE n > win.rows - 2
  BY <1>1, <1>2 DEF SetLine, MAX
<1>3. CASE ~(n > win.rows - 2)
  <2>1. t = [k \in 1..m |-> IF k = n THEN msg
                            ELSE IF k <= L THEN win.text[k] ELSE -1]
    BY <1>3 DEF SetLine
  <2>2. m \in Nat /\ n <= m /\ L <= m /\ m <= MAX(0, win.rows - 2)
        /\ (n = L + 1 => m = n)
    BY <1>1, <1>3 DEF MAX
  <2> HIDE DEF m, L, t
  <2>3. \A k \in 1..m : /\ t[k] = IF k = n THEN msg
                                 ELSE IF k <= L THEN win.text[k] ELSE -1
                        /\ t[k] \in Int
    BY <1>1, <2>1
  <2>4. t \in Seq(Int) /\ Len(t) = m
    <3>1. t \in [1..m -> Int]
      BY <2>1, <2>3
    <3>2. QED BY <2>1, <2>2, <3>1
  <2>5. \A k \in 1..m : t[k] \in {msg, -1} \/ (k \in 1..L /\ t[k] = win.text[k])
    BY <1>1, <2>2, <2>3
  <2>6. n <= win.rows - 2 /\ n = L + 1 =>
          m = n /\ t[n] = msg /\ \A k \in 1..n-1 : t[k] = win.text[k]
    BY <1>1, <2>2, <2>3
  <2>7. QED BY <2>2, <2>4, <2>5, <2>6 DEF t, L
<1>4. QED BY <1>2, <1>3

\* The line that is drawn: a message, and while nothing is being logged the one
\* that is wanted
LEMMA LineFacts ==
  ASSUME TypeOK, RingInv, NEW start \in Nat, NEW i \in Nat, start + i < log_count
  PROVE  /\ Line(start, i) \in Nat \ {0}
         /\ at["server"] \notin {"written", "moved"} =>
              Line(start, i) = sent - log_count + start + i + 1
<1> DEFINE R == LOG_RING_SIZE
           x == log_head - log_count + start + i
<1>1. /\ R \in Nat \ {0} /\ log_head \in 0..R-1 /\ log_count \in 0..R
      /\ sent \in Nat /\ Moved \in Int /\ Counted \in Int
      /\ Counted <= Moved /\ x \in Int /\ x < log_head
  <2>1. /\ R \in Nat \ {0} /\ log_head \in 0..R-1 /\ log_count \in 0..R
        /\ sent \in Nat
    BY ScreenAssumption DEF TypeOK
  <2>2. Moved \in Int /\ Counted \in Int /\ Counted <= Moved
    BY <2>1 DEF Moved, Counted
  <2>3. x \in Int /\ x < log_head
    BY <2>1
  <2>4. QED BY <2>1, <2>2, <2>3
<1>2. /\ log_count = MIN(Counted, R) /\ log_head <= Moved
      /\ Moved = log_head \/ Moved >= log_head + R
  BY DEF RingInv
<1>3. CASE x >= 0
  <2>1. x \in 0..R-1 /\ (x + R) % R = x
    BY <1>1, <1>3, Modulus
  <2>2. Line(start, i) = log_ring[x]
    BY <2>1 DEF Line
  <2>3. log_ring[x] = Moved - log_head + x + 1
    BY <1>1, <2>1 DEF RingInv
  <2> HIDE DEF x
  <2>4. Line(start, i) \in Nat \ {0}
    BY <1>1, <1>2, <1>3, <2>2, <2>3
  <2>5. at["server"] \notin {"written", "moved"} => Moved = sent
    BY DEF Moved
  <2>6. QED BY <1>1, <2>2, <2>3, <2>4, <2>5 DEF x
<1>4. CASE x < 0
  <2>1. x + R \in 0..R-1 /\ (x + R) % R = x + R /\ x + R >= log_head
    <3>1. x + R \in 0..R-1 /\ x + R >= log_head
      BY <1>1, <1>4
    <3>2. QED BY <1>1, <3>1, Modulus
  <2>2. Line(start, i) = log_ring[x + R]
    BY <2>1 DEF Line
  <2>3. Moved >= log_head + R
    BY <1>1, <1>2, <1>4 DEF MIN
  <2>4. \/ x + R = log_head /\ at["server"] = "written" /\ log_ring[x + R] = sent
        \/ log_ring[x + R] = Moved - log_head + (x + R) + 1 - R
    BY <1>1, <2>1, <2>3 DEF RingInv
  <2> HIDE DEF x
  <2>5. at["server"] = "written" => sent > 0
    BY DEF RingInv
  <2>6. Line(start, i) \in Nat \ {0}
    BY <1>1, <2>1, <2>2, <2>3, <2>4, <2>5
  <2>7. at["server"] \notin {"written", "moved"} => Moved = sent
    BY DEF Moved
  <2>8. QED BY <1>1, <2>2, <2>4, <2>6, <2>7 DEF x
<1>5. QED BY <1>1, <1>3, <1>4

\* New windows have their type
LEMMA WindowFacts ==
  ASSUME NEW rows \in Terminals
  PROVE  /\ EmptyLog(rows) \in [text : Seq(Int), rows : Nat]
         /\ EmptyLog(rows).text = <<>>
         /\ EmptyStatus(rows) \in [listed : Nat, more : Nat, rows : Nat]
         /\ EmptyStatus(rows).listed <= EmptyStatus(rows).rows - 4
<1>1. rows \in Nat /\ rows > 4
  BY ScreenAssumption
<1>2. /\ StatusRows(rows) \in Nat /\ StatusRows(rows) >= 4
      /\ rows - StatusRows(rows) \in Nat
  BY <1>1 DEF StatusRows, MAX
<1>3. QED BY <1>2 DEF EmptyLog, EmptyStatus

\* Threads are two
LEMMA Threads ==
  /\ \A p \in Thread : p = "server" \/ p = "main"
  /\ Other("server") = "main" /\ Other("main") = "server"
  /\ "server" \in Thread /\ "main" \in Thread /\ "server" # "main"
<1>1. \A p \in Thread : p = "server" \/ p = "main"
  BY DEF Thread
<1>2. "server" \in Thread /\ "main" \in Thread /\ "server" # "main"
  BY DEF Thread
<1>3. Other("server") = "main" /\ Other("main") = "server"
  BY <1>1, <1>2 DEF Other
<1>4. QED BY <1>1, <1>2, <1>3

------------------------------------------------------------------------------
\* The steps, one by one
LEMMA Steps ==
  Next => \/ WriteMessage \/ MoveHead \/ CountMessage \/ AddMember \/ EndOfTurn
          \/ handle_sigwinch \/ Tick
          \/ \E p \in Thread : RenderLog(p)
          \/ \E p \in Thread : RenderLine(p)
          \/ \E p \in Thread : ListMembers(p)
          \/ \E p \in Thread : CountMore(p)
BY DEF Next, Server

\* "mixed" stays Boolean: a step of its own, as the other parts need arithmetic
LEMMA MixedStep ==
  ASSUME mixed \in BOOLEAN, [Next]_vars
  PROVE  mixed' \in BOOLEAN
<1>1. CASE WriteMessage \/ MoveHead \/ CountMessage \/ AddMember \/ EndOfTurn \/ Tick
  <2>1. mixed' = mixed
    BY <1>1 DEF WriteMessage, MoveHead, CountMessage, AddMember, EndOfTurn, Tick
  <2>2. QED BY <2>1, Zenon
<1>2. CASE handle_sigwinch
  BY <1>2, Zenon DEF handle_sigwinch
<1>3. ASSUME NEW p \in Thread, RenderLog(p) PROVE mixed' \in BOOLEAN
  <2>1. mixed' = ~Idle(Other(p))
    BY <1>3, Zenon DEF RenderLog
  <2>2. QED BY <2>1, Zenon
<1>4. ASSUME NEW p \in Thread, RenderLine(p) PROVE mixed' \in BOOLEAN
  <2>1. mixed' = (mixed \/ ~Idle(Other(p)))
    BY <1>4, Zenon DEF RenderLine
  <2>2. QED BY <2>1, Zenon
<1>5. ASSUME NEW p \in Thread, ListMembers(p) \/ CountMore(p)
      PROVE  mixed' \in BOOLEAN
  <2>1. mixed' = mixed
    BY <1>5 DEF ListMembers, CountMore
  <2>2. QED BY <2>1, Zenon
<1>6. CASE UNCHANGED vars
  <2>1. mixed' = mixed
    BY <1>6 DEF vars
  <2>2. QED BY <2>1, Zenon
<1>7. QED BY <1>1, <1>2, <1>3, <1>4, <1>5, <1>6, Steps

\* Which steps change what
LEMMA Frames ==
  ASSUME [Next]_vars
  PROVE  /\ UNCHANGED ring \/ WriteMessage \/ MoveHead \/ CountMessage
         /\ \/ UNCHANGED log_win \/ handle_sigwinch
            \/ \E p \in Thread : RenderLog(p) \/ RenderLine(p)
         /\ \/ UNCHANGED <<status_win, view_size>> \/ handle_sigwinch \/ AddMember
            \/ \E p \in Thread : ListMembers(p) \/ CountMore(p)
         /\ \/ UNCHANGED loc
            \/ \E p \in Thread : RenderLog(p) \/ RenderLine(p) \/ ListMembers(p)
         /\ \/ UNCHANGED time \/ handle_sigwinch \/ AddMember \/ EndOfTurn \/ Tick
<1>1. CASE WriteMessage \/ MoveHead \/ CountMessage
  BY <1>1 DEF WriteMessage, MoveHead, CountMessage
<1>2. CASE AddMember \/ EndOfTurn \/ Tick
  BY <1>2 DEF AddMember, EndOfTurn, Tick
<1>3. CASE handle_sigwinch
  BY <1>3 DEF handle_sigwinch
<1>4. ASSUME NEW p \in Thread, RenderLog(p) \/ RenderLine(p)
      PROVE  UNCHANGED ring /\ UNCHANGED <<status_win, view_size>> /\ UNCHANGED time
  BY <1>4 DEF RenderLog, RenderLine
<1>5. ASSUME NEW p \in Thread, ListMembers(p) \/ CountMore(p)
      PROVE  /\ UNCHANGED ring /\ UNCHANGED log_win /\ UNCHANGED time
             /\ UNCHANGED loc \/ ListMembers(p)
  BY <1>5 DEF ListMembers, CountMore
<1>6. CASE UNCHANGED vars
  BY <1>6 DEF vars, ring, time
<1>7. QED BY <1>1, <1>2, <1>3, <1>4, <1>5, <1>6, Steps

Step == {"idle", "written", "moved", "render", "line", "list", "more"}

\* The types, in groups
RingType ==
  /\ log_ring \in [0..LOG_RING_SIZE-1 -> 0..MaxMessages]
  /\ log_head \in 0..LOG_RING_SIZE-1
  /\ log_count \in 0..LOG_RING_SIZE
  /\ sent \in 0..MaxMessages
WinType ==
  /\ log_win \in [text : Seq(Int), rows : Nat]
  /\ Len(log_win.text) <= MAX(0, log_win.rows - 2)
StatusType ==
  /\ status_win \in [listed : Nat, more : Nat, rows : Nat]
  /\ status_win.listed <= status_win.rows - 4
  /\ view_size \in 0..MaxMembers
AtType == at \in [Thread -> Step] /\ at["main"] \notin {"written", "moved"}
LocType == loc \in [Thread -> [rows : Nat, start : Nat, count : Int, i : Nat]]
TimeType ==
  loopAge \in 0..MaxGap /\ last_printout \in 0..Horizon /\ quiet \in 0..Horizon

LEMMA TypeGroups ==
  TypeOK <=> /\ RingType /\ WinType /\ StatusType /\ AtType /\ LocType /\ TimeType
             /\ mixed \in BOOLEAN
BY Zenon DEF TypeOK, RingType, WinType, StatusType, AtType, LocType, TimeType, Step

LEMMA Numbers ==
  /\ LOG_RING_SIZE \in Nat \ {0} /\ MaxMessages \in Nat /\ MaxGap \in Nat
  /\ PrintAfter \in Nat /\ MaxMembers \in Nat /\ Horizon = PrintAfter + MaxGap + 1
  /\ Horizon \in Nat
BY ScreenAssumption DEF Horizon

\* The program counters of the two threads after a step
LEMMA AtStep ==
  ASSUME AtType, [Next]_vars
  PROVE  AtType'
<1>1. CASE WriteMessage \/ MoveHead \/ CountMessage \/ handle_sigwinch
  BY <1>1, Threads DEF WriteMessage, MoveHead, CountMessage, handle_sigwinch, Go,
                       AtType, Step
<1>2. CASE EndOfTurn
  BY <1>2, Threads DEF EndOfTurn, Go, AtType, Step
<1>3. CASE AddMember \/ Tick \/ UNCHANGED vars
  BY <1>3 DEF AddMember, Tick, vars, AtType
<1>4. ASSUME NEW p \in Thread, NEW x \in {"idle", "line", "more", "render"},
             at' = [at EXCEPT ![p] = x]
      PROVE  AtType'
  BY <1>4, Threads DEF AtType, Step
<1>5. ASSUME NEW p \in Thread, RenderLog(p) \/ RenderLine(p)
      PROVE  AtType'
  <2>1. at' = at \/ at' = [at EXCEPT ![p] = "line"] \/ at' = [at EXCEPT ![p] = "idle"]
    BY <1>5 DEF RenderLog, RenderLine, Go
  <2>2. QED BY <1>4, <2>1 DEF AtType
<1>6. ASSUME NEW p \in Thread, ListMembers(p) \/ CountMore(p)
      PROVE  AtType'
  <2>1. \E x \in {"idle", "render", "more"} : at' = [at EXCEPT ![p] = x]
    BY <1>6 DEF ListMembers, CountMore, Go
  <2>2. QED BY <1>4, <2>1
<1>7. QED BY <1>1, <1>2, <1>3, <1>5, <1>6, Steps

LEMMA RingTypeStep ==
  ASSUME RingType, [Next]_vars
  PROVE  RingType'
<1>1. CASE UNCHANGED ring
  BY <1>1 DEF ring, RingType
<1>2. CASE WriteMessage
  BY <1>2, Numbers DEF WriteMessage, RingType
<1>3. CASE MoveHead
  <2>1. NextHead \in 0..LOG_RING_SIZE-1
    BY Numbers, Modulus DEF NextHead, RingType
  <2>2. QED BY <1>3, <2>1 DEF MoveHead, RingType
<1>4. CASE CountMessage
  BY <1>4, Numbers DEF CountMessage, RingType
<1>5. QED BY <1>1, <1>2, <1>3, <1>4, Frames

LEMMA TimeTypeStep ==
  ASSUME TimeType, [Next]_vars
  PROVE  TimeType'
<1>1. CASE UNCHANGED time
  BY <1>1 DEF time, TimeType
<1>2. CASE handle_sigwinch \/ AddMember \/ EndOfTurn
  BY <1>2, Numbers DEF handle_sigwinch, AddMember, EndOfTurn, TimeType
<1>3. CASE Tick
  BY <1>3, Numbers DEF Tick, TimeType, MIN
<1>4. QED BY <1>1, <1>2, <1>3, Frames

LEMMA LocTypeStep ==
  ASSUME LocType, RingType, WinType, StatusType, [Next]_vars
  PROVE  LocType'
<1>1. CASE UNCHANGED loc
  BY <1>1 DEF LocType
<1>2. ASSUME NEW p \in Thread, RenderLog(p) PROVE LocType'
  <2>1. PICK start \in Nat, count \in Int :
          loc' = [loc EXCEPT ![p].start = start, ![p].count = count, ![p].i = 0]
    <3>1. log_win.rows \in Nat /\ log_count \in Nat
      BY Numbers DEF WinType, RingType
    <3> DEFINE visible == log_win.rows - 2
               s == IF log_count > visible THEN log_count - visible ELSE 0
               c == IF log_count > visible THEN visible ELSE log_count
    <3>2. loc' = [loc EXCEPT ![p].start = s, ![p].count = c, ![p].i = 0]
      BY <1>2 DEF RenderLog
    <3>3. s \in Nat /\ c \in Int
      BY <3>1
    <3> HIDE DEF s, c
    <3>4. QED BY <3>2, <3>3
  <2>2. QED BY <2>1 DEF LocType
<1>3. ASSUME NEW p \in Thread, RenderLine(p) PROVE LocType'
  <2>1. loc' = loc \/ loc' = [loc EXCEPT ![p].i = @ + 1]
    BY <1>3 DEF RenderLine
  <2>2. QED BY <2>1 DEF LocType
<1>4. ASSUME NEW p \in Thread, ListMembers(p) PROVE LocType'
  <2>1. loc' = [loc EXCEPT ![p].rows = status_win.rows] /\ status_win.rows \in Nat
    BY <1>4 DEF ListMembers, StatusType
  <2>2. QED BY <2>1 DEF LocType
<1>5. QED BY <1>1, <1>2, <1>3, <1>4, Frames

LEMMA StatusTypeStep ==
  ASSUME StatusType, LocType, [Next]_vars
  PROVE  StatusType'
<1>1. CASE UNCHANGED <<status_win, view_size>>
  BY <1>1 DEF StatusType
<1>2. CASE handle_sigwinch
  <2>1. PICK rows \in Terminals : status_win' = EmptyStatus(rows)
    BY <1>2 DEF handle_sigwinch
  <2>2. view_size' = view_size
    BY <1>2 DEF handle_sigwinch
  <2>3. QED BY <2>1, <2>2, WindowFacts DEF StatusType
<1>3. CASE AddMember
  BY <1>3, Numbers DEF AddMember, StatusType
<1>4. ASSUME NEW p \in Thread, ListMembers(p) PROVE StatusType'
  <2>1. /\ status_win.rows \in Nat /\ status_win.rows >= 4 /\ view_size \in Nat
        /\ status_win \in [listed : Nat, more : Nat, rows : Nat]
    BY Numbers DEF StatusType
  <2>2. PICK n \in Nat : n = MIN(view_size, status_win.rows - 4)
    BY <2>1 DEF MIN
  <2>3. n <= status_win.rows - 4
    BY <2>1, <2>2 DEF MIN
  <2>4. status_win' = [status_win EXCEPT !.listed = n, !.more = 0]
        /\ view_size' = view_size
    BY <1>4, <2>2 DEF ListMembers
  <2>5. QED BY <2>1, <2>3, <2>4 DEF StatusType
<1>5. ASSUME NEW p \in Thread, CountMore(p) PROVE StatusType'
  <2>1. loc[p].rows \in Nat /\ view_size \in Nat
    BY Numbers DEF LocType, StatusType
  <2>2. QED BY <1>5, <2>1 DEF CountMore, StatusType
<1>6. QED BY <1>1, <1>2, <1>3, <1>4, <1>5, Frames

\* A line drawn, and what the window is then
LEMMA DrawnLine ==
  ASSUME TypeOK, RingInv, LinesInv, NEW p \in Thread, RenderLine(p),
         loc[p].i < loc[p].count
  PROVE  /\ loc[p].i \in Nat /\ loc[p].start \in Nat /\ loc[p].count \in Int
         /\ loc[p].start + loc[p].i < log_count /\ at' = at
         /\ loc' = [loc EXCEPT ![p].i = @ + 1] /\ log_win'.rows = log_win.rows
         /\ log_win'.text =
              SetLine(log_win, loc[p].i + 1, Line(loc[p].start, loc[p].i))
         /\ log_win' \in [text : Seq(Int), rows : Nat]
         /\ Len(log_win'.text) <= MAX(0, log_win'.rows - 2)
         /\ Line(loc[p].start, loc[p].i) \in Nat \ {0}
<1>0. RingType /\ WinType /\ LocType
  BY TypeGroups
<1>1. /\ log_win' = [log_win EXCEPT !.text =
            SetLine(log_win, loc[p].i + 1, Line(loc[p].start, loc[p].i))]
      /\ loc' = [loc EXCEPT ![p].i = @ + 1] /\ at' = at /\ at[p] = "line"
  BY DEF RenderLine
<1>2. loc[p].i \in Nat /\ loc[p].start \in Nat /\ loc[p].count \in Int
      /\ log_count \in Int
  BY <1>0, Numbers DEF LocType, RingType
<1>3. loc[p].start + loc[p].i < log_count
  BY <1>1, <1>2 DEF LinesInv
<1>4. Line(loc[p].start, loc[p].i) \in Nat \ {0}
  BY <1>2, <1>3, LineFacts
<1>5. /\ SetLine(log_win, loc[p].i + 1, Line(loc[p].start, loc[p].i)) \in Seq(Int)
      /\ Len(SetLine(log_win, loc[p].i + 1, Line(loc[p].start, loc[p].i)))
           <= MAX(0, log_win.rows - 2)
  <2> DEFINE n == loc[p].i + 1
             msg == Line(loc[p].start, loc[p].i)
  <2>1. /\ log_win \in [text : Seq(Int), rows : Nat]
        /\ Len(log_win.text) <= MAX(0, log_win.rows - 2)
    BY <1>0 DEF WinType
  <2>2. n \in Nat /\ n > 0 /\ msg \in Int
    BY <1>2, <1>4
  <2> HIDE DEF n, msg
  <2>3. /\ SetLine(log_win, n, msg) \in Seq(Int)
        /\ Len(SetLine(log_win, n, msg)) <= MAX(0, log_win.rows - 2)
    BY <2>1, <2>2, SetLineFacts, ZenonT(90)
  <2>4. QED BY <2>3 DEF n, msg
<1>6. log_win \in [text : Seq(Int), rows : Nat]
  BY <1>0 DEF WinType
<1>7. /\ log_win' \in [text : Seq(Int), rows : Nat]
      /\ Len(log_win'.text) <= MAX(0, log_win'.rows - 2)
      /\ log_win'.rows = log_win.rows
      /\ log_win'.text = SetLine(log_win, loc[p].i + 1, Line(loc[p].start, loc[p].i))
  BY <1>1, <1>5, <1>6
<1>8. QED BY <1>1, <1>2, <1>3, <1>4, <1>7

LEMMA WinTypeStep ==
  ASSUME TypeOK, RingInv, LinesInv, [Next]_vars
  PROVE  WinType'
<1>0. WinType
  BY TypeGroups
<1>1. CASE UNCHANGED log_win
  BY <1>0, <1>1 DEF WinType
<1>2. CASE handle_sigwinch
  <2>1. PICK rows \in Terminals : log_win' = EmptyLog(rows)
    BY <1>2 DEF handle_sigwinch
  <2>2. QED BY <2>1, WindowFacts DEF WinType, MAX
<1>3. ASSUME NEW p \in Thread, RenderLog(p) PROVE WinType'
  <2>1. log_win' = [log_win EXCEPT !.text = <<>>]
    BY <1>3 DEF RenderLog
  <2>2. log_win' \in [text : Seq(Int), rows : Nat] /\ log_win'.text = <<>>
    <3>0. <<>> \in Seq(Int)
      OBVIOUS
    <3>1. PICK e \in Seq(Int) : e = <<>>
      BY <3>0, Zenon
    <3>2. log_win' = [log_win EXCEPT !.text = e]
      BY <2>1, <3>1
    <3>3. log_win' \in [text : Seq(Int), rows : Nat] /\ log_win'.text = e
      BY <1>0, <3>2 DEF WinType
    <3>4. QED BY <3>1, <3>3
  <2>3. QED BY <2>2 DEF WinType, MAX
<1>4. ASSUME NEW p \in Thread, RenderLine(p) PROVE WinType'
  <2>1. CASE loc[p].i < loc[p].count
    BY <1>4, <2>1, DrawnLine DEF WinType
  <2>2. CASE ~(loc[p].i < loc[p].count)
    BY <1>0, <1>4, <2>2 DEF RenderLine, WinType
  <2>3. QED BY <2>1, <2>2
<1>5. QED BY <1>1, <1>2, <1>3, <1>4, Frames

LEMMA TypeStep ==
  ASSUME TypeOK, RingInv, LinesInv, [Next]_vars
  PROVE  TypeOK'
<1>1. /\ RingType /\ WinType /\ StatusType /\ AtType /\ LocType /\ TimeType
      /\ mixed \in BOOLEAN
  BY TypeGroups
<1>2. RingType' /\ StatusType' /\ AtType' /\ LocType' /\ TimeType'
  BY <1>1, RingTypeStep, StatusTypeStep, AtStep, LocTypeStep, TimeTypeStep
<1>3. WinType'
  BY WinTypeStep
<1>4. mixed' \in BOOLEAN
  BY <1>1, MixedStep
<1>5. QED BY <1>2, <1>3, <1>4, Zenon DEF TypeOK, RingType, WinType, StatusType,
             AtType, LocType, TimeType, Step

------------------------------------------------------------------------------
\* A step that is none of tui_log_sink's leaves the server inside or outside it
LEMMA OtherSteps ==
  ASSUME AtType, [Next]_vars, ~WriteMessage, ~MoveHead, ~CountMessage
  PROVE  /\ UNCHANGED ring
         /\ at'["server"] = "written" <=> at["server"] = "written"
         /\ at'["server"] = "moved" <=> at["server"] = "moved"
<1>1. UNCHANGED ring
  BY Frames
<1>2. CASE AddMember \/ EndOfTurn \/ handle_sigwinch \/ Tick \/ UNCHANGED vars
  BY <1>1, <1>2, Threads DEF AddMember, EndOfTurn, handle_sigwinch, Tick, vars, Go,
                             AtType, Idle
<1>3. ASSUME NEW p \in Thread, RenderLog(p) \/ RenderLine(p)
      PROVE  /\ at'["server"] = "written" <=> at["server"] = "written"
             /\ at'["server"] = "moved" <=> at["server"] = "moved"
  BY <1>3, Threads DEF RenderLog, RenderLine, Go, AtType
<1>4. ASSUME NEW p \in Thread, ListMembers(p) \/ CountMore(p)
      PROVE  /\ at'["server"] = "written" <=> at["server"] = "written"
             /\ at'["server"] = "moved" <=> at["server"] = "moved"
  BY <1>4, Threads DEF ListMembers, CountMore, Go, AtType
<1>5. QED BY <1>1, <1>2, <1>3, <1>4, Steps

LEMMA RingStep ==
  ASSUME TypeOK, RingInv, [Next]_vars
  PROVE  RingInv'
<1> DEFINE R == LOG_RING_SIZE
<1>0. /\ AtType /\ R \in Nat \ {0} /\ log_head \in 0..R-1 /\ log_count \in 0..R
      /\ sent \in Nat /\ log_ring \in [0..R-1 -> 0..MaxMessages]
  BY TypeGroups, Numbers DEF RingType
<1>1. CASE ~WriteMessage /\ ~MoveHead /\ ~CountMessage
  <2>1. /\ UNCHANGED ring
        /\ at'["server"] = "written" <=> at["server"] = "written"
        /\ at'["server"] = "moved" <=> at["server"] = "moved"
    BY <1>0, <1>1, OtherSteps
  <2>2. Moved' = Moved /\ Counted' = Counted
    BY <2>1 DEF Moved, Counted, ring
  <2>3. QED BY <2>1, <2>2 DEF RingInv, ring
<1>2. CASE WriteMessage
  <2>1. /\ at["server"] = "idle" /\ at'["server"] = "written" /\ sent' = sent + 1
        /\ log_ring' = [log_ring EXCEPT ![log_head] = sent + 1]
        /\ log_head' = log_head /\ log_count' = log_count
    BY <1>0, <1>2, Threads DEF WriteMessage, Idle, Go, AtType
  <2>2. Moved = sent /\ Counted = sent /\ Moved' = sent /\ Counted' = sent
    BY <1>0, <2>1 DEF Moved, Counted
  <2>3. \A k \in 0..R-1 : log_ring'[k] = IF k = log_head THEN sent + 1 ELSE log_ring[k]
    BY <1>0, <2>1
  <2>4. QED BY <1>0, <2>1, <2>2, <2>3 DEF RingInv
<1>3. CASE MoveHead
  <2>1. /\ at["server"] = "written" /\ at'["server"] = "moved" /\ sent' = sent
        /\ log_ring' = log_ring /\ log_count' = log_count
        /\ log_head' = IF log_head + 1 = R THEN 0 ELSE log_head + 1
    BY <1>0, <1>3, Threads, Modulus DEF MoveHead, Go, AtType, NextHead
  <2>2. /\ Moved = sent - 1 /\ Counted = sent - 1 /\ sent > 0
        /\ Moved' = sent /\ Counted' = sent - 1
    BY <1>0, <2>1 DEF Moved, Counted, RingInv
  <2>3. CASE log_head + 1 = R
    <3>1. /\ log_head' <= Moved' /\ Moved' >= log_head' + R
          /\ Moved' = log_head' \/ Moved' >= log_head' + R
      BY <1>0, <2>1, <2>2, <2>3 DEF RingInv
    <3>2. ASSUME NEW k \in 0..R-1
          PROVE  log_ring[k] = Moved' - log_head' + k + 1 - R
      <4>0. log_head' = 0
        BY <2>1, <2>3
      <4>1. CASE k = log_head
        <5>1. log_ring[k] = sent
          BY <2>1, <4>1 DEF RingInv
        <5>2. QED BY <1>0, <2>2, <2>3, <4>0, <4>1, <5>1
      <4>2. CASE k # log_head
        <5>1. k < log_head
          BY <1>0, <2>3, <4>2
        <5>2. log_ring[k] = Moved - log_head + k + 1
          BY <5>1 DEF RingInv
        <5>3. QED BY <1>0, <2>2, <2>3, <4>0, <5>2
      <4>3. QED BY <4>1, <4>2
    <3>3. log_head' = 0
      BY <2>1, <2>3
    <3>4. QED BY <1>0, <2>1, <2>2, <3>1, <3>2, <3>3 DEF RingInv
  <2>4. CASE log_head + 1 # R
    <3>0. log_head' = log_head + 1
      BY <2>1, <2>4
    <3>1. log_head' <= Moved' /\ (Moved' = log_head' \/ Moved' >= log_head' + R)
      BY <1>0, <2>2, <3>0 DEF RingInv
    <3>2. ASSUME NEW k \in 0..R-1
          PROVE  /\ k < log_head' => log_ring[k] = Moved' - log_head' + k + 1
                 /\ k >= log_head' /\ Moved' >= log_head' + R
                    => log_ring[k] = Moved' - log_head' + k + 1 - R
      <4>1. k = log_head => log_ring[k] = sent
        BY <2>1 DEF RingInv
      <4>2. k < log_head => log_ring[k] = Moved - log_head + k + 1
        BY DEF RingInv
      <4>3. k > log_head /\ Moved >= log_head + R
              => log_ring[k] = Moved - log_head + k + 1 - R
        BY <1>0 DEF RingInv
      <4>4. QED BY <1>0, <2>2, <3>0, <4>1, <4>2, <4>3
    <3>3. QED BY <1>0, <2>1, <2>2, <3>1, <3>2 DEF RingInv
  <2>5. QED BY <2>3, <2>4
<1>4. CASE CountMessage
  <2>1. /\ at["server"] = "moved" /\ at'["server"] = "render" /\ sent' = sent
        /\ log_ring' = log_ring /\ log_head' = log_head
        /\ log_count' = IF log_count < R THEN log_count + 1 ELSE log_count
    BY <1>0, <1>4, Threads DEF CountMessage, Go, AtType
  <2>2. /\ Moved = sent /\ Counted = sent - 1 /\ sent > 0
        /\ Moved' = sent /\ Counted' = sent
    BY <1>0, <2>1 DEF Moved, Counted, RingInv
  <2>3. log_count' = MIN(Counted', R)
    BY <1>0, <2>1, <2>2 DEF RingInv, MIN
  <2>4. QED BY <1>0, <2>1, <2>2, <2>3 DEF RingInv
<1>5. QED BY <1>1, <1>2, <1>3, <1>4

------------------------------------------------------------------------------
\* The count never goes back
LEMMA CountGrows ==
  ASSUME TypeOK, [Next]_vars
  PROVE  log_count' >= log_count /\ log_count \in Nat /\ log_count' \in Nat
<1>1. RingType
  BY TypeGroups
<1>2. log_count \in Nat
  BY <1>1, Numbers DEF RingType
<1>3. log_count' = log_count \/ CountMessage
  BY Frames DEF ring, WriteMessage, MoveHead
<1>4. QED BY <1>2, <1>3 DEF CountMessage

LEMMA LinesStep ==
  ASSUME TypeOK, RingInv, LinesInv, [Next]_vars
  PROVE  LinesInv'
<1>0. RingType /\ WinType /\ AtType /\ LocType
  BY TypeGroups
<1>1. NoBlankLine'
  <2>1. CASE UNCHANGED log_win
    BY <2>1 DEF LinesInv, NoBlankLine
  <2>2. CASE handle_sigwinch
    <3>1. PICK rows \in Terminals : log_win' = EmptyLog(rows)
      BY <2>2 DEF handle_sigwinch
    <3>2. QED BY <3>1, WindowFacts DEF NoBlankLine
  <2>3. ASSUME NEW p \in Thread, RenderLog(p) PROVE NoBlankLine'
    <3>1. log_win' = [log_win EXCEPT !.text = <<>>]
      BY <2>3 DEF RenderLog
    <3>2. log_win'.text = <<>>
      BY <1>0, <3>1 DEF WinType
    <3>3. QED BY <3>2 DEF NoBlankLine
  <2>4. ASSUME NEW p \in Thread, RenderLine(p) PROVE NoBlankLine'
    <3>1. CASE loc[p].i < loc[p].count
      <4> DEFINE msg == Line(loc[p].start, loc[p].i)
      <4>1. /\ loc[p].i \in Nat /\ msg \in Nat \ {0}
            /\ log_win'.text = SetLine(log_win, loc[p].i + 1, msg)
        BY <2>4, <3>1, DrawnLine
      <4> HIDE DEF msg
      <4>2. \A k \in 1..Len(log_win'.text) :
              \/ log_win'.text[k] \in {msg, -1}
              \/ k \in 1..Len(log_win.text) /\ log_win'.text[k] = log_win.text[k]
        <5>1. PICK n \in Nat : n = loc[p].i + 1 /\ n > 0
          BY <4>1
        <5>2. /\ log_win \in [text : Seq(Int), rows : Nat] /\ msg \in Int
              /\ Len(log_win.text) <= MAX(0, log_win.rows - 2)
          BY <1>0, <4>1 DEF WinType
        <5>3. \A k \in 1..Len(SetLine(log_win, n, msg)) :
                \/ SetLine(log_win, n, msg)[k] \in {msg, -1}
                \/ /\ k \in 1..Len(log_win.text)
                   /\ SetLine(log_win, n, msg)[k] = log_win.text[k]
          BY <5>1, <5>2, SetLineFacts, ZenonT(90)
        <5>4. QED BY <4>1, <5>1, <5>3
      <4>3. QED BY <4>1, <4>2 DEF LinesInv, NoBlankLine
    <3>2. CASE ~(loc[p].i < loc[p].count)
      BY <2>4, <3>2 DEF RenderLine, LinesInv, NoBlankLine
    <3>3. QED BY <3>1, <3>2
  <2>5. QED BY <2>1, <2>2, <2>3, <2>4, Frames
<1>2. ASSUME NEW q \in Thread, at'[q] = "line"
      PROVE  loc'[q].start + loc'[q].count <= log_count'
  <2>0. log_count' >= log_count /\ log_count \in Nat /\ log_count' \in Nat
    BY CountGrows
  <2>1. /\ loc[q].start \in Nat /\ loc[q].count \in Int
        /\ at[q] = "line" => loc[q].start + loc[q].count <= log_count
    BY <1>0 DEF LocType, LinesInv
  <2>2. CASE RenderLog(q)
    <3> DEFINE visible == log_win.rows - 2
               s == IF log_count > visible THEN log_count - visible ELSE 0
               c == IF log_count > visible THEN visible ELSE log_count
    <3>1. loc' = [loc EXCEPT ![q].start = s, ![q].count = c, ![q].i = 0]
      BY <2>2 DEF RenderLog
    <3>2. s + c = log_count
      BY <1>0, <2>0 DEF WinType
    <3> HIDE DEF s, c
    <3>3. loc'[q].start = s /\ loc'[q].count = c
      BY <1>0, <3>1 DEF LocType
    <3>4. QED BY <2>0, <3>2, <3>3
  <2>3. CASE ~RenderLog(q)
    <3>1. at[q] = "line" /\ loc'[q].start = loc[q].start /\ loc'[q].count = loc[q].count
      <4>1. CASE \/ WriteMessage \/ MoveHead \/ CountMessage \/ AddMember
                 \/ handle_sigwinch \/ Tick \/ UNCHANGED vars
        BY <1>0, <1>2, <4>1, Threads DEF WriteMessage, MoveHead, CountMessage,
             AddMember, handle_sigwinch, Tick, vars, Go, AtType
      <4>2. CASE EndOfTurn
        BY <1>0, <1>2, <4>2, Threads DEF EndOfTurn, Go, AtType
      <4>3. ASSUME NEW p \in Thread, p # q, RenderLog(p)
            PROVE  at[q] = "line" /\ loc'[q] = loc[q]
        BY <1>0, <1>2, <4>3 DEF RenderLog, Go, AtType, LocType
      <4>4. ASSUME NEW p \in Thread, RenderLine(p)
            PROVE  /\ at[q] = "line" /\ loc'[q].start = loc[q].start
                   /\ loc'[q].count = loc[q].count
        BY <1>0, <1>2, <4>4 DEF RenderLine, Go, AtType, LocType
      <4>5. ASSUME NEW p \in Thread, ListMembers(p)
            PROVE  /\ at[q] = "line" /\ loc'[q].start = loc[q].start
                   /\ loc'[q].count = loc[q].count
        BY <1>0, <1>2, <4>5 DEF ListMembers, Go, AtType, LocType
      <4>6. ASSUME NEW p \in Thread, CountMore(p)
            PROVE  at[q] = "line" /\ loc'[q] = loc[q]
        BY <1>0, <1>2, <4>6 DEF CountMore, Go, AtType
      <4>7. QED BY <2>3, <4>1, <4>2, <4>3, <4>4, <4>5, <4>6, Steps
    <3>2. QED BY <2>0, <2>1, <3>1
  <2>4. QED BY <2>2, <2>3
<1>3. QED BY <1>1, <1>2 DEF LinesInv, NoBlankLine

------------------------------------------------------------------------------
\* What a thread chooses to draw
LEMMA ChosenLines ==
  ASSUME TypeOK, NEW p \in Thread, RenderLog(p)
  PROVE  /\ loc'[p].count = MIN(log_count, log_win.rows - 2)
         /\ loc'[p].start = log_count - MIN(log_count, log_win.rows - 2)
         /\ loc'[p].i = 0
         /\ \A q \in Thread : loc'[q].rows = loc[q].rows
         /\ log_win'.text = <<>> /\ log_win'.rows = log_win.rows
<1>0. LocType /\ log_count \in Nat /\ log_win \in [text : Seq(Int), rows : Nat]
  BY TypeGroups, Numbers DEF RingType, WinType
<1> DEFINE visible == log_win.rows - 2
           s == IF log_count > visible THEN log_count - visible ELSE 0
           c == IF log_count > visible THEN visible ELSE log_count
<1>1. /\ loc' = [loc EXCEPT ![p].start = s, ![p].count = c, ![p].i = 0]
      /\ log_win' = [log_win EXCEPT !.text = <<>>]
  BY DEF RenderLog
<1>2. log_win.rows \in Nat
  BY <1>0
<1>3. c = MIN(log_count, visible) /\ s = log_count - MIN(log_count, visible)
  BY <1>0, <1>2 DEF MIN
<1> HIDE DEF s, c
<1>4. /\ loc'[p].start = s /\ loc'[p].count = c /\ loc'[p].i = 0
      /\ \A q \in Thread : loc'[q].rows = loc[q].rows
  BY <1>0, <1>1 DEF LocType
<1>5. log_win'.text = <<>> /\ log_win'.rows = log_win.rows
  BY <1>0, <1>1
<1>6. QED BY <1>3, <1>4, <1>5

\* What the two steps of tui_state_print do to the window
LEMMA PrintSteps ==
  ASSUME TypeOK, NEW p \in Thread
  PROVE  /\ ListMembers(p) => Listed' /\ loc'[p].rows = status_win'.rows
         /\ CountMore(p) /\ loc[p].rows = status_win.rows /\ Listed =>
              Listed' /\ status_win'.listed + status_win'.more = view_size'
<1>0. LocType /\ StatusType
  BY TypeGroups
<1>1. /\ view_size \in Nat /\ status_win.rows \in Nat /\ status_win.rows >= 4
      /\ status_win.listed \in Nat /\ status_win.more \in Nat
      /\ loc[p].rows \in Nat
  BY <1>0, Numbers DEF StatusType, LocType
<1>2. ASSUME ListMembers(p)
      PROVE  Listed' /\ loc'[p].rows = status_win'.rows
  <2>1. /\ view_size' = view_size /\ loc'[p].rows = status_win.rows
        /\ status_win'.listed = MIN(view_size, status_win.rows - 4)
        /\ status_win'.more = 0 /\ status_win'.rows = status_win.rows
    BY <1>0, <1>2 DEF ListMembers, StatusType, LocType
  <2>2. QED BY <2>1 DEF Listed
<1>3. ASSUME CountMore(p), loc[p].rows = status_win.rows, Listed
      PROVE  Listed' /\ status_win'.listed + status_win'.more = view_size'
  <2>1. /\ view_size' = view_size /\ status_win'.rows = status_win.rows
        /\ status_win'.listed = status_win.listed
        /\ status_win'.more = IF view_size >= status_win.rows - 4
                              THEN view_size - (status_win.rows - 4)
                              ELSE status_win.more
    BY <1>0, <1>3 DEF CountMore, StatusType
  <2>2. /\ status_win.listed = MIN(view_size, status_win.rows - 4)
        /\ status_win.more \in {0, MAX(0, view_size - (status_win.rows - 4))}
    BY <1>3 DEF Listed
  <2>3. /\ status_win'.more = MAX(0, view_size - (status_win.rows - 4))
        /\ status_win'.listed + status_win'.more = view_size
    BY <1>1, <2>1, <2>2 DEF MIN, MAX
  <2>4. QED BY <2>1, <2>2, <2>3 DEF Listed
<1>4. QED BY <1>2, <1>3

LEMMA StatusStep ==
  ASSUME TypeOK, StatusInv, [Next]_vars
  PROVE  StatusInv'
<1>0. /\ AtType /\ LocType /\ StatusType /\ TimeType
      /\ PrintAfter \in Nat /\ MaxGap \in Nat /\ Horizon = PrintAfter + MaxGap + 1
  BY TypeGroups, Numbers
<1>1. /\ loopAge \in Nat /\ last_printout \in Nat /\ quiet \in Nat
      /\ loopAge <= MaxGap /\ last_printout <= Horizon /\ quiet <= Horizon
  BY <1>0, Numbers DEF TimeType
<1>2. CASE WriteMessage \/ MoveHead \/ CountMessage
  <2>1. /\ UNCHANGED <<status_win, view_size, loc, loopAge, last_printout, quiet>>
        /\ at'["main"] = at["main"]
        /\ at["server"] \notin {"list", "more"} /\ at'["server"] \notin {"list", "more"}
    BY <1>0, <1>2, Threads DEF WriteMessage, MoveHead, CountMessage, Idle, Go, time,
                               AtType
  <2>2. QED BY <2>1 DEF StatusInv, Listed
<1>3. CASE AddMember
  <2>1. /\ UNCHANGED <<status_win, at, loc, loopAge, last_printout>> /\ quiet' = 0
    BY <1>3 DEF AddMember
  <2>2. QED BY <1>1, <2>1 DEF StatusInv
<1>4. CASE EndOfTurn
  <2>1. /\ UNCHANGED <<status_win, view_size, loc, quiet>> /\ loopAge' = 0
        /\ at["server"] = "idle" /\ at'["main"] = at["main"]
        /\ \/ last_printout > PrintAfter /\ last_printout' = 0 /\ at'["server"] = "list"
           \/ ~(last_printout > PrintAfter) /\ last_printout' = last_printout
              /\ at'["server"] = "idle"
    BY <1>0, <1>4, Threads DEF EndOfTurn, Idle, Go, AtType
  <2>2. QED BY <1>0, <1>1, <2>1 DEF StatusInv, Listed
<1>5. CASE handle_sigwinch
  <2>1. /\ UNCHANGED <<view_size, loc, loopAge, last_printout>> /\ quiet' = 0
        /\ at'["server"] = at["server"] /\ at'["main"] = "list"
    BY <1>0, <1>5, Threads DEF handle_sigwinch, Go, AtType
  <2>2. QED BY <1>1, <2>1 DEF StatusInv
<1>6. CASE Tick
  <2>1. /\ UNCHANGED <<status_win, view_size, at, loc>> /\ loopAge' = loopAge + 1
        /\ loopAge < MaxGap
        /\ last_printout' = MIN(last_printout + 1, Horizon)
        /\ quiet' = MIN(quiet + 1, Horizon)
    BY <1>6 DEF Tick
  <2>2. last_printout <= PrintAfter + loopAge \/ quiet <= loopAge
    BY DEF StatusInv
  <2>3. /\ last_printout' <= PrintAfter + loopAge' \/ quiet' <= loopAge'
        /\ quiet' > last_printout' => quiet > last_printout
    BY <1>0, <1>1, <2>1, <2>2 DEF MIN
  <2>4. QED BY <2>1, <2>3 DEF StatusInv, Listed
<1>7. ASSUME NEW p \in Thread, RenderLog(p) \/ RenderLine(p) PROVE StatusInv'
  <2>1. /\ UNCHANGED <<status_win, view_size, loopAge, last_printout, quiet>>
        /\ at["main"] = "more" <=> at'["main"] = "more"
        /\ at["server"] \in {"list", "more"} <=> at'["server"] \in {"list", "more"}
        /\ at["server"] = "more" <=> at'["server"] = "more"
        /\ \A q \in Thread : loc'[q].rows = loc[q].rows
    <3>1. CASE RenderLog(p)
      <4>1. \A q \in Thread : loc'[q].rows = loc[q].rows
        BY <3>1, ChosenLines
      <4>2. QED BY <1>0, <3>1, <4>1, Threads DEF RenderLog, Go, time, AtType
    <3>2. CASE RenderLine(p)
      BY <1>0, <3>2, Threads DEF RenderLine, Go, time, AtType, LocType
    <3>3. QED BY <1>7, <3>1, <3>2
  <2>2. QED BY <2>1, Threads DEF StatusInv, Listed
<1>8. ASSUME NEW p \in Thread, ListMembers(p) PROVE StatusInv'
  <2>1. /\ UNCHANGED <<view_size, loopAge, last_printout, quiet>>
        /\ at[p] = "list" /\ at'[p] = "more"
        /\ \A q \in Thread \ {p} : at'[q] = at[q] /\ loc'[q] = loc[q]
        /\ status_win'.rows = status_win.rows
    BY <1>0, <1>8 DEF ListMembers, Go, time, AtType, LocType, StatusType
  <2>2. Listed' /\ loc'[p].rows = status_win'.rows
    BY <1>8, PrintSteps
  <2>3. CASE p = "main"
    BY <2>1, <2>2, <2>3, Threads DEF StatusInv
  <2>4. CASE p = "server"
    BY <2>1, <2>2, <2>4, Threads DEF StatusInv
  <2>5. QED BY <2>3, <2>4, Threads
<1>9. ASSUME NEW p \in Thread, CountMore(p) PROVE StatusInv'
  <2>1. /\ UNCHANGED <<view_size, loc, loopAge, last_printout, quiet>>
        /\ at[p] = "more" /\ at'[p] = IF p = "main" THEN "render" ELSE "idle"
        /\ \A q \in Thread \ {p} : at'[q] = at[q]
        /\ status_win'.rows = status_win.rows
    BY <1>0, <1>9 DEF CountMore, Go, time, AtType, StatusType
  <2>2. loc[p].rows = status_win.rows /\ Listed =>
          Listed' /\ status_win'.listed + status_win'.more = view_size'
    BY <1>9, PrintSteps
  <2>3. CASE p = "main"
    BY <2>1, <2>2, <2>3, Threads DEF StatusInv
  <2>4. CASE p = "server"
    BY <2>1, <2>2, <2>4, Threads DEF StatusInv
  <2>5. QED BY <2>3, <2>4, Threads
<1>10. CASE UNCHANGED vars
  BY <1>10 DEF vars, StatusInv, Listed
<1>11. QED BY <1>2, <1>3, <1>4, <1>5, <1>6, <1>7, <1>8, <1>9, <1>10, Steps

------------------------------------------------------------------------------
\* A thread that draws alone goes on to draw, and when it ends all is shown
LEMMA DrawOn ==
  ASSUME TypeOK, RingInv, LinesInv, NEW p \in Thread, RenderLine(p), Drawing(p),
         at["server"] \notin {"written", "moved"}
  PROVE  /\ loc[p].i < loc[p].count => Drawing(p)'
         /\ ~(loc[p].i < loc[p].count) => Shown'
<1> DEFINE v == log_win.rows - 2
           c == loc[p].count
           i == loc[p].i
<1>0. /\ LocType /\ log_count \in Nat /\ sent \in Nat
      /\ log_win \in [text : Seq(Int), rows : Nat]
      /\ Len(log_win.text) <= MAX(0, log_win.rows - 2)
  BY TypeGroups, Numbers DEF RingType, WinType
<1>1. /\ i \in Nat /\ c \in Int /\ loc[p].start \in Nat /\ v \in Int
      /\ Len(log_win.text) = i
  BY <1>0 DEF LocType, Drawing
<1>2. log_count' = log_count /\ sent' = sent
  BY DEF RenderLine, ring
<1>3. /\ c = MIN(log_count, v) /\ loc[p].start = log_count - c /\ i <= MAX(0, c)
      /\ \A k \in 1..i : log_win.text[k] = sent - c + k
  BY DEF Drawing
<1>4. ASSUME i < c PROVE Drawing(p)'
  <2>1. /\ loc[p].start + i < log_count /\ log_win'.rows = log_win.rows
        /\ loc' = [loc EXCEPT ![p].i = @ + 1]
        /\ log_win'.text = SetLine(log_win, i + 1, Line(loc[p].start, i))
    BY <1>4, DrawnLine
  <2>2. /\ Line(loc[p].start, i) = sent - log_count + loc[p].start + i + 1
        /\ Line(loc[p].start, i) \in Int
    <3>1. /\ Line(loc[p].start, i) = sent - log_count + loc[p].start + i + 1
          /\ Line(loc[p].start, i) \in Nat \ {0}
      BY <1>1, <2>1, LineFacts
    <3>2. QED BY <3>1
  <2>3. PICK n \in Nat, msg \in Int :
          /\ n = i + 1 /\ n > 0 /\ n <= v /\ msg = Line(loc[p].start, i)
          /\ msg = sent - c + n
    <3>1. i + 1 \in Nat /\ i + 1 > 0 /\ i + 1 <= v
      BY <1>0, <1>1, <1>3, <1>4, SMTT(30) DEF MIN
    <3>2. Line(loc[p].start, i) = sent - c + (i + 1)
      <4>1. loc[p].start = log_count - c
        BY <1>3
      <4> HIDE DEF i, c
      <4>2. i \in Nat /\ c \in Int /\ sent \in Nat /\ log_count \in Nat
        BY <1>0, <1>1
      <4>3. QED BY <2>2, <4>1, <4>2
    <3> HIDE DEF i, c, v
    <3>3. QED BY <2>2, <3>1, <3>2
  <2>4. /\ Len(SetLine(log_win, n, msg)) = n /\ SetLine(log_win, n, msg)[n] = msg
        /\ \A k \in 1..n-1 : SetLine(log_win, n, msg)[k] = log_win.text[k]
    <3>1. n <= log_win.rows - 2 /\ n = Len(log_win.text) + 1
      BY <1>1, <2>3
    <3>2. n <= log_win.rows - 2 /\ n = Len(log_win.text) + 1 =>
            /\ Len(SetLine(log_win, n, msg)) = n
            /\ SetLine(log_win, n, msg)[n] = msg
            /\ \A k \in 1..n-1 : SetLine(log_win, n, msg)[k] = log_win.text[k]
      <4>1. n > 0
        BY <2>3
      <4>2. QED BY <1>0, <4>1, SetLineFacts
    <3>3. QED BY <3>1, <3>2
  <2>5. /\ loc'[p].i = n /\ loc'[p].count = c /\ loc'[p].start = loc[p].start
    BY <1>0, <2>1, <2>3 DEF LocType
  <2>6. /\ Len(log_win'.text) = n /\ log_win'.text[n] = sent - c + n
        /\ \A k \in 1..n-1 : log_win'.text[k] = log_win.text[k]
    BY <2>1, <2>3, <2>4
  <2>7. \A k \in 1..n : log_win'.text[k] = sent - c + k
    <3> SUFFICES ASSUME NEW k \in 1..n PROVE log_win'.text[k] = sent - c + k
      OBVIOUS
    <3>1. k = n \/ (k \in 1..n-1 /\ k \in 1..i)
      BY <1>1, <2>3
    <3>2. QED BY <1>3, <2>6, <3>1
  <2>8. n <= MAX(0, c)
    BY <1>1, <1>4, <2>3 DEF MAX
  <2>9. QED BY <1>2, <1>3, <2>1, <2>5, <2>6, <2>7, <2>8 DEF Drawing
<1>5. ASSUME ~(i < c) PROVE Shown'
  <2>1. log_win' = log_win
    BY <1>5 DEF RenderLine
  <2>2. i = MAX(0, c) /\ (i = c \/ i = 0)
    BY <1>1, <1>3, <1>5 DEF MAX
  <2>3. \A k \in 1..i : log_win.text[k] = sent - i + k
    BY <1>1, <1>3, <2>2
  <2>4. QED BY <1>1, <1>2, <1>3, <2>1, <2>2, <2>3 DEF Shown
<1>6. QED BY <1>4, <1>5

\* Nothing that is drawn or to be drawn has changed
LEMMA DrawingKept ==
  ASSUME UNCHANGED <<log_count, sent, log_win>>
  PROVE  /\ Shown => Shown'
         /\ \A p \in Thread :
              Drawing(p) /\ loc'[p].i = loc[p].i /\ loc'[p].count = loc[p].count
                /\ loc'[p].start = loc[p].start => Drawing(p)'
BY DEF Shown, Drawing

LEMMA LogStep ==
  ASSUME TypeOK, RingInv, LinesInv, LogInv, [Next]_vars
  PROVE  LogInv'
<1>0. AtType /\ LocType
  BY TypeGroups
<1>1. CASE WriteMessage \/ MoveHead \/ CountMessage
  <2>1. /\ mixed' = mixed /\ at'["main"] = at["main"]
        /\ at'["server"] \in {"written", "moved", "render"}
    BY <1>0, <1>1, Threads DEF WriteMessage, MoveHead, CountMessage, Go, AtType
  <2>2. QED BY <2>1 DEF LogInv, NotLogging
<1>2. ASSUME mixed' = mixed, UNCHANGED <<log_count, sent, log_win>>,
             at'["main"] = at["main"], NotLogging, NotLogging',
             \A p \in Thread : loc'[p].i = loc[p].i /\ loc'[p].count = loc[p].count
                                 /\ loc'[p].start = loc[p].start
      PROVE  LogInv'
  <2>1. (Shown => Shown') /\ (Drawing("main") => Drawing("main")')
    BY <1>2, DrawingKept, Threads
  <2>2. at'["server"] # "line"
    BY <1>2 DEF NotLogging
  <2>3. QED BY <1>2, <2>1, <2>2 DEF LogInv
<1>3. CASE AddMember \/ EndOfTurn
  <2>1. /\ mixed' = mixed /\ UNCHANGED <<log_count, sent, log_win, loc>>
        /\ at'["main"] = at["main"] /\ NotLogging /\ NotLogging'
    BY <1>0, <1>3, Threads DEF AddMember, EndOfTurn, Idle, Go, ring, AtType,
                               NotLogging
  <2>2. QED BY <1>2, <2>1
<1>4. CASE ListMembers("server") \/ CountMore("server")
  <2>1. /\ mixed' = mixed /\ UNCHANGED <<log_count, sent, log_win>>
        /\ at'["main"] = at["main"] /\ NotLogging /\ NotLogging'
    BY <1>0, <1>4, Threads DEF ListMembers, CountMore, Go, ring, AtType, NotLogging
  <2>2. \A p \in Thread : loc'[p].i = loc[p].i /\ loc'[p].count = loc[p].count
                            /\ loc'[p].start = loc[p].start
    BY <1>0, <1>4 DEF ListMembers, CountMore, LocType
  <2>3. QED BY <1>2, <2>1, <2>2
<1>5. CASE ListMembers("main") \/ CountMore("main")
  <2>1. mixed' = mixed /\ at["main"] \notin {"idle", "line"}
    BY <1>5 DEF ListMembers, CountMore
  <2>2. QED BY <2>1 DEF LogInv
<1>6. CASE handle_sigwinch
  BY <1>6 DEF handle_sigwinch, LogInv
<1>7. CASE RenderLog("server")
  <2>0. log_count \in Nat /\ log_win.rows \in Nat
    BY TypeGroups, Numbers DEF RingType, WinType
  <2>1. /\ mixed' = (at["main"] # "idle") /\ at'["server"] = "line"
        /\ at'["main"] = at["main"] /\ UNCHANGED <<log_count, sent>>
    BY <1>0, <1>7, Threads DEF RenderLog, Idle, Go, ring, AtType
  <2>2. Drawing("server")'
    <3>1. /\ loc'["server"].count = MIN(log_count, log_win.rows - 2)
          /\ loc'["server"].start = log_count - MIN(log_count, log_win.rows - 2)
          /\ loc'["server"].i = 0 /\ log_win'.text = <<>> /\ log_win'.rows = log_win.rows
      BY <1>7, ChosenLines, Threads
    <3>2. PICK c \in Int : c = MIN(log_count, log_win.rows - 2)
      BY <2>0 DEF MIN
    <3>3. 0 <= MAX(0, c)
      BY DEF MAX
    <3>4. QED BY <2>1, <3>1, <3>2, <3>3 DEF Drawing
  <2>3. QED BY <2>1, <2>2 DEF LogInv, NotLogging
<1>8. CASE RenderLog("main")
  <2>0. log_count \in Nat /\ log_win.rows \in Nat
    BY TypeGroups, Numbers DEF RingType, WinType
  <2>1. /\ mixed' = (at["server"] # "idle") /\ at'["main"] = "line"
        /\ at'["server"] = at["server"] /\ UNCHANGED <<log_count, sent>>
    BY <1>0, <1>8, Threads DEF RenderLog, Idle, Go, ring, AtType
  <2>2. Drawing("main")'
    <3>1. /\ loc'["main"].count = MIN(log_count, log_win.rows - 2)
          /\ loc'["main"].start = log_count - MIN(log_count, log_win.rows - 2)
          /\ loc'["main"].i = 0 /\ log_win'.text = <<>> /\ log_win'.rows = log_win.rows
      BY <1>8, ChosenLines, Threads
    <3>2. PICK c \in Int : c = MIN(log_count, log_win.rows - 2)
      BY <2>0 DEF MIN
    <3>3. 0 <= MAX(0, c)
      BY DEF MAX
    <3>4. QED BY <2>1, <3>1, <3>2, <3>3 DEF Drawing
  <2>3. QED BY <2>1, <2>2 DEF LogInv, NotLogging
<1>9. CASE RenderLine("server")
  <2>1. /\ mixed' = (mixed \/ at["main"] # "idle") /\ at["server"] = "line"
        /\ at'["main"] = at["main"]
        /\ IF loc["server"].i < loc["server"].count
           THEN at'["server"] = "line" ELSE at'["server"] = "idle"
    BY <1>0, <1>9, Threads DEF RenderLine, Idle, Go, AtType
  <2>2. CASE mixed \/ at["main"] # "idle"
    BY <2>1, <2>2 DEF LogInv
  <2>3. CASE ~mixed /\ at["main"] = "idle"
    <3>1. Drawing("server")
      BY <2>1, <2>3 DEF LogInv
    <3>2. /\ loc["server"].i < loc["server"].count => Drawing("server")'
          /\ ~(loc["server"].i < loc["server"].count) => Shown'
      BY <1>9, <2>1, <3>1, DrawOn, Threads
    <3>3. QED BY <2>1, <2>3, <3>2 DEF LogInv, NotLogging
  <2>4. QED BY <2>2, <2>3
<1>10. CASE RenderLine("main")
  <2>1. /\ mixed' = (mixed \/ at["server"] # "idle") /\ at["main"] = "line"
        /\ at'["server"] = at["server"]
        /\ IF loc["main"].i < loc["main"].count
           THEN at'["main"] = "line" ELSE at'["main"] = "idle"
    BY <1>0, <1>10, Threads DEF RenderLine, Idle, Go, AtType
  <2>2. CASE mixed \/ at["server"] # "idle"
    BY <2>1, <2>2 DEF LogInv
  <2>3. CASE ~mixed /\ at["server"] = "idle"
    <3>1. Drawing("main")
      BY <2>1, <2>3 DEF LogInv, NotLogging
    <3>2. /\ loc["main"].i < loc["main"].count => Drawing("main")'
          /\ ~(loc["main"].i < loc["main"].count) => Shown'
      BY <1>10, <2>3, <3>1, DrawOn, Threads
    <3>3. QED BY <2>1, <2>3, <3>2 DEF LogInv, NotLogging
  <2>4. QED BY <2>2, <2>3
<1>11. CASE Tick \/ UNCHANGED vars
  BY <1>11 DEF Tick, ring, vars, LogInv, NotLogging, Drawing, Shown
<1>12. QED BY <1>1, <1>3, <1>4, <1>5, <1>6, <1>7, <1>8, <1>9, <1>10, <1>11, Steps,
             Threads

------------------------------------------------------------------------------
LEMMA ScreenInit == Init => ScreenInv
<1> SUFFICES ASSUME Init PROVE ScreenInv
  OBVIOUS
<1>1. TypeOK
  BY TypeInit
<1>2. /\ at["server"] = "idle" /\ at["main"] = "idle" /\ sent = 0
      /\ log_head = 0 /\ log_count = 0 /\ view_size = 0
      /\ loopAge = 0 /\ last_printout = Horizon /\ quiet = 0
      /\ log_ring = [k \in 0..LOG_RING_SIZE-1 |-> 0]
  BY Threads DEF Init
<1>3. PICK rows \in Terminals :
        log_win = EmptyLog(rows) /\ status_win = EmptyStatus(rows)
  BY DEF Init
<1>4. log_win.text = <<>> /\ log_win.rows \in Nat
  BY <1>3, WindowFacts
<1>5. RingInv
  BY <1>2, Numbers DEF RingInv, Moved, Counted, MIN
<1>6. LinesInv
  BY <1>2, <1>4, Threads DEF LinesInv, NoBlankLine
<1>7. LogInv
  <2>1. MAX(0, MIN(log_count, log_win.rows - 2)) = 0
    BY <1>2, <1>4 DEF MAX, MIN
  <2>2. Shown
    BY <1>4, <2>1 DEF Shown
  <2>3. QED BY <1>2, <2>2 DEF LogInv
<1>8. StatusInv
  BY <1>2, Numbers DEF StatusInv, Horizon
<1>9. QED BY <1>1, <1>5, <1>6, <1>7, <1>8 DEF ScreenInv

LEMMA ScreenInvHolds == Spec => []ScreenInv
<1>1. ScreenInv /\ [Next]_vars => ScreenInv'
  BY TypeStep, RingStep, LinesStep, LogStep, StatusStep DEF ScreenInv
<1>2. QED BY <1>1, ScreenInit, PTL DEF Spec

\* The head and the count stay in the ring, and no line is drawn outside a
\* window, whatever the sizes.
THEOREM ScreenType == Spec => []TypeOK
<1>1. ScreenInv => TypeOK
  BY DEF ScreenInv
<1>2. QED BY <1>1, ScreenInvHolds, PTL

\* No line shows a part of the ring without a message, however the two threads
\* draw.
THEOREM NoBlankLineHolds == Spec => []NoBlankLine
<1>1. ScreenInv => NoBlankLine
  BY DEF ScreenInv, LinesInv
<1>2. QED BY <1>1, ScreenInvHolds, PTL

\* A log window drawn by one thread shows the newest messages in order, for
\* every size of the ring and of the window.
THEOREM LogIsExactHolds == Spec => []LogIsExact
<1>1. ScreenInv => LogIsExact
  <2> SUFFICES ASSUME ScreenInv, at["server"] = "idle", at["main"] = "idle", ~mixed
               PROVE  LET n == MAX(0, MIN(MIN(sent, LOG_RING_SIZE), log_win.rows - 2))
                      IN  log_win.text = [k \in 1..n |-> sent - n + k]
    BY Threads DEF LogIsExact, Idle
  <2>1. Shown
    BY DEF ScreenInv, LogInv, NotLogging
  <2>2. log_count = MIN(sent, LOG_RING_SIZE)
    BY DEF ScreenInv, RingInv, Counted
  <2>3. log_win.text \in Seq(Int)
    BY DEF ScreenInv, TypeOK
  <2>4. PICK n : n = MAX(0, MIN(MIN(sent, LOG_RING_SIZE), log_win.rows - 2))
    OBVIOUS
  <2>5. Len(log_win.text) = n /\ \A k \in 1..n : log_win.text[k] = sent - n + k
    BY <2>1, <2>2, <2>4 DEF Shown
  <2>6. log_win.text = [k \in 1..n |-> sent - n + k]
    BY <2>3, <2>5, SMTT(30)
  <2>7. QED BY <2>4, <2>6
<1>2. QED BY <1>1, ScreenInvHolds, PTL

\* The status window catches up with the members within a printing interval
\* and a turn of the server loop, however long these are.
THEOREM StatusCatchesUpHolds == Spec => []StatusCatchesUp
<1>1. ScreenInv => StatusCatchesUp
  <2> SUFFICES ASSUME ScreenInv, at["server"] = "idle", at["main"] = "idle",
                      quiet > PrintAfter + MaxGap
               PROVE  status_win.listed + status_win.more = view_size
    BY Threads DEF StatusCatchesUp, Idle
  <2>1. /\ loopAge \in Nat /\ loopAge <= MaxGap /\ last_printout \in Nat /\ quiet \in Nat
        /\ PrintAfter \in Nat /\ MaxGap \in Nat
    BY Numbers DEF ScreenInv, TypeOK
  <2>2. last_printout <= PrintAfter + loopAge
    BY <2>1 DEF ScreenInv, StatusInv
  <2>3. quiet > last_printout
    BY <2>1, <2>2
  <2>4. QED BY <2>3 DEF ScreenInv, StatusInv
<1>2. QED BY <1>1, ScreenInvHolds, PTL
==============================================================================
