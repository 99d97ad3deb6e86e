------------------------------ MODULE Console ------------------------------
(***************************************************************************)
(* The console under the calls of kernel and users, each one step: keys    *)
(* arrive in interrupt handlers and user programs print through system     *)
(* calls, both with interrupts off.  ConsoleRace takes the printing of     *)
(* task 0 apart, which has interrupts on.                                  *)
(***************************************************************************)
EXTENDS ConsoleOps

CONSTANT MaxCnt \* bound on the bytes ever printed

VARIABLES con, \* the console
          log, \* every byte printed since the start
          line \* the line a user expects to have typed: keys with Backspace applied

vars == <<con, log, line>>

\* The effect of a key on what is printed, and on the line the user has in mind.
Logged(key) == CASE key = "ENTER"  -> line \o <<NL>>
                 [] key \in NoticeKeys -> Notice
                 [] OTHER          -> <<>>

Edited(key) == CASE key = "ENTER" -> <<>>
                 [] key = "BACKSPACE" /\ line # <<>> -> SubSeq(line, 1, Len(line) - 1)
                 [] key \in Letters /\ Len(line) < Capacity -> Append(line, key)
                 [] OTHER -> line

\* A key arrives.
Key(key) ==
  /\ Len(log) + Len(Logged(key)) <= MaxCnt
  /\ con' = shell_get_key_code(con, key)
  /\ log' = log \o Logged(key)
  /\ line' = Edited(key)

\* A byte is printed (print_char).
print_char(b) ==
  /\ Len(log) < MaxCnt
  /\ con' = write_console_one(con, b)
  /\ log' = Append(log, b)
  /\ UNCHANGED line

Clear    == con' = console_clear(con) /\ UNCHANGED <<log, line>>
ClearAll == con' = console_clear(console_clear_input(con)) /\ line' = <<>> /\ UNCHANGED log

Init == con = init_console /\ log = <<>> /\ line = <<>>

Next == \/ \E b \in Letters \cup {NL} : print_char(b)
        \/ \E key \in KeyCodes : Key(key)
        \/ Clear
        \/ ClearAll

Spec == Init /\ [][Next]_vars

-----------------------------------------------------------------------------

TypeOK ==
  /\ con.history \in [0 .. CONSOLE_HISTORY_SIZE - 1 -> Byte]
  /\ con.window \in [WinIdx -> Byte \cup {Junk}]
  /\ con.window_size \in 0 .. max_window_size
  /\ con.input_cnt \in 0 .. Capacity
  /\ con.window_first_history \in 0 .. con.history_cnt
  /\ con.window_last_history \in con.window_first_history .. con.history_cnt

\* The ring holds the last CONSOLE_HISTORY_SIZE bytes printed, in order, the typed
\* lines that Enter puts there among them.
RingExact ==
  /\ con.history_cnt = Len(log)
  /\ \A n \in 0 .. Len(log) - 1 :
       n >= Len(log) - CONSOLE_HISTORY_SIZE
         => con.history[n % CONSOLE_HISTORY_SIZE] = log[n + 1]

\* Reference layout: s cut into rows of at most COL bytes that '\n' ends early.
RECURSIVE Rows(_)
Rows(s) ==
  IF s = <<>> THEN <<>>
  ELSE LET n == Min({COL, Len(s)} \cup {k \in 1 .. Len(s) : s[k] = NL})
       IN  <<SubSeq(s, 1, n)>> \o Rows(SubSeq(s, n + 1, Len(s)))

\* The cell at column x of row r of the rows: 0 for '\n' and behind it.
CellOf(rows, r, x) ==
  IF r < Len(rows) /\ x < Len(rows[r + 1]) /\ rows[r + 1][x + 1] # NL
    THEN rows[r + 1][x + 1] ELSE NUL

Shown == Rows(SubSeq(log, con.window_first_history + 1, Len(log)))

\* v shows b; memory that was never written may show where nothing should.
Agrees(v, b) == v = b \/ (b = NUL /\ v \in {NL, Junk})

\* The window, which write_console_one extends byte by byte and the moves build
\* anew, is the text from window_first_history on, laid out in rows; that text is
\* still in the ring, and window_last_history is the byte after the last one shown.
WindowExact ==
  LET shown == SubSeq(Shown, 1, Min({Len(Shown), max_window_size \div COL}))
  IN  /\ TypeOK
      /\ con.window_first_history >= Len(log) - CONSOLE_HISTORY_SIZE
      /\ \A w \in WinIdx : Agrees(con.window[w], CellOf(shown, w \div COL, w % COL))
      /\ con.window_last_history - con.window_first_history
           = FoldLeft(LAMBDA sum, row : sum + Len(row), 0, shown)

\* The screen shows the input line in its rows, below it the window as far as it
\* fits, and nothing in the status bar: no partial redraw leaves a stale cell.
ScreenExact ==
  LET top == (inpws_to_rn(con.input_cnt) + 1) * COL
      end == (console_max_row - status_bar_lines) * COL
  IN  \A p \in DOMAIN con.screen :
        Agrees(con.screen[p],
               IF p < top THEN IF p < Len(line) THEN line[p + 1] ELSE NUL
               ELSE IF p < end THEN CellOf(Shown, (p - top) \div COL, p % COL)
               ELSE NUL)

\* The input line is what was typed: characters past its two rows are ignored, and
\* so is Backspace on an empty line.
InputExact ==
  /\ con.input_cnt = Len(line)
  /\ \A i \in 1 .. Len(line) : con.input_buf[i - 1] = line[i]

\* Output brings the window to the end of the history, whatever it showed.
OutputFollows == [][log' # log => Following(con)']_vars

=============================================================================
