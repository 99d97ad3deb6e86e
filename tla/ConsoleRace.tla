---------------------------- MODULE ConsoleRace ----------------------------
(***************************************************************************)
(* Task 0 prints with interrupts on (init_task0 of kernel/task.c): its     *)
(* write_console_one is taken apart into statements, and keyboard          *)
(* interrupts run whole between them.  The increment of history_cnt is a   *)
(* load and a store, as the compiler makes it without optimisation.        *)
(***************************************************************************)
EXTENDS ConsoleOps

CONSTANT MaxCnt \* bound on the bytes ever printed

VARIABLES con,
          pc,     \* the next statement of task 0, "idle" between bytes
          b,      \* its argument c
          local   \* its locals: follow_current, old_window_size, the loaded count

vars == <<con, pc, b, local>>

Goto(from, to) == pc = from /\ pc' = to

\* The tests and assignments before the size changes.
Call(c) ==
  /\ Goto("idle", "grow") /\ con.history_cnt < MaxCnt
  /\ b' = c
  /\ con' = Jump(con)
  /\ local' = [local EXCEPT !.follow = Following(con)]

GrowWindow ==
  /\ Goto("grow", "load")
  /\ con' = Grow(con, b)
  /\ local' = [local EXCEPT !.old = con.window_size]
  /\ UNCHANGED b

LoadCnt ==
  /\ Goto("load", "store")
  /\ local' = [local EXCEPT !.cnt = con.history_cnt]
  /\ UNCHANGED <<con, b>>

StoreByte ==
  /\ Goto("store", "last")
  /\ con' = Store([con EXCEPT !.history_cnt = local.cnt], b)
  /\ UNCHANGED <<b, local>>

SetLast ==
  /\ Goto("last", "place")
  /\ con' = [con EXCEPT !.window_last_history = con.history_cnt]
  /\ UNCHANGED <<b, local>>

\* With a window size of 0 the loop bound window_size - 1 wraps, and the loop
\* runs through the memory behind the window.
PlaceByte ==
  /\ pc = "place"
  /\ \/ con.window_size = 0 /\ pc' = "wild" /\ UNCHANGED con
     \/ con.window_size > 0 /\ pc' = "show" /\ con' = Place(con, local.old, b)
  /\ UNCHANGED <<b, local>>

ShowByte ==
  /\ Goto("show", "idle")
  /\ con' = Show(con, local.follow, b)
  /\ UNCHANGED <<b, local>>

\* A keyboard interrupt between two statements.
Interrupt(key) ==
  /\ pc # "wild" /\ con.history_cnt < MaxCnt
  /\ con' = shell_get_key_code(con, key)
  /\ UNCHANGED <<pc, b, local>>

Init == /\ con = init_console
        /\ pc = "idle" /\ b = NUL
        /\ local = [follow |-> FALSE, old |-> 0, cnt |-> 0]

Next == \/ \E c \in Letters \cup {NL} : Call(c)
        \/ GrowWindow \/ LoadCnt \/ StoreByte \/ SetLast \/ PlaceByte \/ ShowByte
        \/ \E key \in KeyCodes : Interrupt(key)

Spec == Init /\ [][Next]_vars

-----------------------------------------------------------------------------

\* console.c: the window buffer "represents current console output window content",
\* "the content is determine by two endpoint first (0,0) and last".  Between two
\* bytes of task 0, whatever interrupted them, the window is the text from
\* window_first_history to window_last_history.
Visible(c) == IF c \in {NL, Junk} THEN NUL ELSE c
EndpointsDetermine ==
  pc = "idle" =>
    LET redrawn == update_window_buffer(con)
    IN  /\ redrawn.window_last_history = con.window_last_history
        /\ \A w \in WinIdx : Visible(con.window[w]) = Visible(redrawn.window[w])

=============================================================================
