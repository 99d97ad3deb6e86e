CONSTANTS
  console_max_col = 2
  console_max_row = 5
  status_bar_lines = 1
  CONSOLE_HISTORY_SIZE = 8
  INPUT_AREA_MAX_ROW = 2
  VGA_MAX_ROW = 6
  UINT = 65536
  NL = "nl"
  NUL = "nul"
  Junk = "junk"
  Letters = {"a"}
  Notice <- NoticeOf
  MaxCnt = 10
SPECIFICATION Spec
INVARIANTS RingExact WindowExact ScreenExact InputExact
PROPERTY OutputFollows
