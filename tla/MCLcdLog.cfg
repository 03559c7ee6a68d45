SPECIFICATION Spec
CONSTANTS
  Writers = {startup, httpd}
  XSize = 2
  YWINDOW_SIZE = 3
  LCD_CACHE_DEPTH = 5
  MaxLines = 11
INVARIANTS WindowShown
CHECK_DEADLOCK FALSE
