CONSTANTS
  h_res = 2
  v_res = 2
  h_sync = 1
  h_fp = 1
  h_bp = 1
  v_sync = 1
  v_fp = 1
  v_bp = 1
  MaxCoord = 2
  AddrSpan = 5
SPECIFICATION TelecranSpec
INVARIANTS SweptCellsAreOut
PROPERTIES IsMagicScreen WipeEnds LitIsShown
