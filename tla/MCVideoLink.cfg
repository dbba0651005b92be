CONSTANTS
  h_res = 4
  v_res = 3
  h_sync = 2
  h_fp = 1
  h_bp = 1
  v_sync = 1
  v_fp = 2
  v_bp = 2
SPECIFICATION LinkSpec
INVARIANTS BlankDuringSync PictureAligned
PROPERTIES WholeLines
