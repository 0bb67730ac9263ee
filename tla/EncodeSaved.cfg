SPECIFICATION FairSpec
CONSTANTS
  intra_period = 2
  intra_idr_period = 4
  ip_period = 1
  SURFACE_NUM = 4
  frame_count = 5
  num_ref_frames = 2
  MaxFrameNum = 131072
PROPERTIES
  AllSaved
