SPECIFICATION ProgramsSpec
CONSTANTS
  surface_nums = 3
  Entries = {e1, e2}
  NoEntry = NoEntry
  MaxPackets = 5
  intra_period = 30
  intra_idr_period = 60
  ip_period = 1
  SURFACE_NUM = 16
  frame_count = 60
  num_ref_frames = 2
  MaxFrameNum = 131072
  SURFACES = 2
  WORD_BYTES = 2
  BYTE_BITS = 2
  STEPPING = 2
  MaxItems = 3
  MaxCode = 3
INVARIANTS
  VaTypesOK TypeOK
  EntriesKept SleepersServed ShownInOrder SurfacesApart
  SlotExclusive FileInOrder ShotsInOrder ReferencesIntact
  DriverAgreed
  HeaderReadable
PROPERTY VideoFinishes
