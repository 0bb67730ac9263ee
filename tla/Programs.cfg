SPECIFICATION ProgramsSpec
CONSTANTS
  MaxPackets = 3
  VaIds = {1, 2}
  SurfaceIds = {1, 2, 3, 4}
  NUM_SURFACES = 2
  MaxFormats = 3
  MaxFilePackets = 4
  MaxDelay = 2
  SURFACE_NUM = 8
  num_ref_frames = 2
  Log2MaxFrameNum = 4
  Log2MaxPicOrderCntLsb = 4
  MaxIntraPeriod = 6
  MaxIdrPeriod = 12
  MaxIpPeriod = 3
  MaxPictures = 28
  MaxWidth = 9
  MaxHeight = 9
  Field = 2
  ImageRows = 2
  MaxPiece = 4
  MaxRows = 4
  MaxAccess = 2
  MaxWrites = 1
  MaxImageHeight = 8
  MaxSampFactor = 2
  MaxGroups = 3
  MaxOutputHeight = 9
  VSampFactors = {1, 2, 4}
  TwoPassVSampFactors = {1, 2}
  MaxRowGroups = 3
INVARIANTS
  TypeOK TypesOK
  MutexLeakContained SleeperHasWaker NothingCutOff InOrder
  VaObjectsSound
  DemoFramesSound
  DecoderFollows
  RowsReachPicture
  PiecesJoined
  JpegRowsKept
PROPERTIES ImplementsPlainArray NothingHangs
