SPECIFICATION Spec
CONSTANTS
  Programs = {"adapter", "analyzer", "multinstances", "demuxer", "converter", "retarder", "synchronizer", "probe", "videoplayer", "winvideoplayer"}
  TwoInputs = {"multinstances", "retarder", "synchronizer", "videoplayer", "winvideoplayer"}
  OneOutput = {"retarder"}
  Delay = 1
  Spare = 2
  Kinds = {"video8", "video10", "audio", "rgb", "bgr"}
  MaxItems = 1
INVARIANTS
  FramesAreOwned
  OutputsKeepOrder
  InputsKeepTheirOutputs
  

  
CHECK_DEADLOCK FALSE
