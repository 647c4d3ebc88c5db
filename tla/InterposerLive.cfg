SPECIFICATION FairSpec
CONSTANTS MaxEpoch = 2  MaxOut = 1  MaxSize = 0
PROPERTIES ReleasedOutputShown PredictionShown
CHECK_DEADLOCK FALSE
