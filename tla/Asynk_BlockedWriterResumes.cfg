SPECIFICATION FairSpec
CONSTANTS Capacity = 2  MaxBytes = 5  MaxWrite = 3
PROPERTY BlockedWriterResumes
CHECK_DEADLOCK FALSE
