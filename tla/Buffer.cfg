CONSTANTS
    kCheapPrepend = 2
    kInitialSize = 2
    ExtraBuf = 2
    Base = 2
    SizeofInt16 = 1
    MaxData = 3
    MaxSize = 7
SPECIFICATION BufferSpec
PROPERTIES ImplementsByteQueue
