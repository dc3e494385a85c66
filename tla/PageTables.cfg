CONSTANTS
    Entries = 4
    MemoryPages = 24
    FreeAtBoot <- MCFreeAtBoot
    FrameBuffer <- MCFrameBuffer
    HeapPages <- MCHeapPages
    DevicePages <- MCDevicePages
    Leftover <- MCLeftover
SPECIFICATION Spec
INVARIANTS
    TypeOK
    TablesOwnFrames
    MemoryMappedToItself
    HeapFramesDistinct
PROPERTIES
    DataSurvives
    SpaceSpec
