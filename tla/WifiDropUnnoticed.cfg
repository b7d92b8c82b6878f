SPECIFICATION Spec
CONSTANT ChannelCapacity = 1
PROPERTY EveryDropReconnects
