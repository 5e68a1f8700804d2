CONSTANTS
    root = root
    cpu = cpu
    ddr = ddr
    apart = apart
    dac = dac
    mic = mic
    line = line
    pre = pre
    mix = mix
    amp = amp
    spk = spk
    gain = gain
    adc = adc
    s1 = s1
    s2 = s2
    s3 = s3
    d1 = d1
    d2 = d2
    d3 = d3
    u1 = u1
    u2 = u2
    u3 = u3
    t1 = t1
    t2 = t2
    None = None
    Devices = {d1, d2, d3}
    Users = {u1, u2, u3}
    NumberOf <- OneRepeated
    Keepers = {}
    Overlap = FALSE
    Nodes = {root, cpu, ddr}
    Threads = {t1, t2}
    ParentOf <- TwoChildren
    AlwaysOn = {ddr}
    ForceAlone = TRUE
    Components <- Codec
    Registered <- ButPins
    Paths <- CodecPaths
    InputEnds = {dac, mic, line}
    OutputEnds = {spk, adc}
    Clocked = {dac, adc}
    Inverted = {}
    Streams = {"render", "capture"}
    Alone = TRUE
    Size = 6
    Modulus = 12
    Transfers = {2}
    Read = 4
    MaxData = 16
    Senders = {"s1", "s2"}
    Queues <- TxQueue
    Threshold = 1
    MaxPackets = 4
    MayFail = FALSE
SPECIFICATION PartsSpec
INVARIANTS
    FreedUnreferenced
    PostedWhenUnused
    SupplyIsOn
    PowerFollowsPaths
    SoundKept
    QueueBounded
PROPERTIES
    RemovalEnds
    RegulatorCallsReturn
    NoSleepUnderStream
    FallsAsleep
    EveryPacketServed
