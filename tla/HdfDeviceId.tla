---------------------------- MODULE HdfDeviceId ----------------------------
(***************************************************************************)
(* Device identifiers (core/host/include/hdf_device.h).  A devid packs a   *)
(* host, a device and a device node into 32 bits, but HdfDeviceInfo keeps  *)
(* it in a uint16_t, so the host's bits and the high bits of the device    *)
(* are lost as soon as the identifier is stored.                           *)
(***************************************************************************)
EXTENDS Integers

DevnodeIds == 256     \* 2^DEVNODEID_BITS
DeviceIds  == 65536   \* 2^DEVICEID_BITS

MK_DEVID(hostId, deviceId, devnodeId) ==
    (hostId * DeviceIds + deviceId) * DevnodeIds + devnodeId

HOSTID(devid)   == devid \div (DeviceIds * DevnodeIds)
DEVICEID(devid) == (devid \div DevnodeIds) % DeviceIds

\* The assignment to HdfDeviceInfo.deviceId, a uint16_t.
StoredDevid(devid) == devid % 65536
=============================================================================
