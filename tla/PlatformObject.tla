--------------------------- MODULE PlatformObject ---------------------------
(***************************************************************************)
(* The part of struct PlatformDevice that keeps a device in memory while   *)
(* it is used (support/platform/src/fwk/platform_device.c): a reference    *)
(* count, and a semaphore posted when the count has fallen to zero.        *)
(***************************************************************************)
EXTENDS Integers

PlatformObjects == [refs : Int, released : Nat, ready : BOOLEAN]

\* PlatformDeviceInit
Inited == [refs |-> 0, released |-> 0, ready |-> TRUE]

\* PlatformDeviceGet
Got(o) == [o EXCEPT !.refs = @ + 1]

\* PlatformDeviceOnLastPut, which tells PlatformEventHandle.  The post is made
\* under device->spin, which the waiter takes in PlatformDeviceClearNotifier
\* before the device can be freed: lock, post and unlock are one step.
LastPut(o) == [refs |-> o.refs, released |-> o.released + 1, ready |-> FALSE]

\* PlatformDevicePut, by a thread that nobody comes between.
PutBack(o) ==
    LET left == [o EXCEPT !.refs = @ - 1]
    IN  IF left.refs = 0 THEN LastPut(left) ELSE left

\* PlatformDeviceUninit goes on once the semaphore is posted.
MayEnd(o)  == o.released > 0
Ended(o)   == [refs |-> o.refs, released |-> o.released - 1, ready |-> FALSE]
=============================================================================
