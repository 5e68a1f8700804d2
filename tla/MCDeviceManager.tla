-------------------------- MODULE MCDeviceManager --------------------------
(***************************************************************************)
(* Instances of DeviceManager for TLC.  The board: host 0 has two device   *)
(* nodes on one device; host 1 has, on two devices, the templates of what  *)
(* drivers register at run time, one for services with a device file and   *)
(* one for services without.  The hub: host 1 by itself, as host 0.        *)
(***************************************************************************)
EXTENDS DeviceDirectory, TLC

CONSTANTS x, y   \* the names registered at run time

ZeroFirst == <<0, 1>>
OneFirst  == <<1, 0>>
XY        == {x, y}
XYTemplate == (x :> "t") @@ (y :> "u")

BoardInfos == (0 :> <<"a", "b">>) @@ (1 :> <<"t", "u">>)
BoardDeviceIndex == [s \in {"a", "b", "t", "u"} |-> IF s = "u" THEN 1 ELSE 0]
BoardPolicy ==
    ("a" :> "CAPACITY") @@ ("b" :> "PUBLIC") @@ ("t" :> "CAPACITY") @@ ("u" :> "PUBLIC")
BoardPreload == ("a" :> "ENABLE") @@ ("b" :> "STEP2") @@ ("t" :> "ENABLE") @@ ("u" :> "DISABLE")

\* The board with a device file for the second node of the first device.
FilesPolicy == [BoardPolicy EXCEPT !["b"] = "CAPACITY"]

OneHost        == <<0>>
HubInfos       == 0 :> <<"t", "u">>
HubDeviceIndex == ("t" :> 0) @@ ("u" :> 1)
HubPolicy      == ("t" :> "CAPACITY") @@ ("u" :> "PUBLIC")
HubPreload     == ("t" :> "ENABLE") @@ ("u" :> "DISABLE")
=============================================================================
