---------------------------- MODULE MCDeviceHost ----------------------------
(* Model-checking instances of DeviceHost.                                 *)
EXTENDS DeviceHost

TwoKeys      == {1, 2}
EachFault    == AllFaults \ {"missing"}
SomeSteps    == {4, 7}
=============================================================================
