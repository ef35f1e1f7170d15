-------------------------------- MODULE MCWifi --------------------------------
(* Wi-Fi with a configuration that is replaced and scans that fail.           *)
EXTENDS WifiConnectivity
=============================================================================
