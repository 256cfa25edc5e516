----------------------------- MODULE MCWifiSetup -----------------------------
\* The instance TLC checks; the bounds are in WifiSetup.cfg.
EXTENDS WifiSetup
==============================================================================
