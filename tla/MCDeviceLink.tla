---------------------------- MODULE MCDeviceLink ----------------------------
\* The instance TLC checks; the bounds are in DeviceLink.cfg.
EXTENDS DeviceLink
==============================================================================
