---------------------------- MODULE MCAdminConsole ----------------------------
\* The instance TLC checks; the bounds are in AdminConsole.cfg.
EXTENDS AdminConsole
===============================================================================
