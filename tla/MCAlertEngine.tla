---------------------------- MODULE MCAlertEngine ----------------------------
EXTENDS AlertEngine

CONSTANTS ForOffline, ForMetric
ForOf == [r \in Rules |-> IF r = Offline THEN ForOffline ELSE ForMetric]
AnyAndCritical == <<1, 2>>
=============================================================================
