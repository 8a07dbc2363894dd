--------------------------- MODULE MCMQTTClient ---------------------------
(* Model values for the runs of MQTTClient. *)
EXTENDS MQTTClientRefinement

CONSTANTS f1, f2

OneFilter  == {f1}
TwoFilters == {f1, f2}

AllCalls       == {"connect", "subscribe", "unsubscribe", "publish", "publish0",
                   "yield", "disconnect"}
\* The calls main.cpp makes
MainCalls      == {"connect", "subscribe", "publish", "yield"}
SafetyCalls    == MainCalls \cup {"unsubscribe"}
PublishCalls   == {"connect", "publish", "publish0", "yield", "disconnect"}
LiveCalls      == {"connect", "subscribe", "publish0", "yield"}
=============================================================================
