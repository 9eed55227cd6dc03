------------------------------- MODULE MCChain -------------------------------
(* All configurations of the directives for a request that reaches the chain. *)
EXTENDS Chain

MCConfigs ==
    {c \in ConfigType :
       /\ c.site # "chain" => c = [site |-> c.site, log |-> TRUE, gzip |-> "on", header |-> TRUE,
                                   errors |-> "log", answers |-> "none", internal |-> "on",
                                   templates |-> "off"]
       /\ c.answers # "none" => c.internal = "off"
       /\ c.internal # "on" \/ c.answers # "none" => c.templates \in {"off", "buffer"}}
=============================================================================
