---------------------------- MODULE MCConfigCache ----------------------------
(* One pipeline of up to two modules and two lists of parameters. One      *)
(* definition has a module more than fits, one a module without a list.    *)
EXTENDS ConfigCache

MCDefinitions ==
  [v \in {"b", "ab", "aba"} |->
     CASE v = "b" -> <<[name |-> "b", param_id |-> 0]>>
       [] v = "ab" -> <<[name |-> "a", param_id |-> 1], [name |-> "b", param_id |-> 2]>>
       [] v = "aba" -> <<[name |-> "a", param_id |-> 1], [name |-> "b", param_id |-> 1],
                         [name |-> "a", param_id |-> 1]>>]

MCConfigs == [v \in {"xy"} |-> <<"x", "y">>]
=============================================================================
