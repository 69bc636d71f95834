-------------------------- MODULE MCContractRules --------------------------
(* Instance of ContractRules for TLC: two contracts, one listed twice, and  *)
(* layers that give nothing, good values, values out of range, values of    *)
(* the wrong type, or are not objects.                                      *)
EXTENDS ContractRules, TLC

CONSTANTS ct1, ct2, addr1, addr2, garbage, shfe, cffex, on, documented

MCContract == {ct1, ct2}
MCContractList == <<ct1, ct2, ct1>>
MCAddress == {addr1, addr2, documented}
MCPlainField == {"allow_same_ms_data", "max_invert_spread_tick"}

Object(fields) == [kind |-> "object", fields |-> fields]

MCNode ==
    {[kind |-> "missing"], [kind |-> "other"], Object(<<>>),
     Object("Multi_add" :> addr1 @@ "port" :> 8889 @@ "tick_size" :> 2
            @@ "exchange_whitelist" :> <<shfe>>),
     Object("Multi_add" :> addr2 @@ "check_bid_ask_levels" :> 9
            @@ "exchange_whitelist" :> <<shfe, cffex>>),
     Object("port" :> 65537 @@ "tick_size" :> 0 @@ "check_bid_ask_levels" :> 0),
     Object("Multi_add" :> garbage @@ "port" :> 8889 @@ "allow_same_ms_data" :> on),
     Object("exchange_whitelist" :> Wrong @@ "check_bid_ask_levels" :> 3
            @@ "max_invert_spread_tick" :> on),
     Object("exchange_whitelist" :> <<>> @@ "port" :> 9000),
     Object("exchange_whitelist" :> <<shfe, Wrong>>),
     Object("tick_size" :> Wrong)}

\* What README.md:43 says: a detector for which no layer gives an address sends
\* to 239.0.0.1.  The default in UnitProcessor.h 20 is the empty string.
DefaultAddress ==
    \A i \in DOMAIN detectors :
        (/\ ~Contains(global, "Multi_add")
         /\ ~Contains(specific[contractList[i]], "Multi_add"))
        => detectors[i].endpoint.address = documented
=============================================================================
