------------------------ MODULE ContractRulesProofs ------------------------
(***************************************************************************)
(* For any file, any list of contracts and any fields that are copied as   *)
(* they are: the rules of a detector are layered as promised, in range,    *)
(* with an endpoint that fits, and the program starts with all or none.    *)
(***************************************************************************)
EXTENDS ContractRules, TLAPS

\* What fromJson makes of the layers of one contract.
Made(c) == fromJson(global, specific[c])

\* No value that such a detector depends on is bad.
Readable(c) == ~GlobalThrows(global) /\ ~ContractThrows(specific[c])

\* The inductive invariant: whatever is built is what fromJson makes of the
\* layers of its own contract, none of which has a bad value.
Built ==
    /\ global \in Node
    /\ specific \in [Contract -> Node]
    /\ \E S : detectors \in Seq(S)
    /\ Len(detectors) <= Len(contractList)
    /\ \A i \in 1 .. Len(detectors) :
          Readable(contractList[i]) /\ detectors[i] = Made(contractList[i])
    /\ pc \in {"starting", "running", "terminated"}
    /\ pc = "running" => Len(detectors) = Len(contractList)
    /\ pc = "terminated" =>
         \/ GlobalThrows(global)
         \/ \E i \in 1 .. Len(contractList) : ContractThrows(specific[contractList[i]])

\* Appending works on sequences over any set.
LEMMA AppendAny ==
    ASSUME NEW S, NEW s \in Seq(S), NEW e
    PROVE  /\ Append(s, e) \in Seq(S \cup {e})
           /\ Len(Append(s, e)) = Len(s) + 1
           /\ Append(s, e)[Len(s) + 1] = e
           /\ \A i \in 1 .. Len(s) : Append(s, e)[i] = s[i]
<1>1. s \in Seq(S \cup {e})
  OBVIOUS
<1> QED
  BY <1>1

\* Each detector is made of its own contract's layers.
LEMMA BuiltHolds == Spec => []Built
<1>1. Init => Built
  <2> SUFFICES ASSUME Init PROVE Built
    OBVIOUS
  <2>1. detectors \in Seq({}) /\ Len(detectors) = 0 /\ Len(contractList) \in Nat
    BY ListAssumption DEF Init
  <2> QED
    BY <2>1 DEF Init, Built
<1>2. Built /\ [Next]_vars => Built'
  <2> SUFFICES ASSUME Built, [Next]_vars PROVE Built'
    OBVIOUS
  <2> USE ListAssumption
  <2>1. PICK S : detectors \in Seq(S)
    BY DEF Built
  <2>2. Len(detectors) \in Nat /\ Len(contractList) \in Nat
    BY <2>1
  <2>3. CASE NewUnitProcessor
    <3>1. UNCHANGED <<global, specific>> /\ pc = "starting"
          /\ Len(detectors) < Len(contractList)
      BY <2>3 DEF NewUnitProcessor
    <3>2. CASE Readable(next_contract)
      <4>1. detectors' = Append(detectors, Made(next_contract)) /\ UNCHANGED pc
        BY <2>3, <3>2 DEF NewUnitProcessor, Readable, Made
      <4>2. /\ detectors' \in Seq(S \cup {Made(next_contract)})
            /\ Len(detectors') = Len(detectors) + 1
            /\ detectors'[Len(detectors) + 1] = Made(next_contract)
            /\ \A i \in 1 .. Len(detectors) : detectors'[i] = detectors[i]
        BY <2>1, <4>1, AppendAny
      <4>3. \A c : Made(c)' = Made(c) /\ Readable(c)' = Readable(c)
        BY <3>1 DEF Made, Readable
      <4>4. ASSUME NEW i \in 1 .. Len(detectors')
            PROVE  Readable(contractList[i]) /\ detectors'[i] = Made(contractList[i])
        <5>1. CASE i = Len(detectors) + 1
          BY <3>2, <4>2, <5>1 DEF next_contract
        <5>2. CASE i \in 1 .. Len(detectors)
          BY <4>2, <5>2 DEF Built
        <5> QED
          BY <2>2, <4>2, <5>1, <5>2
      <4>5. Len(detectors') <= Len(contractList)
        BY <2>2, <3>1, <4>2
      <4> QED
        BY <3>1, <4>1, <4>2, <4>3, <4>4, <4>5 DEF Built
    <3>3. CASE ~Readable(next_contract)
      <4>1. pc' = "terminated" /\ UNCHANGED detectors
        BY <2>3, <3>3 DEF NewUnitProcessor, Readable
      <4>2. Len(detectors) + 1 \in 1 .. Len(contractList)
        BY <2>2, <3>1
      <4>3. \/ GlobalThrows(global)
            \/ \E i \in 1 .. Len(contractList) : ContractThrows(specific[contractList[i]])
        BY <3>3, <4>2 DEF Readable, next_contract
      <4> QED
        BY <3>1, <4>1, <4>3 DEF Built, Made, Readable
    <3> QED
      BY <3>2, <3>3
  <2>4. CASE Started
    BY <2>4 DEF Started, Built, Made, Readable
  <2>5. CASE UNCHANGED vars
    BY <2>5 DEF vars, Built, Made, Readable
  <2> QED
    BY <2>3, <2>4, <2>5 DEF Next
<1> QED
  BY <1>1, <1>2, PTL DEF Spec

\* The program starts with a detector for each contract, or not at all.
THEOREM StartsWhole == Spec => []AllOrNothing
<1>1. Built => AllOrNothing
  <2> SUFFICES ASSUME Built PROVE AllOrNothing
    OBVIOUS
  <2>1. /\ DOMAIN contractList = 1 .. Len(contractList)
        /\ Len(contractList) \in Nat
        /\ contractList # <<>> => 1 \in 1 .. Len(contractList)
    BY ListAssumption
  <2> QED
    BY <2>1 DEF Built, AllOrNothing, Readable
<1> QED
  BY <1>1, BuiltHolds, PTL

-----------------------------------------------------------------------------
\* Where a value is used as a number, it is one.
LEMMA NumericEntries ==
    ASSUME global \in Node, specific \in [Contract -> Node],
           NEW c \in Contract, Readable(c),
           NEW f \in {"port", "check_bid_ask_levels", "tick_size"}
    PROVE  Entry(c, f) \in Int
<1>1. f \in Field /\ f # "exchange_whitelist" /\ Default[f] \in Int
  BY DEF Field, CheckedField, Default
<1>2. specific[c] \in Node
  OBVIOUS
<1>3. ASSUME NEW node \in Node, Gives(node, f), ~Throws(node, f)
      PROVE  node.fields[f] \in Int
  <2>1. Contains(node, f) /\ node.fields[f] # Wrong
    BY <1>1, <1>3 DEF Gives, Throws
  <2>2. node.fields[f] = Wrong \/ node.fields[f] \in CInt \/ node.fields[f] \in Int
    BY <1>3, <2>1, NodeAssumption DEF IsLayer
  <2>3. CInt \subseteq Int
    BY DEF CInt
  <2> QED
    BY <2>1, <2>2, <2>3
<1>4. ~Throws(global, f) /\ ~Throws(specific[c], f)
  BY <1>1 DEF Readable, GlobalThrows, ContractThrows
<1> QED
  BY <1>1, <1>2, <1>3, <1>4 DEF Entry

\* Bringing each layer into range comes to the same as doing so once at the end.
LEMMA OverlaysArePromised ==
    ASSUME global \in Node, specific \in [Contract -> Node],
           NEW c \in Contract, Readable(c), NEW f \in Field
    PROVE  Overlay(Overlay(Default, global), specific[c])[f] = Promised(c, f)
<1> DEFINE overlaid == Overlay(Overlay(Default, global), specific[c])[f]
<1>1. overlaid = IF Gives(specific[c], f) THEN Converted(f, specific[c].fields[f])
                 ELSE IF Gives(global, f) THEN Converted(f, global.fields[f])
                 ELSE Default[f]
  BY DEF Overlay
<1>2. CASE f = "check_bid_ask_levels"
  <2>1. Entry(c, f) \in Int
    BY <1>2, NumericEntries
  <2>2. Default[f] = 1
    BY <1>2 DEF Default
  <2>3. overlaid = Clamp(Entry(c, f), 1, MaxLevels)
    BY <1>1, <1>2, <2>2 DEF Entry, Converted, Clamp, MaxLevels
  <2> QED
    BY <1>2, <2>1, <2>3 DEF Promised, Clamp, MaxLevels
<1>3. CASE f = "tick_size"
  <2>1. Entry(c, f) \in Int
    BY <1>3, NumericEntries
  <2>2. Default[f] = 1
    BY <1>3 DEF Default
  <2>3. overlaid = IF Entry(c, f) <= 0 THEN 1 ELSE Entry(c, f)
    BY <1>1, <1>3, <2>2 DEF Entry, Converted
  <2> QED
    BY <1>3, <2>1, <2>3 DEF Promised
<1>4. CASE f # "check_bid_ask_levels" /\ f # "tick_size"
  <2>1. overlaid = Entry(c, f)
    BY <1>1, <1>4 DEF Entry, Converted
  <2> QED
    BY <1>4, <2>1 DEF Promised
<1> QED
  BY <1>2, <1>3, <1>4

\* Address and port come through the layers as they are.
LEMMA CopiedFields ==
    ASSUME global \in Node, specific \in [Contract -> Node],
           NEW c \in Contract, Readable(c)
    PROVE  LET rules == Overlay(Overlay(Default, global), specific[c])
           IN  /\ DOMAIN rules = Field
               /\ "Multi_add" \in Field /\ "port" \in Field
               /\ rules["Multi_add"] = Entry(c, "Multi_add")
               /\ rules["port"] = Entry(c, "port")
<1> DEFINE rules == Overlay(Overlay(Default, global), specific[c])
<1>1. "Multi_add" \in Field /\ "port" \in Field
  BY DEF Field, CheckedField
<1>2. /\ rules["Multi_add"] = Promised(c, "Multi_add")
      /\ rules["port"] = Promised(c, "port")
  BY <1>1, OverlaysArePromised
<1>3. /\ Promised(c, "Multi_add") = Entry(c, "Multi_add")
      /\ Promised(c, "port") = Entry(c, "port")
  BY DEF Promised
<1>4. DOMAIN rules = Field
  BY DEF Overlay
<1> QED
  BY <1>1, <1>2, <1>3, <1>4

\* The rules of a detector, but for address and port.
LEMMA RulesMade ==
    ASSUME global \in Node, specific \in [Contract -> Node],
           NEW c \in Contract, Readable(c),
           NEW f \in Field, f # "Multi_add", f # "port"
    PROVE  Made(c).rules[f] = Promised(c, f)
<1> DEFINE rules == Overlay(Overlay(Default, global), specific[c])
<1>1. rules[f] = Promised(c, f)
  BY OverlaysArePromised
<1>2. DOMAIN rules = Field
  BY DEF Overlay
<1>3. Made(c) = ResolveEndpoint(rules)
  BY DEF Made, fromJson
<1> HIDE DEF rules
<1>4. Made(c).rules[f] = rules[f]
  BY <1>2, <1>3 DEF ResolveEndpoint
<1> QED
  BY <1>1, <1>4

\* Address, port and endpoint where the address parses.
LEMMA AddressMade ==
    ASSUME global \in Node, specific \in [Contract -> Node],
           NEW c \in Contract, Readable(c), Entry(c, "Multi_add") \in Address
    PROVE  /\ Made(c).rules["Multi_add"] = Entry(c, "Multi_add")
           /\ Made(c).rules["port"] = Entry(c, "port")
           /\ Made(c).endpoint.address = Entry(c, "Multi_add")
           /\ Made(c).endpoint.port = UnsignedShort(Entry(c, "port"))
<1> DEFINE rules == Overlay(Overlay(Default, global), specific[c])
<1>1. rules["Multi_add"] = Entry(c, "Multi_add") /\ rules["port"] = Entry(c, "port")
  BY CopiedFields
<1>2. Made(c) = ResolveEndpoint(rules)
  BY DEF Made, fromJson
<1> HIDE DEF rules
<1> QED
  BY <1>1, <1>2 DEF ResolveEndpoint

\* The same where it does not.
LEMMA NoAddressMade ==
    ASSUME global \in Node, specific \in [Contract -> Node],
           NEW c \in Contract, Readable(c), Entry(c, "Multi_add") \notin Address
    PROVE  /\ Made(c).rules["Multi_add"] = NoAddress
           /\ Made(c).rules["port"] = 8888
           /\ Made(c).endpoint = NoEndpoint
<1> DEFINE rules == Overlay(Overlay(Default, global), specific[c])
<1>1. /\ rules["Multi_add"] = Entry(c, "Multi_add") /\ DOMAIN rules = Field
      /\ "Multi_add" \in Field /\ "port" \in Field
  BY CopiedFields
<1>2. Made(c) = ResolveEndpoint(rules)
  BY DEF Made, fromJson
<1> HIDE DEF rules
<1> QED
  BY <1>1, <1>2 DEF ResolveEndpoint

\* A port is cut to sixteen bits.
LEMMA SixteenBits == ASSUME NEW n \in Int PROVE UnsignedShort(n) \in Port
<1> DEFINE max == 65535
<1>1. /\ max \in Int /\ UnsignedShort(n) \in Int
      /\ 0 <= UnsignedShort(n) /\ UnsignedShort(n) <= max
  BY Z3T(20) DEF UnsignedShort
<1>2. Port = 0 .. max
  BY DEF Port
<1> HIDE DEF max
<1> QED
  BY <1>1, <1>2

\* The detectors and the contracts they were made for.
LEMMA DetectorsAreMade ==
    ASSUME Built
    PROVE  /\ DOMAIN detectors = 1 .. Len(detectors)
           /\ \A i \in DOMAIN detectors :
                 /\ contractList[i] \in Contract
                 /\ Readable(contractList[i])
                 /\ detectors[i] = Made(contractList[i])
<1>1. PICK S : detectors \in Seq(S)
  BY DEF Built
<1>2. DOMAIN detectors = 1 .. Len(detectors) /\ Len(detectors) \in Nat
  BY <1>1
<1>3. \A i \in 1 .. Len(detectors) : contractList[i] \in Contract
  BY <1>2, ListAssumption DEF Built
<1> QED
  BY <1>2, <1>3 DEF Built

\* Whatever the file says, detectors have rules they can work with.
THEOREM RulesInRange == Spec => []TypeOK
<1>1. Built => TypeOK
  <2> SUFFICES ASSUME Built PROVE TypeOK
    OBVIOUS
  <2>1. ASSUME NEW i \in DOMAIN detectors
        PROVE  /\ detectors[i].rules["check_bid_ask_levels"] \in 1 .. MaxLevels
               /\ detectors[i].rules["tick_size"] > 0
               /\ detectors[i].rules["port"] \in Int
               /\ detectors[i].endpoint.port \in Port
    <3> DEFINE c == contractList[i]
    <3>1. c \in Contract /\ Readable(c) /\ detectors[i] = Made(c)
      BY DetectorsAreMade
    <3>2. global \in Node /\ specific \in [Contract -> Node]
      BY DEF Built
    <3> HIDE DEF c
    <3>3. /\ Entry(c, "port") \in Int
          /\ Entry(c, "check_bid_ask_levels") \in Int
          /\ Entry(c, "tick_size") \in Int
      BY <3>1, <3>2, NumericEntries
    <3>4. /\ Promised(c, "check_bid_ask_levels") \in 1 .. MaxLevels
          /\ Promised(c, "tick_size") > 0
          /\ Promised(c, "port") \in Int
      BY <3>3 DEF Promised, MaxLevels
    <3>5. {"check_bid_ask_levels", "tick_size", "port"} \subseteq Field
      BY DEF Field, CheckedField
    <3>6. /\ Made(c).rules["check_bid_ask_levels"] = Promised(c, "check_bid_ask_levels")
          /\ Made(c).rules["tick_size"] = Promised(c, "tick_size")
      BY <3>1, <3>2, <3>5, RulesMade
    <3>7. UnsignedShort(Entry(c, "port")) \in Port
      BY <3>3, SixteenBits
    <3>8. Made(c).rules["port"] \in Int /\ Made(c).endpoint.port \in Port
      <4>1. CASE Entry(c, "Multi_add") \in Address
        <5>1. /\ Made(c).rules["port"] = Entry(c, "port")
              /\ Made(c).endpoint.port = UnsignedShort(Entry(c, "port"))
          BY <3>1, <3>2, <4>1, AddressMade
        <5> QED
          BY <3>3, <3>7, <5>1
      <4>2. CASE Entry(c, "Multi_add") \notin Address
        <5>1. Made(c).rules["port"] = 8888 /\ Made(c).endpoint.port = 0
          BY <3>1, <3>2, <4>2, NoAddressMade DEF NoEndpoint
        <5> QED
          BY <5>1 DEF Port
      <4> QED
        BY <4>1, <4>2
    <3>9. /\ Made(c).rules["check_bid_ask_levels"] \in 1 .. MaxLevels
          /\ Made(c).rules["tick_size"] > 0
      BY <3>4, <3>6
    <3> QED
      BY <3>1, <3>8, <3>9
  <2> QED
    BY <2>1 DEF Built, TypeOK
<1> QED
  BY <1>1, BuiltHolds, PTL

\* Every field comes from the highest layer that gives it.
THEOREM LayeredAsDocumented == Spec => []Layered
<1>1. Built => Layered
  <2> SUFFICES ASSUME Built, NEW i \in DOMAIN detectors, NEW f \in Field
      PROVE  \/ detectors[i].rules[f] = Promised(contractList[i], f)
             \/ /\ f \in {"Multi_add", "port"}
                /\ detectors[i].rules["Multi_add"] = NoAddress
    BY DEF Layered
  <2>1. /\ contractList[i] \in Contract /\ Readable(contractList[i])
        /\ detectors[i] = Made(contractList[i])
    BY DetectorsAreMade
  <2>2. global \in Node /\ specific \in [Contract -> Node]
    BY DEF Built
  <2>3. CASE f # "Multi_add" /\ f # "port"
    BY <2>1, <2>2, <2>3, RulesMade
  <2>4. CASE f \in {"Multi_add", "port"}
    <3> DEFINE c == contractList[i]
    <3>1. Promised(c, f) = Entry(c, f)
      BY <2>4 DEF Promised
    <3> HIDE DEF c
    <3>2. CASE Entry(c, "Multi_add") \in Address
      <4>1. Made(c).rules[f] = Entry(c, f)
        BY <2>1, <2>2, <2>4, <3>2, AddressMade DEF c
      <4> QED
        BY <2>1, <3>1, <4>1 DEF c
    <3>3. CASE Entry(c, "Multi_add") \notin Address
      <4>1. Made(c).rules["Multi_add"] = NoAddress
        BY <2>1, <2>2, <3>3, NoAddressMade DEF c
      <4> QED
        BY <2>1, <2>4, <4>1 DEF c
    <3> QED
      BY <3>2, <3>3
  <2> QED
    BY <2>3, <2>4
<1> QED
  BY <1>1, BuiltHolds, PTL

\* A detector's endpoint is the one of its rules, or none.
THEOREM EndpointsMatch == Spec => []EndpointMatches
<1>1. Built => EndpointMatches
  <2> SUFFICES ASSUME Built, NEW i \in DOMAIN detectors
      PROVE  IF detectors[i].rules["Multi_add"] # NoAddress
             THEN /\ detectors[i].endpoint.address = Entry(contractList[i], "Multi_add")
                  /\ detectors[i].endpoint.port = UnsignedShort(Entry(contractList[i], "port"))
             ELSE /\ detectors[i].endpoint = NoEndpoint
                  /\ Entry(contractList[i], "Multi_add") \notin Address
    BY DEF EndpointMatches
  <2> DEFINE c == contractList[i]
  <2>1. c \in Contract /\ Readable(c) /\ detectors[i] = Made(c)
    BY DetectorsAreMade
  <2>2. global \in Node /\ specific \in [Contract -> Node]
    BY DEF Built
  <2> HIDE DEF c
  <2>4. CASE Entry(c, "Multi_add") \in Address
    <3>1. /\ Made(c).rules["Multi_add"] = Entry(c, "Multi_add")
          /\ Made(c).endpoint.address = Entry(c, "Multi_add")
          /\ Made(c).endpoint.port = UnsignedShort(Entry(c, "port"))
      BY <2>1, <2>2, <2>4, AddressMade
    <3>2. Made(c).rules["Multi_add"] # NoAddress
      BY <3>1, <2>4, AddressAssumption
    <3> QED
      BY <2>1, <3>1, <3>2 DEF c
  <2>5. CASE Entry(c, "Multi_add") \notin Address
    <3>1. Made(c).rules["Multi_add"] = NoAddress /\ Made(c).endpoint = NoEndpoint
      BY <2>1, <2>2, <2>5, NoAddressMade
    <3> QED
      BY <2>1, <2>5, <3>1 DEF c
  <2> QED
    BY <2>4, <2>5
<1> QED
  BY <1>1, BuiltHolds, PTL
=============================================================================
