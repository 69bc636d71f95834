--------------------------- MODULE ContractRules ---------------------------
(***************************************************************************)
(* How the start-up turns the configuration file into one detector per     *)
(* contract: defaults, overlaid by the global rules, overlaid by the rules *)
(* of the contract (SpecialConfig::fromJson in DataHandler/UnitProcessor.h,*)
(* the look-ups of configrelated/ConfigRead.h, the loop of SystemStart.h). *)
(* A value that does not convert throws, nobody catches, and the program   *)
(* ends before it has connected.                                           *)
(***************************************************************************)
EXTENDS Integers, Sequences

CONSTANTS
    contractList,    \* the contracts, in the order of the file
    Contract,        \* those that occur in it
    Node,            \* what the file may hold as the rules of a layer
    Address,         \* the strings asio::ip::make_address accepts
    NoAddress,       \* the empty string
    Wrong,           \* a JSON value of a type its field does not convert from
    PlainField,      \* the fields that are copied and no more: switches, time
                     \* base, tolerances
    PlainDefault     \* their defaults

CheckedField == {"port", "Multi_add", "check_bid_ask_levels", "tick_size",
                 "exchange_whitelist"}
Field == CheckedField \cup PlainField

Contains(node, f) == node.kind = "object" /\ f \in DOMAIN node.fields

\* The numbers a C++ int holds; a larger one in the file would be narrowed, which
\* is left out.
INT_MAX == 2147483647
CInt == {n \in Int : -INT_MAX - 1 <= n /\ n <= INT_MAX}

\* A layer is an object with some of the fields, or it is not in the file (or is
\* null there, which is passed over as well), or it is something else.  Prices, and so tick_size, are whole numbers.
IsLayer(node) ==
    /\ node.kind \in {"object", "missing", "other"}
    /\ \A f \in {"port", "check_bid_ask_levels"} :
          Contains(node, f) => node.fields[f] = Wrong \/ node.fields[f] \in CInt
    /\ Contains(node, "tick_size")
          => node.fields["tick_size"] = Wrong \/ node.fields["tick_size"] \in Int

ASSUME ListAssumption == contractList \in Seq(Contract)
ASSUME NodeAssumption == \A node \in Node : IsLayer(node)
ASSUME AddressAssumption == NoAddress \notin Address

VARIABLES
    global,       \* m_globalValidationRules
    specific,     \* contract -> its entry under contract_specific
    detectors,    \* UnitProcessors_: what each one is configured with
    pc            \* "starting", "running", or "terminated" by an exception

vars == <<global, specific, detectors, pc>>

-----------------------------------------------------------------------------
(* fromJson.                                                               *)

MaxLevels == 5

Default ==
    [f \in Field |-> CASE f = "port" -> 8888
                       [] f = "Multi_add" -> NoAddress
                       [] f = "check_bid_ask_levels" -> 1
                       [] f = "tick_size" -> 1
                       [] f = "exchange_whitelist" -> <<>>
                       [] OTHER -> PlainDefault]

\* A white list that is no array is passed over; any other field that is there counts.
Gives(node, f) ==
    /\ Contains(node, f)
    /\ f = "exchange_whitelist" => node.fields[f] # Wrong

\* The conversion of field f throws.
Throws(node, f) ==
    /\ Contains(node, f)
    /\ IF f = "exchange_whitelist"
       THEN /\ node.fields[f] # Wrong
            /\ \E i \in DOMAIN node.fields[f] : node.fields[f][i] = Wrong
       ELSE node.fields[f] = Wrong

\* value() throws on a global node that is no object; an entry of a contract
\* that is none is as good as missing (getContractValidationConfig).
GlobalThrows(node) == node.kind = "other" \/ \E f \in Field : Throws(node, f)
ContractThrows(node) == \E f \in Field : Throws(node, f)

Clamp(n, low, high) == IF n < low THEN low ELSE IF n > high THEN high ELSE n

\* Mutant of Converted: no upper limit for the levels.
ConvertedUnclamped(f, value) ==
    CASE f = "check_bid_ask_levels" -> IF value < 1 THEN 1 ELSE value
      [] f = "tick_size" -> IF value <= 0 THEN 1 ELSE value
      [] OTHER -> value

Converted(f, value) ==
    CASE f = "check_bid_ask_levels" -> Clamp(value, 1, MaxLevels)
      [] f = "tick_size" -> IF value <= 0 THEN 1 ELSE value
      [] OTHER -> value

\* Mutant of Overlay: the white list of a contract is added to the global one.
OverlayAppending(rules, node) ==
    [f \in Field |-> IF ~Gives(node, f) THEN rules[f]
                     ELSE IF f = "exchange_whitelist" THEN rules[f] \o node.fields[f]
                     ELSE Converted(f, node.fields[f])]

\* One layer over another.  A white list replaces the one below: the default is
\* empty, and a contract's list clears the global one first.
Overlay(rules, node) ==
    [f \in Field |-> IF Gives(node, f) THEN Converted(f, node.fields[f]) ELSE rules[f]]

\* The port of an endpoint is an unsigned short.
Port == 0 .. 65535
UnsignedShort(n) == n % 65536

NoEndpoint == [address |-> NoAddress, port |-> 0]

\* Mutant of ResolveEndpoint: an address that does not parse stays in the rules.
ResolveEndpointKeeping(rules) ==
    [rules |-> rules,
     endpoint |-> IF rules["Multi_add"] \in Address
                  THEN [address |-> rules["Multi_add"], port |-> UnsignedShort(rules["port"])]
                  ELSE NoEndpoint]

\* If the address does not parse, the rules fall back to no address and the
\* endpoint stays as it was constructed.
ResolveEndpoint(rules) ==
    IF rules["Multi_add"] \in Address
    THEN [rules |-> rules,
          endpoint |-> [address |-> rules["Multi_add"], port |-> UnsignedShort(rules["port"])]]
    ELSE [rules |-> [rules EXCEPT !["Multi_add"] = NoAddress, !["port"] = 8888],
          endpoint |-> NoEndpoint]

fromJson(globalNode, node) ==
    ResolveEndpoint(Overlay(Overlay(Default, globalNode), node))

-----------------------------------------------------------------------------
Init ==
    /\ global \in Node
    /\ specific \in [Contract -> Node]
    /\ detectors = <<>>
    /\ pc = "starting"

next_contract == contractList[Len(detectors) + 1]

\* Mutant of NewUnitProcessor: the exception is caught outside the loop, and the
\* program goes on with the detectors it has.
NewUnitProcessorCaught ==
    /\ pc = "starting"
    /\ Len(detectors) < Len(contractList)
    /\ IF GlobalThrows(global) \/ ContractThrows(specific[next_contract])
       THEN pc' = "running" /\ UNCHANGED detectors
       ELSE /\ detectors' = Append(detectors, fromJson(global, specific[next_contract]))
            /\ UNCHANGED pc
    /\ UNCHANGED <<global, specific>>

\* One turn of the loop over the contracts.
NewUnitProcessor ==
    /\ pc = "starting"
    /\ Len(detectors) < Len(contractList)
    /\ IF GlobalThrows(global) \/ ContractThrows(specific[next_contract])
       THEN pc' = "terminated" /\ UNCHANGED detectors
       ELSE /\ detectors' = Append(detectors, fromJson(global, specific[next_contract]))
            /\ UNCHANGED pc
    /\ UNCHANGED <<global, specific>>

\* All detectors are there: workers, mapping and the connection follow.
Started ==
    /\ pc = "starting"
    /\ Len(detectors) = Len(contractList)
    /\ pc' = "running"
    /\ UNCHANGED <<global, specific, detectors>>

Next == NewUnitProcessor \/ Started

Spec == Init /\ [][Next]_vars

-----------------------------------------------------------------------------
(* Properties.                                                             *)

\* Whatever the file says, the rules of a detector are ones it can work with: the
\* levels to check lie within the five of a tick, which are the bounds of its
\* arrays (UnitProcessor.h 70, 103), and a tick size is positive.
TypeOK ==
    /\ global \in Node
    /\ specific \in [Contract -> Node]
    /\ pc \in {"starting", "running", "terminated"}
    /\ Len(detectors) <= Len(contractList)
    /\ \A i \in DOMAIN detectors :
          /\ detectors[i].rules["check_bid_ask_levels"] \in 1 .. MaxLevels
          /\ detectors[i].rules["tick_size"] > 0
          /\ detectors[i].rules["port"] \in Int
          /\ detectors[i].endpoint.port \in Port

\* What the documents promise of a field: the entry of the contract, or else the
\* global entry, or else the default, brought into range once at the end.
Entry(c, f) ==
    IF Gives(specific[c], f) THEN specific[c].fields[f]
    ELSE IF Gives(global, f) THEN global.fields[f]
    ELSE Default[f]

Promised(c, f) ==
    LET entry == Entry(c, f)
    IN  CASE f = "check_bid_ask_levels" /\ entry > MaxLevels -> MaxLevels
          [] f = "check_bid_ask_levels" /\ entry < 1 -> 1
          [] f = "tick_size" /\ entry <= 0 -> 1
          [] OTHER -> entry

\* Each field of a detector comes from the highest layer that gives it, whole
\* and unmixed, and from no other contract (README.md:20, 37, 66, 78); only
\* address and port stand or fall together (UnitProcessor.h 121-129).
Layered ==
    \A i \in DOMAIN detectors : \A f \in Field :
        \/ detectors[i].rules[f] = Promised(contractList[i], f)
        \/ f \in {"Multi_add", "port"} /\ detectors[i].rules["Multi_add"] = NoAddress

\* A detector that has an address sends there, at the port it is configured
\* with as far as sixteen bits go; one without has no endpoint either, so
\* that no half of a bad setting is in force (UnitProcessor.h 121-129).
EndpointMatches ==
    \A i \in DOMAIN detectors :
        LET d == detectors[i]
        IN  IF d.rules["Multi_add"] # NoAddress
            THEN /\ d.endpoint.address = Entry(contractList[i], "Multi_add")
                 /\ d.endpoint.port = UnsignedShort(Entry(contractList[i], "port"))
            ELSE /\ d.endpoint = NoEndpoint
                 /\ Entry(contractList[i], "Multi_add") \notin Address

\* The program runs with a detector for each entry of the list, in its order, and
\* only if no layer that any of them reads has a value that does not convert;
\* one bad entry stops the start of all (SystemStart.h 54-61, 126).
AllOrNothing ==
    /\ pc = "running" =>
         /\ Len(detectors) = Len(contractList)
         /\ contractList # <<>> => ~GlobalThrows(global)
         /\ \A i \in DOMAIN contractList : ~ContractThrows(specific[contractList[i]])
    /\ pc = "terminated" =>
         \/ GlobalThrows(global)
         \/ \E i \in DOMAIN contractList : ContractThrows(specific[contractList[i]])
=============================================================================
