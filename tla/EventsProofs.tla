---------------------------- MODULE EventsProofs ----------------------------
(***************************************************************************)
(* What Decode answers, for every payload there is.                        *)
(***************************************************************************)
EXTENDS MCEvents, TLAPS

(* The fields of a payload, and what each may hold.                        *)
LEMMA PayloadFields ==
  ASSUME NEW p \in Payload
  PROVE  /\ p.json \in BOOLEAN
         /\ p.weight \in Int \cup {Absent, Mistyped}
         /\ p.amount \in Int \cup {Absent, Mistyped}
         /\ p.currency \in Currency \cup {Absent, Mistyped}
BY DEF Payload, Wire

(* The weights and amounts the domain rules accept.                        *)
LEMMA DomainRules ==
  /\ \A w \in Int : ValidateWeight(w) <=> LegalWeight(w)
  /\ \A a \in Int, c \in Currency \cup {Absent, Mistyped} :
       ValidateMoney([amount |-> a, currency |-> c])
         <=> a \in Nat /\ c \in CurrencyCode
<1>1. ASSUME NEW w \in Int PROVE ValidateWeight(w) <=> LegalWeight(w)
  BY DEF ValidateWeight, MinWeightGrams, MaxWeightGrams, LegalWeight
<1>2. ASSUME NEW a \in Int, NEW c \in Currency \cup {Absent, Mistyped}
      PROVE  ValidateMoney([amount |-> a, currency |-> c])
               <=> a \in Nat /\ c \in CurrencyCode
  BY DEF ValidateMoney, isCurrencyCode
<1> QED
  BY <1>1, <1>2

(* A payload is accepted exactly when it has every field of version 1 and  *)
(* satisfies the domain rules.                                             *)
LEMMA AcceptedIsV1 ==
  ASSUME payload \in Payload PROVE Decode(payload) = "ok" <=> IsV1
<1>1. ASSUME Decode(payload) = "ok" PROVE IsV1
  <2>1. /\ Unmarshals(payload) /\ ~\E f \in Fields : payload[f] = Absent
        /\ payload.event_type = TypeShipmentCreated
        /\ payload.schema_version = 1
        /\ ValidateWeight(payload.weight)
        /\ ValidateMoney([amount |-> payload.amount,
                          currency |-> payload.currency])
    BY <1>1 DEF Decode, SchemaVersion
  <2>2. payload.json /\ \A f \in Fields : Present(f)
    BY <2>1 DEF Unmarshals, Present
  <2>3. payload.weight \in Int /\ payload.amount \in Int
    BY <2>2, PayloadFields DEF Fields, Present
  <2> QED
    BY <2>1, <2>2, <2>3, PayloadFields, DomainRules DEF IsV1
<1>2. ASSUME IsV1 PROVE Decode(payload) = "ok"
  <2>1. /\ Unmarshals(payload) /\ ~\E f \in Fields : payload[f] = Absent
        /\ payload.event_type # Absent /\ payload.schema_version # Absent
    BY <1>2 DEF IsV1, Unmarshals, Present, Fields
  <2>2. payload.weight \in Int /\ payload.amount \in Int
    <3>1. \A f \in Fields : Present(f)
      BY <1>2 DEF IsV1
    <3> QED
      BY <3>1, PayloadFields DEF Fields, Present
  <2>3. /\ ValidateWeight(payload.weight)
        /\ ValidateMoney([amount |-> payload.amount,
                          currency |-> payload.currency])
    BY <1>2, <2>2, PayloadFields, DomainRules DEF IsV1
  <2> QED
    BY <1>2, <2>1, <2>3 DEF Decode, IsV1, SchemaVersion
<1> QED
  BY <1>1, <1>2

(* Decode looks at the type and the version before it asks for anything    *)
(* else.                                                                   *)
LEMMA LaterIsUnsupported ==
  ASSUME NEW p \in Payload, p.json, \A f \in Fields : p[f] # Mistyped,
         \/ p.event_type # Absent /\ p.event_type # TypeShipmentCreated
         \/ /\ p.event_type = TypeShipmentCreated
            /\ p.schema_version # Absent /\ p.schema_version # 1
  PROVE  Decode(p) = "unsupported"
BY EventTypeAssumption, WireAssumption DEF Decode, Unmarshals, SchemaVersion

(* Whatever arrives, Decode accepts exactly the version 1 events and       *)
(* reports the well-typed later ones as unsupported.                       *)
THEOREM DecodeKeepsContractAlways == Spec => []DecodeKeepsContract
<1> DEFINE Judged ==
      payload \in Payload /\ (verdict # "none" => verdict = Decode(payload))
<1>1. Init => Judged
  BY ReceivedAssumption DEF Init
<1>2. Judged /\ [Judge]_vars => Judged'
  BY DEF Judge, vars
<1>3. Judged => DecodeKeepsContract
  <2> SUFFICES ASSUME Judged PROVE DecodeKeepsContract
    OBVIOUS
  <2>1. AcceptsExactlyV1
    BY AcceptedIsV1 DEF AcceptsExactlyV1
  <2>2. LaterSchemaUnsupported
    BY LaterIsUnsupported DEF LaterSchemaUnsupported, Later, Present, Fields
  <2> QED
    BY <2>1, <2>2 DEF DecodeKeepsContract
<1> QED
  BY <1>1, <1>2, <1>3, PTL DEF Spec
=============================================================================
