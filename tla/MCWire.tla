--------------------------------- MODULE MCWire ---------------------------------
(***************************************************************************)
(* Two clients with the same port and a server that binds to any address.  *)
(***************************************************************************)
EXTENDS WireSpec

ClientsDef == {"c1", "c2"}

AddressOfDef ==
    "server" :> <<<<2560, 9>>, 80>> @@ "c1" :> <<<<2560, 1>>, 40000>> @@ "c2" :> <<<<2560, 2>>, 40000>>

Segment(flags, seqno, payload) ==
    [header |-> [NewTCPHeader EXCEPT !.flags = flags, !.seqno = seqno, !.win = 65535],
     payload |-> payload]

SegmentsDef ==
    {Segment({"syn"}, <<65535, 65535>>, << >>), Segment({"rst", "syn"}, <<0, 0>>, << >>),
     Segment({"ack", "fin"}, <<0, 1>>, <<7, 0, 255>>)}

ServerBindsDef == <<AnyAddress, 80>>

DamageDef(byte) == {(byte + 1) % 256, 255 - byte}

ArpMessagesDef ==
    {[hardware_type |-> 1, protocol_type |-> TYPE_IPv4, hardware_address_size |-> 6,
      protocol_address_size |-> 4, opcode |-> opcode,
      sender_ethernet_address |-> <<2, 0, 0, 0, 1, 255>>, sender_ip_address |-> <<2560, 1>>,
      target_ethernet_address |-> target, target_ip_address |-> <<65535, 256>>] :
        opcode \in {1, 2}, target \in {<<0, 0, 0, 0, 0, 0>>, <<2, 0, 0, 0, 2, 128>>}}
================================================================================
