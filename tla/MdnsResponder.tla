--------------------------- MODULE MdnsResponder ---------------------------
(***************************************************************************)
(* The built-in mDNS responder (src/src/airplay/mdns_service.cpp): its     *)
(* thread takes queries off the wire, finds the names of their questions,  *)
(* which may be compressed, and answers those about the two services and   *)
(* the host.  Names are sequences of characters; the alphabet is short.    *)
(* How the responder starts and ends is in AirPlayServer.                  *)
(***************************************************************************)
EXTENDS Integers, Sequences
LOCAL INSTANCE SequencesExt
LOCAL INSTANCE FiniteSetsExt

CONSTANT
    NameLengths \* the lengths of the names that the server may have

VARIABLES
    server_name, \* register_airplay()'s argument, which Cast's start() is given too
    packet,  \* the query handle_query() is in, or <<>>
    asked,   \* the questions of the device that sent it
    offset,  \* offset
    heard,   \* the questions as they were read
    sent     \* for each of them the response, or <<>>

mdnsVars == <<server_name, packet, asked, offset, heard, sent>>

\* Letters, by their codes.
Dot == 46  _a == 97  _h == 104  _l == 108  _n == 110  _r == 114  _s == 115  _t == 116
Lower(name) == [i \in DOMAIN name |-> IF name[i] \in 65..90 THEN name[i] + 32 ELSE name[i]]
Upper(name) == [i \in DOMAIN name |-> IF name[i] \in 97..122 THEN name[i] - 32 ELSE name[i]]

\* The names register_airplay() makes: types, services and the host.  The server's
\* is what the user has typed, of any length; it may hold a dot, after which another
\* label begins.
airplay_type == <<_a, Dot, _t, Dot, _l>>
raop_type    == <<_r, Dot, _t, Dot, _l>>
ServerNames  == {[i \in 1..n |-> IF i = dot THEN Dot ELSE _n] : n \in NameLengths, dot \in {0, 2}}
\* One of them, where it does not matter which.
AnyName == server_name = CHOOSE name \in ServerNames : TRUE
airplay_service == server_name \o <<Dot>> \o airplay_type
raop_service    == <<_s>> \o server_name \o <<Dot>> \o raop_type
hostname        == <<_h, Dot, _l>>
services        == <<_s, Dot, _t, Dot, _l>>   \* _services._dns-sd._udp.local
Others          == <<_n, Dot, _l>>            \* of somebody else

\* DNS_TYPE_A and the others; AAAA is one that nothing here knows.
A == 1  PTR == 12  TXT == 16  SRV == 33  ANY == 255  AAAA == 28

-----------------------------------------------------------------------------
(* Names in packets.  Places in a packet count from zero.                  *)

Labels(name) ==
    LET From[at \in Nat] ==
            LET dots == {i \in DOMAIN name : i >= at /\ name[i] = Dot}
                dot == Min(dots)
            IN  IF dots = {} THEN <<SubSeq(name, at, Len(name))>>
                ELSE <<SubSeq(name, at, dot - 1)>> \o From[dot + 1]
    IN  From[1]

\* Mutant: a label of as many characters as it may have is cut.
PutLabelShort(label) ==
    LET len == IF Len(label) > 62 THEN 62 ELSE Len(label)
    IN  <<len>> \o SubSeq(label, 1, len)

\* A label with its length, of which the upper two bits are not the length's.
PutLabel(label) ==
    LET len == IF Len(label) > 63 THEN 63 ELSE Len(label)
    IN  <<len>> \o SubSeq(label, 1, len)
PutLabels(labels) == FlattenSeq([i \in DOMAIN labels |-> PutLabel(labels[i])])

\* put_name()
PutName(name) == PutLabels(Labels(name)) \o <<0>>

\* Mutant: reading goes on where the last pointer led.
ParsedThere(at, jumped, saved, name) == [name |-> name, offset |-> at]

\* The end of parse_name(): reading goes on after the first pointer.
Parsed(at, jumped, saved, name) ==
    [name |-> name, offset |-> IF jumped THEN saved ELSE at]

\* parse_name(): labels up to an empty one, through at most so many steps.
ParseName(pkt, start) ==
    LET From[at \in Nat, jumped \in BOOLEAN, saved \in Nat, name \in Seq(0..255), steps \in Nat] ==
            LET len == pkt[at + 1]
                last == Parsed(at, jumped, saved, name)
            IN  IF at >= Len(pkt) \/ steps = 128 THEN last
                ELSE IF len = 0 THEN Parsed(at + 1, jumped, saved, name)
                ELSE IF len >= 192
                     THEN IF at + 1 >= Len(pkt) THEN last
                          ELSE From[(len % 64) * 256 + pkt[at + 2], TRUE,
                                    IF jumped THEN saved ELSE at + 2, name, steps + 1]
                ELSE IF at + 1 + len > Len(pkt) THEN Parsed(at + 1, jumped, saved, name)
                ELSE From[at + 1 + len, jumped, saved,
                          (IF name = <<>> THEN name ELSE Append(name, Dot))
                             \o SubSeq(pkt, at + 2, at + 1 + len),
                          steps + 1]
    IN  From[start, FALSE, 0, <<>>, 0]

-----------------------------------------------------------------------------
(* Responses.                                                              *)

Record(name, type, data) == [name |-> PutName(name), type |-> type, data |-> data]

\* add_service_records(); local_ip is not 0, or register_airplay() had failed.
AddServiceRecords(service, type) ==
    <<Record(type, PTR, PutName(service)), Record(service, SRV, PutName(hostname)),
      Record(service, TXT, <<>>), Record(hostname, A, <<>>)>>

\* Mutant: a service is found by its type alone.
AsksForType(q, service, type) == q = Lower(type)

\* Whether a name is that of a service or its type.
AsksFor(q, service, type) == q = Lower(type) \/ q = Lower(service)

\* build_response(): <<>>, or the records with the count in front of them.
BuildResponse(qname, qtype) ==
    LET q == Lower(qname)
        want_ptr == qtype \in {PTR, ANY}
        want_svc == qtype \in {SRV, TXT, ANY}
        want_a   == qtype \in {A, ANY}
        Part(condition, records) == IF condition THEN records ELSE <<>>
        records ==
            Part(q = services /\ want_ptr,
                 <<Record(services, PTR, PutName(airplay_type)),
                   Record(services, PTR, PutName(raop_type))>>)
            \o Part(AsksFor(q, airplay_service, airplay_type) /\ (want_ptr \/ want_svc),
                    AddServiceRecords(airplay_service, airplay_type))
            \o Part(AsksFor(q, raop_service, raop_type) /\ (want_ptr \/ want_svc),
                    AddServiceRecords(raop_service, raop_type))
            \o Part(q = Lower(hostname) /\ want_a, <<Record(hostname, A, <<>>)>>)
    IN  records

\* send_announcement()
Announcement ==
    AddServiceRecords(airplay_service, airplay_type) \o AddServiceRecords(raop_service, raop_type)

-----------------------------------------------------------------------------
(* A device's query: its questions, the second of which may point to the   *)
(* end of the first one's name.                                            *)

\* A service's name as a device has read it from a record.
AsRead(name) == ParseName(PutName(name), 0).name

Questions ==
    [name : {airplay_type, raop_type, Upper(raop_type), AsRead(airplay_service),
             AsRead(raop_service), hostname, services, Others},
     type : {A, PTR, TXT, SRV, ANY, AAAA}]

\* Type and class.
Fixed(q) == <<0, q.type, 0, 1>>
Header(n) == <<0, 0, 0, 0, 0, n, 0, 0, 0, 0, 0, 0>>

\* A name after the first one, whose last k labels are found where that has them.
Compressed(name, first, k) ==
    LET own == Labels(name)  other == Labels(first)
        kept == SubSeq(other, 1, Len(other) - k)
    IN  PutLabels(SubSeq(own, 1, Len(own) - k)) \o <<192, 12 + Len(PutLabels(kept))>>

CommonLabels(a, b) ==
    LET own == Labels(a)  other == Labels(b)
    IN  {k \in 1 .. Len(own) :
            /\ k <= Len(other)
            /\ SubSeq(own, Len(own) - k + 1, Len(own))
                 = SubSeq(other, Len(other) - k + 1, Len(other))}

Packets(qs) ==
    LET first == PutName(qs[1].name) \o Fixed(qs[1])
    IN  IF Len(qs) = 1 THEN {Header(1) \o first}
        ELSE {Header(2) \o first \o second \o Fixed(qs[2]) :
                second \in {PutName(qs[2].name)}
                    \cup {Compressed(qs[2].name, qs[1].name, k) :
                             k \in CommonLabels(qs[2].name, qs[1].name)}}

Init ==
    /\ server_name \in ServerNames
    /\ packet = <<>> /\ asked = <<>> /\ offset = 0
    /\ heard = <<>> /\ sent = <<>>

\* listen_loop(): a query comes, and handle_query() begins.
Receive ==
    /\ packet = <<>>
    /\ \E q \in Questions, more \in {<<>>} \cup {<<r>> : r \in Questions} :
        /\ asked' = <<q>> \o more
        /\ packet' \in Packets(asked')
    /\ offset' = 12
    /\ UNCHANGED <<server_name, heard, sent>>

\* All questions are heard, or the packet is at its end.
Heard ==
    \/ Len(heard) = packet[6] \/ offset >= Len(packet)
    \/ ParseName(packet, offset).offset + 4 > Len(packet)

\* The next question, of as many as the header says.
Hear ==
    /\ packet # <<>> /\ ~Heard
    /\ \E p \in {ParseName(packet, offset)} :
        LET type == packet[p.offset + 1] * 256 + packet[p.offset + 2]
        IN  /\ heard' = Append(heard, [name |-> p.name, type |-> type])
            /\ sent' = Append(sent, BuildResponse(p.name, type))
            /\ offset' = p.offset + 4
    /\ UNCHANGED <<server_name, packet, asked>>

\* The thread waits for the next query.
Done ==
    /\ packet # <<>> /\ Heard
    /\ packet' = <<>> /\ asked' = <<>> /\ offset' = 0
    /\ heard' = <<>> /\ sent' = <<>>
    /\ UNCHANGED server_name

Next == Receive \/ Hear \/ Done

-----------------------------------------------------------------------------
(* Properties *)

TypeOK ==
    /\ \A i \in DOMAIN packet : packet[i] \in 0..255
    /\ Len(heard) = Len(sent)
    /\ offset \in 0 .. 4096

\* Every question of a query is heard as it was asked, through the pointers, however
\* long the server's name is.
QuestionsHeard == (packet # <<>> /\ Heard) => heard = asked

\* What is told, when the server starts and then in answers, is all a browser
\* needs: each PTR leads to a name of which more is answered, each SRV to a host
\* whose A is with it, and the question for a service brings all four records.
Target(record) == ParseName(record.data, 0).name
Leads(records) ==
    \A r \in ToSet(records) :
        /\ r.type = PTR => BuildResponse(Target(r), ANY) # <<>>
        /\ r.type = SRV => \E host \in ToSet(records) : host.type = A /\ host.name = r.data
\* All this if the server's name makes no label of more than the 63 characters a label
\* may have: put_name() cuts a longer one, and its service is found no more.
LabelsFit ==
    \A label \in ToSet(Labels(airplay_service)) \cup ToSet(Labels(raop_service)) : Len(label) <= 63

AnswersLead ==
    LabelsFit =>
    /\ Leads(Announcement)
    /\ \A i \in DOMAIN sent :
          /\ Leads(sent[i])
          /\ Lower(asked[i].name) \in {airplay_type, raop_type} /\ asked[i].type = PTR =>
                {PTR, SRV, TXT, A} = {r.type : r \in ToSet(sent[i])}

\* Violated: (mdns_service.cpp:180 cuts in silence) the same of every name.
AlwaysLead == Leads(Announcement)

\* Nothing is said of a name that is somebody else's.
OwnNamesOnly ==
    \A i \in DOMAIN sent : heard[i].name = Others => sent[i] = <<>>

-----------------------------------------------------------------------------
(***************************************************************************)
(* The mDNS responder that cast/cast_receiver.cpp has of its own, and the  *)
(* address that it and airplay/mdns_service.cpp give for the host.  It     *)
(* reads names as the other does, and has other answers.                   *)
(***************************************************************************)

VARIABLES
    responder, \* "off", "found", "run" or "failed"
    adapters,  \* what the system has listed
    found      \* the address of both responders' choice, AirPlay's first

castVars == <<mdnsVars, responder, adapters, found>>

-----------------------------------------------------------------------------
(* The address                                                             *)

\* Adapters, each with its addresses: of a private range, one that starts with 192
\* and is not, another, or a link-local one.  The loopback is one that is not up.
Ranges == {"private", "192", "public", "link-local"}
Adapters == [up : BOOLEAN, gateway : BOOLEAN, ranges : SeqOf(Ranges, 2)]

\* The addresses that may be used, in the order of the list.
Usable(list) ==
    FlattenSeq([i \in DOMAIN list |->
        LET adapter == list[i] IN
        IF ~adapter.up THEN <<>>
        ELSE SelectSeq([j \in DOMAIN adapter.ranges |->
                            [at |-> <<i, j>>, range |-> adapter.ranges[j],
                             gateway |-> adapter.gateway]],
                       LAMBDA x : x.range # "link-local")])

Nowhere == <<0, 0>>
\* The first of the better ones, or of all.
FirstOf(better, usable) ==
    CASE better # {} -> usable[Min(better)].at
      [] better = {} /\ usable # <<>> -> usable[1].at
      [] OTHER -> Nowhere

\* mdns_service.cpp: an address with a gateway, or the first.
LocalIp(list) ==
    LET usable == Usable(list)
    IN  FirstOf({i \in DOMAIN usable : usable[i].gateway}, usable)

\* Mutant: any private address, be there a gateway or not.
CastLocalIpAny(list) ==
    LET usable == Usable(list)
    IN  FirstOf({i \in DOMAIN usable : usable[i].range \in {"private", "192"}}, usable)

\* cast_receiver.cpp: one with a gateway that is private, or the first.
CastLocalIp(list) ==
    LET usable == Usable(list)
    IN  FirstOf({i \in DOMAIN usable :
                    usable[i].gateway /\ usable[i].range \in {"private", "192"}}, usable)

-----------------------------------------------------------------------------
(* The answers                                                             *)

_c == 99
cast_type    == <<_c, Dot, _t, Dot, _l>>
cast_service == server_name \o <<Dot>> \o cast_type

\* Mutant: nothing for who asks for the service by its name.
CastResponseTyped(qname, qtype) ==
    LET q == Lower(qname) IN
    IF q = Lower(cast_type) /\ qtype \in {PTR, SRV, TXT, ANY}
    THEN AddServiceRecords(cast_service, cast_type) ELSE <<>>

\* mdns_build_response()
CastResponse(qname, qtype) ==
    LET q == Lower(qname)
        Part(condition, records) == IF condition THEN records ELSE <<>>
    IN  Part(q = services /\ qtype \in {PTR, ANY}, <<Record(services, PTR, PutName(cast_type))>>)
        \o Part(AsksFor(q, cast_service, cast_type) /\ qtype \in {PTR, SRV, TXT, ANY},
                AddServiceRecords(cast_service, cast_type))
        \o Part(q = Lower(hostname) /\ qtype \in {A, ANY}, <<Record(hostname, A, <<>>)>>)

\* mdns_send_announcement()
CastAnnouncement == AddServiceRecords(cast_service, cast_type)

CastQuestions ==
    [name : {cast_type, Upper(cast_type), AsRead(cast_service), hostname, services, airplay_type},
     type : {A, PTR, SRV, ANY, AAAA}]

CastInit == Init /\ responder = "off" /\ adapters = <<>> /\ found = <<>>

\* init_mdns_builtin(), without an address or with one.
CastStart ==
    /\ responder = "off"
    /\ adapters' \in SeqOf(Adapters, 2)
    /\ found' = <<LocalIp(adapters'), CastLocalIp(adapters')>>
    /\ responder' = IF found'[2] = Nowhere THEN "failed" ELSE "found"
    /\ UNCHANGED mdnsVars

\* The socket is bound, has joined the group, and the thread begins, for which the
\* address makes no difference; or one of these has failed.
CastListen ==
    /\ responder = "found"
    /\ responder' \in {"run", "failed"}
    /\ adapters' = <<>> /\ found' = <<>>
    /\ UNCHANGED mdnsVars

castKeeps == <<responder, adapters, found>>

\* mdns_listen_loop(), mdns_handle_query()
CastReceive ==
    /\ responder = "run" /\ packet = <<>>
    /\ \E q \in CastQuestions, more \in {<<>>} \cup {<<r>> : r \in CastQuestions} :
        /\ asked' = <<q>> \o more
        /\ packet' \in Packets(asked')
    /\ offset' = 12
    /\ UNCHANGED <<server_name, heard, sent, castKeeps>>

CastHear ==
    /\ packet # <<>> /\ ~Heard
    /\ \E p \in {ParseName(packet, offset)} :
        LET type == packet[p.offset + 1] * 256 + packet[p.offset + 2]
        IN  /\ heard' = Append(heard, [name |-> p.name, type |-> type])
            /\ sent' = Append(sent, CastResponse(p.name, type))
            /\ offset' = p.offset + 4
    /\ UNCHANGED <<server_name, packet, asked, castKeeps>>

CastDone == Done /\ UNCHANGED castKeeps

CastNext == CastStart \/ CastListen \/ CastReceive \/ CastHear \/ CastDone

-----------------------------------------------------------------------------
(* Properties *)

CastTypeOK ==
    /\ responder \in {"off", "found", "run", "failed"}
    /\ packet # <<>> => responder = "run"
    /\ Len(heard) = Len(sent)

\* Both responders answer for the same host: they give it the same address, as long as
\* nothing but private networks has a gateway.
AddressesAgree ==
    found # <<>> /\ (\A i \in DOMAIN Usable(adapters) :
                        LET x == Usable(adapters)[i] IN x.gateway => x.range \in {"private", "192"})
        => found[1] = found[2]

\* Every question is heard as it was asked; each PTR leads to a name of which more is
\* answered, each SRV to a host whose A is with it, a question for the service brings
\* all records, and another service is not answered for; all but the first if the
\* labels fit.
CastLabelsFit == \A label \in ToSet(Labels(cast_service)) : Len(label) <= 63
CastAnswersLead ==
    /\ (packet # <<>> /\ Heard) => heard = asked
    /\ CastLabelsFit => \A records \in ToSet(sent) \cup {CastAnnouncement}, r \in ToSet(Announcement) :
        \A x \in ToSet(records) :
            /\ x.type = PTR => CastResponse(Target(x), ANY) # <<>>
            /\ x.type = SRV => \E host \in ToSet(records) : host.type = A /\ host.name = x.data
            /\ r.type # A => x.name # r.name
    /\ CastLabelsFit => \A i \in DOMAIN sent :
        Lower(asked[i].name) \in {cast_type, Lower(cast_service)} /\ asked[i].type \in {PTR, SRV} =>
            {PTR, SRV, TXT, A} = {r.type : r \in ToSet(sent[i])}

\* Violated: ("Prefer DHCP/manual routable IPs", cast_receiver.cpp:165) a private address
\* is preferred to one that is not.  Without a gateway the first one counts.
PrefersPrivate ==
    found # <<>> /\ (\E i \in DOMAIN Usable(adapters) : Usable(adapters)[i].range = "private")
        => adapters[found[2][1]].ranges[found[2][2]] = "private"

\* Violated: both responders give the host the same address.
AlwaysAgree == found # <<>> => found[1] = found[2]
=============================================================================
